---------------------------- MODULE AgentProofs -----------------------------
(***************************************************************************)
(* Theorems about the agent for every number of releases, every set of bad *)
(* releases and every admitted set of adverse events: type correctness, the*)
(* anti-rollback properties with the refinement of the abstract device, and*)
(* what the records of a failed update say.                                *)
(***************************************************************************)
EXTENDS Agent, FiniteSetTheorems, TLAPS

-----------------------------------------------------------------------------
(* Lemmas about the operators the agent is built from.                     *)

\* read_counter returns a counter, whether or not the read fails.
LEMMA ReadType ==
  ASSUME NvsType, NEW id \in Ids
  PROVE  read_counter(id) \subseteq Counters
BY MaxCounterAssumption DEF NvsType, read_counter, Counters

\* An NVS write of a counter, successful or not, keeps the records typed.
LEMMA WriteType ==
  ASSUME NvsType, NEW id \in Ids, NEW v \in Counters, NEW rc,
         plat_store_write(id, v, rc)
  PROVE  NvsType'
BY DEF NvsType, plat_store_write

\* ota_plan_boot of counters is a well-formed action record.
LEMMA PlanType ==
  ASSUME NEW c \in BOOLEAN, NEW a \in Counters, NEW p \in Counters
  PROVE  ota_plan_boot(c, a, p) \in Actions
<1>1. 0 \in Counters BY MaxCounterAssumption DEF Counters
<1>2. (p > a) \in BOOLEAN /\ (p # 0) \in BOOLEAN BY DEF Counters
<1>3. NoAction \in Actions BY <1>1 DEF NoAction, Actions
<1> QED BY <1>1, <1>2, <1>3 DEF ota_plan_boot, Actions, NoAction

-----------------------------------------------------------------------------
(* Type correctness.                                                       *)

\* The initial state is well typed.
LEMMA TypeInit == Init => TypeOK
<1> SUFFICES ASSUME Init PROVE TypeOK OBVIOUS
<1>1. 0 \in Counters BY MaxCounterAssumption DEF Counters
<1>2. NvsType BY <1>1 DEF Init, NvsInit, NvsType
<1>3. McubootType BY <1>1 DEF Init, McubootInit, McubootType
<1>4. act \in Actions BY <1>1 DEF Init, NoAction, Actions
<1>5. report \in Reports BY <1>1 DEF Init, Reports
<1>6. losses \in 0..MaxLosses BY MaxLossesAssumption DEF Init
<1> QED BY <1>1, <1>2, <1>3, <1>4, <1>5, <1>6 DEF Init, TypeOK, Pcs, States

\* A step of the bootloader preserves the types.
LEMMA TypeBootLoader == TypeOK /\ BootLoader => TypeOK'
BY DEF TypeOK, BootLoader, SwapTest, SwapRevert, RefuseSwap, NoSwap, Bootable, bootVars,
       NvsType, McubootType, Pcs, States, cloudVars

\* So do the steps of agent_main before boot_confirm.
LEMMA TypeStartup == TypeOK /\ Startup => TypeOK'
<1> SUFFICES ASSUME TypeOK, Startup PROVE TypeOK' OBVIOUS
<1>1. 0 \in Counters BY MaxCounterAssumption DEF Counters
<1>2. NoAction \in Actions BY <1>1 DEF NoAction, Actions
<1> USE DEF TypeOK, bootVars, NvsType, McubootType, Pcs, States, cloudVars
<1>3. CASE StartOk \/ StartFails BY <1>3 DEF StartOk, StartFails, Halt
<1>4. CASE ConnectOk BY <1>4 DEF ConnectOk
<1>5. CASE ConnectFails BY <1>1, <1>2, <1>5 DEF ConnectFails, Halt, Reset
<1>6. CASE IdentityExists \/ IdentityAbsent
  BY <1>6 DEF IdentityExists, IdentityAbsent, Halt
<1>7. CASE EnrollOk \/ EnrollFails BY <1>7 DEF EnrollOk, EnrollFails, Halt
<1>8. CASE Credentials BY <1>8 DEF Credentials, Halt
<1> QED BY <1>3, <1>4, <1>5, <1>6, <1>7, <1>8 DEF Startup

\* So do the steps of boot_confirm.
LEMMA TypeBootConfirm == TypeOK /\ BootConfirm => TypeOK'
<1> SUFFICES ASSUME TypeOK, BootConfirm PROVE TypeOK' OBVIOUS
<1>1. 0 \in Counters BY MaxCounterAssumption DEF Counters
<1>2. NoAction \in Actions BY <1>1 DEF NoAction, Actions
<1>3. act.new_applied \in Counters /\ act.failed_counter \in Counters
  BY DEF TypeOK, Actions
<1>4. CASE Plan
  <2>1. act' \in Actions
    <3>1. PICK a \in plat_applied_counter, p \in plat_pending_counter :
               act' = ota_plan_boot(plat_image_confirmed, a, p)
      BY <1>4 DEF Plan
    <3>2. a \in Counters /\ p \in Counters
      BY ReadType DEF TypeOK, plat_applied_counter, plat_pending_counter, Ids,
                      COUNTER_NVS_ID, PENDING_NVS_ID
    <3>3. plat_image_confirmed \in BOOLEAN BY DEF plat_image_confirmed
    <3> QED BY <3>1, <3>2, <3>3, PlanType
  <2> QED BY <1>4, <2>1
      DEF Plan, TypeOK, NvsType, McubootType, bootVars, cloudVars, Pcs, BootSteps
<1>5. CASE Confirm
  BY <1>5 DEF Confirm, plat_confirm_image, TypeOK, NvsType, McubootType, cloudVars,
              Pcs, BootSteps
<1>6. ASSUME BootConfirm, ~Plan, ~Confirm PROVE NvsType'
  BY <1>1, <1>3, <1>6, WriteType
  DEF BootConfirm, Promote, DropAttempted, ClearPending, RecordFailed, ClearFailed,
      ForgetAttempted, Record, plat_store_counter, plat_store_failed,
      plat_clear_pending, plat_clear_failed, plat_clear_attempted_version,
      plat_store_delete, TypeOK, NvsType, Ids, COUNTER_NVS_ID, PENDING_NVS_ID,
      FAILED_NVS_ID, ATTEMPTED_VERSION_NVS_ID
<1>7. ASSUME BootConfirm, ~Plan, ~Confirm PROVE TypeOK'
  BY <1>2, <1>6, <1>7
  DEF BootConfirm, Promote, DropAttempted, ClearPending, RecordFailed, ClearFailed,
      ForgetAttempted, Record, TypeOK, McubootType, bootVars, cloudVars, Pcs, BootSteps
<1> QED BY <1>4, <1>5, <1>7

\* So do registration, heartbeat and poll.
LEMMA TypeOnline == TypeOK /\ Online => TypeOK'
<1> SUFFICES ASSUME TypeOK, Online PROVE TypeOK' OBVIOUS
<1> USE DEF TypeOK, NvsType, McubootType, bootVars, cloudVars, Pcs, States, OnlineSteps
<1>1. CASE Register BY <1>1 DEF Register
<1>2. CASE HeartbeatSent
  <2>1. report' \in Reports BY <1>2 DEF HeartbeatSent
  <2> QED BY <1>2, <2>1 DEF HeartbeatSent, Halt
<1>3. CASE HeartbeatLost
  <2>1. report' \in Reports BY <1>3 DEF HeartbeatLost
  <2> QED BY <1>3, <2>1 DEF HeartbeatLost
<1>4. CASE PollTarget BY <1>4 DEF PollTarget, plat_fetch_manifest, StageSteps
<1>5. CASE PollIdle BY <1>5 DEF PollIdle
<1> QED BY <1>1, <1>2, <1>3, <1>4, <1>5 DEF Online

\* So do staging and commit.
LEMMA TypeStaging == TypeOK /\ Staging => TypeOK'
<1> SUFFICES ASSUME TypeOK, Staging PROVE TypeOK' OBVIOUS
<1>1. 0 \in Counters BY MaxCounterAssumption DEF Counters
<1>2. NoAction \in Actions BY <1>1 DEF NoAction, Actions
<1>3. CASE StageOpen \/ StageImage \/ StageFails
  BY <1>1, <1>3
  DEF StageOpen, StageImage, StageDone, StageFails, Served, Abandon, TypeOK, NvsType,
      McubootType, cloudVars, Pcs, States, OnlineSteps, StageSteps
<1>4. CASE StoreAttempted \/ StorePending
  <2>1. NvsType'
    BY <1>4, WriteType
    DEF StoreAttempted, StorePending, plat_store_attempted_version,
        plat_store_pending, TypeOK, Ids, PENDING_NVS_ID, ATTEMPTED_VERSION_NVS_ID
  <2> QED BY <1>1, <1>4, <2>1
      DEF StoreAttempted, StorePending, Abandon, TypeOK, McubootType, bootVars,
          cloudVars, Pcs, States, OnlineSteps, StageSteps
<1>5. CASE RequestUpgrade
  BY <1>1, <1>2, <1>5
  DEF RequestUpgrade, boot_request_upgrade, Reset, Abandon, TypeOK, NvsType,
      McubootType, cloudVars, Pcs, States, OnlineSteps
<1> QED BY <1>3, <1>4, <1>5 DEF Staging

\* So do the control plane and power losses.
LEMMA TypeEnvironment == TypeOK /\ Environment => TypeOK'
<1> SUFFICES ASSUME TypeOK, Environment PROVE TypeOK' OBVIOUS
<1>1. 0 \in Counters BY MaxCounterAssumption DEF Counters
<1>2. NoAction \in Actions BY <1>1 DEF NoAction, Actions
<1>3. CASE PowerLoss
  <2>1. losses' \in 0..MaxLosses
    BY <1>3, MaxLossesAssumption DEF PowerLoss, TypeOK
  <2> QED BY <1>1, <1>2, <1>3, <2>1
  DEF PowerLoss, Reset, TypeOK, NvsType, McubootType, bootVars, Pcs, States
<1>4. CASE Offboard \/ \E r \in Counters : Assign(r)
  BY <1>4 DEF Offboard, Assign, TypeOK, NvsType, McubootType, bootVars, threadVars
<1> QED BY <1>3, <1>4 DEF Environment

\* Every reachable state of the agent is well typed: no handler stores a
\* record, a slot content or a decision outside its type, for any Env.
THEOREM TypeCorrect == Spec => []TypeOK
<1>1. TypeOK /\ [Next]_vars => TypeOK'
  <2>1. TypeOK /\ UNCHANGED vars => TypeOK'
    BY DEF TypeOK, vars, bootVars, threadVars, cloudVars, NvsType, McubootType
  <2> QED BY <2>1, TypeBootLoader, TypeStartup, TypeBootConfirm, TypeOnline,
             TypeStaging, TypeEnvironment DEF Next, Device
<1> QED BY <1>1, TypeInit, PTL DEF Spec

-----------------------------------------------------------------------------
(* The order of plat_commit_and_reboot, for every Env.                     *)

\* From the digest check on the target is what slot 1 holds, from the pending
\* record on it is the pending one, and a request is followed by the reset.
CommitOrder == /\ pc \in {"store_attempted", "store_pending", "request"} => slot1 = target
               /\ pc = "request" => Pending = target
               /\ swap_req => pc = "reset" /\ slot1 # Partial /\ slot1 = Pending

\* A step that leaves slots, request and records alone keeps the order, unless
\* it enters the last steps of staging or leaves the reset.
LEMMA CommitQuiet ==
  ASSUME CommitOrder, UNCHANGED <<slot1, swap_req, nvs>>,
         pc' \notin {"store_attempted", "store_pending", "request"},
         pc' = "reset" \/ pc # "reset"
  PROVE  CommitOrder'
BY DEF CommitOrder, Pending

\* Outside the reset nothing is requested, so a step that requests nothing and
\* is not at the end of staging keeps the order whatever it writes.
LEMMA CommitElsewhere ==
  ASSUME CommitOrder, pc # "reset", swap_req' = swap_req,
         pc' \notin {"store_attempted", "store_pending", "request"}
  PROVE  CommitOrder'
BY DEF CommitOrder

\* Every step of the agent and of its environment keeps the order.
LEMMA CommitStep == TypeOK /\ CommitOrder /\ [Next]_vars => CommitOrder'
<1> SUFFICES ASSUME TypeOK, CommitOrder, [Next]_vars PROVE CommitOrder' OBVIOUS
<1>1. CASE UNCHANGED vars
  BY <1>1 DEF CommitOrder, Pending, vars, bootVars, threadVars
<1>2. CASE BootLoader
  BY <1>2 DEF BootLoader, SwapTest, SwapRevert, RefuseSwap, NoSwap, bootVars, CommitOrder
<1>3. CASE Startup
  BY <1>3, CommitElsewhere
  DEF Startup, StartOk, StartFails, ConnectOk, ConnectFails, IdentityExists,
      IdentityAbsent, EnrollOk, EnrollFails, Credentials, Halt, Reset, bootVars
<1>4. CASE BootConfirm
  BY <1>4, CommitElsewhere
  DEF BootConfirm, Plan, Confirm, Promote, DropAttempted, ClearPending, RecordFailed,
      ClearFailed, ForgetAttempted, Record, bootVars
<1>5. CASE Online
  BY <1>5, CommitElsewhere
  DEF Online, Register, HeartbeatSent, HeartbeatLost, PollTarget, PollIdle, Halt, bootVars
<1>6. CASE StageOpen \/ StageFails
  BY <1>6, CommitElsewhere DEF StageOpen, StageFails, Abandon
<1>7. CASE StageImage
  BY <1>7 DEF StageImage, StageDone, verify_slot_sha256, CommitOrder
<1>8. CASE StoreAttempted
  BY <1>8 DEF StoreAttempted, bootVars, CommitOrder
<1>9. CASE StorePending
  <2>1. CASE plat_store_pending(target, 0) /\ pc' = "request"
             /\ UNCHANGED <<state, act, target, identity>>
    <3>1. Pending' = target
      BY <2>1
      DEF plat_store_pending, plat_store_write, Pending, TypeOK, NvsType, Ids,
          PENDING_NVS_ID
    <3> QED BY <1>9, <2>1, <3>1 DEF StorePending, bootVars, CommitOrder
  <2>2. CASE Abandon
    BY <1>9, <2>2, CommitElsewhere DEF StorePending, Abandon, bootVars
  <2> QED BY <1>9, <2>1, <2>2 DEF StorePending
<1>10. CASE RequestUpgrade
  <2>1. target # Partial BY PartialAssumption DEF TypeOK, Counters
  <2> QED BY <1>10, <2>1
      DEF RequestUpgrade, boot_request_upgrade, Reset, Abandon, CommitOrder, Pending
<1>11. CASE Environment
  BY <1>11, CommitQuiet
  DEF Environment, PowerLoss, Offboard, Assign, Reset, threadVars, bootVars, CommitOrder,
      Pending
<1> QED BY <1>1, <1>2, <1>3, <1>4, <1>5, <1>6, <1>7, <1>8, <1>9, <1>10, <1>11
    DEF Next, Device, Staging

\* plat_commit_and_reboot never asks for a swap that the next boot could not
\* attribute: whatever fails, a requested image is complete and pending.
THEOREM RequestedIsPendingHolds == Spec => []RequestedIsPending
<1>1. Init => CommitOrder BY DEF Init, McubootInit, CommitOrder
<1>2. CommitOrder => RequestedIsPending BY DEF CommitOrder, RequestedIsPending
<1> QED BY <1>1, <1>2, CommitStep, TypeCorrect, PTL DEF Spec

-----------------------------------------------------------------------------
(* Anti-rollback.  A swap is only ever requested for a release above the   *)
(* applied counter that is already the pending record; the image on trial  *)
(* therefore is the pending release; boot_confirm confirms before it       *)
(* promotes, so the counter it raises is that of an image MCUboot keeps;   *)
(* and nothing is staged over the image a trial would fall back to.        *)
(* RollbackInv of module Agent is that argument, and the refinement of the *)
(* abstract device follows from it.                                        *)

\* All that RollbackInv says of an unchanged flash is kept by a step of the
\* thread that neither enters boot_confirm's decision nor the staging path.
LEMMA QuietStep ==
  ASSUME RollbackInv, UNCHANGED <<nvs, bootVars>>,
         pc' \notin StageSteps \cup {"confirm", "promote"},
         pc' \in EarlySteps \/ pc \notin EarlySteps,
         pc' = "reset" \/ pc # "reset"
  PROVE  RollbackInv'
BY DEF RollbackInv, RunningInv, NoDowngrade, TrialInv, FlashedInv, KeptInv, RequestInv,
       PlanInv, StageInv, Applied, Pending, Bootable, bootVars, StageSteps

\* The factory state satisfies the invariant.
LEMMA RollbackInit == Init => RollbackInv
BY RefusedAssumption
DEF Init, NvsInit, McubootInit, RollbackInv, RunningInv, NoDowngrade, TrialInv, FlashedInv,
    KeptInv, RequestInv, PlanInv, StageInv, Applied, Pending, Ids, COUNTER_NVS_ID,
    PENDING_NVS_ID, EarlySteps, StageSteps

\* MCUboot: a trial starts from the request, or ends in the old image.
LEMMA RollbackBootLoader == TypeOK /\ RollbackInv /\ BootLoader => RollbackInv'
<1> SUFFICES ASSUME TypeOK, RollbackInv, BootLoader PROVE RollbackInv' OBVIOUS
<1>1. Applied \in Nat /\ Pending \in Nat /\ slot0 \in Nat
  BY MaxCounterAssumption
  DEF TypeOK, NvsType, McubootType, Applied, Pending, Ids, COUNTER_NVS_ID,
      PENDING_NVS_ID, Counters
<1>2. Applied' = Applied /\ Pending' = Pending BY DEF BootLoader, Applied, Pending
<1>3. pc = "reset" /\ pc' = "start" BY DEF BootLoader
<1>4. KeptInv' /\ PlanInv' /\ StageInv'
  BY <1>3 DEF KeptInv, PlanInv, StageInv, EarlySteps, StageSteps
<1>5. CASE SwapTest
  BY <1>1, <1>2, <1>3, <1>4, <1>5, PartialAssumption
  DEF SwapTest, RollbackInv, RunningInv, NoDowngrade, TrialInv, FlashedInv, RequestInv,
      Bootable
<1>6. CASE SwapRevert
  BY <1>1, <1>2, <1>3, <1>4, <1>6
  DEF SwapRevert, RollbackInv, RunningInv, NoDowngrade, TrialInv, FlashedInv, RequestInv,
      Bootable
<1>7. CASE RefuseSwap
  BY <1>1, <1>2, <1>3, <1>4, <1>7
  DEF RefuseSwap, RollbackInv, RunningInv, NoDowngrade, TrialInv, FlashedInv, RequestInv,
      Bootable
<1>8. CASE NoSwap
  BY <1>1, <1>2, <1>3, <1>4, <1>8
  DEF NoSwap, bootVars, RollbackInv, RunningInv, NoDowngrade, TrialInv, FlashedInv,
      RequestInv, Bootable
<1> QED BY <1>5, <1>6, <1>7, <1>8 DEF BootLoader

\* agent_main before boot_confirm writes no flash the invariant speaks of.
LEMMA RollbackStartup == RollbackInv /\ Startup => RollbackInv'
BY QuietStep
DEF Startup, StartOk, StartFails, ConnectOk, ConnectFails, IdentityExists, IdentityAbsent,
    EnrollOk, EnrollFails, Credentials, Halt, Reset, EarlySteps, StageSteps

\* Power loss keeps flash; the control plane touches none of it.
LEMMA RollbackEnvironment == RollbackInv /\ Environment => RollbackInv'
<1> SUFFICES ASSUME RollbackInv, Environment PROVE RollbackInv' OBVIOUS
<1>1. CASE PowerLoss
  BY <1>1, QuietStep DEF PowerLoss, Reset, EarlySteps, StageSteps
<1>2. CASE Offboard \/ \E r \in Counters : Assign(r)
  BY <1>2
  DEF Offboard, Assign, threadVars, bootVars, RollbackInv, RunningInv, NoDowngrade,
      TrialInv, FlashedInv, KeptInv, RequestInv, PlanInv, StageInv, Applied, Pending,
      Bootable, plat_image_confirmed
<1> QED BY <1>1, <1>2 DEF Environment

\* The counters and the running image are numbers that can be compared.
LEMMA FlashNumbers ==
  ASSUME TypeOK
  PROVE  Applied \in Nat /\ Pending \in Nat /\ slot0 \in Nat
BY MaxCounterAssumption
DEF TypeOK, NvsType, McubootType, Applied, Pending, Ids, COUNTER_NVS_ID,
    PENDING_NVS_ID, Counters

\* ota_plan_boot: an unconfirmed image is confirmed, and a promotion happens
\* only to a pending counter of an unconfirmed image above the applied one.
LEMMA PlanFacts ==
  ASSUME NEW c \in BOOLEAN, NEW a, NEW p
  PROVE  /\ ota_plan_boot(c, a, p).confirm = ~c
         /\ ota_plan_boot(c, a, p).promote => ~c /\ p > a
         /\ ota_plan_boot(c, a, p).promote => ota_plan_boot(c, a, p).new_applied = p
BY DEF ota_plan_boot, NoAction

\* boot_confirm: it confirms before it promotes, and promotes the running image.
LEMMA RollbackBootConfirm ==
  ASSUME ReliableFlash
  PROVE  TypeOK /\ RollbackInv /\ BootConfirm => RollbackInv'
<1> SUFFICES ASSUME TypeOK, RollbackInv, BootConfirm PROVE RollbackInv' OBVIOUS
<1> USE DEF StageSteps, EarlySteps
<1>1. Applied \in Nat /\ Pending \in Nat /\ slot0 \in Nat BY FlashNumbers
<1>2. CASE Plan
  <2>1. act' = ota_plan_boot(plat_image_confirmed, Applied, Pending)
    BY <1>2 DEF Plan, ReliableFlash, plat_applied_counter, plat_pending_counter,
                read_counter, Applied, Pending
  <2>2. pc = "plan" /\ pc' = "confirm" /\ UNCHANGED <<nvs, bootVars>>
    BY <1>2 DEF Plan
  <2> QED BY <2>1, <2>2
      DEF RollbackInv, RunningInv, NoDowngrade, TrialInv, FlashedInv, KeptInv, RequestInv,
          PlanInv, StageInv, Applied, Pending, Bootable, bootVars, plat_image_confirmed
<1>3. CASE Confirm
  <2>1. pc = "confirm" /\ pc' = "promote" /\ UNCHANGED <<nvs, slot0, slot1, swap_req, act>>
    BY <1>3 DEF Confirm
  <2>2. act = ota_plan_boot(plat_image_confirmed, Applied, Pending)
    BY <2>1 DEF RollbackInv, PlanInv
  <2>3. act.confirm = (trailer # "confirmed")
    <3>1. plat_image_confirmed \in BOOLEAN BY DEF plat_image_confirmed
    <3>2. act.confirm = ~plat_image_confirmed BY <2>2, <3>1, PlanFacts
    <3> QED BY <3>2 DEF plat_image_confirmed
  <2>4. trailer' = "confirmed"
    BY <1>3, <2>3 DEF Confirm, plat_confirm_image, ReliableFlash
  <2>5. act.promote => trailer # "confirmed" /\ Pending > Applied /\ act.new_applied = Pending
    BY <2>2, PlanFacts DEF plat_image_confirmed
  <2>6. act.promote => act.new_applied = slot0 /\ Applied < slot0
    BY <1>1, <2>5 DEF RollbackInv, TrialInv, FlashedInv, TypeOK, McubootType
  <2> QED BY <2>1, <2>4, <2>6
      DEF RollbackInv, RunningInv, NoDowngrade, TrialInv, FlashedInv, KeptInv, RequestInv,
          PlanInv, StageInv, Applied, Pending, Bootable
<1>4. CASE Promote
  <2>1. pc = "promote" /\ pc' = "drop_attempted" /\ UNCHANGED bootVars
    BY <1>4 DEF Promote, Record
  <2>2. trailer = "confirmed" /\ ~swap_req
    BY <2>1 DEF RollbackInv, KeptInv, RequestInv
  <2>3. \/ nvs' = nvs
        \/ act.promote /\ nvs' = [nvs EXCEPT ![COUNTER_NVS_ID] = act.new_applied]
    BY <1>4 DEF Promote, Record, plat_store_counter, plat_store_write
  <2>4. Applied' <= slot0
    BY <1>1, <2>1, <2>3 DEF RollbackInv, RunningInv, NoDowngrade, PlanInv, Applied, TypeOK,
                            NvsType, Ids, COUNTER_NVS_ID
  <2> QED BY <2>1, <2>2, <2>4
      DEF RollbackInv, RunningInv, NoDowngrade, TrialInv, FlashedInv, KeptInv, RequestInv,
          PlanInv, StageInv, bootVars
<1>5. CASE DropAttempted \/ ClearPending \/ RecordFailed \/ ClearFailed \/ ForgetAttempted
  <2>1. /\ pc \in {"drop_attempted", "clear_pending", "record_failed", "clear_failed",
                   "forget_attempted"}
        /\ pc' \in {"clear_pending", "record_failed", "clear_failed", "forget_attempted",
                    "register"}
        /\ UNCHANGED bootVars
    BY <1>5 DEF DropAttempted, ClearPending, RecordFailed, ClearFailed, ForgetAttempted, Record
  <2>2. trailer = "confirmed" /\ ~swap_req
    BY <2>1 DEF RollbackInv, KeptInv, RequestInv
  <2>3. Applied' = Applied
    BY <1>5
    DEF DropAttempted, ClearPending, RecordFailed, ClearFailed, ForgetAttempted, Record,
        plat_clear_attempted_version, plat_clear_pending, plat_store_failed, plat_clear_failed,
        plat_store_delete, plat_store_write, Applied, TypeOK, NvsType, Ids, COUNTER_NVS_ID,
        PENDING_NVS_ID, FAILED_NVS_ID, ATTEMPTED_VERSION_NVS_ID
  <2> QED BY <2>1, <2>2, <2>3
      DEF RollbackInv, RunningInv, NoDowngrade, TrialInv, FlashedInv, KeptInv, RequestInv,
          PlanInv, StageInv, bootVars
<1> QED BY <1>2, <1>3, <1>4, <1>5 DEF BootConfirm

\* The online loop: only a newer release enters the staging path.
LEMMA RollbackOnline ==
  ASSUME ReliableFlash
  PROVE  RollbackInv /\ Online => RollbackInv'
<1> SUFFICES ASSUME RollbackInv, Online PROVE RollbackInv' OBVIOUS
<1> USE DEF StageSteps, EarlySteps
<1>1. CASE PollTarget
  <2>1. pc = "poll" /\ pc' = "stage" /\ UNCHANGED <<nvs, bootVars>>
    BY <1>1 DEF PollTarget
  <2>2. target' > Applied
    BY <1>1 DEF PollTarget, Accepts, md_check_rollback, plat_applied_counter, read_counter,
                ReliableFlash, Applied
  <2> QED BY <2>1, <2>2
      DEF RollbackInv, RunningInv, NoDowngrade, TrialInv, FlashedInv, KeptInv, RequestInv,
          PlanInv, StageInv, Applied, Pending, Bootable, bootVars
<1>2. CASE Register \/ HeartbeatSent \/ HeartbeatLost \/ PollIdle
  BY <1>2, QuietStep DEF Register, HeartbeatSent, HeartbeatLost, PollIdle, Halt
<1> QED BY <1>1, <1>2 DEF Online

\* Staging and commit: pending is stored before the swap is requested.
LEMMA RollbackStaging == TypeOK /\ RollbackInv /\ Staging => RollbackInv'
<1> SUFFICES ASSUME TypeOK, RollbackInv, Staging PROVE RollbackInv' OBVIOUS
<1> USE DEF StageSteps, EarlySteps
<1>1. Applied \in Nat /\ Pending \in Nat /\ slot0 \in Nat BY FlashNumbers
<1>2. pc \in StageSteps
  BY DEF Staging, StageOpen, StageImage, StageDone, StageFails, StoreAttempted, StorePending,
         RequestUpgrade
<1>3. trailer = "confirmed" /\ ~swap_req /\ Applied < target
  BY <1>2 DEF RollbackInv, KeptInv, RequestInv, StageInv
<1>4. CASE StageOpen \/ StageImage \/ StageFails
  BY <1>3, <1>4
  DEF StageOpen, StageImage, StageDone, StageFails, verify_slot_sha256, Abandon,
      RollbackInv, RunningInv, NoDowngrade, TrialInv, FlashedInv, KeptInv, RequestInv,
      PlanInv, StageInv, Applied, Pending
<1>5. CASE StoreAttempted \/ StorePending
  <2>1. Applied' = Applied
    BY <1>5
    DEF StoreAttempted, StorePending, plat_store_attempted_version, plat_store_pending,
        plat_store_write, Applied, TypeOK, NvsType, Ids, COUNTER_NVS_ID, PENDING_NVS_ID,
        ATTEMPTED_VERSION_NVS_ID
  <2>2. pc' = "request" => Pending' = target
    BY <1>5
    DEF StoreAttempted, StorePending, Abandon, plat_store_pending, plat_store_write, Pending,
        TypeOK, NvsType, Ids, PENDING_NVS_ID
  <2> QED BY <1>3, <1>5, <2>1, <2>2
      DEF StoreAttempted, StorePending, Abandon, bootVars, RollbackInv, RunningInv, NoDowngrade,
          TrialInv, FlashedInv, KeptInv, RequestInv, PlanInv, StageInv
<1>6. CASE RequestUpgrade
  <2>1. slot1 # Partial
    BY <1>6, PartialAssumption
    DEF RequestUpgrade, RollbackInv, StageInv, TypeOK, Counters
  <2> QED BY <1>1, <1>3, <1>6, <2>1
      DEF RequestUpgrade, boot_request_upgrade, Reset, Abandon, RollbackInv, RunningInv,
          NoDowngrade, TrialInv, FlashedInv, KeptInv, RequestInv, PlanInv, StageInv, Applied,
          Pending
<1> QED BY <1>4, <1>5, <1>6 DEF Staging

\* The inductive invariant holds whenever confirm writes and NVS reads do not
\* fail; every other fault, power loss at any step included, is admitted.
THEOREM RollbackInvariant ==
  ASSUME ReliableFlash
  PROVE  Spec => []RollbackInv
<1>1. TypeOK /\ RollbackInv /\ [Next]_vars => RollbackInv'
  <2>1. RollbackInv /\ UNCHANGED vars => RollbackInv'
    BY DEF vars, bootVars, threadVars, RollbackInv, RunningInv, NoDowngrade, TrialInv,
           FlashedInv, KeptInv, RequestInv, PlanInv, StageInv, Applied, Pending, Bootable,
           plat_image_confirmed
  <2> QED BY <2>1, RollbackBootLoader, RollbackStartup, RollbackBootConfirm, RollbackOnline,
             RollbackStaging, RollbackEnvironment DEF Next, Device
<1> QED BY <1>1, RollbackInit, TypeCorrect, PTL DEF Spec

\* Anti-rollback: no crash, failed write, revert or re-assignment makes the
\* device run an image older than its applied counter.
THEOREM NoDowngradeHolds ==
  ASSUME ReliableFlash
  PROVE  Spec => []NoDowngrade
<1>1. RollbackInv => NoDowngrade BY DEF RollbackInv, RunningInv
<1> QED BY <1>1, RollbackInvariant, PTL

\* During a trial the displaced image stays bootable and above the floor.
THEOREM FallbackIntactHolds ==
  ASSUME ReliableFlash
  PROVE  Spec => []FallbackIntact
<1>1. TypeOK /\ RollbackInv => FallbackIntact
  <2> SUFFICES ASSUME TypeOK, RollbackInv, trailer = "test"
               PROVE  Bootable(slot1) /\ slot1 >= Applied
    BY DEF FallbackIntact
  <2>1. Bootable(slot1) /\ Applied <= slot1 BY DEF RollbackInv, TrialInv
  <2> QED BY <2>1, FlashNumbers DEF Bootable, TypeOK, McubootType, Counters
<1> QED BY <1>1, RollbackInvariant, TypeCorrect, PTL

\* boot_confirm raises the applied counter only to the running image's, and
\* only once that image is confirmed.
THEOREM PromotedIsKeptHolds ==
  ASSUME ReliableFlash
  PROVE  Spec => PromotedIsKept
<1>1. ASSUME TypeOK, RollbackInv, [Next]_vars, Applied' # Applied
      PROVE  Applied' = slot0 /\ trailer = "confirmed"
  <2>1. Promote
    BY <1>1
    DEF vars, Next, Device, Environment, BootLoader, Startup, StartOk, StartFails, ConnectOk,
        ConnectFails, IdentityExists, IdentityAbsent, EnrollOk, EnrollFails, Credentials,
        BootConfirm, Plan, Confirm, DropAttempted, ClearPending, RecordFailed, ClearFailed,
        ForgetAttempted, Record, plat_clear_attempted_version, plat_clear_pending,
        plat_store_failed, plat_clear_failed, plat_store_delete, plat_store_write, Online,
        Register, HeartbeatSent, HeartbeatLost, PollTarget, PollIdle, Staging, StageOpen,
        StageImage, StageDone, StageFails, StoreAttempted, StorePending,
        plat_store_attempted_version, plat_store_pending, RequestUpgrade, PowerLoss, Offboard,
        Assign, Applied, TypeOK, NvsType, Ids, COUNTER_NVS_ID, PENDING_NVS_ID, FAILED_NVS_ID,
        ATTEMPTED_VERSION_NVS_ID
  <2>2. pc = "promote" /\ act.promote
        /\ nvs' = [nvs EXCEPT ![COUNTER_NVS_ID] = act.new_applied]
    BY <1>1, <2>1 DEF Promote, Record, plat_store_counter, plat_store_write, Applied
  <2> QED BY <1>1, <2>2
      DEF RollbackInv, PlanInv, KeptInv, EarlySteps, Applied, TypeOK, NvsType, Ids,
          COUNTER_NVS_ID
<1> QED BY <1>1, RollbackInvariant, TypeCorrect, PTL DEF Spec, PromotedIsKept

\* The lifecycle state the application sees is online only past boot_confirm.
StateInv == pc \in EarlySteps => state \notin {"ONLINE", "UPDATING"}

\* Every step sets the state that belongs to the thread's next position.
LEMMA StateStep == StateInv /\ [Next]_vars => StateInv'
<1> SUFFICES ASSUME StateInv, [Next]_vars PROVE StateInv' OBVIOUS
<1>1. CASE UNCHANGED vars BY <1>1 DEF StateInv, vars, threadVars
<1>2. CASE BootLoader BY <1>2 DEF BootLoader, StateInv
<1>3. CASE Startup
  BY <1>3
  DEF Startup, StartOk, StartFails, ConnectOk, ConnectFails, IdentityExists,
      IdentityAbsent, EnrollOk, EnrollFails, Credentials, Halt, Reset, StateInv,
      EarlySteps
<1>4. CASE BootConfirm
  BY <1>4
  DEF BootConfirm, Plan, Confirm, Promote, DropAttempted, ClearPending, RecordFailed,
      ClearFailed, ForgetAttempted, Record, StateInv, EarlySteps
<1>5. CASE Online
  BY <1>5
  DEF Online, Register, HeartbeatSent, HeartbeatLost, PollTarget, PollIdle, Halt,
      StateInv, EarlySteps
<1>6. CASE Staging
  BY <1>6
  DEF Staging, StageOpen, StageImage, StageDone, StageFails, StoreAttempted,
      StorePending, RequestUpgrade, Abandon, Reset, StateInv, EarlySteps
<1>7. CASE Environment
  BY <1>7 DEF Environment, PowerLoss, Offboard, Assign, Reset, threadVars, StateInv
<1> QED BY <1>1, <1>2, <1>3, <1>4, <1>5, <1>6, <1>7 DEF Next, Device

\* The agent is online, and overwrites slot 1, only from an image that MCUboot
\* keeps: every trial is decided by boot_confirm before the online loop.
THEOREM OnlineIsKeptHolds ==
  ASSUME ReliableFlash
  PROVE  Spec => []OnlineIsKept
<1>1. Init => StateInv BY DEF Init, StateInv
<1>2. StateInv /\ RollbackInv => OnlineIsKept
  BY DEF StateInv, RollbackInv, KeptInv, OnlineIsKept
<1> QED BY <1>1, <1>2, StateStep, RollbackInvariant, PTL DEF Spec

-----------------------------------------------------------------------------
(* The agent implements the abstract device of module DeviceAbs: MCUboot's *)
(* swap is Try, its revert is FallBack, boot_confirm's confirm is Keep and *)
(* its promotion is Raise; every other step changes nothing of it.         *)

\* A step of MCUboot starts a trial, gives one up, or changes nothing.
LEMMA BootLoaderRefines ==
  ASSUME TypeOK, RollbackInv, BootLoader
  PROVE  [Dev!AbsNext]_(Dev!absVars)
<1>1. Applied' = Applied BY DEF BootLoader, Applied
<1>2. CASE SwapTest
  <2>1. trailer # "test" /\ slot1 \in Counters /\ slot1 > Applied
    BY <1>2 DEF SwapTest, Bootable, RollbackInv, TrialInv, RequestInv, TypeOK, McubootType
  <2>2. Dev!Try(slot1)
    BY <1>1, <1>2, <2>1 DEF SwapTest, Dev!Try
  <2> QED BY <2>1, <2>2 DEF Dev!AbsNext
<1>3. CASE SwapRevert
  BY <1>1, <1>3 DEF SwapRevert, Dev!FallBack, Dev!AbsNext
<1>4. CASE RefuseSwap
  <2>1. trailer # "test" BY <1>4 DEF RefuseSwap, RollbackInv, TrialInv
  <2> QED BY <1>1, <1>4, <2>1 DEF RefuseSwap, Dev!absVars
<1>5. CASE NoSwap
  BY <1>1, <1>5 DEF NoSwap, bootVars, Dev!absVars
<1> QED BY <1>2, <1>3, <1>4, <1>5 DEF BootLoader

\* boot_confirm keeps the trial image, then raises the floor to it.
LEMMA BootConfirmRefines ==
  ASSUME ReliableFlash, TypeOK, RollbackInv, BootConfirm
  PROVE  [Dev!AbsNext]_(Dev!absVars)
<1>1. CASE Confirm
  <2>1. UNCHANGED <<slot0, slot1, nvs>> BY <1>1 DEF Confirm
  <2>2. trailer' = trailer \/ trailer' = "confirmed"
    BY <1>1 DEF Confirm, plat_confirm_image
  <2> QED BY <2>1, <2>2 DEF Dev!Keep, Dev!AbsNext, Dev!absVars, Applied
<1>2. CASE Promote
  <2>1. pc = "promote" /\ UNCHANGED bootVars BY <1>2 DEF Promote, Record
  <2>2. trailer = "confirmed" BY <2>1 DEF RollbackInv, KeptInv, EarlySteps
  <2>3. \/ nvs' = nvs
        \/ act.promote /\ nvs' = [nvs EXCEPT ![COUNTER_NVS_ID] = act.new_applied]
    BY <1>2 DEF Promote, Record, plat_store_counter, plat_store_write
  <2>4. Applied' = Applied \/ (Applied' = slot0 /\ slot0 > Applied)
    BY <2>1, <2>3, FlashNumbers
    DEF RollbackInv, PlanInv, Applied, TypeOK, NvsType, Ids, COUNTER_NVS_ID
  <2> QED BY <2>1, <2>2, <2>4 DEF bootVars, Dev!Raise, Dev!AbsNext, Dev!absVars
<1>3. CASE Plan \/ DropAttempted \/ ClearPending \/ RecordFailed \/ ClearFailed
           \/ ForgetAttempted
  BY <1>3
  DEF Plan, DropAttempted, ClearPending, RecordFailed, ClearFailed, ForgetAttempted, Record,
      plat_clear_attempted_version, plat_clear_pending, plat_store_failed, plat_clear_failed,
      plat_store_delete, plat_store_write, Applied, TypeOK, NvsType, Ids, COUNTER_NVS_ID,
      PENDING_NVS_ID, FAILED_NVS_ID, ATTEMPTED_VERSION_NVS_ID, bootVars, Dev!absVars
<1> QED BY <1>1, <1>2, <1>3 DEF BootConfirm

\* Staging writes slot 1 only while the known-good image is the running one.
LEMMA StagingRefines ==
  ASSUME TypeOK, RollbackInv, Staging
  PROVE  [Dev!AbsNext]_(Dev!absVars)
<1>1. pc \in StageSteps
  BY DEF Staging, StageOpen, StageImage, StageDone, StageFails, StoreAttempted, StorePending,
         RequestUpgrade, StageSteps
<1>2. trailer = "confirmed" BY <1>1 DEF RollbackInv, KeptInv, StageSteps, EarlySteps
<1>3. trailer' = trailer /\ slot0' = slot0
  BY DEF Staging, StageOpen, StageImage, StageDone, StageFails, StoreAttempted, StorePending,
         RequestUpgrade, bootVars
<1>4. Applied' = Applied
  BY DEF Staging, StageOpen, StageImage, StageDone, StageFails, StoreAttempted, StorePending,
         RequestUpgrade, plat_store_attempted_version, plat_store_pending, plat_store_write,
         Applied, TypeOK, NvsType, Ids, COUNTER_NVS_ID, PENDING_NVS_ID,
         ATTEMPTED_VERSION_NVS_ID
<1> QED BY <1>2, <1>3, <1>4 DEF Dev!absVars

\* Nothing else touches the slots, the trailer or the applied counter.
LEMMA OtherStepsRefine ==
  ASSUME Startup \/ Online \/ Environment
  PROVE  [Dev!AbsNext]_(Dev!absVars)
BY DEF Startup, StartOk, StartFails, ConnectOk, ConnectFails, IdentityExists, IdentityAbsent,
       EnrollOk, EnrollFails, Credentials, Online, Register, HeartbeatSent, HeartbeatLost,
       PollTarget, PollIdle, Environment, PowerLoss, Offboard, Assign, bootVars, Applied,
       Dev!absVars

\* Whenever confirm writes and NVS reads do not fail, every behaviour of the
\* agent, its crashes included, is one of the abstract device: it tries only
\* newer releases, falls back only to the known-good image, and raises its
\* floor only to an image it keeps.
THEOREM AgentImplementsDevice ==
  ASSUME ReliableFlash
  PROVE  Spec => ImplementsDevice
<1>1. Init => Dev!AbsInit
  BY DEF Init, NvsInit, McubootInit, Dev!AbsInit, Applied, Ids, COUNTER_NVS_ID
<1>2. TypeOK /\ RollbackInv /\ [Next]_vars => [Dev!AbsNext]_(Dev!absVars)
  <2>1. UNCHANGED vars => UNCHANGED Dev!absVars
    BY DEF vars, bootVars, Applied, Dev!absVars
  <2> QED BY <2>1, BootLoaderRefines, BootConfirmRefines, StagingRefines, OtherStepsRefine
      DEF Next, Device
<1> QED BY <1>1, <1>2, RollbackInvariant, TypeCorrect, PTL
    DEF Spec, ImplementsDevice, Dev!AbsSpec

-----------------------------------------------------------------------------
(* Blame.  The records boot_confirm keeps of a failed update name a release*)
(* that MCUboot rejected, the heartbeat reports that release and no other, *)
(* and poll_once never asks for it again, for every set of releases.  Each *)
(* theorem names the faults it has to exclude; a behaviour in which power  *)
(* was lost is excluded by the properties themselves.                      *)

-----------------------------------------------------------------------------
(* What each step writes.                                                  *)

\* A write changes its own record, if any.
LEMMA WritesOne ==
  ASSUME NvsType, NEW id \in Ids, NEW v, NEW rc, plat_store_write(id, v, rc)
  PROVE  /\ \A j \in Ids \ {id} : nvs'[j] = nvs[j]
         /\ nvs'[id] = v \/ ("nvs_write" \in Env /\ nvs'[id] = nvs[id])
BY DEF NvsType, plat_store_write

\* The four records under their names.
LEMMA FourRecords ==
  /\ Ids = {1, 2, 3, 4}
  /\ Applied = nvs[1] /\ Pending = nvs[2] /\ Failed = nvs[3] /\ Attempted = nvs[4]
  /\ Applied' = nvs'[1] /\ Pending' = nvs'[2] /\ Failed' = nvs'[3] /\ Attempted' = nvs'[4]
BY DEF Ids, Applied, Pending, Failed, Attempted, COUNTER_NVS_ID, PENDING_NVS_ID, FAILED_NVS_ID,
       ATTEMPTED_VERSION_NVS_ID

\* A write is lost only to a flash error.
Written(record, old, value) == record = value \/ ("nvs_write" \in Env /\ record = old)

\* boot_confirm's records, one step each.
LEMMA BootRecords ==
  ASSUME NvsType
  PROVE  /\ Promote => /\ UNCHANGED <<Pending, Failed, Attempted>>
                       /\ IF act.promote THEN Written(Applied', Applied, act.new_applied)
                                         ELSE Applied' = Applied
         /\ DropAttempted => /\ UNCHANGED <<Applied, Pending, Failed>>
                             /\ IF act.promote THEN Written(Attempted', Attempted, 0)
                                               ELSE Attempted' = Attempted
         /\ ClearPending => UNCHANGED <<Applied, Failed, Attempted>>
         /\ RecordFailed => /\ UNCHANGED <<Applied, Pending, Attempted>>
                            /\ IF act.record_failed THEN Written(Failed', Failed, act.failed_counter)
                                                    ELSE Failed' = Failed
         /\ ClearFailed => /\ UNCHANGED <<Applied, Pending, Attempted>>
                           /\ IF act.clear_failed THEN Failed' \in {0, Failed}
                                                  ELSE Failed' = Failed
         /\ ForgetAttempted => /\ UNCHANGED <<Applied, Pending, Failed>>
                               /\ Attempted' \in {0, Attempted}
<1> USE FourRecords DEF Written
<1>1. Promote => /\ UNCHANGED <<Pending, Failed, Attempted>>
                 /\ IF act.promote THEN Written(Applied', Applied, act.new_applied)
                                   ELSE Applied' = Applied
  BY WritesOne DEF Promote, Record, plat_store_counter, COUNTER_NVS_ID
<1>2. DropAttempted => /\ UNCHANGED <<Applied, Pending, Failed>>
                       /\ IF act.promote THEN Written(Attempted', Attempted, 0)
                                         ELSE Attempted' = Attempted
  BY WritesOne DEF DropAttempted, Record, plat_clear_attempted_version, plat_store_delete,
                   ATTEMPTED_VERSION_NVS_ID
<1>3. ClearPending => UNCHANGED <<Applied, Failed, Attempted>>
  BY WritesOne DEF ClearPending, Record, plat_clear_pending, plat_store_delete, PENDING_NVS_ID
<1>4. RecordFailed => /\ UNCHANGED <<Applied, Pending, Attempted>>
                      /\ IF act.record_failed THEN Written(Failed', Failed, act.failed_counter)
                                              ELSE Failed' = Failed
  BY WritesOne DEF RecordFailed, Record, plat_store_failed, FAILED_NVS_ID
<1>5. ClearFailed => /\ UNCHANGED <<Applied, Pending, Attempted>>
                     /\ IF act.clear_failed THEN Failed' \in {0, Failed} ELSE Failed' = Failed
  BY WritesOne DEF ClearFailed, Record, plat_clear_failed, plat_store_delete, FAILED_NVS_ID
<1>6. ForgetAttempted => /\ UNCHANGED <<Applied, Pending, Failed>>
                         /\ Attempted' \in {0, Attempted}
  BY WritesOne DEF ForgetAttempted, Record, plat_clear_attempted_version, plat_store_delete,
                   ATTEMPTED_VERSION_NVS_ID
<1> QED BY <1>1, <1>2, <1>3, <1>4, <1>5, <1>6

\* The two records written before a swap is requested.
LEMMA StageRecords ==
  ASSUME NvsType
  PROVE  /\ StoreAttempted => /\ UNCHANGED <<Applied, Pending, Failed>>
                              /\ Written(Attempted', Attempted, target)
         /\ StorePending => /\ UNCHANGED <<Applied, Failed, Attempted>>
                            /\ \/ Pending' = target /\ pc' = "request" /\ UNCHANGED target
                               \/ "nvs_write" \in Env /\ Abandon /\ Pending' = Pending
         /\ (StageOpen \/ StageImage \/ StageFails \/ RequestUpgrade) => UNCHANGED nvs
<1> USE FourRecords DEF Written
<1>1. StoreAttempted => /\ UNCHANGED <<Applied, Pending, Failed>>
                        /\ Written(Attempted', Attempted, target)
  BY WritesOne DEF StoreAttempted, plat_store_attempted_version, ATTEMPTED_VERSION_NVS_ID
<1>2. StorePending => UNCHANGED <<Applied, Failed, Attempted>>
  BY WritesOne DEF StorePending, plat_store_pending, PENDING_NVS_ID
<1>3. StorePending => \/ Pending' = target /\ pc' = "request" /\ UNCHANGED target
                      \/ "nvs_write" \in Env /\ Abandon /\ Pending' = Pending
  BY DEF StorePending, plat_store_pending, plat_store_write, NvsType, PENDING_NVS_ID
<1>4. (StageOpen \/ StageImage \/ StageFails \/ RequestUpgrade) => UNCHANGED nvs
  BY DEF StageOpen, StageImage, StageDone, StageFails, RequestUpgrade
<1> QED BY <1>1, <1>2, <1>3, <1>4

\* Only MCUboot rejects a release, and only a power loss counts as one.
LEMMA OtherStepsReject ==
  ASSUME Startup \/ BootConfirm \/ Online \/ Staging
  PROVE  rejected' = rejected /\ losses' = losses /\ assigned' = assigned
BY DEF Startup, StartOk, StartFails, ConnectOk, ConnectFails, IdentityExists, IdentityAbsent,
       EnrollOk, EnrollFails, Credentials, BootConfirm, Plan, Confirm, Promote, DropAttempted,
       ClearPending, RecordFailed, ClearFailed, ForgetAttempted, Record, Online, Register,
       HeartbeatSent, HeartbeatLost, PollTarget, PollIdle, Staging, StageOpen, StageImage,
       StageDone, StageFails, StoreAttempted, StorePending, RequestUpgrade, bootVars, cloudVars

\* agent_main before boot_confirm: no write, and a reset only of an image that
\* is not kept.
LEMMA StartupFrame ==
  ASSUME Startup
  PROVE  /\ UNCHANGED <<nvs, bootVars>>
         /\ pc \in Undecided /\ pc' \in Undecided \cup {"reset", "halted"}
         /\ pc' = "reset" => trailer # "confirmed" /\ UNCHANGED report
         /\ pc' # "reset" => UNCHANGED <<act, target, report>>
         /\ pc' # "confirm"
BY DEF Startup, StartOk, StartFails, ConnectOk, ConnectFails, IdentityExists, IdentityAbsent,
       EnrollOk, EnrollFails, Credentials, Halt, Reset, plat_image_confirmed, Undecided

\* The online loop writes no flash.
LEMMA OnlineFrame ==
  ASSUME Online
  PROVE  /\ UNCHANGED <<nvs, bootVars, act>>
         /\ pc \in {"register", "heartbeat", "poll"}
         /\ pc' \in {"heartbeat", "poll", "stage", "halted"}
BY DEF Online, Register, HeartbeatSent, HeartbeatLost, PollTarget, PollIdle, Halt

\* What MCUboot makes of a reset: a requested image on trial, a trial given up,
\* a requested image refused, or nothing new.
LEMMA BootLoaderFrame ==
  ASSUME TypeOK, RollbackInv, BootLoader
  PROVE  /\ UNCHANGED <<nvs, act, target, report, assigned, losses>>
         /\ pc = "reset" /\ pc' = "start" /\ swap_req' = FALSE
         /\ \/ swap_req /\ trailer' = "test" /\ rejected' = rejected
            \/ /\ swap_req \/ trailer = "test"
               /\ trailer' = "confirmed" /\ rejected' = rejected \cup {Pending}
            \/ ~swap_req /\ trailer # "test" /\ trailer' = trailer /\ rejected' = rejected
<1>1. /\ UNCHANGED <<nvs, act, target, report, assigned, losses>>
      /\ pc = "reset" /\ pc' = "start"
  BY DEF BootLoader, cloudVars
<1>2. CASE SwapTest
  BY <1>1, <1>2 DEF SwapTest
<1>3. CASE SwapRevert
  BY <1>1, <1>3 DEF SwapRevert, RollbackInv, TrialInv, TypeOK, McubootType
<1>4. CASE RefuseSwap
  <2>1. swap_req /\ slot1 # Partial /\ slot1 = Pending
    BY <1>4 DEF RefuseSwap, RollbackInv, TrialInv, RequestInv
  <2> QED BY <1>1, <1>4, <2>1 DEF RefuseSwap
<1>5. CASE NoSwap
  BY <1>1, <1>5 DEF NoSwap, bootVars, TypeOK, McubootType
<1> QED BY <1>2, <1>3, <1>4, <1>5 DEF BootLoader

\* boot_confirm decides from the pending record: the one of an image that is
\* kept is a failure, the one of an image on trial a success.
LEMMA ConfirmFrame ==
  ASSUME ReliableFlash, TypeOK, RollbackInv, Confirm
  PROVE  /\ pc = "confirm" /\ pc' = "promote" /\ trailer' = "confirmed"
         /\ UNCHANGED <<nvs, act, target, report, swap_req>>
         /\ act.record_failed => trailer = "confirmed" /\ Pending # 0 /\ act.failed_counter = Pending
         /\ trailer = "confirmed" /\ Pending # 0 => act.record_failed
         /\ trailer = "test" => act.promote
         /\ act.clear_failed => trailer = "test" /\ act.promote /\ act.new_applied = Pending
         /\ act.promote => act.clear_failed
<1>1. pc = "confirm" /\ pc' = "promote" /\ UNCHANGED <<nvs, act, target, report, swap_req>>
  BY DEF Confirm
<1>2. act = ota_plan_boot(plat_image_confirmed, Applied, Pending)
  BY <1>1 DEF RollbackInv, PlanInv
<1>3. Applied \in Nat /\ Pending \in Nat
  BY FlashNumbers
<1>4. CASE trailer = "confirmed"
  <2>1. act = [NoAction EXCEPT !.clear_pending = Pending # 0, !.record_failed = Pending # 0,
                               !.failed_counter = Pending]
    BY <1>2, <1>4 DEF ota_plan_boot, plat_image_confirmed
  <2>2. /\ act.record_failed = (Pending # 0) /\ act.failed_counter = Pending
        /\ act.clear_failed = FALSE /\ act.promote = FALSE /\ act.confirm = FALSE
    BY <2>1 DEF NoAction
  <2>3. trailer' = "confirmed"
    BY <1>4, <2>2 DEF Confirm
  <2> QED BY <1>1, <1>4, <2>2, <2>3
<1>5. CASE trailer # "confirmed"
  <2>1. act = [NoAction EXCEPT !.confirm = TRUE, !.promote = Pending > Applied,
                               !.new_applied = IF Pending > Applied THEN Pending ELSE 0,
                               !.clear_failed = Pending > Applied,
                               !.clear_pending = Pending # 0]
    BY <1>2, <1>5 DEF ota_plan_boot, plat_image_confirmed
  <2>2. /\ act.record_failed = FALSE /\ act.confirm = TRUE
        /\ act.promote = (Pending > Applied) /\ act.clear_failed = (Pending > Applied)
        /\ Pending > Applied => act.new_applied = Pending
    BY <2>1 DEF NoAction
  <2>3. trailer = "test" => Pending > Applied
    BY <1>3 DEF RollbackInv, TrialInv
  <2>4. Pending > Applied => trailer = "test"
    BY <1>3, <1>5 DEF RollbackInv, FlashedInv, TypeOK, McubootType
  <2>5. trailer' = "confirmed"
    BY <2>2 DEF Confirm, plat_confirm_image, ReliableFlash
  <2> QED BY <1>1, <1>5, <2>2, <2>3, <2>4, <2>5
<1> QED BY <1>4, <1>5

-----------------------------------------------------------------------------
(* The failed record.                                                      *)

\* A step outside a boot's decision keeps the blame as long as it records no
\* failure and resets only for a requested swap.
LEMMA BlameElsewhere ==
  ASSUME BlameInv, losses' = losses, rejected' = rejected, Failed' \in {0, Failed},
         pc' \notin Undecided \cup Recording, pc' = "reset" => swap_req'
  PROVE  BlameInv'
BY DEF BlameInv

\* Every step of the agent and of its environment keeps the blame right.
LEMMA BlameStep ==
  ASSUME ReliableFlash
  PROVE  TypeOK /\ RollbackInv /\ BlameInv /\ [Next]_vars => BlameInv'
<1> SUFFICES ASSUME TypeOK, RollbackInv, BlameInv, [Next]_vars PROVE BlameInv' OBVIOUS
<1> USE DEF Undecided, Recording
<1>1. CASE UNCHANGED vars
  BY <1>1 DEF vars, bootVars, threadVars, cloudVars, BlameInv, Failed, Pending
<1>2. CASE BootLoader
  BY <1>2, BootLoaderFrame DEF BlameInv, Failed, Pending
<1>3. CASE Startup
  <2>1. pc' = "reset" => trailer = "test" \/ Pending = 0
    BY <1>3, StartupFrame DEF RollbackInv, FlashedInv, TypeOK, McubootType
  <2> QED BY <1>3, <2>1, StartupFrame, OtherStepsReject DEF BlameInv, Failed, Pending, bootVars
<1>4. CASE Plan
  BY <1>4 DEF Plan, BlameInv, bootVars, cloudVars, Failed, Pending
<1>5. CASE Confirm
  <2>1. losses' = losses /\ rejected' = rejected
    BY <1>5, OtherStepsReject DEF BootConfirm
  <2> QED BY <1>5, <2>1, ConfirmFrame DEF BlameInv, Failed, Pending
<1>6. CASE Promote \/ DropAttempted \/ ClearPending
  <2>1. Failed' = Failed
    BY <1>6, BootRecords DEF TypeOK
  <2> QED BY <1>6, <2>1
      DEF Promote, DropAttempted, ClearPending, Record, BlameInv, bootVars, cloudVars
<1>7. CASE RecordFailed
  <2>1. /\ pc = "record_failed" /\ pc' = "clear_failed"
        /\ losses' = losses /\ rejected' = rejected
    BY <1>7 DEF RecordFailed, Record, bootVars, cloudVars
  <2>2. Failed' = Failed \/ (act.record_failed /\ Failed' = act.failed_counter)
    BY <1>7, BootRecords DEF TypeOK, Written
  <2> QED BY <2>1, <2>2 DEF BlameInv
<1>8. CASE ClearFailed \/ ForgetAttempted
  <2>1. Failed' \in {0, Failed}
    BY <1>8, BootRecords DEF TypeOK
  <2> QED BY <1>8, <2>1, BlameElsewhere
      DEF ClearFailed, ForgetAttempted, Record, bootVars, cloudVars
<1>9. CASE Online
  BY <1>9, OnlineFrame, OtherStepsReject, BlameElsewhere DEF Failed
<1>10. CASE Staging
  <2>1. Failed' = Failed
    BY <1>10, StageRecords DEF Staging, TypeOK, Failed
  <2>2. pc' \notin Undecided \cup Recording /\ (pc' = "reset" => swap_req')
    BY <1>10
    DEF Staging, StageOpen, StageImage, StageDone, StageFails, StoreAttempted, StorePending,
        RequestUpgrade, boot_request_upgrade, Reset, Abandon
  <2> QED BY <1>10, <2>1, <2>2, OtherStepsReject, BlameElsewhere
<1>11. CASE Environment
  BY <1>11
  DEF Environment, PowerLoss, Offboard, Assign, threadVars, bootVars, BlameInv, TypeOK, Failed,
      Pending
<1> QED BY <1>1, <1>2, <1>3, <1>4, <1>5, <1>6, <1>7, <1>8, <1>9, <1>10, <1>11
    DEF Next, Device, BootConfirm

\* A boot of a kept image blames the release MCUboot rejected, whatever write,
\* request or connection failed before.
THEOREM BlameInvariant ==
  ASSUME ReliableFlash
  PROVE  Spec => []BlameInv
<1>1. Init => BlameInv
  BY FourRecords DEF Init, NvsInit, McubootInit, BlameInv, Undecided, Recording
<1> QED BY <1>1, BlameStep, RollbackInvariant, TypeCorrect, PTL DEF Spec

\* The failed record names a release that MCUboot reverted or refused, unless
\* power was lost, a confirm write failed or an NVS read failed.
THEOREM FailedWasRejectedHolds ==
  ASSUME ReliableFlash
  PROVE  Spec => []FailedWasRejected
<1>1. BlameInv => FailedWasRejected
  BY DEF BlameInv, FailedWasRejected
<1> QED BY <1>1, BlameInvariant, PTL

-----------------------------------------------------------------------------
(* The reverted version of a heartbeat.                                    *)

\* A step that writes no attempted version, leaves swap and trial alone and is
\* outside boot_confirm's promotion and the commit keeps the report right.
LEMMA ReportElsewhere ==
  ASSUME ReportInv, UNCHANGED <<losses, rejected, report, swap_req, trailer, Pending, Attempted>>,
         pc \notin {"store_pending", "request", "promote", "drop_attempted"}
  PROVE  ReportInv'
BY DEF ReportInv

\* Every step of the agent and of its environment keeps the report right, if
\* no record is lost and no request of a swap fails.
LEMMA ReportStep ==
  ASSUME ReliableFlash, "nvs_write" \notin Env, "upgrade" \notin Env
  PROVE  TypeOK /\ RollbackInv /\ ReportInv /\ [Next]_vars => ReportInv'
<1> SUFFICES ASSUME TypeOK, RollbackInv, ReportInv, [Next]_vars PROVE ReportInv' OBVIOUS
<1>1. CASE UNCHANGED vars
  BY <1>1 DEF vars, bootVars, threadVars, cloudVars, ReportInv, Attempted, Pending
<1>2. CASE BootLoader
  BY <1>2, BootLoaderFrame DEF ReportInv, Attempted, Pending
<1>3. CASE Startup
  BY <1>3, StartupFrame, OtherStepsReject, ReportElsewhere
  DEF Undecided, Attempted, Pending, bootVars
<1>4. CASE Plan
  BY <1>4, ReportElsewhere DEF Plan, bootVars, cloudVars, Attempted, Pending
<1>5. CASE Confirm
  <2>1. losses' = losses /\ rejected' = rejected
    BY <1>5, OtherStepsReject DEF BootConfirm
  <2> QED BY <1>5, <2>1, ConfirmFrame
      DEF ReportInv, Attempted, Pending, RollbackInv, RequestInv
<1>6. CASE Promote
  <2>1. /\ pc = "promote" /\ pc' = "drop_attempted"
        /\ UNCHANGED <<losses, rejected, report, swap_req, trailer, act>>
    BY <1>6 DEF Promote, Record, bootVars, cloudVars
  <2>2. UNCHANGED <<Pending, Attempted>>
    BY <1>6, BootRecords DEF TypeOK
  <2> QED BY <2>1, <2>2 DEF ReportInv
<1>7. CASE DropAttempted
  <2>1. /\ pc = "drop_attempted"
        /\ UNCHANGED <<losses, rejected, report, swap_req, trailer>>
    BY <1>7 DEF DropAttempted, Record, bootVars, cloudVars
  <2>2. Pending' = Pending /\ IF act.promote THEN Attempted' = 0 ELSE Attempted' = Attempted
    BY <1>7, BootRecords DEF TypeOK, Written
  <2> QED BY <2>1, <2>2 DEF ReportInv
<1>8. CASE ClearPending \/ RecordFailed \/ ClearFailed \/ ForgetAttempted
  <2>1. /\ pc \in {"clear_pending", "record_failed", "clear_failed", "forget_attempted"}
        /\ UNCHANGED <<losses, rejected, report, swap_req, trailer>>
    BY <1>8 DEF ClearPending, RecordFailed, ClearFailed, ForgetAttempted, Record, bootVars,
                cloudVars
  <2>2. Attempted' \in {0, Attempted}
    BY <1>8, BootRecords DEF TypeOK
  <2>3. ~swap_req /\ trailer # "test"
    BY <2>1 DEF RollbackInv, KeptInv, RequestInv, EarlySteps
  <2> QED BY <2>1, <2>2, <2>3 DEF ReportInv
<1>9. CASE Online
  <2>1. UNCHANGED <<losses, rejected, swap_req, trailer, Pending, Attempted>>
        /\ pc \notin {"store_pending", "request", "promote", "drop_attempted"}
    BY <1>9, OnlineFrame, OtherStepsReject DEF Attempted, Pending, bootVars
  <2>2. ~swap_req /\ trailer # "test"
    BY <1>9, OnlineFrame DEF RollbackInv, KeptInv, RequestInv, EarlySteps
  <2>3. losses = 0 => Attempted \in rejected \cup {0}
    BY <2>1, <2>2 DEF ReportInv
  <2>4. report' = report \/ report'.reverted \in {0, Attempted}
    BY <1>9
    DEF Online, Register, HeartbeatSent, HeartbeatLost, PollTarget, PollIdle, HeartbeatBody,
        plat_attempted_version, read_counter, ReliableFlash, Attempted
  <2> QED BY <2>1, <2>3, <2>4 DEF ReportInv
<1>10. CASE Staging
  <2>1. ~swap_req /\ trailer # "test"
    BY <1>10
    DEF RollbackInv, KeptInv, RequestInv, EarlySteps, Staging, StageOpen, StageImage, StageDone,
        StageFails, StoreAttempted, StorePending, RequestUpgrade
  <2>2. UNCHANGED <<losses, rejected, report, trailer>>
    BY <1>10
    DEF Staging, StageOpen, StageImage, StageDone, StageFails, StoreAttempted, StorePending,
        RequestUpgrade, Reset, bootVars, cloudVars
  <2>3. CASE StageOpen \/ StageImage \/ StageFails
    BY <2>2, <2>3, ReportElsewhere, StageRecords
    DEF StageOpen, StageImage, StageDone, StageFails, Attempted, Pending, TypeOK
  <2>4. CASE StoreAttempted
    BY <2>2, <2>4, StageRecords DEF StoreAttempted, Written, ReportInv, TypeOK
  <2>5. CASE StorePending
    BY <2>1, <2>2, <2>5, StageRecords DEF StorePending, ReportInv, TypeOK
  <2>6. CASE RequestUpgrade
    <3>1. swap_req' /\ pc = "request" /\ UNCHANGED <<Attempted, Pending>>
      BY <2>6 DEF RequestUpgrade, boot_request_upgrade, Attempted, Pending
    <3>2. Pending = target
      BY <3>1 DEF RollbackInv, StageInv
    <3> QED BY <2>1, <2>2, <3>1, <3>2 DEF ReportInv
  <2> QED BY <1>10, <2>3, <2>4, <2>5, <2>6 DEF Staging
<1>11. CASE Environment
  BY <1>11
  DEF Environment, PowerLoss, Offboard, Assign, threadVars, bootVars, ReportInv, TypeOK,
      Attempted, Pending
<1> QED BY <1>1, <1>2, <1>3, <1>4, <1>5, <1>6, <1>7, <1>8, <1>9, <1>10, <1>11
    DEF Next, Device, BootConfirm

\* A heartbeat names as reverted only a release that MCUboot reverted or
\* refused, unless power was lost or the flash failed: a commit that fails
\* leaves an attempted version that never ran.
THEOREM ReportedWasRejectedHolds ==
  ASSUME ReliableFlash, "nvs_write" \notin Env, "upgrade" \notin Env
  PROVE  Spec => []ReportedWasRejected
<1>1. Init => ReportInv
  BY FourRecords DEF Init, NvsInit, McubootInit, ReportInv
<1>2. ReportInv => ReportedWasRejected
  BY DEF ReportInv, ReportedWasRejected
<1> QED BY <1>1, <1>2, ReportStep, RollbackInvariant, TypeCorrect, PTL DEF Spec

-----------------------------------------------------------------------------
(* What is never tried again.                                              *)

\* The counters the invariant compares are numbers.
LEMMA MemoryNumbers ==
  ASSUME TypeOK
  PROVE  /\ Applied \in Nat /\ Pending \in Nat /\ Failed \in Nat
         /\ target \in Nat /\ assigned \in Nat /\ rejected \subseteq Nat
         /\ act.new_applied \in Nat /\ act.failed_counter \in Nat
BY FourRecords, MaxCounterAssumption DEF TypeOK, NvsType, McubootType, Actions, Counters

\* A step outside the boot that rejects nothing, writes neither the applied nor
\* the failed record and does not enter staging keeps the memory.
LEMMA MemoryElsewhere ==
  ASSUME MemoryInv, UNCHANGED <<losses, rejected, assigned, trailer, Applied, Failed>>,
         swap_req' = FALSE, trailer # "test",
         pc \notin Undecided \cup Recording, pc # "halted",
         pc' \notin Undecided \cup Recording \cup {"clear_failed"},
         pc' \in StageSteps => pc \in StageSteps /\ UNCHANGED target
  PROVE  MemoryInv'
BY DEF MemoryInv, NoneAbove, Recording

\* MCUboot: a rejection is of the pending release, which is newer than every
\* release rejected before.
LEMMA MemoryBootLoader ==
  ASSUME TypeOK, RollbackInv, BlameInv, MemoryInv, BootLoader, losses = 0
  PROVE  MemoryInv'
<1> USE DEF Undecided, Recording, StageSteps
<1>1. /\ UNCHANGED <<act, target, assigned, losses, Applied, Pending, Failed>>
      /\ pc = "reset" /\ pc' = "start" /\ swap_req' = FALSE
  BY BootLoaderFrame DEF Applied, Pending, Failed
<1>2. CASE swap_req /\ trailer' = "test" /\ rejected' = rejected
  BY <1>1, <1>2 DEF MemoryInv, NoneAbove
<1>3. CASE /\ swap_req \/ trailer = "test"
           /\ trailer' = "confirmed" /\ rejected' = rejected \cup {Pending}
  <2>1. Pending <= assigned /\ NoneAbove(Pending - 1)
    BY <1>3 DEF MemoryInv
  <2>2. \A x \in rejected' : x <= Pending /\ x <= assigned
    BY <1>3, <2>1, MemoryNumbers DEF NoneAbove
  <2>3. Pending # 0
    BY <1>3, MemoryNumbers DEF RollbackInv, TrialInv, RequestInv
  <2> QED BY <1>1, <1>3, <2>2, <2>3 DEF MemoryInv, NoneAbove
<1>4. CASE ~swap_req /\ trailer # "test" /\ trailer' = trailer /\ rejected' = rejected
  <2>1. Pending = 0
    BY <1>1, <1>4 DEF BlameInv
  <2> QED BY <1>1, <1>4, <2>1 DEF MemoryInv, NoneAbove
<1> QED BY <1>2, <1>3, <1>4, BootLoaderFrame

\* boot_confirm: a rejected release is recorded, a success makes every rejected
\* release older than the floor.
LEMMA MemoryBootConfirm ==
  ASSUME ReliableFlash, "nvs_write" \notin Env, TypeOK, RollbackInv, MemoryInv, BootConfirm
  PROVE  MemoryInv'
<1> USE DEF Undecided, Recording, StageSteps
<1>1. rejected' = rejected /\ losses' = losses /\ assigned' = assigned
  BY OtherStepsReject
<1>2. CASE Plan
  BY <1>1, <1>2 DEF Plan, MemoryInv, NoneAbove, bootVars, Applied, Pending, Failed
<1>3. CASE Confirm
  <2>1. UNCHANGED <<Applied, Pending, Failed>>
    BY <1>3, ConfirmFrame DEF Applied, Pending, Failed
  <2>2. swap_req = FALSE
    BY <1>3, ConfirmFrame DEF RollbackInv, RequestInv, TypeOK, McubootType
  <2>3. losses = 0 /\ act.record_failed => NoneAbove(act.failed_counter)
    BY <1>3, ConfirmFrame DEF MemoryInv
  <2>4. losses = 0 /\ act.clear_failed => act.promote /\ NoneAbove(act.new_applied)
    BY <1>3, ConfirmFrame, MemoryNumbers DEF MemoryInv, NoneAbove
  <2>5. losses = 0 => \/ act.record_failed
                      \/ \A x \in rejected : x <= Applied \/ x <= Failed
    BY <1>3, ConfirmFrame DEF MemoryInv
  <2> QED BY <1>1, <1>3, <2>1, <2>2, <2>3, <2>4, <2>5, ConfirmFrame DEF MemoryInv, NoneAbove
<1>4. CASE ~Plan /\ ~Confirm
  <2>1. /\ pc \in Recording \cup {"clear_failed", "forget_attempted"}
        /\ swap_req' = swap_req /\ trailer' = trailer
    BY <1>4
    DEF BootConfirm, Promote, DropAttempted, ClearPending, RecordFailed, ClearFailed,
        ForgetAttempted, Record, bootVars
  <2>2. ~swap_req /\ trailer # "test"
    BY <2>1 DEF RollbackInv, KeptInv, RequestInv, EarlySteps
  <2> USE <1>1, <2>1, <2>2, BootRecords, MemoryNumbers DEF MemoryInv, NoneAbove, TypeOK, Written
  <2>3. CASE Promote
    BY <2>3 DEF Promote, Record, RollbackInv, PlanInv
  <2>4. CASE DropAttempted
    BY <2>4 DEF DropAttempted, Record
  <2>5. CASE ClearPending
    BY <2>5 DEF ClearPending, Record
  <2>6. CASE RecordFailed
    BY <2>6 DEF RecordFailed, Record
  <2>7. CASE ClearFailed
    BY <2>7 DEF ClearFailed, Record
  <2>8. CASE ForgetAttempted
    BY <2>8 DEF ForgetAttempted, Record
  <2> QED BY <1>4, <2>3, <2>4, <2>5, <2>6, <2>7, <2>8 DEF BootConfirm
<1> QED BY <1>2, <1>3, <1>4

\* poll_once: what is neither applied nor recorded as failed, and assigned after
\* everything that was rejected, is newer than all of it.
LEMMA MemoryOnline ==
  ASSUME ReliableFlash, TypeOK, RollbackInv, BlameInv, MemoryInv, Online
  PROVE  MemoryInv'
<1> USE DEF Undecided, Recording, StageSteps
<1>1. rejected' = rejected /\ losses' = losses /\ assigned' = assigned
  BY OtherStepsReject
<1>2. /\ UNCHANGED <<trailer, Applied, Pending, Failed>> /\ swap_req' = FALSE /\ trailer # "test"
      /\ pc \in {"register", "heartbeat", "poll"} /\ pc' \in {"heartbeat", "poll", "stage", "halted"}
  BY OnlineFrame
  DEF RollbackInv, KeptInv, RequestInv, EarlySteps, bootVars, Applied, Pending, Failed, TypeOK,
      McubootType
<1>3. CASE PollTarget
  <2>1. target' = assigned /\ assigned > Applied /\ assigned # Failed
    BY <1>3
    DEF PollTarget, plat_fetch_manifest, Accepts, md_check_rollback, plat_applied_counter,
        plat_failed_counter, read_counter, ReliableFlash, Applied, Failed
  <2>2. losses = 0 => Failed < assigned
    <3>1. losses = 0 => Failed <= assigned
      BY MemoryNumbers DEF BlameInv, MemoryInv, NoneAbove
    <3> QED BY <2>1, <3>1, MemoryNumbers
  <2>3. losses = 0 => \A x \in rejected : x <= Applied \/ x <= Failed
    BY <1>2 DEF MemoryInv
  <2>4. losses = 0 => \A x \in rejected : x <= assigned - 1
    BY <2>1, <2>2, <2>3, MemoryNumbers
  <2> QED BY <1>1, <1>2, <2>1, <2>4, MemoryNumbers DEF MemoryInv, NoneAbove
<1>4. CASE Register \/ HeartbeatSent \/ HeartbeatLost \/ PollIdle
  <2>1. pc' # "stage"
    BY <1>4 DEF Register, HeartbeatSent, HeartbeatLost, PollIdle, Halt
  <2> QED BY <1>1, <1>2, <2>1, MemoryElsewhere
<1> QED BY <1>3, <1>4 DEF Online

\* Staging and commit: the target in progress becomes the pending release.
LEMMA MemoryStaging ==
  ASSUME "nvs_write" \notin Env, TypeOK, RollbackInv, MemoryInv, Staging
  PROVE  MemoryInv'
<1> USE DEF Undecided, Recording, StageSteps
<1>1. rejected' = rejected /\ losses' = losses /\ assigned' = assigned
  BY OtherStepsReject
<1>2. /\ pc \in StageSteps /\ ~swap_req /\ trailer # "test" /\ trailer' = trailer
  BY DEF Staging, StageOpen, StageImage, StageDone, StageFails, StoreAttempted, StorePending,
         RequestUpgrade, RollbackInv, KeptInv, RequestInv, EarlySteps, bootVars
<1>3. Applied' = Applied /\ Failed' = Failed
  BY StageRecords DEF Staging, TypeOK, Applied, Failed
<1>4. CASE StageOpen \/ StageImage \/ StageFails \/ StoreAttempted \/ StorePending
  <2>1. swap_req' = FALSE
    BY <1>2, <1>4
    DEF StageOpen, StageImage, StageDone, StageFails, StoreAttempted, StorePending, bootVars,
        TypeOK, McubootType
  <2>2. /\ pc' \in StageSteps \cup {"heartbeat"}
        /\ pc' \in StageSteps => UNCHANGED target
    BY <1>4
    DEF StageOpen, StageImage, StageDone, StageFails, StoreAttempted, StorePending, Abandon
  <2> QED BY <1>1, <1>2, <1>3, <2>1, <2>2, MemoryElsewhere
<1>5. CASE RequestUpgrade
  <2>1. pc = "request" /\ Pending' = Pending /\ pc' \in {"reset", "heartbeat"}
    BY <1>5 DEF RequestUpgrade, Reset, Abandon, Pending
  <2>2. Pending = target
    BY <2>1 DEF RollbackInv, StageInv
  <2> QED BY <1>1, <1>2, <1>3, <2>1, <2>2 DEF MemoryInv, NoneAbove
<1> QED BY <1>4, <1>5 DEF Staging

\* Every step keeps the memory, if records are written and the control plane
\* does not go back to an older release.
LEMMA MemoryStep ==
  ASSUME ReliableFlash, "nvs_write" \notin Env, "retarget" \notin Env
  PROVE  TypeOK /\ RollbackInv /\ BlameInv /\ MemoryInv /\ [Next]_vars => MemoryInv'
<1> SUFFICES ASSUME TypeOK, RollbackInv, BlameInv, MemoryInv, [Next]_vars PROVE MemoryInv'
  OBVIOUS
<1>1. CASE UNCHANGED vars
  BY <1>1
  DEF vars, bootVars, threadVars, cloudVars, MemoryInv, NoneAbove, Applied, Pending, Failed
<1>2. CASE BootLoader
  <2>1. losses' = losses
    BY <1>2, BootLoaderFrame
  <2> QED BY <1>2, <2>1, MemoryBootLoader DEF MemoryInv
<1>3. CASE Startup
  <2>1. /\ UNCHANGED <<losses, rejected, assigned, swap_req, trailer, Applied, Pending, Failed>>
        /\ pc \in Undecided /\ pc' \in Undecided \cup {"reset", "halted"}
        /\ pc' = "reset" => trailer # "confirmed"
    BY <1>3, StartupFrame, OtherStepsReject DEF bootVars, Applied, Pending, Failed
  <2> QED BY <2>1 DEF MemoryInv, NoneAbove, Undecided, Recording, StageSteps
<1>4. CASE BootConfirm
  BY <1>4, MemoryBootConfirm
<1>5. CASE Online
  BY <1>5, MemoryOnline
<1>6. CASE Staging
  BY <1>6, MemoryStaging
<1>7. CASE PowerLoss
  BY <1>7 DEF PowerLoss, MemoryInv, TypeOK
<1>8. CASE Offboard
  BY <1>8 DEF Offboard, threadVars, bootVars, MemoryInv, NoneAbove, Applied, Pending, Failed
<1>9. CASE \E r \in Counters : Assign(r)
  <2>1. /\ assigned' > assigned /\ assigned' \in Nat
        /\ UNCHANGED <<losses, rejected, swap_req, trailer, pc, act, target, Applied, Pending, Failed>>
    BY <1>9
    DEF Assign, threadVars, bootVars, Applied, Pending, Failed, Counters
  <2>2. \A y \in Nat : y <= assigned => y <= assigned'
    BY <2>1, MemoryNumbers
  <2>3. losses = 0 => \A x \in rejected : x <= assigned'
    BY <2>2, MemoryNumbers DEF MemoryInv, NoneAbove
  <2> QED BY <2>1, <2>2, <2>3, MemoryNumbers DEF MemoryInv, NoneAbove
<1> QED BY <1>1, <1>2, <1>3, <1>4, <1>5, <1>6, <1>7, <1>8, <1>9 DEF Next, Device, Environment

\* What was rejected is either older than the floor or no newer than the failed
\* record, and what is being tried is newer.
LEMMA MemoryInvariant ==
  ASSUME ReliableFlash, "nvs_write" \notin Env, "retarget" \notin Env
  PROVE  Spec => []MemoryInv
<1>1. Init => MemoryInv
  BY FourRecords
  DEF Init, NvsInit, McubootInit, MemoryInv, NoneAbove, Undecided, Recording, StageSteps
<1> QED BY <1>1, MemoryStep, BlameInvariant, RollbackInvariant, TypeCorrect, PTL DEF Spec

\* A release that MCUboot reverted or refused is never swapped in again, with a
\* single failed record, however many releases are rejected one after another:
\* unless power was lost, a record was lost, or the control plane went back.
THEOREM NoReattemptHolds ==
  ASSUME ReliableFlash, "nvs_write" \notin Env, "retarget" \notin Env
  PROVE  Spec => NoReattempt
<1>1. ASSUME TypeOK, RollbackInv, MemoryInv, [Next]_vars, losses = 0, swap_req', ~swap_req
      PROVE  slot1 \notin rejected
  <2>1. RequestUpgrade
    BY <1>1
    DEF vars, bootVars, Next, Device, Environment, BootLoader, SwapTest, SwapRevert, RefuseSwap,
        NoSwap, Startup, StartOk, StartFails, ConnectOk, ConnectFails, IdentityExists,
        IdentityAbsent, EnrollOk, EnrollFails, Credentials, BootConfirm, Plan, Confirm, Promote,
        DropAttempted, ClearPending, RecordFailed, ClearFailed, ForgetAttempted, Record, Online,
        Register, HeartbeatSent, HeartbeatLost, PollTarget, PollIdle, Staging, StageOpen,
        StageImage, StageDone, StageFails, StoreAttempted, StorePending, PowerLoss, Offboard,
        Assign
  <2>2. pc = "request" /\ slot1 = target
    BY <1>1, <2>1 DEF RequestUpgrade, RollbackInv, StageInv
  <2>3. NoneAbove(target - 1)
    BY <1>1, <2>2 DEF MemoryInv, StageSteps
  <2> QED BY <1>1, <2>2, <2>3, MemoryNumbers DEF NoneAbove
<1> QED BY <1>1, MemoryInvariant, RollbackInvariant, TypeCorrect, PTL
    DEF Spec, NoReattempt

-----------------------------------------------------------------------------
(* How often the device resets itself.                                     *)

\* The releases that can still be tried: newer than the floor and than all
\* that was rejected.
Open == {c \in Counters : c > Applied /\ \A x \in rejected : c > x}

\* An attempt resets the device at most twice, at its commit and at the end of
\* a failed trial; these are the resets of the attempt under way.
Used == IF trailer = "test" /\ pc = "reset" THEN 2
        ELSE IF swap_req \/ trailer = "test" \/ (pc = "promote" /\ act.promote) THEN 1
        ELSE 0

\* The resets that are left.
Budget == 2 * Cardinality(Open) - Used

\* A success is of a release that can still be tried, up to the write that
\* makes it the floor.
OpenInv == losses = 0 /\ pc = "promote" /\ act.promote => act.new_applied \in Open

\* A reset that the agent makes itself, of an image that MCUboot manages.
OwnReset == pc # "reset" /\ pc' = "reset" /\ trailer # "unset"

\* No step adds to the resets that are left, and every reset uses one up.
ResetsUsedUp == losses' = 0 => Budget' <= Budget /\ (OwnReset => Budget' < Budget)

\* Counting: fewer open releases, a smaller count.
LEMMA OpenCount ==
  ASSUME NEW S \in SUBSET (1..MaxCounter)
  PROVE  /\ Cardinality(S) \in 0..MaxCounter
         /\ \A x \in S : Cardinality(S) >= 1
         /\ \A T \in SUBSET S : /\ Cardinality(T) \in Nat /\ Cardinality(T) <= Cardinality(S)
                                /\ T # S => Cardinality(T) < Cardinality(S)
<1> USE MaxCounterAssumption
<1>1. IsFiniteSet(1..MaxCounter) /\ Cardinality(1..MaxCounter) = MaxCounter
  BY FS_Interval
<1>2. IsFiniteSet(S) /\ Cardinality(S) <= MaxCounter
  BY <1>1, FS_Subset
<1>3. Cardinality(S) \in Nat
  BY <1>2, FS_CardinalityType
<1>4. \A x \in S : Cardinality(S) >= 1
  BY <1>2, <1>3, FS_EmptySet
<1>5. ASSUME NEW T \in SUBSET S
      PROVE  /\ Cardinality(T) \in Nat /\ Cardinality(T) <= Cardinality(S)
             /\ T # S => Cardinality(T) < Cardinality(S)
  <2>1. IsFiniteSet(T) /\ Cardinality(T) <= Cardinality(S)
        /\ (Cardinality(S) = Cardinality(T) => S = T)
    BY <1>2, FS_Subset
  <2>2. Cardinality(T) \in Nat
    BY <2>1, FS_CardinalityType
  <2> QED BY <1>3, <2>1, <2>2
<1> QED BY <1>2, <1>3, <1>4, <1>5

\* Fewer open releases, or no fewer resets used, and no more are left.
LEMMA BudgetCount ==
  ASSUME NEW S \in SUBSET (1..MaxCounter), NEW T \in SUBSET S, NEW u \in 0..2, NEW v \in 0..2,
         T # S \/ u <= v
  PROVE  /\ 2 * Cardinality(T) - v <= 2 * Cardinality(S) - u
         /\ u < v => 2 * Cardinality(T) - v < 2 * Cardinality(S) - u
<1>1. /\ Cardinality(T) \in Nat /\ Cardinality(S) \in Nat /\ Cardinality(T) <= Cardinality(S)
      /\ T # S => Cardinality(T) < Cardinality(S)
  BY OpenCount
<1> QED BY <1>1

\* An image whose swap is requested or which is on trial can still be tried.
LEMMA TriedIsOpen ==
  ASSUME TypeOK, RollbackInv, MemoryInv, losses = 0, swap_req \/ trailer = "test"
  PROVE  Pending \in Open
<1>1. Pending \in Counters
  BY FourRecords DEF TypeOK, NvsType
<1>2. Pending > Applied
  BY MemoryNumbers DEF RollbackInv, TrialInv, RequestInv
<1>3. \A x \in rejected : Pending > x
  BY MemoryNumbers DEF MemoryInv, NoneAbove
<1> QED BY <1>1, <1>2, <1>3 DEF Open

\* The next state's floor and rejected releases decide what is open then.
LEMMA OpenShrinks ==
  ASSUME TypeOK, Applied' \in Nat, Applied' >= Applied, rejected \subseteq rejected'
  PROVE  /\ Open' \subseteq Open
         /\ \A x \in Open : x <= Applied' \/ x \in rejected' => Open' # Open
         /\ Applied' = Applied /\ rejected' = rejected => Open' = Open
<1>1. Open' = {c \in Counters : c > Applied' /\ \A x \in rejected' : c > x}
  BY DEF Open, Counters
<1>2. Open' \subseteq Open
  BY <1>1, MemoryNumbers, MaxCounterAssumption DEF Open, Counters
<1>3. ASSUME NEW x \in Open, x <= Applied' \/ x \in rejected'
      PROVE  x \notin Open'
  BY <1>1, <1>3, MaxCounterAssumption DEF Open, Counters
<1>4. Applied' = Applied /\ rejected' = rejected => Open' = Open
  BY <1>1 DEF Open
<1> QED BY <1>2, <1>3, <1>4

\* A step that leaves the floor and the rejected releases alone.
LEMMA OpenKept ==
  ASSUME TypeOK, Applied' = Applied, rejected' = rejected
  PROVE  Open' = Open
BY MemoryNumbers, OpenShrinks

\* Only boot_confirm's decision on an image on trial leads to a promotion.
LEMMA OpenStep ==
  ASSUME ReliableFlash
  PROVE  TypeOK /\ RollbackInv /\ MemoryInv /\ OpenInv /\ [Next]_vars => OpenInv'
<1> SUFFICES ASSUME TypeOK, RollbackInv, MemoryInv, OpenInv, [Next]_vars PROVE OpenInv' OBVIOUS
<1>1. CASE UNCHANGED vars
  BY <1>1 DEF vars, bootVars, threadVars, cloudVars, OpenInv, Open, Applied
<1>2. CASE Confirm
  <2>1. /\ losses' = losses /\ rejected' = rejected /\ Applied' = Applied /\ act' = act
        /\ act.promote => trailer = "test" /\ act.new_applied = Pending
    BY <1>2, OtherStepsReject, ConfirmFrame DEF BootConfirm, Applied
  <2>2. Open' = Open
    BY <2>1, OpenKept
  <2> QED BY <2>1, <2>2, TriedIsOpen DEF OpenInv
<1>3. CASE Offboard \/ \E r \in Counters : Assign(r)
  BY <1>3 DEF Offboard, Assign, threadVars, bootVars, OpenInv, Open, Applied
<1>4. CASE BootLoader \/ Startup \/ Online \/ PowerLoss
  <2>1. pc' # "promote"
    BY <1>4, StartupFrame, OnlineFrame DEF BootLoader, PowerLoss, Reset, Undecided
  <2> QED BY <2>1 DEF OpenInv
<1>5. CASE Staging
  <2>1. pc' # "promote"
    BY <1>5
    DEF Staging, StageOpen, StageImage, StageDone, StageFails, StoreAttempted, StorePending,
        RequestUpgrade, Reset, Abandon
  <2> QED BY <2>1 DEF OpenInv
<1>6. CASE BootConfirm /\ ~Confirm
  <2>1. pc' # "promote"
    BY <1>6
    DEF BootConfirm, Plan, Promote, DropAttempted, ClearPending, RecordFailed, ClearFailed,
        ForgetAttempted, Record
  <2> QED BY <2>1 DEF OpenInv
<1> QED BY <1>1, <1>2, <1>3, <1>4, <1>5, <1>6 DEF Next, Device, Environment

\* Outside a boot's start, its decision and the commit no attempt is under way.
LEMMA NoAttempt ==
  ASSUME RollbackInv, pc \notin EarlySteps, pc # "promote"
  PROVE  ~swap_req /\ trailer # "test" /\ Used = 0
BY DEF RollbackInv, KeptInv, RequestInv, EarlySteps, Used

\* What each step does to the open releases and to the resets used.
LEMMA UsedStep ==
  ASSUME ReliableFlash, "nvs_write" \notin Env, TypeOK, RollbackInv, MemoryInv, OpenInv,
         [Next]_vars, losses' = 0
  PROVE  /\ Open' \subseteq Open
         /\ Open' # Open \/ Used <= Used'
         /\ OwnReset => Used < Used'
<1>0. losses = 0 \/ PowerLoss
  BY DEF Next, Device, Environment, BootLoader, Startup, StartOk, StartFails, ConnectOk,
         ConnectFails, IdentityExists, IdentityAbsent, EnrollOk, EnrollFails, Credentials, Online,
         Register, HeartbeatSent, HeartbeatLost, PollTarget, PollIdle, Staging, StageOpen,
         StageImage, StageDone, StageFails, StoreAttempted, StorePending, RequestUpgrade,
         BootConfirm, Plan, Confirm, Promote, DropAttempted, ClearPending, RecordFailed,
         ClearFailed, ForgetAttempted, Record, Offboard, Assign, vars, cloudVars
<1>1. ~PowerLoss
  BY DEF PowerLoss, TypeOK
<1>2. losses = 0
  BY <1>0, <1>1
<1>3. CASE UNCHANGED vars \/ Offboard \/ \E r \in Counters : Assign(r)
  <2>1. UNCHANGED <<Applied, rejected, trailer, swap_req, pc, act>>
    BY <1>3 DEF vars, Offboard, Assign, threadVars, bootVars, Applied
  <2> QED BY <2>1, OpenKept DEF Used, OwnReset
<1>4. CASE BootLoader
  <2>1. UNCHANGED <<Applied, Pending>> /\ pc = "reset" /\ pc' = "start" /\ swap_req' = FALSE
    BY <1>4, BootLoaderFrame DEF Applied, Pending
  <2>2. CASE swap_req /\ trailer' = "test" /\ rejected' = rejected
    <3>1. trailer # "test"
      BY <2>2 DEF RollbackInv, TrialInv
    <3> QED BY <2>1, <2>2, <3>1, OpenKept DEF Used, OwnReset
  <2>3. CASE /\ swap_req \/ trailer = "test"
             /\ trailer' = "confirmed" /\ rejected' = rejected \cup {Pending}
    <3>1. Pending \in Open
      BY <1>2, <2>3, TriedIsOpen
    <3> QED BY <2>1, <2>3, <3>1, OpenShrinks, MemoryNumbers DEF OwnReset
  <2>4. CASE ~swap_req /\ trailer # "test" /\ trailer' = trailer /\ rejected' = rejected
    BY <2>1, <2>4, OpenKept DEF Used, OwnReset
  <2> QED BY <1>4, <2>2, <2>3, <2>4, BootLoaderFrame
<1>5. CASE Startup
  <2>1. /\ UNCHANGED <<Applied, rejected, trailer, swap_req>>
        /\ pc \in Undecided /\ pc' \in Undecided \cup {"reset", "halted"}
        /\ pc' = "reset" => trailer # "confirmed"
    BY <1>5, StartupFrame DEF bootVars, Applied
  <2>2. ~swap_req
    BY <2>1 DEF RollbackInv, RequestInv, Undecided
  <2>3. trailer \in {"unset", "test", "confirmed"}
    BY DEF TypeOK, McubootType
  <2> QED BY <2>1, <2>2, <2>3, OpenKept DEF Used, OwnReset, Undecided
<1>6. CASE Plan
  BY <1>6, OpenKept DEF Plan, bootVars, Applied, Used, OwnReset
<1>7. CASE Confirm
  <2>1. /\ rejected' = rejected /\ UNCHANGED <<Applied, act, swap_req>>
        /\ pc = "confirm" /\ pc' = "promote" /\ (trailer = "test" => act.promote)
    BY <1>7, OtherStepsReject, ConfirmFrame DEF BootConfirm, Applied
  <2>2. ~swap_req
    BY <2>1 DEF RollbackInv, RequestInv
  <2> QED BY <2>1, <2>2, OpenKept DEF Used, OwnReset
<1>8. CASE Promote
  <2>1. /\ pc = "promote" /\ pc' = "drop_attempted"
        /\ UNCHANGED <<rejected, swap_req, trailer, act>>
    BY <1>8 DEF Promote, Record, bootVars
  <2>2. IF act.promote THEN Applied' = act.new_applied ELSE Applied' = Applied
    BY <1>8, BootRecords DEF TypeOK, Written
  <2>3. CASE act.promote
    <3>1. act.new_applied \in Open /\ Applied' = act.new_applied
      BY <1>2, <2>1, <2>2, <2>3 DEF OpenInv
    <3>2. Applied' \in Nat /\ Applied' >= Applied
      BY <3>1, MaxCounterAssumption, MemoryNumbers DEF Open, Counters
    <3>3. Open' \subseteq Open /\ Open' # Open
      BY <2>1, <3>1, <3>2, OpenShrinks
    <3> QED BY <2>1, <3>3 DEF OwnReset
  <2>4. CASE ~act.promote
    <3>1. ~swap_req /\ trailer # "test"
      BY <2>1 DEF RollbackInv, KeptInv, RequestInv, EarlySteps
    <3> QED BY <2>1, <2>2, <2>4, <3>1, OpenKept DEF Used, OwnReset
  <2> QED BY <2>3, <2>4
<1>9. CASE DropAttempted \/ ClearPending \/ RecordFailed \/ ClearFailed \/ ForgetAttempted
  <2>1. /\ pc \in {"drop_attempted", "clear_pending", "record_failed", "clear_failed",
                   "forget_attempted"}
        /\ UNCHANGED <<rejected, swap_req, trailer>> /\ pc' # "reset" /\ pc' # "promote"
    BY <1>9 DEF DropAttempted, ClearPending, RecordFailed, ClearFailed, ForgetAttempted, Record,
                bootVars
  <2>2. Applied' = Applied
    BY <1>9, BootRecords DEF TypeOK
  <2>3. ~swap_req /\ trailer # "test" /\ Used = 0
    BY <2>1, NoAttempt DEF EarlySteps
  <2> QED BY <2>1, <2>2, <2>3, OpenKept DEF Used, OwnReset
<1>10. CASE Online
  <2>1. UNCHANGED <<Applied, rejected, swap_req, trailer>>
    BY <1>10, OnlineFrame DEF Applied, bootVars
  <2>2. ~swap_req /\ trailer # "test" /\ Used = 0
    BY <1>10, OnlineFrame, NoAttempt DEF EarlySteps
  <2> QED BY <1>10, <2>1, <2>2, OnlineFrame, OpenKept DEF Used, OwnReset
<1>11. CASE Staging
  <2>1. pc \in StageSteps /\ UNCHANGED <<rejected, trailer>>
    BY <1>11
    DEF Staging, StageOpen, StageImage, StageDone, StageFails, StoreAttempted, StorePending,
        RequestUpgrade, StageSteps, bootVars
  <2>2. ~swap_req /\ trailer # "test" /\ Used = 0
    BY <2>1, NoAttempt DEF EarlySteps, StageSteps
  <2>3. Applied' = Applied
    BY <1>11, StageRecords DEF Staging, TypeOK, Applied
  <2>4. pc' # "promote" /\ (pc' = "reset" => swap_req')
    BY <1>11
    DEF Staging, StageOpen, StageImage, StageDone, StageFails, StoreAttempted, StorePending,
        RequestUpgrade, boot_request_upgrade, Reset, Abandon
  <2> QED BY <2>1, <2>2, <2>3, <2>4, OpenKept DEF Used, OwnReset
<1> QED BY <1>1, <1>3, <1>4, <1>5, <1>6, <1>7, <1>8, <1>9, <1>10, <1>11
    DEF Next, Device, Environment, BootConfirm

\* The resets that are left are a number, at most two for each release.
LEMMA BudgetIsNumber ==
  ASSUME TypeOK, RollbackInv, MemoryInv, OpenInv, losses = 0
  PROVE  Budget \in 0..(2 * MaxCounter)
<1>1. Open \in SUBSET (1..MaxCounter)
  BY MemoryNumbers, MaxCounterAssumption DEF Open, Counters
<1>2. Cardinality(Open) \in 0..MaxCounter /\ \A x \in Open : Cardinality(Open) >= 1
  BY <1>1, OpenCount
<1>3. Used # 0 => Cardinality(Open) >= 1
  BY <1>2, TriedIsOpen DEF Used, OpenInv
<1>4. Used \in 0..2
  BY DEF Used
<1> QED BY <1>2, <1>3, <1>4, MaxCounterAssumption DEF Budget

\* A bad target degrades to idle, not to a reboot loop: as long as power is not
\* lost, no record is lost and the control plane only moves on to newer
\* releases, every reset the agent makes uses up one of at most two for each
\* release, whichever of them fail, whatever the network does and however long
\* the device runs. A factory image that was never confirmed is the exception:
\* it reboots as often as WiFi fails.
THEOREM ResetsBounded ==
  ASSUME ReliableFlash, "nvs_write" \notin Env, "retarget" \notin Env
  PROVE  Spec => /\ [](losses = 0 => Budget \in 0..(2 * MaxCounter))
                 /\ [][ResetsUsedUp]_vars
<1>1. Init => OpenInv
  BY DEF Init, OpenInv
<1>2. TypeOK /\ RollbackInv /\ MemoryInv /\ OpenInv =>
        (losses = 0 => Budget \in 0..(2 * MaxCounter))
  BY BudgetIsNumber
<1>3. TypeOK /\ RollbackInv /\ MemoryInv /\ OpenInv /\ [Next]_vars => ResetsUsedUp
  <2> SUFFICES ASSUME TypeOK, RollbackInv, MemoryInv, OpenInv, [Next]_vars, losses' = 0
               PROVE  Budget' <= Budget /\ (OwnReset => Budget' < Budget)
    BY DEF ResetsUsedUp
  <2>1. Open' \subseteq Open /\ (Open' # Open \/ Used <= Used') /\ (OwnReset => Used < Used')
    BY UsedStep
  <2>2. Open \in SUBSET (1..MaxCounter)
    BY MemoryNumbers, MaxCounterAssumption DEF Open, Counters
  <2>3. Used \in 0..2 /\ Used' \in 0..2
    BY DEF Used
  <2> QED BY <2>1, <2>2, <2>3, BudgetCount DEF Budget
<1> QED BY <1>1, <1>2, <1>3, OpenStep, MemoryInvariant, RollbackInvariant, TypeCorrect, PTL
    DEF Spec
=============================================================================
