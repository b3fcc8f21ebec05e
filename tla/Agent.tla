------------------------------- MODULE Agent -------------------------------
(***************************************************************************)
(* The device agent of lib/meshanics_agent.c composed with its persistent  *)
(* records (PlatCounter), the image slots and bootloader (Mcuboot), the    *)
(* boot decision (Ota), and an environment: the control plane that assigns *)
(* releases, the network, and power.                                       *)
(*                                                                         *)
(* The agent is one thread.  Every flash write it makes is a step of its   *)
(* own, because power can be lost between any two of them; calls that only *)
(* compute or only read are joined to the step that uses their result.     *)
(* Env names the adverse events of an instance:                            *)
(*   "power"  power loss at any step       "start"    crypto/provisioning  *)
(*   "wifi"   WiFi does not come up        "identity" load/enroll/TLS fail *)
(*   "net"    a request fails              "offboard" decommissioning      *)
(*   "nvs_write", "nvs_read", "confirm", "upgrade"    flash errors         *)
(*   "retarget" the control plane assigns an older release, or none        *)
(***************************************************************************)
EXTENDS Mcuboot, Ota

CONSTANTS MaxLosses,   \* bound on the power losses of a behaviour
          NoNet,       \* releases that can never bring the network up
          Vetoed       \* releases whose application health() returns false

ASSUME MaxLossesAssumption == MaxLosses \in Nat
ASSUME NoNetAssumption == NoNet \subseteq (Counters \ {0})
ASSUME VetoedAssumption == Vetoed \subseteq (Counters \ {0})

VARIABLES pc,          \* next step of the agent thread; "reset" is MCUboot
          state,       \* self.state, the lifecycle state shown to the app
          act,         \* boot_confirm's struct ota_boot_action
          target,      \* m.rollback_counter of the update in progress
          identity,    \* the identity records are all stored
          report,      \* last heartbeat the control plane received
          assigned,    \* release the control plane assigns, 0 = none
          offboarded,  \* the operator decommissioned the device
          losses       \* power losses so far

threadVars == <<pc, state, act, target, identity>>
cloudVars  == <<assigned, offboarded, losses>>
vars == <<nvs, bootVars, threadVars, cloudVars, report>>

BootSteps == {"confirm", "promote", "drop_attempted", "clear_pending",
              "record_failed", "clear_failed", "forget_attempted"}
OnlineSteps == {"heartbeat", "poll"}
StageSteps == {"stage", "stream", "store_attempted", "store_pending", "request"}
Pcs == {"reset", "start", "connect", "identity", "enroll", "credentials",
        "plan", "register", "halted"} \cup BootSteps \cup OnlineSteps \cup StageSteps
States == {"BOOT", "CONNECTING", "ENROLLING", "ONLINE", "UPDATING", "OFFLINE"}
Actions == [confirm : BOOLEAN, promote : BOOLEAN, new_applied : Counters,
            clear_pending : BOOLEAN, record_failed : BOOLEAN,
            failed_counter : Counters, clear_failed : BOOLEAN]
Reports == [applied : Counters, healthy : BOOLEAN, reverted : Counters]

TypeOK == /\ NvsType /\ McubootType
          /\ pc \in Pcs /\ state \in States
          /\ act \in Actions /\ target \in Counters
          /\ identity \in BOOLEAN /\ report \in Reports
          /\ assigned \in Counters /\ offboarded \in BOOLEAN
          /\ losses \in 0..MaxLosses

Init == /\ NvsInit /\ McubootInit
        /\ pc = "reset" /\ state = "BOOT" /\ act = NoAction /\ target = 0
        /\ identity = FALSE
        /\ report = [applied |-> 0, healthy |-> FALSE, reverted |-> 0]
        /\ assigned = 0 /\ offboarded = FALSE /\ losses = 0

-----------------------------------------------------------------------------
(* Reset: the thread's memory is gone, flash is not.                       *)

Reset == /\ pc' = "reset" /\ state' = "BOOT" /\ act' = NoAction /\ target' = 0
         /\ UNCHANGED <<identity, report>>

\* agent_main returns: the thread ends, nothing restarts it before a reset.
Halt == /\ pc' = "halted" /\ state' = "OFFLINE"
        /\ UNCHANGED <<act, target, identity>>

\* MCUboot picks the image; it starts with a fresh agent thread.
BootLoader == /\ pc = "reset"
              /\ SwapTest \/ SwapRevert \/ RefuseSwap \/ NoSwap
              /\ pc' = "start" /\ state' = "BOOT"
              /\ UNCHANGED <<nvs, act, target, identity, report, cloudVars>>

-----------------------------------------------------------------------------
(* agent_main up to boot_confirm.                                          *)

\* psa_crypto_init and meshanics_provisioning_get.
StartOk == /\ pc = "start"
           /\ pc' = "connect" /\ state' = "CONNECTING"
           /\ UNCHANGED <<nvs, bootVars, act, target, identity, report, cloudVars>>
StartFails == /\ pc = "start" /\ "start" \in Env
              /\ Halt
              /\ UNCHANGED <<nvs, bootVars, report, cloudVars>>

ConnectOk == /\ pc = "connect" /\ slot0 \notin NoNet
             /\ pc' = "identity"
             /\ UNCHANGED <<nvs, bootVars, state, act, target, identity, report, cloudVars>>

\* boot_confirm(0): an unconfirmed image reboots, a confirmed one goes offline.
ConnectFails == /\ pc = "connect"
                /\ slot0 \in NoNet \/ "wifi" \in Env
                /\ \/ plat_image_confirmed /\ Halt /\ UNCHANGED report
                   \/ ~plat_image_confirmed /\ Reset
                /\ UNCHANGED <<nvs, bootVars, cloudVars>>

\* establish_identity: a stored identity is loaded, or the device enrolls.
IdentityExists == /\ pc = "identity" /\ identity
                  /\ \/ pc' = "credentials" /\ UNCHANGED <<state, act, target, identity>>
                     \/ "identity" \in Env /\ Halt
                  /\ UNCHANGED <<nvs, bootVars, report, cloudVars>>
IdentityAbsent == /\ pc = "identity"
                  /\ ~identity \/ "nvs_read" \in Env
                  /\ pc' = "enroll" /\ state' = "ENROLLING"
                  /\ UNCHANGED <<nvs, bootVars, act, target, identity, report, cloudVars>>

\* meshanics_enroll then meshanics_identity_save.
EnrollOk == /\ pc = "enroll"
            /\ pc' = "credentials" /\ identity' = TRUE
            /\ UNCHANGED <<nvs, bootVars, state, act, target, report, cloudVars>>
EnrollFails == /\ pc = "enroll"
               /\ "identity" \in Env \/ "nvs_write" \in Env
               /\ Halt
               /\ UNCHANGED <<nvs, bootVars, report, cloudVars>>

\* plat_net_set_identity.
Credentials == /\ pc = "credentials"
               /\ \/ pc' = "plan" /\ UNCHANGED <<state, act, target, identity>>
                  \/ "identity" \in Env /\ Halt
               /\ UNCHANGED <<nvs, bootVars, report, cloudVars>>

-----------------------------------------------------------------------------
(* boot_confirm(1): read the three inputs, then act, one write at a time.  *)

Plan == /\ pc = "plan"
        /\ \E a \in plat_applied_counter, p \in plat_pending_counter :
              act' = ota_plan_boot(plat_image_confirmed, a, p)
        /\ pc' = "confirm"
        /\ UNCHANGED <<nvs, bootVars, state, target, identity, report, cloudVars>>

Confirm == /\ pc = "confirm"
           /\ \/ act.confirm /\ \E rc \in {0, -1} : plat_confirm_image(rc)
              \/ ~act.confirm /\ UNCHANGED trailer
           /\ pc' = "promote"
           /\ UNCHANGED <<nvs, slot0, slot1, swap_req, rejected, state, act, target,
                          identity, report, cloudVars>>

\* One record of boot_confirm: written when `due`, the return code ignored.
Record(from, due, Write(_), to) ==
  /\ pc = from
  /\ \/ due /\ \E rc \in {0, -1} : Write(rc)
     \/ ~due /\ UNCHANGED nvs
  /\ pc' = to
  /\ UNCHANGED <<bootVars, state, target, identity, report, cloudVars>>

Promote == LET store(rc) == plat_store_counter(act.new_applied, rc)
           IN  Record("promote", act.promote, store, "drop_attempted") /\ UNCHANGED act
DropAttempted == Record("drop_attempted", act.promote, plat_clear_attempted_version,
                        "clear_pending") /\ UNCHANGED act
ClearPending == Record("clear_pending", act.clear_pending, plat_clear_pending,
                       "record_failed") /\ UNCHANGED act
RecordFailed == LET store(rc) == plat_store_failed(act.failed_counter, rc)
                IN  Record("record_failed", act.record_failed, store, "clear_failed")
                    /\ UNCHANGED act
ClearFailed == Record("clear_failed", act.clear_failed, plat_clear_failed,
                      "forget_attempted") /\ UNCHANGED act
ForgetAttempted == Record("forget_attempted", act.clear_failed,
                          plat_clear_attempted_version, "register")
                   /\ act' = NoAction

BootConfirm == Plan \/ Confirm \/ Promote \/ DropAttempted \/ ClearPending
               \/ RecordFailed \/ ClearFailed \/ ForgetAttempted

-----------------------------------------------------------------------------
(* The online loop: heartbeat, then the OTA poll.                          *)

\* A request may fail at connect, handshake, send or receive, or time out.
tls_connect_fails == "net" \in Env

\* plat_register and http_listen: a failure of either is only logged.
Register == /\ pc = "register"
            /\ pc' = "heartbeat" /\ state' = "ONLINE"
            /\ UNCHANGED <<nvs, bootVars, act, target, identity, report, cloudVars>>

\* The body of plat_heartbeat: the status server and health() give `healthy`,
\* a recorded failure makes the attempted version the reverted one.
HeartbeatBody(h) ==
  /\ h.applied \in plat_applied_counter
  /\ h.healthy => slot0 \notin Vetoed
  /\ \E f \in plat_failed_counter : IF f # 0 THEN h.reverted \in plat_attempted_version
                                              ELSE h.reverted = 0

HeartbeatSent == /\ pc = "heartbeat"
                 /\ \E h \in Reports : HeartbeatBody(h) /\ report' = h
                 /\ \/ offboarded /\ Halt
                    \/ ~offboarded /\ pc' = "poll" /\ UNCHANGED <<state, act, target, identity>>
                 /\ UNCHANGED <<nvs, bootVars, cloudVars>>
HeartbeatLost == /\ pc = "heartbeat" /\ tls_connect_fails
                 /\ \/ \E h \in Reports : HeartbeatBody(h) /\ report' = h
                    \/ UNCHANGED report
                 /\ pc' = "poll"
                 /\ UNCHANGED <<nvs, bootVars, state, act, target, identity, cloudVars>>

\* Mutant: any verified manifest is accepted, whatever its counter.
no_rollback_check(applied, counter) == counter # 0
md_check_rollback(applied, counter) == counter > applied

\* Mutant: a target recorded as failed is tried again.
accepts_failed(c, applied, failed) == md_check_rollback(applied, c)
\* Mutant: no target is tried while any failure is recorded.
accepts_after_no_failure(c, applied, failed) ==
  md_check_rollback(applied, c) /\ failed = 0
\* The tests of poll_once on a fetched, verified manifest with counter c.
Accepts(c, applied, failed) == md_check_rollback(applied, c) /\ c # failed

\* The release of the manifest in the answer; 0 is a 204, nothing assigned.
plat_fetch_manifest == assigned

\* A new target: poll_once goes on to plat_stage_image.
PollTarget == /\ pc = "poll" /\ plat_fetch_manifest # 0
              /\ \E a \in plat_applied_counter, f \in plat_failed_counter :
                    Accepts(plat_fetch_manifest, a, f)
              /\ target' = plat_fetch_manifest
              /\ pc' = "stage" /\ state' = "UPDATING"
              /\ UNCHANGED <<nvs, bootVars, act, identity, report, cloudVars>>

\* Nothing assigned, nothing new, a failed target, or no valid answer.
PollIdle == /\ pc = "poll"
            /\ \/ plat_fetch_manifest = 0 \/ tls_connect_fails
               \/ \E a \in plat_applied_counter, f \in plat_failed_counter :
                     ~Accepts(plat_fetch_manifest, a, f)
            /\ pc' = "heartbeat"
            /\ UNCHANGED <<nvs, bootVars, state, act, target, identity, report, cloudVars>>

-----------------------------------------------------------------------------
(* Staging and commit.                                                     *)

\* poll_once's error exits after UPDATING.
Abandon == /\ pc' = "heartbeat" /\ state' = "ONLINE" /\ target' = 0
           /\ UNCHANGED <<act, identity>>

\* plat_stage_image up to the first write to slot 1.
StageOpen == /\ pc = "stage"
             /\ \/ slot1' = Partial /\ pc' = "stream" /\ UNCHANGED <<state, act, target, identity>>
                \/ tls_connect_fails /\ Abandon /\ UNCHANGED slot1
             /\ UNCHANGED <<nvs, slot0, trailer, swap_req, rejected, report, cloudVars>>

\* The control plane serves the release assigned now, not the manifest's.
Served == {assigned} \ {0}
\* Mutant: verify_slot_sha256 accepts whatever was written.
digest_unchecked(image) == TRUE
\* verify_slot_sha256 against the digest of the verified manifest.
verify_slot_sha256(image) == image = target

StageDone(image) ==
  /\ pc = "stream" /\ verify_slot_sha256(image)
  /\ slot1' = image /\ pc' = "store_attempted"
  /\ UNCHANGED <<nvs, slot0, trailer, swap_req, rejected, state, act, target,
                 identity, report, cloudVars>>
StageImage == \E image \in Served : StageDone(image)

StageFails == /\ pc = "stream"
              /\ \/ \E image \in Served : ~verify_slot_sha256(image) /\ slot1' = image
                 \/ (Served = {} \/ tls_connect_fails) /\ UNCHANGED slot1
              /\ Abandon
              /\ UNCHANGED <<nvs, slot0, trailer, swap_req, rejected, report, cloudVars>>

StoreAttempted == /\ pc = "store_attempted"
                  /\ \E rc \in {0, -1} : plat_store_attempted_version(target, rc)
                  /\ pc' = "store_pending"
                  /\ UNCHANGED <<bootVars, state, act, target, identity, report, cloudVars>>

\* plat_commit_and_reboot: the pending record first, then the swap request.
StorePending == /\ pc = "store_pending"
                /\ \/ plat_store_pending(target, 0) /\ pc' = "request"
                      /\ UNCHANGED <<state, act, target, identity>>
                   \/ plat_store_pending(target, -1) /\ Abandon
                /\ UNCHANGED <<bootVars, report, cloudVars>>

RequestUpgrade == /\ pc = "request"
                  /\ \/ boot_request_upgrade(0) /\ Reset
                     \/ boot_request_upgrade(-1) /\ Abandon /\ UNCHANGED report
                  /\ UNCHANGED <<nvs, slot0, slot1, trailer, rejected, cloudVars>>

-----------------------------------------------------------------------------
(* The environment.                                                        *)

PowerLoss == /\ "power" \in Env /\ pc # "reset" /\ losses < MaxLosses
             /\ losses' = losses + 1
             /\ Reset
             /\ UNCHANGED <<nvs, bootVars, assigned, offboarded>>

Assign(r) == /\ r # assigned
             /\ r > assigned \/ "retarget" \in Env
             /\ assigned' = r
             /\ UNCHANGED <<nvs, bootVars, threadVars, report, offboarded, losses>>

Offboard == /\ "offboard" \in Env /\ ~offboarded
            /\ offboarded' = TRUE
            /\ UNCHANGED <<nvs, bootVars, threadVars, report, assigned, losses>>

-----------------------------------------------------------------------------

Startup == StartOk \/ StartFails \/ ConnectOk \/ ConnectFails \/ IdentityExists
           \/ IdentityAbsent \/ EnrollOk \/ EnrollFails \/ Credentials
Online  == Register \/ HeartbeatSent \/ HeartbeatLost \/ PollTarget \/ PollIdle
Staging == StageOpen \/ StageImage \/ StageFails \/ StoreAttempted
           \/ StorePending \/ RequestUpgrade
Device  == BootLoader \/ Startup \/ BootConfirm \/ Online \/ Staging
Environment == PowerLoss \/ Offboard \/ \E r \in Counters : Assign(r)

Next == Device \/ Environment
Spec == Init /\ [][Next]_vars

\* The device keeps running; nothing is promised of its environment.
FairSpec == Spec /\ WF_vars(Device)

\* Besides, a request that is retried for ever eventually gets through.
LossySpec == /\ FairSpec
             /\ SF_vars(PollTarget)
             /\ SF_vars(StageOpen /\ pc' = "stream")
             /\ SF_vars(StageImage)

-----------------------------------------------------------------------------
(* Properties.                                                             *)

Applied == nvs[COUNTER_NVS_ID]
Pending == nvs[PENDING_NVS_ID]
Failed  == nvs[FAILED_NVS_ID]
Attempted == nvs[ATTEMPTED_VERSION_NVS_ID]

\* Anti-rollback: the device never runs an image older than its applied
\* counter, across every crash, revert and failed write of poll_once,
\* plat_commit_and_reboot and boot_confirm.
NoDowngrade == Applied <= slot0

\* boot_confirm raises the applied counter only to the counter of the image
\* that is running, and only once MCUboot will keep that image.
PromotedIsKept == [][Applied' # Applied => Applied' = slot0 /\ trailer = "confirmed"]_vars

\* While an image is on trial, slot 1 holds an image MCUboot can fall back
\* to, no older than the applied counter: plat_stage_image never overwrites
\* it before the trial is decided.
FallbackIntact == trailer = "test" => Bootable(slot1) /\ slot1 >= Applied

\* A swap is requested only for a complete image whose counter is already
\* the pending record, so the boot after it can promote or blame the right
\* release (plat_commit_and_reboot's order).
RequestedIsPending == swap_req => slot1 # Partial /\ slot1 = Pending

\* The agent downloads, stages and heartbeats only from an image MCUboot
\* keeps: a trial image is confirmed or rebooted before the online loop.
OnlineIsKept == state \in {"ONLINE", "UPDATING"} => trailer = "confirmed"

\* Unless power was lost, the failed record names a release that MCUboot did
\* revert or refuse (the record boot_confirm writes and poll_once skips).
FailedWasRejected == losses = 0 /\ Failed # 0 => Failed \in rejected

\* Unless power was lost, the reverted version of a heartbeat names a release
\* that MCUboot did revert or refuse, so the control plane marks the right
\* assignment (plat_heartbeat).
ReportedWasRejected == losses = 0 /\ report.reverted # 0 => report.reverted \in rejected

\* Unless power was lost, a release that MCUboot reverted or refused is never
\* swapped in again: poll_once skips it, whatever was assigned in between.
NoReattempt == [][losses = 0 /\ swap_req' /\ ~swap_req => slot1 \notin rejected]_vars

\* Whatever newer releases are assigned, and after any power losses, the device
\* ends up in its online loop for good: a bad target degrades to idle, not a
\* reboot loop (poll_once, boot_confirm).
BadTargetIdles == <>[](pc \in OnlineSteps)

\* An installable release that stays assigned is applied in the end, whatever
\* bad targets came before it and however often poll_once's requests fail; a
\* power loss may instead get it recorded as failed, but never leaves it open.
\* A release is installable when it boots, connects, and its application does
\* not veto it.
Installable(r) == r \notin NoNet \cup Refused \cup Vetoed \cup {0}
GoodTargetIsApplied ==
  \A r \in Counters : Installable(r) =>
     (<>[](assigned = r) => <>[](Applied = r \/ (losses > 0 /\ Failed = r)))

\* The agent implements the abstract device: the known-good image is the one
\* in slot 1 during a trial and the running one otherwise.
Dev == INSTANCE DeviceAbs WITH
         Releases <- Counters, running <- slot0, applied <- Applied,
         good <- IF trailer = "test" THEN slot1 ELSE slot0
ImplementsDevice == Dev!AbsSpec

-----------------------------------------------------------------------------
(* The inductive invariant behind NoDowngrade and PromotedIsKept.  It holds *)
(* as long as neither the confirm write nor an NVS read can fail.           *)

ReliableFlash == "confirm" \notin Env /\ "nvs_read" \notin Env

\* Steps of a boot at which the running image may still be unconfirmed.
EarlySteps == {"reset", "start", "connect", "identity", "enroll", "credentials",
               "plan", "confirm", "halted"}

\* Only an image that can be booted runs, and it is not below the floor.
RunningInv == slot0 \notin Refused /\ NoDowngrade

\* An image on trial is the pending one, it is newer than the floor, and the
\* image it displaced is still there and still above the floor.
TrialInv == trailer = "test" =>
              /\ Bootable(slot1) /\ Applied <= slot1
              /\ slot0 = Pending /\ Applied < slot0
              /\ ~swap_req

\* A device flashed over USB has staged nothing before its first confirm.
FlashedInv == trailer = "unset" => Pending = 0 /\ ~swap_req

\* Past boot_confirm's first write the running image is the kept one.
KeptInv == trailer # "confirmed" => pc \in EarlySteps

\* A requested swap is for the pending release and above the floor.
RequestInv == swap_req => /\ pc = "reset"
                          /\ slot1 # Partial /\ slot1 = Pending /\ slot1 > Applied

\* What boot_confirm decided is still right when it acts on it.
PlanInv == /\ pc = "confirm" =>
                act = ota_plan_boot(plat_image_confirmed, Applied, Pending)
           /\ pc = "promote" /\ act.promote =>
                act.new_applied = slot0 /\ Applied < slot0

\* A target in progress stays above the floor; from the digest check on it is
\* what slot 1 holds, from the pending record on it is the pending one.
StageInv == /\ pc \in StageSteps => Applied < target
            /\ pc \in {"store_attempted", "store_pending", "request"} => slot1 = target
            /\ pc = "request" => Pending = target

\* The anti-rollback argument of boot_confirm and plat_commit_and_reboot as
\* one invariant: counters, slots, trailer and the thread's position agree.
RollbackInv == /\ RunningInv /\ TrialInv /\ FlashedInv /\ KeptInv /\ RequestInv
               /\ PlanInv /\ StageInv

-----------------------------------------------------------------------------
(* The inductive invariants behind FailedWasRejected, ReportedWasRejected  *)
(* and NoReattempt: who is blamed for what, as long as power was not lost.  *)

\* Steps of a boot before boot_confirm has acted on its decision, and those
\* that still have to record a failure.
Undecided == {"start", "connect", "identity", "enroll", "credentials", "plan", "confirm"}
Recording == {"promote", "drop_attempted", "clear_pending", "record_failed"}

\* A boot of a kept image finds a pending record only when MCUboot rejected
\* that release, so that is the release boot_confirm records.
BlameInv == losses = 0 =>
  /\ Failed # 0 => Failed \in rejected
  /\ pc = "reset" /\ ~swap_req /\ trailer # "test" => Pending = 0
  /\ pc \in Undecided /\ trailer = "confirmed" => Pending \in rejected \cup {0}
  /\ pc \in Recording /\ act.record_failed => act.failed_counter \in rejected

\* The attempted version names the release being tried, from the write of
\* poll_once to the end of its trial; otherwise it names a rejected one.
ReportInv == losses = 0 =>
  /\ \/ Attempted \in rejected \cup {0}
     \/ pc \in {"store_pending", "request"} /\ Attempted = target
     \/ (swap_req \/ trailer = "test") /\ Attempted = Pending
     \/ pc \in {"promote", "drop_attempted"} /\ act.promote
  /\ report.reverted \in rejected \cup {0}

\* No rejected release is newer than r.
NoneAbove(r) == \A x \in rejected : x <= r

\* While the control plane only moves on to newer releases, one failed record
\* is enough to remember every rejection above the floor: what is tried next
\* is newer than all of them, and what is promoted makes them all older.
MemoryInv == losses = 0 =>
  /\ NoneAbove(assigned)
  /\ pc \in StageSteps => target <= assigned /\ NoneAbove(target - 1)
  /\ swap_req \/ trailer = "test" => Pending <= assigned /\ NoneAbove(Pending - 1)
  /\ pc \in Undecided /\ trailer = "confirmed" /\ Pending # 0 => NoneAbove(Pending)
  /\ pc \in Recording /\ act.record_failed => NoneAbove(act.failed_counter)
  /\ pc = "promote" /\ act.clear_failed => act.promote /\ NoneAbove(act.new_applied)
  /\ pc \in Recording \cup {"clear_failed"} /\ pc # "promote" /\ act.clear_failed =>
       NoneAbove(Applied)
  /\ \/ pc = "halted" \/ \A x \in rejected : x <= Applied \/ x <= Failed
     \/ pc \in Undecided /\ trailer = "confirmed" /\ Pending # 0
     \/ pc \in Recording /\ act.record_failed
=============================================================================
