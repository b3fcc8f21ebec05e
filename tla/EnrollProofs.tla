---------------------------- MODULE EnrollProofs ---------------------------
(***************************************************************************)
(* Theorems about enrollment, for any bound on power losses, retries,      *)
(* credentials and key epochs, and for a token honoured once or more often.*)
(***************************************************************************)
EXTENDS Enroll, TLAPS

\* The initial state is well typed and satisfies the invariant.
LEMMA InitOK == Init => TypeOK /\ RetryInv /\ EnrollInv
<1> SUFFICES ASSUME Init PROVE TypeOK /\ RetryInv /\ EnrollInv OBVIOUS
<1>1. rec \in [Fields -> Nat] /\ ram \in [Fields -> Nat] BY DEF Init, Absent
<1>2. attempt \in 0..Attempts /\ epoch \in 1..MaxEpoch /\ losses \in 0..MaxLosses
  BY EnrollAssumption DEF Init
<1>3. TypeOK BY <1>1, <1>2 DEF Init, TypeOK, Pcs
<1>4. EnrollInv
  BY DEF Init, Absent, Fields, EnrollInv, SavedInv, CollectedInv, CommitInv, EnrollSteps,
         SaveSteps
<1> QED BY <1>3, <1>4 DEF RetryInv, Init

\* Boot, the look at the stored identity, and its load keep the types.
LEMMA TypeStored ==
  TypeOK /\ (Boot \/ Exists \/ NotExists \/ meshanics_identity_load) => TypeOK' /\ RetryInv'
BY DEF TypeOK, RetryInv, Boot, Exists, NotExists, meshanics_identity_load, Goto, Halt, Pcs,
       EnrollSteps, SaveSteps

\* So does meshanics_enroll, and its retries stay within bounds.
LEMMA TypeEnroll == TypeOK /\ RetryInv /\ meshanics_enroll => TypeOK' /\ RetryInv'
<1> SUFFICES ASSUME TypeOK, RetryInv, meshanics_enroll PROVE TypeOK' /\ RetryInv' OBVIOUS
<1> USE DEF Goto, Halt, Pcs, EnrollSteps, SaveSteps, RetryInv
<1>1. 0 \in 0..Attempts /\ 0 < Attempts BY EnrollAssumption
<1>2. CASE GenKeyCsr
  <2>1. gen' \in Nat /\ granted' \subseteq Nat
    BY <1>2 DEF GenKeyCsr, TypeOK
  <2>2. ram' \in [Fields -> Nat] BY <1>2 DEF GenKeyCsr, Absent, TypeOK
  <2> QED BY <1>2, <2>1, <2>2 DEF GenKeyCsr, TypeOK
<1>3. CASE RegisterClaimCa \/ RegisterClaimed
  <2>1. creds' \subseteq Credentials
    BY <1>3 DEF RegisterClaimCa, RegisterClaimed, tls_credential_add, Credentials, TypeOK
  <2> QED BY <1>1, <1>3, <2>1 DEF RegisterClaimCa, RegisterClaimed, tls_credential_add, TypeOK
<1>4. CASE Unreachable
  <2>1. attempt' \in 0..Attempts /\ RetryInv'
    BY <1>4, EnrollAssumption DEF Unreachable, https_retry, TypeOK
  <2>2. PICK k \in Nat : k = ram["KEY"] BY DEF TypeOK, Fields
  <2>3. granted' \subseteq Nat BY <1>4, <2>2 DEF Unreachable, TypeOK
  <2> QED BY <1>4, <2>1, <2>3 DEF Unreachable, https_retry, TypeOK
<1>5. CASE ClaimGranted
  <2>1. PICK k \in Nat : k = ram["KEY"] BY DEF TypeOK, Fields
  <2> QED BY <1>5, <2>1 DEF ClaimGranted, TypeOK, Fields
<1>6. CASE ClaimRejected \/ ManifestKeyFails
  BY <1>6 DEF ClaimRejected, ManifestKeyFails, TypeOK
<1>7. CASE ManifestKey
  BY <1>7, EnrollAssumption DEF ManifestKey, TypeOK, Fields
<1>8. CASE FreeCredentials
  BY <1>8 DEF FreeCredentials, TypeOK
<1> QED BY <1>2, <1>3, <1>4, <1>5, <1>6, <1>7, <1>8 DEF meshanics_enroll

\* So do saving the identity, registering it, and the environment.
LEMMA TypeOther ==
  /\ TypeOK /\ RetryInv
  /\ meshanics_identity_save \/ plat_net_set_identity \/ Reboot \/ PowerLoss \/ RotateKey
  => TypeOK' /\ RetryInv'
<1> SUFFICES ASSUME TypeOK, RetryInv,
                    meshanics_identity_save \/ plat_net_set_identity \/ Reboot
                    \/ PowerLoss \/ RotateKey
             PROVE  TypeOK' /\ RetryInv'
  OBVIOUS
<1> USE DEF Goto, Halt, Pcs, EnrollSteps, SaveSteps, RetryInv
<1>1. 0 \in 0..Attempts /\ Absent \in [Fields -> Nat] BY EnrollAssumption DEF Absent
<1>2. CASE meshanics_identity_save
  <2>1. rec' \in [Fields -> Nat]
    BY <1>2 DEF meshanics_identity_save, Save, TypeOK, Fields
  <2> QED BY <1>2, <2>1 DEF meshanics_identity_save, Save, TypeOK
<1>3. CASE plat_net_set_identity
  <2>1. creds' \subseteq Credentials
    BY <1>3 DEF plat_net_set_identity, tls_credential_add, Credentials, TypeOK
  <2> QED BY <1>3, <2>1 DEF plat_net_set_identity, tls_credential_add, TypeOK
<1>4. CASE Reboot BY <1>1, <1>4 DEF Reboot, TypeOK
<1>5. CASE PowerLoss
  <2>1. losses' \in 0..MaxLosses BY <1>5, EnrollAssumption DEF PowerLoss, TypeOK
  <2> QED BY <1>1, <1>5, <2>1 DEF PowerLoss, TypeOK
<1>6. CASE RotateKey
  <2>1. epoch' \in 1..MaxEpoch BY <1>6, EnrollAssumption DEF RotateKey, TypeOK
  <2> QED BY <1>6, <2>1 DEF RotateKey, TypeOK
<1> QED BY <1>2, <1>3, <1>4, <1>5, <1>6

\* Every reachable state is well typed and https_retry stays within its
\* bound, for any Faults.
THEOREM EnrollTypeCorrect == Spec => [](TypeOK /\ RetryInv)
<1>1. TypeOK /\ RetryInv /\ [Next]_vars => TypeOK' /\ RetryInv'
  <2>1. TypeOK /\ RetryInv /\ UNCHANGED vars => TypeOK' /\ RetryInv'
    BY DEF TypeOK, RetryInv, vars
  <2> QED BY <2>1, TypeStored, TypeEnroll, TypeOther DEF Next, Device
<1> QED BY <1>1, InitOK, PTL DEF Spec

-----------------------------------------------------------------------------
(* Saving is atomic.                                                       *)

\* What has been saved agrees with memory after every step, for any Faults.
LEMMA SavedStep == TypeOK /\ SavedInv /\ [Next]_vars => SavedInv'
<1> SUFFICES ASSUME TypeOK, SavedInv, [Next]_vars PROVE SavedInv' OBVIOUS
<1> USE DEF Goto, Halt, SavedInv
<1>1. CASE meshanics_identity_save
  <2>1. CASE Save("save_cert", "CERT", "save_key")
    BY <1>1, <2>1 DEF Save, TypeOK, Fields
  <2>2. CASE Save("save_key", "KEY", "save_keyid")
    BY <1>1, <2>2 DEF Save, TypeOK, Fields
  <2>3. CASE Save("save_keyid", "KEYID", "save_pub")
    BY <1>1, <2>3 DEF Save, TypeOK, Fields
  <2>4. CASE Save("save_pub", "PUB", "credentials")
    <3>1. CASE rec' = [rec EXCEPT !["PUB"] = ram["PUB"]]
      <4>1. \A f \in Fields : rec'[f] = ram[f]
        BY <2>4, <3>1 DEF Save, TypeOK, Fields
      <4>2. rec' \in [Fields -> Nat] BY <3>1 DEF TypeOK, Fields
      <4>3. rec' = ram BY <4>1, <4>2 DEF TypeOK
      <4> QED BY <2>4, <4>3 DEF Save
    <3>2. CASE pc' = "halted" BY <3>2
    <3> QED BY <2>4, <3>1, <3>2 DEF Save
  <2> QED BY <1>1, <2>1, <2>2, <2>3, <2>4 DEF meshanics_identity_save
<1>2. CASE Boot \/ Exists \/ NotExists \/ meshanics_identity_load
  BY <1>2 DEF Boot, Exists, NotExists, meshanics_identity_load
<1>3. CASE meshanics_enroll
  BY <1>3
  DEF meshanics_enroll, GenKeyCsr, RegisterClaimCa, Unreachable, https_retry, ClaimGranted,
      ClaimRejected, RegisterClaimed, ManifestKey, ManifestKeyFails, FreeCredentials,
      tls_credential_add
<1>4. CASE plat_net_set_identity \/ Reboot \/ PowerLoss
  BY <1>4 DEF plat_net_set_identity, tls_credential_add, Reboot, PowerLoss
<1>5. CASE RotateKey \/ UNCHANGED vars
  BY <1>5 DEF RotateKey, vars
<1> QED BY <1>1, <1>2, <1>3, <1>4, <1>5 DEF Next, Device

\* For any Faults the agent goes online only with the identity that its next
\* boot loads.
THEOREM OnlineIsStoredHolds == Spec => []OnlineIsStored
<1>1. SavedInv => OnlineIsStored BY DEF SavedInv, OnlineIsStored
<1>2. Init => SavedInv BY InitOK DEF EnrollInv
<1> QED BY <1>1, <1>2, SavedStep, EnrollTypeCorrect, PTL DEF Spec

-----------------------------------------------------------------------------
(* The credential store, for any Faults.                                   *)

\* A registration that goes on added everything; one that does not halts.
LEMMA AddAll ==
  ASSUME NEW new, NEW next, tls_credential_add(new, next)
  PROVE  (creds' = creds \cup new /\ pc' = next) \/ pc' = "halted"
BY DEF tls_credential_add, Goto, Halt

\* What is registered is determined by the position of the thread.
LEMMA CredsStep == CredsInv /\ [Next]_vars => CredsInv'
<1> SUFFICES ASSUME CredsInv, [Next]_vars PROVE CredsInv' OBVIOUS
<1> USE DEF Goto, Halt, CredsInv
<1>1. CASE Boot \/ Exists \/ NotExists \/ meshanics_identity_load
  BY <1>1 DEF Boot, Exists, NotExists, meshanics_identity_load
<1>2. CASE RegisterClaimCa BY <1>2, AddAll DEF RegisterClaimCa
<1>3. CASE RegisterClaimed BY <1>3, AddAll DEF RegisterClaimed
<1>4. CASE GenKeyCsr \/ Unreachable \/ ClaimGranted \/ ClaimRejected \/ ManifestKey
           \/ ManifestKeyFails
  BY <1>4 DEF GenKeyCsr, Unreachable, https_retry, ClaimGranted, ClaimRejected, ManifestKey,
              ManifestKeyFails
<1>5. CASE FreeCredentials BY <1>5 DEF FreeCredentials
<1>6. CASE meshanics_identity_save BY <1>6 DEF meshanics_identity_save, Save
<1>7. CASE plat_net_set_identity BY <1>7, AddAll DEF plat_net_set_identity
<1>8. CASE Reboot \/ PowerLoss BY <1>8 DEF Reboot, PowerLoss
<1>9. CASE RotateKey \/ UNCHANGED vars BY <1>9 DEF RotateKey, vars
<1> QED BY <1>1, <1>2, <1>3, <1>4, <1>5, <1>6, <1>7, <1>8, <1>9
    DEF Next, Device, meshanics_enroll

\* For any Faults, a device that is online has its own identity registered and
\* neither the claim anchor nor a copy left by meshanics_enroll.
THEOREM OnlyOperationalHolds == Spec => []OnlyOperational
<1>1. Init => CredsInv BY DEF Init, CredsInv
<1>2. CredsInv => OnlyOperational BY DEF CredsInv, OnlyOperational
<1> QED BY <1>1, <1>2, CredsStep, PTL DEF Spec

-----------------------------------------------------------------------------
(* The commit point.                                                       *)

\* What meshanics_enroll collects belongs together, for any Faults.
LEMMA CollectedStep == TypeOK /\ CollectedInv /\ [Next]_vars => CollectedInv'
<1> SUFFICES ASSUME TypeOK, CollectedInv, [Next]_vars PROVE CollectedInv' OBVIOUS
<1> USE DEF Goto, Halt, CollectedInv, SaveSteps
<1>1. CASE meshanics_identity_save
  BY <1>1 DEF meshanics_identity_save, Save
<1>2. CASE Boot \/ Exists \/ NotExists \/ meshanics_identity_load
  BY <1>2 DEF Boot, Exists, NotExists, meshanics_identity_load
<1>3. CASE GenKeyCsr
  BY <1>3 DEF GenKeyCsr, Absent, Fields, TypeOK
<1>4. CASE ClaimGranted
  BY <1>4 DEF ClaimGranted, TypeOK, Fields
<1>5. CASE ManifestKey
  BY <1>5, EnrollAssumption DEF ManifestKey, TypeOK, Fields
<1>6. CASE RegisterClaimCa \/ RegisterClaimed \/ ClaimRejected
           \/ ManifestKeyFails \/ FreeCredentials
  BY <1>6
  DEF RegisterClaimCa, RegisterClaimed, ClaimRejected, ManifestKeyFails, FreeCredentials, tls_credential_add
<1>7. CASE plat_net_set_identity \/ Reboot \/ PowerLoss \/ RotateKey \/ UNCHANGED vars
  BY <1>7 DEF plat_net_set_identity, tls_credential_add, Reboot, PowerLoss, RotateKey, vars
<1>8. CASE Unreachable
  BY <1>8 DEF Unreachable, https_retry, TypeOK, Fields
<1> QED BY <1>1, <1>2, <1>3, <1>4, <1>5, <1>6, <1>7, <1>8
    DEF Next, Device, meshanics_enroll

\* The record saved last commits the identity, unless NVS reads fail.
LEMMA CommitStep ==
  ASSUME "nvs_read" \notin Faults
  PROVE  TypeOK /\ EnrollInv /\ [Next]_vars => CommitInv'
<1> SUFFICES ASSUME TypeOK, EnrollInv, [Next]_vars PROVE CommitInv' OBVIOUS
<1> USE DEF Goto, Halt, EnrollInv, CommitInv, EnrollSteps, SaveSteps
<1>1. CASE meshanics_identity_save
  <2>1. CASE Save("save_pub", "PUB", "credentials")
    BY <1>1, <2>1 DEF Save, TypeOK, Fields, SavedInv, CollectedInv
  <2>2. CASE Save("save_cert", "CERT", "save_key") \/ Save("save_key", "KEY", "save_keyid")
             \/ Save("save_keyid", "KEYID", "save_pub")
    BY <1>1, <2>2 DEF Save, TypeOK, Fields
  <2> QED BY <1>1, <2>1, <2>2 DEF meshanics_identity_save
<1>2. CASE NotExists
  <2>1. rec["PUB"] # 0 => meshanics_identity_exists
    BY DEF meshanics_identity_exists, Fields, CollectedInv
  <2> QED BY <1>2, <2>1 DEF NotExists
<1>3. CASE Boot \/ Exists \/ meshanics_identity_load
  BY <1>3 DEF Boot, Exists, meshanics_identity_load
<1>4. CASE meshanics_enroll
  BY <1>4
  DEF meshanics_enroll, GenKeyCsr, RegisterClaimCa, Unreachable, https_retry, ClaimGranted,
      ClaimRejected, RegisterClaimed, ManifestKey, ManifestKeyFails, FreeCredentials,
      tls_credential_add
<1>5. CASE plat_net_set_identity \/ Reboot \/ PowerLoss \/ RotateKey \/ UNCHANGED vars
  BY <1>5 DEF plat_net_set_identity, tls_credential_add, Reboot, PowerLoss, RotateKey, vars
<1> QED BY <1>1, <1>2, <1>3, <1>4, <1>5 DEF Next, Device

\* The inductive invariant of enrollment.
THEOREM EnrollInvariant ==
  ASSUME "nvs_read" \notin Faults
  PROVE  Spec => []EnrollInv
<1>1. TypeOK /\ EnrollInv /\ [Next]_vars => EnrollInv'
  BY SavedStep, CollectedStep, CommitStep DEF EnrollInv
<1> QED BY <1>1, InitOK, EnrollTypeCorrect, PTL DEF Spec

\* After any interrupted enrollment, an identity that is accepted at boot is
\* whole: one certified key pair and one epoch of the manifest key.
THEOREM StoredIsWholeHolds ==
  ASSUME "nvs_read" \notin Faults
  PROVE  Spec => []StoredIsWhole
<1>1. EnrollInv => StoredIsWhole BY DEF EnrollInv, CommitInv, StoredIsWhole, Fields
<1> QED BY <1>1, EnrollInvariant, PTL

\* A stored identity is never given up and never enrolled over.
THEOREM NeverReenrollsHolds ==
  ASSUME "nvs_read" \notin Faults
  PROVE  Spec => NeverReenrolls
<1>1. ASSUME EnrollInv, [Next]_vars, \A f \in Fields : rec[f] # 0
      PROVE  rec' = rec /\ gen' = gen
  <2>1. pc \notin EnrollSteps BY <1>1 DEF EnrollInv, CommitInv, Fields
  <2> QED BY <1>1, <2>1
      DEF Next, Device, Boot, Exists, NotExists, meshanics_identity_load, meshanics_enroll,
          GenKeyCsr, RegisterClaimCa, Unreachable, ClaimGranted, ClaimRejected,
          RegisterClaimed, ManifestKey, ManifestKeyFails, FreeCredentials,
          meshanics_identity_save, Save, plat_net_set_identity, Reboot, PowerLoss, RotateKey,
          vars, EnrollSteps, SaveSteps
<1> QED BY <1>1, EnrollInvariant, PTL DEF Spec, NeverReenrolls
=============================================================================
