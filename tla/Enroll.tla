------------------------------- MODULE Enroll ------------------------------
(***************************************************************************)
(* First-boot enrollment: establish_identity of lib/meshanics_agent.c with *)
(* meshanics_enroll (lib/provision/enroll.c), the four identity records    *)
(* (lib/provision/identity.c) and the TLS credential store they share with *)
(* plat_net_set_identity (lib/plat/plat_net.c).                            *)
(*                                                                         *)
(* A key pair is named by the number of its generation on chip, and so is  *)
(* the certificate issued for it; the manifest key and its key_id are named*)
(* by the control plane's signing-key epoch.  0 is an absent value.  Each  *)
(* NVS write is a step, since power can be lost between two of them.       *)
(* Faults: "power", "net", "crypto", "creds", "nvs_write", "nvs_read",     *)
(* "route", a network that settles while https_retry still tries, and      *)
(* "reboot", a restart of a device that is online (an update does one).    *)
(***************************************************************************)
EXTENDS Integers, FiniteSets

CONSTANTS Faults,      \* the adverse events this instance admits
          MaxLosses,   \* bound on the power losses of a behaviour
          MaxEpoch,    \* bound on the control plane's signing-key epochs
          Attempts,    \* tries of https_retry (20 in the code)
          MaxCreds,    \* CONFIG_TLS_MAX_CREDENTIALS_NUMBER
          OneTime      \* the control plane honours the claim token only once

ASSUME EnrollAssumption == /\ MaxLosses \in Nat /\ MaxEpoch \in Nat \ {0}
                           /\ Attempts \in Nat \ {0} /\ MaxCreds \in Nat
                           /\ OneTime \in BOOLEAN

VARIABLES pc,          \* next step of establish_identity
          rec,         \* identity records in NVS
          ram,         \* self.ident
          gen,         \* key pairs generated so far
          attempt,     \* https_retry's loop counter
          creds,       \* registered TLS credentials, <<tag, type>>
          granted,     \* key pairs the control plane certified
          epoch,       \* the control plane's signing-key epoch
          losses       \* power losses so far

vars == <<pc, rec, ram, gen, attempt, creds, granted, epoch, losses>>

Fields == {"CERT", "KEY", "KEYID", "PUB"}
Absent == [f \in Fields |-> 0]

SEC_TAG == 16
CLAIM_CA_TAG == 32
MTLS_TAG == 33
Identity(tag) == {tag} \X {"CA", "CERT", "KEY"}
ClaimAnchor == {<<CLAIM_CA_TAG, "CA">>}
Credentials == Identity(SEC_TAG) \cup Identity(MTLS_TAG) \cup ClaimAnchor

SaveSteps == {"save_cert", "save_key", "save_keyid", "save_pub"}
EnrollSteps == {"keygen", "claim_ca", "claim", "mtls", "manifest_key", "free"} \cup SaveSteps
Pcs == {"reset", "exists", "load", "credentials", "online", "halted"} \cup EnrollSteps

TypeOK == /\ pc \in Pcs
          /\ rec \in [Fields -> Nat] /\ ram \in [Fields -> Nat]
          /\ gen \in Nat /\ attempt \in 0..Attempts
          /\ creds \subseteq Credentials
          /\ granted \subseteq Nat
          /\ epoch \in 1..MaxEpoch /\ losses \in 0..MaxLosses

Init == /\ pc = "reset" /\ rec = Absent /\ ram = Absent /\ gen = 0 /\ attempt = 0
        /\ creds = {} /\ granted = {} /\ epoch = 1 /\ losses = 0

-----------------------------------------------------------------------------
(* Boot and the stored identity.                                           *)

Goto(next) == pc' = next
Halt == pc' = "halted"

Boot == /\ pc = "reset" /\ Goto("exists")
        /\ UNCHANGED <<rec, ram, gen, attempt, creds, granted, epoch, losses>>

meshanics_identity_exists == \A f \in Fields : rec[f] # 0

Exists == /\ pc = "exists" /\ meshanics_identity_exists /\ Goto("load")
          /\ UNCHANGED <<rec, ram, gen, attempt, creds, granted, epoch, losses>>

\* Mutant: the device enrolls on every boot.
enroll_every_boot ==
  /\ pc = "exists" /\ Goto("keygen")
  /\ UNCHANGED <<rec, ram, gen, attempt, creds, granted, epoch, losses>>
\* A mount or read error counts as an absent record.
NotExists == /\ pc = "exists"
             /\ ~meshanics_identity_exists \/ "nvs_read" \in Faults
             /\ Goto("keygen")
             /\ UNCHANGED <<rec, ram, gen, attempt, creds, granted, epoch, losses>>

meshanics_identity_load ==
  /\ pc = "load"
  /\ \/ (\A f \in Fields : rec[f] # 0) /\ ram' = rec /\ Goto("credentials")
     \/ /\ "nvs_read" \in Faults \/ \E f \in Fields : rec[f] = 0
        /\ Halt /\ UNCHANGED ram
  /\ UNCHANGED <<rec, gen, attempt, creds, granted, epoch, losses>>

-----------------------------------------------------------------------------
(* meshanics_enroll.                                                       *)

\* memset(out) and gen_key_csr: a fresh key pair for this attempt.
GenKeyCsr == /\ pc = "keygen"
             /\ \/ /\ gen' = gen + 1 /\ ram' = [Absent EXCEPT !["KEY"] = gen + 1]
                   /\ Goto("claim_ca")
                \/ "crypto" \in Faults /\ Halt /\ UNCHANGED <<gen, ram>>
             /\ UNCHANGED <<rec, attempt, creds, granted, epoch, losses>>

\* One tls_credential_add per new credential: a full store or an error stops
\* at the first one refused and leaves those before it registered.
tls_credential_add(new, next) ==
  \/ /\ Cardinality(creds \cup new) <= MaxCreds
     /\ creds' = creds \cup new /\ Goto(next)
  \/ /\ Cardinality(creds \cup new) > MaxCreds \/ "creds" \in Faults
     /\ \E part \in (SUBSET new) \ {new} : creds' = creds \cup part
     /\ Cardinality(creds') <= MaxCreds
     /\ Halt

RegisterClaimCa == /\ pc = "claim_ca" /\ tls_credential_add(ClaimAnchor, "claim")
                   /\ attempt' = 0
                   /\ UNCHANGED <<rec, ram, gen, granted, epoch, losses>>

\* Mutant: the loop runs once too often.
retry_once_more == /\ attempt' = attempt + 1
                   /\ IF attempt < Attempts THEN UNCHANGED pc ELSE Halt
\* Mutant: the last try is never made.
retry_gives_up_early == /\ attempt' = attempt + 1
                        /\ IF attempt + 2 < Attempts THEN UNCHANGED pc ELSE Halt
\* https_retry: a transport error of connect or send is tried again.
https_retry == /\ attempt' = attempt + 1
               /\ IF attempt + 1 < Attempts THEN UNCHANGED pc ELSE Halt

\* "route": the first connects fail.  "net": connect or send fails; after a
\* failed send the claim may have reached the control plane all the same.
TokenHonoured == OneTime => granted = {}
Unreachable == /\ pc \in {"claim", "manifest_key"} /\ https_retry
               /\ \/ "net" \in Faults
                  \/ "route" \in Faults /\ attempt + 1 < Attempts
               /\ \/ UNCHANGED granted
                  \/ /\ "net" \in Faults /\ pc = "claim" /\ TokenHonoured
                     /\ granted' = granted \cup {ram["KEY"]}
               /\ UNCHANGED <<rec, ram, gen, creds, epoch, losses>>

\* The control plane certifies the key of the CSR; the answer may get lost,
\* which https reports as an empty response and nobody retries.
ClaimGranted == /\ pc = "claim" /\ TokenHonoured
                /\ granted' = granted \cup {ram["KEY"]}
                /\ \/ ram' = [ram EXCEPT !["CERT"] = ram["KEY"]] /\ Goto("mtls")
                   \/ "net" \in Faults /\ Halt /\ UNCHANGED ram
                /\ UNCHANGED <<rec, gen, attempt, creds, epoch, losses>>
ClaimRejected == /\ pc = "claim"
                 /\ ~TokenHonoured \/ "net" \in Faults
                 /\ Halt
                 /\ UNCHANGED <<rec, ram, gen, attempt, creds, granted, epoch, losses>>

RegisterClaimed == /\ pc = "mtls" /\ tls_credential_add(Identity(MTLS_TAG), "manifest_key")
                   /\ attempt' = 0
                   /\ UNCHANGED <<rec, ram, gen, granted, epoch, losses>>

\* GET /device/manifest-key over mutual TLS with the claimed identity.
ManifestKey == /\ pc = "manifest_key"
               /\ ram["CERT"] = ram["KEY"] /\ ram["CERT"] \in granted
               /\ ram' = [ram EXCEPT !["KEYID"] = epoch, !["PUB"] = epoch]
               /\ Goto("free")
               /\ UNCHANGED <<rec, gen, attempt, creds, granted, epoch, losses>>
ManifestKeyFails == /\ pc = "manifest_key"
                    /\ \/ "net" \in Faults
                       \/ ram["CERT"] # ram["KEY"] \/ ram["CERT"] \notin granted
                    /\ Halt
                    /\ UNCHANGED <<rec, ram, gen, attempt, creds, granted, epoch, losses>>

\* Mutant: the provisioning-time credentials stay registered.
keep_credentials == /\ pc = "free" /\ Goto("save_cert")
                    /\ UNCHANGED <<rec, ram, gen, attempt, creds, granted, epoch, losses>>
FreeCredentials == /\ pc = "free" /\ Goto("save_cert")
                   /\ creds' = creds \ (ClaimAnchor \cup Identity(MTLS_TAG))
                   /\ UNCHANGED <<rec, ram, gen, attempt, granted, epoch, losses>>

-----------------------------------------------------------------------------
(* meshanics_identity_save, then the operational credentials.              *)

Save(from, field, next) ==
  /\ pc = from
  /\ \/ rec' = [rec EXCEPT ![field] = ram[field]] /\ Goto(next)
     \/ "nvs_write" \in Faults /\ Halt /\ UNCHANGED rec
  /\ UNCHANGED <<ram, gen, attempt, creds, granted, epoch, losses>>

\* Mutant: a failed write is ignored.
save_unchecked ==
  \E s \in {<<"save_cert", "CERT", "save_key">>, <<"save_key", "KEY", "save_keyid">>,
            <<"save_keyid", "KEYID", "save_pub">>, <<"save_pub", "PUB", "credentials">>} :
     /\ pc = s[1] /\ Goto(s[3])
     /\ rec' = [rec EXCEPT ![s[2]] = ram[s[2]]] \/ ("nvs_write" \in Faults /\ UNCHANGED rec)
     /\ UNCHANGED <<ram, gen, attempt, creds, granted, epoch, losses>>
meshanics_identity_save == \/ Save("save_cert", "CERT", "save_key")
                           \/ Save("save_key", "KEY", "save_keyid")
                           \/ Save("save_keyid", "KEYID", "save_pub")
                           \/ Save("save_pub", "PUB", "credentials")

plat_net_set_identity ==
  /\ pc = "credentials" /\ tls_credential_add(Identity(SEC_TAG), "online")
  /\ UNCHANGED <<rec, ram, gen, attempt, granted, epoch, losses>>

\* The online loop and its reboots into another image, seen from here.
Reboot == /\ pc = "online" /\ "reboot" \in Faults
          /\ pc' = "reset" /\ ram' = Absent /\ attempt' = 0 /\ creds' = {}
          /\ UNCHANGED <<rec, gen, granted, epoch, losses>>

-----------------------------------------------------------------------------

PowerLoss == /\ "power" \in Faults /\ pc # "reset" /\ losses < MaxLosses
             /\ losses' = losses + 1
             /\ pc' = "reset" /\ ram' = Absent /\ attempt' = 0 /\ creds' = {}
             /\ UNCHANGED <<rec, gen, granted, epoch>>

\* The control plane rotates the manifest-signing key.
RotateKey == /\ epoch < MaxEpoch /\ epoch' = epoch + 1
             /\ UNCHANGED <<pc, rec, ram, gen, attempt, creds, granted, losses>>

meshanics_enroll == \/ GenKeyCsr \/ RegisterClaimCa \/ Unreachable \/ ClaimGranted
                    \/ ClaimRejected \/ RegisterClaimed \/ ManifestKey
                    \/ ManifestKeyFails \/ FreeCredentials
Device == \/ Boot \/ Exists \/ NotExists \/ meshanics_identity_load \/ meshanics_enroll
          \/ meshanics_identity_save \/ plat_net_set_identity
Next == Device \/ Reboot \/ PowerLoss \/ RotateKey
Spec == Init /\ [][Next]_vars
FairSpec == Spec /\ WF_vars(Device)

-----------------------------------------------------------------------------
(* Properties.                                                             *)

\* Whatever was interrupted before it, an identity that
\* meshanics_identity_exists accepts is whole: certificate and key belong to
\* one key pair the control plane certified, key_id and key to one epoch.
StoredIsWhole == (\A f \in Fields : rec[f] # 0) =>
                   /\ rec["CERT"] = rec["KEY"] /\ rec["CERT"] \in granted
                   /\ rec["KEYID"] = rec["PUB"]

\* The agent goes online only with the identity that the next boot will
\* load: establish_identity persists before plat_net_set_identity uses it.
OnlineIsStored == pc = "online" => ram = rec

\* Online, the credential store holds the device identity and nothing else:
\* neither the claim anchor nor the enrollment copies linger.
OnlyOperational == pc = "online" => creds = Identity(SEC_TAG)

\* A stored identity is never given up and never enrolled over again.
NeverReenrolls == [][(\A f \in Fields : rec[f] # 0) => rec' = rec /\ gen' = gen]_vars

\* The token was used up by an attempt that power loss cut short before its
\* identity was stored, and the control plane refuses it now.
TokenLost == /\ OneTime /\ granted # {} /\ pc = "halted"
             /\ ~meshanics_identity_exists

\* A device that keeps running, loses power only finitely often and whose route
\* settles within the tries of https_retry ends up online, with one exception:
\* establish_identity starts from scratch on each boot, but a claim token that
\* is honoured once may be gone by then.
EnrollsEventually == <>[](pc = "online" \/ TokenLost)

\* meshanics_identity_save failed on a complete identity.
SaveFailed == pc = "halted" /\ ram["PUB"] # 0 /\ ~meshanics_identity_exists

\* What establish_identity then says in the log, "will retry enrollment next
\* boot": that attempt is one the control plane can grant.  With a one-time token
\* the code does not keep it (README.md, section 6).
RetryIsHonoured == [](SaveFailed => [](pc = "claim" => TokenHonoured))

-----------------------------------------------------------------------------
(* Inductive invariants behind the properties.                             *)

\* https_retry gives up before its counter passes the bound.
RetryInv == pc \in {"claim", "manifest_key"} => attempt < Attempts

\* What identity_save has written so far agrees with memory, for any Faults.
SavedInv == /\ pc \in {"save_key", "save_keyid", "save_pub"} => rec["CERT"] = ram["CERT"]
            /\ pc \in {"save_keyid", "save_pub"} => rec["KEY"] = ram["KEY"]
            /\ pc = "save_pub" => rec["KEYID"] = ram["KEYID"]
            /\ pc \in {"credentials", "online"} => ram = rec

\* What meshanics_enroll has collected so far belongs together.
CollectedInv == /\ 0 \notin granted
                /\ pc \in {"claim_ca", "claim"} => ram["KEY"] # 0
                /\ pc \in {"mtls", "manifest_key", "free"} \cup SaveSteps =>
                     ram["CERT"] = ram["KEY"] /\ ram["CERT"] \in granted
                /\ pc \in {"free"} \cup SaveSteps =>
                     ram["KEYID"] = ram["PUB"] /\ ram["PUB"] # 0

\* The record saved last is the commit point: while it is absent the device
\* may enroll, once it is there the identity is whole and nobody enrolls.
CommitInv == /\ pc \in EnrollSteps => rec["PUB"] = 0
             /\ rec["PUB"] # 0 => /\ rec["CERT"] = rec["KEY"]
                                  /\ rec["CERT"] \in granted
                                  /\ rec["KEYID"] = rec["PUB"]

\* The store is empty whenever nobody is enrolling: a boot starts with none,
\* and what enrollment adds it takes away before it saves anything.
CredsInv == creds = CASE pc \in {"claim", "mtls"} -> ClaimAnchor
                      [] pc \in {"manifest_key", "free"} -> ClaimAnchor \cup Identity(MTLS_TAG)
                      [] pc = "online" -> Identity(SEC_TAG)
                      [] pc = "halted" -> creds
                      [] OTHER -> {}

\* meshanics_identity_save always writes in the same order, so its last write
\* is the commit point of storing an identity.
EnrollInv == SavedInv /\ CollectedInv /\ CommitInv
=============================================================================
