---------------------------- MODULE PlatCounter ----------------------------
(***************************************************************************)
(* The four anti-rollback records of lib/plat/plat_counter.c, kept in the  *)
(* NVS partition through lib/plat/plat_store.c.  They survive a reset.     *)
(*                                                                         *)
(* A release is named by its rollback counter; its version string is a     *)
(* function of the counter, so record 4, the attempted version, holds the  *)
(* counter of that version.  0 is an absent record, which is also what     *)
(* read_counter returns for one.  A single NVS write or delete is atomic   *)
(* against power loss (NVS appends an entry and its allocation entry last),*)
(* and a failed one leaves the old value.                                  *)
(***************************************************************************)
EXTENDS Integers

CONSTANTS MaxCounter,  \* largest rollback counter of a release
          Env          \* the adverse events this instance admits

ASSUME MaxCounterAssumption == MaxCounter \in Nat \ {0}

VARIABLE nvs           \* record id -> stored value

Counters == 0..MaxCounter

COUNTER_NVS_ID == 1
PENDING_NVS_ID == 2
FAILED_NVS_ID  == 3
ATTEMPTED_VERSION_NVS_ID == 4
Ids == 1..4

NvsType == nvs \in [Ids -> Counters]

NvsInit == nvs = [id \in Ids |-> 0]

\* The values a read may return: a mount or read error reads as 0.
read_counter(id) == {nvs[id]} \cup (IF "nvs_read" \in Env THEN {0} ELSE {})

\* rc = 0 stores the value; rc = -1 is a flash error that stores nothing.
plat_store_write(id, value, rc) ==
  \/ rc = 0 /\ nvs' = [nvs EXCEPT ![id] = value]
  \/ rc = -1 /\ "nvs_write" \in Env /\ UNCHANGED nvs

plat_store_delete(id, rc) == plat_store_write(id, 0, rc)

plat_applied_counter == read_counter(COUNTER_NVS_ID)
plat_pending_counter == read_counter(PENDING_NVS_ID)
plat_failed_counter  == read_counter(FAILED_NVS_ID)
plat_attempted_version == read_counter(ATTEMPTED_VERSION_NVS_ID)

plat_store_counter(c, rc) == plat_store_write(COUNTER_NVS_ID, c, rc)
plat_store_failed(c, rc) == plat_store_write(FAILED_NVS_ID, c, rc)
plat_store_attempted_version(v, rc) == plat_store_write(ATTEMPTED_VERSION_NVS_ID, v, rc)

\* Mutant: the flash error of the pending record is swallowed.
store_pending_unchecked(c, rc) ==
  rc = 0 /\ \E real \in {0, -1} : plat_store_write(PENDING_NVS_ID, c, real)
plat_store_pending(c, rc) == plat_store_write(PENDING_NVS_ID, c, rc)

plat_clear_pending(rc) == plat_store_delete(PENDING_NVS_ID, rc)
plat_clear_attempted_version(rc) == plat_store_delete(ATTEMPTED_VERSION_NVS_ID, rc)

\* Mutant: the record ids are mixed up and the applied counter is deleted.
clear_failed_wrong_id(rc) == plat_store_delete(COUNTER_NVS_ID, rc)
plat_clear_failed(rc) == plat_store_delete(FAILED_NVS_ID, rc)
=============================================================================
