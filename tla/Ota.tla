-------------------------------- MODULE Ota --------------------------------
(***************************************************************************)
(* The pure boot decision of lib/ota/ota.c: what the agent must do on a    *)
(* boot that has the network and an identity, from MCUboot's confirmed     *)
(* flag and the two persisted counters.  Counter 0 is "no record".         *)
(***************************************************************************)
EXTENDS Integers

\* struct ota_boot_action a = {0}: do nothing.
NoAction == [confirm |-> FALSE, promote |-> FALSE, new_applied |-> 0,
             clear_pending |-> FALSE, record_failed |-> FALSE,
             failed_counter |-> 0, clear_failed |-> FALSE]

\* Mutant: a pending counter is promoted on a confirmed image too.
plan_promotes_stale(img_confirmed, applied, pending) ==
  [NoAction EXCEPT !.confirm = ~img_confirmed,
                   !.promote = pending > applied,
                   !.new_applied = IF pending > applied THEN pending ELSE 0,
                   !.clear_pending = pending # 0]

\* Mutant: a reverted target is dropped without being remembered.
plan_forgets_failure(img_confirmed, applied, pending) ==
  IF ~img_confirmed
  THEN [NoAction EXCEPT !.confirm = TRUE,
                        !.promote = pending > applied,
                        !.new_applied = IF pending > applied THEN pending ELSE 0,
                        !.clear_failed = pending > applied,
                        !.clear_pending = pending # 0]
  ELSE [NoAction EXCEPT !.clear_pending = pending # 0]

\* Mutant: the test of the confirmed flag is inverted.
plan_inverted(img_confirmed, applied, pending) ==
  IF img_confirmed
  THEN [NoAction EXCEPT !.confirm = TRUE,
                        !.promote = pending > applied,
                        !.new_applied = IF pending > applied THEN pending ELSE 0,
                        !.clear_failed = pending > applied,
                        !.clear_pending = pending # 0]
  ELSE [NoAction EXCEPT !.clear_pending = pending # 0,
                        !.record_failed = pending # 0,
                        !.failed_counter = pending]

\* Mutant: a trial image that boots healthy is recorded as failed too.
plan_fails_healthy(img_confirmed, applied, pending) ==
  [NoAction EXCEPT !.confirm = ~img_confirmed,
                   !.promote = ~img_confirmed /\ pending > applied,
                   !.new_applied = IF ~img_confirmed /\ pending > applied
                                   THEN pending ELSE 0,
                   !.clear_pending = pending # 0,
                   !.record_failed = pending # 0,
                   !.failed_counter = pending]

\* Mutant: an image is confirmed only when it brings a newer counter.
plan_confirms_newer(img_confirmed, applied, pending) ==
  [NoAction EXCEPT !.confirm = ~img_confirmed /\ pending > applied,
                   !.promote = ~img_confirmed /\ pending > applied,
                   !.new_applied = IF ~img_confirmed /\ pending > applied
                                   THEN pending ELSE 0,
                   !.clear_failed = ~img_confirmed /\ pending > applied,
                   !.clear_pending = pending # 0]

\* Mutant: the promoted counter is one past the pending one.
plan_overshoots(img_confirmed, applied, pending) ==
  IF ~img_confirmed
  THEN [NoAction EXCEPT !.confirm = TRUE,
                        !.promote = pending > applied,
                        !.new_applied = pending + 1,
                        !.clear_failed = pending > applied,
                        !.clear_pending = pending # 0]
  ELSE [NoAction EXCEPT !.clear_pending = pending # 0,
                        !.record_failed = pending # 0,
                        !.failed_counter = pending]

ota_plan_boot(img_confirmed, applied, pending) ==
  IF ~img_confirmed
  THEN [NoAction EXCEPT !.confirm = TRUE,
                        !.promote = pending > applied,
                        !.new_applied = IF pending > applied THEN pending ELSE 0,
                        !.clear_failed = pending > applied,
                        !.clear_pending = pending # 0]
  ELSE [NoAction EXCEPT !.clear_pending = pending # 0,
                        !.record_failed = pending # 0,
                        !.failed_counter = pending]
=============================================================================
