----------------------------- MODULE DeviceAbs -----------------------------
(***************************************************************************)
(* What over-the-air update promises of a device, with no flash layout, no *)
(* counter records and no thread: at every instant it runs one image and   *)
(* has one known-good image; it tries only newer releases, falls back only *)
(* to the known-good one, and its anti-rollback counter only ever moves to *)
(* the counter of an image that is running and known good.                 *)
(***************************************************************************)
EXTENDS Integers

CONSTANT Releases      \* releases, named by their rollback counters

VARIABLES running,     \* image the device executes
          good,        \* image it falls back to
          applied      \* anti-rollback counter

absVars == <<running, good, applied>>

AbsInit == running = 0 /\ good = 0 /\ applied = 0

\* Start a trial of a newer release, from a device that is not on trial.
Try(r) == /\ running = good /\ r > applied
          /\ running' = r
          /\ UNCHANGED <<good, applied>>

\* Give the trial up.
FallBack == running' = good /\ UNCHANGED <<good, applied>>

\* Keep the trial image.
Keep == good' = running /\ UNCHANGED <<running, applied>>

\* Raise the floor to the image that is kept.
Raise == /\ running = good /\ running > applied
         /\ applied' = running
         /\ UNCHANGED <<running, good>>

AbsNext == (\E r \in Releases : Try(r)) \/ FallBack \/ Keep \/ Raise
AbsSpec == AbsInit /\ [][AbsNext]_absVars
=============================================================================
