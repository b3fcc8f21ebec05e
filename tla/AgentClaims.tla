---------------------------- MODULE AgentClaims ----------------------------
(***************************************************************************)
(* Statements that headers and comments of the repository make about the   *)
(* agent and that the code does not keep; TLC refutes each of them (see    *)
(* README.md, section 6).                                                  *)
(***************************************************************************)
EXTENDS Agent

\* plat.h: the failed record is a target that "never booted healthy"; so it
\* is never the image that is running confirmed (boot_confirm).
HealthyNotFailed == Failed # 0 /\ Failed = slot0 => trailer # "confirmed"

\* boot_confirm's comment: a new image is confirmed, or left unconfirmed "and
\* rebooted, so MCUboot reverts": no trial stays undecided.
TrialDecided == trailer = "test" ~> trailer # "test"

\* agent.h: the application's health() returns false "to reject the
\* new image (MCUboot reverts to the previous one)"; so the applied counter is
\* never raised to a vetoed release.
VetoRejects == Applied \notin Vetoed
=============================================================================
