------------------------------ MODULE Mcuboot ------------------------------
(***************************************************************************)
(* The two image slots and MCUboot's swap state, as lib/plat/plat_mcuboot.c*)
(* uses them.  The bootloader itself is external code: it is modelled from *)
(* the contract the agent relies on (a TEST swap runs once and is reverted *)
(* on the next reset unless the image confirmed itself; an image whose     *)
(* signature fails is not booted).                                         *)
(***************************************************************************)
EXTENDS PlatCounter

CONSTANTS Partial,     \* content of a slot that holds no complete image
          Refused      \* releases whose image signature MCUboot refuses

ASSUME PartialAssumption == Partial \notin Nat
ASSUME RefusedAssumption == Refused \subseteq (Counters \ {0})

VARIABLES slot0,       \* image in the primary slot, the one that runs
          slot1,       \* image in the secondary slot, or Partial
          trailer,     \* primary slot's trailer: "unset" (flashed over USB,
                       \* no swap yet), "test" (on trial), "confirmed"
          swap_req,    \* a TEST swap is requested for the next reset
          rejected     \* history: releases MCUboot reverted or refused

bootVars == <<slot0, slot1, trailer, swap_req, rejected>>

McubootType == /\ slot0 \in Counters
               /\ slot1 \in Counters \cup {Partial}
               /\ trailer \in {"unset", "test", "confirmed"}
               /\ swap_req \in BOOLEAN
               /\ rejected \subseteq Counters

\* Factory image, provisioned over USB or already confirmed at the factory.
McubootInit == /\ slot0 = 0 /\ slot1 = Partial
               /\ trailer \in {"unset", "confirmed"}
               /\ swap_req = FALSE
               /\ rejected = {}

Bootable(image) == image # Partial /\ image \notin Refused

plat_image_confirmed == trailer = "confirmed"

\* Mutant: the confirm call is lost although it reports success.
confirm_image_lost(rc) == rc = 0 /\ UNCHANGED trailer
plat_confirm_image(rc) ==
  \/ rc = 0 /\ trailer' = "confirmed"
  \/ rc = -1 /\ "confirm" \in Env /\ UNCHANGED trailer

boot_request_upgrade(rc) ==
  \/ rc = 0 /\ swap_req' = TRUE
  \/ rc = -1 /\ "upgrade" \in Env /\ UNCHANGED swap_req

-----------------------------------------------------------------------------
(* What MCUboot does at a reset: exactly one of the four is enabled.       *)

\* A requested image is swapped in on trial; the old one waits in slot 1.
SwapTest == /\ swap_req /\ Bootable(slot1)
            /\ slot0' = slot1 /\ slot1' = slot0
            /\ trailer' = "test" /\ swap_req' = FALSE
            /\ UNCHANGED rejected

\* The running image never confirmed: the old one is swapped back.
SwapRevert == /\ ~swap_req /\ trailer = "test" /\ Bootable(slot1)
              /\ slot0' = slot1 /\ slot1' = slot0
              /\ trailer' = "confirmed"
              /\ rejected' = rejected \cup {slot0}
              /\ UNCHANGED swap_req

\* A swap or a revert whose other image does not verify: MCUboot erases that
\* slot and keeps the running image, which counts as confirmed.
RefuseSwap == /\ swap_req \/ trailer = "test"
              /\ ~Bootable(slot1)
              /\ slot1' = Partial
              /\ trailer' = "confirmed" /\ swap_req' = FALSE
              /\ rejected' = rejected \cup ({slot1} \ {Partial})
              /\ UNCHANGED slot0

NoSwap == /\ ~swap_req /\ trailer # "test"
          /\ UNCHANGED bootVars
=============================================================================
