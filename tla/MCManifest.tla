---------------------------- MODULE MCManifest -----------------------------
(***************************************************************************)
(* Three messages for model checking Manifest: a plain one; one with its   *)
(* parts in another order, a repeated and an unknown field, a fixed-width  *)
(* field and multi-byte varints; and one whose manifest is too big.        *)
(***************************************************************************)
EXTENDS Manifest

Text(f) == <<8 * f + 2, 1, 97>>
Number(f, value) == <<8 * f, value>>
Fields == Number(1, 1) \o Text(2) \o Text(3) \o Text(4) \o Text(5) \o Number(6, 1) \o Text(7)
Envelope == Text(2) \o Text(3) \o Text(4)

Plain == <<10, Len(Fields)>> \o Fields \o Envelope
Reordered == LET inner == Number(8, 130) \o <<1>> \o Text(4) \o Fields
             IN  Envelope \o <<13, 0, 0, 0, 0>> \o Text(9) \o <<10, 128 + Len(inner), 0>> \o inner
TooBig == LET inner == Fields \o Text(9) \o Text(9) \o Text(9)
          IN  Envelope \o <<10, Len(inner)>> \o inner

MCMessages == {Plain, Reordered, TooBig}
=============================================================================
