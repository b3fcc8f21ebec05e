---------------------------- MODULE ManifestProofs -------------------------
(***************************************************************************)
(* md_verify stays inside its buffer, returns signed bytes only, reads each*)
(* number as it was written and takes a bounded number of steps, for every *)
(* input, buffer length, limit and integer width.                          *)
(***************************************************************************)
EXTENDS Manifest, TLAPS

USE WidthAssumption, LensAssumption, ByteAssumption, LengthAssumption, FixedAssumption

ManifestIInv == TypeOK /\ ManifestInv

\* Initially nothing was read.
LEMMA ManifestInitially == Init => ManifestIInv
<1> SUFFICES ASSUME Init PROVE ManifestIInv
  OBVIOUS
<1> USE DEF Init, Nothing, SignedFields, StringFields, NumberFields
<1>1. TypeOK
  BY DEF TypeOK, Slices, Results, Purposes
<1>2. ManifestInv
  BY DEF ManifestInv, InBounds, OnlySigned, PhaseInv, YieldInv, Within
<1> QED BY <1>1, <1>2 DEF ManifestIInv

\* A remainder is below its modulus.
LEMMA ModBound == ASSUME NEW a \in Nat, NEW b \in Nat \ {0} PROVE a % b \in 0..(b - 1)
OBVIOUS

\* A product of naturals is one.
LEMMA TimesNat == ASSUME NEW a \in Nat, NEW b \in Nat PROVE a * b \in Nat
OBVIOUS

\* A number below the modulus is its own remainder.
LEMMA SmallMod == ASSUME NEW a \in Nat, NEW b \in Nat \ {0}, a < b PROVE a % b = a
OBVIOUS

\* A step that only moves on inside the message keeps the invariant.
LEMMA MoveOn ==
  ASSUME ManifestIInv, step # "done", UNCHANGED <<len, msg, lim, part, m, num, signed>>,
         pos' \in Nat, pos <= pos', pos' <= lim,
         \/ step' \in {"loop", "varint"} \cup Purposes /\ UNCHANGED res
         \/ step' = "done" /\ res' = "DECODE"
  PROVE  ManifestInv'
<1> USE DEF ManifestIInv, ManifestInv
<1>1. InBounds'
  BY DEF InBounds, Within
<1>2. OnlySigned'
  <2>1. msg = "manifest" => signed.at <= pos'
    BY DEF OnlySigned, TypeOK, Slices
  <2>2. res' # "OK" \/ res' = res
    OBVIOUS
  <2> QED BY <2>1, <2>2 DEF OnlySigned, Within
<1>3. PhaseInv' /\ YieldInv'
  BY DEF PhaseInv, YieldInv, Within, Purposes
<1> QED BY <1>1, <1>2, <1>3

\* One byte of a varint.
LEMMA VarintByteStep ==
  ASSUME ManifestIInv, NEW b \in 0..(2 * PAYLOAD - 1), VarintByte(b)
  PROVE  ManifestIInv'
<1> USE DEF ManifestIInv
<1>1. (b % PAYLOAD) * unit \in Nat
  <2>1. b % PAYLOAD \in Nat
    OBVIOUS
  <2>2. unit \in Nat
    BY DEF TypeOK
  <2> HIDE DEF ManifestIInv
  <2> QED BY <2>1, <2>2, TimesNat
<1>2. acc' \in 0..(VARINT - 1)
  BY <1>1, ModBound DEF VarintByte, AddPayload, TypeOK
<1>3. unit' \in Nat
  BY TimesNat DEF VarintByte, NextUnit, TypeOK
<1>4. raw' \in Seq(Nat)
  BY DEF VarintByte, TypeOK
<1>5. damage' \in 0..MaxDamage
  BY SMTT(30) DEF VarintByte, Arrives, TypeOK
<1>6. /\ UNCHANGED <<sent, len, msg, lim, purpose, field, part, m, num, signed, res>>
      /\ step = "varint" /\ step' \in {"varint"} \cup Purposes
  BY DEF VarintByte, TypeOK, Goto, decoded
<1>7. pos' \in Nat /\ pos <= pos' /\ pos' <= lim
  BY DEF VarintByte, TypeOK
<1>8. TypeOK'
  BY <1>2, <1>3, <1>4, <1>5, <1>6, <1>7, Zenon DEF TypeOK
<1>9. ManifestInv'
  BY <1>6, <1>7, MoveOn
<1> QED BY <1>8, <1>9

\* Starting a varint, or leaving the last one as it was.
LEMMA VarintTypes ==
  ASSUME TypeOK, (\E p \in Purposes : StartVarint(p)) \/ UNCHANGED varint
  PROVE  purpose' \in Purposes /\ acc' \in 0..(VARINT - 1) /\ unit' \in Nat /\ raw' \in Seq(Nat)
<1>1. CASE \E p \in Purposes : StartVarint(p)
  BY <1>1 DEF StartVarint, TypeOK
<1>2. CASE UNCHANGED varint
  BY <1>2 DEF varint, TypeOK
<1> QED BY <1>1, <1>2

\* A varint that is cut off, the head of the loop, and numbers.
LEMMA LoopStep ==
  ASSUME ManifestIInv, Loop \/ VarintFails
  PROVE  ManifestIInv'
<1> USE DEF ManifestIInv
<1>1. UNCHANGED <<sent, damage, len, msg, lim, pos, field, part, m, num, signed>> /\ step # "done"
  BY DEF Loop, VarintFails, input, decoded
<1>2. (\E p \in Purposes : StartVarint(p)) \/ UNCHANGED varint
  BY DEF Loop, VarintFails, Purposes
<1>3. \/ step' = "varint" /\ UNCHANGED res
      \/ step' = "checks" /\ UNCHANGED res /\ msg = "signed"
      \/ step' = "validate" /\ UNCHANGED res /\ msg = "manifest"
      \/ step' = "done" /\ res' = "DECODE"
  BY DEF Loop, VarintFails, StartVarint, Goto, Return, TypeOK
<1>4. TypeOK'
  <2>1. step' \in {"varint", "checks", "validate", "done"} /\ res' \in Results
    BY <1>3 DEF TypeOK, Results
  <2> QED BY <1>1, <1>2, <2>1, VarintTypes, Zenon DEF TypeOK
<1>5. pos' \in Nat /\ pos <= pos' /\ pos' <= lim
  BY <1>1 DEF TypeOK, ManifestInv, InBounds
<1>6. ManifestInv'
  <2>1. CASE step' \in {"varint", "done"}
    BY <1>1, <1>3, <1>5, <2>1, MoveOn
  <2>2. CASE step' \in {"checks", "validate"}
    <3>1. InBounds' /\ OnlySigned' /\ YieldInv'
      BY <1>1, <1>3, <2>2 DEF ManifestInv, InBounds, OnlySigned, YieldInv, Within
    <3>2. PhaseInv'
      BY <1>1, <1>3, <2>2 DEF ManifestInv, PhaseInv
    <3> QED BY <3>1, <3>2 DEF ManifestInv
  <2> QED BY <1>3, <2>1, <2>2
<1> QED BY <1>4, <1>6

\* The tag and the fields it skips.
LEMMA TagStep == ASSUME ManifestIInv, Tag PROVE ManifestIInv'
<1> USE DEF ManifestIInv
<1>1. UNCHANGED <<sent, damage, len, msg, lim, part, m, num, signed>> /\ step # "done"
  BY DEF Tag, input, decoded
<1>2. field' \in 0..(WORD - 1)
  <2>1. acc \div 8 \in Nat
    BY DEF TypeOK
  <2> QED BY <2>1, ModBound DEF Tag
<1>3. (\E p \in Purposes : StartVarint(p)) \/ UNCHANGED varint
  BY DEF Tag, Purposes, varint
<1>4. /\ pos' \in Nat /\ pos <= pos' /\ pos' <= lim
      /\ \/ step' \in {"loop", "varint"} \cup Purposes /\ UNCHANGED res
         \/ step' = "done" /\ res' = "DECODE"
  <2>1. pos \in Nat /\ lim \in Nat /\ pos <= lim
    BY DEF TypeOK, ManifestInv, InBounds
  <2>2. ASSUME NEW n \in Nat, SkipFixed(n)
        PROVE  /\ pos' \in Nat /\ pos <= pos' /\ pos' <= lim
               /\ \/ step' = "loop" /\ UNCHANGED res
                  \/ step' = "done" /\ res' = "DECODE"
    BY <2>1, <2>2 DEF SkipFixed, Goto, Return
  <2> QED BY <2>1, <2>2 DEF Tag, StartVarint, Goto, Return
<1>5. TypeOK'
  <2>1. step' \in {"loop", "varint", "done"} \cup Purposes /\ res' \in Results
    BY <1>4 DEF TypeOK, Results
  <2> QED BY <1>1, <1>2, <1>3, <1>4, <2>1, VarintTypes, Zenon DEF TypeOK
<1>6. ManifestInv'
  BY <1>1, <1>4, MoveOn
<1> QED BY <1>5, <1>6

\* A number of the manifest.
LEMMA ValueStep == ASSUME ManifestIInv, Value PROVE ManifestIInv'
<1> USE DEF ManifestIInv
<1>1. /\ UNCHANGED <<sent, damage, len, msg, lim, pos, field, part, m, signed, res>>
      /\ UNCHANGED varint /\ step' = "loop" /\ step = "value"
  BY DEF Value, input, Goto
<1>2. num' \in [NumberFields -> Nat]
  <2>1. acc % WORD \in Nat /\ acc \in Nat
    BY DEF TypeOK
  <2> QED BY <2>1 DEF Value, TypeOK
<1>3. TypeOK'
  BY <1>1, <1>2, VarintTypes, Zenon DEF TypeOK
<1>4. ManifestInv'
  <2>1. InBounds' /\ OnlySigned' /\ YieldInv'
    BY <1>1 DEF ManifestInv, InBounds, OnlySigned, YieldInv, Within
  <2>2. PhaseInv'
    BY <1>1 DEF ManifestInv, PhaseInv
  <2> QED BY <2>1, <2>2 DEF ManifestInv
<1> QED BY <1>3, <1>4

\* A slice: its length was compared with what is left before it was used.
LEMMA LengthStep == ASSUME ManifestIInv, Length PROVE ManifestIInv'
<1> USE DEF ManifestIInv
<1> DEFINE slice == [at |-> pos, len |-> acc % WORD]
<1>1. /\ UNCHANGED <<sent, damage, len, msg, lim, field, num, signed>> /\ UNCHANGED varint
      /\ step = "length"
  BY DEF Length, input
<1>2. CASE TooLong(acc)
  <2>1. UNCHANGED <<pos, part, m>> /\ step' = "done" /\ res' = "DECODE"
    BY <1>2 DEF Length, Return
  <2>2. TypeOK'
    <3>1. res' \in Results /\ UNCHANGED <<pos, part, m>> /\ step' = "done"
      BY <2>1 DEF Results
    <3> QED BY <1>1, <3>1, VarintTypes, Zenon DEF TypeOK
  <2>3. pos' \in Nat /\ pos <= pos' /\ pos' <= lim
    BY <2>1 DEF TypeOK, ManifestInv, InBounds
  <2>4. ManifestInv'
    BY <1>1, <2>1, <2>3, MoveOn
  <2> QED BY <2>2, <2>4
<1>3. CASE ~TooLong(acc)
  <2>1. acc <= lim - pos /\ acc \in Nat /\ pos \in Nat /\ lim \in Nat /\ lim <= len /\ len < WORD
    BY <1>3 DEF TooLong, TypeOK, ManifestInv, InBounds
  <2>2. acc % WORD = acc
    <3>1. acc < WORD
      BY <2>1 DEF TypeOK
    <3> HIDE DEF ManifestIInv
    <3> QED BY <2>1, <3>1, SmallMod
  <2>3. /\ pos' = pos + slice.len /\ step' = "loop" /\ UNCHANGED res
        /\ part' = IF msg = "signed" /\ field \in SignedFields
                   THEN [part EXCEPT ![field] = slice] ELSE part
        /\ m' = IF msg = "manifest" /\ field \in StringFields
                THEN [m EXCEPT ![field] = slice] ELSE m
    BY <1>3 DEF Length, Goto
  <2>4. /\ slice \in Slices /\ Within(slice, pos, lim) /\ pos' \in Nat /\ pos <= pos'
        /\ pos' <= lim
    BY <2>1, <2>2, <2>3 DEF Slices, Within
  <2>5. slice.at \in Nat /\ slice.len \in Nat /\ Within(slice, 0, len)
    BY <2>1, <2>2 DEF Within, TypeOK
  <2> HIDE DEF slice
  <2>6. part' \in [SignedFields -> Slices] /\ m' \in [StringFields -> Slices]
    BY <2>3, <2>4 DEF TypeOK
  <2>7. TypeOK'
    BY <1>1, <2>3, <2>4, <2>6, VarintTypes, Zenon DEF TypeOK
  <2>8. InBounds'
    <3>1. \A f \in SignedFields : part'[f] = part[f] \/ part'[f] = slice
      BY <2>3 DEF TypeOK
    <3>2. \A f \in StringFields : m'[f] = m[f] \/ m'[f] = slice
      BY <2>3 DEF TypeOK
    <3> QED BY <1>1, <2>1, <2>4, <2>5, <3>1, <3>2 DEF InBounds, ManifestInv, Within
  <2>9. OnlySigned'
    <3>1. msg = "signed" => m' = m
      BY <2>3
    <3>2. msg = "manifest" => part' = part /\ signed.at <= pos' /\ signed.at \in Nat
      BY <2>3, <2>4 DEF OnlySigned, ManifestInv, TypeOK, Slices
    <3>3. res' = "none"
      BY <1>1, <2>3 DEF PhaseInv, ManifestInv
    <3> QED BY <1>1, <3>1, <3>2, <3>3 DEF OnlySigned, ManifestInv, TypeOK
  <2>10. PhaseInv'
    BY <1>1, <2>3 DEF PhaseInv, ManifestInv
  <2>11. YieldInv'
    <3> SUFFICES ASSUME msg' = "manifest", NEW f \in StringFields
                 PROVE  m'[f] = Nothing \/ Within(m'[f], signed'.at, lim')
      BY DEF YieldInv
    <3>1. signed.at \in Nat /\ signed.at <= pos
      BY <1>1 DEF OnlySigned, ManifestInv, TypeOK, Slices
    <3>2. Within(slice, signed.at, lim)
      BY <2>1, <2>4, <2>5, <3>1 DEF Within
    <3>3. m'[f] = m[f] \/ m'[f] = slice
      BY <2>3 DEF TypeOK
    <3> QED BY <1>1, <3>2, <3>3 DEF YieldInv, ManifestInv
  <2> QED BY <2>7, <2>8, <2>9, <2>10, <2>11 DEF ManifestInv
<1> QED BY <1>2, <1>3

-----------------------------------------------------------------------------
(* The checks.                                                             *)

\* What every result of a check other than acceptance keeps.
LEMMA RefusalKeeps ==
  ASSUME ManifestIInv, step # "done",
         UNCHANGED <<sent, damage, len, msg, lim, pos, purpose, acc, unit, raw, field,
                     part, m, num, signed>>,
         step' = "done", res' \in Results, res' # "OK",
         msg = "signed" => res' \notin {"SCHEMA", "FIELD"}
  PROVE  ManifestIInv'
<1> USE DEF ManifestIInv
<1>1. TypeOK'
  BY Zenon DEF TypeOK
<1>2. InBounds' /\ YieldInv'
  BY DEF ManifestInv, InBounds, YieldInv, Within
<1>3. OnlySigned' /\ PhaseInv'
  BY DEF ManifestInv, OnlySigned, PhaseInv
<1> QED BY <1>1, <1>2, <1>3 DEF ManifestInv

\* alg, signature size, manifest size and key_id.
LEMMA ChecksStep ==
  ASSUME ManifestIInv, NEW a \in BOOLEAN, NEW k \in BOOLEAN, Checks(a, k)
  PROVE  ManifestIInv'
<1> USE DEF ManifestIInv
<1>1. /\ UNCHANGED <<sent, damage, len, msg, lim, pos, purpose, acc, unit, raw, field,
                     part, m, num, signed>>
      /\ step = "checks" /\ msg = "signed"
  BY DEF Checks, input, varint, decoded, ManifestInv, PhaseInv
<1>2. \/ step' = "done" /\ res' \in {"ALG", "SIG_SIZE", "EMPTY_MANIFEST", "MANIFEST_TOO_BIG", "KEY_ID"}
      \/ /\ step' = "signature" /\ UNCHANGED res
         /\ part[1].len # 0 /\ ~(part[1].len > MD_MAX_MANIFEST)
  BY DEF Checks, Goto, Return
<1>3. CASE step' = "done"
  BY <1>1, <1>2, <1>3, RefusalKeeps DEF Results
<1>4. CASE step' = "signature"
  <2>1. part[1] \in Slices
    BY DEF TypeOK, SignedFields
  <2>2. part[1].len \in 1..MD_MAX_MANIFEST
    BY <1>2, <1>4, <2>1 DEF Slices
  <2>3. TypeOK'
    BY <1>1, <1>2, <1>4, Zenon DEF TypeOK
  <2>4. InBounds' /\ YieldInv'
    BY <1>1 DEF ManifestInv, InBounds, YieldInv, Within
  <2>5. OnlySigned' /\ PhaseInv'
    BY <1>1, <1>2, <1>4, <2>2 DEF ManifestInv, OnlySigned, PhaseInv
  <2> QED BY <2>3, <2>4, <2>5 DEF ManifestInv
<1> QED BY <1>2, <1>3, <1>4

\* The signature: decoding starts over on the bytes it covers.
LEMMA SignatureStep ==
  ASSUME ManifestIInv, NEW v \in BOOLEAN, Signature(v)
  PROVE  ManifestIInv'
<1> USE DEF ManifestIInv
<1>1. /\ UNCHANGED <<sent, damage, len, purpose, acc, unit, raw, field, part, m, num>>
      /\ step = "signature" /\ msg = "signed" /\ part[1].len \in 1..MD_MAX_MANIFEST
  BY DEF Signature, input, varint, decoded, ManifestInv, PhaseInv
<1>2. CASE ~v
  <2>1. UNCHANGED <<msg, pos, lim, signed>> /\ step' = "done" /\ res' = "SIGNATURE"
    BY <1>2 DEF Signature, Return
  <2> QED BY <1>1, <2>1, RefusalKeeps DEF Results
<1>3. CASE v
  <2>1. /\ signed' = part[1] /\ msg' = "manifest" /\ step' = "loop" /\ UNCHANGED res
        /\ pos' = part[1].at /\ lim' = part[1].at + part[1].len
    BY <1>3 DEF Signature, Goto, ManifestEnd
  <2>2. part[1] \in Slices /\ part[1].at \in Nat /\ part[1].len \in Nat /\ Within(part[1], 0, len)
    <3>1. 1 \in SignedFields
      BY DEF SignedFields
    <3>2. part[1] \in Slices /\ Within(part[1], 0, len)
      BY <3>1 DEF TypeOK, ManifestInv, InBounds
    <3> QED BY <3>2 DEF Slices
  <2>3. TypeOK'
    <3>1. pos' \in Nat /\ lim' \in Nat
      BY <2>1, <2>2
    <3> QED BY <1>1, <2>1, <2>2, <3>1, Zenon DEF TypeOK
  <2>4. InBounds'
    BY <1>1, <2>1, <2>2 DEF ManifestInv, InBounds, Within
  <2>5. m = [f \in StringFields |-> Nothing] /\ res = "none"
    BY <1>1 DEF ManifestInv, OnlySigned, PhaseInv
  <2>6. OnlySigned'
    <3>1. signed'.at <= pos'
      BY <2>1, <2>2
    <3> QED BY <1>1, <2>1, <2>5, <3>1 DEF OnlySigned
  <2>7. PhaseInv'
    BY <2>1, <2>5 DEF PhaseInv
  <2>8. YieldInv'
    BY <1>1, <2>5 DEF YieldInv, Nothing
  <2> QED BY <2>3, <2>4, <2>6, <2>7, <2>8 DEF ManifestInv
<1> QED BY <1>2, <1>3

\* Acceptance: every string was yielded by the manifest's decoder.
LEMMA ValidateStep ==
  ASSUME ManifestIInv, NEW h \in BOOLEAN, Validate(h)
  PROVE  ManifestIInv'
<1> USE DEF ManifestIInv
<1>1. /\ UNCHANGED <<sent, damage, len, msg, lim, pos, purpose, acc, unit, raw, field,
                     part, m, num, signed>>
      /\ step = "validate" /\ msg = "manifest"
  BY DEF Validate, input, varint, decoded, ManifestInv, PhaseInv
<1>2. /\ step' = "done"
      /\ \/ res' \in {"SCHEMA", "FIELD"}
         \/ /\ res' = "OK" /\ m[5].len = SHA
            /\ \A f \in StringFields \ {5} : m[f].len # 0
  BY DEF Validate, Return
<1>3. CASE res' # "OK"
  BY <1>1, <1>2, <1>3, RefusalKeeps DEF Results
<1>4. CASE res' = "OK"
  <2>1. \A f \in StringFields : m[f].len > 0
    <3> SUFFICES ASSUME NEW f \in StringFields PROVE m[f].len > 0
      OBVIOUS
    <3>1. m[f].len \in Nat
      BY DEF TypeOK, Slices
    <3> QED BY <1>2, <1>4, <3>1
  <2>2. \A f \in StringFields : Within(m[f], signed.at, signed.at + signed.len)
    <3> SUFFICES ASSUME NEW f \in StringFields PROVE Within(m[f], signed.at, lim)
      BY <1>1 DEF ManifestInv, OnlySigned
    <3>1. m[f] # Nothing
      BY <2>1 DEF Nothing
    <3> QED BY <1>1, <3>1 DEF ManifestInv, YieldInv
  <2>3. TypeOK'
    BY <1>1, <1>2, <1>4, Zenon DEF TypeOK, Results
  <2>4. InBounds' /\ YieldInv'
    BY <1>1 DEF ManifestInv, InBounds, YieldInv, Within
  <2>5. OnlySigned'
    BY <1>1, <1>2, <1>4, <2>1, <2>2 DEF ManifestInv, OnlySigned, Within
  <2>6. PhaseInv'
    BY <1>1, <1>2 DEF ManifestInv, PhaseInv
  <2> QED BY <2>3, <2>4, <2>5, <2>6 DEF ManifestInv
<1> QED BY <1>3, <1>4

\* Every step of md_verify keeps the invariant.
LEMMA ManifestNext == ManifestIInv /\ [md_verify]_vars => ManifestIInv'
<1> SUFFICES ASSUME ManifestIInv, [md_verify]_vars PROVE ManifestIInv'
  OBVIOUS
<1>1. CASE UNCHANGED vars
  <2>1. UNCHANGED <<sent, damage, len, msg, pos, lim, step, purpose, acc, unit, raw, field,
                    part, m, num, signed, res>>
    BY <1>1 DEF vars, input, varint, decoded
  <2>2. TypeOK'
    BY <2>1, Zenon DEF ManifestIInv, TypeOK
  <2>3. ManifestInv'
    BY <2>1, Zenon DEF ManifestIInv, ManifestInv, InBounds, OnlySigned, PhaseInv, YieldInv, Within
  <2> QED BY <2>2, <2>3 DEF ManifestIInv
<1>2. CASE Decode
  BY <1>2, LoopStep, TagStep, LengthStep, ValueStep, VarintByteStep DEF Decode
<1>3. CASE Check
  BY <1>3, ChecksStep, SignatureStep, ValidateStep DEF Check
<1> QED BY <1>1, <1>2, <1>3 DEF md_verify

-----------------------------------------------------------------------------
(* What read_varint reads.  Denotes is defined by two functions recursive on*)
(* the bytes; the equations that define them are Weights and Sums.  That   *)
(* they have a solution, and that every solution yields what was read, is  *)
(* shown along with the bytes as they arrive and not by induction on them. *)

Weights(bytes, w) == w = [i \in 0..Len(bytes) |-> IF i = 0 THEN 1 ELSE w[i - 1] * PAYLOAD]
Sums(bytes, w, s) ==
  s = [i \in 0..Len(bytes) |-> IF i = 0 THEN 0 ELSE s[i - 1] + (bytes[i] % PAYLOAD) * w[i - 1]]

\* The equations for these bytes can be solved.
Solvable(bytes) == /\ \E w : Weights(bytes, w)
                   /\ \A w : Weights(bytes, w) => \E s : Sums(bytes, w, s)

\* Whatever solves them, the sum is value modulo the width.
Yields(bytes, value) ==
  \A w, s : Weights(bytes, w) /\ Sums(bytes, w, s) =>
    s[Len(bytes)] \in Nat /\ value = s[Len(bytes)] % VARINT

\* Whatever solves them, the weight of the next byte is u.
Weighs(bytes, u) == \A w : Weights(bytes, w) => w[Len(bytes)] \in Nat /\ u = w[Len(bytes)]

\* The value so far and the unit of the next byte solve the equations.
SolvedInv == Solvable(raw) /\ Yields(raw, acc) /\ (step = "varint" => Weighs(raw, unit))

\* Denotes is what the equations say.
LEMMA DenotesSolution ==
  ASSUME NEW bytes
  PROVE  LET w == CHOOSE w : Weights(bytes, w)
             s == CHOOSE s : Sums(bytes, w, s)
         IN  Denotes(bytes) = s[Len(bytes)]
BY DEF Denotes, Weights, Sums

\* Quotient and remainder.
LEMMA DivMod ==
  ASSUME NEW k \in Nat \ {0}, NEW a \in Nat
  PROVE  a \div k \in Int /\ a % k \in 0..(k - 1) /\ a = k * (a \div k) + (a % k)
OBVIOUS

\* A remainder is determined by the division.
LEMMA ModUnique ==
  ASSUME NEW k \in Nat \ {0}, NEW q \in Int, NEW r \in 0..(k - 1), NEW a \in Nat, a = k * q + r
  PROVE  a % k = r
OBVIOUS

\* Reducing a summand first does not change the remainder of a sum.
LEMMA ModSum ==
  ASSUME NEW k \in Nat \ {0}, NEW e \in Nat, NEW x \in Nat
  PROVE  ((e % k) + x) % k = (e + x) % k
<1> DEFINE q == e \div k
           r == e % k
           p == (r + x) \div k
           t == (r + x) % k
<1>1. q \in Int /\ r \in 0..(k - 1) /\ e = k * q + r
  BY DivMod
<1>2. p \in Int /\ t \in 0..(k - 1) /\ r + x = k * p + t
  <2>1. r + x \in Nat BY <1>1
  <2> QED BY <2>1, DivMod
<1> HIDE DEF q, r, p, t
<1>3. e + x = k * (q + p) + t
  <2>1. e + x = k * q + (k * p + t) BY <1>1, <1>2
  <2>2. k * (q + p) = k * q + k * p BY <1>1, <1>2
  <2>3. k * q \in Int /\ k * p \in Int BY <1>1, <1>2
  <2> QED BY <1>2, <2>1, <2>2, <2>3
<1>4. (e + x) % k = t
  <2> DEFINE d == q + p
             a == e + x
  <2>1. d \in Int /\ a \in Nat /\ a = k * d + t BY <1>1, <1>2, <1>3
  <2> HIDE DEF d, a
  <2>2. a % k = t BY <1>2, <2>1, ModUnique
  <2> QED BY <2>2 DEF a
<1> QED BY <1>4 DEF r, t

\* Weights for one byte more are weights for the bytes before it.
LEMMA ShorterWeights ==
  ASSUME NEW bytes \in Seq(Nat), NEW b \in Nat, NEW w, Weights(Append(bytes, b), w)
  PROVE  Weights(bytes, [i \in 0..Len(bytes) |-> w[i]])
<1> DEFINE n == Len(bytes)
           v == [i \in 0..n |-> w[i]]
<1>1. n \in Nat /\ Len(Append(bytes, b)) = n + 1
  OBVIOUS
<1>2. \A i \in 0..(n + 1) : w[i] = IF i = 0 THEN 1 ELSE w[i - 1] * PAYLOAD
  BY <1>1 DEF Weights
<1>3. \A i \in 0..n : v[i] = IF i = 0 THEN 1 ELSE v[i - 1] * PAYLOAD
  BY <1>1, <1>2
<1> QED BY <1>3 DEF Weights

\* So are sums, and the last values are determined by those before.
LEMMA ShorterSolution ==
  ASSUME NEW bytes \in Seq(Nat), NEW b \in Nat, NEW w, NEW s,
         Weights(Append(bytes, b), w), Sums(Append(bytes, b), w, s)
  PROVE  LET n == Len(bytes)
             v == [i \in 0..n |-> w[i]]
             t == [i \in 0..n |-> s[i]]
         IN  /\ Weights(bytes, v) /\ Sums(bytes, v, t)
             /\ w[n + 1] = v[n] * PAYLOAD
             /\ s[n + 1] = t[n] + (b % PAYLOAD) * v[n]
<1> DEFINE n == Len(bytes)
           v == [i \in 0..n |-> w[i]]
           t == [i \in 0..n |-> s[i]]
<1>1. n \in Nat /\ Len(Append(bytes, b)) = n + 1 /\ Append(bytes, b)[n + 1] = b
      /\ \A i \in 1..n : Append(bytes, b)[i] = bytes[i]
  OBVIOUS
<1>2. \A i \in 0..(n + 1) : w[i] = IF i = 0 THEN 1 ELSE w[i - 1] * PAYLOAD
  BY <1>1 DEF Weights
<1>3. \A i \in 0..(n + 1) :
        s[i] = IF i = 0 THEN 0 ELSE s[i - 1] + (Append(bytes, b)[i] % PAYLOAD) * w[i - 1]
  BY <1>1 DEF Sums
<1>4. \A i \in 0..n :
        t[i] = IF i = 0 THEN 0 ELSE t[i - 1] + (bytes[i] % PAYLOAD) * v[i - 1]
  <2> SUFFICES ASSUME NEW i \in 0..n
               PROVE  t[i] = IF i = 0 THEN 0 ELSE t[i - 1] + (bytes[i] % PAYLOAD) * v[i - 1]
    OBVIOUS
  <2>1. i # 0 => Append(bytes, b)[i] = bytes[i] BY <1>1
  <2>2. t[i] = s[i] /\ (i # 0 => t[i - 1] = s[i - 1] /\ v[i - 1] = w[i - 1]) BY <1>1
  <2>3. s[i] = IF i = 0 THEN 0 ELSE s[i - 1] + (Append(bytes, b)[i] % PAYLOAD) * w[i - 1]
    BY <1>1, <1>3
  <2> QED BY <2>1, <2>2, <2>3
<1>5. Weights(bytes, v)
  BY ShorterWeights
<1>6. Sums(bytes, v, t)
  BY <1>4 DEF Sums
<1>7. w[n + 1] = v[n] * PAYLOAD /\ s[n + 1] = t[n] + (b % PAYLOAD) * v[n]
  BY <1>1, <1>2, <1>3
<1> QED BY <1>5, <1>6, <1>7

\* A weight function is extended by the next weight.
LEMMA LongerWeights ==
  ASSUME NEW bytes \in Seq(Nat), NEW b \in Nat, NEW w, Weights(bytes, w)
  PROVE  \E v : Weights(Append(bytes, b), v)
<1> DEFINE n == Len(bytes)
           v == [i \in 0..(n + 1) |-> IF i = n + 1 THEN w[n] * PAYLOAD ELSE w[i]]
<1>1. n \in Nat /\ Len(Append(bytes, b)) = n + 1
  OBVIOUS
<1>2. \A i \in 0..n : w[i] = IF i = 0 THEN 1 ELSE w[i - 1] * PAYLOAD
  BY <1>1 DEF Weights
<1>3. \A i \in 0..(n + 1) : v[i] = IF i = 0 THEN 1 ELSE v[i - 1] * PAYLOAD
  BY <1>1, <1>2
<1>4. Weights(Append(bytes, b), v)
  BY <1>1, <1>3 DEF Weights
<1> QED BY <1>4

\* So is a sum.
LEMMA LongerSums ==
  ASSUME NEW bytes \in Seq(Nat), NEW b \in Nat, NEW w, NEW v, NEW t,
         \A i \in 0..Len(bytes) : v[i] = w[i], Sums(bytes, v, t)
  PROVE  \E s : Sums(Append(bytes, b), w, s)
<1> DEFINE n == Len(bytes)
           long == Append(bytes, b)
           s == [i \in 0..(n + 1) |-> IF i = n + 1 THEN t[n] + (b % PAYLOAD) * w[n] ELSE t[i]]
<1>1. n \in Nat /\ Len(long) = n + 1 /\ long[n + 1] = b /\ \A i \in 1..n : long[i] = bytes[i]
  OBVIOUS
<1>2. \A i \in 0..n : t[i] = IF i = 0 THEN 0 ELSE t[i - 1] + (bytes[i] % PAYLOAD) * v[i - 1]
  BY <1>1 DEF Sums
<1>3. \A i \in 0..(n + 1) : s[i] = IF i = 0 THEN 0 ELSE s[i - 1] + (long[i] % PAYLOAD) * w[i - 1]
  <2> SUFFICES ASSUME NEW i \in 0..(n + 1)
               PROVE  s[i] = IF i = 0 THEN 0 ELSE s[i - 1] + (long[i] % PAYLOAD) * w[i - 1]
    OBVIOUS
  <2> HIDE DEF long
  <2>1. CASE i = n + 1
    BY <1>1, <2>1
  <2>2. CASE i # n + 1
    <3>1. i \in 0..n /\ s[i] = t[i] /\ (i # 0 => s[i - 1] = t[i - 1] /\ v[i - 1] = w[i - 1])
      BY <1>1, <2>2
    <3>2. i # 0 => long[i] = bytes[i]
      BY <1>1, <3>1
    <3> QED BY <1>2, <3>1, <3>2
  <2> QED BY <2>1, <2>2
<1>4. Sums(long, w, s)
  <2> HIDE DEF long
  <2> QED BY <1>1, <1>3 DEF Sums
<1> QED BY <1>4

\* No bytes stand for 0, and the first byte counts once.
LEMMA EmptySolution == Solvable(<<>>) /\ Yields(<<>>, 0) /\ Weighs(<<>>, 1)
<1>0. Len(<<>>) = 0
  OBVIOUS
<1>1. \A w : Weights(<<>>, w) => w[0] = 1
  BY <1>0 DEF Weights
<1>2. \A w, s : Sums(<<>>, w, s) => s[0] = 0
  BY <1>0 DEF Sums
<1>3. Weights(<<>>, [i \in 0..0 |-> 1])
  BY <1>0 DEF Weights
<1>4. \A w : Sums(<<>>, w, [i \in 0..0 |-> 0])
  BY <1>0 DEF Sums
<1>5. 0 % VARINT = 0
  BY SmallMod
<1>6. Solvable(<<>>)
  BY <1>3, <1>4, Zenon DEF Solvable
<1>7. Yields(<<>>, 0)
  BY <1>0, <1>2, <1>5 DEF Yields
<1>8. Weighs(<<>>, 1)
  BY <1>0, <1>1 DEF Weighs
<1> QED BY <1>6, <1>7, <1>8

\* One byte more.
LEMMA ByteSolution ==
  ASSUME NEW bytes \in Seq(Nat), NEW b \in Nat, NEW value, NEW u,
         Solvable(bytes), Yields(bytes, value), Weighs(bytes, u)
  PROVE  /\ Solvable(Append(bytes, b))
         /\ Yields(Append(bytes, b), (value + (b % PAYLOAD) * u) % VARINT)
         /\ Weighs(Append(bytes, b), u * PAYLOAD)
<1> DEFINE n == Len(bytes)
           long == Append(bytes, b)
<1>1. n \in Nat /\ Len(long) = n + 1
  OBVIOUS
<1>2. Solvable(long)
  <2>1. \E w : Weights(long, w)
    BY LongerWeights DEF Solvable
  <2>2. ASSUME NEW w, Weights(long, w)
        PROVE  \E s : Sums(long, w, s)
    <3> DEFINE v == [i \in 0..n |-> w[i]]
    <3>1. Weights(bytes, v)
      BY <2>2, ShorterWeights
    <3>2. PICK t : Sums(bytes, v, t)
      BY <3>1 DEF Solvable
    <3> QED BY <3>2, LongerSums
  <2> QED BY <2>1, <2>2 DEF Solvable
<1>3. Weighs(long, u * PAYLOAD)
  <2> SUFFICES ASSUME NEW w, Weights(long, w)
               PROVE  w[n + 1] \in Nat /\ u * PAYLOAD = w[n + 1]
    BY <1>1 DEF Weighs
  <2> DEFINE v == [i \in 0..n |-> w[i]]
  <2>1. Weights(bytes, v)
    BY ShorterWeights
  <2>2. v[n] = w[n] /\ v[n] \in Nat /\ u = v[n]
    BY <1>1, <2>1 DEF Weighs
  <2>3. w[n + 1] = w[n] * PAYLOAD
    BY <1>1 DEF Weights
  <2> HIDE DEF v
  <2> QED BY <2>2, <2>3, TimesNat
<1>4. Yields(long, (value + (b % PAYLOAD) * u) % VARINT)
  <2> SUFFICES ASSUME NEW w, NEW s, Weights(long, w), Sums(long, w, s)
               PROVE  /\ s[n + 1] \in Nat
                      /\ (value + (b % PAYLOAD) * u) % VARINT = s[n + 1] % VARINT
    BY <1>1 DEF Yields
  <2> DEFINE v == [i \in 0..n |-> w[i]]
             t == [i \in 0..n |-> s[i]]
             e == t[n]
             x == (b % PAYLOAD) * u
  <2>1. Weights(bytes, v) /\ Sums(bytes, v, t) /\ s[n + 1] = e + (b % PAYLOAD) * v[n]
    BY ShorterSolution
  <2>2. e \in Nat /\ value = e % VARINT
    BY <2>1 DEF Yields
  <2>3. v[n] \in Nat /\ u = v[n]
    BY <2>1 DEF Weighs
  <2>4. x \in Nat /\ s[n + 1] = e + x
    <3>1. b % PAYLOAD \in Nat
      BY ModBound
    <3> HIDE DEF v, e
    <3> QED BY <2>1, <2>3, <3>1, TimesNat
  <2> HIDE DEF e, x
  <2>5. ((e % VARINT) + x) % VARINT = (e + x) % VARINT
    BY <2>2, <2>4, ModSum
  <2>6. e + x \in Nat
    BY <2>2, <2>4
  <2> QED BY <2>2, <2>4, <2>5, <2>6 DEF x
<1> QED BY <1>2, <1>3, <1>4

\* One byte of a varint.
LEMMA VarintByteSolves ==
  ASSUME TypeOK, SolvedInv, NEW b \in 0..(2 * PAYLOAD - 1), VarintByte(b)
  PROVE  SolvedInv'
<1>1. /\ step = "varint" /\ raw' = Append(raw, b) /\ acc' = (acc + (b % PAYLOAD) * unit) % VARINT
      /\ step' = "varint" => unit' = unit * PAYLOAD
  BY DEF VarintByte, AddPayload, NextUnit, Goto, TypeOK, Purposes
<1>2. raw \in Seq(Nat) /\ b \in Nat
  BY DEF TypeOK
<1>3. Solvable(raw) /\ Yields(raw, acc) /\ Weighs(raw, unit)
  BY <1>1 DEF SolvedInv
<1>4. /\ Solvable(Append(raw, b))
      /\ Yields(Append(raw, b), (acc + (b % PAYLOAD) * unit) % VARINT)
      /\ Weighs(Append(raw, b), unit * PAYLOAD)
  BY <1>2, <1>3, ByteSolution
<1>5. Solvable(raw') /\ Yields(raw', acc') /\ (step' = "varint" => Weighs(raw', unit'))
  BY <1>1, <1>4
<1> QED BY <1>5 DEF SolvedInv

\* Every other step starts over, or leaves the varint as it is and is not
\* reading one.
LEMMA OtherStepSolves ==
  ASSUME SolvedInv,
         (\E p \in Purposes : StartVarint(p)) \/ (UNCHANGED <<acc, unit, raw>> /\ step' # "varint")
  PROVE  SolvedInv'
<1>1. CASE \E p \in Purposes : StartVarint(p)
  <2>1. raw' = <<>> /\ acc' = 0 /\ unit' = 1
    BY <1>1 DEF StartVarint
  <2>2. Solvable(raw') /\ Yields(raw', acc') /\ Weighs(raw', unit')
    BY <2>1, EmptySolution
  <2> QED BY <2>2 DEF SolvedInv
<1>2. CASE UNCHANGED <<acc, unit, raw>> /\ step' # "varint"
  <2>1. Solvable(raw') /\ Yields(raw', acc')
    BY <1>2 DEF SolvedInv
  <2> QED BY <1>2, <2>1 DEF SolvedInv
<1> QED BY <1>1, <1>2

\* Every step of md_verify keeps the equations solved.
LEMMA SolvedNext == TypeOK /\ SolvedInv /\ [md_verify]_vars => SolvedInv'
<1> SUFFICES ASSUME TypeOK, SolvedInv, [md_verify]_vars PROVE SolvedInv'
  OBVIOUS
<1>1. CASE UNCHANGED vars
  BY <1>1 DEF vars, varint, SolvedInv
<1>2. CASE \E b \in 0..(2 * PAYLOAD - 1) : VarintByte(b)
  BY <1>2, VarintByteSolves
<1>3. CASE Loop \/ VarintFails \/ Tag \/ Length \/ Value \/ Check
  <2>1. (\E p \in Purposes : StartVarint(p)) \/ (UNCHANGED <<acc, unit, raw>> /\ step' # "varint")
    BY <1>3
    DEF Loop, VarintFails, Tag, Length, Value, Check, Checks, Signature, Validate, SkipFixed,
        Goto, Return, varint, Purposes
  <2> QED BY <2>1, OtherStepSolves
<1> QED BY <1>1, <1>2, <1>3 DEF md_verify, Decode

-----------------------------------------------------------------------------
(* Theorems.                                                               *)

\* md_verify's decoders, slices and checks agree at every step.
THEOREM ManifestInvariant == Spec => [](TypeOK /\ ManifestInv)
BY ManifestInitially, ManifestNext, PTL DEF Spec, ManifestIInv

\* Every read of md_verify is inside the buffer, for every input and width.
THEOREM InBoundsHolds == Spec => []InBounds
<1>1. ManifestInv => InBounds
  BY DEF ManifestInv
<1> QED BY <1>1, ManifestInvariant, PTL

\* md_verify decodes and returns only bytes whose signature it verified.
THEOREM OnlySignedHolds == Spec => []OnlySigned
<1>1. ManifestInv => OnlySigned
  BY DEF ManifestInv
<1> QED BY <1>1, ManifestInvariant, PTL

\* read_varint yields the number its bytes stand for after every byte of every
\* varint, however many bytes it has, as long as that number fits its width.
\* The invariant behind it says what is read of any number: the remainder.
THEOREM ReadExactlyHolds == Spec => []ReadExactly
<1>1. Init => SolvedInv
  <2> SUFFICES ASSUME Init PROVE Solvable(raw) /\ Yields(raw, acc) /\ Weighs(raw, unit)
    BY DEF SolvedInv
  <2>1. raw = <<>> /\ acc = 0 /\ unit = 1
    BY DEF Init
  <2> QED BY <2>1, EmptySolution
<1>2. SolvedInv => ReadExactly
  <2> SUFFICES ASSUME SolvedInv, Denotes(raw) < VARINT PROVE acc = Denotes(raw)
    BY DEF ReadExactly
  <2> DEFINE w == CHOOSE w : Weights(raw, w)
             s == CHOOSE s : Sums(raw, w, s)
  <2>1. Weights(raw, w)
    BY DEF SolvedInv, Solvable
  <2>2. Sums(raw, w, s)
    BY <2>1 DEF SolvedInv, Solvable
  <2>3. Denotes(raw) = s[Len(raw)]
    BY DenotesSolution
  <2> HIDE DEF w, s
  <2>4. Denotes(raw) \in Nat /\ acc = Denotes(raw) % VARINT
    BY <2>1, <2>2, <2>3 DEF SolvedInv, Yields
  <2> QED BY <2>4, SmallMod, WidthAssumption
<1> QED BY <1>1, <1>2, SolvedNext, ManifestInvariant, PTL DEF Spec

-----------------------------------------------------------------------------
(* Termination.  That md_verify returns is a liveness property; the bound  *)
(* on its steps that makes it return is an invariant and a step property.  *)

\* How many steps md_verify may still take without reading a byte.
Rank(s) == CASE s \in Purposes -> 6 [] s = "loop" -> 5 [] s = "varint" -> 4
             [] s = "checks" -> 3 [] s = "signature" -> 2 [] s = "validate" -> 1
             [] OTHER -> 0

\* Eight times the bytes still to be read, the manifest's second reading
\* included, and the rank of the step.
Work == 8 * (lim - pos) + Rank(step) + (IF msg = "signed" THEN 8 * len + 8 ELSE 0)

\* The ranks, one by one.
LEMMA Ranks ==
  /\ \A s : Rank(s) \in 0..6
  /\ \A s \in Purposes : Rank(s) = 6
  /\ Rank("loop") = 5 /\ Rank("varint") = 4 /\ Rank("checks") = 3
  /\ Rank("signature") = 2 /\ Rank("validate") = 1 /\ Rank("done") = 0
BY DEF Rank, Purposes

\* One byte outweighs every rank.
LEMMA LessWork ==
  ASSUME NEW l \in Nat, NEW p \in Nat, NEW n \in Nat, NEW r \in 0..6, NEW q \in 0..6,
         NEW e \in Nat, n >= p + 1 \/ (n >= p /\ q < r)
  PROVE  8 * (l - n) + q + e < 8 * (l - p) + r + e
OBVIOUS

\* A step on the same message reads a byte or goes down in rank.
LEMMA DescendsInMessage ==
  ASSUME ManifestIInv, ManifestIInv', UNCHANGED <<msg, lim, len>>,
         \/ pos' >= pos + 1
         \/ pos' >= pos /\ Rank(step') < Rank(step)
  PROVE  Work' < Work
<1>1. /\ pos \in Nat /\ pos' \in Nat /\ lim \in Nat /\ len \in Nat
      /\ Rank(step) \in 0..6 /\ Rank(step') \in 0..6
  BY Ranks, SMTT(30) DEF ManifestIInv, TypeOK
<1> DEFINE r == Rank(step)
           q == Rank(step')
           e == IF msg = "signed" THEN 8 * len + 8 ELSE 0
<1>2. e \in Nat /\ e' = e
  BY <1>1
<1>3. Work = 8 * (lim - pos) + r + e /\ Work' = 8 * (lim - pos') + q + e
  BY DEF Work
<1> HIDE DEF e, r, q
<1>4. r \in 0..6 /\ q \in 0..6 /\ (pos' >= pos + 1 \/ (pos' >= pos /\ q < r))
  BY <1>1 DEF r, q
<1> QED BY <1>1, <1>2, <1>3, <1>4, LessWork

\* Every step of md_verify leaves less to do.
LEMMA WorkDescends ==
  ASSUME ManifestIInv, ManifestIInv', md_verify
  PROVE  Work' < Work
<1> USE DEF ManifestIInv
<1>0. pos \in Nat /\ pos' \in Nat /\ lim \in Nat /\ len \in Nat
  BY DEF TypeOK
<1>1. CASE \E b \in 0..(2 * PAYLOAD - 1) : VarintByte(b)
  BY <1>0, <1>1, DescendsInMessage DEF VarintByte
<1>2. CASE Loop
  BY <1>0, <1>2, Ranks, DescendsInMessage DEF Loop, StartVarint, Goto, input
<1>3. CASE VarintFails
  BY <1>0, <1>3, Ranks, DescendsInMessage DEF VarintFails, Return, input
<1>4. CASE Tag
  <2>1. step = "tag" /\ step' \in {"varint", "loop", "done"} /\ UNCHANGED <<msg, lim, len>>
    BY <1>4 DEF Tag, StartVarint, SkipFixed, Goto, Return, input
  <2>2. pos' >= pos
    BY <1>0, <1>4 DEF Tag, SkipFixed
  <2> QED BY <2>1, <2>2, Ranks, DescendsInMessage DEF Purposes
<1>5. CASE Length
  <2>1. step = "length" /\ step' \in {"loop", "done"} /\ UNCHANGED <<msg, lim, len>>
    BY <1>5 DEF Length, Goto, Return, input
  <2>2. acc % WORD \in Nat
    BY ModBound DEF TypeOK
  <2>3. pos' >= pos
    BY <1>0, <1>5, <2>2 DEF Length
  <2> QED BY <2>1, <2>3, Ranks, DescendsInMessage DEF Purposes
<1>6. CASE Value
  BY <1>0, <1>6, Ranks, DescendsInMessage DEF Value, Goto, input, Purposes
<1>7. CASE \E a, k \in BOOLEAN : Checks(a, k)
  BY <1>0, <1>7, Ranks, DescendsInMessage DEF Checks, Goto, Return, input
<1>8. CASE \E v \in BOOLEAN : Validate(v)
  BY <1>0, <1>8, Ranks, DescendsInMessage DEF Validate, Return, input
<1>9. CASE \E v \in BOOLEAN : Signature(v)
  <2>1. CASE step' = "done" /\ UNCHANGED <<msg, pos, lim>>
    BY <1>0, <1>9, <2>1, Ranks, DescendsInMessage DEF Signature, input
  <2>2. CASE /\ step' = "loop" /\ msg' = "manifest"
             /\ pos' = part[1].at /\ lim' = part[1].at + part[1].len
    <3>1. step = "signature" /\ msg = "signed" /\ len' = len
      BY <1>9 DEF Signature, input, ManifestInv, PhaseInv
    <3>2. part[1].at \in Nat /\ part[1].len \in Nat /\ part[1].at + part[1].len <= len /\ pos <= lim
      BY SMTT(30) DEF TypeOK, Slices, ManifestInv, InBounds, Within, SignedFields
    <3>3. Work = 8 * (lim - pos) + 2 + (8 * len + 8)
      BY <3>1, Ranks DEF Work
    <3>4. Work' = 8 * part[1].len + 5
      <4>1. lim' - pos' = part[1].len
        BY <2>2, <3>2
      <4>2. Rank(step') = 5 /\ msg' # "signed"
        BY <2>2, Ranks
      <4>3. Work' = 8 * (lim' - pos') + Rank(step') + 0
        BY <4>2, Zenon DEF Work
      <4>4. Work' = 8 * part[1].len + 5 + 0
        BY <4>1, <4>2, <4>3
      <4> QED BY <3>2, <4>4
    <3> QED BY <1>0, <3>2, <3>3, <3>4
  <2> QED BY <1>9, <2>1, <2>2 DEF Signature, Return, Goto, ManifestEnd
<1> QED BY <1>1, <1>2, <1>3, <1>4, <1>5, <1>6, <1>7, <1>8, <1>9 DEF md_verify, Decode, Check

\* md_verify returns on every input after a number of steps linear in the
\* length of the buffer: what is left to do never exceeds it, is never negative
\* and becomes less with every step, whatever the bytes say.
THEOREM VerifyBounded ==
  Spec => [](Work \in 0..(16 * len + 14)) /\ [][Work' < Work]_vars
<1>1. ManifestIInv => Work \in 0..(16 * len + 14)
  <2> SUFFICES ASSUME ManifestIInv PROVE Work \in 0..(16 * len + 14)
    OBVIOUS
  <2>1. pos \in Nat /\ lim \in Nat /\ len \in Nat /\ pos <= lim /\ lim <= len
    BY DEF ManifestIInv, ManifestInv, TypeOK, InBounds
  <2> DEFINE r == Rank(step)
             e == IF msg = "signed" THEN 8 * len + 8 ELSE 0
  <2>2. r \in 0..6 /\ e \in 0..(8 * len + 8) /\ Work = 8 * (lim - pos) + r + e
    BY <2>1, Ranks DEF Work
  <2> HIDE DEF r, e
  <2> QED BY <2>1, <2>2
<1>2. ManifestIInv /\ ManifestIInv' /\ [md_verify]_vars => [Work' < Work]_vars
  BY WorkDescends
<1>3. Spec => []ManifestIInv
  BY ManifestInvariant, PTL DEF ManifestIInv
<1> QED BY <1>1, <1>2, <1>3, PTL DEF Spec
=============================================================================
