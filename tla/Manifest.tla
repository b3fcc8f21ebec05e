------------------------------ MODULE Manifest -----------------------------
(***************************************************************************)
(* md_verify of lib/verify/manifest_verify.c on a received SignedManifest: *)
(* the bounds-checked protobuf decoders, the ordered checks, the signature *)
(* over the manifest bytes and the validation of what they hold.           *)
(*                                                                         *)
(* No byte is read twice, so a byte is chosen when it is read: the one the *)
(* message sent has there, or, MaxDamage times, any other.  The buffer may *)
(* be cut short.  Positions are offsets into it; a slice is [at, len].     *)
(* Integer widths are parameters: a varint is a number below VARINT (2^64),*)
(* uint32_t and the device's size_t are numbers below WORD (2^32).         *)
(***************************************************************************)
EXTENDS Integers, Sequences

CONSTANTS PAYLOAD,     \* 2^7, the payload of a varint byte
          VARINT, WORD,
          Lens,        \* lengths of the received buffer
          Messages,    \* messages sent, as sequences of bytes
          Bytes,       \* bytes that may arrive instead
          MaxDamage,   \* bound on the bytes read that differ
          ALG, SIG, SHA, KEY_ID,              \* 7, 64, 64, strlen(key_id)
          MD_MAX_MANIFEST,                    \* 512
          FIXED32, FIXED64                    \* 4, 8

ASSUME WidthAssumption == /\ PAYLOAD \in Nat \ {0, 1} /\ VARINT \in Nat \ {0}
                          /\ WORD \in Nat \ {0}
ASSUME LensAssumption == Lens \subseteq 0..(WORD - 1)
ASSUME ByteAssumption == /\ Bytes \subseteq 0..(2 * PAYLOAD - 1)
                         /\ Messages \subseteq Seq(0..(2 * PAYLOAD - 1)) /\ MaxDamage \in Nat
ASSUME LengthAssumption == /\ ALG \in Nat /\ SIG \in Nat /\ SHA \in Nat \ {0}
                           /\ KEY_ID \in Nat /\ MD_MAX_MANIFEST \in Nat
ASSUME FixedAssumption == FIXED32 \in Nat /\ FIXED64 \in Nat

MD_SCHEMA_VERSION == 1

VARIABLES sent,        \* the message that was sent
          damage,      \* bytes read so far that differ from it
          len,         \* length of the buffer
          msg,         \* message being decoded: "signed" or "manifest"
          pos, lim,    \* decoder position, end of the message
          step,        \* "loop", "varint", "tag", "length", "value", "checks",
                       \* "signature", "validate" or "done"
          purpose,     \* what the varint being read is
          acc, unit,   \* its value so far, 2^shift
          raw,         \* history: its bytes so far
          field,       \* field number of the last tag
          part,        \* slices of the SignedManifest, by field number
          m,           \* slices of the decoded manifest, by field number
          num,         \* its numbers, by field number
          signed,      \* history: the slice the signature was verified over
          res

input == <<sent, damage, len>>
varint == <<purpose, acc, unit, raw>>
decoded == <<part, m, num>>
vars == <<input, msg, pos, lim, step, varint, field, decoded, signed, res>>

Nothing == [at |-> 0, len |-> 0]
SignedFields == 1..4          \* manifest, key_id, alg, sig
StringFields == {2, 3, 4, 5, 7}  \* tenant, name, version, sha256, profile
NumberFields == {1, 6, 8, 9}  \* schema_version, size_bytes, rollback_counter, issued_at
Slices == [at : Nat, len : Nat]
Results == {"none", "OK", "DECODE", "ALG", "SIG_SIZE", "EMPTY_MANIFEST",
            "MANIFEST_TOO_BIG", "KEY_ID", "SIGNATURE", "SCHEMA", "FIELD"}
Purposes == {"tag", "length", "value"}

TypeOK == /\ sent \in Messages /\ damage \in 0..MaxDamage
          /\ len \in Lens /\ msg \in {"signed", "manifest"} /\ pos \in Nat /\ lim \in Nat
          /\ step \in {"loop", "varint", "checks", "signature", "validate", "done"} \cup Purposes
          /\ purpose \in Purposes
          /\ acc \in 0..(VARINT - 1) /\ unit \in Nat /\ raw \in Seq(Nat) /\ field \in 0..(WORD - 1)
          /\ part \in [SignedFields -> Slices] /\ m \in [StringFields -> Slices]
          /\ num \in [NumberFields -> Nat]
          /\ signed \in Slices /\ res \in Results

Init == /\ sent \in Messages /\ damage = 0
        /\ len \in Lens /\ len <= Len(sent) /\ msg = "signed" /\ pos = 0 /\ lim = len
        /\ step = "loop" /\ purpose = "tag" /\ acc = 0 /\ unit = 1 /\ raw = <<>> /\ field = 0
        /\ part = [f \in SignedFields |-> Nothing] /\ m = [f \in StringFields |-> Nothing]
        /\ num = [f \in NumberFields |-> 0] /\ signed = Nothing /\ res = "none"

Return(r) == step' = "done" /\ res' = r
Goto(next) == step' = next /\ UNCHANGED res

-----------------------------------------------------------------------------
(* read_varint, one byte at a time.                                        *)

StartVarint(p) == /\ Goto("varint") /\ purpose' = p
                  /\ acc' = 0 /\ unit' = 1 /\ raw' = <<>>

\* The byte of the message, or a damaged one.
Arrives(b) == IF pos < Len(sent) /\ b = sent[pos + 1] THEN UNCHANGED damage
              ELSE /\ b \in Bytes /\ damage < MaxDamage
                   /\ damage' = damage + 1

\* Mutant: a payload is shifted by one bit too many.
shift_by_eight(u) == u * PAYLOAD * 2
NextUnit(u) == u * PAYLOAD

\* The bits that leave the width vanish.
AddPayload(b) == (acc + (b % PAYLOAD) * unit) % VARINT

\* A byte below PAYLOAD is the last.
VarintByte(b) ==
  /\ step = "varint" /\ pos < lim /\ unit < VARINT
  /\ Arrives(b)
  /\ pos' = pos + 1
  /\ acc' = AddPayload(b)
  /\ raw' = Append(raw, b)
  /\ IF b < PAYLOAD THEN Goto(purpose) /\ UNCHANGED unit
                    ELSE Goto("varint") /\ unit' = NextUnit(unit)
  /\ UNCHANGED <<sent, len, msg, lim, purpose, field, decoded, signed>>

\* Mutant: a message that ends inside a varint is not an error.
waits_for_more == /\ step = "varint" /\ unit >= VARINT
                  /\ Return("DECODE")
                  /\ UNCHANGED <<input, msg, lim, pos, varint, field, decoded, signed>>
VarintFails == /\ step = "varint" /\ (pos >= lim \/ unit >= VARINT)
               /\ Return("DECODE")
               /\ UNCHANGED <<input, msg, lim, pos, varint, field, decoded, signed>>

-----------------------------------------------------------------------------
(* The field loop of decode_signed and decode_manifest.                    *)

Loop == /\ step = "loop"
        /\ IF pos < lim THEN StartVarint("tag")
           ELSE /\ Goto(IF msg = "signed" THEN "checks" ELSE "validate")
                /\ UNCHANGED varint
        /\ UNCHANGED <<input, msg, lim, pos, field, decoded, signed>>

\* skip_scalar for the fixed wire types.
SkipFixed(n) == IF lim - pos < n THEN Return("DECODE") /\ UNCHANGED pos
                ELSE pos' = pos + n /\ Goto("loop")

\* The tag: a wire type that has no decoder rejects the message.
Tag == /\ step = "tag" /\ field' = (acc \div 8) % WORD
       /\ LET wire == acc % 8
          IN  \/ wire = 2 /\ StartVarint("length") /\ UNCHANGED pos
              \/ wire = 0 /\ StartVarint("value") /\ UNCHANGED pos
              \/ wire = 5 /\ SkipFixed(FIXED32) /\ UNCHANGED varint
              \/ wire = 1 /\ SkipFixed(FIXED64) /\ UNCHANGED varint
              \/ /\ wire \notin {0, 1, 2, 5} /\ Return("DECODE")
                 /\ UNCHANGED <<pos, varint>>
       /\ UNCHANGED <<input, msg, lim, decoded, signed>>

\* Mutant: the end of the slice is computed in a size_t before the comparison.
end_wraps(flen) == (pos + flen) % WORD > lim
TooLong(flen) == flen > lim - pos

\* read_len_delimited; the last occurrence of a field is the one kept, and an
\* unknown field is ignored.
Length == /\ step = "length"
          /\ LET slice == [at |-> pos, len |-> acc % WORD]
             IN  IF TooLong(acc) THEN Return("DECODE") /\ UNCHANGED <<pos, part, m>>
                 ELSE /\ pos' = pos + slice.len /\ Goto("loop")
                      /\ part' = IF msg = "signed" /\ field \in SignedFields
                                 THEN [part EXCEPT ![field] = slice] ELSE part
                      /\ m' = IF msg = "manifest" /\ field \in StringFields
                              THEN [m EXCEPT ![field] = slice] ELSE m
          /\ UNCHANGED <<input, msg, lim, varint, field, num, signed>>

\* schema_version is a uint32_t, the other numbers keep the varint's width.
Value == /\ step = "value" /\ Goto("loop")
         /\ num' = IF msg = "manifest" /\ field \in NumberFields
                   THEN [num EXCEPT ![field] = IF field = 1 THEN acc % WORD ELSE acc]
                   ELSE num
         /\ UNCHANGED <<input, msg, lim, pos, varint, field, part, m, signed>>

-----------------------------------------------------------------------------
(* md_verify's checks, in their order.                                     *)

\* The texts compared: alg with "ed25519", key_id with the pinned one.
Checks(alg_equal, key_id_equal) ==
  /\ step = "checks"
  /\ IF part[3].len # ALG \/ ~alg_equal THEN Return("ALG")
     ELSE IF part[4].len # SIG THEN Return("SIG_SIZE")
     ELSE IF part[1].len = 0 THEN Return("EMPTY_MANIFEST")
     ELSE IF part[1].len > MD_MAX_MANIFEST THEN Return("MANIFEST_TOO_BIG")
     ELSE IF part[2].len # KEY_ID \/ ~key_id_equal THEN Return("KEY_ID")
     ELSE Goto("signature")
  /\ UNCHANGED <<input, msg, lim, pos, varint, field, decoded, signed>>

\* Mutant: the rest of the buffer is decoded instead of the signed bytes.
to_the_end(slice) == len
ManifestEnd(slice) == slice.at + slice.len

\* md_ed25519_verify over the context and the manifest bytes; decode_manifest
\* then starts over on those bytes.
Signature(valid) ==
  /\ step = "signature"
  /\ IF ~valid THEN Return("SIGNATURE") /\ UNCHANGED <<msg, pos, lim, signed>>
     ELSE /\ signed' = part[1] /\ msg' = "manifest"
          /\ pos' = part[1].at /\ lim' = ManifestEnd(part[1])
          /\ Goto("loop")
  /\ UNCHANGED <<input, varint, field, decoded>>

\* validate_manifest; is_lower_hex64 looks at every byte of the digest.
Validate(hex) ==
  /\ step = "validate"
  /\ IF num[1] # MD_SCHEMA_VERSION THEN Return("SCHEMA")
     ELSE IF \/ \E f \in StringFields \ {5} : m[f].len = 0
             \/ m[5].len # SHA \/ ~hex \/ num[6] = 0
          THEN Return("FIELD")
     ELSE Return("OK")
  /\ UNCHANGED <<input, msg, lim, pos, varint, field, decoded, signed>>

-----------------------------------------------------------------------------

Decode == Loop \/ VarintFails \/ Tag \/ Length \/ Value \/ \E b \in 0..(2 * PAYLOAD - 1) : VarintByte(b)
Check == \/ \E a, k \in BOOLEAN : Checks(a, k)
         \/ \E v \in BOOLEAN : Signature(v) \/ Validate(v)
md_verify == Decode \/ Check
Spec == Init /\ [][md_verify]_vars
FairSpec == Spec /\ WF_vars(md_verify)

-----------------------------------------------------------------------------
(* Properties.                                                             *)

\* s lies between two positions of the buffer.
Within(s, from, to) == from <= s.at /\ s.at + s.len <= to

\* manifest_verify.h: "every read is bounds checked": the decoders stay inside
\* the message they decode, that message stays inside the buffer, and so does
\* every slice they yield, for lengths up to the largest varint.
InBounds == /\ pos <= lim /\ lim <= len
            /\ \A f \in SignedFields : Within(part[f], 0, len)
            /\ \A f \in StringFields : Within(m[f], 0, len)

\* "The inner manifest is only decoded AFTER the signature verifies", and what
\* md_verify returns is made of the signed bytes only: they fit the preimage
\* buffer, every string of an accepted manifest lies inside them, and the 64
\* digest bytes that poll_once copies are all there.
OnlySigned ==
  /\ msg = "manifest" => /\ signed = part[1] /\ signed.len \in 1..MD_MAX_MANIFEST
                         /\ lim = signed.at + signed.len /\ signed.at <= pos
  /\ msg = "signed" => m = [f \in StringFields |-> Nothing] /\ res \notin {"OK", "SCHEMA", "FIELD"}
  /\ res = "OK" => /\ \A f \in StringFields :
                        m[f].len > 0 /\ Within(m[f], signed.at, signed.at + signed.len)
                   /\ m[5].len = SHA

\* The number a sequence of varint bytes stands for: the sum of their payloads,
\* each with its weight.
Denotes(bytes) ==
  LET weight[i \in 0..Len(bytes)] == IF i = 0 THEN 1 ELSE weight[i - 1] * PAYLOAD
      upto[i \in 0..Len(bytes)] ==
        IF i = 0 THEN 0 ELSE upto[i - 1] + (bytes[i] % PAYLOAD) * weight[i - 1]
  IN  upto[Len(bytes)]

\* A number that fits the width is read exactly, over any number of bytes
\* (read_varint).
ReadExactly == Denotes(raw) < VARINT => acc = Denotes(raw)

\* What the comment of read_varint says, that it "Returns -1 on truncation or a
\* >64-bit value": a number that was read fits the width.  The code does not keep
\* it (README.md, section 6).
WideRejected == step \in Purposes => Denotes(raw) < VARINT

\* md_verify returns on every input: each turn of its loops reads on.
VerifyReturns == <>(step = "done")

-----------------------------------------------------------------------------
(* The inductive invariant behind InBounds and OnlySigned.                 *)

\* Each step belongs to one of the two messages.
PhaseInv == /\ msg = "signed" => lim = len
            /\ step \in {"checks", "signature"} => msg = "signed"
            /\ step = "signature" => part[1].len \in 1..MD_MAX_MANIFEST
            /\ step = "validate" => msg = "manifest"
            /\ res # "none" => step = "done"

\* What the manifest's decoder yielded lies inside the signed bytes.
YieldInv == msg = "manifest" =>
              \A f \in StringFields : m[f] = Nothing \/ Within(m[f], signed.at, lim)

\* The decoders of md_verify never leave the bytes they were given.
ManifestInv == InBounds /\ OnlySigned /\ PhaseInv /\ YieldInv
=============================================================================
