----------------------------- MODULE ClaimProto ----------------------------
(***************************************************************************)
(* The text formats of enrollment, lib/provision/claim_proto.c, as         *)
(* functions on texts. A text is a sequence of one-character strings; the  *)
(* markers "-----BEGIN" and "-----END" of a PEM are one symbol each.       *)
(***************************************************************************)
EXTENDS Integers, Sequences, SequencesExt

Quote == "\""
Backslash == "\\"
Blanks == {" ", "\t"}
NUL == "NUL"         \* what a C string ends with
Failed == <<"-1">>   \* the result -1, no text

\* The character a C program reads at p[i].
At(p, i) == IF i \in DOMAIN p THEN p[i] ELSE NUL
\* The first character from i on that is Ok; behind the text when there is none.
FirstFrom(p, i, Ok(_)) == CHOOSE j \in i..(i + Len(p)) :
                             /\ j > Len(p) \/ Ok(p[j])
                             /\ \A k \in i..(j - 1) : k <= Len(p) /\ ~Ok(p[k])
SkipBlanks(p, i) == FirstFrom(p, i, LAMBDA c : c \notin Blanks)

-----------------------------------------------------------------------------
(* Writing.                                                                *)

append_raw(out, cap, s) == IF out = Failed \/ Len(out) + Len(s) >= cap THEN Failed ELSE out \o s

\* Mutant: backslashes are copied as they are.
escape_no_backslash(c) == IF c = Quote THEN <<Backslash, Quote>>
                          ELSE IF c = "\n" THEN <<Backslash, "n">> ELSE <<c>>
escape(c) == IF c \in {Quote, Backslash} THEN <<Backslash, c>>
             ELSE IF c = "\n" THEN <<Backslash, "n">>
             ELSE IF c = "\r" THEN <<Backslash, "r">>
             ELSE IF c = "\t" THEN <<Backslash, "t">> ELSE <<c>>

\* What the loop has written after k characters of s.
append_escaped(out, cap, s) ==
  LET upto[k \in 0..Len(s)] ==
        IF k = 0 THEN out ELSE append_raw(upto[k - 1], cap, escape(s[k]))
  IN upto[Len(s)]

\* The keys claim_token, device_id and csr_pem are the letters t, i and c.
claim_build_request(claim_token, device_id, csr_pem, cap) ==
  LET w1 == append_raw(<<>>, cap, <<"{", Quote, "t", Quote, ":", Quote>>)
      w2 == append_escaped(w1, cap, claim_token)
      w3 == append_raw(w2, cap, <<Quote, ",", Quote, "i", Quote, ":", Quote>>)
      w4 == append_escaped(w3, cap, device_id)
      w5 == append_raw(w4, cap, <<Quote, ",", Quote, "c", Quote, ":", Quote>>)
      w6 == append_escaped(w5, cap, csr_pem)
  IN append_raw(w6, cap, <<Quote, "}">>)

-----------------------------------------------------------------------------
(* Reading.                                                                *)

\* A quoted field at p, and where the text goes on behind it.
FieldAt(json, p, field) == /\ At(json, p) = Quote /\ At(json, p + Len(field) + 1) = Quote
                           /\ \A k \in DOMAIN field : At(json, p + k) = field[k]
AfterKey(json, p, field) == SkipBlanks(json, p + Len(field) + 2)

IsKey(json, p, field) == FieldAt(json, p, field) /\ At(json, AfterKey(json, p, field)) = ":"

\* Where the value of the first such key starts; 0 is NULL.
find_value_start(json, field) ==
  IF \A p \in DOMAIN json : ~IsKey(json, p, field) THEN 0
  ELSE LET p == CHOOSE p \in DOMAIN json : /\ IsKey(json, p, field)
                                           /\ \A o \in 1..(p - 1) : ~IsKey(json, o, field)
           q == SkipBlanks(json, AfterKey(json, p, field) + 1)
       IN IF At(json, q) = Quote THEN q + 1 ELSE 0

\* A character behind a backslash: \", \\, \/ and any other stand for themselves.
unescape(c) == CASE c = "n" -> "\n" [] c = "t" -> "\t" [] c = "r" -> "\r" [] OTHER -> c

Prefixed(c, s) == IF s = Failed THEN Failed ELSE <<c>> \o s

\* The value that starts at v, up to its closing quote.
string_at(json, v) ==
  LET from[i \in v..(Len(json) + 2)] ==
        CASE At(json, i) = Quote -> <<>>
          [] At(json, i) = NUL -> Failed
          [] At(json, i) = Backslash ->
               IF At(json, i + 1) = NUL THEN Failed
               ELSE Prefixed(unescape(At(json, i + 1)), from[i + 2])
          [] OTHER -> Prefixed(At(json, i), from[i + 1])
  IN from[v]

json_extract_string(json, field, cap) ==
  LET v == find_value_start(json, field)
      s == IF v = 0 THEN Failed ELSE string_at(json, v)
  IN IF s = Failed \/ Len(s) + 1 > cap THEN Failed ELSE s

-----------------------------------------------------------------------------
(* The manifest key: PEM, base64 and the fixed DER prefix.                 *)

Alphabet == <<"A", "B", "C", "D", "E", "F", "G", "H", "I", "J", "K", "L", "M", "N", "O", "P",
              "Q", "R", "S", "T", "U", "V", "W", "X", "Y", "Z", "a", "b", "c", "d", "e", "f",
              "g", "h", "i", "j", "k", "l", "m", "n", "o", "p", "q", "r", "s", "t", "u", "v",
              "w", "x", "y", "z", "0", "1", "2", "3", "4", "5", "6", "7", "8", "9", "+", "/">>
b64val(c) == IF \E k \in 1..64 : Alphabet[k] = c THEN (CHOOSE k \in 1..64 : Alphabet[k] = c) - 1
             ELSE -1

ED25519_SPKI_PREFIX == <<48, 42, 48, 5, 6, 3, 43, 101, 112, 3, 33, 0>>
DerSize == 48          \* sizeof(der)
KeySize == 32
\* acc is an int that is shifted for the whole key.  The compilers of the build
\* (GCC) define << of a signed int by its bits, so the high ones fall out; what
\* is read of it is at most its low 14, so 16 stand for all of them.
AccModulus == 2^16

\* The locals of the loop; end: it has stopped.
B64State(acc, nbits, der, end) == [acc |-> acc, nbits |-> nbits, der |-> der, end |-> end]

\* acc << 6 | v with nbits of it not yet stored; a byte as soon as there is one.
b64step(s, c) ==
  LET acc == (s.acc * 64 + b64val(c)) % AccModulus
      nbits == s.nbits + 6
  IN IF s.end \/ c = "=" THEN B64State(s.acc, s.nbits, s.der, TRUE)
     ELSE IF b64val(c) < 0 THEN s
     ELSE IF nbits < 8 THEN B64State(acc, nbits, s.der, FALSE)
     ELSE IF Len(s.der) >= DerSize THEN B64State(s.acc, s.nbits, Failed, TRUE)
     ELSE B64State(acc, nbits - 8, Append(s.der, (acc \div 2^(nbits - 8)) % 256), FALSE)
\* The state of the loop after k characters of s.
b64decode(s) ==
  LET upto[k \in 0..Len(s)] ==
        IF k = 0 THEN B64State(0, 0, <<>>, FALSE)
        ELSE b64step(upto[k - 1], s[k])
  IN upto[Len(s)].der

\* Mutant: a longer key is cut to the right length instead of rejected.
spki_cut(der) == Len(der) >= 12 + KeySize /\ SubSeq(der, 1, 12) = ED25519_SPKI_PREFIX
IsSpki(der) == Len(der) = 12 + KeySize /\ SubSeq(der, 1, 12) = ED25519_SPKI_PREFIX

claim_ed25519_pub_from_pem(pem) ==
  LET begin == FirstFrom(pem, 1, LAMBDA c : c = "-----BEGIN")
      b == FirstFrom(pem, begin, LAMBDA c : c = "\n") + 1
      e == FirstFrom(pem, b, LAMBDA c : c = "-----END")
      der == b64decode(SubSeq(pem, b, e - 1))
  IN IF b > Len(pem) \/ e > Len(pem) THEN Failed
     ELSE IF der = Failed \/ ~IsSpki(der) THEN Failed
     ELSE SubSeq(der, 13, 12 + KeySize)
=============================================================================
