------------------------------- MODULE Formats -----------------------------
(***************************************************************************)
(* One call of a text function on every input of a small set: the claim    *)
(* request, the manifest key out of the control plane's answer, the        *)
(* Content-Range, the heartbeat (ClaimProto, OtaText). The properties      *)
(* compare the result with what the input stands for, not with another     *)
(* parser.                                                                 *)
(***************************************************************************)
EXTENDS OtaText

CONSTANTS ClaimCaps,   \* sizes of the request buffer
          KeyIdCap,    \* sizeof(key_id)
          PemCap,      \* sizeof(pub_pem)
          BeatCaps     \* sizes of the heartbeat buffer

ASSUME CapsAssumption == /\ ClaimCaps \subseteq Nat /\ BeatCaps \subseteq Nat
                         /\ KeyIdCap \in Nat /\ PemCap \in Nat

VARIABLES call, result

vars == <<call, result>>
None == [op |-> "none"]
Init == call = None /\ result = <<>>

-----------------------------------------------------------------------------
(* Inputs.                                                                 *)

UpTo(n, chars) == UNION {[1..k -> chars] : k \in 0..n}

Claims == [op : {"claim"}, token : UpTo(1, {Quote, Backslash, "i"}),
           id : UpTo(1, {Quote, "c"}), csr : UpTo(3, {Quote, Backslash, "\n", "n"}), cap : ClaimCaps]

\* Control plane: DER, base64, PEM and JSON as its libraries write them.
Octet(der, k) == IF k < Len(der) THEN der[k + 1] ELSE 0
Sextet(der, j) == LET b(k) == Octet(der, 3 * (j \div 4) + k)
                  IN IF j % 4 = 0 THEN b(0) \div 4
                     ELSE IF j % 4 = 1 THEN 16 * (b(0) % 4) + b(1) \div 16
                     ELSE IF j % 4 = 2 THEN 4 * (b(1) % 16) + b(2) \div 64
                     ELSE b(2) % 64
Base64(der) == LET n == (8 * Len(der) + 5) \div 6
               IN [j \in 1..n |-> Alphabet[Sextet(der, j - 1) + 1]]
                  \o [j \in 1..((4 - (n % 4)) % 4) |-> "="]
Pem(der, width) ==
  LET b == Base64(der)
  IN <<"-----BEGIN", "-", "\n">>
     \o FlattenSeq([j \in DOMAIN b |-> IF j % width = 0 THEN <<b[j], "\n">> ELSE <<b[j]>>])
     \o <<"\n", "-----END", "-", "\n">>
JsonString(s, slashes) ==
  <<Quote>> \o FlattenSeq([j \in DOMAIN s |->
                 CASE s[j] \in {Quote, Backslash} -> <<Backslash, s[j]>>
                   [] s[j] = "\n" -> <<Backslash, "n">>
                   [] s[j] = "/" /\ slashes -> <<Backslash, "/">>
                   [] OTHER -> <<s[j]>>]) \o <<Quote>>
Member(key, text, gap) == <<Quote>> \o key \o <<Quote>> \o gap \o <<":">> \o gap \o text

\* DER of a given length whose prefix is wrong in one byte, or in none (0).
Der(length, wrong, fill) ==
  [i \in 1..length |-> IF i > 12 THEN (IF fill = 1 THEN (41 * i) % 256 ELSE fill)
                       ELSE IF i = wrong THEN 255 - ED25519_SPKI_PREFIX[i] ELSE ED25519_SPKI_PREFIX[i]]
AnyDer == {[op |-> "key", der |-> Der(n, w, f), width |-> l, slashes |-> b, id |-> <<"x">>,
            first |-> "id", other |-> <<"k">>, gap |-> <<>>] :
              n \in {12, 43, 44, 45, 48, 49, 50}, w \in {0, 1, 12}, f \in {0, 1, 255},
              l \in {20, 64}, b \in BOOLEAN}
KeyIds == UpTo(2, {Quote, Backslash, "k"}) \cup {[j \in 1..KeyIdCap |-> "x"]}
Gaps == {<<>>, <<" ">>, <<"\t", " ">>}
Others == {<<"k">>, <<"k", "p">>, <<Quote, "k", Quote, ":", Quote>>, <<Backslash>>}
AnyMembers == {[op |-> "key", der |-> Der(44, 0, 1), width |-> 64, slashes |-> TRUE, id |-> i,
                first |-> f, other |-> o, gap |-> g] :
                  i \in KeyIds, f \in {"id", "other"}, g \in Gaps, o \in Others}
Keys == AnyDer \cup AnyMembers

\* GET /device/manifest-key. Keys: k key_id, kp public_key_pem, a alg.
Response(c) ==
  LET id == Member(<<"k">>, JsonString(c.id, FALSE), c.gap)
      pem == Member(<<"k", "p">>, JsonString(Pem(c.der, c.width), c.slashes), c.gap)
      alg == Member(<<"a">>, JsonString(c.other, FALSE), c.gap)
  IN <<"{">> \o (IF c.first = "id" THEN id ELSE alg) \o <<",">> \o pem \o <<",">>
     \o (IF c.first = "id" THEN alg ELSE id) \o <<"}">>

Numbers == {-1, 0, 2, 15, 16}     \* -1: no digits
NumberText(n) == IF n < 0 THEN <<>> ELSE IF n < 10 THEN <<Digits[n + 1]>>
                 ELSE <<Digits[(n \div 10) + 1], Digits[(n % 10) + 1]>>
Ranges == [op : {"range"}, lead : {<<>>, <<" ", "\t">>}, unit : {"bytes", "items"},
           gap : {<<>>, <<" ">>}, s : Numbers, dash : {"-", "/"}, e : Numbers,
           slash : {"/", "-"}, t : Numbers, rest : {<<>>, <<"x">>}]
RangeText(c) == c.lead \o <<c.unit>> \o c.gap \o NumberText(c.s) \o <<c.dash>>
                \o NumberText(c.e) \o <<c.slash>> \o NumberText(c.t) \o c.rest

LikeAMember == <<Quote, ",", Quote, "r", Quote, ":", Quote, "x">>
Beats == [op : {"beat"}, detail : UpTo(2, {Quote, Backslash, "\n", "ESC", "x"}) \cup {LikeAMember},
          reverted : UpTo(2, {Quote, Backslash, "x"}) \cup {LikeAMember}, cap : BeatCaps]

-----------------------------------------------------------------------------
(* Calls.                                                                  *)

BuildClaim == \E c \in Claims :
  /\ call = None /\ call' = c
  /\ result' = claim_build_request(c.token, c.id, c.csr, c.cap)

\* The tail of meshanics_enroll: <<key_id, manifest_pub>>, or Failed.
FetchKey == \E c \in Keys :
  /\ call = None /\ call' = c
  /\ LET id == json_extract_string(Response(c), <<"k">>, KeyIdCap)
         pem == json_extract_string(Response(c), <<"k", "p">>, PemCap)
         pub == claim_ed25519_pub_from_pem(pem)
     IN result' = IF id \in {Failed, <<>>} \/ pem \in {Failed, <<>>} THEN Failed
                  ELSE IF pub = Failed THEN Failed ELSE <<id, pub>>

ParseRange == \E c \in Ranges :
  call = None /\ call' = c /\ result' = ota_parse_content_range(RangeText(c))

BuildHeartbeat == \E c \in Beats :
  /\ call = None /\ call' = c
  /\ result' = ota_heartbeat_json(c.cap, <<"m">>, <<"1", ".", "0">>, "7", "true", c.detail, c.reverted)

Next == BuildClaim \/ FetchKey \/ ParseRange \/ BuildHeartbeat
Spec == Init /\ [][Next]_vars

-----------------------------------------------------------------------------
(* Properties.                                                             *)

Read(key) == json_extract_string(result, key, Len(result))

\* Whatever characters token, device id and CSR hold, a request that
\* claim_build_request writes stays within its buffer, gives each of them back,
\* and one that was refused would not have fitted.
ClaimRoundTrip ==
  call.op = "claim" =>
    LET size == 22 + Len(call.token) + Len(call.id) + Len(call.csr)
                + Cardinality({j \in DOMAIN call.token : call.token[j] \in {Quote, Backslash}})
                + Cardinality({j \in DOMAIN call.id : call.id[j] = Quote})
                + Cardinality({j \in DOMAIN call.csr : call.csr[j] # "n"})
    IN IF size >= call.cap THEN result = Failed
       ELSE /\ Len(result) = size
            /\ Read(<<"t">>) = call.token /\ Read(<<"i">>) = call.id /\ Read(<<"c">>) = call.csr

\* The device pins a key only when the control plane's answer carries a 32-byte
\* Ed25519 key, and then exactly that key under its own id, wherever the members
\* stand, whatever the other values look like and however the PEM is broken.
KeyDelivered ==
  call.op = "key" =>
    LET good == /\ call.id # <<>> /\ Len(call.id) < KeyIdCap
                /\ Len(Pem(call.der, call.width)) < PemCap
                /\ Len(call.der) = 44
                /\ \A i \in 1..12 : call.der[i] = ED25519_SPKI_PREFIX[i]
    IN result = IF good THEN <<call.id, [i \in 1..32 |-> call.der[i + 12]]>> ELSE Failed

\* A header "bytes <start>-<end>/<total>", and numbers that a uint64_t can hold.
WellFormed(c) == /\ c.unit = "bytes" /\ c.dash = "-" /\ c.slash = "/"
                 /\ -1 \notin {c.s, c.e, c.t}
Fits(c) == c.s < UINT64 /\ c.e < UINT64 /\ c.t < UINT64

\* ota_parse_content_range gives back start, end and total of a well-formed
\* header when they are coherent, and rejects one in which the unit, a number or
\* a separator is missing.
RangeParsed ==
  call.op = "range" =>
    /\ ~WellFormed(call) => result = <<>>
    /\ WellFormed(call) /\ Fits(call) /\ call.rest = <<>> =>
         result = IF call.s <= call.e /\ call.e < call.t
                  THEN <<call.s, call.e, call.t>> ELSE <<>>

\* What ota.h says, that ota_parse_content_range "on any malformed input [...]
\* returns 0": neither text behind the total nor a number that a uint64_t cannot
\* hold is accepted.  The code does not keep it (README.md, section 6).
MalformedRejected ==
  call.op = "range" /\ result # <<>> =>
    WellFormed(call) /\ Fits(call) /\ call.rest = <<>>

\* A detail or a reverted version cannot break the heartbeat or pass for another
\* member of it: unless the body does not fit, all members read back, with the two bounded and made harmless,
\* and reverted_version is there only when there is one.
HeartbeatReadsBack ==
  call.op = "beat" =>
    LET bounded(s, cap) == IF Len(s) < cap THEN Len(s) ELSE cap - 1
        harmless(s, cap, r) ==
          /\ Len(r) = bounded(s, cap)
          /\ \A j \in DOMAIN r : r[j] = IF s[j] \in {Quote, Backslash, "\n", "ESC"} THEN " " ELSE s[j]
        size == 44 + bounded(call.detail, DetailCap)
                + (IF call.reverted = <<>> THEN 0 ELSE 7 + bounded(call.reverted, VersionCap))
    IN IF size >= call.cap THEN result = Failed ELSE
       /\ Len(result) = size /\ Read(<<"a">>) = <<"m">> /\ Read(<<"v">>) = <<"1", ".", "0">>
       /\ harmless(call.detail, DetailCap, Read(<<"d">>))
       /\ IF call.reverted = <<>> THEN Read(<<"r">>) = Failed
          ELSE harmless(call.reverted, VersionCap, Read(<<"r">>))
=============================================================================
