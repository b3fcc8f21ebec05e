------------------------------- MODULE OtaText -----------------------------
(***************************************************************************)
(* The text formats of lib/ota/ota.c: the Content-Range header and the     *)
(* heartbeat body. Texts as in ClaimProto; the unit "bytes" is one symbol. *)
(* Integers are below UINT64.                                              *)
(***************************************************************************)
EXTENDS ClaimProto

CONSTANTS UINT64,     \* how many values a uint64_t has (2^64)
          DetailCap,  \* sizeof(d) of ota_heartbeat_json (64)
          VersionCap  \* sizeof(rv) (32)

ASSUME WidthsAssumption == UINT64 \in Nat \ (0..9) /\ DetailCap \in Nat \ {0} /\ VersionCap \in Nat \ {0}

Digits == <<"0", "1", "2", "3", "4", "5", "6", "7", "8", "9">>
IsDigit(c) == \E d \in 1..10 : Digits[d] = c
digit(c) == (CHOOSE d \in 1..10 : Digits[d] = c) - 1

\* What the loop has in v after n digits from i on.
number(p, i, n) ==
  LET upto[k \in 0..n] ==
        IF k = 0 THEN 0 ELSE (upto[k - 1] * 10 + digit(p[i + k - 1])) % UINT64
  IN upto[n]

\* Mutant: the last digit is left out.
stops_early(p, i) == LET end == FirstFrom(p, i, LAMBDA c : ~IsDigit(c))
                     IN [v |-> number(p, i, IF end > i THEN end - i - 1 ELSE 0), i |-> end, ok |-> end > i]
\* The number that starts at i, where it ends, and whether it has a digit.
parse_u64(p, i) == LET end == FirstFrom(p, i, LAMBDA c : ~IsDigit(c))
                   IN [v |-> number(p, i, end - i), i |-> end, ok |-> end > i]

\* A coherent range.
Coherent(s, e, t) == s <= e /\ e < t

\* <<start, end, total>>, or <<>> for the result 0.
ota_parse_content_range(value) ==
  LET unit == SkipBlanks(value, 1)
      s == parse_u64(value, FirstFrom(value, unit + 1, LAMBDA c : c # " "))
      e == parse_u64(value, s.i + 1)
      t == parse_u64(value, e.i + 1)
  IN IF /\ At(value, unit) = "bytes"
        /\ s.ok /\ At(value, s.i) = "-"
        /\ e.ok /\ At(value, e.i) = "/"
        /\ t.ok /\ Coherent(s.v, e.v, t.v)
     THEN <<s.v, e.v, t.v>> ELSE <<>>

-----------------------------------------------------------------------------

\* Mutant: only the quote is replaced.
sanitise_quotes(cap, s) == [i \in 1..(IF Len(s) < cap THEN Len(s) ELSE cap - 1) |->
                               IF s[i] = Quote THEN " " ELSE s[i]]
\* "ESC" stands for every other character that compares below 0x20.
Unsafe == {Quote, Backslash, "\n", "\r", "\t", "ESC"}
sanitise(cap, s) == [i \in 1..(IF Len(s) < cap THEN Len(s) ELSE cap - 1) |->
                        IF s[i] \in Unsafe THEN " " ELSE s[i]]

StringField(key, s) == <<Quote, key, Quote, ":", Quote>> \o s \o <<Quote>>

\* Keys: a agent_version, v applied_version, n applied_counter, r reverted_version,
\* p probe, h healthy, d detail.
ota_heartbeat_json(cap, agent_version, applied_version, counter, healthy, detail, reverted) ==
  LET versions == StringField("a", agent_version) \o <<",">> \o StringField("v", applied_version)
                  \o <<",", Quote, "n", Quote, ":", counter>>
      rv == IF reverted = <<>> THEN <<>>
            ELSE <<",">> \o StringField("r", sanitise(VersionCap, reverted))
      probe == <<",", Quote, "p", Quote, ":", "{", Quote, "h", Quote, ":", healthy, ",">>
               \o StringField("d", sanitise(DetailCap, detail)) \o <<"}">>
      body == <<"{">> \o versions \o rv \o probe \o <<"}">>
  IN IF Len(body) >= cap THEN Failed ELSE body
=============================================================================
