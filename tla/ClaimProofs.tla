---------------------------- MODULE ClaimProofs -----------------------------
(****************************************************************************)
(* Theorems about the texts of enrollment (ClaimProto) for every text and   *)
(* every size of a buffer.  A text written escaped has stops, the places    *)
(* where its characters end; a quote of the value never stands where a key  *)
(* could be, so find_value_start finds the member that was written, and from*)
(* stop to stop json_extract_string reads it back.  The answer with the     *)
(* manifest key is read in four layers: an object of members, the marks of  *)
(* the PEM, base64 sextet by sextet, and the prefix of the DER.  What a     *)
(* loop computes is shown by induction over the naturals, with the set of   *)
(* the numbers for which it is right.                                       *)
(****************************************************************************)
EXTENDS Formats, WellFoundedInduction, FiniteSetTheorems, TLAPS

-----------------------------------------------------------------------------
(* Induction and loops.  Writing texts.                                    *)

\* Every set of natural numbers with a member has a least one.
LEMMA Least ==
  ASSUME NEW S \in SUBSET Nat, S # {}
  PROVE  \E n \in S : \A m \in S : n <= m
<1>1. \E x \in S : \A y \in S : ~ (<<y, x>> \in OpToRel(<,Nat))
  BY NatLessThanWellFounded, WFMin, Zenon
<1>2. PICK x \in S : \A y \in S : ~ (<<y, x>> \in OpToRel(<,Nat))
  BY <1>1, Zenon
<1>3. \A y \in S : ~(y < x)
  BY <1>2 DEF OpToRel
<1> QED BY <1>3

\* Induction over the natural numbers, stated with a set: what the loops of the text
\* functions compute for texts of every length rests on it.
LEMMA Induction ==
  ASSUME NEW S, 0 \in S, \A n \in Nat : n \in S => n + 1 \in S
  PROVE  Nat \subseteq S
<1> SUFFICES ASSUME Nat \ S # {} PROVE FALSE OBVIOUS
<1>1. PICK n \in Nat \ S : \A m \in Nat \ S : n <= m
  BY Least
<1>2. n # 0 /\ n - 1 \in Nat /\ n - 1 \in S
  BY <1>1
<1>3. (n - 1) + 1 \in S
  BY <1>2
<1> QED BY <1>1, <1>3

\* f is the iteration of step from base, n times.
Iterates(f, V, base, step, n) ==
  f \in [0..n -> V] /\ f[0] = base /\ \A k \in 1..n : f[k] = step[k][f[k - 1]]

\* Any number of steps can be iterated.
LEMMA Iteration ==
  ASSUME NEW V, NEW base \in V, NEW step \in [Nat -> [V -> V]], NEW n \in Nat
  PROVE  \E f : Iterates(f, V, base, step, n)
<1> USE DEF Iterates
<1> DEFINE Ok(m, f) == Iterates(f, V, base, step, m)
           S == {m \in Nat : \E f : Ok(m, f)}
<1>1. 0 \in S
  <2>1. Ok(0, [k \in 0..0 |-> base])
    OBVIOUS
  <2> QED BY <2>1
<1>2. ASSUME NEW m \in Nat, m \in S PROVE m + 1 \in S
  <2>1. PICK f : Ok(m, f)
    BY <1>2
  <2> DEFINE g == [k \in 0..(m + 1) |-> IF k = m + 1 THEN step[m + 1][f[m]] ELSE f[k]]
  <2>2. step[m + 1][f[m]] \in V
    BY <2>1
  <2>3. g \in [0..(m + 1) -> V] /\ g[0] = base
    BY <2>1, <2>2
  <2>4. ASSUME NEW k \in 1..(m + 1) PROVE g[k] = step[k][g[k - 1]]
    <3>1. CASE k = m + 1
      <4>1. g[k] = step[m + 1][f[m]] /\ g[k - 1] = f[m]
        BY <3>1
      <4> QED BY <3>1, <4>1
    <3>2. CASE k \in 1..m
      BY <2>1, <3>2
    <3> QED BY <3>1, <3>2
  <2>5. Ok(m + 1, g)
    BY <2>3, <2>4
  <2> HIDE DEF Ok, g
  <2> QED BY <2>5
<1> HIDE DEF S
<1>3. Nat \subseteq S
  BY <1>1, <1>2, Induction
<1> QED BY <1>3 DEF S

\* Any characters of a C string: those of the syntax, neither its end nor the
\* symbol of a failure.
Syntax == {Quote, Backslash, "n", "r", "t", "i", "c", "{", "}", ":", ","}
Charset(C) == Syntax \subseteq C /\ NUL \notin C /\ "-1" \notin C

\* The characters that are escaped, and what stands behind the backslash.
Special == {Quote, Backslash, "\n", "\r", "\t"}
Code(c) == escape(c)[2]
Width1(c) == IF c \in Special THEN 2 ELSE 1

\* A text is never taken for a failure.
LEMMA TextNotFailed ==
  ASSUME NEW C, Charset(C), NEW s \in Seq(C)
  PROVE  s # Failed
<1>1. ASSUME s = <<"-1">> PROVE FALSE
  <2>1. Len(s) = 1 /\ s[1] = "-1"
    BY <1>1
  <2>2. s[1] \in C
    BY <2>1
  <2> QED BY <2>1, <2>2 DEF Charset
<1> QED BY <1>1 DEF Failed

\* What append_escaped writes for a character is one or two characters, and reading
\* the escape gives the character back.
LEMMA EscapeCases ==
  ASSUME NEW C, Charset(C), NEW c \in C
  PROVE  /\ c \in Special => /\ escape(c) = <<Backslash, Code(c)>> /\ Code(c) \in C
                             /\ unescape(Code(c)) = c
         /\ c \notin Special => escape(c) = <<c>>
         /\ escape(c) \in Seq(C) /\ Len(escape(c)) = Width1(c)
         /\ escape(c)[1] \in C \ {Quote}
<1> USE DEF Quote, Backslash
<1>1. ASSUME NEW d \in C, escape(c) = <<Backslash, d>>, c \in Special, unescape(d) = c
      PROVE  /\ escape(c) = <<Backslash, Code(c)>> /\ Code(c) \in C
             /\ unescape(Code(c)) = c
             /\ escape(c) \in Seq(C) /\ Len(escape(c)) = Width1(c)
             /\ escape(c)[1] \in C \ {Quote}
  <2>1. Code(c) = d /\ escape(c)[1] = Backslash
    BY <1>1 DEF Code
  <2>2. Backslash \in C
    BY DEF Charset, Syntax
  <2>3. <<Backslash, d>> \in Seq(C) /\ Len(<<Backslash, d>>) = 2
    BY <2>2
  <2> QED BY <1>1, <2>1, <2>2, <2>3 DEF Width1
<1>2. /\ Quote \in C /\ Backslash \in C /\ "n" \in C /\ "r" \in C /\ "t" \in C
  BY DEF Charset, Syntax
<1>3. /\ unescape(Quote) = Quote /\ unescape(Backslash) = Backslash
      /\ unescape("n") = "\n" /\ unescape("r") = "\r" /\ unescape("t") = "\t"
  BY DEF unescape
<1>4. CASE c \in {Quote, Backslash}
  BY <1>1, <1>2, <1>3, <1>4 DEF escape, Special
<1>5. CASE c = "\n"
  BY <1>1, <1>2, <1>3, <1>5 DEF escape, Special
<1>6. CASE c = "\r"
  BY <1>1, <1>2, <1>3, <1>6 DEF escape, Special
<1>7. CASE c = "\t"
  BY <1>1, <1>2, <1>3, <1>7 DEF escape, Special
<1>8. CASE c \notin Special
  <2>1. escape(c) = <<c>> /\ c # Quote
    BY <1>8 DEF escape, Special
  <2>2. <<c>> \in Seq(C) /\ Len(<<c>>) = 1 /\ <<c>>[1] = c
    OBVIOUS
  <2> QED BY <1>8, <2>1, <2>2 DEF Width1
<1> QED BY <1>4, <1>5, <1>6, <1>7, <1>8 DEF Special

\* r is the text s behind the text out.
Joined(r, out, s) == /\ Len(r) = Len(out) + Len(s)
                     /\ \A i \in 1..Len(out) : r[i] = out[i]
                     /\ \A i \in 1..Len(s) : r[Len(out) + i] = s[i]

\* append_raw writes all of s or fails, exactly when s and the end of the string do
\* not fit.
LEMMA AppendRaw ==
  ASSUME NEW C, Charset(C), NEW out \in Seq(C), NEW cap \in Nat, NEW s \in Seq(C)
  PROVE  IF Len(out) + Len(s) >= cap THEN append_raw(out, cap, s) = Failed
         ELSE append_raw(out, cap, s) \in Seq(C) /\ Joined(append_raw(out, cap, s), out, s)
<1>1. CASE Len(out) + Len(s) >= cap
  BY <1>1 DEF append_raw
<1>2. CASE ~(Len(out) + Len(s) >= cap)
  <2>1. append_raw(out, cap, s) = out \o s
    BY <1>2, TextNotFailed DEF append_raw
  <2>2. out \o s \in Seq(C) /\ Joined(out \o s, out, s)
    BY DEF Joined
  <2> QED BY <1>2, <2>1, <2>2
<1> QED BY <1>1, <1>2

\* What append_raw can have written so far: a text, or the symbol of a failure.
OrFailed(C) == Seq(C \cup {"-1"})

\* upto[k] is what the loop of append_escaped has written after k characters of s.
Loops(upto, out, cap, s) ==
  /\ upto[0] = out
  /\ \A k \in 1..Len(s) : upto[k] = append_raw(upto[k - 1], cap, escape(s[k]))
  /\ append_escaped(out, cap, s) = upto[Len(s)]

\* The loop of append_escaped goes through s one character after the other.
LEMMA AppendLoop ==
  ASSUME NEW C, Charset(C), NEW out \in OrFailed(C), NEW cap \in Nat, NEW s \in Seq(C)
  PROVE  \E upto : Loops(upto, out, cap, s)
<1> DEFINE n == Len(s)
           Loop(g) == g = [k \in 0..n |-> IF k = 0 THEN out
                                          ELSE append_raw(g[k - 1], cap, escape(s[k]))]
           V == Seq(C \cup {"-1"})
           step == [k \in Nat |-> [x \in V |->
                      IF k \in 1..n THEN append_raw(x, cap, escape(s[k])) ELSE out]]
<1>0. n \in Nat
  OBVIOUS
<1>1. \A x \in V, k \in 1..n : append_raw(x, cap, escape(s[k])) \in V
  <2> SUFFICES ASSUME NEW x \in V, NEW k \in 1..n
               PROVE  append_raw(x, cap, escape(s[k])) \in V
    OBVIOUS
  <2>1. s[k] \in C
    OBVIOUS
  <2>2. escape(s[k]) \in Seq(C)
    BY <2>1, EscapeCases
  <2>3. escape(s[k]) \in V /\ <<"-1">> \in V
    BY <2>2
  <2>4. x \o escape(s[k]) \in V
    BY <2>3
  <2> QED BY <2>3, <2>4 DEF append_raw, Failed
<1>2. out \in V
  BY DEF OrFailed
<1>3. step \in [Nat -> [V -> V]]
  <2> HIDE DEF V
  <2> SUFFICES ASSUME NEW k \in Nat, NEW x \in V PROVE step[k][x] \in V
    OBVIOUS
  <2> QED BY <1>1, <1>2
<1> HIDE DEF V
<1>4. PICK f : Iterates(f, V, out, step, n)
  <2> HIDE DEF step, n
  <2> QED BY <1>0, <1>2, <1>3, Iteration
<1>5. \A k \in 1..n : f[k] = append_raw(f[k - 1], cap, escape(s[k]))
  <2> SUFFICES ASSUME NEW k \in 1..n PROVE f[k] = append_raw(f[k - 1], cap, escape(s[k]))
    OBVIOUS
  <2>1. f[k - 1] \in V /\ k \in Nat
    BY <1>0, <1>4 DEF Iterates
  <2>2. step[k][f[k - 1]] = append_raw(f[k - 1], cap, escape(s[k]))
    BY <2>1
  <2> QED BY <1>4, <2>2 DEF Iterates
<1>6. Loop(f)
  BY <1>0, <1>4, <1>5 DEF Iterates
<1> DEFINE upto == CHOOSE g : Loop(g)
<1>7. Loop(upto)
  <2> HIDE DEF Loop
  <2> QED BY <1>6
<1>8. append_escaped(out, cap, s) = upto[n]
  BY DEF append_escaped
<1>9. upto[0] = out /\ \A k \in 1..n : upto[k] = append_raw(upto[k - 1], cap, escape(s[k]))
  <2> HIDE DEF upto
  <2> QED BY <1>0, <1>7
<1> HIDE DEF upto
<1>10. Loops(upto, out, cap, s)
  BY <1>8, <1>9 DEF Loops
<1> QED BY <1>10

\* at[k] is where the k-th character of s ends, written escaped behind p.
Stops(s, p, at) == /\ at \in [0..Len(s) -> Nat] /\ at[0] = p
                   /\ \A k \in 1..Len(s) : at[k] = at[k - 1] + Width1(s[k])
\* Behind p stands c, escaped; at these places stands s, escaped.
Piece(J, p, c) == IF c \in Special THEN J[p + 1] = Backslash /\ J[p + 2] = Code(c)
                                   ELSE J[p + 1] = c
Escaped(J, s, at) == \A k \in 1..Len(s) : Piece(J, at[k - 1], s[k])

\* Every text has its stops.
LEMMA StopsExist ==
  ASSUME NEW C, NEW s \in Seq(C), NEW p \in Nat
  PROVE  \E at : Stops(s, p, at)
<1> DEFINE n == Len(s)
           step == [k \in Nat |-> [x \in Nat |-> IF k \in 1..n THEN x + Width1(s[k]) ELSE x]]
<1>1. \A c : Width1(c) \in Nat
  BY DEF Width1
<1>2. step \in [Nat -> [Nat -> Nat]]
  BY <1>1
<1>3. n \in Nat
  OBVIOUS
<1>4. PICK at : Iterates(at, Nat, p, step, n)
  <2> HIDE DEF step, n
  <2> QED BY <1>2, <1>3, Iteration
<1>5. \A k \in 1..n : at[k] = at[k - 1] + Width1(s[k])
  <2> SUFFICES ASSUME NEW k \in 1..n PROVE at[k] = at[k - 1] + Width1(s[k])
    OBVIOUS
  <2>1. k - 1 \in 0..n /\ k \in Nat
    BY <1>3
  <2>2. at[k - 1] \in Nat /\ at[k] = step[k][at[k - 1]]
    BY <1>4, <2>1 DEF Iterates
  <2> QED BY <2>1, <2>2
<1> QED BY <1>4, <1>5 DEF Stops, Iterates

\* The stops increase.
LEMMA StopsIncrease ==
  ASSUME NEW C, NEW s \in Seq(C), NEW p \in Nat, NEW at, Stops(s, p, at)
  PROVE  /\ \A k \in 0..Len(s) : \A m \in 0..k : at[m] + (k - m) <= at[k]
         /\ \A k \in 0..Len(s) : p + k <= at[k] /\ at[k] + (Len(s) - k) <= at[Len(s)]
<1> DEFINE n == Len(s)
           S == {k \in Nat : k <= n => \A m \in 0..k : at[m] + (k - m) <= at[k]}
<1>0. n \in Nat
  OBVIOUS
<1>1. 0 \in S
  BY DEF Stops
<1>2. ASSUME NEW k \in Nat, k \in S PROVE k + 1 \in S
  <2> SUFFICES ASSUME k + 1 <= n, NEW m \in 0..(k + 1)
               PROVE  at[m] + ((k + 1) - m) <= at[k + 1]
    OBVIOUS
  <2>1. at[k] \in Nat /\ at[k + 1] \in Nat /\ at[m] \in Nat
    <3>1. k \in 0..n /\ k + 1 \in 0..n /\ m \in 0..n
      BY <1>0
    <3> HIDE DEF n
    <3>2. at \in [0..n -> Nat]
      BY DEF Stops, n
    <3> QED BY <3>1, <3>2
  <2>2. at[k + 1] >= at[k] + 1
    <3>1. at[k + 1] = at[(k + 1) - 1] + Width1(s[k + 1])
      BY <1>0 DEF Stops
    <3> QED BY <2>1, <3>1 DEF Width1
  <2>3. CASE m = k + 1
    BY <2>1, <2>3
  <2>4. CASE m \in 0..k
    <3>1. at[m] + (k - m) <= at[k]
      BY <1>2, <1>0, <2>4
    <3> DEFINE x == at[m]
               y == at[k]
               z == at[k + 1]
    <3>2. /\ x \in Nat /\ y \in Nat /\ z \in Nat /\ m \in Nat
          /\ z >= y + 1 /\ x + (k - m) <= y
      BY <2>1, <2>2, <2>4, <3>1
    <3> HIDE DEF x, y, z
    <3>3. x + ((k + 1) - m) <= z
      BY <3>2
    <3> QED BY <3>3 DEF x, z
  <2> QED BY <2>3, <2>4
<1> HIDE DEF S
<1>3. Nat \subseteq S
  BY <1>1, <1>2, Induction
<1>4. \A k \in 0..n : \A m \in 0..k : at[m] + (k - m) <= at[k]
  BY <1>0, <1>3 DEF S
<1>5. ASSUME NEW k \in 0..n PROVE p + k <= at[k] /\ at[k] + (n - k) <= at[n]
  <2>1. 0 \in 0..k /\ n \in 0..n /\ k \in 0..n
    BY <1>0
  <2>2. at[0] + (k - 0) <= at[k] /\ at[k] + (n - k) <= at[n]
    BY <1>4, <2>1
  <2>3. at[0] = p /\ k \in Nat
    BY <1>0 DEF Stops
  <2> QED BY <2>2, <2>3
<1> QED BY <1>4, <1>5

\* What an appended text leaves as it is.
LEMMA EscapedStays ==
  ASSUME NEW C, NEW s \in Seq(C), NEW p \in Nat, NEW at, Stops(s, p, at),
         NEW J, NEW K, \A i \in (p + 1)..at[Len(s)] : K[i] = J[i], Escaped(J, s, at)
  PROVE  Escaped(K, s, at)
<1> SUFFICES ASSUME NEW k \in 1..Len(s) PROVE Piece(K, at[k - 1], s[k])
  BY DEF Escaped
<1>1. Piece(J, at[k - 1], s[k])
  BY DEF Escaped
<1>2. /\ k - 1 \in 0..Len(s) /\ at[k - 1] \in Nat /\ at[k] \in Nat /\ at[Len(s)] \in Nat
      /\ at[0] = p /\ at[k] = at[k - 1] + Width1(s[k])
  BY SMTT(30) DEF Stops
<1>3. p <= at[k - 1]
  <2>1. p + (k - 1) <= at[k - 1]
    BY <1>2, StopsIncrease
  <2> QED BY <1>2, <2>1
<1>4. at[k] <= at[Len(s)]
  <2>1. at[k] + (Len(s) - k) <= at[Len(s)]
    BY StopsIncrease
  <2> QED BY <1>2, <2>1
<1>5. CASE s[k] \in Special
  <2>1. /\ at[k - 1] + 1 \in (p + 1)..at[Len(s)] /\ at[k - 1] + 2 \in (p + 1)..at[Len(s)]
    <3> DEFINE x == at[k - 1]
               y == at[k]
               z == at[Len(s)]
    <3>1. x \in Nat /\ z \in Nat /\ p <= x /\ y <= z /\ y = x + 2
      BY <1>2, <1>3, <1>4, <1>5 DEF Width1
    <3> HIDE DEF x, y, z
    <3>2. x + 1 \in (p + 1)..z /\ x + 2 \in (p + 1)..z
      BY <3>1
    <3> QED BY <3>2 DEF x, z
  <2> QED BY <1>1, <1>5, <2>1 DEF Piece
<1>6. CASE s[k] \notin Special
  <2>1. at[k - 1] + 1 \in (p + 1)..at[Len(s)]
    BY <1>2, <1>3, <1>4, <1>6 DEF Width1
  <2> QED BY <1>1, <1>6, <2>1 DEF Piece
<1> QED BY <1>5, <1>6

\* Nothing is written behind a failure.
LEMMA AppendToFailed ==
  ASSUME NEW C, Charset(C), NEW cap \in Nat, NEW s \in Seq(C)
  PROVE  append_escaped(Failed, cap, s) = Failed
<1>1. Failed \in OrFailed(C) /\ Len(s) \in Nat
  BY DEF Failed, OrFailed
<1>0. PICK upto : Loops(upto, Failed, cap, s)
  BY <1>1, AppendLoop
<1>2. /\ upto[0] = Failed
      /\ \A k \in 1..Len(s) : upto[k] = append_raw(upto[k - 1], cap, escape(s[k]))
      /\ append_escaped(Failed, cap, s) = upto[Len(s)]
  BY <1>0 DEF Loops
<1> DEFINE S == {k \in Nat : k <= Len(s) => upto[k] = Failed}
<1>3. 0 \in S
  BY <1>2
<1>4. ASSUME NEW k \in Nat, k \in S PROVE k + 1 \in S
  <2> SUFFICES ASSUME k + 1 <= Len(s) PROVE upto[k + 1] = Failed
    OBVIOUS
  <2>1. upto[k] = Failed /\ (k + 1) - 1 = k /\ k + 1 \in 1..Len(s)
    BY <1>1, <1>4
  <2>2. upto[k + 1] = append_raw(Failed, cap, escape(s[k + 1]))
    BY <1>2, <2>1
  <2> QED BY <2>2 DEF append_raw
<1> HIDE DEF S
<1>5. Nat \subseteq S
  BY <1>3, <1>4, Induction
<1> QED BY <1>1, <1>2, <1>5 DEF S

\* r is out, then s escaped.
Continued(C, r, out, s, at) == /\ r \in Seq(C) /\ Len(r) = at[Len(s)]
                               /\ \A i \in 1..Len(out) : r[i] = out[i]
                               /\ Escaped(r, s, at)

\* append_escaped writes s escaped behind what was there, or fails, exactly when
\* that and the end of the string do not fit.
LEMMA AppendEscaped ==
  ASSUME NEW C, Charset(C), NEW out \in Seq(C), NEW cap \in Nat, NEW s \in Seq(C),
         Len(out) < cap, NEW at, Stops(s, Len(out), at)
  PROVE  IF at[Len(s)] >= cap THEN append_escaped(out, cap, s) = Failed
         ELSE Continued(C, append_escaped(out, cap, s), out, s, at)
<1> DEFINE n == Len(s)
           p == Len(out)
           Holds(J, k) == /\ J \in Seq(C) /\ Len(J) = at[k]
                          /\ \A i \in 1..p : J[i] = out[i]
                          /\ \A m \in 1..k : Piece(J, at[m - 1], s[m])
<1>0. n \in Nat /\ p \in Nat /\ at[0] = p
  BY DEF Stops
<1>6. PICK upto : Loops(upto, out, cap, s)
  <2>1. out \in OrFailed(C)
    BY DEF OrFailed
  <2> QED BY <2>1, AppendLoop
<1>1. /\ upto[0] = out
      /\ \A k \in 1..n : upto[k] = append_raw(upto[k - 1], cap, escape(s[k]))
      /\ append_escaped(out, cap, s) = upto[n]
  BY <1>6 DEF Loops
<1> DEFINE Good(k) == IF at[k] >= cap THEN upto[k] = Failed ELSE Holds(upto[k], k)
           S == {k \in Nat : k <= n => Good(k)}
<1>2. 0 \in S
  BY <1>0, <1>1
<1>3. ASSUME NEW k \in Nat, k \in S PROVE k + 1 \in S
  <2> SUFFICES ASSUME k + 1 <= n PROVE Good(k + 1)
    OBVIOUS
  <2> DEFINE e == escape(s[k + 1])
             J == upto[k]
             K == upto[k + 1]
  <2>0. Good(k)
    BY <1>0, <1>3
  <2>1. s[k + 1] \in C
    BY <1>0
  <2>2. /\ e \in Seq(C) /\ Len(e) = Width1(s[k + 1])
        /\ s[k + 1] \in Special => e = <<Backslash, Code(s[k + 1])>>
        /\ s[k + 1] \notin Special => e = <<s[k + 1]>>
    BY <2>1, EscapeCases
  <2>3. at[k] \in Nat /\ at[k + 1] \in Nat /\ at[k + 1] = at[k] + Len(e)
    <3>1. at[k + 1] = at[(k + 1) - 1] + Width1(s[k + 1])
      BY <1>0 DEF Stops
    <3>2. at[k] \in Nat /\ at[k + 1] \in Nat
      <4>1. k \in 0..n /\ k + 1 \in 0..n
        BY <1>0
      <4>2. at \in [0..n -> Nat]
        BY DEF Stops
      <4> HIDE DEF n
      <4> QED BY <4>1, <4>2
    <3> QED BY <2>2, <3>1, <3>2
  <2>4. K = append_raw(J, cap, e)
    <3>1. upto[k + 1] = append_raw(upto[(k + 1) - 1], cap, escape(s[k + 1]))
      BY <1>0, <1>1
    <3> QED BY <3>1
  <2>5. CASE at[k] >= cap
    <3>1. J = Failed
      BY <2>0, <2>5
    <3>2. Len(e) \in Nat
      BY <2>2
    <3>3. at[k + 1] >= cap
      BY <2>3, <2>5, <3>2
    <3>4. K = Failed
      BY <2>4, <3>1 DEF append_raw
    <3> QED BY <3>3, <3>4
  <2>6. CASE at[k] < cap
    <3>1. Holds(J, k)
      <4>1. ~(at[k] >= cap)
        BY <2>3, <2>6
      <4> QED BY <2>0, <4>1, Zenon
    <3>2. J # Failed
      BY <3>1, TextNotFailed
    <3> HIDE DEF J, K, e
    <3>3. CASE at[k + 1] >= cap
      <4>1. K = Failed
        BY <2>3, <2>4, <3>1, <3>3 DEF append_raw
      <4> QED BY <3>3, <4>1 DEF K
    <3>4. CASE at[k + 1] < cap
      <4>1. /\ K \in Seq(C) /\ Len(K) = at[k + 1]
            /\ \A i \in 1..at[k] : K[i] = J[i]
            /\ \A i \in 1..Len(e) : K[at[k] + i] = e[i]
        <5>1. J \in Seq(C) /\ Len(J) = at[k] /\ ~(Len(J) + Len(e) >= cap)
          BY <2>3, <3>1, <3>4
        <5>2. e \in Seq(C)
          BY <2>2
        <5>3. append_raw(J, cap, e) \in Seq(C) /\ Joined(append_raw(J, cap, e), J, e)
          BY <5>1, <5>2, AppendRaw
        <5> QED BY <2>3, <2>4, <5>1, <5>3 DEF Joined
      <4>2. p <= at[k]
        <5>1. k \in 0..n
          BY <1>0
        <5>2. p + k <= at[k]
          BY <1>0, <5>1, StopsIncrease
        <5> QED BY <1>0, <2>3, <5>2
      <4>3. ASSUME NEW i \in 1..p PROVE K[i] = out[i]
        <5>1. i \in 1..at[k]
          BY <1>0, <2>3, <4>2
        <5>2. J[i] = out[i]
          BY <3>1
        <5> QED BY <4>1, <5>1, <5>2
      <4>4. ASSUME NEW m \in 1..k PROVE Piece(K, at[m - 1], s[m])
        <5>1. Piece(J, at[m - 1], s[m])
          BY <3>1
        <5>0. m \in 1..n /\ m - 1 \in 0..n /\ m \in 0..n /\ k \in 0..n /\ m \in 0..k
          BY <1>0
        <5>2. at[m] + (k - m) <= at[k]
          BY <5>0, StopsIncrease
        <5>3. /\ at[m - 1] \in Nat /\ at[m] \in Nat /\ at[m] = at[m - 1] + Width1(s[m])
          BY <5>0 DEF Stops
        <5>4. at[m] <= at[k]
          <6> DEFINE x == at[m]
                     z == at[k]
          <6>1. x \in Nat /\ z \in Nat /\ x + (k - m) <= z /\ k - m \in Nat
            BY <2>3, <5>2, <5>3
          <6> HIDE DEF x, z
          <6>2. x <= z
            BY <6>1
          <6> QED BY <6>2 DEF x, z
        <5>5. CASE s[m] \in Special
          <6>0. at[m] = at[m - 1] + 2
            BY <5>3, <5>5 DEF Width1
          <6>1. at[m - 1] + 1 \in 1..at[k] /\ at[m - 1] + 2 \in 1..at[k]
            <7> DEFINE x == at[m - 1]
                       y == at[m]
                       z == at[k]
            <7>1. x \in Nat /\ z \in Nat /\ y = x + 2 /\ y <= z
              BY <2>3, <5>3, <5>4, <6>0
            <7> HIDE DEF x, y, z
            <7>2. x + 1 \in 1..z /\ x + 2 \in 1..z
              BY <7>1
            <7> QED BY <7>2 DEF x, z
          <6> QED BY <4>1, <5>1, <5>5, <6>1 DEF Piece
        <5>6. CASE s[m] \notin Special
          <6>1. at[m - 1] + 1 \in 1..at[k]
            BY <2>3, <5>3, <5>4, <5>6 DEF Width1
          <6> QED BY <4>1, <5>1, <5>6, <6>1 DEF Piece
        <5> QED BY <5>5, <5>6
      <4>5. Piece(K, at[k], s[k + 1])
        <5>1. CASE s[k + 1] \in Special
          <6>1. Len(e) = 2 /\ e[1] = Backslash /\ e[2] = Code(s[k + 1])
            BY <2>2, <5>1
          <6> QED BY <4>1, <5>1, <6>1 DEF Piece
        <5>2. CASE s[k + 1] \notin Special
          <6>1. Len(e) = 1 /\ e[1] = s[k + 1]
            BY <2>2, <5>2
          <6> QED BY <4>1, <5>2, <6>1 DEF Piece
        <5> QED BY <5>1, <5>2
      <4>6. \A m \in 1..(k + 1) : Piece(K, at[m - 1], s[m])
        <5> SUFFICES ASSUME NEW m \in 1..(k + 1) PROVE Piece(K, at[m - 1], s[m])
          OBVIOUS
        <5>1. CASE m = k + 1
          BY <4>5, <5>1
        <5>2. CASE m \in 1..k
          BY <4>4, <5>2
        <5> QED BY <5>1, <5>2
      <4> QED BY <3>4, <4>1, <4>3, <4>6, <2>3 DEF K
    <3> QED BY <2>3, <3>3, <3>4
  <2> QED BY <2>3, <2>5, <2>6
<1> HIDE DEF S
<1>4. Nat \subseteq S
  BY <1>2, <1>3, Induction
<1>5. Good(n)
  BY <1>0, <1>4 DEF S
<1> QED BY <1>1, <1>5 DEF Escaped, Continued

\* r is out, then the text h, then s escaped.
Wrote(C, r, out, h, s, at) ==
  /\ r \in Seq(C) /\ Len(r) = at[Len(s)]
  /\ \A i \in 1..Len(out) : r[i] = out[i]
  /\ \A i \in 1..Len(h) : r[Len(out) + i] = h[i]
  /\ Escaped(r, s, at)

\* A fixed text and then an escaped one: both are written, or neither is kept.
LEMMA AppendField ==
  ASSUME NEW C, Charset(C), NEW out \in Seq(C), NEW cap \in Nat, NEW h \in Seq(C),
         NEW s \in Seq(C), NEW at, Stops(s, Len(out) + Len(h), at)
  PROVE  IF at[Len(s)] >= cap THEN append_escaped(append_raw(out, cap, h), cap, s) = Failed
         ELSE Wrote(C, append_escaped(append_raw(out, cap, h), cap, s), out, h, s, at)
<1> DEFINE w == append_raw(out, cap, h)
           r == append_escaped(w, cap, s)
           n == Len(s)
           p == Len(out) + Len(h)
<1>0. n \in Nat /\ n \in 0..n /\ Len(out) \in Nat /\ Len(h) \in Nat /\ p \in Nat
  OBVIOUS
<1>1. at[n] \in Nat /\ p <= at[n]
  <2>1. at[n] \in Nat
    BY <1>0 DEF Stops
  <2>2. p + n <= at[n]
    BY <1>0, StopsIncrease
  <2> QED BY <1>0, <2>1, <2>2
<1>2. CASE p >= cap
  <2>1. w = Failed
    BY <1>2, AppendRaw
  <2>2. r = Failed
    BY <2>1, AppendToFailed
  <2>3. at[n] >= cap
    BY <1>0, <1>1, <1>2
  <2> QED BY <2>2, <2>3
<1>3. CASE ~(p >= cap)
  <2>1. w \in Seq(C) /\ Joined(w, out, h)
    BY <1>3, AppendRaw
  <2>2. Len(w) = p /\ Len(w) < cap
    BY <1>0, <1>3, <2>1 DEF Joined
  <2> HIDE DEF w
  <2>0. Stops(s, Len(w), at)
    BY <2>2
  <2>3. CASE at[n] >= cap
    <3>1. r = Failed
      BY <2>0, <2>1, <2>2, <2>3, AppendEscaped
    <3> QED BY <2>3, <3>1 DEF w
  <2>4. CASE ~(at[n] >= cap)
    <3>1. /\ r \in Seq(C) /\ Len(r) = at[n]
          /\ \A i \in 1..p : r[i] = w[i]
          /\ Escaped(r, s, at)
      <4>1. Continued(C, r, w, s, at)
        BY <2>0, <2>1, <2>2, <2>4, AppendEscaped
      <4> QED BY <2>2, <4>1 DEF Continued
    <3> HIDE DEF r
    <3>2. ASSUME NEW i \in 1..Len(out) PROVE r[i] = out[i]
      <4>1. i \in 1..p
        BY <1>0
      <4> QED BY <2>1, <3>1, <4>1 DEF Joined
    <3>3. ASSUME NEW i \in 1..Len(h) PROVE r[Len(out) + i] = h[i]
      <4>1. Len(out) + i \in 1..p
        BY <1>0
      <4> QED BY <2>1, <3>1, <4>1 DEF Joined
    <3>4. Wrote(C, r, out, h, s, at)
      BY <3>1, <3>2, <3>3 DEF Wrote
    <3> QED BY <2>4, <3>4 DEF r, w
  <2> QED BY <2>3, <2>4
<1> QED BY <1>2, <1>3

-----------------------------------------------------------------------------
(* Keys and values: find_value_start.                                      *)

\* Inside a text, At is the character.
LEMMA AtPlace ==
  ASSUME NEW C, NEW J \in Seq(C), NEW i \in 1..Len(J)
  PROVE  At(J, i) = J[i]
BY DEF At

\* No blank, nothing to skip.
LEMMA SkipNone ==
  ASSUME NEW C, NEW J \in Seq(C), NEW i \in 1..Len(J), J[i] \notin Blanks
  PROVE  SkipBlanks(J, i) = i
<1> DEFINE Is(j) == /\ j > Len(J) \/ J[j] \notin Blanks
                    /\ \A k \in i..(j - 1) : k <= Len(J) /\ ~(J[k] \notin Blanks)
<1>1. i \in i..(i + Len(J)) /\ Is(i)
  OBVIOUS
<1>2. ASSUME NEW j \in i..(i + Len(J)), Is(j) PROVE j = i
  <2>1. CASE j > i
    <3>1. i \in i..(j - 1)
      BY <2>1
    <3> QED BY <1>2, <3>1
  <2> QED BY <2>1
<1>3. SkipBlanks(J, i) = CHOOSE j \in i..(i + Len(J)) : Is(j)
  BY DEF SkipBlanks, FirstFrom
<1> HIDE DEF Is
<1> QED BY <1>1, <1>2, <1>3

\* A key of one letter.
LEMMA OneLetterKey ==
  ASSUME NEW C, NEW J \in Seq(C), NEW p \in Nat, NEW g
  PROVE  IsKey(J, p, <<g>>) <=> /\ At(J, p) = Quote /\ At(J, p + 1) = g
                                /\ At(J, p + 2) = Quote
                                /\ At(J, SkipBlanks(J, p + 3)) = ":"
<1>1. Len(<<g>>) = 1 /\ DOMAIN <<g>> = {1} /\ <<g>>[1] = g
  OBVIOUS
<1>2. AfterKey(J, p, <<g>>) = SkipBlanks(J, p + 3)
  <2>1. p + Len(<<g>>) + 2 = p + 3
    BY <1>1
  <2> QED BY <2>1 DEF AfterKey
<1>3. FieldAt(J, p, <<g>>) <=> At(J, p) = Quote /\ At(J, p + 1) = g /\ At(J, p + 2) = Quote
  <2>1. p + Len(<<g>>) + 1 = p + 2
    BY <1>1
  <2>2. (\A k \in DOMAIN <<g>> : At(J, p + k) = <<g>>[k]) <=> At(J, p + 1) = g
    BY <1>1
  <2> QED BY <2>1, <2>2 DEF FieldAt
<1> QED BY <1>2, <1>3 DEF IsKey

\* A member of a JSON object: the one-letter key f at o, the value s, the stops
\* of s, and what follows.
Member1(J, o, f, s, at) ==
  /\ o \in Nat \ {0} /\ Stops(s, o + 4, at) /\ at[Len(s)] + 2 <= Len(J)
  /\ J[o] = Quote /\ J[o + 1] = f /\ J[o + 2] = Quote /\ J[o + 3] = ":" /\ J[o + 4] = Quote
  /\ Escaped(J, s, at)
  /\ J[at[Len(s)] + 1] = Quote /\ J[at[Len(s)] + 2] \in {",", "}"}

\* The places of a member.
LEMMA MemberPlaces ==
  ASSUME NEW C, NEW J \in Seq(C), NEW s \in Seq(C), NEW o, NEW f, NEW at, Member1(J, o, f, s, at)
  PROVE  /\ Len(s) \in Nat /\ o \in Nat /\ o >= 1 /\ at[0] = o + 4 /\ o + 6 <= Len(J)
         /\ \A k \in 0..Len(s) : at[k] \in Nat /\ o + 4 <= at[k] /\ at[k] <= at[Len(s)]
                                 /\ at[k] + 2 <= Len(J)
         /\ \A k \in 1..Len(s) : at[k] = at[k - 1] + Width1(s[k])
<1> DEFINE n == Len(s)
<1>0. n \in Nat
  OBVIOUS
<1>1. o \in Nat \ {0} /\ Stops(s, o + 4, at) /\ at[n] + 2 <= Len(J)
  BY DEF Member1
<1>2. /\ at \in [0..n -> Nat] /\ at[0] = o + 4
      /\ \A k \in 1..n : at[k] = at[k - 1] + Width1(s[k])
  BY <1>1 DEF Stops
<1>3. ASSUME NEW k \in 0..n
      PROVE  at[k] \in Nat /\ o + 4 <= at[k] /\ at[k] <= at[n] /\ at[k] + 2 <= Len(J)
  <2>1. at[k] \in Nat /\ at[n] \in Nat
    BY <1>0, <1>2
  <2>2. o + 4 \in Nat
    BY <1>1
  <2>3. (o + 4) + k <= at[k] /\ at[k] + (n - k) <= at[n]
    BY <1>1, <2>2, StopsIncrease
  <2> QED BY <1>0, <1>1, <2>1, <2>3, SMTT(30)
<1>4. o >= 1 /\ o + 6 <= Len(J)
  <2>1. 0 \in 0..n
    BY <1>0
  <2>2. at[0] + 2 <= Len(J)
    BY <1>3, <2>1
  <2> QED BY <1>1, <1>2, <2>2
<1> QED BY <1>0, <1>1, <1>2, <1>3, <1>4

\* Behind a stop inside the value stands no quote, and a character that is not a
\* backslash stands for itself.
LEMMA AfterStop ==
  ASSUME NEW C, NEW J \in Seq(C), NEW s \in Seq(C), NEW o, NEW f, NEW at, Member1(J, o, f, s, at),
         NEW k \in 0..(Len(s) - 1)
  PROVE  /\ J[at[k] + 1] # Quote
         /\ J[at[k] + 1] # Backslash => at[k + 1] = at[k] + 1
<1>1. k + 1 \in 1..Len(s) /\ (k + 1) - 1 = k
  OBVIOUS
<1>2. Piece(J, at[k], s[k + 1])
  <2>1. Piece(J, at[(k + 1) - 1], s[k + 1])
    BY <1>1 DEF Member1, Escaped
  <2> QED BY <1>1, <2>1
<1>3. at[k + 1] = at[k] + Width1(s[k + 1])
  <2>1. at[k + 1] = at[(k + 1) - 1] + Width1(s[k + 1])
    BY <1>1, MemberPlaces
  <2> QED BY <1>1, <2>1
<1> QED BY <1>2, <1>3 DEF Piece, Width1, Special, Quote, Backslash

\* A quote in a value, or the one that opens it, stands at a stop.
LEMMA QuoteAtStop ==
  ASSUME NEW C, NEW J \in Seq(C), NEW s \in Seq(C), NEW o, NEW f, NEW at, Member1(J, o, f, s, at),
         NEW p \in at[0]..at[Len(s)], J[p] = Quote
  PROVE  \E k \in 0..Len(s) : p = at[k]
<1> DEFINE n == Len(s)
           S == {k \in 0..n : p <= at[k]}
<1>0. n \in Nat /\ n \in 0..n /\ 0 \in 0..n
  OBVIOUS
<1>1. /\ \A k \in 0..n : at[k] \in Nat
      /\ \A k \in 1..n : at[k] = at[k - 1] + Width1(s[k])
  BY MemberPlaces
<1>2. p \in Nat /\ at[0] <= p /\ p <= at[n]
  BY <1>0, <1>1
<1>3. PICK k \in S : \A m \in S : k <= m
  <2>1. n \in S /\ S \in SUBSET Nat
    BY <1>0, <1>2
  <2> HIDE DEF S
  <2> QED BY <2>1, Least
<1>4. CASE k = 0
  <2>1. at[0] \in Nat /\ p <= at[0]
    BY <1>0, <1>1, <1>3, <1>4
  <2>2. p = at[0]
    BY <1>2, <2>1
  <2> QED BY <1>0, <2>2
<1>5. CASE k # 0
  <2>1. k \in 1..n /\ k - 1 \in 0..n
    BY <1>0, <1>3, <1>5
  <2>2. k - 1 \notin S
    BY <1>3, <2>1
  <2>3. at[k - 1] \in Nat /\ at[k] \in Nat /\ at[k - 1] < p /\ p <= at[k]
    BY <1>1, <1>2, <1>3, <2>1, <2>2
  <2>4. at[k] = at[k - 1] + Width1(s[k])
    BY <1>1, <2>1
  <2>5. Piece(J, at[k - 1], s[k])
    BY <2>1 DEF Member1, Escaped
  <2>6. p # at[k - 1] + 1 \/ s[k] \notin Special
    BY <2>5 DEF Piece, Quote, Backslash
  <2>7. p = at[k]
    BY <1>2, <2>3, <2>4, <2>6 DEF Width1
  <2> QED BY <2>1, <2>7
<1> QED BY <1>4, <1>5

\* No part of a value passes for a key.
LEMMA NoKeyInValue ==
  ASSUME NEW C, NEW J \in Seq(C), NEW s \in Seq(C), NEW o, NEW f, NEW at, Member1(J, o, f, s, at),
         NEW p \in at[0]..at[Len(s)], NEW g, g \notin {Quote, Backslash}
  PROVE  ~IsKey(J, p, <<g>>)
<1> SUFFICES ASSUME IsKey(J, p, <<g>>) PROVE FALSE
  OBVIOUS
<1> DEFINE n == Len(s)
<1>0. n \in Nat /\ n \in 0..n /\ 0 \in 0..n
  OBVIOUS
<1>1. \A k \in 0..n : at[k] \in Nat /\ 4 <= at[k] /\ at[k] <= at[n] /\ at[k] + 2 <= Len(J)
  BY MemberPlaces
<1>2. p \in 1..Len(J) /\ p + 1 \in 1..Len(J) /\ p + 2 \in 1..Len(J)
  BY <1>0, <1>1
<1>3. /\ At(J, p) = Quote /\ At(J, p + 1) = g /\ At(J, p + 2) = Quote
      /\ At(J, SkipBlanks(J, p + 3)) = ":"
  BY <1>2, OneLetterKey
<1>4. J[p] = Quote /\ J[p + 1] = g /\ J[p + 2] = Quote
  BY <1>2, <1>3 DEF At
<1>5. PICK k \in 0..n : p = at[k]
  BY <1>4, QuoteAtStop
<1>6. k # n
  BY <1>4, <1>5 DEF Member1
<1>7. k \in 0..(n - 1) /\ k + 1 \in 0..n
  BY <1>0, <1>6
<1>8. at[k + 1] = p + 1
  BY <1>4, <1>5, <1>7, AfterStop
<1>9. k + 1 = n
  <2>1. ASSUME k + 1 # n PROVE FALSE
    <3>1. k + 1 \in 0..(n - 1)
      BY <1>0, <1>7, <2>1
    <3>2. J[at[k + 1] + 1] # Quote
      BY <3>1, AfterStop
    <3>3. at[k + 1] + 1 = p + 2
      BY <1>2, <1>8
    <3> QED BY <1>4, <3>2, <3>3
  <2> QED BY <2>1
<1>10. p + 3 = at[n] + 2
  BY <1>2, <1>8, <1>9
<1>11. J[p + 3] \in {",", "}"} /\ p + 3 \in 1..Len(J)
  <2>1. J[at[n] + 2] \in {",", "}"}
    BY DEF Member1
  <2>2. at[n] \in Nat /\ at[n] + 2 <= Len(J)
    BY <1>0, <1>1
  <2>3. at[n] + 2 \in 1..Len(J)
    BY <2>2
  <2> QED BY <1>10, <2>1, <2>3, Zenon
<1>12. SkipBlanks(J, p + 3) = p + 3
  BY <1>11, SkipNone DEF Blanks
<1>13. J[p + 3] = ":"
  <2>1. At(J, p + 3) = ":"
    BY <1>3, <1>12, Zenon
  <2> QED BY <1>11, <2>1, AtPlace, Zenon
<1> QED BY <1>11, <1>13

\* The letters a key of the device's texts can be.
Letter(C, g) == g \in C /\ g \notin {Quote, Backslash, ":", ",", "}", "{"}

\* A member has its own key and no other.
LEMMA MemberKey ==
  ASSUME NEW C, NEW J \in Seq(C), NEW s \in Seq(C), NEW o, NEW f, NEW at, Member1(J, o, f, s, at),
         NEW g
  PROVE  IsKey(J, o, <<g>>) <=> g = f
<1>1. o \in Nat /\ o >= 1 /\ o + 6 <= Len(J)
  BY MemberPlaces
<1>2. /\ o \in 1..Len(J) /\ o + 1 \in 1..Len(J) /\ o + 2 \in 1..Len(J) /\ o + 3 \in 1..Len(J)
  BY <1>1
<1>3. J[o] = Quote /\ J[o + 1] = f /\ J[o + 2] = Quote /\ J[o + 3] = ":"
  BY DEF Member1
<1>4. SkipBlanks(J, o + 3) = o + 3
  BY <1>2, <1>3, SkipNone DEF Blanks
<1>5. At(J, o) = Quote /\ At(J, o + 1) = f /\ At(J, o + 2) = Quote /\ At(J, o + 3) = ":"
  BY <1>2, <1>3, AtPlace
<1> QED BY <1>1, <1>4, <1>5, OneLetterKey

\* From behind its opening quote to its end, a member holds no key at all.
LEMMA NoOtherKey ==
  ASSUME NEW C, NEW J \in Seq(C), NEW s \in Seq(C), NEW o, NEW f, NEW at, Member1(J, o, f, s, at),
         Letter(C, f), NEW g, Letter(C, g), NEW p \in (o + 1)..(at[Len(s)] + 2)
  PROVE  ~IsKey(J, p, <<g>>)
<1> DEFINE b == at[Len(s)]
<1>1. /\ o \in Nat /\ o >= 1 /\ at[0] = o + 4 /\ at[0] \in Nat /\ b \in Nat
      /\ at[0] <= b /\ b + 2 <= Len(J)
  <2>1. 0 \in 0..Len(s) /\ Len(s) \in 0..Len(s)
    OBVIOUS
  <2> QED BY <2>1, MemberPlaces
<1>2. /\ J[o + 1] = f /\ J[o + 2] = Quote /\ J[o + 3] = ":"
      /\ J[b + 1] = Quote /\ J[b + 2] \in {",", "}"}
  BY DEF Member1
<1>3. /\ f # Quote /\ g # Quote /\ g # Backslash /\ g # ":" /\ g # "," /\ g # "}"
  BY DEF Letter
<1>4. p \in Nat /\ p \in 1..Len(J)
  BY <1>1
<1>5. IsKey(J, p, <<g>>) => J[p] = Quote
  BY <1>4, OneLetterKey, AtPlace
<1>6. IsKey(J, p, <<g>>) /\ p + 1 \in 1..Len(J) => J[p + 1] = g
  BY <1>4, OneLetterKey, AtPlace
<1>7. CASE p = o + 1
  BY <1>2, <1>3, <1>5, <1>7
<1>8. CASE p = o + 2
  <2>1. p + 1 = o + 3 /\ p + 1 \in 1..Len(J)
    BY <1>1, <1>8
  <2> QED BY <1>2, <1>3, <1>6, <2>1
<1>9. CASE p = o + 3
  BY <1>2, <1>5, <1>9 DEF Quote
<1>10. CASE p \in at[0]..b
  BY <1>3, <1>10, NoKeyInValue
<1>11. CASE p = b + 1
  <2>1. p + 1 = b + 2 /\ p + 1 \in 1..Len(J)
    BY <1>1, <1>11
  <2> QED BY <1>2, <1>3, <1>6, <2>1
<1>12. CASE p = b + 2
  BY <1>2, <1>5, <1>12 DEF Quote
<1>13. p \in {o + 1, o + 2, o + 3, b + 1, b + 2} \/ p \in at[0]..b
  BY <1>1
<1> QED BY <1>7, <1>8, <1>9, <1>10, <1>11, <1>12, <1>13

\* Of the first member with a key, find_value_start finds the value.
LEMMA FindValue ==
  ASSUME NEW C, NEW J \in Seq(C), NEW s \in Seq(C), NEW o, NEW f, NEW at, Member1(J, o, f, s, at),
         \A p \in 1..(o - 1) : ~IsKey(J, p, <<f>>)
  PROVE  find_value_start(J, <<f>>) = o + 5
<1>1. o \in Nat /\ o >= 1 /\ o + 6 <= Len(J)
  BY MemberPlaces
<1>2. o \in DOMAIN J /\ IsKey(J, o, <<f>>)
  BY <1>1, MemberKey
<1> DEFINE Is(p) == IsKey(J, p, <<f>>) /\ \A q \in 1..(p - 1) : ~IsKey(J, q, <<f>>)
           p1 == CHOOSE p \in DOMAIN J : Is(p)
<1>3. Is(o)
  BY <1>2
<1>4. ASSUME NEW p \in DOMAIN J, Is(p) PROVE p = o
  <2>1. p \in Nat /\ p >= 1
    OBVIOUS
  <2>2. ~(p < o)
    BY <1>1, <1>4, <2>1
  <2>3. ~(o < p)
    BY <1>1, <1>2, <1>4, <2>1
  <2> QED BY <1>1, <2>1, <2>2, <2>3
<1>5. p1 = o
  <2> HIDE DEF Is
  <2> QED BY <1>2, <1>3, <1>4
<1>6. AfterKey(J, o, <<f>>) = o + 3
  <2>1. o + Len(<<f>>) + 2 = o + 3
    BY <1>1
  <2>2. o + 3 \in 1..Len(J)
    BY <1>1
  <2>3. J[o + 3] = ":"
    BY DEF Member1
  <2>4. SkipBlanks(J, o + 3) = o + 3
    BY <2>2, <2>3, SkipNone DEF Blanks
  <2> QED BY <2>1, <2>4 DEF AfterKey
<1>7. o + 4 \in 1..Len(J) /\ (o + 3) + 1 = o + 4 /\ (o + 4) + 1 = o + 5
  BY <1>1
<1>8. SkipBlanks(J, o + 4) = o + 4 /\ At(J, o + 4) = Quote
  <2>1. J[o + 4] = Quote
    BY DEF Member1
  <2> QED BY <1>7, <2>1, SkipNone, AtPlace DEF Blanks, Quote
<1>9. find_value_start(J, <<f>>) =
        LET q == SkipBlanks(J, AfterKey(J, p1, <<f>>) + 1)
        IN  IF At(J, q) = Quote THEN q + 1 ELSE 0
  BY <1>2 DEF find_value_start
<1> HIDE DEF p1
<1> QED BY <1>5, <1>6, <1>7, <1>8, <1>9

-----------------------------------------------------------------------------
(* Reading a value: json_extract_string.                                   *)

\* One turn of json_extract_string's loop at i: what is read from there on.
ReadAt(J, from, i) ==
  CASE At(J, i) = Quote -> <<>>
    [] At(J, i) = NUL -> Failed
    [] At(J, i) = Backslash ->
         IF At(J, i + 1) = NUL THEN Failed ELSE Prefixed(unescape(At(J, i + 1)), from[i + 2])
    [] OTHER -> Prefixed(At(J, i), from[i + 1])

\* The four cases of a turn of json_extract_string's loop.
LEMMA ReadCases ==
  ASSUME NEW J, NEW from, NEW i
  PROVE  /\ At(J, i) = Quote => ReadAt(J, from, i) = <<>>
         /\ At(J, i) = NUL => ReadAt(J, from, i) = Failed
         /\ At(J, i) = Backslash => ReadAt(J, from, i) =
              IF At(J, i + 1) = NUL THEN Failed ELSE Prefixed(unescape(At(J, i + 1)), from[i + 2])
         /\ At(J, i) \notin {Quote, NUL, Backslash} =>
              ReadAt(J, from, i) = Prefixed(At(J, i), from[i + 1])
BY DEF ReadAt, Quote, NUL, Backslash

\* It looks ahead by two characters, and never behind the end.
LEMMA ReadAhead ==
  ASSUME NEW C, NEW J \in Seq(C), NEW g, NEW h, NEW i \in Nat,
         i + 1 <= Len(J) + 2 => g[i + 1] = h[i + 1],
         i + 2 <= Len(J) + 2 => g[i + 2] = h[i + 2]
  PROVE  ReadAt(J, g, i) = ReadAt(J, h, i)
<1>1. At(J, i) # NUL => i + 1 <= Len(J) + 2
  BY DEF At
<1>2. At(J, i + 1) # NUL => i + 2 <= Len(J) + 2
  BY DEF At
<1>3. CASE At(J, i) \in {Quote, NUL}
  BY <1>3, ReadCases
<1>4. CASE At(J, i) = Backslash
  BY <1>2, <1>4, ReadCases
<1>5. CASE At(J, i) \notin {Quote, NUL, Backslash}
  BY <1>1, <1>5, ReadCases
<1> QED BY <1>3, <1>4, <1>5

\* The loop of json_extract_string, from v to the end of the text.
LEMMA ReadLoop ==
  ASSUME NEW C, NEW J \in Seq(C), NEW v \in 1..(Len(J) + 2)
  PROVE  \E from : /\ string_at(J, v) = from[v]
                   /\ \A i \in v..(Len(J) + 2) : from[i] = ReadAt(J, from, i)
<1> DEFINE N == Len(J) + 2
           Reads(g, d) == g = [i \in (N - d)..N |-> ReadAt(J, g, i)]
           S == {d \in Nat : d <= N - v => \E g : Reads(g, d)}
<1>0. N \in Nat /\ v \in 1..N
  OBVIOUS
<1>1. 0 \in S
  <2> DEFINE g == [i \in (N - 0)..N |-> Failed]
  <2>1. At(J, N) = NUL
    BY DEF At
  <2>2. ReadAt(J, g, N) = Failed
    BY <2>1, ReadCases
  <2>3. Reads(g, 0)
    <3> HIDE DEF N
    <3>1. (N - 0)..N = {N}
      BY <1>0
    <3> QED BY <2>2, <3>1
  <2> HIDE DEF g, Reads
  <2> QED BY <2>3
<1>2. ASSUME NEW d \in Nat, d \in S PROVE d + 1 \in S
  <2> SUFFICES ASSUME d + 1 <= N - v PROVE \E g : Reads(g, d + 1)
    OBVIOUS
  <2>1. PICK g : Reads(g, d)
    BY <1>0, <1>2
  <2> DEFINE lo == N - (d + 1)
             h == [i \in lo..N |-> IF i = lo THEN ReadAt(J, g, lo) ELSE g[i]]
  <2>2. lo \in Nat /\ lo >= v /\ lo < N /\ N - d = lo + 1
    BY <1>0
  <2>3. \A i \in (lo + 1)..N : h[i] = g[i] /\ g[i] = ReadAt(J, g, i)
    <3> HIDE DEF N, lo
    <3> SUFFICES ASSUME NEW i \in (lo + 1)..N PROVE h[i] = g[i] /\ g[i] = ReadAt(J, g, i)
      OBVIOUS
    <3>1. i \in (N - d)..N /\ i \in lo..N /\ i # lo
      BY <1>0, <2>2
    <3>2. g[i] = ReadAt(J, g, i)
      BY <2>1, <3>1
    <3> QED BY <3>1, <3>2
  <2>4. ASSUME NEW i \in lo..N PROVE h[i] = ReadAt(J, h, i)
    <3>1. i \in Nat /\ i + 1 \in Nat /\ i + 2 \in Nat
      BY <1>0, <2>2
    <3>2. i + 1 <= N => g[i + 1] = h[i + 1]
      <4> HIDE DEF N, lo, h
      <4> QED BY <1>0, <2>2, <2>3, <3>1
    <3>3. i + 2 <= N => g[i + 2] = h[i + 2]
      <4> HIDE DEF N, lo, h
      <4> QED BY <1>0, <2>2, <2>3, <3>1
    <3>4. ReadAt(J, g, i) = ReadAt(J, h, i)
      <4> HIDE DEF h
      <4> QED BY <3>1, <3>2, <3>3, ReadAhead
    <3>5. h[i] = ReadAt(J, g, i)
      <4>1. CASE i = lo
        BY <1>0, <2>2, <4>1
      <4>2. CASE i # lo
        <5> HIDE DEF h
        <5> QED BY <1>0, <2>2, <2>3, <4>2
      <4> QED BY <4>1, <4>2
    <3> QED BY <3>4, <3>5
  <2>5. Reads(h, d + 1)
    <3> HIDE DEF N
    <3> QED BY <2>4
  <2> HIDE DEF Reads, h
  <2> QED BY <2>5
<1> HIDE DEF S
<1>3. Nat \subseteq S
  BY <1>1, <1>2, Induction
<1>4. N - v \in S
  BY <1>0, <1>3
<1>5. \E g : Reads(g, N - v)
  <2> HIDE DEF Reads
  <2> QED BY <1>0, <1>4 DEF S
<1> DEFINE Is(g) == g = [i \in v..N |-> ReadAt(J, g, i)]
           from == CHOOSE g : Is(g)
<1>6. \E g : Is(g)
  <2>1. N - (N - v) = v
    BY <1>0
  <2> QED BY <1>5, <2>1
<1>7. Is(from)
  <2> HIDE DEF Is
  <2> QED BY <1>6
<1>8. string_at(J, v) = from[v]
  BY DEF string_at, ReadAt
<1>9. \A i \in v..N : from[i] = ReadAt(J, from, i)
  <2> HIDE DEF from
  <2> QED BY <1>7
<1> HIDE DEF from
<1> QED BY <1>8, <1>9

\* The ends of a text that are all of it and nothing of it.
LEMMA WholeSeq ==
  ASSUME NEW C, NEW s \in Seq(C)
  PROVE  SubSeq(s, 1, Len(s)) = s /\ SubSeq(s, Len(s) + 1, Len(s)) = <<>>
OBVIOUS

\* The end of a text is a text.
LEMMA TailText ==
  ASSUME NEW C, NEW s \in Seq(C), NEW k \in 1..Len(s)
  PROVE  /\ SubSeq(s, k + 1, Len(s)) \in Seq(C)
         /\ <<s[k]>> \o SubSeq(s, k + 1, Len(s)) = SubSeq(s, k, Len(s))
OBVIOUS

\* From the opening quote on, the value is read back.
LEMMA ReadValue ==
  ASSUME NEW C, Charset(C), NEW J \in Seq(C), NEW s \in Seq(C), NEW o, NEW f, NEW at,
         Member1(J, o, f, s, at)
  PROVE  string_at(J, o + 5) = s
<1> DEFINE n == Len(s)
<1>0. /\ n \in Nat /\ n \in 0..n /\ 0 \in 0..n /\ o \in Nat /\ o >= 1 /\ at[0] = o + 4
      /\ Len(J) \in Nat /\ o + 6 <= Len(J)
  BY MemberPlaces
<1>1. /\ \A k \in 0..n : at[k] \in Nat /\ o + 4 <= at[k] /\ at[k] + 2 <= Len(J)
      /\ \A k \in 1..n : at[k] = at[k - 1] + Width1(s[k])
  BY MemberPlaces
<1>2. o + 5 \in 1..(Len(J) + 2)
  BY <1>0
<1>3. PICK from : /\ string_at(J, o + 5) = from[o + 5]
                  /\ \A i \in (o + 5)..(Len(J) + 2) : from[i] = ReadAt(J, from, i)
  BY <1>2, ReadLoop
<1> DEFINE S == {d \in Nat : d <= n => from[at[n - d] + 1] = SubSeq(s, (n - d) + 1, n)}
<1>4. 0 \in S
  <2>1. at[n] + 1 \in (o + 5)..(Len(J) + 2) /\ at[n] + 1 \in 1..Len(J)
    <3> DEFINE x == at[n]
    <3>1. n \in 0..n
      BY <1>0
    <3>2. x \in Nat /\ o + 4 <= x /\ x + 2 <= Len(J)
      BY <1>1, <3>1, Zenon
    <3>4. Len(J) \in Nat /\ o \in Nat
      BY <1>0
    <3> HIDE DEF x, n
    <3>3. x + 1 \in (o + 5)..(Len(J) + 2) /\ x + 1 \in 1..Len(J)
      BY <3>2, <3>4
    <3> QED BY <3>3 DEF x
  <2>2. J[at[n] + 1] = Quote
    BY DEF Member1
  <2>3. from[at[n] + 1] = <<>>
    BY <1>3, <2>1, <2>2, AtPlace, ReadCases
  <2>4. n - 0 = n
    BY <1>0
  <2> QED BY <2>3, <2>4, WholeSeq
<1>5. ASSUME NEW d \in Nat, d \in S PROVE d + 1 \in S
  <2> SUFFICES ASSUME d + 1 <= n PROVE from[at[n - (d + 1)] + 1] = SubSeq(s, (n - (d + 1)) + 1, n)
    OBVIOUS
  <2> DEFINE k == n - d
             a == at[k - 1]
             rest == SubSeq(s, k + 1, n)
  <2>0. k \in 1..n /\ k - 1 \in 0..n /\ k \in 0..n /\ n - (d + 1) = k - 1 /\ (n - (d + 1)) + 1 = k
    BY <1>0
  <2>1. from[at[k] + 1] = rest
    BY <1>0, <1>5
  <2>2. a \in Nat /\ o + 4 <= a /\ at[k] \in Nat /\ at[k] + 2 <= Len(J) /\ at[k] = a + Width1(s[k])
    BY <1>1, <2>0
  <2>3. Piece(J, a, s[k])
    BY <2>0 DEF Member1, Escaped
  <2>4. s[k] \in C /\ rest \in Seq(C) /\ <<s[k]>> \o rest = SubSeq(s, k, n)
    <3> HIDE DEF k
    <3>1. s[k] \in C
      BY <2>0
    <3>2. Len(s) \in Nat /\ k \in 1..Len(s)
      BY <2>0
    <3>3. SubSeq(s, k + 1, Len(s)) \in Seq(C)
      BY <3>2, TailText
    <3>4. <<s[k]>> \o SubSeq(s, k + 1, Len(s)) = SubSeq(s, k, Len(s))
      BY <3>2, TailText
    <3> QED BY <3>1, <3>3, <3>4
  <2>5. Prefixed(s[k], rest) = SubSeq(s, k, n)
    BY <2>4, TextNotFailed DEF Prefixed
  <2> HIDE DEF k, a, rest
  <2>6. from[a + 1] = ReadAt(J, from, a + 1)
    <3>1. a + 1 \in (o + 5)..(Len(J) + 2)
      BY <1>0, <2>2 DEF Width1
    <3> QED BY <1>3, <3>1
  <2>7. CASE s[k] \in Special
    <3>1. at[k] = a + 2
      BY <2>2, <2>7 DEF Width1
    <3>2. a + 1 \in 1..Len(J) /\ a + 2 \in 1..Len(J) /\ (a + 1) + 1 = a + 2
          /\ (a + 1) + 2 = at[k] + 1
      BY <1>0, <2>2, <3>1
    <3>3. J[a + 1] = Backslash /\ J[a + 2] = Code(s[k])
      BY <2>3, <2>7 DEF Piece
    <3>4. Code(s[k]) # NUL /\ unescape(Code(s[k])) = s[k]
      BY <2>4, <2>7, EscapeCases DEF Charset
    <3>5. At(J, a + 1) = Backslash /\ At(J, (a + 1) + 1) = Code(s[k])
      BY <3>2, <3>3, AtPlace
    <3>6. ReadAt(J, from, a + 1) = Prefixed(unescape(At(J, (a + 1) + 1)), from[(a + 1) + 2])
      BY <3>4, <3>5, ReadCases
    <3>7. ReadAt(J, from, a + 1) = Prefixed(s[k], rest)
      BY <2>1, <3>2, <3>4, <3>5, <3>6
    <3> QED BY <2>0, <2>5, <2>6, <3>7 DEF k, a
  <2>8. CASE s[k] \notin Special
    <3>1. at[k] = a + 1
      BY <2>2, <2>8 DEF Width1
    <3>2. a + 1 \in 1..Len(J) /\ (a + 1) + 1 = at[k] + 1
      BY <1>0, <2>2, <3>1
    <3>3. J[a + 1] = s[k]
      BY <2>3, <2>8 DEF Piece
    <3>4. s[k] \notin {Quote, NUL, Backslash}
      BY <2>4, <2>8 DEF Charset, Special
    <3>5. At(J, a + 1) = s[k]
      BY <3>2, <3>3, AtPlace
    <3>6. ReadAt(J, from, a + 1) = Prefixed(s[k], from[(a + 1) + 1])
      BY <3>4, <3>5, ReadCases
    <3>7. ReadAt(J, from, a + 1) = Prefixed(s[k], rest)
      BY <2>1, <3>2, <3>6
    <3> QED BY <2>0, <2>5, <2>6, <3>7 DEF k, a
  <2> QED BY <2>7, <2>8
<1> HIDE DEF S
<1>6. Nat \subseteq S
  BY <1>4, <1>5, Induction
<1>7. from[at[n - n] + 1] = SubSeq(s, (n - n) + 1, n)
  BY <1>0, <1>6 DEF S
<1>8. n - n = 0 /\ at[0] + 1 = o + 5
  BY <1>0
<1>9. from[o + 5] = SubSeq(s, 0 + 1, n) /\ 0 + 1 = 1
  BY <1>7, <1>8
<1>10. SubSeq(s, 1, n) = s
  BY WholeSeq
<1> QED BY <1>3, <1>9, <1>10

\* json_extract_string gives the value of the first member with that key back.
LEMMA ReadMember ==
  ASSUME NEW C, Charset(C), NEW J \in Seq(C), NEW s \in Seq(C), NEW o, NEW f, NEW at,
         Member1(J, o, f, s, at), \A p \in 1..(o - 1) : ~IsKey(J, p, <<f>>)
  PROVE  json_extract_string(J, <<f>>, Len(J)) = s
<1>1. o \in Nat /\ o + 5 # 0
  BY MemberPlaces
<1>2. find_value_start(J, <<f>>) = o + 5
  BY FindValue
<1>3. string_at(J, o + 5) = s /\ s # Failed
  BY ReadValue, TextNotFailed
<1>4. ~(Len(s) + 1 > Len(J))
  <2> DEFINE n == Len(s)
  <2>1. n \in Nat /\ n \in 0..n /\ o \in Nat /\ at[n] \in Nat /\ at[n] + 2 <= Len(J)
    BY MemberPlaces
  <2>2. Stops(s, o + 4, at)
    BY DEF Member1
  <2>3. (o + 4) + n <= at[n]
    BY <2>1, <2>2, StopsIncrease
  <2> QED BY <2>1, <2>3
<1> QED BY <1>1, <1>2, <1>3, <1>4 DEF json_extract_string

-----------------------------------------------------------------------------
(* The claim request.                                                      *)

Opening(f) == <<"{", Quote, f, Quote, ":", Quote>>
Between(f) == <<Quote, ",", Quote, f, Quote, ":", Quote>>
Closing == <<Quote, "}">>

\* The text w of C spells these characters.
Spells2(w, C, a, b) == w \in Seq(C) /\ Len(w) = 2 /\ w[1] = a /\ w[2] = b
Spells6(w, C, a, b, c, d, e, f) ==
  /\ w \in Seq(C) /\ Len(w) = 6
  /\ w[1] = a /\ w[2] = b /\ w[3] = c /\ w[4] = d /\ w[5] = e /\ w[6] = f
Spells7(w, C, a, b, c, d, e, f, g) ==
  /\ w \in Seq(C) /\ Len(w) = 7
  /\ w[1] = a /\ w[2] = b /\ w[3] = c /\ w[4] = d /\ w[5] = e /\ w[6] = f /\ w[7] = g

\* Texts of two, six and seven characters.
LEMMA Spelling ==
  ASSUME NEW C, NEW a \in C, NEW b \in C, NEW c \in C, NEW d \in C, NEW e \in C, NEW f \in C,
         NEW g \in C
  PROVE  /\ Spells2(<<a, b>>, C, a, b)
         /\ Spells6(<<a, b, c, d, e, f>>, C, a, b, c, d, e, f)
         /\ Spells7(<<a, b, c, d, e, f, g>>, C, a, b, c, d, e, f, g)
<1>1. Spells2(<<a, b>>, C, a, b)
  BY DEF Spells2
<1>2. Spells6(<<a, b, c, d, e, f>>, C, a, b, c, d, e, f)
  BY DEF Spells6
<1>3. Spells7(<<a, b, c, d, e, f, g>>, C, a, b, c, d, e, f, g)
  BY DEF Spells7
<1> QED BY <1>1, <1>2, <1>3

\* The fixed texts around the values of the request.
LEMMA Pieces ==
  ASSUME NEW C, Charset(C), NEW f \in C
  PROVE  /\ Spells6(Opening(f), C, "{", Quote, f, Quote, ":", Quote)
         /\ Spells7(Between(f), C, Quote, ",", Quote, f, Quote, ":", Quote)
         /\ Spells2(Closing, C, Quote, "}")
<1>1. /\ Quote \in C /\ "{" \in C /\ "}" \in C /\ ":" \in C /\ "," \in C
  BY DEF Charset, Syntax
<1>2. Spells6(Opening(f), C, "{", Quote, f, Quote, ":", Quote)
  BY <1>1, Spelling, Zenon DEF Opening
<1>3. Spells7(Between(f), C, Quote, ",", Quote, f, Quote, ":", Quote)
  BY <1>1, Spelling, Zenon DEF Between
<1>4. Spells2(Closing, C, Quote, "}")
  BY <1>1, Spelling, Zenon DEF Closing
<1> QED BY <1>2, <1>3, <1>4

\* Three members behind each other.
Request(C, r, t, i, c, a1, a2, a3) ==
  /\ r \in Seq(C) /\ Len(r) = a3[Len(c)] + 2 /\ r[1] = "{"
  /\ Member1(r, 2, "t", t, a1)
  /\ Member1(r, a1[Len(t)] + 3, "i", i, a2)
  /\ Member1(r, a2[Len(i)] + 3, "c", c, a3)

\* claim_build_request writes the three members behind each other, or refuses,
\* exactly when they do not fit.
LEMMA ClaimLayout ==
  ASSUME NEW C, Charset(C), NEW t \in Seq(C), NEW i \in Seq(C), NEW c \in Seq(C), NEW cap \in Nat,
         NEW a1, Stops(t, 6, a1), NEW a2, Stops(i, a1[Len(t)] + 7, a2),
         NEW a3, Stops(c, a2[Len(i)] + 7, a3)
  PROVE  IF a3[Len(c)] + 2 >= cap THEN claim_build_request(t, i, c, cap) = Failed
         ELSE Request(C, claim_build_request(t, i, c, cap), t, i, c, a1, a2, a3)
<1> DEFINE b1 == a1[Len(t)]
           b2 == a2[Len(i)]
           b3 == a3[Len(c)]
           w2 == append_escaped(append_raw(<<>>, cap, Opening("t")), cap, t)
           w4 == append_escaped(append_raw(w2, cap, Between("i")), cap, i)
           w6 == append_escaped(append_raw(w4, cap, Between("c")), cap, c)
           r == append_raw(w6, cap, Closing)
<1>0. claim_build_request(t, i, c, cap) = r
  BY DEF claim_build_request, Opening, Between, Closing
<1>10. /\ Spells6(Opening("t"), C, "{", Quote, "t", Quote, ":", Quote)
       /\ Spells7(Between("i"), C, Quote, ",", Quote, "i", Quote, ":", Quote)
       /\ Spells7(Between("c"), C, Quote, ",", Quote, "c", Quote, ":", Quote)
       /\ Spells2(Closing, C, Quote, "}")
  <2>1. "t" \in C /\ "i" \in C /\ "c" \in C
    BY DEF Charset, Syntax
  <2> QED BY <2>1, Pieces, Zenon
<1>1. /\ Opening("t") \in Seq(C) /\ Len(Opening("t")) = 6 /\ <<>> \in Seq(C) /\ Len(<<>>) = 0
      /\ Between("i") \in Seq(C) /\ Len(Between("i")) = 7
      /\ Between("c") \in Seq(C) /\ Len(Between("c")) = 7
      /\ Closing \in Seq(C) /\ Len(Closing) = 2
  <2>2. <<>> \in Seq(C) /\ Len(<<>>) = 0
    OBVIOUS
  <2> QED BY <1>10, <2>2, Zenon DEF Spells2, Spells6, Spells7
<1>2. b1 \in Nat /\ b2 \in Nat /\ b3 \in Nat /\ 6 <= b1 /\ b1 + 7 <= b2 /\ b2 + 7 <= b3
  <2>1. Len(t) \in Nat /\ Len(i) \in Nat /\ Len(c) \in Nat
    OBVIOUS
  <2>2. b1 \in Nat /\ 6 + Len(t) <= b1
    <3>0. Len(t) \in 0..Len(t) /\ a1 \in [0..Len(t) -> Nat]
      BY <2>1 DEF Stops
    <3>1. b1 \in Nat
      BY <3>0
    <3> QED BY <2>1, <3>1, StopsIncrease
  <2>3. b2 \in Nat /\ (b1 + 7) + Len(i) <= b2
    <3>0. Len(i) \in 0..Len(i) /\ a2 \in [0..Len(i) -> Nat]
      BY <2>1 DEF Stops
    <3>1. b2 \in Nat
      BY <3>0
    <3>2. b1 + 7 \in Nat
      BY <2>2
    <3> QED BY <2>1, <3>1, <3>2, StopsIncrease
  <2>4. b3 \in Nat /\ (b2 + 7) + Len(c) <= b3
    <3>0. Len(c) \in 0..Len(c) /\ a3 \in [0..Len(c) -> Nat]
      BY <2>1 DEF Stops
    <3>1. b3 \in Nat
      BY <3>0
    <3>2. b2 + 7 \in Nat
      BY <2>3
    <3> QED BY <2>1, <3>1, <3>2, StopsIncrease
  <2> HIDE DEF b1, b2, b3
  <2> QED BY <2>1, <2>2, <2>3, <2>4
<1>3. IF b1 >= cap THEN w2 = Failed ELSE Wrote(C, w2, <<>>, Opening("t"), t, a1)
  <2>1. Stops(t, Len(<<>>) + Len(Opening("t")), a1)
    <3>1. Len(<<>>) + Len(Opening("t")) = 6
      BY <1>1
    <3> QED BY <3>1
  <2> QED BY <1>1, <2>1, AppendField
<1> HIDE DEF w2
<1>4. IF b2 >= cap THEN w4 = Failed ELSE Wrote(C, w4, w2, Between("i"), i, a2) /\ b1 < cap
  <2>1. CASE b1 >= cap
    <3>1. w2 = Failed
      BY <1>3, <2>1
    <3>2. append_raw(w2, cap, Between("i")) = Failed
      BY <3>1 DEF append_raw
    <3>3. w4 = Failed
      BY <3>2, AppendToFailed
    <3>4. b2 >= cap
      BY <1>2, <2>1
    <3> QED BY <3>3, <3>4
  <2>2. CASE ~(b1 >= cap)
    <3>1. w2 \in Seq(C) /\ Len(w2) = b1
      BY <1>3, <2>2 DEF Wrote
    <3>2. Stops(i, Len(w2) + Len(Between("i")), a2)
      BY <1>1, <3>1
    <3>3. IF b2 >= cap THEN w4 = Failed ELSE Wrote(C, w4, w2, Between("i"), i, a2)
      BY <1>1, <3>1, <3>2, AppendField
    <3>4. b1 < cap
      BY <1>2, <2>2
    <3> QED BY <3>3, <3>4
  <2> QED BY <2>1, <2>2
<1> HIDE DEF w4
<1>5. IF b3 >= cap THEN w6 = Failed
      ELSE Wrote(C, w6, w4, Between("c"), c, a3) /\ b2 < cap
  <2>1. CASE b2 >= cap
    <3>1. w4 = Failed
      BY <1>4, <2>1
    <3>2. append_raw(w4, cap, Between("c")) = Failed
      BY <3>1 DEF append_raw
    <3>3. w6 = Failed
      BY <3>2, AppendToFailed
    <3>4. b3 >= cap
      BY <1>2, <2>1
    <3> QED BY <3>3, <3>4
  <2>2. CASE ~(b2 >= cap)
    <3>1. w4 \in Seq(C) /\ Len(w4) = b2
      BY <1>4, <2>2 DEF Wrote
    <3>2. Stops(c, Len(w4) + Len(Between("c")), a3)
      BY <1>1, <3>1
    <3>3. IF b3 >= cap THEN w6 = Failed ELSE Wrote(C, w6, w4, Between("c"), c, a3)
      BY <1>1, <3>1, <3>2, AppendField
    <3>4. b2 < cap
      BY <1>2, <2>2
    <3> QED BY <3>3, <3>4
  <2> QED BY <2>1, <2>2
<1> HIDE DEF w6
<1>6. CASE b3 >= cap
  <2>1. r = Failed
    BY <1>5, <1>6 DEF append_raw
  <2>2. b3 + 2 >= cap
    BY <1>2, <1>6
  <2> QED BY <1>0, <2>1, <2>2
<1>7. CASE ~(b3 >= cap) /\ b3 + 2 >= cap
  <2>1. w6 \in Seq(C) /\ Len(w6) = b3
    BY <1>5, <1>7 DEF Wrote
  <2>2. r = Failed
    BY <1>1, <1>7, <2>1, AppendRaw
  <2> QED BY <1>0, <1>7, <2>2
<1>8. CASE ~(b3 + 2 >= cap)
  <2>0. ~(b3 >= cap) /\ ~(b2 >= cap) /\ ~(b1 >= cap)
    <3> HIDE DEF b1, b2, b3
    <3> QED BY <1>2, <1>8
  <2>1. Wrote(C, w2, <<>>, Opening("t"), t, a1)
    BY <1>3, <2>0
  <2>2. Wrote(C, w4, w2, Between("i"), i, a2)
    BY <1>4, <2>0
  <2>3. Wrote(C, w6, w4, Between("c"), c, a3)
    BY <1>5, <2>0
  <2>4. w6 \in Seq(C) /\ Len(w6) = b3 /\ Len(w4) = b2 /\ Len(w2) = b1
    BY <2>1, <2>2, <2>3 DEF Wrote
  <2>5. r \in Seq(C) /\ Joined(r, w6, Closing)
    BY <1>1, <1>8, <2>4, AppendRaw
  <2> HIDE DEF r, b1, b2, b3
  <2>6. /\ Len(r) = b3 + 2 /\ r[b3 + 1] = Quote /\ r[b3 + 2] = "}"
        /\ \A k \in 1..b3 : r[k] = w6[k]
    <3>1. Closing[1] = Quote /\ Closing[2] = "}" 
      BY <1>10, Zenon DEF Spells2
    <3>2. Joined(r, w6, Closing) /\ Len(w6) = b3 /\ Len(Closing) = 2
      BY <1>1, <2>4, <2>5
    <3>3. /\ Len(r) = b3 + 2 /\ \A k \in 1..b3 : r[k] = w6[k]
          /\ \A k \in 1..2 : r[b3 + k] = Closing[k]
      BY <3>2 DEF Joined
    <3>4. r[b3 + 1] = Closing[1] /\ r[b3 + 2] = Closing[2]
      BY <3>3
    <3> QED BY <3>1, <3>3, <3>4, Zenon
  <2>7. \A k \in 1..b2 : r[k] = w4[k]
    <3> SUFFICES ASSUME NEW k \in 1..b2 PROVE r[k] = w4[k]
      OBVIOUS
    <3>1. k \in 1..b3
      BY <1>2
    <3> QED BY <2>3, <2>4, <2>6, <3>1 DEF Wrote
  <2>8. \A k \in 1..b1 : r[k] = w2[k]
    <3> SUFFICES ASSUME NEW k \in 1..b1 PROVE r[k] = w2[k]
      OBVIOUS
    <3>1. k \in 1..b2
      BY <1>2
    <3> QED BY <2>2, <2>4, <2>7, <3>1 DEF Wrote
  <2>14. \A k \in 1..6 : w2[k] = Opening("t")[k]
    <3> DEFINE h == Opening("t")
               e == <<>>
    <3>1. Len(h) = 6 /\ Len(e) = 0 /\ \A k \in 1..Len(h) : w2[Len(e) + k] = h[k]
      BY <1>1, <2>1, Zenon DEF Wrote
    <3> HIDE DEF h, e
    <3>2. \A k \in 1..6 : 0 + k = k
      OBVIOUS
    <3>3. \A k \in 1..6 : w2[k] = h[k]
      BY <3>1, <3>2
    <3> QED BY <3>3 DEF h
  <2>9. Member1(r, 2, "t", t, a1)
    <3>1. Stops(t, 2 + 4, a1)
      <4>1. 2 + 4 = 6
        OBVIOUS
      <4> QED BY <4>1
    <3>2. a1[Len(t)] + 2 <= Len(r)
      <4>1. b1 + 2 <= Len(r)
        <5>1. Len(r) = b3 + 2
          BY <2>6
        <5> QED BY <1>2, <5>1
      <4> QED BY <4>1 DEF b1
    <3>3. /\ r[2] = Quote /\ r[2 + 1] = "t" /\ r[2 + 2] = Quote
          /\ r[2 + 3] = ":" /\ r[2 + 4] = Quote
      <4>1. \A k \in 1..6 : w2[k] = Opening("t")[k]
        BY <2>14
      <4>2. \A k \in 1..6 : r[k] = Opening("t")[k]
        BY <1>2, <2>8, <4>1
      <4>3. /\ r[2] = Opening("t")[2] /\ r[2 + 1] = Opening("t")[3] /\ r[2 + 2] = Opening("t")[4]
            /\ r[2 + 3] = Opening("t")[5] /\ r[2 + 4] = Opening("t")[6]
        BY <4>2
      <4> QED BY <1>10, <4>3, Zenon DEF Spells6
    <3>4. Escaped(r, t, a1)
      <4>1. Escaped(w2, t, a1)
        BY <2>1 DEF Wrote
      <4>2. \A k \in (6 + 1)..a1[Len(t)] : r[k] = w2[k]
        BY <1>2, <2>8 DEF b1
      <4> QED BY <4>1, <4>2, EscapedStays
    <3>5. r[a1[Len(t)] + 1] = Quote /\ r[a1[Len(t)] + 2] \in {",", "}"}
      <4>1. \A k \in 1..7 : w4[b1 + k] = Between("i")[k]
        BY <1>1, <2>2, <2>4 DEF Wrote
      <4>2. r[b1 + 1] = w4[b1 + 1] /\ r[b1 + 2] = w4[b1 + 2]
        BY <1>2, <2>7
      <4>3. Between("i")[1] = Quote /\ Between("i")[2] = ","
        BY <1>10, Zenon DEF Spells7
      <4>5. r[b1 + 1] = Between("i")[1] /\ r[b1 + 2] = Between("i")[2]
        BY <4>1, <4>2
      <4>4. r[b1 + 1] = Quote /\ r[b1 + 2] = ","
        BY <4>3, <4>5, Zenon
      <4> QED BY <4>4 DEF b1
    <3> QED BY <3>1, <3>2, <3>3, <3>4, <3>5 DEF Member1
  <2>10. Member1(r, b1 + 3, "i", i, a2)
    <3>0. b1 + 3 \in Nat \ {0} /\ (b1 + 3) + 4 = b1 + 7
      BY <1>2
    <3>1. Stops(i, (b1 + 3) + 4, a2)
      BY <3>0 DEF b1
    <3>2. a2[Len(i)] + 2 <= Len(r)
      <4>1. b2 + 2 <= Len(r)
        <5>1. Len(r) = b3 + 2
          BY <2>6
        <5> QED BY <1>2, <5>1
      <4> QED BY <4>1 DEF b2
    <3>3. /\ r[b1 + 3] = Quote /\ r[(b1 + 3) + 1] = "i" /\ r[(b1 + 3) + 2] = Quote
          /\ r[(b1 + 3) + 3] = ":" /\ r[(b1 + 3) + 4] = Quote
      <4>1. \A k \in 1..7 : w4[b1 + k] = Between("i")[k]
        BY <1>1, <2>2, <2>4 DEF Wrote
      <4>2. \A k \in 1..7 : r[b1 + k] = Between("i")[k]
        <5>1. \A k \in 1..7 : b1 + k \in 1..b2
          BY <1>2
        <5> QED BY <2>7, <4>1, <5>1
      <4>5. /\ r[b1 + 3] = Between("i")[3] /\ r[b1 + 4] = Between("i")[4]
            /\ r[b1 + 5] = Between("i")[5] /\ r[b1 + 6] = Between("i")[6]
            /\ r[b1 + 7] = Between("i")[7]
        BY <4>2
      <4>3. /\ r[b1 + 3] = Quote /\ r[b1 + 4] = "i" /\ r[b1 + 5] = Quote
            /\ r[b1 + 6] = ":" /\ r[b1 + 7] = Quote
        BY <1>10, <4>5, Zenon DEF Spells7
      <4>4. (b1 + 3) + 1 = b1 + 4 /\ (b1 + 3) + 2 = b1 + 5 /\ (b1 + 3) + 3 = b1 + 6
            /\ (b1 + 3) + 4 = b1 + 7
        BY <1>2
      <4> QED BY <4>3, <4>4
    <3>4. Escaped(r, i, a2)
      <4>1. Escaped(w4, i, a2)
        BY <2>2 DEF Wrote
      <4>2. \A k \in ((b1 + 7) + 1)..a2[Len(i)] : r[k] = w4[k]
        BY <1>2, <2>7 DEF b2
      <4>3. b1 + 7 \in Nat /\ Stops(i, b1 + 7, a2)
        BY <1>2 DEF b1
      <4> QED BY <4>1, <4>2, <4>3, EscapedStays
    <3>5. r[a2[Len(i)] + 1] = Quote /\ r[a2[Len(i)] + 2] \in {",", "}"}
      <4>1. \A k \in 1..7 : w6[b2 + k] = Between("c")[k]
        BY <1>1, <2>3, <2>4 DEF Wrote
      <4>2. r[b2 + 1] = w6[b2 + 1] /\ r[b2 + 2] = w6[b2 + 2]
        <5>1. b2 + 1 \in 1..b3 /\ b2 + 2 \in 1..b3
          BY <1>2
        <5> QED BY <2>6, <5>1
      <4>3. Between("c")[1] = Quote /\ Between("c")[2] = ","
        BY <1>10, Zenon DEF Spells7
      <4>5. r[b2 + 1] = Between("c")[1] /\ r[b2 + 2] = Between("c")[2]
        BY <4>1, <4>2
      <4>4. r[b2 + 1] = Quote /\ r[b2 + 2] = ","
        BY <4>3, <4>5, Zenon
      <4> QED BY <4>4 DEF b2
    <3> QED BY <3>0, <3>1, <3>2, <3>3, <3>4, <3>5 DEF Member1
  <2>11. Member1(r, b2 + 3, "c", c, a3)
    <3>0. b2 + 3 \in Nat \ {0} /\ (b2 + 3) + 4 = b2 + 7
      BY <1>2
    <3>1. Stops(c, (b2 + 3) + 4, a3)
      BY <3>0 DEF b2
    <3>2. a3[Len(c)] + 2 <= Len(r)
      <4>1. b3 + 2 <= Len(r)
        <5>1. Len(r) = b3 + 2
          BY <2>6
        <5> QED BY <1>2, <5>1
      <4> QED BY <4>1 DEF b3
    <3>3. /\ r[b2 + 3] = Quote /\ r[(b2 + 3) + 1] = "c" /\ r[(b2 + 3) + 2] = Quote
          /\ r[(b2 + 3) + 3] = ":" /\ r[(b2 + 3) + 4] = Quote
      <4>1. \A k \in 1..7 : w6[b2 + k] = Between("c")[k]
        BY <1>1, <2>3, <2>4 DEF Wrote
      <4>2. \A k \in 1..7 : r[b2 + k] = Between("c")[k]
        <5>1. \A k \in 1..7 : b2 + k \in 1..b3
          BY <1>2
        <5> QED BY <2>6, <4>1, <5>1
      <4>5. /\ r[b2 + 3] = Between("c")[3] /\ r[b2 + 4] = Between("c")[4]
            /\ r[b2 + 5] = Between("c")[5] /\ r[b2 + 6] = Between("c")[6]
            /\ r[b2 + 7] = Between("c")[7]
        BY <4>2
      <4>3. /\ r[b2 + 3] = Quote /\ r[b2 + 4] = "c" /\ r[b2 + 5] = Quote
            /\ r[b2 + 6] = ":" /\ r[b2 + 7] = Quote
        BY <1>10, <4>5, Zenon DEF Spells7
      <4>4. (b2 + 3) + 1 = b2 + 4 /\ (b2 + 3) + 2 = b2 + 5 /\ (b2 + 3) + 3 = b2 + 6
            /\ (b2 + 3) + 4 = b2 + 7
        BY <1>2
      <4> QED BY <4>3, <4>4
    <3>4. Escaped(r, c, a3)
      <4>1. Escaped(w6, c, a3)
        BY <2>3 DEF Wrote
      <4>2. \A k \in ((b2 + 7) + 1)..a3[Len(c)] : r[k] = w6[k]
        <5>1. \A k \in ((b2 + 7) + 1)..b3 : k \in 1..b3
          BY <1>2
        <5> QED BY <2>6, <5>1 DEF b3
      <4>3. b2 + 7 \in Nat /\ Stops(c, b2 + 7, a3)
        BY <1>2 DEF b2
      <4> QED BY <4>1, <4>2, <4>3, EscapedStays
    <3>5. r[a3[Len(c)] + 1] = Quote /\ r[a3[Len(c)] + 2] \in {",", "}"}
      BY <2>6 DEF b3
    <3> QED BY <3>0, <3>1, <3>2, <3>3, <3>4, <3>5 DEF Member1
  <2>12. r[1] = "{"
    <3>1. \A k \in 1..6 : w2[k] = Opening("t")[k]
      BY <2>14
    <3>2. r[1] = w2[1]
      BY <1>2, <2>8
    <3>3. r[1] = Opening("t")[1]
      BY <3>1, <3>2
    <3> QED BY <1>10, <3>3, Zenon DEF Spells6
  <2>13. Request(C, r, t, i, c, a1, a2, a3)
    BY <2>5, <2>6, <2>9, <2>10, <2>11, <2>12 DEF Request, b1, b2, b3
  <2> QED BY <1>0, <1>8, <2>13 DEF b3
<1> QED BY <1>6, <1>7, <1>8

\* What escaping adds to the length of a text.
Escapes(s) == Cardinality({j \in DOMAIN s : s[j] \in Special})

\* The last stop is behind the text and its escapes.
LEMMA EscapesCount ==
  ASSUME NEW C, NEW s \in Seq(C), NEW p \in Nat, NEW at, Stops(s, p, at)
  PROVE  Escapes(s) \in Nat /\ at[Len(s)] = p + Len(s) + Escapes(s)
<1> DEFINE n == Len(s)
           E(k) == {j \in 1..k : s[j] \in Special}
           S == {k \in Nat : k <= n => /\ IsFiniteSet(E(k)) /\ Cardinality(E(k)) \in Nat
                                       /\ at[k] = p + k + Cardinality(E(k))}
<1>0. n \in Nat /\ DOMAIN s = 1..n
  OBVIOUS
<1>1. /\ at[0] = p /\ \A k \in 0..n : at[k] \in Nat
      /\ \A k \in 1..n : at[k] = at[k - 1] + Width1(s[k])
  BY <1>0 DEF Stops
<1>2. 0 \in S
  <2>1. E(0) = {}
    OBVIOUS
  <2>2. IsFiniteSet({}) /\ Cardinality({}) = 0
    BY FS_EmptySet
  <2>3. at[0] = p + 0 + 0
    BY <1>1
  <2> QED BY <2>1, <2>2, <2>3
<1>3. ASSUME NEW k \in Nat, k \in S PROVE k + 1 \in S
  <2> SUFFICES ASSUME k + 1 <= n
               PROVE  /\ IsFiniteSet(E(k + 1)) /\ Cardinality(E(k + 1)) \in Nat
                      /\ at[k + 1] = p + (k + 1) + Cardinality(E(k + 1))
    OBVIOUS
  <2>1. /\ IsFiniteSet(E(k)) /\ Cardinality(E(k)) \in Nat /\ at[k] = p + k + Cardinality(E(k))
    BY <1>0, <1>3
  <2>2. at[k + 1] = at[k] + Width1(s[k + 1])
    <3>1. k + 1 \in 1..n /\ (k + 1) - 1 = k
      BY <1>0
    <3> QED BY <1>1, <3>1
  <2>3. CASE s[k + 1] \in Special
    <3>1. E(k + 1) = E(k) \cup {k + 1} /\ k + 1 \notin E(k)
      BY <2>3
    <3> HIDE DEF E
    <3>2. IsFiniteSet(E(k + 1)) /\ Cardinality(E(k + 1)) = Cardinality(E(k)) + 1
      BY <2>1, <3>1, FS_AddElement
    <3>3. Width1(s[k + 1]) = 2
      BY <2>3 DEF Width1
    <3> QED BY <2>1, <2>2, <3>2, <3>3
  <2>4. CASE s[k + 1] \notin Special
    <3>1. E(k + 1) = E(k)
      BY <2>4
    <3> HIDE DEF E
    <3>3. Width1(s[k + 1]) = 1
      BY <2>4 DEF Width1
    <3> QED BY <2>1, <2>2, <3>1, <3>3
  <2> QED BY <2>3, <2>4
<1> HIDE DEF S
<1>4. Nat \subseteq S
  BY <1>2, <1>3, Induction
<1>5. Cardinality(E(n)) \in Nat /\ at[n] = p + n + Cardinality(E(n))
  <2>1. n \in S /\ n <= n
    BY <1>0, <1>4
  <2> HIDE DEF E, n
  <2> QED BY <2>1 DEF S
<1>6. Escapes(s) = Cardinality(E(n))
  BY <1>0 DEF Escapes
<1> QED BY <1>5, <1>6

\* In a request none of the keys stands before its own member, whatever the values
\* are, so each of them is read back.
LEMMA ReadRequest ==
  ASSUME NEW C, Charset(C), NEW t \in Seq(C), NEW i \in Seq(C), NEW c \in Seq(C),
         NEW r, NEW a1, NEW a2, NEW a3, Request(C, r, t, i, c, a1, a2, a3)
  PROVE  /\ json_extract_string(r, <<"t">>, Len(r)) = t
         /\ json_extract_string(r, <<"i">>, Len(r)) = i
         /\ json_extract_string(r, <<"c">>, Len(r)) = c
<1> DEFINE o2 == a1[Len(t)] + 3
           o3 == a2[Len(i)] + 3
<1>0. r \in Seq(C) /\ Len(r) \in Nat
  <2>1. r \in Seq(C)
    BY DEF Request
  <2> QED BY <2>1
<1>1. r \in Seq(C) /\ r[1] = "{"
      /\ Member1(r, 2, "t", t, a1) /\ Member1(r, o2, "i", i, a2) /\ Member1(r, o3, "c", c, a3)
  BY DEF Request
<1>2. Letter(C, "t") /\ Letter(C, "i") /\ Letter(C, "c")
  BY DEF Letter, Charset, Syntax, Quote, Backslash
<1>3. a1[Len(t)] \in Nat /\ a2[Len(i)] \in Nat /\ 6 <= Len(r)
  <2>1. a1[Len(t)] \in Nat /\ 6 <= Len(r)
    <3>1. 2 + 6 <= Len(r) /\ \A k \in 0..Len(t) : a1[k] \in Nat
      BY <1>1, MemberPlaces, Zenon
    <3>2. Len(t) \in 0..Len(t) /\ Len(r) \in Nat
      BY <1>0
    <3> QED BY <3>1, <3>2
  <2>2. a2[Len(i)] \in Nat
    <3>1. Len(i) \in 0..Len(i)
      OBVIOUS
    <3> QED BY <1>1, <3>1, MemberPlaces
  <2> QED BY <2>1, <2>2
<1>4. ASSUME NEW g PROVE ~IsKey(r, 1, <<g>>)
  <2>1. 1 \in 1..Len(r)
    BY <1>0, <1>3
  <2>2. At(r, 1) = "{"
    BY <1>1, <2>1, AtPlace
  <2>3. "{" # Quote
    BY DEF Quote
  <2> QED BY <1>1, <2>2, <2>3, OneLetterKey
<1>5. ASSUME NEW g, Letter(C, g), g # "t", NEW p \in 1..(o2 - 1) PROVE ~IsKey(r, p, <<g>>)
  <2>1. p = 1 \/ p = 2 \/ p \in (2 + 1)..(a1[Len(t)] + 2)
    BY <1>3
  <2>2. CASE p = 1
    BY <1>4, <2>2
  <2>3. CASE p = 2
    BY <1>1, <1>5, <2>3, MemberKey
  <2>4. CASE p \in (2 + 1)..(a1[Len(t)] + 2)
    BY <1>1, <1>2, <1>5, <2>4, NoOtherKey
  <2> QED BY <2>1, <2>2, <2>3, <2>4
<1>6. ASSUME NEW p \in 1..(o3 - 1) PROVE ~IsKey(r, p, <<"c">>)
  <2> DEFINE x == a1[Len(t)]
             y == a2[Len(i)]
  <2>5. x \in Nat /\ y \in Nat /\ o2 = x + 3 /\ o3 = y + 3
    BY <1>3, Zenon
  <2>0. o2 \in Nat /\ o3 \in Nat
    <3> HIDE DEF x, y, o2, o3
    <3> QED BY <2>5
  <2>1. p \in 1..(o2 - 1) \/ p = o2 \/ p \in (o2 + 1)..(a2[Len(i)] + 2)
    <3> HIDE DEF x, y, o2, o3
    <3>1. p \in 1..(o2 - 1) \/ p = o2 \/ p \in (o2 + 1)..(y + 2)
      BY <2>5
    <3> QED BY <3>1 DEF y
  <2>2. CASE p \in 1..(o2 - 1)
    BY <1>2, <1>5, <2>2
  <2> HIDE DEF o2
  <2>3. CASE p = o2
    <3>1. IsKey(r, o2, <<"c">>) <=> "c" = "i"
      BY <1>1, MemberKey, Zenon
    <3> QED BY <2>3, <3>1
  <2>4. CASE p \in (o2 + 1)..(a2[Len(i)] + 2)
    BY <1>1, <1>2, <2>4, NoOtherKey
  <2> QED BY <2>1, <2>2, <2>3, <2>4
<1>7. json_extract_string(r, <<"t">>, Len(r)) = t
  <2>1. \A p \in 1..(2 - 1) : ~IsKey(r, p, <<"t">>)
    BY <1>4
  <2> QED BY <1>1, <2>1, ReadMember
<1> HIDE DEF o2, o3
<1>8. json_extract_string(r, <<"i">>, Len(r)) = i
  <2>1. \A p \in 1..(o2 - 1) : ~IsKey(r, p, <<"i">>)
    BY <1>2, <1>5
  <2> QED BY <1>1, <2>1, ReadMember
<1>9. json_extract_string(r, <<"c">>, Len(r)) = c
  BY <1>1, <1>6, ReadMember
<1> QED BY <1>7, <1>8, <1>9

\* claim_build_request and json_extract_string on any texts: a request that does
\* not fit is refused, and only then; any other has the length of its texts and
\* their escapes and gives each of the three back.
THEOREM ClaimReadsBack ==
  ASSUME NEW C, Charset(C), NEW t \in Seq(C), NEW i \in Seq(C), NEW c \in Seq(C), NEW cap \in Nat,
         NEW r, r = claim_build_request(t, i, c, cap),
         NEW size, size = 22 + Len(t) + Len(i) + Len(c) + Escapes(t) + Escapes(i) + Escapes(c)
  PROVE  IF size >= cap THEN r = Failed
         ELSE /\ r \in Seq(C) /\ Len(r) = size
              /\ json_extract_string(r, <<"t">>, Len(r)) = t
              /\ json_extract_string(r, <<"i">>, Len(r)) = i
              /\ json_extract_string(r, <<"c">>, Len(r)) = c
<1>1. PICK a1 : Stops(t, 6, a1)
  BY StopsExist
<1>2. /\ Escapes(t) \in Nat /\ a1[Len(t)] = 6 + Len(t) + Escapes(t) /\ Len(t) \in Nat
  BY <1>1, EscapesCount
<1>3. a1[Len(t)] + 7 \in Nat
  BY <1>2
<1>4. PICK a2 : Stops(i, a1[Len(t)] + 7, a2)
  BY <1>3, StopsExist
<1>5. /\ Escapes(i) \in Nat /\ a2[Len(i)] = (a1[Len(t)] + 7) + Len(i) + Escapes(i) /\ Len(i) \in Nat
  BY <1>3, <1>4, EscapesCount
<1>6. a2[Len(i)] + 7 \in Nat
  BY <1>3, <1>5
<1>7. PICK a3 : Stops(c, a2[Len(i)] + 7, a3)
  BY <1>6, StopsExist
<1>8. /\ Escapes(c) \in Nat /\ a3[Len(c)] = (a2[Len(i)] + 7) + Len(c) + Escapes(c) /\ Len(c) \in Nat
  BY <1>6, <1>7, EscapesCount
<1>9. a3[Len(c)] + 2 = size
  <2> DEFINE b1 == a1[Len(t)]
             b2 == a2[Len(i)]
             b3 == a3[Len(c)]
             lt == Len(t)
             li == Len(i)
             lc == Len(c)
             et == Escapes(t)
             ei == Escapes(i)
             ec == Escapes(c)
  <2>1. /\ lt \in Nat /\ li \in Nat /\ lc \in Nat /\ et \in Nat /\ ei \in Nat /\ ec \in Nat
        /\ b1 = 6 + lt + et /\ b2 = (b1 + 7) + li + ei /\ b3 = (b2 + 7) + lc + ec
        /\ size = 22 + lt + li + lc + et + ei + ec
    BY <1>2, <1>5, <1>8
  <2> HIDE DEF b1, b2, b3, lt, li, lc, et, ei, ec
  <2>2. b3 + 2 = size
    BY <2>1
  <2> QED BY <2>2 DEF b3
<1>10. IF size >= cap THEN r = Failed ELSE Request(C, r, t, i, c, a1, a2, a3)
  BY <1>1, <1>4, <1>7, <1>9, ClaimLayout
<1>11. Request(C, r, t, i, c, a1, a2, a3) => r \in Seq(C) /\ Len(r) = size
  BY <1>9 DEF Request
<1>12. Request(C, r, t, i, c, a1, a2, a3) =>
         /\ json_extract_string(r, <<"t">>, Len(r)) = t
         /\ json_extract_string(r, <<"i">>, Len(r)) = i
         /\ json_extract_string(r, <<"c">>, Len(r)) = c
  BY ReadRequest
<1> QED BY <1>10, <1>11, <1>12, Zenon

-----------------------------------------------------------------------------
(* The calls of Formats.                                                   *)

\* The characters of the inputs.
Chars == Syntax \cup {"\n"}

\* They are characters of a text.
LEMMA CharsAreText == Charset(Chars)
BY DEF Charset, Chars, Syntax, NUL, Quote, Backslash

\* The inputs of the model are texts.
LEMMA UpToText ==
  ASSUME NEW n \in Nat, NEW S, NEW s \in UpTo(n, S)
  PROVE  s \in Seq(S)
BY DEF UpTo

\* A text over some characters is one over more of them.
LEMMA WiderText ==
  ASSUME NEW S, NEW C, S \subseteq C, NEW s \in Seq(S)
  PROVE  s \in Seq(C)
OBVIOUS

\* No answer with a key passes for another call.
LEMMA KeyCalls ==
  ASSUME NEW c \in Keys
  PROVE  c.op = "key"
<1>1. CASE c \in AnyDer
  BY <1>1 DEF AnyDer
<1>2. CASE c \in AnyMembers
  BY <1>2 DEF AnyMembers
<1> QED BY <1>1, <1>2 DEF Keys

\* What a call was made with and what it returned.
ClaimCalled ==
  call.op = "claim" => /\ call \in Claims
                       /\ result = claim_build_request(call.token, call.id, call.csr, call.cap)
RangeCalled ==
  call.op = "range" => call \in Ranges /\ result = ota_parse_content_range(RangeText(call))
BeatCalled ==
  call.op = "beat" =>
    /\ call \in Beats
    /\ result = ota_heartbeat_json(call.cap, <<"m">>, <<"1", ".", "0">>, "7", "true",
                                   call.detail, call.reverted)
\* What the tail of meshanics_enroll makes of an answer.
Fetched(c) == LET id == json_extract_string(Response(c), <<"k">>, KeyIdCap)
                  pem == json_extract_string(Response(c), <<"k", "p">>, PemCap)
                  pub == claim_ed25519_pub_from_pem(pem)
              IN IF id \in {Failed, <<>>} \/ pem \in {Failed, <<>>} THEN Failed
                 ELSE IF pub = Failed THEN Failed ELSE <<id, pub>>
KeyCalled == call.op = "key" => call \in Keys /\ result = Fetched(call)
CallInv == ClaimCalled /\ KeyCalled /\ RangeCalled /\ BeatCalled

\* A call that returned has returned what the code computes for its input.
LEMMA CallInvariant == Spec => []CallInv
<1>1. Init => CallInv
  BY DEF Init, CallInv, ClaimCalled, KeyCalled, RangeCalled, BeatCalled, None
<1>2. CallInv /\ [Next]_vars => CallInv'
  <2> SUFFICES ASSUME CallInv, [Next]_vars PROVE CallInv'
    OBVIOUS
  <2>1. CASE BuildClaim
    <3>1. call'.op = "claim"
      BY <2>1 DEF BuildClaim, Claims
    <3>2. ClaimCalled'
      BY <2>1, Zenon DEF BuildClaim, ClaimCalled
    <3> QED BY <3>1, <3>2, Zenon DEF CallInv, KeyCalled, RangeCalled, BeatCalled
  <2>2. CASE FetchKey
    <3>1. call'.op = "key"
      BY <2>2, KeyCalls DEF FetchKey
    <3>2. KeyCalled'
      BY <2>2, Zenon DEF FetchKey, KeyCalled, Fetched
    <3> QED BY <3>1, <3>2, Zenon DEF CallInv, ClaimCalled, RangeCalled, BeatCalled
  <2>3. CASE ParseRange
    <3>1. call'.op = "range"
      BY <2>3 DEF ParseRange, Ranges
    <3>2. RangeCalled'
      BY <2>3, Zenon DEF ParseRange, RangeCalled
    <3> QED BY <3>1, <3>2, Zenon DEF CallInv, ClaimCalled, KeyCalled, BeatCalled
  <2>4. CASE BuildHeartbeat
    <3>1. call'.op = "beat"
      BY <2>4 DEF BuildHeartbeat, Beats
    <3>2. BeatCalled'
      BY <2>4, Zenon DEF BuildHeartbeat, BeatCalled
    <3> QED BY <3>1, <3>2, Zenon DEF CallInv, ClaimCalled, KeyCalled, RangeCalled
  <2>5. CASE UNCHANGED vars
    BY <2>5, Zenon DEF vars, CallInv, ClaimCalled, KeyCalled, RangeCalled, BeatCalled
  <2> QED BY <2>1, <2>2, <2>3, <2>4, <2>5 DEF Next
<1> QED BY <1>1, <1>2, PTL DEF Spec

\* ClaimRoundTrip holds for every size of the request buffer: what claim_build_request
\* writes reads back, and it refuses only what does not fit.
THEOREM ClaimRoundTripHolds == Spec => []ClaimRoundTrip
<1>1. CallInv => ClaimRoundTrip
  <2> SUFFICES ASSUME CallInv, call.op = "claim" PROVE ClaimRoundTrip
    BY DEF ClaimRoundTrip
  <2> DEFINE t == call.token
             i == call.id
             c == call.csr
             cap == call.cap
             size == 22 + Len(t) + Len(i) + Len(c) + Escapes(t) + Escapes(i) + Escapes(c)
  <2>1. /\ t \in UpTo(1, {Quote, Backslash, "i"}) /\ i \in UpTo(1, {Quote, "c"})
        /\ c \in UpTo(3, {Quote, Backslash, "\n", "n"}) /\ cap \in ClaimCaps
        /\ result = claim_build_request(t, i, c, cap)
    BY DEF CallInv, ClaimCalled, Claims
  <2>2. /\ t \in Seq({Quote, Backslash, "i"}) /\ i \in Seq({Quote, "c"})
        /\ c \in Seq({Quote, Backslash, "\n", "n"}) /\ cap \in Nat
    BY <2>1, UpToText, CapsAssumption
  <2> HIDE DEF t, i, c, cap
  <2>3. t \in Seq(Chars) /\ i \in Seq(Chars) /\ c \in Seq(Chars)
    <3>1. /\ {Quote, Backslash, "i"} \subseteq Chars /\ {Quote, "c"} \subseteq Chars
          /\ {Quote, Backslash, "\n", "n"} \subseteq Chars
      BY DEF Chars, Syntax
    <3> QED BY <2>2, <3>1, WiderText
  <2>4. IF size >= cap THEN result = Failed
        ELSE /\ Len(result) = size
             /\ Read(<<"t">>) = t /\ Read(<<"i">>) = i /\ Read(<<"c">>) = c
    BY <2>1, <2>2, <2>3, CharsAreText, ClaimReadsBack DEF Read
  <2>5. Escapes(t) = Cardinality({j \in DOMAIN t : t[j] \in {Quote, Backslash}})
    <3>1. \A j \in DOMAIN t : t[j] \in {Quote, Backslash, "i"}
      BY <2>2
    <3>2. \A x \in {Quote, Backslash, "i"} : x \in Special <=> x \in {Quote, Backslash}
      BY DEF Special, Quote, Backslash
    <3>3. {j \in DOMAIN t : t[j] \in Special} = {j \in DOMAIN t : t[j] \in {Quote, Backslash}}
      BY <3>1, <3>2
    <3> QED BY <3>3 DEF Escapes
  <2>6. Escapes(i) = Cardinality({j \in DOMAIN i : i[j] = Quote})
    <3>1. \A j \in DOMAIN i : i[j] \in {Quote, "c"}
      BY <2>2
    <3>2. \A x \in {Quote, "c"} : x \in Special <=> x = Quote
      BY DEF Special, Quote, Backslash
    <3>3. {j \in DOMAIN i : i[j] \in Special} = {j \in DOMAIN i : i[j] = Quote}
      BY <3>1, <3>2
    <3> QED BY <3>3 DEF Escapes
  <2>7. Escapes(c) = Cardinality({j \in DOMAIN c : c[j] # "n"})
    <3>1. \A j \in DOMAIN c : c[j] \in {Quote, Backslash, "\n", "n"}
      BY <2>2
    <3>2. \A x \in {Quote, Backslash, "\n", "n"} : x \in Special <=> x # "n"
      BY DEF Special, Quote, Backslash
    <3>3. {j \in DOMAIN c : c[j] \in Special} = {j \in DOMAIN c : c[j] # "n"}
      BY <3>1, <3>2
    <3> QED BY <3>3 DEF Escapes
  <2> QED BY <2>4, <2>5, <2>6, <2>7, Zenon DEF ClaimRoundTrip, t, i, c, cap
<1> QED BY <1>1, CallInvariant, PTL

-----------------------------------------------------------------------------
(* Reading any member of an object, whatever the blanks and the escapes.   *)

\* s stands in J, its k-th character ending at at[k]: as it is, or behind a backslash.
Whole(J, c, a, b) == b = a + 1 /\ J[a + 1] = c /\ c \notin {Quote, Backslash}
Coded(J, c, a, b) == b = a + 2 /\ J[a + 1] = Backslash /\ unescape(J[a + 2]) = c
Spelled(J, s, at) == /\ at \in [0..Len(s) -> Nat]
                     /\ \A k \in 1..Len(s) : \/ Whole(J, s[k], at[k - 1], at[k])
                                             \/ Coded(J, s[k], at[k - 1], at[k])

\* From i to j stand blanks only.
BlankGap(J, i, j) == \A k \in i..(j - 1) : J[k] \in Blanks

\* A name that can be a key.
KeyName(C, f) == /\ f \in Seq(C) /\ Len(f) >= 1
                 /\ \A k \in 1..Len(f) : f[k] \notin {Quote, Backslash, ":", ",", "}", " ", "\t"}

\* A member of a JSON object: the key f at o, the colon at c, the value s with its
\* stops, and what follows.
MemberAt(J, o, f, c, s, at) ==
  /\ o \in Nat \ {0} /\ c \in Nat /\ o + Len(f) + 2 <= c /\ c < at[0]
  /\ J[o] = Quote /\ (\A k \in 1..Len(f) : J[o + k] = f[k]) /\ J[o + Len(f) + 1] = Quote
  /\ BlankGap(J, o + Len(f) + 2, c) /\ J[c] = ":" /\ BlankGap(J, c + 1, at[0]) /\ J[at[0]] = Quote
  /\ Spelled(J, s, at) /\ at[Len(s)] + 2 <= Len(J)
  /\ J[at[Len(s)] + 1] = Quote /\ J[at[Len(s)] + 2] \in {",", "}"}

\* Blanks are skipped.
LEMMA SkipGap ==
  ASSUME NEW C, NEW J \in Seq(C), NEW j \in 1..Len(J), NEW i \in 1..j, J[j] \notin Blanks,
         BlankGap(J, i, j)
  PROVE  SkipBlanks(J, i) = j
<1> DEFINE Is(m) == /\ m > Len(J) \/ J[m] \notin Blanks
                    /\ \A k \in i..(m - 1) : k <= Len(J) /\ ~(J[k] \notin Blanks)
<1>1. j \in i..(i + Len(J)) /\ Is(j)
  BY DEF BlankGap
<1>2. ASSUME NEW m \in i..(i + Len(J)), Is(m) PROVE m = j
  <2>1. ~(m > j)
    <3>1. ASSUME m > j PROVE FALSE
      <4>1. j \in i..(m - 1)
        BY <3>1
      <4> QED BY <1>2, <4>1
    <3> QED BY <3>1
  <2>2. ~(m < j)
    <3>1. ASSUME m < j PROVE FALSE
      <4>1. m \in i..(j - 1) /\ ~(m > Len(J))
        BY <3>1
      <4>2. J[m] \in Blanks
        BY <4>1 DEF BlankGap
      <4> QED BY <1>2, <4>1, <4>2
    <3> QED BY <3>1
  <2> QED BY <2>1, <2>2
<1>3. SkipBlanks(J, i) = CHOOSE m \in i..(i + Len(J)) : Is(m)
  BY DEF SkipBlanks, FirstFrom
<1> HIDE DEF Is
<1> QED BY <1>1, <1>2, <1>3

\* The stops increase.
LEMMA SpelledIncrease ==
  ASSUME NEW C, NEW s \in Seq(C), NEW J, NEW at, Spelled(J, s, at)
  PROVE  /\ \A k \in 0..Len(s) : at[k] \in Nat
         /\ \A k \in 1..Len(s) : at[k] = at[k - 1] + 1 \/ at[k] = at[k - 1] + 2
         /\ \A k \in 0..Len(s) : \A m \in 0..k : at[m] + (k - m) <= at[k]
<1> DEFINE n == Len(s)
           S == {k \in Nat : k <= n => \A m \in 0..k : at[m] + (k - m) <= at[k]}
<1>0. n \in Nat
  OBVIOUS
<1>1. \A k \in 0..n : at[k] \in Nat
  BY DEF Spelled
<1>2. \A k \in 1..n : at[k] = at[k - 1] + 1 \/ at[k] = at[k - 1] + 2
  BY DEF Spelled, Whole, Coded
<1> HIDE DEF n
<1>3. 0 \in S
  BY <1>0, <1>1
<1>4. ASSUME NEW k \in Nat, k \in S PROVE k + 1 \in S
  <2> SUFFICES ASSUME k + 1 <= n, NEW m \in 0..(k + 1)
               PROVE  at[m] + ((k + 1) - m) <= at[k + 1]
    OBVIOUS
  <2>1. at[k] \in Nat /\ at[k + 1] \in Nat /\ at[m] \in Nat
    <3>1. k \in 0..n /\ k + 1 \in 0..n /\ m \in 0..n
      BY <1>0
    <3> QED BY <1>1, <3>1
  <2>2. at[k + 1] >= at[k] + 1
    <3>1. k + 1 \in 1..n /\ (k + 1) - 1 = k
      BY <1>0
    <3>2. at[k + 1] = at[k] + 1 \/ at[k + 1] = at[k] + 2
      BY <1>2, <3>1
    <3> QED BY <2>1, <3>2
  <2>3. CASE m = k + 1
    BY <2>1, <2>3
  <2>4. CASE m \in 0..k
    <3>1. at[m] + (k - m) <= at[k]
      BY <1>4, <1>0, <2>4
    <3> DEFINE x == at[m]
               y == at[k]
               z == at[k + 1]
    <3>2. /\ x \in Nat /\ y \in Nat /\ z \in Nat /\ m \in Nat
          /\ z >= y + 1 /\ x + (k - m) <= y
      BY <2>1, <2>2, <2>4, <3>1
    <3> HIDE DEF x, y, z
    <3>3. x + ((k + 1) - m) <= z
      BY <3>2
    <3> QED BY <3>3 DEF x, z
  <2> QED BY <2>3, <2>4
<1> HIDE DEF S
<1>5. Nat \subseteq S
  BY <1>3, <1>4, Induction
<1>6. \A k \in 0..n : \A m \in 0..k : at[m] + (k - m) <= at[k]
  BY <1>0, <1>5 DEF S
<1> QED BY <1>1, <1>2, <1>6 DEF n

\* The places of a member.
LEMMA AnyPlaces ==
  ASSUME NEW C, NEW J \in Seq(C), NEW s \in Seq(C), NEW o, NEW f \in Seq(C), NEW c, NEW at,
         MemberAt(J, o, f, c, s, at)
  PROVE  /\ Len(s) \in Nat /\ Len(f) \in Nat /\ o \in Nat /\ o >= 1 /\ c \in Nat
         /\ o + Len(f) + 2 <= c /\ c < at[0] /\ Len(J) \in Nat
         /\ at[0] \in Nat /\ at[Len(s)] \in Nat /\ at[0] + Len(s) <= at[Len(s)]
         /\ at[Len(s)] + 2 <= Len(J)
         /\ \A k \in 0..Len(s) : at[k] \in Nat /\ at[0] <= at[k] /\ at[k] <= at[Len(s)]
                                 /\ at[k] + 2 <= Len(J)
<1> DEFINE n == Len(s)
<1>0. /\ n \in Nat /\ 0 \in 0..n /\ n \in 0..n /\ Len(f) \in Nat /\ o \in Nat /\ o >= 1 /\ c \in Nat
      /\ o + Len(f) + 2 <= c /\ c < at[0] /\ at[n] + 2 <= Len(J) /\ Len(J) \in Nat
  <2>1. /\ n \in Nat /\ 0 \in 0..n /\ n \in 0..n /\ Len(f) \in Nat /\ Len(J) \in Nat
    OBVIOUS
  <2>2. /\ o \in Nat \ {0} /\ c \in Nat /\ o + Len(f) + 2 <= c /\ c < at[0]
        /\ at[n] + 2 <= Len(J)
    BY Zenon DEF MemberAt
  <2>3. o \in Nat /\ o >= 1
    BY <2>2
  <2> QED BY <2>1, <2>2, <2>3, Zenon
<1>1. Spelled(J, s, at)
  BY DEF MemberAt
<1>2. /\ \A k \in 0..n : at[k] \in Nat
      /\ \A k \in 0..n : \A m \in 0..k : at[m] + (k - m) <= at[k]
  BY <1>1, SpelledIncrease
<1> HIDE DEF n
<1>3. ASSUME NEW k \in 0..n
      PROVE  at[k] \in Nat /\ at[0] <= at[k] /\ at[k] <= at[n] /\ at[k] + 2 <= Len(J)
  <2>1. 0 \in 0..k /\ k \in 0..n /\ k \in Nat
    BY <1>0
  <2>2. at[0] + (k - 0) <= at[k] /\ at[k] + (n - k) <= at[n]
    BY <1>0, <1>2, <2>1
  <2>3. at[0] \in Nat /\ at[k] \in Nat /\ at[n] \in Nat
    BY <1>0, <1>2
  <2> DEFINE x == at[0]
             y == at[k]
             z == at[n]
             l == Len(J)
  <2>4. /\ x \in Nat /\ y \in Nat /\ z \in Nat /\ l \in Nat /\ k \in Nat /\ n \in Nat /\ k <= n
        /\ x + (k - 0) <= y /\ y + (n - k) <= z /\ z + 2 <= l
    BY <1>0, <2>1, <2>2, <2>3
  <2> HIDE DEF x, y, z, l
  <2>5. x <= y /\ y <= z /\ y + 2 <= l
    BY <2>4
  <2> QED BY <2>4, <2>5 DEF x, y, z, l
<1>4. at[0] + n <= at[n]
  <2>1. at[0] + (n - 0) <= at[n]
    BY <1>0, <1>2
  <2> QED BY <1>0, <2>1
<1> QED BY <1>0, <1>3, <1>4 DEF n

\* What a name cannot hold.
LEMMA NameChars ==
  ASSUME NEW C, NEW g, KeyName(C, g)
  PROVE  /\ g \in Seq(C) /\ Len(g) \in Nat /\ Len(g) >= 1 /\ 1 \in 1..Len(g)
         /\ \A k \in 1..Len(g) : g[k] # Quote /\ g[k] # Backslash
         /\ g[1] \notin {Quote, ":", ",", "}"} /\ g[1] \notin Blanks
<1>1. g \in Seq(C) /\ Len(g) >= 1
  BY Zenon DEF KeyName
<1>2. Len(g) \in Nat /\ 1 \in 1..Len(g)
  BY <1>1
<1>3. \A k \in 1..Len(g) : g[k] \notin {Quote, Backslash, ":", ",", "}", " ", "\t"}
  BY Zenon DEF KeyName
<1>4. \A k \in 1..Len(g) : g[k] # Quote /\ g[k] # Backslash
  BY <1>3, Zenon
<1>5. g[1] \notin {Quote, Backslash, ":", ",", "}", " ", "\t"}
  BY <1>2, <1>3, Zenon
<1>6. g[1] \notin {Quote, ":", ",", "}"} /\ g[1] \notin Blanks
  BY <1>5, Zenon DEF Blanks
<1> QED BY <1>1, <1>2, <1>4, <1>6, Zenon

\* The characters of a key.
LEMMA KeyChars ==
  ASSUME NEW C, NUL \notin C, NEW J \in Seq(C), NEW g \in Seq(C), NEW p \in Nat, IsKey(J, p, g)
  PROVE  /\ p \in 1..Len(J) /\ J[p] = Quote
         /\ \A k \in 1..Len(g) : p + k \in 1..Len(J) /\ J[p + k] = g[k]
         /\ p + Len(g) + 1 \in 1..Len(J) /\ J[p + Len(g) + 1] = Quote
         /\ At(J, SkipBlanks(J, p + Len(g) + 2)) = ":"
<1>1. /\ At(J, p) = Quote /\ At(J, p + Len(g) + 1) = Quote
      /\ \A k \in DOMAIN g : At(J, p + k) = g[k]
      /\ At(J, SkipBlanks(J, p + Len(g) + 2)) = ":"
  BY Zenon DEF IsKey, FieldAt, AfterKey
<1>2. ASSUME NEW i, At(J, i) # NUL PROVE i \in 1..Len(J) /\ J[i] = At(J, i)
  BY <1>2 DEF At
<1>3. Quote # NUL
  BY DEF Quote, NUL
<1>4. ASSUME NEW k \in 1..Len(g) PROVE p + k \in 1..Len(J) /\ J[p + k] = g[k]
  <2>1. k \in DOMAIN g /\ g[k] \in C
    OBVIOUS
  <2>2. At(J, p + k) = g[k] /\ At(J, p + k) # NUL
    BY <1>1, <2>1
  <2> QED BY <1>2, <2>2
<1> QED BY <1>1, <1>2, <1>3, <1>4

\* p is the k-th stop, and unless that is the first one the end of an escape.
EndsEscape(J, at, p, k) == /\ p = at[k]
                           /\ k # 0 => /\ p = at[k - 1] + 2 /\ at[k - 1] >= at[0]
                                       /\ J[at[k - 1] + 1] = Backslash

\* A quote in a value stands behind a backslash, unless it opens the value.
LEMMA QuoteInValue ==
  ASSUME NEW C, NEW J \in Seq(C), NEW s \in Seq(C), NEW o, NEW f \in Seq(C), NEW c, NEW at,
         MemberAt(J, o, f, c, s, at), NEW p \in at[0]..at[Len(s)], J[p] = Quote
  PROVE  \E k \in 0..Len(s) : EndsEscape(J, at, p, k)
<1> USE DEF EndsEscape
<1> DEFINE n == Len(s)
           S == {k \in 0..n : p <= at[k]}
<1>0. n \in Nat /\ n \in 0..n /\ 0 \in 0..n
  OBVIOUS
<1>1. \A k \in 0..n : at[k] \in Nat /\ at[0] <= at[k]
  BY AnyPlaces
<1>2. p \in Nat /\ at[0] <= p /\ p <= at[n]
  BY <1>0, <1>1
<1>3. PICK k \in S : \A m \in S : k <= m
  <2>1. n \in S /\ S \in SUBSET Nat
    BY <1>0, <1>2
  <2> HIDE DEF S
  <2> QED BY <2>1, Least
<1>4. CASE k = 0
  <2>1. at[0] \in Nat /\ p <= at[0]
    BY <1>0, <1>1, <1>3, <1>4
  <2>2. p = at[0]
    BY <1>2, <2>1
  <2> QED BY <1>0, <1>4, <2>2
<1>5. CASE k # 0
  <2>1. k \in 1..n /\ k - 1 \in 0..n
    BY <1>0, <1>3, <1>5
  <2>2. k - 1 \notin S
    BY <1>3, <2>1
  <2>3. at[k - 1] \in Nat /\ at[k] \in Nat /\ at[k - 1] < p /\ p <= at[k] /\ at[k - 1] >= at[0]
    BY <1>1, <1>2, <1>3, <2>1, <2>2
  <2>4. \/ Whole(J, s[k], at[k - 1], at[k])
        \/ Coded(J, s[k], at[k - 1], at[k])
    BY <2>1 DEF MemberAt, Spelled
  <2>5. CASE Whole(J, s[k], at[k - 1], at[k])
    <3>1. p = at[k - 1] + 1
      BY <1>2, <2>3, <2>5 DEF Whole
    <3> QED BY <2>5, <3>1 DEF Whole
  <2>6. CASE Coded(J, s[k], at[k - 1], at[k])
    <3>1. at[k] = at[k - 1] + 2 /\ J[at[k - 1] + 1] = Backslash
      BY <2>6 DEF Coded
    <3>2. p # at[k - 1] + 1
      BY <3>1 DEF Quote, Backslash
    <3>3. p = at[k]
      BY <1>2, <2>3, <3>1, <3>2, SMTT(30)
    <3> QED BY <2>1, <2>3, <3>1, <3>3
  <2> QED BY <2>4, <2>5, <2>6
<1> QED BY <1>4, <1>5

\* No part of a value passes for a key, whatever the value holds.
LEMMA NoKeyFromValue ==
  ASSUME NEW C, NUL \notin C, NEW J \in Seq(C), NEW s \in Seq(C), NEW o, NEW f \in Seq(C), NEW c,
         NEW at, MemberAt(J, o, f, c, s, at), NEW p \in at[0]..at[Len(s)], NEW g, KeyName(C, g)
  PROVE  ~IsKey(J, p, g)
<1> SUFFICES ASSUME IsKey(J, p, g) PROVE FALSE
  OBVIOUS
<1> DEFINE n == Len(s)
           l == Len(g)
           b == at[n]
           q == p + l + 1
<1>0. /\ n \in Nat /\ n \in 0..n /\ g \in Seq(C) /\ l \in Nat /\ l >= 1
      /\ \A k \in 1..l : g[k] # Quote /\ g[k] # Backslash
  <2>1. n \in Nat /\ n \in 0..n
    OBVIOUS
  <2> QED BY <2>1, NameChars, Zenon
<1>1. at[0] \in Nat /\ b \in Nat /\ b + 2 <= Len(J) /\ Len(J) \in Nat
  BY AnyPlaces
<1>2. p \in Nat /\ at[0] <= p /\ p <= b
  BY <1>1
<1>3. /\ J[p] = Quote /\ \A k \in 1..l : J[p + k] = g[k]
      /\ q \in 1..Len(J) /\ J[q] = Quote /\ At(J, SkipBlanks(J, q + 1)) = ":"
  <2>1. p + l + 2 = q + 1
    BY <1>0, <1>2
  <2> QED BY <1>0, <1>2, <2>1, KeyChars
<1>4. q \in Nat /\ q > p
  BY <1>0, <1>2
<1>5. CASE q <= b
  <2>1. q \in at[0]..at[Len(s)]
    BY <1>1, <1>2, <1>4, <1>5
  <2>2. PICK k \in 0..Len(s) : EndsEscape(J, at, q, k)
    <3>1. J[q] = Quote
      BY <1>3
    <3> HIDE DEF q
    <3> QED BY <2>1, <3>1, QuoteInValue
  <2>3. k # 0
    BY <1>1, <1>2, <1>4, <2>2 DEF EndsEscape
  <2>4. J[q - 1] = Backslash
    <3>1. k - 1 \in 0..Len(s)
      BY <2>3
    <3>2. at[k - 1] \in Nat
      BY <3>1, AnyPlaces
    <3>3. at[k - 1] + 1 = q - 1
      BY <2>2, <2>3, <3>2 DEF EndsEscape
    <3> QED BY <2>2, <2>3, <3>3 DEF EndsEscape
  <2>5. q - 1 = p + l
    BY <1>0, <1>2 DEF q
  <2>6. l \in 1..l
    BY <1>0
  <2>7. J[p + l] = g[l] /\ g[l] # Backslash
    BY <1>0, <1>3, <2>6, Zenon
  <2> QED BY <2>4, <2>5, <2>7
<1>6. CASE q = b + 1
  <2>1. q + 1 = b + 2 /\ q + 1 \in 1..Len(J)
    BY <1>1, <1>6
  <2>2. J[q + 1] \in {",", "}"}
    BY <2>1 DEF MemberAt
  <2>3. SkipBlanks(J, q + 1) = q + 1
    BY <2>1, <2>2, SkipNone DEF Blanks
  <2>4. At(J, q + 1) = J[q + 1]
    BY <2>1, AtPlace
  <2>5. J[q + 1] = ":"
    BY <1>3, <2>3, <2>4, Zenon
  <2> QED BY <2>2, <2>5
<1>7. CASE q > b + 1
  <2>1. (b + 1) - p \in 1..l /\ p + ((b + 1) - p) = b + 1
    BY <1>0, <1>1, <1>2, <1>7, SMTT(30)
  <2>2. J[b + 1] = Quote
    BY DEF MemberAt
  <2>3. J[p + ((b + 1) - p)] = g[(b + 1) - p] /\ g[(b + 1) - p] # Quote
    BY <1>0, <1>3, <2>1, Zenon
  <2> QED BY <2>1, <2>2, <2>3
<1> QED BY <1>1, <1>4, <1>5, <1>6, <1>7, SMTT(30)

\* From behind its opening quote to its end, a member holds no key at all.
LEMMA NoKeyInMember ==
  ASSUME NEW C, NUL \notin C, NEW J \in Seq(C), NEW s \in Seq(C), NEW o, NEW f, KeyName(C, f),
         NEW c, NEW at, MemberAt(J, o, f, c, s, at), NEW p \in (o + 1)..(at[Len(s)] + 2),
         NEW g, KeyName(C, g)
  PROVE  ~IsKey(J, p, g)
<1> SUFFICES ASSUME IsKey(J, p, g) PROVE FALSE
  OBVIOUS
<1> DEFINE b == at[Len(s)]
           v == at[0]
           m == Len(f)
<1>0. /\ f \in Seq(C) /\ g \in Seq(C) /\ m \in Nat /\ Len(g) \in Nat /\ Len(g) >= 1
      /\ \A k \in 1..m : f[k] # Quote
  BY NameChars
<1>1. g[1] \notin {Quote, ":", ",", "}"} /\ g[1] \notin Blanks
  BY NameChars
<1>2. /\ o \in Nat /\ o >= 1 /\ v \in Nat /\ b \in Nat /\ v <= b /\ b + 2 <= Len(J) /\ c \in Nat
      /\ o + m + 2 <= c /\ c < v /\ Len(J) \in Nat
  <2>1. 0 \in 0..Len(s)
    OBVIOUS
  <2> QED BY <1>0, <2>1, AnyPlaces
<1>3. /\ \A k \in 1..m : J[o + k] = f[k]
      /\ J[o + m + 1] = Quote /\ BlankGap(J, o + m + 2, c) /\ J[c] = ":" /\ BlankGap(J, c + 1, v)
      /\ J[b + 1] = Quote /\ J[b + 2] \in {",", "}"}
  BY Zenon DEF MemberAt
<1>4. p \in Nat /\ o + 1 <= p /\ p <= b + 2
  BY <1>2
<1>5. J[p] = Quote
  BY <1>0, <1>4, KeyChars
<1>6. J[p + 1] = g[1]
  <2>1. 1 \in 1..Len(g)
    BY <1>0
  <2> QED BY <1>0, <1>4, <2>1, KeyChars
<1> HIDE DEF b, v, m
<1>7. CASE p <= o + m
  <2>1. p - o \in 1..m /\ o + (p - o) = p
    BY <1>0, <1>2, <1>4, <1>7
  <2>2. J[o + (p - o)] = f[p - o] /\ f[p - o] # Quote
    BY <1>0, <1>3, <2>1, Zenon
  <2> QED BY <1>5, <2>1, <2>2
<1>8. CASE p = o + m + 1
  <2>1. p + 1 = o + m + 2
    BY <1>0, <1>2, <1>8
  <2>2. CASE p + 1 = c
    BY <1>1, <1>3, <1>6, <2>2
  <2>3. CASE p + 1 # c
    <3>1. p + 1 \in (o + m + 2)..(c - 1)
      BY <1>0, <1>2, <1>4, <2>1, <2>3
    <3>2. J[p + 1] \in Blanks
      BY <1>3, <3>1, Zenon DEF BlankGap
    <3> QED BY <1>1, <1>6, <3>2, Zenon
  <2> QED BY <2>2, <2>3
<1>9. CASE p \in (o + m + 2)..(c - 1) \/ p \in (c + 1)..(v - 1)
  <2>1. J[p] \in Blanks
    BY <1>3, <1>9, Zenon DEF BlankGap
  <2> QED BY <1>5, <2>1 DEF Blanks, Quote
<1>10. CASE p = c
  BY <1>3, <1>5, <1>10 DEF Quote
<1>11. CASE p \in v..b
  BY <1>0, <1>11, NoKeyFromValue DEF v, b
<1>12. CASE p = b + 1
  <2>1. p + 1 = b + 2
    BY <1>2, <1>12
  <2> QED BY <1>1, <1>3, <1>6, <2>1
<1>13. CASE p = b + 2
  BY <1>3, <1>5, <1>13 DEF Quote
<1>14. \/ p <= o + m \/ p = o + m + 1 \/ p \in (o + m + 2)..(c - 1) \/ p = c
       \/ p \in (c + 1)..(v - 1) \/ p \in v..b \/ p = b + 1 \/ p = b + 2
  BY <1>0, <1>2, <1>4
<1> QED BY <1>7, <1>8, <1>9, <1>10, <1>11, <1>12, <1>13, <1>14

\* What find_value_start reads around the key f at o, the value of which opens at v.
KeyFramed(J, o, f, c, v) == /\ SkipBlanks(J, o + Len(f) + 2) = c /\ At(J, c) = ":"
                            /\ SkipBlanks(J, c + 1) = v /\ At(J, v) = Quote
                            /\ At(J, o) = Quote /\ At(J, o + Len(f) + 1) = Quote
                            /\ \A k \in 1..Len(f) : At(J, o + k) = f[k]

\* The places around the key of a member.
LEMMA AroundKey ==
  ASSUME NEW C, NEW J \in Seq(C), NEW s \in Seq(C), NEW o, NEW f \in Seq(C), NEW c, NEW at,
         MemberAt(J, o, f, c, s, at)
  PROVE  KeyFramed(J, o, f, c, at[0])
<1> DEFINE m == Len(f)
           v == at[0]
<1>1. /\ o \in Nat /\ o >= 1 /\ v \in Nat /\ v + 2 <= Len(J) /\ c \in Nat /\ m \in Nat
      /\ o + m + 2 <= c /\ c < v /\ Len(J) \in Nat
  <2>1. 0 \in 0..Len(s)
    OBVIOUS
  <2> QED BY <2>1, AnyPlaces
<1>2. /\ J[o] = Quote /\ (\A k \in 1..m : J[o + k] = f[k]) /\ J[o + m + 1] = Quote
      /\ BlankGap(J, o + m + 2, c) /\ J[c] = ":" /\ BlankGap(J, c + 1, v) /\ J[v] = Quote
  BY Zenon DEF MemberAt
<1> HIDE DEF m, v
<1>3. /\ c \in 1..Len(J) /\ v \in 1..Len(J) /\ o + m + 2 \in 1..c /\ c + 1 \in 1..v
      /\ o \in 1..Len(J) /\ o + m + 1 \in 1..Len(J) /\ \A k \in 1..m : o + k \in 1..Len(J)
  BY <1>1
<1>4. J[c] \notin Blanks /\ J[v] \notin Blanks
  BY <1>2 DEF Blanks, Quote
<1>5. SkipBlanks(J, o + m + 2) = c
  BY <1>2, <1>3, <1>4, SkipGap
<1>6. SkipBlanks(J, c + 1) = v
  BY <1>2, <1>3, <1>4, SkipGap
<1>7. At(J, c) = ":" /\ At(J, v) = Quote /\ At(J, o) = Quote /\ At(J, o + m + 1) = Quote
  BY <1>2, <1>3, AtPlace
<1>8. ASSUME NEW k \in 1..m PROVE At(J, o + k) = f[k]
  BY <1>2, <1>3, AtPlace
<1> QED BY <1>5, <1>6, <1>7, <1>8, Zenon DEF m, v, KeyFramed

\* A member has its own key and no other.
LEMMA KeyOfMember ==
  ASSUME NEW C, NUL \notin C, NEW J \in Seq(C), NEW s \in Seq(C), NEW o, NEW f, KeyName(C, f),
         NEW c, NEW at, MemberAt(J, o, f, c, s, at), NEW g, KeyName(C, g)
  PROVE  IsKey(J, o, g) <=> g = f
<1>1. /\ f \in Seq(C) /\ g \in Seq(C) /\ Len(f) \in Nat /\ Len(g) \in Nat
      /\ \A k \in 1..Len(f) : f[k] # Quote
      /\ \A k \in 1..Len(g) : g[k] # Quote
  BY NameChars
<1>2. o \in Nat
  BY <1>1, AnyPlaces
<1>3. ASSUME g = f PROVE IsKey(J, o, g)
  <2>1. DOMAIN f = 1..Len(f)
    BY <1>1
  <2>2. IsKey(J, o, f)
    <3>1. KeyFramed(J, o, f, c, at[0])
      BY <1>1, AroundKey
    <3> QED BY <2>1, <3>1, Zenon DEF KeyFramed, IsKey, FieldAt, AfterKey
  <2> QED BY <1>3, <2>2
<1>4. ASSUME IsKey(J, o, g) PROVE g = f
  <2>1. /\ \A k \in 1..Len(g) : J[o + k] = g[k]
        /\ J[o + Len(g) + 1] = Quote
    BY <1>1, <1>2, <1>4, KeyChars
  <2>2. /\ \A k \in 1..Len(f) : J[o + k] = f[k]
        /\ J[o + Len(f) + 1] = Quote
    BY Zenon DEF MemberAt
  <2>3. ~(Len(g) < Len(f))
    <3>1. ASSUME Len(g) < Len(f) PROVE FALSE
      <4>1. Len(g) + 1 \in 1..Len(f) /\ o + (Len(g) + 1) = o + Len(g) + 1
        BY <1>1, <1>2, <3>1
      <4>2. J[o + (Len(g) + 1)] = f[Len(g) + 1] /\ f[Len(g) + 1] # Quote
        BY <1>1, <2>2, <4>1, Zenon
      <4> QED BY <2>1, <4>1, <4>2
    <3> QED BY <3>1
  <2>4. ~(Len(f) < Len(g))
    <3>1. ASSUME Len(f) < Len(g) PROVE FALSE
      <4>1. Len(f) + 1 \in 1..Len(g) /\ o + (Len(f) + 1) = o + Len(f) + 1
        BY <1>1, <1>2, <3>1
      <4>2. J[o + (Len(f) + 1)] = g[Len(f) + 1] /\ g[Len(f) + 1] # Quote
        BY <1>1, <2>1, <4>1, Zenon
      <4> QED BY <2>2, <4>1, <4>2
    <3> QED BY <3>1
  <2>5. Len(f) = Len(g)
    BY <1>1, <2>3, <2>4
  <2>6. \A k \in 1..Len(g) : g[k] = f[k]
    BY <2>1, <2>2, <2>5
  <2> QED BY <1>1, <2>5, <2>6
<1> QED BY <1>3, <1>4

\* Of the first member with a key, find_value_start finds the value.
LEMMA FindMember ==
  ASSUME NEW C, NUL \notin C, NEW J \in Seq(C), NEW s \in Seq(C), NEW o, NEW f, KeyName(C, f),
         NEW c, NEW at, MemberAt(J, o, f, c, s, at), \A p \in 1..(o - 1) : ~IsKey(J, p, f)
  PROVE  find_value_start(J, f) = at[0] + 1
<1>0. f \in Seq(C)
  BY NameChars
<1>1. o \in Nat /\ o >= 1 /\ o + 2 <= Len(J) /\ c \in Nat /\ at[0] \in Nat
  <2>1. /\ o \in Nat /\ o >= 1 /\ at[0] \in Nat /\ at[0] + 2 <= Len(J) /\ c \in Nat
        /\ o + Len(f) + 2 <= c /\ c < at[0] /\ Len(J) \in Nat /\ Len(f) \in Nat
    <3>1. 0 \in 0..Len(s)
      OBVIOUS
    <3> QED BY <1>0, <3>1, AnyPlaces
  <2> QED BY <2>1
<1>2. o \in DOMAIN J /\ IsKey(J, o, f)
  BY <1>1, KeyOfMember
<1> DEFINE Is(p) == IsKey(J, p, f) /\ \A q \in 1..(p - 1) : ~IsKey(J, q, f)
           p1 == CHOOSE p \in DOMAIN J : Is(p)
<1>3. Is(o)
  BY <1>2
<1>4. ASSUME NEW p \in DOMAIN J, Is(p) PROVE p = o
  <2>1. p \in Nat /\ p >= 1
    OBVIOUS
  <2>2. ~(p < o)
    BY <1>1, <1>4, <2>1
  <2>3. ~(o < p)
    BY <1>1, <1>2, <1>4, <2>1
  <2> QED BY <1>1, <2>1, <2>2, <2>3
<1>5. p1 = o
  <2> HIDE DEF Is
  <2> QED BY <1>2, <1>3, <1>4
<1>6. KeyFramed(J, o, f, c, at[0])
  BY <1>0, AroundKey
<1>7. AfterKey(J, o, f) = c /\ SkipBlanks(J, c + 1) = at[0] /\ At(J, at[0]) = Quote
  BY <1>6, Zenon DEF KeyFramed, AfterKey
<1>8. find_value_start(J, f) =
        LET q == SkipBlanks(J, AfterKey(J, p1, f) + 1)
        IN  IF At(J, q) = Quote THEN q + 1 ELSE 0
  BY <1>2 DEF find_value_start
<1> HIDE DEF p1
<1> QED BY <1>5, <1>7, <1>8

\* From the opening quote on, the value is read back.
LEMMA ReadSpelled ==
  ASSUME NEW C, Charset(C), NEW J \in Seq(C), NEW s \in Seq(C), NEW o, NEW f \in Seq(C), NEW c,
         NEW at, MemberAt(J, o, f, c, s, at)
  PROVE  string_at(J, at[0] + 1) = s
<1> DEFINE n == Len(s)
           v == at[0] + 1
<1>0. /\ n \in Nat /\ n \in 0..n /\ 0 \in 0..n /\ Len(J) \in Nat /\ v \in 1..(Len(J) + 2)
      /\ \A k \in 0..n : at[k] \in Nat /\ at[0] <= at[k] /\ at[k] + 2 <= Len(J)
  <2>1. /\ n \in Nat /\ n \in 0..n /\ 0 \in 0..n /\ Len(J) \in Nat
        /\ \A k \in 0..n : at[k] \in Nat /\ at[0] <= at[k] /\ at[k] + 2 <= Len(J)
    <3>1. n \in Nat /\ n \in 0..n /\ 0 \in 0..n
      OBVIOUS
    <3> QED BY <3>1, AnyPlaces
  <2>2. at[0] \in Nat /\ at[0] + 2 <= Len(J)
    BY <2>1
  <2> QED BY <2>1, <2>2
<1>1. \A k \in 0..n : at[k] + 1 \in v..(Len(J) + 2) /\ at[k] + 1 \in 1..Len(J)
  <2> SUFFICES ASSUME NEW k \in 0..n
               PROVE  at[k] + 1 \in v..(Len(J) + 2) /\ at[k] + 1 \in 1..Len(J)
    OBVIOUS
  <2> DEFINE x == at[k]
             y == at[0]
  <2>1. x \in Nat /\ y \in Nat /\ y <= x /\ x + 2 <= Len(J)
    BY <1>0
  <2> HIDE DEF x, y
  <2>2. x + 1 \in (y + 1)..(Len(J) + 2) /\ x + 1 \in 1..Len(J)
    BY <1>0, <2>1
  <2> QED BY <2>2 DEF x, y
<1>2. \A k \in 1..n : Whole(J, s[k], at[k - 1], at[k]) \/ Coded(J, s[k], at[k - 1], at[k])
  BY Zenon DEF MemberAt, Spelled
<1>3. PICK from : /\ string_at(J, v) = from[v]
                  /\ \A i \in v..(Len(J) + 2) : from[i] = ReadAt(J, from, i)
  <2> HIDE DEF v
  <2> QED BY <1>0, ReadLoop
<1> DEFINE S == {d \in Nat : d <= n => from[at[n - d] + 1] = SubSeq(s, (n - d) + 1, n)}
<1>4. 0 \in S
  <2>2. J[at[n] + 1] = Quote
    BY DEF MemberAt
  <2>3. from[at[n] + 1] = <<>>
    BY <1>0, <1>1, <1>3, <2>2, AtPlace, ReadCases, SMTT(30)
  <2>4. n - 0 = n
    BY <1>0
  <2> QED BY <2>3, <2>4, WholeSeq
<1>5. ASSUME NEW d \in Nat, d \in S PROVE d + 1 \in S
  <2> SUFFICES ASSUME d + 1 <= n PROVE from[at[n - (d + 1)] + 1] = SubSeq(s, (n - (d + 1)) + 1, n)
    OBVIOUS
  <2> DEFINE k == n - d
             a == at[k - 1]
             rest == SubSeq(s, k + 1, n)
  <2>0. k \in 1..n /\ k - 1 \in 0..n /\ k \in 0..n /\ n - (d + 1) = k - 1 /\ (n - (d + 1)) + 1 = k
    BY <1>0
  <2>1. from[at[k] + 1] = rest
    BY <1>0, <1>5
  <2>2. /\ a \in Nat /\ at[k] \in Nat /\ at[k] + 2 <= Len(J)
        /\ a + 1 \in v..(Len(J) + 2) /\ a + 1 \in 1..Len(J)
    BY <1>0, <1>1, <2>0
  <2>3. Whole(J, s[k], a, at[k]) \/ Coded(J, s[k], a, at[k])
    BY <1>2, <2>0
  <2>4. s[k] \in C /\ rest \in Seq(C) /\ <<s[k]>> \o rest = SubSeq(s, k, n)
    <3> HIDE DEF k
    <3>1. s[k] \in C
      BY <2>0
    <3>2. Len(s) \in Nat /\ k \in 1..Len(s)
      BY <2>0
    <3>3. SubSeq(s, k + 1, Len(s)) \in Seq(C)
      BY <3>2, TailText
    <3>4. <<s[k]>> \o SubSeq(s, k + 1, Len(s)) = SubSeq(s, k, Len(s))
      BY <3>2, TailText
    <3> QED BY <3>1, <3>3, <3>4
  <2>5. Prefixed(s[k], rest) = SubSeq(s, k, n)
    BY <2>4, TextNotFailed DEF Prefixed
  <2> HIDE DEF k, a, rest, v
  <2>6. from[a + 1] = ReadAt(J, from, a + 1) /\ At(J, a + 1) = J[a + 1]
    BY <1>3, <2>2, AtPlace
  <2>7. CASE Coded(J, s[k], a, at[k])
    <3>1. at[k] = a + 2 /\ J[a + 1] = Backslash /\ unescape(J[a + 2]) = s[k]
      BY <2>7 DEF Coded
    <3>2. a + 2 \in 1..Len(J) /\ (a + 1) + 1 = a + 2 /\ (a + 1) + 2 = at[k] + 1
      BY <1>0, <2>2, <3>1
    <3>3. J[a + 2] \in C
      BY <3>2
    <3>4. At(J, (a + 1) + 1) = J[a + 2] /\ J[a + 2] # NUL
      BY <3>2, <3>3, AtPlace DEF Charset
    <3>6. ReadAt(J, from, a + 1) = Prefixed(unescape(At(J, (a + 1) + 1)), from[(a + 1) + 2])
      BY <2>6, <3>1, <3>4, ReadCases
    <3>7. ReadAt(J, from, a + 1) = Prefixed(s[k], rest)
      BY <2>1, <3>1, <3>2, <3>4, <3>6
    <3> QED BY <2>0, <2>5, <2>6, <3>7 DEF k, a
  <2>8. CASE Whole(J, s[k], a, at[k])
    <3>1. at[k] = a + 1 /\ J[a + 1] = s[k] /\ s[k] \notin {Quote, Backslash}
      BY <2>8 DEF Whole
    <3>2. (a + 1) + 1 = at[k] + 1
      BY <3>1
    <3>4. s[k] \notin {Quote, NUL, Backslash}
      BY <2>4, <3>1 DEF Charset
    <3>6. ReadAt(J, from, a + 1) = Prefixed(s[k], from[(a + 1) + 1])
      BY <2>6, <3>1, <3>4, ReadCases
    <3>7. ReadAt(J, from, a + 1) = Prefixed(s[k], rest)
      BY <2>1, <3>2, <3>6
    <3> QED BY <2>0, <2>5, <2>6, <3>7 DEF k, a
  <2> QED BY <2>3, <2>7, <2>8
<1> HIDE DEF S
<1>6. Nat \subseteq S
  BY <1>4, <1>5, Induction
<1>7. from[at[n - n] + 1] = SubSeq(s, (n - n) + 1, n)
  BY <1>0, <1>6 DEF S
<1>8. n - n = 0 /\ 0 + 1 = 1
  BY <1>0
<1>9. from[v] = SubSeq(s, 1, n)
  BY <1>7, <1>8
<1>10. SubSeq(s, 1, n) = s
  BY WholeSeq
<1> QED BY <1>3, <1>9, <1>10

\* What json_extract_string yields for the value s.
Fitting(s, cap) == IF Len(s) + 1 > cap THEN Failed ELSE s

\* json_extract_string gives the value of the first member with that key back, if it
\* fits.
LEMMA ReadAnyMember ==
  ASSUME NEW C, Charset(C), NEW J \in Seq(C), NEW s \in Seq(C), NEW o, NEW f, KeyName(C, f),
         NEW c, NEW at, MemberAt(J, o, f, c, s, at), \A p \in 1..(o - 1) : ~IsKey(J, p, f),
         NEW cap
  PROVE  json_extract_string(J, f, cap) = Fitting(s, cap)
<1>1. f \in Seq(C) /\ NUL \notin C
  BY NameChars DEF Charset
<1>2. at[0] \in Nat /\ at[0] + 1 # 0
  <2>1. at[0] \in Nat
    BY <1>1, AnyPlaces
  <2> QED BY <2>1
<1>3. find_value_start(J, f) = at[0] + 1
  BY <1>1, FindMember
<1>4. string_at(J, at[0] + 1) = s /\ s # Failed
  BY <1>1, ReadSpelled, TextNotFailed
<1> QED BY <1>2, <1>3, <1>4 DEF json_extract_string, Fitting

-----------------------------------------------------------------------------
(* Texts as the control plane's libraries write them.                      *)

\* R is the texts seqs one behind the other, the k-th of them ending at at[k].
Flat(C, R, seqs, at) ==
  /\ R \in Seq(C) /\ at \in [0..Len(seqs) -> Nat] /\ at[0] = 0 /\ Len(R) = at[Len(seqs)]
  /\ \A k \in 1..Len(seqs) : /\ at[k] = at[k - 1] + Len(seqs[k])
                             /\ \A j \in 1..Len(seqs[k]) : R[at[k - 1] + j] = seqs[k][j]

\* h[k] is the first k of the texts.
Flattens(h, seqs) == /\ h[1] = seqs[1]
                     /\ \A k \in 2..Len(seqs) : h[k] = h[k - 1] \o seqs[k]
                     /\ FlattenSeq(seqs) = h[Len(seqs)]

\* FlattenSeq goes through the texts one after the other.
LEMMA FlattenLoop ==
  ASSUME NEW C, NEW seqs \in Seq(Seq(C)), Len(seqs) # 0
  PROVE  \E h : Flattens(h, seqs)
<1> DEFINE n == Len(seqs)
           Loop(g) == g = [i \in 1..n |-> IF i = 1 THEN seqs[i] ELSE g[i - 1] \o seqs[i]]
           V == Seq(C)
           step == [k \in Nat |-> [x \in V |-> IF k \in 2..n THEN x \o seqs[k] ELSE seqs[1]]]
<1>0. n \in Nat /\ n >= 1 /\ 1 \in 1..n
  OBVIOUS
<1>1. \A k \in 1..n : seqs[k] \in V
  OBVIOUS
<1>2. step \in [Nat -> [V -> V]]
  <2> SUFFICES ASSUME NEW k \in Nat, NEW x \in V PROVE step[k][x] \in V
    OBVIOUS
  <2>1. CASE k \in 2..n
    <3>1. seqs[k] \in V
      BY <1>0, <1>1, <2>1
    <3>2. x \o seqs[k] \in V
      BY <3>1
    <3> QED BY <2>1, <3>2
  <2>2. CASE k \notin 2..n
    BY <1>0, <1>1, <2>2
  <2> QED BY <2>1, <2>2
<1>3. seqs[1] \in V
  BY <1>0, <1>1
<1> HIDE DEF V
<1>4. PICK f : Iterates(f, V, seqs[1], step, n)
  <2> HIDE DEF step, n
  <2> QED BY <1>0, <1>2, <1>3, Iteration
<1>5. /\ \A k \in 0..n : f[k] \in V
      /\ \A k \in 1..n : f[k] = step[k][f[k - 1]]
  BY <1>4 DEF Iterates
<1>6. ASSUME NEW k \in 1..n PROVE f[k] = IF k = 1 THEN seqs[1] ELSE f[k - 1] \o seqs[k]
  <2>1. f[k - 1] \in V /\ k \in Nat
    BY <1>0, <1>5
  <2>2. f[k] = step[k][f[k - 1]]
    BY <1>5
  <2>3. k = 1 \/ k \in 2..n
    BY <1>0
  <2>4. step[k][f[k - 1]] = IF k \in 2..n THEN f[k - 1] \o seqs[k] ELSE seqs[1]
    BY <2>1
  <2> QED BY <2>2, <2>3, <2>4
<1> DEFINE e == [i \in 1..n |-> f[i]]
<1>7. Loop(e)
  <2> SUFFICES ASSUME NEW i \in 1..n PROVE f[i] = IF i = 1 THEN seqs[i] ELSE e[i - 1] \o seqs[i]
    OBVIOUS
  <2>1. i # 1 => i - 1 \in 1..n
    BY <1>0
  <2> QED BY <1>6, <2>1
<1> DEFINE h == CHOOSE g : Loop(g)
<1>8. Loop(h)
  <2> HIDE DEF Loop, e
  <2> QED BY <1>7
<1>9. FlattenSeq(seqs) = h[n]
  BY DEF FlattenSeq
<1>10. h[1] = seqs[1] /\ \A k \in 2..n : h[k] = h[k - 1] \o seqs[k]
  <2> HIDE DEF h
  <2>1. \A i \in 1..n : h[i] = IF i = 1 THEN seqs[i] ELSE h[i - 1] \o seqs[i]
    BY <1>8
  <2>2. \A k \in 2..n : k \in 1..n /\ k # 1
    BY <1>0
  <2> QED BY <1>0, <2>1, <2>2
<1> HIDE DEF h
<1>11. Flattens(h, seqs)
  BY <1>9, <1>10 DEF Flattens
<1> QED BY <1>11

\* What FlattenSeq yields.
LEMMA FlattenPlaces ==
  ASSUME NEW C, NEW seqs \in Seq(Seq(C))
  PROVE  \E at : Flat(C, FlattenSeq(seqs), seqs, at)
<1> DEFINE n == Len(seqs)
<1>0. n \in Nat
  OBVIOUS
<1>1. CASE n = 0
  <2>1. FlattenSeq(seqs) = seqs /\ seqs = <<>>
    BY <1>1 DEF FlattenSeq
  <2>2. <<>> \in Seq(C) /\ Len(<<>>) = 0
    OBVIOUS
  <2>3. Flat(C, <<>>, <<>>, [k \in 0..0 |-> 0])
    BY <2>2 DEF Flat
  <2> QED BY <2>1, <2>3
<1>2. CASE n # 0
  <2>1. PICK h : Flattens(h, seqs)
    BY <1>2, FlattenLoop
  <2> DEFINE F == [k \in 0..n |-> IF k = 0 THEN <<>> ELSE h[k]]
             at == [k \in 0..n |-> Len(F[k])]
             Ok(k, m) == /\ at[m - 1] \in Nat /\ at[m] = at[m - 1] + Len(seqs[m]) /\ at[m] <= at[k]
                         /\ \A j \in 1..Len(seqs[m]) : F[k][at[m - 1] + j] = seqs[m][j]
             S == {k \in Nat : k <= n => F[k] \in Seq(C) /\ \A m \in 1..k : Ok(k, m)}
  <2>2. \A k \in 1..n : seqs[k] \in Seq(C) /\ Len(seqs[k]) \in Nat
    OBVIOUS
  <2>3. F[0] = <<>> /\ FlattenSeq(seqs) = F[n]
    BY <1>0, <1>2, <2>1 DEF Flattens
  <2>4. ASSUME NEW k \in 1..n PROVE F[k] = F[k - 1] \o seqs[k]
    <3>1. CASE k = 1
      <4>1. F[k] = seqs[k] /\ F[k - 1] = <<>> /\ seqs[k] \in Seq(C)
        BY <1>0, <2>1, <2>2, <3>1 DEF Flattens
      <4>2. <<>> \o seqs[k] = seqs[k]
        BY <4>1
      <4> QED BY <4>1, <4>2
    <3>2. CASE k # 1
      <4>1. k \in 2..n /\ k \in 0..n /\ k - 1 \in 0..n /\ k # 0 /\ k - 1 # 0
        BY <1>0, <3>2
      <4>2. h[k] = h[k - 1] \o seqs[k]
        BY <2>1, <4>1 DEF Flattens
      <4> QED BY <4>1, <4>2
    <3> QED BY <3>1, <3>2
  <2>5. \A k \in 0..n : at[k] = Len(F[k])
    OBVIOUS
  <2> HIDE DEF F, n
  <2>6. 0 \in S
    <3>1. F[0] \in Seq(C) /\ 1..0 = {}
      BY <2>3
    <3> HIDE DEF Ok
    <3> QED BY <3>1
  <2>7. ASSUME NEW k \in Nat, k \in S PROVE k + 1 \in S
    <3> SUFFICES ASSUME k + 1 <= n PROVE F[k + 1] \in Seq(C) /\ \A m \in 1..(k + 1) : Ok(k + 1, m)
      <4> HIDE DEF Ok
      <4> QED OBVIOUS
    <3>0. k + 1 \in 1..n /\ k \in 0..n /\ k + 1 \in 0..n /\ (k + 1) - 1 = k /\ k <= n
      BY <1>0
    <3>1. F[k] \in Seq(C) /\ \A m \in 1..k : Ok(k, m)
      BY <2>7, <3>0
    <3>2. F[k + 1] = F[k] \o seqs[k + 1] /\ seqs[k + 1] \in Seq(C)
      BY <2>2, <2>4, <3>0
    <3>3. /\ F[k + 1] \in Seq(C) /\ Len(F[k]) \in Nat /\ Len(seqs[k + 1]) \in Nat
          /\ Len(F[k + 1]) = Len(F[k]) + Len(seqs[k + 1])
          /\ \A i \in 1..Len(F[k]) : F[k + 1][i] = F[k][i]
          /\ \A i \in 1..Len(seqs[k + 1]) : F[k + 1][Len(F[k]) + i] = seqs[k + 1][i]
      <4> DEFINE a == F[k]
                 b == seqs[k + 1]
      <4>1. a \in Seq(C) /\ b \in Seq(C) /\ F[k + 1] = a \o b
        BY <3>1, <3>2
      <4> HIDE DEF a, b
      <4>2. /\ a \o b \in Seq(C) /\ Len(a) \in Nat /\ Len(b) \in Nat /\ Len(a \o b) = Len(a) + Len(b)
            /\ \A i \in 1..Len(a) : (a \o b)[i] = a[i]
            /\ \A i \in 1..Len(b) : (a \o b)[Len(a) + i] = b[i]
        BY <4>1
      <4> QED BY <4>1, <4>2, Zenon DEF a, b
    <3>4. at[k] = Len(F[k]) /\ at[k + 1] = Len(F[k + 1])
      BY <2>5, <3>0
    <3> HIDE DEF at
    <3>5. Ok(k + 1, k + 1)
      <4>1. at[k] \in Nat /\ at[k + 1] = at[k] + Len(seqs[k + 1]) /\ at[k + 1] \in Nat
        <5> DEFINE a == Len(F[k])
                   b == Len(seqs[k + 1])
                   c == Len(F[k + 1])
        <5>1. a \in Nat /\ b \in Nat /\ c = a + b /\ at[k] = a /\ at[k + 1] = c
          BY <3>3, <3>4, Zenon
        <5>2. b = Len(seqs[k + 1])
          OBVIOUS
        <5> HIDE DEF a, b, c
        <5> QED BY <5>1, <5>2
      <4>2. at[k + 1] <= at[k + 1]
        BY <4>1
      <4>3. \A j \in 1..Len(seqs[k + 1]) : F[k + 1][at[k] + j] = seqs[k + 1][j]
        BY <3>3, <3>4, Zenon
      <4> QED BY <3>0, <4>1, <4>2, <4>3, Zenon
    <3>6. ASSUME NEW m \in 1..k PROVE Ok(k + 1, m)
      <4>1. Ok(k, m)
        BY <3>1
      <4>2. m \in 1..n /\ Len(seqs[m]) \in Nat
        BY <1>0, <2>2, <3>0
      <4>3. at[k] \in Nat /\ at[k + 1] \in Nat /\ at[k] <= at[k + 1]
        <5> DEFINE a == Len(F[k])
                   b == Len(seqs[k + 1])
                   c == Len(F[k + 1])
        <5>1. a \in Nat /\ b \in Nat /\ c = a + b /\ at[k] = a /\ at[k + 1] = c
          BY <3>3, <3>4, Zenon
        <5> HIDE DEF a, b, c
        <5> QED BY <5>1
      <4>4. at[m] <= at[k + 1]
        BY <4>1, <4>2, <4>3, SMTT(30)
      <4>5. ASSUME NEW j \in 1..Len(seqs[m]) PROVE F[k + 1][at[m - 1] + j] = seqs[m][j]
        <5> DEFINE x == at[m - 1]
                   y == at[m]
                   z == at[k]
                   w == Len(seqs[m])
        <5>0. x \in Nat /\ y = x + w /\ y <= z /\ z \in Nat /\ w \in Nat /\ z = Len(F[k]) /\ j \in 1..w
          BY <3>4, <4>1, <4>2, <4>3, Zenon
        <5> HIDE DEF x, y, z, w
        <5>2. x + j \in 1..z
          BY <5>0
        <5>1. at[m - 1] + j \in 1..Len(F[k])
          BY <5>0, <5>2, Zenon DEF x
        <5> QED BY <3>3, <4>1, <5>1
      <4> QED BY <4>1, <4>4, <4>5
    <3>7. \A m \in 1..(k + 1) : m = k + 1 \/ m \in 1..k
      OBVIOUS
    <3> HIDE DEF Ok
    <3> QED BY <3>3, <3>5, <3>6, <3>7
  <2> HIDE DEF S
  <2>8. Nat \subseteq S
    BY <2>6, <2>7, Induction
  <2>9. \A k \in 0..n : F[k] \in Seq(C) /\ \A m \in 1..k : Ok(k, m)
    <3> HIDE DEF Ok
    <3> QED BY <1>0, <2>8 DEF S
  <2>10. at \in [0..n -> Nat]
    BY <2>9
  <2>11. n \in 0..n /\ 0 \in 0..n
    BY <1>0
  <2>12. F[n] \in Seq(C) /\ at[0] = 0 /\ Len(F[n]) = at[n]
    BY <2>3, <2>5, <2>9, <2>11
  <2> HIDE DEF at
  <2>13. \A k \in 1..n : /\ at[k] = at[k - 1] + Len(seqs[k])
                         /\ \A j \in 1..Len(seqs[k]) : F[n][at[k - 1] + j] = seqs[k][j]
    BY <2>9, <2>11
  <2>14. Flat(C, F[n], seqs, at)
    BY <2>10, <2>12, <2>13 DEF Flat, n
  <2> QED BY <2>3, <2>14
<1> QED BY <1>1, <1>2

\* The text T stands in J behind p.
Within(J, T, p) == /\ p \in Nat /\ p + Len(T) <= Len(J)
                   /\ \A i \in 1..Len(T) : J[p + i] = T[i]

\* Where a text stands, its parts stand.
LEMMA Split ==
  ASSUME NEW C, NEW J \in Seq(C), NEW a \in Seq(C), NEW b \in Seq(C), NEW p, Within(J, a \o b, p)
  PROVE  Within(J, a, p) /\ Within(J, b, p + Len(a))
<1> DEFINE m == Len(a)
           n == Len(b)
           t == a \o b
<1>1. /\ m \in Nat /\ n \in Nat /\ Len(t) = m + n /\ Len(J) \in Nat
      /\ \A i \in 1..m : t[i] = a[i]
      /\ \A i \in 1..n : t[m + i] = b[i]
  OBVIOUS
<1>2. p \in Nat /\ p + Len(t) <= Len(J) /\ \A i \in 1..Len(t) : J[p + i] = t[i]
  BY Zenon DEF Within
<1> HIDE DEF m, n, t
<1>3. Within(J, a, p)
  <2>1. p + m <= Len(J)
    BY <1>1, <1>2
  <2>2. ASSUME NEW i \in 1..m PROVE J[p + i] = a[i]
    <3>1. i \in 1..Len(t)
      BY <1>1
    <3> QED BY <1>1, <1>2, <3>1
  <2> QED BY <1>2, <2>1, <2>2 DEF Within, m
<1>4. Within(J, b, p + m)
  <2>1. p + m \in Nat /\ (p + m) + n <= Len(J)
    BY <1>1, <1>2
  <2>2. ASSUME NEW i \in 1..n PROVE J[(p + m) + i] = b[i]
    <3>1. m + i \in 1..Len(t) /\ (p + m) + i = p + (m + i)
      BY <1>1, <1>2
    <3> QED BY <1>1, <1>2, <3>1
  <2> QED BY <2>1, <2>2 DEF Within, n
<1> QED BY <1>3, <1>4 DEF m

\* A single character.
LEMMA OneWithin ==
  ASSUME NEW C, NEW J \in Seq(C), NEW c, NEW p, Within(J, <<c>>, p)
  PROVE  p \in Nat /\ p + 1 <= Len(J) /\ J[p + 1] = c
<1>1. Len(<<c>>) = 1 /\ <<c>>[1] = c /\ 1 \in 1..1
  OBVIOUS
<1> QED BY <1>1 DEF Within

\* T is the string s of a JSON text, quoted and escaped.
Quoted(C, T, s, at) == /\ T \in Seq(C) /\ Spelled(T, s, at) /\ at[0] = 1 /\ T[1] = Quote
                       /\ Len(T) = at[Len(s)] + 1 /\ T[at[Len(s)] + 1] = Quote

\* How the control plane writes the character c.
Written(C, e, c) == /\ e \in Seq(C)
                    /\ \/ Len(e) = 1 /\ e[1] = c /\ c \notin {Quote, Backslash}
                       \/ Len(e) = 2 /\ e[1] = Backslash /\ unescape(e[2]) = c

JsonChar(c, slashes) == CASE c \in {Quote, Backslash} -> <<Backslash, c>>
                          [] c = "\n" -> <<Backslash, "n">>
                          [] c = "/" /\ slashes -> <<Backslash, "/">>
                          [] OTHER -> <<c>>

\* One character of the control plane's JSON.
LEMMA JsonCharWritten ==
  ASSUME NEW C, Charset(C), NEW c \in C, NEW slashes
  PROVE  Written(C, JsonChar(c, slashes), c)
<1>1. Backslash \in C /\ "n" \in C
  BY DEF Charset, Syntax
<1>2. ASSUME NEW d \in C, unescape(d) = c PROVE Written(C, <<Backslash, d>>, c)
  <2>1. /\ <<Backslash, d>> \in Seq(C) /\ Len(<<Backslash, d>>) = 2
        /\ <<Backslash, d>>[1] = Backslash /\ <<Backslash, d>>[2] = d
    BY <1>1
  <2> QED BY <1>2, <2>1, Zenon DEF Written
<1>3. ASSUME c \notin {Quote, Backslash} PROVE Written(C, <<c>>, c)
  <2>1. <<c>> \in Seq(C) /\ Len(<<c>>) = 1 /\ <<c>>[1] = c
    OBVIOUS
  <2> QED BY <1>3, <2>1, Zenon DEF Written
<1>4. CASE c \in {Quote, Backslash}
  <2>1. unescape(c) = c
    BY <1>4 DEF unescape, Quote, Backslash
  <2>2. JsonChar(c, slashes) = <<Backslash, c>>
    BY <1>4 DEF JsonChar, Quote, Backslash
  <2> QED BY <1>2, <2>1, <2>2
<1>5. CASE c = "\n"
  <2>1. unescape("n") = c
    BY <1>5 DEF unescape
  <2>2. JsonChar(c, slashes) = <<Backslash, "n">>
    BY <1>5 DEF JsonChar, Quote, Backslash
  <2> QED BY <1>1, <1>2, <2>1, <2>2
<1>6. CASE c = "/" /\ slashes
  <2>1. unescape(c) = c
    BY <1>6 DEF unescape
  <2>2. JsonChar(c, slashes) = <<Backslash, c>>
    BY <1>6 DEF JsonChar, Quote, Backslash
  <2> QED BY <1>2, <2>1, <2>2
<1>7. CASE c \notin {Quote, Backslash} /\ c # "\n" /\ ~(c = "/" /\ slashes)
  <2>1. JsonChar(c, slashes) = <<c>>
    BY <1>7 DEF JsonChar
  <2> QED BY <1>3, <1>7, <2>1
<1> QED BY <1>4, <1>5, <1>6, <1>7

\* A text between two marks.
LEMMA Bracketed ==
  ASSUME NEW C, NEW q \in C, NEW R \in Seq(C), NEW T, T = <<q>> \o R \o <<q>>
  PROVE  /\ T \in Seq(C) /\ Len(T) = Len(R) + 2 /\ T[1] = q /\ T[Len(R) + 2] = q
         /\ \A i \in 1..Len(R) : T[1 + i] = R[i]
<1> DEFINE U == <<q>> \o R
<1>1. U \in Seq(C) /\ Len(U) = Len(R) + 1 /\ U[1] = q /\ \A i \in 1..Len(R) : U[1 + i] = R[i]
  OBVIOUS
<1> HIDE DEF U
<1>2. T = U \o <<q>> /\ Len(R) \in Nat
  BY DEF U
<1>3. T \in Seq(C) /\ Len(T) = Len(U) + 1 /\ T[Len(U) + 1] = q /\ \A i \in 1..Len(U) : T[i] = U[i]
  BY <1>1, <1>2
<1> QED BY <1>1, <1>2, <1>3

\* A string as the control plane writes it: quoted, every character as it is or
\* behind a backslash.
LEMMA JsonStringQuoted ==
  ASSUME NEW C, Charset(C), NEW s \in Seq(C), NEW slashes
  PROVE  \E at : Quoted(C, JsonString(s, slashes), s, at)
<1> DEFINE n == Len(s)
           seqs == [j \in 1..n |-> JsonChar(s[j], slashes)]
           R == FlattenSeq(seqs)
           T == JsonString(s, slashes)
<1>0. n \in Nat /\ DOMAIN s = 1..n
  OBVIOUS
<1>1. T = <<Quote>> \o R \o <<Quote>>
  BY <1>0 DEF JsonString, JsonChar
<1>2. ASSUME NEW j \in 1..n PROVE Written(C, JsonChar(s[j], slashes), s[j])
  <2>1. s[j] \in C
    OBVIOUS
  <2> QED BY <2>1, JsonCharWritten
<1>3. /\ seqs \in Seq(Seq(C)) /\ Len(seqs) = n
      /\ \A j \in 1..n : Written(C, seqs[j], s[j])
  <2>1. \A j \in 1..n : JsonChar(s[j], slashes) \in Seq(C)
    BY <1>2 DEF Written
  <2>2. seqs \in [1..n -> Seq(C)]
    BY <2>1
  <2>3. seqs \in Seq(Seq(C)) /\ Len(seqs) = n
    <3> HIDE DEF seqs, n
    <3> QED BY <1>0, <2>2
  <2> QED BY <1>2, <2>3
<1> HIDE DEF seqs, n
<1>4. PICK b : Flat(C, R, seqs, b)
  BY <1>3, FlattenPlaces
<1> HIDE DEF R, T
<1>5. /\ R \in Seq(C) /\ b \in [0..n -> Nat] /\ b[0] = 0 /\ Len(R) = b[n]
      /\ \A k \in 1..n : /\ b[k] = b[k - 1] + Len(seqs[k])
                         /\ \A j \in 1..Len(seqs[k]) : R[b[k - 1] + j] = seqs[k][j]
  BY <1>3, <1>4, Zenon DEF Flat
<1>6. Quote \in C
  BY DEF Charset, Syntax
<1>7. T \in Seq(C) /\ Len(T) = b[n] + 2 /\ T[1] = Quote /\ T[b[n] + 2] = Quote
      /\ \A i \in 1..b[n] : T[1 + i] = R[i]
  <2>1. /\ T \in Seq(C) /\ Len(T) = Len(R) + 2 /\ T[1] = Quote /\ T[Len(R) + 2] = Quote
        /\ \A i \in 1..Len(R) : T[1 + i] = R[i]
    BY <1>1, <1>5, <1>6, Bracketed, SMTT(30)
  <2> QED BY <1>5, <2>1, Zenon
<1> DEFINE at == [k \in 0..n |-> b[k] + 1]
<1>8. at \in [0..n -> Nat] /\ at[0] = 1 /\ at[n] = b[n] + 1 /\ b[n] \in Nat
  BY <1>0, <1>5
<1>9. ASSUME NEW k \in 1..n
      PROVE  b[k - 1] \in Nat /\ b[k] \in Nat /\ b[k] <= b[n]
  <2>0. \A i \in 0..n : b[i] \in Nat
    BY <1>5
  <2> DEFINE S == {d \in Nat : d <= n - k => b[k] <= b[k + d]}
  <2>1. 0 \in S
    <3>1. b[k] \in Nat /\ k + 0 = k
      BY <1>0, <2>0
    <3> QED BY <3>1
  <2>2. ASSUME NEW d \in Nat, d \in S PROVE d + 1 \in S
    <3> SUFFICES ASSUME d + 1 <= n - k PROVE b[k] <= b[k + (d + 1)]
      OBVIOUS
    <3>1. k + (d + 1) \in 1..n /\ (k + (d + 1)) - 1 = k + d /\ d <= n - k
      BY <1>0
    <3>2. b[k + (d + 1)] = b[k + d] + Len(seqs[k + (d + 1)])
      BY <1>5, <3>1
    <3>3. Len(seqs[k + (d + 1)]) \in Nat
      BY <1>3, <3>1 DEF Written
    <3>4. b[k] \in Nat /\ b[k + d] \in Nat /\ b[k] <= b[k + d]
      BY <1>0, <2>0, <2>2, <3>1
    <3> QED BY <3>2, <3>3, <3>4
  <2> HIDE DEF S
  <2>3. Nat \subseteq S
    BY <2>1, <2>2, Induction
  <2>4. n - k \in Nat /\ k + (n - k) = n
    BY <1>0
  <2>5. b[k] <= b[n]
    BY <2>3, <2>4 DEF S
  <2> QED BY <1>0, <2>0, <2>5
<1>10. ASSUME NEW k \in 1..n
       PROVE  Whole(T, s[k], at[k - 1], at[k]) \/ Coded(T, s[k], at[k - 1], at[k])
  <2>1. at[k - 1] = b[k - 1] + 1 /\ at[k] = b[k] + 1
    BY <1>0
  <2> HIDE DEF at
  <2> DEFINE e == seqs[k]
             x == b[k - 1]
             y == b[k]
  <2>2. /\ x \in Nat /\ y \in Nat /\ y <= b[n] /\ y = x + Len(e)
        /\ \A j \in 1..Len(e) : R[x + j] = e[j]
    BY <1>5, <1>9
  <2>3. Written(C, e, s[k])
    BY <1>3
  <2>4. at[k - 1] = x + 1 /\ at[k] = y + 1
    BY <2>1
  <2> HIDE DEF e, x, y
  <2>5. CASE Len(e) = 1 /\ e[1] = s[k] /\ s[k] \notin {Quote, Backslash}
    <3>1. 1 \in 1..Len(e) /\ x + 1 \in 1..b[n] /\ 1 + (x + 1) = (x + 1) + 1 /\ y + 1 = (x + 1) + 1
      BY <1>8, <2>2, <2>5
    <3>2. T[(x + 1) + 1] = s[k]
      BY <1>7, <2>2, <2>5, <3>1
    <3> QED BY <2>4, <2>5, <3>1, <3>2, Zenon DEF Whole
  <2>6. CASE Len(e) = 2 /\ e[1] = Backslash /\ unescape(e[2]) = s[k]
    <3>1. /\ 1 \in 1..Len(e) /\ x + 1 \in 1..b[n] /\ 1 + (x + 1) = (x + 1) + 1
          /\ 2 \in 1..Len(e) /\ x + 2 \in 1..b[n] /\ 1 + (x + 2) = (x + 1) + 2
          /\ y + 1 = (x + 1) + 2
      BY <1>8, <2>2, <2>6
    <3>2. T[(x + 1) + 1] = Backslash /\ T[(x + 1) + 2] = e[2]
      BY <1>7, <2>2, <2>6, <3>1
    <3> QED BY <2>4, <2>6, <3>1, <3>2, Zenon DEF Coded
  <2> QED BY <2>3, <2>5, <2>6 DEF Written
<1> HIDE DEF at
<1>11. Spelled(T, s, at)
  BY <1>8, <1>10 DEF Spelled, n
<1>12. at[n] + 1 = b[n] + 2
  BY <1>8
<1>13. Quoted(C, T, s, at)
  BY <1>7, <1>8, <1>11, <1>12 DEF Quoted, n
<1> QED BY <1>13 DEF T

\* The length of a text appended.
LEMMA AppendedLength ==
  ASSUME NEW C, NEW a \in Seq(C), NEW b \in Seq(C)
  PROVE  a \o b \in Seq(C) /\ Len(a \o b) = Len(a) + Len(b)
OBVIOUS

\* What follows a member.
EndsMember(c) == c \in {",", "}"}

\* The parts of a member behind p.
MemberPieces(J, p, f, gap, text) ==
  /\ Within(J, <<Quote>>, p) /\ Within(J, f, p + 1) /\ Within(J, <<Quote>>, p + 1 + Len(f))
  /\ Within(J, gap, p + Len(f) + 2) /\ Within(J, <<":">>, p + Len(f) + Len(gap) + 2)
  /\ Within(J, gap, p + Len(f) + Len(gap) + 3)
  /\ Within(J, text, p + Len(f) + 2 * Len(gap) + 3)

\* The length of a member, and its parts.
LEMMA MemberParts ==
  ASSUME NEW C, Charset(C), NEW J \in Seq(C), NEW p, NEW f \in Seq(C), NEW gap \in Seq(C),
         NEW text \in Seq(C), Within(J, Member(f, text, gap), p)
  PROVE  /\ Member(f, text, gap) \in Seq(C)
         /\ Len(Member(f, text, gap)) = Len(f) + 2 * Len(gap) + 3 + Len(text)
         /\ MemberPieces(J, p, f, gap, text)
<1> DEFINE q == <<Quote>>
           d == <<":">>
           x1 == q \o f
           x2 == x1 \o q
           x3 == x2 \o gap
           x4 == x3 \o d
           x5 == x4 \o gap
           x6 == x5 \o text
           m == Len(f)
           g == Len(gap)
<1>1. Quote \in C /\ ":" \in C
  BY DEF Charset, Syntax
<1>2. q \in Seq(C) /\ d \in Seq(C) /\ Len(q) = 1 /\ Len(d) = 1 /\ m \in Nat /\ g \in Nat
      /\ Len(text) \in Nat
  BY <1>1
<1>3. Member(f, text, gap) = x6
  BY Zenon DEF Member
<1> HIDE DEF q, d, m, g
<1>4. x1 \in Seq(C) /\ Len(x1) = 1 + m
  <2>1. x1 \in Seq(C) /\ Len(x1) = Len(q) + Len(f)
    BY <1>2, AppendedLength
  <2>2. Len(f) = m
    BY <1>2 DEF m
  <2> HIDE DEF x1
  <2> QED BY <1>2, <2>1, <2>2
<1>5. x2 \in Seq(C) /\ Len(x2) = 2 + m
  <2> HIDE DEF x1
  <2>1. x2 \in Seq(C) /\ Len(x2) = Len(x1) + Len(q)
    BY <1>2, <1>4, AppendedLength
  <2>2. Len(q) = 1
    BY <1>2
  <2> HIDE DEF x2
  <2> QED BY <1>2, <1>4, <2>1, <2>2
<1>6. x3 \in Seq(C) /\ Len(x3) = 2 + m + g
  <2> HIDE DEF x2
  <2>1. x3 \in Seq(C) /\ Len(x3) = Len(x2) + Len(gap)
    BY <1>2, <1>5, AppendedLength
  <2>2. Len(gap) = g
    BY <1>2 DEF g
  <2> HIDE DEF x3
  <2> QED BY <1>2, <1>5, <2>1, <2>2
<1>7. x4 \in Seq(C) /\ Len(x4) = 3 + m + g
  <2> HIDE DEF x3
  <2>1. x4 \in Seq(C) /\ Len(x4) = Len(x3) + Len(d)
    BY <1>2, <1>6, AppendedLength
  <2>2. Len(d) = 1
    BY <1>2
  <2> HIDE DEF x4
  <2> QED BY <1>2, <1>6, <2>1, <2>2
<1>8. x5 \in Seq(C) /\ Len(x5) = 3 + m + g + g
  <2> HIDE DEF x4
  <2>1. x5 \in Seq(C) /\ Len(x5) = Len(x4) + Len(gap)
    BY <1>2, <1>7, AppendedLength
  <2>2. Len(gap) = g
    BY <1>2 DEF g
  <2> HIDE DEF x5
  <2> QED BY <1>2, <1>7, <2>1, <2>2
<1>9. x6 \in Seq(C) /\ Len(x6) = 3 + m + g + g + Len(text)
  <2> HIDE DEF x5
  <2>1. x6 \in Seq(C) /\ Len(x6) = Len(x5) + Len(text)
    BY <1>2, <1>8, AppendedLength
  <2>2. Len(text) = Len(text)
    BY <1>2
  <2> HIDE DEF x6
  <2> QED BY <1>2, <1>8, <2>1, <2>2
<1>10. Within(J, x5, p) /\ Within(J, text, p + Len(x5))
  <2> HIDE DEF x5
  <2> QED BY <1>3, <1>8, Split
<1>11. Within(J, x4, p) /\ Within(J, gap, p + Len(x4))
  <2> HIDE DEF x4
  <2> QED BY <1>10, <1>7, Split
<1>12. Within(J, x3, p) /\ Within(J, d, p + Len(x3))
  <2> HIDE DEF x3
  <2> QED BY <1>2, <1>11, <1>6, Split
<1>13. Within(J, x2, p) /\ Within(J, gap, p + Len(x2))
  <2> HIDE DEF x2
  <2> QED BY <1>12, <1>5, Split
<1>14. Within(J, x1, p) /\ Within(J, q, p + Len(x1))
  <2> HIDE DEF x1
  <2> QED BY <1>2, <1>13, <1>4, Split
<1>15. Within(J, q, p) /\ Within(J, f, p + Len(q))
  BY <1>2, <1>14, Split
<1> HIDE DEF x1, x2, x3, x4, x5, x6
<1>16. p \in Nat
  BY <1>15, Zenon DEF Within
<1>17. /\ p + Len(q) = p + 1 /\ p + Len(x1) = p + 1 + m /\ p + Len(x2) = p + m + 2
       /\ p + Len(x3) = p + m + g + 2 /\ p + Len(x4) = p + m + g + 3
       /\ p + Len(x5) = p + m + 2 * g + 3 /\ Len(x6) = m + 2 * g + 3 + Len(text)
  BY <1>2, <1>4, <1>5, <1>6, <1>7, <1>8, <1>9, <1>16
<1>18. MemberPieces(J, p, f, gap, text)
  BY <1>10, <1>11, <1>12, <1>13, <1>14, <1>15, <1>17, Zenon DEF MemberPieces, q, d, m, g
<1> QED BY <1>3, <1>9, <1>17, <1>18, Zenon DEF m, g

\* A spelling stays one where the text stands.
LEMMA SpelledWithin ==
  ASSUME NEW C, NEW J \in Seq(C), NEW T \in Seq(C), NEW s \in Seq(C), NEW b, Spelled(T, s, b),
         b[Len(s)] <= Len(T), NEW p, Within(J, T, p)
  PROVE  Spelled(J, s, [k \in 0..Len(s) |-> p + b[k]])
<1> DEFINE n == Len(s)
           at == [k \in 0..n |-> p + b[k]]
<1>0. n \in Nat /\ Len(T) \in Nat
  OBVIOUS
<1>1. /\ \A k \in 0..n : b[k] \in Nat
      /\ \A k \in 0..n : \A m \in 0..k : b[m] + (k - m) <= b[k]
  BY SpelledIncrease
<1>2. p \in Nat /\ \A i \in 1..Len(T) : J[p + i] = T[i]
  BY DEF Within
<1>3. at \in [0..n -> Nat]
  BY <1>1, <1>2
<1>4. ASSUME NEW k \in 1..n
      PROVE  Whole(J, s[k], at[k - 1], at[k]) \/ Coded(J, s[k], at[k - 1], at[k])
  <2> DEFINE x == b[k - 1]
             y == b[k]
  <2>1. at[k - 1] = p + x /\ at[k] = p + y
    BY <1>0
  <2>2. x \in Nat /\ y \in Nat /\ y <= Len(T)
    <3>1. k - 1 \in 0..n /\ k \in 0..n /\ n \in 0..n /\ k \in Nat
      BY <1>0
    <3>2. y + (n - k) <= b[n] /\ b[n] \in Nat
      BY <1>1, <3>1
    <3>3. x \in Nat /\ y \in Nat
      BY <1>1, <3>1
    <3> HIDE DEF y
    <3> QED BY <1>0, <3>2, <3>3
  <2>3. Whole(T, s[k], x, y) \/ Coded(T, s[k], x, y)
    BY DEF Spelled
  <2> HIDE DEF at, x, y
  <2>4. CASE Whole(T, s[k], x, y)
    <3>1. y = x + 1 /\ T[x + 1] = s[k] /\ s[k] \notin {Quote, Backslash}
      BY <2>4, Zenon DEF Whole
    <3>2. x + 1 \in 1..Len(T) /\ p + (x + 1) = (p + x) + 1 /\ p + y = (p + x) + 1
      BY <1>0, <1>2, <2>2, <3>1
    <3>3. J[(p + x) + 1] = s[k]
      BY <1>2, <3>1, <3>2
    <3> QED BY <2>1, <3>1, <3>2, <3>3, Zenon DEF Whole
  <2>5. CASE Coded(T, s[k], x, y)
    <3>1. y = x + 2 /\ T[x + 1] = Backslash /\ unescape(T[x + 2]) = s[k]
      BY <2>5, Zenon DEF Coded
    <3>2. /\ x + 1 \in 1..Len(T) /\ p + (x + 1) = (p + x) + 1 /\ p + y = (p + x) + 2
          /\ x + 2 \in 1..Len(T) /\ p + (x + 2) = (p + x) + 2
      BY <1>0, <1>2, <2>2, <3>1
    <3>3. J[(p + x) + 1] = Backslash /\ J[(p + x) + 2] = T[x + 2]
      BY <1>2, <3>1, <3>2, SMTT(30)
    <3> QED BY <2>1, <3>1, <3>2, <3>3, Zenon DEF Coded
  <2> QED BY <2>3, <2>4, <2>5
<1> QED BY <1>3, <1>4 DEF Spelled

\* A text of blanks leaves a gap.
LEMMA GapWithin ==
  ASSUME NEW C, NEW J \in Seq(C), NEW gap \in Seq(Blanks), NEW p, Within(J, gap, p)
  PROVE  BlankGap(J, p + 1, p + 1 + Len(gap))
<1>1. p \in Nat /\ Len(gap) \in Nat /\ \A i \in 1..Len(gap) : J[p + i] = gap[i] /\ gap[i] \in Blanks
  BY DEF Within
<1> SUFFICES ASSUME NEW k \in (p + 1)..((p + 1 + Len(gap)) - 1) PROVE J[k] \in Blanks
  BY DEF BlankGap
<1>2. k - p \in 1..Len(gap) /\ p + (k - p) = k
  BY <1>1
<1> QED BY <1>1, <1>2

\* The member stands in J from o on, up to a separator at e.
Standing(J, o, f, s, e) == \E c, at : MemberAt(J, o, f, c, s, at) /\ at[Len(s)] + 2 = e

\* A member as the control plane writes it, where it stands.
LEMMA MemberStands ==
  ASSUME NEW C, Charset(C), Blanks \subseteq C, NEW J \in Seq(C), NEW p, NEW f \in Seq(C),
         NEW gap \in Seq(Blanks), NEW s \in Seq(C), NEW slashes,
         NEW M, M = Member(f, JsonString(s, slashes), gap), Within(J, M, p),
         Len(M) \in Nat, p + Len(M) + 1 <= Len(J), EndsMember(J[p + Len(M) + 1])
  PROVE  Standing(J, p + 1, f, s, p + Len(M) + 1)
<1> DEFINE T == JsonString(s, slashes)
           n == Len(s)
           m == Len(f)
           g == Len(gap)
           r == p + m + 2 * g + 3
           c == p + m + g + 3
<1>1. PICK b : Quoted(C, T, s, b)
  BY JsonStringQuoted
<1>2. /\ T \in Seq(C) /\ Spelled(T, s, b) /\ b[0] = 1 /\ T[1] = Quote
      /\ Len(T) = b[n] + 1 /\ T[b[n] + 1] = Quote
  BY <1>1, Zenon DEF Quoted
<1>3. n \in Nat /\ m \in Nat /\ g \in Nat /\ gap \in Seq(C)
  OBVIOUS
<1> HIDE DEF T
<1>4. Len(M) = m + 2 * g + 3 + Len(T) /\ MemberPieces(J, p, f, gap, T)
  BY <1>2, <1>3, MemberParts, SMTT(30) DEF T
<1>5. b[n] \in Nat /\ 1 <= b[n]
  <2>1. n \in 0..n /\ 0 \in 0..n
    BY <1>3
  <2>2. b[n] \in Nat /\ b[0] + (n - 0) <= b[n]
    BY <1>2, <2>1, SpelledIncrease
  <2> QED BY <1>2, <1>3, <2>2
<1>6. /\ Within(J, <<Quote>>, p) /\ Within(J, f, p + 1) /\ Within(J, <<Quote>>, p + 1 + m)
      /\ Within(J, gap, p + m + 2) /\ Within(J, <<":">>, p + m + g + 2)
      /\ Within(J, gap, p + m + g + 3) /\ Within(J, T, r)
  BY <1>4, Zenon DEF MemberPieces
<1>7. p \in Nat
  BY <1>6, Zenon DEF Within
<1> HIDE DEF n, m, g
<1> DEFINE at == [k \in 0..n |-> r + b[k]]
<1>8. at[0] = r + 1 /\ at[n] = r + b[n] /\ at[n] \in Nat
  <2>1. r \in Nat
    BY <1>3, <1>7
  <2> HIDE DEF r
  <2>2. 0 \in 0..n /\ n \in 0..n
    BY <1>3
  <2>3. at[0] = r + b[0] /\ at[n] = r + b[n]
    BY <2>2
  <2> HIDE DEF at
  <2> QED BY <1>2, <1>5, <2>1, <2>3, SMTT(30)
<1>9. Spelled(J, s, at)
  <2>1. b[Len(s)] <= Len(T)
    BY <1>2, <1>5 DEF n
  <2> HIDE DEF r
  <2> QED BY <1>2, <1>6, <2>1, SpelledWithin DEF n
<1> HIDE DEF at
<1>10. J[p + 1] = Quote /\ J[(p + 1) + m + 1] = Quote /\ J[c] = ":"
  <2>1. J[p + 1] = Quote /\ J[p + 1 + m + 1] = Quote /\ J[p + m + g + 2 + 1] = ":"
    BY <1>6, OneWithin
  <2>2. p + m + g + 2 + 1 = c
    BY <1>3, <1>7
  <2> QED BY <2>1, <2>2
<1>11. \A k \in 1..m : J[(p + 1) + k] = f[k]
  BY <1>6, Zenon DEF Within, m
<1>12. BlankGap(J, (p + 1) + m + 2, c) /\ BlankGap(J, c + 1, at[0])
  <2>1. BlankGap(J, p + m + 2 + 1, p + m + 2 + 1 + g)
        /\ BlankGap(J, p + m + g + 3 + 1, p + m + g + 3 + 1 + g)
    BY <1>6, GapWithin DEF g
  <2>2. /\ p + m + 2 + 1 = (p + 1) + m + 2 /\ p + m + 2 + 1 + g = c
        /\ p + m + g + 3 + 1 = c + 1 /\ p + m + g + 3 + 1 + g = r + 1
    BY <1>3, <1>7
  <2> HIDE DEF c, r
  <2> QED BY <1>8, <2>1, <2>2, Zenon
<1>13. J[at[0]] = Quote /\ J[at[n] + 1] = Quote /\ r \in Nat
  <2>1. r \in Nat /\ 1 \in 1..Len(T) /\ b[n] + 1 \in 1..Len(T)
    BY <1>2, <1>3, <1>5, <1>7, SMTT(30)
  <2> HIDE DEF r
  <2>2. J[r + 1] = T[1] /\ J[r + (b[n] + 1)] = T[b[n] + 1]
    BY <1>6, <2>1 DEF Within
  <2>3. r + (b[n] + 1) = at[n] + 1
    BY <1>5, <1>8, <2>1
  <2> QED BY <1>2, <1>8, <2>1, <2>2, <2>3
<1>14. at[n] + 1 = p + Len(M) /\ at[n] + 2 = p + Len(M) + 1
  <2> DEFINE z == b[n]
             t == Len(T)
             l == Len(M)
             a == at[n]
  <2>1. /\ z \in Nat /\ t = z + 1 /\ l = m + 2 * g + 3 + t /\ a = (p + m + 2 * g + 3) + z
        /\ m \in Nat /\ g \in Nat /\ p \in Nat
    BY <1>2, <1>3, <1>4, <1>5, <1>7, <1>8, Zenon
  <2> HIDE DEF z, t, l, a, r
  <2>2. a + 1 = p + l /\ a + 2 = p + l + 1
    BY <2>1
  <2> QED BY <2>2 DEF l, a
<1>15. at[n] + 2 <= Len(J) /\ J[at[n] + 2] \in {",", "}"}
  BY <1>14 DEF EndsMember
<1>16. p + 1 \in Nat \ {0} /\ c \in Nat /\ (p + 1) + m + 2 <= c /\ c < at[0]
  BY <1>3, <1>7, <1>8
<1> HIDE DEF c
<1>17. MemberAt(J, p + 1, f, c, s, at)
  BY <1>9, <1>10, <1>11, <1>12, <1>13, <1>15, <1>16, Zenon DEF MemberAt, n, m
<1> QED BY <1>14, <1>17 DEF Standing, n

-----------------------------------------------------------------------------
(* Objects of three members.                                               *)

\* M is a member with the key f and the value s, as the control plane may write it.
IsMember(C, M, f, s) == /\ KeyName(C, f) /\ s \in Seq(C)
                        /\ \E gap \in Seq(Blanks), slashes \in BOOLEAN :
                              M = Member(f, JsonString(s, slashes), gap)

\* The signs of an object.
Open == "{"
Comma == ","
Close == "}"

\* An object of three members.
Object(C, J, m1, m2, m3) ==
  /\ J \in Seq(C) /\ m1 \in Seq(C) /\ m2 \in Seq(C) /\ m3 \in Seq(C)
  /\ Within(J, <<Open>>, 0)
  /\ Within(J, m1, 1) /\ Within(J, <<Comma>>, 1 + Len(m1))
  /\ Within(J, m2, 2 + Len(m1)) /\ Within(J, <<Comma>>, 2 + Len(m1) + Len(m2))
  /\ Within(J, m3, 3 + Len(m1) + Len(m2)) /\ Within(J, <<Close>>, 3 + Len(m1) + Len(m2) + Len(m3))

\* A text stands in itself.
LEMMA Itself ==
  ASSUME NEW C, NEW J \in Seq(C)
  PROVE  Within(J, J, 0)
BY DEF Within

\* What is written between braces is an object.
LEMMA ObjectWritten ==
  ASSUME NEW C, Charset(C), NEW m1 \in Seq(C), NEW m2 \in Seq(C), NEW m3 \in Seq(C), NEW J,
         J = <<Open>> \o m1 \o <<Comma>> \o m2 \o <<Comma>> \o m3 \o <<Close>>
  PROVE  Object(C, J, m1, m2, m3)
<1> DEFINE a == <<Open>>
           k == <<Comma>>
           z == <<Close>>
           x1 == a \o m1
           x2 == x1 \o k
           x3 == x2 \o m2
           x4 == x3 \o k
           x5 == x4 \o m3
           x6 == x5 \o z
           l1 == Len(m1)
           l2 == Len(m2)
           l3 == Len(m3)
<1>1. Open \in C /\ Comma \in C /\ Close \in C
  BY DEF Charset, Syntax, Open, Comma, Close
<1>2. /\ a \in Seq(C) /\ k \in Seq(C) /\ z \in Seq(C) /\ Len(a) = 1 /\ Len(k) = 1
      /\ l1 \in Nat /\ l2 \in Nat /\ l3 \in Nat
  BY <1>1
<1>3. J = x6
  OBVIOUS
<1> HIDE DEF a, k, z
<1>4. x1 \in Seq(C) /\ Len(x1) = 1 + l1
  <2>1. x1 \in Seq(C) /\ Len(x1) = Len(a) + Len(m1)
    BY <1>2, AppendedLength
  <2> QED BY <1>2, <2>1
<1>5. x2 \in Seq(C) /\ Len(x2) = 2 + l1
  <2> HIDE DEF x1
  <2>1. x2 \in Seq(C) /\ Len(x2) = Len(x1) + Len(k)
    BY <1>2, <1>4, AppendedLength
  <2> HIDE DEF x2
  <2> QED BY <1>2, <1>4, <2>1
<1>6. x3 \in Seq(C) /\ Len(x3) = 2 + l1 + l2
  <2> HIDE DEF x2
  <2>1. x3 \in Seq(C) /\ Len(x3) = Len(x2) + Len(m2)
    BY <1>2, <1>5, AppendedLength
  <2> HIDE DEF x3
  <2> QED BY <1>2, <1>5, <2>1
<1>7. x4 \in Seq(C) /\ Len(x4) = 3 + l1 + l2
  <2> HIDE DEF x3
  <2>1. x4 \in Seq(C) /\ Len(x4) = Len(x3) + Len(k)
    BY <1>2, <1>6, AppendedLength
  <2> HIDE DEF x4
  <2> QED BY <1>2, <1>6, <2>1
<1>8. x5 \in Seq(C) /\ Len(x5) = 3 + l1 + l2 + l3
  <2> HIDE DEF x4
  <2>1. x5 \in Seq(C) /\ Len(x5) = Len(x4) + Len(m3)
    BY <1>2, <1>7, AppendedLength
  <2> HIDE DEF x5
  <2> QED BY <1>2, <1>7, <2>1
<1>9. x6 \in Seq(C)
  <2> HIDE DEF x5
  <2> QED BY <1>2, <1>8, AppendedLength
<1>10. Within(J, x6, 0) /\ J \in Seq(C)
  <2> HIDE DEF x6
  <2> QED BY <1>3, <1>9, Itself
<1>11. Within(J, x5, 0) /\ Within(J, z, 0 + Len(x5))
  <2> HIDE DEF x5
  <2> QED BY <1>2, <1>10, <1>8, Split
<1>12. Within(J, x4, 0) /\ Within(J, m3, 0 + Len(x4))
  <2> HIDE DEF x4
  <2> QED BY <1>10, <1>11, <1>7, Split
<1>13. Within(J, x3, 0) /\ Within(J, k, 0 + Len(x3))
  <2> HIDE DEF x3
  <2> QED BY <1>2, <1>10, <1>12, <1>6, Split
<1>14. Within(J, x2, 0) /\ Within(J, m2, 0 + Len(x2))
  <2> HIDE DEF x2
  <2> QED BY <1>10, <1>13, <1>5, Split
<1>15. Within(J, x1, 0) /\ Within(J, k, 0 + Len(x1))
  <2> HIDE DEF x1
  <2> QED BY <1>2, <1>10, <1>14, <1>4, Split
<1>16. Within(J, a, 0) /\ Within(J, m1, 0 + Len(a))
  BY <1>2, <1>10, <1>15, Split
<1> HIDE DEF x1, x2, x3, x4, x5, x6
<1>17. /\ 0 + Len(a) = 1 /\ 0 + Len(x1) = 1 + l1 /\ 0 + Len(x2) = 2 + l1
       /\ 0 + Len(x3) = 2 + l1 + l2 /\ 0 + Len(x4) = 3 + l1 + l2
       /\ 0 + Len(x5) = 3 + l1 + l2 + l3
  <2> HIDE DEF l1, l2, l3
  <2> QED BY <1>2, <1>4, <1>5, <1>6, <1>7, <1>8
<1> QED BY <1>10, <1>11, <1>12, <1>13, <1>14, <1>15, <1>16, <1>17, Zenon DEF Object, a, k, z

\* A member followed by a separator stands there.
LEMMA MemberInPlace ==
  ASSUME NEW C, Charset(C), Blanks \subseteq C, NEW J \in Seq(C), NEW M \in Seq(C), NEW f, NEW s,
         IsMember(C, M, f, s), NEW p, Within(J, M, p), NEW d, EndsMember(d),
         Within(J, <<d>>, p + Len(M))
  PROVE  Standing(J, p + 1, f, s, p + Len(M) + 1)
<1>1. f \in Seq(C) /\ s \in Seq(C)
  BY NameChars DEF IsMember
<1>2. PICK gap \in Seq(Blanks), slashes \in BOOLEAN : M = Member(f, JsonString(s, slashes), gap)
  BY DEF IsMember
<1>3. p \in Nat /\ Len(M) \in Nat
  BY DEF Within
<1>4. p + Len(M) + 1 <= Len(J) /\ J[p + Len(M) + 1] = d
  BY OneWithin
<1> QED BY <1>1, <1>2, <1>3, <1>4, MemberStands

\* No key f opens before o.
Unkeyed(J, o, f) == \A p \in 1..(o - 1) : ~IsKey(J, p, f)

\* Of the first member with a key, json_extract_string yields the value.
LEMMA StandsValue ==
  ASSUME NEW C, Charset(C), NEW J \in Seq(C), NEW s \in Seq(C), NEW o, NEW f, KeyName(C, f), NEW e,
         Standing(J, o, f, s, e), NEW cap, Unkeyed(J, o, f)
  PROVE  json_extract_string(J, f, cap) = Fitting(s, cap)
<1>1. PICK c, at : MemberAt(J, o, f, c, s, at) /\ at[Len(s)] + 2 = e
  BY DEF Standing
<1>2. \A p \in 1..(o - 1) : ~IsKey(J, p, f)
  BY DEF Unkeyed
<1> QED BY <1>1, <1>2, ReadAnyMember

\* The member holds no other key.
LEMMA StandsAlone ==
  ASSUME NEW C, Charset(C), NEW J \in Seq(C), NEW s \in Seq(C), NEW o, NEW f, KeyName(C, f), NEW e,
         Standing(J, o, f, s, e), NEW g, KeyName(C, g), g # f
  PROVE  \A p \in o..e : ~IsKey(J, p, g)
<1>0. f \in Seq(C) /\ NUL \notin C
  BY NameChars DEF Charset
<1>1. PICK c, at : MemberAt(J, o, f, c, s, at) /\ at[Len(s)] + 2 = e
  BY DEF Standing
<1>2. o \in Nat /\ at[Len(s)] \in Nat /\ e \in Nat
  <2>1. o \in Nat /\ at[Len(s)] \in Nat
    BY <1>0, <1>1, AnyPlaces
  <2> QED BY <1>1, <2>1
<1> SUFFICES ASSUME NEW p \in o..e PROVE ~IsKey(J, p, g)
  OBVIOUS
<1>3. CASE p = o
  <2>1. IsKey(J, o, g) <=> g = f
    BY <1>0, <1>1, KeyOfMember
  <2> QED BY <1>3, <2>1
<1>4. CASE p # o
  <2>1. p \in (o + 1)..(at[Len(s)] + 2)
    BY <1>1, <1>2, <1>4
  <2> QED BY <1>0, <1>1, <2>1, NoKeyInMember
<1> QED BY <1>3, <1>4

\* The keys of an object.
ThreeKeys(C, m1, f1, s1, m2, f2, s2, m3, f3, s3) ==
  /\ IsMember(C, m1, f1, s1) /\ IsMember(C, m2, f2, s2) /\ IsMember(C, m3, f3, s3)
  /\ f1 # f2 /\ f1 # f3 /\ f2 # f3

\* Every member of an object is read back, wherever it stands and whatever the values
\* of the others look like.
THEOREM ObjectReads ==
  ASSUME NEW C, Charset(C), Blanks \subseteq C, NEW J, NEW m1, NEW m2, NEW m3,
         Object(C, J, m1, m2, m3), NEW f1, NEW s1, NEW f2, NEW s2, NEW f3, NEW s3,
         ThreeKeys(C, m1, f1, s1, m2, f2, s2, m3, f3, s3), NEW cap
  PROVE  /\ json_extract_string(J, f1, cap) = Fitting(s1, cap)
         /\ json_extract_string(J, f2, cap) = Fitting(s2, cap)
         /\ json_extract_string(J, f3, cap) = Fitting(s3, cap)
<1> DEFINE l1 == Len(m1)
           l2 == Len(m2)
           l3 == Len(m3)
           e1 == 2 + l1
           e2 == 3 + l1 + l2
           e3 == 4 + l1 + l2 + l3
<1>1. /\ J \in Seq(C) /\ m1 \in Seq(C) /\ m2 \in Seq(C) /\ m3 \in Seq(C)
      /\ Within(J, <<Open>>, 0)
      /\ Within(J, m1, 1) /\ Within(J, <<Comma>>, 1 + l1)
      /\ Within(J, m2, 2 + l1) /\ Within(J, <<Comma>>, 2 + l1 + l2)
      /\ Within(J, m3, 3 + l1 + l2) /\ Within(J, <<Close>>, 3 + l1 + l2 + l3)
  BY Zenon DEF Object
<1>2. /\ IsMember(C, m1, f1, s1) /\ IsMember(C, m2, f2, s2) /\ IsMember(C, m3, f3, s3)
      /\ f1 # f2 /\ f1 # f3 /\ f2 # f3
  BY Zenon DEF ThreeKeys
<1>3. /\ KeyName(C, f1) /\ KeyName(C, f2) /\ KeyName(C, f3)
      /\ s1 \in Seq(C) /\ s2 \in Seq(C) /\ s3 \in Seq(C)
  BY <1>2, Zenon DEF IsMember
<1>4. l1 \in Nat /\ l2 \in Nat /\ l3 \in Nat
  BY <1>1
<1>5. EndsMember(Comma) /\ EndsMember(Close)
  BY DEF EndsMember, Comma, Close
<1>6. Standing(J, 1 + 1, f1, s1, 1 + l1 + 1)
  BY <1>1, <1>2, <1>5, MemberInPlace
<1>7. Standing(J, 2 + l1 + 1, f2, s2, 2 + l1 + l2 + 1)
  BY <1>1, <1>2, <1>5, MemberInPlace
<1>8. Standing(J, 3 + l1 + l2 + 1, f3, s3, 3 + l1 + l2 + l3 + 1)
  BY <1>1, <1>2, <1>5, MemberInPlace
<1>9. ASSUME NEW g, KeyName(C, g) PROVE ~IsKey(J, 1, g)
  <2>1. J[0 + 1] = Open
    BY <1>1, OneWithin
  <2>2. g \in Seq(C) /\ NUL \notin C
    BY <1>9, NameChars DEF Charset
  <2>3. IsKey(J, 1, g) => J[1] = Quote
    BY <1>1, <2>2, KeyChars
  <2>4. 0 + 1 = 1 /\ Quote # Open
    BY DEF Quote, Open
  <2> QED BY <2>1, <2>3, <2>4, Zenon
<1> HIDE DEF l1, l2, l3
<1>10. /\ 1 + 1 = 2 /\ 1 + l1 + 1 = e1 /\ 2 + l1 + 1 = e1 + 1 /\ 2 + l1 + l2 + 1 = e2
       /\ 3 + l1 + l2 + 1 = e2 + 1 /\ 3 + l1 + l2 + l3 + 1 = e3
       /\ e1 \in Nat /\ e2 \in Nat /\ e1 >= 2 /\ e2 >= e1 + 1
  BY <1>4
<1> HIDE DEF e1, e2, e3
<1>11. Standing(J, 2, f1, s1, e1) /\ Standing(J, e1 + 1, f2, s2, e2) /\ Standing(J, e2 + 1, f3, s3, e3)
  BY <1>6, <1>7, <1>8, <1>10, Zenon
<1>12. json_extract_string(J, f1, cap) = Fitting(s1, cap)
  <2> DEFINE o == 2
  <2>1. Standing(J, o, f1, s1, e1) /\ \A p \in 1..(o - 1) : p = 1
    BY <1>11
  <2> HIDE DEF o
  <2>2. \A p \in 1..(o - 1) : ~IsKey(J, p, f1)
    BY <1>3, <1>9, <2>1, Zenon
  <2>3. Unkeyed(J, o, f1)
    BY <2>2 DEF Unkeyed
  <2> QED BY <1>1, <1>3, <2>1, <2>3, StandsValue
<1>13. ASSUME NEW g, KeyName(C, g), g # f1, NEW p \in 1..e1 PROVE ~IsKey(J, p, g)
  <2>1. p = 1 \/ p \in 2..e1
    BY <1>10
  <2>2. \A q \in 2..e1 : ~IsKey(J, q, g)
    BY <1>1, <1>3, <1>11, <1>13, StandsAlone
  <2> QED BY <1>9, <1>13, <2>1, <2>2
<1>14. json_extract_string(J, f2, cap) = Fitting(s2, cap)
  <2>1. (e1 + 1) - 1 = e1
    BY <1>10
  <2>2. \A p \in 1..((e1 + 1) - 1) : ~IsKey(J, p, f2)
    BY <1>2, <1>3, <1>13, <2>1
  <2>3. Unkeyed(J, e1 + 1, f2)
    BY <2>2 DEF Unkeyed
  <2> QED BY <1>1, <1>3, <1>11, <2>3, StandsValue
<1>15. json_extract_string(J, f3, cap) = Fitting(s3, cap)
  <2>1. (e2 + 1) - 1 = e2
    BY <1>10
  <2>2. ASSUME NEW p \in 1..e2 PROVE ~IsKey(J, p, f3)
    <3>1. p \in 1..e1 \/ p \in (e1 + 1)..e2
      BY <1>10
    <3>2. \A q \in (e1 + 1)..e2 : ~IsKey(J, q, f3)
      BY <1>1, <1>2, <1>3, <1>11, StandsAlone
    <3> QED BY <1>2, <1>3, <1>13, <3>1, <3>2
  <2>3. \A p \in 1..((e2 + 1) - 1) : ~IsKey(J, p, f3)
    BY <2>1, <2>2
  <2>4. Unkeyed(J, e2 + 1, f3)
    BY <2>3 DEF Unkeyed
  <2> QED BY <1>1, <1>3, <1>11, <2>4, StandsValue
<1> QED BY <1>12, <1>14, <1>15

-----------------------------------------------------------------------------
(* Base64.                                                                 *)

\* The value of every character of base64.
LEMMA AlphabetValues ==
  ASSUME NEW k \in 1..64
  PROVE  /\ b64val(Alphabet[k]) = k - 1
         /\ Alphabet[k] # "=" /\ Alphabet[k] # "\n" /\ Alphabet[k] # "-----END"
<1>1. \A j \in 1..64 : Alphabet[j] = Alphabet[k] => j = k
  BY DEF Alphabet
<1>2. Alphabet[k] # "=" /\ Alphabet[k] # "\n" /\ Alphabet[k] # "-----END"
  BY DEF Alphabet
<1>3. (CHOOSE j \in 1..64 : Alphabet[j] = Alphabet[k]) = k
  BY <1>1
<1> QED BY <1>2, <1>3 DEF b64val

\* A line break has none.
LEMMA LineBreak == b64val("\n") = -1
<1>1. \A k \in 1..64 : Alphabet[k] # "\n"
  BY AlphabetValues
<1> QED BY <1>1 DEF b64val

\* Quotient and remainder of the accumulator.
LEMMA Divided ==
  ASSUME NEW a \in Nat
  PROVE  /\ a \div 4 \in Nat /\ a % 4 \in 0..3 /\ a = 4 * (a \div 4) + (a % 4)
         /\ a \div 16 \in Nat /\ a % 16 \in 0..15 /\ a = 16 * (a \div 16) + (a % 16)
         /\ a \div 64 \in Nat /\ a % 64 \in 0..63 /\ a = 64 * (a \div 64) + (a % 64)
<1>1. a \div 4 \in Nat /\ a % 4 \in 0..3 /\ a = 4 * (a \div 4) + (a % 4)
  OBVIOUS
<1>2. a \div 16 \in Nat /\ a % 16 \in 0..15 /\ a = 16 * (a \div 16) + (a % 16)
  OBVIOUS
<1>3. a \div 64 \in Nat /\ a % 64 \in 0..63 /\ a = 64 * (a \div 64) + (a % 64)
  OBVIOUS
<1> QED BY <1>1, <1>2, <1>3

\* What a character of value v does to it.
Fed(acc, nbits, d, v) ==
  LET a == (acc * 64 + v) % 65536
  IN IF nbits = 0 THEN B64State(a, 6, d, FALSE)
     ELSE IF Len(d) >= 48 THEN B64State(acc, nbits, Failed, TRUE)
     ELSE B64State(a, nbits - 2,
             Append(d, (a \div (IF nbits = 6 THEN 16 ELSE IF nbits = 4 THEN 4 ELSE 1)) % 256), FALSE)

\* The loop on a state that has ended, on a line break, on padding and on a character.
LEMMA StepEnded ==
  ASSUME NEW acc, NEW nbits, NEW d, NEW c
  PROVE  b64step(B64State(acc, nbits, d, TRUE), c) = B64State(acc, nbits, d, TRUE)
BY DEF b64step, B64State

\* On a line break the loop stays as it is.
LEMMA StepLine ==
  ASSUME NEW acc, NEW nbits, NEW d
  PROVE  b64step(B64State(acc, nbits, d, FALSE), "\n") = B64State(acc, nbits, d, FALSE)
BY LineBreak DEF b64step, B64State

\* Padding ends the loop.
LEMMA StepPad ==
  ASSUME NEW acc, NEW nbits, NEW d
  PROVE  b64step(B64State(acc, nbits, d, FALSE), "=") = B64State(acc, nbits, d, TRUE)
BY DEF b64step, B64State

\* A character of the alphabet adds its six bits.
LEMMA StepSymbol ==
  ASSUME NEW acc \in Nat, NEW nbits \in {0, 2, 4, 6}, NEW d, NEW v \in 0..63
  PROVE  b64step(B64State(acc, nbits, d, FALSE), Alphabet[v + 1]) = Fed(acc, nbits, d, v)
<1> DEFINE c == Alphabet[v + 1]
           t == b64step(B64State(acc, nbits, d, FALSE), c)
<1>1. b64val(c) = v /\ c # "="
  <2>1. v + 1 \in 1..64 /\ (v + 1) - 1 = v
    OBVIOUS
  <2> QED BY <2>1, AlphabetValues
<1>3. AccModulus = 65536 /\ DerSize = 48 /\ nbits \in Nat /\ v \in Nat /\ ~(v < 0)
  BY DEF AccModulus, DerSize
<1> HIDE DEF c
<1>4. t = IF nbits + 6 < 8 THEN B64State((acc * 64 + v) % 65536, nbits + 6, d, FALSE)
        ELSE IF Len(d) >= 48 THEN B64State(acc, nbits, Failed, TRUE)
        ELSE B64State((acc * 64 + v) % 65536, (nbits + 6) - 8,
                      Append(d, (((acc * 64 + v) % 65536) \div 2^((nbits + 6) - 8)) % 256), FALSE)
  BY <1>1, <1>3, SMT DEF b64step, B64State
<1> HIDE DEF t
<1>5. ASSUME nbits = 0 PROVE t = Fed(acc, nbits, d, v)
  BY <1>4, <1>5, SMT DEF Fed
<1>6. ASSUME nbits = 6 PROVE t = Fed(acc, nbits, d, v)
  <2>1. 2^4 = 16
    OBVIOUS
  <2> QED BY <1>4, <1>6, <2>1, SMT DEF Fed
<1>7. ASSUME nbits = 4 PROVE t = Fed(acc, nbits, d, v)
  <2>1. 2^2 = 4
    OBVIOUS
  <2> QED BY <1>4, <1>7, <2>1, SMT DEF Fed
<1>8. ASSUME nbits = 2 PROVE t = Fed(acc, nbits, d, v)
  <2>1. 2^0 = 1
    OBVIOUS
  <2> QED BY <1>4, <1>8, <2>1, SMT DEF Fed
<1>9. t = Fed(acc, nbits, d, v)
  BY <1>5, <1>6, <1>7, <1>8
<1> QED BY <1>9 DEF t, c

\* The states of b64_decode's loop.
B64Record == [acc : Nat, nbits : {0, 2, 4, 6}, der : Seq(Nat) \cup {Failed}, end : BOOLEAN]
B64States == {x \in B64Record : ~x.end => x.der \in Seq(Nat)}

\* What is a state of the loop.
LEMMA StateIn ==
  ASSUME NEW acc \in Nat, NEW nbits \in {0, 2, 4, 6}, NEW d \in Seq(Nat) \cup {Failed},
         NEW end \in BOOLEAN,
         end \/ d \in Seq(Nat)
  PROVE  B64State(acc, nbits, d, end) \in B64States
<1>1. B64State(acc, nbits, d, end) \in B64Record
  BY DEF B64State, B64Record
<1>2. B64State(acc, nbits, d, end).end = end /\ B64State(acc, nbits, d, end).der = d
  BY Zenon DEF B64State
<1> QED BY <1>1, <1>2, Zenon DEF B64States

\* A state of the loop has these parts.
LEMMA StateOf ==
  ASSUME NEW x \in B64States
  PROVE  \E acc \in Nat, nbits \in {0, 2, 4, 6}, d \in Seq(Nat) \cup {Failed}, end \in BOOLEAN :
            x = B64State(acc, nbits, d, end) /\ (end \/ d \in Seq(Nat))
<1>1. x \in B64Record /\ (~x.end => x.der \in Seq(Nat))
  BY DEF B64States
<1>2. x.acc \in Nat /\ x.nbits \in {0, 2, 4, 6} /\ x.der \in Seq(Nat) \cup {Failed} /\ x.end \in BOOLEAN
  BY <1>1, Zenon DEF B64Record
<1>3. x = B64State(x.acc, x.nbits, x.der, x.end)
  BY <1>1 DEF B64Record, B64State
<1> QED BY <1>1, <1>2, <1>3, Zenon

\* A character that is no padding has a value, or none.
LEMMA AnySymbol ==
  ASSUME NEW c
  PROVE  b64val(c) = -1 \/ \E v \in 0..63 : c = Alphabet[v + 1]
<1>1. CASE \E k \in 1..64 : Alphabet[k] = c
  <2>1. PICK k \in 1..64 : Alphabet[k] = c
    BY <1>1
  <2>2. k - 1 \in 0..63 /\ (k - 1) + 1 = k
    OBVIOUS
  <2> QED BY <2>1, <2>2
<1>2. CASE ~\E k \in 1..64 : Alphabet[k] = c
  BY <1>2 DEF b64val
<1> QED BY <1>1, <1>2

\* Any other character is skipped.
LEMMA StepOther ==
  ASSUME NEW acc, NEW nbits, NEW d, NEW c, b64val(c) = -1, c # "="
  PROVE  b64step(B64State(acc, nbits, d, FALSE), c) = B64State(acc, nbits, d, FALSE)
BY DEF b64step, B64State

\* The loop stays within its states.
LEMMA FedState ==
  ASSUME NEW acc \in Nat, NEW nbits \in {0, 2, 4, 6}, NEW d \in Seq(Nat), NEW v \in 0..63
  PROVE  Fed(acc, nbits, d, v) \in B64States
<1> DEFINE a == (acc * 64 + v) % 65536
           w == IF nbits = 6 THEN 16 ELSE IF nbits = 4 THEN 4 ELSE 1
           y == (a \div w) % 256
<1>1. a \in Nat
  OBVIOUS
<1>2. Append(d, y) \in Seq(Nat)
  <2>1. y \in Nat
    <3> HIDE DEF a
    <3> QED BY <1>1
  <2> HIDE DEF y
  <2> QED BY <2>1
<1>3. CASE nbits = 0
  <2>1. Fed(acc, nbits, d, v) = B64State(a, 6, d, FALSE)
    BY <1>3 DEF Fed
  <2> HIDE DEF a
  <2>2. 6 \in {0, 2, 4, 6} /\ d \in Seq(Nat) \cup {Failed}
    OBVIOUS
  <2> QED BY <1>1, <2>1, <2>2, StateIn, Zenon
<1>4. CASE nbits # 0 /\ Len(d) >= 48
  <2>1. Fed(acc, nbits, d, v) = B64State(acc, nbits, Failed, TRUE)
    BY <1>4 DEF Fed
  <2>2. Failed \in Seq(Nat) \cup {Failed}
    OBVIOUS
  <2> QED BY <2>1, <2>2, StateIn, Zenon
<1>5. CASE nbits # 0 /\ ~(Len(d) >= 48)
  <2>1. Fed(acc, nbits, d, v) = B64State(a, nbits - 2, Append(d, y), FALSE)
    BY <1>5, SMT DEF Fed
  <2> HIDE DEF a, y
  <2>2. nbits - 2 \in {0, 2, 4, 6} /\ Append(d, y) \in Seq(Nat) \cup {Failed}
    BY <1>2, <1>5
  <2> QED BY <1>1, <1>2, <2>1, <2>2, StateIn, Zenon
<1> QED BY <1>3, <1>4, <1>5

\* The loop goes from state to state.
LEMMA StepState ==
  ASSUME NEW x \in B64States, NEW c
  PROVE  b64step(x, c) \in B64States
<1>1. PICK acc \in Nat, nbits \in {0, 2, 4, 6}, d \in Seq(Nat) \cup {Failed}, end \in BOOLEAN :
            x = B64State(acc, nbits, d, end) /\ (end \/ d \in Seq(Nat))
  BY StateOf, Zenon
<1>2. CASE end
  <2>1. end = TRUE
    BY <1>2
  <2>2. b64step(x, c) = x
    BY <1>1, <2>1, StepEnded, Zenon
  <2> QED BY <2>2
<1>3. CASE ~end
  <2>0. end = FALSE /\ d \in Seq(Nat)
    BY <1>1, <1>3
  <2>1. x = B64State(acc, nbits, d, FALSE)
    BY <1>1, <2>0, Zenon
  <2>2. CASE c = "="
    <3>1. b64step(x, c) = B64State(acc, nbits, d, TRUE)
      BY <2>1, <2>2, StepPad, Zenon
    <3> QED BY <3>1, StateIn, Zenon
  <2>3. CASE c # "=" /\ b64val(c) = -1
    <3>1. b64step(x, c) = x
      BY <2>1, <2>3, StepOther, Zenon
    <3> QED BY <3>1
  <2>4. CASE \E v \in 0..63 : c = Alphabet[v + 1]
    <3>1. PICK v \in 0..63 : c = Alphabet[v + 1]
      BY <2>4
    <3>2. b64step(x, c) = Fed(acc, nbits, d, v)
      BY <2>1, <3>1, StepSymbol, Zenon
    <3> QED BY <2>0, <3>2, FedState, Zenon
  <2> QED BY <2>2, <2>3, <2>4, AnySymbol, Zenon
<1> QED BY <1>2, <1>3

\* u[k] is the state after k characters of s.
Decodes(u, s) == /\ u[0] = B64State(0, 0, <<>>, FALSE)
                 /\ \A k \in 1..Len(s) : u[k] = b64step(u[k - 1], s[k])
                 /\ b64decode(s) = u[Len(s)].der

\* b64_decode goes through the characters one after the other.
LEMMA DecodeLoop ==
  ASSUME NEW C, NEW s \in Seq(C)
  PROVE  \E u : Decodes(u, s)
<1> DEFINE n == Len(s)
           zero == B64State(0, 0, <<>>, FALSE)
           Loop(g) == g = [k \in 0..n |-> IF k = 0 THEN zero ELSE b64step(g[k - 1], s[k])]
           V == B64States
           step == [k \in Nat |-> [x \in V |-> b64step(x, s[k])]]
<1>0. n \in Nat
  OBVIOUS
<1>1. step \in [Nat -> [V -> V]]
  BY StepState
<1>2. zero \in V
  <2>1. <<>> \in Seq(Nat) /\ 0 \in Nat /\ 0 \in {0, 2, 4, 6}
    OBVIOUS
  <2>2. <<>> \in Seq(Nat) \cup {Failed}
    BY <2>1
  <2> QED BY <2>1, <2>2, StateIn, Zenon
<1> HIDE DEF V, zero
<1>3. PICK f : Iterates(f, V, zero, step, n)
  <2> HIDE DEF step, n
  <2> QED BY <1>0, <1>1, <1>2, Iteration
<1>4. /\ f \in [0..n -> V] /\ f[0] = zero
      /\ \A k \in 1..n : f[k] = step[k][f[k - 1]]
  BY <1>3 DEF Iterates
<1>5. ASSUME NEW k \in 1..n PROVE f[k] = b64step(f[k - 1], s[k])
  <2>1. f[k - 1] \in V /\ k \in Nat
    BY <1>0, <1>4
  <2> QED BY <1>4, <2>1
<1>6. Loop(f)
  <2>1. f = [k \in 0..n |-> f[k]]
    BY <1>4
  <2>2. ASSUME NEW k \in 0..n PROVE f[k] = IF k = 0 THEN zero ELSE b64step(f[k - 1], s[k])
    <3>1. k = 0 \/ k \in 1..n
      BY <1>0
    <3>2. k \in 1..n => k # 0
      OBVIOUS
    <3> HIDE DEF n
    <3> QED BY <1>4, <1>5, <3>1, <3>2
  <2> HIDE DEF n
  <2> QED BY <2>1, <2>2
<1> DEFINE h == CHOOSE g : Loop(g)
<1>7. Loop(h)
  <2> HIDE DEF Loop
  <2> QED BY <1>6
<1>8. b64decode(s) = h[n].der
  BY Zenon DEF b64decode, zero
<1>9. h[0] = zero /\ \A k \in 1..n : h[k] = b64step(h[k - 1], s[k])
  <2> HIDE DEF h
  <2>1. \A k \in 0..n : h[k] = IF k = 0 THEN zero ELSE b64step(h[k - 1], s[k])
    BY <1>7
  <2>2. 0 \in 0..n /\ \A k \in 1..n : k \in 0..n /\ k # 0
    BY <1>0
  <2> QED BY <2>1, <2>2, Zenon
<1> HIDE DEF h
<1>10. Decodes(h, s)
  BY <1>8, <1>9, Zenon DEF Decodes, zero
<1> QED BY <1>10

\* The bytes of a DER.
Byte == 0..255

\* The parts of a byte.
LEMMA ByteParts ==
  ASSUME NEW b \in Byte
  PROVE  /\ b \div 4 \in 0..63 /\ b % 4 \in 0..3 /\ 4 * (b \div 4) + (b % 4) = b
         /\ b \div 16 \in 0..15 /\ b % 16 \in 0..15 /\ 16 * (b \div 16) + (b % 16) = b
         /\ b \div 64 \in 0..3 /\ b % 64 \in 0..63 /\ 64 * (b \div 64) + (b % 64) = b
BY DEF Byte

\* They are zero behind its end.
LEMMA OctetByte ==
  ASSUME NEW der \in Seq(Byte), NEW k \in Nat
  PROVE  /\ Octet(der, k) \in Byte
         /\ k < Len(der) => Append(SubSeq(der, 1, k), Octet(der, k)) = SubSeq(der, 1, k + 1)
         /\ k <= Len(der) => SubSeq(der, 1, k) \in Seq(Byte) /\ Len(SubSeq(der, 1, k)) = k
<1>1. CASE k < Len(der)
  <2>0. k + 1 \in 1..Len(der)
    BY <1>1
  <2>1. Octet(der, k) = der[k + 1] /\ der[k + 1] \in Byte
    BY <1>1, <2>0 DEF Octet
  <2>2. Append(SubSeq(der, 1, k), der[k + 1]) = SubSeq(der, 1, k + 1)
    BY <2>0
  <2>3. SubSeq(der, 1, k) \in Seq(Byte) /\ Len(SubSeq(der, 1, k)) = k
    BY <1>1
  <2> QED BY <2>1, <2>2, <2>3
<1>2. CASE ~(k < Len(der))
  <2>1. Octet(der, k) = 0 /\ 0 \in Byte
    BY <1>2 DEF Octet, Byte
  <2>2. k <= Len(der) => k = Len(der)
    BY <1>2
  <2>3. SubSeq(der, 1, Len(der)) = der
    OBVIOUS
  <2> QED BY <1>2, <2>1, <2>2, <2>3
<1> QED BY <1>1, <1>2

\* The sextets of the q-th group of three bytes.
LEMMA SextetAt ==
  ASSUME NEW der, NEW q \in Nat
  PROVE  /\ Sextet(der, 4 * q) = Octet(der, 3 * q) \div 4
         /\ Sextet(der, 4 * q + 1) = 16 * (Octet(der, 3 * q) % 4) + (Octet(der, 3 * q + 1) \div 16)
         /\ Sextet(der, 4 * q + 2) = 4 * (Octet(der, 3 * q + 1) % 16) + (Octet(der, 3 * q + 2) \div 64)
         /\ Sextet(der, 4 * q + 3) = Octet(der, 3 * q + 2) % 64
<1>1. /\ (4 * q) \div 4 = q /\ (4 * q) % 4 = 0
      /\ (4 * q + 1) \div 4 = q /\ (4 * q + 1) % 4 = 1
      /\ (4 * q + 2) \div 4 = q /\ (4 * q + 2) % 4 = 2
      /\ (4 * q + 3) \div 4 = q /\ (4 * q + 3) % 4 = 3
      /\ 3 * q + 0 = 3 * q
  OBVIOUS
<1>2. 1 # 0 /\ 2 # 0 /\ 2 # 1 /\ 3 # 0 /\ 3 # 1 /\ 3 # 2
  OBVIOUS
<1>3. Sextet(der, 4 * q) = Octet(der, 3 * q) \div 4
  BY <1>1, Zenon DEF Sextet
<1>4. Sextet(der, 4 * q + 1) = 16 * (Octet(der, 3 * q) % 4) + (Octet(der, 3 * q + 1) \div 16)
  BY <1>1, <1>2, Zenon DEF Sextet
<1>5. Sextet(der, 4 * q + 2) = 4 * (Octet(der, 3 * q + 1) % 16) + (Octet(der, 3 * q + 2) \div 64)
  BY <1>1, <1>2, Zenon DEF Sextet
<1>6. Sextet(der, 4 * q + 3) = Octet(der, 3 * q + 2) % 64
  BY <1>1, <1>2, Zenon DEF Sextet
<1> QED BY <1>3, <1>4, <1>5, <1>6

\* The loop behind r characters of the q-th group: what it has stored, and what of the
\* bytes it still holds.
Fill0(der, q, st) == \E acc \in Nat : st = B64State(acc, 0, SubSeq(der, 1, 3 * q), FALSE)
Fill1(der, q, st) == \E acc \in Nat : /\ st = B64State(acc, 6, SubSeq(der, 1, 3 * q), FALSE)
                                      /\ acc % 64 = Octet(der, 3 * q) \div 4
Fill2(der, q, st) == \E acc \in Nat : /\ st = B64State(acc, 4, SubSeq(der, 1, 3 * q + 1), FALSE)
                                      /\ acc % 16 = Octet(der, 3 * q + 1) \div 16
Fill3(der, q, st) == \E acc \in Nat : /\ st = B64State(acc, 2, SubSeq(der, 1, 3 * q + 2), FALSE)
                                      /\ acc % 4 = Octet(der, 3 * q + 2) \div 64
Overflown(st) == \E acc, nbits : st = B64State(acc, nbits, Failed, TRUE)

\* The character of the j-th sextet.
Symbol(der, j) == Alphabet[Sextet(der, j) + 1]

\* The first character of a group: six bits are held.
LEMMA FillStep0 ==
  ASSUME NEW der \in Seq(Byte), NEW q \in Nat, NEW st, Fill0(der, q, st)
  PROVE  Fill1(der, q, b64step(st, Symbol(der, 4 * q)))
<1> DEFINE b == Octet(der, 3 * q)
           v == b \div 4
           d == SubSeq(der, 1, 3 * q)
<1>1. PICK acc \in Nat : st = B64State(acc, 0, d, FALSE)
  BY DEF Fill0
<1>2. b \in Byte
  BY OctetByte
<1>3. v \in 0..63
  <2> HIDE DEF b
  <2> QED BY <1>2, ByteParts
<1>4. Sextet(der, 4 * q) = v
  BY SextetAt
<1> DEFINE a == (acc * 64 + v) % 65536
<1> HIDE DEF b, v, d
<1>5. b64step(st, Symbol(der, 4 * q)) = Fed(acc, 0, d, v)
  <2>1. 0 \in {0, 2, 4, 6}
    OBVIOUS
  <2> QED BY <1>1, <1>3, <1>4, <2>1, StepSymbol, Zenon DEF Symbol
<1>6. Fed(acc, 0, d, v) = B64State(a, 6, d, FALSE)
  BY DEF Fed
<1>7. a \in Nat /\ a % 64 = v
  <2>1. a = (acc * 64 + v) % 65536
    OBVIOUS
  <2> HIDE DEF a
  <2> QED BY <1>3, <2>1, SMT
<1> HIDE DEF a
<1> QED BY <1>5, <1>6, <1>7, Zenon DEF Fill1, v, b, d

\* The second completes the first byte.
LEMMA FillStep1 ==
  ASSUME NEW der \in Seq(Byte), NEW q \in Nat, NEW st, Fill1(der, q, st), 3 * q < Len(der), 3 * q < 48
  PROVE  Fill2(der, q, b64step(st, Symbol(der, 4 * q + 1)))
<1> DEFINE b == Octet(der, 3 * q)
           c == Octet(der, 3 * q + 1)
           z == b % 4
           w == c \div 16
           v == 16 * z + w
           d == SubSeq(der, 1, 3 * q)
<1>1. PICK acc \in Nat : st = B64State(acc, 6, d, FALSE) /\ acc % 64 = b \div 4
  BY DEF Fill1
<1>2. b \in Byte /\ c \in Byte /\ Append(d, b) = SubSeq(der, 1, 3 * q + 1) /\ Len(d) = 3 * q
  BY OctetByte
<1>3. z \in 0..3 /\ w \in 0..15 /\ b \div 4 \in 0..63 /\ 4 * (b \div 4) + z = b
  <2> HIDE DEF b, c
  <2> QED BY <1>2, ByteParts
<1>4. Sextet(der, 4 * q + 1) = v
  BY SextetAt
<1> DEFINE a == (acc * 64 + v) % 65536
           y == b \div 4
           x == acc \div 64
<1>5. x \in Nat /\ acc = 64 * x + y
  <2>1. x \in Nat /\ acc = 64 * x + (acc % 64)
    BY Divided
  <2> QED BY <1>1, <2>1, Zenon
<1> HIDE DEF b, c, z, w, d, y, x
<1>6. v \in 0..63
  <2>1. z \in 0..3 /\ w \in 0..15
    BY <1>3
  <2> QED BY <2>1
<1>7. b64step(st, Symbol(der, 4 * q + 1)) = Fed(acc, 6, d, v)
  <2>1. 6 \in {0, 2, 4, 6}
    OBVIOUS
  <2> HIDE DEF v
  <2> QED BY <1>1, <1>4, <1>6, <2>1, StepSymbol, Zenon DEF Symbol
<1>8. a \in Nat /\ (a \div 16) % 256 = 4 * y + z /\ a % 16 = w
  <2>1. a = ((64 * x + y) * 64 + (16 * z + w)) % 65536
    BY <1>5
  <2>2. y \in 0..63
    BY <1>3 DEF y
  <2>3. z \in 0..3 /\ w \in 0..15
    BY <1>3
  <2> HIDE DEF a, v
  <2> QED BY <1>5, <2>1, <2>2, <2>3, SMT
<1>9. Fed(acc, 6, d, v) = B64State(a, 4, Append(d, (a \div 16) % 256), FALSE)
  <2>1. ~(Len(d) >= 48)
    BY <1>2
  <2> HIDE DEF v
  <2> QED BY <2>1, SMT DEF Fed
<1> HIDE DEF a, v
<1>10. (a \div 16) % 256 = b
  BY <1>3, <1>8, Zenon DEF y
<1>11. b64step(st, Symbol(der, 4 * q + 1)) = B64State(a, 4, SubSeq(der, 1, 3 * q + 1), FALSE)
  BY <1>2, <1>7, <1>9, <1>10, Zenon
<1> QED BY <1>8, <1>11, Zenon DEF Fill2, w, c

\* The third completes the second byte.
LEMMA FillStep2 ==
  ASSUME NEW der \in Seq(Byte), NEW q \in Nat, NEW st, Fill2(der, q, st),
         3 * q + 1 < Len(der), 3 * q + 1 < 48
  PROVE  Fill3(der, q, b64step(st, Symbol(der, 4 * q + 2)))
<1> DEFINE b == Octet(der, 3 * q + 1)
           c == Octet(der, 3 * q + 2)
           z == b % 16
           w == c \div 64
           v == 4 * z + w
           d == SubSeq(der, 1, 3 * q + 1)
<1>1. PICK acc \in Nat : st = B64State(acc, 4, d, FALSE) /\ acc % 16 = b \div 16
  BY DEF Fill2
<1>2. b \in Byte /\ c \in Byte /\ Append(d, b) = SubSeq(der, 1, 3 * q + 2) /\ Len(d) = 3 * q + 1
  <2>1. 3 * q + 1 \in Nat /\ (3 * q + 1) + 1 = 3 * q + 2 /\ 3 * q + 2 \in Nat
    OBVIOUS
  <2> QED BY <2>1, OctetByte
<1>3. z \in 0..15 /\ w \in 0..3 /\ b \div 16 \in 0..15 /\ 16 * (b \div 16) + z = b
  <2> HIDE DEF b, c
  <2> QED BY <1>2, ByteParts
<1>4. Sextet(der, 4 * q + 2) = v
  BY SextetAt
<1> DEFINE a == (acc * 64 + v) % 65536
           y == b \div 16
           x == acc \div 16
<1>5. x \in Nat /\ acc = 16 * x + y
  <2>1. x \in Nat /\ acc = 16 * x + (acc % 16)
    BY Divided
  <2> QED BY <1>1, <2>1, Zenon
<1> HIDE DEF b, c, z, w, d, y, x
<1>6. v \in 0..63
  <2>1. z \in 0..15 /\ w \in 0..3
    BY <1>3
  <2> QED BY <2>1
<1>7. b64step(st, Symbol(der, 4 * q + 2)) = Fed(acc, 4, d, v)
  <2>1. 4 \in {0, 2, 4, 6}
    OBVIOUS
  <2> HIDE DEF v
  <2> QED BY <1>1, <1>4, <1>6, <2>1, StepSymbol, Zenon DEF Symbol
<1>8. a \in Nat /\ (a \div 4) % 256 = 16 * y + z /\ a % 4 = w
  <2>1. a = ((16 * x + y) * 64 + (4 * z + w)) % 65536
    BY <1>5
  <2>2. y \in 0..15
    BY <1>3 DEF y
  <2>3. z \in 0..15 /\ w \in 0..3
    BY <1>3
  <2> HIDE DEF a, v
  <2> QED BY <1>5, <2>1, <2>2, <2>3, SMT
<1>9. Fed(acc, 4, d, v) = B64State(a, 2, Append(d, (a \div 4) % 256), FALSE)
  <2>1. ~(Len(d) >= 48)
    BY <1>2
  <2> HIDE DEF v
  <2> QED BY <2>1, SMT DEF Fed
<1> HIDE DEF a, v
<1>10. (a \div 4) % 256 = b
  BY <1>3, <1>8, Zenon DEF y
<1>11. b64step(st, Symbol(der, 4 * q + 2)) = B64State(a, 2, SubSeq(der, 1, 3 * q + 2), FALSE)
  BY <1>2, <1>7, <1>9, <1>10, Zenon
<1> QED BY <1>8, <1>11, Zenon DEF Fill3, w, c

\* The fourth completes the third byte, and nothing is held.
LEMMA FillStep3 ==
  ASSUME NEW der \in Seq(Byte), NEW q \in Nat, NEW st, Fill3(der, q, st),
         3 * q + 2 < Len(der), 3 * q + 2 < 48
  PROVE  Fill0(der, q + 1, b64step(st, Symbol(der, 4 * q + 3)))
<1> DEFINE b == Octet(der, 3 * q + 2)
           v == b % 64
           d == SubSeq(der, 1, 3 * q + 2)
<1>1. PICK acc \in Nat : st = B64State(acc, 2, d, FALSE) /\ acc % 4 = b \div 64
  BY DEF Fill3
<1>2. b \in Byte /\ Append(d, b) = SubSeq(der, 1, 3 * (q + 1)) /\ Len(d) = 3 * q + 2
  <2>1. 3 * q + 2 \in Nat /\ (3 * q + 2) + 1 = 3 * (q + 1)
    OBVIOUS
  <2> QED BY <2>1, OctetByte
<1>3. v \in 0..63 /\ b \div 64 \in 0..3 /\ 64 * (b \div 64) + v = b
  <2> HIDE DEF b
  <2> QED BY <1>2, ByteParts
<1>4. Sextet(der, 4 * q + 3) = v
  BY SextetAt
<1> DEFINE a == (acc * 64 + v) % 65536
           y == b \div 64
           x == acc \div 4
<1>5. x \in Nat /\ acc = 4 * x + y
  <2>1. x \in Nat /\ acc = 4 * x + (acc % 4)
    BY Divided
  <2> QED BY <1>1, <2>1, Zenon
<1> HIDE DEF b, v, d, y, x
<1>7. b64step(st, Symbol(der, 4 * q + 3)) = Fed(acc, 2, d, v)
  <2>1. 2 \in {0, 2, 4, 6}
    OBVIOUS
  <2> QED BY <1>1, <1>3, <1>4, <2>1, StepSymbol, Zenon DEF Symbol
<1>8. a \in Nat /\ (a \div 1) % 256 = 64 * y + v
  <2>1. a = ((4 * x + y) * 64 + v) % 65536
    BY <1>5
  <2>2. y \in 0..3
    BY <1>3 DEF y
  <2>3. v \in 0..63
    BY <1>3
  <2> HIDE DEF a
  <2> QED BY <1>5, <2>1, <2>2, <2>3, SMT
<1>9. Fed(acc, 2, d, v) = B64State(a, 0, Append(d, (a \div 1) % 256), FALSE)
  <2>1. ~(Len(d) >= 48)
    BY <1>2
  <2> QED BY <2>1, SMT DEF Fed
<1> HIDE DEF a
<1>10. (a \div 1) % 256 = b
  BY <1>3, <1>8, Zenon DEF y
<1>11. b64step(st, Symbol(der, 4 * q + 3)) = B64State(a, 0, SubSeq(der, 1, 3 * (q + 1)), FALSE)
  BY <1>2, <1>7, <1>9, <1>10, Zenon
<1> QED BY <1>8, <1>11, Zenon DEF Fill0

\* A byte more than the buffer holds ends the loop with a failure.
LEMMA FillOver ==
  ASSUME NEW der \in Seq(Byte), NEW q \in Nat, q = 16, NEW st, Fill1(der, q, st), 48 < Len(der)
  PROVE  Overflown(b64step(st, Symbol(der, 65)))
<1> DEFINE d == SubSeq(der, 1, 48)
           v == Sextet(der, 65)
<1>0. 3 * q = 48 /\ 4 * q + 1 = 65 /\ 48 \in Nat /\ 49 \in Nat /\ 3 * q + 1 = 49
  OBVIOUS
<1>1. PICK acc \in Nat : st = B64State(acc, 6, d, FALSE)
  BY <1>0, Zenon DEF Fill1
<1>2. Octet(der, 48) \in Byte /\ Octet(der, 49) \in Byte /\ Len(d) = 48
  BY <1>0, OctetByte
<1>3. v = 16 * (Octet(der, 48) % 4) + (Octet(der, 49) \div 16)
  <2>1. Sextet(der, 4 * q + 1) = 16 * (Octet(der, 3 * q) % 4) + (Octet(der, 3 * q + 1) \div 16)
    BY SextetAt
  <2> QED BY <1>0, <2>1, Zenon
<1>4. v \in 0..63
  <2> DEFINE z == Octet(der, 48) % 4
             w == Octet(der, 49) \div 16
  <2>1. z \in 0..3 /\ w \in 0..15 /\ v = 16 * z + w
    BY <1>2, <1>3, ByteParts
  <2> HIDE DEF z, w, v
  <2> QED BY <2>1
<1> HIDE DEF d, v
<1>5. b64step(st, Symbol(der, 65)) = Fed(acc, 6, d, v)
  <2>1. 6 \in {0, 2, 4, 6}
    OBVIOUS
  <2> QED BY <1>1, <1>4, <2>1, StepSymbol, Zenon DEF Symbol, v
<1>6. Fed(acc, 6, d, v) = B64State(acc, 6, Failed, TRUE)
  BY <1>2, SMT DEF Fed
<1> QED BY <1>5, <1>6, Zenon DEF Overflown

\* The loop behind the first m characters of a key's base64: it holds the bytes that are
\* complete, or has ended since there are too many.
InStep(der, m, st) ==
  IF m > 65 THEN Overflown(st)
  ELSE /\ m % 4 = 0 => Fill0(der, m \div 4, st)
       /\ m % 4 = 1 => Fill1(der, m \div 4, st)
       /\ m % 4 = 2 => Fill2(der, m \div 4, st)
       /\ m % 4 = 3 => Fill3(der, m \div 4, st)

\* As many characters as it takes.
Sextets(der) == (8 * Len(der) + 5) \div 6

\* The group of a character and the next one.
LEMMA Quarter ==
  ASSUME NEW m \in Nat
  PROVE  /\ m \div 4 \in Nat /\ m % 4 \in 0..3 /\ m = 4 * (m \div 4) + (m % 4)
         /\ m % 4 # 3 => (m + 1) \div 4 = m \div 4 /\ (m + 1) % 4 = (m % 4) + 1
         /\ m % 4 = 3 => (m + 1) \div 4 = (m \div 4) + 1 /\ (m + 1) % 4 = 0
OBVIOUS

\* With every character the loop stays in step with the key.
LEMMA InStepNext ==
  ASSUME NEW der \in Seq(Byte), NEW m \in Nat, m < Sextets(der), NEW st, InStep(der, m, st)
  PROVE  InStep(der, m + 1, b64step(st, Symbol(der, m)))
<1> DEFINE q == m \div 4
           r == m % 4
           N == Len(der)
           t == b64step(st, Symbol(der, m))
<1>1. /\ q \in Nat /\ r \in 0..3 /\ m = 4 * q + r
      /\ r # 3 => (m + 1) \div 4 = q /\ (m + 1) % 4 = r + 1
      /\ r = 3 => (m + 1) \div 4 = q + 1 /\ (m + 1) % 4 = 0
  BY Quarter
<1>2. N \in Nat /\ 6 * m + 6 <= 8 * N + 5
  <2>1. N \in Nat /\ m < (8 * N + 5) \div 6
    BY DEF Sextets
  <2> HIDE DEF N
  <2> QED BY <2>1
<1> HIDE DEF q, r
<1>3. CASE m > 65
  <2>1. PICK acc, nbits : st = B64State(acc, nbits, Failed, TRUE)
    BY <1>3 DEF InStep, Overflown
  <2>2. t = st
    BY <2>1, StepEnded, Zenon
  <2>3. Overflown(t) /\ m + 1 > 65
    <3>1. Overflown(t)
      BY <2>1, <2>2, Zenon DEF Overflown
    <3> QED BY <1>3, <3>1
  <2> HIDE DEF t
  <2> QED BY <2>3 DEF InStep, t
<1>4. CASE m = 65
  <2>1. r = 1 /\ q = 16 /\ 48 < N /\ ~(m > 65)
    BY <1>1, <1>2, <1>4
  <2>2. Fill1(der, q, st)
    <3>1. m % 4 = 1 /\ m \div 4 = q
      BY <2>1 DEF r, q
    <3> HIDE DEF N
    <3> QED BY <2>1, <3>1, Zenon DEF InStep
  <2>3. Overflown(t)
    BY <1>1, <1>4, <2>1, <2>2, FillOver
  <2>4. m + 1 > 65
    BY <1>4
  <2> HIDE DEF t
  <2> QED BY <2>3, <2>4 DEF InStep, t
<1>5. CASE m < 65
  <2>0. ~(m > 65) /\ ~(m + 1 > 65)
    BY <1>5
  <2>1. CASE r = 0
    <3>1. Fill0(der, q, st) /\ m = 4 * q
      BY <1>1, <2>0, <2>1, SMT DEF InStep, q, r
    <3>2. Fill1(der, q, t)
      BY <1>1, <3>1, FillStep0
    <3>3. (m + 1) % 4 = 1 /\ (m + 1) \div 4 = q
      BY <1>1, <2>1
    <3> HIDE DEF t
    <3>4. InStep(der, m + 1, t)
      BY <2>0, <3>2, <3>3 DEF InStep
    <3> QED BY <3>4 DEF t
  <2>2. CASE r = 1
    <3>1. Fill1(der, q, st) /\ m = 4 * q + 1
      BY <1>1, <2>0, <2>2, SMT DEF InStep, q, r
    <3>2. 3 * q < N /\ 3 * q < 48
      BY <1>1, <1>2, <1>5, <3>1
    <3>3. Fill2(der, q, t)
      BY <1>1, <3>1, <3>2, FillStep1
    <3>4. (m + 1) % 4 = 2 /\ (m + 1) \div 4 = q
      BY <1>1, <2>2
    <3> HIDE DEF t
    <3>5. InStep(der, m + 1, t)
      BY <2>0, <3>3, <3>4 DEF InStep
    <3> QED BY <3>5 DEF t
  <2>3. CASE r = 2
    <3>1. Fill2(der, q, st) /\ m = 4 * q + 2
      BY <1>1, <2>0, <2>3, SMT DEF InStep, q, r
    <3>2. 3 * q + 1 < N /\ 3 * q + 1 < 48
      BY <1>1, <1>2, <1>5, <3>1
    <3>3. Fill3(der, q, t)
      BY <1>1, <3>1, <3>2, FillStep2
    <3>4. (m + 1) % 4 = 3 /\ (m + 1) \div 4 = q
      BY <1>1, <2>3
    <3> HIDE DEF t
    <3>5. InStep(der, m + 1, t)
      BY <2>0, <3>3, <3>4 DEF InStep
    <3> QED BY <3>5 DEF t
  <2>4. CASE r = 3
    <3>1. Fill3(der, q, st) /\ m = 4 * q + 3
      BY <1>1, <2>0, <2>4, SMT DEF InStep, q, r
    <3>2. 3 * q + 2 < N /\ 3 * q + 2 < 48
      BY <1>1, <1>2, <1>5, <3>1
    <3>3. Fill0(der, q + 1, t)
      BY <1>1, <3>1, <3>2, FillStep3
    <3>4. (m + 1) % 4 = 0 /\ (m + 1) \div 4 = q + 1
      BY <1>1, <2>4
    <3> HIDE DEF t
    <3>5. InStep(der, m + 1, t)
      BY <2>0, <3>3, <3>4 DEF InStep
    <3> QED BY <3>5 DEF t
  <2> QED BY <1>1, <2>1, <2>2, <2>3, <2>4
<1> QED BY <1>3, <1>4, <1>5

\* What a key's base64 stands for; the buffer holds 48 bytes.
Decoded(der) == IF Len(der) <= 48 THEN der ELSE Failed

\* A line break anywhere between the characters changes nothing.
LEMMA InStepLine ==
  ASSUME NEW der, NEW m \in Nat, NEW st, InStep(der, m, st)
  PROVE  b64step(st, "\n") = st
<1>1. ASSUME NEW acc, NEW nbits, NEW d, st = B64State(acc, nbits, d, FALSE)
      PROVE  b64step(st, "\n") = st
  BY <1>1, StepLine, Zenon
<1>2. ASSUME NEW acc, NEW nbits, NEW d, st = B64State(acc, nbits, d, TRUE)
      PROVE  b64step(st, "\n") = st
  BY <1>2, StepEnded, Zenon
<1>3. CASE Overflown(st)
  BY <1>2, <1>3, Zenon DEF Overflown
<1>4. CASE Fill0(der, m \div 4, st)
  BY <1>1, <1>4, Zenon DEF Fill0
<1>5. CASE Fill1(der, m \div 4, st)
  BY <1>1, <1>5, Zenon DEF Fill1
<1>6. CASE Fill2(der, m \div 4, st)
  BY <1>1, <1>6, Zenon DEF Fill2
<1>7. CASE Fill3(der, m \div 4, st)
  BY <1>1, <1>7, Zenon DEF Fill3
<1>8. m % 4 \in {0, 1, 2, 3}
  OBVIOUS
<1> QED BY <1>3, <1>4, <1>5, <1>6, <1>7, <1>8 DEF InStep

\* The loop has all of the key.
AtEnd(der, st) == \E acc, nbits : \E end \in BOOLEAN : st = B64State(acc, nbits, Decoded(der), end)

\* Padding and line breaks behind the key change nothing.
LEMMA AtEndDecoded ==
  ASSUME NEW der, NEW st, AtEnd(der, st)
  PROVE  st.der = Decoded(der) /\ AtEnd(der, b64step(st, "=")) /\ AtEnd(der, b64step(st, "\n"))
<1>1. PICK acc, nbits : \E end \in BOOLEAN : st = B64State(acc, nbits, Decoded(der), end)
  BY Zenon DEF AtEnd
<1>2. PICK end \in BOOLEAN : st = B64State(acc, nbits, Decoded(der), end)
  BY <1>1
<1>3. st.der = Decoded(der)
  BY <1>2, Zenon DEF B64State
<1>4. CASE end = TRUE
  <2>1. b64step(st, "=") = st /\ b64step(st, "\n") = st
    BY <1>2, <1>4, StepEnded, Zenon
  <2> QED BY <1>3, <2>1
<1>5. CASE end = FALSE
  <2>1. b64step(st, "=") = B64State(acc, nbits, Decoded(der), TRUE)
    BY <1>2, <1>5, StepPad, Zenon
  <2>2. b64step(st, "\n") = st
    BY <1>2, <1>5, StepLine, Zenon
  <2>3. AtEnd(der, b64step(st, "="))
    BY <2>1, Zenon DEF AtEnd
  <2> QED BY <1>3, <2>2, <2>3
<1> QED BY <1>4, <1>5

\* Behind the last character the loop has all bytes, or has failed for one too many.
LEMMA InStepEnd ==
  ASSUME NEW der \in Seq(Byte), NEW st, InStep(der, Sextets(der), st)
  PROVE  AtEnd(der, st)
<1> DEFINE N == Len(der)
           n == Sextets(der)
           q == n \div 4
<1>1. N \in Nat /\ n = (8 * N + 5) \div 6
  BY DEF Sextets
<1>2. /\ n \in Nat /\ (N > 48 => n > 65) /\ (N <= 48 => ~(n > 65))
      /\ n % 4 = 0 => 3 * q = N
      /\ n % 4 # 1
      /\ n % 4 = 2 => 3 * q + 1 = N
      /\ n % 4 = 3 => 3 * q + 2 = N
  <2> HIDE DEF n, N
  <2> QED BY <1>1, SMT
<1>3. SubSeq(der, 1, N) = der
  OBVIOUS
<1>4. CASE N > 48
  <2>1. Overflown(st) /\ Decoded(der) = Failed
    BY <1>1, <1>2, <1>4 DEF InStep, Decoded
  <2> QED BY <2>1, Zenon DEF Overflown, AtEnd
<1>5. CASE N <= 48
  <2>1. Decoded(der) = der /\ ~(n > 65)
    BY <1>2, <1>5 DEF Decoded
  <2>2. n % 4 \in {0, 2, 3}
    BY <1>2
  <2>3. CASE n % 4 = 0
    <3>1. Fill0(der, q, st) /\ 3 * q = N
      BY <1>2, <2>1, <2>3 DEF InStep
    <3> QED BY <1>3, <2>1, <3>1, Zenon DEF Fill0, AtEnd
  <2>4. CASE n % 4 = 2
    <3>1. Fill2(der, q, st) /\ 3 * q + 1 = N
      BY <1>2, <2>1, <2>4 DEF InStep
    <3> QED BY <1>3, <2>1, <3>1, Zenon DEF Fill2, AtEnd
  <2>5. CASE n % 4 = 3
    <3>1. Fill3(der, q, st) /\ 3 * q + 2 = N
      BY <1>2, <2>1, <2>5 DEF InStep
    <3> QED BY <1>3, <2>1, <3>1, Zenon DEF Fill3, AtEnd
  <2> QED BY <2>2, <2>3, <2>4, <2>5
<1> QED BY <1>1, <1>4, <1>5

\* The loop behind j characters of base64, padding included.
Progress(der, j, st) == IF j <= Sextets(der) THEN InStep(der, j, st) ELSE AtEnd(der, st)

\* The characters of a key's base64.
LEMMA SextetRange ==
  ASSUME NEW der \in Seq(Byte), NEW j \in Nat
  PROVE  Sextet(der, j) + 1 \in 1..64
<1> DEFINE q == j \div 4
           o0 == Octet(der, 3 * q)
           o1 == Octet(der, 3 * q + 1)
           o2 == Octet(der, 3 * q + 2)
<1>1. q \in Nat /\ (j = 4 * q \/ j = 4 * q + 1 \/ j = 4 * q + 2 \/ j = 4 * q + 3)
  OBVIOUS
<1> HIDE DEF q
<1>2. o0 \in Byte /\ o1 \in Byte /\ o2 \in Byte
  <2>1. 3 * q \in Nat /\ 3 * q + 1 \in Nat /\ 3 * q + 2 \in Nat
    BY <1>1
  <2> QED BY <2>1, OctetByte
<1>3. /\ Sextet(der, 4 * q) = o0 \div 4
      /\ Sextet(der, 4 * q + 1) = 16 * (o0 % 4) + (o1 \div 16)
      /\ Sextet(der, 4 * q + 2) = 4 * (o1 % 16) + (o2 \div 64)
      /\ Sextet(der, 4 * q + 3) = o2 % 64
  BY <1>1, SextetAt, Zenon
<1> HIDE DEF o0, o1, o2
<1>4. /\ o0 \div 4 \in 0..63 /\ o0 % 4 \in 0..3 /\ o1 \div 16 \in 0..15
      /\ o1 % 16 \in 0..15 /\ o2 \div 64 \in 0..3 /\ o2 % 64 \in 0..63
  BY <1>2, ByteParts
<1>5. /\ (o0 \div 4) + 1 \in 1..64 /\ (16 * (o0 % 4) + (o1 \div 16)) + 1 \in 1..64
      /\ (4 * (o1 % 16) + (o2 \div 64)) + 1 \in 1..64 /\ (o2 % 64) + 1 \in 1..64
  <2> DEFINE a == o0 \div 4
             b == o0 % 4
             c == o1 \div 16
             d == o1 % 16
             e == o2 \div 64
             f == o2 % 64
  <2>1. /\ a \in 0..63 /\ b \in 0..3 /\ c \in 0..15 /\ d \in 0..15 /\ e \in 0..3 /\ f \in 0..63
    BY <1>4
  <2> HIDE DEF a, b, c, d, e, f
  <2>2. /\ a + 1 \in 1..64 /\ (16 * b + c) + 1 \in 1..64 /\ (4 * d + e) + 1 \in 1..64 /\ f + 1 \in 1..64
    BY <2>1
  <2> QED BY <2>2 DEF a, b, c, d, e, f
<1> QED BY <1>1, <1>3, <1>5, Zenon

\* The characters of base64.
Codes == {Alphabet[k] : k \in 1..64} \cup {"="}

\* Base64 is the characters of the sextets, then padding.
LEMMA Base64Chars ==
  ASSUME NEW der \in Seq(Byte)
  PROVE  /\ Base64(der) \in Seq(Codes) /\ Len(Base64(der)) \in Nat /\ Len(Base64(der)) >= Sextets(der)
         /\ \A j \in 1..Sextets(der) : Base64(der)[j] = Symbol(der, j - 1)
         /\ \A j \in (Sextets(der) + 1)..Len(Base64(der)) : Base64(der)[j] = "="
<1> DEFINE n == Sextets(der)
           p == (4 - (n % 4)) % 4
           x == [j \in 1..n |-> Symbol(der, j - 1)]
           y == [j \in 1..p |-> "="]
<1>1. n \in Nat
  <2>1. Len(der) \in Nat
    OBVIOUS
  <2> QED BY <2>1 DEF Sextets
<1>2. Base64(der) = x \o y
  BY Zenon DEF Base64, Sextets, Symbol
<1> HIDE DEF n
<1>3. p \in Nat
  BY <1>1
<1> HIDE DEF p
<1>4. x \in Seq(Codes) /\ Len(x) = n
  <2>1. ASSUME NEW j \in 1..n PROVE Symbol(der, j - 1) \in Codes
    <3>0. j - 1 \in Nat
      BY <1>1
    <3>1. Sextet(der, j - 1) + 1 \in 1..64
      BY <3>0, SextetRange
    <3> QED BY <3>1 DEF Symbol, Codes
  <2> QED BY <1>1, <2>1
<1>5. y \in Seq(Codes) /\ Len(y) = p
  <2>1. "=" \in Codes
    BY DEF Codes
  <2> QED BY <1>3, <2>1
<1>6. \A j \in 1..n : x[j] = Symbol(der, j - 1)
  OBVIOUS
<1>7. \A j \in 1..p : y[j] = "="
  OBVIOUS
<1> HIDE DEF x, y
<1> DEFINE b == x \o y
<1>8. /\ b \in Seq(Codes) /\ Len(b) = n + p
      /\ \A i \in 1..n : b[i] = x[i]
      /\ \A i \in 1..p : b[n + i] = y[i]
  <2>1. /\ b \in Seq(Codes) /\ Len(b) = Len(x) + Len(y)
        /\ \A i \in 1..Len(x) : b[i] = x[i]
        /\ \A i \in 1..Len(y) : b[Len(x) + i] = y[i]
    <3>1. x \in Seq(Codes) /\ y \in Seq(Codes)
      BY <1>4, <1>5
    <3> QED BY <3>1
  <2> HIDE DEF b
  <2> QED BY <1>4, <1>5, <2>1, Zenon
<1> HIDE DEF b
<1>9. ASSUME NEW j \in (n + 1)..Len(b) PROVE b[j] = "="
  <2>1. j - n \in 1..p /\ n + (j - n) = j
    BY <1>1, <1>3, <1>8
  <2> QED BY <1>7, <1>8, <2>1
<1>10. Len(b) \in Nat /\ Len(b) >= n
  BY <1>1, <1>3, <1>8
<1>11. /\ b \in Seq(Codes) /\ Len(b) \in Nat /\ Len(b) >= n
       /\ \A j \in 1..n : b[j] = Symbol(der, j - 1)
       /\ \A j \in (n + 1)..Len(b) : b[j] = "="
  BY <1>6, <1>8, <1>9, <1>10
<1>12. Base64(der) = b
  BY <1>2 DEF b
<1> QED BY <1>11, <1>12 DEF n

\* The loop on the next character of the base64.
LEMMA ProgressSymbol ==
  ASSUME NEW der \in Seq(Byte), NEW j \in 1..Len(Base64(der)), NEW st, Progress(der, j - 1, st)
  PROVE  Progress(der, j, b64step(st, Base64(der)[j]))
<1> DEFINE b == Base64(der)
           n == Sextets(der)
           t == b64step(st, b[j])
<1>1. /\ Len(b) \in Nat /\ Len(b) >= n
      /\ \A i \in 1..n : b[i] = Symbol(der, i - 1)
      /\ \A i \in (n + 1)..Len(b) : b[i] = "="
  BY Base64Chars, Zenon
<1>2. n \in Nat
  <2>1. Len(der) \in Nat
    OBVIOUS
  <2> QED BY <2>1 DEF Sextets
<1>3. j \in Nat /\ j >= 1 /\ j - 1 \in Nat /\ (j - 1) + 1 = j
  BY <1>1
<1>4. CASE j <= n
  <2>1. InStep(der, j - 1, st) /\ b[j] = Symbol(der, j - 1) /\ j - 1 < n
    BY <1>1, <1>2, <1>3, <1>4 DEF Progress
  <2> DEFINE m == j - 1
  <2>2. m \in Nat /\ m < Sextets(der) /\ InStep(der, m, st) /\ m + 1 = j /\ b[j] = Symbol(der, m)
    BY <1>3, <2>1
  <2> HIDE DEF m, b
  <2>3. InStep(der, m + 1, b64step(st, Symbol(der, m)))
    BY <2>2, InStepNext
  <2>4. InStep(der, j, t)
    BY <2>2, <2>3, Zenon
  <2> HIDE DEF t
  <2>5. Progress(der, j, t)
    BY <1>4, <2>4 DEF Progress
  <2> QED BY <2>5 DEF t, b
<1>5. CASE ~(j <= n)
  <2>1. b[j] = "="
    <3>1. j \in (n + 1)..Len(b)
      BY <1>1, <1>2, <1>3, <1>5
    <3> QED BY <1>1, <3>1, Zenon
  <2>2. AtEnd(der, st)
    <3>1. CASE j = n + 1
      <4>1. j - 1 = n /\ n <= n
        BY <1>2, <3>1
      <4>2. InStep(der, n, st)
        BY <4>1, Zenon DEF Progress
      <4> QED BY <4>2, InStepEnd
    <3>2. CASE j # n + 1
      <4>1. ~(j - 1 <= n)
        BY <1>2, <1>3, <1>5, <3>2
      <4> QED BY <4>1 DEF Progress
    <3> QED BY <3>1, <3>2
  <2>3. AtEnd(der, t)
    BY <2>1, <2>2, AtEndDecoded, Zenon
  <2> HIDE DEF t
  <2>4. Progress(der, j, t)
    BY <1>5, <2>3 DEF Progress
  <2> QED BY <2>4 DEF t, b
<1> QED BY <1>4, <1>5

\* The loop on a line break.
LEMMA ProgressLine ==
  ASSUME NEW der, NEW j \in Nat, NEW st, Progress(der, j, st)
  PROVE  Progress(der, j, b64step(st, "\n"))
<1>1. CASE j <= Sextets(der)
  <2>1. InStep(der, j, st)
    BY <1>1 DEF Progress
  <2>2. b64step(st, "\n") = st
    BY <2>1, InStepLine
  <2> QED BY <2>2
<1>2. CASE ~(j <= Sextets(der))
  <2>1. AtEnd(der, st)
    BY <1>2 DEF Progress
  <2> DEFINE t == b64step(st, "\n")
  <2>2. AtEnd(der, t)
    BY <2>1, AtEndDecoded
  <2> HIDE DEF t
  <2>3. Progress(der, j, t)
    BY <1>2, <2>2 DEF Progress
  <2> QED BY <2>3 DEF t
<1> QED BY <1>1, <1>2

\* The loop starts in step.
LEMMA ProgressZero ==
  ASSUME NEW der \in Seq(Byte)
  PROVE  Progress(der, 0, B64State(0, 0, <<>>, FALSE))
<1>1. 0 <= Sextets(der)
  <2>1. Len(der) \in Nat
    OBVIOUS
  <2> QED BY <2>1 DEF Sextets
<1>2. SubSeq(der, 1, 0) = <<>> /\ 0 \in Nat /\ 0 \div 4 = 0 /\ 0 % 4 = 0 /\ ~(0 > 65) /\ 3 * 0 = 0
  OBVIOUS
<1>3. Fill0(der, 0, B64State(0, 0, <<>>, FALSE))
  BY <1>2, Zenon DEF Fill0
<1> DEFINE st == B64State(0, 0, <<>>, FALSE)
<1>4. Fill0(der, 0 \div 4, st)
  BY <1>2, <1>3, Zenon
<1> HIDE DEF st
<1>5. 0 % 4 # 1 /\ 0 % 4 # 2 /\ 0 % 4 # 3
  OBVIOUS
<1>6. InStep(der, 0, st)
  BY <1>2, <1>4, <1>5, Zenon DEF InStep
<1>7. Progress(der, 0, st)
  BY <1>1, <1>6 DEF Progress
<1> QED BY <1>7 DEF st

\* Behind all of the base64 the loop has what it stands for.
LEMMA ProgressEnd ==
  ASSUME NEW der \in Seq(Byte), NEW st, Progress(der, Len(Base64(der)), st)
  PROVE  st.der = Decoded(der)
<1> DEFINE l == Len(Base64(der))
           n == Sextets(der)
<1>1. l \in Nat /\ l >= n
  BY Base64Chars
<1>2. n \in Nat
  <2>1. Len(der) \in Nat
    OBVIOUS
  <2> QED BY <2>1 DEF Sextets
<1>3. AtEnd(der, st)
  <2>1. CASE l = n
    <3>1. InStep(der, n, st)
      <4>1. l <= n
        BY <1>2, <2>1
      <4> HIDE DEF l
      <4>2. InStep(der, l, st)
        BY <4>1, Zenon DEF Progress, l
      <4> QED BY <2>1, <4>2, Zenon
    <3> QED BY <3>1, InStepEnd
  <2>2. CASE l # n
    <3>1. ~(l <= n)
      BY <1>1, <1>2, <2>2
    <3> QED BY <3>1, Zenon DEF Progress
  <2> QED BY <2>1, <2>2
<1> QED BY <1>3, AtEndDecoded

\* The places of the texts do not decrease.
LEMMA FlatIncrease ==
  ASSUME NEW C, NEW R, NEW seqs \in Seq(Seq(C)), NEW at, Flat(C, R, seqs, at)
  PROVE  \A k \in 0..Len(seqs) : at[k] \in Nat /\ at[k] <= Len(R)
<1> DEFINE n == Len(seqs)
           S == {k \in Nat : k <= n => \A j \in 0..k : at[j] <= at[k]}
<1>1. /\ n \in Nat /\ at \in [0..n -> Nat] /\ at[n] = Len(R)
      /\ \A k \in 1..n : at[k] = at[k - 1] + Len(seqs[k])
  BY DEF Flat
<1>2. \A k \in 1..n : Len(seqs[k]) \in Nat
  OBVIOUS
<1> HIDE DEF n
<1>3. 0 \in S
  BY <1>1
<1>4. ASSUME NEW k \in Nat, k \in S PROVE k + 1 \in S
  <2> SUFFICES ASSUME k + 1 <= n, NEW j \in 0..(k + 1) PROVE at[j] <= at[k + 1]
    OBVIOUS
  <2>1. k + 1 \in 1..n /\ k \in 0..n /\ j \in 0..n /\ (k + 1) - 1 = k /\ k + 1 \in 0..n
    BY <1>1
  <2>2. at[k + 1] = at[k] + Len(seqs[k + 1]) /\ Len(seqs[k + 1]) \in Nat
    BY <1>1, <1>2, <2>1
  <2>3. at[k] \in Nat /\ at[j] \in Nat /\ at[k + 1] \in Nat
    BY <1>1, <2>1
  <2>4. CASE j = k + 1
    BY <2>3, <2>4
  <2>5. CASE j # k + 1
    <3>1. j \in 0..k /\ k <= n
      BY <2>1, <2>5
    <3>2. at[j] <= at[k]
      BY <1>4, <3>1
    <3> QED BY <2>2, <2>3, <3>2
  <2> QED BY <2>4, <2>5
<1> HIDE DEF S
<1>5. Nat \subseteq S
  BY <1>3, <1>4, Induction
<1>6. \A j \in 0..n : at[j] <= at[n]
  BY <1>1, <1>5 DEF S
<1> QED BY <1>1, <1>6 DEF n

-----------------------------------------------------------------------------
(* The PEM of a key.                                                       *)

\* The characters of a PEM, with a line break behind every width-th.
Lines(b, width) == [j \in DOMAIN b |-> IF j % width = 0 THEN <<b[j], "\n">> ELSE <<b[j]>>]

\* The characters of a body.
BodyChars(C) == Codes \subseteq C /\ "\n" \in C

\* The lines are texts.
LEMMA LinesText ==
  ASSUME NEW C, BodyChars(C), NEW b \in Seq(Codes), NEW width
  PROVE  /\ Lines(b, width) \in Seq(Seq(C)) /\ Len(Lines(b, width)) = Len(b)
         /\ \A j \in 1..Len(b) : \/ Lines(b, width)[j] = <<b[j]>>
                                 \/ Lines(b, width)[j] = <<b[j], "\n">>
<1> DEFINE n == Len(b)
           L == Lines(b, width)
<1>1. n \in Nat /\ DOMAIN b = 1..n
  OBVIOUS
<1>2. ASSUME NEW j \in 1..n PROVE /\ L[j] = <<b[j]>> \/ L[j] = <<b[j], "\n">>
                                  /\ L[j] \in Seq(C)
  <2>1. b[j] \in C /\ "\n" \in C
    BY DEF BodyChars
  <2>2. L[j] = IF j % width = 0 THEN <<b[j], "\n">> ELSE <<b[j]>>
    BY <1>1, Zenon DEF Lines
  <2>3. <<b[j], "\n">> \in Seq(C) /\ <<b[j]>> \in Seq(C)
    BY <2>1
  <2> QED BY <2>2, <2>3, Zenon
<1>3. L = [j \in 1..n |-> L[j]]
  BY <1>1, Zenon DEF Lines
<1> HIDE DEF L, n
<1>4. L \in Seq(Seq(C)) /\ Len(L) = n
  <2>1. L \in [1..n -> Seq(C)]
    BY <1>2, <1>3, Zenon
  <2> QED BY <1>1, <2>1
<1> QED BY <1>2, <1>4 DEF L, n

\* T is the body of a PEM: the lines and the break before its end.
PemBody(C, T, W) == /\ T \in Seq(C) /\ W \in Seq(C) /\ Len(T) = Len(W) + 1
                    /\ \A i \in 1..Len(W) : T[i] = W[i]
                    /\ T[Len(W) + 1] = "\n"

\* b64_decode yields the bytes, however the lines are broken.
LEMMA BodyDecoded ==
  ASSUME NEW C, BodyChars(C), NEW der \in Seq(Byte), NEW width, NEW T,
         PemBody(C, T, FlattenSeq(Lines(Base64(der), width)))
  PROVE  b64decode(T) = Decoded(der)
<1> DEFINE b == Base64(der)
           n == Len(b)
           L == Lines(b, width)
           W == FlattenSeq(L)
           l == Len(W)
<1>1. b \in Seq(Codes) /\ n \in Nat
  BY Base64Chars, Zenon
<1>2. /\ L \in Seq(Seq(C)) /\ Len(L) = n
      /\ \A j \in 1..n : L[j] = <<b[j]>> \/ L[j] = <<b[j], "\n">>
  <2> HIDE DEF b
  <2> QED BY <1>1, LinesText, Zenon
<1>3. PICK at : Flat(C, W, L, at)
  <2> HIDE DEF L
  <2> QED BY <1>2, FlattenPlaces, Zenon
<1>4. /\ T \in Seq(C) /\ W \in Seq(C) /\ Len(T) = l + 1
      /\ \A i \in 1..l : T[i] = W[i]
      /\ T[l + 1] = "\n"
  <2> HIDE DEF W
  <2>1. PemBody(C, T, W)
    BY Zenon DEF W, L, b
  <2> QED BY <2>1, Zenon DEF PemBody
<1>5. l \in Nat
  <2> HIDE DEF W
  <2> QED BY <1>4
<1>6. PICK u : Decodes(u, T)
  BY <1>4, DecodeLoop, Zenon
<1>7. /\ u[0] = B64State(0, 0, <<>>, FALSE) /\ b64decode(T) = u[l + 1].der
      /\ \A k \in 1..(l + 1) : u[k] = b64step(u[k - 1], T[k])
  BY <1>4, <1>6, Zenon DEF Decodes
<1>8. /\ at[0] = 0 /\ at[n] = l
      /\ \A k \in 1..n : /\ at[k] = at[k - 1] + Len(L[k])
                         /\ \A j \in 1..Len(L[k]) : W[at[k - 1] + j] = L[k][j]
  BY <1>2, <1>3, Zenon DEF Flat
<1>9. \A k \in 0..n : at[k] \in Nat /\ at[k] <= l
  <2> HIDE DEF L
  <2> QED BY <1>2, <1>3, FlatIncrease, Zenon
<1> HIDE DEF L, W, b, n, l
<1> DEFINE S == {k \in Nat : k <= n => Progress(der, k, u[at[k]])}
<1>10. 0 \in S
  <2>1. Progress(der, 0, u[at[0]])
    BY <1>7, <1>8, ProgressZero, Zenon
  <2> QED BY <2>1
<1>11. ASSUME NEW k \in Nat, k \in S PROVE k + 1 \in S
  <2> SUFFICES ASSUME k + 1 <= n PROVE Progress(der, k + 1, u[at[k + 1]])
    OBVIOUS
  <2> DEFINE a == at[k]
             c == b[k + 1]
             t == b64step(u[a], c)
  <2>1. k + 1 \in 1..n /\ k \in 0..n /\ k + 1 \in 0..n /\ (k + 1) - 1 = k /\ k <= n
    BY <1>1
  <2>2. Progress(der, k, u[a])
    BY <1>11, <2>1
  <2>3. /\ at[k + 1] = a + Len(L[k + 1])
        /\ \A j \in 1..Len(L[k + 1]) : W[a + j] = L[k + 1][j]
    BY <1>8, <2>1, Zenon
  <2>4. a \in Nat /\ at[k + 1] \in Nat /\ at[k + 1] <= l
    BY <1>9, <2>1
  <2>5. Progress(der, k + 1, t)
    BY <2>1, <2>2, ProgressSymbol, Zenon DEF b, n
  <2> HIDE DEF a
  <2>6. ASSUME NEW i \in 1..l PROVE u[i] = b64step(u[i - 1], W[i])
    <3>1. i \in 1..(l + 1)
      BY <1>5
    <3> QED BY <1>4, <1>7, <3>1, Zenon
  <2>7. CASE L[k + 1] = <<c>>
    <3>1. Len(L[k + 1]) = 1 /\ L[k + 1][1] = c /\ 1 \in 1..Len(L[k + 1])
      BY <2>7
    <3>2. at[k + 1] = a + 1 /\ W[a + 1] = c
      BY <2>3, <3>1, Zenon
    <3>3. a + 1 \in 1..l /\ (a + 1) - 1 = a
      BY <1>5, <2>4, <3>2
    <3>4. u[a + 1] = t
      BY <2>6, <3>2, <3>3, Zenon
    <3> QED BY <2>5, <3>2, <3>4, Zenon
  <2>8. CASE L[k + 1] = <<c, "\n">>
    <3>1. Len(L[k + 1]) = 2 /\ L[k + 1][1] = c /\ L[k + 1][2] = "\n" /\ 1 \in 1..Len(L[k + 1])
          /\ 2 \in 1..Len(L[k + 1])
      BY <2>8
    <3>2. at[k + 1] = a + 2 /\ W[a + 1] = c /\ W[a + 2] = "\n"
      BY <2>3, <3>1, Zenon
    <3>3. a + 1 \in 1..l /\ (a + 1) - 1 = a /\ a + 2 \in 1..l /\ (a + 2) - 1 = a + 1
      BY <1>5, <2>4, <3>2
    <3>4. u[a + 1] = t
      BY <2>6, <3>2, <3>3, Zenon
    <3>5. u[a + 2] = b64step(t, "\n")
      BY <2>6, <3>2, <3>3, <3>4, Zenon
    <3>6. Progress(der, k + 1, b64step(t, "\n"))
      <4>1. k + 1 \in Nat
        OBVIOUS
      <4> QED BY <2>5, <4>1, ProgressLine, Zenon
    <3> QED BY <3>2, <3>5, <3>6, Zenon
  <2> QED BY <1>2, <2>1, <2>7, <2>8, Zenon
<1> HIDE DEF S
<1>12. Nat \subseteq S
  BY <1>10, <1>11, Induction
<1>13. Progress(der, n, u[l])
  <2>1. n \in S /\ n <= n
    BY <1>1, <1>12
  <2>2. Progress(der, n, u[at[n]])
    BY <2>1 DEF S
  <2> QED BY <1>8, <2>2, Zenon
<1>14. u[l + 1] = b64step(u[l], "\n")
  <2>1. l + 1 \in 1..(l + 1) /\ (l + 1) - 1 = l
    BY <1>5
  <2> QED BY <1>4, <1>7, <2>1, Zenon
<1>15. Progress(der, n, u[l + 1])
  BY <1>1, <1>13, <1>14, ProgressLine, Zenon
<1>16. u[l + 1].der = Decoded(der)
  BY <1>15, ProgressEnd, Zenon DEF n, b
<1> QED BY <1>7, <1>16, Zenon

\* The first x of p from i on.
First(p, i, x) == CHOOSE j \in i..(i + Len(p)) :
                     /\ j > Len(p) \/ p[j] = x
                     /\ \A k \in i..(j - 1) : k <= Len(p) /\ ~(p[k] = x)

\* FirstFrom finds it.
LEMMA FirstAt ==
  ASSUME NEW p, Len(p) \in Nat, NEW i \in Nat, NEW k \in i..Len(p), NEW x, p[k] = x,
         \A m \in i..(k - 1) : p[m] # x
  PROVE  First(p, i, x) = k
<1> DEFINE P(j) == /\ j > Len(p) \/ p[j] = x
                   /\ \A m \in i..(j - 1) : m <= Len(p) /\ ~(p[m] = x)
<1>1. k \in i..(i + Len(p)) /\ P(k)
  OBVIOUS
<1>2. ASSUME NEW j \in i..(i + Len(p)), P(j) PROVE j = k
  <2>1. CASE j < k
    <3>1. j \in i..(k - 1) /\ j <= Len(p)
      BY <2>1
    <3>2. p[j] # x /\ ~(j > Len(p))
      BY <3>1
    <3> QED BY <1>2, <3>2
  <2>2. CASE k < j
    <3>1. k \in i..(j - 1)
      BY <2>2
    <3> QED BY <1>2, <3>1
  <2> QED BY <2>1, <2>2
<1>3. First(p, i, x) = CHOOSE j \in i..(i + Len(p)) : P(j)
  BY Zenon DEF First
<1> HIDE DEF P
<1> QED BY <1>1, <1>2, <1>3

\* The marks of a PEM.
Begin == "-----BEGIN"
End == "-----END"
LineEnd == "\n"
Dash == "-"

\* claim_ed25519_pub_from_pem, once it has found the body of the PEM.
LEMMA PemPlaces ==
  ASSUME NEW pem, First(pem, 1, Begin) = 1, NEW b, First(pem, 1, LineEnd) + 1 = b,
         NEW e, First(pem, b, End) = e
  PROVE  claim_ed25519_pub_from_pem(pem) =
           IF b > Len(pem) \/ e > Len(pem) THEN Failed
           ELSE IF b64decode(SubSeq(pem, b, e - 1)) = Failed \/ ~IsSpki(b64decode(SubSeq(pem, b, e - 1)))
           THEN Failed
           ELSE SubSeq(b64decode(SubSeq(pem, b, e - 1)), 13, 12 + KeySize)
<1> DEFINE begin == First(pem, 1, Begin)
           p == First(pem, begin, LineEnd) + 1
           q == First(pem, p, End)
           d == b64decode(SubSeq(pem, p, q - 1))
<1>1. claim_ed25519_pub_from_pem(pem) =
        IF p > Len(pem) \/ q > Len(pem) THEN Failed
        ELSE IF d = Failed \/ ~IsSpki(d) THEN Failed
        ELSE SubSeq(d, 13, 12 + KeySize)
  BY Zenon DEF claim_ed25519_pub_from_pem, FirstFrom, First, Begin, End, LineEnd
<1>2. p = b
  BY Zenon
<1> HIDE DEF p
<1>3. q = e
  BY <1>2, Zenon
<1> HIDE DEF q
<1> QED BY <1>1, <1>2, <1>3, Zenon

\* The characters of a PEM.
PemChars == Codes \cup {LineEnd, Dash, Begin, End}

\* None of the marks stands in the base64.
LEMMA MarksApart ==
  /\ End \notin Codes \cup {LineEnd} /\ LineEnd # Begin /\ LineEnd # Dash
  /\ BodyChars(Codes \cup {LineEnd})
  /\ BodyChars(PemChars)
<1>1. End \notin Codes
  <2>1. \A k \in 1..64 : Alphabet[k] # "-----END"
    BY AlphabetValues
  <2> QED BY <2>1 DEF Codes, End
<1>2. End # LineEnd /\ LineEnd # Begin /\ LineEnd # Dash
  BY DEF End, LineEnd, Begin, Dash
<1>3. BodyChars(Codes \cup {LineEnd}) /\ BodyChars(PemChars)
  BY DEF BodyChars, PemChars, LineEnd
<1> QED BY <1>1, <1>2, <1>3

\* Where things stand in a PEM with the lines W.
PemShape(pem, W) ==
  /\ pem \in Seq(PemChars) /\ W \in Seq(Codes \cup {LineEnd}) /\ Len(pem) = Len(W) + 7
  /\ pem[1] = Begin /\ pem[2] = Dash /\ pem[3] = LineEnd
  /\ \A i \in 1..Len(W) : pem[3 + i] = W[i]
  /\ pem[Len(W) + 4] = LineEnd /\ pem[Len(W) + 5] = End

\* A PEM has this shape.
LEMMA PemWritten ==
  ASSUME NEW W \in Seq(Codes \cup {LineEnd}), NEW pem,
         pem = <<Begin, Dash, LineEnd>> \o W \o <<LineEnd, End, Dash, LineEnd>>
  PROVE  PemShape(pem, W)
<1> DEFINE x == <<Begin, Dash, LineEnd>>
           z == <<LineEnd, End, Dash, LineEnd>>
           y == x \o W
           l == Len(W)
<1>1. x \in Seq(PemChars) /\ Len(x) = 3 /\ x[1] = Begin /\ x[2] = Dash /\ x[3] = LineEnd
  BY DEF PemChars
<1>2. z \in Seq(PemChars) /\ Len(z) = 4 /\ z[1] = LineEnd /\ z[2] = End
  BY DEF PemChars
<1>3. W \in Seq(PemChars) /\ l \in Nat
  <2>1. Codes \cup {LineEnd} \subseteq PemChars
    BY DEF PemChars
  <2> QED BY <2>1
<1> HIDE DEF x, z
<1>4. /\ y \in Seq(PemChars) /\ Len(y) = Len(x) + Len(W)
      /\ \A i \in 1..Len(x) : y[i] = x[i]
      /\ \A i \in 1..Len(W) : y[Len(x) + i] = W[i]
  <2>1. x \in Seq(PemChars) /\ W \in Seq(PemChars)
    BY <1>1, <1>3
  <2> QED BY <2>1
<1>5. pem = y \o z
  BY DEF x, z
<1> HIDE DEF y, l
<1>6. /\ y \o z \in Seq(PemChars) /\ Len(y \o z) = Len(y) + Len(z)
      /\ \A i \in 1..Len(y) : (y \o z)[i] = y[i]
      /\ \A i \in 1..Len(z) : (y \o z)[Len(y) + i] = z[i]
  <2>1. y \in Seq(PemChars) /\ z \in Seq(PemChars)
    BY <1>2, <1>4
  <2> QED BY <2>1
<1>7. Len(y) = 3 + l
  BY <1>1, <1>4 DEF l
<1>8. pem \in Seq(PemChars) /\ Len(pem) = l + 7
  BY <1>2, <1>3, <1>5, <1>6, <1>7, SMTT(30)
<1>9. pem[1] = Begin /\ pem[2] = Dash /\ pem[3] = LineEnd
  <2>1. 1 \in 1..Len(y) /\ 2 \in 1..Len(y) /\ 3 \in 1..Len(y)
        /\ 1 \in 1..Len(x) /\ 2 \in 1..Len(x) /\ 3 \in 1..Len(x)
    BY <1>1, <1>3, <1>7
  <2>2. y[1] = x[1] /\ y[2] = x[2] /\ y[3] = x[3]
    BY <1>4, <2>1, Zenon
  <2>3. \A i \in 1..Len(y) : pem[i] = y[i]
    BY <1>5, <1>6
  <2>4. pem[1] = y[1] /\ pem[2] = y[2] /\ pem[3] = y[3]
    BY <2>1, <2>3, Zenon
  <2> QED BY <1>1, <2>2, <2>4, Zenon
<1>10. ASSUME NEW i \in 1..l PROVE pem[3 + i] = W[i]
  <2>1. 3 + i \in 1..Len(y)
    BY <1>3, <1>7
  <2>2. pem[3 + i] = y[3 + i]
    BY <1>5, <1>6, <2>1
  <2>3. y[3 + i] = W[i]
    <3>1. i \in 1..Len(W)
      BY <1>10 DEF l
    <3> QED BY <1>1, <1>4, <3>1
  <2> QED BY <2>2, <2>3, Zenon
<1>11. pem[l + 4] = LineEnd /\ pem[l + 5] = End
  <2>1. 1 \in 1..Len(z) /\ 2 \in 1..Len(z) /\ Len(y) + 1 = l + 4 /\ Len(y) + 2 = l + 5
    BY <1>2, <1>3, <1>7
  <2> QED BY <1>2, <1>5, <1>6, <2>1, Zenon
<1> QED BY <1>8, <1>9, <1>10, <1>11, Zenon DEF PemShape, l

\* So has every PEM of the control plane.
LEMMA PemShaped ==
  ASSUME NEW der \in Seq(Byte), NEW width
  PROVE  PemShape(Pem(der, width), FlattenSeq(Lines(Base64(der), width)))
<1> DEFINE pem == Pem(der, width)
           L == Lines(Base64(der), width)
           W == FlattenSeq(L)
           C == Codes \cup {LineEnd}
<1>1. BodyChars(C)
  BY MarksApart
<1>2. W \in Seq(C)
  <2>1. Base64(der) \in Seq(Codes)
    BY Base64Chars
  <2>2. L \in Seq(Seq(C))
    <3> HIDE DEF C
    <3> QED BY <1>1, <2>1, LinesText, Zenon
  <2>3. PICK at : Flat(C, W, L, at)
    <3> HIDE DEF L, C
    <3> QED BY <2>2, FlattenPlaces, Zenon
  <2> QED BY <2>3, Zenon DEF Flat
<1>3. pem = <<Begin, Dash, LineEnd>> \o W \o <<LineEnd, End, Dash, LineEnd>>
  BY Zenon DEF Pem, Lines, Begin, End, Dash, LineEnd
<1> HIDE DEF pem, W
<1>4. PemShape(pem, W)
  BY <1>2, <1>3, PemWritten, Zenon DEF C
<1> QED BY <1>4, Zenon DEF pem, W

\* The key in a DER, if it is an Ed25519 key.
KeyOf(der) == IF IsSpki(der) THEN SubSeq(der, 13, 12 + KeySize) ELSE Failed

\* claim_ed25519_pub_from_pem yields the key of any PEM that holds one, and fails for
\* any other, whatever the bytes and wherever the lines are broken.
THEOREM PemReadsKey ==
  ASSUME NEW der \in Seq(Byte), NEW width
  PROVE  claim_ed25519_pub_from_pem(Pem(der, width)) = KeyOf(der)
<1> DEFINE pem == Pem(der, width)
           L == Lines(Base64(der), width)
           W == FlattenSeq(L)
           l == Len(W)
           C == Codes \cup {LineEnd}
<1>1. BodyChars(C) /\ End \notin C /\ LineEnd # Begin /\ LineEnd # Dash /\ BodyChars(PemChars)
  BY MarksApart
<1> HIDE DEF pem, W
<1>4. PemShape(pem, W)
  BY PemShaped, Zenon DEF pem, W, L
<1>2. W \in Seq(C)
  BY <1>4, Zenon DEF PemShape, C
<1>5. /\ pem \in Seq(PemChars) /\ Len(pem) = l + 7 /\ l \in Nat
      /\ pem[1] = Begin /\ pem[2] = Dash /\ pem[3] = LineEnd
      /\ \A i \in 1..l : pem[3 + i] = W[i]
      /\ pem[l + 4] = LineEnd /\ pem[l + 5] = End
  BY <1>4 DEF PemShape
<1>6. \A i \in 1..l : W[i] \in C
  BY <1>2
<1> HIDE DEF C, l
<1> DEFINE N == Len(pem)
<1>7. N \in Nat /\ N = l + 7
  BY <1>5
<1>8. First(pem, 1, Begin) = 1
  <2> DEFINE o == 1
  <2>1. o \in Nat /\ o \in o..Len(pem) /\ pem[o] = Begin /\ \A m \in o..(o - 1) : pem[m] # Begin
    BY <1>5
  <2> HIDE DEF o
  <2>2. First(pem, o, Begin) = o
    BY <1>7, <2>1, FirstAt
  <2> QED BY <2>2 DEF o
<1>9. First(pem, 1, LineEnd) = 3
  <2> DEFINE o == 1
             k == 3
  <2>1. o \in Nat /\ k \in o..Len(pem) /\ pem[k] = LineEnd /\ \A m \in o..(k - 1) : pem[m] # LineEnd
    <3>1. \A m \in 1..2 : m = 1 \/ m = 2
      OBVIOUS
    <3> QED BY <1>1, <1>5, <3>1
  <2> HIDE DEF o, k
  <2>2. First(pem, o, LineEnd) = k
    BY <1>7, <2>1, FirstAt
  <2> QED BY <2>2 DEF o, k
<1>10. First(pem, 4, End) = l + 5
  <2> DEFINE o == 4
             k == l + 5
  <2>1. ASSUME NEW m \in o..(k - 1) PROVE pem[m] # End
    <3>1. CASE m = l + 4
      <4>1. LineEnd # End
        BY DEF LineEnd, End
      <4> QED BY <1>5, <3>1, <4>1
    <3>2. CASE m # l + 4
      <4>1. m - 3 \in 1..l /\ 3 + (m - 3) = m
        BY <1>5, <3>2
      <4>2. pem[m] = W[m - 3] /\ W[m - 3] \in C
        BY <1>5, <1>6, <4>1
      <4> QED BY <1>1, <4>2
    <3> QED BY <3>1, <3>2
  <2>2. o \in Nat /\ k \in o..Len(pem) /\ pem[k] = End
    BY <1>5
  <2> HIDE DEF o, k
  <2>3. First(pem, o, End) = k
    BY <1>7, <2>1, <2>2, FirstAt
  <2> QED BY <2>3 DEF o, k
<1> DEFINE T == SubSeq(pem, 4, (l + 5) - 1)
           d == b64decode(T)
<1>11. PemBody(PemChars, T, W)
  <2>1. T \in Seq(PemChars) /\ Len(T) = l + 1 /\ \A i \in 1..(l + 1) : T[i] = pem[3 + i]
    BY <1>5
  <2>2. W \in Seq(PemChars)
    <3>1. C \subseteq PemChars
      BY DEF C, PemChars
    <3> QED BY <1>2, <3>1
  <2> HIDE DEF T
  <2>3. \A i \in 1..l : T[i] = W[i]
    <3>1. \A i \in 1..l : i \in 1..(l + 1)
      BY <1>5
    <3> QED BY <1>5, <2>1, <3>1
  <2>4. T[l + 1] = LineEnd
    <3>1. l + 1 \in 1..(l + 1) /\ 3 + (l + 1) = l + 4
      BY <1>5
    <3> QED BY <1>5, <2>1, <3>1, Zenon
  <2> QED BY <2>1, <2>2, <2>3, <2>4, Zenon DEF PemBody, LineEnd, l
<1>12. d = Decoded(der)
  <2> HIDE DEF T
  <2> QED BY <1>1, <1>11, BodyDecoded, Zenon DEF W, L
<1>13. claim_ed25519_pub_from_pem(pem) =
         IF 4 > N \/ l + 5 > N THEN Failed
         ELSE IF d = Failed \/ ~IsSpki(d) THEN Failed
         ELSE SubSeq(d, 13, 12 + KeySize)
  <2>1. 3 + 1 = 4
    OBVIOUS
  <2> QED BY <1>8, <1>9, <1>10, <2>1, PemPlaces, Zenon
<1>14. ~(4 > N) /\ ~(l + 5 > N)
  BY <1>5, <1>7
<1> HIDE DEF d
<1>15. claim_ed25519_pub_from_pem(pem) =
         IF d = Failed \/ ~IsSpki(d) THEN Failed ELSE SubSeq(d, 13, 12 + KeySize)
  BY <1>13, <1>14, Zenon
<1>16. IsSpki(der) => Len(der) = 44
  BY DEF IsSpki, KeySize
<1>17. Len(Failed) = 1 /\ Len(der) \in Nat
  BY DEF Failed
<1>18. CASE IsSpki(der)
  <2>1. d = der /\ d # Failed
    <3>0. Len(der) = 44 /\ Len(Failed) = 1
      BY <1>16, <1>17, <1>18, Zenon
    <3>1. Len(der) <= 48 /\ Len(der) # Len(Failed)
      BY <3>0, SMT
    <3>2. der # Failed
      BY <3>1, Zenon
    <3> QED BY <1>12, <3>1, <3>2, Zenon DEF Decoded
  <2> QED BY <1>15, <1>18, <2>1, Zenon DEF KeyOf, pem
<1>19. CASE ~IsSpki(der)
  <2>1. d = Failed \/ ~IsSpki(d)
    BY <1>12, <1>19 DEF Decoded
  <2> QED BY <1>15, <1>19, <2>1, Zenon DEF KeyOf, pem
<1> QED BY <1>18, <1>19

-----------------------------------------------------------------------------
(* The control plane's answer with the manifest key.                       *)

\* A member of text is text.
LEMMA MemberText ==
  ASSUME NEW C, Charset(C), NEW f \in Seq(C), NEW text \in Seq(C), NEW gap \in Seq(C)
  PROVE  Member(f, text, gap) \in Seq(C)
<1> DEFINE q == <<Quote>>
           c == <<":">>
           x1 == q \o f
           x2 == x1 \o q
           x3 == x2 \o gap
           x4 == x3 \o c
           x5 == x4 \o gap
           x6 == x5 \o text
<1>1. q \in Seq(C) /\ c \in Seq(C)
  <2>1. Quote \in C /\ ":" \in C
    BY DEF Charset, Syntax
  <2> QED BY <2>1
<1>2. Member(f, text, gap) = x6
  BY Zenon DEF Member
<1> HIDE DEF q, c
<1>3. x1 \in Seq(C)
  BY <1>1, AppendedLength
<1>4. x2 \in Seq(C)
  <2> HIDE DEF x1
  <2> QED BY <1>1, <1>3, AppendedLength
<1>5. x3 \in Seq(C)
  <2> HIDE DEF x2
  <2> QED BY <1>4, AppendedLength
<1>6. x4 \in Seq(C)
  <2> HIDE DEF x3
  <2> QED BY <1>1, <1>5, AppendedLength
<1>7. x5 \in Seq(C)
  <2> HIDE DEF x4
  <2> QED BY <1>6, AppendedLength
<1>8. x6 \in Seq(C)
  <2> HIDE DEF x5
  <2> QED BY <1>7, AppendedLength
<1> QED BY <1>2, <1>8, Zenon

\* The keys of the control plane's answer.
KeyIdKey == <<"k">>
PemKey == <<"k", "p">>
AlgKey == <<"a">>

\* Any characters its answer may hold.
AnswerChars(C) == /\ Charset(C) /\ Blanks \subseteq C /\ PemChars \subseteq C
                  /\ {"k", "p", "a"} \subseteq C

\* They are names, and three different ones.
LEMMA AnswerKeys ==
  ASSUME NEW C, AnswerChars(C)
  PROVE  /\ KeyName(C, KeyIdKey) /\ KeyName(C, PemKey) /\ KeyName(C, AlgKey)
         /\ KeyIdKey # PemKey /\ KeyIdKey # AlgKey /\ PemKey # AlgKey
<1>1. "k" \in C /\ "p" \in C /\ "a" \in C
  BY DEF AnswerChars
<1>2. KeyIdKey \in Seq(C) /\ Len(KeyIdKey) = 1 /\ KeyIdKey[1] = "k"
  BY <1>1 DEF KeyIdKey
<1>3. PemKey \in Seq(C) /\ Len(PemKey) = 2 /\ PemKey[1] = "k" /\ PemKey[2] = "p"
  BY <1>1 DEF PemKey
<1>4. AlgKey \in Seq(C) /\ Len(AlgKey) = 1 /\ AlgKey[1] = "a"
  BY <1>1 DEF AlgKey
<1>5. {"k", "p", "a"} \cap {Quote, Backslash, ":", ",", "}", " ", "\t"} = {}
  BY DEF Quote, Backslash
<1>6. KeyName(C, KeyIdKey)
  <2>1. \A k \in 1..1 : k = 1
    OBVIOUS
  <2>2. \A k \in 1..Len(KeyIdKey) : KeyIdKey[k] \in {"k", "p", "a"}
    BY <1>2, <2>1
  <2>3. \A k \in 1..Len(KeyIdKey) : KeyIdKey[k] \notin {Quote, Backslash, ":", ",", "}", " ", "\t"}
    BY <1>5, <2>2
  <2>4. Len(KeyIdKey) >= 1
    BY <1>2
  <2> QED BY <1>2, <2>3, <2>4, Zenon DEF KeyName
<1>7. KeyName(C, PemKey)
  <2>1. \A k \in 1..2 : k = 1 \/ k = 2
    OBVIOUS
  <2>2. \A k \in 1..Len(PemKey) : PemKey[k] \in {"k", "p", "a"}
    BY <1>3, <2>1
  <2>3. \A k \in 1..Len(PemKey) : PemKey[k] \notin {Quote, Backslash, ":", ",", "}", " ", "\t"}
    BY <1>5, <2>2
  <2>4. Len(PemKey) >= 1
    BY <1>3
  <2> QED BY <1>3, <2>3, <2>4, Zenon DEF KeyName
<1>8. KeyName(C, AlgKey)
  <2>1. \A k \in 1..1 : k = 1
    OBVIOUS
  <2>2. \A k \in 1..Len(AlgKey) : AlgKey[k] \in {"k", "p", "a"}
    BY <1>4, <2>1
  <2>3. \A k \in 1..Len(AlgKey) : AlgKey[k] \notin {Quote, Backslash, ":", ",", "}", " ", "\t"}
    BY <1>5, <2>2
  <2>4. Len(AlgKey) >= 1
    BY <1>4
  <2> QED BY <1>4, <2>3, <2>4, Zenon DEF KeyName
<1>9. KeyIdKey # PemKey /\ KeyIdKey # AlgKey /\ PemKey # AlgKey
  <2>1. Len(KeyIdKey) # Len(PemKey) /\ Len(PemKey) # Len(AlgKey)
    BY <1>2, <1>3, <1>4
  <2>2. KeyIdKey[1] # AlgKey[1]
    BY <1>2, <1>4
  <2> QED BY <2>1, <2>2, Zenon
<1> QED BY <1>6, <1>7, <1>8, <1>9

\* An answer: any DER, any texts of these characters, the members in either order.
KeyAnswer(C, c) == /\ c.der \in Seq(Byte) /\ c.id \in Seq(C) /\ c.other \in Seq(C)
                   /\ c.gap \in Seq(Blanks) /\ c.slashes \in BOOLEAN

\* A PEM is never empty.
LEMMA PemText ==
  ASSUME NEW der \in Seq(Byte), NEW width
  PROVE  Pem(der, width) \in Seq(PemChars) /\ Len(Pem(der, width)) \in Nat /\ Len(Pem(der, width)) >= 7
<1> DEFINE pem == Pem(der, width)
           W == FlattenSeq(Lines(Base64(der), width))
<1>4. PemShape(pem, W)
  BY PemShaped
<1> HIDE DEF pem, W
<1>5. pem \in Seq(PemChars) /\ Len(pem) = Len(W) + 7 /\ Len(W) \in Nat
  BY <1>4 DEF PemShape
<1>6. Len(pem) \in Nat /\ Len(pem) >= 7
  BY <1>5
<1> QED BY <1>5, <1>6 DEF pem

\* json_extract_string finds key_id and public_key_pem in any answer.
LEMMA AnswerReads ==
  ASSUME NEW C, AnswerChars(C), NEW c, KeyAnswer(C, c), NEW cap
  PROVE  /\ json_extract_string(Response(c), <<"k">>, cap) = Fitting(c.id, cap)
         /\ json_extract_string(Response(c), <<"k", "p">>, cap) = Fitting(Pem(c.der, c.width), cap)
<1> DEFINE P == Pem(c.der, c.width)
           m1 == Member(KeyIdKey, JsonString(c.id, FALSE), c.gap)
           m2 == Member(PemKey, JsonString(P, c.slashes), c.gap)
           m3 == Member(AlgKey, JsonString(c.other, FALSE), c.gap)
           a == c.id
           b == c.other
           g == c.gap
           J == Response(c)
<1>1. a \in Seq(C) /\ b \in Seq(C) /\ g \in Seq(Blanks) /\ c.slashes \in BOOLEAN /\ c.der \in Seq(Byte)
  BY DEF KeyAnswer
<1>2. Charset(C) /\ Blanks \subseteq C /\ PemChars \subseteq C
  BY DEF AnswerChars
<1>3. P \in Seq(C)
  <2>1. P \in Seq(PemChars)
    BY <1>1, PemText
  <2> HIDE DEF P
  <2> QED BY <1>2, <2>1
<1>4. g \in Seq(C)
  <2> HIDE DEF g
  <2> QED BY <1>1, <1>2
<1>5. /\ KeyName(C, KeyIdKey) /\ KeyName(C, PemKey) /\ KeyName(C, AlgKey)
      /\ KeyIdKey # PemKey /\ KeyIdKey # AlgKey /\ PemKey # AlgKey
  BY AnswerKeys
<1> HIDE DEF P, a, b, g
<1>6. ASSUME NEW f, KeyName(C, f), NEW s \in Seq(C), NEW sl \in BOOLEAN
      PROVE  IsMember(C, Member(f, JsonString(s, sl), g), f, s)
             /\ Member(f, JsonString(s, sl), g) \in Seq(C)
  <2>1. PICK at : Quoted(C, JsonString(s, sl), s, at)
    BY <1>2, JsonStringQuoted
  <2>2. JsonString(s, sl) \in Seq(C) /\ f \in Seq(C)
    BY <1>6, <2>1 DEF Quoted, KeyName
  <2>3. Member(f, JsonString(s, sl), g) \in Seq(C)
    BY <1>2, <1>4, <2>2, MemberText, Zenon
  <2>4. IsMember(C, Member(f, JsonString(s, sl), g), f, s)
    BY <1>1, <1>6, Zenon DEF IsMember
  <2> QED BY <2>3, <2>4
<1>7. /\ IsMember(C, m1, KeyIdKey, a) /\ m1 \in Seq(C)
      /\ IsMember(C, m2, PemKey, P) /\ m2 \in Seq(C)
      /\ IsMember(C, m3, AlgKey, b) /\ m3 \in Seq(C)
  <2>1. FALSE \in BOOLEAN
    OBVIOUS
  <2> QED BY <1>1, <1>3, <1>5, <1>6, <2>1, Zenon DEF a, b, g
<1> HIDE DEF m1, m2, m3
<1>8. CASE c.first = "id"
  <2>1. J = <<Open>> \o m1 \o <<Comma>> \o m2 \o <<Comma>> \o m3 \o <<Close>>
    BY <1>8, Zenon DEF Response, m1, m2, m3, P, Open, Comma, Close, KeyIdKey, PemKey, AlgKey
  <2> HIDE DEF J
  <2>2. Object(C, J, m1, m2, m3)
    BY <1>2, <1>7, <2>1, ObjectWritten, Zenon
  <2>3. ThreeKeys(C, m1, KeyIdKey, a, m2, PemKey, P, m3, AlgKey, b)
    BY <1>5, <1>7, Zenon DEF ThreeKeys
  <2>4. json_extract_string(J, KeyIdKey, cap) = Fitting(a, cap)
        /\ json_extract_string(J, PemKey, cap) = Fitting(P, cap)
    BY <1>2, <2>2, <2>3, ObjectReads
  <2> QED BY <2>4, Zenon DEF J, a, P, KeyIdKey, PemKey
<1>9. CASE c.first # "id"
  <2>1. J = <<Open>> \o m3 \o <<Comma>> \o m2 \o <<Comma>> \o m1 \o <<Close>>
    BY <1>9, Zenon DEF Response, m1, m2, m3, P, Open, Comma, Close, KeyIdKey, PemKey, AlgKey
  <2> HIDE DEF J
  <2>2. Object(C, J, m3, m2, m1)
    BY <1>2, <1>7, <2>1, ObjectWritten, Zenon
  <2>3. ThreeKeys(C, m3, AlgKey, b, m2, PemKey, P, m1, KeyIdKey, a)
    BY <1>5, <1>7, Zenon DEF ThreeKeys
  <2>4. json_extract_string(J, KeyIdKey, cap) = Fitting(a, cap)
        /\ json_extract_string(J, PemKey, cap) = Fitting(P, cap)
    BY <1>2, <2>2, <2>3, ObjectReads
  <2> QED BY <2>4, Zenon DEF J, a, P, KeyIdKey, PemKey
<1> QED BY <1>8, <1>9

\* An answer from which the device pins a key.
GoodAnswer(c) == /\ c.id # <<>> /\ Len(c.id) < KeyIdCap
                 /\ Len(Pem(c.der, c.width)) < PemCap
                 /\ Len(c.der) = 44
                 /\ \A i \in 1..12 : c.der[i] = ED25519_SPKI_PREFIX[i]

\* The places of a part of a text.
LEMMA PartPlaces ==
  ASSUME NEW C, NEW s \in Seq(C), NEW o \in Nat, NEW n \in Nat, o + n <= Len(s)
  PROVE  /\ SubSeq(s, o + 1, o + n) \in Seq(C) /\ Len(SubSeq(s, o + 1, o + n)) = n
         /\ \A i \in 1..n : SubSeq(s, o + 1, o + n)[i] = s[i + o]
OBVIOUS

\* The DER of an Ed25519 key.
LEMMA SpkiForm ==
  ASSUME NEW der \in Seq(Byte)
  PROVE  /\ IsSpki(der) <=> /\ Len(der) = 44
                            /\ \A i \in 1..12 : der[i] = ED25519_SPKI_PREFIX[i]
         /\ IsSpki(der) => /\ SubSeq(der, 13, 12 + KeySize) = [i \in 1..32 |-> der[i + 12]]
                           /\ SubSeq(der, 13, 12 + KeySize) # Failed
<1> DEFINE p == ED25519_SPKI_PREFIX
           x == SubSeq(der, 1, 12)
           y == SubSeq(der, 13, 44)
<1>1. 12 + KeySize = 44
  BY DEF KeySize
<1>2. p \in Seq(Nat) /\ Len(p) = 12
  BY DEF ED25519_SPKI_PREFIX
<1>3. IsSpki(der) <=> Len(der) = 44 /\ x = p
  BY <1>1, Zenon DEF IsSpki
<1> HIDE DEF p
<1>4. ASSUME Len(der) = 44
      PROVE  /\ x = p <=> \A i \in 1..12 : der[i] = p[i]
             /\ y = [i \in 1..32 |-> der[i + 12]] /\ Len(y) = 32
  <2>1. x \in Seq(Byte) /\ Len(x) = 12 /\ \A i \in 1..12 : x[i] = der[i]
    <3> DEFINE o == 0
               n == 12
    <3>0. o + 1 = 1 /\ o + n = 12 /\ n = 12 /\ o = 0
      OBVIOUS
    <3>1. o \in Nat /\ n \in Nat /\ o + n <= Len(der)
      BY <1>4
    <3> HIDE DEF o, n
    <3>2. /\ SubSeq(der, o + 1, o + n) \in Seq(Byte) /\ Len(SubSeq(der, o + 1, o + n)) = n
          /\ \A i \in 1..n : SubSeq(der, o + 1, o + n)[i] = der[i + o]
      BY <3>1, PartPlaces
    <3>3. \A i \in 1..12 : i + 0 = i
      OBVIOUS
    <3> QED BY <3>0, <3>2, <3>3, Zenon
  <2>2. y \in Seq(Byte) /\ Len(y) = 32 /\ \A i \in 1..32 : y[i] = der[i + 12]
    <3> DEFINE o == 12
               n == 32
    <3>0. o + 1 = 13 /\ o + n = 44 /\ n = 32 /\ o = 12
      OBVIOUS
    <3>1. o \in Nat /\ n \in Nat /\ o + n <= Len(der)
      BY <1>4
    <3> HIDE DEF o, n
    <3>2. /\ SubSeq(der, o + 1, o + n) \in Seq(Byte) /\ Len(SubSeq(der, o + 1, o + n)) = n
          /\ \A i \in 1..n : SubSeq(der, o + 1, o + n)[i] = der[i + o]
      BY <3>1, PartPlaces
    <3>3. \A i \in 1..32 : i + 12 = i + 12
      OBVIOUS
    <3> QED BY <3>0, <3>2, <3>3, Zenon
  <2>3. y = [i \in 1..32 |-> y[i]] /\ x = [i \in 1..12 |-> x[i]] /\ p = [i \in 1..12 |-> p[i]]
    <3> HIDE DEF x, y
    <3> QED BY <1>2, <2>1, <2>2
  <2> HIDE DEF x, y
  <2>4. x = p <=> \A i \in 1..12 : der[i] = p[i]
    BY <2>1, <2>3
  <2>5. y = [i \in 1..32 |-> der[i + 12]]
    BY <2>2, <2>3
  <2> QED BY <2>2, <2>4, <2>5
<1>5. IsSpki(der) <=> Len(der) = 44 /\ \A i \in 1..12 : der[i] = p[i]
  <2> HIDE DEF x, y
  <2> QED BY <1>3, <1>4, Zenon
<1>6. ASSUME IsSpki(der) PROVE y = [i \in 1..32 |-> der[i + 12]] /\ y # Failed
  <2> HIDE DEF x, y
  <2>1. y = [i \in 1..32 |-> der[i + 12]] /\ Len(y) = 32
    BY <1>3, <1>4, <1>6, Zenon
  <2>2. Len(Failed) = 1
    BY DEF Failed
  <2>3. Len(y) # Len(Failed)
    BY <2>1, <2>2
  <2>4. y # Failed
    BY <2>3, Zenon
  <2> QED BY <2>1, <2>4
<1> QED BY <1>1, <1>5, <1>6, Zenon DEF p

\* The key and its id reach the device from every answer that carries an Ed25519 key,
\* and from no other: for every DER, every key id and every other value, however the
\* control plane escapes, orders and spaces the members and breaks the PEM's lines.
THEOREM AnyAnswerReads ==
  ASSUME NEW C, AnswerChars(C), NEW c, KeyAnswer(C, c)
  PROVE  Fetched(c) = IF GoodAnswer(c) THEN <<c.id, [i \in 1..32 |-> c.der[i + 12]]>> ELSE Failed
<1> DEFINE P == Pem(c.der, c.width)
           a == c.id
           d == c.der
           rid == json_extract_string(Response(c), <<"k">>, KeyIdCap)
           rpem == json_extract_string(Response(c), <<"k", "p">>, PemCap)
           K == [i \in 1..32 |-> d[i + 12]]
<1>1. a \in Seq(C) /\ d \in Seq(Byte) /\ Charset(C) /\ PemChars \subseteq C
  BY DEF KeyAnswer, AnswerChars
<1>2. P \in Seq(C) /\ Len(P) \in Nat /\ Len(P) >= 7
  <2>1. P \in Seq(PemChars) /\ Len(P) \in Nat /\ Len(P) >= 7
    BY <1>1, PemText
  <2> HIDE DEF P
  <2> QED BY <1>1, <2>1
<1>3. rid = Fitting(a, KeyIdCap) /\ rpem = Fitting(P, PemCap)
  BY AnswerReads
<1>4. claim_ed25519_pub_from_pem(P) = KeyOf(d)
  BY <1>1, PemReadsKey
<1>5. Fetched(c) = IF rid \in {Failed, <<>>} \/ rpem \in {Failed, <<>>} THEN Failed
                   ELSE IF claim_ed25519_pub_from_pem(rpem) = Failed THEN Failed
                   ELSE <<rid, claim_ed25519_pub_from_pem(rpem)>>
  BY Zenon DEF Fetched
<1>6. /\ IsSpki(d) <=> Len(d) = 44 /\ \A i \in 1..12 : d[i] = ED25519_SPKI_PREFIX[i]
      /\ IsSpki(d) => SubSeq(d, 13, 12 + KeySize) = K /\ SubSeq(d, 13, 12 + KeySize) # Failed
  BY <1>1, SpkiForm, Zenon
<1>7. GoodAnswer(c) <=> a # <<>> /\ Len(a) < KeyIdCap /\ Len(P) < PemCap /\ IsSpki(d)
  BY <1>6, Zenon DEF GoodAnswer
<1>8. a # Failed /\ P # Failed /\ P # <<>>
  <2>1. a # Failed /\ P # Failed
    <3> HIDE DEF a, P
    <3> QED BY <1>1, <1>2, TextNotFailed, Zenon
  <2>2. P # <<>>
    <3> HIDE DEF P
    <3> QED BY <1>2
  <2> QED BY <2>1, <2>2
<1> HIDE DEF a, P, d, rid, rpem, K
<1>9. Len(a) \in Nat /\ KeyIdCap \in Nat /\ PemCap \in Nat
  BY <1>1, CapsAssumption
<1>10. CASE a # <<>> /\ Len(a) < KeyIdCap /\ Len(P) < PemCap
  <2>1. ~(Len(a) + 1 > KeyIdCap) /\ ~(Len(P) + 1 > PemCap)
    BY <1>2, <1>9, <1>10
  <2>2. rid = a /\ rpem = P
    BY <1>3, <2>1, Zenon DEF Fitting
  <2>3. Fetched(c) = IF KeyOf(d) = Failed THEN Failed ELSE <<a, KeyOf(d)>>
    BY <1>4, <1>5, <1>8, <1>10, <2>2, Zenon
  <2>4. CASE IsSpki(d)
    <3>1. KeyOf(d) = K /\ K # Failed
      BY <1>6, <2>4, Zenon DEF KeyOf
    <3>2. GoodAnswer(c) /\ Fetched(c) = <<a, K>>
      BY <1>7, <1>10, <2>3, <2>4, <3>1, Zenon
    <3> QED BY <3>2, Zenon DEF a, d, K
  <2>5. CASE ~IsSpki(d)
    <3>1. KeyOf(d) = Failed
      BY <2>5, Zenon DEF KeyOf
    <3>2. ~GoodAnswer(c) /\ Fetched(c) = Failed
      BY <1>7, <2>3, <2>5, <3>1, Zenon
    <3> QED BY <3>2, Zenon
  <2> QED BY <2>4, <2>5
<1>11. CASE ~(a # <<>> /\ Len(a) < KeyIdCap /\ Len(P) < PemCap)
  <2>1. rid \in {Failed, <<>>} \/ rpem \in {Failed, <<>>}
    <3>1. CASE a = <<>>
      <4>1. rid = Failed \/ rid = <<>>
        BY <1>3, <3>1, Zenon DEF Fitting
      <4> QED BY <4>1
    <3>2. CASE ~(Len(a) < KeyIdCap)
      <4>1. Len(a) + 1 > KeyIdCap
        BY <1>9, <3>2
      <4>2. rid = Failed
        BY <1>3, <4>1, Zenon DEF Fitting
      <4> QED BY <4>2
    <3>3. CASE ~(Len(P) < PemCap)
      <4>1. Len(P) + 1 > PemCap
        BY <1>2, <1>9, <3>3
      <4>2. rpem = Failed
        BY <1>3, <4>1, Zenon DEF Fitting
      <4> QED BY <4>2
    <3> QED BY <1>11, <3>1, <3>2, <3>3, Zenon
  <2>2. Fetched(c) = Failed /\ ~GoodAnswer(c)
    BY <1>5, <1>7, <1>11, <2>1, Zenon
  <2> QED BY <2>2, Zenon
<1> QED BY <1>10, <1>11

\* The characters of the answers of the model.
AnswerText == Syntax \cup Blanks \cup PemChars \cup {"k", "p", "a", "x"}

\* They are characters of an answer.
LEMMA AnswerTextChars == AnswerChars(AnswerText)
<1>1. \A k \in 1..64 : Alphabet[k] # "NUL" /\ Alphabet[k] # "-1"
  BY DEF Alphabet
<1>2. "NUL" \notin Codes /\ "-1" \notin Codes
  BY <1>1 DEF Codes
<1>3. NUL \notin AnswerText /\ "-1" \notin AnswerText
  BY <1>2 DEF AnswerText, PemChars, Syntax, Blanks, NUL, LineEnd, Dash, Begin, End, Quote, Backslash
<1>4. Syntax \subseteq AnswerText /\ Blanks \subseteq AnswerText /\ PemChars \subseteq AnswerText
      /\ {"k", "p", "a"} \subseteq AnswerText
  BY Zenon DEF AnswerText
<1> QED BY <1>3, <1>4 DEF AnswerChars, Charset

\* The DERs of the model are bytes.
LEMMA DerBytes ==
  ASSUME NEW n \in Nat, NEW w, NEW f \in Byte
  PROVE  Der(n, w, f) \in Seq(Byte)
<1>1. \A i \in 1..12 : ED25519_SPKI_PREFIX[i] \in Byte
  BY DEF ED25519_SPKI_PREFIX, Byte
<1>2. ASSUME NEW i \in 1..n
      PROVE  (IF i > 12 THEN (IF f = 1 THEN (41 * i) % 256 ELSE f)
              ELSE IF i = w THEN 255 - ED25519_SPKI_PREFIX[i] ELSE ED25519_SPKI_PREFIX[i]) \in Byte
  <2>1. CASE i > 12
    <3>1. (41 * i) % 256 \in Byte
      BY DEF Byte
    <3> QED BY <2>1, <3>1
  <2>2. CASE ~(i > 12)
    <3>1. i \in 1..12
      BY <2>2
    <3>2. ED25519_SPKI_PREFIX[i] \in Byte
      BY <1>1, <3>1
    <3>3. 255 - ED25519_SPKI_PREFIX[i] \in Byte
      BY <3>2 DEF Byte
    <3> QED BY <2>2, <3>2, <3>3
  <2> QED BY <2>1, <2>2
<1> QED BY <1>2 DEF Der

\* Short texts.
LEMMA OneOrTwo ==
  ASSUME NEW B, NEW x \in B, NEW y \in B
  PROVE  <<>> \in Seq(B) /\ <<x>> \in Seq(B) /\ <<y, x>> \in Seq(B)
OBVIOUS

\* The answers of the model are answers.
LEMMA AnswerInputs ==
  ASSUME NEW c \in Keys
  PROVE  KeyAnswer(AnswerText, c)
<1>0. /\ Quote \in AnswerText /\ Backslash \in AnswerText /\ ":" \in AnswerText
      /\ "k" \in AnswerText /\ "p" \in AnswerText /\ "x" \in AnswerText
  BY DEF AnswerText, Syntax
<1>1. CASE c \in AnyDer
  <2>1. PICK n \in {12, 43, 44, 45, 48, 49, 50}, w \in {0, 1, 12}, f \in {0, 1, 255},
             l \in {20, 64}, b \in BOOLEAN :
          c = [op |-> "key", der |-> Der(n, w, f), width |-> l, slashes |-> b, id |-> <<"x">>,
               first |-> "id", other |-> <<"k">>, gap |-> <<>>]
    BY <1>1 DEF AnyDer
  <2>2. c.der = Der(n, w, f) /\ c.id = <<"x">> /\ c.other = <<"k">> /\ c.gap = <<>> /\ c.slashes = b
    BY <2>1, Zenon
  <2>3. Der(n, w, f) \in Seq(Byte)
    <3>1. n \in Nat /\ f \in Byte
      BY DEF Byte
    <3> QED BY <3>1, DerBytes
  <2>4. <<"x">> \in Seq(AnswerText) /\ <<"k">> \in Seq(AnswerText) /\ <<>> \in Seq(Blanks)
    BY <1>0
  <2> QED BY <2>2, <2>3, <2>4, Zenon DEF KeyAnswer
<1>2. CASE c \in AnyMembers
  <2>1. PICK i \in KeyIds, f \in {"id", "other"}, g \in Gaps, o \in Others :
          c = [op |-> "key", der |-> Der(44, 0, 1), width |-> 64, slashes |-> TRUE, id |-> i,
               first |-> f, other |-> o, gap |-> g]
    BY <1>2 DEF AnyMembers
  <2>2. c.der = Der(44, 0, 1) /\ c.id = i /\ c.other = o /\ c.gap = g /\ c.slashes = TRUE
    BY <2>1, Zenon
  <2>3. Der(44, 0, 1) \in Seq(Byte)
    <3>1. 44 \in Nat /\ 1 \in Byte
      BY DEF Byte
    <3> QED BY <3>1, DerBytes
  <2>4. i \in Seq(AnswerText)
    <3>1. CASE i \in UpTo(2, {Quote, Backslash, "k"})
      <4>1. i \in Seq({Quote, Backslash, "k"})
        BY <3>1, UpToText
      <4>2. {Quote, Backslash, "k"} \subseteq AnswerText
        BY <1>0
      <4> QED BY <4>1, <4>2, WiderText
    <3>2. CASE i = [j \in 1..KeyIdCap |-> "x"]
      BY <1>0, <3>2, CapsAssumption
    <3> QED BY <3>1, <3>2 DEF KeyIds
  <2>5. g \in Seq(Blanks)
    <3>1. " " \in Blanks /\ "\t" \in Blanks
      BY DEF Blanks
    <3>2. <<>> \in Seq(Blanks) /\ <<" ">> \in Seq(Blanks) /\ <<"\t", " ">> \in Seq(Blanks)
      BY <3>1, OneOrTwo, Zenon
    <3> QED BY <3>2, Zenon DEF Gaps
  <2>6. o \in Seq(AnswerText)
    <3>1. /\ <<"k">> \in Seq(AnswerText) /\ <<"k", "p">> \in Seq(AnswerText)
          /\ <<Quote, "k", Quote, ":", Quote>> \in Seq(AnswerText) /\ <<Backslash>> \in Seq(AnswerText)
      BY <1>0
    <3> QED BY <3>1, Zenon DEF Others
  <2> QED BY <2>2, <2>3, <2>4, <2>5, <2>6, Zenon DEF KeyAnswer
<1> QED BY <1>1, <1>2 DEF Keys

\* KeyDelivered holds for every size of the two buffers.
THEOREM KeyDeliveredHolds == Spec => []KeyDelivered
<1>1. CallInv => KeyDelivered
  <2> SUFFICES ASSUME CallInv, call.op = "key" PROVE KeyDelivered
    BY DEF KeyDelivered
  <2>1. call \in Keys /\ result = Fetched(call)
    BY DEF CallInv, KeyCalled
  <2>2. KeyAnswer(AnswerText, call)
    BY <2>1, AnswerInputs
  <2>3. result = IF GoodAnswer(call) THEN <<call.id, [i \in 1..32 |-> call.der[i + 12]]>> ELSE Failed
    BY <2>1, <2>2, AnswerTextChars, AnyAnswerReads, Zenon
  <2> QED BY <2>3, Zenon DEF KeyDelivered, GoodAnswer
<1> QED BY <1>1, CallInvariant, PTL
=============================================================================
