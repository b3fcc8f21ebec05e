--------------------------- MODULE OtaTextProofs ----------------------------
(***************************************************************************)
(* Theorems about the texts of lib/ota/ota.c (OtaText) for every text and  *)
(* every size of a buffer: the heartbeat, whose texts hold nothing to escape*)
(* once they are sanitised, and the Content-Range header, which is read part*)
(* by part from where each of them stands.                                 *)
(***************************************************************************)
EXTENDS ClaimProofs

-----------------------------------------------------------------------------
(* Where texts stand in a text.                                            *)

\* The text w stands in J behind place p.
Stands(J, p, w) == p + Len(w) <= Len(J) /\ \A k \in 1..Len(w) : J[p + k] = w[k]

\* A text stands in itself.
LEMMA StandsWhole ==
  ASSUME NEW C, NEW J \in Seq(C)
  PROVE  Stands(J, 0, J)
BY DEF Stands

\* The parts of a text that stands there stand one behind the other.
LEMMA StandsSplit ==
  ASSUME NEW C, NEW J \in Seq(C), NEW u \in Seq(C), NEW v \in Seq(C), NEW p \in Nat,
         Stands(J, p, u \o v)
  PROVE  Stands(J, p, u) /\ Stands(J, p + Len(u), v)
<1>1. Len(u \o v) = Len(u) + Len(v) /\ Len(u) \in Nat /\ Len(v) \in Nat /\ Len(J) \in Nat
  OBVIOUS
<1>2. p + (Len(u) + Len(v)) <= Len(J) /\ \A k \in 1..(Len(u) + Len(v)) : J[p + k] = (u \o v)[k]
  BY <1>1 DEF Stands
<1>3. Stands(J, p, u)
  <2>1. ASSUME NEW k \in 1..Len(u) PROVE J[p + k] = u[k]
    <3>1. k \in 1..(Len(u) + Len(v)) /\ (u \o v)[k] = u[k]
      BY <1>1
    <3> QED BY <1>2, <3>1
  <2>2. p + Len(u) <= Len(J)
    BY <1>1, <1>2
  <2> QED BY <2>1, <2>2 DEF Stands
<1>4. Stands(J, p + Len(u), v)
  <2>1. ASSUME NEW k \in 1..Len(v) PROVE J[p + Len(u) + k] = v[k]
    <3>1. Len(u) + k \in 1..(Len(u) + Len(v)) /\ (u \o v)[Len(u) + k] = v[k]
          /\ p + (Len(u) + k) = p + Len(u) + k
      BY <1>1
    <3> QED BY <1>2, <3>1
  <2>2. p + Len(u) + Len(v) <= Len(J)
    BY <1>1, <1>2
  <2> QED BY <2>1, <2>2 DEF Stands
<1> QED BY <1>3, <1>4

\* A text in which no character needs an escape, and its stops behind p.
Plain(s) == \A k \in 1..Len(s) : s[k] \notin Special
Even(s, p) == [k \in 0..Len(s) |-> p + k]

\* J holds these characters behind p.
LEMMA StandsField ==
  ASSUME NEW C, Charset(C), NEW J \in Seq(C), NEW s \in Seq(C), NEW f \in C, NEW p \in Nat,
         Stands(J, p, StringField(f, s))
  PROVE  /\ p + Len(s) + 6 <= Len(J)
         /\ J[p + 1] = Quote /\ J[p + 2] = f /\ J[p + 3] = Quote /\ J[p + 4] = ":"
         /\ J[p + 5] = Quote /\ Stands(J, p + 5, s) /\ J[p + 6 + Len(s)] = Quote
<1> DEFINE u == <<Quote, f, Quote, ":", Quote>>
           q == <<Quote>>
<1>1. Quote \in C /\ ":" \in C
  BY DEF Charset, Syntax
<1>2. ASSUME NEW c \in C
      PROVE  LET w == <<Quote, f, Quote, c, Quote>>
             IN  /\ w \in Seq(C) /\ Len(w) = 5
                 /\ w[1] = Quote /\ w[2] = f /\ w[3] = Quote /\ w[4] = c /\ w[5] = Quote
  BY <1>1
<1>3. /\ u \in Seq(C) /\ Len(u) = 5
      /\ u[1] = Quote /\ u[2] = f /\ u[3] = Quote /\ u[4] = ":" /\ u[5] = Quote
  BY <1>1, <1>2, Zenon
<1>4. q \in Seq(C) /\ Len(q) = 1 /\ q[1] = Quote
  BY <1>1
<1>5. Stands(J, p, (u \o s) \o q)
  BY DEF StringField
<1> HIDE DEF u, q
<1>6. Len(u \o s) = 5 + Len(s) /\ u \o s \in Seq(C) /\ Len(s) \in Nat
  <2>1. u \in Seq(C)
    BY <1>3
  <2>2. Len(u \o s) = Len(u) + Len(s) /\ u \o s \in Seq(C) /\ Len(s) \in Nat
    BY <2>1
  <2>3. Len(u) = 5
    BY <1>3
  <2> QED BY <2>2, <2>3
<1>7. Stands(J, p, u \o s) /\ Stands(J, p + (5 + Len(s)), q)
  BY <1>4, <1>5, <1>6, StandsSplit
<1>8. Stands(J, p, u) /\ Stands(J, p + 5, s)
  BY <1>3, <1>7, StandsSplit
<1>9. \A k \in 1..5 : J[p + k] = u[k]
  BY <1>3, <1>8 DEF Stands
<1>10. J[p + 1] = u[1] /\ J[p + 2] = u[2] /\ J[p + 3] = u[3] /\ J[p + 4] = u[4] /\ J[p + 5] = u[5]
  BY <1>9
<1>11. p + (5 + Len(s)) + 1 <= Len(J) /\ J[p + (5 + Len(s)) + 1] = q[1]
  BY <1>4, <1>7 DEF Stands
<1>12. p + (5 + Len(s)) + 1 = p + 6 + Len(s) /\ p + (5 + Len(s)) + 1 = p + Len(s) + 6
  BY <1>6
<1> QED BY <1>3, <1>4, <1>8, <1>10, <1>11, <1>12, Zenon

\* At i a value has ended and the object goes on.
GoesOn(J, i) == i <= Len(J) /\ J[i] \in {",", "}"}

\* A field of the heartbeat with a plain value is a member.
LEMMA FieldIsMember ==
  ASSUME NEW C, Charset(C), NEW J \in Seq(C), NEW s \in Seq(C), Plain(s), NEW f \in C,
         NEW p \in Nat, Stands(J, p, StringField(f, s)),
         GoesOn(J, p + 7 + Len(s))
  PROVE  Member1(J, p + 1, f, s, Even(s, p + 5)) /\ Even(s, p + 5)[Len(s)] = p + 5 + Len(s)
<1> DEFINE n == Len(s)
           at == Even(s, p + 5)
<1>0. n \in Nat
  OBVIOUS
<1>1. /\ at \in [0..n -> Nat] /\ \A k \in 0..n : at[k] = p + 5 + k
  BY <1>0 DEF Even
<1>2. /\ J[p + 1] = Quote /\ J[p + 2] = f /\ J[p + 3] = Quote /\ J[p + 4] = ":"
      /\ J[p + 5] = Quote /\ Stands(J, p + 5, s) /\ J[p + 6 + n] = Quote
  BY StandsField
<1> HIDE DEF at
<1>3. Stops(s, (p + 1) + 4, at)
  <2>1. ASSUME NEW k \in 1..n PROVE at[k] = at[k - 1] + Width1(s[k])
    <3>1. Width1(s[k]) = 1
      BY DEF Plain, Width1
    <3>2. at[k] = p + 5 + k /\ at[k - 1] = p + 5 + (k - 1)
      BY <1>0, <1>1
    <3> QED BY <3>1, <3>2
  <2>2. at[0] = (p + 1) + 4
    <3>1. 0 \in 0..n
      BY <1>0
    <3> QED BY <1>1, <3>1
  <2> QED BY <1>1, <2>1, <2>2 DEF Stops
<1>4. Escaped(J, s, at)
  <2>1. ASSUME NEW k \in 1..n PROVE Piece(J, at[k - 1], s[k])
    <3>1. at[k - 1] + 1 = p + 5 + k
      <4>1. k - 1 \in 0..n
        BY <1>0
      <4>2. at[k - 1] = p + 5 + (k - 1)
        BY <1>1, <4>1, Zenon
      <4>3. (p + 5 + (k - 1)) + 1 = p + 5 + k
        BY <1>0
      <4> QED BY <4>2, <4>3
    <3>2. J[p + 5 + k] = s[k]
      BY <1>2 DEF Stands
    <3>3. s[k] \notin Special
      BY DEF Plain
    <3> QED BY <3>1, <3>2, <3>3 DEF Piece
  <2> QED BY <2>1 DEF Escaped
<1>5. at[n] = p + 5 + n
  BY <1>0, <1>1
<1>6. /\ (p + 1) + 1 = p + 2 /\ (p + 1) + 2 = p + 3 /\ (p + 1) + 3 = p + 4 /\ (p + 1) + 4 = p + 5
      /\ at[n] + 1 = p + 6 + n /\ at[n] + 2 = p + 7 + n /\ p + 1 \in Nat \ {0}
  BY <1>0, <1>5
<1>7. Member1(J, p + 1, f, s, at)
  <2>1. GoesOn(J, at[n] + 2)
    BY <1>6
  <2> QED BY <1>2, <1>3, <1>4, <1>6, <2>1, Zenon DEF Member1, GoesOn
<1> QED BY <1>5, <1>7 DEF at

\* The length of two texts behind each other.
LEMMA JoinText ==
  ASSUME NEW C, NEW u \in Seq(C), NEW v \in Seq(C)
  PROVE  u \o v \in Seq(C) /\ Len(u \o v) = Len(u) + Len(v) /\ Len(u) \in Nat /\ Len(v) \in Nat
OBVIOUS

\* Where the parts of the heartbeat stand: a, b, c, d are single characters, N the
\* counter, R the reverted version and P the start of the probe.
Parts(J, a, Fa, b, Fv, N, R, P, Fd, c, d) ==
  LET q == Len(a) + Len(Fa) + Len(b) + Len(Fv)
      x == q + Len(N) + Len(R)
      y == x + Len(P) + Len(Fd)
  IN /\ Stands(J, 0, a) /\ Stands(J, Len(a), Fa) /\ Stands(J, Len(a) + Len(Fa), b)
     /\ Stands(J, Len(a) + Len(Fa) + Len(b), Fv) /\ Stands(J, q, N) /\ Stands(J, q + Len(N), R)
     /\ Stands(J, x, P) /\ Stands(J, x + Len(P), Fd) /\ Stands(J, y, c)
     /\ Stands(J, y + Len(c), d) /\ Len(J) = y + Len(c) + Len(d)

Concatenated(J, a, Fa, b, Fv, N, R, P, Fd, c, d) ==
  J = a \o (Fa \o b \o Fv \o N) \o R \o (P \o Fd \o c) \o d

\* In a text written from them, the parts of a heartbeat stand in this order.
LEMMA Layout ==
  ASSUME NEW C, NEW a \in Seq(C), NEW Fa \in Seq(C), NEW b \in Seq(C), NEW Fv \in Seq(C),
         NEW N \in Seq(C), NEW R \in Seq(C), NEW P \in Seq(C), NEW Fd \in Seq(C),
         NEW c \in Seq(C), NEW d \in Seq(C), NEW J,
         Concatenated(J, a, Fa, b, Fv, N, R, P, Fd, c, d)
  PROVE  J \in Seq(C) /\ Parts(J, a, Fa, b, Fv, N, R, P, Fd, c, d)
<1> DEFINE v1 == Fa \o b
           v2 == v1 \o Fv
           v3 == v2 \o N
           p1 == P \o Fd
           p2 == p1 \o c
           j1 == a \o v3
           j2 == j1 \o R
           j3 == j2 \o p2
<1>1. v1 \in Seq(C) /\ Len(v1) = Len(Fa) + Len(b) /\ Len(Fa) \in Nat /\ Len(b) \in Nat
  BY JoinText
<1>2. v2 \in Seq(C) /\ Len(v2) = Len(v1) + Len(Fv) /\ Len(Fv) \in Nat
  BY <1>1, JoinText
<1>3. v3 \in Seq(C) /\ Len(v3) = Len(v2) + Len(N) /\ Len(N) \in Nat
  BY <1>2, JoinText
<1>4. p1 \in Seq(C) /\ Len(p1) = Len(P) + Len(Fd) /\ Len(P) \in Nat /\ Len(Fd) \in Nat
  BY JoinText
<1>5. p2 \in Seq(C) /\ Len(p2) = Len(p1) + Len(c) /\ Len(c) \in Nat
  BY <1>4, JoinText
<1>6. j1 \in Seq(C) /\ Len(j1) = Len(a) + Len(v3) /\ Len(a) \in Nat
  BY <1>3, JoinText
<1>7. j2 \in Seq(C) /\ Len(j2) = Len(j1) + Len(R) /\ Len(R) \in Nat
  BY <1>6, JoinText
<1>8. j3 \in Seq(C) /\ Len(j3) = Len(j2) + Len(p2)
  BY <1>5, <1>7, JoinText
<1>9. J = j3 \o d
  BY DEF Concatenated
<1> HIDE DEF j3
<1>10. J \in Seq(C) /\ Len(J) = Len(j3) + Len(d) /\ Len(d) \in Nat
  BY <1>8, <1>9, JoinText
<1>11. Stands(J, 0, j3) /\ Stands(J, Len(j3), d)
  <2>1. Stands(J, 0, j3 \o d)
    BY <1>9, <1>10, StandsWhole
  <2>2. Stands(J, 0, j3) /\ Stands(J, 0 + Len(j3), d)
    BY <1>8, <1>10, <2>1, StandsSplit
  <2>3. 0 + Len(j3) = Len(j3)
    BY <1>8
  <2> QED BY <2>2, <2>3
<1>12. Stands(J, 0, j2) /\ Stands(J, Len(j2), p2)
  <2> HIDE DEF j2, p2
  <2>1. Stands(J, 0, j2 \o p2)
    BY <1>11 DEF j3
  <2>2. Stands(J, 0, j2) /\ Stands(J, 0 + Len(j2), p2)
    BY <1>5, <1>7, <1>10, <2>1, StandsSplit
  <2>3. 0 + Len(j2) = Len(j2)
    BY <1>7
  <2> QED BY <2>2, <2>3
<1> HIDE DEF j2
<1>13. Stands(J, 0, j1) /\ Stands(J, Len(j1), R)
  <2> HIDE DEF j1
  <2>1. Stands(J, 0, j1 \o R)
    BY <1>12 DEF j2
  <2>2. Stands(J, 0, j1) /\ Stands(J, 0 + Len(j1), R)
    BY <1>6, <1>7, <1>10, <2>1, StandsSplit
  <2>3. 0 + Len(j1) = Len(j1)
    BY <1>6
  <2> QED BY <2>2, <2>3
<1> HIDE DEF j1
<1>14. Stands(J, 0, a) /\ Stands(J, Len(a), v3)
  <2> HIDE DEF v3
  <2>1. Stands(J, 0, a \o v3)
    BY <1>13 DEF j1
  <2>2. Stands(J, 0, a) /\ Stands(J, 0 + Len(a), v3)
    BY <1>3, <1>10, <2>1, StandsSplit
  <2>3. 0 + Len(a) = Len(a)
    BY <1>6
  <2> QED BY <2>2, <2>3
<1> HIDE DEF v3
<1>15. Stands(J, Len(a), v2) /\ Stands(J, Len(a) + Len(v2), N)
  <2> HIDE DEF v2
  <2> QED BY <1>2, <1>6, <1>10, <1>14, StandsSplit DEF v3
<1> HIDE DEF v2
<1>16. Stands(J, Len(a), v1) /\ Stands(J, Len(a) + Len(v1), Fv)
  <2> HIDE DEF v1
  <2> QED BY <1>1, <1>6, <1>10, <1>15, StandsSplit DEF v2
<1> HIDE DEF v1
<1>17. Stands(J, Len(a), Fa) /\ Stands(J, Len(a) + Len(Fa), b)
  BY <1>6, <1>10, <1>16, StandsSplit DEF v1
<1>18. Stands(J, Len(j2), p1) /\ Stands(J, Len(j2) + Len(p1), c)
  <2> HIDE DEF p1
  <2>1. Len(j2) \in Nat
    BY <1>7
  <2> QED BY <1>4, <1>10, <1>12, <2>1, StandsSplit DEF p2
<1> HIDE DEF p2
<1>19. Stands(J, Len(j2), P) /\ Stands(J, Len(j2) + Len(P), Fd)
  <2>1. Len(j2) \in Nat
    BY <1>7
  <2> QED BY <1>10, <1>18, <2>1, StandsSplit DEF p1
<1> HIDE DEF p1
<1> DEFINE q == Len(a) + Len(Fa) + Len(b) + Len(Fv)
           x == q + Len(N) + Len(R)
           y == x + Len(P) + Len(Fd)
<1>20. /\ Len(a) + Len(v1) = Len(a) + Len(Fa) + Len(b) /\ Len(a) + Len(v2) = q
       /\ Len(j1) = q + Len(N) /\ Len(j2) = x /\ Len(j2) + Len(p1) = y
       /\ Len(j3) = y + Len(c) /\ Len(J) = y + Len(c) + Len(d)
  BY <1>1, <1>2, <1>3, <1>4, <1>5, <1>6, <1>7, <1>8, <1>10
<1>21. /\ Stands(J, Len(a) + Len(Fa) + Len(b), Fv) /\ Stands(J, q, N) /\ Stands(J, q + Len(N), R)
       /\ Stands(J, x, P) /\ Stands(J, x + Len(P), Fd) /\ Stands(J, y, c)
       /\ Stands(J, y + Len(c), d)
  BY <1>11, <1>13, <1>15, <1>16, <1>18, <1>19, <1>20, Zenon
<1> QED BY <1>10, <1>14, <1>17, <1>20, <1>21, Zenon DEF Parts

-----------------------------------------------------------------------------
(* The heartbeat.                                                          *)

\* No place from i to j holds the key g.
NoKey(J, g, i, j) == \A p \in i..j : ~IsKey(J, p, <<g>>)

\* Two stretches without the key make one.
LEMMA NoKeyJoin ==
  ASSUME NEW J, NEW g, NEW i \in Int, NEW j \in Int, NEW k \in Int, NEW m \in Int,
         NoKey(J, g, i, j), NoKey(J, g, k, m), k <= j + 1
  PROVE  NoKey(J, g, i, m)
BY DEF NoKey

\* Not in a member with another key.
LEMMA MemberNoKey ==
  ASSUME NEW C, NEW J \in Seq(C), NEW s \in Seq(C), NEW o, NEW f, NEW at, Member1(J, o, f, s, at),
         Letter(C, f), NEW g, Letter(C, g), g # f
  PROVE  NoKey(J, g, o, at[Len(s)] + 2)
<1>1. o \in Nat /\ at[Len(s)] \in Nat
  <2>1. Len(s) \in 0..Len(s)
    OBVIOUS
  <2> QED BY <2>1, MemberPlaces
<1> SUFFICES ASSUME NEW p \in o..(at[Len(s)] + 2) PROVE ~IsKey(J, p, <<g>>)
  BY DEF NoKey
<1>2. p = o \/ p \in (o + 1)..(at[Len(s)] + 2)
  BY <1>1
<1>3. CASE p = o
  BY <1>3, MemberKey
<1>4. CASE p \in (o + 1)..(at[Len(s)] + 2)
  BY <1>4, NoOtherKey
<1> QED BY <1>2, <1>3, <1>4

\* A text in which every quote is followed by something else than g.
Silent(w, g) == \A k \in 1..Len(w) : w[k] # Quote \/ (k + 1 <= Len(w) /\ w[k + 1] # g)

\* Where such a text stands there is no key g.
LEMMA SilentNoKey ==
  ASSUME NEW C, NEW J \in Seq(C), NEW w \in Seq(C), NEW q \in Nat, Stands(J, q, w), NEW g, Silent(w, g)
  PROVE  NoKey(J, g, q + 1, q + Len(w))
<1> SUFFICES ASSUME NEW p \in (q + 1)..(q + Len(w)) PROVE ~IsKey(J, p, <<g>>)
  BY DEF NoKey
<1> DEFINE k == p - q
<1>0. Len(w) \in Nat /\ Len(J) \in Nat
  OBVIOUS
<1>1. k \in 1..Len(w) /\ p = q + k /\ p \in Nat
  BY <1>0
<1>2. q + Len(w) <= Len(J) /\ \A i \in 1..Len(w) : J[q + i] = w[i]
  BY DEF Stands
<1> HIDE DEF k
<1>3. p \in 1..Len(J) /\ J[p] = w[k]
  BY <1>0, <1>1, <1>2
<1>4. At(J, p) = w[k]
  BY <1>3, AtPlace
<1>5. CASE w[k] # Quote
  BY <1>1, <1>4, <1>5, OneLetterKey
<1>6. CASE k + 1 <= Len(w) /\ w[k + 1] # g
  <2>1. k + 1 \in 1..Len(w) /\ p + 1 = q + (k + 1) /\ p + 1 \in 1..Len(J)
    BY <1>0, <1>1, <1>2, <1>6
  <2>2. At(J, p + 1) = w[k + 1]
    BY <1>2, <2>1, AtPlace
  <2> QED BY <1>1, <1>6, <2>2, OneLetterKey
<1> QED BY <1>1, <1>5, <1>6 DEF Silent

Spells1(w, C, a) == w \in Seq(C) /\ Len(w) = 1 /\ w[1] = a
Spells12(w, C, a, b, c, d, e, f, g, h, i, j, k, l) ==
  /\ w \in Seq(C) /\ Len(w) = 12
  /\ w[1] = a /\ w[2] = b /\ w[3] = c /\ w[4] = d /\ w[5] = e /\ w[6] = f
  /\ w[7] = g /\ w[8] = h /\ w[9] = i /\ w[10] = j /\ w[11] = k /\ w[12] = l

\* A text of one character.
LEMMA Spelling1 ==
  ASSUME NEW C, NEW a \in C
  PROVE  Spells1(<<a>>, C, a)
BY DEF Spells1

\* A text of twelve characters.
LEMMA Spelling12 ==
  ASSUME NEW C, NEW a \in C, NEW b \in C, NEW c \in C, NEW d \in C, NEW e \in C, NEW f \in C,
         NEW g \in C, NEW h \in C, NEW i \in C, NEW j \in C, NEW k \in C, NEW l \in C
  PROVE  Spells12(<<a, b, c, d, e, f, g, h, i, j, k, l>>, C, a, b, c, d, e, f, g, h, i, j, k, l)
BY DEF Spells12

\* The single characters and the fixed texts of the heartbeat hold no key that is
\* asked for.
LEMMA SilentChar ==
  ASSUME NEW C, NEW a, a # Quote, NEW w, Spells1(w, C, a), NEW g
  PROVE  Silent(w, g)
BY DEF Spells1, Silent

\* The text of applied_counter holds no other key.
LEMMA SilentCounter ==
  ASSUME NEW C, NEW a, NEW b, NEW c, NEW e, Quote \notin {a, b, c, e},
         NEW w, Spells6(w, C, a, Quote, b, Quote, c, e), NEW g, g \notin {b, c}
  PROVE  Silent(w, g)
<1> SUFFICES ASSUME NEW k \in 1..6 PROVE w[k] # Quote \/ (k + 1 <= 6 /\ w[k + 1] # g)
  BY DEF Spells6, Silent
<1>1. k = 1 \/ k = 2 \/ k = 3 \/ k = 4 \/ k = 5 \/ k = 6
  OBVIOUS
<1>2. w[1] # Quote /\ w[3] # g /\ w[3] # Quote /\ w[5] # g /\ w[5] # Quote /\ w[6] # Quote
  BY Zenon DEF Spells6
<1> QED BY <1>1, <1>2

\* The start of the probe holds no other key.
LEMMA SilentProbe ==
  ASSUME NEW C, NEW a, NEW b, NEW c, NEW d, NEW e, NEW f, NEW h, NEW i,
         Quote \notin {a, b, c, d, e, f, h, i},
         NEW w, Spells12(w, C, a, Quote, b, Quote, c, d, Quote, e, Quote, f, h, i),
         NEW g, g \notin {b, c, e, f}
  PROVE  Silent(w, g)
<1> SUFFICES ASSUME NEW k \in 1..12 PROVE w[k] # Quote \/ (k + 1 <= 12 /\ w[k + 1] # g)
  BY DEF Spells12, Silent
<1>1. k = 1 \/ k = 2 \/ k = 3 \/ k = 4 \/ k = 5 \/ k = 6 \/ k = 7 \/ k = 8 \/ k = 9 \/ k = 10
      \/ k = 11 \/ k = 12
  OBVIOUS
<1>2. /\ w[1] # Quote /\ w[3] # g /\ w[3] # Quote /\ w[5] # g /\ w[5] # Quote /\ w[6] # Quote
      /\ w[8] # g /\ w[8] # Quote /\ w[10] # g /\ w[10] # Quote /\ w[11] # Quote /\ w[12] # Quote
  BY Zenon DEF Spells12
<1> QED BY <1>1, <1>2

\* The characters of a heartbeat beside those of its texts.
BeatChars == {"a", "v", "n", "r", "p", "h", "d", " "}

\* sanitise bounds a text and leaves nothing in it to escape.
Bounded(s, cap) == IF Len(s) < cap THEN Len(s) ELSE cap - 1

\* What sanitise returns is such a text, of that length.
LEMMA Sanitised ==
  ASSUME NEW C, BeatChars \subseteq C, NEW cap \in Nat \ {0}, NEW s \in Seq(C)
  PROVE  /\ sanitise(cap, s) \in Seq(C) /\ Plain(sanitise(cap, s))
         /\ Len(sanitise(cap, s)) = Bounded(s, cap) /\ Bounded(s, cap) \in Nat
<1> DEFINE n == Bounded(s, cap)
           v(c) == IF c \in Unsafe THEN " " ELSE c
           w == [i \in 1..n |-> v(s[i])]
<1>1. n \in Nat /\ n <= Len(s)
  BY DEF Bounded
<1>2. sanitise(cap, s) = w
  BY DEF sanitise, Bounded
<1>3. ASSUME NEW c \in C PROVE v(c) \in C /\ v(c) \notin Special
  BY <1>3 DEF Unsafe, Special, Quote, Backslash, BeatChars
<1> HIDE DEF n, v
<1>4. \A i \in 1..n : s[i] \in C
  BY <1>1
<1>5. w \in Seq(C) /\ Len(w) = n /\ \A i \in 1..n : w[i] = v(s[i])
  BY <1>1, <1>3, <1>4
<1>6. Plain(w)
  BY <1>3, <1>4, <1>5 DEF Plain
<1> QED BY <1>1, <1>2, <1>5, <1>6 DEF n

\* A field of the heartbeat is a text.
LEMMA FieldText ==
  ASSUME NEW C, Charset(C), NEW f \in C, NEW s \in Seq(C)
  PROVE  StringField(f, s) \in Seq(C) /\ Len(StringField(f, s)) = Len(s) + 6
<1> DEFINE u == <<Quote, f, Quote, ":", Quote>>
           q == <<Quote>>
<1>1. Quote \in C /\ ":" \in C
  BY DEF Charset, Syntax
<1>2. ASSUME NEW c \in C
      PROVE  LET w == <<Quote, f, Quote, c, Quote>> IN w \in Seq(C) /\ Len(w) = 5
  BY <1>1
<1>3. u \in Seq(C) /\ Len(u) = 5 /\ q \in Seq(C) /\ Len(q) = 1
  <2>1. u \in Seq(C) /\ Len(u) = 5
    BY <1>1, <1>2, Zenon
  <2>2. q \in Seq(C) /\ Len(q) = 1
    BY <1>1
  <2> QED BY <2>1, <2>2, Zenon
<1>4. StringField(f, s) = (u \o s) \o q
  BY DEF StringField
<1> HIDE DEF u, q
<1>5. u \o s \in Seq(C) /\ Len(u \o s) = Len(u) + Len(s) /\ Len(s) \in Nat
  BY <1>3, JoinText
<1>6. (u \o s) \o q \in Seq(C) /\ Len((u \o s) \o q) = Len(u \o s) + Len(q)
  BY <1>3, <1>5, JoinText
<1>7. Len(u) = 5 /\ Len(q) = 1
  BY <1>3
<1>8. Len((u \o s) \o q) = Len(s) + 6
  BY <1>5, <1>6, <1>7
<1> QED BY <1>4, <1>6, <1>8, Zenon

\* The first character of a text that stands in J.
LEMMA StandsFirst ==
  ASSUME NEW C, NEW J \in Seq(C), NEW w, Len(w) \in Nat, Len(w) >= 1, NEW p \in Nat, Stands(J, p, w)
  PROVE  p + 1 <= Len(J) /\ J[p + 1] = w[1]
BY DEF Stands

Body(av, vv, n, R, h, d) ==
  <<"{">> \o (StringField("a", av) \o <<",">> \o StringField("v", vv)
              \o <<",", Quote, "n", Quote, ":", n>>)
  \o R
  \o (<<",", Quote, "p", Quote, ":", "{", Quote, "h", Quote, ":", h, ",">>
      \o StringField("d", d) \o <<"}">>)
  \o <<"}">>

\* The members of a heartbeat and the texts between them; q is where the counter
\* starts and x where the probe does.
Beat(C, J, av, vv, d, R, q, x, N, P) ==
  /\ J \in Seq(C) /\ Stands(J, 0, <<"{">>)
  /\ Member1(J, 2, "a", av, Even(av, 6)) /\ Even(av, 6)[Len(av)] = 6 + Len(av)
  /\ Member1(J, 9 + Len(av), "v", vv, Even(vv, 13 + Len(av)))
  /\ Even(vv, 13 + Len(av))[Len(vv)] = 13 + Len(av) + Len(vv)
  /\ q = 14 + Len(av) + Len(vv) /\ Stands(J, q, N) /\ Stands(J, q + 6, R)
  /\ x = q + 6 + Len(R) /\ Stands(J, x, P)
  /\ Member1(J, x + 13, "d", d, Even(d, x + 17)) /\ Even(d, x + 17)[Len(d)] = x + 17 + Len(d)
  /\ Len(J) = x + 20 + Len(d) /\ J[Len(J)] = "}"

\* ota_heartbeat_json writes its members in that order.
LEMMA BeatLayout ==
  ASSUME NEW C, Charset(C), BeatChars \subseteq C, NEW av \in Seq(C), Plain(av),
         NEW vv \in Seq(C), Plain(vv), NEW d \in Seq(C), Plain(d), NEW n \in C, NEW h \in C,
         NEW R \in Seq(C)
  PROVE  Beat(C, Body(av, vv, n, R, h, d), av, vv, d, R, 14 + Len(av) + Len(vv),
              14 + Len(av) + Len(vv) + 6 + Len(R),
              <<",", Quote, "n", Quote, ":", n>>,
              <<",", Quote, "p", Quote, ":", "{", Quote, "h", Quote, ":", h, ",">>)
<1> DEFINE J == Body(av, vv, n, R, h, d)
           a == <<"{">>
           b == <<",">>
           c == <<"}">>
           Fa == StringField("a", av)
           Fv == StringField("v", vv)
           Fd == StringField("d", d)
           N == <<",", Quote, "n", Quote, ":", n>>
           P == <<",", Quote, "p", Quote, ":", "{", Quote, "h", Quote, ":", h, ",">>
           la == Len(av)
           lv == Len(vv)
           ld == Len(d)
           lr == Len(R)
           q == 14 + la + lv
           x == q + 6 + lr
<1>1. /\ Quote \in C /\ "{" \in C /\ "}" \in C /\ ":" \in C /\ "," \in C
      /\ "a" \in C /\ "v" \in C /\ "n" \in C /\ "p" \in C /\ "h" \in C /\ "d" \in C
  BY DEF Charset, Syntax, BeatChars
<1>2. Spells1(a, C, "{") /\ Spells1(b, C, ",") /\ Spells1(c, C, "}")
  BY <1>1, Spelling1, Zenon
<1>3. Spells6(N, C, ",", Quote, "n", Quote, ":", n)
  BY <1>1, Spelling, Zenon
<1>4. Spells12(P, C, ",", Quote, "p", Quote, ":", "{", Quote, "h", Quote, ":", h, ",")
  BY <1>1, Spelling12, Zenon
<1>5. /\ Fa \in Seq(C) /\ Len(Fa) = la + 6 /\ Fv \in Seq(C) /\ Len(Fv) = lv + 6
      /\ Fd \in Seq(C) /\ Len(Fd) = ld + 6
  BY <1>1, FieldText, Zenon
<1>6. /\ a \in Seq(C) /\ Len(a) = 1 /\ b \in Seq(C) /\ Len(b) = 1 /\ c \in Seq(C) /\ Len(c) = 1
      /\ N \in Seq(C) /\ Len(N) = 6 /\ P \in Seq(C) /\ Len(P) = 12
  BY <1>2, <1>3, <1>4, Zenon DEF Spells1, Spells6, Spells12
<1>7. la \in Nat /\ lv \in Nat /\ ld \in Nat /\ lr \in Nat
  OBVIOUS
<1>8. Concatenated(J, a, Fa, b, Fv, N, R, P, Fd, c, c)
  BY Zenon DEF Body, Concatenated
<1> HIDE DEF J, a, b, c, Fa, Fv, Fd, N, P, la, lv, ld, lr
<1>9. J \in Seq(C) /\ Parts(J, a, Fa, b, Fv, N, R, P, Fd, c, c)
  BY <1>5, <1>6, <1>8, Layout, Zenon
<1>10. /\ Stands(J, 0, a) /\ Stands(J, 1, Fa) /\ Stands(J, 7 + la, b) /\ Stands(J, 8 + la, Fv)
       /\ Stands(J, q, N) /\ Stands(J, q + 6, R) /\ Stands(J, x, P) /\ Stands(J, x + 12, Fd)
       /\ Stands(J, x + 18 + ld, c) /\ Stands(J, x + 19 + ld, c) /\ Len(J) = x + 20 + ld
  <2> DEFINE Q == Len(a) + Len(Fa) + Len(b) + Len(Fv)
             X == Q + Len(N) + Len(R)
             Y == X + Len(P) + Len(Fd)
  <2>1. /\ Len(a) = 1 /\ Len(b) = 1 /\ Len(c) = 1 /\ Len(Fa) = la + 6 /\ Len(Fv) = lv + 6
        /\ Len(Fd) = ld + 6 /\ Len(N) = 6 /\ Len(P) = 12 /\ Len(R) = lr
    BY <1>5, <1>6, Zenon DEF lr
  <2>2. /\ Len(a) + Len(Fa) = 7 + la /\ Len(a) + Len(Fa) + Len(b) = 8 + la /\ Q = q
        /\ Q + Len(N) = q + 6 /\ X = x /\ X + Len(P) = x + 12 /\ Y = x + 18 + ld
        /\ Y + Len(c) = x + 19 + ld /\ Y + Len(c) + Len(c) = x + 20 + ld
    BY <1>7, <2>1
  <2>3. /\ Stands(J, 0, a) /\ Stands(J, Len(a), Fa) /\ Stands(J, Len(a) + Len(Fa), b)
        /\ Stands(J, Len(a) + Len(Fa) + Len(b), Fv) /\ Stands(J, Q, N) /\ Stands(J, Q + Len(N), R)
        /\ Stands(J, X, P) /\ Stands(J, X + Len(P), Fd) /\ Stands(J, Y, c)
        /\ Stands(J, Y + Len(c), c) /\ Len(J) = Y + Len(c) + Len(c)
    BY <1>9, Zenon DEF Parts
  <2> HIDE DEF q, x, Q, X, Y
  <2>4. Stands(J, 1, Fa) /\ Stands(J, 7 + la, b) /\ Stands(J, 8 + la, Fv)
    BY <2>1, <2>2, <2>3
  <2>5. Stands(J, q, N) /\ Stands(J, q + 6, R) /\ Stands(J, x, P) /\ Stands(J, x + 12, Fd)
    BY <2>2, <2>3
  <2>6. Stands(J, x + 18 + ld, c) /\ Stands(J, x + 19 + ld, c) /\ Len(J) = x + 20 + ld
    BY <2>2, <2>3
  <2> QED BY <2>3, <2>4, <2>5, <2>6
<1>18. /\ J \in Seq(C) /\ Len(b) \in Nat /\ Len(b) >= 1 /\ Len(c) \in Nat /\ Len(c) >= 1
       /\ Len(N) \in Nat /\ Len(N) >= 1
  <2>1. J \in Seq(C) /\ Len(b) = 1 /\ Len(c) = 1 /\ Len(N) = 6
    BY <1>6, <1>9, Zenon
  <2> QED BY <2>1
<1>11. q \in Nat /\ x \in Nat
  BY <1>7
<1> HIDE DEF q, x
<1>12. Member1(J, 2, "a", av, Even(av, 6)) /\ Even(av, 6)[la] = 6 + la
  <2>1. 7 + la \in Nat /\ (7 + la) + 1 = 8 + la /\ 1 + 7 + la = 8 + la /\ 1 + 5 = 6 /\ 1 + 1 = 2
        /\ 1 + 5 + la = 6 + la
    BY <1>7
  <2>0. (7 + la) + 1 <= Len(J) /\ J[(7 + la) + 1] = b[1]
    BY <1>10, <1>18, <2>1, StandsFirst
  <2>2. 8 + la <= Len(J) /\ J[8 + la] = b[1]
    BY <2>0, <2>1
  <2>3. b[1] = ","
    BY <1>2, Zenon DEF Spells1
  <2>4. GoesOn(J, 8 + la)
    BY <2>2, <2>3, Zenon DEF GoesOn
  <2>5. /\ Member1(J, 1 + 1, "a", av, Even(av, 1 + 5))
        /\ Even(av, 1 + 5)[Len(av)] = 1 + 5 + Len(av)
    <3>1. 1 \in Nat /\ "a" \in C /\ Stands(J, 1, StringField("a", av)) /\ GoesOn(J, 1 + 7 + Len(av))
      BY <1>1, <1>10, <2>1, <2>4 DEF la, Fa
    <3> QED BY <1>9, <3>1, FieldIsMember, Zenon
  <2> QED BY <2>1, <2>5, Zenon DEF la
<1>13. /\ Member1(J, 9 + la, "v", vv, Even(vv, 13 + la))
       /\ Even(vv, 13 + la)[lv] = 13 + la + lv
  <2>1. /\ 8 + la \in Nat /\ (8 + la) + 1 = 9 + la /\ (8 + la) + 5 = 13 + la
        /\ (8 + la) + 5 + lv = 13 + la + lv /\ (8 + la) + 7 + lv = q + 1
    BY <1>7 DEF q
  <2>2. q + 1 <= Len(J) /\ J[q + 1] = N[1]
    BY <1>10, <1>18, <1>11, StandsFirst
  <2>3. N[1] = ","
    BY <1>3, Zenon DEF Spells6
  <2>4. GoesOn(J, q + 1)
    BY <2>2, <2>3, Zenon DEF GoesOn
  <2>5. /\ Member1(J, (8 + la) + 1, "v", vv, Even(vv, (8 + la) + 5))
        /\ Even(vv, (8 + la) + 5)[Len(vv)] = (8 + la) + 5 + Len(vv)
    <3>1. /\ "v" \in C /\ Stands(J, 8 + la, StringField("v", vv))
          /\ GoesOn(J, (8 + la) + 7 + Len(vv))
      BY <1>1, <1>10, <2>1, <2>4 DEF lv, Fv
    <3> QED BY <1>9, <2>1, <3>1, FieldIsMember, Zenon
  <2> QED BY <2>1, <2>5, Zenon DEF lv
<1>14. /\ Member1(J, x + 13, "d", d, Even(d, x + 17)) /\ Even(d, x + 17)[ld] = x + 17 + ld
  <2>1. /\ x + 12 \in Nat /\ (x + 12) + 1 = x + 13 /\ (x + 12) + 5 = x + 17
        /\ (x + 12) + 5 + ld = x + 17 + ld /\ (x + 12) + 7 + ld = (x + 18 + ld) + 1
        /\ x + 18 + ld \in Nat
    BY <1>7, <1>11
  <2>2. (x + 18 + ld) + 1 <= Len(J) /\ J[(x + 18 + ld) + 1] = c[1]
    BY <1>10, <1>18, <2>1, StandsFirst
  <2>3. c[1] = "}"
    BY <1>2, Zenon DEF Spells1
  <2>4. GoesOn(J, (x + 18 + ld) + 1)
    BY <2>2, <2>3, Zenon DEF GoesOn
  <2>5. /\ Member1(J, (x + 12) + 1, "d", d, Even(d, (x + 12) + 5))
        /\ Even(d, (x + 12) + 5)[Len(d)] = (x + 12) + 5 + Len(d)
    <3>1. /\ "d" \in C /\ Stands(J, x + 12, StringField("d", d))
          /\ GoesOn(J, (x + 12) + 7 + Len(d))
      BY <1>1, <1>10, <2>1, <2>4 DEF ld, Fd
    <3> QED BY <1>9, <2>1, <3>1, FieldIsMember, Zenon
  <2> QED BY <2>1, <2>5, Zenon DEF ld
<1>15. J[Len(J)] = "}"
  <2>1. x + 19 + ld \in Nat /\ (x + 19 + ld) + 1 = Len(J)
    BY <1>7, <1>10, <1>11
  <2>2. J[Len(J)] = c[1]
    <3>1. J[(x + 19 + ld) + 1] = c[1]
      BY <1>10, <1>18, <2>1, StandsFirst
    <3> QED BY <2>1, <3>1, Zenon
  <2>3. c[1] = "}"
    BY <1>2, Zenon DEF Spells1
  <2> QED BY <2>2, <2>3, Zenon
<1>16. q = 14 + la + lv /\ x = q + 6 + lr
  BY DEF q, x
<1>17. Beat(C, J, av, vv, d, R, q, x, N, P)
  BY <1>9, <1>10, <1>12, <1>13, <1>14, <1>15, <1>16, Zenon DEF Beat, la, lv, ld, lr, a
<1> QED BY <1>17, <1>16, Zenon DEF J, N, P, q, x, la, lv, lr

\* The heartbeat's letters are letters.
LEMMA BeatLetters ==
  ASSUME NEW C, BeatChars \subseteq C
  PROVE  Letter(C, "a") /\ Letter(C, "v") /\ Letter(C, "r") /\ Letter(C, "d")
BY DEF Letter, BeatChars, Quote, Backslash

\* A key that stands nowhere is not read.
LEMMA ReadNone ==
  ASSUME NEW C, NEW J \in Seq(C), NEW g, NoKey(J, g, 1, Len(J))
  PROVE  json_extract_string(J, <<g>>, Len(J)) = Failed
<1>1. DOMAIN J = 1..Len(J)
  OBVIOUS
<1>2. \A p \in DOMAIN J : ~IsKey(J, p, <<g>>)
  BY <1>1 DEF NoKey
<1>3. find_value_start(J, <<g>>) = 0
  BY <1>2 DEF find_value_start
<1> QED BY <1>3 DEF json_extract_string

\* One character of J that is no quote.
LEMMA PlaceNoKey ==
  ASSUME NEW C, NEW J \in Seq(C), NEW g, NEW p \in 1..Len(J), J[p] # Quote
  PROVE  NoKey(J, g, p, p)
<1>1. At(J, p) # Quote /\ p \in Nat
  BY AtPlace
<1>2. ~IsKey(J, p, <<g>>)
  BY <1>1, OneLetterKey
<1> QED BY <1>2 DEF NoKey

\* The texts between the members.
CounterText(N, C, n) == Spells6(N, C, ",", Quote, "n", Quote, ":", n)
ProbeText(P, C, h) ==
  Spells12(P, C, ",", Quote, "p", Quote, ":", "{", Quote, "h", Quote, ":", h, ",")

\* Up to the counter: agent_version and applied_version are read back, and no other
\* key is found.
LEMMA BeatHead ==
  ASSUME NEW C, Charset(C), BeatChars \subseteq C, NEW J, NEW av \in Seq(C), NEW vv \in Seq(C),
         NEW d \in Seq(C), NEW R \in Seq(C), NEW q, NEW x, NEW N, NEW P,
         Beat(C, J, av, vv, d, R, q, x, N, P),
         NEW n, n # Quote, CounterText(N, C, n)
  PROVE  /\ json_extract_string(J, <<"a">>, Len(J)) = av
         /\ json_extract_string(J, <<"v">>, Len(J)) = vv
         /\ \A g : Letter(C, g) /\ g \notin {"a", "v", "n"} => NoKey(J, g, 1, q + 6)
<1> DEFINE la == Len(av)
           lv == Len(vv)
           a1 == Even(av, 6)
           a2 == Even(vv, 13 + la)
           o2 == 9 + la
<1>1. /\ J \in Seq(C) /\ Stands(J, 0, <<"{">>) /\ Member1(J, 2, "a", av, a1)
      /\ Member1(J, o2, "v", vv, a2) /\ Stands(J, q, N)
  BY Zenon DEF Beat
<1>2. a1[la] = 6 + la /\ a2[lv] = 13 + la + lv /\ q = 14 + la + lv /\ la \in Nat /\ lv \in Nat
  <2>1. a1[la] = 6 + la /\ a2[lv] = 13 + la + lv /\ q = 14 + la + lv
    BY Zenon DEF Beat
  <2>2. la \in Nat /\ lv \in Nat
    OBVIOUS
  <2> QED BY <2>1, <2>2, Zenon
<1> HIDE DEF la, lv, a1, a2, o2
<1>3. ASSUME NEW g PROVE NoKey(J, g, 1, 1)
  <2>1. Spells1(<<"{">>, C, "{") /\ "{" # Quote
    <3>1. "{" \in C /\ "{" # Quote
      BY DEF Charset, Syntax, Quote
    <3> QED BY <3>1, Spelling1, Zenon
  <2>2. Silent(<<"{">>, g) /\ <<"{">> \in Seq(C) /\ Len(<<"{">>) = 1
    BY <2>1, SilentChar, Zenon DEF Spells1
  <2>3. NoKey(J, g, 0 + 1, 0 + Len(<<"{">>))
    BY <1>1, <2>2, SilentNoKey, Zenon
  <2>4. 0 + 1 = 1
    OBVIOUS
  <2> QED BY <2>2, <2>3, <2>4, Zenon
<1>4. Letter(C, "a") /\ Letter(C, "v")
  BY BeatLetters
<1>5. ASSUME NEW g, Letter(C, g), g \notin {"a"} PROVE NoKey(J, g, 1, 8 + la)
  <2> DEFINE o1 == 2
  <2>0. Member1(J, o1, "a", av, a1)
    BY <1>1, Zenon
  <2> HIDE DEF o1
  <2>4. NoKey(J, g, o1, a1[Len(av)] + 2)
    <3>1. J \in Seq(C) /\ Letter(C, "a") /\ Letter(C, g)
      BY <1>1, <1>4, <1>5
    <3>2. g # "a"
      BY <1>5
    <3> DEFINE f == "a"
    <3>3. Member1(J, o1, f, av, a1) /\ Letter(C, f) /\ g # f
      BY <2>0, <3>1, <3>2, Zenon
    <3> HIDE DEF f
    <3> QED BY <3>1, <3>3, MemberNoKey
  <2>1. NoKey(J, g, 2, a1[Len(av)] + 2)
    BY <2>4, Zenon DEF o1
  <2>2. a1[Len(av)] + 2 = 8 + la /\ 8 + la \in Int
    BY <1>2 DEF la
  <2>3. NoKey(J, g, 2, 8 + la)
    BY <2>1, <2>2, Zenon
  <2> QED BY <1>3, <2>2, <2>3, NoKeyJoin
<1>6. json_extract_string(J, <<"a">>, Len(J)) = av
  <2>1. \A p \in 1..(2 - 1) : ~IsKey(J, p, <<"a">>)
    BY <1>3 DEF NoKey
  <2> QED BY <1>1, <2>1, ReadMember, Zenon
<1>7. json_extract_string(J, <<"v">>, Len(J)) = vv
  <2>1. NoKey(J, "v", 1, 8 + la)
    BY <1>4, <1>5
  <2>2. 8 + la = o2 - 1
    BY <1>2 DEF o2
  <2>3. \A p \in 1..(o2 - 1) : ~IsKey(J, p, <<"v">>)
    BY <2>1, <2>2, Zenon DEF NoKey
  <2> QED BY <1>1, <2>3, ReadMember, Zenon
<1>8. ASSUME NEW g, Letter(C, g), g \notin {"a", "v", "n"} PROVE NoKey(J, g, 1, q + 6)
  <2>1. NoKey(J, g, o2, a2[Len(vv)] + 2)
    BY <1>1, <1>4, <1>8, MemberNoKey, Zenon
  <2>2. a2[Len(vv)] + 2 = q + 1 /\ o2 = 9 + la /\ o2 \in Int /\ q \in Nat
    BY <1>2 DEF lv, o2
  <2>3. NoKey(J, g, 1, 8 + la)
    BY <1>5, <1>8
  <2>4. NoKey(J, g, 1, q + 1)
    <3>1. NoKey(J, g, o2, q + 1) /\ 8 + la \in Int /\ q + 1 \in Int /\ o2 <= (8 + la) + 1
      BY <1>2, <2>1, <2>2
    <3> QED BY <2>2, <2>3, <3>1, NoKeyJoin
  <2>5. Silent(N, g)
    <3>1. Quote \notin {",", "n", ":", n} /\ g \notin {"n", ":"}
      BY <1>8 DEF Letter, Quote
    <3> QED BY <3>1, SilentCounter, Zenon DEF CounterText
  <2>6. N \in Seq(C) /\ Len(N) = 6
    BY Zenon DEF Spells6, CounterText
  <2>7. NoKey(J, g, q + 1, q + 6)
    BY <1>1, <2>2, <2>5, <2>6, SilentNoKey
  <2>8. q + 1 \in Int /\ q + 6 \in Int /\ q + 1 <= (q + 1) + 1
    BY <2>2
  <2> QED BY <2>4, <2>7, <2>8, NoKeyJoin
<1> QED BY <1>6, <1>7, <1>8

\* The start of the probe holds none of these keys.
LEMMA BeatProbe ==
  ASSUME NEW C, NEW J \in Seq(C), NEW x \in Nat, NEW P, Stands(J, x, P),
         NEW h, h # Quote, ProbeText(P, C, h), NEW g, Letter(C, g), g \notin {"p", "h"}
  PROVE  NoKey(J, g, x + 1, x + 12)
<1>1. P \in Seq(C) /\ Len(P) = 12
  BY Zenon DEF ProbeText, Spells12
<1>2. Silent(P, g)
  <2>1. Quote \notin {",", "p", ":", "{", "h", ":", h, ","} /\ g \notin {"p", ":", "h", ":"}
    BY DEF Letter, Quote
  <2> QED BY <2>1, SilentProbe, Zenon DEF ProbeText
<1>3. NoKey(J, g, x + 1, x + Len(P))
  BY <1>1, <1>2, SilentNoKey
<1> QED BY <1>1, <1>3, Zenon

\* What stands for the reverted version.
NothingReverted(R) == Len(R) = 0
RevertedText(R, r) == R = <<",">> \o StringField("r", r)

\* Without a reverted version: detail is read back and reverted_version is not there.
LEMMA BeatPlain ==
  ASSUME NEW C, Charset(C), BeatChars \subseteq C, NEW J, NEW av \in Seq(C), NEW vv \in Seq(C),
         NEW d \in Seq(C), NEW R \in Seq(C), NothingReverted(R), NEW q, NEW x, NEW N, NEW P,
         Beat(C, J, av, vv, d, R, q, x, N, P),
         NEW n, n # Quote, CounterText(N, C, n), NEW h, h # Quote, ProbeText(P, C, h)
  PROVE  /\ json_extract_string(J, <<"d">>, Len(J)) = d
         /\ json_extract_string(J, <<"r">>, Len(J)) = Failed
<1> DEFINE o == x + 13
           at == Even(d, x + 17)
           ld == Len(d)
<1>1. J \in Seq(C) /\ Member1(J, o, "d", d, at) /\ Stands(J, x, P)
  BY Zenon DEF Beat
<1>2. q \in Nat /\ x \in Nat /\ x = q + 6 /\ ld \in Nat /\ at[ld] = x + 17 + ld
      /\ Len(J) = x + 20 + ld
  <2>1. /\ q = 14 + Len(av) + Len(vv) /\ x = q + 6 + Len(R) /\ at[ld] = x + 17 + ld
        /\ Len(J) = x + 20 + ld
    BY Zenon DEF Beat
  <2>2. Len(av) \in Nat /\ Len(vv) \in Nat /\ ld \in Nat /\ Len(R) = 0
    BY DEF NothingReverted
  <2> QED BY <2>1, <2>2
<1> HIDE DEF o, at, ld
<1>3. J[Len(J)] = "}"
  BY Zenon DEF Beat
<1>4. Letter(C, "r") /\ Letter(C, "d")
  BY BeatLetters
<1>5. ASSUME NEW g, Letter(C, g), g \notin {"a", "v", "n", "p", "h"} PROVE NoKey(J, g, 1, x + 12)
  <2>1. NoKey(J, g, 1, q + 6)
    BY <1>5, BeatHead
  <2>2. NoKey(J, g, x + 1, x + 12)
    BY <1>1, <1>2, <1>5, BeatProbe
  <2>3. q + 6 \in Int /\ x + 1 \in Int /\ x + 12 \in Int /\ x + 1 <= (q + 6) + 1
    BY <1>2
  <2> QED BY <2>1, <2>2, <2>3, NoKeyJoin
<1>6. json_extract_string(J, <<"d">>, Len(J)) = d
  <2>1. NoKey(J, "d", 1, x + 12)
    BY <1>4, <1>5
  <2>2. x + 12 = o - 1
    BY <1>2 DEF o
  <2>3. \A p \in 1..(o - 1) : ~IsKey(J, p, <<"d">>)
    BY <2>1, <2>2, Zenon DEF NoKey
  <2> QED BY <1>1, <2>3, ReadMember, Zenon
<1>7. NoKey(J, "r", 1, Len(J))
  <2>1. NoKey(J, "r", 1, x + 12)
    BY <1>4, <1>5
  <2>2. NoKey(J, "r", o, at[Len(d)] + 2)
    <3> DEFINE f == "d"
               g == "r"
    <3>1. Member1(J, o, f, d, at) /\ Letter(C, f) /\ Letter(C, g) /\ g # f
      BY <1>1, <1>4, Zenon
    <3> HIDE DEF f, g
    <3>2. NoKey(J, g, o, at[Len(d)] + 2)
      BY <1>1, <3>1, MemberNoKey
    <3> QED BY <3>2 DEF g
  <2>3. at[Len(d)] + 2 = Len(J) - 1 /\ o = x + 13 /\ Len(J) \in 1..Len(J)
    BY <1>2 DEF ld, o
  <2>4. NoKey(J, "r", Len(J), Len(J))
    <3>1. J[Len(J)] # Quote
      BY <1>3 DEF Quote
    <3> QED BY <1>1, <2>3, <3>1, PlaceNoKey
  <2>5. NoKey(J, "r", x + 13, Len(J) - 1)
    BY <2>2, <2>3, Zenon
  <2>6. /\ x + 12 \in Int /\ x + 13 \in Int /\ Len(J) - 1 \in Int /\ Len(J) \in Int
        /\ x + 13 <= (x + 12) + 1 /\ Len(J) <= (Len(J) - 1) + 1
    BY <1>2
  <2>7. NoKey(J, "r", 1, Len(J) - 1)
    BY <2>1, <2>5, <2>6, NoKeyJoin
  <2> QED BY <2>4, <2>6, <2>7, NoKeyJoin
<1>8. json_extract_string(J, <<"r">>, Len(J)) = Failed
  BY <1>1, <1>7, ReadNone, Zenon
<1> QED BY <1>6, <1>8

\* With a reverted version r: it and detail are read back.
LEMMA BeatReverted ==
  ASSUME NEW C, Charset(C), BeatChars \subseteq C, NEW J, NEW av \in Seq(C), NEW vv \in Seq(C),
         NEW d \in Seq(C), NEW r \in Seq(C), Plain(r), NEW R \in Seq(C),
         RevertedText(R, r), NEW q, NEW x, NEW N, NEW P,
         Beat(C, J, av, vv, d, R, q, x, N, P),
         NEW n, n # Quote, CounterText(N, C, n), NEW h, h # Quote, ProbeText(P, C, h)
  PROVE  /\ json_extract_string(J, <<"d">>, Len(J)) = d
         /\ json_extract_string(J, <<"r">>, Len(J)) = r
<1> DEFINE o == x + 13
           at == Even(d, x + 17)
           lr == Len(r)
           b == <<",">>
           F == StringField("r", r)
           u == q + 8
           ar == Even(r, q + 12)
<1>1. J \in Seq(C) /\ Member1(J, o, "d", d, at) /\ Stands(J, x, P) /\ Stands(J, q + 6, R)
  BY Zenon DEF Beat
<1>2. Spells1(b, C, ",") /\ F \in Seq(C) /\ Len(F) = lr + 6 /\ "," # Quote
  <2>1. "," \in C /\ "r" \in C /\ "," # Quote
    BY DEF Charset, Syntax, BeatChars, Quote
  <2>2. F \in Seq(C) /\ Len(F) = lr + 6
    BY <2>1, FieldText, Zenon
  <2> QED BY <2>1, <2>2, Spelling1, Zenon
<1>3. b \in Seq(C) /\ Len(b) = 1
  BY <1>2, Zenon DEF Spells1
<1>4. R = b \o F
  BY Zenon DEF RevertedText
<1> HIDE DEF o, at, b, F
<1>5. q \in Nat /\ x \in Nat /\ lr \in Nat /\ x = q + 13 + lr
  <2>1. q = 14 + Len(av) + Len(vv) /\ x = q + 6 + Len(R)
    BY Zenon DEF Beat
  <2>2. Len(R) = Len(b) + Len(F)
    BY <1>2, <1>3, <1>4, JoinText
  <2>3. Len(av) \in Nat /\ Len(vv) \in Nat /\ lr \in Nat
    OBVIOUS
  <2> HIDE DEF lr
  <2>5. Len(F) = lr + 6 /\ Len(b) = 1
    BY <1>2, <1>3, Zenon
  <2>4. Len(R) = lr + 7
    BY <2>2, <2>3, <2>5
  <2> QED BY <2>1, <2>3, <2>4
<1> HIDE DEF lr, u, ar
<1>6. Stands(J, q + 6, b) /\ Stands(J, q + 7, F)
  <2>1. q + 6 \in Nat /\ (q + 6) + 1 = q + 7
    BY <1>5
  <2>2. Stands(J, q + 6, b) /\ Stands(J, (q + 6) + Len(b), F)
    BY <1>1, <1>2, <1>3, <1>4, <2>1, StandsSplit
  <2> QED BY <1>3, <2>1, <2>2, Zenon
<1>7. Member1(J, u, "r", r, ar) /\ ar[lr] = q + 12 + lr
  <2>1. /\ q + 7 \in Nat /\ (q + 7) + 1 = u /\ (q + 7) + 5 = q + 12
        /\ (q + 7) + 5 + lr = q + 12 + lr /\ (q + 7) + 7 + lr = x + 1
    BY <1>5 DEF u
  <2>2. P \in Seq(C) /\ Len(P) = 12 /\ P[1] = ","
    BY Zenon DEF ProbeText, Spells12
  <2>3. x + 1 <= Len(J) /\ J[x + 1] = P[1]
    <3>2. Len(P) = 12
      BY <2>2, Zenon
    <3>1. Len(P) \in Nat /\ Len(P) >= 1
      BY <3>2
    <3> QED BY <1>1, <1>5, <3>1, StandsFirst
  <2>4. GoesOn(J, x + 1)
    BY <2>2, <2>3, Zenon DEF GoesOn
  <2>5. /\ Member1(J, (q + 7) + 1, "r", r, Even(r, (q + 7) + 5))
        /\ Even(r, (q + 7) + 5)[Len(r)] = (q + 7) + 5 + Len(r)
    <3>1. /\ "r" \in C /\ Stands(J, q + 7, StringField("r", r)) /\ GoesOn(J, (q + 7) + 7 + Len(r))
      <4>1. "r" \in C
        BY DEF BeatChars
      <4>2. (q + 7) + 7 + Len(r) = x + 1
        BY <2>1 DEF lr
      <4> QED BY <1>6, <2>4, <4>1, <4>2, Zenon DEF F
    <3> QED BY <1>1, <2>1, <3>1, FieldIsMember, Zenon
  <2> QED BY <2>1, <2>5, Zenon DEF lr, ar
<1>8. Letter(C, "r") /\ Letter(C, "d")
  BY BeatLetters
<1>9. ASSUME NEW g, Letter(C, g), g \notin {"a", "v", "n"} PROVE NoKey(J, g, 1, q + 7)
  <2>1. NoKey(J, g, 1, q + 6)
    BY <1>9, BeatHead
  <2>2. Silent(b, g)
    BY <1>2, SilentChar, Zenon
  <2>3. NoKey(J, g, (q + 6) + 1, (q + 6) + Len(b))
    <3>1. q + 6 \in Nat
      BY <1>5
    <3> QED BY <1>1, <1>3, <1>6, <2>2, <3>1, SilentNoKey
  <2>4. (q + 6) + 1 = q + 7 /\ (q + 6) + Len(b) = q + 7 /\ q + 6 \in Int /\ q + 7 \in Int
        /\ q + 7 <= (q + 6) + 1
    BY <1>3, <1>5
  <2>5. NoKey(J, g, q + 7, q + 7)
    BY <2>3, <2>4, Zenon
  <2> QED BY <2>1, <2>4, <2>5, NoKeyJoin
<1>10. json_extract_string(J, <<"r">>, Len(J)) = r
  <2>1. NoKey(J, "r", 1, q + 7)
    BY <1>8, <1>9
  <2>2. q + 7 = u - 1
    BY <1>5 DEF u
  <2>3. \A p \in 1..(u - 1) : ~IsKey(J, p, <<"r">>)
    BY <2>1, <2>2, Zenon DEF NoKey
  <2> QED BY <1>1, <1>7, <2>3, ReadMember, Zenon
<1>11. json_extract_string(J, <<"d">>, Len(J)) = d
  <2>1. NoKey(J, "d", 1, q + 7)
    BY <1>8, <1>9
  <2>2. NoKey(J, "d", u, ar[Len(r)] + 2)
    <3> DEFINE f == "r"
               g == "d"
    <3>1. Member1(J, u, f, r, ar) /\ Letter(C, f) /\ Letter(C, g) /\ g # f
      BY <1>7, <1>8, Zenon
    <3> HIDE DEF f, g
    <3>2. NoKey(J, g, u, ar[Len(r)] + 2)
      BY <1>1, <3>1, MemberNoKey
    <3> QED BY <3>2 DEF g
  <2>3. /\ ar[Len(r)] + 2 = x + 1 /\ u = q + 8 /\ u \in Int /\ q + 7 \in Int /\ x + 1 \in Int
        /\ x + 12 \in Int /\ u <= (q + 7) + 1 /\ x + 1 <= (x + 1) + 1 /\ x + 12 = o - 1
    BY <1>5, <1>7 DEF lr, u, o
  <2>4. NoKey(J, "d", u, x + 1)
    BY <2>2, <2>3, Zenon
  <2>5. NoKey(J, "d", 1, x + 1)
    BY <2>1, <2>3, <2>4, NoKeyJoin
  <2>6. NoKey(J, "d", x + 1, x + 12)
    BY <1>1, <1>5, <1>8, BeatProbe
  <2>7. NoKey(J, "d", 1, x + 12)
    BY <2>3, <2>5, <2>6, NoKeyJoin
  <2>8. \A p \in 1..(o - 1) : ~IsKey(J, p, <<"d">>)
    BY <2>3, <2>7, Zenon DEF NoKey
  <2> QED BY <1>1, <2>8, ReadMember, Zenon
<1> QED BY <1>10, <1>11

\* What reverted_version adds to a heartbeat.
RevertedSize(rv) == IF rv = <<>> THEN 0 ELSE 7 + Bounded(rv, VersionCap)

\* ota_heartbeat_json on any texts: a body that does not fit is refused, and only
\* then; otherwise every member reads back, the detail and the reverted version
\* bounded and sanitised, the latter only when there is one.
THEOREM HeartbeatReadsAnyText ==
  ASSUME NEW C, Charset(C), BeatChars \subseteq C,
         NEW av \in Seq(C), Plain(av), NEW vv \in Seq(C), Plain(vv),
         NEW n \in C, n # Quote, NEW h \in C, h # Quote,
         NEW d \in Seq(C), NEW rv \in Seq(C), NEW cap \in Nat,
         NEW J, J = ota_heartbeat_json(cap, av, vv, n, h, d, rv),
         NEW size, size = 40 + Len(av) + Len(vv) + Bounded(d, DetailCap) + RevertedSize(rv)
  PROVE  IF size >= cap THEN J = Failed
         ELSE /\ Len(J) = size
              /\ json_extract_string(J, <<"a">>, Len(J)) = av
              /\ json_extract_string(J, <<"v">>, Len(J)) = vv
              /\ json_extract_string(J, <<"d">>, Len(J)) = sanitise(DetailCap, d)
              /\ json_extract_string(J, <<"r">>, Len(J)) =
                   IF rv = <<>> THEN Failed ELSE sanitise(VersionCap, rv)
<1> DEFINE r == sanitise(VersionCap, rv)
           R == IF rv = <<>> THEN <<>> ELSE <<",">> \o StringField("r", r)
           e == sanitise(DetailCap, d)
           N == <<",", Quote, "n", Quote, ":", n>>
           P == <<",", Quote, "p", Quote, ":", "{", Quote, "h", Quote, ":", h, ",">>
           q == 14 + Len(av) + Len(vv)
           x == q + 6 + Len(R)
           B == Body(av, vv, n, R, h, e)
<1>1. J = IF Len(B) >= cap THEN Failed ELSE B
  BY Zenon DEF ota_heartbeat_json, Body
<1>2. /\ e \in Seq(C) /\ Plain(e) /\ Len(e) = Bounded(d, DetailCap) /\ Len(e) \in Nat
      /\ r \in Seq(C) /\ Plain(r) /\ Len(r) = Bounded(rv, VersionCap) /\ Len(r) \in Nat
  BY Sanitised, WidthsAssumption
<1>3. R \in Seq(C) /\ Len(R) = RevertedSize(rv) /\ Len(R) \in Nat
      /\ (rv # <<>> => RevertedText(R, r))
  <2>1. CASE rv = <<>>
    <3>1. R = <<>> /\ RevertedSize(rv) = 0
      BY <2>1, Zenon DEF RevertedSize
    <3>2. <<>> \in Seq(C) /\ Len(<<>>) = 0
      OBVIOUS
    <3> QED BY <2>1, <3>1, <3>2
  <2>2. CASE rv # <<>>
    <3> DEFINE b == <<",">>
               F == StringField("r", r)
    <3>1. "," \in C /\ "r" \in C
      BY DEF Charset, Syntax, BeatChars
    <3>2. F \in Seq(C) /\ Len(F) = Len(r) + 6
      BY <1>2, <3>1, FieldText, Zenon
    <3>3. b \in Seq(C) /\ Len(b) = 1
      BY <3>1, Spelling1, Zenon DEF Spells1
    <3>4. R = b \o F /\ RevertedText(R, r) /\ RevertedSize(rv) = 7 + Len(r)
      BY <1>2, <2>2, Zenon DEF RevertedSize, RevertedText
    <3> HIDE DEF b, F, R, r
    <3>5. R \in Seq(C) /\ Len(R) = Len(b) + Len(F)
      BY <3>2, <3>3, <3>4, JoinText
    <3>6. Len(R) = 7 + Len(r) /\ Len(R) \in Nat
      <4> DEFINE x1 == Len(r)
                 x2 == Len(F)
                 x3 == Len(R)
      <4>1. x1 \in Nat /\ x2 = x1 + 6 /\ x3 = 1 + x2
        BY <1>2, <3>2, <3>3, <3>5
      <4> HIDE DEF x1, x2, x3
      <4>2. x3 = 7 + x1 /\ x3 \in Nat
        BY <4>1
      <4> QED BY <4>2 DEF x1, x3
    <3> QED BY <3>4, <3>5, <3>6, Zenon
  <2> QED BY <2>1, <2>2, Zenon
<1>4. CounterText(N, C, n) /\ ProbeText(P, C, h)
  <2>1. /\ Quote \in C /\ "{" \in C /\ ":" \in C /\ "," \in C
        /\ "n" \in C /\ "p" \in C /\ "h" \in C
    BY DEF Charset, Syntax, BeatChars
  <2>2. Spells6(N, C, ",", Quote, "n", Quote, ":", n)
    BY <2>1, Spelling, Zenon
  <2>3. Spells12(P, C, ",", Quote, "p", Quote, ":", "{", Quote, "h", Quote, ":", h, ",")
    BY <2>1, Spelling12, Zenon
  <2> QED BY <2>2, <2>3, Zenon DEF CounterText, ProbeText
<1> HIDE DEF r, R, e, B
<1>5. Beat(C, B, av, vv, e, R, q, x, N, P)
  BY <1>2, <1>3, BeatLayout, Zenon DEF B
<1> HIDE DEF N, P
<1>6. Len(B) = size
  <2>1. Len(B) = x + 20 + Len(e)
    BY <1>5, Zenon DEF Beat
  <2>2. Len(av) \in Nat /\ Len(vv) \in Nat
    OBVIOUS
  <2> DEFINE x1 == Len(av)
             x2 == Len(vv)
             x3 == Len(R)
             x4 == Len(e)
             x5 == Bounded(d, DetailCap)
             x6 == RevertedSize(rv)
  <2>3. /\ x1 \in Nat /\ x2 \in Nat /\ x3 \in Nat /\ x4 \in Nat /\ x4 = x5 /\ x3 = x6
    BY <1>2, <1>3, <2>2
  <2> HIDE DEF x1, x2, x3, x4, x5, x6
  <2> QED BY <2>1, <2>3 DEF x1, x2, x3, x4, x5, x6
<1> HIDE DEF q, x
<1>7. json_extract_string(B, <<"a">>, Len(B)) = av /\ json_extract_string(B, <<"v">>, Len(B)) = vv
  BY <1>2, <1>3, <1>4, <1>5, BeatHead, Zenon
<1>8. /\ json_extract_string(B, <<"d">>, Len(B)) = e
      /\ json_extract_string(B, <<"r">>, Len(B)) = IF rv = <<>> THEN Failed ELSE r
  <2>1. CASE rv = <<>>
    <3>0. R = <<>>
      BY <2>1, Zenon DEF R
    <3>1. NothingReverted(R)
      BY <3>0 DEF NothingReverted
    <3>2. /\ json_extract_string(B, <<"d">>, Len(B)) = e
          /\ json_extract_string(B, <<"r">>, Len(B)) = Failed
      <4>1. e \in Seq(C) /\ R \in Seq(C)
        BY <1>2, <1>3, Zenon
      <4> QED BY <1>4, <1>5, <3>1, <4>1, BeatPlain
    <3> QED BY <2>1, <3>2, Zenon
  <2>2. CASE rv # <<>>
    <3>1. RevertedText(R, r)
      BY <1>3, <2>2, Zenon
    <3>2. /\ json_extract_string(B, <<"d">>, Len(B)) = e
          /\ json_extract_string(B, <<"r">>, Len(B)) = r
      BY <1>2, <1>3, <1>4, <1>5, <3>1, BeatReverted, Zenon
    <3> QED BY <2>2, <3>2, Zenon
  <2> QED BY <2>1, <2>2, Zenon
<1> QED BY <1>1, <1>6, <1>7, <1>8, Zenon DEF r, e

\* The characters of the heartbeats.
ReportChars == Syntax \cup BeatChars \cup {"\n", "ESC", "x", "m", "1", ".", "0", "7", "true"}

\* They are characters of a text, and those the heartbeat needs are among them.
LEMMA ReportCharsAreText == Charset(ReportChars) /\ BeatChars \subseteq ReportChars
BY DEF Charset, ReportChars, Syntax, BeatChars, NUL, Quote, Backslash

\* A text of eight characters.
LEMMA TextOf8 ==
  ASSUME NEW C, NEW a \in C, NEW b \in C, NEW c \in C, NEW d \in C, NEW e \in C, NEW f \in C,
         NEW g \in C, NEW h \in C
  PROVE  <<a, b, c, d, e, f, g, h>> \in Seq(C)
OBVIOUS

\* The characters of the details and of the reverted versions.
DetailChars == {Quote, Backslash, "\n", "ESC", "x", ",", "r", ":"}

\* The detail that looks like a member is one of them.
LEMMA LikeAMemberText == LikeAMember \in Seq(DetailChars)
<1>1. Quote \in DetailChars /\ "," \in DetailChars /\ "r" \in DetailChars /\ ":" \in DetailChars
      /\ "x" \in DetailChars
  BY DEF DetailChars
<1> QED BY <1>1, TextOf8, Zenon DEF LikeAMember

\* The details and the reverted versions of the model are texts of these characters.
LEMMA BeatInputs ==
  ASSUME NEW c \in Beats
  PROVE  c.detail \in Seq(DetailChars) /\ c.reverted \in Seq(DetailChars) /\ c.cap \in Nat
<1>1. /\ c.detail \in UpTo(2, {Quote, Backslash, "\n", "ESC", "x"}) \cup {LikeAMember}
      /\ c.reverted \in UpTo(2, {Quote, Backslash, "x"}) \cup {LikeAMember}
      /\ c.cap \in BeatCaps
  BY DEF Beats
<1>2. {Quote, Backslash, "\n", "ESC", "x"} \subseteq DetailChars /\ {Quote, Backslash, "x"} \subseteq DetailChars
  BY DEF DetailChars
<1>3. c.detail \in Seq(DetailChars)
  <2>1. CASE c.detail = LikeAMember
    BY <2>1, LikeAMemberText, Zenon
  <2>2. CASE c.detail \in UpTo(2, {Quote, Backslash, "\n", "ESC", "x"})
    <3>1. c.detail \in Seq({Quote, Backslash, "\n", "ESC", "x"})
      BY <2>2, UpToText
    <3> QED BY <1>2, <3>1, WiderText, Zenon
  <2> QED BY <1>1, <2>1, <2>2, Zenon
<1>4. c.reverted \in Seq(DetailChars)
  <2>1. CASE c.reverted = LikeAMember
    BY <2>1, LikeAMemberText, Zenon
  <2>2. CASE c.reverted \in UpTo(2, {Quote, Backslash, "x"})
    <3>1. c.reverted \in Seq({Quote, Backslash, "x"})
      BY <2>2, UpToText
    <3> QED BY <1>2, <3>1, WiderText, Zenon
  <2> QED BY <1>1, <2>1, <2>2, Zenon
<1> QED BY <1>1, <1>3, <1>4, CapsAssumption

\* What sanitise does to them, character by character.
LEMMA SanitisedDetail ==
  ASSUME NEW cap \in Nat \ {0}, NEW s \in Seq(DetailChars)
  PROVE  /\ Len(sanitise(cap, s)) = IF Len(s) < cap THEN Len(s) ELSE cap - 1
         /\ \A j \in DOMAIN sanitise(cap, s) :
              sanitise(cap, s)[j] = IF s[j] \in {Quote, Backslash, "\n", "ESC"} THEN " " ELSE s[j]
<1> DEFINE n == Bounded(s, cap)
           v(c) == IF c \in Unsafe THEN " " ELSE c
           w == [i \in 1..n |-> v(s[i])]
<1>1. n \in Nat /\ n <= Len(s)
  BY DEF Bounded
<1>2. sanitise(cap, s) = w
  BY DEF sanitise, Bounded
<1>3. ASSUME NEW c \in DetailChars
      PROVE  v(c) = IF c \in {Quote, Backslash, "\n", "ESC"} THEN " " ELSE c
  BY DEF DetailChars, Unsafe, Quote, Backslash
<1> HIDE DEF n, v
<1>4. \A i \in 1..n : s[i] \in DetailChars
  BY <1>1
<1>5. Len(w) = n /\ DOMAIN w = 1..n /\ \A i \in 1..n : w[i] = v(s[i])
  BY <1>1
<1>6. n = IF Len(s) < cap THEN Len(s) ELSE cap - 1
  BY DEF n, Bounded
<1> HIDE DEF w
<1> QED BY <1>2, <1>3, <1>4, <1>5, <1>6, Zenon

\* The versions of the model's heartbeats.
LEMMA ReportedVersions ==
  /\ <<"m">> \in Seq(ReportChars) /\ Len(<<"m">>) = 1 /\ Plain(<<"m">>)
  /\ <<"1", ".", "0">> \in Seq(ReportChars) /\ Len(<<"1", ".", "0">>) = 3 /\ Plain(<<"1", ".", "0">>)
  /\ "7" \in ReportChars /\ "7" # Quote /\ "true" \in ReportChars /\ "true" # Quote
<1>1. /\ "m" \in ReportChars /\ "1" \in ReportChars /\ "." \in ReportChars /\ "0" \in ReportChars
      /\ "7" \in ReportChars /\ "7" # Quote /\ "true" \in ReportChars /\ "true" # Quote
      /\ {"m", "1", ".", "0"} \cap Special = {}
  BY DEF ReportChars, Special, Quote, Backslash
<1>2. ASSUME NEW C, NEW a \in C, NEW b \in C, NEW c \in C, {a, b, c} \cap Special = {}
      PROVE  /\ <<a>> \in Seq(C) /\ Len(<<a>>) = 1 /\ Plain(<<a>>)
             /\ <<a, b, c>> \in Seq(C) /\ Len(<<a, b, c>>) = 3 /\ Plain(<<a, b, c>>)
  <2>1. <<a>> \in Seq(C) /\ Len(<<a>>) = 1
    OBVIOUS
  <2>2. <<a, b, c>> \in Seq(C) /\ Len(<<a, b, c>>) = 3
    OBVIOUS
  <2>3. a \notin Special /\ b \notin Special /\ c \notin Special
    BY <1>2
  <2>4. Plain(<<a>>)
    BY <2>3 DEF Plain
  <2>5. Plain(<<a, b, c>>)
    BY <2>3 DEF Plain
  <2> QED BY <2>1, <2>2, <2>4, <2>5
<1>3. <<"m">> \in Seq(ReportChars) /\ Len(<<"m">>) = 1 /\ Plain(<<"m">>)
  <2>1. {"m", "m", "m"} \cap Special = {}
    BY <1>1
  <2> QED BY <1>1, <1>2, <2>1, Zenon
<1>4. /\ <<"1", ".", "0">> \in Seq(ReportChars) /\ Len(<<"1", ".", "0">>) = 3
      /\ Plain(<<"1", ".", "0">>)
  <2>1. {"1", ".", "0"} \cap Special = {}
    BY <1>1
  <2> QED BY <1>1, <1>2, <2>1, Zenon
<1> QED BY <1>1, <1>3, <1>4, Zenon

\* HeartbeatReadsBack holds for every size of the device's buffers.
THEOREM HeartbeatReadsBackHolds == Spec => []HeartbeatReadsBack
<1>1. CallInv => HeartbeatReadsBack
  <2> SUFFICES ASSUME CallInv, call.op = "beat" PROVE HeartbeatReadsBack
    BY DEF HeartbeatReadsBack
  <2> DEFINE d == call.detail
             rv == call.reverted
             cap == call.cap
             av == <<"m">>
             vv == <<"1", ".", "0">>
             size == 40 + Len(av) + Len(vv) + Bounded(d, DetailCap) + RevertedSize(rv)
  <2>1. /\ d \in Seq(DetailChars) /\ rv \in Seq(DetailChars) /\ cap \in Nat
        /\ result = ota_heartbeat_json(cap, av, vv, "7", "true", d, rv)
    BY BeatInputs DEF CallInv, BeatCalled
  <2>2. d \in Seq(ReportChars) /\ rv \in Seq(ReportChars)
    <3>1. DetailChars \subseteq ReportChars
      BY DEF DetailChars, ReportChars, Syntax
    <3> QED BY <2>1, <3>1, WiderText, Zenon
  <2> HIDE DEF d, rv, cap
  <2>3. IF size >= cap THEN result = Failed
        ELSE /\ Len(result) = size
             /\ Read(<<"a">>) = av /\ Read(<<"v">>) = vv /\ Read(<<"d">>) = sanitise(DetailCap, d)
             /\ Read(<<"r">>) = IF rv = <<>> THEN Failed ELSE sanitise(VersionCap, rv)
    <3> DEFINE n == "7"
               h == "true"
               C == ReportChars
    <3>1. /\ av \in Seq(C) /\ Plain(av) /\ vv \in Seq(C) /\ Plain(vv)
          /\ n \in C /\ n # Quote /\ h \in C /\ h # Quote
      BY ReportedVersions, Zenon
    <3>2. result = ota_heartbeat_json(cap, av, vv, n, h, d, rv)
      BY <2>1, Zenon
    <3> HIDE DEF n, h, C, av, vv
    <3>3. Charset(C) /\ BeatChars \subseteq C /\ d \in Seq(C) /\ rv \in Seq(C)
      BY <2>2, ReportCharsAreText, Zenon DEF C
    <3>4. size = 40 + Len(av) + Len(vv) + Bounded(d, DetailCap) + RevertedSize(rv) /\ cap \in Nat
      BY <2>1, Zenon
    <3> HIDE DEF size
    <3>5. IF size >= cap THEN result = Failed
          ELSE /\ Len(result) = size
               /\ json_extract_string(result, <<"a">>, Len(result)) = av
               /\ json_extract_string(result, <<"v">>, Len(result)) = vv
               /\ json_extract_string(result, <<"d">>, Len(result)) = sanitise(DetailCap, d)
               /\ json_extract_string(result, <<"r">>, Len(result)) =
                    IF rv = <<>> THEN Failed ELSE sanitise(VersionCap, rv)
      BY <3>1, <3>2, <3>3, <3>4, HeartbeatReadsAnyText
    <3> QED BY <3>5, Zenon DEF Read
  <2>4. size = 44 + Bounded(d, DetailCap) + RevertedSize(rv)
    <3>1. Bounded(d, DetailCap) \in Int /\ RevertedSize(rv) \in Int
      BY <2>1, WidthsAssumption DEF Bounded, RevertedSize
    <3>2. Len(av) = 1 /\ Len(vv) = 3
      BY ReportedVersions, Zenon
    <3> HIDE DEF av, vv
    <3> QED BY <3>1, <3>2
  <2> HIDE DEF size
  <2>5. DetailCap \in Nat \ {0} /\ VersionCap \in Nat \ {0}
    BY WidthsAssumption
  <2>6. /\ Len(sanitise(DetailCap, d)) = IF Len(d) < DetailCap THEN Len(d) ELSE DetailCap - 1
        /\ \A j \in DOMAIN sanitise(DetailCap, d) :
             sanitise(DetailCap, d)[j] = IF d[j] \in {Quote, Backslash, "\n", "ESC"} THEN " " ELSE d[j]
    BY <2>1, <2>5, SanitisedDetail, Zenon
  <2>7. /\ Len(sanitise(VersionCap, rv)) = IF Len(rv) < VersionCap THEN Len(rv) ELSE VersionCap - 1
        /\ \A j \in DOMAIN sanitise(VersionCap, rv) :
             sanitise(VersionCap, rv)[j] = IF rv[j] \in {Quote, Backslash, "\n", "ESC"} THEN " " ELSE rv[j]
    BY <2>1, <2>5, SanitisedDetail, Zenon
  <2>8. CASE size >= cap
    BY <2>3, <2>4, <2>8, Zenon DEF HeartbeatReadsBack, Bounded, RevertedSize, d, rv, cap
  <2>9. CASE ~(size >= cap)
    <3>1. Len(result) = size /\ Read(<<"a">>) = av /\ Read(<<"v">>) = vv
      BY <2>3, <2>9, Zenon
    <3>2. Read(<<"d">>) = sanitise(DetailCap, d)
      BY <2>3, <2>9, Zenon
    <3>3. Read(<<"r">>) = IF rv = <<>> THEN Failed ELSE sanitise(VersionCap, rv)
      BY <2>3, <2>9, Zenon
    <3>4. /\ Len(Read(<<"d">>)) = IF Len(d) < DetailCap THEN Len(d) ELSE DetailCap - 1
          /\ \A j \in DOMAIN Read(<<"d">>) :
               Read(<<"d">>)[j] = IF d[j] \in {Quote, Backslash, "\n", "ESC"} THEN " " ELSE d[j]
      BY <2>6, <3>2, Zenon
    <3>5. IF rv = <<>> THEN Read(<<"r">>) = Failed
          ELSE /\ Len(Read(<<"r">>)) = IF Len(rv) < VersionCap THEN Len(rv) ELSE VersionCap - 1
               /\ \A j \in DOMAIN Read(<<"r">>) :
                    Read(<<"r">>)[j] = IF rv[j] \in {Quote, Backslash, "\n", "ESC"} THEN " " ELSE rv[j]
      BY <2>7, <3>3, Zenon
    <3> QED BY <2>4, <2>9, <3>1, <3>4, <3>5, Zenon
            DEF HeartbeatReadsBack, Bounded, RevertedSize, d, rv, cap
  <2> QED BY <2>8, <2>9
<1> QED BY <1>1, CallInvariant, PTL

-----------------------------------------------------------------------------
(* Numbers: parse_u64.                                                     *)

\* The value of a digit.
LEMMA DigitValue ==
  /\ \A d \in 1..10 : IsDigit(Digits[d]) /\ digit(Digits[d]) = d - 1
  /\ \A c : IsDigit(c) => digit(c) \in 0..9
<1>1. ASSUME NEW d \in 1..10, NEW e \in 1..10, Digits[d] = Digits[e] PROVE d = e
  <2>1. d \in {1, 2, 3, 4, 5, 6, 7, 8, 9, 10} /\ e \in {1, 2, 3, 4, 5, 6, 7, 8, 9, 10}
    OBVIOUS
  <2> QED BY <1>1, <2>1 DEF Digits
<1>2. ASSUME NEW d \in 1..10 PROVE IsDigit(Digits[d]) /\ digit(Digits[d]) = d - 1
  <2> HIDE DEF Digits
  <2>1. (CHOOSE e \in 1..10 : Digits[e] = Digits[d]) = d
    BY <1>1
  <2> QED BY <2>1 DEF IsDigit, digit
<1>3. ASSUME NEW c, IsDigit(c) PROVE digit(c) \in 0..9
  <2>1. PICK d \in 1..10 : Digits[d] = c
    BY <1>3 DEF IsDigit
  <2>2. digit(c) = d - 1
    BY <1>2, <2>1
  <2> QED BY <2>2
<1> QED BY <1>2, <1>3

\* Where a number of n digits from i on ends.
LEMMA EndOfDigits ==
  ASSUME NEW C, NEW J \in Seq(C), NEW i \in Nat \ {0}, NEW m \in i..(Len(J) + 1),
         \A k \in i..(m - 1) : IsDigit(J[k]), m = Len(J) + 1 \/ ~IsDigit(J[m])
  PROVE  FirstFrom(J, i, LAMBDA c : ~IsDigit(c)) = m
<1> DEFINE Is(j) == /\ j > Len(J) \/ ~IsDigit(J[j])
                    /\ \A k \in i..(j - 1) : k <= Len(J) /\ ~(~IsDigit(J[k]))
<1>0. Len(J) \in Nat
  OBVIOUS
<1>1. m \in i..(i + Len(J)) /\ Is(m)
  BY <1>0
<1>2. ASSUME NEW j \in i..(i + Len(J)), Is(j) PROVE j = m
  <2>1. CASE j > m
    <3>1. m \in i..(j - 1)
      BY <2>1
    <3> QED BY <1>0, <1>2, <3>1
  <2>2. CASE j < m
    <3>1. j \in i..(m - 1) /\ j <= Len(J)
      BY <1>0, <2>2
    <3> QED BY <1>0, <1>2, <3>1
  <2> QED BY <2>1, <2>2
<1>3. FirstFrom(J, i, LAMBDA c : ~IsDigit(c)) = CHOOSE j \in i..(i + Len(J)) : Is(j)
  BY DEF FirstFrom
<1> HIDE DEF Is
<1> QED BY <1>1, <1>2, <1>3

\* Where the blanks from i on end.
LEMMA EndOfBlanks ==
  ASSUME NEW C, NEW J \in Seq(C), NEW i \in Nat \ {0}, NEW m \in i..(Len(J) + 1),
         \A k \in i..(m - 1) : J[k] \in Blanks, m = Len(J) + 1 \/ J[m] \notin Blanks
  PROVE  SkipBlanks(J, i) = m
<1> DEFINE Is(j) == /\ j > Len(J) \/ J[j] \notin Blanks
                    /\ \A k \in i..(j - 1) : k <= Len(J) /\ ~(J[k] \notin Blanks)
<1>0. Len(J) \in Nat
  OBVIOUS
<1>1. m \in i..(i + Len(J)) /\ Is(m)
  BY <1>0
<1>2. ASSUME NEW j \in i..(i + Len(J)), Is(j) PROVE j = m
  <2>1. CASE j > m
    <3>1. m \in i..(j - 1)
      BY <2>1
    <3> QED BY <1>0, <1>2, <3>1
  <2>2. CASE j < m
    <3>1. j \in i..(m - 1) /\ j <= Len(J)
      BY <1>0, <2>2
    <3> QED BY <1>0, <1>2, <3>1
  <2> QED BY <2>1, <2>2
<1>3. SkipBlanks(J, i) = CHOOSE j \in i..(i + Len(J)) : Is(j)
  BY DEF SkipBlanks, FirstFrom
<1> HIDE DEF Is
<1> QED BY <1>1, <1>2, <1>3

\* Where the spaces behind the unit end.
Space == " "
SpacesEnd(J, i) == FirstFrom(J, i, LAMBDA c : c # " ")

\* SpacesEnd is the first place without a space.
LEMMA EndOfSpaces ==
  ASSUME NEW C, NEW J \in Seq(C), NEW i \in Nat \ {0}, NEW m \in i..(Len(J) + 1),
         \A k \in i..(m - 1) : J[k] = Space, m = Len(J) + 1 \/ J[m] # Space
  PROVE  SpacesEnd(J, i) = m
<1> DEFINE Is(j) == /\ j > Len(J) \/ J[j] # Space
                    /\ \A k \in i..(j - 1) : k <= Len(J) /\ ~(J[k] # Space)
<1>0. Len(J) \in Nat
  OBVIOUS
<1>1. m \in i..(i + Len(J)) /\ Is(m)
  BY <1>0
<1>2. ASSUME NEW j \in i..(i + Len(J)), Is(j) PROVE j = m
  <2>1. CASE j > m
    <3>1. m \in i..(j - 1)
      BY <2>1
    <3> QED BY <1>0, <1>2, <3>1
  <2>2. CASE j < m
    <3>1. j \in i..(m - 1) /\ j <= Len(J)
      BY <1>0, <2>2
    <3> QED BY <1>0, <1>2, <3>1
  <2> QED BY <2>1, <2>2
<1>3. SpacesEnd(J, i) = CHOOSE j \in i..(i + Len(J)) : Is(j)
  BY DEF SpacesEnd, FirstFrom, Space
<1> HIDE DEF Is
<1> QED BY <1>1, <1>2, <1>3

\* f[k] is what the loop of parse_u64 has in v after k of the n digits from i on.
Counts(f, J, i, n) ==
  /\ f \in [0..n -> Nat] /\ f[0] = 0
  /\ \A k \in 1..n : f[k] = (f[k - 1] * 10 + digit(J[i + k - 1])) % UINT64
  /\ number(J, i, n) = f[n]

\* The loop of parse_u64 goes through the digits one after the other.
LEMMA NumberLoop ==
  ASSUME NEW J, NEW i \in Nat, NEW n \in Nat, \A k \in 1..n : IsDigit(J[i + k - 1])
  PROVE  \E f : Counts(f, J, i, n)
<1> DEFINE c(k) == digit(J[i + k - 1])
           Loop(g) == g = [k \in 0..n |-> IF k = 0 THEN 0 ELSE (g[k - 1] * 10 + c(k)) % UINT64]
           step == [k \in Nat |-> [x \in Nat |-> IF k \in 1..n THEN (x * 10 + c(k)) % UINT64 ELSE 0]]
<1>0. UINT64 \in Nat /\ UINT64 > 0
  BY WidthsAssumption
<1>1. \A k \in 1..n : c(k) \in Nat
  <2>1. \A k \in 1..n : digit(J[i + k - 1]) \in 0..9
    BY DigitValue
  <2> QED BY <2>1
<1> HIDE DEF c
<1>2. \A x \in Nat, k \in 1..n : (x * 10 + c(k)) % UINT64 \in Nat
  BY <1>0, <1>1
<1>3. step \in [Nat -> [Nat -> Nat]]
  BY <1>2
<1>4. PICK f : Iterates(f, Nat, 0, step, n)
  <2>1. 0 \in Nat
    OBVIOUS
  <2> HIDE DEF step
  <2> QED BY <1>3, <2>1, Iteration
<1>5. f \in [0..n -> Nat] /\ f[0] = 0 /\ \A k \in 1..n : f[k] = step[k][f[k - 1]]
  BY <1>4 DEF Iterates
<1>6. \A k \in 1..n : f[k] = (f[k - 1] * 10 + c(k)) % UINT64
  <2> SUFFICES ASSUME NEW k \in 1..n PROVE f[k] = (f[k - 1] * 10 + c(k)) % UINT64
    OBVIOUS
  <2>1. f[k - 1] \in Nat /\ k \in Nat
    BY <1>5
  <2>2. step[k][f[k - 1]] = (f[k - 1] * 10 + c(k)) % UINT64
    BY <2>1
  <2> QED BY <1>5, <2>2
<1>7. Loop(f)
  <2> DEFINE h == [k \in 0..n |-> IF k = 0 THEN 0 ELSE (f[k - 1] * 10 + c(k)) % UINT64]
  <2>1. ASSUME NEW k \in 0..n PROVE f[k] = h[k]
    BY <1>5, <1>6
  <2> QED BY <1>5, <2>1
<1>8. ASSUME NEW g, Loop(g) PROVE g[n] = f[n]
  <2> DEFINE S == {k \in Nat : k <= n => g[k] = f[k]}
  <2>1. /\ g[0] = 0 /\ \A k \in 1..n : g[k] = (g[k - 1] * 10 + c(k)) % UINT64
    BY <1>8
  <2>2. 0 \in S
    BY <1>5, <2>1
  <2>3. ASSUME NEW k \in Nat, k \in S PROVE k + 1 \in S
    <3> SUFFICES ASSUME k + 1 <= n PROVE g[k + 1] = f[k + 1]
      OBVIOUS
    <3>1. g[k] = f[k] /\ k + 1 \in 1..n /\ (k + 1) - 1 = k
      BY <2>3
    <3> QED BY <1>6, <2>1, <3>1
  <2> HIDE DEF S
  <2>4. Nat \subseteq S
    BY <2>2, <2>3, Induction
  <2> QED BY <2>4 DEF S
<1>9. number(J, i, n) = (CHOOSE g : Loop(g))[n]
  BY DEF number, c
<1> HIDE DEF Loop
<1>10. number(J, i, n) = f[n]
  BY <1>7, <1>8, <1>9
<1>11. \A k \in 1..n : f[k] = (f[k - 1] * 10 + digit(J[i + k - 1])) % UINT64
  BY <1>6 DEF c
<1>12. Counts(f, J, i, n)
  BY <1>5, <1>10, <1>11 DEF Counts
<1> QED BY <1>12

\* The text D writes the number v in decimal.
IsDecimal(D, v) ==
  \E f : /\ f \in [0..Len(D) -> Nat] /\ f[0] = 0 /\ f[Len(D)] = v
         /\ \A k \in 1..Len(D) : f[k] = f[k - 1] * 10 + digit(D[k])
AllDigits(D) == \A k \in 1..Len(D) : IsDigit(D[k])

\* A number below 2^64 does not wrap.
LEMMA SmallRemainder ==
  ASSUME NEW x \in Nat, x < UINT64
  PROVE  x % UINT64 = x
BY WidthsAssumption

\* The loop of parse_u64 reads a number below 2^64 exactly.
LEMMA NumberExact ==
  ASSUME NEW C, NEW D \in Seq(C), AllDigits(D), NEW v, IsDecimal(D, v), v < UINT64
  PROVE  number(D, 1, Len(D)) = v
<1> DEFINE n == Len(D)
<1>0. n \in Nat /\ UINT64 \in Nat
  BY WidthsAssumption
<1>1. PICK f : /\ f \in [0..n -> Nat] /\ f[0] = 0 /\ f[n] = v
               /\ \A k \in 1..n : f[k] = f[k - 1] * 10 + digit(D[k])
  BY DEF IsDecimal
<1>2. \A k \in 1..n : D[1 + k - 1] = D[k] /\ IsDigit(D[k]) /\ digit(D[k]) \in 0..9
  <2>1. \A k \in 1..n : 1 + k - 1 = k
    BY <1>0
  <2> QED BY <2>1, DigitValue DEF AllDigits
<1>9. PICK h : Counts(h, D, 1, n)
  <2>1. 1 \in Nat
    OBVIOUS
  <2> HIDE DEF n
  <2> QED BY <1>0, <1>2, <2>1, NumberLoop
<1>3. /\ h \in [0..n -> Nat] /\ h[0] = 0
      /\ \A k \in 1..n : h[k] = (h[k - 1] * 10 + digit(D[1 + k - 1])) % UINT64
      /\ number(D, 1, n) = h[n]
  BY <1>9, Zenon DEF Counts
<1>4. \A k \in 1..n : h[k] = (h[k - 1] * 10 + digit(D[k])) % UINT64
  BY <1>2, <1>3
<1> HIDE DEF n
<1> DEFINE S == {k \in Nat : k <= n => f[n - k] <= f[n]}
           T == {k \in Nat : k <= n => h[k] = f[k]}
<1>5. Nat \subseteq S
  <2>1. 0 \in S
    BY <1>0, <1>1
  <2>2. ASSUME NEW k \in Nat, k \in S PROVE k + 1 \in S
    <3> SUFFICES ASSUME k + 1 <= n PROVE f[n - (k + 1)] <= f[n]
      OBVIOUS
    <3>1. f[n - k] <= f[n] /\ n - k \in 1..n /\ (n - k) - 1 = n - (k + 1)
          /\ n - (k + 1) \in 0..n /\ n - k \in 0..n /\ n \in 0..n
      BY <1>0, <2>2
    <3>2. f[n - k] = f[n - (k + 1)] * 10 + digit(D[n - k])
      BY <1>1, <3>1
    <3>3. digit(D[n - k]) \in 0..9
      BY <1>2, <3>1
    <3>4. f[n - k] \in Nat /\ f[n - (k + 1)] \in Nat /\ f[n] \in Nat
      BY <1>1, <3>1
    <3> DEFINE y == f[n - k]
               z == f[n - (k + 1)]
               w == f[n]
               c == digit(D[n - k])
    <3>5. y = z * 10 + c /\ c \in 0..9 /\ y \in Nat /\ z \in Nat /\ w \in Nat /\ y <= w
      BY <3>1, <3>2, <3>3, <3>4
    <3> HIDE DEF y, z, w, c
    <3>6. z <= w
      BY <3>5
    <3> QED BY <3>6 DEF z, w
  <2> HIDE DEF S
  <2> QED BY <2>1, <2>2, Induction
<1>6. \A k \in 0..n : f[k] < UINT64 /\ f[k] \in Nat
  <2> SUFFICES ASSUME NEW k \in 0..n PROVE f[k] < UINT64 /\ f[k] \in Nat
    OBVIOUS
  <2>1. n - k \in Nat /\ n - k <= n /\ n - (n - k) = k /\ n \in 0..n
    BY <1>0
  <2>2. n - k \in S
    BY <1>5, <2>1
  <2>3. f[n - (n - k)] <= f[n]
    BY <2>1, <2>2
  <2>4. f[k] <= f[n] /\ f[k] \in Nat /\ f[n] \in Nat
    BY <1>1, <2>1, <2>3
  <2> QED BY <1>0, <1>1, <2>4
<1>7. Nat \subseteq T
  <2>1. 0 \in T
    BY <1>1, <1>3
  <2>2. ASSUME NEW k \in Nat, k \in T PROVE k + 1 \in T
    <3> SUFFICES ASSUME k + 1 <= n PROVE h[k + 1] = f[k + 1]
      OBVIOUS
    <3>1. h[k] = f[k] /\ k + 1 \in 1..n /\ (k + 1) - 1 = k /\ k + 1 \in 0..n
      BY <1>0, <2>2
    <3>2. f[k + 1] = f[k] * 10 + digit(D[k + 1])
      BY <1>1, <3>1
    <3>3. h[k + 1] = f[k + 1] % UINT64
      BY <1>4, <3>1, <3>2
    <3>4. f[k + 1] \in Nat /\ f[k + 1] < UINT64
      BY <1>6, <3>1
    <3> QED BY <3>3, <3>4, SmallRemainder
  <2> HIDE DEF T
  <2> QED BY <2>1, <2>2, Induction
<1>8. h[n] = f[n]
  BY <1>0, <1>7
<1> QED BY <1>1, <1>3, <1>8 DEF n

\* A number is the same wherever it stands.
LEMMA NumberThere ==
  ASSUME NEW C, NEW J \in Seq(C), NEW D \in Seq(C), AllDigits(D), NEW p \in Nat, Stands(J, p, D)
  PROVE  number(J, p + 1, Len(D)) = number(D, 1, Len(D)) /\ number(D, 1, Len(D)) \in Nat
<1> DEFINE n == Len(D)
<1>0. n \in Nat /\ p + 1 \in Nat /\ 1 \in Nat
  OBVIOUS
<1>1. \A k \in 1..n : 1 + k - 1 = k /\ (p + 1) + k - 1 = p + k
  BY <1>0
<1>2. \A k \in 1..n : /\ D[1 + k - 1] = D[k] /\ J[(p + 1) + k - 1] = D[k] /\ IsDigit(D[k])
  BY <1>1 DEF AllDigits, Stands
<1> HIDE DEF n
<1>9. PICK h : Counts(h, D, 1, n)
  <2>1. \A k \in 1..n : IsDigit(D[1 + k - 1])
    BY <1>2
  <2> QED BY <1>0, <2>1, NumberLoop
<1>10. PICK g : Counts(g, J, p + 1, n)
  <2>1. \A k \in 1..n : IsDigit(J[(p + 1) + k - 1])
    BY <1>2
  <2> QED BY <1>0, <2>1, NumberLoop
<1>3. /\ h \in [0..n -> Nat] /\ h[0] = 0
      /\ \A k \in 1..n : h[k] = (h[k - 1] * 10 + digit(D[1 + k - 1])) % UINT64
      /\ number(D, 1, n) = h[n]
  BY <1>9, Zenon DEF Counts
<1>4. /\ g \in [0..n -> Nat] /\ g[0] = 0
      /\ \A k \in 1..n : g[k] = (g[k - 1] * 10 + digit(J[(p + 1) + k - 1])) % UINT64
      /\ number(J, p + 1, n) = g[n]
  BY <1>10, Zenon DEF Counts
<1> DEFINE T == {k \in Nat : k <= n => h[k] = g[k]}
<1>5. 0 \in T
  BY <1>3, <1>4
<1>6. ASSUME NEW k \in Nat, k \in T PROVE k + 1 \in T
  <2> SUFFICES ASSUME k + 1 <= n PROVE h[k + 1] = g[k + 1]
    OBVIOUS
  <2>1. h[k] = g[k] /\ k + 1 \in 1..n /\ (k + 1) - 1 = k
    BY <1>0, <1>6
  <2>2. D[1 + (k + 1) - 1] = J[(p + 1) + (k + 1) - 1]
    BY <1>2, <2>1
  <2>3. h[k + 1] = (h[k] * 10 + digit(D[1 + (k + 1) - 1])) % UINT64
    BY <1>3, <2>1
  <2>4. g[k + 1] = (g[k] * 10 + digit(J[(p + 1) + (k + 1) - 1])) % UINT64
    BY <1>4, <2>1
  <2> QED BY <2>1, <2>2, <2>3, <2>4
<1> HIDE DEF T
<1>7. Nat \subseteq T
  BY <1>5, <1>6, Induction
<1>8. h[n] = g[n] /\ h[n] \in Nat
  <2>1. n \in T /\ n <= n
    BY <1>0, <1>7
  <2> QED BY <1>0, <1>3, <2>1 DEF T
<1> QED BY <1>3, <1>4, <1>8 DEF n

\* Behind a number of J comes no further digit.
NoDigit(J, i) == i > Len(J) \/ ~IsDigit(J[i])

\* parse_u64 at a number: its value, where it ends, and whether it has a digit.
LEMMA ParseNumber ==
  ASSUME NEW C, NEW J \in Seq(C), NEW D \in Seq(C), AllDigits(D), NEW p \in Nat, Stands(J, p, D),
         NoDigit(J, p + Len(D) + 1)
  PROVE  /\ parse_u64(J, p + 1).v = number(D, 1, Len(D))
         /\ parse_u64(J, p + 1).i = p + Len(D) + 1
         /\ parse_u64(J, p + 1).ok = (Len(D) > 0)
<1> DEFINE m == p + Len(D) + 1
<1>0. Len(D) \in Nat /\ Len(J) \in Nat /\ p + Len(D) <= Len(J)
  BY DEF Stands
<1>1. /\ p + 1 \in Nat \ {0} /\ m \in (p + 1)..(Len(J) + 1)
      /\ \A k \in (p + 1)..(m - 1) : k - p \in 1..Len(D) /\ p + (k - p) = k
  BY <1>0
<1>2. \A k \in (p + 1)..(m - 1) : IsDigit(J[k])
  BY <1>1 DEF AllDigits, Stands
<1>3. m = Len(J) + 1 \/ ~IsDigit(J[m])
  BY <1>0 DEF NoDigit
<1> HIDE DEF m
<1>4. FirstFrom(J, p + 1, LAMBDA c : ~IsDigit(c)) = m
  BY <1>1, <1>2, <1>3, EndOfDigits
<1>5. m - (p + 1) = Len(D) /\ (m > p + 1 <=> Len(D) > 0)
  BY <1>0 DEF m
<1>6. parse_u64(J, p + 1) = [v |-> number(J, p + 1, m - (p + 1)), i |-> m, ok |-> m > p + 1]
  BY <1>4 DEF parse_u64
<1>7. parse_u64(J, p + 1) = [v |-> number(D, 1, Len(D)), i |-> m, ok |-> Len(D) > 0]
  BY <1>5, <1>6, NumberThere
<1> QED BY <1>7 DEF m

-----------------------------------------------------------------------------
(* The Content-Range header.                                               *)

\* A Content-Range header: its parts and where they stand.
InOrder(J, a, b, c, d, e, f, g, h, i) == J = a \o b \o c \o d \o e \o f \o g \o h \o i
Places(J, a, b, c, d, e, f, g, h, i) ==
  LET p2 == Len(a)
      p3 == p2 + Len(b)
      p4 == p3 + Len(c)
      p5 == p4 + Len(d)
      p6 == p5 + Len(e)
      p7 == p6 + Len(f)
      p8 == p7 + Len(g)
      p9 == p8 + Len(h)
  IN /\ Stands(J, 0, a) /\ Stands(J, p2, b) /\ Stands(J, p3, c) /\ Stands(J, p4, d)
     /\ Stands(J, p5, e) /\ Stands(J, p6, f) /\ Stands(J, p7, g) /\ Stands(J, p8, h)
     /\ Stands(J, p9, i) /\ Len(J) = p9 + Len(i)

\* Of a text at the start of J the first part stands at the start and the second
\* behind it.
LEMMA StandsFirstPart ==
  ASSUME NEW C, NEW J \in Seq(C), NEW u \in Seq(C), NEW v \in Seq(C), Stands(J, 0, u \o v)
  PROVE  Stands(J, 0, u) /\ Stands(J, Len(u), v)
<1>1. Stands(J, 0, u) /\ Stands(J, 0 + Len(u), v)
  <2>1. 0 \in Nat
    OBVIOUS
  <2> QED BY <2>1, StandsSplit
<1>2. 0 + Len(u) = Len(u)
  OBVIOUS
<1> QED BY <1>1, <1>2

\* Nine parts written one behind the other stand at these places.
LEMMA PartsInOrder ==
  ASSUME NEW C, NEW a \in Seq(C), NEW b \in Seq(C), NEW c \in Seq(C), NEW d \in Seq(C),
         NEW e \in Seq(C), NEW f \in Seq(C), NEW g \in Seq(C), NEW h \in Seq(C), NEW i \in Seq(C),
         NEW J, InOrder(J, a, b, c, d, e, f, g, h, i)
  PROVE  J \in Seq(C) /\ Places(J, a, b, c, d, e, f, g, h, i)
<1> DEFINE j2 == a \o b
           j3 == j2 \o c
           j4 == j3 \o d
           j5 == j4 \o e
           j6 == j5 \o f
           j7 == j6 \o g
           j8 == j7 \o h
<1>1. J = j8 \o i
  BY DEF InOrder
<1>2. j2 \in Seq(C) /\ Len(j2) = Len(a) + Len(b) /\ Len(a) \in Nat /\ Len(b) \in Nat
  BY JoinText
<1> HIDE DEF j2
<1>3. j3 \in Seq(C) /\ Len(j3) = Len(j2) + Len(c) /\ Len(c) \in Nat
  BY <1>2, JoinText
<1> HIDE DEF j3
<1>4. j4 \in Seq(C) /\ Len(j4) = Len(j3) + Len(d) /\ Len(d) \in Nat
  BY <1>3, JoinText
<1> HIDE DEF j4
<1>5. j5 \in Seq(C) /\ Len(j5) = Len(j4) + Len(e) /\ Len(e) \in Nat
  BY <1>4, JoinText
<1> HIDE DEF j5
<1>6. j6 \in Seq(C) /\ Len(j6) = Len(j5) + Len(f) /\ Len(f) \in Nat
  BY <1>5, JoinText
<1> HIDE DEF j6
<1>7. j7 \in Seq(C) /\ Len(j7) = Len(j6) + Len(g) /\ Len(g) \in Nat
  BY <1>6, JoinText
<1> HIDE DEF j7
<1>8. j8 \in Seq(C) /\ Len(j8) = Len(j7) + Len(h) /\ Len(h) \in Nat
  BY <1>7, JoinText
<1> HIDE DEF j8
<1>9. J \in Seq(C) /\ Len(J) = Len(j8) + Len(i) /\ Len(i) \in Nat
  BY <1>1, <1>8, JoinText
<1>10. Stands(J, 0, j8) /\ Stands(J, Len(j8), i)
  BY <1>1, <1>8, <1>9, StandsWhole, StandsFirstPart
<1>11. Stands(J, 0, j7) /\ Stands(J, Len(j7), h)
  BY <1>7, <1>9, <1>10, StandsFirstPart DEF j8
<1>12. Stands(J, 0, j6) /\ Stands(J, Len(j6), g)
  BY <1>6, <1>9, <1>11, StandsFirstPart DEF j7
<1>13. Stands(J, 0, j5) /\ Stands(J, Len(j5), f)
  BY <1>5, <1>9, <1>12, StandsFirstPart DEF j6
<1>14. Stands(J, 0, j4) /\ Stands(J, Len(j4), e)
  BY <1>4, <1>9, <1>13, StandsFirstPart DEF j5
<1>15. Stands(J, 0, j3) /\ Stands(J, Len(j3), d)
  BY <1>3, <1>9, <1>14, StandsFirstPart DEF j4
<1>16. Stands(J, 0, j2) /\ Stands(J, Len(j2), c)
  BY <1>2, <1>9, <1>15, StandsFirstPart DEF j3
<1>17. Stands(J, 0, a) /\ Stands(J, Len(a), b)
  BY <1>9, <1>16, StandsFirstPart DEF j2
<1> QED BY <1>2, <1>3, <1>4, <1>5, <1>6, <1>7, <1>8, <1>9, <1>10, <1>11, <1>12, <1>13, <1>14,
           <1>15, <1>16, <1>17, Zenon DEF Places

\* No digit is a space.
LEMMA DigitNoSpace == ~IsDigit(Space)
<1> SUFFICES ASSUME NEW d \in 1..10, Digits[d] = Space PROVE FALSE
  BY DEF IsDigit
<1>1. d \in {1, 2, 3, 4, 5, 6, 7, 8, 9, 10}
  OBVIOUS
<1>2. /\ Digits[1] # " " /\ Digits[2] # " " /\ Digits[3] # " " /\ Digits[4] # " " /\ Digits[5] # " "
      /\ Digits[6] # " " /\ Digits[7] # " " /\ Digits[8] # " " /\ Digits[9] # " " /\ Digits[10] # " "
  BY DEF Digits
<1>3. /\ Digits[1] # Space /\ Digits[2] # Space /\ Digits[3] # Space /\ Digits[4] # Space
      /\ Digits[5] # Space /\ Digits[6] # Space /\ Digits[7] # Space /\ Digits[8] # Space
      /\ Digits[9] # Space /\ Digits[10] # Space
  BY <1>2, Zenon DEF Space
<1> QED BY <1>1, <1>3

\* The characters of a Content-Range header around its numbers.
Framed(lead, u, gap, x, y, rest) ==
  /\ \A k \in 1..Len(lead) : lead[k] \in Blanks
  /\ u \notin Blanks
  /\ \A k \in 1..Len(gap) : gap[k] = Space
  /\ ~IsDigit(x) /\ x # Space /\ ~IsDigit(y) /\ NoDigit(rest, 1)

\* The values ota_parse_content_range works with.
Ranged(J, unit, s, e, t) ==
  /\ unit = SkipBlanks(J, 1)
  /\ s = parse_u64(J, SpacesEnd(J, unit + 1))
  /\ e = parse_u64(J, s.i + 1)
  /\ t = parse_u64(J, e.i + 1)

\* A header J made of these parts, with numbers of any length.
Header(C, J, lead, u, gap, ds, x, de, y, dt, rest) ==
  /\ lead \in Seq(C) /\ u \in C /\ gap \in Seq(C) /\ ds \in Seq(C) /\ x \in C
  /\ de \in Seq(C) /\ y \in C /\ dt \in Seq(C) /\ rest \in Seq(C)
  /\ Framed(lead, u, gap, x, y, rest) /\ AllDigits(ds) /\ AllDigits(de) /\ AllDigits(dt)
  /\ InOrder(J, lead, <<u>>, gap, ds, <<x>>, de, <<y>>, dt, rest)

\* Each part was found where it stands.
Found(J, unit, s, e, t, u, ds, x, de, y, dt) ==
  /\ At(J, unit) = u /\ At(J, s.i) = x /\ At(J, e.i) = y
  /\ s.v = number(ds, 1, Len(ds)) /\ s.ok = (Len(ds) > 0)
  /\ e.v = number(de, 1, Len(de)) /\ e.ok = (Len(de) > 0)
  /\ t.v = number(dt, 1, Len(dt)) /\ t.ok = (Len(dt) > 0)

\* What ota_parse_content_range meets on its way, whatever the numbers are.
LEMMA RangeWalk ==
  ASSUME NEW C, NEW J, NEW lead, NEW u, NEW gap, NEW ds, NEW x, NEW de, NEW y, NEW dt, NEW rest,
         Header(C, J, lead, u, gap, ds, x, de, y, dt, rest),
         NEW unit, NEW s, NEW e, NEW t, Ranged(J, unit, s, e, t)
  PROVE  Found(J, unit, s, e, t, u, ds, x, de, y, dt)
<1> SUFFICES ASSUME lead \in Seq(C), u \in C, gap \in Seq(C), ds \in Seq(C), x \in C,
                    de \in Seq(C), y \in C, dt \in Seq(C), rest \in Seq(C),
                    Framed(lead, u, gap, x, y, rest), AllDigits(ds), AllDigits(de), AllDigits(dt),
                    InOrder(J, lead, <<u>>, gap, ds, <<x>>, de, <<y>>, dt, rest)
             PROVE  /\ At(J, unit) = u /\ At(J, s.i) = x /\ At(J, e.i) = y
                    /\ s.v = number(ds, 1, Len(ds)) /\ s.ok = (Len(ds) > 0)
                    /\ e.v = number(de, 1, Len(de)) /\ e.ok = (Len(de) > 0)
                    /\ t.v = number(dt, 1, Len(dt)) /\ t.ok = (Len(dt) > 0)
  BY Zenon DEF Header, Found
<1> DEFINE ll == Len(lead)
           lg == Len(gap)
           ls == Len(ds)
           le == Len(de)
           lt == Len(dt)
           U == <<u>>
           X == <<x>>
           Y == <<y>>
           p0 == ll + 1 + lg
           p1 == p0 + ls + 1
           p2 == p1 + le + 1
<1>1. /\ U \in Seq(C) /\ Len(U) = 1 /\ U[1] = u /\ X \in Seq(C) /\ Len(X) = 1 /\ X[1] = x
      /\ Y \in Seq(C) /\ Len(Y) = 1 /\ Y[1] = y
  OBVIOUS
<1>2. ll \in Nat /\ lg \in Nat /\ ls \in Nat /\ le \in Nat /\ lt \in Nat /\ Len(rest) \in Nat
  OBVIOUS
<1>3. J \in Seq(C) /\ Places(J, lead, U, gap, ds, X, de, Y, dt, rest)
  <2> HIDE DEF U, X, Y
  <2>1. InOrder(J, lead, U, gap, ds, X, de, Y, dt, rest)
    BY DEF U, X, Y
  <2> QED BY <1>1, <2>1, PartsInOrder
<1> HIDE DEF U, X, Y
<1>4. /\ Stands(J, 0, lead) /\ Stands(J, ll, U) /\ Stands(J, ll + 1, gap) /\ Stands(J, p0, ds)
      /\ Stands(J, p0 + ls, X) /\ Stands(J, p1, de) /\ Stands(J, p1 + le, Y) /\ Stands(J, p2, dt)
      /\ Stands(J, p2 + lt, rest) /\ Len(J) = p2 + lt + Len(rest)
  BY <1>1, <1>3, Zenon DEF Places
<1> HIDE DEF ll, lg, ls, le, lt
<1>5. /\ \A k \in 1..ll : J[k] \in Blanks
      /\ \A k \in 1..lg : J[ll + 1 + k] = Space
  <2>1. \A k \in 1..ll : J[0 + k] \in Blanks
    BY <1>4 DEF Stands, Framed, ll
  <2>2. \A k \in 1..ll : 0 + k = k
    BY <1>2
  <2>3. \A k \in 1..lg : J[ll + 1 + k] = gap[k] /\ gap[k] = Space
    BY <1>4, Zenon DEF Stands, Framed, lg
  <2>4. \A k \in 1..ll : J[k] \in Blanks
    BY <2>1, <2>2
  <2> QED BY <2>3, <2>4, Zenon
<1>6. /\ J[ll + 1] = u /\ J[p0 + ls + 1] = x /\ J[p1 + le + 1] = y
  <2>1. 1 \in 1..Len(U) /\ 1 \in 1..Len(X) /\ 1 \in 1..Len(Y)
    BY <1>1
  <2> HIDE DEF p0, p1
  <2> QED BY <1>1, <1>4, <2>1 DEF Stands
<1>7. /\ p0 \in Nat /\ p1 \in Nat /\ p2 \in Nat
      /\ ll + 1 \in 1..Len(J) /\ p0 + ls + 1 \in 1..Len(J) /\ p1 + le + 1 \in 1..Len(J)
      /\ Len(J) \in Nat
  BY <1>2, <1>4, SMTT(30)
<1>8. unit = ll + 1 /\ At(J, unit) = u
  <2>1. ll + 1 \in 1..(Len(J) + 1) /\ \A k \in 1..((ll + 1) - 1) : J[k] \in Blanks
    BY <1>2, <1>5, <1>7
  <2>2. J[ll + 1] \notin Blanks
    BY <1>6 DEF Framed
  <2>3. SkipBlanks(J, 1) = ll + 1
    BY <1>3, <2>1, <2>2, EndOfBlanks
  <2>4. unit = ll + 1
    BY <2>3 DEF Ranged
  <2> QED BY <1>3, <1>6, <1>7, <2>4, AtPlace
<1>9. SpacesEnd(J, unit + 1) = p0 + 1
  <2>1. unit + 1 \in Nat \ {0} /\ p0 + 1 \in (unit + 1)..(Len(J) + 1)
        /\ \A k \in (unit + 1)..((p0 + 1) - 1) : k - (ll + 1) \in 1..lg /\ (ll + 1) + (k - (ll + 1)) = k
    BY <1>2, <1>7, <1>8
  <2>2. \A k \in (unit + 1)..((p0 + 1) - 1) : J[k] = Space
    BY <1>5, <2>1
  <2>3. J[p0 + 1] # Space
    <3>1. CASE ls = 0
      <4>1. p0 + 1 = p0 + ls + 1
        BY <1>7, <3>1
      <4> QED BY <1>6, <4>1 DEF Framed
    <3>2. CASE ls > 0
      <4>1. J[p0 + 1] = ds[1] /\ IsDigit(ds[1])
        <5>1. 1 \in 1..ls
          BY <1>2, <3>2
        <5> HIDE DEF p0
        <5> QED BY <1>4, <5>1 DEF Stands, AllDigits, ls
      <4> QED BY <4>1, DigitNoSpace
    <3> QED BY <1>2, <3>1, <3>2
  <2> DEFINE i == unit + 1
             m == p0 + 1
  <2>4. /\ J \in Seq(C) /\ i \in Nat \ {0} /\ m \in i..(Len(J) + 1)
        /\ (\A k \in i..(m - 1) : J[k] = Space) /\ (m = Len(J) + 1 \/ J[m] # Space)
    BY <1>3, <2>1, <2>2, <2>3
  <2> HIDE DEF i, m, p0
  <2>5. SpacesEnd(J, i) = m
    BY <2>4, EndOfSpaces
  <2> QED BY <2>5 DEF i, m
<1> HIDE DEF p0, p1, p2
<1>10. /\ s.v = number(ds, 1, Len(ds)) /\ s.ok = (Len(ds) > 0) /\ s.i = p0 + ls + 1
  <2>1. NoDigit(J, p0 + Len(ds) + 1)
    BY <1>6 DEF NoDigit, Framed, ls
  <2>2. s = parse_u64(J, p0 + 1)
    BY <1>9 DEF Ranged
  <2>3. J \in Seq(C) /\ p0 \in Nat /\ Stands(J, p0, ds)
    BY <1>3, <1>4, <1>7
  <2>4. /\ parse_u64(J, p0 + 1).v = number(ds, 1, Len(ds))
        /\ parse_u64(J, p0 + 1).i = p0 + Len(ds) + 1
        /\ parse_u64(J, p0 + 1).ok = (Len(ds) > 0)
    BY <2>1, <2>3, ParseNumber
  <2> QED BY <2>2, <2>4 DEF ls
<1>11. s.i = p1 /\ At(J, s.i) = x
  <2>1. p0 + ls + 1 = p1
    BY DEF p1
  <2> QED BY <1>3, <1>6, <1>7, <1>10, <2>1, AtPlace
<1>12. /\ e.v = number(de, 1, Len(de)) /\ e.ok = (Len(de) > 0) /\ e.i = p1 + le + 1
  <2>1. NoDigit(J, p1 + Len(de) + 1)
    BY <1>6 DEF NoDigit, Framed, le
  <2>2. e = parse_u64(J, p1 + 1)
    BY <1>11 DEF Ranged
  <2>3. J \in Seq(C) /\ p1 \in Nat /\ Stands(J, p1, de)
    BY <1>3, <1>4, <1>7
  <2>4. /\ parse_u64(J, p1 + 1).v = number(de, 1, Len(de))
        /\ parse_u64(J, p1 + 1).i = p1 + Len(de) + 1
        /\ parse_u64(J, p1 + 1).ok = (Len(de) > 0)
    BY <2>1, <2>3, ParseNumber
  <2> QED BY <2>2, <2>4 DEF le
<1>13. e.i = p2 /\ At(J, e.i) = y
  <2>1. p1 + le + 1 = p2
    BY DEF p2
  <2> QED BY <1>3, <1>6, <1>7, <1>12, <2>1, AtPlace
<1>14. t.v = number(dt, 1, Len(dt)) /\ t.ok = (Len(dt) > 0)
  <2>1. NoDigit(J, p2 + Len(dt) + 1)
    <3>1. CASE Len(rest) = 0
      <4>1. p2 + lt + 1 > Len(J)
        BY <1>2, <1>4, <1>7, <3>1
      <4> QED BY <4>1 DEF NoDigit, lt
    <3>2. CASE Len(rest) > 0
      <4>1. 1 \in 1..Len(rest) /\ ~(1 > Len(rest))
        BY <1>2, <3>2
      <4>2. J[p2 + lt + 1] = rest[1] /\ ~IsDigit(rest[1])
        BY <1>4, <4>1 DEF Stands, Framed, NoDigit
      <4> QED BY <4>2 DEF NoDigit, lt
    <3> QED BY <1>2, <3>1, <3>2
  <2>2. t = parse_u64(J, p2 + 1)
    BY <1>13 DEF Ranged
  <2>3. J \in Seq(C) /\ p2 \in Nat /\ Stands(J, p2, dt)
    BY <1>3, <1>4, <1>7
  <2>4. /\ parse_u64(J, p2 + 1).v = number(dt, 1, Len(dt))
        /\ parse_u64(J, p2 + 1).ok = (Len(dt) > 0)
    BY <2>1, <2>3, ParseNumber
  <2> QED BY <2>2, <2>4
<1> QED BY <1>8, <1>10, <1>11, <1>12, <1>13, <1>14, Zenon

\* What it returns in terms of them.
Answer(u, a, x, b, y, c, digits) ==
  IF u = "bytes" /\ x = "-" /\ y = "/" /\ digits /\ Coherent(a, b, c) THEN <<a, b, c>> ELSE <<>>

\* The result of ota_parse_content_range is that answer.
LEMMA RangeAnswer ==
  ASSUME NEW J, NEW unit, NEW s, NEW e, NEW t, Ranged(J, unit, s, e, t)
  PROVE  ota_parse_content_range(J) =
           Answer(At(J, unit), s.v, At(J, s.i), e.v, At(J, e.i), t.v, s.ok /\ e.ok /\ t.ok)
<1>1. ota_parse_content_range(J) =
        IF /\ At(J, unit) = "bytes"
           /\ s.ok /\ At(J, s.i) = "-"
           /\ e.ok /\ At(J, e.i) = "/"
           /\ t.ok /\ Coherent(s.v, e.v, t.v)
        THEN <<s.v, e.v, t.v>> ELSE <<>>
  BY Zenon DEF ota_parse_content_range, Ranged, SpacesEnd
<1> QED BY <1>1, Zenon DEF Answer

\* A header written from parts.
THEOREM RangeReadsAnyText ==
  ASSUME NEW C, NEW J, NEW lead, NEW u, NEW gap, NEW ds, NEW x, NEW de, NEW y, NEW dt, NEW rest,
         Header(C, J, lead, u, gap, ds, x, de, y, dt, rest)
  PROVE  ota_parse_content_range(J) =
           Answer(u, number(ds, 1, Len(ds)), x, number(de, 1, Len(de)), y, number(dt, 1, Len(dt)),
                  Len(ds) > 0 /\ Len(de) > 0 /\ Len(dt) > 0)
<1> DEFINE unit == SkipBlanks(J, 1)
           s == parse_u64(J, SpacesEnd(J, unit + 1))
           e == parse_u64(J, s.i + 1)
           t == parse_u64(J, e.i + 1)
<1>1. Ranged(J, unit, s, e, t)
  BY Zenon DEF Ranged
<1> HIDE DEF unit, s, e, t
<1>2. Found(J, unit, s, e, t, u, ds, x, de, y, dt)
  BY <1>1, RangeWalk, Zenon
<1>3. ota_parse_content_range(J) =
        Answer(At(J, unit), s.v, At(J, s.i), e.v, At(J, e.i), t.v, s.ok /\ e.ok /\ t.ok)
  BY <1>1, RangeAnswer, Zenon
<1>4. ota_parse_content_range(J) =
        Answer(u, s.v, x, e.v, y, t.v, s.ok /\ e.ok /\ t.ok)
  BY <1>2, <1>3, Zenon DEF Found
<1>5. (s.ok /\ e.ok /\ t.ok) = (Len(ds) > 0 /\ Len(de) > 0 /\ Len(dt) > 0)
  BY <1>2, Zenon DEF Found
<1> QED BY <1>2, <1>4, <1>5, Zenon DEF Found

\* The characters of a header.
RangeChars == {" ", "\t", "x", "bytes", "items", "-", "/"} \cup {Digits[d] : d \in 1..10}

\* The signs of a header are no digits.
LEMMA NoSuchDigit ==
  ~IsDigit("-") /\ ~IsDigit("/") /\ ~IsDigit("x")
<1>0. ASSUME NEW c, /\ Digits[1] # c /\ Digits[2] # c /\ Digits[3] # c /\ Digits[4] # c
                    /\ Digits[5] # c /\ Digits[6] # c /\ Digits[7] # c /\ Digits[8] # c
                    /\ Digits[9] # c /\ Digits[10] # c
      PROVE  ~IsDigit(c)
  <2> SUFFICES ASSUME NEW d \in 1..10, Digits[d] = c PROVE FALSE
    BY DEF IsDigit
  <2>1. d \in {1, 2, 3, 4, 5, 6, 7, 8, 9, 10}
    OBVIOUS
  <2> QED BY <1>0, <2>1
<1>1. /\ Digits[1] # "-" /\ Digits[2] # "-" /\ Digits[3] # "-" /\ Digits[4] # "-" /\ Digits[5] # "-"
      /\ Digits[6] # "-" /\ Digits[7] # "-" /\ Digits[8] # "-" /\ Digits[9] # "-" /\ Digits[10] # "-"
  BY DEF Digits
<1>2. /\ Digits[1] # "/" /\ Digits[2] # "/" /\ Digits[3] # "/" /\ Digits[4] # "/" /\ Digits[5] # "/"
      /\ Digits[6] # "/" /\ Digits[7] # "/" /\ Digits[8] # "/" /\ Digits[9] # "/" /\ Digits[10] # "/"
  BY DEF Digits
<1>3. /\ Digits[1] # "x" /\ Digits[2] # "x" /\ Digits[3] # "x" /\ Digits[4] # "x" /\ Digits[5] # "x"
      /\ Digits[6] # "x" /\ Digits[7] # "x" /\ Digits[8] # "x" /\ Digits[9] # "x" /\ Digits[10] # "x"
  BY DEF Digits
<1> QED BY <1>0, <1>1, <1>2, <1>3, Zenon

\* The decimal text of a number.
LEMMA NumberTextIsDecimal ==
  ASSUME NEW n \in 0..99
  PROVE  /\ NumberText(n) \in Seq(RangeChars) /\ AllDigits(NumberText(n))
         /\ Len(NumberText(n)) > 0 /\ IsDecimal(NumberText(n), n)
<1>0. \A d \in 1..10 : /\ Digits[d] \in RangeChars /\ IsDigit(Digits[d]) /\ digit(Digits[d]) = d - 1
  BY DigitValue, Zenon DEF RangeChars
<1> HIDE DEF Digits, RangeChars
<1>1. CASE n < 10
  <2> DEFINE c == Digits[n + 1]
             D == <<c>>
             f == [k \in 0..1 |-> IF k = 0 THEN 0 ELSE n]
  <2>1. NumberText(n) = D
    BY <1>1 DEF NumberText
  <2>2. c \in RangeChars /\ IsDigit(c) /\ digit(c) = n
    <3>1. n + 1 \in 1..10 /\ (n + 1) - 1 = n
      BY <1>1
    <3> QED BY <1>0, <3>1
  <2> HIDE DEF c
  <2>3. D \in Seq(RangeChars) /\ Len(D) = 1 /\ D[1] = c
    BY <2>2
  <2>4. AllDigits(D)
    BY <2>2, <2>3 DEF AllDigits
  <2>5. /\ f \in [0..1 -> Nat] /\ f[0] = 0 /\ f[1] = n
        /\ \A k \in 1..1 : f[k] = f[k - 1] * 10 + digit(D[k])
    BY <2>2, <2>3
  <2> HIDE DEF D, f
  <2>6. IsDecimal(D, n)
    BY <2>3, <2>5 DEF IsDecimal
  <2> QED BY <2>1, <2>3, <2>4, <2>6
<1>2. CASE n >= 10
  <2> DEFINE a == n \div 10
             b == n % 10
             ca == Digits[a + 1]
             cb == Digits[b + 1]
             D == <<ca, cb>>
             f == [k \in 0..2 |-> IF k = 0 THEN 0 ELSE IF k = 1 THEN a ELSE n]
  <2>1. NumberText(n) = D
    <3>1. ~(n < 0) /\ ~(n < 10)
      BY <1>2
    <3> QED BY <3>1, Zenon DEF NumberText
  <2>2. /\ a \in 0..9 /\ b \in 0..9 /\ a * 10 + b = n /\ a + 1 \in 1..10 /\ b + 1 \in 1..10
        /\ (a + 1) - 1 = a /\ (b + 1) - 1 = b
    BY <1>2
  <2>3. ca \in RangeChars /\ IsDigit(ca) /\ digit(ca) = a /\ cb \in RangeChars /\ IsDigit(cb) /\ digit(cb) = b
    BY <1>0, <2>2
  <2> HIDE DEF a, b, ca, cb
  <2>4. D \in Seq(RangeChars) /\ Len(D) = 2 /\ D[1] = ca /\ D[2] = cb
    BY <2>3
  <2>5. AllDigits(D)
    BY <2>3, <2>4 DEF AllDigits
  <2>6. /\ f \in [0..2 -> Nat] /\ f[0] = 0 /\ f[2] = n /\ f[1] = a
    BY <2>2
  <2>7. \A k \in 1..2 : f[k] = f[k - 1] * 10 + digit(D[k])
    <3>1. f[1] = f[0] * 10 + digit(D[1])
      BY <2>2, <2>3, <2>4, <2>6
    <3>2. f[2] = f[1] * 10 + digit(D[2])
      BY <2>2, <2>3, <2>4, <2>6
    <3>3. \A k \in 1..2 : (k = 1 /\ k - 1 = 0) \/ (k = 2 /\ k - 1 = 1)
      OBVIOUS
    <3> QED BY <3>1, <3>2, <3>3
  <2> HIDE DEF D, f
  <2>8. IsDecimal(D, n)
    BY <2>4, <2>6, <2>7 DEF IsDecimal
  <2> QED BY <2>1, <2>4, <2>5, <2>8
<1> QED BY <1>1, <1>2

\* A number of the model's headers, -1 for none.
LEMMA NumberTexts ==
  ASSUME NEW n \in {-1} \cup 0..99
  PROVE  /\ NumberText(n) \in Seq(RangeChars) /\ AllDigits(NumberText(n))
         /\ Len(NumberText(n)) > 0 <=> n # -1
         /\ number(NumberText(n), 1, Len(NumberText(n))) \in Nat
         /\ n # -1 /\ n < UINT64 => number(NumberText(n), 1, Len(NumberText(n))) = n
<1> DEFINE D == NumberText(n)
<1>1. D \in Seq(RangeChars) /\ AllDigits(D) /\ (Len(D) > 0 <=> n # -1)
  <2>1. CASE n = -1
    <3>1. D = <<>>
      BY <2>1 DEF NumberText
    <3> HIDE DEF D
    <3> QED BY <2>1, <3>1 DEF AllDigits
  <2>2. CASE n \in 0..99
    <3>1. n # -1
      BY <2>2
    <3>2. D \in Seq(RangeChars) /\ AllDigits(D) /\ Len(D) > 0
      BY <2>2, NumberTextIsDecimal
    <3> QED BY <3>1, <3>2
  <2> QED BY <2>1, <2>2
<1>2. number(D, 1, Len(D)) \in Nat
  <2> HIDE DEF D
  <2>1. Stands(D, 0, D) /\ 0 \in Nat
    BY <1>1, StandsWhole
  <2> QED BY <1>1, <2>1, NumberThere
<1>3. ASSUME n # -1, n < UINT64 PROVE number(D, 1, Len(D)) = n
  <2>1. n \in 0..99 /\ IsDecimal(D, n)
    BY <1>3, NumberTextIsDecimal
  <2> HIDE DEF D
  <2> QED BY <1>1, <1>3, <2>1, NumberExact
<1> QED BY <1>1, <1>2, <1>3

\* The numbers that a header's digits stand for.
Value(n) == number(NumberText(n), 1, Len(NumberText(n)))

\* The words of the model's headers.
Lead(s) == s \in {<<>>, <<" ">>, <<" ", "\t">>}
Unit(c) == c \in {"bytes", "items"}
Gap(s) == s \in {<<>>, <<" ">>}
Mark(c) == c \in {"-", "/"}
Rest(s) == s \in {<<>>, <<"x">>}

\* Texts of at most two characters.
LEMMA ShortTexts ==
  ASSUME NEW C, NEW a \in C, NEW b \in C, NEW s, s \in {<<>>, <<a>>, <<a, b>>}
  PROVE  s \in Seq(C) /\ \A k \in 1..Len(s) : s[k] \in {a, b}
<1>1. CASE s = <<>>
  BY <1>1
<1>2. CASE s = <<a>>
  BY <1>2
<1>3. CASE s = <<a, b>>
  BY <1>3
<1> QED BY <1>1, <1>2, <1>3

\* A text of at most one character.
LEMMA NothingOrOne ==
  ASSUME NEW C, NEW a \in C, NEW s, s \in {<<>>, <<a>>}
  PROVE  /\ s \in Seq(C) /\ \A k \in 1..Len(s) : s[k] = a
         /\ ~IsDigit(a) => NoDigit(s, 1)
<1>1. CASE s = <<>>
  BY <1>1 DEF NoDigit
<1>2. CASE s = <<a>>
  BY <1>2 DEF NoDigit
<1> QED BY <1>1, <1>2

\* The words of the headers frame its numbers.
LEMMA Framing ==
  ASSUME NEW lead, NEW u, NEW gap, NEW x, NEW y, NEW rest,
         Lead(lead), Unit(u), Gap(gap), Mark(x), Mark(y), Rest(rest)
  PROVE  /\ lead \in Seq(RangeChars) /\ u \in RangeChars /\ gap \in Seq(RangeChars)
         /\ x \in RangeChars /\ y \in RangeChars /\ rest \in Seq(RangeChars)
         /\ Framed(lead, u, gap, x, y, rest)
<1>1. /\ " " \in RangeChars /\ "\t" \in RangeChars /\ "x" \in RangeChars /\ u \in RangeChars
      /\ x \in RangeChars /\ y \in RangeChars
  BY DEF RangeChars, Unit, Mark
<1>2. /\ " " \in Blanks /\ "\t" \in Blanks /\ u \notin Blanks /\ x # " "
  BY DEF Blanks, Unit, Mark
<1> DEFINE a == " "
           b == "\t"
           z == "x"
<1>3. lead \in Seq(RangeChars) /\ \A k \in 1..Len(lead) : lead[k] \in Blanks
  <2>1. /\ a \in RangeChars /\ b \in RangeChars /\ lead \in {<<>>, <<a>>, <<a, b>>}
        /\ a \in Blanks /\ b \in Blanks
    BY <1>1, <1>2, Zenon DEF Lead
  <2> HIDE DEF a, b
  <2>2. lead \in Seq(RangeChars) /\ \A k \in 1..Len(lead) : lead[k] \in {a, b}
    BY <2>1, ShortTexts
  <2> QED BY <2>1, <2>2, Zenon
<1>4. gap \in Seq(RangeChars) /\ \A k \in 1..Len(gap) : gap[k] = Space
  <2>1. a \in RangeChars /\ gap \in {<<>>, <<a>>} /\ a = Space
    BY <1>1, Zenon DEF Gap, Space
  <2> HIDE DEF a
  <2> QED BY <2>1, NothingOrOne
<1>5. rest \in Seq(RangeChars) /\ NoDigit(rest, 1)
  <2>1. z \in RangeChars /\ rest \in {<<>>, <<z>>} /\ ~IsDigit(z)
    BY <1>1, NoSuchDigit, Zenon DEF Rest
  <2> HIDE DEF z
  <2> QED BY <2>1, NothingOrOne, Zenon
<1>6. ~IsDigit(x) /\ ~IsDigit(y) /\ x # Space
  BY <1>2, NoSuchDigit, Zenon DEF Space, Mark
<1> QED BY <1>1, <1>2, <1>3, <1>4, <1>5, <1>6, Zenon DEF Framed

\* A number of a header, or -1 where it has none.
MaybeNumber(n) == n \in {-1} \cup 0..99

\* A Content-Range with numbers below 100, or without some of them.
LEMMA RangeOfNumbers ==
  ASSUME NEW lead, NEW u, NEW gap, NEW x, NEW y, NEW rest,
         Lead(lead), Unit(u), Gap(gap), Mark(x), Mark(y), Rest(rest),
         NEW a, NEW b, NEW c, MaybeNumber(a), MaybeNumber(b), MaybeNumber(c),
         NEW J, InOrder(J, lead, <<u>>, gap, NumberText(a), <<x>>, NumberText(b), <<y>>, NumberText(c), rest)
  PROVE  /\ ota_parse_content_range(J) =
              Answer(u, Value(a), x, Value(b), y, Value(c), a # -1 /\ b # -1 /\ c # -1)
         /\ Value(a) \in Nat /\ Value(b) \in Nat /\ Value(c) \in Nat
<1> DEFINE ds == NumberText(a)
           de == NumberText(b)
           dt == NumberText(c)
<1>1. /\ ds \in Seq(RangeChars) /\ AllDigits(ds) /\ (Len(ds) > 0 <=> a # -1) /\ Value(a) \in Nat
      /\ de \in Seq(RangeChars) /\ AllDigits(de) /\ (Len(de) > 0 <=> b # -1) /\ Value(b) \in Nat
      /\ dt \in Seq(RangeChars) /\ AllDigits(dt) /\ (Len(dt) > 0 <=> c # -1) /\ Value(c) \in Nat
  BY NumberTexts, Zenon DEF Value, MaybeNumber
<1>2. /\ lead \in Seq(RangeChars) /\ u \in RangeChars /\ gap \in Seq(RangeChars)
      /\ x \in RangeChars /\ y \in RangeChars /\ rest \in Seq(RangeChars)
      /\ Framed(lead, u, gap, x, y, rest)
  BY Framing, Zenon
<1>3. Header(RangeChars, J, lead, u, gap, ds, x, de, y, dt, rest)
  BY <1>1, <1>2, Zenon DEF Header
<1>4. ota_parse_content_range(J) =
        Answer(u, Value(a), x, Value(b), y, Value(c), Len(ds) > 0 /\ Len(de) > 0 /\ Len(dt) > 0)
  <2>1. ota_parse_content_range(J) =
           Answer(u, number(ds, 1, Len(ds)), x, number(de, 1, Len(de)), y, number(dt, 1, Len(dt)),
                  Len(ds) > 0 /\ Len(de) > 0 /\ Len(dt) > 0)
    <3> HIDE DEF ds, de, dt
    <3> QED BY <1>3, RangeReadsAnyText
  <2> QED BY <2>1, Zenon DEF Value
<1>5. (Len(ds) > 0 /\ Len(de) > 0 /\ Len(dt) > 0) = (a # -1 /\ b # -1 /\ c # -1)
  BY <1>1, Zenon
<1> QED BY <1>1, <1>4, <1>5, Zenon

\* A number that fits in a uint64_t is read as it stands.
LEMMA ValueFits ==
  ASSUME NEW n \in 0..99, n < UINT64
  PROVE  Value(n) = n
<1>1. n \in {-1} \cup 0..99 /\ n # -1
  OBVIOUS
<1> QED BY <1>1, NumberTexts, Zenon DEF Value

\* RangeParsed for a header.
LEMMA HeaderParsed ==
  ASSUME NEW c \in Ranges
  PROVE  LET r == ota_parse_content_range(RangeText(c))
         IN /\ ~WellFormed(c) => r = <<>>
            /\ WellFormed(c) /\ Fits(c) =>
                 r = IF c.s <= c.e /\ c.e < c.t THEN <<c.s, c.e, c.t>> ELSE <<>>
<1> DEFINE r == ota_parse_content_range(RangeText(c))
           a == c.s
           b == c.e
           t == c.t
           u == c.unit
           x == c.dash
           y == c.slash
           isBytes == u = "bytes" /\ x = "-" /\ y = "/"
           there == a # -1 /\ b # -1 /\ t # -1
<1>1. /\ Lead(c.lead) /\ Unit(u) /\ Gap(c.gap) /\ Mark(x) /\ Mark(y) /\ Rest(c.rest)
      /\ a \in Numbers /\ b \in Numbers /\ t \in Numbers
  BY Zenon DEF Ranges, Lead, Unit, Gap, Mark, Rest
<1>2. \A n \in Numbers : MaybeNumber(n) /\ (n # -1 => n \in 0..99)
  BY DEF Numbers, MaybeNumber
<1>3. InOrder(RangeText(c), c.lead, <<u>>, c.gap, NumberText(a), <<x>>, NumberText(b), <<y>>,
              NumberText(t), c.rest)
  BY Zenon DEF RangeText, InOrder
<1> HIDE DEF r, a, b, t, u, x, y
<1>4. /\ r = Answer(u, Value(a), x, Value(b), y, Value(t), there)
      /\ Value(a) \in Nat /\ Value(b) \in Nat /\ Value(t) \in Nat
  BY <1>1, <1>2, <1>3, RangeOfNumbers, Zenon DEF r
<1>5. r = IF isBytes /\ there /\ Coherent(Value(a), Value(b), Value(t))
          THEN <<Value(a), Value(b), Value(t)>> ELSE <<>>
  BY <1>4, Zenon DEF Answer
<1>6. WellFormed(c) <=> isBytes /\ there
  BY Zenon DEF WellFormed, a, b, t, u, x, y
<1> HIDE DEF isBytes
<1>7. ASSUME isBytes, there, a < UINT64, b < UINT64, t < UINT64
      PROVE  r = IF a <= b /\ b < t THEN <<a, b, t>> ELSE <<>>
  <2>1. Value(a) = a /\ Value(b) = b /\ Value(t) = t
    BY <1>1, <1>2, <1>7, ValueFits, Zenon
  <2> QED BY <1>5, <1>7, <2>1, Zenon DEF Coherent
<1> HIDE DEF there
<1>8. ~WellFormed(c) => r = <<>>
  BY <1>5, <1>6, Zenon
<1> QED BY <1>6, <1>7, <1>8, Zenon DEF Fits, r, a, b, t

\* ota_parse_content_range gives back the numbers of a well-formed header and
\* rejects one that is incomplete, for every width of its integers.
THEOREM RangeParsedHolds == Spec => []RangeParsed
<1>1. CallInv => RangeParsed
  <2> SUFFICES ASSUME CallInv, call.op = "range" PROVE RangeParsed
    BY Zenon DEF RangeParsed
  <2>1. call \in Ranges /\ result = ota_parse_content_range(RangeText(call))
    BY Zenon DEF CallInv, RangeCalled
  <2> QED BY <2>1, HeaderParsed, Zenon DEF RangeParsed
<1> QED BY <1>1, CallInvariant, PTL
=============================================================================
