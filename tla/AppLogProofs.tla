--------------------------- MODULE AppLogProofs ----------------------------
(***************************************************************************)
(* The log ring for every ring size, any number of threads and any chunk   *)
(* and buffer sizes: a snapshot is the newest text, and chunks stay whole. *)
(***************************************************************************)
EXTENDS AppLog, TLAPS

-----------------------------------------------------------------------------
(* Arithmetic of the ring.                                                 *)

\* One turn around the ring is one subtraction.
LEMMA ModOnce ==
  ASSUME NEW a \in Nat, a < 2 * RING_SIZE
  PROVE  a % RING_SIZE = IF a < RING_SIZE THEN a ELSE a - RING_SIZE
BY RingAssumption

\* Any index modulo the ring size is inside the ring.
LEMMA ModRange ==
  ASSUME NEW a \in Nat
  PROVE  a % RING_SIZE \in Indices
BY RingAssumption DEF Indices

\* The next write position.
LEMMA NextHead ==
  ASSUME NEW h \in Indices
  PROVE  /\ (h + 1) % RING_SIZE = IF h + 1 = RING_SIZE THEN 0 ELSE h + 1
         /\ (h + 1) % RING_SIZE \in Indices
<1> DEFINE a == h + 1
<1>1. a \in Nat /\ a < 2 * RING_SIZE BY RingAssumption DEF Indices
<1>2. a % RING_SIZE = IF a < RING_SIZE THEN a ELSE a - RING_SIZE
  <2> HIDE DEF a
  <2> QED BY <1>1, ModOnce
<1> QED BY <1>2, RingAssumption DEF Indices

\* The position j bytes before a write position.
LEMMA Behind ==
  ASSUME NEW h \in Indices, NEW j \in 0..RING_SIZE
  PROVE  /\ (h + RING_SIZE - j) % RING_SIZE =
              IF j <= h THEN h - j ELSE h + RING_SIZE - j
         /\ (h + RING_SIZE - j) % RING_SIZE \in Indices
<1> DEFINE a == h + RING_SIZE - j
<1>1. a \in Nat /\ a < 2 * RING_SIZE BY RingAssumption DEF Indices
<1>2. a % RING_SIZE = IF a < RING_SIZE THEN a ELSE a - RING_SIZE
  <2> HIDE DEF a
  <2> QED BY <1>1, ModOnce
<1> QED BY <1>2, RingAssumption DEF Indices

\* Copying i bytes on from m bytes back arrives m - i bytes back.
LEMMA CopyIndex ==
  ASSUME NEW h \in Indices, NEW m \in 0..RING_SIZE, NEW i \in 0..(m - 1)
  PROVE  (((h + RING_SIZE - m) % RING_SIZE) + i) % RING_SIZE =
           (h + RING_SIZE - (m - i)) % RING_SIZE
<1> DEFINE s == (h + RING_SIZE - m) % RING_SIZE
           a == s + i
<1>1. s \in Indices /\ s = IF m <= h THEN h - m ELSE h + RING_SIZE - m BY Behind
<1>2. a \in Nat /\ a < 2 * RING_SIZE
  <2> HIDE DEF s
  <2> QED BY <1>1, RingAssumption DEF Indices
<1>3. a % RING_SIZE = IF a < RING_SIZE THEN a ELSE a - RING_SIZE
  <2> HIDE DEF a
  <2> QED BY <1>2, ModOnce
<1>4. m - i \in 0..RING_SIZE BY RingAssumption
<1>5. (h + RING_SIZE - (m - i)) % RING_SIZE =
        IF m - i <= h THEN h - (m - i) ELSE h + RING_SIZE - (m - i)
  <2> DEFINE j == m - i
  <2> HIDE DEF j
  <2> SUFFICES (h + RING_SIZE - j) % RING_SIZE = IF j <= h THEN h - j ELSE h + RING_SIZE - j
    BY DEF j
  <2>1. j \in 0..RING_SIZE BY <1>4 DEF j
  <2> QED BY <2>1, Behind
<1>6. a % RING_SIZE = IF m - i <= h THEN h - (m - i) ELSE h + RING_SIZE - (m - i)
  <2> HIDE DEF s
  <2> QED BY <1>1, <1>3, RingAssumption DEF Indices
<1> QED BY <1>5, <1>6

-----------------------------------------------------------------------------
(* Type correctness.                                                       *)

\* A snapshot waits for the lock only with a buffer to fill.
CapInv == rpc = "lock" => cap > 0

\* Every byte ring_put stores and applog_snapshot reads is inside the ring.
THEOREM RingTypeCorrect == Spec => []TypeOK
<1>1. Init => TypeOK /\ CapInv
  BY RingAssumption, ChunkAssumption DEF Init, TypeOK, CapInv, Indices
<1>2. TypeOK /\ CapInv /\ [Next]_vars => TypeOK' /\ CapInv'
  <2> SUFFICES ASSUME TypeOK, CapInv, [Next]_vars PROVE TypeOK' /\ CapInv' OBVIOUS
  <2> USE RingAssumption, ChunkAssumption DEF TypeOK, CapInv
  <2>1. CASE UNCHANGED vars BY <2>1 DEF vars, ringVars, snapVars
  <2>2. ASSUME NEW t \in Threads, PutLock(t) PROVE TypeOK' /\ CapInv'
    BY <2>2 DEF PutLock, k_spin_lock, ringVars, snapVars
  <2>3. ASSUME NEW t \in Threads, PutByte(t) PROVE TypeOK' /\ CapInv'
    <3>1. <<t, left[t]>> \in Bytes BY <2>3 DEF PutByte, Bytes
    <3>2. ring_head' \in Indices BY <2>3, NextHead DEF PutByte
    <3>3. ring_len' \in 0..RING_SIZE BY <2>3 DEF PutByte, grow
    <3>4. ring' \in [Indices -> Bytes \cup {Blank}] BY <2>3, <3>1 DEF PutByte
    <3>5. log' \in Seq(Bytes) BY <2>3, <3>1 DEF PutByte
    <3>6. left' \in [Threads -> 0..MaxChunk] BY <2>3 DEF PutByte
    <3> QED BY <2>3, <3>2, <3>3, <3>4, <3>5, <3>6 DEF PutByte, snapVars
  <2>4. ASSUME NEW t \in Threads, PutUnlock(t) PROVE TypeOK' /\ CapInv'
    BY <2>4 DEF PutUnlock, ringVars, snapVars
  <2>5. ASSUME NEW t \in Threads, NEW len \in 1..MaxChunk, out_write(t, len)
        PROVE TypeOK' /\ CapInv'
    BY <2>5 DEF out_write, ringVars, snapVars
  <2>6. ASSUME NEW c \in 0..MaxCap, SnapshotCall(c) PROVE TypeOK' /\ CapInv'
    BY <2>6 DEF SnapshotCall, ringVars, Indices
  <2>7. CASE SnapshotLock
    <3>1. n' \in 0..RING_SIZE BY <2>7 DEF SnapshotLock, SnapshotLen
    <3>2. start' \in Indices BY <2>7, <3>1, Behind DEF SnapshotLock, SnapshotStart
    <3> QED BY <2>7, <3>1, <3>2 DEF SnapshotLock, k_spin_lock, ringVars
  <2>8. CASE SnapshotByte
    <3>1. start + Len(out) \in Nat BY DEF Indices
    <3> DEFINE i == (start + Len(out)) % RING_SIZE
    <3>2. i \in Indices BY <3>1, ModRange
    <3> HIDE DEF i
    <3>3. out' = Append(out, ring[i]) BY <2>8 DEF SnapshotByte, i
    <3>4. out' \in Seq(Bytes \cup {Blank}) BY <3>2, <3>3
    <3> QED BY <2>8, <3>4 DEF SnapshotByte, ringVars
  <2>9. CASE SnapshotDone BY <2>9 DEF SnapshotDone, ringVars
  <2>10. CASE ShipLogs BY <2>10 DEF ShipLogs, ringVars
  <2> QED BY <2>1, <2>2, <2>3, <2>4, <2>5, <2>6, <2>7, <2>8, <2>9, <2>10
      DEF Next, ring_put, applog_snapshot
<1> QED BY <1>1, <1>2, PTL DEF Spec

-----------------------------------------------------------------------------
(* The snapshot is the newest text.                                        *)

\* ring_put: the new byte is the newest, the others move one back, and the
\* cell it takes is free or held the byte that rolls off.
LEMMA RingPut ==
  ASSUME TypeOK, RingInv, NEW t \in Threads, PutByte(t)
  PROVE  RingInv'
<1> USE RingAssumption
<1> DEFINE b == <<t, left[t]>>
<1>1. /\ ring_head \in Indices /\ ring_len \in 0..RING_SIZE
      /\ ring \in [Indices -> Bytes \cup {Blank}] /\ log \in Seq(Bytes)
  BY DEF TypeOK
<1>2. b \in Bytes BY DEF PutByte, TypeOK, Bytes
<1>3. /\ ring' = [ring EXCEPT ![ring_head] = b] /\ log' = Append(log, b)
      /\ ring_len' = IF ring_len < RING_SIZE THEN ring_len + 1 ELSE ring_len
      /\ ring_head' = (ring_head + 1) % RING_SIZE
  BY DEF PutByte, grow
<1> HIDE DEF b
<1>4. /\ ring_head' = IF ring_head + 1 = RING_SIZE THEN 0 ELSE ring_head + 1
      /\ ring_head' \in Indices
  BY <1>1, <1>3, NextHead
<1>5. /\ Len(log') = Len(log) + 1 /\ log'[Len(log) + 1] = b
      /\ \A k \in 1..Len(log) : log'[k] = log[k]
  BY <1>1, <1>2, <1>3
<1>6. ring_len' = Least(Len(log'), RING_SIZE)
  BY <1>1, <1>3, <1>5 DEF RingInv, Least
<1>7. ASSUME NEW j \in 1..ring_len'
      PROVE  ring'[Back(j)'] = log'[Len(log') + 1 - j]
  <2>1. j \in 0..RING_SIZE /\ j - 1 \in 0..RING_SIZE /\ j - 1 < RING_SIZE
    BY <1>1, <1>3, <1>7
  <2>2. Back(j)' = IF j <= ring_head' THEN ring_head' - j ELSE ring_head' + RING_SIZE - j
    BY <1>4, <2>1, Behind DEF Back
  <2> DEFINE i == j - 1
  <2>3. i \in 0..RING_SIZE BY <2>1
  <2>4. Back(i) = IF i <= ring_head THEN ring_head - i ELSE ring_head + RING_SIZE - i
    <3> HIDE DEF i
    <3> QED BY <1>1, <2>3, Behind DEF Back
  <2>5. CASE j = 1
    <3>1. Back(j)' = ring_head BY <1>1, <1>4, <2>2, <2>5 DEF Indices
    <3> QED BY <1>1, <1>3, <1>5, <2>5, <3>1
  <2>6. CASE j # 1
    <3>1. i \in 1..ring_len BY <1>1, <1>3, <1>7, <2>6
    <3>2. Back(j)' = (IF i <= ring_head THEN ring_head - i ELSE ring_head + RING_SIZE - i)
      BY <1>1, <1>4, <2>1, <2>2 DEF Indices
    <3>3. Back(j)' = Back(i) BY <2>4, <3>2
    <3>4. Back(i) # ring_head /\ Back(i) \in Indices
      <4>1. i # 0 /\ i < RING_SIZE BY <2>1, <2>6, <1>7
      <4> HIDE DEF i
      <4> QED BY <1>1, <2>3, <2>4, <4>1 DEF Indices
    <3>5. ring[Back(i)] = log[Len(log) + 1 - i] BY <3>1 DEF RingInv
    <3>6. Len(log) + 1 - i \in 1..Len(log)
      BY <1>1, <3>1 DEF RingInv, Least
    <3>7. ring'[Back(i)] = ring[Back(i)] BY <1>1, <1>3, <3>4
    <3>8. log'[Len(log) + 1 - i] = log[Len(log) + 1 - i] BY <1>5, <3>6
    <3>9. Len(log') + 1 - j = Len(log) + 1 - i BY <1>1, <1>5, <2>1
    <3> QED BY <3>3, <3>5, <3>7, <3>8, <3>9
  <2> QED BY <2>5, <2>6
<1> QED BY <1>6, <1>7 DEF RingInv

\* A step that leaves ring, history and the snapshot alone, and does not take
\* the lock from the snapshot, keeps the invariant.
LEMMA SnapshotQuiet ==
  ASSUME SnapshotInv, UNCHANGED <<ringVars, snapVars>>,
         ring_lock = "reader" => ring_lock' = "reader"
  PROVE  SnapshotInv'
BY DEF SnapshotInv, RingInv, CopyInv, ReturnInv, SnapshotIsNewest, Back, ringVars, snapVars

\* A thread that logs keeps it: the ring stands still while it is copied, and
\* a copy that was returned stays what it was.
LEMMA SnapshotPut ==
  ASSUME TypeOK, SnapshotInv, NEW t \in Threads, PutByte(t)
  PROVE  SnapshotInv'
<1>1. RingInv' BY RingPut DEF SnapshotInv
<1>2. rpc # "copy" /\ UNCHANGED snapVars
  BY ThreadsAssumption DEF PutByte, SnapshotInv, CopyInv
<1>3. CopyInv' BY <1>2 DEF SnapshotInv, CopyInv, snapVars
<1>4. <<t, left[t]>> \in Bytes /\ log \in Seq(Bytes) BY DEF PutByte, TypeOK, Bytes
<1>5. Len(log') = Len(log) + 1 /\ \A k \in 1..Len(log) : log'[k] = log[k]
  BY <1>4 DEF PutByte
<1>6. ReturnInv'
  <2> SUFFICES ASSUME rpc = "ret" PROVE ReturnInv'
    BY <1>2 DEF ReturnInv, SnapshotIsNewest, snapVars
  <2>1. mark <= Len(log) /\ mark \in Nat /\ Len(log) \in Nat
    BY <1>4 DEF SnapshotInv, ReturnInv, TypeOK
  <2>2. mark' <= Len(log') BY <1>2, <1>5, <2>1 DEF snapVars
  <2>3. ASSUME cap > 0
        PROVE  /\ n = Least(mark, Least(RING_SIZE, cap - 1)) /\ Len(out) = n
               /\ \A i \in 1..n : out[i] = log'[mark - n + i]
    <3>1. /\ n = Least(mark, Least(RING_SIZE, cap - 1)) /\ Len(out) = n
          /\ \A i \in 1..n : out[i] = log[mark - n + i]
      BY <2>3 DEF SnapshotInv, ReturnInv, SnapshotIsNewest
    <3>2. n \in Nat /\ n <= mark
      BY <2>1, <2>3, <3>1, RingAssumption DEF Least, TypeOK
    <3>3. \A i \in 1..n : mark - n + i \in 1..Len(log) BY <2>1, <3>2
    <3> QED BY <1>5, <3>1, <3>3
  <2> QED BY <1>2, <2>2, <2>3 DEF ReturnInv, SnapshotIsNewest, snapVars
<1> QED BY <1>1, <1>3, <1>6 DEF SnapshotInv

\* Taking the lock fixes length, start and mark of the copy.
LEMMA SnapshotLocks ==
  ASSUME TypeOK, SnapshotInv, SnapshotLock
  PROVE  SnapshotInv'
<1>1. RingInv' BY DEF SnapshotLock, SnapshotInv, RingInv, Back, ringVars
<1>2. ReturnInv' BY DEF SnapshotLock, ReturnInv, SnapshotIsNewest
<1>3. cap > 0 /\ cap \in Nat /\ out = <<>> /\ Len(log) \in Nat
  BY DEF SnapshotLock, SnapshotInv, CopyInv, TypeOK
<1>4. n' = Least(Len(log), Least(RING_SIZE, cap - 1)) /\ n' \in Nat
  BY <1>3, RingAssumption DEF SnapshotLock, SnapshotLen, SnapshotInv, RingInv, Least
<1>5. start' = Back(n') BY DEF SnapshotLock, SnapshotStart, Back
<1>6. Back(n)' = Back(n') BY DEF SnapshotLock, ringVars, Back
<1>7. ring_lock' = "reader" /\ rpc' = "copy" /\ mark' = Len(log) /\ UNCHANGED <<log, cap, out>>
  BY DEF SnapshotLock, k_spin_lock, ringVars
<1>8. Len(out') = 0 BY <1>3, <1>7
<1>9. CopyInv' BY <1>3, <1>4, <1>5, <1>6, <1>7, <1>8 DEF CopyInv
<1> QED BY <1>1, <1>2, <1>9 DEF SnapshotInv

\* Copying a byte continues the copy.
LEMMA SnapshotCopies ==
  ASSUME TypeOK, SnapshotInv, SnapshotByte
  PROVE  SnapshotInv'
<1> DEFINE i == Len(out)
<1>1. RingInv' BY DEF SnapshotByte, SnapshotInv, RingInv, Back, ringVars
<1>2. ReturnInv' BY DEF SnapshotByte, ReturnInv, SnapshotIsNewest
<1>3. /\ rpc = "copy" /\ i < n /\ UNCHANGED <<ringVars, ring_lock, rpc, cap, n, start, mark>>
      /\ out' = Append(out, ring[(start + i) % RING_SIZE])
  BY DEF SnapshotByte
<1>4. /\ ring_lock = "reader" /\ cap > 0 /\ mark = Len(log)
      /\ n = Least(mark, Least(RING_SIZE, cap - 1))
      /\ start = Back(n) /\ \A k \in 1..i : out[k] = log[mark - n + k]
  BY <1>3 DEF SnapshotInv, CopyInv
<1>5. /\ i \in Nat /\ n \in 0..RING_SIZE /\ ring_head \in Indices /\ mark \in Nat
      /\ out \in Seq(Bytes \cup {Blank}) /\ ring \in [Indices -> Bytes \cup {Blank}]
  BY DEF TypeOK
<1>6. (start + i) % RING_SIZE = Back(n - i)
  BY <1>3, <1>4, <1>5, CopyIndex DEF Back
<1>7. n - i \in 1..ring_len
  BY <1>3, <1>4, <1>5, RingAssumption DEF SnapshotInv, RingInv, Least, TypeOK
<1>8. ring[Back(n - i)] = log[mark + 1 - (n - i)] BY <1>4, <1>7 DEF SnapshotInv, RingInv
<1>9. out' = Append(out, log[mark + 1 - (n - i)]) BY <1>3, <1>6, <1>8
<1>10. Back(n - i) \in Indices BY <1>5, <1>6, ModRange DEF TypeOK, Indices
<1>11. log[mark + 1 - (n - i)] \in Bytes \cup {Blank} BY <1>5, <1>8, <1>10
<1>12. mark + 1 - (n - i) = mark - n + (i + 1) BY <1>5
<1>13. Len(out') = i + 1 /\ \A k \in 1..(i + 1) : out'[k] = log[mark - n + k]
  <2> DEFINE v == log[mark + 1 - (n - i)]
  <2>1. out' = Append(out, v) /\ v \in Bytes \cup {Blank} BY <1>9, <1>11
  <2>2. v = log[mark - n + (i + 1)] BY <1>12
  <2> HIDE DEF v
  <2>3. Len(out') = i + 1 /\ out'[i + 1] = v BY <1>5, <2>1
  <2>4. \A k \in 1..i : out'[k] = out[k] BY <1>5, <2>1
  <2> HIDE DEF i
  <2>5. ASSUME NEW k \in 1..(i + 1) PROVE out'[k] = log[mark - n + k]
    <3>1. CASE k = i + 1 BY <2>2, <2>3, <3>1
    <3>2. CASE k \in 1..i BY <1>4, <2>4, <3>2
    <3> QED BY <1>5, <2>5, <3>1, <3>2
  <2> QED BY <2>3, <2>5
<1>14. Back(n)' = Back(n) BY <1>3 DEF Back, ringVars
<1>15. CopyInv'
  BY <1>3, <1>4, <1>5, <1>13, <1>14 DEF CopyInv, ringVars
<1> QED BY <1>1, <1>2, <1>15 DEF SnapshotInv

\* Returning releases the lock and leaves the copy as it is.
LEMMA SnapshotReturns ==
  ASSUME TypeOK, SnapshotInv, SnapshotDone
  PROVE  SnapshotInv'
<1>1. RingInv' BY DEF SnapshotDone, SnapshotInv, RingInv, Back, ringVars
<1>2. CopyInv' BY DEF SnapshotDone, CopyInv
<1>3. ReturnInv'
  BY DEF SnapshotDone, SnapshotInv, CopyInv, ReturnInv, SnapshotIsNewest, ringVars, TypeOK
<1> QED BY <1>1, <1>2, <1>3 DEF SnapshotInv

\* Calls without a buffer return at once, others wait for the lock.
LEMMA SnapshotCalls ==
  ASSUME TypeOK, SnapshotInv, NEW c \in 0..MaxCap, SnapshotCall(c)
  PROVE  SnapshotInv'
<1>1. RingInv' BY DEF SnapshotCall, SnapshotInv, RingInv, Back, ringVars
<1>2. CopyInv' BY ChunkAssumption DEF SnapshotCall, CopyInv
<1>3. ReturnInv'
  BY ChunkAssumption DEF SnapshotCall, ReturnInv, SnapshotIsNewest, ringVars, TypeOK
<1> QED BY <1>1, <1>2, <1>3 DEF SnapshotInv

\* The ring holds the newest bytes at every instant, and a snapshot in
\* progress or returned agrees with what had been logged when it began.
THEOREM SnapshotInvariant == Spec => []SnapshotInv
<1>1. Init => SnapshotInv
  BY RingAssumption
  DEF Init, SnapshotInv, RingInv, CopyInv, ReturnInv, SnapshotIsNewest, Least
<1>2. TypeOK /\ SnapshotInv /\ [Next]_vars => SnapshotInv'
  <2> SUFFICES ASSUME TypeOK, SnapshotInv, [Next]_vars PROVE SnapshotInv' OBVIOUS
  <2>1. CASE UNCHANGED vars BY <2>1, SnapshotQuiet DEF vars, ringVars, snapVars
  <2>2. ASSUME NEW t \in Threads, PutLock(t) PROVE SnapshotInv'
    BY <2>2, SnapshotQuiet DEF PutLock, k_spin_lock
  <2>3. ASSUME NEW t \in Threads, PutByte(t) PROVE SnapshotInv'
    BY <2>3, SnapshotPut
  <2>4. ASSUME NEW t \in Threads, PutUnlock(t) PROVE SnapshotInv'
    BY <2>4, SnapshotQuiet, ThreadsAssumption DEF PutUnlock
  <2>5. ASSUME NEW t \in Threads, NEW len \in 1..MaxChunk, out_write(t, len)
        PROVE  SnapshotInv'
    BY <2>5, SnapshotQuiet DEF out_write
  <2>6. CASE ShipLogs
    BY <2>6
    DEF ShipLogs, SnapshotInv, RingInv, CopyInv, ReturnInv, SnapshotIsNewest, Back, ringVars
  <2> QED BY <2>1, <2>2, <2>3, <2>4, <2>5, <2>6, SnapshotLocks, SnapshotCopies,
             SnapshotReturns, SnapshotCalls DEF Next, ring_put, applog_snapshot
<1> QED BY <1>1, <1>2, RingTypeCorrect, PTL DEF Spec

\* applog_snapshot returns the newest bytes in order, for every ring size and
\* buffer size, however many threads log meanwhile.
THEOREM SnapshotIsNewestHolds == Spec => []SnapshotIsNewest
<1>1. SnapshotInv => SnapshotIsNewest BY DEF SnapshotInv, ReturnInv
<1> QED BY <1>1, SnapshotInvariant, PTL

-----------------------------------------------------------------------------
(* Chunks stay whole.                                                      *)

\* A chunk that is not complete yet belongs to the holder of the lock.
TailInv == Len(log) > 0 =>
             \/ log[Len(log)][2] = 1
             \/ \E t \in Threads : /\ ring_lock = t /\ log[Len(log)][1] = t
                                   /\ left[t] = log[Len(log)][2] - 1

\* The lock keeps the bytes of one ring_put call together in the log, for any
\* number of threads and any chunk size.
THEOREM ChunksWholeHolds == Spec => []ChunksWhole
<1>1. Init => TailInv /\ ChunksWhole BY DEF Init, TailInv, ChunksWhole
<1>2. TypeOK /\ SnapshotInv /\ TailInv /\ ChunksWhole /\ [Next]_vars => TailInv' /\ ChunksWhole'
  <2> SUFFICES ASSUME TypeOK, SnapshotInv, TailInv, ChunksWhole, [Next]_vars
               PROVE  TailInv' /\ ChunksWhole'
    OBVIOUS
  <2>1. ASSUME UNCHANGED <<log, ring_lock, left>> PROVE TailInv' /\ ChunksWhole'
    BY <2>1 DEF TailInv, ChunksWhole
  <2>2. ASSUME NEW t \in Threads, PutLock(t) PROVE TailInv' /\ ChunksWhole'
    BY <2>2, ThreadsAssumption DEF PutLock, k_spin_lock, ringVars, TailInv, ChunksWhole
  <2>3. ASSUME NEW t \in Threads, PutByte(t) PROVE TailInv' /\ ChunksWhole'
    <3> DEFINE b == <<t, left[t]>>
    <3>1. b \in Bytes /\ log \in Seq(Bytes) BY <2>3 DEF PutByte, TypeOK, Bytes
    <3>2. log' = Append(log, b) /\ ring_lock = t /\ ring_lock' = t BY <2>3 DEF PutByte
    <3>3. b[1] = t /\ b[2] = left[t] /\ left[t] \in Nat /\ left'[t] = left[t] - 1
      BY <2>3 DEF PutByte, TypeOK
    <3>4. Len(log) > 0 => log[Len(log)] \in Bytes BY <3>1
    <3>5. Len(log) > 0 /\ log[Len(log)][2] > 1 =>
            b = <<log[Len(log)][1], log[Len(log)][2] - 1>>
      BY <3>2, <3>4 DEF TailInv, Bytes
    <3> HIDE DEF b
    <3>6. /\ Len(log') = Len(log) + 1 /\ log'[Len(log) + 1] = b /\ Len(log) \in Nat
          /\ \A k \in 1..Len(log) : log'[k] = log[k]
      BY <3>1, <3>2
    <3>7. TailInv' BY <3>2, <3>3, <3>6 DEF TailInv
    <3>8. ASSUME NEW k \in 1..(Len(log') - 1), log'[k][2] > 1
          PROVE  log'[k + 1] = <<log'[k][1], log'[k][2] - 1>>
      <4>1. CASE k = Len(log) BY <3>5, <3>6, <3>8, <4>1
      <4>2. CASE k \in 1..(Len(log) - 1)
        BY <3>6, <3>8, <4>2 DEF ChunksWhole
      <4> QED BY <3>6, <3>8, <4>1, <4>2
    <3> QED BY <3>7, <3>8 DEF ChunksWhole
  <2>4. ASSUME NEW t \in Threads, PutUnlock(t) PROVE TailInv' /\ ChunksWhole'
    <3>1. log \in Seq(Bytes) BY DEF TypeOK
    <3>2. Len(log) > 0 => log[Len(log)][2] \in Nat BY <3>1 DEF Bytes
    <3> QED BY <2>4, <3>2 DEF PutUnlock, ringVars, TailInv, ChunksWhole
  <2>5. ASSUME NEW t \in Threads, NEW len \in 1..MaxChunk, out_write(t, len)
        PROVE  TailInv' /\ ChunksWhole'
    BY <2>5 DEF out_write, ringVars, TailInv, ChunksWhole, TypeOK
  <2>6. CASE SnapshotLock
    BY <2>6, ThreadsAssumption DEF SnapshotLock, k_spin_lock, ringVars, TailInv, ChunksWhole
  <2>7. CASE SnapshotDone
    BY <2>7, ThreadsAssumption
    DEF SnapshotDone, SnapshotInv, CopyInv, ringVars, TailInv, ChunksWhole
  <2> QED BY <2>1, <2>2, <2>3, <2>4, <2>5, <2>6, <2>7
      DEF Next, ring_put, applog_snapshot, vars, ringVars, SnapshotCall, SnapshotByte, ShipLogs
<1> QED BY <1>1, <1>2, RingTypeCorrect, SnapshotInvariant, PTL DEF Spec
=============================================================================
