------------------------------- MODULE AppLog ------------------------------
(***************************************************************************)
(* The log ring of lib/applog/applog.c: threads that log write chunks into *)
(* it (ring_put, one call per formatted chunk), the agent thread copies the*)
(* newest bytes out of it (applog_snapshot, called by ship_logs).  Every   *)
(* byte is a step, so the spin lock is what keeps the two apart.           *)
(*                                                                         *)
(* A byte is named by the thread that logged it and its distance from the  *)
(* end of its chunk; what was logged so far is kept in a history variable. *)
(***************************************************************************)
EXTENDS Integers, Sequences

CONSTANTS RING_SIZE,   \* CONFIG_MESHANICS_LOG_BUF_SIZE
          Threads,     \* threads that log
          MaxChunk,    \* bytes log_output passes at once (fmt_buf, 64)
          MaxCap,      \* largest buffer a caller offers
          MaxLogged    \* bound on the bytes logged in a behaviour

ASSUME RingAssumption == RING_SIZE \in Nat \ {0}
ASSUME ChunkAssumption == MaxChunk \in Nat \ {0} /\ MaxCap \in Nat /\ MaxLogged \in Nat
ASSUME ThreadsAssumption == Threads \cap {"free", "reader"} = {}

VARIABLES ring, ring_head, ring_len,
          ring_lock,   \* holder: "free", "reader" or a logging thread
          left,        \* bytes of the chunk a thread still has to write
          rpc,         \* applog_snapshot: "idle", "lock", "copy", "ret"
          cap, n, start,
          out,         \* bytes copied so far; Len(out) is the loop counter
          log,         \* history: every byte logged
          mark         \* history: Len(log) when the snapshot took the lock

ringVars == <<ring, ring_head, ring_len, log>>
snapVars == <<rpc, cap, n, start, out, mark>>
vars == <<ringVars, ring_lock, left, snapVars>>

Indices == 0..(RING_SIZE - 1)
Bytes == Threads \X (1..MaxChunk)
Blank == <<>>          \* a ring cell that was never written

TypeOK == /\ ring \in [Indices -> Bytes \cup {Blank}]
          /\ ring_head \in Indices /\ ring_len \in 0..RING_SIZE
          /\ ring_lock \in Threads \cup {"free", "reader"}
          /\ left \in [Threads -> 0..MaxChunk]
          /\ rpc \in {"idle", "lock", "copy", "ret"}
          /\ cap \in 0..MaxCap /\ n \in 0..RING_SIZE /\ start \in Indices
          /\ out \in Seq(Bytes \cup {Blank})
          /\ log \in Seq(Bytes) /\ mark \in Nat

Init == /\ ring = [i \in Indices |-> Blank] /\ ring_head = 0 /\ ring_len = 0
        /\ ring_lock = "free" /\ left = [t \in Threads |-> 0]
        /\ rpc = "idle" /\ cap = 0 /\ n = 0 /\ start = 0 /\ out = <<>>
        /\ log = <<>> /\ mark = 0

-----------------------------------------------------------------------------
(* ring_put.                                                               *)

\* log_output hands a formatted chunk to out_write.
out_write(t, len) == /\ left[t] = 0 /\ ring_lock # t
                     /\ Len(log) + len <= MaxLogged
                     /\ left' = [left EXCEPT ![t] = len]
                     /\ UNCHANGED <<ringVars, ring_lock, snapVars>>

\* Mutant: ring_put enters whoever holds the lock.
lock_ignored(t) == ring_lock # t /\ ring_lock' = t
k_spin_lock(t) == ring_lock = "free" /\ ring_lock' = t

PutLock(t) == /\ left[t] > 0 /\ k_spin_lock(t)
              /\ UNCHANGED <<ringVars, left, snapVars>>

\* Mutant: the retained length is not capped.
grow_unbounded(len) == len + 1
grow(len) == IF len < RING_SIZE THEN len + 1 ELSE len

PutByte(t) == /\ ring_lock = t /\ left[t] > 0
              /\ ring' = [ring EXCEPT ![ring_head] = <<t, left[t]>>]
              /\ ring_head' = (ring_head + 1) % RING_SIZE
              /\ ring_len' = grow(ring_len)
              /\ log' = Append(log, <<t, left[t]>>)
              /\ left' = [left EXCEPT ![t] = @ - 1]
              /\ UNCHANGED <<ring_lock, snapVars>>

PutUnlock(t) == /\ ring_lock = t /\ left[t] = 0
                /\ ring_lock' = "free"
                /\ UNCHANGED <<ringVars, left, snapVars>>

-----------------------------------------------------------------------------
(* applog_snapshot.                                                        *)

\* ship_logs offers a buffer of c bytes; none or an empty one returns 0.
SnapshotCall(c) == /\ rpc = "idle"
                   /\ cap' = c /\ out' = <<>> /\ n' = 0 /\ start' = 0 /\ mark' = 0
                   /\ rpc' = IF c = 0 THEN "ret" ELSE "lock"
                   /\ UNCHANGED <<ringVars, ring_lock, left>>

\* Mutant: the copy starts at the oldest byte although the buffer is smaller.
oldest_first(want) == (ring_head + RING_SIZE - ring_len) % RING_SIZE
SnapshotStart(want) == (ring_head + RING_SIZE - want) % RING_SIZE

SnapshotLen(len, c) == IF len > c - 1 THEN c - 1 ELSE len

SnapshotLock == /\ rpc = "lock" /\ k_spin_lock("reader")
                /\ n' = SnapshotLen(ring_len, cap)
                /\ start' = SnapshotStart(n')
                /\ mark' = Len(log)
                /\ rpc' = "copy"
                /\ UNCHANGED <<ringVars, left, cap, out>>

SnapshotByte == /\ rpc = "copy" /\ Len(out) < n
                /\ out' = Append(out, ring[(start + Len(out)) % RING_SIZE])
                /\ UNCHANGED <<ringVars, ring_lock, left, rpc, cap, n, start, mark>>

SnapshotDone == /\ rpc = "copy" /\ Len(out) = n
                /\ ring_lock' = "free" /\ rpc' = "ret"
                /\ UNCHANGED <<ringVars, left, cap, n, start, out, mark>>

\* plat_net_upload_logs gets out[0..n); its result is only logged.
ShipLogs == /\ rpc = "ret" /\ rpc' = "idle"
            /\ UNCHANGED <<ringVars, ring_lock, left, cap, n, start, out, mark>>

-----------------------------------------------------------------------------

ring_put(t) == PutLock(t) \/ PutByte(t) \/ PutUnlock(t)
applog_snapshot == \/ \E c \in 0..MaxCap : SnapshotCall(c)
                   \/ SnapshotLock \/ SnapshotByte \/ SnapshotDone \/ ShipLogs
Next == \/ \E t \in Threads : ring_put(t) \/ \E len \in 1..MaxChunk : out_write(t, len)
        \/ applog_snapshot
Spec == Init /\ [][Next]_vars

-----------------------------------------------------------------------------
(* Properties.                                                             *)

\* The smaller of two numbers.
Least(a, b) == IF a <= b THEN a ELSE b

\* applog.h: the snapshot is "the most recent captured log text, oldest to
\* newest": what applog_snapshot returns is the end of everything logged when
\* it took the lock, as much as ring and buffer hold, and a NUL fits behind it.
SnapshotIsNewest ==
  rpc = "ret" /\ cap > 0 =>
    /\ n = Least(mark, Least(RING_SIZE, cap - 1)) /\ Len(out) = n
    /\ \A i \in 1..n : out[i] = log[mark - n + i]

\* The bytes of one ring_put call stay together, whoever else logs.
ChunksWhole == \A k \in 1..(Len(log) - 1) :
                 log[k][2] > 1 => log[k + 1] = <<log[k][1], log[k][2] - 1>>

-----------------------------------------------------------------------------
(* The inductive invariant behind SnapshotIsNewest.                        *)

\* Position of the j-th newest byte.
Back(j) == (ring_head + RING_SIZE - j) % RING_SIZE

\* The ring holds the newest bytes, ending just before ring_head.
RingInv == /\ ring_len = Least(Len(log), RING_SIZE)
           /\ \A j \in 1..ring_len : ring[Back(j)] = log[Len(log) + 1 - j]

\* The copy runs under the lock, over a ring that stands still.
CopyInv == /\ rpc = "lock" => out = <<>> /\ cap > 0
           /\ rpc = "copy" =>
                /\ ring_lock = "reader" /\ cap > 0 /\ mark = Len(log)
                /\ n = Least(mark, Least(RING_SIZE, cap - 1))
                /\ start = Back(n) /\ Len(out) <= n
                /\ \A i \in 1..Len(out) : out[i] = log[mark - n + i]

\* Once returned, the copy is right whatever is logged afterwards.
ReturnInv == SnapshotIsNewest /\ (rpc = "ret" => mark <= Len(log))

\* The argument that applog_snapshot returns the newest bytes.
SnapshotInv == RingInv /\ CopyInv /\ ReturnInv
=============================================================================
