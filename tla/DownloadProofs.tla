---------------------------- MODULE DownloadProofs -------------------------
(***************************************************************************)
(* Staging is exact and complete for every buffer, block, slot, image and  *)
(* response size, and for every way the network cuts the response up.      *)
(***************************************************************************)
EXTENDS Download, TLAPS

USE BufferAssumption, FlashAssumption, SizeAssumption, HeadAssumption, BodyAssumption

DownloadIInv == TypeOK /\ DownloadInv

\* What every step that only returns or moves on leaves alone.
Data == <<response, taken, got, flash, off, match>>

\* A piece of at least one byte is cut to what the image still lacks.
LEMMA TakeBounds ==
  ASSUME TypeOK, got < size, NEW n \in Nat \ {0}
  PROVE  /\ Take(n) \in 1..n /\ got + Take(n) <= size
         /\ got + Take(n) < size => Take(n) = n
BY DEF TypeOK, Take

\* stage_sink, given bytes that continue the image: the slot still holds a
\* prefix of the body, and the piece that completes it is flushed.
LEMMA SinkKeepsPrefix ==
  ASSUME TypeOK, SinkIsPrefix, UNCHANGED response,
         NEW len \in Nat, len # 0, got + len <= size,
         flash_img_buffered_write(hdr + got, len, Last(len)), got' = got + len
  PROVE  /\ SinkIsPrefix' /\ (got' = size => durable' = size)
         /\ slot' \in [Cells -> Nat \cup {Erased}] /\ fill' \in Nat /\ durable' \in Nat
<1> USE DEF TypeOK, response, Cells
<1>1. /\ fill = got /\ fill + len <= SLOT
      /\ slot' = [p \in Cells |-> IF fill <= p /\ p < fill + len THEN hdr + got + (p - fill)
                                                                ELSE slot[p]]
      /\ fill' = fill + len /\ durable' \in durable..(fill + len)
      /\ Last(len) => durable' = fill + len
  BY DEF flash_img_buffered_write, SinkIsPrefix
<1>2. \A p \in 0..(fill' - 1) : slot'[p] = hdr + p
  BY <1>1 DEF SinkIsPrefix
<1>3. got' = fill' /\ durable' <= fill' /\ fill' <= size /\ (got' = size => durable' = size)
  BY <1>1 DEF Last, SinkIsPrefix
<1>4. slot' \in [Cells -> Nat \cup {Erased}]
  BY <1>1
<1> QED BY <1>1, <1>2, <1>3, <1>4 DEF SinkIsPrefix

\* A servable image fits into the slot, so a failing stage_sink is a fault.
LEMMA SinkFailureIsFault ==
  ASSUME TypeOK, SinkIsPrefix, Servable, NEW len \in Nat, got + len <= size,
         (fill + len > SLOT /\ UNCHANGED broken) \/ Fault("flash")
  PROVE  broken'
BY DEF TypeOK, SinkIsPrefix, Servable, Fault

\* Initially nothing is written and nothing was lost.
LEMMA DownloadInitially == Init => DownloadIInv
<1> SUFFICES ASSUME Init PROVE DownloadIInv
  OBVIOUS
<1> USE DEF Init
<1>1. TypeOK
  <2>1. genuine \in BOOLEAN /\ match \in BOOLEAN /\ broken \in BOOLEAN
    BY Zenon
  <2>2. taken \in 0..(hdr + body) /\ got \in 0..size /\ rc \in {1, 0, -1, -3, -4, -5}
    OBVIOUS
  <2>3. slot \in [Cells -> Nat \cup {Erased}]
    BY DEF Erased
  <2>4. pc \in Pcs /\ size \in Sizes /\ hdr \in HeadLens /\ body \in BodyLens
        /\ code \in Codes
    BY Zenon DEF Pcs
  <2>5. fill \in Nat /\ durable \in Nat /\ off \in Nat
    OBVIOUS
  <2> QED BY <2>1, <2>2, <2>3, <2>4, <2>5, Zenon DEF TypeOK
<1>2. DownloadInv
  BY DEF DownloadInv, SinkIsPrefix, StreamInv, HeadHasRoom, FlushInv, GoodInv, HashInv,
         StagedIsExact
<1> QED BY <1>1, <1>2 DEF DownloadIInv

-----------------------------------------------------------------------------
(* Types.                                                                  *)

\* The parts of the type invariant that need arithmetic, and the others.
Counts == /\ taken \in 0..(hdr + body) /\ got \in 0..size /\ off \in Nat
          /\ fill \in Nat /\ durable \in Nat /\ slot \in [Cells -> Nat \cup {Erased}]
Flags == genuine \in BOOLEAN /\ match \in BOOLEAN /\ broken \in BOOLEAN
Shape == size \in Sizes /\ hdr \in HeadLens /\ body \in BodyLens /\ code \in Codes
Place == pc \in Pcs /\ rc \in {1, 0, -1, -3, -4, -5}

\* The response is what it is.
LEMMA ResponseFixed == ASSUME [Next]_vars PROVE UNCHANGED response
BY Zenon DEF vars, Next, Stage, Download, Verify, Connect, RecvHead, RecvHeadEnds, First,
   RecvBody, BodyEnds, Close, VerifyChunk, VerifyDone, VerifyFails

\* Every step names its next program point and result.
LEMMA PlaceStep == ASSUME TypeOK, [Next]_vars PROVE Place'
<1> USE DEF Place, Pcs, Goto, Return
<1>1. CASE Stage \/ Connect \/ RecvHeadEnds \/ BodyEnds \/ Close
  BY <1>1 DEF TypeOK, Stage, Connect, RecvHeadEnds, BodyEnds, Close
<1>2. CASE \E n \in 1..AtMost(BUF - taken, Left) : RecvHead(n)
  BY <1>2 DEF TypeOK, RecvHead
<1>3. CASE First \/ \E n \in 1..AtMost(BUF, Left) : RecvBody(n)
  BY <1>3 DEF TypeOK, First, RecvBody, stage_sink
<1>4. CASE Verify
  BY <1>4 DEF TypeOK, Verify, VerifyChunk, VerifyDone, VerifyFails
<1>5. CASE UNCHANGED vars
  BY <1>5 DEF TypeOK, vars
<1> QED BY <1>1, <1>2, <1>3, <1>4, <1>5 DEF Next, Download

\* Booleans stay Booleans.
LEMMA FlagsStep == ASSUME TypeOK, [Next]_vars PROVE Flags'
<1> USE DEF Flags, Fault
<1>1. genuine' = genuine /\ genuine \in BOOLEAN
  BY ResponseFixed, Zenon DEF response, TypeOK
<1>2. CASE Stage \/ Connect \/ RecvHeadEnds \/ BodyEnds \/ Close
  BY <1>1, <1>2, Zenon DEF TypeOK, Stage, Connect, RecvHeadEnds, BodyEnds, Close
<1>3. CASE \E n \in 1..AtMost(BUF - taken, Left) : RecvHead(n)
  BY <1>1, <1>3, Zenon DEF TypeOK, RecvHead
<1>4. CASE First \/ \E n \in 1..AtMost(BUF, Left) : RecvBody(n)
  <2>1. match' = match /\ match \in BOOLEAN
    BY <1>4, Zenon DEF TypeOK, First, RecvBody
  <2>2. UNCHANGED broken \/ broken' = TRUE
    <3>1. ASSUME NEW from, NEW len, NEW next, stage_sink(from, len, next)
          PROVE  UNCHANGED broken \/ broken' = TRUE
      BY <3>1, Zenon DEF stage_sink
    <3> QED BY <1>4, <3>1, Zenon DEF First, RecvBody
  <2> QED BY <1>1, <2>1, <2>2, Zenon DEF TypeOK
<1>5. CASE VerifyChunk
  BY <1>1, <1>5, Zenon DEF TypeOK, VerifyChunk
<1>6. CASE VerifyDone \/ VerifyFails
  BY <1>1, <1>6, Zenon DEF TypeOK, VerifyDone, VerifyFails
<1>7. CASE UNCHANGED vars
  BY <1>1, <1>7, Zenon DEF TypeOK, vars
<1> QED BY <1>2, <1>3, <1>4, <1>5, <1>6, <1>7, Zenon DEF Next, Download, Verify

\* The offset of the digest check, and what no step but a sink's changes.
LEMMA OffStep == ASSUME TypeOK, [Next]_vars PROVE off' \in Nat
<1>1. CASE VerifyChunk
  BY <1>1 DEF TypeOK, VerifyChunk, AtMost
<1>2. CASE ~VerifyChunk
  <2>1. off' = off
    BY <1>2, Zenon DEF vars, Next, Stage, Download, Verify, Connect, RecvHead, RecvHeadEnds,
       First, RecvBody, BodyEnds, Close, VerifyDone, VerifyFails
  <2> QED BY <2>1 DEF TypeOK
<1> QED BY <1>1, <1>2

\* A stage_sink that succeeds or fails, on bytes that continue the image.
LEMMA SinkStep ==
  ASSUME DownloadIInv, UNCHANGED response, NEW len \in Nat, len # 0, got + len <= size,
         NEW next, stage_sink(hdr + got, len, next)
  PROVE  /\ SinkIsPrefix' /\ got' \in 0..size
         /\ slot' \in [Cells -> Nat \cup {Erased}] /\ fill' \in Nat /\ durable' \in Nat
         /\ \/ got' = got + len /\ Goto(next) /\ UNCHANGED broken
               /\ (got' = size => durable' = size)
            \/ Return(-5) /\ (Servable => broken')
<1> USE DEF DownloadIInv, DownloadInv
<1>1. CASE /\ flash_img_buffered_write(hdr + got, len, Last(len))
           /\ got' = got + len /\ Goto(next) /\ UNCHANGED broken
  <2>1. got' \in 0..size
    BY <1>1 DEF TypeOK
  <2> QED BY <1>1, <2>1, SinkKeepsPrefix
<1>2. CASE /\ (fill + len > SLOT /\ UNCHANGED broken) \/ Fault("flash")
           /\ Return(-5) /\ UNCHANGED <<got, flash>>
  <2>1. SinkIsPrefix' /\ got' \in 0..size
        /\ slot' \in [Cells -> Nat \cup {Erased}] /\ fill' \in Nat /\ durable' \in Nat
    BY <1>2 DEF TypeOK, SinkIsPrefix, flash, response
  <2> QED BY <1>2, <2>1, SinkFailureIsFault
<1> QED BY <1>1, <1>2 DEF stage_sink

\* What a step of the body loop, or the one that enters it, achieves.
Delivered ==
  /\ UNCHANGED <<response, off, match>> /\ SinkIsPrefix' /\ Counts'
  /\ \/ pc' = "done" /\ rc' \in {-4, -5} /\ (Servable => broken')
     \/ /\ pc' = "body" /\ rc' = rc /\ UNCHANGED broken
        /\ got' = size => durable' = size
        /\ got' < size => taken' = hdr + got'

LEMMA DeliveredKeeps ==
  ASSUME DownloadIInv, pc \in {"first", "body"}, Delivered
  PROVE  DownloadInv'
<1> USE DEF DownloadIInv, DownloadInv, TypeOK, Delivered, response
<1>1. StreamInv'
  BY DEF StreamInv, HeadHasRoom
<1>2. FlushInv'
  BY DEF FlushInv
<1>3. GoodInv'
  BY DEF GoodInv, Servable
<1>4. HashInv' /\ StagedIsExact'
  BY DEF HashInv, StagedIsExact
<1> QED BY <1>1, <1>2, <1>3, <1>4

\* The first piece starts at the body's first byte ...
LEMMA FirstDelivers == ASSUME DownloadIInv, First PROVE Delivered
<1> USE DEF DownloadIInv, DownloadInv, TypeOK
<1>1. UNCHANGED <<response, taken, off, match>> /\ got = 0 /\ hdr <= taken /\ size # 0
  BY DEF First, StreamInv, FlushInv
<1>2. CASE code \notin {200, 206} /\ Return(-4) /\ UNCHANGED <<got, flash, broken>>
  BY <1>1, <1>2 DEF Delivered, SinkIsPrefix, Counts, Servable, Return, response, flash
<1>3. CASE taken = hdr /\ Goto("body") /\ UNCHANGED <<got, flash, broken>>
  <2>1. SinkIsPrefix' /\ Counts'
    BY <1>1, <1>3 DEF SinkIsPrefix, Counts, response, flash
  <2>2. taken' = hdr + got'
    BY <1>1, <1>3
  <2>3. pc' = "body" /\ rc' = rc /\ UNCHANGED broken
    BY <1>3, Zenon DEF Goto
  <2>4. got' # size
    BY <1>1, <1>3
  <2> QED BY <1>1, <2>1, <2>2, <2>3, <2>4, Zenon DEF Delivered
<1>4. CASE taken > hdr /\ stage_sink(hdr, Take(taken - hdr), "body")
  <2> DEFINE len == Take(taken - hdr)
  <2>1. taken - hdr \in Nat \ {0} /\ got < size /\ hdr + got = hdr
    BY <1>1, <1>4
  <2>2. len \in Nat /\ len # 0 /\ got + len <= size /\ (got + len < size => len = taken - hdr)
    BY <2>1, TakeBounds
  <2>3. stage_sink(hdr + got, len, "body")
    BY <1>4, <2>1
  <2> HIDE DEF len
  <2>4. /\ SinkIsPrefix' /\ got' \in 0..size
        /\ slot' \in [Cells -> Nat \cup {Erased}] /\ fill' \in Nat /\ durable' \in Nat
        /\ \/ got' = got + len /\ Goto("body") /\ UNCHANGED broken
              /\ (got' = size => durable' = size)
           \/ Return(-5) /\ (Servable => broken')
    BY <1>1, <2>2, <2>3, SinkStep
  <2>5. Counts'
    BY <1>1, <2>4 DEF Counts, response
  <2>6. got' = got + len => (got' < size => taken' = hdr + got')
    BY <1>1, <2>2
  <2>7. rc' = -5 => rc' \in {-4, -5}
    OBVIOUS
  <2> QED BY <1>1, <2>4, <2>5, <2>6, <2>7, Zenon DEF Delivered, Goto, Return
<1> QED BY <1>2, <1>3, <1>4 DEF First

\* ... and every later one where the piece before it ended.
LEMMA RecvBodyDelivers ==
  ASSUME DownloadIInv, NEW n \in 1..AtMost(BUF, Left), RecvBody(n)
  PROVE  Delivered
<1> USE DEF DownloadIInv, DownloadInv, TypeOK
<1>1. /\ UNCHANGED <<response, off, match>> /\ got < size /\ taken = hdr + got
      /\ n \in Nat \ {0} /\ taken' = taken + n /\ taken' <= hdr + body
  BY DEF RecvBody, StreamInv, AtMost, Left
<1> DEFINE len == Take(n)
<1>2. len \in Nat /\ len # 0 /\ got + len <= size /\ (got + len < size => len = n)
  BY <1>1, TakeBounds
<1>3. stage_sink(hdr + got, len, "body")
  BY <1>1 DEF RecvBody
<1> HIDE DEF len
<1>4. /\ SinkIsPrefix' /\ got' \in 0..size
      /\ slot' \in [Cells -> Nat \cup {Erased}] /\ fill' \in Nat /\ durable' \in Nat
      /\ \/ got' = got + len /\ Goto("body") /\ UNCHANGED broken
            /\ (got' = size => durable' = size)
         \/ Return(-5) /\ (Servable => broken')
  BY <1>1, <1>2, <1>3, SinkStep
<1>5. Counts'
  BY <1>1, <1>4 DEF Counts, response
<1>6. got' = got + len => (got' < size => taken' = hdr + got')
  BY <1>1, <1>2
<1>7. rc' = -5 => rc' \in {-4, -5}
  OBVIOUS
<1> QED BY <1>1, <1>4, <1>5, <1>6, <1>7, Zenon DEF Delivered, Goto, Return

-----------------------------------------------------------------------------
(* The inductive step.                                                     *)

\* The steps that touch neither the image nor the digest.
LEMMA QuietSteps ==
  ASSUME DownloadIInv, [Next]_vars, UNCHANGED <<got, flash, off, match>>,
         \/ Stage \/ Connect \/ RecvHeadEnds \/ BodyEnds \/ Close \/ VerifyDone \/ VerifyFails
         \/ \E n \in 1..AtMost(BUF - taken, Left) : RecvHead(n)
  PROVE  DownloadInv' /\ Counts'
<1> USE DEF DownloadIInv, DownloadInv, TypeOK, Goto, Return
<1>1. UNCHANGED response
  BY ResponseFixed
<1>2. taken' \in 0..(hdr + body)
  BY DEF Stage, Connect, RecvHeadEnds, BodyEnds, Close, VerifyDone, VerifyFails, RecvHead,
         AtMost, Left
<1>3. SinkIsPrefix' /\ Counts'
  BY <1>1, <1>2 DEF SinkIsPrefix, Counts, response, flash
<1>4. StreamInv'
  BY <1>1 DEF StreamInv, HeadHasRoom, Stage, Connect, RecvHeadEnds, BodyEnds, Close,
     VerifyDone, VerifyFails, RecvHead, body_offset, AtMost, Left, response
<1>5. FlushInv'
  BY <1>1 DEF FlushInv, Stage, Connect, RecvHeadEnds, BodyEnds, Close, VerifyDone,
     VerifyFails, RecvHead, response, flash
<1>6. GoodInv'
  <2> SUFFICES ASSUME Servable', ~broken'
               PROVE  /\ pc' = "close" => got' = size'
                      /\ pc' = "verify" => match'
                      /\ pc' = "done" => rc' = 0
    BY DEF GoodInv
  <2>1. Servable /\ ~broken
    BY <1>1 DEF Servable, response, Stage, Connect, RecvHeadEnds, BodyEnds, Close, VerifyDone,
       VerifyFails, RecvHead, Fault
  <2>2. CASE Stage \/ Connect \/ VerifyFails
    BY <1>1, <2>1, <2>2 DEF Stage, Connect, VerifyFails, Servable, Fault, response
  <2>3. CASE \E n \in 1..AtMost(BUF - taken, Left) : RecvHead(n)
    BY <1>1, <2>1, <2>3 DEF RecvHead, Servable, body_offset, StreamInv, response
  <2>4. CASE RecvHeadEnds
    BY <1>1, <2>1, <2>4 DEF RecvHeadEnds, Servable, Fault, StreamInv, Left, response
  <2>5. CASE BodyEnds
    BY <1>1, <2>1, <2>5 DEF BodyEnds, Servable, Fault, StreamInv, Left, response
  <2>6. CASE Close
    BY <1>1, <2>1, <2>6 DEF Close, GoodInv, HashInv, response
  <2>7. CASE VerifyDone
    BY <1>1, <2>1, <2>7 DEF VerifyDone, GoodInv, response
  <2> QED BY <2>2, <2>3, <2>4, <2>5, <2>6, <2>7
<1>7. HashInv'
  BY <1>1 DEF HashInv, Read, Stage, Connect, RecvHeadEnds, BodyEnds, Close, VerifyDone,
     VerifyFails, RecvHead, response, flash
<1>8. StagedIsExact'
  <2>1. CASE VerifyDone
    BY <1>1, <2>1 DEF VerifyDone, StagedIsExact, HashInv, SinkIsPrefix, FlushInv, response, flash
  <2>2. CASE ~VerifyDone
    <3>1. rc' # 0
      BY <2>2 DEF HashInv, Stage, Connect, RecvHeadEnds, BodyEnds, Close, VerifyFails, RecvHead
    <3> QED BY <3>1 DEF StagedIsExact
  <2> QED BY <2>1, <2>2
<1> QED BY <1>3, <1>4, <1>5, <1>6, <1>7, <1>8

\* Hashing the next piece of a slot that stands still.
LEMMA VerifyChunkStep ==
  ASSUME DownloadIInv, VerifyChunk
  PROVE  DownloadInv' /\ Counts'
<1> USE DEF DownloadIInv, DownloadInv, TypeOK
<1> DEFINE n == AtMost(size - off, RB)
<1>1. /\ UNCHANGED <<response, taken, got, flash, broken, pc, rc>> /\ pc = "verify"
      /\ off' = off + n /\ match' = (match /\ Hash(off, n)) /\ off < size
  BY DEF VerifyChunk, Goto
<1>2. n \in Nat \ {0} /\ off + n <= size
  BY <1>1 DEF HashInv, AtMost
<1> HIDE DEF n
<1>3. SinkIsPrefix' /\ Counts' /\ StreamInv' /\ FlushInv' /\ StagedIsExact'
  BY <1>1, <1>2 DEF SinkIsPrefix, Counts, StreamInv, HeadHasRoom, FlushInv, StagedIsExact,
     HashInv, response, flash
<1>4. HashInv'
  <2>1. match' => \A p \in 0..(off' - 1) : genuine /\ Read(p) = hdr + p
    <3> SUFFICES ASSUME match', NEW p \in 0..(off' - 1) PROVE genuine /\ Read(p) = hdr + p
      OBVIOUS
    <3>1. match /\ Hash(off, n)
      BY <1>1
    <3>2. CASE p < off
      BY <1>1, <3>1, <3>2 DEF HashInv
    <3>3. CASE off <= p
      BY <1>1, <1>2, <3>1, <3>3 DEF Hash
    <3> QED BY <3>2, <3>3
  <2>2. \A p : Read(p)' = Read(p)
    BY <1>1 DEF Read, flash
  <2> QED BY <1>1, <1>2, <2>1, <2>2 DEF HashInv, response
<1>5. GoodInv'
  <2> SUFFICES ASSUME Servable', ~broken' PROVE match'
    BY <1>1 DEF GoodInv
  <2>1. Servable /\ ~broken /\ match
    BY <1>1 DEF GoodInv, Servable, response
  <2>2. \A p \in off..(off + n - 1) : genuine /\ Read(p) = hdr + p
    BY <1>1, <1>2, <2>1 DEF Servable, Read, FlushInv, SinkIsPrefix
  <2> QED BY <1>1, <2>1, <2>2 DEF Hash
<1> QED BY <1>3, <1>4, <1>5

\* Every step of plat_stage_image keeps the invariant.
LEMMA DownloadNext == DownloadIInv /\ [Next]_vars => DownloadIInv'
<1> SUFFICES ASSUME DownloadIInv, [Next]_vars PROVE DownloadInv' /\ Counts' /\ Shape'
  BY PlaceStep, FlagsStep, Zenon DEF DownloadIInv, TypeOK, Counts, Flags, Shape, Place
<1>1. Shape'
  BY ResponseFixed DEF response, Shape, DownloadIInv, TypeOK
<1>2. CASE UNCHANGED vars
  <2>1. DownloadInv'
    BY <1>2 DEF vars, response, flash, DownloadIInv, DownloadInv, SinkIsPrefix, StreamInv,
       HeadHasRoom, FlushInv, GoodInv, Servable, HashInv, Read, StagedIsExact
  <2>2. Counts'
    BY <1>2 DEF vars, response, flash, DownloadIInv, TypeOK, Counts
  <2> QED BY <1>1, <2>1, <2>2
<1>3. CASE First
  BY <1>1, <1>3, FirstDelivers, DeliveredKeeps DEF First, Delivered
<1>4. CASE \E n \in 1..AtMost(BUF, Left) : RecvBody(n)
  BY <1>1, <1>4, RecvBodyDelivers, DeliveredKeeps DEF RecvBody, Delivered
<1>5. CASE VerifyChunk
  BY <1>1, <1>5, VerifyChunkStep
<1>6. CASE \/ Stage \/ Connect \/ RecvHeadEnds \/ BodyEnds \/ Close \/ VerifyDone \/ VerifyFails
           \/ \E n \in 1..AtMost(BUF - taken, Left) : RecvHead(n)
  <2>1. UNCHANGED <<got, flash, off, match>>
    BY <1>6 DEF Stage, Connect, RecvHeadEnds, BodyEnds, Close, VerifyDone, VerifyFails, RecvHead
  <2> QED BY <1>1, <1>6, <2>1, QuietSteps
<1> QED BY <1>2, <1>3, <1>4, <1>5, <1>6 DEF Next, Download, Verify

-----------------------------------------------------------------------------
(* Theorems.                                                               *)

\* The accounting of plat_net_firmware_download and the digest check agree
\* with the stream at every step, for every size.
THEOREM DownloadInvariant == Spec => [](TypeOK /\ DownloadInv)
BY DownloadInitially, DownloadNext, PTL DEF Spec, DownloadIInv

\* plat_stage_image succeeds only with the manifest's image in the flash.
THEOREM StagedIsExactHolds == Spec => []StagedIsExact
<1>1. DownloadInv => StagedIsExact
  BY DEF DownloadInv
<1> QED BY <1>1, DownloadInvariant, PTL

\* What the sink was given is the body's beginning, in order, and no more than
\* the image.
THEOREM SinkIsPrefixHolds == Spec => []SinkIsPrefix
<1>1. DownloadInv => SinkIsPrefix
  BY DEF DownloadInv
<1> QED BY <1>1, DownloadInvariant, PTL

\* A complete answer with the right image is staged, however it is cut up.
THEOREM GoodImageIsStagedHolds == Spec => []GoodImageIsStaged
<1>1. DownloadInv => GoodImageIsStaged
  BY DEF DownloadInv, GoodInv, GoodImageIsStaged
<1> QED BY <1>1, DownloadInvariant, PTL

-----------------------------------------------------------------------------
(* Termination.  That plat_stage_image returns is a liveness property; the *)
(* bound on its steps that makes it return is one of safety.               *)

\* How many steps of the function are still ahead.
Rank(p) == CASE p = "stage" -> 7 [] p = "connect" -> 6 [] p = "headers" -> 5 [] p = "first" -> 4
             [] p = "body" -> 3 [] p = "close" -> 2 [] p = "verify" -> 1 [] OTHER -> 0

\* The bytes still to be received, those still to be hashed, and the steps.
Work == IF pc = "done" THEN 0 ELSE Left + (size - off) + Rank(pc)

\* The ranks, one by one.
LEMMA Ranks ==
  /\ Rank("stage") = 7 /\ Rank("connect") = 6 /\ Rank("headers") = 5 /\ Rank("first") = 4
  /\ Rank("body") = 3 /\ Rank("close") = 2 /\ Rank("verify") = 1
BY DEF Rank

\* The quantities that make up the work are not negative.
LEMMA WorkParts ==
  ASSUME DownloadIInv
  PROVE  /\ taken \in Nat /\ hdr \in Nat /\ body \in Nat /\ size \in Nat /\ off \in Nat
         /\ Left \in Nat
         /\ pc # "done" => off <= size /\ Rank(pc) \in 1..7
<1>1. taken \in 0..(hdr + body) /\ hdr \in Nat /\ body \in Nat /\ size \in Nat /\ off \in Nat
  BY HeadAssumption, BodyAssumption, SizeAssumption DEF DownloadIInv, TypeOK
<1>2. pc # "done" => off <= size
  BY <1>1 DEF DownloadIInv, DownloadInv, HashInv
<1>3. pc # "done" => Rank(pc) \in 1..7
  BY Ranks DEF DownloadIInv, TypeOK, Pcs
<1> QED BY <1>1, <1>2, <1>3 DEF Left

\* A step that goes on to a later step, receives bytes or hashes bytes, and
\* takes none of that back, leaves less to do.
LEMMA WorkLess ==
  ASSUME DownloadIInv, DownloadIInv', pc # "done", UNCHANGED response,
         \/ pc' = "done"
         \/ taken' >= taken /\ off' >= off /\ Rank(pc') < Rank(pc)
         \/ pc' = pc /\ taken' > taken /\ off' = off
         \/ pc' = pc /\ taken' = taken /\ off' > off
  PROVE  Work' < Work
<1>1. /\ taken \in Nat /\ hdr \in Nat /\ body \in Nat /\ size \in Nat /\ off \in Nat
      /\ Left \in Nat /\ off <= size /\ Rank(pc) \in 1..7
  BY WorkParts
<1>2. taken' \in Nat /\ off' \in Nat /\ (pc' # "done" => Rank(pc') \in 1..7)
  <2>1. taken' \in 0..(hdr' + body') /\ off' \in Nat /\ pc' \in Pcs
    BY DEF DownloadIInv, TypeOK
  <2>2. taken' \in Nat
    BY <1>1, <2>1 DEF response
  <2>3. pc' # "done" => Rank(pc') \in 1..7
    BY <2>1, Ranks DEF Pcs
  <2> QED BY <2>1, <2>2, <2>3
<1>3. Left = hdr + body - taken /\ Left' = hdr + body - taken' /\ size' = size
  BY DEF Left, response
<1> DEFINE r == Rank(pc)
           q == Rank(pc')
<1>4. Work = Left + (size - off) + r /\ Work' = IF pc' = "done" THEN 0 ELSE Left' + (size - off') + q
  BY <1>3 DEF Work
<1>5. pc' = pc => q = r
  OBVIOUS
<1> HIDE DEF r, q
<1>6. r \in 1..7 /\ (pc' # "done" => q \in 1..7)
  BY <1>1, <1>2 DEF r, q
<1>7. CASE pc' = "done"
  BY <1>1, <1>4, <1>6, <1>7
<1>8. CASE pc' # "done"
  <2>1. \/ taken' >= taken /\ off' >= off /\ q < r
        \/ q = r /\ taken' > taken /\ off' = off
        \/ q = r /\ taken' = taken /\ off' > off
    BY <1>5, <1>8 DEF q, r
  <2> QED BY <1>1, <1>2, <1>3, <1>4, <1>6, <1>8, <2>1
<1> QED BY <1>7, <1>8

\* Every step of plat_stage_image leaves less to do.
LEMMA WorkDescends ==
  ASSUME DownloadIInv, DownloadIInv', Next
  PROVE  Work' < Work
<1>1. UNCHANGED response /\ pc # "done"
  BY DEF Next, Stage, Download, Connect, RecvHead, RecvHeadEnds, First, RecvBody, BodyEnds, Close,
         Verify, VerifyChunk, VerifyDone, VerifyFails
<1>2. taken \in Nat /\ off \in Nat /\ size \in Nat
  BY WorkParts
<1>3. CASE Stage \/ Connect \/ RecvHeadEnds \/ First \/ BodyEnds \/ Close \/ VerifyDone \/ VerifyFails
  <2>1. taken' = taken /\ off' = off
    BY <1>3 DEF Stage, Connect, RecvHeadEnds, First, BodyEnds, Close, VerifyDone, VerifyFails
  <2>2. pc' = "done" \/ Rank(pc') < Rank(pc)
    BY <1>3, Ranks
    DEF Stage, Connect, RecvHeadEnds, First, stage_sink, BodyEnds, Close, VerifyDone, VerifyFails,
        Return, Goto
  <2> QED BY <1>1, <1>2, <2>1, <2>2, WorkLess
<1>4. ASSUME NEW n \in 1..AtMost(BUF - taken, Left), RecvHead(n)
      PROVE  Work' < Work
  <2>1. n \in Nat \ {0}
    BY <1>2, WorkParts, BufferAssumption DEF AtMost
  <2>2. taken' >= taken /\ taken' > taken /\ off' = off /\ pc = "headers" /\ pc' \in {"first", "done", "headers"}
    BY <1>2, <1>4, <2>1 DEF RecvHead, Return, Goto
  <2>3. off' >= off
    BY <1>2, <2>2
  <2>4. pc' = "first" => Rank(pc') < Rank(pc)
    BY <2>2, Ranks
  <2> QED BY <1>1, <2>2, <2>3, <2>4, WorkLess
<1>5. ASSUME NEW n \in 1..AtMost(BUF, Left), RecvBody(n)
      PROVE  Work' < Work
  <2>1. n \in Nat \ {0}
    BY WorkParts, BufferAssumption DEF AtMost
  <2>2. taken' > taken /\ off' = off /\ pc = "body" /\ pc' \in {"body", "done"}
    BY <1>2, <1>5, <2>1 DEF RecvBody, stage_sink, Return, Goto
  <2> QED BY <1>1, <1>2, <2>2, WorkLess
<1>6. CASE VerifyChunk
  <2>1. AtMost(size - off, RB) \in Nat \ {0}
    BY <1>2, <1>6, BufferAssumption DEF VerifyChunk, AtMost
  <2>2. taken' = taken /\ off' > off /\ pc' = pc
    BY <1>2, <1>6, <2>1 DEF VerifyChunk, Goto
  <2> QED BY <1>1, <2>2, WorkLess
<1> QED BY <1>3, <1>4, <1>5, <1>6 DEF Next, Download, Verify

\* plat_stage_image returns after at most as many steps as the response has
\* bytes and the image has, and seven more, whatever arrives in whatever
\* pieces: what is left to do becomes less with every recv, write and read.
THEOREM StagingBounded ==
  Spec => [](Work \in 0..(hdr + body + size + 7)) /\ [][Work' < Work]_vars
<1>1. DownloadIInv => Work \in 0..(hdr + body + size + 7)
  <2> SUFFICES ASSUME DownloadIInv PROVE Work \in 0..(hdr + body + size + 7)
    OBVIOUS
  <2> DEFINE r == Rank(pc)
  <2>1. /\ taken \in Nat /\ hdr \in Nat /\ body \in Nat /\ size \in Nat /\ off \in Nat
        /\ Left \in Nat /\ Left = hdr + body - taken
        /\ pc # "done" => off <= size /\ r \in 1..7
    BY WorkParts DEF Left
  <2>2. Work = IF pc = "done" THEN 0 ELSE Left + (size - off) + r
    BY DEF Work
  <2> HIDE DEF r
  <2> QED BY <2>1, <2>2
<1>2. DownloadIInv /\ DownloadIInv' /\ [Next]_vars => [Work' < Work]_vars
  BY WorkDescends
<1>3. Spec => []DownloadIInv
  BY DownloadInvariant, PTL DEF DownloadIInv
<1> QED BY <1>1, <1>2, <1>3, PTL DEF Spec
=============================================================================
