------------------------------ MODULE Download -----------------------------
(***************************************************************************)
(* plat_stage_image of lib/plat/plat_mcuboot.c: the firmware request of    *)
(* plat_net_firmware_download (lib/plat/plat_net.c) streamed through       *)
(* stage_sink into slot 1, and the digest check that reads the slot back.  *)
(*                                                                         *)
(* A byte of the response is named by its position in the stream: the head *)
(* ends at hdr, the byte of the body at offset p is hdr + p.  recv returns *)
(* any part of what is left.  Faults: "net" (a request, a send or a recv   *)
(* fails, times out or ends early) and "flash" (a write, read or hash      *)
(* fails).                                                                 *)
(***************************************************************************)
EXTENDS Integers

CONSTANTS BUF,         \* sizeof(buf) of plat_net_firmware_download (1536)
          RB,          \* sizeof(rb) of verify_slot_sha256 (512)
          BLOCK,       \* flash_img's block buffer
          SLOT,        \* bytes of slot 1
          Sizes,       \* size_bytes of the manifests considered
          HeadLens, BodyLens,   \* shapes of the responses considered
          Faults

ASSUME BufferAssumption == BUF \in Nat \ {0} /\ RB \in Nat \ {0}
ASSUME FlashAssumption == BLOCK \in Nat \ {0} /\ SLOT \in Nat
ASSUME SizeAssumption == Sizes \subseteq Nat
ASSUME HeadAssumption == HeadLens \subseteq (Nat \ {0})
ASSUME BodyAssumption == BodyLens \subseteq Nat

VARIABLES pc,
          size,        \* expect_size, from the verified manifest
          hdr, body,   \* length of the response's head and of its body
          code,        \* http_status of the response
          genuine,     \* the body is the image the manifest names
          taken,       \* response bytes received so far (acc, in the head)
          got,         \* body bytes handed to the sink
          slot,        \* stream position of each byte given to flash_img
          fill,        \* bytes given to flash_img
          durable,     \* bytes that reached the flash
          off,         \* verify_slot_sha256's offset
          match,       \* the bytes hashed so far are the manifest's
          rc,          \* result of plat_stage_image's download and check
          broken       \* history: a fault happened

response == <<size, hdr, body, code, genuine>>
flash == <<slot, fill, durable>>
vars == <<pc, response, taken, got, flash, off, match, rc, broken>>

Erased == -1
Codes == {200, 206, 404}
Pcs == {"stage", "connect", "headers", "first", "body", "close", "verify", "done"}
Cells == 0..(SLOT - 1)

TypeOK == /\ pc \in Pcs
          /\ size \in Sizes /\ hdr \in HeadLens /\ body \in BodyLens
          /\ code \in Codes /\ genuine \in BOOLEAN
          /\ taken \in 0..(hdr + body) /\ got \in 0..size
          /\ slot \in [Cells -> Nat \cup {Erased}]
          /\ fill \in Nat /\ durable \in Nat
          /\ off \in Nat /\ match \in BOOLEAN
          /\ rc \in {1, 0, -1, -3, -4, -5} /\ broken \in BOOLEAN

\* rc is 1 as long as nothing was returned.
Init == /\ pc = "stage" /\ size \in Sizes /\ hdr \in HeadLens /\ body \in BodyLens
        /\ code \in Codes /\ genuine \in BOOLEAN
        /\ taken = 0 /\ got = 0 /\ slot = [p \in Cells |-> Erased]
        /\ fill = 0 /\ durable = 0 /\ off = 0 /\ match = TRUE /\ rc = 1 /\ broken = FALSE

Return(result) == pc' = "done" /\ rc' = result
Goto(next) == pc' = next /\ UNCHANGED rc
Fault(f) == f \in Faults /\ broken' = TRUE

\* The lesser of two lengths.
AtMost(a, b) == IF a <= b THEN a ELSE b
Left == hdr + body - taken

-----------------------------------------------------------------------------
(* plat_stage_image up to the request.                                     *)

\* An empty image and a slot that cannot be opened are refused.
Stage == /\ pc = "stage"
         /\ \/ size = 0 /\ Return(-1) /\ UNCHANGED broken
            \/ size # 0 /\ Goto("connect") /\ UNCHANGED broken
            \/ size # 0 /\ Fault("flash") /\ Return(-1)
         /\ UNCHANGED <<response, taken, got, flash, off, match>>

\* tls_connect and the GET request.
Connect == /\ pc = "connect"
           /\ \/ Goto("headers") /\ UNCHANGED broken
              \/ Fault("net") /\ Return(-3)
           /\ UNCHANGED <<response, taken, got, flash, off, match>>

-----------------------------------------------------------------------------
(* The head of the response, read into buf together with some of the body. *)

\* body_offset finds the end of the head once it was received whole.
body_offset(acc) == acc >= hdr

RecvHead(n) == /\ pc = "headers" /\ taken' = taken + n
               /\ IF body_offset(taken') THEN Goto("first")
                  ELSE IF taken' = BUF THEN Return(-4)
                  ELSE Goto("headers")
               /\ UNCHANGED <<response, got, flash, off, match, broken>>

\* recv returns 0 at the end of the stream, or fails.
RecvHeadEnds == /\ pc = "headers"
                /\ \/ Left = 0 /\ UNCHANGED broken
                   \/ Fault("net")
                /\ Return(-3)
                /\ UNCHANGED <<response, taken, got, flash, off, match>>

-----------------------------------------------------------------------------
(* The body: every piece goes through stage_sink to flash_img.             *)

Take(n) == IF got + n > size THEN size - got ELSE n

\* Mutant: the final flush is missed when the last piece fits exactly.
last_off_by_one(len) == got + len > size
Last(len) == got + len >= size

\* flash_img keeps less than a block in RAM until it is full or flushed; what a
\* failing write leaves in the slot is never read back.
flash_img_buffered_write(from, len, flush) ==
  /\ fill + len <= SLOT
  /\ slot' = [p \in Cells |-> IF fill <= p /\ p < fill + len THEN from + (p - fill)
                                                            ELSE slot[p]]
  /\ fill' = fill + len
  /\ durable' \in durable..(fill + len) /\ fill + len - durable' < BLOCK
  /\ flush => durable' = fill + len

\* stage_sink on `len` bytes found at `from` in the stream.
stage_sink(from, len, next) ==
  \/ /\ flash_img_buffered_write(from, len, Last(len))
     /\ got' = got + len /\ Goto(next) /\ UNCHANGED broken
  \/ /\ (fill + len > SLOT /\ UNCHANGED broken) \/ Fault("flash")
     /\ Return(-5) /\ UNCHANGED <<got, flash>>

\* Mutant: the bytes that came with the head are dropped.
first_dropped ==
  /\ pc = "first" /\ code \in {200, 206}
  /\ Goto("body") /\ UNCHANGED <<got, flash, broken>>
  /\ UNCHANGED <<response, taken, off, match>>
\* http_status, then the body bytes that arrived alongside the head.
First == /\ pc = "first"
         /\ \/ code \notin {200, 206} /\ Return(-4) /\ UNCHANGED <<got, flash, broken>>
            \/ /\ code \in {200, 206} /\ taken = hdr
               /\ Goto("body") /\ UNCHANGED <<got, flash, broken>>
            \/ /\ code \in {200, 206} /\ taken > hdr
               /\ stage_sink(hdr, Take(taken - hdr), "body")
         /\ UNCHANGED <<response, taken, off, match>>

RecvBody(n) == /\ pc = "body" /\ got < size
               /\ taken' = taken + n
               /\ stage_sink(taken, Take(n), "body")
               /\ UNCHANGED <<response, off, match>>

\* Mutant: an empty or failed recv does not end the loop.
retry_after_end == /\ pc = "body" /\ got >= size /\ Goto("close")
                   /\ UNCHANGED <<response, taken, got, flash, off, match, broken>>
\* The loop ends with the image complete, at the end of the stream, on an
\* error or at the receive timeout.
BodyEnds == /\ pc = "body"
            /\ \/ (got >= size \/ Left = 0) /\ UNCHANGED broken
               \/ got < size /\ Fault("net")
            /\ Goto("close")
            /\ UNCHANGED <<response, taken, got, flash, off, match>>

Close == /\ pc = "close"
         /\ IF got # size THEN Return(-1) ELSE Goto("verify")
         /\ UNCHANGED <<response, taken, got, flash, off, match, broken>>

-----------------------------------------------------------------------------
(* verify_slot_sha256.                                                     *)

\* What a read of slot 1 returns at p.
Read(p) == IF p < durable THEN slot[p] ELSE Erased

\* Mutant: only whole read buffers are hashed.
hash_whole_buffers(from, n) == n < RB \/ \A p \in from..(from + n - 1) : genuine /\ Read(p) = hdr + p
\* The bytes hashed are those of the image the manifest's digest is of.
Hash(from, n) == \A p \in from..(from + n - 1) : genuine /\ Read(p) = hdr + p

VerifyChunk == /\ pc = "verify" /\ off < size
               /\ LET n == AtMost(size - off, RB)
                  IN  off' = off + n /\ match' = (match /\ Hash(off, n))
               /\ Goto("verify")
               /\ UNCHANGED <<response, taken, got, flash, broken>>
VerifyDone == /\ pc = "verify" /\ off >= size
              /\ Return(IF match THEN 0 ELSE -1)
              /\ UNCHANGED <<response, taken, got, flash, off, match, broken>>
VerifyFails == /\ pc = "verify" /\ Fault("flash") /\ Return(-1)
               /\ UNCHANGED <<response, taken, got, flash, off, match>>

-----------------------------------------------------------------------------

Download == \/ Connect
            \/ \E n \in 1..AtMost(BUF - taken, Left) : RecvHead(n)
            \/ RecvHeadEnds \/ First
            \/ \E n \in 1..AtMost(BUF, Left) : RecvBody(n)
            \/ BodyEnds \/ Close
Verify == VerifyChunk \/ VerifyDone \/ VerifyFails
Next == Stage \/ Download \/ Verify
Spec == Init /\ [][Next]_vars

\* Every recv returns: tls_connect sets a receive timeout.
FairSpec == Spec /\ WF_vars(Next)

-----------------------------------------------------------------------------
(* Properties.                                                             *)

\* plat_stage_image reports success only if the flash, not flash_img's RAM
\* buffer, holds the image the manifest names from its first byte to its last.
StagedIsExact == rc = 0 => /\ genuine /\ size <= durable
                           /\ \A p \in 0..(size - 1) : slot[p] = hdr + p

\* The download accounts for every byte: what the sink got is what is in the
\* slot, in order, from the body's first byte on, and never past the image.
SinkIsPrefix == /\ got = fill /\ durable <= fill /\ fill <= size
                /\ \A p \in 0..(fill - 1) : slot[p] = hdr + p

\* recv is never called without room, which would end the head loop as if the
\* peer had closed (plat_net_firmware_download returns -4 instead).
HeadHasRoom == pc = "headers" => taken < BUF

\* However the response is cut into pieces, a complete answer with the right
\* image is staged: its last block is flushed and its digest matches.
Servable == /\ genuine /\ code \in {200, 206} /\ body >= size /\ hdr <= BUF
            /\ size # 0 /\ size <= SLOT
GoodImageIsStaged == pc = "done" /\ Servable /\ ~broken => rc = 0

\* plat_stage_image returns, whatever the peer does: the agent thread is not
\* held by a stalled download.
StagingReturns == <>(pc = "done")

-----------------------------------------------------------------------------
(* The inductive invariant behind StagedIsExact and GoodImageIsStaged.     *)

\* The stream position the next body byte is read at, step by step.
StreamInv == /\ HeadHasRoom
             /\ pc \in {"stage", "connect"} => taken = 0
             /\ pc \in {"stage", "connect", "headers", "first"} => got = 0
             /\ pc = "headers" => taken < hdr
             /\ pc = "first" => hdr <= taken
             /\ pc = "body" /\ got < size => taken = hdr + got

\* A finished image is flushed and what was hashed of it was right.
FlushInv == /\ pc \in {"body", "close", "verify"} /\ got = size => durable = size
            /\ pc = "verify" => got = size
            /\ pc \notin {"stage", "done"} => size # 0

\* A good answer is never given up, and its digest check never fails.
GoodInv == Servable /\ ~broken =>
              /\ pc = "close" => got = size
              /\ pc = "verify" => match
              /\ pc = "done" => rc = 0

\* What matches was read back from the flash.
HashInv == /\ pc = "verify" /\ match => \A p \in 0..(off - 1) : genuine /\ Read(p) = hdr + p
           /\ pc = "verify" => off <= size
           /\ pc # "done" => rc = 1
           /\ pc \notin {"verify", "done"} => off = 0 /\ match

\* The argument that staging is exact and complete.
DownloadInv == SinkIsPrefix /\ StreamInv /\ FlushInv /\ GoodInv /\ HashInv /\ StagedIsExact
=============================================================================
