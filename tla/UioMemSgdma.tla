----------------------------- MODULE UioMemSgdma -----------------------------
(***************************************************************************)
(* The reader's side of the descriptor ring (src/src/UioMemSgdma.cpp).     *)
(*                                                                         *)
(* Descriptor and buffer memory are shared with the DMA engine, which runs *)
(* on between any two accesses of the driver: every access to a status     *)
(* word or to a buffer is a step of its own.  The local variables of the   *)
(* call in progress are state variables here; one thread at a time is      *)
(* inside these calls, and pc is its place:                                *)
(*                                                                         *)
(*   idle    no call is in progress                                        *)
(*   full    in the loop of get_full_buffers()                             *)
(*   packet  in the loop of get_next_packet()                              *)
(*   got     either has returned the indices in result                     *)
(*   stats   in the first loop of read_buffers()                           *)
(*   copy    in its second loop, before append_from_buf()                  *)
(*   clear   in its second loop, before the status is written back         *)
(*   ready   read_buffers() has returned the data in bytes                 *)
(*   threw   a call has thrown                                             *)
(***************************************************************************)
EXTENDS AxiDma, Sequences

VARIABLES
    nr_cyc_desc,        \* number of descriptors in the ring
    next_readable_buf,  \* index of the next buffer to look at
    pc,                 \* see above
    i,                  \* loop counter of get_full_buffers / get_next_packet
    n,                  \* get_next_packet's own index
    has_sof,            \* get_next_packet: a SOF has been seen
    result,             \* indices of the buffers found
    stats,              \* read_buffers: the status words read
    bytes,              \* read_buffers: the data read, one chunk per buffer
    last_read           \* tag of the last chunk read and released (history)

loopVars == <<i, n, has_sof, result>>
readVars == <<stats, bytes>>
memVars  == <<nr_cyc_desc, next_readable_buf, pc, loopVars, readVars, last_read>>
ringVars == <<dmaVars, memVars>>

PCs  == {"idle", "full", "packet", "got", "stats", "copy", "clear", "ready", "threw"}
Ring == 0 .. nr_cyc_desc - 1

MemTypeOK ==
    /\ nr_cyc_desc \in 1 .. NumDesc
    /\ next_readable_buf \in Ring
    /\ pc \in PCs
    /\ i \in 0 .. nr_cyc_desc
    /\ n \in Ring
    /\ has_sof \in BOOLEAN
    /\ result \in Seq(Ring)
    /\ stats \in Seq(Statuses)
    /\ bytes \in Seq(Chunks \cup {NoChunk})
    /\ last_read \in Tags \cup {NumTags}

\* Before init_buffers() the object's fields have no value; none is read.
MemInit ==
    /\ nr_cyc_desc = 1
    /\ next_readable_buf = 0
    /\ pc = "idle"
    /\ i = 0 /\ n = 0 /\ has_sof = FALSE /\ result = <<>>
    /\ stats = <<>> /\ bytes = <<>>
    /\ last_read = 0

-----------------------------------------------------------------------------
\* The index after k, around the ring.
Advance_NoWrap(k) == k + 1  \* mutant: no "%= _nr_cyc_desc"
Advance(k) == (k + 1) % nr_cyc_desc

\* The status word a descriptor is initialised with.
InitStatus_Stale(d) == status[d]  \* mutant: the status word is not written
InitStatus(d) == ClearStatus

\* The cursor after initialisation.
FirstBuf_Kept == next_readable_buf  \* mutant: the cursor is not reset
FirstBuf == 0

\* write_cyc_mode(): link the first nr descriptors into a ring and clear them.
write_cyc_mode(nr) ==
    /\ nr_cyc_desc' = nr
    /\ next_readable_buf' = FirstBuf
    /\ nxtdesc' = [d \in Descs |-> IF d < nr THEN (d + 1) % nr ELSE nxtdesc[d]]
    /\ status'  = [d \in Descs |-> IF d < nr THEN InitStatus(d) ELSE status[d]]

\* init_buffers(): nothing of the ring's former contents is readable after it.
init_buffers(nr) ==
    /\ write_cyc_mode(nr)
    /\ last_read' = 0
    /\ UNCHANGED <<pc, loopVars, readVars>>

-----------------------------------------------------------------------------
\* Both scans look at no more than every descriptor once ...
AllSeen_Late == i = nr_cyc_desc + 1   \* mutant: the loop runs once too often
AllSeen_Early == i = nr_cyc_desc - 1  \* mutant: the loop stops one short
AllSeen == i = nr_cyc_desc

\* ... and stop at one that is not complete.
IsFull_Unchecked(st) == TRUE  \* mutant: the complete bit is not tested
IsFull(st) == st.cmplt

\* get_full_buffers(): the call.
get_full_buffers ==
    /\ pc' = "full"
    /\ i' = 0 /\ result' = <<>>
    /\ UNCHANGED <<dmaVars, nr_cyc_desc, next_readable_buf, n, has_sof, readVars, last_read>>

\* One turn of its loop: a full buffer is taken and the cursor moves on ...
FullTake ==
    LET stat == status[next_readable_buf] IN
    /\ pc = "full" /\ ~AllSeen /\ IsFull(stat) /\ ~stat.empty
    /\ result' = Append(result, next_readable_buf)
    /\ next_readable_buf' = Advance(next_readable_buf)
    /\ i' = i + 1
    /\ UNCHANGED <<dmaVars, nr_cyc_desc, pc, n, has_sof, readVars, last_read>>

\* ... or a buffer is not full, or every buffer has been taken: return ...
FullReturn ==
    /\ pc = "full"
    /\ AllSeen \/ ~IsFull(status[next_readable_buf])
    /\ pc' = "got"
    /\ UNCHANGED <<dmaVars, nr_cyc_desc, next_readable_buf, loopVars, readVars, last_read>>

\* ... or a complete buffer holds no bytes: the indices found so far go with
\* the exception, the cursor has already passed their buffers.
FullThrow ==
    LET stat == status[next_readable_buf] IN
    /\ pc = "full" /\ ~AllSeen /\ IsFull(stat) /\ stat.empty
    /\ pc' = "threw"
    /\ result' = <<>>
    /\ UNCHANGED <<dmaVars, nr_cyc_desc, next_readable_buf, i, n, has_sof, readVars, last_read>>

-----------------------------------------------------------------------------
\* get_next_packet(): the call.
get_next_packet ==
    /\ pc' = "packet"
    /\ i' = 0 /\ n' = next_readable_buf /\ has_sof' = FALSE /\ result' = <<>>
    /\ UNCHANGED <<dmaVars, nr_cyc_desc, next_readable_buf, readVars, last_read>>

\* A buffer without SOF where a packet must start is passed over: the cursor
\* moves behind it, its complete bit stays.
PacketSkip ==
    LET stat == status[n] IN
    /\ pc = "packet" /\ ~AllSeen /\ IsFull(stat) /\ ~stat.empty
    /\ ~has_sof /\ ~stat.rxsof
    /\ n' = Advance(n)
    /\ next_readable_buf' = n'
    /\ i' = i + 1
    /\ UNCHANGED <<dmaVars, nr_cyc_desc, pc, has_sof, result, readVars, last_read>>

\* A buffer of the packet; the one with EOF ends it and moves the cursor.
PacketTake ==
    LET stat == status[n] IN
    /\ pc = "packet" /\ ~AllSeen /\ IsFull(stat) /\ ~stat.empty
    /\ has_sof \/ stat.rxsof
    /\ has_sof' = TRUE
    /\ result' = Append(result, n)
    /\ n' = Advance(n)
    /\ i' = i + 1
    /\ next_readable_buf' = IF stat.rxeof THEN n' ELSE next_readable_buf
    /\ pc' = IF stat.rxeof THEN "got" ELSE "packet"
    /\ UNCHANGED <<dmaVars, nr_cyc_desc, readVars, last_read>>

\* No more complete buffers, or the whole ring seen, and no EOF: return {}.
PacketReturn_Partial ==  \* mutant: what has been found of the packet is returned
    /\ pc = "packet"
    /\ AllSeen \/ ~IsFull(status[n])
    /\ pc' = "got"
    /\ next_readable_buf' = n
    /\ UNCHANGED <<dmaVars, nr_cyc_desc, loopVars, readVars, last_read>>
PacketReturn ==
    /\ pc = "packet"
    /\ AllSeen \/ ~IsFull(status[n])
    /\ pc' = "got"
    /\ result' = <<>>
    /\ UNCHANGED <<dmaVars, nr_cyc_desc, next_readable_buf, i, n, has_sof, readVars, last_read>>

PacketThrow ==
    LET stat == status[n] IN
    /\ pc = "packet" /\ ~AllSeen /\ IsFull(stat) /\ stat.empty
    /\ pc' = "threw"
    /\ result' = <<>>
    /\ UNCHANGED <<dmaVars, nr_cyc_desc, next_readable_buf, i, n, has_sof, readVars, last_read>>

-----------------------------------------------------------------------------
\* read_buffers(): the call, with the indices found.
read_buffers ==
    /\ pc = "got"
    /\ pc' = "stats"
    /\ stats' = <<>> /\ bytes' = <<>>
    /\ UNCHANGED <<dmaVars, nr_cyc_desc, next_readable_buf, loopVars, last_read>>

\* First loop: all status words are read in advance.
ReadStat ==
    /\ pc = "stats" /\ Len(stats) < Len(result)
    /\ stats' = Append(stats, status[result[Len(stats) + 1]])
    /\ UNCHANGED <<dmaVars, nr_cyc_desc, next_readable_buf, pc, loopVars, bytes, last_read>>

StatsDone ==
    /\ pc = "stats" /\ Len(stats) = Len(result)
    /\ pc' = "copy"
    /\ UNCHANGED <<dmaVars, nr_cyc_desc, next_readable_buf, loopVars, readVars, last_read>>

\* Second loop: append_from_buf() copies the buffer ...
CopyBuf ==
    /\ pc = "copy" /\ Len(bytes) < Len(result)
    /\ bytes' = Append(bytes, mem[result[Len(bytes) + 1]])
    /\ pc' = "clear"
    /\ UNCHANGED <<dmaVars, nr_cyc_desc, next_readable_buf, loopVars, stats, last_read>>

\* What is written back for a status word.
Cleared_Not(st) == st  \* mutant: the complete bit is left set
Cleared(st) == [st EXCEPT !.cmplt = FALSE]

\* ... and the status word read before is written back, without cmplt.
ClearStat ==
    LET j == Len(bytes) IN
    /\ pc = "clear"
    /\ status' = [status EXCEPT ![result[j]] = Cleared(stats[j])]
    /\ last_read' = bytes[j].tag
    /\ pc' = "copy"
    /\ UNCHANGED <<regVars, nxtdesc, mem, stream>>
    /\ UNCHANGED <<nr_cyc_desc, next_readable_buf, loopVars, readVars>>

ReadReturn ==
    /\ pc = "copy" /\ Len(bytes) = Len(result)
    /\ pc' = "ready"
    /\ UNCHANGED <<dmaVars, nr_cyc_desc, next_readable_buf, loopVars, readVars, last_read>>

\* The steps of a call in progress.
CallStep ==
    \/ FullTake \/ FullReturn \/ FullThrow
    \/ PacketSkip \/ PacketTake \/ PacketReturn \/ PacketThrow
    \/ ReadStat \/ StatsDone \/ CopyBuf \/ ClearStat \/ ReadReturn

\* The call is over: the caller has used what it returned or caught what it threw.
CallDone ==
    /\ pc' = "idle"
    /\ i' = 0 /\ n' = 0 /\ has_sof' = FALSE
    /\ result' = <<>> /\ stats' = <<>> /\ bytes' = <<>>
    /\ UNCHANGED <<dmaVars, nr_cyc_desc, next_readable_buf, last_read>>
-----------------------------------------------------------------------------
(* What the ring promises *)

\* Buffers of result that have been read and released by the call in progress.
Released == IF pc = "clear" THEN Len(bytes) - 1 ELSE Len(bytes)

\* The oldest buffer the reader has not released.
ReadPtr == IF Released < Len(result) THEN result[Released + 1] ELSE next_readable_buf

\* Steps along the ring from a to b.
Dist(a, b) == IF a <= b THEN b - a ELSE b + nr_cyc_desc - a

\* The complete descriptors are exactly those from the reader's oldest unreleased
\* buffer up to the engine's descriptor: the cursor in next_readable_buf, which the
\* driver only advances past complete bits, never loses step with the engine, and
\* the engine owns no descriptor that is complete.
RingOK ==
    /\ \A d \in Ring : ReadPtr # curdesc =>
          (status[d].cmplt <=> Dist(ReadPtr, d) < Dist(ReadPtr, curdesc))
    /\ ReadPtr = curdesc =>
          \/ \A d \in Ring : status[d].cmplt
          \/ \A d \in Ring : ~status[d].cmplt
    /\ fetched => ~status[curdesc].cmplt

\* read_buffers() copies a buffer only while its descriptor is complete, so never
\* one that the engine has fetched and is writing to.
NoTornRead ==
    pc = "copy" /\ Len(bytes) < Len(result) =>
        LET d == result[Len(bytes) + 1] IN
        status[d].cmplt /\ ~(fetched /\ curdesc = d)

\* The status words that read_buffers() writes back were read before the first
\* buffer was copied; none has changed in memory since, so the write-back never
\* wipes out a completion the engine reported in between.
WriteBackFresh ==
    pc \in {"stats", "copy", "clear"} =>
        \A j \in Released + 1 .. Len(stats) : status[result[j]] = stats[j]

\* Chunks are read and released in stream order: none is lost, none is read twice,
\* none of an earlier session turns up.
InOrder == pc = "clear" => bytes[Len(bytes)].tag = Succ(last_read)

\* What is read after get_next_packet() is one packet from its SOF to its EOF, with
\* nothing missing in between: "Returns only complete packets".
WholePacket(b) ==
    /\ b[1].sof /\ b[Len(b)].eof
    /\ \A j \in 1 .. Len(b) - 1 : ~b[j].eof /\ b[j + 1].tag = Succ(b[j].tag)
=============================================================================
