-------------------------- MODULE UioMemSgdmaProofs --------------------------
(***************************************************************************)
(* Who owns a buffer, and in which order the data is in the ring: the      *)
(* inductive invariants of the descriptor ring, and that every step of the *)
(* engine and of the reader preserves them, for every ring size and        *)
(* whatever faults the hardware shows.  The modules that compose the ring  *)
(* with a caller use these lemmas.                                         *)
(***************************************************************************)
EXTENDS UioMemSgdma, TLAPS

\* The index x, taken around the ring once.
Wrap(x) == IF x < nr_cyc_desc THEN x ELSE x - nr_cyc_desc

\* Which local variables the call in progress uses at each place.
ShapeOK ==
    /\ pc \in {"idle", "threw"} => result = <<>>
    /\ pc = "idle" => i = 0 /\ n = 0
    /\ pc \in {"idle", "threw", "full", "packet", "got"} => stats = <<>> /\ bytes = <<>>
    /\ pc = "stats" => bytes = <<>>
    /\ pc \in {"copy", "clear", "ready"} => Len(stats) = Len(result)
    /\ pc = "clear" => Len(bytes) > 0
    /\ Len(stats) <= Len(result) /\ Len(bytes) <= Len(result)
    /\ Len(result) <= i
    /\ pc = "packet" /\ ~has_sof => result = <<>>

\* The indices found are consecutive around the ring, so no two are the same.
ConsecutiveOK ==
    /\ \A j \in 1 .. Len(result) : result[j] = Wrap(result[1] + j - 1)
    /\ pc = "full" /\ result # <<>> => next_readable_buf = Wrap(result[1] + Len(result))
    /\ pc = "packet" /\ result # <<>> => n = Wrap(result[1] + Len(result))

\* Every buffer found and not yet released is complete, and the engine holds no
\* descriptor that is complete.
OwnershipOK ==
    /\ \A j \in Released + 1 .. Len(result) : status[result[j]].cmplt
    /\ fetched => ~status[curdesc].cmplt
    /\ ~dmacr.cyclic_bd_enable
    /\ WriteBackFresh

RingInv == DmaTypeOK /\ MemTypeOK /\ ShapeOK /\ ConsecutiveOK /\ OwnershipOK

-----------------------------------------------------------------------------
\* Stepping around the ring, without the remainder.
LEMMA AdvanceWrap ==
    ASSUME NEW N \in Nat \ {0}, NEW k \in 0 .. N - 1
    PROVE  (k + 1) % N = IF k + 1 < N THEN k + 1 ELSE 0
<1>1. CASE k + 1 < N
  BY <1>1
<1>2. CASE k + 1 = N
  BY <1>2
<1> QED
  BY <1>1, <1>2

\* The next tag is a tag.
LEMMA SuccTag == ASSUME NEW t \in Tags PROVE Succ(t) \in Tags
  BY DmaAssumption, AdvanceWrap DEF Succ, Tags

\* The invariant gives the properties.
LEMMA RingInvSafe == RingInv => NoTornRead /\ WriteBackFresh
<1> SUFFICES ASSUME RingInv, pc = "copy", Len(bytes) < Len(result)
             PROVE  LET d == result[Len(bytes) + 1] IN
                    status[d].cmplt /\ ~(fetched /\ curdesc = d)
  BY DEF RingInv, OwnershipOK, NoTornRead
<1>1. Released = Len(bytes) /\ Len(bytes) \in Nat /\ Len(result) \in Nat
  BY DEF RingInv, Released, MemTypeOK
<1>2. status[result[Len(bytes) + 1]].cmplt
  BY <1>1 DEF RingInv, OwnershipOK
<1> QED
  BY <1>2 DEF RingInv, OwnershipOK

-----------------------------------------------------------------------------
\* What the engine does in memory is enough for the reader: descriptors only become
\* complete, a complete one is not touched, and it takes none that is complete.
LEMMA EngineTypes == DmaTypeOK /\ Engine => DmaTypeOK'
<1> SUFFICES ASSUME DmaTypeOK, Engine PROVE DmaTypeOK'
  OBVIOUS
<1> USE DEF DmaTypeOK
<1>1. CASE FetchDesc
  BY <1>1 DEF FetchDesc
<1>2. CASE FetchStale
  BY <1>2 DEF FetchStale, Halt, Errors
<1>3. CASE BusError
  <2>1. PICK e \in Errors : Halt(e)
    BY <1>3 DEF BusError
  <2> QED
    BY <1>3, <2>1 DEF BusError, Halt
<1>4. CASE CompleteDesc
  <2>1. PICK sof, eof, empty \in BOOLEAN :
          LET chunk == [tag |-> Succ(stream.tag), sof |-> sof, eof |-> eof] IN
          /\ mem' = [mem EXCEPT ![curdesc] = chunk]
          /\ status' = [status EXCEPT ![curdesc] =
                          [cmplt |-> TRUE, rxsof |-> sof, rxeof |-> eof, empty |-> empty]]
          /\ stream' = [tag |-> chunk.tag, eof |-> eof]
          /\ dmasr' = [dmasr EXCEPT !.ioc_irq = @ \/ eof,
                                    !.idle = (DescBase + curdesc = TailDesc)]
          /\ curdesc' = nxtdesc[curdesc]
          /\ fetched' = FALSE
          /\ UNCHANGED <<dmacr, nxtdesc>>
    BY <1>4 DEF CompleteDesc
  <2>2. Succ(stream.tag) \in Tags
    BY SuccTag
  <2>3. mem' \in [Descs -> Chunks \cup {NoChunk}]
    BY <2>1, <2>2 DEF Chunks
  <2>4. status' \in [Descs -> Statuses]
    BY <2>1 DEF Statuses
  <2>5. stream' \in [tag : Tags, eof : BOOLEAN]
    BY <2>1, <2>2
  <2>6. dmasr' \in [errs : SUBSET Errors, ioc_irq : BOOLEAN,
                    err_irq : BOOLEAN, idle : BOOLEAN]
    BY <2>1
  <2> QED
    BY <2>1, <2>3, <2>4, <2>5, <2>6
<1> QED
  BY <1>1, <1>2, <1>3, <1>4 DEF Engine

\* The engine leaves complete descriptors alone and takes none of them.
LEMMA EngineMemory ==
    ASSUME DmaTypeOK, Engine, ~dmacr.cyclic_bd_enable, fetched => ~status[curdesc].cmplt
    PROVE  /\ \A d \in Descs : status[d].cmplt => status'[d] = status[d]
           /\ (fetched => ~status[curdesc].cmplt)'
           /\ ~dmacr'.cyclic_bd_enable
<1> USE DEF DmaTypeOK
<1>1. CASE FetchDesc
  BY <1>1 DEF FetchDesc
<1>2. CASE FetchStale
  BY <1>2 DEF FetchStale, Halt
<1>3. CASE BusError
  BY <1>3 DEF BusError, Halt
<1>4. CASE CompleteDesc
  BY <1>4 DEF CompleteDesc
<1> QED
  BY <1>1, <1>2, <1>3, <1>4 DEF Engine

\* A step of the engine between two steps of the reader preserves the invariant.
LEMMA EngineInv == RingInv /\ Engine /\ UNCHANGED memVars => RingInv'
<1> SUFFICES ASSUME RingInv, Engine, UNCHANGED memVars PROVE RingInv'
  OBVIOUS
<1> USE DEF RingInv
<1>1. /\ UNCHANGED <<nr_cyc_desc, next_readable_buf, pc, i, n, has_sof, result>>
      /\ UNCHANGED <<stats, bytes, last_read>>
  BY DEF memVars, loopVars, readVars
<1>2. DmaTypeOK'
  BY EngineTypes
<1>3. MemTypeOK' /\ ShapeOK' /\ ConsecutiveOK'
  BY <1>1 DEF MemTypeOK, ShapeOK, ConsecutiveOK, Wrap, Ring
<1>4. /\ \A d \in Descs : status[d].cmplt => status'[d] = status[d]
      /\ (fetched => ~status[curdesc].cmplt)'
      /\ ~dmacr'.cyclic_bd_enable
  BY EngineMemory DEF OwnershipOK
<1>5. Released' = Released /\ Released \in Int
  BY <1>1 DEF Released, MemTypeOK
<1>6. \A j \in 1 .. Len(result) : result[j] \in Descs
  BY DmaAssumption DEF MemTypeOK, Ring, Descs
<1>7. Released >= 0
  BY DEF Released, MemTypeOK, ShapeOK
<1>8. \A j \in Released + 1 .. Len(result) :
        status[result[j]].cmplt /\ status'[result[j]] = status[result[j]]
  BY <1>4, <1>5, <1>6, <1>7 DEF OwnershipOK
<1>9. WriteBackFresh'
  BY <1>1, <1>5, <1>8 DEF WriteBackFresh, OwnershipOK, ShapeOK, MemTypeOK
<1> QED
  BY <1>1, <1>2, <1>3, <1>4, <1>5, <1>8, <1>9 DEF OwnershipOK

-----------------------------------------------------------------------------
\* The two scans: each takes the next buffer around the ring, if it is complete.
LEMMA ScanInv ==
    RingInv /\ (FullTake \/ FullReturn \/ FullThrow \/ PacketSkip \/ PacketTake
                 \/ PacketReturn \/ PacketThrow) => RingInv'
<1> SUFFICES ASSUME RingInv,
                    FullTake \/ FullReturn \/ FullThrow \/ PacketSkip \/ PacketTake
                      \/ PacketReturn \/ PacketThrow
             PROVE  RingInv'
  OBVIOUS
<1> USE DEF RingInv
<1>1. /\ pc \in {"full", "packet"}
      /\ stats = <<>> /\ bytes = <<>>
      /\ UNCHANGED <<dmacr, dmasr, curdesc, fetched, status, nxtdesc, mem, stream>>
      /\ UNCHANGED <<nr_cyc_desc, stats, bytes, last_read>>
  BY DEF ShapeOK, FullTake, FullReturn, FullThrow, PacketSkip, PacketTake, PacketReturn,
         PacketThrow, dmaVars, regVars, readVars
<1>2. DmaTypeOK'
  BY <1>1 DEF DmaTypeOK
<1>3. ASSUME NEW k \in Ring PROVE Advance(k) \in Ring /\ Advance(k) = Wrap(k + 1)
  <2>1. nr_cyc_desc \in Nat \ {0} /\ k \in 0 .. nr_cyc_desc - 1
    BY DmaAssumption DEF MemTypeOK, Ring
  <2>2. Advance(k) = IF k + 1 < nr_cyc_desc THEN k + 1 ELSE 0
    BY <2>1, AdvanceWrap DEF Advance
  <2> QED
    BY <2>1, <2>2 DEF Ring, Wrap
<1>4. CASE UNCHANGED <<i, n, has_sof, result, next_readable_buf>> /\ pc' = "got"
  BY <1>1, <1>2, <1>4
     DEF MemTypeOK, ShapeOK, ConsecutiveOK, OwnershipOK, WriteBackFresh, Released, Wrap,
         Ring, PCs
<1>5. CASE /\ UNCHANGED <<i, n, has_sof, next_readable_buf>>
           /\ result' = <<>> /\ pc' \in {"got", "threw"}
  BY <1>1, <1>2, <1>5
     DEF MemTypeOK, ShapeOK, ConsecutiveOK, OwnershipOK, WriteBackFresh, Released, Wrap,
         Ring, PCs
<1>6. CASE PacketSkip
  <2>1. /\ pc = "packet" /\ pc' = pc /\ result = <<>> /\ UNCHANGED <<result, has_sof>>
        /\ n' = Advance(n) /\ next_readable_buf' = n' /\ i' = i + 1 /\ i # nr_cyc_desc
    BY <1>6 DEF PacketSkip, ShapeOK, AllSeen
  <2>2. MemTypeOK'
    BY <1>1, <1>3, <2>1 DEF MemTypeOK, Ring
  <2>3. ShapeOK' /\ ConsecutiveOK'
    BY <1>1, <2>1 DEF MemTypeOK, ShapeOK, ConsecutiveOK
  <2>4. OwnershipOK'
    BY <1>1, <2>1 DEF OwnershipOK, WriteBackFresh, Released
  <2> QED
    BY <1>2, <2>2, <2>3, <2>4
<1>7. ASSUME NEW k \in Ring,
             result' = Append(result, k), i' = i + 1, i # nr_cyc_desc,
             status[k].cmplt,
             result # <<>> => k = Wrap(result[1] + Len(result)),
             pc = "full" => /\ next_readable_buf' = Advance(k) /\ n' = n
                            /\ pc' = "full",
             pc = "packet" => /\ n' = Advance(k) /\ has_sof' /\ pc' \in {"packet", "got"}
                              /\ next_readable_buf' \in {next_readable_buf, n'},
             has_sof' \in BOOLEAN
      PROVE  RingInv'
  <2>1. /\ result' \in Seq(Ring) /\ Len(result') = Len(result) + 1
        /\ Len(result) \in Nat /\ result'[Len(result')] = k
        /\ \A j \in 1 .. Len(result) : result'[j] = result[j]
    BY <1>7 DEF MemTypeOK
  <2>2. Len(result') <= nr_cyc_desc /\ nr_cyc_desc \in Nat
    BY <1>7, <2>1 DEF MemTypeOK, ShapeOK
  <2>3. MemTypeOK'
    <3>1. Ring' = Ring /\ nr_cyc_desc' \in 1 .. NumDesc
      BY <1>1 DEF MemTypeOK, Ring
    <3>2. i' \in 0 .. nr_cyc_desc'
      BY <1>1, <1>7 DEF MemTypeOK
    <3>3. n' \in Ring /\ next_readable_buf' \in Ring
      BY <1>1, <1>3, <1>7 DEF MemTypeOK
    <3>4. pc' \in PCs
      BY <1>1, <1>7 DEF PCs
    <3> QED
      BY <1>1, <1>7, <2>1, <3>1, <3>2, <3>3, <3>4 DEF MemTypeOK
  <2>4. ShapeOK'
    BY <1>1, <1>7, <2>1 DEF MemTypeOK, ShapeOK
  <2>5. \A j \in 1 .. Len(result') : result'[j] = Wrap(result'[1] + j - 1)
    <3>1. CASE result = <<>>
      <4>1. Len(result') = 1 /\ result'[1] = k
        BY <2>1, <3>1
      <4> QED
        BY <1>7, <2>2, <4>1 DEF Wrap, Ring
    <3>2. CASE result # <<>>
      BY <1>7, <2>1, <3>2 DEF Wrap, Ring, ConsecutiveOK
    <3> QED
      BY <3>1, <3>2
  <2>6. Advance(k) = Wrap(result'[1] + Len(result'))
    <3>1. CASE result = <<>>
      BY <1>3, <1>7, <2>1, <3>1
    <3>2. CASE result # <<>>
      <4>1. result'[1] = result[1] /\ result[1] \in Ring /\ Len(result) > 0
        BY <2>1, <3>2 DEF MemTypeOK
      <4>2. k = Wrap(result[1] + Len(result)) /\ Advance(k) = Wrap(k + 1)
        BY <1>3, <1>7, <3>2
      <4> DEFINE a == result[1]
                 b == Len(result)
      <4>3. /\ a \in Nat /\ b \in Nat /\ a < nr_cyc_desc /\ b + 1 <= nr_cyc_desc
            /\ result'[1] = a /\ Len(result') = b + 1
        BY <2>1, <2>2, <4>1 DEF Ring
      <4> HIDE DEF a, b
      <4>4. Wrap(Wrap(a + b) + 1) = Wrap(a + (b + 1))
        BY <2>2, <4>3 DEF Wrap
      <4> QED
        BY <4>2, <4>3, <4>4 DEF a, b
    <3> QED
      BY <3>1, <3>2
  <2>7. ConsecutiveOK'
    BY <1>1, <1>7, <2>5, <2>6 DEF ConsecutiveOK, Wrap
  <2>8. OwnershipOK'
    BY <1>1, <1>7, <2>1 DEF OwnershipOK, WriteBackFresh, Released
  <2> QED
    BY <1>2, <2>3, <2>4, <2>7, <2>8
<1>8. CASE FullTake
  BY <1>1, <1>7, <1>8 DEF FullTake, AllSeen, IsFull, MemTypeOK, ConsecutiveOK
<1>9. CASE PacketTake
  <2>1. pc = "packet" /\ n \in Ring /\ status[n].cmplt
    BY <1>9 DEF PacketTake, IsFull, MemTypeOK
  <2> QED
    BY <1>1, <1>7, <1>9, <2>1 DEF PacketTake, AllSeen, MemTypeOK, ConsecutiveOK
<1> QED
  BY <1>4, <1>5, <1>6, <1>8, <1>9
     DEF FullReturn, FullThrow, PacketReturn, PacketThrow, loopVars

-----------------------------------------------------------------------------
\* Two buffers found by one call are different.
LEMMA Distinct ==
    ASSUME RingInv, NEW a \in 1 .. Len(result), NEW b \in 1 .. Len(result), a # b
    PROVE  result[a] # result[b]
<1>1. /\ Len(result) \in Nat /\ nr_cyc_desc \in Nat /\ Len(result) <= nr_cyc_desc
      /\ result[1] \in 0 .. nr_cyc_desc - 1
  BY DEF RingInv, MemTypeOK, ShapeOK, Ring
<1>2. result[a] = Wrap(result[1] + a - 1) /\ result[b] = Wrap(result[1] + b - 1)
  BY DEF RingInv, ConsecutiveOK
<1> QED
  BY <1>1, <1>2 DEF Wrap

\* read_buffers(): reading the status words and copying change nothing in memory.
LEMMA ReadInv ==
    RingInv /\ (read_buffers \/ ReadStat \/ StatsDone \/ CopyBuf \/ ReadReturn) => RingInv'
<1> SUFFICES ASSUME RingInv,
                    read_buffers \/ ReadStat \/ StatsDone \/ CopyBuf \/ ReadReturn
             PROVE  RingInv'
  OBVIOUS
<1> USE DEF RingInv
<1>1. /\ UNCHANGED <<dmacr, dmasr, curdesc, fetched, status, nxtdesc, mem, stream>>
      /\ UNCHANGED <<nr_cyc_desc, next_readable_buf, i, n, has_sof, result, last_read>>
  BY DEF read_buffers, ReadStat, StatsDone, CopyBuf, ReadReturn, dmaVars, regVars, loopVars
<1>2. DmaTypeOK'
  BY <1>1 DEF DmaTypeOK
<1>3. Len(result) \in Nat /\ Len(stats) \in Nat /\ Len(bytes) \in Nat
  BY DEF MemTypeOK
<1>4. pc \in {"got", "stats", "copy"} /\ pc' \in {"stats", "copy", "clear", "ready"}
  BY DEF read_buffers, ReadStat, StatsDone, CopyBuf, ReadReturn
<1>5. ConsecutiveOK'
  BY <1>1, <1>4 DEF ConsecutiveOK, Wrap
<1>6. \A j \in 1 .. Len(result) : result[j] \in Descs
  BY DmaAssumption DEF MemTypeOK, Ring, Descs
<1>7. CASE read_buffers
  <2>1. pc = "got" /\ pc' = "stats" /\ stats' = <<>> /\ bytes' = <<>>
        /\ stats = <<>> /\ bytes = <<>>
    BY <1>7 DEF read_buffers, ShapeOK
  <2> QED
    BY <1>1, <1>2, <1>3, <1>5, <2>1
       DEF MemTypeOK, ShapeOK, OwnershipOK, WriteBackFresh, Released, Ring, PCs
<1>8. CASE StatsDone \/ ReadReturn
  <2>1. /\ UNCHANGED <<stats, bytes>>
        /\ \/ pc = "stats" /\ pc' = "copy" /\ Len(stats) = Len(result)
           \/ pc = "copy" /\ pc' = "ready"
    BY <1>8 DEF StatsDone, ReadReturn, readVars
  <2> QED
    BY <1>1, <1>2, <1>3, <1>5, <2>1
       DEF MemTypeOK, ShapeOK, OwnershipOK, WriteBackFresh, Released, Ring, PCs
<1>9. CASE ReadStat
  <2> DEFINE m == Len(stats) + 1
  <2>1. /\ pc = "stats" /\ pc' = "stats" /\ m <= Len(result) /\ bytes = <<>>
        /\ stats' = Append(stats, status[result[m]]) /\ bytes' = bytes
    BY <1>3, <1>9 DEF ReadStat, ShapeOK
  <2>2. status[result[m]] \in Statuses
    BY <1>3, <1>6, <2>1 DEF DmaTypeOK
  <2>3. /\ stats' \in Seq(Statuses) /\ Len(stats') = m /\ stats'[m] = status[result[m]]
        /\ \A j \in 1 .. Len(stats) : stats'[j] = stats[j]
    BY <2>1, <2>2 DEF MemTypeOK
  <2>4. MemTypeOK' /\ ShapeOK'
    BY <1>1, <1>3, <2>1, <2>3 DEF MemTypeOK, ShapeOK, Ring
  <2>5. OwnershipOK'
    BY <1>1, <1>3, <2>1, <2>3 DEF OwnershipOK, WriteBackFresh, Released
  <2> QED
    BY <1>2, <1>5, <2>4, <2>5
<1>10. CASE CopyBuf
  <2> DEFINE m == Len(bytes) + 1
  <2>1. /\ pc = "copy" /\ pc' = "clear" /\ m <= Len(result)
        /\ bytes' = Append(bytes, mem[result[m]]) /\ stats' = stats
    BY <1>3, <1>10 DEF CopyBuf
  <2>2. mem[result[m]] \in Chunks \cup {NoChunk}
    BY <1>3, <1>6, <2>1 DEF DmaTypeOK
  <2>3. bytes' \in Seq(Chunks \cup {NoChunk}) /\ Len(bytes') = m
    BY <2>1, <2>2 DEF MemTypeOK
  <2>4. MemTypeOK' /\ ShapeOK'
    BY <1>1, <1>3, <2>1, <2>3 DEF MemTypeOK, ShapeOK, Ring, PCs
  <2>5. Released' = Released
    BY <1>3, <2>1, <2>3 DEF Released
  <2>6. OwnershipOK'
    BY <1>1, <2>1, <2>5 DEF OwnershipOK, WriteBackFresh
  <2> QED
    BY <1>2, <1>5, <2>4, <2>6
<1> QED
  BY <1>7, <1>8, <1>9, <1>10

\* The write-back releases one buffer and leaves the others of the call alone.
LEMMA ClearInv == RingInv /\ ClearStat => RingInv'
<1> SUFFICES ASSUME RingInv, ClearStat PROVE RingInv'
  OBVIOUS
<1> DEFINE m == Len(bytes)
           d == result[m]
<1>1. /\ pc = "clear" /\ pc' = "copy"
      /\ status' = [status EXCEPT ![d] = [stats[m] EXCEPT !.cmplt = FALSE]]
      /\ last_read' = bytes[m].tag
      /\ UNCHANGED <<dmacr, dmasr, curdesc, fetched, nxtdesc, mem, stream>>
      /\ UNCHANGED <<nr_cyc_desc, next_readable_buf, i, n, has_sof, result, stats, bytes>>
  BY DEF ClearStat, Cleared, regVars, loopVars, readVars
<1>2. /\ Len(result) \in Nat /\ m \in 1 .. Len(result) /\ Len(stats) = Len(result)
      /\ Released = m - 1 /\ Released' = m
  BY <1>1 DEF RingInv, MemTypeOK, ShapeOK, Released
<1>3. /\ \A j \in 1 .. Len(result) : result[j] \in Descs
      /\ stats[m] \in Statuses /\ bytes[m] \in Chunks \cup {NoChunk}
  BY <1>2, DmaAssumption DEF RingInv, MemTypeOK, Ring, Descs
<1>4. DmaTypeOK'
  BY <1>1, <1>2, <1>3 DEF RingInv, DmaTypeOK, Statuses
<1>5. last_read' \in Tags \cup {NumTags}
  BY <1>1, <1>3 DEF Chunks, NoChunk
<1>6. MemTypeOK' /\ ShapeOK' /\ ConsecutiveOK'
  BY <1>1, <1>2, <1>5 DEF RingInv, MemTypeOK, ShapeOK, ConsecutiveOK, Ring, PCs, Wrap
<1>7. \A j \in m + 1 .. Len(result) : status'[result[j]] = status[result[j]]
  BY <1>1, <1>2, <1>3, Distinct DEF RingInv, DmaTypeOK
<1>8. \A j \in m + 1 .. Len(result) : status[result[j]].cmplt /\ status[result[j]] = stats[j]
  BY <1>1, <1>2 DEF RingInv, OwnershipOK, WriteBackFresh
<1>9. fetched => ~status'[curdesc].cmplt
  BY <1>1, <1>2, <1>3 DEF RingInv, OwnershipOK, DmaTypeOK, Statuses
<1>10. OwnershipOK'
  BY <1>1, <1>2, <1>7, <1>8, <1>9 DEF RingInv, OwnershipOK, WriteBackFresh
<1> QED
  BY <1>4, <1>6, <1>10 DEF RingInv

\* The steps of a call in progress.
LEMMA CallStepInv == RingInv /\ CallStep => RingInv'
  BY ScanInv, ReadInv, ClearInv DEF CallStep
\* A call begins or ends.
LEMMA CallInv ==
    RingInv /\ ((pc = "idle" /\ (get_full_buffers \/ get_next_packet)) \/ CallDone) => RingInv'
<1> SUFFICES ASSUME RingInv,
                    (pc = "idle" /\ (get_full_buffers \/ get_next_packet)) \/ CallDone
             PROVE  RingInv'
  OBVIOUS
<1> USE DEF RingInv
<1>1. /\ UNCHANGED <<dmacr, dmasr, curdesc, fetched, status, nxtdesc, mem, stream>>
      /\ UNCHANGED <<nr_cyc_desc, next_readable_buf, last_read>>
      /\ result' = <<>> /\ stats' = <<>> /\ bytes' = <<>> /\ i' = 0
      /\ pc' \in {"full", "packet", "idle"} /\ (pc' = "idle" => n' = 0)
      /\ n' \in {n, next_readable_buf, 0} /\ has_sof' \in {has_sof, FALSE}
  BY DEF get_full_buffers, get_next_packet, CallDone, ShapeOK, dmaVars, regVars, readVars
<1>2. DmaTypeOK'
  BY <1>1 DEF DmaTypeOK
<1>3. MemTypeOK'
  <2>1. Ring' = Ring /\ 0 \in Ring /\ 0 \in 0 .. nr_cyc_desc
    BY <1>1, DmaAssumption DEF MemTypeOK, Ring
  <2>2. n' \in Ring /\ i' \in 0 .. nr_cyc_desc
    BY <1>1, <2>1 DEF MemTypeOK
  <2>3. pc' \in PCs /\ has_sof' \in BOOLEAN
    BY <1>1 DEF MemTypeOK, PCs
  <2>4. result' \in Seq(Ring) /\ stats' \in Seq(Statuses) /\ bytes' \in Seq(Chunks \cup {NoChunk})
    BY <1>1
  <2> QED
    BY <1>1, <2>1, <2>2, <2>3, <2>4 DEF MemTypeOK
<1>4. ShapeOK' /\ ConsecutiveOK'
  BY <1>1 DEF ShapeOK, ConsecutiveOK
<1>5. OwnershipOK'
  BY <1>1 DEF OwnershipOK, WriteBackFresh, Released
<1> QED
  BY <1>2, <1>3, <1>4, <1>5

\* init_buffers() and start(), between two calls.
LEMMA StartInv ==
    ASSUME RingInv, NEW nr \in 1 .. NumDesc, pc = "idle", init_buffers(nr), start(0)
    PROVE  RingInv'
<1> USE DmaAssumption DEF RingInv
<1>1. /\ nr_cyc_desc' = nr /\ next_readable_buf' = 0 /\ last_read' = 0
      /\ nxtdesc' = [d \in Descs |-> IF d < nr THEN (d + 1) % nr ELSE nxtdesc[d]]
      /\ status'  = [d \in Descs |-> IF d < nr THEN ClearStatus ELSE status[d]]
      /\ dmacr' = [ResetControl EXCEPT !.rs = TRUE, !.cyclic_bd_enable = FALSE,
                                       !.ioc_irq_en = TRUE, !.err_irq_en = TRUE]
      /\ dmasr' = ResetState /\ curdesc' = 0 /\ fetched' = FALSE
      /\ mem' = [d \in Descs |-> NoChunk] /\ stream' = [tag |-> 0, eof |-> TRUE]
      /\ UNCHANGED <<pc, i, n, has_sof, result, stats, bytes>>
  BY DEF init_buffers, write_cyc_mode, start, FirstBuf, InitStatus, loopVars, readVars
<1>2. result = <<>> /\ stats = <<>> /\ bytes = <<>> /\ i = 0 /\ n = 0
  BY DEF ShapeOK
<1>3. nxtdesc' \in [Descs -> Descs]
  <2>1. ASSUME NEW d \in Descs, d < nr PROVE (d + 1) % nr \in Descs
    <3>1. nr \in Nat \ {0} /\ d \in 0 .. nr - 1
      BY <2>1 DEF Descs
    <3> QED
      BY <3>1, AdvanceWrap DEF Descs
  <2> QED
    BY <1>1, <2>1 DEF DmaTypeOK
<1>4. status' \in [Descs -> Statuses]
  BY <1>1 DEF DmaTypeOK, ClearStatus, Statuses
<1>5. dmacr' \in [rs : BOOLEAN, cyclic_bd_enable : BOOLEAN,
                  ioc_irq_en : BOOLEAN, err_irq_en : BOOLEAN] /\ ~dmacr'.cyclic_bd_enable
  BY <1>1 DEF ResetControl
<1>6. DmaTypeOK'
  <2>1. dmasr' \in [errs : SUBSET Errors, ioc_irq : BOOLEAN, err_irq : BOOLEAN, idle : BOOLEAN]
    BY <1>1 DEF ResetState
  <2>2. curdesc' \in Descs
    BY <1>1 DEF Descs
  <2>3. mem' \in [Descs -> Chunks \cup {NoChunk}]
    BY <1>1
  <2>4. stream' \in [tag : Tags, eof : BOOLEAN]
    BY <1>1 DEF Tags
  <2>5. fetched' \in BOOLEAN
    BY <1>1
  <2> QED
    BY <1>3, <1>4, <1>5, <2>1, <2>2, <2>3, <2>4, <2>5 DEF DmaTypeOK
<1>7. MemTypeOK'
  <2>1. nr_cyc_desc' \in 1 .. NumDesc /\ 0 \in Ring' /\ 0 \in 0 .. nr_cyc_desc'
    BY <1>1 DEF Ring
  <2>2. result' \in Seq(Ring') /\ stats' \in Seq(Statuses) /\ bytes' \in Seq(Chunks \cup {NoChunk})
    BY <1>1, <1>2
  <2>3. pc' \in PCs /\ has_sof' \in BOOLEAN /\ last_read' \in Tags \cup {NumTags}
    BY <1>1 DEF MemTypeOK, Tags
  <2> QED
    BY <1>1, <1>2, <2>1, <2>2, <2>3 DEF MemTypeOK
<1>8. ShapeOK' /\ ConsecutiveOK'
  BY <1>1, <1>2 DEF ShapeOK, ConsecutiveOK
<1>9. OwnershipOK'
  BY <1>1, <1>2, <1>5 DEF OwnershipOK, WriteBackFresh, Released
<1> QED
  BY <1>6, <1>7, <1>8, <1>9

\* Power-up.
LEMMA RingInit == DmaInit /\ MemInit => RingInv
<1> SUFFICES ASSUME DmaInit, MemInit PROVE RingInv
  OBVIOUS
<1> USE DmaAssumption
<1>1. DmaTypeOK
  <2>1. dmacr \in [rs : BOOLEAN, cyclic_bd_enable : BOOLEAN,
                   ioc_irq_en : BOOLEAN, err_irq_en : BOOLEAN]
    BY DEF DmaInit, ResetControl
  <2>2. dmasr \in [errs : SUBSET Errors, ioc_irq : BOOLEAN, err_irq : BOOLEAN, idle : BOOLEAN]
    BY DEF DmaInit, ResetState
  <2>3. ClearStatus \in Statuses /\ StaleStatus \in Statuses
    BY DEF ClearStatus, StaleStatus, Statuses
  <2>4. status \in [Descs -> Statuses]
    BY <2>3 DEF DmaInit
  <2>5. 0 \in Descs /\ 0 \in Tags
    BY DEF Descs, Tags
  <2>6. /\ nxtdesc \in [Descs -> Descs]
        /\ mem \in [Descs -> Chunks \cup {NoChunk}]
        /\ stream \in [tag : Tags, eof : BOOLEAN]
    BY <2>5 DEF DmaInit
  <2> QED
    BY <2>1, <2>2, <2>4, <2>5, <2>6 DEF DmaInit, DmaTypeOK
<1>2. MemTypeOK /\ ShapeOK /\ ConsecutiveOK
  <2>1. nr_cyc_desc \in 1 .. NumDesc /\ 0 \in Ring /\ 0 \in 0 .. nr_cyc_desc /\ 0 \in Tags
    BY DEF MemInit, Ring, Tags
  <2>2. result \in Seq(Ring) /\ stats \in Seq(Statuses) /\ bytes \in Seq(Chunks \cup {NoChunk})
    BY DEF MemInit
  <2>3. MemTypeOK
    BY <2>1, <2>2 DEF MemInit, MemTypeOK, PCs
  <2>4. ShapeOK /\ ConsecutiveOK
    BY DEF MemInit, ShapeOK, ConsecutiveOK
  <2> QED
    BY <2>3, <2>4
<1>3. OwnershipOK
  BY DEF DmaInit, MemInit, OwnershipOK, WriteBackFresh, Released, ResetControl
<1> QED
  BY <1>1, <1>2, <1>3 DEF RingInv

-----------------------------------------------------------------------------
(***************************************************************************)
(* The order of the data: the complete descriptors are those between the   *)
(* reader and the engine, and the chunks in their buffers continue the     *)
(* stream where the reader left it.                                        *)
(***************************************************************************)

\* Complete descriptors from the reader's oldest unreleased buffer on.
Fill ==
    IF ReadPtr # curdesc THEN Dist(ReadPtr, curdesc)
    ELSE IF status[curdesc].cmplt THEN nr_cyc_desc ELSE 0

\* The places where the buffers found by the call in progress are being read.
Reading == {"got", "stats", "copy", "clear", "ready"}

\* The engine is inside the ring that write_cyc_mode() linked, and the descriptors
\* between reader and engine are the complete ones.
LinkOK ==
    /\ curdesc \in Ring
    /\ \A d \in Ring : nxtdesc[d] = Wrap(d + 1)
    /\ \A d \in Ring : status[d].cmplt <=> Dist(ReadPtr, d) < Fill

\* What the complete buffers hold: the chunks of the stream behind the last one read,
\* each the successor of the one before, up to the last one received.
ChainOK ==
    /\ Fill = 0 => stream.tag = last_read
    /\ Fill > 0 => mem[ReadPtr].tag = Succ(last_read)
    /\ \A d \in Ring : status[d].cmplt =>
          /\ mem[d] \in Chunks
          /\ status[d].rxsof = mem[d].sof /\ status[d].rxeof = mem[d].eof
    /\ \A d \in Ring : Dist(ReadPtr, d) + 1 < Fill =>
          /\ mem[Wrap(d + 1)].tag = Succ(mem[d].tag)
          /\ "no_sof" \notin Faults => mem[Wrap(d + 1)].sof = mem[d].eof
    /\ \A d \in Ring : Dist(ReadPtr, d) + 1 = Fill =>
          stream.tag = mem[d].tag /\ stream.eof = mem[d].eof

\* Where the cursor is while a call is in progress.
CursorOK ==
    /\ pc = "full" => i = Len(result)
    /\ pc = "packet" => next_readable_buf = IF result = <<>> THEN n ELSE result[1]
    /\ pc \in Reading /\ result # <<>> =>
          next_readable_buf = Wrap(result[1] + Len(result))
    /\ pc = "ready" => Len(bytes) = Len(result)

\* The chunks copied and not yet released are those in the buffers.
BytesOK == pc = "clear" => bytes[Len(bytes)] = mem[result[Len(bytes)]]

OrderInv == LinkOK /\ ChainOK /\ CursorOK /\ BytesOK

\* How far the cursor is ahead of the oldest unreleased buffer (unless pc is "full").
Ahead == IF pc \in Reading THEN Len(result) - Released ELSE 0

\* A packet starts where the cursor is, or will start there when the engine gets there.
AtStart == IF Ahead < Fill THEN mem[next_readable_buf].sof ELSE stream.eof

\* A caller that asks only for packets finds the cursor at the start of one, and takes
\* the buffers of one packet.
PacketInv ==
    /\ pc # "full"
    /\ AtStart
    /\ pc = "packet" => /\ i = Len(result)
                        /\ has_sof <=> result # <<>>
                        /\ result # <<>> => status[result[1]].rxsof
                        /\ \A j \in 1 .. Len(result) : ~status[result[j]].rxeof
    /\ pc \in Reading /\ result # <<>> =>
          /\ bytes = <<>> => status[result[1]].rxsof
          /\ \A j \in Released + 1 .. Len(result) : status[result[j]].rxeof <=> j = Len(result)
          /\ bytes # <<>> => bytes[1].sof
          /\ \A j \in 1 .. Len(bytes) : bytes[j].eof <=> j = Len(result)
          /\ \A j \in 1 .. Len(bytes) - 1 : bytes[j + 1].tag = Succ(bytes[j].tag)
          /\ bytes # <<>> /\ pc # "clear" => bytes[Len(bytes)].tag = last_read

-----------------------------------------------------------------------------
\* Distances around the ring.
LEMMA DistStep ==
    ASSUME nr_cyc_desc \in Nat \ {0}, NEW a \in Ring, NEW b \in Ring
    PROVE  /\ Dist(a, b) \in Ring /\ Wrap(b + 1) \in Ring
           /\ Dist(a, b) = 0 <=> a = b
           /\ Wrap(b + 1) = a <=> Dist(a, b) = nr_cyc_desc - 1
           /\ Wrap(b + 1) # a => Dist(a, Wrap(b + 1)) = Dist(a, b) + 1
           /\ Dist(Wrap(a + 1), b) = IF a = b THEN nr_cyc_desc - 1 ELSE Dist(a, b) - 1
           /\ b = Wrap(a + Dist(a, b))
           /\ \A e \in Ring : Dist(a, e) = Dist(a, b) => e = b
  BY DEF Dist, Wrap, Ring

\* What lies k places ahead.
LEMMA WrapDist ==
    ASSUME nr_cyc_desc \in Nat \ {0}, NEW a \in Ring, NEW k \in 0 .. nr_cyc_desc
    PROVE  /\ Wrap(a + k) \in Ring
           /\ Dist(a, Wrap(a + k)) = IF k = nr_cyc_desc THEN 0 ELSE k
           /\ \A l \in 0 .. nr_cyc_desc - k : Wrap(Wrap(a + k) + l) = Wrap(a + (k + l))
  BY DEF Dist, Wrap, Ring

\* The reader's oldest buffer and the cursor are in the ring, and how far apart.
LEMMA ReadPlace ==
    ASSUME RingInv, CursorOK
    PROVE  /\ nr_cyc_desc \in Nat \ {0} /\ Ring \subseteq Descs
           /\ Len(result) \in 0 .. nr_cyc_desc /\ Released \in 0 .. Len(result)
           /\ ReadPtr \in Ring /\ next_readable_buf \in Ring
           /\ result # <<>> => \A j \in 1 .. Len(result) :
                 result[j] \in Ring /\ result[j] = Wrap(result[1] + (j - 1))
           /\ pc # "full" => Ahead \in 0 .. nr_cyc_desc
                             /\ next_readable_buf = Wrap(ReadPtr + Ahead)
<1> USE DEF RingInv
<1>1. /\ nr_cyc_desc \in Nat \ {0} /\ Ring \subseteq Descs
      /\ Len(result) \in Nat /\ Len(bytes) \in Nat /\ next_readable_buf \in Ring
      /\ \A j \in 1 .. Len(result) : result[j] \in Ring
  BY DmaAssumption DEF MemTypeOK, Ring, Descs
<1>2. Len(result) \in 0 .. nr_cyc_desc /\ Len(bytes) <= Len(result)
  BY <1>1 DEF MemTypeOK, ShapeOK
<1>3. /\ Released \in 0 .. Len(result)
      /\ pc \notin Reading => Released = 0
  BY <1>1, <1>2 DEF Released, ShapeOK, MemTypeOK, PCs, Reading
<1>4. ReadPtr \in Ring
  BY <1>1, <1>3 DEF ReadPtr
<1>5. \A j \in 1 .. Len(result) : result[j] = Wrap(result[1] + (j - 1))
  BY <1>1 DEF ConsecutiveOK, Wrap
<1>6. ASSUME pc # "full"
      PROVE  Ahead \in 0 .. nr_cyc_desc /\ next_readable_buf = Wrap(ReadPtr + Ahead)
  <2>1. ASSUME NEW x \in Ring PROVE Wrap(x + 0) = x
    BY <1>1 DEF Wrap, Ring
  <2>2. CASE pc \in Reading /\ result # <<>>
    <3>1. result[1] \in Ring
      BY <1>1, <2>2
    <3>2. next_readable_buf = Wrap(result[1] + Len(result))
      BY <2>2 DEF CursorOK
    <3>3. ReadPtr = Wrap(result[1] + Released)
      <4>1. CASE Released < Len(result)
        BY <1>3, <1>5, <4>1 DEF ReadPtr
      <4>2. CASE Released = Len(result)
        BY <3>2, <4>2 DEF ReadPtr
      <4> QED
        BY <1>1, <1>3, <4>1, <4>2
    <3>4. Ahead = Len(result) - Released /\ Ahead \in 0 .. nr_cyc_desc - Released
      BY <1>1, <1>2, <1>3, <2>2 DEF Ahead
    <3>5. Wrap(Wrap(result[1] + Released) + Ahead) = Wrap(result[1] + (Released + Ahead))
      BY <1>1, <1>2, <1>3, <3>1, <3>4, WrapDist
    <3>6. Released + Ahead = Len(result)
      BY <1>1, <1>3, <3>4
    <3> QED
      BY <1>1, <1>2, <1>3, <3>2, <3>3, <3>4, <3>5, <3>6
  <2>3. CASE ~(pc \in Reading /\ result # <<>>)
    <3>1. Ahead = 0
      BY <1>1, <1>2, <1>3, <2>3 DEF Ahead
    <3>2. ReadPtr = next_readable_buf
      <4>1. CASE result = <<>>
        BY <1>3, <4>1 DEF ReadPtr
      <4>2. CASE result # <<>> /\ pc \notin Reading
        <5>1. pc = "packet"
          BY <1>6, <4>2 DEF ShapeOK, MemTypeOK, PCs, Reading
        <5> QED
          BY <1>1, <1>3, <4>2, <5>1 DEF ReadPtr, CursorOK
      <4> QED
        BY <2>3, <4>1, <4>2
    <3> QED
      BY <1>1, <2>1, <3>1, <3>2
  <2> QED
    BY <2>2, <2>3
<1> QED
  BY <1>1, <1>2, <1>3, <1>4, <1>5, <1>6

\* A step that leaves memory and the oldest unreleased buffer alone changes nothing.
LEMMA OrderFrame ==
    ASSUME LinkOK, ChainOK, ReadPtr' = ReadPtr,
           UNCHANGED <<curdesc, nxtdesc, status, mem, stream, nr_cyc_desc, last_read>>
    PROVE  LinkOK' /\ ChainOK' /\ Fill' = Fill
<1>1. Fill' = Fill
  BY DEF Fill, Dist
<1> QED
  BY <1>1 DEF LinkOK, ChainOK, Dist, Wrap, Ring
-----------------------------------------------------------------------------
\* What the engine does when it completes a descriptor, between the reader's steps.
LEMMA CompletePicked ==
    ASSUME CompleteDesc, UNCHANGED memVars
    PROVE  \E sof, eof, empty \in BOOLEAN :
              LET chunk == [tag |-> Succ(stream.tag), sof |-> sof, eof |-> eof] IN
              /\ fetched
              /\ sof = stream.eof \/ "no_sof" \in Faults
              /\ mem' = [mem EXCEPT ![curdesc] = chunk]
              /\ status' = [status EXCEPT ![curdesc] =
                     [cmplt |-> TRUE, rxsof |-> sof, rxeof |-> eof, empty |-> empty]]
              /\ stream' = [tag |-> chunk.tag, eof |-> eof]
              /\ dmasr' = [dmasr EXCEPT !.ioc_irq = @ \/ eof,
                                        !.idle = (DescBase + curdesc = TailDesc)]
              /\ curdesc' = nxtdesc[curdesc]
              /\ UNCHANGED <<dmacr, nxtdesc, nr_cyc_desc, last_read>>
              /\ UNCHANGED <<next_readable_buf, pc, i, n, has_sof, result, stats, bytes>>
              /\ ReadPtr' = ReadPtr /\ Released' = Released /\ Ahead' = Ahead
<1>1. /\ UNCHANGED <<nr_cyc_desc, next_readable_buf, pc, i, n, has_sof, result, stats>>
      /\ UNCHANGED <<bytes, last_read>>
  BY DEF memVars, loopVars, readVars
<1>2. ReadPtr' = ReadPtr /\ Released' = Released /\ Ahead' = Ahead
  BY <1>1 DEF ReadPtr, Released, Ahead
<1> QED
  BY <1>1, <1>2 DEF CompleteDesc

\* The engine's descriptor is the first one behind the complete ones, and completing it
\* makes them one more.
LEMMA CompleteFill ==
    ASSUME RingInv, LinkOK, CursorOK, CompleteDesc, UNCHANGED memVars
    PROVE  /\ Fill = Dist(ReadPtr, curdesc) /\ Fill \in 0 .. nr_cyc_desc - 1
           /\ Fill' = Fill + 1
           /\ LinkOK'
<1>1. PICK sof, eof, empty \in BOOLEAN :
         /\ fetched
         /\ status' = [status EXCEPT ![curdesc] =
                [cmplt |-> TRUE, rxsof |-> sof, rxeof |-> eof, empty |-> empty]]
         /\ curdesc' = nxtdesc[curdesc]
         /\ UNCHANGED <<nxtdesc, nr_cyc_desc>>
         /\ ReadPtr' = ReadPtr
  BY CompletePicked
<1> DEFINE r == ReadPtr
           c == curdesc
           N == nr_cyc_desc
<1>2. N \in Nat \ {0} /\ r \in Ring /\ c \in Ring /\ Ring \subseteq Descs
  BY ReadPlace DEF LinkOK
<1>3. /\ status \in [Descs -> Statuses] /\ ~status[c].cmplt
  BY <1>1 DEF RingInv, DmaTypeOK, OwnershipOK
<1>4. /\ \A d \in Ring : d # c => status'[d] = status[d]
      /\ status'[c].cmplt
  BY <1>1, <1>2, <1>3
<1>5. Fill = Dist(r, c) /\ Fill \in Ring
  <2>1. CASE r = c
    BY <1>2, <1>3, <2>1, DistStep DEF Fill
  <2>2. CASE r # c
    BY <1>2, <2>2, DistStep DEF Fill
  <2> QED
    BY <2>1, <2>2
<1>6. curdesc' = Wrap(c + 1) /\ curdesc' \in Ring /\ Ring' = Ring
  BY <1>1, <1>2, DistStep DEF LinkOK, Ring
<1>8. Fill' = Fill + 1
  <2>1. CASE r = Wrap(c + 1)
    <3>1. status'[r].cmplt
      <4>1. CASE r = c
        BY <1>4, <4>1
      <4>2. CASE r # c
        <5>1. Dist(r, r) = 0 /\ Dist(r, c) # 0 /\ Dist(r, c) \in Ring
          BY <1>2, <4>2, DistStep
        <5> QED
          BY <1>2, <1>4, <1>5, <4>2, <5>1 DEF LinkOK, Ring
      <4> QED
        BY <4>1, <4>2
    <3>2. Fill' = N
      BY <1>1, <1>6, <2>1, <3>1 DEF Fill
    <3> QED
      BY <1>2, <1>5, <2>1, <3>2, DistStep
  <2>2. CASE r # Wrap(c + 1)
    <3>1. Fill' = Dist(r, Wrap(c + 1))
      BY <1>1, <1>6, <2>2 DEF Fill, Dist
    <3> QED
      BY <1>2, <1>5, <2>2, <3>1, DistStep
  <2> QED
    BY <2>1, <2>2
<1>9. ASSUME NEW d \in Ring
      PROVE  status'[d].cmplt <=> Dist(r, d) < Fill + 1
  <2>1. Dist(r, d) \in Nat /\ Fill \in Nat
    <3>1. Dist(r, d) \in Ring
      BY <1>2, DistStep
    <3> QED
      BY <1>2, <1>5, <3>1 DEF Ring
  <2>2. CASE d = c
    BY <1>4, <1>5, <2>1, <2>2
  <2>3. CASE d # c
    <3>1. Dist(r, d) # Fill
      BY <1>2, <1>5, <2>3, DistStep
    <3>2. status[d].cmplt <=> Dist(r, d) < Fill
      BY DEF LinkOK
    <3> QED
      BY <1>4, <2>1, <2>3, <3>1, <3>2
  <2> QED
    BY <2>2, <2>3
<1>10. LinkOK'
  <2>1. \A d \in Ring : (Dist(ReadPtr, d) < Fill)' <=> Dist(r, d) < Fill + 1
    BY <1>1, <1>8 DEF Dist
  <2>2. \A d \in Ring' : nxtdesc'[d] = Wrap(d + 1)'
    BY <1>1, <1>6 DEF LinkOK, Wrap
  <2> QED
    BY <1>6, <1>9, <2>1, <2>2 DEF LinkOK
<1> QED
  BY <1>5, <1>8, <1>10 DEF Ring
\* The chunk that the engine stores continues the chain.
LEMMA CompleteChain ==
    ASSUME RingInv, LinkOK, ChainOK, CursorOK, CompleteDesc, UNCHANGED memVars
    PROVE  ChainOK'
<1>1. PICK sof, eof, empty \in BOOLEAN :
         /\ sof = stream.eof \/ "no_sof" \in Faults
         /\ mem' = [mem EXCEPT ![curdesc] =
                       [tag |-> Succ(stream.tag), sof |-> sof, eof |-> eof]]
         /\ status' = [status EXCEPT ![curdesc] =
                [cmplt |-> TRUE, rxsof |-> sof, rxeof |-> eof, empty |-> empty]]
         /\ stream' = [tag |-> Succ(stream.tag), eof |-> eof]
         /\ UNCHANGED <<nxtdesc, nr_cyc_desc, last_read>>
         /\ ReadPtr' = ReadPtr
  BY CompletePicked
<1> DEFINE r == ReadPtr
           c == curdesc
           F == Fill
<1>2. /\ nr_cyc_desc \in Nat \ {0} /\ r \in Ring /\ c \in Ring /\ Ring \subseteq Descs
      /\ Ring' = Ring
  BY <1>1, ReadPlace DEF LinkOK, Ring
<1>3. F = Dist(r, c) /\ F \in Nat /\ F < nr_cyc_desc /\ Fill' = F + 1
  BY <1>2, CompleteFill
<1>4. Succ(stream.tag) \in Tags /\ stream.eof \in BOOLEAN
  BY SuccTag DEF RingInv, DmaTypeOK
<1>5. /\ mem'[c] = [tag |-> Succ(stream.tag), sof |-> sof, eof |-> eof]
      /\ mem'[c] \in Chunks
      /\ status'[c].rxsof = sof /\ status'[c].rxeof = eof
      /\ \A d \in Ring : d # c => mem'[d] = mem[d] /\ status'[d] = status[d]
  BY <1>1, <1>2, <1>4 DEF RingInv, DmaTypeOK, Chunks
<1>6. /\ \A d \in Ring : Dist(ReadPtr, d)' = Dist(r, d)
      /\ \A d \in Ring : Wrap(d + 1)' = Wrap(d + 1)
      /\ \A d \in Ring : Dist(r, d) \in Nat /\ (Dist(r, d) = F => d = c)
  <2>1. ASSUME NEW d \in Ring PROVE Dist(r, d) \in Ring /\ (Dist(r, d) = F => d = c)
    BY <1>2, <1>3, DistStep
  <2>2. ASSUME NEW d \in Ring PROVE Dist(r, d) \in Nat
    BY <2>1 DEF Ring
  <2> QED
    BY <1>1, <2>1, <2>2 DEF Dist, Wrap
<1>7. mem'[r].tag = Succ(last_read)
  <2> HIDE DEF F
  <2>0. Dist(r, c) = 0 <=> r = c
    BY <1>2, DistStep
  <2>1. CASE F = 0
    <3>1. r = c
      BY <1>3, <2>0, <2>1
    <3>2. stream.tag = last_read
      BY <2>1 DEF ChainOK, F
    <3> QED
      BY <1>5, <3>1, <3>2
  <2>2. CASE F > 0
    <3>1. r # c
      BY <1>3, <2>0, <2>2
    <3> QED
      BY <1>2, <1>5, <2>2, <3>1 DEF ChainOK, F
  <2> QED
    BY <1>3, <2>1, <2>2
<1>8. ASSUME NEW d \in Ring, status'[d].cmplt
      PROVE  /\ mem'[d] \in Chunks
             /\ status'[d].rxsof = mem'[d].sof /\ status'[d].rxeof = mem'[d].eof
  BY <1>5, <1>8 DEF ChainOK
<1>9. ASSUME NEW d \in Ring, Dist(r, d) + 1 < F + 1
      PROVE  /\ mem'[Wrap(d + 1)].tag = Succ(mem'[d].tag)
             /\ "no_sof" \notin Faults => mem'[Wrap(d + 1)].sof = mem'[d].eof
  <2>1. d # c /\ mem'[d] = mem[d]
    BY <1>3, <1>5, <1>6, <1>9
  <2>2. Wrap(d + 1) \in Ring /\ Dist(r, Wrap(d + 1)) = Dist(r, d) + 1
    BY <1>2, <1>3, <1>6, <1>9, DistStep
  <2>3. CASE Dist(r, d) + 1 < F
    <3>1. Wrap(d + 1) # c
      BY <1>3, <2>2, <2>3
    <3> QED
      BY <1>5, <2>1, <2>2, <2>3, <3>1 DEF ChainOK
  <2>4. CASE Dist(r, d) + 1 = F
    <3>1. Wrap(d + 1) = c
      BY <1>6, <2>2, <2>4
    <3>2. stream.tag = mem[d].tag /\ stream.eof = mem[d].eof
      BY <2>4 DEF ChainOK
    <3> QED
      BY <1>1, <1>5, <2>1, <3>1, <3>2
  <2> QED
    BY <1>3, <1>6, <1>9, <2>3, <2>4
<1>10. ASSUME NEW d \in Ring, Dist(r, d) + 1 = F + 1
       PROVE  stream'.tag = mem'[d].tag /\ stream'.eof = mem'[d].eof
  <2>1. d = c
    BY <1>3, <1>6, <1>10
  <2> QED
    BY <1>1, <1>5, <2>1
<1> QED
  BY <1>1, <1>2, <1>3, <1>6, <1>7, <1>8, <1>9, <1>10 DEF ChainOK

\* Buffers that the call in progress has found and not released keep status and data.
LEMMA EngineLeaves ==
    ASSUME RingInv, Engine, UNCHANGED memVars,
           NEW j \in Released + 1 .. Len(result)
    PROVE  status'[result[j]] = status[result[j]] /\ mem'[result[j]] = mem[result[j]]
<1>1. Released \in Nat /\ Len(result) \in Nat
  BY DEF RingInv, MemTypeOK, ShapeOK, Released
<1>2. result[j] \in Descs /\ status[result[j]].cmplt
  BY <1>1, DmaAssumption DEF RingInv, MemTypeOK, OwnershipOK, Ring, Descs
<1>3. CASE CompleteDesc
  <2>1. result[j] # curdesc
    BY <1>2, <1>3 DEF CompleteDesc, RingInv, OwnershipOK
  <2> QED
    BY <1>2, <1>3, <2>1 DEF CompleteDesc, RingInv, DmaTypeOK
<1> QED
  BY <1>3 DEF Engine, FetchDesc, FetchStale, BusError

\* A step of the engine preserves the order.
LEMMA EngineOrder ==
    ASSUME RingInv, OrderInv, Engine, UNCHANGED memVars
    PROVE  OrderInv'
<1> USE DEF OrderInv
<1>1. /\ UNCHANGED <<nr_cyc_desc, next_readable_buf, pc, i, n, has_sof, result, stats>>
      /\ UNCHANGED <<bytes, last_read>>
  BY DEF memVars, loopVars, readVars
<1>2. CursorOK'
  BY <1>1 DEF CursorOK, Wrap
<1>3. BytesOK'
  <2> SUFFICES ASSUME pc = "clear"
               PROVE  bytes[Len(bytes)] = mem'[result[Len(bytes)]]
    BY <1>1 DEF BytesOK
  <2>1. Len(bytes) \in Released + 1 .. Len(result)
    BY DEF Released, RingInv, MemTypeOK, ShapeOK
  <2> QED
    BY <2>1, EngineLeaves DEF BytesOK
<1>4. CASE CompleteDesc
  BY <1>2, <1>3, <1>4, CompleteFill, CompleteChain
<1>5. CASE FetchDesc \/ FetchStale \/ BusError
  <2>1. UNCHANGED <<curdesc, nxtdesc, status, mem, stream>>
    BY <1>5 DEF FetchDesc, FetchStale, BusError
  <2>2. ReadPtr' = ReadPtr
    BY <1>1 DEF ReadPtr, Released
  <2> QED
    BY <1>1, <1>2, <1>3, <2>1, <2>2, OrderFrame
<1> QED
  BY <1>4, <1>5 DEF Engine
-----------------------------------------------------------------------------
\* The reader's scans move neither data nor the oldest unreleased buffer.  (Passing over
\* a buffer, or losing the ones found to an exception of get_full_buffers(), would.)
LEMMA ScanOrder ==
    ASSUME RingInv, OrderInv,
           FullTake \/ FullReturn \/ PacketTake \/ PacketReturn \/ PacketThrow
    PROVE  OrderInv' /\ Fill' = Fill /\ ReadPtr' = ReadPtr
<1> USE DEF OrderInv
<1>1. /\ pc \in {"full", "packet"}
      /\ stats = <<>> /\ bytes = <<>>
      /\ UNCHANGED <<dmacr, dmasr, curdesc, fetched, status, nxtdesc, mem, stream>>
      /\ UNCHANGED <<nr_cyc_desc, stats, bytes, last_read>>
  BY DEF RingInv, ShapeOK, FullTake, FullReturn, PacketTake, PacketReturn, PacketThrow,
         dmaVars, regVars, readVars
<1>2. Released = 0 /\ Released' = Released
  <2>1. pc' # "clear"
    BY DEF FullTake, FullReturn, PacketTake, PacketReturn, PacketThrow
  <2> QED
    BY <1>1, <2>1 DEF Released
<1>3. Len(result) \in Nat /\ i \in Nat /\ result \in Seq(Ring)
  BY DEF RingInv, MemTypeOK
<1>4. ReadPtr = IF result = <<>> THEN next_readable_buf ELSE result[1]
  BY <1>2, <1>3 DEF ReadPtr
<1>5. ASSUME NEW k \in Ring, result' = Append(result, k),
             result = <<>> => k = ReadPtr
      PROVE  ReadPtr' = ReadPtr /\ result'[1] = ReadPtr /\ Len(result') = Len(result) + 1
             /\ result' # <<>>
  <2>1. Len(result') = Len(result) + 1 /\ result'[1] = IF result = <<>> THEN k ELSE result[1]
    BY <1>3, <1>5
  <2> QED
    BY <1>2, <1>3, <1>4, <1>5, <2>1 DEF ReadPtr
<1>6. ReadPtr' = ReadPtr /\ CursorOK'
  <2>1. CASE FullTake
    <3>1. next_readable_buf \in Ring
      BY DEF RingInv, MemTypeOK
    <3>2. ReadPtr' = ReadPtr /\ Len(result') = Len(result) + 1
      BY <1>4, <1>5, <2>1, <3>1 DEF FullTake
    <3> QED
      BY <2>1, <3>2 DEF FullTake, CursorOK, Reading
  <2>2. CASE FullReturn
    <3>1. ReadPtr' = ReadPtr
      BY <1>2, <2>2 DEF FullReturn, ReadPtr, loopVars
    <3>2. pc = "full" /\ pc' = "got" /\ UNCHANGED <<next_readable_buf, result, i>>
      BY <2>2 DEF FullReturn, loopVars
    <3>3. result # <<>> => next_readable_buf = Wrap(result[1] + Len(result))
      BY <3>2 DEF RingInv, ConsecutiveOK
    <3> QED
      BY <1>1, <3>1, <3>2, <3>3 DEF CursorOK, Wrap
  <2>3. CASE PacketTake
    <3>1. /\ pc = "packet" /\ n \in Ring /\ result' = Append(result, n)
          /\ next_readable_buf = ReadPtr /\ (result = <<>> => n = ReadPtr)
      BY <1>4, <2>3 DEF PacketTake, RingInv, MemTypeOK, CursorOK
    <3>2. /\ ReadPtr' = ReadPtr /\ result'[1] = ReadPtr
          /\ Len(result') = Len(result) + 1 /\ result' # <<>>
      BY <1>5, <3>1
    <3>3. CASE ~status[n].rxeof
      <4>1. pc' = "packet" /\ next_readable_buf' = next_readable_buf
        BY <2>3, <3>3 DEF PacketTake
      <4> QED
        BY <3>1, <3>2, <4>1 DEF CursorOK, Reading
    <3>4. CASE status[n].rxeof
      <4>1. pc' = "got" /\ next_readable_buf' = Advance(n)
        BY <2>3, <3>4 DEF PacketTake
      <4>2. /\ nr_cyc_desc \in Nat \ {0} /\ ReadPtr \in Ring
            /\ Len(result) \in 0 .. nr_cyc_desc - 1
        <5>1. nr_cyc_desc \in Nat \ {0} /\ ReadPtr \in Ring
          BY ReadPlace
        <5>2. Len(result) <= i /\ i # nr_cyc_desc /\ i \in 0 .. nr_cyc_desc
          BY <2>3 DEF PacketTake, AllSeen, RingInv, ShapeOK, MemTypeOK
        <5> QED
          BY <1>3, <5>1, <5>2
      <4>3. n = Wrap(ReadPtr + Len(result))
        <5>1. CASE result = <<>>
          BY <3>1, <4>2, <5>1 DEF Wrap, Ring
        <5>2. CASE result # <<>>
          BY <1>4, <3>1, <5>2 DEF RingInv, ConsecutiveOK
        <5> QED
          BY <5>1, <5>2
      <4>4. Advance(n) = Wrap(n + 1)
        <5>1. n \in 0 .. nr_cyc_desc - 1
          BY <3>1 DEF Ring
        <5>2. Advance(n) = IF n + 1 < nr_cyc_desc THEN n + 1 ELSE 0
          BY <4>2, <5>1, AdvanceWrap DEF Advance
        <5> QED
          BY <4>2, <5>1, <5>2 DEF Wrap
      <4>5. Advance(n) = Wrap(ReadPtr + (Len(result) + 1))
        <5>1. 1 \in 0 .. nr_cyc_desc - Len(result) /\ Len(result) \in 0 .. nr_cyc_desc
          BY <4>2
        <5> QED
          BY <4>2, <4>3, <4>4, <5>1, WrapDist
      <4>6. next_readable_buf' = Wrap(result[1] + Len(result))'
        BY <1>1, <3>2, <4>1, <4>5 DEF Wrap
      <4> QED
        BY <3>2, <4>1, <4>6 DEF CursorOK
    <3> QED
      BY <3>3, <3>4
  <2>4. CASE PacketReturn \/ PacketThrow
    <3>1. /\ pc = "packet" /\ pc' \in {"got", "threw"} /\ result' = <<>>
          /\ UNCHANGED next_readable_buf
      BY <2>4 DEF PacketReturn, PacketThrow
    <3>2. ReadPtr = next_readable_buf /\ ReadPtr' = next_readable_buf'
      BY <1>2, <1>4, <3>1 DEF CursorOK, ReadPtr
    <3> QED
      BY <3>1, <3>2 DEF CursorOK
  <2> QED
    BY <2>1, <2>2, <2>3, <2>4
<1>7. BytesOK'
  BY DEF BytesOK, FullTake, FullReturn, PacketTake, PacketReturn, PacketThrow
<1> QED
  BY <1>1, <1>6, <1>7, OrderFrame
\* A call begins; or it ends, with everything it found released.
LEMMA CallOrder ==
    ASSUME RingInv, OrderInv,
           \/ pc = "idle" /\ (get_full_buffers \/ get_next_packet)
           \/ /\ pc \in {"ready", "threw"} \/ (pc = "got" /\ result = <<>>)
              /\ CallDone
    PROVE  OrderInv' /\ Fill' = Fill /\ ReadPtr' = ReadPtr /\ ReadPtr = next_readable_buf
<1> USE DEF OrderInv
<1>1. /\ UNCHANGED <<curdesc, nxtdesc, status, mem, stream, nr_cyc_desc, last_read>>
      /\ result' = <<>> /\ bytes' = <<>> /\ i' = 0 /\ UNCHANGED next_readable_buf
      /\ pc' \in {"full", "packet", "idle"} /\ (pc' = "packet" => n' = next_readable_buf)
  BY DEF RingInv, ShapeOK, get_full_buffers, get_next_packet, CallDone, dmaVars, regVars,
         readVars
<1>2. Len(result) \in Nat /\ Len(bytes) \in Nat
  BY DEF RingInv, MemTypeOK
<1>3. ReadPtr' = next_readable_buf
  BY <1>1 DEF ReadPtr, Released
<1>4. ReadPtr = next_readable_buf
  <2>1. CASE pc = "ready"
    BY <1>2, <2>1 DEF ReadPtr, Released, CursorOK
  <2>2. CASE pc # "ready"
    <3>1. result = <<>> /\ bytes = <<>> /\ pc # "clear"
      BY <2>2 DEF RingInv, ShapeOK
    <3> QED
      BY <3>1 DEF ReadPtr, Released
  <2> QED
    BY <2>1, <2>2
<1>5. CursorOK' /\ BytesOK'
  BY <1>1 DEF CursorOK, BytesOK, Reading
<1> QED
  BY <1>1, <1>3, <1>4, <1>5, OrderFrame

\* read_buffers() up to the write-back.
LEMMA ReadOrder ==
    ASSUME RingInv, OrderInv,
           read_buffers \/ ReadStat \/ StatsDone \/ CopyBuf \/ ReadReturn
    PROVE  OrderInv' /\ Fill' = Fill /\ ReadPtr' = ReadPtr /\ Released' = Released
<1> USE DEF OrderInv
<1>1. /\ UNCHANGED <<curdesc, nxtdesc, status, mem, stream, nr_cyc_desc, last_read>>
      /\ UNCHANGED <<next_readable_buf, i, n, result>>
      /\ pc \in Reading /\ pc' \in Reading
  BY DEF read_buffers, ReadStat, StatsDone, CopyBuf, ReadReturn, dmaVars, regVars,
         loopVars, Reading
<1>2. Len(result) \in Nat /\ Len(bytes) \in Nat /\ bytes \in Seq(Chunks \cup {NoChunk})
  BY DEF RingInv, MemTypeOK
<1>3. CASE CopyBuf
  <2> DEFINE m == Len(bytes) + 1
  <2>1. /\ pc = "copy" /\ pc' = "clear" /\ m <= Len(result)
        /\ bytes' = Append(bytes, mem[result[m]])
    BY <1>2, <1>3 DEF CopyBuf
  <2>2. mem[result[m]] \in Chunks \cup {NoChunk}
    <3>1. result[m] \in Descs
      BY <1>2, <2>1, DmaAssumption DEF RingInv, MemTypeOK, Ring, Descs
    <3> QED
      BY <3>1 DEF RingInv, DmaTypeOK
  <2>3. Len(bytes') = m /\ bytes'[m] = mem[result[m]]
    BY <1>2, <2>1, <2>2
  <2>4. Released' = Released
    BY <1>2, <2>1, <2>3 DEF Released
  <2>5. ReadPtr' = ReadPtr
    BY <1>1, <2>4 DEF ReadPtr
  <2>6. CursorOK' /\ BytesOK'
    BY <1>1, <2>1, <2>3 DEF CursorOK, BytesOK, Wrap, Reading
  <2> QED
    BY <1>1, <2>4, <2>5, <2>6, OrderFrame
<1>4. CASE read_buffers \/ ReadStat \/ StatsDone \/ ReadReturn
  <2>1. /\ bytes' = bytes /\ pc # "clear" /\ pc' # "clear"
        /\ pc' = "ready" => Len(bytes) = Len(result)
    BY <1>4 DEF read_buffers, ReadStat, StatsDone, ReadReturn, readVars, RingInv, ShapeOK
  <2>2. Released' = Released
    BY <2>1 DEF Released
  <2>3. ReadPtr' = ReadPtr
    BY <1>1, <2>2 DEF ReadPtr
  <2>4. CursorOK' /\ BytesOK'
    BY <1>1, <2>1 DEF CursorOK, BytesOK, Wrap, Reading
  <2> QED
    BY <1>1, <2>2, <2>3, <2>4, OrderFrame
<1> QED
  BY <1>3, <1>4

\* The write-back releases the oldest buffer.
LEMMA ClearPlace ==
    ASSUME RingInv, OrderInv, ClearStat
    PROVE  /\ ReadPtr = result[Len(bytes)] /\ ReadPtr' = Wrap(ReadPtr + 1)
           /\ Released' = Released + 1 /\ Released \in Nat
           /\ status[ReadPtr].cmplt /\ ~status'[ReadPtr].cmplt
           /\ \A d \in Ring : d # ReadPtr => status'[d] = status[d]
           /\ last_read' = mem[ReadPtr].tag
           /\ UNCHANGED <<curdesc, nxtdesc, mem, stream, nr_cyc_desc>>
           /\ UNCHANGED <<next_readable_buf, i, n, has_sof, result, stats, bytes>>
           /\ pc = "clear" /\ pc' = "copy" /\ Fill' = Fill - 1 /\ Fill \in 1 .. nr_cyc_desc
<1> USE DEF OrderInv
<1> DEFINE m == Len(bytes)
           r == result[m]
           N == nr_cyc_desc
<1>1. /\ pc = "clear" /\ pc' = "copy"
      /\ status' = [status EXCEPT ![r] = [stats[m] EXCEPT !.cmplt = FALSE]]
      /\ last_read' = bytes[m].tag
      /\ UNCHANGED <<curdesc, nxtdesc, mem, stream, nr_cyc_desc>>
      /\ UNCHANGED <<next_readable_buf, i, n, has_sof, result, stats, bytes>>
  BY DEF ClearStat, Cleared, regVars, loopVars, readVars
<1>2. /\ Len(result) \in Nat /\ m \in 1 .. Len(result) /\ Len(stats) = Len(result)
      /\ Released = m - 1 /\ Released' = m
      /\ stats[m] \in Statuses
  BY <1>1 DEF RingInv, MemTypeOK, ShapeOK, Released
<1>3. ReadPtr = r
  BY <1>2 DEF ReadPtr
<1>4. /\ N \in Nat \ {0} /\ r \in Ring /\ curdesc \in Ring /\ Ring \subseteq Descs
      /\ Len(result) <= N
      /\ \A j \in 1 .. Len(result) : result[j] \in Ring /\ result[j] = Wrap(result[1] + (j - 1))
  BY <1>2, ReadPlace DEF LinkOK
<1>5. ReadPtr' = Wrap(r + 1)
  <2>1. result[1] \in Ring /\ r = Wrap(result[1] + (m - 1))
    BY <1>2, <1>4
  <2>2. Wrap(r + 1) = Wrap(result[1] + ((m - 1) + 1))
    <3>1. 1 \in 0 .. N - (m - 1) /\ m - 1 \in 0 .. N
      BY <1>2, <1>4
    <3> QED
      BY <1>4, <2>1, <3>1, WrapDist
  <2>3. (m - 1) + 1 = m
    BY <1>2
  <2>4. CASE m < Len(result)
    <3>1. result[m + 1] = Wrap(result[1] + m)
      <4>1. m + 1 \in 1 .. Len(result) /\ (m + 1) - 1 = m
        BY <1>2, <2>4
      <4> QED
        BY <1>4, <4>1
    <3> QED
      BY <1>1, <1>2, <2>2, <2>3, <2>4, <3>1 DEF ReadPtr
  <2>5. CASE m = Len(result)
    <3>1. next_readable_buf = Wrap(result[1] + Len(result))
      BY <1>1, <1>2 DEF CursorOK, Reading
    <3> QED
      BY <1>1, <1>2, <2>2, <2>3, <2>5, <3>1 DEF ReadPtr
  <2> QED
    BY <1>2, <2>4, <2>5
<1>6. /\ status[r].cmplt /\ ~status'[r].cmplt
      /\ \A d \in Ring : d # r => status'[d] = status[d]
  <2>1. status[r].cmplt
    BY <1>2 DEF RingInv, OwnershipOK
  <2> QED
    BY <1>1, <1>2, <1>4, <2>1 DEF RingInv, DmaTypeOK, Statuses
<1>7. last_read' = mem[r].tag
  BY <1>1 DEF BytesOK
<1>8. Fill' = Fill - 1 /\ Fill \in 1 .. N
  <2> DEFINE c == curdesc
             q == Wrap(r + 1)
  <2>1. /\ q \in Ring /\ Dist(r, c) \in Ring /\ (Dist(r, c) = 0 <=> r = c)
        /\ Dist(q, c) = IF r = c THEN N - 1 ELSE Dist(r, c) - 1
        /\ Dist(q, c) \in Ring /\ (Dist(q, c) = 0 <=> q = c)
    <3>1. N \in Nat \ {0} /\ r \in Ring /\ c \in Ring
      BY <1>4
    <3> HIDE DEF r, c
    <3>2. q \in Ring
      BY <3>1, DistStep
    <3>3. Dist(r, c) \in Ring /\ (Dist(r, c) = 0 <=> r = c)
      BY <3>1, DistStep
    <3>4. Dist(q, c) = IF r = c THEN N - 1 ELSE Dist(r, c) - 1
      BY <3>1, DistStep
    <3> HIDE DEF q
    <3>5. Dist(q, c) \in Ring /\ (Dist(q, c) = 0 <=> q = c)
      BY <3>1, <3>2, DistStep
    <3> QED
      BY <3>2, <3>3, <3>4, <3>5
  <2>2. /\ Fill = IF r # c THEN Dist(r, c) ELSE N
        /\ Fill' = IF q # c THEN Dist(q, c) ELSE IF status'[c].cmplt THEN N ELSE 0
    BY <1>1, <1>3, <1>5, <1>6 DEF Fill, Dist
  <2>3. CASE r = c
    BY <1>4, <1>6, <2>1, <2>2, <2>3 DEF Ring
  <2>4. CASE r # c
    <3>1. status[c].cmplt <=> Dist(r, c) < Dist(r, c)
      BY <1>3, <1>4, <2>2, <2>4 DEF LinkOK
    <3>2. ~status'[c].cmplt
      BY <1>4, <1>6, <2>1, <2>4, <3>1 DEF Ring
    <3> QED
      BY <1>4, <2>1, <2>2, <2>4, <3>2 DEF Ring
  <2> QED
    BY <2>3, <2>4
<1> QED
  BY <1>1, <1>2, <1>3, <1>5, <1>6, <1>7, <1>8
\* It preserves the order: what comes next is the successor of what has been read.
LEMMA ClearOrder == ASSUME RingInv, OrderInv, ClearStat PROVE OrderInv'
<1> DEFINE r == ReadPtr
           q == Wrap(r + 1)
           F == Fill
<1>1. /\ ReadPtr' = q /\ status[r].cmplt /\ ~status'[r].cmplt
      /\ \A d \in Ring : d # r => status'[d] = status[d]
      /\ last_read' = mem[r].tag
      /\ UNCHANGED <<curdesc, nxtdesc, mem, stream, nr_cyc_desc>>
      /\ UNCHANGED <<next_readable_buf, i, n, has_sof, result, stats, bytes>>
      /\ pc = "clear" /\ pc' = "copy" /\ Fill' = F - 1 /\ F \in 1 .. nr_cyc_desc
  BY ClearPlace
<1>2. nr_cyc_desc \in Nat \ {0} /\ r \in Ring /\ curdesc \in Ring /\ Ring' = Ring
  BY <1>1, ReadPlace DEF OrderInv, LinkOK, Ring
<1>3. q \in Ring /\ Dist(r, r) = 0 /\ Dist(q, r) = nr_cyc_desc - 1
  <2> HIDE DEF r
  <2>1. q \in Ring
    BY <1>2, DistStep
  <2>2. Dist(r, r) = 0
    BY <1>2, DistStep
  <2>3. Dist(q, r) = nr_cyc_desc - 1
    BY <1>2, DistStep
  <2> QED
    BY <2>1, <2>2, <2>3
<1>4. ASSUME NEW d \in Ring
      PROVE  /\ Dist(q, d) = IF d = r THEN nr_cyc_desc - 1 ELSE Dist(r, d) - 1
             /\ Dist(r, d) \in Nat /\ Dist(q, d) \in Nat
             /\ Dist(ReadPtr, d)' = Dist(q, d) /\ Wrap(d + 1)' = Wrap(d + 1)
  <2>1. Dist(ReadPtr, d)' = Dist(q, d) /\ Wrap(d + 1)' = Wrap(d + 1)
    BY <1>1 DEF Dist, Wrap
  <2> HIDE DEF r
  <2>2. Dist(q, d) = IF d = r THEN nr_cyc_desc - 1 ELSE Dist(r, d) - 1
    BY <1>2 DEF Dist, Wrap, Ring
  <2>3. Dist(r, d) \in Ring
    BY <1>2, DistStep
  <2> HIDE DEF q
  <2>4. Dist(q, d) \in Ring
    BY <1>2, <1>3, DistStep
  <2> QED
    BY <2>1, <2>2, <2>3, <2>4 DEF Ring
<1> HIDE DEF q
<1>5. LinkOK'
  <2>1. ASSUME NEW d \in Ring PROVE status'[d].cmplt <=> Dist(q, d) < F - 1
    <3>1. status[d].cmplt <=> Dist(r, d) < F
      BY DEF OrderInv, LinkOK
    <3> QED
      BY <1>1, <1>2, <1>4, <3>1
  <2> QED
    BY <1>1, <1>2, <1>4, <2>1 DEF OrderInv, LinkOK
<1>6. ChainOK'
  <2>1. CASE F = 1
    <3>1. stream.tag = mem[r].tag
      BY <1>2, <1>3, <2>1 DEF OrderInv, ChainOK
    <3> QED
      BY <1>1, <1>2, <1>4, <2>1, <3>1 DEF OrderInv, ChainOK
  <2>2. CASE F > 1
    <3>1. mem[q].tag = Succ(mem[r].tag)
      BY <1>2, <1>3, <2>2 DEF OrderInv, ChainOK, q
    <3>2. ASSUME NEW d \in Ring, status'[d].cmplt
          PROVE  /\ mem[d] \in Chunks
                 /\ status'[d].rxsof = mem[d].sof /\ status'[d].rxeof = mem[d].eof
      BY <1>1, <3>2 DEF OrderInv, ChainOK
    <3>3. ASSUME NEW d \in Ring, Dist(q, d) + 1 < F - 1
          PROVE  /\ mem[Wrap(d + 1)].tag = Succ(mem[d].tag)
                 /\ "no_sof" \notin Faults => mem[Wrap(d + 1)].sof = mem[d].eof
      <4>1. Dist(r, d) + 1 < F
        BY <1>1, <1>2, <1>4, <3>3
      <4> QED
        BY <4>1 DEF OrderInv, ChainOK
    <3>4. ASSUME NEW d \in Ring, Dist(q, d) + 1 = F - 1
          PROVE  stream.tag = mem[d].tag /\ stream.eof = mem[d].eof
      <4>1. Dist(r, d) + 1 = F
        BY <1>1, <1>2, <1>4, <3>4
      <4> QED
        BY <4>1 DEF OrderInv, ChainOK
    <3> QED
      BY <1>1, <1>2, <1>4, <2>2, <3>1, <3>2, <3>3, <3>4 DEF ChainOK
  <2> QED
    BY <1>1, <2>1, <2>2
<1>7. CursorOK' /\ BytesOK'
  BY <1>1 DEF OrderInv, CursorOK, BytesOK, Wrap, Reading
<1> QED
  BY <1>5, <1>6, <1>7 DEF OrderInv

\* init_buffers() and start(), between two calls: an empty ring at the start of a stream.
LEMMA StartOrder ==
    ASSUME RingInv, NEW nr \in 1 .. NumDesc, pc = "idle", init_buffers(nr), start(0)
    PROVE  OrderInv' /\ PacketInv' /\ Fill' = 0
<1>1. /\ nr_cyc_desc' = nr /\ next_readable_buf' = 0 /\ last_read' = 0
      /\ nxtdesc' = [d \in Descs |-> IF d < nr THEN (d + 1) % nr ELSE nxtdesc[d]]
      /\ status'  = [d \in Descs |-> IF d < nr THEN ClearStatus ELSE status[d]]
      /\ curdesc' = 0 /\ stream' = [tag |-> 0, eof |-> TRUE]
      /\ UNCHANGED <<pc, i, n, has_sof, result, stats, bytes>>
  BY DEF init_buffers, write_cyc_mode, start, FirstBuf, InitStatus, loopVars, readVars
<1>2. result = <<>> /\ stats = <<>> /\ bytes = <<>>
  BY DEF RingInv, ShapeOK
<1>3. nr \in Nat \ {0} /\ Ring' = 0 .. nr - 1 /\ Ring' \subseteq Descs /\ 0 \in Ring'
  BY <1>1, DmaAssumption DEF Ring, Descs
<1>4. ReadPtr' = 0
  BY <1>1, <1>2 DEF ReadPtr, Released
<1>5. \A d \in Ring' : ~status'[d].cmplt
  BY <1>1, <1>3 DEF ClearStatus
<1>6. Fill' = 0
  BY <1>1, <1>3, <1>4, <1>5 DEF Fill
<1>7. ASSUME NEW d \in Ring'
      PROVE  /\ ~(Dist(ReadPtr, d) < Fill)'
             /\ ~(Dist(ReadPtr, d) + 1 < Fill)' /\ ~(Dist(ReadPtr, d) + 1 = Fill)'
  <2>1. Dist(ReadPtr, d)' = d
    BY <1>1, <1>3, <1>4 DEF Dist
  <2> QED
    BY <1>3, <1>6, <2>1
<1>8. ASSUME NEW d \in Ring' PROVE nxtdesc'[d] = Wrap(d + 1)'
  <2>1. nxtdesc'[d] = (d + 1) % nr
    BY <1>1, <1>3
  <2>2. (d + 1) % nr = IF d + 1 < nr THEN d + 1 ELSE 0
    BY <1>3, AdvanceWrap
  <2> QED
    BY <1>1, <1>3, <2>1, <2>2 DEF Wrap
<1>9. LinkOK'
  BY <1>1, <1>3, <1>5, <1>6, <1>7, <1>8 DEF LinkOK
<1>10. ChainOK'
  <2>1. (stream.tag = last_read)' /\ ~(Fill > 0)'
    BY <1>1, <1>6
  <2> QED
    BY <1>5, <1>7, <2>1 DEF ChainOK
<1>11. CursorOK' /\ BytesOK'
  BY <1>1 DEF CursorOK, BytesOK, Reading
<1>12. PacketInv'
  BY <1>1, <1>6 DEF PacketInv, AtStart, Ahead, Reading
<1> QED
  BY <1>6, <1>9, <1>10, <1>11, <1>12 DEF OrderInv
-----------------------------------------------------------------------------
(* A caller that asks only for packets, while the hardware marks their starts *)

\* The oldest unreleased buffer is complete if any is.
LEMMA FirstComplete ==
    ASSUME RingInv, OrderInv
    PROVE  /\ ReadPtr \in Ring /\ Dist(ReadPtr, ReadPtr) = 0
           /\ Fill \in 0 .. nr_cyc_desc
           /\ status[ReadPtr].cmplt <=> Fill > 0
<1>1. nr_cyc_desc \in Nat \ {0} /\ ReadPtr \in Ring /\ curdesc \in Ring
  BY ReadPlace DEF OrderInv, LinkOK
<1>2. Dist(ReadPtr, ReadPtr) = 0 /\ Dist(ReadPtr, curdesc) \in 0 .. nr_cyc_desc
  BY <1>1 DEF Dist, Ring
<1>3. Fill \in 0 .. nr_cyc_desc
  BY <1>1, <1>2 DEF Fill
<1>4. status[ReadPtr].cmplt <=> Dist(ReadPtr, ReadPtr) < Fill
  BY <1>1 DEF OrderInv, LinkOK
<1> QED
  BY <1>1, <1>2, <1>3, <1>4

\* The cursor is ahead of the oldest unreleased buffer by complete buffers only.
LEMMA AheadFill ==
    ASSUME RingInv, OrderInv, pc # "full"
    PROVE  Ahead <= Fill
<1>1. /\ nr_cyc_desc \in Nat \ {0} /\ ReadPtr \in Ring /\ Fill \in 0 .. nr_cyc_desc
      /\ Ahead \in 0 .. nr_cyc_desc
      /\ Len(result) \in 0 .. nr_cyc_desc /\ Released \in 0 .. Len(result)
  BY ReadPlace, FirstComplete DEF OrderInv
<1>2. CASE Ahead = 0
  BY <1>1, <1>2
<1>3. CASE Ahead > 0
  <2> DEFINE e == result[Len(result)]
             a == Len(result) - 1
             b == Released
  <2>1. pc \in Reading /\ Ahead = Len(result) - Released /\ result # <<>>
    BY <1>1, <1>3 DEF Ahead
  <2>2. /\ e \in Ring /\ result[1] \in Ring
        /\ e = Wrap(result[1] + a)
        /\ ReadPtr = Wrap(result[1] + b)
    <3>1. /\ 1 \in 1 .. Len(result) /\ Len(result) \in 1 .. Len(result)
          /\ Released + 1 \in 1 .. Len(result) /\ (Released + 1) - 1 = Released
      BY <1>1, <1>3, <2>1
    <3>2. ReadPtr = result[Released + 1]
      BY <1>1, <1>3, <2>1 DEF ReadPtr
    <3> QED
      BY <2>1, <3>1, <3>2, ReadPlace DEF OrderInv
  <2>3. status[e].cmplt
    BY <1>1, <1>3, <2>1 DEF RingInv, OwnershipOK
  <2>4. Dist(ReadPtr, e) = a - b
    <3>1. a \in 0 .. nr_cyc_desc - 1 /\ b \in 0 .. a
      BY <1>1, <1>3, <2>1
    <3> DEFINE x == result[1]
    <3>2. /\ ReadPtr = Wrap(x + b) /\ e = Wrap(x + a) /\ x \in 0 .. nr_cyc_desc - 1
      BY <2>2 DEF Ring
    <3> HIDE DEF a, b, e, x
    <3>3. Dist(Wrap(x + b), Wrap(x + a)) = a - b
      BY <1>1, <3>1, <3>2 DEF Dist, Wrap
    <3> QED
      BY <3>2, <3>3
  <2>5. Dist(ReadPtr, e) < Fill
    BY <2>2, <2>3 DEF OrderInv, LinkOK
  <2> QED
    BY <1>1, <2>1, <2>4, <2>5
<1> QED
  BY <1>1, <1>2, <1>3

\* get_next_packet() passes over no buffer.
LEMMA NoSkip == ASSUME RingInv, OrderInv, PacketInv PROVE ~PacketSkip
<1> SUFFICES ASSUME PacketSkip PROVE FALSE
  OBVIOUS
<1>1. /\ pc = "packet" /\ result = <<>> /\ n = next_readable_buf
      /\ status[n].cmplt /\ ~status[n].rxsof
  BY DEF PacketSkip, IsFull, PacketInv, OrderInv, CursorOK
<1>2. ReadPtr = n /\ Ahead = 0
  BY <1>1 DEF ReadPtr, Released, RingInv, ShapeOK, Ahead, Reading
<1>3. mem[n].sof
  BY <1>1, <1>2, FirstComplete DEF PacketInv, AtStart
<1> QED
  BY <1>1, <1>2, <1>3, FirstComplete DEF OrderInv, ChainOK

\* A step of the engine.
LEMMA EnginePacket ==
    ASSUME RingInv, OrderInv, PacketInv, "no_sof" \notin Faults, Engine, UNCHANGED memVars
    PROVE  PacketInv'
<1>1. /\ UNCHANGED <<nr_cyc_desc, next_readable_buf, pc, i, n, has_sof, result, stats>>
      /\ UNCHANGED <<bytes, last_read>>
  BY DEF memVars, loopVars, readVars
<1>2. ReadPtr' = ReadPtr /\ Released' = Released /\ Ahead' = Ahead
  BY <1>1 DEF ReadPtr, Released, Ahead
<1>3. AtStart'
  <2>1. CASE CompleteDesc
    <3>1. PICK sof, eof, empty \in BOOLEAN :
             /\ sof = stream.eof \/ "no_sof" \in Faults
             /\ mem' = [mem EXCEPT ![curdesc] =
                           [tag |-> Succ(stream.tag), sof |-> sof, eof |-> eof]]
             /\ stream' = [tag |-> Succ(stream.tag), eof |-> eof]
      BY <2>1, CompletePicked
    <3>2. /\ Fill = Dist(ReadPtr, curdesc) /\ Fill \in 0 .. nr_cyc_desc - 1
          /\ Fill' = Fill + 1
      BY <2>1, CompleteFill DEF OrderInv
    <3>3. /\ nr_cyc_desc \in Nat \ {0} /\ Ring \subseteq Descs
          /\ ReadPtr \in Ring /\ next_readable_buf \in Ring
          /\ Ahead \in 0 .. nr_cyc_desc /\ next_readable_buf = Wrap(ReadPtr + Ahead)
      BY ReadPlace DEF OrderInv, PacketInv
    <3>4. Ahead <= Fill
      BY AheadFill DEF PacketInv
    <3>5. Dist(ReadPtr, next_readable_buf) = Ahead
      BY <3>2, <3>3, <3>4, WrapDist
    <3>6. curdesc \in Ring
      BY DEF OrderInv, LinkOK
    <3>7. CASE Ahead < Fill
      <4>1. next_readable_buf # curdesc
        BY <3>2, <3>3, <3>5, <3>7
      <4>2. mem'[next_readable_buf] = mem[next_readable_buf]
        BY <3>1, <3>3, <4>1 DEF RingInv, DmaTypeOK
      <4> QED
        BY <1>1, <1>2, <3>2, <3>3, <3>7, <4>2 DEF PacketInv, AtStart
    <3>8. CASE Ahead = Fill
      <4>1. next_readable_buf = curdesc
        BY <3>2, <3>3, <3>5, <3>6, <3>8, DistStep
      <4>2. stream.eof
        BY <3>2, <3>8 DEF PacketInv, AtStart
      <4>3. mem'[curdesc].sof
        BY <3>1, <3>3, <3>6, <4>2 DEF RingInv, DmaTypeOK
      <4> QED
        BY <1>1, <1>2, <3>2, <3>8, <4>1, <4>3 DEF AtStart
    <3> QED
      BY <3>2, <3>3, <3>4, <3>7, <3>8
  <2>2. CASE FetchDesc \/ FetchStale \/ BusError
    <3>1. UNCHANGED <<curdesc, nxtdesc, status, mem, stream>>
      BY <2>2 DEF FetchDesc, FetchStale, BusError
    <3>2. Fill' = Fill
      BY <1>1, <1>2, <3>1, OrderFrame DEF OrderInv
    <3> QED
      BY <1>1, <1>2, <3>1, <3>2 DEF PacketInv, AtStart
  <2> QED
    BY <2>1, <2>2 DEF Engine
<1>4. \A j \in Released + 1 .. Len(result) : status'[result[j]] = status[result[j]]
  BY EngineLeaves
<1>5. /\ Len(result) \in Nat /\ Released \in 0 .. Len(result)
      /\ result # <<>> => Len(result) > 0
  BY ReadPlace DEF OrderInv, RingInv, MemTypeOK
<1>6. pc = "packet" \/ bytes = <<>> => Released = 0 \/ pc = "clear"
  BY DEF RingInv, ShapeOK, Released
<1>7. pc = "clear" => bytes # <<>>
  BY DEF RingInv, ShapeOK
<1>8. (pc = "packet" => /\ i = Len(result)
                        /\ has_sof <=> result # <<>>
                        /\ result # <<>> => status[result[1]].rxsof
                        /\ \A j \in 1 .. Len(result) : ~status[result[j]].rxeof)'
  BY <1>1, <1>4, <1>5, <1>6 DEF PacketInv
<1>9. (pc \in Reading /\ result # <<>> =>
          /\ bytes = <<>> => status[result[1]].rxsof
          /\ \A j \in Released + 1 .. Len(result) : status[result[j]].rxeof <=> j = Len(result)
          /\ bytes # <<>> => bytes[1].sof
          /\ \A j \in 1 .. Len(bytes) : bytes[j].eof <=> j = Len(result)
          /\ \A j \in 1 .. Len(bytes) - 1 : bytes[j + 1].tag = Succ(bytes[j].tag)
          /\ bytes # <<>> /\ pc # "clear" => bytes[Len(bytes)].tag = last_read)'
  BY <1>1, <1>2, <1>4, <1>5, <1>6, <1>7 DEF PacketInv
<1> QED
  BY <1>1, <1>3, <1>8, <1>9 DEF PacketInv
\* get_next_packet() takes the buffers of one packet, or nothing.
LEMMA ScanPacket ==
    ASSUME RingInv, OrderInv, PacketInv, "no_sof" \notin Faults,
           PacketTake \/ PacketReturn \/ PacketThrow
    PROVE  PacketInv'
<1>1. /\ pc = "packet" /\ stats = <<>> /\ bytes = <<>> /\ bytes' = bytes
      /\ UNCHANGED <<status, mem, stream, nr_cyc_desc>>
      /\ pc' \in {"packet", "got", "threw"}
  BY DEF PacketTake, PacketReturn, PacketThrow, RingInv, ShapeOK, dmaVars, regVars, readVars
<1>2. Released = 0 /\ Released' = 0 /\ Ahead = 0
  BY <1>1 DEF Released, Ahead, Reading
<1>3. Fill' = Fill /\ ReadPtr' = ReadPtr
  BY ScanOrder
<1>4. CASE PacketReturn \/ PacketThrow
  <2>1. result' = <<>> /\ next_readable_buf' = next_readable_buf /\ pc' # "packet"
    BY <1>4 DEF PacketReturn, PacketThrow
  <2>2. Ahead' = 0
    BY <1>2, <2>1 DEF Ahead
  <2>3. AtStart'
    BY <1>1, <1>2, <1>3, <2>1, <2>2 DEF PacketInv, AtStart
  <2> QED
    BY <1>1, <2>1, <2>3 DEF PacketInv
<1>5. CASE PacketTake
  <2> DEFINE L == Len(result)
  <2>1. /\ n \in Ring /\ status[n].cmplt /\ (result = <<>> => status[n].rxsof)
        /\ has_sof' = TRUE /\ result' = Append(result, n) /\ i' = i + 1
        /\ n' = Advance(n) /\ i = L /\ i # nr_cyc_desc
        /\ next_readable_buf' = IF status[n].rxeof THEN n' ELSE next_readable_buf
        /\ pc' = IF status[n].rxeof THEN "got" ELSE "packet"
    BY <1>1, <1>5 DEF PacketTake, IsFull, AllSeen, PacketInv, RingInv, MemTypeOK
  <2>2. /\ nr_cyc_desc \in Nat \ {0} /\ ReadPtr \in Ring /\ L \in 0 .. nr_cyc_desc - 1
    <3>1. nr_cyc_desc \in Nat \ {0} /\ ReadPtr \in Ring /\ L \in 0 .. nr_cyc_desc
      BY ReadPlace DEF OrderInv
    <3> QED
      BY <2>1, <3>1
  <2>3. /\ Len(result') = L + 1 /\ result'[L + 1] = n /\ result' # <<>>
        /\ \A j \in 1 .. L : result'[j] = result[j]
        /\ result = <<>> => L = 0
        /\ result # <<>> => L >= 1
    BY <2>1 DEF RingInv, MemTypeOK
  <2>4. status[result'[1]].rxsof
    BY <1>1, <2>1, <2>2, <2>3 DEF PacketInv
  <2>5. \A j \in 1 .. L : ~status[result'[j]].rxeof
    BY <1>1, <2>3 DEF PacketInv
  <2>6. CASE ~status[n].rxeof
    <3>1. pc' = "packet" /\ next_readable_buf' = next_readable_buf /\ Ahead' = 0
      BY <2>1, <2>6 DEF Ahead, Reading
    <3>2. AtStart'
      BY <1>1, <1>2, <1>3, <3>1 DEF PacketInv, AtStart
    <3>3. \A j \in 1 .. L + 1 : ~status[result'[j]].rxeof
      BY <2>2, <2>3, <2>5, <2>6
    <3> QED
      BY <1>1, <2>1, <2>3, <2>4, <3>1, <3>2, <3>3 DEF PacketInv, Reading
  <2>7. CASE status[n].rxeof
    <3>1. pc' = "got" /\ next_readable_buf' = Advance(n)
      BY <2>1, <2>7
    <3>2. Ahead' = L + 1
      BY <1>2, <2>2, <2>3, <3>1 DEF Ahead, Reading
    <3>3. n = Wrap(ReadPtr + L)
      <4>1. CASE result = <<>>
        <5>1. ReadPtr = n
          BY <1>1, <1>2, <4>1 DEF ReadPtr, OrderInv, CursorOK
        <5> QED
          BY <2>2, <2>3, <4>1, <5>1 DEF Wrap, Ring
      <4>2. CASE result # <<>>
        <5>1. ReadPtr = result[1]
          BY <1>2, <2>2, <2>3, <4>2 DEF ReadPtr
        <5> QED
          BY <1>1, <4>2, <5>1 DEF RingInv, ConsecutiveOK
      <4> QED
        BY <4>1, <4>2
    <3>4. Dist(ReadPtr, n) = L
      <4>1. L \in 0 .. nr_cyc_desc /\ L # nr_cyc_desc
        BY <2>2
      <4> HIDE DEF L
      <4> QED
        BY <2>2, <3>3, <4>1, WrapDist
    <3>5. Advance(n) = Wrap(n + 1)
      <4>1. n \in 0 .. nr_cyc_desc - 1
        BY <2>1 DEF Ring
      <4>2. Advance(n) = IF n + 1 < nr_cyc_desc THEN n + 1 ELSE 0
        BY <2>2, <4>1, AdvanceWrap DEF Advance
      <4> QED
        BY <2>2, <4>1, <4>2 DEF Wrap
    <3>6. L < Fill /\ mem[n].eof /\ Fill \in Nat
      <4>1. L < Fill
        BY <2>1, <3>4 DEF OrderInv, LinkOK
      <4> QED
        BY <2>1, <2>2, <2>7, <4>1, FirstComplete DEF OrderInv, ChainOK
    <3>7. AtStart'
      <4>1. CASE L + 1 < Fill
        <5>1. mem[Wrap(n + 1)].sof = mem[n].eof
          BY <2>1, <3>4, <4>1 DEF OrderInv, ChainOK
        <5> QED
          BY <1>1, <1>3, <3>1, <3>2, <3>5, <3>6, <4>1, <5>1 DEF AtStart
      <4>2. CASE L + 1 = Fill
        <5>1. stream.eof = mem[n].eof
          BY <2>1, <3>4, <4>2 DEF OrderInv, ChainOK
        <5> QED
          BY <1>1, <1>3, <3>2, <3>6, <4>2, <5>1 DEF AtStart
      <4> QED
        BY <2>2, <3>6, <4>1, <4>2
    <3>8. \A j \in 1 .. L + 1 : status[result'[j]].rxeof <=> j = L + 1
      BY <2>2, <2>3, <2>5, <2>7
    <3> QED
      BY <1>1, <1>2, <2>3, <2>4, <3>1, <3>7, <3>8 DEF PacketInv, Reading
  <2> QED
    BY <2>6, <2>7
<1> QED
  BY <1>4, <1>5

\* A call for a packet begins, or a call ends.
LEMMA CallPacket ==
    ASSUME RingInv, OrderInv, PacketInv,
           \/ pc = "idle" /\ get_next_packet
           \/ /\ pc \in {"ready", "threw"} \/ (pc = "got" /\ result = <<>>)
              /\ CallDone
    PROVE  PacketInv'
<1>1. /\ UNCHANGED <<status, mem, stream, next_readable_buf>>
      /\ result' = <<>> /\ bytes' = <<>> /\ i' = 0 /\ has_sof' = FALSE
      /\ pc' \in {"packet", "idle"}
  BY DEF RingInv, ShapeOK, get_next_packet, CallDone, dmaVars, regVars, readVars
<1>2. Fill' = Fill
  BY CallOrder
<1>3. Ahead = 0 /\ Ahead' = 0
  <2>1. pc = "ready" => Len(bytes) = Len(result) /\ Len(result) \in Nat
    BY DEF OrderInv, CursorOK, RingInv, MemTypeOK
  <2>2. pc = "got" /\ result = <<>> => Len(result) = 0 /\ Released = 0
    BY DEF RingInv, ShapeOK, Released
  <2> QED
    BY <1>1, <2>1, <2>2 DEF Ahead, Reading, Released
<1>4. AtStart'
  BY <1>1, <1>2, <1>3 DEF PacketInv, AtStart
<1> QED
  BY <1>1, <1>4 DEF PacketInv, Reading

\* read_buffers() copies the packet, ...
LEMMA ReadPacket ==
    ASSUME RingInv, OrderInv, PacketInv,
           read_buffers \/ ReadStat \/ StatsDone \/ CopyBuf \/ ReadReturn
    PROVE  PacketInv'
<1>1. /\ UNCHANGED <<status, mem, stream, last_read, next_readable_buf, result>>
      /\ pc \in Reading /\ pc' \in Reading /\ pc # "clear"
  BY DEF read_buffers, ReadStat, StatsDone, CopyBuf, ReadReturn, dmaVars, regVars,
         loopVars, Reading
<1>2. Fill' = Fill /\ ReadPtr' = ReadPtr /\ Released' = Released
  BY ReadOrder
<1>3. AtStart'
  BY <1>1, <1>2 DEF PacketInv, AtStart, Ahead
<1>4. pc' # "full" /\ pc' # "packet"
  BY <1>1 DEF Reading
<1>5. CASE bytes' = bytes /\ pc' # "clear"
  BY <1>1, <1>2, <1>3, <1>4, <1>5 DEF PacketInv
<1>6. CASE CopyBuf
  <2> DEFINE m == Len(bytes) + 1
             d == result[m]
  <2>1. /\ Len(result) \in Nat /\ Len(bytes) \in Nat /\ m <= Len(result)
        /\ bytes' = Append(bytes, mem[d]) /\ pc = "copy" /\ pc' = "clear"
        /\ bytes \in Seq(Chunks \cup {NoChunk}) /\ result # <<>>
        /\ Released = Len(bytes)
    BY <1>6 DEF CopyBuf, RingInv, MemTypeOK, Released
  <2>2. d = ReadPtr
    BY <2>1 DEF ReadPtr
  <2>3. status[d].cmplt
    BY <2>1 DEF RingInv, OwnershipOK
  <2>4. /\ mem[d] \in Chunks /\ mem[d].tag = Succ(last_read)
        /\ status[d].rxsof = mem[d].sof /\ status[d].rxeof = mem[d].eof
    <3>1. d \in Ring /\ Fill > 0
      BY <2>2, <2>3, FirstComplete
    <3> QED
      BY <2>2, <2>3, <3>1 DEF OrderInv, ChainOK
  <2>5. /\ Len(bytes') = m /\ bytes'[m] = mem[d]
        /\ \A j \in 1 .. Len(bytes) : bytes'[j] = bytes[j]
        /\ bytes = <<>> <=> m = 1
    BY <2>1, <2>4
  <2>6. status[d].rxeof <=> m = Len(result)
    BY <1>1, <2>1 DEF PacketInv
  <2>7. bytes'[1].sof
    <3>1. CASE bytes = <<>>
      BY <1>1, <2>1, <2>4, <2>5, <3>1 DEF PacketInv
    <3>2. CASE bytes # <<>>
      BY <1>1, <2>1, <2>5, <3>2 DEF PacketInv
    <3> QED
      BY <3>1, <3>2
  <2>8. \A j \in 1 .. m : bytes'[j].eof <=> j = Len(result)
    BY <1>1, <2>1, <2>4, <2>5, <2>6 DEF PacketInv
  <2>9. ASSUME NEW j \in 1 .. m - 1 PROVE bytes'[j + 1].tag = Succ(bytes'[j].tag)
    <3>1. CASE j < m - 1
      <4>1. j \in 1 .. Len(bytes) - 1 /\ j + 1 \in 1 .. Len(bytes) /\ j \in 1 .. Len(bytes)
        BY <2>1, <3>1
      <4> QED
        BY <1>1, <2>1, <2>5, <4>1 DEF PacketInv
    <3>2. CASE j = m - 1
      <4>1. bytes # <<>> /\ j = Len(bytes) /\ j + 1 = m /\ j \in 1 .. Len(bytes)
        BY <2>1, <2>5, <3>2
      <4>2. bytes[j].tag = last_read
        BY <1>1, <2>1, <4>1 DEF PacketInv
      <4> QED
        BY <2>4, <2>5, <4>1, <4>2
    <3> QED
      BY <2>1, <3>1, <3>2
  <2>10. bytes' # <<>>
    BY <2>1, <2>5
  <2> QED
    BY <1>1, <1>2, <1>3, <1>4, <2>1, <2>5, <2>7, <2>8, <2>9, <2>10 DEF PacketInv
<1> QED
  BY <1>5, <1>6 DEF read_buffers, ReadStat, StatsDone, ReadReturn, readVars, RingInv, ShapeOK

\* ... releasing each buffer.
LEMMA ClearPacket == ASSUME RingInv, OrderInv, PacketInv, ClearStat PROVE PacketInv'
<1> DEFINE m == Len(bytes)
<1>1. /\ ReadPtr = result[m] /\ Released' = Released + 1
      /\ \A d \in Ring : d # ReadPtr => status'[d] = status[d]
      /\ last_read' = mem[ReadPtr].tag
      /\ UNCHANGED <<mem, stream, nr_cyc_desc, next_readable_buf, result, bytes>>
      /\ pc = "clear" /\ pc' = "copy" /\ Fill' = Fill - 1 /\ Fill \in 1 .. nr_cyc_desc
  BY ClearPlace
<1>2. /\ Len(result) \in Nat /\ m \in 1 .. Len(result) /\ Released = m - 1
      /\ bytes # <<>> /\ result # <<>> /\ nr_cyc_desc \in Nat
      /\ \A j \in 1 .. Len(result) : result[j] \in Ring
  BY <1>1 DEF RingInv, MemTypeOK, ShapeOK, Released
<1>3. AtStart'
  <2>1. Ahead' = Ahead - 1 /\ Ahead \in Int
    BY <1>1, <1>2 DEF Ahead, Reading
  <2> QED
    BY <1>1, <1>2, <2>1 DEF PacketInv, AtStart
<1>4. \A j \in m + 1 .. Len(result) : status'[result[j]] = status[result[j]]
  <2>1. ASSUME NEW j \in m + 1 .. Len(result) PROVE result[j] # result[m]
    BY <1>2, Distinct
  <2> QED
    BY <1>1, <1>2, <2>1
<1>5. last_read' = bytes[m].tag
  BY <1>1 DEF OrderInv, BytesOK
<1> QED
  BY <1>1, <1>2, <1>3, <1>4, <1>5 DEF PacketInv, Reading
-----------------------------------------------------------------------------
(* What the order gives *)

\* The ring is in order.
LEMMA OrderRingOK == RingInv /\ OrderInv => RingOK
<1> SUFFICES ASSUME RingInv, OrderInv PROVE RingOK
  OBVIOUS
<1>1. /\ nr_cyc_desc \in Nat \ {0} /\ ReadPtr \in Ring /\ curdesc \in Ring
  BY ReadPlace DEF OrderInv, LinkOK
<1>2. ASSUME NEW d \in Ring PROVE Dist(ReadPtr, d) \in 0 .. nr_cyc_desc - 1
  BY <1>1 DEF Dist, Ring
<1>3. \A d \in Ring : status[d].cmplt <=> Dist(ReadPtr, d) < Fill
  BY DEF OrderInv, LinkOK
<1>4. fetched => ~status[curdesc].cmplt
  BY DEF RingInv, OwnershipOK
<1>5. CASE ReadPtr # curdesc
  <2>1. Fill = Dist(ReadPtr, curdesc)
    BY <1>5 DEF Fill
  <2> QED
    BY <1>3, <1>4, <1>5, <2>1 DEF RingOK
<1>6. CASE ReadPtr = curdesc
  <2>1. Fill = 0 \/ Fill = nr_cyc_desc
    BY <1>6 DEF Fill
  <2>2. (\A d \in Ring : status[d].cmplt) \/ (\A d \in Ring : ~status[d].cmplt)
    BY <1>1, <1>2, <1>3, <2>1
  <2> QED
    BY <1>4, <1>6, <2>2 DEF RingOK
<1> QED
  BY <1>5, <1>6

\* What is copied is the successor of what has been read last.
LEMMA OrderInOrder == RingInv /\ OrderInv => InOrder
<1> SUFFICES ASSUME RingInv, OrderInv, pc = "clear"
             PROVE  bytes[Len(bytes)].tag = Succ(last_read)
  BY DEF InOrder
<1>1. /\ Len(bytes) \in 1 .. Len(result) /\ Len(result) \in Nat
      /\ Released = Len(bytes) - 1 /\ Len(bytes) = Released + 1
  BY DEF RingInv, MemTypeOK, ShapeOK, Released
<1>2. ReadPtr = result[Len(bytes)] /\ status[ReadPtr].cmplt
  BY <1>1 DEF ReadPtr, RingInv, OwnershipOK
<1>3. mem[ReadPtr].tag = Succ(last_read)
  BY <1>2, FirstComplete DEF OrderInv, ChainOK
<1> QED
  BY <1>2, <1>3 DEF OrderInv, BytesOK

\* What a caller for packets gets is a packet.
LEMMA PacketWhole ==
    ASSUME RingInv, OrderInv, PacketInv, pc = "ready", bytes # <<>>
    PROVE  WholePacket(bytes)
<1>1. Len(bytes) = Len(result) /\ Len(bytes) \in Nat \ {0} /\ result # <<>>
  BY DEF OrderInv, CursorOK, RingInv, MemTypeOK
<1> QED
  BY <1>1 DEF PacketInv, Reading, WholePacket

\* A complete descriptor at the engine's place: the whole ring is complete.
LEMMA FullRing ==
    ASSUME RingInv, OrderInv, status[curdesc].cmplt
    PROVE  \A d \in Ring : status[d].cmplt
<1>1. /\ nr_cyc_desc \in Nat \ {0} /\ ReadPtr \in Ring /\ curdesc \in Ring
  BY ReadPlace DEF OrderInv, LinkOK
<1>2. \A d \in Ring : Dist(ReadPtr, d) \in 0 .. nr_cyc_desc - 1
  BY <1>1 DEF Dist, Ring
<1>3. \A d \in Ring : status[d].cmplt <=> Dist(ReadPtr, d) < Fill
  BY DEF OrderInv, LinkOK
<1>4. Fill = nr_cyc_desc
  BY <1>1, <1>2, <1>3 DEF Fill
<1> QED
  BY <1>1, <1>2, <1>3, <1>4
-----------------------------------------------------------------------------
(* The two kinds of callers *)

\* A caller of get_full_buffers() meets a complete descriptor without bytes again and
\* again: nothing is read any more.
Stuck ==
    /\ status[next_readable_buf].cmplt /\ status[next_readable_buf].empty
    /\ pc \in {"idle", "full", "threw"} /\ result = <<>>
    /\ pc = "full" => i = 0

\* No complete descriptor lacks bytes.
NoEmpty == \A d \in Ring : status[d].cmplt => ~status[d].empty

\* A step of a caller that asks only for packets.
LEMMA PacketReader ==
    ASSUME RingInv, OrderInv, PacketInv, "no_sof" \notin Faults,
           \/ pc = "idle" /\ get_next_packet
           \/ read_buffers
           \/ CallStep
           \/ /\ pc \in {"ready", "threw"} \/ (pc = "got" /\ result = <<>>)
              /\ CallDone
    PROVE  OrderInv' /\ PacketInv'
<1>1. CASE \/ pc = "idle" /\ get_next_packet
           \/ /\ pc \in {"ready", "threw"} \/ (pc = "got" /\ result = <<>>)
              /\ CallDone
  BY <1>1, CallOrder, CallPacket
<1>2. CASE read_buffers \/ ReadStat \/ StatsDone \/ CopyBuf \/ ReadReturn
  BY <1>2, ReadOrder, ReadPacket
<1>3. CASE ClearStat
  BY <1>3, ClearOrder, ClearPacket
<1>4. CASE PacketTake \/ PacketReturn \/ PacketThrow
  BY <1>4, ScanOrder, ScanPacket
<1>5. ~(FullTake \/ FullReturn \/ FullThrow \/ PacketSkip)
  BY NoSkip DEF FullTake, FullReturn, FullThrow, PacketInv
<1> QED
  BY <1>1, <1>2, <1>3, <1>4, <1>5 DEF CallStep

\* A step of a caller that asks only for full buffers.
LEMMA StreamReader ==
    ASSUME RingInv, OrderInv \/ Stuck, pc # "packet",
           \/ pc = "idle" /\ get_full_buffers
           \/ read_buffers
           \/ CallStep
           \/ /\ pc \in {"ready", "threw"} \/ (pc = "got" /\ result = <<>>)
              /\ CallDone
    PROVE  /\ OrderInv' \/ Stuck'
           /\ OrderInv /\ (NoEmpty \/ pc' # "threw") => OrderInv'
           /\ pc' # "packet"
<1>1. pc' # "packet"
  BY DEF get_full_buffers, read_buffers, CallDone, CallStep, FullTake, FullReturn,
         FullThrow, PacketSkip, PacketTake, PacketReturn, PacketThrow, ReadStat, StatsDone,
         CopyBuf, ClearStat, ReadReturn
<1>2. CASE OrderInv
  <2>1. CASE \/ pc = "idle" /\ get_full_buffers
             \/ /\ pc \in {"ready", "threw"} \/ (pc = "got" /\ result = <<>>)
                /\ CallDone
    BY <1>1, <1>2, <2>1, CallOrder
  <2>2. CASE read_buffers \/ ReadStat \/ StatsDone \/ CopyBuf \/ ReadReturn
    BY <1>1, <1>2, <2>2, ReadOrder
  <2>3. CASE ClearStat
    BY <1>1, <1>2, <2>3, ClearOrder
  <2>4. CASE FullTake \/ FullReturn
    BY <1>1, <1>2, <2>4, ScanOrder
  <2>5. CASE FullThrow
    <3>1. Stuck'
      BY <2>5 DEF FullThrow, IsFull, Stuck, dmaVars
    <3>2. ~NoEmpty /\ pc' = "threw"
      BY <2>5 DEF FullThrow, IsFull, NoEmpty, RingInv, MemTypeOK
    <3> QED
      BY <1>1, <3>1, <3>2
  <2>6. ~(PacketSkip \/ PacketTake \/ PacketReturn \/ PacketThrow)
    BY DEF PacketSkip, PacketTake, PacketReturn, PacketThrow
  <2> QED
    BY <2>1, <2>2, <2>3, <2>4, <2>5, <2>6 DEF CallStep
<1>3. CASE Stuck /\ ~OrderInv
  <2>1. ASSUME (pc = "idle" /\ get_full_buffers) \/ CallDone PROVE Stuck'
    <3>1. UNCHANGED <<status, next_readable_buf>> /\ result' = <<>>
      BY <2>1 DEF get_full_buffers, CallDone, dmaVars
    <3>2. pc' = "idle" \/ (pc' = "full" /\ i' = 0)
      BY <2>1 DEF get_full_buffers, CallDone
    <3> QED
      BY <1>3, <3>1, <3>2 DEF Stuck
  <2>2. ASSUME FullThrow PROVE Stuck'
    BY <2>2, <1>3 DEF Stuck, FullThrow, dmaVars
  <2>3. ~(\/ FullTake \/ FullReturn \/ PacketSkip \/ PacketTake \/ PacketReturn
          \/ PacketThrow \/ read_buffers \/ ReadStat \/ StatsDone \/ CopyBuf \/ ClearStat
          \/ ReadReturn)
    <3>1. nr_cyc_desc # 0
      BY DEF RingInv, MemTypeOK
    <3> QED
      BY <1>3, <3>1
         DEF Stuck, FullTake, FullReturn, PacketSkip, PacketTake, PacketReturn, PacketThrow,
             read_buffers, ReadStat, StatsDone, CopyBuf, ClearStat, ReadReturn, IsFull, AllSeen
  <2>4. Stuck'
    BY <2>1, <2>2, <2>3 DEF CallStep
  <2> QED
    BY <1>1, <1>3, <2>4
<1> QED
  BY <1>2, <1>3

\* The engine does not help a caller that is stuck, and stores bytes unless it is faulty.
LEMMA EngineStuck ==
    ASSUME RingInv, Engine, UNCHANGED memVars
    PROVE  /\ Stuck => Stuck'
           /\ NoEmpty /\ "no_bytes" \notin Faults /\ curdesc \in Ring => NoEmpty'
<1>1. /\ UNCHANGED <<nr_cyc_desc, next_readable_buf, pc, i, result>>
  BY DEF memVars, loopVars
<1>2. next_readable_buf \in Descs /\ Ring \subseteq Descs /\ Ring' = Ring
  BY <1>1, DmaAssumption DEF RingInv, MemTypeOK, Ring, Descs
<1>3. \A d \in Descs : status[d].cmplt => status'[d] = status[d]
  BY EngineMemory DEF RingInv, OwnershipOK
<1>4. Stuck => Stuck'
  BY <1>1, <1>2, <1>3 DEF Stuck
<1>5. ASSUME NoEmpty, "no_bytes" \notin Faults, curdesc \in Ring PROVE NoEmpty'
  <2>1. CASE CompleteDesc
    BY <1>2, <1>5, <2>1 DEF CompleteDesc, NoEmpty, RingInv, DmaTypeOK
  <2>2. CASE FetchDesc \/ FetchStale \/ BusError
    BY <1>2, <1>5, <2>2 DEF FetchDesc, FetchStale, BusError, NoEmpty
  <2> QED
    BY <2>1, <2>2 DEF Engine
<1> QED
  BY <1>4, <1>5

\* The reader's steps make no descriptor complete.
LEMMA ReaderNoEmpty ==
    ASSUME RingInv, NoEmpty,
           get_full_buffers \/ get_next_packet \/ read_buffers \/ CallStep \/ CallDone
    PROVE  NoEmpty'
<1>1. CASE ClearStat
  <2>1. /\ status' = [status EXCEPT ![result[Len(bytes)]] =
                         [stats[Len(bytes)] EXCEPT !.cmplt = FALSE]]
        /\ nr_cyc_desc' = nr_cyc_desc
        /\ Len(bytes) \in 1 .. Len(stats)
    BY <1>1 DEF ClearStat, Cleared, RingInv, ShapeOK, MemTypeOK
  <2>2. stats[Len(bytes)] \in Statuses
    BY <2>1 DEF RingInv, MemTypeOK
  <2>3. Ring' = Ring /\ Ring \subseteq Descs
    BY <2>1, DmaAssumption DEF Ring, Descs, RingInv, MemTypeOK
  <2> QED
    BY <2>1, <2>2, <2>3 DEF NoEmpty, RingInv, DmaTypeOK, Statuses
<1>2. CASE UNCHANGED <<dmaVars, nr_cyc_desc>>
  BY <1>2 DEF NoEmpty, Ring, dmaVars
<1> QED
  BY <1>1, <1>2
     DEF get_full_buffers, get_next_packet, read_buffers, CallDone, CallStep, FullTake,
         FullReturn, FullThrow, PacketSkip, PacketTake, PacketReturn, PacketThrow, ReadStat,
         StatsDone, CopyBuf, ReadReturn
\* A step that leaves ring, engine and reader alone (the status register may change).
LEMMA RingStill ==
    ASSUME RingInv, DmaTypeOK',
           UNCHANGED <<dmacr, curdesc, fetched, status, nxtdesc, mem, stream, memVars>>
    PROVE  /\ RingInv'
           /\ OrderInv => OrderInv'
           /\ PacketInv /\ OrderInv => PacketInv'
<1>1. /\ UNCHANGED <<nr_cyc_desc, next_readable_buf, pc, i, n, has_sof, result, stats>>
      /\ UNCHANGED <<bytes, last_read>>
  BY DEF memVars, loopVars, readVars
<1>2. Released' = Released /\ ReadPtr' = ReadPtr
  BY <1>1 DEF Released, ReadPtr
<1>3. RingInv'
  BY <1>1, <1>2 DEF RingInv, MemTypeOK, ShapeOK, ConsecutiveOK, OwnershipOK, WriteBackFresh,
                    Ring, Wrap
<1>4. ASSUME OrderInv PROVE OrderInv' /\ Fill' = Fill
  <2>1. LinkOK' /\ ChainOK' /\ Fill' = Fill
    BY <1>1, <1>2, <1>4, OrderFrame DEF OrderInv
  <2>2. CursorOK' /\ BytesOK'
    BY <1>1, <1>4 DEF OrderInv, CursorOK, BytesOK, Wrap
  <2> QED
    BY <2>1, <2>2 DEF OrderInv
<1>5. ASSUME OrderInv, PacketInv PROVE PacketInv'
  <2>1. AtStart'
    BY <1>1, <1>2, <1>4, <1>5 DEF PacketInv, AtStart, Ahead
  <2> QED
    BY <1>1, <1>2, <1>5, <2>1 DEF PacketInv
<1> QED
  BY <1>3, <1>4, <1>5
=============================================================================
