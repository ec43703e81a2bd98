----------------------- MODULE DataHandlerPythonProofs -----------------------
(***************************************************************************)
(* Proofs about polled reception, for every size of the descriptor memory  *)
(* and of the ring, and for whatever faults the hardware shows.            *)
(***************************************************************************)
EXTENDS DataHandlerPython, UioMemSgdmaProofs, FiniteSetTheorems, SequenceTheorems

\* The inductive invariant: that of the ring, and the types of the caller's state.
PollInv == RingInv /\ receive_packets \in BOOLEAN /\ started \in BOOLEAN

\* The initial states satisfy it.
LEMMA PollInit == Init => PollInv
  BY RingInit DEF Init, PollInv

\* Every step preserves it: start(), numpy_read_nb() and the engine beside it.
LEMMA PollStep == PollInv /\ [Next]_vars => PollInv'
<1> SUFFICES ASSUME PollInv, [Next]_vars PROVE PollInv'
  OBVIOUS
<1> USE DEF PollInv
<1>1. ASSUME NEW nr \in NrPkts, Start(nr) PROVE PollInv'
  BY <1>1, StartInv, NrPktsAssumption DEF Start
<1>2. CASE numpy_read_nb
  <2>1. CASE ReadError
    <3>1. /\ pc = "idle" /\ pc' = "threw"
          /\ UNCHANGED <<dmacr, dmasr, curdesc, fetched, status, nxtdesc, mem, stream>>
          /\ UNCHANGED <<nr_cyc_desc, next_readable_buf, i, n, has_sof, result, stats>>
          /\ UNCHANGED <<bytes, last_read>>
      BY <2>1 DEF ReadError, dmaVars, regVars, loopVars, readVars
    <3>2. DmaTypeOK' /\ MemTypeOK' /\ ShapeOK' /\ ConsecutiveOK'
      BY <3>1 DEF RingInv, DmaTypeOK, MemTypeOK, ShapeOK, ConsecutiveOK, Ring, PCs, Wrap
    <3>3. OwnershipOK'
      BY <3>1 DEF RingInv, OwnershipOK, WriteBackFresh, Released
    <3> QED
      BY <1>2, <3>2, <3>3 DEF RingInv, numpy_read_nb
  <2>2. CASE ReadCall \/ (pc \in {"ready", "threw"} /\ CallDone)
    BY <1>2, <2>2, CallInv DEF ReadCall, numpy_read_nb
  <2>3. CASE read_buffers
    BY <1>2, <2>3, ReadInv DEF numpy_read_nb
  <2>4. CASE CallStep
    BY <1>2, <2>4, CallStepInv DEF numpy_read_nb
  <2>5. \/ ReadError \/ read_buffers \/ CallStep
        \/ ReadCall \/ (pc \in {"ready", "threw"} /\ CallDone)
    BY <1>2 DEF numpy_read_nb
  <2> HIDE DEF PollInv
  <2> QED
    BY <2>1, <2>2, <2>3, <2>4, <2>5
<1>3. CASE Hardware
  BY <1>3, EngineInv DEF Hardware
<1>4. CASE UNCHANGED vars
  <2>1. UNCHANGED <<dmacr, curdesc, fetched, status, nxtdesc, mem, stream, memVars>>
    BY <1>4 DEF vars, ringVars, dmaVars, regVars
  <2>2. RingInv /\ DmaTypeOK'
    BY <1>4 DEF RingInv, DmaTypeOK, vars, ringVars, dmaVars, regVars
  <2> QED
    BY <1>4, <2>1, <2>2, RingStill DEF vars
<1> QED
  BY <1>1, <1>2, <1>3, <1>4 DEF Next

\* The cursor and all indices of numpy_read_nb() stay inside the ring, whatever size
\* start() chose and however often it is called.
THEOREM PollTypes == Spec => []TypeOK
<1>1. PollInv => TypeOK
  BY DEF PollInv, RingInv, TypeOK
<1> QED
  BY PollInit, PollStep, <1>1, PTL DEF Spec

\* numpy_read_nb() never copies a buffer that the engine may be writing.
THEOREM PollNoTornRead == Spec => []NoTornRead
<1>1. PollInv => NoTornRead
  BY RingInvSafe DEF PollInv
<1> QED
  BY PollInit, PollStep, <1>1, PTL DEF Spec

\* The status words it writes back are up to date: it never wipes out a completion.
THEOREM PollWriteBackFresh == Spec => []WriteBackFresh
<1>1. PollInv => WriteBackFresh
  BY RingInvSafe DEF PollInv
<1> QED
  BY PollInit, PollStep, <1>1, PTL DEF Spec
-----------------------------------------------------------------------------
\* Until start() has been called nothing moves.
Unstarted ==
    /\ pc = "idle" /\ nr_cyc_desc = 1 /\ next_readable_buf = 0 /\ last_read = 0
    /\ curdesc = 0 /\ ~fetched /\ ~dmacr.rs

\* What each of the two ways of reading keeps in order, under which faults: packets as
\* long as SOF can be relied on; full buffers until a complete one holds no bytes, at
\* which the reader stays.
PollOrder ==
    /\ ~started => Unstarted
    /\ started /\ receive_packets /\ "no_sof" \notin Faults => OrderInv /\ PacketInv
    /\ started /\ ~receive_packets =>
          /\ pc # "packet"
          /\ OrderInv \/ Stuck
          /\ "no_bytes" \notin Faults => OrderInv /\ NoEmpty

\* It holds at first.
LEMMA OrderAtInit == Init => PollOrder
  BY DEF Init, DmaInit, MemInit, PollOrder, Unstarted, ResetControl

\* start() sets up an ordered ring, whatever the last session left.
LEMMA StartPoll ==
    ASSUME PollInv, PollOrder, NEW nr \in NrPkts, Start(nr)
    PROVE  PollOrder'
<1>1. nr \in 1 .. NumDesc /\ pc = "idle" /\ init_buffers(nr) /\ start(0)
  BY NrPktsAssumption DEF Start
<1>2. OrderInv' /\ PacketInv'
  BY <1>1, StartOrder DEF PollInv
<1>3. nr_cyc_desc' = nr /\ \A d \in Descs : d < nr => status'[d] = ClearStatus
  BY <1>1 DEF init_buffers, write_cyc_mode, InitStatus
<1>4. NoEmpty'
  BY <1>1, <1>3, DmaAssumption DEF NoEmpty, Ring, Descs, ClearStatus
<1>5. pc' = "idle" /\ started'
  BY <1>1 DEF init_buffers, Start
<1> QED
  BY <1>2, <1>4, <1>5 DEF PollOrder

\* A read that is refused leaves the ring alone.
LEMMA ErrorPoll ==
    ASSUME PollInv, PollOrder, ReadError, UNCHANGED <<receive_packets, started>>
    PROVE  PollOrder'
<1>1. /\ pc = "idle" /\ pc' = "threw" /\ started
      /\ UNCHANGED <<dmacr, dmasr, curdesc, fetched, status, nxtdesc, mem, stream>>
      /\ UNCHANGED <<nr_cyc_desc, next_readable_buf, i, n, has_sof, result, stats>>
      /\ UNCHANGED <<bytes, last_read>>
  BY DEF ReadError, dmaVars, regVars, loopVars, readVars
<1>2. Released' = Released /\ ReadPtr' = ReadPtr
  BY <1>1 DEF Released, ReadPtr
<1>3. ASSUME OrderInv PROVE OrderInv' /\ Fill' = Fill
  <2>1. LinkOK' /\ ChainOK' /\ Fill' = Fill
    BY <1>1, <1>2, <1>3, OrderFrame DEF OrderInv
  <2>2. CursorOK' /\ BytesOK'
    BY <1>1 DEF CursorOK, BytesOK, Reading
  <2> QED
    BY <2>1, <2>2 DEF OrderInv
<1>4. ASSUME OrderInv, PacketInv PROVE PacketInv'
  <2>1. AtStart'
    BY <1>1, <1>3, <1>4 DEF PacketInv, AtStart, Ahead, Reading
  <2> QED
    BY <1>1, <2>1 DEF PacketInv, Reading
<1>5. /\ Stuck => Stuck'
      /\ NoEmpty => NoEmpty'
  BY <1>1 DEF Stuck, NoEmpty, Ring
<1> QED
  BY <1>1, <1>3, <1>4, <1>5 DEF PollOrder

\* A step of a read.
LEMMA ReadPoll ==
    ASSUME PollInv, PollOrder, numpy_read_nb
    PROVE  PollOrder'
<1>1. UNCHANGED <<receive_packets, started>>
  BY DEF numpy_read_nb
<1>2. CASE ReadError
  BY <1>1, <1>2, ErrorPoll
<1>3. CASE ~ReadError
  <2>1. \/ started /\ pc = "idle" /\ IF receive_packets THEN get_next_packet
                                                       ELSE get_full_buffers
        \/ read_buffers
        \/ CallStep
        \/ pc \in {"ready", "threw"} /\ CallDone
    BY <1>3 DEF numpy_read_nb, ReadCall
  <2>2. started
    <3>1. ~started => pc = "idle"
      BY DEF PollOrder, Unstarted
    <3> QED
      BY <2>1, <3>1
         DEF read_buffers, CallStep, FullTake, FullReturn, FullThrow, PacketSkip, PacketTake,
             PacketReturn, PacketThrow, ReadStat, StatsDone, CopyBuf, ClearStat, ReadReturn
  <2>3. RingInv
    BY DEF PollInv
  <2>4. CASE receive_packets
    <3>1. ASSUME "no_sof" \notin Faults PROVE OrderInv' /\ PacketInv'
      <4>1. OrderInv /\ PacketInv
        BY <2>2, <2>4, <3>1 DEF PollOrder
      <4> QED
        BY <2>1, <2>3, <2>4, <3>1, <4>1, PacketReader
    <3> QED
      BY <1>1, <2>2, <2>4, <3>1 DEF PollOrder
  <2>5. CASE ~receive_packets
    <3>1. /\ pc # "packet"
          /\ OrderInv \/ Stuck
          /\ "no_bytes" \notin Faults => OrderInv /\ NoEmpty
      BY <2>2, <2>5 DEF PollOrder
    <3>2. /\ OrderInv' \/ Stuck'
          /\ OrderInv /\ (NoEmpty \/ pc' # "threw") => OrderInv'
          /\ pc' # "packet"
      BY <2>1, <2>3, <2>5, <3>1, StreamReader
    <3>3. NoEmpty => NoEmpty'
      BY <2>1, <2>3, <2>5, ReaderNoEmpty
    <3> QED
      BY <1>1, <2>2, <2>5, <3>1, <3>2, <3>3 DEF PollOrder
  <2> QED
    BY <2>4, <2>5 DEF PollInv
<1> QED
  BY <1>2, <1>3

\* A step of the engine.
LEMMA EnginePoll ==
    ASSUME PollInv, PollOrder, Hardware
    PROVE  PollOrder'
<1>1. Engine /\ UNCHANGED <<memVars, receive_packets, started>> /\ RingInv
  BY DEF Hardware, PollInv
<1>2. started
  BY <1>1 DEF Engine, FetchDesc, FetchStale, BusError, CompleteDesc, Running, PollOrder,
              Unstarted
<1>3. pc' = pc
  BY <1>1 DEF memVars
<1>4. CASE receive_packets
  <2>1. ASSUME "no_sof" \notin Faults PROVE OrderInv' /\ PacketInv'
    BY <1>1, <1>2, <1>4, <2>1, EngineOrder, EnginePacket DEF PollOrder
  <2> QED
    BY <1>1, <1>2, <1>4, <2>1 DEF PollOrder
<1>5. CASE ~receive_packets
  <2>1. OrderInv => OrderInv'
    BY <1>1, EngineOrder
  <2>2. /\ Stuck => Stuck'
        /\ NoEmpty /\ "no_bytes" \notin Faults /\ curdesc \in Ring => NoEmpty'
    BY <1>1, EngineStuck
  <2>3. OrderInv => curdesc \in Ring
    BY DEF OrderInv, LinkOK
  <2> QED
    BY <1>1, <1>2, <1>3, <1>5, <2>1, <2>2, <2>3 DEF PollOrder
<1> QED
  BY <1>4, <1>5 DEF PollInv

\* Every step preserves it.
LEMMA OrderStep == PollInv /\ PollOrder /\ [Next]_vars => PollOrder'
<1> SUFFICES ASSUME PollInv, PollOrder, [Next]_vars PROVE PollOrder'
  OBVIOUS
<1>1. CASE UNCHANGED vars
  <2>1. UNCHANGED <<dmacr, curdesc, fetched, status, nxtdesc, mem, stream, memVars>>
    BY <1>1 DEF vars, ringVars, dmaVars, regVars
  <2>2. RingInv /\ DmaTypeOK'
    BY <1>1 DEF PollInv, RingInv, DmaTypeOK, vars, ringVars, dmaVars, regVars
  <2>3. /\ OrderInv => OrderInv'
        /\ PacketInv /\ OrderInv => PacketInv'
    BY <2>1, <2>2, RingStill
  <2>4. UNCHANGED <<nr_cyc_desc, next_readable_buf, pc, i, result, last_read>>
    BY <2>1 DEF memVars, loopVars
  <2>5. /\ Stuck => Stuck'
        /\ NoEmpty => NoEmpty'
        /\ Unstarted => Unstarted'
    BY <2>1, <2>4 DEF Stuck, NoEmpty, Ring, Unstarted
  <2>6. UNCHANGED <<receive_packets, started>>
    BY <1>1 DEF vars
  <2> QED
    BY <2>3, <2>4, <2>5, <2>6 DEF PollOrder
<1> QED
  BY <1>1, StartPoll, ReadPoll, EnginePoll DEF Next
\* Both invariants hold throughout.
LEMMA PollAlways == Spec => [](PollInv /\ PollOrder)
<1>1. Init => PollInv /\ PollOrder
  BY PollInit, OrderAtInit
<1>2. PollInv /\ PollOrder /\ [Next]_vars => PollInv' /\ PollOrder'
  BY PollStep, OrderStep
<1> QED
  BY <1>1, <1>2, PTL DEF Spec

\* With every byte count and SOF as the core promises them, the ring of a started
\* session is in order.
LEMMA CleanOrder ==
    ASSUME PollInv, PollOrder, started, Faults \cap {"no_sof", "no_bytes"} = {}
    PROVE  RingInv /\ OrderInv
  BY DEF PollInv, PollOrder

\* The cursor in next_readable_buf never loses step with the engine: for every ring
\* size, every sequence of reads and restarts and every DMA error, the complete
\* descriptors are exactly those between the reader and the engine.
THEOREM PollRingOK ==
    ASSUME Faults \cap {"no_sof", "no_bytes"} = {}
    PROVE  Spec => []RingOK
<1>1. PollInv /\ PollOrder => RingOK
  <2> SUFFICES ASSUME PollInv, PollOrder PROVE RingOK
    OBVIOUS
  <2>1. CASE started
    BY <2>1, CleanOrder, OrderRingOK
  <2>2. CASE ~started
    <3>1. /\ pc = "idle" /\ nr_cyc_desc = 1 /\ next_readable_buf = 0 /\ curdesc = 0
          /\ ~fetched
      BY <2>2 DEF PollOrder, Unstarted
    <3>2. result = <<>> /\ bytes = <<>>
      BY <3>1 DEF PollInv, RingInv, ShapeOK
    <3>3. ReadPtr = 0 /\ Ring = {0}
      BY <3>1, <3>2 DEF ReadPtr, Released, Ring
    <3> QED
      BY <3>1, <3>3 DEF RingOK
  <2> QED
    BY <2>1, <2>2
<1> QED
  BY <1>1, PollAlways, PTL

\* In packet mode every non-empty array that numpy_read_nb() returns is one packet, from
\* SOF to EOF with nothing missing, even when descriptors complete without bytes.
THEOREM PollPacketsWhole ==
    ASSUME "no_sof" \notin Faults
    PROVE  Spec => []PacketsWhole
<1>1. PollInv /\ PollOrder => PacketsWhole
  <2> SUFFICES ASSUME PollInv, PollOrder, receive_packets, pc = "ready", bytes # <<>>
               PROVE  WholePacket(bytes)
    BY DEF PacketsWhole
  <2>1. started
    BY DEF PollOrder, Unstarted
  <2>2. RingInv /\ OrderInv /\ PacketInv
    BY <2>1 DEF PollInv, PollOrder
  <2> QED
    BY <2>2, PacketWhole
<1> QED
  BY <1>1, PollAlways, PTL

\* In stream mode chunks are returned in stream order whatever the hardware does: once
\* get_full_buffers() has lost buffers to its exception, nothing more is returned.
THEOREM PollStreamInOrder == Spec => []StreamInOrder
<1>1. PollInv /\ PollOrder => StreamInOrder
  <2> SUFFICES ASSUME PollInv, PollOrder, ~receive_packets, pc = "clear" PROVE InOrder
    BY DEF StreamInOrder, InOrder
  <2>1. started
    BY DEF PollOrder, Unstarted
  <2>2. RingInv /\ OrderInv
    BY <2>1 DEF PollInv, PollOrder, Stuck
  <2> QED
    BY <2>2, OrderInOrder
<1> QED
  BY <1>1, PollAlways, PTL

\* The engine finds a stale descriptor only when the reader has let the whole ring fill
\* up: numpy_read_nb() never passes a descriptor that it leaves complete.
THEOREM PollStaleOnlyWhenFull ==
    ASSUME Faults \cap {"no_sof", "no_bytes"} = {}
    PROVE  Spec => StaleOnlyWhenFull
<1> DEFINE StaleStep ==
      ("sg_int_err" \notin dmasr.errs /\ "sg_int_err" \in dmasr'.errs)
           => \A d \in Ring : status[d].cmplt
<1>1. PollInv /\ PollOrder /\ [Next]_vars => StaleStep
  <2> SUFFICES ASSUME PollInv, PollOrder, [Next]_vars,
                      "sg_int_err" \notin dmasr.errs, "sg_int_err" \in dmasr'.errs
               PROVE  \A d \in Ring : status[d].cmplt
    OBVIOUS
  <2>1. dmasr \in [errs : SUBSET Errors, ioc_irq : BOOLEAN, err_irq : BOOLEAN,
                   idle : BOOLEAN]
    BY DEF PollInv, RingInv, DmaTypeOK
  <2>2. ASSUME NEW nr \in NrPkts, Start(nr) PROVE FALSE
    BY <2>2 DEF Start, start, ResetState
  <2>3. ASSUME numpy_read_nb PROVE FALSE
    <3>1. dmasr' = dmasr
      BY <2>3 DEF numpy_read_nb, ReadError, ReadCall, get_next_packet, get_full_buffers,
                  read_buffers, CallStep, CallDone, FullTake, FullReturn, FullThrow,
                  PacketSkip, PacketTake, PacketReturn, PacketThrow, ReadStat, StatsDone,
                  CopyBuf, ClearStat, ReadReturn, dmaVars, regVars
    <3> QED
      BY <3>1
  <2>4. CASE Hardware
    <3>1. Engine
      BY <2>4 DEF Hardware
    <3>2. started
      BY <3>1 DEF Engine, FetchDesc, FetchStale, BusError, CompleteDesc, Running, PollOrder,
                  Unstarted
    <3>3. FetchStale
      <4>1. ~FetchDesc
        BY DEF FetchDesc
      <4>2. ASSUME BusError PROVE FALSE
        <5>1. PICK e : e # "sg_int_err" /\ dmasr' = [dmasr EXCEPT !.errs = @ \cup {e},
                                                                !.err_irq = TRUE]
          BY <4>2 DEF BusError, Halt
        <5>2. dmasr'.errs = dmasr.errs \cup {e}
          BY <2>1, <5>1
        <5> QED
          BY <5>1, <5>2
      <4>3. ~CompleteDesc
        BY <2>1 DEF CompleteDesc
      <4> QED
        BY <3>1, <4>1, <4>2, <4>3 DEF Engine
    <3> QED
      BY <3>2, <3>3, CleanOrder, FullRing DEF FetchStale
  <2>5. ASSUME UNCHANGED vars PROVE FALSE
    BY <2>5 DEF vars, ringVars, dmaVars, regVars
  <2> QED
    BY <2>2, <2>3, <2>4, <2>5 DEF Next
<1>2. Spec => [][StaleStep]_vars
  BY <1>1, PollAlways, PTL DEF Spec
<1> QED
  BY <1>2 DEF StaleOnlyWhenFull
-----------------------------------------------------------------------------
\* The chunks between reader and engine, in ring order.
Chain == [k \in 1 .. Fill |-> mem[Wrap(ReadPtr + (k - 1))]]

\* A remainder that goes around the ring at most once.
LEMMA ModWrap ==
    ASSUME NEW N \in Nat \ {0}, NEW x \in 0 .. 2 * N - 1
    PROVE  x % N = IF x < N THEN x ELSE x - N
<1>1. CASE x < N
  BY <1>1
<1>2. CASE x >= N
  <2>1. x - N \in 0 .. N - 1 /\ x = (x - N) + N
    BY <1>2
  <2> QED
    BY <1>2, <2>1
<1> QED
  BY <1>1, <1>2

\* There are as many complete descriptors as there are places between reader and engine.
LEMMA CountFill ==
    ASSUME RingInv, OrderInv
    PROVE  Cardinality({d \in Ring : status[d].cmplt}) = Fill
<1> DEFINE D == {d \in Ring : status[d].cmplt}
           f == [k \in 1 .. Fill |-> Wrap(ReadPtr + (k - 1))]
<1>1. /\ nr_cyc_desc \in Nat \ {0} /\ ReadPtr \in Ring /\ Fill \in 0 .. nr_cyc_desc
  BY ReadPlace, FirstComplete DEF OrderInv
<1>2. \A d \in Ring : status[d].cmplt <=> Dist(ReadPtr, d) < Fill
  BY DEF OrderInv, LinkOK
<1>3. ASSUME NEW k \in 1 .. Fill
      PROVE  Wrap(ReadPtr + (k - 1)) \in D /\ Dist(ReadPtr, Wrap(ReadPtr + (k - 1))) = k - 1
  <2>1. k - 1 \in 0 .. nr_cyc_desc /\ k - 1 # nr_cyc_desc /\ k - 1 < Fill
    BY <1>1
  <2>2. Wrap(ReadPtr + (k - 1)) \in Ring /\ Dist(ReadPtr, Wrap(ReadPtr + (k - 1))) = k - 1
    BY <1>1, <2>1, WrapDist
  <2> QED
    BY <1>2, <2>1, <2>2
<1>4. f \in [1 .. Fill -> D]
  BY <1>3
<1>5. ASSUME NEW a \in 1 .. Fill, NEW b \in 1 .. Fill, f[a] = f[b] PROVE a = b
  <2>1. Wrap(ReadPtr + (a - 1)) = Wrap(ReadPtr + (b - 1))
    BY <1>5
  <2>2. a - 1 = b - 1
    BY <1>3, <2>1
  <2> QED
    BY <1>1, <2>2
<1>6. ASSUME NEW d \in D PROVE \E k \in 1 .. Fill : f[k] = d
  <2>1. d \in Ring /\ Dist(ReadPtr, d) < Fill
    BY <1>2
  <2>2. Dist(ReadPtr, d) \in Ring /\ d = Wrap(ReadPtr + Dist(ReadPtr, d))
    BY <1>1, <2>1, DistStep
  <2>3. Dist(ReadPtr, d) \in Nat
    BY <1>1, <2>2 DEF Ring
  <2>4. Dist(ReadPtr, d) + 1 \in 1 .. Fill /\ (Dist(ReadPtr, d) + 1) - 1 = Dist(ReadPtr, d)
    BY <1>1, <2>1, <2>3
  <2> QED
    BY <2>2, <2>4
<1>7. ExistsBijection(1 .. Fill, D)
  BY <1>4, <1>5, <1>6
     DEF ExistsBijection, Bijection, Injection, Surjection, IsInjective
<1>8. Fill \in Nat
  BY <1>1
<1> HIDE DEF D
<1>9. IsFiniteSet(1 .. Fill) /\ Cardinality(1 .. Fill) = Fill
  BY <1>8, FS_Interval
<1>10. Cardinality(D) = Fill
  BY <1>7, <1>9, FS_Bijection
<1> QED
  BY <1>10 DEF D

\* The unread chunks are that chain.
UnreadOK == started => Unread = Chain /\ Chain \in Seq(Chunks) /\ Len(Chain) = Fill

\* With Fill for the number of complete descriptors, Unread is what lies between reader
\* and engine.
LEMMA UnreadChain ==
    ASSUME Faults \cap {"no_sof", "no_bytes"} = {}
    PROVE  PollInv /\ PollOrder => UnreadOK
<1> SUFFICES ASSUME PollInv, PollOrder, started
             PROVE  Unread = Chain /\ Chain \in Seq(Chunks) /\ Len(Chain) = Fill
  BY DEF UnreadOK
<1>1. RingInv /\ OrderInv
  BY CleanOrder
<1>2. /\ nr_cyc_desc \in Nat \ {0} /\ ReadPtr \in Ring /\ Fill \in 0 .. nr_cyc_desc
  BY <1>1, ReadPlace, FirstComplete DEF OrderInv
<1>3. Cardinality({d \in Ring : status[d].cmplt}) = Fill
  BY <1>1, CountFill
<1>4. ASSUME NEW k \in 1 .. Fill
      PROVE  (ReadPtr + k - 1) % nr_cyc_desc = Wrap(ReadPtr + (k - 1))
  <2>1. ReadPtr + k - 1 \in 0 .. 2 * nr_cyc_desc - 1 /\ ReadPtr + k - 1 = ReadPtr + (k - 1)
    BY <1>2 DEF Ring
  <2> QED
    BY <1>2, <2>1, ModWrap DEF Wrap
<1>5. Unread = Chain
  BY <1>3, <1>4 DEF Unread, Chain
<1>6. ASSUME NEW k \in 1 .. Fill PROVE mem[Wrap(ReadPtr + (k - 1))] \in Chunks
  <2>1. k - 1 \in 0 .. nr_cyc_desc /\ k - 1 # nr_cyc_desc /\ k - 1 < Fill
    BY <1>2
  <2>2. Wrap(ReadPtr + (k - 1)) \in Ring /\ Dist(ReadPtr, Wrap(ReadPtr + (k - 1))) = k - 1
    BY <1>2, <2>1, WrapDist
  <2> QED
    BY <1>1, <2>1, <2>2 DEF OrderInv, LinkOK, ChainOK
<1>7. Fill \in Nat
  BY <1>2
<1>8. Chain \in Seq(Chunks) /\ Len(Chain) = Fill
  BY <1>6, <1>7 DEF Chain
<1> QED
  BY <1>5, <1>8
\* A step that leaves the places of reader and engine and the buffers alone.
LEMMA ChainFrame ==
    ASSUME Fill' = Fill, ReadPtr' = ReadPtr, UNCHANGED <<mem, nr_cyc_desc>>
    PROVE  Chain' = Chain
  BY DEF Chain, Wrap

\* The write-back removes the chain's first chunk.
LEMMA ChainClear ==
    ASSUME RingInv, OrderInv, ClearStat,
           Chain \in Seq(Chunks), Len(Chain) = Fill, Chain' \in Seq(Chunks), Len(Chain)' = Fill'
    PROVE  Chain # <<>> /\ Chain' = Tail(Chain) /\ last_read' = Head(Chain).tag
<1>1. /\ ReadPtr' = Wrap(ReadPtr + 1) /\ last_read' = mem[ReadPtr].tag
      /\ UNCHANGED <<mem, nr_cyc_desc>>
      /\ Fill' = Fill - 1 /\ Fill \in 1 .. nr_cyc_desc
  BY ClearPlace
<1>2. nr_cyc_desc \in Nat \ {0} /\ ReadPtr \in Ring
  BY ReadPlace DEF OrderInv
<1>3. Chain # <<>> /\ Head(Chain) = mem[ReadPtr]
  <2>1. Chain # <<>> /\ Head(Chain) = Chain[1]
    BY <1>1, <1>2
  <2>2. Chain[1] = mem[Wrap(ReadPtr + (1 - 1))]
    BY <1>1, <1>2 DEF Chain
  <2>3. Wrap(ReadPtr + (1 - 1)) = ReadPtr
    BY <1>2 DEF Wrap, Ring
  <2> QED
    BY <2>1, <2>2, <2>3
<1>4. ASSUME NEW k \in 1 .. Fill' PROVE Chain'[k] = Chain[k + 1]
  <2>1. k + 1 \in 1 .. Fill /\ k - 1 \in 0 .. nr_cyc_desc - 1 /\ (k + 1) - 1 = 1 + (k - 1)
    BY <1>1, <1>2
  <2>2. Chain[k + 1] = mem[Wrap(ReadPtr + (1 + (k - 1)))]
    BY <2>1 DEF Chain
  <2>3. Chain'[k] = mem[Wrap(Wrap(ReadPtr + 1) + (k - 1))]
    BY <1>1, <1>4 DEF Chain, Wrap
  <2>4. Wrap(Wrap(ReadPtr + 1) + (k - 1)) = Wrap(ReadPtr + (1 + (k - 1)))
    BY <1>2, <2>1, WrapDist
  <2> QED
    BY <2>2, <2>3, <2>4
<1>5. /\ Tail(Chain) \in Seq(Chunks) /\ Len(Tail(Chain)) = Fill'
      /\ \A k \in 1 .. Fill' : Tail(Chain)[k] = Chain[k + 1]
  BY <1>1, <1>2, <1>3, HeadTailProperties
<1>6. Chain' = Tail(Chain)
  BY <1>4, <1>5, SeqEqual
<1> QED
  BY <1>1, <1>3, <1>6

\* The engine appends the next chunk of the stream, and there is room for it.
LEMMA ChainComplete ==
    ASSUME RingInv, OrderInv, CompleteDesc, UNCHANGED memVars,
           Chain \in Seq(Chunks), Len(Chain) = Fill, Chain' \in Seq(Chunks), Len(Chain)' = Fill'
    PROVE  /\ Len(Chain) < nr_cyc_desc
           /\ stream.tag = IF Chain = <<>> THEN last_read ELSE Chain[Len(Chain)].tag
           /\ \E c \in Chunks : c.tag = Succ(stream.tag) /\ Chain' = Append(Chain, c)
<1>1. /\ Fill = Dist(ReadPtr, curdesc) /\ Fill \in 0 .. nr_cyc_desc - 1
      /\ Fill' = Fill + 1
  BY CompleteFill DEF OrderInv
<1>2. /\ nr_cyc_desc \in Nat \ {0} /\ ReadPtr \in Ring /\ curdesc \in Ring
      /\ Ring \subseteq Descs
  BY ReadPlace DEF OrderInv, LinkOK
<1>3. PICK sof, eof \in BOOLEAN :
         /\ mem' = [mem EXCEPT ![curdesc] =
                      [tag |-> Succ(stream.tag), sof |-> sof, eof |-> eof]]
         /\ ReadPtr' = ReadPtr /\ nr_cyc_desc' = nr_cyc_desc
  BY CompletePicked
<1> DEFINE c == [tag |-> Succ(stream.tag), sof |-> sof, eof |-> eof]
<1>4. c \in Chunks /\ c.tag = Succ(stream.tag)
  BY SuccTag DEF RingInv, DmaTypeOK, Chunks
<1>5. stream.tag = IF Chain = <<>> THEN last_read ELSE Chain[Len(Chain)].tag
  <2>1. CASE Fill = 0
    <3>1. Chain = <<>>
      BY <2>1
    <3> QED
      BY <2>1, <3>1 DEF OrderInv, ChainOK
  <2>2. CASE Fill > 0
    <3>1. Chain # <<>> /\ Chain[Len(Chain)] = mem[Wrap(ReadPtr + (Fill - 1))]
      BY <1>1, <1>2, <2>2 DEF Chain
    <3>2. Fill - 1 \in 0 .. nr_cyc_desc /\ Fill - 1 # nr_cyc_desc /\ (Fill - 1) + 1 = Fill
      BY <1>1, <1>2, <2>2
    <3>3. /\ Wrap(ReadPtr + (Fill - 1)) \in Ring
          /\ Dist(ReadPtr, Wrap(ReadPtr + (Fill - 1))) = Fill - 1
      BY <1>2, <3>2, WrapDist
    <3> QED
      BY <3>1, <3>2, <3>3 DEF OrderInv, ChainOK
  <2> QED
    BY <1>1, <1>2, <2>1, <2>2
<1>6. /\ Append(Chain, c) \in Seq(Chunks) /\ Len(Append(Chain, c)) = Fill'
      /\ \A k \in 1 .. Fill : Append(Chain, c)[k] = Chain[k]
      /\ Append(Chain, c)[Fill + 1] = c
  <2> HIDE DEF c
  <2> QED
    BY <1>1, <1>4, AppendProperties
<1>7. ASSUME NEW k \in 1 .. Fill' PROVE Chain'[k] = Append(Chain, c)[k]
  <2>1. Chain'[k] = mem'[Wrap(ReadPtr + (k - 1))]
    BY <1>3 DEF Chain, Wrap
  <2>2. k - 1 \in 0 .. nr_cyc_desc /\ k - 1 # nr_cyc_desc
    BY <1>1, <1>2
  <2>3. Wrap(ReadPtr + (k - 1)) \in Ring /\ Dist(ReadPtr, Wrap(ReadPtr + (k - 1))) = k - 1
    BY <1>2, <2>2, WrapDist
  <2>4. CASE k = Fill + 1
    <3>1. Wrap(ReadPtr + (k - 1)) = curdesc
      <4>1. k - 1 = Fill
        BY <1>1, <1>2, <2>4
      <4> QED
        BY <1>1, <1>2, <4>1, DistStep
    <3>2. mem'[curdesc] = c
      BY <1>2, <1>3 DEF RingInv, DmaTypeOK
    <3> QED
      BY <1>6, <2>1, <2>4, <3>1, <3>2
  <2>5. CASE k \in 1 .. Fill
    <3>1. Wrap(ReadPtr + (k - 1)) # curdesc
      BY <1>1, <1>2, <2>3, <2>5
    <3>2. mem'[Wrap(ReadPtr + (k - 1))] = mem[Wrap(ReadPtr + (k - 1))]
      BY <1>2, <1>3, <2>3, <3>1 DEF RingInv, DmaTypeOK
    <3>3. Chain[k] = mem[Wrap(ReadPtr + (k - 1))]
      BY <2>5 DEF Chain
    <3> QED
      BY <1>6, <2>1, <2>5, <3>2, <3>3
  <2> QED
    BY <1>1, <1>2, <2>4, <2>5
<1>8. Chain' = Append(Chain, c)
  <2> HIDE DEF c
  <2> QED
    BY <1>6, <1>7, SeqEqual
<1> QED
  BY <1>1, <1>2, <1>4, <1>5, <1>8
\* A step of a read that releases nothing leaves ring size, unread chunks and the last
\* chunk read as they are.
LEMMA ReadStutters ==
    ASSUME PollInv, PollOrder, numpy_read_nb, ~ClearStat, started,
           Faults \cap {"no_sof", "no_bytes"} = {}
    PROVE  Chain' = Chain /\ UNCHANGED <<nr_cyc_desc, last_read>>
<1>1. RingInv /\ OrderInv
  BY CleanOrder
<1>2. UNCHANGED <<nr_cyc_desc, last_read>>
  BY DEF numpy_read_nb, ReadError, ReadCall, get_next_packet, get_full_buffers, read_buffers,
         CallStep, CallDone, FullTake, FullReturn, FullThrow, PacketSkip, PacketTake,
         PacketReturn, PacketThrow, ReadStat, StatsDone, CopyBuf, ReadReturn
<1>3. UNCHANGED mem
  BY DEF numpy_read_nb, ReadError, ReadCall, get_next_packet, get_full_buffers, read_buffers,
         CallStep, CallDone, FullTake, FullReturn, FullThrow, PacketSkip, PacketTake,
         PacketReturn, PacketThrow, ReadStat, StatsDone, CopyBuf, ReadReturn, dmaVars
<1>4. Fill' = Fill /\ ReadPtr' = ReadPtr
  <2>1. CASE ReadError
    <3>1. /\ pc = "idle" /\ pc' = "threw"
          /\ UNCHANGED <<curdesc, status, nr_cyc_desc, next_readable_buf, result, bytes>>
      BY <2>1 DEF ReadError, dmaVars, regVars, loopVars, readVars
    <3>2. ReadPtr' = ReadPtr
      BY <3>1 DEF ReadPtr, Released
    <3> QED
      BY <3>1, <3>2 DEF Fill, Dist
  <2>2. CASE ReadCall \/ (pc \in {"ready", "threw"} /\ CallDone)
    BY <1>1, <2>2, CallOrder DEF ReadCall
  <2>3. CASE read_buffers \/ ReadStat \/ StatsDone \/ CopyBuf \/ ReadReturn
    BY <1>1, <2>3, ReadOrder
  <2>4. CASE FullTake \/ FullReturn \/ PacketTake \/ PacketReturn \/ PacketThrow
    BY <1>1, <2>4, ScanOrder
  <2>5. ~PacketSkip
    <3>1. CASE receive_packets
      BY <1>1, <3>1, NoSkip DEF PollOrder
    <3>2. CASE ~receive_packets
      BY <3>2 DEF PollOrder, PacketSkip
    <3> QED
      BY <3>1, <3>2
  <2>6. ~FullThrow
    <3>1. CASE receive_packets
      BY <3>1 DEF PollOrder, PacketInv, FullThrow
    <3>2. CASE ~receive_packets
      BY <1>1, <3>2 DEF PollOrder, FullThrow, IsFull, NoEmpty, RingInv, MemTypeOK
    <3> QED
      BY <3>1, <3>2
  <2> QED
    BY <2>1, <2>2, <2>3, <2>4, <2>5, <2>6 DEF numpy_read_nb, CallStep
<1> QED
  BY <1>2, <1>3, <1>4, ChainFrame

\* So does a step of the engine that completes nothing.
LEMMA EngineStutters ==
    ASSUME FetchDesc \/ FetchStale \/ BusError, UNCHANGED memVars
    PROVE  Chain' = Chain /\ UNCHANGED <<nr_cyc_desc, last_read>>
<1>1. UNCHANGED <<curdesc, status, mem>>
  BY DEF FetchDesc, FetchStale, BusError
<1>2. UNCHANGED <<nr_cyc_desc, last_read, next_readable_buf, pc, result, bytes>>
  BY DEF memVars, loopVars, readVars
<1>3. ReadPtr' = ReadPtr
  BY <1>2 DEF ReadPtr, Released
<1>4. Fill' = Fill
  BY <1>1, <1>2, <1>3 DEF Fill, Dist
<1> QED
  BY <1>1, <1>2, <1>3, <1>4, ChainFrame

\* Engine and caller together implement a bounded FIFO of chunks: every step of
\* numpy_read_nb(), of start() and of the engine is a step of BufferFifo or changes
\* nothing there, for every size of the ring.
THEOREM PollIsBufferFifo ==
    ASSUME Faults \cap {"no_sof", "no_bytes"} = {}
    PROVE  Spec => IsBufferFifo
<1> DEFINE Inv == PollInv /\ PollOrder /\ UnreadOK
<1>1. Init => Fifo!Init
  BY DmaAssumption DEF Init, MemInit, Fifo!Init, Unread
<1>2. Inv /\ Inv' /\ [Next]_vars => [Fifo!Next]_<<nr_cyc_desc, Unread, last_read>>
  <2> SUFFICES ASSUME Inv, Inv', [Next]_vars
               PROVE  Fifo!Next \/ UNCHANGED <<nr_cyc_desc, Unread, last_read>>
    OBVIOUS
  <2>1. ASSUME NEW nr \in NrPkts, Start(nr) PROVE Fifo!Restart
    <3>1. nr \in 1 .. NumDesc /\ pc = "idle" /\ init_buffers(nr) /\ start(0) /\ started'
      BY <2>1, NrPktsAssumption DEF Start
    <3>2. Fill' = 0
      BY <3>1, StartOrder DEF PollInv
    <3>3. Unread' = <<>>
      <4>1. Unread' = Chain' /\ Chain' \in Seq(Chunks) /\ Len(Chain)' = 0
        BY <3>1, <3>2 DEF UnreadOK
      <4> QED
        BY <4>1, EmptySeq
    <3>4. nr_cyc_desc' = nr /\ last_read' = 0
      BY <3>1 DEF init_buffers, write_cyc_mode
    <3> QED
      BY <3>1, <3>3, <3>4 DEF Fifo!Restart
  <2>2. ASSUME numpy_read_nb
        PROVE  Fifo!Release \/ UNCHANGED <<nr_cyc_desc, Unread, last_read>>
    <3>1. UNCHANGED started
      BY <2>2 DEF numpy_read_nb
    <3>2. started
      BY <2>2 DEF PollOrder, Unstarted, numpy_read_nb, ReadError, ReadCall, read_buffers,
                  CallStep, FullTake, FullReturn, FullThrow, PacketSkip, PacketTake,
                  PacketReturn, PacketThrow, ReadStat, StatsDone, CopyBuf, ClearStat,
                  ReadReturn
    <3>3. /\ Unread = Chain /\ Chain \in Seq(Chunks) /\ Len(Chain) = Fill
          /\ Unread' = Chain' /\ Chain' \in Seq(Chunks) /\ Len(Chain)' = Fill'
      BY <3>1, <3>2 DEF UnreadOK
    <3>4. CASE ClearStat
      <4>1. Chain # <<>> /\ Chain' = Tail(Chain) /\ last_read' = Head(Chain).tag
        BY <3>2, <3>3, <3>4, CleanOrder, ChainClear
      <4>2. UNCHANGED nr_cyc_desc
        BY <3>4 DEF ClearStat
      <4> QED
        BY <3>3, <4>1, <4>2 DEF Fifo!Release
    <3>5. CASE ~ClearStat
      BY <2>2, <3>2, <3>3, <3>5, ReadStutters
    <3> QED
      BY <3>4, <3>5
  <2>3. ASSUME Hardware
        PROVE  Fifo!Receive \/ UNCHANGED <<nr_cyc_desc, Unread, last_read>>
    <3>1. Engine /\ UNCHANGED memVars /\ UNCHANGED started
      BY <2>3 DEF Hardware
    <3>2. started
      BY <3>1 DEF Engine, FetchDesc, FetchStale, BusError, CompleteDesc, Running, PollOrder,
                  Unstarted
    <3>3. /\ Unread = Chain /\ Chain \in Seq(Chunks) /\ Len(Chain) = Fill
          /\ Unread' = Chain' /\ Chain' \in Seq(Chunks) /\ Len(Chain)' = Fill'
      BY <3>1, <3>2 DEF UnreadOK
    <3>4. CASE CompleteDesc
      <4>1. /\ Len(Chain) < nr_cyc_desc
            /\ stream.tag = IF Chain = <<>> THEN last_read ELSE Chain[Len(Chain)].tag
            /\ \E c \in Chunks : c.tag = Succ(stream.tag) /\ Chain' = Append(Chain, c)
        BY <3>1, <3>2, <3>3, <3>4, CleanOrder, ChainComplete
      <4>2. UNCHANGED <<nr_cyc_desc, last_read>>
        BY <3>1 DEF memVars
      <4> QED
        BY <3>3, <4>1, <4>2 DEF Fifo!Receive, Fifo!Newest, Fifo!Chunks, Chunks, Tags, Succ
    <3>5. CASE FetchDesc \/ FetchStale \/ BusError
      BY <3>1, <3>3, <3>5, EngineStutters
    <3> QED
      BY <3>1, <3>4, <3>5 DEF Engine
  <2>4. ASSUME UNCHANGED vars PROVE UNCHANGED <<nr_cyc_desc, Unread, last_read>>
    <3>1. UNCHANGED <<nr_cyc_desc, last_read, next_readable_buf, pc, result, bytes>>
      BY <2>4 DEF vars, ringVars, memVars, loopVars, readVars
    <3>2. UNCHANGED <<status, mem, started>>
      BY <2>4 DEF vars, ringVars, dmaVars
    <3>3. ReadPtr' = ReadPtr
      BY <3>1 DEF ReadPtr, Released
    <3> QED
      BY <3>1, <3>2, <3>3 DEF Unread, Ring
  <2> QED
    BY <2>1, <2>2, <2>3, <2>4 DEF Next, Fifo!Next
<1>3. PollInv /\ PollOrder => UnreadOK
  BY UnreadChain
<1> QED
  BY <1>1, <1>2, <1>3, PollAlways, PTL DEF Spec, IsBufferFifo, Fifo!Spec
=============================================================================
