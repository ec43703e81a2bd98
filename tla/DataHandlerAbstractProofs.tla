---------------------- MODULE DataHandlerAbstractProofs ----------------------
(***************************************************************************)
(* Proofs about interrupt-driven reception: for every size of the ring,    *)
(* both back ends and every order in which stream, kernel, I/O thread and  *)
(* stop() act.                                                             *)
(***************************************************************************)
EXTENDS DataHandlerAbstract, UioMemSgdmaProofs

\* Until the channel is started nothing arrives and nothing is announced.
BeforeSetup ==
    /\ dmacr = ResetControl /\ dmasr = ResetState /\ last_read = 0
    /\ hpc \in {"arm", "post", "run", "done"}
    /\ ~irq_masked /\ ~irq_pending

\* The ring's invariant, the types of the handler's state, and where calls on the ring
\* are in progress.
HandlerInv ==
    /\ RingInv
    /\ receive_packets \in BOOLEAN /\ backend \in Backends /\ started \in BOOLEAN
    /\ irq_masked \in BOOLEAN /\ irq_pending \in BOOLEAN
    /\ posted \in BOOLEAN /\ stopped \in BOOLEAN
    /\ hpc \in HPCs
    /\ stat \in [ioc_irq : BOOLEAN, err_irq : BOOLEAN]
    /\ hpc # "drain" => pc = "idle"
    /\ ~started => BeforeSetup

\* It holds at first.
LEMMA HandlerInit == Init => HandlerInv
<1> SUFFICES ASSUME Init PROVE HandlerInv
  OBVIOUS
<1>1. RingInv
  BY RingInit DEF Init
<1>2. pc = "idle" /\ BeforeSetup
  BY DEF Init, DmaInit, MemInit, BeforeSetup
<1> QED
  BY <1>1, <1>2 DEF Init, HandlerInv, HPCs

\* A step of the I/O thread outside the ring, of stop() or of the kernel.
Outside ==
    \/ stop \/ DeliverIrq \/ arm_interrupt \/ async_read_some \/ Dispatch \/ RunReturns
    \/ wait_for_interrupt \/ ReadDmasr \/ ClearDmasr \/ CheckErrors \/ DispatchError

\* It leaves ring, engine and reader alone, but for the interrupt bits.
LEMMA OutsideStill ==
    ASSUME DmaTypeOK, Outside
    PROVE  /\ UNCHANGED <<dmacr, curdesc, fetched, status, nxtdesc, mem, stream, memVars>>
           /\ DmaTypeOK'
<1>1. CASE ClearDmasr
  <2>1. UNCHANGED <<dmacr, curdesc, fetched, status, nxtdesc, mem, stream, memVars>>
    BY <1>1 DEF ClearDmasr
  <2>2. dmasr' \in [errs : SUBSET Errors, ioc_irq : BOOLEAN, err_irq : BOOLEAN,
                    idle : BOOLEAN]
    BY <1>1 DEF ClearDmasr, write_dmasr, DmaTypeOK
  <2> QED
    BY <2>1, <2>2 DEF DmaTypeOK
<1>2. CASE ~ClearDmasr
  <2>1. UNCHANGED ringVars
    BY <1>2 DEF Outside, stop, DeliverIrq, arm_interrupt, async_read_some, Dispatch,
                RunReturns, wait_for_interrupt, ReadDmasr, CheckErrors, DispatchError
  <2> QED
    BY <2>1 DEF ringVars, dmaVars, regVars, DmaTypeOK
<1> QED
  BY <1>1, <1>2

\* Every step preserves the invariant.
LEMMA HandlerStep == HandlerInv /\ [Next]_vars => HandlerInv'
<1> SUFFICES ASSUME HandlerInv, [Next]_vars PROVE HandlerInv'
  OBVIOUS
<1> USE DEF HandlerInv
<1>1. ASSUME NEW nr \in NrPkts, Setup(nr) PROVE HandlerInv'
  <2>1. nr \in 1 .. NumDesc /\ pc = "idle" /\ init_buffers(nr) /\ start(0)
    BY <1>1, HandlerAssumption DEF Setup, BeforeSetup
  <2>2. RingInv'
    BY <2>1, StartInv
  <2> QED
    BY <1>1, <2>1, <2>2 DEF Setup, init_buffers
<1>2. CASE Outside
  <2>1. UNCHANGED <<dmacr, curdesc, fetched, status, nxtdesc, mem, stream, memVars>>
    BY <1>2, OutsideStill DEF RingInv
  <2>2. RingInv'
    BY <1>2, <2>1, OutsideStill, RingStill DEF RingInv
  <2>3. pc' = pc /\ last_read' = last_read
    BY <2>1 DEF memVars
  <2>4. /\ UNCHANGED <<receive_packets, backend, started>>
        /\ irq_masked' \in BOOLEAN /\ irq_pending' \in BOOLEAN
        /\ posted' \in BOOLEAN /\ stopped' \in BOOLEAN
        /\ hpc' \in HPCs
        /\ hpc' # "drain" => hpc # "drain"
    BY <1>2 DEF Outside, stop, DeliverIrq, arm_interrupt, async_read_some, Dispatch,
                RunReturns, wait_for_interrupt, ReadDmasr, ClearDmasr, CheckErrors,
                DispatchError, Goto, Armed, AfterCheck, HPCs
  <2>5. stat' \in [ioc_irq : BOOLEAN, err_irq : BOOLEAN]
    <3>1. CASE ReadDmasr
      BY <3>1 DEF ReadDmasr, RingInv, DmaTypeOK
    <3>2. CASE ~ReadDmasr
      BY <1>2, <3>2 DEF Outside, stop, DeliverIrq, arm_interrupt, async_read_some, Dispatch,
                        RunReturns, wait_for_interrupt, ClearDmasr, CheckErrors,
                        DispatchError
    <3> QED
      BY <3>1, <3>2
  <2>6. ASSUME ~started PROVE BeforeSetup'
    <3>1. BeforeSetup /\ ~IrqLine
      BY <2>6 DEF BeforeSetup, IrqLine, ResetState
    <3>2. dmasr' = dmasr
      BY <1>2, <3>1 DEF Outside, stop, DeliverIrq, arm_interrupt, async_read_some, Dispatch,
                        RunReturns, wait_for_interrupt, ReadDmasr, ClearDmasr, CheckErrors,
                        DispatchError, BeforeSetup, ringVars, dmaVars, regVars
    <3>3. ~irq_masked /\ ~irq_pending /\ hpc \in {"arm", "post", "run", "done"}
      BY <3>1 DEF BeforeSetup
    <3>4. ~irq_masked' /\ ~irq_pending' /\ hpc' \in {"arm", "post", "run", "done"}
      <4>1. CASE stop \/ DeliverIrq
        BY <3>1, <3>3, <4>1 DEF stop, DeliverIrq
      <4>2. CASE arm_interrupt \/ async_read_some \/ RunReturns \/ DispatchError
        <5>1. /\ hpc' \in {"post", "run", "done"}
              /\ irq_pending' = irq_pending
              /\ irq_masked' = Armed \/ irq_masked' = irq_masked
          BY <4>2 DEF arm_interrupt, async_read_some, RunReturns, DispatchError, Goto
        <5>2. Armed = FALSE
          BY <3>3 DEF Armed
        <5> QED
          BY <3>3, <5>1, <5>2
      <4>3. ~(\/ Dispatch \/ wait_for_interrupt \/ ReadDmasr \/ ClearDmasr
              \/ CheckErrors)
        BY <3>3 DEF Dispatch, wait_for_interrupt, ReadDmasr, ClearDmasr, CheckErrors
      <4> QED
        BY <1>2, <4>1, <4>2, <4>3 DEF Outside
    <3> QED
      BY <2>1, <2>3, <3>1, <3>2, <3>4 DEF BeforeSetup
  <2> QED
    BY <2>2, <2>3, <2>4, <2>5, <2>6
<1>3. CASE Drain \/ process_data \/ DrainEnds \/ DrainThrows
  <2>1. RingInv'
    BY <1>3, CallInv, ReadInv, CallStepInv DEF Drain, process_data, DrainEnds, DrainThrows
  <2>2. /\ UNCHANGED <<receive_packets, backend, started, irq_masked, irq_pending>>
        /\ UNCHANGED <<posted, stopped, stat>>
        /\ hpc' \in HPCs /\ hpc = "drain"
    BY <1>3 DEF Drain, process_data, DrainEnds, DrainThrows, handlerVars, Goto, AfterData,
                HPCs
  <2>3. hpc' # "drain" => pc' = "idle"
    BY <1>3, <2>2 DEF Drain, process_data, DrainEnds, DrainThrows, handlerVars, CallDone
  <2>4. started
    BY <2>2 DEF BeforeSetup
  <2> QED
    BY <2>1, <2>2, <2>3, <2>4
<1>4. CASE Hardware
  <2>1. Engine /\ UNCHANGED memVars /\ UNCHANGED handlerVars
    BY <1>4 DEF Hardware
  <2>2. RingInv'
    BY <2>1, EngineInv
  <2>3. started
    <3>1. dmacr.rs
      BY <2>1 DEF Engine, FetchDesc, FetchStale, BusError, CompleteDesc, Running
    <3> QED
      BY <3>1 DEF BeforeSetup, ResetControl
  <2> QED
    BY <2>1, <2>2, <2>3 DEF handlerVars, memVars
<1>5. CASE UNCHANGED vars
  <2>1. UNCHANGED <<dmacr, curdesc, fetched, status, nxtdesc, mem, stream, memVars>>
    BY <1>5 DEF vars, ringVars, dmaVars, regVars
  <2>2. RingInv /\ DmaTypeOK'
    BY <1>5 DEF RingInv, DmaTypeOK, vars, ringVars, dmaVars, regVars
  <2>3. RingInv'
    BY <2>1, <2>2, RingStill
  <2> QED
    BY <1>5, <2>3 DEF vars, ringVars, dmaVars, regVars, memVars, handlerVars, BeforeSetup
<1> HIDE DEF HandlerInv
<1> QED
  BY <1>1, <1>2, <1>3, <1>4, <1>5 DEF Next, IoThread, Outside

\* The cursor and all indices of the drain loop stay inside the ring, and the handler's
\* state in its range.
THEOREM HandlerTypes == Spec => []TypeOK
<1>1. HandlerInv => TypeOK
  BY DEF HandlerInv, RingInv, TypeOK
<1> QED
  BY HandlerInit, HandlerStep, <1>1, PTL DEF Spec

\* The I/O thread is the thread that the rest of the library relies on: no handler begins
\* after stop(), none is cut short by it, data are taken only inside a handler and
\* exceptions come only from there.
THEOREM HandlerIsReception == Spec => IsReception
<1>1. Init => Thread!Init
  BY DEF Init, Thread!Init, Phase
<1>2. HandlerInv /\ [Next]_vars => [Thread!Next]_<<Phase, stopped, last_read>>
  <2> SUFFICES ASSUME HandlerInv, [Next]_vars
               PROVE  Thread!Next \/ UNCHANGED <<Phase, stopped, last_read>>
    OBVIOUS
  <2> USE DEF Thread!Next, Phase, Goto
  <2>1. ASSUME NEW nr \in NrPkts, Setup(nr)
        PROVE  UNCHANGED <<Phase, stopped, last_read>>
    BY <2>1 DEF Setup, HandlerInv, BeforeSetup, init_buffers
  <2>2. CASE Outside
    <3>1. last_read' = last_read
      BY OutsideStill, <2>2 DEF HandlerInv, RingInv, memVars
    <3>2. CASE stop \/ DeliverIrq
      BY <3>1, <3>2 DEF stop, DeliverIrq, Thread!Stop
    <3>3. CASE arm_interrupt \/ async_read_some \/ wait_for_interrupt \/ ReadDmasr
      BY <3>1, <3>3 DEF arm_interrupt, async_read_some, wait_for_interrupt, ReadDmasr
    <3>4. CASE Dispatch
      BY <3>1, <3>4 DEF Dispatch, Thread!Dispatch, Thread!From
    <3>5. CASE RunReturns \/ DispatchError
      BY <3>1, <3>5 DEF RunReturns, DispatchError, Thread!Return, Thread!From
    <3>6. CASE ClearDmasr
      BY <3>1, <3>6 DEF ClearDmasr, AfterCheck, Thread!Finish, Thread!From
    <3>7. CASE CheckErrors
      BY <3>1, <3>7 DEF CheckErrors, AfterCheck, Thread!Finish, Thread!Throw, Thread!From
    <3> QED
      BY <2>2, <3>2, <3>3, <3>4, <3>5, <3>6, <3>7 DEF Outside
  <2>3. CASE Drain
    BY <2>3 DEF Drain, handlerVars, Thread!TakeData
  <2>4. CASE process_data \/ DrainEnds \/ DrainThrows
    BY <2>4 DEF process_data, DrainEnds, DrainThrows, CallDone, AfterData, Thread!Finish,
                Thread!Throw, Thread!From
  <2>5. CASE Hardware \/ UNCHANGED vars
    BY <2>5 DEF Hardware, vars, handlerVars, ringVars, memVars
  <2> HIDE DEF Thread!Next, Phase, Goto
  <2> QED
    BY <2>1, <2>2, <2>3, <2>4, <2>5 DEF Next, IoThread, Outside
<1> QED
  BY <1>1, <1>2, HandlerInit, HandlerStep, PTL DEF Spec, IsReception, Thread!Spec
-----------------------------------------------------------------------------
\* The order of the data in the ring: in packet mode as long as SOF can be relied on, in
\* stream mode until get_full_buffers() throws, which ends the thread.
HandlerOrder ==
    started =>
        /\ receive_packets /\ "no_sof" \notin Faults => OrderInv /\ PacketInv
        /\ ~receive_packets => /\ pc # "packet"
                               /\ hpc = "dead" \/ pc = "threw" \/ OrderInv

\* Every step preserves it.
LEMMA HandlerOrderStep ==
    ASSUME HandlerInv, HandlerOrder, [Next]_vars
    PROVE  HandlerOrder'
<1>1. RingInv
  BY DEF HandlerInv
<1>2. ASSUME NEW nr \in NrPkts, Setup(nr) PROVE HandlerOrder'
  <2>1. nr \in 1 .. NumDesc /\ pc = "idle" /\ init_buffers(nr) /\ start(0)
    BY <1>2, HandlerAssumption DEF Setup, HandlerInv, BeforeSetup
  <2>2. OrderInv' /\ PacketInv' /\ pc' = "idle"
    BY <1>1, <2>1, StartOrder DEF init_buffers
  <2> QED
    BY <2>2 DEF HandlerOrder
<1>3. CASE Outside \/ UNCHANGED vars
  <2>1. /\ UNCHANGED <<dmacr, curdesc, fetched, status, nxtdesc, mem, stream, memVars>>
        /\ DmaTypeOK'
    <3>1. CASE Outside
      BY <1>1, <3>1, OutsideStill DEF RingInv
    <3>2. CASE UNCHANGED vars
      BY <1>1, <3>2 DEF RingInv, DmaTypeOK, vars, ringVars, dmaVars, regVars
    <3> QED
      BY <1>3, <3>1, <3>2
  <2>2. /\ OrderInv => OrderInv'
        /\ PacketInv /\ OrderInv => PacketInv'
    BY <1>1, <2>1, RingStill
  <2>3. UNCHANGED <<receive_packets, started, pc>>
    BY <1>3, <2>1
       DEF memVars, vars, handlerVars, Outside, stop, DeliverIrq, arm_interrupt,
           async_read_some, Dispatch, RunReturns, wait_for_interrupt, ReadDmasr, ClearDmasr,
           CheckErrors, DispatchError, Goto
  <2>4. hpc = "dead" => hpc' = "dead"
    BY <1>3
       DEF vars, handlerVars, Outside, stop, DeliverIrq, arm_interrupt, async_read_some,
           Dispatch, RunReturns, wait_for_interrupt, ReadDmasr, ClearDmasr, CheckErrors,
           DispatchError
  <2> QED
    BY <2>2, <2>3, <2>4 DEF HandlerOrder
<1>4. CASE Drain \/ process_data \/ DrainEnds \/ DrainThrows
  <2>1. hpc = "drain" /\ started /\ UNCHANGED <<receive_packets, started>>
    BY <1>4 DEF HandlerInv, BeforeSetup, Drain, process_data, DrainEnds, DrainThrows,
                handlerVars, Goto
  <2>2. \/ pc = "idle" /\ IF receive_packets THEN get_next_packet ELSE get_full_buffers
        \/ read_buffers
        \/ CallStep
        \/ /\ pc \in {"ready", "threw"} \/ (pc = "got" /\ result = <<>>)
           /\ CallDone
    BY <1>4 DEF Drain, process_data, DrainEnds, DrainThrows
  <2>3. CASE receive_packets
    <3>1. ASSUME "no_sof" \notin Faults PROVE OrderInv' /\ PacketInv'
      <4>1. OrderInv /\ PacketInv
        BY <2>1, <2>3, <3>1 DEF HandlerOrder
      <4> QED
        BY <1>1, <2>2, <2>3, <3>1, <4>1, PacketReader
    <3> QED
      BY <2>1, <2>3, <3>1 DEF HandlerOrder
  <2>4. CASE ~receive_packets
    <3>1. pc # "packet" /\ (pc = "threw" \/ OrderInv)
      BY <2>1, <2>4 DEF HandlerOrder
    <3>2. CASE DrainThrows
      BY <2>1, <2>4, <3>2 DEF HandlerOrder, DrainThrows, Goto, CallDone
    <3>3. CASE ~DrainThrows
      <4>1. pc # "threw"
        BY <1>4, <3>3
           DEF Drain, process_data, DrainEnds, read_buffers, CallStep, FullTake, FullReturn,
               FullThrow, PacketSkip, PacketTake, PacketReturn, PacketThrow, ReadStat,
               StatsDone, CopyBuf, ClearStat, ReadReturn
      <4>2. OrderInv
        BY <3>1, <4>1
      <4>3. /\ OrderInv /\ (NoEmpty \/ pc' # "threw") => OrderInv'
            /\ pc' # "packet"
        BY <1>1, <2>2, <2>4, <3>1, <4>2, StreamReader
      <4> QED
        BY <2>1, <2>4, <4>2, <4>3 DEF HandlerOrder
    <3> QED
      BY <3>2, <3>3
  <2> QED
    BY <2>3, <2>4 DEF HandlerInv
<1>5. CASE Hardware
  <2>1. Engine /\ UNCHANGED memVars
        /\ UNCHANGED <<receive_packets, started, hpc, pc>>
    BY <1>5 DEF Hardware, handlerVars, memVars
  <2>2. OrderInv => OrderInv'
    BY <1>1, <2>1, EngineOrder
  <2>3. OrderInv /\ PacketInv /\ "no_sof" \notin Faults => PacketInv'
    BY <1>1, <2>1, EnginePacket
  <2> QED
    BY <2>1, <2>2, <2>3 DEF HandlerOrder
<1> QED
  BY <1>2, <1>3, <1>4, <1>5 DEF Next, IoThread, Outside

-----------------------------------------------------------------------------
\* The end of a packet is in the ring.
EndReady == \E d \in Ring : status[d].cmplt /\ status[d].rxeof

\* get_next_packet() and get_full_buffers() return nothing only if there is no end of a
\* packet in the ring at that moment.
LEMMA ScanFindsNone ==
    ASSUME RingInv, OrderInv,
           \/ PacketInv /\ PacketReturn
           \/ FullReturn /\ result = <<>>
    PROVE  ~EndReady
<1>1. /\ nr_cyc_desc \in Nat \ {0} /\ ReadPtr \in Ring /\ Fill \in 0 .. nr_cyc_desc
      /\ Len(result) \in 0 .. nr_cyc_desc
      /\ status[ReadPtr].cmplt <=> Fill > 0
  BY ReadPlace, FirstComplete DEF OrderInv
<1>2. \A d \in Ring : status[d].cmplt <=> Dist(ReadPtr, d) < Fill
  BY DEF OrderInv, LinkOK
<1>3. /\ pc \in {"full", "packet"} /\ i = Len(result) /\ bytes = <<>>
      /\ pc = "full" => result = <<>>
  BY DEF PacketInv, PacketReturn, FullReturn, OrderInv, CursorOK, RingInv, ShapeOK
<1>4. ReadPtr = IF result = <<>> THEN next_readable_buf ELSE result[1]
  BY <1>1, <1>3 DEF ReadPtr, Released
<1>5. CASE result = <<>>
  <2>1. ~AllSeen
    BY <1>1, <1>3, <1>5 DEF AllSeen
  <2>2. ~status[ReadPtr].cmplt
    BY <1>3, <1>4, <1>5, <2>1 DEF PacketReturn, FullReturn, IsFull, OrderInv, CursorOK
  <2>3. Fill = 0
    BY <1>1, <2>2
  <2>4. \A d \in Ring : Dist(ReadPtr, d) \in Nat
    BY <1>1 DEF Dist, Ring
  <2> QED
    BY <1>2, <2>3, <2>4 DEF EndReady
<1>6. CASE result # <<>>
  <2>1. PacketInv /\ PacketReturn /\ pc = "packet" /\ ReadPtr = result[1]
    BY <1>4, <1>6 DEF PacketReturn
  <2>2. Fill <= Len(result)
    <3>1. CASE AllSeen
      BY <1>1, <1>3, <3>1 DEF AllSeen
    <3>2. CASE ~AllSeen
      <4>1. ~status[n].cmplt /\ n \in Ring /\ Len(result) # nr_cyc_desc
        BY <1>3, <2>1, <3>2 DEF PacketReturn, IsFull, AllSeen, RingInv, MemTypeOK
      <4>2. n = Wrap(ReadPtr + Len(result))
        BY <1>6, <2>1 DEF RingInv, ConsecutiveOK
      <4>3. Dist(ReadPtr, n) = Len(result)
        BY <1>1, <4>1, <4>2, WrapDist
      <4> QED
        BY <1>1, <1>2, <4>1, <4>3
    <3> QED
      BY <3>1, <3>2
  <2>3. ASSUME NEW d \in Ring, status[d].cmplt PROVE ~status[d].rxeof
    <3>1. Dist(ReadPtr, d) \in Ring /\ d = Wrap(ReadPtr + Dist(ReadPtr, d))
      BY <1>1, DistStep
    <3>2. Dist(ReadPtr, d) + 1 \in 1 .. Len(result)
      BY <1>1, <1>2, <2>2, <2>3, <3>1 DEF Ring
    <3>3. result[Dist(ReadPtr, d) + 1] = Wrap(result[1] + ((Dist(ReadPtr, d) + 1) - 1))
      BY <1>6, <3>2, ReadPlace DEF OrderInv
    <3>4. (Dist(ReadPtr, d) + 1) - 1 = Dist(ReadPtr, d)
      BY <1>1, <3>1 DEF Ring
    <3>5. result[Dist(ReadPtr, d) + 1] = d
      BY <2>1, <3>1, <3>3, <3>4
    <3> QED
      BY <2>1, <3>2, <3>5 DEF PacketInv
  <2> QED
    BY <2>3 DEF EndReady
<1> QED
  BY <1>5, <1>6
\* Where a completed end of packet must be announced by the interrupt bit: everywhere but
\* between the clearing of that bit and the return of an empty scan.
MustAnnounce ==
    \/ hpc \in {"arm", "post", "run", "wait", "dmasr", "w1c"}
    \/ hpc = "check" /\ ~stat.ioc_irq
    \/ hpc = "drain" /\ pc = "got" /\ result = <<>>

EndAnnounced ==
    started /\ (receive_packets => "no_sof" \notin Faults) /\ MustAnnounce /\ EndReady
        => dmasr.ioc_irq

\* The channel's interrupt is enabled, and an error bit comes with an error.
IrqEnabled == started => dmacr.ioc_irq_en /\ (dmasr.errs = {} => ~dmasr.err_irq)

\* UIO: armed before the thread waits, an interrupt is masked only when it is pending.
AxiUnmasked == backend = "axi" /\ hpc \in {"post", "run"} /\ irq_masked => irq_pending

\* XDMA: without an error, the line is high from the event until the status register is
\* cleared, so that it falls then and the next rise is an event again.
XdmaUnmasked ==
    backend = "xdma" /\ dmasr.errs = {} =>
        /\ irq_pending => irq_masked /\ dmasr.ioc_irq
        /\ hpc \in {"dmasr", "w1c"} => irq_masked /\ ~irq_pending /\ dmasr.ioc_irq
        /\ hpc = "w1c" => stat.ioc_irq
        /\ irq_masked => irq_pending \/ hpc \in {"dmasr", "w1c"}

AnnounceInv == EndAnnounced /\ IrqEnabled /\ AxiUnmasked /\ XdmaUnmasked

\* A step outside the ring: the bit is cleared only on the way into the drain loop.
LEMMA OutsideAnnounce ==
    ASSUME HandlerInv, AnnounceInv, Outside
    PROVE  AnnounceInv'
<1>1. UNCHANGED <<dmacr, status, nr_cyc_desc, pc, result>>
  BY OutsideStill DEF HandlerInv, RingInv, memVars, loopVars
<1>2. UNCHANGED <<receive_packets, backend, started>>
  BY DEF Outside, stop, DeliverIrq, arm_interrupt, async_read_some, Dispatch, RunReturns,
         wait_for_interrupt, ReadDmasr, ClearDmasr, CheckErrors, DispatchError, Goto
<1>3. dmasr \in [errs : SUBSET Errors, ioc_irq : BOOLEAN, err_irq : BOOLEAN, idle : BOOLEAN]
  BY DEF HandlerInv, RingInv, DmaTypeOK
<1>4. EndReady' = EndReady
  BY <1>1 DEF EndReady, Ring
<1>5. CASE ClearDmasr
  <2>1. /\ hpc = "w1c" /\ pc = "idle" /\ started
        /\ UNCHANGED <<irq_pending, stat>>
        /\ hpc' = IF stat.err_irq THEN "check" ELSE AfterCheck
        /\ irq_masked' = IF backend = "xdma" /\ ~IrqLine' THEN FALSE ELSE irq_masked
    BY <1>5 DEF ClearDmasr, Goto, HandlerInv, BeforeSetup
  <2>2. /\ dmasr'.errs = dmasr.errs
        /\ dmasr'.ioc_irq = (dmasr.ioc_irq /\ ~stat.ioc_irq)
        /\ dmasr'.err_irq = (dmasr.err_irq /\ ~stat.err_irq)
    BY <1>3, <1>5 DEF ClearDmasr, write_dmasr
  <2>3. EndAnnounced'
    <3>1. MustAnnounce' => ~stat.ioc_irq
      BY <1>1, <2>1 DEF MustAnnounce, AfterCheck
    <3>2. MustAnnounce
      BY <2>1 DEF MustAnnounce
    <3> QED
      BY <1>2, <1>4, <2>2, <3>1, <3>2 DEF EndAnnounced, AnnounceInv
  <2>4. IrqEnabled'
    BY <1>1, <1>2, <2>2 DEF IrqEnabled, AnnounceInv
  <2>5. AxiUnmasked'
    BY <2>1 DEF AxiUnmasked, AfterCheck
  <2>6. XdmaUnmasked'
    <3>1. SUFFICES ASSUME backend = "xdma", dmasr.errs = {} PROVE XdmaUnmasked'
      BY <1>2, <2>2 DEF XdmaUnmasked
    <3>2. stat.ioc_irq /\ ~irq_pending
      BY <2>1, <3>1 DEF XdmaUnmasked, AnnounceInv
    <3>3. ~dmasr.err_irq
      BY <2>1, <3>1 DEF IrqEnabled, AnnounceInv
    <3>4. ~IrqLine'
      BY <2>2, <3>2, <3>3 DEF IrqLine
    <3> QED
      BY <2>1, <3>1, <3>2, <3>4 DEF XdmaUnmasked, AfterCheck
  <2> QED
    BY <2>3, <2>4, <2>5, <2>6 DEF AnnounceInv
<1>6. CASE ~ClearDmasr
  <2>1. dmasr' = dmasr
    BY <1>6 DEF Outside, stop, DeliverIrq, arm_interrupt, async_read_some, Dispatch,
                RunReturns, wait_for_interrupt, ReadDmasr, CheckErrors, DispatchError,
                ringVars, dmaVars, regVars
  <2>2. IrqEnabled'
    BY <1>1, <1>2, <2>1 DEF IrqEnabled, AnnounceInv
  <2>3. EndAnnounced'
    <3>1. MustAnnounce' => MustAnnounce
      BY <1>1, <1>6
         DEF MustAnnounce, Outside, stop, DeliverIrq, arm_interrupt, async_read_some,
             Dispatch, RunReturns, wait_for_interrupt, ReadDmasr, CheckErrors,
             DispatchError, Goto, AfterCheck, HandlerInv
    <3> QED
      BY <1>2, <1>4, <2>1, <3>1 DEF EndAnnounced, AnnounceInv
  <2>4. AxiUnmasked'
    <3>1. SUFFICES ASSUME backend = "axi", hpc' \in {"post", "run"}, irq_masked'
                   PROVE  irq_pending'
      BY <1>2 DEF AxiUnmasked
    <3>2. CASE DeliverIrq
      BY <3>2 DEF DeliverIrq
    <3>3. CASE arm_interrupt
      BY <3>1, <3>3 DEF arm_interrupt, Armed
    <3>4. CASE stop \/ async_read_some
      BY <3>1, <3>4 DEF stop, async_read_some, AxiUnmasked, AnnounceInv
    <3> QED
      BY <1>6, <3>1, <3>2, <3>3, <3>4
         DEF Outside, Dispatch, RunReturns, wait_for_interrupt, ReadDmasr, CheckErrors,
             DispatchError, Goto, AfterCheck
  <2>5. XdmaUnmasked'
    <3>1. SUFFICES ASSUME backend = "xdma", dmasr.errs = {} PROVE XdmaUnmasked'
      BY <1>2, <2>1 DEF XdmaUnmasked
    <3>2. /\ irq_pending => irq_masked /\ dmasr.ioc_irq
          /\ hpc \in {"dmasr", "w1c"} => irq_masked /\ ~irq_pending /\ dmasr.ioc_irq
          /\ hpc = "w1c" => stat.ioc_irq
          /\ irq_masked => irq_pending \/ hpc \in {"dmasr", "w1c"}
      BY <3>1 DEF XdmaUnmasked, AnnounceInv
    <3>3. CASE DeliverIrq
      <4>1. dmasr.ioc_irq /\ ~irq_masked /\ irq_masked' /\ irq_pending' /\ hpc' = hpc
        <5>1. IrqLine /\ started
          BY <3>3 DEF DeliverIrq, HandlerInv, BeforeSetup, IrqLine, ResetState
        <5>2. ~dmasr.err_irq
          BY <3>1, <5>1 DEF IrqEnabled, AnnounceInv
        <5> QED
          BY <3>3, <5>1, <5>2 DEF DeliverIrq, IrqLine
      <4> QED
        BY <2>1, <3>2, <4>1 DEF XdmaUnmasked
    <3>4. CASE wait_for_interrupt
      BY <2>1, <3>2, <3>4 DEF wait_for_interrupt, XdmaUnmasked, Goto
    <3>5. CASE ReadDmasr
      BY <2>1, <3>2, <3>5 DEF ReadDmasr, XdmaUnmasked, Goto
    <3>6. CASE arm_interrupt
      <4>1. irq_masked' = irq_masked /\ irq_pending' = irq_pending
        BY <3>1, <3>6 DEF arm_interrupt, Armed
      <4> QED
        BY <2>1, <3>2, <3>6, <4>1 DEF arm_interrupt, XdmaUnmasked, Goto
    <3>7. CASE stop
      BY <2>1, <3>2, <3>7 DEF stop, XdmaUnmasked
    <3>8. CASE \/ async_read_some \/ Dispatch \/ RunReturns \/ CheckErrors \/ DispatchError
      BY <2>1, <3>2, <3>8
         DEF async_read_some, Dispatch, RunReturns, CheckErrors, DispatchError, XdmaUnmasked,
             Goto, AfterCheck
    <3> QED
      BY <1>6, <3>3, <3>4, <3>5, <3>6, <3>7, <3>8 DEF Outside
  <2> QED
    BY <2>2, <2>3, <2>4, <2>5 DEF AnnounceInv
<1> QED
  BY <1>5, <1>6
\* A step of the drain loop: it ends with nothing found only when the ring holds no end
\* of a packet.
LEMMA DrainAnnounce ==
    ASSUME HandlerInv, HandlerOrder, AnnounceInv,
           Drain \/ process_data \/ DrainEnds \/ DrainThrows
    PROVE  AnnounceInv'
<1>1. /\ hpc = "drain" /\ started
      /\ UNCHANGED <<receive_packets, backend, started, irq_masked, irq_pending, stat>>
  BY DEF Drain, process_data, DrainEnds, DrainThrows, handlerVars, Goto, HandlerInv,
         BeforeSetup
<1>2. hpc' \in {"drain", "arm", "dead"}
  BY DEF Drain, process_data, DrainEnds, DrainThrows, handlerVars, Goto, AfterData
<1>3. UNCHANGED <<dmacr, dmasr>>
  BY DEF Drain, process_data, DrainEnds, DrainThrows, CallDone, get_next_packet,
         get_full_buffers, read_buffers, CallStep, FullTake, FullReturn, FullThrow,
         PacketSkip, PacketTake, PacketReturn, PacketThrow, ReadStat, StatsDone, CopyBuf,
         ClearStat, ReadReturn, dmaVars, regVars
<1>4. IrqEnabled' /\ AxiUnmasked'
  BY <1>1, <1>2, <1>3 DEF IrqEnabled, AxiUnmasked, AnnounceInv
<1>5. XdmaUnmasked'
  BY <1>1, <1>2, <1>3 DEF XdmaUnmasked, AnnounceInv
<1>6. EndAnnounced'
  <2> SUFFICES ASSUME receive_packets => "no_sof" \notin Faults, MustAnnounce', EndReady'
               PROVE  dmasr.ioc_irq
    BY <1>1, <1>3 DEF EndAnnounced
  <2>1. CASE DrainEnds
    <3>1. MustAnnounce /\ UNCHANGED <<status, nr_cyc_desc>>
      BY <2>1 DEF DrainEnds, MustAnnounce, CallDone, dmaVars
    <3>2. EndReady
      BY <3>1 DEF EndReady, Ring
    <3> QED
      BY <1>1, <3>1, <3>2 DEF EndAnnounced, AnnounceInv
  <2>2. CASE ~DrainEnds
    <3>1. hpc' = "drain" /\ pc' = "got" /\ result' = <<>>
      BY <1>2, <2>2 DEF MustAnnounce, Drain, process_data, DrainThrows, Goto, AfterData,
                        handlerVars
    <3>2. Drain
      BY <2>2, <3>1 DEF process_data, DrainThrows, CallDone
    <3>3. PacketReturn \/ (FullReturn /\ result = <<>>)
      <4>1. Append(result, n) # <<>>
        BY DEF HandlerInv, RingInv, MemTypeOK
      <4> QED
        BY <3>1, <3>2, <4>1
           DEF Drain, get_next_packet, get_full_buffers, read_buffers, CallStep, FullTake,
               FullReturn, FullThrow, PacketSkip, PacketTake, PacketThrow, ReadStat,
               StatsDone, CopyBuf, ClearStat, ReadReturn, loopVars
    <3>4. OrderInv /\ (PacketReturn => PacketInv)
      BY <1>1, <3>3 DEF HandlerOrder, HandlerInv, PacketReturn, FullReturn
    <3>5. ~EndReady
      BY <3>3, <3>4, ScanFindsNone DEF HandlerInv
    <3>6. UNCHANGED <<status, nr_cyc_desc>>
      BY <3>3 DEF PacketReturn, FullReturn, dmaVars
    <3> QED
      BY <3>5, <3>6 DEF EndReady, Ring
  <2> QED
    BY <2>1, <2>2
<1> QED
  BY <1>4, <1>5, <1>6 DEF AnnounceInv

\* A step of the engine: the end of a packet sets the interrupt bit.
LEMMA EngineAnnounce ==
    ASSUME HandlerInv, AnnounceInv, Hardware
    PROVE  AnnounceInv'
<1>1. /\ Engine /\ UNCHANGED memVars
      /\ UNCHANGED <<receive_packets, backend, started, irq_masked, irq_pending, stat, hpc>>
  BY DEF Hardware, handlerVars
<1>2. UNCHANGED <<nr_cyc_desc, pc, result>>
  BY <1>1 DEF memVars, loopVars
<1>3. DmaTypeOK /\ MemTypeOK
  BY DEF HandlerInv, RingInv
<1>4. /\ dmacr'.ioc_irq_en = dmacr.ioc_irq_en
      /\ dmasr'.errs = {} => dmasr.errs = {} /\ dmasr'.err_irq = dmasr.err_irq
      /\ dmasr.ioc_irq => dmasr'.ioc_irq
      /\ EndReady' /\ ~EndReady => dmasr'.ioc_irq
  <2>1. CASE CompleteDesc
    <3>1. PICK sof, eof, empty \in BOOLEAN :
             /\ status' = [status EXCEPT ![curdesc] =
                     [cmplt |-> TRUE, rxsof |-> sof, rxeof |-> eof, empty |-> empty]]
             /\ dmasr' = [dmasr EXCEPT !.ioc_irq = @ \/ eof,
                                       !.idle = (DescBase + curdesc = TailDesc)]
             /\ dmacr' = dmacr
      BY <1>1, <2>1, CompletePicked
    <3>2. /\ dmasr'.errs = dmasr.errs /\ dmasr'.err_irq = dmasr.err_irq
          /\ dmasr'.ioc_irq = (dmasr.ioc_irq \/ eof)
      BY <1>3, <3>1 DEF DmaTypeOK
    <3>3. EndReady' => EndReady \/ eof
      <4> SUFFICES ASSUME NEW d \in Ring, status'[d].cmplt, status'[d].rxeof
                   PROVE  EndReady \/ eof
        BY <1>2 DEF EndReady, Ring
      <4>1. d \in Descs
        BY <1>3, DmaAssumption DEF Ring, Descs, MemTypeOK
      <4>2. CASE d = curdesc
        BY <1>3, <3>1, <4>1, <4>2 DEF DmaTypeOK
      <4>3. CASE d # curdesc
        BY <1>3, <3>1, <4>1, <4>3 DEF DmaTypeOK, EndReady
      <4> QED
        BY <4>2, <4>3
    <3> QED
      BY <3>1, <3>2, <3>3
  <2>2. CASE FetchDesc
    BY <1>2, <2>2 DEF FetchDesc, EndReady, Ring
  <2>3. ASSUME NEW e, Halt(e), UNCHANGED status
        PROVE  /\ dmacr'.ioc_irq_en = dmacr.ioc_irq_en
               /\ dmasr'.errs # {}
               /\ dmasr'.ioc_irq = dmasr.ioc_irq
               /\ EndReady' = EndReady
    <3>1. EndReady' = EndReady
      BY <1>2, <2>3 DEF EndReady, Ring
    <3>2. dmacr' = [dmacr EXCEPT !.rs = FALSE]
      BY <2>3 DEF Halt
    <3>3. dmasr' = [dmasr EXCEPT !.errs = @ \cup {e}, !.err_irq = TRUE]
      BY <2>3 DEF Halt
    <3>4. dmasr'.errs = dmasr.errs \cup {e} /\ dmasr'.ioc_irq = dmasr.ioc_irq
      BY <1>3, <3>3 DEF DmaTypeOK
    <3> QED
      BY <1>3, <3>1, <3>2, <3>4 DEF DmaTypeOK
  <2>4. CASE FetchStale \/ BusError
    <3>1. PICK e : Halt(e) /\ UNCHANGED status
      BY <2>4 DEF FetchStale, BusError
    <3> QED
      BY <2>3, <3>1
  <2> QED
    BY <1>1, <2>1, <2>2, <2>4 DEF Engine
<1>5. IrqEnabled'
  BY <1>1, <1>4 DEF IrqEnabled, AnnounceInv
<1>6. AxiUnmasked'
  BY <1>1 DEF AxiUnmasked, AnnounceInv
<1>7. XdmaUnmasked'
  BY <1>1, <1>4 DEF XdmaUnmasked, AnnounceInv
<1>8. EndAnnounced'
  <2>1. MustAnnounce' = MustAnnounce
    BY <1>1, <1>2 DEF MustAnnounce
  <2> QED
    BY <1>1, <1>4, <2>1 DEF EndAnnounced, AnnounceInv
<1> QED
  BY <1>5, <1>6, <1>7, <1>8 DEF AnnounceInv

\* The channel is started: nothing is in the ring yet.
LEMMA SetupAnnounce ==
    ASSUME HandlerInv, AnnounceInv, NEW nr \in NrPkts, Setup(nr)
    PROVE  AnnounceInv'
<1>1. /\ nr \in 1 .. NumDesc /\ init_buffers(nr) /\ start(0) /\ BeforeSetup
      /\ UNCHANGED <<backend, irq_masked, irq_pending, hpc>>
  BY HandlerAssumption DEF Setup, HandlerInv
<1>2. nr_cyc_desc' = nr /\ \A d \in Descs : d < nr => status'[d] = ClearStatus
  BY <1>1 DEF init_buffers, write_cyc_mode, InitStatus
<1>3. ~EndReady'
  BY <1>1, <1>2, DmaAssumption DEF EndReady, Ring, Descs, ClearStatus
<1>4. dmacr'.ioc_irq_en /\ ~dmasr'.err_irq
  BY <1>1 DEF start, ResetControl, ResetState
<1>5. IrqEnabled' /\ EndAnnounced'
  BY <1>3, <1>4 DEF IrqEnabled, EndAnnounced
<1>6. AxiUnmasked' /\ XdmaUnmasked'
  BY <1>1 DEF AxiUnmasked, XdmaUnmasked, BeforeSetup
<1> QED
  BY <1>5, <1>6 DEF AnnounceInv

\* No packet is missed: while the I/O thread waits and no interrupt is pending, the end
\* of a packet in the ring is announced by the interrupt line and the kernel will deliver
\* it, for both back ends and every ring size, with descriptors without bytes and up to
\* the first DMA error.
THEOREM HandlerNoMissedPacket ==
    ASSUME "no_sof" \notin Faults
    PROVE  Spec => []NoMissedPacket
<1> DEFINE Inv == HandlerInv /\ HandlerOrder /\ AnnounceInv
<1>1. Init => Inv
  <2> SUFFICES ASSUME Init PROVE HandlerOrder /\ AnnounceInv
    BY HandlerInit
  <2>1. ~started /\ ~irq_pending /\ ~irq_masked /\ hpc = "arm"
    BY DEF Init
  <2> QED
    BY <2>1 DEF HandlerOrder, AnnounceInv, EndAnnounced, IrqEnabled, AxiUnmasked,
                XdmaUnmasked
<1>2. Inv /\ [Next]_vars => Inv'
  <2> SUFFICES ASSUME Inv, [Next]_vars PROVE AnnounceInv'
    BY HandlerStep, HandlerOrderStep
  <2>1. CASE UNCHANGED vars
    <3>1. /\ UNCHANGED <<dmacr, dmasr, status, nr_cyc_desc, pc, result>>
          /\ UNCHANGED <<receive_packets, backend, started, irq_masked, irq_pending>>
          /\ UNCHANGED <<hpc, stat>>
      BY <2>1 DEF vars, ringVars, dmaVars, regVars, memVars, loopVars, handlerVars
    <3>2. EndReady' = EndReady /\ MustAnnounce' = MustAnnounce
      BY <3>1 DEF EndReady, Ring, MustAnnounce
    <3> QED
      BY <3>1, <3>2 DEF AnnounceInv, EndAnnounced, IrqEnabled, AxiUnmasked, XdmaUnmasked
  <2> QED
    BY <2>1, SetupAnnounce, OutsideAnnounce, DrainAnnounce, EngineAnnounce
       DEF Next, IoThread, Outside
<1>3. Inv => NoMissedPacket
  <2> SUFFICES ASSUME Inv, hpc = "run", ~irq_pending, started, dmasr.errs = {}, EndReady
               PROVE  IrqLine /\ ~irq_masked
    BY DEF NoMissedPacket, EndReady
  <2>1. dmasr.ioc_irq /\ dmacr.ioc_irq_en
    BY DEF AnnounceInv, EndAnnounced, IrqEnabled, MustAnnounce
  <2>2. ~irq_masked
    BY HandlerAssumption DEF AnnounceInv, AxiUnmasked, XdmaUnmasked, HandlerInv
  <2> QED
    BY <2>1, <2>2 DEF IrqLine
<1> QED
  BY <1>1, <1>2, <1>3, PTL DEF Spec
=============================================================================
