------------------------- MODULE DataHandlerAbstract -------------------------
(***************************************************************************)
(* Interrupt-driven reception (src/src/DataHandlerAbstract.cpp): an I/O    *)
(* thread waits in io_service::run() for the interrupt descriptor to       *)
(* become readable, clears the interrupt, drains the descriptor ring and   *)
(* arms the interrupt again.  It composes the DMA channel and the ring     *)
(* (UioMemSgdma) with the kernel's interrupt delivery and the io_service,  *)
(* both external, and with any other thread that may call stop().          *)
(*                                                                         *)
(* hpc is the I/O thread's place:                                          *)
(*   arm, post   in _start_read()                                          *)
(*   run         in _svc.run(), no handler running                         *)
(*   wait, dmasr, w1c, check                                               *)
(*               in _handle_input(), up to the test of ioc_irq             *)
(*   drain       in the while loop of _handle_input()                      *)
(*   done        operator()() has returned                                 *)
(*   dead        an exception has left the thread's function               *)
(***************************************************************************)
EXTENDS UioMemSgdma

CONSTANTS NrPkts,     \* ring sizes that init_buffers() may be called with
          Backends,   \* kinds of HwAccessor: "axi" (UIO) and "xdma"
          IoErrors    \* whether waiting on the interrupt descriptor may fail

ASSUME HandlerAssumption ==
    /\ NrPkts \subseteq 1 .. NumDesc
    /\ Backends \subseteq {"axi", "xdma"}
    /\ IoErrors \in BOOLEAN

VARIABLES
    receive_packets,  \* set by the constructor
    backend,          \* the HwAccessor the DMA interface was built with
    started,          \* the ring is initialised and the channel started
    irq_masked,       \* an interrupt has been delivered and not been re-enabled
    irq_pending,      \* the interrupt descriptor is readable
    posted,           \* an async_read_some is outstanding
    stopped,          \* the io_service's stopped flag
    hpc,              \* see above
    stat              \* _handle_input's copy of the interrupt bits

handlerVars == <<receive_packets, backend, started, irq_masked, irq_pending,
                 posted, stopped, hpc, stat>>
vars == <<ringVars, handlerVars>>

HPCs  == {"arm", "post", "run", "wait", "dmasr", "w1c", "check", "drain", "done", "dead"}
Ended == hpc \in {"done", "dead"}

\* Every variable is in its range; the cursor and every index the drain loop holds
\* stay inside the ring.
TypeOK ==
    /\ DmaTypeOK /\ MemTypeOK
    /\ receive_packets \in BOOLEAN
    /\ backend \in Backends
    /\ {started, irq_masked, irq_pending, posted, stopped} \subseteq BOOLEAN
    /\ hpc \in HPCs
    /\ stat \in [ioc_irq : BOOLEAN, err_irq : BOOLEAN]

Init ==
    /\ DmaInit /\ MemInit
    /\ receive_packets \in BOOLEAN
    /\ backend \in Backends
    /\ started = FALSE
    /\ irq_masked = FALSE /\ irq_pending = FALSE
    /\ posted = FALSE /\ stopped = FALSE
    /\ hpc = "arm"
    /\ stat = [ioc_irq |-> FALSE, err_irq |-> FALSE]

-----------------------------------------------------------------------------
\* The application initialises the ring and starts the channel, before or after
\* it starts the I/O thread.
Setup(nr) ==
    /\ ~started
    /\ init_buffers(nr) /\ start(0)
    /\ started' = TRUE
    /\ UNCHANGED <<receive_packets, backend, irq_masked, irq_pending, posted,
                   stopped, hpc, stat>>

\* Any thread, at any time: _svc.stop().  The flag is never reset.
stop ==
    /\ ~stopped
    /\ stopped' = TRUE
    /\ UNCHANGED <<ringVars, receive_packets, backend, started, irq_masked,
                   irq_pending, posted, hpc, stat>>

\* The kernel delivers the interrupt: the descriptor becomes readable.  The UIO
\* driver disables the interrupt until it is armed again; an XDMA event is sent
\* once for each time the line rises.
DeliverIrq ==
    /\ IrqLine /\ ~irq_masked
    /\ irq_masked' = TRUE /\ irq_pending' = TRUE
    /\ UNCHANGED <<ringVars, receive_packets, backend, started, posted, stopped,
                   hpc, stat>>

-----------------------------------------------------------------------------
(* The I/O thread *)

Goto(l) ==
    /\ hpc' = l
    /\ UNCHANGED <<receive_packets, backend, started, stopped>>

\* The interrupt mask once armed.
Armed_Never == irq_masked  \* mutant: the interrupt is not enabled again
Armed == IF backend = "axi" THEN FALSE ELSE irq_masked

arm_interrupt_Restart ==  \* mutant: the io_service is restarted with the read
    /\ hpc = "arm"
    /\ irq_masked' = Armed
    /\ hpc' = "post" /\ stopped' = FALSE
    /\ UNCHANGED <<ringVars, receive_packets, backend, started, irq_pending, posted, stat>>

\* _start_read(): write 1 to the UIO device; XDMA has nothing to arm ...
arm_interrupt ==
    /\ hpc = "arm"
    /\ irq_masked' = Armed
    /\ Goto("post")
    /\ UNCHANGED <<ringVars, irq_pending, posted, stat>>

\* ... then wait for the descriptor to become readable.
async_read_some ==
    /\ hpc = "post"
    /\ posted' = TRUE
    /\ Goto("run")
    /\ UNCHANGED <<ringVars, irq_masked, irq_pending, stat>>

\* run() invokes the handler when the descriptor is readable ...
Dispatch ==
    /\ hpc = "run" /\ ~stopped /\ posted /\ irq_pending
    /\ posted' = FALSE
    /\ Goto("wait")
    /\ UNCHANGED <<ringVars, irq_masked, irq_pending, stat>>

\* ... or the wait has failed: _handle_input() returns at once, which leaves run()
\* without work.
DispatchError ==
    /\ IoErrors
    /\ hpc = "run" /\ ~stopped /\ posted
    /\ posted' = FALSE
    /\ Goto("done")
    /\ UNCHANGED <<ringVars, irq_masked, irq_pending, stat>>

\* run() returns when the io_service has been stopped, before it or meanwhile.
RunReturns ==
    /\ hpc = "run" /\ stopped
    /\ Goto("done")
    /\ UNCHANGED <<ringVars, irq_masked, irq_pending, posted, stat>>

\* clear_interrupt(): read the descriptor, ...
wait_for_interrupt ==
    /\ hpc = "wait" /\ irq_pending
    /\ irq_pending' = FALSE
    /\ Goto("dmasr")
    /\ UNCHANGED <<ringVars, irq_masked, posted, stat>>

\* ... the status register ...
ReadDmasr ==
    /\ hpc = "dmasr"
    /\ stat' = [ioc_irq |-> dmasr.ioc_irq, err_irq |-> dmasr.err_irq]
    /\ Goto("w1c")
    /\ UNCHANGED <<ringVars, irq_masked, irq_pending, posted>>

AfterCheck == IF stat.ioc_irq THEN "drain" ELSE "arm"

\* ... and clear the bits that were set.
ClearDmasr ==
    /\ hpc = "w1c"
    /\ write_dmasr(stat)
    /\ UNCHANGED <<dmacr, curdesc, fetched, status, nxtdesc, mem, stream, memVars>>
    /\ irq_masked' = IF backend = "xdma" /\ ~IrqLine' THEN FALSE ELSE irq_masked
    /\ Goto(IF stat.err_irq THEN "check" ELSE AfterCheck)
    /\ UNCHANGED <<irq_pending, posted, stat>>

\* An error interrupt and an error: throw out of run().
CheckErrors ==
    /\ hpc = "check"
    /\ Goto(IF check_for_errors THEN "dead" ELSE AfterCheck)
    /\ UNCHANGED <<ringVars, irq_masked, irq_pending, posted, stat>>

\* The loop asks for a packet or for full buffers, reads them and passes them to
\* process_data(), until it gets none; then the read is started again.
Drain ==
    /\ hpc = "drain"
    /\ \/ pc = "idle" /\ (IF receive_packets THEN get_next_packet ELSE get_full_buffers)
       \/ result # <<>> /\ read_buffers
       \/ CallStep
    /\ UNCHANGED handlerVars

\* Where the loop goes when data have been processed: around again.
AfterData_Once == "arm"  \* mutant: one packet for each interrupt
AfterData == "drain"

\* process_data(): the data leave the model.
process_data ==
    /\ hpc = "drain" /\ pc = "ready"
    /\ CallDone
    /\ Goto(AfterData)
    /\ UNCHANGED <<irq_masked, irq_pending, posted, stat>>

DrainEnds ==
    /\ hpc = "drain" /\ pc = "got" /\ result = <<>>
    /\ CallDone
    /\ Goto("arm")
    /\ UNCHANGED <<irq_masked, irq_pending, posted, stat>>

\* A descriptor without bytes: the exception leaves run().
DrainThrows ==
    /\ hpc = "drain" /\ pc = "threw"
    /\ CallDone
    /\ Goto("dead")
    /\ UNCHANGED <<irq_masked, irq_pending, posted, stat>>

IoThread ==
    \/ arm_interrupt \/ async_read_some
    \/ Dispatch \/ RunReturns
    \/ wait_for_interrupt \/ ReadDmasr \/ ClearDmasr \/ CheckErrors
    \/ Drain \/ process_data \/ DrainEnds \/ DrainThrows

Hardware == Engine /\ UNCHANGED <<memVars, handlerVars>>

Next ==
    \/ \E nr \in NrPkts : Setup(nr)
    \/ stop
    \/ DeliverIrq
    \/ IoThread
    \/ DispatchError
    \/ Hardware

Spec == Init /\ [][Next]_vars

\* The I/O thread is scheduled and the kernel delivers interrupts; nothing is
\* assumed of the stream, of stop() or of failures.
FairSpec == Spec /\ WF_vars(IoThread) /\ WF_vars(DeliverIrq)

-----------------------------------------------------------------------------
\* While the I/O thread waits for the descriptor and nothing announces an interrupt,
\* a completed end of packet is announced by the channel's interrupt line, and that
\* line will be delivered: clearing the interrupt before draining and arming it
\* afterwards leaves no moment at which a packet arrives unannounced.
NoMissedPacket ==
    hpc = "run" /\ ~irq_pending /\ started /\ dmasr.errs = {}
      /\ (\E d \in Ring : status[d].cmplt /\ status[d].rxeof)
    => IrqLine /\ ~irq_masked

\* Every completed end of packet is eventually read and released, unless reception
\* is stopped or fails.
EventuallyRead ==
    \A d \in Descs :
        (started /\ d \in Ring /\ status[d].cmplt /\ status[d].rxeof)
            ~> (~status[d].cmplt \/ dmasr.errs # {} \/ stopped \/ Ended)

\* With the UIO back end a DMA error ends the I/O thread, unless it is stopped
\* before.  (An XDMA event is lost if the error is raised between the read of the
\* status register and the write that clears it: the line does not fall.)
ErrorEndsThread == (backend = "axi" /\ dmasr.errs # {}) ~> (stopped \/ Ended)

\* Once the stream pauses for good, stop() makes operator()() return.
StopsWhenQuiet ==
    (<>[][stream' = stream]_stream) => (stopped ~> Ended)

\* The thread as the rest of the library sees it, and as DataHandlerSync composes it with
\* the queue: no handler begins after stop(), none is cut short by it, buffers are
\* released only inside a handler, and exceptions come only from there.
Phase ==
    CASE hpc \in {"arm", "post", "run"} -> "wait"
      [] hpc = "done"                   -> "ended"
      [] hpc = "dead"                   -> "dead"
      [] OTHER                          -> "handle"

Thread == INSTANCE Reception WITH phase <- Phase, got <- last_read
IsReception == Thread!Spec
=============================================================================
