------------------------------- MODULE AxiDma -------------------------------
(***************************************************************************)
(* The S2MM channel of the AXI DMA core and the driver calls that program  *)
(* it (src/src/UioAxiDmaIf.cpp).                                           *)
(*                                                                         *)
(* The core is hardware: its scatter/gather engine is modelled from the    *)
(* register description the driver is compiled against                     *)
(* (src/inc/udmaio/rdl/AxiDma.hpp).  It walks the descriptor ring the      *)
(* driver wrote, fills the buffer of each descriptor with the next chunk   *)
(* of the incoming stream and marks the descriptor complete.  It halts     *)
(* with a scatter/gather internal error when it fetches a descriptor whose *)
(* complete bit is still set.                                              *)
(*                                                                         *)
(* A chunk is what one buffer receives.  Its bytes are abstracted to its   *)
(* place in the stream, counted modulo NumTags, and to the packet          *)
(* boundaries it carries; a byte count is zero or not zero.                *)
(***************************************************************************)
EXTENDS Integers

CONSTANTS NumDesc,   \* descriptors the descriptor memory holds (1024 in the code)
          NumTags,   \* the chunks of a stream are numbered modulo NumTags
          DescBase,  \* address of descriptor 0: its low 32 bits / DESC_ADDR_STEP
          Faults     \* deviations the hardware may show, a subset of AllFaults

\* The error bits of S2MM_DMASR.
Errors == {"dma_int_err", "dma_slv_err", "dma_dec_err",
           "sg_int_err", "sg_slv_err", "sg_dec_err"}

\* "no_sof": a packet's first buffer may lack SOF, or a later one may carry it.
\* "no_bytes": a descriptor may complete with num_stored_bytes = 0.
AllFaults == Errors \cup {"no_sof", "no_bytes"}

\* The driver writes 0x50 >> 6 to the tail pointer register.
TailDesc == 80 \div 64

ASSUME DmaAssumption ==
    /\ NumDesc \in Nat \ {0}
    /\ NumTags \in Nat \ {0, 1}
    /\ DescBase \in Nat
    /\ Faults \subseteq AllFaults

\* The "circular" tail pointer is meant to be no descriptor of the ring.
ASSUME TailAssumption == DescBase > TailDesc

Descs    == 0 .. NumDesc - 1
Tags     == 0 .. NumTags - 1
Succ(t)  == (t + 1) % NumTags
Chunks   == [tag : Tags, sof : BOOLEAN, eof : BOOLEAN]

\* What a buffer holds that this session's stream has not filled.
NoChunk  == [tag |-> NumTags, sof |-> FALSE, eof |-> FALSE]

\* S2mmDescStatus: cmplt, rxsof, rxeof and whether num_stored_bytes is 0.
Statuses == [cmplt : BOOLEAN, rxsof : BOOLEAN, rxeof : BOOLEAN, empty : BOOLEAN]

VARIABLES
    dmacr,    \* control register: rs, cyclic_bd_enable, ioc_irq_en, err_irq_en
    dmasr,    \* status register: the error bits set, ioc_irq, err_irq, idle
    curdesc,  \* descriptor the engine works on
    fetched,  \* whether the engine has fetched curdesc and owns its buffer
    status,   \* status word of every descriptor, in the shared descriptor memory
    nxtdesc,  \* chain pointer of every descriptor (as an index)
    mem,      \* chunk in the buffer of every descriptor
    stream    \* the last chunk received: its tag and whether it ended a packet

regVars == <<dmacr, dmasr, curdesc, fetched>>
dmaVars == <<regVars, status, nxtdesc, mem, stream>>

DmaTypeOK ==
    /\ dmacr \in [rs : BOOLEAN, cyclic_bd_enable : BOOLEAN,
                  ioc_irq_en : BOOLEAN, err_irq_en : BOOLEAN]
    /\ dmasr \in [errs : SUBSET Errors, ioc_irq : BOOLEAN,
                  err_irq : BOOLEAN, idle : BOOLEAN]
    /\ curdesc \in Descs
    /\ fetched \in BOOLEAN
    /\ status \in [Descs -> Statuses]
    /\ nxtdesc \in [Descs -> Descs]
    /\ mem \in [Descs -> Chunks \cup {NoChunk}]
    /\ stream \in [tag : Tags, eof : BOOLEAN]

ClearStatus  == [cmplt |-> FALSE, rxsof |-> FALSE, rxeof |-> FALSE, empty |-> TRUE]
\* What an earlier user of the descriptor memory may have left there.
StaleStatus  == [cmplt |-> TRUE, rxsof |-> TRUE, rxeof |-> TRUE, empty |-> FALSE]
ResetControl == [rs |-> FALSE, cyclic_bd_enable |-> FALSE,
                 ioc_irq_en |-> FALSE, err_irq_en |-> FALSE]
ResetState   == [errs |-> {}, ioc_irq |-> FALSE, err_irq |-> FALSE, idle |-> FALSE]

\* Power-up: the channel is halted, the descriptor memory holds anything.
DmaInit ==
    /\ dmacr = ResetControl
    /\ dmasr = ResetState
    /\ curdesc = 0
    /\ fetched = FALSE
    /\ status \in [Descs -> {ClearStatus, StaleStatus}]
    /\ nxtdesc = [d \in Descs |-> 0]
    /\ mem = [d \in Descs |-> NoChunk]
    /\ stream = [tag |-> 0, eof |-> TRUE]

-----------------------------------------------------------------------------
(* The engine (hardware) *)

\* An error stops the channel and raises the error interrupt bit.
Halt(e) ==
    /\ dmacr' = [dmacr EXCEPT !.rs = FALSE]
    /\ dmasr' = [dmasr EXCEPT !.errs = @ \cup {e}, !.err_irq = TRUE]

Running == dmacr.rs /\ ~dmasr.idle

\* The engine fetches the descriptor it is at.
FetchDesc ==
    /\ Running /\ ~fetched
    /\ ~status[curdesc].cmplt \/ dmacr.cyclic_bd_enable
    /\ fetched' = TRUE
    /\ UNCHANGED <<dmacr, dmasr, curdesc, status, nxtdesc, mem, stream>>

\* It finds the complete bit set: a stale descriptor.
FetchStale ==
    /\ Running /\ ~fetched
    /\ status[curdesc].cmplt /\ ~dmacr.cyclic_bd_enable
    /\ Halt("sg_int_err")
    /\ UNCHANGED <<curdesc, fetched, status, nxtdesc, mem, stream>>

\* A bus fault, or a descriptor the core cannot use.
BusError ==
    /\ Running
    /\ \E e \in (Faults \cap Errors) \ {"sg_int_err"} : Halt(e)
    /\ UNCHANGED <<curdesc, fetched, status, nxtdesc, mem, stream>>

\* The buffer has been filled, or the packet has ended: data first, then the
\* status word, then on to the next descriptor of the chain.  A descriptor
\* that ends a packet sets the interrupt-on-complete bit.  The engine pauses
\* behind the descriptor whose address is in the tail pointer register.
CompleteDesc ==
    \E sof, eof, empty \in BOOLEAN :
        LET chunk == [tag |-> Succ(stream.tag), sof |-> sof, eof |-> eof] IN
        /\ Running /\ fetched
        /\ sof = stream.eof \/ "no_sof" \in Faults
        /\ ~empty \/ "no_bytes" \in Faults
        /\ mem' = [mem EXCEPT ![curdesc] = chunk]
        /\ status' = [status EXCEPT ![curdesc] =
                        [cmplt |-> TRUE, rxsof |-> sof, rxeof |-> eof, empty |-> empty]]
        /\ stream' = [tag |-> chunk.tag, eof |-> eof]
        /\ dmasr' = [dmasr EXCEPT !.ioc_irq = @ \/ eof,
                                  !.idle = (DescBase + curdesc = TailDesc)]
        /\ curdesc' = nxtdesc[curdesc]
        /\ fetched' = FALSE
        /\ UNCHANGED <<dmacr, nxtdesc>>

Engine == FetchDesc \/ FetchStale \/ BusError \/ CompleteDesc

\* The interrupt output of the core.
IrqLine == \/ dmasr.ioc_irq /\ dmacr.ioc_irq_en
           \/ dmasr.err_irq /\ dmacr.err_irq_en

-----------------------------------------------------------------------------
(* UioAxiDmaIf: the driver's register accesses *)

\* start(): soft reset, current descriptor, run with both interrupts enabled
\* and cyclic mode off, tail pointer.  What arrives from here on is a new
\* stream, of which no buffer holds anything yet.
start(start_desc) ==
    /\ dmacr' = [ResetControl EXCEPT !.rs = TRUE, !.cyclic_bd_enable = FALSE,
                                     !.ioc_irq_en = TRUE, !.err_irq_en = TRUE]
    /\ dmasr' = ResetState
    /\ curdesc' = start_desc
    /\ fetched' = FALSE
    /\ mem' = [d \in Descs |-> NoChunk]
    /\ stream' = [tag |-> 0, eof |-> TRUE]

\* clear_interrupt(), second half: the bits that were read as set are written
\* back, which clears them (write one to clear).
write_dmasr_all(stat) ==  \* mutant: clears a bit that was not read as set
    dmasr' = [dmasr EXCEPT !.ioc_irq = FALSE, !.err_irq = FALSE]
write_dmasr(stat) ==
    dmasr' = [dmasr EXCEPT !.ioc_irq = @ /\ ~stat.ioc_irq,
                           !.err_irq = @ /\ ~stat.err_irq]

\* check_for_errors(): reads the status register again.
check_for_errors ==
    \/ "dma_int_err" \in dmasr.errs \/ "dma_slv_err" \in dmasr.errs
    \/ "dma_dec_err" \in dmasr.errs \/ "sg_int_err" \in dmasr.errs
    \/ "sg_slv_err" \in dmasr.errs \/ "sg_dec_err" \in dmasr.errs
=============================================================================
