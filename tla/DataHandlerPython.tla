-------------------------- MODULE DataHandlerPython --------------------------
(***************************************************************************)
(* Polled reception: a Python thread that calls start(init_only) and then  *)
(* numpy_read_nb() again and again (pyudmaio/src/DataHandlerPython.cpp).   *)
(* There is no I/O thread; the caller walks the descriptor ring itself,    *)
(* beside the running engine.                                              *)
(***************************************************************************)
EXTENDS UioMemSgdma, FiniteSets

CONSTANT NrPkts  \* the values of nr_pkts that start() is called with

ASSUME NrPktsAssumption == NrPkts \subseteq 1 .. NumDesc

VARIABLES
    receive_packets,  \* set by the constructor
    started           \* start() has been called

vars == <<ringVars, receive_packets, started>>

\* Every variable is in its range; the cursor and every index a call holds stay
\* inside the ring that the last start() set up.
TypeOK == /\ DmaTypeOK /\ MemTypeOK
          /\ receive_packets \in BOOLEAN
          /\ started \in BOOLEAN

Init == /\ DmaInit /\ MemInit
        /\ receive_packets \in BOOLEAN
        /\ started = FALSE

-----------------------------------------------------------------------------
\* start(nr_pkts, pkt_size, init_only = true).  It is called at first, and again
\* to recover when a read has reported a DMA error.
Start(nr) ==
    /\ pc = "idle" /\ ~dmacr.rs
    /\ init_buffers(nr)
    /\ start(0)
    /\ started' = TRUE
    /\ UNCHANGED receive_packets

\* numpy_read_nb(): it refuses to read once the channel has an error ...
ReadError ==
    /\ started /\ pc = "idle" /\ check_for_errors
    /\ pc' = "threw"
    /\ UNCHANGED <<dmaVars, nr_cyc_desc, next_readable_buf, loopVars, readVars, last_read>>

\* ... else asks for a packet, or for all full buffers, ...
ReadCall ==
    /\ started /\ pc = "idle" /\ ~check_for_errors
    /\ IF receive_packets THEN get_next_packet ELSE get_full_buffers

\* ... reads what it got, even if that is nothing, and returns it.
numpy_read_nb ==
    /\ \/ ReadError \/ ReadCall \/ read_buffers \/ CallStep
       \/ pc \in {"ready", "threw"} /\ CallDone
    /\ UNCHANGED <<receive_packets, started>>

Hardware == Engine /\ UNCHANGED <<memVars, receive_packets, started>>

Next == (\E nr \in NrPkts : Start(nr)) \/ numpy_read_nb \/ Hardware

Spec == Init /\ [][Next]_vars

\* The caller keeps polling; nothing is assumed of the stream.
FairSpec == Spec /\ WF_vars(numpy_read_nb)

-----------------------------------------------------------------------------
\* The chunks that are complete in the ring, from the reader's oldest unreleased one.
Unread ==
    IF started
    THEN [k \in 1 .. Cardinality({d \in Ring : status[d].cmplt}) |->
             mem[(ReadPtr + k - 1) % nr_cyc_desc]]
    ELSE <<>>

\* Engine and caller together are a bounded FIFO: every chunk the engine completes is
\* returned once, in stream order, none of an earlier session turns up, and the engine
\* never gets a buffer back before its chunk has been copied (Faults = {}: without SOF,
\* or without bytes, get_next_packet() and get_full_buffers() pass buffers over).
Fifo == INSTANCE BufferFifo WITH size <- nr_cyc_desc, fifo <- Unread, last <- last_read
IsBufferFifo == Fifo!Spec

\* In packet mode every non-empty array that numpy_read_nb() returns is one packet.
PacketsWhole ==
    receive_packets /\ pc = "ready" /\ bytes # <<>> => WholePacket(bytes)

\* In stream mode the order of the data survives descriptors without bytes: the
\* exception may lose buffers, but nothing behind the gap is ever returned.
StreamInOrder == ~receive_packets => InOrder

\* The engine halts on a stale descriptor only when the reader let the whole ring
\* fill up: no descriptor the reader has passed is left complete in its way.
StaleOnlyWhenFull ==
    [][("sg_int_err" \notin dmasr.errs /\ "sg_int_err" \in dmasr'.errs)
           => \A d \in Ring : status[d].cmplt]_vars

\* A caller that keeps polling gets every buffer (in packet mode: every ended
\* packet) the engine completes, unless a DMA error ends the session.
EventuallyRead ==
    \A d \in Descs :
        (started /\ d \in Ring /\ status[d].cmplt /\ (receive_packets => status[d].rxeof))
            ~> (~status[d].cmplt \/ dmasr.errs # {})

=============================================================================
