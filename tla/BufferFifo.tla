----------------------------- MODULE BufferFifo -----------------------------
(***************************************************************************)
(* What the descriptor ring promises, without descriptors, complete bits   *)
(* and cursors: a FIFO of chunks between the engine and the reader that    *)
(* holds at most as many chunks as the ring was given buffers.  The engine *)
(* stores the stream in order, the reader gets each chunk once and in that *)
(* order, and the chunk's place is free for the engine only after that.    *)
(***************************************************************************)
EXTENDS Naturals, Sequences

CONSTANTS NumDesc,  \* most buffers a ring may have
          NumTags   \* the chunks of a stream are numbered modulo NumTags

VARIABLES size,     \* buffers of the ring
          fifo,     \* chunks received and not yet released by the reader
          last      \* number of the last chunk the reader got

Chunks == [tag : 0 .. NumTags - 1, sof : BOOLEAN, eof : BOOLEAN]

Init == size \in 1 .. NumDesc /\ fifo = <<>> /\ last = 0

\* A new session: whatever the ring held is gone, the stream is counted from the start.
Restart == size' \in 1 .. NumDesc /\ fifo' = <<>> /\ last' = 0

Newest == IF fifo = <<>> THEN last ELSE fifo[Len(fifo)].tag

Receive == /\ Len(fifo) < size
           /\ \E c \in Chunks : /\ c.tag = (Newest + 1) % NumTags
                                /\ fifo' = Append(fifo, c)
           /\ UNCHANGED <<size, last>>

Release == /\ fifo # <<>>
           /\ last' = Head(fifo).tag
           /\ fifo' = Tail(fifo)
           /\ UNCHANGED size

Next == Restart \/ Receive \/ Release

Spec == Init /\ [][Next]_<<size, fifo, last>>
=============================================================================
