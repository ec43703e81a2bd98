---------------------------- MODULE BlockingFifo ----------------------------
(***************************************************************************)
(* What ConcurrentQueue promises its users, without mutex and condition    *)
(* variable: a bounded FIFO.  Every call takes effect at one instant.  A   *)
(* consumer gets the oldest element, or comes back empty-handed if it gave *)
(* a timeout, or if the queue has been aborted and holds nothing more.     *)
(***************************************************************************)
EXTENDS Naturals, Sequences

CONSTANTS Consumers, Items, MaxElems, Timeouts,
          Pending,   \* the result of a call that has not taken effect
          Empty      \* the empty T

VARIABLES fifo, aborted,
          timed,     \* per consumer: whether its call has a timeout
          ret        \* per consumer: the result of its last call

Init == /\ fifo = <<>> /\ aborted = FALSE
        /\ timed = [c \in Consumers |-> FALSE]
        /\ ret = [c \in Consumers |-> Empty]

Call(c) == /\ ret[c] # Pending
           /\ ret' = [ret EXCEPT ![c] = Pending]
           /\ \E t \in Timeouts : timed' = [timed EXCEPT ![c] = t]
           /\ UNCHANGED <<fifo, aborted>>

Take(c) == /\ ret[c] = Pending /\ fifo # <<>>
           /\ ret' = [ret EXCEPT ![c] = Head(fifo)]
           /\ fifo' = Tail(fifo)
           /\ UNCHANGED <<timed, aborted>>

GiveUp(c) == /\ ret[c] = Pending
             /\ timed[c] \/ (aborted /\ fifo = <<>>)
             /\ ret' = [ret EXCEPT ![c] = Empty]
             /\ UNCHANGED <<fifo, timed, aborted>>

Put(v) == /\ Len(fifo) < MaxElems
          /\ fifo' = Append(fifo, v)
          /\ UNCHANGED <<ret, timed, aborted>>

Abort == /\ aborted' = TRUE
         /\ UNCHANGED <<fifo, ret, timed>>

Next == \/ \E c \in Consumers : Call(c) \/ Take(c) \/ GiveUp(c)
        \/ \E v \in Items : Put(v)
        \/ Abort

Spec == Init /\ [][Next]_<<fifo, aborted, timed, ret>>
=============================================================================
