--------------------------- MODULE ConcurrentQueue ---------------------------
(***************************************************************************)
(* The blocking FIFO between the I/O thread and the readers                *)
(* (src/inc/udmaio/ConcurrentQueue.hpp): a std::queue under a mutex, with  *)
(* one condition variable and an abort flag that is written without the    *)
(* mutex.                                                                  *)
(*                                                                         *)
(* pc[t] is the place of thread t in the call it makes:                    *)
(*   idle     no call                     lock     before taking the mutex *)
(*   check    pop: at the loop condition  wait     pop: about to wait      *)
(*   waiting  pop: in the condition variable                               *)
(*   wake     pop: woken, before taking the mutex again                    *)
(*   push     push: holds the mutex       notify   before notify_one()     *)
(*   done     abort() has returned                                         *)
(* A step that runs under the mutex touches nothing that others write      *)
(* without it, but for the test of _abort, which is a step apart from the  *)
(* wait that follows it.                                                   *)
(***************************************************************************)
EXTENDS Naturals, Sequences

CONSTANTS Consumers, Producers, Stoppers,  \* threads that pop, push and abort
          MaxElems,                        \* _max_elems
          NumItems,                        \* items are numbered modulo NumItems
          Timeouts,                        \* a pop may have a timeout (TRUE) or not
          SpuriousWakeups,                 \* whether a wait may return by itself
          NoThread, Pending, Empty

Items   == 0 .. NumItems - 1
Threads == Consumers \cup Producers \cup Stoppers

ASSUME QueueAssumption ==
    /\ MaxElems \in Nat
    /\ NumItems \in Nat \ {0}
    /\ Timeouts \subseteq BOOLEAN
    /\ SpuriousWakeups \in BOOLEAN
    /\ Consumers \cap Producers = {} /\ Consumers \cap Stoppers = {}
    /\ Producers \cap Stoppers = {}
    /\ NoThread \notin Threads
    /\ Pending \notin Items /\ Empty \notin Items /\ Pending # Empty

VARIABLES
    queue,    \* _queue
    mutex,    \* the thread that holds _mutex, or NoThread
    waiters,  \* the threads waiting on _cond
    aborted,  \* _abort
    pc,       \* see above
    timed,    \* per consumer: the call has a timeout
    expired,  \* per consumer: the timeout has elapsed in the current wait
    ret,      \* per consumer: result of the call
    next,     \* the item pushed next
    gave_up   \* some pop() has reported a timeout (history)

vars == <<queue, mutex, waiters, aborted, pc, timed, expired, ret, next, gave_up>>

\* Every variable is in its range; the mutex is held by exactly the thread that is
\* between lock and unlock, and the waiters are the consumers inside the condition
\* variable: no path of pop() or push() leaves with the mutex locked.
TypeOK ==
    /\ queue \in Seq(Items)
    /\ mutex \in Threads \cup {NoThread}
    /\ waiters \subseteq Consumers
    /\ aborted \in BOOLEAN
    /\ pc \in [Threads -> {"idle", "lock", "check", "wait", "waiting", "wake",
                           "push", "notify", "done"}]
    /\ timed \in [Consumers -> BOOLEAN]
    /\ expired \in [Consumers -> BOOLEAN]
    /\ ret \in [Consumers -> Items \cup {Pending, Empty}]
    /\ next \in Items
    /\ gave_up \in BOOLEAN
    /\ \A t \in Threads : pc[t] \in {"check", "wait", "push"} <=> mutex = t
    /\ waiters = {c \in Consumers : pc[c] = "waiting"}

Init ==
    /\ queue = <<>> /\ mutex = NoThread /\ waiters = {} /\ aborted = FALSE
    /\ pc = [t \in Threads |-> "idle"]
    /\ timed = [c \in Consumers |-> FALSE]
    /\ expired = [c \in Consumers |-> FALSE]
    /\ ret = [c \in Consumers |-> Empty]
    /\ next = 0 /\ gave_up = FALSE

Goto(t, l) == pc' = [pc EXCEPT ![t] = l]

-----------------------------------------------------------------------------
(* pop *)

PopCall(c) ==
    /\ pc[c] = "idle"
    /\ \E t \in Timeouts : timed' = [timed EXCEPT ![c] = t]
    /\ ret' = [ret EXCEPT ![c] = Pending]
    /\ Goto(c, "lock")
    /\ UNCHANGED <<queue, mutex, waiters, aborted, expired, next, gave_up>>

PopLock(c) ==
    /\ pc[c] = "lock" /\ mutex = NoThread
    /\ mutex' = c
    /\ Goto(c, "check")
    /\ UNCHANGED <<queue, waiters, aborted, timed, expired, ret, next, gave_up>>

\* The queue is not empty: take the front element and unlock.
PopTake(c) ==
    /\ pc[c] = "check" /\ queue # <<>>
    /\ ret' = [ret EXCEPT ![c] = Head(queue)]
    /\ queue' = Tail(queue)
    /\ mutex' = NoThread
    /\ Goto(c, "notify")
    /\ UNCHANGED <<waiters, aborted, timed, expired, next, gave_up>>

\* It is empty and the queue has been aborted: return {}.
PopAborted(c) ==
    /\ pc[c] = "check" /\ queue = <<>> /\ aborted
    /\ ret' = [ret EXCEPT ![c] = Empty]
    /\ mutex' = NoThread
    /\ Goto(c, "idle")
    /\ UNCHANGED <<queue, waiters, aborted, timed, expired, next, gave_up>>

\* It is empty and the flag was read as false ...
PopSeesNoAbort_Untested(c) ==  \* mutant: the flag is not tested
    /\ pc[c] = "check" /\ queue = <<>>
    /\ Goto(c, "wait")
    /\ UNCHANGED <<queue, mutex, waiters, aborted, timed, expired, ret, next, gave_up>>
PopSeesNoAbort(c) ==
    /\ pc[c] = "check" /\ queue = <<>> /\ ~aborted
    /\ Goto(c, "wait")
    /\ UNCHANGED <<queue, mutex, waiters, aborted, timed, expired, ret, next, gave_up>>

\* ... so wait: the mutex is released and the thread queued in one step.
PopWait(c) ==
    /\ pc[c] = "wait"
    /\ mutex' = NoThread
    /\ waiters' = waiters \cup {c}
    /\ expired' = [expired EXCEPT ![c] = FALSE]
    /\ Goto(c, "waiting")
    /\ UNCHANGED <<queue, aborted, timed, ret, next, gave_up>>

\* "if (timeout.count())" chooses between wait_for() and wait().
HasTimeout_Never(c) == FALSE  \* mutant: always wait()
HasTimeout(c) == timed[c]

\* The timeout elapses; it is counted from the start of this wait.
Expire(c) ==
    /\ c \in waiters /\ HasTimeout(c)
    /\ waiters' = waiters \ {c}
    /\ expired' = [expired EXCEPT ![c] = TRUE]
    /\ Goto(c, "wake")
    /\ UNCHANGED <<queue, mutex, aborted, timed, ret, next, gave_up>>

SpuriousWake(c) ==
    /\ SpuriousWakeups
    /\ c \in waiters
    /\ waiters' = waiters \ {c}
    /\ Goto(c, "wake")
    /\ UNCHANGED <<queue, mutex, aborted, timed, expired, ret, next, gave_up>>

\* The wait ends with the mutex held.  Without timeout: back to the loop condition.
PopRelock(c) ==
    /\ pc[c] = "wake" /\ mutex = NoThread /\ ~expired[c]
    /\ mutex' = c
    /\ Goto(c, "check")
    /\ UNCHANGED <<queue, waiters, aborted, timed, expired, ret, next, gave_up>>

\* wait_for() reports a timeout if the time is up when it has the mutex again,
\* whatever woke it: return {}, and let the mutex go.
PopTimeout(c) ==
    /\ pc[c] = "wake" /\ mutex = NoThread /\ HasTimeout(c)
    /\ ret' = [ret EXCEPT ![c] = Empty]
    /\ gave_up' = TRUE
    /\ Goto(c, "idle")
    /\ UNCHANGED <<queue, mutex, waiters, aborted, timed, expired, next>>

-----------------------------------------------------------------------------
(* push and abort *)

PushCall(p) ==
    /\ pc[p] = "idle"
    /\ Goto(p, "lock")
    /\ UNCHANGED <<queue, mutex, waiters, aborted, timed, expired, ret, next, gave_up>>

PushLock(p) ==
    /\ pc[p] = "lock" /\ mutex = NoThread
    /\ mutex' = p
    /\ Goto(p, "push")
    /\ UNCHANGED <<queue, waiters, aborted, timed, expired, ret, next, gave_up>>

Full_Late == Len(queue) > MaxElems  \* mutant: ">" for ">="
Full == Len(queue) >= MaxElems

PushItem_Silent(p) ==  \* mutant: notify_one() is forgotten
    /\ pc[p] = "push" /\ ~Full
    /\ queue' = Append(queue, next)
    /\ next' = (next + 1) % NumItems
    /\ mutex' = NoThread
    /\ Goto(p, "idle")
    /\ UNCHANGED <<waiters, aborted, timed, expired, ret, gave_up>>
PushItem(p) ==
    /\ pc[p] = "push" /\ ~Full
    /\ queue' = Append(queue, next)
    /\ next' = (next + 1) % NumItems
    /\ mutex' = NoThread
    /\ Goto(p, "notify")
    /\ UNCHANGED <<waiters, aborted, timed, expired, ret, gave_up>>

\* The queue is full: throw.
PushThrow_Locked(p) ==  \* mutant: the exception leaves the mutex locked
    /\ pc[p] = "push" /\ Full
    /\ Goto(p, "idle")
    /\ UNCHANGED <<queue, mutex, waiters, aborted, timed, expired, ret, next, gave_up>>
PushThrow(p) ==
    /\ pc[p] = "push" /\ Full
    /\ mutex' = NoThread
    /\ Goto(p, "idle")
    /\ UNCHANGED <<queue, waiters, aborted, timed, expired, ret, next, gave_up>>

\* abort() sets the flag without the mutex ...
abort(s) ==
    /\ pc[s] = "idle"
    /\ aborted' = TRUE
    /\ Goto(s, "notify")
    /\ UNCHANGED <<queue, mutex, waiters, timed, expired, ret, next, gave_up>>

\* ... and like pop() and push() ends with notify_one(): one of the threads waiting
\* at that moment, if any, is woken.
NotifyOne(t) ==
    /\ pc[t] = "notify"
    /\ LET l == IF t \in Stoppers THEN "done" ELSE "idle" IN
       \/ waiters = {} /\ Goto(t, l) /\ UNCHANGED waiters
       \/ \E w \in waiters :
             /\ waiters' = waiters \ {w}
             /\ pc' = [pc EXCEPT ![t] = l, ![w] = "wake"]
    /\ UNCHANGED <<queue, mutex, aborted, timed, expired, ret, next, gave_up>>

-----------------------------------------------------------------------------
\* What a thread does once it is inside a call.
PopStep(c) ==
    \/ PopTake(c) \/ PopAborted(c) \/ PopSeesNoAbort(c) \/ PopWait(c) \/ Expire(c)
    \/ NotifyOne(c)

Lock(t) ==
    \/ t \in Consumers /\ (PopLock(t) \/ PopRelock(t) \/ PopTimeout(t))
    \/ t \in Producers /\ PushLock(t)

Next ==
    \/ \E c \in Consumers : PopCall(c) \/ PopStep(c) \/ SpuriousWake(c)
    \/ \E p \in Producers : PushCall(p) \/ PushItem(p) \/ PushThrow(p) \/ NotifyOne(p)
    \/ \E s \in Stoppers : abort(s) \/ NotifyOne(s)
    \/ \E t \in Consumers \cup Producers : Lock(t)

Spec == Init /\ [][Next]_vars

\* A thread inside a call runs on, and whoever asks for the mutex again and again
\* while it is free gets it; no thread is obliged to call anything.
FairSpec ==
    /\ Spec
    /\ \A c \in Consumers : WF_vars(PopStep(c)) /\ SF_vars(Lock(c))
    /\ \A p \in Producers : WF_vars(PushItem(p) \/ PushThrow(p) \/ NotifyOne(p))
                            /\ SF_vars(Lock(p))
    /\ \A s \in Stoppers : WF_vars(NotifyOne(s))

-----------------------------------------------------------------------------
\* The queue behaves as a bounded FIFO whose calls take effect at one instant: no
\* item is lost, duplicated or overtaken, push() never exceeds _max_elems, and a pop
\* without timeout comes back empty only from an aborted, empty queue.
Fifo == INSTANCE BlockingFifo WITH fifo <- queue
IsBlockingFifo == Fifo!Spec

\* A consumer inside pop() that has not fallen asleep, or a thread about to notify.
Underway(t) == \/ t \in Consumers /\ pc[t] \in {"lock", "check", "wake"}
               \/ pc[t] = "notify"

\* "Pop an element from the queue, block if none available": while an element is
\* available no consumer sleeps without limit, unless some thread is underway that
\* takes the element or wakes another consumer.
NoneSleeps == queue # <<>> /\ (\E c \in waiters : ~timed[c]) => \E t \in Threads : Underway(t)

\* The same as long as no pop() has timed out.
NoneSleepsOnItem == ~gave_up => NoneSleeps

\* A pop() that starts after abort() returns: a reader that comes back to an
\* aborted queue is not caught.
LaterPopReturns ==
    \A c \in Consumers : (aborted /\ pc[c] = "lock") ~> (ret[c] # Pending)

\* A pop() with a timeout returns, whatever the other threads do, unless it is woken in
\* vain for ever: each wait counts the timeout from its own start.
TimedPopReturns ==
    \A c \in Consumers :
        \/ []<><<PopRelock(c)>>_vars
        \/ (timed[c] /\ ret[c] = Pending) ~> (ret[c] # Pending)

\* "Abort any blocking consumers": after abort() no consumer stays in pop().
AbortReleases ==
    \A c \in Consumers : (aborted /\ ret[c] = Pending) ~> (ret[c] # Pending)
=============================================================================
