--------------------------- MODULE DataHandlerSync ---------------------------
(***************************************************************************)
(* The synchronous data handler (src/src/DataHandlerSync.cpp): an I/O      *)
(* thread receives and pushes into a queue, readers pop from it, and the   *)
(* owner starts, stops and destroys the handler.  The application is a C++ *)
(* program, or a Python program that uses DataHandlerPython.               *)
(*                                                                         *)
(* The queue is ConcurrentQueue, step by step: the I/O thread is its one   *)
(* producer, the owner's stop() calls its abort().  The reception is       *)
(* DataHandlerAbstract reduced to what the queue sees of it: an event      *)
(* starts the drain loop, which pushes until the ring is empty.            *)
(*                                                                         *)
(* Python threads run one at a time, under the interpreter lock.  None of  *)
(* the methods bound in pyudmaio/src/PythonBinding.cpp releases it, so it  *)
(* is held from the call to the return, the time asleep in pop() and in    *)
(* join() included: its holder is the thread that is inside a call.  The   *)
(* I/O thread does not need it.                                            *)
(*                                                                         *)
(* An exception that leaves the I/O thread ends the process (terminate).   *)
(***************************************************************************)
EXTENDS Naturals, Sequences

CONSTANTS Readers, Io, Owner,
          MaxElems, NumItems, Timeouts, SpuriousWakeups, NoThread, Pending, Empty,
          MaxPending  \* blocks the ring holds

ASSUME SyncAssumption ==
    /\ MaxElems \in Nat /\ NumItems \in Nat \ {0} /\ MaxPending \in Nat
    /\ Timeouts \subseteq BOOLEAN /\ SpuriousWakeups \in BOOLEAN
    /\ Io \notin Readers /\ Owner \notin Readers /\ Io # Owner
    /\ NoThread \notin Readers \cup {Io, Owner}
    /\ Pending \notin 0 .. NumItems - 1 /\ Empty \notin 0 .. NumItems - 1
    /\ Pending # Empty

VARIABLES queue, mutex, waiters, aborted, pc, timed, expired, ret, next, gave_up,
          life,     \* of the handler: alive, join (destructor waits), gone, terminated
          python,   \* the application is a Python program
          io,       \* I/O thread: none, read (in run()), handle and drain (in the
                    \* handler, before and in its loop), ended, dead (by an exception);
                    \* polled: the channel is started, but no thread
          failed,   \* the channel has halted with an error
          stopped,  \* the io_service has been stopped
          pending,  \* blocks complete in the ring
          taken     \* blocks taken out of it, modulo NumItems (history)

queueVars == <<queue, mutex, waiters, aborted, pc, timed, expired, ret, next, gave_up>>
ownVars   == <<life, python, io, failed, stopped, pending, taken>>
vars      == <<queueVars, ownVars>>

Q == INSTANCE ConcurrentQueue
       WITH Consumers <- Readers, Producers <- {Io}, Stoppers <- {Owner}

\* Every variable is in its range, and the queue's locking discipline holds.
TypeOK ==
    /\ Q!TypeOK
    /\ life \in {"alive", "join", "gone", "terminated"}
    /\ io \in {"none", "polled", "read", "handle", "drain", "ended", "dead"}
    /\ {python, failed, stopped} \subseteq BOOLEAN
    /\ pending \in 0 .. MaxPending
    /\ taken \in 0 .. NumItems - 1

Init ==
    /\ Q!Init
    /\ python \in BOOLEAN
    /\ life = "alive" /\ io = "none" /\ failed = FALSE /\ stopped = FALSE
    /\ pending = 0 /\ taken = 0

\* Whether a thread of the application may begin a call.
MayCall_Released == TRUE  \* mutant: the bindings release the interpreter lock
MayCall == python => \A t \in Readers \cup {Owner} : pc[t] = "idle"

\* No I/O thread was started.
NoIoThread == io \in {"none", "polled"}

-----------------------------------------------------------------------------
(* The owner *)

\* operator()(): the new thread is assigned to _ioThread; an old one there, which has
\* not been joined, makes that terminate.  A C++ application calls it once, when it has
\* set up the ring and the channel, and perhaps again after stop().
Run ==
    /\ ~python /\ life = "alive" /\ pc[Owner] = "idle"
    /\ \/ io = "none" /\ io' = "read" /\ UNCHANGED life
       \/ io # "none" /\ aborted /\ life' = "terminated" /\ UNCHANGED io
    /\ UNCHANGED <<queueVars, python, failed, stopped, pending, taken>>

\* DataHandlerPython::start(): at first, to recover from an error of the channel, and
\* perhaps again after stop().  It sets up the ring and starts the channel, and then
\* calls operator()(), unless init_only.
Start(init_only) ==
    /\ python /\ life = "alive" /\ MayCall
    /\ \/ /\ io = "none" \/ (io = "polled" /\ failed)
          /\ io' = IF init_only THEN "polled" ELSE "read"
          /\ failed' = FALSE /\ pending' = 0
          /\ UNCHANGED life
       \/ /\ ~NoIoThread /\ aborted /\ ~init_only
          /\ life' = "terminated"
          /\ UNCHANGED <<io, failed, pending>>
    /\ UNCHANGED <<queueVars, python, stopped, taken>>

\* stop(): abort the queue ...
stop ==
    /\ life = "alive" /\ MayCall
    /\ Q!abort(Owner)
    /\ UNCHANGED ownVars

StopNotify ==
    /\ Q!NotifyOne(Owner)
    /\ UNCHANGED ownVars

\* ... then stop the io_service, and return.
StopService_Not ==  \* mutant: DataHandlerAbstract::stop() is not called
    /\ pc[Owner] = "done"
    /\ pc' = [pc EXCEPT ![Owner] = "idle"]
    /\ UNCHANGED <<queue, mutex, waiters, aborted, timed, expired, ret, next, gave_up>>
    /\ UNCHANGED ownVars
StopService ==
    /\ pc[Owner] = "done"
    /\ stopped' = TRUE
    /\ pc' = [pc EXCEPT ![Owner] = "idle"]
    /\ UNCHANGED <<queue, mutex, waiters, aborted, timed, expired, ret, next, gave_up>>
    /\ UNCHANGED <<life, python, io, failed, pending, taken>>

\* The destructor, when nobody is in read() and the thread, if any, has been stopped.
Destroy ==
    /\ life = "alive" /\ (NoIoThread \/ aborted)
    /\ \A t \in Readers \cup {Owner} : pc[t] = "idle"
    /\ life' = "join"
    /\ UNCHANGED <<queueVars, python, io, failed, stopped, pending, taken>>

\* "if (_ioThread) join()"
Joined == NoIoThread \/ io = "ended"

JoinReturns ==
    /\ life = "join" /\ Joined
    /\ life' = "gone"
    /\ UNCHANGED <<queueVars, python, io, failed, stopped, pending, taken>>

-----------------------------------------------------------------------------
(* The I/O thread *)

\* run() calls the handler: blocks are waiting in the ring, or the channel has failed.
Dispatch ==
    /\ io = "read" /\ ~stopped
    /\ io' = "handle"
    /\ UNCHANGED <<queueVars, life, python, failed, stopped, pending, taken>>

Event == pending > 0 /\ ~failed /\ Dispatch
ErrorEvent == failed /\ Dispatch

RunReturns ==
    /\ io = "read" /\ stopped
    /\ io' = "ended"
    /\ UNCHANGED <<queueVars, life, python, failed, stopped, pending, taken>>

\* An I/O error: the handler returns and nothing is left for run() to wait for.
IoError ==
    /\ io = "read" /\ ~stopped
    /\ io' = "ended"
    /\ UNCHANGED <<queueVars, life, python, failed, stopped, pending, taken>>

\* An exception goes through run() and out of the thread.
Throw ==
    /\ io' = "dead" /\ life' = "terminated"
    /\ UNCHANGED <<python, failed, stopped, pending, taken>>

\* The handler looks for errors first ...
CheckErrors ==
    /\ io = "handle"
    /\ \/ failed /\ Throw
       \/ /\ ~failed /\ io' = "drain"
          /\ UNCHANGED <<life, python, failed, stopped, pending, taken>>
    /\ UNCHANGED queueVars

\* ... then drains the ring: process_data() pushes a block, ...
process_data ==
    /\ io = "drain" /\ pc[Io] = "idle" /\ pending > 0
    /\ pending' = pending - 1
    /\ taken' = (taken + 1) % NumItems
    /\ Q!PushCall(Io)
    /\ UNCHANGED <<life, python, io, failed, stopped>>

Push ==
    /\ Q!Lock(Io) \/ Q!PushItem(Io) \/ Q!NotifyOne(Io)
    /\ UNCHANGED ownVars

\* ... unless the queue is full: nothing catches the exception.
PushFails_Caught ==  \* mutant: the exception is caught, the block is dropped
    /\ Q!PushThrow(Io)
    /\ UNCHANGED ownVars
PushFails ==
    /\ Q!PushThrow(Io)
    /\ Throw

\* A descriptor without bytes.
DrainThrows ==
    /\ io = "drain" /\ pc[Io] = "idle"
    /\ Throw
    /\ UNCHANGED queueVars

\* The ring is empty: the read is started again.
DrainEnds_Once ==  \* mutant: it is not, and run() has nothing left to wait for
    /\ io = "drain" /\ pc[Io] = "idle" /\ pending = 0
    /\ io' = "ended"
    /\ UNCHANGED <<queueVars, life, python, failed, stopped, pending, taken>>
DrainEnds ==
    /\ io = "drain" /\ pc[Io] = "idle" /\ pending = 0
    /\ io' = "read"
    /\ UNCHANGED <<queueVars, life, python, failed, stopped, pending, taken>>

\* The engine completes a block, or halts with an error, as it does when the ring has
\* no room (hardware).  It runs on after stop().
Arrive ==
    /\ io # "none" /\ ~failed /\ pending < MaxPending
    /\ pending' = pending + 1
    /\ UNCHANGED <<queueVars, life, python, io, failed, stopped, taken>>

ChannelFails ==
    /\ io # "none" /\ ~failed
    /\ failed' = TRUE
    /\ UNCHANGED <<queueVars, life, python, io, stopped, pending, taken>>

-----------------------------------------------------------------------------
\* read(), with and without timeout.  numpy_read() throws before that when the channel
\* has an error, which changes nothing.
read(r) ==
    /\ life = "alive" /\ MayCall
    /\ ~(python /\ failed)
    /\ Q!PopCall(r)
    /\ UNCHANGED ownVars

\* numpy_read_nb(), where no I/O thread reads: some of what the ring holds is taken
\* (see DataHandlerPython).
numpy_read_nb(r) ==
    /\ python /\ life = "alive" /\ MayCall
    /\ io = "polled" /\ ~failed
    /\ pending' \in 0 .. pending - 1
    /\ UNCHANGED <<queueVars, life, python, io, failed, stopped, taken>>

ReadStep(r) ==
    /\ Q!PopStep(r) \/ Q!SpuriousWake(r)
    /\ UNCHANGED ownVars

ReadLock(r) ==
    /\ Q!Lock(r)
    /\ UNCHANGED ownVars

IoStep ==
    \/ Event \/ RunReturns \/ CheckErrors \/ process_data \/ Push \/ PushFails \/ DrainEnds

Next ==
    /\ life # "terminated"
    /\ \/ Run \/ stop \/ StopNotify \/ StopService \/ Destroy \/ JoinReturns
       \/ \E init_only \in BOOLEAN : Start(init_only)
       \/ IoStep \/ IoError \/ ErrorEvent \/ DrainThrows \/ Arrive \/ ChannelFails
       \/ \E r \in Readers : read(r) \/ numpy_read_nb(r) \/ ReadStep(r) \/ ReadLock(r)

Spec == Init /\ [][Next]_vars

Up(A) == life # "terminated" /\ A

\* Threads inside a call run on, neither the mutex nor the interpreter lock is withheld
\* from anyone, and a reader that has returned from read() calls it again.
FairSpec ==
    /\ Spec
    /\ WF_vars(Up(StopNotify \/ StopService \/ JoinReturns))
    /\ WF_vars(Up(IoStep)) /\ SF_vars(Up(Q!Lock(Io) /\ UNCHANGED ownVars))
    /\ \A r \in Readers :
          /\ SF_vars(Up(read(r)))
          /\ WF_vars(Up(Q!PopStep(r) /\ UNCHANGED ownVars))
          /\ SF_vars(Up(ReadLock(r)))

-----------------------------------------------------------------------------
\* No block is dropped on the way: what process_data() has taken from the ring is in
\* the queue or has been read, however slow the readers are, as long as the process
\* lives.
NothingDropped == life # "terminated" /\ pc[Io] = "idle" => taken = next

\* The destructor returns after stop(), unless blocks keep arriving for ever.
DestructorReturns ==
    \/ []<><<Arrive>>_vars
    \/ life = "join" ~> life \in {"gone", "terminated"}

\* Every block in the queue is read, also after stop(), as long as a reader comes back;
\* in Python only until the channel has an error, as it has when the ring fills up after
\* stop(): then read() throws, whatever the queue holds.
QueueIsRead ==
    \A i \in Q!Items :
        (queue # <<>> /\ Head(queue) = i)
            ~> (queue = <<>> \/ Head(queue) # i \/ life # "alive" \/ (python /\ failed))

\* A call that does not wait without limit returns, and with it the interpreter lock, so
\* that another Python thread can call stop(): a read() with timeout in spite of the I/O
\* thread's death, unless spurious wake-ups go on for ever.
CallsReturn ==
    \/ []<><<\E r \in Readers : Q!SpuriousWake(r)>>_vars
    \/ \A t \in Readers \cup {Owner} :
          (pc[t] # "idle" /\ (t \in Readers => timed[t]))
              ~> (pc[t] = "idle" \/ life = "terminated")

\* In Python no reader is left behind by stop(), although abort() may miss a thread that
\* is about to wait: while one is inside read(), stop() is not called.
StopLeavesNobody ==
    \A r \in Readers :
        (python /\ aborted /\ pc[r] # "idle") ~> (pc[r] = "idle" \/ life = "terminated")

\* The reduced reception keeps the promises that DataHandlerAbstract keeps.
Phase ==
    CASE NoIoThread                 -> "none"
      [] io = "read"                -> "wait"
      [] io \in {"handle", "drain"} -> "handle"
      [] OTHER                      -> io

Thread == INSTANCE Reception WITH phase <- Phase, got <- taken
IsReception == Thread!Spec
=============================================================================
