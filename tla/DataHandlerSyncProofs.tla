----------------------- MODULE DataHandlerSyncProofs -----------------------
(***************************************************************************)
(* Proofs about the synchronous data handler, for any number of readers,   *)
(* any capacity of the queue and any size of the ring.  What is proved of  *)
(* the queue by itself (ConcurrentQueueProofs) is used here for the queue  *)
(* between the I/O thread and the readers.                                 *)
(***************************************************************************)
EXTENDS DataHandlerSync, TLAPS

QP == INSTANCE ConcurrentQueueProofs
        WITH Consumers <- Readers, Producers <- {Io}, Stoppers <- {Owner}

\* The queue's assumption on its constants holds here.
LEMMA QueueAssumed == QP!QueueAssumption
  BY SyncAssumption DEF QP!QueueAssumption, QP!Threads, QP!Items

\* The actions on the queue that the handler's steps contain.
QueueStep ==
    \/ \E r \in Readers : Q!PopCall(r) \/ Q!PopStep(r) \/ Q!SpuriousWake(r)
    \/ Q!PushCall(Io) \/ Q!PushItem(Io) \/ Q!PushThrow(Io) \/ Q!NotifyOne(Io)
    \/ Q!abort(Owner) \/ Q!NotifyOne(Owner)
    \/ \E t \in Readers \cup {Io} : Q!Lock(t)

\* They are the queue's own.
LEMMA QueueStepIsNext == QueueStep => QP!Next
<1> SUFFICES ASSUME QueueStep PROVE QP!Next
  OBVIOUS
<1> USE DEF Q!Goto, QP!Goto, Q!HasTimeout, QP!HasTimeout, Q!Full, QP!Full
<1>1. ASSUME NEW t PROVE Q!NotifyOne(t) => QP!NotifyOne(t)
  BY DEF Q!NotifyOne, QP!NotifyOne
<1>2. ASSUME NEW r PROVE Q!PopStep(r) => QP!PopStep(r)
  BY <1>1 DEF Q!PopStep, Q!PopTake, Q!PopAborted, Q!PopSeesNoAbort, Q!PopWait, Q!Expire,
              QP!PopStep, QP!PopTake, QP!PopAborted, QP!PopSeesNoAbort, QP!PopWait,
              QP!Expire
<1>3. ASSUME NEW r PROVE /\ Q!PopCall(r) => QP!PopCall(r)
                         /\ Q!SpuriousWake(r) => QP!SpuriousWake(r)
  BY DEF Q!PopCall, QP!PopCall, Q!SpuriousWake, QP!SpuriousWake
<1>4. ASSUME NEW t PROVE Q!Lock(t) => QP!Lock(t)
  BY DEF Q!Lock, Q!PopLock, Q!PopRelock, Q!PopTimeout, Q!PushLock,
         QP!Lock, QP!PopLock, QP!PopRelock, QP!PopTimeout, QP!PushLock
<1>5. /\ Q!PushCall(Io) => QP!PushCall(Io)
      /\ Q!PushItem(Io) => QP!PushItem(Io)
      /\ Q!PushThrow(Io) => QP!PushThrow(Io)
      /\ Q!abort(Owner) => QP!abort(Owner)
  BY DEF Q!PushCall, Q!PushItem, Q!PushThrow, Q!abort,
         QP!PushCall, QP!PushItem, QP!PushThrow, QP!abort
<1> QED
  BY <1>1, <1>2, <1>3, <1>4, <1>5 DEF QueueStep, QP!Next

\* StopService also ends a call of the queue's stopper: its place goes back to idle.
LEMMA StopServiceQueue == QP!IInv /\ StopService => QP!IInv'
  BY SyncAssumption, QueueAssumed
     DEF QP!IInv, QP!TypeOK, QP!CallsOK, QP!Threads, QP!Items, QP!InPop, StopService

-----------------------------------------------------------------------------
\* The inductive invariant: the queue's own; the I/O thread is inside the queue only while
\* it drains, and has pushed what it has taken but for the block in its hands.
SyncInv ==
    /\ QP!IInv
    /\ life \in {"alive", "join", "gone", "terminated"}
    /\ io \in {"none", "polled", "read", "handle", "drain", "ended", "dead"}
    /\ python \in BOOLEAN /\ failed \in BOOLEAN /\ stopped \in BOOLEAN
    /\ pending \in 0 .. MaxPending
    /\ taken \in 0 .. NumItems - 1
    /\ io # "drain" => pc[Io] = "idle"
    /\ life # "terminated" =>
          taken = IF pc[Io] \in {"lock", "push"} THEN (next + 1) % NumItems ELSE next

\* It holds at first.
LEMMA SyncInit == Init => SyncInv
<1> SUFFICES ASSUME Init PROVE SyncInv
  OBVIOUS
<1>1. QP!Init
  BY DEF Init, Q!Init, QP!Init, Q!Threads, QP!Threads
<1>2. QP!IInv
  BY <1>1, QueueAssumed, QP!InitInv
<1>3. next = 0 /\ pc[Io] = "idle"
  BY DEF Init, Q!Init, Q!Threads
<1>4. /\ life = "alive" /\ io = "none" /\ python \in BOOLEAN
      /\ failed = FALSE /\ stopped = FALSE /\ pending = 0 /\ taken = 0
  BY DEF Init
<1>5. 0 \in 0 .. MaxPending /\ 0 \in 0 .. NumItems - 1
  BY SyncAssumption
<1> QED
  BY <1>2, <1>3, <1>4, <1>5 DEF SyncInv

\* The invariant gives the properties.
LEMMA SyncSafe == SyncInv => TypeOK /\ NothingDropped
<1> SUFFICES ASSUME SyncInv PROVE TypeOK /\ NothingDropped
  OBVIOUS
<1>1. QP!TypeOK => Q!TypeOK
  BY DEF Q!TypeOK, QP!TypeOK, Q!Threads, QP!Threads, Q!Items, QP!Items
<1>2. TypeOK
  BY <1>1 DEF TypeOK, SyncInv, QP!IInv
<1>3. NothingDropped
  BY DEF NothingDropped, SyncInv
<1> QED
  BY <1>2, <1>3
\* A step of the queue, or none, preserves the queue's invariant.
LEMMA QueueKept == QP!IInv /\ (QueueStep \/ UNCHANGED queueVars) => QP!IInv'
<1> SUFFICES ASSUME QP!IInv, QueueStep \/ UNCHANGED queueVars PROVE QP!IInv'
  OBVIOUS
<1>1. [QP!Next]_(QP!vars)
  BY QueueStepIsNext DEF queueVars, QP!vars
<1> QED
  BY <1>1, QueueAssumed, QP!StepInv

\* A step of a reader or of stop() on the queue leaves the I/O thread where it is.
LEMMA OthersStep ==
    ASSUME QP!IInv,
           \/ \E r \in Readers : \/ Q!PopCall(r) \/ Q!PopStep(r) \/ Q!SpuriousWake(r)
                                 \/ Q!Lock(r)
           \/ Q!abort(Owner) \/ Q!NotifyOne(Owner)
    PROVE  pc'[Io] = pc[Io] /\ next' = next
<1>1. /\ pc \in [Readers \cup {Io} \cup {Owner} ->
                   {"idle", "lock", "check", "wait", "waiting", "wake", "push", "notify",
                    "done"}]
      /\ waiters = {r \in Readers : pc[r] = "waiting"}
  BY DEF QP!IInv, QP!TypeOK, QP!Threads
<1>2. Io \notin Readers /\ Owner \notin Readers /\ Io # Owner
  BY SyncAssumption
<1> USE DEF Q!Goto
<1>3. ASSUME NEW t \in Readers \cup {Owner}, Q!NotifyOne(t)
      PROVE  pc'[Io] = pc[Io] /\ next' = next
  BY <1>1, <1>2, <1>3 DEF Q!NotifyOne
<1>4. ASSUME NEW r \in Readers,
             Q!PopTake(r) \/ Q!PopAborted(r) \/ Q!PopSeesNoAbort(r) \/ Q!PopWait(r)
               \/ Q!Expire(r) \/ Q!SpuriousWake(r)
      PROVE  pc'[Io] = pc[Io] /\ next' = next
  BY <1>1, <1>2, <1>4
     DEF Q!PopTake, Q!PopAborted, Q!PopSeesNoAbort, Q!PopWait, Q!Expire, Q!SpuriousWake
<1>5. ASSUME NEW r \in Readers, Q!Lock(r)
      PROVE  pc'[Io] = pc[Io] /\ next' = next
  BY <1>1, <1>2, <1>5 DEF Q!Lock, Q!PopLock, Q!PopRelock, Q!PopTimeout, Q!PushLock
<1>6. ASSUME NEW r \in Readers, Q!PopCall(r) PROVE pc'[Io] = pc[Io] /\ next' = next
  BY <1>1, <1>2, <1>6 DEF Q!PopCall
<1>7. ASSUME Q!abort(Owner) PROVE pc'[Io] = pc[Io] /\ next' = next
  BY <1>1, <1>2, <1>7 DEF Q!abort
<1> QED
  BY <1>3, <1>4, <1>5, <1>6, <1>7 DEF Q!PopStep

\* A step of push(): what it does to the thread's place and to the number of blocks
\* pushed.
LEMMA PushStep ==
    ASSUME QP!IInv,
           Q!PushCall(Io) \/ Q!Lock(Io) \/ Q!PushItem(Io) \/ Q!NotifyOne(Io)
             \/ Q!PushThrow(Io)
    PROVE  /\ pc[Io] = "idle" => Q!PushCall(Io)
           /\ Q!PushCall(Io) => pc[Io] = "idle" /\ pc'[Io] = "lock" /\ next' = next
           /\ Q!Lock(Io) => pc[Io] = "lock" /\ pc'[Io] = "push" /\ next' = next
           /\ Q!PushItem(Io) => /\ pc[Io] = "push" /\ pc'[Io] = "notify"
                                /\ next' = (next + 1) % NumItems
           /\ Q!NotifyOne(Io) => pc[Io] = "notify" /\ pc'[Io] = "idle" /\ next' = next
           /\ Q!PushThrow(Io) => pc[Io] = "push" /\ pc'[Io] = "idle"
<1>1. /\ pc \in [Readers \cup {Io} \cup {Owner} ->
                   {"idle", "lock", "check", "wait", "waiting", "wake", "push", "notify",
                    "done"}]
      /\ waiters = {r \in Readers : pc[r] = "waiting"}
  BY DEF QP!IInv, QP!TypeOK, QP!Threads
<1>2. Io \notin Readers /\ Owner \notin Readers /\ Io # Owner
  BY SyncAssumption
<1> USE DEF Q!Goto
<1>3. ASSUME Q!PushCall(Io)
      PROVE  /\ pc[Io] = "idle" /\ pc'[Io] = "lock" /\ next' = next
  BY <1>1, <1>2, <1>3 DEF Q!PushCall
<1>4. ASSUME Q!Lock(Io)
      PROVE  /\ pc[Io] = "lock" /\ pc'[Io] = "push" /\ next' = next
  BY <1>1, <1>2, <1>4 DEF Q!Lock, Q!PushLock
<1>5. ASSUME Q!PushItem(Io)
      PROVE  /\ pc[Io] = "push" /\ pc'[Io] = "notify" /\ next' = (next + 1) % NumItems
  BY <1>1, <1>2, <1>5 DEF Q!PushItem
<1>6. ASSUME Q!NotifyOne(Io)
      PROVE  /\ pc[Io] = "notify" /\ pc'[Io] = "idle" /\ next' = next
  BY <1>1, <1>2, <1>6 DEF Q!NotifyOne
<1>7. ASSUME Q!PushThrow(Io)
      PROVE  /\ pc[Io] = "push" /\ pc'[Io] = "idle"
  BY <1>1, <1>2, <1>7 DEF Q!PushThrow
<1> QED
  BY <1>3, <1>4, <1>5, <1>6, <1>7

\* A step of the handler or its owner that does not touch the queue: the thread's place
\* and the handler's life change as run() and the destructor allow.
OwnStep ==
    \/ Run \/ Destroy \/ JoinReturns \/ (\E init_only \in BOOLEAN : Start(init_only))
    \/ Dispatch \/ RunReturns \/ IoError \/ CheckErrors \/ DrainThrows \/ DrainEnds
    \/ Arrive \/ ChannelFails \/ \E r \in Readers : numpy_read_nb(r)

\* It preserves the invariant.
LEMMA OwnStepInv == SyncInv /\ OwnStep => SyncInv'
<1> SUFFICES ASSUME SyncInv, OwnStep PROVE SyncInv'
  OBVIOUS
<1>1. UNCHANGED queueVars
  BY DEF OwnStep, Run, Destroy, JoinReturns, Start, Dispatch, RunReturns, IoError,
         CheckErrors, DrainThrows, DrainEnds, Arrive, ChannelFails, numpy_read_nb
<1>2. QP!IInv' /\ UNCHANGED <<pc, next>>
  BY <1>1, QueueKept DEF SyncInv, queueVars
<1>3. UNCHANGED <<python, taken>>
  BY DEF OwnStep, Run, Destroy, JoinReturns, Start, Dispatch, RunReturns, IoError,
         CheckErrors, DrainThrows, DrainEnds, Arrive, ChannelFails, numpy_read_nb, Throw
<1>4. pending' \in 0 .. MaxPending
  <2>1. CASE Arrive
    BY <2>1, SyncAssumption DEF Arrive, SyncInv
  <2>2. CASE \E r \in Readers : numpy_read_nb(r)
    BY <2>2, SyncAssumption DEF numpy_read_nb, SyncInv
  <2>3. CASE ~Arrive /\ ~(\E r \in Readers : numpy_read_nb(r))
    <3>1. pending' = pending \/ pending' = 0
      BY <2>3 DEF OwnStep, Run, Destroy, JoinReturns, Start, Dispatch, RunReturns, IoError,
                  CheckErrors, DrainThrows, DrainEnds, ChannelFails, Throw
    <3> QED
      BY <3>1, SyncAssumption DEF SyncInv
  <2> QED
    BY <2>1, <2>2, <2>3
<1>5. failed' \in BOOLEAN /\ stopped' \in BOOLEAN
  <2>1. stopped' = stopped
    BY DEF OwnStep, Run, Destroy, JoinReturns, Start, Dispatch, RunReturns, IoError,
           CheckErrors, DrainThrows, DrainEnds, Arrive, ChannelFails, numpy_read_nb, Throw
  <2>2. failed' = failed \/ failed' = FALSE \/ failed' = TRUE
    BY DEF OwnStep, Run, Destroy, JoinReturns, Start, Dispatch, RunReturns, IoError,
           CheckErrors, DrainThrows, DrainEnds, Arrive, ChannelFails, numpy_read_nb, Throw
  <2> QED
    BY <2>1, <2>2 DEF SyncInv
<1>6. /\ life' \in {"alive", "join", "gone", "terminated"}
      /\ io' \in {"none", "polled", "read", "handle", "drain", "ended", "dead"}
      /\ life = "terminated" => life' = "terminated"
  BY DEF SyncInv, OwnStep, Run, Destroy, JoinReturns, Start, Dispatch, RunReturns, IoError,
         CheckErrors, DrainThrows, DrainEnds, Arrive, ChannelFails, numpy_read_nb, Throw
<1>7. io' # "drain" => pc[Io] = "idle"
  BY DEF SyncInv, OwnStep, Run, Destroy, JoinReturns, Start, Dispatch, RunReturns, IoError,
         CheckErrors, DrainThrows, DrainEnds, Arrive, ChannelFails, numpy_read_nb, Throw,
         NoIoThread
<1> QED
  BY <1>2, <1>3, <1>4, <1>5, <1>6, <1>7 DEF SyncInv

\* A reader's step, or stop().
LEMMA CallerStepInv ==
    ASSUME SyncInv,
           \/ stop \/ StopNotify
           \/ \E r \in Readers : read(r) \/ ReadStep(r) \/ ReadLock(r)
    PROVE  SyncInv'
<1>1. /\ \/ \E r \in Readers : \/ Q!PopCall(r) \/ Q!PopStep(r) \/ Q!SpuriousWake(r)
                               \/ Q!Lock(r)
         \/ Q!abort(Owner) \/ Q!NotifyOne(Owner)
      /\ UNCHANGED ownVars
  BY DEF stop, StopNotify, read, ReadStep, ReadLock
<1>2. QP!IInv'
  BY <1>1, QueueKept DEF SyncInv, QueueStep
<1>3. pc'[Io] = pc[Io] /\ next' = next
  BY <1>1, OthersStep DEF SyncInv
<1> QED
  BY <1>1, <1>2, <1>3 DEF SyncInv, ownVars

\* The I/O thread's steps in push().
LEMMA PushStepInv ==
    ASSUME SyncInv, life # "terminated", process_data \/ Push \/ PushFails
    PROVE  SyncInv'
<1>1. Q!PushCall(Io) \/ Q!Lock(Io) \/ Q!PushItem(Io) \/ Q!NotifyOne(Io) \/ Q!PushThrow(Io)
  BY DEF process_data, Push, PushFails
<1>2. QP!IInv' /\ QP!IInv
  BY <1>1, QueueKept DEF SyncInv, QueueStep
<1>3. /\ Q!PushCall(Io) => pc[Io] = "idle" /\ pc'[Io] = "lock" /\ next' = next
      /\ Q!Lock(Io) => pc[Io] = "lock" /\ pc'[Io] = "push" /\ next' = next
      /\ Q!PushItem(Io) => /\ pc[Io] = "push" /\ pc'[Io] = "notify"
                           /\ next' = (next + 1) % NumItems
      /\ Q!NotifyOne(Io) => pc[Io] = "notify" /\ pc'[Io] = "idle" /\ next' = next
      /\ Q!PushThrow(Io) => pc[Io] = "push" /\ pc'[Io] = "idle"
  BY <1>1, <1>2, PushStep
<1>4. io = "drain"
  BY <1>3 DEF SyncInv, process_data, Push, PushFails
<1>5. CASE process_data
  <2>1. /\ pc[Io] = "idle" /\ pc'[Io] = "lock" /\ next' = next
        /\ pending > 0 /\ pending' = pending - 1 /\ taken' = (taken + 1) % NumItems
        /\ UNCHANGED <<life, python, io, failed, stopped>>
    BY <1>3, <1>5 DEF process_data
  <2>2. taken = next /\ taken' = (next' + 1) % NumItems
    BY <2>1 DEF SyncInv
  <2>3. pending' \in 0 .. MaxPending /\ taken' \in 0 .. NumItems - 1
    BY <2>1, SyncAssumption DEF SyncInv
  <2> QED
    BY <1>2, <1>3, <1>4, <2>1, <2>2, <2>3 DEF SyncInv
<1>6. CASE Push
  <2>1. UNCHANGED ownVars
    BY <1>6 DEF Push
  <2>2. taken = IF pc'[Io] \in {"lock", "push"} THEN (next' + 1) % NumItems ELSE next'
    BY <1>3, <1>6 DEF Push, SyncInv
  <2> QED
    BY <1>2, <1>3, <1>4, <2>1, <2>2 DEF SyncInv, ownVars
<1>7. CASE PushFails
  <2>1. /\ io' = "dead" /\ life' = "terminated" /\ pc'[Io] = "idle"
        /\ UNCHANGED <<python, failed, stopped, pending, taken>>
    BY <1>3, <1>7 DEF PushFails, Throw
  <2> QED
    BY <1>2, <2>1 DEF SyncInv
<1> QED
  BY <1>5, <1>6, <1>7

\* Every step preserves the invariant.
LEMMA SyncStep == SyncInv /\ [Next]_vars => SyncInv'
<1> SUFFICES ASSUME SyncInv, [Next]_vars PROVE SyncInv'
  OBVIOUS
<1>1. CASE StopService
  <2>1. QP!IInv'
    BY <1>1, StopServiceQueue DEF SyncInv
  <2>2. /\ pc[Owner] = "done" /\ pc' = [pc EXCEPT ![Owner] = "idle"] /\ next' = next
        /\ stopped' = TRUE /\ UNCHANGED <<life, python, io, failed, pending, taken>>
    BY <1>1 DEF StopService
  <2>3. pc'[Io] = pc[Io]
    BY <2>2, SyncAssumption DEF SyncInv
  <2> QED
    BY <2>1, <2>2, <2>3 DEF SyncInv
<1>2. CASE UNCHANGED vars
  <2>1. QP!IInv' /\ UNCHANGED <<pc, next>> /\ UNCHANGED ownVars
    BY <1>2, QueueKept DEF vars, SyncInv, queueVars
  <2> QED
    BY <2>1 DEF SyncInv, ownVars
<1> QED
  BY <1>1, <1>2, OwnStepInv, CallerStepInv, PushStepInv
     DEF Next, IoStep, Event, ErrorEvent, OwnStep

-----------------------------------------------------------------------------
\* Handler and queue together: every variable stays in its range and the queue's lock
\* discipline holds, whoever calls what when.
THEOREM SyncTypes == Spec => []TypeOK
  BY SyncInit, SyncStep, SyncSafe, PTL DEF Spec

\* No block is dropped between the ring and the queue while the process lives, for every
\* capacity of the queue and however slow the readers are: a full queue ends the process.
THEOREM SyncNothingDropped == Spec => []NothingDropped
  BY SyncInit, SyncStep, SyncSafe, PTL DEF Spec

\* The reduced reception implements the same abstract thread as DataHandlerAbstract, so
\* that nothing is claimed here of the queue that rests on a thread the code lacks.
THEOREM SyncIsReception == Spec => IsReception
<1>1. Init => Thread!Init
  BY DEF Init, Thread!Init, Phase, NoIoThread
<1>2. SyncInv /\ [Next]_vars => [Thread!Next]_<<Phase, stopped, taken>>
  <2> SUFFICES ASSUME SyncInv, [Next]_vars
               PROVE  Thread!Next \/ UNCHANGED <<Phase, stopped, taken>>
    OBVIOUS
  <2> USE DEF Phase, NoIoThread
  <2>1. CASE Run \/ \E init_only \in BOOLEAN : Start(init_only)
    BY <2>1 DEF Run, Start, Thread!Next, Thread!Begin, Thread!From
  <2>2. CASE StopService
    BY <2>2 DEF StopService, Thread!Next, Thread!Stop
  <2>3. CASE Dispatch
    BY <2>3 DEF Dispatch, Thread!Next, Thread!Dispatch, Thread!From
  <2>4. CASE RunReturns \/ IoError
    BY <2>4 DEF RunReturns, IoError, Thread!Next, Thread!Return, Thread!From
  <2>5. CASE CheckErrors \/ DrainThrows
    BY <2>5 DEF CheckErrors, DrainThrows, Throw, Thread!Next, Thread!Throw, Thread!From
  <2>6. CASE process_data
    BY <2>6 DEF process_data, Thread!Next, Thread!TakeData
  <2>7. CASE DrainEnds
    BY <2>7 DEF DrainEnds, Thread!Next, Thread!Finish, Thread!From
  <2>8. CASE PushFails
    <3>1. pc[Io] = "push"
      BY <2>8 DEF PushFails, Q!PushThrow
    <3>2. io = "drain"
      BY <3>1 DEF SyncInv
    <3> QED
      BY <2>8, <3>2 DEF PushFails, Throw, Thread!Next, Thread!Throw, Thread!From
  <2>9. CASE Destroy \/ JoinReturns \/ Arrive \/ ChannelFails
             \/ \E r \in Readers : numpy_read_nb(r)
    BY <2>9 DEF Destroy, JoinReturns, Arrive, ChannelFails, numpy_read_nb
  <2>10. CASE \/ stop \/ StopNotify \/ Push \/ UNCHANGED vars
              \/ \E r \in Readers : read(r) \/ ReadStep(r) \/ ReadLock(r)
    BY <2>10 DEF stop, StopNotify, Push, vars, read, ReadStep, ReadLock, ownVars
  <2> HIDE DEF Phase, NoIoThread
  <2> QED
    BY <2>1, <2>2, <2>3, <2>4, <2>5, <2>6, <2>7, <2>8, <2>9, <2>10
       DEF Next, IoStep, Event, ErrorEvent
<1> QED
  BY <1>1, <1>2, SyncInit, SyncStep, PTL DEF Spec, IsReception, Thread!Spec
=============================================================================
