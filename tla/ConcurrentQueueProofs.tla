------------------------ MODULE ConcurrentQueueProofs ------------------------
(***************************************************************************)
(* Proofs about ConcurrentQueue, for any number of threads, any capacity   *)
(* and any number of items.                                                *)
(***************************************************************************)
EXTENDS ConcurrentQueue, TLAPS

\* The part of a pop() call before it takes effect.
InPop == {"lock", "check", "wait", "waiting", "wake"}

\* What TypeOK does not say: a consumer has a result exactly when its call has taken
\* effect, the kind of thread limits its places, and a consumer that is about to wait
\* still sees the queue as empty, because pushing needs the mutex it holds.
CallsOK ==
    /\ \A c \in Consumers : ret[c] = Pending <=> pc[c] \in InPop
    /\ \A c \in Consumers : pc[c] \notin {"push", "done"}
    /\ \A p \in Producers : pc[p] \in {"idle", "lock", "push", "notify"}
    /\ \A s \in Stoppers : pc[s] \in {"idle", "notify", "done"}
    /\ \A c \in Consumers : pc[c] = "wait" => queue = <<>>

IInv == TypeOK /\ CallsOK

USE DEF Items, Threads, InPop

\* The initial state satisfies the inductive invariant.
LEMMA InitInv == Init => IInv
<1> SUFFICES ASSUME Init PROVE IInv
  OBVIOUS
<1> USE QueueAssumption DEF Init
<1>1. CallsOK
  BY DEF CallsOK
<1>2. queue \in Seq(Items) /\ next \in Items
  OBVIOUS
<1>3. pc \in [Threads -> {"idle", "lock", "check", "wait", "waiting", "wake",
                         "push", "notify", "done"}]
  OBVIOUS
<1>4. waiters = {c \in Consumers : pc[c] = "waiting"}
  OBVIOUS
<1> QED
  BY <1>1, <1>2, <1>3, <1>4 DEF IInv, TypeOK

\* Every step preserves it.
LEMMA StepInv == IInv /\ [Next]_vars => IInv'
<1> SUFFICES ASSUME IInv, [Next]_vars PROVE IInv'
  OBVIOUS
<1> USE QueueAssumption DEF IInv, TypeOK, CallsOK, Goto
<1>1. ASSUME NEW c \in Consumers, PopCall(c) PROVE IInv'
  BY <1>1 DEF PopCall
<1>2. ASSUME NEW c \in Consumers, PopTake(c) PROVE IInv'
  BY <1>2 DEF PopTake
<1>3. ASSUME NEW c \in Consumers, PopAborted(c) PROVE IInv'
  BY <1>3 DEF PopAborted
<1>4. ASSUME NEW c \in Consumers, PopSeesNoAbort(c) PROVE IInv'
  BY <1>4 DEF PopSeesNoAbort
<1>5. ASSUME NEW c \in Consumers, PopWait(c) PROVE IInv'
  BY <1>5 DEF PopWait
<1>6. ASSUME NEW c \in Consumers, Expire(c) PROVE IInv'
  BY <1>6 DEF Expire
<1>7. ASSUME NEW c \in Consumers, SpuriousWake(c) PROVE IInv'
  BY <1>7 DEF SpuriousWake
<1>8. ASSUME NEW c \in Consumers, PopLock(c) PROVE IInv'
  BY <1>8 DEF PopLock
<1>9. ASSUME NEW c \in Consumers, PopRelock(c) PROVE IInv'
  BY <1>9 DEF PopRelock
<1>10. ASSUME NEW c \in Consumers, PopTimeout(c) PROVE IInv'
  BY <1>10 DEF PopTimeout
<1>11. ASSUME NEW p \in Producers, PushCall(p) PROVE IInv'
  BY <1>11 DEF PushCall
<1>12. ASSUME NEW p \in Producers, PushLock(p) PROVE IInv'
  BY <1>12 DEF PushLock
<1>13. ASSUME NEW p \in Producers, PushItem(p) PROVE IInv'
  BY <1>13 DEF PushItem
<1>14. ASSUME NEW p \in Producers, PushThrow(p) PROVE IInv'
  BY <1>14 DEF PushThrow
<1>15. ASSUME NEW s \in Stoppers, abort(s) PROVE IInv'
  BY <1>15 DEF abort
<1>16. ASSUME NEW t \in Threads, NotifyOne(t) PROVE IInv'
  <2> DEFINE l == IF t \in Stoppers THEN "done" ELSE "idle"
  <2>1. /\ pc[t] = "notify"
        /\ UNCHANGED <<queue, mutex, aborted, timed, expired, ret, next, gave_up>>
    BY <1>16 DEF NotifyOne
  <2>2. ASSUME waiters = {}, Goto(t, l), UNCHANGED waiters PROVE IInv'
    BY <2>1, <2>2
  <2>3. ASSUME NEW w \in waiters, waiters' = waiters \ {w},
               pc' = [pc EXCEPT ![t] = l, ![w] = "wake"]
        PROVE IInv'
    <3>1. pc[w] = "waiting" /\ w \in Consumers /\ w # t
      BY <2>1, <2>3
    <3>2. /\ pc' \in [Threads -> {"idle", "lock", "check", "wait", "waiting", "wake",
                                  "push", "notify", "done"}]
          /\ pc'[t] = l /\ pc'[w] = "wake"
          /\ \A u \in Threads \ {t, w} : pc'[u] = pc[u]
      BY <2>3, <3>1
    <3>3. ASSUME NEW u \in Threads
          PROVE  (pc[u] \in {"check", "wait", "push"} <=> mutex = u)'
      <4>1. CASE u = t
        BY <2>1, <3>2, <4>1
      <4>2. CASE u = w
        BY <2>1, <3>1, <3>2, <4>2
      <4>3. CASE u \notin {t, w}
        BY <2>1, <3>2, <4>3
      <4> QED
        BY <4>1, <4>2, <4>3
    <3>4. (waiters = {c \in Consumers : pc[c] = "waiting"})'
      <4>1. ASSUME NEW c \in Consumers PROVE c \in waiters' <=> pc'[c] = "waiting"
        <5>1. CASE c = t
          BY <2>1, <2>3, <3>1, <3>2, <5>1
        <5>2. CASE c = w
          BY <2>3, <3>2, <5>2
        <5>3. CASE c \notin {t, w}
          BY <2>3, <3>2, <5>3
        <5> QED
          BY <5>1, <5>2, <5>3
      <4> QED
        BY <2>3, <4>1
    <3>5. TypeOK'
      BY <2>1, <2>3, <3>2, <3>3, <3>4
    <3>6. ASSUME NEW c \in Consumers
          PROVE  /\ (ret[c] = Pending <=> pc[c] \in InPop)'
                 /\ pc'[c] \notin {"push", "done"}
                 /\ (pc[c] = "wait" => queue = <<>>)'
      <4>1. CASE c = t
        BY <2>1, <3>2, <4>1
      <4>2. CASE c = w
        BY <2>1, <3>1, <3>2, <4>2
      <4>3. CASE c \notin {t, w}
        BY <2>1, <3>2, <4>3
      <4> QED
        BY <4>1, <4>2, <4>3
    <3>7. ASSUME NEW p \in Producers PROVE pc'[p] \in {"idle", "lock", "push", "notify"}
      <4>1. CASE p = t
        BY <3>2, <4>1
      <4>2. CASE p # t
        BY <3>1, <3>2, <4>2
      <4> QED
        BY <4>1, <4>2
    <3>8. \A s \in Stoppers : pc'[s] \in {"idle", "notify", "done"}
      BY <2>1, <3>1, <3>2
    <3>9. CallsOK'
      <4> HIDE DEF InPop
      <4> QED
        BY Zenon, <3>6, <3>7, <3>8 DEF CallsOK
    <3> QED
      BY <3>5, <3>9
  <2> QED
    BY <1>16, <2>2, <2>3 DEF NotifyOne
<1>17. CASE UNCHANGED vars
  BY <1>17 DEF vars
<1> QED
  BY <1>1, <1>2, <1>3, <1>4, <1>5, <1>6, <1>7, <1>8, <1>9, <1>10, <1>11, <1>12,
     <1>13, <1>14, <1>15, <1>16, <1>17 DEF Next, PopStep, Lock

\* pop(), push() and abort() keep the lock discipline: whichever way a call ends, the
\* mutex is free again, and nobody holds it while waiting.
THEOREM LockDiscipline == Spec => []TypeOK
<1>1. IInv => TypeOK
  BY DEF IInv
<1> QED
  BY InitInv, StepInv, <1>1, PTL DEF Spec

-----------------------------------------------------------------------------
\* ConcurrentQueue implements BlockingFifo: for any number of producers, consumers and
\* stoppers and whatever way they interleave, each pop() and push() takes effect at one
\* instant, in FIFO order, within the capacity, and an untimed pop() comes back empty
\* only from an aborted and empty queue.
THEOREM Refinement == Spec => IsBlockingFifo
<1>1. Init => Fifo!Init
  BY DEF Init, Fifo!Init
<1>2. IInv /\ [Next]_vars => [Fifo!Next]_<<queue, aborted, timed, ret>>
  <2> SUFFICES ASSUME IInv, [Next]_vars
               PROVE  Fifo!Next \/ UNCHANGED <<queue, aborted, timed, ret>>
    OBVIOUS
  <2> USE QueueAssumption DEF IInv, TypeOK, CallsOK
  <2>1. ASSUME NEW c \in Consumers, PopCall(c) PROVE Fifo!Next
    BY <2>1 DEF PopCall, Fifo!Next, Fifo!Call
  <2>2. ASSUME NEW c \in Consumers, PopTake(c) PROVE Fifo!Next
    BY <2>2 DEF PopTake, Fifo!Next, Fifo!Take
  <2>3. ASSUME NEW c \in Consumers, PopAborted(c) PROVE Fifo!Next
    BY <2>3 DEF PopAborted, Fifo!Next, Fifo!GiveUp
  <2>4. ASSUME NEW c \in Consumers, PopTimeout(c) PROVE Fifo!Next
    BY <2>4 DEF PopTimeout, HasTimeout, Fifo!Next, Fifo!GiveUp
  <2>5. ASSUME NEW p \in Producers, PushItem(p) PROVE Fifo!Next
    BY <2>5 DEF PushItem, Full, Fifo!Next, Fifo!Put
  <2>6. ASSUME NEW s \in Stoppers, abort(s) PROVE Fifo!Next
    BY <2>6 DEF abort, Fifo!Next, Fifo!Abort
  <2>7. ASSUME NEW c \in Consumers,
               PopSeesNoAbort(c) \/ PopWait(c) \/ Expire(c) \/ SpuriousWake(c)
                 \/ PopLock(c) \/ PopRelock(c)
        PROVE  UNCHANGED <<queue, aborted, timed, ret>>
    BY <2>7 DEF PopSeesNoAbort, PopWait, Expire, SpuriousWake, PopLock, PopRelock
  <2>8. ASSUME NEW p \in Producers, PushCall(p) \/ PushLock(p) \/ PushThrow(p)
        PROVE  UNCHANGED <<queue, aborted, timed, ret>>
    BY <2>8 DEF PushCall, PushLock, PushThrow
  <2>9. ASSUME NEW t \in Threads, NotifyOne(t)
        PROVE  UNCHANGED <<queue, aborted, timed, ret>>
    BY <2>9 DEF NotifyOne
  <2>10. CASE UNCHANGED vars
    BY <2>10 DEF vars
  <2> QED
    BY <2>1, <2>2, <2>3, <2>4, <2>5, <2>6, <2>7, <2>8, <2>9, <2>10
       DEF Next, PopStep, Lock
<1> QED
  BY <1>1, <1>2, InitInv, StepInv, PTL DEF Spec, IsBlockingFifo, Fifo!Spec

-----------------------------------------------------------------------------
\* Until a timed pop() gives up, no wake-up is lost: while an element is available, no
\* consumer sleeps without limit unless some thread is underway to take it or to wake
\* another one.  It is the trailing notify_one() of push() and pop(), outside the mutex,
\* that carries this.
THEOREM NoLostWakeup == Spec => []NoneSleepsOnItem
<1> DEFINE Inv == IInv /\ NoneSleepsOnItem
<1>1. Init => Inv
  BY InitInv DEF Init, NoneSleepsOnItem, NoneSleeps
<1>2. Inv /\ [Next]_vars => Inv'
  <2> SUFFICES ASSUME Inv, [Next]_vars PROVE NoneSleepsOnItem'
    BY StepInv
  <2> USE QueueAssumption
      DEF IInv, TypeOK, CallsOK, NoneSleepsOnItem, NoneSleeps, Underway, Goto
  <2>1. ASSUME NEW c \in Consumers,
               PopCall(c) \/ PopTake(c) \/ SpuriousWake(c) \/ PopLock(c) \/ PopRelock(c)
        PROVE  NoneSleepsOnItem'
    BY <2>1 DEF PopCall, PopTake, SpuriousWake, PopLock, PopRelock
  <2>2. ASSUME NEW c \in Consumers, PopAborted(c) \/ PopSeesNoAbort(c) \/ PopWait(c)
        PROVE  NoneSleepsOnItem'
    BY <2>2 DEF PopAborted, PopSeesNoAbort, PopWait
  <2>3. ASSUME NEW c \in Consumers, Expire(c) \/ PopTimeout(c) PROVE NoneSleepsOnItem'
    BY <2>3 DEF Expire, PopTimeout, HasTimeout
  <2>4. ASSUME NEW p \in Producers,
               PushCall(p) \/ PushLock(p) \/ PushItem(p) \/ PushThrow(p)
        PROVE  NoneSleepsOnItem'
    BY <2>4 DEF PushCall, PushLock, PushItem, PushThrow
  <2>5. ASSUME NEW s \in Stoppers, abort(s) PROVE NoneSleepsOnItem'
    BY <2>5 DEF abort
  <2>6. ASSUME NEW t \in Threads, NotifyOne(t) PROVE NoneSleepsOnItem'
    <3>1. CASE waiters = {} /\ UNCHANGED waiters
      BY <2>6, <3>1 DEF NotifyOne
    <3>2. CASE \E w \in waiters : w # t /\ pc'[w] = "wake"
      BY <3>2
    <3> QED
      BY <2>6, <3>1, <3>2 DEF NotifyOne
  <2>7. CASE UNCHANGED vars
    BY <2>7 DEF vars
  <2> QED
    BY <2>1, <2>2, <2>3, <2>4, <2>5, <2>6, <2>7 DEF Next, PopStep, Lock
<1>3. Inv => NoneSleepsOnItem
  OBVIOUS
<1> QED
  BY <1>1, <1>2, <1>3, PTL DEF Spec
=============================================================================
