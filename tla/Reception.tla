----------------------------- MODULE Reception -----------------------------
(***************************************************************************)
(* What the I/O thread of a data handler promises the rest of the library, *)
(* without interrupts, rings and queues: it waits, runs the handler and    *)
(* waits again.  Data move only inside the handler.  A stop never          *)
(* interrupts the handler, and no handler begins after it: the thread can  *)
(* then only return.  An exception comes only out of the handler.          *)
(***************************************************************************)
VARIABLES phase,    \* none (no thread), wait, handle, ended, dead (by an exception)
          stopped,  \* stop() has been called
          got       \* changes whenever data are taken

Init == phase \in {"none", "wait"} /\ stopped = FALSE

From(p, q) == phase = p /\ phase' = q

Begin    == From("none", "wait") /\ UNCHANGED <<stopped, got>>
Stop     == stopped' = TRUE /\ UNCHANGED <<phase, got>>
Dispatch == From("wait", "handle") /\ ~stopped /\ UNCHANGED <<stopped, got>>
TakeData == phase = "handle" /\ UNCHANGED <<phase, stopped>>
Finish   == From("handle", "wait") /\ UNCHANGED <<stopped, got>>
Throw    == From("handle", "dead") /\ UNCHANGED <<stopped, got>>

\* run() returns: it was stopped, or the wait failed.
Return == From("wait", "ended") /\ UNCHANGED <<stopped, got>>

Next == Begin \/ Stop \/ Dispatch \/ TakeData \/ Finish \/ Throw \/ Return

Spec == Init /\ [][Next]_<<phase, stopped, got>>
=============================================================================
