------------------------------ MODULE EventFile ------------------------------
(***************************************************************************)
(* Who closes the interrupt descriptor.  The accessor of a DMA interface   *)
(* opens its event file and closes it in its destructor.  A data handler   *)
(* asks for the descriptor's number and wraps it in a stream_descriptor    *)
(* (src/src/DataHandlerAbstract.cpp), which closes the number it was given *)
(* when the handler is destroyed.  Meanwhile the rest of the process opens *)
(* and closes files; the kernel gives out the lowest free number.          *)
(***************************************************************************)
EXTENDS FiniteSetsExt, Naturals

CONSTANTS NumFds,  \* descriptors are 0 .. NumFds - 1
          None

Fds == 0 .. NumFds - 1

VARIABLES files,    \* what each descriptor refers to: nothing, the event file, another
          fd_int,   \* the accessor's descriptor, while there is an accessor
          sd,       \* the descriptor in the data handler, while there is one
          other     \* the descriptor of somebody else's file

vars == <<files, fd_int, sd, other>>

Init == /\ files = [f \in Fds |-> "nothing"]
        /\ fd_int = None /\ sd = None /\ other = None

Free == {f \in Fds : files[f] = "nothing"}

\* open() and close(), by the kernel's rules; a close() of nothing fails and is ignored.
open(file, fd) == files' = [files EXCEPT ![fd] = file]
close(fd) == files' = [files EXCEPT ![fd] = "nothing"]

\* The accessor's constructor, and its destructor once no handler is left.
HwAccessor ==
    /\ fd_int = None /\ Free # {}
    /\ fd_int' = Min(Free)
    /\ open("event", fd_int')
    /\ UNCHANGED <<sd, other>>

DestroyAccessor ==
    /\ fd_int # None /\ sd = None
    /\ close(fd_int)
    /\ fd_int' = None
    /\ UNCHANGED <<sd, other>>

\* The data handler's constructor: the io_service refuses a number that is not open.
DataHandlerAbstract ==
    /\ fd_int # None /\ sd = None
    /\ files[fd_int] # "nothing"
    /\ sd' = fd_int
    /\ UNCHANGED <<files, fd_int, other>>

\* Its destructor destroys _sd.
DestroyHandler ==
    /\ sd # None
    /\ close(sd)
    /\ sd' = None
    /\ UNCHANGED <<fd_int, other>>

\* The rest of the process.
OtherOpens ==
    /\ other = None /\ Free # {}
    /\ other' = Min(Free)
    /\ open("other", other')
    /\ UNCHANGED <<fd_int, sd>>

OtherCloses ==
    /\ other # None
    /\ close(other)
    /\ other' = None
    /\ UNCHANGED <<fd_int, sd>>

Next ==
    \/ HwAccessor \/ DestroyAccessor
    \/ DataHandlerAbstract \/ DestroyHandler
    \/ OtherOpens \/ OtherCloses

Spec == Init /\ [][Next]_vars

-----------------------------------------------------------------------------
\* "Get file descriptor of interrupt event file": as long as the interface exists, the
\* number it hands out, arms and waits on is its event file, whatever handlers come and
\* go.
FdIsEventFile == fd_int # None => files[fd_int] = "event"
=============================================================================
