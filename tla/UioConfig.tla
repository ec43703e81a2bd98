------------------------------ MODULE UioConfig ------------------------------
(***************************************************************************)
(* How an interface gets its accessor (src/src/UioConfig.cpp, the          *)
(* constructors of src/inc/udmaio/HwAccessor.hpp): the link chosen for the *)
(* process, the look-up of a UIO device in sysfs, its files read one by    *)
(* one, the device opened and mapped, each of which may fail half way.     *)
(*                                                                         *)
(* A mapping of a device is the pair of the device and the index of the    *)
(* mapping; an address, a size or an offset read from sysfs is represented *)
(* by the mapping that it describes.                                       *)
(***************************************************************************)
EXTENDS Integers, FiniteSets

CONSTANTS Links,       \* links the process may choose: axi, xdma, x7
          Devices,     \* names of UIO devices
          Numbers,     \* numbers of /sys/class/uio/uioN and /dev/uioN
          Maps,        \* Maps[d]: indices of the mappings of device d
          Indices,     \* mapping indices a location may name after the colon
          MaxLost      \* bound: descriptors lost by failed mappings

ASSUME ConfigAssumption ==
    /\ Links \subseteq {"axi", "xdma", "x7"}
    /\ "none" \notin Devices
    /\ Numbers \subseteq Nat
    /\ Maps \in [Devices -> SUBSET Nat]
    /\ Indices \subseteq Nat
    /\ MaxLost \in Nat

Files     == {"addr", "size", "offset"}
NoIndex   == -1
NoNumber  == -1
NoMapping == <<"none", 0>>

\* What a construction asks for: a UIO device name, with or without ":index", and an
\* XDMA event file or none.
UioDeviceLocation == [name : Devices, index : Indices \cup {NoIndex}, evt : BOOLEAN]

\* /sys/class/uio: the device behind each number.
Sysfs == [Numbers -> Devices \cup {"none"}]

NoBuild == [at |-> "idle", acc |-> "none", name |-> "none", index |-> NoIndex,
            evt |-> FALSE, sysfs |-> [n \in Numbers |-> "none"], changed |-> FALSE,
            map_index |-> 0, uio_number |-> NoNumber, got |-> {},
            of |-> [f \in Files \cup {"mmap"} |-> NoMapping], dev |-> "none"]

VARIABLES
    link,    \* UioDeviceLocation::_link_cfg: none or one of Links
    hw,      \* accessor the interface holds
    fd_int,  \* whether it holds an event file of its own
    build,   \* the construction in progress
    fds,     \* number of descriptors open on device and event files
    lost     \* history: failed mappings

configVars == <<link, hw, fd_int, build, fds, lost>>

\* A construction: the step it is at, what was asked for, the devices as they are, and
\* what has been read, opened and mapped so far.
Builds == [at : {"idle", "lookup", "files", "open", "mmap", "event", "ready"},
           acc : Links \cup {"none", "mock"},
           name : Devices \cup {"none"}, index : Indices \cup {NoIndex},
           evt : BOOLEAN, sysfs : Sysfs, changed : BOOLEAN,
           map_index : Indices \cup {0}, uio_number : Numbers \cup {NoNumber},
           got : SUBSET Files,
           of : [Files \cup {"mmap"} -> (Devices \cup {"none"}) \X (Indices \cup {0})],
           dev : Devices \cup {"none"}]

ConfigTypeOK ==
    /\ link \in Links \cup {"none"}
    /\ hw \in Links \cup {"none", "mock"}
    /\ fd_int \in BOOLEAN
    /\ build \in Builds
    /\ fds \in 0 .. MaxLost + 2
    /\ lost \in 0 .. MaxLost

ConfigInit ==
    /\ link = "none" /\ hw = "none" /\ fd_int = FALSE
    /\ build = NoBuild /\ fds = 0 /\ lost = 0

-----------------------------------------------------------------------------
\* set_link_axi(), set_link_xdma(): any time, for the interfaces constructed later.
set_link(l) ==
    /\ link' = l
    /\ UNCHANGED <<hw, fd_int, build, fds, lost>>

\* An exception: the constructor of the interface is left.
Throw == build' = NoBuild

\* UioConfigUio::hw_acc() splits the name at the colon.  The index is read from a view
\* of a string that is already destroyed: what is found there may be the index, another
\* one, or no number at all, for which std::stoi() throws.
map_index(loc) == IF loc.index = NoIndex THEN {0} ELSE Indices

UioConfigUio(loc) ==
    \/ \E s \in Sysfs, i \in map_index(loc) :
          build' = [NoBuild EXCEPT !.at = "lookup", !.acc = "axi", !.name = loc.name,
                                   !.index = loc.index, !.sysfs = s, !.map_index = i]
    \/ loc.index # NoIndex /\ Throw

\* UioConfigXdma::hw_acc(): nothing to look up.
UioConfigXdma(loc) ==
    build' = [NoBuild EXCEPT !.at = "open", !.acc = link, !.evt = loc.evt]

\* UioDeviceLocation::hw_acc(), called by the constructor of an interface: an override,
\* for tests, goes first; without a link there is none.
hw_acc(loc, override) ==
    /\ hw = "none" /\ build.at = "idle"
    /\ \/ override /\ build' = [NoBuild EXCEPT !.at = "ready", !.acc = "mock"]
       \/ ~override /\ link = "none" /\ Throw
       \/ ~override /\ link = "axi" /\ UioConfigUio(loc)
       \/ ~override /\ link \in {"xdma", "x7"} /\ UioConfigXdma(loc)
    /\ UNCHANGED <<link, hw, fd_int, fds, lost>>

\* The first entry that bears the name; the directory has no order.
_get_uio_number ==
    /\ build.at = "lookup"
    /\ \/ \E n \in Numbers :
             /\ build.sysfs[n] = build.name
             /\ build' = [build EXCEPT !.at = "files", !.uio_number = n]
       \/ (\A n \in Numbers : build.sysfs[n] # build.name) /\ Throw
    /\ UNCHANGED <<link, hw, fd_int, fds, lost>>

\* _get_map_region() reads the address, then the size; _get_map_offset() the offset.
\* The compiler decides which of the two is called first.
Due == IF "addr" \in build.got /\ "size" \notin build.got
         THEN {"size"}
         ELSE {"addr", "offset"} \ build.got

\* A file of the mapping with this index, at a path made of the number of the device.
_get_uio_val(f) ==
    LET d == build.sysfs[build.uio_number]
        i == build.map_index IN
    /\ build.at = "files" /\ f \in Due
    /\ \/ /\ d \in Devices /\ i \in Maps[d]
          /\ build' = [build EXCEPT !.of[f] = <<d, i>>, !.got = @ \cup {f},
                                    !.at = IF build.got \cup {f} = Files THEN "open" ELSE @]
       \/ ~(d \in Devices /\ i \in Maps[d]) /\ Throw
    /\ UNCHANGED <<link, hw, fd_int, fds, lost>>

\* The constructor of HwAccessorMmap opens the device ...
OpenDevice ==
    /\ build.at = "open"
    /\ \/ /\ build.acc = "axi" => build.sysfs[build.uio_number] \in Devices
          /\ build' = [build EXCEPT
                !.at = "mmap",
                !.dev = IF build.acc = "axi" THEN build.sysfs[build.uio_number] ELSE @]
          /\ fds' = fds + 1
       \/ Throw /\ UNCHANGED fds
    /\ UNCHANGED <<link, hw, fd_int, lost>>

\* ... and maps the mapping, found by its index.  If that fails, no destructor knows of
\* the descriptor.
MapDevice ==
    /\ build.at = "mmap"
    /\ \/ /\ build.acc = "axi" => build.map_index \in Maps[build.dev]
          /\ build' = [build EXCEPT
                !.at = IF build.evt THEN "event" ELSE "ready",
                !.of["mmap"] = IF build.acc = "axi" THEN <<build.dev, build.map_index>> ELSE @]
          /\ UNCHANGED lost
       \/ lost < MaxLost /\ lost' = lost + 1 /\ Throw
    /\ UNCHANGED <<link, hw, fd_int, fds>>

\* Descriptors left after the destructor of HwAccessorMmap.
Unmapped_Kept(n) == n  \* mutant: the device stays open
Unmapped(n) == n - 1

\* The constructor of HwAccessorXdma opens the event file.  If that fails, the part
\* already constructed is destroyed.
OpenEvent ==
    /\ build.at = "event"
    /\ \/ build' = [build EXCEPT !.at = "ready"] /\ fds' = fds + 1
       \/ Throw /\ fds' = Unmapped(fds)
    /\ UNCHANGED <<link, hw, fd_int, lost>>

\* The constructor of the interface keeps the accessor.
UioIf ==
    /\ build.at = "ready"
    /\ hw' = build.acc
    /\ fd_int' = build.evt
    /\ build' = NoBuild
    /\ UNCHANGED <<link, fds, lost>>

\* The destructor of the interface, of its accessor and of the accessor's base.
UioIfGone ==
    /\ hw # "none"
    /\ hw' = "none" /\ fd_int' = FALSE
    /\ fds' = IF hw = "mock" THEN fds
              ELSE Unmapped(IF fd_int THEN fds - 1 ELSE fds)
    /\ UNCHANGED <<link, build, lost>>

\* Devices come and go, once while a construction looks at them.
HotPlug ==
    /\ build.acc = "axi" /\ ~build.changed
    /\ \E s \in Sysfs : build' = [build EXCEPT !.sysfs = s, !.changed = TRUE]
    /\ UNCHANGED <<link, hw, fd_int, fds, lost>>

ConfigNext ==
    \/ \E l \in Links : set_link(l)
    \/ \E loc \in UioDeviceLocation, o \in BOOLEAN : hw_acc(loc, o)
    \/ _get_uio_number
    \/ \E f \in Files : _get_uio_val(f)
    \/ OpenDevice \/ MapDevice \/ OpenEvent \/ UioIf \/ HotPlug

-----------------------------------------------------------------------------
\* A construction over several files ends whole or not at all.  What a finished UIO
\* accessor has mapped, and the address, size and offset it has read, all belong to one
\* mapping of the device that was named, the first one if no index was given, provided
\* that the devices did not change meanwhile.  And once a construction has ended,
\* however far it came, the process holds no descriptor but those of the accessor and,
\* for each failed mapping, the one that the constructor forgets.
Held == (IF hw \in {"none", "mock"} THEN 0 ELSE 1) + (IF fd_int THEN 1 ELSE 0)
BuildIsWhole ==
    /\ build.at = "ready" /\ build.acc = "axi" /\ ~build.changed =>
          /\ \A f \in Files \cup {"mmap"} : build.of[f] = <<build.name, build.map_index>>
          /\ build.index = NoIndex => build.map_index = 0
    /\ build.at = "idle" => fds = Held + lost
=============================================================================
