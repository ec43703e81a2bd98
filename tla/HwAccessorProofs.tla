-------------------------- MODULE HwAccessorProofs --------------------------
(***************************************************************************)
(* Proofs about UioConfig and HwAccessor: a construction ends whole or not *)
(* at all, types, the extent of an access and the reads that see one value *)
(* only, for every set of devices, number of threads and register type.    *)
(***************************************************************************)
EXTENDS HwAccessor, FiniteSetTheorems, TLAPS

(* The construction of an accessor *)

\* A construction is for an interface that does not hold an accessor yet.
Exclusive ==
    /\ build.at = "idle" => build = NoBuild
    /\ build.at # "idle" => hw = "none" /\ build.acc # "none"
    /\ build.acc = "mock" => build.at = "ready" /\ ~build.evt
    /\ build.acc = "axi" => build.at # "event" /\ ~build.evt
    /\ build.at = "event" => build.evt
    /\ hw \in {"none", "mock"} => ~fd_int

\* Descriptors of the construction in progress.
InBuild == (IF build.at \in {"mmap", "event"} \/ (build.at = "ready" /\ build.acc # "mock")
              THEN 1 ELSE 0)
           + (IF build.at = "ready" /\ build.evt THEN 1 ELSE 0)

\* Every open descriptor belongs to the accessor, to the construction in progress or to
\* a failed mapping.
Descriptors == fds = lost + Held + InBuild

\* What a construction over UIO knows at each of its steps.
Asked ==
    /\ build.name \in Devices
    /\ build.index = NoIndex => build.map_index = 0
    /\ build.at \in {"files", "open", "mmap", "ready"} => build.uio_number \in Numbers
    /\ build.at \in {"open", "mmap", "ready"} => build.got = Files
    /\ build.at \in {"mmap", "ready"} => build.dev \in Devices

\* As long as the devices stay, what it has read is of the mapping that was named.
Found ==
    /\ build.uio_number \in Numbers => build.sysfs[build.uio_number] = build.name
    /\ \A f \in build.got : build.of[f] = <<build.name, build.map_index>>
    /\ build.at \in {"mmap", "ready"} => build.dev = build.name
    /\ build.at = "ready" => build.of["mmap"] = <<build.name, build.map_index>>

Traced == build.acc = "axi" => Asked /\ (~build.changed => Found)

ConfigInv == ConfigTypeOK /\ Exclusive /\ Descriptors /\ Traced

\* The invariant is about the variables of UioConfig only.
LEMMA ConfigStutters == ConfigInv /\ UNCHANGED configVars => ConfigInv'
BY DEF ConfigInv, ConfigTypeOK, Exclusive, Descriptors, Traced, Asked, Found, InBuild, Held,
       configVars

\* No construction is of the type of one.
LEMMA NoBuildType == NoBuild \in Builds /\ NoBuild.at = "idle" /\ NoBuild.acc = "none"
                     /\ NoBuild.evt = FALSE
<1> DEFINE s == [n \in Numbers |-> "none"]
           o == [f \in Files \cup {"mmap"} |-> NoMapping]
<1>1. s \in Sysfs
  BY DEF Sysfs
<1>2. o \in [Files \cup {"mmap"} -> (Devices \cup {"none"}) \X (Indices \cup {0})]
  BY DEF NoMapping
<1> HIDE DEF s, o
<1> QED BY <1>1, <1>2 DEF NoBuild, Builds, s, o

\* Nothing has been constructed in an initial state.
LEMMA ConfigInitInv == ConfigInit => ConfigInv
<1> SUFFICES ASSUME ConfigInit PROVE ConfigInv
  OBVIOUS
<1> USE ConfigAssumption DEF ConfigInit
<1>1. ConfigTypeOK
  <2>1. link \in Links \cup {"none"} /\ hw \in Links \cup {"none", "mock"}
        /\ fd_int \in BOOLEAN /\ build \in Builds
    BY NoBuildType, Zenon
  <2>2. fds \in 0 .. MaxLost + 2 /\ lost \in 0 .. MaxLost
    OBVIOUS
  <2> QED BY <2>1, <2>2 DEF ConfigTypeOK
<1>2. Exclusive /\ Traced
  BY NoBuildType DEF Exclusive, Traced
<1>3. Descriptors
  BY NoBuildType DEF Descriptors, Held, InBuild
<1> QED BY <1>1, <1>2, <1>3 DEF ConfigInv

\* An exception that leaves no descriptor but those counted as lost.
LEMMA Thrown ==
    ASSUME ConfigInv, Throw, UNCHANGED <<link, hw, fd_int>>,
           lost' \in 0 .. MaxLost, fds' = lost', hw = "none"
    PROVE  ConfigInv'
<1> USE ConfigAssumption DEF ConfigInv, Throw
<1>1. Held' = 0
  BY DEF Held, Exclusive
<1>2. ConfigTypeOK'
  <2>1. link' \in Links \cup {"none"} /\ hw' \in Links \cup {"none", "mock"}
        /\ fd_int' \in BOOLEAN /\ build' \in Builds
    BY NoBuildType, Zenon DEF ConfigTypeOK
  <2> HIDE DEF ConfigInv, Throw
  <2>2. lost' \in 0 .. MaxLost /\ MaxLost \in Nat
    OBVIOUS
  <2>3. fds' \in 0 .. MaxLost + 2
    BY <2>2
  <2> QED BY <2>1, <2>2, <2>3 DEF ConfigTypeOK
<1>3. Exclusive' /\ Traced'
  BY NoBuildType DEF Exclusive, Traced
<1>4. Descriptors'
  <2>1. InBuild' = 0
    BY NoBuildType DEF InBuild
  <2>2. \A n \in Nat : n = n + 0 + 0
    OBVIOUS
  <2>3. lost' \in Nat
    OBVIOUS
  <2> QED BY <1>1, <2>1, <2>2, <2>3, Zenon DEF Descriptors
<1> QED BY <1>2, <1>3, <1>4

\* A step of a construction that opens or maps one thing more, or nothing.
LEMMA Built ==
    ASSUME ConfigInv, UNCHANGED <<link, hw, fd_int, lost>>, hw = "none",
           build' \in Builds, build'.at # "idle",
           fds' = lost + InBuild',
           build'.acc # "none",
           build'.acc = "mock" => build'.at = "ready" /\ ~build'.evt,
           build'.acc = "axi" => build'.at # "event" /\ ~build'.evt,
           build'.at = "event" => build'.evt,
           Traced'
    PROVE  ConfigInv'
<1> USE ConfigAssumption DEF ConfigInv
<1>1. Held' = 0 /\ InBuild' \in 0 .. 2
  BY DEF Held, Exclusive, InBuild
<1>2. ConfigTypeOK'
  <2>1. link' \in Links \cup {"none"} /\ hw' \in Links \cup {"none", "mock"}
        /\ fd_int' \in BOOLEAN /\ build' \in Builds
    BY Zenon DEF ConfigTypeOK
  <2>2. lost \in 0 .. MaxLost
    BY Zenon DEF ConfigTypeOK
  <2> HIDE DEF ConfigInv
  <2>3. lost' \in 0 .. MaxLost
    BY <2>2, Zenon
  <2> DEFINE n == InBuild'
  <2>4. n \in 0 .. 2 /\ fds' = lost + n /\ MaxLost \in Nat
    BY <1>1, Zenon
  <2> HIDE DEF n
  <2>5. fds' \in 0 .. MaxLost + 2
    BY <2>2, <2>4
  <2> QED BY <2>1, <2>3, <2>5 DEF ConfigTypeOK
<1>3. Exclusive'
  BY DEF Exclusive
<1>4. Descriptors'
  BY <1>1 DEF Descriptors, ConfigTypeOK
<1> QED BY <1>2, <1>3, <1>4
\* A construction begins: the name is split, or there is nothing to look up.
LEMMA BeginBuild ==
    ASSUME ConfigInv, NEW loc \in UioDeviceLocation, NEW o \in BOOLEAN, hw_acc(loc, o)
    PROVE  ConfigInv'
<1> USE ConfigAssumption
<1>0. /\ hw = "none" /\ UNCHANGED <<link, hw, fd_int, fds, lost>>
      /\ lost \in 0 .. MaxLost /\ fds = lost
  <2>1. Held = 0 /\ InBuild = 0 /\ lost \in 0 .. MaxLost /\ hw = "none"
        /\ UNCHANGED <<link, hw, fd_int, fds, lost>>
    BY NoBuildType DEF hw_acc, ConfigInv, Exclusive, Held, InBuild, ConfigTypeOK
  <2>2. \A n \in Nat : n = n + 0 + 0
    OBVIOUS
  <2>3. lost \in Nat
    BY <2>1
  <2> QED BY <2>1, <2>2, <2>3, Zenon DEF ConfigInv, Descriptors
<1>1. CASE Throw
  BY <1>0, <1>1, Thrown
<1>2. CASE build' = [NoBuild EXCEPT !.at = "ready", !.acc = "mock"]
  <2>1. /\ build' \in Builds /\ build'.at = "ready" /\ build'.acc = "mock"
        /\ build'.evt = FALSE
    BY <1>2, NoBuildType DEF Builds
  <2>2. InBuild' = 0 /\ Traced'
    BY <2>1 DEF InBuild, Traced
  <2>3. fds' = lost + InBuild'
    BY <1>0, <2>2
  <2> QED BY <1>0, <2>1, <2>2, <2>3, Built
<1>3. CASE link = "axi" /\ UioConfigUio(loc) /\ ~Throw
  <2>1. PICK s \in Sysfs, i \in map_index(loc) :
           build' = [NoBuild EXCEPT !.at = "lookup", !.acc = "axi", !.name = loc.name,
                                    !.index = loc.index, !.sysfs = s, !.map_index = i]
    BY <1>3 DEF UioConfigUio
  <2>2. i \in Indices \cup {0} /\ (loc.index = NoIndex => i = 0)
    BY DEF map_index
  <2>3. "axi" \in Links
    BY <1>3 DEF ConfigInv, ConfigTypeOK
  <2>4. loc.name \in Devices /\ loc.index \in Indices \cup {NoIndex}
    BY DEF UioDeviceLocation
  <2>5. /\ build' \in Builds
        /\ build'.at = "lookup" /\ build'.acc = "axi" /\ build'.evt = FALSE
        /\ build'.name = loc.name /\ build'.index = loc.index /\ build'.map_index = i
        /\ build'.got = {} /\ build'.uio_number = NoNumber
    BY <2>1, <2>2, <2>3, <2>4, NoBuildType DEF Builds, NoBuild
  <2>6. InBuild' = 0
    BY <2>5 DEF InBuild
  <2>7. Asked' /\ Found'
    BY <2>2, <2>4, <2>5 DEF Asked, Found, NoNumber
  <2>8. fds' = lost + InBuild' /\ Traced'
    BY <1>0, <2>6, <2>7 DEF Traced
  <2> QED BY <1>0, <2>5, <2>8, Built
<1>4. CASE link \in {"xdma", "x7"} /\ UioConfigXdma(loc)
  <2>1. link \in Links /\ loc.evt \in BOOLEAN
    BY <1>4 DEF ConfigInv, ConfigTypeOK, UioDeviceLocation
  <2>2. /\ build' \in Builds
        /\ build'.at = "open" /\ build'.acc \in {"xdma", "x7"}
    BY <1>4, <2>1, NoBuildType DEF UioConfigXdma, Builds
  <2>3. InBuild' = 0 /\ Traced'
    BY <2>2 DEF InBuild, Traced
  <2>4. fds' = lost + InBuild'
    BY <1>0, <2>3
  <2> QED BY <1>0, <2>2, <2>3, <2>4, Built
<1> QED BY <1>1, <1>2, <1>3, <1>4 DEF hw_acc

\* What a construction in progress has of the process.
LEMMA InProgress ==
    ASSUME ConfigInv, build.at # "idle"
    PROVE  /\ hw = "none" /\ build \in Builds /\ build.acc # "none"
           /\ lost \in 0 .. MaxLost /\ InBuild \in 0 .. 2 /\ fds = lost + InBuild
<1>1. hw = "none" /\ build \in Builds /\ lost \in 0 .. MaxLost /\ build.acc # "none"
  BY DEF ConfigInv, Exclusive, ConfigTypeOK
<1>2. Held = 0
  BY DEF ConfigInv, Exclusive, Held
<1>3. InBuild \in 0 .. 2
  BY DEF InBuild
<1>4. \A n \in Nat, m \in 0 .. 2 : n + 0 + m = n + m
  OBVIOUS
<1>5. lost \in Nat
  BY <1>1, ConfigAssumption
<1> QED BY <1>1, <1>2, <1>3, <1>4, <1>5, Zenon DEF ConfigInv, Descriptors

\* The look-up of the device.
LEMMA LookedUp == ASSUME ConfigInv, _get_uio_number PROVE ConfigInv'
<1> USE ConfigAssumption
<1>0. build.at = "lookup" /\ UNCHANGED <<link, hw, fd_int, fds, lost>>
  BY DEF _get_uio_number
<1>1. /\ hw = "none" /\ build \in Builds /\ lost \in 0 .. MaxLost
      /\ fds = lost + InBuild /\ InBuild = 0
  BY <1>0, InProgress DEF InBuild
<1>2. CASE Throw
  <2>1. fds' = lost'
    BY <1>0, <1>1
  <2> QED BY <1>0, <1>1, <1>2, <2>1, Thrown
<1>3. CASE \E n \in Numbers :
             /\ build.sysfs[n] = build.name
             /\ build' = [build EXCEPT !.at = "files", !.uio_number = n]
  <2>1. PICK n \in Numbers :
             /\ build.sysfs[n] = build.name
             /\ build' = [build EXCEPT !.at = "files", !.uio_number = n]
    BY <1>3
  <2>2. /\ build' \in Builds
        /\ build'.at = "files" /\ build'.uio_number = n
        /\ build'.acc = build.acc /\ build'.evt = build.evt /\ build'.name = build.name
        /\ build'.index = build.index /\ build'.map_index = build.map_index
        /\ build'.sysfs = build.sysfs /\ build'.changed = build.changed
        /\ build'.got = build.got /\ build'.of = build.of
    BY <1>1, <2>1 DEF Builds
  <2>3. InBuild' = 0 /\ fds' = lost + InBuild'
    BY <1>0, <1>1, <2>2 DEF InBuild
  <2>4. Traced'
    BY <1>0, <2>1, <2>2 DEF ConfigInv, Traced, Asked, Found
  <2>5. build'.acc # "none" /\ build'.acc # "mock" /\ (build'.acc = "axi" => ~build'.evt)
    BY <1>0, <2>2 DEF ConfigInv, Exclusive
  <2> QED BY <1>0, <1>1, <2>2, <2>3, <2>4, <2>5, Built
<1> QED BY <1>2, <1>3 DEF _get_uio_number
\* One file of the mapping is read.
LEMMA FileRead == ASSUME ConfigInv, NEW f \in Files, _get_uio_val(f) PROVE ConfigInv'
<1> USE ConfigAssumption
<1> DEFINE d == build.sysfs[build.uio_number]
           i == build.map_index
<1>0. build.at = "files" /\ UNCHANGED <<link, hw, fd_int, fds, lost>> /\ f \in Due
  BY DEF _get_uio_val
<1>1. /\ hw = "none" /\ build \in Builds /\ lost \in 0 .. MaxLost
      /\ fds = lost + InBuild /\ InBuild = 0
  BY <1>0, InProgress DEF InBuild
<1>2. CASE Throw
  <2>1. fds' = lost'
    BY <1>0, <1>1
  <2> QED BY <1>0, <1>1, <1>2, <2>1, Thrown
<1>3. CASE /\ d \in Devices
           /\ build' = [build EXCEPT !.of[f] = <<d, i>>, !.got = @ \cup {f},
                           !.at = IF build.got \cup {f} = Files THEN "open" ELSE @]
  <2>1. i \in Indices \cup {0} /\ f \in Files \cup {"mmap"}
    BY <1>1 DEF Builds
  <2> HIDE DEF d, i
  <2>2. /\ build'.at = IF build.got \cup {f} = Files THEN "open" ELSE "files"
        /\ build'.of = [build.of EXCEPT ![f] = <<d, i>>]
        /\ build'.got = build.got \cup {f}
        /\ build'.acc = build.acc /\ build'.evt = build.evt /\ build'.name = build.name
        /\ build'.index = build.index /\ build'.map_index = build.map_index
        /\ build'.sysfs = build.sysfs /\ build'.changed = build.changed
        /\ build'.uio_number = build.uio_number
    BY <1>0, <1>1, <1>3 DEF Builds
  <2>3. build' \in Builds
    <3>1. <<d, i>> \in (Devices \cup {"none"}) \X (Indices \cup {0})
      BY <1>3, <2>1
    <3>2. [build.of EXCEPT ![f] = <<d, i>>]
            \in [Files \cup {"mmap"} -> (Devices \cup {"none"}) \X (Indices \cup {0})]
      <4> DEFINE q == <<d, i>>
                 P == (Devices \cup {"none"}) \X (Indices \cup {0})
      <4>1. q \in P /\ build.of \in [Files \cup {"mmap"} -> P]
        BY <1>1, <3>1 DEF Builds
      <4> HIDE DEF q, P
      <4>2. [build.of EXCEPT ![f] = q] \in [Files \cup {"mmap"} -> P]
        BY <4>1
      <4> QED BY <4>2 DEF q, P
    <3>3. build.got \cup {f} \in SUBSET Files
      BY <1>1 DEF Builds
    <3> DEFINE q == [build.of EXCEPT ![f] = <<d, i>>]
               g == build.got \cup {f}
               a == IF build.got \cup {f} = Files THEN "open" ELSE build.at
    <3>4. build' = [build EXCEPT !.of = q, !.got = g, !.at = a]
      BY <1>3, <1>1 DEF Builds
    <3>5. a \in {"open", "files"}
      BY <1>0
    <3> HIDE DEF q, g, a
    <3>6. /\ q \in [Files \cup {"mmap"} -> (Devices \cup {"none"}) \X (Indices \cup {0})]
          /\ g \in SUBSET Files
      BY <3>2, <3>3 DEF q, g
    <3> QED BY <1>1, <3>4, <3>5, <3>6 DEF Builds
  <2>4. InBuild' = 0 /\ fds' = lost + InBuild'
    BY <1>0, <1>1, <2>2 DEF InBuild
  <2>5. build.got \subseteq Files /\ DOMAIN build.of = Files \cup {"mmap"}
    BY <1>1 DEF Builds
  <2>6. Traced'
    <3> SUFFICES ASSUME build.acc = "axi" PROVE Asked' /\ (~build.changed => Found')
      BY <2>2 DEF Traced
    <3>1. Asked /\ (~build.changed => Found)
      BY DEF ConfigInv, Traced
    <3>2. Asked'
      BY <1>0, <2>2, <3>1 DEF Asked
    <3>3. ASSUME ~build.changed PROVE Found'
      <4>1. build.uio_number \in Numbers /\ d = build.name
        BY <1>0, <3>1, <3>3 DEF Asked, Found, d
      <4>2. \A h \in build'.got : build'.of[h] = <<build.name, i>>
        BY <2>1, <2>2, <2>5, <3>1, <3>3, <4>1 DEF Found, i
      <4> QED BY <1>0, <2>2, <3>1, <3>3, <4>2 DEF Found, i
    <3> QED BY <3>2, <3>3
  <2>7. build'.acc # "none" /\ build'.acc # "mock" /\ (build'.acc = "axi" => ~build'.evt)
        /\ build'.at \in {"files", "open"}
    BY <1>0, <2>2 DEF ConfigInv, Exclusive
  <2> QED BY <1>0, <1>1, <2>3, <2>4, <2>6, <2>7, Built
<1> QED BY <1>2, <1>3 DEF _get_uio_val

\* The device is opened.
LEMMA DeviceOpened == ASSUME ConfigInv, OpenDevice PROVE ConfigInv'
<1> USE ConfigAssumption
<1> DEFINE d == IF build.acc = "axi" THEN build.sysfs[build.uio_number] ELSE build.dev
<1>0. build.at = "open" /\ UNCHANGED <<link, hw, fd_int, lost>>
  BY DEF OpenDevice
<1>1. /\ hw = "none" /\ build \in Builds /\ lost \in 0 .. MaxLost
      /\ fds = lost + InBuild /\ InBuild = 0
  BY <1>0, InProgress DEF InBuild
<1>2. CASE Throw /\ UNCHANGED fds
  <2>1. fds' = lost'
    BY <1>0, <1>1, <1>2
  <2> QED BY <1>0, <1>1, <1>2, <2>1, Thrown
<1>3. CASE /\ build.acc = "axi" => build.sysfs[build.uio_number] \in Devices
           /\ build' = [build EXCEPT !.at = "mmap", !.dev = d]
           /\ fds' = fds + 1
  <2>1. d \in Devices \cup {"none"} /\ (build.acc = "axi" => d \in Devices)
    BY <1>1, <1>3 DEF Builds
  <2>a. build.acc = "axi" => d = build.sysfs[build.uio_number]
    OBVIOUS
  <2> HIDE DEF d
  <2>2. /\ build' \in Builds
        /\ build'.at = "mmap" /\ build'.dev = d
        /\ build'.of = build.of /\ build'.got = build.got
        /\ build'.acc = build.acc /\ build'.evt = build.evt /\ build'.name = build.name
        /\ build'.index = build.index /\ build'.map_index = build.map_index
        /\ build'.sysfs = build.sysfs /\ build'.changed = build.changed
        /\ build'.uio_number = build.uio_number
    BY <1>1, <1>3, <2>1 DEF Builds
  <2>3. InBuild' = 1 /\ fds' = lost + InBuild'
    BY <1>1, <1>3, <2>2 DEF InBuild
  <2>4. Traced'
    BY <1>0, <2>1, <2>a, <2>2 DEF ConfigInv, Traced, Asked, Found
  <2>5. build'.acc # "none" /\ build'.acc # "mock" /\ (build'.acc = "axi" => ~build'.evt)
    BY <1>0, <2>2 DEF ConfigInv, Exclusive
  <2> QED BY <1>0, <1>1, <2>2, <2>3, <2>4, <2>5, Built
<1> QED BY <1>0, <1>2, <1>3 DEF OpenDevice

\* The device is mapped, or the descriptor is lost.
LEMMA DeviceMapped == ASSUME ConfigInv, MapDevice PROVE ConfigInv'
<1> USE ConfigAssumption
<1> DEFINE m == IF build.acc = "axi" THEN <<build.dev, build.map_index>> ELSE build.of["mmap"]
           a == IF build.evt THEN "event" ELSE "ready"
<1>0. build.at = "mmap" /\ UNCHANGED <<link, hw, fd_int, fds>>
  BY DEF MapDevice
<1>1. /\ hw = "none" /\ build \in Builds /\ lost \in 0 .. MaxLost
      /\ fds = lost + InBuild /\ InBuild = 1
  BY <1>0, InProgress DEF InBuild
<1>2. CASE lost < MaxLost /\ lost' = lost + 1 /\ Throw
  <2>1. fds' = lost' /\ lost' \in 0 .. MaxLost
    BY <1>0, <1>1, <1>2
  <2> QED BY <1>0, <1>1, <1>2, <2>1, Thrown
<1>3. CASE /\ build' = [build EXCEPT !.at = a, !.of["mmap"] = m]
           /\ UNCHANGED lost
  <2> DEFINE P == (Devices \cup {"none"}) \X (Indices \cup {0})
             q == [build.of EXCEPT !["mmap"] = m]
  <2>1. m \in P
    BY <1>1 DEF Builds
  <2>a. build.acc = "axi" => m = <<build.dev, build.map_index>>
    OBVIOUS
  <2>b. a \in {"event", "ready"} /\ (build.evt <=> a = "event")
    BY <1>1 DEF Builds
  <2> HIDE DEF m, a
  <2>2. q \in [Files \cup {"mmap"} -> P]
    <3>1. build.of \in [Files \cup {"mmap"} -> P]
      BY <1>1 DEF Builds
    <3> HIDE DEF P
    <3> QED BY <2>1, <3>1
  <2>3. q["mmap"] = m /\ \A f \in Files : q[f] = build.of[f]
    BY <1>1 DEF Builds, Files
  <2>4. build' = [build EXCEPT !.at = a, !.of = q]
    BY <1>1, <1>3 DEF Builds
  <2> HIDE DEF q
  <2>5. /\ build' \in Builds
        /\ build'.at = a /\ build'.dev = build.dev
        /\ build'.of = q /\ build'.got = build.got
        /\ build'.acc = build.acc /\ build'.evt = build.evt /\ build'.name = build.name
        /\ build'.index = build.index /\ build'.map_index = build.map_index
        /\ build'.sysfs = build.sysfs /\ build'.changed = build.changed
        /\ build'.uio_number = build.uio_number
    BY <1>1, <2>b, <2>2, <2>4 DEF Builds
  <2>6. build'.acc # "none" /\ build'.acc # "mock" /\ (build'.acc = "axi" => ~build'.evt)
    BY <1>0, <2>5 DEF ConfigInv, Exclusive
  <2>7. InBuild' = 1
    BY <2>5, <2>6, <2>b DEF InBuild
  <2>8. fds' = lost + InBuild'
    BY <1>0, <1>1, <2>7
  <2>9. Traced'
    <3> SUFFICES ASSUME build.acc = "axi" PROVE Asked' /\ (~build.changed => Found')
      BY <2>5 DEF Traced
    <3>1. Asked /\ (~build.changed => Found)
      BY DEF ConfigInv, Traced
    <3>2. Asked'
      BY <1>0, <2>5, <3>1 DEF Asked
    <3>3. ASSUME ~build.changed PROVE Found'
      <4>1. \A h \in build.got : q[h] = <<build.name, build.map_index>>
        BY <2>3, <3>1, <3>3, <1>1 DEF Found, Builds
      <4> QED BY <1>0, <2>a, <2>3, <2>5, <3>1, <3>3, <4>1 DEF Found
    <3> QED BY <3>2, <3>3
  <2>10. /\ build'.at # "idle" /\ (build'.acc = "axi" => build'.at # "event")
         /\ build'.at = "event" => build'.evt
    BY <2>5, <2>6, <2>b
  <2> QED BY <1>0, <1>1, <1>3, <2>5, <2>6, <2>8, <2>9, <2>10, Built
<1> QED BY <1>0, <1>2, <1>3 DEF MapDevice

\* The event file is opened, or what has been constructed is destroyed.
LEMMA EventOpened == ASSUME ConfigInv, OpenEvent PROVE ConfigInv'
<1> USE ConfigAssumption
<1>0. build.at = "event" /\ UNCHANGED <<link, hw, fd_int, lost>>
  BY DEF OpenEvent
<1>1. /\ hw = "none" /\ build \in Builds /\ lost \in 0 .. MaxLost
      /\ fds = lost + InBuild /\ InBuild = 1
  BY <1>0, InProgress DEF InBuild
<1>2. CASE Throw /\ fds' = Unmapped(fds)
  <2>1. fds' = lost'
    BY <1>0, <1>1, <1>2 DEF Unmapped
  <2> QED BY <1>0, <1>1, <1>2, <2>1, Thrown
<1>3. CASE build' = [build EXCEPT !.at = "ready"] /\ fds' = fds + 1
  <2>1. /\ build' \in Builds
        /\ build'.at = "ready" /\ build'.acc = build.acc /\ build'.evt = build.evt
    BY <1>1, <1>3 DEF Builds
  <2>2. build.acc \notin {"none", "mock", "axi"}
    BY <1>0 DEF ConfigInv, Exclusive
  <2>3. Traced'
    BY <2>1, <2>2 DEF Traced
  <2>4. CASE build.evt
    <3>1. InBuild' = 2
      BY <2>1, <2>2, <2>4 DEF InBuild
    <3>2. fds' = lost + InBuild'
      BY <1>1, <1>3, <3>1
    <3> QED BY <1>0, <1>1, <2>1, <2>2, <2>3, <3>2, Built
  <2>5. build.evt
    BY <1>0 DEF ConfigInv, Exclusive
  <2> QED BY <2>4, <2>5
<1> QED BY <1>0, <1>2, <1>3 DEF OpenEvent
\* The interface keeps the accessor, with its descriptors.
LEMMA Kept == ASSUME ConfigInv, UioIf PROVE ConfigInv'
<1> USE ConfigAssumption
<1>0. build.at = "ready" /\ hw' = build.acc /\ fd_int' = build.evt /\ build' = NoBuild
      /\ UNCHANGED <<link, fds, lost>>
  BY DEF UioIf
<1>1. /\ hw = "none" /\ build \in Builds /\ lost \in 0 .. MaxLost
      /\ fds = lost + InBuild /\ InBuild \in 0 .. 2 /\ build.acc # "none"
  BY <1>0, InProgress
<1>2. ConfigTypeOK'
  <2>1. hw' \in Links \cup {"none", "mock"} /\ fd_int' \in BOOLEAN
    BY <1>0, <1>1 DEF Builds
  <2>2. build' \in Builds
    BY <1>0, NoBuildType
  <2>3. link' \in Links \cup {"none"} /\ lost' \in 0 .. MaxLost /\ fds' \in 0 .. MaxLost + 2
    BY <1>0, <1>1 DEF ConfigInv, ConfigTypeOK
  <2> QED BY <2>1, <2>2, <2>3 DEF ConfigTypeOK
<1>3. Exclusive' /\ Traced'
  BY <1>0, <1>1, NoBuildType DEF ConfigInv, Exclusive, Traced
<1>4. Descriptors'
  <2>1. InBuild' = 0
    BY <1>0, NoBuildType DEF InBuild
  <2>2. Held' = InBuild
    BY <1>0, <1>1 DEF Held, InBuild, Builds
  <2>3. \A n \in Nat, m \in 0 .. 2 : n + m = n + m + 0
    OBVIOUS
  <2>4. lost \in Nat
    BY <1>1
  <2> QED BY <1>0, <1>1, <2>1, <2>2, <2>3, <2>4, Zenon DEF Descriptors
<1> QED BY <1>2, <1>3, <1>4 DEF ConfigInv

\* The accessor is destroyed, and its descriptors are closed.
LEMMA Gone == ASSUME ConfigInv, UioIfGone PROVE ConfigInv'
<1> USE ConfigAssumption
<1>0. hw # "none" /\ hw' = "none" /\ fd_int' = FALSE /\ UNCHANGED <<link, build, lost>>
  BY DEF UioIfGone
<1>1. build = NoBuild /\ fd_int \in BOOLEAN /\ lost \in 0 .. MaxLost
  BY <1>0 DEF ConfigInv, Exclusive, ConfigTypeOK
<1>2. InBuild = 0 /\ InBuild' = 0
  BY <1>0, <1>1, NoBuildType DEF InBuild
<1>3. Held' = 0
  BY <1>0 DEF Held
<1>4. fds' = lost
  <2>1. CASE hw = "mock"
    <3>1. Held = 0
      BY <2>1 DEF Held, ConfigInv, Exclusive
    <3> QED BY <1>1, <1>2, <2>1, <3>1 DEF UioIfGone, ConfigInv, Descriptors
  <2>2. CASE hw # "mock" /\ fd_int
    <3>1. Held = 2
      BY <1>0, <2>2 DEF Held
    <3> QED BY <1>1, <1>2, <2>2, <3>1 DEF UioIfGone, ConfigInv, Descriptors, Unmapped
  <2>3. CASE hw # "mock" /\ ~fd_int
    <3>1. Held = 1
      BY <1>0, <2>3 DEF Held
    <3> QED BY <1>1, <1>2, <2>3, <3>1 DEF UioIfGone, ConfigInv, Descriptors, Unmapped
  <2> QED BY <2>1, <2>2, <2>3
<1>5. ConfigTypeOK'
  <2>1. link' \in Links \cup {"none"} /\ build' \in Builds
    BY <1>0, <1>1, NoBuildType DEF ConfigInv, ConfigTypeOK
  <2>2. lost' \in 0 .. MaxLost /\ fds' \in 0 .. MaxLost + 2
    BY <1>0, <1>1, <1>4
  <2>3. fd_int' \in BOOLEAN /\ hw' \in Links \cup {"none", "mock"}
    BY <1>0, Zenon
  <2> QED BY <2>1, <2>2, <2>3 DEF ConfigTypeOK
<1>6. Exclusive' /\ Traced'
  BY <1>0, <1>1, NoBuildType DEF Exclusive, Traced
<1>7. Descriptors'
  <2>1. \A n \in Nat : n = n + 0 + 0
    OBVIOUS
  <2>2. lost \in Nat
    BY <1>1
  <2> QED BY <1>0, <1>2, <1>3, <1>4, <2>1, <2>2, Zenon DEF Descriptors
<1> QED BY <1>5, <1>6, <1>7 DEF ConfigInv

\* The devices change while a construction is in progress.
LEMMA Changed == ASSUME ConfigInv, HotPlug PROVE ConfigInv'
<1> USE ConfigAssumption
<1>1. PICK s \in Sysfs : build' = [build EXCEPT !.sysfs = s, !.changed = TRUE]
  BY DEF HotPlug
<1>2. build.acc = "axi" /\ UNCHANGED <<link, hw, fd_int, fds, lost>>
  BY DEF HotPlug
<1>3. build.at # "idle"
  BY <1>2, NoBuildType DEF ConfigInv, Exclusive
<1>4. /\ hw = "none" /\ build \in Builds
      /\ lost \in 0 .. MaxLost /\ InBuild \in 0 .. 2 /\ fds = lost + InBuild
  BY <1>3, InProgress
<1>5. /\ build' \in Builds /\ build'.changed = TRUE
      /\ build'.at = build.at /\ build'.dev = build.dev /\ build'.got = build.got
      /\ build'.acc = build.acc /\ build'.evt = build.evt /\ build'.name = build.name
      /\ build'.index = build.index /\ build'.map_index = build.map_index
      /\ build'.uio_number = build.uio_number
  BY <1>1, <1>4 DEF Builds
<1>6. InBuild' = InBuild
  BY <1>5 DEF InBuild
<1>7. fds' = lost + InBuild'
  BY <1>2, <1>4, <1>6
<1>8. Traced'
  <2>1. Asked'
    BY <1>2, <1>5 DEF ConfigInv, Traced, Asked
  <2> QED BY <2>1, <1>5 DEF Traced
<1>9. build.at # "event" /\ ~build.evt
  BY <1>2 DEF ConfigInv, Exclusive
<1> QED BY <1>2, <1>3, <1>4, <1>5, <1>7, <1>8, <1>9, Built

\* Every step of UioConfig preserves the invariant.
LEMMA ConfigStep == ConfigInv /\ ConfigNext => ConfigInv'
<1> SUFFICES ASSUME ConfigInv, ConfigNext PROVE ConfigInv'
  OBVIOUS
<1>1. ASSUME NEW l \in Links, set_link(l) PROVE ConfigInv'
  BY <1>1 DEF set_link, ConfigInv, ConfigTypeOK, Exclusive, Descriptors, Traced, Asked, Found,
              InBuild, Held
<1> QED BY <1>1, BeginBuild, LookedUp, FileRead, DeviceOpened, DeviceMapped, EventOpened,
           Kept, Changed DEF ConfigNext

\* What the invariant says of a construction that has ended.
LEMMA WholeFromInv == ConfigInv => BuildIsWhole
<1> SUFFICES ASSUME ConfigInv PROVE BuildIsWhole
  OBVIOUS
<1>1. ASSUME build.at = "ready", build.acc = "axi", ~build.changed
      PROVE  /\ \A f \in Files \cup {"mmap"} : build.of[f] = <<build.name, build.map_index>>
             /\ build.index = NoIndex => build.map_index = 0
  BY <1>1 DEF ConfigInv, Traced, Asked, Found
<1>2. ASSUME build.at = "idle" PROVE fds = Held + lost
  <2>1. InBuild = 0
    BY <1>2, NoBuildType DEF ConfigInv, Exclusive, InBuild
  <2>2. Held \in Int /\ lost \in Int
    BY ConfigAssumption DEF Held, ConfigInv, ConfigTypeOK
  <2>3. \A n \in Int, m \in Int : n + m + 0 = m + n
    OBVIOUS
  <2> QED BY <2>1, <2>2, <2>3, Zenon DEF ConfigInv, Descriptors
<1> QED BY <1>1, <1>2 DEF BuildIsWhole
-----------------------------------------------------------------------------
(* Register access *)

\* What call holds for each thread.
Calls == [op : {"idle", "rd", "wr", "done"}, idx : Nat, pos : 0 .. reg.size,
          val : Values \cup {0}, seen : SUBSET (Values \cup {0})]

\* A thread is in the loop of an access.
Busy(t) == call[t].op \in {"rd", "wr"}

\* An interface that does not exist has no access, in progress or past, and the registers
\* of the next one are whole.
NoneIdle == hw = "none" =>
    /\ \A t \in Threads : call[t] = Idle
    /\ mem = [w \in Words |-> 0]

\* An access in progress is to an element of the array, and before a word of it; one of
\* 64 bits at a time is before an even word, and the element has an even number of them.
InLoop == \A t \in Threads : Busy(t) =>
    /\ InArray(call[t].idx)
    /\ call[t].pos < reg.size
    /\ Width = 2 => call[t].pos % 2 = 0

\* Nothing has been read where the loop begins.
FreshAtStart == \A t \in Threads : call[t].pos = 0 => call[t].seen = {}

\* An element that one access covers always holds one value.
OneValue == FitsOneAccess =>
    \A i \in Nat : InArray(i) => \A k \in 0 .. reg.size - 1 : mem[Offs(i) + k] = mem[Offs(i)]

\* A read of such an element has seen one value at most.
SeenOne == FitsOneAccess =>
    \A t \in Threads : \A a, b \in call[t].seen : a = b

\* The type invariant without the part of UioConfig.
AccessTypeOK ==
    /\ reg \in Registers
    /\ mem \in [Words -> Values \cup {0}]
    /\ call \in [Threads -> Calls]
    /\ bus \in [words : SUBSET Words, kind : {"none", "register", "bulk"}, idx : Nat]
    /\ ended \in BOOLEAN

AccessInv == AccessTypeOK /\ NoneIdle /\ InLoop /\ FreshAtStart /\ OneValue /\ SeenOne
                          /\ StaysInRegister

\* A product grows with its first factor.
LEMMA TimesGrows ==
    ASSUME NEW i \in Nat, NEW j \in Nat, NEW s \in Nat, i <= j
    PROVE  i * s \in Nat /\ i * s <= j * s
<1>1. j * s = i * s + (j - i) * s /\ (j - i) * s \in Nat /\ i * s \in Nat
  OBVIOUS
<1> QED BY <1>1

\* What the static assertions and the size of the memory say of the register.
LEMMA RegFacts ==
    ASSUME reg \in Registers
    PROVE  /\ reg.size \in Nat /\ reg.size > 0
           /\ reg.arr_size \in Nat /\ reg.arr_stride \in Nat
           /\ reg.arr_size = 0 => reg.arr_stride = 0
           /\ Extent(reg) <= MaxWords /\ MaxWords \in Nat
BY AccessAssumption DEF RegisterTypes

\* An element of the array is within the memory.
LEMMA ElementInMemory ==
    ASSUME reg \in Registers, NEW i \in Nat, InArray(i)
    PROVE  Offs(i) \in Nat /\ Offs(i) + reg.size <= MaxWords
<1> DEFINE n == reg.arr_size
           s == reg.arr_stride
           z == reg.size
<1>1. n \in Nat /\ s \in Nat /\ z \in Nat /\ (n = 0 => s = 0) /\ MaxWords \in Nat
  BY RegFacts
<1>2. z + (IF n = 0 THEN 0 ELSE (n - 1) * s) <= MaxWords
  BY RegFacts DEF Extent
<1>3. n = 0 \/ i < n
  BY DEF InArray
<1> HIDE DEF n, s, z
<1>4. CASE n = 0
  <2>1. i * s = 0
    BY <1>1, <1>4
  <2> QED BY <1>1, <1>2, <1>4, <2>1 DEF Offs, s, z
<1>5. CASE n # 0
  <2>1. n - 1 \in Nat /\ i <= n - 1
    BY <1>1, <1>3, <1>5
  <2>2. i * s \in Nat /\ i * s <= (n - 1) * s /\ (n - 1) * s \in Nat
    BY <1>1, <2>1, TimesGrows
  <2>3. i * s + z <= MaxWords
    BY <1>1, <1>2, <1>5, <2>2
  <2> QED BY <2>2, <2>3 DEF Offs, s, z
<1> QED BY <1>4, <1>5

\* Two elements of two words are the same or have no word in common.
LEMMA ElementsApart ==
    ASSUME reg \in Registers, FitsOneAccess, reg.size = 2, NEW i \in Nat, NEW j \in Nat
    PROVE  /\ Offs(i) \in Nat /\ Offs(j) \in Nat
           /\ Offs(i) = Offs(j) \/ Offs(i) + 2 <= Offs(j) \/ Offs(j) + 2 <= Offs(i)
<1> DEFINE s == reg.arr_stride
<1>1. s \in Nat /\ (s = 0 \/ s >= 2)
  BY RegFacts DEF FitsOneAccess
<1> HIDE DEF s
<1>2. i * s \in Nat /\ j * s \in Nat
  BY <1>1
<1>3. CASE s = 0
  BY <1>1, <1>3 DEF Offs, s
<1>4. ASSUME NEW a \in Nat, NEW b \in Nat, a < b, s >= 2 PROVE a * s + 2 <= b * s
  <2>1. (a + 1) * s <= b * s
    BY <1>1, <1>4, TimesGrows
  <2>2. (a + 1) * s = a * s + s /\ a * s \in Nat /\ b * s \in Nat
    BY <1>1, <1>4
  <2> QED BY <1>1, <1>4, <2>1, <2>2
<1>5. CASE s >= 2
  <2>1. CASE i = j
    BY <2>1, <1>2 DEF Offs, s
  <2>2. CASE i < j
    BY <2>2, <1>2, <1>4, <1>5 DEF Offs, s
  <2>3. CASE j < i
    BY <2>3, <1>2, <1>4, <1>5 DEF Offs, s
  <2> QED BY <2>1, <2>2, <2>3
<1> QED BY <1>1, <1>3, <1>5

\* One transaction of an access in progress ends within the element: the loops of
\* _rd_mem32(), _rd_mem64(), _wr_mem32() and _wr_mem64() stop exactly at its end.
LEMMA WidthFits ==
    ASSUME AccessInv, NEW t \in Threads, Busy(t)
    PROVE  /\ Width \in {1, 2}
           /\ call[t].pos \in Nat /\ call[t].pos + Width <= reg.size
           /\ Width = 2 => (call[t].pos + Width) % 2 = 0
           /\ call[t].idx \in Nat /\ InArray(call[t].idx)
           /\ Offs(call[t].idx) \in Nat
           /\ Touched(call[t]) \subseteq
                 Offs(call[t].idx) .. Offs(call[t].idx) + reg.size - 1
           /\ FitsOneAccess =>
                 /\ call[t].pos = 0
                 /\ Touched(call[t]) = Offs(call[t].idx) .. Offs(call[t].idx) + reg.size - 1
           /\ hw # "none"
<1> USE DEF AccessInv
<1> DEFINE p == call[t].pos
           z == reg.size
           o == Offs(call[t].idx)
<1>0. /\ reg \in Registers /\ call[t] \in Calls
      /\ InArray(call[t].idx) /\ p < z
      /\ Width = 2 => p % 2 = 0
  BY DEF AccessTypeOK, InLoop
<1>1. /\ p \in Nat /\ z \in Nat /\ p < z /\ MaxWords \in Nat
      /\ Width \in {1, 2}
      /\ Width = 2 => p % 2 = 0 /\ z % 2 = 0
      /\ call[t].idx \in Nat
  BY <1>0, RegFacts DEF Calls, Width, Uses64
<1>2. o \in Nat /\ o + z <= MaxWords
  BY <1>0, <1>1, ElementInMemory
<1>3. ASSUME FitsOneAccess PROVE p = 0 /\ Touched(call[t]) = o .. o + z - 1
  <2>1. z = Width
    BY <1>1, <1>3 DEF FitsOneAccess, Width, Uses64, Native64
  <2> HIDE DEF p, z, o, AccessInv
  <2>2. p = 0
    BY <2>1, <1>1
  <2>3. Touched(call[t]) = o .. o + z - 1
    BY <1>1, <1>2, <2>1, <2>2 DEF Touched, Words, o, p
  <2> QED BY <2>2, <2>3
<1>6. hw # "none"
  BY DEF NoneIdle, Busy, Idle
<1> HIDE DEF p, z, o, AccessInv
<1>4. p + Width <= z /\ (Width = 2 => (p + Width) % 2 = 0)
  BY <1>1
<1>5. Touched(call[t]) \subseteq o .. o + z - 1
  BY <1>1, <1>2, <1>4 DEF Touched, o, p
<1> QED BY <1>0, <1>1, <1>2, <1>3, <1>4, <1>5, <1>6 DEF p, z, o

\* The words that a read of an element that one access covers finds agree.
LEMMA ReadsOneValue ==
    ASSUME AccessInv, NEW t \in Threads, Busy(t), FitsOneAccess,
           NEW a \in {mem[w] : w \in Touched(call[t])},
           NEW b \in {mem[w] : w \in Touched(call[t])}
    PROVE  a = b
<1> DEFINE i == call[t].idx
           o == Offs(i)
<1>1. /\ Touched(call[t]) = o .. o + reg.size - 1 /\ o \in Nat
      /\ i \in Nat /\ InArray(i) /\ reg.size \in Nat
  BY WidthFits, RegFacts DEF AccessInv, AccessTypeOK
<1>2. \A k \in 0 .. reg.size - 1 : mem[o + k] = mem[o]
  BY <1>1 DEF AccessInv, OneValue
<1> HIDE DEF o
<1>3. \A w \in o .. o + reg.size - 1 : mem[w] = mem[o]
  <2> SUFFICES ASSUME NEW w \in o .. o + reg.size - 1 PROVE mem[w] = mem[o]
    OBVIOUS
  <2>1. w - o \in 0 .. reg.size - 1 /\ w = o + (w - o)
    BY <1>1
  <2> QED BY <1>2, <2>1
<1> QED BY <1>1, <1>3

\* A memory whose words are all alike holds whole elements.
LEMMA ZeroIsWhole ==
    ASSUME reg \in Registers, mem = [w \in Words |-> 0]
    PROVE  OneValue
<1> SUFFICES ASSUME NEW i \in Nat, InArray(i), NEW k \in 0 .. reg.size - 1
             PROVE  mem[Offs(i) + k] = mem[Offs(i)]
  BY DEF OneValue
<1>1. Offs(i) \in Nat /\ Offs(i) + reg.size <= MaxWords /\ reg.size \in Nat /\ MaxWords \in Nat
  BY ElementInMemory, RegFacts
<1>2. Offs(i) + k \in Words /\ Offs(i) \in Words
  BY <1>1 DEF Words
<1> QED BY <1>2

\* The initial states satisfy the invariant.
LEMMA AccessInit == Init => AccessInv
<1> SUFFICES ASSUME Init PROVE AccessInv
  OBVIOUS
<1> USE AccessAssumption DEF Init
<1>1. AccessTypeOK
  <2>1. Idle \in Calls
    BY RegFacts DEF Idle, Calls
  <2> QED BY <2>1 DEF AccessTypeOK, NoAccess
<1>2. NoneIdle /\ InLoop /\ FreshAtStart /\ SeenOne
  BY DEF NoneIdle, InLoop, FreshAtStart, SeenOne, Busy, Idle
<1>3. OneValue
  BY ZeroIsWhole
<1>4. StaysInRegister
  BY DEF StaysInRegister, NoAccess
<1> QED BY <1>1, <1>2, <1>3, <1>4 DEF AccessInv
\* A step that leaves the accessor, the register and its accesses alone.
LEMMA AccessStutters ==
    ASSUME AccessInv, UNCHANGED hw, UNCHANGED accessVars
    PROVE  AccessInv'
BY DEF AccessInv, accessVars, AccessTypeOK, Calls, NoneIdle, InLoop, FreshAtStart, OneValue,
       SeenOne, StaysInRegister, Busy, Width, Uses64, Native64, FitsOneAccess, InArray, Offs

\* An access that begins: it is before the first word, and has read nothing.
LEMMA BeginInv ==
    ASSUME AccessInv, NEW t \in Threads, NEW c \in Calls, hw # "none",
           c.pos = 0, c.seen = {}, InArray(c.idx),
           call' = [call EXCEPT ![t] = c],
           UNCHANGED <<hw, reg, mem, bus, ended>>
    PROVE  AccessInv'
<1> USE DEF AccessInv
<1>c. \A u \in Threads : call'[u] = IF u = t THEN c ELSE call[u]
  BY DEF AccessTypeOK
<1>3. AccessTypeOK'
  <2>1. call' \in [Threads -> Calls]
    BY DEF AccessTypeOK
  <2>2. Calls' = Calls
    BY DEF Calls
  <2> QED BY <2>1, <2>2 DEF AccessTypeOK
<1>4. NoneIdle' /\ OneValue' /\ StaysInRegister'
  BY DEF NoneIdle, OneValue, StaysInRegister, FitsOneAccess, InArray, Offs
<1>5. InLoop'
  <2>1. reg.size > 0
    BY RegFacts DEF AccessTypeOK
  <2>2. Width' = Width
    BY DEF Width, Uses64, Native64
  <2> QED BY <1>c, <2>1, <2>2 DEF InLoop, Busy, InArray
<1>6. FreshAtStart' /\ SeenOne'
  BY <1>c DEF FreshAtStart, SeenOne, FitsOneAccess
<1> QED BY <1>3, <1>4, <1>5, <1>6

\* A step of an access in progress: if it leaves elements that one access covers with
\* one value, and has found one value in the element, the invariant holds after it.
LEMMA ForwardInv ==
    ASSUME AccessInv, NEW t \in Threads, Busy(t), NEW values \in SUBSET (Values \cup {0}),
           Forward(t, values), UNCHANGED <<hw, reg, ended>>,
           mem' \in [Words -> Values \cup {0}], OneValue',
           FitsOneAccess => \A a, b \in values : a = b
    PROVE  AccessInv'
<1> USE DEF AccessInv
<1> DEFINE p == call[t].pos + Width
<1> DEFINE c == [call[t] EXCEPT !.pos = p, !.seen = @ \cup values,
                                !.op = IF More(p) THEN @ ELSE "done"]
<1>0. /\ call \in [Threads -> Calls] /\ call[t] \in Calls
      /\ reg \in Registers /\ reg.size \in Nat
      /\ Width \in {1, 2} /\ p <= reg.size /\ call[t].pos \in Nat
      /\ Width = 2 => p % 2 = 0
  BY WidthFits, RegFacts DEF AccessTypeOK
<1>1. /\ c.pos = p /\ c.seen = call[t].seen \cup values /\ c.idx = call[t].idx
      /\ c.op = IF More(p) THEN call[t].op ELSE "done"
      /\ c \in Calls
  <2> HIDE DEF AccessInv
  <2>1. p \in 0 .. reg.size
    BY <1>0
  <2> HIDE DEF p
  <2> QED BY <1>0, <2>1 DEF Calls
<1>2. \A u \in Threads : call'[u] = IF u = t THEN c ELSE call[u]
  <2> HIDE DEF AccessInv, p
  <2> QED BY <1>0 DEF Forward, Calls, p
<1> HIDE DEF c
<1>4. bus' = [words |-> Touched(call[t]), kind |-> "register", idx |-> call[t].idx]
  BY DEF Forward
<1>5. AccessTypeOK'
  <2>1. call' \in [Threads -> Calls]
    <3>1. call' = [u \in Threads |-> call'[u]]
      BY <1>0 DEF Forward
    <3>2. \A u \in Threads : call'[u] \in Calls
      BY <1>0, <1>1, <1>2
    <3> QED BY <3>1, <3>2
  <2>2. bus' \in [words : SUBSET Words, kind : {"none", "register", "bulk"}, idx : Nat]
    BY <1>4, WidthFits DEF Touched
  <2>3. Calls' = Calls
    BY DEF Calls
  <2> QED BY <2>1, <2>2, <2>3 DEF AccessTypeOK
<1>6. NoneIdle' /\ StaysInRegister'
  BY WidthFits, <1>4 DEF NoneIdle, StaysInRegister, Offs
<1>7. Width' = Width
  BY DEF Width, Uses64, Native64
<1>8. InLoop'
  <2> SUFFICES ASSUME NEW u \in Threads, Busy(u)'
               PROVE  /\ InArray(call'[u].idx) /\ call'[u].pos < reg.size
                      /\ Width = 2 => call'[u].pos % 2 = 0
    BY <1>7 DEF InLoop, InArray
  <2>1. CASE u = t
    BY <2>1, <1>2, <1>1, <1>0, WidthFits DEF Busy, More
  <2>2. CASE u # t
    BY <2>2, <1>2 DEF Busy, InLoop
  <2> QED BY <2>1, <2>2
<1>9. FreshAtStart'
  <2>1. p # 0
    BY <1>0
  <2> QED BY <2>1, <1>1, <1>2 DEF FreshAtStart
<1>10. SeenOne'
  <2> SUFFICES ASSUME FitsOneAccess, NEW u \in Threads
               PROVE  \A a, b \in call'[u].seen : a = b
    BY DEF SeenOne, FitsOneAccess
  <2>1. call[t].seen = {}
    BY WidthFits DEF FreshAtStart
  <2> QED BY <2>1, <1>1, <1>2 DEF SeenOne
<1> QED BY <1>5, <1>6, <1>8, <1>9, <1>10

\* A write of an element that one access covers leaves every element whole.
LEMMA WriteIsWhole ==
    ASSUME AccessInv, NEW t \in Threads, _wr_mem(t)
    PROVE  OneValue'
<1> DEFINE o == Offs(call[t].idx)
           v == call[t].val
<1>0. Busy(t) /\ reg \in Registers /\ UNCHANGED <<hw, reg>>
      /\ mem' = [w \in Words |-> IF w \in Touched(call[t]) THEN v ELSE mem[w]]
  BY DEF _wr_mem, Busy, AccessInv, AccessTypeOK, configVars
<1>1. FitsOneAccess' = FitsOneAccess
  BY <1>0 DEF FitsOneAccess
<1> SUFFICES ASSUME FitsOneAccess, NEW i \in Nat, InArray(i), NEW k \in 0 .. reg.size - 1
             PROVE  mem'[Offs(i) + k] = mem'[Offs(i)]
  BY <1>0, <1>1 DEF OneValue, InArray, Offs
<1> DEFINE q == Offs(i)
<1>2. q \in Nat /\ q + reg.size <= MaxWords /\ reg.size \in {1, 2} /\ MaxWords \in Nat
  BY <1>0, ElementInMemory, RegFacts DEF FitsOneAccess
<1>3. Touched(call[t]) = o .. o + reg.size - 1 /\ o \in Nat /\ call[t].idx \in Nat
  BY <1>0, WidthFits
<1>4. mem[q + k] = mem[q]
  BY DEF AccessInv, OneValue
<1>5. CASE reg.size = 1
  BY <1>2, <1>5
<1>6. CASE reg.size = 2
  <2>1. o = q \/ o + 2 <= q \/ q + 2 <= o
    BY <1>0, <1>3, <1>6, ElementsApart
  <2> HIDE DEF o, q, v
  <2>2. q + k \in Words /\ q \in Words
    BY <1>2, <1>6 DEF Words
  <2>3. q + k \in Touched(call[t]) <=> q \in Touched(call[t])
    BY <1>2, <1>3, <1>6, <2>1
  <2>4. mem'[q + k] = mem'[q]
    BY <1>0, <1>4, <2>2, <2>3
  <2> QED BY <2>4 DEF q
<1> QED BY <1>2, <1>5, <1>6
\* Every step preserves both invariants.
LEMMA AccessStep == ConfigInv /\ AccessInv /\ [Next]_vars => ConfigInv' /\ AccessInv'
<1> SUFFICES ASSUME ConfigInv, AccessInv, [Next]_vars PROVE ConfigInv' /\ AccessInv'
  OBVIOUS
<1>t. AccessTypeOK /\ reg \in Registers /\ reg.size \in Nat
  BY RegFacts DEF AccessInv, AccessTypeOK
<1>s. ASSUME UNCHANGED configVars PROVE ConfigInv'
  BY <1>s, ConfigStutters
<1>1. CASE ConfigNext /\ UNCHANGED accessVars
  <2>1. ConfigInv'
    BY <1>1, ConfigStep
  <2>2. CASE UNCHANGED hw
    BY <1>1, <2>1, <2>2, AccessStutters
  <2>3. CASE UioIf
    <3>1. hw = "none"
      BY <2>3 DEF UioIf, ConfigInv, Exclusive
    <3>2. (\A u \in Threads : call'[u] = Idle) /\ mem' = [w \in Words |-> 0] /\ reg' = reg
          /\ bus' = bus
      BY <1>1, <3>1 DEF AccessInv, NoneIdle, accessVars
    <3>3. AccessTypeOK'
      BY <1>t, <1>1 DEF AccessTypeOK, accessVars, Calls
    <3>4. NoneIdle' /\ InLoop' /\ FreshAtStart' /\ SeenOne'
      BY <3>2 DEF NoneIdle, InLoop, FreshAtStart, SeenOne, Busy, Idle
    <3>5. OneValue'
      <4>1. reg' \in Registers
        BY <1>t, <3>2
      <4>2. \A i \in Nat : InArray(i)' => \A k \in 0 .. reg'.size - 1 :
                              mem'[Offs(i)' + k] = mem'[Offs(i)']
        <5> SUFFICES ASSUME NEW i \in Nat, InArray(i), NEW k \in 0 .. reg.size - 1
                     PROVE  mem'[Offs(i) + k] = mem'[Offs(i)]
          BY <3>2 DEF InArray, Offs
        <5>1. Offs(i) \in Nat /\ Offs(i) + reg.size <= MaxWords /\ MaxWords \in Nat
          BY <1>t, ElementInMemory, RegFacts
        <5>2. Offs(i) + k \in Words /\ Offs(i) \in Words
          BY <1>t, <5>1 DEF Words
        <5> QED BY <3>2, <5>2
      <4> QED BY <4>2 DEF OneValue
    <3>6. StaysInRegister'
      BY <3>2 DEF AccessInv, StaysInRegister
    <3> QED BY <2>1, <3>3, <3>4, <3>5, <3>6 DEF AccessInv
  <2> QED
    BY <1>1, <2>2, <2>3 DEF ConfigNext, set_link, hw_acc, _get_uio_number, _get_uio_val,
                            OpenDevice, MapDevice, OpenEvent, HotPlug
<1>2. CASE Destroy
  <2>1. ConfigInv'
    BY <1>2, Gone DEF Destroy
  <2>2. /\ call' = [u \in Threads |-> Idle] /\ mem' = [w \in Words |-> 0]
        /\ reg' = reg /\ ended' = ended /\ bus' = NoAccess
    BY <1>2 DEF Destroy
  <2>3. AccessTypeOK'
    <3>1. Idle \in Calls'
      BY <1>t, <2>2 DEF Idle, Calls
    <3>2. call' \in [Threads -> Calls']
      BY <2>2, <3>1
    <3> QED BY <1>t, <2>2, <3>2 DEF AccessTypeOK, NoAccess
  <2>4. NoneIdle' /\ InLoop' /\ FreshAtStart' /\ SeenOne'
    BY <2>2 DEF NoneIdle, InLoop, FreshAtStart, SeenOne, Busy, Idle
  <2>5. OneValue'
    <3> SUFFICES ASSUME NEW i \in Nat, InArray(i), NEW k \in 0 .. reg.size - 1
                 PROVE  mem'[Offs(i) + k] = mem'[Offs(i)]
      BY <2>2 DEF OneValue, InArray, Offs
    <3>1. Offs(i) \in Nat /\ Offs(i) + reg.size <= MaxWords /\ MaxWords \in Nat
      BY <1>t, ElementInMemory, RegFacts
    <3>2. Offs(i) + k \in Words /\ Offs(i) \in Words
      BY <1>t, <3>1 DEF Words
    <3> QED BY <2>2, <3>2
  <2>6. StaysInRegister'
    BY <2>2 DEF StaysInRegister, NoAccess
  <2> QED BY <2>1, <2>3, <2>4, <2>5, <2>6 DEF AccessInv
<1>3. ASSUME NEW i \in Index, AssertFails(i) PROVE ConfigInv' /\ AccessInv'
  <2>1. ended' = TRUE /\ UNCHANGED <<hw, reg, mem, call, bus>> /\ UNCHANGED configVars
    BY <1>3 DEF AssertFails, configVars
  <2>2. AccessTypeOK'
    BY <1>t, <2>1 DEF AccessTypeOK, Calls
  <2>3. NoneIdle' /\ InLoop' /\ FreshAtStart' /\ OneValue' /\ SeenOne' /\ StaysInRegister'
    BY <2>1 DEF AccessInv, NoneIdle, InLoop, FreshAtStart, OneValue, SeenOne,
                StaysInRegister, Busy, Width, Uses64, Native64, FitsOneAccess, InArray, Offs
  <2> QED BY <1>s, <2>1, <2>2, <2>3 DEF AccessInv
<1>i. Index \subseteq Nat
  BY <1>t, RegFacts DEF Index
<1>4. ASSUME NEW t \in Threads, NEW i \in Index, rd(t, i) PROVE ConfigInv' /\ AccessInv'
  <2> DEFINE c == [Idle EXCEPT !.op = "rd", !.idx = i, !.val = 0]
  <2>0. i \in Nat /\ 0 \in 0 .. reg.size
    BY <1>t, <1>i
  <2>1. c \in Calls /\ c.pos = 0 /\ c.seen = {} /\ c.idx = i
    BY <2>0 DEF Idle, Calls
  <2>2. hw # "none" /\ call' = [call EXCEPT ![t] = c] /\ InArray(i)
        /\ UNCHANGED <<hw, reg, mem, bus, ended>> /\ UNCHANGED configVars
    BY <1>4 DEF rd, _reg, configVars
  <2> HIDE DEF c
  <2> QED BY <1>s, <2>1, <2>2, BeginInv
<1>5. ASSUME NEW t \in Threads, NEW i \in Index, NEW v \in Values, wr(t, i, v)
      PROVE  ConfigInv' /\ AccessInv'
  <2> DEFINE c == [Idle EXCEPT !.op = "wr", !.idx = i, !.val = v]
  <2>0. i \in Nat /\ 0 \in 0 .. reg.size
    BY <1>t, <1>i
  <2>1. c \in Calls /\ c.pos = 0 /\ c.seen = {} /\ c.idx = i
    BY <2>0 DEF Idle, Calls
  <2>2. hw # "none" /\ call' = [call EXCEPT ![t] = c] /\ InArray(i)
        /\ UNCHANGED <<hw, reg, mem, bus, ended>> /\ UNCHANGED configVars
    BY <1>5 DEF wr, _reg, configVars
  <2> HIDE DEF c
  <2> QED BY <1>s, <2>1, <2>2, BeginInv
<1>6. ASSUME NEW t \in Threads, _rd_mem(t) PROVE ConfigInv' /\ AccessInv'
  <2> DEFINE values == {mem[w] : w \in Touched(call[t])}
  <2>1. Busy(t)
    BY <1>6 DEF _rd_mem, Busy
  <2>2. values \in SUBSET (Values \cup {0})
    BY <1>t DEF AccessTypeOK, Touched
  <2>3. FitsOneAccess => \A a, b \in values : a = b
    BY <2>1, ReadsOneValue
  <2>4. OneValue' /\ mem' \in [Words -> Values \cup {0}]
    BY <1>6, <1>t DEF _rd_mem, configVars, AccessInv, OneValue, FitsOneAccess, AccessTypeOK,
                      InArray, Offs
  <2>5. Forward(t, values) /\ UNCHANGED <<hw, reg, ended>> /\ UNCHANGED configVars
    BY <1>6 DEF _rd_mem, configVars
  <2> HIDE DEF values
  <2> QED BY <1>s, <2>1, <2>2, <2>3, <2>4, <2>5, ForwardInv
<1>7. ASSUME NEW t \in Threads, _wr_mem(t) PROVE ConfigInv' /\ AccessInv'
  <2>1. Busy(t)
    BY <1>7 DEF _wr_mem, Busy
  <2>2. mem' \in [Words -> Values \cup {0}]
    <3>1. call[t].val \in Values \cup {0}
      BY <1>t DEF AccessTypeOK, Calls
    <3> QED BY <1>7, <1>t, <3>1 DEF _wr_mem, AccessTypeOK
  <2>3. OneValue'
    BY <1>7, WriteIsWhole
  <2>4. Forward(t, {}) /\ UNCHANGED <<hw, reg, ended>> /\ UNCHANGED configVars
    BY <1>7 DEF _wr_mem, configVars
  <2> QED BY <1>s, <2>1, <2>2, <2>3, <2>4, ForwardInv
<1>8. ASSUME NEW t \in Threads, Overflow(t) PROVE ConfigInv' /\ AccessInv'
  <2>1. Idle \in Calls /\ Idle.pos = 0 /\ Idle.seen = {}
    BY <1>t DEF Idle, Calls
  <2>2. call' = [call EXCEPT ![t] = Idle] /\ UNCHANGED <<hw, reg, mem, bus, ended>>
        /\ UNCHANGED configVars /\ Busy(t)
    BY <1>8 DEF Overflow, configVars, Busy
  <2>3. InArray(0)
    BY <1>t, RegFacts DEF InArray
  <2>4. hw # "none" /\ Idle.idx = 0
    BY <2>2, WidthFits DEF Idle
  <2> QED BY <1>s, <2>1, <2>2, <2>3, <2>4, BeginInv
<1>9. ASSUME NEW n \in {1, 2}, bulk(n) PROVE ConfigInv' /\ AccessInv'
  <2>1. UNCHANGED <<hw, reg, mem, call, ended>> /\ UNCHANGED configVars
        /\ bus' = [words |-> 0 .. n - 1, kind |-> "bulk", idx |-> 0]
    BY <1>9 DEF bulk, configVars
  <2>2. AccessTypeOK'
    <3>1. 0 .. n - 1 \subseteq Words
      <4>1. MaxWords \in Nat /\ MaxWords >= 1
        <5>1. InArray(0)
          BY <1>t, RegFacts DEF InArray
        <5>2. Offs(0) \in Nat /\ Offs(0) + reg.size <= MaxWords
          BY <1>t, <5>1, ElementInMemory
        <5> QED BY <1>t, <5>2, RegFacts
      <4> QED BY <4>1 DEF Words
    <3> QED BY <1>t, <2>1, <3>1 DEF AccessTypeOK, Calls
  <2>3. NoneIdle' /\ InLoop' /\ FreshAtStart' /\ OneValue' /\ SeenOne' /\ StaysInRegister'
    BY <2>1 DEF AccessInv, NoneIdle, InLoop, FreshAtStart, OneValue, SeenOne,
                StaysInRegister, Busy, Width, Uses64, Native64, FitsOneAccess, InArray, Offs
  <2> QED BY <1>s, <2>1, <2>2, <2>3 DEF AccessInv
<1>10. CASE UNCHANGED vars
  <2>1. UNCHANGED configVars /\ UNCHANGED accessVars /\ UNCHANGED hw
    BY <1>10 DEF vars, configVars
  <2> QED BY <1>s, <2>1, AccessStutters
<1> QED
  BY <1>1, <1>2, <1>3, <1>4, <1>5, <1>6, <1>7, <1>8, <1>9, <1>10 DEF Next, Step

-----------------------------------------------------------------------------
\* Every behaviour satisfies the invariants.
THEOREM AccessInvariant == Spec => [](ConfigInv /\ AccessInv)
<1>1. Init => ConfigInv /\ AccessInv
  BY ConfigInitInv, AccessInit DEF Init
<1> QED BY <1>1, AccessStep, PTL DEF Spec

\* The variables of the accessor stay in their ranges, and an access ends at the end of
\* the register at the latest.
THEOREM AccessTypes == Spec => []TypeOK
<1>1. ConfigInv /\ AccessInv => TypeOK
  BY DEF ConfigInv, AccessInv, AccessTypeOK, TypeOK, Calls
<1> QED BY <1>1, AccessInvariant, PTL

\* rd() and wr() move no word outside of the register or the element of the array, for
\* every size, every stride and every accessor.
THEOREM AccessStaysInRegister == Spec => []StaysInRegister
<1>1. AccessInv => StaysInRegister
  BY DEF AccessInv
<1> QED BY <1>1, AccessInvariant, PTL

\* The construction of an accessor ends whole or not at all, for every set of devices,
\* mappings and failures: what is mapped and what has been read belong together, and no
\* descriptor stays open but those that failed mappings forget.
THEOREM AccessBuildIsWhole == Spec => []BuildIsWhole
BY AccessInvariant, WholeFromInv, PTL

\* rd() never returns parts of two values of an element that one access covers, for any
\* number of threads that read and write it and its neighbours without a lock.
THEOREM AccessReadIsWhole == Spec => []ReadIsWhole
<1>1. AccessInv => ReadIsWhole
  <2> SUFFICES ASSUME AccessInv, FitsOneAccess, NEW t \in Threads
               PROVE  Cardinality(call[t].seen) <= 1
    BY DEF ReadIsWhole
  <2>1. CASE call[t].seen = {}
    BY <2>1, FS_EmptySet
  <2>2. CASE call[t].seen # {}
    <3>1. PICK a : a \in call[t].seen
      BY <2>2
    <3>2. call[t].seen = {a}
      BY <3>1 DEF AccessInv, SeenOne
    <3> QED BY <3>2, FS_Singleton
  <2> QED BY <2>1, <2>2
<1> QED BY <1>1, AccessInvariant, PTL
=============================================================================
