------------------------- MODULE UioAxiVdmaIfProofs -------------------------
(***************************************************************************)
(* Proofs about UioAxiVdmaIf: the safety properties of the driver, for     *)
(* every number of frame stores that the core may have, every set of frame *)
(* formats and every set of errors.                                        *)
(***************************************************************************)
EXTENDS UioAxiVdmaIf, FrameFormat, TLAPS

\* The places of set_frame_format().
Sizes == {"stride", "hsize", "vsize"}

\* The driver is on its way to set the run bit.
Starting == pc \in {"start_rd", "start_wr"} \/ (pc \in Sizes /\ then = "start_rd")

\* The driver will write a control register that it has read before.
WritesControl == pc \in {"config_wr", "start_wr", "stop_wr"}

\* Each place of a call tells what the call has in hand.
Places ==
    /\ pc = "start_wr" => cr.rs
    /\ pc = "stop_wr" => ~cr.rs
    /\ pc = "stop_wait" => ~s2mm_vdmacr.rs
    /\ pc = "idle" => k = 0
    /\ pc \in {"idle", "config_wr", "sa"} => then = "idle"

\* After stop(true), nothing sets the run bit before start().
Stopped == wanted = "halt" =>
    /\ s2mm_vdmasr.halted /\ ~s2mm_vdmacr.rs /\ ~Starting
    /\ pc \notin {"stop_wr", "stop_wait", "reset_wr"}
    /\ WritesControl => ~cr.rs

\* After start(), the run bit is set or there is an error; a control register that
\* config() has read has the run bit too, or there was an error before.
Started == wanted = "run" =>
    /\ s2mm_vdmacr.rs \/ s2mm_vdmasr.errs # {}
    /\ pc \notin {"stop_wr", "stop_wait", "reset_wr"}
    /\ WritesControl => cr.rs \/ s2mm_vdmasr.errs # {}

\* init_buffers() has written the registers below k, in ascending order.
Written ==
    /\ pc = "config_wr" => k = 0
    /\ pc = "sa" => k <= NumSaWrites /\ \A r \in SaRegs : r < k => s2mm_sa[r] = SaWord(r)

\* Frame store s has the address of a buffer in use.
HasBuffer(s) == \E b \in held : StoreAddress(s) = <<b.hi, b.lo>>

\* Once every store has been given a buffer, every store has one, but for the store of
\* which half an address is written; the buffers to come are counted as in use already.
\* Detection takes the addresses away.
Addresses ==
    /\ addressed => \A s \in 0 .. num_stores - 1 : Torn(s) \/ HasBuffer(s)
    /\ pc \in {"config_wr", "sa"} =>
          Elements(frm_bufs) \subseteq held /\ (addressed => Reachable(frm_bufs))
    /\ pc = "detect" => ~addressed

\* What config() has compared: the buffers with the format that it writes to the size
\* registers next.
Compared == checked =>
    /\ ~Configuring => \A b \in held : FrameExtent <= b.size
    /\ pc \in {"config_wr", "sa"} => frm_format # NoFormat /\ SizesSuffice(frm_bufs, frm_format)
    /\ pc \in Sizes => \A b \in held : get_frm_size(frm_format) <= b.size
    /\ pc \in {"hsize", "vsize"} => s2mm_size.stride = frm_format.hsize
    /\ pc = "vsize" => s2mm_size.hsize = frm_format.hsize

\* All buffers that detection has been through belong to the core.
Detecting ==
    /\ detected \in {0, num_stores}
    /\ pc = "detect" => k <= num_stores

RunInv  == Places /\ Stopped /\ Started
VdmaInv == TypeOK /\ RunInv /\ Written /\ Addresses /\ Compared /\ Detecting
-----------------------------------------------------------------------------
(* Arithmetic *)

\* Integer division by a positive number.
LEMMA DivFacts ==
    ASSUME NEW a \in Nat, NEW b \in Nat \ {0}
    PROVE  /\ a \div b \in Nat
           /\ b * (a \div b) <= a
           /\ a < b * (a \div b) + b
<1>1. a \div b \in Int /\ a % b \in 0 .. b - 1 /\ a = b * (a \div b) + (a % b)
  OBVIOUS
<1>2. a \div b >= 0
  <2> DEFINE q == a \div b
  <2> HIDE DEF q
  <2>1. q \in Int /\ a < b * q + b
    BY <1>1 DEF q
  <2>2. ASSUME q <= -1 PROVE FALSE
    <3>1. b * q + b = b * (q + 1) /\ q + 1 <= 0
      BY <2>1, <2>2
    <3>2. b * (q + 1) <= 0
      BY <2>1, <3>1
    <3> QED BY <2>1, <3>1, <3>2
  <2> QED BY <2>1, <2>2 DEF q
<1>3. b * (a \div b) \in Int
  BY <1>1
<1> QED BY <1>1, <1>2, <1>3

\* A product grows with its first factor.
LEMMA TimesGrows ==
    ASSUME NEW i \in Nat, NEW j \in Nat, NEW s \in Nat, i <= j
    PROVE  i * s \in Nat /\ i * s <= j * s
<1>1. j * s = i * s + (j - i) * s /\ (j - i) * s \in Nat /\ i * s \in Nat
  OBVIOUS
<1> QED BY <1>1

-----------------------------------------------------------------------------
(* Types *)

\* The type invariant by parts: the core as it is built, its registers, the call in
\* progress and the history.
Control == [rs : BOOLEAN, circular_park : BOOLEAN, repeat_en : BOOLEAN]
Status  == [halted : BOOLEAN, errs : SUBSET (FrameErrors \cup HaltErrors)]
SizeReg == [stride : 0 .. 2^16 - 1, hsize : 0 .. 2^16 - 1, vsize : 0 .. 2^13 - 1]
StartAddresses == [SaRegs -> Words]
Stores  == 0 .. num_stores - 1
Counts  == 0 .. 32
Vectors == FrmBufs \cup {<<>>}
Given   == Formats \cup {NoFormat}
Returns == {"idle", "start_rd"}
Found   == 0 .. 16
Wishes  == {"any", "run", "halt"}

ConfOK ==
    _long_addrs \in BOOLEAN /\ num_stores \in IF _long_addrs THEN Stores64 ELSE Stores32
RegOK ==
    /\ s2mm_vdmacr \in Control /\ s2mm_vdmasr \in Status /\ s2mm_sa \in StartAddresses
    /\ s2mm_size \in SizeReg /\ wr_frm_store \in Stores
CallOK ==
    /\ pc \in PCs /\ cr \in Control /\ k \in Counts /\ frm_bufs \in Vectors
    /\ frm_format \in Given /\ wait_for_end \in BOOLEAN /\ then \in Returns
HistOK ==
    /\ detected \in Found /\ held \subseteq Buffers /\ addressed \in BOOLEAN
    /\ checked \in BOOLEAN /\ wanted \in Wishes

\* The parts are the type invariant.
LEMMA TypeParts == TypeOK <=> ConfOK /\ RegOK /\ CallOK /\ HistOK
<1>1. 2 * SaSize = 32
  BY DEF SaSize
<1>2. TypeOK <=>
      /\ _long_addrs \in BOOLEAN
      /\ num_stores \in IF _long_addrs THEN Stores64 ELSE Stores32
      /\ s2mm_vdmacr \in Control
      /\ s2mm_vdmasr \in Status
      /\ s2mm_sa \in StartAddresses
      /\ s2mm_size \in SizeReg
      /\ wr_frm_store \in Stores
      /\ pc \in PCs
      /\ cr \in Control
      /\ k \in Counts
      /\ frm_bufs \in Vectors
      /\ frm_format \in Given
      /\ wait_for_end \in BOOLEAN
      /\ then \in Returns
      /\ detected \in Found
      /\ held \subseteq Buffers
      /\ addressed \in BOOLEAN
      /\ checked \in BOOLEAN
      /\ wanted \in Wishes
  BY <1>1, Zenon DEF TypeOK, Control, Status, StartAddresses, SizeReg, Stores, Counts, Vectors,
                     Given, Returns, Found, Wishes
<1> QED BY <1>2, Zenon DEF ConfOK, RegOK, CallOK, HistOK

\* The number of frame stores and of start address registers.
LEMMA StoresNat ==
    ASSUME TypeOK
    PROVE  num_stores \in 1 .. 16 /\ NumSa \in 1 .. 32
<1>1. num_stores \in 1 .. 16
  BY VdmaAssumption DEF TypeOK
<1>2. NumSa = 2 * num_stores \/ NumSa = num_stores
  BY <1>1 DEF NumSa
<1> QED BY <1>1, <1>2

\* A vector of frame buffers.
LEMMA VectorType ==
    ASSUME NEW bs \in Vectors
    PROVE  /\ Len(bs) \in Nat
           /\ \A i \in 1 .. Len(bs) : bs[i] \in UioRegion /\ bs[i] \in Buffers
           /\ Elements(bs) \subseteq Buffers
<1>1. CASE bs \in FrmBufs
  <2>1. bs \in Seq(UioRegion)
    BY <1>1, VdmaAssumption
  <2>2. Elements(bs) \subseteq Buffers
    BY <1>1, Zenon DEF Buffers
  <2>3. \A i \in 1 .. Len(bs) : bs[i] \in Elements(bs)
    BY Zenon DEF Elements
  <2> QED BY <2>1, <2>2, <2>3
<1>2. CASE bs = <<>>
  BY <1>2 DEF Elements
<1> QED BY <1>1, <1>2 DEF Vectors

\* A frame buffer is a region.
LEMMA BufferType ==
    ASSUME NEW b \in Buffers
    PROVE  b \in UioRegion /\ b.hi \in Words /\ b.lo \in Words
<1>1. PICK bs \in FrmBufs : b \in Elements(bs)
  BY Zenon DEF Buffers
<1>2. PICK i \in 1 .. Len(bs) : b = bs[i]
  BY <1>1, Zenon DEF Elements
<1>3. bs \in Vectors
  BY DEF Vectors
<1> QED BY <1>2, <1>3, VectorType DEF Words

\* The values of the registers after a reset are of their types.
LEMMA ResetTypes ==
    ResetControl \in Control /\ ResetStatus \in Status /\ ResetSize \in SizeReg
BY DEF ResetControl, ResetStatus, ResetSize, Control, Status, SizeReg

\* What init_buffers() writes to register r is a half of the address of buffer
\* r, or of buffer r / 2.
LEMMA SaWordType ==
    ASSUME TypeOK, NEW r \in Nat, r < NumSaWrites
    PROVE  SaWord(r) \in Words
<1>1. _long_addrs \in BOOLEAN /\ frm_bufs \in Vectors
  BY TypeParts DEF ConfOK, CallOK
<1>2. Len(frm_bufs) \in Nat /\ \A i \in 1 .. Len(frm_bufs) : frm_bufs[i] \in Buffers
  BY <1>1, VectorType
<1>3. CASE _long_addrs
  <2>1. r \div 2 + 1 \in 1 .. Len(frm_bufs)
    BY <1>2, <1>3 DEF NumSaWrites
  <2> QED BY <1>2, <1>3, <2>1, BufferType DEF SaWord
<1>4. CASE ~_long_addrs
  <2>1. r + 1 \in 1 .. Len(frm_bufs)
    BY <1>2, <1>4 DEF NumSaWrites
  <2> QED BY <1>2, <1>4, <2>1, BufferType DEF SaWord
<1> QED BY <1>1, <1>3, <1>4

\* The variables are in their ranges initially.
LEMMA TypeInit == Init => TypeOK
<1> SUFFICES ASSUME Init PROVE ConfOK /\ RegOK /\ CallOK /\ HistOK
  BY TypeParts
<1>1. ConfOK
  BY DEF Init, ConfOK
<1>2. num_stores \in 1 .. 16
  BY <1>1, VdmaAssumption DEF ConfOK
<1>3. ResetControl \in Control /\ ResetStatus \in Status /\ ResetSize \in SizeReg
  BY ResetTypes
<1>4. RegOK
  <2>1. s2mm_sa \in StartAddresses
    BY DEF Init, StartAddresses, Words
  <2>2. wr_frm_store \in Stores
    BY <1>2 DEF Init, Stores
  <2> QED BY <1>3, <2>1, <2>2 DEF Init, RegOK
<1>5. CallOK
  <2>1. 0 \in Counts /\ "idle" \in PCs /\ "idle" \in Returns
    BY DEF Counts, PCs, Returns
  <2> QED BY <1>3, <2>1, Zenon DEF Init, CallOK, Given, Vectors
<1>6. HistOK
  <2>1. 0 \in Found /\ "any" \in Wishes
    BY DEF Found, Wishes
  <2>2. held \subseteq Buffers /\ addressed \in BOOLEAN /\ checked \in BOOLEAN
    BY DEF Init
  <2> QED BY <2>1, <2>2, Zenon DEF Init, HistOK
<1> QED BY <1>1, <1>4, <1>5, <1>6

\* What the core does leaves its registers in their ranges.
LEMMA CoreType ==
    ASSUME TypeOK, Core
    PROVE  TypeOK'
<1>0. /\ s2mm_vdmacr \in Control /\ s2mm_vdmasr \in Status
      /\ wr_frm_store \in 0 .. num_stores - 1 /\ num_stores \in 1 .. 16
  BY StoresNat, TypeParts DEF RegOK, Stores
<1>1. s2mm_vdmacr' \in Control
  BY <1>0 DEF Core, Begin, Halted, Frame, FrameError, HaltError, Control
<1>2. s2mm_vdmasr' \in Status
  <2>1. CASE Begin
    BY <1>0, <2>1 DEF Begin, Status
  <2>2. CASE Halted
    BY <1>0, <2>2 DEF Halted, Status
  <2>3. CASE Frame
    BY <1>0, <2>3 DEF Frame, Status
  <2>4. CASE FrameError
    <3>1. PICK e \in FrameErrors : s2mm_vdmasr' = [s2mm_vdmasr EXCEPT !.errs =
              @ \cup {e} \cup (IF e = "sof_early_err" THEN {"vdma_int_err"} ELSE {})]
      BY <2>4 DEF FrameError
    <3> QED BY <1>0, <3>1 DEF Status, FrameErrors, HaltErrors
  <2>5. CASE HaltError
    <3>1. PICK e \in HaltErrors : s2mm_vdmasr' = [s2mm_vdmasr EXCEPT !.errs = @ \cup {e}]
      BY <2>5 DEF HaltError
    <3> QED BY <1>0, <3>1 DEF Status
  <2> QED BY <2>1, <2>2, <2>3, <2>4, <2>5 DEF Core
<1>3. wr_frm_store' \in 0 .. num_stores - 1
  <2>1. (wr_frm_store + 1) % num_stores \in 0 .. num_stores - 1
    BY <1>0
  <2> QED BY <1>0, <2>1 DEF Core, Begin, Halted, Frame, FrameError, HaltError
<1>4. /\ UNCHANGED <<_long_addrs, num_stores, s2mm_sa, s2mm_size, pc, cr, k, frm_bufs>>
      /\ UNCHANGED <<frm_format, wait_for_end, then, detected, held, addressed, checked, wanted>>
  BY DEF Core, Begin, Halted, Frame, FrameError, HaltError, confVars, callVars, histVars, bufVars
<1>5. StartAddresses' = StartAddresses /\ Stores' = Stores
  BY <1>4 DEF StartAddresses, SaRegs, NumSa, Words, Stores
<1>6. (ConfOK /\ RegOK /\ CallOK /\ HistOK)'
  BY <1>1, <1>2, <1>3, <1>4, <1>5, TypeParts DEF ConfOK, RegOK, CallOK, HistOK, Stores
<1> QED BY <1>6, TypeParts, PTL

\* The core stays as it is built.
LEMMA SameCore ==
    ASSUME TypeOK, UNCHANGED confVars
    PROVE  /\ ConfOK' /\ StartAddresses' = StartAddresses /\ Stores' = Stores
           /\ SaRegs' = SaRegs /\ NumSa' = NumSa
BY TypeParts DEF confVars, ConfOK, StartAddresses, SaRegs, NumSa, Words, Stores

\* The locals after a return are of their types.
LEMMA ReturnType ==
    ASSUME Return
    PROVE  CallOK'
<1>1. /\ "idle" \in PCs /\ ResetControl \in Control /\ 0 \in Counts /\ <<>> \in Vectors
      /\ NoFormat \in Given /\ FALSE \in BOOLEAN /\ "idle" \in Returns
  BY ResetTypes DEF PCs, Counts, Vectors, Given, Returns
<1> QED BY <1>1 DEF Return, CallOK

\* The calls of the driver keep the types.
LEMMA CallType ==
    ASSUME TypeOK, Call
    PROVE  TypeOK'
<1> SUFFICES ConfOK' /\ RegOK' /\ CallOK' /\ HistOK'
  BY TypeParts, PTL
<1>0. ConfOK' /\ StartAddresses' = StartAddresses /\ Stores' = Stores
  BY SameCore DEF Call
<1>c. ConfOK /\ RegOK /\ CallOK /\ HistOK
  BY TypeParts
<1>r. ASSUME UNCHANGED regVars PROVE RegOK'
  BY <1>0, <1>c, <1>r DEF RegOK, regVars
<1>h. ASSUME NEW bs \in FrmBufs, Hand(bs)
      PROVE  /\ held' \subseteq Buffers /\ addressed' \in BOOLEAN
             /\ frm_bufs' \in Vectors /\ k' \in Counts
  <2>1. bs \in Vectors
    BY DEF Vectors
  <2>2. Elements(bs) \subseteq Buffers
    BY <2>1, VectorType
  <2>3. held' \subseteq Buffers
    BY <1>c, <1>h, <2>2, Zenon DEF Hand, HistOK
  <2>4. addressed' \in BOOLEAN
    BY <1>h, Zenon DEF Hand
  <2> QED BY <1>h, <2>1, <2>3, <2>4 DEF Hand, Counts
<1>1. ASSUME NEW bs \in FrmBufs, NEW f \in Given, config(bs, f)
      PROVE  RegOK' /\ CallOK' /\ HistOK'
  <2>1. cr' \in Control
    BY <1>1, <1>c DEF config, Control, RegOK
  <2>2. Hand(bs) /\ checked' \in BOOLEAN
    BY <1>1, Zenon DEF config
  <2>3. CallOK'
    BY <1>c, <1>1, <1>h, <2>1, <2>2 DEF config, Goto, PCs, CallOK
  <2>4. HistOK'
    BY <1>c, <1>1, <1>h, <2>2 DEF config, HistOK
  <2> QED BY <1>1, <1>r, <2>3, <2>4 DEF config
<1>2. ASSUME NEW bs \in FrmBufs, init_buffers(bs) PROVE RegOK' /\ CallOK' /\ HistOK'
  <2>1. CallOK'
    BY <1>c, <1>2, <1>h DEF init_buffers, Goto, PCs, CallOK
  <2>2. HistOK'
    BY <1>c, <1>2, <1>h DEF init_buffers, HistOK
  <2> QED BY <1>2, <1>r, <2>1, <2>2 DEF init_buffers
<1>3. ASSUME NEW f \in Formats, set_frame_format(f) PROVE RegOK' /\ CallOK' /\ HistOK'
  <2>1. f \in Given
    BY DEF Given
  <2>2. CallOK' /\ HistOK'
    BY <1>c, <1>3, <2>1 DEF set_frame_format, Goto, PCs, CallOK, HistOK
  <2> QED BY <1>3, <1>r, <2>2 DEF set_frame_format
<1>4. ASSUME NEW f \in Given, start(f) PROVE RegOK' /\ CallOK' /\ HistOK'
  <2>1. CallOK'
    BY <1>c, <1>4 DEF start, Goto, PCs, CallOK, Returns
  <2>2. checked' \in BOOLEAN
    BY <1>4, Zenon DEF start
  <2>3. HistOK'
    BY <1>c, <1>4, <2>2 DEF start, HistOK, Wishes
  <2> QED BY <1>4, <1>r, <2>1, <2>3 DEF start
<1>5. ASSUME NEW w \in BOOLEAN, stop(w) PROVE RegOK' /\ CallOK' /\ HistOK'
  <2>1. cr' \in Control
    BY <1>5, <1>c DEF stop, StopBit, Control, RegOK
  <2>2. CallOK'
    BY <1>c, <1>5, <2>1 DEF stop, Goto, PCs, CallOK
  <2>3. HistOK'
    BY <1>c, <1>5 DEF stop, HistOK, Wishes, bufVars
  <2> QED BY <1>5, <1>r, <2>2, <2>3 DEF stop
<1>6. CASE reset
  <2>1. s2mm_vdmasr' \in Status
    BY <1>6, <1>c DEF reset, Status, RegOK
  <2>2. CallOK'
    BY <1>c, <1>6 DEF reset, Goto, PCs, CallOK, callVars
  <2>3. HistOK'
    BY <1>c, <1>6 DEF reset, HistOK, Wishes, bufVars
  <2> QED BY <1>0, <1>c, <1>6, <2>1, <2>2, <2>3 DEF reset, RegOK
<1>7. CASE autodetect_num_frmbufs
  <2>1. CallOK'
    BY <1>c, <1>7 DEF autodetect_num_frmbufs, Goto, PCs, CallOK, callVars
  <2>2. HistOK'
    BY <1>c, <1>7 DEF autodetect_num_frmbufs, HistOK
  <2> QED BY <1>0, <1>7, <1>r, <2>1, <2>2 DEF autodetect_num_frmbufs
<1> QED BY <1>0, <1>1, <1>2, <1>3, <1>4, <1>5, <1>6, <1>7 DEF Call, Given

\* A format in use has sizes that fit the size registers.
LEMMA FormatFits ==
    ASSUME NEW f \in Given
    PROVE  /\ f.hsize \in 0 .. 2^16 - 1 /\ Vsize(f.height) \in 0 .. 2^13 - 1
           /\ f.height \in Nat /\ Vsize(f.height) <= f.height
<1>1. f.hsize \in 0 .. 2^16 - 1 /\ f.height \in 0 .. 2^16 - 1
  <2>1. CASE f \in Formats
    <3>1. f \in [hsize : 1 .. 2^16 - 1, height : 1 .. 2^16 - 1]
      BY <2>1, VdmaAssumption
    <3>2. f.hsize \in 1 .. 2^16 - 1 /\ f.height \in 1 .. 2^16 - 1
      BY <3>1
    <3> QED BY <3>2
  <2>2. CASE f = NoFormat
    BY <2>2 DEF NoFormat
  <2> QED BY <2>1, <2>2 DEF Given
<1> QED BY <1>1 DEF Vsize

\* The steps of a call in progress keep the types; the loops stop within the registers
\* of the accessor.
LEMMA CallStepType ==
    ASSUME TypeOK, CallStep
    PROVE  TypeOK'
<1> SUFFICES ConfOK' /\ RegOK' /\ CallOK' /\ HistOK'
  BY TypeParts, PTL
<1>0. ConfOK' /\ StartAddresses' = StartAddresses /\ Stores' = Stores
  BY SameCore DEF CallStep
<1>c. ConfOK /\ RegOK /\ CallOK /\ HistOK
  BY TypeParts
<1>r. ASSUME UNCHANGED regVars PROVE RegOK'
  BY <1>0, <1>c, <1>r DEF RegOK, regVars
<1>h. ASSUME UNCHANGED histVars PROVE HistOK'
  BY <1>c, <1>h DEF HistOK, histVars, bufVars
<1>a. ASSUME AssertFails PROVE RegOK' /\ CallOK' /\ HistOK'
  <2>1. CallOK' /\ HistOK'
    BY <1>c, <1>a DEF AssertFails, Goto, PCs, CallOK, callVars, HistOK
  <2> QED BY <1>a, <1>r, <2>1 DEF AssertFails
<1>1. CASE ConfigWrite
  <2>1. CallOK'
    BY <1>c, <1>1 DEF ConfigWrite, Goto, PCs, CallOK, callVars
  <2> QED BY <1>0, <1>c, <1>1, <1>h, <2>1 DEF ConfigWrite, RegOK, CallOK
<1>2. CASE InitBuffer
  <2>1. CASE k < SaSize /\ s2mm_sa' = [r \in SaRegs |-> IF r = k THEN SaWord(k) ELSE s2mm_sa[r]]
             /\ k' = k + 1
             /\ UNCHANGED <<s2mm_vdmacr, s2mm_vdmasr, s2mm_size, wr_frm_store, pc, cr>>
             /\ UNCHANGED <<frm_bufs, frm_format, wait_for_end, then, histVars>>
    <3>1. k \in Nat /\ k + 1 \in Counts
      BY <1>c, <2>1 DEF CallOK, Counts, SaSize
    <3>2. s2mm_sa' \in StartAddresses
      <4>1. SaWord(k) \in Words
        BY <1>2, <3>1, SaWordType DEF InitBuffer
      <4> QED BY <1>c, <2>1, <4>1 DEF RegOK, StartAddresses
    <3>3. CallOK'
      BY <1>c, <2>1, <3>1 DEF CallOK
    <3> QED BY <1>0, <1>c, <1>h, <2>1, <3>2, <3>3 DEF RegOK
  <2> QED BY <1>0, <1>2, <1>a, <2>1 DEF InitBuffer
<1>3. CASE InitDone
  <2>1. CallOK'
    <3>1. CASE frm_format = NoFormat
      BY <1>3, <3>1, ReturnType DEF InitDone
    <3>2. CASE frm_format # NoFormat
      BY <1>c, <1>3, <3>2 DEF InitDone, Goto, PCs, CallOK, callVars
    <3> QED BY <3>1, <3>2
  <2>2. held' \subseteq Buffers
    BY <1>c, <1>3, VectorType DEF InitDone, CallOK
  <2>3. addressed' \in BOOLEAN
    BY <1>3, Zenon DEF InitDone
  <2>4. HistOK'
    BY <1>c, <1>3, <2>2, <2>3 DEF InitDone, HistOK
  <2> QED BY <1>0, <1>3, <1>r, <2>1, <2>4 DEF InitDone
<1>4. CASE SetFormat
  <2>1. s2mm_size' \in SizeReg
    <3>1. frm_format.hsize \in 0 .. 2^16 - 1 /\ Vsize(frm_format.height) \in 0 .. 2^13 - 1
      BY <1>c, FormatFits DEF CallOK
    <3>2. s2mm_size \in SizeReg
      BY <1>c DEF RegOK
    <3> QED BY <1>4, <3>1, <3>2 DEF SetFormat, SizeReg
  <2>2. CallOK'
    <3>1. CASE Return
      BY <3>1, ReturnType
    <3>2. CASE pc' \in PCs /\ UNCHANGED callVars
      BY <1>c, <3>2 DEF CallOK, callVars
    <3>3. Return \/ (pc' \in PCs /\ UNCHANGED callVars)
      BY <1>c, <1>4 DEF SetFormat, Goto, PCs, CallOK, Returns
    <3> QED BY <3>1, <3>2, <3>3
  <2>3. UNCHANGED <<s2mm_vdmacr, s2mm_vdmasr, s2mm_sa, wr_frm_store, histVars>>
    BY <1>4 DEF SetFormat
  <2> QED BY <1>0, <1>c, <1>h, <2>1, <2>2, <2>3 DEF RegOK
<1>5. CASE StartRead
  <2>1. cr' \in Control
    BY <1>c, <1>5 DEF StartRead, Control, RegOK
  <2>2. CallOK'
    BY <1>c, <1>5, <2>1 DEF StartRead, Goto, PCs, CallOK
  <2> QED BY <1>0, <1>5, <1>r, <1>h, <2>2 DEF StartRead
<1>6. CASE StartWrite
  <2>1. CallOK'
    BY <1>6, ReturnType DEF StartWrite
  <2>2. HistOK'
    BY <1>c, <1>6 DEF StartWrite, HistOK, Wishes, bufVars
  <2> QED BY <1>0, <1>c, <1>6, <2>1, <2>2 DEF StartWrite, RegOK, CallOK
<1>7. CASE StopWrite
  <2>1. CallOK'
    <3>1. CASE wait_for_end
      BY <1>c, <1>7, <3>1 DEF StopWrite, Goto, PCs, CallOK, callVars
    <3>2. CASE ~wait_for_end
      BY <1>7, <3>2, ReturnType DEF StopWrite
    <3> QED BY <3>1, <3>2
  <2> QED BY <1>0, <1>c, <1>7, <1>h, <2>1 DEF StopWrite, RegOK, CallOK
<1>8. CASE StopReturn
  <2>1. HistOK'
    BY <1>c, <1>8 DEF StopReturn, HistOK, Wishes, bufVars
  <2> QED BY <1>0, <1>8, <1>r, <2>1, ReturnType DEF StopReturn
<1>9. CASE ResetWrite
  <2>1. HistOK'
    BY <1>c, <1>9 DEF ResetWrite, HistOK
  <2>2. s2mm_sa' \in StartAddresses
    BY <1>9 DEF ResetWrite, StartAddresses, Words
  <2>3. wr_frm_store' \in Stores
    BY <1>9, StoresNat DEF ResetWrite, Stores
  <2>4. RegOK'
    BY <1>0, <1>9, <2>2, <2>3, ResetTypes DEF ResetWrite, RegOK
  <2> QED BY <1>0, <1>9, <2>1, <2>4, ReturnType DEF ResetWrite
<1>10. CASE Detect
  <2>1. CASE AssertFails
    BY <1>0, <2>1, <1>a
  <2>2. CASE ~AssertFails
    <3>1. /\ s2mm_sa' = [r \in SaRegs |-> IF r \in SaOf(k) THEN Pattern[2] ELSE s2mm_sa[r]]
          /\ UNCHANGED <<s2mm_vdmacr, s2mm_vdmasr, s2mm_size, wr_frm_store, bufVars, wanted>>
          /\ \/ /\ k' = k + 1
                /\ UNCHANGED <<pc, cr, frm_bufs, frm_format, wait_for_end, then, detected>>
             \/ detected' = k /\ Return
          /\ k < 16
      BY <1>10, <2>2, Zenon DEF Detect, num_addrs
    <3>2. s2mm_sa' \in StartAddresses
      BY <1>c, <3>1 DEF RegOK, StartAddresses, Words
    <3>3. RegOK'
      BY <1>0, <1>c, <3>1, <3>2 DEF RegOK
    <3>4. k \in 0 .. 32
      BY <1>c DEF CallOK, Counts
    <3>5. CASE /\ k' = k + 1
               /\ UNCHANGED <<pc, cr, frm_bufs, frm_format, wait_for_end, then, detected>>
      BY <1>0, <1>c, <3>1, <3>3, <3>4, <3>5 DEF CallOK, HistOK, Counts, bufVars
    <3>6. CASE detected' = k /\ Return
      <4>1. detected' \in Found
        BY <3>1, <3>4, <3>6 DEF Found
      <4> QED BY <1>0, <1>c, <3>1, <3>3, <3>6, <4>1, ReturnType DEF HistOK, bufVars
    <3> QED BY <3>1, <3>5, <3>6
  <2> QED BY <2>1, <2>2
<1>11. CASE DetectAll
  <2>1. HistOK'
    BY <1>c, <1>11 DEF DetectAll, HistOK, Found, num_addrs, bufVars
  <2> QED BY <1>0, <1>11, <1>r, <2>1, ReturnType DEF DetectAll
<1> QED
  BY <1>0, <1>1, <1>2, <1>3, <1>4, <1>5, <1>6, <1>7, <1>8, <1>9, <1>10, <1>11 DEF CallStep
-----------------------------------------------------------------------------
(* When the channel runs *)

\* What the core does: it starts only with the run bit set, clears the run bit only
\* with an error, and never forgets an error.
LEMMA CoreEffect ==
    ASSUME TypeOK, Core
    PROVE  /\ s2mm_vdmacr'.rs => s2mm_vdmacr.rs
           /\ ~s2mm_vdmasr'.halted => s2mm_vdmacr.rs \/ ~s2mm_vdmasr.halted
           /\ ~s2mm_vdmasr'.halted /\ s2mm_vdmasr.halted => s2mm_vdmacr.rs
           /\ s2mm_vdmacr.rs => s2mm_vdmacr'.rs \/ s2mm_vdmasr'.errs # {}
           /\ s2mm_vdmasr.errs \subseteq s2mm_vdmasr'.errs
           /\ UNCHANGED <<confVars, pc, callVars, histVars, s2mm_sa, s2mm_size>>
<1>0. s2mm_vdmacr \in Control /\ s2mm_vdmasr \in Status
  BY TypeParts DEF RegOK
<1> USE <1>0 DEF Control, Status
<1>1. CASE Begin
  BY <1>1 DEF Begin, Core
<1>2. CASE Halted
  BY <1>2 DEF Halted, Core
<1>3. CASE Frame
  BY <1>3 DEF Frame, Core
<1>4. CASE FrameError
  <2>1. PICK e \in FrameErrors : s2mm_vdmasr' = [s2mm_vdmasr EXCEPT !.errs =
            @ \cup {e} \cup (IF e = "sof_early_err" THEN {"vdma_int_err"} ELSE {})]
    BY <1>4 DEF FrameError
  <2> QED BY <1>4, <2>1 DEF FrameError, Core
<1>5. CASE HaltError
  <2>1. PICK e \in HaltErrors : s2mm_vdmasr' = [s2mm_vdmasr EXCEPT !.errs = @ \cup {e}]
    BY <1>5 DEF HaltError
  <2>2. s2mm_vdmasr'.errs = s2mm_vdmasr.errs \cup {e}
    BY <2>1
  <2> QED BY <1>5, <2>1, <2>2 DEF HaltError, Core
<1> QED BY <1>1, <1>2, <1>3, <1>4, <1>5 DEF Core

\* The core preserves what is known of the run bit.
LEMMA CoreRun ==
    ASSUME TypeOK, RunInv, Core
    PROVE  RunInv'
<1>1. Places'
  BY CoreEffect DEF RunInv, Places, callVars
<1>2. Stopped'
  BY CoreEffect DEF RunInv, Stopped, Starting, WritesControl, callVars, histVars
<1>3. Started'
  BY CoreEffect DEF RunInv, Started, Starting, WritesControl, callVars, histVars
<1> QED BY <1>1, <1>2, <1>3 DEF RunInv

\* After a return, the next call has nothing in hand.
LEMMA ReturnPlace ==
    ASSUME Return
    PROVE  /\ pc' = "idle" /\ k' = 0 /\ then' = "idle"
           /\ Places' /\ ~Starting' /\ ~WritesControl' /\ ~Configuring'
BY DEF Return, Places, Starting, WritesControl, Sizes, Configuring

\* The calls of the driver preserve it.
LEMMA CallRun ==
    ASSUME TypeOK, RunInv, Call
    PROVE  RunInv'
<1>0. s2mm_vdmacr \in Control /\ s2mm_vdmasr \in Status /\ cr \in Control
  BY TypeParts DEF RegOK, CallOK
<1> USE DEF RunInv, Places, Stopped, Started, Starting, WritesControl, Sizes
<1>1. ASSUME NEW bs \in FrmBufs, NEW f \in Formats \cup {NoFormat}, config(bs, f)
      PROVE  RunInv'
  <2>1. cr'.rs = s2mm_vdmacr.rs
    BY <1>0, <1>1 DEF config, Control
  <2> QED BY <1>1, <2>1 DEF config, Hand, Goto, regVars
<1>2. ASSUME NEW bs \in FrmBufs, init_buffers(bs) PROVE RunInv'
  BY <1>2 DEF init_buffers, Hand, Goto, regVars
<1>3. ASSUME NEW f \in Formats, set_frame_format(f) PROVE RunInv'
  BY <1>3 DEF set_frame_format, Goto, regVars
<1>4. ASSUME NEW f \in Formats \cup {NoFormat}, start(f) PROVE RunInv'
  BY <1>4 DEF start, Goto, regVars
<1>5. ASSUME NEW w \in BOOLEAN, stop(w) PROVE RunInv'
  <2>1. ~cr'.rs
    BY <1>0, <1>5 DEF stop, StopBit, Control
  <2> QED BY <1>5, <2>1 DEF stop, Goto, regVars
<1>6. CASE reset
  <2>1. s2mm_vdmasr'.halted = s2mm_vdmasr.halted
    BY <1>0, <1>6 DEF reset, Status
  <2> QED BY <1>6, <2>1 DEF reset, Goto, callVars
<1>7. CASE autodetect_num_frmbufs
  BY <1>7 DEF autodetect_num_frmbufs, Goto, regVars, callVars
<1> QED BY <1>1, <1>2, <1>3, <1>4, <1>5, <1>6, <1>7 DEF Call

\* The steps of a call in progress preserve it.
LEMMA CallStepRun ==
    ASSUME TypeOK, RunInv, CallStep
    PROVE  RunInv'
<1>0. /\ s2mm_vdmacr \in Control /\ s2mm_vdmasr \in Status /\ cr \in Control
      /\ then \in Returns
  BY TypeParts DEF RegOK, CallOK
<1> USE DEF RunInv, Places, Stopped, Started, Starting, WritesControl, Sizes
<1>a. ASSUME AssertFails PROVE RunInv'
  BY <1>a DEF AssertFails, Goto, regVars, callVars
<1>r. ASSUME Return, UNCHANGED <<s2mm_vdmacr, s2mm_vdmasr, wanted>> PROVE RunInv'
  BY <1>r, ReturnPlace
<1>1. CASE ConfigWrite
  BY <1>1 DEF ConfigWrite, Goto, callVars, histVars
<1>2. CASE InitBuffer
  BY <1>2, <1>a DEF InitBuffer, histVars
<1>3. CASE InitDone
  <2>1. CASE Return
    BY <1>3, <1>r, <2>1 DEF InitDone, regVars
  <2>2. CASE Goto("stride") /\ UNCHANGED callVars
    BY <1>3, <2>2 DEF InitDone, Goto, regVars, callVars
  <2> QED BY <1>3, <2>1, <2>2 DEF InitDone
<1>4. CASE SetFormat
  <2>1. CASE Return
    BY <1>4, <1>r, <2>1 DEF SetFormat, histVars
  <2>2. CASE ~Return
    BY <1>0, <1>4, <2>2 DEF SetFormat, Goto, callVars, histVars, Returns
  <2> QED BY <2>1, <2>2
<1>5. CASE StartRead
  <2>1. cr'.rs
    BY <1>0, <1>5 DEF StartRead, Control
  <2> QED BY <1>5, <2>1 DEF StartRead, Goto, regVars, histVars
<1>6. CASE StartWrite
  BY <1>6, ReturnPlace DEF StartWrite
<1>7. CASE StopWrite
  <2>1. wanted = "any" \/ wanted \notin {"run", "halt"}
    BY <1>7 DEF StopWrite
  <2>2. CASE Return
    BY <1>7, <2>1, <2>2, ReturnPlace DEF StopWrite, histVars
  <2>3. CASE Goto("stop_wait") /\ UNCHANGED callVars
    BY <1>7, <2>1, <2>3 DEF StopWrite, Goto, callVars, histVars
  <2> QED BY <1>7, <2>2, <2>3 DEF StopWrite
<1>8. CASE StopReturn
  BY <1>8, ReturnPlace DEF StopReturn, isrunning, regVars
<1>9. CASE ResetWrite
  <2>1. s2mm_vdmasr'.halted /\ ~s2mm_vdmacr'.rs
    BY <1>9 DEF ResetWrite, ResetControl, ResetStatus
  <2> QED BY <1>9, <2>1, ReturnPlace DEF ResetWrite
<1>10. CASE Detect
  <2>1. CASE Return /\ UNCHANGED <<s2mm_vdmacr, s2mm_vdmasr, wanted>>
    BY <1>r, <2>1
  <2>2. CASE UNCHANGED <<s2mm_vdmacr, s2mm_vdmasr, wanted, pc, cr, then>>
    BY <1>10, <2>2 DEF Detect
  <2> QED BY <1>10, <1>a, <2>1, <2>2 DEF Detect
<1>11. CASE DetectAll
  BY <1>11, <1>r DEF DetectAll, regVars
<1> QED
  BY <1>1, <1>2, <1>3, <1>4, <1>5, <1>6, <1>7, <1>8, <1>9, <1>10, <1>11 DEF CallStep
-----------------------------------------------------------------------------
(* The start addresses *)

\* Steps that leave the addresses and init_buffers() alone, and steps that take the
\* addresses away.
Aside ==
    /\ UNCHANGED <<s2mm_sa, held, addressed>>
    /\ pc \notin {"config_wr", "sa"} /\ pc' \notin {"config_wr", "sa", "detect"}

Takes ==
    /\ ~addressed' /\ pc' \notin {"config_wr", "sa"}

\* The kinds of steps, as far as the start addresses are concerned.
LEMMA AddressKinds ==
    ASSUME TypeOK, Addresses, RunInv, Next
    PROVE  \/ \E bs \in FrmBufs :
                 /\ Hand(bs) /\ pc = "idle" /\ pc' \in {"config_wr", "sa"}
                 /\ UNCHANGED <<confVars, s2mm_sa>>
           \/ ConfigWrite /\ UNCHANGED confVars
           \/ InitBuffer /\ UNCHANGED confVars
           \/ InitDone /\ UNCHANGED confVars
           \/ Core
           \/ (Aside \/ Takes) /\ UNCHANGED confVars
<1>n. UNCHANGED confVars
  BY DEF Next, Call, CallStep, Core
<1>c. then \in {"idle", "start_rd"}
  BY TypeParts DEF CallOK, Returns
<1> USE <1>n, <1>c DEF Aside, Takes, Goto
<1>1. ASSUME NEW bs \in FrmBufs, NEW f \in Formats \cup {NoFormat}, config(bs, f)
      PROVE  Hand(bs) /\ pc = "idle" /\ pc' \in {"config_wr", "sa"} /\ UNCHANGED s2mm_sa
  BY <1>1 DEF config, regVars
<1>2. ASSUME NEW bs \in FrmBufs, init_buffers(bs)
      PROVE  Hand(bs) /\ pc = "idle" /\ pc' \in {"config_wr", "sa"} /\ UNCHANGED s2mm_sa
  BY <1>2 DEF init_buffers, regVars
<1>3. CASE \/ \E f \in Formats : set_frame_format(f)
           \/ \E f \in Formats \cup {NoFormat} : start(f)
           \/ \E w \in BOOLEAN : stop(w)
           \/ reset
  BY <1>3 DEF set_frame_format, start, stop, reset, regVars, bufVars
<1>4. CASE autodetect_num_frmbufs \/ ResetWrite
  BY <1>4, ReturnPlace DEF autodetect_num_frmbufs, ResetWrite
<1>5. CASE SetFormat
  BY <1>5, ReturnPlace DEF SetFormat, histVars, bufVars
<1>6. CASE StartRead \/ StartWrite \/ StopWrite \/ StopReturn \/ DetectAll
  BY <1>6, ReturnPlace
     DEF StartRead, StartWrite, StopWrite, StopReturn, DetectAll, regVars, histVars, bufVars
<1>7. CASE Detect
  <2>1. ~addressed /\ UNCHANGED addressed
    BY <1>7 DEF Detect, Addresses, AssertFails, bufVars
  <2>2. pc' \in {"idle", "detect", "ended"}
    BY <1>7, ReturnPlace DEF Detect, AssertFails
  <2> QED BY <2>1, <2>2
<1> QED BY <1>1, <1>2, <1>3, <1>4, <1>5, <1>6, <1>7 DEF Next, Call, CallStep

\* What a store holds depends on the registers and on the buffers in use only.
LEMMA SameStore ==
    ASSUME UNCHANGED <<confVars, s2mm_sa>>, held \subseteq held', NEW s, HasBuffer(s)
    PROVE  HasBuffer(s)'
BY DEF HasBuffer, StoreAddress, confVars

\* Start address registers sa whose first n are written by init_buffers(): a store with
\* its registers among them has a buffer of the vector.
LEMMA WrittenStore ==
    ASSUME TypeOK, NEW s \in 0 .. num_stores - 1, Reachable(frm_bufs), NEW n \in Nat,
           n <= NumSaWrites,
           NEW sa, \A r \in SaRegs : r < n => sa[r] = SaWord(r),
           IF _long_addrs THEN 2 * s + 1 < n ELSE s < n
    PROVE  \E b \in Elements(frm_bufs) :
               IF _long_addrs THEN sa[2 * s] = b.hi /\ sa[2 * s + 1] = b.lo
               ELSE 0 = b.hi /\ sa[s] = b.lo
<1>1. /\ num_stores \in 1 .. 16 /\ _long_addrs \in BOOLEAN /\ frm_bufs \in Vectors
  BY StoresNat, TypeParts DEF ConfOK, CallOK
<1>2. Len(frm_bufs) \in Nat
  BY <1>1, VectorType
<1> DEFINE b == frm_bufs[s + 1]
<1>3. CASE _long_addrs
  <2>1. 2 * s \in SaRegs /\ 2 * s + 1 \in SaRegs /\ s + 1 \in 1 .. Len(frm_bufs)
    BY <1>1, <1>2, <1>3 DEF SaRegs, NumSa, NumSaWrites
  <2>2. /\ (2 * s) % 2 = 0 /\ (2 * s) \div 2 = s
        /\ (2 * s + 1) % 2 = 1 /\ (2 * s + 1) \div 2 = s
    OBVIOUS
  <2>3. SaWord(2 * s) = b.hi /\ SaWord(2 * s + 1) = b.lo
    BY <1>3, <2>2 DEF SaWord
  <2>4. sa[2 * s] = b.hi /\ sa[2 * s + 1] = b.lo
    BY <1>3, <2>1, <2>3
  <2>5. b \in Elements(frm_bufs)
    BY <2>1 DEF Elements
  <2> QED BY <1>3, <2>4, <2>5
<1>4. CASE ~_long_addrs
  <2>1. s \in SaRegs /\ s + 1 \in 1 .. Len(frm_bufs)
    BY <1>1, <1>2, <1>4 DEF SaRegs, NumSa, NumSaWrites
  <2>2. sa[s] = b.lo
    BY <1>4, <2>1 DEF SaWord
  <2>3. b.hi = 0
    BY <1>4, <2>1 DEF Reachable
  <2>4. b \in Elements(frm_bufs)
    BY <2>1 DEF Elements
  <2> QED BY <1>4, <2>2, <2>3, <2>4
<1> QED BY <1>1, <1>3, <1>4

\* One turn of the loop of init_buffers() that writes a register.
LEMMA InitBufferStep ==
    ASSUME TypeOK, Written, Addresses, UNCHANGED confVars, pc = "sa",
           k < NumSaWrites, k < SaSize,
           s2mm_sa' = [r \in SaRegs |-> IF r = k THEN SaWord(k) ELSE s2mm_sa[r]],
           k' = k + 1, UNCHANGED <<pc, frm_bufs, held, addressed>>
    PROVE  Written' /\ Addresses'
<1>1. /\ k \in Nat /\ num_stores \in 1 .. 16 /\ _long_addrs \in BOOLEAN
      /\ NumSa \in 1 .. 32 /\ frm_bufs \in Vectors
  BY StoresNat, TypeParts DEF CallOK, ConfOK, Counts
<1>2. /\ SaRegs' = SaRegs /\ NumSaWrites' = NumSaWrites /\ NumSaWrites \in Nat
      /\ \A r : SaWord(r)' = SaWord(r)
  <2>1. Len(frm_bufs) \in Nat
    BY <1>1, VectorType
  <2> QED BY <1>1, <2>1 DEF confVars, SaRegs, NumSa, NumSaWrites, SaWord
<1>3. \A r \in SaRegs : r < k + 1 => s2mm_sa'[r] = SaWord(r)
  <2> SUFFICES ASSUME NEW r \in SaRegs, r < k + 1 PROVE s2mm_sa'[r] = SaWord(r)
    OBVIOUS
  <2>1. r \in Int /\ (r = k \/ r < k)
    BY <1>1 DEF SaRegs
  <2> QED BY <2>1 DEF Written
<1>4. k + 1 <= NumSaWrites
  BY <1>1, <1>2
<1>5. Written'
  BY <1>2, <1>3, <1>4 DEF Written
<1>6. ASSUME addressed, NEW s \in 0 .. num_stores - 1, ~(_long_addrs /\ k + 1 = 2 * s + 1)
      PROVE  HasBuffer(s)'
  <2>1. Reachable(frm_bufs) /\ Elements(frm_bufs) \subseteq held'
    BY <1>6 DEF Addresses
  <2>2. CASE IF _long_addrs THEN k = 2 * s + 1 ELSE k = s
    <3>1. \E b \in Elements(frm_bufs) :
              IF _long_addrs THEN s2mm_sa'[2 * s] = b.hi /\ s2mm_sa'[2 * s + 1] = b.lo
              ELSE 0 = b.hi /\ s2mm_sa'[s] = b.lo
      <4>1. IF _long_addrs THEN 2 * s + 1 < k + 1 ELSE s < k + 1
        BY <1>1, <2>2
      <4>2. k + 1 \in Nat
        BY <1>1
      <4> QED BY <1>3, <1>4, <2>1, <4>1, <4>2, WrittenStore
    <3> QED BY <2>1, <3>1 DEF HasBuffer, StoreAddress, confVars
  <2>3. CASE ~(IF _long_addrs THEN k = 2 * s + 1 ELSE k = s)
    <3>1. HasBuffer(s)
      BY <1>1, <1>6, <2>3 DEF Addresses, Torn
    <3>2. StoreAddress(s)' = StoreAddress(s)
      <4>1. CASE _long_addrs
        <5>1. 2 * s \in SaRegs /\ 2 * s + 1 \in SaRegs /\ k # 2 * s /\ k # 2 * s + 1
          BY <1>1, <1>6, <2>3, <4>1 DEF SaRegs, NumSa
        <5> QED BY <4>1, <5>1 DEF StoreAddress, confVars
      <4>2. CASE ~_long_addrs
        <5>1. s \in SaRegs /\ k # s
          BY <1>1, <2>3, <4>2 DEF SaRegs, NumSa
        <5> QED BY <4>2, <5>1 DEF StoreAddress, confVars
      <4> QED BY <1>1, <4>1, <4>2
    <3> QED BY <3>1, <3>2 DEF HasBuffer
  <2> QED BY <2>2, <2>3
<1>7. addressed' => \A s \in 0 .. num_stores' - 1 : Torn(s)' \/ HasBuffer(s)'
  BY <1>6 DEF Torn, confVars
<1>8. Elements(frm_bufs)' = Elements(frm_bufs) /\ Reachable(frm_bufs)' = Reachable(frm_bufs)
  BY DEF Elements, Reachable, confVars
<1> QED BY <1>5, <1>7, <1>8 DEF Addresses

\* Every step preserves the addresses.
LEMMA AddressStep ==
    ASSUME TypeOK, RunInv, Written, Addresses, Next
    PROVE  Written' /\ Addresses'
<1>v. /\ k \in 0 .. 32 /\ num_stores \in 1 .. 16 /\ _long_addrs \in BOOLEAN
      /\ frm_bufs \in Vectors
  BY StoresNat, TypeParts DEF CallOK, ConfOK, Counts
<1>c. /\ k \in Nat /\ num_stores \in 1 .. 16 /\ _long_addrs \in BOOLEAN
      /\ frm_bufs \in Vectors /\ Len(frm_bufs) \in Nat
  BY <1>v, VectorType
<1>n. num_stores' = num_stores /\ _long_addrs' = _long_addrs
  BY DEF Next, Call, CallStep, Core, confVars
<1>1. ASSUME NEW bs \in FrmBufs, Hand(bs), pc = "idle", pc' \in {"config_wr", "sa"},
             UNCHANGED <<confVars, s2mm_sa>>
      PROVE  Written' /\ Addresses'
  <2>1. frm_bufs' = bs /\ k' = 0 /\ held' = held \cup Elements(bs)
        /\ addressed' = (addressed /\ Reachable(bs))
    BY <1>1 DEF Hand
  <2>2. NumSaWrites' \in Nat /\ \A r \in SaRegs' : ~(r < 0)
    <3>1. bs \in Vectors
      BY DEF Vectors
    <3>2. Len(bs) \in Nat
      BY <3>1, VectorType
    <3> QED BY <1>c, <1>n, <2>1, <3>2 DEF NumSaWrites, SaRegs, NumSa
  <2>3. Written'
    BY <2>1, <2>2 DEF Written
  <2>4. addressed' => \A s \in 0 .. num_stores' - 1 : HasBuffer(s)'
    <3> SUFFICES ASSUME addressed', NEW s \in 0 .. num_stores' - 1 PROVE HasBuffer(s)'
      OBVIOUS
    <3>1. HasBuffer(s)
      BY <1>1, <1>n, <2>1 DEF Addresses, Torn
    <3>2. held \subseteq held'
      BY <2>1
    <3> QED BY <1>1, <3>1, <3>2, SameStore
  <2>5. Elements(frm_bufs)' \subseteq held' /\ (addressed' => Reachable(frm_bufs)')
    BY <2>1, <1>n DEF Elements, Reachable
  <2> QED BY <1>1, <2>3, <2>4, <2>5 DEF Addresses
<1>2. CASE ConfigWrite /\ UNCHANGED confVars
  <2>1. /\ pc = "config_wr" /\ pc' = "sa" /\ k = 0
        /\ UNCHANGED <<s2mm_sa, k, frm_bufs, held, addressed>>
    BY <1>2 DEF ConfigWrite, Goto, Written, callVars, histVars, bufVars
  <2>2. NumSaWrites' \in Nat /\ \A r \in SaRegs' : ~(r < 0)
    BY <1>c, <1>n, <2>1 DEF NumSaWrites, SaRegs, NumSa
  <2>3. Written'
    BY <2>1, <2>2 DEF Written
  <2>4. addressed' => \A s \in 0 .. num_stores' - 1 : HasBuffer(s)'
    BY <1>2, <1>n, <2>1, SameStore DEF Addresses, Torn
  <2>5. Elements(frm_bufs)' \subseteq held' /\ (addressed' => Reachable(frm_bufs)')
    BY <2>1, <1>n DEF Addresses, Elements, Reachable
  <2> QED BY <2>1, <2>3, <2>4, <2>5 DEF Addresses
<1>3. CASE InitBuffer /\ UNCHANGED confVars
  <2>1. CASE AssertFails /\ k = SaSize
    <3>1. pc' = "ended" /\ UNCHANGED <<s2mm_sa, held, addressed>>
      BY <2>1 DEF AssertFails, Goto, regVars
    <3>2. \A s \in 0 .. num_stores - 1 : ~Torn(s)
      BY <1>c, <2>1 DEF Torn, SaSize
    <3>3. addressed' => \A s \in 0 .. num_stores' - 1 : HasBuffer(s)'
      BY <1>3, <1>n, <3>1, <3>2, SameStore DEF Addresses
    <3> QED BY <3>1, <3>3 DEF Written, Addresses
  <2>2. CASE ~(AssertFails /\ k = SaSize)
    <3>1. /\ pc = "sa" /\ k < NumSaWrites /\ k < SaSize
          /\ s2mm_sa' = [r \in SaRegs |-> IF r = k THEN SaWord(k) ELSE s2mm_sa[r]]
          /\ k' = k + 1 /\ UNCHANGED <<pc, frm_bufs, held, addressed>>
      BY <1>3, <2>2 DEF InitBuffer, histVars, bufVars
    <3> QED BY <1>3, <3>1, InitBufferStep
  <2> QED BY <2>1, <2>2
<1>4. CASE InitDone /\ UNCHANGED confVars
  <2>1. pc' \in {"idle", "stride"} /\ UNCHANGED s2mm_sa /\ pc = "sa" /\ k = NumSaWrites
    BY <1>4, ReturnPlace DEF InitDone, Goto, regVars
  <2>2. ASSUME addressed', NEW s \in 0 .. num_stores - 1 PROVE HasBuffer(s)'
    <3>1. Len(frm_bufs) >= num_stores /\ Reachable(frm_bufs) /\ held' = Elements(frm_bufs)
      BY <1>4, <2>2 DEF InitDone
    <3>2. IF _long_addrs THEN 2 * s + 1 < k ELSE s < k
      BY <1>c, <2>1, <3>1 DEF NumSaWrites
    <3>3. \A r \in SaRegs : r < k => s2mm_sa[r] = SaWord(r)
      BY <2>1 DEF Written
    <3>4. \E b \in Elements(frm_bufs) :
              IF _long_addrs THEN s2mm_sa[2 * s] = b.hi /\ s2mm_sa[2 * s + 1] = b.lo
              ELSE 0 = b.hi /\ s2mm_sa[s] = b.lo
      <4>1. k <= NumSaWrites
        BY <1>c, <2>1
      <4> QED BY <1>c, <3>1, <3>2, <3>3, <4>1, WrittenStore
    <3> QED BY <1>n, <2>1, <3>1, <3>4 DEF HasBuffer, StoreAddress
  <2> QED BY <1>n, <2>1, <2>2 DEF Written, Addresses
<1>5. CASE Core
  <2>1. UNCHANGED <<s2mm_sa, pc, k, frm_bufs, held, addressed, confVars>>
    BY <1>5, CoreEffect DEF callVars, histVars, bufVars
  <2>2. /\ NumSaWrites' = NumSaWrites /\ SaRegs' = SaRegs /\ \A r : SaWord(r)' = SaWord(r)
        /\ Elements(frm_bufs)' = Elements(frm_bufs)
        /\ Reachable(frm_bufs)' = Reachable(frm_bufs)
        /\ \A s : Torn(s)' = Torn(s) /\ HasBuffer(s)' = HasBuffer(s)
    BY <2>1 DEF confVars, NumSaWrites, SaRegs, NumSa, SaWord, Elements, Reachable, Torn, HasBuffer,
                StoreAddress
  <2> QED BY <1>n, <2>1, <2>2 DEF Written, Addresses
<1>6. CASE (Aside \/ Takes) /\ UNCHANGED confVars
  <2>1. CASE Takes
    BY <2>1 DEF Takes, Written, Addresses
  <2>2. CASE Aside
    <3>1. addressed' => \A s \in 0 .. num_stores' - 1 : HasBuffer(s)'
      BY <1>6, <1>n, <2>2, SameStore DEF Aside, Addresses, Torn
    <3> QED BY <2>2, <3>1 DEF Aside, Written, Addresses
  <2> QED BY <1>6, <2>1, <2>2
<1> QED BY <1>1, <1>2, <1>3, <1>4, <1>5, <1>6, AddressKinds

-----------------------------------------------------------------------------
(* The sizes *)

\* A frame of the format that config() has compared with the buffers has room in them:
\* the height is cut to the 13 bits of its register.
LEMMA FrameFits ==
    ASSUME NEW f \in Given, NEW b \in Buffers, get_frm_size(f) <= b.size
    PROVE  (IF Vsize(f.height) = 0 THEN 0 ELSE (Vsize(f.height) - 1) * f.hsize + f.hsize) <= b.size
<1>1. /\ f.hsize \in Nat /\ f.height \in Nat
      /\ Vsize(f.height) \in Nat /\ Vsize(f.height) <= f.height
  BY FormatFits
<1>2. b.size \in Nat
  BY BufferType DEF UioRegion
<1> DEFINE v == Vsize(f.height)
           h == f.hsize
<1>3. (v - 1) * h + h = v * h /\ v * h <= f.height * h /\ v * h \in Nat
  <2> HIDE DEF v, h
  <2>1. v \in Nat /\ h \in Nat /\ v <= f.height
    BY <1>1 DEF v, h
  <2>2. (v - 1) * h + h = v * h
    BY <2>1
  <2> QED BY <1>1, <2>1, <2>2, TimesGrows
<1>4. f.height * h = get_frm_size(f) /\ f.height * h \in Nat
  BY <1>1 DEF get_frm_size
<1> QED BY <1>2, <1>3, <1>4

\* Steps that leave the sizes alone.
Idles ==
    /\ UNCHANGED <<s2mm_size, held, checked>>
    /\ ~Configuring /\ ~Configuring'

\* Every step preserves what config() has compared.
LEMMA ComparedStep ==
    ASSUME TypeOK, RunInv, Addresses, Compared, Next
    PROVE  Compared'
<1>c. /\ frm_format \in Given /\ held \subseteq Buffers /\ s2mm_size \in SizeReg
      /\ then \in Returns
  BY TypeParts DEF CallOK, HistOK, RegOK
<1>u. ASSUME ~checked' PROVE Compared'
  BY <1>u DEF Compared
<1>i. ASSUME Idles PROVE Compared'
  BY <1>i DEF Idles, Compared, Configuring, FrameExtent, Sizes
<1>1. ASSUME NEW bs \in FrmBufs, NEW f \in Given, config(bs, f) PROVE Compared'
  BY <1>1 DEF config, Hand, Goto, Compared, Configuring, SizesSuffice, get_frm_size, Sizes
<1>2. CASE \/ \E bs \in FrmBufs : init_buffers(bs)
           \/ \E f \in Formats : set_frame_format(f)
           \/ autodetect_num_frmbufs \/ ResetWrite \/ AssertFails
  BY <1>2, <1>u DEF init_buffers, set_frame_format, autodetect_num_frmbufs, ResetWrite, AssertFails
<1>3. ASSUME NEW f \in Given, start(f) PROVE Compared'
  <2>1. CASE checked /\ f = NoFormat
    <3>1. Idles
      BY <1>3, <2>1 DEF start, Goto, Idles, Configuring, regVars
    <3> QED BY <3>1, <1>i
  <2> QED BY <1>3, <1>u, <2>1 DEF start
<1>4. CASE ConfigWrite
  BY <1>4 DEF ConfigWrite, Goto, Compared, Configuring, SizesSuffice, get_frm_size, callVars,
              histVars, bufVars, Sizes
<1>5. CASE InitBuffer
  <2>1. CASE UNCHANGED <<pc, frm_bufs, frm_format, histVars, s2mm_size>>
    BY <1>5, <2>1 DEF InitBuffer, Compared, Configuring, SizesSuffice, get_frm_size, histVars,
                      bufVars, Sizes
  <2> QED BY <1>2, <1>5, <2>1 DEF InitBuffer
<1>6. CASE InitDone
  <2>1. CASE checked
    <3>1. /\ pc' = "stride" /\ UNCHANGED <<frm_format, checked>> /\ held' = Elements(frm_bufs)
          /\ SizesSuffice(frm_bufs, frm_format)
      BY <1>6, <2>1 DEF InitDone, Goto, Compared, callVars
    <3>2. frm_bufs \in Vectors
      BY TypeParts DEF CallOK
    <3>3. \A i \in 1 .. Len(frm_bufs) : get_frm_size(frm_format) <= frm_bufs[i].size
      BY <3>1 DEF SizesSuffice
    <3>4. \A b \in Elements(frm_bufs) : get_frm_size(frm_format) <= b.size
      BY <3>3 DEF Elements
    <3>5. get_frm_size(frm_format)' = get_frm_size(frm_format)
      BY <3>1 DEF get_frm_size
    <3> QED BY <3>1, <3>4, <3>5 DEF Compared, Configuring, Sizes
  <2> QED BY <1>6, <1>u, <2>1 DEF InitDone
<1>7. CASE SetFormat
  <2>0. UNCHANGED <<held, checked>> /\ pc \in Sizes
    BY <1>7 DEF SetFormat, histVars, bufVars, Sizes
  <2>1. CASE ~checked
    BY <1>u, <2>0, <2>1
  <2>2. CASE checked /\ pc \in {"stride", "hsize"}
    <3>1. UNCHANGED frm_format /\ pc' = (IF pc = "stride" THEN "hsize" ELSE "vsize")
      BY <1>7, <2>2 DEF SetFormat, Goto, callVars
    <3>2. /\ s2mm_size'.stride = frm_format.hsize
          /\ pc = "hsize" => s2mm_size'.hsize = frm_format.hsize
      BY <1>7, <1>c, <2>2 DEF SetFormat, Compared, SizeReg
    <3> QED BY <2>0, <2>2, <3>1, <3>2 DEF Compared, Configuring, Sizes, get_frm_size
  <2>3. CASE checked /\ pc = "vsize"
    <3>1. /\ s2mm_size'.stride = frm_format.hsize /\ s2mm_size'.hsize = frm_format.hsize
          /\ s2mm_size'.vsize = Vsize(frm_format.height)
      BY <1>7, <1>c, <2>3 DEF SetFormat, Compared, SizeReg
    <3>2. pc' \in {"idle", "start_rd"}
      BY <1>7, <1>c, <2>3, ReturnPlace DEF SetFormat, Goto, Returns
    <3>3. ASSUME NEW b \in held PROVE FrameExtent' <= b.size
      <4>1. get_frm_size(frm_format) <= b.size /\ b \in Buffers
        BY <1>c, <2>3 DEF Compared, Sizes
      <4> DEFINE h == frm_format.hsize
                 v == Vsize(frm_format.height)
      <4>2. FrameExtent' = IF v = 0 THEN 0 ELSE (v - 1) * h + h
        BY <3>1 DEF FrameExtent
      <4> QED BY <1>c, <4>1, <4>2, FrameFits
    <3> QED BY <2>0, <3>2, <3>3 DEF Compared, Configuring, Sizes
  <2> QED BY <2>0, <2>1, <2>2, <2>3 DEF Sizes
<1>8. CASE Idles
  BY <1>8, <1>i
<1>9. CASE (\E w \in BOOLEAN : stop(w)) \/ reset
  BY <1>9, <1>i DEF stop, reset, Goto, Idles, Configuring, regVars, bufVars
<1>10. CASE StartRead \/ StartWrite \/ StopWrite \/ StopReturn \/ DetectAll
  BY <1>10, <1>i, ReturnPlace
     DEF StartRead, StartWrite, StopWrite, StopReturn, DetectAll, Goto, Idles, Configuring,
         regVars, histVars, bufVars
<1>11. CASE Detect
  <2>1. CASE UNCHANGED <<s2mm_size, bufVars>>
    <3>1. Idles
      BY <1>11, <2>1, ReturnPlace DEF Detect, AssertFails, Goto, Idles, Configuring, bufVars
    <3> QED BY <3>1, <1>i
  <2> QED BY <1>2, <1>11, <2>1 DEF Detect
<1>12. CASE Core
  <2>1. UNCHANGED <<s2mm_size, pc, frm_bufs, frm_format, held, checked>>
    BY <1>12, CoreEffect DEF callVars, histVars, bufVars
  <2> QED BY <2>1 DEF Compared, Configuring, FrameExtent, SizesSuffice, get_frm_size, Sizes
<1> QED
  BY <1>1, <1>2, <1>3, <1>4, <1>5, <1>6, <1>7, <1>9, <1>10, <1>11, <1>12
     DEF Next, Call, CallStep, Given

-----------------------------------------------------------------------------
(* Detection *)

\* A buffer passes the test of both patterns exactly if the core has its registers,
\* whatever the registers that the core lacks read as.
LEMMA PassesExactly ==
    ASSUME TypeOK, k \in Nat
    PROVE  (\A p \in Patterns, r \in SaOf(k) : ReadBack(r, p) = Pattern[p])
           <=> k < num_stores
<1>1. num_stores \in 1 .. 16 /\ _long_addrs \in BOOLEAN
  BY StoresNat, TypeParts DEF ConfOK
<1>2. ASSUME k < num_stores
      PROVE  \A p \in Patterns, r \in SaOf(k) : ReadBack(r, p) = Pattern[p]
  <2>1. SaOf(k) \subseteq SaRegs
    <3>1. CASE _long_addrs
      BY <1>1, <1>2, <3>1 DEF SaOf, SaRegs, NumSa
    <3>2. CASE ~_long_addrs
      BY <1>1, <1>2, <3>2 DEF SaOf, SaRegs, NumSa
    <3> QED BY <1>1, <3>1, <3>2
  <2> QED BY <2>1 DEF ReadBack
<1>3. ASSUME ~(k < num_stores)
      PROVE  \E p \in Patterns, r \in SaOf(k) : ReadBack(r, p) # Pattern[p]
  <2>1. PICK r \in SaOf(k) : r \notin SaRegs
    <3>1. CASE _long_addrs
      <4>1. 2 * k \notin SaRegs /\ 2 * k \in SaOf(k)
        BY <1>1, <1>3, <3>1 DEF SaOf, SaRegs, NumSa
      <4> QED BY <4>1
    <3>2. CASE ~_long_addrs
      <4>1. k \notin SaRegs /\ k \in SaOf(k)
        BY <1>1, <1>3, <3>2 DEF SaOf, SaRegs, NumSa
      <4> QED BY <4>1
    <3> QED BY <1>1, <3>1, <3>2
  <2>2. ReadBack(r, 2) \in {NoWord, Pattern[1]}
    BY <2>1 DEF ReadBack
  <2>3. Pattern[2] # NoWord /\ Pattern[2] # Pattern[1]
    BY SMT DEF Pattern, NoWord
  <2> QED BY <2>1, <2>2, <2>3 DEF Patterns
<1> QED BY <1>1, <1>2, <1>3

\* Every step preserves what is known of detection.
LEMMA DetectStep ==
    ASSUME TypeOK, RunInv, Detecting, Next
    PROVE  Detecting'
<1>c. /\ k \in 0 .. 32 /\ num_stores \in 1 .. 16 /\ then \in {"idle", "start_rd"}
  BY TypeParts, StoresNat DEF CallOK, Counts, Returns
<1>n. num_stores' = num_stores
  BY DEF Next, Call, CallStep, Core, confVars
<1>1. CASE autodetect_num_frmbufs
  BY <1>1, <1>c, <1>n
     DEF autodetect_num_frmbufs, Goto, Detecting, RunInv, Places, callVars
<1>2. CASE Detect
  <2>0. CASE AssertFails
    BY <2>0, <1>n DEF AssertFails, Goto, Detecting
  <2>1. CASE ~AssertFails /\ k < num_stores
    <3>1. k' = k + 1 /\ UNCHANGED <<pc, detected>>
      BY <1>2, <1>c, <2>1, PassesExactly DEF Detect
    <3> QED BY <3>1, <1>c, <1>n, <2>1, <1>2 DEF Detecting, Detect
  <2>2. CASE ~AssertFails /\ ~(k < num_stores)
    <3>1. detected' = k /\ pc' = "idle"
      BY <1>2, <1>c, <2>2, PassesExactly, ReturnPlace DEF Detect
    <3>2. k = num_stores
      BY <1>2, <1>c, <2>2 DEF Detecting, Detect
    <3> QED BY <3>1, <3>2, <1>n DEF Detecting
  <2> QED BY <2>0, <2>1, <2>2
<1>3. CASE DetectAll
  <2>1. k = num_stores
    BY <1>3, <1>c DEF DetectAll, Detecting, num_addrs
  <2> QED BY <1>3, <1>n, <2>1, ReturnPlace DEF DetectAll, Detecting
<1>4. CASE UNCHANGED detected /\ pc' # "detect"
  BY <1>4, <1>n DEF Detecting
<1>5. CASE \/ \E bs \in FrmBufs :
                 init_buffers(bs) \/ \E f \in Formats \cup {NoFormat} : config(bs, f)
           \/ \E f \in Formats : set_frame_format(f)
           \/ \E f \in Formats \cup {NoFormat} : start(f)
  BY <1>4, <1>5 DEF init_buffers, config, set_frame_format, start, Goto
<1>6. CASE (\E w \in BOOLEAN : stop(w)) \/ reset
  BY <1>4, <1>6 DEF stop, reset, Goto
<1>7. CASE ConfigWrite \/ InitBuffer \/ InitDone \/ SetFormat
  BY <1>4, <1>7, <1>c, ReturnPlace
     DEF ConfigWrite, InitBuffer, AssertFails, InitDone, SetFormat, Goto, histVars
<1>8. CASE StartRead \/ StartWrite \/ StopWrite \/ StopReturn \/ ResetWrite
  BY <1>4, <1>8, ReturnPlace
     DEF StartRead, StartWrite, StopWrite, StopReturn, ResetWrite, Goto, histVars
<1>9. CASE Core
  <2>1. UNCHANGED <<k, pc, detected>>
    BY <1>9, CoreEffect DEF callVars, histVars
  <2> QED BY <2>1, <1>n DEF Detecting
<1> QED
  BY <1>1, <1>2, <1>3, <1>5, <1>6, <1>7, <1>8, <1>9 DEF Next, Call, CallStep
-----------------------------------------------------------------------------
(* The invariant and what it gives *)

\* The initial states satisfy the invariant.
LEMMA VdmaInit == Init => VdmaInv
<1> SUFFICES ASSUME Init PROVE VdmaInv
  OBVIOUS
<1>1. TypeOK
  BY TypeInit
<1>2. s2mm_vdmasr.halted /\ ~s2mm_vdmacr.rs
  BY DEF Init, ResetControl, ResetStatus
<1>3. RunInv
  BY <1>2 DEF Init, RunInv, Places, Stopped, Started, Starting, WritesControl, Sizes
<1>4. Written /\ Addresses /\ Compared /\ Detecting
  BY DEF Init, Written, Addresses, Compared, Detecting
<1> QED BY <1>1, <1>3, <1>4 DEF VdmaInv

\* Every step preserves the invariant.
LEMMA VdmaStep == VdmaInv /\ [Next]_vars => VdmaInv'
<1> SUFFICES ASSUME VdmaInv, [Next]_vars PROVE VdmaInv'
  OBVIOUS
<1> USE DEF VdmaInv
<1>1. CASE Next
  <2>1. TypeOK'
    BY <1>1, CoreType, CallType, CallStepType DEF Next
  <2>2. RunInv'
    BY <1>1, CoreRun, CallRun, CallStepRun DEF Next
  <2>3. Written' /\ Addresses'
    BY <1>1, AddressStep
  <2>4. Compared'
    BY <1>1, ComparedStep
  <2>5. Detecting'
    BY <1>1, DetectStep
  <2> QED BY <2>1, <2>2, <2>3, <2>4, <2>5
<1>2. CASE UNCHANGED vars
  <2>1. UNCHANGED <<confVars, regVars, pc, callVars, histVars>>
    BY <1>2 DEF vars
  <2>2. TypeOK'
    <3>1. ConfOK' /\ StartAddresses' = StartAddresses /\ Stores' = Stores
      BY <2>1, SameCore
    <3>2. RegOK' /\ CallOK' /\ HistOK'
      BY <2>1, <3>1, TypeParts DEF RegOK, CallOK, HistOK, regVars, callVars, histVars, bufVars
    <3> QED BY <3>1, <3>2, TypeParts, PTL
  <2>3. RunInv'
    BY <2>1 DEF RunInv, Places, Stopped, Started, Starting, WritesControl, regVars, callVars,
                histVars
  <2>4. Written'
    BY <2>1 DEF Written, NumSaWrites, SaRegs, NumSa, SaWord, confVars, regVars, callVars
  <2>5. Addresses'
    BY <2>1 DEF Addresses, Torn, HasBuffer, StoreAddress, Elements, Reachable, confVars, regVars,
                callVars, histVars, bufVars
  <2>6. Compared'
    BY <2>1 DEF Compared, Configuring, FrameExtent, SizesSuffice, get_frm_size, Sizes, regVars,
                callVars, histVars, bufVars
  <2>7. Detecting'
    BY <2>1 DEF Detecting, confVars, callVars, histVars
  <2> QED BY <2>2, <2>3, <2>4, <2>5, <2>6, <2>7
<1> QED BY <1>1, <1>2

\* Every behaviour of the driver and the core satisfies the invariant.
THEOREM VdmaInvariant == Spec => []VdmaInv
BY VdmaInit, VdmaStep, PTL DEF Spec

\* The registers of the channel and the locals of the driver stay in their ranges.
THEOREM VdmaTypes == Spec => []TypeOK
<1>1. VdmaInv => TypeOK
  BY DEF VdmaInv
<1> QED BY <1>1, VdmaInvariant, PTL

\* Once every frame store has been given a buffer, a running channel stores frames in
\* buffers of the application, also while it is configured again with others, and within
\* them if config() has found nothing to log: for every number of frame stores, both
\* widths of addresses, all vectors of buffers and all formats.
THEOREM VdmaWritesOnlyFrameBuffers == Spec => []WritesOnlyFrameBuffers
<1>1. VdmaInv => WritesOnlyFrameBuffers
  <2> SUFFICES ASSUME VdmaInv, addressed, ~Torn(wr_frm_store)
               PROVE  \E b \in held :
                          /\ StoreAddress(wr_frm_store) = <<b.hi, b.lo>>
                          /\ checked /\ ~Configuring => FrameExtent <= b.size
    BY DEF WritesOnlyFrameBuffers
  <2>1. wr_frm_store \in 0 .. num_stores - 1
    BY TypeParts DEF VdmaInv, RegOK, Stores
  <2>2. HasBuffer(wr_frm_store)
    BY <2>1 DEF VdmaInv, Addresses
  <2>3. checked /\ ~Configuring => \A b \in held : FrameExtent <= b.size
    BY DEF VdmaInv, Compared
  <2> QED BY <2>2, <2>3 DEF HasBuffer
<1> QED BY <1>1, VdmaInvariant, PTL

\* After stop(true) the channel stays halted until start() is called, also while config()
\* writes the control register back.
THEOREM VdmaStopHalts == Spec => []StopHalts
<1>1. VdmaInv => StopHalts
  BY DEF VdmaInv, RunInv, Stopped, StopHalts
<1> QED BY <1>1, VdmaInvariant, PTL

\* A channel that start() has set to run and that does not run any more has an error
\* that check_for_errors() reports, whatever errors the core may run into.
THEOREM VdmaHaltIsReported == Spec => []HaltIsReported
<1>1. VdmaInv => HaltIsReported
  BY DEF VdmaInv, RunInv, Started, HaltIsReported, check_for_errors
<1> QED BY <1>1, VdmaInvariant, PTL

\* autodetect_num_frmbufs() returns the number of frame stores of the core, for each
\* number and whatever the registers that the core lacks read as.
THEOREM VdmaDetectExact == Spec => []DetectExact
<1>1. VdmaInv => DetectExact
  BY DEF VdmaInv, Detecting, DetectExact
<1> QED BY <1>1, VdmaInvariant, PTL
-----------------------------------------------------------------------------
(***************************************************************************)
(* The frame format that config() and start() are given: the line length   *)
(* that set_frame_format() writes to the size registers is that of         *)
(* FrameFormat.                                                            *)
(***************************************************************************)
\* After a call that has returned, the line length is what update_hsize() computes from
\* what the object reports.
Fresh == outcome = "returned" /\ bpp # 0 =>
    /\ pix_per_word = word_width \div bpp
    /\ hsize \in Hsize(dim.width, pix_per_word, word_width)

\* Dimensions, bytes per pixel and word width are in the ranges of their types.
Ranges ==
    /\ dim \in [width : 0 .. 2^16 - 1, height : 0 .. 2^16 - 1]
    /\ bpp \in 0 .. 2^16 - 1
    /\ word_width \in 0 .. 2^8 - 1

FormatInv == Ranges /\ Fresh

\* CeilDiv is the least number of words with room for w pixels, p in each.
LEMMA Ceil ==
    ASSUME NEW w \in Nat, NEW p \in Nat \ {0}
    PROVE  /\ CeilDiv(w, p) \in 0 .. w
           /\ CeilDiv(w, p) * p >= w
           /\ CeilDiv(w, p) = 0 \/ (CeilDiv(w, p) - 1) * p < w
           /\ \A m \in Nat : w <= m * p => CeilDiv(w, p) <= m
<1> DEFINE q == CeilDiv(w, p)
<1>1. q \in Nat /\ p * q <= w + p - 1 /\ w + p - 1 < p * q + p
  <2>1. w + p - 1 \in Nat
    OBVIOUS
  <2> QED BY <2>1, DivFacts DEF CeilDiv
<1> HIDE DEF q
<1>2. p * q \in Nat /\ q * p = p * q
  BY <1>1
<1>3. q * p >= w
  BY <1>1, <1>2
<1>4. (q - 1) * p = q * p - p
  BY <1>1
<1>5. (q - 1) * p < w
  BY <1>1, <1>2, <1>4
<1>6. ASSUME NEW m \in Nat, w <= m * p
      PROVE  q <= m
  <2> SUFFICES ASSUME q > m PROVE FALSE
    BY <1>1
  <2>1. q - 1 >= m
    BY <1>1
  <2>2. (q - 1) * p = m * p + (q - 1 - m) * p /\ (q - 1 - m) * p >= 0 /\ m * p \in Nat
    BY <1>1, <2>1
  <2> QED BY <1>1, <1>5, <1>6, <2>2
<1>7. q <= w
  <2>1. w <= w * p
    OBVIOUS
  <2> QED BY <2>1, <1>6
<1> QED BY <1>1, <1>3, <1>5, <1>6, <1>7 DEF q

\* What update_hsize() computes is the line length, whenever it is representable: the
\* line's words do not overflow the 16 bits of _hsize.
LEMMA FitsLine ==
    ASSUME FormatInv, outcome = "returned", Representable
    PROVE  IsLineLength(hsize)
<1>0. dim.width \in Nat /\ word_width \in Nat /\ bpp \in 1 .. word_width
  <2>1. dim.width \in 0 .. 2^16 - 1 /\ word_width \in 0 .. 2^8 - 1
    BY DEF FormatInv, Ranges
  <2> QED BY <2>1 DEF Representable
<1> DEFINE p == word_width \div bpp
<1> DEFINE w == dim.width
<1> DEFINE q == CeilDiv(w, p)
<1> DEFINE m == (2^16 - 1) \div word_width
<1>1. p \in Nat \ {0}
  <2>1. p \in Nat /\ word_width < bpp * p + bpp
    BY <1>0, DivFacts
  <2>2. p # 0
    <3> SUFFICES ASSUME p = 0 PROVE FALSE
      OBVIOUS
    <3>1. bpp * p = 0
      BY <1>0
    <3> QED BY <1>0, <2>1, <3>1
  <2> QED BY <2>1, <2>2
<1>2. pix_per_word = p /\ hsize \in Hsize(w, p, word_width)
  BY <1>0 DEF FormatInv, Fresh
<1>3. hsize = (q * word_width) % 2^16
  BY <1>1, <1>2 DEF Hsize
<1>4. m \in Nat /\ word_width * m <= 2^16 - 1 /\ w <= m * p
  <2>1. word_width \in Nat \ {0} /\ 2^16 - 1 \in Nat
    BY <1>0
  <2>2. m \in Nat /\ word_width * m <= 2^16 - 1
    BY <2>1, DivFacts
  <2>3. w <= m * p
    BY DEF Representable
  <2> QED BY <2>2, <2>3
<1>5. /\ q \in 0 .. w /\ q * p >= w
      /\ q = 0 \/ (q - 1) * p < w
      /\ q <= m
  <2> HIDE DEF p, w, m
  <2>1. w \in Nat
    BY <1>0 DEF w
  <2> QED BY <1>1, <1>4, <2>1, Ceil
<1>6. q * word_width \in 0 .. 2^16 - 1
  <2> HIDE DEF q, m
  <2>1. q \in Nat /\ q <= m /\ word_width \in Nat
    BY <1>0, <1>5 DEF w
  <2>2. m \in Nat /\ m * word_width <= 2^16 - 1
    BY <1>4, <2>1
  <2>3. q * word_width \in Nat /\ q * word_width <= m * word_width
    BY <2>1, <2>2, TimesGrows
  <2> QED BY <2>1, <2>2, <2>3
<1>7. hsize = q * word_width
  <2> DEFINE x == q * word_width
  <2>1. x \in 0 .. 2^16 - 1 => x % 2^16 = x
    <3> HIDE DEF x
    <3> QED OBVIOUS
  <2> QED BY <1>3, <1>6, <2>1
<1> HIDE DEF q
<1> QED BY <1>5, <1>7 DEF IsLineLength, w, p

\* The constructor leaves the line length that belongs to an empty frame.
LEMMA FormatInit == FFInit => FormatInv
<1> SUFFICES ASSUME FFInit PROVE FormatInv
  OBVIOUS
<1>1. dim \in [width : 0 .. 2^16 - 1, height : 0 .. 2^16 - 1] /\ dim.width = 0
  BY DEF FFInit
<1>2. bpp = 1 /\ word_width = 4 /\ pix_per_word = 4 /\ hsize = 0
  BY DEF FFInit
<1>3. word_width \div bpp = 4 /\ hsize = (CeilDiv(0, 4) * 4) % 2^16
  BY <1>2 DEF CeilDiv
<1>4. Ranges
  <2>1. 1 \in 0 .. 2^16 - 1 /\ 4 \in 0 .. 2^8 - 1
    OBVIOUS
  <2> QED BY <1>1, <1>2, <2>1 DEF Ranges
<1>5. hsize \in Hsize(dim.width, pix_per_word, word_width)
  BY <1>1, <1>2, <1>3 DEF Hsize
<1> QED BY <1>2, <1>3, <1>4, <1>5 DEF FormatInv, Fresh

\* update_hsize() brings the line length up to date.
LEMMA UpdateFresh ==
    ASSUME update_hsize
    PROVE  Fresh'
BY DEF update_hsize, Fresh, Hsize

\* The bytes per pixel of a format's code are in the range of _bpp.
LEMMA PxBytes ==
    ASSUME NEW f \in PixelFormat
    PROVE  ((f \div 2^16) % 2^8) \div 8 \in 0 .. 2^16 - 1
<1>1. PixelFormat \subseteq Nat
  BY DEF PixelFormat, Code
<1>2. f \in Nat
  BY <1>1
<1>3. f \div 2^16 \in Nat
  BY <1>2
<1>4. (f \div 2^16) % 2^8 \in 0 .. 2^8 - 1
  BY <1>3
<1> QED BY <1>4

\* The dimensions the setters are called with.
LEMMA DimType ==
    ASSUME NEW d \in Dims
    PROVE  d \in [width : 0 .. 2^16 - 1, height : 0 .. 2^16 - 1]
BY FormatAssumption DEF Dims

\* A setter that throws, or that ends with update_hsize().
LEMMA SetterStep ==
    ASSUME Ranges, NEW d \in [width : 0 .. 2^16 - 1, height : 0 .. 2^16 - 1],
           NEW ww \in 0 .. 2^8 - 1, dim' = d,
           \/ Throw
           \/ bpp' \in 0 .. 2^16 - 1 /\ word_width' = ww /\ update_hsize
    PROVE  FormatInv'
<1>1. CASE Throw
  BY <1>1 DEF Throw, FormatInv, Ranges, Fresh
<1>2. CASE bpp' \in 0 .. 2^16 - 1 /\ word_width' = ww /\ update_hsize
  <2>1. Ranges'
    BY <1>2 DEF Ranges
  <2> QED BY <1>2, <2>1, UpdateFresh DEF FormatInv
<1> QED BY <1>1, <1>2

\* Every setter preserves the invariant.
LEMMA FormatStep == FormatInv /\ [FFNext]_ffVars => FormatInv'
<1> SUFFICES ASSUME FormatInv, [FFNext]_ffVars PROVE FormatInv'
  OBVIOUS
<1>r. /\ Ranges /\ dim \in [width : 0 .. 2^16 - 1, height : 0 .. 2^16 - 1]
      /\ word_width \in 0 .. 2^8 - 1 /\ bpp \in 0 .. 2^16 - 1
  BY DEF FormatInv, Ranges
<1>w. \A ww \in WordWidths : ww \in 0 .. 2^8 - 1
  BY FormatAssumption
<1>b. \A b \in Bpps : b \in 0 .. 2^16 - 1
  BY FormatAssumption
<1>1. ASSUME NEW d \in Dims, NEW ww \in WordWidths, NEW b \in Bpps, set_format_bpp(d, b, ww)
      PROVE  FormatInv'
  BY <1>1, <1>r, <1>w, <1>b, DimType, SetterStep DEF set_format_bpp, update_bpp
<1>2. ASSUME NEW d \in Dims, NEW ww \in WordWidths, NEW f \in PixelFormat \cup {unknown},
             set_format(d, f, ww)
      PROVE  FormatInv'
  BY <1>2, <1>r, <1>w, DimType, PxBytes, SetterStep DEF set_format, update_px_fmt
<1>3. ASSUME NEW d \in Dims, NEW ww \in WordWidths, NEW n \in Named \cup {NoName},
             set_format_str(d, n, ww)
      PROVE  FormatInv'
  <2>1. pix_fmt_from_str(n) \in PixelFormat \cup {unknown}
    BY DEF pix_fmt_from_str, Named
  <2> QED BY <1>2, <1>3, <2>1 DEF set_format_str
<1>4. ASSUME NEW d \in Dims, set_dim(d) PROVE FormatInv'
  BY <1>4, <1>r, DimType, SetterStep DEF set_dim
<1>5. ASSUME NEW b \in Bpps, set_bpp(b) PROVE FormatInv'
  BY <1>5, <1>r, <1>b, SetterStep DEF set_bpp, update_bpp
<1>6. ASSUME NEW f \in PixelFormat \cup {unknown}, set_pix_fmt(f) PROVE FormatInv'
  BY <1>6, <1>r, PxBytes, SetterStep DEF set_pix_fmt, update_px_fmt
<1>7. ASSUME NEW ww \in WordWidths, set_word_width(ww) PROVE FormatInv'
  BY <1>7, <1>r, <1>w, SetterStep DEF set_word_width
<1>8. CASE UNCHANGED ffVars
  BY <1>8 DEF ffVars, FormatInv, Ranges, Fresh, Hsize
<1> QED BY <1>1, <1>2, <1>3, <1>4, <1>5, <1>6, <1>7, <1>8 DEF FFNext

\* After every call that returns, the line length belongs to the dimensions, the pixel
\* size and the word width, for all values of their types: also after a setter that
\* threw when half done.
THEOREM FormatLineLength == FFSpec => []LineLength
<1>1. FormatInv => LineLength
  BY FitsLine DEF LineLength
<1> QED BY <1>1, FormatInit, FormatStep, PTL DEF FFSpec
=============================================================================
