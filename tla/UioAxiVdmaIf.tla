---------------------------- MODULE UioAxiVdmaIf ----------------------------
(***************************************************************************)
(* The S2MM channel of the AXI video DMA core and the driver that programs *)
(* it (src/src/UioAxiVdmaIf.cpp).  One thread calls the driver; the core   *)
(* runs beside it, so every access to a register that the core may change  *)
(* is a step of its own.                                                   *)
(*                                                                         *)
(* The core is hardware and modelled from the register description         *)
(* (src/inc/udmaio/rdl/AxiVdma.hpp).  It stores each frame at the start    *)
(* address of the current frame store and goes on to the next store.       *)
(*                                                                         *)
(* pc is the driver's place: idle, or before the register access it names. *)
(***************************************************************************)
EXTENDS Integers, Sequences

CONSTANTS Stores32,  \* numbers of frame stores of cores with 32-bit addresses
          Stores64,  \* the same for 64-bit addresses
          ReadsAs,   \* what a start address register the core lacks reads as
          FrmBufs,   \* vectors of frame buffers the application configures
          Formats,   \* frame formats in use: line length and height
          VErrors    \* errors the core may run into

FrameErrors == {"sof_early_err", "eol_early_err", "sof_late_err", "eol_late_err"}
HaltErrors  == {"vdma_int_err", "vdma_slv_err", "vdma_dec_err"}

\* A memory region: the high and the low half of its address, and its size.
UioRegion == [hi : Nat, lo : Nat, size : Nat]

\* 0x55555555 and 0xaaaaaaaa, as signed 32-bit integers.
Pattern  == <<1431655765, -1431655766>>
NoWord   == 0
NoFormat == [hsize |-> 0, height |-> 0]

ASSUME VdmaAssumption ==
    /\ Stores32 \subseteq 1 .. 16 /\ Stores64 \subseteq 1 .. 16
    /\ ReadsAs \in {"zero", "pattern"}
    /\ FrmBufs \subseteq Seq(UioRegion)
    /\ Formats \subseteq [hsize : 1 .. 2^16 - 1, height : 1 .. 2^16 - 1]
    /\ VErrors \subseteq FrameErrors \cup HaltErrors

\* The product of get_frm_size(), an int, does not overflow.
ASSUME FrameSizeAssumption == \A f \in Formats : f.hsize * f.height <= 2147483647

VARIABLES
    _long_addrs,  \* two registers for each start address, as the core is built
    num_stores,   \* frame stores the core is built with
    s2mm_vdmacr,  \* control register: rs, circular_park, repeat_en
    s2mm_vdmasr,  \* status register: halted, the error bits set
    s2mm_sa,      \* start address registers
    s2mm_size,    \* stride, hsize and vsize registers
    wr_frm_store, \* frame store the core works on
    pc,           \* see above
    cr, k, frm_bufs, frm_format, wait_for_end,  \* locals of the call in progress
    then,         \* where set_frame_format() returns to
    detected,     \* what autodetect_num_frmbufs() has returned, 0 before
    \* History:
    held,         \* frame buffers the application has given to the driver
    addressed,    \* every frame store has been given the address of one of them
    checked,      \* their sizes have been compared with the format, and suffice
    wanted        \* "run", "halt" or "any": what start(), stop(true) left

confVars == <<_long_addrs, num_stores>>
regVars  == <<s2mm_vdmacr, s2mm_vdmasr, s2mm_sa, s2mm_size, wr_frm_store>>
callVars == <<cr, k, frm_bufs, frm_format, wait_for_end, then>>
bufVars  == <<held, addressed, checked>>
histVars == <<detected, bufVars, wanted>>
vars     == <<confVars, regVars, pc, callVars, histVars>>

\* The accessor has 16 start address registers, 4 bytes each; the core has one or two
\* for each frame store.
SaSize == 16
NumSa  == num_stores * (IF _long_addrs THEN 2 ELSE 1)
SaRegs == 0 .. NumSa - 1

ResetControl == [rs |-> FALSE, circular_park |-> FALSE, repeat_en |-> FALSE]
ResetStatus  == [halted |-> TRUE, errs |-> {}]
ResetSize    == [stride |-> 0, hsize |-> 0, vsize |-> 0]

Elements(bs) == {bs[i] : i \in 1 .. Len(bs)}

\* The frame buffers of the application, and what a start address register may hold.
Buffers == UNION {Elements(bs) : bs \in FrmBufs}
Words   == {NoWord, Pattern[1], Pattern[2]} \cup {b.hi : b \in Buffers} \cup {b.lo : b \in Buffers}
PCs     == {"idle", "config_wr", "sa", "stride", "hsize", "vsize", "start_rd", "start_wr",
            "stop_wr", "stop_wait", "reset_wr", "detect", "ended"}

\* Registers and locals are in their ranges.
TypeOK ==
    /\ _long_addrs \in BOOLEAN
    /\ num_stores \in IF _long_addrs THEN Stores64 ELSE Stores32
    /\ s2mm_vdmacr \in [rs : BOOLEAN, circular_park : BOOLEAN, repeat_en : BOOLEAN]
    /\ s2mm_vdmasr \in [halted : BOOLEAN, errs : SUBSET (FrameErrors \cup HaltErrors)]
    /\ s2mm_sa \in [SaRegs -> Words]
    /\ s2mm_size \in [stride : 0 .. 2^16 - 1, hsize : 0 .. 2^16 - 1, vsize : 0 .. 2^13 - 1]
    /\ wr_frm_store \in 0 .. num_stores - 1
    /\ pc \in PCs
    /\ cr \in [rs : BOOLEAN, circular_park : BOOLEAN, repeat_en : BOOLEAN]
    /\ k \in 0 .. 2 * SaSize
    /\ frm_bufs \in FrmBufs \cup {<<>>}
    /\ frm_format \in Formats \cup {NoFormat}
    /\ wait_for_end \in BOOLEAN
    /\ then \in {"idle", "start_rd"}
    /\ detected \in 0 .. 16
    /\ held \subseteq Buffers
    /\ addressed \in BOOLEAN
    /\ checked \in BOOLEAN
    /\ wanted \in {"any", "run", "halt"}

Init ==
    /\ \/ _long_addrs = FALSE /\ num_stores \in Stores32
       \/ _long_addrs = TRUE  /\ num_stores \in Stores64
    /\ s2mm_vdmacr = ResetControl /\ s2mm_vdmasr = ResetStatus
    /\ s2mm_sa = [r \in SaRegs |-> NoWord]
    /\ s2mm_size = ResetSize /\ wr_frm_store = 0
    /\ pc = "idle" /\ cr = ResetControl /\ k = 0
    /\ frm_bufs = <<>> /\ frm_format = NoFormat /\ wait_for_end = FALSE /\ then = "idle"
    /\ detected = 0 /\ wanted = "any"
    /\ held = {} /\ addressed = FALSE /\ checked = FALSE

-----------------------------------------------------------------------------
(* The core (hardware) *)

\* The run bit is set: the channel begins, unless an internal error asks for a reset.
\* The one that a short frame raises does not.
Begin ==
    /\ s2mm_vdmacr.rs /\ s2mm_vdmasr.halted
    /\ "vdma_int_err" \in s2mm_vdmasr.errs => "sof_early_err" \in s2mm_vdmasr.errs
    /\ s2mm_vdmasr' = [s2mm_vdmasr EXCEPT !.halted = FALSE]
    /\ UNCHANGED <<s2mm_vdmacr, s2mm_sa, s2mm_size, wr_frm_store>>

\* The run bit is clear: the channel halts when it is done with the frame.
Halted ==
    /\ ~s2mm_vdmacr.rs /\ ~s2mm_vdmasr.halted
    /\ s2mm_vdmasr' = [s2mm_vdmasr EXCEPT !.halted = TRUE]
    /\ UNCHANGED <<s2mm_vdmacr, s2mm_sa, s2mm_size, wr_frm_store>>

\* A frame has been stored; in circular mode the next store is next.
Frame ==
    /\ ~s2mm_vdmasr.halted /\ s2mm_size.hsize # 0 /\ s2mm_size.vsize # 0
    /\ wr_frm_store' = IF s2mm_vdmacr.circular_park THEN (wr_frm_store + 1) % num_stores
                       ELSE wr_frm_store
    /\ UNCHANGED <<s2mm_vdmacr, s2mm_vdmasr, s2mm_sa, s2mm_size>>

\* Some errors are only noted, a short frame as an internal error too; the others clear
\* the run bit.
FrameError ==
    /\ ~s2mm_vdmasr.halted
    /\ \E e \in VErrors \cap FrameErrors :
          s2mm_vdmasr' = [s2mm_vdmasr EXCEPT !.errs =
              @ \cup {e} \cup (IF e = "sof_early_err" THEN {"vdma_int_err"} ELSE {})]
    /\ UNCHANGED <<s2mm_vdmacr, s2mm_sa, s2mm_size, wr_frm_store>>

\* A size of zero is an internal error.
HaltError ==
    /\ ~s2mm_vdmasr.halted
    /\ \E e \in HaltErrors :
          /\ e \in VErrors \/ (e = "vdma_int_err" /\ 0 \in {s2mm_size.hsize, s2mm_size.vsize})
          /\ s2mm_vdmasr' = [s2mm_vdmasr EXCEPT !.errs = @ \cup {e}]
    /\ s2mm_vdmacr' = [s2mm_vdmacr EXCEPT !.rs = FALSE]
    /\ UNCHANGED <<s2mm_sa, s2mm_size, wr_frm_store>>

Core == (Begin \/ Halted \/ Frame \/ FrameError \/ HaltError)
        /\ UNCHANGED <<confVars, pc, callVars, histVars>>

-----------------------------------------------------------------------------
(* Configuration *)

Goto(l) == pc' = l

\* A call returns; its locals are gone.
Return ==
    /\ pc' = "idle"
    /\ cr' = ResetControl /\ k' = 0
    /\ frm_bufs' = <<>> /\ frm_format' = NoFormat /\ wait_for_end' = FALSE /\ then' = "idle"

\* An index beyond the array of start address registers fails an assertion, which ends
\* the process.  The core goes on.
AssertFails ==
    /\ Goto("ended")
    /\ checked' = FALSE
    /\ UNCHANGED <<regVars, callVars, detected, held, addressed, wanted>>

get_frm_size(f) == f.hsize * f.height

\* The check of config(): a buffer that is too small is logged, and used all the same.
SizesSuffice_First(bs, f) ==  \* mutant: only the first buffer is looked at
    bs # <<>> => bs[1].size >= get_frm_size(f)
SizesSuffice(bs, f) == \A i \in 1 .. Len(bs) : bs[i].size >= get_frm_size(f)

\* The addresses fit the registers of the core: a core with one register for each of
\* them gets the low half only.
Reachable(bs) == _long_addrs \/ \A i \in 1 .. Len(bs) : bs[i].hi = 0

\* The buffers bs join those in use, to be written to the registers.
Hand(bs) ==
    /\ frm_bufs' = bs /\ k' = 0
    /\ held' = held \cup Elements(bs)
    /\ addressed' = (addressed /\ Reachable(bs))

\* config(frm_bufs) or, with a format, config(frm_bufs, frm_format): read the control
\* register to set two bits in it ...
config(bs, f) ==
    /\ pc = "idle"
    /\ cr' = [s2mm_vdmacr EXCEPT !.circular_park = TRUE, !.repeat_en = TRUE]
    /\ Hand(bs) /\ frm_format' = f
    /\ checked' = (f # NoFormat /\ SizesSuffice(bs, f))
    /\ Goto("config_wr")
    /\ UNCHANGED <<regVars, wait_for_end, then, detected, wanted>>

\* ... write it back ...
ConfigWrite ==
    /\ pc = "config_wr"
    /\ s2mm_vdmacr' = cr
    /\ Goto("sa")
    /\ UNCHANGED <<s2mm_vdmasr, s2mm_sa, s2mm_size, wr_frm_store, callVars, histVars>>

\* ... and init_buffers(), which may be called on its own too, writes the addresses.
init_buffers(bs) ==
    /\ pc = "idle"
    /\ Hand(bs)
    /\ checked' = FALSE
    /\ Goto("sa")
    /\ UNCHANGED <<regVars, cr, frm_format, wait_for_end, then, detected, wanted>>

\* One register for each buffer, or two.
NumSaWrites_Short ==  \* mutant: one write short
    Len(frm_bufs) * (IF _long_addrs THEN 2 ELSE 1) - 1
NumSaWrites == Len(frm_bufs) * (IF _long_addrs THEN 2 ELSE 1)

\* What init_buffers() writes to register r: the address of a buffer, cut to the
\* register's 32 bits, or its high half and then its low half.
SaWord(r) ==
    IF ~_long_addrs THEN frm_bufs[r + 1].lo
    ELSE IF r % 2 = 0 THEN frm_bufs[r \div 2 + 1].hi
    ELSE frm_bufs[r \div 2 + 1].lo

\* The loop of init_buffers(), in ascending order.  A write to a register that the core
\* lacks has no effect.
InitBuffer ==
    /\ pc = "sa" /\ k < NumSaWrites
    /\ \/ /\ k < SaSize
          /\ s2mm_sa' = [r \in SaRegs |-> IF r = k THEN SaWord(k) ELSE s2mm_sa[r]]
          /\ k' = k + 1
          /\ UNCHANGED <<s2mm_vdmacr, s2mm_vdmasr, s2mm_size, wr_frm_store, pc, cr>>
          /\ UNCHANGED <<frm_bufs, frm_format, wait_for_end, then, histVars>>
       \/ k = SaSize /\ AssertFails

\* The frame buffers are now those of the vector; with fewer of them than frame stores,
\* the other stores keep what they had.  set_frame_format() follows in config(frm_bufs,
\* frm_format).
InitDone ==
    /\ pc = "sa" /\ k = NumSaWrites
    /\ held' = Elements(frm_bufs)
    /\ addressed' = (Len(frm_bufs) >= num_stores /\ Reachable(frm_bufs))
    /\ IF frm_format = NoFormat THEN Return ELSE Goto("stride") /\ UNCHANGED callVars
    /\ UNCHANGED <<regVars, detected, checked, wanted>>

\* set_frame_format(), called on its own.
set_frame_format(f) ==
    /\ pc = "idle"
    /\ frm_format' = f
    /\ checked' = FALSE
    /\ Goto("stride")
    /\ UNCHANGED <<regVars, cr, k, frm_bufs, wait_for_end, then, detected, held, addressed>>
    /\ UNCHANGED wanted

\* The vertical size register has 13 bits.
Vsize_Wide(height) == height  \* mutant: the height is not cut
Vsize(height) == height % 2^13

\* Its three writes; start(frm_format) goes on to start().
SetFormat ==
    /\ \/ /\ pc = "stride"
          /\ s2mm_size' = [s2mm_size EXCEPT !.stride = frm_format.hsize]
          /\ Goto("hsize") /\ UNCHANGED callVars
       \/ /\ pc = "hsize"
          /\ s2mm_size' = [s2mm_size EXCEPT !.hsize = frm_format.hsize]
          /\ Goto("vsize") /\ UNCHANGED callVars
       \/ /\ pc = "vsize"
          /\ s2mm_size' = [s2mm_size EXCEPT !.vsize = Vsize(frm_format.height)]
          /\ IF then = "idle" THEN Return ELSE Goto(then) /\ UNCHANGED callVars
    /\ UNCHANGED <<s2mm_vdmacr, s2mm_vdmasr, s2mm_sa, wr_frm_store, histVars>>

-----------------------------------------------------------------------------
(* Operation *)

\* start(), start(frm_format): on any channel, also on one that has not been configured.
\* The format is not compared with the size of the buffers.
start(f) ==
    /\ pc = "idle"
    /\ frm_format' = f /\ then' = "start_rd"
    /\ checked' = (checked /\ f = NoFormat)
    /\ wanted' = "any"
    /\ Goto(IF f = NoFormat THEN "start_rd" ELSE "stride")
    /\ UNCHANGED <<regVars, cr, k, frm_bufs, wait_for_end, detected, held, addressed>>

StartRead ==
    /\ pc = "start_rd"
    /\ cr' = [s2mm_vdmacr EXCEPT !.rs = TRUE]
    /\ Goto("start_wr")
    /\ UNCHANGED <<regVars, k, frm_bufs, frm_format, wait_for_end, then, histVars>>

StartWrite ==
    /\ pc = "start_wr"
    /\ s2mm_vdmacr' = cr
    /\ wanted' = "run"
    /\ Return
    /\ UNCHANGED <<s2mm_vdmasr, s2mm_sa, s2mm_size, wr_frm_store, detected, bufVars>>

StopBit_Kept(c) == c  \* mutant: the run bit is not cleared
StopBit(c) == [c EXCEPT !.rs = FALSE]

\* stop(): read, clear the run bit, write ...
stop(w) ==
    /\ pc = "idle"
    /\ cr' = StopBit(s2mm_vdmacr)
    /\ wait_for_end' = w
    /\ wanted' = "any"
    /\ Goto("stop_wr")
    /\ UNCHANGED <<regVars, k, frm_bufs, frm_format, then, detected, bufVars>>

StopWrite ==
    /\ pc = "stop_wr"
    /\ s2mm_vdmacr' = cr
    /\ IF wait_for_end THEN Goto("stop_wait") /\ UNCHANGED callVars ELSE Return
    /\ UNCHANGED <<s2mm_vdmasr, s2mm_sa, s2mm_size, wr_frm_store, histVars>>

isrunning_RunBit == s2mm_vdmacr.rs  \* mutant: the run bit is not the state of the channel
isrunning == ~s2mm_vdmasr.halted

\* ... and poll until the channel has halted.
StopReturn ==
    /\ pc = "stop_wait" /\ ~isrunning
    /\ wanted' = "halt"
    /\ Return
    /\ UNCHANGED <<regVars, detected, bufVars>>

\* reset(): clear all errors, ...
reset ==
    /\ pc = "idle"
    /\ s2mm_vdmasr' = [s2mm_vdmasr EXCEPT !.errs = {}]
    /\ wanted' = "any"
    /\ Goto("reset_wr")
    /\ UNCHANGED <<s2mm_vdmacr, s2mm_sa, s2mm_size, wr_frm_store, callVars>>
    /\ UNCHANGED <<detected, bufVars>>

\* ... then the soft reset, which leaves every register in its default state.
ResetWrite ==
    /\ pc = "reset_wr"
    /\ s2mm_vdmacr' = ResetControl /\ s2mm_vdmasr' = ResetStatus
    /\ s2mm_sa' = [r \in SaRegs |-> NoWord]
    /\ s2mm_size' = ResetSize /\ wr_frm_store' = 0
    /\ held' = {} /\ addressed' = FALSE /\ checked' = FALSE
    /\ Return
    /\ UNCHANGED <<detected, wanted>>

\* check_for_errors(): reads the status register once.
check_for_errors_NoInt ==  \* mutant: the internal error is not looked at
    s2mm_vdmasr.errs \ {"vdma_int_err"} # {}
check_for_errors == s2mm_vdmasr.errs # {}

-----------------------------------------------------------------------------
(* Detection of the number of frame stores *)

\* Only the first 16 buffers are considered.
num_addrs_Short == 15  \* mutant: the last one is left out
num_addrs == 16

\* The registers that belong to buffer i, as the driver addresses them.
SaOf(i) == IF _long_addrs THEN {2 * i, 2 * i + 1} ELSE {i}

\* What register r reads once pattern p has been written to it.
ReadBack(r, p) ==
    IF r \in SaRegs THEN Pattern[p]
    ELSE IF ReadsAs = "zero" THEN NoWord ELSE Pattern[1]

\* The patterns tried on each buffer: a register the core lacks may read as one of them.
Patterns == {1, 2}

\* autodetect_num_frmbufs(), on any channel, also while it runs: the pattern that is
\* written last stays in the registers.
autodetect_num_frmbufs ==
    /\ pc = "idle"
    /\ held' = {} /\ addressed' = FALSE /\ checked' = FALSE
    /\ Goto("detect")
    /\ UNCHANGED <<regVars, callVars, detected, wanted>>

\* One buffer: write and read back; the first that fails ends the loop.
Detect ==
    /\ pc = "detect" /\ k < num_addrs
    /\ \/ /\ SaOf(k) \subseteq 0 .. SaSize - 1
          /\ s2mm_sa' = [r \in SaRegs |-> IF r \in SaOf(k) THEN Pattern[2] ELSE s2mm_sa[r]]
          /\ IF \A p \in Patterns, r \in SaOf(k) : ReadBack(r, p) = Pattern[p]
             THEN /\ k' = k + 1
                  /\ UNCHANGED <<pc, cr, frm_bufs, frm_format, wait_for_end, then, detected>>
             ELSE detected' = k /\ Return
          /\ UNCHANGED <<s2mm_vdmacr, s2mm_vdmasr, s2mm_size, wr_frm_store, bufVars, wanted>>
       \/ ~(SaOf(k) \subseteq 0 .. SaSize - 1) /\ AssertFails

DetectAll ==
    /\ pc = "detect" /\ k = num_addrs
    /\ detected' = k
    /\ Return
    /\ UNCHANGED <<regVars, bufVars, wanted>>

-----------------------------------------------------------------------------
\* A call in progress goes on.
CallStep ==
    /\ \/ ConfigWrite \/ InitBuffer \/ InitDone \/ SetFormat
       \/ StartRead \/ StartWrite \/ StopWrite \/ StopReturn \/ ResetWrite
       \/ Detect \/ DetectAll
    /\ UNCHANGED confVars

Call ==
    /\ \/ \E bs \in FrmBufs :
             init_buffers(bs) \/ \E f \in Formats \cup {NoFormat} : config(bs, f)
       \/ \E f \in Formats : set_frame_format(f)
       \/ \E f \in Formats \cup {NoFormat} : start(f)
       \/ \E w \in BOOLEAN : stop(w)
       \/ reset \/ autodetect_num_frmbufs
    /\ UNCHANGED confVars

Next == Call \/ CallStep \/ Core

Spec == Init /\ [][Next]_vars

\* The driver's thread is scheduled, and a channel whose run bit is clear halts.
FairSpec ==
    /\ Spec
    /\ WF_vars(CallStep)
    /\ WF_vars(Halted /\ UNCHANGED <<confVars, pc, callVars, histVars>>)

-----------------------------------------------------------------------------
\* The address at which the core stores a frame in frame store s.
StoreAddress(s) ==
    IF _long_addrs THEN <<s2mm_sa[2 * s], s2mm_sa[2 * s + 1]>> ELSE <<0, s2mm_sa[s]>>

\* The bytes from the first one of a frame in memory to the last one.
FrameExtent ==
    IF s2mm_size.vsize = 0 THEN 0
    ELSE (s2mm_size.vsize - 1) * s2mm_size.stride + s2mm_size.hsize

\* init_buffers() is between the writes of the two halves of the address of store s.
Torn(s) == pc = "sa" /\ _long_addrs /\ k = 2 * s + 1

\* Buffers or sizes are being written: they belong together when the call returns.
Configuring == pc \in {"config_wr", "sa", "stride", "hsize", "vsize"}

\* Once every frame store has been given a buffer that the core can address, a running
\* channel stores frames at the start of a buffer of the application and nowhere else,
\* whatever is started, stopped or configured again meanwhile; the one exception is a
\* store of which the driver has written half an address.  If config() has found nothing
\* to log, and sizes have not been set without config() since, the frame does not
\* reach beyond its buffer.
WritesOnlyFrameBuffers ==
    ~s2mm_vdmasr.halted /\ addressed /\ ~Torn(wr_frm_store) =>
        \E b \in held :
            /\ StoreAddress(wr_frm_store) = <<b.hi, b.lo>>
            /\ checked /\ ~Configuring => FrameExtent <= b.size

\* stop(true) has returned: the channel has halted and stays so until it is started.
StopHalts == wanted = "halt" => s2mm_vdmasr.halted

\* A channel that has been started and not stopped runs, or check_for_errors() says why.
HaltIsReported == wanted = "run" => s2mm_vdmacr.rs \/ check_for_errors

\* The detected number is the number of frame stores of the core.
DetectExact == detected \in {0, num_stores}

\* stop(true) returns.
StopReturns == pc = "stop_wait" ~> pc = "idle"
=============================================================================
