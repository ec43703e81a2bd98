----------------------------- MODULE HwAccessor -----------------------------
(***************************************************************************)
(* Register access (src/inc/udmaio/RegAccessor.hpp, UioIf.hpp,             *)
(* HwAccessor.hpp, src/src/HwAccessor.cpp) through the accessor that       *)
(* UioConfig has built.                                                    *)
(*                                                                         *)
(* Two threads may use one interface without any lock, as the I/O thread   *)
(* and the application do, so each transaction on the bus is a step of its *)
(* own.  Memory is an array of 32-bit words; a word holds the number of    *)
(* the value whose part it is, so a register is whole if its words agree.  *)
(* Offsets and sizes are counted in words, from the start of the register  *)
(* or the register array.                                                  *)
(***************************************************************************)
EXTENDS UioConfig

CONSTANTS Threads,
          Registers,  \* types of the register or register array
          MaxWords,   \* words of memory after the first one
          MockWords,  \* words of memory of the mock
          Values      \* values written to registers

\* What the static assertions let pass: sizes and strides of whole words, and a single
\* register (array size 0, stride 0) or an array with elements.  An element may overlap
\* the next one.
RegisterTypes ==
    {r \in [size : Nat \ {0}, arr_size : Nat, arr_stride : Nat] :
        r.arr_size = 0 => r.arr_stride = 0}

\* Words up to the end of the last element.
Extent(r) == r.size + (IF r.arr_size = 0 THEN 0 ELSE (r.arr_size - 1) * r.arr_stride)

ASSUME AccessAssumption ==
    /\ Registers \subseteq RegisterTypes
    /\ MaxWords \in Nat /\ MockWords \in Nat
    /\ \A r \in Registers : Extent(r) <= MaxWords
    /\ Values \subseteq Nat \ {0}

\* The registers and at least one word after them, which belongs to somebody else.
Words    == 0 .. MaxWords
Idle     == [op |-> "idle", idx |-> 0, pos |-> 0, val |-> 0, seen |-> {}]
NoAccess == [words |-> {}, kind |-> "none", idx |-> 0]

VARIABLES
    reg,    \* the type of the register, fixed at compile time
    mem,    \* the registers and what follows them
    call,   \* per thread: register access in progress, or the last one
    bus,    \* the last transaction: words it moved, for an element or in bulk
    ended   \* an assertion has ended the process

accessVars == <<reg, mem, call, bus, ended>>
vars == <<configVars, accessVars>>

\* All variables are in their ranges: in particular, an access ends at the latest when
\* it has reached the end of the register.
TypeOK ==
    /\ ConfigTypeOK
    /\ reg \in Registers
    /\ mem \in [Words -> Values \cup {0}]
    /\ call \in [Threads -> [op : {"idle", "rd", "wr", "done"}, idx : Nat,
                             pos : 0 .. reg.size,
                             val : Values \cup {0}, seen : SUBSET (Values \cup {0})]]
    /\ bus \in [words : SUBSET Words, kind : {"none", "register", "bulk"}, idx : Nat]
    /\ ended \in BOOLEAN

Init ==
    /\ ConfigInit
    /\ reg \in Registers
    /\ mem = [w \in Words |-> 0]
    /\ call = [t \in Threads |-> Idle]
    /\ bus = NoAccess
    /\ ended = FALSE

-----------------------------------------------------------------------------
\* The destructor of the interface, when no access is in progress.  The registers of the
\* next interface hold some whole value.
Destroy ==
    /\ \A t \in Threads : call[t].op \in {"idle", "done"}
    /\ UioIfGone
    /\ mem' = [w \in Words |-> 0]
    /\ call' = [t \in Threads |-> Idle]
    /\ bus' = NoAccess
    /\ UNCHANGED <<reg, ended>>

\* The index a caller hands to operator[] of an array, up to one too large; a single
\* register has none.
Index == 0 .. reg.arr_size
InArray(i) == reg.arr_size = 0 \/ i < reg.arr_size

\* operator[] asserts that the element exists.
AssertFails(i) ==
    /\ hw # "none" /\ ~InArray(i)
    /\ ended' = TRUE
    /\ UNCHANGED <<configVars, reg, mem, call, bus>>

\* Where the element is: operator[], or the offset of a single register.
Offs(i) == i * reg.arr_stride

\* The interface hands an access to its accessor.
_reg(t, i, op, v) ==
    /\ hw # "none" /\ call[t].op \in {"idle", "done"} /\ InArray(i)
    /\ call' = [call EXCEPT ![t] = [Idle EXCEPT !.op = op, !.idx = i, !.val = v]]
    /\ UNCHANGED <<configVars, reg, mem, bus, ended>>

\* rd() and wr() of a register or an element.
rd(t, i)    == _reg(t, i, "rd", 0)
wr(t, i, v) == _reg(t, i, "wr", v)

\* Which registers _rd_reg() and _wr_reg() send through _rd_mem64() and _wr_mem64().
Uses64_Large == reg.size > 1  \* mutant: also an odd number of words
Uses64 == reg.size > 1 /\ reg.size % 2 = 0

\* Whether _rd64() and _wr64() are one transaction (max_access_width_t), or the default
\* made of two 32-bit accesses.
Native64_Link == link \in {"axi", "xdma"}  \* mutant: asks the link, not the accessor
Native64 == hw \in {"axi", "xdma"}

\* Words moved by one transaction of an access to the register.
Width == IF Uses64 /\ Native64 THEN 2 ELSE 1

Touched(c) == LET first == Offs(c.idx) + c.pos IN (first .. first + Width - 1) \cap Words

\* _mem_ptr() of the mock throws at its end; a mapping has no such check.
_mem_ptr(c) == hw = "mock" => Touched(c) \subseteq 0 .. MockWords - 1

\* The loops of _rd_mem32(), _rd_mem64(), _wr_mem32(), _wr_mem64(): ascending, until
\* the size is reached.
More_Bytes(p) == p < 4 * reg.size  \* mutant: bytes taken for words
More(p) == p < reg.size

Forward(t, values) ==
    LET p == call[t].pos + Width IN
    /\ call' = [call EXCEPT ![t].pos = p, ![t].seen = @ \cup values,
                            ![t].op = IF More(p) THEN @ ELSE "done"]
    /\ bus' = [words |-> Touched(call[t]), kind |-> "register", idx |-> call[t].idx]

_rd_mem(t) ==
    /\ call[t].op = "rd" /\ _mem_ptr(call[t])
    /\ Forward(t, {mem[w] : w \in Touched(call[t])})
    /\ UNCHANGED <<configVars, reg, mem, ended>>

_wr_mem(t) ==
    /\ call[t].op = "wr" /\ _mem_ptr(call[t])
    /\ mem' = [w \in Words |-> IF w \in Touched(call[t]) THEN call[t].val ELSE mem[w]]
    /\ Forward(t, {})
    /\ UNCHANGED <<configVars, reg, ended>>

\* The mock throws, the access is left where it is: what it wrote so far stays.
Overflow(t) ==
    /\ call[t].op \in {"rd", "wr"} /\ ~_mem_ptr(call[t])
    /\ call' = [call EXCEPT ![t] = Idle]
    /\ UNCHANGED <<configVars, reg, mem, bus, ended>>

\* read_bulk(), write_bulk(): memcpy() from or to memory behind the interface moves one
\* word or more at a time, as it likes.  The mock does nothing.
bulk(n) ==
    /\ hw \notin {"none", "mock"}
    /\ bus' = [words |-> 0 .. n - 1, kind |-> "bulk", idx |-> 0]
    /\ UNCHANGED <<configVars, reg, mem, call, ended>>

Step ==
    \/ ConfigNext /\ UNCHANGED accessVars
    \/ Destroy
    \/ \E i \in Index : AssertFails(i)
    \/ \E t \in Threads :
          \/ \E i \in Index : rd(t, i) \/ \E v \in Values : wr(t, i, v)
          \/ _rd_mem(t) \/ _wr_mem(t) \/ Overflow(t)
    \/ \E n \in {1, 2} : bulk(n)

Next == ~ended /\ Step

Spec == Init /\ [][Next]_vars

-----------------------------------------------------------------------------
\* A register that fits into one access of the accessor is read as it was written, never
\* half of one value and half of another, although threads take no lock: 32 bits on
\* every link, 64 bits where the accessor "supports native 64-bit access", whatever link
\* has been chosen since the accessor was built, and next to other elements of its array,
\* unless the array is declared such that elements overlap.
FitsOneAccess ==
    \/ reg.size = 1
    \/ /\ reg.size = 2 /\ hw \in {"axi", "xdma"}
       /\ reg.arr_size > 0 => reg.arr_stride >= 2
ReadIsWhole ==
    \A t \in Threads : FitsOneAccess => Cardinality(call[t].seen) <= 1

\* An access moves no word outside of the register, or outside of the element of the
\* array that was asked for, whatever the size of the elements and the gap between them.
StaysInRegister ==
    bus.kind = "register" =>
        bus.words \subseteq bus.idx * reg.arr_stride .. bus.idx * reg.arr_stride + reg.size - 1
=============================================================================
