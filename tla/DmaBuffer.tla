------------------------------ MODULE DmaBuffer ------------------------------
(***************************************************************************)
(* The memory behind the descriptor ring: where UioMemSgdma::init_buffers  *)
(* places the buffers, and how the three kinds of DMA buffer find them     *)
(* again when they are read (src/src/UDmaBuf.cpp,                          *)
(* src/inc/udmaio/FpgaMemBufferOverAxi.hpp, FpgaMemBufferOverXdma.hpp).    *)
(*                                                                         *)
(* The engine knows physical addresses, the reader an offset into a        *)
(* mapping or a file.  A block of data is its extent in physical memory:   *)
(* address, length, and how many of its bytes are data.                    *)
(***************************************************************************)
EXTENDS Integers, Sequences

CONSTANTS Kinds,       \* kinds of buffer in use: udmabuf, axi, xdma
          Addr, Size,  \* physical memory, from a page boundary
          Offs,        \* where in its first page an AXI memory begins
          Nums, Sizes, \* numbers and sizes of buffers asked for
          MaxBlocks    \* blocks received in a session

ASSUME BufferAssumption ==
    /\ Kinds \subseteq {"udmabuf", "axi", "xdma"}
    /\ {Addr, Size, Offs, MaxBlocks} \subseteq Nat /\ Offs < Size
    /\ Nums \subseteq Nat \ {0} /\ Sizes \subseteq Nat \ {0}

VARIABLES
    mem,         \* buffer object: none, or its kind
    _buf_addrs,  \* UioMemSgdma: physical address of each buffer
    _buf_size,
    descs,       \* descriptors: buffer_addr, buffer_len, num_stored_bytes (0: empty)
    eng, cur,    \* ring positions of the engine and of the reader
    received,    \* blocks the engine has stored, in order (history)
    out          \* blocks the reader has appended

vars == <<mem, _buf_addrs, _buf_size, descs, eng, cur, received, out>>

Init ==
    /\ mem = "none" /\ _buf_addrs = <<>> /\ _buf_size = 0 /\ descs = <<>>
    /\ eng = 1 /\ cur = 1 /\ received = <<>> /\ out = <<>>

Wrap(i) == (i % Len(descs)) + 1

-----------------------------------------------------------------------------
\* Constructors and destructor: the object may fail to find, open or map its memory.
Open(kind) ==
    /\ mem = "none"
    /\ mem' \in {kind, "none"}
    /\ UNCHANGED <<_buf_addrs, _buf_size, descs, eng, cur, received, out>>

Close ==
    /\ mem # "none"
    /\ mem' = "none"
    /\ _buf_addrs' = <<>> /\ _buf_size' = 0 /\ descs' = <<>>
    /\ eng' = 1 /\ cur' = 1 /\ received' = <<>> /\ out' = <<>>

\* get_phys_region().addr.  UIO maps whole pages: an AXI memory begins inside the first.
RegionAddr_Page == Addr  \* mutant: the address of the page
RegionAddr == IF mem = "axi" THEN Addr + Offs ELSE Addr

BufAddr_Short(i, s) == RegionAddr + (i - 1) * (s - 1)  \* mutant: buffers overlap
BufAddr(i, s) == RegionAddr + (i - 1) * s

\* The length field of a descriptor has 26 bits.
BufferLen(s) == s % 2^26

\* UioMemSgdma::init_buffers() and write_cyc_mode().
init_buffers(n, s) ==
    /\ mem # "none"
    /\ _buf_addrs' = [i \in 1 .. n |-> BufAddr(i, s)]
    /\ _buf_size' = s
    /\ descs' = [i \in 1 .. n |-> [buffer_addr |-> BufAddr(i, s),
                                   buffer_len |-> BufferLen(s), num_stored_bytes |-> 0]]
    /\ eng' = 1 /\ cur' = 1 /\ received' = <<>> /\ out' = <<>>
    /\ UNCHANGED mem

\* The engine fills the next buffer, partly or completely (hardware).
Receive ==
    /\ descs # <<>> /\ Len(received) < MaxBlocks
    /\ descs[eng].num_stored_bytes = 0
    /\ \E len \in {1, descs[eng].buffer_len} \ {0} :
          /\ len <= descs[eng].buffer_len
          /\ descs' = [descs EXCEPT ![eng].num_stored_bytes = len]
          /\ received' = Append(received,
                 [addr |-> descs[eng].buffer_addr, len |-> len, data |-> len])
    /\ eng' = Wrap(eng)
    /\ UNCHANGED <<mem, _buf_addrs, _buf_size, cur, out>>

-----------------------------------------------------------------------------
\* copy_from_buf(): physical address at which the copy of the buffer at addr begins.
\* A mapping begins at Addr; get_virt_mem() is Offs into that of an AXI memory.
\* The file of an XDMA channel is addressed by physical address.
CopiedFrom(addr) ==
    CASE mem = "udmabuf" -> Addr + (addr - RegionAddr)
      [] mem = "axi"     -> Addr + Offs + (addr - RegionAddr)
      [] mem = "xdma"    -> addr

\* Bytes that arrive: all with memcpy(); what read() returns is not looked at.
Copied(len) ==
    IF mem = "xdma" THEN {len, len \div 2} ELSE {len}

\* append_from_buf() for the next block, by read_buffers(), which then frees the buffer.
append_from_buf ==
    /\ descs # <<>> /\ descs[cur].num_stored_bytes # 0
    /\ LET len == descs[cur].num_stored_bytes IN
       \E data \in Copied(len) :
          out' = Append(out, [addr |-> CopiedFrom(_buf_addrs[cur]), len |-> len, data |-> data])
    /\ descs' = [descs EXCEPT ![cur].num_stored_bytes = 0]
    /\ cur' = Wrap(cur)
    /\ UNCHANGED <<mem, _buf_addrs, _buf_size, eng, received>>

Next ==
    \/ \E kind \in Kinds : Open(kind)
    \/ Close
    \/ \E n \in Nums, s \in Sizes : init_buffers(n, s)
    \/ Receive \/ append_from_buf

Spec == Init /\ [][Next]_vars

-----------------------------------------------------------------------------
Bytes(addr, len) == [first |-> addr, end |-> addr + len]
Inside(b, c)     == b.first >= c.first /\ b.end <= c.end
Apart(b, c)      == b.end <= c.first \/ c.end <= b.first

\* The physical memory that is the application's.
Memory == LET skip == IF mem = "axi" THEN Offs ELSE 0 IN Bytes(Addr + skip, Size - skip)

\* "Append received DMA data to vector": the reader gets the blocks the engine has
\* stored, each from where it is and in order, over every kind of buffer, and whole
\* unless read() on an XDMA channel returned early, which copy_from_buf() overlooks.
ReadsReceived ==
    /\ Len(out) <= Len(received)
    /\ \A b \in DOMAIN out :
          /\ out[b].addr = received[b].addr /\ out[b].len = received[b].len
          /\ mem # "xdma" => out[b].data = received[b].data

\* The engine is given only memory of the application, and no byte of it twice.
BuffersApart ==
    \A i \in DOMAIN descs :
        LET b == Bytes(descs[i].buffer_addr, descs[i].buffer_len) IN
        /\ Inside(b, Memory)
        /\ \A j \in DOMAIN descs \ {i} :
              Apart(b, Bytes(descs[j].buffer_addr, descs[j].buffer_len))
=============================================================================
