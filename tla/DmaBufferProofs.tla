--------------------------- MODULE DmaBufferProofs ---------------------------
(***************************************************************************)
(* Proofs about DmaBuffer: where the buffers are and what the reader gets  *)
(* from them, for every number and size of buffers, over every kind of     *)
(* memory.                                                                 *)
(***************************************************************************)
EXTENDS DmaBuffer, SequenceTheorems, TLAPS

N       == Len(descs)
Pending == Len(received) - Len(out)

Desc  == [buffer_addr : Int, buffer_len : Nat, num_stored_bytes : Nat]
Block == [addr : Int, len : Nat, data : Nat]

\* The descriptor d places behind descriptor c of the ring.
Slot(c, d) == IF c + d <= N THEN c + d ELSE c + d - N

\* The variables are in their ranges.
Types ==
    /\ mem \in Kinds \cup {"none"}
    /\ _buf_addrs \in Seq(Int) /\ _buf_size \in Nat /\ descs \in Seq(Desc)
    /\ received \in Seq(Block) /\ out \in Seq(Block)

\* The buffers asked for and the descriptors agree on where the buffers are.
Placed ==
    /\ mem = "none" => descs = <<>> /\ out = <<>>
    /\ Len(_buf_addrs) = N
    /\ N > 0 => N \in Nums /\ _buf_size \in Sizes
    /\ \A i \in 1 .. N :
          /\ _buf_addrs[i] = BufAddr(i, _buf_size)
          /\ descs[i].buffer_addr = _buf_addrs[i]
          /\ descs[i].buffer_len = BufferLen(_buf_size)

\* The blocks that have not been read are in the buffers from the reader to the engine,
\* in order; the other buffers are empty.
Queued ==
    /\ Len(out) <= Len(received)
    /\ descs = <<>> => received = <<>>
    /\ N > 0 =>
          /\ cur \in 1 .. N /\ Pending <= N /\ eng = Slot(cur, Pending)
          /\ \A d \in 0 .. N - 1 :
                IF d < Pending
                THEN /\ descs[Slot(cur, d)].num_stored_bytes # 0
                     /\ descs[Slot(cur, d)].num_stored_bytes = received[Len(out) + 1 + d].len
                     /\ descs[Slot(cur, d)].buffer_addr = received[Len(out) + 1 + d].addr
                ELSE descs[Slot(cur, d)].num_stored_bytes = 0
    /\ \A b \in 1 .. Len(received) : received[b].data = received[b].len

BufferInv == Types /\ Placed /\ Queued /\ ReadsReceived
-----------------------------------------------------------------------------
(* Around the ring *)

\* Places in the ring: Slot stays in it, goes around it once, and Wrap is one place on.
LEMMA SlotFacts ==
    ASSUME N \in Nat, NEW c \in 1 .. N
    PROVE  /\ Wrap(c) = Slot(c, 1) /\ Wrap(c) \in 1 .. N
           /\ Slot(c, 0) = c /\ Slot(c, N) = c
           /\ \A d \in 0 .. N : Slot(c, d) \in 1 .. N
           /\ \A d \in 0 .. N - 1 : /\ Slot(Slot(c, 1), d) = Slot(c, d + 1)
                                    /\ Slot(Slot(c, d), 1) = Slot(c, d + 1)
           /\ \A d, e \in 0 .. N - 1 : Slot(c, d) = Slot(c, e) => d = e
<1>1. Wrap(c) = IF c = N THEN 1 ELSE c + 1
  <2>1. CASE c = N
    <3>1. N % N = 0
      OBVIOUS
    <3> QED BY <2>1, <3>1 DEF Wrap, N
  <2>2. CASE c < N
    <3>1. c % N = c
      BY <2>2
    <3> QED BY <2>2, <3>1 DEF Wrap, N
  <2> QED BY <2>1, <2>2
<1>2. Wrap(c) = Slot(c, 1) /\ Wrap(c) \in 1 .. N
  BY <1>1 DEF Slot
<1>3. Slot(c, 0) = c /\ Slot(c, N) = c /\ \A d \in 0 .. N : Slot(c, d) \in 1 .. N
  BY DEF Slot
<1>4. \A d \in 0 .. N - 1 : /\ Slot(Slot(c, 1), d) = Slot(c, d + 1)
                            /\ Slot(Slot(c, d), 1) = Slot(c, d + 1)
  BY DEF Slot
<1>5. \A d, e \in 0 .. N - 1 : Slot(c, d) = Slot(c, e) => d = e
  BY DEF Slot
<1> QED BY <1>2, <1>3, <1>4, <1>5

\* Receive and append_from_buf set one field of one descriptor.
LEMMA DescUpdate ==
    ASSUME descs \in Seq(Desc), NEW i \in 1 .. N, NEW v \in Nat,
           descs' = [descs EXCEPT ![i].num_stored_bytes = v]
    PROVE  /\ descs' \in Seq(Desc) /\ N' = N
           /\ \A j \in 1 .. N :
                 /\ descs'[j].buffer_addr = descs[j].buffer_addr
                 /\ descs'[j].buffer_len = descs[j].buffer_len
                 /\ descs'[j].num_stored_bytes =
                        IF j = i THEN v ELSE descs[j].num_stored_bytes
<1> DEFINE c == [descs[i] EXCEPT !.num_stored_bytes = v]
<1>1. descs[i] \in Desc /\ i \in DOMAIN descs
  BY ElementOfSeq, LenProperties DEF N
<1>2. c \in Desc /\ c.buffer_addr = descs[i].buffer_addr /\ c.buffer_len = descs[i].buffer_len
      /\ c.num_stored_bytes = v
  BY <1>1 DEF Desc
<1>3. descs' = [descs EXCEPT ![i] = c]
  BY <1>1
<1> HIDE DEF c
<1>4. descs' \in Seq(Desc) /\ Len(descs') = Len(descs)
  BY <1>2, <1>3, ExceptSeq DEF N
<1>5. \A j \in 1 .. N : descs'[j] = IF j = i THEN c ELSE descs[j]
  BY <1>1, <1>3, LenProperties DEF N
<1> QED BY <1>2, <1>4, <1>5 DEF N

\* Every kind of buffer copies from where the engine has stored.
LEMMA CopiedWhereStored ==
    ASSUME mem \in Kinds, NEW a \in Int
    PROVE  CopiedFrom(a) = a
<1>1. mem \in {"udmabuf", "axi", "xdma"} /\ Addr \in Nat /\ Offs \in Nat
  BY BufferAssumption
<1> QED BY <1>1 DEF CopiedFrom, RegionAddr

\* Buffer addresses and lengths are numbers.
LEMMA BufNumbers ==
    ASSUME NEW i \in Nat, NEW s \in Nat
    PROVE  BufAddr(i, s) \in Int /\ BufferLen(s) \in 0 .. s
<1>1. Addr \in Nat /\ Offs \in Nat
  BY BufferAssumption
<1>2. RegionAddr \in Int
  BY <1>1 DEF RegionAddr
<1>3. BufAddr(i, s) \in Int
  BY <1>2 DEF BufAddr
<1>4. BufferLen(s) \in 0 .. s
  BY DEF BufferLen
<1> QED BY <1>3, <1>4
-----------------------------------------------------------------------------
(* The steps *)

\* The initial states satisfy the invariant.
LEMMA BufferInit == Init => BufferInv
<1> SUFFICES ASSUME Init PROVE BufferInv
  OBVIOUS
<1>1. <<>> \in Seq(Int) /\ <<>> \in Seq(Desc) /\ <<>> \in Seq(Block)
  OBVIOUS
<1>2. Types
  BY <1>1 DEF Init, Types
<1>3. Placed /\ Queued /\ ReadsReceived
  BY DEF Init, Placed, Queued, ReadsReceived, N
<1> QED BY <1>2, <1>3 DEF BufferInv

\* Opening a memory leaves an empty ring empty.
LEMMA OpenInv ==
    ASSUME BufferInv, NEW kind \in Kinds, Open(kind)
    PROVE  BufferInv'
<1>1. mem = "none" /\ descs = <<>> /\ out = <<>> /\ received = <<>>
  BY DEF BufferInv, Placed, Queued, Open
<1>2. UNCHANGED <<_buf_addrs, _buf_size, descs, eng, cur, received, out>>
  BY DEF Open
<1>3. Types'
  BY <1>2 DEF BufferInv, Types, Open
<1>4. Placed'
  BY <1>1, <1>2 DEF BufferInv, Placed, N
<1>5. Queued' /\ ReadsReceived'
  BY <1>1, <1>2 DEF Queued, ReadsReceived, N
<1> QED BY <1>3, <1>4, <1>5 DEF BufferInv

\* Closing it leaves nothing behind.
LEMMA CloseInv ==
    ASSUME BufferInv, Close
    PROVE  BufferInv'
<1>1. <<>> \in Seq(Int) /\ <<>> \in Seq(Desc) /\ <<>> \in Seq(Block)
  OBVIOUS
<1>2. Types'
  BY <1>1 DEF Close, Types
<1>3. Placed' /\ Queued' /\ ReadsReceived'
  BY DEF Close, Placed, Queued, ReadsReceived, N
<1> QED BY <1>2, <1>3 DEF BufferInv

\* init_buffers() makes a ring of empty buffers.
LEMMA InitBuffersInv ==
    ASSUME BufferInv, NEW n \in Nums, NEW s \in Sizes, init_buffers(n, s)
    PROVE  BufferInv'
<1>1. n \in Nat \ {0} /\ s \in Nat \ {0} /\ mem \in Kinds
  BY BufferAssumption DEF BufferInv, Types, init_buffers
<1>2. \A i \in 1 .. n : BufAddr(i, s) \in Int /\ BufferLen(s) \in Nat
  BY <1>1, BufNumbers
<1>3. _buf_addrs' \in Seq(Int) /\ Len(_buf_addrs') = n
  <2>1. _buf_addrs' = [i \in 1 .. n |-> BufAddr(i, s)]
    BY DEF init_buffers
  <2> QED BY <1>1, <1>2, <2>1, IsASeq, LenProperties
<1>4. descs' \in Seq(Desc) /\ Len(descs') = n
  <2>1. descs' = [i \in 1 .. n |-> [buffer_addr |-> BufAddr(i, s),
                                   buffer_len |-> BufferLen(s), num_stored_bytes |-> 0]]
    BY DEF init_buffers
  <2>2. \A i \in 1 .. n : [buffer_addr |-> BufAddr(i, s),
                           buffer_len |-> BufferLen(s), num_stored_bytes |-> 0] \in Desc
    BY <1>2 DEF Desc
  <2> QED BY <1>1, <2>1, <2>2, IsASeq, LenProperties
<1>5. \A i \in 1 .. n : /\ _buf_addrs'[i] = BufAddr(i, s)
                        /\ descs'[i].buffer_addr = BufAddr(i, s)
                        /\ descs'[i].buffer_len = BufferLen(s)
                        /\ descs'[i].num_stored_bytes = 0
  BY DEF init_buffers
<1>6. Types'
  BY <1>1, <1>3, <1>4 DEF init_buffers, Types
<1>7. mem' = mem /\ _buf_size' = s /\ cur' = 1 /\ eng' = 1 /\ received' = <<>> /\ out' = <<>>
  BY DEF init_buffers
<1>8. Placed'
  <2>1. \A i : BufAddr(i, s)' = BufAddr(i, s)
    BY <1>7 DEF BufAddr, RegionAddr
  <2> QED
    BY <1>1, <1>3, <1>4, <1>5, <1>7, <2>1, BufferAssumption DEF Placed, N, init_buffers
<1>9. Queued'
  <2>1. N' = n /\ Pending' = 0
    BY <1>4, <1>7 DEF N, Pending
  <2>2. Slot(cur, Pending)' = 1 /\ \A d \in 0 .. n - 1 : Slot(cur, d)' = d + 1
    BY <1>1, <1>7, <2>1 DEF Slot
  <2>3. descs' # <<>>
    BY <1>1, <1>4
  <2> QED BY <1>1, <1>5, <1>7, <2>1, <2>2, <2>3 DEF Queued
<1>10. ReadsReceived'
  BY <1>7 DEF ReadsReceived
<1> QED BY <1>6, <1>8, <1>9, <1>10 DEF BufferInv
\* What both need of a ring that has descriptors.
LEMMA RingFacts ==
    ASSUME BufferInv, descs # <<>>
    PROVE  /\ N \in Nat \ {0} /\ cur \in 1 .. N /\ Pending \in 0 .. N
           /\ eng = Slot(cur, Pending) /\ eng \in 1 .. N
           /\ Len(received) \in Nat /\ Len(out) \in Nat /\ mem \in Kinds
<1>1. N \in Nat \ {0}
  BY EmptySeq, LenProperties DEF BufferInv, Types, N
<1>2. Len(received) \in Nat /\ Len(out) \in Nat /\ Len(out) <= Len(received)
  BY LenProperties DEF BufferInv, Types, Queued
<1>3. cur \in 1 .. N /\ Pending <= N /\ eng = Slot(cur, Pending)
  BY <1>1 DEF BufferInv, Queued
<1>4. Pending \in 0 .. N
  BY <1>1, <1>2, <1>3 DEF Pending
<1>5. eng \in 1 .. N
  BY <1>1, <1>3, <1>4, SlotFacts
<1>6. mem \in Kinds
  BY DEF BufferInv, Types, Placed
<1> QED BY <1>1, <1>2, <1>3, <1>4, <1>5, <1>6

\* The engine stores a block behind those that have not been read.
LEMMA ReceiveInv ==
    ASSUME BufferInv, Receive
    PROVE  BufferInv'
<1>0. descs # <<>> /\ descs[eng].num_stored_bytes = 0
  BY DEF Receive
<1>1. /\ N \in Nat \ {0} /\ cur \in 1 .. N /\ Pending \in 0 .. N
      /\ eng = Slot(cur, Pending) /\ eng \in 1 .. N
      /\ Len(received) \in Nat /\ Len(out) \in Nat /\ mem \in Kinds
  BY <1>0, RingFacts
<1>t. descs \in Seq(Desc) /\ received \in Seq(Block) /\ out \in Seq(Block)
  BY DEF BufferInv, Types
<1>2. PICK len \in {1, descs[eng].buffer_len} \ {0} :
          /\ descs' = [descs EXCEPT ![eng].num_stored_bytes = len]
          /\ received' = Append(received,
                 [addr |-> descs[eng].buffer_addr, len |-> len, data |-> len])
  BY DEF Receive
<1>3. UNCHANGED <<mem, _buf_addrs, _buf_size, cur, out>> /\ eng' = Wrap(eng)
  BY DEF Receive
<1>4. descs[eng] \in Desc
  BY <1>1, <1>t, ElementOfSeq DEF N
<1>5. len \in Nat \ {0} /\ descs[eng].buffer_addr \in Int
  BY <1>4 DEF Desc
<1>6. /\ descs' \in Seq(Desc) /\ N' = N
      /\ \A j \in 1 .. N :
            /\ descs'[j].buffer_addr = descs[j].buffer_addr
            /\ descs'[j].buffer_len = descs[j].buffer_len
            /\ descs'[j].num_stored_bytes =
                   IF j = eng THEN len ELSE descs[j].num_stored_bytes
  BY <1>1, <1>2, <1>5, <1>t, DescUpdate
<1> DEFINE blk == [addr |-> descs[eng].buffer_addr, len |-> len, data |-> len]
<1>7. blk \in Block /\ blk.len = len /\ blk.data = len /\ blk.addr = descs[eng].buffer_addr
  BY <1>5 DEF Block
<1>8. received' = Append(received, blk)
  BY <1>2
<1> HIDE DEF blk
<1>9. /\ received' \in Seq(Block) /\ Len(received') = Len(received) + 1
      /\ \A b \in 1 .. Len(received) : received'[b] = received[b]
      /\ received'[Len(received) + 1] = blk
  BY <1>7, <1>8, <1>t, AppendProperties
<1>10. Types'
  BY <1>3, <1>6, <1>9 DEF BufferInv, Types
<1>11. Placed'
  <2>1. descs' # <<>>
    BY <1>1, <1>6 DEF N
  <2>2. \A i : BufAddr(i, _buf_size)' = BufAddr(i, _buf_size)
    BY <1>3 DEF BufAddr, RegionAddr
  <2>3. mem # "none"
    BY <1>0 DEF BufferInv, Placed
  <2> QED BY <1>3, <1>6, <2>1, <2>2, <2>3 DEF BufferInv, Placed
<1>12. Pending < N
  <2> SUFFICES ASSUME Pending = N PROVE FALSE
    BY <1>1
  <2>1. Slot(cur, 0) = cur /\ eng = cur
    BY <1>1, SlotFacts
  <2>2. descs[Slot(cur, 0)].num_stored_bytes # 0
    BY <1>1 DEF BufferInv, Queued
  <2> QED BY <1>0, <2>1, <2>2
<1>13. Queued'
  <2>1. Pending' = Pending + 1 /\ \A c, d : Slot(c, d)' = Slot(c, d)
    BY <1>1, <1>3, <1>6, <1>9 DEF Pending, Slot
  <2>2. eng' = Slot(cur, Pending + 1)
    BY <1>1, <1>3, <1>12, SlotFacts
  <2>3. ASSUME NEW d \in 0 .. N - 1
        PROVE  LET i == Slot(cur, d) IN
               IF d < Pending + 1
               THEN /\ descs'[i].num_stored_bytes # 0
                    /\ descs'[i].num_stored_bytes = received'[Len(out) + 1 + d].len
                    /\ descs'[i].buffer_addr = received'[Len(out) + 1 + d].addr
               ELSE descs'[i].num_stored_bytes = 0
    <3>1. Slot(cur, d) \in 1 .. N /\ (Slot(cur, d) = eng <=> d = Pending)
      <4>1. Pending \in 0 .. N - 1
        BY <1>1, <1>12
      <4>2. \A e \in 0 .. N - 1 : Slot(cur, d) = Slot(cur, e) => d = e
        BY <1>1, SlotFacts
      <4>3. d \in 0 .. N /\ N \in Nat
        BY <1>1
      <4>4. Slot(cur, d) \in 1 .. N
        BY <1>1, <4>3, SlotFacts
      <4> QED BY <1>1, <4>1, <4>2, <4>4
    <3>2. CASE d < Pending
      <4>1. Len(out) + 1 + d \in 1 .. Len(received)
        BY <1>1, <3>2 DEF Pending
      <4>2. /\ descs[Slot(cur, d)].num_stored_bytes # 0
            /\ descs[Slot(cur, d)].num_stored_bytes = received[Len(out) + 1 + d].len
            /\ descs[Slot(cur, d)].buffer_addr = received[Len(out) + 1 + d].addr
        BY <1>1, <3>2 DEF BufferInv, Queued
      <4> QED BY <1>1, <1>6, <1>9, <3>1, <3>2, <4>1, <4>2
    <3>3. CASE d = Pending
      <4>1. Len(out) + 1 + d = Len(received) + 1
        BY <1>1, <3>3 DEF Pending
      <4> QED BY <1>1, <1>5, <1>6, <1>7, <1>9, <3>1, <3>3, <4>1
    <3>4. CASE d > Pending
      <4>1. descs[Slot(cur, d)].num_stored_bytes = 0
        BY <1>1, <3>4 DEF BufferInv, Queued
      <4> QED BY <1>1, <1>6, <3>1, <3>4, <4>1
    <3> QED BY <1>1, <3>2, <3>3, <3>4
  <2>4. \A b \in 1 .. Len(received') : received'[b].data = received'[b].len
    BY <1>1, <1>7, <1>9 DEF BufferInv, Queued
  <2>5. descs' # <<>> /\ Len(out) <= Len(received')
    BY <1>1, <1>6, <1>9 DEF N, BufferInv, Queued
  <2> QED BY <1>1, <1>3, <1>6, <1>12, <2>1, <2>2, <2>3, <2>4, <2>5 DEF Queued
<1>14. ReadsReceived'
  <2>1. DOMAIN out = 1 .. Len(out) /\ Len(out) <= Len(received)
    BY <1>t, LenProperties DEF BufferInv, ReadsReceived
  <2> QED BY <1>1, <1>3, <1>9, <2>1 DEF BufferInv, ReadsReceived
<1> QED BY <1>10, <1>11, <1>13, <1>14 DEF BufferInv
\* The reader takes the oldest block, from where the engine has stored it, and frees
\* its buffer.
LEMMA AppendInv ==
    ASSUME BufferInv, append_from_buf
    PROVE  BufferInv'
<1>0. descs # <<>> /\ descs[cur].num_stored_bytes # 0
  BY DEF append_from_buf
<1>1. /\ N \in Nat \ {0} /\ cur \in 1 .. N /\ Pending \in 0 .. N
      /\ eng = Slot(cur, Pending) /\ eng \in 1 .. N
      /\ Len(received) \in Nat /\ Len(out) \in Nat /\ mem \in Kinds
  BY <1>0, RingFacts
<1>t. descs \in Seq(Desc) /\ received \in Seq(Block) /\ out \in Seq(Block)
  BY DEF BufferInv, Types
<1> DEFINE len == descs[cur].num_stored_bytes
<1>2. PICK data \in Copied(len) :
          out' = Append(out, [addr |-> CopiedFrom(_buf_addrs[cur]), len |-> len, data |-> data])
  BY DEF append_from_buf
<1>3. /\ UNCHANGED <<mem, _buf_addrs, _buf_size, eng, received>>
      /\ cur' = Wrap(cur)
      /\ descs' = [descs EXCEPT ![cur].num_stored_bytes = 0]
  BY DEF append_from_buf
<1>4. descs[cur] \in Desc
  BY <1>1, <1>t, ElementOfSeq DEF N
<1>5. len \in Nat \ {0} /\ descs[cur].buffer_addr \in Int
  BY <1>0, <1>4 DEF Desc
<1>6. /\ descs' \in Seq(Desc) /\ N' = N
      /\ \A j \in 1 .. N :
            /\ descs'[j].buffer_addr = descs[j].buffer_addr
            /\ descs'[j].buffer_len = descs[j].buffer_len
            /\ descs'[j].num_stored_bytes =
                   IF j = cur THEN 0 ELSE descs[j].num_stored_bytes
  <2>1. 0 \in Nat
    OBVIOUS
  <2> QED BY <1>1, <1>3, <1>t, <2>1, DescUpdate
<1> HIDE DEF len
<1>7. data \in Nat /\ (mem # "xdma" => data = len)
  BY <1>5 DEF Copied
<1>8. CopiedFrom(_buf_addrs[cur]) = descs[cur].buffer_addr
  <2>1. _buf_addrs[cur] = descs[cur].buffer_addr
    BY <1>1 DEF BufferInv, Placed
  <2> QED BY <1>1, <1>5, <2>1, CopiedWhereStored
<1> DEFINE blk == [addr |-> descs[cur].buffer_addr, len |-> len, data |-> data]
<1>9. blk \in Block /\ blk.len = len /\ blk.data = data /\ blk.addr = descs[cur].buffer_addr
  BY <1>5, <1>7 DEF Block
<1>10. out' = Append(out, blk)
  BY <1>2, <1>8
<1> HIDE DEF blk
<1>11. /\ out' \in Seq(Block) /\ Len(out') = Len(out) + 1
       /\ \A b \in 1 .. Len(out) : out'[b] = out[b]
       /\ out'[Len(out) + 1] = blk
  BY <1>9, <1>10, <1>t, AppendProperties
<1>12. Types'
  BY <1>3, <1>6, <1>11 DEF BufferInv, Types
<1>13. Placed'
  <2>1. descs' # <<>>
    BY <1>1, <1>6 DEF N
  <2>2. \A i : BufAddr(i, _buf_size)' = BufAddr(i, _buf_size)
    BY <1>3 DEF BufAddr, RegionAddr
  <2>3. mem # "none"
    BY <1>0 DEF BufferInv, Placed
  <2> QED BY <1>3, <1>6, <2>1, <2>2, <2>3 DEF BufferInv, Placed
<1>14. /\ Pending > 0
       /\ len = received[Len(out) + 1].len
       /\ descs[cur].buffer_addr = received[Len(out) + 1].addr
  <2>1. Slot(cur, 0) = cur /\ 0 \in 0 .. N - 1
    BY <1>1, SlotFacts
  <2>2. IF 0 < Pending
        THEN /\ descs[Slot(cur, 0)].num_stored_bytes = received[Len(out) + 1 + 0].len
             /\ descs[Slot(cur, 0)].buffer_addr = received[Len(out) + 1 + 0].addr
        ELSE descs[Slot(cur, 0)].num_stored_bytes = 0
    BY <1>1, <2>1 DEF BufferInv, Queued
  <2>3. 0 < Pending
    BY <1>0, <2>1, <2>2
  <2>4. Len(out) + 1 + 0 = Len(out) + 1
    BY <1>1
  <2> QED BY <1>1, <2>1, <2>2, <2>3, <2>4 DEF len
<1>15. Len(out) + 1 \in 1 .. Len(received)
  BY <1>1, <1>14 DEF Pending
<1>16. Queued'
  <2>1. Pending' = Pending - 1 /\ \A c, d : Slot(c, d)' = Slot(c, d)
    BY <1>1, <1>3, <1>6, <1>11 DEF Pending, Slot
  <2>2. cur' = Slot(cur, 1) /\ cur' \in 1 .. N
    BY <1>1, <1>3, SlotFacts
  <2>3. \A d \in 0 .. N - 1 : Slot(cur', d) = Slot(cur, d + 1)
    BY <1>1, <2>2, SlotFacts
  <2>4. eng = Slot(cur', Pending - 1)
    <3>1. Pending - 1 \in 0 .. N - 1
      BY <1>1, <1>14
    <3> QED BY <1>1, <2>3, <3>1
  <2>5. ASSUME NEW d \in 0 .. N - 1
        PROVE  LET i == Slot(cur', d) IN
               IF d < Pending - 1
               THEN /\ descs'[i].num_stored_bytes # 0
                    /\ descs'[i].num_stored_bytes = received[Len(out') + 1 + d].len
                    /\ descs'[i].buffer_addr = received[Len(out') + 1 + d].addr
               ELSE descs'[i].num_stored_bytes = 0
    <3>1. CASE d = N - 1
      <4>1. Slot(cur', d) = cur
        BY <1>1, <2>3, <3>1, SlotFacts
      <4> QED BY <1>1, <1>6, <3>1, <4>1
    <3>2. CASE d < N - 1
      <4> DEFINE e == d + 1
      <4>1. e \in 0 .. N - 1 /\ e \in 0 .. N /\ e # 0 /\ N \in Nat /\ 0 \in 0 .. N - 1
        BY <1>1, <3>2
      <4>2. Slot(cur', d) = Slot(cur, e)
        BY <2>3
      <4> HIDE DEF e
      <4>3. Slot(cur, e) \in 1 .. N /\ Slot(cur, 0) = cur
        BY <1>1, <4>1, SlotFacts
      <4>4. Slot(cur, e) = Slot(cur, 0) => e = 0
        BY <1>1, <4>1, SlotFacts
      <4>5. IF e < Pending
            THEN /\ descs[Slot(cur, e)].num_stored_bytes # 0
                 /\ descs[Slot(cur, e)].num_stored_bytes = received[Len(out) + 1 + e].len
                 /\ descs[Slot(cur, e)].buffer_addr = received[Len(out) + 1 + e].addr
            ELSE descs[Slot(cur, e)].num_stored_bytes = 0
        BY <1>1, <4>1 DEF BufferInv, Queued
      <4>6. Len(out') + 1 + d = Len(out) + 1 + e /\ (e < Pending <=> d < Pending - 1)
        BY <1>1, <1>11 DEF e
      <4> QED BY <1>6, <4>1, <4>2, <4>3, <4>4, <4>5, <4>6
    <3> QED BY <1>1, <3>1, <3>2
  <2>6. descs' # <<>> /\ Len(out') <= Len(received)
    BY <1>1, <1>6, <1>11, <1>15 DEF N
  <2>7. \A b \in 1 .. Len(received) : received[b].data = received[b].len
    BY DEF BufferInv, Queued
  <2> QED BY <1>1, <1>3, <1>6, <2>1, <2>2, <2>4, <2>5, <2>6, <2>7 DEF Queued
<1>17. ReadsReceived'
  <2>1. DOMAIN out = 1 .. Len(out) /\ DOMAIN out' = 1 .. Len(out) + 1
    BY <1>t, <1>11, LenProperties
  <2>2. received[Len(out) + 1].data = received[Len(out) + 1].len
    BY <1>15 DEF BufferInv, Queued
  <2>3. ASSUME NEW b \in 1 .. Len(out) + 1
        PROVE  /\ out'[b].addr = received[b].addr /\ out'[b].len = received[b].len
               /\ mem # "xdma" => out'[b].data = received[b].data
    <3>1. CASE b = Len(out) + 1
      BY <1>7, <1>9, <1>11, <1>14, <2>2, <3>1
    <3>2. CASE b \in 1 .. Len(out)
      BY <1>11, <2>1, <3>2 DEF BufferInv, ReadsReceived
    <3> QED BY <1>1, <3>1, <3>2
  <2> QED BY <1>1, <1>3, <1>11, <1>15, <2>1, <2>3 DEF ReadsReceived
<1> QED BY <1>12, <1>13, <1>16, <1>17 DEF BufferInv

\* Every step preserves the invariant.
LEMMA BufferStep == BufferInv /\ [Next]_vars => BufferInv'
<1> SUFFICES ASSUME BufferInv, [Next]_vars PROVE BufferInv'
  OBVIOUS
<1>1. CASE UNCHANGED vars
  BY <1>1 DEF vars, BufferInv, Types, Placed, Queued, ReadsReceived, N, Pending, Slot,
              BufAddr, RegionAddr
<1>2. CASE Next
  BY <1>2, OpenInv, CloseInv, InitBuffersInv, ReceiveInv, AppendInv DEF Next
<1> QED BY <1>1, <1>2

-----------------------------------------------------------------------------
\* Every behaviour satisfies the invariant.
THEOREM BufferInvariant == Spec => []BufferInv
BY BufferInit, BufferStep, PTL DEF Spec

\* append_from_buf() gives the reader the blocks the engine has stored, each from where
\* it is and in order, over every kind of memory and for every ring.
THEOREM BufferReadsReceived == Spec => []ReadsReceived
<1>1. BufferInv => ReadsReceived
  BY DEF BufferInv
<1> QED BY <1>1, BufferInvariant, PTL

\* The buffers asked for fit into the memory: init_buffers() leaves this to its caller.
BuffersFit == \A n \in Nums, s \in Sizes : n * s <= Size - Offs

\* A product grows with its first factor.
LEMMA TimesGrows ==
    ASSUME NEW i \in Nat, NEW j \in Nat, NEW s \in Nat, i <= j
    PROVE  i * s \in Nat /\ i * s <= j * s
<1>1. j * s = i * s + (j - i) * s /\ (j - i) * s \in Nat /\ i * s \in Nat
  OBVIOUS
<1> QED BY <1>1

\* init_buffers() gives the engine only memory of the application, and no byte of it to
\* two buffers, for all numbers and sizes of buffers that fit into the memory.
THEOREM BufferBuffersApart == ASSUME BuffersFit PROVE Spec => []BuffersApart
<1>1. BufferInv => BuffersApart
  <2> SUFFICES ASSUME BufferInv, NEW i \in 1 .. N
               PROVE  LET b == Bytes(descs[i].buffer_addr, descs[i].buffer_len) IN
                      /\ Inside(b, Memory)
                      /\ \A j \in 1 .. N \ {i} :
                            Apart(b, Bytes(descs[j].buffer_addr, descs[j].buffer_len))
    <3>1. DOMAIN descs = 1 .. N
      BY LenProperties DEF BufferInv, Types, N
    <3> QED BY <3>1 DEF BuffersApart
  <2> DEFINE s == _buf_size
  <2> DEFINE l == BufferLen(s)
  <2>1. N \in Nums /\ s \in Sizes /\ N \in Nat \ {0} /\ s \in Nat \ {0}
    BY BufferAssumption, LenProperties DEF BufferInv, Types, Placed, N
  <2>2. l \in 0 .. s
    BY <2>1, BufNumbers
  <2>3. \A j \in 1 .. N : /\ descs[j].buffer_addr = RegionAddr + (j - 1) * s
                          /\ descs[j].buffer_len = l
    BY DEF BufferInv, Placed, BufAddr
  <2>4. Addr \in Nat /\ Size \in Nat /\ Offs \in Nat /\ N * s <= Size - Offs
    BY <2>1, BufferAssumption DEF BuffersFit
  <2> HIDE DEF s, l
  <2>5. \A j \in 1 .. N : (j - 1) * s \in Nat /\ (j - 1) * s + l <= j * s /\ j * s <= N * s
    <3> TAKE j \in 1 .. N
    <3>1. j * s = (j - 1) * s + s /\ (j - 1) * s \in Nat /\ j * s \in Nat
      BY <2>1
    <3>2. j * s <= N * s
      BY <2>1, TimesGrows
    <3> QED BY <2>1, <2>2, <3>1, <3>2
  <2>6. Inside(Bytes(descs[i].buffer_addr, descs[i].buffer_len), Memory)
    <3>1. (i - 1) * s \in Nat /\ (i - 1) * s + l <= Size - Offs
      BY <2>1, <2>2, <2>4, <2>5
    <3>2. RegionAddr \in Nat /\ Memory.first = RegionAddr
          /\ Memory.end >= RegionAddr + (Size - Offs)
      BY <2>4 DEF RegionAddr, Memory, Bytes
    <3> DEFINE b == Bytes(descs[i].buffer_addr, descs[i].buffer_len)
    <3>3. b.first = RegionAddr + (i - 1) * s /\ b.end = RegionAddr + (i - 1) * s + l
      BY <2>3 DEF Bytes
    <3>4. b.first >= RegionAddr /\ b.end <= RegionAddr + (Size - Offs)
      BY <2>2, <2>4, <3>1, <3>2, <3>3
    <3>5. Memory.end \in Int /\ b.end \in Int
      <4>1. Memory.end \in Int
        BY <2>4 DEF Memory, Bytes
      <4>2. b.end \in Int
        BY <2>2, <3>1, <3>2, <3>3
      <4> QED BY <4>1, <4>2
    <3> QED BY <2>4, <3>2, <3>4, <3>5 DEF Inside
  <2>7. ASSUME NEW j \in 1 .. N \ {i}
        PROVE  Apart(Bytes(descs[i].buffer_addr, descs[i].buffer_len),
                     Bytes(descs[j].buffer_addr, descs[j].buffer_len))
    <3>1. RegionAddr \in Nat
      BY <2>4 DEF RegionAddr
    <3>2. ASSUME NEW a \in 1 .. N, NEW c \in 1 .. N, a < c
          PROVE  descs[a].buffer_addr + descs[a].buffer_len <= descs[c].buffer_addr
      <4>1. a * s <= (c - 1) * s
        BY <2>1, <3>2, TimesGrows
      <4>2. (a - 1) * s + l <= a * s /\ (a - 1) * s \in Nat /\ (c - 1) * s \in Nat
        BY <2>5
      <4>3. a * s \in Nat
        BY <2>1, TimesGrows
      <4> QED BY <2>2, <2>3, <3>1, <4>1, <4>2, <4>3
    <3> QED BY <3>2 DEF Apart, Bytes
  <2> QED BY <2>6, <2>7
<1> QED BY <1>1, BufferInvariant, PTL
=============================================================================
