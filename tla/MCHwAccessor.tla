---------------------------- MODULE MCHwAccessor ----------------------------
(* Instances of HwAccessor and UioConfig for model checking. *)
EXTENDS HwAccessor

\* Single registers of one to four words, and arrays of two elements: without a gap,
\* with a gap, of 32 and of 64 bits, and overlapping.
MCRegisters ==
    {[size |-> n, arr_size |-> 0, arr_stride |-> 0] : n \in {2, 3, 4}}
    \cup {[size |-> s, arr_size |-> 2, arr_stride |-> d] : s \in {1, 2}, d \in {1, 2, 3}}

\* One device with two mappings, one with a single one.
MCMaps == [a |-> {0, 1}, b |-> {0}]
=============================================================================
