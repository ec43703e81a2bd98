---------------------------- MODULE MCUioAxiVdmaIf ----------------------------
(***************************************************************************)
(* UioAxiVdmaIf for TLC.  The vectors of frame buffers: one for the small  *)
(* core below 4 GiB, one above, and one for the large core, which the      *)
(* small one has no registers for.  One of the buffers has no room for a   *)
(* frame of either format.                                                 *)
(***************************************************************************)
EXTENDS UioAxiVdmaIf

Region(hi, lo, size) == [hi |-> hi, lo |-> lo, size |-> size]

MCFrmBufs ==
    {<<Region(0, 100, 512), Region(0, 300, 128)>>,
     <<Region(1, 200, 256), Region(2, 400, 256)>>,
     [i \in 1 .. 16 |-> Region(0, 1000 * i, 256)]}

\* The height of the second format is 2 once it is cut to 13 bits.
MCFormats == {[hsize |-> 64, height |-> 4], [hsize |-> 128, height |-> 2^13 + 2]}
=============================================================================
