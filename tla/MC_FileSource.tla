---------------------------- MODULE MC_FileSource ----------------------------
(***************************************************************************)
(* A file of three bytes read by threads in batches of one or two ranges:  *)
(* ranges that overlap, an empty one past the end, one that runs past the  *)
(* end, one that cannot be seeked to and one that cannot be allocated.     *)
(***************************************************************************)
EXTENDS FileSource

MCContent == [i \in 0 .. 2 |-> i + 1]
MCByte    == 0 .. 3

At(o, l) == [offset |-> o, length |-> l]

MCBatch ==
    { << At(0, 2), At(1, 2) >>, << At(2, 1) >>, << At(5, 0) >>,
      << At(1, 3) >>, << At(9, 1) >>, << At(2, 1), At(0, 7) >> }
=============================================================================
