--------------------------- MODULE MC_PointRange ---------------------------
(***************************************************************************)
(* Every node of up to six points with times 0 .. 3, every stride up to    *)
(* three, every window.  U32 is the least the points allow, so that a      *)
(* product of an index and a stride may exceed it.                         *)
(***************************************************************************)
EXTENDS PointRange

MCTime   == 0 .. 3
MCStride == 1 .. 3
=============================================================================
