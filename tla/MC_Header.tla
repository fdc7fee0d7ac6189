------------------------------ MODULE MC_Header ------------------------------
(***************************************************************************)
(* Files with up to three records, among them a long one with which the    *)
(* other two end at the last byte of the prefix, and one that is a byte    *)
(* longer; the file ends with the records, a byte before, or much later,   *)
(* and its size is known or not.                                           *)
(***************************************************************************)
EXTENDS Header

Copc(n)     == [kind |-> "copc info", length |-> n, ok |-> TRUE]
Laszip(ok)  == [kind |-> "laszip", length |-> 40, ok |-> ok]
Other(n)    == [kind |-> "other", length |-> n, ok |-> TRUE]

Long == PrefixSize - LasHeader - 3 * VlrHeader - 160 - 40

MCVlrs ==
    { Copc(160), Copc(159), Laszip(TRUE), Laszip(FALSE), Other(0),
      Other(Long), Other(Long + 1) }

File(vlrs, size, sized, las_ok, builds) ==
    [size |-> size, sized |-> sized, las_ok |-> las_ok, builds |-> builds,
     header_size |-> LasHeader, vlrs |-> vlrs]

Total(vlrs) ==
    EndOf([header_size |-> LasHeader, vlrs |-> vlrs])[Len(vlrs)]

MCFiles ==
    { File(v, Total(v) + more, sized, bad # "las", bad # "builder") :
        v \in UNION { [1 .. n -> MCVlrs] : n \in 0 .. 3 },
        more \in { -1, 0, 100000 }, sized \in BOOLEAN,
        bad \in { "no", "las", "builder" } }
=============================================================================
