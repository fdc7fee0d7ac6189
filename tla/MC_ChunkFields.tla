--------------------------- MODULE MC_ChunkFields ---------------------------
(***************************************************************************)
(* Chunks of two points in the point formats 6, 7 and 8 of COPC, decoded   *)
(* with every mask of four fields and all or none of the others, and with  *)
(* every mask that lacks one field.                                        *)
(***************************************************************************)
EXTENDS ChunkFields

Format6 == Fields \ { "RGB", "NIR", "WAVEPACKET" }
Format7 == Format6 \cup { "RGB" }
Format8 == Format7 \cup { "NIR" }

MCFormats == { Format6, Format7, Format8 }

Varied == { "Z", "INTENSITY", "GPS_TIME", "RGB" }

MCMasks ==
    { m \cup rest : m \in SUBSET Varied, rest \in { {}, Fields \ Varied } }
      \cup { Fields \ {f} : f \in Fields }

PointOf(fields, x, other) ==
    [l \in Layer |-> CASE l \in Base -> x
                       [] l \in fields -> other
                       [] OTHER -> 0]

MCFiles == { [i \in Upto(2) |-> PointOf(f, i + 1, i + 2)] : f \in MCFormats } \cup { << >> }

(* Boxes with and without the zero that an undecoded z would be, and one   *)
(* with a corner in a point.                                               *)
Low  == << << 0, 0, 0 >>, << 2, 2, 2 >> >>
High == << << 1, 1, 2 >>, << 2, 2, 3 >> >>
MCBoxes == { Low, High }

MCWindows == { << 0, 2 >>, << 3, 5 >> }
=============================================================================
