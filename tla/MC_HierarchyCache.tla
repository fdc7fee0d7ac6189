------------------------- MODULE MC_HierarchyCache -------------------------
(***************************************************************************)
(* A file of six hierarchy pages under an octree of three levels.  The     *)
(* root cell has edge 8 and corner 0.                                      *)
(*                                                                         *)
(*   page 0 (root)  ROOT, A (no points), and pointers to pages 1, 2, 3     *)
(*   page 1 (at B)  B, an entry with point_count -2, a pointer to page 4   *)
(*   page 2 (at C)  C, and a pointer to page 5 whose byte_size is Size5    *)
(*   page 3 (at A0, a grandchild of ROOT) A0, and an entry of that key     *)
(*                  with a negative byte_size                              *)
(*   page 4 (at B0) B0       page 5 (at C0) C0                             *)
(***************************************************************************)
EXTENDS HierarchyCache

CONSTANT Size5   \* byte_size of the pointer to page 5

MCEdge    == [l \in 0 .. 2 |-> CASE l = 0 -> 8 [] l = 1 -> 4 [] l = 2 -> 2]
Triple(x, y, z) == [a \in 1 .. 3 |-> CASE a = 1 -> x [] a = 2 -> y [] a = 3 -> z]
MCRootMin == Triple(0, 0, 0)

Key(l, x, y, z) == [level |-> l, pos |-> Triple(x, y, z)]
A  == Key(1, 0, 0, 0)
B  == Key(1, 1, 0, 0)
C  == Key(1, 0, 1, 0)
A0 == Key(2, 0, 0, 0)
B0 == Key(2, 2, 0, 0)
C0 == Key(2, 0, 2, 0)

Entry(k, offset, size, count) ==
    [key |-> k, offset |-> offset, byte_size |-> size, point_count |-> count]

MCPage == 0 .. 5

MCWire ==
    [p \in MCPage |->
        CASE p = 0 -> { Entry(ROOT, 50, 4, 9), Entry(A, 0, 0, 0),
                        Entry(B, 1, 2, -1), Entry(C, 2, 2, -1), Entry(A0, 3, 2, -1) }
          [] p = 1 -> { Entry(B, 54, 4, 7), Entry(Key(2, 3, 0, 0), 0, 0, -2),
                        Entry(B0, 4, 2, -1) }
          [] p = 2 -> { Entry(C, 58, 4, 5), Entry(C0, 5, Size5, -1) }
          [] p = 3 -> { Entry(A0, 62, 4, 3), Entry(A0, 62, -4, 3) }
          [] p = 4 -> { Entry(B0, 66, 4, 1) }
          [] p = 5 -> { Entry(C0, 70, 4, 2) }]

MCAnchor ==
    [p \in MCPage |-> CASE p = 0 -> ROOT [] p = 1 -> B [] p = 2 -> C
                        [] p = 3 -> A0   [] p = 4 -> B0 [] p = 5 -> C0]

(* A point on the face between A and B, a point of C outside C0, the whole *)
(* cube, and a point outside it.                                           *)
BoxOf(x, y, z) == [min |-> Triple(x, y, z), max |-> Triple(x, y, z)]
FaceBox    == BoxOf(4, 1, 1)
CornerBox  == BoxOf(1, 7, 1)
WholeBox   == [min |-> Triple(0, 0, 0), max |-> Triple(8, 8, 8)]
OutsideBox == BoxOf(9, 9, 9)

MCLevelLimit == { -1, 0, 1, 2 }

Negative == -1

MCBox == { FaceBox, CornerBox, WholeBox, OutsideBox }
=============================================================================
