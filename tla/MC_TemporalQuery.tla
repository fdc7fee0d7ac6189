-------------------------- MODULE MC_TemporalQuery --------------------------
(***************************************************************************)
(* A file of two hierarchy pages and two temporal pages, under an octree   *)
(* of two levels; the root cell has edge 8 and corner 0.                   *)
(*                                                                         *)
(*   hierarchy page 0 (root)  ROOT, A, and a pointer to page 1             *)
(*   hierarchy page 1 (at B)  B                                            *)
(*   temporal page 0 (root)   ROOT, B, and a pointer to page 1             *)
(*   temporal page 1          A                                            *)
(*                                                                         *)
(* The stride is 2.  The temporal entry of ROOT is that of a node of five  *)
(* points, of which the chunk has three left.                              *)
(***************************************************************************)
EXTENDS TemporalQuery

MCEdge    == [l \in 0 .. 1 |-> IF l = 0 THEN 8 ELSE 4]
Triple(x, y, z) == [a \in 1 .. 3 |-> CASE a = 1 -> x [] a = 2 -> y [] a = 3 -> z]
MCRootMin == Triple(0, 0, 0)

A == [level |-> 1, pos |-> Triple(0, 0, 0)]
B == [level |-> 1, pos |-> Triple(1, 0, 0)]

HEntry(k, offset, size, count) ==
    [key |-> k, offset |-> offset, byte_size |-> size, point_count |-> count]

MCPage == 0 .. 1
MCWire ==
    [p \in MCPage |->
        CASE p = 0 -> { HEntry(ROOT, 50, 4, 3), HEntry(A, 45, 4, 4), HEntry(B, 1, 2, -1) }
          [] p = 1 -> { HEntry(B, 40, 4, 5) }]
MCAnchor == [p \in MCPage |-> IF p = 0 THEN ROOT ELSE B]

(* A point on the face between A and B, and the whole cube. *)
FaceBox  == [min |-> Triple(4, 1, 1), max |-> Triple(4, 1, 1)]
WholeBox == [min |-> Triple(0, 0, 0), max |-> Triple(8, 8, 8)]
MCBox == { FaceBox, WholeBox }

From(a, b) == [start |-> a, end |-> b]

MCTPage == 0 .. 1
MCSpan  == [p \in MCTPage |-> IF p = 0 THEN From(0, 5) ELSE From(0, 3)]
MCTWire ==
    [p \in MCTPage |->
        CASE p = 0 -> { [key |-> ROOT, span |-> From(0, 4)], [key |-> B, span |-> From(1, 5)],
                        [offset |-> 1, span |-> MCSpan[1]] }
          [] p = 1 -> { [key |-> A, span |-> From(0, 3)] }]

Evlr(temporal, version, stride) ==
    [temporal |-> temporal, version |-> version, stride |-> stride, node_count |-> 3]

MCEvlrLists == { << Evlr(FALSE, 0, 0), Evlr(TRUE, 1, 2) >>, << Evlr(TRUE, 1, 0) >> }
MCCuts == { {} }

(* One window that starts between two samples of A and ends at its last,   *)
(* and one that starts between two samples of B and meets, of the other    *)
(* nodes, only the points that ROOT no longer has.                         *)
MCWindow == { From(1, 3), From(4, 5) }

Centre == Triple(4, 1, 1)
Off    == Triple(4, 2, 2)

MCChunk ==
    [k \in { ROOT, A, B } |->
        CASE k = A    -> [count |-> 4, time |-> [i \in 0 .. 3 |-> i],
                          pos |-> [i \in 0 .. 3 |-> IF i = 2 THEN Off ELSE Centre]]
          [] k = ROOT -> [count |-> 3, time |-> [i \in 0 .. 2 |-> i],
                          pos |-> [i \in 0 .. 2 |-> Centre]]
          [] k = B    -> [count |-> 5, time |-> [i \in 0 .. 4 |-> i + 1],
                          pos |-> [i \in 0 .. 4 |-> IF i = 1 THEN Off ELSE Centre]]]

MCEntry ==
    [k \in { ROOT, A, B } |->
        CASE k = A    -> [count |-> 3, samples |-> [i \in 0 .. 2 |-> <<0, 2, 3>>[i + 1]]]
          [] k = ROOT -> [count |-> 3, samples |-> [i \in 0 .. 2 |-> 2 * i]]
          [] k = B    -> [count |-> 3, samples |-> [i \in 0 .. 2 |-> 1 + 2 * i]]]
=============================================================================
