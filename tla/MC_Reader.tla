------------------------------ MODULE MC_Reader ------------------------------
(***************************************************************************)
(* A reader of the file of MC_HierarchyCache, with a point or two in each  *)
(* node, on faces of cells and boxes where it can be.                      *)
(***************************************************************************)
EXTENDS Reader, MC_HierarchyCache

MCPoints ==
    [k \in NodeKeys |->
        CASE k = ROOT -> { Triple(4, 1, 1), Triple(7, 7, 7) }
          [] k = A    -> {}
          [] k = B    -> { Triple(4, 1, 1), Triple(8, 0, 0) }
          [] k = C    -> { Triple(1, 7, 1) }
          [] k = A0   -> { Triple(2, 2, 2) }
          [] k = B0   -> { Triple(4, 0, 0), Triple(4, 1, 1) }
          [] k = C0   -> { Triple(2, 6, 2) }]

MCQueryBox == { FaceBox, WholeBox }
MCQueryLimit == { 1 }
=============================================================================
