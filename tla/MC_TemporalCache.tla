-------------------------- MODULE MC_TemporalCache --------------------------
(***************************************************************************)
(* Files without a temporal index, with one whose header the code cannot   *)
(* use, and with one it can between other EVLRs, whose header counts as    *)
(* many nodes as there are, one more or one less.  The index has six       *)
(* pages, of which none, the root or page 3 ends in a record that is cut.  *)
(*                                                                         *)
(*   page 0 (root)   node 0, and pointers to pages 1, 2 and 3              *)
(*   page 1 (0 .. 1) node 1, and a pointer to page 4                       *)
(*   page 2 (1 .. 3) node 2, and a pointer to page 5                       *)
(*   page 3 (4 .. 4) node 3                                                *)
(*   page 4 (0 .. 0) node 4          page 5 (2 .. 3) node 5                *)
(***************************************************************************)
EXTENDS TemporalCache

Index(version, stride, count) ==
    [temporal |-> TRUE, version |-> version, stride |-> stride, node_count |-> count]

Other == [temporal |-> FALSE, version |-> 0, stride |-> 0, node_count |-> 0]

MCEvlrLists ==
    { << >>,
      << Other >>,
      << Other, Index(1, 2, 6), Index(2, 1, 6) >>,
      << Index(1, 1, 7) >>,
      << Index(1, 1, 5), Other >>,
      << Index(1, 0, 6), Index(1, 3, 6) >>,
      << Index(2, 1, 6) >> }

From(a, b) == [start |-> a, end |-> b]

MCPage == 0 .. 5

MCSpan ==
    [p \in MCPage |-> CASE p = 0 -> From(0, 4) [] p = 1 -> From(0, 1)
                        [] p = 2 -> From(1, 3) [] p = 3 -> From(4, 4)
                        [] p = 4 -> From(0, 0) [] p = 5 -> From(2, 3)]

To(p) == [offset |-> p, span |-> MCSpan[p]]

NodeOf(k, a, b) == [key |-> k, span |-> From(a, b)]

MCWire ==
    [p \in MCPage |->
        CASE p = 0 -> { NodeOf(0, 0, 4), To(1), To(2), To(3) }
          [] p = 1 -> { NodeOf(1, 0, 1), To(4) }
          [] p = 2 -> { NodeOf(2, 1, 3), To(5) }
          [] p = 3 -> { NodeOf(3, 4, 4) }
          [] p = 4 -> { NodeOf(4, 0, 0) }
          [] p = 5 -> { NodeOf(5, 2, 3) }]

MCCuts == { {}, {0}, {3} }

(* Times before pages 2 and 3, one where pages 1 and 2 meet, all times, an *)
(* empty window.                                                           *)
MCWindow == { From(0, 0), From(1, 1), From(0, 4), From(3, 2) }
=============================================================================
