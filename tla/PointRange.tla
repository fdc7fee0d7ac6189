----------------------------- MODULE PointRange -----------------------------
(***************************************************************************)
(* Which points of a node can lie in a time window, as estimated from the  *)
(* node's stride samples (copc-temporal/src/temporal_index.rs).            *)
(*                                                                         *)
(* The state is one node: the GPS times of its points in the order of its  *)
(* chunk, and the entry of the temporal index that describes it.  The node *)
(* is queried with any window.                                             *)
(***************************************************************************)
EXTENDS TemporalEntry

CONSTANTS
    Time,       \* the GPS times of points and of windows
    MaxPoints,  \* bound on the points of a node
    Stride      \* the strides a header may hold (at least 1, as parsed)

ASSUME PointRangeAssumption ==
    /\ Time \subseteq Int
    /\ MaxPoints \in Nat
    /\ Stride \subseteq Nat \ {0}
    /\ U32 \in Nat
    /\ MaxPoints < U32

(* A node entry of the index: count samples, numbered from 0. *)
IsEntry(e) ==
    /\ e.count \in 1 .. MaxPoints
    /\ e.samples \in [Upto(e.count) -> Time]
-----------------------------------------------------------------------------
VARIABLES
    n,        \* number of points of the node
    times,    \* their GPS times, in the order of the chunk
    stride,   \* from the header of the temporal index
    entry,    \* the node's entry
    query,    \* the last window, and the point count the hierarchy gives
    overlap,  \* whether the entry passed nodes_in_range
    range     \* the candidate range

vars == << n, times, stride, entry, query, overlap, range >>

Init ==
    /\ n \in 1 .. MaxPoints
    /\ times \in [Upto(n) -> Time]
    /\ Sorted(n, times)
    /\ stride \in Stride
    /\ \E count \in 1 .. MaxPoints :
          /\ SampleCount(n, stride, count)
          /\ entry = [count   |-> count,
                      samples |-> [k \in Upto(count) |-> times[SampledAt(n, stride, k)]]]
    /\ query = [start |-> 0, end |-> 0, point_count |-> 0]
    /\ overlap = FALSE
    /\ range = NoPoints

(* The hierarchy and the temporal index are separate records of the file:  *)
(* the point count the caller passes need not be n.                        *)
Estimate(start, end, point_count) ==
    /\ query' = [start |-> start, end |-> end, point_count |-> point_count]
    /\ overlap' = overlaps(entry, start, end)
    /\ range' = IF overlaps(entry, start, end)
                THEN estimate_point_range(entry, start, end, stride, point_count)
                ELSE NoPoints
    /\ UNCHANGED << n, times, stride, entry >>

Next ==
    \E start, end \in Time, point_count \in 0 .. MaxPoints :
        Estimate(start, end, point_count)

Spec == Init /\ [][Next]_vars
-----------------------------------------------------------------------------
TypeOK ==
    /\ n \in 1 .. MaxPoints
    /\ times \in [Upto(n) -> Time]
    /\ stride \in Stride
    /\ IsEntry(entry)
    /\ overlap \in BOOLEAN
    /\ query.point_count \in 0 .. MaxPoints
    /\ range \in [start : 0 .. MaxPoints, end : 0 .. MaxPoints]

(* The range is one of the chunk, also when the hierarchy and the temporal *)
(* index disagree on the size of the node: slicing the columns with it     *)
(* does not panic (temporal_index.rs:83-87, temporal_cache.rs:420, 469).   *)
RangeInChunk ==
    /\ range.start <= range.end
    /\ range.end <= query.point_count

Matches(p) == query.start <= times[p] /\ times[p] <= query.end

InRange(p) == range.start <= p /\ p < range.end

(* A node that nodes_in_range leaves out has no point in the window        *)
(* (temporal_index.rs:46-50).                                              *)
SkippedNodesMatchNothing ==
    (query.point_count = n /\ ~overlap) => \A p \in Upto(n) : ~Matches(p)

(* All the matching points that the range leaves out lie strictly between  *)
(* two consecutive multiples of the stride: the estimate is off by less    *)
(* than one stride, never on a sampled point but the last one, and exact   *)
(* for a stride of one (temporal_index.rs:70-87).                          *)
MissesWithinOneStride ==
    query.point_count = n =>
        \E k \in 0 .. n - 1 : \A p \in Upto(n) :
            Matches(p) /\ ~InRange(p) =>
                k * stride < p /\ p < (k + 1) * stride

(* What the doc of query_chunks says of the range: points outside it are   *)
(* guaranteed not to match (temporal_cache.rs:247-251).                    *)
OutsideNeverMatches ==
    query.point_count = n => \A p \in Upto(n) : Matches(p) => InRange(p)
=============================================================================
