---------------------------- MODULE TemporalEntry ----------------------------
(***************************************************************************)
(* NodeTemporalEntry (copc-temporal/src/temporal_index.rs): the stride     *)
(* samples of a node's GPS times, what they tell of a time window, and how *)
(* a writer takes them.  An entry is a record of count samples, numbered   *)
(* from 0.  A time is an integer: the code only compares times, and they   *)
(* are not NaN.                                                            *)
(***************************************************************************)
EXTENDS Integers

CONSTANT U32   \* 2^32

Upto(n) == 0 .. n - 1

Sorted(n, f) == \A a, b \in Upto(n) : a <= b => f[a] <= f[b]

AsU32(n)      == n % U32
Smaller(a, b) == IF a <= b THEN a ELSE b

(* slice::partition_point: the length of the prefix where the predicate holds. *)
partition_point(count, holds) == CHOOSE i \in 0 .. count : holds = Upto(i)

(* Mutant: a window that only touches the node is left out. *)
overlaps_strictly(e, start, end) ==
    /\ e.samples[e.count - 1] > start
    /\ e.samples[0] < end

overlaps(e, start, end) ==
    /\ e.samples[e.count - 1] >= start
    /\ e.samples[0] <= end

NoPoints == [start |-> 0, end |-> 0]

(* Mutants: the last stride not cut at the last point, the product cast to *)
(* u32 before it is cut, the samples equal to end searched from below.     *)
estimate_past_chunk(e, start, end, stride, point_count) ==
    LET i        == partition_point(e.count, { k \in Upto(e.count) : e.samples[k] < start })
        past_end == partition_point(e.count, { k \in Upto(e.count) : e.samples[k] <= end })
    IN  IF point_count = 0 \/ i >= past_end
        THEN NoPoints
        ELSE [start |-> i * stride, end |-> past_end * stride]

estimate_in_u32(e, start, end, stride, point_count) ==
    LET i        == partition_point(e.count, { k \in Upto(e.count) : e.samples[k] < start })
        past_end == partition_point(e.count, { k \in Upto(e.count) : e.samples[k] <= end })
    IN  IF point_count = 0 \/ i >= past_end
        THEN NoPoints
        ELSE [start |-> Smaller(AsU32(i * stride), point_count),
              end   |-> Smaller(AsU32(past_end * stride - 1), point_count - 1) + 1]

estimate_before_end(e, start, end, stride, point_count) ==
    LET i        == partition_point(e.count, { k \in Upto(e.count) : e.samples[k] < start })
        past_end == partition_point(e.count, { k \in Upto(e.count) : e.samples[k] < end })
    IN  IF point_count = 0 \/ i >= past_end
        THEN NoPoints
        ELSE [start |-> Smaller(i * stride, point_count),
              end   |-> Smaller(past_end * stride, point_count)]

(* A range of indices, end excluded.  The products are taken in u64, which *)
(* they fit; only the bounded results are cast to u32.                     *)
estimate_point_range(e, start, end, stride, point_count) ==
    LET i        == partition_point(e.count, { k \in Upto(e.count) : e.samples[k] < start })
        past_end == partition_point(e.count, { k \in Upto(e.count) : e.samples[k] <= end })
        j        == past_end - 1
    IN  IF point_count = 0 \/ i >= past_end
        THEN NoPoints
        ELSE [start |-> AsU32(Smaller(i * stride, point_count)),
              end   |-> AsU32(Smaller(j * stride + stride - 1, point_count - 1)) + 1]

(***************************************************************************)
(* What the writer samples: of n points, those at the multiples of the     *)
(* stride and the last one.  The count is the least that reaches the last. *)
(***************************************************************************)
SampleCount(n, stride, count) ==
    /\ (count - 1) * stride >= n - 1
    /\ count > 1 => (count - 2) * stride < n - 1

SampledAt(n, stride, k) == Smaller(k * stride, n - 1)
=============================================================================
