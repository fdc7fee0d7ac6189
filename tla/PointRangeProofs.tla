-------------------------- MODULE PointRangeProofs --------------------------
(***************************************************************************)
(* The estimate of PointRange, for nodes of any size, any stride and any   *)
(* window.  The invariant is that the entry is the sampling of the node's  *)
(* times; every property is then one of a single estimate, and follows     *)
(* from where the two binary searches end.                                 *)
(***************************************************************************)
EXTENDS PointRange, WellFoundedInduction, TLAPS

-----------------------------------------------------------------------------
(* Arithmetic.                                                             *)

LEMMA ProductMonotone ==
    ASSUME NEW a \in Nat, NEW b \in Nat, NEW s \in Nat, a <= b
    PROVE  a * s <= b * s /\ a * s \in Nat
OBVIOUS

LEMMA ProductSuccessor ==
    ASSUME NEW a \in Nat, NEW s \in Nat
    PROVE  (a + 1) * s = a * s + s
OBVIOUS

LEMMA TimesStride ==
    ASSUME NEW a \in Nat, NEW s \in Nat, s >= 1
    PROVE  a <= a * s
OBVIOUS

LEMMA LeastElement ==
    ASSUME NEW T \in SUBSET Nat, T # {}
    PROVE  \E x \in T : \A y \in T : x <= y
<1>1. PICK x \in T : \A y \in T : ~(<< y, x >> \in OpToRel(<, Nat))
    BY NatLessThanWellFounded, WFMin, Zenon
<1>2. ASSUME NEW y \in T
      PROVE  x <= y
    <2>1. ~(y < x)
        BY <1>1, Zenon DEF OpToRel
    <2>2. x \in Nat /\ y \in Nat
        OBVIOUS
    <2>3. QED
        BY <2>1, <2>2
<1>3. QED
    BY <1>2

(* A binary search ends at the length of the prefix it looks for. *)
LEMMA PartitionPoint ==
    ASSUME NEW count \in Nat, NEW holds \in SUBSET Upto(count),
           \A a \in holds, b \in Upto(count) : b <= a => b \in holds
    PROVE  /\ partition_point(count, holds) \in 0 .. count
           /\ holds = Upto(partition_point(count, holds))
<1> DEFINE T == { k \in 0 .. count : k \notin holds }
<1>1. T \in SUBSET Nat /\ count \in T
    BY DEF Upto
<1>2. PICK x \in T : \A y \in T : x <= y
    BY <1>1, LeastElement
<1>3. x \in 0 .. count /\ x \notin holds
    OBVIOUS
<1>4. ASSUME NEW k \in Upto(x)
      PROVE  k \in holds
    BY <1>2, <1>3 DEF Upto
<1>5. ASSUME NEW k \in holds
      PROVE  k \in Upto(x)
    <2>1. k \in Upto(count)
        OBVIOUS
    <2>2. ~(x <= k)
        BY <1>3, <2>1 DEF Upto
    <2>3. QED
        BY <1>3, <2>1, <2>2 DEF Upto
<1>6. holds = Upto(x)
    BY <1>4, <1>5
<1>7. QED
    BY <1>3, <1>6 DEF partition_point

-----------------------------------------------------------------------------
(* The entry of a node, as a writer makes it, and one of which no more is  *)
(* known than that its samples are in order.                               *)

SampledNode(size, time, step, ent) ==
    /\ size \in Nat \ {0}
    /\ \A p \in Upto(size) : time[p] \in Int
    /\ Sorted(size, time)
    /\ step \in Nat \ {0}
    /\ ent.count \in Nat \ {0}
    /\ SampleCount(size, step, ent.count)
    /\ \A k \in Upto(ent.count) : ent.samples[k] = time[SampledAt(size, step, k)]

OrderedEntry(ent) ==
    /\ ent.count \in Nat \ {0}
    /\ \A k \in Upto(ent.count) : ent.samples[k] \in Int
    /\ Sorted(ent.count, ent.samples)

LEMMA NodeFacts ==
    ASSUME NEW size, NEW time, NEW step, NEW ent,
           SampledNode(size, time, step, ent)
    PROVE  /\ size \in Nat /\ size >= 1
           /\ step \in Nat /\ step >= 1
           /\ ent.count \in Nat /\ ent.count >= 1
           /\ \A p \in Upto(size) : time[p] \in Int
           /\ \A k \in Upto(ent.count) :
                 /\ ent.samples[k] \in Int
                 /\ SampledAt(size, step, k) \in Upto(size)
                 /\ ent.samples[k] = time[SampledAt(size, step, k)]
<1>1. /\ size \in Nat /\ size >= 1
      /\ step \in Nat /\ step >= 1
      /\ ent.count \in Nat /\ ent.count >= 1
    BY DEF SampledNode
<1>2. \A p \in Upto(size) : time[p] \in Int
    BY DEF SampledNode
<1>3. ASSUME NEW k \in Upto(ent.count)
      PROVE  /\ ent.samples[k] \in Int
             /\ SampledAt(size, step, k) \in Upto(size)
             /\ ent.samples[k] = time[SampledAt(size, step, k)]
    <2>1. k \in Nat /\ k * step \in Nat
        BY <1>1, ProductMonotone DEF Upto
    <2>2. SampledAt(size, step, k) \in Upto(size)
        BY <1>1, <2>1 DEF SampledAt, Smaller, Upto
    <2>3. QED
        BY <1>2, <2>2 DEF SampledNode
<1>4. QED
    BY <1>1, <1>2, <1>3

LEMMA SamplesSorted ==
    ASSUME NEW size, NEW time, NEW step, NEW ent,
           SampledNode(size, time, step, ent), NEW a \in Upto(ent.count), NEW b \in Upto(ent.count), a <= b
    PROVE  ent.samples[a] <= ent.samples[b]
<1>1. SampledAt(size, step, a) <= SampledAt(size, step, b)
    <2>1. a \in Nat /\ b \in Nat
        BY DEF Upto
    <2>2. a * step <= b * step /\ a * step \in Nat /\ b * step \in Nat
        BY <2>1, NodeFacts, ProductMonotone
    <2>3. QED
        BY <2>2, NodeFacts DEF SampledAt, Smaller
<1>2. /\ SampledAt(size, step, a) \in Upto(size) /\ SampledAt(size, step, b) \in Upto(size)
      /\ ent.samples[a] = time[SampledAt(size, step, a)]
      /\ ent.samples[b] = time[SampledAt(size, step, b)]
    BY NodeFacts
<1>3. QED
    BY <1>1, <1>2, Zenon DEF SampledNode, Sorted

LEMMA SamplesOrdered ==
    ASSUME NEW size, NEW time, NEW step, NEW ent,
           SampledNode(size, time, step, ent)
    PROVE  OrderedEntry(ent)
BY NodeFacts, SamplesSorted DEF OrderedEntry, Sorted

(* Where the last sample is. *)
LEMMA LastSample ==
    ASSUME NEW size, NEW time, NEW step, NEW ent,
           SampledNode(size, time, step, ent)
    PROVE  /\ ent.count - 1 \in Upto(ent.count)
           /\ SampledAt(size, step, ent.count - 1) = size - 1
<1>1. (ent.count - 1) * step >= size - 1
    BY DEF SampledNode, SampleCount
<1>2. ent.count - 1 \in Nat
    BY NodeFacts
<1>3. (ent.count - 1) * step \in Nat
    BY <1>2, NodeFacts, ProductMonotone
<1>4. QED
    BY <1>1, <1>2, <1>3, NodeFacts DEF SampledAt, Smaller, Upto

(* The samples before the last are at the multiples of the step. *)
LEMMA RegularSample ==
    ASSUME NEW size, NEW time, NEW step, NEW ent,
           SampledNode(size, time, step, ent), NEW k \in Upto(ent.count), k < ent.count - 1
    PROVE  SampledAt(size, step, k) = k * step
<1>1. k \in Nat /\ ent.count - 2 \in Nat /\ k <= ent.count - 2 /\ ent.count > 1
    BY NodeFacts DEF Upto
<1>2. (ent.count - 2) * step < size - 1
    BY <1>1 DEF SampledNode, SampleCount
<1>3. k * step <= (ent.count - 2) * step /\ k * step \in Nat
    BY <1>1, NodeFacts, ProductMonotone
<1>4. (ent.count - 2) * step \in Nat
    BY <1>1, NodeFacts, ProductMonotone
<1>5. QED
    BY <1>2, <1>3, <1>4, NodeFacts DEF SampledAt, Smaller

(* A point lies in time where it lies in the chunk. *)
LEMMA PointAgainstSample ==
    ASSUME NEW size, NEW time, NEW step, NEW ent,
           SampledNode(size, time, step, ent), NEW p \in Upto(size), NEW k \in Upto(ent.count)
    PROVE  /\ p <= SampledAt(size, step, k) => time[p] <= ent.samples[k]
           /\ SampledAt(size, step, k) <= p => ent.samples[k] <= time[p]
BY NodeFacts DEF SampledNode, Sorted

-----------------------------------------------------------------------------
(* Where the two binary searches of the estimate end.                      *)

FirstNotBefore(ent, start) ==
    partition_point(ent.count, { k \in Upto(ent.count) : ent.samples[k] < start })

FirstAfter(ent, end) ==
    partition_point(ent.count, { k \in Upto(ent.count) : ent.samples[k] <= end })

LEMMA OrderedEntryFacts ==
    ASSUME NEW ent, OrderedEntry(ent)
    PROVE  /\ ent.count \in Nat /\ ent.count >= 1
           /\ \A k \in Upto(ent.count) : ent.samples[k] \in Int
           /\ \A a, b \in Upto(ent.count) : a <= b => ent.samples[a] <= ent.samples[b]
BY DEF OrderedEntry, Sorted

LEMMA StartSearch ==
    ASSUME NEW ent, OrderedEntry(ent), NEW start \in Int
    PROVE  /\ FirstNotBefore(ent, start) \in 0 .. ent.count
           /\ \A k \in Upto(ent.count) :
                 ent.samples[k] < start <=> k < FirstNotBefore(ent, start)
<1> DEFINE before == { k \in Upto(ent.count) : ent.samples[k] < start }
<1>1. ASSUME NEW a \in before, NEW b \in Upto(ent.count), b <= a
      PROVE  b \in before
    BY <1>1, OrderedEntryFacts
<1>2. /\ FirstNotBefore(ent, start) \in 0 .. ent.count
      /\ before = Upto(FirstNotBefore(ent, start))
    BY <1>1, OrderedEntryFacts, PartitionPoint DEF FirstNotBefore
<1>3. QED
    BY <1>2, OrderedEntryFacts DEF Upto

LEMMA EndSearch ==
    ASSUME NEW ent, OrderedEntry(ent), NEW end \in Int
    PROVE  /\ FirstAfter(ent, end) \in 0 .. ent.count
           /\ \A k \in Upto(ent.count) :
                 ent.samples[k] <= end <=> k < FirstAfter(ent, end)
<1> DEFINE upto_end == { k \in Upto(ent.count) : ent.samples[k] <= end }
<1>1. ASSUME NEW a \in upto_end, NEW b \in Upto(ent.count), b <= a
      PROVE  b \in upto_end
    BY <1>1, OrderedEntryFacts
<1>2. /\ FirstAfter(ent, end) \in 0 .. ent.count
      /\ upto_end = Upto(FirstAfter(ent, end))
    BY <1>1, OrderedEntryFacts, PartitionPoint DEF FirstAfter
<1>3. QED
    BY <1>2, OrderedEntryFacts DEF Upto

(* The points of the window lie between the samples next to it. *)
LEMMA WindowBetweenSamples ==
    ASSUME NEW size, NEW time, NEW step, NEW ent,
           SampledNode(size, time, step, ent), NEW start \in Int, NEW end \in Int, NEW p \in Upto(size),
           start <= time[p], time[p] <= end
    PROVE  /\ FirstNotBefore(ent, start) < ent.count
           /\ FirstNotBefore(ent, start) > 0 => (FirstNotBefore(ent, start) - 1) * step < p
           /\ p < FirstAfter(ent, end) * step
           /\ FirstAfter(ent, end) > 0
<1> DEFINE i == FirstNotBefore(ent, start)
           e == FirstAfter(ent, end)
<1>1. /\ i \in 0 .. ent.count
      /\ \A k \in Upto(ent.count) : ent.samples[k] < start <=> k < i
    BY SamplesOrdered, StartSearch
<1>2. /\ e \in 0 .. ent.count
      /\ \A k \in Upto(ent.count) : ent.samples[k] <= end <=> k < e
    BY SamplesOrdered, EndSearch
<1>3. p \in Nat /\ p <= size - 1 /\ time[p] \in Int
    BY NodeFacts DEF Upto
<1> HIDE DEF i, e
<1>4. i < ent.count
    <2>1. ent.samples[ent.count - 1] >= start
        BY <1>3, LastSample, PointAgainstSample, NodeFacts
    <2>2. ~(ent.count - 1 < i)
        BY <1>1, <2>1, LastSample, NodeFacts
    <2>3. QED
        BY <1>1, <2>2, NodeFacts
<1>5. ASSUME i > 0
      PROVE  (i - 1) * step < p
    <2>1. i - 1 \in Upto(ent.count) /\ i - 1 < ent.count - 1
        BY <1>1, <1>4, <1>5, NodeFacts DEF Upto
    <2>2. ent.samples[i - 1] < start
        BY <1>1, <2>1
    <2>3. ~(p <= SampledAt(size, step, i - 1))
        <3>1. p <= SampledAt(size, step, i - 1) => time[p] <= ent.samples[i - 1]
            BY <2>1, PointAgainstSample
        <3>2. ent.samples[i - 1] \in Int
            BY <2>1, NodeFacts
        <3>3. QED
            BY <1>3, <2>2, <3>1, <3>2
    <2>4. SampledAt(size, step, i - 1) = (i - 1) * step
        BY <2>1, RegularSample
    <2>5. SampledAt(size, step, i - 1) \in Nat
        BY <2>1, NodeFacts DEF Upto
    <2>6. QED
        BY <1>3, <2>3, <2>4, <2>5
<1>6. p < e * step
    <2>1. CASE e = ent.count
        <3>1. e * step = (e - 1) * step + step
            BY <1>2, <2>1, NodeFacts, ProductSuccessor
        <3>2. (e - 1) * step >= size - 1 /\ (e - 1) * step \in Nat
            BY <2>1, NodeFacts, ProductMonotone DEF SampledNode, SampleCount
        <3>3. QED
            BY <1>3, <3>1, <3>2, NodeFacts
    <2>2. CASE e < ent.count
        <3>1. e \in Upto(ent.count) /\ ~(ent.samples[e] <= end)
            BY <1>2, <2>2, NodeFacts DEF Upto
        <3>2. ~(SampledAt(size, step, e) <= p)
            BY <1>3, <3>1, PointAgainstSample, NodeFacts
        <3>3. e * step \in Nat
            BY <1>2, NodeFacts, ProductMonotone
        <3>4. SampledAt(size, step, e) <= e * step /\ SampledAt(size, step, e) \in Nat
            BY <3>1, <3>3, NodeFacts DEF SampledAt, Smaller, Upto
        <3>5. QED
            BY <1>3, <3>2, <3>3, <3>4
    <2>3. QED
        BY <1>2, <2>1, <2>2, NodeFacts
<1>7. e > 0
    <2>1. ASSUME e = 0
          PROVE  FALSE
        BY <1>3, <1>6, <2>1, NodeFacts
    <2>2. QED
        BY <1>2, <2>1, NodeFacts
<1>8. QED
    BY <1>4, <1>5, <1>6, <1>7 DEF i, e

-----------------------------------------------------------------------------
(* What an estimate returns when it returns anything: whole strides, from  *)
(* the first sample not before the window to the one after it, cut at the  *)
(* end of the node.  The casts to u32 lose nothing.                        *)
LEMMA EstimateReturns ==
    ASSUME NEW ent, OrderedEntry(ent), NEW step \in Nat \ {0},
           NEW start \in Int, NEW end \in Int, NEW count \in 0 .. MaxPoints
    PROVE  LET r == estimate_point_range(ent, start, end, step, count)
           IN  \/ /\ count = 0 \/ FirstNotBefore(ent, start) >= FirstAfter(ent, end)
                  /\ r = NoPoints
               \/ /\ count > 0 /\ FirstNotBefore(ent, start) < FirstAfter(ent, end)
                  /\ r = [start |-> Smaller(FirstNotBefore(ent, start) * step, count),
                          end   |-> Smaller(FirstAfter(ent, end) * step, count)]
<1> DEFINE i == FirstNotBefore(ent, start)
           e == FirstAfter(ent, end)
           r == estimate_point_range(ent, start, end, step, count)
<1>1. /\ i \in Nat /\ e \in Nat
      /\ count \in Nat /\ count < U32 /\ U32 \in Nat
      /\ step \in Nat /\ step >= 1
    BY StartSearch, EndSearch, OrderedEntryFacts, PointRangeAssumption
<1>2. r = IF count = 0 \/ i >= e
          THEN NoPoints
          ELSE [start |-> AsU32(Smaller(i * step, count)),
                end   |-> AsU32(Smaller((e - 1) * step + step - 1, count - 1)) + 1]
    BY DEF estimate_point_range, FirstNotBefore, FirstAfter
<1> HIDE DEF i, e, r
<1>3. ASSUME count > 0, i < e
      PROVE  r = [start |-> Smaller(i * step, count), end |-> Smaller(e * step, count)]
    <2>1. i * step \in Nat /\ (e - 1) * step \in Nat /\ e - 1 \in Nat
        BY <1>1, <1>3, ProductMonotone
    <2>2. e * step = (e - 1) * step + step
        BY <1>1, <2>1, ProductSuccessor
    <2>3. /\ Smaller(i * step, count) \in 0 .. count
          /\ Smaller((e - 1) * step + step - 1, count - 1) \in 0 .. count - 1
          /\ Smaller((e - 1) * step + step - 1, count - 1) + 1 = Smaller(e * step, count)
        BY <1>1, <1>3, <2>1, <2>2 DEF Smaller
    <2>4. \A m \in 0 .. count : AsU32(m) = m
        BY <1>1 DEF AsU32
    <2>5. QED
        BY <1>1, <1>2, <1>3, <2>3, <2>4
<1>4. QED
    BY <1>1, <1>2, <1>3 DEF i, e, r

(* The range of an entry is one of the chunk, if it has as many points as  *)
(* were said, whatever the entry samples.                                  *)
LEMMA EstimateInChunk ==
    ASSUME NEW ent, OrderedEntry(ent), NEW step \in Nat \ {0},
           NEW start \in Int, NEW end \in Int, NEW count \in 0 .. MaxPoints
    PROVE  LET r == estimate_point_range(ent, start, end, step, count)
           IN  /\ r \in [start : Nat, end : Nat]
               /\ r.start <= r.end /\ r.end <= count
<1> DEFINE i == FirstNotBefore(ent, start)
           e == FirstAfter(ent, end)
           r == estimate_point_range(ent, start, end, step, count)
<1>1. i \in Nat /\ e \in Nat /\ step \in Nat /\ count \in Nat
    BY StartSearch, EndSearch, OrderedEntryFacts, PointRangeAssumption
<1>2. \/ r = NoPoints
      \/ i < e /\ r = [start |-> Smaller(i * step, count), end |-> Smaller(e * step, count)]
    BY EstimateReturns
<1> HIDE DEF i, e, r
<1>3. CASE r = NoPoints
    BY <1>1, <1>3 DEF NoPoints, r
<1>4. CASE i < e /\ r = [start |-> Smaller(i * step, count), end |-> Smaller(e * step, count)]
    <2>1. i * step <= e * step /\ i * step \in Nat /\ e * step \in Nat
        BY <1>1, <1>4, ProductMonotone
    <2>2. /\ Smaller(i * step, count) \in Nat /\ Smaller(e * step, count) \in Nat
          /\ Smaller(i * step, count) <= Smaller(e * step, count)
          /\ Smaller(e * step, count) <= count
        BY <1>1, <2>1 DEF Smaller
    <2>3. QED
        BY <1>4, <2>2 DEF r
<1>5. QED
    BY <1>2, <1>3, <1>4

-----------------------------------------------------------------------------
(* The estimate of a node that the entry samples.                          *)

(* A node with a point in the window overlaps it. *)
LEMMA PointsOverlap ==
    ASSUME NEW size, NEW time, NEW step, NEW ent,
           SampledNode(size, time, step, ent),
           NEW start \in Int, NEW end \in Int, NEW p \in Upto(size),
           start <= time[p], time[p] <= end
    PROVE  /\ ent.samples[ent.count - 1] >= start
           /\ ent.samples[0] <= end
<1>1. p \in Nat /\ p <= size - 1 /\ time[p] \in Int /\ size \in Nat
    BY NodeFacts DEF Upto
<1>2. /\ 0 \in Upto(ent.count) /\ ent.count - 1 \in Upto(ent.count)
      /\ ent.samples[0] \in Int /\ ent.samples[ent.count - 1] \in Int
    BY NodeFacts DEF Upto
<1>3. ent.samples[0] <= time[p]
    <2>1. step \in Nat
        BY NodeFacts
    <2>2. SampledAt(size, step, 0) <= p
        BY <1>1, <2>1 DEF SampledAt, Smaller
    <2>3. QED
        BY <1>2, <2>2, PointAgainstSample
<1>4. time[p] <= ent.samples[ent.count - 1]
    <2>1. SampledAt(size, step, ent.count - 1) = size - 1
        BY LastSample
    <2>2. p <= SampledAt(size, step, ent.count - 1)
        BY <1>1, <2>1
    <2>3. QED
        BY <1>2, <2>2, PointAgainstSample
<1>5. QED
    BY <1>1, <1>2, <1>3, <1>4

(* What the range leaves out of the window lies between two consecutive    *)
(* multiples of the stride, the same for all the points left out.          *)
LEMMA EstimateMisses ==
    ASSUME NEW size \in 1 .. MaxPoints, NEW time, NEW step, NEW ent,
           SampledNode(size, time, step, ent),
           NEW start \in Int, NEW end \in Int
    PROVE  LET r == estimate_point_range(ent, start, end, step, size)
           IN  \E m \in Upto(size) : \A p \in Upto(size) :
                   /\ start <= time[p] /\ time[p] <= end
                   /\ ~(r.start <= p /\ p < r.end)
                   => m * step < p /\ p < (m + 1) * step
<1> DEFINE i == FirstNotBefore(ent, start)
           e == FirstAfter(ent, end)
           r == estimate_point_range(ent, start, end, step, size)
           Missed(p) == /\ start <= time[p] /\ time[p] <= end
                        /\ ~(r.start <= p /\ p < r.end)
<1>1. OrderedEntry(ent)
    BY SamplesOrdered
<1>2. /\ i \in Nat /\ e \in Nat /\ step \in Nat \ {0} /\ step >= 1
      /\ size \in Nat /\ size >= 1 /\ size \in 0 .. MaxPoints
    BY <1>1, StartSearch, EndSearch, OrderedEntryFacts, NodeFacts, PointRangeAssumption
<1>3. \/ (size = 0 \/ i >= e) /\ r = NoPoints
      \/ i < e /\ r = [start |-> Smaller(i * step, size), end |-> Smaller(e * step, size)]
    BY <1>1, <1>2, EstimateReturns
<1>4. ASSUME NEW p \in Upto(size), Missed(p)
      PROVE  i > 0 /\ (i - 1) * step < p /\ p < i * step
    <2>1. /\ p \in Nat /\ p < size
          /\ i > 0 => (i - 1) * step < p
          /\ p < e * step
        <3>1. p \in Nat /\ p < size
            BY <1>2 DEF Upto
        <3>2. QED
            BY <1>4, <3>1, WindowBetweenSamples
    <2>2. i * step \in Nat /\ e * step \in Nat
        BY <1>2, ProductMonotone
    <2>3. ~(r.start <= p /\ p < r.end)
        BY <1>4
    <2> HIDE DEF i, e, r
    <2>4. p < i * step
        <3>1. CASE i >= e
            BY <1>2, <2>1, <2>2, <3>1, ProductMonotone
        <3>2. CASE i < e
            <4>1. r.start = Smaller(i * step, size) /\ r.end = Smaller(e * step, size)
                BY <1>2, <1>3, <3>2
            <4>2. QED
                BY <1>2, <2>1, <2>2, <2>3, <4>1 DEF Smaller
        <3>3. QED
            BY <1>2, <3>1, <3>2
    <2>5. i > 0
        <3>1. i = 0 => i * step = 0
            BY <1>2
        <3>2. QED
            BY <1>2, <2>1, <2>4, <3>1
    <2>6. QED
        BY <2>1, <2>4, <2>5
<1> HIDE DEF i, e, Missed
<1>5. CASE \E p \in Upto(size) : Missed(p)
    <2>1. PICK p \in Upto(size) : Missed(p)
        BY <1>5
    <2>2. i > 0 /\ (i - 1) * step < p /\ p \in Nat /\ p <= size - 1
        BY <1>2, <1>4, <2>1 DEF Upto
    <2>3. i - 1 \in Nat /\ i - 1 <= (i - 1) * step /\ (i - 1) * step \in Nat
        BY <1>2, <2>2, ProductMonotone, TimesStride
    <2>4. i - 1 \in Upto(size) /\ (i - 1) + 1 = i
        BY <1>2, <2>2, <2>3 DEF Upto
    <2>5. \E m \in Upto(size) : \A q \in Upto(size) :
              Missed(q) => m * step < q /\ q < (m + 1) * step
        BY <1>4, <2>4
    <2>6. QED
        BY <2>5 DEF Missed
<1>6. CASE ~ \E p \in Upto(size) : Missed(p)
    <2>1. 0 \in Upto(size)
        BY <1>2 DEF Upto
    <2>2. QED
        BY <1>6, <2>1 DEF Missed
<1>7. QED
    BY <1>5, <1>6

(* No multiple of the stride lies between two consecutive ones. *)
LEMMA NoMultipleBetween ==
    ASSUME NEW p \in Nat, NEW m \in Nat, NEW step \in Nat \ {0},
           p % step = 0
    PROVE  ~(m * step < p /\ p < (m + 1) * step)
<1> DEFINE q == p \div step
<1>1. q \in Nat /\ p = q * step
    BY Z3
<1> HIDE DEF q
<1>2. CASE q <= m
    BY <1>1, <1>2, ProductMonotone
<1>3. CASE m + 1 <= q
    BY <1>1, <1>3, ProductMonotone
<1>4. QED
    BY <1>1, <1>2, <1>3

-----------------------------------------------------------------------------
(* The inductive invariant: the entry samples the node, and the answer is  *)
(* that of the last window.                                                *)

Sampling ==
    /\ IsEntry(entry)
    /\ SampleCount(n, stride, entry.count)
    /\ \A k \in Upto(entry.count) : entry.samples[k] = times[SampledAt(n, stride, k)]

NodeInv ==
    /\ n \in 1 .. MaxPoints
    /\ times \in [Upto(n) -> Time]
    /\ Sorted(n, times)
    /\ stride \in Stride
    /\ Sampling

LastAnswer ==
    /\ query.start \in Time /\ query.end \in Time
    /\ overlap = overlaps(entry, query.start, query.end)
    /\ range = IF overlap
               THEN estimate_point_range(entry, query.start, query.end, stride,
                                         query.point_count)
               ELSE NoPoints

NoAnswer ==
    /\ query.point_count = 0
    /\ overlap = FALSE
    /\ range = NoPoints

IInv ==
    /\ NodeInv
    /\ query.point_count \in 0 .. MaxPoints
    /\ NoAnswer \/ LastAnswer

LEMMA NodeInvSamples ==
    ASSUME NodeInv
    PROVE  /\ SampledNode(n, times, stride, entry)
           /\ n \in 1 .. MaxPoints /\ n \in 0 .. MaxPoints /\ n \in Nat
           /\ stride \in Nat \ {0}
<1>1. /\ n \in 1 .. MaxPoints /\ n \in 0 .. MaxPoints /\ n \in Nat \ {0}
      /\ stride \in Nat \ {0}
    BY PointRangeAssumption DEF NodeInv
<1>2. entry.count \in Nat \ {0}
    BY PointRangeAssumption DEF NodeInv, Sampling, IsEntry
<1>3. \A p \in Upto(n) : times[p] \in Int
    BY PointRangeAssumption DEF NodeInv
<1>4. QED
    BY <1>1, <1>2, <1>3 DEF NodeInv, Sampling, SampledNode

(* The node stays what it is, and the answer is that of the window of the  *)
(* last Estimate (temporal_index.rs:46-88).                                *)
THEOREM AnswersAreOfTheNode == Spec => []IInv
<1>1. Init => IInv
    <2> SUFFICES ASSUME Init
                 PROVE  IInv
        OBVIOUS
    <2>1. PICK count \in 1 .. MaxPoints :
              /\ SampleCount(n, stride, count)
              /\ entry = [count   |-> count,
                          samples |-> [k \in Upto(count) |-> times[SampledAt(n, stride, k)]]]
        BY DEF Init
    <2>2. n \in Nat /\ n >= 1 /\ stride \in Nat /\ count \in Nat
        BY PointRangeAssumption DEF Init
    <2>3. ASSUME NEW k \in Upto(count)
          PROVE  times[SampledAt(n, stride, k)] \in Time
        <3>1. k \in Nat /\ k * stride \in Nat
            BY <2>2, ProductMonotone DEF Upto
        <3>2. SampledAt(n, stride, k) \in Upto(n)
            BY <2>2, <3>1 DEF SampledAt, Smaller, Upto
        <3>3. QED
            BY <3>2 DEF Init
    <2>4. Sampling
        <3>1. IsEntry(entry)
            BY <2>1, <2>3 DEF IsEntry
        <3>2. QED
            BY <2>1, <3>1 DEF Sampling
    <2>5. QED
        BY <2>4, PointRangeAssumption DEF Init, IInv, NodeInv, NoAnswer
<1>2. IInv /\ [Next]_vars => IInv'
    <2> SUFFICES ASSUME IInv, [Next]_vars
                 PROVE  IInv'
        OBVIOUS
    <2>1. CASE Next
        <3>1. PICK start \in Time, end \in Time, point_count \in 0 .. MaxPoints :
                  Estimate(start, end, point_count)
            BY <2>1 DEF Next
        <3>2. NodeInv'
            BY <3>1 DEF Estimate, IInv, NodeInv, Sampling
        <3>3. /\ query'.start = start /\ query'.end = end
              /\ query'.point_count = point_count
              /\ entry' = entry /\ stride' = stride
            BY <3>1 DEF Estimate
        <3>4. LastAnswer'
            BY <3>1, <3>3 DEF LastAnswer, Estimate
        <3>5. QED
            BY <3>2, <3>3, <3>4 DEF IInv
    <2>2. CASE UNCHANGED vars
        BY <2>2 DEF vars, IInv, NodeInv, Sampling, NoAnswer, LastAnswer
    <2>3. QED
        BY <2>1, <2>2
<1>3. QED
    BY <1>1, <1>2, PTL DEF Spec

LEMMA RangeBounds ==
    ASSUME IInv
    PROVE  /\ range \in [start : Nat, end : Nat]
           /\ range.start <= range.end
           /\ range.end <= query.point_count
           /\ query.point_count \in Nat /\ query.point_count <= MaxPoints
<1>1. query.point_count \in 0 .. MaxPoints /\ query.point_count \in Nat
    BY PointRangeAssumption DEF IInv
<1>2. CASE range = NoPoints
    BY <1>1, <1>2 DEF NoPoints
<1>3. CASE range # NoPoints
    <2>1. /\ query.start \in Int /\ query.end \in Int
          /\ range = estimate_point_range(entry, query.start, query.end, stride,
                                          query.point_count)
        BY <1>3, PointRangeAssumption DEF IInv, NoAnswer, LastAnswer
    <2>2. OrderedEntry(entry) /\ stride \in Nat \ {0}
        BY NodeInvSamples, SamplesOrdered DEF IInv
    <2>3. QED
        BY <1>1, <2>1, <2>2, EstimateInChunk
<1>4. QED
    BY <1>2, <1>3

(* The candidate range is within the chunk the hierarchy describes,        *)
(* whatever the node of the temporal index says: slicing the columns with  *)
(* it does not panic (temporal_index.rs:83-87).                            *)
THEOREM RangesAreInTheirChunk == Spec => []RangeInChunk
<1>1. IInv => RangeInChunk
    BY RangeBounds DEF RangeInChunk
<1>2. QED
    BY <1>1, AnswersAreOfTheNode, PTL

(* Types (temporal_index.rs:28-50, 59-88).                                 *)
THEOREM TypeCorrect == Spec => []TypeOK
<1>1. IInv => TypeOK
    <2> SUFFICES ASSUME IInv
                 PROVE  TypeOK
        OBVIOUS
    <2>1. range \in [start : 0 .. MaxPoints, end : 0 .. MaxPoints]
        BY RangeBounds, PointRangeAssumption DEF IInv
    <2>2. overlap \in BOOLEAN
        BY DEF IInv, NoAnswer, LastAnswer, overlaps
    <2>3. QED
        BY <2>1, <2>2 DEF IInv, NodeInv, Sampling, TypeOK
<1>2. QED
    BY <1>1, AnswersAreOfTheNode, PTL

(* An answer about the node's own point count is not the initial one. *)
LEMMA AnswerOfNode ==
    ASSUME IInv, query.point_count = n
    PROVE  /\ SampledNode(n, times, stride, entry) /\ LastAnswer
           /\ n \in 1 .. MaxPoints
           /\ query.start \in Int /\ query.end \in Int
<1>1. SampledNode(n, times, stride, entry) /\ n \in 1 .. MaxPoints
    BY NodeInvSamples DEF IInv
<1>2. LastAnswer
    BY <1>1, PointRangeAssumption DEF IInv, NoAnswer
<1>3. QED
    BY <1>1, <1>2, PointRangeAssumption DEF LastAnswer

LEMMA SkippedMatchNothing ==
    ASSUME IInv
    PROVE  SkippedNodesMatchNothing
<1> SUFFICES ASSUME query.point_count = n, NEW p \in Upto(n), Matches(p)
             PROVE  overlap
    BY DEF SkippedNodesMatchNothing
<1>1. /\ entry.samples[entry.count - 1] >= query.start
      /\ entry.samples[0] <= query.end
    BY AnswerOfNode, PointsOverlap DEF Matches
<1>2. QED
    BY <1>1, AnswerOfNode DEF LastAnswer, overlaps

(* The shortcut of nodes_in_range loses nothing: a node whose first sample *)
(* is after the window or whose last sample is before it has no point in   *)
(* the window (temporal_index.rs:46-50).                                   *)
THEOREM SkippingIsSound == Spec => []SkippedNodesMatchNothing
BY SkippedMatchNothing, AnswersAreOfTheNode, PTL

(* The matching points the candidate range leaves out lie strictly between *)
(* two consecutive multiples of the stride, the last before the window and *)
(* the next one (temporal_index.rs:70-87).                                 *)
THEOREM EstimateIsOffByLessThanAStride == Spec => []MissesWithinOneStride
<1>1. IInv => MissesWithinOneStride
    <2> SUFFICES ASSUME IInv, query.point_count = n
                 PROVE  \E k \in 0 .. n - 1 : \A p \in Upto(n) :
                            Matches(p) /\ ~InRange(p) =>
                                k * stride < p /\ p < (k + 1) * stride
        BY DEF MissesWithinOneStride
    <2> DEFINE r == estimate_point_range(entry, query.start, query.end, stride, n)
    <2>1. PICK m \in Upto(n) : \A p \in Upto(n) :
                   /\ query.start <= times[p] /\ times[p] <= query.end
                   /\ ~(r.start <= p /\ p < r.end)
                   => m * stride < p /\ p < (m + 1) * stride
        BY AnswerOfNode, EstimateMisses
    <2>2. overlap => range = r
        BY AnswerOfNode DEF LastAnswer
    <2>3. \A p \in Upto(n) : Matches(p) => overlap
        BY SkippedMatchNothing DEF SkippedNodesMatchNothing
    <2> HIDE DEF r
    <2>4. \A p \in Upto(n) : Matches(p) /\ ~InRange(p) =>
                                m * stride < p /\ p < (m + 1) * stride
        BY <2>1, <2>2, <2>3 DEF Matches, InRange
    <2>5. QED
        BY <2>4 DEF Upto
<1>2. QED
    BY <1>1, AnswersAreOfTheNode, PTL

(* No sampled point but the last of the node is left out, however the       *)
(* window falls between the samples (temporal_index.rs:70-87).              *)
THEOREM SampledPointsAreInRange ==
    Spec => [](query.point_count = n =>
                   \A p \in Upto(n) : Matches(p) /\ p % stride = 0 => InRange(p))
<1>1. ASSUME IInv, MissesWithinOneStride, query.point_count = n,
             NEW p \in Upto(n), Matches(p), p % stride = 0
      PROVE  InRange(p)
    <2>1. PICK m \in 0 .. n - 1 : \A x \in Upto(n) :
              Matches(x) /\ ~InRange(x) => m * stride < x /\ x < (m + 1) * stride
        BY <1>1 DEF MissesWithinOneStride
    <2>2. p \in Nat /\ m \in Nat /\ stride \in Nat \ {0}
        BY <1>1, NodeInvSamples DEF Upto, IInv
    <2>3. ~(m * stride < p /\ p < (m + 1) * stride)
        BY <1>1, <2>2, NoMultipleBetween
    <2>4. QED
        BY <1>1, <2>1, <2>3
<1>2. IInv /\ MissesWithinOneStride =>
          (query.point_count = n =>
               \A p \in Upto(n) : Matches(p) /\ p % stride = 0 => InRange(p))
    BY <1>1
<1>3. QED
    BY <1>2, AnswersAreOfTheNode, EstimateIsOffByLessThanAStride, PTL

(* With a stride of one the doc of query_chunks is right: no point outside  *)
(* of the range matches (temporal_cache.rs:247-251).                        *)
THEOREM NothingMatchesOutsideAtStrideOne == Spec => [](stride = 1 => OutsideNeverMatches)
<1>1. ASSUME stride = 1,
             query.point_count = n =>
                 \A p \in Upto(n) : Matches(p) /\ p % stride = 0 => InRange(p)
      PROVE  OutsideNeverMatches
    <2>1. \A p \in Upto(n) : p % stride = 0
        BY <1>1 DEF Upto
    <2>2. QED
        BY <1>1, <2>1 DEF OutsideNeverMatches
<1>2. QED
    BY <1>1, SampledPointsAreInRange, PTL
=============================================================================
