------------------------ MODULE HierarchyCacheProofs ------------------------
(***************************************************************************)
(* The safety properties of HierarchyCache, for every file and every       *)
(* sequence of calls, failures and cancellations.                          *)
(*                                                                         *)
(* The inductive invariant is PagesConserved, with what the map holds      *)
(* (EntriesParsed), where each pending pointer comes from (PointersAgree), *)
(* what the place of a call says of it (CallInv), and what the last loop   *)
(* head found when it returned (NothingWantedLeft).                        *)
(***************************************************************************)
EXTENDS HierarchyCache, TLAPS

-----------------------------------------------------------------------------
(* The cells.  What pruning by boxes rests on: a box that meets a cell     *)
(* meets every cell the cell is nested in, and the cells of a subtree are  *)
(* nested in the root of the subtree.                                      *)

LEMMA BoundsType ==
    ASSUME NEW k \in VoxelKey
    PROVE  bounds(k) \in Aabb
<1> DEFINE E == Edge[k.level]
<1>1. k.level \in Level /\ k.pos \in Point /\ RootMin \in Point
    BY OctreeAssumption DEF VoxelKey
<1>2. E \in Int
    BY <1>1, OctreeAssumption
<1>3. ASSUME NEW a \in Axis
      PROVE  /\ RootMin[a] + k.pos[a] * E \in Int
             /\ RootMin[a] + (k.pos[a] + 1) * E \in Int
    <2>1. RootMin[a] \in Int /\ k.pos[a] \in Int
        BY <1>1 DEF Point
    <2> HIDE DEF E
    <2>2. QED
        BY <1>2, <2>1
<1>4. /\ [a \in Axis |-> RootMin[a] + k.pos[a] * E] \in Point
      /\ [a \in Axis |-> RootMin[a] + (k.pos[a] + 1) * E] \in Point
    BY <1>3 DEF Point
<1>5. QED
    BY <1>4 DEF bounds, Aabb

LEMMA NestedReflexive ==
    ASSUME NEW k \in VoxelKey
    PROVE  Nested(k, k)
BY BoundsType DEF Nested, VoxelKey, Level, Aabb, Point

LEMMA NestedTransitive ==
    ASSUME NEW a \in VoxelKey, NEW b \in VoxelKey, NEW c \in VoxelKey,
           Nested(a, b), Nested(b, c)
    PROVE  Nested(a, c)
<1>1. /\ bounds(a) \in Aabb
      /\ bounds(b) \in Aabb
      /\ bounds(c) \in Aabb
    BY BoundsType
<1>2. a.level <= c.level
    BY OctreeAssumption DEF Nested, VoxelKey, Level
<1>3. ASSUME NEW x \in Axis
      PROVE  /\ bounds(a).min[x] <= bounds(c).min[x]
             /\ bounds(c).max[x] <= bounds(a).max[x]
    BY <1>1 DEF Nested, Aabb, Point
<1>4. QED
    BY <1>2, <1>3 DEF Nested

(* A box that meets a cell meets the cells it is nested in: a page whose   *)
(* key does not meet the box of a query holds nothing the query is about,  *)
(* at any depth (hierarchy.rs:135, reader.rs:264).                         *)
THEOREM PruningSound ==
    ASSUME NEW a \in VoxelKey, NEW k \in VoxelKey, NEW b \in Aabb,
           Nested(a, k), intersects(bounds(k), b)
    PROVE  intersects(bounds(a), b)
<1>1. bounds(a) \in Aabb /\ bounds(k) \in Aabb
    BY BoundsType
<1>2. ASSUME NEW x \in Axis
      PROVE  /\ bounds(a).min[x] <= b.max[x]
             /\ bounds(a).max[x] >= b.min[x]
    BY <1>1 DEF Nested, intersects, Aabb, Point
<1>3. QED
    BY <1>2 DEF intersects

Holds(b, x) == \A a \in Axis : b.min[a] <= x[a] /\ x[a] <= b.max[a]

(* intersects() is true of two boxes exactly when they have a point in     *)
(* common, a shared corner included (types.rs:84-91).                      *)
THEOREM IntersectsExactly ==
    ASSUME NEW b \in Aabb, NEW c \in Aabb,
           \A a \in Axis : b.min[a] <= b.max[a] /\ c.min[a] <= c.max[a]
    PROVE  intersects(b, c) <=> \E x \in Point : Holds(b, x) /\ Holds(c, x)
<1>1. \A a \in Axis : /\ b.min[a] \in Int /\ b.max[a] \in Int
                      /\ c.min[a] \in Int /\ c.max[a] \in Int
    BY DEF Aabb, Point
<1>2. ASSUME intersects(b, c)
      PROVE  \E x \in Point : Holds(b, x) /\ Holds(c, x)
    <2> DEFINE x == [a \in Axis |-> IF b.min[a] <= c.min[a] THEN c.min[a] ELSE b.min[a]]
    <2>1. x \in Point
        BY <1>1 DEF Point
    <2>2. ASSUME NEW a \in Axis
          PROVE  b.min[a] <= x[a] /\ x[a] <= b.max[a] /\ c.min[a] <= x[a] /\ x[a] <= c.max[a]
        BY <1>1, <1>2 DEF intersects
    <2> HIDE DEF x
    <2>3. QED
        BY <2>1, <2>2 DEF Holds
<1>3. ASSUME NEW x \in Point, Holds(b, x), Holds(c, x)
      PROVE  intersects(b, c)
    <2>1. ASSUME NEW a \in Axis
          PROVE  b.min[a] <= c.max[a] /\ b.max[a] >= c.min[a]
        <3>1. x[a] \in Int
            BY DEF Point
        <3>2. b.min[a] <= x[a] /\ x[a] <= b.max[a] /\ c.min[a] <= x[a] /\ x[a] <= c.max[a]
            BY <1>3 DEF Holds
        <3>3. QED
            BY <1>1, <3>1, <3>2
    <2>2. QED
        BY <2>1 DEF intersects
<1>4. QED
    BY <1>2, <1>3

(* child() stays inside its cell, in all eight directions and for the      *)
(* negative coordinates the format allows as well (types.rs:40-70).        *)
THEOREM ChildNested ==
    ASSUME NEW k \in VoxelKey, k.level < MaxLevel, NEW dir \in Octant
    PROVE  /\ child(k, dir) \in VoxelKey
           /\ Nested(k, child(k, dir))
<1> DEFINE c == child(k, dir)
           E == Edge[k.level + 1]
<1>1. /\ k.level \in Level
      /\ k.level + 1 \in Level
      /\ k.level # MaxLevel
      /\ E \in Nat
      /\ Edge[k.level] = 2 * E
    <2>1. MaxLevel \in Nat /\ k.level \in Level
        BY OctreeAssumption DEF VoxelKey
    <2>2. k.level + 1 \in Level /\ k.level # MaxLevel
        BY <2>1 DEF Level
    <2>3. QED
        BY <2>1, <2>2, OctreeAssumption
<1>2. c \in VoxelKey
    BY <1>1 DEF child, VoxelKey, Point, Axis, Octant
<1>3. c.level = k.level + 1
    BY DEF child
<1>4. ASSUME NEW x \in Axis
      PROVE  /\ bounds(k).min[x] <= bounds(c).min[x]
             /\ bounds(c).max[x] <= bounds(k).max[x]
    <2> DEFINE m == RootMin[x]
               p == k.pos[x]
               d == dir[x]
    <2>1. m \in Int /\ p \in Int /\ d \in {0, 1}
        BY OctreeAssumption DEF VoxelKey, Point, Octant
    <2>2. c.pos[x] = 2 * p + d
        BY DEF child
    <2>3. /\ bounds(k).min[x] = m + p * (2 * E)
          /\ bounds(k).max[x] = m + (p + 1) * (2 * E)
        BY <1>1 DEF bounds
    <2>4. /\ bounds(c).min[x] = m + (2 * p + d) * E
          /\ bounds(c).max[x] = m + (2 * p + d + 1) * E
        BY <1>3, <2>2 DEF bounds
    <2>5. /\ m + p * (2 * E) <= m + (2 * p + d) * E
          /\ m + (2 * p + d + 1) * E <= m + (p + 1) * (2 * E)
        <3> HIDE DEF E, m, p, d
        <3>1. CASE d = 0
            BY <1>1, <2>1, <3>1
        <3>2. CASE d = 1
            BY <1>1, <2>1, <3>2
        <3>3. QED
            BY <2>1, <3>1, <3>2
    <2>6. QED
        BY <2>3, <2>4, <2>5
<1>5. k.level <= c.level
    BY <1>1, <1>3 DEF Level
<1>6. QED
    BY <1>2, <1>4, <1>5 DEF Nested

LEMMA Doubling ==
    ASSUME NEW p \in Int, NEW e \in Nat
    PROVE  /\ p * e \in Int
           /\ p * (2 * e) = 2 * (p * e)
           /\ (p + 1) * (2 * e) = 2 * (p * e) + 2 * e
           /\ (2 * p) * e = 2 * (p * e)
           /\ (2 * p + 1) * e = 2 * (p * e) + e
           /\ (2 * p + 1 + 1) * e = 2 * (p * e) + 2 * e
OBVIOUS

(* The eight children leave no part of their parent's cell uncovered: a    *)
(* search that descends from a cell to its children loses no point         *)
(* (types.rs:40-70).                                                       *)
THEOREM ChildrenCover ==
    ASSUME NEW k \in VoxelKey, k.level < MaxLevel,
           NEW x \in Point, Holds(bounds(k), x)
    PROVE  \E c \in children(k) : Holds(bounds(c), x)
<1> DEFINE E      == Edge[k.level + 1]
           middle == [a \in Axis |-> RootMin[a] + (2 * k.pos[a] + 1) * E]
           dir    == [a \in Axis |-> IF x[a] <= middle[a] THEN 0 ELSE 1]
           c      == child(k, dir)
<1>1. E \in Nat /\ Edge[k.level] = 2 * E
    <2>1. MaxLevel \in Nat /\ k.level \in Level
        BY OctreeAssumption DEF VoxelKey
    <2>2. k.level + 1 \in Level /\ k.level # MaxLevel
        BY <2>1 DEF Level
    <2>3. QED
        BY <2>1, <2>2, OctreeAssumption
<1>2. dir \in Octant
    BY DEF Octant
<1>3. ASSUME NEW a \in Axis
      PROVE  bounds(c).min[a] <= x[a] /\ x[a] <= bounds(c).max[a]
    <2> DEFINE m == RootMin[a]
               p == k.pos[a]
               q == p * E
    <2>1. m \in Int /\ p \in Int /\ x[a] \in Int
        BY OctreeAssumption DEF VoxelKey, Point
    <2>2. q \in Int
        BY <1>1, <2>1, Doubling
    <2>3. m + 2 * q <= x[a] /\ x[a] <= m + (2 * q + 2 * E)
        <3>1. /\ bounds(k).min[a] = m + p * (2 * E)
              /\ bounds(k).max[a] = m + (p + 1) * (2 * E)
            BY <1>1 DEF bounds
        <3>2. bounds(k).min[a] <= x[a] /\ x[a] <= bounds(k).max[a]
            BY DEF Holds
        <3>3. p * (2 * E) = 2 * q /\ (p + 1) * (2 * E) = 2 * q + 2 * E
            BY <1>1, <2>1, Doubling
        <3> HIDE DEF m, p, q, E
        <3>4. QED
            BY <3>1, <3>2, <3>3
    <2>4. middle[a] = m + (2 * q + E)
        <3>1. middle[a] = m + (2 * p + 1) * E
            OBVIOUS
        <3>2. (2 * p + 1) * E = 2 * q + E
            BY <1>1, <2>1, Doubling
        <3> HIDE DEF m, p, q, E, middle
        <3>3. QED
            BY <3>1, <3>2
    <2>5. /\ bounds(c).min[a] = m + (2 * p + dir[a]) * E
          /\ bounds(c).max[a] = m + (2 * p + dir[a] + 1) * E
        BY DEF bounds, child
    <2>6. CASE x[a] <= middle[a]
        <3>1. dir[a] = 0
            BY <2>6
        <3>2. (2 * p + dir[a]) * E = 2 * q /\ (2 * p + dir[a] + 1) * E = 2 * q + E
            <4>1. 2 * p + dir[a] = 2 * p /\ 2 * p + dir[a] + 1 = 2 * p + 1
                BY <2>1, <3>1
            <4>2. (2 * p) * E = 2 * q /\ (2 * p + 1) * E = 2 * q + E
                BY <1>1, <2>1, Doubling
            <4> HIDE DEF m, p, q, E, dir
            <4>3. QED
                BY <4>1, <4>2
        <3> HIDE DEF m, p, q, E, middle, dir, c
        <3>3. QED
            BY <1>1, <2>1, <2>2, <2>3, <2>4, <2>5, <2>6, <3>2
    <2>7. CASE ~(x[a] <= middle[a])
        <3>1. dir[a] = 1
            BY <2>7
        <3>2. (2 * p + dir[a]) * E = 2 * q + E /\ (2 * p + dir[a] + 1) * E = 2 * q + 2 * E
            <4>1. 2 * p + dir[a] = 2 * p + 1 /\ 2 * p + dir[a] + 1 = 2 * p + 1 + 1
                BY <2>1, <3>1
            <4>2. (2 * p + 1) * E = 2 * q + E /\ (2 * p + 1 + 1) * E = 2 * q + 2 * E
                BY <1>1, <2>1, Doubling
            <4> HIDE DEF m, p, q, E, dir
            <4>3. QED
                BY <4>1, <4>2
        <3> HIDE DEF m, p, q, E, middle, dir, c
        <3>3. QED
            BY <1>1, <2>1, <2>2, <2>3, <2>4, <2>5, <2>7, <3>2
    <2>8. QED
        BY <2>6, <2>7
<1>4. c \in children(k)
    BY <1>2 DEF children
<1>5. QED
    BY <1>3, <1>4 DEF Holds

(* parent() undoes child(), also where >> and << meet a negative           *)
(* coordinate (types.rs:27-48).                                            *)
THEOREM ParentOfChild ==
    ASSUME NEW k \in VoxelKey, NEW dir \in Octant
    PROVE  parent(child(k, dir)) = k
<1>1. ASSUME NEW x \in Axis
      PROVE  (2 * k.pos[x] + dir[x]) \div 2 = k.pos[x]
    <2>1. k.pos[x] \in Int /\ dir[x] \in {0, 1}
        BY DEF VoxelKey, Point, Octant
    <2>2. QED
        BY <2>1
<1> DEFINE c == child(k, dir)
           half == [x \in Axis |-> c.pos[x] \div 2]
<1>2. /\ c.level = k.level + 1
      /\ \A x \in Axis : c.pos[x] = 2 * k.pos[x] + dir[x]
    BY DEF child
<1>3. half = k.pos
    <2>1. \A x \in Axis : half[x] = k.pos[x]
        BY <1>1, <1>2
    <2>2. k.pos = [x \in Axis |-> k.pos[x]]
        BY DEF VoxelKey, Point
    <2>3. QED
        BY <2>1, <2>2
<1>4. c.level - 1 = k.level
    BY <1>2, OctreeAssumption DEF VoxelKey, Level
<1>5. parent(c) = [level |-> c.level - 1, pos |-> half]
    <2>1. c.level # 0
        BY <1>2, OctreeAssumption DEF VoxelKey, Level
    <2>2. QED
        BY <2>1 DEF parent
<1>6. k = [level |-> k.level, pos |-> k.pos]
    BY DEF VoxelKey
<1>7. QED
    <2> HIDE DEF c, half
    <2>1. parent(c) = k
        BY <1>3, <1>4, <1>5, <1>6
    <2>2. QED
        BY <2>1 DEF c

-----------------------------------------------------------------------------
(* The invariant.                                                          *)

(* The nodes in the map are those of the pages parsed. *)
EntriesParsed == entries = EntriesIn(loaded)

(* A pointer kept was read in a parsed page. *)
PointersAgree ==
    \A q \in pending_pages \cup inflight :
        \E p \in loaded : \E e \in Pointers(p) : q = PendingOf(e)

CallInv ==
    /\ pc # "read" => inflight = {}
    /\ pc = "root" => ~root_loaded /\ call.op \in {"load_root", "load_all"}
    /\ pc \in {"loop", "read"} =>
          call.op # "load_root" /\ (call.op = "load_all" => root_loaded)
    /\ pc = "read" => \A q \in inflight : Selected(call, q.key)

(* A call that returned Ok left no page that it was about pending. *)
NothingWantedLeft ==
    Answered => \A q \in pending_pages : ~Wanted(call, q.key)

IInv ==
    /\ TypeOK
    /\ PagesConserved
    /\ EntriesParsed
    /\ PointersAgree
    /\ CallInv
    /\ NothingWantedLeft

-----------------------------------------------------------------------------
(* The file.                                                               *)

LEMMA PointerFacts ==
    ASSUME NEW p \in Page, NEW e \in Pointers(p)
    PROVE  /\ e \in WireEntry
           /\ e.offset \in Page
           /\ e.offset # RootPage
           /\ e.key = Anchor[e.offset]
           /\ Nested(Anchor[p], e.key)
BY FileAssumption DEF Pointers, PageKey

LEMMA PointersUnique ==
    ASSUME NEW p \in Page, NEW q \in Page,
           NEW d \in Pointers(p), NEW e \in Pointers(q), d.offset = e.offset
    PROVE  p = q /\ d = e
BY FileAssumption

LEMMA TargetsFacts ==
    ASSUME NEW p \in Page
    PROVE  /\ Targets(p) \subseteq Page \ {RootPage}
           /\ \A q \in Page : q # p => Targets(p) \cap Targets(q) = {}
<1>1. Targets(p) \subseteq Page \ {RootPage}
    BY PointerFacts DEF Targets
<1>2. ASSUME NEW q \in Page, q # p, NEW t \in Targets(p), t \in Targets(q)
      PROVE  FALSE
    <2>1. PICK d \in Pointers(p) : t = d.offset
        BY DEF Targets
    <2>2. PICK e \in Pointers(q) : t = e.offset
        BY <1>2 DEF Targets
    <2>3. QED
        BY <1>2, <2>1, <2>2, PointersUnique
<1>3. QED
    BY <1>1, <1>2

LEMMA PendingOfType ==
    ASSUME NEW p \in Page, NEW e \in Pointers(p)
    PROVE  /\ PendingOf(e) \in PendingPage
           /\ PendingOf(e).offset = e.offset
           /\ PendingOf(e).key = Anchor[e.offset]
<1>1. e.byte_size \in Int /\ e.key \in VoxelKey /\ e.offset \in Page
    BY PointerFacts DEF WireEntry
<1>2. AsU64(e.byte_size) \in 0 .. U64 - 1
    BY <1>1, FileAssumption DEF AsU64
<1>3. QED
    BY <1>1, <1>2, PointerFacts DEF PendingOf, PendingPage

LEMMA EntryOfType ==
    ASSUME NEW p \in Page, NEW e \in Nodes(p)
    PROVE  /\ EntryOf(e) \in HierarchyEntry
           /\ EntryOf(e).key = e.key
<1>1. e \in WireEntry /\ e.point_count >= 0 /\ e.byte_size >= 0
    BY FileAssumption DEF Nodes, IsNode
<1>2. QED
    BY <1>1 DEF WireEntry, EntryOf, HierarchyEntry

LEMMA NodesUnique ==
    ASSUME NEW p \in Page, NEW q \in Page,
           NEW d \in Nodes(p), NEW e \in Nodes(q), d.key = e.key
    PROVE  p = q /\ d = e
BY FileAssumption

-----------------------------------------------------------------------------
(* Parsing a batch.                                                        *)

LEMMA PendingInFacts ==
    ASSUME NEW batch \in SUBSET Page
    PROVE  /\ PendingIn(batch) \subseteq PendingPage
           /\ Offsets(PendingIn(batch)) = TargetsOf(batch)
           /\ \A q \in PendingIn(batch) :
                 \E p \in batch : \E e \in Pointers(p) : q = PendingOf(e)
<1>1. \A q \in PendingIn(batch) :
          \E p \in batch : \E e \in Pointers(p) : q = PendingOf(e)
    BY DEF PendingIn
<1>2. PendingIn(batch) \subseteq PendingPage
    BY <1>1, PendingOfType
<1>3. ASSUME NEW q \in PendingIn(batch)
      PROVE  q.offset \in TargetsOf(batch)
    BY <1>1, PendingOfType DEF Targets, TargetsOf
<1>4. ASSUME NEW p \in batch, NEW t \in Targets(p)
      PROVE  t \in Offsets(PendingIn(batch))
    <2>1. PICK e \in Pointers(p) : t = e.offset
        BY DEF Targets
    <2>2. PendingOf(e) \in PendingIn(batch)
        BY DEF PendingIn
    <2>3. PendingOf(e).offset = t
        BY <2>1, PendingOfType
    <2>4. QED
        BY <2>2, <2>3 DEF Offsets
<1>5. QED
    BY <1>1, <1>2, <1>3, <1>4 DEF Offsets, TargetsOf

LEMMA EntriesInFacts ==
    ASSUME NEW batch \in SUBSET Page
    PROVE  /\ EntriesIn(batch) \subseteq HierarchyEntry
           /\ \A n \in EntriesIn(batch) :
                 \E p \in batch : \E e \in Nodes(p) : n = EntryOf(e)
<1>1. \A n \in EntriesIn(batch) :
          \E p \in batch : \E e \in Nodes(p) : n = EntryOf(e)
    BY DEF EntriesIn
<1>2. QED
    BY <1>1, EntryOfType

(* Inserting the nodes of new pages replaces nothing. *)
LEMMA InsertedExact ==
    ASSUME NEW old \in SUBSET Page, NEW batch \in SUBSET Page,
           batch \cap old = {}
    PROVE  Inserted(EntriesIn(old), EntriesIn(batch)) = EntriesIn(old \cup batch)
<1>1. ASSUME NEW m \in EntriesIn(old), NEW n \in EntriesIn(batch)
      PROVE  n.key # m.key
    <2>1. PICK p \in old : \E d \in Nodes(p) : m = EntryOf(d)
        BY EntriesInFacts
    <2>2. PICK q \in batch : \E e \in Nodes(q) : n = EntryOf(e)
        BY EntriesInFacts
    <2>3. PICK d \in Nodes(p) : m = EntryOf(d)
        BY <2>1
    <2>4. PICK e \in Nodes(q) : n = EntryOf(e)
        BY <2>2
    <2>5. m.key = d.key /\ n.key = e.key
        BY <2>3, <2>4, EntryOfType
    <2>6. QED
        BY <2>5, NodesUnique
<1>2. EntriesIn(old \cup batch) = EntriesIn(old) \cup EntriesIn(batch)
    BY DEF EntriesIn
<1>3. QED
    BY <1>1, <1>2 DEF Inserted

LEMMA ParseFacts ==
    ASSUME TypeOK, EntriesParsed, NEW batch \in SUBSET Page,
           batch \cap loaded = {}, Parse(batch)
    PROVE  /\ entries' \subseteq HierarchyEntry
           /\ pending_pages' \subseteq PendingPage
           /\ loaded' \subseteq Page
           /\ EntriesParsed'
           /\ entries \subseteq entries'
           /\ Offsets(pending_pages') =
                Offsets(pending_pages) \cup TargetsOf(batch)
<1>1. entries' = EntriesIn(loaded')
    BY InsertedExact DEF Parse, EntriesParsed, TypeOK
<1>2. loaded' = loaded \cup batch /\ loaded' \subseteq Page
    BY DEF Parse, TypeOK
<1>3. entries' \subseteq HierarchyEntry
    BY <1>1, <1>2, EntriesInFacts
<1>4. entries \subseteq entries'
    BY <1>1, <1>2 DEF EntriesParsed, EntriesIn
<1>5. /\ pending_pages' = pending_pages \cup PendingIn(batch)
      /\ pending_pages' \subseteq PendingPage
    BY PendingInFacts DEF Parse, TypeOK
<1>6. Offsets(pending_pages') = Offsets(pending_pages) \cup Offsets(PendingIn(batch))
    BY <1>5 DEF Offsets
<1>7. QED
    BY <1>1, <1>2, <1>3, <1>4, <1>5, <1>6, PendingInFacts DEF EntriesParsed

(* A new pending pointer comes from the batch parsed. *)
LEMMA ParseOrigins ==
    ASSUME PointersAgree, NEW batch \in SUBSET Page, Parse(batch),
           inflight' \subseteq inflight
    PROVE  PointersAgree'
<1>1. ASSUME NEW q \in PendingIn(batch)
      PROVE  \E p \in loaded' : \E e \in Pointers(p) : q = PendingOf(e)
    BY PendingInFacts DEF Parse
<1>2. ASSUME NEW q \in pending_pages \cup inflight
      PROVE  \E p \in loaded' : \E e \in Pointers(p) : q = PendingOf(e)
    BY DEF PointersAgree, Parse
<1>3. pending_pages' \cup inflight' \subseteq
        PendingIn(batch) \cup pending_pages \cup inflight
    BY DEF Parse
<1>4. QED
    BY <1>1, <1>2, <1>3 DEF PointersAgree

(* Two kept pointers to the same page are the same pointer. *)
LEMMA KeptPointers ==
    ASSUME TypeOK, PointersAgree
    PROVE  /\ \A q \in pending_pages \cup inflight : q.key = Anchor[q.offset]
           /\ \A q, r \in pending_pages \cup inflight :
                 q.offset = r.offset => q = r
<1>1. \A q \in pending_pages \cup inflight : q.key = Anchor[q.offset]
    BY PendingOfType DEF PointersAgree, TypeOK
<1>2. ASSUME NEW q \in pending_pages \cup inflight,
             NEW r \in pending_pages \cup inflight,
             q.offset = r.offset
      PROVE  q = r
    <2>1. PICK p1 \in loaded : \E e \in Pointers(p1) : q = PendingOf(e)
        BY DEF PointersAgree
    <2>2. PICK d \in Pointers(p1) : q = PendingOf(d)
        BY <2>1
    <2>3. PICK p2 \in loaded : \E e \in Pointers(p2) : r = PendingOf(e)
        BY DEF PointersAgree
    <2>4. PICK e \in Pointers(p2) : r = PendingOf(e)
        BY <2>3
    <2>5. p1 \in Page /\ p2 \in Page
        BY DEF TypeOK
    <2>6. d.offset = e.offset
        BY <1>2, <2>2, <2>4, <2>5, PendingOfType
    <2>7. QED
        BY <2>2, <2>4, <2>5, <2>6, PointersUnique
<1>3. QED
    BY <1>1, <1>2

(* The pages of the pages that were not yet parsed are all new. *)
LEMMA NewTargets ==
    ASSUME TypeOK, PagesConserved, NEW batch \in SUBSET Page,
           batch \cap loaded = {}
    PROVE  /\ TargetsOf(batch) \subseteq Page \ {RootPage}
           /\ TargetsOf(batch)
                \cap TargetsOf(loaded) = {}
<1>1. loaded \subseteq Page
    BY DEF TypeOK
<1>2. QED
    BY <1>1, TargetsFacts DEF TargetsOf

-----------------------------------------------------------------------------
(* The steps.                                                              *)

LEMMA InitIInv == Init => IInv
<1> SUFFICES ASSUME Init PROVE IInv
    OBVIOUS
<1>1. TypeOK
    BY DEF Init, TypeOK, Call
<1>2. PagesConserved
    BY DEF Init, PagesConserved, Offsets, TargetsOf
<1>3. EntriesParsed
    BY DEF Init, EntriesParsed, EntriesIn
<1>4. PointersAgree /\ CallInv /\ NothingWantedLeft
    BY DEF Init, PointersAgree, CallInv, NothingWantedLeft, Answered
<1>5. QED
    BY <1>1, <1>2, <1>3, <1>4 DEF IInv

(* A step that leaves the cache and its history alone. *)
LEMMA CacheUnchanged ==
    ASSUME IInv,
           UNCHANGED << entries, pending_pages, root_loaded, inflight, loaded, lost >>
    PROVE  PagesConserved' /\ EntriesParsed' /\ PointersAgree'
BY DEF IInv, PagesConserved, EntriesParsed, PointersAgree

LEMMA CallsIInv == ASSUME IInv, Calls PROVE IInv'
<1>1. PagesConserved' /\ EntriesParsed' /\ PointersAgree'
    BY CacheUnchanged DEF Calls, LoadRoot, LoadPendingPages, LoadAll,
       LoadPagesForBounds, LoadPagesForBoundsToLevel, Start
<1>2. TypeOK' /\ CallInv' /\ NothingWantedLeft'
    <2> USE DEF Start, Call, IInv, TypeOK, CallInv, NothingWantedLeft, Answered
    <2>1. CASE LoadRoot
        BY <2>1 DEF LoadRoot, Wanted
    <2>2. CASE LoadPendingPages
        BY <2>2 DEF LoadPendingPages
    <2>3. CASE LoadAll
        BY <2>3 DEF LoadAll
    <2>4. CASE \E b \in Box : LoadPagesForBounds(b)
        BY <2>4 DEF LoadPagesForBounds
    <2>5. CASE \E b \in Box, l \in LevelLimit : LoadPagesForBoundsToLevel(b, l)
        BY <2>5 DEF LoadPagesForBoundsToLevel
    <2>6. QED
        BY <2>1, <2>2, <2>3, <2>4, <2>5 DEF Calls
<1>3. QED
    BY <1>1, <1>2 DEF IInv

LEMMA RootReadIInv == ASSUME IInv, RootRead PROVE IInv'
<1> DEFINE batch == {RootPage}
<1>1. /\ batch \in SUBSET Page
      /\ batch \cap loaded = {}
      /\ inflight = {}
      /\ ~root_loaded
    BY FileAssumption DEF IInv, CallInv, PagesConserved, RootRead
<1>2. /\ entries' \subseteq HierarchyEntry
      /\ pending_pages' \subseteq PendingPage
      /\ loaded' \subseteq Page
      /\ EntriesParsed'
      /\ Offsets(pending_pages') =
           Offsets(pending_pages) \cup TargetsOf(batch)
    BY <1>1, ParseFacts DEF IInv, RootRead
<1>3. TypeOK'
    BY <1>2 DEF IInv, TypeOK, RootRead, Finish
<1>4. PagesConserved'
    <2>1. /\ TargetsOf(batch) \subseteq Page \ {RootPage}
          /\ TargetsOf(batch)
               \cap TargetsOf(loaded) = {}
        BY <1>1, NewTargets DEF IInv
    <2>2. /\ loaded' = loaded \cup batch
          /\ TargetsOf(loaded') =
               TargetsOf(loaded) \cup TargetsOf(batch)
        BY DEF RootRead, Parse, TargetsOf
    <2>3. inflight' = inflight /\ lost' = lost /\ root_loaded' = TRUE
        BY DEF RootRead
    <2> HIDE DEF batch
    <2>4. RootPage \in loaded'
        BY <2>2 DEF batch
    <2>5. loaded' \ {RootPage} = loaded \ {RootPage}
        BY <2>2 DEF batch
    <2>6. QED
        BY <1>1, <1>2, <2>1, <2>2, <2>3, <2>4, <2>5 DEF IInv, PagesConserved
<1>5. PointersAgree'
    BY <1>1, ParseOrigins DEF IInv, RootRead
<1>6. CallInv'
    BY <1>1 DEF IInv, CallInv, RootRead, Finish
<1>7. NothingWantedLeft'
    <2>1. Answered' => call'.op = "load_root"
        BY <1>1 DEF RootRead, Answered, Finish, IInv, CallInv
    <2>2. QED
        BY <2>1 DEF NothingWantedLeft, Wanted
<1>8. QED
    BY <1>2, <1>3, <1>4, <1>5, <1>6, <1>7 DEF IInv

LEMMA TakeBatchIInv == ASSUME IInv, TakeBatch PROVE IInv'
<1>1. /\ inflight = {}
      /\ inflight' = Matching
      /\ pending_pages' = pending_pages \ Matching
      /\ Matching \subseteq pending_pages
      /\ pc' = "read"
      /\ UNCHANGED << entries, root_loaded, call, outcome, loaded, lost >>
    BY DEF IInv, CallInv, TakeBatch, Matching
<1>2. TypeOK' /\ PointersAgree' /\ EntriesParsed'
    BY <1>1 DEF IInv, TypeOK, PointersAgree, EntriesParsed
<1>3. PagesConserved'
    <2>1. Offsets(pending_pages') \cup Offsets(inflight') = Offsets(pending_pages)
        BY <1>1 DEF Offsets
    <2>2. Offsets(pending_pages') \cap Offsets(inflight') = {}
        BY <1>1, KeptPointers DEF Offsets, IInv
    <2>3. Offsets(inflight) = {}
        BY <1>1 DEF Offsets
    <2>4. QED
        BY <1>1, <2>1, <2>2, <2>3 DEF IInv, PagesConserved
<1>4. CallInv'
    BY <1>1 DEF IInv, CallInv, TakeBatch, Matching
<1>5. NothingWantedLeft'
    BY <1>1 DEF NothingWantedLeft, Answered
<1>6. QED
    BY <1>2, <1>3, <1>4, <1>5 DEF IInv

(* What a call takes is what it is about, load_pending_pages apart. *)
LEMMA SelectedIsWanted ==
    ASSUME NEW c \in Call, NEW key, c.op # "load_pending_pages"
    PROVE  Selected(c, key) <=> Wanted(c, key)
BY DEF Call, Selected, Wanted

LEMMA ReturnIInv == ASSUME IInv, Return PROVE IInv'
<1>1. PagesConserved' /\ EntriesParsed' /\ PointersAgree'
    BY CacheUnchanged DEF Return
<1>2. TypeOK' /\ CallInv'
    BY DEF IInv, TypeOK, CallInv, Return, Finish
<1>3. NothingWantedLeft'
    <2>1. ASSUME NEW q \in pending_pages
          PROVE  ~Wanted(call, q.key)
        <3>1. ~Selected(call, q.key)
            BY DEF Return, Matching
        <3>2. CASE call.op = "load_pending_pages"
            BY <3>2 DEF Wanted
        <3>3. CASE call.op # "load_pending_pages"
            BY <3>1, <3>3, SelectedIsWanted DEF IInv, TypeOK
        <3>4. QED
            BY <3>2, <3>3
    <2>2. UNCHANGED << call, pending_pages >>
        BY DEF Return
    <2>3. QED
        BY <2>1, <2>2 DEF NothingWantedLeft
<1>4. QED
    BY <1>1, <1>2, <1>3 DEF IInv

(* The pages of a batch are not parsed yet. *)
LEMMA InflightNew ==
    ASSUME IInv
    PROVE  /\ Offsets(inflight) \in SUBSET Page
           /\ Offsets(inflight) \cap loaded = {}
BY DEF IInv, TypeOK, PagesConserved, Offsets, PendingPage

LEMMA BatchReadIInv == ASSUME IInv, BatchRead PROVE IInv'
<1> DEFINE batch == Offsets(inflight)
<1>1. batch \in SUBSET Page /\ batch \cap loaded = {}
    BY InflightNew
<1>2. /\ entries' \subseteq HierarchyEntry
      /\ pending_pages' \subseteq PendingPage
      /\ loaded' \subseteq Page
      /\ EntriesParsed'
      /\ Offsets(pending_pages') = Offsets(pending_pages) \cup TargetsOf(batch)
    <2> HIDE DEF batch
    <2>1. Parse(batch)
        BY DEF BatchRead, batch
    <2>2. QED
        BY <1>1, <2>1, ParseFacts DEF IInv
<1>3. TypeOK'
    BY <1>2 DEF IInv, TypeOK, BatchRead, Finish
<1>4. PagesConserved'
    <2>1. /\ TargetsOf(batch) \subseteq Page \ {RootPage}
          /\ TargetsOf(batch) \cap TargetsOf(loaded) = {}
        BY <1>1, NewTargets DEF IInv
    <2>2. /\ loaded' = loaded \cup batch
          /\ TargetsOf(loaded') = TargetsOf(loaded) \cup TargetsOf(batch)
        BY DEF BatchRead, Parse, TargetsOf
    <2>3. /\ inflight' = {} /\ Offsets(inflight') = {}
          /\ lost' = lost /\ root_loaded' = root_loaded
        BY DEF BatchRead, Offsets
    <2>4. RootPage \notin batch
        BY DEF IInv, PagesConserved
    <2> HIDE DEF batch
    <2>5. loaded' \ {RootPage} = (loaded \ {RootPage}) \cup batch
        BY <2>2, <2>4
    <2>6. /\ Offsets(pending_pages) \cup batch \cup lost \cup (loaded \ {RootPage})
               = TargetsOf(loaded)
          /\ root_loaded <=> RootPage \in loaded
          /\ RootPage \notin Offsets(pending_pages) \cup batch \cup lost
          /\ Offsets(pending_pages) \cap (batch \cup loaded \cup lost) = {}
          /\ batch \cap (loaded \cup lost) = {}
          /\ loaded \cap lost = {}
        BY DEF IInv, PagesConserved, batch
    <2>7. Offsets(pending_pages') \cap (loaded' \cup lost') = {}
        BY <1>2, <2>1, <2>2, <2>3, <2>6
    <2>8. QED
        BY <1>2, <2>1, <2>2, <2>3, <2>4, <2>5, <2>6, <2>7 DEF PagesConserved
<1>5. PointersAgree'
    BY <1>1, ParseOrigins DEF IInv, BatchRead
<1>6. CallInv'
    BY DEF IInv, CallInv, BatchRead, Finish
<1>7. NothingWantedLeft'
    <2>1. Answered' => call'.op = "load_pending_pages"
        BY DEF BatchRead, Answered, Finish
    <2>2. QED
        BY <2>1 DEF NothingWantedLeft, Wanted
<1>8. QED
    BY <1>2, <1>3, <1>4, <1>5, <1>6, <1>7 DEF IInv

LEMMA AbandonIInv ==
    ASSUME IInv, NEW result \in {"err", "cancelled"}, Abandon(result)
    PROVE  IInv'
<1>1. /\ inflight' = {}
      /\ lost' = lost \cup Offsets(inflight)
      /\ pc' = "idle" /\ outcome' = result
      /\ UNCHANGED << entries, pending_pages, root_loaded, call, loaded >>
    BY DEF Abandon, Finish
<1>2. TypeOK'
    BY <1>1, InflightNew DEF IInv, TypeOK
<1>3. PagesConserved'
    <2>1. Offsets(inflight') = {}
        BY <1>1 DEF Offsets
    <2>2. QED
        BY <1>1, <2>1 DEF IInv, PagesConserved
<1>4. EntriesParsed' /\ PointersAgree' /\ CallInv' /\ NothingWantedLeft'
    BY <1>1 DEF IInv, EntriesParsed, PointersAgree, CallInv, NothingWantedLeft, Answered
<1>5. QED
    BY <1>2, <1>3, <1>4 DEF IInv

LEMMA StutterIInv == ASSUME IInv, UNCHANGED vars PROVE IInv'
BY DEF vars, IInv, TypeOK, PagesConserved, EntriesParsed, PointersAgree, CallInv,
       NothingWantedLeft, Answered, Selected, Wanted

LEMMA StepIInv == IInv /\ [Next]_vars => IInv'
<1> SUFFICES ASSUME IInv, [Next]_vars PROVE IInv'
    OBVIOUS
<1>1. CASE Calls
    BY <1>1, CallsIInv
<1>2. CASE RootRead
    BY <1>2, RootReadIInv
<1>3. CASE TakeBatch
    BY <1>3, TakeBatchIInv
<1>4. CASE Return
    BY <1>4, ReturnIInv
<1>5. CASE BatchRead
    BY <1>5, BatchReadIInv
<1>6. CASE ReadFails \/ Cancel
    BY <1>6, AbandonIInv DEF ReadFails, Cancel
<1>7. CASE UNCHANGED vars
    BY <1>7, StutterIInv
<1>8. QED
    BY <1>1, <1>2, <1>3, <1>4, <1>5, <1>6, <1>7 DEF Next, Progress

(* The invariant everything below follows from (hierarchy.rs:57-273).      *)
THEOREM InductiveInvariant == Spec => []IInv
BY InitIInv, StepIInv, PTL DEF Spec

(* Every variable keeps its type; a pending page's size is a u64 even when *)
(* its entry was corrupt (hierarchy.rs:41-49, 250-266).                    *)
THEOREM TypeCorrect == Spec => []TypeOK
<1>1. IInv => TypeOK
    BY DEF IInv
<1>2. QED
    BY <1>1, InductiveInvariant, PTL

(* No page of the file is lost track of or read twice (hierarchy.rs:84-194). *)
THEOREM PagesAreConserved == Spec => []PagesConserved
<1>1. IInv => PagesConserved
    BY DEF IInv
<1>2. QED
    BY <1>1, InductiveInvariant, PTL

-----------------------------------------------------------------------------
(* What a step may never do.                                               *)

(* Only a read that succeeds changes what is parsed. *)
LEMMA ParsingSteps ==
    ASSUME IInv, [Next]_vars
    PROVE  \/ UNCHANGED << entries, loaded >>
           \/ RootRead
           \/ BatchRead
BY DEF Next, Calls, Progress, LoadRoot, LoadPendingPages, LoadAll,
       LoadPagesForBounds, LoadPagesForBoundsToLevel, Start, TakeBatch, Return,
       ReadFails, Cancel, Abandon, vars

LEMMA EntriesGrow ==
    ASSUME IInv, [Next]_vars
    PROVE  entries \subseteq entries'
<1>1. CASE UNCHANGED << entries, loaded >>
    BY <1>1
<1>2. CASE RootRead
    <2>1. {RootPage} \in SUBSET Page /\ {RootPage} \cap loaded = {}
        BY <1>2, FileAssumption DEF IInv, CallInv, PagesConserved, RootRead
    <2>2. QED
        BY <1>2, <2>1, ParseFacts DEF RootRead, IInv
<1>3. CASE BatchRead
    BY <1>3, InflightNew, ParseFacts DEF BatchRead, IInv
<1>4. QED
    BY <1>1, <1>2, <1>3, ParsingSteps

(* A node in the cache is never changed or removed: callers may keep       *)
(* copies of entries (chunk.rs:268-285, hierarchy.rs:258-266).             *)
THEOREM EntriesAreStable == Spec => EntriesStable
<1>1. IInv /\ [Next]_vars => [entries \subseteq entries']_vars
    BY EntriesGrow
<1>2. QED
    BY <1>1, InductiveInvariant, PTL DEF Spec, EntriesStable

(* A call reads no page outside the subtrees it is about, at any depth     *)
(* (hierarchy.rs:121-122, 135, 158-159, 172).                              *)
THEOREM OnlyWantedPagesRead == Spec => OnlyWantedPages
<1> DEFINE Fine == \A p \in loaded' \ loaded :
                     \/ p = RootPage
                     \/ call.op = "load_pending_pages"
                     \/ Wanted(call, PageKey(p))
<1>1. IInv /\ [Next]_vars => [Fine]_vars
    <2> SUFFICES ASSUME IInv, [Next]_vars PROVE Fine
        OBVIOUS
    <2>1. CASE UNCHANGED << entries, loaded >>
        BY <2>1
    <2>2. CASE RootRead
        BY <2>2 DEF RootRead, Parse
    <2>3. CASE BatchRead
        <3> SUFFICES ASSUME NEW p \in Offsets(inflight),
                            call.op # "load_pending_pages"
                     PROVE  Wanted(call, PageKey(p))
            BY <2>3 DEF BatchRead, Parse
        <3>1. PICK q \in inflight : p = q.offset
            BY DEF Offsets
        <3>2. Selected(call, q.key)
            BY <2>3 DEF IInv, CallInv, BatchRead
        <3>3. q.key = PageKey(p)
            BY <3>1, KeptPointers DEF IInv, PageKey
        <3>4. QED
            BY <3>2, <3>3, SelectedIsWanted DEF IInv, TypeOK
    <2>4. QED
        BY <2>1, <2>2, <2>3, ParsingSteps
<1>2. QED
    BY <1>1, InductiveInvariant, PTL DEF Spec, OnlyWantedPages

-----------------------------------------------------------------------------
(* Completeness of a query.                                                *)

(* A call that is not about a cell is not about any cell nested in it. *)
LEMMA WantedUpwards ==
    ASSUME NEW c \in Call, NEW a \in VoxelKey, NEW k \in VoxelKey,
           Nested(a, k), Wanted(c, k)
    PROVE  Wanted(c, a)
<1>1. CASE c.op = "load_all"
    BY <1>1 DEF Wanted
<1>2. CASE c.op = "load_pages_for_bounds"
    <2>1. c.box \in Aabb
        BY <1>2, FileAssumption DEF Call
    <2>2. intersects(bounds(k), c.box)
        BY <1>2 DEF Wanted
    <2>3. intersects(bounds(a), c.box)
        BY <2>1, <2>2, PruningSound
    <2>4. QED
        BY <1>2, <2>3 DEF Wanted
<1>3. CASE c.op = "load_pages_for_bounds_to_level"
    <2>1. c.box \in Aabb /\ c.max_level \in Int
        BY <1>3, FileAssumption DEF Call
    <2>2. k.level <= c.max_level /\ intersects(bounds(k), c.box)
        BY <1>3 DEF Wanted
    <2>3. intersects(bounds(a), c.box)
        BY <2>1, <2>2, PruningSound
    <2>4. a.level <= c.max_level
        BY <2>1, <2>2, OctreeAssumption DEF Nested, VoxelKey, Level
    <2>5. QED
        BY <1>3, <2>3, <2>4 DEF Wanted
<1>4. CASE c.op \in {"load_root", "load_pending_pages"}
    BY <1>4 DEF Wanted
<1>5. QED
    BY <1>1, <1>2, <1>3, <1>4 DEF Call

LEMMA ReachableFacts ==
    ASSUME NEW S \in SUBSET Page
    PROVE  /\ ReachableFrom(S) \subseteq Page
           /\ S \subseteq ReachableFrom(S)
           /\ Closed(ReachableFrom(S))
<1>1. ReachableFrom(S) \subseteq Page /\ S \subseteq ReachableFrom(S)
    BY DEF ReachableFrom
<1>2. ASSUME NEW p \in ReachableFrom(S), NEW t \in Targets(p)
      PROVE  t \in ReachableFrom(S)
    <2>1. p \in Page /\ t \in Page
        BY <1>1, TargetsFacts
    <2>2. ASSUME NEW T \in SUBSET Page, S \subseteq T, Closed(T)
          PROVE  t \in T
        <3>1. p \in T
            BY <2>2 DEF ReachableFrom
        <3>2. QED
            BY <2>2, <3>1 DEF Closed, TargetsOf
    <2>3. QED
        BY <2>1, <2>2 DEF ReachableFrom
<1>3. QED
    BY <1>1, <1>2 DEF Closed, TargetsOf

LEMMA NothingBeyondNothing == ReachableFrom({}) = {}
<1>1. {} \in SUBSET Page /\ Closed({})
    BY DEF Closed, TargetsOf
<1>2. QED
    BY <1>1 DEF ReachableFrom

(* A page is parsed only when the pages on the way to it from the root     *)
(* have been.                                                              *)
ParsedFromRoot == loaded \subseteq ReachableFrom({RootPage})

LEMMA InitFromRoot == Init => ParsedFromRoot
BY DEF Init, ParsedFromRoot

LEMMA StepFromRoot ==
    ASSUME IInv, ParsedFromRoot, [Next]_vars
    PROVE  ParsedFromRoot'
<1> DEFINE R == ReachableFrom({RootPage})
<1>1. RootPage \in R /\ Closed(R)
    BY FileAssumption, ReachableFacts
<1>2. loaded \subseteq R
    BY DEF ParsedFromRoot
<1>3. SUFFICES loaded' \subseteq R
    BY DEF ParsedFromRoot
<1> HIDE DEF R
<1>4. CASE UNCHANGED << entries, loaded >>
    BY <1>2, <1>4
<1>5. CASE RootRead
    BY <1>1, <1>2, <1>5 DEF RootRead, Parse
<1>6. CASE BatchRead
    <2>1. loaded' = loaded \cup Offsets(inflight)
        BY <1>6 DEF BatchRead, Parse
    <2>2. Offsets(inflight) \subseteq TargetsOf(loaded)
        BY DEF IInv, PagesConserved
    <2>3. TargetsOf(loaded) \subseteq R
        BY <1>1, <1>2 DEF Closed, TargetsOf
    <2>4. QED
        BY <1>2, <2>1, <2>2, <2>3
<1>7. QED
    BY <1>4, <1>5, <1>6, ParsingSteps

(* No pointer leads from a page that is not parsed to one that is. *)
LEMMA UnparsedIsClosed ==
    ASSUME IInv
    PROVE  Closed(Page \ loaded)
<1> SUFFICES ASSUME NEW x \in Page \ loaded, NEW t \in Targets(x), t \in loaded
             PROVE  FALSE
    BY TargetsFacts DEF Closed, TargetsOf
<1>1. loaded \subseteq Page
    BY DEF IInv, TypeOK
<1>2. t # RootPage
    BY TargetsFacts
<1>3. PICK y \in loaded : t \in Targets(y)
    BY <1>2 DEF IInv, PagesConserved, TargetsOf
<1>4. QED
    BY <1>1, <1>3, TargetsFacts

(* The pages parsed are those reached from the root before a page that is  *)
(* not: those to a page not parsed are closed under pointers, and so are   *)
(* those parsed together with those beyond the others.                     *)
LEMMA EntriesAreOfPagesReached ==
    ASSUME IInv, ParsedFromRoot
    PROVE  EntriesExact
<1> DEFINE unread == Offsets(pending_pages) \cup Offsets(inflight) \cup lost
           R      == ReachableFrom({RootPage})
           read   == IF root_loaded THEN R \ ReachableFrom(unread) ELSE {}
           wire   == UNION { Wire[p] : p \in read }
<1>1. /\ loaded \subseteq Page
      /\ unread \subseteq Page
      /\ TargetsOf(loaded) \subseteq loaded \cup unread
      /\ unread \cap loaded = {}
      /\ root_loaded <=> RootPage \in loaded
    BY DEF IInv, PagesConserved, TypeOK, Offsets, PendingPage
<1>2. Closed(Page \ loaded)
    BY UnparsedIsClosed
<1>3. RootPage \in Page /\ loaded \subseteq R
    BY FileAssumption DEF ParsedFromRoot
<1> HIDE DEF unread, R
<1>4. read = loaded
    <2>1. CASE root_loaded
        <3>1. ReachableFrom(unread) \subseteq Page \ loaded
            BY <1>1, <1>2 DEF ReachableFrom
        <3>2. R \subseteq loaded \cup ReachableFrom(unread)
            <4> DEFINE T == loaded \cup ReachableFrom(unread)
            <4>1. /\ ReachableFrom(unread) \subseteq Page
                  /\ unread \subseteq ReachableFrom(unread)
                  /\ Closed(ReachableFrom(unread))
                BY <1>1, ReachableFacts
            <4>2. T \in SUBSET Page /\ Closed(T)
                BY <1>1, <4>1 DEF Closed, TargetsOf
            <4>3. {RootPage} \subseteq T
                BY <1>1, <2>1
            <4>4. QED
                BY <4>2, <4>3 DEF ReachableFrom, R
        <3>3. QED
            BY <1>3, <2>1, <3>1, <3>2
    <2>2. CASE ~root_loaded
        <3>1. {RootPage} \subseteq Page \ loaded
            BY <1>1, <1>3, <2>2
        <3>2. R \subseteq Page \ loaded
            BY <1>2, <3>1 DEF ReachableFrom, R
        <3>3. QED
            BY <1>3, <2>2, <3>2
    <2>3. QED
        BY <2>1, <2>2
<1> HIDE DEF read
<1>5. ASSUME NEW h \in entries
      PROVE  \E w \in wire : w.byte_size >= 0 /\ w.point_count >= 0 /\ Describes(h, w)
    <2>1. PICK p \in loaded : \E e \in Nodes(p) : h = EntryOf(e)
        BY DEF IInv, EntriesParsed, EntriesIn
    <2>2. PICK e \in Nodes(p) : h = EntryOf(e)
        BY <2>1
    <2>3. e \in wire /\ e.byte_size >= 0 /\ e.point_count >= 0
        BY <1>4, <2>2 DEF Nodes, IsNode
    <2>4. Describes(h, e)
        BY <2>2 DEF EntryOf, Describes
    <2>5. QED
        BY <2>3, <2>4
<1>6. ASSUME NEW w \in wire, w.byte_size >= 0, w.point_count >= 0
      PROVE  \E h \in entries : Describes(h, w)
    <2>1. PICK p \in loaded : w \in Nodes(p)
        BY <1>4, <1>6 DEF Nodes, IsNode
    <2>2. EntryOf(w) \in entries
        BY <2>1 DEF IInv, EntriesParsed, EntriesIn
    <2>3. Describes(EntryOf(w), w)
        BY DEF EntryOf, Describes
    <2>4. QED
        BY <2>2, <2>3
<1>7. QED
    BY <1>5, <1>6 DEF EntriesExact, read, unread, R

(* On every file and after any calls, the cache is what the pages say that *)
(* are reached from the root without passing a page pending, in flight or  *)
(* lost: nothing of a batch that failed, every entry of the others but the *)
(* corrupt ones, each with the numbers it has in the file                  *)
(* (hierarchy.rs:84-97, 147-152, 235-272).                                 *)
THEOREM EntriesAreExact == Spec => []EntriesExact
<1>1. Spec => []ParsedFromRoot
    BY InitFromRoot, StepFromRoot, InductiveInvariant, PTL DEF Spec
<1>2. QED
    BY <1>1, EntriesAreOfPagesReached, InductiveInvariant, PTL

(* The set of pages that are parsed, beyond a lost page, or none of the    *)
(* call's business is closed under following pointers, so that it holds    *)
(* every page of the file.                                                 *)
LEMMA CompleteWhenAnswered == IInv => LoadedOrForgotten
<1> SUFFICES ASSUME IInv, Answered,
                    NEW p \in ReachableFrom({RootPage}) \ ReachableFrom(lost),
                    NEW e \in Nodes(p), Wanted(call, e.key)
             PROVE  HasNode(e)
    BY DEF LoadedOrForgotten
<1> DEFINE Beyond   == ReachableFrom(lost)
           Unwanted == { x \in Page : ~Wanted(call, Anchor[x]) }
           T        == loaded \cup Beyond \cup Unwanted
<1>1. /\ loaded \subseteq Page
      /\ lost \subseteq Page
      /\ call \in Call
      /\ pc = "idle"
      /\ root_loaded
    BY DEF IInv, TypeOK, Answered
<1>2. Beyond \subseteq Page /\ lost \subseteq Beyond /\ Closed(Beyond)
    BY <1>1, ReachableFacts
<1>3. RootPage \in T
    BY <1>1 DEF IInv, PagesConserved
<1>4. ASSUME NEW x \in T, NEW t \in Targets(x)
      PROVE  t \in T
    <2>1. x \in Page /\ t \in Page
        BY <1>1, <1>2, TargetsFacts
    <2>2. CASE x \in loaded
        <3>1. t \in Offsets(pending_pages) \cup Offsets(inflight) \cup lost \cup loaded
            BY <2>2 DEF IInv, PagesConserved, TargetsOf
        <3>2. Offsets(inflight) = {}
            BY <1>1 DEF IInv, CallInv, Offsets
        <3>3. CASE t \in Offsets(pending_pages)
            <4>1. PICK q \in pending_pages : t = q.offset
                BY <3>3 DEF Offsets
            <4>2. ~Wanted(call, q.key)
                BY DEF IInv, NothingWantedLeft
            <4>3. q.key = Anchor[t]
                BY <4>1, KeptPointers DEF IInv
            <4>4. QED
                BY <2>1, <4>2, <4>3
        <3>4. QED
            BY <1>2, <3>1, <3>2, <3>3
    <2>3. CASE x \in Beyond
        BY <1>2, <2>3 DEF Closed, TargetsOf
    <2>4. CASE x \in Unwanted
        <3>1. PICK d \in Pointers(x) : t = d.offset
            BY DEF Targets
        <3>2. Nested(Anchor[x], Anchor[t])
            BY <2>1, <3>1, PointerFacts
        <3>3. Anchor[x] \in VoxelKey /\ Anchor[t] \in VoxelKey
            BY <2>1, FileAssumption
        <3>4. ~Wanted(call, Anchor[t])
            BY <1>1, <2>4, <3>2, <3>3, WantedUpwards
        <3>5. QED
            BY <2>1, <3>4
    <2>5. QED
        BY <2>2, <2>3, <2>4
<1>5. T \in SUBSET Page /\ Closed(T)
    BY <1>1, <1>2, <1>4 DEF Closed, TargetsOf
<1>6. p \in T /\ p \in Page
    BY <1>3, <1>5 DEF ReachableFrom
<1>7. p \notin Unwanted
    <2>1. Nested(Anchor[p], e.key) /\ e.key \in VoxelKey
        BY <1>6, FileAssumption DEF Nodes, PageKey, WireEntry
    <2>2. Anchor[p] \in VoxelKey
        BY <1>6, FileAssumption
    <2>3. QED
        BY <1>1, <2>1, <2>2, WantedUpwards
<1>8. p \in loaded
    BY <1>6, <1>7
<1>9. QED
    BY <1>8 DEF IInv, EntriesParsed, EntriesIn, HasNode

(* A query that returns Ok has every node it is about in the cache, except *)
(* those beyond a page an earlier failed call dropped                      *)
(* (hierarchy.rs:105-194).                                                 *)
THEOREM QueriesAreComplete == Spec => []LoadedOrForgotten
BY CompleteWhenAnswered, InductiveInvariant, PTL

(* Without a lost page, the doc of load_pages_for_bounds is right: the full *)
(* relevant subtree is loaded by the time it returns; so nothing but a      *)
(* batch that failed or was dropped makes it wrong (hierarchy.rs:119-144).  *)
THEOREM SubtreeIsFullUnlessLost == Spec => [](lost = {} => FullSubtreeLoaded)
<1>1. ASSUME LoadedOrForgotten, lost = {}
      PROVE  FullSubtreeLoaded
    <2> SUFFICES ASSUME Answered, call.op = "load_pages_for_bounds",
                        NEW p \in ReachableFrom({RootPage}), NEW e \in Nodes(p),
                        intersects(bounds(e.key), call.box)
                 PROVE  HasNode(e)
        BY DEF FullSubtreeLoaded
    <2>1. p \notin ReachableFrom(lost)
        BY <1>1, NothingBeyondNothing
    <2>2. Wanted(call, e.key)
        BY DEF Wanted
    <2>3. QED
        BY <1>1, <2>1, <2>2 DEF LoadedOrForgotten
<1>2. QED
    BY <1>1, QueriesAreComplete, PTL

-----------------------------------------------------------------------------
(* The refinement.                                                         *)

LEMMA InitRefines == Init => Abstract!Init
BY DEF Init, Abstract!Init, Offsets

LEMMA StepRefines == IInv /\ [Next]_vars => [Abstract!Next]_(Abstract!vars)
<1> SUFFICES ASSUME IInv, [Next]_vars
             PROVE  Abstract!Next \/ UNCHANGED Abstract!vars
    OBVIOUS
<1> DEFINE frontier == (IF root_loaded THEN {} ELSE {RootPage})
                         \cup Offsets(pending_pages) \cup Offsets(inflight)
           AllTargets == [p \in Page |-> Targets(p)]
<1>1. CASE Calls
    BY <1>1 DEF Calls, LoadRoot, LoadPendingPages, LoadAll, LoadPagesForBounds,
       LoadPagesForBoundsToLevel, Start, Abstract!vars
<1>2. CASE RootRead
    <2>1. RootPage \in frontier
        BY <1>2 DEF RootRead, IInv, CallInv
    <2>2. /\ {RootPage} \in SUBSET Page
          /\ {RootPage} \cap loaded = {}
          /\ inflight' = inflight /\ lost' = lost
          /\ inflight = {}
          /\ root_loaded' = TRUE
          /\ loaded' = loaded \cup {RootPage}
        BY <1>2, FileAssumption DEF RootRead, Parse, IInv, CallInv, PagesConserved
    <2>3. Offsets(pending_pages') = Offsets(pending_pages) \cup TargetsOf({RootPage})
        BY <1>2, <2>2, ParseFacts DEF RootRead, IInv
    <2>4. RootPage \notin Offsets(pending_pages) \cup Offsets(inflight)
        BY DEF IInv, PagesConserved
    <2>5. frontier' = (frontier \ {RootPage}) \cup TargetsOf({RootPage})
        BY <2>2, <2>3, <2>4
    <2>6. TargetsOf({RootPage}) = UNION { AllTargets[p] : p \in {RootPage} }
        BY FileAssumption DEF TargetsOf
    <2>7. Abstract!Resolve({RootPage})
        BY <2>2, <2>5, <2>6 DEF Abstract!Resolve
    <2>8. QED
        BY <2>1, <2>7 DEF Abstract!Next
<1>3. CASE TakeBatch
    <2>1. /\ inflight = {}
          /\ inflight' = Matching
          /\ pending_pages' = pending_pages \ Matching
          /\ Matching \subseteq pending_pages
          /\ UNCHANGED << root_loaded, loaded, lost >>
        BY <1>3 DEF IInv, CallInv, TakeBatch, Matching
    <2>2. Offsets(pending_pages') \cup Offsets(inflight')
            = Offsets(pending_pages) \cup Offsets(inflight)
        BY <2>1 DEF Offsets
    <2>3. QED
        BY <2>1, <2>2 DEF Abstract!vars
<1>4. CASE Return
    BY <1>4 DEF Return, Abstract!vars
<1>5. CASE BatchRead
    <2> DEFINE batch == Offsets(inflight)
    <2>1. batch \in SUBSET frontier /\ batch \in SUBSET Page /\ batch \cap loaded = {}
        BY InflightNew
    <2>2. /\ inflight' = {} /\ Offsets(inflight') = {}
          /\ lost' = lost /\ root_loaded' = root_loaded
          /\ loaded' = loaded \cup batch
        BY <1>5 DEF BatchRead, Parse, Offsets
    <2>3. Offsets(pending_pages') = Offsets(pending_pages) \cup TargetsOf(batch)
        BY <1>5, <2>1, ParseFacts DEF BatchRead, IInv
    <2>4. /\ RootPage \notin batch
          /\ Offsets(pending_pages) \cap batch = {}
        BY DEF IInv, PagesConserved
    <2>5. TargetsOf(batch) = UNION { AllTargets[p] : p \in batch }
        BY <2>1 DEF TargetsOf
    <2>6. Abstract!Resolve(batch)
        <3>1. frontier' = (frontier \ batch) \cup TargetsOf(batch)
            BY <2>2, <2>3, <2>4
        <3>2. QED
            BY <2>2, <2>5, <3>1 DEF Abstract!Resolve
    <2>7. QED
        BY <2>1, <2>6 DEF Abstract!Next
<1>6. CASE ReadFails \/ Cancel
    <2> DEFINE batch == Offsets(inflight)
    <2>1. /\ inflight' = {} /\ Offsets(inflight') = {}
          /\ lost' = lost \cup batch
          /\ UNCHANGED << pending_pages, root_loaded, loaded >>
        BY <1>6 DEF ReadFails, Cancel, Abandon, Offsets
    <2>2. /\ RootPage \notin batch
          /\ Offsets(pending_pages) \cap batch = {}
        BY DEF IInv, PagesConserved
    <2>3. Abstract!Forget(batch)
        BY <2>1, <2>2 DEF Abstract!Forget
    <2>4. QED
        BY <2>3 DEF Abstract!Next
<1>7. CASE UNCHANGED vars
    BY <1>7 DEF vars, Abstract!vars
<1>8. QED
    BY <1>1, <1>2, <1>3, <1>4, <1>5, <1>6, <1>7 DEF Next, Progress

(* The cache implements PageLoader: a page heard of is resolved once or    *)
(* forgotten for good, and resolving reveals exactly what the page names   *)
(* (hierarchy.rs:68-194).                                                  *)
THEOREM RefinesPageLoader == Spec => ImplementsPageLoader
BY InitRefines, StepRefines, InductiveInvariant, PTL
   DEF Spec, ImplementsPageLoader, Abstract!Spec
=============================================================================
