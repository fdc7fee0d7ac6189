------------------------------- MODULE Octree -------------------------------
(***************************************************************************)
(* The geometry the readers prune with: octree keys and axis-aligned boxes *)
(* (copc-streaming/src/types.rs).                                          *)
(*                                                                         *)
(* Coordinates are f64 in the code.  Here they are integers in a unit so   *)
(* small that the edge of a cell of the deepest level is a whole number of *)
(* units; halving is then exact, as it is for the f64 of a box whose edge  *)
(* is a power of two.  A key's x, y and z are the components of its pos.   *)
(***************************************************************************)
EXTENDS Integers

CONSTANTS
    MaxLevel,   \* deepest level of the tree
    Edge,       \* Edge[l] is the edge of a cell of level l
    RootMin     \* least corner of the root cell

Level == 0 .. MaxLevel
Axis  == 1 .. 3
Point == [Axis -> Int]

(***************************************************************************)
(* The bound 31 is the code's: bounds() divides by 2_u32.pow(level), which *)
(* overflows from level 32 on.                                             *)
(***************************************************************************)
ASSUME OctreeAssumption ==
    /\ MaxLevel \in 0 .. 31
    /\ Edge \in [Level -> Nat \ {0}]
    /\ \A l \in Level \ {MaxLevel} : Edge[l] = 2 * Edge[l + 1]
    /\ RootMin \in Point

VoxelKey == [level : Level, pos : Point]
Aabb     == [min : Point, max : Point]

ROOT == [level |-> 0, pos |-> [a \in Axis |-> 0]]

NoKey == [level |-> -1]   \* None

(* x >> 1 on a signed integer rounds towards minus infinity, as \div does. *)
parent(k) ==
    IF k.level = 0
    THEN NoKey
    ELSE [level |-> k.level - 1, pos |-> [a \in Axis |-> k.pos[a] \div 2]]

(* An octant is a bit per axis: the three low bits of dir. *)
Octant == [Axis -> {0, 1}]

child(k, dir) ==
    [level |-> k.level + 1, pos |-> [a \in Axis |-> 2 * k.pos[a] + dir[a]]]

children(k) == { child(k, dir) : dir \in Octant }

bounds(k) ==
    [min |-> [a \in Axis |-> RootMin[a] + k.pos[a] * Edge[k.level]],
     max |-> [a \in Axis |-> RootMin[a] + (k.pos[a] + 1) * Edge[k.level]]]

(* Closed boxes: two that only share a face intersect. *)
intersects(b, c) ==
    \A a \in Axis : b.min[a] <= c.max[a] /\ b.max[a] >= c.min[a]

(***************************************************************************)
(* Nested(a, k): k is a, or a cell of the subtree of a.                    *)
(***************************************************************************)
Nested(a, k) ==
    /\ a.level <= k.level
    /\ \A x \in Axis : /\ bounds(a).min[x] <= bounds(k).min[x]
                       /\ bounds(k).max[x] <= bounds(a).max[x]
=============================================================================
