----------------------------- MODULE ChunkFields -----------------------------
(***************************************************************************)
(* The columns of a decoded chunk, and the masks that guard them           *)
(* (copc-streaming/src/chunk.rs and fields.rs, and the helpers of          *)
(* copc-temporal/src/lib.rs).                                              *)
(*                                                                         *)
(* The points of a chunk are compressed in layers.  The base layer (x, y   *)
(* and the return numbers) is always decoded, each other layer only if the *)
(* mask asks for it; the buffer is zero where nothing was decoded.  The    *)
(* caller decodes the chunk of one node as often as it likes, with any     *)
(* mask, and asks the chunk it has for columns, indices and points.        *)
(*                                                                         *)
(* Abstractions.  A point is a function of its layers, with one integer    *)
(* for each.  An iterator is the function it runs through, an Option is a  *)
(* sequence of length 0 or 1, and so is a Result, whose error here is      *)
(* PartialDecode.  Bits of a mask that name no field are left out.         *)
(***************************************************************************)
EXTENDS Integers, Sequences

CONSTANTS
    Formats,   \* the point formats, each as the set of the fields it has
    Masks,     \* the masks chunks are decoded with
    MaxPoints, \* bound on the points of a chunk
    Files,     \* the points a chunk may have
    Boxes,     \* pairs of the least and the greatest x, y, z
    Windows    \* pairs of times

Fields ==
    { "Z", "INTENSITY", "CLASSIFICATION", "FLAGS", "SCAN_ANGLE", "USER_DATA",
      "POINT_SOURCE_ID", "GPS_TIME", "RGB", "NIR", "WAVEPACKET", "EXTRA_BYTES" }

ALL == Fields

Base  == { "X", "Y" }
Layer == Base \cup Fields

Upto(n) == 0 .. n - 1

(* A field that the format lacks reads as zero. *)
ASSUME ChunkAssumption ==
    /\ Formats \subseteq SUBSET Fields
    /\ Masks \subseteq SUBSET Fields
    /\ MaxPoints \in Nat
    /\ \A f \in Files : \E n \in 0 .. MaxPoints : f \in [Upto(n) -> [Layer -> Int]]
    /\ Boxes \subseteq [1 .. 2 -> [1 .. 3 -> Int]]
    /\ Windows \subseteq [1 .. 2 -> Int]

(* Mutant: the intensity layer selected for the flags. *)
to_crossed_selection(mask) ==
    Base \cup (mask \ {"FLAGS"}) \cup (IF "FLAGS" \in mask THEN {"INTENSITY"} ELSE {})

to_laz_selection(mask) == Base \cup mask

(* decompress_chunk, into a buffer of zeros. *)
Decoded(file, selection) ==
    [i \in DOMAIN file |->
        [l \in Layer |-> IF l \in selection THEN file[i][l] ELSE 0]]

-----------------------------------------------------------------------------
VARIABLES
    format,    \* the fields of the file's point format
    file,      \* the points of the node as they were written
    chunk,     \* the chunk the caller holds: its mask and its cloud
    question,  \* what the caller asked it last
    answer     \* what it got

vars == << format, file, chunk, question, answer >>

None    == << >>
Some(v) == << v >>

NoQuestion == [op |-> "none"]

Init ==
    /\ format \in Formats
    /\ file \in { f \in Files : \A i \in DOMAIN f : \A l \in Fields \ format : f[i][l] = 0 }
    /\ chunk = [fields |-> {}, cloud |-> Decoded(file, Base)]
    /\ question = NoQuestion
    /\ answer = None

(* fetch_chunk(s) and Chunk::decompress. *)
Decompress(mask) ==
    /\ chunk' = [fields |-> mask, cloud |-> Decoded(file, to_laz_selection(mask))]
    /\ question' = NoQuestion
    /\ answer' = None
    /\ UNCHANGED << format, file >>

(* Chunk::new: its caller answers for every field of the mask, and may     *)
(* have decoded more (Next: every layer).                                  *)
New(mask, selection) ==
    /\ Base \cup mask \subseteq selection
    /\ chunk' = [fields |-> mask, cloud |-> Decoded(file, selection)]
    /\ question' = NoQuestion
    /\ answer' = None
    /\ UNCHANGED << format, file >>

-----------------------------------------------------------------------------
(* The accessors.                                                          *)

(* Those that las answers with None itself if the format lacks the field. *)
Optional == { "GPS_TIME", "RGB", "NIR" }

Accessible == { "INTENSITY", "CLASSIFICATION", "SCAN_ANGLE", "USER_DATA",
                "POINT_SOURCE_ID", "GPS_TIME", "RGB", "NIR" }

Values(cloud, l) == [i \in DOMAIN cloud |-> cloud[i][l]]

(* Mutant: only the format is asked. *)
column_of_format(f) ==
    IF f \in Optional /\ f \notin format THEN None ELSE Some(Values(chunk.cloud, f))

column(f) ==
    IF f \notin chunk.fields \/ (f \in Optional /\ f \notin format)
    THEN None
    ELSE Some(Values(chunk.cloud, f))

(* Mutant: an accessor that asks for another flag. *)
positions_always == Some([i \in DOMAIN chunk.cloud |->
    << chunk.cloud[i]["X"], chunk.cloud[i]["Y"], chunk.cloud[i]["Z"] >>])

positions ==
    IF "Z" \notin chunk.fields
    THEN None
    ELSE Some([i \in DOMAIN chunk.cloud |->
            << chunk.cloud[i]["X"], chunk.cloud[i]["Y"], chunk.cloud[i]["Z"] >>])

Inside(p, b) == \A a \in 1 .. 3 : b[1][a] <= p[a] /\ p[a] <= b[2][a]

indices_in_bounds(b) ==
    IF positions = None
    THEN None
    ELSE Some({ i \in DOMAIN chunk.cloud : Inside(positions[1][i], b) })

InWindow(t, w) == w[1] <= t /\ t <= w[2]

indices_in_time_range(w) ==
    IF column("GPS_TIME") = None
    THEN None
    ELSE Some({ i \in DOMAIN chunk.cloud : InWindow(column("GPS_TIME")[1][i], w) })

(* Mutant: a mask with all columns is enough, flags or not. *)
points_at_columns(indices) ==
    IF ~(Accessible \cup {"Z"} \subseteq chunk.fields)
    THEN None
    ELSE Some([i \in indices |-> chunk.cloud[i]])

(* Mutant: fields that the format lacks are not expected in the mask. *)
points_at_of_format(indices) ==
    IF chunk.fields # format
    THEN None
    ELSE Some([i \in indices |-> chunk.cloud[i]])

points_at(indices) ==
    IF chunk.fields # ALL
    THEN None
    ELSE Some([i \in indices |-> chunk.cloud[i]])

(* to_points materializes every index. *)
to_points == points_at(DOMAIN chunk.cloud)

(* A point has a GPS time if its format does. *)
filter_points_by_time(points, w) ==
    [i \in { j \in DOMAIN points : "GPS_TIME" \in format /\ InWindow(points[j]["GPS_TIME"], w) }
        |-> points[i]]

-----------------------------------------------------------------------------
(* The questions: a column, the positions, the indices in a box or in a    *)
(* window, all points, the points of a box, all points and then those of a *)
(* window.                                                                 *)

Ask(q, a) ==
    /\ question' = q
    /\ answer' = a
    /\ UNCHANGED << format, file, chunk >>

AskColumn    == \E f \in Accessible : Ask([op |-> "column", field |-> f], column(f))
AskPositions == Ask([op |-> "positions"], positions)

AskIndicesInBounds ==
    \E b \in Boxes : Ask([op |-> "indices_in_bounds", box |-> b], indices_in_bounds(b))

AskIndicesInTimeRange ==
    \E w \in Windows :
        Ask([op |-> "indices_in_time_range", window |-> w], indices_in_time_range(w))

AskPoints == Ask([op |-> "to_points"], to_points)

(* points_at with the indices that were the last answer. *)
AskPointsAt ==
    /\ question.op \in {"indices_in_bounds", "indices_in_time_range"}
    /\ answer # None
    /\ Ask([op |-> "points_at", by |-> question], points_at(answer[1]))

AskPointsByTime ==
    \E w \in Windows :
        /\ question.op = "to_points"
        /\ answer # None
        /\ Ask([op |-> "filter_points_by_time", window |-> w],
               Some(filter_points_by_time(answer[1], w)))

Next ==
    \/ \E mask \in Masks : Decompress(mask)
    \/ \E mask \in Masks : New(mask, Layer)
    \/ AskColumn \/ AskPositions
    \/ AskIndicesInBounds \/ AskIndicesInTimeRange
    \/ AskPoints \/ AskPointsAt \/ AskPointsByTime

Spec == Init /\ [][Next]_vars
-----------------------------------------------------------------------------
Written(l) == [i \in DOMAIN file |-> file[i][l]]

InBox(i, b) ==
    /\ file[i]["X"] \in b[1][1] .. b[2][1]
    /\ file[i]["Y"] \in b[1][2] .. b[2][2]
    /\ file[i]["Z"] \in b[1][3] .. b[2][3]

AtTime(i, w) == "GPS_TIME" \in format /\ file[i]["GPS_TIME"] \in w[1] .. w[2]

Selects(q, i) ==
    CASE q.op = "indices_in_bounds"     -> InBox(i, q.box)
      [] q.op = "indices_in_time_range" -> AtTime(i, q.window)
      [] q.op = "filter_points_by_time" -> AtTime(i, q.window)
      [] q.op = "to_points"             -> TRUE

Chosen(q) == { i \in DOMAIN file : Selects(q, i) }

(* What a question is answered with, if it is: what was written in the     *)
(* file, never the zeros of a layer that was not decoded, whichever way    *)
(* points are chosen and whatever the mask (chunk.rs:91-251,               *)
(* fields.rs:100-139, copc-temporal/src/lib.rs:138-166).                   *)
AnswersAreTheFile ==
    answer # None =>
        CASE question.op = "column" -> answer[1] = Written(question.field)
          [] question.op = "positions" ->
                answer[1] = [i \in DOMAIN file |-> << file[i]["X"], file[i]["Y"], file[i]["Z"] >>]
          [] question.op \in {"indices_in_bounds", "indices_in_time_range"} ->
                answer[1] = Chosen(question)
          [] question.op \in {"to_points", "filter_points_by_time"} ->
                answer[1] = [i \in Chosen(question) |-> file[i]]
          [] question.op = "points_at" ->
                answer[1] = [i \in Chosen(question.by) |-> file[i]]

Needs(q) ==
    CASE q.op = "column" -> {q.field}
      [] q.op \in {"positions", "indices_in_bounds"} -> {"Z"}
      [] q.op = "indices_in_time_range" -> {"GPS_TIME"}
      [] OTHER -> Fields

(* A question is refused only if a field it needs is missing from the mask *)
(* or is a column that the format lacks: a chunk decoded with ALL can be   *)
(* materialized in every format, and a mask that has what a filter needs   *)
(* is enough for it (chunk.rs:92, 116, 144, fields.rs:42-44).              *)
RefusedOnlyIfUndecoded ==
    (question # NoQuestion /\ answer = None) =>
        \/ ~(Needs(question) \subseteq chunk.fields)
        \/ /\ question.op \in { "column", "indices_in_time_range" }
           /\ ~(Needs(question) \subseteq format)
=============================================================================
