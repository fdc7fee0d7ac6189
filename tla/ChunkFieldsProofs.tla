-------------------------- MODULE ChunkFieldsProofs --------------------------
(***************************************************************************)
(* What a chunk answers, for every format, mask, file and question.        *)
(*                                                                         *)
(* The invariant is that the chunk has the values of the file in every     *)
(* layer its mask names (Faithful); both properties are then carried from  *)
(* one question to the next, since two of the questions are about the      *)
(* answer to the one before.                                               *)
(***************************************************************************)
EXTENDS ChunkFields, TLAPS

FileType ==
    /\ format \subseteq Fields
    /\ \A i \in DOMAIN file : file[i] \in [Layer -> Int]

Faithful ==
    /\ chunk.fields \subseteq Fields
    /\ DOMAIN chunk.cloud = DOMAIN file
    /\ \A i \in DOMAIN file :
          /\ chunk.cloud[i] \in [Layer -> Int]
          /\ \A l \in Base \cup chunk.fields : chunk.cloud[i][l] = file[i][l]

IInv ==
    /\ FileType
    /\ Faithful
    /\ AnswersAreTheFile
    /\ RefusedOnlyIfUndecoded

-----------------------------------------------------------------------------
LEMMA SomeIsNotNone ==
    ASSUME NEW v
    PROVE  Some(v) # None /\ Some(v)[1] = v
BY DEF Some, None

(* What is decoded is what was written. *)
LEMMA DecodedFaithful ==
    ASSUME FileType, NEW selection
    PROVE  /\ DOMAIN Decoded(file, selection) = DOMAIN file
           /\ \A i \in DOMAIN file :
                 /\ Decoded(file, selection)[i] \in [Layer -> Int]
                 /\ \A l \in Layer \cap selection :
                       Decoded(file, selection)[i][l] = file[i][l]
BY DEF FileType, Decoded

(* A chunk with every field has the points of the file. *)
LEMMA WholePoints ==
    ASSUME FileType, Faithful, chunk.fields = ALL, NEW i \in DOMAIN file
    PROVE  chunk.cloud[i] = file[i]
<1>1. /\ chunk.cloud[i] \in [Layer -> Int] /\ file[i] \in [Layer -> Int]
      /\ \A l \in Layer : chunk.cloud[i][l] = file[i][l]
    BY DEF FileType, Faithful, ALL, Layer
<1>2. QED
    BY <1>1

LEMMA NoAnswerHolds ==
    ASSUME question = NoQuestion, answer = None
    PROVE  AnswersAreTheFile /\ RefusedOnlyIfUndecoded
BY DEF AnswersAreTheFile, RefusedOnlyIfUndecoded

-----------------------------------------------------------------------------
(* Each accessor.                                                          *)

LEMMA ColumnRight ==
    ASSUME FileType, Faithful, NEW f \in Fields
    PROVE  /\ column(f) = None \/ column(f) = Some(Written(f))
           /\ column(f) = None => f \notin chunk.fields \/ f \notin format
<1>1. f \in chunk.fields => Values(chunk.cloud, f) = Written(f)
    BY DEF Faithful, Values, Written
<1>2. QED
    BY <1>1, SomeIsNotNone DEF column

LEMMA PositionsRight ==
    ASSUME FileType, Faithful
    PROVE  /\ \/ positions = None
              \/ positions = Some([i \in DOMAIN file |->
                      << file[i]["X"], file[i]["Y"], file[i]["Z"] >>])
           /\ positions = None => "Z" \notin chunk.fields
<1>1. CASE "Z" \notin chunk.fields
    BY <1>1 DEF positions
<1>2. CASE "Z" \in chunk.fields
    <2>1. /\ DOMAIN chunk.cloud = DOMAIN file
          /\ \A i \in DOMAIN file :
                /\ chunk.cloud[i]["X"] = file[i]["X"]
                /\ chunk.cloud[i]["Y"] = file[i]["Y"]
                /\ chunk.cloud[i]["Z"] = file[i]["Z"]
        BY <1>2 DEF Faithful, Base
    <2>2. [i \in DOMAIN chunk.cloud |->
              << chunk.cloud[i]["X"], chunk.cloud[i]["Y"], chunk.cloud[i]["Z"] >>]
            = [i \in DOMAIN file |-> << file[i]["X"], file[i]["Y"], file[i]["Z"] >>]
        BY <2>1
    <2>3. QED
        BY <1>2, <2>2, SomeIsNotNone DEF positions
<1>3. QED
    BY <1>1, <1>2

LEMMA InsideIsInBox ==
    ASSUME FileType, NEW i \in DOMAIN file, NEW b \in Boxes
    PROVE  Inside(<< file[i]["X"], file[i]["Y"], file[i]["Z"] >>, b) <=> InBox(i, b)
<1>1. /\ file[i]["X"] \in Int /\ file[i]["Y"] \in Int /\ file[i]["Z"] \in Int
    BY DEF FileType, Layer, Base, Fields
<1>2. \A a \in 1 .. 3 : b[1][a] \in Int /\ b[2][a] \in Int
    BY ChunkAssumption
<1>3. 1 .. 3 = {1, 2, 3}
    OBVIOUS
<1> DEFINE p == << file[i]["X"], file[i]["Y"], file[i]["Z"] >>
<1>4. p[1] = file[i]["X"] /\ p[2] = file[i]["Y"] /\ p[3] = file[i]["Z"]
    OBVIOUS
<1> HIDE DEF p
<1>5. Inside(p, b) <=> InBox(i, b)
    BY <1>1, <1>2, <1>3, <1>4 DEF Inside, InBox
<1>6. QED
    BY <1>5 DEF p

LEMMA InWindowIsAtTime ==
    ASSUME FileType, NEW i \in DOMAIN file, NEW w \in Windows, "GPS_TIME" \in format
    PROVE  InWindow(file[i]["GPS_TIME"], w) <=> AtTime(i, w)
<1>1. file[i]["GPS_TIME"] \in Int /\ w[1] \in Int /\ w[2] \in Int
    BY ChunkAssumption DEF FileType, Layer, Fields
<1>2. QED
    BY <1>1 DEF InWindow, AtTime

LEMMA IndicesInBoundsRight ==
    ASSUME FileType, Faithful, NEW b \in Boxes
    PROVE  /\ \/ indices_in_bounds(b) = None
              \/ indices_in_bounds(b) = Some({ i \in DOMAIN file : InBox(i, b) })
           /\ indices_in_bounds(b) = None => "Z" \notin chunk.fields
<1>1. CASE positions = None
    BY <1>1, PositionsRight DEF indices_in_bounds
<1>2. CASE positions # None
    <2>1. positions[1] = [i \in DOMAIN file |-> << file[i]["X"], file[i]["Y"], file[i]["Z"] >>]
        BY <1>2, PositionsRight, SomeIsNotNone
    <2>2. \A i \in DOMAIN file : Inside(positions[1][i], b) <=> InBox(i, b)
        BY <2>1, InsideIsInBox
    <2>3. { i \in DOMAIN chunk.cloud : Inside(positions[1][i], b) }
            = { i \in DOMAIN file : InBox(i, b) }
        BY <2>2 DEF Faithful
    <2>4. QED
        BY <1>2, <2>3, SomeIsNotNone DEF indices_in_bounds
<1>3. QED
    BY <1>1, <1>2

LEMMA IndicesInTimeRangeRight ==
    ASSUME FileType, Faithful, NEW w \in Windows
    PROVE  /\ \/ indices_in_time_range(w) = None
              \/ indices_in_time_range(w) = Some({ i \in DOMAIN file : AtTime(i, w) })
           /\ indices_in_time_range(w) = None =>
                 "GPS_TIME" \notin chunk.fields \/ "GPS_TIME" \notin format
<1>1. "GPS_TIME" \in Fields
    BY DEF Fields
<1>2. CASE column("GPS_TIME") = None
    BY <1>1, <1>2, ColumnRight DEF indices_in_time_range
<1>3. CASE column("GPS_TIME") # None
    <2>1. /\ column("GPS_TIME")[1] = Written("GPS_TIME")
          /\ "GPS_TIME" \in format
        BY <1>1, <1>3, ColumnRight, SomeIsNotNone DEF column, Optional
    <2>2. \A i \in DOMAIN file : InWindow(column("GPS_TIME")[1][i], w) <=> AtTime(i, w)
        BY <2>1, InWindowIsAtTime DEF Written
    <2>3. { i \in DOMAIN chunk.cloud : InWindow(column("GPS_TIME")[1][i], w) }
            = { i \in DOMAIN file : AtTime(i, w) }
        BY <2>2 DEF Faithful
    <2>4. QED
        BY <1>3, <2>3, SomeIsNotNone DEF indices_in_time_range
<1>4. QED
    BY <1>2, <1>3

LEMMA PointsAtRight ==
    ASSUME FileType, Faithful, NEW S \in SUBSET DOMAIN file
    PROVE  /\ points_at(S) = None \/ points_at(S) = Some([i \in S |-> file[i]])
           /\ points_at(S) = None => ~(Fields \subseteq chunk.fields)
<1>1. CASE chunk.fields # ALL
    BY <1>1 DEF points_at, Faithful, ALL
<1>2. CASE chunk.fields = ALL
    <2>1. [i \in S |-> chunk.cloud[i]] = [i \in S |-> file[i]]
        BY <1>2, WholePoints
    <2>2. QED
        BY <1>2, <2>1, SomeIsNotNone DEF points_at
<1>3. QED
    BY <1>1, <1>2

-----------------------------------------------------------------------------
(* Each step.                                                              *)

LEMMA DecompressHolds ==
    ASSUME IInv, NEW mask \in SUBSET Fields, NEW selection,
           Base \cup mask \subseteq selection,
           chunk' = [fields |-> mask, cloud |-> Decoded(file, selection)],
           question' = NoQuestion, answer' = None,
           UNCHANGED << format, file >>
    PROVE  IInv'
<1>1. FileType'
    BY DEF IInv, FileType
<1>2. Faithful'
    <2>1. \A l \in Base \cup mask : l \in Layer \cap selection
        BY DEF Layer
    <2>2. QED
        BY <2>1, DecodedFaithful DEF IInv, Faithful
<1>3. AnswersAreTheFile' /\ RefusedOnlyIfUndecoded'
    BY DEF AnswersAreTheFile, RefusedOnlyIfUndecoded, NoQuestion
<1>4. QED
    BY <1>1, <1>2, <1>3 DEF IInv

(* A question leaves the file and the chunk alone. *)
LEMMA AskKeeps ==
    ASSUME IInv, NEW q, NEW a, Ask(q, a)
    PROVE  /\ FileType' /\ Faithful'
           /\ question' = q /\ answer' = a
           /\ file' = file /\ chunk' = chunk /\ format' = format
           /\ \A p : Chosen(p)' = Chosen(p)
           /\ \A l : Written(l)' = Written(l)
BY DEF Ask, IInv, FileType, Faithful, Chosen, Selects, InBox, AtTime, Written

LEMMA ColumnHolds ==
    ASSUME IInv, AskColumn
    PROVE  IInv'
<1>1. PICK f \in Accessible : Ask([op |-> "column", field |-> f], column(f))
    BY DEF AskColumn
<1> DEFINE q == [op |-> "column", field |-> f]
<1>2. f \in Fields
    BY DEF Accessible, Fields
<1>3. /\ column(f) = None \/ column(f) = Some(Written(f))
      /\ column(f) = None => f \notin chunk.fields \/ f \notin format
    BY <1>2, ColumnRight DEF IInv
<1>4. /\ FileType' /\ Faithful'
      /\ question' = q /\ answer' = column(f)
      /\ chunk' = chunk /\ format' = format
      /\ Written(f)' = Written(f)
    BY <1>1, AskKeeps
<1>5. AnswersAreTheFile'
    BY <1>3, <1>4, SomeIsNotNone DEF AnswersAreTheFile
<1>6. RefusedOnlyIfUndecoded'
    BY <1>3, <1>4 DEF RefusedOnlyIfUndecoded, Needs
<1>7. QED
    BY <1>4, <1>5, <1>6 DEF IInv

LEMMA PositionsHold ==
    ASSUME IInv, AskPositions
    PROVE  IInv'
<1> DEFINE q == [op |-> "positions"]
           P == [i \in DOMAIN file |-> << file[i]["X"], file[i]["Y"], file[i]["Z"] >>]
<1>1. /\ positions = None \/ positions = Some(P)
      /\ positions = None => "Z" \notin chunk.fields
    BY PositionsRight DEF IInv
<1>2. /\ FileType' /\ Faithful'
      /\ question' = q /\ answer' = positions
      /\ chunk' = chunk /\ file' = file
    BY AskKeeps DEF AskPositions
<1>3. AnswersAreTheFile'
    BY <1>1, <1>2, SomeIsNotNone DEF AnswersAreTheFile
<1>4. RefusedOnlyIfUndecoded'
    BY <1>1, <1>2 DEF RefusedOnlyIfUndecoded, Needs
<1>5. QED
    BY <1>2, <1>3, <1>4 DEF IInv

LEMMA IndicesInBoundsHold ==
    ASSUME IInv, AskIndicesInBounds
    PROVE  IInv'
<1>1. PICK b \in Boxes :
          Ask([op |-> "indices_in_bounds", box |-> b], indices_in_bounds(b))
    BY DEF AskIndicesInBounds
<1> DEFINE q == [op |-> "indices_in_bounds", box |-> b]
<1>2. Chosen(q) = { i \in DOMAIN file : InBox(i, b) }
    BY DEF Chosen, Selects
<1>3. /\ indices_in_bounds(b) = None \/ indices_in_bounds(b) = Some(Chosen(q))
      /\ indices_in_bounds(b) = None => "Z" \notin chunk.fields
    BY <1>2, IndicesInBoundsRight DEF IInv
<1>4. /\ FileType' /\ Faithful'
      /\ question' = q /\ answer' = indices_in_bounds(b)
      /\ chunk' = chunk /\ Chosen(q)' = Chosen(q)
    BY <1>1, AskKeeps
<1>5. AnswersAreTheFile'
    BY <1>3, <1>4, SomeIsNotNone DEF AnswersAreTheFile
<1>6. RefusedOnlyIfUndecoded'
    BY <1>3, <1>4 DEF RefusedOnlyIfUndecoded, Needs
<1>7. QED
    BY <1>4, <1>5, <1>6 DEF IInv

LEMMA IndicesInTimeRangeHold ==
    ASSUME IInv, AskIndicesInTimeRange
    PROVE  IInv'
<1>1. PICK w \in Windows :
          Ask([op |-> "indices_in_time_range", window |-> w], indices_in_time_range(w))
    BY DEF AskIndicesInTimeRange
<1> DEFINE q == [op |-> "indices_in_time_range", window |-> w]
<1>2. Chosen(q) = { i \in DOMAIN file : AtTime(i, w) }
    BY DEF Chosen, Selects
<1>3. /\ indices_in_time_range(w) = None \/ indices_in_time_range(w) = Some(Chosen(q))
      /\ indices_in_time_range(w) = None =>
            "GPS_TIME" \notin chunk.fields \/ "GPS_TIME" \notin format
    BY <1>2, IndicesInTimeRangeRight DEF IInv
<1>4. /\ FileType' /\ Faithful'
      /\ question' = q /\ answer' = indices_in_time_range(w)
      /\ chunk' = chunk /\ format' = format /\ Chosen(q)' = Chosen(q)
    BY <1>1, AskKeeps
<1>5. AnswersAreTheFile'
    BY <1>3, <1>4, SomeIsNotNone DEF AnswersAreTheFile
<1>6. RefusedOnlyIfUndecoded'
    BY <1>3, <1>4 DEF RefusedOnlyIfUndecoded, Needs
<1>7. QED
    BY <1>4, <1>5, <1>6 DEF IInv

LEMMA PointsHold ==
    ASSUME IInv, AskPoints
    PROVE  IInv'
<1> DEFINE q == [op |-> "to_points"]
<1>1. Chosen(q) = DOMAIN file /\ DOMAIN chunk.cloud = DOMAIN file
    BY DEF Chosen, Selects, IInv, Faithful
<1>2. /\ to_points = None \/ to_points = Some([i \in Chosen(q) |-> file[i]])
      /\ to_points = None => ~(Fields \subseteq chunk.fields)
    BY <1>1, PointsAtRight DEF IInv, to_points
<1>3. /\ FileType' /\ Faithful'
      /\ question' = q /\ answer' = to_points
      /\ chunk' = chunk /\ file' = file /\ Chosen(q)' = Chosen(q)
    BY AskKeeps DEF AskPoints
<1>4. AnswersAreTheFile'
    BY <1>2, <1>3, SomeIsNotNone DEF AnswersAreTheFile
<1>5. RefusedOnlyIfUndecoded'
    BY <1>2, <1>3 DEF RefusedOnlyIfUndecoded, Needs
<1>6. QED
    BY <1>3, <1>4, <1>5 DEF IInv

LEMMA PointsAtHold ==
    ASSUME IInv, AskPointsAt
    PROVE  IInv'
<1>1. PICK old : old = question
    OBVIOUS
<1>2. PICK S : S = Chosen(old)
    OBVIOUS
<1> DEFINE q == [op |-> "points_at", by |-> old]
<1>3. answer[1] = S
    BY <1>1, <1>2 DEF AskPointsAt, IInv, AnswersAreTheFile
<1>4. S \subseteq DOMAIN file
    BY <1>2 DEF Chosen
<1>5. /\ points_at(S) = None \/ points_at(S) = Some([i \in S |-> file[i]])
      /\ points_at(S) = None => ~(Fields \subseteq chunk.fields)
    BY <1>4, PointsAtRight DEF IInv
<1>6. Ask(q, points_at(S))
    BY <1>1, <1>3 DEF AskPointsAt
<1>7. /\ FileType' /\ Faithful'
      /\ question' = q /\ answer' = points_at(S)
      /\ chunk' = chunk /\ file' = file
      /\ Chosen(old)' = Chosen(old)
    BY <1>6, AskKeeps
<1>8. AnswersAreTheFile'
    <2>1. question'.op = "points_at" /\ question'.by = old
        BY <1>7
    <2>2. Chosen(question.by)' = S
        BY <1>2, <1>7, <2>1 DEF Chosen, Selects, InBox, AtTime
    <2>3. QED
        BY <1>5, <1>7, <2>1, <2>2, SomeIsNotNone DEF AnswersAreTheFile
<1>9. RefusedOnlyIfUndecoded'
    BY <1>5, <1>7 DEF RefusedOnlyIfUndecoded, Needs
<1>10. QED
    BY <1>7, <1>8, <1>9 DEF IInv

LEMMA PointsByTimeHold ==
    ASSUME IInv, AskPointsByTime
    PROVE  IInv'
<1>1. PICK w \in Windows :
          /\ question.op = "to_points" /\ answer # None
          /\ Ask([op |-> "filter_points_by_time", window |-> w],
                 Some(filter_points_by_time(answer[1], w)))
    BY DEF AskPointsByTime
<1> DEFINE q == [op |-> "filter_points_by_time", window |-> w]
           all == [i \in DOMAIN file |-> file[i]]
<1>2. answer[1] = all
    <2>1. Chosen(question) = DOMAIN file
        BY <1>1 DEF Chosen, Selects
    <2>2. QED
        BY <1>1, <2>1 DEF IInv, AnswersAreTheFile
<1>3. Chosen(q) = { i \in DOMAIN file : AtTime(i, w) }
    BY DEF Chosen, Selects
<1>4. filter_points_by_time(all, w) = [i \in Chosen(q) |-> file[i]]
    <2>1. \A i \in DOMAIN file :
              ("GPS_TIME" \in format /\ InWindow(all[i]["GPS_TIME"], w)) <=> AtTime(i, w)
        BY InWindowIsAtTime DEF IInv, AtTime
    <2>2. { j \in DOMAIN all : "GPS_TIME" \in format /\ InWindow(all[j]["GPS_TIME"], w) }
            = Chosen(q)
        BY <1>3, <2>1
    <2>3. \A i \in Chosen(q) : all[i] = file[i]
        BY <1>3
    <2> HIDE DEF all, q
    <2>4. QED
        BY <2>2, <2>3 DEF filter_points_by_time
<1>5. /\ FileType' /\ Faithful'
      /\ question' = q /\ answer' = Some([i \in Chosen(q) |-> file[i]])
      /\ file' = file /\ Chosen(q)' = Chosen(q)
    BY <1>1, <1>2, <1>4, AskKeeps
<1>6. AnswersAreTheFile'
    BY <1>5, SomeIsNotNone DEF AnswersAreTheFile
<1>7. RefusedOnlyIfUndecoded'
    BY <1>5, SomeIsNotNone DEF RefusedOnlyIfUndecoded
<1>8. QED
    BY <1>5, <1>6, <1>7 DEF IInv

LEMMA InvariantHolds == Spec => []IInv
<1>1. Init => IInv
    <2> SUFFICES ASSUME Init
                 PROVE  IInv
        OBVIOUS
    <2>1. FileType
        BY ChunkAssumption DEF Init, FileType
    <2>2. Faithful
        <3>1. \A l \in Base \cup {} : l \in Layer \cap Base
            BY DEF Layer
        <3>2. QED
            BY <2>1, <3>1, DecodedFaithful DEF Init, Faithful
    <2>3. QED
        BY <2>1, <2>2, NoAnswerHolds DEF Init, IInv
<1>2. IInv /\ [Next]_vars => IInv'
    <2> SUFFICES ASSUME IInv, [Next]_vars
                 PROVE  IInv'
        OBVIOUS
    <2>1. ASSUME NEW mask \in Masks, Decompress(mask)
          PROVE  IInv'
        BY <2>1, ChunkAssumption, DecompressHolds DEF Decompress, to_laz_selection
    <2>2. ASSUME NEW mask \in Masks, New(mask, Layer)
          PROVE  IInv'
        BY <2>2, ChunkAssumption, DecompressHolds DEF New
    <2>3. CASE UNCHANGED vars
        BY <2>3 DEF vars, IInv, FileType, Faithful, AnswersAreTheFile,
                    RefusedOnlyIfUndecoded, Chosen, Selects, InBox, AtTime, Written
    <2>4. QED
        BY <2>1, <2>2, <2>3, ColumnHolds, PositionsHold, IndicesInBoundsHold,
           IndicesInTimeRangeHold, PointsHold, PointsAtHold, PointsByTimeHold DEF Next
<1>3. QED
    BY <1>1, <1>2, PTL DEF Spec

(* No accessor answers with the zeros of a layer that was not decoded: an  *)
(* answer is what was written in the file, in every format and under every *)
(* mask (chunk.rs:91-251, copc-temporal/src/lib.rs:138-166).               *)
THEOREM NeverTheZeros == Spec => []AnswersAreTheFile
BY InvariantHolds, PTL DEF IInv

(* A chunk refuses only what its mask or the format lacks                  *)
(* (chunk.rs:92, 116, 144, fields.rs:42-44).                               *)
THEOREM NoNeedlessRefusal == Spec => []RefusedOnlyIfUndecoded
BY InvariantHolds, PTL DEF IInv
=============================================================================
