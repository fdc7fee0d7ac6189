---------------------------- MODULE HeaderProofs ----------------------------
(***************************************************************************)
(* When a file is opened, and what it is told to lack, for every file and  *)
(* every size of the prefix.                                               *)
(*                                                                         *)
(* The invariant relates the cursor to the ends of the records: the cursor *)
(* is at the end of the last record parsed, every record parsed lies in    *)
(* the prefix and is usable, and the two places kept are those of the last *)
(* record of their kind so far.                                            *)
(***************************************************************************)
EXTENDS Header, WellFoundedInduction, TLAPS

-----------------------------------------------------------------------------
(* Where the records end.                                                  *)

LEMMA LeastElement ==
    ASSUME NEW T \in SUBSET Nat, T # {}
    PROVE  \E x \in T : \A y \in T : x <= y
<1>1. PICK x \in T : \A y \in T : ~(<< y, x >> \in OpToRel(<, Nat))
    BY NatLessThanWellFounded, WFMin, Zenon
<1>2. ASSUME NEW y \in T
      PROVE  x <= y
    <2>1. ~(y < x)
        BY <1>1, Zenon DEF OpToRel
    <2>2. x \in Nat /\ y \in Nat
        OBVIOUS
    <2>3. QED
        BY <2>1, <2>2
<1>3. QED
    BY <1>2

(* The ends of the first m records, as a function. *)
EndsTo(f, m, end) ==
    end = [n \in 0 .. m |->
              IF n = 0 THEN f.header_size ELSE end[n - 1] + VlrHeader + f.vlrs[n].length]

LEMMA EndsExist ==
    ASSUME NEW f, NEW m \in Nat
    PROVE  \E end : EndsTo(f, m, end)
<1> DEFINE T == { k \in Nat : ~ \E end : EndsTo(f, k, end) }
<1>1. SUFFICES ASSUME T # {}
               PROVE  FALSE
    OBVIOUS
<1>2. PICK x \in T : \A y \in T : x <= y
    BY <1>1, LeastElement
<1>3. x # 0
    <2>1. EndsTo(f, 0, [n \in 0 .. 0 |-> f.header_size])
        BY DEF EndsTo
    <2>2. 0 \notin T
        BY <2>1
    <2>3. QED
        BY <2>2
<1>4. x - 1 \in Nat /\ x - 1 \notin T
    BY <1>2, <1>3
<1>5. PICK g : EndsTo(f, x - 1, g)
    BY <1>4
<1> DEFINE Step(h, n) == h[n - 1] + VlrHeader + f.vlrs[n].length
           g2 == [n \in 0 .. x |-> IF n = x THEN Step(g, x) ELSE g[n]]
<1>6. ASSUME NEW n \in 0 .. x
      PROVE  g2[n] = IF n = 0 THEN f.header_size ELSE Step(g2, n)
    <2>1. CASE n = 0
        BY <1>3, <1>5, <2>1 DEF EndsTo
    <2>2. CASE n = x
        <3>1. g2[x - 1] = g[x - 1]
            BY <1>4
        <3>2. QED
            BY <1>3, <2>2, <3>1
    <2>3. CASE n # 0 /\ n # x
        <3>1. n \in 0 .. x - 1 /\ n - 1 \in 0 .. x /\ n - 1 # x
            BY <1>4, <2>3
        <3>2. g[n] = Step(g, n)
            BY <1>5, <2>3, <3>1 DEF EndsTo
        <3>3. QED
            BY <2>3, <3>1, <3>2
    <2>4. QED
        BY <2>1, <2>2, <2>3
<1>7. EndsTo(f, x, g2)
    <2>1. g2 = [n \in 0 .. x |-> g2[n]]
        OBVIOUS
    <2> HIDE DEF g2
    <2>2. QED
        BY <1>6, <2>1 DEF EndsTo
<1>8. QED
    BY <1>7

LEMMA EndOfRecords ==
    ASSUME NEW f \in Files
    PROVE  /\ EndOf(f)[0] = f.header_size
           /\ \A n \in 1 .. Len(f.vlrs) :
                 EndOf(f)[n] = EndOf(f)[n - 1] + VlrHeader + f.vlrs[n].length
<1>1. Len(f.vlrs) \in Nat
    BY FilesAssumption
<1>2. EndsTo(f, Len(f.vlrs), EndOf(f))
    BY <1>1, EndsExist DEF EndOf, EndsTo
<1>3. QED
    BY <1>1, <1>2 DEF EndsTo

LEMMA RecordType ==
    ASSUME NEW f \in Files, NEW n \in 1 .. Len(f.vlrs)
    PROVE  f.vlrs[n] \in Vlr
BY FilesAssumption

LEMMA EndsAreNaturals ==
    ASSUME NEW f \in Files, NEW m \in 0 .. Len(f.vlrs)
    PROVE  EndOf(f)[m] \in Nat
<1> DEFINE T == { k \in 0 .. Len(f.vlrs) : EndOf(f)[k] \notin Nat }
<1>1. SUFFICES ASSUME T # {}
               PROVE  FALSE
    OBVIOUS
<1>2. T \subseteq Nat
    OBVIOUS
<1>3. PICK x \in T : \A y \in T : x <= y
    BY <1>1, <1>2, LeastElement
<1>4. x # 0
    BY EndOfRecords, FilesAssumption
<1>5. x \in 1 .. Len(f.vlrs) /\ x - 1 \in 0 .. Len(f.vlrs) /\ x - 1 \notin T
    BY <1>2, <1>3, <1>4, FilesAssumption
<1>6. f.vlrs[x].length \in Nat
    BY <1>5, RecordType DEF Vlr
<1>7. EndOf(f)[x] = EndOf(f)[x - 1] + VlrHeader + f.vlrs[x].length
    BY <1>5, EndOfRecords
<1>8. QED
    BY <1>5, <1>6, <1>7, FilesAssumption

(* The prefix reaches as far as the file and PrefixSize do. *)
LEMMA PrefixReach ==
    ASSUME file \in Files, data = Min(PrefixLength, file.size), NEW k \in Nat
    PROVE  k <= data <=> k <= file.size /\ k <= PrefixSize
BY FilesAssumption DEF Min, PrefixLength

-----------------------------------------------------------------------------
(* The invariant.                                                          *)

(* The first n records lie in the prefix and are usable. *)
Good(n) ==
    \A i \in 1 .. n : EndOf(file)[i] <= data /\ Usable(i)

(* Where the last of the first n records of a kind is, 0 if there is none. *)
LastOf(kind, n, place) ==
    \/ place = 0 /\ \A i \in 1 .. n : file.vlrs[i].kind # kind
    \/ /\ place \in 1 .. n
       /\ file.vlrs[place].kind = kind
       /\ \A i \in 1 .. n : file.vlrs[i].kind = kind => i <= place

LasHeaderGood == file.las_ok /\ LasHeader <= data

Scanned ==
    /\ LasHeaderGood
    /\ position = EndOf(file)[parsed]
    /\ parsed \in 0 .. Len(file.vlrs)
    /\ Good(parsed)
    /\ LastOf("copc info", parsed, copc_info)
    /\ LastOf("laszip", parsed, laz_vlr)

NothingParsed == parsed = 0 /\ copc_info = 0 /\ laz_vlr = 0

IInv ==
    /\ file \in Files
    /\ pc \in {"size", "read", "header", "vlrs", "done"}
    /\ outcome = "none" <=> pc # "done"
    /\ pc \in {"size", "read", "header"} => NothingParsed
    /\ pc \in {"header", "vlrs"} \/ Judged => data = Min(PrefixLength, file.size)
    /\ pc = "vlrs" => Scanned
    /\ OpensWhatFits
    /\ VerdictOfTheVlrs

-----------------------------------------------------------------------------
(* What a parse that stops says.                                           *)

LEMMA FileFacts ==
    ASSUME file \in Files
    PROVE  /\ DOMAIN file.vlrs = 1 .. Len(file.vlrs)
           /\ Len(file.vlrs) \in Nat
           /\ \A i \in 1 .. Len(file.vlrs) : file.vlrs[i] \in Vlr
BY FilesAssumption

LEMMA ReachedIsInData ==
    ASSUME file \in Files, data = Min(PrefixLength, file.size),
           NEW i \in 1 .. Len(file.vlrs)
    PROVE  i \in Reached <=> EndOf(file)[i] <= data
<1>1. EndOf(file)[i] \in Nat
    BY FileFacts, EndsAreNaturals
<1>2. i \in DOMAIN file.vlrs
    BY FileFacts
<1>3. QED
    BY <1>1, <1>2, PrefixReach DEF Reached

(* The record that is parsed next. *)
LEMMA NextRecord ==
    ASSUME IInv, More
    PROVE  /\ parsed + 1 \in 1 .. Len(file.vlrs)
           /\ vlr \in Vlr
           /\ position \in Nat
           /\ EndOf(file)[parsed + 1] = position + VlrHeader + vlr.length
           /\ InData <=> EndOf(file)[parsed + 1] <= data
           /\ Accepted <=> Usable(parsed + 1)
<1>1. /\ file \in Files /\ Len(file.vlrs) \in Nat
      /\ parsed \in 0 .. Len(file.vlrs) /\ parsed < Len(file.vlrs)
      /\ position = EndOf(file)[parsed]
    BY FileFacts DEF IInv, Scanned, More
<1>2. parsed + 1 \in 1 .. Len(file.vlrs) /\ (parsed + 1) - 1 = parsed
    BY <1>1
<1>3. vlr \in Vlr
    BY <1>1, <1>2, RecordType DEF vlr
<1>4. EndOf(file)[parsed + 1] = position + VlrHeader + vlr.length
    BY <1>1, <1>2, EndOfRecords DEF vlr
<1>5. position \in Nat
    BY <1>1, EndsAreNaturals
<1>6. InData <=> EndOf(file)[parsed + 1] <= data
    BY <1>4 DEF InData
<1>7. Accepted <=> Usable(parsed + 1)
    BY <1>3 DEF Accepted, Usable, Vlr, vlr
<1>8. QED
    BY <1>2, <1>3, <1>4, <1>5, <1>6, <1>7

LEMMA LastOfNext ==
    ASSUME NEW n \in Nat, NEW kind, NEW place, NEW next, LastOf(kind, n, place),
           next = IF file.vlrs[n + 1].kind = kind THEN n + 1 ELSE place
    PROVE  LastOf(kind, n + 1, next)
<1>1. \A i \in 1 .. n + 1 : i \in 1 .. n \/ i = n + 1
    OBVIOUS
<1>2. CASE file.vlrs[n + 1].kind = kind
    BY <1>1, <1>2 DEF LastOf
<1>3. CASE file.vlrs[n + 1].kind # kind
    <2>1. next = place
        BY <1>3
    <2>2. CASE place = 0 /\ \A i \in 1 .. n : file.vlrs[i].kind # kind
        BY <1>1, <1>3, <2>1, <2>2 DEF LastOf
    <2>3. CASE /\ place \in 1 .. n
               /\ file.vlrs[place].kind = kind
               /\ \A i \in 1 .. n : file.vlrs[i].kind = kind => i <= place
        <3>1. place \in 1 .. n + 1
            BY <2>3
        <3>2. QED
            BY <1>1, <1>3, <2>1, <2>3, <3>1, Zenon DEF LastOf
    <2>4. QED
        BY <2>2, <2>3 DEF LastOf
<1>4. QED
    BY <1>2, <1>3

LEMMA NextScanned ==
    ASSUME IInv, VlrParsed
    PROVE  Scanned'
<1>1. /\ More /\ InData /\ Accepted
      /\ file' = file /\ data' = data /\ parsed' = parsed + 1
      /\ position' = position + VlrHeader + vlr.length
    BY DEF VlrParsed
<1>2. /\ parsed' \in 1 .. Len(file.vlrs) /\ parsed \in Nat
      /\ EndOf(file)[parsed'] = position'
      /\ EndOf(file)[parsed'] <= data /\ Usable(parsed')
      /\ Scanned
    <2>1. /\ parsed + 1 \in 1 .. Len(file.vlrs)
          /\ EndOf(file)[parsed + 1] = position + VlrHeader + vlr.length
          /\ EndOf(file)[parsed + 1] <= data /\ Usable(parsed + 1)
        BY <1>1, NextRecord
    <2>2. Scanned /\ file \in Files
        BY <1>1 DEF IInv, More
    <2>3. parsed \in Nat
        <3>1. parsed \in 0 .. Len(file.vlrs)
            BY <2>2 DEF Scanned
        <3>2. Len(file.vlrs) \in Nat
            BY <2>2, FileFacts
        <3>3. QED
            BY <3>1, <3>2
    <2>4. QED
        BY <1>1, <2>1, <2>2, <2>3, Zenon
<1>3. \A i \in 1 .. parsed' : i \in 1 .. parsed \/ i = parsed'
    BY <1>1, <1>2
<1>4. Good(parsed)'
    BY <1>1, <1>2, <1>3 DEF Good, Scanned, Usable
<1>5. LastOf("copc info", parsed, copc_info)'
    <2>1. copc_info' = IF vlr.kind = "copc info" THEN parsed' ELSE copc_info
        BY DEF VlrParsed
    <2>2. LastOf("copc info", parsed, copc_info)
        BY <1>2 DEF Scanned
    <2>3. vlr = file.vlrs[parsed + 1]
        BY DEF vlr
    <2>4. LastOf("copc info", parsed + 1, copc_info')
        BY <1>1, <1>2, <2>1, <2>2, <2>3, LastOfNext
    <2>5. QED
        BY <1>1, <2>4 DEF LastOf
<1>6. LastOf("laszip", parsed, laz_vlr)'
    <2>1. laz_vlr' = IF vlr.kind = "laszip" THEN parsed' ELSE laz_vlr
        BY DEF VlrParsed
    <2>2. LastOf("laszip", parsed, laz_vlr)
        BY <1>2 DEF Scanned
    <2>3. vlr = file.vlrs[parsed + 1]
        BY DEF vlr
    <2>4. LastOf("laszip", parsed + 1, laz_vlr')
        BY <1>1, <1>2, <2>1, <2>2, <2>3, LastOfNext
    <2>5. QED
        BY <1>1, <2>4 DEF LastOf
<1>7. /\ LasHeaderGood'
      /\ position' = EndOf(file')[parsed']
      /\ parsed' \in 0 .. Len(file'.vlrs)
    <2>1. LasHeaderGood /\ Len(file.vlrs) \in Nat
        BY <1>2, FileFacts DEF Scanned, IInv
    <2>2. QED
        BY <1>1, <1>2, <2>1 DEF LasHeaderGood
<1>8. QED
    BY <1>4, <1>5, <1>6, <1>7, Zenon DEF Scanned

(* The verdict when all records were parsed. *)
LEMMA VerdictRight ==
    ASSUME IInv, VlrsParsed
    PROVE  OpensWhatFits' /\ VerdictOfTheVlrs'
<1>1. /\ file \in Files /\ data = Min(PrefixLength, file.size)
      /\ Scanned /\ parsed = Len(file.vlrs)
      /\ outcome' = Verdict
      /\ file' = file /\ copc_info' = copc_info /\ laz_vlr' = laz_vlr
    BY DEF IInv, VlrsParsed, Finish
<1>2. /\ file.las_ok /\ LasHeader <= file.size /\ LasHeader <= PrefixSize
    BY <1>1, PrefixReach, FilesAssumption DEF Scanned, LasHeaderGood
<1>3. /\ Reached = DOMAIN file.vlrs
      /\ \A i \in DOMAIN file.vlrs : Usable(i)
    <2>1. \A i \in 1 .. Len(file.vlrs) : i \in Reached /\ Usable(i)
        BY <1>1, ReachedIsInData DEF Scanned, Good
    <2>2. QED
        BY <1>1, <2>1, FileFacts DEF Reached
<1>4. ASSUME NEW kind, NEW place, LastOf(kind, parsed, place)
      PROVE  /\ place = 0 <=> Vlrs(kind) = {}
             /\ place # 0 => Last(kind, place)
    BY <1>1, <1>4, FileFacts DEF LastOf, Vlrs, Last
<1>5. /\ copc_info = 0 <=> Vlrs("copc info") = {}
      /\ laz_vlr = 0 <=> Vlrs("laszip") = {}
      /\ copc_info # 0 => Last("copc info", copc_info)
      /\ laz_vlr # 0 => Last("laszip", laz_vlr)
    BY <1>1, <1>4 DEF Scanned
<1>6. /\ Reached' = Reached
      /\ \A i : Usable(i)' <=> Usable(i)
      /\ \A kind : Vlrs(kind)' = Vlrs(kind)
      /\ Last("copc info", copc_info)' <=> Last("copc info", copc_info)
      /\ Last("laszip", laz_vlr)' <=> Last("laszip", laz_vlr)
    BY <1>1 DEF Reached, Usable, Vlrs, Last
<1>7. /\ Verdict = "opened" <=> file.builds /\ copc_info # 0 /\ laz_vlr # 0
      /\ Verdict = "CopcInfoNotFound" => copc_info = 0
      /\ Verdict = "LazVlrNotFound" => copc_info # 0 /\ laz_vlr = 0
    BY <1>1, FilesAssumption DEF Verdict
<1>8. OpensWhatFits'
    BY <1>1, <1>2, <1>3, <1>5, <1>6, <1>7 DEF OpensWhatFits
<1>9. VerdictOfTheVlrs'
    BY <1>1, <1>3, <1>5, <1>6, <1>7 DEF VerdictOfTheVlrs
<1>10. QED
    BY <1>8, <1>9

(* A parse that stops early does not open the file. *)
LEMMA StopsRight ==
    ASSUME IInv, HeaderBad \/ VlrCut \/ VlrBad
    PROVE  OpensWhatFits' /\ VerdictOfTheVlrs'
<1>1. /\ file \in Files /\ data = Min(PrefixLength, file.size) /\ file' = file
    BY DEF IInv, HeaderBad, VlrCut, VlrBad, More
<1>2. /\ Reached' = Reached
      /\ \A i : Usable(i)' <=> Usable(i)
      /\ \A kind : Vlrs(kind)' = Vlrs(kind)
    BY <1>1 DEF Reached, Usable, Vlrs
<1>3. CASE HeaderBad
    <2>1. outcome' = "Las"
        BY <1>3 DEF HeaderBad, Finish
    <2>2. ~(file.las_ok /\ LasHeader <= file.size /\ LasHeader <= PrefixSize)
        BY <1>1, <1>3, PrefixReach, FilesAssumption DEF HeaderBad
    <2>3. QED
        BY <1>1, <2>1, <2>2 DEF OpensWhatFits, VerdictOfTheVlrs
<1>4. CASE VlrCut
    <2>1. outcome' = "Las"
        BY <1>4 DEF VlrCut, Finish
    <2>2. parsed + 1 \in DOMAIN file.vlrs /\ parsed + 1 \notin Reached
        BY <1>1, <1>4, NextRecord, ReachedIsInData, FileFacts DEF VlrCut
    <2>3. QED
        BY <1>1, <1>2, <2>1, <2>2 DEF OpensWhatFits, VerdictOfTheVlrs
<1>5. CASE VlrBad
    <2>1. /\ parsed + 1 \in DOMAIN file.vlrs /\ parsed + 1 \in Reached
          /\ ~Usable(parsed + 1)
        BY <1>1, <1>5, NextRecord, ReachedIsInData, FileFacts DEF VlrBad
    <2>2. outcome' = IF vlr.kind = "copc info" THEN "CopcInfoNotFound" ELSE "Laz"
        BY <1>5 DEF VlrBad, Finish
    <2>3. outcome' = "CopcInfoNotFound" => parsed + 1 \in Vlrs("copc info")
        BY <2>1, <2>2 DEF Vlrs, vlr
    <2>4. QED
        BY <1>1, <1>2, <2>1, <2>2, <2>3 DEF OpensWhatFits, VerdictOfTheVlrs
<1>6. QED
    BY <1>3, <1>4, <1>5

LEMMA InvariantHolds == Spec => []IInv
<1>1. Init => IInv
    BY DEF Init, IInv, NothingParsed, OpensWhatFits, VerdictOfTheVlrs, Judged
<1>2. IInv /\ [Next]_vars => IInv'
    <2> SUFFICES ASSUME IInv, [Next]_vars
                 PROVE  IInv'
        OBVIOUS
    <2> USE DEF IInv
    <2>1. CASE SizeTold
        BY <2>1 DEF SizeTold, NothingParsed, OpensWhatFits, VerdictOfTheVlrs, Judged
    <2>2. CASE PrefixRead
        BY <2>2 DEF PrefixRead, NothingParsed, OpensWhatFits, VerdictOfTheVlrs, Judged,
                    PrefixLength
    <2>3. CASE ReadFails
        BY <2>3 DEF ReadFails, Finish, OpensWhatFits, VerdictOfTheVlrs, Judged
    <2>4. CASE HeaderParsed
        <3>1. Scanned'
            <4>1. EndOf(file)[0] = file.header_size
                BY EndOfRecords
            <4>2. Len(file.vlrs) \in Nat
                BY FileFacts
            <4>3. /\ file' = file /\ data' = data
                  /\ parsed' = 0 /\ copc_info' = 0 /\ laz_vlr' = 0
                  /\ position' = file.header_size
                  /\ LasHeaderGood'
                BY <2>4 DEF HeaderParsed, NothingParsed, LasHeaderGood
            <4>4. /\ Good(parsed)'
                  /\ LastOf("copc info", parsed, copc_info)'
                  /\ LastOf("laszip", parsed, laz_vlr)'
                BY <4>3 DEF Good, LastOf
            <4>5. position' = EndOf(file')[parsed'] /\ parsed' \in 0 .. Len(file'.vlrs)
                BY <4>1, <4>2, <4>3
            <4>6. QED
                BY <4>3, <4>4, <4>5, Zenon DEF Scanned
        <3>2. QED
            BY <2>4, <3>1
               DEF HeaderParsed, OpensWhatFits, VerdictOfTheVlrs, Judged, PrefixLength
    <2>5. CASE HeaderBad \/ VlrCut \/ VlrBad
        <3>1. /\ pc' = "done" /\ outcome' \notin {"none", "source failed"}
              /\ file' = file /\ data' = data /\ data = Min(PrefixLength, file.size)
            BY <2>5 DEF HeaderBad, VlrCut, VlrBad, Finish, More
        <3>2. QED
            BY <2>5, <3>1, StopsRight DEF PrefixLength
    <2>6. CASE VlrParsed
        <3>1. Scanned'
            BY <2>6, NextScanned
        <3>2. QED
            BY <2>6, <3>1
               DEF VlrParsed, More, OpensWhatFits, VerdictOfTheVlrs, Judged, PrefixLength
    <2>7. CASE VlrsParsed
        <3>1. /\ pc' = "done" /\ outcome' \notin {"none", "source failed"}
              /\ file' = file /\ data' = data /\ data = Min(PrefixLength, file.size)
            BY <2>7 DEF VlrsParsed, Finish, Verdict
        <3>2. QED
            BY <2>7, <3>1, VerdictRight DEF PrefixLength
    <2>8. CASE UNCHANGED vars
        <3>1. /\ Scanned' <=> Scanned
              /\ NothingParsed' <=> NothingParsed
              /\ OpensWhatFits' <=> OpensWhatFits
              /\ VerdictOfTheVlrs' <=> VerdictOfTheVlrs
            BY <2>8 DEF vars, Scanned, NothingParsed, OpensWhatFits, VerdictOfTheVlrs,
                        Judged, LasHeaderGood, Good, LastOf, Reached, Usable, Vlrs, Last
        <3>2. QED
            BY <2>8, <3>1 DEF vars, Judged, PrefixLength
    <2>9. QED
        BY <2>1, <2>2, <2>3, <2>4, <2>5, <2>6, <2>7, <2>8 DEF Next
<1>3. QED
    BY <1>1, <1>2, PTL DEF Spec

(* A file whose prefix was read is opened exactly if its header and all    *)
(* its records lie in the prefix and parse, and both kinds that matter are *)
(* among them (reader.rs:24-27, header.rs:146-182).                        *)
THEOREM OpenedExactlyIfItFits == Spec => []OpensWhatFits
BY InvariantHolds, PTL DEF IInv

(* The last record of a kind is the one taken, and a record is missing     *)
(* only from a file that was seen to its last record (header.rs:164-182).  *)
THEOREM NoRecordMissedByThePrefix == Spec => []VerdictOfTheVlrs
BY InvariantHolds, PTL DEF IInv
=============================================================================
