------------------------------- MODULE Header -------------------------------
(***************************************************************************)
(* The header of a COPC file: the prefix that open reads and what          *)
(* parse_header makes of it (copc-streaming/src/header.rs, reader.rs).     *)
(*                                                                         *)
(* open asks the source for its size, reads as much as a prefix holds, and *)
(* parses the LAS header and the variable length records behind it, in one *)
(* pass.  Two of the records matter: the COPC info, a payload of a fixed   *)
(* layout, and the parameters of the compression.                          *)
(*                                                                         *)
(* Abstractions.  A record is its kind and the length of its payload, and  *)
(* is told by its place among the records.  The las and laz crates decide  *)
(* what they accept: las_ok for the raw header, builds for the header made *)
(* of it and the records, ok for a record of the compression.              *)
(***************************************************************************)
EXTENDS Integers, Sequences

CONSTANTS
    PrefixSize, \* bytes that open reads, if there are as many: 65536
    LasHeader,  \* bytes of the LAS header
    VlrHeader,  \* bytes of a record before its payload
    InfoSize,   \* bytes of the COPC info
    Files       \* the files that may be opened

Vlr ==
    [kind : {"copc info", "laszip", "other"}, length : Nat, ok : BOOLEAN]

ASSUME FilesAssumption ==
    /\ PrefixSize \in Nat /\ LasHeader \in Nat /\ VlrHeader \in Nat /\ InfoSize \in Nat
    /\ \A f \in Files :
          /\ f.size \in Nat
          /\ f.sized \in BOOLEAN   \* whether the source knows the size
          /\ f.las_ok \in BOOLEAN
          /\ f.builds \in BOOLEAN
          /\ f.header_size \in Nat
          /\ f.vlrs \in Seq(Vlr)

Min(a, b) == IF a <= b THEN a ELSE b

VARIABLES
    file,      \* the file
    pc,        \* where open is
    data,      \* the number of bytes of the prefix, a local variable
    position,  \* of the cursor in it
    parsed,    \* the number of records parsed
    copc_info, \* the place of the record it was taken from, 0 for None
    laz_vlr,   \* likewise
    outcome    \* how open ended

vars == << file, pc, data, position, parsed, copc_info, laz_vlr, outcome >>

Init ==
    /\ file \in Files
    /\ pc = "size"
    /\ data = 0 /\ position = 0 /\ parsed = 0
    /\ copc_info = 0 /\ laz_vlr = 0
    /\ outcome = "none"

Finish(result) ==
    /\ pc' = "done"
    /\ outcome' = result

-----------------------------------------------------------------------------
(* open, up to the prefix.                                                 *)

PrefixLength == IF file.sized THEN Min(file.size, PrefixSize) ELSE PrefixSize

SizeTold ==
    /\ pc = "size"
    /\ pc' = "read"
    /\ UNCHANGED << file, data, position, parsed, copc_info, laz_vlr, outcome >>

(* A source may answer a read past its end with the bytes there are; those *)
(* of the crate fail (ReadFails).                                          *)
PrefixRead ==
    /\ pc = "read"
    /\ data' = Min(PrefixLength, file.size)
    /\ pc' = "header"
    /\ UNCHANGED << file, position, parsed, copc_info, laz_vlr, outcome >>

(* An error of the source, or the future dropped at one of its awaits. *)
ReadFails ==
    /\ pc \in {"size", "read"}
    /\ Finish("source failed")
    /\ UNCHANGED << file, data, position, parsed, copc_info, laz_vlr >>

-----------------------------------------------------------------------------
(* parse_header.                                                           *)

HeaderParsed ==
    /\ pc = "header"
    /\ file.las_ok /\ LasHeader <= data
    /\ position' = file.header_size
    /\ pc' = "vlrs"
    /\ UNCHANGED << file, data, parsed, copc_info, laz_vlr, outcome >>

HeaderBad ==
    /\ pc = "header"
    /\ ~(file.las_ok /\ LasHeader <= data)
    /\ Finish("Las")
    /\ UNCHANGED << file, data, position, parsed, copc_info, laz_vlr >>

vlr == file.vlrs[parsed + 1]

More == pc = "vlrs" /\ parsed < Len(file.vlrs)

(* Mutant: the payload is not looked at if its header is there. *)
HeaderInData == position + VlrHeader <= data

InData == position + VlrHeader + vlr.length <= data

(* CopcInfo::parse and LazVlr::read_from. *)
Accepted ==
    CASE vlr.kind = "copc info" -> vlr.length >= InfoSize
      [] vlr.kind = "laszip"    -> vlr.ok
      [] vlr.kind = "other"     -> TRUE

(* Mutant: the first of two records of a kind stays. *)
FirstVlrParsed ==
    /\ More /\ InData /\ Accepted
    /\ parsed' = parsed + 1
    /\ position' = position + VlrHeader + vlr.length
    /\ copc_info' = IF vlr.kind = "copc info" /\ copc_info = 0 THEN parsed' ELSE copc_info
    /\ laz_vlr' = IF vlr.kind = "laszip" /\ laz_vlr = 0 THEN parsed' ELSE laz_vlr
    /\ UNCHANGED << file, pc, data, outcome >>

VlrParsed ==
    /\ More /\ InData /\ Accepted
    /\ parsed' = parsed + 1
    /\ position' = position + VlrHeader + vlr.length
    /\ copc_info' = IF vlr.kind = "copc info" THEN parsed' ELSE copc_info
    /\ laz_vlr' = IF vlr.kind = "laszip" THEN parsed' ELSE laz_vlr
    /\ UNCHANGED << file, pc, data, outcome >>

VlrCut ==
    /\ More /\ ~InData
    /\ Finish("Las")
    /\ UNCHANGED << file, data, position, parsed, copc_info, laz_vlr >>

VlrBad ==
    /\ More /\ InData /\ ~Accepted
    /\ Finish(IF vlr.kind = "copc info" THEN "CopcInfoNotFound" ELSE "Laz")
    /\ UNCHANGED << file, data, position, parsed, copc_info, laz_vlr >>

Verdict ==
    CASE ~file.builds  -> "Las"
      [] file.builds /\ copc_info = 0 -> "CopcInfoNotFound"
      [] file.builds /\ copc_info # 0 /\ laz_vlr = 0 -> "LazVlrNotFound"
      [] OTHER -> "opened"

VlrsParsed ==
    /\ pc = "vlrs"
    /\ parsed = Len(file.vlrs)
    /\ Finish(Verdict)
    /\ UNCHANGED << file, data, position, parsed, copc_info, laz_vlr >>

Next ==
    \/ SizeTold \/ PrefixRead \/ ReadFails
    \/ HeaderParsed \/ HeaderBad
    \/ VlrParsed \/ VlrCut \/ VlrBad \/ VlrsParsed

Spec == Init /\ [][Next]_vars
-----------------------------------------------------------------------------
(* Where the first n records end in the file. *)
EndOf(f) ==
    LET end[n \in 0 .. Len(f.vlrs)] ==
            IF n = 0 THEN f.header_size ELSE end[n - 1] + VlrHeader + f.vlrs[n].length
    IN  end

Vlrs(kind) == { i \in DOMAIN file.vlrs : file.vlrs[i].kind = kind }

(* The records that lie in the part of the file that open may read. *)
Reached ==
    { i \in DOMAIN file.vlrs :
        EndOf(file)[i] <= file.size /\ EndOf(file)[i] <= PrefixSize }

Usable(i) ==
    /\ file.vlrs[i].kind = "copc info" => file.vlrs[i].length >= InfoSize
    /\ file.vlrs[i].kind = "laszip" => file.vlrs[i].ok

Judged == outcome \notin {"none", "source failed"}

(* A file whose prefix was read is opened if and only if its LAS header    *)
(* and every record of it, also those no one needs, lie in the first       *)
(* PrefixSize bytes and parse, and there are records of both kinds         *)
(* (reader.rs:24-27, header.rs:146-182).                                   *)
OpensWhatFits ==
    Judged =>
        (outcome = "opened" <=>
            /\ file.las_ok /\ file.builds
            /\ LasHeader <= file.size /\ LasHeader <= PrefixSize
            /\ Reached = DOMAIN file.vlrs
            /\ \A i \in DOMAIN file.vlrs : Usable(i)
            /\ Vlrs("copc info") # {} /\ Vlrs("laszip") # {})

Last(kind, i) == i \in Vlrs(kind) /\ \A j \in Vlrs(kind) : j <= i

(* An open file has the parameters of the last record of either kind, and  *)
(* a file is told to lack one only if all its records were seen and none   *)
(* is of that kind, or a COPC info that was seen is short: the end of the  *)
(* prefix never passes for a missing record (header.rs:164-182).           *)
VerdictOfTheVlrs ==
    /\ outcome = "opened" => Last("copc info", copc_info) /\ Last("laszip", laz_vlr)
    /\ outcome = "CopcInfoNotFound" =>
          \/ Vlrs("copc info") = {} /\ Reached = DOMAIN file.vlrs
          \/ \E i \in Vlrs("copc info") \cap Reached : ~Usable(i)
    /\ outcome = "LazVlrNotFound" =>
          Vlrs("laszip") = {} /\ Vlrs("copc info") # {} /\ Reached = DOMAIN file.vlrs
=============================================================================
