----------------------------- MODULE PageLoader -----------------------------
(***************************************************************************)
(* What an index that is loaded page by page promises.  Every page that    *)
(* has been named by a resolved page is in exactly one of three places:    *)
(* resolved (its entries are in the cache), in the frontier (known, and    *)
(* still to be fetched), or forgotten (a failed or abandoned fetch took it *)
(* out of the frontier and nothing will ever put it back).                 *)
(*                                                                         *)
(* HierarchyCache implements this specification.  The frontier covers the  *)
(* pages that are being fetched, so taking a batch is not a step here: a   *)
(* batch is resolved whole or forgotten whole.                             *)
(***************************************************************************)
CONSTANTS
    Page,       \* the pages of the file
    Root,       \* the page the file header names
    Names       \* Names[p]: the pages that page p names

VARIABLES
    resolved,
    frontier,
    forgotten

vars == << resolved, frontier, forgotten >>

Init ==
    /\ resolved = {}
    /\ frontier = {Root}
    /\ forgotten = {}

Resolve(batch) ==
    /\ resolved' = resolved \cup batch
    /\ frontier' = (frontier \ batch) \cup UNION { Names[p] : p \in batch }
    /\ UNCHANGED forgotten

(* The root is named by the header and can always be asked for again. *)
Forget(batch) ==
    /\ Root \notin batch
    /\ forgotten' = forgotten \cup batch
    /\ frontier' = frontier \ batch
    /\ UNCHANGED resolved

Next == \E batch \in SUBSET frontier : Resolve(batch) \/ Forget(batch)

Spec == Init /\ [][Next]_vars
=============================================================================
