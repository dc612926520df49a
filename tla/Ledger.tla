------------------------------- MODULE Ledger -------------------------------
(***************************************************************************)
(* What cmd/extract promises about the catalog, whatever fails and however *)
(* often it is run: a database is loaded by one run only; while that run   *)
(* lasts each item it took on lands whole or is refused, never both and    *)
(* never twice; and it reports its result only once every item it took on  *)
(* is in one of the two.                                                   *)
(***************************************************************************)
EXTENDS Naturals

CONSTANT Items

VARIABLES
    book,     \* "blank" database, "open" to its one run, "closed", "shut"
    taken,    \* the items that run took on (-limit)
    shelf,    \* how many rows of the catalog each surveyed item has
    refused   \* what that run has quarantined

vars == <<book, taken, shelf, refused>>

Empty == [i \in Items |-> 0]

Init ==
    /\ book = "blank"
    /\ taken = {}
    /\ shelf = Empty
    /\ refused = {}

Open ==
    /\ book = "blank"
    /\ book' = "open"
    /\ taken' \in SUBSET Items
    /\ UNCHANGED <<shelf, refused>>

Unplaced(i) == i \in taken /\ shelf[i] = 0 /\ i \notin refused

Land(i) ==
    /\ book = "open"
    /\ Unplaced(i)
    /\ shelf' = [shelf EXCEPT ![i] = 1]
    /\ UNCHANGED <<book, taken, refused>>

Refuse(i) ==
    /\ book = "open"
    /\ Unplaced(i)
    /\ refused' = refused \cup {i}
    /\ UNCHANGED <<book, taken, shelf>>

Close ==
    /\ book = "open"
    /\ \A i \in taken : ~Unplaced(i)
    /\ book' = "closed"
    /\ UNCHANGED <<taken, shelf, refused>>

(* The run failed or its memory is gone: nothing more is ever loaded. *)
Leave ==
    /\ book \in {"open", "closed"}
    /\ book' = "shut"
    /\ taken' = {}
    /\ refused' = {}
    /\ UNCHANGED shelf

(* docker compose down -v. *)
Wipe ==
    /\ book \in {"closed", "shut"}
    /\ book' = "blank"
    /\ taken' = {}
    /\ shelf' = Empty
    /\ refused' = {}

Next == Open \/ Close \/ Leave \/ Wipe \/ \E i \in Items : Land(i) \/ Refuse(i)

Spec == Init /\ [][Next]_vars
=============================================================================
