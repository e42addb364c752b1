---------------------------- MODULE FetchContract ----------------------------
(***************************************************************************)
(* What a fetch from NetBox promises to the sync engine, while the items   *)
(* that match the request come and go: it returns items that matched at    *)
(* some time during the fetch, and unless it says that it was truncated it *)
(* leaves out no item that matched all the time, except one for each item  *)
(* that was removed or moved meanwhile.  NetBoxListing implements it.      *)
(***************************************************************************)
EXTENDS Naturals, FiniteSets

CONSTANT Items

VARIABLES
    match,      \* the items that match the request now
    running,    \* a fetch is going on
    steady,     \* items that have matched since the fetch began
    ever,       \* items that matched at some time since the fetch began
    slips,      \* items removed or moved since the fetch began
    result      \* [truncated, items] of the last fetch, if it succeeded

vars == <<match, running, steady, ever, slips, result>>

Results == [truncated : BOOLEAN, items : SUBSET Items]

Nothing == [truncated |-> FALSE, items |-> {}]

Init ==
    /\ match \in SUBSET Items
    /\ running = FALSE
    /\ steady = {}
    /\ ever = {}
    /\ slips = 0
    /\ result = Nothing

(***************************************************************************)
(* The matching items change; only a removal or a move is a slip.          *)
(***************************************************************************)
Change ==
    /\ match' \in SUBSET Items
    /\ steady' = steady \cap match'
    /\ ever' = IF running THEN ever \cup match' ELSE ever
    /\ \/ slips' = slips
       \/ running /\ match' \subseteq match /\ slips' = slips + 1
    /\ UNCHANGED <<running, result>>

Begin ==
    /\ ~running
    /\ running' = TRUE
    /\ match' \in SUBSET Items
    /\ steady' = match'
    /\ ever' = match'
    /\ slips' = 0
    /\ result' = Nothing

End ==
    /\ running
    /\ running' = FALSE
    /\ steady' = {}
    /\ ever' = {}
    /\ slips' = 0
    /\ match' \in SUBSET Items

Return ==
    /\ End
    /\ result' \in Results
    /\ result'.items \subseteq ever
    /\ ~result'.truncated => Cardinality(steady \ result'.items) <= slips

Fail == End /\ UNCHANGED result

Next == Change \/ Begin \/ Return \/ Fail

Spec == Init /\ [][Next]_vars

=============================================================================
