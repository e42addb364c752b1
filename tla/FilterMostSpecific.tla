------------------------- MODULE FilterMostSpecific -------------------------
(***************************************************************************)
(* The loop of filterMostSpecific, pair by pair.  It drops the loser of    *)
(* each pair that overlaps, and looks at no pair one of which is dropped.  *)
(* Candidates are dropped by external ID: two entries of one IP group in   *)
(* the list stand or fall together.                                        *)
(***************************************************************************)
EXTENDS Containment, Sequences

CONSTANTS
    Inputs,     \* the lists of comparable candidates it may be given
    Ranges      \* candidates whose CIDR does not parse as a prefix

ASSUME FilterAssumption ==
    /\ Inputs \subseteq Seq(Candidates)
    /\ Ranges \cap Candidates = {}

VARIABLES
    comparable,     \* the candidates that are prefixes, in order
    i, j,           \* the pair looked at next
    dropped,        \* candidates dropped so far
    kept            \* the result

vars == <<comparable, i, j, dropped, kept>>

Listed == {comparable[k] : k \in 1..Len(comparable)}

Init ==
    /\ comparable \in Inputs
    /\ i = 1 /\ j = 2
    /\ dropped = {}
    /\ kept = Ranges

\* Mutant: the broader range survives.
MutantLoser(a, b) ==
    IF Bits[a] < Bits[b] THEN b
    ELSE IF Bits[b] < Bits[a] THEN a
    ELSE IF Key[a] > Key[b] THEN a ELSE b

Loser(a, b) ==
    IF Bits[a] > Bits[b] THEN b
    ELSE IF Bits[b] > Bits[a] THEN a
    ELSE IF Key[a] > Key[b] THEN a ELSE b

\* Mutant: the ranges are not asked whether they overlap.
MutantContest(a, b) == a \notin dropped /\ b \notin dropped

Contest(a, b) == a \notin dropped /\ b \notin dropped /\ Overlap(a, b)

ComparePair ==
    /\ i <= Len(comparable) /\ j <= Len(comparable)
    /\ LET a == comparable[i]
           b == comparable[j] IN
       dropped' = IF Contest(a, b) THEN dropped \cup {Loser(a, b)} ELSE dropped
    /\ j' = j + 1
    /\ UNCHANGED <<comparable, i, kept>>

\* Mutant: the first pair of each row is left out.
MutantRowStart == i + 3

RowStart == i + 2

NextRow ==
    /\ i <= Len(comparable) /\ j > Len(comparable)
    /\ i' = i + 1
    /\ j' = RowStart
    /\ UNCHANGED <<comparable, dropped, kept>>

Finished == i > Len(comparable)

Finish ==
    /\ Finished
    /\ kept' = Ranges \cup (Listed \ dropped)
    /\ UNCHANGED <<comparable, i, j, dropped>>

Next == ComparePair \/ NextRow \/ Finish

Spec == Init /\ [][Next]_vars

-----------------------------------------------------------------------------
(***************************************************************************)
(* Every variable has its type.                                            *)
(***************************************************************************)
TypeOK ==
    /\ comparable \in Seq(Candidates)
    /\ i \in 1..Len(comparable) + 1
    /\ j \in i + 1..Len(comparable) + 2
    /\ dropped \subseteq Candidates
    /\ kept \subseteq Candidates \cup Ranges

(***************************************************************************)
(* When the loop is done, the candidates left are the most specific ones,  *)
(* whatever the order of the list: although it skips pairs, it misses no   *)
(* loser.                                                                  *)
(***************************************************************************)
LeavesMostSpecific == Finished => Listed \ dropped = MostSpecific(Listed)

(***************************************************************************)
(* A candidate is dropped only for the sake of one that stays: "only the   *)
(* more specific (longer-prefix) one survives".                            *)
(***************************************************************************)
DroppedForAnother ==
    Finished =>
        \A c \in Listed \cap dropped :
            \E d \in Listed \ dropped : Overlap(c, d)

=============================================================================
