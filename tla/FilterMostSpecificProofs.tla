---------------------- MODULE FilterMostSpecificProofs ----------------------
(***************************************************************************)
(* Proof that the loop of filterMostSpecific leaves the most specific      *)
(* candidates, for lists of any length without repetitions.                *)
(***************************************************************************)
EXTENDS FilterMostSpecific, WellFoundedInduction, TLAPS

(***************************************************************************)
(* No list repeats a candidate.                                            *)
(***************************************************************************)
DistinctInputs ==
    \A s \in Inputs : \A m, n \in 1..Len(s) : s[m] = s[n] => m = n

-----------------------------------------------------------------------------
(***************************************************************************)
(* Facts about Beats: it is a strict order on the candidates that overlap. *)
(***************************************************************************)
LEMMA BeatsIrreflexive ==
  ASSUME NEW a \in Candidates
  PROVE  ~Beats(a, a)
<1>1. Bits[a] \in Nat /\ Key[a] \in Nat
  BY ContainmentAssumption
<1>2. ~Wins(a, a)
  BY <1>1 DEF Wins
<1> QED BY <1>2 DEF Beats

LEMMA BeatsTransitive ==
  ASSUME NEW a \in Candidates, NEW b \in Candidates, NEW c \in Candidates,
         Beats(a, b), Beats(b, c)
  PROVE  Beats(a, c)
<1>1. Bits[a] \in Nat /\ Bits[b] \in Nat /\ Bits[c] \in Nat
  BY ContainmentAssumption
<1>2. Key[a] \in Nat /\ Key[b] \in Nat /\ Key[c] \in Nat
  BY ContainmentAssumption
<1>3. Wins(a, c)
  BY <1>1, <1>2 DEF Beats, Wins
<1>4. Bits[a] >= Bits[b] /\ Bits[b] >= Bits[c]
  BY <1>1 DEF Beats, Wins
<1>5. Addresses[b] \subseteq Addresses[c]
  BY <1>4, ContainmentAssumption DEF Beats, Overlap
<1>6. Overlap(a, c)
  BY <1>5 DEF Beats, Overlap
<1> QED BY <1>3, <1>6 DEF Beats

LEMMA OneBeatsTheOther ==
  ASSUME NEW a \in Candidates, NEW b \in Candidates, a # b, Overlap(a, b)
  PROVE  /\ Loser(a, b) = b => Beats(a, b)
         /\ Loser(a, b) = a => Beats(b, a)
         /\ Loser(a, b) \in {a, b}
         /\ Beats(a, b) => Loser(a, b) = b
         /\ Beats(b, a) => Loser(a, b) = a
<1>1. Bits[a] \in Nat /\ Bits[b] \in Nat /\ Key[a] \in Nat /\ Key[b] \in Nat
  BY ContainmentAssumption
<1>2. Key[a] # Key[b]
  BY ContainmentAssumption
<1>3. Overlap(b, a)
  BY DEF Overlap
<1> QED BY <1>1, <1>2, <1>3 DEF Loser, Beats, Wins

(***************************************************************************)
(* Whatever is beaten is beaten by one of the most specific candidates.    *)
(***************************************************************************)
LEMMA MostSpecificCovers ==
  ASSUME NEW C \in SUBSET Candidates, NEW c \in C,
         \E d \in C : Beats(d, c)
  PROVE  \E d \in MostSpecific(C) : Beats(d, c)
<1> DEFINE T == {d \in C : Beats(d, c)}
<1>1. \A d \in T : Bits[d] \in 0..128 /\ Key[d] \in Nat
  BY ContainmentAssumption
<1>2. \A S : S \subseteq Nat /\ S # {} => \E x \in S : \A y \in S : x <= y
  <2> SUFFICES ASSUME NEW S, S \subseteq Nat, S # {}
               PROVE  \E x \in S : \A y \in S : x <= y
    OBVIOUS
  <2>1. PICK x \in S : \A y \in S : ~ (<<y, x>> \in OpToRel(<, Nat))
    BY NatLessThanWellFounded, WFMin
  <2>2. \A y \in S : ~(y < x)
    <3>1. \A y \in S : y \in Nat /\ x \in Nat
      OBVIOUS
    <3> QED BY <2>1, <3>1, Zenon DEF OpToRel
  <2> QED BY <2>2
<1>3. PICK b \in {128 - Bits[d] : d \in T} :
        \A y \in {128 - Bits[d] : d \in T} : b <= y
  <2>1. {128 - Bits[d] : d \in T} \subseteq Nat
    BY <1>1
  <2>2. {128 - Bits[d] : d \in T} # {}
    OBVIOUS
  <2> HIDE DEF T
  <2> QED BY <1>2, <2>1, <2>2
<1> DEFINE L == {d \in T : 128 - Bits[d] = b}
<1>4. PICK k \in {Key[d] : d \in L} : \A y \in {Key[d] : d \in L} : k <= y
  <2>1. {Key[d] : d \in L} \subseteq Nat
    BY <1>1
  <2>2. {Key[d] : d \in L} # {}
    BY <1>3
  <2> HIDE DEF L
  <2> QED BY <1>2, <2>1, <2>2
<1>5. PICK w \in L : Key[w] = k
  BY <1>4
<1>6. w \in C /\ Beats(w, c) /\ 128 - Bits[w] = b
  BY <1>5
<1>7. ASSUME NEW e \in C, Beats(e, w) PROVE FALSE
  <2>0. Bits[e] > Bits[w] \/ (Bits[e] = Bits[w] /\ Key[e] < Key[w])
    BY <1>7 DEF Beats, Wins
  <2>1. Beats(e, c)
    BY <1>6, <1>7, BeatsTransitive
  <2>2. e \in T
    BY <2>1
  <2>3. Bits[e] \in 0..128 /\ Bits[w] \in 0..128 /\ Key[e] \in Nat /\ Key[w] \in Nat
    BY <1>1, <1>6, <2>2
  <2>4. 128 - Bits[w] <= 128 - Bits[e]
    BY <1>3, <1>6, <2>2
  <2>5. Bits[e] = Bits[w] /\ Key[e] < Key[w]
    <3>1. \A x, y \in 0..128 : 128 - x <= 128 - y => ~(y > x)
      OBVIOUS
    <3>2. ~(Bits[e] > Bits[w])
      BY <2>3, <2>4, <3>1
    <3> QED BY <2>0, <3>2
  <2>6. e \in L
    BY <1>6, <2>2, <2>5
  <2>7. Key[w] <= Key[e]
    BY <1>4, <1>5, <2>6
  <2> QED BY <2>3, <2>5, <2>7
<1>8. w \in MostSpecific(C)
  BY <1>6, <1>7 DEF MostSpecific
<1> QED BY <1>6, <1>8

(***************************************************************************)
(* No two of the most specific candidates overlap, so Kentik has no reason *)
(* to refuse a dimension that holds exactly these.                         *)
(***************************************************************************)
THEOREM MostSpecificDisjoint ==
  ASSUME NEW C \in SUBSET Candidates,
         NEW a \in MostSpecific(C), NEW b \in MostSpecific(C), a # b
  PROVE  ~Overlap(a, b)
<1>1. a \in Candidates /\ b \in Candidates /\ ~Beats(a, b) /\ ~Beats(b, a)
  BY DEF MostSpecific
<1> QED BY <1>1, OneBeatsTheOther

-----------------------------------------------------------------------------
(***************************************************************************)
(* The inductive invariant.  What is dropped is beaten by something in the *)
(* list, and of every pair the loop has passed, the loser is dropped if the*)
(* winner is one of the most specific.  The pairs that the loop skips are  *)
(* no exception, because a most specific candidate is never dropped.       *)
(***************************************************************************)
Distinct ==
    \A m, n \in 1..Len(comparable) : comparable[m] = comparable[n] => m = n

Passed(m, n) == m < i \/ (m = i /\ n < j)

Settled(a, b) == a \in MostSpecific(Listed) /\ Beats(a, b) => b \in dropped

DroppedBeaten ==
    \A c \in dropped : c \in Listed /\ \E d \in Listed : Beats(d, c)

PassedSettled ==
    \A m, n \in 1..Len(comparable) : m < n /\ Passed(m, n) =>
        /\ Settled(comparable[m], comparable[n])
        /\ Settled(comparable[n], comparable[m])

FilterInv == TypeOK /\ Distinct /\ DroppedBeaten /\ PassedSettled

LEMMA ListedFacts ==
  ASSUME comparable \in Seq(Candidates)
  PROVE  /\ Len(comparable) \in Nat
         /\ \A k \in 1..Len(comparable) : comparable[k] \in Candidates
         /\ \A k \in 1..Len(comparable) : comparable[k] \in Listed
         /\ Listed \subseteq Candidates
  BY DEF Listed

LEMMA FilterInvInit ==
  ASSUME DistinctInputs, Init PROVE FilterInv
<1>1. comparable \in Seq(Candidates) /\ Len(comparable) \in Nat
  BY FilterAssumption DEF Init
<1>2. TypeOK
  BY <1>1 DEF Init, TypeOK
<1>3. Distinct
  BY DEF Init, DistinctInputs, Distinct
<1>4. DroppedBeaten
  BY DEF Init, DroppedBeaten
<1>5. PassedSettled
  BY <1>1 DEF Init, PassedSettled, Passed
<1> QED BY <1>2, <1>3, <1>4, <1>5 DEF FilterInv

LEMMA FilterInvStep == FilterInv /\ [Next]_vars => FilterInv'
<1> SUFFICES ASSUME FilterInv, [Next]_vars PROVE FilterInv'
  OBVIOUS
<1> USE DEF FilterInv
<1>f. /\ comparable \in Seq(Candidates)
      /\ Len(comparable) \in Nat /\ i \in Nat /\ j \in Nat /\ i < j
      /\ i >= 1 /\ i <= Len(comparable) + 1 /\ j <= Len(comparable) + 2
      /\ dropped \subseteq Candidates
      /\ kept \subseteq Candidates \cup Ranges
  BY DEF TypeOK
<1>g. /\ \A k \in 1..Len(comparable) :
            comparable[k] \in Candidates /\ comparable[k] \in Listed
      /\ Listed \subseteq Candidates
  BY <1>f, ListedFacts
<1>1. CASE ComparePair
  <2> DEFINE a == comparable[i]
             b == comparable[j]
  <2>1. /\ i \in 1..Len(comparable) /\ j \in 1..Len(comparable)
        /\ i' = i /\ j' = j + 1
        /\ UNCHANGED <<comparable, kept>>
        /\ dropped' = IF a \notin dropped /\ b \notin dropped /\ Overlap(a, b)
                        THEN dropped \cup {Loser(a, b)} ELSE dropped
    BY <1>1, <1>f DEF ComparePair, Contest
  <2>2. a \in Listed /\ b \in Listed /\ a \in Candidates /\ b \in Candidates
    BY <1>g, <2>1
  <2>3. a # b
    BY <1>f, <2>1 DEF Distinct
  <2>4. Listed' = Listed
    BY <2>1 DEF Listed
  <2> HIDE DEF a, b
  <2>5. dropped' \subseteq Candidates /\ dropped \subseteq dropped'
    BY <1>f, <2>1, <2>2, <2>3, OneBeatsTheOther
  <2>6. TypeOK'
    BY <1>f, <2>1, <2>5 DEF TypeOK
  <2>7. Distinct'
    BY <2>1 DEF Distinct
  <2>8. DroppedBeaten'
    <3>1. CASE dropped' = dropped
      BY <2>4, <3>1 DEF DroppedBeaten
    <3>2. CASE dropped' = dropped \cup {Loser(a, b)} /\ Overlap(a, b)
      BY <2>2, <2>3, <2>4, <3>2, OneBeatsTheOther DEF DroppedBeaten
    <3> QED BY <2>1, <3>1, <3>2
  <2>9. ASSUME NEW c \in MostSpecific(Listed) PROVE c \notin dropped
    BY <2>9 DEF MostSpecific, DroppedBeaten
  <2>10. ASSUME a \in MostSpecific(Listed), Beats(a, b) PROVE b \in dropped'
    <3>1. a \notin dropped /\ Overlap(a, b)
      BY <2>9, <2>10 DEF Beats
    <3>2. Loser(a, b) = b
      BY <2>2, <2>3, <2>10, <3>1, OneBeatsTheOther
    <3> QED BY <2>1, <3>1, <3>2
  <2>11. ASSUME b \in MostSpecific(Listed), Beats(b, a) PROVE a \in dropped'
    <3>1. b \notin dropped /\ Overlap(a, b)
      BY <2>9, <2>11 DEF Beats, Overlap
    <3>2. Loser(a, b) = a
      BY <2>2, <2>3, <2>11, <3>1, OneBeatsTheOther
    <3> QED BY <2>1, <3>1, <3>2
  <2>12. PassedSettled'
    <3> SUFFICES ASSUME NEW m \in 1..Len(comparable), NEW n \in 1..Len(comparable),
                        m < n, Passed(m, n)'
                 PROVE  /\ Settled(comparable[m], comparable[n])'
                        /\ Settled(comparable[n], comparable[m])'
      BY <2>1 DEF PassedSettled
    <3>1. \A x, y : Settled(x, y) => Settled(x, y)'
      BY <2>4, <2>5 DEF Settled, MostSpecific, Beats, Overlap, Wins
    <3>2. CASE Passed(m, n)
      <4>1. /\ Settled(comparable[m], comparable[n])
            /\ Settled(comparable[n], comparable[m])
        BY <3>2 DEF PassedSettled
      <4> QED BY <4>1, <2>1, <2>4, <2>5
              DEF Settled, MostSpecific, Beats, Overlap, Wins
    <3>3. CASE m = i /\ n = j
      <4>1. comparable[m] = a /\ comparable[n] = b
        BY <3>3 DEF a, b
      <4>2. /\ a \in MostSpecific(Listed) /\ Beats(a, b) => b \in dropped'
            /\ b \in MostSpecific(Listed) /\ Beats(b, a) => a \in dropped'
        BY <2>10, <2>11
      <4> QED BY <4>1, <4>2, <2>1, <2>4
              DEF Settled, MostSpecific, Beats, Overlap, Wins
    <3>4. Passed(m, n) \/ (m = i /\ n = j)
      BY <1>f, <2>1 DEF Passed
    <3> QED BY <3>2, <3>3, <3>4
  <2> QED BY <2>6, <2>7, <2>8, <2>12
<1>2. ASSUME UNCHANGED <<comparable, dropped>>, TypeOK',
             \A m, n \in 1..Len(comparable) :
                m < n /\ Passed(m, n)' => Passed(m, n)
      PROVE  FilterInv'
  <2>1. Listed' = Listed
    BY <1>2 DEF Listed
  <2>2. Distinct' /\ DroppedBeaten'
    BY <1>2, <2>1 DEF Distinct, DroppedBeaten, Beats, Overlap, Wins
  <2>3. PassedSettled'
    BY <1>2, <2>1 DEF PassedSettled, Settled, MostSpecific, Beats, Overlap, Wins
  <2> QED BY <1>2, <2>2, <2>3
<1>3. CASE NextRow
  <2>1. /\ i <= Len(comparable) /\ j > Len(comparable)
        /\ i' = i + 1 /\ j' = i + 2
        /\ UNCHANGED <<comparable, dropped, kept>>
    BY <1>3 DEF NextRow, RowStart
  <2>2. TypeOK'
    BY <1>f, <2>1 DEF TypeOK
  <2>3. \A m, n \in 1..Len(comparable) :
            m < n /\ Passed(m, n)' => Passed(m, n)
    BY <1>f, <2>1 DEF Passed
  <2> QED BY <1>2, <2>1, <2>2, <2>3
<1>4. CASE Finish
  <2>1. UNCHANGED <<comparable, i, j, dropped>>
    BY <1>4 DEF Finish
  <2>2. kept' \subseteq Candidates \cup Ranges
    BY <1>4, <1>g DEF Finish
  <2>3. TypeOK'
    BY <2>1, <2>2 DEF TypeOK
  <2> QED BY <1>2, <2>1, <2>3 DEF Passed
<1>5. CASE UNCHANGED vars
  <2>1. TypeOK'
    BY <1>5 DEF vars, TypeOK
  <2> QED BY <1>2, <1>5, <2>1 DEF vars, Passed
<1> QED BY <1>1, <1>3, <1>4, <1>5 DEF Next

(***************************************************************************)
(* Once the loop is done every pair has been passed, so what is left are   *)
(* the most specific candidates, and each dropped one overlaps one of them.*)
(***************************************************************************)
LEMMA FilterInvGoals ==
  ASSUME FilterInv PROVE LeavesMostSpecific /\ DroppedForAnother
<1> USE DEF FilterInv
<1>1. /\ comparable \in Seq(Candidates)
      /\ Len(comparable) \in Nat /\ i \in Nat /\ j \in Nat
      /\ Listed \subseteq Candidates
  BY ListedFacts DEF TypeOK
<1>2. ASSUME Finished, NEW c \in Listed, c \notin MostSpecific(Listed)
      PROVE  c \in dropped /\ \E d \in MostSpecific(Listed) : Overlap(c, d)
  <2>1. \E d \in Listed : Beats(d, c)
    BY <1>2 DEF MostSpecific
  <2>2. PICK d \in MostSpecific(Listed) : Beats(d, c)
    BY <1>1, <2>1, MostSpecificCovers
  <2>3. d \in Listed
    BY DEF MostSpecific
  <2>4. PICK m \in 1..Len(comparable) : comparable[m] = d
    BY <2>3 DEF Listed
  <2>5. PICK n \in 1..Len(comparable) : comparable[n] = c
    BY DEF Listed
  <2>6. m # n
    BY <1>1, <2>2, <2>4, <2>5, BeatsIrreflexive
  <2>7. Passed(m, n) /\ Passed(n, m)
    BY <1>1, <1>2 DEF Finished, Passed
  <2>8. Settled(d, c)
    BY <2>4, <2>5, <2>6, <2>7 DEF PassedSettled
  <2>9. Overlap(c, d)
    BY <2>2 DEF Beats, Overlap
  <2> QED BY <2>2, <2>8, <2>9 DEF Settled
<1>3. ASSUME NEW c \in MostSpecific(Listed) PROVE c \in Listed /\ c \notin dropped
  BY <1>3 DEF MostSpecific, DroppedBeaten
<1>4. ASSUME NEW c \in Listed \cap dropped PROVE c \notin MostSpecific(Listed)
  BY <1>3
<1>5. LeavesMostSpecific
  BY <1>2, <1>3 DEF LeavesMostSpecific
<1>6. DroppedForAnother
  BY <1>2, <1>3, <1>4 DEF DroppedForAnother
<1> QED BY <1>5, <1>6

-----------------------------------------------------------------------------
(***************************************************************************)
(* filterMostSpecific leaves exactly the most specific candidates of every *)
(* list without repetitions, in whatever order they are listed.            *)
(***************************************************************************)
THEOREM FilterCorrect == DistinctInputs => (Spec => []LeavesMostSpecific)
<1> SUFFICES ASSUME DistinctInputs PROVE Spec => []LeavesMostSpecific
  OBVIOUS
<1>1. Init => FilterInv
  BY FilterInvInit
<1>2. FilterInv /\ [Next]_vars => FilterInv'
  BY FilterInvStep
<1>3. FilterInv => LeavesMostSpecific
  BY FilterInvGoals
<1> QED BY <1>1, <1>2, <1>3, PTL DEF Spec

(***************************************************************************)
(* In such a list a candidate is dropped only for one that stays.          *)
(***************************************************************************)
THEOREM DropsOnlyForAnother == DistinctInputs => (Spec => []DroppedForAnother)
<1> SUFFICES ASSUME DistinctInputs PROVE Spec => []DroppedForAnother
  OBVIOUS
<1>1. Init => FilterInv
  BY FilterInvInit
<1>2. FilterInv /\ [Next]_vars => FilterInv'
  BY FilterInvStep
<1>3. FilterInv => DroppedForAnother
  BY FilterInvGoals
<1> QED BY <1>1, <1>2, <1>3, PTL DEF Spec

(***************************************************************************)
(* TypeOK holds in every reachable state, for lists with repetitions too:  *)
(* the loop never compares a candidate with itself, never looks beyond the *)
(* list, and drops candidates and nothing else.                            *)
(***************************************************************************)
THEOREM FilterTypeCorrect == Spec => []TypeOK
<1>1. Init => TypeOK
  <2> SUFFICES ASSUME Init PROVE TypeOK
    OBVIOUS
  <2>2. comparable \in Seq(Candidates) /\ Len(comparable) \in Nat
    BY FilterAssumption DEF Init
  <2>3. QED BY <2>2 DEF Init, TypeOK
<1>2. TypeOK /\ [Next]_vars => TypeOK'
  <2> SUFFICES ASSUME TypeOK, [Next]_vars PROVE TypeOK'
    OBVIOUS
  <2>1. /\ comparable \in Seq(Candidates)
        /\ Len(comparable) \in Nat /\ i \in Nat /\ j \in Nat /\ i < j
        /\ i >= 1 /\ i <= Len(comparable) + 1 /\ j <= Len(comparable) + 2
        /\ dropped \subseteq Candidates /\ kept \subseteq Candidates \cup Ranges
    BY DEF TypeOK
  <2>2. (\A k \in 1..Len(comparable) : comparable[k] \in Candidates)
        /\ Listed \subseteq Candidates
    BY <2>1, ListedFacts
  <2>3. CASE ComparePair
    <3>1. /\ i <= Len(comparable) /\ j <= Len(comparable) /\ j' = j + 1
          /\ UNCHANGED <<comparable, i, kept>>
          /\ dropped' \subseteq dropped \cup {Loser(comparable[i], comparable[j])}
      BY <2>3 DEF ComparePair
    <3>2. Loser(comparable[i], comparable[j]) \in {comparable[i], comparable[j]}
      BY DEF Loser
    <3>3. comparable[i] \in Candidates /\ comparable[j] \in Candidates
      BY <2>1, <2>2, <3>1
    <3>4. dropped' \subseteq Candidates
      BY <2>1, <3>1, <3>2, <3>3
    <3>5. QED BY <2>1, <3>1, <3>4 DEF TypeOK
  <2>4. CASE NextRow
    BY <2>1, <2>4 DEF NextRow, RowStart, TypeOK
  <2>5. CASE Finish
    <3>1. UNCHANGED <<comparable, i, j, dropped>> /\ kept' \subseteq Candidates \cup Ranges
      BY <2>2, <2>5 DEF Finish
    <3>2. QED BY <3>1 DEF TypeOK
  <2>6. CASE UNCHANGED vars
    BY <2>6 DEF vars, TypeOK
  <2>7. QED BY <2>3, <2>4, <2>5, <2>6 DEF Next
<1>3. QED BY <1>1, <1>2, PTL DEF Spec

=============================================================================
