------------------------- MODULE NetBoxListingProofs -------------------------
(***************************************************************************)
(* Theorems about NetBoxListing, for any number of items and endpoints, any*)
(* page size and page limit.                                               *)
(***************************************************************************)
EXTENDS NetBoxListing, FiniteSetTheorems, TLAPS

-----------------------------------------------------------------------------
(***************************************************************************)
(* Numbers of items.                                                       *)
(***************************************************************************)
LEMMA CardSubset ==
    ASSUME NEW S \in SUBSET Items, NEW T \in SUBSET S
    PROVE  /\ Cardinality(S) \in Nat /\ Cardinality(T) \in Nat
           /\ Cardinality(T) <= Cardinality(S)
           /\ T # S => Cardinality(T) < Cardinality(S)
<1>1. IsFiniteSet(S)
  BY NetBoxListingAssumption, FS_Subset
<1>2. /\ IsFiniteSet(T) /\ Cardinality(T) <= Cardinality(S)
      /\ Cardinality(S) = Cardinality(T) => S = T
  BY <1>1, FS_Subset
<1>3. Cardinality(S) \in Nat /\ Cardinality(T) \in Nat
  BY <1>1, <1>2, FS_CardinalityType
<1>4. QED BY <1>2, <1>3, SMT

LEMMA CardUnion ==
    ASSUME NEW S \in SUBSET Items, NEW R \in SUBSET Items,
           NEW T \in SUBSET (S \cup R)
    PROVE  /\ Cardinality(S) \in Nat /\ Cardinality(R) \in Nat
           /\ Cardinality(T) \in Nat
           /\ Cardinality(T) <= Cardinality(S) + Cardinality(R)
<1>1. IsFiniteSet(S) /\ IsFiniteSet(R)
  BY NetBoxListingAssumption, FS_Subset
<1>2. Cardinality(S \cup R)
        = Cardinality(S) + Cardinality(R) - Cardinality(S \cap R)
  BY <1>1, FS_Union
<1>3. /\ Cardinality(S) \in Nat /\ Cardinality(R) \in Nat
      /\ Cardinality(S \cap R) \in Nat
  BY CardSubset
<1>4. /\ Cardinality(T) \in Nat /\ Cardinality(S \cup R) \in Nat
      /\ Cardinality(T) <= Cardinality(S \cup R)
  BY CardSubset
<1>5. QED BY <1>2, <1>3, <1>4, SMT

LEMMA CardAddOne ==
    ASSUME NEW S \in SUBSET Items, NEW T \in SUBSET Items,
           \A u, v \in T \ S : u = v
    PROVE  /\ Cardinality(S) \in Nat /\ Cardinality(T) \in Nat
           /\ Cardinality(T) <= Cardinality(S) + 1
<1>1. CASE T \subseteq S
  BY <1>1, CardSubset, SMT
<1>2. ASSUME NEW u \in T \ S
      PROVE  /\ Cardinality(S) \in Nat /\ Cardinality(T) \in Nat
             /\ Cardinality(T) <= Cardinality(S) + 1
  <2>1. T \in SUBSET (S \cup {u}) /\ {u} \in SUBSET Items
    OBVIOUS
  <2>2. Cardinality({u}) = 1
    BY FS_Singleton
  <2>3. /\ Cardinality(S) \in Nat /\ Cardinality(T) \in Nat
        /\ Cardinality(T) <= Cardinality(S) + Cardinality({u})
    BY <2>1, CardUnion
  <2>4. QED BY <2>2, <2>3
<1>3. QED BY <1>1, <1>2

LEMMA CardSplit ==
    ASSUME NEW S \in SUBSET Items, NEW R \in SUBSET S, NEW T \in SUBSET (S \ R)
    PROVE  /\ Cardinality(S) \in Nat /\ Cardinality(R) \in Nat
           /\ Cardinality(T) \in Nat
           /\ Cardinality(R) + Cardinality(T) <= Cardinality(S)
<1>1. IsFiniteSet(R) /\ IsFiniteSet(T)
  BY NetBoxListingAssumption, FS_Subset
<1>2. R \cap T = {} /\ R \cup T \in SUBSET S
  OBVIOUS
<1>3. Cardinality(R \cup T) = Cardinality(R) + Cardinality(T)
  <2>1. /\ Cardinality(R) \in Nat /\ Cardinality(T) \in Nat
        /\ Cardinality({}) = 0
    BY CardSubset, FS_EmptySet
  <2>2. Cardinality(R \cup T)
          = Cardinality(R) + Cardinality(T) - Cardinality(R \cap T)
    BY <1>1, FS_Union
  <2>3. Cardinality(R \cap T) = 0
    BY <1>2, <2>1
  <2>4. QED BY <2>1, <2>2, <2>3, SMT
<1>4. QED BY <1>2, <1>3, CardSubset

-----------------------------------------------------------------------------
(***************************************************************************)
(* The cursor is the beginning of the second in which the fetch began.     *)
(***************************************************************************)
LEMMA NowCursorBound ==
    ASSUME start \in Nat
    PROVE  /\ start \div Second \in Nat /\ NowCursor \in 0..start
           /\ start \div Second <= NowCursor
<1> DEFINE q == start \div Second
<1>1. Second \in Nat \ {0}
  BY NetBoxListingAssumption
<1>2. q \in Nat /\ q * Second <= start
  BY <1>1, SMT
<1>3. q * Second \in Nat
  <2> HIDE DEF q
  <2>1. QED BY <1>1, <1>2, SMT
<1>4. q <= q * Second
  <2> HIDE DEF q
  <2>1. QED BY <1>1, <1>2, SMT
<1>5. q * Second \in 0..start
  <2> HIDE DEF q
  <2>1. QED BY <1>2, <1>3, SMT
<1>6. QED BY <1>2, <1>4, <1>5 DEF NowCursor

-----------------------------------------------------------------------------
(***************************************************************************)
(* Places in a list.  What comes earlier has a smaller place, so no two    *)
(* items of an endpoint have the same.                                     *)
(***************************************************************************)
Before(x) == ahead[x] \cap Matching

LEMMA PlaceType ==
    ASSUME TypeOK, NEW x \in Items
    PROVE  Before(x) \in SUBSET Items /\ Place(x) \in Nat
                /\ Place(x) = Cardinality(Before(x))
<1>1. Before(x) \in SUBSET Items
  BY DEF Before, TypeOK
<1>2. QED BY <1>1, CardSubset DEF Before, Place

LEMMA PlaceOrder ==
    ASSUME TypeOK, NEW x \in Matching, NEW y \in Items, x \in ahead[y]
    PROVE  Place(x) < Place(y)
<1>1. /\ Matching \subseteq Items /\ x \in Items
      /\ ahead[x] \subseteq ahead[y] /\ x \notin ahead[x]
  BY DEF Matching, Present, TypeOK, Ordered
<1>2. Before(x) \in SUBSET Before(y) /\ Before(x) # Before(y)
  BY <1>1 DEF Before
<1>3. QED BY <1>1, <1>2, PlaceType, CardSubset

LEMMA PlaceUnique ==
    ASSUME TypeOK, NEW x \in Matching, NEW y \in Matching, at[x] = at[y],
           Place(x) = Place(y)
    PROVE  x = y
<1> SUFFICES ASSUME x # y PROVE FALSE
  OBVIOUS
<1>1. x \in Present /\ y \in Present /\ x \in Items /\ y \in Items
  BY DEF Matching, Present
<1>2. x \in ahead[y] \/ y \in ahead[x]
  BY <1>1 DEF TypeOK, Ordered
<1>3. Place(x) < Place(y) \/ Place(y) < Place(x)
  BY <1>1, <1>2, PlaceOrder
<1>4. QED BY <1>1, <1>3, PlaceType, SMT

(***************************************************************************)
(* The same of the next state.                                             *)
(***************************************************************************)
LEMMA PlaceTypeNext ==
    ASSUME TypeOK', NEW x \in Items
    PROVE  Before(x)' \in SUBSET Items /\ Place(x)' \in Nat
                /\ Place(x)' = Cardinality(Before(x)')
<1>1. Before(x)' \in SUBSET Items
  BY DEF Before, TypeOK
<1>2. Place(x)' = Cardinality(Before(x)')
  BY DEF Before, Place
<1>3. QED BY <1>1, <1>2, CardSubset

LEMMA PlaceOrderNext ==
    ASSUME TypeOK', NEW x \in Matching', NEW y \in Items, x \in ahead'[y]
    PROVE  Place(x)' < Place(y)'
<1>1. /\ x \in Items
      /\ ahead'[x] \subseteq ahead'[y] /\ x \notin ahead'[x]
  BY DEF Matching, Present, TypeOK, Ordered
<1>2. Before(x)' \in SUBSET Before(y)' /\ Before(x)' # Before(y)'
  BY <1>1 DEF Before
<1>3. QED BY <1>1, <1>2, PlaceTypeNext, CardSubset

LEMMA PlaceUniqueNext ==
    ASSUME TypeOK', NEW x \in Matching', NEW y \in Matching', at'[x] = at'[y],
           Place(x)' = Place(y)'
    PROVE  x = y
<1> SUFFICES ASSUME x # y PROVE FALSE
  OBVIOUS
<1>1. x \in Present' /\ y \in Present' /\ x \in Items /\ y \in Items
  BY DEF Matching, Present
<1>2. x \in ahead'[y] \/ y \in ahead'[x]
  BY <1>1 DEF TypeOK, Ordered
<1>3. Place(x)' < Place(y)' \/ Place(y)' < Place(x)'
  BY <1>1, <1>2, PlaceOrderNext
<1>4. QED BY <1>1, <1>3, PlaceTypeNext, SMT

-----------------------------------------------------------------------------
(***************************************************************************)
(* All edits in one form: x is touched, its fellows keep what they have and*)
(* stay in their order.                                                    *)
(***************************************************************************)
Touch(x, moved) ==
    /\ Edit(x)
    /\ Recorded(x, moved)
    /\ \A y \in Items \ {x} :
          /\ at'[y] = at[y] /\ stamp'[y] = stamp[y]
          /\ ahead'[y] \ {x} = ahead[y] \ {x}
    /\ x \in Present /\ x \in Present' => at'[x] = at[x]
    /\ ~moved => at' = at /\ ahead' = ahead
    /\ ahead[x] \cup ahead'[x] \subseteq Items \ {x}
    /\ x \in Present' => \E behind \in 0..MaxBehind :
                            behind < now /\ stamp'[x] = now - behind

NetBoxEdit(x) == Insert(x) \/ Delete(x) \/ Modify(x) \/ Rename(x)

LEMMA PutIntoFacts ==
    ASSUME TypeOK, NEW x \in Items, NEW e \in 1..Endpoints, PutInto(e, x),
           x \in Present => at[x] = e
    PROVE  /\ at' \in [Items -> 0..Endpoints]
           /\ ahead' \in [Items -> SUBSET Items]
           /\ Ordered'
           /\ at'[x] = e
           /\ \A y \in Items \ {x} : /\ at'[y] = at[y]
                                     /\ ahead'[y] \ {x} = ahead[y] \ {x}
<1>1. PICK before \in SUBSET (At(e) \ {x}) :
        /\ \A y \in before : ahead[y] \ {x} \subseteq before
        /\ at' = [at EXCEPT ![x] = e]
        /\ ahead' = [y \in Items |->
              IF y = x THEN before
              ELSE IF y \in At(e) \ before THEN ahead[y] \cup {x}
              ELSE ahead[y] \ {x}]
  BY DEF PutInto
<1>2. /\ at' \in [Items -> 0..Endpoints]
      /\ at'[x] = e
      /\ \A y \in Items \ {x} : at'[y] = at[y]
  BY <1>1, SMT DEF TypeOK
<1>3. /\ ahead' \in [Items -> SUBSET Items]
      /\ ahead'[x] = before
      /\ \A y \in Items \ {x} :
            /\ y \in At(e) \ before => ahead'[y] = ahead[y] \cup {x}
            /\ y \notin At(e) \ before => ahead'[y] = ahead[y] \ {x}
  BY <1>1, SMT DEF TypeOK, At
<1>4. \A y \in Items \ {x} : ahead'[y] \ {x} = ahead[y] \ {x}
  BY <1>3
<1>5. /\ e # 0 /\ before \subseteq Items /\ x \notin before
      /\ \A y \in before : at[y] = e
  BY SMT DEF At
<1>6. /\ \A y, z \in Items : y \in ahead[z] => at[y] = at[z] /\ y # z
      /\ \A y \in Items : at[y] = 0 => ahead[y] = {}
      /\ \A y, z \in Items : at[y] # 0 /\ y # z /\ at[y] = at[z] =>
            (y \in ahead[z] <=> z \notin ahead[y])
      /\ \A y, z, w \in Items : y \in ahead[z] /\ w \in ahead[y] => w \in ahead[z]
      /\ \A y \in Items : ahead[y] \subseteq Items
  <2>1. /\ \A y \in Items : ahead[y] \subseteq At(at[y]) \ {y}
        /\ \A y \in Items \ Present : ahead[y] = {}
        /\ \A y, z \in Present :
              y # z /\ at[y] = at[z] => (y \in ahead[z] <=> z \notin ahead[y])
        /\ \A z \in Items : \A y \in ahead[z] : ahead[y] \subseteq ahead[z]
    BY DEF TypeOK, Ordered
  <2>2. QED BY <2>1 DEF At, Present
<1>7. \A y \in Items : ahead'[y] \subseteq At(at[y])' \ {y}
  <2> SUFFICES ASSUME NEW y \in Items, NEW z \in ahead'[y]
               PROVE  z \in Items /\ at'[z] = at'[y] /\ z # y
    BY <1>3 DEF At
  <2>1. CASE y = x
    BY <1>2, <1>3, <1>5, <2>1
  <2>2. CASE y # x /\ z = x
    <3>1. y \in At(e) \ before
      BY <1>3, <2>2
    <3>2. QED BY <1>2, <2>2, <3>1 DEF At
  <2>3. CASE y # x /\ z # x
    <3>1. z \in ahead[y]
      BY <1>4, <2>3
    <3>2. QED BY <1>2, <1>6, <2>3, <3>1
  <2>4. QED BY <2>1, <2>2, <2>3
<1>8. \A y \in Items : at'[y] = 0 => ahead'[y] = {}
  <2> SUFFICES ASSUME NEW y \in Items, at'[y] = 0 PROVE ahead'[y] = {}
    OBVIOUS
  <2>1. y # x /\ at[y] = 0
    BY <1>2, <1>5
  <2>2. y \notin At(e) \ before
    BY <1>5, <2>1 DEF At
  <2>3. QED BY <1>3, <1>6, <2>1, <2>2
<1>9. ASSUME NEW y \in Items, NEW z \in Items, y # z, at'[y] # 0,
             at'[y] = at'[z]
      PROVE  y \in ahead'[z] <=> z \notin ahead'[y]
  <2>1. CASE y # x /\ z # x
    BY <1>2, <1>4, <1>6, <1>9, <2>1
  <2>2. ASSUME NEW v \in Items \ {x}, at'[v] = e
        PROVE  x \in ahead'[v] <=> v \notin ahead'[x]
    <3>1. v \in At(e)
      BY <1>2, <2>2 DEF At
    <3>2. QED BY <1>3, <3>1
  <2>3. QED BY <1>2, <1>9, <2>1, <2>2
<1>10. ASSUME NEW z \in Items, NEW y \in ahead'[z], NEW w \in ahead'[y]
       PROVE  w \in ahead'[z]
  <2>1. y \in Items /\ w \in Items /\ y # z /\ w # y
    BY <1>3, <1>7 DEF At
  <2>2. CASE z = x
    <3>1. y \in before /\ y # x
      BY <1>3, <1>5, <2>2
    <3>2. w # x
      BY <1>3, <2>1, <3>1
    <3>3. w \in ahead[y]
      BY <1>4, <2>1, <3>1, <3>2
    <3>4. QED BY <1>1, <1>3, <2>2, <3>1, <3>2, <3>3
  <2>3. CASE y = x
    <3>1. z # x /\ z \in At(e) \ before /\ w \in before /\ w # x
      BY <1>3, <1>5, <2>1, <2>3
    <3>2. z \notin ahead[w]
      BY <1>1, <3>1
    <3>3. w \in ahead[z]
      BY <1>5, <1>6, <3>1, <3>2 DEF At
    <3>4. QED BY <1>3, <3>1, <3>3
  <2>4. CASE z # x /\ y # x /\ w # x
    BY <1>4, <1>6, <2>1, <2>4
  <2>5. CASE z # x /\ y # x /\ w = x
    <3>1. y \in At(e) \ before /\ y \in ahead[z]
      BY <1>3, <1>4, <2>1, <2>5
    <3>2. at[z] = e /\ z \notin before
      BY <1>1, <1>6, <2>1, <2>5, <3>1 DEF At
    <3>3. QED BY <1>3, <2>5, <3>2 DEF At
  <2>6. QED BY <2>2, <2>3, <2>4, <2>5
<1>11. Ordered'
  BY <1>7, <1>8, <1>9, <1>10 DEF Ordered, Present, At
<1>12. QED BY <1>2, <1>3, <1>4, <1>11

LEMMA EditTouches ==
    ASSUME TypeOK, NEW x \in Items, NetBoxEdit(x)
    PROVE  /\ Touch(x, TRUE) \/ Touch(x, FALSE)
           /\ at' \in [Items -> 0..Endpoints]
           /\ ahead' \in [Items -> SUBSET Items]
           /\ Ordered'
           /\ stamp' \in [Items -> 0..now]
<1> DEFINE Goal == /\ Touch(x, TRUE) \/ Touch(x, FALSE)
                   /\ at' \in [Items -> 0..Endpoints]
                   /\ ahead' \in [Items -> SUBSET Items]
                   /\ Ordered'
                   /\ stamp' \in [Items -> 0..now]
<1>1. /\ at \in [Items -> 0..Endpoints] /\ ahead \in [Items -> SUBSET Items]
      /\ stamp \in [Items -> 0..now] /\ now \in Nat /\ MaxBehind \in Nat
      /\ \A y \in Items : ahead[y] \subseteq Items \ {y}
  BY NetBoxListingAssumption DEF TypeOK, Ordered, At
<1>2. ASSUME Stamped(x)
      PROVE  /\ stamp' \in [Items -> 0..now]
             /\ \A y \in Items \ {x} : stamp'[y] = stamp[y]
             /\ \E behind \in 0..MaxBehind :
                    behind < now /\ stamp'[x] = now - behind
  <2>1. PICK behind \in 0..MaxBehind :
          behind < now /\ stamp' = [stamp EXCEPT ![x] = now - behind]
    BY <1>2 DEF Stamped
  <2>2. now - behind \in 0..now
    BY <1>1, <2>1, SMT
  <2>3. QED BY <1>1, <2>1, <2>2
<1>3. ASSUME Ordered', ahead' \in [Items -> SUBSET Items]
      PROVE  ahead[x] \cup ahead'[x] \subseteq Items \ {x}
  BY <1>1, <1>3 DEF Ordered, At
<1>4. CASE Insert(x)
  <2>1. PICK e \in 1..Endpoints : PutInto(e, x)
    BY <1>4 DEF Insert
  <2>2. /\ Edit(x) /\ Stamped(x) /\ Recorded(x, TRUE) /\ x \notin Present
    BY <1>4 DEF Insert
  <2>3. /\ at' \in [Items -> 0..Endpoints]
        /\ ahead' \in [Items -> SUBSET Items]
        /\ Ordered'
        /\ \A y \in Items \ {x} : /\ at'[y] = at[y]
                                  /\ ahead'[y] \ {x} = ahead[y] \ {x}
    BY <2>1, <2>2, PutIntoFacts
  <2>4. Touch(x, TRUE)
    BY <1>2, <1>3, <2>2, <2>3 DEF Touch
  <2>5. QED BY <1>2, <2>2, <2>3, <2>4
<1>5. CASE Rename(x)
  <2>1. /\ Edit(x) /\ Stamped(x) /\ Recorded(x, TRUE) /\ x \in Present
        /\ PutInto(at[x], x)
    BY <1>5 DEF Rename
  <2>2. at[x] \in 1..Endpoints
    BY <1>1, <2>1, SMT DEF Present
  <2>3. /\ at' \in [Items -> 0..Endpoints]
        /\ ahead' \in [Items -> SUBSET Items]
        /\ Ordered'
        /\ at'[x] = at[x]
        /\ \A y \in Items \ {x} : /\ at'[y] = at[y]
                                  /\ ahead'[y] \ {x} = ahead[y] \ {x}
    BY <2>1, <2>2, PutIntoFacts
  <2>4. Touch(x, TRUE)
    BY <1>2, <1>3, <2>1, <2>3 DEF Touch
  <2>5. QED BY <1>2, <2>1, <2>3, <2>4
<1>6. CASE Modify(x)
  <2>1. /\ Edit(x) /\ Stamped(x) /\ Recorded(x, FALSE)
        /\ at' = at /\ ahead' = ahead
    BY <1>6 DEF Modify
  <2>2. Ordered'
    BY <2>1 DEF TypeOK, Ordered, At, Present
  <2>3. Touch(x, FALSE)
    BY <1>1, <1>2, <2>1 DEF Touch
  <2>4. QED BY <1>1, <1>2, <2>1, <2>2, <2>3
<1>7. CASE Delete(x)
  <2>1. /\ Edit(x) /\ Recorded(x, TRUE) /\ stamp' = stamp
        /\ at' = [at EXCEPT ![x] = 0]
        /\ ahead' = [y \in Items |-> IF y = x THEN {} ELSE ahead[y] \ {x}]
    BY <1>7 DEF Delete
  <2>2. /\ at' \in [Items -> 0..Endpoints] /\ at'[x] = 0
        /\ \A y \in Items \ {x} : at'[y] = at[y]
    BY <1>1, <2>1, NetBoxListingAssumption, SMT
  <2>3. /\ ahead' \in [Items -> SUBSET Items] /\ ahead'[x] = {}
        /\ \A y \in Items \ {x} : ahead'[y] = ahead[y] \ {x}
    BY <1>1, <2>1
  <2>4. Ordered'
    <3>1. \A y \in Items : ahead'[y] \subseteq At(at[y])' \ {y}
      <4> SUFFICES ASSUME NEW y \in Items, NEW z \in ahead'[y]
                   PROVE  z \in Items /\ at'[z] = at'[y] /\ z # y
        BY <2>3 DEF At
      <4>1. y # x /\ z # x /\ z \in ahead[y]
        BY <2>3
      <4>2. z \in Items /\ at[z] = at[y] /\ z # y
        BY <4>1 DEF TypeOK, Ordered, At
      <4>3. QED BY <2>2, <4>1, <4>2
    <3>2. \A y \in Items : at'[y] = 0 => ahead'[y] = {}
      BY <2>2, <2>3 DEF TypeOK, Ordered, Present
    <3>3. \A y, z \in Items : at'[y] # 0 /\ at'[z] # 0 /\ y # z /\ at'[y] = at'[z]
             => (y \in ahead'[z] <=> z \notin ahead'[y])
      <4> SUFFICES ASSUME NEW y \in Items, NEW z \in Items, at'[y] # 0,
                          at'[z] # 0, y # z, at'[y] = at'[z]
                   PROVE  y \in ahead'[z] <=> z \notin ahead'[y]
        OBVIOUS
      <4>1. y # x /\ z # x
        BY <2>2
      <4>2. y \in Present /\ z \in Present /\ at[y] = at[z]
        BY <2>2, <4>1 DEF Present
      <4>3. y \in ahead[z] <=> z \notin ahead[y]
        BY <4>2 DEF TypeOK, Ordered
      <4>4. QED BY <2>3, <4>1, <4>3
    <3>4. \A y \in Items : \A z \in ahead'[y] : ahead'[z] \subseteq ahead'[y]
      <4> SUFFICES ASSUME NEW y \in Items, NEW z \in ahead'[y], NEW w \in ahead'[z]
                   PROVE  w \in ahead'[y]
        OBVIOUS
      <4>1. y # x /\ z # x /\ z \in ahead[y] /\ z \in Items
        BY <2>3
      <4>2. w # x /\ w \in ahead[z]
        BY <2>3, <4>1
      <4>3. w \in ahead[y]
        BY <4>1, <4>2 DEF TypeOK, Ordered
      <4>4. QED BY <2>3, <4>1, <4>2, <4>3
    <3>5. QED BY <3>1, <3>2, <3>3, <3>4 DEF Ordered, Present
  <2>5. Touch(x, TRUE)
    BY <1>3, <2>1, <2>2, <2>3, <2>4 DEF Touch, Present
  <2>6. QED BY <1>1, <2>1, <2>2, <2>3, <2>4, <2>5
<1>8. QED BY <1>4, <1>5, <1>6, <1>7 DEF NetBoxEdit

LEMMA TouchFacts ==
    ASSUME TypeOK, NEW x \in Items, NEW moved \in BOOLEAN, Touch(x, moved)
    PROVE  /\ \A y \in Items \ {x} :
                  /\ y \in Present' <=> y \in Present
                  /\ y \in Matching' <=> y \in Matching
                  /\ Before(y)' \ {x} = Before(y) \ {x}
           /\ ~moved => Before(x)' = Before(x)
<1>1. /\ since' = since
      /\ \A y \in Items \ {x} : /\ at'[y] = at[y] /\ stamp'[y] = stamp[y]
                                /\ ahead'[y] \ {x} = ahead[y] \ {x}
      /\ ahead[x] \subseteq Items \ {x} /\ ahead'[x] \subseteq Items \ {x}
      /\ ~moved => ahead' = ahead
  BY DEF Touch, Edit
<1>2. \A y \in Items \ {x} : /\ y \in Present' <=> y \in Present
                             /\ y \in Matching' <=> y \in Matching
  BY <1>1 DEF Present, Matching, Asked
<1>3. Matching' \subseteq Items /\ Matching \subseteq Items
  BY DEF Matching, Present
<1>4. ASSUME NEW y \in Items \ {x} PROVE Before(y)' \ {x} = Before(y) \ {x}
  <2>1. /\ ahead'[y] \ {x} = ahead[y] \ {x}
        /\ Matching' \ {x} = Matching \ {x}
    BY <1>1, <1>2, <1>3
  <2>2. (ahead'[y] \cap Matching') \ {x} = (ahead[y] \cap Matching) \ {x}
    BY <2>1, Zenon
  <2>3. QED BY <2>2 DEF Before
<1>5. ASSUME ~moved PROVE Before(x)' = Before(x)
  <2>1. /\ ahead'[x] = ahead[x] /\ ahead[x] \subseteq Items \ {x}
        /\ Matching' \ {x} = Matching \ {x}
    BY <1>1, <1>2, <1>3, <1>5
  <2>2. ahead'[x] \cap Matching' = ahead[x] \cap Matching
    BY <2>1, Zenon
  <2>3. QED BY <2>2 DEF Before
<1>6. \A y \in Items \ {x} : Before(y)' \ {x} = Before(y) \ {x}
  BY <1>4 DEF Before
<1>7. QED BY <1>2, <1>5, <1>6 DEF Before

-----------------------------------------------------------------------------
(***************************************************************************)
(* Between two fetches nothing of the last one is left.                    *)
(***************************************************************************)
Quiet ==
    ~Running =>
        /\ offset = 0 /\ page = 0 /\ got = {} /\ repeats = 0 /\ fresh = {}
        /\ truncated = FALSE /\ steady = {} /\ ever = {}
        /\ slips = 0 /\ inserts = 0 /\ beyond = 0

LEMMA InitTypes == Init => TypeOK /\ Quiet
<1> SUFFICES ASSUME Init PROVE TypeOK /\ Quiet
  OBVIOUS
<1>1. /\ now \in Nat /\ stamp \in [Items -> 0..now] /\ edits \in 0..MaxEdits
      /\ cursor \in 0..now /\ cursor = 0 * Second
      /\ endpoint \in 0..Endpoints /\ page \in 0..(MaxPages - 1)
      /\ since \in 0..cursor /\ start \in 0..now /\ offset = page * PageSize
      /\ slips \in 0..edits /\ inserts \in 0..edits
  BY NetBoxListingAssumption, SMT DEF Init
<1>2. Quiet
  BY DEF Init, Quiet
<1>3. /\ seen \subseteq Present /\ got \subseteq Items /\ repeats \in Nat
      /\ fresh \subseteq got \cap Present /\ truncated \in BOOLEAN
      /\ steady \subseteq Matching /\ ~Running /\ ever \subseteq Items
      /\ beyond \in Nat /\ (truncated <=> beyond > 0) /\ slack \in Nat
  <2>1. /\ seen = {} /\ got = {} /\ repeats = 0 /\ fresh = {} /\ truncated = FALSE
        /\ steady = {} /\ ever = {} /\ beyond = 0 /\ slack = 0 /\ endpoint = 0
    BY DEF Init
  <2>2. truncated <=> beyond > 0
    BY <2>1, SMT
  <2>3. QED BY <2>1, <2>2 DEF Running
<1>4. result \in [truncated : BOOLEAN, items : SUBSET Items]
  BY DEF Init, Nothing
<1>5. \E k \in 0..cursor : cursor = k * Second
  BY <1>1 DEF Init
<1>6. at \in [Items -> 0..Endpoints] /\ ahead \in [Items -> SUBSET Items] /\ Ordered
  BY DEF Init
<1>7. QED BY <1>1, <1>2, <1>3, <1>4, <1>5, <1>6 DEF TypeOK

LEMMA EditTypes ==
    ASSUME TypeOK, Quiet, NEW x \in Items, NEW moved \in BOOLEAN, Touch(x, moved),
           at' \in [Items -> 0..Endpoints], ahead' \in [Items -> SUBSET Items],
           Ordered', stamp' \in [Items -> 0..now]
    PROVE  TypeOK' /\ Quiet'
<1>1. Edit(x) /\ Recorded(x, moved)
  BY DEF Touch
<1>2. \A y \in Items \ {x} : /\ y \in Present' <=> y \in Present
                             /\ y \in Matching' <=> y \in Matching
  BY TouchFacts
<1>3. /\ Matching \subseteq Present /\ Present \subseteq Items
      /\ Matching' \subseteq Items
  BY DEF Matching, Present
<1>4. seen' \subseteq Present' /\ fresh' \subseteq got' \cap Present'
  BY <1>1, <1>2, <1>3 DEF TypeOK, Edit
<1>5. /\ edits' \in 0..MaxEdits /\ edits' = edits + 1
      /\ slips' \in 0..edits' /\ inserts' \in 0..edits'
  <2>1. edits \in 0..MaxEdits /\ slips \in 0..edits /\ inserts \in 0..edits
    BY DEF TypeOK
  <2>2. edits < MaxEdits /\ edits' = edits + 1
    BY <1>1 DEF Edit
  <2>3. /\ slips' = slips \/ slips' = slips + 1
        /\ inserts' = inserts \/ inserts' = inserts + 1
    BY <1>1 DEF Recorded
  <2>4. QED BY <2>1, <2>2, <2>3, NetBoxListingAssumption, SMT
<1>6. /\ steady' \subseteq Matching' /\ (Running' => steady' \subseteq ever')
      /\ ever' \subseteq Items
  BY <1>1, <1>3 DEF TypeOK, Edit, Recorded, Running
<1>7. /\ now' = now /\ cursor' = cursor /\ endpoint' = endpoint
      /\ since' = since /\ start' = start /\ offset' = offset /\ page' = page
      /\ got' = got /\ repeats' = repeats /\ truncated' = truncated
      /\ result' = result /\ slack' = slack /\ beyond' = beyond
  BY <1>1 DEF Edit, Recorded, pastVars
<1>8. Quiet'
  BY <1>1, <1>7 DEF Quiet, Running, Edit, Recorded
<1>9. QED BY <1>4, <1>5, <1>6, <1>7, <1>8 DEF TypeOK

LEMMA BeginTypes ==
    ASSUME TypeOK, Quiet, NEW s \in {0, cursor}, Begin(s)
    PROVE  TypeOK' /\ Quiet'
<1>1. /\ at' = at /\ ahead' = ahead /\ stamp' = stamp /\ now' = now
      /\ edits' = edits /\ cursor' = cursor /\ seen' = seen
      /\ endpoint' = 1 /\ since' = s /\ start' = now /\ offset' = offset
      /\ page' = page /\ got' = got /\ repeats' = repeats /\ fresh' = fresh
      /\ truncated' = truncated /\ slips' = slips /\ inserts' = inserts
      /\ beyond' = beyond /\ slack' = slack
      /\ steady' = Matching' /\ ever' = Matching' /\ result' = Nothing
  BY DEF Begin, netboxVars, engineVars
<1>2. /\ s \in 0..cursor /\ now \in 0..now /\ 1 \in 0..Endpoints
  BY NetBoxListingAssumption, SMT DEF TypeOK
<1>3. Ordered' /\ Present' = Present
  BY <1>1 DEF TypeOK, Ordered, At, Present
<1>4. Matching' \subseteq Items
  BY DEF Matching, Present
<1>5. result' \in [truncated : BOOLEAN, items : SUBSET Items]
  BY <1>1 DEF Nothing
<1>6. Running'
  BY <1>1 DEF Running
<1>7. /\ at \in [Items -> 0..Endpoints] /\ ahead \in [Items -> SUBSET Items]
      /\ now \in Nat /\ stamp \in [Items -> 0..now] /\ edits \in 0..MaxEdits
      /\ cursor \in 0..now /\ \E k \in 0..cursor : cursor = k * Second
      /\ seen \subseteq Present /\ page \in 0..(MaxPages - 1)
      /\ offset = page * PageSize /\ got \subseteq Items /\ repeats \in Nat
      /\ fresh \subseteq got \cap Present /\ truncated \in BOOLEAN
      /\ slips \in 0..edits /\ inserts \in 0..edits
      /\ beyond \in Nat /\ (truncated <=> beyond > 0) /\ slack \in Nat
  BY DEF TypeOK
<1>8. TypeOK'
  BY <1>1, <1>2, <1>3, <1>4, <1>5, <1>7 DEF TypeOK
<1>9. QED BY <1>6, <1>8 DEF Quiet

LEMMA PageItems ==
    /\ Page \subseteq Matching /\ Unread \subseteq Matching
    /\ Matching \subseteq Present /\ Present \subseteq Items
    /\ Cardinality(Unread) \in Nat
    /\ Unread = {} => Cardinality(Unread) = 0
    /\ Unread # {} => Cardinality(Unread) > 0
<1>1. /\ Page \subseteq Matching /\ Unread \subseteq Matching
      /\ Matching \subseteq Present /\ Present \subseteq Items
  BY DEF Page, Unread, Listing, Matching, Present
<1>2. Unread \in SUBSET Items /\ {} \in SUBSET Unread
  BY <1>1
<1>3. /\ Cardinality(Unread) \in Nat
      /\ Unread # {} => Cardinality({}) < Cardinality(Unread)
  BY <1>2, CardSubset
<1>4. Cardinality({}) = 0
  BY FS_EmptySet
<1>5. QED BY <1>1, <1>3, <1>4

LEMMA NextPageTypes ==
    ASSUME TypeOK, Quiet, NextPage
    PROVE  TypeOK' /\ Quiet'
<1>1. /\ at' = at /\ ahead' = ahead /\ stamp' = stamp /\ now' = now
      /\ edits' = edits /\ cursor' = cursor /\ seen' = seen
      /\ endpoint' = endpoint /\ since' = since /\ start' = start
      /\ offset' = offset + PageSize /\ page' = page + 1 /\ page + 1 # MaxPages
      /\ got' = got \cup Page /\ repeats' = repeats + Cardinality(got \cap Page)
      /\ fresh' = fresh \cup Page /\ truncated' = truncated
      /\ steady' = steady /\ ever' = ever
      /\ slips' = slips /\ inserts' = inserts /\ beyond' = beyond
      /\ result' = result /\ slack' = slack /\ Running
  BY DEF NextPage, Read, EndOfListing, NextOffset, netboxVars, engineVars,
         historyVars, pastVars
<1>2. Ordered' /\ Present' = Present /\ Matching' = Matching
  BY <1>1 DEF TypeOK, Ordered, At, Present, Matching
<1>3. page' \in 0..(MaxPages - 1) /\ offset' = page' * PageSize
  BY <1>1, NetBoxListingAssumption, SMT DEF TypeOK
<1>4. repeats' \in Nat
  <2>1. got \cap Page \in SUBSET Items /\ {} \in SUBSET (got \cap Page)
    BY DEF TypeOK
  <2>2. Cardinality(got \cap Page) \in Nat
    BY <2>1, CardSubset
  <2>3. repeats \in Nat
    BY DEF TypeOK
  <2>4. QED BY <1>1, <2>2, <2>3
<1>5. got' \subseteq Items /\ fresh' \subseteq got' \cap Present'
  BY <1>1, <1>2, PageItems DEF TypeOK
<1>6. Running' /\ steady' \subseteq Matching' /\ steady' \subseteq ever'
  BY <1>1, <1>2 DEF TypeOK, Running
<1>7. QED BY <1>1, <1>2, <1>3, <1>4, <1>5, <1>6 DEF TypeOK, Quiet

LEMMA NextEndpointTypes ==
    ASSUME TypeOK, Quiet, NextEndpoint
    PROVE  TypeOK' /\ Quiet'
<1>1. /\ at' = at /\ ahead' = ahead /\ stamp' = stamp /\ now' = now
      /\ edits' = edits /\ cursor' = cursor /\ seen' = seen
      /\ endpoint < Endpoints /\ endpoint' = endpoint + 1
      /\ since' = since /\ start' = start /\ offset' = 0 /\ page' = 0
      /\ got' = got \cup Page /\ repeats' = repeats + Cardinality(got \cap Page)
      /\ fresh' = fresh \cup Page /\ truncated' = (truncated \/ Truncates)
      /\ steady' = steady /\ ever' = ever /\ slips' = slips /\ inserts' = inserts
      /\ beyond' = beyond + Cardinality(Unread)
      /\ result' = result /\ slack' = slack /\ Running /\ EndOfListing
  BY DEF NextEndpoint, Read, netboxVars, engineVars, pastVars
<1>2. Ordered' /\ Present' = Present /\ Matching' = Matching
  BY <1>1 DEF TypeOK, Ordered, At, Present, Matching
<1>3. /\ page' \in 0..(MaxPages - 1) /\ offset' = page' * PageSize
      /\ endpoint' \in 0..Endpoints
  BY <1>1, NetBoxListingAssumption, SMT DEF TypeOK
<1>4. repeats' \in Nat
  <2>1. got \cap Page \in SUBSET Items /\ {} \in SUBSET (got \cap Page)
    BY DEF TypeOK
  <2>2. Cardinality(got \cap Page) \in Nat
    BY <2>1, CardSubset
  <2>3. repeats \in Nat
    BY DEF TypeOK
  <2>4. QED BY <1>1, <2>2, <2>3
<1>5. got' \subseteq Items /\ fresh' \subseteq got' \cap Present'
  BY <1>1, <1>2, PageItems DEF TypeOK
<1>6. Running' /\ steady' \subseteq Matching' /\ steady' \subseteq ever'
  <2>1. endpoint \in Nat
    BY NetBoxListingAssumption, SMT DEF TypeOK
  <2>2. endpoint' # 0
    BY <1>1, <2>1, SMT
  <2>3. QED BY <1>1, <1>2, <2>2 DEF TypeOK, Running
<1>7. /\ truncated' \in BOOLEAN /\ beyond' \in Nat
      /\ truncated' <=> beyond' > 0
  <2>1. Truncates <=> Unread # {}
    BY <1>1 DEF EndOfListing, Truncates, HasNext
  <2>2. /\ Cardinality(Unread) \in Nat
        /\ Truncates <=> Cardinality(Unread) > 0
    BY <2>1, PageItems, SMT
  <2>3. beyond \in Nat /\ (truncated <=> beyond > 0)
    BY DEF TypeOK
  <2>4. beyond' \in Nat /\ (beyond' > 0 <=> beyond > 0 \/ Cardinality(Unread) > 0)
    BY <1>1, <2>2, <2>3
  <2>5. QED BY <1>1, <2>2, <2>3, <2>4
<1>8. QED BY <1>1, <1>2, <1>3, <1>4, <1>5, <1>6, <1>7 DEF TypeOK, Quiet

LEMMA ResetTypes ==
    ASSUME TypeOK, ResetFetch, UNCHANGED netboxVars,
           seen' \subseteq Present, cursor' \in 0..now,
           \E k \in 0..cursor' : cursor' = k * Second,
           result' \in [truncated : BOOLEAN, items : SUBSET Items], slack' \in Nat
    PROVE  TypeOK' /\ Quiet'
<1>1. /\ at' = at /\ ahead' = ahead /\ stamp' = stamp /\ now' = now
      /\ edits' = edits
  BY DEF netboxVars
<1>2. Ordered' /\ Present' = Present
  BY <1>1 DEF TypeOK, Ordered, At, Present
<1>3. /\ endpoint' = 0 /\ since' = 0 /\ start' = 0 /\ offset' = 0 /\ page' = 0
      /\ got' = {} /\ repeats' = 0 /\ fresh' = {} /\ truncated' = FALSE
      /\ steady' = {} /\ ever' = {} /\ slips' = 0 /\ inserts' = 0 /\ beyond' = 0
  BY DEF ResetFetch
<1>4. /\ at \in [Items -> 0..Endpoints] /\ ahead \in [Items -> SUBSET Items]
      /\ now \in Nat /\ stamp \in [Items -> 0..now] /\ edits \in 0..MaxEdits
  BY DEF TypeOK
<1>5. /\ 0 \in 0..edits /\ 0 \in 0..now /\ 0 \in 0..cursor' /\ 0 \in 0..Endpoints
      /\ 0 \in 0..(MaxPages - 1) /\ 0 = 0 * PageSize
  BY <1>4, NetBoxListingAssumption, SMT
<1>6. /\ {} \subseteq Items /\ {} \subseteq Matching'
      /\ {} \subseteq {} \cap Present' /\ (FALSE <=> 0 > 0)
  BY SMT
<1>7. TypeOK'
  BY <1>1, <1>2, <1>3, <1>4, <1>5, <1>6 DEF TypeOK
<1>8. QED BY <1>3, <1>7 DEF Quiet

LEMMA FinishTypes ==
    ASSUME TypeOK, Quiet, Finish
    PROVE  TypeOK' /\ Quiet'
<1>1. /\ ResetFetch /\ UNCHANGED netboxVars
      /\ result' = [truncated |-> truncated \/ Truncates, items |-> got \cup Page]
      /\ seen' = seen \cup fresh \cup Page
  BY DEF Finish
<1>2. seen' \subseteq Present
  BY <1>1, PageItems DEF TypeOK
<1>3. result' \in [truncated : BOOLEAN, items : SUBSET Items]
  <2>1. (truncated \/ Truncates) \in BOOLEAN /\ got \cup Page \in SUBSET Items
    BY PageItems DEF TypeOK
  <2>2. QED BY <1>1, <2>1
<1>4. CASE UNCHANGED <<cursor, slack>>
  BY <1>1, <1>2, <1>3, <1>4, ResetTypes DEF TypeOK
<1>5. CASE /\ cursor' = NowCursor
           /\ slack' = (IF since = 0 THEN 0 ELSE slack)
                          + slips + beyond + Cardinality(Unread)
  <2>1. /\ start \in 0..now /\ now \in Nat /\ Second \in Nat \ {0}
        /\ slack \in Nat /\ slips \in Nat /\ beyond \in Nat
    BY NetBoxListingAssumption, SMT DEF TypeOK
  <2>2. slack' \in Nat
    BY <1>5, <2>1, PageItems, SMT
  <2>3. /\ start \div Second \in Nat /\ NowCursor \in 0..start
        /\ start \div Second <= NowCursor
    BY <2>1, NowCursorBound
  <2>4. cursor' \in 0..now /\ \E k \in 0..cursor' : cursor' = k * Second
    <3>1. cursor' \in 0..now /\ start \div Second \in 0..cursor'
      BY <1>5, <2>1, <2>3, SMT
    <3>2. cursor' = (start \div Second) * Second
      BY <1>5 DEF NowCursor
    <3>3. QED BY <3>1, <3>2
  <2>5. QED BY <1>1, <1>2, <1>3, <2>2, <2>4, ResetTypes
<1>6. QED BY <1>4, <1>5 DEF Finish

LEMMA StepTypes == TypeOK /\ Quiet /\ [Next]_vars => TypeOK' /\ Quiet'
<1> SUFFICES ASSUME TypeOK, Quiet, [Next]_vars PROVE TypeOK' /\ Quiet'
  OBVIOUS
<1>1. CASE Tick
  <2>1. /\ now' = now + 1 /\ at' = at /\ ahead' = ahead /\ stamp' = stamp
        /\ edits' = edits /\ UNCHANGED engineVars /\ UNCHANGED fetchVars
        /\ UNCHANGED historyVars /\ UNCHANGED pastVars
    BY <1>1 DEF Tick
  <2>2. /\ now' \in Nat /\ stamp' \in [Items -> 0..now'] /\ cursor \in 0..now'
        /\ start \in 0..now'
    BY <2>1, SMT DEF TypeOK
  <2>3. /\ cursor' = cursor /\ seen' = seen /\ endpoint' = endpoint
        /\ since' = since /\ start' = start /\ offset' = offset /\ page' = page
        /\ got' = got /\ repeats' = repeats /\ fresh' = fresh
        /\ truncated' = truncated /\ steady' = steady /\ ever' = ever
        /\ slips' = slips /\ inserts' = inserts /\ beyond' = beyond
        /\ result' = result /\ slack' = slack
    BY <2>1 DEF engineVars, fetchVars, historyVars, pastVars
  <2>4. Ordered' /\ Present' = Present /\ Matching' = Matching
    BY <2>1, <2>3 DEF TypeOK, Ordered, At, Present, Matching
  <2>5. QED BY <2>1, <2>2, <2>3, <2>4 DEF TypeOK, Quiet, Running
<1>2. ASSUME NEW x \in Items, NetBoxEdit(x) PROVE TypeOK' /\ Quiet'
  <2>1. /\ at' \in [Items -> 0..Endpoints] /\ ahead' \in [Items -> SUBSET Items]
        /\ Ordered' /\ stamp' \in [Items -> 0..now]
    BY <1>2, EditTouches
  <2>2. PICK moved \in BOOLEAN : Touch(x, moved)
    BY <1>2, EditTouches
  <2>3. QED BY <2>1, <2>2, EditTypes
<1>3. ASSUME NEW s \in {0, cursor}, Begin(s) PROVE TypeOK' /\ Quiet'
  BY <1>3, BeginTypes
<1>4. CASE NextPage
  BY <1>4, NextPageTypes
<1>5. CASE NextEndpoint
  BY <1>5, NextEndpointTypes
<1>6. CASE Finish
  BY <1>6, FinishTypes
<1>7. CASE Fail
  <2>1. /\ ResetFetch /\ UNCHANGED netboxVars /\ cursor' = cursor /\ seen' = seen
        /\ result' = result /\ slack' = slack
    BY <1>7 DEF Fail, engineVars, pastVars
  <2>2. QED BY <2>1, ResetTypes DEF TypeOK
<1>8. CASE UNCHANGED vars
  <2>1. /\ at' = at /\ ahead' = ahead /\ stamp' = stamp /\ now' = now
        /\ edits' = edits /\ cursor' = cursor /\ seen' = seen
        /\ endpoint' = endpoint
        /\ since' = since /\ start' = start /\ offset' = offset /\ page' = page
        /\ got' = got /\ repeats' = repeats /\ fresh' = fresh
        /\ truncated' = truncated /\ steady' = steady /\ ever' = ever
        /\ slips' = slips /\ inserts' = inserts /\ beyond' = beyond
        /\ result' = result /\ slack' = slack
    BY <1>8 DEF vars, netboxVars, engineVars, fetchVars, historyVars, pastVars
  <2>2. Ordered' /\ Present' = Present /\ Matching' = Matching
    BY <2>1 DEF TypeOK, Ordered, At, Present, Matching
  <2>3. QED BY <2>1, <2>2 DEF TypeOK, Quiet, Running
<1>9. QED
  BY <1>1, <1>2, <1>3, <1>4, <1>5, <1>6, <1>7, <1>8 DEF Next, NetBoxEdit

(***************************************************************************)
(* TypeOK holds always: among it that a fetch is marked as truncated       *)
(* exactly when items lay beyond the page limit, and that the cursor is a  *)
(* whole second of the past (client.go, listAll, nowCursor).               *)
(***************************************************************************)
THEOREM TypeCorrect == Spec => []TypeOK
<1>1. Init => TypeOK /\ Quiet
  BY InitTypes
<1>2. (TypeOK /\ Quiet) /\ [Next]_vars => (TypeOK /\ Quiet)'
  BY StepTypes
<1>3. QED BY <1>1, <1>2, PTL DEF Spec

-----------------------------------------------------------------------------
(***************************************************************************)
(* A fetch is past an item when no later page can hold it if nothing moves.*)
(* Missed has what it will leave out, Again what it will read twice.       *)
(***************************************************************************)
Passed(x) ==
    \/ at[x] < endpoint
    \/ at[x] = endpoint /\ Place(x) < offset

Missed == {x \in steady \ got : Passed(x)}

Again == {x \in got \cap Matching : ~Passed(x)}

Explained ==
    Running =>
        /\ Matching \subseteq ever /\ got \subseteq ever
        /\ Cardinality(Missed) <= slips + beyond
        /\ repeats + Cardinality(Again) <= inserts

(***************************************************************************)
(* What was last edited before the fetch began has not changed since then. *)
(***************************************************************************)
Undisturbed ==
    Running =>
        \A x \in Present : stamp[x] < start =>
            /\ x \in got => x \in fresh
            /\ Asked(stamp[x], since) => x \in steady

-----------------------------------------------------------------------------
(***************************************************************************)
(* An edit shifts each other item by one place at most, and only with the  *)
(* edited one coming or going before it.                                   *)
(***************************************************************************)
LEMMA Shift ==
    ASSUME TypeOK, TypeOK', NEW x \in Items, NEW moved \in BOOLEAN,
           Touch(x, moved), NEW y \in Items \ {x}
    PROVE  /\ Place(y) \in Nat /\ Place(y)' \in Nat
           /\ Place(y)' < Place(y) =>
                 /\ Place(y) = Place(y)' + 1
                 /\ x \in ahead[y] /\ x \in Matching
                 /\ moved \/ x \notin Matching'
           /\ Place(y) < Place(y)' =>
                 /\ Place(y)' = Place(y) + 1
                 /\ x \in ahead'[y] /\ x \in Matching'
                 /\ moved \/ x \notin Matching
<1> DEFINE B == Before(y)
           C == Before(y)'
<1>1. /\ B \in SUBSET Items /\ C \in SUBSET Items
      /\ Place(y) = Cardinality(B) /\ Place(y)' = Cardinality(C)
      /\ Place(y) \in Nat /\ Place(y)' \in Nat
  BY PlaceType, PlaceTypeNext
<1>2. C \ {x} = B \ {x}
  BY TouchFacts
<1>3. /\ x \in B <=> x \in ahead[y] /\ x \in Matching
      /\ x \in C <=> x \in ahead'[y] /\ x \in Matching'
      /\ ~moved => ahead' = ahead
  BY DEF Before, Touch
<1> HIDE DEF B, C
<1>4. ASSUME Cardinality(C) < Cardinality(B)
      PROVE  Cardinality(B) = Cardinality(C) + 1 /\ x \in B /\ x \notin C
  <2>1. ~(B \subseteq C)
    BY <1>1, <1>4, CardSubset, SMT
  <2>2. x \in B /\ x \notin C /\ \A u, v \in B \ C : u = v
    BY <1>2, <2>1
  <2>3. Cardinality(B) <= Cardinality(C) + 1
    BY <1>1, <2>2, CardAddOne
  <2>4. QED BY <1>1, <1>4, <2>2, <2>3, SMT
<1>5. ASSUME Cardinality(B) < Cardinality(C)
      PROVE  Cardinality(C) = Cardinality(B) + 1 /\ x \in C /\ x \notin B
  <2>1. ~(C \subseteq B)
    BY <1>1, <1>5, CardSubset, SMT
  <2>2. x \in C /\ x \notin B /\ \A u, v \in C \ B : u = v
    BY <1>2, <2>1
  <2>3. Cardinality(C) <= Cardinality(B) + 1
    BY <1>1, <2>2, CardAddOne
  <2>4. QED BY <1>1, <1>5, <2>2, <2>3, SMT
<1>6. QED BY <1>1, <1>3, <1>4, <1>5

LEMMA StandsStill ==
    ASSUME TypeOK, NEW x \in Items, NEW moved \in BOOLEAN, Touch(x, moved),
           x \in Matching, x \in Matching', ~moved
    PROVE  Passed(x)' <=> Passed(x)
<1>1. Before(x)' = Before(x) /\ at'[x] = at[x]
  BY TouchFacts DEF Touch
<1>2. Place(x)' = Place(x)
  BY <1>1 DEF Place, Before
<1>3. endpoint' = endpoint /\ offset' = offset
  BY DEF Touch, Edit
<1>4. QED BY <1>1, <1>2, <1>3 DEF Passed

(***************************************************************************)
(* Hence an edit takes one item at most from the pages to come, and brings *)
(* one item at most back to them.                                          *)
(***************************************************************************)
LEMMA EditMissesOne ==
    ASSUME TypeOK, TypeOK', NEW x \in Items, NEW moved \in BOOLEAN,
           Touch(x, moved), Running
    PROVE  /\ \A y, z \in Missed' \ Missed : y = z
           /\ Missed' \ Missed # {} =>
                 x \in Matching /\ (moved \/ x \notin Matching')
<1>1. /\ got' = got /\ endpoint' = endpoint /\ offset' = offset
      /\ steady' = steady \cap Matching'
      /\ \A y \in Items \ {x} : at'[y] = at[y]
      /\ x \in Present /\ x \in Present' => at'[x] = at[x]
  BY DEF Touch, Edit, Recorded
<1>2. /\ offset \in Nat /\ endpoint \in Nat
      /\ \A y \in Items : ahead[y] \subseteq At(at[y])
  BY NetBoxListingAssumption, SMT DEF TypeOK, Ordered
<1>3. /\ steady \subseteq Matching /\ Matching \subseteq Present
      /\ Matching' \subseteq Present' /\ Present \subseteq Items
      /\ Present' \subseteq Items
  BY DEF TypeOK, Matching, Present
<1>4. ASSUME NEW y \in Missed' \ Missed
      PROVE  /\ y \in Matching /\ y \in Matching' /\ y \in Items
             /\ Passed(y)' /\ ~Passed(y)
  BY <1>1, <1>3 DEF Missed
<1>5. ASSUME NEW y \in Missed' \ Missed, y # x
      PROVE  /\ x \in Matching /\ (moved \/ x \notin Matching')
             /\ Passed(x) /\ at[y] = endpoint /\ Place(y) = offset
  <2>1. y \in Items \ {x} /\ Passed(y)' /\ ~Passed(y)
    BY <1>4, <1>5
  <2>2. at'[y] = at[y] /\ Place(y) \in Nat /\ Place(y)' \in Nat
    BY <1>1, <2>1, Shift
  <2>3. at[y] = endpoint /\ Place(y)' < offset /\ ~(Place(y) < offset)
    BY <1>1, <2>1, <2>2 DEF Passed
  <2>4. /\ Place(y) = Place(y)' + 1 /\ x \in ahead[y] /\ x \in Matching
        /\ moved \/ x \notin Matching'
    BY <1>2, <2>1, <2>2, <2>3, Shift, SMT
  <2>5. Place(y) = offset
    BY <1>2, <2>2, <2>3, <2>4, SMT
  <2>6. at[x] = endpoint /\ Place(x) < Place(y)
    BY <1>2, <2>1, <2>3, <2>4, PlaceOrder DEF At
  <2>7. QED BY <2>3, <2>4, <2>5, <2>6 DEF Passed
<1>6. ASSUME x \in Missed' \ Missed
      PROVE  x \in Matching /\ (moved \/ x \notin Matching')
  BY <1>4, <1>6, StandsStill
<1>7. ASSUME NEW y \in Missed' \ Missed, NEW z \in Missed' \ Missed PROVE y = z
  <2>1. CASE y = x \/ z = x
    BY <1>4, <1>5, <2>1
  <2>2. CASE y # x /\ z # x
    BY <1>4, <1>5, <2>2, PlaceUnique
  <2>3. QED BY <2>1, <2>2
<1>8. QED BY <1>5, <1>6, <1>7

LEMMA EditRepeatsOne ==
    ASSUME TypeOK, TypeOK', NEW x \in Items, NEW moved \in BOOLEAN,
           Touch(x, moved), Running
    PROVE  /\ \A y, z \in Again' \ Again : y = z
           /\ Again' \ Again # {} =>
                 x \in Matching' /\ (moved \/ x \notin Matching)
<1>1. /\ got' = got /\ endpoint' = endpoint /\ offset' = offset
      /\ \A y \in Items \ {x} : at'[y] = at[y]
      /\ x \in Present /\ x \in Present' => at'[x] = at[x]
  BY DEF Touch, Edit
<1>2. /\ offset \in Nat /\ endpoint \in Nat
      /\ \A y \in Items : ahead'[y] \subseteq At(at[y])'
  BY NetBoxListingAssumption, SMT DEF TypeOK, Ordered
<1>3. /\ Matching \subseteq Present
      /\ Matching' \subseteq Present' /\ Present \subseteq Items
      /\ Present' \subseteq Items
  BY DEF TypeOK, Matching, Present
<1>4. ASSUME NEW y \in Again' \ Again
      PROVE  /\ y \in Matching' /\ y \in Items /\ ~Passed(y)'
             /\ y \notin Matching \/ Passed(y)
  BY <1>1, <1>3 DEF Again
<1>5. ASSUME NEW y \in Again' \ Again, y # x
      PROVE  /\ x \in Matching' /\ (moved \/ x \notin Matching)
             /\ Passed(x)' /\ at'[y] = endpoint /\ Place(y)' = offset
  <2>1. y \in Items \ {x} /\ ~Passed(y)' /\ Passed(y)
    BY <1>4, <1>5, TouchFacts
  <2>2. at'[y] = at[y] /\ Place(y) \in Nat /\ Place(y)' \in Nat
    BY <1>1, <2>1, Shift
  <2>3. at'[y] = endpoint /\ Place(y) < offset /\ ~(Place(y)' < offset)
    BY <1>1, <2>1, <2>2 DEF Passed
  <2>4. /\ Place(y)' = Place(y) + 1 /\ x \in ahead'[y] /\ x \in Matching'
        /\ moved \/ x \notin Matching
    BY <1>2, <2>1, <2>2, <2>3, Shift, SMT
  <2>5. Place(y)' = offset
    BY <1>2, <2>2, <2>3, <2>4, SMT
  <2>6. at'[x] = endpoint /\ Place(x)' < Place(y)'
    BY <1>2, <2>1, <2>3, <2>4, PlaceOrderNext DEF At
  <2>7. QED BY <1>1, <2>3, <2>4, <2>5, <2>6 DEF Passed
<1>6. ASSUME x \in Again' \ Again
      PROVE  x \in Matching' /\ (moved \/ x \notin Matching)
  BY <1>4, <1>6, StandsStill
<1>7. ASSUME NEW y \in Again' \ Again, NEW z \in Again' \ Again PROVE y = z
  <2>1. CASE y = x \/ z = x
    BY <1>4, <1>5, <2>1
  <2>2. CASE y # x /\ z # x
    BY <1>4, <1>5, <2>2, PlaceUniqueNext
  <2>3. QED BY <2>1, <2>2
<1>8. QED BY <1>5, <1>6, <1>7

-----------------------------------------------------------------------------
(***************************************************************************)
(* Explained is inductive.                                                 *)
(***************************************************************************)
LEMMA Numbers ==
    ASSUME TypeOK
    PROVE  /\ Missed \in SUBSET Items /\ Again \in SUBSET Items
           /\ Cardinality(Missed) \in Nat /\ Cardinality(Again) \in Nat
           /\ slips \in Nat /\ inserts \in Nat /\ beyond \in Nat
           /\ repeats \in Nat /\ offset \in Nat /\ endpoint \in Nat
<1>1. Missed \in SUBSET Items /\ Again \in SUBSET Items
  BY DEF TypeOK, Missed, Again, Matching, Present
<1>2. Cardinality(Missed) \in Nat /\ Cardinality(Again) \in Nat
  BY <1>1, CardSubset
<1>3. /\ edits \in Nat /\ slips \in Nat /\ inserts \in Nat /\ beyond \in Nat
      /\ repeats \in Nat /\ endpoint \in Nat
  BY NetBoxListingAssumption, SMT DEF TypeOK
<1>4. offset \in Nat
  <2>1. page \in Nat /\ PageSize \in Nat /\ offset = page * PageSize
    BY NetBoxListingAssumption, SMT DEF TypeOK
  <2>2. QED BY <2>1, SMT
<1>5. QED BY <1>1, <1>2, <1>3, <1>4

LEMMA MissedNext ==
    ASSUME TypeOK'
    PROVE  Missed' \in SUBSET Items /\ Again' \in SUBSET Items
<1>1. Matching' \in SUBSET Items /\ steady' \subseteq Matching' /\ got' \subseteq Items
  BY DEF TypeOK, Matching, Present
<1>2. QED BY <1>1 DEF Missed, Again

LEMMA EditExplained ==
    ASSUME TypeOK, TypeOK', Explained, NEW x \in Items, NEW moved \in BOOLEAN,
           Touch(x, moved)
    PROVE  Explained'
<1> SUFFICES ASSUME Running'
             PROVE  /\ Matching' \subseteq ever' /\ got' \subseteq ever'
                    /\ Cardinality(Missed') <= slips' + beyond'
                    /\ repeats' + Cardinality(Again') <= inserts'
  BY DEF Explained
<1>1. /\ got' = got /\ repeats' = repeats /\ beyond' = beyond /\ Running
      /\ ever' = ever \cup Matching'
      /\ slips' = IF x \in Matching /\ (moved \/ x \notin Matching')
                    THEN slips + 1 ELSE slips
      /\ inserts' = IF x \in Matching' /\ (moved \/ x \notin Matching)
                      THEN inserts + 1 ELSE inserts
  BY DEF Touch, Edit, Recorded, Running
<1>2. /\ Cardinality(Missed) <= slips + beyond
      /\ repeats + Cardinality(Again) <= inserts
      /\ got \subseteq ever
  BY <1>1 DEF Explained
<1>3. Cardinality(Missed') <= slips' + beyond'
  <2>1. Cardinality(Missed') \in Nat /\ Cardinality(Missed') <= Cardinality(Missed) + 1
    BY <1>1, Numbers, MissedNext, EditMissesOne, CardAddOne
  <2>2. CASE Missed' \ Missed = {}
    <3>1. Cardinality(Missed') <= Cardinality(Missed)
      BY <2>2, Numbers, CardSubset
    <3>2. QED BY <1>1, <1>2, <2>1, <3>1, Numbers, SMT
  <2>3. CASE Missed' \ Missed # {}
    <3>1. slips' = slips + 1
      BY <1>1, <2>3, EditMissesOne
    <3>2. QED BY <1>1, <1>2, <2>1, <3>1, Numbers, SMT
  <2>4. QED BY <2>2, <2>3
<1>4. repeats' + Cardinality(Again') <= inserts'
  <2>1. Cardinality(Again') \in Nat /\ Cardinality(Again') <= Cardinality(Again) + 1
    BY <1>1, Numbers, MissedNext, EditRepeatsOne, CardAddOne
  <2>2. CASE Again' \ Again = {}
    <3>1. Cardinality(Again') <= Cardinality(Again)
      BY <2>2, Numbers, CardSubset
    <3>2. QED BY <1>1, <1>2, <2>1, <3>1, Numbers, SMT
  <2>3. CASE Again' \ Again # {}
    <3>1. inserts' = inserts + 1
      BY <1>1, <2>3, EditRepeatsOne
    <3>2. QED BY <1>1, <1>2, <2>1, <3>1, Numbers, SMT
  <2>4. QED BY <2>2, <2>3
<1>5. QED BY <1>1, <1>2, <1>3, <1>4

LEMMA BeginExplained ==
    ASSUME TypeOK, TypeOK', Quiet, NEW s \in {0, cursor}, Begin(s)
    PROVE  Explained'
<1>1. /\ endpoint' = 1 /\ offset' = 0 /\ got' = {} /\ repeats' = 0
      /\ slips' = 0 /\ inserts' = 0 /\ beyond' = 0
      /\ steady' = Matching' /\ ever' = Matching'
  BY DEF Begin, Quiet
<1>2. Again' = {}
  BY <1>1 DEF Again
<1>3. Missed' = {}
  <2> SUFFICES ASSUME NEW y \in Missed' PROVE FALSE
    OBVIOUS
  <2>1. y \in Matching' /\ Passed(y)'
    BY <1>1 DEF Missed
  <2>2. y \in Items /\ at'[y] # 0 /\ at'[y] \in 0..Endpoints
    BY <2>1 DEF Matching, Present, TypeOK
  <2>3. Place(y)' \in Nat
    BY <2>2, PlaceTypeNext
  <2>4. ~(at'[y] < 1) /\ ~(Place(y)' < 0)
    BY <2>2, <2>3, NetBoxListingAssumption, SMT
  <2>5. QED BY <1>1, <2>1, <2>4 DEF Passed
<1>4. Cardinality({}) = 0
  BY FS_EmptySet
<1>5. Cardinality(Missed') <= slips' + beyond' /\ repeats' + Cardinality(Again') <= inserts'
  BY <1>1, <1>2, <1>3, <1>4, SMT
<1>6. QED BY <1>1, <1>5 DEF Explained

(***************************************************************************)
(* The items of a page that were read before are those that came back.     *)
(***************************************************************************)
LEMMA PageFacts ==
    ASSUME TypeOK, Running
    PROVE  /\ got \cap Page \subseteq Again
           /\ \A y \in Page : at[y] = endpoint /\ Place(y) < offset + PageSize
           /\ \A y \in Matching : at[y] = endpoint =>
                 Place(y) < offset \/ y \in Page \/ y \in Unread
           /\ \A y \in Matching : at[y] = endpoint /\ y \notin Unread =>
                 Place(y) < offset + PageSize
<1>1. \A y \in Matching : y \in Items /\ Place(y) \in Nat
  BY PlaceType DEF Matching, Present
<1>2. PageSize \in Nat \ {0} /\ offset \in Nat /\ endpoint \in Nat
  BY NetBoxListingAssumption, Numbers
<1>3. \A y \in Page : /\ y \in Matching /\ at[y] = endpoint
                      /\ offset <= Place(y) /\ Place(y) < offset + PageSize
  BY DEF Page, Listing, At
<1>4. \A y \in Matching : at[y] = endpoint =>
         Place(y) < offset \/ y \in Page \/ y \in Unread
  BY <1>1, <1>2, SMT DEF Page, Unread, Listing, At
<1>5. \A y \in Matching : at[y] = endpoint /\ y \notin Unread =>
         Place(y) < offset + PageSize
  BY <1>1, <1>2, SMT DEF Unread, Listing, At
<1>6. \A y \in Page : ~Passed(y)
  BY <1>1, <1>2, <1>3, SMT DEF Passed
<1>7. QED BY <1>3, <1>4, <1>5, <1>6 DEF Again

LEMMA ReadExplained ==
    ASSUME TypeOK, Running, repeats + Cardinality(Again) <= inserts,
           NEW R \in SUBSET (Again \ Page)
    PROVE  repeats + Cardinality(got \cap Page) + Cardinality(R) <= inserts
<1>1. got \cap Page \in SUBSET Again /\ R \in SUBSET (Again \ (got \cap Page))
  BY PageFacts
<1>2. /\ Cardinality(got \cap Page) \in Nat /\ Cardinality(R) \in Nat
      /\ Cardinality(got \cap Page) + Cardinality(R) <= Cardinality(Again)
  BY <1>1, Numbers, CardSplit
<1>3. QED BY <1>2, Numbers, SMT

LEMMA NextPageExplained ==
    ASSUME TypeOK, TypeOK', Explained, NextPage
    PROVE  Explained'
<1>1. /\ at' = at /\ ahead' = ahead /\ stamp' = stamp /\ Running
      /\ endpoint' = endpoint /\ since' = since
      /\ offset' = offset + PageSize
      /\ got' = got \cup Page /\ repeats' = repeats + Cardinality(got \cap Page)
      /\ steady' = steady /\ ever' = ever
      /\ slips' = slips /\ inserts' = inserts /\ beyond' = beyond
  BY DEF NextPage, Read, NextOffset, netboxVars, historyVars
<1>2. Matching' = Matching /\ \A y \in Items : Place(y)' = Place(y)
  BY <1>1 DEF Matching, Present, Place
<1>3. /\ PageSize \in Nat /\ offset \in Nat /\ endpoint \in Nat
      /\ Matching \subseteq Items /\ Page \subseteq Matching /\ steady \subseteq Matching
      /\ \A y \in Items : Place(y) \in Nat
  BY NetBoxListingAssumption, Numbers, PlaceType, PageItems DEF TypeOK
<1>4. \A y \in Items : Passed(y)' <=>
         at[y] < endpoint \/ (at[y] = endpoint /\ Place(y) < offset + PageSize)
  BY <1>1, <1>2 DEF Passed
<1>5. \A y \in Matching : Passed(y)' <=> Passed(y) \/ y \in Page
  BY <1>1, <1>3, <1>4, PageFacts, SMT DEF Passed, Unread, Page, Listing, At
<1>6. Missed' \subseteq Missed
  BY <1>1, <1>3, <1>5 DEF Missed
<1>7. Again' \subseteq Again \ Page
  BY <1>1, <1>2, <1>5 DEF Again
<1>8. /\ Matching \subseteq ever /\ got \subseteq ever
      /\ Cardinality(Missed) <= slips + beyond
      /\ repeats + Cardinality(Again) <= inserts
  BY <1>1 DEF Explained
<1>9. Cardinality(Missed') <= slips' + beyond'
  <2>1. Cardinality(Missed') \in Nat /\ Cardinality(Missed') <= Cardinality(Missed)
    BY <1>6, Numbers, CardSubset
  <2>2. QED BY <1>1, <1>8, <2>1, Numbers, SMT
<1>10. repeats' + Cardinality(Again') <= inserts'
  BY <1>1, <1>7, <1>8, ReadExplained
<1>11. QED BY <1>1, <1>2, <1>3, <1>8, <1>9, <1>10 DEF Explained

LEMMA NextEndpointExplained ==
    ASSUME TypeOK, TypeOK', Explained, NextEndpoint
    PROVE  Explained'
<1>1. /\ at' = at /\ ahead' = ahead /\ stamp' = stamp /\ Running
      /\ endpoint' = endpoint + 1 /\ since' = since /\ offset' = 0
      /\ got' = got \cup Page /\ repeats' = repeats + Cardinality(got \cap Page)
      /\ steady' = steady /\ ever' = ever
      /\ slips' = slips /\ inserts' = inserts
      /\ beyond' = beyond + Cardinality(Unread)
  BY DEF NextEndpoint, Read, netboxVars
<1>2. Matching' = Matching /\ \A y \in Items : Place(y)' = Place(y)
  BY <1>1 DEF Matching, Present, Place
<1>3. /\ offset \in Nat /\ endpoint \in Nat
      /\ Matching \subseteq Items /\ Page \subseteq Matching /\ steady \subseteq Matching
      /\ \A y \in Items : Place(y) \in Nat /\ at[y] \in Nat
  BY NetBoxListingAssumption, Numbers, PlaceType, PageItems, SMT DEF TypeOK
<1>4. \A y \in Items : Passed(y)' <=> at[y] < endpoint + 1
  <2> SUFFICES ASSUME NEW y \in Items PROVE Passed(y)' <=> at[y] < endpoint + 1
    OBVIOUS
  <2>1. Place(y) \in Nat /\ at[y] \in Nat
    BY <1>3
  <2>2. ~(Place(y)' < 0)
    BY <1>2, <2>1, SMT
  <2>3. QED BY <1>1, <2>2 DEF Passed
<1>5. \A y \in Matching : /\ Passed(y)' => Passed(y) \/ y \in Page \/ y \in Unread
                          /\ Passed(y) \/ y \in Page => Passed(y)'
  <2> SUFFICES ASSUME NEW y \in Matching
               PROVE  /\ Passed(y)' => Passed(y) \/ y \in Page \/ y \in Unread
                      /\ Passed(y) \/ y \in Page => Passed(y)'
    OBVIOUS
  <2>1. y \in Items /\ at[y] \in Nat
    BY <1>3
  <2>2. Passed(y) \/ y \in Page => at[y] < endpoint \/ at[y] = endpoint
    BY <1>1, PageFacts DEF Passed
  <2>3. at[y] = endpoint => Passed(y) \/ y \in Page \/ y \in Unread
    BY <1>1, PageFacts DEF Passed
  <2>4. at[y] < endpoint => Passed(y)
    BY DEF Passed
  <2>5. at[y] < endpoint + 1 <=> at[y] < endpoint \/ at[y] = endpoint
    BY <1>3, <2>1, SMT
  <2>6. QED BY <1>4, <2>1, <2>2, <2>3, <2>4, <2>5
<1>6. Missed' \subseteq Missed \cup Unread
  BY <1>1, <1>3, <1>5 DEF Missed
<1>7. Again' \subseteq Again \ Page
  BY <1>1, <1>2, <1>5 DEF Again
<1>8. /\ Matching \subseteq ever /\ got \subseteq ever
      /\ Cardinality(Missed) <= slips + beyond
      /\ repeats + Cardinality(Again) <= inserts
  BY <1>1 DEF Explained
<1>9. Cardinality(Missed') <= slips' + beyond'
  <2>1. Unread \in SUBSET Items /\ Cardinality(Unread) \in Nat
    BY PageItems
  <2>2. /\ Cardinality(Missed') \in Nat
        /\ Cardinality(Missed') <= Cardinality(Missed) + Cardinality(Unread)
    BY <1>6, <2>1, Numbers, CardUnion
  <2>3. QED BY <1>1, <1>8, <2>1, <2>2, Numbers, SMT
<1>10. repeats' + Cardinality(Again') <= inserts'
  BY <1>1, <1>7, <1>8, ReadExplained
<1>11. QED BY <1>1, <1>2, <1>3, <1>8, <1>9, <1>10 DEF Explained

LEMMA StepExplained ==
    TypeOK /\ TypeOK' /\ Quiet /\ Explained /\ [Next]_vars => Explained'
<1> SUFFICES ASSUME TypeOK, TypeOK', Quiet, Explained, [Next]_vars
             PROVE  Explained'
  OBVIOUS
<1>1. CASE Tick \/ UNCHANGED vars
  <2>1. /\ at' = at /\ ahead' = ahead /\ stamp' = stamp /\ UNCHANGED fetchVars
        /\ UNCHANGED historyVars
    BY <1>1 DEF Tick, vars, netboxVars
  <2>2. /\ endpoint' = endpoint /\ since' = since /\ offset' = offset
        /\ got' = got /\ repeats' = repeats /\ steady' = steady /\ ever' = ever
        /\ slips' = slips /\ inserts' = inserts /\ beyond' = beyond
    BY <2>1 DEF fetchVars, historyVars
  <2>3. Matching' = Matching /\ \A y \in Items : Place(y)' = Place(y)
    BY <2>1, <2>2 DEF Matching, Present, Place
  <2>4. \A y \in Items : Passed(y)' <=> Passed(y)
    BY <2>1, <2>2, <2>3 DEF Passed
  <2>5. Missed' = Missed /\ Again' = Again
    <3>1. steady \subseteq Items /\ got \subseteq Items
      BY DEF TypeOK, Matching, Present
    <3>2. QED BY <2>2, <2>3, <2>4, <3>1 DEF Missed, Again
  <2>6. QED BY <2>2, <2>3, <2>5 DEF Explained, Running
<1>2. ASSUME NEW x \in Items, NetBoxEdit(x) PROVE Explained'
  <2>1. PICK moved \in BOOLEAN : Touch(x, moved)
    BY <1>2, EditTouches
  <2>2. QED BY <2>1, EditExplained
<1>3. ASSUME NEW s \in {0, cursor}, Begin(s) PROVE Explained'
  BY <1>3, BeginExplained
<1>4. CASE NextPage
  BY <1>4, NextPageExplained
<1>5. CASE NextEndpoint
  BY <1>5, NextEndpointExplained
<1>6. CASE Finish \/ Fail
  BY <1>6 DEF Finish, Fail, ResetFetch, Explained, Running
<1>7. QED
  BY <1>1, <1>2, <1>3, <1>4, <1>5, <1>6 DEF Next, NetBoxEdit

Inv == TypeOK /\ Quiet /\ Explained

LEMMA Invariant == Spec => []Inv
<1>1. Init => Inv
  <2>1. Init => Explained
    BY DEF Init, Explained, Running
  <2>2. QED BY <2>1, InitTypes DEF Inv
<1>2. Inv /\ [Next]_vars => Inv'
  BY StepTypes, StepExplained DEF Inv
<1>3. QED BY <1>1, <1>2, PTL DEF Spec

(***************************************************************************)
(* RepeatsExplained: no fetch gives diff an item twice unless, while it    *)
(* ran, an item was inserted or renamed for each repeated one (client.go,  *)
(* listAll).                                                               *)
(***************************************************************************)
THEOREM RepeatsAreExplained == Spec => []RepeatsExplained
<1>1. Inv => RepeatsExplained
  <2> SUFFICES ASSUME Inv PROVE RepeatsExplained
    OBVIOUS
  <2>1. TypeOK /\ Quiet /\ Explained
    BY DEF Inv
  <2>2. CASE Running
    <3>1. /\ got \cap Page \in SUBSET Again
          /\ repeats + Cardinality(Again) <= inserts
      BY <2>1, <2>2, PageFacts DEF Explained
    <3>2. /\ Cardinality(got \cap Page) \in Nat
          /\ Cardinality(got \cap Page) <= Cardinality(Again)
      BY <2>1, <3>1, Numbers, CardSubset
    <3>3. QED BY <2>1, <3>1, <3>2, Numbers, SMT DEF RepeatsExplained
  <2>3. CASE ~Running
    <3>1. got \cap Page = {} /\ repeats = 0 /\ inserts = 0
      BY <2>1, <2>3 DEF Quiet
    <3>2. Cardinality(got \cap Page) = 0
      BY <3>1, FS_EmptySet
    <3>3. QED BY <3>1, <3>2, SMT DEF RepeatsExplained
  <2>4. QED BY <2>2, <2>3
<1>2. QED BY <1>1, Invariant, PTL

-----------------------------------------------------------------------------
(***************************************************************************)
(* At the end of a fetch an item that matched all the time and is not among*)
(* those returned has slipped by, or lies beyond the page limit.           *)
(***************************************************************************)
LEMMA LeftOut ==
    ASSUME TypeOK, Quiet, Running, endpoint = Endpoints,
           NEW y \in steady \ (got \cup Page)
    PROVE  y \in Missed \/ y \in Unread
<1>1. y \in Matching /\ y \in Items /\ at[y] \in 0..Endpoints
  BY DEF TypeOK, Matching, Present
<1>2. at[y] < endpoint \/ at[y] = endpoint
  BY <1>1, NetBoxListingAssumption, SMT
<1>3. Passed(y) \/ y \in Unread
  BY <1>1, <1>2, PageFacts DEF Passed
<1>4. QED BY <1>3 DEF Missed

LEMMA FinishTruncated ==
    ASSUME TypeOK, Finish
    PROVE  truncated \/ Truncates <=> beyond > 0 \/ Unread # {}
<1>1. EndOfListing /\ (truncated <=> beyond > 0)
  BY DEF Finish, TypeOK
<1>2. Truncates <=> Unread # {}
  BY <1>1 DEF EndOfListing, Truncates, HasNext
<1>3. QED BY <1>1, <1>2

LEMMA SameCardinality ==
    ASSUME NEW S PROVE Contract!Cardinality(S) = Cardinality(S)
  BY DEF Contract!Cardinality, Cardinality

LEMMA ContractInit == Init => Contract!Init
<1>1. Matching \in SUBSET Items
  BY DEF Matching, Present
<1>2. QED BY <1>1 DEF Init, Contract!Init, Running, Nothing, Contract!Nothing

LEMMA ContractStep ==
    Inv /\ Inv' /\ [Next]_vars => [Contract!Next]_Contract!vars
<1> SUFFICES ASSUME Inv, Inv', [Next]_vars PROVE [Contract!Next]_Contract!vars
  OBVIOUS
<1>1. TypeOK /\ TypeOK' /\ Quiet /\ Explained
  BY DEF Inv
<1>2. Matching \in SUBSET Items /\ Matching' \in SUBSET Items
  BY DEF Matching, Present
<1>3. ASSUME at' = at, stamp' = stamp, since' = since PROVE Matching' = Matching
  BY <1>3 DEF Matching, Present
<1>4. CASE Tick \/ UNCHANGED vars
  <2>1. /\ at' = at /\ stamp' = stamp /\ UNCHANGED fetchVars
        /\ UNCHANGED historyVars /\ UNCHANGED pastVars
    BY <1>4 DEF Tick, vars, netboxVars
  <2>2. /\ endpoint' = endpoint /\ since' = since /\ steady' = steady
        /\ ever' = ever /\ slips' = slips /\ result' = result
    BY <2>1 DEF fetchVars, historyVars, pastVars
  <2>3. QED BY <1>3, <2>1, <2>2 DEF Contract!vars, Running
<1>5. ASSUME NEW x \in Items, NetBoxEdit(x) PROVE Contract!Next
  <2>1. PICK moved \in BOOLEAN : Touch(x, moved)
    BY <1>1, <1>5, EditTouches
  <2>2. /\ endpoint' = endpoint /\ result' = result
        /\ steady' = steady \cap Matching'
        /\ ever' = IF Running THEN ever \cup Matching' ELSE ever
        /\ \/ slips' = slips
           \/ Running /\ x \in Matching /\ slips' = slips + 1
    BY <2>1 DEF Touch, Edit, Recorded, pastVars
  <2>3. \A y \in Items \ {x} : y \in Matching' <=> y \in Matching
    BY <1>1, <2>1, TouchFacts
  <2>4. x \in Matching => Matching' \subseteq Matching
    BY <1>2, <2>3
  <2>5. Contract!Change
    BY <1>2, <2>2, <2>4 DEF Contract!Change, Running
  <2>6. QED BY <2>5 DEF Contract!Next
<1>6. ASSUME NEW s \in {0, cursor}, Begin(s) PROVE Contract!Next
  <2>1. /\ ~Running /\ endpoint' = 1 /\ steady' = Matching' /\ ever' = Matching'
        /\ slips' = 0 /\ result' = Nothing
    BY <1>1, <1>6 DEF Begin, Quiet
  <2>2. Contract!Begin
    BY <1>2, <2>1 DEF Contract!Begin, Running, Nothing, Contract!Nothing
  <2>3. QED BY <2>2 DEF Contract!Next
<1>7. CASE NextPage
  <2>1. /\ at' = at /\ stamp' = stamp /\ since' = since /\ endpoint' = endpoint
        /\ steady' = steady /\ ever' = ever /\ slips' = slips /\ result' = result
    BY <1>7 DEF NextPage, netboxVars, historyVars, pastVars
  <2>2. QED BY <1>3, <2>1 DEF Contract!vars, Running
<1>8. CASE NextEndpoint
  <2>1. /\ at' = at /\ stamp' = stamp /\ since' = since
        /\ Running /\ endpoint' = endpoint + 1
        /\ steady' = steady /\ ever' = ever /\ slips' = slips /\ result' = result
    BY <1>8 DEF NextEndpoint, Read, netboxVars, pastVars
  <2>2. endpoint' # 0
    BY <1>1, <2>1, Numbers, SMT
  <2>3. QED BY <1>3, <2>1, <2>2 DEF Contract!vars, Running
<1>9. CASE Finish
  <2>1. /\ Running /\ endpoint = Endpoints /\ endpoint' = 0 /\ steady' = {}
        /\ ever' = {} /\ slips' = 0
        /\ result' = [truncated |-> truncated \/ Truncates, items |-> got \cup Page]
    BY <1>9 DEF Finish, ResetFetch
  <2>2. Contract!End
    BY <1>2, <2>1 DEF Contract!End, Running
  <2>3. /\ result' \in Contract!Results
        /\ result'.truncated = (truncated \/ Truncates)
        /\ result'.items = got \cup Page
    BY <1>1, <2>1 DEF TypeOK, Contract!Results
  <2>4. got \cup Page \subseteq ever
    BY <1>1, <2>1, PageItems DEF Explained
  <2>5. ASSUME ~(truncated \/ Truncates)
        PROVE  Cardinality(steady \ (got \cup Page)) <= slips
    <3>1. beyond = 0 /\ Unread = {}
      BY <1>1, <1>9, <2>5, FinishTruncated, Numbers, SMT
    <3>2. steady \ (got \cup Page) \subseteq Missed
      BY <1>1, <2>1, <3>1, LeftOut
    <3>3. /\ Cardinality(steady \ (got \cup Page)) \in Nat
          /\ Cardinality(steady \ (got \cup Page)) <= Cardinality(Missed)
      BY <1>1, <3>2, Numbers, CardSubset
    <3>4. Cardinality(Missed) <= slips + beyond
      BY <1>1, <2>1 DEF Explained
    <3>5. QED BY <1>1, <3>1, <3>3, <3>4, Numbers, SMT
  <2>6. Contract!Return
    <3>1. result'.items \subseteq ever
      BY <2>3, <2>4
    <3>2. ~result'.truncated => Cardinality(steady \ result'.items) <= slips
      BY <2>3, <2>5
    <3>3. result' \in Contract!Results
      BY <2>3
    <3>4. QED BY <2>2, <3>1, <3>2, <3>3, SameCardinality DEF Contract!Return
  <2>7. QED BY <2>6 DEF Contract!Next
<1>10. CASE Fail
  <2>1. /\ Running /\ endpoint' = 0 /\ steady' = {} /\ ever' = {} /\ slips' = 0
        /\ result' = result
    BY <1>10 DEF Fail, ResetFetch, pastVars
  <2>2. Contract!Fail
    BY <1>2, <2>1 DEF Contract!Fail, Contract!End, Running
  <2>3. QED BY <2>2 DEF Contract!Next
<1>11. QED
  BY <1>4, <1>5, <1>6, <1>7, <1>8, <1>9, <1>10 DEF Next, NetBoxEdit

(***************************************************************************)
(* ContractSpec: listing by pages keeps the contract of a fetch, however   *)
(* NetBox is edited between two pages (client.go, listAll).                *)
(***************************************************************************)
THEOREM ListingKeepsContract == Spec => ContractSpec
<1>1. Init => Contract!Init
  BY ContractInit
<1>2. Inv /\ Inv' /\ [Next]_vars => [Contract!Next]_Contract!vars
  BY ContractStep
<1>3. QED BY <1>1, <1>2, Invariant, PTL DEF Spec, ContractSpec, Contract!Spec

-----------------------------------------------------------------------------
(***************************************************************************)
(* The cursor, when NetBox stamps an edit with the time at which it can be *)
(* seen.                                                                   *)
(***************************************************************************)
StampsInTime == MaxBehind = 0

LEMMA StampIsNow ==
    ASSUME StampsInTime, TypeOK, NEW x \in Items, NEW moved \in BOOLEAN,
           Touch(x, moved), x \in Present'
    PROVE  stamp'[x] = now
<1>1. PICK behind \in 0..MaxBehind : stamp'[x] = now - behind
  BY DEF Touch
<1>2. behind = 0 /\ now \in Nat
  BY SMT DEF StampsInTime, TypeOK
<1>3. QED BY <1>1, <1>2, SMT

LEMMA InitOverdue == Init => Undisturbed /\ NothingOverdue
<1> SUFFICES ASSUME Init PROVE Undisturbed /\ NothingOverdue
  OBVIOUS
<1>1. Overdue = {}
  <2> SUFFICES ASSUME NEW y \in Overdue PROVE FALSE
    OBVIOUS
  <2>1. stamp[y] = 0 /\ stamp[y] < cursor /\ cursor = 0
    BY DEF Overdue, Present, Init
  <2>2. QED BY <2>1, SMT
<1>2. Cardinality(Overdue) = 0 /\ slack = 0
  BY <1>1, FS_EmptySet DEF Init
<1>3. QED BY <1>2, SMT DEF Init, Undisturbed, Running, NothingOverdue

LEMMA EditOverdue ==
    ASSUME StampsInTime, TypeOK, TypeOK', Undisturbed, NothingOverdue,
           NEW x \in Items, NEW moved \in BOOLEAN, Touch(x, moved)
    PROVE  Undisturbed' /\ NothingOverdue'
<1>1. /\ seen' = seen \ {x} /\ fresh' = fresh \ {x} /\ cursor' = cursor
      /\ slack' = slack /\ start' = start /\ since' = since /\ got' = got
      /\ endpoint' = endpoint /\ steady' = steady \cap Matching'
      /\ \A y \in Items \ {x} : stamp'[y] = stamp[y]
  BY DEF Touch, Edit, Recorded, pastVars
<1>2. \A y \in Items \ {x} : /\ y \in Present' <=> y \in Present
                             /\ y \in Matching' <=> y \in Matching
  BY TouchFacts
<1>3. /\ start \in Nat /\ cursor \in Nat /\ now \in Nat
      /\ start <= now /\ cursor <= now /\ slack \in Nat
  BY SMT DEF TypeOK
<1>4. Present \subseteq Items /\ Present' \subseteq Items /\ steady \subseteq Matching
  BY DEF Present, TypeOK
<1>5. x \in Present' => ~(stamp'[x] < start) /\ ~(stamp'[x] < cursor)
  BY <1>3, StampIsNow, SMT
<1>6. Overdue' \subseteq Overdue
  BY <1>1, <1>2, <1>4, <1>5 DEF Overdue
<1>7. Undisturbed'
  <2> SUFFICES ASSUME Running', NEW y \in Present', stamp'[y] < start'
               PROVE  /\ y \in got' => y \in fresh'
                      /\ Asked(stamp[y], since)' => y \in steady'
    BY DEF Undisturbed
  <2>1. y \in Items \ {x} /\ y \in Present /\ stamp[y] < start /\ stamp'[y] = stamp[y]
    BY <1>1, <1>2, <1>4, <1>5
  <2>2. /\ y \in got => y \in fresh
        /\ Asked(stamp[y], since) => y \in steady
    BY <1>1, <2>1 DEF Undisturbed, Running
  <2>3. Asked(stamp[y], since)' <=> Asked(stamp[y], since)
    BY <1>1, <2>1 DEF Asked
  <2>4. QED BY <1>1, <1>2, <1>4, <2>1, <2>2, <2>3
<1>8. Cardinality(Overdue) \in Nat /\ Cardinality(Overdue') \in Nat
      /\ Cardinality(Overdue') <= Cardinality(Overdue)
  <2>1. Overdue \in SUBSET Items
    BY DEF Overdue, Present
  <2>2. QED BY <1>6, <2>1, CardSubset
<1>9. QED BY <1>1, <1>3, <1>7, <1>8, SMT DEF NothingOverdue

LEMMA FinishOverdue ==
    ASSUME TypeOK, Quiet, Explained, Undisturbed, NothingOverdue, Finish
    PROVE  NothingOverdue'
<1>1. /\ Running /\ endpoint = Endpoints /\ at' = at /\ stamp' = stamp
      /\ seen' = seen \cup fresh \cup Page
  BY DEF Finish, netboxVars
<1>2. /\ Overdue \in SUBSET Items /\ Unread \in SUBSET Items /\ Present' = Present
      /\ Missed \in SUBSET Items /\ Cardinality(Missed) \in Nat
      /\ Cardinality(Overdue) \in Nat /\ Cardinality(Unread) \in Nat
      /\ Cardinality(Missed) <= slips + beyond
      /\ Cardinality(Overdue) <= slack
      /\ slips \in Nat /\ beyond \in Nat /\ slack \in Nat
  <2>1. Overdue \in SUBSET Items
    BY DEF Overdue, Present
  <2>2. Cardinality(Overdue) \in Nat
    BY <2>1, CardSubset
  <2>3. QED
    BY <1>1, <2>1, <2>2, PageItems, Numbers
    DEF Explained, NothingOverdue, TypeOK, Present
<1>3. CASE UNCHANGED <<cursor, slack>>
  <2>1. Overdue' \in SUBSET Overdue
    BY <1>1, <1>2, <1>3 DEF Overdue
  <2>2. /\ Cardinality(Overdue') \in Nat
        /\ Cardinality(Overdue') <= Cardinality(Overdue)
    BY <1>2, <2>1, CardSubset
  <2>3. QED BY <1>2, <1>3, <2>2, SMT DEF NothingOverdue
<1>4. CASE /\ cursor' = NowCursor
           /\ slack' = (IF since = 0 THEN 0 ELSE slack)
                          + slips + beyond + Cardinality(Unread)
  <2> DEFINE Old == IF since = 0 THEN {} ELSE Overdue
             Limit == IF since = 0 THEN 0 ELSE slack
  <2>1. ASSUME NEW y \in Overdue' PROVE y \in Old \/ y \in Missed \/ y \in Unread
    <3>1. /\ y \in Present /\ y \in Items /\ y \notin seen /\ y \notin fresh
          /\ y \notin Page /\ stamp[y] < NowCursor
      BY <1>1, <1>2, <1>4 DEF Overdue, Present
    <3>2. /\ start \in Nat /\ stamp[y] \in Nat /\ since \in Nat /\ cursor \in Nat
          /\ since <= cursor
      BY <3>1, SMT DEF TypeOK
    <3>3. stamp[y] < start
      BY <3>1, <3>2, NowCursorBound, SMT
    <3>4. y \notin got /\ (Asked(stamp[y], since) => y \in steady)
      BY <1>1, <3>1, <3>3 DEF Undisturbed
    <3>5. CASE Asked(stamp[y], since)
      BY <1>1, <3>1, <3>4, <3>5, LeftOut
    <3>6. CASE ~Asked(stamp[y], since)
      <4>1. since # 0 /\ stamp[y] < cursor
        BY <3>2, <3>6, SMT DEF Asked
      <4>2. QED BY <3>1, <4>1 DEF Overdue
    <3>7. QED BY <3>5, <3>6
  <2>2. Old \in SUBSET Items /\ Cardinality(Old) \in Nat /\ Limit \in Nat
        /\ Cardinality(Old) <= Limit
    <3>1. CASE since = 0
      BY <3>1, FS_EmptySet, SMT
    <3>2. CASE since # 0
      BY <1>2, <3>2
    <3>3. QED BY <3>1, <3>2
  <2>3. slack' = Limit + slips + beyond + Cardinality(Unread)
    BY <1>4
  <2> HIDE DEF Old, Limit
  <2>4. /\ Cardinality(Old \cup Missed) \in Nat
        /\ Cardinality(Old \cup Missed) <= Cardinality(Old) + Cardinality(Missed)
        /\ Old \cup Missed \in SUBSET Items
    BY <1>2, <2>2, CardUnion
  <2>5. Overdue' \in SUBSET ((Old \cup Missed) \cup Unread)
    BY <2>1
  <2>6. /\ Cardinality(Overdue') \in Nat
        /\ Cardinality(Overdue') <= Cardinality(Old \cup Missed) + Cardinality(Unread)
    BY <1>2, <2>4, <2>5, CardUnion
  <2>7. QED BY <1>2, <2>2, <2>3, <2>4, <2>6, SMT DEF NothingOverdue
<1>5. QED BY <1>3, <1>4 DEF Finish

LEMMA StepOverdue ==
    StampsInTime /\ Inv /\ Inv' /\ Undisturbed /\ NothingOverdue /\ [Next]_vars
        => Undisturbed' /\ NothingOverdue'
<1> SUFFICES ASSUME StampsInTime, Inv, Inv', Undisturbed, NothingOverdue, [Next]_vars
             PROVE  Undisturbed' /\ NothingOverdue'
  OBVIOUS
<1>1. TypeOK /\ TypeOK' /\ Quiet /\ Explained
  BY DEF Inv
<1>2. ASSUME at' = at, stamp' = stamp, seen' = seen, cursor' = cursor, slack' = slack
      PROVE  NothingOverdue'
  BY <1>2 DEF NothingOverdue, Overdue, Present
<1>3. CASE Tick \/ UNCHANGED vars
  <2>1. /\ at' = at /\ stamp' = stamp /\ UNCHANGED engineVars
        /\ UNCHANGED fetchVars /\ UNCHANGED historyVars /\ UNCHANGED pastVars
    BY <1>3 DEF Tick, vars, netboxVars
  <2>2. /\ seen' = seen /\ cursor' = cursor /\ slack' = slack
        /\ endpoint' = endpoint /\ since' = since /\ start' = start
        /\ got' = got /\ fresh' = fresh /\ steady' = steady
    BY <2>1 DEF engineVars, fetchVars, historyVars, pastVars
  <2>3. Undisturbed'
    BY <2>1, <2>2 DEF Undisturbed, Running, Present, Asked
  <2>4. QED BY <1>2, <2>1, <2>2, <2>3
<1>4. ASSUME NEW x \in Items, NetBoxEdit(x) PROVE Undisturbed' /\ NothingOverdue'
  <2>1. PICK moved \in BOOLEAN : Touch(x, moved)
    BY <1>1, <1>4, EditTouches
  <2>2. QED BY <1>1, <2>1, EditOverdue
<1>5. ASSUME NEW s \in {0, cursor}, Begin(s) PROVE Undisturbed' /\ NothingOverdue'
  <2>1. /\ at' = at /\ stamp' = stamp /\ seen' = seen /\ cursor' = cursor
        /\ slack' = slack /\ got' = {} /\ steady' = Matching'
    BY <1>1, <1>5 DEF Begin, netboxVars, engineVars, Quiet
  <2>2. Undisturbed'
    BY <2>1 DEF Undisturbed, Matching
  <2>3. QED BY <1>2, <2>1, <2>2
<1>6. CASE NextPage \/ NextEndpoint
  <2>1. /\ at' = at /\ stamp' = stamp /\ seen' = seen /\ cursor' = cursor
        /\ slack' = slack /\ Running /\ since' = since /\ start' = start
        /\ got' = got \cup Page /\ fresh' = fresh \cup Page /\ steady' = steady
    BY <1>6 DEF NextPage, NextEndpoint, Read, netboxVars, engineVars, pastVars,
       historyVars
  <2>2. Undisturbed'
    BY <2>1 DEF Undisturbed, Present, Asked
  <2>3. QED BY <1>2, <2>1, <2>2
<1>7. CASE Finish
  <2>1. Undisturbed'
    BY <1>7 DEF Finish, ResetFetch, Undisturbed, Running
  <2>2. QED BY <1>1, <1>7, <2>1, FinishOverdue
<1>8. CASE Fail
  <2>1. /\ at' = at /\ stamp' = stamp /\ seen' = seen /\ cursor' = cursor
        /\ slack' = slack /\ endpoint' = 0
    BY <1>8 DEF Fail, ResetFetch, netboxVars, engineVars, pastVars
  <2>2. QED BY <1>2, <2>1 DEF Undisturbed, Running
<1>9. QED
  BY <1>3, <1>4, <1>5, <1>6, <1>7, <1>8 DEF Next, NetBoxEdit

(***************************************************************************)
(* NothingOverdue: the next incremental fetch will ask for every item that *)
(* the engine does not have in its current contents, except as many as     *)
(* slipped by or lay beyond the page limit since the last full fetch       *)
(* (client.go, nowCursor, sinceQuery).  It needs that NetBox's stamps are  *)
(* not behind the agent's clock: one that is earlier than the cursor when  *)
(* its edit is seen is never asked for.                                    *)
(***************************************************************************)
THEOREM NothingIsOverdue == StampsInTime => (Spec => []NothingOverdue)
<1> SUFFICES ASSUME StampsInTime PROVE Spec => []NothingOverdue
  OBVIOUS
<1>1. Init => Undisturbed /\ NothingOverdue
  BY InitOverdue
<1>2. Inv /\ Inv' /\ Undisturbed /\ NothingOverdue /\ [Next]_vars
        => Undisturbed' /\ NothingOverdue'
  BY StepOverdue
<1>3. QED BY <1>1, <1>2, Invariant, PTL DEF Spec

=============================================================================
