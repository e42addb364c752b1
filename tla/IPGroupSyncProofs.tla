------------------------- MODULE IPGroupSyncProofs -------------------------
(***************************************************************************)
(* Theorems about IPGroupSync, for any groups, ranges, tenants and routes, *)
(* any direction, and any number of faults of any kind.  The order in which*)
(* filterMostSpecific ranks overlapping ranges plays no part in them.      *)
(***************************************************************************)
EXTENDS IPGroupSync, TLAPS

(***************************************************************************)
(* What the plan is made of.  A half is created, updated or removed, never *)
(* two of these; what is created or updated was fetched, and what is       *)
(* updated or removed has a row; and between two dimensions nothing is left*)
(* to be saved.                                                            *)
(***************************************************************************)
PlanInv ==
    /\ phase # "apply" =>
          /\ toCreate = {} /\ toUpdate = {} /\ toDelete = {}
          /\ stale = Blank /\ bucket = None
    /\ bucket = None => created = Blank /\ confirmed = {} /\ deleted = {}
    /\ \A x \in toCreate :
          /\ x \in Wanted(snap) /\ created[x] = None
          /\ x \notin toUpdate \cup toDelete \cup confirmed \cup deleted
    /\ \A x \in toUpdate \cup confirmed :
          /\ x \in Wanted(snap) /\ mapping[x] # None
          /\ x \notin toDelete \cup deleted
    /\ \A x \in toDelete \cup deleted : mapping[x] # None
    /\ \A x \in Halves : created[x] # None =>
          /\ x \in Wanted(snap) /\ Desired(snap, x) = bucket
          /\ x \notin toUpdate \cup toDelete \cup confirmed \cup deleted
    /\ \A x \in confirmed : x \notin toUpdate /\ Desired(snap, x) = bucket
    /\ toDelete \cap deleted = {}

TypeInv == TypeOK /\ PlanInv

LEMMA HalfFacts == \A x \in Halves : x[1] \in Groups
<1>1. \A g, side : <<g, side>>[1] = g
  OBVIOUS
<1>2. QED BY <1>1, Zenon DEF Halves

LEMMA WantedFacts ==
    ASSUME NEW items \in [Groups -> Content \cup {None}], NEW x \in Wanted(items)
    PROVE  /\ x \in Halves /\ x[1] \in Groups
           /\ items[x[1]] \in Content
           /\ Desired(items, x) \in Dims
<1>1. x \in Halves /\ items[x[1]] # None
  BY DEF Wanted
<1>2. x[1] \in Groups /\ items[x[1]] \in Content
  BY <1>1, HalfFacts
<1>3. items[x[1]].tenant \in Tenants
  BY <1>2, SMT DEF Content
<1>4. Desired(items, x) \in Dims
  BY <1>3 DEF Desired, DimOf, Dims
<1>5. QED BY <1>1, <1>2, <1>4

LEMMA BlankFacts ==
    /\ Blank \in [Halves -> Ids \cup {None}]
    /\ Blank \in [Halves -> Mapping \cup {None}]
    /\ Blank \in [Halves -> [id : Ids, dim : Dims] \cup {None}]
    /\ [g \in Groups |-> None] \in [Groups -> Content \cup {None}]
    /\ \A x \in Halves : Blank[x] = None
BY SMT DEF Blank

LEMMA CallFacts ==
    ASSUME faults \in Nat, NEW acceptable, NEW told \in BOOLEAN,
           NEW done \in BOOLEAN, CallGoes(acceptable, told, done)
    PROVE  faults' \in Nat /\ (told => done /\ acceptable)
BY SMT DEF CallGoes, CountFault

LEMMA TypeInit == Init => TypeInv
<1> SUFFICES ASSUME Init PROVE TypeInv
  OBVIOUS
<1>1. updated \in [Groups -> Nat]
  BY SMT DEF Init
<1>2. TypeOK
  BY <1>1, BlankFacts DEF Init, TypeOK
<1>3. PlanInv
  BY BlankFacts DEF Init, PlanInv
<1>4. QED BY <1>2, <1>3 DEF TypeInv

LEMMA TypeNetBox ==
    ASSUME TypeInv, NetBoxStep
    PROVE  TypeInv'
<1>1. PICK g \in Groups, content \in Content \cup {None} :
               \E kind : Edit(g, content, kind)
  BY DEF NetBoxStep, AddGroup, ChangeGroup, RemoveGroup
<1> USE <1>1 DEF Edit, storeVars, fetchVars, planVars, TypeInv
<1>2. inv' \in [Groups -> Content \cup {None}] /\ updated' \in [Groups -> Nat]
  BY SMT DEF TypeOK
<1>3. changes' \in Nat /\ clock' \in Nat
  BY SMT DEF TypeOK
<1>4. TypeOK'
  BY <1>2, <1>3 DEF TypeOK
<1>5. UNCHANGED <<phase, snap, bucket, toCreate, toUpdate, toDelete, created,
                  confirmed, deleted, stale, mapping>>
  OBVIOUS
<1> HIDE DEF Edit
<1>6. PlanInv'
  BY <1>5 DEF PlanInv, Wanted
<1>7. QED BY <1>4, <1>6

(***************************************************************************)
(* The steps that leave the plan alone, or throw it away.                  *)
(***************************************************************************)
LEMMA TypeReset ==
    ASSUME TypeInv, RunReset,
           mapping' = mapping, objects' = objects,
           UNCHANGED <<netboxVars, superseded, failures>>,
           cursor' \in Nat, due' \in BOOLEAN, faults' \in Nat
    PROVE  TypeInv'
<1> USE DEF RunReset, TypeInv, netboxVars
<1>1. TypeOK'
  BY BlankFacts DEF TypeOK
<1>2. PlanInv'
  BY BlankFacts DEF PlanInv
<1>3. QED BY <1>1, <1>2

LEMMA TypeControl ==
    ASSUME TypeInv,
           Tick \/ StartRun \/ MarkerAges \/ BeginFetch \/ FetchFails
             \/ CommitRun \/ Crash \/ Cancel
    PROVE  TypeInv'
<1> USE DEF netboxVars, storeVars, fetchVars, planVars, TypeInv, CountFault
<1>1. CASE Tick
  <2>1. clock' \in Nat
    BY <1>1, SMT DEF Tick, TypeOK
  <2>2. QED BY <1>1, <2>1 DEF Tick, TypeOK, PlanInv, Wanted
<1>2. CASE StartRun \/ MarkerAges
  BY <1>2 DEF StartRun, MarkerAges, TypeOK, PlanInv, Wanted
<1>3. CASE BeginFetch
  <2>1. full' \in BOOLEAN /\ since' \in Nat
    BY <1>3, SMT DEF BeginFetch, TypeOK
  <2>2. QED BY <1>3, <2>1 DEF BeginFetch, TypeOK, PlanInv, Wanted
<1>4. CASE FetchFails \/ Crash
  <2>1. faults' \in Nat
    BY <1>4, SMT DEF FetchFails, Crash, TypeOK
  <2>2. QED BY <1>4, <2>1, TypeReset DEF FetchFails, Crash, TypeOK
<1>5. CASE CommitRun
  <2>1. faults' \in Nat /\ cursor' \in Nat /\ due' \in BOOLEAN
    BY <1>5, SMT DEF CommitRun, NewCursor, TypeOK
  <2>2. QED BY <1>5, <2>1, TypeReset DEF CommitRun
<1>6. CASE Cancel
  <2>1. faults' \in Nat
    BY <1>6, SMT DEF Cancel, TypeOK
  <2>2. QED BY <1>6, <2>1 DEF Cancel, TypeOK, PlanInv, Wanted
<1>7. QED BY <1>1, <1>2, <1>3, <1>4, <1>5, <1>6

LEMMA TypeStutter == TypeInv /\ UNCHANGED vars => TypeInv'
BY DEF vars, netboxVars, storeVars, fetchVars, planVars, TypeInv, TypeOK,
       PlanInv, Wanted

-----------------------------------------------------------------------------
(***************************************************************************)
(* What EndFetch makes of the fetched items.  Every half that was fetched  *)
(* is recorded as it is, or is going to be, or is logged as superseded; and*)
(* what is removed is gone or superseded.                                  *)
(***************************************************************************)
Planned ==
    /\ snap' = [g \in Groups |-> IF updated[g] >= since THEN inv[g] ELSE None]
    /\ snap' \in [Groups -> Content \cup {None}]
    /\ toCreate' \cup toUpdate' \subseteq Wanted(snap')
    /\ toUpdate' \cup toDelete' \subseteq Mapped
    /\ toCreate' \cap toUpdate' = {}
    /\ (toCreate' \cup toUpdate') \cap toDelete' = {}
    /\ \A x \in Wanted(snap') :
          \/ x \in toCreate' \cup toUpdate' \cup superseded'
          \/ /\ mapping[x] # None /\ mapping[x].item = snap'[x[1]]
             /\ mapping[x].dim = Desired(snap', x)
    /\ superseded' \subseteq Halves
    /\ \A x \in superseded : x \in toCreate' \cup toUpdate' \cup superseded'
    /\ \A x \in toDelete' :
          x \in superseded' \/ x \in ReportedGone \/ (full /\ x \notin Wanted(snap'))
    /\ stale' \in [Halves -> [id : Ids, dim : Dims] \cup {None}]
    /\ \A x \in Halves : stale'[x] # None =>
          /\ x \in toCreate' /\ mapping[x] # None
          /\ stale'[x].id = mapping[x].id /\ stale'[x].dim = mapping[x].dim
    /\ \A x \in toCreate' : mapping[x] # None => stale'[x] # None
    /\ \A x \in toUpdate' : mapping[x].dim = Desired(snap', x)

LEMMA PlanMade ==
    ASSUME TypeInv, EndFetch
    PROVE  Planned
<1> DEFINE items == [g \in Groups |-> IF updated[g] >= since THEN inv[g] ELSE None]
           gone == Gone(items, ReportedGone)
           kept == KeptInPlay(items, gone)
           outdone == Outdone(items, gone)
           inPlay == UNION {InPlay(items, d) : d \in Dims}
<1>1. snap' = items /\ Plan(items, ReportedGone)
  BY DEF EndFetch
<1>2. items \in [Groups -> Content \cup {None}]
  BY SMT DEF TypeInv, TypeOK
<1> HIDE DEF items
<1>3. /\ toCreate' = (Fresh(items) \cup Moving(items)) \cap kept
      /\ toUpdate' = Changed(items) \cap kept
      /\ toDelete' = gone \cup outdone \cup (Moving(items) \ kept)
      /\ stale' = [x \in Halves |->
                     IF x \in Moving(items) \cap kept THEN Old(x) ELSE None]
      /\ superseded' = (superseded \ kept) \cup outdone \cup (inPlay \ kept)
  BY <1>1 DEF Plan
<1>4. gone \subseteq Mapped /\ \A x \in gone :
             x \in ReportedGone \/ (full /\ x \notin Wanted(items))
  BY DEF Gone
<1>5. gone \cap Wanted(items) = {}
  <2>1. \A x \in ReportedGone : x \in Halves /\ inv[x[1]] = None
    BY DEF ReportedGone
  <2>2. \A x \in ReportedGone : items[x[1]] = None
    BY <2>1, HalfFacts DEF items
  <2>3. QED BY <1>4, <2>2 DEF Wanted
<1>6. /\ Fresh(items) \subseteq Wanted(items) /\ Fresh(items) \cap Mapped = {}
      /\ Moving(items) \subseteq Wanted(items) \cap Mapped
      /\ Changed(items) \subseteq (Wanted(items) \cap Mapped) \ Moving(items)
      /\ \A x \in Changed(items) : mapping[x].dim = Desired(items, x)
  BY DEF Fresh, Moving, Changed
<1>7. \A x \in outdone : x \in Mapped \ (gone \cup Moving(items) \cup Changed(items))
  <2> SUFFICES ASSUME NEW x \in outdone
               PROVE  x \in Mapped \ (gone \cup Moving(items) \cup Changed(items))
    OBVIOUS
  <2>1. PICK d : x \in Standing(items, gone, d)
    BY DEF Outdone
  <2> HIDE DEF gone, outdone
  <2>2. x \in Mapped /\ x \notin gone \cup Moving(items) \cup InPlay(items, d)
        /\ mapping[x].dim = d
    BY <2>1 DEF Standing
  <2>3. x \notin Changed(items)
    BY <1>6, <2>2 DEF InPlay
  <2>4. QED BY <2>2, <2>3
<1>8. /\ \A x \in kept : x \in Fresh(items) \cup Moving(items) \cup Changed(items)
      /\ \A x \in Fresh(items) \cup Moving(items) \cup Changed(items) : x \in inPlay
      /\ inPlay \subseteq Wanted(items)
  <2>1. \A x \in kept : x \in Fresh(items) \cup Moving(items) \cup Changed(items)
    BY DEF KeptInPlay, InPlay
  <2>2. \A x \in Fresh(items) \cup Moving(items) \cup Changed(items) : x \in inPlay
    BY <1>2, <1>6, WantedFacts DEF InPlay
  <2>3. inPlay \subseteq Wanted(items)
    BY <1>6 DEF InPlay
  <2>4. QED BY <2>1, <2>2, <2>3
<1>9. \A x \in Mapped : Old(x) \in [id : Ids, dim : Dims]
                         /\ Old(x).id = mapping[x].id /\ Old(x).dim = mapping[x].dim
  BY SMT DEF Old, Mapped, Mapping, TypeInv, TypeOK
<1>10. stale' \in [Halves -> [id : Ids, dim : Dims] \cup {None}]
       /\ \A x \in Halves : stale'[x] # None =>
            x \in Moving(items) \cap kept /\ stale'[x] = Old(x)
  BY <1>3, <1>6, <1>9
<1>11. /\ Wanted(items) \subseteq Halves /\ Mapped \subseteq Halves
       /\ \A x \in Mapped : mapping[x] # None
       /\ superseded \subseteq Halves
  BY DEF Wanted, Mapped, TypeInv, TypeOK
<1>12. \A x \in Wanted(items) :
          \/ x \in Fresh(items) \cup Moving(items) \cup Changed(items)
          \/ /\ mapping[x] # None /\ mapping[x].item = items[x[1]]
             /\ mapping[x].dim = Desired(items, x)
  BY <1>11 DEF Fresh, Moving, Changed, Mapped
<1> HIDE DEF gone, kept, outdone, inPlay
<1>13. /\ toCreate' \cup toUpdate' \subseteq Wanted(items)
       /\ toUpdate' \cup toDelete' \subseteq Mapped
       /\ toCreate' \cap toUpdate' = {}
       /\ (toCreate' \cup toUpdate') \cap toDelete' = {}
  BY <1>3, <1>4, <1>5, <1>6, <1>7
<1>14. \A x \in Wanted(items) :
          \/ x \in toCreate' \cup toUpdate' \cup superseded'
          \/ /\ mapping[x] # None /\ mapping[x].item = items[x[1]]
             /\ mapping[x].dim = Desired(items, x)
  BY <1>3, <1>8, <1>12
<1>15. /\ superseded' \subseteq Halves
       /\ \A x \in superseded : x \in toCreate' \cup toUpdate' \cup superseded'
  <2>1. outdone \subseteq Halves /\ inPlay \subseteq Halves
    BY <1>7, <1>8, <1>11
  <2>2. \A x \in kept : x \in toCreate' \cup toUpdate'
    BY <1>3, <1>8
  <2>3. QED BY <1>3, <1>11, <2>1, <2>2
<1>16. \A x \in toDelete' :
          x \in superseded' \/ x \in ReportedGone \/ (full /\ x \notin Wanted(items))
  BY <1>3, <1>4, <1>6, <1>8
<1>17. \A x \in Halves : stale'[x] # None =>
          /\ x \in toCreate' /\ mapping[x] # None
          /\ stale'[x].id = mapping[x].id /\ stale'[x].dim = mapping[x].dim
  BY <1>3, <1>6, <1>9, <1>10, <1>11
<1>18. \A x \in toCreate' : mapping[x] # None => stale'[x] # None
  <2> SUFFICES ASSUME NEW x \in toCreate', mapping[x] # None
               PROVE  stale'[x] # None
    OBVIOUS
  <2>1. x \in Halves /\ x \in kept /\ x \in Moving(items)
    BY <1>3, <1>6, <1>11 DEF Mapped
  <2>2. stale'[x] = Old(x) /\ Old(x) \in [id : Ids, dim : Dims]
    BY <1>3, <1>6, <1>9, <2>1
  <2>3. QED BY <2>2, IPGroupSyncAssumption
<1>19. \A x \in toUpdate' : mapping[x].dim = Desired(items, x)
  BY <1>3, <1>6
<1>20. snap' = [g \in Groups |-> IF updated[g] >= since THEN inv[g] ELSE None]
  BY <1>1 DEF items
<1>21. QED
  BY <1>1, <1>2, <1>10, <1>13, <1>14, <1>15, <1>16, <1>17, <1>18, <1>19, <1>20
     DEF Planned

LEMMA TypeEndFetch ==
    ASSUME TypeInv, EndFetch
    PROVE  TypeInv'
<1> USE DEF TypeInv
<1>1. Planned
  BY PlanMade
<1>2. /\ UNCHANGED <<netboxVars, storeVars, objects, full, since, fetchStart,
                     bucket, created, confirmed, deleted, cancelled, faults,
                     failures>>
      /\ phase' = "apply" /\ phase = "fetch"
  BY DEF EndFetch
<1>3. Wanted(snap') \subseteq Halves /\ Mapped \subseteq Halves
      /\ \A x \in Mapped : mapping[x] # None
  BY DEF Wanted, Mapped
<1>4. toCreate' \subseteq Halves /\ toUpdate' \subseteq Halves
      /\ toDelete' \subseteq Halves
  BY <1>1, <1>3 DEF Planned
<1>5. TypeOK'
  BY <1>1, <1>2, <1>4 DEF TypeOK, Planned, netboxVars, storeVars
<1>6. bucket = None /\ created = Blank /\ confirmed = {} /\ deleted = {}
  BY <1>2 DEF PlanInv
<1>7. PlanInv'
  <2>1. /\ \A x \in toCreate' : x \in Wanted(snap')
        /\ \A x \in toUpdate' : x \in Wanted(snap') /\ mapping[x] # None
        /\ \A x \in toDelete' : mapping[x] # None
    BY <1>1, <1>3 DEF Planned
  <2>2. /\ \A x \in toCreate' : x \notin toUpdate' \cup toDelete'
        /\ \A x \in toUpdate' : x \notin toDelete'
    BY <1>1 DEF Planned
  <2>3. created' = Blank /\ confirmed' = {} /\ deleted' = {} /\ bucket' = None
        /\ mapping' = mapping
    BY <1>2, <1>6 DEF storeVars
  <2>4. QED BY <1>2, <1>4, <2>1, <2>2, <2>3, BlankFacts DEF PlanInv
<1>8. QED BY <1>5, <1>7

(***************************************************************************)
(* The steps that work the plan off.                                       *)
(***************************************************************************)
LEMMA NewIdFacts ==
    ASSUME NEW x \in Halves, NEW id \in NewIds(x)
    PROVE  id \in Ids /\ id[1] = x /\ id # None /\ ~InUse(id)
<1>1. PICK n \in 1..MaxIds : id = <<x, n>>
  BY DEF NewIds
<1>2. id \in Ids
  BY <1>1 DEF Ids
<1>3. id[1] = x
  BY <1>1
<1>4. id # None
  BY <1>2, IPGroupSyncAssumption
<1>5. ~InUse(id)
  BY DEF NewIds
<1>6. QED BY <1>2, <1>3, <1>4, <1>5

LEMMA RowFacts ==
    ASSUME TypeInv, NEW x \in Halves, mapping[x] # None
    PROVE  mapping[x] \in Mapping /\ mapping[x].id \in Ids
           /\ mapping[x].item \in Content /\ mapping[x].dim \in Dims
<1>1. mapping[x] \in Mapping
  BY DEF TypeInv, TypeOK
<1>2. QED BY <1>1, SMT DEF Mapping

LEMMA SavedFacts ==
    ASSUME TypeInv, NEW x \in Wanted(snap), NEW id \in Ids, bucket # None
    PROVE  Saved(x, id) \in Mapping /\ Saved(x, id) # None
           /\ Saved(x, id).id = id
           /\ Saved(x, id).item = snap[x[1]] /\ Saved(x, id).dim = bucket
<1>1. snap[x[1]] \in Content /\ bucket \in Dims
  BY WantedFacts DEF TypeInv, TypeOK
<1>2. Saved(x, id) \in Mapping
  BY <1>1, SMT DEF Saved, Mapping
<1>3. Saved(x, id) # None
  BY <1>2, IPGroupSyncAssumption
<1>4. QED BY <1>2, <1>3 DEF Saved

LEMMA TypeOpen ==
    ASSUME TypeInv, NEW d \in Dims, OpenBucket(d)
    PROVE  TypeInv'
<1> USE DEF TypeInv, OpenBucket, netboxVars, storeVars, fetchVars, planVars
<1>1. d # None
  BY IPGroupSyncAssumption
<1>2. TypeOK'
  BY DEF TypeOK
<1>3. PlanInv'
  BY <1>1, BlankFacts DEF PlanInv, Wanted
<1>4. QED BY <1>2, <1>3

LEMMA TypeClose ==
    ASSUME TypeInv, CloseBucket
    PROVE  TypeInv'
<1> USE DEF TypeInv, CloseBucket, netboxVars, storeVars, fetchVars, planVars
<1>1. TypeOK'
  BY DEF TypeOK
<1>2. created = Blank
  <2>1. \A x \in Halves : created[x] = None
    BY DEF UpdatesDone, CreatesDone, Unsaved
  <2>2. created \in [Halves -> Ids \cup {None}]
    BY DEF TypeOK
  <2>3. QED BY <2>1, <2>2 DEF Blank
<1>3. PlanInv'
  BY <1>2, BlankFacts DEF PlanInv, Wanted, UpdatesDone
<1>4. QED BY <1>1, <1>3

(***************************************************************************)
(* GiveUp changes the report and the move, and nothing else.               *)
(***************************************************************************)
LEMMA GiveUpFacts ==
    ASSUME TypeInv, NEW x \in Halves, GiveUp(x)
    PROVE  /\ failures' = failures \cup {x} /\ failures' \subseteq Halves
           /\ stale' \in [Halves -> [id : Ids, dim : Dims] \cup {None}]
           /\ stale'[x] = None
           /\ \A y \in Halves : y # x => stale'[y] = stale[y]
<1>1. stale \in [Halves -> [id : Ids, dim : Dims] \cup {None}]
      /\ failures \subseteq Halves
  BY DEF TypeInv, TypeOK
<1>2. QED BY <1>1 DEF GiveUp

(***************************************************************************)
(* What CreatePopulator does, whichever way its call goes.                 *)
(***************************************************************************)
Created(x) ==
    /\ x \in toCreate /\ toCreate' = toCreate \ {x}
    /\ x \in Wanted(snap) /\ Desired(snap, x) = bucket /\ bucket # None
    /\ failures' \subseteq Halves /\ failures \subseteq failures'
    /\ created' \in [Halves -> Ids \cup {None}]
    /\ stale' \in [Halves -> [id : Ids, dim : Dims] \cup {None}]
    /\ objects \subseteq objects' /\ objects' \subseteq Populators
    /\ faults' \in Nat
    /\ \A y \in Halves : y # x => created'[y] = created[y] /\ stale'[y] = stale[y]
    /\ \/ /\ stale' = stale /\ failures' = failures
          /\ created'[x] # None /\ created'[x] \in Ids
          /\ created'[x][1] = x /\ ~InUse(created'[x])
          /\ \E o \in objects' : o.id = created'[x] /\ o.dim = bucket
       \/ created' = created /\ stale'[x] = None /\ x \in failures'
    /\ UNCHANGED <<netboxVars, storeVars, fetchVars, bucket, toUpdate, toDelete,
                   confirmed, deleted, cancelled, superseded>>

LEMMA CreateMakes ==
    ASSUME TypeInv, NEW x \in Halves, CreatePopulator(x)
    PROVE  Created(x)
<1>1. PICK told \in BOOLEAN, done \in BOOLEAN, id \in NewIds(x) :
        /\ CallGoes(Free(bucket, snap[x[1]].cidr, id), told, done)
        /\ objects' = IF ~done THEN objects ELSE objects \cup
              {[id |-> id, dim |-> bucket, cidr |-> snap[x[1]].cidr,
                label |-> snap[x[1]].label]}
        /\ IF told THEN /\ created' = [created EXCEPT ![x] = id]
                        /\ UNCHANGED <<failures, stale>>
                   ELSE GiveUp(x) /\ UNCHANGED created
  BY Zenon DEF CreatePopulator
<1>2. /\ x \in toCreate /\ Desired(snap, x) = bucket /\ bucket # None
      /\ toCreate' = toCreate \ {x}
      /\ UNCHANGED <<netboxVars, storeVars, fetchVars, bucket, toUpdate, toDelete,
                     confirmed, deleted, cancelled, superseded>>
  BY DEF CreatePopulator, PendingCreates
<1>3. id \in Ids /\ id[1] = x /\ id # None /\ ~InUse(id)
  BY NewIdFacts
<1>4. x \in Wanted(snap)
  BY <1>2 DEF TypeInv, PlanInv
<1>5. snap[x[1]] \in Content /\ bucket \in Dims
  BY <1>2, <1>4, WantedFacts DEF TypeInv, TypeOK
<1> DEFINE o == [id |-> id, dim |-> bucket, cidr |-> snap[x[1]].cidr,
                 label |-> snap[x[1]].label]
<1>6. o \in Populators /\ o.id = id /\ o.dim = bucket
  BY <1>3, <1>5, SMT DEF Content, Populators
<1> HIDE DEF o
<1>7. faults' \in Nat /\ (told => done)
  BY <1>1, CallFacts DEF TypeInv, TypeOK
<1>8. /\ objects \subseteq Populators /\ failures \subseteq Halves
      /\ created \in [Halves -> Ids \cup {None}]
      /\ stale \in [Halves -> [id : Ids, dim : Dims] \cup {None}]
  BY DEF TypeInv, TypeOK
<1>9. objects' = IF ~done THEN objects ELSE objects \cup {o}
  BY <1>1 DEF o
<1>10. CASE told
  <2>1. created' = [created EXCEPT ![x] = id] /\ UNCHANGED <<failures, stale>>
    BY <1>1, <1>10
  <2>2. o \in objects' /\ objects \subseteq objects' /\ objects' \subseteq Populators
    BY <1>6, <1>7, <1>8, <1>9, <1>10
  <2>3. /\ created' \in [Halves -> Ids \cup {None}] /\ created'[x] = id
        /\ \A y \in Halves : y # x => created'[y] = created[y]
    BY <1>3, <1>8, <2>1
  <2>4. QED BY <1>2, <1>3, <1>4, <1>6, <1>7, <1>8, <2>1, <2>2, <2>3 DEF Created
<1>11. CASE ~told
  <2>1. GiveUp(x) /\ created' = created
    BY <1>1, <1>11
  <2>2. objects \subseteq objects' /\ objects' \subseteq Populators
    BY <1>6, <1>8, <1>9
  <2>3. QED BY <1>2, <1>4, <1>7, <1>8, <2>1, <2>2, GiveUpFacts DEF Created
<1>12. QED BY <1>10, <1>11

LEMMA TypeCreate ==
    ASSUME TypeInv, NEW x \in Halves, Created(x)
    PROVE  TypeInv'
<1> USE DEF TypeInv, Created, netboxVars, storeVars, fetchVars
<1>1. TypeOK'
  BY DEF TypeOK
<1>2. bucket # None /\ phase = "apply" /\ bucket' = bucket /\ phase' = phase
  BY DEF PlanInv
<1>3. \A y \in toCreate' : /\ y \in Wanted(snap) /\ created'[y] = None
                           /\ y \notin toUpdate \cup toDelete \cup confirmed \cup deleted
  BY DEF PlanInv, TypeOK
<1>4. \A y \in Halves : created'[y] # None =>
          /\ y \in Wanted(snap) /\ Desired(snap, y) = bucket
          /\ y \notin toUpdate \cup toDelete \cup confirmed \cup deleted
  BY DEF PlanInv
<1>5. UNCHANGED <<snap, mapping, toUpdate, toDelete, confirmed, deleted>>
  OBVIOUS
<1> HIDE DEF Created
<1>6. PlanInv'
  BY <1>2, <1>3, <1>4, <1>5 DEF PlanInv, Wanted
<1>7. QED BY <1>1, <1>6

(***************************************************************************)
(* What a store write does to the row of x: it is written, or x is         *)
(* reported.                                                               *)
(***************************************************************************)
Recorded(x, id) ==
    /\ mapping' \in [Halves -> Mapping \cup {None}]
    /\ faults' \in Nat
    /\ failures' \subseteq Halves
    /\ \A y \in Halves : y # x => mapping'[y] = mapping[y]
    /\ x \in Wanted(snap) /\ Desired(snap, x) = bucket /\ bucket # None
    /\ \/ /\ mapping'[x] # None /\ mapping'[x].id = id
          /\ mapping'[x].item = snap[x[1]] /\ mapping'[x].dim = bucket
          /\ failures' = failures \ {x} /\ stale' = stale
       \/ mapping' = mapping /\ failures' = failures \cup {x}
    /\ UNCHANGED <<netboxVars, cursor, due, objects, fetchVars, bucket, toCreate,
                   toUpdate, toDelete, deleted, cancelled, superseded>>

SavedNew(x) ==
    /\ created[x] # None /\ Recorded(x, created[x])
    /\ created' \in [Halves -> Ids \cup {None}]
    /\ created'[x] = None
    /\ \A y \in Halves : y # x => created'[y] = created[y]
    /\ stale' \in [Halves -> [id : Ids, dim : Dims] \cup {None}]
    /\ \A y \in Halves : y # x => stale'[y] = stale[y]
    /\ \/ /\ mapping'[x] # None /\ mapping'[x].id = created[x]
          /\ mapping'[x].dim = bucket /\ stale' = stale
       \/ mapping' = mapping /\ stale'[x] = None
    /\ confirmed' = confirmed

LEMMA WriteFacts ==
    ASSUME TypeInv, NEW x \in Halves, NEW row \in Mapping \cup {None},
           mapping' = [mapping EXCEPT ![x] = row]
    PROVE  /\ mapping' \in [Halves -> Mapping \cup {None}] /\ mapping'[x] = row
           /\ \A y \in Halves : y # x => mapping'[y] = mapping[y]
BY DEF TypeInv, TypeOK

LEMMA SaveNewMakes ==
    ASSUME TypeInv, NEW x \in Halves, SavePopulator(x)
    PROVE  SavedNew(x)
<1>1. /\ created[x] # None /\ bucket # None
      /\ created' = [created EXCEPT ![x] = None]
      /\ UNCHANGED <<netboxVars, cursor, due, objects, fetchVars, bucket,
                     toCreate, toUpdate, toDelete, confirmed, deleted, cancelled,
                     superseded>>
  BY DEF SavePopulator, Unsaved
<1>2. /\ created \in [Halves -> Ids \cup {None}]
      /\ stale \in [Halves -> [id : Ids, dim : Dims] \cup {None}]
      /\ mapping \in [Halves -> Mapping \cup {None}]
      /\ failures \subseteq Halves /\ faults \in Nat
  BY DEF TypeInv, TypeOK
<1>3. x \in Wanted(snap) /\ Desired(snap, x) = bucket /\ created[x] \in Ids
  BY <1>1, <1>2 DEF TypeInv, PlanInv
<1>4. /\ created' \in [Halves -> Ids \cup {None}] /\ created'[x] = None
      /\ \A y \in Halves : y # x => created'[y] = created[y]
  BY <1>1, <1>2
<1>5. CASE /\ mapping' = [mapping EXCEPT ![x] = Saved(x, created[x])]
           /\ failures' = failures \ {x} /\ UNCHANGED <<stale, faults>>
  <2>1. /\ Saved(x, created[x]) \in Mapping /\ Saved(x, created[x]) # None
        /\ Saved(x, created[x]).id = created[x]
        /\ Saved(x, created[x]).item = snap[x[1]]
        /\ Saved(x, created[x]).dim = bucket
    BY <1>1, <1>3, SavedFacts
  <2>2. /\ mapping' \in [Halves -> Mapping \cup {None}]
        /\ mapping'[x] = Saved(x, created[x])
        /\ \A y \in Halves : y # x => mapping'[y] = mapping[y]
    BY <1>5, <2>1, WriteFacts
  <2>3. Recorded(x, created[x])
    BY <1>1, <1>2, <1>3, <1>5, <2>1, <2>2 DEF Recorded
  <2>4. QED BY <1>1, <1>2, <1>4, <1>5, <2>1, <2>2, <2>3 DEF SavedNew
<1>6. CASE CountFault(~cancelled) /\ GiveUp(x) /\ UNCHANGED mapping
  <2>1. faults' \in Nat
    BY <1>2, <1>6, SMT DEF CountFault
  <2>2. Recorded(x, created[x])
    BY <1>1, <1>2, <1>3, <1>6, <2>1, GiveUpFacts DEF Recorded
  <2>3. QED BY <1>1, <1>4, <1>6, <2>2, GiveUpFacts DEF SavedNew
<1>7. QED BY <1>5, <1>6 DEF SavePopulator

LEMMA TypeSaveNew ==
    ASSUME TypeInv, NEW x \in Halves, SavedNew(x)
    PROVE  TypeInv'
<1> USE DEF TypeInv, SavedNew, Recorded, netboxVars, fetchVars
<1>1. TypeOK'
  BY DEF TypeOK
<1>2. \A y \in Halves : mapping[y] # None => mapping'[y] # None
  OBVIOUS
<1>3. bucket # None /\ phase = "apply" /\ bucket' = bucket /\ phase' = phase
  BY DEF PlanInv
<1>4. \A y \in Halves : created'[y] # None => created[y] # None
  OBVIOUS
<1>5. UNCHANGED <<snap, toCreate, toUpdate, toDelete, confirmed, deleted>>
  OBVIOUS
<1>6. toCreate \cup toUpdate \cup confirmed \cup toDelete \cup deleted \subseteq Halves
  BY DEF TypeOK
<1> HIDE DEF SavedNew, Recorded
<1>7. PlanInv'
  BY <1>2, <1>3, <1>4, <1>5, <1>6 DEF PlanInv, Wanted
<1>8. QED BY <1>1, <1>7

(***************************************************************************)
(* UpdatePopulator changes what a populator shows, never whose it is or    *)
(* where.                                                                  *)
(***************************************************************************)
Updated(x) ==
    /\ x \in toUpdate /\ toUpdate' = toUpdate \ {x}
    /\ x \in Wanted(snap) /\ Desired(snap, x) = bucket /\ bucket # None
    /\ objects' \subseteq Populators
    /\ \A o \in objects : \E p \in objects' : p.id = o.id /\ p.dim = o.dim
    /\ faults' \in Nat
    /\ failures' \subseteq Halves /\ failures \subseteq failures'
    /\ \/ confirmed' = confirmed \cup {x}
       \/ confirmed' = confirmed /\ x \in failures'
    /\ UNCHANGED <<netboxVars, storeVars, fetchVars, bucket, toCreate,
                   toDelete, created, deleted, stale, cancelled, superseded>>

LEMMA UpdateMakes ==
    ASSUME TypeInv, NEW x \in Halves, UpdatePopulator(x)
    PROVE  Updated(x)
<1> DEFINE id == mapping[x].id
           item == snap[x[1]]
<1>1. PICK told \in BOOLEAN, done \in BOOLEAN :
        /\ CallGoes(Exists(id, bucket) /\ Free(bucket, item.cidr, id), told, done)
        /\ objects' = {IF done /\ o.id = id
                         THEN [id |-> id, dim |-> o.dim, cidr |-> item.cidr,
                               label |-> item.label]
                         ELSE o : o \in objects}
        /\ IF told THEN confirmed' = confirmed \cup {x} /\ UNCHANGED failures
                   ELSE failures' = failures \cup {x} /\ UNCHANGED confirmed
  BY Zenon DEF UpdatePopulator
<1>2. /\ x \in toUpdate /\ Desired(snap, x) = bucket /\ bucket # None
      /\ toUpdate' = toUpdate \ {x}
      /\ UNCHANGED <<netboxVars, storeVars, fetchVars, bucket, toCreate,
                     toDelete, created, deleted, stale, cancelled, superseded>>
  BY DEF UpdatePopulator, PendingUpdates, CreatesDone
<1>3. x \in Wanted(snap) /\ mapping[x] # None
  BY <1>2 DEF TypeInv, PlanInv
<1>4. item \in Content
  BY <1>3, WantedFacts DEF TypeInv, TypeOK
<1>5. item.cidr \in Cidrs /\ item.label \in Labels
  BY <1>4, SMT DEF Content
<1>6. /\ objects \subseteq Populators /\ failures \subseteq Halves
      /\ x \in Halves
  BY DEF TypeInv, TypeOK
<1>7. faults' \in Nat
  BY <1>1, CallFacts DEF TypeInv, TypeOK
<1>8. \A o \in Populators :
        LET p == [id |-> id, dim |-> o.dim, cidr |-> item.cidr, label |-> item.label]
        IN  o.id = id => p \in Populators /\ p.id = o.id /\ p.dim = o.dim
  BY <1>5, SMT DEF Populators
<1> HIDE DEF id, item
<1>9. objects' \subseteq Populators
  BY <1>1, <1>6, <1>8
<1>10. \A o \in objects : \E p \in objects' : p.id = o.id /\ p.dim = o.dim
  BY <1>1, <1>6, <1>8
<1>11. CASE told
  BY <1>1, <1>2, <1>3, <1>6, <1>7, <1>9, <1>10, <1>11 DEF Updated
<1>12. CASE ~told
  BY <1>1, <1>2, <1>3, <1>6, <1>7, <1>9, <1>10, <1>12 DEF Updated
<1>13. QED BY <1>11, <1>12

LEMMA TypeUpdate ==
    ASSUME TypeInv, NEW x \in Halves, Updated(x)
    PROVE  TypeInv'
<1> USE DEF TypeInv, Updated, netboxVars, storeVars, fetchVars
<1>1. TypeOK'
  BY DEF TypeOK
<1>2. bucket # None /\ phase = "apply" /\ bucket' = bucket /\ phase' = phase
  BY DEF PlanInv
<1>3. /\ x \notin toCreate /\ created[x] = None /\ x \notin toDelete \cup deleted
      /\ mapping[x] # None
  BY DEF PlanInv, TypeOK
<1>4. confirmed' \subseteq confirmed \cup {x} /\ toUpdate' = toUpdate \ {x}
      /\ x \in toUpdate
  OBVIOUS
<1>5. UNCHANGED <<snap, mapping, toCreate, toDelete, created, deleted>>
  OBVIOUS
<1>6. x \in Wanted(snap) /\ Desired(snap, x) = bucket
  OBVIOUS
<1> HIDE DEF Updated
<1>7. PlanInv'
  BY <1>2, <1>3, <1>4, <1>5, <1>6 DEF PlanInv, Wanted
<1>8. QED BY <1>1, <1>7

SavedAgain(x) ==
    /\ x \in confirmed /\ confirmed' = confirmed \ {x}
    /\ Recorded(x, mapping[x].id)
    /\ UNCHANGED <<created, stale>>

LEMMA SaveAgainMakes ==
    ASSUME TypeInv, NEW x \in Halves, SaveUpdated(x)
    PROVE  SavedAgain(x)
<1>1. /\ x \in confirmed /\ confirmed' = confirmed \ {x} /\ bucket # None
      /\ UNCHANGED <<netboxVars, cursor, due, objects, fetchVars, bucket,
                     toCreate, toUpdate, toDelete, created, deleted, stale,
                     cancelled, superseded>>
  BY DEF SaveUpdated, CreatesDone
<1>2. failures \subseteq Halves /\ faults \in Nat
      /\ mapping \in [Halves -> Mapping \cup {None}]
  BY DEF TypeInv, TypeOK
<1>3. x \in Wanted(snap) /\ Desired(snap, x) = bucket /\ mapping[x].id \in Ids
  BY <1>1, RowFacts DEF TypeInv, PlanInv
<1>4. CASE /\ mapping' = [mapping EXCEPT ![x] = Saved(x, mapping[x].id)]
           /\ failures' = failures \ {x} /\ UNCHANGED faults
  <2>1. /\ Saved(x, mapping[x].id) \in Mapping /\ Saved(x, mapping[x].id) # None
        /\ Saved(x, mapping[x].id).id = mapping[x].id
        /\ Saved(x, mapping[x].id).item = snap[x[1]]
        /\ Saved(x, mapping[x].id).dim = bucket
    BY <1>1, <1>3, SavedFacts
  <2>2. /\ mapping' \in [Halves -> Mapping \cup {None}]
        /\ mapping'[x] = Saved(x, mapping[x].id)
        /\ \A y \in Halves : y # x => mapping'[y] = mapping[y]
    BY <1>4, <2>1, WriteFacts
  <2>3. QED BY <1>1, <1>2, <1>3, <1>4, <2>1, <2>2 DEF SavedAgain, Recorded
<1>5. CASE CountFault(~cancelled) /\ failures' = failures \cup {x}
             /\ UNCHANGED mapping
  <2>1. faults' \in Nat
    BY <1>2, <1>5, SMT DEF CountFault
  <2>2. QED BY <1>1, <1>2, <1>3, <1>5, <2>1 DEF SavedAgain, Recorded
<1>6. QED BY <1>4, <1>5 DEF SaveUpdated

LEMMA TypeSaveAgain ==
    ASSUME TypeInv, NEW x \in Halves, SavedAgain(x)
    PROVE  TypeInv'
<1> USE DEF TypeInv, SavedAgain, Recorded, netboxVars, fetchVars
<1>1. TypeOK'
  BY DEF TypeOK
<1>2. \A y \in Halves : mapping[y] # None => mapping'[y] # None
  OBVIOUS
<1>3. bucket # None /\ phase = "apply" /\ bucket' = bucket /\ phase' = phase
  BY DEF PlanInv
<1>4. UNCHANGED <<snap, toCreate, toUpdate, toDelete, created, deleted>>
      /\ confirmed' \subseteq confirmed
  OBVIOUS
<1>5. toCreate \cup toUpdate \cup confirmed \cup toDelete \cup deleted \subseteq Halves
  BY DEF TypeOK
<1> HIDE DEF SavedAgain, Recorded
<1>6. PlanInv'
  BY <1>2, <1>3, <1>4, <1>5 DEF PlanInv, Wanted
<1>7. QED BY <1>1, <1>6

(***************************************************************************)
(* A removal, of the old populator of x or of the one in its row.          *)
(***************************************************************************)
Taken(id) ==
    /\ objects' \subseteq objects
    /\ \A o \in objects : o \in objects' \/ o.id = id
    /\ faults' \in Nat
    /\ failures' \subseteq Halves /\ failures \subseteq failures'

Deleted(x) ==
    /\ x \in toDelete /\ toDelete' = toDelete \ {x}
    /\ bucket # None
    /\ Taken(mapping[x].id)
    /\ \/ deleted' = deleted \cup {x}
       \/ deleted' = deleted
    /\ UNCHANGED <<netboxVars, storeVars, fetchVars, bucket, toCreate,
                   toUpdate, created, confirmed, stale, cancelled, superseded>>

LEMMA DeleteMakes ==
    ASSUME TypeInv, NEW x \in Halves, DeletePopulator(x)
    PROVE  Deleted(x)
<1>1. PICK told \in BOOLEAN, done \in BOOLEAN :
        /\ CallGoes(Exists(mapping[x].id, bucket), told, done)
        /\ objects' = {o \in objects : ~(done /\ o.id = mapping[x].id)}
        /\ IF told THEN deleted' = deleted \cup {x} /\ UNCHANGED failures
                   ELSE failures' = failures \cup {x} /\ UNCHANGED deleted
  BY Zenon DEF DeletePopulator
<1>2. /\ x \in toDelete /\ toDelete' = toDelete \ {x} /\ bucket # None
      /\ UNCHANGED <<netboxVars, storeVars, fetchVars, bucket, toCreate, toUpdate,
                     created, confirmed, stale, cancelled, superseded>>
  BY DEF DeletePopulator, PendingDeletes, UpdatesDone, CreatesDone
<1>3. faults' \in Nat /\ failures \subseteq Halves
  BY <1>1, CallFacts DEF TypeInv, TypeOK
<1>4. /\ failures' = failures \/ failures' = failures \cup {x}
      /\ deleted' = deleted \/ deleted' = deleted \cup {x}
  BY <1>1
<1>5. objects' \subseteq objects /\ \A o \in objects : o \in objects' \/ o.id = mapping[x].id
  BY <1>1
<1>6. QED BY <1>2, <1>3, <1>4, <1>5 DEF Deleted, Taken

LEMMA TypeDelete ==
    ASSUME TypeInv, NEW x \in Halves, Deleted(x)
    PROVE  TypeInv'
<1> USE DEF TypeInv, Deleted, Taken, netboxVars, storeVars, fetchVars
<1>1. TypeOK'
  BY DEF TypeOK
<1>2. bucket # None /\ phase = "apply" /\ bucket' = bucket /\ phase' = phase
  BY DEF PlanInv
<1>3. /\ toDelete' = toDelete \ {x} /\ x \in toDelete
      /\ deleted' \subseteq deleted \cup {x}
  OBVIOUS
<1>4. UNCHANGED <<snap, mapping, toCreate, toUpdate, created, confirmed>>
  OBVIOUS
<1> HIDE DEF Deleted, Taken
<1>5. PlanInv'
  BY <1>2, <1>3, <1>4 DEF PlanInv, Wanted
<1>6. QED BY <1>1, <1>5

Forgotten(x) ==
    /\ x \in deleted /\ deleted' = deleted \ {x}
    /\ bucket # None
    /\ mapping' \in [Halves -> Mapping \cup {None}]
    /\ \A y \in Halves : y # x => mapping'[y] = mapping[y]
    /\ faults' \in Nat /\ failures' \subseteq Halves
    /\ \/ mapping'[x] = None /\ failures' = failures \ {x}
       \/ mapping' = mapping /\ failures' = failures \cup {x}
    /\ UNCHANGED <<netboxVars, cursor, due, objects, fetchVars, bucket,
                   toCreate, toUpdate, toDelete, created, confirmed, stale,
                   cancelled, superseded>>

LEMMA ForgetMakes ==
    ASSUME TypeInv, NEW x \in Halves, Forget(x)
    PROVE  Forgotten(x)
<1>1. /\ x \in deleted /\ deleted' = deleted \ {x} /\ bucket # None
      /\ UNCHANGED <<netboxVars, cursor, due, objects, fetchVars, bucket,
                     toCreate, toUpdate, toDelete, created, confirmed, stale,
                     cancelled, superseded>>
  BY DEF Forget, UpdatesDone, CreatesDone
<1>2. /\ failures \subseteq Halves /\ faults \in Nat
      /\ mapping \in [Halves -> Mapping \cup {None}]
  BY DEF TypeInv, TypeOK
<1>3. CASE /\ mapping' = [mapping EXCEPT ![x] = None]
           /\ failures' = failures \ {x} /\ UNCHANGED faults
  <2>1. /\ mapping' \in [Halves -> Mapping \cup {None}] /\ mapping'[x] = None
        /\ \A y \in Halves : y # x => mapping'[y] = mapping[y]
    BY <1>3, WriteFacts
  <2>2. QED BY <1>1, <1>2, <1>3, <2>1 DEF Forgotten
<1>4. CASE CountFault(~cancelled) /\ failures' = failures \cup {x}
             /\ UNCHANGED mapping
  <2>1. faults' \in Nat
    BY <1>2, <1>4, SMT DEF CountFault
  <2>2. QED BY <1>1, <1>2, <1>4, <2>1 DEF Forgotten
<1>5. QED BY <1>3, <1>4 DEF Forget

LEMMA TypeForget ==
    ASSUME TypeInv, NEW x \in Halves, Forgotten(x)
    PROVE  TypeInv'
<1> USE DEF TypeInv, Forgotten, netboxVars, fetchVars
<1>1. TypeOK'
  BY DEF TypeOK
<1>2. bucket # None /\ phase = "apply" /\ bucket' = bucket /\ phase' = phase
  BY DEF PlanInv
<1>3. /\ x \notin toUpdate \cup confirmed \cup toDelete
      /\ x \in deleted /\ deleted' = deleted \ {x}
  BY DEF PlanInv
<1>4. \A y \in Halves : y # x => mapping'[y] = mapping[y]
  OBVIOUS
<1>5. UNCHANGED <<snap, toCreate, toUpdate, toDelete, created, confirmed>>
  OBVIOUS
<1>6. toUpdate \cup confirmed \cup toDelete \cup deleted \subseteq Halves
  BY DEF TypeOK
<1> HIDE DEF Forgotten
<1>7. PlanInv'
  BY <1>2, <1>3, <1>4, <1>5, <1>6 DEF PlanInv, Wanted
<1>8. QED BY <1>1, <1>7

CleanedUp(x) ==
    /\ phase = "apply" /\ bucket = None
    /\ toCreate = {} /\ toUpdate = {} /\ toDelete = {}
    /\ stale[x] # None /\ stale'[x] = None
    /\ stale' \in [Halves -> [id : Ids, dim : Dims] \cup {None}]
    /\ \A y \in Halves : y # x => stale'[y] = stale[y]
    /\ Taken(stale[x].id)
    /\ UNCHANGED <<netboxVars, storeVars, fetchVars, bucket, planVars,
                   cancelled, superseded>>

LEMMA CleanUpMakes ==
    ASSUME TypeInv, NEW x \in Halves, CleanUp(x)
    PROVE  CleanedUp(x)
<1>1. PICK told \in BOOLEAN, done \in BOOLEAN :
        /\ CallGoes(Exists(stale[x].id, stale[x].dim), told, done)
        /\ objects' = {o \in objects : ~(done /\ o.id = stale[x].id)}
        /\ failures' = IF told THEN failures ELSE failures \cup {x}
  BY Zenon DEF CleanUp
<1>2. /\ phase = "apply" /\ bucket = None
      /\ toCreate = {} /\ toUpdate = {} /\ toDelete = {}
      /\ stale[x] # None /\ stale' = [stale EXCEPT ![x] = None]
      /\ UNCHANGED <<netboxVars, storeVars, fetchVars, bucket, planVars,
                     cancelled, superseded>>
  BY DEF CleanUp, BucketsDone
<1>3. stale \in [Halves -> [id : Ids, dim : Dims] \cup {None}]
      /\ failures \subseteq Halves
  BY DEF TypeInv, TypeOK
<1>4. /\ stale' \in [Halves -> [id : Ids, dim : Dims] \cup {None}]
      /\ stale'[x] = None
      /\ \A y \in Halves : y # x => stale'[y] = stale[y]
  BY <1>2, <1>3
<1>5. faults' \in Nat
  BY <1>1, CallFacts DEF TypeInv, TypeOK
<1>6. failures' = failures \/ failures' = failures \cup {x}
  BY <1>1
<1>7. objects' \subseteq objects /\ \A o \in objects : o \in objects' \/ o.id = stale[x].id
  BY <1>1
<1>8. QED BY <1>2, <1>3, <1>4, <1>5, <1>6, <1>7 DEF CleanedUp, Taken

LEMMA TypeCleanUp ==
    ASSUME TypeInv, NEW x \in Halves, CleanedUp(x)
    PROVE  TypeInv'
<1> USE DEF TypeInv, CleanedUp, Taken, netboxVars, storeVars, fetchVars, planVars
<1>1. TypeOK'
  BY DEF TypeOK
<1>2. phase' = "apply"
  OBVIOUS
<1>3. UNCHANGED <<snap, mapping, toCreate, toUpdate, toDelete, created, confirmed,
                  deleted, bucket>>
  OBVIOUS
<1> HIDE DEF CleanedUp, Taken
<1>4. PlanInv'
  BY <1>2, <1>3 DEF PlanInv, Wanted
<1>5. QED BY <1>1, <1>4

(***************************************************************************)
(* What a step can be, with the effects of each.                           *)
(***************************************************************************)
Effect ==
    \/ UNCHANGED vars \/ NetBoxStep
    \/ Tick \/ StartRun \/ MarkerAges \/ BeginFetch \/ FetchFails
         \/ CommitRun \/ Crash \/ Cancel
    \/ EndFetch \/ CloseBucket
    \/ \E d \in Dims : OpenBucket(d)
    \/ \E x \in Halves :
          \/ Created(x) \/ SavedNew(x) \/ Updated(x) \/ SavedAgain(x)
          \/ Deleted(x) \/ Forgotten(x) \/ CleanedUp(x)

LEMMA StepEffect == TypeInv /\ [Next]_vars => Effect
<1> SUFFICES ASSUME TypeInv, [Next]_vars PROVE Effect
  OBVIOUS
<1>1. CASE ApplyStep
  BY <1>1, CreateMakes, SaveNewMakes, UpdateMakes, SaveAgainMakes, DeleteMakes,
     ForgetMakes, CleanUpMakes DEF ApplyStep, Effect
<1>2. CASE UNCHANGED vars
  BY <1>2 DEF Effect
<1>3. CASE Next /\ ~ApplyStep
  BY <1>3 DEF Next, AgentStep, Effect
<1>4. QED BY <1>1, <1>2, <1>3

LEMMA TypeStep == TypeInv /\ [Next]_vars => TypeInv'
<1> SUFFICES ASSUME TypeInv, [Next]_vars PROVE TypeInv'
  OBVIOUS
<1>1. Effect
  BY StepEffect
<1>2. QED
  BY <1>1, TypeStutter, TypeNetBox, TypeControl, TypeEndFetch, TypeClose, TypeOpen,
     TypeCreate, TypeSaveNew, TypeUpdate, TypeSaveAgain, TypeDelete, TypeForget,
     TypeCleanUp DEF Effect

(***************************************************************************)
(* TypeOK holds in every reachable state.                                  *)
(***************************************************************************)
THEOREM IPGroupsTypeCorrect == Spec => []TypeOK
<1>1. TypeInv => TypeOK
  BY DEF TypeInv
<1>2. QED BY <1>1, TypeInit, TypeStep, PTL DEF Spec

-----------------------------------------------------------------------------
(***************************************************************************)
(* Moves.  An ID belongs to one half for ever.  While the old populator of *)
(* a half is still to be removed, its new one is to be created, or waits to*)
(* be recorded, or is recorded and live, under an ID of its own.           *)
(***************************************************************************)
MoveInv ==
    /\ \A x \in Halves : mapping[x] # None => mapping[x].id[1] = x
    /\ \A x \in Halves : created[x] # None =>
          created[x][1] = x /\ Exists(created[x], bucket)
    /\ \A x \in Halves : stale[x] # None =>
          /\ stale[x].id[1] = x
          /\ x \notin toUpdate \cup confirmed \cup toDelete \cup deleted
          /\ created[x] # stale[x].id
          /\ \/ x \in toCreate
             \/ created[x] # None
             \/ /\ mapping[x] # None /\ mapping[x].id # stale[x].id
                /\ Exists(mapping[x].id, mapping[x].dim)

LEMMA MoveSame ==
    ASSUME MoveInv, UNCHANGED <<mapping, created, stale, objects, toCreate,
                                toUpdate, confirmed, toDelete, deleted>>,
           bucket' = bucket \/ created = Blank
    PROVE  MoveInv'
BY BlankFacts DEF MoveInv, Exists

LEMMA MoveReset ==
    ASSUME MoveInv, RunReset, mapping' = mapping
    PROVE  MoveInv'
BY BlankFacts DEF MoveInv, RunReset

LEMMA MoveEndFetch ==
    ASSUME TypeInv, MoveInv, EndFetch
    PROVE  MoveInv'
<1>1. Planned
  BY PlanMade
<1>2. /\ UNCHANGED <<mapping, objects, bucket, created, confirmed, deleted>>
      /\ phase = "fetch"
  BY DEF EndFetch, storeVars
<1>3. bucket = None /\ created = Blank /\ confirmed = {} /\ deleted = {}
  BY <1>2 DEF TypeInv, PlanInv
<1>4. ASSUME NEW x \in Halves, stale'[x] # None
      PROVE  /\ stale'[x].id[1] = x /\ x \in toCreate'
             /\ x \notin toUpdate' \cup toDelete'
             /\ created[x] # stale'[x].id
  <2>1. /\ x \in toCreate' /\ mapping[x] # None /\ stale'[x].id = mapping[x].id
        /\ x \notin toUpdate' \cup toDelete'
    BY <1>1, <1>4 DEF Planned
  <2>2. stale'[x].id \in Ids /\ stale'[x].id[1] = x
    BY <2>1, RowFacts DEF MoveInv
  <2>3. created[x] = None
    BY <1>3, BlankFacts
  <2>4. QED BY <2>1, <2>2, <2>3, IPGroupSyncAssumption
<1>5. QED BY <1>2, <1>3, <1>4, BlankFacts DEF MoveInv

LEMMA MoveCreate ==
    ASSUME TypeInv, MoveInv, NEW x \in Halves, Created(x)
    PROVE  MoveInv'
<1> USE DEF Created, storeVars, TypeInv
<1>1. mapping' = mapping /\ bucket' = bucket
      /\ UNCHANGED <<toUpdate, toDelete, confirmed, deleted>>
  OBVIOUS
<1>2. \A id, d : Exists(id, d) => Exists(id, d)'
  BY DEF Exists
<1>3. x \notin toUpdate \cup confirmed \cup toDelete \cup deleted
  BY DEF PlanInv
<1>4. CASE /\ stale' = stale /\ created'[x] # None /\ created'[x][1] = x
           /\ ~InUse(created'[x])
           /\ \E o \in objects' : o.id = created'[x] /\ o.dim = bucket
  <2>1. Exists(created[x], bucket)'
    BY <1>1, <1>4 DEF Exists
  <2>2. stale[x] # None => created'[x] # stale[x].id
    BY <1>4 DEF InUse
  <2>3. QED BY <1>1, <1>2, <1>4, <2>1, <2>2 DEF MoveInv, Exists
<1>5. CASE created' = created /\ stale'[x] = None
  BY <1>1, <1>2, <1>5 DEF MoveInv, Exists
<1>6. QED BY <1>4, <1>5

LEMMA MoveSaveNew ==
    ASSUME TypeInv, MoveInv, NEW x \in Halves, SavedNew(x)
    PROVE  MoveInv'
<1> USE DEF SavedNew, Recorded, TypeInv
<1>1. UNCHANGED <<objects, bucket, toCreate, toUpdate, toDelete, confirmed, deleted>>
  OBVIOUS
<1>2. created[x][1] = x /\ Exists(created[x], bucket)
  BY DEF MoveInv
<1>3. /\ \A y \in Halves : y # x => /\ mapping'[y] = mapping[y]
                                  /\ created'[y] = created[y]
                                  /\ stale'[y] = stale[y]
      /\ created[x] # None /\ created'[x] = None
  OBVIOUS
<1>4. CASE mapping'[x] # None /\ mapping'[x].id = created[x]
             /\ mapping'[x].dim = bucket /\ stale' = stale
  <2> HIDE DEF SavedNew, Recorded
  <2>1. Exists(mapping[x].id, mapping[x].dim)'
    BY <1>1, <1>2, <1>4 DEF Exists
  <2>2. \A y \in Halves : mapping'[y] # None => mapping'[y].id[1] = y
    BY <1>2, <1>3, <1>4 DEF MoveInv
  <2>3. \A y \in Halves : created'[y] # None =>
            created'[y][1] = y /\ Exists(created[y], bucket)'
    BY <1>1, <1>3 DEF MoveInv, Exists
  <2>4. ASSUME NEW y \in Halves, stale'[y] # None
        PROVE  /\ stale'[y].id[1] = y
               /\ y \notin toUpdate' \cup confirmed' \cup toDelete' \cup deleted'
               /\ created'[y] # stale'[y].id
               /\ \/ y \in toCreate'
                  \/ created'[y] # None
                  \/ /\ mapping'[y] # None /\ mapping'[y].id # stale'[y].id
                     /\ Exists(mapping[y].id, mapping[y].dim)'
    <3>1. CASE y = x
      <4>1. stale[x].id \in Ids
        BY <1>4, <2>4, <3>1, SMT DEF TypeOK
      <4>2. QED
        BY <1>1, <1>2, <1>3, <1>4, <2>1, <2>4, <3>1, <4>1, IPGroupSyncAssumption
           DEF MoveInv
    <3>2. CASE y # x
      BY <1>1, <1>3, <2>4, <3>2 DEF MoveInv, Exists
    <3>3. QED BY <3>1, <3>2
  <2>5. QED BY <2>2, <2>3, <2>4 DEF MoveInv
<1>5. CASE mapping' = mapping /\ stale'[x] = None
  <2> HIDE DEF SavedNew, Recorded
  <2>1. QED BY <1>1, <1>3, <1>5 DEF MoveInv, Exists
<1>6. QED BY <1>4, <1>5

LEMMA MoveUpdate ==
    ASSUME TypeInv, MoveInv, NEW x \in Halves, Updated(x)
    PROVE  MoveInv'
<1> USE DEF Updated, storeVars
<1>1. \A id, d : Exists(id, d) => Exists(id, d)'
  BY DEF Exists
<1>2. /\ UNCHANGED <<mapping, created, stale, bucket, toCreate, toDelete, deleted>>
      /\ x \in toUpdate /\ toUpdate' = toUpdate \ {x}
      /\ confirmed' \subseteq confirmed \cup {x}
  OBVIOUS
<1> HIDE DEF Updated
<1>3. QED BY <1>1, <1>2 DEF MoveInv, Exists

LEMMA MoveSaveAgain ==
    ASSUME TypeInv, MoveInv, NEW x \in Halves, SavedAgain(x)
    PROVE  MoveInv'
<1> USE DEF SavedAgain, Recorded, TypeInv
<1>1. UNCHANGED <<objects, bucket, toCreate, toUpdate, toDelete, created, deleted,
                  stale>>
  OBVIOUS
<1>2. x \in confirmed /\ confirmed' = confirmed \ {x} /\ mapping[x] # None
  BY DEF PlanInv
<1>3. stale[x] = None
  BY <1>2 DEF MoveInv
<1>4. mapping'[x] # None => mapping'[x].id[1] = x
  BY <1>2 DEF MoveInv
<1>5. \A y \in Halves : y # x => mapping'[y] = mapping[y]
  OBVIOUS
<1> HIDE DEF SavedAgain, Recorded
<1>6. QED BY <1>1, <1>2, <1>3, <1>4, <1>5 DEF MoveInv, Exists

(***************************************************************************)
(* A removed populator is that of the row of x, or the old one of x; those *)
(* of the other halves, and the new one of x, have other IDs.              *)
(***************************************************************************)
LEMMA MoveDelete ==
    ASSUME TypeInv, MoveInv, NEW x \in Halves, Deleted(x)
    PROVE  MoveInv'
<1> USE DEF Deleted, Taken, storeVars
<1>1. /\ UNCHANGED <<mapping, created, stale, bucket, toCreate, toUpdate, confirmed>>
      /\ x \in toDelete /\ toDelete' = toDelete \ {x}
      /\ deleted' \subseteq deleted \cup {x}
      /\ \A o \in objects : o \in objects' \/ o.id = mapping[x].id
  OBVIOUS
<1> HIDE DEF Deleted, Taken
<1>2. mapping[x] # None /\ created[x] = None /\ stale[x] = None
  BY <1>1 DEF TypeInv, PlanInv, MoveInv
<1>3. \A id, d : id[1] # x /\ Exists(id, d) => Exists(id, d)'
  BY <1>1, <1>2 DEF MoveInv, Exists
<1>4. ASSUME NEW y \in Halves, created[y] # None
      PROVE  created[y][1] = y /\ Exists(created[y], bucket)'
  BY <1>1, <1>2, <1>3, <1>4 DEF MoveInv, Exists
<1>5. ASSUME NEW y \in Halves, stale[y] # None, y \notin toCreate, created[y] = None
      PROVE  /\ mapping[y] # None /\ mapping[y].id # stale[y].id
             /\ Exists(mapping[y].id, mapping[y].dim)'
  <2>1. /\ mapping[y] # None /\ mapping[y].id # stale[y].id /\ y # x
        /\ Exists(mapping[y].id, mapping[y].dim) /\ mapping[y].id[1] = y
    BY <1>2, <1>5 DEF MoveInv
  <2>2. QED BY <1>1, <1>3, <2>1 DEF Exists
<1>6. QED BY <1>1, <1>4, <1>5 DEF MoveInv, Exists

LEMMA MoveForget ==
    ASSUME TypeInv, MoveInv, NEW x \in Halves, Forgotten(x)
    PROVE  MoveInv'
<1> USE DEF Forgotten
<1>1. UNCHANGED <<objects, bucket, toCreate, toUpdate, toDelete, created, confirmed,
                  stale>>
  OBVIOUS
<1>2. x \in deleted /\ deleted' = deleted \ {x} /\ stale[x] = None
  BY DEF MoveInv
<1>3. \A y \in Halves : y # x => mapping'[y] = mapping[y]
  OBVIOUS
<1>4. mapping'[x] # None => mapping'[x].id[1] = x
  BY DEF MoveInv
<1> HIDE DEF Forgotten
<1>5. QED BY <1>1, <1>2, <1>3, <1>4 DEF MoveInv, Exists

LEMMA MoveCleanUp ==
    ASSUME TypeInv, MoveInv, NEW x \in Halves, CleanedUp(x)
    PROVE  MoveInv'
<1> USE DEF CleanedUp, Taken, storeVars, planVars
<1>1. /\ UNCHANGED <<mapping, created, bucket, toCreate, toUpdate, confirmed,
                     toDelete, deleted>>
      /\ stale[x] # None /\ stale'[x] = None /\ bucket = None /\ toCreate = {}
      /\ \A y \in Halves : y # x => stale'[y] = stale[y]
      /\ \A o \in objects : o \in objects' \/ o.id = stale[x].id
  OBVIOUS
<1> HIDE DEF CleanedUp, Taken
<1>2. \A y \in Halves : created[y] = None
  BY <1>1, BlankFacts DEF TypeInv, PlanInv
<1>3. stale[x].id[1] = x
  BY <1>1 DEF MoveInv
<1>4. ASSUME NEW y \in Halves, y # x, stale[y] # None
      PROVE  /\ mapping[y] # None /\ mapping[y].id # stale[y].id
             /\ Exists(mapping[y].id, mapping[y].dim)'
  <2>1. /\ mapping[y] # None /\ mapping[y].id # stale[y].id
        /\ Exists(mapping[y].id, mapping[y].dim) /\ mapping[y].id[1] = y
    BY <1>1, <1>2, <1>4 DEF MoveInv
  <2>2. QED BY <1>1, <1>3, <1>4, <2>1 DEF Exists
<1>5. QED BY <1>1, <1>2, <1>4 DEF MoveInv, Exists

(***************************************************************************)
(* The steps that change neither a row nor a populator nor, but for        *)
(* EndFetch, what is planned.                                              *)
(***************************************************************************)
Quiet == \/ UNCHANGED vars \/ NetBoxStep
         \/ Tick \/ StartRun \/ MarkerAges \/ BeginFetch \/ FetchFails
         \/ CommitRun \/ Crash \/ Cancel
         \/ EndFetch \/ CloseBucket
         \/ \E d \in Dims : OpenBucket(d)

LEMMA QuietFacts == Quiet => mapping' = mapping /\ objects' = objects
BY DEF Quiet, vars, netboxVars, storeVars, NetBoxStep, AddGroup, ChangeGroup,
       RemoveGroup, Edit, Tick, StartRun, MarkerAges, BeginFetch, FetchFails,
       CommitRun, Crash, Cancel, EndFetch, CloseBucket, OpenBucket

LEMMA MoveQuiet ==
    ASSUME TypeInv, MoveInv, Quiet
    PROVE  MoveInv'
<1> DEFINE Kept3 == UNCHANGED <<mapping, created, stale, objects, toCreate,
                                toUpdate, confirmed, toDelete, deleted>>
<1>1. CASE UNCHANGED vars \/ NetBoxStep \/ Tick \/ StartRun \/ MarkerAges
             \/ BeginFetch \/ Cancel
  <2>1. Kept3 /\ bucket' = bucket
    BY <1>1 DEF vars, netboxVars, storeVars, fetchVars, planVars, NetBoxStep,
       AddGroup, ChangeGroup, RemoveGroup, Edit, Tick, StartRun, MarkerAges,
       BeginFetch, Cancel
  <2>2. QED BY <2>1, MoveSame
<1>2. CASE FetchFails \/ CommitRun \/ Crash
  <2>1. RunReset
    BY <1>2 DEF FetchFails, CommitRun, Crash
  <2>2. QED BY <2>1, QuietFacts, MoveReset
<1>3. CASE EndFetch
  BY <1>3, MoveEndFetch
<1>4. CASE CloseBucket
  <2>1. Kept3
    BY <1>4 DEF CloseBucket, storeVars, planVars
  <2>2. \A x \in Halves : created[x] = None
    BY <1>4 DEF CloseBucket, UpdatesDone, CreatesDone, Unsaved
  <2>3. created = Blank
    BY <2>2 DEF Blank, TypeInv, TypeOK
  <2>4. QED BY <2>1, <2>3, MoveSame
<1>5. CASE \E d \in Dims : OpenBucket(d)
  <2>1. Kept3 /\ bucket = None
    BY <1>5 DEF OpenBucket, storeVars, planVars
  <2>2. created = Blank
    BY <2>1 DEF TypeInv, PlanInv
  <2>3. QED BY <2>1, <2>2, MoveSame
<1>6. QED BY <1>1, <1>2, <1>3, <1>4, <1>5 DEF Quiet

LEMMA MoveStep == TypeInv /\ MoveInv /\ [Next]_vars => MoveInv'
<1> SUFFICES ASSUME TypeInv, MoveInv, [Next]_vars PROVE MoveInv'
  OBVIOUS
<1>1. Effect
  BY StepEffect
<1>2. QED
  BY <1>1, MoveQuiet, MoveCreate, MoveSaveNew, MoveUpdate, MoveSaveAgain,
     MoveDelete, MoveForget, MoveCleanUp DEF Effect, Quiet

LEMMA MoveInit == Init => MoveInv
BY BlankFacts DEF Init, MoveInv

(***************************************************************************)
(* A populator goes in one of two ways.                                    *)
(***************************************************************************)
LEMMA RemovedBy ==
    ASSUME TypeInv, [Next]_vars, NEW o \in objects, Removed(o)
    PROVE  \/ \E x \in toDelete : Deleted(x) /\ o.id = mapping[x].id
           \/ \E x \in Halves : CleanedUp(x) /\ o.id = stale[x].id
<1>1. Effect
  BY StepEffect
<1>2. o \notin objects' /\ ~(\E p \in objects' : p.id = o.id)
  BY DEF Removed
<1>3. ~Quiet
  BY <1>2, QuietFacts
<1>4. PICK x \in Halves : \/ Created(x) \/ SavedNew(x) \/ Updated(x)
                         \/ SavedAgain(x) \/ Deleted(x) \/ Forgotten(x)
                         \/ CleanedUp(x)
  BY <1>1, <1>3 DEF Effect, Quiet
<1>5. ~Created(x) /\ ~Updated(x)
  BY <1>2 DEF Created, Updated
<1>6. ~SavedNew(x) /\ ~SavedAgain(x) /\ ~Forgotten(x)
  BY <1>2 DEF SavedNew, SavedAgain, Recorded, Forgotten
<1>7. QED BY <1>2, <1>4, <1>5, <1>6 DEF Deleted, CleanedUp, Taken

(***************************************************************************)
(* A move removes the old populator of a group only when the new one is    *)
(* recorded and live, whatever fails and whenever.                         *)
(***************************************************************************)
THEOREM MoveCreatesFirstHolds == Spec => MoveCreatesFirst
<1>1. TypeInv /\ MoveInv /\ [Next]_vars
        => [\A x \in Halves, o \in objects :
              (stale[x] # None /\ o.id = stale[x].id /\ Removed(o)) =>
                 /\ mapping[x].id # o.id
                 /\ Exists(mapping[x].id, mapping[x].dim)]_vars
  <2> SUFFICES ASSUME TypeInv, MoveInv, [Next]_vars,
                      NEW x \in Halves, NEW o \in objects,
                      stale[x] # None, o.id = stale[x].id, Removed(o)
               PROVE  /\ mapping[x].id # o.id
                      /\ Exists(mapping[x].id, mapping[x].dim)
    OBVIOUS
  <2>1. o.id[1] = x
    BY DEF MoveInv
  <2>2. ASSUME NEW y \in toDelete, o.id = mapping[y].id PROVE FALSE
    <3>1. y \in Halves /\ mapping[y] # None
      BY <2>2 DEF TypeInv, TypeOK, PlanInv
    <3>2. y = x
      BY <2>1, <2>2, <3>1 DEF MoveInv
    <3>3. QED BY <2>2, <3>2 DEF MoveInv
  <2>3. PICK y \in Halves : CleanedUp(y) /\ o.id = stale[y].id
    BY <2>2, RemovedBy
  <2>4. toCreate = {} /\ bucket = None
    BY <2>3 DEF CleanedUp
  <2>5. created[x] = None
    BY <2>4, BlankFacts DEF TypeInv, PlanInv
  <2>6. QED BY <2>4, <2>5 DEF MoveInv
<1>2. QED
  BY <1>1, TypeInit, TypeStep, MoveInit, MoveStep, PTL DEF Spec, MoveCreatesFirst

-----------------------------------------------------------------------------
(***************************************************************************)
(* Time.  No fetch began and no cursor lies in the future, and a fetch that*)
(* is not of everything starts at the cursor.                              *)
(***************************************************************************)
TimeInv ==
    /\ fetchStart <= clock /\ cursor <= clock
    /\ phase = "fetch" =>
          /\ full => since = 0 /\ (due \/ cursor = 0)
          /\ ~full => since = cursor
    /\ phase \in {"fetch", "apply"} => cursor <= fetchStart

\* The steps that apply the plan change neither the clock nor the window.
LEMMA WindowKept ==
    ASSUME NEW x \in Halves,
           \/ Created(x) \/ SavedNew(x) \/ Updated(x) \/ SavedAgain(x)
           \/ Deleted(x) \/ Forgotten(x) \/ CleanedUp(x)
    PROVE  UNCHANGED <<inv, updated, clock, cursor, due, phase, full, since,
                       fetchStart, snap, superseded>>
BY DEF Created, SavedNew, Recorded, Updated, SavedAgain, Deleted, Forgotten,
       CleanedUp, netboxVars, storeVars, fetchVars

LEMMA TimeStep == TypeInv /\ TimeInv /\ [Next]_vars => TimeInv'
<1> SUFFICES ASSUME TypeInv, TimeInv, [Next]_vars PROVE TimeInv'
  OBVIOUS
<1> USE DEF netboxVars, storeVars, fetchVars
<1>1. /\ clock \in Nat /\ cursor \in Nat /\ fetchStart \in Nat /\ since \in Nat
      /\ phase \in {"idle", "begin", "fetch", "apply"}
      /\ full \in BOOLEAN /\ due \in BOOLEAN
  BY DEF TypeInv, TypeOK
<1>2. Effect
  BY StepEffect
<1>3. CASE \E x \in Halves : \/ Created(x) \/ SavedNew(x) \/ Updated(x)
                            \/ SavedAgain(x) \/ Deleted(x) \/ Forgotten(x)
                            \/ CleanedUp(x)
  <2>1. UNCHANGED <<clock, cursor, due, phase, full, since, fetchStart>>
    BY <1>3, WindowKept
  <2>2. QED BY <2>1 DEF TimeInv
<1>4. CASE \/ UNCHANGED vars \/ NetBoxStep \/ Cancel \/ CloseBucket
           \/ \E d \in Dims : OpenBucket(d)
  <2>1. UNCHANGED <<clock, cursor, due, phase, full, since, fetchStart>>
    BY <1>4 DEF vars, NetBoxStep, AddGroup, ChangeGroup, RemoveGroup, Edit,
                Cancel, CloseBucket, OpenBucket
  <2>2. QED BY <2>1 DEF TimeInv
<1>5. CASE Tick
  <2>1. clock' = clock + 1
        /\ UNCHANGED <<cursor, due, phase, full, since, fetchStart>>
    BY <1>5 DEF Tick
  <2>2. QED BY <1>1, <2>1, SMT DEF TimeInv
<1>6. CASE StartRun
  BY <1>1, <1>6, SMT DEF StartRun, TimeInv
<1>7. CASE MarkerAges
  BY <1>1, <1>7, SMT DEF MarkerAges, TimeInv
<1>8. CASE BeginFetch
  BY <1>1, <1>8, SMT DEF BeginFetch, TimeInv
<1>9. CASE EndFetch
  BY <1>1, <1>9, SMT DEF EndFetch, TimeInv
<1>10. CASE FetchFails \/ CommitRun \/ Crash
  <2>1. /\ phase' = "idle" /\ fetchStart' = 0 /\ clock' = clock
        /\ cursor' = cursor \/ cursor' = fetchStart
    BY <1>10 DEF FetchFails, CommitRun, NewCursor, Crash, RunReset
  <2>2. QED BY <1>1, <2>1, SMT DEF TimeInv
<1>11. QED
  BY <1>2, <1>3, <1>4, <1>5, <1>6, <1>7, <1>8, <1>9, <1>10 DEF Effect

LEMMA TimeInit == Init => TimeInv
BY SMT DEF Init, TimeInv

(***************************************************************************)
(* What an edit in NetBox does: it is stamped with the present.            *)
(***************************************************************************)
LEMMA EditFacts ==
    ASSUME TypeInv, NetBoxStep
    PROVE  /\ UNCHANGED <<clock, mapping, cursor, due, objects, phase, full, since,
                          fetchStart, snap, bucket, toCreate, toUpdate, toDelete,
                          created, confirmed, deleted, stale, failures, superseded>>
           /\ \A h \in Groups : (inv'[h] = inv[h] /\ updated'[h] = updated[h])
                               \/ updated'[h] = clock
<1>1. PICK g \in Groups, content \in Content \cup {None} :
               \E kind : Edit(g, content, kind)
  BY DEF NetBoxStep, AddGroup, ChangeGroup, RemoveGroup
<1>2. UNCHANGED <<clock, mapping, cursor, due, objects, phase, full, since,
                  fetchStart, snap, bucket, toCreate, toUpdate, toDelete,
                  created, confirmed, deleted, stale, failures, superseded>>
  BY <1>1 DEF Edit, storeVars, fetchVars, planVars
<1>3. /\ inv' = [inv EXCEPT ![g] = content] /\ updated' = [updated EXCEPT ![g] = clock]
      /\ inv \in [Groups -> Content \cup {None}] /\ updated \in [Groups -> Nat]
  BY <1>1 DEF Edit, TypeInv, TypeOK
<1>4. QED BY <1>2, <1>3

(***************************************************************************)
(* What is removed is not wanted, or lost to another range, or was edited  *)
(* since the fetch began.                                                  *)
(***************************************************************************)
DropInv ==
    \A x \in toDelete \cup deleted :
        x \in superseded \/ x \notin Wanted(inv) \/ updated[x[1]] >= fetchStart

LEMMA DropSame ==
    ASSUME DropInv, UNCHANGED <<inv, updated, fetchStart, superseded>>,
           toDelete' \cup deleted' \subseteq toDelete \cup deleted
    PROVE  DropInv'
BY DEF DropInv, Wanted

LEMMA DropNone ==
    ASSUME toDelete' = {}, deleted' = {}
    PROVE  DropInv'
BY DEF DropInv

LEMMA DropEndFetch ==
    ASSUME TypeInv, TimeInv, EndFetch
    PROVE  DropInv'
<1>1. Planned
  BY PlanMade
<1>2. /\ UNCHANGED <<inv, updated, fetchStart, deleted>> /\ phase = "fetch"
  BY DEF EndFetch, netboxVars
<1>3. bucket = None /\ deleted = {}
  BY <1>2 DEF TypeInv, PlanInv
<1>4. ASSUME NEW x \in toDelete', x \notin superseded' PROVE x \notin Wanted(inv)
  <2>1. x \in ReportedGone \/ (full /\ x \notin Wanted(snap'))
    BY <1>1, <1>4 DEF Planned
  <2>2. CASE x \in ReportedGone
    BY <2>2 DEF ReportedGone, Wanted
  <2>3. CASE full /\ x \notin Wanted(snap')
    <3>1. since = 0
      BY <1>2, <2>3 DEF TimeInv
    <3>2. \A g \in Groups : updated[g] >= since
      BY <3>1, SMT DEF TypeInv, TypeOK
    <3>3. \A g \in Groups : snap'[g] = inv[g]
      BY <1>1, <3>2 DEF Planned
    <3>4. QED BY <2>3, <3>3, HalfFacts DEF Wanted
  <2>4. QED BY <2>1, <2>2, <2>3
<1>5. QED BY <1>2, <1>3, <1>4 DEF DropInv, Wanted

LEMMA DropStep == TypeInv /\ TimeInv /\ DropInv /\ [Next]_vars => DropInv'
<1> SUFFICES ASSUME TypeInv, TimeInv, DropInv, [Next]_vars PROVE DropInv'
  OBVIOUS
<1> USE DEF netboxVars, storeVars, fetchVars, planVars
<1>1. Effect
  BY StepEffect
<1>2. CASE \E x \in Halves : \/ Created(x) \/ SavedNew(x) \/ Updated(x)
                            \/ SavedAgain(x) \/ Deleted(x) \/ Forgotten(x)
                            \/ CleanedUp(x)
  <2>1. PICK x \in Halves : \/ Created(x) \/ SavedNew(x) \/ Updated(x)
                           \/ SavedAgain(x) \/ Deleted(x) \/ Forgotten(x)
                           \/ CleanedUp(x)
    BY <1>2
  <2>2. toDelete' \cup deleted' \subseteq toDelete \cup deleted
    BY <2>1 DEF Created, SavedNew, Recorded, Updated, SavedAgain, Deleted,
                Forgotten, CleanedUp
  <2>3. QED BY <2>1, <2>2, WindowKept, DropSame
<1>3. CASE \/ UNCHANGED vars \/ Tick \/ StartRun \/ MarkerAges
           \/ Cancel \/ CloseBucket \/ \E d \in Dims : OpenBucket(d)
  <2>1. UNCHANGED <<inv, updated, fetchStart, superseded, toDelete, deleted>>
    BY <1>3 DEF vars, Tick, StartRun, MarkerAges, Cancel, CloseBucket, OpenBucket
  <2>2. QED BY <2>1, DropSame
<1>4. CASE BeginFetch
  BY <1>4, DropNone DEF BeginFetch, TypeInv, PlanInv
<1>5. CASE NetBoxStep
  <2>1. /\ UNCHANGED <<fetchStart, superseded, toDelete, deleted>>
        /\ \A h \in Groups : (inv'[h] = inv[h] /\ updated'[h] = updated[h])
                            \/ updated'[h] = clock
    BY <1>5, EditFacts
  <2>2. fetchStart <= clock /\ fetchStart \in Nat /\ clock \in Nat
        /\ toDelete \cup deleted \subseteq Halves
    BY DEF TimeInv, TypeInv, TypeOK
  <2>3. ASSUME NEW x \in toDelete \cup deleted
        PROVE  x \in superseded \/ x \notin Wanted(inv') \/ updated'[x[1]] >= fetchStart
    <3>1. x[1] \in Groups
      BY <2>2, HalfFacts
    <3>2. CASE updated'[x[1]] = clock
      BY <2>2, <3>2, SMT
    <3>3. CASE inv'[x[1]] = inv[x[1]] /\ updated'[x[1]] = updated[x[1]]
      BY <3>3 DEF DropInv, Wanted
    <3>4. QED BY <2>1, <3>1, <3>2, <3>3
  <2>4. QED BY <2>1, <2>3 DEF DropInv, Wanted
<1>6. CASE EndFetch
  BY <1>6, DropEndFetch
<1>7. CASE FetchFails \/ CommitRun \/ Crash
  BY <1>7, DropNone DEF FetchFails, CommitRun, Crash, RunReset
<1>8. QED BY <1>1, <1>2, <1>3, <1>4, <1>5, <1>6, <1>7 DEF Effect

LEMMA DropInit == Init => DropInv
BY DEF Init, DropInv

(***************************************************************************)
(* A populator is removed only if its half is no longer wanted, lost to    *)
(* another range, has a new populator, or was edited since the fetch began.*)
(***************************************************************************)
THEOREM DeletesJustifiedHolds == Spec => DeletesJustified
<1>1. TypeInv /\ MoveInv /\ DropInv /\ [Next]_vars
        => [\A o \in objects : Removed(o) =>
              LET x == o.id[1] IN
              \/ x \notin Wanted(inv)
              \/ x \in superseded
              \/ mapping[x] # None /\ mapping[x].id # o.id
              \/ updated[x[1]] >= fetchStart]_vars
  <2> SUFFICES ASSUME TypeInv, MoveInv, DropInv, [Next]_vars,
                      NEW o \in objects, Removed(o)
               PROVE  LET x == o.id[1] IN
                      \/ x \notin Wanted(inv)
                      \/ x \in superseded
                      \/ mapping[x] # None /\ mapping[x].id # o.id
                      \/ updated[x[1]] >= fetchStart
    OBVIOUS
  <2>1. CASE \E x \in toDelete : Deleted(x) /\ o.id = mapping[x].id
    <3>1. PICK x \in toDelete : o.id = mapping[x].id
      BY <2>1
    <3>2. x \in Halves /\ mapping[x] # None
      BY DEF TypeInv, TypeOK, PlanInv
    <3>3. o.id[1] = x
      BY <3>1, <3>2 DEF MoveInv
    <3>4. QED BY <3>3 DEF DropInv
  <2>2. CASE \E x \in Halves : CleanedUp(x) /\ o.id = stale[x].id
    <3>1. PICK x \in Halves : CleanedUp(x) /\ o.id = stale[x].id
      BY <2>2
    <3>2. stale[x] # None /\ toCreate = {} /\ bucket = None
      BY <3>1 DEF CleanedUp
    <3>3. created[x] = None
      BY <3>2, BlankFacts DEF TypeInv, PlanInv
    <3>4. o.id[1] = x /\ mapping[x] # None /\ mapping[x].id # o.id
      BY <3>1, <3>2, <3>3 DEF MoveInv
    <3>5. QED BY <3>4
  <2>3. QED BY <2>1, <2>2, RemovedBy
<1>2. QED
  BY <1>1, TypeInit, TypeStep, MoveInit, MoveStep, TimeInit, TimeStep, DropInit,
     DropStep, PTL DEF Spec, DeletesJustified

-----------------------------------------------------------------------------
(***************************************************************************)
(* No silent loss.  While the plan is applied, every half of a group that  *)
(* changed before the fetch began is recorded, reported, or still pending  *)
(* with its present content: that is what the cursor is advanced on.  It   *)
(* may not be said of an incremental run in which a full one became due.   *)
(***************************************************************************)
Pending(x) == x \in toCreate \cup toUpdate \cup confirmed \/ created[x] # None

Settled(x) == Synced(x) \/ x \in failures \cup superseded

CoveredInv ==
    (phase = "apply" /\ (full \/ ~due)) =>
        \A x \in Wanted(inv) : updated[x[1]] < fetchStart =>
            /\ snap[x[1]] # None => snap[x[1]] = inv[x[1]]
            /\ Settled(x) \/ Pending(x)

LossInv == NoSilentLoss /\ CoveredInv

(***************************************************************************)
(* A step of the plan keeps LossInv if it settles, or leaves pending, what *)
(* was settled or pending.                                                 *)
(***************************************************************************)
Progress(x) ==
    /\ Settled(x) => Settled(x)'
    /\ Pending(x) => Settled(x)' \/ Pending(x)'

LEMMA LossApply ==
    ASSUME TypeInv, TimeInv, LossInv, phase = "apply",
           UNCHANGED <<inv, updated, clock, cursor, due, phase, full, since,
                       fetchStart, snap, superseded>>,
           \A x \in Wanted(inv) :
              (/\ updated[x[1]] < fetchStart
               /\ snap[x[1]] # None => snap[x[1]] = inv[x[1]]) => Progress(x)
    PROVE  LossInv'
<1>1. Wanted(inv)' = Wanted(inv)
  BY DEF Wanted
<1>2. CoveredInv'
  BY <1>1 DEF LossInv, CoveredInv, Progress
<1>3. ASSUME NEW x \in Wanted(inv), updated[x[1]] < cursor, ~due
      PROVE  Settled(x)'
  <2>1. x[1] \in Groups
    BY HalfFacts DEF Wanted
  <2>2. updated[x[1]] < fetchStart
    BY <1>3, <2>1, SMT DEF TimeInv, TypeInv, TypeOK
  <2>3. snap[x[1]] # None => snap[x[1]] = inv[x[1]]
    BY <1>3, <2>2 DEF LossInv, CoveredInv
  <2>4. Settled(x)
    BY <1>3 DEF LossInv, NoSilentLoss, Settled
  <2>5. QED BY <2>2, <2>3, <2>4 DEF Progress
<1>4. NoSilentLoss'
  BY <1>1, <1>3 DEF NoSilentLoss, Settled
<1>5. QED BY <1>2, <1>4 DEF LossInv

(***************************************************************************)
(* A row that is written as the group was fetched is as the group is now,  *)
(* unless the group was edited since.                                      *)
(***************************************************************************)
LEMMA RecordedProgress ==
    ASSUME TypeInv, NEW x \in Halves, NEW id, Recorded(x, id),
           \A y \in Halves : y # x => (Pending(y) => Pending(y)'),
           NEW y \in Wanted(inv),
           snap[y[1]] # None => snap[y[1]] = inv[y[1]]
    PROVE  Progress(y)
<1> USE DEF Recorded, netboxVars
<1>1. y \in Halves /\ inv' = inv /\ superseded' = superseded
  BY DEF Wanted
<1>2. CASE y # x
  <2>1. mapping'[y] = mapping[y] /\ (y \in failures <=> y \in failures')
    BY <1>1, <1>2
  <2> HIDE DEF Recorded
  <2>2. QED BY <1>1, <1>2, <2>1 DEF Progress, Settled, Synced
<1>3. CASE y = x
  <2>1. CASE /\ mapping'[x] # None /\ mapping'[x].item = snap[x[1]]
             /\ mapping'[x].dim = bucket
    <3>1. snap[x[1]] = inv[x[1]] /\ Desired(inv, x) = bucket
      BY <1>3 DEF Wanted, Desired
    <3>2. Synced(x)'
      BY <1>1, <2>1, <3>1 DEF Synced
    <3>3. QED BY <1>3, <3>2 DEF Progress, Settled
  <2>2. CASE failures' = failures \cup {x}
    BY <1>3, <2>2 DEF Progress, Settled
  <2>3. QED BY <2>1, <2>2
<1>4. QED BY <1>2, <1>3

(***************************************************************************)
(* Where no row is written: what is no longer pending was reported.        *)
(***************************************************************************)
LEMMA SameRowsProgress ==
    ASSUME UNCHANGED <<inv, mapping, superseded>>, failures \subseteq failures',
           NEW y \in Halves, Pending(y) => Pending(y)' \/ y \in failures'
    PROVE  Progress(y)
BY DEF Progress, Settled, Synced

LEMMA LossWork ==
    ASSUME TypeInv, TimeInv, DropInv, LossInv, NEW x \in Halves,
           \/ Created(x) \/ SavedNew(x) \/ Updated(x) \/ SavedAgain(x)
           \/ Deleted(x) \/ Forgotten(x) \/ CleanedUp(x)
    PROVE  LossInv'
<1>1. UNCHANGED <<inv, updated, clock, cursor, due, phase, full, since, fetchStart,
                  snap, superseded>>
  BY WindowKept
<1>2. phase = "apply"
  <2>1. bucket # None \/ phase = "apply"
    BY DEF Created, SavedNew, Recorded, Updated, SavedAgain, Deleted, Forgotten,
           CleanedUp, TypeInv, PlanInv
  <2>2. QED BY <2>1 DEF TypeInv, PlanInv
<1>3. ASSUME NEW y \in Wanted(inv), updated[y[1]] < fetchStart,
             snap[y[1]] # None => snap[y[1]] = inv[y[1]]
      PROVE  Progress(y)
  <2>1. y \in Halves
    BY DEF Wanted
  <2>2. CASE Created(x)
    <3>1. mapping' = mapping /\ failures \subseteq failures'
      BY <2>2 DEF Created, storeVars
    <3>2. Pending(y) => Pending(y)' \/ y \in failures'
      BY <2>1, <2>2 DEF Pending, Created
    <3>3. QED BY <1>1, <2>1, <3>1, <3>2, SameRowsProgress
  <2>3. CASE Updated(x)
    <3>1. mapping' = mapping /\ failures \subseteq failures'
      BY <2>3 DEF Updated, storeVars
    <3>2. Pending(y) => Pending(y)' \/ y \in failures'
      BY <2>1, <2>3 DEF Pending, Updated
    <3>3. QED BY <1>1, <2>1, <3>1, <3>2, SameRowsProgress
  <2>4. CASE Deleted(x) \/ CleanedUp(x)
    <3>1. mapping' = mapping /\ failures \subseteq failures'
      BY <2>4 DEF Deleted, CleanedUp, Taken, storeVars
    <3>2. Pending(y) => Pending(y)'
      BY <2>4 DEF Pending, Deleted, CleanedUp, planVars
    <3>3. QED BY <1>1, <2>1, <3>1, <3>2, SameRowsProgress
  <2>5. CASE SavedNew(x)
    <3>1. \A z \in Halves : z # x => (Pending(z) => Pending(z)')
      BY <2>5 DEF Pending, SavedNew, Recorded
    <3>2. Recorded(x, created[x])
      BY <2>5 DEF SavedNew
    <3>3. QED BY <1>3, <3>1, <3>2, RecordedProgress
  <2>6. CASE SavedAgain(x)
    <3>1. \A z \in Halves : z # x => (Pending(z) => Pending(z)')
      BY <2>6 DEF Pending, SavedAgain, Recorded
    <3>2. Recorded(x, mapping[x].id)
      BY <2>6 DEF SavedAgain
    <3>3. QED BY <1>3, <3>1, <3>2, RecordedProgress
  <2>7. CASE Forgotten(x)
    <3>1. Pending(y) => Pending(y)'
      BY <2>7 DEF Pending, Forgotten
    <3>2. CASE y # x
      <4>1. mapping'[y] = mapping[y] /\ (y \in failures <=> y \in failures')
        BY <2>1, <2>7, <3>2 DEF Forgotten
      <4>2. QED BY <1>1, <3>1, <4>1 DEF Progress, Settled, Synced
    <3>3. CASE y = x
      <4>1. x \in deleted /\ x[1] \in Groups
        BY <2>7, HalfFacts DEF Forgotten
      <4>2. ~(updated[x[1]] >= fetchStart)
        BY <1>3, <3>3, <4>1, SMT DEF TypeInv, TypeOK
      <4>3. x \in superseded
        BY <3>3, <4>1, <4>2 DEF DropInv
      <4>4. QED BY <1>1, <3>3, <4>3 DEF Progress, Settled
    <3>4. QED BY <3>2, <3>3
  <2>8. QED BY <2>2, <2>3, <2>4, <2>5, <2>6, <2>7
<1>4. QED BY <1>1, <1>2, <1>3, LossApply

LEMMA LossEndFetch ==
    ASSUME TypeInv, TimeInv, LossInv, EndFetch
    PROVE  LossInv'
<1>1. Planned
  BY PlanMade
<1>2. /\ UNCHANGED <<inv, updated, mapping, cursor, due, full, since, fetchStart,
                     created, confirmed, failures>>
      /\ phase = "fetch" /\ Wanted(inv)' = Wanted(inv)
  BY DEF EndFetch, netboxVars, storeVars, Wanted
<1>3. /\ full => since = 0 /\ (due \/ cursor = 0)
      /\ ~full => since = cursor
      /\ cursor \in Nat /\ since \in Nat /\ \A g \in Groups : updated[g] \in Nat
  BY <1>2, SMT DEF TimeInv, TypeInv, TypeOK
<1>4. ASSUME NEW x \in Wanted(inv), ~due, updated[x[1]] < since, ~full
      PROVE  Settled(x)'
  <2>1. x[1] \in Groups
    BY HalfFacts DEF Wanted
  <2>2. Settled(x)
    BY <1>3, <1>4 DEF LossInv, NoSilentLoss, Settled
  <2>3. snap'[x[1]] = None
    BY <1>1, <1>3, <1>4, <2>1, SMT DEF Planned
  <2>4. x \notin toCreate' \cup toUpdate'
    BY <1>1, <2>3 DEF Planned, Wanted
  <2>5. x \in superseded => x \in superseded'
    BY <1>1, <2>4 DEF Planned
  <2>6. QED BY <1>2, <2>2, <2>5 DEF Settled, Synced
<1>5. NoSilentLoss'
  <2> SUFFICES ASSUME NEW x \in Wanted(inv), updated[x[1]] < cursor, ~due
               PROVE  Settled(x)'
    BY <1>2 DEF NoSilentLoss, Settled
  <2>1. x[1] \in Groups
    BY HalfFacts DEF Wanted
  <2>2. ~full
    BY <1>3, <2>1, SMT
  <2>3. QED BY <1>3, <1>4, <2>2
<1>6. CoveredInv'
  <2> SUFFICES ASSUME full \/ ~due, NEW x \in Wanted(inv), updated[x[1]] < fetchStart
               PROVE  /\ snap'[x[1]] # None => snap'[x[1]] = inv[x[1]]
                      /\ Settled(x)' \/ Pending(x)'
    BY <1>2 DEF CoveredInv
  <2>1. x \in Halves /\ x[1] \in Groups
    BY HalfFacts DEF Wanted
  <2>2. snap'[x[1]] = IF updated[x[1]] >= since THEN inv[x[1]] ELSE None
    BY <1>1, <2>1 DEF Planned
  <2>3. CASE updated[x[1]] >= since
    <3>1. snap'[x[1]] = inv[x[1]]
      BY <2>2, <2>3
    <3>2. x \in Wanted(snap') /\ Desired(snap', x) = Desired(inv, x)
      BY <3>1 DEF Wanted, Desired
    <3>3. \/ x \in toCreate' \cup toUpdate' \cup superseded'
          \/ /\ mapping[x] # None /\ mapping[x].item = inv[x[1]]
             /\ mapping[x].dim = Desired(inv, x)
      BY <1>1, <3>1, <3>2 DEF Planned
    <3>4. Settled(x)' \/ Pending(x)'
      BY <1>2, <3>3 DEF Settled, Synced, Pending
    <3>5. QED BY <3>1, <3>4
  <2>4. CASE ~(updated[x[1]] >= since)
    <3>1. updated[x[1]] < since
      BY <1>3, <2>1, <2>4, SMT
    <3>2. ~full /\ ~due
      BY <1>3, <2>1, <3>1, SMT
    <3>3. QED BY <1>4, <2>2, <2>4, <3>1, <3>2
  <2>5. QED BY <2>3, <2>4
<1>7. QED BY <1>5, <1>6 DEF LossInv

LEMMA LossCommit ==
    ASSUME TypeInv, TimeInv, LossInv, CommitRun
    PROVE  LossInv'
<1>1. /\ UNCHANGED <<inv, updated, mapping, failures, superseded>>
      /\ phase = "apply" /\ phase' = "idle" /\ bucket = None
      /\ toCreate = {} /\ toUpdate = {} /\ Wanted(inv)' = Wanted(inv)
  BY DEF CommitRun, RunReset, BucketsDone, netboxVars, Wanted
<1>2. \A x \in Wanted(inv) : ~Pending(x)
  <2>1. confirmed = {} /\ created = Blank
    BY <1>1 DEF TypeInv, PlanInv
  <2>2. QED BY <1>1, <2>1, BlankFacts DEF Pending, Wanted
<1>3. CASE cursor' = fetchStart /\ (~due' => full \/ ~due)
  <2>1. \A x \in Wanted(inv) : updated[x[1]] < fetchStart /\ ~due' => Settled(x)
    BY <1>1, <1>2, <1>3 DEF LossInv, CoveredInv
  <2>2. QED BY <1>1, <1>3, <2>1 DEF LossInv, NoSilentLoss, CoveredInv, Settled, Synced
<1>4. CASE UNCHANGED <<cursor, due>>
  BY <1>1, <1>4 DEF LossInv, NoSilentLoss, CoveredInv, Synced
<1>5. QED BY <1>3, <1>4 DEF CommitRun, NewCursor

LEMMA LossNetBox ==
    ASSUME TypeInv, TimeInv, LossInv, NetBoxStep
    PROVE  LossInv'
<1>1. /\ UNCHANGED <<clock, mapping, cursor, due, phase, full, fetchStart, snap,
                     toCreate, toUpdate, created, confirmed, failures, superseded>>
      /\ \A h \in Groups : (inv'[h] = inv[h] /\ updated'[h] = updated[h])
                          \/ updated'[h] = clock
  BY EditFacts
<1>2. /\ cursor <= clock /\ fetchStart <= clock
      /\ cursor \in Nat /\ fetchStart \in Nat /\ clock \in Nat
  BY DEF TimeInv, TypeInv, TypeOK
<1>3. ASSUME NEW x \in Wanted(inv'),
             updated'[x[1]] < cursor \/ updated'[x[1]] < fetchStart
      PROVE  /\ x \in Wanted(inv) /\ inv'[x[1]] = inv[x[1]]
             /\ updated'[x[1]] = updated[x[1]]
             /\ Settled(x) => Settled(x)'
             /\ Pending(x) => Pending(x)'
  <2>1. x[1] \in Groups
    BY HalfFacts DEF Wanted
  <2>2. updated'[x[1]] # clock
    BY <1>2, <1>3, SMT
  <2>3. inv'[x[1]] = inv[x[1]] /\ updated'[x[1]] = updated[x[1]]
    BY <1>1, <2>1, <2>2
  <2>4. x \in Wanted(inv) /\ Desired(inv', x) = Desired(inv, x)
    BY <2>3 DEF Wanted, Desired
  <2>5. QED BY <1>1, <2>3, <2>4 DEF Settled, Synced, Pending
<1>4. Wanted(inv)' = Wanted(inv')
  BY DEF Wanted
<1>5. NoSilentLoss'
  BY <1>1, <1>3, <1>4 DEF LossInv, NoSilentLoss, Settled
<1>6. CoveredInv'
  BY <1>1, <1>3, <1>4 DEF LossInv, CoveredInv
<1>7. QED BY <1>5, <1>6 DEF LossInv

LEMMA LossStep ==
    TypeInv /\ TimeInv /\ DropInv /\ LossInv /\ [Next]_vars => LossInv'
<1> SUFFICES ASSUME TypeInv, TimeInv, DropInv, LossInv, [Next]_vars PROVE LossInv'
  OBVIOUS
<1> USE DEF netboxVars, storeVars, fetchVars, planVars
<1>1. Effect
  BY StepEffect
<1>2. CASE \E x \in Halves : \/ Created(x) \/ SavedNew(x) \/ Updated(x)
                            \/ SavedAgain(x) \/ Deleted(x) \/ Forgotten(x)
                            \/ CleanedUp(x)
  BY <1>2, LossWork
<1>3. CASE \/ UNCHANGED vars \/ Tick \/ Cancel \/ CloseBucket
           \/ \E d \in Dims : OpenBucket(d)
  <2>1. UNCHANGED <<inv, updated, mapping, cursor, due, phase, full, fetchStart,
                    snap, toCreate, toUpdate, created, confirmed, failures,
                    superseded>>
    BY <1>3 DEF vars, Tick, Cancel, CloseBucket, OpenBucket
  <2>2. QED
    BY <2>1 DEF LossInv, NoSilentLoss, CoveredInv, Settled, Synced, Pending, Wanted
<1>4. CASE MarkerAges
  <2>1. due' = TRUE
        /\ UNCHANGED <<inv, updated, mapping, cursor, phase, full, fetchStart,
                       snap, toCreate, toUpdate, created, confirmed, failures,
                       superseded>>
    BY <1>4 DEF MarkerAges
  <2>2. QED
    BY <2>1 DEF LossInv, NoSilentLoss, CoveredInv, Settled, Synced, Pending, Wanted
<1>5. CASE StartRun \/ BeginFetch \/ FetchFails \/ Crash
  <2>1. /\ phase' # "apply"
        /\ UNCHANGED <<inv, updated, mapping, cursor, due, failures, superseded>>
    BY <1>5 DEF StartRun, BeginFetch, FetchFails, Crash, RunReset
  <2>2. QED BY <2>1 DEF LossInv, NoSilentLoss, CoveredInv, Synced, Wanted
<1>6. QED
  BY <1>1, <1>2, <1>3, <1>4, <1>5, LossNetBox, LossEndFetch, LossCommit DEF Effect

LEMMA LossInit == Init => LossInv
BY DEF Init, LossInv, NoSilentLoss, CoveredInv

(***************************************************************************)
(* Whatever fails and wherever a run ends, a group that changed before the *)
(* cursor is recorded as it is now, or was reported or superseded, unless a*)
(* full run is due.                                                        *)
(***************************************************************************)
THEOREM IPGroupsNoSilentLoss == Spec => []NoSilentLoss
<1>1. LossInv => NoSilentLoss
  BY DEF LossInv
<1>2. QED
  BY <1>1, TypeInit, TypeStep, TimeInit, TimeStep, DropInit, DropStep, LossInit,
     LossStep, PTL DEF Spec

-----------------------------------------------------------------------------
(***************************************************************************)
(* The store and Kentik, when nothing fails but a fetch.  Then Kentik holds*)
(* the populators of the rows, with the content of an update that waits to *)
(* be recorded, those that wait for their row, and the old ones of moves.  *)
(***************************************************************************)
Calm == Faults \subseteq {"fetch"}

Populator(id, d, item) ==
    [id |-> id, dim |-> d, cidr |-> item.cidr, label |-> item.label]

Shown(x) ==
    Populator(mapping[x].id, mapping[x].dim,
              IF x \in confirmed THEN snap[x[1]] ELSE mapping[x].item)

New(x) == Populator(created[x], bucket, snap[x[1]])

Accounted(o, x) ==
    \/ mapping[x] # None /\ x \notin deleted /\ o = Shown(x)
    \/ created[x] # None /\ o = New(x)
    \/ stale[x] # None /\ o.id = stale[x].id

MatchInv ==
    /\ ~cancelled
    /\ \A o, p \in objects : o.id = p.id => o = p
    /\ \A x \in Halves : (mapping[x] # None /\ x \notin deleted) => Shown(x) \in objects
    /\ \A x \in Halves : created[x] # None => New(x) \in objects
    /\ \A x \in Halves : stale[x] # None => Exists(stale[x].id, stale[x].dim)
    /\ \A x \in Halves : (x \in toCreate \/ created[x] # None) =>
          /\ mapping[x] # None => stale[x] # None
          /\ stale[x] # None => mapping[x] # None /\ stale[x].id = mapping[x].id
    /\ \A x \in toUpdate \cup confirmed : mapping[x].dim = Desired(snap, x)
    /\ \A o \in objects : \E x \in Halves : Accounted(o, x)

LEMMA PopulatorFacts ==
    \A id, d, item : Populator(id, d, item).id = id /\ Populator(id, d, item).dim = d
BY DEF Populator

LEMMA CalmCall ==
    ASSUME Calm, ~cancelled, NEW acceptable, NEW told \in BOOLEAN,
           NEW done \in BOOLEAN, CallGoes(acceptable, told, done)
    PROVE  (told /\ done /\ acceptable) \/ (~told /\ ~done /\ ~acceptable)
<1>1. ~CanFail("reject") /\ ~CanFail("timeout")
  BY DEF Calm, CanFail
<1>2. QED BY <1>1 DEF CallGoes

LEMMA MatchSame ==
    ASSUME MatchInv, ~cancelled',
           UNCHANGED <<objects, mapping, created, stale, toCreate, toUpdate,
                       confirmed, deleted>>,
           \/ UNCHANGED <<snap, bucket>>
           \/ UNCHANGED snap /\ created = Blank
    PROVE  MatchInv'
<1>1. CASE UNCHANGED <<snap, bucket>>
  <2>1. \A x : Shown(x)' = Shown(x) /\ New(x)' = New(x)
    BY <1>1 DEF Shown, New
  <2>2. QED BY <1>1, <2>1 DEF MatchInv, Accounted, Exists
<1>2. CASE UNCHANGED snap /\ created = Blank
  <2>1. /\ \A x : Shown(x)' = Shown(x)
        /\ \A x \in Halves : created[x] = None
    BY <1>2, BlankFacts DEF Shown
  <2>2. QED BY <1>2, <2>1 DEF MatchInv, Accounted, Exists
<1>3. QED BY <1>1, <1>2

(***************************************************************************)
(* A step that concerns x needs to be looked at for x alone, because the   *)
(* populators of the other halves have other IDs.                          *)
(***************************************************************************)
Elsewhere(x) ==
    /\ UNCHANGED <<snap, bucket, cancelled>>
    /\ \A y \in Halves : y # x =>
          /\ mapping'[y] = mapping[y]
          /\ created'[y] = created[y] /\ stale'[y] = stale[y]
          /\ y \in toCreate' <=> y \in toCreate
          /\ y \in toUpdate' \cup confirmed' <=> y \in toUpdate \cup confirmed
          /\ y \in confirmed' <=> y \in confirmed
          /\ y \in deleted' <=> y \in deleted
    /\ \A o \in objects \cup objects' :
          o.id[1] # x => (o \in objects <=> o \in objects')

Here(x) ==
    /\ \A o, p \in objects : o.id[1] = x /\ o.id = p.id => o = p
    /\ (mapping[x] # None /\ x \notin deleted) => Shown(x) \in objects
    /\ created[x] # None => New(x) \in objects
    /\ stale[x] # None => Exists(stale[x].id, stale[x].dim)
    /\ (x \in toCreate \/ created[x] # None) =>
          /\ mapping[x] # None => stale[x] # None
          /\ stale[x] # None => mapping[x] # None /\ stale[x].id = mapping[x].id
    /\ x \in toUpdate \cup confirmed => mapping[x].dim = Desired(snap, x)
    /\ \A o \in objects : o.id[1] = x => Accounted(o, x)

LEMMA MatchAt ==
    ASSUME TypeInv, MoveInv, MatchInv, NEW x \in Halves, Elsewhere(x), Here(x)',
           toUpdate' \cup confirmed' \subseteq Halves
    PROVE  MatchInv'
<1> USE DEF Elsewhere
<1>1. ASSUME NEW y \in Halves, y # x
      PROVE  /\ (mapping[y] # None => Shown(y)' = Shown(y)) /\ New(y)' = New(y)
             /\ mapping[y] # None => Shown(y).id[1] = y
             /\ created[y] # None => New(y).id[1] = y
             /\ stale[y] # None => stale[y].id[1] = y
  BY <1>1, PopulatorFacts DEF MoveInv, Shown, New
<1>2. \A o, p \in objects' : o.id = p.id => o = p
  BY DEF MatchInv, Here
<1>3. ASSUME NEW y \in Halves, mapping'[y] # None, y \notin deleted'
      PROVE  Shown(y)' \in objects'
  <2>1. CASE y = x
    BY <1>3, <2>1 DEF Here
  <2>2. CASE y # x
    BY <1>1, <1>3, <2>2 DEF MatchInv
  <2>3. QED BY <2>1, <2>2
<1>4. ASSUME NEW y \in Halves, created'[y] # None
      PROVE  New(y)' \in objects'
  <2>1. CASE y = x
    BY <1>4, <2>1 DEF Here
  <2>2. CASE y # x
    BY <1>1, <1>4, <2>2 DEF MatchInv
  <2>3. QED BY <2>1, <2>2
<1>5. ASSUME NEW y \in Halves, stale'[y] # None
      PROVE  Exists(stale[y].id, stale[y].dim)'
  <2>1. CASE y = x
    BY <1>5, <2>1 DEF Here
  <2>2. CASE y # x
    <3>1. PICK o \in objects : o.id = stale[y].id /\ o.dim = stale[y].dim
      BY <1>5, <2>2 DEF MatchInv, Exists
    <3>2. o \in objects'
      BY <1>1, <1>5, <2>2, <3>1
    <3>3. QED BY <2>2, <3>1, <3>2 DEF Exists
  <2>3. QED BY <2>1, <2>2
<1>6. ASSUME NEW y \in Halves, y \in toCreate' \/ created'[y] # None
      PROVE  /\ mapping'[y] # None => stale'[y] # None
             /\ stale'[y] # None => mapping'[y] # None /\ stale'[y].id = mapping'[y].id
  <2>1. CASE y = x
    BY <1>6, <2>1 DEF Here
  <2>2. CASE y # x
    BY <1>6, <2>2 DEF MatchInv
  <2>3. QED BY <2>1, <2>2
<1>7. ASSUME NEW y \in toUpdate' \cup confirmed'
      PROVE  mapping'[y].dim = Desired(snap', y)
  <2>1. CASE y = x
    BY <1>7, <2>1 DEF Here
  <2>2. CASE y # x
    BY <1>7, <2>2 DEF MatchInv
  <2>3. QED BY <2>1, <2>2
<1>8. ASSUME NEW o \in objects'
      PROVE  \E y \in Halves : Accounted(o, y)'
  <2>1. CASE o.id[1] = x
    BY <1>8, <2>1 DEF Here
  <2>2. CASE o.id[1] # x
    <3>1. PICK y \in Halves : Accounted(o, y)
      BY <1>8, <2>2 DEF MatchInv
    <3>2. o.id[1] = y
      BY <3>1, PopulatorFacts DEF Accounted, Shown, New, MoveInv
    <3>3. Accounted(o, y)'
      BY <1>1, <2>2, <3>1, <3>2 DEF Accounted
    <3>4. QED BY <3>3
  <2>3. QED BY <2>1, <2>2
<1>9. ~cancelled'
  BY DEF MatchInv
<1>10. QED
  BY <1>2, <1>3, <1>4, <1>5, <1>6, <1>7, <1>8, <1>9 DEF MatchInv

LEMMA AccountedAt ==
    ASSUME MoveInv, MatchInv, NEW o \in objects
    PROVE  o.id[1] \in Halves /\ Accounted(o, o.id[1])
<1>1. PICK x \in Halves : Accounted(o, x)
  BY DEF MatchInv
<1>2. o.id[1] = x
  BY <1>1, PopulatorFacts DEF Accounted, Shown, New, MoveInv
<1>3. QED BY <1>1, <1>2

LEMMA MatchCreate ==
    ASSUME Calm, TypeInv, MoveInv, MatchInv, NEW x \in Halves, CreatePopulator(x)
    PROVE  MatchInv'
<1>1. PICK told \in BOOLEAN, done \in BOOLEAN, id \in NewIds(x) :
        /\ CallGoes(Free(bucket, snap[x[1]].cidr, id), told, done)
        /\ objects' = IF ~done THEN objects ELSE objects \cup
              {[id |-> id, dim |-> bucket, cidr |-> snap[x[1]].cidr,
                label |-> snap[x[1]].label]}
        /\ IF told THEN /\ created' = [created EXCEPT ![x] = id]
                        /\ UNCHANGED <<failures, stale>>
                   ELSE GiveUp(x) /\ UNCHANGED created
  BY Zenon DEF CreatePopulator
<1>2. /\ x \in toCreate /\ toCreate' = toCreate \ {x}
      /\ UNCHANGED <<mapping, snap, bucket, toUpdate, confirmed, deleted, cancelled>>
  BY DEF CreatePopulator, PendingCreates, storeVars, fetchVars
<1>3. id \in Ids /\ id[1] = x /\ id # None /\ ~InUse(id)
  BY NewIdFacts
<1>4. ~cancelled
  BY DEF MatchInv
<1>5. (told /\ done) \/ (~told /\ ~done)
  BY <1>1, <1>4, CalmCall
<1>6. /\ created[x] = None /\ x \notin toUpdate \cup confirmed \cup deleted
      /\ stale \in [Halves -> [id : Ids, dim : Dims] \cup {None}]
      /\ created \in [Halves -> Ids \cup {None}]
      /\ toUpdate' \cup confirmed' \subseteq Halves
  BY <1>2 DEF TypeInv, TypeOK, PlanInv
<1>7. /\ mapping[x] # None => /\ Shown(x) \in objects /\ stale[x] # None
                              /\ Shown(x).id = mapping[x].id
      /\ stale[x] # None => mapping[x] # None /\ stale[x].id = mapping[x].id
                              /\ Exists(stale[x].id, stale[x].dim)
  BY <1>2, <1>6, PopulatorFacts DEF MatchInv, Shown
<1>8. \A o \in objects : o.id[1] = x => Accounted(o, x)
  BY AccountedAt
<1>9. Shown(x)' = Shown(x)
  BY <1>2 DEF Shown
<1>10. CASE told /\ done
  <2>1. created' = [created EXCEPT ![x] = id] /\ stale' = stale
    BY <1>1, <1>10
  <2>2. New(x)' = Populator(id, bucket, snap[x[1]])
    BY <1>2, <1>6, <2>1 DEF New
  <2>3. objects' = objects \cup {New(x)'}
    BY <1>1, <1>10, <2>2 DEF Populator
  <2>4. \A o \in objects : o.id # id
    BY <1>3 DEF InUse
  <2>5. New(x)'.id = id
    BY <2>2, PopulatorFacts
  <2>6. Elsewhere(x)
    BY <1>2, <1>3, <1>6, <2>1, <2>3, <2>5 DEF Elsewhere
  <2>7. \A o, p \in objects' : o.id[1] = x /\ o.id = p.id => o = p
    BY <2>3, <2>4, <2>5 DEF MatchInv
  <2>8. \A o \in objects' : o.id[1] = x => Accounted(o, x)'
    <3>1. ASSUME NEW o \in objects, o.id[1] = x
          PROVE  Accounted(o, x)'
      BY <1>2, <1>6, <1>8, <1>9, <2>1, <3>1 DEF Accounted
    <3>2. created'[x] = id
      BY <1>6, <2>1
    <3>3. \A o : o = New(x)' => Accounted(o, x)'
      BY <1>3, <3>2 DEF Accounted
    <3>4. QED BY <2>3, <3>1, <3>3
  <2>9. stale'[x] # None => Exists(stale[x].id, stale[x].dim)'
    BY <1>7, <2>1, <2>3 DEF Exists
  <2>10. Here(x)'
    BY <1>2, <1>6, <1>7, <1>9, <2>1, <2>3, <2>7, <2>8, <2>9 DEF Here
  <2>11. QED BY <1>6, <2>6, <2>10, MatchAt
<1>11. CASE ~told /\ ~done
  <2>1. /\ objects' = objects /\ created' = created /\ stale'[x] = None
        /\ \A y \in Halves : y # x => stale'[y] = stale[y]
    BY <1>1, <1>6, <1>11 DEF GiveUp
  <2>2. Elsewhere(x)
    BY <1>2, <2>1 DEF Elsewhere
  <2>3. \A o \in objects : o.id[1] = x => mapping[x] # None /\ o = Shown(x)
    BY <1>6, <1>7, <1>8, PopulatorFacts DEF Accounted, MatchInv
  <2>4. \A o \in objects' : o.id[1] = x => Accounted(o, x)'
    BY <1>2, <1>6, <1>9, <2>1, <2>3 DEF Accounted
  <2>5. Here(x)'
    BY <1>2, <1>6, <1>7, <1>9, <2>1, <2>3, <2>4 DEF Here
  <2>6. QED BY <1>6, <2>2, <2>5, MatchAt
<1>12. QED BY <1>5, <1>10, <1>11

LEMMA CalmStore ==
    ASSUME Calm, ~cancelled
    PROVE  ~StoreFails
BY DEF Calm, StoreFails, CanFail

LEMMA MatchSaveNew ==
    ASSUME Calm, TypeInv, MoveInv, MatchInv, NEW x \in Halves, SavePopulator(x)
    PROVE  MatchInv'
<1>1. ~cancelled /\ ~StoreFails
  BY CalmStore DEF MatchInv
<1>2. /\ created[x] # None /\ created' = [created EXCEPT ![x] = None]
      /\ mapping' = [mapping EXCEPT ![x] = Saved(x, created[x])]
      /\ UNCHANGED <<snap, objects, stale, bucket, toCreate, toUpdate, confirmed,
                     deleted, cancelled>>
      /\ bucket # None
  BY <1>1 DEF SavePopulator, Unsaved, fetchVars
<1>3. /\ created \in [Halves -> Ids \cup {None}] /\ created[x] \in Ids
      /\ mapping \in [Halves -> Mapping \cup {None}]
      /\ x \notin toCreate \cup toUpdate \cup confirmed \cup deleted
      /\ x \in Wanted(snap)
      /\ toUpdate' \cup confirmed' \subseteq Halves
  BY <1>2 DEF TypeInv, TypeOK, PlanInv
<1>4. /\ mapping'[x] = Saved(x, created[x]) /\ created'[x] = None
      /\ \A y \in Halves : y # x => mapping'[y] = mapping[y] /\ created'[y] = created[y]
  BY <1>2, <1>3
<1>5. Shown(x)' = New(x) /\ mapping'[x] # None
  BY <1>2, <1>3, <1>4, SavedFacts DEF Shown, New
<1>6. Elsewhere(x)
  BY <1>2, <1>4 DEF Elsewhere
<1>7. New(x) \in objects
      /\ (stale[x] # None => Exists(stale[x].id, stale[x].dim))
      /\ (mapping[x] # None => stale[x] # None /\ stale[x].id = mapping[x].id)
      /\ \A o, p \in objects : o.id = p.id => o = p
  BY <1>2 DEF MatchInv
<1>8. \A o \in objects' : o.id[1] = x => Accounted(o, x)'
  <2>1. ASSUME NEW o \in objects, o.id[1] = x
        PROVE  Accounted(o, x)'
    <3>1. Accounted(o, x)
      BY <2>1, AccountedAt
    <3>2. CASE mapping[x] # None /\ o = Shown(x)
      BY <1>2, <1>7, <3>2, PopulatorFacts DEF Accounted, Shown
    <3>3. CASE o = New(x)
      BY <1>2, <1>3, <1>5, <3>3 DEF Accounted
    <3>4. CASE stale[x] # None /\ o.id = stale[x].id
      BY <1>2, <3>4 DEF Accounted
    <3>5. QED BY <3>1, <3>2, <3>3, <3>4 DEF Accounted
  <2>2. QED BY <1>2, <2>1
<1>9. Exists(stale[x].id, stale[x].dim)' <=> Exists(stale[x].id, stale[x].dim)
  BY <1>2 DEF Exists
<1>10. Here(x)'
  BY <1>2, <1>3, <1>4, <1>5, <1>7, <1>8, <1>9 DEF Here
<1>11. QED BY <1>3, <1>6, <1>10, MatchAt

LEMMA MatchUpdate ==
    ASSUME Calm, TypeInv, MoveInv, MatchInv, NEW x \in Halves, UpdatePopulator(x)
    PROVE  MatchInv'
<1>1. PICK told \in BOOLEAN, done \in BOOLEAN :
        /\ CallGoes(Exists(mapping[x].id, bucket)
                     /\ Free(bucket, snap[x[1]].cidr, mapping[x].id), told, done)
        /\ objects' = {IF done /\ o.id = mapping[x].id
                         THEN [id |-> mapping[x].id, dim |-> o.dim,
                               cidr |-> snap[x[1]].cidr, label |-> snap[x[1]].label]
                         ELSE o : o \in objects}
        /\ IF told THEN confirmed' = confirmed \cup {x} /\ UNCHANGED failures
                   ELSE failures' = failures \cup {x} /\ UNCHANGED confirmed
  BY Zenon DEF UpdatePopulator
<1>2. /\ x \in toUpdate /\ toUpdate' = toUpdate \ {x}
      /\ UNCHANGED <<mapping, snap, bucket, toCreate, created, deleted, stale,
                     cancelled>>
  BY DEF UpdatePopulator, PendingUpdates, storeVars, fetchVars
<1>3. (told /\ done) \/ (~told /\ ~done)
  BY <1>1, CalmCall DEF MatchInv
<1>4. /\ mapping[x] # None /\ created[x] = None /\ stale[x] = None
      /\ x \notin toCreate \cup confirmed \cup deleted
      /\ mapping[x].id[1] = x
      /\ toUpdate \cup confirmed \subseteq Halves
  BY <1>2 DEF TypeInv, TypeOK, PlanInv, MoveInv
<1>5. /\ Shown(x) \in objects /\ Shown(x).id = mapping[x].id
      /\ Shown(x).dim = mapping[x].dim /\ mapping[x].dim = Desired(snap, x)
      /\ \A o, p \in objects : o.id = p.id => o = p
  BY <1>2, <1>4, PopulatorFacts DEF MatchInv, Shown
<1>6. \A o \in objects : o.id[1] = x => o = Shown(x)
  BY <1>4, AccountedAt DEF Accounted
<1>7. CASE told /\ done
  <2>1. confirmed' = confirmed \cup {x}
    BY <1>1, <1>7
  <2>2. Shown(x)' = Populator(mapping[x].id, mapping[x].dim, snap[x[1]])
    BY <1>2, <1>4, <2>1 DEF Shown
  <2>3. objects' = {IF o.id = mapping[x].id
                     THEN [id |-> mapping[x].id, dim |-> o.dim,
                           cidr |-> snap[x[1]].cidr, label |-> snap[x[1]].label]
                     ELSE o : o \in objects}
    BY <1>1, <1>7
  <2>4. [id |-> mapping[x].id, dim |-> Shown(x).dim, cidr |-> snap[x[1]].cidr,
         label |-> snap[x[1]].label] = Shown(x)'
    BY <1>5, <2>2 DEF Populator
  <2>5. Shown(x)' \in objects'
    BY <1>5, <2>3, <2>4
  <2>6. \A o \in objects' : (o.id[1] = x /\ o = Shown(x)')
                            \/ (o.id[1] # x /\ o \in objects)
    <3>1. SUFFICES ASSUME NEW q \in objects
                   PROVE  LET o == IF q.id = mapping[x].id
                                    THEN [id |-> mapping[x].id, dim |-> q.dim,
                                          cidr |-> snap[x[1]].cidr,
                                          label |-> snap[x[1]].label]
                                    ELSE q
                          IN  \/ o.id[1] = x /\ o = Shown(x)'
                              \/ o.id[1] # x /\ o \in objects
      BY <2>3
    <3>2. CASE q.id = mapping[x].id
      <4>1. q = Shown(x)
        BY <1>5, <3>2
      <4>2. QED BY <1>4, <2>4, <3>2, <4>1
    <3>3. CASE q.id # mapping[x].id
      BY <1>5, <1>6, <3>3
    <3>4. QED BY <3>2, <3>3
  <2>7. \A o \in objects : o.id[1] # x => o \in objects'
    BY <1>4, <2>3
  <2>8. Elsewhere(x)
    BY <1>2, <2>1, <2>6, <2>7 DEF Elsewhere
  <2>9. \A o \in objects' : o.id[1] = x => Accounted(o, x)'
    BY <1>2, <1>4, <2>6 DEF Accounted
  <2>10. \A o, p \in objects' : o.id[1] = x /\ o.id = p.id => o = p
    BY <2>6
  <2>11. mapping'[x].dim = Desired(snap', x)
    BY <1>2, <1>5
  <2>12. Here(x)'
    BY <1>2, <1>4, <2>5, <2>9, <2>10, <2>11 DEF Here
  <2>13. toUpdate' \cup confirmed' \subseteq Halves
    BY <1>2, <1>4, <2>1
  <2>14. QED BY <2>8, <2>12, <2>13, MatchAt
<1>8. CASE ~told /\ ~done
  <2>1. confirmed' = confirmed
    BY <1>1, <1>8
  <2>2. objects' = {o : o \in objects}
    BY <1>1, <1>8
  <2>3. objects' = objects
    BY <2>2
  <2>4. Shown(x)' = Shown(x)
    BY <1>2, <2>1 DEF Shown
  <2>5. Elsewhere(x)
    BY <1>2, <2>1, <2>3 DEF Elsewhere
  <2>6. \A o \in objects' : o.id[1] = x => Accounted(o, x)'
    BY <1>2, <1>4, <1>6, <2>3, <2>4 DEF Accounted
  <2>7. Here(x)'
    BY <1>2, <1>4, <1>5, <2>1, <2>3, <2>4, <2>6 DEF Here
  <2>8. toUpdate' \cup confirmed' \subseteq Halves
    BY <1>2, <1>4, <2>1
  <2>9. QED BY <2>5, <2>7, <2>8, MatchAt
<1>9. QED BY <1>3, <1>7, <1>8

LEMMA MatchSaveAgain ==
    ASSUME Calm, TypeInv, MoveInv, MatchInv, NEW x \in Halves, SaveUpdated(x)
    PROVE  MatchInv'
<1>1. ~cancelled /\ ~StoreFails
  BY CalmStore DEF MatchInv
<1>2. /\ x \in confirmed /\ confirmed' = confirmed \ {x}
      /\ mapping' = [mapping EXCEPT ![x] = Saved(x, mapping[x].id)]
      /\ UNCHANGED <<snap, objects, stale, bucket, toCreate, toUpdate, created,
                     deleted, cancelled>>
      /\ bucket # None
  BY <1>1 DEF SaveUpdated, CreatesDone, fetchVars
<1>3. /\ mapping[x] # None /\ created[x] = None /\ stale[x] = None
      /\ x \in Wanted(snap) /\ Desired(snap, x) = bucket
      /\ x \notin toCreate \cup toUpdate \cup deleted
      /\ toUpdate \cup confirmed \subseteq Halves
      /\ mapping \in [Halves -> Mapping \cup {None}]
  BY <1>2 DEF TypeInv, TypeOK, PlanInv, MoveInv
<1>4. mapping[x].dim = bucket
  BY <1>2, <1>3 DEF MatchInv
<1>5. /\ mapping'[x] = Saved(x, mapping[x].id)
      /\ \A y \in Halves : y # x => mapping'[y] = mapping[y]
  BY <1>2, <1>3
<1>6. Shown(x)' = Shown(x) /\ mapping'[x] # None
  BY <1>2, <1>3, <1>4, <1>5, RowFacts, SavedFacts DEF Shown
<1>7. Elsewhere(x)
  BY <1>2, <1>5 DEF Elsewhere
<1>8. /\ Shown(x) \in objects
      /\ \A o, p \in objects : o.id = p.id => o = p
  BY <1>3 DEF MatchInv
<1>9. \A o \in objects : o.id[1] = x => o = Shown(x)
  BY <1>3, AccountedAt DEF Accounted
<1>10. \A o \in objects' : o.id[1] = x => Accounted(o, x)'
  BY <1>2, <1>3, <1>6, <1>9 DEF Accounted
<1>11. Here(x)'
  BY <1>2, <1>3, <1>6, <1>8, <1>10 DEF Here
<1>12. toUpdate' \cup confirmed' \subseteq Halves
  BY <1>2, <1>3
<1>13. QED BY <1>7, <1>11, <1>12, MatchAt

LEMMA MatchDelete ==
    ASSUME Calm, TypeInv, MoveInv, MatchInv, NEW x \in Halves, DeletePopulator(x)
    PROVE  MatchInv'
<1>1. PICK told \in BOOLEAN, done \in BOOLEAN :
        /\ CallGoes(Exists(mapping[x].id, bucket), told, done)
        /\ objects' = {o \in objects : ~(done /\ o.id = mapping[x].id)}
        /\ IF told THEN deleted' = deleted \cup {x} /\ UNCHANGED failures
                   ELSE failures' = failures \cup {x} /\ UNCHANGED deleted
  BY Zenon DEF DeletePopulator
<1>2. /\ x \in toDelete /\ mapping[x].dim = bucket
      /\ UNCHANGED <<mapping, snap, bucket, toCreate, toUpdate, created, confirmed,
                     stale, cancelled>>
  BY DEF DeletePopulator, PendingDeletes, storeVars, fetchVars
<1>3. /\ mapping[x] # None /\ created[x] = None /\ stale[x] = None
      /\ x \notin toCreate \cup toUpdate \cup confirmed \cup deleted
      /\ mapping[x].id[1] = x
      /\ toUpdate' \cup confirmed' \subseteq Halves
  BY <1>2 DEF TypeInv, TypeOK, PlanInv, MoveInv
<1>4. /\ Shown(x) \in objects /\ Shown(x).id = mapping[x].id
      /\ Shown(x).dim = mapping[x].dim
  BY <1>2, <1>3, PopulatorFacts DEF MatchInv, Shown
<1>5. Exists(mapping[x].id, bucket)
  BY <1>2, <1>4 DEF Exists
<1>6. told /\ done
  BY <1>1, <1>5, CalmCall DEF MatchInv
<1>7. deleted' = deleted \cup {x}
      /\ objects' = {o \in objects : o.id # mapping[x].id}
  BY <1>1, <1>6
<1>8. \A o \in objects : o.id[1] = x => o = Shown(x)
  BY <1>3, AccountedAt DEF Accounted
<1>9. \A o \in objects' : o.id[1] # x
  BY <1>4, <1>7, <1>8
<1>10. Elsewhere(x)
  BY <1>2, <1>3, <1>7 DEF Elsewhere
<1>11. Here(x)'
  BY <1>2, <1>3, <1>7, <1>9 DEF Here
<1>12. QED BY <1>3, <1>10, <1>11, MatchAt

LEMMA MatchForget ==
    ASSUME Calm, TypeInv, MoveInv, MatchInv, NEW x \in Halves, Forget(x)
    PROVE  MatchInv'
<1>1. ~cancelled /\ ~StoreFails
  BY CalmStore DEF MatchInv
<1>2. /\ x \in deleted /\ deleted' = deleted \ {x}
      /\ mapping' = [mapping EXCEPT ![x] = None]
      /\ UNCHANGED <<snap, objects, stale, bucket, toCreate, toUpdate, created,
                     confirmed, cancelled>>
  BY <1>1 DEF Forget, fetchVars
<1>3. /\ created[x] = None /\ stale[x] = None
      /\ x \notin toCreate \cup toUpdate \cup confirmed
      /\ toUpdate' \cup confirmed' \subseteq Halves
      /\ mapping \in [Halves -> Mapping \cup {None}]
  BY <1>2 DEF TypeInv, TypeOK, PlanInv, MoveInv
<1>4. mapping'[x] = None /\ \A y \in Halves : y # x => mapping'[y] = mapping[y]
  BY <1>2, <1>3
<1>5. \A o \in objects : o.id[1] # x
  BY <1>2, <1>3, AccountedAt DEF Accounted
<1>6. Elsewhere(x)
  BY <1>2, <1>4 DEF Elsewhere
<1>7. Here(x)'
  BY <1>2, <1>3, <1>4, <1>5 DEF Here
<1>8. QED BY <1>3, <1>6, <1>7, MatchAt

LEMMA MatchCleanUp ==
    ASSUME Calm, TypeInv, MoveInv, MatchInv, NEW x \in Halves, CleanUp(x)
    PROVE  MatchInv'
<1>1. PICK told \in BOOLEAN, done \in BOOLEAN :
        /\ CallGoes(Exists(stale[x].id, stale[x].dim), told, done)
        /\ objects' = {o \in objects : ~(done /\ o.id = stale[x].id)}
  BY Zenon DEF CleanUp
<1>2. /\ stale[x] # None /\ stale' = [stale EXCEPT ![x] = None]
      /\ bucket = None /\ toCreate = {}
      /\ UNCHANGED <<mapping, snap, bucket, toCreate, toUpdate, created, confirmed,
                     deleted, cancelled>>
  BY DEF CleanUp, BucketsDone, storeVars, fetchVars, planVars
<1>3. /\ created[x] = None /\ confirmed = {} /\ deleted = {}
      /\ stale \in [Halves -> [id : Ids, dim : Dims] \cup {None}]
      /\ toUpdate' \cup confirmed' \subseteq Halves
  BY <1>2, BlankFacts DEF TypeInv, TypeOK, PlanInv
<1>4. /\ mapping[x] # None /\ mapping[x].id # stale[x].id
      /\ stale[x].id[1] = x
      /\ x \notin toUpdate
  BY <1>2, <1>3 DEF MoveInv
<1>5. told /\ done
  BY <1>1, <1>2, CalmCall DEF MatchInv
<1>6. objects' = {o \in objects : o.id # stale[x].id}
  BY <1>1, <1>5
<1>7. stale'[x] = None /\ \A y \in Halves : y # x => stale'[y] = stale[y]
  BY <1>2, <1>3
<1>8. /\ Shown(x) \in objects /\ Shown(x).id = mapping[x].id
      /\ Shown(x)' = Shown(x)
      /\ \A o, p \in objects : o.id = p.id => o = p
  BY <1>2, <1>3, <1>4, PopulatorFacts DEF MatchInv, Shown
<1>9. Shown(x)' \in objects'
  BY <1>4, <1>6, <1>8
<1>10. Elsewhere(x)
  BY <1>2, <1>4, <1>6, <1>7 DEF Elsewhere
<1>11. \A o \in objects' : o.id[1] = x => Accounted(o, x)'
  <2>1. ASSUME NEW o \in objects, o.id # stale[x].id, o.id[1] = x
        PROVE  Accounted(o, x)'
    <3>1. o = Shown(x)
      BY <1>3, <2>1, AccountedAt DEF Accounted
    <3>2. QED BY <1>2, <1>3, <1>4, <1>8, <3>1 DEF Accounted
  <2>2. QED BY <1>6, <2>1
<1>12. Here(x)'
  BY <1>2, <1>3, <1>4, <1>6, <1>7, <1>8, <1>9, <1>11 DEF Here
<1>13. QED BY <1>3, <1>10, <1>12, MatchAt

LEMMA MatchReset ==
    ASSUME TypeInv, MatchInv, RunReset, mapping' = mapping, objects' = objects,
           bucket = None, toCreate = {}, toUpdate = {}, stale = Blank
    PROVE  MatchInv'
<1>1. created = Blank /\ confirmed = {} /\ deleted = {}
  BY DEF TypeInv, PlanInv
<1>2. /\ created' = Blank /\ confirmed' = {} /\ deleted' = {} /\ toCreate' = {}
      /\ toUpdate' = {} /\ stale' = Blank /\ ~cancelled'
  BY DEF RunReset
<1>3. \A x : Shown(x)' = Shown(x)
  BY <1>1, <1>2 DEF Shown
<1>4. QED BY <1>1, <1>2, <1>3, BlankFacts DEF MatchInv, Accounted

LEMMA MatchEndFetch ==
    ASSUME TypeInv, MatchInv, EndFetch
    PROVE  MatchInv'
<1>1. Planned
  BY PlanMade
<1>2. /\ UNCHANGED <<mapping, objects, bucket, created, confirmed, deleted, cancelled>>
      /\ phase = "fetch"
  BY DEF EndFetch, storeVars
<1>3. created = Blank /\ confirmed = {} /\ deleted = {} /\ stale = Blank
  BY <1>2 DEF TypeInv, PlanInv
<1>4. \A x : Shown(x)' = Shown(x)
  BY <1>2, <1>3 DEF Shown
<1>5. \A x \in Halves : created[x] = None /\ stale[x] = None
  BY <1>3, BlankFacts
<1>6. ASSUME NEW x \in Halves, stale'[x] # None
      PROVE  Exists(stale[x].id, stale[x].dim)'
  <2>1. /\ mapping[x] # None /\ stale'[x].id = mapping[x].id
        /\ stale'[x].dim = mapping[x].dim
    BY <1>1, <1>6 DEF Planned
  <2>2. /\ Shown(x) \in objects /\ Shown(x).id = mapping[x].id
        /\ Shown(x).dim = mapping[x].dim
    BY <1>3, <2>1, PopulatorFacts DEF MatchInv, Shown
  <2>3. QED BY <1>2, <2>1, <2>2 DEF Exists
<1>7. \A x \in Halves : (x \in toCreate' \/ created'[x] # None) =>
          /\ mapping'[x] # None => stale'[x] # None
          /\ stale'[x] # None => mapping'[x] # None /\ stale'[x].id = mapping'[x].id
  BY <1>1, <1>2, <1>5 DEF Planned
<1>8. \A x \in toUpdate' \cup confirmed' : mapping'[x].dim = Desired(snap', x)
  BY <1>1, <1>2, <1>3 DEF Planned
<1>9. \A o \in objects' : \E x \in Halves : Accounted(o, x)'
  BY <1>2, <1>4, <1>5 DEF MatchInv, Accounted
<1>10. QED
  BY <1>2, <1>4, <1>5, <1>6, <1>7, <1>8, <1>9 DEF MatchInv

LEMMA MatchQuiet ==
    ASSUME Calm, TypeInv, MatchInv, Quiet
    PROVE  MatchInv'
<1> DEFINE Kept3 == UNCHANGED <<objects, mapping, created, stale, toCreate, toUpdate,
                                confirmed, deleted>>
<1>1. CASE UNCHANGED vars \/ NetBoxStep \/ Tick \/ StartRun \/ MarkerAges
             \/ BeginFetch
  <2>1. Kept3 /\ UNCHANGED <<snap, bucket, cancelled>>
    BY <1>1 DEF vars, netboxVars, storeVars, fetchVars, planVars, NetBoxStep,
       AddGroup, ChangeGroup, RemoveGroup, Edit, Tick, StartRun, MarkerAges,
       BeginFetch
  <2>2. ~cancelled'
    BY <2>1 DEF MatchInv
  <2>3. QED BY <2>1, <2>2, MatchSame
<1>2. CASE Crash \/ Cancel
  BY <1>2 DEF Crash, Cancel, CanFail, Calm
<1>3. CASE FetchFails
  <2>1. RunReset /\ phase = "fetch"
    BY <1>3 DEF FetchFails
  <2>2. bucket = None /\ toCreate = {} /\ toUpdate = {} /\ stale = Blank
    BY <2>1 DEF TypeInv, PlanInv
  <2>3. QED BY <2>1, <2>2, QuietFacts, MatchReset
<1>4. CASE CommitRun
  <2>1. /\ RunReset /\ bucket = None /\ toCreate = {} /\ toUpdate = {}
        /\ stale = Blank
    BY <1>4 DEF CommitRun, BucketsDone
  <2>2. QED BY <2>1, QuietFacts, MatchReset
<1>5. CASE EndFetch
  BY <1>5, MatchEndFetch
<1>6. CASE CloseBucket \/ \E d \in Dims : OpenBucket(d)
  <2>1. Kept3 /\ UNCHANGED <<snap, cancelled>>
    BY <1>6 DEF CloseBucket, OpenBucket, storeVars, planVars, fetchVars
  <2>2. created = Blank
    <3>1. CASE CloseBucket
      <4>1. \A x \in Halves : created[x] = None
        BY <3>1 DEF CloseBucket, UpdatesDone, CreatesDone, Unsaved
      <4>2. QED BY <4>1 DEF Blank, TypeInv, TypeOK
    <3>2. CASE \E d \in Dims : OpenBucket(d)
      BY <3>2 DEF OpenBucket, TypeInv, PlanInv
    <3>3. QED BY <1>6, <3>1, <3>2
  <2>3. ~cancelled'
    BY <2>1 DEF MatchInv
  <2>4. QED BY <2>1, <2>2, <2>3, MatchSame
<1>7. QED BY <1>1, <1>2, <1>3, <1>4, <1>5, <1>6 DEF Quiet

LEMMA MatchStep ==
    ASSUME Calm, TypeInv, MoveInv, MatchInv, [Next]_vars
    PROVE  MatchInv'
<1>1. CASE ApplyStep /\ ~Quiet
  BY <1>1, MatchCreate, MatchSaveNew, MatchUpdate, MatchSaveAgain, MatchDelete,
     MatchForget, MatchCleanUp DEF ApplyStep, Quiet
<1>2. CASE Quiet
  BY <1>2, MatchQuiet
<1>3. CASE ~ApplyStep /\ ~Quiet
  BY <1>3 DEF Next, AgentStep, Quiet
<1>4. QED BY <1>1, <1>2, <1>3

LEMMA MatchInit == Init => MatchInv
BY BlankFacts DEF Init, MatchInv

(***************************************************************************)
(* When only fetches may fail, the populators are those of the rows again  *)
(* whenever a run has ended, with the dimension and the content recorded.  *)
(***************************************************************************)
THEOREM StoreMatchesPopulatorsHolds ==
    ASSUME Faults \subseteq {"fetch"}
    PROVE  Spec => []StoreMatchesPopulators
<1>1. Calm
  BY DEF Calm
<1>2. ASSUME TypeInv, MatchInv
      PROVE  StoreMatchesPopulators
  <2>1. SUFFICES ASSUME phase = "idle"
                 PROVE  objects = {Populator(mapping[x].id, mapping[x].dim,
                                             mapping[x].item) : x \in Mapped}
    BY Zenon DEF StoreMatchesPopulators, Populator
  <2>2. /\ created = Blank /\ confirmed = {} /\ deleted = {} /\ stale = Blank
    BY <1>2, <2>1 DEF TypeInv, PlanInv
  <2>3. \A x \in Halves : created[x] = None /\ stale[x] = None
    BY <2>2, BlankFacts
  <2>4. \A x : Shown(x) = Populator(mapping[x].id, mapping[x].dim, mapping[x].item)
    BY <2>2 DEF Shown
  <2>5. \A x \in Mapped : Shown(x) \in objects
    BY <1>2, <2>2 DEF MatchInv, Mapped
  <2>6. \A o \in objects : \E x \in Mapped : o = Shown(x)
    BY <1>2, <2>3 DEF MatchInv, Accounted, Mapped
  <2>7. QED BY <2>4, <2>5, <2>6
<1>3. TypeInv /\ MoveInv /\ MatchInv /\ [Next]_vars => MatchInv'
  BY <1>1, MatchStep
<1>4. QED
  BY <1>2, <1>3, TypeInit, TypeStep, MoveInit, MoveStep, MatchInit, PTL DEF Spec

=============================================================================
