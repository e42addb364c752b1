-------------------------- MODULE SyncEngineProofs --------------------------
(***************************************************************************)
(* Theorems about SyncEngine, for any number of sites and devices and any  *)
(* bounds.                                                                 *)
(***************************************************************************)
EXTENDS SyncEngine, TLAPS

(***************************************************************************)
(* Types, strengthened with what the plan of a run is made of: a planned   *)
(* item was fetched, it is of the type at hand, an update or a delete has a*)
(* mapping, and the plan is empty outside the phases that work it off.     *)
(***************************************************************************)
PlanOK ==
    /\ \A e \in Items : inv[e] \in ContentOf(e) \cup {None}
    /\ \A e \in Items : snap[e] \in ContentOf(e) \cup {None}
    /\ \A e \in toCreate \cup toUpdate \cup confirmed :
          snap[e] # None /\ e \in ItemsOf(obj)
    /\ \A e \in Items : created[e] # None =>
          snap[e] # None /\ e \in ItemsOf(obj)
    /\ \A e \in toUpdate \cup confirmed \cup toDelete \cup deleted :
          mapping[e] # None
    /\ phase # "apply" =>
          toCreate = {} /\ toUpdate = {} /\ confirmed = {} /\ created = Blank
    /\ phase # "delete" => deleted = {}

TypeInv == TypeOK /\ PlanOK

LEMMA ContentFacts ==
    /\ \A e \in Items : ContentOf(e) \subseteq Content
    /\ None \notin Content
    /\ \A e \in Sites : \A c \in ContentOf(e) : c.site = None
    /\ \A e \in Devices : \A c \in ContentOf(e) : c.site \in Sites
    /\ \A c \in Content : c.attr \in Attrs
BY SyncEngineAssumption, SMT DEF Content, ContentOf, Items

LEMMA TypeInit == Init => TypeInv
<1> SUFFICES ASSUME Init PROVE TypeInv
  OBVIOUS
<1>1. TypeOK
  <2>1. updated \in [Items -> Nat]
    BY SMT DEF Init
  <2>2. created \in [Items -> Ids \cup {None}]
    BY SMT DEF Init, Blank
  <2>3. cursor \in [Types -> Nat] /\ marker \in [Types -> {"none", "fresh", "due"}]
    BY SMT DEF Init
  <2>4. mapping \in [Items -> Mapping \cup {None}]
        /\ snap \in [Items -> Content \cup {None}]
    BY SMT DEF Init, Blank
  <2>5. serial \in [Items -> Nat]
    BY SMT DEF Init
  <2>6. inv \in [Items -> Content \cup {None}] /\ obj \in Types /\ phase \in Phases
    BY SMT DEF Init, Types, Phases
  <2>7. /\ clock \in Nat /\ changes \in Nat /\ since \in Nat
        /\ fetchStart \in Nat /\ faults \in Nat
        /\ full \in BOOLEAN /\ cancelled \in BOOLEAN
    BY DEF Init
  <2>8. /\ objects = {} /\ toCreate = {} /\ toUpdate = {} /\ toDelete = {}
        /\ confirmed = {} /\ deleted = {} /\ failures = {}
    BY DEF Init
  <2>9. QED BY <2>1, <2>2, <2>3, <2>4, <2>5, <2>6, <2>7, <2>8 DEF TypeOK
<1>2. PlanOK
  BY <1>1, SMT DEF Init, PlanOK, Blank, TypeOK
<1>3. QED BY <1>1, <1>2 DEF TypeInv

LEMMA TypeNetBox ==
    ASSUME TypeInv, NetBoxStep
    PROVE  TypeInv'
<1> USE DEF TypeInv
<1>1. PICK e \in Items : \E content \in ContentOf(e) \cup {None} :
                               Edit(e, content)
  BY SMT DEF NetBoxStep, AddOrChangeItem, RemoveItem
<1> USE <1>1 DEF Edit, storeVars, kentikVars, planVars, fetchVars
<1>2. TypeOK'
  BY ContentFacts, SMT DEF TypeOK
<1>3. PlanOK'
  BY SMT DEF TypeOK, PlanOK, Blank, ItemsOf
<1>4. QED BY <1>2, <1>3

(***************************************************************************)
(* The steps that only move the run along.                                 *)
(***************************************************************************)
LEMMA TypeControl ==
    ASSUME TypeInv,
           \/ StartRun
           \/ \E t \in Types : MarkerAges(t)
           \/ BeginFetch \/ FetchFails
           \/ CommitCursor \/ CommitMarker
           \/ EndRun \/ Crash \/ Cancel
    PROVE  TypeInv'
<1> USE DEF TypeInv, NextType, CountFault, ResetRun,
            netboxVars, storeVars, kentikVars, planVars, fetchVars
<1>1. CASE StartRun
  BY <1>1, SMT DEF StartRun, TypeOK, PlanOK, Blank, Phases, Types
<1>2. ASSUME NEW t \in Types, MarkerAges(t) PROVE TypeInv'
  BY <1>2, SMT DEF MarkerAges, TypeOK, PlanOK, Blank
<1>3. CASE BeginFetch
  <2>1. snap' = Blank /\ Blank \in [Items -> Content \cup {None}]
    BY <1>3, SMT DEF BeginFetch, Blank
  <2>2. since' \in Nat /\ full' \in BOOLEAN /\ fetchStart' \in Nat
    BY <1>3, SMT DEF BeginFetch, IsFullRun, TypeOK, SyncEngineAssumption
  <2>3. TypeOK'
    BY <1>3, <2>1, <2>2, SMT DEF BeginFetch, TypeOK, Phases
  <2>4. PlanOK'
    BY <1>3, SMT DEF BeginFetch, PlanOK, Blank
  <2>5. QED BY <2>3, <2>4
<1>4. CASE FetchFails
  BY <1>4, SMT DEF FetchFails, TypeOK, PlanOK, Blank, Phases, Types, ItemsOf
<1>5. CASE CommitCursor
  <2>1. snap' = Blank /\ Blank \in [Items -> Content \cup {None}]
    BY <1>5, SMT DEF CommitCursor, Blank
  <2>2. cursor' \in [Types -> Nat] /\ phase' \in Phases /\ obj' \in Types
    BY <1>5, SMT DEF CommitCursor, NewCursor, TypeOK, Phases, Types
  <2>3. TypeOK'
    BY <1>5, <2>1, <2>2, SMT DEF CommitCursor, TypeOK
  <2>4. PlanOK'
    BY <1>5, SMT DEF CommitCursor, ApplyDone, CreatesDone, PlanOK, Blank
  <2>5. QED BY <2>3, <2>4
<1>6. CASE CommitMarker
  BY <1>6, SMT DEF CommitMarker, TypeOK, PlanOK, Blank, Phases, Types, ItemsOf
<1>7. CASE EndRun \/ Crash
  <2>1. ResetRun /\ UNCHANGED <<netboxVars, storeVars, kentikVars, failures>>
        /\ faults' \in Nat
    BY <1>7, SMT DEF EndRun, Crash, TypeOK
  <2>2. Blank \in [Items -> Content \cup {None}]
        /\ Blank \in [Items -> Ids \cup {None}]
    BY SMT DEF Blank
  <2>3. TypeOK'
    <3>1. /\ phase' \in Phases /\ obj' \in Types
          /\ full' \in BOOLEAN /\ cancelled' \in BOOLEAN
          /\ since' \in Nat /\ fetchStart' \in Nat
      BY <2>1 DEF Phases, Types
    <3>2. /\ toCreate' = {} /\ toUpdate' = {} /\ toDelete' = {}
          /\ confirmed' = {} /\ deleted' = {}
          /\ snap' = Blank /\ created' = Blank
      BY <2>1
    <3>3. QED BY <2>1, <2>2, <3>1, <3>2 DEF TypeOK
  <2>4. PlanOK'
    BY <2>1, SMT DEF PlanOK, Blank
  <2>5. QED BY <2>3, <2>4
<1>8. CASE Cancel
  BY <1>8, SMT DEF Cancel, TypeOK, PlanOK, Blank
<1>9. QED BY <1>1, <1>2, <1>3, <1>4, <1>5, <1>6, <1>7, <1>8

LEMMA TypeEndFetch ==
    ASSUME TypeInv, EndFetch
    PROVE  TypeInv'
<1> USE DEF TypeInv, EndFetch, CountFault, netboxVars, storeVars, kentikVars
<1>1. PICK items \in SUBSET ChangedSince(obj, since) :
        /\ snap' = [e \in Items |-> IF e \in items THEN inv[e] ELSE None]
        /\ toCreate' = DiffCreate(items)
        /\ toUpdate' = DiffUpdate(items)
        /\ toDelete' = toDelete
             \cup DiffDelete(items, ReportedGone(obj, since), full)
        /\ faults' \in Nat
  <2>1. PICK missed \in SUBSET ChangedSince(obj, since) :
          LET items == ChangedSince(obj, since) \ missed IN
            /\ snap' = [e \in Items |-> IF e \in items THEN inv[e] ELSE None]
            /\ toCreate' = DiffCreate(items)
            /\ toUpdate' = DiffUpdate(items)
            /\ toDelete' = toDelete
                 \cup DiffDelete(items, ReportedGone(obj, since), full)
            /\ CountFault(missed # {})
    BY Zenon
  <2>2. faults' \in Nat
    BY <2>1, SMT DEF TypeOK
  <2>3. QED BY <2>1, <2>2, Zenon
<1>2. /\ items \subseteq Items /\ items \subseteq ItemsOf(obj)
      /\ \A e \in items : inv[e] # None
  BY SMT DEF ChangedSince, ItemsOf, Items
<1>3. /\ toCreate' \subseteq items /\ toUpdate' \subseteq items
      /\ \A e \in toUpdate' : mapping[e] # None
  BY <1>1, SMT DEF DiffCreate, DiffUpdate
<1>4. /\ toDelete' \subseteq Items
      /\ \A e \in toDelete' : mapping[e] # None
  BY <1>1, SMT DEF DiffDelete, TypeOK, PlanOK, ItemsOf, Items
<1>5. /\ snap' \in [Items -> Content \cup {None}]
      /\ \A e \in Items : snap'[e] = IF e \in items THEN inv[e] ELSE None
  BY <1>1, SMT DEF TypeOK
<1>6. UNCHANGED <<inv, updated, clock, changes, mapping, cursor, marker, objects,
                  serial, created, confirmed, deleted, full, since, fetchStart,
                  obj, cancelled, failures>> /\ phase = "fetch" /\ phase' = "apply"
  OBVIOUS
<1> HIDE DEF EndFetch
<1>7. TypeOK'
  BY <1>1, <1>2, <1>3, <1>4, <1>5, <1>6 DEF TypeOK, Phases
<1>8. PlanOK'
  BY <1>2, <1>3, <1>4, <1>5, <1>6, SMT DEF PlanOK, TypeOK, Blank
<1>9. QED BY <1>7, <1>8

(***************************************************************************)
(* The steps that call Kentik or write a mapping.                          *)
(***************************************************************************)
LEMMA CallFacts ==
    \A outcome \in CallOutcomes :
        /\ outcome.times \in 0..2
        /\ outcome.ok \in BOOLEAN
        /\ outcome.ok => outcome.times \in {1, 2}
<1>1. CallOutcomes \subseteq {Executed(1), Executed(2), Rejected, Lost}
  BY Zenon DEF CallOutcomes
<1>2. /\ Executed(1).times = 1 /\ Executed(2).times = 2
      /\ Rejected.times = 0 /\ Lost.times = 1
  BY SMT DEF Executed, Rejected, Lost
<1>3. /\ Executed(1).ok = TRUE /\ Executed(2).ok = TRUE
      /\ Rejected.ok = FALSE /\ Lost.ok = FALSE
  BY Zenon DEF Executed, Rejected, Lost
<1>4. \A outcome \in CallOutcomes : outcome.times \in 0..2
  BY <1>1, <1>2, SMT
<1>5. \A outcome \in CallOutcomes : outcome.ok \in BOOLEAN
  BY <1>1, <1>3, Zenon
<1>6. \A outcome \in CallOutcomes : outcome.ok => outcome.times \in {1, 2}
  BY <1>1, <1>2, <1>3, Zenon
<1>7. QED BY <1>4, <1>5, <1>6

LEMMA BatchFacts ==
    /\ \A batch : BatchOutcomes(batch) \subseteq CallOutcomes \cup {Executed(1)}
    /\ Executed(1).times = 1 /\ Executed(1).ok = TRUE
BY SMT DEF BatchOutcomes, Executed

(***************************************************************************)
(* A new object is an object, when its item was fetched and its site, if   *)
(* it has one, is mapped.                                                  *)
(***************************************************************************)
LEMMA SiteIdType ==
    ASSUME TypeInv, NEW e \in Items, snap[e] # None,
           snap[e].site = None \/ mapping[snap[e].site] # None
    PROVE  SiteId(snap[e].site) \in Ids \cup {None}
<1>1. snap[e].site \in Sites \cup {None}
  BY ContentFacts, SMT DEF TypeInv, TypeOK, Content
<1>2. CASE snap[e].site = None
  BY <1>2 DEF SiteId
<1>3. CASE snap[e].site \in Sites /\ mapping[snap[e].site] # None
  <2>1. mapping[snap[e].site] \in Mapping
    BY <1>3, SMT DEF TypeInv, TypeOK, Items
  <2>2. mapping[snap[e].site].id \in Ids
    BY <2>1, SMT DEF Mapping
  <2>3. QED BY <2>2 DEF SiteId
<1>4. QED BY <1>1, <1>2, <1>3

LEMMA CreatesType ==
    ASSUME TypeInv,
           NEW batch \in SUBSET Items, NEW times \in 0..2,
           ExecuteCreates(batch, times),
           \A e \in batch : /\ snap[e] # None
                            /\ \/ snap[e].site = None
                               \/ mapping[snap[e].site] # None
    PROVE  objects' \subseteq Objects /\ serial' \in [Items -> Nat]
<1>1. \A e \in batch : SiteId(snap[e].site) \in Ids \cup {None}
  BY SiteIdType
<1>2. \A e \in batch : snap[e].attr \in Attrs
  BY ContentFacts, SMT DEF TypeInv, TypeOK
<1>3. \A e \in batch, k \in 1..times : <<e, serial[e] + k>> \in Ids
  BY SMT DEF TypeInv, TypeOK, Ids
<1>4. \A e \in batch, k \in 1..times : NewObject(e, serial[e] + k) \in Objects
  BY <1>1, <1>2, <1>3, SMT DEF NewObject, Objects
<1>5. objects' \subseteq Objects
  BY <1>4, SMT DEF ExecuteCreates, TypeInv, TypeOK
<1>6. serial' \in [Items -> Nat]
  BY SMT DEF ExecuteCreates, TypeInv, TypeOK
<1>7. QED BY <1>5, <1>6

LEMMA UpdatesType ==
    ASSUME TypeInv,
           NEW batch \in SUBSET Items,
           ExecuteUpdates(batch),
           \A e \in batch : /\ mapping[e] # None /\ snap[e] # None
                            /\ \/ snap[e].site = None
                               \/ mapping[snap[e].site] # None
    PROVE  objects' \subseteq Objects
<1>1. \A e \in batch : SiteId(snap[e].site) \in Ids \cup {None}
  BY SiteIdType
<1>2. \A e \in batch : snap[e].attr \in Attrs
  BY ContentFacts, SMT DEF TypeInv, TypeOK
<1>3. \A e \in batch : mapping[e].id \in Ids
  <2>1. \A e \in batch : mapping[e] \in Mapping
    BY SMT DEF TypeInv, TypeOK
  <2>2. QED BY <2>1, SMT DEF Mapping
<1>4. \A e \in batch : [id |-> mapping[e].id, attr |-> snap[e].attr,
                        site |-> SiteId(snap[e].site)] \in Objects
  BY <1>1, <1>2, <1>3, SMT DEF Objects
<1>5. QED BY <1>4, SMT DEF ExecuteUpdates, TypeInv, TypeOK

LEMMA LastIdType ==
    ASSUME TypeInv, NEW e \in Items, NEW times \in {1, 2}
    PROVE  LastId(e, times) \in Ids
BY SMT DEF TypeInv, TypeOK, LastId, Ids

(***************************************************************************)
(* What one create step does, for a site or for a batch of devices: the    *)
(* batch is sent, and an item gets an ID that was given out by this step.  *)
(***************************************************************************)
LEMMA TypeCreate ==
    ASSUME TypeInv, phase = "apply",
           NEW batch \in SUBSET toCreate, NEW times \in 0..2,
           ExecuteCreates(batch, times),
           \A e \in batch : \/ snap[e].site = None
                            \/ mapping[snap[e].site] # None,
           toCreate' \subseteq toCreate,
           created' \in [Items -> Ids \cup {None}],
           \A e \in Items : created'[e] # None =>
               created[e] # None \/ e \in toCreate,
           failures' \subseteq Items, faults' \in Nat,
           UNCHANGED <<netboxVars, storeVars, fetchVars, toUpdate, toDelete,
                       confirmed, deleted, phase, obj, cancelled>>
    PROVE  TypeInv'
<1> USE DEF netboxVars, storeVars, fetchVars
<1>1. \A e \in batch : snap[e] # None
  BY DEF TypeInv, PlanOK
<1>2. batch \in SUBSET Items
  BY DEF TypeInv, TypeOK
<1>3. objects' \subseteq Objects /\ serial' \in [Items -> Nat]
  BY <1>1, <1>2, CreatesType
<1>4. TypeOK'
  BY <1>3, SMT DEF TypeInv, TypeOK
<1>5. PlanOK'
  BY SMT DEF TypeInv, TypeOK, PlanOK, Blank
<1>6. QED BY <1>4, <1>5 DEF TypeInv

LEMMA TypeCreateSite ==
    ASSUME TypeInv, NEW s \in Sites, CreateSite(s)
    PROVE  TypeInv'
<1>1. PICK outcome \in CallOutcomes :
        /\ CountCall(outcome, {})
        /\ ExecuteCreates({s}, outcome.times)
        /\ IF outcome.ok
             THEN /\ created' = [created EXCEPT ![s] = LastId(s, outcome.times)]
                  /\ UNCHANGED failures
             ELSE /\ failures' = failures \cup {s}
                  /\ UNCHANGED created
  BY DEF CreateSite
<1>2. s \in Items /\ s \in toCreate /\ snap[s].site = None
  BY ContentFacts, SMT DEF CreateSite, Items, TypeInv, PlanOK
<1>3. faults' \in Nat
  BY <1>1, SMT DEF CountCall, CountFault, TypeInv, TypeOK
<1>4. created' \in [Items -> Ids \cup {None}]
  <2>1. CASE outcome.ok
    <3>1. LastId(s, outcome.times) \in Ids
      BY <1>2, <2>1, CallFacts, LastIdType
    <3>2. QED BY <1>1, <2>1, <3>1, SMT DEF TypeInv, TypeOK
  <2>2. CASE ~outcome.ok
    BY <1>1, <2>2, SMT DEF TypeInv, TypeOK
  <2>3. QED BY <2>1, <2>2
<1>5. /\ \A e \in Items : created'[e] # None => created[e] # None \/ e = s
      /\ failures' \subseteq Items
  BY <1>1, <1>2, SMT DEF TypeInv, TypeOK
<1>6. QED
  BY <1>1, <1>2, <1>3, <1>4, <1>5, CallFacts, TypeCreate DEF CreateSite

(***************************************************************************)
(* The devices of a batch are resolvable.                                  *)
(***************************************************************************)
LEMMA ResolvableFacts ==
    ASSUME TypeInv, obj = "devices", NEW work,
           work \subseteq toCreate \/ work \subseteq toUpdate
    PROVE  /\ Resolvable(work) \subseteq work
           /\ \A d \in Resolvable(work) : mapping[snap[d].site] # None
BY DEF Resolvable

LEMMA TypeCreateDevices ==
    ASSUME TypeInv, CreateDevices
    PROVE  TypeInv'
<1> DEFINE batch == Resolvable(toCreate)
<1>1. PICK outcome \in BatchOutcomes(batch), refused \in Refusals(batch) :
        /\ CountCall(outcome, refused)
        /\ ExecuteCreates(batch \ refused, outcome.times)
        /\ \E asked \in PerName(batch), answered \in PerName(batch \ refused) :
            LET matched == {e \in batch : /\ outcome.ok
                                          /\ asked[NameOf[e]] = e
                                          /\ NameOf[e] \in DOMAIN answered}
            IN /\ created' = [e \in Items |->
                    IF e \in matched
                      THEN LastId(answered[NameOf[e]], outcome.times)
                      ELSE created[e]]
               /\ failures' = failures \cup (toCreate \ batch)
                    \cup ({asked[n] : n \in DOMAIN asked} \ matched)
  BY DEF CreateDevices
<1>2. outcome.times \in 0..2 /\ (outcome.ok => outcome.times \in {1, 2})
  <2>1. outcome \in CallOutcomes \cup {Executed(1)}
    BY BatchFacts
  <2>2. QED BY <2>1, CallFacts, BatchFacts, SMT
<1>3. batch \subseteq toCreate /\ toCreate \subseteq Devices /\ toCreate \subseteq Items
  BY SMT DEF Resolvable, CreateDevices, TypeInv, PlanOK, TypeOK, ItemsOf
<1>4. \A d \in batch : mapping[snap[d].site] # None
  BY DEF Resolvable
<1>5. PICK asked \in PerName(batch), answered \in PerName(batch \ refused) :
        LET matched == {e \in batch : /\ outcome.ok
                                      /\ asked[NameOf[e]] = e
                                      /\ NameOf[e] \in DOMAIN answered}
        IN /\ created' = [e \in Items |->
                IF e \in matched
                  THEN LastId(answered[NameOf[e]], outcome.times)
                  ELSE created[e]]
           /\ failures' = failures \cup (toCreate \ batch)
                \cup ({asked[n] : n \in DOMAIN asked} \ matched)
  BY <1>1
<1>6. /\ \A n \in DOMAIN answered : answered[n] \in batch
      /\ \A n \in DOMAIN asked : asked[n] \in batch
  BY SMT DEF PerName
<1>7. \A e \in Items : created'[e] # created[e] =>
        e \in batch /\ created'[e] \in Ids
  <2> SUFFICES ASSUME NEW e \in Items, created'[e] # created[e]
               PROVE  e \in batch /\ created'[e] \in Ids
    OBVIOUS
  <2>1. e \in batch /\ outcome.ok /\ NameOf[e] \in DOMAIN answered
        /\ created'[e] = LastId(answered[NameOf[e]], outcome.times)
    BY <1>5, SMT
  <2>2. answered[NameOf[e]] \in Items
    BY <1>3, <1>6, <2>1, SMT
  <2>3. LastId(answered[NameOf[e]], outcome.times) \in Ids
    BY <1>2, <2>1, <2>2, LastIdType
  <2>4. QED BY <2>1, <2>3
<1>8. created' \in [Items -> Ids \cup {None}]
  BY <1>5, <1>7, SMT DEF TypeInv, TypeOK
<1>9. failures' \subseteq Items /\ faults' \in Nat
  <2>1. faults' \in Nat
    BY <1>1, SMT DEF CountCall, CountFault, TypeInv, TypeOK
  <2>2. failures' \subseteq failures \cup toCreate \cup batch
    BY <1>5, <1>6, SMT
  <2>3. QED BY <1>3, <2>1, <2>2, SMT DEF TypeInv, TypeOK
<1>10. /\ toCreate' = {} /\ phase = "apply"
       /\ UNCHANGED <<netboxVars, storeVars, fetchVars, toUpdate, toDelete,
                      confirmed, deleted, phase, obj, cancelled>>
  BY DEF CreateDevices
<1>11. QED
  BY <1>1, <1>2, <1>3, <1>4, <1>7, <1>8, <1>9, <1>10, TypeCreate

LEMMA TypeUpdate ==
    ASSUME TypeInv, phase = "apply",
           NEW batch \in SUBSET toUpdate,
           ExecuteUpdates(batch),
           \A e \in batch : \/ snap[e].site = None
                            \/ mapping[snap[e].site] # None,
           toUpdate' \subseteq toUpdate,
           confirmed' \subseteq confirmed \cup toUpdate,
           failures' \subseteq Items, faults' \in Nat,
           UNCHANGED <<netboxVars, storeVars, serial, fetchVars, toCreate,
                       toDelete, created, deleted, phase, obj, cancelled>>
    PROVE  TypeInv'
<1> USE DEF netboxVars, storeVars, fetchVars
<1>1. /\ batch \in SUBSET Items
      /\ \A e \in batch : mapping[e] # None /\ snap[e] # None
  BY DEF TypeInv, TypeOK, PlanOK
<1>2. objects' \subseteq Objects
  BY <1>1, UpdatesType
<1>3. TypeOK'
  BY <1>2, SMT DEF TypeInv, TypeOK
<1>4. PlanOK'
  BY SMT DEF TypeInv, TypeOK, PlanOK, Blank
<1>5. QED BY <1>3, <1>4 DEF TypeInv

LEMMA TypeUpdateSite ==
    ASSUME TypeInv, NEW s \in Sites, UpdateSite(s)
    PROVE  TypeInv'
<1>1. PICK outcome \in CallOutcomes :
        /\ CountCall(outcome, {})
        /\ ExecuteUpdates({u \in {s} : Known(u) /\ outcome.times > 0})
        /\ confirmed' \subseteq confirmed \cup {s}
        /\ failures' \subseteq failures \cup {s}
  BY DEF UpdateSite
<1>2. s \in Items /\ s \in toUpdate /\ snap[s].site = None
  BY ContentFacts, SMT DEF UpdateSite, Items, TypeInv, PlanOK
<1>3. failures' \subseteq Items /\ faults' \in Nat
  BY <1>1, <1>2, SMT DEF CountCall, CountFault, TypeInv, TypeOK
<1>4. {u \in {s} : Known(u) /\ outcome.times > 0} \in SUBSET toUpdate
  BY <1>2
<1>5. QED BY <1>1, <1>2, <1>3, <1>4, TypeUpdate DEF UpdateSite

LEMMA TypeUpdateDevices ==
    ASSUME TypeInv, UpdateDevices
    PROVE  TypeInv'
<1> DEFINE batch == {d \in Resolvable(toUpdate) : Known(d)}
<1>1. PICK outcome \in BatchOutcomes(Resolvable(toUpdate)),
           refused \in Refusals(batch) :
        /\ CountCall(outcome, refused)
        /\ ExecuteUpdates(IF outcome.times > 0 THEN batch \ refused ELSE {})
        /\ confirmed' = confirmed \cup ConfirmedOf(outcome, batch, refused)
        /\ failures' = failures
             \cup (toUpdate \ ConfirmedOf(outcome, batch, refused))
  BY DEF UpdateDevices
<1>2. batch \subseteq toUpdate /\ \A d \in batch : mapping[snap[d].site] # None
  BY DEF Resolvable
<1>3. /\ failures' \subseteq Items /\ faults' \in Nat
      /\ confirmed' \subseteq confirmed \cup toUpdate
  BY <1>1, <1>2, SMT
  DEF CountCall, CountFault, ConfirmedOf, TypeInv, TypeOK
<1>4. /\ (IF outcome.times > 0 THEN batch \ refused ELSE {}) \in SUBSET toUpdate
      /\ \A d \in (IF outcome.times > 0 THEN batch \ refused ELSE {}) :
            mapping[snap[d].site] # None
  BY <1>2
<1>5. /\ toUpdate' = {} /\ phase = "apply"
      /\ UNCHANGED <<netboxVars, storeVars, serial, fetchVars, toCreate,
                     toDelete, created, deleted, phase, obj, cancelled>>
  BY DEF UpdateDevices
<1>6. QED BY <1>1, <1>3, <1>4, <1>5, TypeUpdate

(***************************************************************************)
(* Saving a mapping.                                                       *)
(***************************************************************************)
LEMMA SaveType ==
    ASSUME TypeInv, NEW e \in Items, NEW id \in Ids, snap[e] # None,
           Save(e, id)
    PROVE  /\ mapping' \in [Items -> Mapping \cup {None}]
           /\ \A i \in Items : mapping[i] # None => mapping'[i] # None
           /\ mapping'[e] # mapping[e] => mapping'[e] = [id |-> id, hash |-> snap[e]]
           /\ \A i \in Items : i # e => mapping'[i] = mapping[i]
           /\ failures' \subseteq Items /\ faults' \in Nat
<1>1. [id |-> id, hash |-> snap[e]] \in Mapping
  BY SMT DEF Mapping, TypeInv, TypeOK
<1>2. [id |-> id, hash |-> snap[e]] # None
  BY <1>1, SyncEngineAssumption
<1>3. CASE mapping' = [mapping EXCEPT ![e] = [id |-> id, hash |-> snap[e]]]
           /\ failures' = failures \ {e} /\ faults' = faults
  BY <1>1, <1>2, <1>3, SMT DEF TypeInv, TypeOK
<1>4. CASE mapping' = mapping /\ failures' = failures \cup {e}
           /\ CountFault(~cancelled)
  BY <1>4, SMT DEF CountFault, TypeInv, TypeOK
<1>5. QED BY <1>3, <1>4 DEF Save

LEMMA TypeSave ==
    ASSUME TypeInv, NEW e \in Items, SaveCreated(e) \/ SaveUpdated(e)
    PROVE  TypeInv'
<1> USE DEF netboxVars, kentikVars, fetchVars
<1>1. CASE SaveCreated(e)
  <2>1. created[e] \in Ids /\ snap[e] # None /\ Save(e, created[e])
    BY <1>1 DEF SaveCreated, TypeInv, TypeOK, PlanOK
  <2>2. /\ mapping' \in [Items -> Mapping \cup {None}]
        /\ \A i \in Items : mapping[i] # None => mapping'[i] # None
        /\ failures' \subseteq Items /\ faults' \in Nat
    BY <2>1, SaveType
  <2>3. TypeOK'
    <3>1. created' \in [Items -> Ids \cup {None}]
      BY <1>1, SMT DEF SaveCreated, TypeInv, TypeOK
    <3>2. QED BY <1>1, <2>2, <3>1 DEF SaveCreated, TypeInv, TypeOK
  <2>4. PlanOK'
    BY <1>1, <2>2, SMT DEF SaveCreated, TypeInv, TypeOK, PlanOK, Blank
  <2>5. QED BY <2>3, <2>4 DEF TypeInv
<1>2. CASE SaveUpdated(e)
  <2>1. snap[e] # None /\ mapping[e] \in Mapping /\ Save(e, mapping[e].id)
    BY <1>2 DEF SaveUpdated, TypeInv, TypeOK, PlanOK
  <2>2. mapping[e].id \in Ids
    BY <2>1, SMT DEF Mapping
  <2>3. /\ mapping' \in [Items -> Mapping \cup {None}]
        /\ \A i \in Items : mapping[i] # None => mapping'[i] # None
        /\ failures' \subseteq Items /\ faults' \in Nat
    BY <2>1, <2>2, SaveType
  <2>4. TypeOK'
    BY <1>2, <2>3, SMT DEF SaveUpdated, TypeInv, TypeOK
  <2>5. PlanOK'
    BY <1>2, <2>3, SMT DEF SaveUpdated, TypeInv, TypeOK, PlanOK, Blank
  <2>6. QED BY <2>4, <2>5 DEF TypeInv
<1>3. QED BY <1>1, <1>2

LEMMA TypeDelete ==
    ASSUME TypeInv, DeleteStep, ~EndRun
    PROVE  TypeInv'
<1> USE DEF netboxVars, storeVars, kentikVars, fetchVars
<1>1. CASE DeleteDevices
  <2> DEFINE asked == toDelete \cap Devices
             batch == {d \in asked : Known(d)}
  <2>1. PICK outcome \in CallOutcomes, refused \in Refusals(batch) :
          LET done == IF outcome.times > 1 THEN {}
                      ELSE ConfirmedOf(outcome, batch, refused) IN
          /\ CountCall(outcome, refused)
          /\ ExecuteDeletes(IF outcome.times > 0 THEN batch \ refused ELSE {})
          /\ deleted' = deleted \cup done
          /\ failures' = failures \cup (asked \ done)
    BY <1>1 DEF DeleteDevices
  <2>2. /\ deleted' \subseteq deleted \cup toDelete
        /\ failures' \subseteq failures \cup toDelete
        /\ objects' \subseteq objects
    BY <2>1, SMT DEF ConfirmedOf, ExecuteDeletes
  <2>3. faults' \in Nat
    BY <2>1, SMT DEF CountCall, CountFault, TypeInv, TypeOK
  <2>4. TypeOK'
    BY <1>1, <2>2, <2>3, SMT DEF DeleteDevices, TypeInv, TypeOK
  <2>5. PlanOK'
    BY <1>1, <2>2, SMT DEF DeleteDevices, TypeInv, TypeOK, PlanOK, Blank
  <2>6. QED BY <2>4, <2>5 DEF TypeInv
<1>2. ASSUME NEW s \in Sites, DeleteSite(s) PROVE TypeInv'
  <2>1. PICK outcome \in CallOutcomes :
          /\ CountCall(outcome, {})
          /\ ExecuteDeletes({u \in {s} : outcome.times > 0})
          /\ deleted' \subseteq deleted \cup {s}
          /\ failures' \subseteq failures \cup {s}
    BY <1>2 DEF DeleteSite
  <2>2. s \in toDelete /\ objects' \subseteq objects
    BY <1>2, <2>1, SMT DEF DeleteSite, ExecuteDeletes
  <2>3. faults' \in Nat
    BY <2>1, SMT DEF CountCall, CountFault, TypeInv, TypeOK
  <2>4. TypeOK'
    BY <1>2, <2>1, <2>2, <2>3, SMT DEF DeleteSite, TypeInv, TypeOK
  <2>5. PlanOK'
    BY <1>2, <2>1, <2>2, SMT DEF DeleteSite, TypeInv, TypeOK, PlanOK, Blank
  <2>6. QED BY <2>4, <2>5 DEF TypeInv
<1>3. ASSUME NEW e \in Items, Forget(e) PROVE TypeInv'
  <2>1. /\ mapping' \in [Items -> Mapping \cup {None}]
        /\ \A i \in Items : i # e => mapping'[i] = mapping[i]
    BY <1>3, SMT DEF Forget, TypeInv, TypeOK
  <2>2. failures' \subseteq Items /\ faults' \in Nat
    BY <1>3, SMT DEF Forget, CountFault, TypeInv, TypeOK
  <2>3. e \in ItemsOf(TypeOf(e))
    BY SMT DEF ItemsOf, TypeOf, Items
  <2>4. TypeOK'
    BY <1>3, <2>1, <2>2, SMT DEF Forget, TypeInv, TypeOK
  <2>5. PlanOK'
    BY <1>3, <2>1, <2>3, SMT DEF Forget, TypeInv, TypeOK, PlanOK, Blank
  <2>6. QED BY <2>4, <2>5 DEF TypeInv
<1>4. QED BY <1>1, <1>2, <1>3 DEF DeleteStep

LEMMA TypeStep == TypeInv /\ [Next]_vars => TypeInv'
<1> SUFFICES ASSUME TypeInv, [Next]_vars PROVE TypeInv'
  OBVIOUS
<1>1. CASE NetBoxStep
  BY <1>1, TypeNetBox
<1>2. CASE \/ StartRun
           \/ \E t \in Types : MarkerAges(t)
           \/ BeginFetch \/ FetchFails
           \/ CommitCursor \/ CommitMarker
           \/ EndRun \/ Crash \/ Cancel
  BY <1>2, TypeControl
<1>3. CASE EndFetch
  BY <1>3, TypeEndFetch
<1>4. CASE CreateDevices
  BY <1>4, TypeCreateDevices
<1>5. CASE UpdateDevices
  BY <1>5, TypeUpdateDevices
<1>6. ASSUME NEW s \in Sites, CreateSite(s) \/ UpdateSite(s) PROVE TypeInv'
  BY <1>6, TypeCreateSite, TypeUpdateSite
<1>7. ASSUME NEW e \in Items, SaveCreated(e) \/ SaveUpdated(e) PROVE TypeInv'
  BY <1>7, TypeSave
<1>8. CASE DeleteStep /\ ~EndRun
  BY <1>8, TypeDelete
<1>9. CASE UNCHANGED vars
  BY <1>9 DEF vars, netboxVars, storeVars, kentikVars, planVars, fetchVars,
              TypeInv, TypeOK, PlanOK, Blank
<1>10. QED
  BY <1>1, <1>2, <1>3, <1>4, <1>5, <1>6, <1>7, <1>8, <1>9
  DEF Next, AgentStep, FetchStep, ApplyStep

(***************************************************************************)
(* Every variable always has its type, whatever fails.                     *)
(***************************************************************************)
THEOREM TypeCorrect == Spec => []TypeOK
<1>1. Spec => []TypeInv
  BY TypeInit, TypeStep, PTL DEF Spec
<1>2. TypeInv => TypeOK
  BY DEF TypeInv
<1>3. QED BY <1>1, <1>2, PTL

-----------------------------------------------------------------------------
(***************************************************************************)
(* Ownership.  Only a create makes IDs, and only a save puts one in a      *)
(* mapping, so the IDs confirmed but not yet saved must be owned too.      *)
(* Devices are told apart by name in the answer to a batch: the names have *)
(* to be distinct.                                                         *)
(***************************************************************************)
DistinctNames ==
    \A d1, d2 \in Devices : NameOf[d1] = NameOf[d2] => d1 = d2

Owned(e, id) == id[1] = e /\ id[2] <= serial[e]

OwnInv ==
    /\ MappingOwnsObject
    /\ \A e \in Items : created[e] # None => Owned(e, created[e])

(***************************************************************************)
(* A step that gives out no ID keeps ownership.                            *)
(***************************************************************************)
LEMMA OwnStutter ==
    ASSUME TypeInv, OwnInv,
           \A e \in Items : mapping'[e] # None => mapping'[e] = mapping[e],
           \A e \in Items : created'[e] # None => created'[e] = created[e],
           serial' = serial
    PROVE  OwnInv'
BY SMT DEF OwnInv, MappingOwnsObject, Owned

LEMMA OwnCreate ==
    ASSUME TypeInv, OwnInv,
           NEW batch \in SUBSET Items, NEW times \in 0..2,
           ExecuteCreates(batch, times),
           \A e \in Items : created'[e] # None =>
               created'[e] = created[e]
                 \/ (e \in batch /\ created'[e] = LastId(e, times)),
           mapping' = mapping
    PROVE  OwnInv'
<1>1. \A e \in Items : serial'[e] \in Nat /\ serial[e] \in Nat /\ serial'[e] >= serial[e]
  BY SMT DEF ExecuteCreates, TypeInv, TypeOK
<1>2. \A e \in batch : serial'[e] = serial[e] + times
  BY SMT DEF ExecuteCreates
<1>3. \A e \in Items : mapping[e] # None => mapping[e].id[2] \in Nat
  <2>1. \A e \in Items : mapping[e] # None => mapping[e] \in Mapping
    BY SMT DEF TypeInv, TypeOK
  <2>2. \A m \in Mapping : m.id[2] \in Nat
    BY SMT DEF Mapping, Ids
  <2>3. QED BY <2>1, <2>2
<1>4. MappingOwnsObject'
  BY <1>1, <1>3, SMT DEF OwnInv, MappingOwnsObject
<1>5. ASSUME NEW e \in Items, created'[e] # None
      PROVE  created'[e][1] = e /\ created'[e][2] <= serial'[e]
  <2>1. CASE created'[e] = created[e]
    <3>1. created[e] \in Ids
      BY <1>5, <2>1, SMT DEF TypeInv, TypeOK
    <3>2. created[e][2] \in Nat
      BY <3>1, SMT DEF Ids
    <3>3. Owned(e, created[e])
      BY <1>5, <2>1 DEF OwnInv
    <3>4. created[e][2] <= serial'[e]
      BY <1>1, <3>2, <3>3, SMT DEF Owned
    <3>5. QED BY <2>1, <3>3, <3>4 DEF Owned
  <2>2. CASE e \in batch /\ created'[e] = LastId(e, times)
    <3>1. LastId(e, times)[1] = e /\ LastId(e, times)[2] = serial'[e]
      BY <1>2, <2>2, SMT DEF LastId
    <3>2. QED BY <1>1, <2>2, <3>1, SMT
  <2>3. QED BY <1>5, <2>1, <2>2
<1>6. QED BY <1>4, <1>5 DEF OwnInv, Owned

LEMMA OwnCreateSite ==
    ASSUME TypeInv, OwnInv, NEW s \in Sites, CreateSite(s)
    PROVE  OwnInv'
<1>1. PICK outcome \in CallOutcomes :
        /\ ExecuteCreates({s}, outcome.times)
        /\ \/ created' = [created EXCEPT ![s] = LastId(s, outcome.times)]
           \/ created' = created
  BY DEF CreateSite
<1>2. {s} \in SUBSET Items /\ mapping' = mapping
  BY DEF CreateSite, Items, storeVars
<1>3. \A e \in Items : created'[e] # None =>
        created'[e] = created[e]
          \/ (e \in {s} /\ created'[e] = LastId(e, outcome.times))
  BY <1>1, SMT DEF TypeInv, TypeOK
<1>4. QED BY <1>1, <1>2, <1>3, CallFacts, OwnCreate

LEMMA OwnCreateDevices ==
    ASSUME TypeInv, OwnInv, DistinctNames, CreateDevices
    PROVE  OwnInv'
<1> DEFINE batch == Resolvable(toCreate)
<1>1. PICK outcome \in BatchOutcomes(batch), refused \in Refusals(batch) :
        /\ CountCall(outcome, refused)
        /\ ExecuteCreates(batch \ refused, outcome.times)
        /\ \E asked \in PerName(batch), answered \in PerName(batch \ refused) :
            LET matched == {e \in batch : /\ outcome.ok
                                          /\ asked[NameOf[e]] = e
                                          /\ NameOf[e] \in DOMAIN answered}
            IN /\ created' = [e \in Items |->
                    IF e \in matched
                      THEN LastId(answered[NameOf[e]], outcome.times)
                      ELSE created[e]]
               /\ failures' = failures \cup (toCreate \ batch)
                    \cup ({asked[n] : n \in DOMAIN asked} \ matched)
  BY DEF CreateDevices
<1>2. outcome.times \in 0..2
  <2>1. outcome \in CallOutcomes \cup {Executed(1)}
    BY BatchFacts
  <2>2. QED BY <2>1, CallFacts, BatchFacts, SMT
<1>3. batch \subseteq Devices /\ batch \subseteq Items
  BY SMT DEF Resolvable, CreateDevices, TypeInv, PlanOK, TypeOK, ItemsOf
<1>4. PICK asked \in PerName(batch), answered \in PerName(batch \ refused) :
        LET matched == {e \in batch : /\ outcome.ok
                                      /\ asked[NameOf[e]] = e
                                      /\ NameOf[e] \in DOMAIN answered}
        IN /\ created' = [e \in Items |->
                IF e \in matched
                  THEN LastId(answered[NameOf[e]], outcome.times)
                  ELSE created[e]]
           /\ failures' = failures \cup (toCreate \ batch)
                \cup ({asked[n] : n \in DOMAIN asked} \ matched)
  BY <1>1
<1>5. \A n \in DOMAIN answered :
        answered[n] \in batch \ refused /\ NameOf[answered[n]] = n
  BY SMT DEF PerName
<1>6. \A e \in batch : NameOf[e] \in DOMAIN answered =>
        answered[NameOf[e]] = e /\ e \in batch \ refused
  BY <1>3, <1>5, SMT DEF DistinctNames
<1>7. \A e \in Items : created'[e] # None =>
        created'[e] = created[e]
          \/ (e \in batch \ refused /\ created'[e] = LastId(e, outcome.times))
  BY <1>4, <1>6, SMT
<1>8. batch \ refused \in SUBSET Items /\ mapping' = mapping
  BY <1>3 DEF CreateDevices, storeVars
<1>9. QED BY <1>1, <1>2, <1>7, <1>8, OwnCreate

LEMMA OwnSave ==
    ASSUME TypeInv, OwnInv, NEW e \in Items, SaveCreated(e) \/ SaveUpdated(e)
    PROVE  OwnInv'
<1> USE DEF kentikVars
<1>1. PICK id \in Ids : Save(e, id) /\ Owned(e, id) /\ snap[e] # None
  <2>1. CASE SaveCreated(e)
    BY <2>1 DEF SaveCreated, TypeInv, TypeOK, PlanOK, OwnInv
  <2>2. CASE SaveUpdated(e)
    <3>1. mapping[e] \in Mapping /\ snap[e] # None
      BY <2>2 DEF SaveUpdated, TypeInv, TypeOK, PlanOK
    <3>2. mapping[e].id \in Ids /\ mapping[e] # None
      BY <3>1, SyncEngineAssumption, SMT DEF Mapping
    <3>3. Owned(e, mapping[e].id)
      BY <3>2 DEF OwnInv, MappingOwnsObject, Owned
    <3>4. QED BY <2>2, <3>1, <3>2, <3>3 DEF SaveUpdated
  <2>3. QED BY <2>1, <2>2
<1>2. /\ mapping'[e] # mapping[e] => mapping'[e] = [id |-> id, hash |-> snap[e]]
      /\ \A i \in Items : i # e => mapping'[i] = mapping[i]
  BY <1>1, SaveType
<1>3. serial' = serial
      /\ \A i \in Items : created'[i] # None => created'[i] = created[i]
  BY SMT DEF SaveCreated, SaveUpdated, TypeInv, TypeOK
<1>4. MappingOwnsObject'
  <2>1. \A i \in Items : mapping[i] # None => Owned(i, mapping[i].id)
    BY DEF OwnInv, MappingOwnsObject, Owned
  <2>2. ASSUME NEW i \in Items, mapping'[i] # None
        PROVE  Owned(i, mapping'[i].id)
    <3>1. CASE mapping'[i] = mapping[i]
      BY <2>1, <2>2, <3>1
    <3>2. CASE mapping'[i] # mapping[i]
      BY <1>1, <1>2, <3>2, SMT
    <3>3. QED BY <3>1, <3>2
  <2>3. QED BY <1>3, <2>2 DEF MappingOwnsObject, Owned
<1>5. QED BY <1>3, <1>4, SMT DEF OwnInv, Owned

LEMMA OwnStep == DistinctNames /\ TypeInv /\ OwnInv /\ [Next]_vars => OwnInv'
<1> SUFFICES ASSUME DistinctNames, TypeInv, OwnInv, [Next]_vars PROVE OwnInv'
  OBVIOUS
<1> USE DEF netboxVars, storeVars, kentikVars, planVars, fetchVars
<1>1. CASE CreateDevices
  BY <1>1, OwnCreateDevices
<1>2. ASSUME NEW s \in Sites, CreateSite(s) PROVE OwnInv'
  BY <1>2, OwnCreateSite
<1>3. ASSUME NEW e \in Items, SaveCreated(e) \/ SaveUpdated(e) PROVE OwnInv'
  BY <1>3, OwnSave
<1>4. CASE NetBoxStep \/ (\E t \in Types : MarkerAges(t)) \/ StartRun
             \/ FetchStep \/ CommitCursor \/ CommitMarker \/ Cancel
             \/ UpdateDevices \/ \E s \in Sites : UpdateSite(s)
  <2>1. UNCHANGED <<mapping, created, serial>>
    BY <1>4 DEF NetBoxStep, AddOrChangeItem, RemoveItem, Edit, MarkerAges,
       StartRun, FetchStep, BeginFetch, FetchFails, EndFetch, CommitCursor,
       CommitMarker, Cancel, UpdateDevices, UpdateSite
  <2>2. QED BY <2>1, OwnStutter
<1>5. CASE EndRun \/ Crash
  <2>1. UNCHANGED <<mapping, serial>> /\ \A e \in Items : created'[e] = None
    BY <1>5 DEF EndRun, Crash, ResetRun, Blank
  <2>2. QED BY <2>1, OwnStutter
<1>6. CASE DeleteDevices \/ \E s \in Sites : DeleteSite(s)
  <2>1. UNCHANGED <<mapping, created, serial>>
    BY <1>6 DEF DeleteDevices, DeleteSite
  <2>2. QED BY <2>1, OwnStutter
<1>7. ASSUME NEW e \in Items, Forget(e) PROVE OwnInv'
  <2>1. UNCHANGED <<created, serial>>
        /\ \A i \in Items : mapping'[i] # None => mapping'[i] = mapping[i]
    BY <1>7, SMT DEF Forget, TypeInv, TypeOK
  <2>2. QED BY <2>1, OwnStutter
<1>8. CASE UNCHANGED vars
  BY <1>8, OwnStutter DEF vars
<1>9. QED
  BY <1>1, <1>2, <1>3, <1>4, <1>5, <1>6, <1>7, <1>8
  DEF Next, AgentStep, ApplyStep, DeleteStep

(***************************************************************************)
(* With distinct device names a mapping always leads to the object that was*)
(* created for its item, whatever calls, writes and runs fail.             *)
(***************************************************************************)
THEOREM Ownership == DistinctNames => (Spec => []MappingOwnsObject)
<1>1. Init => OwnInv
  BY SMT DEF Init, OwnInv, MappingOwnsObject, Blank
<1>2. OwnInv => MappingOwnsObject
  BY DEF OwnInv
<1> SUFFICES ASSUME DistinctNames PROVE Spec => []MappingOwnsObject
  OBVIOUS
<1>3. TypeInv /\ OwnInv /\ [Next]_vars => OwnInv'
  BY OwnStep
<1>4. QED
  BY <1>1, <1>2, <1>3, TypeInit, TypeStep, PTL DEF Spec

-----------------------------------------------------------------------------
(***************************************************************************)
(* Deletes.  An item that is to be deleted is gone for good, because the   *)
(* fetch was complete and NetBox does not reuse an ID.  This is where a    *)
(* truncated fetch would break the argument.                               *)
(***************************************************************************)
NoTruncation == "truncate" \notin Faults

GoneInv ==
    /\ clock >= 1
    /\ \A e \in Items :
          inv[e] # None \/ snap[e] # None \/ mapping[e] # None => updated[e] # 0
    /\ full => since = 0
    /\ \A e \in toDelete \cup deleted : inv[e] = None /\ updated[e] # 0

LEMMA GoneNetBox ==
    ASSUME TypeInv, GoneInv, NetBoxStep
    PROVE  GoneInv'
<1> USE DEF storeVars, kentikVars, planVars, fetchVars
<1>1. PICK e \in Items : AddOrChangeItem(e) \/ RemoveItem(e)
  BY DEF NetBoxStep
<1>2. PICK content : Edit(e, content)
                       /\ (content # None /\ inv[e] = None => updated[e] = 0)
  BY <1>1 DEF AddOrChangeItem, RemoveItem
<1>3. clock' >= clock /\ clock' \in Nat
  BY <1>2, SMT DEF Edit, TypeInv, TypeOK
<1>4. /\ inv' = [inv EXCEPT ![e] = content]
      /\ updated' = [updated EXCEPT ![e] = clock']
      /\ UNCHANGED <<mapping, snap, toDelete, deleted, full, since>>
  BY <1>2 DEF Edit
<1>5. \A i \in toDelete \cup deleted : i \in Items
  BY DEF TypeInv, TypeOK
<1>6. QED BY <1>2, <1>3, <1>4, <1>5, SMT DEF GoneInv, TypeInv, TypeOK

LEMMA CompleteFetch ==
    ASSUME NoTruncation, EndFetch
    PROVE  LET items == ChangedSince(obj, since) IN
           /\ snap' = [e \in Items |-> IF e \in items THEN inv[e] ELSE None]
           /\ toCreate' = DiffCreate(items)
           /\ toUpdate' = DiffUpdate(items)
           /\ toDelete' = toDelete
                \cup DiffDelete(items, ReportedGone(obj, since), full)
<1>1. ~CanFail("truncate")
  BY DEF NoTruncation, CanFail
<1>2. PICK missed \in SUBSET ChangedSince(obj, since) :
        LET items == ChangedSince(obj, since) \ missed IN
        /\ missed # {} => CanFail("truncate")
        /\ CountFault(missed # {})
        /\ snap' = [e \in Items |-> IF e \in items THEN inv[e] ELSE None]
        /\ toCreate' = DiffCreate(items)
        /\ toUpdate' = DiffUpdate(items)
        /\ toDelete' = toDelete
             \cup DiffDelete(items, ReportedGone(obj, since), full)
  BY Zenon DEF EndFetch
<1>3. ChangedSince(obj, since) \ missed = ChangedSince(obj, since)
  BY <1>1, <1>2
<1>4. QED BY <1>2, <1>3, Zenon

LEMMA GoneEndFetch ==
    ASSUME NoTruncation, TypeInv, GoneInv, EndFetch
    PROVE  GoneInv'
<1> DEFINE items == ChangedSince(obj, since)
<1>1. /\ snap' = [e \in Items |-> IF e \in items THEN inv[e] ELSE None]
      /\ toDelete' = toDelete
           \cup DiffDelete(items, ReportedGone(obj, since), full)
  BY CompleteFetch
<1>2. UNCHANGED <<inv, updated, clock, mapping, deleted, full, since>>
  BY DEF EndFetch, netboxVars, storeVars
<1>3. \A e \in Items : snap'[e] # None => inv[e] # None
  BY <1>1, SMT
<1>4. \A e \in ReportedGone(obj, since) : inv[e] = None /\ updated[e] # 0
  BY DEF ReportedGone
<1>5. ASSUME full PROVE \A e \in ItemsOf(obj) : e \notin items => inv[e] = None
  <2>1. since = 0 /\ \A e \in ItemsOf(obj) : e \in Items /\ updated[e] >= 0
    BY <1>5, SMT DEF GoneInv, TypeInv, TypeOK, ItemsOf, Items
  <2>2. QED BY <2>1, SMT DEF ChangedSince
<1>6. \A e \in DiffDelete(items, ReportedGone(obj, since), full) :
        inv[e] = None /\ updated[e] # 0
  <2> SUFFICES ASSUME NEW e \in DiffDelete(items, ReportedGone(obj, since), full)
               PROVE  inv[e] = None /\ updated[e] # 0
    OBVIOUS
  <2>1. e \in ItemsOf(obj) /\ mapping[e] # None
        /\ (e \in ReportedGone(obj, since) \/ (full /\ e \notin items))
    BY DEF DiffDelete
  <2>2. e \in Items
    BY <2>1 DEF ItemsOf, Items
  <2>3. QED BY <1>4, <1>5, <2>1, <2>2 DEF GoneInv
<1> HIDE DEF items
<1>7. QED BY <1>1, <1>2, <1>3, <1>6, SMT DEF GoneInv

LEMMA GoneSave ==
    ASSUME TypeInv, GoneInv, NEW e \in Items, SaveCreated(e) \/ SaveUpdated(e)
    PROVE  GoneInv'
<1>1. snap[e] # None
  BY DEF SaveCreated, SaveUpdated, TypeInv, PlanOK
<1>2. \A i \in Items : i # e => mapping'[i] = mapping[i]
  BY SMT DEF SaveCreated, SaveUpdated, Save, TypeInv, TypeOK
<1>3. UNCHANGED <<inv, updated, clock, snap, toDelete, deleted, full, since>>
  BY DEF SaveCreated, SaveUpdated, netboxVars, fetchVars
<1>4. QED BY <1>1, <1>2, <1>3, SMT DEF GoneInv

LEMMA GoneStep == NoTruncation /\ TypeInv /\ GoneInv /\ [Next]_vars => GoneInv'
<1> SUFFICES ASSUME NoTruncation, TypeInv, GoneInv, [Next]_vars PROVE GoneInv'
  OBVIOUS
<1> USE DEF netboxVars, storeVars, kentikVars, planVars, fetchVars
<1>1. CASE NetBoxStep
  BY <1>1, GoneNetBox
<1>2. CASE EndFetch
  BY <1>2, GoneEndFetch
<1>3. ASSUME NEW e \in Items, SaveCreated(e) \/ SaveUpdated(e) PROVE GoneInv'
  BY <1>3, GoneSave
<1>4. CASE BeginFetch \/ CommitCursor \/ EndRun \/ Crash
  <2>1. UNCHANGED <<inv, updated, clock, mapping>>
    BY <1>4 DEF BeginFetch, CommitCursor, EndRun, Crash
  <2>2. \A e \in Items : snap'[e] = None
    <3>1. snap' = Blank
      BY <1>4 DEF BeginFetch, CommitCursor, EndRun, Crash, ResetRun
    <3>2. QED BY <3>1 DEF Blank
  <2>3. full' => since' = 0
    <3>1. CASE BeginFetch
      BY <3>1 DEF BeginFetch
    <3>2. CASE CommitCursor
      BY <3>2 DEF CommitCursor, GoneInv
    <3>3. CASE EndRun \/ Crash
      BY <3>3 DEF EndRun, Crash, ResetRun
    <3>4. QED BY <1>4, <3>1, <3>2, <3>3
  <2>4. toDelete' \subseteq toDelete /\ deleted' \subseteq deleted
    BY <1>4 DEF BeginFetch, CommitCursor, EndRun, Crash, ResetRun
  <2>5. QED BY <2>1, <2>2, <2>3, <2>4 DEF GoneInv
<1>5. CASE \/ (\E t \in Types : MarkerAges(t)) \/ StartRun \/ FetchFails
           \/ CommitMarker \/ Cancel \/ UNCHANGED vars
           \/ CreateDevices \/ UpdateDevices
           \/ \E s \in Sites : CreateSite(s) \/ UpdateSite(s)
  <2>1. UNCHANGED <<inv, updated, clock, mapping, snap, full, since, toDelete,
                    deleted>>
    BY <1>5 DEF MarkerAges, StartRun, FetchFails, CommitMarker, Cancel, vars,
       CreateDevices, UpdateDevices, CreateSite, UpdateSite
  <2>2. QED BY <2>1 DEF GoneInv
<1>6. CASE DeleteDevices \/ \E s \in Sites : DeleteSite(s)
  <2>1. UNCHANGED <<inv, updated, clock, mapping, snap, full, since>>
    BY <1>6 DEF DeleteDevices, DeleteSite
  <2>2. toDelete' \subseteq toDelete /\ deleted' \subseteq deleted \cup toDelete
    <3>1. CASE DeleteDevices
      BY <3>1, SMT DEF DeleteDevices, ConfirmedOf
    <3>2. ASSUME NEW e \in Sites, DeleteSite(e)
          PROVE  toDelete' \subseteq toDelete
                   /\ deleted' \subseteq deleted \cup toDelete
      BY <3>2 DEF DeleteSite
    <3>3. QED BY <1>6, <3>1, <3>2
  <2>3. QED BY <2>1, <2>2, SMT DEF GoneInv
<1>7. ASSUME NEW e \in Items, Forget(e) PROVE GoneInv'
  <2>1. UNCHANGED <<inv, updated, clock, snap, full, since, toDelete>>
        /\ deleted' \subseteq deleted
    BY <1>7 DEF Forget
  <2>2. \A i \in Items : mapping'[i] # None => mapping[i] # None
    BY <1>7, SMT DEF Forget, TypeInv, TypeOK
  <2>3. QED BY <2>1, <2>2, SMT DEF GoneInv
<1>8. QED
  BY <1>1, <1>2, <1>3, <1>4, <1>5, <1>6, <1>7
  DEF Next, AgentStep, FetchStep, ApplyStep, DeleteStep

(***************************************************************************)
(* A step that removes an object sends the deletes of some planned items.  *)
(* An update rewrites an object but keeps its ID.                          *)
(***************************************************************************)
LEMMA RemovesPlanned ==
    ASSUME TypeInv, [Next]_vars, NEW o \in objects, Removed(o)
    PROVE  \E e \in toDelete : mapping[e].id = o.id
<1> USE DEF netboxVars, storeVars, kentikVars, planVars, fetchVars
<1>1. ~(objects \subseteq objects')
  BY DEF Removed
<1>2. ASSUME NEW batch, ExecuteDeletes(batch), batch \subseteq toDelete
      PROVE  \E e \in toDelete : mapping[e].id = o.id
  <2>1. o \notin objects'
    BY DEF Removed
  <2>2. PICK e \in batch : mapping[e].id = o.id
    BY <1>2, <2>1 DEF ExecuteDeletes
  <2>3. QED BY <1>2, <2>2
<1>3. CASE DeleteDevices
  <2>1. PICK batch : ExecuteDeletes(batch) /\ batch \subseteq toDelete
    BY <1>3 DEF DeleteDevices
  <2>2. QED BY <1>2, <2>1
<1>4. ASSUME NEW s \in Sites, DeleteSite(s)
      PROVE  \E e \in toDelete : mapping[e].id = o.id
  <2>1. PICK batch : ExecuteDeletes(batch) /\ batch \subseteq toDelete
    BY <1>4 DEF DeleteSite
  <2>2. QED BY <1>2, <2>1
<1>5. ASSUME NEW batch, ExecuteUpdates(batch) PROVE FALSE
  <2>1. \A e \in batch : mapping[e].id # o.id
    <3> SUFFICES ASSUME NEW e \in batch, mapping[e].id = o.id PROVE FALSE
      OBVIOUS
    <3>1. [id |-> mapping[e].id, attr |-> snap[e].attr,
           site |-> SiteId(snap[e].site)] \in objects'
      BY <1>5 DEF ExecuteUpdates
    <3>2. QED BY <3>1 DEF Removed
  <2>2. o \in objects'
    BY <1>5, <2>1 DEF ExecuteUpdates
  <2>3. QED BY <2>2 DEF Removed
<1>6. CASE UpdateDevices
  <2>1. PICK batch : ExecuteUpdates(batch)
    BY <1>6 DEF UpdateDevices
  <2>2. QED BY <1>5, <2>1
<1>7. ASSUME NEW s \in Sites, UpdateSite(s) PROVE FALSE
  <2>1. PICK batch : ExecuteUpdates(batch)
    BY <1>7 DEF UpdateSite
  <2>2. QED BY <1>5, <2>1
<1>8. CASE CreateDevices \/ \E s \in Sites : CreateSite(s)
  <2>1. PICK batch, times : ExecuteCreates(batch, times)
    BY <1>8 DEF CreateDevices, CreateSite
  <2>2. QED BY <1>1, <2>1 DEF ExecuteCreates
<1>9. CASE \/ NetBoxStep \/ (\E t \in Types : MarkerAges(t)) \/ StartRun
           \/ FetchStep \/ CommitCursor \/ CommitMarker \/ EndRun
           \/ Crash \/ Cancel \/ UNCHANGED vars
           \/ \E e \in Items : SaveCreated(e) \/ SaveUpdated(e) \/ Forget(e)
  <2>1. UNCHANGED objects
    BY <1>9 DEF NetBoxStep, AddOrChangeItem, RemoveItem, Edit, MarkerAges,
       StartRun, FetchStep, BeginFetch, FetchFails, EndFetch, CommitCursor,
       CommitMarker, EndRun, Crash, Cancel, vars, SaveCreated, SaveUpdated,
       Forget
  <2>2. QED BY <1>1, <2>1
<1>10. QED
  BY <1>3, <1>4, <1>6, <1>7, <1>8, <1>9
  DEF Next, AgentStep, ApplyStep, DeleteStep

(***************************************************************************)
(* With complete fetches and distinct device names, an object disappears   *)
(* from Kentik only when its item is gone from NetBox.                     *)
(***************************************************************************)
THEOREM DeletesOnlyGoneHolds ==
    NoTruncation /\ DistinctNames => (Spec => DeletesOnlyGone)
<1> SUFFICES ASSUME NoTruncation, DistinctNames PROVE Spec => DeletesOnlyGone
  OBVIOUS
<1>1. Init => OwnInv /\ GoneInv
  BY SMT DEF Init, OwnInv, MappingOwnsObject, GoneInv, Blank
<1>2. TypeInv /\ OwnInv /\ [Next]_vars => OwnInv'
  BY OwnStep
<1>3. TypeInv /\ GoneInv /\ [Next]_vars => GoneInv'
  BY GoneStep
<1>4. TypeInv /\ OwnInv /\ GoneInv /\ [Next]_vars
        => [\A o \in objects : Removed(o) => inv[o.id[1]] = None]_vars
  <2> SUFFICES ASSUME TypeInv, OwnInv, GoneInv, [Next]_vars,
                      NEW o \in objects, Removed(o)
               PROVE  inv[o.id[1]] = None
    OBVIOUS
  <2>1. PICK e \in toDelete : mapping[e].id = o.id
    BY RemovesPlanned
  <2>2. e \in Items /\ mapping[e] # None
    BY DEF TypeInv, TypeOK, PlanOK
  <2>3. o.id[1] = e
    BY <2>1, <2>2 DEF OwnInv, MappingOwnsObject
  <2>4. QED BY <2>3 DEF GoneInv
<1>5. QED
  BY <1>1, <1>2, <1>3, <1>4, TypeInit, TypeStep, PTL DEF Spec, DeletesOnlyGone

-----------------------------------------------------------------------------
(***************************************************************************)
(* No silent loss.  While a type is being applied, every item of it that   *)
(* changed before the fetch began is recorded, reported, or still pending  *)
(* with its present content: that is what the cursor is advanced on.       *)
(***************************************************************************)
Pending(e) == e \in toCreate \cup toUpdate \cup confirmed \/ created[e] # None

LossInv ==
    /\ NoSilentLoss
    /\ fetchStart <= clock /\ \A t \in Types : cursor[t] <= clock
    /\ phase = "fetch" => since = 0 \/ since = cursor[obj]
    /\ phase \in {"fetch", "apply"} => cursor[obj] <= fetchStart
    /\ phase = "apply" => \A e \in ItemsOf(obj) :
          inv[e] # None /\ updated[e] < fetchStart =>
             /\ snap[e] # None => snap[e] = inv[e]
             /\ Synced(e) \/ e \in failures \/ Pending(e)

LEMMA TypeOfFacts ==
    /\ \A e \in Items : TypeOf(e) \in Types /\ e \in ItemsOf(TypeOf(e))
    /\ \A t \in Types : \A e \in ItemsOf(t) : e \in Items /\ TypeOf(e) = t
BY SyncEngineAssumption, SMT DEF TypeOf, ItemsOf, Types, Items

(***************************************************************************)
(* The order and type facts every step below needs.                        *)
(***************************************************************************)
LEMMA LossNetBox ==
    ASSUME TypeInv, LossInv, NetBoxStep
    PROVE  LossInv'
<1> USE DEF storeVars, kentikVars, planVars, fetchVars
<1>1. PICK e \in Items : \E content : Edit(e, content)
  BY DEF NetBoxStep, AddOrChangeItem, RemoveItem
<1>2. clock' >= clock /\ clock' \in Nat /\ clock \in Nat
  BY <1>1, SMT DEF Edit, TypeInv, TypeOK
<1>3. /\ updated'[e] = clock'
      /\ \A i \in Items : i # e => updated'[i] = updated[i] /\ inv'[i] = inv[i]
  BY <1>1, SMT DEF Edit, TypeInv, TypeOK
<1>4. UNCHANGED <<mapping, cursor, failures, phase, obj, fetchStart, since, snap,
                  toCreate, toUpdate, confirmed, created>>
  BY <1>1 DEF Edit
<1>5. \A t \in Types : cursor[t] <= clock'
  BY <1>2, SMT DEF LossInv, TypeInv, TypeOK
<1>6. fetchStart <= clock'
  BY <1>2, SMT DEF LossInv, TypeInv, TypeOK
<1>7. NoSilentLoss'
  <2> SUFFICES ASSUME NEW i \in Items, inv'[i] # None,
                      updated'[i] < cursor[TypeOf(i)]
               PROVE  Synced(i)' \/ i \in failures
    BY <1>4 DEF NoSilentLoss
  <2>1. i # e
    BY <1>2, <1>3, <1>5, TypeOfFacts, SMT DEF TypeInv, TypeOK
  <2>2. QED BY <1>3, <1>4, <2>1 DEF LossInv, NoSilentLoss, Synced
<1>8. ASSUME phase = "apply", NEW i \in ItemsOf(obj), inv'[i] # None,
             updated'[i] < fetchStart
      PROVE  /\ snap[i] # None => snap[i] = inv'[i]
             /\ Synced(i)' \/ i \in failures \/ Pending(i)
  <2>1. i \in Items
    BY TypeOfFacts DEF TypeInv, TypeOK
  <2>2. i # e
    BY <1>2, <1>3, <1>6, <1>8, SMT DEF TypeInv, TypeOK
  <2>3. QED BY <1>3, <1>4, <1>8, <2>1, <2>2 DEF LossInv, Synced
<1>9. QED BY <1>4, <1>5, <1>6, <1>7, <1>8 DEF LossInv, Pending

(***************************************************************************)
(* A step that neither writes a mapping nor takes an item off the plan     *)
(* without recording a failure.                                            *)
(***************************************************************************)
LEMMA LossStutter ==
    ASSUME TypeInv, LossInv,
           UNCHANGED <<inv, updated, clock, mapping, cursor, snap, fetchStart,
                       phase, obj>>,
           since' = since,
           failures \subseteq failures',
           \A e \in ItemsOf(obj) : Pending(e) => Pending(e)' \/ e \in failures'
    PROVE  LossInv'
<1>1. NoSilentLoss'
  BY DEF LossInv, NoSilentLoss, Synced
<1>2. ASSUME phase = "apply", NEW e \in ItemsOf(obj), inv[e] # None,
             updated[e] < fetchStart
      PROVE  /\ snap[e] # None => snap[e] = inv[e]
             /\ Synced(e)' \/ e \in failures' \/ Pending(e)'
  BY <1>2 DEF LossInv, Synced
<1>3. QED BY <1>1, <1>2 DEF LossInv

(***************************************************************************)
(* A step to another phase, or to a new run.                               *)
(***************************************************************************)
LEMMA LossMove ==
    ASSUME TypeInv, LossInv,
           UNCHANGED <<inv, updated, clock, mapping, cursor>>,
           failures \subseteq failures',
           phase' \notin {"fetch", "apply"},
           fetchStart' \in {fetchStart, 0}
    PROVE  LossInv'
<1>1. NoSilentLoss'
  BY DEF LossInv, NoSilentLoss, Synced
<1>2. fetchStart' <= clock
  BY SMT DEF LossInv, TypeInv, TypeOK
<1>3. QED BY <1>1, <1>2 DEF LossInv

LEMMA LossEndFetch ==
    ASSUME NoTruncation, TypeInv, LossInv, EndFetch
    PROVE  LossInv'
<1> DEFINE items == ChangedSince(obj, since)
<1>1. /\ snap' = [e \in Items |-> IF e \in items THEN inv[e] ELSE None]
      /\ toCreate' = DiffCreate(items)
      /\ toUpdate' = DiffUpdate(items)
  BY CompleteFetch
<1>2. /\ UNCHANGED <<inv, updated, clock, mapping, cursor, fetchStart, obj,
                     failures, confirmed, created>>
      /\ phase = "fetch" /\ phase' = "apply"
  BY DEF EndFetch, netboxVars, storeVars
<1>3. NoSilentLoss'
  BY <1>2 DEF LossInv, NoSilentLoss, Synced
<1>4. ASSUME NEW e \in ItemsOf(obj), inv[e] # None
      PROVE  /\ snap'[e] # None => snap'[e] = inv[e]
             /\ Synced(e) \/ e \in failures \/ Pending(e)'
  <2>1. e \in Items /\ TypeOf(e) = obj /\ updated[e] \in Nat
    BY TypeOfFacts DEF TypeInv, TypeOK
  <2>2. snap'[e] # None => snap'[e] = inv[e]
    BY <1>1, <2>1, SMT
  <2>3. CASE e \in items
    <3>1. Synced(e) \/ e \in toCreate' \/ e \in toUpdate'
      BY <1>1, <2>3 DEF DiffCreate, DiffUpdate, Synced
    <3>2. QED BY <2>2, <3>1 DEF Pending
  <2>4. CASE e \notin items
    <3>1. ~(updated[e] >= since)
      BY <1>4, <2>4 DEF ChangedSince
    <3>2. since = cursor[obj] /\ updated[e] < since
      BY <1>2, <2>1, <3>1, SMT DEF LossInv, TypeInv, TypeOK
    <3>3. QED BY <1>4, <2>1, <2>2, <3>2 DEF LossInv, NoSilentLoss
  <2>5. QED BY <2>2, <2>3, <2>4
<1> HIDE DEF items
<1>5. QED BY <1>2, <1>3, <1>4 DEF LossInv, Synced, Pending

LEMMA LossCommit ==
    ASSUME TypeInv, LossInv, CommitCursor
    PROVE  LossInv'
<1> USE DEF netboxVars, kentikVars, planVars
<1>1. /\ UNCHANGED <<inv, updated, clock, mapping, fetchStart, failures>>
      /\ phase = "apply" /\ ApplyDone
      /\ cursor' = cursor \/ cursor' = [cursor EXCEPT ![obj] = fetchStart]
      /\ phase' \notin {"fetch", "apply"}
  BY DEF CommitCursor, NextType, NewCursor
<1>2. \A e \in ItemsOf(obj) : inv[e] # None /\ updated[e] < fetchStart =>
        Synced(e) \/ e \in failures
  <2>1. \A e \in Items : ~Pending(e)
    BY <1>1, SMT DEF ApplyDone, CreatesDone, Pending, Blank, TypeInv, TypeOK
  <2>2. QED BY <1>1, <2>1, TypeOfFacts DEF LossInv, TypeInv, TypeOK
<1>3. \A t \in Types : cursor'[t] <= clock
  BY <1>1, SMT DEF LossInv, TypeInv, TypeOK
<1>4. NoSilentLoss'
  <2> SUFFICES ASSUME NEW e \in Items, inv[e] # None,
                      updated[e] < cursor'[TypeOf(e)]
               PROVE  Synced(e) \/ e \in failures
    BY <1>1 DEF NoSilentLoss, Synced
  <2>1. CASE cursor'[TypeOf(e)] = cursor[TypeOf(e)]
    BY <2>1 DEF LossInv, NoSilentLoss
  <2>2. CASE TypeOf(e) = obj /\ cursor'[TypeOf(e)] = fetchStart
    BY <1>2, <2>2, TypeOfFacts
  <2>3. QED BY <1>1, <2>1, <2>2, TypeOfFacts, SMT DEF TypeInv, TypeOK
<1>5. QED BY <1>1, <1>3, <1>4 DEF LossInv

LEMMA LossSave ==
    ASSUME TypeInv, LossInv, NEW e \in Items, SaveCreated(e) \/ SaveUpdated(e)
    PROVE  LossInv'
<1> USE DEF netboxVars, kentikVars, fetchVars
<1>1. /\ UNCHANGED <<inv, updated, clock, cursor, fetchStart, since, snap,
                     phase, obj, toCreate, toUpdate>>
      /\ phase = "apply" /\ snap[e] # None /\ e \in ItemsOf(obj)
  BY DEF SaveCreated, SaveUpdated, TypeInv, PlanOK
<1>2. \A i \in Items : i # e =>
        /\ mapping'[i] = mapping[i]
        /\ i \in failures' <=> i \in failures
        /\ created'[i] = created[i]
        /\ i \in confirmed' <=> i \in confirmed
  BY SMT DEF SaveCreated, SaveUpdated, Save, TypeInv, TypeOK
<1>3. \/ e \in failures'
      \/ /\ mapping'[e] # None
         /\ mapping'[e].hash = snap[e]
  <2>1. PICK id \in Ids : Save(e, id)
    <3>1. CASE SaveCreated(e)
      BY <3>1 DEF SaveCreated, TypeInv, TypeOK
    <3>2. CASE SaveUpdated(e)
      <4>1. mapping[e] \in Mapping
        BY <3>2 DEF SaveUpdated, TypeInv, TypeOK, PlanOK
      <4>2. mapping[e].id \in Ids
        BY <4>1, SMT DEF Mapping
      <4>3. QED BY <3>2, <4>2 DEF SaveUpdated
    <3>3. QED BY <3>1, <3>2
  <2>2. [id |-> id, hash |-> snap[e]] # None
    <3>1. [id |-> id, hash |-> snap[e]] \in Mapping
      BY <1>1, SMT DEF Mapping, TypeInv, TypeOK
    <3>2. QED BY <3>1, SyncEngineAssumption
  <2>3. CASE mapping' = [mapping EXCEPT ![e] = [id |-> id, hash |-> snap[e]]]
    BY <2>2, <2>3, SMT DEF TypeInv, TypeOK
  <2>4. CASE failures' = failures \cup {e}
    BY <2>4
  <2>5. QED BY <2>1, <2>3, <2>4 DEF Save
<1>4. ASSUME inv[e] # None, updated[e] < fetchStart
      PROVE  Synced(e)' \/ e \in failures'
  <2>1. snap[e] = inv[e]
    BY <1>1, <1>4 DEF LossInv
  <2>2. QED BY <1>1, <1>3, <2>1 DEF Synced
<1>5. NoSilentLoss'
  <2> SUFFICES ASSUME NEW i \in Items, inv[i] # None,
                      updated[i] < cursor[TypeOf(i)]
               PROVE  Synced(i)' \/ i \in failures'
    BY <1>1 DEF NoSilentLoss
  <2>1. CASE i = e
    <3>1. TypeOf(e) = obj /\ cursor[obj] <= fetchStart
      BY <1>1, TypeOfFacts DEF LossInv, TypeInv, TypeOK
    <3>2. updated[e] < fetchStart
      BY <2>1, <3>1, SMT DEF TypeInv, TypeOK
    <3>3. QED BY <1>4, <2>1, <3>2
  <2>2. CASE i # e
    BY <1>1, <1>2, <2>2 DEF LossInv, NoSilentLoss, Synced
  <2>3. QED BY <2>1, <2>2
<1>6. ASSUME NEW i \in ItemsOf(obj), inv[i] # None, updated[i] < fetchStart
      PROVE  /\ snap[i] # None => snap[i] = inv[i]
             /\ Synced(i)' \/ i \in failures' \/ Pending(i)'
  <2>1. i \in Items
    BY TypeOfFacts DEF TypeInv, TypeOK
  <2>2. /\ snap[i] # None => snap[i] = inv[i]
        /\ Synced(i) \/ i \in failures \/ Pending(i)
    BY <1>1, <1>6 DEF LossInv
  <2>3. CASE i = e
    BY <1>4, <1>6, <2>2, <2>3
  <2>4. CASE i # e
    BY <1>1, <1>2, <2>1, <2>2, <2>4 DEF Synced, Pending
  <2>5. QED BY <2>3, <2>4
<1>7. QED BY <1>1, <1>5, <1>6 DEF LossInv

LEMMA LossForget ==
    ASSUME TypeInv, GoneInv, LossInv, NEW e \in Items, Forget(e)
    PROVE  LossInv'
<1> USE DEF netboxVars, kentikVars, fetchVars
<1>1. /\ UNCHANGED <<inv, updated, clock, cursor, fetchStart, phase>>
      /\ phase = "delete" /\ inv[e] = None
  BY DEF Forget, GoneInv
<1>2. \A i \in Items : i # e =>
        mapping'[i] = mapping[i] /\ (i \in failures' <=> i \in failures)
  BY SMT DEF Forget, TypeInv, TypeOK
<1>3. NoSilentLoss'
  BY <1>1, <1>2, SMT DEF LossInv, NoSilentLoss, Synced
<1>4. QED BY <1>1, <1>3 DEF LossInv

LEMMA LossCreateSite ==
    ASSUME TypeInv, LossInv, NEW s \in Sites, CreateSite(s)
    PROVE  LossInv'
<1> USE DEF netboxVars, storeVars, fetchVars
<1>1. PICK outcome \in CallOutcomes :
        IF outcome.ok
          THEN /\ created' = [created EXCEPT ![s] = LastId(s, outcome.times)]
               /\ UNCHANGED failures
          ELSE /\ failures' = failures \cup {s}
               /\ UNCHANGED created
  BY DEF CreateSite
<1>2. s \in Items
  BY DEF Items
<1>3. outcome.ok => LastId(s, outcome.times) # None
  BY <1>2, CallFacts, LastIdType, SyncEngineAssumption
<1>4. /\ failures \subseteq failures'
      /\ s \in failures' \/ created'[s] # None
      /\ \A e \in Items : e # s => created'[e] = created[e]
  BY <1>1, <1>2, <1>3, SMT DEF TypeInv, TypeOK
<1>5. /\ toCreate' = toCreate \ {s}
      /\ UNCHANGED <<inv, updated, clock, mapping, cursor, snap, fetchStart,
                     phase, obj, since, toUpdate, confirmed>>
  BY DEF CreateSite
<1>6. \A e \in Items : Pending(e) => Pending(e)' \/ e \in failures'
  BY <1>4, <1>5 DEF Pending
<1>7. QED BY <1>4, <1>5, <1>6, TypeOfFacts, LossStutter DEF TypeInv, TypeOK

LEMMA LossCreateDevices ==
    ASSUME DistinctNames, TypeInv, LossInv, CreateDevices
    PROVE  LossInv'
<1> USE DEF netboxVars, storeVars, fetchVars
<1> DEFINE batch == Resolvable(toCreate)
<1>1. PICK outcome \in BatchOutcomes(batch), refused \in Refusals(batch) :
        /\ CountCall(outcome, refused)
        /\ ExecuteCreates(batch \ refused, outcome.times)
        /\ \E asked \in PerName(batch), answered \in PerName(batch \ refused) :
            LET matched == {e \in batch : /\ outcome.ok
                                          /\ asked[NameOf[e]] = e
                                          /\ NameOf[e] \in DOMAIN answered}
            IN /\ created' = [e \in Items |->
                    IF e \in matched
                      THEN LastId(answered[NameOf[e]], outcome.times)
                      ELSE created[e]]
               /\ failures' = failures \cup (toCreate \ batch)
                    \cup ({asked[n] : n \in DOMAIN asked} \ matched)
  BY DEF CreateDevices
<1>2. outcome.ok => outcome.times \in {1, 2}
  <2>1. outcome \in CallOutcomes \cup {Executed(1)}
    BY BatchFacts
  <2>2. QED BY <2>1, CallFacts, BatchFacts, SMT
<1>3. batch \subseteq Devices /\ batch \subseteq Items /\ batch \subseteq toCreate
  BY SMT DEF Resolvable, CreateDevices, TypeInv, PlanOK, TypeOK, ItemsOf
<1>4. PICK asked \in PerName(batch), answered \in PerName(batch \ refused) :
        LET matched == {e \in batch : /\ outcome.ok
                                      /\ asked[NameOf[e]] = e
                                      /\ NameOf[e] \in DOMAIN answered}
        IN /\ created' = [e \in Items |->
                IF e \in matched
                  THEN LastId(answered[NameOf[e]], outcome.times)
                  ELSE created[e]]
           /\ failures' = failures \cup (toCreate \ batch)
                \cup ({asked[n] : n \in DOMAIN asked} \ matched)
  BY <1>1
<1> DEFINE matched == {e \in batch : /\ outcome.ok
                                     /\ asked[NameOf[e]] = e
                                     /\ NameOf[e] \in DOMAIN answered}
<1>5. \A n \in DOMAIN answered : answered[n] \in batch
  BY SMT DEF PerName
<1>6. \A e \in batch : NameOf[e] \in DOMAIN asked /\ asked[NameOf[e]] = e
  BY <1>3, SMT DEF PerName, DistinctNames
<1>7. \A e \in matched : created'[e] # None
  <2> SUFFICES ASSUME NEW e \in matched PROVE created'[e] # None
    OBVIOUS
  <2>1. outcome.ok /\ answered[NameOf[e]] \in Items /\ e \in Items
    BY <1>3, <1>5
  <2>2. LastId(answered[NameOf[e]], outcome.times) \in Ids
    BY <1>2, <2>1, LastIdType
  <2>3. created'[e] = LastId(answered[NameOf[e]], outcome.times)
    BY <1>4, <2>1
  <2>4. QED BY <2>2, <2>3, SyncEngineAssumption
<1>8. \A e \in Items : e \notin matched => created'[e] = created[e]
  BY <1>4
<1>9. \A e \in toCreate : e \in matched \/ e \in failures'
  BY <1>4, <1>6
<1>10. failures \subseteq failures'
  BY <1>4
<1>11. UNCHANGED <<inv, updated, clock, mapping, cursor, snap, fetchStart,
                   phase, obj, since, toUpdate, confirmed>>
  BY DEF CreateDevices
<1> HIDE DEF matched, batch
<1>12. \A e \in Items : Pending(e) => Pending(e)' \/ e \in failures'
  BY <1>7, <1>8, <1>9, <1>11 DEF Pending
<1>13. QED BY <1>10, <1>11, <1>12, TypeOfFacts, LossStutter DEF TypeInv, TypeOK

LEMMA LossUpdate ==
    ASSUME TypeInv, LossInv, UpdateDevices \/ \E s \in Sites : UpdateSite(s)
    PROVE  LossInv'
<1> USE DEF netboxVars, storeVars, fetchVars
<1>1. /\ failures \subseteq failures' /\ confirmed \subseteq confirmed'
      /\ \A e \in toUpdate : e \in toUpdate' \cup confirmed' \cup failures'
  <2>1. CASE UpdateDevices
    BY <2>1 DEF UpdateDevices
  <2>2. ASSUME NEW s \in Sites, UpdateSite(s)
        PROVE /\ failures \subseteq failures' /\ confirmed \subseteq confirmed'
              /\ \A e \in toUpdate : e \in toUpdate' \cup confirmed' \cup failures'
    BY <2>2 DEF UpdateSite
  <2>3. QED BY <2>1, <2>2
<1>2. UNCHANGED <<inv, updated, clock, mapping, cursor, snap, fetchStart,
                  phase, obj, since, toCreate, created>>
  BY DEF UpdateDevices, UpdateSite
<1>3. \A e \in Items : Pending(e) => Pending(e)' \/ e \in failures'
  BY <1>1, <1>2 DEF Pending
<1>4. QED BY <1>1, <1>2, <1>3, TypeOfFacts, LossStutter DEF TypeInv, TypeOK

LEMMA LossStep ==
    NoTruncation /\ DistinctNames /\ TypeInv /\ GoneInv /\ LossInv /\ [Next]_vars
      => LossInv'
<1> SUFFICES ASSUME NoTruncation, DistinctNames, TypeInv, GoneInv, LossInv,
                    [Next]_vars
             PROVE  LossInv'
  OBVIOUS
<1> USE DEF netboxVars, storeVars, kentikVars, planVars, fetchVars
<1>1. CASE NetBoxStep
  BY <1>1, LossNetBox
<1>2. CASE EndFetch
  BY <1>2, LossEndFetch
<1>3. CASE CommitCursor
  BY <1>3, LossCommit
<1>4. CASE CreateDevices \/ \E s \in Sites : CreateSite(s)
  BY <1>4, LossCreateSite, LossCreateDevices
<1>5. CASE UpdateDevices \/ \E s \in Sites : UpdateSite(s)
  BY <1>5, LossUpdate
<1>6. ASSUME NEW e \in Items, SaveCreated(e) \/ SaveUpdated(e) \/ Forget(e)
      PROVE  LossInv'
  BY <1>6, LossSave, LossForget
<1>7. CASE StartRun \/ FetchFails \/ CommitMarker \/ EndRun \/ Crash
  BY <1>7, LossMove
  DEF StartRun, FetchFails, CommitMarker, EndRun, Crash, ResetRun, NextType
<1>8. CASE BeginFetch
  <2>1. /\ UNCHANGED <<inv, updated, clock, mapping, cursor, obj, failures>>
        /\ phase' = "fetch" /\ fetchStart' = clock
        /\ since' = 0 \/ since' = cursor[obj]
    BY <1>8 DEF BeginFetch
  <2>2. NoSilentLoss'
    BY <2>1 DEF LossInv, NoSilentLoss, Synced
  <2>3. fetchStart' <= clock /\ cursor[obj] <= fetchStart'
    BY <2>1, SMT DEF LossInv, TypeInv, TypeOK
  <2>4. QED BY <2>1, <2>2, <2>3 DEF LossInv
<1>9. CASE (\E t \in Types : MarkerAges(t)) \/ Cancel \/ UNCHANGED vars
  <2>1. UNCHANGED <<inv, updated, clock, mapping, cursor, snap, fetchStart, phase,
                    obj, since, failures, toCreate, toUpdate, confirmed, created>>
    BY <1>9 DEF MarkerAges, Cancel, vars
  <2>2. QED BY <2>1, LossStutter DEF Pending
<1>10. CASE DeleteDevices \/ \E s \in Sites : DeleteSite(s)
  <2>1. UNCHANGED <<inv, updated, clock, mapping, cursor, snap, fetchStart, phase,
                    obj, since, toCreate, toUpdate, confirmed, created>>
        /\ failures \subseteq failures'
    BY <1>10 DEF DeleteDevices, DeleteSite
  <2>2. QED BY <2>1, LossStutter DEF Pending
<1>11. QED
  BY <1>1, <1>2, <1>3, <1>4, <1>5, <1>6, <1>7, <1>8, <1>9, <1>10
  DEF Next, AgentStep, FetchStep, ApplyStep, DeleteStep

(***************************************************************************)
(* With complete fetches and distinct device names, the incremental cursor *)
(* never passes a change that is neither recorded nor reported.            *)
(***************************************************************************)
THEOREM NoSilentLossHolds ==
    NoTruncation /\ DistinctNames => (Spec => []NoSilentLoss)
<1> SUFFICES ASSUME NoTruncation, DistinctNames PROVE Spec => []NoSilentLoss
  OBVIOUS
<1>1. Init => GoneInv /\ LossInv
  <2> SUFFICES ASSUME Init PROVE GoneInv /\ LossInv
    OBVIOUS
  <2>1. GoneInv
    BY SMT DEF Init, GoneInv, Blank
  <2>2. \A t \in Types : cursor[t] = 0
    BY DEF Init
  <2>3. NoSilentLoss
    BY <2>2, TypeOfFacts, SMT DEF Init, NoSilentLoss
  <2>4. QED BY <2>1, <2>2, <2>3, SMT DEF Init, LossInv
<1>2. TypeInv /\ GoneInv /\ [Next]_vars => GoneInv'
  BY GoneStep
<1>3. TypeInv /\ GoneInv /\ LossInv /\ [Next]_vars => LossInv'
  BY LossStep
<1>4. LossInv => NoSilentLoss
  BY DEF LossInv
<1>5. QED
  BY <1>1, <1>2, <1>3, <1>4, TypeInit, TypeStep, PTL DEF Spec

=============================================================================
