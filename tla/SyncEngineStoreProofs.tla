------------------------ MODULE SyncEngineStoreProofs ------------------------
(***************************************************************************)
(* What the store knows of Kentik, for any number of sites and devices and *)
(* any bounds: the mappings name exactly the objects there are, and their  *)
(* hashes tell the truth.  It holds as long as every answer of Kentik      *)
(* arrives, every store write succeeds and no run is cut short; fetches may*)
(* fail or be truncated, and Kentik may refuse whatever it likes.          *)
(***************************************************************************)
EXTENDS SyncEngineProofs

AnswersArrive == Faults \subseteq {"fetch", "truncate", "reject"}

(***************************************************************************)
(* Linked: an object is known by a live mapping, or by a confirmed create  *)
(* that is about to be saved.  Backed: both of these lead to an object.    *)
(* Unmapped: what is created had no mapping, so one object per item is all *)
(* there can be.                                                           *)
(***************************************************************************)
Mapped(e, id) == mapping[e] # None /\ mapping[e].id = id

Linked ==
    \A o \in objects :
        \/ Mapped(o.id[1], o.id) /\ o.id[1] \notin deleted
        \/ created[o.id[1]] = o.id

Backed ==
    /\ \A e \in Items : mapping[e] # None /\ e \notin deleted =>
          \E o \in objects : o.id = mapping[e].id
    /\ \A e \in Items : created[e] # None =>
          \E o \in objects : o.id = created[e]

Unmapped ==
    /\ \A e \in Items : created[e] # None => mapping[e] = None
    /\ \A e \in toCreate : mapping[e] = None /\ created[e] = None

(***************************************************************************)
(* An object holds the content last confirmed for it: that of the snapshot *)
(* while its mapping is not saved yet, and the recorded one otherwise.     *)
(***************************************************************************)
Holds(o, c) ==
    /\ o.attr = c.attr
    /\ o.site # None => o.site[1] = c.site

Confirmed(e) == IF e \in confirmed THEN snap[e] ELSE mapping[e].hash

Truthful ==
    \A o \in objects :
        /\ Mapped(o.id[1], o.id) => Holds(o, Confirmed(o.id[1]))
        /\ created[o.id[1]] = o.id => Holds(o, snap[o.id[1]])

StoreInv == ~cancelled /\ Linked /\ Backed /\ Unmapped /\ Truthful

(***************************************************************************)
(* Everything the steps below start from.                                  *)
(***************************************************************************)
Base == TypeInv /\ OwnInv /\ StoreInv

-----------------------------------------------------------------------------
(***************************************************************************)
(* Facts about IDs and calls.                                              *)
(***************************************************************************)
LEMMA IdFacts ==
    ASSUME TypeInv
    PROVE  /\ \A o \in objects : o.id \in Ids /\ o.id[1] \in Items /\ o.id # None
           /\ \A e \in Items : mapping[e] # None => mapping[e] \in Mapping
           /\ \A e \in Items : mapping[e] # None =>
                mapping[e].id \in Ids /\ mapping[e].hash \in Content
           /\ \A e \in Items : created[e] # None => created[e] \in Ids
           /\ \A e \in Items : snap[e] # None => snap[e] \in Content
           /\ \A o \in objects : o.site # None => o.site \in Ids /\ o.site[1] \in Items
           /\ \A id \in Ids : id[1] \in Items /\ id # None
<1>1. \A o \in objects : o.id \in Ids /\ o.site \in Ids \cup {None}
  BY SMT DEF TypeInv, TypeOK, Objects
<1>2. \A id \in Ids : id[1] \in Items
  BY SMT DEF Ids
<1>3. \A e \in Items : mapping[e] # None => mapping[e] \in Mapping
  BY SMT DEF TypeInv, TypeOK
<1>4. \A m \in Mapping : m.id \in Ids /\ m.hash \in Content
  BY SMT DEF Mapping
<1>5. /\ \A e \in Items : created[e] # None => created[e] \in Ids
      /\ \A e \in Items : snap[e] # None => snap[e] \in Content
  BY SMT DEF TypeInv, TypeOK
<1>6. \A id \in Ids : id # None
  BY SyncEngineAssumption
<1>7. QED BY <1>1, <1>2, <1>3, <1>4, <1>5, <1>6

LEMMA OwnFacts ==
    ASSUME TypeInv, OwnInv
    PROVE  /\ \A e \in Items : mapping[e] # None => mapping[e].id[1] = e
           /\ \A e \in Items : created[e] # None => created[e][1] = e
           /\ \A e1, e2 \in Items :
                mapping[e1] # None /\ mapping[e2] # None
                  /\ mapping[e1].id = mapping[e2].id => e1 = e2
<1>1. /\ \A e \in Items : mapping[e] # None => mapping[e].id[1] = e
      /\ \A e \in Items : created[e] # None => created[e][1] = e
  BY Zenon DEF OwnInv, MappingOwnsObject, Owned
<1>2. QED BY <1>1

LEMMA NothingLost ==
    ASSUME AnswersArrive, ~cancelled
    PROVE  /\ CallOutcomes \subseteq {Executed(1), Rejected}
           /\ \A batch : BatchOutcomes(batch) \subseteq {Executed(1), Rejected}
           /\ ~StoreFails
           /\ ~CanFail("crash") /\ ~CanFail("cancel")
<1>1. /\ ~CanFail("timeout") /\ ~CanFail("store")
      /\ ~CanFail("crash") /\ ~CanFail("cancel")
  BY SMT DEF AnswersArrive, CanFail
<1>2. CallOutcomes \subseteq {Executed(1), Rejected}
  BY <1>1, Zenon DEF CallOutcomes
<1>3. \A batch : BatchOutcomes(batch) \subseteq {Executed(1), Rejected}
  BY <1>2, Zenon DEF BatchOutcomes
<1>4. QED BY <1>1, <1>2, <1>3 DEF StoreFails

LEMMA OutcomeFacts ==
    /\ Executed(1).times = 1 /\ Executed(1).ok = TRUE
    /\ Rejected.times = 0 /\ Rejected.ok = FALSE
    /\ Rejected # Executed(1)
BY SMT DEF Executed, Rejected

-----------------------------------------------------------------------------
(***************************************************************************)
(* What the calls amount to when their answers arrive: the items `done` are*)
(* exactly those that were executed, and exactly those the agent knows of. *)
(***************************************************************************)
NewOf(done) == {NewObject(e, serial[e] + 1) : e \in done}

CreateEffect(asked, done) ==
    /\ phase = "apply"
    /\ asked \subseteq toCreate /\ done \subseteq asked
    /\ \A e \in done : \/ snap[e].site = None
                       \/ mapping[snap[e].site] # None
    /\ objects' = objects \cup NewOf(done)
    /\ created' = [e \in Items |-> IF e \in done THEN <<e, serial[e] + 1>>
                                                 ELSE created[e]]
    /\ toCreate' = toCreate \ asked
    /\ failures' = failures \cup (asked \ done)
    /\ UNCHANGED <<netboxVars, storeVars, fetchVars, toUpdate, toDelete,
                   confirmed, deleted, phase, obj, cancelled>>

UpdateEffect(asked, done) ==
    /\ phase = "apply"
    /\ asked \subseteq toUpdate /\ done \subseteq asked
    /\ \A e \in done : \/ snap[e].site = None
                       \/ mapping[snap[e].site] # None
    /\ ExecuteUpdates(done)
    /\ confirmed' = confirmed \cup done
    /\ toUpdate' = toUpdate \ asked
    /\ failures' = failures \cup (asked \ done)
    /\ UNCHANGED <<netboxVars, storeVars, serial, fetchVars, toCreate,
                   toDelete, created, deleted, phase, obj, cancelled>>

DeleteEffect(asked, done) ==
    /\ phase = "delete"
    /\ asked \subseteq toDelete /\ done \subseteq asked
    /\ ExecuteDeletes(done)
    /\ deleted' = deleted \cup done
    /\ toDelete' = toDelete \ asked
    /\ failures' = failures \cup (asked \ done)
    /\ UNCHANGED <<netboxVars, storeVars, serial, fetchVars, toCreate,
                   toUpdate, created, confirmed, phase, obj, cancelled>>

LEMMA CreateSiteEffect ==
    ASSUME AnswersArrive, Base, NEW s \in Sites, CreateSite(s)
    PROVE  \E done : CreateEffect({s}, done)
<1>1. PICK outcome \in CallOutcomes :
        /\ ExecuteCreates({s}, outcome.times)
        /\ IF outcome.ok
             THEN /\ created' = [created EXCEPT ![s] = LastId(s, outcome.times)]
                  /\ UNCHANGED failures
             ELSE /\ failures' = failures \cup {s}
                  /\ UNCHANGED created
  BY DEF CreateSite
<1>2. s \in Items /\ s \in toCreate /\ snap[s].site = None
  BY ContentFacts, SMT DEF CreateSite, Items, Base, TypeInv, PlanOK
<1>3. created = [e \in Items |-> created[e]]
  BY SMT DEF Base, TypeInv, TypeOK
<1>4. CASE outcome = Executed(1)
  <2>1. objects' = objects \cup NewOf({s})
    BY <1>1, <1>4, OutcomeFacts, SMT DEF ExecuteCreates, NewOf
  <2>2. created' = [e \in Items |-> IF e \in {s} THEN <<e, serial[e] + 1>>
                                                 ELSE created[e]]
    BY <1>1, <1>2, <1>3, <1>4, OutcomeFacts, SMT DEF LastId
  <2>3. failures' = failures \cup ({s} \ {s})
    BY <1>1, <1>4, OutcomeFacts
  <2>4. CreateEffect({s}, {s})
    BY <1>2, <2>1, <2>2, <2>3 DEF CreateEffect, CreateSite
  <2>5. QED BY <2>4
<1>5. CASE outcome = Rejected
  <2>1. objects' = objects \cup NewOf({})
    BY <1>1, <1>5, OutcomeFacts, SMT DEF ExecuteCreates, NewOf
  <2>2. created' = [e \in Items |-> IF e \in {} THEN <<e, serial[e] + 1>>
                                                ELSE created[e]]
    BY <1>1, <1>3, <1>5, OutcomeFacts
  <2>3. failures' = failures \cup ({s} \ {})
    BY <1>1, <1>5, OutcomeFacts
  <2>4. CreateEffect({s}, {})
    BY <1>2, <2>1, <2>2, <2>3 DEF CreateEffect, CreateSite
  <2>5. QED BY <2>4
<1>6. QED BY <1>4, <1>5, NothingLost DEF Base, StoreInv

LEMMA CreateDevicesEffect ==
    ASSUME AnswersArrive, DistinctNames, Base, CreateDevices
    PROVE  \E done : CreateEffect(toCreate, done)
<1> DEFINE batch == Resolvable(toCreate)
<1>1. PICK outcome \in BatchOutcomes(batch), refused \in Refusals(batch) :
        /\ refused # {} => outcome = Executed(1)
        /\ ExecuteCreates(batch \ refused, outcome.times)
        /\ \E asked \in PerName(batch), answered \in PerName(batch \ refused) :
            LET matched == {e \in batch : /\ outcome.ok
                                          /\ asked[NameOf[e]] = e
                                          /\ NameOf[e] \in DOMAIN answered}
            IN /\ created' = [e \in Items |->
                    IF e \in matched
                      THEN LastId(answered[NameOf[e]], outcome.times)
                      ELSE created[e]]
               /\ failures' = failures \cup (toCreate \ batch)
                    \cup ({asked[n] : n \in DOMAIN asked} \ matched)
  BY DEF CreateDevices
<1>2. PICK asked \in PerName(batch), answered \in PerName(batch \ refused) :
        LET matched == {e \in batch : /\ outcome.ok
                                      /\ asked[NameOf[e]] = e
                                      /\ NameOf[e] \in DOMAIN answered}
        IN /\ created' = [e \in Items |->
                IF e \in matched
                  THEN LastId(answered[NameOf[e]], outcome.times)
                  ELSE created[e]]
           /\ failures' = failures \cup (toCreate \ batch)
                \cup ({asked[n] : n \in DOMAIN asked} \ matched)
  BY <1>1
<1> DEFINE matched == {e \in batch : /\ outcome.ok
                                     /\ asked[NameOf[e]] = e
                                     /\ NameOf[e] \in DOMAIN answered}
<1>3. batch \subseteq toCreate /\ batch \subseteq Devices /\ batch \subseteq Items
  BY SMT DEF Resolvable, CreateDevices, Base, TypeInv, PlanOK, TypeOK, ItemsOf
<1>4. /\ DOMAIN asked = {NameOf[d] : d \in batch}
      /\ DOMAIN answered = {NameOf[d] : d \in batch \ refused}
      /\ \A n \in DOMAIN asked : asked[n] \in batch /\ NameOf[asked[n]] = n
      /\ \A n \in DOMAIN answered :
           answered[n] \in batch \ refused /\ NameOf[answered[n]] = n
  BY SMT DEF PerName
<1> HIDE DEF batch
<1>5. \A e \in batch : asked[NameOf[e]] = e
  BY <1>3, <1>4, SMT DEF DistinctNames
<1>6. \A e \in batch : NameOf[e] \in DOMAIN answered <=> e \notin refused
  BY <1>3, <1>4, SMT DEF DistinctNames
<1>7. \A e \in batch \ refused : answered[NameOf[e]] = e
  BY <1>3, <1>4, SMT DEF DistinctNames
<1>8. {asked[n] : n \in DOMAIN asked} = batch
  BY <1>4, <1>5, SMT
<1>9. /\ phase = "apply" /\ toCreate' = {}
      /\ UNCHANGED <<netboxVars, storeVars, fetchVars, toUpdate, toDelete,
                     confirmed, deleted, phase, obj, cancelled>>
      /\ \A d \in batch : mapping[snap[d].site] # None
  BY DEF CreateDevices, Resolvable, batch
<1>10. CASE outcome = Executed(1)
  <2> DEFINE done == batch \ refused
  <2>1. matched = done
    BY <1>5, <1>6, <1>10, OutcomeFacts
  <2>2. objects' = objects \cup NewOf(done)
    BY <1>1, <1>10, OutcomeFacts, SMT DEF ExecuteCreates, NewOf
  <2>3. \A e \in done : LastId(answered[NameOf[e]], outcome.times)
                          = <<e, serial[e] + 1>>
    BY <1>7, <1>10, OutcomeFacts DEF LastId
  <2>4. created' = [e \in Items |-> IF e \in done THEN <<e, serial[e] + 1>>
                                                  ELSE created[e]]
    <3>1. created' = [e \in Items |->
             IF e \in done THEN LastId(answered[NameOf[e]], outcome.times)
                           ELSE created[e]]
      BY <1>2, <2>1
    <3> HIDE DEF done
    <3>2. QED BY <2>3, <3>1, SMT
  <2>5. failures' = failures \cup (toCreate \ done)
    BY <1>2, <1>3, <1>8, <2>1
  <2>6. CreateEffect(toCreate, done)
    BY <1>3, <1>9, <2>2, <2>4, <2>5 DEF CreateEffect
  <2>7. QED BY <2>6
<1>11. CASE outcome = Rejected
  <2>1. matched = {}
    BY <1>11, OutcomeFacts
  <2>2. objects' = objects \cup NewOf({})
    BY <1>1, <1>11, OutcomeFacts, SMT DEF ExecuteCreates, NewOf
  <2>3. created' = [e \in Items |-> IF e \in {} THEN <<e, serial[e] + 1>>
                                                ELSE created[e]]
    BY <1>2, <2>1
  <2>4. failures' = failures \cup (toCreate \ {})
    BY <1>2, <1>3, <1>8, <2>1
  <2>5. CreateEffect(toCreate, {})
    BY <1>9, <2>2, <2>3, <2>4 DEF CreateEffect
  <2>6. QED BY <2>5
<1>12. QED BY <1>10, <1>11, NothingLost DEF Base, StoreInv

LEMMA UpdateSiteEffect ==
    ASSUME AnswersArrive, Base, NEW s \in Sites, UpdateSite(s)
    PROVE  \E done : UpdateEffect({s}, done)
<1>1. PICK outcome \in CallOutcomes :
        /\ ExecuteUpdates({u \in {s} : Known(u) /\ outcome.times > 0})
        /\ IF outcome.ok /\ Known(s)
             THEN confirmed' = confirmed \cup {s} /\ UNCHANGED failures
             ELSE failures' = failures \cup {s} /\ UNCHANGED confirmed
  BY DEF UpdateSite
<1>2. s \in Items /\ s \in toUpdate /\ snap[s].site = None
  BY ContentFacts, SMT DEF UpdateSite, Items, Base, TypeInv, PlanOK
<1>3. CASE outcome = Executed(1) /\ Known(s)
  <2>1. {u \in {s} : Known(u) /\ outcome.times > 0} = {s}
    BY <1>3, OutcomeFacts, SMT
  <2>2. UpdateEffect({s}, {s})
    BY <1>1, <1>2, <1>3, <2>1, OutcomeFacts DEF UpdateEffect, UpdateSite
  <2>3. QED BY <2>2
<1>4. CASE outcome = Rejected \/ ~Known(s)
  <2>1. {u \in {s} : Known(u) /\ outcome.times > 0} = {}
    BY <1>4, OutcomeFacts, SMT
  <2>2. UpdateEffect({s}, {})
    BY <1>1, <1>2, <1>4, <2>1, OutcomeFacts DEF UpdateEffect, UpdateSite
  <2>3. QED BY <2>2
<1>5. QED BY <1>3, <1>4, NothingLost DEF Base, StoreInv

LEMMA UpdateDevicesEffect ==
    ASSUME AnswersArrive, Base, UpdateDevices
    PROVE  \E done : UpdateEffect(toUpdate, done)
<1> DEFINE batch == {d \in Resolvable(toUpdate) : Known(d)}
<1>1. PICK outcome \in BatchOutcomes(Resolvable(toUpdate)),
           refused \in Refusals(batch) :
        /\ refused # {} => outcome = Executed(1)
        /\ ExecuteUpdates(IF outcome.times > 0 THEN batch \ refused ELSE {})
        /\ confirmed' = confirmed \cup ConfirmedOf(outcome, batch, refused)
        /\ failures' = failures
             \cup (toUpdate \ ConfirmedOf(outcome, batch, refused))
  BY DEF UpdateDevices
<1> DEFINE done == ConfirmedOf(outcome, batch, refused)
<1>2. (IF outcome.times > 0 THEN batch \ refused ELSE {}) = done
  <2>1. outcome \in {Executed(1), Rejected}
    BY NothingLost DEF Base, StoreInv
  <2>2. QED BY <2>1, OutcomeFacts, SMT DEF ConfirmedOf
<1>3. /\ batch \subseteq toUpdate
      /\ \A d \in batch : mapping[snap[d].site] # None
  BY DEF Resolvable
<1>4. done \subseteq batch
  BY DEF ConfirmedOf
<1>5. /\ phase = "apply" /\ toUpdate' = {}
      /\ UNCHANGED <<netboxVars, storeVars, serial, fetchVars, toCreate,
                     toDelete, created, deleted, phase, obj, cancelled>>
  BY DEF UpdateDevices
<1> HIDE DEF batch, done
<1>6. UpdateEffect(toUpdate, done)
  BY <1>1, <1>2, <1>3, <1>4, <1>5 DEF UpdateEffect, done
<1>7. QED BY <1>6

LEMMA DeleteDevicesEffect ==
    ASSUME AnswersArrive, Base, DeleteDevices
    PROVE  \E done : DeleteEffect(toDelete \cap Devices, done)
<1> DEFINE asked == toDelete \cap Devices
           batch == {d \in asked : Known(d)}
<1>1. PICK outcome \in CallOutcomes, refused \in Refusals(batch) :
        LET done == IF outcome.times > 1 THEN {}
                      ELSE ConfirmedOf(outcome, batch, refused) IN
        /\ ExecuteDeletes(IF outcome.times > 0 THEN batch \ refused ELSE {})
        /\ deleted' = deleted \cup done
        /\ failures' = failures \cup (asked \ done)
  BY DEF DeleteDevices
<1> DEFINE done == ConfirmedOf(outcome, batch, refused)
<1>2. /\ ~(outcome.times > 1)
      /\ (IF outcome.times > 0 THEN batch \ refused ELSE {}) = done
  <2>1. outcome \in {Executed(1), Rejected}
    BY NothingLost DEF Base, StoreInv
  <2>2. QED BY <2>1, OutcomeFacts, SMT DEF ConfirmedOf
<1>3. done \subseteq asked
  BY DEF ConfirmedOf
<1>4. /\ phase = "delete" /\ toDelete' = toDelete \ asked
      /\ UNCHANGED <<netboxVars, storeVars, serial, fetchVars, toCreate,
                     toUpdate, created, confirmed, phase, obj, cancelled>>
  BY DEF DeleteDevices
<1>5. /\ ExecuteDeletes(done)
      /\ deleted' = deleted \cup done
      /\ failures' = failures \cup (asked \ done)
  BY <1>1, <1>2
<1>6. DeleteEffect(asked, done)
  BY <1>3, <1>4, <1>5 DEF DeleteEffect
<1>7. QED BY <1>6

LEMMA DeleteSiteEffect ==
    ASSUME AnswersArrive, Base, NEW s \in Sites, DeleteSite(s)
    PROVE  \E done : DeleteEffect({s}, done)
<1>1. PICK outcome \in CallOutcomes :
        /\ ExecuteDeletes({u \in {s} : outcome.times > 0})
        /\ IF outcome = Executed(1) /\ Known(s)
             THEN deleted' = deleted \cup {s} /\ UNCHANGED failures
             ELSE failures' = failures \cup {s} /\ UNCHANGED deleted
  BY DEF DeleteSite
<1>2. outcome \in {Executed(1), Rejected}
  BY NothingLost DEF Base, StoreInv
<1>3. /\ phase = "delete" /\ {s} \subseteq toDelete /\ toDelete' = toDelete \ {s}
      /\ UNCHANGED <<netboxVars, storeVars, serial, fetchVars, toCreate,
                     toUpdate, created, confirmed, phase, obj, cancelled>>
  BY DEF DeleteSite
<1>4. CASE outcome = Executed(1) /\ Known(s)
  <2>1. {u \in {s} : outcome.times > 0} = {s}
    BY <1>4, OutcomeFacts, SMT
  <2>2. DeleteEffect({s}, {s})
    BY <1>1, <1>3, <1>4, <2>1 DEF DeleteEffect
  <2>3. QED BY <2>2
<1>5. CASE outcome = Executed(1) /\ ~Known(s)
  <2>1. \A o \in objects : mapping[s].id # o.id
    BY <1>5 DEF Known
  <2>2. ExecuteDeletes({})
    BY <1>1, <2>1 DEF ExecuteDeletes
  <2>3. DeleteEffect({s}, {})
    BY <1>1, <1>3, <1>5, <2>2 DEF DeleteEffect
  <2>4. QED BY <2>3
<1>6. CASE outcome = Rejected
  <2>1. {u \in {s} : outcome.times > 0} = {}
    BY <1>6, OutcomeFacts, SMT
  <2>2. DeleteEffect({s}, {})
    BY <1>1, <1>3, <1>6, <2>1, OutcomeFacts DEF DeleteEffect
  <2>3. QED BY <2>2
<1>7. QED BY <1>2, <1>4, <1>5, <1>6

-----------------------------------------------------------------------------
(***************************************************************************)
(* The site a new or updated object refers to is the one of its snapshot.  *)
(***************************************************************************)
LEMMA SiteFacts ==
    ASSUME Base, NEW e \in Items, snap[e] # None,
           snap[e].site = None \/ mapping[snap[e].site] # None
    PROVE  /\ SiteId(snap[e].site) # None =>
                /\ snap[e].site \in Sites /\ mapping[snap[e].site] # None
                /\ SiteId(snap[e].site) = mapping[snap[e].site].id
                /\ SiteId(snap[e].site)[1] = snap[e].site
           /\ snap[e].site # None => SiteId(snap[e].site) # None
<1>1. snap[e].site \in Sites \cup {None}
  BY ContentFacts, SMT DEF Base, TypeInv, TypeOK, Content
<1>2. CASE snap[e].site = None
  BY <1>2 DEF SiteId
<1>3. CASE snap[e].site # None
  <2>1. snap[e].site \in Items /\ mapping[snap[e].site] # None
    BY <1>1, <1>3 DEF Items
  <2>2. /\ mapping[snap[e].site].id[1] = snap[e].site
        /\ mapping[snap[e].site].id # None
    BY <2>1, IdFacts, OwnFacts DEF Base
  <2>3. SiteId(snap[e].site) = mapping[snap[e].site].id
    BY <1>3 DEF SiteId
  <2>4. QED BY <1>1, <1>3, <2>1, <2>2, <2>3
<1>4. QED BY <1>2, <1>3

LEMMA StoreStutter ==
    ASSUME Base, UNCHANGED <<objects, mapping, created, deleted, confirmed>>,
           ~cancelled',
           snap' = snap \/ (confirmed = {} /\ created = Blank),
           \A e \in toCreate' : mapping[e] = None /\ created[e] = None
    PROVE  StoreInv'
<1>1. Linked' /\ Backed' /\ Unmapped'
  BY DEF Base, StoreInv, Linked, Backed, Unmapped, Mapped
<1>2. CASE snap' = snap
  <2>1. Truthful'
    BY <1>2 DEF Base, StoreInv, Truthful, Mapped, Holds, Confirmed
  <2>2. QED BY <1>1, <2>1 DEF StoreInv
<1>3. CASE confirmed = {} /\ created = Blank
  <2>1. \A o \in objects : created[o.id[1]] # o.id
    BY <1>3, IdFacts DEF Blank, Base
  <2>2. Truthful'
    BY <1>3, <2>1 DEF Base, StoreInv, Truthful, Mapped, Holds, Confirmed
  <2>3. QED BY <1>1, <2>2 DEF StoreInv
<1>4. QED BY <1>2, <1>3

LEMMA StoreCreate ==
    ASSUME Base, NEW asked, NEW done, CreateEffect(asked, done)
    PROVE  StoreInv'
<1> USE DEF netboxVars, storeVars, fetchVars
<1>1. /\ done \subseteq toCreate /\ done \subseteq Items /\ deleted = {}
      /\ \A e \in done : /\ mapping[e] = None /\ created[e] = None
                         /\ snap[e] # None
  BY DEF CreateEffect, Base, TypeInv, TypeOK, PlanOK, StoreInv, Unmapped
<1>2. /\ UNCHANGED <<mapping, snap, confirmed, deleted, cancelled>>
      /\ objects' = objects \cup NewOf(done)
      /\ \A e \in Items : created'[e] = IF e \in done THEN <<e, serial[e] + 1>>
                                                      ELSE created[e]
      /\ toCreate' \subseteq toCreate \ done
  BY DEF CreateEffect
<1>3. ASSUME NEW o \in objects
      PROVE  o.id[1] \in Items /\ o.id[1] \notin done
  <2>1. o.id[1] \in Items /\ o.id # None
    BY IdFacts DEF Base
  <2>2. QED BY <1>1, <2>1 DEF Base, StoreInv, Linked, Mapped
<1>4. ASSUME NEW e \in done
      PROVE  LET n == NewObject(e, serial[e] + 1) IN
             /\ n.id = <<e, serial[e] + 1>> /\ n.id[1] = e
             /\ Holds(n, snap[e])
  <2> DEFINE n == NewObject(e, serial[e] + 1)
  <2>1. /\ n.id = <<e, serial[e] + 1>> /\ n.id[1] = e
        /\ n.attr = snap[e].attr /\ n.site = SiteId(snap[e].site)
    BY DEF NewObject
  <2>2. SiteId(snap[e].site) # None => SiteId(snap[e].site)[1] = snap[e].site
    BY <1>1, SiteFacts DEF CreateEffect
  <2>3. QED BY <2>1, <2>2 DEF Holds
<1>5. ASSUME NEW o \in objects'
      PROVE  o \in objects \/ \E e \in done : o = NewObject(e, serial[e] + 1)
  BY <1>2, <1>5 DEF NewOf
<1>6. Linked'
  <2> SUFFICES ASSUME NEW o \in objects'
               PROVE  \/ Mapped(o.id[1], o.id)' /\ o.id[1] \notin deleted'
                      \/ created'[o.id[1]] = o.id
    BY DEF Linked, Mapped
  <2>1. CASE o \in objects
    BY <1>2, <1>3, <2>1 DEF Base, StoreInv, Linked, Mapped
  <2>2. ASSUME NEW e \in done, o = NewObject(e, serial[e] + 1)
        PROVE  created'[o.id[1]] = o.id
    BY <1>1, <1>2, <1>4, <2>2
  <2>3. QED BY <1>5, <2>1, <2>2
<1>7. Backed'
  <2>1. ASSUME NEW e \in Items, mapping'[e] # None, e \notin deleted'
        PROVE  \E o \in objects' : o.id = mapping'[e].id
    BY <1>2, <2>1 DEF Base, StoreInv, Backed
  <2>2. ASSUME NEW e \in Items, created'[e] # None
        PROVE  \E o \in objects' : o.id = created'[e]
    <3>1. CASE e \in done
      <4>1. NewObject(e, serial[e] + 1) \in objects'
        BY <1>2, <3>1 DEF NewOf
      <4>2. QED BY <1>2, <1>4, <3>1, <4>1
    <3>2. CASE e \notin done
      BY <1>2, <2>2, <3>2 DEF Base, StoreInv, Backed
    <3>3. QED BY <3>1, <3>2
  <2>3. QED BY <2>1, <2>2 DEF Backed
<1>8. Unmapped'
  <2>1. \A e \in toCreate' : e \in Items /\ e \in toCreate /\ e \notin done
    BY <1>2 DEF Base, TypeInv, TypeOK
  <2>2. QED BY <1>1, <1>2, <2>1 DEF Base, StoreInv, Unmapped
<1>9. Truthful'
  <2> SUFFICES ASSUME NEW o \in objects'
               PROVE  /\ Mapped(o.id[1], o.id) => Holds(o, Confirmed(o.id[1]))
                      /\ created'[o.id[1]] = o.id => Holds(o, snap[o.id[1]])
    BY <1>2 DEF Truthful, Mapped, Confirmed, Holds
  <2>1. CASE o \in objects
    BY <1>2, <1>3, <2>1 DEF Base, StoreInv, Truthful
  <2>2. ASSUME NEW e \in done, o = NewObject(e, serial[e] + 1)
        PROVE  o.id[1] = e /\ mapping[e] = None /\ Holds(o, snap[e])
    BY <1>1, <1>4, <2>2
  <2>3. QED BY <1>5, <2>1, <2>2 DEF Mapped
<1>10. QED BY <1>2, <1>6, <1>7, <1>8, <1>9 DEF Base, StoreInv

LEMMA StoreUpdate ==
    ASSUME Base, NEW asked, NEW done, UpdateEffect(asked, done)
    PROVE  StoreInv'
<1> USE DEF netboxVars, storeVars, fetchVars
<1> DEFINE Updated(e) == [id |-> mapping[e].id, attr |-> snap[e].attr,
                          site |-> SiteId(snap[e].site)]
<1>1. /\ done \subseteq toUpdate /\ done \subseteq Items /\ deleted = {}
      /\ \A e \in done : mapping[e] # None /\ snap[e] # None
  BY DEF UpdateEffect, Base, TypeInv, TypeOK, PlanOK
<1>2. /\ UNCHANGED <<mapping, snap, created, deleted, cancelled, toCreate>>
      /\ confirmed' = confirmed \cup done
  BY DEF UpdateEffect
<1>3. ASSUME NEW e \in done
      PROVE  /\ Updated(e).id = mapping[e].id /\ mapping[e].id[1] = e
             /\ created[e] = None
             /\ Holds(Updated(e), snap[e])
  <2>1. /\ Updated(e).id = mapping[e].id /\ Updated(e).attr = snap[e].attr
        /\ Updated(e).site = SiteId(snap[e].site)
    OBVIOUS
  <2>2. SiteId(snap[e].site) # None => SiteId(snap[e].site)[1] = snap[e].site
    BY <1>1, SiteFacts DEF UpdateEffect
  <2>3. mapping[e].id[1] = e /\ created[e] = None
    BY <1>1, OwnFacts DEF Base, StoreInv, Unmapped
  <2>4. QED BY <2>1, <2>2, <2>3 DEF Holds
<1>4. /\ \A o \in objects' :
           \/ o \in objects /\ \A e \in done : mapping[e].id # o.id
           \/ \E e \in done : o = Updated(e)
      /\ \A e \in done : Updated(e) \in objects'
      /\ \A o \in objects :
           (\A e \in done : mapping[e].id # o.id) => o \in objects'
  BY DEF UpdateEffect, ExecuteUpdates
<1> HIDE DEF Updated
<1>5. Linked'
  <2> SUFFICES ASSUME NEW o \in objects'
               PROVE  \/ Mapped(o.id[1], o.id) /\ o.id[1] \notin deleted
                      \/ created[o.id[1]] = o.id
    BY <1>2 DEF Linked, Mapped
  <2>1. CASE o \in objects
    BY <2>1 DEF Base, StoreInv, Linked
  <2>2. ASSUME NEW e \in done, o = Updated(e)
        PROVE  Mapped(o.id[1], o.id)
    BY <1>1, <1>3, <2>2 DEF Mapped
  <2>3. QED BY <1>1, <1>4, <2>1, <2>2
<1>6. Backed'
  <2>1. ASSUME NEW e \in Items, mapping[e] # None, e \notin deleted
        PROVE  \E o \in objects' : o.id = mapping[e].id
    <3>1. CASE e \in done
      BY <1>3, <1>4, <3>1
    <3>2. CASE e \notin done
      <4>1. PICK o \in objects : o.id = mapping[e].id
        BY <2>1 DEF Base, StoreInv, Backed
      <4>2. \A i \in done : mapping[i].id # o.id
        BY <1>1, <2>1, <3>2, <4>1, OwnFacts DEF Base
      <4>3. QED BY <1>4, <4>1, <4>2
    <3>3. QED BY <3>1, <3>2
  <2>2. ASSUME NEW e \in Items, created[e] # None
        PROVE  \E o \in objects' : o.id = created[e]
    <3>1. PICK o \in objects : o.id = created[e]
      BY <2>2 DEF Base, StoreInv, Backed
    <3>2. created[e][1] = e
      BY <2>2, OwnFacts DEF Base
    <3>3. \A i \in done : mapping[i].id # o.id
      BY <1>3, <2>2, <3>1, <3>2
    <3>4. QED BY <1>4, <3>1, <3>3
  <2>3. QED BY <1>2, <2>1, <2>2 DEF Backed
<1>7. Unmapped'
  BY <1>2 DEF Base, StoreInv, Unmapped
<1>8. Truthful'
  <2> SUFFICES ASSUME NEW o \in objects'
               PROVE  /\ Mapped(o.id[1], o.id) =>
                           Holds(o, Confirmed(o.id[1])')
                      /\ created[o.id[1]] = o.id => Holds(o, snap[o.id[1]])
    BY <1>2 DEF Truthful, Mapped, Holds, Confirmed
  <2>1. CASE o \in objects /\ \A e \in done : mapping[e].id # o.id
    <3>1. Mapped(o.id[1], o.id) => Confirmed(o.id[1])' = Confirmed(o.id[1])
      BY <1>2, <2>1 DEF Mapped, Confirmed
    <3>2. QED BY <2>1, <3>1 DEF Base, StoreInv, Truthful
  <2>2. ASSUME NEW e \in done, o = Updated(e)
        PROVE  /\ o.id[1] = e /\ created[e] # o.id
               /\ Holds(o, Confirmed(e)')
    <3>1. Confirmed(e)' = snap[e]
      BY <1>2 DEF Confirmed
    <3>2. mapping[e].id # None
      BY <1>1, IdFacts DEF Base
    <3>3. QED BY <1>3, <2>2, <3>1, <3>2
  <2>3. QED BY <1>4, <2>1, <2>2
<1>9. QED BY <1>2, <1>5, <1>6, <1>7, <1>8 DEF Base, StoreInv

LEMMA StoreDelete ==
    ASSUME Base, NEW asked, NEW done, DeleteEffect(asked, done)
    PROVE  StoreInv'
<1> USE DEF netboxVars, storeVars, fetchVars
<1>1. /\ done \subseteq Items
      /\ \A e \in done : mapping[e] # None
      /\ created = Blank /\ toCreate = {} /\ confirmed = {}
  BY SMT DEF DeleteEffect, Base, TypeInv, TypeOK, PlanOK
<1>2. /\ UNCHANGED <<mapping, snap, created, confirmed, cancelled, toCreate>>
      /\ deleted' = deleted \cup done
  BY DEF DeleteEffect
<1>3. /\ \A o \in objects' :
           o \in objects /\ \A e \in done : mapping[e].id # o.id
      /\ \A o \in objects :
           (\A e \in done : mapping[e].id # o.id) => o \in objects'
  BY DEF DeleteEffect, ExecuteDeletes
<1>4. Linked'
  <2> SUFFICES ASSUME NEW o \in objects'
               PROVE  \/ Mapped(o.id[1], o.id) /\ o.id[1] \notin deleted'
                      \/ created[o.id[1]] = o.id
    BY <1>2 DEF Linked, Mapped
  <2>1. \/ Mapped(o.id[1], o.id) /\ o.id[1] \notin deleted
        \/ created[o.id[1]] = o.id
    BY <1>3 DEF Base, StoreInv, Linked
  <2>2. Mapped(o.id[1], o.id) => o.id[1] \notin done
    BY <1>3 DEF Mapped
  <2>3. QED BY <1>2, <2>1, <2>2
<1>5. Backed'
  <2>1. ASSUME NEW e \in Items, mapping[e] # None, e \notin deleted'
        PROVE  \E o \in objects' : o.id = mapping[e].id
    <3>1. PICK o \in objects : o.id = mapping[e].id
      BY <1>2, <2>1 DEF Base, StoreInv, Backed
    <3>2. \A i \in done : mapping[i].id # o.id
      BY <1>1, <1>2, <2>1, <3>1, OwnFacts DEF Base
    <3>3. QED BY <1>3, <3>1, <3>2
  <2>2. \A e \in Items : created[e] = None
    BY <1>1 DEF Blank
  <2>3. QED BY <1>2, <2>1, <2>2 DEF Backed
<1>6. Unmapped'
  BY <1>2 DEF Base, StoreInv, Unmapped
<1>7. Truthful'
  BY <1>2, <1>3 DEF Base, StoreInv, Truthful, Mapped, Holds, Confirmed
<1>8. QED BY <1>2, <1>4, <1>5, <1>6, <1>7 DEF Base, StoreInv

(***************************************************************************)
(* The mapping that is saved names the object and the content confirmed.   *)
(***************************************************************************)
LEMMA StoreSave ==
    ASSUME AnswersArrive, Base, NEW e \in Items,
           SaveCreated(e) \/ SaveUpdated(e)
    PROVE  StoreInv'
<1> USE DEF netboxVars, kentikVars, fetchVars
<1>1. /\ UNCHANGED <<objects, snap, deleted, toCreate, cancelled>>
      /\ phase = "apply" /\ deleted = {} /\ ~cancelled
  BY DEF SaveCreated, SaveUpdated, Base, TypeInv, PlanOK, StoreInv
<1>2. ~StoreFails
  BY <1>1, NothingLost
<1>3. mapping = [i \in Items |-> mapping[i]] /\ created = [i \in Items |-> created[i]]
  BY SMT DEF Base, TypeInv, TypeOK
<1>4. CASE SaveCreated(e)
  <2>1. /\ toCreate = {} /\ created[e] # None /\ mapping[e] = None
        /\ UNCHANGED confirmed
    BY <1>4 DEF SaveCreated, Base, StoreInv, Unmapped
  <2>2. /\ mapping'[e] = [id |-> created[e], hash |-> snap[e]]
        /\ created'[e] = None
        /\ \A i \in Items : i # e => mapping'[i] = mapping[i]
                                       /\ created'[i] = created[i]
    BY <1>2, <1>3, <1>4, SMT DEF SaveCreated, Save
  <2>3. /\ mapping'[e] # None /\ mapping'[e].id = created[e]
        /\ mapping'[e].hash = snap[e]
    <3>1. created[e] \in Ids /\ snap[e] \in Content
      BY <2>1, IdFacts DEF Base, TypeInv, PlanOK
    <3>2. [id |-> created[e], hash |-> snap[e]] \in Mapping
      BY <3>1, SMT DEF Mapping
    <3>3. QED BY <2>2, <3>2, SyncEngineAssumption
  <2>4. e \notin confirmed
    BY <2>1 DEF Base, TypeInv, PlanOK
  <2>5. \A o \in objects : o.id[1] \in Items
    BY IdFacts DEF Base
  <2>6. Linked'
    <3> SUFFICES ASSUME NEW o \in objects
                 PROVE  \/ Mapped(o.id[1], o.id)' \/ created'[o.id[1]] = o.id
      BY <1>1 DEF Linked, Mapped
    <3>1. CASE o.id[1] = e
      BY <2>1, <2>3, <3>1 DEF Base, StoreInv, Linked, Mapped
    <3>2. CASE o.id[1] # e
      BY <2>2, <2>5, <3>2 DEF Base, StoreInv, Linked, Mapped
    <3>3. QED BY <3>1, <3>2
  <2>7. Backed'
    <3>1. ASSUME NEW i \in Items, mapping'[i] # None
          PROVE  \E o \in objects : o.id = mapping'[i].id
      <4>1. CASE i = e
        BY <2>1, <2>3, <4>1 DEF Base, StoreInv, Backed
      <4>2. CASE i # e
        BY <1>1, <2>2, <3>1, <4>2 DEF Base, StoreInv, Backed
      <4>3. QED BY <4>1, <4>2
    <3>2. \A i \in Items : created'[i] # None => created'[i] = created[i]
      BY <2>2
    <3>3. QED BY <1>1, <3>1, <3>2 DEF Base, StoreInv, Backed
  <2>8. Unmapped'
    BY <1>1, <2>1, <2>2 DEF Base, StoreInv, Unmapped
  <2>9. Truthful'
    <3> SUFFICES ASSUME NEW o \in objects
                 PROVE  /\ Mapped(o.id[1], o.id)' =>
                             Holds(o, Confirmed(o.id[1])')
                        /\ created'[o.id[1]] = o.id => Holds(o, snap[o.id[1]])
      BY <1>1 DEF Truthful, Mapped, Holds, Confirmed
    <3>1. CASE o.id[1] = e
      <4>1. Confirmed(e)' = snap[e]
        BY <2>1, <2>3, <2>4 DEF Confirmed
      <4>2. created[e] = o.id /\ Holds(o, snap[e])
        BY <2>1, <3>1 DEF Base, StoreInv, Linked, Truthful, Mapped
      <4>3. QED BY <3>1, <4>1, <4>2
    <3>2. CASE o.id[1] # e
      BY <1>1, <2>1, <2>2, <2>5, <3>2
      DEF Base, StoreInv, Truthful, Mapped, Confirmed
    <3>3. QED BY <3>1, <3>2
  <2>10. QED BY <1>1, <2>6, <2>7, <2>8, <2>9 DEF StoreInv
<1>5. CASE SaveUpdated(e)
  <2>1. /\ e \in confirmed /\ confirmed' = confirmed \ {e} /\ mapping[e] # None
        /\ UNCHANGED created
    BY <1>5 DEF SaveUpdated, Base, TypeInv, PlanOK
  <2>2. /\ mapping'[e] = [id |-> mapping[e].id, hash |-> snap[e]]
        /\ \A i \in Items : i # e => mapping'[i] = mapping[i]
    BY <1>2, <1>3, <1>5, SMT DEF SaveUpdated, Save
  <2>3. /\ mapping'[e] # None /\ mapping'[e].id = mapping[e].id
        /\ mapping'[e].hash = snap[e]
    <3>1. mapping[e].id \in Ids /\ snap[e] \in Content
      BY <2>1, IdFacts DEF Base, TypeInv, PlanOK
    <3>2. [id |-> mapping[e].id, hash |-> snap[e]] \in Mapping
      BY <3>1, SMT DEF Mapping
    <3>3. QED BY <2>2, <3>2, SyncEngineAssumption
  <2>4. \A o \in objects : o.id[1] \in Items
    BY IdFacts DEF Base
  <2>5. \A i \in Items : /\ mapping'[i] # None <=> mapping[i] # None
                         /\ mapping'[i] # None => mapping'[i].id = mapping[i].id
    BY <2>1, <2>2, <2>3
  <2>6. Linked' /\ Backed' /\ Unmapped'
    <3>1. Linked'
      BY <1>1, <2>1, <2>4, <2>5 DEF Base, StoreInv, Linked, Mapped
    <3>2. Backed'
      BY <1>1, <2>1, <2>5 DEF Base, StoreInv, Backed
    <3>3. Unmapped'
      <4>1. toCreate \subseteq Items
        BY DEF Base, TypeInv, TypeOK
      <4>2. QED BY <1>1, <2>1, <2>5, <4>1 DEF Base, StoreInv, Unmapped
    <3>4. QED BY <3>1, <3>2, <3>3
  <2>7. Truthful'
    <3>1. \A i \in Items : mapping[i] # None => Confirmed(i)' = Confirmed(i)
      BY <1>1, <2>1, <2>2, <2>3 DEF Confirmed
    <3>2. QED BY <1>1, <2>1, <2>4, <2>5, <3>1
          DEF Base, StoreInv, Truthful, Mapped, Holds
  <2>8. QED BY <1>1, <2>6, <2>7 DEF StoreInv
<1>6. QED BY <1>4, <1>5

(***************************************************************************)
(* A mapping is removed after its object is.                               *)
(***************************************************************************)
LEMMA NothingToForget ==
    ASSUME Base, NEW e \in Items, Forget(e)
    PROVE  \A o \in objects : o.id[1] # e
<1>1. e \in deleted /\ created[e] = None
  BY DEF Forget, Base, TypeInv, PlanOK, Blank
<1>2. \A o \in objects : o.id # None
  BY IdFacts DEF Base
<1>3. QED BY <1>1, <1>2 DEF Base, StoreInv, Linked

LEMMA StoreForget ==
    ASSUME AnswersArrive, Base, NEW e \in Items, Forget(e)
    PROVE  StoreInv'
<1> USE DEF netboxVars, kentikVars, fetchVars
<1>1. /\ UNCHANGED <<objects, snap, created, confirmed, toCreate, cancelled>>
      /\ deleted' = deleted \ {e}
      /\ created = Blank /\ toCreate = {}
  BY DEF Forget, Base, TypeInv, PlanOK
<1>2. ~StoreFails
  BY NothingLost DEF Base, StoreInv
<1>3. mapping'[e] = None /\ \A i \in Items : i # e => mapping'[i] = mapping[i]
  BY <1>2, SMT DEF Forget, Base, TypeInv, TypeOK
<1>4. \A o \in objects : o.id[1] # e /\ o.id[1] \in Items
  BY NothingToForget, IdFacts DEF Base
<1>5. Linked'
  BY <1>1, <1>3, <1>4 DEF Base, StoreInv, Linked, Mapped
<1>6. Backed'
  BY <1>1, <1>3 DEF Base, StoreInv, Backed
<1>7. Unmapped'
  BY <1>1, <1>3 DEF Base, StoreInv, Unmapped
<1>8. Truthful'
  BY <1>1, <1>3, <1>4 DEF Base, StoreInv, Truthful, Mapped, Holds, Confirmed
<1>9. QED BY <1>1, <1>5, <1>6, <1>7, <1>8 DEF Base, StoreInv

LEMMA StoreControl ==
    ASSUME AnswersArrive, Base,
           \/ NetBoxStep \/ StartRun
           \/ \E t \in Types : MarkerAges(t)
           \/ FetchStep \/ CommitCursor \/ CommitMarker
           \/ EndRun \/ UNCHANGED vars
    PROVE  StoreInv'
<1> USE DEF netboxVars, storeVars, kentikVars, planVars, fetchVars
<1>1. CASE \/ NetBoxStep \/ StartRun \/ \E t \in Types : MarkerAges(t)
           \/ FetchFails \/ CommitMarker \/ UNCHANGED vars
  <2>1. UNCHANGED <<objects, mapping, created, deleted, confirmed, cancelled,
                    snap, toCreate>>
    BY <1>1 DEF NetBoxStep, AddOrChangeItem, RemoveItem, Edit, StartRun,
       MarkerAges, FetchFails, CommitMarker, vars
  <2>2. QED BY <2>1, StoreStutter DEF Base, StoreInv, Unmapped
<1>2. CASE BeginFetch \/ CommitCursor
  <2>1. /\ UNCHANGED <<objects, mapping, created, deleted, confirmed, cancelled,
                       toCreate>>
        /\ confirmed = {} /\ created = Blank
    BY <1>2 DEF BeginFetch, CommitCursor, ApplyDone, CreatesDone, Base,
       TypeInv, PlanOK
  <2>2. QED BY <2>1, StoreStutter DEF Base, StoreInv, Unmapped
<1>3. CASE EndFetch
  <2>1. /\ UNCHANGED <<objects, mapping, created, deleted, confirmed, cancelled>>
        /\ confirmed = {} /\ created = Blank
    BY <1>3 DEF EndFetch, Base, TypeInv, PlanOK
  <2>2. \A e \in toCreate' : mapping[e] = None /\ created[e] = None
    <3>1. \A e \in toCreate' : mapping[e] = None
      BY <1>3 DEF EndFetch, DiffCreate
    <3>2. toCreate' \subseteq Items
      BY <1>3, TypeEndFetch DEF Base, TypeInv, TypeOK
    <3>3. QED BY <2>1, <3>1, <3>2 DEF Blank
  <2>3. QED BY <2>1, <2>2, StoreStutter DEF Base, StoreInv
<1>4. CASE EndRun
  <2>1. /\ UNCHANGED <<objects, mapping, created, deleted, confirmed>>
        /\ confirmed = {} /\ created = Blank /\ toCreate' = {} /\ ~cancelled'
    BY <1>4 DEF EndRun, ResetRun, Base, TypeInv, PlanOK
  <2>2. QED BY <2>1, StoreStutter
<1>5. QED BY <1>1, <1>2, <1>3, <1>4 DEF FetchStep

LEMMA StoreStep ==
    ASSUME AnswersArrive, DistinctNames, Base, [Next]_vars
    PROVE  StoreInv'
<1>1. CASE \/ NetBoxStep \/ StartRun
           \/ \E t \in Types : MarkerAges(t)
           \/ FetchStep \/ CommitCursor \/ CommitMarker
           \/ EndRun \/ UNCHANGED vars
  BY <1>1, StoreControl
<1>2. CASE CreateDevices
  BY <1>2, CreateDevicesEffect, StoreCreate
<1>3. CASE UpdateDevices
  BY <1>3, UpdateDevicesEffect, StoreUpdate
<1>4. ASSUME NEW s \in Sites, CreateSite(s) PROVE StoreInv'
  BY <1>4, CreateSiteEffect, StoreCreate
<1>5. ASSUME NEW s \in Sites, UpdateSite(s) PROVE StoreInv'
  BY <1>5, UpdateSiteEffect, StoreUpdate
<1>6. ASSUME NEW e \in Items, SaveCreated(e) \/ SaveUpdated(e) PROVE StoreInv'
  BY <1>6, StoreSave
<1>7. CASE DeleteDevices
  BY <1>7, DeleteDevicesEffect, StoreDelete
<1>8. ASSUME NEW s \in Sites, DeleteSite(s) PROVE StoreInv'
  BY <1>8, DeleteSiteEffect, StoreDelete
<1>9. ASSUME NEW e \in Items, Forget(e) PROVE StoreInv'
  BY <1>9, StoreForget
<1>10. CASE Crash \/ Cancel
  BY <1>10, NothingLost DEF Crash, Cancel, Base, StoreInv
<1>11. QED
  BY <1>1, <1>2, <1>3, <1>4, <1>5, <1>6, <1>7, <1>8, <1>9, <1>10
  DEF Next, AgentStep, ApplyStep, DeleteStep

LEMMA BaseHolds == AnswersArrive /\ DistinctNames => (Spec => []Base)
<1> SUFFICES ASSUME AnswersArrive, DistinctNames PROVE Spec => []Base
  OBVIOUS
<1>1. Init => Base
  <2>1. Init => OwnInv
    BY SMT DEF Init, OwnInv, MappingOwnsObject, Blank
  <2>2. Init => StoreInv
    BY DEF Init, Blank, StoreInv, Linked, Backed, Unmapped, Truthful
  <2>3. QED BY <2>1, <2>2, TypeInit DEF Base
<1>2. Base /\ [Next]_vars => Base'
  BY TypeStep, OwnStep, StoreStep DEF Base
<1>3. QED BY <1>1, <1>2, PTL DEF Spec

(***************************************************************************)
(* Between runs the mappings name exactly the objects there are in Kentik, *)
(* as long as every answer arrives and every write succeeds: the agent     *)
(* leaves no orphan behind and no mapping without an object, whatever      *)
(* Kentik refuses and however many fetches fail or fall short.             *)
(***************************************************************************)
THEOREM StoreMatchesKentikHolds ==
    AnswersArrive /\ DistinctNames => (Spec => []StoreMatchesKentik)
<1>1. Base => StoreMatchesKentik
  <2> SUFFICES ASSUME Base, phase = "idle"
               PROVE  {mapping[e].id : e \in {i \in Items : mapping[i] # None}}
                        = {o.id : o \in objects}
    BY DEF StoreMatchesKentik
  <2>1. deleted = {} /\ created = Blank
    BY DEF Base, TypeInv, PlanOK
  <2>2. ASSUME NEW e \in Items, mapping[e] # None
        PROVE  \E o \in objects : o.id = mapping[e].id
    BY <2>1, <2>2 DEF Base, StoreInv, Backed
  <2>3. ASSUME NEW o \in objects
        PROVE  \E e \in {i \in Items : mapping[i] # None} : o.id = mapping[e].id
    <3>1. o.id[1] \in Items /\ o.id # None
      BY IdFacts DEF Base
    <3>2. QED BY <2>1, <3>1 DEF Base, StoreInv, Linked, Mapped, Blank
  <2>4. QED BY <2>2, <2>3
<1>2. QED BY <1>1, BaseHolds, PTL

(***************************************************************************)
(* Under the same conditions the recorded hash tells the truth between     *)
(* runs: an object whose item has an equal hash has the content of the     *)
(* item, and skipping the update loses nothing.                            *)
(***************************************************************************)
THEOREM TruthfulHashHolds ==
    AnswersArrive /\ DistinctNames => (Spec => []TruthfulHash)
<1>1. Base => TruthfulHash
  <2> SUFFICES ASSUME Base, phase = "idle", NEW o \in objects, NEW e \in Items,
                      mapping[e] # None, mapping[e].id = o.id
               PROVE  Holds(o, mapping[e].hash)
    BY DEF TruthfulHash, Holds
  <2>1. confirmed = {} /\ o.id[1] = e
    BY OwnFacts DEF Base, TypeInv, PlanOK
  <2>2. QED BY <2>1 DEF Base, StoreInv, Truthful, Mapped, Confirmed
<1>2. QED BY <1>1, BaseHolds, PTL

-----------------------------------------------------------------------------
(***************************************************************************)
(* Devices and their sites, when every run is a full one and every fetch   *)
(* is complete.  A site is deleted because it is gone, and then no device  *)
(* refers to it in NetBox any more; so the fetch of the devices, later in  *)
(* the same run, finds every device that still refers to it in Kentik      *)
(* changed or gone.  It is moved, or deleted before the site, or reported. *)
(***************************************************************************)
FullRuns == ~Incremental /\ Faults \subseteq {"reject"}

\* The device phase of a run, in which the deletes of sites are planned.
AtDevices == obj = "devices" /\ phase \in {"apply", "marker", "delete"}

SitesExist == \A d \in Devices : inv[d] # None => inv[inv[d].site] # None

OnlyDevicesRefer == \A o \in objects : o.site # None => o.id[1] \in Devices

RunIsFull ==
    /\ phase = "fetch" => full
    /\ phase = "delete" => obj = "devices"

\* What was just sent refers to a site that is there.
SentIsSound ==
    \A o \in objects :
        o.id[1] \in confirmed \/ created[o.id[1]] # None => ~Dangling(o)

\* A device that refers to a site about to be deleted is dealt with first.
ReferrersPlanned ==
    AtDevices =>
        \A o \in objects :
            o.site # None /\ o.site[1] \in toDelete =>
                o.id[1] \in failures \cup toUpdate \cup toDelete

\* What is about to be sent does not refer to a site about to be deleted.
PlanIsSound ==
    obj = "devices" /\ phase = "apply" =>
        \A d \in Devices : snap[d] # None => snap[d].site \notin toDelete

SiteInv ==
    /\ DanglingReported
    /\ SitesExist
    /\ OnlyDevicesRefer
    /\ RunIsFull
    /\ SentIsSound
    /\ ReferrersPlanned
    /\ PlanIsSound

SiteBase == Base /\ GoneInv /\ SiteInv

(***************************************************************************)
(* A reference leads to a site, and to the one of the content the agent    *)
(* recorded for the device.                                                *)
(***************************************************************************)
LEMMA ReferenceFacts ==
    ASSUME Base, NEW o \in objects, o.site # None
    PROVE  /\ o.site[1] \in Sites
           /\ created[o.id[1]] # None => o.site[1] = snap[o.id[1]].site
           /\ created[o.id[1]] = None =>
                /\ mapping[o.id[1]] # None
                /\ o.site[1] = Confirmed(o.id[1]).site
<1> DEFINE e == o.id[1]
<1>1. /\ e \in Items /\ o.id # None /\ o.site[1] \in Items /\ None \notin Items
      /\ \A c \in Content : c.site \in Sites \cup {None}
  BY IdFacts, SyncEngineAssumption, SMT DEF Base, Content
<1>2. CASE created[e] # None
  <2>1. mapping[e] = None /\ snap[e] \in Content
    BY <1>1, <1>2, IdFacts DEF Base, StoreInv, Unmapped, TypeInv, PlanOK
  <2>2. created[e] = o.id
    BY <2>1 DEF Base, StoreInv, Linked, Mapped
  <2>3. o.site[1] = snap[e].site
    BY <2>2 DEF Base, StoreInv, Truthful, Holds
  <2>4. QED BY <1>1, <1>2, <2>1, <2>3
<1>3. CASE created[e] = None
  <2>1. Mapped(e, o.id)
    BY <1>1, <1>3 DEF Base, StoreInv, Linked
  <2>2. o.site[1] = Confirmed(e).site
    BY <2>1 DEF Base, StoreInv, Truthful, Holds
  <2>3. Confirmed(e) \in Content
    BY <1>1, <2>1, IdFacts DEF Confirmed, Mapped, Base, TypeInv, PlanOK
  <2>4. QED BY <1>1, <1>3, <2>1, <2>2, <2>3 DEF Mapped
<1>4. QED BY <1>2, <1>3

(***************************************************************************)
(* While objects are created and updated no mapped site is without object. *)
(***************************************************************************)
LEMMA MappedSiteThere ==
    ASSUME Base, phase = "apply", NEW s \in Items, mapping[s] # None
    PROVE  \E p \in objects : p.id = mapping[s].id
BY DEF Base, StoreInv, Backed, TypeInv, PlanOK

LEMMA SiteStutter ==
    ASSUME SiteBase, UNCHANGED <<inv, objects>>,
           failures \subseteq failures',
           confirmed' \subseteq confirmed,
           \A e \in Items : created'[e] # None => created[e] # None,
           RunIsFull', ReferrersPlanned', PlanIsSound'
    PROVE  SiteInv'
<1>1. \A o \in objects : o.id[1] \in Items
  BY IdFacts DEF SiteBase, Base
<1>2. DanglingReported' /\ SitesExist' /\ OnlyDevicesRefer'
  BY DEF SiteBase, SiteInv, DanglingReported, Dangling, SitesExist,
     OnlyDevicesRefer
<1>3. SentIsSound'
  BY <1>1 DEF SiteBase, SiteInv, SentIsSound, Dangling
<1>4. QED BY <1>2, <1>3 DEF SiteInv

LEMMA SiteNetBox ==
    ASSUME SiteBase, NetBoxStep
    PROVE  SiteInv'
<1> USE DEF storeVars, kentikVars, planVars, fetchVars
<1>1. PICK e \in Items : AddOrChangeItem(e) \/ RemoveItem(e)
  BY DEF NetBoxStep
<1>2. UNCHANGED <<objects, confirmed, created, toDelete, toUpdate, snap,
                  failures, phase, obj, full>>
  BY <1>1 DEF AddOrChangeItem, RemoveItem, Edit
<1>3. SitesExist'
  <2>1. Sites \subseteq Items /\ Devices \subseteq Items
        /\ \A d \in Devices : d \notin Sites
    BY SyncEngineAssumption DEF Items
  <2>2. \A d \in Devices : inv[d] # None => inv[d].site \in Sites
    BY <2>1, ContentFacts DEF SiteBase, Base, TypeInv, PlanOK
  <2>3. inv = [i \in Items |-> inv[i]]
    BY SMT DEF SiteBase, Base, TypeInv, TypeOK
  <2>4. CASE RemoveItem(e)
    <3>1. inv'[e] = None /\ \A i \in Items : i # e => inv'[i] = inv[i]
      BY <2>3, <2>4, SMT DEF RemoveItem, Edit
    <3>2. \A d \in Devices : inv[d] # None => inv[d].site # e
      BY <2>4 DEF RemoveItem
    <3>3. QED BY <2>1, <2>2, <3>1, <3>2 DEF SitesExist, SiteBase, SiteInv
  <2>5. CASE AddOrChangeItem(e)
    <3>1. PICK content \in ContentOf(e) :
            /\ content.site # None => inv[content.site] # None
            /\ Edit(e, content)
      BY <2>5 DEF AddOrChangeItem
    <3>2. inv'[e] = content /\ \A i \in Items : i # e => inv'[i] = inv[i]
      BY <2>3, <3>1, SMT DEF Edit
    <3>3. content # None /\ (e \in Devices => content.site \in Sites)
      BY <3>1, ContentFacts
    <3>4. None \notin Sites
      BY SyncEngineAssumption DEF Items
    <3>5. QED BY <2>1, <2>2, <3>1, <3>2, <3>3, <3>4
          DEF SitesExist, SiteBase, SiteInv
  <2>6. QED BY <1>1, <2>4, <2>5
<1>4. QED
  BY <1>2, <1>3 DEF SiteBase, SiteInv, DanglingReported, Dangling,
     OnlyDevicesRefer, RunIsFull, SentIsSound, ReferrersPlanned, AtDevices,
     PlanIsSound

LEMMA SiteControl ==
    ASSUME FullRuns, SiteBase,
           \/ StartRun \/ \E t \in Types : MarkerAges(t)
           \/ BeginFetch \/ FetchFails \/ CommitCursor \/ CommitMarker
           \/ EndRun \/ UNCHANGED vars
    PROVE  SiteInv'
<1> USE DEF netboxVars, storeVars, kentikVars, planVars, fetchVars, NextType
<1>1. ~Incremental /\ ~cancelled /\ ~CanFail("fetch") /\ ~StoreFails
  <2>1. ~CanFail("fetch") /\ ~CanFail("store")
    BY SMT DEF FullRuns, CanFail
  <2>2. QED BY <2>1 DEF FullRuns, SiteBase, Base, StoreInv, StoreFails
<1>2. CASE UNCHANGED vars
  BY <1>2, SiteStutter DEF vars, SiteBase, SiteInv, RunIsFull,
     ReferrersPlanned, AtDevices, PlanIsSound
<1>3. CASE StartRun \/ BeginFetch
  <2>1. /\ UNCHANGED <<inv, objects, failures, confirmed, created>>
        /\ phase' \in {"begin", "fetch"}
    BY <1>3 DEF StartRun, BeginFetch
  <2>2. RunIsFull' /\ ReferrersPlanned' /\ PlanIsSound'
    BY <1>1, <1>3, <2>1 DEF StartRun, BeginFetch, IsFullRun, RunIsFull,
       ReferrersPlanned, AtDevices, PlanIsSound
  <2>3. QED BY <2>1, <2>2, SiteStutter
<1>4. CASE CommitCursor \/ CommitMarker
  <2>1. /\ UNCHANGED <<inv, objects, failures, confirmed, created, toUpdate,
                       toDelete, full>>
        /\ \/ phase' = "marker" /\ obj' = obj /\ phase = "apply"
           \/ phase' = "begin" /\ obj' = "devices"
           \/ phase' = "delete" /\ obj' = obj /\ obj # "sites"
                /\ phase \in {"apply", "marker"}
    BY <1>4 DEF CommitCursor, CommitMarker
  <2>2. obj \in {"sites", "devices"}
    BY DEF SiteBase, Base, TypeInv, TypeOK, Types
  <2>3. RunIsFull' /\ PlanIsSound'
    BY <2>1, <2>2 DEF RunIsFull, PlanIsSound
  <2>4. ReferrersPlanned'
    BY <2>1, <2>2 DEF ReferrersPlanned, AtDevices, SiteBase, SiteInv
  <2>5. QED BY <2>1, <2>3, <2>4, SiteStutter
<1>5. CASE EndRun
  <2>1. /\ UNCHANGED <<inv, objects, failures>> /\ phase' = "idle"
        /\ confirmed' = {} /\ created' = Blank
    BY <1>5 DEF EndRun, ResetRun
  <2>2. RunIsFull' /\ ReferrersPlanned' /\ PlanIsSound'
    BY <2>1 DEF RunIsFull, ReferrersPlanned, AtDevices, PlanIsSound
  <2>3. QED BY <2>1, <2>2, SiteStutter DEF Blank
<1>6. QED
  BY <1>1, <1>2, <1>3, <1>4, <1>5 DEF MarkerAges, FetchFails

LEMMA SiteEndFetch ==
    ASSUME FullRuns, SiteBase, EndFetch
    PROVE  SiteInv'
<1> DEFINE items == ChangedSince(obj, since)
<1>1. NoTruncation
  BY SMT DEF FullRuns, NoTruncation
<1>2. /\ snap' = [e \in Items |-> IF e \in items THEN inv[e] ELSE None]
      /\ toUpdate' = DiffUpdate(items)
      /\ toDelete' = toDelete
           \cup DiffDelete(items, ReportedGone(obj, since), full)
  BY <1>1, CompleteFetch
<1>3. /\ UNCHANGED <<inv, objects, failures, confirmed, created, mapping, obj>>
      /\ phase' = "apply" /\ full /\ since = 0
      /\ confirmed = {} /\ created = Blank
  BY DEF EndFetch, netboxVars, storeVars, kentikVars, SiteBase, SiteInv,
     RunIsFull, GoneInv, Base, TypeInv, PlanOK
<1>4. \A e \in toDelete' : inv[e] = None
  BY <1>1, <1>3, GoneEndFetch DEF SiteBase, Base, GoneInv
<1>5. \A e \in ItemsOf(obj) : e \in Items /\ (e \in items <=> inv[e] # None)
  <2>1. \A e \in ItemsOf(obj) : e \in Items /\ updated[e] >= 0
    BY SMT DEF ItemsOf, Items, SiteBase, Base, TypeInv, TypeOK
  <2>2. QED BY <1>3, <2>1 DEF ChangedSince
<1> HIDE DEF items
<1>6. RunIsFull'
  BY <1>3 DEF RunIsFull
<1>7. PlanIsSound'
  <2> SUFFICES ASSUME NEW d \in Devices, snap'[d] # None
               PROVE  snap'[d].site \notin toDelete'
    BY DEF PlanIsSound
  <2>1. snap'[d] = inv[d] /\ inv[d] # None
    BY <1>2 DEF Items
  <2>2. QED BY <1>4, <2>1 DEF SiteBase, SiteInv, SitesExist
<1>8. ReferrersPlanned'
  <2> SUFFICES ASSUME obj = "devices", NEW o \in objects, o.site # None,
                      o.site[1] \in toDelete'
               PROVE  o.id[1] \in toUpdate' \cup toDelete'
    BY <1>3 DEF ReferrersPlanned, AtDevices
  <2> DEFINE d == o.id[1]
  <2>1. d \in ItemsOf(obj) /\ d \in Devices /\ d \in Items
    BY DEF SiteBase, SiteInv, OnlyDevicesRefer, ItemsOf, Items
  <2>2. created[d] = None /\ Confirmed(d) = mapping[d].hash
    BY <1>3, <2>1 DEF Blank, Confirmed
  <2>3. mapping[d] # None /\ o.site[1] = mapping[d].hash.site
    BY <2>2, ReferenceFacts DEF SiteBase
  <2>4. CASE inv[d] = None
    <3>1. d \in DiffDelete(items, ReportedGone(obj, since), full)
      BY <1>3, <1>5, <2>1, <2>3, <2>4 DEF DiffDelete
    <3>2. QED BY <1>2, <3>1
  <2>5. CASE inv[d] # None
    <3>1. inv[inv[d].site] # None
      BY <2>1, <2>5 DEF SiteBase, SiteInv, SitesExist
    <3>2. mapping[d].hash # inv[d]
      BY <1>4, <2>3, <3>1
    <3>3. d \in DiffUpdate(items)
      BY <1>5, <2>1, <2>3, <2>5, <3>2 DEF DiffUpdate
    <3>4. QED BY <1>2, <3>3
  <2>6. QED BY <2>4, <2>5
<1>9. QED BY <1>3, <1>6, <1>7, <1>8, SiteStutter

LEMMA SiteCreate ==
    ASSUME SiteBase, NEW asked, NEW done, CreateEffect(asked, done)
    PROVE  SiteInv'
<1> USE DEF netboxVars, storeVars, fetchVars
<1>1. /\ done \subseteq toCreate /\ done \subseteq Items
      /\ \A e \in done : /\ mapping[e] = None /\ created[e] = None
                         /\ snap[e] # None
  BY DEF CreateEffect, SiteBase, Base, TypeInv, TypeOK, PlanOK, StoreInv,
     Unmapped
<1>2. /\ UNCHANGED <<inv, mapping, snap, confirmed, deleted, toUpdate, toDelete,
                     phase, obj, full>>
      /\ objects' = objects \cup NewOf(done)
      /\ \A e \in Items : created'[e] = IF e \in done THEN <<e, serial[e] + 1>>
                                                      ELSE created[e]
      /\ failures \subseteq failures'
      /\ phase = "apply"
  BY DEF CreateEffect
<1>3. ASSUME NEW o \in objects
      PROVE  o.id[1] \in Items /\ o.id[1] \notin done
  <2>1. o.id[1] \in Items /\ o.id # None
    BY IdFacts DEF SiteBase, Base
  <2>2. QED BY <1>1, <2>1 DEF SiteBase, Base, StoreInv, Linked, Mapped
<1>4. ASSUME NEW e \in done
      PROVE  LET n == NewObject(e, serial[e] + 1) IN
             /\ n.id[1] = e /\ n.site = SiteId(snap[e].site)
             /\ n.site # None => /\ e \in Devices
                                 /\ n.site[1] = snap[e].site
                                 /\ \E p \in objects : p.id = n.site
  <2> DEFINE n == NewObject(e, serial[e] + 1)
  <2>1. n.id[1] = e /\ n.site = SiteId(snap[e].site)
    BY DEF NewObject
  <2>2. n.site # None => /\ snap[e].site \in Sites
                         /\ mapping[snap[e].site] # None
                         /\ n.site = mapping[snap[e].site].id
                         /\ n.site[1] = snap[e].site
    BY <1>1, <2>1, SiteFacts DEF CreateEffect, SiteBase
  <2>3. e \in Sites => snap[e].site \notin Sites
    <3>1. None \notin Sites
      BY SyncEngineAssumption DEF Items
    <3>2. QED BY <1>1, <3>1, ContentFacts DEF SiteBase, Base, TypeInv, PlanOK
  <2>4. QED BY <1>1, <1>2, <2>1, <2>2, <2>3, MappedSiteThere DEF SiteBase, Items
<1>5. ASSUME NEW o \in objects'
      PROVE  o \in objects \/ \E e \in done : o = NewObject(e, serial[e] + 1)
  BY <1>2, <1>5 DEF NewOf
<1>6. \A o \in objects : Dangling(o)' => Dangling(o)
  BY <1>2 DEF Dangling
<1>7. ASSUME NEW e \in done, NEW o, o = NewObject(e, serial[e] + 1)
      PROVE  ~Dangling(o)'
  BY <1>2, <1>4, <1>7 DEF Dangling
<1>8. DanglingReported'
  BY <1>2, <1>5, <1>6, <1>7 DEF SiteBase, SiteInv, DanglingReported
<1>9. OnlyDevicesRefer'
  BY <1>4, <1>5 DEF SiteBase, SiteInv, OnlyDevicesRefer
<1>10. SentIsSound'
  BY <1>2, <1>3, <1>5, <1>6, <1>7 DEF SiteBase, SiteInv, SentIsSound
<1>11. ReferrersPlanned'
  <2> SUFFICES ASSUME AtDevices, NEW o \in objects', o.site # None,
                      o.site[1] \in toDelete
               PROVE  o.id[1] \in failures' \cup toUpdate \cup toDelete
    BY <1>2 DEF ReferrersPlanned, AtDevices
  <2>1. CASE o \in objects
    BY <1>2, <2>1 DEF SiteBase, SiteInv, ReferrersPlanned
  <2>2. ASSUME NEW e \in done, o = NewObject(e, serial[e] + 1) PROVE FALSE
    BY <1>1, <1>2, <1>4, <2>2 DEF SiteBase, SiteInv, PlanIsSound, AtDevices
  <2>3. QED BY <1>5, <2>1, <2>2
<1>12. SitesExist' /\ RunIsFull' /\ PlanIsSound'
  BY <1>2 DEF SiteBase, SiteInv, SitesExist, RunIsFull, PlanIsSound
<1>13. QED BY <1>8, <1>9, <1>10, <1>11, <1>12 DEF SiteInv

LEMMA SiteUpdate ==
    ASSUME SiteBase, NEW asked, NEW done, UpdateEffect(asked, done)
    PROVE  SiteInv'
<1> USE DEF netboxVars, storeVars, fetchVars
<1> DEFINE Updated(e) == [id |-> mapping[e].id, attr |-> snap[e].attr,
                          site |-> SiteId(snap[e].site)]
<1>1. /\ done \subseteq asked /\ done \subseteq toUpdate /\ done \subseteq Items
      /\ \A e \in done : mapping[e] # None /\ snap[e] # None
  BY DEF UpdateEffect, SiteBase, Base, TypeInv, TypeOK, PlanOK
<1>2. /\ UNCHANGED <<inv, mapping, snap, created, deleted, toDelete, phase, obj,
                     full>>
      /\ confirmed' = confirmed \cup done
      /\ toUpdate' = toUpdate \ asked
      /\ failures' = failures \cup (asked \ done)
      /\ phase = "apply"
  BY DEF UpdateEffect
<1>3. ASSUME NEW e \in done
      PROVE  /\ Updated(e).id = mapping[e].id /\ mapping[e].id[1] = e
             /\ Updated(e).site = SiteId(snap[e].site)
             /\ Updated(e).site # None =>
                  /\ e \in Devices
                  /\ Updated(e).site[1] = snap[e].site
                  /\ \E p \in objects : p.id = Updated(e).site
  <2>1. Updated(e).id = mapping[e].id /\ Updated(e).site = SiteId(snap[e].site)
    OBVIOUS
  <2>2. Updated(e).site # None => /\ snap[e].site \in Sites
                                  /\ mapping[snap[e].site] # None
                                  /\ Updated(e).site = mapping[snap[e].site].id
                                  /\ Updated(e).site[1] = snap[e].site
    BY <1>1, <2>1, SiteFacts DEF UpdateEffect, SiteBase
  <2>3. e \in Sites => snap[e].site \notin Sites
    <3>1. None \notin Sites
      BY SyncEngineAssumption DEF Items
    <3>2. QED BY <1>1, <3>1, ContentFacts DEF SiteBase, Base, TypeInv, PlanOK
  <2>4. mapping[e].id[1] = e
    BY <1>1, OwnFacts DEF SiteBase, Base
  <2>5. QED
    BY <1>1, <1>2, <2>1, <2>2, <2>3, <2>4, MappedSiteThere DEF SiteBase, Items
<1>4. /\ \A o \in objects' :
           \/ o \in objects /\ \A e \in done : mapping[e].id # o.id
           \/ \E e \in done : o = Updated(e)
      /\ \A e \in done : Updated(e) \in objects'
      /\ \A o \in objects :
           (\A e \in done : mapping[e].id # o.id) => o \in objects'
  BY DEF UpdateEffect, ExecuteUpdates
<1> HIDE DEF Updated
<1>5. \A p \in objects : \E q \in objects' : q.id = p.id
  BY <1>3, <1>4
<1>6. \A o \in objects : Dangling(o)' => Dangling(o)
  BY <1>5 DEF Dangling
<1>7. ASSUME NEW e \in done, NEW o, o = Updated(e)
      PROVE  ~Dangling(o)'
  BY <1>3, <1>5, <1>7 DEF Dangling
<1>8. DanglingReported'
  BY <1>2, <1>4, <1>6, <1>7 DEF SiteBase, SiteInv, DanglingReported
<1>9. OnlyDevicesRefer'
  BY <1>3, <1>4 DEF SiteBase, SiteInv, OnlyDevicesRefer
<1>10. ASSUME NEW o \in objects, o.id[1] \in done,
              \A e \in done : mapping[e].id # o.id
       PROVE  FALSE
  <2>1. Mapped(o.id[1], o.id) \/ created[o.id[1]] = o.id
    BY DEF SiteBase, Base, StoreInv, Linked
  <2>2. created[o.id[1]] # o.id
    BY <1>1, <1>10, IdFacts DEF SiteBase, Base, StoreInv, Unmapped
  <2>3. QED BY <1>10, <2>1, <2>2 DEF Mapped
<1>11. SentIsSound'
  <2> SUFFICES ASSUME NEW o \in objects',
                      o.id[1] \in confirmed' \/ created[o.id[1]] # None
               PROVE  ~Dangling(o)'
    BY <1>2 DEF SentIsSound
  <2>1. CASE o \in objects /\ \A e \in done : mapping[e].id # o.id
    BY <1>2, <1>6, <1>10, <2>1 DEF SiteBase, SiteInv, SentIsSound
  <2>2. QED BY <1>4, <1>7, <2>1
<1>12. ReferrersPlanned'
  <2> SUFFICES ASSUME AtDevices, NEW o \in objects', o.site # None,
                      o.site[1] \in toDelete
               PROVE  o.id[1] \in failures' \cup toUpdate' \cup toDelete
    BY <1>2 DEF ReferrersPlanned, AtDevices
  <2>1. CASE o \in objects /\ \A e \in done : mapping[e].id # o.id
    BY <1>2, <1>10, <2>1 DEF SiteBase, SiteInv, ReferrersPlanned
  <2>2. ASSUME NEW e \in done, o = Updated(e) PROVE FALSE
    BY <1>1, <1>2, <1>3, <2>2 DEF SiteBase, SiteInv, PlanIsSound, AtDevices
  <2>3. QED BY <1>4, <2>1, <2>2
<1>13. SitesExist' /\ RunIsFull' /\ PlanIsSound'
  BY <1>2 DEF SiteBase, SiteInv, SitesExist, RunIsFull, PlanIsSound
<1>14. QED BY <1>8, <1>9, <1>11, <1>12, <1>13 DEF SiteInv

LEMMA SiteDeleteDevices ==
    ASSUME SiteBase, NEW done, DeleteEffect(toDelete \cap Devices, done)
    PROVE  SiteInv'
<1> USE DEF netboxVars, storeVars, fetchVars
<1>1. /\ done \subseteq Devices /\ done \subseteq Items
      /\ \A e \in done : mapping[e] # None
      /\ created = Blank /\ confirmed = {}
      /\ \A e \in Devices : e \notin Sites
  BY SyncEngineAssumption DEF DeleteEffect, SiteBase, Base, TypeInv, TypeOK,
     PlanOK
<1>2. /\ UNCHANGED <<inv, mapping, snap, created, confirmed, toUpdate, phase,
                     obj, full>>
      /\ toDelete' = toDelete \ Devices
      /\ failures' = failures \cup ((toDelete \cap Devices) \ done)
      /\ phase = "delete"
  BY DEF DeleteEffect
<1>3. /\ \A o \in objects' :
           o \in objects /\ \A e \in done : mapping[e].id # o.id
      /\ \A o \in objects :
           (\A e \in done : mapping[e].id # o.id) => o \in objects'
  BY DEF DeleteEffect, ExecuteDeletes
<1>4. ASSUME NEW o \in objects, Dangling(o)' PROVE Dangling(o)
  <2> SUFFICES ASSUME NEW p \in objects, p.id = o.site PROVE FALSE
    BY <1>4 DEF Dangling
  <2>1. o.site # None /\ p \notin objects'
    BY <1>4 DEF Dangling
  <2>2. PICK e \in done : mapping[e].id = p.id
    BY <1>3, <2>1
  <2>3. o.site[1] = e
    BY <1>1, <2>2, OwnFacts DEF SiteBase, Base
  <2>4. QED BY <1>1, <2>1, <2>3, ReferenceFacts DEF SiteBase
<1>5. DanglingReported'
  BY <1>2, <1>3, <1>4 DEF SiteBase, SiteInv, DanglingReported
<1>6. OnlyDevicesRefer'
  BY <1>3 DEF SiteBase, SiteInv, OnlyDevicesRefer
<1>7. \A o \in objects : o.id[1] \in Items /\ o.id # None
  BY IdFacts DEF SiteBase, Base
<1>8. SentIsSound'
  BY <1>1, <1>2, <1>3, <1>7 DEF SentIsSound, Blank
<1>9. ReferrersPlanned'
  <2> SUFFICES ASSUME AtDevices, NEW o \in objects', o.site # None,
                      o.site[1] \in toDelete'
               PROVE  o.id[1] \in failures' \cup toUpdate'
    BY <1>2 DEF ReferrersPlanned, AtDevices
  <2>1. o \in objects /\ \A e \in done : mapping[e].id # o.id
    BY <1>3
  <2>2. o.id[1] \in Devices /\ o.id[1] \in failures \cup toUpdate \cup toDelete
    BY <1>2, <2>1 DEF SiteBase, SiteInv, OnlyDevicesRefer, ReferrersPlanned
  <2>3. o.id[1] \notin done
    BY <1>1, <1>7, <2>1 DEF SiteBase, Base, StoreInv, Linked, Mapped, Blank
  <2>4. QED BY <1>2, <2>2, <2>3
<1>10. SitesExist' /\ RunIsFull' /\ PlanIsSound'
  BY <1>2 DEF SiteBase, SiteInv, SitesExist, RunIsFull, PlanIsSound
<1>11. QED BY <1>5, <1>6, <1>8, <1>9, <1>10 DEF SiteInv

LEMMA SiteDeleteSite ==
    ASSUME SiteBase, NEW s \in Sites, DeviceDeletesDone,
           NEW done, DeleteEffect({s}, done)
    PROVE  SiteInv'
<1> USE DEF netboxVars, storeVars, fetchVars
<1>1. /\ s \in Items /\ s \in toDelete /\ mapping[s] # None
      /\ created = Blank /\ confirmed = {} /\ toUpdate = {}
      /\ AtDevices
  BY DEF DeleteEffect, SiteBase, Base, TypeInv, TypeOK, PlanOK, AtDevices,
     SiteInv, RunIsFull
<1>2. /\ UNCHANGED <<inv, mapping, snap, created, confirmed, toUpdate, phase,
                     obj, full>>
      /\ toDelete' \subseteq toDelete /\ failures \subseteq failures'
      /\ done \subseteq {s} /\ phase = "delete"
  BY DEF DeleteEffect
<1>3. /\ \A o \in objects' : o \in objects
      /\ \A o \in objects : mapping[s].id # o.id => o \in objects'
  BY <1>2 DEF DeleteEffect, ExecuteDeletes
<1>4. ASSUME NEW o \in objects, o.site # None, o.site[1] \in toDelete
      PROVE  o.id[1] \in failures
  BY <1>1, <1>4 DEF SiteBase, SiteInv, OnlyDevicesRefer, ReferrersPlanned,
     DeviceDeletesDone
<1>5. DanglingReported'
  <2> SUFFICES ASSUME NEW o \in objects, Dangling(o)'
               PROVE  o.id[1] \in failures
    BY <1>2, <1>3 DEF DanglingReported
  <2>1. CASE Dangling(o)
    BY <2>1 DEF SiteBase, SiteInv, DanglingReported
  <2>2. ASSUME NEW p \in objects, p.id = o.site PROVE o.id[1] \in failures
    <3>1. o.site # None /\ mapping[s].id = o.site
      BY <1>3, <2>2 DEF Dangling
    <3>2. o.site[1] = s
      BY <1>1, <3>1, OwnFacts DEF SiteBase, Base
    <3>3. QED BY <1>1, <1>4, <3>1, <3>2
  <2>3. QED BY <2>1, <2>2 DEF Dangling
<1>6. OnlyDevicesRefer'
  BY <1>3 DEF SiteBase, SiteInv, OnlyDevicesRefer
<1>7. \A o \in objects : o.id[1] \in Items
  BY IdFacts DEF SiteBase, Base
<1>8. SentIsSound'
  BY <1>1, <1>2, <1>3, <1>7 DEF SentIsSound, Blank
<1>9. ReferrersPlanned'
  BY <1>2, <1>3, <1>4 DEF ReferrersPlanned
<1>10. SitesExist' /\ RunIsFull' /\ PlanIsSound'
  BY <1>2 DEF SiteBase, SiteInv, SitesExist, RunIsFull, PlanIsSound
<1>11. QED BY <1>5, <1>6, <1>8, <1>9, <1>10 DEF SiteInv

(***************************************************************************)
(* A failure is taken back only for an item that is in order.              *)
(***************************************************************************)
LEMMA SiteSave ==
    ASSUME SiteBase, NEW e \in Items, SaveCreated(e) \/ SaveUpdated(e)
    PROVE  SiteInv'
<1> USE DEF netboxVars, kentikVars, fetchVars
<1>1. /\ UNCHANGED <<inv, objects, snap, toUpdate, toDelete, phase, obj, full>>
      /\ failures \ {e} \subseteq failures'
      /\ phase = "apply"
      /\ snap[e] # None
      /\ e \in confirmed \/ created[e] # None
  BY DEF SaveCreated, SaveUpdated, Save, SiteBase, Base, TypeInv, PlanOK
<1>2. /\ confirmed' \subseteq confirmed
      /\ \A i \in Items : created'[i] # None => created[i] # None
  BY SMT DEF SaveCreated, SaveUpdated, SiteBase, Base, TypeInv, TypeOK
<1>3. \A o \in objects : o.id[1] \in Items
  BY IdFacts DEF SiteBase, Base
<1>4. DanglingReported'
  BY <1>1 DEF SiteBase, SiteInv, SentIsSound, DanglingReported, Dangling
<1>5. SentIsSound'
  BY <1>1, <1>2, <1>3 DEF SiteBase, SiteInv, SentIsSound, Dangling
<1>6. ReferrersPlanned'
  <2> SUFFICES ASSUME AtDevices, NEW o \in objects, o.site # None,
                      o.site[1] \in toDelete
               PROVE  o.id[1] \in failures' \cup toUpdate \cup toDelete
    BY <1>1 DEF ReferrersPlanned, AtDevices
  <2>1. CASE o.id[1] = e
    <3>1. e \in Devices
      BY <2>1 DEF SiteBase, SiteInv, OnlyDevicesRefer
    <3>2. o.site[1] = snap[e].site
      BY <1>1, <2>1, ReferenceFacts DEF SiteBase, Confirmed
    <3>3. QED BY <1>1, <3>1, <3>2 DEF SiteBase, SiteInv, PlanIsSound, AtDevices
  <2>2. CASE o.id[1] # e
    BY <1>1, <2>2 DEF SiteBase, SiteInv, ReferrersPlanned
  <2>3. QED BY <2>1, <2>2
<1>7. SitesExist' /\ OnlyDevicesRefer' /\ RunIsFull' /\ PlanIsSound'
  BY <1>1 DEF SiteBase, SiteInv, SitesExist, OnlyDevicesRefer, RunIsFull,
     PlanIsSound
<1>8. QED BY <1>4, <1>5, <1>6, <1>7 DEF SiteInv

LEMMA SiteForget ==
    ASSUME SiteBase, NEW e \in Items, Forget(e)
    PROVE  SiteInv'
<1> USE DEF netboxVars, kentikVars, fetchVars
<1>1. /\ UNCHANGED <<inv, objects, snap, toUpdate, toDelete, phase, obj, full,
                     confirmed, created>>
      /\ failures \ {e} \subseteq failures'
  BY DEF Forget
<1>2. \A o \in objects : o.id[1] # e
  BY NothingToForget DEF SiteBase
<1>3. DanglingReported'
  BY <1>1, <1>2 DEF SiteBase, SiteInv, DanglingReported, Dangling
<1>4. ReferrersPlanned'
  BY <1>1, <1>2 DEF SiteBase, SiteInv, ReferrersPlanned, AtDevices
<1>5. SitesExist' /\ OnlyDevicesRefer' /\ RunIsFull' /\ PlanIsSound'
        /\ SentIsSound'
  BY <1>1 DEF SiteBase, SiteInv, SitesExist, OnlyDevicesRefer, RunIsFull,
     PlanIsSound, SentIsSound, Dangling
<1>6. QED BY <1>3, <1>4, <1>5 DEF SiteInv

LEMMA SiteStep ==
    ASSUME FullRuns, DistinctNames, SiteBase, [Next]_vars
    PROVE  SiteInv'
<1>1. AnswersArrive /\ Base /\ ~cancelled
  BY SMT DEF FullRuns, AnswersArrive, SiteBase, Base, StoreInv
<1>2. CASE \/ StartRun \/ \E t \in Types : MarkerAges(t)
           \/ BeginFetch \/ FetchFails \/ CommitCursor \/ CommitMarker
           \/ EndRun \/ UNCHANGED vars
  BY <1>2, SiteControl
<1>3. CASE NetBoxStep
  BY <1>3, SiteNetBox
<1>4. CASE EndFetch
  BY <1>4, SiteEndFetch
<1>5. CASE CreateDevices
  BY <1>1, <1>5, CreateDevicesEffect, SiteCreate
<1>6. CASE UpdateDevices
  BY <1>1, <1>6, UpdateDevicesEffect, SiteUpdate
<1>7. ASSUME NEW s \in Sites, CreateSite(s) PROVE SiteInv'
  BY <1>1, <1>7, CreateSiteEffect, SiteCreate
<1>8. ASSUME NEW s \in Sites, UpdateSite(s) PROVE SiteInv'
  BY <1>1, <1>8, UpdateSiteEffect, SiteUpdate
<1>9. ASSUME NEW e \in Items, SaveCreated(e) \/ SaveUpdated(e) PROVE SiteInv'
  BY <1>9, SiteSave
<1>10. CASE DeleteDevices
  BY <1>1, <1>10, DeleteDevicesEffect, SiteDeleteDevices
<1>11. ASSUME NEW s \in Sites, DeleteSite(s) PROVE SiteInv'
  BY <1>1, <1>11, DeleteSiteEffect, SiteDeleteSite DEF DeleteSite
<1>12. ASSUME NEW e \in Items, Forget(e) PROVE SiteInv'
  BY <1>12, SiteForget
<1>13. CASE Crash \/ Cancel
  BY <1>1, <1>13, NothingLost DEF Crash, Cancel
<1>14. QED
  BY <1>2, <1>3, <1>4, <1>5, <1>6, <1>7, <1>8, <1>9, <1>10, <1>11, <1>12, <1>13
  DEF Next, AgentStep, FetchStep, ApplyStep, DeleteStep

(***************************************************************************)
(* When every run is full and every fetch complete, a device that is left  *)
(* without its site in Kentik is one the agent reported as failed, whatever*)
(* Kentik refused and whatever was edited in NetBox between the two fetches*)
(* of a run.                                                               *)
(***************************************************************************)
THEOREM DanglingReportedHolds ==
    FullRuns /\ DistinctNames => (Spec => []DanglingReported)
<1> SUFFICES ASSUME FullRuns, DistinctNames PROVE Spec => []DanglingReported
  OBVIOUS
<1>1. AnswersArrive /\ NoTruncation
  BY SMT DEF FullRuns, AnswersArrive, NoTruncation
<1>2. Spec => []Base
  BY <1>1, BaseHolds
<1>3. Init => GoneInv /\ SiteInv
  <2>1. Init => GoneInv
    BY SMT DEF Init, GoneInv, Blank
  <2>2. Init => SiteInv
    BY DEF Init, SiteInv, DanglingReported, SitesExist, OnlyDevicesRefer,
       RunIsFull, SentIsSound, ReferrersPlanned, AtDevices, PlanIsSound
  <2>3. QED BY <2>1, <2>2
<1>4. Base /\ GoneInv /\ SiteInv /\ [Next]_vars => GoneInv' /\ SiteInv'
  BY <1>1, GoneStep, SiteStep DEF SiteBase, Base
<1>5. SiteInv => DanglingReported
  BY DEF SiteInv
<1>6. QED BY <1>2, <1>3, <1>4, <1>5, PTL DEF Spec

=============================================================================
