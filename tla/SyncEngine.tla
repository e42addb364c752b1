----------------------------- MODULE SyncEngine -----------------------------
(***************************************************************************)
(* The sync engine of the agent (internal/sync), for one source and the    *)
(* object types it mirrors with a dependency between them: sites, and      *)
(* devices, each of which refers to a site.  The module composes           *)
(*                                                                         *)
(*   NetBox   the inventory, edited by people while the agent runs;        *)
(*   Store    the agent's durable state: mappings, cursors, markers;       *)
(*   Kentik   the remote objects, reached through RPCs that can fail;      *)
(*   Run      the volatile state of one RunJob pass, lost in a crash.      *)
(*                                                                         *)
(* One run fetches, diffs and applies sites, then devices, then deletes    *)
(* devices, then deletes sites.  Every RPC and every store write is a step *)
(* of its own, so a crash, a cancellation or an edit falls between any two.*)
(*                                                                         *)
(* Left out here: IP groups and device labels, dry runs, and the contents  *)
(* of an object beyond one attribute and the site reference.               *)
(***************************************************************************)
EXTENDS Naturals, FiniteSets

CONSTANTS
    Sites, Devices,     \* external IDs, as NetBox assigns them
    Attrs,              \* values of everything in an object but its site
    Names, NameOf,      \* NameOf[d] is the name of device d
    None,               \* no item, no mapping, no site
    Incremental,        \* job.Incremental && source.SupportsIncremental()
    ReportsDeletes,     \* the source fills FetchResult.Deleted
    Faults,             \* the kinds of fault that may happen
    MaxFaults,          \* bound on the number of faults
    MaxClock,           \* bound on the clock
    MaxChanges          \* bound on the number of NetBox edits

Items == Sites \cup Devices
Types == {"sites", "devices"}
ItemsOf(t) == IF t = "sites" THEN Sites ELSE Devices
TypeOf(e) == IF e \in Sites THEN "sites" ELSE "devices"

(***************************************************************************)
(* The content of an object, as contentHash sees it.  A site has no site.  *)
(***************************************************************************)
Content == [attr : Attrs, site : Sites \cup {None}]

ContentOf(e) == IF e \in Sites THEN [attr : Attrs, site : {None}]
                               ELSE [attr : Attrs, site : Sites]

(***************************************************************************)
(* A Kentik ID is named after the create that made it: <<e, k>> is the     *)
(* k-th object ever created for external ID e.  IDs are never reused.      *)
(***************************************************************************)
Ids == Items \X (Nat \ {0})

Mapping == [id : Ids, hash : Content]
Objects == [id : Ids, attr : Attrs, site : Ids \cup {None}]

FaultKinds == {"crash", "cancel", "fetch", "truncate", "reject", "timeout",
               "store"}

ASSUME SyncEngineAssumption ==
    /\ Sites \cap Devices = {}
    /\ NameOf \in [Devices -> Names]
    /\ None \notin Items \cup Content \cup Mapping \cup Ids
    /\ Incremental \in BOOLEAN
    /\ ReportsDeletes \in BOOLEAN
    /\ Faults \subseteq FaultKinds
    /\ MaxFaults \in Nat /\ MaxClock \in Nat /\ MaxChanges \in Nat

VARIABLES
    \* NetBox
    inv,        \* inv[e]: the content of item e, None when it does not exist
    updated,    \* updated[e]: last_updated of e, 0 when it never existed
    clock,      \* the time, at the resolution of a cursor
    changes,    \* number of edits so far, bounded by MaxChanges
    \* Store
    mapping,    \* mapping[e]: the mapping row of e, or None
    cursor,     \* cursor[t]: the incremental cursor of type t, 0 when unset
    marker,     \* marker[t]: age of the last full reconciliation of type t
    \* Kentik
    objects,    \* the live objects
    serial,     \* serial[e]: how many objects were ever created for e
    \* Run
    phase,      \* where RunJob is
    obj,        \* the object type it is at
    full,       \* isFullRun
    since,      \* the cursor the fetch is filtered by, 0 for a full fetch
    fetchStart, \* the time the fetch began, the next cursor
    snap,       \* snap[e]: the content fetched for e, None when not fetched
    toCreate, toUpdate,     \* plan of the current type, not yet sent
    toDelete,               \* deletes of both types, not yet sent
    created,    \* created[e]: ID confirmed for e, not yet saved
    confirmed,  \* updates confirmed, not yet saved
    deleted,    \* deletes confirmed, mapping not yet removed
    cancelled,  \* the run's context is cancelled (SIGTERM)
    faults,     \* number of faults so far, bounded by MaxFaults
    failures    \* items whose last attempt the agent reported as failed

netboxVars == <<inv, updated, clock, changes>>
storeVars  == <<mapping, cursor, marker>>
kentikVars == <<objects, serial>>
planVars   == <<toCreate, toUpdate, toDelete, created, confirmed, deleted>>
fetchVars  == <<full, since, fetchStart, snap>>
vars == <<netboxVars, storeVars, kentikVars, planVars, fetchVars,
          phase, obj, cancelled, faults, failures>>

Phases == {"idle", "begin", "fetch", "apply", "marker", "delete"}

Blank == [e \in Items |-> None]

-----------------------------------------------------------------------------
(***************************************************************************)
(* Initially NetBox holds any inventory, and the agent has never run.      *)
(***************************************************************************)
Init ==
    /\ inv \in [Items -> Content \cup {None}]
    /\ \A e \in Items : inv[e] # None => inv[e] \in ContentOf(e)
    /\ \A d \in Devices : inv[d] # None => inv[inv[d].site] # None
    /\ updated = [e \in Items |-> IF inv[e] = None THEN 0 ELSE 1]
    /\ clock = 1
    /\ changes = 0
    /\ mapping = Blank
    /\ cursor = [t \in Types |-> 0]
    /\ marker = [t \in Types |-> "none"]
    /\ objects = {}
    /\ serial = [e \in Items |-> 0]
    /\ phase = "idle"
    /\ obj = "sites"
    /\ full = FALSE
    /\ since = 0
    /\ fetchStart = 0
    /\ snap = Blank
    /\ toCreate = {} /\ toUpdate = {} /\ toDelete = {}
    /\ created = Blank
    /\ confirmed = {} /\ deleted = {}
    /\ cancelled = FALSE
    /\ faults = 0
    /\ failures = {}

-----------------------------------------------------------------------------
(***************************************************************************)
(* NetBox.  An edit happens in the current second or in a later one.  IDs  *)
(* are never reused, and a site that devices refer to cannot be removed.   *)
(***************************************************************************)
Edit(e, content) ==
    /\ changes < MaxChanges
    /\ changes' = changes + 1
    /\ clock' \in {clock, clock + 1}
    /\ clock' <= MaxClock
    /\ inv' = [inv EXCEPT ![e] = content]
    /\ updated' = [updated EXCEPT ![e] = clock']
    /\ UNCHANGED <<storeVars, kentikVars, planVars, fetchVars,
                   phase, obj, cancelled, faults, failures>>

AddOrChangeItem(e) ==
    \E content \in ContentOf(e) :
        /\ inv[e] # content
        /\ inv[e] = None => updated[e] = 0
        /\ content.site # None => inv[content.site] # None
        /\ Edit(e, content)

RemoveItem(e) ==
    /\ inv[e] # None
    /\ \A d \in Devices : inv[d] # None => inv[d].site # e
    /\ Edit(e, None)

-----------------------------------------------------------------------------
(***************************************************************************)
(* Faults.  A fault of an enabled kind costs one unit of the bound.        *)
(***************************************************************************)
CanFail(kind) == kind \in Faults /\ faults < MaxFaults

(***************************************************************************)
(* The result of one Kentik call, retries included: what the caller is     *)
(* told, and how many times the server executed it.                        *)
(*   reject   refused, nothing executed                                    *)
(*   timeout  executed, but the answer was lost: either every attempt timed*)
(*            out, or a retry of what was already done succeeded           *)
(* A call under a cancelled context is not sent at all.                    *)
(***************************************************************************)
Executed(n) == [ok |-> TRUE, times |-> n]
Rejected    == [ok |-> FALSE, times |-> 0]
Lost        == [ok |-> FALSE, times |-> 1]

CallOutcomes ==
    IF cancelled THEN {Rejected}
    ELSE {Executed(1)}
           \cup (IF CanFail("reject") THEN {Rejected} ELSE {})
           \cup (IF CanFail("timeout") THEN {Lost, Executed(2)} ELSE {})

(***************************************************************************)
(* An empty batch is not sent.  Of one that is, the server may refuse some *)
(* entries in a call that as a whole succeeds.                             *)
(***************************************************************************)
BatchOutcomes(batch) == IF batch = {} THEN {Executed(1)} ELSE CallOutcomes

Refusals(batch) == IF CanFail("reject") THEN SUBSET batch ELSE {{}}

(***************************************************************************)
(* The entries of a batch that the caller is told were carried out.        *)
(* Mutant: failed_devices is ignored.                                      *)
(***************************************************************************)
MutantConfirmedOf(outcome, batch, refused) == IF outcome.ok THEN batch ELSE {}

ConfirmedOf(outcome, batch, refused) ==
    IF outcome.ok THEN batch \ refused ELSE {}

CountFault(isFault) == faults' = IF isFault THEN faults + 1 ELSE faults

CountCall(outcome, refused) ==
    CountFault(~cancelled /\ (outcome # Executed(1) \/ refused # {}))

(***************************************************************************)
(* A store write fails when the context is cancelled, or on a store error. *)
(***************************************************************************)
StoreFails == cancelled \/ CanFail("store")

-----------------------------------------------------------------------------
(***************************************************************************)
(* A run starts: the scheduler's first run, or a tick of its ticker.       *)
(***************************************************************************)
StartRun ==
    /\ phase = "idle"
    /\ phase' = "begin"
    /\ obj' = "sites"
    /\ UNCHANGED <<netboxVars, storeVars, kentikVars, planVars, fetchVars,
                   cancelled, faults, failures>>

(***************************************************************************)
(* full_reconcile_interval elapses for type t.  The markers of the types   *)
(* are written at different moments, so they age independently.  A job that*)
(* is not incremental never reads them.                                    *)
(***************************************************************************)
MarkerAges(t) ==
    /\ Incremental
    /\ marker[t] = "fresh"
    /\ marker' = [marker EXCEPT ![t] = "due"]
    /\ UNCHANGED <<netboxVars, mapping, cursor, kentikVars, planVars,
                   fetchVars, phase, obj, cancelled, faults, failures>>

(***************************************************************************)
(* resolveSince, then the start of the fetch, whose time becomes the next  *)
(* cursor.                                                                 *)
(***************************************************************************)
\* Mutant: the age of the marker is not looked at.
MutantIsFullRun(t) == ~Incremental \/ marker[t] = "none" \/ cursor[t] = 0

IsFullRun(t) == ~Incremental \/ marker[t] # "fresh" \/ cursor[t] = 0

BeginFetch ==
    /\ phase = "begin"
    /\ phase' = "fetch"
    /\ full' = IsFullRun(obj)
    /\ since' = IF IsFullRun(obj) THEN 0 ELSE cursor[obj]
    /\ fetchStart' = clock
    /\ snap' = Blank
    /\ UNCHANGED <<netboxVars, storeVars, kentikVars, planVars,
                   obj, cancelled, faults, failures>>

(***************************************************************************)
(* After a type is done, or its fetch failed: the next type, and after the *)
(* last one the deletes.                                                   *)
(***************************************************************************)
NextType ==
    IF obj = "sites" THEN phase' = "begin" /\ obj' = "devices"
                     ELSE phase' = "delete" /\ obj' = obj

(***************************************************************************)
(* A failed fetch skips the type: nothing is applied, nothing is deleted,  *)
(* the cursor stays.                                                       *)
(***************************************************************************)
FetchFails ==
    /\ phase = "fetch"
    /\ cancelled \/ CanFail("fetch")
    /\ CountFault(~cancelled)
    /\ NextType
    /\ UNCHANGED <<netboxVars, storeVars, kentikVars, planVars, fetchVars,
                   cancelled, failures>>

(***************************************************************************)
(* What NetBox answers: the items of the type changed at or after `from`.  *)
(***************************************************************************)
\* Mutant: last_updated__gt in place of last_updated__gte.
MutantChangedSince(t, from) ==
    {e \in ItemsOf(t) : inv[e] # None /\ updated[e] > from}

ChangedSince(t, from) ==
    {e \in ItemsOf(t) : inv[e] # None /\ updated[e] >= from}

ReportedGone(t, from) ==
    {e \in ItemsOf(t) : ReportsDeletes /\ inv[e] = None
                          /\ updated[e] # 0 /\ updated[e] >= from}

(***************************************************************************)
(* The fetch returns, and diff compares it with the mappings.  A fetch cut *)
(* short (maxPages, or pages that shift under the offset) misses some      *)
(* items; the engine does not look at FetchResult.Truncated.               *)
(***************************************************************************)
DiffCreate(items) == {e \in items : mapping[e] = None}

DiffUpdate(items) ==
    {e \in items : mapping[e] # None /\ mapping[e].hash # inv[e]}

\* Mutant: unseen items are deleted in an incremental run too.
MutantDiffDelete(items, gone, isFull) ==
    {e \in ItemsOf(obj) : mapping[e] # None /\ e \notin items}

DiffDelete(items, gone, isFull) ==
    {e \in ItemsOf(obj) : mapping[e] # None
                            /\ (e \in gone \/ (isFull /\ e \notin items))}

EndFetch ==
    /\ phase = "fetch"
    /\ ~cancelled
    /\ \E missed \in SUBSET ChangedSince(obj, since) :
        LET items == ChangedSince(obj, since) \ missed IN
        /\ missed # {} => CanFail("truncate")
        /\ CountFault(missed # {})
        /\ snap' = [e \in Items |-> IF e \in items THEN inv[e] ELSE None]
        /\ toCreate' = DiffCreate(items)
        /\ toUpdate' = DiffUpdate(items)
        /\ toDelete' = toDelete
             \cup DiffDelete(items, ReportedGone(obj, since), full)
    /\ phase' = "apply"
    /\ UNCHANGED <<netboxVars, storeVars, kentikVars, created, confirmed,
                   deleted, full, since, fetchStart, obj, cancelled, failures>>

-----------------------------------------------------------------------------
(***************************************************************************)
(* Creates.  siteKentikIDs resolves a device's site through the mappings.  *)
(***************************************************************************)
SiteId(s) == IF s = None THEN None ELSE mapping[s].id

NewObject(e, k) ==
    [id |-> <<e, k>>, attr |-> snap[e].attr, site |-> SiteId(snap[e].site)]

ExecuteCreates(batch, times) ==
    /\ objects' = objects \cup
         {NewObject(e, serial[e] + k) : e \in batch, k \in 1..times}
    /\ serial' = [e \in Items |-> IF e \in batch THEN serial[e] + times
                                                 ELSE serial[e]]

\* Mutant: the ID of an answer without a body is taken as it is.
MutantLastId(e, times) == <<e, 0>>

LastId(e, times) == <<e, serial[e] + times>>

CreateSite(e) ==
    /\ phase = "apply" /\ obj = "sites"
    /\ e \in toCreate
    /\ toCreate' = toCreate \ {e}
    /\ \E outcome \in CallOutcomes :
        /\ CountCall(outcome, {})
        /\ ExecuteCreates({e}, outcome.times)
        /\ IF outcome.ok
             THEN /\ created' = [created EXCEPT ![e] = LastId(e, outcome.times)]
                  /\ UNCHANGED failures
             ELSE /\ failures' = failures \cup {e}
                  /\ UNCHANGED created
    /\ UNCHANGED <<netboxVars, storeVars, fetchVars, toUpdate, toDelete,
                   confirmed, deleted, phase, obj, cancelled>>

(***************************************************************************)
(* The devices whose site has a mapping.  The others fail.                 *)
(***************************************************************************)
Resolvable(batch) == {d \in batch : mapping[snap[d].site] # None}

(***************************************************************************)
(* Devices are created in one batch, and the answer is matched to the      *)
(* request by device name: nameToExternalID keeps one device per name, and *)
(* the last device of that name in the answer gives it its ID.             *)
(***************************************************************************)
\* Mutant: the answer is matched to the request by position.
MutantPerName(batch) == [{NameOf[d] : d \in batch} -> batch]

PerName(batch) ==
    {f \in [{NameOf[d] : d \in batch} -> batch] :
        \A n \in DOMAIN f : NameOf[f[n]] = n}

CreateDevices ==
    /\ phase = "apply" /\ obj = "devices"
    /\ toCreate # {}
    /\ toCreate' = {}
    /\ LET batch == Resolvable(toCreate) IN
       \E outcome \in BatchOutcomes(batch), refused \in Refusals(batch) :
        LET accepted == batch \ refused IN
        /\ refused # {} => outcome = Executed(1)
        /\ CountCall(outcome, refused)
        /\ ExecuteCreates(accepted, outcome.times)
        /\ \E asked \in PerName(batch), answered \in PerName(accepted) :
            LET matched == {e \in batch : /\ outcome.ok
                                          /\ asked[NameOf[e]] = e
                                          /\ NameOf[e] \in DOMAIN answered}
            IN /\ created' = [e \in Items |->
                    IF e \in matched
                      THEN LastId(answered[NameOf[e]], outcome.times)
                      ELSE created[e]]
               /\ failures' = failures \cup (toCreate \ batch)
                    \cup ({asked[n] : n \in DOMAIN asked} \ matched)
    /\ UNCHANGED <<netboxVars, storeVars, fetchVars, toUpdate, toDelete,
                   confirmed, deleted, phase, obj, cancelled>>

(***************************************************************************)
(* UpsertMapping, for an item the agent created or updated.                *)
(***************************************************************************)
Save(e, id) ==
    \/ /\ ~cancelled
       /\ mapping' = [mapping EXCEPT ![e] = [id |-> id, hash |-> snap[e]]]
       /\ failures' = failures \ {e}
       /\ UNCHANGED faults
    \/ /\ StoreFails
       /\ CountFault(~cancelled)
       /\ failures' = failures \cup {e}
       /\ UNCHANGED mapping

SaveCreated(e) ==
    /\ phase = "apply"
    /\ toCreate = {}
    /\ created[e] # None
    /\ Save(e, created[e])
    /\ created' = [created EXCEPT ![e] = None]
    /\ UNCHANGED <<netboxVars, cursor, marker, kentikVars, fetchVars, toCreate,
                   toUpdate, toDelete, confirmed, deleted, phase, obj,
                   cancelled>>

-----------------------------------------------------------------------------
(***************************************************************************)
(* Updates, by the mapped Kentik ID.  Kentik refuses an ID it does not     *)
(* have.  Executing an update twice is the same as once.                   *)
(***************************************************************************)
CreatesDone == toCreate = {} /\ created = Blank

Known(e) == \E o \in objects : o.id = mapping[e].id

ExecuteUpdates(batch) ==
    objects' =
      {o \in objects : \A e \in batch : mapping[e].id # o.id} \cup
      {[id |-> mapping[e].id, attr |-> snap[e].attr,
        site |-> SiteId(snap[e].site)] : e \in batch}

UpdateSite(e) ==
    /\ phase = "apply" /\ obj = "sites"
    /\ CreatesDone
    /\ e \in toUpdate
    /\ toUpdate' = toUpdate \ {e}
    /\ \E outcome \in CallOutcomes :
        /\ CountCall(outcome, {})
        /\ ExecuteUpdates({u \in {e} : Known(u) /\ outcome.times > 0})
        /\ IF outcome.ok /\ Known(e)
             THEN confirmed' = confirmed \cup {e} /\ UNCHANGED failures
             ELSE failures' = failures \cup {e} /\ UNCHANGED confirmed
    /\ UNCHANGED <<netboxVars, storeVars, serial, fetchVars, toCreate,
                   toDelete, created, deleted, phase, obj, cancelled>>

UpdateDevices ==
    /\ phase = "apply" /\ obj = "devices"
    /\ CreatesDone
    /\ toUpdate # {}
    /\ toUpdate' = {}
    /\ LET batch == {d \in Resolvable(toUpdate) : Known(d)} IN
       \E outcome \in BatchOutcomes(Resolvable(toUpdate)),
          refused \in Refusals(batch) :
        LET done == ConfirmedOf(outcome, batch, refused) IN
        /\ refused # {} => outcome = Executed(1)
        /\ CountCall(outcome, refused)
        /\ ExecuteUpdates(IF outcome.times > 0 THEN batch \ refused ELSE {})
        /\ confirmed' = confirmed \cup done
        /\ failures' = failures \cup (toUpdate \ done)
    /\ UNCHANGED <<netboxVars, storeVars, serial, fetchVars, toCreate,
                   toDelete, created, deleted, phase, obj, cancelled>>

SaveUpdated(e) ==
    /\ phase = "apply"
    /\ toUpdate = {}
    /\ e \in confirmed
    /\ Save(e, mapping[e].id)
    /\ confirmed' = confirmed \ {e}
    /\ UNCHANGED <<netboxVars, cursor, marker, kentikVars, fetchVars, toCreate,
                   toUpdate, toDelete, created, deleted, phase, obj, cancelled>>

-----------------------------------------------------------------------------
(***************************************************************************)
(* commitRun: the cursor and, in a full run, the marker.  The items that   *)
(* failed play no part in it.                                              *)
(***************************************************************************)
\* Mutant: the cursor is the time of the commit.
MutantNewCursor == clock

NewCursor == fetchStart

ApplyDone == CreatesDone /\ toUpdate = {} /\ confirmed = {}

CommitCursor ==
    /\ phase = "apply"
    /\ ApplyDone
    /\ \/ /\ ~cancelled
          /\ cursor' = [cursor EXCEPT ![obj] = NewCursor]
          /\ IF full THEN phase' = "marker" /\ obj' = obj ELSE NextType
          /\ UNCHANGED faults
       \/ /\ StoreFails
          /\ CountFault(~cancelled)
          /\ NextType
          /\ UNCHANGED cursor
    /\ snap' = Blank
    /\ UNCHANGED <<netboxVars, mapping, marker, kentikVars, planVars,
                   full, since, fetchStart, cancelled, failures>>

CommitMarker ==
    /\ phase = "marker"
    /\ NextType
    /\ \/ /\ ~cancelled
          /\ marker' = [marker EXCEPT ![obj] = "fresh"]
          /\ UNCHANGED faults
       \/ /\ StoreFails
          /\ CountFault(~cancelled)
          /\ UNCHANGED marker
    /\ UNCHANGED <<netboxVars, mapping, cursor, kentikVars, planVars,
                   fetchVars, cancelled, failures>>

-----------------------------------------------------------------------------
(***************************************************************************)
(* Deletes: all devices, in one batch, then the sites, one by one.  Kentik *)
(* refuses an ID it does not have, so a retry of a delete that was executed*)
(* reports a failure.                                                      *)
(***************************************************************************)
\* Mutant: sites are not deleted after the devices.
MutantDeviceDeletesDone == TRUE

DeviceDeletesDone == (toDelete \cup deleted) \cap Devices = {}

ExecuteDeletes(batch) ==
    objects' = {o \in objects : \A e \in batch : mapping[e].id # o.id}

DeleteDevices ==
    /\ phase = "delete"
    /\ toDelete \cap Devices # {}
    /\ toDelete' = toDelete \ Devices
    /\ LET asked == toDelete \cap Devices
           batch == {d \in asked : Known(d)} IN
       \E outcome \in CallOutcomes, refused \in Refusals(batch) :
        LET done == IF outcome.times > 1 THEN {}
                      ELSE ConfirmedOf(outcome, batch, refused) IN
        /\ refused # {} => outcome = Executed(1)
        /\ CountCall(outcome, refused)
        /\ ExecuteDeletes(IF outcome.times > 0 THEN batch \ refused ELSE {})
        /\ deleted' = deleted \cup done
        /\ failures' = failures \cup (asked \ done)
    /\ UNCHANGED <<netboxVars, storeVars, serial, fetchVars, toCreate,
                   toUpdate, created, confirmed, phase, obj, cancelled>>

DeleteSite(e) ==
    /\ phase = "delete"
    /\ DeviceDeletesDone
    /\ e \in toDelete \cap Sites
    /\ toDelete' = toDelete \ {e}
    /\ \E outcome \in CallOutcomes :
        /\ CountCall(outcome, {})
        /\ ExecuteDeletes({u \in {e} : outcome.times > 0})
        /\ IF outcome = Executed(1) /\ Known(e)
             THEN deleted' = deleted \cup {e} /\ UNCHANGED failures
             ELSE failures' = failures \cup {e} /\ UNCHANGED deleted
    /\ UNCHANGED <<netboxVars, storeVars, serial, fetchVars, toCreate,
                   toUpdate, created, confirmed, phase, obj, cancelled>>

(***************************************************************************)
(* DeleteMapping, once every delete of the type has been sent.             *)
(***************************************************************************)
Forget(e) ==
    /\ phase = "delete"
    /\ toDelete \cap ItemsOf(TypeOf(e)) = {}
    /\ e \in deleted
    /\ deleted' = deleted \ {e}
    /\ \/ /\ ~cancelled
          /\ mapping' = [mapping EXCEPT ![e] = None]
          /\ failures' = failures \ {e}
          /\ UNCHANGED faults
       \/ /\ StoreFails
          /\ CountFault(~cancelled)
          /\ failures' = failures \cup {e}
          /\ UNCHANGED mapping
    /\ UNCHANGED <<netboxVars, cursor, marker, kentikVars, fetchVars, toCreate,
                   toUpdate, toDelete, created, confirmed, phase, obj,
                   cancelled>>

-----------------------------------------------------------------------------
(***************************************************************************)
(* The end of a run.  After a cancellation the process exits and is        *)
(* started again later.                                                    *)
(***************************************************************************)
ResetRun ==
    /\ phase' = "idle"
    /\ obj' = "sites"
    /\ full' = FALSE
    /\ since' = 0
    /\ fetchStart' = 0
    /\ snap' = Blank
    /\ toCreate' = {} /\ toUpdate' = {} /\ toDelete' = {}
    /\ created' = Blank
    /\ confirmed' = {} /\ deleted' = {}
    /\ cancelled' = FALSE

EndRun ==
    /\ phase = "delete"
    /\ toDelete = {} /\ deleted = {}
    /\ ResetRun
    /\ UNCHANGED <<netboxVars, storeVars, kentikVars, faults, failures>>

(***************************************************************************)
(* The process dies, and with it everything the run had in memory.         *)
(***************************************************************************)
Crash ==
    /\ phase # "idle"
    /\ CanFail("crash")
    /\ CountFault(TRUE)
    /\ ResetRun
    /\ UNCHANGED <<netboxVars, storeVars, kentikVars, failures>>

(***************************************************************************)
(* SIGTERM or SIGINT cancels the context of the run.                       *)
(***************************************************************************)
Cancel ==
    /\ phase # "idle"
    /\ ~cancelled
    /\ CanFail("cancel")
    /\ CountFault(TRUE)
    /\ cancelled' = TRUE
    /\ UNCHANGED <<netboxVars, storeVars, kentikVars, planVars, fetchVars,
                   phase, obj, failures>>

-----------------------------------------------------------------------------
NetBoxStep == \E e \in Items : AddOrChangeItem(e) \/ RemoveItem(e)

FetchStep == BeginFetch \/ FetchFails \/ EndFetch

ApplyStep ==
    \/ CreateDevices
    \/ UpdateDevices
    \/ \E s \in Sites : CreateSite(s) \/ UpdateSite(s)
    \/ \E e \in Items : SaveCreated(e) \/ SaveUpdated(e)
    \/ CommitCursor
    \/ CommitMarker

DeleteStep ==
    \/ DeleteDevices
    \/ \E s \in Sites : DeleteSite(s)
    \/ \E e \in Items : Forget(e)
    \/ EndRun

AgentStep == StartRun \/ FetchStep \/ ApplyStep \/ DeleteStep

Next ==
    \/ NetBoxStep
    \/ \E t \in Types : MarkerAges(t)
    \/ AgentStep
    \/ Crash
    \/ Cancel

Spec == Init /\ [][Next]_vars

(***************************************************************************)
(* The scheduler keeps starting runs and a run keeps going; time passes,   *)
(* so a marker becomes due.  Nothing obliges NetBox to change or a fault to*)
(* happen.                                                                 *)
(***************************************************************************)
Fairness ==
    /\ WF_vars(AgentStep)
    /\ \A t \in Types : WF_vars(MarkerAges(t))

FairSpec == Spec /\ Fairness

-----------------------------------------------------------------------------
(***************************************************************************)
(* Every variable has its type.                                            *)
(***************************************************************************)
TypeOK ==
    /\ inv \in [Items -> Content \cup {None}]
    /\ updated \in [Items -> Nat]
    /\ clock \in Nat
    /\ changes \in Nat
    /\ mapping \in [Items -> Mapping \cup {None}]
    /\ cursor \in [Types -> Nat]
    /\ marker \in [Types -> {"none", "fresh", "due"}]
    /\ objects \subseteq Objects
    /\ serial \in [Items -> Nat]
    /\ phase \in Phases
    /\ obj \in Types
    /\ full \in BOOLEAN
    /\ since \in Nat
    /\ fetchStart \in Nat
    /\ snap \in [Items -> Content \cup {None}]
    /\ toCreate \subseteq Items
    /\ toUpdate \subseteq Items
    /\ toDelete \subseteq Items
    /\ created \in [Items -> Ids \cup {None}]
    /\ confirmed \subseteq Items
    /\ deleted \subseteq Items
    /\ cancelled \in BOOLEAN
    /\ faults \in Nat
    /\ failures \subseteq Items

(***************************************************************************)
(* A mapping leads to the Kentik object that was created for its item, and *)
(* to no other: whatever fails, an update or a delete of one item never    *)
(* reaches the object of another.                                          *)
(***************************************************************************)
MappingOwnsObject ==
    \A e \in Items : mapping[e] # None =>
        /\ mapping[e].id[1] = e
        /\ mapping[e].id[2] <= serial[e]

(***************************************************************************)
(* An item that the next incremental fetch will not return, because it     *)
(* changed before the cursor, is either recorded with its present content  *)
(* or has been reported as failed: the cursor never passes a change that   *)
(* nobody heard of.                                                        *)
(***************************************************************************)
Synced(e) == mapping[e] # None /\ mapping[e].hash = inv[e]

NoSilentLoss ==
    \A e \in Items : inv[e] # None /\ updated[e] < cursor[TypeOf(e)] =>
        Synced(e) \/ e \in failures

(***************************************************************************)
(* The agent removes an object from Kentik only when its item is gone from *)
(* NetBox, whatever was edited since the fetch that decided it.            *)
(***************************************************************************)
Removed(o) == \A p \in objects' : p.id # o.id

DeletesOnlyGone ==
    [][\A o \in objects : Removed(o) => inv[o.id[1]] = None]_vars

(***************************************************************************)
(* Between runs the mappings name exactly the objects there are in Kentik: *)
(* no orphan the agent would create again, no mapping to a deleted object. *)
(***************************************************************************)
StoreMatchesKentik ==
    phase = "idle" =>
        {mapping[e].id : e \in {i \in Items : mapping[i] # None}}
          = {o.id : o \in objects}

(***************************************************************************)
(* Between runs the recorded hash tells the truth: a mapped object holds   *)
(* the content recorded for it, so skipping an item with an equal hash is  *)
(* harmless.                                                               *)
(***************************************************************************)
TruthfulHash ==
    phase = "idle" =>
        \A o \in objects, e \in Items :
            (mapping[e] # None /\ mapping[e].id = o.id) =>
                /\ o.attr = mapping[e].hash.attr
                /\ o.site # None => o.site[1] = mapping[e].hash.site

(***************************************************************************)
(* No device in Kentik refers to a site that does not exist there          *)
(* (engine.go, on the order of RunJob).                                    *)
(***************************************************************************)
Dangling(o) == o.site # None /\ \A p \in objects : p.id # o.site

SiteOutlivesDevices == \A o \in objects : ~Dangling(o)

(***************************************************************************)
(* When a device is left without its site all the same, the agent has      *)
(* reported the device as failed.                                          *)
(***************************************************************************)
DanglingReported == \A o \in objects : Dangling(o) => o.id[1] \in failures

(***************************************************************************)
(* Once people stop editing and calls stop failing, Kentik comes to hold   *)
(* exactly the inventory, and stays so: new and changed items are retried  *)
(* and gone ones removed by the periodic full reconciliation at the latest.*)
(***************************************************************************)
ObjectsOf(e) == {o \in objects : o.id[1] = e}

Mirrored(e) ==
    IF inv[e] = None
      THEN mapping[e] = None /\ ObjectsOf(e) = {}
      ELSE /\ Synced(e)
           /\ inv[e].site # None => mapping[inv[e].site] # None
           /\ ObjectsOf(e) = {[id |-> mapping[e].id, attr |-> inv[e].attr,
                               site |-> SiteId(inv[e].site)]}

Converges == <>[](\A e \in Items : Mirrored(e))

=============================================================================
