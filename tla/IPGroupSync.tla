---------------------------- MODULE IPGroupSync ----------------------------
(***************************************************************************)
(* One source's IP groups (internal/sync/ipgroups.go), mirrored into       *)
(* Kentik as populators of Custom Dimensions.  An IP group is a prefix or  *)
(* an address range.  Its tenant routes it to dimensions, one per traffic  *)
(* side; within a dimension only the most specific of overlapping prefixes *)
(* is to be live, and Kentik refuses any overlap; a group whose dimension  *)
(* changed migrates: a new populator is created, then the old one removed. *)
(*                                                                         *)
(* As in SyncEngine every Kentik call and every store write is a step.     *)
(* Here the plan is the difficult part, so calls are simpler: Kentik       *)
(* executes, refuses, or executes and its answer is lost.                  *)
(***************************************************************************)
EXTENDS Naturals, FiniteSets, IPGroupRouting

CONSTANTS
    Groups,             \* external IDs
    Cidrs, AddressesOf, BitsOf,     \* ranges, their addresses and lengths
    Spans,              \* those of Cidrs that do not parse as prefixes
    Labels,             \* what a populator shows
    Direction,          \* mapping.ip_groups.direction: "src", "dst", "either"
    KeyOf,              \* the rank of a candidate's tieKey
    None,
    Edits,              \* kinds of NetBox edits: "add", "change", "remove"
    ReportsDeletes,     \* the source fills FetchResult.Deleted
    Faults,             \* kinds of faults that may happen
    MaxFaults, MaxClock, MaxChanges,
    MaxIds              \* IDs of one half in use at a time

(***************************************************************************)
(* A group routed to two different dimensions is tracked as two halves,    *)
(* with external IDs of their own.                                         *)
(***************************************************************************)
Halves == Groups \X {"", "src", "dst"}
Dims == {RouteOf[t].src : t \in Tenants} \cup {RouteOf[t].dst : t \in Tenants}
Content == [cidr : Cidrs, label : Labels, tenant : Tenants]
Ids == Halves \X (1..MaxIds)
Mapping == [id : Ids, item : Content, dim : Dims]
Populators == [id : Ids, dim : Dims, cidr : Cidrs, label : Labels]
CandidateSet == [half : Halves, cidr : Cidrs, tenant : Tenants]

ASSUME IPGroupSyncAssumption ==
    /\ Direction \in {"src", "dst", "either"}
    /\ Spans \subseteq Cidrs
    /\ Edits \subseteq {"add", "change", "remove"}
    /\ Faults \subseteq {"crash", "cancel", "fetch", "reject", "timeout", "store"}
    /\ ReportsDeletes \in BOOLEAN
    /\ None \notin Content \cup Mapping \cup Ids \cup Dims
    /\ None \notin [id : Ids, dim : Dims]
    /\ MaxFaults \in Nat /\ MaxClock \in Nat /\ MaxChanges \in Nat
    /\ MaxIds \in Nat

PrefixSet == {c \in CandidateSet : c.cidr \notin Spans}

Filter == INSTANCE Containment
    WITH Candidates <- PrefixSet,
         Addresses <- [c \in PrefixSet |-> AddressesOf[c.cidr]],
         Bits <- [c \in PrefixSet |-> BitsOf[c.cidr]],
         Key <- KeyOf

\* Address ranges are compared with nothing and always stay.
Filtered(C) ==
    {c \in C : c.cidr \in Spans} \cup Filter!MostSpecific(C \cap PrefixSet)

VARIABLES
    inv, updated, clock, changes,           \* NetBox, as in SyncEngine
    mapping, cursor, due,                   \* store; due: a full run is due
    objects,                                \* Kentik
    phase, full, since, fetchStart, snap,   \* run, as in SyncEngine
    bucket,         \* the dimension being applied, or None
    toCreate, toUpdate, toDelete,           \* halves
    created,        \* created[x]: ID confirmed, not yet saved
    confirmed, deleted,                     \* calls confirmed, not yet saved
    stale,          \* stale[x]: the old populator of migrating x, or None
    cancelled, faults,
    failures,       \* halves whose last attempt was reported as failed
    superseded      \* halves that the last filtering logged as dropped

netboxVars == <<inv, updated, clock, changes>>
storeVars  == <<mapping, cursor, due>>
fetchVars  == <<phase, full, since, fetchStart, snap>>
planVars   == <<toCreate, toUpdate, toDelete, created, confirmed, deleted>>
vars == <<netboxVars, storeVars, objects, fetchVars, bucket, planVars,
          stale, cancelled, faults, failures, superseded>>

-----------------------------------------------------------------------------
(***************************************************************************)
(* ResolveTargets: the sides a content is split into, and their dimension. *)
(***************************************************************************)
SidesOf(content) ==
    IF Direction = "either"
         /\ RouteOf[content.tenant].src # RouteOf[content.tenant].dst
      THEN {"src", "dst"} ELSE {""}

DimOf(content, side) ==
    IF side = "dst" \/ Direction = "dst" THEN RouteOf[content.tenant].dst
                                         ELSE RouteOf[content.tenant].src

Wanted(items) == {x \in Halves : items[x[1]] # None /\ x[2] \in SidesOf(items[x[1]])}

Desired(items, x) == DimOf(items[x[1]], x[2])

-----------------------------------------------------------------------------
(***************************************************************************)
(* The plan, from the fetched items and the mappings.                      *)
(***************************************************************************)
Mapped == {x \in Halves : mapping[x] # None}

Fresh(items) == Wanted(items) \ Mapped

Moving(items) ==
    {x \in Wanted(items) \cap Mapped : mapping[x].dim # Desired(items, x)}

Changed(items) ==
    {x \in (Wanted(items) \cap Mapped) \ Moving(items) :
        mapping[x].item # items[x[1]]}

\* Mutant: an incremental run takes what it did not fetch for gone.
MutantGone(items, reported) ==
    {x \in Mapped : x \in reported \/ x \notin Wanted(items)}

Gone(items, reported) ==
    {x \in Mapped : x \in reported \/ (full /\ x \notin Wanted(items))}

(***************************************************************************)
(* What would be live in dimension d: what the run creates or updates there*)
(* and what it leaves alone.  Only a dimension with work is looked at.     *)
(***************************************************************************)
InPlay(items, d) ==
    {x \in Fresh(items) \cup Moving(items) \cup Changed(items) :
        Desired(items, x) = d}

\* Mutant: what the run did not fetch is not compared with what it did.
MutantStanding(items, gone, d) == {}

Standing(items, gone, d) ==
    {x \in Mapped \ (InPlay(items, d) \cup gone \cup Moving(items)) :
        mapping[x].dim = d}

HasBucket(items, gone, d) ==
    InPlay(items, d) # {} \/ \E x \in gone : mapping[x].dim = d

Candidate(content, x) ==
    [half |-> x, cidr |-> content.cidr, tenant |-> content.tenant]

Kept(items, gone, d) ==
    {c.half : c \in Filtered(
        {Candidate(items[x[1]], x) : x \in InPlay(items, d)} \cup
        {Candidate(mapping[x].item, x) : x \in Standing(items, gone, d)})}

KeptInPlay(items, gone) ==
    UNION {InPlay(items, d) \cap Kept(items, gone, d) : d \in Dims}

Outdone(items, gone) ==
    UNION {Standing(items, gone, d) \ Kept(items, gone, d) :
             d \in {dim \in Dims : HasBucket(items, gone, dim)}}

\* Mutant: the whole row is taken along.
MutantOld(x) == mapping[x]

Old(x) == [id |-> mapping[x].id, dim |-> mapping[x].dim]

Plan(items, reported) ==
    LET gone == Gone(items, reported)
        kept == KeptInPlay(items, gone)
        outdone == Outdone(items, gone)
        inPlay == UNION {InPlay(items, d) : d \in Dims}
    IN  /\ toCreate' = (Fresh(items) \cup Moving(items)) \cap kept
        /\ toUpdate' = Changed(items) \cap kept
        /\ toDelete' = gone \cup outdone \cup (Moving(items) \ kept)
        /\ stale' = [x \in Halves |->
                        IF x \in Moving(items) \cap kept THEN Old(x) ELSE None]
        /\ superseded' = (superseded \ kept) \cup outdone \cup (inPlay \ kept)

-----------------------------------------------------------------------------
Blank == [x \in Halves |-> None]

RunReset ==
    /\ phase' = "idle"
    /\ full' = FALSE /\ since' = 0 /\ fetchStart' = 0
    /\ snap' = [g \in Groups |-> None]
    /\ bucket' = None
    /\ toCreate' = {} /\ toUpdate' = {} /\ toDelete' = {}
    /\ created' = Blank /\ confirmed' = {} /\ deleted' = {}
    /\ stale' = Blank
    /\ cancelled' = FALSE

Init ==
    /\ inv \in [Groups -> Content \cup {None}]
    /\ updated = [g \in Groups |-> IF inv[g] = None THEN 0 ELSE 1]
    /\ clock = 1 /\ changes = 0
    /\ mapping = Blank /\ cursor = 0 /\ due = TRUE
    /\ objects = {}
    /\ phase = "idle" /\ full = FALSE /\ since = 0 /\ fetchStart = 0
    /\ snap = [g \in Groups |-> None]
    /\ bucket = None
    /\ toCreate = {} /\ toUpdate = {} /\ toDelete = {}
    /\ created = Blank /\ confirmed = {} /\ deleted = {}
    /\ stale = Blank
    /\ cancelled = FALSE /\ faults = 0
    /\ failures = {} /\ superseded = {}

-----------------------------------------------------------------------------
(***************************************************************************)
(* NetBox.                                                                 *)
(***************************************************************************)
\* Time goes on after the last edit.
Edit(g, content, kind) ==
    /\ kind \in Edits
    /\ changes < MaxChanges
    /\ clock < MaxClock
    /\ changes' = changes + 1
    /\ inv' = [inv EXCEPT ![g] = content]
    /\ updated' = [updated EXCEPT ![g] = clock]
    /\ UNCHANGED <<clock, storeVars, objects, fetchVars, bucket, planVars,
                   stale, cancelled, faults, failures, superseded>>

AddGroup(g) ==
    /\ inv[g] = None /\ updated[g] = 0
    /\ \E content \in Content : Edit(g, content, "add")

\* A prefix does not become an address range.
ChangeGroup(g) ==
    /\ inv[g] # None
    /\ \E content \in Content \ {inv[g]} :
        /\ content.cidr \in Spans <=> inv[g].cidr \in Spans
        /\ Edit(g, content, "change")

RemoveGroup(g) ==
    /\ inv[g] # None
    /\ Edit(g, None, "remove")

-----------------------------------------------------------------------------
Tick ==
    /\ clock < MaxClock
    /\ clock' = clock + 1
    /\ UNCHANGED <<inv, updated, changes, storeVars, objects, fetchVars, bucket,
                   planVars, stale, cancelled, faults, failures, superseded>>

CanFail(kind) == kind \in Faults /\ faults < MaxFaults

CountFault(isFault) == faults' = IF isFault THEN faults + 1 ELSE faults

StoreFails == cancelled \/ CanFail("store")

(***************************************************************************)
(* The ways a call can go: told is what the caller hears, done whether     *)
(* Kentik executed it.  A request that Kentik refuses fails in every way.  *)
(***************************************************************************)
CallGoes(acceptable, told, done) ==
    \/ told /\ done /\ acceptable /\ ~cancelled /\ CountFault(FALSE)
    \/ ~told /\ ~done /\ (cancelled \/ ~acceptable) /\ CountFault(FALSE)
    \/ ~told /\ ~done /\ ~cancelled /\ acceptable
         /\ CanFail("reject") /\ CountFault(TRUE)
    \/ ~told /\ done /\ ~cancelled /\ acceptable
         /\ CanFail("timeout") /\ CountFault(TRUE)

(***************************************************************************)
(* Kentik never gives an ID twice.  An ID that nothing refers to any more  *)
(* is taken for a new one, and of the new ones the first.                  *)
(***************************************************************************)
InUse(id) ==
    LET x == id[1] IN
    \/ \E o \in objects : o.id = id
    \/ mapping[x] # None /\ mapping[x].id = id
    \/ created[x] = id
    \/ stale[x] # None /\ stale[x].id = id

NewIds(x) ==
    {id \in {x} \X (1..MaxIds) :
        ~InUse(id) /\ \A n \in 1..(id[2] - 1) : InUse(<<x, n>>)}

Free(d, cidr, id) ==
    \A o \in objects : o.dim = d /\ o.id # id =>
        AddressesOf[o.cidr] \cap AddressesOf[cidr] = {}

Exists(id, d) == \E o \in objects : o.id = id /\ o.dim = d

-----------------------------------------------------------------------------
StartRun ==
    /\ phase = "idle"
    /\ phase' = "begin"
    /\ UNCHANGED <<netboxVars, storeVars, objects, full, since, fetchStart,
                   snap, bucket, planVars, stale, cancelled, faults, failures,
                   superseded>>

MarkerAges ==
    /\ ~due
    /\ due' = TRUE
    /\ UNCHANGED <<netboxVars, mapping, cursor, objects, fetchVars, bucket,
                   planVars, stale, cancelled, faults, failures, superseded>>

BeginFetch ==
    /\ phase = "begin"
    /\ phase' = "fetch"
    /\ full' = (due \/ cursor = 0)
    /\ since' = IF due THEN 0 ELSE cursor
    /\ fetchStart' = clock
    /\ UNCHANGED <<netboxVars, storeVars, objects, snap, bucket, planVars,
                   stale, cancelled, faults, failures, superseded>>

(***************************************************************************)
(* The fetch and the plan made of it.  A source that reports deletions does*)
(* so by the group's own external ID, which a half does not have.          *)
(***************************************************************************)
ReportedGone ==
    {x \in Halves : ReportsDeletes /\ x[2] = "" /\ inv[x[1]] = None
                      /\ updated[x[1]] # 0 /\ updated[x[1]] >= since}

EndFetch ==
    /\ phase = "fetch"
    /\ ~cancelled
    /\ LET items == [g \in Groups |->
                       IF updated[g] >= since THEN inv[g] ELSE None]
       IN  snap' = items /\ Plan(items, ReportedGone)
    /\ phase' = "apply"
    /\ UNCHANGED <<netboxVars, storeVars, objects, full, since, fetchStart,
                   bucket, created, confirmed, deleted, cancelled, faults,
                   failures>>

FetchFails ==
    /\ phase = "fetch"
    /\ cancelled \/ CanFail("fetch")
    /\ CountFault(~cancelled)
    /\ RunReset
    /\ UNCHANGED <<netboxVars, storeVars, objects, failures, superseded>>

-----------------------------------------------------------------------------
(***************************************************************************)
(* Applying the plan, one dimension after another in any order, and in each*)
(* the creates, the updates, then the deletes.                             *)
(***************************************************************************)
PendingCreates == {x \in toCreate : Desired(snap, x) = bucket}
PendingUpdates == {x \in toUpdate : Desired(snap, x) = bucket}
PendingDeletes == {x \in toDelete : mapping[x].dim = bucket}
Unsaved == {x \in Halves : created[x] # None}

OpenBucket(d) ==
    /\ phase = "apply"
    /\ bucket = None
    /\ \/ \E x \in toCreate \cup toUpdate : Desired(snap, x) = d
       \/ \E x \in toDelete : mapping[x].dim = d
    /\ bucket' = d
    /\ UNCHANGED <<netboxVars, storeVars, objects, fetchVars, planVars,
                   stale, cancelled, faults, failures, superseded>>

(***************************************************************************)
(* A migration whose create fails, or is not recorded, is given up for this*)
(* run: its old populator stays.                                           *)
(***************************************************************************)
\* Mutant: the old populator is removed all the same.
MutantGiveUp(x) == failures' = failures \cup {x} /\ UNCHANGED stale

GiveUp(x) ==
    /\ failures' = failures \cup {x}
    /\ stale' = [stale EXCEPT ![x] = None]

CreatePopulator(x) ==
    /\ bucket # None
    /\ x \in PendingCreates
    /\ toCreate' = toCreate \ {x}
    /\ \E told, done \in BOOLEAN, id \in NewIds(x) :
        LET item == snap[x[1]] IN
        /\ CallGoes(Free(bucket, item.cidr, id), told, done)
        /\ objects' = IF ~done THEN objects ELSE objects \cup
              {[id |-> id, dim |-> bucket, cidr |-> item.cidr, label |-> item.label]}
        /\ IF told THEN /\ created' = [created EXCEPT ![x] = id]
                        /\ UNCHANGED <<failures, stale>>
                   ELSE GiveUp(x) /\ UNCHANGED created
    /\ UNCHANGED <<netboxVars, storeVars, fetchVars, bucket, toUpdate, toDelete,
                   confirmed, deleted, cancelled, superseded>>

(***************************************************************************)
(* UpsertMapping of the created populators, once all creates of the        *)
(* dimension have been sent, and of the updated ones after the updates.    *)
(***************************************************************************)
\* Mutant: the row keeps the dimension it had.
MutantSaved(x, id) ==
    [id |-> id, item |-> snap[x[1]],
     dim |-> IF mapping[x] = None THEN bucket ELSE mapping[x].dim]

Saved(x, id) == [id |-> id, item |-> snap[x[1]], dim |-> bucket]

SavePopulator(x) ==
    /\ bucket # None
    /\ PendingCreates = {}
    /\ x \in Unsaved
    /\ created' = [created EXCEPT ![x] = None]
    /\ \/ /\ ~cancelled
          /\ mapping' = [mapping EXCEPT ![x] = Saved(x, created[x])]
          /\ failures' = failures \ {x}
          /\ UNCHANGED <<stale, faults>>
       \/ /\ StoreFails
          /\ CountFault(~cancelled)
          /\ GiveUp(x)
          /\ UNCHANGED mapping
    /\ UNCHANGED <<netboxVars, cursor, due, objects, fetchVars, bucket,
                   toCreate, toUpdate, toDelete, confirmed, deleted, cancelled,
                   superseded>>

CreatesDone == bucket # None /\ PendingCreates = {} /\ Unsaved = {}

UpdatePopulator(x) ==
    /\ CreatesDone
    /\ x \in PendingUpdates
    /\ toUpdate' = toUpdate \ {x}
    /\ \E told, done \in BOOLEAN :
        LET id == mapping[x].id
            item == snap[x[1]] IN
        /\ CallGoes(Exists(id, bucket) /\ Free(bucket, item.cidr, id), told, done)
        /\ objects' = {IF done /\ o.id = id
                         THEN [id |-> id, dim |-> o.dim, cidr |-> item.cidr,
                               label |-> item.label]
                         ELSE o : o \in objects}
        /\ IF told THEN confirmed' = confirmed \cup {x} /\ UNCHANGED failures
                   ELSE failures' = failures \cup {x} /\ UNCHANGED confirmed
    /\ UNCHANGED <<netboxVars, storeVars, fetchVars, bucket, toCreate,
                   toDelete, created, deleted, stale, cancelled, superseded>>

SaveUpdated(x) ==
    /\ CreatesDone
    /\ PendingUpdates = {}
    /\ x \in confirmed
    /\ confirmed' = confirmed \ {x}
    /\ \/ /\ ~cancelled
          /\ mapping' = [mapping EXCEPT ![x] = Saved(x, mapping[x].id)]
          /\ failures' = failures \ {x}
          /\ UNCHANGED faults
       \/ /\ StoreFails
          /\ CountFault(~cancelled)
          /\ failures' = failures \cup {x}
          /\ UNCHANGED mapping
    /\ UNCHANGED <<netboxVars, cursor, due, objects, fetchVars, bucket,
                   toCreate, toUpdate, toDelete, created, deleted, stale,
                   cancelled, superseded>>

UpdatesDone == CreatesDone /\ PendingUpdates = {} /\ confirmed = {}

DeletePopulator(x) ==
    /\ UpdatesDone
    /\ x \in PendingDeletes
    /\ toDelete' = toDelete \ {x}
    /\ \E told, done \in BOOLEAN :
        LET id == mapping[x].id IN
        /\ CallGoes(Exists(id, bucket), told, done)
        /\ objects' = {o \in objects : ~(done /\ o.id = id)}
        /\ IF told THEN deleted' = deleted \cup {x} /\ UNCHANGED failures
                   ELSE failures' = failures \cup {x} /\ UNCHANGED deleted
    /\ UNCHANGED <<netboxVars, storeVars, fetchVars, bucket, toCreate,
                   toUpdate, created, confirmed, stale, cancelled, superseded>>

Forget(x) ==
    /\ UpdatesDone
    /\ PendingDeletes = {}
    /\ x \in deleted
    /\ deleted' = deleted \ {x}
    /\ \/ /\ ~cancelled
          /\ mapping' = [mapping EXCEPT ![x] = None]
          /\ failures' = failures \ {x}
          /\ UNCHANGED faults
       \/ /\ StoreFails
          /\ CountFault(~cancelled)
          /\ failures' = failures \cup {x}
          /\ UNCHANGED mapping
    /\ UNCHANGED <<netboxVars, cursor, due, objects, fetchVars, bucket,
                   toCreate, toUpdate, toDelete, created, confirmed, stale,
                   cancelled, superseded>>

CloseBucket ==
    /\ UpdatesDone
    /\ PendingDeletes = {} /\ deleted = {}
    /\ bucket' = None
    /\ UNCHANGED <<netboxVars, storeVars, objects, fetchVars, planVars,
                   stale, cancelled, faults, failures, superseded>>

BucketsDone ==
    phase = "apply" /\ bucket = None /\ toCreate \cup toUpdate \cup toDelete = {}

(***************************************************************************)
(* The old populators of the migrations whose new one has been recorded.   *)
(* The store no longer knows them.                                         *)
(***************************************************************************)
CleanUp(x) ==
    /\ BucketsDone
    /\ stale[x] # None
    /\ stale' = [stale EXCEPT ![x] = None]
    /\ \E told, done \in BOOLEAN :
        /\ CallGoes(Exists(stale[x].id, stale[x].dim), told, done)
        /\ objects' = {o \in objects : ~(done /\ o.id = stale[x].id)}
        /\ failures' = IF told THEN failures ELSE failures \cup {x}
    /\ UNCHANGED <<netboxVars, storeVars, fetchVars, bucket, planVars,
                   cancelled, superseded>>

(***************************************************************************)
(* commitRun: the cursor, then the marker of a full run, whatever failed.  *)
(***************************************************************************)
\* Mutant: the cursor is the time of the commit.
MutantNewCursor == clock

NewCursor == fetchStart

CommitRun ==
    /\ BucketsDone
    /\ stale = Blank
    /\ \/ /\ ~cancelled
          /\ cursor' = NewCursor
          /\ due' = (due /\ ~full)
          /\ CountFault(FALSE)
       \/ /\ StoreFails
          /\ CountFault(~cancelled)
          /\ \/ UNCHANGED <<cursor, due>>
             \/ ~cancelled /\ full /\ cursor' = NewCursor /\ UNCHANGED due
    /\ RunReset
    /\ UNCHANGED <<netboxVars, mapping, objects, failures, superseded>>

-----------------------------------------------------------------------------
Crash ==
    /\ phase # "idle"
    /\ CanFail("crash")
    /\ CountFault(TRUE)
    /\ RunReset
    /\ UNCHANGED <<netboxVars, storeVars, objects, failures, superseded>>

Cancel ==
    /\ phase # "idle"
    /\ ~cancelled
    /\ CanFail("cancel")
    /\ CountFault(TRUE)
    /\ cancelled' = TRUE
    /\ UNCHANGED <<netboxVars, storeVars, objects, fetchVars, bucket,
                   planVars, stale, failures, superseded>>

-----------------------------------------------------------------------------
NetBoxStep == \E g \in Groups : AddGroup(g) \/ ChangeGroup(g) \/ RemoveGroup(g)

ApplyStep ==
    \/ \E d \in Dims : OpenBucket(d)
    \/ \E x \in Halves :
          \/ CreatePopulator(x) \/ SavePopulator(x)
          \/ UpdatePopulator(x) \/ SaveUpdated(x)
          \/ DeletePopulator(x) \/ Forget(x)
    \/ CloseBucket
    \/ \E x \in Halves : CleanUp(x)
    \/ CommitRun

AgentStep == StartRun \/ BeginFetch \/ EndFetch \/ FetchFails \/ ApplyStep

Next == NetBoxStep \/ Tick \/ MarkerAges \/ AgentStep \/ Crash \/ Cancel

Spec == Init /\ [][Next]_vars

\* As in SyncEngine: runs keep starting and going, and time passes.
Fairness == WF_vars(AgentStep) /\ WF_vars(MarkerAges) /\ WF_vars(Tick)

FairSpec == Spec /\ Fairness

-----------------------------------------------------------------------------
(***************************************************************************)
(* Every variable has its type.                                            *)
(***************************************************************************)
TypeOK ==
    /\ inv \in [Groups -> Content \cup {None}]
    /\ updated \in [Groups -> Nat]
    /\ clock \in Nat /\ changes \in Nat
    /\ mapping \in [Halves -> Mapping \cup {None}]
    /\ cursor \in Nat /\ due \in BOOLEAN
    /\ objects \subseteq Populators
    /\ phase \in {"idle", "begin", "fetch", "apply"}
    /\ full \in BOOLEAN /\ since \in Nat /\ fetchStart \in Nat
    /\ snap \in [Groups -> Content \cup {None}]
    /\ bucket \in Dims \cup {None}
    /\ toCreate \subseteq Halves
    /\ toUpdate \subseteq Halves
    /\ toDelete \subseteq Halves
    /\ created \in [Halves -> Ids \cup {None}]
    /\ confirmed \subseteq Halves /\ deleted \subseteq Halves
    /\ stale \in [Halves -> [id : Ids, dim : Dims] \cup {None}]
    /\ cancelled \in BOOLEAN /\ faults \in Nat
    /\ failures \subseteq Halves /\ superseded \subseteq Halves

(***************************************************************************)
(* Between runs the store and Kentik agree: the populators are those of    *)
(* the mappings, each in the dimension and with the content recorded, so   *)
(* none is left behind in the dimension a group has moved out of.          *)
(***************************************************************************)
StoreMatchesPopulators ==
    phase = "idle" =>
        objects = {[id |-> mapping[x].id, dim |-> mapping[x].dim,
                    cidr |-> mapping[x].item.cidr,
                    label |-> mapping[x].item.label] : x \in Mapped}

(***************************************************************************)
(* Unless a full run is due, a group that changed before the cursor, and   *)
(* that no fetch is about to return again, is recorded with its present    *)
(* content in the present dimension of each side, or was reported as failed*)
(* or as superseded.                                                       *)
(***************************************************************************)
Synced(x) ==
    /\ mapping[x] # None
    /\ mapping[x].item = inv[x[1]]
    /\ mapping[x].dim = Desired(inv, x)

NoSilentLoss ==
    \A x \in Wanted(inv) : (updated[x[1]] < cursor /\ ~due) =>
        Synced(x) \/ x \in failures \cup superseded

(***************************************************************************)
(* A populator is removed only if its group is gone or no longer has that  *)
(* side, lost to another range, has moved to another dimension, or was     *)
(* edited while the run was under way.                                     *)
(***************************************************************************)
Removed(o) == \A p \in objects' : p.id # o.id

DeletesJustified ==
    [][\A o \in objects : Removed(o) =>
          LET x == o.id[1] IN
          \/ x \notin Wanted(inv)
          \/ x \in superseded
          \/ mapping[x] # None /\ mapping[x].id # o.id
          \/ updated[x[1]] >= fetchStart]_vars

(***************************************************************************)
(* The old populator of a group that moves is removed only when the new one*)
(* is live and recorded (ipgroups.go, on ipGroupMigration): a failed move  *)
(* never leaves the group without a populator.                             *)
(***************************************************************************)
MoveCreatesFirst ==
    [][\A x \in Halves, o \in objects :
          (stale[x] # None /\ o.id = stale[x].id /\ Removed(o)) =>
             /\ mapping[x].id # o.id
             /\ Exists(mapping[x].id, mapping[x].dim)]_vars

(***************************************************************************)
(* Once the edits are over, each dimension comes to hold the most specific *)
(* prefixes and the address ranges routed to it, with their labels, and    *)
(* nothing else; but for those that overlap a live one, which was reported.*)
(* Of prefixes alone nothing overlaps, and all are live.                   *)
(***************************************************************************)
Rightful(d) ==
    LET routed == {x \in Wanted(inv) : Desired(inv, x) = d}
    IN  {c.half : c \in Filtered({Candidate(inv[x[1]], x) : x \in routed})}

Owed(d) ==
    {[half |-> x, cidr |-> inv[x[1]].cidr, label |-> inv[x[1]].label] : x \in Rightful(d)}

Live(d) ==
    {[half |-> o.id[1], cidr |-> o.cidr, label |-> o.label] :
        o \in {p \in objects : p.dim = d}}

Mirrored ==
    \A d \in Dims :
        /\ Live(d) \subseteq Owed(d)
        /\ \A e \in Owed(d) \ Live(d) :
            /\ e.half \in failures
            /\ \E f \in Live(d) : AddressesOf[e.cidr] \cap AddressesOf[f.cidr] # {}

Converges == <>[]Mirrored

=============================================================================
