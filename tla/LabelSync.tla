------------------------------ MODULE LabelSync ------------------------------
(***************************************************************************)
(* Device labels (internal/sync/labels.go, internal/destination/kentik/    *)
(* labels.go), for one source.  NetBox derives a few managed labels for    *)
(* each device; Kentik replaces all labels of a device in one call, so the *)
(* agent reads them, keeps those that are not managed, and writes the rest.*)
(* Meanwhile people edit labels in Kentik by hand, people edit NetBox, and *)
(* other sources create labels in the same directory.                      *)
(*                                                                         *)
(* The devices themselves are the business of SyncEngine.  Here they are   *)
(* created before the labels and deleted after them, as RunJob does, each  *)
(* time with a batch of which Kentik answers for every device and a store  *)
(* that is updated afterwards; an update of a device leaves labels alone.  *)
(*                                                                         *)
(* A request that Kentik executes only after its call has returned, which  *)
(* KentikCall allows, is not modelled.                                     *)
(***************************************************************************)
EXTENDS Naturals, FiniteSets

CONSTANTS
    Devices,        \* external IDs
    Managed,        \* labels whose name has managedLabelPrefix
    Custom,         \* other labels, which people attach by hand
    None,           \* no device, no ID, no mapping
    Incremental,    \* job.Incremental
    Faults,         \* the kinds of fault that may happen
    MaxFaults,      \* bound on the number of faults
    MaxEdits        \* bound on the number of edits, by hand and in NetBox

Types == {"devices", "labels"}
Stages == {"create", "update", "clear"}

(***************************************************************************)
(* The k-th Kentik device made for d has the ID <<d, k>>.                  *)
(***************************************************************************)
Ids == Devices \X Nat

Mapping == [id : Ids, labels : SUBSET Managed]

FaultKinds == {"crash", "cancel", "fetch", "miss", "reject", "timeout",
               "store"}

ASSUME LabelSyncAssumption ==
    /\ Managed \cap Custom = {}
    /\ None \notin Devices \cup Ids \cup Mapping
    /\ Incremental \in BOOLEAN
    /\ Faults \subseteq FaultKinds
    /\ MaxFaults \in Nat /\ MaxEdits \in Nat

VARIABLES
    \* NetBox
    inv,        \* inv[d]: the labels of device d, None when it does not exist
    gone,       \* devices that were removed; their IDs are not used again
    edits,      \* number of edits so far, here and by hand, bounded by MaxEdits
    \* Store
    device,     \* device[d]: Kentik ID in the device mapping of d, or None
    mapping,    \* mapping[d]: the label mapping of d, or None
    marker,     \* marker[t]: whether a full reconciliation of type t is due
    \* Kentik
    onDevice,   \* onDevice[id]: the labels of each live device
    serial,     \* serial[d]: how many devices were ever created for d
    directory,  \* the managed labels that Kentik has an ID for
    \* People who edit labels in Kentik
    hand,       \* hand[id]: the custom labels that people last wanted on it
    raced,      \* <<id, label>> last edited between the agent's read and write
    \* Run
    phase,      \* where the run is
    stage,      \* which of its three batches it is at
    full,       \* isFullRun, for the labels
    snap,       \* snap[d]: the labels to write to d in the first two batches
    plan,       \* plan[stage]: the devices of the batch still to be done
    toDelete,   \* the devices to delete at the end of the run
    ids,        \* the label names that resolveLabelIDs has an ID for
    current,    \* the device between the read and the write, or None
    unmanaged,  \* what currentLabelIDs returned for it
    applied,    \* devices done, store not yet updated
    confirmed,  \* devices created, or deleted, store not yet updated
    cancelled,  \* the run's context is cancelled (SIGTERM)
    faults,     \* number of faults so far, bounded by MaxFaults
    doubtful,   \* devices written to in Kentik without the store knowing
    ghosts      \* devices deleted in Kentik without the store knowing

netboxVars == <<inv, gone, edits>>
storeVars  == <<device, mapping, marker>>
kentikVars == <<onDevice, serial, directory>>
handVars   == <<hand, raced>>
planVars   == <<stage, full, snap, plan, toDelete>>
batchVars  == <<ids, current, unmanaged, applied>>
lostVars   == <<doubtful, ghosts>>
vars == <<netboxVars, storeVars, kentikVars, handVars, planVars, batchVars,
          confirmed, phase, cancelled, faults, lostVars>>

Phases == {"idle", "devices", "record", "fetch", "list", "apply", "write",
           "save", "commit", "remove", "forget"}

Blank == [d \in Devices |-> None]
NoPlan == [s \in Stages |-> {}]

-----------------------------------------------------------------------------
Init ==
    /\ inv \in [Devices -> (SUBSET Managed) \cup {None}]
    /\ gone = {}
    /\ edits = 0
    /\ device = Blank
    /\ mapping = Blank
    /\ marker = [t \in Types |-> "due"]
    /\ onDevice = <<>>
    /\ serial = [d \in Devices |-> 0]
    /\ directory \in SUBSET Managed
    /\ hand = <<>>
    /\ raced = {}
    /\ phase = "idle"
    /\ stage = "create"
    /\ full = FALSE
    /\ snap = Blank
    /\ plan = NoPlan
    /\ toDelete = {}
    /\ ids = {}
    /\ current = None
    /\ unmanaged = {}
    /\ applied = {}
    /\ confirmed = {}
    /\ cancelled = FALSE
    /\ faults = 0
    /\ doubtful = {}
    /\ ghosts = {}

-----------------------------------------------------------------------------
(***************************************************************************)
(* NetBox: a device is added, gets another tenant or role, or is removed.  *)
(***************************************************************************)
Present == {d \in Devices : inv[d] # None}

EditDevice(d) ==
    /\ edits < MaxEdits
    /\ edits' = edits + 1
    /\ d \notin gone
    /\ \/ \E labels \in SUBSET Managed :
            /\ inv[d] # labels
            /\ inv' = [inv EXCEPT ![d] = labels]
            /\ UNCHANGED gone
       \/ /\ d \in Present
          /\ inv' = [inv EXCEPT ![d] = None]
          /\ gone' = gone \cup {d}
    /\ UNCHANGED <<storeVars, kentikVars, handVars, planVars, batchVars, phase,
                   cancelled, faults, confirmed, lostVars>>

-----------------------------------------------------------------------------
(***************************************************************************)
(* Faults and the outcomes of a Kentik call, as in SyncEngine.             *)
(***************************************************************************)
CanFail(kind) == kind \in Faults /\ faults < MaxFaults

CountFault(isFault) == faults' = IF isFault THEN faults + 1 ELSE faults

Live(id) == id \in DOMAIN onDevice

-----------------------------------------------------------------------------
StartRun ==
    /\ phase = "idle"
    /\ phase' = "devices"
    /\ UNCHANGED <<netboxVars, storeVars, kentikVars, handVars, planVars,
                   batchVars, cancelled, faults, confirmed, lostVars>>

(***************************************************************************)
(* The full-reconcile interval elapses.  Each type has a marker of its own.*)
(***************************************************************************)
MarkerAges(t) ==
    /\ Incremental
    /\ marker[t] = "fresh"
    /\ marker' = [marker EXCEPT ![t] = "due"]
    /\ UNCHANGED <<netboxVars, device, mapping, kentikVars, handVars, planVars,
                   batchVars, phase, cancelled, faults, confirmed, lostVars>>

IsFullRun(t) == ~Incremental \/ marker[t] # "fresh"

Reconciled(t, isFull) ==
    marker' = IF isFull THEN [marker EXCEPT ![t] = "fresh"] ELSE marker

(***************************************************************************)
(* runDevices.  A full fetch returns every device, an incremental one some *)
(* of them.  Devices without a mapping are created, and after a full fetch *)
(* those not seen are to be deleted.  A page that shifts (NetBoxListing)   *)
(* makes a fetch miss a device that exists.  Kentik may refuse some of the *)
(* batch, or create it without the answer coming back; that a retry may    *)
(* then create one more (SyncEngine) is the same to the labels.            *)
(***************************************************************************)
NewId(d) == <<d, serial[d] + 1>>

CreateDevices(seen, refused, lost) ==
    /\ phase = "devices"
    /\ ~cancelled
    /\ LET isFull == IsFullRun("devices")
            new    == {d \in seen \ refused : device[d] = None}
            idsOf  == {NewId(d) : d \in new}
            missed == isFull /\ seen # Present
       IN
        /\ missed => "miss" \in Faults
        /\ refused # {} => "reject" \in Faults
        /\ lost => new # {} /\ refused = {} /\ "timeout" \in Faults
        /\ faults' = faults + (IF missed THEN 1 ELSE 0)
                            + (IF lost \/ refused # {} THEN 1 ELSE 0)
        /\ faults' <= MaxFaults
        /\ confirmed' = IF lost THEN {} ELSE new
        /\ serial' = [d \in Devices |-> IF d \in new THEN serial[d] + 1
                                                     ELSE serial[d]]
        /\ onDevice' = [id \in DOMAIN onDevice \cup idsOf |->
                          IF id \in idsOf THEN {} ELSE onDevice[id]]
        /\ hand' = [id \in DOMAIN hand \cup idsOf |->
                          IF id \in idsOf THEN {} ELSE hand[id]]
        /\ toDelete' = {d \in Devices : isFull /\ device[d] # None
                                               /\ d \notin seen}
        /\ full' = isFull
    /\ phase' = "record"
    /\ UNCHANGED <<netboxVars, storeVars, directory, raced, stage, snap,
                   plan, batchVars, cancelled, lostVars>>

DevicesFail ==
    /\ phase = "devices"
    /\ cancelled \/ CanFail("fetch")
    /\ CountFault(~cancelled)
    /\ phase' = "fetch"
    /\ UNCHANGED <<netboxVars, storeVars, kentikVars, handVars, planVars,
                   batchVars, confirmed, cancelled, lostVars>>

(***************************************************************************)
(* The mapping of a device that Kentik confirmed.  When it is not stored,  *)
(* nobody knows the device, and a later run creates another one.           *)
(***************************************************************************)
RecordDevice(d) ==
    /\ phase = "record"
    /\ d \in confirmed
    /\ confirmed' = confirmed \ {d}
    /\ \/ /\ ~cancelled
          /\ device' = [device EXCEPT ![d] = <<d, serial[d]>>]
          /\ UNCHANGED faults
       \/ /\ cancelled \/ CanFail("store")
          /\ CountFault(~cancelled)
          /\ UNCHANGED device
    /\ UNCHANGED <<netboxVars, mapping, marker, kentikVars, handVars, planVars,
                   batchVars, phase, cancelled, lostVars>>

(***************************************************************************)
(* commitRun.  The cursor is saved too, but nothing here depends on it.    *)
(***************************************************************************)
Commit(t) ==
    \/ /\ ~cancelled
       /\ Reconciled(t, full)
       /\ UNCHANGED faults
    \/ /\ cancelled \/ (full /\ CanFail("store"))
       /\ CountFault(~cancelled)
       /\ UNCHANGED marker

CommitDevices ==
    /\ phase = "record"
    /\ confirmed = {}
    /\ Commit("devices")
    /\ full' = FALSE
    /\ phase' = "fetch"
    /\ UNCHANGED <<netboxVars, device, mapping, kentikVars, handVars, stage, snap,
                   plan, toDelete, batchVars, confirmed, cancelled, lostVars>>

(***************************************************************************)
(* FetchDeviceLabels ignores `since`: the fetch is always of every device, *)
(* because a tenant or role can change without its devices.  But only in a *)
(* full run does diff take a device that was not fetched for gone.         *)
(***************************************************************************)
\* Mutant: a device that has a mapping counts as labelled.
MutantDiffCreate(items) == {d \in items : device[d] = None}

DiffCreate(items) == {d \in items : mapping[d] = None}

DiffUpdate(items) ==
    {d \in items : mapping[d] # None /\ mapping[d].labels # inv[d]}

DiffClear(items) ==
    {d \in Devices \ items : mapping[d] # None /\ IsFullRun("labels")}

FetchLabels(items) ==
    /\ phase = "fetch"
    /\ ~cancelled
    /\ items # Present => CanFail("miss")
    /\ CountFault(items # Present)
    /\ plan' = [create |-> DiffCreate(items),
                update |-> DiffUpdate(items),
                clear  |-> DiffClear(items)]
    /\ snap' = [d \in Devices |->
                  IF d \in DiffCreate(items) \cup DiffUpdate(items) THEN inv[d]
                                                                   ELSE None]
    /\ full' = IsFullRun("labels")
    /\ phase' = "list"
    /\ UNCHANGED <<netboxVars, storeVars, kentikVars, handVars, stage,
                   toDelete, batchVars, cancelled, confirmed, lostVars>>

(***************************************************************************)
(* A failed fetch skips the labels, and the devices are deleted all the    *)
(* same.                                                                   *)
(***************************************************************************)
LabelsFetchFails ==
    /\ phase = "fetch"
    /\ cancelled \/ CanFail("fetch")
    /\ CountFault(~cancelled)
    /\ phase' = "remove"
    /\ UNCHANGED <<netboxVars, storeVars, kentikVars, handVars, planVars,
                   batchVars, cancelled, confirmed, lostVars>>

-----------------------------------------------------------------------------
(***************************************************************************)
(* LabelApplier.Apply, for the batch of the current stage.  Clear is Apply *)
(* with no labels and the IDs of the label mappings.                       *)
(***************************************************************************)
Batch == plan[stage]

Desired(d) == IF stage = "clear" THEN {} ELSE snap[d]

Target(d) == IF stage = "clear" THEN mapping[d].id ELSE device[d]

FailBatch ==
    /\ plan' = [plan EXCEPT ![stage] = {}]
    /\ phase' = "save"

Skip(d) == plan' = [plan EXCEPT ![stage] = @ \ {d}]

(***************************************************************************)
(* The creates are followed by the updates, then by commitRun; the clears  *)
(* come after those of the devices.  Apply returns at once when there is   *)
(* nothing to do, and begins with ListLabels otherwise.                    *)
(***************************************************************************)
NextBatch ==
    /\ stage' = IF stage = "create" THEN "update" ELSE stage
    /\ phase' = CASE stage = "create" -> "list"
                  [] stage = "update" -> "commit"
                  [] stage = "clear"  -> "remove"
    /\ snap' = IF stage = "create" THEN snap ELSE Blank
    /\ UNCHANGED <<netboxVars, storeVars, kentikVars, handVars, full, plan,
                   toDelete, current, unmanaged, applied, cancelled, faults,
                   confirmed, lostVars>>

EmptyBatch ==
    /\ phase = "list"
    /\ Batch = {}
    /\ NextBatch
    /\ UNCHANGED ids

ListLabels ==
    /\ phase = "list"
    /\ Batch # {}
    /\ \/ /\ ~cancelled
          /\ ids' = directory
          /\ phase' = "apply"
          /\ UNCHANGED <<plan, faults>>
       \/ /\ cancelled \/ CanFail("reject")
          /\ CountFault(~cancelled)
          /\ FailBatch
          /\ UNCHANGED ids
    /\ UNCHANGED <<netboxVars, storeVars, kentikVars, handVars, stage, full,
                   snap, toDelete, current, unmanaged, applied, cancelled,
                   confirmed, lostVars>>

(***************************************************************************)
(* CreateLabel, for a name that was not listed.  One failure fails the     *)
(* whole batch.  A name that another source has created since then may be  *)
(* refused.  After a timeout the label may exist without anyone knowing.   *)
(***************************************************************************)
\* Mutant: the names that are not listed are not created.
MutantUnresolved == {}

Unresolved == (UNION {Desired(d) : d \in Batch}) \ ids

CreateLabel(name) ==
    /\ phase = "apply"
    /\ name \in Unresolved
    /\ \/ /\ ~cancelled
          /\ ids' = ids \cup {name}
          /\ directory' = directory \cup {name}
          /\ UNCHANGED <<plan, phase, faults>>
       \/ /\ cancelled \/ name \in directory \/ CanFail("reject")
          /\ CountFault(~cancelled /\ name \notin directory)
          /\ FailBatch
          /\ UNCHANGED <<ids, directory>>
       \/ /\ ~cancelled /\ CanFail("timeout")
          /\ CountFault(TRUE)
          /\ directory' = directory \cup {name}
          /\ FailBatch
          /\ UNCHANGED ids
    /\ UNCHANGED <<netboxVars, storeVars, onDevice, serial, handVars, stage,
                   full, snap, toDelete, current, unmanaged, applied,
                   cancelled, confirmed, lostVars>>

(***************************************************************************)
(* currentLabelIDs: GetDevice, and the labels on it that are not managed.  *)
(***************************************************************************)
\* Mutants: nothing is read back; the prefix is not looked at.
MutantUnmanagedOf(id) == {}
MutantCurrentOf(id) == onDevice[id]

UnmanagedOf(id) == onDevice[id] \ Managed

ReadLabels(d) ==
    /\ phase = "apply"
    /\ Unresolved = {}
    /\ d \in Batch
    /\ \/ /\ ~cancelled
          /\ Target(d) # None /\ Live(Target(d))
          /\ current' = d
          /\ unmanaged' = UnmanagedOf(Target(d))
          /\ phase' = "write"
          /\ UNCHANGED <<plan, faults>>
       \/ /\ \/ cancelled \/ CanFail("reject")
             \/ Target(d) = None \/ ~Live(Target(d))
          /\ CountFault(~cancelled /\ Target(d) # None /\ Live(Target(d)))
          /\ Skip(d)
          /\ UNCHANGED <<current, unmanaged, phase>>
    /\ UNCHANGED <<netboxVars, storeVars, kentikVars, handVars, stage, full,
                   snap, toDelete, ids, applied, cancelled, confirmed, lostVars>>

(***************************************************************************)
(* UpdateDeviceLabels replaces all labels of the device; a name without an *)
(* ID would add none.  A call that times out may have been executed; the   *)
(* client may try it again, which leaves more time for an edit by hand to  *)
(* get lost.                                                               *)
(***************************************************************************)
Replaced(id) ==
    [onDevice EXCEPT ![id] = unmanaged \cup (Desired(current) \cap ids)]

WriteLabels ==
    /\ phase = "write"
    /\ \/ /\ ~cancelled
          /\ onDevice' = Replaced(Target(current))
          /\ applied' = applied \cup {current}
          /\ UNCHANGED <<faults, doubtful>>
       \/ /\ cancelled \/ CanFail("reject")
          /\ CountFault(~cancelled)
          /\ UNCHANGED <<onDevice, applied, doubtful>>
       \/ /\ ~cancelled /\ CanFail("timeout")
          /\ CountFault(TRUE)
          /\ onDevice' = Replaced(Target(current))
          /\ doubtful' = doubtful \cup {current}
          /\ UNCHANGED applied
    /\ Skip(current)
    /\ current' = None
    /\ unmanaged' = {}
    /\ phase' = "apply"
    /\ UNCHANGED <<netboxVars, storeVars, serial, directory, handVars, stage,
                   full, snap, toDelete, ids, cancelled, confirmed, ghosts>>

RetryWrite ==
    /\ phase = "write"
    /\ ~cancelled /\ CanFail("timeout")
    /\ CountFault(TRUE)
    /\ onDevice' = Replaced(Target(current))
    /\ doubtful' = doubtful \cup {current}
    /\ UNCHANGED <<netboxVars, storeVars, serial, directory, handVars, planVars,
                   batchVars, confirmed, phase, cancelled, ghosts>>

ApplyDone ==
    /\ phase = "apply"
    /\ Batch = {}
    /\ phase' = "save"
    /\ UNCHANGED <<netboxVars, storeVars, kentikVars, handVars, planVars,
                   batchVars, cancelled, faults, confirmed, lostVars>>

-----------------------------------------------------------------------------
(***************************************************************************)
(* The store is updated after the whole batch, and the marker after both   *)
(* batches.                                                                *)
(***************************************************************************)
Saved(d) == [id |-> device[d], labels |-> snap[d]]

SaveLabels(d) ==
    /\ phase = "save"
    /\ d \in applied
    /\ applied' = applied \ {d}
    /\ \/ /\ ~cancelled
          /\ mapping' = [mapping EXCEPT ![d] = IF stage = "clear" THEN None
                                                                  ELSE Saved(d)]
          /\ doubtful' = doubtful \ {d}
          /\ UNCHANGED faults
       \/ /\ cancelled \/ CanFail("store")
          /\ CountFault(~cancelled)
          /\ doubtful' = doubtful \cup {d}
          /\ UNCHANGED mapping
    /\ UNCHANGED <<netboxVars, device, marker, kentikVars, handVars, planVars,
                   ids, current, unmanaged, confirmed, phase, cancelled,
                   ghosts>>

EndBatch ==
    /\ phase = "save"
    /\ applied = {}
    /\ NextBatch
    /\ ids' = {}

CommitLabels ==
    /\ phase = "commit"
    /\ Commit("labels")
    /\ stage' = "clear"
    /\ full' = FALSE
    /\ phase' = "list"
    /\ UNCHANGED <<netboxVars, device, mapping, kentikVars, handVars, snap, plan,
                   toDelete, batchVars, cancelled, confirmed, lostVars>>

-----------------------------------------------------------------------------
(***************************************************************************)
(* The end of RunJob: deleteDevices, after deleteDeviceLabels.  Kentik     *)
(* lists the devices it did not delete, among them those it does not have. *)
(* The mappings of the others are deleted afterwards; when that fails, or  *)
(* the answer is lost, the store goes on naming a device that is gone.     *)
(***************************************************************************)
ResetRun ==
    /\ phase' = "idle"
    /\ stage' = "create"
    /\ full' = FALSE
    /\ snap' = Blank
    /\ plan' = NoPlan
    /\ toDelete' = {}
    /\ ids' = {}
    /\ current' = None
    /\ unmanaged' = {}
    /\ applied' = {}
    /\ confirmed' = {}
    /\ cancelled' = FALSE

RemoveIds(removed) ==
    LET left == DOMAIN onDevice \ removed IN
    /\ onDevice' = [id \in left |-> onDevice[id]]
    /\ hand' = [id \in left |-> hand[id]]
    /\ raced' = {r \in raced : r[1] \in left}

DeleteDevices(refused) ==
    /\ phase = "remove"
    /\ LET batch == {d \in toDelete : Live(device[d])}
           done  == batch \ refused
       IN
        \/ /\ refused # {} => CanFail("reject")
           /\ ~cancelled
           /\ CountFault(refused # {})
           /\ RemoveIds({device[d] : d \in done})
           /\ confirmed' = done
           /\ UNCHANGED ghosts
        \/ /\ batch # {} /\ refused = {}
           /\ ~cancelled /\ CanFail("timeout")
           /\ CountFault(TRUE)
           /\ RemoveIds({device[d] : d \in done})
           /\ ghosts' = ghosts \cup done
           /\ UNCHANGED confirmed
        \/ /\ cancelled /\ refused = {}
           /\ UNCHANGED <<onDevice, hand, raced, confirmed, ghosts, faults>>
    /\ toDelete' = {}
    /\ phase' = "forget"
    /\ UNCHANGED <<netboxVars, storeVars, serial, directory, stage, full, snap,
                   plan, batchVars, cancelled, doubtful>>

\* Mutant: the mappings of deleted devices are kept.
MutantForget(d) ==
    /\ phase = "forget"
    /\ d \in confirmed
    /\ confirmed' = confirmed \ {d}
    /\ UNCHANGED <<netboxVars, storeVars, kentikVars, handVars, planVars,
                   batchVars, phase, cancelled, faults, lostVars>>

Forget(d) ==
    /\ phase = "forget"
    /\ d \in confirmed
    /\ confirmed' = confirmed \ {d}
    /\ \/ /\ ~cancelled
          /\ device' = [device EXCEPT ![d] = None]
          /\ UNCHANGED <<faults, ghosts>>
       \/ /\ cancelled \/ CanFail("store")
          /\ CountFault(~cancelled)
          /\ ghosts' = ghosts \cup {d}
          /\ UNCHANGED device
    /\ UNCHANGED <<netboxVars, mapping, marker, kentikVars, handVars, planVars,
                   batchVars, phase, cancelled, doubtful>>

EndRun ==
    /\ phase = "forget"
    /\ confirmed = {}
    /\ ResetRun
    /\ UNCHANGED <<netboxVars, storeVars, kentikVars, handVars, faults, lostVars>>

(***************************************************************************)
(* The process is killed, or told to stop (SIGTERM), during a run; it is   *)
(* started again later.                                                    *)
(***************************************************************************)
Crash ==
    /\ phase # "idle"
    /\ CanFail("crash")
    /\ CountFault(TRUE)
    /\ doubtful' = doubtful \cup applied
    /\ ghosts' = ghosts \cup (IF phase = "forget" THEN confirmed ELSE {})
    /\ ResetRun
    /\ UNCHANGED <<netboxVars, storeVars, kentikVars, handVars>>

Cancel ==
    /\ phase # "idle"
    /\ ~cancelled
    /\ CanFail("cancel")
    /\ CountFault(TRUE)
    /\ cancelled' = TRUE
    /\ UNCHANGED <<netboxVars, storeVars, kentikVars, handVars, planVars,
                   batchVars, phase, confirmed, lostVars>>

-----------------------------------------------------------------------------
(***************************************************************************)
(* Others: the agent for another source creates a label, and a person puts *)
(* a label on a device or takes it off.                                    *)
(***************************************************************************)
OthersCreateLabel(name) ==
    /\ name \notin directory
    /\ directory' = directory \cup {name}
    /\ UNCHANGED <<netboxVars, storeVars, onDevice, serial, handVars, planVars,
                   batchVars, phase, cancelled, faults, confirmed, lostVars>>

Toggle(labels, l) == IF l \in labels THEN labels \ {l} ELSE labels \cup {l}

Touch(id, l) ==
    /\ edits < MaxEdits
    /\ edits' = edits + 1
    /\ onDevice' = [onDevice EXCEPT ![id] = Toggle(@, l)]
    /\ hand' = [hand EXCEPT ![id] = IF l \in onDevice[id] THEN @ \ {l}
                                                         ELSE @ \cup {l}]
    /\ raced' = IF phase = "write" /\ Target(current) = id
                THEN raced \cup {<<id, l>>}
                ELSE raced \ {<<id, l>>}
    /\ UNCHANGED <<inv, gone, storeVars, serial, directory, planVars, batchVars,
                   phase, cancelled, faults, confirmed, lostVars>>

-----------------------------------------------------------------------------
AgentStep ==
    \/ \E seen \in SUBSET Present, lost \in BOOLEAN :
            \E refused \in SUBSET seen : CreateDevices(seen, refused, lost)
    \/ DevicesFail \/ CommitDevices
    \/ \E items \in SUBSET Present : FetchLabels(items)
    \/ LabelsFetchFails
    \/ EmptyBatch \/ ListLabels
    \/ \E name \in Managed : CreateLabel(name)
    \/ \E d \in Devices : \/ RecordDevice(d) \/ ReadLabels(d)
                          \/ SaveLabels(d) \/ Forget(d)
    \/ WriteLabels \/ RetryWrite \/ ApplyDone
    \/ EndBatch \/ CommitLabels
    \/ \E refused \in SUBSET toDelete : DeleteDevices(refused)
    \/ EndRun

Next ==
    \/ StartRun
    \/ AgentStep
    \/ \E t \in Types : MarkerAges(t)
    \/ Crash \/ Cancel
    \/ \E d \in Devices : EditDevice(d)
    \/ \E name \in Managed : OthersCreateLabel(name)
    \/ \E id \in DOMAIN onDevice, l \in Custom : Touch(id, l)

Spec == Init /\ [][Next]_vars

(***************************************************************************)
(* The scheduler starts runs, a run goes on, and intervals elapse.  Nobody *)
(* has to edit anything, and nothing has to fail.                          *)
(***************************************************************************)
Fairness ==
    /\ WF_vars(StartRun \/ AgentStep)
    /\ \A t \in Types : WF_vars(MarkerAges(t))

FairSpec == Spec /\ Fairness

-----------------------------------------------------------------------------
(***************************************************************************)
(* TypeOK: the type invariant.                                             *)
(***************************************************************************)
TypeOK ==
    /\ inv \in [Devices -> (SUBSET Managed) \cup {None}]
    /\ gone \subseteq Devices
    /\ edits \in 0..MaxEdits
    /\ device \in [Devices -> Ids \cup {None}]
    /\ mapping \in [Devices -> Mapping \cup {None}]
    /\ marker \in [Types -> {"fresh", "due"}]
    /\ DOMAIN onDevice \subseteq Ids
    /\ onDevice \in [DOMAIN onDevice -> SUBSET (Managed \cup Custom)]
    /\ serial \in [Devices -> Nat]
    /\ directory \subseteq Managed
    /\ hand \in [DOMAIN onDevice -> SUBSET Custom]
    /\ raced \subseteq (DOMAIN onDevice) \X Custom
    /\ phase \in Phases
    /\ stage \in Stages
    /\ full \in BOOLEAN
    /\ snap \in [Devices -> (SUBSET Managed) \cup {None}]
    /\ plan \in [Stages -> SUBSET Devices]
    /\ toDelete \subseteq Devices
    /\ ids \subseteq directory
    /\ current \in Devices \cup {None}
    /\ unmanaged \subseteq Custom
    /\ applied \subseteq Devices
    /\ confirmed \subseteq Devices
    /\ cancelled \in BOOLEAN
    /\ faults \in 0..MaxFaults
    /\ doubtful \subseteq Devices
    /\ ghosts \subseteq Devices

(***************************************************************************)
(* HandEditsKept: what people do to a device's own labels by hand survives *)
(* every run, with refusals, lost answers, retries, crashes and            *)
(* cancellations at any step; only an edit between the agent's read of     *)
(* that device and its last attempt to write can get lost                  *)
(* (destination/kentik/labels.go: currentLabelIDs, then                    *)
(* UpdateDeviceLabels).  It is about writes that Kentik executes before    *)
(* the call returns: one executed later undoes what people did until then. *)
(***************************************************************************)
HandEditsKept ==
    \A id \in DOMAIN onDevice, l \in Custom :
        <<id, l>> \in raced \/ (l \in onDevice[id] <=> l \in hand[id])

(***************************************************************************)
(* TruthfulLabels: between runs a device whose label mapping is in the     *)
(* store carries exactly the managed labels that were hashed, even when    *)
(* calls were refused; the exception is a device that was written to by a  *)
(* call that timed out, or without the store being updated after the batch *)
(* (sync/labels.go, runDeviceLabels).  Here too a write is executed before *)
(* its call returns, or not at all.                                        *)
(***************************************************************************)
TruthfulLabels ==
    \A d \in Devices :
        /\ phase = "idle"
        /\ mapping[d] # None
        /\ Live(mapping[d].id)
        /\ d \notin doubtful
        => onDevice[mapping[d].id] \cap Managed = mapping[d].labels

(***************************************************************************)
(* MappedDevicesLive: between runs every device that the store has an ID of*)
(* exists in Kentik under that ID, whatever fetches missed and wherever    *)
(* creates, deletes and their records were cut off; the exception is a     *)
(* ghost, whose deletion went through while its answer or the removal of   *)
(* its mapping was lost (sync/devices.go, deleteDevices).                  *)
(***************************************************************************)
MappedDevicesLive ==
    \A d \in Devices \ ghosts :
        phase = "idle" /\ device[d] # None => Live(device[d])

(***************************************************************************)
(* LabelsConverge: once NetBox and the faults have settled, every device   *)
(* of NetBox exists in Kentik, under the ID in the store, and carries      *)
(* exactly its managed labels, although one label that cannot be created   *)
(* fails its whole batch, and a failed fetch skips the labels.  What is    *)
(* left otherwise for good is:                                             *)
(*  - a ghost: a fetch missed the device, Kentik deleted it, and the       *)
(*    answer, or the removal of its mapping, was lost (sync/devices.go:93);*)
(*    it is taken for known and not created again;                         *)
(*  - a device whose labels are hidden: NetBox asks for the labels that    *)
(*    the store has a hash of, so that nothing is done, while a write was  *)
(*    lost since then, or they were written to a former Kentik device.     *)
(***************************************************************************)
Hidden ==
    {d \in Present : /\ mapping[d] # None
                     /\ mapping[d].labels = inv[d]
                     /\ d \in doubtful \/ mapping[d].id # device[d]}

LabelsConverge ==
    <>[](\A d \in Present \ ghosts :
            /\ Live(device[d])
            /\ d \in Hidden \/ onDevice[device[d]] \cap Managed = inv[d])

=============================================================================
