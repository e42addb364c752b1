# kentik_sync_agent in TLA+

The agent mirrors an inventory kept in NetBox (sites, devices, IP prefixes) into
Kentik. It polls, compares what it fetched with a local store of what it has
created before, and issues creates, updates and deletes. Kentik has no field for
a foreign ID, so the store is the only record of which Kentik object belongs to
which NetBox item: most of what can go wrong is a step that makes the store, Kentik
and NetBox disagree for good.

This directory holds models of that logic, the TLC runs that check them on small
instances, and TLAPS proofs for instances of every size.

## Inventory

| component | code | state | operations |
|---|---|---|---|
| Sync engine | `internal/sync/engine.go`, `reconcile.go`, `sites.go`, `devices.go`, `hash.go` | one run: fetched items, plan, results; lost in a crash | `RunJob`: per type fetch, `diff`, apply, `commitRun`; deferred deletes |
| IP groups | `internal/sync/ipgroups.go`, `ipgroup_dimension.go` | one run: a plan per Custom Dimension, migrations | `runIPGroups`, `ResolveTargets`, `filterMostSpecific` |
| Device labels | `internal/sync/labels.go`, `internal/destination/kentik/labels.go` | one run: fetched labels, plan; label names resolved for a batch | `runDeviceLabels`, `deleteDeviceLabels`: `Apply` and `Clear`, each a read of a device's labels, a merge, a write |
| Kentik client | `internal/destination/kentik/retry.go`, `client.go` | limiter shared by all sources | `call`: limiter, attempt with timeout, backoff, retry |
| Kentik appliers | `internal/destination/kentik/sites.go`, `devices.go`, `populators.go` | none | create, update and delete, singly or in batches |
| State store | `internal/state/store.go`, `sqlite.go`, `memory.go` | mappings, cursors, full-reconcile markers; durable | upsert, delete, list |
| NetBox source | `internal/source/netbox/*` | one fetch: offset, pages read | paged listing, changed-since filter, proposal of a cursor |
| Scheduler, process | `internal/scheduler/scheduler.go`, `cmd/kentik-sync-agent/main.go` | one loop and one ticker per source; the store, open or closed | open and migrate the store, run, wait, cancel on SIGTERM, `--once` |
| Configuration, plugins, metrics, logging | `internal/config`, `internal/source/plugin.go`, `internal/observability` | fixed after start | none that the others depend on |

The scheduler calls `RunJob`, which calls the source, the store and the appliers
in turn, within one goroutine per source. Sources share the limiter and the
database connection and nothing else: every row is keyed by source. What runs
concurrently with a run is therefore not another run of the same source but
*people editing NetBox and the labels in Kentik*, *Kentik serving requests the client has given up on*, and
*the process dying or being told to stop*.

What is hard, and what makes each part correct:

* **Engine.** A run is a long sequence of remote calls and local writes without a
  transaction. Any of them can fail, and edits fall in between. It should delete
  only what is gone, lose no change unreported, keep the store equal to what is in
  Kentik, never leave a device at a deleted site, and converge.
* **IP groups.** A dimension refuses overlaps, groups move between dimensions and
  split in two, and an incremental run must compare what it fetched with ranges
  recorded earlier. A move must never lose the group, a removal must have a cause,
  and each dimension must come to hold the most specific ranges.
* **Containment filter.** The pair loop skips candidates already dropped; the
  result should not depend on the order, which comes from Go maps.
* **Labels.** Kentik replaces all labels of a device at once, so what people attach
  by hand passes through the agent. It should survive, the hash in the store should be that
  of the labels the device shows, and the labels should come to be those of NetBox.
* **Listing.** Pages are counted from the start of a list that changes meanwhile, and
  a cursor has one second's resolution. A fetch should return what was there all the time, and no
  edit should fall between two cursors.
* **Process.** The sources share one database connection, and a start can be cut off in
  the migration. No run should meet a store that is closed or half migrated, none should hold up
  another source's for ever, and the process should stop when told.
* **Client.** A retried request may have been executed. An answer should be exact unless an attempt
  went unanswered, and the loop should always return.

`PROJECT.json` lists the hazards one by one, each at its line.

## Plan

The order follows how much damage a mistake does.

1. `SyncEngine`, the core: sites and devices, store, faults. **Done**; all its safety properties but the one
   that does not hold are proved.
2. `CallContract` and `KentikCall`: what a call promises, and the retry loop that
   implements it. **Done**, with proofs of the refinement and of what an answer is worth.
3. `Containment` and `FilterMostSpecific`: the filter. **Done**, proved.
4. `IPGroupRouting` and `IPGroupSync`: routing, migration, apply, on top of `Containment`. **Done**; all its safety
   properties are proved.
5. `LabelSync`: read, merge and write of a device's labels against a person who
   edits them; `Apply` and `Clear`. **Done**, safety proved.
6. `FetchContract` and `NetBoxListing`: what a fetch promises, and pages by offset over a table
   that changes. **Done**, with proofs of the refinement and of the other properties.
7. `Agent`: migration, several run loops over one connection, shutdown. **Done**, safety proved.
8. Left for later: a `SyncEngine` whose fetch is `FetchContract`, so that duplicates reach `diff`, and a dimension without an
   applier in `IPGroupSync`.

## Modules

`SyncEngine` composes NetBox, the store, Kentik and one run of one source.
`IPGroupSync` is the same composition for IP groups, which the code also handles in
a function of its own; it extends `IPGroupRouting` and instantiates `Containment` for the filter, and
`FilterMostSpecificProofs` shows that the code's loop computes `MostSpecific` of that module.
`LabelSync` composes the labels of devices with people who edit them, and with the creation of
devices before the labels and their deletion after them, of which it keeps one batch each and the store writes.
`KentikCall` implements `CallContract`, which lists the outcomes that a call in
these modules has, and `NetBoxListing` implements `FetchContract`, which says what their
`EndFetch` may return. `Agent` runs the whole for several sources; of a run it keeps only what
uses the shared connection.

### SyncEngine

| state | code |
|---|---|
| `inv`, `updated`, `clock` | NetBox: items, `last_updated`, time in seconds |
| `mapping`, `cursor`, `marker` | rows of the SQLite tables; `marker` is the age class of the full-reconcile marker |
| `objects`, `serial` | objects in Kentik; IDs are named after the create that made them |
| `phase`, `obj`, `full`, `since`, `fetchStart`, `snap` | where `RunJob` is and what it fetched |
| `toCreate`, `toUpdate`, `toDelete` | the `plan` of `diff`, minus what was sent |
| `created`, `confirmed`, `deleted` | answers of the appliers not yet saved |
| `failures` | items whose last attempt was added to `ObjectResult.Errors` |

The actions follow `RunJob`: `StartRun`; per type `BeginFetch` (`resolveSince`, start of
the fetch), `EndFetch` or `FetchFails`, then the creates, one `SaveCreated` per mapping
write, the updates, `SaveUpdated`, `CommitCursor`, `CommitMarker`; at the end the
device deletes and their `Forget`s, the site deletes and theirs, and `EndRun`. Every RPC
and every store write is an action, so `Crash`, `Cancel` and an edit can fall between
any two. A crash loses the run and keeps store and Kentik; a cancellation makes each
later call and write fail, as the code passes one context to all of them.

An RPC ends in one of these ways (`CallOutcomes`): executed and confirmed; refused; executed
one or two times and then failed or confirmed (a timeout and its retry). Two
stands for any number up to `MaxAttempts`: what the store can know does not differ
between two and more. A request that is executed only after the call
has returned is in `KentikCall` alone. Device batches may be refused in part. Kentik is taken to allow
the deletion of a site that devices refer to; the code assumes neither that nor the
opposite.

### KentikCall, CallContract

One action per point at which `call` can be held up: limiter, attempt, answer or the lack of
one, backoff, cancellation. `Serve` is Kentik, which may serve a request that the client has given up. The
contract says that an answer is exact as long as every attempt was answered, and that
otherwise the call is *in doubt* and may be executed up to once per attempt, even
later. `ContractSpec` is the refinement, with `Told` and `Times` as the mapping. `AnswersExact` states in terms of the requests what
callers rely on, and adds that an exact answer leaves no request on its way.

### Containment, FilterMostSpecific

`Containment` has the order between overlapping ranges and `MostSpecific`, the
candidates that no other beats. `FilterMostSpecific` is the pair loop, one comparison per
step, over any list of candidates.

### IPGroupRouting, IPGroupSync

`IPGroupRouting` is `resolveSide`: the route of a tenant in a VRF, else that of the tenant, else the default,
for each traffic side. A member of `Tenants` is a tenant with a VRF.

A *half* is what has a mapping row: a group, or one side of a group whose two sides go to
different dimensions (`externalID + ":src"`). The operators `Fresh`, `Moving`, `Changed`,
`Gone`, `InPlay`, `Standing`, `KeptInPlay`, `Outdone` are the loops of `runIPGroups` before
the first call; `Plan` assembles them. `Filtered` is what survives in a dimension: `MostSpecific` of the prefixes, and every IP range that is no
prefix (`Spans`), which the code compares with nothing. Then `OpenBucket` chooses a dimension (a Go map
has no order), the creates, updates and deletes of it are sent and saved, and
`CloseBucket` ends it; `CleanUp` removes old populators of migrations; `CommitRun` is
`commitRun`, its two writes merged because nothing lies between them that another
action could observe, except the failure of the second, which is an outcome of its own. `superseded` are
the halves that the filter logged as dropped. Calls are executed, refused (always, when
Kentik has a reason), or executed with the answer lost. A retry of such a create is refused
for the overlap with itself and a retry of such a delete for the missing ID, so
"executed, reported as failed" is what the caller sees of it.

Kentik's IDs are never reused. To keep the state finite, an ID that neither an object nor
a mapping nor the run refers to counts as new again; `MaxIds` bounds those in use at a time, and
TLC would report a deadlock if it were too small.

### LabelSync

| state | code |
|---|---|
| `inv`, `gone` | NetBox: the labels that `BuildDeviceLabels` derives for a device; devices removed |
| `device`, `mapping`, `marker` | rows of the store: the device's, the label mapping with its hash, the markers |
| `onDevice`, `directory` | Kentik: labels of each live device; managed labels that exist |
| `hand`, `raced` | history: what people last wanted of each custom label; edits that fell between a read and its write |
| `plan`, `stage`, `toDelete` | the batches of `runDeviceLabels` (create, update) and `deleteDeviceLabels` (clear); the deletes of devices |
| `ids`, `current`, `unmanaged`, `applied` | inside `Apply`: resolved names, the device between `currentLabelIDs` and `UpdateDeviceLabels`, devices done |
| `confirmed` | devices whose creation, or deletion, Kentik confirmed and whose mapping is still to be written, or deleted |
| `doubtful`, `ghosts` | history: devices written to, and devices deleted, without the store knowing |

A run is `CreateDevices` with a `RecordDevice` per confirmed device and `CommitDevices` (or `DevicesFail`),
`FetchLabels` (or `LabelsFetchFails`), then for each
batch `ListLabels`, one `CreateLabel` per missing name, per device `ReadLabels` and `WriteLabels`,
one `SaveLabels` per mapping, `EndBatch` (or just `EmptyBatch` when there is nothing to do); `CommitLabels` lies between the updates and the clears. Last come `DeleteDevices`,
one `Forget` per confirmed deletion, and `EndRun`. Kentik may refuse part of a batch of devices, and refuses to delete what it does
not have; the answer to a batch may be lost after its execution; a mapping may fail to be written; and `Crash` and `Cancel` fall
between any two of these.
`RetryWrite` is an attempt that was executed and not answered, before the next one. `Touch` is a person
who puts a label on a device or takes it off in Kentik, at any time, also between read and write.
Only labels that are not managed are touched: what a person does to managed ones is discussed below.
A request is executed before its call returns or not at all. `KentikCall` also allows that it is executed later; such a write
would undo whatever happened to the labels in between, and `HandEditsKept`, `TruthfulLabels` and `LabelsConverge` say nothing about it.

### FetchContract, NetBoxListing

`NetBoxListing` lists up to two endpoints (IP groups come from prefixes and ranges) page by
page. `Insert`, `Delete`, `Modify` and `Rename` can fall between any two pages; a `Rename` moves an
item in NetBox's order. `NextPage`, `NextEndpoint` and `Finish` are iterations of `listAll`, with its page limit;
`Fail` a request that fails or a run that is cancelled or killed. `Finish` also stores the cursor, or not,
when the run is cut off. NetBox's order is `ahead`, which has the items listed before each item of its endpoint; an item's
place in the list, against which `offset` counts, is the number of those among them that match the request. So an edit shifts
other items without touching them, and nothing depends on how the order is stored. `slips`, `inserts` and `beyond` count what may
shift a page or lies beyond the limit, `repeats` the items that came again. `FetchContract` has only the set of matching items: a
fetch returns what matched at some time, and misses nothing that matched all the time, but for
one item per removal or move, unless it says that it was truncated.

### Agent

| state | code |
|---|---|
| `columns`, `todo` | columns of the table in the file; those `migrateMappingsTable` still has to add |
| `process`, `once`, `cancelled` | where `runCmd` is, `--once`, the signal context |
| `store`, `conn` | the `*sql.DB`, with `SetMaxOpenConns(1)` |
| `loop`, `tick` | each source's `runLoop` and the channel of its ticker |

`Open`, `AddColumn` and `KilledAtStart` are the start, which can be cut off after any statement and is repeated. `Start`
begins the loops, `TakeTurn` the next source of `--once`. A run fetches, waits for the
connection (`Acquire`), reads and closes its rows (`Listed`), may call Kentik (`CallReturned`), writes (`Stored`) and reports metrics. `select`
is `NextRun` and `LeaveLoop`, both enabled when a tick waits and the context has ended.

## Runs

| run | instance | shows |
|---|---|---|
| `engine_faults` | 1 site, 1 device, a source that reports deletions, 3 edits, 1 fault of any kind but a truncated fetch | types; no change before the cursor is lost unreported; deletes only what is gone |
| `engine_bookkeeping` | 2 sites, 2 devices, full runs, 3 edits, 1 refusal of a call or of part of a batch | mappings lead to their own objects; store equals Kentik between runs; recorded hashes are true; a device left without its site was reported |
| `engine_converges` | 1 site, 1 device, 2 edits, failed fetch or refusal; fairness | Kentik comes to hold exactly the inventory; store and hashes through incremental runs |
| `find_site_before_device` | 2 sites, 1 device, 3 edits, no fault | a documented property that does not hold, see below |
| `call_contract` | 2 calls, 2 attempts, burst 1; fairness | the retry loop implements the contract; its answers are exact unless an attempt went unanswered; every call returns, even if Kentik never answers |
| `filter_most_specific` | all lists of up to 4 out of 7 prefixes | the loop leaves the most specific, in any order, and drops none but for one that stays |
| `ipgroups_bookkeeping` | 1 group, 2 prefixes, 3 tenants on default, VRF and one-sided routes, 3 edits, no faults | store equals Kentik between runs through splits and moves; removals have a cause |
| `ipgroups_faults` | 2 groups, 2 nested ranges, 2 dimensions, 1 edit, 1 fault of any kind | no change before the cursor is lost unreported; a failed move keeps the old populator |
| `ipgroups_converges` | 2 groups, 2 nested prefixes and a range within the wider one, 2 additions or removals; fairness | the dimension comes to hold the most specific prefixes and the ranges; what overlaps a live one was reported |
| `label_sync` | 1 device, 1 managed and 1 custom label, 2 edits in NetBox or by hand, 2 faults of any of 7 kinds; fairness | edits by hand survive; recorded labels are those shown; recorded devices exist; the labels come to be those of NetBox |
| `netbox_listing` | 3 items on 2 endpoints, pages of 1, 2 pages at most, 2 ticks per second, 2 edits | the listing implements `FetchContract`; no edit falls between two cursors; nothing comes twice without an insertion |
| `agent` | 2 sources, one of them perhaps endless, 2 columns to add; fairness | no run meets a store that is closed or lacks a column; SIGTERM stops the process; `--once` ends; a slow source does not hold up another |

Why these bounds are enough to see something: every hazard needs at most two items (a
site and its device, two ranges that overlap, two devices of a batch), one fault, and two or
three edits around it; the clock needs one second before, one at and one after
a cursor. Runs repeat without bound, so what a fault leaves behind meets later full
and incremental runs. Faults and edits are bounded by `MaxFaults` and `MaxChanges` (`MaxEdits` in `LabelSync`), time by
`MaxClock`.

`label_sync` needs one device only, because nothing but the resolved names joins the devices of a batch; two edits
make a device's labels change and change back, or change while a person edits them;
with two devices and one fault it passes as well, in 1.9 million states. `netbox_listing` has three
items because a shift takes two on different pages, and a third on the other endpoint or behind
the page limit. `agent` with three sources is within reach for its safety properties only.

`call_contract` and `agent` set `CHECK_DEADLOCK FALSE`: the calls are finitely many, and when all
have returned nothing is left to do; and a process that has stopped does nothing more. Symmetry is used in safety runs only.

### A disagreement with the documentation

`find_site_before_device` violates, without any fault, what the comment at `engine.go:156` states: "a
device is never left referencing a deleted site". A full pass deletes a site while devices, whose
marker is not yet due, still refer to it. `DanglingReported` is what holds
instead.

`docs/plugins.md:193` names the steps of a migration between dimensions as "delete-old/create-new". The code creates first, as
`MoveCreatesFirst` states.

### Where the properties stop holding

The conditions of the passing runs and of the theorems are needed. Changing a constant
of a run makes TLC show what happens without them:

* `StoreMatchesKentik` with `Faults` `{"crash"}`, `{"cancel"}` or `{"store"}`: a create that was
  confirmed and not recorded leaves an object the store does not know (SIGTERM cancels
  the context of the store writes too). With `{"timeout"}`: a create that was executed and not
  answered is sent again, and there are two objects.
* `StoreMatchesKentik` and `MappingOwnsObject` when `NameOf` gives two devices one name: batch
  answers are matched by name.
* `TruthfulHash` with `{"crash"}`, `{"cancel"}`, `{"store"}` or `{"timeout"}`: an update applied and not recorded. If an edit then restores the
  former content, later full passes find equal hashes and leave the object alone.
* `DanglingReported` with `{"fetch"}`: when the fetch of devices fails, the sites that the same run found gone are deleted all the
  same, and nobody reports the devices, which were not looked at. The same with `{"truncate"}`, when the device lies beyond the
  limit, and with `Incremental` `TRUE`, when it is not in the fetch because it has not changed lately.
* `DeletesOnlyGone` and `NoSilentLoss` with `{"truncate"}`: nothing reads `FetchResult.Truncated`, and a full run
  deletes what lies beyond `maxPages`.
* `DroppedForAnother` for lists with repetitions, as pages of a changing table produce them: a
  group ties with itself and is dropped.
* `StoreMatchesPopulators` with `{"reject"}`: when the clean-up of a migration fails the old populator stays
  and nothing remembers it.
* `Converges` of `IPGroupSync` with `{"timeout"}`: a populator created and not recorded blocks
  its own group's create in every later run, because the two overlap.
* `Converges` of `IPGroupSync` with `Edits` `{"change"}`, `MaxChanges` 1, `Direction` `"src"`: a synced group
  that is edited and then loses the filtering is neither updated nor deleted, ever (`ipgroups.go:199`); it shows its
  old range, which may block another one.
* `Converges` of `IPGroupSync` without its exception. An IP range within a live prefix (or the reverse) is refused in
  every full run: the filter keeps both (`ipgroup_dimension.go:120`), and Kentik takes the first.
* `NothingOverdue` with `MaxBehind` 1: an edit that becomes visible with a stamp behind the agent's clock is older
  than the cursor when it can first be seen. Only a full run finds it.
* `RepeatsExplained` has no counterpart for insertions: an item that a shift returns twice is in `FetchResult` twice, and
  `diff` would create it twice. `SyncEngine` takes a fetch to be a set.
* `MappedDevicesLive` and `LabelsConverge` without `ghosts`. A fetch misses a device that exists (`"miss"`), Kentik deletes it, and the answer is
  lost (`"timeout"`), `DeleteMapping` fails (`"store"`, `"cancel"`) or the process dies before it (`"crash"`). The
  mapping names a device that is gone. Later full runs fetch the device, find the mapping and an equal hash and neither create nor delete it; every write of
  its labels fails.
* `LabelsConverge` without `Hidden`. A device that a fetch missed once (`"miss"`) is deleted and created again in
  Kentik; its label mapping is kept, and while NetBox asks for the labels it has the hash of, the new device gets none. And
  after a timeout, a crash or a store error the device shows labels that the store does not know; when
  NetBox goes back to those recorded, the hashes are equal and the wrong labels stay. In both cases the next
  edit of its labels in NetBox mends it, and the property says so.
* `OnceEnds` with a slow source: `runOnce` waits for it. NetBox's own HTTP client gives up on each request, so that this stands for
  another plug-in.

Four more facts that no property states, because the code leaves it so:

* Creates precede deletes within a dimension (`ipgroups.go:256`). A range that wins over a live one, being longer or first in the
  tie-break, is refused while the live one is there, and that one is deleted next: until a later full run
  no populator covers the range. `Converges` is about the end of this, not about the gap.
* When a device was deleted in a run in which its labels were not cleared (each type has its own marker), `Clear` addresses a device
  that is gone: it fails in every full run, and the label mapping stays for ever.
* A person who takes a *managed* label off a device, or puts one on, is not noticed: the hash is compared with NetBox's
  labels and not with Kentik's (`docs/plugins.md:130` asks only that the others be left alone).
* A row may name a dimension that has no applier any more, because the configuration was edited between two processes, or none,
  because the row is older than the column. The clean-up of the move out of it is skipped without a report (`ipgroups.go:325`), and the old populator
  stays unknown to the store. Routes are constants of the model, and the theorems are about rows it has written itself.

A migration that failed is not retried in the next run when that one is incremental
(the comment at `ipgroups.go:316` says it is), since `commitRun` has moved the cursor past the group; the next full
run retries it.

## Fairness

* Engine and IP groups: weak fairness of the agent's steps as a whole, since the
  scheduler starts a run at every tick until it is stopped and a run is sequential
  code whose calls return (`EveryCallReturns`); and of the ageing of markers and the
  passing of time. None for edits, faults or cancellations.
* Calls: weak fairness of timers and of the refill; strong fairness of `Send`, because a
  waiter of `rate.Limiter` holds a reservation with a time of its own and cannot be overtaken
  for ever. None for Kentik, which may never answer.

* Labels: the same, with the start of runs apart.
* Process: strong fairness of `Acquire`, because the connection goes to one of those who wait at random, so that none is passed over for ever; of `LeaveLoop`, because `select` chooses at random
  among what is ready and so does not pass over the end of the context for ever; of `TakeTurn`, `Start` and `AddColumn`, so that a start which
  is repeated is not cut off for ever. None for the signal, and none for the fetch of a slow source.
* The listing states no liveness and no fairness.

## Proofs

Proved for every value of the constants that satisfies the named assumptions:

* `SyncEngineProofs`. `TypeCorrect`: the types, by `TypeInv`, which adds `PlanOK`: what is
  planned for creation was fetched, what is planned for update or deletion is mapped, and each
  plan belongs to the current type and phase. Without it `mapping[e].id` has no type.
  `Ownership`: a mapping leads to the object created for its own item, if
  device names are distinct.
  `DeletesOnlyGoneHolds`, if moreover no fetch is truncated: the invariant `GoneInv` says
  that a mapped or fetched item exists or existed, so that in a full fetch what is mapped and not fetched
  is gone, and that what is gone stays so because NetBox does not reuse IDs.
  `NoSilentLossHolds`: `LossInv` relates the cursor to the start of the fetch, and
  says that during the apply phase an item that has not changed since that start is fetched as
  it is now, and is synced, reported as failed, or pending in the plan.
* `SyncEngineStoreProofs`, on top of it. `StoreMatchesKentikHolds` and `TruthfulHashHolds`, if device names are distinct and
  `AnswersArrive`: fetches may fail or fall short and Kentik may refuse, but no call is cut off between its execution and the
  write that records it (no timeout, no store error, no cancellation, no crash). Neither property is inductive, because
  both speak of the time between runs only. `Linked` says of every moment where an object in Kentik is known: by
  a mapping not yet deleted, or by a create that was confirmed and waits for its row. `Backed` is the reverse for a mapping,
  but for those whose delete was confirmed; `Unmapped`, that no item waiting for its row has one already; `Truthful`, that recorded hash
  and content agree but for updates that were confirmed and wait for the write.
  `DanglingReportedHolds`, if moreover `FullRuns`: every run is full and every fetch succeeds (with incremental runs it is false: the
  device that refers to a deleted site may not be in the fetch). `SiteInv` follows a run: while the devices are applied, nothing that is about to be sent refers to a site
  about to be deleted (`PlanIsSound`), because NetBox keeps no device without its site and sites were fetched first; a device in Kentik that still
  refers to one is planned for update or deletion, or failed (`ReferrersPlanned`); and what was just sent refers to a live
  site (`SentIsSound`).
* `NetBoxListingProofs`, for any number of items, endpoints, pages and ticks. `TypeCorrect`: among the types, that `truncated` is set
  exactly when items lay beyond the limit and that the cursor is a whole second not in the future.
  The rest hangs on two sets. `Missed` has the items that matched all the time, were not
  read and are behind the offset; `Again`, those that were read and are ahead of it once more. `Explained` bounds the first
  by `slips + beyond` and the second, with `repeats`, by `inserts`. An edit keeps these bounds since it shifts an item
  by one place at most, and only when the edited item leaves or enters the list before it (`Shift`); since no two items have
  the same place (`PlaceUnique`), only one can cross the offset, and it does so only
  when the edited item does not (`EditMissesOne`, `EditRepeatsOne`). `RepeatsAreExplained` is immediate from it,
  and `ListingKeepsContract` maps the steps to those of `FetchContract`: what a fetch leaves out is in `Missed` or unread.
  `NothingIsOverdue` assumes `StampsInTime` (`MaxBehind = 0`) and adds `Undisturbed`: an item stamped before the fetch began has
  not changed since, so that it was matching all the time if it ever was, and what was read of it is current.
* `KentikCallProofs`. `AnswersAreExact` is what the engines build on: their
  `CallOutcomes` tell a call that was answered from one in doubt, and of the former they take "ok" for executed once and
  "failed" for not executed. `CallTypeCorrect` and `CallKeepsContract`: `CallInv` says that requests
  and answers of attempt *n* exist only once it was made, that no request is both in
  transit and answered, and that a call without doubt has executed at most its current attempt. Steps
  are then mapped to steps of the contract or to stuttering.
* `FilterMostSpecificProofs`. `FilterCorrect`: for lists of any length without repetitions;
  the invariant says that what is dropped is beaten, and that of two compared candidates the
  beaten one is dropped. `DropsOnlyForAnother`: a dropped candidate overlaps one that stays; by
  well-founded induction on the rank of a candidate. `MostSpecificDisjoint`: the result never overlaps, so
  Kentik has no reason to refuse it. `FilterTypeCorrect`: the loop stays within the list.
* `IPGroupSyncProofs`, for any groups, ranges, routes and direction. The order of the filter stays
  opaque: that what `Plan` keeps is a subset is all that is used. First `Effect` states for each action what it changes,
  whichever way its call goes; the invariants are then proved from these effects.
  `IPGroupsTypeCorrect` needs `PlanInv`: no half is in two batches, and what is updated or removed has a row.
  `MoveCreatesFirstHolds` needs `MoveInv`: IDs belong to one half for ever, and as long as the old populator of a half is remembered, the new one is to be created,
  waits for its row, or is recorded and live. `DeletesJustifiedHolds` needs `DropInv`: what is to be removed has its cause, or
  was edited since the fetch began; `TimeInv` orders cursor, start and clock. `IPGroupsNoSilentLoss` needs `CoveredInv`:
  what was fetched and has not changed since is recorded, planned, reported or superseded.
  `StoreMatchesPopulatorsHolds`, when only fetches may fail: `MatchInv` accounts for every populator in Kentik, as that of a row, as one created and not yet
  recorded, or as the old one of a move; `MatchAt` reduces a step to the half that it concerns.
* `LabelSyncProofs`. `LabelsTypeCorrect`, with `PlanInv`: what is labelled was fetched, what is cleared is mapped, and
  between batches nothing waits for the store. `HandEditsKeptHolds`, with `ReadInv`: between read and
  write what was read is what is there, but for the labels in `raced`. `TruthfulLabelsHolds`, with `IdInv` (a mapping names an object of its own
  device) and `TruthInv`, which says of each point of a batch which labels a device shows. `MappedDevicesLiveHolds`, with `LiveInv`: a device
  waiting for its row is live, and one that is mapped is live, about to be forgotten, or a ghost.
* `AgentProofs`. `AgentTypeCorrect` and `StoreReadyHolds`, from `ServingInv`: the process serves only with the whole table, and
  loops run only while it serves.

Only model-checked: all liveness (`Converges` of two modules, `LabelsConverge`, `EveryCallReturns`, `StopsWhenTold`, `OnceEnds`,
`OthersGoOn`), which is beyond the prover together with `ENABLED`. The safety and action properties of the passing runs all have a
theorem. `SiteOutlivesDevices` does not hold, and has none.

Each fault that `AnswersArrive` and `FullRuns` exclude does break the properties they are assumed for, as TLC shows when a run is
given that fault; see "Where the properties stop holding".

## Not modelled

Dry runs, which change nothing. `--once` that is killed by a signal: no handler is installed, so it is a crash
of the run. The in-memory store, which only dry runs and tests use. The registry of plug-ins. YAML configuration, whose choices are constants. SQL
statements, which are taken to be atomic. The text of metrics and log lines. Fields
of an object beyond one attribute, its site, and for IP groups range, label and tenant; of a device's labels, which
tenant or role they come from. Managed labels that people edit by hand. In `IPGroupSync` also: a
missing applier, that is, routes that change between two processes; and truncated fetches, whose effect on sites and devices is described above.
