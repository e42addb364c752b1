---------------------------- MODULE NetBoxListing ----------------------------
(***************************************************************************)
(* One fetch after another of one object type from NetBox                  *)
(* (internal/source/netbox: listAll of client.go, FetchSites, FetchDevices,*)
(* FetchIPGroups), while people edit NetBox between any two pages.         *)
(*                                                                         *)
(* NetBox lists an endpoint in its own order (by name, by address) and in  *)
(* pages that are counted from the start of the list, so that an item which*)
(* is removed or inserted shifts those after it.  An incremental fetch asks*)
(* for what was last updated at or after a cursor, which is the agent's    *)
(* clock when the former fetch began, cut to the second.                   *)
(***************************************************************************)
EXTENDS Naturals, FiniteSets

CONSTANTS
    Items,          \* IDs of NetBox objects
    Endpoints,      \* number of endpoints listed: 2 for prefixes and ranges
    PageSize,       \* cfg.pageSize()
    MaxPages,       \* maxPages
    Second,         \* ticks of the clock per second
    MaxBehind,      \* how far NetBox's stamps may be behind the agent's clock
    MaxClock,       \* bound on the clock
    MaxEdits        \* bound on the number of edits in NetBox

ASSUME NetBoxListingAssumption ==
    /\ IsFiniteSet(Items)
    /\ Endpoints \in Nat \ {0} /\ PageSize \in Nat \ {0}
    /\ MaxPages \in Nat \ {0} /\ Second \in Nat \ {0}
    /\ MaxBehind \in Nat /\ MaxClock \in Nat /\ MaxEdits \in Nat

VARIABLES
    \* NetBox
    at,         \* at[x]: the endpoint that x is in, 0 when it does not exist
    ahead,      \* ahead[x]: the items that NetBox lists before x
    stamp,      \* stamp[x]: last_updated
    now,        \* the agent's clock; stamps are taken from it
    edits,      \* number of edits so far, bounded by MaxEdits
    \* Engine
    cursor,     \* the stored cursor, 0 when there is none
    seen,       \* the items the engine was given in their current contents
    \* Fetch
    endpoint,   \* the endpoint being listed, 0 when no fetch is running
    since,      \* the cursor that it asks with, 0 in a full fetch
    start,      \* fetchStart
    offset,     \* of the next page
    page,       \* number of pages read from this endpoint
    got,        \* the items so far
    repeats,    \* how many of them came again
    fresh,      \* those of them that were not edited since they were read
    truncated,  \* some endpoint reached the page limit
    \* History of the fetch, for the properties
    steady,     \* items that have matched since the fetch began
    ever,       \* items that matched at some time since the fetch began
    slips,      \* matching items removed or moved during the fetch
    inserts,    \* items that came to match, or moved, during the fetch
    beyond,     \* items left unread at the page limit
    \* History of all fetches
    result,     \* what the last fetch returned, if it succeeded
    slack       \* items that may have been missed since a full fetch

netboxVars  == <<at, ahead, stamp, now, edits>>
engineVars  == <<cursor, seen>>
fetchVars   == <<endpoint, since, start, offset, page, got, repeats, fresh,
                 truncated>>
historyVars == <<steady, ever, slips, inserts, beyond>>
pastVars    == <<result, slack>>
vars == <<netboxVars, engineVars, fetchVars, historyVars, pastVars>>

-----------------------------------------------------------------------------
At(e) == {x \in Items : at[x] = e}

Present == {x \in Items : at[x] # 0}

(***************************************************************************)
(* NetBox lists each endpoint in a total order.                            *)
(***************************************************************************)
Ordered ==
    /\ \A x \in Items : ahead[x] \subseteq At(at[x]) \ {x}
    /\ \A x \in Items \ Present : ahead[x] = {}
    /\ \A x, y \in Present :
          x # y /\ at[x] = at[y] => (x \in ahead[y] <=> y \notin ahead[x])
    /\ \A x \in Items : \A y \in ahead[x] : ahead[y] \subseteq ahead[x]

Running == endpoint # 0

(***************************************************************************)
(* sinceQuery: last_updated__gte, or no condition.                         *)
(***************************************************************************)
\* Mutant: last_updated__gt.
MutantAsked(st, s) == s = 0 \/ st > s

Asked(st, s) == s = 0 \/ st >= s

Matching == {x \in Present : Asked(stamp[x], since)}

Listing(e) == Matching \cap At(e)

(***************************************************************************)
(* The place of an item in the list of its endpoint, counted from 0.       *)
(***************************************************************************)
Place(x) == Cardinality(ahead[x] \cap Matching)

Nothing == [truncated |-> FALSE, items |-> {}]

Init ==
    /\ at \in [Items -> 0..Endpoints]
    /\ ahead \in [Items -> SUBSET Items]
    /\ Ordered
    /\ stamp = [x \in Items |-> 0]
    /\ now = Second
    /\ edits = 0
    /\ cursor = 0
    /\ seen = {}
    /\ endpoint = 0
    /\ since = 0
    /\ start = 0
    /\ offset = 0
    /\ page = 0
    /\ got = {}
    /\ repeats = 0
    /\ fresh = {}
    /\ truncated = FALSE
    /\ steady = {}
    /\ ever = {}
    /\ slips = 0
    /\ inserts = 0
    /\ beyond = 0
    /\ result = Nothing
    /\ slack = 0

-----------------------------------------------------------------------------
(***************************************************************************)
(* NetBox.  Every edit but a removal sets last_updated; it may become      *)
(* visible when the agent's clock has moved on by up to MaxBehind.         *)
(***************************************************************************)
Tick ==
    /\ now < MaxClock
    /\ now' = now + 1
    /\ UNCHANGED <<at, ahead, stamp, edits, engineVars, fetchVars, historyVars,
                   pastVars>>

Edit(x) ==
    /\ edits < MaxEdits
    /\ edits' = edits + 1
    /\ seen' = seen \ {x}
    /\ fresh' = fresh \ {x}
    /\ UNCHANGED <<now, cursor, endpoint, since, start, offset, page, got,
                   repeats, truncated, pastVars>>

Stamped(x) ==
    \E behind \in 0..MaxBehind :
        /\ behind < now
        /\ stamp' = [stamp EXCEPT ![x] = now - behind]

(***************************************************************************)
(* What the edit of x means for the running fetch.                         *)
(***************************************************************************)
Recorded(x, moved) ==
    /\ steady' = steady \cap Matching'
    /\ ever' = IF Running THEN ever \cup Matching' ELSE ever
    /\ slips' = IF Running /\ x \in Matching /\ (moved \/ x \notin Matching')
                  THEN slips + 1 ELSE slips
    /\ inserts' = IF Running /\ x \in Matching' /\ (moved \/ x \notin Matching)
                    THEN inserts + 1 ELSE inserts
    /\ UNCHANGED beyond

(***************************************************************************)
(* Item x gets some place in the list of endpoint e.                       *)
(***************************************************************************)
PutInto(e, x) ==
    \E before \in SUBSET (At(e) \ {x}) :
        /\ \A y \in before : ahead[y] \ {x} \subseteq before
        /\ at' = [at EXCEPT ![x] = e]
        /\ ahead' = [y \in Items |->
              IF y = x THEN before
              ELSE IF y \in At(e) \ before THEN ahead[y] \cup {x}
              ELSE ahead[y] \ {x}]

Insert(x) ==
    /\ x \notin Present
    /\ Edit(x)
    /\ Stamped(x)
    /\ \E e \in 1..Endpoints : PutInto(e, x)
    /\ Recorded(x, TRUE)

Delete(x) ==
    /\ x \in Present
    /\ Edit(x)
    /\ at' = [at EXCEPT ![x] = 0]
    /\ ahead' = [y \in Items |-> IF y = x THEN {} ELSE ahead[y] \ {x}]
    /\ UNCHANGED stamp
    /\ Recorded(x, TRUE)

Modify(x) ==
    /\ x \in Present
    /\ Edit(x)
    /\ Stamped(x)
    /\ UNCHANGED <<at, ahead>>
    /\ Recorded(x, FALSE)

Rename(x) ==
    /\ x \in Present
    /\ Edit(x)
    /\ Stamped(x)
    /\ PutInto(at[x], x)
    /\ Recorded(x, TRUE)

-----------------------------------------------------------------------------
(***************************************************************************)
(* A run begins a fetch, in full when there is no cursor or the time for a *)
(* full pass has come.                                                     *)
(***************************************************************************)
Begin(s) ==
    /\ ~Running
    /\ s \in {0, cursor}
    /\ UNCHANGED netboxVars
    /\ endpoint' = 1
    /\ since' = s
    /\ start' = now
    /\ steady' = Matching'
    /\ ever' = Matching'
    /\ result' = Nothing
    /\ UNCHANGED <<engineVars, offset, page, got, repeats, fresh, truncated,
                   slips, inserts, beyond, slack>>

(***************************************************************************)
(* One page.  The response links to a next page when items remain; then    *)
(* the page limit decides whether it is asked for.                         *)
(***************************************************************************)
Page ==
    {x \in Listing(endpoint) : offset <= Place(x) /\ Place(x) < offset + PageSize}

Unread == {x \in Listing(endpoint) : Place(x) >= offset + PageSize}

HasNext == Unread # {}

\* Mutant: the page limit looks like the end of the list.
MutantTruncates == FALSE

Truncates == HasNext /\ page + 1 = MaxPages

\* Mutant: one page too many.
MutantEndOfListing == ~HasNext \/ page = MaxPages

EndOfListing == ~HasNext \/ page + 1 = MaxPages

\* Mutant: the link to the next page is not followed.
MutantNextOffset == offset

NextOffset == offset + PageSize

Read ==
    /\ Running
    /\ got' = got \cup Page
    /\ repeats' = repeats + Cardinality(got \cap Page)
    /\ fresh' = fresh \cup Page

NextPage ==
    /\ Read
    /\ ~EndOfListing
    /\ offset' = NextOffset
    /\ page' = page + 1
    /\ UNCHANGED <<netboxVars, engineVars, endpoint, since, start, truncated,
                   historyVars, pastVars>>

NextEndpoint ==
    /\ Read
    /\ EndOfListing
    /\ endpoint < Endpoints
    /\ endpoint' = endpoint + 1
    /\ offset' = 0
    /\ page' = 0
    /\ truncated' = (truncated \/ Truncates)
    /\ beyond' = beyond + Cardinality(Unread)
    /\ UNCHANGED <<netboxVars, engineVars, since, start, steady, ever, slips,
                   inserts, pastVars>>

(***************************************************************************)
(* The end of a fetch: its items are returned with the cursor, which the   *)
(* engine stores when it is done with them.  A request that fails (or a    *)
(* cancellation) drops all pages; a crash can come when the items are done *)
(* and the cursor is not stored.                                           *)
(***************************************************************************)
ResetFetch ==
    /\ endpoint' = 0
    /\ since' = 0
    /\ start' = 0
    /\ offset' = 0
    /\ page' = 0
    /\ got' = {}
    /\ repeats' = 0
    /\ fresh' = {}
    /\ truncated' = FALSE
    /\ steady' = {}
    /\ ever' = {}
    /\ slips' = 0
    /\ inserts' = 0
    /\ beyond' = 0

NowCursor == (start \div Second) * Second

Finish ==
    /\ Running
    /\ EndOfListing
    /\ endpoint = Endpoints
    /\ result' = [truncated |-> truncated \/ Truncates,
                  items |-> got \cup Page]
    /\ seen' = seen \cup fresh \cup Page
    /\ \/ /\ cursor' = NowCursor
          /\ slack' = (IF since = 0 THEN 0 ELSE slack)
                         + slips + beyond + Cardinality(Unread)
       \/ UNCHANGED <<cursor, slack>>
    /\ ResetFetch
    /\ UNCHANGED netboxVars

Fail ==
    /\ Running
    /\ ResetFetch
    /\ UNCHANGED <<netboxVars, engineVars, pastVars>>

-----------------------------------------------------------------------------
Next ==
    \/ Tick
    \/ \E x \in Items : Insert(x) \/ Delete(x) \/ Modify(x) \/ Rename(x)
    \/ \E s \in {0, cursor} : Begin(s)
    \/ NextPage \/ NextEndpoint \/ Finish \/ Fail

Spec == Init /\ [][Next]_vars

-----------------------------------------------------------------------------
(***************************************************************************)
(* TypeOK: the type invariant.                                             *)
(***************************************************************************)
TypeOK ==
    /\ at \in [Items -> 0..Endpoints]
    /\ ahead \in [Items -> SUBSET Items]
    /\ Ordered
    /\ now \in Nat
    /\ stamp \in [Items -> 0..now]
    /\ edits \in 0..MaxEdits
    /\ cursor \in 0..now /\ \E k \in 0..cursor : cursor = k * Second
    /\ seen \subseteq Present
    /\ endpoint \in 0..Endpoints
    /\ since \in 0..cursor
    /\ start \in 0..now
    /\ page \in 0..(MaxPages - 1)
    /\ offset = page * PageSize
    /\ got \subseteq Items
    /\ repeats \in Nat
    /\ fresh \subseteq got \cap Present
    /\ truncated \in BOOLEAN
    /\ steady \subseteq Matching /\ (Running => steady \subseteq ever)
    /\ ever \subseteq Items
    /\ slips \in 0..edits /\ inserts \in 0..edits
    /\ beyond \in Nat /\ (truncated <=> beyond > 0)
    /\ result \in [truncated : BOOLEAN, items : SUBSET Items]
    /\ slack \in Nat

(***************************************************************************)
(* ContractSpec: a fetch returns items that matched while it ran and,      *)
(* unless it says that it was truncated, misses no item that matched all   *)
(* the time except one for each removal or rename (client.go, listAll).    *)
(***************************************************************************)
Contract == INSTANCE FetchContract WITH match <- Matching, running <- Running

ContractSpec == Contract!Spec

(***************************************************************************)
(* NothingOverdue: an item whose current contents the engine was never     *)
(* given will be in the next incremental fetch, except as many as slipped  *)
(* or lay beyond the page limit since the last full fetch: no edit falls   *)
(* between two cursors, whatever page it came after (client.go, nowCursor, *)
(* sinceQuery).                                                            *)
(***************************************************************************)
Overdue == {x \in Present \ seen : stamp[x] < cursor}

NothingOverdue == Cardinality(Overdue) <= slack

(***************************************************************************)
(* RepeatsExplained: a fetch has at most as many repeated items, the page  *)
(* being read included, as there were insertions and renames while it ran; *)
(* otherwise diff gets every item once, which it relies on (it would create*)
(* a repeated item twice).                                                 *)
(***************************************************************************)
RepeatsExplained == repeats + Cardinality(got \cap Page) <= inserts

=============================================================================
