-------------------------------- MODULE Agent --------------------------------
(***************************************************************************)
(* The process (cmd/kentik-sync-agent/main.go), its scheduler              *)
(* (internal/scheduler) and the state store's connection and schema        *)
(* (internal/state/sqlite.go).                                             *)
(*                                                                         *)
(* The process migrates the schema of its database and then runs its       *)
(* sources: each in a loop of its own, until SIGTERM, or with --once one   *)
(* after another.  A run fetches from its source, reads the store, may call*)
(* Kentik, writes to the store and reports metrics.  The loops share one   *)
(* database connection.  Of a Kentik call only this is used here, that it  *)
(* returns (EveryCallReturns of KentikCall).                               *)
(***************************************************************************)
EXTENDS Naturals

CONSTANTS
    Sources,        \* jobs, each with an interval
    MaybeSlow,      \* sources whose fetch may take for ever
    Columns,        \* mappingsMigrationColumns
    None            \* no source

ASSUME AgentAssumption ==
    /\ MaybeSlow \subseteq Sources
    /\ None \notin Sources

VARIABLES
    columns,    \* the columns that the table in the database file has
    todo,       \* the columns that the process still has to add
    process,    \* where main is
    once,       \* --once
    slow,       \* the sources whose fetch ends only when it is cancelled
    store,      \* the database is "open" or "closed"
    conn,       \* the source that uses the only connection, or None
    loop,       \* loop[s]: where the run loop of s is
    tick,       \* tick[s]: the channel of the ticker, if there is one yet
    cancelled   \* the scheduler's context is cancelled

startVars == <<columns, todo, process, once, slow, store>>
loopVars  == <<conn, loop, tick, cancelled>>
vars      == <<startVars, loopVars>>

Waiting == {"list", "save"}         \* for the connection
Holding == {"listing", "saving"}    \* the connection
InRun   == {"fetch", "call", "report"} \cup Waiting \cup Holding

Init ==
    /\ columns \in SUBSET Columns
    /\ todo = {}
    /\ process = "down"
    /\ once \in BOOLEAN
    /\ slow \in SUBSET MaybeSlow
    /\ store = "closed"
    /\ conn = None
    /\ loop = [s \in Sources |-> "off"]
    /\ tick = [s \in Sources |-> "none"]
    /\ cancelled = FALSE

-----------------------------------------------------------------------------
(***************************************************************************)
(* OpenSQLite reads the table's columns and adds those that are missing,   *)
(* one statement each; a column that is there already is an error.  The    *)
(* process may be killed between any two; it is started again.             *)
(***************************************************************************)
\* Mutant: the columns are added without a look at the table.
MutantMissing == Columns

Missing == Columns \ columns

Open ==
    /\ process = "down"
    /\ process' = "migrating"
    /\ store' = "open"
    /\ todo' = Missing
    /\ UNCHANGED <<columns, once, slow, loopVars>>

Exit ==
    /\ process' = "down"
    /\ store' = "closed"
    /\ todo' = {}

AddColumn(col) ==
    /\ process = "migrating"
    /\ col \in todo
    /\ \/ /\ col \notin columns
          /\ columns' = columns \cup {col}
          /\ todo' = todo \ {col}
          /\ UNCHANGED <<process, store>>
       \/ /\ col \in columns
          /\ Exit
          /\ UNCHANGED columns
    /\ UNCHANGED <<once, slow, loopVars>>

KilledAtStart ==
    /\ process = "migrating"
    /\ Exit
    /\ UNCHANGED <<columns, once, slow, loopVars>>

(***************************************************************************)
(* Scheduler.Start has a loop for each source, which runs it at once; with *)
(* --once the sources wait for their turn instead.                         *)
(***************************************************************************)
Start ==
    /\ process = "migrating"
    /\ todo = {}
    /\ process' = "serving"
    /\ loop' = [s \in Sources |-> IF once THEN "turn" ELSE "fetch"]
    /\ UNCHANGED <<columns, todo, once, slow, store, conn, tick,
                   cancelled>>

Enter(s, where) == loop' = [loop EXCEPT ![s] = where]

TakeTurn(s) ==
    /\ loop[s] = "turn"
    /\ \A t \in Sources : loop[t] \in {"turn", "done"}
    /\ Enter(s, "fetch")
    /\ UNCHANGED <<startVars, conn, tick, cancelled>>

-----------------------------------------------------------------------------
(***************************************************************************)
(* RunJob, in its outline: the fetch succeeds, or fails and ends the run.  *)
(***************************************************************************)
Fetched(s) ==
    /\ loop[s] = "fetch"
    /\ ~cancelled
    /\ Enter(s, "list") \/ Enter(s, "report")
    /\ UNCHANGED <<startVars, conn, tick, cancelled>>

FetchCancelled(s) ==
    /\ loop[s] = "fetch"
    /\ cancelled
    /\ Enter(s, "report")
    /\ UNCHANGED <<startVars, conn, tick, cancelled>>

(***************************************************************************)
(* database/sql hands its one connection to any of those who wait for it;  *)
(* under a cancelled context the waiting ends.                             *)
(***************************************************************************)
\* Mutant: the pool is not limited to one connection.
MutantConnFree == TRUE

ConnFree == conn = None

Acquire(s) ==
    /\ loop[s] \in Waiting
    /\ ConnFree
    /\ conn' = s
    /\ Enter(s, IF loop[s] = "list" THEN "listing" ELSE "saving")
    /\ UNCHANGED <<startVars, tick, cancelled>>

StoreCancelled(s) ==
    /\ loop[s] \in Waiting
    /\ cancelled
    /\ Enter(s, "report")
    /\ UNCHANGED <<startVars, conn, tick, cancelled>>

(***************************************************************************)
(* ListMappings closes its rows before it returns; nothing else is asked of*)
(* the store or of Kentik while they are open.                             *)
(***************************************************************************)
\* Mutant: the rows are open until the run ends.
MutantRelease(s) == IF loop[s] = "listing" THEN UNCHANGED conn ELSE conn' = None

Release(s) == conn' = None

Listed(s) ==
    /\ loop[s] = "listing"
    /\ Release(s)
    /\ Enter(s, "call") \/ Enter(s, "save")
    /\ UNCHANGED <<startVars, tick, cancelled>>

Stored(s) ==
    /\ loop[s] = "saving"
    /\ Release(s)
    /\ Enter(s, "report")
    /\ UNCHANGED <<startVars, tick, cancelled>>

(***************************************************************************)
(* The appliers call Kentik, or fail to, and the run waits.                *)
(***************************************************************************)
CallReturned(s) ==
    /\ loop[s] = "call"
    /\ Enter(s, "save")
    /\ UNCHANGED <<startVars, conn, tick, cancelled>>

(***************************************************************************)
(* MetricsReporter.Report ends, whether it succeeds or not: it has a       *)
(* timeout of its own.  The loop goes on to its select; it gets a ticker   *)
(* after its first run.                                                    *)
(***************************************************************************)
Reported(s) ==
    /\ loop[s] = "report"
    /\ Enter(s, IF once THEN "done" ELSE "select")
    /\ tick' = [tick EXCEPT ![s] = IF @ = "none" /\ ~once THEN "empty" ELSE @]
    /\ UNCHANGED <<startVars, conn, cancelled>>

(***************************************************************************)
(* The ticker's channel holds one tick; further ones are dropped.  When    *)
(* there are both a tick and the end of the context, select takes any.     *)
(***************************************************************************)
Tick(s) ==
    /\ loop[s] # "done"
    /\ tick[s] = "empty"
    /\ tick' = [tick EXCEPT ![s] = "full"]
    /\ UNCHANGED <<startVars, conn, loop, cancelled>>

NextRun(s) ==
    /\ loop[s] = "select"
    /\ tick[s] = "full"
    /\ tick' = [tick EXCEPT ![s] = "empty"]
    /\ Enter(s, "fetch")
    /\ UNCHANGED <<startVars, conn, cancelled>>

\* Mutant: pending ticks are served first.
MutantMayLeave(s) == cancelled /\ tick[s] = "empty"

MayLeave(s) == cancelled

LeaveLoop(s) ==
    /\ loop[s] = "select"
    /\ MayLeave(s)
    /\ Enter(s, "done")
    /\ UNCHANGED <<startVars, conn, tick, cancelled>>

-----------------------------------------------------------------------------
(***************************************************************************)
(* SIGTERM, which the scheduler's context is told of.  Start waits for all *)
(* loops, and main closes the store when it returns.                       *)
(***************************************************************************)
Signal ==
    /\ process = "serving"
    /\ ~once
    /\ ~cancelled
    /\ cancelled' = TRUE
    /\ UNCHANGED <<startVars, conn, loop, tick>>

\* Mutant: Start returns when the first loop has ended.
MutantLoopsDone == \E s \in Sources : loop[s] = "done"

LoopsDone == \A s \in Sources : loop[s] = "done"

Stop ==
    /\ process = "serving"
    /\ LoopsDone
    /\ process' = "stopped"
    /\ store' = "closed"
    /\ UNCHANGED <<columns, todo, once, slow, loopVars>>

LoopStep(s) ==
    \/ TakeTurn(s)
    \/ Fetched(s) \/ FetchCancelled(s)
    \/ Acquire(s) \/ StoreCancelled(s) \/ Listed(s) \/ Stored(s)
    \/ CallReturned(s) \/ Reported(s)
    \/ Tick(s) \/ NextRun(s) \/ LeaveLoop(s)

Next ==
    \/ Open
    \/ \E col \in Columns : AddColumn(col)
    \/ KilledAtStart
    \/ Start
    \/ \E s \in Sources : LoopStep(s)
    \/ Signal
    \/ Stop

Spec == Init /\ [][Next]_vars

(***************************************************************************)
(* The process goes on whatever it is waiting for, with these exceptions:  *)
(* nobody has to send a signal, a slow source has to answer nothing, and a *)
(* starting process may be killed, if not for ever.  Both the connection   *)
(* and select go to one of those who wait at random, hence strong fairness.*)
(***************************************************************************)
Fairness ==
    /\ WF_vars(Open) /\ SF_vars(\E col \in Columns : AddColumn(col))
    /\ SF_vars(Start) /\ WF_vars(Stop)
    /\ \A s \in Sources :
        /\ WF_vars(Fetched(s) /\ s \notin slow)
        /\ WF_vars(FetchCancelled(s) \/ StoreCancelled(s) \/ Listed(s)
                        \/ Stored(s) \/ CallReturned(s) \/ Reported(s))
        /\ SF_vars(Acquire(s))
        /\ SF_vars(LeaveLoop(s))
        /\ SF_vars(TakeTurn(s))
        /\ WF_vars(Tick(s)) /\ WF_vars(NextRun(s))

FairSpec == Spec /\ Fairness

-----------------------------------------------------------------------------
(***************************************************************************)
(* TypeOK: the type invariant, with one user of the connection.            *)
(***************************************************************************)
TypeOK ==
    /\ columns \subseteq Columns
    /\ todo \subseteq Columns \ columns
    /\ process \in {"down", "migrating", "serving", "stopped"}
    /\ once \in BOOLEAN
    /\ slow \subseteq Sources
    /\ store \in {"open", "closed"}
    /\ conn \in Sources \cup {None}
    /\ \A s \in Sources : loop[s] \in Holding <=> conn = s
    /\ loop \in [Sources -> InRun \cup {"off", "turn", "select", "done"}]
    /\ tick \in [Sources -> {"none", "empty", "full"}]
    /\ cancelled \in BOOLEAN

(***************************************************************************)
(* StoreReady: while any run is under way the database is open and has     *)
(* every column the statements name (main.go: deferred Close after         *)
(* Scheduler.Start; sqlite.go: migrateMappingsTable), although starts may  *)
(* be cut off anywhere.                                                    *)
(***************************************************************************)
StoreReady ==
    \A s \in Sources : loop[s] \in InRun => store = "open" /\ columns = Columns

(***************************************************************************)
(* StopsWhenTold: after SIGTERM the process stops, with every loop ended,  *)
(* even if neither Kentik nor a slow source ever answers.                  *)
(***************************************************************************)
StopsWhenTold == cancelled ~> process = "stopped"

(***************************************************************************)
(* OnceEnds: the process comes up whatever state an earlier start left the *)
(* table in, and with --once it ends after one run of each source, even if *)
(* Kentik never answers (main.go, runOnce).                                *)
(***************************************************************************)
OnceEnds == once /\ slow = {} ~> process = "stopped"

(***************************************************************************)
(* OthersGoOn: "one slow or misbehaving source can't delay another's       *)
(* schedule" (scheduler.go): every run of a source that is not slow ends.  *)
(***************************************************************************)
OthersGoOn ==
    \A s \in Sources :
        ~once /\ s \notin slow /\ loop[s] = "fetch" ~> loop[s] = "select"

=============================================================================
