------------------------------ MODULE AgentProofs ------------------------------
(***************************************************************************)
(* Proofs about the process, for any number of sources and any columns.    *)
(***************************************************************************)
EXTENDS Agent, TLAPS

(***************************************************************************)
(* The loops run only between Start and Stop, and the process serves only  *)
(* with a table that has every column: a start reads which ones are        *)
(* missing and adds just those.                                            *)
(***************************************************************************)
Running == InRun \cup {"turn", "select"}

ServingInv ==
    /\ process = "migrating" => store = "open" /\ todo = Missing
    /\ process = "serving" => store = "open" /\ columns = Columns
    /\ process \in {"down", "migrating"} =>
            \A s \in Sources : loop[s] = "off"
    /\ \A s \in Sources : loop[s] \in Running => process = "serving"

AgentInv == TypeOK /\ ServingInv

-----------------------------------------------------------------------------
LEMMA AgentInit == Init => AgentInv
  BY AgentAssumption
  DEF Init, AgentInv, TypeOK, ServingInv, Running, Missing, InRun, Waiting,
      Holding

(***************************************************************************)
(* A step of one loop that neither takes nor gives back the connection.    *)
(***************************************************************************)
LEMMA EnterKeepsInv ==
    ASSUME AgentInv, NEW s \in Sources, loop[s] \in Running \ Holding,
           NEW where \in (Running \cup {"done"}) \ Holding,
           Enter(s, where), UNCHANGED <<startVars, conn, cancelled>>,
           tick' \in [Sources -> {"none", "empty", "full"}]
    PROVE  AgentInv'
<1> USE AgentAssumption
    DEF AgentInv, Enter, startVars, Running, InRun, Waiting, Holding
<1>1. TypeOK'
  BY DEF TypeOK
<1>2. ServingInv'
  BY DEF TypeOK, ServingInv, Missing
<1> QED BY <1>1, <1>2

LEMMA AgentStep == AgentInv /\ [Next]_vars => AgentInv'
<1> SUFFICES ASSUME AgentInv, [Next]_vars PROVE AgentInv'
  OBVIOUS
<1> USE AgentAssumption
<1> USE DEF AgentInv
<1>1. CASE Open
  BY <1>1 DEF Open, TypeOK, ServingInv, Missing, loopVars, Running, InRun,
      Waiting, Holding
<1>2. ASSUME NEW col \in Columns, AddColumn(col) PROVE AgentInv'
  <2>1. col \notin columns /\ col \in Missing
    BY <1>2 DEF AddColumn, ServingInv, Missing
  <2> QED
    BY <1>2, <2>1 DEF AddColumn, Exit, TypeOK, ServingInv, Missing, loopVars,
        Running, InRun, Waiting, Holding
<1>3. CASE KilledAtStart
  BY <1>3 DEF KilledAtStart, Exit, TypeOK, ServingInv, Missing, loopVars,
      Running, InRun, Waiting, Holding
<1>4. CASE Start
  <2>1. columns = Columns
    BY <1>4 DEF Start, TypeOK, ServingInv, Missing
  <2>2. \A s \in Sources : loop'[s] \in {"turn", "fetch"} /\ conn # s
    BY <1>4 DEF Start, TypeOK, ServingInv, Holding
  <2>3. TypeOK'
    BY <1>4, <2>2 DEF Start, TypeOK, InRun, Waiting, Holding
  <2>4. ServingInv'
    BY <1>4, <2>1, <2>2 DEF Start, ServingInv, Running, InRun, Waiting, Holding
  <2> QED BY <2>3, <2>4
<1>5. ASSUME NEW s \in Sources, LoopStep(s) PROVE AgentInv'
  <2> USE DEF Running, InRun, Waiting, Holding
  <2>1. tick \in [Sources -> {"none", "empty", "full"}]
    BY DEF TypeOK
  <2>2. CASE TakeTurn(s) \/ Fetched(s) \/ FetchCancelled(s)
    BY <2>1, <2>2, EnterKeepsInv DEF TakeTurn, Fetched, FetchCancelled
  <2>3. CASE StoreCancelled(s) \/ CallReturned(s)
    BY <2>1, <2>3, EnterKeepsInv DEF StoreCancelled, CallReturned
  <2>4. CASE Reported(s) \/ NextRun(s) \/ LeaveLoop(s)
    BY <2>1, <2>4, EnterKeepsInv DEF Reported, NextRun, LeaveLoop
  <2>5. CASE Acquire(s)
    <3>1. \A t \in Sources : loop[t] \notin Holding
      BY <2>5 DEF Acquire, ConnFree, TypeOK
    <3>2. loop'[s] \in Holding /\ \A t \in Sources \ {s} : loop'[t] = loop[t]
      BY <2>5 DEF Acquire, Enter, TypeOK
    <3>3. TypeOK'
      BY <2>5, <3>1, <3>2 DEF Acquire, Enter, TypeOK, startVars
    <3>4. ServingInv'
      BY <2>5, <3>2 DEF Acquire, Enter, ServingInv, TypeOK, Missing, startVars
    <3> QED BY <3>3, <3>4
  <2>6. CASE Listed(s) \/ Stored(s)
    <3>1. conn = s /\ conn' = None
      BY <2>6 DEF Listed, Stored, Release, TypeOK
    <3>2. /\ loop'[s] \in {"call", "save", "report"}
          /\ \A t \in Sources \ {s} : loop'[t] = loop[t]
      BY <2>6 DEF Listed, Stored, Enter, TypeOK
    <3>3. TypeOK'
      BY <2>6, <3>1, <3>2 DEF Listed, Stored, Enter, TypeOK, startVars
    <3>4. ServingInv'
      BY <2>6, <3>2 DEF Listed, Stored, Enter, ServingInv, TypeOK, Missing,
          startVars
    <3> QED BY <3>3, <3>4
  <2>7. CASE Tick(s)
    <3>1. TypeOK'
      BY <2>7 DEF Tick, TypeOK, startVars
    <3>2. ServingInv'
      BY <2>7 DEF Tick, ServingInv, Missing, startVars
    <3> QED BY <3>1, <3>2
  <2> QED
    BY <1>5, <2>2, <2>3, <2>4, <2>5, <2>6, <2>7 DEF LoopStep
<1>6. CASE Signal
  BY <1>6 DEF Signal, TypeOK, ServingInv, Missing, startVars
<1>7. CASE Stop
  BY <1>7 DEF Stop, LoopsDone, TypeOK, ServingInv, Missing, loopVars, Running,
      InRun, Waiting, Holding
<1>8. CASE UNCHANGED vars
  BY <1>8 DEF vars, startVars, loopVars, TypeOK, ServingInv, Missing
<1> QED
  BY <1>1, <1>2, <1>3, <1>4, <1>5, <1>6, <1>7, <1>8 DEF Next

LEMMA AgentInvariant == Spec => []AgentInv
  BY AgentInit, AgentStep, PTL DEF Spec

-----------------------------------------------------------------------------
(***************************************************************************)
(* Type correctness; in particular two runs never use the database         *)
(* connection at once (sqlite.go, SetMaxOpenConns).                        *)
(***************************************************************************)
THEOREM AgentTypeCorrect == Spec => []TypeOK
  BY AgentInvariant, PTL DEF AgentInv

(***************************************************************************)
(* While any run is under way the database is open and fully migrated      *)
(* (main.go, runCmd; sqlite.go, migrateMappingsTable), whatever a former   *)
(* start left behind.                                                      *)
(***************************************************************************)
THEOREM StoreReadyHolds == Spec => []StoreReady
<1>1. AgentInv => StoreReady
  BY DEF AgentInv, ServingInv, StoreReady, Running
<1> QED
  BY <1>1, AgentInvariant, PTL

=============================================================================
