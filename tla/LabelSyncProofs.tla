---------------------------- MODULE LabelSyncProofs ----------------------------
(***************************************************************************)
(* Proofs about device labels, for any devices, labels, edits and faults.  *)
(***************************************************************************)
EXTENDS LabelSync, TLAPS

-----------------------------------------------------------------------------
(***************************************************************************)
(* The plan of a run: what is to be labelled was fetched, what is to be    *)
(* cleared is mapped, a device is read only to be written at once, and     *)
(* what was applied is saved before the next batch.                        *)
(***************************************************************************)
PlanInv ==
    /\ stage # "clear" /\ phase # "commit" =>
            \A d \in plan["create"] \cup plan["update"] :
                snap[d] \in SUBSET Managed
    /\ \A d \in plan["clear"] : mapping[d] \in Mapping
    /\ phase = "save" => plan[stage] = {}
    /\ phase \notin {"apply", "write", "save"} => applied = {}
    /\ phase \notin {"record", "forget"} => confirmed = {}
    /\ phase = "write" => current \in plan[stage] /\ Live(Target(current))
    /\ stage # "clear" =>
            \A d \in applied : device[d] \in Ids /\ snap[d] \in SUBSET Managed

TypeInv == TypeOK /\ PlanInv

LEMMA TypeInit == Init => TypeInv
<1> SUFFICES ASSUME Init PROVE TypeInv
  OBVIOUS
<1> USE DEF Init
<1>1. DOMAIN onDevice = {} /\ DOMAIN hand = {}
  OBVIOUS
<1>2. onDevice \in [DOMAIN onDevice -> SUBSET (Managed \cup Custom)]
  BY <1>1
<1>3. hand \in [DOMAIN onDevice -> SUBSET Custom]
  BY <1>1
<1>4. TypeOK
  <2>1. plan \in [Stages -> SUBSET Devices] /\ stage \in Stages
    BY DEF NoPlan, Stages
  <2>2. /\ device \in [Devices -> Ids \cup {None}]
        /\ mapping \in [Devices -> Mapping \cup {None}]
        /\ snap \in [Devices -> (SUBSET Managed) \cup {None}]
    BY DEF Blank
  <2>3. marker \in [Types -> {"fresh", "due"}] /\ phase \in Phases
    BY DEF Phases
  <2>4. /\ edits \in 0..MaxEdits
        /\ faults \in 0..MaxFaults /\ serial \in [Devices -> Nat]
    BY LabelSyncAssumption
  <2> QED
    BY <1>1, <1>2, <1>3, <2>1, <2>2, <2>3, <2>4 DEF TypeOK
<1>5. PlanInv
  BY DEF PlanInv, NoPlan, Stages
<1> QED BY <1>4, <1>5 DEF TypeInv

LEMMA CountFaultType ==
    ASSUME faults \in 0..MaxFaults, NEW isFault \in BOOLEAN,
           isFault => \E kind : CanFail(kind), CountFault(isFault)
    PROVE  faults' \in 0..MaxFaults
  BY LabelSyncAssumption DEF CanFail, CountFault


-----------------------------------------------------------------------------
LEMMA TypeStep == TypeInv /\ [Next]_vars => TypeOK'
<1> SUFFICES ASSUME TypeInv, [Next]_vars PROVE TypeOK'
  OBVIOUS
<1> USE LabelSyncAssumption DEF TypeInv, netboxVars, storeVars, kentikVars,
                                handVars, planVars, batchVars, lostVars
<1>r. ASSUME ResetRun
      PROVE  /\ phase' \in Phases /\ stage' \in Stages /\ full' \in BOOLEAN
             /\ snap' \in [Devices -> (SUBSET Managed) \cup {None}]
             /\ plan' \in [Stages -> SUBSET Devices]
             /\ toDelete' \subseteq Devices
             /\ ids' = {} /\ current' \in Devices \cup {None}
             /\ unmanaged' \subseteq Custom /\ applied' \subseteq Devices
             /\ confirmed' \subseteq Devices /\ cancelled' \in BOOLEAN
  BY <1>r DEF ResetRun, Phases, Stages, Blank, NoPlan
<1>1. CASE StartRun
  BY <1>1 DEF StartRun, TypeOK, Phases
<1>2. ASSUME NEW t \in Types, MarkerAges(t) PROVE TypeOK'
  <2>1. marker' \in [Types -> {"fresh", "due"}]
    BY <1>2 DEF MarkerAges, TypeOK
  <2> QED BY <1>2, <2>1 DEF MarkerAges, TypeOK
<1>3. ASSUME NEW d \in Devices, EditDevice(d) PROVE TypeOK'
  <2>1. /\ inv' \in [Devices -> (SUBSET Managed) \cup {None}]
        /\ gone' \subseteq Devices
        /\ edits' \in 0..MaxEdits
    BY <1>3 DEF EditDevice, TypeOK
  <2> QED BY <1>3, <2>1 DEF EditDevice, TypeOK
<1>4. ASSUME NEW seen \in SUBSET Present, NEW refused \in SUBSET seen,
             NEW lost \in BOOLEAN, CreateDevices(seen, refused, lost)
      PROVE  TypeOK'
  <2> DEFINE new == {d \in seen \ refused : device[d] = None}
             idsOf == {NewId(d) : d \in new}
  <2>1. new \subseteq Devices /\ idsOf \subseteq Ids
    BY DEF Present, NewId, Ids, TypeOK
  <2>2. /\ confirmed' \subseteq Devices
        /\ serial' \in [Devices -> Nat]
    <3>1. confirmed' \in {new, {}}
      BY <1>4 DEF CreateDevices
    <3>2. serial' \in [Devices -> Nat]
      BY <1>4 DEF CreateDevices, TypeOK
    <3> QED BY <2>1, <3>1, <3>2 DEF TypeOK
  <2>3. /\ DOMAIN onDevice' = DOMAIN onDevice \cup idsOf
        /\ onDevice' \in [DOMAIN onDevice' -> SUBSET (Managed \cup Custom)]
        /\ hand' \in [DOMAIN onDevice' -> SUBSET Custom]
    BY <1>4 DEF CreateDevices, TypeOK
  <2>4. full' \in BOOLEAN /\ toDelete' \subseteq Devices /\ phase' \in Phases
    BY <1>4 DEF CreateDevices, IsFullRun, TypeOK, Phases
  <2>5. faults' \in 0..MaxFaults
    BY <1>4 DEF CreateDevices, TypeOK
  <2> QED
    BY <1>4, <2>1, <2>2, <2>3, <2>4, <2>5 DEF CreateDevices, TypeOK
<1>d. ASSUME NEW d \in Devices, RecordDevice(d) PROVE TypeOK'
  <2>1. faults' \in 0..MaxFaults
    BY <1>d, CountFaultType DEF RecordDevice, TypeOK
  <2>2. device' \in [Devices -> Ids \cup {None}]
    BY <1>d DEF RecordDevice, Ids, TypeOK
  <2> QED BY <1>d, <2>1, <2>2 DEF RecordDevice, TypeOK
<1>c. ASSUME NEW t \in Types, Commit(t)
      PROVE  /\ marker' \in [Types -> {"fresh", "due"}]
             /\ faults' \in 0..MaxFaults
  <2>1. faults' \in 0..MaxFaults
    BY <1>c, CountFaultType DEF Commit, TypeOK
  <2>2. marker' \in [Types -> {"fresh", "due"}]
    BY <1>c DEF Commit, Reconciled, TypeOK
  <2> QED BY <2>1, <2>2
<1>e. CASE CommitDevices
  BY <1>c, <1>e DEF CommitDevices, TypeOK, Types, Phases
<1>5. CASE DevicesFail
  <2>1. faults' \in 0..MaxFaults
    BY <1>5, CountFaultType DEF DevicesFail, TypeOK
  <2> QED BY <1>5, <2>1 DEF DevicesFail, TypeOK, Phases
<1>6. ASSUME NEW items \in SUBSET Present, FetchLabels(items) PROVE TypeOK'
  <2>1. snap' \in [Devices -> (SUBSET Managed) \cup {None}]
    BY <1>6 DEF FetchLabels, TypeOK
  <2>2. plan' \in [Stages -> SUBSET Devices]
    BY <1>6 DEF FetchLabels, DiffCreate, DiffUpdate, DiffClear, Present, Stages
  <2>3. faults' \in 0..MaxFaults
    BY <1>6, CountFaultType DEF FetchLabels, TypeOK
  <2> QED
    BY <1>6, <2>1, <2>2, <2>3 DEF FetchLabels, IsFullRun, TypeOK, Phases
<1>7. CASE LabelsFetchFails
  <2>1. faults' \in 0..MaxFaults
    BY <1>7, CountFaultType DEF LabelsFetchFails, TypeOK
  <2> QED BY <1>7, <2>1 DEF LabelsFetchFails, TypeOK, Phases
<1>f. ASSUME FailBatch
      PROVE  plan' \in [Stages -> SUBSET Devices] /\ phase' \in Phases
  BY <1>f DEF FailBatch, TypeOK, Phases
<1>8. CASE ApplyDone
  BY <1>8 DEF ApplyDone, TypeOK, Phases
<1>9. CASE ListLabels
  <2>1. plan' \in [Stages -> SUBSET Devices] /\ phase' \in Phases
    BY <1>9, <1>f DEF ListLabels, TypeOK, Phases
  <2>2. faults' \in 0..MaxFaults
    BY <1>9, CountFaultType DEF ListLabels, TypeOK
  <2> QED BY <1>9, <2>1, <2>2 DEF ListLabels, TypeOK
<1>10. ASSUME NEW name \in Managed, CreateLabel(name) PROVE TypeOK'
  <2>1. plan' \in [Stages -> SUBSET Devices] /\ phase' \in Phases
    BY <1>10, <1>f DEF CreateLabel, TypeOK
  <2>2. faults' \in 0..MaxFaults
    BY <1>10, CountFaultType DEF CreateLabel, TypeOK
  <2>3. ids' \subseteq directory' /\ directory' \subseteq Managed
    BY <1>10 DEF CreateLabel, TypeOK
  <2> QED BY <1>10, <2>1, <2>2, <2>3 DEF CreateLabel, TypeOK
<1>11. ASSUME NEW d \in Devices, ReadLabels(d) PROVE TypeOK'
  <2>1. plan' \in [Stages -> SUBSET Devices] /\ phase' \in Phases
    BY <1>11 DEF ReadLabels, Skip, TypeOK, Phases
  <2>2. faults' \in 0..MaxFaults
    BY <1>11, CountFaultType DEF ReadLabels, TypeOK
  <2>3. current' \in Devices \cup {None} /\ unmanaged' \subseteq Custom
    BY <1>11 DEF ReadLabels, UnmanagedOf, Live, TypeOK
  <2> QED BY <1>11, <2>1, <2>2, <2>3 DEF ReadLabels, TypeOK
<1>w. ASSUME phase = "write", onDevice' \in {onDevice, Replaced(Target(current))}
      PROVE  /\ DOMAIN onDevice' = DOMAIN onDevice
             /\ onDevice' \in [DOMAIN onDevice -> SUBSET (Managed \cup Custom)]
  BY <1>w DEF Replaced, TypeOK
<1>12. CASE WriteLabels
  <2>1. plan' \in [Stages -> SUBSET Devices] /\ phase' \in Phases
    BY <1>12 DEF WriteLabels, Skip, TypeOK, Phases
  <2>2. faults' \in 0..MaxFaults
    BY <1>12, CountFaultType DEF WriteLabels, TypeOK
  <2>3. current \in Devices
    BY <1>12 DEF WriteLabels, PlanInv, TypeOK
  <2>4. applied' \subseteq Devices /\ doubtful' \subseteq Devices
    BY <1>12, <2>3 DEF WriteLabels, TypeOK
  <2>5. onDevice' \in {onDevice, Replaced(Target(current))}
    BY <1>12 DEF WriteLabels
  <2> QED
    BY <1>12, <1>w, <2>1, <2>2, <2>4, <2>5 DEF WriteLabels, TypeOK
<1>13. CASE RetryWrite
  <2>1. faults' \in 0..MaxFaults
    BY <1>13, CountFaultType DEF RetryWrite, TypeOK
  <2>2. current \in Devices
    BY <1>13 DEF RetryWrite, PlanInv, TypeOK
  <2> QED BY <1>13, <1>w, <2>1, <2>2 DEF RetryWrite, TypeOK
<1>14. ASSUME NEW d \in Devices, SaveLabels(d) PROVE TypeOK'
  <2>1. faults' \in 0..MaxFaults
    BY <1>14, CountFaultType DEF SaveLabels, TypeOK
  <2>2. stage # "clear" => Saved(d) \in Mapping
    BY <1>14 DEF SaveLabels, Saved, Mapping, PlanInv
  <2>3. mapping' \in [Devices -> Mapping \cup {None}]
    BY <1>14, <2>2 DEF SaveLabels, TypeOK
  <2> QED BY <1>14, <2>1, <2>3 DEF SaveLabels, TypeOK
<1>15. CASE EmptyBatch \/ EndBatch
  <2>1. NextBatch /\ ids' \subseteq directory
    BY <1>15 DEF EmptyBatch, EndBatch, TypeOK
  <2>2. /\ snap' \in [Devices -> (SUBSET Managed) \cup {None}]
        /\ stage' \in Stages /\ phase' \in Phases
    BY <2>1 DEF NextBatch, Blank, TypeOK, Stages, Phases
  <2> QED BY <2>1, <2>2 DEF NextBatch, TypeOK
<1>16. CASE CommitLabels
  BY <1>c, <1>16 DEF CommitLabels, TypeOK, Types, Stages, Phases
<1>17. ASSUME NEW refused \in SUBSET toDelete, DeleteDevices(refused)
       PROVE  TypeOK'
  <2>1. faults' \in 0..MaxFaults
    BY <1>17, CountFaultType DEF DeleteDevices, TypeOK
  <2>2. ASSUME NEW removed, RemoveIds(removed)
        PROVE  /\ DOMAIN onDevice' \subseteq DOMAIN onDevice
               /\ onDevice' \in [DOMAIN onDevice' -> SUBSET (Managed \cup Custom)]
               /\ hand' \in [DOMAIN onDevice' -> SUBSET Custom]
               /\ raced' \subseteq (DOMAIN onDevice') \X Custom
    BY <2>2 DEF RemoveIds, TypeOK
  <2>3. /\ DOMAIN onDevice' \subseteq DOMAIN onDevice
        /\ onDevice' \in [DOMAIN onDevice' -> SUBSET (Managed \cup Custom)]
        /\ hand' \in [DOMAIN onDevice' -> SUBSET Custom]
        /\ raced' \subseteq (DOMAIN onDevice') \X Custom
    BY <1>17, <2>2 DEF DeleteDevices, TypeOK
  <2>4. confirmed' \subseteq Devices /\ ghosts' \subseteq Devices
    BY <1>17 DEF DeleteDevices, TypeOK
  <2> QED
    BY <1>17, <2>1, <2>3, <2>4 DEF DeleteDevices, TypeOK, Phases
<1>g. ASSUME NEW d \in Devices, Forget(d) PROVE TypeOK'
  <2>1. faults' \in 0..MaxFaults
    BY <1>g, CountFaultType DEF Forget, TypeOK
  <2>2. device' \in [Devices -> Ids \cup {None}] /\ ghosts' \subseteq Devices
    BY <1>g DEF Forget, TypeOK
  <2> QED BY <1>g, <2>1, <2>2 DEF Forget, TypeOK
<1>h. CASE EndRun
  BY <1>h, <1>r DEF EndRun, TypeOK
<1>18. CASE Crash
  <2>1. faults' \in 0..MaxFaults
    BY <1>18, CountFaultType DEF Crash, TypeOK
  <2> QED BY <1>18, <1>r, <2>1 DEF Crash, TypeOK
<1>19. CASE Cancel
  <2>1. faults' \in 0..MaxFaults
    BY <1>19, CountFaultType DEF Cancel, TypeOK
  <2> QED BY <1>19, <2>1 DEF Cancel, TypeOK
<1>20. ASSUME NEW name \in Managed, OthersCreateLabel(name) PROVE TypeOK'
  BY <1>20 DEF OthersCreateLabel, TypeOK
<1>21. ASSUME NEW id \in DOMAIN onDevice, NEW l \in Custom, Touch(id, l)
       PROVE  TypeOK'
  <2>1. /\ DOMAIN onDevice' = DOMAIN onDevice
        /\ onDevice' \in [DOMAIN onDevice -> SUBSET (Managed \cup Custom)]
        /\ hand' \in [DOMAIN onDevice -> SUBSET Custom]
    BY <1>21 DEF Touch, Toggle, TypeOK
  <2>2. raced' \subseteq (DOMAIN onDevice) \X Custom /\ edits' \in 0..MaxEdits
    BY <1>21 DEF Touch, TypeOK
  <2> QED BY <1>21, <2>1, <2>2 DEF Touch, TypeOK
<1>22. CASE UNCHANGED vars
  BY <1>22 DEF vars, TypeOK
<1> QED
  BY <1>1, <1>2, <1>3, <1>4, <1>5, <1>6, <1>7, <1>8, <1>9, <1>10, <1>11, <1>12,
     <1>13, <1>14, <1>15, <1>16, <1>17, <1>18, <1>19, <1>20, <1>21, <1>22, <1>d,
     <1>e, <1>g, <1>h
  DEF Next, AgentStep

-----------------------------------------------------------------------------
LEMMA PlanStep == TypeInv /\ [Next]_vars => PlanInv'
<1> SUFFICES ASSUME TypeInv, [Next]_vars PROVE PlanInv'
  OBVIOUS
<1> USE LabelSyncAssumption DEF TypeInv, netboxVars, storeVars, kentikVars,
                                handVars, planVars, batchVars, lostVars
<1>t. TypeOK /\ TypeOK'
  BY TypeStep
<1>r. ASSUME ResetRun PROVE PlanInv'
  BY <1>r DEF ResetRun, PlanInv, NoPlan, Stages
(***************************************************************************)
(* Steps of others, and of the run before and after the labels.            *)
(***************************************************************************)
<1>1. ASSUME UNCHANGED <<device, mapping, onDevice, planVars, current, applied,
                         confirmed, phase>>
      PROVE  PlanInv'
  BY <1>1 DEF PlanInv, Live, Target
<1>2. CASE StartRun \/ DevicesFail \/ LabelsFetchFails
  BY <1>2 DEF StartRun, DevicesFail, LabelsFetchFails, PlanInv
<1>3. ASSUME NEW t \in Types, MarkerAges(t) PROVE PlanInv'
  BY <1>1, <1>3 DEF MarkerAges
<1>4. ASSUME NEW d \in Devices, EditDevice(d) PROVE PlanInv'
  BY <1>1, <1>4 DEF EditDevice
<1>5. ASSUME NEW seen \in SUBSET Present, NEW refused \in SUBSET seen,
             NEW lost \in BOOLEAN, CreateDevices(seen, refused, lost)
      PROVE  PlanInv'
  BY <1>5 DEF CreateDevices, PlanInv
<1>d. CASE CommitDevices \/ \E d \in Devices : RecordDevice(d) \/ Forget(d)
  BY <1>d DEF CommitDevices, RecordDevice, Forget, PlanInv
<1>6. ASSUME NEW items \in SUBSET Present, FetchLabels(items) PROVE PlanInv'
  <2>1. \A d \in plan'["create"] \cup plan'["update"] : snap'[d] \in SUBSET Managed
    BY <1>6, <1>t DEF FetchLabels, DiffCreate, DiffUpdate, Present, TypeOK
  <2>2. \A d \in plan'["clear"] : mapping'[d] \in Mapping
    BY <1>6, <1>t DEF FetchLabels, DiffClear, TypeOK
  <2> QED BY <1>6, <2>1, <2>2 DEF FetchLabels, PlanInv
<1>7. CASE ApplyDone
  BY <1>7 DEF ApplyDone, Batch, PlanInv
(***************************************************************************)
(* A plan only shrinks in the course of a batch.                           *)
(***************************************************************************)
<1>s. ASSUME plan' \in [Stages -> SUBSET Devices],
             \A s \in Stages : plan'[s] \subseteq plan[s],
             phase \in {"list", "apply"},
             UNCHANGED <<device, mapping, stage, snap, confirmed>>,
             phase' = "save" => plan'[stage] = {},
             phase' # "write",
             applied' \subseteq applied,
             phase' \notin {"apply", "write", "save"} => applied' = {}
      PROVE  PlanInv'
  BY <1>s DEF PlanInv, Stages
<1>8. CASE ListLabels
  <2>1. /\ phase' \in {"save", "apply"}
        /\ \A s \in Stages : plan'[s] \subseteq plan[s]
        /\ phase' = "save" => plan'[stage] = {}
    BY <1>8, <1>t DEF ListLabels, FailBatch, TypeOK
  <2> QED BY <1>8, <1>s, <1>t, <2>1 DEF ListLabels, TypeOK
<1>9. ASSUME NEW name \in Managed, CreateLabel(name) PROVE PlanInv'
  <2>1. /\ phase' \in {"save", "apply"}
        /\ \A s \in Stages : plan'[s] \subseteq plan[s]
        /\ phase' = "save" => plan'[stage] = {}
    BY <1>9, <1>t DEF CreateLabel, FailBatch, TypeOK
  <2> QED BY <1>9, <1>s, <1>t, <2>1 DEF CreateLabel, TypeOK
<1>10. ASSUME NEW d \in Devices, ReadLabels(d) PROVE PlanInv'
  <2>1. CASE phase' = "write"
    BY <1>10, <2>1 DEF ReadLabels, PlanInv, Batch, Target, Live
  <2>2. CASE phase' # "write"
    <3>1. phase' = "apply" /\ \A s \in Stages : plan'[s] \subseteq plan[s]
      BY <1>10, <1>t, <2>2 DEF ReadLabels, Skip, TypeOK
    <3> QED BY <1>10, <1>s, <1>t, <3>1 DEF ReadLabels, TypeOK
  <2> QED BY <2>1, <2>2
<1>11. CASE WriteLabels
  <2>1. \A s \in Stages : plan'[s] \subseteq plan[s]
    BY <1>11, <1>t DEF WriteLabels, Skip, TypeOK
  <2>2. phase = "write" /\ current \in plan[stage] /\ Live(Target(current))
    BY <1>11 DEF WriteLabels, PlanInv
  <2>3. stage # "clear" =>
            device[current] \in Ids /\ snap[current] \in SUBSET Managed
    BY <1>t, <2>2 DEF PlanInv, TypeOK, Live, Target, Stages
  <2> QED
    BY <1>11, <1>t, <2>1, <2>3 DEF WriteLabels, PlanInv, TypeOK, Stages
<1>12. CASE RetryWrite
  <2>1. DOMAIN onDevice' = DOMAIN onDevice
    BY <1>12 DEF RetryWrite, Replaced
  <2> QED BY <1>12, <2>1 DEF RetryWrite, PlanInv, Live, Target
<1>13. ASSUME NEW d \in Devices, SaveLabels(d) PROVE PlanInv'
  <2>1. stage # "clear" => mapping'[d] \in Mapping \/ mapping'[d] = mapping[d]
    BY <1>13, <1>t DEF SaveLabels, Saved, Mapping, PlanInv, TypeOK
  <2>2. \A e \in plan["clear"] : mapping'[e] \in Mapping
    BY <1>13, <1>t, <2>1 DEF SaveLabels, PlanInv, TypeOK, Stages
  <2> QED BY <1>13, <2>2 DEF SaveLabels, PlanInv
<1>14. CASE EmptyBatch \/ EndBatch
  <2>1. /\ UNCHANGED <<device, mapping, plan, applied, confirmed>>
        /\ applied = {} /\ confirmed = {} /\ phase # "commit"
        /\ phase' \in {"list", "commit", "remove"}
        /\ phase' # "commit" => stage = "clear" \/ snap' = snap
        /\ stage' = "clear" <=> stage = "clear"
    BY <1>14, <1>t DEF EmptyBatch, EndBatch, NextBatch, PlanInv, TypeOK, Stages
  <2> QED BY <2>1 DEF PlanInv
<1>15. CASE CommitLabels
  BY <1>15 DEF CommitLabels, PlanInv
<1>16. ASSUME NEW refused \in SUBSET toDelete, DeleteDevices(refused)
       PROVE  PlanInv'
  BY <1>16 DEF DeleteDevices, PlanInv
<1>17. CASE Crash \/ EndRun
  BY <1>17, <1>r DEF Crash, EndRun
<1>18. CASE Cancel
  BY <1>1, <1>18 DEF Cancel
<1>19. ASSUME NEW name \in Managed, OthersCreateLabel(name) PROVE PlanInv'
  BY <1>1, <1>19 DEF OthersCreateLabel
<1>20. ASSUME NEW id \in DOMAIN onDevice, NEW l \in Custom, Touch(id, l)
       PROVE  PlanInv'
  <2>1. DOMAIN onDevice' = DOMAIN onDevice
    BY <1>20 DEF Touch
  <2> QED BY <1>20, <2>1 DEF Touch, PlanInv, Live, Target
<1>21. CASE UNCHANGED vars
  BY <1>1, <1>21 DEF vars
<1> QED
  BY <1>2, <1>3, <1>4, <1>5, <1>6, <1>7, <1>8, <1>9, <1>10, <1>11, <1>12, <1>13,
     <1>14, <1>15, <1>16, <1>17, <1>18, <1>19, <1>20, <1>21, <1>d
  DEF Next, AgentStep

LEMMA TypeInvariant == Spec => []TypeInv
<1>1. TypeInv /\ [Next]_vars => TypeInv'
  BY TypeStep, PlanStep DEF TypeInv
<1> QED BY <1>1, TypeInit, PTL DEF Spec

(***************************************************************************)
(* Every reachable state has the declared types; in particular a mapping   *)
(* is only saved for a device that Kentik has, with labels that were       *)
(* fetched.                                                                *)
(***************************************************************************)
THEOREM LabelsTypeCorrect == Spec => []TypeOK
  BY TypeInvariant, PTL DEF TypeInv

-----------------------------------------------------------------------------
(***************************************************************************)
(* HandEditsKept is inductive with what is known about the device between  *)
(* its read and its write: the agent holds what people want on it, except  *)
(* for their edits since the read.                                         *)
(***************************************************************************)
ReadInv ==
    phase = "write" =>
        \A l \in Custom :
            \/ <<Target(current), l>> \in raced
            \/ l \in unmanaged <=> l \in hand[Target(current)]

HandInv == HandEditsKept /\ ReadInv

LEMMA HandInit == Init => HandInv
  BY DEF Init, HandInv, HandEditsKept, ReadInv

LEMMA HandStep == TypeInv /\ HandInv /\ [Next]_vars => HandInv'
<1> SUFFICES ASSUME TypeInv, HandInv, [Next]_vars PROVE HandInv'
  OBVIOUS
<1> USE LabelSyncAssumption DEF HandInv, netboxVars, storeVars, kentikVars,
                                handVars, planVars, batchVars, lostVars
<1>t. TypeOK /\ PlanInv
  BY DEF TypeInv
<1>1. ASSUME UNCHANGED <<onDevice, handVars>>, phase' # "write" PROVE HandInv'
  BY <1>1 DEF HandEditsKept, ReadInv
<1>2. ASSUME UNCHANGED <<device, mapping, onDevice, handVars, stage, batchVars,
                         phase>>
      PROVE  HandInv'
  BY <1>2 DEF HandEditsKept, ReadInv, Target
<1>3. CASE StartRun \/ DevicesFail \/ LabelsFetchFails \/ EmptyBatch \/ ApplyDone
           \/ EndBatch \/ CommitLabels
  BY <1>1, <1>3, <1>t DEF StartRun, DevicesFail, LabelsFetchFails, EmptyBatch,
     ApplyDone, EndBatch, NextBatch, CommitLabels, TypeOK, Stages
<1>4. CASE Crash \/ EndRun
  BY <1>1, <1>4 DEF Crash, EndRun, ResetRun
<1>d. CASE CommitDevices \/ \E d \in Devices : RecordDevice(d) \/ Forget(d)
  BY <1>1, <1>d DEF CommitDevices, RecordDevice, Forget
<1>5. CASE Cancel
  BY <1>2, <1>5 DEF Cancel
<1>6. ASSUME NEW t \in Types, MarkerAges(t) PROVE HandInv'
  BY <1>2, <1>6 DEF MarkerAges
<1>7. ASSUME NEW d \in Devices, EditDevice(d) PROVE HandInv'
  BY <1>2, <1>7 DEF EditDevice
<1>8. ASSUME NEW name \in Managed, OthersCreateLabel(name) PROVE HandInv'
  BY <1>2, <1>8 DEF OthersCreateLabel
<1>9. ASSUME NEW items \in SUBSET Present, FetchLabels(items) PROVE HandInv'
  BY <1>1, <1>9 DEF FetchLabels
<1>10. CASE ListLabels
  BY <1>1, <1>10 DEF ListLabels, FailBatch
<1>11. ASSUME NEW name \in Managed, CreateLabel(name) PROVE HandInv'
  BY <1>1, <1>11 DEF CreateLabel, FailBatch
<1>12. ASSUME NEW d \in Devices, SaveLabels(d) PROVE HandInv'
  BY <1>1, <1>12 DEF SaveLabels
(***************************************************************************)
(* A device that is created has no labels, nor does anyone want any yet;   *)
(* the other devices are left alone.                                       *)
(***************************************************************************)
<1>13. ASSUME NEW seen \in SUBSET Present, NEW refused \in SUBSET seen,
              NEW lost \in BOOLEAN, CreateDevices(seen, refused, lost)
       PROVE  HandInv'
  <2>1. HandEditsKept'
    BY <1>13, <1>t DEF CreateDevices, HandEditsKept, TypeOK
  <2> QED BY <1>13, <2>1 DEF CreateDevices, ReadInv
<1>14. ASSUME NEW refused \in SUBSET toDelete, DeleteDevices(refused)
       PROVE  HandInv'
  <2>1. ASSUME NEW removed, RemoveIds(removed) PROVE HandEditsKept'
    BY <2>1, <1>t DEF RemoveIds, HandEditsKept, TypeOK
  <2>2. HandEditsKept'
    BY <1>14, <2>1 DEF DeleteDevices, HandEditsKept
  <2> QED BY <1>14, <2>2 DEF DeleteDevices, ReadInv
(***************************************************************************)
(* The agent reads all labels that are not its own, and writes them back.  *)
(***************************************************************************)
<1>15. ASSUME NEW d \in Devices, ReadLabels(d) PROVE HandInv'
  <2>1. CASE phase' # "write"
    BY <1>1, <1>15, <2>1 DEF ReadLabels
  <2>2. CASE phase' = "write"
    <3>1. /\ current' = d /\ Target(current)' = Target(d)
          /\ Live(Target(d)) /\ unmanaged' = UnmanagedOf(Target(d))
      BY <1>15, <2>2 DEF ReadLabels, Target
    <3>2. \A l \in Custom : l \in unmanaged' <=> l \in onDevice[Target(d)]
      BY <3>1 DEF UnmanagedOf
    <3> QED
      BY <1>15, <3>1, <3>2 DEF ReadLabels, HandEditsKept, ReadInv, Live
  <2> QED BY <2>1, <2>2
<1>w. ASSUME phase = "write", onDevice' \in {onDevice, Replaced(Target(current))},
             UNCHANGED handVars
      PROVE  HandEditsKept'
  <2>1. \A l \in Custom : l \in Replaced(Target(current))[Target(current)]
                                <=> l \in unmanaged
    BY <1>t, <1>w DEF Replaced, PlanInv, TypeOK, Live
  <2>2. /\ DOMAIN onDevice' = DOMAIN onDevice
        /\ \A id \in DOMAIN onDevice :
               \/ onDevice'[id] = onDevice[id]
               \/ /\ id = Target(current)
                  /\ \A l \in Custom : l \in onDevice'[id] <=> l \in unmanaged
    BY <1>w, <2>1 DEF Replaced
  <2> QED BY <1>w, <2>2 DEF HandEditsKept, ReadInv
<1>16. CASE WriteLabels
  <2>1. onDevice' \in {onDevice, Replaced(Target(current))}
    BY <1>16 DEF WriteLabels
  <2> QED BY <1>16, <1>w, <2>1 DEF WriteLabels, ReadInv
<1>17. CASE RetryWrite
  <2>1. HandEditsKept'
    BY <1>17, <1>w DEF RetryWrite
  <2>2. ReadInv'
    BY <1>17 DEF RetryWrite, ReadInv, Target
  <2> QED BY <2>1, <2>2
(***************************************************************************)
(* An edit by hand.                                                        *)
(***************************************************************************)
<1>18. ASSUME NEW id \in DOMAIN onDevice, NEW l \in Custom, Touch(id, l)
       PROVE  HandInv'
  <2>1. /\ DOMAIN onDevice' = DOMAIN onDevice
        /\ DOMAIN hand = DOMAIN onDevice
        /\ \A i \in DOMAIN onDevice, k \in Custom :
              IF i = id /\ k = l
              THEN l \in onDevice'[id] <=> l \in hand'[id]
              ELSE /\ k \in onDevice'[i] <=> k \in onDevice[i]
                   /\ k \in hand'[i] <=> k \in hand[i]
    BY <1>18, <1>t DEF Touch, Toggle, TypeOK
  <2>2. \A i \in DOMAIN onDevice, k \in Custom :
            i # id \/ k # l => (<<i, k>> \in raced' <=> <<i, k>> \in raced)
    BY <1>18 DEF Touch
  <2>3. HandEditsKept'
    BY <2>1, <2>2 DEF HandEditsKept
  <2>4. ReadInv'
    <3>1. phase' = "write" => Live(Target(current)) /\ Target(current)' = Target(current)
      BY <1>18, <1>t DEF Touch, PlanInv, Target
    <3>2. phase' = "write" /\ Target(current) = id => <<id, l>> \in raced'
      BY <1>18 DEF Touch
    <3> QED
      BY <1>18, <2>1, <2>2, <3>1, <3>2 DEF Touch, ReadInv, Live
  <2> QED BY <2>3, <2>4
<1>19. CASE UNCHANGED vars
  BY <1>2, <1>19 DEF vars
<1> QED
  BY <1>3, <1>4, <1>5, <1>6, <1>7, <1>8, <1>9, <1>10, <1>11, <1>12, <1>13,
     <1>14, <1>15, <1>16, <1>17, <1>18, <1>19, <1>d
  DEF Next, AgentStep

(***************************************************************************)
(* While writes are executed before their calls return, no run and no fault*)
(* undoes what people do to a device's own labels, but for an edit between *)
(* the agent's read of that device and its last attempt to write           *)
(* (destination/kentik/labels.go, Apply).                                  *)
(***************************************************************************)
THEOREM HandEditsKeptHolds == Spec => []HandEditsKept
<1>1. TypeInv /\ HandInv /\ [Next]_vars => HandInv'
  BY HandStep
<1>2. HandInv => HandEditsKept
  BY DEF HandInv
<1> QED BY <1>1, <1>2, TypeInvariant, HandInit, PTL DEF Spec

-----------------------------------------------------------------------------
(***************************************************************************)
(* IDs are not used again, and each belongs to one device of NetBox.       *)
(***************************************************************************)
IdInv ==
    /\ \A id \in DOMAIN onDevice : id[2] <= serial[id[1]]
    /\ \A d \in Devices : device[d] # None =>
            device[d][1] = d /\ device[d][2] <= serial[d]
    /\ \A d \in Devices : mapping[d] # None =>
            mapping[d].id[1] = d /\ mapping[d].id[2] <= serial[d]

LEMMA IdInit == Init => IdInv
  BY DEF Init, IdInv, Blank

LEMMA IdStep == TypeInv /\ IdInv /\ [Next]_vars => IdInv'
<1> SUFFICES ASSUME TypeInv, IdInv, [Next]_vars PROVE IdInv'
  OBVIOUS
<1> USE LabelSyncAssumption DEF netboxVars, storeVars, kentikVars, handVars,
                                planVars, batchVars, lostVars
<1>t. TypeOK /\ PlanInv
  BY DEF TypeInv
<1>1. ASSUME UNCHANGED <<device, mapping, serial>>,
             DOMAIN onDevice' \subseteq DOMAIN onDevice
      PROVE  IdInv'
  BY <1>1 DEF IdInv
<1>2. ASSUME NEW seen \in SUBSET Present, NEW refused \in SUBSET seen,
             NEW lost \in BOOLEAN, CreateDevices(seen, refused, lost)
      PROVE  IdInv'
  <2> DEFINE new == {d \in seen \ refused : device[d] = None}
  <2>1. /\ new \subseteq Devices
        /\ \A d \in Devices : serial'[d] = IF d \in new THEN serial[d] + 1
                                                        ELSE serial[d]
        /\ DOMAIN onDevice' = DOMAIN onDevice \cup {NewId(d) : d \in new}
        /\ mapping' = mapping /\ device' = device
    BY <1>2 DEF CreateDevices, Present
  <2>2. \A d \in Devices : serial[d] \in Nat /\ serial[d] <= serial'[d]
    BY <1>t, <2>1 DEF TypeOK
  <2>3. ASSUME NEW id \in DOMAIN onDevice' PROVE id[2] <= serial'[id[1]]
    <3>1. CASE id \in DOMAIN onDevice
      <4>1. id[1] \in Devices /\ id[2] \in Nat /\ id[2] <= serial[id[1]]
        BY <1>t, <3>1 DEF IdInv, TypeOK, Ids
      <4>2. serial'[id[1]] \in Nat /\ serial[id[1]] \in Nat
        BY <2>1, <2>2, <4>1
      <4> QED BY <2>2, <4>1, <4>2
    <3>2. CASE \E d \in new : id = NewId(d)
      BY <1>t, <2>1, <3>2 DEF NewId, TypeOK
    <3> QED BY <2>1, <3>1, <3>2
  <2>4. ASSUME NEW d \in Devices, device'[d] # None
        PROVE  device'[d][1] = d /\ device'[d][2] <= serial'[d]
    BY <1>t, <2>1, <2>2, <2>4 DEF IdInv, TypeOK, Ids
  <2>5. ASSUME NEW d \in Devices, mapping'[d] # None
        PROVE  mapping'[d].id[1] = d /\ mapping'[d].id[2] <= serial'[d]
    BY <1>t, <2>1, <2>2, <2>5 DEF IdInv, TypeOK, Mapping, Ids
  <2> QED BY <2>3, <2>4, <2>5 DEF IdInv
<1>3. CASE WriteLabels \/ RetryWrite
  BY <1>1, <1>3 DEF WriteLabels, RetryWrite, Replaced
<1>4. ASSUME NEW d \in Devices, SaveLabels(d) PROVE IdInv'
  BY <1>4, <1>t DEF SaveLabels, Saved, IdInv, PlanInv, TypeOK
<1>5. ASSUME NEW refused \in SUBSET toDelete, DeleteDevices(refused)
      PROVE  IdInv'
  BY <1>1, <1>5 DEF DeleteDevices, RemoveIds
<1>d. ASSUME NEW d \in Devices, RecordDevice(d) PROVE IdInv'
  BY <1>d, <1>t DEF RecordDevice, IdInv, TypeOK
<1>g. ASSUME NEW d \in Devices, Forget(d) PROVE IdInv'
  BY <1>g, <1>t DEF Forget, IdInv, TypeOK
<1>6. ASSUME NEW id \in DOMAIN onDevice, NEW l \in Custom, Touch(id, l)
      PROVE  IdInv'
  BY <1>1, <1>6 DEF Touch
<1>7. CASE \/ \E t \in Types : MarkerAges(t)
           \/ \E d \in Devices : EditDevice(d) \/ ReadLabels(d)
           \/ \E name \in Managed : OthersCreateLabel(name) \/ CreateLabel(name)
           \/ \E items \in SUBSET Present : FetchLabels(items)
  BY <1>1, <1>7 DEF MarkerAges, EditDevice, ReadLabels, OthersCreateLabel,
     CreateLabel, FetchLabels
<1>8. CASE \/ StartRun \/ DevicesFail \/ LabelsFetchFails \/ EmptyBatch
           \/ ListLabels \/ ApplyDone \/ EndBatch \/ CommitLabels \/ Crash
           \/ Cancel \/ CommitDevices \/ EndRun \/ UNCHANGED vars
  BY <1>1, <1>8 DEF StartRun, DevicesFail, LabelsFetchFails, EmptyBatch,
     ListLabels, ApplyDone, EndBatch, NextBatch, CommitLabels, Crash, Cancel,
     CommitDevices, EndRun, vars
<1> QED
  BY <1>2, <1>3, <1>4, <1>5, <1>6, <1>7, <1>8, <1>d, <1>g DEF Next, AgentStep

(***************************************************************************)
(* What the store says of a device is true, unless it is doubtful or being *)
(* written to; and a device that was written to, and is not yet saved, has *)
(* the labels that were fetched for it, because none of them was without an*)
(* ID when it was read.                                                    *)
(***************************************************************************)
Truthful(d) ==
    mapping[d] # None /\ Live(mapping[d].id)
        => onDevice[mapping[d].id] \cap Managed = mapping[d].labels

Done(d) ==
    Live(device[d]) /\ onDevice[device[d]] \cap Managed = snap[d]

TruthInv ==
    /\ \A d \in Devices \ (doubtful \cup applied) : Truthful(d)
    /\ stage # "clear" => \A d \in applied : Done(d)
    /\ phase = "write" /\ stage # "clear" => snap[current] \subseteq ids

LEMMA TruthInit == Init => TruthInv
  BY DEF Init, TruthInv, Truthful, Blank

LEMMA TruthStep ==
    TypeInv /\ TypeInv' /\ IdInv /\ TruthInv /\ [Next]_vars => TruthInv'
<1> SUFFICES ASSUME TypeInv, TypeInv', IdInv, TruthInv, [Next]_vars
             PROVE  TruthInv'
  OBVIOUS
<1> USE LabelSyncAssumption DEF netboxVars, storeVars, kentikVars, handVars,
                                planVars, batchVars, lostVars
<1>t. TypeOK /\ PlanInv /\ TypeOK' /\ PlanInv'
  BY DEF TypeInv
<1>1. ASSUME UNCHANGED <<device, mapping, onDevice, applied, doubtful>>,
             phase' # "write",
             stage' # "clear" => applied = {} \/ (stage # "clear" /\ snap' = snap)
      PROVE  TruthInv'
  BY <1>1 DEF TruthInv, Truthful, Done, Live
<1>2. ASSUME UNCHANGED <<device, mapping, onDevice, stage, snap, batchVars,
                         phase, doubtful>>
      PROVE  TruthInv'
  BY <1>2 DEF TruthInv, Truthful, Done, Live
<1>3. CASE \/ StartRun \/ DevicesFail \/ LabelsFetchFails
           \/ ApplyDone \/ CommitLabels \/ CommitDevices
  BY <1>1, <1>3, <1>t DEF StartRun, DevicesFail, LabelsFetchFails, ApplyDone,
     CommitLabels, CommitDevices, TypeOK, Stages
<1>b. CASE EmptyBatch \/ EndBatch
  <2>1. NextBatch /\ applied = {}
    BY <1>t, <1>b DEF EmptyBatch, EndBatch, PlanInv
  <2> QED BY <1>1, <1>t, <2>1 DEF NextBatch, TypeOK, Stages
<1>4. CASE ListLabels
  BY <1>1, <1>4 DEF ListLabels, FailBatch
<1>5. ASSUME NEW name \in Managed, CreateLabel(name) PROVE TruthInv'
  BY <1>1, <1>5 DEF CreateLabel, FailBatch
<1>6. ASSUME NEW items \in SUBSET Present, FetchLabels(items) PROVE TruthInv'
  <2>1. applied = {}
    BY <1>6, <1>t DEF FetchLabels, PlanInv
  <2>2. /\ UNCHANGED <<device, mapping, onDevice, applied, doubtful>>
        /\ phase' # "write"
    BY <1>6 DEF FetchLabels
  <2> QED BY <1>1, <2>1, <2>2
<1>7. CASE \/ \E t \in Types : MarkerAges(t)
           \/ \E d \in Devices : EditDevice(d)
           \/ \E name \in Managed : OthersCreateLabel(name)
           \/ Cancel \/ UNCHANGED vars
  BY <1>2, <1>7 DEF MarkerAges, EditDevice, OthersCreateLabel, Cancel, vars
<1>8. CASE Crash \/ EndRun
  <2>1. \A d \in Devices \ (doubtful' \cup applied') : Truthful(d)
    BY <1>8, <1>t DEF Crash, EndRun, ResetRun, PlanInv, TruthInv
  <2> QED
    BY <1>8, <2>1 DEF Crash, EndRun, ResetRun, TruthInv, Truthful, Live
(***************************************************************************)
(* Devices come and go, but not under a recorded ID.                       *)
(***************************************************************************)
<1>9. ASSUME NEW seen \in SUBSET Present, NEW refused \in SUBSET seen,
             NEW lost \in BOOLEAN, CreateDevices(seen, refused, lost)
      PROVE  TruthInv'
  <2> DEFINE new == {d \in seen \ refused : device[d] = None}
             idsOf == {NewId(d) : d \in new}
  <2>1. /\ new \subseteq Devices
        /\ onDevice' = [id \in DOMAIN onDevice \cup idsOf |->
                          IF id \in idsOf THEN {} ELSE onDevice[id]]
        /\ mapping' = mapping /\ applied' = applied /\ doubtful' = doubtful
        /\ phase' = "record" /\ applied = {}
    BY <1>9, <1>t DEF CreateDevices, Present, PlanInv
  <2>2. ASSUME NEW d \in Devices, mapping[d] # None
        PROVE  mapping[d].id \notin idsOf
    <3>1. mapping[d].id[1] = d /\ mapping[d].id[2] <= serial[d]
      BY <2>2 DEF IdInv
    <3>2. ASSUME NEW e \in new PROVE mapping[d].id # NewId(e)
      BY <1>t, <2>1, <3>1 DEF NewId, TypeOK
    <3> QED BY <3>2
  <2>3. ASSUME NEW d \in Devices, Truthful(d) PROVE Truthful(d)'
    BY <2>1, <2>2, <2>3 DEF Truthful, Live
  <2> QED BY <2>1, <2>3 DEF TruthInv
<1>10. ASSUME NEW refused \in SUBSET toDelete, DeleteDevices(refused)
       PROVE  TruthInv'
  <2>1. /\ UNCHANGED <<mapping, applied, doubtful>>
        /\ applied = {} /\ phase' = "forget"
    BY <1>10, <1>t DEF DeleteDevices, PlanInv
  <2>2. /\ DOMAIN onDevice' \subseteq DOMAIN onDevice
        /\ \A id \in DOMAIN onDevice' : onDevice'[id] = onDevice[id]
    BY <1>10 DEF DeleteDevices, RemoveIds
  <2> QED BY <2>1, <2>2 DEF TruthInv, Truthful, Live
<1>d. CASE \E d \in Devices : RecordDevice(d) \/ Forget(d)
  <2>1. /\ UNCHANGED <<mapping, onDevice, applied, doubtful>>
        /\ applied = {} /\ phase' \in {"record", "forget"}
    BY <1>d, <1>t DEF RecordDevice, Forget, PlanInv
  <2> QED BY <2>1 DEF TruthInv, Truthful, Live
(***************************************************************************)
(* Reading, when all labels have an ID, and writing.                       *)
(***************************************************************************)
<1>11. ASSUME NEW d \in Devices, ReadLabels(d) PROVE TruthInv'
  <2>1. CASE phase' # "write"
    BY <1>1, <1>11, <2>1 DEF ReadLabels
  <2>2. CASE phase' = "write"
    <3>1. current' = d /\ d \in Batch /\ Unresolved = {}
      BY <1>11, <2>2 DEF ReadLabels
    <3>2. Desired(d) \subseteq UNION {Desired(e) : e \in Batch}
      BY <3>1
    <3>3. Desired(d) \subseteq ids
      BY <3>1, <3>2 DEF Unresolved
    <3> QED
      BY <1>11, <3>1, <3>3 DEF ReadLabels, Desired, TruthInv, Truthful, Done,
         Live
  <2> QED BY <2>1, <2>2
<1>w. ASSUME phase = "write", onDevice' \in {onDevice, Replaced(Target(current))},
             UNCHANGED <<device, mapping, snap, stage>>
      PROVE  /\ current \in Devices
             /\ \A d \in Devices \ {current} : Truthful(d) => Truthful(d)'
             /\ stage # "clear" => \A d \in Devices :
                    \/ d \in applied
                    \/ d = current /\ onDevice' = Replaced(Target(current))
                    => Done(d)'
  <2>1. /\ current \in plan[stage] /\ current \in Devices
        /\ Live(Target(current)) /\ stage \in Stages
    BY <1>t, <1>w DEF PlanInv, TypeOK
  <2>2. stage = "clear" => mapping[current] # None
    BY <1>t, <2>1 DEF PlanInv
  <2>3. stage # "clear" => device[current] # None
    BY <1>t, <2>1 DEF Target, Live, TypeOK
  <2>4. Target(current)[1] = current
    BY <2>1, <2>2, <2>3 DEF Target, IdInv
  <2>5. /\ DOMAIN onDevice' = DOMAIN onDevice
        /\ \A id \in DOMAIN onDevice :
               id[1] # current => onDevice'[id] = onDevice[id]
    BY <1>w, <2>4 DEF Replaced
  <2>6. \A d \in Devices \ {current} : Truthful(d) => Truthful(d)'
    BY <1>w, <2>5 DEF Truthful, Live, IdInv
  <2>7. ASSUME stage # "clear", onDevice' = Replaced(Target(current)),
               NEW d \in Devices, d = current
        PROVE  Done(d)'
    <3>1. snap[d] \subseteq ids /\ ids \subseteq Managed
      BY <1>t, <1>w, <2>7 DEF TruthInv, TypeOK
    <3>2. onDevice'[Target(d)] = unmanaged \cup (snap[d] \cap ids)
      BY <2>1, <2>7 DEF Replaced, Live, Desired
    <3>3. unmanaged \cap Managed = {}
      BY <1>t DEF TypeOK
    <3>4. onDevice'[Target(d)] \cap Managed = snap[d]
      BY <3>1, <3>2, <3>3
    <3>5. Target(d) = device[d]
      BY <2>7 DEF Target
    <3> QED BY <1>w, <2>1, <2>5, <2>7, <3>4, <3>5 DEF Done, Live
  <2>8. ASSUME stage # "clear", NEW d \in applied PROVE Done(d)'
    <3>1. d \in Devices /\ device[d] \in Ids /\ Done(d)
      BY <1>t, <2>8 DEF PlanInv, TypeOK, TruthInv
    <3>2. device[d] # None
      BY <3>1
    <3>3. CASE d # current
      BY <1>w, <2>5, <3>1, <3>2, <3>3 DEF IdInv, Done, Live
    <3>4. CASE d = current /\ onDevice' = onDevice
      BY <1>w, <3>1, <3>4 DEF Done, Live
    <3>5. CASE d = current /\ onDevice' = Replaced(Target(current))
      BY <2>7, <2>8, <3>1, <3>5
    <3> QED BY <1>w, <3>3, <3>4, <3>5
  <2> QED BY <2>1, <2>6, <2>7, <2>8
<1>12. CASE WriteLabels
  <2>1. /\ phase = "write" /\ phase' = "apply"
        /\ onDevice' \in {onDevice, Replaced(Target(current))}
        /\ UNCHANGED <<device, mapping, snap, stage>>
    BY <1>12 DEF WriteLabels
  <2>2. \/ onDevice' = onDevice /\ applied' = applied /\ doubtful' = doubtful
        \/ /\ onDevice' = Replaced(Target(current)) /\ doubtful' = doubtful
           /\ applied' = applied \cup {current}
        \/ applied' = applied /\ doubtful' = doubtful \cup {current}
    BY <1>12 DEF WriteLabels
  <2>3. ASSUME NEW d \in Devices \ (doubtful' \cup applied') PROVE Truthful(d)'
    <3>1. Truthful(d)
      BY <2>2, <2>3 DEF TruthInv
    <3>2. CASE d = current
      BY <2>1, <2>2, <3>1, <3>2 DEF Truthful, Live
    <3>3. CASE d # current
      BY <1>w, <2>1, <3>1, <3>3
    <3> QED BY <3>2, <3>3
  <2>4. stage' # "clear" => \A d \in applied' : Done(d)'
    <3> SUFFICES ASSUME stage # "clear", NEW d \in applied' PROVE Done(d)'
      BY <2>1
    <3>1. d \in Devices /\ current \in Devices
      BY <1>t, <1>w, <2>1 DEF TypeOK
    <3> QED BY <1>w, <2>1, <2>2, <3>1
  <2> QED BY <2>1, <2>3, <2>4 DEF TruthInv
<1>13. CASE RetryWrite
  <2>1. /\ phase = "write" /\ onDevice' = Replaced(Target(current))
        /\ doubtful' = doubtful \cup {current} /\ applied' = applied
        /\ UNCHANGED <<device, mapping, snap, stage, ids, current>>
    BY <1>13 DEF RetryWrite
  <2>2. ASSUME NEW d \in Devices \ (doubtful' \cup applied') PROVE Truthful(d)'
    BY <1>w, <2>1, <2>2 DEF TruthInv
  <2>3. stage' # "clear" => \A d \in applied' : Done(d)'
    <3>1. applied \subseteq Devices
      BY <1>t DEF TypeOK
    <3> QED BY <1>w, <2>1, <3>1
  <2>4. phase' = "write" /\ stage' # "clear" => snap'[current'] \subseteq ids'
    BY <2>1 DEF TruthInv
  <2> QED BY <2>2, <2>3, <2>4 DEF TruthInv
(***************************************************************************)
(* Saving.                                                                 *)
(***************************************************************************)
<1>14. ASSUME NEW d \in Devices, SaveLabels(d) PROVE TruthInv'
  <2>1. /\ d \in applied /\ applied' = applied \ {d}
        /\ UNCHANGED <<onDevice, device, snap, stage, phase>>
        /\ phase = "save"
    BY <1>14 DEF SaveLabels
  <2>2. ASSUME NEW e \in Devices \ (doubtful' \cup applied'), e # d
        PROVE  Truthful(e)'
    <3>1. mapping'[e] = mapping[e] /\ e \notin doubtful \cup applied
      BY <1>14, <1>t, <2>2 DEF SaveLabels, TypeOK
    <3> QED BY <2>1, <3>1 DEF TruthInv, Truthful, Live
  <2>3. ASSUME d \notin doubtful' PROVE Truthful(d)'
    <3>1. mapping'[d] = IF stage = "clear" THEN None ELSE Saved(d)
      BY <1>14, <1>t, <2>3 DEF SaveLabels, TypeOK
    <3>2. stage # "clear" => Done(d)
      BY <2>1 DEF TruthInv
    <3> QED BY <2>1, <3>1, <3>2 DEF Truthful, Done, Saved, Live
  <2>4. stage' # "clear" => \A e \in applied' : Done(e)'
    BY <2>1 DEF TruthInv, Done, Live
  <2> QED BY <2>1, <2>2, <2>3, <2>4 DEF TruthInv
<1>15. ASSUME NEW id \in DOMAIN onDevice, NEW l \in Custom, Touch(id, l)
       PROVE  TruthInv'
  <2>1. /\ DOMAIN onDevice' = DOMAIN onDevice
        /\ \A i \in DOMAIN onDevice :
              onDevice'[i] \cap Managed = onDevice[i] \cap Managed
    BY <1>15, <1>t DEF Touch, Toggle, TypeOK
  <2> QED
    BY <1>15, <2>1 DEF Touch, TruthInv, Truthful, Done, Live
<1> QED
  BY <1>3, <1>4, <1>5, <1>6, <1>7, <1>8, <1>9, <1>10, <1>11, <1>12, <1>13,
     <1>14, <1>15, <1>b, <1>d
  DEF Next, AgentStep

(***************************************************************************)
(* Between runs the store is true of the labels of every device that is    *)
(* not doubtful (sync/labels.go, runDeviceLabels), even though a batch may *)
(* fail as a whole or in part and the store is written only after it.      *)
(***************************************************************************)
THEOREM TruthfulLabelsHolds == Spec => []TruthfulLabels
<1>1. TypeInv /\ TypeInv' /\ IdInv /\ TruthInv /\ [Next]_vars
        => IdInv' /\ TruthInv'
  BY IdStep, TruthStep
<1>2. TypeInv /\ TruthInv => TruthfulLabels
  BY DEF TypeInv, TypeOK, PlanInv, TruthInv, Truthful, TruthfulLabels
<1> QED
  BY <1>1, <1>2, TypeInvariant, IdInit, TruthInit, PTL DEF Spec

-----------------------------------------------------------------------------
(***************************************************************************)
(* A device is recorded under the ID that was just created for it, and     *)
(* from its deletion on it is either about to be forgotten or a ghost.     *)
(***************************************************************************)
LiveInv ==
    /\ \A d \in Devices \ ghosts :
            device[d] # None =>
                \/ Live(device[d])
                \/ phase = "forget" /\ d \in confirmed
    /\ phase = "record" => \A d \in confirmed : Live(<<d, serial[d]>>)

LEMMA LiveInit == Init => LiveInv
  BY DEF Init, LiveInv, Blank

LEMMA LiveStep == TypeInv /\ IdInv /\ LiveInv /\ [Next]_vars => LiveInv'
<1> SUFFICES ASSUME TypeInv, IdInv, LiveInv, [Next]_vars PROVE LiveInv'
  OBVIOUS
<1> USE LabelSyncAssumption DEF netboxVars, storeVars, kentikVars, handVars,
                                planVars, batchVars, lostVars
<1>t. TypeOK /\ PlanInv
  BY DEF TypeInv
<1>1. ASSUME UNCHANGED <<device, serial, confirmed, phase, ghosts>>,
             DOMAIN onDevice' = DOMAIN onDevice
      PROVE  LiveInv'
  BY <1>1 DEF LiveInv, Live
<1>2. ASSUME UNCHANGED <<device, ghosts>>, DOMAIN onDevice' = DOMAIN onDevice,
             phase # "forget", phase' # "record"
      PROVE  LiveInv'
  BY <1>2 DEF LiveInv, Live
<1>3. CASE \/ StartRun \/ DevicesFail \/ CommitDevices \/ LabelsFetchFails
           \/ EmptyBatch \/ ListLabels \/ ApplyDone \/ EndBatch \/ CommitLabels
           \/ \E items \in SUBSET Present : FetchLabels(items)
           \/ \E name \in Managed : CreateLabel(name)
           \/ \E d \in Devices : ReadLabels(d) \/ SaveLabels(d)
  BY <1>2, <1>3, <1>t DEF StartRun, DevicesFail, CommitDevices,
     LabelsFetchFails, EmptyBatch, ListLabels, ApplyDone, EndBatch, NextBatch,
     CommitLabels, FetchLabels, CreateLabel, ReadLabels, SaveLabels, FailBatch,
     TypeOK, Stages
<1>4. CASE WriteLabels \/ RetryWrite
  BY <1>2, <1>4 DEF WriteLabels, RetryWrite, Replaced
<1>5. CASE \/ \E t \in Types : MarkerAges(t)
           \/ \E d \in Devices : EditDevice(d)
           \/ \E name \in Managed : OthersCreateLabel(name)
           \/ \E id \in DOMAIN onDevice, l \in Custom : Touch(id, l)
           \/ Cancel \/ UNCHANGED vars
  BY <1>1, <1>5 DEF MarkerAges, EditDevice, OthersCreateLabel, Touch, Cancel,
     vars
(***************************************************************************)
(* Creating and recording.                                                 *)
(***************************************************************************)
<1>6. ASSUME NEW seen \in SUBSET Present, NEW refused \in SUBSET seen,
             NEW lost \in BOOLEAN, CreateDevices(seen, refused, lost)
      PROVE  LiveInv'
  <2> DEFINE new == {d \in seen \ refused : device[d] = None}
  <2>1. /\ UNCHANGED <<device, ghosts>> /\ phase = "devices" /\ phase' = "record"
        /\ DOMAIN onDevice' = DOMAIN onDevice \cup {NewId(d) : d \in new}
        /\ \A d \in Devices : d \in new => serial'[d] = serial[d] + 1
    BY <1>6 DEF CreateDevices
  <2>2. new \subseteq Devices
    BY DEF Present
  <2>3. confirmed' \subseteq new
    BY <1>6 DEF CreateDevices
  <2>4. \A d \in new : <<d, serial'[d]>> = NewId(d)
    BY <2>1, <2>2 DEF NewId
  <2>5. \A d \in confirmed' : <<d, serial'[d]>> \in DOMAIN onDevice'
    BY <2>1, <2>3, <2>4
  <2> QED BY <2>1, <2>5 DEF LiveInv, Live
<1>7. ASSUME NEW d \in Devices, RecordDevice(d) PROVE LiveInv'
  BY <1>7, <1>t DEF RecordDevice, LiveInv, Live, TypeOK
(***************************************************************************)
(* Deleting and forgetting.  No two devices have the same ID.              *)
(***************************************************************************)
<1>8. ASSUME NEW refused \in SUBSET toDelete, DeleteDevices(refused)
      PROVE  LiveInv'
  <2> DEFINE done == {d \in toDelete : Live(device[d])} \ refused
  <2>1. /\ UNCHANGED device /\ phase = "remove" /\ phase' = "forget"
        /\ toDelete \subseteq Devices
    BY <1>8, <1>t DEF DeleteDevices, TypeOK
  <2>2. \/ /\ DOMAIN onDevice' = DOMAIN onDevice \ {device[d] : d \in done}
           /\ confirmed' = done /\ ghosts' = ghosts
        \/ /\ DOMAIN onDevice' = DOMAIN onDevice \ {device[d] : d \in done}
           /\ ghosts' = ghosts \cup done
        \/ onDevice' = onDevice /\ ghosts' = ghosts
    BY <1>8 DEF DeleteDevices, RemoveIds
  <2>3. ASSUME NEW d \in Devices, NEW e \in done, device[d] # None,
               device[d] = device[e]
        PROVE  d = e
    <3>1. Live(device[e]) /\ e \in Devices
      BY <2>1
    <3> QED BY <2>3, <3>1 DEF IdInv
  <2>4. ASSUME NEW d \in Devices \ ghosts', device[d] # None
        PROVE  Live(device[d])' \/ d \in confirmed'
    <3>1. Live(device[d])
      BY <2>1, <2>2, <2>4 DEF LiveInv
    <3>2. CASE \E e \in done : device[d] = device[e]
      BY <2>2, <2>3, <2>4, <3>1, <3>2, <2>1 DEF Live
    <3>3. CASE ~\E e \in done : device[d] = device[e]
      BY <2>1, <2>2, <3>1, <3>3 DEF Live
    <3> QED BY <3>2, <3>3
  <2> QED BY <2>1, <2>4 DEF LiveInv
<1>9. ASSUME NEW d \in Devices, Forget(d) PROVE LiveInv'
  BY <1>9, <1>t DEF Forget, LiveInv, Live, TypeOK
<1>10. CASE EndRun \/ Crash
  <2>1. /\ UNCHANGED <<device, onDevice>> /\ phase' = "idle"
        /\ ghosts \subseteq ghosts'
        /\ phase = "forget" => confirmed \subseteq ghosts'
    BY <1>10 DEF EndRun, Crash, ResetRun
  <2> QED BY <2>1 DEF LiveInv, Live
<1> QED
  BY <1>3, <1>4, <1>5, <1>6, <1>7, <1>8, <1>9, <1>10 DEF Next, AgentStep

(***************************************************************************)
(* Between runs the store names devices that Kentik has, but for those     *)
(* whose deletion went through without the store being told                *)
(* (sync/devices.go, runDevices and deleteDevices), for any devices, edits,*)
(* faults and missed pages.                                                *)
(***************************************************************************)
THEOREM MappedDevicesLiveHolds == Spec => []MappedDevicesLive
<1>1. TypeInv /\ IdInv /\ LiveInv /\ [Next]_vars => IdInv' /\ LiveInv'
  BY IdStep, LiveStep
<1>2. LiveInv => MappedDevicesLive
  BY DEF LiveInv, MappedDevicesLive
<1> QED
  BY <1>1, <1>2, TypeInvariant, IdInit, LiveInit, PTL DEF Spec

=============================================================================
