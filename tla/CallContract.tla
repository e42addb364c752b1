---------------------------- MODULE CallContract ----------------------------
(***************************************************************************)
(* What a caller of Client.call may rely on, whatever goes on underneath.  *)
(* A call is told "ok" only after Kentik has executed it.  As long as every*)
(* attempt was answered, the answer is exact: "ok" means executed once and *)
(* "failed" means not executed.  Once an attempt went unanswered the call  *)
(* is in doubt: it may be executed up to once per attempt, even after the  *)
(* caller was told something.                                              *)
(***************************************************************************)
EXTENDS Naturals

CONSTANTS
    Calls,          \* the calls
    MaxAttempts     \* how often one call may be sent

VARIABLES
    told,           \* told[c]: "waiting", "ok" or "failed"
    times,          \* times[c]: how often Kentik has executed c
    doubt           \* doubt[c]: some attempt of c was not answered

vars == <<told, times, doubt>>

Init ==
    /\ told = [c \in Calls |-> "waiting"]
    /\ times = [c \in Calls |-> 0]
    /\ doubt = [c \in Calls |-> FALSE]

Execute(c) ==
    /\ times[c] < MaxAttempts
    /\ ~doubt[c] => told[c] = "waiting" /\ times[c] = 0
    /\ times' = [times EXCEPT ![c] = @ + 1]
    /\ UNCHANGED <<told, doubt>>

(***************************************************************************)
(* An attempt goes unanswered; the call goes on, or it is the last one.    *)
(***************************************************************************)
Unanswered(c) ==
    /\ told[c] = "waiting"
    /\ told' \in {told, [told EXCEPT ![c] = "failed"]}
    /\ doubt' = [doubt EXCEPT ![c] = TRUE]
    /\ UNCHANGED times

ReturnOk(c) ==
    /\ told[c] = "waiting"
    /\ times[c] > 0
    /\ told' = [told EXCEPT ![c] = "ok"]
    /\ UNCHANGED <<times, doubt>>

ReturnFailed(c) ==
    /\ told[c] = "waiting"
    /\ doubt[c] \/ times[c] = 0
    /\ told' = [told EXCEPT ![c] = "failed"]
    /\ UNCHANGED <<times, doubt>>

Next == \E c \in Calls :
            Execute(c) \/ Unanswered(c) \/ ReturnOk(c) \/ ReturnFailed(c)

Spec == Init /\ [][Next]_vars

=============================================================================
