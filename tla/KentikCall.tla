----------------------------- MODULE KentikCall -----------------------------
(***************************************************************************)
(* Client.call (internal/destination/kentik/retry.go): the loop that sends *)
(* one Kentik RPC up to maxAttempts times, under a rate limiter that the   *)
(* runs of all sources share and a context that SIGTERM cancels.           *)
(*                                                                         *)
(* A request travels; Kentik executes or refuses it, and answers.  An      *)
(* attempt whose answer is late (the per-attempt timeout) or whose         *)
(* connection breaks ends without an answer, while its request may still   *)
(* be executed.                                                            *)
(***************************************************************************)
EXTENDS Naturals, FiniteSets

CONSTANTS
    Calls,          \* the calls made, each by a run of its own
    MaxAttempts,    \* maxAttempts, 5 in the code
    Burst           \* the burst of the rate limiter

ASSUME KentikCallAssumption ==
    /\ MaxAttempts \in Nat \ {0}
    /\ Burst \in Nat \ {0}

VARIABLES
    pc,         \* pc[c]: where call c is
    attempt,    \* attempt[c]: the loop variable
    tokens,     \* tokens in the limiter's bucket
    cancelled,  \* the context is cancelled
    transit,    \* requests <<c, n>> sent and not yet served
    replies,    \* answers <<request, code>> not yet received
    executed,   \* requests that Kentik has executed
    doubt       \* doubt[c]: some attempt of c ended without an answer

vars == <<pc, attempt, tokens, cancelled, transit, replies, executed, doubt>>

Attempts == 0..MaxAttempts - 1
Requests == Calls \X Attempts
Codes == {"OK", "transient", "permanent"}

Init ==
    /\ pc = [c \in Calls |-> "idle"]
    /\ attempt = [c \in Calls |-> 0]
    /\ tokens = Burst
    /\ cancelled = FALSE
    /\ transit = {}
    /\ replies = {}
    /\ executed = {}
    /\ doubt = [c \in Calls |-> FALSE]

Goto(c, where) == pc' = [pc EXCEPT ![c] = where]

Current(c) == <<c, attempt[c]>>

-----------------------------------------------------------------------------
Begin(c) ==
    /\ pc[c] = "idle"
    /\ Goto(c, "limiter")
    /\ UNCHANGED <<attempt, tokens, cancelled, transit, replies, executed,
                   doubt>>

(***************************************************************************)
(* limiter.Wait returns, and the attempt is sent.                          *)
(***************************************************************************)
Send(c) ==
    /\ pc[c] = "limiter"
    /\ tokens > 0 /\ ~cancelled
    /\ tokens' = tokens - 1
    /\ transit' = transit \cup {Current(c)}
    /\ Goto(c, "sent")
    /\ UNCHANGED <<attempt, cancelled, replies, executed, doubt>>

(***************************************************************************)
(* What follows a failed attempt: a transient error is retried, after a    *)
(* backoff, until the attempts are used up.                                *)
(***************************************************************************)
\* Mutant: one attempt too many.
MutantAttemptsLeft(c) == attempt[c] < MaxAttempts

AttemptsLeft(c) == attempt[c] + 1 < MaxAttempts

\* Mutant: the attempt is repeated without being counted.
MutantNextAttempt(c) == attempt[c]

NextAttempt(c) == attempt[c] + 1

\* Mutant: the loop falls through to a nil error.
MutantExhausted(c) == Goto(c, "ok") /\ UNCHANGED attempt

Exhausted(c) == Goto(c, "failed") /\ UNCHANGED attempt

Retry(c) ==
    IF AttemptsLeft(c)
      THEN /\ Goto(c, "backoff")
           /\ attempt' = [attempt EXCEPT ![c] = NextAttempt(c)]
      ELSE Exhausted(c)

Answered(c, code) ==
    /\ pc[c] = "sent"
    /\ <<Current(c), code>> \in replies
    /\ replies' = replies \ {<<Current(c), code>>}
    /\ \/ code = "OK" /\ Goto(c, "ok") /\ UNCHANGED attempt
       \/ code = "transient" /\ Retry(c)
       \/ code = "permanent" /\ Goto(c, "failed") /\ UNCHANGED attempt
    /\ UNCHANGED <<tokens, cancelled, transit, executed, doubt>>

(***************************************************************************)
(* DeadlineExceeded, or Unavailable because the connection broke.          *)
(***************************************************************************)
Unanswered(c) ==
    /\ pc[c] = "sent"
    /\ Retry(c)
    /\ doubt' = [doubt EXCEPT ![c] = TRUE]
    /\ UNCHANGED <<tokens, cancelled, transit, replies, executed>>

BackoffOver(c) ==
    /\ pc[c] = "backoff"
    /\ Goto(c, "limiter")
    /\ UNCHANGED <<attempt, tokens, cancelled, transit, replies, executed,
                   doubt>>

(***************************************************************************)
(* Under a cancelled context the backoff, the limiter and the RPC itself   *)
(* each return at once, with an error that is not retried.                 *)
(***************************************************************************)
\* Mutant: the error of the cancelled context is dropped.
MutantAbandon(c) ==
    /\ cancelled
    /\ pc[c] \in {"backoff", "limiter", "sent"}
    /\ Goto(c, "ok")
    /\ doubt' = [doubt EXCEPT ![c] = @ \/ pc[c] = "sent"]
    /\ UNCHANGED <<attempt, tokens, cancelled, transit, replies, executed>>

Abandon(c) ==
    /\ cancelled
    /\ pc[c] \in {"backoff", "limiter", "sent"}
    /\ Goto(c, "failed")
    /\ doubt' = [doubt EXCEPT ![c] = @ \/ pc[c] = "sent"]
    /\ UNCHANGED <<attempt, tokens, cancelled, transit, replies, executed>>

-----------------------------------------------------------------------------
(***************************************************************************)
(* Kentik serves a request, also one the client no longer waits for.       *)
(***************************************************************************)
Serve(request, code) ==
    /\ request \in transit
    /\ transit' = transit \ {request}
    /\ replies' = replies \cup {<<request, code>>}
    /\ executed' = IF code = "OK" THEN executed \cup {request} ELSE executed
    /\ UNCHANGED <<pc, attempt, tokens, cancelled, doubt>>

Refill ==
    /\ tokens < Burst
    /\ tokens' = tokens + 1
    /\ UNCHANGED <<pc, attempt, cancelled, transit, replies, executed, doubt>>

Cancel ==
    /\ ~cancelled
    /\ cancelled' = TRUE
    /\ UNCHANGED <<pc, attempt, tokens, transit, replies, executed, doubt>>

-----------------------------------------------------------------------------
ClientStep(c) ==
    \/ Begin(c)
    \/ Send(c)
    \/ \E code \in Codes : Answered(c, code)
    \/ Unanswered(c)
    \/ BackoffOver(c)
    \/ Abandon(c)

Next ==
    \/ \E c \in Calls : ClientStep(c)
    \/ \E request \in Requests, code \in Codes : Serve(request, code)
    \/ Refill
    \/ Cancel

Spec == Init /\ [][Next]_vars

(***************************************************************************)
(* The client's timers fire and its limiter refills.  A waiter of the      *)
(* limiter holds a reservation with a time of its own, so the others cannot*)
(* starve it.  Kentik owes nothing: it may never answer.                   *)
(***************************************************************************)
Fairness ==
    /\ WF_vars(Refill)
    /\ \A c \in Calls :
        /\ SF_vars(Send(c))
        /\ WF_vars(Unanswered(c) \/ BackoffOver(c) \/ Abandon(c))

FairSpec == Spec /\ Fairness

-----------------------------------------------------------------------------
(***************************************************************************)
(* Every variable has its type: no call is sent more than MaxAttempts      *)
(* times.                                                                  *)
(***************************************************************************)
TypeOK ==
    /\ pc \in [Calls -> {"idle", "limiter", "sent", "backoff", "ok", "failed"}]
    /\ attempt \in [Calls -> Attempts]
    /\ tokens \in 0..Burst
    /\ cancelled \in BOOLEAN
    /\ transit \subseteq Requests
    /\ replies \subseteq Requests \X Codes
    /\ executed \subseteq Requests
    /\ doubt \in [Calls -> BOOLEAN]

(***************************************************************************)
(* The retry loop keeps the contract of a call, which is the one SyncEngine*)
(* relies on in its CallOutcomes.                                          *)
(***************************************************************************)
Told == [c \in Calls |-> IF pc[c] \in {"ok", "failed"} THEN pc[c]
                                                       ELSE "waiting"]

Times == [c \in Calls |-> Cardinality({n \in Attempts : <<c, n>> \in executed})]

Contract == INSTANCE CallContract WITH told <- Told, times <- Times

ContractSpec == Contract!Spec

(***************************************************************************)
(* AnswersExact: what SyncEngine, IPGroupSync and LabelSync take for       *)
(* granted of a call (retry.go, Client.call).  One that is told ok was     *)
(* executed, and none is executed more often than it may be attempted.     *)
(* Unless some attempt went unanswered, a call that is told ok was executed*)
(* exactly once, one that is told failed was not executed at all, however  *)
(* often it was tried and wherever a cancellation found it, and in neither *)
(* case a request of it is still on its way.                               *)
(***************************************************************************)
AnswersExact ==
    \A c \in Calls :
        /\ Times[c] <= MaxAttempts
        /\ Told[c] = "ok" => Times[c] >= 1
        /\ ~doubt[c] /\ Told[c] = "ok" => Times[c] = 1
        /\ ~doubt[c] /\ Told[c] = "failed" => Times[c] = 0
        /\ ~doubt[c] /\ Told[c] # "waiting" =>
              \A n \in Attempts : <<c, n>> \notin transit

(***************************************************************************)
(* Every call returns, even if Kentik never answers.                       *)
(***************************************************************************)
EveryCallReturns ==
    \A c \in Calls : pc[c] # "idle" ~> pc[c] \in {"ok", "failed"}

=============================================================================
