-------------------------- MODULE KentikCallProofs --------------------------
(***************************************************************************)
(* Proof that the retry loop keeps the contract of a call, for any number  *)
(* of calls, any limit on the attempts and any limiter.                    *)
(***************************************************************************)
EXTENDS KentikCall, FiniteSetTheorems, TLAPS

(***************************************************************************)
(* Every variable of Client.call and its surroundings keeps its type.      *)
(***************************************************************************)
LEMMA CallTypeStep == TypeOK /\ [Next]_vars => TypeOK'
<1> SUFFICES ASSUME TypeOK, [Next]_vars PROVE TypeOK'
  OBVIOUS
<1> USE KentikCallAssumption DEF TypeOK
<1>1. ASSUME NEW c \in Calls, Retry(c)
      PROVE  /\ pc' \in [Calls -> {"idle", "limiter", "sent", "backoff", "ok",
                                   "failed"}]
             /\ attempt' \in [Calls -> Attempts]
  BY <1>1 DEF Retry, AttemptsLeft, NextAttempt, Exhausted, Goto, Attempts
<1>2. CASE \E c \in Calls : Begin(c) \/ BackoffOver(c)
  BY <1>2 DEF Begin, BackoffOver, Goto
<1>3. ASSUME NEW c \in Calls, Send(c) PROVE TypeOK'
  <2>1. tokens' \in 0..Burst
    BY <1>3 DEF Send
  <2>2. transit' \subseteq Requests
    BY <1>3 DEF Send, Current, Requests
  <2> QED BY <1>3, <2>1, <2>2 DEF Send, Goto
<1>4. ASSUME NEW c \in Calls, NEW code \in Codes, Answered(c, code)
      PROVE  TypeOK'
  <2>1. /\ pc' \in [Calls -> {"idle", "limiter", "sent", "backoff", "ok",
                              "failed"}]
        /\ attempt' \in [Calls -> Attempts]
    BY <1>1, <1>4 DEF Answered, Goto
  <2> QED BY <1>4, <2>1 DEF Answered
<1>5. ASSUME NEW c \in Calls, Unanswered(c) PROVE TypeOK'
  BY <1>1, <1>5 DEF Unanswered
<1>6. ASSUME NEW c \in Calls, Abandon(c) PROVE TypeOK'
  BY <1>6 DEF Abandon, Goto
<1>7. ASSUME NEW request \in Requests, NEW code \in Codes, Serve(request, code)
      PROVE  TypeOK'
  BY <1>7 DEF Serve
<1>8. CASE Refill
  <2>1. tokens' \in 0..Burst
    BY <1>8 DEF Refill
  <2> QED BY <1>8, <2>1 DEF Refill
<1>10. CASE Cancel
  BY <1>10 DEF Cancel
<1>9. CASE UNCHANGED vars
  BY <1>9 DEF vars
<1> QED
  BY <1>2, <1>3, <1>4, <1>5, <1>6, <1>7, <1>8, <1>9, <1>10 DEF Next, ClientStep

-----------------------------------------------------------------------------
(***************************************************************************)
(* The inductive invariant.  A request is served at most once and answered *)
(* as it was served; the requests of a call are those of its attempts so   *)
(* far; a call told ok was executed; and a call that is not in doubt has   *)
(* at most its last request at Kentik, while it waits for the answer or    *)
(* after it was told ok.                                                   *)
(***************************************************************************)
ServedOnce ==
    /\ transit \cap executed = {}
    /\ \A r \in Requests, code \in Codes : <<r, code>> \in replies =>
        /\ r \notin transit
        /\ code = "OK" <=> r \in executed

Outstanding(c, n) ==
    \/ <<c, n>> \in transit \cup executed
    \/ \E code \in Codes : <<<<c, n>>, code>> \in replies

NoFutureRequest ==
    \A c \in Calls, n \in Attempts : Outstanding(c, n) =>
        \/ n < attempt[c]
        \/ n = attempt[c] /\ pc[c] \in {"sent", "ok", "failed"}

OkExecuted == \A c \in Calls : pc[c] = "ok" => Current(c) \in executed

ExactUnlessInDoubt ==
    \A c \in Calls : ~doubt[c] =>
        \A n \in Attempts : <<c, n>> \in transit \cup executed =>
            /\ n = attempt[c]
            /\ pc[c] \in {"sent", "ok"}
            /\ pc[c] = "ok" => <<c, n>> \notin transit

CallInv ==
    /\ TypeOK
    /\ ServedOnce
    /\ NoFutureRequest
    /\ OkExecuted
    /\ ExactUnlessInDoubt

LEMMA CallInvInit == Init => CallInv
<1> SUFFICES ASSUME Init PROVE CallInv
  OBVIOUS
<1>1. attempt \in [Calls -> Attempts] /\ tokens \in 0..Burst
  BY KentikCallAssumption DEF Init, Attempts
<1>2. TypeOK
  BY <1>1 DEF Init, TypeOK
<1>3. ServedOnce /\ NoFutureRequest
  BY DEF Init, ServedOnce, NoFutureRequest, Outstanding
<1>4. OkExecuted /\ ExactUnlessInDoubt
  BY DEF Init, OkExecuted, ExactUnlessInDoubt
<1> QED BY <1>2, <1>3, <1>4 DEF CallInv

(***************************************************************************)
(* A call that goes on, or fails, after a failed attempt has none of its   *)
(* former requests ahead of it.                                            *)
(***************************************************************************)
LEMMA RetryFacts ==
  ASSUME TypeOK, NEW c \in Calls, pc[c] = "sent", Retry(c)
  PROVE  /\ pc'[c] \in {"backoff", "failed"}
         /\ pc'[c] = "backoff" => attempt'[c] = attempt[c] + 1
         /\ pc'[c] = "failed" => attempt'[c] = attempt[c]
         /\ \A d \in Calls \ {c} : pc'[d] = pc[d] /\ attempt'[d] = attempt[d]
  BY DEF TypeOK, Retry, AttemptsLeft, NextAttempt, Exhausted, Goto

LEMMA CallInvStep == CallInv /\ [Next]_vars => CallInv'
<1> SUFFICES ASSUME CallInv, [Next]_vars PROVE CallInv'
  OBVIOUS
<1> USE DEF CallInv
<1>t. TypeOK'
  BY CallTypeStep
<1>a. \A c \in Calls : attempt[c] \in Attempts /\ attempt[c] \in Nat
  BY KentikCallAssumption DEF TypeOK, Attempts
<1>b. \A n \in Attempts : n \in Nat
  BY KentikCallAssumption DEF Attempts
<1>1. ASSUME NEW c \in Calls,
             pc[c] \in {"idle", "backoff", "limiter"},
             pc' = [pc EXCEPT ![c] = "limiter"] \/ pc' = [pc EXCEPT ![c] = "failed"],
             UNCHANGED <<attempt, transit, replies, executed, doubt>>
      PROVE  CallInv'
  <2>1. /\ pc'[c] \notin {"sent", "ok"}
        /\ \A d \in Calls \ {c} : pc'[d] = pc[d]
    BY <1>1 DEF TypeOK
  <2>2. ServedOnce'
    BY <1>1 DEF ServedOnce
  <2>3. NoFutureRequest'
    BY <1>1, <2>1 DEF NoFutureRequest, Outstanding
  <2>4. OkExecuted'
    BY <1>1, <2>1 DEF OkExecuted, Current
  <2>5. ExactUnlessInDoubt'
    BY <1>1, <2>1 DEF ExactUnlessInDoubt
  <2> QED BY <1>t, <2>2, <2>3, <2>4, <2>5
<1>2. ASSUME NEW c \in Calls, Send(c) PROVE CallInv'
  <2>1. /\ pc[c] = "limiter"
        /\ pc'[c] = "sent"
        /\ \A d \in Calls \ {c} : pc'[d] = pc[d]
        /\ transit' = transit \cup {<<c, attempt[c]>>}
        /\ UNCHANGED <<attempt, replies, executed, doubt>>
    BY <1>2 DEF Send, Goto, Current, TypeOK
  <2>2. ~Outstanding(c, attempt[c])
    BY <2>1, <1>a DEF NoFutureRequest
  <2>3. ServedOnce'
    BY <2>1, <2>2 DEF ServedOnce, Outstanding
  <2>4. NoFutureRequest'
    <3> SUFFICES ASSUME NEW d \in Calls, NEW n \in Attempts, Outstanding(d, n)'
                 PROVE  \/ n < attempt'[d]
                        \/ n = attempt'[d] /\ pc'[d] \in {"sent", "ok", "failed"}
      BY DEF NoFutureRequest
    <3>1. CASE <<d, n>> = <<c, attempt[c]>>
      BY <3>1, <2>1
    <3>2. CASE <<d, n>> # <<c, attempt[c]>>
      <4>1. Outstanding(d, n)
        BY <3>2, <2>1 DEF Outstanding
      <4> QED BY <4>1, <2>1 DEF NoFutureRequest
    <3> QED BY <3>1, <3>2
  <2>5. OkExecuted'
    BY <2>1 DEF OkExecuted, Current
  <2>6. ExactUnlessInDoubt'
    BY <2>1, <2>2 DEF ExactUnlessInDoubt
  <2> QED BY <1>t, <2>3, <2>4, <2>5, <2>6
<1>3. ASSUME NEW c \in Calls, NEW code \in Codes, Answered(c, code)
      PROVE  CallInv'
  <2> DEFINE r == <<c, attempt[c]>>
  <2>1. /\ pc[c] = "sent"
        /\ r \in Requests
        /\ <<r, code>> \in replies
        /\ replies' \subseteq replies
        /\ UNCHANGED <<transit, executed, doubt>>
    BY <1>3, <1>a DEF Answered, Current, Requests
  <2>2. r \notin transit /\ (code = "OK" <=> r \in executed)
    BY <2>1 DEF ServedOnce
  <2>3. /\ \A d \in Calls \ {c} : pc'[d] = pc[d] /\ attempt'[d] = attempt[d]
        /\ \/ code = "OK" /\ pc'[c] = "ok" /\ attempt'[c] = attempt[c]
           \/ code # "OK" /\ pc'[c] = "failed" /\ attempt'[c] = attempt[c]
           \/ code # "OK" /\ pc'[c] = "backoff" /\ attempt'[c] = attempt[c] + 1
    <3>1. CASE code = "transient"
      <4>1. Retry(c)
        BY <1>3, <3>1 DEF Answered
      <4> QED BY <3>1, <4>1, <2>1, RetryFacts
    <3>2. CASE code # "transient"
      BY <1>3, <3>2 DEF Answered, Goto, TypeOK
    <3> QED BY <3>1, <3>2
  <2> HIDE DEF r
  <2>4. ServedOnce'
    BY <2>1 DEF ServedOnce
  <2>5. NoFutureRequest'
    <3> SUFFICES ASSUME NEW d \in Calls, NEW n \in Attempts, Outstanding(d, n)'
                 PROVE  \/ n < attempt'[d]
                        \/ n = attempt'[d] /\ pc'[d] \in {"sent", "ok", "failed"}
      BY DEF NoFutureRequest
    <3>1. Outstanding(d, n)
      BY <2>1 DEF Outstanding
    <3>2. CASE d = c
      <4>1. n < attempt[c] \/ n = attempt[c]
        BY <3>1, <3>2 DEF NoFutureRequest
      <4> QED BY <4>1, <3>2, <2>3, <1>a, <1>b
    <3>3. CASE d # c
      BY <3>1, <3>3, <2>3 DEF NoFutureRequest
    <3> QED BY <3>2, <3>3
  <2>6. OkExecuted'
    BY <2>1, <2>2, <2>3 DEF OkExecuted, Current, r
  <2>7. ExactUnlessInDoubt'
    <3> SUFFICES ASSUME NEW d \in Calls, ~doubt[d], NEW n \in Attempts,
                        <<d, n>> \in transit \cup executed
                 PROVE  /\ n = attempt'[d]
                        /\ pc'[d] \in {"sent", "ok"}
                        /\ pc'[d] = "ok" => <<d, n>> \notin transit
      BY <2>1 DEF ExactUnlessInDoubt
    <3>1. CASE d = c
      <4>1. n = attempt[c]
        BY <3>1 DEF ExactUnlessInDoubt
      <4> QED BY <4>1, <3>1, <2>2, <2>3 DEF r
    <3>2. CASE d # c
      BY <3>2, <2>3 DEF ExactUnlessInDoubt
    <3> QED BY <3>1, <3>2
  <2> QED BY <1>t, <2>4, <2>5, <2>6, <2>7
<1>4. ASSUME NEW c \in Calls, pc[c] = "sent", doubt' = [doubt EXCEPT ![c] = TRUE],
             UNCHANGED <<transit, replies, executed>>,
             \A d \in Calls \ {c} : pc'[d] = pc[d] /\ attempt'[d] = attempt[d],
             \/ pc'[c] = "failed" /\ attempt'[c] = attempt[c]
             \/ pc'[c] = "backoff" /\ attempt'[c] = attempt[c] + 1
      PROVE  CallInv'
  <2>1. ServedOnce'
    BY <1>4 DEF ServedOnce
  <2>2. NoFutureRequest'
    <3> SUFFICES ASSUME NEW d \in Calls, NEW n \in Attempts, Outstanding(d, n)'
                 PROVE  \/ n < attempt'[d]
                        \/ n = attempt'[d] /\ pc'[d] \in {"sent", "ok", "failed"}
      BY DEF NoFutureRequest
    <3>1. Outstanding(d, n)
      BY <1>4 DEF Outstanding
    <3>2. n < attempt[d] \/ (n = attempt[d] /\ pc[d] \in {"sent", "ok", "failed"})
      BY <3>1 DEF NoFutureRequest
    <3>3. CASE d = c
      BY <3>2, <3>3, <1>4, <1>a, <1>b
    <3>4. CASE d # c
      BY <3>2, <3>4, <1>4
    <3> QED BY <3>3, <3>4
  <2>3. OkExecuted'
    BY <1>4 DEF OkExecuted, Current
  <2>4. /\ doubt'[c] = TRUE
        /\ \A d \in Calls \ {c} : doubt'[d] = doubt[d]
    BY <1>4 DEF TypeOK
  <2>5. ExactUnlessInDoubt'
    BY <1>4, <2>4 DEF ExactUnlessInDoubt
  <2> QED BY <1>t, <2>1, <2>2, <2>3, <2>5
<1>5. ASSUME NEW c \in Calls, Unanswered(c) PROVE CallInv'
  BY <1>4, <1>5, RetryFacts DEF Unanswered
<1>6. ASSUME NEW c \in Calls, Abandon(c) PROVE CallInv'
  <2>1. CASE pc[c] = "sent"
    <3>1. doubt' = [doubt EXCEPT ![c] = TRUE]
      BY <1>6, <2>1 DEF Abandon
    <3>2. /\ pc'[c] = "failed" /\ attempt'[c] = attempt[c]
          /\ \A d \in Calls \ {c} : pc'[d] = pc[d] /\ attempt'[d] = attempt[d]
          /\ UNCHANGED <<transit, replies, executed>>
      BY <1>6 DEF Abandon, Goto, TypeOK
    <3> QED BY <1>4, <2>1, <3>1, <3>2
  <2>2. CASE pc[c] # "sent"
    <3>1. doubt' = doubt
      <4>1. doubt' = [doubt EXCEPT ![c] = doubt[c] \/ FALSE]
        BY <1>6, <2>2 DEF Abandon
      <4>2. (doubt[c] \/ FALSE) = doubt[c]
        BY DEF TypeOK
      <4>3. doubt' = [doubt EXCEPT ![c] = doubt[c]]
        BY <4>1, <4>2, Zenon
      <4> QED BY <4>3 DEF TypeOK
    <3> QED BY <1>1, <1>6, <2>2, <3>1 DEF Abandon, Goto
  <2> QED BY <2>1, <2>2
<1>7. ASSUME NEW request \in Requests, NEW code \in Codes, Serve(request, code)
      PROVE  CallInv'
  <2>1. /\ request \in transit
        /\ transit' = transit \ {request}
        /\ replies' = replies \cup {<<request, code>>}
        /\ executed' = IF code = "OK" THEN executed \cup {request} ELSE executed
        /\ UNCHANGED <<pc, attempt, doubt>>
    BY <1>7 DEF Serve
  <2>2. request \notin executed
    BY <2>1 DEF ServedOnce
  <2>3. ServedOnce'
    <3>1. transit' \cap executed' = {}
      BY <2>1 DEF ServedOnce
    <3> SUFFICES ASSUME NEW r \in Requests, NEW k \in Codes, <<r, k>> \in replies'
                 PROVE  r \notin transit' /\ (k = "OK" <=> r \in executed')
      BY <3>1 DEF ServedOnce
    <3>2. CASE r = request
      <4>1. <<r, k>> \notin replies
        BY <3>2, <2>1 DEF ServedOnce
      <4>2. k = code
        BY <4>1, <2>1
      <4> QED BY <3>2, <4>2, <2>1, <2>2
    <3>3. CASE r # request
      <4>1. <<r, k>> \in replies
        BY <3>3, <2>1
      <4>2. r \notin transit /\ (k = "OK" <=> r \in executed)
        BY <4>1 DEF ServedOnce
      <4> QED BY <3>3, <4>2, <2>1
    <3> QED BY <3>2, <3>3
  <2>4. \A c \in Calls, n \in Attempts :
            <<c, n>> \in transit' \cup executed' => <<c, n>> \in transit \cup executed
    BY <2>1
  <2>5. NoFutureRequest'
    <3> SUFFICES ASSUME NEW c \in Calls, NEW n \in Attempts, Outstanding(c, n)'
                 PROVE  Outstanding(c, n)
      BY <2>1 DEF NoFutureRequest
    <3> QED BY <2>1, <2>4 DEF Outstanding
  <2>6. OkExecuted'
    BY <2>1 DEF OkExecuted, Current
  <2>7. ExactUnlessInDoubt'
    BY <2>1, <2>4 DEF ExactUnlessInDoubt
  <2> QED BY <1>t, <2>3, <2>5, <2>6, <2>7
<1>8. CASE UNCHANGED <<pc, attempt, transit, replies, executed, doubt>>
  <2>1. ServedOnce' /\ NoFutureRequest' /\ OkExecuted' /\ ExactUnlessInDoubt'
    BY <1>8 DEF ServedOnce, NoFutureRequest, Outstanding, OkExecuted, Current,
                ExactUnlessInDoubt
  <2> QED BY <1>t, <2>1
<1>9. ASSUME NEW c \in Calls, Begin(c) \/ BackoffOver(c) PROVE CallInv'
  BY <1>1, <1>9 DEF Begin, BackoffOver, Goto
<1> QED
  BY <1>2, <1>3, <1>5, <1>6, <1>7, <1>8, <1>9
     DEF Next, ClientStep, Refill, Cancel, vars

(***************************************************************************)
(* Every reachable state of the retry loop satisfies the invariant.        *)
(***************************************************************************)
LEMMA CallInvHolds == Spec => []CallInv
  BY CallInvInit, CallInvStep, PTL DEF Spec

(***************************************************************************)
(* Every variable of the retry loop always has its type.                   *)
(***************************************************************************)
THEOREM CallTypeCorrect == Spec => []TypeOK
<1>1. CallInv => TypeOK
  BY DEF CallInv
<1> QED BY <1>1, CallInvHolds, PTL

-----------------------------------------------------------------------------
(***************************************************************************)
(* How often a call was executed is the number of its executed requests.   *)
(***************************************************************************)
DoneOf(c) == {n \in Attempts : <<c, n>> \in executed}

LEMMA TimesFacts ==
  ASSUME NEW c \in Calls
  PROVE  /\ IsFiniteSet(DoneOf(c))
         /\ Times[c] = Cardinality(DoneOf(c))
         /\ Times[c] \in Nat
         /\ Times[c] = 0 <=> DoneOf(c) = {}
<1>1. IsFiniteSet(Attempts)
  BY FS_Interval, KentikCallAssumption DEF Attempts
<1>2. DoneOf(c) \in SUBSET Attempts
  BY DEF DoneOf
<1>3. IsFiniteSet(DoneOf(c))
  BY <1>1, <1>2, FS_Subset
<1>4. Times[c] = Cardinality(DoneOf(c))
  BY DEF Times, DoneOf
<1> QED BY <1>3, <1>4, FS_CardinalityType, FS_EmptySet

(***************************************************************************)
(* Executing a request that was not executed before counts once, and the   *)
(* count does not exceed the number of attempts.                           *)
(***************************************************************************)
LEMMA TimesStep ==
  ASSUME NEW c \in Calls, NEW n \in Attempts, <<c, n>> \notin executed,
         executed' = executed \cup {<<c, n>>}
  PROVE  Times' = [Times EXCEPT ![c] = @ + 1] /\ Times[c] < MaxAttempts
<1>1. DoneOf(c)' = DoneOf(c) \cup {n} /\ n \notin DoneOf(c)
  BY DEF DoneOf
<1>2. /\ IsFiniteSet(DoneOf(c) \cup {n})
      /\ Cardinality(DoneOf(c) \cup {n}) = Cardinality(DoneOf(c)) + 1
  BY <1>1, TimesFacts, FS_AddElement
<1>3. \A d \in Calls \ {c} : DoneOf(d)' = DoneOf(d)
  BY DEF DoneOf
<1>4. /\ Times = [d \in Calls |-> Cardinality(DoneOf(d))]
      /\ Times' = [d \in Calls |-> Cardinality(DoneOf(d)')]
  BY DEF Times, DoneOf
<1>5. IsFiniteSet(Attempts) /\ Cardinality(Attempts) = MaxAttempts
  BY FS_Interval, KentikCallAssumption DEF Attempts
<1>6. DoneOf(c) \cup {n} \in SUBSET Attempts
  BY DEF DoneOf
<1>7. Cardinality(DoneOf(c)) + 1 <= MaxAttempts
  BY <1>2, <1>5, <1>6, FS_Subset
<1>8. Times[c] < MaxAttempts
  BY <1>7, TimesFacts, KentikCallAssumption
<1>9. Times' = [Times EXCEPT ![c] = @ + 1]
  BY <1>1, <1>2, <1>3, <1>4
<1> QED BY <1>8, <1>9

(***************************************************************************)
(* The retry loop implements the contract of a call: every step of it is a *)
(* step of the contract or leaves the contract's state alone.              *)
(***************************************************************************)
LEMMA ContractInit == Init => Contract!Init
<1> SUFFICES ASSUME Init PROVE Contract!Init
  OBVIOUS
<1>1. Told = [c \in Calls |-> "waiting"]
  BY DEF Init, Told
<1>2. \A c \in Calls : DoneOf(c) = {}
  BY DEF Init, DoneOf
<1>3. \A c \in Calls : Times[c] = 0
  BY <1>2, TimesFacts
<1>4. Times = [c \in Calls |-> 0]
  BY <1>3 DEF Times
<1> QED BY <1>1, <1>4 DEF Init, Contract!Init

LEMMA ContractStep ==
  CallInv /\ [Next]_vars => [Contract!Next]_Contract!vars
<1> SUFFICES ASSUME CallInv, [Next]_vars PROVE [Contract!Next]_Contract!vars
  OBVIOUS
<1> USE DEF CallInv
<1>u. executed' = executed => Times' = Times
  BY DEF Times
<1>v. ASSUME UNCHANGED <<executed, doubt>>, Told' = Told
      PROVE  UNCHANGED Contract!vars
  BY <1>u, <1>v DEF Contract!vars
<1>w. ASSUME NEW c \in Calls, NEW v, pc' = [pc EXCEPT ![c] = v],
             pc[c] \notin {"ok", "failed"}
      PROVE  /\ Told[c] = "waiting"
             /\ Told' = [Told EXCEPT ![c] =
                           IF v \in {"ok", "failed"} THEN v ELSE "waiting"]
             /\ v \notin {"ok", "failed"} => Told' = Told
  BY <1>w DEF Told, TypeOK
<1>x. ASSUME NEW c \in Calls, Told[c] = "waiting",
             ~doubt[c], pc[c] # "sent" \/ Current(c) \notin executed
      PROVE  Times[c] = 0
  <2>1. pc[c] # "ok"
    BY <1>x DEF Told
  <2>2. DoneOf(c) = {}
    BY <1>x, <2>1 DEF DoneOf, ExactUnlessInDoubt, Current
  <2> QED BY <2>2, TimesFacts
<1>1. ASSUME NEW c \in Calls, Begin(c) \/ Send(c) \/ BackoffOver(c)
      PROVE  UNCHANGED Contract!vars
  <2>1. /\ UNCHANGED <<executed, doubt>>
        /\ pc[c] \notin {"ok", "failed"}
        /\ pc' = [pc EXCEPT ![c] = "limiter"] \/ pc' = [pc EXCEPT ![c] = "sent"]
    BY <1>1 DEF Begin, Send, BackoffOver, Goto
  <2>2. Told' = Told
    BY <1>w, <2>1
  <2> QED BY <2>1, <2>2, <1>v
<1>2. ASSUME NEW c \in Calls, NEW code \in Codes, Answered(c, code)
      PROVE  [Contract!Next]_Contract!vars
  <2>1. /\ pc[c] = "sent"
        /\ UNCHANGED <<executed, doubt>>
        /\ <<Current(c), code>> \in replies
        /\ Current(c) \in Requests
    BY <1>2 DEF Answered, Current, Requests, TypeOK
  <2>2. code = "OK" <=> Current(c) \in executed
    BY <2>1 DEF ServedOnce
  <2>3. CASE pc' = [pc EXCEPT ![c] = "ok"] /\ code = "OK"
    <3>1. Told[c] = "waiting" /\ Told' = [Told EXCEPT ![c] = "ok"]
      BY <1>w, <2>1, <2>3
    <3>2. attempt[c] \in DoneOf(c)
      BY <2>2, <2>3 DEF DoneOf, Current, TypeOK
    <3>3. Times[c] > 0
      BY <3>2, TimesFacts
    <3>4. Contract!ReturnOk(c)
      BY <2>1, <3>1, <3>3, <1>u DEF Contract!ReturnOk
    <3> QED BY <3>4 DEF Contract!Next
  <2>4. CASE pc' = [pc EXCEPT ![c] = "failed"] /\ code # "OK"
    <3>1. Told[c] = "waiting" /\ Told' = [Told EXCEPT ![c] = "failed"]
      BY <1>w, <2>1, <2>4
    <3>2. doubt[c] \/ Times[c] = 0
      BY <1>x, <2>2, <2>4, <3>1
    <3>3. Contract!ReturnFailed(c)
      BY <2>1, <3>1, <3>2, <1>u DEF Contract!ReturnFailed
    <3> QED BY <3>3 DEF Contract!Next
  <2>5. CASE pc' = [pc EXCEPT ![c] = "backoff"]
    <3>1. Told' = Told
      BY <2>1, <2>5 DEF Told, TypeOK
    <3> QED BY <2>1, <3>1, <1>v
  <2>6. \/ pc' = [pc EXCEPT ![c] = "ok"] /\ code = "OK"
        \/ pc' = [pc EXCEPT ![c] = "failed"] /\ code # "OK"
        \/ pc' = [pc EXCEPT ![c] = "backoff"]
    BY <1>2 DEF Answered, Retry, Exhausted, Goto
  <2> QED BY <2>3, <2>4, <2>5, <2>6
<1>3. ASSUME NEW c \in Calls, pc[c] \notin {"ok", "failed"},
             UNCHANGED executed, doubt' = [doubt EXCEPT ![c] = TRUE],
             pc' = [pc EXCEPT ![c] = "failed"] \/ pc' = [pc EXCEPT ![c] = "backoff"]
      PROVE  Contract!Next
  <2>1. /\ Told[c] = "waiting"
        /\ Told' \in {Told, [Told EXCEPT ![c] = "failed"]}
    BY <1>w, <1>3
  <2>2. Contract!Unanswered(c)
    BY <1>3, <2>1, <1>u DEF Contract!Unanswered
  <2> QED BY <2>2 DEF Contract!Next
<1>4. ASSUME NEW c \in Calls, Unanswered(c) PROVE Contract!Next
  BY <1>3, <1>4 DEF Unanswered, Retry, Exhausted, Goto
<1>5. ASSUME NEW c \in Calls, Abandon(c) PROVE Contract!Next
  <2>1. /\ pc[c] \notin {"ok", "failed"}
        /\ pc' = [pc EXCEPT ![c] = "failed"]
        /\ UNCHANGED executed
    BY <1>5 DEF Abandon, Goto
  <2>2. CASE pc[c] = "sent"
    <3>1. doubt' = [doubt EXCEPT ![c] = TRUE]
      BY <1>5, <2>2 DEF Abandon
    <3> QED BY <1>3, <2>1, <3>1
  <2>3. CASE pc[c] # "sent"
    <3>1. doubt' = [doubt EXCEPT ![c] = doubt[c] \/ FALSE]
      BY <1>5, <2>3 DEF Abandon
    <3>2. (doubt[c] \/ FALSE) = doubt[c]
      BY DEF TypeOK
    <3>3. doubt' = [doubt EXCEPT ![c] = doubt[c]]
      BY <3>1, <3>2, Zenon
    <3>4. doubt' = doubt
      BY <3>3 DEF TypeOK
    <3>5. Told[c] = "waiting" /\ Told' = [Told EXCEPT ![c] = "failed"]
      BY <1>w, <2>1
    <3>6. doubt[c] \/ Times[c] = 0
      BY <1>x, <2>3, <3>5
    <3>7. Contract!ReturnFailed(c)
      BY <2>1, <3>4, <3>5, <3>6, <1>u DEF Contract!ReturnFailed
    <3> QED BY <3>7 DEF Contract!Next
  <2> QED BY <2>2, <2>3
<1>6. ASSUME NEW request \in Requests, NEW code \in Codes, Serve(request, code)
      PROVE  [Contract!Next]_Contract!vars
  <2>1. PICK c \in Calls, n \in Attempts : request = <<c, n>>
    BY DEF Requests
  <2>2. /\ <<c, n>> \in transit
        /\ executed' = IF code = "OK" THEN executed \cup {<<c, n>>} ELSE executed
        /\ UNCHANGED <<pc, doubt>>
        /\ Told' = Told
    BY <1>6, <2>1 DEF Serve, Told
  <2>3. CASE code # "OK"
    BY <2>2, <2>3, <1>v
  <2>4. CASE code = "OK"
    <3>1. <<c, n>> \notin executed
      BY <2>2, <2>1 DEF ServedOnce
    <3>2. Times' = [Times EXCEPT ![c] = @ + 1] /\ Times[c] < MaxAttempts
      BY <3>1, <2>2, <2>4, TimesStep
    <3>3. ASSUME ~doubt[c] PROVE Told[c] = "waiting" /\ Times[c] = 0
      <4>1. n = attempt[c] /\ pc[c] = "sent"
        BY <2>2, <3>3 DEF ExactUnlessInDoubt
      <4>2. Told[c] = "waiting"
        BY <4>1 DEF Told
      <4> QED BY <1>x, <3>1, <3>3, <4>1, <4>2 DEF Current
    <3>4. Contract!Execute(c)
      BY <2>2, <3>2, <3>3 DEF Contract!Execute
    <3> QED BY <3>4 DEF Contract!Next
  <2> QED BY <2>3, <2>4
<1>7. CASE Refill \/ Cancel \/ UNCHANGED vars
  <2>1. UNCHANGED <<executed, doubt>> /\ Told' = Told
    BY <1>7 DEF Refill, Cancel, vars, Told
  <2> QED BY <2>1, <1>v
<1> QED
  BY <1>1, <1>2, <1>4, <1>5, <1>6, <1>7 DEF Next, ClientStep

(***************************************************************************)
(* Client.call keeps the contract of CallContract, whatever Kentik does.   *)
(***************************************************************************)
THEOREM CallKeepsContract == Spec => ContractSpec
<1>1. Init => Contract!Init
  BY ContractInit
<1>2. CallInv /\ [Next]_vars => [Contract!Next]_Contract!vars
  BY ContractStep
<1> QED BY <1>1, <1>2, CallInvHolds, PTL DEF Spec, ContractSpec, Contract!Spec

(***************************************************************************)
(* AnswersExact: what the other modules take for granted of a call         *)
(* (retry.go, Client.call) holds for any number of calls and attempts.     *)
(***************************************************************************)
THEOREM AnswersAreExact == Spec => []AnswersExact
<1>1. CallInv => AnswersExact
  <2> SUFFICES ASSUME CallInv, NEW c \in Calls
               PROVE  /\ Times[c] <= MaxAttempts
                      /\ Told[c] = "ok" => Times[c] >= 1
                      /\ ~doubt[c] /\ Told[c] = "ok" => Times[c] = 1
                      /\ ~doubt[c] /\ Told[c] = "failed" => Times[c] = 0
                      /\ ~doubt[c] /\ Told[c] # "waiting" =>
                            \A n \in Attempts : <<c, n>> \notin transit
    BY DEF AnswersExact
  <2>1. /\ Times[c] = Cardinality(DoneOf(c)) /\ Times[c] \in Nat
        /\ Times[c] = 0 <=> DoneOf(c) = {}
    BY TimesFacts
  <2>2. /\ Told[c] = "ok" <=> pc[c] = "ok"
        /\ Told[c] = "failed" <=> pc[c] = "failed"
        /\ Told[c] # "waiting" <=> pc[c] \in {"ok", "failed"}
    BY DEF Told
  <2>3. Times[c] <= MaxAttempts
    <3>1. IsFiniteSet(Attempts) /\ Cardinality(Attempts) = MaxAttempts
      BY FS_Interval, KentikCallAssumption DEF Attempts
    <3>2. DoneOf(c) \in SUBSET Attempts
      BY DEF DoneOf
    <3>3. QED BY <2>1, <3>1, <3>2, FS_Subset
  <2>4. ASSUME pc[c] = "ok" PROVE attempt[c] \in DoneOf(c) /\ Times[c] >= 1
    <3>1. attempt[c] \in DoneOf(c)
      BY <2>4 DEF CallInv, TypeOK, OkExecuted, Current, DoneOf
    <3>2. QED BY <2>1, <3>1
  <2>5. ASSUME ~doubt[c], pc[c] = "ok" PROVE Times[c] = 1
    <3>1. DoneOf(c) = {attempt[c]}
      BY <2>4, <2>5 DEF CallInv, ExactUnlessInDoubt, DoneOf
    <3>2. QED BY <2>1, <3>1, FS_Singleton
  <2>6. ASSUME ~doubt[c], pc[c] = "failed" PROVE Times[c] = 0
    <3>1. DoneOf(c) = {}
      BY <2>6 DEF CallInv, ExactUnlessInDoubt, DoneOf
    <3>2. QED BY <2>1, <3>1
  <2>7. ASSUME ~doubt[c], pc[c] \in {"ok", "failed"}, NEW n \in Attempts
        PROVE  <<c, n>> \notin transit
    BY <2>7 DEF CallInv, ExactUnlessInDoubt
  <2>8. QED BY <2>2, <2>3, <2>4, <2>5, <2>6, <2>7
<1>2. QED BY <1>1, CallInvHolds, PTL

=============================================================================
