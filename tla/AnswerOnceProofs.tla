--------------------------- MODULE AnswerOnceProofs ---------------------------
(***************************************************************************)
(* Every behaviour of ResponseElection is one of AnswerOnce, under the     *)
(* mapping of Promise.                                                     *)
(***************************************************************************)
EXTENDS ResponseElectionProofs

Stutter == UNCHANGED <<Running, Executed, Answer>>

LEMMA SameWork ==
  ASSUME from' = from,
         \A q \in Reqs : \/ work'[q] = work[q]
                         \/ {work[q], work'[q]} \intersect {"none", "running"} = {}
  PROVE  Stutter
<1>1. Running' = Running /\ Executed' = Executed
  BY DEF Running, Executed
<1>2. Answer' = Answer
  BY DEF Answer
<1> QED BY <1>1, <1>2 DEF Stutter

\* A handler answers with the result of an execution nobody answered with.
LEMMA FirstAnswer ==
  ASSUME TypeOK, OneAnswerPerElection', NEW r \in Reqs, NEW s \in Reqs,
         \A q \in Reqs : from[q] # r, from[s] = NoReq,
         from' = [from EXCEPT ![s] = r]
  PROVE  Answer[r] = NoReq /\ Answer' = [Answer EXCEPT ![r] = s]
<1>1. Answer[r] = NoReq
  BY DEF Answer
<1>2. \A q \in Reqs : from'[q] = IF q = s THEN r ELSE from[q]
  BY DEF TypeOK
<1>3. from'[s] = r /\ \A q \in Reqs : from'[q] = r => q = s
  BY <1>2
<1>4. (CHOOSE q \in Reqs : from'[q] = r) = s
  BY <1>3
<1>5. ASSUME NEW t \in Reqs, t # r PROVE Answer'[t] = Answer[t]
  <2>1. \A q \in Reqs : from'[q] = t <=> from[q] = t
    BY <1>2, <1>5, ReqsAssumption
  <2>2. (CHOOSE q \in Reqs : from'[q] = t) = (CHOOSE q \in Reqs : from[q] = t)
    BY <2>1
  <2> QED BY <2>1, <2>2 DEF Answer
<1>6. Answer'[r] = s
  BY <1>3, <1>4 DEF Answer
<1>7. Answer' = [q \in Reqs |-> Answer'[q]] /\ Answer = [q \in Reqs |-> Answer[q]]
  BY DEF Answer
<1> QED BY <1>1, <1>5, <1>6, <1>7

LEMMA StartsAlone ==
  ASSUME TypeOK, Inv, NEW r \in Reqs, StartExecutor(r)
  PROVE  Promise!Start(r) \/ Stutter
<1>1. /\ phase[r] = "joined" /\ from' = from
      /\ work' = work \/ work' = [work EXCEPT ![r] = "running"]
  BY DEF StartExecutor
<1>2. CASE work' = work
  BY <1>1, <1>2, SameWork
<1>3. CASE work' = [work EXCEPT ![r] = "running"]
  <2>1. state.owner = r /\ work[r] = "none"
    BY <1>1 DEF Inv, OrderInv, LeaseInv, Lease
  <2>2. Running = {} /\ r \notin Executed
    BY <2>1 DEF Running, Executed, Inv, LeaseInv, Lease
  <2>3. \A q \in Reqs : work'[q] = IF q = r THEN "running" ELSE work[q]
    BY <1>3 DEF TypeOK
  <2>4. Running' = {r} /\ Executed' = Executed \union {r}
    BY <2>2, <2>3 DEF Running, Executed
  <2>5. Answer' = Answer
    BY <1>1 DEF Answer
  <2> QED BY <2>2, <2>4, <2>5 DEF Promise!Start
<1> QED BY <1>1, <1>2, <1>3

\* An execution that is running ends; nothing else starts or ends.
LEMMA ExecutionEnds ==
  ASSUME OneExecution, from' = from, NEW r \in Reqs, work[r] = "running",
         work'[r] \notin {"none", "running"},
         \A q \in Reqs : q = r \/ work'[q] = work[q]
                         \/ {work[q], work'[q]} \intersect {"none", "running"} = {}
  PROVE  Promise!Stop(r)
<1>1. Running = {r} /\ r \in Executed
  BY DEF Running, Executed, OneExecution
<1>2. Running' = {}
  BY DEF Running, OneExecution
<1>3. Executed' = Executed
  BY DEF Executed
<1>4. Answer' = Answer
  BY DEF Answer
<1> QED BY <1>1, <1>2, <1>3, <1>4 DEF Promise!Stop

LEMMA FailOpenDelivers ==
  ASSUME TypeOK, Inv, Inv', NEW r \in Reqs, CollectFailure(r)
  PROVE  Promise!Deliver(r, r) \/ Stutter
<1>1. /\ work' = work /\ phase[r] = "waiting"
      /\ from' = from \/ (work[r] = "aborted" /\ from' = [from EXCEPT ![r] = r])
  BY DEF CollectFailure, workers
<1>2. CASE from' = from
  BY <1>1, <1>2, SameWork
<1>3. CASE work[r] = "aborted" /\ from' = [from EXCEPT ![r] = r]
  <2>1. from[r] = NoReq
    BY <1>1 DEF Inv, OrderInv
  <2>2. \A q \in Reqs : from[q] # r
    BY <1>3, <2>1, ReqsAssumption DEF Inv, AnswerInv
  <2>3. Answer[r] = NoReq /\ Answer' = [Answer EXCEPT ![r] = r]
    BY <1>3, <2>1, <2>2, FirstAnswer DEF Inv
  <2>4. r \in Executed \ Running
    BY <1>3 DEF Executed, Running
  <2>5. UNCHANGED <<Running, Executed>>
    BY <1>1 DEF Running, Executed
  <2> QED BY <2>3, <2>4, <2>5 DEF Promise!Deliver
<1> QED BY <1>1, <1>2, <1>3

LEMMA SelectedDelivers ==
  ASSUME TypeOK, Inv, Inv', NEW r \in Reqs, Decide(r)
  PROVE  (\E e \in Reqs : Promise!Deliver(e, r)) \/ Stutter
<1>1. PICK verdict \in {"wait", "selected", "not_selected"} :
        /\ DecideScript(r, verdict)
        /\ \/ from' = from
           \/ verdict = "selected" /\ from' = [from EXCEPT ![r] = state.owner]
  BY DEF Decide, handlers
<1>2. work' = work /\ phase[r] = "waiting"
  BY DEF Decide, workers
<1>3. CASE from' = from
  BY <1>2, <1>3, SameWork
<1>4. CASE verdict = "selected" /\ from' = [from EXCEPT ![r] = state.owner]
  <2>1. from[r] = NoReq
    BY <1>2 DEF Inv, OrderInv
  <2>2. \/ state.closed /\ state.consumedBy = r
        \/ Open /\ state.ready
    BY <1>1, <1>4, DecideEffect DEF Inv, TypeOK, Closed
  <2>3. state.ready
    BY <2>2, ReqsAssumption DEF Inv, StateInv
  <2>4. /\ state.owner \in Reqs /\ work[state.owner] \notin {"none", "running"}
    BY <2>3, OwnerIsReq DEF Inv, StateInv
  <2>5. \A q \in Reqs : from[q] # state.owner
    BY <2>1, <2>2, <2>4, ReqsAssumption DEF Inv, AnswerInv, Open
  <2>6. Answer[state.owner] = NoReq /\ Answer' = [Answer EXCEPT ![state.owner] = r]
    BY <1>4, <2>1, <2>4, <2>5, FirstAnswer DEF Inv
  <2>7. state.owner \in Executed \ Running
    BY <2>4 DEF Executed, Running
  <2>8. UNCHANGED <<Running, Executed>>
    BY <1>2 DEF Running, Executed
  <2>9. Promise!Deliver(state.owner, r)
    BY <2>6, <2>7, <2>8 DEF Promise!Deliver
  <2> QED BY <2>4, <2>9
<1> QED BY <1>1, <1>3, <1>4

LEMMA CrashStops ==
  ASSUME TypeOK, OneExecution, NEW p \in Procs, Crash(p)
  PROVE  (\E r \in Reqs : Promise!Stop(r)) \/ Stutter
<1>1. from' = from /\ \A q \in Reqs : work'[q] = work[q] \/ (work[q] # "none" /\ work'[q] = "dead")
  BY DEF Crash
<1>2. CASE \E r \in Reqs : work[r] = "running" /\ work'[r] # "running"
  <2>1. PICK r \in Reqs : work[r] = "running" /\ work'[r] # "running"
    BY <1>2
  <2>2. \A q \in Reqs : q # r => work[q] # "running"
    BY <2>1 DEF OneExecution
  <2>3. Promise!Stop(r)
    BY <1>1, <2>1, <2>2, ExecutionEnds
  <2> QED BY <2>3
<1>3. CASE \A r \in Reqs : work[r] = "running" => work'[r] = "running"
  BY <1>1, <1>3, SameWork
<1> QED BY <1>2, <1>3

LEMMA PromiseInit == Init => Promise!Init
<1> SUFFICES ASSUME Init PROVE Promise!Init
  OBVIOUS
<1>1. Running = {} /\ Executed = {}
  BY DEF Init, Running, Executed
<1>2. Answer = [r \in Reqs |-> NoReq]
  BY ReqsAssumption DEF Init, Answer
<1> QED BY <1>1, <1>2 DEF Promise!Init

LEMMA PromiseStep ==
  TypeOK /\ Inv /\ Inv' /\ [Next]_vars => [Promise!Next]_<<Running, Executed, Answer>>
<1> SUFFICES ASSUME TypeOK, Inv, Inv', [Next]_vars
             PROVE  Promise!Next \/ Stutter
  BY DEF Stutter
<1>a. OneExecution
  BY DEF Inv, LeaseInv, Lease, OneExecution
<1>1. ASSUME NEW r \in Reqs, Handler(r) PROVE Promise!Next \/ Stutter
  <2>1. CASE CollectFailure(r)
    BY <2>1, FailOpenDelivers DEF Promise!Next
  <2>2. CASE Decide(r)
    BY <2>2, SelectedDelivers DEF Promise!Next
  <2>3. CASE ~CollectFailure(r) /\ ~Decide(r)
    <3>1. from' = from /\ work' = work
      BY <1>1, <2>3 DEF Handler, Join, JoinRepeated, JoinFailed, RefuseClosing, DecideFailed,
         Cancel, TimeOut, ShutDown, Leave, LeaveFailed, handlers, workers
    <3> QED BY <3>1, SameWork
  <2> QED BY <2>1, <2>2, <2>3
<1>2. ASSUME NEW r \in Reqs, Executor(r) PROVE Promise!Next \/ Stutter
  <2>1. CASE StartExecutor(r)
    BY <2>1, StartsAlone DEF Promise!Next
  <2>2. CASE FinishExecution(r)
    <3>1. /\ from' = from /\ work[r] = "running" /\ work'[r] = "publishing"
          /\ \A q \in Reqs : q # r => work'[q] = work[q]
      BY <2>2 DEF FinishExecution, handlers, TypeOK
    <3> QED BY <1>a, <3>1, ExecutionEnds DEF Promise!Next
  <2>3. CASE ~StartExecutor(r) /\ ~FinishExecution(r)
    <3>1. /\ from' = from
          /\ \A q \in Reqs : \/ work'[q] = work[q]
                             \/ {work[q], work'[q]} \intersect {"none", "running"} = {}
      BY <1>2, <2>3 DEF Executor, Publish, PublishFailed, PublishCut, Reconcile,
         ReconcileFailed, handlers, TypeOK
    <3> QED BY <3>1, SameWork
  <2> QED BY <2>1, <2>2, <2>3
<1>3. ASSUME NEW p \in Procs, Crash(p) PROVE Promise!Next \/ Stutter
  BY <1>a, <1>3, CrashStops DEF Promise!Next
<1>4. CASE \/ \E p \in Procs : CloseCoordinator(p)
           \/ LateScript \/ OtherCommand \/ TimePasses \/ Finished \/ UNCHANGED vars
  <2>1. from' = from /\ work' = work
    BY <1>4 DEF CloseCoordinator, LateScript, OtherCommand, TimePasses, Finished, vars,
       handlers, workers
  <2> QED BY <2>1, SameWork
<1> QED BY <1>1, <1>2, <1>3, <1>4 DEF Next, Step

\* The response election implements AnswerOnce: executions are alone and happen
\* once, and each result is delivered at most once, for any number of bots and
\* processes and under every failure of the model.
THEOREM Implements == Spec => AnswersOnce
<1>1. Init => Promise!Init
  BY PromiseInit
<1>2. TypeOK /\ Inv /\ Inv' /\ [Next]_vars => [Promise!Next]_<<Running, Executed, Answer>>
  BY PromiseStep
<1> QED BY <1>1, <1>2, Inductive, PTL DEF Spec, AnswersOnce, Promise!Spec
=============================================================================
