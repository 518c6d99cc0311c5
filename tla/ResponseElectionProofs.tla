------------------------ MODULE ResponseElectionProofs ------------------------
(***************************************************************************)
(* Theorems about ResponseElection, for any deliveries, bots, processes,   *)
(* time constants and number of failures.                                  *)
(***************************************************************************)
EXTENDS ResponseElection, TLAPS

-----------------------------------------------------------------------------
(***************************************************************************)
(* The inductive invariant                                                 *)
(***************************************************************************)
Open == Exists /\ ~state.closed

\* A missing state has no fields, and only a published result is consumed.
StateInv ==
  /\ ~Exists => state = Absent
  /\ state.consumedBy # NoReq => state.closed /\ state.ready
  /\ state.ready => work[state.owner] \notin {"none", "running", "aborted"}
  /\ state.closed => work[state.owner] \notin {"none", "running"}

\* The lock and an open election expire together; a closed one holds no lock.
LockInv ==
  lock = IF Open THEN [holder |-> state.owner, expires |-> state.expires] ELSE NoLock

\* A delivery executes after it joined, and is published after it executed.
OrderInv ==
  \A r \in Reqs :
    /\ phase[r] \in {"idle", "joined"} => work[r] = "none"
    /\ phase[r] \in {"idle", "joined", "waiting"} => from[r] = NoReq
    /\ <<"join", r>> \in late => phase[r] = "done" /\ work[r] = "none"
    /\ <<"publish", r>> \in late \/ <<"abort", r>> \in late => work[r] \notin {"none", "running"}

\* The lease of an election that has not executed yet, and of a running one.
Lease(r) ==
  /\ phase[r] = "idle" /\ state.owner = r => state.expires = now + StateTTL
  /\ phase[r] = "joined" =>
       state.owner = r /\ joinedAt[r] = now /\ state.expires = now + StateTTL
  /\ work[r] = "running" =>
       /\ state.owner = r /\ state.expires = joinedAt[r] + StateTTL
       /\ now <= joinedAt[r] + ExecTTL

LeaseInv == \A r \in Reqs : Lease(r)

\* While an answered election is in Redis it is closed, consumed by the handler
\* that answered or aborted by its executor.
AnswerInv ==
  /\ \A r \in Reqs : from[r] # NoReq =>
       /\ work[from[r]] # "none"
       /\ state.owner = from[r] =>
            /\ state.closed
            /\ state.consumedBy = r \/ (state.consumedBy = NoReq /\ from[r] = r)
  /\ \A r \in Reqs : work[r] = "aborted" =>
       /\ \A s \in Reqs : from[s] = r => s = r
       /\ state.owner = r => state.closed

IInv ==
  /\ TypeOK /\ StateInv /\ LockInv /\ OrderInv /\ LeaseInv /\ AnswerInv
  /\ OneAnswerPerElection

-----------------------------------------------------------------------------
(***************************************************************************)
(* Type correctness                                                        *)
(***************************************************************************)
LEMMA AbsentType == Absent \in StateType /\ NoLock \in [holder : Tokens, expires : Nat]
BY DEF Absent, StateType, Tokens, NoLock

LEMMA JoinType ==
  ASSUME StoreTypeOK, NEW r \in Reqs, NEW single, NEW role, JoinScript(r, single, role),
         now' = now
  PROVE  StoreTypeOK'
<1> USE BotsAssumption, EventTimeAssumption, TimesAssumption, AbsentType
        DEF StoreTypeOK, Tokens, store
<1>1. ASSUME NEW base \in [Bots -> Tokens], Create(r, single, base)
      PROVE  StoreTypeOK'
  <2>1. InFlightLease \in Nat /\ now + Window \in Nat
    BY DEF InFlightLease
  <2>2. state' \in StateType
    BY <1>1, <2>1 DEF Create, StateType
  <2> QED BY <1>1, <2>1, <2>2 DEF Create
<1>2. NoCandidates \in [Bots -> Tokens]
  BY DEF NoCandidates
<1>3. CASE CreateFirst(r, single, role)
  BY <1>1, <1>3 DEF CreateFirst
<1>4. CASE ReplaceClosed(r, single, role)
  BY <1>1, <1>2, <1>4 DEF ReplaceClosed
<1>5. CASE JoinOpen(r, role)
  BY <1>5 DEF JoinOpen, StateType
<1> QED BY <1>3, <1>4, <1>5 DEF JoinScript

LEMMA PublishType ==
  ASSUME StoreTypeOK, NEW r \in Reqs, NEW force \in BOOLEAN, NEW ok,
         PublishScript(r, force, ok), now' = now
  PROVE  StoreTypeOK'
<1>1. CASE StoreResult(force)
  <2>1. now + ReadyTTL \in Nat
    BY TimesAssumption DEF StoreTypeOK
  <2>2. state' \in StateType
    BY <1>1, <2>1 DEF StoreTypeOK, StoreResult, StateType
  <2>3. lock' \in [holder : Tokens, expires : Nat]
    BY <1>1, <2>1 DEF StoreTypeOK, StoreResult
  <2> QED BY <1>1, <2>1, <2>2, <2>3 DEF StoreTypeOK, StoreResult, HashTTL
<1>2. CASE UNCHANGED store
  BY <1>2 DEF StoreTypeOK, store
<1> QED BY <1>1, <1>2 DEF PublishScript

LEMMA CloseType ==
  ASSUME StoreTypeOK, NEW closed \in StateType, NEW hash \in [Bots -> Tokens],
         NEW retention \in Nat, Close(closed, hash, retention), now' = now
  PROVE  StoreTypeOK'
<1>1. now + retention \in Nat /\ Cooldown \in Nat
  BY TimesAssumption DEF StoreTypeOK, Cooldown
<1>2. state' \in StateType
  BY <1>1 DEF StoreTypeOK, Close, StateType
<1> QED BY <1>1, <1>2, AbsentType DEF StoreTypeOK, Close, HashTTL, ReleasedLock

LEMMA AbortType ==
  ASSUME StoreTypeOK, NEW r \in Reqs, NEW status, AbortScript(r, status), now' = now
  PROVE  StoreTypeOK'
<1>1. CASE Close(state, candidates, RateTTL)
  BY <1>1, CloseType, TimesAssumption DEF StoreTypeOK
<1>2. CASE UNCHANGED store
  BY <1>2 DEF StoreTypeOK, store
<1> QED BY <1>1, <1>2 DEF AbortScript

LEMMA StandingType ==
  ASSUME StoreTypeOK, Exists
  PROVE  Standing \in [Bots -> Tokens] /\ Electable \subseteq Reqs
<1>1. Standing \in [Bots -> Tokens]
  BY DEF StoreTypeOK, Standing, Without, Tokens
<1>2. CASE state.winner # NoReq /\ ~ClaimExpired
  BY <1>1, <1>2 DEF Electable, StoreTypeOK, StateType, Tokens
<1>3. CASE ~(state.winner # NoReq /\ ~ClaimExpired)
  <2>1. state.owner \in Reqs
    BY DEF StoreTypeOK, StateType, Tokens, Exists
  <2>2. Standing[BotOf[state.owner]] \in Tokens /\ \A b \in Bots : Standing[b] \in Tokens
    BY <1>1, <2>1, BotsAssumption
  <2>3. Electable \subseteq
          {Standing[BotOf[state.owner]]} \union {Standing[b] : b \in Bots}
    BY <1>3 DEF Electable
  <2>4. NoReq \notin Electable
    BY <1>3 DEF Electable
  <2>5. ASSUME NEW w \in Electable PROVE w \in Reqs
    <3>1. w \in Tokens
      BY <2>2, <2>3
    <3> QED BY <2>4, <3>1 DEF Tokens
  <2> QED BY <1>1, <2>5
<1> QED BY <1>1, <1>2, <1>3

LEMMA ElectType ==
  ASSUME StoreTypeOK, Exists, NEW r \in Reqs, NEW verdict, Elect(r, verdict), now' = now
  PROVE  StoreTypeOK'
<1>1. Standing \in [Bots -> Tokens] /\ Electable \subseteq Reqs
  BY StandingType
<1>2. ASSUME NEW w \in Reqs PROVE Claimed(w) \in StateType
  <2>1. now + ClaimTTL \in Nat /\ state \in StateType
    BY TimesAssumption DEF StoreTypeOK
  <2>2. [state EXCEPT !.winner = w, !.claimDeadline = now + ClaimTTL] \in StateType
    BY <2>1 DEF StateType, Tokens
  <2> QED BY <2>1, <2>2 DEF Claimed
<1>3. CASE Close([state EXCEPT !.winner = NoReq, !.claimDeadline = 0], Standing, RateTTL)
  <2>1. [state EXCEPT !.winner = NoReq, !.claimDeadline = 0] \in StateType
    BY DEF StoreTypeOK, StateType, Tokens
  <2> QED BY <1>1, <1>3, <2>1, CloseType, TimesAssumption
<1>4. ASSUME NEW w \in Electable \ {r},
             state' = Claimed(w), candidates' = Standing,
             candidatesTTL' = HashTTL(Standing, candidatesTTL), UNCHANGED <<rate, lock>>
      PROVE  StoreTypeOK'
  BY <1>1, <1>2, <1>4 DEF StoreTypeOK, HashTTL
<1>5. CASE Close([Claimed(r) EXCEPT !.consumedBy = r], Standing, CompletedRetention)
  <2>1. [Claimed(r) EXCEPT !.consumedBy = r] \in StateType
    BY <1>2 DEF StateType, Tokens
  <2>2. CompletedRetention \in Nat
    BY TimesAssumption DEF CompletedRetention
  <2> QED BY <1>1, <1>5, <2>1, <2>2, CloseType
<1> QED BY <1>3, <1>4, <1>5 DEF Elect

LEMMA DecideType ==
  ASSUME StoreTypeOK, NEW r \in Reqs, NEW verdict, DecideScript(r, verdict), now' = now
  PROVE  StoreTypeOK'
<1>1. CASE Exists /\ Elect(r, verdict)
  BY <1>1, ElectType
<1>2. CASE UNCHANGED store
  BY <1>2 DEF StoreTypeOK, store
<1>3. now \in Nat /\ state.deadline \in Nat
  BY DEF StoreTypeOK, StateType
<1> QED BY <1>1, <1>2, <1>3 DEF DecideScript

LEMMA LeaveType ==
  ASSUME StoreTypeOK, NEW r \in Reqs, LeaveScript(r), now' = now
  PROVE  StoreTypeOK'
<1>1. Without(candidates, BotOf[r]) \in [Bots -> Tokens]
  BY DEF StoreTypeOK, Without, Tokens
<1>2. [state EXCEPT !.winner = NoReq, !.claimDeadline = 0] \in StateType
  BY DEF StoreTypeOK, StateType, Tokens
<1> QED BY <1>1, <1>2 DEF StoreTypeOK, LeaveScript, HashTTL, store

LEMMA TickType == StoreTypeOK /\ Tick => StoreTypeOK'
<1>1. NoCandidates \in [Bots -> Tokens]
  BY DEF NoCandidates, Tokens
<1> QED BY <1>1, AbsentType DEF StoreTypeOK, Tick, Tokens

LEMMA ScriptType ==
  ASSUME StoreTypeOK, forced \in [Reqs -> BOOLEAN], NEW name, NEW r \in Reqs,
         RunScript(name, r), now' = now
  PROVE  StoreTypeOK'
BY JoinType, PublishType, AbortType, DecideType, LeaveType DEF RunScript

\* The history of answers keeps its type whatever a script does.
LEMMA NoteType ==
  ASSUME TypeOK, NoteConsumption
  PROVE  consumedAt' \in [Events -> Nat]
<1>1. consumedAt \in [Events -> Nat] /\ now + 1 \in Nat
  BY DEF TypeOK, StoreTypeOK
<1>2. ASSUME NEW e PROVE [consumedAt EXCEPT ![e] = now + 1] \in [Events -> Nat]
  BY <1>1
<1> QED BY <1>1, <1>2 DEF NoteConsumption

LEMMA InitType == Init => TypeOK
<1> SUFFICES ASSUME Init PROVE TypeOK
  OBVIOUS
<1>1. StoreTypeOK
  BY AbsentType DEF Init, StoreInit, StoreTypeOK, NoCandidates, Tokens
<1> QED
  BY <1>1 DEF Init, TypeOK, Phases, Reasons, Works, Tokens

LEMMA HandlerType ==
  ASSUME TypeOK, NEW r \in Reqs, Handler(r)
  PROVE  TypeOK'
<1> USE DEF TypeOK, handlers, workers, network, leases
<1>0. UNCHANGED <<now, store>> => StoreTypeOK'
  BY DEF StoreTypeOK, store
<1>p. {"leaving", "waiting", "joined", "done"} \subseteq Phases
  BY DEF Phases
<1>r. {"rejected", "direct", "canceled", "publish_fail_open", "publish_unknown",
       "shutdown", "selected", "not_selected"} \subseteq Reasons
  BY DEF Reasons, Visible
<1>s. \A name \in Scripts : <<name, r>> \in Scripts \X Reqs
  OBVIOUS
<1> USE <1>p, <1>r
<1>1. CASE Join(r)
  <2>1. PICK single \in SingleValues, role \in {"executor", "follower", "rejected"} :
          JoinScript(r, single, role)
    BY <1>1 DEF Join
  <2>2. StoreTypeOK'
    BY <1>1, <2>1, JoinType DEF Join
  <2>3. state'.deadline \in Nat /\ now \in Nat
    BY <2>2 DEF StoreTypeOK, StateType
  <2> QED BY <1>1, <2>2, <2>3 DEF Join, ReturnUnjoined
<1>2. CASE JoinRepeated(r)
  <2>1. StoreTypeOK'
    BY <1>2, JoinType DEF JoinRepeated
  <2> QED BY <1>2, <2>1 DEF JoinRepeated, Disrupt
<1>3. CASE JoinFailed(r)
  BY <1>0, <1>3, <1>s DEF JoinFailed, Disrupt, ReturnUnjoined, Scripts
<1>4. CASE RefuseClosing(r)
  BY <1>0, <1>4 DEF RefuseClosing, ReturnUnjoined
<1>5. CASE CollectFailure(r)
  BY <1>0, <1>5 DEF CollectFailure, Return, Tokens
<1>6. CASE Decide(r)
  <2>1. PICK verdict \in {"wait", "selected", "not_selected"} :
          /\ DecideScript(r, verdict)
          /\ \/ verdict = "wait" /\ UNCHANGED handlers
             \/ /\ verdict # "wait"
                /\ Return(r, verdict)
                /\ from' = IF verdict = "selected" THEN [from EXCEPT ![r] = state.owner] ELSE from
                /\ UNCHANGED leases
    BY <1>6 DEF Decide
  <2>2. StoreTypeOK'
    BY <1>6, <2>1, DecideType DEF Decide
  <2>3. consumedAt' \in [Events -> Nat]
    BY <1>6, NoteType DEF Decide
  <2>4. state.owner \in Tokens
    BY DEF StoreTypeOK, StateType
  <2> QED BY <1>6, <2>1, <2>2, <2>3, <2>4 DEF Decide, Return
<1>7. CASE DecideFailed(r)
  BY <1>0, <1>7, <1>s DEF DecideFailed, Disrupt, Scripts
<1>8. CASE Cancel(r)
  BY <1>0, <1>8, <1>s DEF Cancel, Disrupt, Return, Scripts
<1>9. CASE TimeOut(r)
  BY <1>0, <1>9 DEF TimeOut, Return
<1>10. CASE ShutDown(r)
  BY <1>0, <1>10 DEF ShutDown, Return
<1>11. CASE Leave(r)
  <2>1. StoreTypeOK'
    BY <1>11, LeaveType DEF Leave
  <2> QED BY <1>11, <2>1 DEF Leave
<1>12. CASE LeaveFailed(r)
  BY <1>0, <1>12, <1>s DEF LeaveFailed, Disrupt, Scripts
<1> QED BY <1>1, <1>2, <1>3, <1>4, <1>5, <1>6, <1>7, <1>8, <1>9, <1>10, <1>11, <1>12
        DEF Handler

LEMMA ExecutorType ==
  ASSUME TypeOK, NEW r \in Reqs, Executor(r)
  PROVE  TypeOK'
<1> USE DEF TypeOK, handlers, workers, network, leases
<1>0. UNCHANGED <<now, store>> => StoreTypeOK'
  BY DEF StoreTypeOK, store
<1>p. {"leaving", "waiting"} \subseteq Phases /\ "shutdown" \in Reasons
  BY DEF Phases, Reasons
<1>w. {"running", "publishing", "reconciling", "published", "aborted", "unknown"} \subseteq Works
  BY DEF Works
<1> USE <1>p, <1>w
<1>1. CASE StartExecutor(r)
  BY <1>0, <1>1 DEF StartExecutor, Return
<1>2. CASE FinishExecution(r)
  BY <1>0, <1>2, ChoicesAssumption DEF FinishExecution
<1>3. CASE Publish(r)
  <2>1. StoreTypeOK'
    BY <1>3, PublishType DEF Publish
  <2> QED BY <1>3, <2>1 DEF Publish
<1>4. CASE PublishFailed(r)
  BY <1>0, <1>4 DEF PublishFailed, Disrupt, Scripts
<1>5. CASE PublishCut(r)
  BY <1>0, <1>5 DEF PublishCut
<1>6. CASE Reconcile(r)
  <2>1. StoreTypeOK'
    BY <1>6, AbortType DEF Reconcile
  <2> QED BY <1>6, <2>1 DEF Reconcile
<1>7. CASE ReconcileFailed(r)
  BY <1>0, <1>7 DEF ReconcileFailed, Disrupt, Scripts
<1> QED BY <1>1, <1>2, <1>3, <1>4, <1>5, <1>6, <1>7 DEF Executor

LEMMA TypeStep == TypeOK /\ [Next]_vars => TypeOK'
<1> SUFFICES ASSUME TypeOK, [Next]_vars PROVE TypeOK'
  OBVIOUS
<1>1. ASSUME NEW r \in Reqs, Handler(r) \/ Executor(r) PROVE TypeOK'
  BY <1>1, HandlerType, ExecutorType
<1> USE DEF TypeOK, handlers, workers, network, leases
<1>0. UNCHANGED <<now, store>> => StoreTypeOK'
  BY DEF StoreTypeOK, store
<1>2. ASSUME NEW p \in Procs, CloseCoordinator(p) PROVE TypeOK'
  BY <1>0, <1>2 DEF CloseCoordinator, Disrupt
<1>3. ASSUME NEW p \in Procs, Crash(p) PROVE TypeOK'
  BY <1>0, <1>3 DEF Crash, Disrupt, Phases, Reasons, Works
<1>4. CASE LateScript
  <2>1. PICK name \in Scripts, r \in Reqs :
          late' = late \ {<<name, r>>} /\ RunScript(name, r)
    BY <1>4 DEF LateScript
  <2>2. StoreTypeOK'
    BY <1>4, <2>1, ScriptType DEF LateScript
  <2>3. consumedAt' \in [Events -> Nat]
    BY <1>4, NoteType DEF LateScript
  <2> QED BY <1>4, <2>1, <2>2, <2>3 DEF LateScript
<1>5. CASE OtherCommand
  BY <1>5, TimesAssumption DEF OtherCommand, Disrupt, StoreTypeOK
<1>6. CASE TimePasses
  <2>1. StoreTypeOK'
    BY <1>6, TickType DEF TimePasses
  <2> QED BY <1>6, <2>1 DEF TimePasses
<1>7. CASE Finished
  BY <1>0, <1>7 DEF Finished, vars
<1>8. CASE UNCHANGED vars
  BY <1>0, <1>8 DEF vars
<1> QED BY <1>1, <1>2, <1>3, <1>4, <1>5, <1>6, <1>7, <1>8 DEF Next, Step

\* Every variable of the election keeps its type, whatever fails and however
\* late a script reaches Redis.
THEOREM TypeCorrect == Spec => []TypeOK
<1>1. Init => TypeOK
  BY InitType
<1>2. TypeOK /\ [Next]_vars => TypeOK'
  BY TypeStep
<1> QED BY <1>1, <1>2, PTL DEF Spec


-----------------------------------------------------------------------------
(***************************************************************************)
(* What the scripts do to the part of the store the invariant is about     *)
(***************************************************************************)
\* Nothing.
Same ==
  /\ state'.owner = state.owner /\ state'.ready = state.ready
  /\ state'.closed = state.closed /\ state'.consumedBy = state.consumedBy
  /\ state'.expires = state.expires
  /\ ~Exists => state' = state
  /\ lock' = lock

\* r creates an election.
New(r) ==
  /\ ~Open
  /\ state'.owner = r /\ ~state'.ready /\ ~state'.closed /\ state'.consumedBy = NoReq
  /\ state'.expires = now + StateTTL
  /\ lock' = [holder |-> r, expires |-> now + StateTTL]

\* r publishes the result of its open election.
Ready(r) ==
  /\ state.owner = r /\ Open
  /\ state'.owner = r /\ state'.ready /\ ~state'.closed
  /\ state'.consumedBy = state.consumedBy
  /\ lock' = [holder |-> r, expires |-> state'.expires]

\* The open election is closed, consumed by c if c is not NoReq.
Closed(c) ==
  /\ Open
  /\ state'.owner = state.owner /\ state'.ready = state.ready /\ state'.closed
  /\ state'.consumedBy = c
  /\ lock' = NoLock

LEMMA UnchangedIsSame == UNCHANGED store => Same
BY DEF store, Same

LEMMA JoinEffect ==
  ASSUME StoreTypeOK, LockInv, NEW r \in Reqs, NEW single, NEW role,
         JoinScript(r, single, role)
  PROVE  \/ Same /\ (role = "executor" => state.owner = r)
         \/ New(r) /\ role = "executor"
<1>1. ASSUME NEW base, Create(r, single, base), ~Open PROVE New(r)
  BY <1>1 DEF Create, New, InFlightLease, Absent
<1>2. LockHeld => Open
  BY DEF LockHeld, LockInv, NoLock
<1>3. CASE CreateFirst(r, single, role)
  BY <1>1, <1>3, UnchangedIsSame DEF CreateFirst, Open
<1>4. CASE ReplaceClosed(r, single, role)
  BY <1>1, <1>2, <1>4, UnchangedIsSame DEF ReplaceClosed, Open
<1>5. CASE JoinOpen(r, role)
  <2>1. CASE UNCHANGED store
    BY <1>5, <2>1, UnchangedIsSame DEF JoinOpen
  <2>2. CASE ~UNCHANGED store
    <3>1. /\ Exists /\ lock' = lock /\ role = "follower"
          /\ state' = [state EXCEPT !.eventTime = IF @ = 0 THEN EventTime[r] ELSE @]
      BY <1>5, <2>2 DEF JoinOpen
    <3> QED BY <3>1 DEF Same, StoreTypeOK, StateType
  <2> QED BY <2>1, <2>2
<1> QED BY <1>3, <1>4, <1>5 DEF JoinScript

LEMMA PublishEffect ==
  ASSUME StoreTypeOK, LockInv, NEW r \in Reqs, NEW force, NEW ok,
         PublishScript(r, force, ok)
  PROVE  Same \/ Ready(r)
<1>1. CASE state.owner = r /\ ~state.ready /\ ~state.closed /\ StoreResult(force)
  <2>1. Open
    BY <1>1, ReqsAssumption DEF Open, Exists
  <2>2. lock = [holder |-> r, expires |-> state.expires] /\ LockHeld
    BY <1>1, <2>1, ReqsAssumption DEF LockInv, LockHeld
  <2>3. lock' = [holder |-> r, expires |-> now + ReadyTTL]
    BY <1>1, <2>2 DEF StoreResult
  <2>4. /\ state'.owner = r /\ state'.ready /\ ~state'.closed
        /\ state'.consumedBy = state.consumedBy /\ state'.expires = now + ReadyTTL
    BY <1>1 DEF StoreResult, StoreTypeOK, StateType
  <2> QED BY <1>1, <2>1, <2>3, <2>4 DEF Ready
<1>2. CASE UNCHANGED store
  BY <1>2, UnchangedIsSame
<1> QED BY <1>1, <1>2 DEF PublishScript

LEMMA CloseEffect ==
  ASSUME StoreTypeOK, LockInv, Open, NEW closed \in StateType, NEW hash, NEW retention,
         closed.owner = state.owner, closed.ready = state.ready,
         Close(closed, hash, retention)
  PROVE  Closed(closed.consumedBy)
<1>1. lock.holder = state.owner
  BY DEF LockInv
<1>2. lock' = NoLock
  BY <1>1 DEF Close, ReleasedLock
<1>3. /\ state'.owner = state.owner /\ state'.ready = state.ready /\ state'.closed
      /\ state'.consumedBy = closed.consumedBy
  BY DEF Close, StateType
<1> QED BY <1>2, <1>3 DEF Closed

LEMMA AbortEffect ==
  ASSUME StoreTypeOK, StateInv, LockInv, NEW r \in Reqs, NEW status,
         AbortScript(r, status)
  PROVE  \/ Same /\ (status = "aborted" => state.owner = r /\ state.closed /\ ~state.ready)
         \/ Closed(NoReq) /\ state.owner = r /\ ~state.ready
<1>1. CASE state.owner = r /\ ~Published /\ ~state.closed /\ Close(state, candidates, RateTTL)
  <2>1. Open /\ state \in StateType
    BY <1>1, ReqsAssumption DEF Open, Exists, StoreTypeOK
  <2>2. state.consumedBy = NoReq
    BY <1>1 DEF StateInv
  <2>3. Closed(state.consumedBy)
    BY <1>1, <2>1, CloseEffect
  <2> QED BY <1>1, <2>2, <2>3 DEF Published
<1>2. CASE \/ state.owner # r /\ status = "unknown" /\ UNCHANGED store
           \/ Published /\ status = "published" /\ UNCHANGED store
           \/ /\ state.owner = r /\ ~Published /\ state.closed
              /\ status = "aborted" /\ UNCHANGED store
  BY <1>2, UnchangedIsSame DEF Published
<1> QED BY <1>1, <1>2 DEF AbortScript

LEMMA DecideEffect ==
  ASSUME StoreTypeOK, StateInv, LockInv, NEW r \in Reqs, NEW verdict,
         DecideScript(r, verdict)
  PROVE  \/ Same /\ (verdict = "selected" => state.closed /\ state.consumedBy = r)
         \/ Closed(NoReq) /\ state.ready /\ verdict # "selected"
         \/ Closed(r) /\ state.ready
<1>1. CASE /\ ~(Exists /\ ~state.closed /\ now >= state.deadline /\ state.ready)
           /\ UNCHANGED store
  BY <1>1, UnchangedIsSame DEF DecideScript, ConsumedBy
<1>2. CASE Exists /\ ~state.closed /\ state.ready /\ Elect(r, verdict)
  <2> USE <1>2
  <2>1. Open /\ state.consumedBy = NoReq /\ state \in StateType
    BY DEF Open, StateInv, StoreTypeOK
  <2>2. now + ClaimTTL \in Nat /\ Electable \subseteq Reqs
    BY TimesAssumption, StandingType DEF StoreTypeOK
  <2>3. ASSUME NEW w \in Reqs
        PROVE  /\ Claimed(w) \in StateType
               /\ Claimed(w).owner = state.owner /\ Claimed(w).ready = state.ready
               /\ Claimed(w).closed = state.closed
               /\ Claimed(w).consumedBy = state.consumedBy
               /\ Claimed(w).expires = state.expires
    BY <2>1, <2>2 DEF Claimed, StateType, Tokens
  <2>4. CASE /\ verdict = "not_selected"
             /\ Close([state EXCEPT !.winner = NoReq, !.claimDeadline = 0], Standing, RateTTL)
    <3> DEFINE closed == [state EXCEPT !.winner = NoReq, !.claimDeadline = 0]
    <3>1. /\ closed \in StateType /\ closed.owner = state.owner
          /\ closed.ready = state.ready /\ closed.consumedBy = NoReq
      BY <2>1 DEF StateType, Tokens
    <3>2. Close(closed, Standing, RateTTL)
      BY <2>4
    <3> HIDE DEF closed
    <3>3. Closed(closed.consumedBy)
      BY <2>1, <3>1, <3>2, CloseEffect
    <3> QED BY <2>4, <3>1, <3>3
  <2>5. CASE \E w \in Electable \ {r} :
               /\ verdict = "wait" /\ state' = Claimed(w) /\ UNCHANGED <<rate, lock>>
    BY <2>2, <2>3, <2>5 DEF Same
  <2>6. CASE Close([Claimed(r) EXCEPT !.consumedBy = r], Standing, CompletedRetention)
    <3> DEFINE closed == [Claimed(r) EXCEPT !.consumedBy = r]
    <3>1. /\ closed \in StateType /\ closed.owner = state.owner
          /\ closed.ready = state.ready /\ closed.consumedBy = r
      BY <2>3 DEF StateType, Tokens
    <3>2. Close(closed, Standing, CompletedRetention)
      BY <2>6
    <3> HIDE DEF closed
    <3>3. Closed(closed.consumedBy)
      BY <2>1, <3>1, <3>2, CloseEffect
    <3> QED BY <3>1, <3>3
  <2> QED BY <2>4, <2>5, <2>6 DEF Elect
<1>3. now \in Nat /\ state.deadline \in Nat
  BY DEF StoreTypeOK, StateType
<1> QED BY <1>1, <1>2, <1>3 DEF DecideScript

LEMMA LeaveEffect ==
  ASSUME StoreTypeOK, StateInv, NEW r \in Reqs, LeaveScript(r)
  PROVE  Same
<1>1. CASE UNCHANGED store
  BY <1>1, UnchangedIsSame
<1>2. CASE /\ UNCHANGED <<rate, lock>>
           /\ state' = IF ~state.closed /\ state.winner = r
                       THEN [state EXCEPT !.winner = NoReq, !.claimDeadline = 0]
                       ELSE state
  <2>1. ~Exists => state.winner # r
    BY ReqsAssumption DEF StateInv, Absent
  <2> QED BY <1>2, <2>1 DEF Same, StoreTypeOK, StateType
<1> QED BY <1>1, <1>2 DEF LeaveScript


-----------------------------------------------------------------------------
(***************************************************************************)
(* The invariant is inductive                                              *)
(***************************************************************************)
\* What the invariant says beyond types.
Inv == StateInv /\ LockInv /\ OrderInv /\ LeaseInv /\ AnswerInv /\ OneAnswerPerElection

LEMMA InitInv == Init => Inv
<1> SUFFICES ASSUME Init PROVE Inv
  OBVIOUS
<1>1. StateInv /\ LockInv /\ ~Exists
  BY ReqsAssumption DEF Init, StoreInit, StateInv, LockInv, Open, Exists, Absent
<1>2. OrderInv /\ LeaseInv /\ AnswerInv /\ OneAnswerPerElection
  BY ReqsAssumption, <1>1
     DEF Init, OrderInv, LeaseInv, Lease, AnswerInv, OneAnswerPerElection, Exists
<1> QED BY <1>1, <1>2 DEF Inv

\* The steps of a handler that leave the store alone.
LEMMA QuietHandlerInv ==
  ASSUME TypeOK, Inv, NEW r \in Reqs,
         \/ JoinFailed(r) \/ RefuseClosing(r) \/ DecideFailed(r) \/ Cancel(r)
         \/ TimeOut(r) \/ ShutDown(r) \/ LeaveFailed(r)
  PROVE  Inv'
<1>1. Same /\ UNCHANGED <<now, state, lock, joinedAt, from, work>>
  BY UnchangedIsSame DEF JoinFailed, RefuseClosing, DecideFailed, Cancel, TimeOut, ShutDown,
     LeaveFailed, handlers, workers, leases, store
<1>2. StateInv' /\ LockInv' /\ AnswerInv' /\ OneAnswerPerElection'
  BY <1>1 DEF Inv, StateInv, LockInv, AnswerInv, OneAnswerPerElection, Exists, Open
<1>3. /\ \A q \in Reqs : phase'[q] \in {"idle", "joined", "waiting"} => phase'[q] = phase[q]
      /\ \A q \in Reqs : phase[q] = "done" => phase'[q] = "done"
  BY DEF TypeOK, JoinFailed, RefuseClosing, DecideFailed, Cancel, TimeOut, ShutDown,
     LeaveFailed, handlers, Arriving, ReturnUnjoined, Return
<1>4. \A q \in Reqs, name \in {"join", "publish", "abort"} :
         <<name, q>> \in late' =>
           \/ <<name, q>> \in late
           \/ name = "join" /\ phase'[q] = "done" /\ phase[q] = "idle"
  BY DEF TypeOK, JoinFailed, RefuseClosing, DecideFailed, Cancel, TimeOut, ShutDown,
     LeaveFailed, network, Arriving, ReturnUnjoined
<1>5. OrderInv'
  BY <1>1, <1>3, <1>4 DEF Inv, OrderInv
<1>6. LeaseInv'
  BY <1>1, <1>3 DEF Inv, LeaseInv, Lease
<1> QED BY <1>2, <1>5, <1>6 DEF Inv

LEMMA CollectFailureInv ==
  ASSUME TypeOK, Inv, NEW r \in Reqs, CollectFailure(r)
  PROVE  Inv'
<1>1. UNCHANGED <<now, state, lock, joinedAt, work, late>>
  BY DEF CollectFailure, handlers, workers, leases, store, network
<1>2. /\ phase[r] = "waiting" /\ phase' = [phase EXCEPT ![r] = "leaving"]
      /\ \/ from' = from
         \/ work[r] = "aborted" /\ from' = [from EXCEPT ![r] = r]
  BY DEF CollectFailure, Return
<1>3. StateInv' /\ LockInv'
  BY <1>1 DEF Inv, StateInv, LockInv, Exists, Open
<1>4. OrderInv' /\ LeaseInv'
  BY <1>1, <1>2 DEF Inv, OrderInv, LeaseInv, Lease, TypeOK
<1>5. CASE from' = from
  BY <1>1, <1>3, <1>4, <1>5 DEF Inv, AnswerInv, OneAnswerPerElection
<1>6. CASE work[r] = "aborted" /\ from' = [from EXCEPT ![r] = r]
  <2>1. state.owner = r => state.closed /\ state.consumedBy = NoReq
    BY <1>6 DEF Inv, StateInv, AnswerInv
  <2>2. AnswerInv' /\ OneAnswerPerElection'
    BY <1>1, <1>6, <2>1 DEF Inv, AnswerInv, OneAnswerPerElection, TypeOK
  <2> QED BY <1>3, <1>4, <2>2 DEF Inv
<1> QED BY <1>2, <1>5, <1>6

LEMMA StartExecutorInv ==
  ASSUME TypeOK, Inv, NEW r \in Reqs, StartExecutor(r)
  PROVE  Inv'
<1>1. /\ phase[r] = "joined" /\ UNCHANGED <<now, state, lock, joinedAt, from, late>>
      /\ \/ phase' = [phase EXCEPT ![r] = "leaving"] /\ work' = work
         \/ phase' = [phase EXCEPT ![r] = "waiting"] /\ work' = [work EXCEPT ![r] = "running"]
  BY DEF StartExecutor, Return, leases, network, store
<1>2. /\ work[r] = "none" /\ state.owner = r /\ ~state.ready /\ ~state.closed
      /\ joinedAt[r] = now /\ state.expires = now + StateTTL /\ from[r] = NoReq
  BY <1>1 DEF Inv, OrderInv, LeaseInv, Lease, StateInv
<1>3. \A q \in Reqs : work'[q] # work[q] => q = r /\ work'[r] = "running"
  BY <1>1 DEF TypeOK
<1>4. StateInv' /\ LockInv'
  BY <1>1, <1>2, <1>3 DEF Inv, StateInv, LockInv, Exists, Open
<1>5. OrderInv'
  BY ZenonT(40), <1>1, <1>2 DEF Inv, OrderInv, TypeOK
<1>6. LeaseInv'
  <2>1. now <= joinedAt[r] + ExecTTL
    BY <1>2, BoundsAssumption DEF TypeOK, StoreTypeOK
  <2> QED BY <1>1, <1>2, <2>1 DEF Inv, LeaseInv, Lease, TypeOK
<1>7. AnswerInv' /\ OneAnswerPerElection'
  BY <1>1, <1>2, <1>3 DEF Inv, AnswerInv, OneAnswerPerElection, TypeOK, Tokens
<1> QED BY <1>4, <1>5, <1>6, <1>7 DEF Inv

\* The steps of the executor that leave the store alone and end no execution
\* unseen: running and "none" are only ever left.
LEMMA QuietWorkInv ==
  ASSUME TypeOK, Inv,
         UNCHANGED <<now, state, lock, joinedAt, from, phase>>,
         \A q \in Reqs : \/ work'[q] = work[q]
                         \/ work[q] # "none" /\ work'[q] \notin {"none", "running", "aborted"},
         \A q \in Reqs, name \in {"join", "publish", "abort"} :
           <<name, q>> \in late' =>
             \/ <<name, q>> \in late
             \/ name # "join" /\ work[q] \notin {"none", "running"}
  PROVE  Inv'
<1>1. StateInv' /\ LockInv'
  BY ReqsAssumption DEF Inv, StateInv, LockInv, Exists, Open, TypeOK, StoreTypeOK, StateType, Tokens, Absent
<1>2. OrderInv'
  BY DEF Inv, OrderInv
<1>3. LeaseInv'
  BY DEF Inv, LeaseInv, Lease
<1>4. AnswerInv' /\ OneAnswerPerElection'
  BY DEF Inv, AnswerInv, OneAnswerPerElection, TypeOK, Tokens
<1> QED BY <1>1, <1>2, <1>3, <1>4 DEF Inv

LEMMA QuietExecutorInv ==
  ASSUME TypeOK, Inv, NEW r \in Reqs,
         FinishExecution(r) \/ PublishFailed(r) \/ PublishCut(r) \/ ReconcileFailed(r)
  PROVE  Inv'
<1>1. UNCHANGED <<now, state, lock, joinedAt, from, phase>>
  BY DEF FinishExecution, PublishFailed, PublishCut, ReconcileFailed,
     handlers, leases, store
<1>2. \A q \in Reqs : \/ work'[q] = work[q]
                      \/ work[q] # "none" /\ work'[q] \notin {"none", "running", "aborted"}
  BY DEF TypeOK, FinishExecution, PublishFailed, PublishCut, ReconcileFailed
<1>3. \A q \in Reqs, name \in {"join", "publish", "abort"} :
        <<name, q>> \in late' =>
          \/ <<name, q>> \in late
          \/ name # "join" /\ work[q] \notin {"none", "running"}
  BY DEF FinishExecution, PublishFailed, PublishCut, ReconcileFailed, network
<1> QED BY <1>1, <1>2, <1>3, QuietWorkInv

\* A step that leaves everything the invariant speaks of alone.
LEMMA UntouchedInv ==
  ASSUME TypeOK, Inv, UNCHANGED <<now, state, lock, handlers, work, late>>
  PROVE  Inv'
<1>1. UNCHANGED <<now, state, lock, joinedAt, from, phase, work, late>>
  BY DEF handlers, leases
<1> QED BY <1>1, QuietWorkInv

LEMMA CrashInv ==
  ASSUME TypeOK, Inv, NEW p \in Procs, Crash(p)
  PROVE  Inv'
<1>1. UNCHANGED <<now, state, lock, joinedAt, from, late>>
  BY DEF Crash, leases, store
<1>2. \A q \in Reqs : \/ work'[q] = work[q]
                      \/ work[q] # "none" /\ work'[q] = "dead"
  BY DEF Crash
<1>3. \A q \in Reqs : phase'[q] = phase[q] \/ (phase[q] # "idle" /\ phase'[q] = "done")
  BY DEF Crash
<1>4. StateInv' /\ LockInv'
  BY <1>1, <1>2, ReqsAssumption
     DEF Inv, StateInv, LockInv, Exists, Open, TypeOK, StoreTypeOK, StateType, Tokens, Absent
<1>5. OrderInv' /\ LeaseInv'
  BY <1>1, <1>2, <1>3 DEF Inv, OrderInv, LeaseInv, Lease
<1>6. AnswerInv' /\ OneAnswerPerElection'
  BY <1>1, <1>2 DEF Inv, AnswerInv, OneAnswerPerElection, TypeOK, Tokens
<1> QED BY <1>4, <1>5, <1>6 DEF Inv

\* A join script of a delivery that has not executed.
LEMMA JoinScriptInv ==
  ASSUME TypeOK, Inv, NEW r \in Reqs, Same \/ New(r),
         work[r] = "none", phase[r] \in {"idle", "done"},
         UNCHANGED <<now, work, from>>, \A q \in Reqs : q # r => joinedAt'[q] = joinedAt[q]
  PROVE  /\ StateInv' /\ LockInv' /\ AnswerInv' /\ OneAnswerPerElection'
         /\ \A q \in Reqs \ {r} : phase'[q] = phase[q] => Lease(q)'
<1>1. CASE Same
  BY <1>1 DEF Inv, StateInv, LockInv, LeaseInv, Lease, AnswerInv, OneAnswerPerElection, Same,
     Exists, Open
<1>2. CASE New(r)
  <2>1. StateInv' /\ LockInv'
    BY <1>2, ReqsAssumption DEF Inv, StateInv, LockInv, New, Exists, Open
  <2>2. AnswerInv' /\ OneAnswerPerElection'
    BY <1>2 DEF Inv, AnswerInv, OneAnswerPerElection, New
  <2>3. \A q \in Reqs : phase[q] = "joined" \/ work[q] = "running" => Open
    BY ReqsAssumption DEF Inv, LeaseInv, Lease, StateInv, OrderInv, Open, Exists
  <2> QED BY <1>2, <2>1, <2>2, <2>3 DEF New, Lease
<1> QED BY <1>1, <1>2

LEMMA JoinInv ==
  ASSUME TypeOK, Inv, NEW r \in Reqs, Join(r)
  PROVE  Inv'
<1>1. PICK role \in {"executor", "follower", "rejected"} :
        /\ \E single \in SingleValues : JoinScript(r, single, role)
        /\ \/ /\ role = "rejected"
              /\ phase' = [phase EXCEPT ![r] = "done"]
              /\ UNCHANGED joinedAt
           \/ /\ role # "rejected"
              /\ phase' = [phase EXCEPT ![r] = IF role = "executor" THEN "joined" ELSE "waiting"]
              /\ joinedAt' = [joinedAt EXCEPT ![r] = now]
  BY DEF Join, ReturnUnjoined, leases
<1>2. UNCHANGED <<now, from, work, late>> /\ phase[r] = "idle" /\ work[r] = "none"
  BY DEF Join, Arriving, workers, network, Inv, OrderInv
<1>3. \/ Same /\ (role = "executor" => state.owner = r)
      \/ New(r) /\ role = "executor"
  BY <1>1, JoinEffect DEF Inv, TypeOK
<1>4. \A q \in Reqs : q # r => joinedAt'[q] = joinedAt[q] /\ phase'[q] = phase[q]
  BY <1>1 DEF TypeOK
<1>5. /\ StateInv' /\ LockInv' /\ AnswerInv' /\ OneAnswerPerElection'
      /\ \A q \in Reqs \ {r} : phase'[q] = phase[q] => Lease(q)'
  BY <1>2, <1>3, <1>4, JoinScriptInv
<1>6. OrderInv'
  BY <1>1, <1>2 DEF Inv, OrderInv, TypeOK
<1>7. phase'[r] # "idle" /\ work'[r] # "running"
  BY <1>1, <1>2 DEF TypeOK
<1>8. phase'[r] = "joined" =>
        state'.owner = r /\ joinedAt'[r] = now' /\ state'.expires = now' + StateTTL
  BY <1>1, <1>2, <1>3 DEF Same, New, Inv, LeaseInv, Lease, TypeOK
<1>9. LeaseInv'
  BY <1>4, <1>5, <1>7, <1>8 DEF LeaseInv, Lease
<1> QED BY <1>5, <1>6, <1>9 DEF Inv

LEMMA JoinRepeatedInv ==
  ASSUME TypeOK, Inv, NEW r \in Reqs, JoinRepeated(r)
  PROVE  Inv'
<1>1. /\ UNCHANGED <<now, phase, joinedAt, from, work, late>>
      /\ phase[r] = "idle" /\ work[r] = "none"
  BY DEF JoinRepeated, Arriving, handlers, leases, workers, Inv, OrderInv
<1>2. Same \/ New(r)
  BY JoinEffect DEF JoinRepeated, Inv, TypeOK
<1>3. /\ StateInv' /\ LockInv' /\ AnswerInv' /\ OneAnswerPerElection'
      /\ \A q \in Reqs \ {r} : Lease(q)'
  BY <1>1, <1>2, JoinScriptInv
<1>4. state'.owner = r => state'.expires = now' + StateTTL
  BY <1>1, <1>2 DEF Same, New, Inv, LeaseInv, Lease
<1>5. OrderInv' /\ LeaseInv'
  BY <1>1, <1>3, <1>4 DEF Inv, OrderInv, LeaseInv, Lease
<1> QED BY <1>3, <1>5 DEF Inv

\* Only an election that exists is published or closed.
LEMMA OwnerIsReq ==
  ASSUME TypeOK, StateInv, state.ready \/ state.closed \/ Open
  PROVE  state.owner \in Reqs
<1>1. Exists
  BY DEF StateInv, Absent, Open
<1> QED BY <1>1 DEF Exists, TypeOK, StoreTypeOK, StateType, Tokens

LEMMA FromIsReq == TypeOK => \A r \in Reqs : from[r] # NoReq => from[r] \in Reqs
BY DEF TypeOK, Tokens

\* A script of a delivery that has executed changes no lease that matters.
LEMMA PublishScriptInv ==
  ASSUME TypeOK, Inv, NEW r \in Reqs, Same \/ Ready(r),
         work[r] \notin {"none", "running"},
         UNCHANGED <<now, phase, joinedAt, from>>, late' \subseteq late,
         \A q \in Reqs : q # r => work'[q] = work[q],
         work'[r] = work[r] \/ (work[r] = "publishing" /\ work'[r] \in {"published", "reconciling"})
  PROVE  Inv'
<1>1. OrderInv'
  BY DEF Inv, OrderInv
<1>0. state.ready \/ state.closed \/ Open => state.owner \in Reqs
  BY OwnerIsReq DEF Inv
<1>w. \A q \in Reqs :
        /\ work'[q] = work[q] \/ work'[q] \in {"published", "reconciling"}
        /\ work[q] \in {"none", "running", "aborted"} => work'[q] = work[q]
  OBVIOUS
<1>2. CASE Same
  <2>1. StateInv' /\ LockInv'
    BY <1>0, <1>2, <1>w DEF Inv, StateInv, LockInv, Same, Exists, Open
  <2>2. LeaseInv'
    BY <1>2 DEF Inv, LeaseInv, Lease, Same
  <2>3. AnswerInv' /\ OneAnswerPerElection'
    BY <1>2, <1>w, FromIsReq DEF Inv, AnswerInv, OneAnswerPerElection, Same
  <2> QED BY <1>1, <2>1, <2>2, <2>3 DEF Inv
<1>3. CASE Ready(r)
  <2>1. work[r] # "aborted"
    BY <1>3 DEF Inv, AnswerInv, Ready, Open
  <2>2. StateInv' /\ LockInv'
    BY <1>3, <2>1, ReqsAssumption DEF Inv, StateInv, LockInv, Ready, Exists, Open
  <2>3. LeaseInv'
    <3>1. \A q \in Reqs : q # r => Lease(q)'
      BY <1>3 DEF Inv, LeaseInv, Lease, Ready
    <3>2. phase'[r] \notin {"idle", "joined"} /\ work'[r] # "running"
      BY <1>w DEF Inv, OrderInv
    <3>3. Lease(r)'
      BY <3>2 DEF Lease
    <3> QED BY <3>1, <3>3 DEF LeaseInv
  <2>4. AnswerInv' /\ OneAnswerPerElection'
    <3>1. \A q \in Reqs : from[q] # r
      BY <1>3, ReqsAssumption DEF Inv, AnswerInv, Ready, Open
    <3>2. work'[r] # "aborted"
      BY <2>1
    <3>3. AnswerInv'
      BY <1>3, <1>w, <3>1, <3>2, FromIsReq DEF Inv, AnswerInv, Ready
    <3> QED BY <3>3 DEF Inv, OneAnswerPerElection
  <2> QED BY <1>1, <2>2, <2>3, <2>4 DEF Inv
<1> QED BY <1>2, <1>3

LEMMA PublishInv ==
  ASSUME TypeOK, Inv, NEW r \in Reqs, Publish(r)
  PROVE  Inv'
<1>1. Same \/ Ready(r)
  BY PublishEffect DEF Publish, Inv, TypeOK
<1>2. /\ UNCHANGED <<now, phase, joinedAt, from, late>>
      /\ work[r] = "publishing" /\ work'[r] \in {"published", "reconciling"}
      /\ \A q \in Reqs : q # r => work'[q] = work[q]
  BY DEF Publish, handlers, leases, network, TypeOK
<1> QED BY <1>1, <1>2, PublishScriptInv

\* An abort of a delivery that has executed, whose status may be recorded.
LEMMA AbortScriptInv ==
  ASSUME TypeOK, Inv, NEW r \in Reqs, NEW status, AbortScript(r, status),
         status \in {"unknown", "published", "aborted"},
         work[r] \notin {"none", "running"},
         UNCHANGED <<now, phase, joinedAt, from>>, late' \subseteq late,
         \A q \in Reqs : q # r => work'[q] = work[q],
         work'[r] \in {work[r], status}
  PROVE  Inv'
<1>1. OrderInv'
  BY DEF Inv, OrderInv
<1>0. state.ready \/ state.closed \/ Open => state.owner \in Reqs
  BY OwnerIsReq DEF Inv
<1>w. \A q \in Reqs :
        /\ work'[q] # work[q] => q = r /\ work'[q] = status
        /\ work[q] \in {"none", "running"} <=> work'[q] \in {"none", "running"}
  OBVIOUS
<1>2. CASE Same /\ (status = "aborted" => state.owner = r /\ state.closed /\ ~state.ready)
  <2>1. StateInv' /\ LockInv'
    BY <1>0, <1>2, <1>w DEF Inv, StateInv, LockInv, Same, Exists, Open
  <2>2. LeaseInv'
    BY <1>2 DEF Inv, LeaseInv, Lease, Same
  <2>3. status = "aborted" => \A s \in Reqs : from[s] = r => s = r
    <3>1. CASE status = "aborted"
      <4>1. state.consumedBy = NoReq
        BY <1>2, <3>1 DEF Inv, StateInv
      <4> QED BY <1>2, <3>1, <4>1, ReqsAssumption DEF Inv, AnswerInv
    <3> QED BY <3>1
  <2>4. AnswerInv' /\ OneAnswerPerElection'
    <3>1. \A q \in Reqs : work'[q] = "aborted" =>
            /\ \A s \in Reqs : from[s] = q => s = q
            /\ state.owner = q => state.closed
      BY <1>2, <1>w, <2>3 DEF Inv, AnswerInv
    <3>2. AnswerInv'
      BY <1>2, <1>w, <3>1, FromIsReq DEF Inv, AnswerInv, Same
    <3> QED BY <3>2 DEF Inv, OneAnswerPerElection
  <2> QED BY <1>1, <2>1, <2>2, <2>4 DEF Inv
<1>3. CASE Closed(NoReq) /\ state.owner = r /\ ~state.ready
  <2>1. StateInv' /\ LockInv'
    BY <1>3, ReqsAssumption DEF Inv, StateInv, LockInv, Closed, Exists, Open
  <2>2. LeaseInv'
    <3>1. \A q \in Reqs : q # r => Lease(q)'
      BY <1>3 DEF Inv, LeaseInv, Lease, Closed
    <3>2. phase'[r] \notin {"idle", "joined"} /\ work'[r] # "running"
      BY <1>w DEF Inv, OrderInv
    <3>3. Lease(r)'
      BY <3>2 DEF Lease
    <3> QED BY <3>1, <3>3 DEF LeaseInv
  <2>3. \A s \in Reqs : from[s] # r
    <3>1. \A s \in Reqs : from[s] = r => r = NoReq
      BY <1>3 DEF Inv, AnswerInv, Closed, Open
    <3> QED BY <3>1, ReqsAssumption
  <2>4. AnswerInv' /\ OneAnswerPerElection'
    <3>1. AnswerInv'
      BY <1>3, <1>w, <2>3, FromIsReq DEF Inv, AnswerInv, Closed
    <3> QED BY <3>1 DEF Inv, OneAnswerPerElection
  <2> QED BY <1>1, <2>1, <2>2, <2>4 DEF Inv
<1> QED BY <1>2, <1>3, AbortEffect DEF Inv, TypeOK

LEMMA ReconcileInv ==
  ASSUME TypeOK, Inv, NEW r \in Reqs, Reconcile(r)
  PROVE  Inv'
<1>1. PICK status \in {"unknown", "published", "aborted"} :
        AbortScript(r, status) /\ work' = [work EXCEPT ![r] = status]
  BY DEF Reconcile
<1>2. UNCHANGED <<now, phase, joinedAt, from, late>> /\ work[r] = "reconciling"
  BY DEF Reconcile, handlers, leases, network
<1>3. /\ \A q \in Reqs : q # r => work'[q] = work[q]
      /\ work'[r] = status
  BY <1>1 DEF TypeOK
<1> QED BY <1>1, <1>2, <1>3, AbortScriptInv

\* A poll, whose verdict reaches its handler (from' is updated) or is lost.
LEMMA DecideScriptInv ==
  ASSUME TypeOK, Inv, NEW r \in Reqs, NEW verdict, DecideScript(r, verdict),
         UNCHANGED <<now, joinedAt, work>>, late' \subseteq late,
         \A q \in Reqs : phase'[q] = phase[q]
                         \/ (q = r /\ phase[r] = "waiting" /\ phase'[r] = "leaving"),
         \/ from' = from
         \/ /\ verdict = "selected" /\ phase'[r] = "leaving"
            /\ phase[r] = "waiting" /\ from' = [from EXCEPT ![r] = state.owner]
  PROVE  Inv'
<1>1. OrderInv'
  BY DEF Inv, OrderInv, TypeOK
<1>2. CASE Same /\ (verdict = "selected" => state.closed /\ state.consumedBy = r)
  <2>1. StateInv' /\ LockInv'
    BY <1>2 DEF Inv, StateInv, LockInv, Same, Exists, Open
  <2>2. LeaseInv'
    BY <1>2 DEF Inv, LeaseInv, Lease, Same
  <2>3. CASE from' = from
    BY <1>1, <1>2, <2>1, <2>2, <2>3 DEF Inv, AnswerInv, OneAnswerPerElection, Same
  <2>4. CASE verdict = "selected" /\ from' = [from EXCEPT ![r] = state.owner]
    <3>1. /\ state.owner \in Reqs /\ state.consumedBy = r /\ state.closed /\ state.ready
          /\ work[state.owner] \notin {"none", "aborted"}
      BY <1>2, <2>4, ReqsAssumption
         DEF Inv, StateInv, Exists, Absent, TypeOK, StoreTypeOK, StateType, Tokens
    <3>2. \A s \in Reqs : from[s] = state.owner => s = r
      BY <3>1, ReqsAssumption DEF Inv, AnswerInv
    <3>3. AnswerInv' /\ OneAnswerPerElection'
      BY <1>2, <2>4, <3>1, <3>2 DEF Inv, AnswerInv, OneAnswerPerElection, Same, TypeOK
    <3> QED BY <1>1, <2>1, <2>2, <3>3 DEF Inv
  <2> QED BY <2>3, <2>4
<1>3. ASSUME NEW c \in {NoReq, r}, Closed(c), state.ready, verdict = "selected" => c = r
      PROVE  Inv'
  <2>1. /\ state.owner \in Reqs /\ work[state.owner] \notin {"none", "running", "aborted"}
        /\ \A s \in Reqs : from[s] # state.owner
    BY <1>3 DEF Inv, StateInv, AnswerInv, Closed, Open, Exists, TypeOK, StoreTypeOK,
                StateType, Tokens
  <2>2. StateInv' /\ LockInv'
    BY <1>3, <2>1, ReqsAssumption DEF Inv, StateInv, LockInv, Closed, Exists, Open
  <2>3. LeaseInv'
    <3>1. \A q \in Reqs : q = state.owner => phase[q] \notin {"idle", "joined"}
      BY <2>1 DEF Inv, OrderInv
    <3>2. ASSUME NEW q \in Reqs PROVE Lease(q)'
      <4>1. phase'[q] \in {"idle", "joined"} => phase'[q] = phase[q]
        OBVIOUS
      <4> QED BY <1>3, <2>1, <3>1, <4>1 DEF Inv, LeaseInv, Lease, Closed
    <3> QED BY <3>2 DEF LeaseInv
  <2>4. CASE from' = from
    BY <1>1, <1>3, <2>1, <2>2, <2>3, <2>4 DEF Inv, AnswerInv, OneAnswerPerElection, Closed
  <2>5. CASE verdict = "selected" /\ from' = [from EXCEPT ![r] = state.owner]
    <3>1. AnswerInv' /\ OneAnswerPerElection'
      BY <1>3, <2>1, <2>5 DEF Inv, AnswerInv, OneAnswerPerElection, Closed, TypeOK
    <3> QED BY <1>1, <2>2, <2>3, <3>1 DEF Inv
  <2> QED BY <2>4, <2>5
<1> QED BY <1>2, <1>3, DecideEffect DEF Inv, TypeOK

LEMMA DecideInv ==
  ASSUME TypeOK, Inv, NEW r \in Reqs, Decide(r)
  PROVE  Inv'
<1>1. PICK verdict \in {"wait", "selected", "not_selected"} :
        /\ DecideScript(r, verdict)
        /\ \/ verdict = "wait" /\ UNCHANGED handlers
           \/ /\ verdict # "wait"
              /\ Return(r, verdict)
              /\ from' = IF verdict = "selected" THEN [from EXCEPT ![r] = state.owner] ELSE from
              /\ UNCHANGED leases
  BY DEF Decide
<1>2. /\ UNCHANGED <<now, joinedAt, work, late>> /\ phase[r] = "waiting"
  BY <1>1 DEF Decide, handlers, leases, workers, network
<1>3. CASE verdict = "wait" /\ UNCHANGED handlers
  BY <1>1, <1>2, <1>3, DecideScriptInv DEF handlers
<1>4. CASE verdict # "wait" /\ Return(r, verdict)
  <2>1. \A q \in Reqs : phase'[q] = IF q = r THEN "leaving" ELSE phase[q]
    BY <1>4 DEF Return, TypeOK
  <2>2. \/ from' = from
        \/ verdict = "selected" /\ from' = [from EXCEPT ![r] = state.owner]
    BY <1>1, <1>4
  <2> QED BY <1>1, <1>2, <2>1, <2>2, DecideScriptInv
<1> QED BY <1>1, <1>3, <1>4

LEMMA SameInv ==
  ASSUME TypeOK, Inv, Same, UNCHANGED <<now, joinedAt, work, from>>, late' \subseteq late,
         \A q \in Reqs : phase'[q] = phase[q] \/ (phase'[q] = "done" /\ phase[q] # "idle")
  PROVE  Inv'
<1>1. StateInv' /\ LockInv'
  BY DEF Inv, StateInv, LockInv, Same, Exists, Open
<1>2. OrderInv' /\ LeaseInv'
  BY DEF Inv, OrderInv, LeaseInv, Lease, Same
<1>3. AnswerInv' /\ OneAnswerPerElection'
  BY DEF Inv, AnswerInv, OneAnswerPerElection, Same
<1> QED BY <1>1, <1>2, <1>3 DEF Inv

LEMMA LeaveInv ==
  ASSUME TypeOK, Inv, NEW r \in Reqs, Leave(r)
  PROVE  Inv'
<1>1. Same
  BY LeaveEffect DEF Leave, Inv, TypeOK
<1>2. UNCHANGED <<now, joinedAt, work, from, late>>
  BY DEF Leave, leases, workers, network
<1>3. \A q \in Reqs : phase'[q] = phase[q] \/ (phase'[q] = "done" /\ phase[q] # "idle")
  BY DEF Leave, TypeOK
<1> QED BY <1>1, <1>2, <1>3, SameInv

LEMMA LateScriptInv ==
  ASSUME TypeOK, Inv, LateScript
  PROVE  Inv'
<1>1. PICK name \in Scripts, r \in Reqs :
        <<name, r>> \in late /\ late' = late \ {<<name, r>>} /\ RunScript(name, r)
  BY DEF LateScript
<1>2. UNCHANGED <<now, phase, joinedAt, from, work>> /\ late' \subseteq late
  BY <1>1 DEF LateScript, handlers, leases, workers
<1>3. CASE name = "join"
  <2>1. work[r] = "none" /\ phase[r] = "done"
    BY <1>1, <1>3 DEF Inv, OrderInv
  <2>2. Same \/ New(r)
    BY <1>1, <1>3, JoinEffect DEF RunScript, Inv, TypeOK
  <2>3. /\ StateInv' /\ LockInv' /\ AnswerInv' /\ OneAnswerPerElection'
        /\ \A q \in Reqs \ {r} : Lease(q)'
    BY <1>2, <2>1, <2>2, JoinScriptInv
  <2>4. Lease(r)'
    BY <1>2, <2>1 DEF Lease
  <2>5. OrderInv' /\ LeaseInv'
    BY <1>2, <2>3, <2>4 DEF Inv, OrderInv, LeaseInv
  <2> QED BY <2>3, <2>5 DEF Inv
<1>4. CASE name = "publish"
  <2>1. work[r] \notin {"none", "running"}
    BY <1>1, <1>4 DEF Inv, OrderInv
  <2>2. Same \/ Ready(r)
    BY <1>1, <1>4, PublishEffect DEF RunScript, Inv, TypeOK
  <2> QED BY <1>2, <2>1, <2>2, PublishScriptInv
<1>5. CASE name = "abort"
  <2>1. work[r] \notin {"none", "running"}
    BY <1>1, <1>5 DEF Inv, OrderInv
  <2> QED BY <1>1, <1>2, <1>5, <2>1, AbortScriptInv DEF RunScript
<1>6. CASE name = "decide"
  BY <1>1, <1>2, <1>6, DecideScriptInv DEF RunScript
<1>7. CASE name = "leave"
  BY <1>1, <1>2, <1>7, LeaveEffect, SameInv DEF RunScript, Inv, TypeOK
<1> QED BY <1>1, <1>3, <1>4, <1>5, <1>6, <1>7 DEF Scripts

\* Time passes: no lease that matters runs out.
LEMMA TimePassesInv ==
  ASSUME TypeOK, Inv, TimePasses
  PROVE  Inv'
<1>1. /\ UNCHANGED <<phase, joinedAt, from, work, late>> /\ now' = now + 1 /\ now \in Nat
      /\ \A r \in Reqs : Timely(r)
  BY DEF TimePasses, Tick, handlers, leases, workers, network, TypeOK, StoreTypeOK
<1>2. \/ state' = state /\ lock' = lock
      \/ state' = Absent /\ lock' = NoLock /\ Exists /\ state.expires <= now + 1
  <2>1. CASE Open
    <3>1. lock = [holder |-> state.owner, expires |-> state.expires] /\ LockHeld /\ Exists
      BY <2>1 DEF Inv, LockInv, LockHeld, Open, Exists
    <3> QED BY <3>1, <1>1 DEF TimePasses, Tick
  <2>2. CASE ~Open
    <3>1. lock = NoLock /\ ~LockHeld
      BY <2>2 DEF Inv, LockInv, LockHeld, NoLock
    <3> QED BY <3>1, <1>1 DEF TimePasses, Tick
  <2> QED BY <2>1, <2>2
<1>3. OrderInv'
  BY <1>1 DEF Inv, OrderInv
<1>4. \A r \in Reqs :
        /\ phase[r] # "joined"
        /\ phase[r] = "idle" => state.owner # r
        /\ work[r] = "running" => now + 1 <= joinedAt[r] + ExecTTL /\ state.expires > now + 1
  <2> TAKE r \in Reqs
  <2>1. phase[r] # "joined" /\ (phase[r] = "idle" => state.owner # r)
    BY <1>1 DEF Timely
  <2>2. ASSUME work[r] = "running"
        PROVE  now + 1 <= joinedAt[r] + ExecTTL /\ state.expires > now + 1
    <3>1. /\ now < joinedAt[r] + ExecTTL /\ state.expires = joinedAt[r] + StateTTL
          /\ joinedAt[r] \in Nat
      BY <1>1, <2>2 DEF Timely, Inv, LeaseInv, Lease, TypeOK
    <3> QED BY <1>1, <3>1, LeaseAssumption, BoundsAssumption, TimesAssumption
  <2> QED BY <2>1, <2>2
<1>5. CASE state' = state /\ lock' = lock
  <2>1. StateInv' /\ LockInv'
    BY <1>1, <1>5 DEF Inv, StateInv, LockInv, Exists, Open
  <2>2. LeaseInv'
    BY <1>1, <1>4, <1>5 DEF Inv, LeaseInv, Lease
  <2>3. AnswerInv' /\ OneAnswerPerElection'
    BY <1>1, <1>5 DEF Inv, AnswerInv, OneAnswerPerElection
  <2> QED BY <1>3, <2>1, <2>2, <2>3 DEF Inv
<1>6. CASE state' = Absent /\ lock' = NoLock /\ Exists /\ state.expires <= now + 1
  <2>1. \A r \in Reqs : work[r] # "running"
    <3>1. state.expires \in Nat
      BY DEF TypeOK, StoreTypeOK, StateType
    <3> QED BY <1>1, <1>4, <1>6, <3>1
  <2>2. StateInv' /\ LockInv'
    BY <1>6 DEF StateInv, LockInv, Exists, Open, Absent
  <2>3. state'.owner = NoReq
    BY <1>6 DEF Absent
  <2>4. LeaseInv'
    BY <1>1, <1>4, <2>1, <2>3, ReqsAssumption DEF LeaseInv, Lease
  <2>5. AnswerInv' /\ OneAnswerPerElection'
    BY <1>1, <2>3, ReqsAssumption DEF Inv, AnswerInv, OneAnswerPerElection
  <2> QED BY <1>3, <2>2, <2>4, <2>5 DEF Inv
<1> QED BY <1>2, <1>5, <1>6

LEMMA InvStep == TypeOK /\ Inv /\ [Next]_vars => Inv'
<1> SUFFICES ASSUME TypeOK, Inv, [Next]_vars PROVE Inv'
  OBVIOUS
<1>1. ASSUME NEW r \in Reqs, Handler(r) PROVE Inv'
  BY <1>1, QuietHandlerInv, CollectFailureInv, JoinInv, JoinRepeatedInv, DecideInv, LeaveInv
     DEF Handler
<1>2. ASSUME NEW r \in Reqs, Executor(r) PROVE Inv'
  BY <1>2, StartExecutorInv, QuietExecutorInv, PublishInv, ReconcileInv DEF Executor
<1>3. ASSUME NEW p \in Procs, CloseCoordinator(p) PROVE Inv'
  BY <1>3, UntouchedInv DEF CloseCoordinator, store, workers
<1>4. ASSUME NEW p \in Procs, Crash(p) PROVE Inv'
  BY <1>4, CrashInv
<1>5. CASE LateScript
  BY <1>5, LateScriptInv
<1>6. CASE OtherCommand
  BY <1>6, UntouchedInv DEF OtherCommand, workers
<1>7. CASE TimePasses
  BY <1>7, TimePassesInv
<1>8. CASE Finished \/ UNCHANGED vars
  BY <1>8, UntouchedInv DEF Finished, vars, store, workers, network
<1> QED BY <1>1, <1>2, <1>3, <1>4, <1>5, <1>6, <1>7, <1>8 DEF Next, Step

-----------------------------------------------------------------------------
(***************************************************************************)
(* The theorems                                                            *)
(***************************************************************************)
\* The inductive invariant holds in every reachable state.
THEOREM Inductive == Spec => [](TypeOK /\ Inv)
<1>1. Init => TypeOK /\ Inv
  BY InitType, InitInv
<1>2. TypeOK /\ Inv /\ [Next]_vars => TypeOK' /\ Inv'
  BY TypeStep, InvStep
<1> QED BY <1>1, <1>2, PTL DEF Spec

\* No two handlers deliver the result of one election, whatever is lost,
\* repeated, delayed or crashes and however many bots and processes there are.
THEOREM AnsweredOnce == Spec => []OneAnswerPerElection
<1>1. Inv => OneAnswerPerElection
  BY DEF Inv
<1> QED BY <1>1, Inductive, PTL

\* As long as the lease of an election outlives the timeouts of an execution
\* and its publication, two of them never execute the command at the same time.
THEOREM ExecutedAlone == Spec => []OneExecution
<1>1. Inv => OneExecution
  BY DEF Inv, LeaseInv, Lease, OneExecution
<1> QED BY <1>1, Inductive, PTL

\* The dedup lock is held exactly while an election is open, by its owner.
THEOREM LockFollows == Spec => []LockFollowsElection
<1>1. Inv => LockFollowsElection
  BY DEF Inv, LockInv, StateInv, Open, Exists, NoLock, Absent, LockFollowsElection
<1> QED BY <1>1, Inductive, PTL

-----------------------------------------------------------------------------
(***************************************************************************)
(* The cooldown and the retention of an answered event                     *)
(***************************************************************************)
\* The cooldown never ends later than one armed now, and it covers the last
\* close, and the last answer to every event, until they are old enough.
CooldownInv ==
  /\ rate <= now + RateTTL
  /\ state.closed => \/ state.closedAt + RateTTL <= rate
                     \/ state.closedAt + RateTTL <= now
  /\ \A e \in Events : consumedAt[e] # 0 =>
       /\ consumedAt[e] <= now + 1
       /\ \/ consumedAt[e] + RateTTL <= rate + 1
          \/ consumedAt[e] + RateTTL <= now + 1

\* Until its answer is old enough, the consumed state of e is in Redis.
Retained(e) ==
  consumedAt[e] # 0 =>
    \/ consumedAt[e] + CompletedTTL <= now + 1
    \/ /\ Exists /\ state.closed /\ state.eventTime = e
       /\ consumedAt[e] + CompletedTTL <= state.expires + 1

\* An answer is given out.
Consumes == state'.consumedBy # NoReq /\ state.consumedBy = NoReq

\* Every close arms the cooldown, and an answer keeps the closed state for its
\* retention.
ArmsAndRetains ==
  /\ rate' \in {rate, Cooldown}
  /\ state'.closed =>
       \/ state.closed /\ state'.closedAt = state.closedAt
       \/ rate' = Cooldown /\ state'.closedAt = now
  /\ Consumes =>
       /\ rate' = Cooldown /\ ~state.closed
       /\ Exists' /\ state'.closed /\ state'.eventTime = state.eventTime
       /\ state'.expires = now + CompletedRetention

\* Every step but the passing of time runs one script, or none.
LEMMA StepIsScript ==
  ASSUME Step
  PROVE  /\ now' = now
         /\ consumedAt' = consumedAt \/ NoteConsumption
         /\ \/ UNCHANGED state /\ rate' \in {rate, Cooldown}
            \/ \E name \in Scripts, r \in Reqs : RunScript(name, r)
<1> DEFINE Goal ==
      /\ now' = now
      /\ consumedAt' = consumedAt \/ NoteConsumption
      /\ \/ UNCHANGED state /\ rate' \in {rate, Cooldown}
         \/ \E name \in Scripts, r \in Reqs : RunScript(name, r)
<1>1. ASSUME NEW r \in Reqs, Handler(r) PROVE Goal
  <2>1. CASE Join(r) \/ JoinRepeated(r)
    <3>1. RunScript("join", r) /\ now' = now /\ consumedAt' = consumedAt
      BY <2>1 DEF Join, JoinRepeated, RunScript
    <3> QED BY <3>1 DEF Scripts
  <2>2. CASE JoinFailed(r) \/ RefuseClosing(r) \/ CollectFailure(r) \/ DecideFailed(r)
             \/ Cancel(r) \/ TimeOut(r) \/ ShutDown(r) \/ LeaveFailed(r)
    BY <2>2 DEF JoinFailed, RefuseClosing, CollectFailure, DecideFailed, Cancel, TimeOut,
                ShutDown, LeaveFailed, store
  <2>3. CASE Decide(r)
    <3>1. RunScript("decide", r) /\ now' = now /\ NoteConsumption
      BY <2>3 DEF Decide, RunScript
    <3> QED BY <3>1 DEF Scripts
  <2>4. CASE Leave(r)
    <3>1. RunScript("leave", r) /\ now' = now /\ consumedAt' = consumedAt
      BY <2>4 DEF Leave, RunScript
    <3> QED BY <3>1 DEF Scripts
  <2> QED BY <1>1, <2>1, <2>2, <2>3, <2>4 DEF Handler
<1>2. ASSUME NEW r \in Reqs, Executor(r) PROVE Goal
  <2>1. CASE Publish(r)
    <3>1. RunScript("publish", r) /\ now' = now /\ consumedAt' = consumedAt
      BY <2>1 DEF Publish, RunScript
    <3> QED BY <3>1 DEF Scripts
  <2>2. CASE Reconcile(r)
    <3>1. RunScript("abort", r) /\ now' = now /\ consumedAt' = consumedAt
      BY <2>2 DEF Reconcile, RunScript
    <3> QED BY <3>1 DEF Scripts
  <2>3. CASE StartExecutor(r) \/ FinishExecution(r) \/ PublishFailed(r) \/ PublishCut(r)
             \/ ReconcileFailed(r)
    BY <2>3 DEF StartExecutor, FinishExecution, PublishFailed, PublishCut,
                ReconcileFailed, store
  <2> QED BY <1>2, <2>1, <2>2, <2>3 DEF Executor
<1>3. ASSUME NEW p \in Procs, CloseCoordinator(p) \/ Crash(p) PROVE Goal
  BY <1>3 DEF CloseCoordinator, Crash, store
<1>4. CASE LateScript
  BY <1>4 DEF LateScript
<1>5. CASE OtherCommand \/ Finished
  BY <1>5 DEF OtherCommand, Finished, vars, store, Cooldown
<1> QED BY <1>1, <1>2, <1>3, <1>4, <1>5 DEF Step

\* What a close writes beside the fields it is given.
LEMMA CloseWrites ==
  ASSUME NEW closed \in StateType, NEW hash, NEW retention, Close(closed, hash, retention)
  PROVE  /\ state'.consumedBy = closed.consumedBy /\ state'.closed
         /\ state'.owner = closed.owner /\ state'.eventTime = closed.eventTime
         /\ state'.expires = now + retention /\ rate' = Cooldown
         /\ state'.closedAt = now
BY DEF Close, StateType

LEMMA ScriptArms ==
  ASSUME TypeOK, Inv, NEW name \in Scripts, NEW r \in Reqs, RunScript(name, r)
  PROVE  ArmsAndRetains
<1> USE DEF TypeOK, StoreTypeOK
<1>0. CASE UNCHANGED store
  BY <1>0 DEF store, ArmsAndRetains, Consumes
<1>1. CASE name = "join"
  <2>1. PICK single \in SingleValues, role \in {"executor", "follower", "rejected"} :
          JoinScript(r, single, role)
    BY <1>1 DEF RunScript
  <2>2. /\ rate' = rate /\ ~Consumes
        /\ state'.closed => state.closed /\ state'.closedAt = state.closedAt
    <3>1. ASSUME NEW base, Create(r, single, base) PROVE rate' = rate /\ ~Consumes /\ ~state'.closed
      BY <3>1 DEF Create, Absent, Consumes
    <3>2. CASE CreateFirst(r, single, role)
      BY <3>1, <3>2 DEF CreateFirst, store, Consumes
    <3>3. CASE ReplaceClosed(r, single, role)
      BY <3>1, <3>3 DEF ReplaceClosed, store, Consumes, Absent
    <3>4. CASE JoinOpen(r, role)
      BY <3>4 DEF JoinOpen, store, Consumes, StateType
    <3> QED BY <2>1, <3>2, <3>3, <3>4 DEF JoinScript
  <2> QED BY <2>2 DEF ArmsAndRetains
<1>2. CASE name = "publish"
  BY <1>0, <1>2 DEF RunScript, PublishScript, StoreResult, ArmsAndRetains, Consumes, StateType
<1>3. CASE name = "abort"
  <2>1. CASE Close(state, candidates, RateTTL)
    <3>1. state'.consumedBy = state.consumedBy /\ rate' = Cooldown /\ state'.closedAt = now
      BY <2>1, CloseWrites
    <3> QED BY <3>1 DEF ArmsAndRetains, Consumes
  <2> QED BY <1>0, <1>3, <2>1 DEF RunScript, AbortScript
<1>4. CASE name = "decide"
  <2>1. PICK verdict \in {"wait", "selected", "not_selected"} : DecideScript(r, verdict)
    BY <1>4 DEF RunScript
  <2>2. CASE Exists /\ ~state.closed /\ Elect(r, verdict)
    <3>1. now + ClaimTTL \in Nat /\ Electable \subseteq Reqs
      BY <2>2, TimesAssumption, StandingType
    <3>2. ASSUME NEW w \in Reqs
          PROVE  /\ Claimed(w) \in StateType
                 /\ Claimed(w).owner = state.owner
                 /\ Claimed(w).eventTime = state.eventTime
                 /\ Claimed(w).consumedBy = state.consumedBy
                 /\ Claimed(w).closed = state.closed
      BY <3>1 DEF Claimed, StateType, Tokens
    <3>3. CASE Close([state EXCEPT !.winner = NoReq, !.claimDeadline = 0], Standing, RateTTL)
      <4> DEFINE closed == [state EXCEPT !.winner = NoReq, !.claimDeadline = 0]
      <4>1. closed \in StateType /\ closed.consumedBy = state.consumedBy
        BY DEF StateType, Tokens
      <4>2. Close(closed, Standing, RateTTL)
        BY <3>3
      <4> HIDE DEF closed
      <4>3. state'.consumedBy = state.consumedBy /\ rate' = Cooldown /\ state'.closedAt = now
        BY <4>1, <4>2, CloseWrites
      <4> QED BY <4>3 DEF ArmsAndRetains, Consumes
    <3>4. CASE \E w \in Electable \ {r} : state' = Claimed(w) /\ UNCHANGED <<rate, lock>>
      BY <2>2, <3>1, <3>2, <3>4 DEF ArmsAndRetains, Consumes
    <3>5. CASE Close([Claimed(r) EXCEPT !.consumedBy = r], Standing, CompletedRetention)
      <4> DEFINE closed == [Claimed(r) EXCEPT !.consumedBy = r]
      <4>1. /\ closed \in StateType /\ closed.owner = state.owner
            /\ closed.eventTime = state.eventTime
        BY <3>2 DEF StateType, Tokens
      <4>2. Close(closed, Standing, CompletedRetention)
        BY <3>5
      <4> HIDE DEF closed
      <4>3. /\ state'.owner = state.owner /\ state'.closed
            /\ state'.eventTime = state.eventTime
            /\ state'.expires = now + CompletedRetention /\ rate' = Cooldown
            /\ state'.closedAt = now
        BY <4>1, <4>2, CloseWrites
      <4> QED BY <2>2, <4>3 DEF ArmsAndRetains, Exists
    <3> QED BY <2>2, <3>3, <3>4, <3>5 DEF Elect
  <2> QED BY <1>0, <2>1, <2>2 DEF DecideScript
<1>5. CASE name = "leave"
  BY <1>0, <1>5 DEF RunScript, LeaveScript, ArmsAndRetains, Consumes, StateType
<1> QED BY <1>1, <1>2, <1>3, <1>4, <1>5 DEF Scripts

\* An election is created only by a join, outside the cooldown.
LEMMA CreatedOutsideCooldown ==
  ASSUME TypeOK, Inv, Created, NEW name \in Scripts, NEW r \in Reqs, RunScript(name, r)
  PROVE  name = "join" /\ now >= rate /\ state'.eventTime = EventTime[r]
<1>1. ~Same /\ ~Closed(NoReq) /\ ~Closed(r) /\ ~Ready(r)
  BY DEF Created, Same, Closed, Ready, Open
<1>2. name = "join"
  BY <1>1, PublishEffect, AbortEffect, DecideEffect, LeaveEffect
     DEF Inv, TypeOK, RunScript, Scripts
<1>3. PICK single \in SingleValues, role \in {"executor", "follower", "rejected"} :
        JoinScript(r, single, role)
  BY <1>2 DEF RunScript
<1>4. ~UNCHANGED store
  BY <1>1, UnchangedIsSame
<1>5. ASSUME NEW base, Create(r, single, base) PROVE state'.eventTime = EventTime[r]
  BY <1>5 DEF Create, Absent
<1>6. now \in Nat /\ rate \in Nat
  BY DEF TypeOK, StoreTypeOK
<1>7. CASE CreateFirst(r, single, role)
  BY <1>2, <1>4, <1>5, <1>6, <1>7 DEF CreateFirst, RateLimited
<1>8. CASE ReplaceClosed(r, single, role)
  BY <1>2, <1>4, <1>5, <1>6, <1>8 DEF ReplaceClosed, RateLimited, Created, Absent
<1>9. CASE JoinOpen(r, role)
  <2>1. Exists /\ state' = [state EXCEPT !.eventTime = IF @ = 0 THEN EventTime[r] ELSE @]
    BY <1>4, <1>9 DEF JoinOpen
  <2>2. Same
    BY <1>9, <2>1, <1>4 DEF Same, JoinOpen, TypeOK, StoreTypeOK, StateType
  <2> QED BY <1>1, <2>2
<1> QED BY <1>3, <1>7, <1>8, <1>9 DEF JoinScript

\* No script touches the closed state of the newest event.
LEMMA NewestIsKept ==
  ASSUME TypeOK, NEW e \in Events, Newest(e), Exists, state.closed, state.eventTime = e,
         NEW name \in Scripts, NEW r \in Reqs, RunScript(name, r)
  PROVE  UNCHANGED state
<1>1. EventTime[r] \in 1..e /\ e \in Nat \ {0}
  BY EventTimeAssumption DEF Newest, Events
<1>2. ~NewGeneration(r)
  BY <1>1 DEF NewGeneration
<1>3. CASE name = "join"
  BY <1>2, <1>3 DEF RunScript, JoinScript, CreateFirst, ReplaceClosed, JoinOpen, store
<1>4. CASE name = "publish" \/ name = "abort" \/ name = "decide"
  BY <1>4 DEF RunScript, PublishScript, AbortScript, DecideScript, store
<1>5. CASE name = "leave"
  BY <1>5 DEF RunScript, LeaveScript, store
<1> QED BY <1>3, <1>4, <1>5 DEF Scripts

\* The last answer to an event moves only when the event is answered.
LEMMA NoteEffect ==
  ASSUME TypeOK, consumedAt' = consumedAt \/ NoteConsumption, NEW e \in Events
  PROVE  \/ consumedAt'[e] = consumedAt[e]
         \/ Consumes /\ state'.eventTime = e /\ consumedAt'[e] = now + 1
BY DEF TypeOK, NoteConsumption, Consumes

LEMMA CooldownStep == TypeOK /\ Inv /\ CooldownInv /\ [Next]_vars => CooldownInv'
<1> SUFFICES ASSUME TypeOK, Inv, CooldownInv, [Next]_vars PROVE CooldownInv'
  OBVIOUS
<1>1. /\ now \in Nat /\ rate \in Nat /\ RateTTL \in Nat \ {0}
      /\ state.closedAt \in Nat /\ \A e \in Events : consumedAt[e] \in Nat
  BY TimesAssumption DEF TypeOK, StoreTypeOK, StateType
<1> DEFINE Arms ==
      state'.closed => \/ state.closed /\ state'.closedAt = state.closedAt
                       \/ rate' = Cooldown /\ state'.closedAt = now
<1>2. CASE Step
  <2>1. now' = now /\ (consumedAt' = consumedAt \/ NoteConsumption)
    BY <1>2, StepIsScript
  <2>2. rate' \in {rate, Cooldown} /\ (Consumes => rate' = Cooldown) /\ Arms
    <3>1. CASE UNCHANGED state /\ rate' \in {rate, Cooldown}
      BY <3>1 DEF Consumes
    <3>2. ASSUME NEW name \in Scripts, NEW r \in Reqs, RunScript(name, r)
          PROVE  rate' \in {rate, Cooldown} /\ (Consumes => rate' = Cooldown) /\ Arms
      BY <3>2, ScriptArms DEF ArmsAndRetains
    <3> QED BY <1>2, <3>1, <3>2, StepIsScript
  <2>3. rate' <= now + RateTTL /\ rate' >= rate
    BY <1>1, <2>2 DEF CooldownInv, Cooldown
  <2>4. ASSUME NEW e \in Events, consumedAt'[e] # 0
        PROVE  /\ consumedAt'[e] <= now + 1
               /\ \/ consumedAt'[e] + RateTTL <= rate' + 1
                  \/ consumedAt'[e] + RateTTL <= now + 1
    <3>1. CASE consumedAt'[e] = consumedAt[e]
      <4>0. rate' \in Nat
        BY <1>1, <2>2 DEF Cooldown
      <4> QED BY <1>1, <2>3, <2>4, <3>1, <4>0 DEF CooldownInv
    <3>2. CASE Consumes /\ consumedAt'[e] = now + 1
      BY <1>1, <2>2, <3>2 DEF Cooldown
    <3> QED BY <2>1, <3>1, <3>2, NoteEffect
  <2>5. Events' = Events
    BY DEF Events
  <2>6. state'.closed => \/ state'.closedAt + RateTTL <= rate'
                         \/ state'.closedAt + RateTTL <= now
    BY <1>1, <2>2, <2>3 DEF CooldownInv, Cooldown
  <2> QED BY <2>1, <2>3, <2>4, <2>5, <2>6 DEF CooldownInv
<1>3. CASE TimePasses
  <2>1. /\ now' = now + 1 /\ rate' = (IF rate <= now' THEN 0 ELSE rate)
        /\ consumedAt' = consumedAt
        /\ state' = state \/ ~state'.closed
    BY <1>3 DEF TimePasses, Tick, Absent
  <2>2. state'.closed => \/ state'.closedAt + RateTTL <= rate'
                         \/ state'.closedAt + RateTTL <= now'
    BY <1>1, <2>1 DEF CooldownInv
  <2>3. /\ rate' <= now' + RateTTL
        /\ \A e \in Events : consumedAt[e] # 0 =>
             /\ consumedAt[e] <= now' + 1
             /\ \/ consumedAt[e] + RateTTL <= rate' + 1
                \/ consumedAt[e] + RateTTL <= now' + 1
    BY <1>1, <2>1 DEF CooldownInv
  <2> QED BY <2>1, <2>2, <2>3 DEF CooldownInv, Events
<1>4. CASE UNCHANGED vars
  BY <1>4 DEF vars, store, CooldownInv, Events
<1> QED BY <1>2, <1>3, <1>4 DEF Next

LEMMA RetainedStep ==
  ASSUME NEW e \in Events, Newest(e)
  PROVE  TypeOK /\ Inv /\ Retained(e) /\ [Next]_vars => Retained(e)'
<1> SUFFICES ASSUME TypeOK, Inv, Retained(e), [Next]_vars PROVE Retained(e)'
  OBVIOUS
<1>1. /\ now \in Nat /\ CompletedTTL \in Nat /\ consumedAt[e] \in Nat
      /\ state.expires \in Nat /\ e \in Nat \ {0}
  BY TimesAssumption, EventTimeAssumption DEF TypeOK, StoreTypeOK, StateType, Newest, Events
<1>2. CASE Step
  <2>1. now' = now /\ (consumedAt' = consumedAt \/ NoteConsumption)
    BY <1>2, StepIsScript
  <2>2. CASE consumedAt'[e] = consumedAt[e]
    <3>1. CASE Exists /\ state.closed /\ state.eventTime = e
      <4>1. UNCHANGED state
        BY <1>2, <3>1, StepIsScript, NewestIsKept
      <4> QED BY <2>1, <2>2, <4>1 DEF Retained, Exists
    <3> QED BY <2>1, <2>2, <3>1 DEF Retained
  <2>3. CASE Consumes /\ state'.eventTime = e /\ consumedAt'[e] = now + 1
    <3>1. ASSUME NEW name \in Scripts, NEW r \in Reqs, RunScript(name, r)
          PROVE  ArmsAndRetains
      BY <3>1, ScriptArms
    <3>2. ~UNCHANGED state
      BY <2>3 DEF Consumes
    <3>3. ArmsAndRetains
      BY <1>2, <3>1, <3>2, StepIsScript
    <3>4. Exists' /\ state'.closed /\ state'.expires = now + CompletedTTL
      BY <1>1, <2>3, <3>3 DEF ArmsAndRetains, CompletedRetention
    <3> QED BY <1>1, <2>1, <2>3, <3>4 DEF Retained
  <2> QED BY <2>1, <2>2, <2>3, NoteEffect
<1>3. CASE TimePasses
  <2>1. /\ now' = now + 1 /\ consumedAt' = consumedAt
        /\ state' = state \/ state.expires <= now + 1
    BY <1>3 DEF TimePasses, Tick
  <2> QED BY <1>1, <2>1 DEF Retained, Exists
<1>4. CASE UNCHANGED vars
  BY <1>4 DEF vars, store, Retained, Exists
<1> QED BY <1>2, <1>3, <1>4 DEF Next

\* No election of the command is created within the cooldown of an answer to it,
\* nor within that of the close it finds.
THEOREM CooldownHolds == Spec => CooldownAfterAnswer
<1> DEFINE After ==
      Created =>
        /\ state.closed => now >= state.closedAt + RateTTL
        /\ \A e \in Events : consumedAt[e] # 0 => now + 1 >= consumedAt[e] + RateTTL
<1>1. Init => CooldownInv
  BY TimesAssumption DEF Init, StoreInit, CooldownInv, Absent
<1>2. TypeOK /\ Inv /\ CooldownInv /\ [Next]_vars => CooldownInv'
  BY CooldownStep
<1>3. TypeOK /\ Inv /\ CooldownInv /\ [Next]_vars => [After]_vars
  <2> SUFFICES ASSUME TypeOK, Inv, CooldownInv, Created, Step PROVE After
    <3>1. TimePasses => ~Created
      BY DEF TimePasses, Tick, Created, Absent, Exists
    <3> QED BY <3>1 DEF Next
  <2>1. ~UNCHANGED state
    BY DEF Created
  <2>2. now >= rate
    BY <2>1, StepIsScript, CreatedOutsideCooldown
  <2>3. /\ now \in Nat /\ rate \in Nat /\ RateTTL \in Nat /\ state.closedAt \in Nat
        /\ \A e \in Events : consumedAt[e] \in Nat
    BY TimesAssumption DEF TypeOK, StoreTypeOK, StateType
  <2> QED BY <2>2, <2>3 DEF CooldownInv
<1> QED BY <1>1, <1>2, <1>3, Inductive, PTL DEF Spec, CooldownAfterAnswer

\* The newest event of a command is not executed again while its consumed state
\* should still reject its late deliveries.  An older event may be: a newer one
\* replaces its state.
THEOREM NewestNotReexecuted == Spec => NewestEventNotReexecuted
<1> DEFINE Kept == \A e \in Events : Newest(e) => Retained(e)
           Once == Created /\ Newest(state'.eventTime) /\ consumedAt[state'.eventTime] # 0
                   => now + 1 >= consumedAt[state'.eventTime] + CompletedTTL
<1>1. Init => Kept
  BY DEF Init, Retained
<1>2. TypeOK /\ Inv /\ Kept /\ [Next]_vars => Kept'
  <2> SUFFICES ASSUME TypeOK, Inv, Kept, [Next]_vars, NEW e \in Events, Newest(e)
               PROVE  Retained(e)'
    BY DEF Events, Newest
  <2> QED BY RetainedStep
<1>3. TypeOK /\ Inv /\ Kept /\ [Next]_vars => [Once]_vars
  <2> SUFFICES ASSUME TypeOK, Inv, Kept, Step, Created, Newest(state'.eventTime),
                      consumedAt[state'.eventTime] # 0
               PROVE  now + 1 >= consumedAt[state'.eventTime] + CompletedTTL
    <3>1. TimePasses => ~Created
      BY DEF TimePasses, Tick, Created, Absent, Exists
    <3> QED BY <3>1 DEF Next
  <2>1. PICK name \in Scripts, r \in Reqs : RunScript(name, r)
    BY StepIsScript DEF Created
  <2>2. PICK e \in Events : e = state'.eventTime
    BY <2>1, CreatedOutsideCooldown DEF Events
  <2>3. ~(Exists /\ state.closed /\ state.eventTime = e)
    BY <2>1, <2>2, NewestIsKept DEF Created
  <2>4. now \in Nat /\ CompletedTTL \in Nat /\ consumedAt[e] \in Nat
    BY <2>2, TimesAssumption DEF TypeOK, StoreTypeOK
  <2>5. Retained(e) /\ consumedAt[e] # 0
    BY <2>2
  <2> QED BY <2>2, <2>3, <2>4, <2>5 DEF Retained
<1> HIDE DEF Kept
<1> QED BY <1>1, <1>2, <1>3, Inductive, PTL DEF Spec, NewestEventNotReexecuted

\* When every delivery is of one event, which is what the bots that observed one
\* message report, no answered event is executed again within the retention.
THEOREM OneEventNotReexecuted ==
  ASSUME NEW e \in Nat \ {0}, \A r \in Reqs : EventTime[r] = e
  PROVE  Spec => AnsweredEventNotReexecuted
<1> DEFINE Newer == Created /\ Newest(state'.eventTime) /\ consumedAt[state'.eventTime] # 0
                    => now + 1 >= consumedAt[state'.eventTime] + CompletedTTL
           Any == Created /\ state'.eventTime > 0 /\ consumedAt[state'.eventTime] # 0
                  => now + 1 >= consumedAt[state'.eventTime] + CompletedTTL
<1>1. TypeOK /\ Inv /\ [Next]_vars /\ Created => Newest(state'.eventTime)
  <2> SUFFICES ASSUME TypeOK, Inv, [Next]_vars, Created PROVE Newest(state'.eventTime)
    OBVIOUS
  <2>1. Step
    BY DEF Next, TimePasses, Tick, Created, Absent, Exists, vars, store
  <2>2. state'.eventTime = e
    BY <2>1, StepIsScript, CreatedOutsideCooldown DEF Created
  <2> QED BY <2>2 DEF Newest
<1>2. TypeOK /\ Inv /\ [Next]_vars /\ [Newer]_vars => [Any]_vars
  BY <1>1
<1>3. Spec => [][Newer]_vars
  BY NewestNotReexecuted DEF NewestEventNotReexecuted
<1> QED BY <1>2, <1>3, Inductive, PTL DEF Spec, AnsweredEventNotReexecuted

=============================================================================
