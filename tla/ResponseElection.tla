--------------------------- MODULE ResponseElection ---------------------------
(***************************************************************************)
(* ResponseElectionCoordinator (api/bot/pjsk/response_election.go): the    *)
(* handlers of the bots that observed one command join an election in      *)
(* Redis, the creator executes the command in a goroutine of its own and   *)
(* publishes the result, and every handler polls until one of them is      *)
(* selected to deliver it.                                                 *)
(*                                                                         *)
(* A call to Redis can fail at its client.  A script whose client repeats  *)
(* it has run before the repeat or does not run; one whose client has      *)
(* given up may run at any later time, or never: it waits in late.         *)
(***************************************************************************)
EXTENDS ElectionRedis

CONSTANTS
  Procs,          \* server processes
  ProcOf,         \* the process that handles each delivery
  ForceValues,    \* values result.ForceExecutor takes
  SingleValues,   \* whether the roster expects one candidate
  ExecTTL,        \* dedupInFlightTTL, the bound of one execution
  PublishTTL,     \* responseElectionPublishBudget plus one Redis timeout
  LastArrival,    \* bound: no delivery arrives after this time
  MaxDisruptions  \* bound: failures, cancellations and other commands

ASSUME ProcsAssumption == ProcOf \in [Reqs -> Procs]
ASSUME ChoicesAssumption == ForceValues \subseteq BOOLEAN /\ SingleValues \subseteq BOOLEAN
ASSUME BoundsAssumption == {ExecTTL, PublishTTL, LastArrival, MaxDisruptions} \subseteq Nat
\* responseElectionStateTTL is dedupInFlightTTL + 30s, publication takes 3.5s.
ASSUME LeaseAssumption == ExecTTL + PublishTTL < StateTTL

VARIABLES
  phase,        \* where Coordinate is in each handler
  reason,       \* the decision it returned
  work,         \* the executor goroutine of each handler
  forced,       \* result.ForceExecutor of what it executed
  joinedAt,     \* when the handler joined
  windowEnd,    \* lease.deadline, when it starts to poll
  closing,      \* processes whose coordinator is closed
  late,         \* scripts given up by their clients and still on their way
  disruptions,  \* failures so far
  from,         \* history: the election whose result the handler delivered
  consumedAt    \* history: when each event was last answered, plus one

leases == <<joinedAt, windowEnd>>
handlers == <<phase, reason, leases, from>>
workers == <<work, forced>>
network == <<late, disruptions>>
vars == <<now, store, handlers, workers, closing, network, consumedAt>>

Phases == {"idle", "joined", "waiting", "leaving", "done"}
Visible == {"selected", "publish_fail_open", "direct"}
Reasons == Visible \union
  {"none", "rejected", "not_selected", "canceled", "shutdown", "publish_unknown", "crashed"}
Works == {"none", "running", "publishing", "reconciling",
          "published", "aborted", "unknown", "dead"}
Scripts == {"join", "publish", "abort", "decide", "leave"}
Events == {0} \union {EventTime[r] : r \in Reqs}

TypeOK ==
  /\ StoreTypeOK
  /\ phase \in [Reqs -> Phases]
  /\ reason \in [Reqs -> Reasons]
  /\ work \in [Reqs -> Works]
  /\ forced \in [Reqs -> BOOLEAN]
  /\ joinedAt \in [Reqs -> Nat]
  /\ windowEnd \in [Reqs -> Nat]
  /\ closing \subseteq Procs
  /\ late \subseteq Scripts \X Reqs
  /\ disruptions \in Nat
  /\ from \in [Reqs -> Tokens]
  /\ consumedAt \in [Events -> Nat]

Init ==
  /\ StoreInit
  /\ phase = [r \in Reqs |-> "idle"]
  /\ reason = [r \in Reqs |-> "none"]
  /\ work = [r \in Reqs |-> "none"]
  /\ forced = [r \in Reqs |-> FALSE]
  /\ joinedAt = [r \in Reqs |-> 0]
  /\ windowEnd = [r \in Reqs |-> 0]
  /\ closing = {}
  /\ late = {}
  /\ disruptions = 0
  /\ from = [r \in Reqs |-> NoReq]
  /\ consumedAt = [e \in Events |-> 0]

Closing(r) == ProcOf[r] \in closing

Disrupt ==
  /\ disruptions < MaxDisruptions
  /\ disruptions' = disruptions + 1

\* The handler's last step before its deferred leave.
Return(r, why) ==
  /\ phase' = [phase EXCEPT ![r] = "leaving"]
  /\ reason' = [reason EXCEPT ![r] = why]

\* Coordinate returns before it holds a lease: nothing is left to clean up.
ReturnUnjoined(r, why) ==
  /\ phase' = [phase EXCEPT ![r] = "done"]
  /\ reason' = [reason EXCEPT ![r] = why]

(***************************************************************************)
(* join                                                                    *)
(***************************************************************************)
Arriving(r) == phase[r] = "idle" /\ now <= LastArrival

Join(r) ==
  /\ Arriving(r) /\ ~Closing(r)
  /\ \E single \in SingleValues, role \in {"executor", "follower", "rejected"} :
       /\ JoinScript(r, single, role)
       /\ \/ /\ role = "rejected"
             /\ ReturnUnjoined(r, "rejected")
             /\ UNCHANGED leases
          \/ /\ role # "rejected"
             /\ phase' = [phase EXCEPT ![r] = IF role = "executor" THEN "joined" ELSE "waiting"]
             /\ joinedAt' = [joinedAt EXCEPT ![r] = now]
             /\ windowEnd' = [windowEnd EXCEPT ![r] = state'.deadline]
             /\ UNCHANGED reason
  /\ UNCHANGED <<now, from, workers, closing, network, consumedAt>>

\* The script ran and its reply was lost: the client sends it again.
JoinRepeated(r) ==
  /\ Arriving(r) /\ ~Closing(r)
  /\ Disrupt
  /\ \E single \in SingleValues, role \in {"executor", "follower", "rejected"} :
       JoinScript(r, single, role)
  /\ UNCHANGED <<now, handlers, workers, closing, late, consumedAt>>

\* join returned an error: the command is executed directly and its result
\* delivered, or the request was already canceled.
JoinFailed(r) ==
  /\ Arriving(r) /\ ~Closing(r)
  /\ Disrupt
  /\ \E why \in {"direct", "canceled"} : ReturnUnjoined(r, why)
  /\ late' = late \union {<<"join", r>>}
  /\ UNCHANGED <<now, store, leases, from, workers, closing, consumedAt>>

RefuseClosing(r) ==
  /\ Arriving(r) /\ Closing(r)
  /\ ReturnUnjoined(r, "canceled")
  /\ UNCHANGED <<now, store, leases, from, workers, closing, network, consumedAt>>

(***************************************************************************)
(* startExecutor and its goroutine                                         *)
(***************************************************************************)
StartExecutor(r) ==
  /\ phase[r] = "joined"
  /\ \/ /\ Closing(r)
        /\ Return(r, "shutdown")
        /\ UNCHANGED work
     \/ /\ ~Closing(r)
        /\ phase' = [phase EXCEPT ![r] = "waiting"]
        /\ work' = [work EXCEPT ![r] = "running"]
        /\ UNCHANGED reason
  /\ UNCHANGED <<now, store, leases, from, forced, closing, network, consumedAt>>

FinishExecution(r) ==
  /\ work[r] = "running"
  /\ work' = [work EXCEPT ![r] = "publishing"]
  /\ \E force \in ForceValues : forced' = [forced EXCEPT ![r] = force]
  /\ UNCHANGED <<now, store, handlers, closing, network, consumedAt>>

\* A refused publication stays refused, so its retries are one step.
Publish(r) ==
  /\ work[r] = "publishing"
  /\ \E ok \in BOOLEAN :
       /\ PublishScript(r, forced[r], ok)
       /\ work' = [work EXCEPT ![r] = IF ok THEN "published" ELSE "reconciling"]
  /\ UNCHANGED <<now, handlers, forced, closing, network, consumedAt>>

\* An attempt failed: publish tries again, or its attempts or budget are spent.
PublishFailed(r) ==
  /\ work[r] = "publishing"
  /\ Disrupt
  /\ late' = late \union {<<"publish", r>>}
  /\ \E next \in {"publishing", "reconciling"} : work' = [work EXCEPT ![r] = next]
  /\ UNCHANGED <<now, store, handlers, forced, closing, consumedAt>>

\* Shutdown cancels the publication context before an attempt is sent.
PublishCut(r) ==
  /\ work[r] = "publishing" /\ Closing(r)
  /\ work' = [work EXCEPT ![r] = "reconciling"]
  /\ UNCHANGED <<now, store, handlers, forced, closing, network, consumedAt>>

\* reconcileFailedPublish
Reconcile(r) ==
  /\ work[r] = "reconciling"
  /\ \E status \in {"unknown", "published", "aborted"} :
       /\ AbortScript(r, status)
       /\ work' = [work EXCEPT ![r] = status]
  /\ UNCHANGED <<now, handlers, forced, closing, network, consumedAt>>

ReconcileFailed(r) ==
  /\ work[r] = "reconciling"
  /\ Disrupt
  /\ late' = late \union {<<"abort", r>>}
  /\ work' = [work EXCEPT ![r] = "unknown"]
  /\ UNCHANGED <<now, store, handlers, forced, closing, consumedAt>>

(***************************************************************************)
(* await                                                                   *)
(***************************************************************************)
\* executorPublishFailureDecision, when the goroutine's error arrives.
CollectFailure(r) ==
  /\ phase[r] = "waiting" /\ work[r] \in {"aborted", "unknown"}
  /\ LET why == IF Closing(r) THEN "shutdown"
                ELSE IF work[r] = "aborted" THEN "publish_fail_open"
                ELSE "publish_unknown"
     IN /\ Return(r, why)
        /\ from' = IF why = "publish_fail_open" THEN [from EXCEPT ![r] = r] ELSE from
  /\ UNCHANGED <<now, store, leases, workers, closing, network, consumedAt>>

\* history: the instant at which an answer to the event was given out.
NoteConsumption ==
  consumedAt' =
    IF state'.consumedBy # NoReq /\ state.consumedBy = NoReq
    THEN [consumedAt EXCEPT ![state'.eventTime] = now + 1]
    ELSE consumedAt

Decide(r) ==
  /\ phase[r] = "waiting" /\ now >= windowEnd[r]
  /\ \E verdict \in {"wait", "selected", "not_selected"} :
       /\ DecideScript(r, verdict)
       /\ \/ verdict = "wait" /\ UNCHANGED handlers
          \/ /\ verdict # "wait"
             /\ Return(r, verdict)
             /\ from' = IF verdict = "selected" THEN [from EXCEPT ![r] = state.owner] ELSE from
             /\ UNCHANGED leases
  /\ NoteConsumption
  /\ UNCHANGED <<now, workers, closing, network>>

\* The handler polls again after an error.
DecideFailed(r) ==
  /\ phase[r] = "waiting" /\ now >= windowEnd[r]
  /\ Disrupt
  /\ late' = late \union {<<"decide", r>>}
  /\ UNCHANGED <<now, store, handlers, workers, closing, consumedAt>>

\* The request's context ends, perhaps while a decide script is in flight.
Cancel(r) ==
  /\ phase[r] = "waiting"
  /\ Disrupt
  /\ Return(r, "canceled")
  /\ \E sent \in SUBSET {<<"decide", r>>} :
       (sent = {} \/ now >= windowEnd[r]) /\ late' = late \union sent
  /\ UNCHANGED <<now, store, leases, from, workers, closing, consumedAt>>

TimeOut(r) ==
  /\ phase[r] = "waiting" /\ now >= joinedAt[r] + StateTTL
  /\ Return(r, "canceled")
  /\ UNCHANGED <<now, store, leases, from, workers, closing, network, consumedAt>>

ShutDown(r) ==
  /\ phase[r] = "waiting" /\ Closing(r)
  /\ Return(r, "shutdown")
  /\ UNCHANGED <<now, store, leases, from, workers, closing, network, consumedAt>>

(***************************************************************************)
(* leave                                                                   *)
(***************************************************************************)
Leave(r) ==
  /\ phase[r] = "leaving"
  /\ LeaveScript(r)
  /\ phase' = [phase EXCEPT ![r] = "done"]
  /\ UNCHANGED <<now, reason, leases, from, workers, closing, network, consumedAt>>

LeaveFailed(r) ==
  /\ phase[r] = "leaving"
  /\ Disrupt
  /\ phase' = [phase EXCEPT ![r] = "done"]
  /\ late' = late \union {<<"leave", r>>}
  /\ UNCHANGED <<now, store, reason, leases, from, workers, closing, consumedAt>>

(***************************************************************************)
(* The environment                                                         *)
(***************************************************************************)
\* A script given up by its client reaches Redis after all.
RunScript(name, r) ==
  \/ /\ name = "join"
     /\ \E single \in SingleValues, role \in {"executor", "follower", "rejected"} :
          JoinScript(r, single, role)
  \/ name = "publish" /\ \E ok \in BOOLEAN : PublishScript(r, forced[r], ok)
  \/ /\ name = "abort"
     /\ \E status \in {"unknown", "published", "aborted"} : AbortScript(r, status)
  \/ /\ name = "decide"
     /\ \E verdict \in {"wait", "selected", "not_selected"} : DecideScript(r, verdict)
  \/ name = "leave" /\ LeaveScript(r)

LateScript ==
  /\ \E name \in Scripts, r \in Reqs :
       /\ <<name, r>> \in late
       /\ late' = late \ {<<name, r>>}
       /\ RunScript(name, r)
  /\ NoteConsumption
  /\ UNCHANGED <<now, handlers, workers, closing, disruptions>>

\* Close(): new work is refused and everything in flight is canceled.
CloseCoordinator(p) ==
  /\ p \notin closing
  /\ Disrupt
  /\ closing' = closing \union {p}
  /\ UNCHANGED <<now, store, handlers, workers, late, consumedAt>>

\* A process dies with its handlers and goroutines; nobody leaves.
Crash(p) ==
  /\ Disrupt
  /\ \E r \in Reqs : ProcOf[r] = p /\ phase[r] \in {"joined", "waiting", "leaving"}
  /\ phase' = [r \in Reqs |->
       IF ProcOf[r] = p /\ phase[r] # "idle" THEN "done" ELSE phase[r]]
  /\ reason' = [r \in Reqs |->
       IF ProcOf[r] = p /\ phase[r] \in {"joined", "waiting"} THEN "crashed" ELSE reason[r]]
  /\ work' = [r \in Reqs |->
       IF ProcOf[r] = p /\ work[r] # "none" THEN "dead" ELSE work[r]]
  /\ UNCHANGED <<now, store, leases, from, forced, closing, late, consumedAt>>

\* An answer to another command of the same user arms the shared cooldown.
OtherCommand ==
  /\ Disrupt
  /\ rate' = now + RateTTL
  /\ UNCHANGED <<now, state, candidates, candidatesTTL, lock,
                 handlers, workers, closing, late, consumedAt>>

\* The execution and publication contexts have timeouts, a handler that holds
\* an executor lease starts its goroutine at once, and a client repeats a join
\* within its Redis timeout.
Timely(r) ==
  /\ phase[r] # "joined"
  /\ phase[r] = "idle" => state.owner # r /\ candidates[BotOf[r]] # r
  /\ work[r] = "running" => now < joinedAt[r] + ExecTTL
  /\ work[r] \in {"publishing", "reconciling"} => now < joinedAt[r] + ExecTTL + PublishTTL

TimePasses ==
  /\ \A r \in Reqs : Timely(r)
  /\ Tick
  /\ UNCHANGED <<handlers, workers, closing, network, consumedAt>>

\* Every handler has answered and every goroutine has ended.
Finished ==
  /\ \A r \in Reqs :
       phase[r] \in {"idle", "done"} /\ work[r] \notin {"running", "publishing", "reconciling"}
  /\ UNCHANGED vars

Handler(r) ==
  \/ Join(r) \/ JoinRepeated(r) \/ JoinFailed(r) \/ RefuseClosing(r)
  \/ CollectFailure(r) \/ Decide(r) \/ DecideFailed(r)
  \/ Cancel(r) \/ TimeOut(r) \/ ShutDown(r) \/ Leave(r) \/ LeaveFailed(r)

Executor(r) ==
  \/ StartExecutor(r) \/ FinishExecution(r)
  \/ Publish(r) \/ PublishFailed(r) \/ PublishCut(r)
  \/ Reconcile(r) \/ ReconcileFailed(r)

Step ==
  \/ \E r \in Reqs : Handler(r) \/ Executor(r)
  \/ \E p \in Procs : CloseCoordinator(p) \/ Crash(p)
  \/ LateScript \/ OtherCommand \/ Finished

Next == Step \/ TimePasses

Spec == Init /\ [][Next]_vars

-----------------------------------------------------------------------------
(***************************************************************************)
(* Safety                                                                  *)
(***************************************************************************)
\* One result reaches the user once: whatever is lost, repeated, delayed or
\* crashes, no two handlers deliver the result of one election, neither two
\* selected ones nor a selected one beside the executor that failed open after
\* its publication was aborted.
OneAnswerPerElection ==
  \A r, s \in Reqs : from[r] # NoReq /\ from[r] = from[s] => r = s

\* The command is executed by one election at a time: its lease outlives the
\* execution (dedup.go, dedupInFlightTTL: "retries cannot start a second
\* render while the first request is still running").
OneExecution ==
  \A r, s \in Reqs : work[r] = "running" /\ work[s] = "running" => r = s

\* The dedup lock shared with the legacy guard is held exactly while an
\* election is open, by its owner: nothing is left locked by a closed one and
\* no legacy request can start beside an open one.
LockFollowsElection ==
  lock.holder = (IF state.closed THEN NoReq ELSE state.owner)

\* An election starts in this step.
Created ==
  /\ state'.owner # NoReq
  /\ state'.owner # state.owner \/ (state.closed /\ ~state'.closed)

\* An answered event is not executed again while its consumed state should
\* still reject its late deliveries (response_election.go, line 28: "Late
\* deliveries of the same event are rejected by event-time generation compare
\* for this whole window").
AnsweredEventNotReexecuted ==
  [][ Created /\ state'.eventTime > 0 /\ consumedAt[state'.eventTime] # 0
      => now + 1 >= consumedAt[state'.eventTime] + CompletedTTL ]_vars

\* Every delivery reports an event time, and none a later one.
Newest(e) == e > 0 /\ \A r \in Reqs : EventTime[r] \in 1..e

\* An answer to the newest event of a command, on the other hand, keeps that
\* event from being executed again for all of this time, also when its late
\* deliveries arrive long after the cooldown, or their joins were repeated or
\* given up.
NewestEventNotReexecuted ==
  [][ Created /\ Newest(state'.eventTime) /\ consumedAt[state'.eventTime] # 0
      => now + 1 >= consumedAt[state'.eventTime] + CompletedTTL ]_vars

\* No execution of the command starts within the user's cooldown of an answer
\* to it, whichever event was answered, nor within that of the close it finds,
\* whoever closed the election: an executor that failed open answered as well.
CooldownAfterAnswer ==
  [][ Created =>
        /\ state.closed => now >= state.closedAt + RateTTL
        /\ \A e \in Events :
             consumedAt[e] # 0 => now + 1 >= consumedAt[e] + RateTTL ]_vars

\* When the abort is confirmed the executor answers itself: its handler does
\* not take the close it caused for somebody else's answer.
ConfirmedAbortIsAnswered ==
  \A r \in Reqs : work[r] = "aborted" => reason[r] # "not_selected"

-----------------------------------------------------------------------------
(***************************************************************************)
(* Refinement                                                              *)
(***************************************************************************)
Running == {r \in Reqs : work[r] = "running"}
Executed == {r \in Reqs : work[r] # "none"}
Answer == [r \in Reqs |->
  IF \E s \in Reqs : from[s] = r THEN CHOOSE s \in Reqs : from[s] = r ELSE NoReq]

Promise == INSTANCE AnswerOnce
             WITH running <- Running, executed <- Executed, answer <- Answer

\* The elections of one command keep the promise of AnswerOnce.
AnswersOnce == Promise!Spec

-----------------------------------------------------------------------------
(***************************************************************************)
(* Liveness, for handlers that poll in time                                *)
(***************************************************************************)
\* A poll of r would not leave the election as it is.
PollDue(r) ==
  /\ phase[r] = "waiting" /\ now >= windowEnd[r]
  /\ \/ ~Exists \/ state.closed
     \/ /\ state.ready /\ now >= state.deadline
        /\ state.winner \in {NoReq, r} \/ ClaimExpired

\* Handlers poll every 25ms and a claim lasts a second: no unit of time passes
\* while a poll is due.
PollsInTime == TimePasses /\ \A r \in Reqs : ~PollDue(r)

LiveNext == Step \/ PollsInTime

LiveSpec ==
  /\ Init /\ [][LiveNext]_vars
  /\ WF_vars(PollsInTime)
  /\ \A r \in Reqs :
       /\ WF_vars(Join(r)) /\ WF_vars(RefuseClosing(r))
       /\ WF_vars(StartExecutor(r)) /\ WF_vars(FinishExecution(r))
       /\ WF_vars(Publish(r)) /\ WF_vars(Reconcile(r))
       /\ WF_vars(CollectFailure(r)) /\ WF_vars(Decide(r)) /\ WF_vars(Leave(r))

Candidates ==
  {r \in Reqs : /\ phase[r] = "waiting" /\ ~Closing(r) /\ work[r] # "unknown"
                /\ candidates[BotOf[r]] = r}

\* A published result that any candidate may deliver is not lost with the
\* candidates that disappear: as long as more of them wait than can still
\* fail, one of them consumes it (within the bound, which leaves each claim
\* its time).
PublishedIsConsumed ==
  (/\ Exists /\ state.ready /\ ~state.force /\ ~state.closed
   /\ now + MaxDisruptions * ClaimTTL < MaxTime
   /\ Cardinality(Candidates) > MaxDisruptions - disruptions)
  ~> (state.consumedBy # NoReq)
=============================================================================
