--------------------------- MODULE RequestGuardProofs ---------------------------
(***************************************************************************)
(* Proofs about RequestGuard, for every set of deliveries, commands,       *)
(* processes and workers, every capacity and every number of attempts.     *)
(***************************************************************************)
EXTENDS RequestGuard, TLAPS

InQueue(r, p) == \E i \in 1..Len(queue[p]) : queue[p][i] = r
Working(r) ==
  \E w \in Workers : /\ WorkerProc[w] = ProcOf[r] /\ worker[w].job = r
                     /\ worker[w].pc \in {"attempt", "backoff"}

\* A release that is queued or attempted was accepted by the process it is in.
JobsAccepted ==
  /\ \A p \in Procs : \A i \in 1..Len(queue[p]) :
       queue[p][i] \in accepted /\ ProcOf[queue[p][i]] = p
  /\ \A w \in Workers : worker[w].pc \in {"attempt", "backoff"} =>
       worker[w].job \in accepted /\ ProcOf[worker[w].job] = WorkerProc[w]
  /\ \A w \in Workers : worker[w].pc \notin {"attempt", "backoff"} => worker[w].job = NoReq
  /\ \A w \in Workers : worker[w].pc = "backoff" => worker[w].attempt < MaxAttempts

\* A release is under way only when the execution it follows has ended, and a
\* call of Acquire that was given up is never the one a release belongs to.
ReleasesFollow ==
  /\ \A r \in accepted : phase[r] = "done"
  /\ \A r \in Reqs : <<"complete", r>> \in late => phase[r] \in {"done", "dead"}
  /\ \A r \in Reqs : <<"acquire", r>> \in late =>
       r \notin accepted /\ phase[r] \in {"direct", "done", "dead"}

HolderInv == TypeOK /\ JobsAccepted /\ ReleasesFollow /\ HolderKeepsLock

\* A worker stops before its process is canceled only when nothing is queued.
StoppedDrained ==
  /\ \A w \in Workers : worker[w].pc = "exited" =>
       /\ closer[WorkerProc[w]] # "open"
       /\ closer[WorkerProc[w]] # "canceled" => queue[WorkerProc[w]] = <<>>
  /\ \A w \in Workers : closer[WorkerProc[w]] \in {"drained", "exited"} => worker[w].pc = "exited"
  /\ \A r \in accepted : closer[ProcOf[r]] # "exited"

\* Each attempt but the last one has cost a fault.
AttemptsCostFaults ==
  \A w \in Workers :
    /\ worker[w].pc = "attempt" => worker[w].attempt <= faults + 1
    /\ worker[w].pc = "backoff" => worker[w].attempt <= faults

\* A lock that an accepted release has not freed is still being released.
LockAccounted ==
  \A r \in accepted :
    lock[CommandOf[r]] = r /\ faults < MaxAttempts /\ closer[ProcOf[r]] # "canceled"
      => InQueue(r, ProcOf[r]) \/ Working(r)

DrainInv == StoppedDrained /\ AttemptsCostFaults /\ LockAccounted

--------------------------------------------------------------------------------
LEMMA AppendElements ==
  ASSUME NEW S, NEW q \in Seq(S), NEW x \in S
  PROVE  /\ Append(q, x) \in Seq(S) /\ Len(Append(q, x)) = Len(q) + 1
         /\ \A i \in 1..Len(q) : Append(q, x)[i] = q[i]
         /\ Append(q, x)[Len(q) + 1] = x
  OBVIOUS

LEMMA TailElements ==
  ASSUME NEW S, NEW q \in Seq(S), q # <<>>
  PROVE  /\ Tail(q) \in Seq(S) /\ Len(Tail(q)) = Len(q) - 1 /\ Len(q) > 0
         /\ Head(q) = q[1] /\ q[1] \in S
         /\ \A i \in 1..Len(q) - 1 : Tail(q)[i] = q[i + 1]
  OBVIOUS

--------------------------------------------------------------------------------
LEMMA InitHolder == Init => HolderInv
  <1> SUFFICES ASSUME Init PROVE HolderInv
    OBVIOUS
  <1>1. TypeOK
    <2>1. RedisOK /\ QueueOK /\ LateOK
      <3>1. RedisOK
        BY DEF Init, RedisOK, Tokens
      <3>2. QueueOK
        <4>1. Capacity \in Nat /\ <<>> \in Seq(Reqs) /\ Len(<<>>) = 0
          BY GuardAssumption
        <4> QED
          BY <4>1 DEF Init, QueueOK
      <3>3. LateOK
        BY GuardAssumption DEF Init, LateOK
      <3> QED
        BY <3>1, <3>2, <3>3
    <2>2. worker \in [Workers -> WorkerType]
      BY GuardAssumption DEF Init, WorkerType, IdleWorker, Tokens
    <2> QED
      BY <2>1, <2>2 DEF Init, TypeOK, Phases, Closers
  <1>2. JobsAccepted
    BY DEF Init, JobsAccepted, IdleWorker
  <1>3. ReleasesFollow /\ HolderKeepsLock
    BY DEF Init, ReleasesFollow, HolderKeepsLock
  <1> QED
    BY <1>1, <1>2, <1>3 DEF HolderInv

(***************************************************************************)
(* Type correctness                                                        *)
(***************************************************************************)
LEMMA ScriptType ==
  ASSUME RedisOK, NEW r \in Reqs,
         (\E granted \in BOOLEAN : AcquireScript(r, granted)) \/ CompleteScript(r) \/ UNCHANGED redis
  PROVE  RedisOK'
  <1>1. CASE \E granted \in BOOLEAN : AcquireScript(r, granted)
    BY <1>1, GuardAssumption DEF AcquireScript, RedisOK, Tokens
  <1>2. CASE CompleteScript(r)
    BY <1>2, GuardAssumption DEF CompleteScript, redis, RedisOK, Tokens
  <1>3. CASE UNCHANGED redis
    BY <1>3 DEF redis, RedisOK
  <1> QED
    BY <1>1, <1>2, <1>3

LEMMA FaultType == ASSUME faults \in 0..MaxFaults, Fault PROVE faults' \in 0..MaxFaults
  BY GuardAssumption DEF Fault

LEMMA PhaseType ==
  ASSUME phase \in [Reqs -> Phases], NEW r \in Reqs, NEW next \in Phases, PhaseMoves(r, next)
  PROVE  phase' \in [Reqs -> Phases]
  BY DEF PhaseMoves

LEMMA WorkerStepType ==
  ASSUME worker \in [Workers -> WorkerType], NEW w \in Workers,
         NEW new \in WorkerType, worker' = [worker EXCEPT ![w] = new]
  PROVE  worker' \in [Workers -> WorkerType]
  OBVIOUS

\* The record a step of w leaves behind.
LEMMA WorkerStep ==
  ASSUME worker \in [Workers -> WorkerType], NEW w \in Workers
  PROVE  /\ worker[w] \in WorkerType /\ IdleWorker \in WorkerType
         /\ \A pc \in {"check", "select", "attempt", "backoff", "exited"} :
              WorkerMoves(w, pc) => /\ worker' = [worker EXCEPT ![w] = [worker[w] EXCEPT !.pc = pc]]
                                    /\ [worker[w] EXCEPT !.pc = pc] \in WorkerType
  BY GuardAssumption DEF WorkerMoves, WorkerType, IdleWorker, Tokens

LEMMA RequestType ==
  ASSUME TypeOK, NEW r \in Reqs,
         Acquire(r) \/ AcquireRepeated(r) \/ AcquireFailed(r) \/ Handle(r) \/ FallbackRepeated(r)
  PROVE  TypeOK'
  <1> USE DEF TypeOK
  <1>1. CASE Acquire(r) \/ AcquireRepeated(r)
    <2>1. RedisOK'
      BY <1>1, ScriptType DEF Acquire, AcquireRepeated
    <2>2. phase' \in [Reqs -> Phases] /\ LateOK'
      BY <1>1, FaultType DEF Acquire, AcquireRepeated, PhaseMoves, Phases, LateOK
    <2> QED
      BY <1>1, <2>1, <2>2 DEF Acquire, AcquireRepeated, cleanup, QueueOK
  <1>2. CASE AcquireFailed(r)
    <2>1. phase' \in [Reqs -> Phases] /\ LateOK'
      BY <1>2, FaultType DEF AcquireFailed, PhaseMoves, Phases, LateOK
    <2> QED
      BY <1>2, <2>1 DEF AcquireFailed, redis, cleanup, RedisOK, QueueOK
  <1>3. CASE Execute(r)
    <2>1. phase' \in [Reqs -> Phases]
      BY <1>3 DEF Execute, PhaseMoves, Phases
    <2> QED
      BY <1>3, <2>1 DEF Execute, redis, cleanup, RedisOK, QueueOK, LateOK
  <1>4. CASE Enqueue(r)
    <2>1. phase' \in [Reqs -> Phases] /\ accepted' \subseteq Reqs
      BY <1>4 DEF Enqueue, PhaseMoves, Phases
    <2>2. QueueOK'
      <3> DEFINE p == ProcOf[r]
      <3>1. p \in Procs /\ queue[p] \in Seq(Reqs)
        BY GuardAssumption DEF QueueOK
      <3>2. Append(queue[p], r) \in Seq(Reqs) /\ Len(Append(queue[p], r)) = Len(queue[p]) + 1
        BY <3>1, AppendElements
      <3>3. CASE Accepts(p) /\ queue' = [queue EXCEPT ![p] = Append(@, r)]
        <4>1. Len(queue[p]) + 1 <= Capacity
          BY <3>1, <3>3, GuardAssumption DEF Accepts
        <4> QED
          BY <3>1, <3>2, <3>3, <4>1 DEF QueueOK
      <3>4. CASE queue' = queue
        BY <3>4 DEF QueueOK
      <3> QED
        BY <1>4, <3>3, <3>4 DEF Enqueue
    <2> QED
      BY <1>4, <2>1, <2>2 DEF Enqueue, redis, RedisOK, LateOK
  <1>5. CASE Fallback(r) \/ FallbackRepeated(r)
    <2>1. RedisOK'
      BY <1>5, ScriptType DEF Fallback, FallbackRepeated
    <2>2. phase' \in [Reqs -> Phases] /\ LateOK'
      BY <1>5, FaultType DEF Fallback, FallbackRepeated, PhaseMoves, Phases, LateOK
    <2> QED
      BY <1>5, <2>1, <2>2 DEF Fallback, FallbackRepeated, cleanup, QueueOK
  <1> QED
    BY <1>1, <1>2, <1>3, <1>4, <1>5 DEF Handle

LEMMA WorkerActionType ==
  ASSUME TypeOK, JobsAccepted, NEW w \in Workers,
         Work(w) \/ AttemptRepeated(w) \/ AttemptFails(w)
  PROVE  TypeOK'
  <1> USE DEF TypeOK
  <1>1. worker[w] \in WorkerType /\ IdleWorker \in WorkerType
    BY WorkerStep
  <1>2. phase' \in [Reqs -> Phases] /\ closer' \in [Procs -> Closers] /\ accepted' \subseteq Reqs
    BY DEF Work, AttemptRepeated, AttemptFails, CheckWorker, TakeJob, StopWorker, Attempt, EndBackoff, WorkerAlone
  <1>3. CASE CheckWorker(w) \/ StopWorker(w)
    <2>1. worker' \in [Workers -> WorkerType]
      BY <1>3, WorkerStep, WorkerStepType DEF CheckWorker, StopWorker
    <2> QED
      BY <1>2, <1>3, <2>1 DEF CheckWorker, StopWorker, redis, RedisOK, QueueOK, LateOK
  <1>4. CASE TakeJob(w)
    <2> DEFINE p == WorkerProc[w]
    <2>1. p \in Procs /\ queue[p] \in Seq(Reqs) /\ queue[p] # <<>>
      BY <1>4, GuardAssumption DEF TakeJob, QueueOf, QueueOK
    <2>2. /\ Tail(queue[p]) \in Seq(Reqs) /\ Len(Tail(queue[p])) = Len(queue[p]) - 1
          /\ Head(queue[p]) \in Reqs
      BY <2>1, TailElements
    <2>3. QueueOK'
      BY <1>4, <2>1, <2>2, GuardAssumption DEF TakeJob, QueueOK
    <2>4. [pc |-> "attempt", job |-> Head(queue[p]), attempt |-> 1] \in WorkerType
      BY <2>2, GuardAssumption DEF WorkerType, Tokens
    <2>5. worker' \in [Workers -> WorkerType]
      BY <1>1, <1>4, <2>4, WorkerStepType DEF TakeJob, JobEnds, QueueOf
    <2> QED
      BY <1>2, <1>4, <2>3, <2>5 DEF TakeJob, redis, RedisOK, LateOK
  <1>5. CASE Attempt(w) \/ AttemptRepeated(w)
    <2>1. worker[w].job \in Reqs
      BY <1>5 DEF Attempt, AttemptRepeated, WorkerAt, JobsAccepted
    <2>2. RedisOK'
      BY <1>5, <2>1, ScriptType DEF Attempt, AttemptRepeated
    <2>3. worker' \in [Workers -> WorkerType] /\ LateOK'
      BY <1>1, <1>5, FaultType, WorkerStepType DEF Attempt, AttemptRepeated, JobEnds, LateOK
    <2> QED
      BY <1>2, <1>5, <2>2, <2>3 DEF Attempt, AttemptRepeated, QueueOK
  <1>6. CASE AttemptFails(w)
    <2>1. worker[w].job \in Reqs
      BY <1>6 DEF AttemptFails, WorkerAt, JobsAccepted
    <2>2. LateOK'
      BY <1>6, <2>1, FaultType DEF AttemptFails, LateOK
    <2>3. worker' \in [Workers -> WorkerType]
      BY <1>1, <1>6, WorkerStep, WorkerStepType DEF AttemptFails, JobEnds
    <2> QED
      BY <1>2, <1>6, <2>2, <2>3 DEF AttemptFails, redis, RedisOK, QueueOK
  <1>7. CASE EndBackoff(w)
    <2>1. worker[w].attempt < MaxAttempts
      BY <1>7 DEF EndBackoff, WorkerAt, JobsAccepted
    <2>2. [worker[w] EXCEPT !.pc = "attempt", !.attempt = @ + 1] \in WorkerType
      <3>1. worker[w].attempt + 1 \in 0..MaxAttempts
        BY <1>1, <2>1, GuardAssumption DEF WorkerType
      <3> QED
        BY <1>1, <3>1 DEF WorkerType
    <2>3. worker' \in [Workers -> WorkerType]
      BY <1>1, <1>7, <2>2, WorkerStepType DEF EndBackoff, JobEnds
    <2> QED
      BY <1>2, <1>7, <2>3 DEF EndBackoff, redis, RedisOK, QueueOK, LateOK
  <1> QED
    BY <1>3, <1>4, <1>5, <1>6, <1>7 DEF Work

LEMMA ProcessType ==
  ASSUME TypeOK, NEW p \in Procs,
         Close(p) \/ Drained(p) \/ CloseDeadline(p) \/ Exit(p) \/ Restart(p)
  PROVE  TypeOK'
  <1> USE DEF TypeOK
  <1>1. RedisOK'
    BY DEF Close, Drained, CloseDeadline, Exit, Restart, CloserAlone, redis, RedisOK
  <1>2. closer' \in [Procs -> Closers]
    BY DEF Close, Drained, CloseDeadline, Exit, Restart, CloserMoves, Closers
  <1>3. phase' \in [Reqs -> Phases]
    BY DEF Close, Drained, CloseDeadline, Exit, Restart, Phases
  <1>4. QueueOK'
    <2>1. <<>> \in Seq(Reqs) /\ Len(<<>>) <= Capacity
      BY GuardAssumption
    <2> QED
      BY <2>1 DEF Close, Drained, CloseDeadline, Exit, Restart, CloserAlone, QueueOK
  <1>5. worker' \in [Workers -> WorkerType]
    <2>1. IdleWorker \in WorkerType /\ [IdleWorker EXCEPT !.pc = "exited"] \in WorkerType
      BY GuardAssumption DEF IdleWorker, WorkerType, Tokens
    <2> QED
      BY <2>1 DEF Close, Drained, CloseDeadline, Exit, Restart, CloserAlone
  <1>6. LateOK' /\ accepted' \subseteq Reqs
    BY FaultType DEF Close, Drained, CloseDeadline, Exit, Restart, CloserAlone, LateOK
  <1> QED
    BY <1>1, <1>2, <1>3, <1>4, <1>5, <1>6

LEMMA StepType == HolderInv /\ [Next]_vars => TypeOK'
  <1> SUFFICES ASSUME HolderInv, [Next]_vars PROVE TypeOK'
    OBVIOUS
  <1> USE DEF HolderInv, TypeOK
  <1>1. CASE LateScript
    <2>1. RedisOK' /\ late' \subseteq late /\ UNCHANGED <<phase, queue, worker, closer, accepted, faults>>
      BY <1>1, ScriptType DEF LateScript, cleanup
    <2> QED
      BY <2>1 DEF QueueOK, LateOK
  <1>2. CASE (\E c \in Commands : LeaseExpires(c)) \/ CooldownExpires
    <2>1. RedisOK' /\ UNCHANGED <<phase, queue, worker, closer, accepted, late, faults>>
      BY <1>2 DEF LeaseExpires, CooldownExpires, RedisOK, Tokens, cleanup
    <2> QED
      BY <2>1 DEF QueueOK, LateOK
  <1>3. CASE UNCHANGED vars
    BY <1>3 DEF vars, redis, cleanup, RedisOK, QueueOK, LateOK
  <1> QED
    BY <1>1, <1>2, <1>3, RequestType, WorkerActionType, ProcessType DEF Next

(***************************************************************************)
(* Releases                                                                *)
(***************************************************************************)
LEMMA RequestJobs ==
  ASSUME HolderInv, NEW r \in Reqs,
         Acquire(r) \/ AcquireRepeated(r) \/ AcquireFailed(r) \/ Handle(r) \/ FallbackRepeated(r)
  PROVE  JobsAccepted'
  <1>1. CASE UNCHANGED cleanup
    BY <1>1 DEF cleanup, HolderInv, JobsAccepted
  <1>2. CASE Enqueue(r)
    <2> DEFINE p == ProcOf[r]
    <2>1. p \in Procs /\ queue[p] \in Seq(Reqs) /\ UNCHANGED worker
      BY <1>2, GuardAssumption DEF Enqueue, HolderInv, TypeOK, QueueOK
    <2>2. /\ Len(Append(queue[p], r)) = Len(queue[p]) + 1
          /\ \A i \in 1..Len(queue[p]) : Append(queue[p], r)[i] = queue[p][i]
          /\ Append(queue[p], r)[Len(queue[p]) + 1] = r
      BY <2>1, AppendElements
    <2>3. CASE Accepts(p)
      <3>1. queue' = [queue EXCEPT ![p] = Append(@, r)] /\ accepted' = accepted \union {r}
        BY <1>2, <2>3 DEF Enqueue
      <3>2. ASSUME NEW q \in Procs, NEW i \in 1..Len(queue'[q])
            PROVE  queue'[q][i] \in accepted' /\ ProcOf[queue'[q][i]] = q
        <4>1. CASE q # p
          BY <3>1, <3>2, <4>1 DEF HolderInv, TypeOK, QueueOK, JobsAccepted
        <4>2. CASE q = p
          <5>1. queue'[p] = Append(queue[p], r)
            BY <2>1, <3>1 DEF HolderInv, TypeOK, QueueOK
          <5>2. CASE i = Len(queue[p]) + 1
            BY <2>2, <3>1, <4>2, <5>1, <5>2
          <5>3. CASE i # Len(queue[p]) + 1
            <6>1. i \in 1..Len(queue[p])
              BY <2>1, <2>2, <4>2, <5>1, <5>3
            <6> QED
              BY <2>1, <2>2, <3>1, <4>2, <5>1, <6>1 DEF HolderInv, JobsAccepted
          <5> QED
            BY <5>2, <5>3
        <4> QED
          BY <4>1, <4>2
      <3> QED
        BY <2>1, <3>1, <3>2 DEF HolderInv, JobsAccepted
    <2>4. CASE ~Accepts(p)
      BY <1>2, <2>4 DEF Enqueue, HolderInv, JobsAccepted
    <2> QED
      BY <2>3, <2>4
  <1> QED
    BY <1>1, <1>2 DEF Acquire, AcquireRepeated, AcquireFailed, Handle, Execute, Fallback, FallbackRepeated

LEMMA WorkerJobs ==
  ASSUME HolderInv, NEW w \in Workers, Work(w) \/ AttemptRepeated(w) \/ AttemptFails(w)
  PROVE  JobsAccepted'
  <1> USE DEF HolderInv, TypeOK
  <1>1. worker[w] \in WorkerType /\ UNCHANGED accepted
    BY DEF Work, AttemptRepeated, AttemptFails, CheckWorker, TakeJob, StopWorker, Attempt, EndBackoff, WorkerAlone
  <1>2. CASE TakeJob(w)
    <2> DEFINE p == WorkerProc[w]
    <2>1. p \in Procs /\ queue[p] \in Seq(Reqs) /\ queue[p] # <<>>
      BY <1>2, GuardAssumption DEF TakeJob, QueueOf, QueueOK
    <2>2. /\ Len(Tail(queue[p])) = Len(queue[p]) - 1 /\ Len(queue[p]) > 0
          /\ Head(queue[p]) = queue[p][1]
          /\ \A i \in 1..Len(queue[p]) - 1 : Tail(queue[p])[i] = queue[p][i + 1]
      BY <2>1, TailElements
    <2>3. queue' = [queue EXCEPT ![p] = Tail(@)]
      BY <1>2 DEF TakeJob
    <2>4. ASSUME NEW q \in Procs, NEW i \in 1..Len(queue'[q])
          PROVE  queue'[q][i] \in accepted' /\ ProcOf[queue'[q][i]] = q
      <3>1. CASE q # p
        BY <1>1, <2>3, <2>4, <3>1 DEF QueueOK, JobsAccepted
      <3>2. CASE q = p
        <4>1. queue'[p] = Tail(queue[p])
          BY <2>1, <2>3 DEF QueueOK
        <4>2. i \in 1..Len(queue[p]) - 1 /\ i + 1 \in 1..Len(queue[p])
          BY <2>1, <2>2, <3>2, <4>1
        <4> QED
          BY <1>1, <2>1, <2>2, <3>2, <4>1, <4>2 DEF JobsAccepted
      <3> QED
        BY <3>1, <3>2
    <2>5. queue[p][1] \in accepted /\ ProcOf[queue[p][1]] = p
      <3>1. 1 \in 1..Len(queue[p])
        BY <2>1, <2>2
      <3> QED
        BY <2>1, <3>1 DEF JobsAccepted
    <2>6. \/ worker' = [worker EXCEPT ![w] = IdleWorker]
          \/ worker' = [worker EXCEPT ![w] = [pc |-> "attempt", job |-> queue[p][1], attempt |-> 1]]
      BY <1>2, <2>2 DEF TakeJob, QueueOf, JobEnds
    <2> QED
      BY <1>1, <2>4, <2>5, <2>6 DEF JobsAccepted, IdleWorker
  <1>3. CASE CheckWorker(w) \/ StopWorker(w)
    <2>1. PICK pc \in {"exited", "select"} : worker' = [worker EXCEPT ![w].pc = pc]
      BY <1>3 DEF CheckWorker, StopWorker, WorkerMoves
    <2>2. worker'[w].pc = pc /\ worker'[w].job = worker[w].job /\ worker[w].job = NoReq
      BY <1>1, <1>3, <2>1 DEF CheckWorker, StopWorker, WorkerAt, JobsAccepted, WorkerType
    <2>3. UNCHANGED queue /\ \A v \in Workers : v # w => worker'[v] = worker[v]
      BY <1>3, <2>1 DEF CheckWorker, StopWorker
    <2> QED
      BY <1>1, <2>1, <2>2, <2>3 DEF JobsAccepted
  <1>4. CASE /\ worker' = [worker EXCEPT ![w] = IdleWorker] /\ UNCHANGED queue
    BY <1>1, <1>4 DEF JobsAccepted, IdleWorker
  <1>5. CASE AttemptRepeated(w)
    BY <1>1, <1>5 DEF AttemptRepeated, JobsAccepted
  <1>6. CASE AttemptFails(w) /\ ~GivesUp(w)
    <2>1. worker' = [worker EXCEPT ![w].pc = "backoff"] /\ UNCHANGED queue
      BY <1>6 DEF AttemptFails, WorkerMoves
    <2>2. worker[w].attempt < MaxAttempts
      <3>1. MaxAttempts \in Nat /\ worker[w].attempt \in 0..MaxAttempts /\ worker[w].attempt # MaxAttempts
        BY <1>1, <1>6, GuardAssumption DEF GivesUp, WorkerType
      <3> QED
        BY <3>1
    <2>3. /\ worker'[w].pc = "backoff" /\ worker'[w].job = worker[w].job
          /\ worker'[w].attempt = worker[w].attempt
          /\ \A v \in Workers : v # w => worker'[v] = worker[v]
      BY <1>1, <2>1 DEF WorkerType
    <2> QED
      BY <1>1, <1>6, <2>1, <2>2, <2>3 DEF AttemptFails, WorkerAt, JobsAccepted
  <1>7. CASE EndBackoff(w) /\ ~Canceled(WorkerProc[w])
    <2>1. worker' = [worker EXCEPT ![w].pc = "attempt", ![w].attempt = @ + 1] /\ UNCHANGED queue
      BY <1>7 DEF EndBackoff
    <2>2. /\ worker'[w].pc = "attempt" /\ worker'[w].job = worker[w].job
          /\ \A v \in Workers : v # w => worker'[v] = worker[v]
      BY <1>1, <2>1 DEF WorkerType
    <2> QED
      BY <1>1, <1>7, <2>1, <2>2 DEF EndBackoff, WorkerAt, JobsAccepted
  <1> QED
    BY <1>2, <1>3, <1>4, <1>5, <1>6, <1>7 DEF Work, Attempt, AttemptFails, EndBackoff, JobEnds

LEMMA ProcessJobs ==
  ASSUME HolderInv, NEW p \in Procs,
         Close(p) \/ Drained(p) \/ CloseDeadline(p) \/ Exit(p) \/ Restart(p)
  PROVE  JobsAccepted'
  <1> USE DEF HolderInv, TypeOK, QueueOK
  <1>1. CASE Exit(p)
    <2>1. queue'[p] = <<>> /\ \A q \in Procs : q # p => queue'[q] = queue[q]
      BY <1>1 DEF Exit
    <2>2. \A w \in Workers : worker'[w] = IF WorkerProc[w] = p THEN [IdleWorker EXCEPT !.pc = "exited"] ELSE worker[w]
      BY <1>1 DEF Exit
    <2>3. \A r \in accepted : ProcOf[r] # p => r \in accepted'
      BY <1>1 DEF Exit
    <2>4. \A q \in Procs : \A i \in 1..Len(queue'[q]) :
            queue'[q][i] \in accepted' /\ ProcOf[queue'[q][i]] = q
      <3> SUFFICES ASSUME NEW q \in Procs, NEW i \in 1..Len(queue'[q])
                   PROVE  queue'[q][i] \in accepted' /\ ProcOf[queue'[q][i]] = q
        OBVIOUS
      <3>1. q # p
        BY <2>1
      <3>2. queue[q][i] \in accepted /\ ProcOf[queue[q][i]] = q
        BY <2>1, <3>1 DEF JobsAccepted
      <3> QED
        BY <2>1, <2>3, <3>1, <3>2
    <2>5. \A w \in Workers :
            /\ worker'[w].pc \in {"attempt", "backoff"} =>
                 worker'[w].job \in accepted' /\ ProcOf[worker'[w].job] = WorkerProc[w]
            /\ worker'[w].pc \notin {"attempt", "backoff"} => worker'[w].job = NoReq
            /\ worker'[w].pc = "backoff" => worker'[w].attempt < MaxAttempts
      BY <2>2, <2>3 DEF JobsAccepted, IdleWorker
    <2> QED
      BY <2>4, <2>5 DEF JobsAccepted
  <1>2. CASE Restart(p)
    BY <1>2 DEF Restart, JobsAccepted, IdleWorker
  <1> QED
    BY <1>1, <1>2 DEF Close, Drained, CloseDeadline, CloserAlone, JobsAccepted

LEMMA StepJobs == HolderInv /\ [Next]_vars => JobsAccepted'
  <1> SUFFICES ASSUME HolderInv, [Next]_vars PROVE JobsAccepted'
    OBVIOUS
  <1>1. CASE UNCHANGED cleanup
    BY <1>1 DEF HolderInv, cleanup, JobsAccepted
  <1> QED
    BY <1>1, RequestJobs, WorkerJobs, ProcessJobs DEF Next, LateScript, LeaseExpires, CooldownExpires, vars

\* A step of a worker leaves the handlers alone, and what it gives up was
\* accepted.
LEMMA StepFollow == HolderInv /\ [Next]_vars => ReleasesFollow'
  <1> SUFFICES ASSUME HolderInv, [Next]_vars PROVE ReleasesFollow'
    OBVIOUS
  <1> USE DEF HolderInv, TypeOK, ReleasesFollow
  <1>1. ASSUME NEW r \in Reqs, Acquire(r) \/ AcquireRepeated(r) PROVE ReleasesFollow'
    BY <1>1 DEF Acquire, AcquireRepeated, Arriving, PhaseMoves, cleanup, Phases
  <1>2. ASSUME NEW r \in Reqs, AcquireFailed(r) PROVE ReleasesFollow'
    BY <1>2 DEF AcquireFailed, Arriving, PhaseMoves, cleanup, Phases
  <1>3. ASSUME NEW r \in Reqs, Execute(r) PROVE ReleasesFollow'
    BY <1>3 DEF Execute, PhaseMoves, cleanup, Phases
  <1>4. ASSUME NEW r \in Reqs, Enqueue(r) PROVE ReleasesFollow'
    BY <1>4 DEF Enqueue, PhaseMoves, Phases
  <1>5. ASSUME NEW r \in Reqs, Fallback(r) \/ FallbackRepeated(r) PROVE ReleasesFollow'
    BY <1>5 DEF Fallback, FallbackRepeated, PhaseMoves, cleanup, Phases
  <1>6. ASSUME NEW w \in Workers, Work(w) \/ AttemptRepeated(w) PROVE ReleasesFollow'
    BY <1>6 DEF Work, CheckWorker, TakeJob, StopWorker, Attempt, EndBackoff, AttemptRepeated, WorkerAlone
  <1>7. ASSUME NEW w \in Workers, AttemptFails(w) PROVE ReleasesFollow'
    <2>1. worker[w].job \in accepted
      BY <1>7 DEF AttemptFails, WorkerAt, JobsAccepted
    <2> QED
      BY <1>7, <2>1 DEF AttemptFails, WorkerAlone
  <1>8. ASSUME NEW p \in Procs, Close(p) \/ Drained(p) \/ CloseDeadline(p) \/ Restart(p)
        PROVE  ReleasesFollow'
    BY <1>8 DEF Close, Drained, CloseDeadline, Restart, CloserAlone
  <1>9. ASSUME NEW p \in Procs, Exit(p) PROVE ReleasesFollow'
    BY <1>9 DEF Exit
  <1>10. CASE LateScript
    BY <1>10 DEF LateScript, cleanup
  <1>11. CASE (\E c \in Commands : LeaseExpires(c)) \/ CooldownExpires \/ UNCHANGED vars
    BY <1>11 DEF LeaseExpires, CooldownExpires, vars, cleanup
  <1> QED
    BY <1>1, <1>2, <1>3, <1>4, <1>5, <1>6, <1>7, <1>8, <1>9, <1>10, <1>11 DEF Next, Handle

(***************************************************************************)
(* Locks                                                                   *)
(***************************************************************************)
\* Redis runs a release only for deliveries that no longer execute.
LEMMA ReleaseSparesHolders ==
  ASSUME TypeOK, HolderKeepsLock, NEW r \in Reqs, phase[r] # "holding",
         CompleteScript(r), \A s \in Reqs : phase'[s] = "holding" => phase[s] = "holding"
  PROVE  HolderKeepsLock'
  BY GuardAssumption DEF TypeOK, RedisOK, HolderKeepsLock, CompleteScript, Owned, redis

\* An acquisition takes a free lock only, so it takes nobody's.
LEMMA AcquireSparesHolders ==
  ASSUME TypeOK, HolderKeepsLock, NEW r \in Reqs, NEW granted \in BOOLEAN, AcquireScript(r, granted),
         \A s \in Reqs : phase'[s] = "holding" => phase[s] = "holding" \/ (s = r /\ granted)
  PROVE  HolderKeepsLock'
  <1>1. CASE granted
    <2>1. lock[CommandOf[r]] = NoReq /\ lock' = [lock EXCEPT ![CommandOf[r]] = r]
      BY <1>1 DEF AcquireScript
    <2> QED
      BY <2>1, GuardAssumption DEF TypeOK, RedisOK, HolderKeepsLock
  <1>2. CASE ~granted
    BY <1>2 DEF AcquireScript, HolderKeepsLock
  <1> QED
    BY <1>1, <1>2

LEMMA StepHolds == HolderInv /\ [Next]_vars => HolderKeepsLock'
  <1> SUFFICES ASSUME HolderInv, [Next]_vars PROVE HolderKeepsLock'
    OBVIOUS
  <1> USE DEF HolderInv
  <1>1. ASSUME NEW r \in Reqs, Acquire(r) PROVE HolderKeepsLock'
    <2>1. PICK granted \in BOOLEAN : AcquireScript(r, granted) /\ PhaseMoves(r, IF granted THEN "holding" ELSE "done")
      BY <1>1 DEF Acquire
    <2>2. \A s \in Reqs : phase'[s] = "holding" => phase[s] = "holding" \/ (s = r /\ granted)
      BY <2>1 DEF PhaseMoves, TypeOK
    <2> QED
      BY <2>1, <2>2, AcquireSparesHolders
  <1>2. ASSUME NEW r \in Reqs, AcquireRepeated(r) PROVE HolderKeepsLock'
    BY <1>2, AcquireSparesHolders DEF AcquireRepeated
  <1>3. CASE /\ UNCHANGED redis
             /\ \A s \in Reqs : phase'[s] = "holding" => phase[s] = "holding"
    BY <1>3 DEF redis, HolderKeepsLock
  <1>4. ASSUME NEW r \in Reqs, Fallback(r) \/ FallbackRepeated(r) PROVE HolderKeepsLock'
    <2>1. /\ phase[r] # "holding" /\ (CompleteScript(r) \/ UNCHANGED redis)
          /\ \A s \in Reqs : phase'[s] = "holding" => phase[s] = "holding"
      BY <1>4 DEF Fallback, FallbackRepeated, PhaseMoves, TypeOK
    <2> QED
      BY <1>3, <2>1, ReleaseSparesHolders
  <1>5. ASSUME NEW w \in Workers, Attempt(w) \/ AttemptRepeated(w) PROVE HolderKeepsLock'
    <2>1. worker[w].job \in Reqs /\ phase[worker[w].job] # "holding"
      BY <1>5 DEF Attempt, AttemptRepeated, WorkerAt, JobsAccepted, ReleasesFollow, TypeOK
    <2> QED
      BY <1>5, <2>1, ReleaseSparesHolders DEF Attempt, AttemptRepeated, WorkerAlone
  <1>6. CASE LateScript
    <2>1. PICK r \in Reqs :
            /\ \/ \E granted \in BOOLEAN : AcquireScript(r, granted)
               \/ <<"complete", r>> \in late /\ CompleteScript(r)
            /\ UNCHANGED phase
      BY <1>6 DEF LateScript
    <2> QED
      BY <2>1, AcquireSparesHolders, ReleaseSparesHolders DEF ReleasesFollow
  <1>7. ASSUME NEW c \in Commands, LeaseExpires(c) PROVE HolderKeepsLock'
    BY <1>7 DEF LeaseExpires, HolderKeepsLock, TypeOK, RedisOK
  <1>8. CASE CooldownExpires
    BY <1>8 DEF CooldownExpires, HolderKeepsLock
  <1>9. ASSUME NEW r \in Reqs, AcquireFailed(r) \/ Execute(r) \/ Enqueue(r) PROVE HolderKeepsLock'
    <2>1. \A s \in Reqs : phase'[s] = "holding" => phase[s] = "holding"
      BY <1>9 DEF AcquireFailed, Execute, Enqueue, PhaseMoves, TypeOK
    <2> QED
      BY <1>3, <1>9, <2>1 DEF AcquireFailed, Execute, Enqueue
  <1>10. ASSUME NEW w \in Workers, CheckWorker(w) \/ TakeJob(w) \/ StopWorker(w) \/ EndBackoff(w) \/ AttemptFails(w)
         PROVE  HolderKeepsLock'
    BY <1>3, <1>10 DEF CheckWorker, TakeJob, StopWorker, EndBackoff, AttemptFails, WorkerAlone
  <1>11. ASSUME NEW p \in Procs, Close(p) \/ Drained(p) \/ CloseDeadline(p) \/ Exit(p) \/ Restart(p)
         PROVE  HolderKeepsLock'
    BY <1>3, <1>11 DEF Close, Drained, CloseDeadline, Exit, Restart, CloserAlone
  <1>12. CASE UNCHANGED vars
    BY <1>3, <1>12 DEF vars
  <1> QED
    BY <1>1, <1>2, <1>4, <1>5, <1>6, <1>7, <1>8, <1>9, <1>10, <1>11, <1>12 DEF Next, Handle, Work

LEMMA StepHolder == HolderInv /\ [Next]_vars => HolderInv'
  BY StepType, StepJobs, StepFollow, StepHolds DEF HolderInv

(***************************************************************************)
(* Draining                                                                *)
(***************************************************************************)
LEMMA InitDrain == Init => DrainInv
  BY GuardAssumption DEF Init, DrainInv, StoppedDrained, AttemptsCostFaults, LockAccounted, IdleWorker

\* What a step of worker w does to the pc and the attempts of the workers.
LEMMA WorkerEffect ==
  ASSUME HolderInv, NEW w \in Workers, Work(w) \/ AttemptRepeated(w) \/ AttemptFails(w)
  PROVE  /\ \A v \in Workers : v # w => worker'[v] = worker[v]
         /\ UNCHANGED <<phase, closer, accepted>>
         /\ worker'[w].pc = "exited" => /\ worker[w].pc \in {"check", "select"} /\ UNCHANGED queue
                                        /\ \/ Canceled(WorkerProc[w])
                                           \/ ClosedAndDrained(w) /\ worker[w].pc = "select"
         /\ worker'[w].pc = "attempt" =>
              \/ worker'[w].attempt = 1
              \/ worker[w].pc = "backoff" /\ worker'[w].attempt = worker[w].attempt + 1
              \/ worker[w].pc = "attempt" /\ worker'[w].attempt = worker[w].attempt
         /\ worker'[w].pc = "backoff" => /\ worker[w].pc = "attempt" /\ faults' = faults + 1
                                         /\ worker'[w].attempt = worker[w].attempt
         /\ worker[w].pc # "exited" /\ (faults' = faults \/ faults' = faults + 1)
  <1> USE DEF HolderInv, TypeOK
  <1>1. worker[w] \in WorkerType /\ UNCHANGED <<phase, closer, accepted>>
    BY DEF Work, AttemptRepeated, AttemptFails, CheckWorker, TakeJob, StopWorker, Attempt, EndBackoff, WorkerAlone
  <1>2. CASE CheckWorker(w)
    BY <1>1, <1>2 DEF CheckWorker, WorkerAt, WorkerMoves, WorkerType
  <1>3. CASE TakeJob(w)
    BY <1>1, <1>3 DEF TakeJob, WorkerAt, JobEnds, IdleWorker, WorkerType
  <1>4. CASE StopWorker(w)
    BY <1>1, <1>4 DEF StopWorker, WorkerAt, WorkerMoves, WorkerType
  <1>5. CASE Attempt(w)
    BY <1>1, <1>5 DEF Attempt, WorkerAt, JobEnds, IdleWorker
  <1>6. CASE AttemptRepeated(w)
    BY <1>1, <1>6 DEF AttemptRepeated, WorkerAt, Fault
  <1>7. CASE AttemptFails(w)
    <2>1. CASE GivesUp(w)
      <3>1. worker' = [worker EXCEPT ![w] = IdleWorker] /\ worker[w].pc = "attempt"
        BY <1>7, <2>1 DEF AttemptFails, WorkerAt, JobEnds
      <3>2. faults' = faults \/ faults' = faults + 1
        BY <1>7 DEF AttemptFails, Fault
      <3> QED
        BY <1>1, <3>1, <3>2 DEF IdleWorker
    <2>2. CASE ~GivesUp(w)
      <3>1. Fault /\ worker' = [worker EXCEPT ![w].pc = "backoff"] /\ worker[w].pc = "attempt"
        BY <1>7, <2>2 DEF AttemptFails, GivesUp, WorkerAt, WorkerMoves
      <3>2. /\ worker'[w].pc = "backoff" /\ worker'[w].attempt = worker[w].attempt
            /\ \A v \in Workers : v # w => worker'[v] = worker[v]
        BY <1>1, <3>1 DEF WorkerType
      <3> QED
        BY <1>1, <3>1, <3>2 DEF Fault
    <2> QED
      BY <2>1, <2>2
  <1>8. CASE EndBackoff(w)
    <2>1. CASE Canceled(WorkerProc[w])
      BY <1>1, <1>8, <2>1 DEF EndBackoff, WorkerAt, JobEnds, IdleWorker
    <2>2. CASE ~Canceled(WorkerProc[w])
      <3>1. worker' = [worker EXCEPT ![w].pc = "attempt", ![w].attempt = @ + 1] /\ worker[w].pc = "backoff"
        BY <1>8, <2>2 DEF EndBackoff, WorkerAt
      <3>2. /\ worker'[w].pc = "attempt" /\ worker'[w].attempt = worker[w].attempt + 1
            /\ \A v \in Workers : v # w => worker'[v] = worker[v]
        BY <1>1, <3>1 DEF WorkerType
      <3> QED
        BY <1>1, <1>8, <3>1, <3>2 DEF EndBackoff
    <2> QED
      BY <2>1, <2>2
  <1> QED
    BY <1>2, <1>3, <1>4, <1>5, <1>6, <1>7, <1>8 DEF Work

LEMMA StepStopped == HolderInv /\ DrainInv /\ [Next]_vars => StoppedDrained'
  <1> SUFFICES ASSUME HolderInv, DrainInv, [Next]_vars PROVE StoppedDrained'
    OBVIOUS
  <1> USE GuardAssumption DEF HolderInv, TypeOK, QueueOK, DrainInv
  <1>1. CASE UNCHANGED cleanup
    BY <1>1 DEF cleanup, StoppedDrained
  <1>2. ASSUME NEW r \in Reqs, Enqueue(r) PROVE StoppedDrained'
    <2>1. CASE Accepts(ProcOf[r])
      <3>1. /\ closer[ProcOf[r]] = "open" /\ UNCHANGED <<worker, closer>>
            /\ accepted' = accepted \union {r}
            /\ \A p \in Procs : p # ProcOf[r] => queue'[p] = queue[p]
        BY <1>2, <2>1 DEF Enqueue, Accepts
      <3> QED
        BY <3>1 DEF StoppedDrained
    <2>2. CASE ~Accepts(ProcOf[r])
      BY <1>2, <2>2 DEF Enqueue, StoppedDrained
    <2> QED
      BY <2>1, <2>2
  <1>3. ASSUME NEW w \in Workers, Work(w) \/ AttemptRepeated(w) \/ AttemptFails(w) PROVE StoppedDrained'
    <2> DEFINE p == WorkerProc[w]
    <2>1. /\ \A v \in Workers : v # w => worker'[v] = worker[v]
          /\ UNCHANGED <<closer, accepted>> /\ worker[w].pc # "exited"
      BY <1>3, WorkerEffect
    <2>2. closer[p] \notin {"drained", "exited"}
      BY <2>1 DEF StoppedDrained
    <2>3. worker'[w].pc = "exited" => closer[p] = "canceled" \/ (closer[p] # "open" /\ queue'[p] = <<>>)
      BY <1>3, <2>2, WorkerEffect DEF Canceled, ClosedAndDrained, QueueOf
    <2>4. \A v \in Workers : v # w /\ worker[v].pc = "exited" /\ closer[WorkerProc[v]] # "canceled" =>
            queue'[WorkerProc[v]] = <<>>
      <3> SUFFICES ASSUME NEW v \in Workers, worker[v].pc = "exited", closer[WorkerProc[v]] # "canceled"
                   PROVE  queue'[WorkerProc[v]] = <<>>
        OBVIOUS
      <3>1. queue[WorkerProc[v]] = <<>>
        BY DEF StoppedDrained
      <3>2. queue' = queue \/ (queue[p] # <<>> /\ queue' = [queue EXCEPT ![p] = Tail(@)])
        BY <1>3 DEF Work, CheckWorker, TakeJob, StopWorker, Attempt, EndBackoff, AttemptRepeated, AttemptFails, QueueOf
      <3> QED
        BY <3>1, <3>2
    <2> QED
      BY <2>1, <2>2, <2>3, <2>4 DEF StoppedDrained
  <1>4. ASSUME NEW p \in Procs, Close(p) \/ CloseDeadline(p) \/ Drained(p) PROVE StoppedDrained'
    <2>1. /\ UNCHANGED <<queue, worker, accepted>> /\ \A q \in Procs : q # p => closer'[q] = closer[q]
          /\ \/ closer[p] = "open" /\ closer'[p] = "draining"
             \/ closer[p] = "draining" /\ closer'[p] = "canceled"
             \/ /\ closer[p] = "draining" /\ closer'[p] = "drained"
                /\ \A w \in Workers : WorkerProc[w] = p => worker[w].pc = "exited"
      BY <1>4 DEF Close, CloseDeadline, Drained, CloserMoves, CloserAlone, WorkerAt
    <2> QED
      BY <2>1 DEF StoppedDrained
  <1>5. ASSUME NEW p \in Procs, Exit(p) PROVE StoppedDrained'
    <2>1. /\ closer'[p] = "exited" /\ queue'[p] = <<>>
          /\ \A q \in Procs : q # p => closer'[q] = closer[q] /\ queue'[q] = queue[q]
          /\ \A w \in Workers : IF WorkerProc[w] = p THEN worker'[w].pc = "exited" ELSE worker'[w] = worker[w]
          /\ \A r \in accepted' : r \in accepted /\ ProcOf[r] # p
      BY <1>5 DEF Exit, CloserMoves, IdleWorker
    <2> QED
      BY <2>1 DEF StoppedDrained
  <1>6. ASSUME NEW p \in Procs, Restart(p) PROVE StoppedDrained'
    <2>1. /\ closer'[p] = "open" /\ UNCHANGED <<queue, accepted>>
          /\ \A q \in Procs : q # p => closer'[q] = closer[q]
          /\ \A w \in Workers : IF WorkerProc[w] = p THEN worker'[w].pc = "check" ELSE worker'[w] = worker[w]
      BY <1>6 DEF Restart, CloserMoves, IdleWorker
    <2> QED
      BY <2>1 DEF StoppedDrained
  <1>7. CASE LateScript \/ CooldownExpires \/ (\E c \in Commands : LeaseExpires(c)) \/ UNCHANGED vars
    BY <1>1, <1>7 DEF LateScript, CooldownExpires, LeaseExpires, vars
  <1>8. ASSUME NEW r \in Reqs,
               Acquire(r) \/ AcquireRepeated(r) \/ AcquireFailed(r) \/ Execute(r) \/ Fallback(r) \/ FallbackRepeated(r)
        PROVE  StoppedDrained'
    BY <1>1, <1>8 DEF Acquire, AcquireRepeated, AcquireFailed, Execute, Fallback, FallbackRepeated
  <1> QED
    BY <1>2, <1>3, <1>4, <1>5, <1>6, <1>7, <1>8 DEF Next, Handle

LEMMA StepAttempts == HolderInv /\ DrainInv /\ [Next]_vars => AttemptsCostFaults'
  <1> SUFFICES ASSUME HolderInv, DrainInv, [Next]_vars PROVE AttemptsCostFaults'
    OBVIOUS
  <1> USE DEF HolderInv, TypeOK, DrainInv
  <1>1. faults \in Nat /\ \A w \in Workers : worker[w].attempt \in Nat
    BY GuardAssumption DEF LateOK, WorkerType
  <1>2. CASE worker' = worker /\ (faults' = faults \/ faults' = faults + 1)
    BY <1>1, <1>2 DEF AttemptsCostFaults
  <1>3. ASSUME NEW w \in Workers, Work(w) \/ AttemptRepeated(w) \/ AttemptFails(w) PROVE AttemptsCostFaults'
    BY <1>1, <1>3, WorkerEffect DEF AttemptsCostFaults
  <1>4. ASSUME NEW p \in Procs, Exit(p) \/ Restart(p) PROVE AttemptsCostFaults'
    <2>1. /\ faults' = faults \/ faults' = faults + 1
          /\ \A w \in Workers : worker'[w] = worker[w] \/ worker'[w].pc \in {"check", "exited"}
      BY <1>4 DEF Exit, Restart, IdleWorker, Fault
    <2> QED
      BY <1>1, <2>1 DEF AttemptsCostFaults
  <1>5. ASSUME NEW p \in Procs, Close(p) \/ CloseDeadline(p) \/ Drained(p) PROVE AttemptsCostFaults'
    BY <1>2, <1>5 DEF Close, CloseDeadline, Drained, CloserAlone
  <1>6. ASSUME NEW r \in Reqs, Acquire(r) \/ AcquireRepeated(r) \/ AcquireFailed(r) \/ Handle(r) \/ FallbackRepeated(r)
        PROVE  AttemptsCostFaults'
    BY <1>2, <1>6 DEF Acquire, AcquireRepeated, AcquireFailed, Handle, Execute, Enqueue, Fallback, FallbackRepeated,
                      cleanup, Fault
  <1>7. CASE LateScript \/ CooldownExpires \/ (\E c \in Commands : LeaseExpires(c)) \/ UNCHANGED vars
    BY <1>2, <1>7 DEF LateScript, CooldownExpires, LeaseExpires, vars, cleanup
  <1> QED
    BY <1>3, <1>4, <1>5, <1>6, <1>7 DEF Next

\* No step gives a lock back to a delivery whose release was accepted.
LEMMA AcceptedTakesNoLock ==
  ASSUME HolderInv, [Next]_vars, NEW r \in accepted, lock'[CommandOf[r]] = r
  PROVE  lock[CommandOf[r]] = r
  <1> USE GuardAssumption DEF HolderInv, TypeOK, RedisOK
  <1>1. ASSUME NEW s \in Reqs, s # r, NEW granted \in BOOLEAN, AcquireScript(s, granted)
        PROVE  lock[CommandOf[r]] = r
    BY <1>1 DEF AcquireScript
  <1>2. ASSUME NEW s \in Reqs, CompleteScript(s) PROVE lock[CommandOf[r]] = r
    BY <1>2 DEF CompleteScript, redis
  <1>3. ASSUME NEW s \in Reqs,
               Acquire(s) \/ AcquireRepeated(s) \/ AcquireFailed(s) \/ Handle(s) \/ FallbackRepeated(s)
        PROVE  lock[CommandOf[r]] = r
    <2>1. CASE Acquire(s) \/ AcquireRepeated(s)
      <3>1. s # r
        BY <2>1 DEF Acquire, AcquireRepeated, Arriving, ReleasesFollow
      <3> QED
        BY <1>1, <2>1, <3>1 DEF Acquire, AcquireRepeated
    <2>2. CASE Fallback(s) \/ FallbackRepeated(s)
      BY <1>2, <2>2 DEF Fallback, FallbackRepeated, redis
    <2> QED
      BY <1>3, <2>1, <2>2 DEF AcquireFailed, Handle, Execute, Enqueue, redis
  <1>4. ASSUME NEW w \in Workers, Work(w) \/ AttemptRepeated(w) \/ AttemptFails(w) PROVE lock[CommandOf[r]] = r
    <2>1. CASE Attempt(w) \/ AttemptRepeated(w)
      <3>1. worker[w].job \in Reqs
        BY <2>1 DEF Attempt, AttemptRepeated, WorkerAt, JobsAccepted
      <3> QED
        BY <1>2, <2>1, <3>1 DEF Attempt, AttemptRepeated
    <2> QED
      BY <1>4, <2>1 DEF Work, CheckWorker, TakeJob, StopWorker, EndBackoff, AttemptFails, redis
  <1>5. CASE LateScript
    BY <1>1, <1>2, <1>5 DEF LateScript, ReleasesFollow
  <1>6. CASE \E c \in Commands : LeaseExpires(c)
    BY <1>6 DEF LeaseExpires
  <1>7. CASE \E p \in Procs : Close(p) \/ Drained(p) \/ CloseDeadline(p) \/ Exit(p) \/ Restart(p)
    BY <1>7 DEF Close, Drained, CloseDeadline, Exit, Restart, CloserAlone, redis
  <1> QED
    BY <1>3, <1>4, <1>5, <1>6, <1>7 DEF Next, CooldownExpires, vars, redis

\* A script that releases the lock of r leaves none to account for.
LEMMA ReleaseFrees ==
  ASSUME TypeOK, NEW r \in Reqs, CompleteScript(r)
  PROVE  lock'[CommandOf[r]] # r
  BY GuardAssumption DEF TypeOK, RedisOK, CompleteScript, Owned, redis

LEMMA StepAccounted == HolderInv /\ DrainInv /\ [Next]_vars => LockAccounted'
  <1> SUFFICES ASSUME HolderInv, DrainInv, [Next]_vars,
                      NEW r \in accepted', lock'[CommandOf[r]] = r, faults' < MaxAttempts,
                      closer'[ProcOf[r]] # "canceled"
               PROVE  InQueue(r, ProcOf[r])' \/ Working(r)'
    BY DEF LockAccounted
  <1> USE GuardAssumption DEF HolderInv, TypeOK, QueueOK
  <1> DEFINE p == ProcOf[r]
  <1>1. ASSUME NEW s \in Reqs, Enqueue(s) PROVE r \in accepted \/ InQueue(r, p)'
    <2>1. CASE r = s /\ queue' = [queue EXCEPT ![p] = Append(@, s)]
      <3>1. /\ queue'[p] = Append(queue[p], r) /\ queue[p] \in Seq(Reqs) /\ p \in Procs
        BY <1>1, <2>1
      <3>2. Len(queue'[p]) = Len(queue[p]) + 1 /\ queue'[p][Len(queue[p]) + 1] = r
        BY <1>1, <2>1, <3>1, AppendElements
      <3>3. Len(queue[p]) + 1 \in 1..Len(queue'[p])
        BY <3>1, <3>2
      <3> QED
        BY <3>2, <3>3 DEF InQueue
    <2> QED
      BY <1>1, <2>1 DEF Enqueue
  <1>2. r \in accepted \/ InQueue(r, p)'
    <2>1. CASE \E s \in Reqs : Enqueue(s)
      BY <1>1, <2>1
    <2>2. CASE ~\E s \in Reqs : Enqueue(s)
      BY <2>2 DEF Next, Handle, Acquire, AcquireRepeated, AcquireFailed, Execute, Fallback, FallbackRepeated,
           Work, CheckWorker, TakeJob, StopWorker, Attempt, EndBackoff, AttemptRepeated, AttemptFails, WorkerAlone,
           Close, Drained, CloseDeadline, CloserAlone, Exit, Restart, LateScript, LeaseExpires, CooldownExpires,
           cleanup, vars
    <2> QED
      BY <2>1, <2>2
  <1> SUFFICES ASSUME r \in accepted PROVE InQueue(r, p)' \/ Working(r)'
    BY <1>2
  <1>3. r \in Reqs /\ p \in Procs /\ lock[CommandOf[r]] = r
    BY AcceptedTakesNoLock
  <1>4. ASSUME faults' = faults \/ faults' = faults + 1, closer[p] # "canceled" PROVE InQueue(r, p) \/ Working(r)
    <2>1. faults < MaxAttempts
      <3>1. faults \in Nat /\ MaxAttempts \in Nat
        BY DEF LateOK
      <3> QED
        BY <1>4, <3>1
    <2> QED
      BY <1>3, <1>4, <2>1 DEF DrainInv, LockAccounted
  <1>5. CASE UNCHANGED <<queue, worker, closer>> /\ (faults' = faults \/ faults' = faults + 1)
    <2>1. InQueue(r, p) \/ Working(r)
      BY <1>4, <1>5 DEF LateOK
    <2> QED
      BY <1>5, <2>1 DEF InQueue, Working
  <1>6. ASSUME NEW s \in Reqs, Enqueue(s) PROVE InQueue(r, p)' \/ Working(r)'
    <2>1. UNCHANGED <<worker, closer, faults>> /\ (InQueue(r, p) \/ Working(r))
      BY <1>4, <1>6 DEF Enqueue, LateOK
    <2>2. CASE InQueue(r, p) /\ queue' = [queue EXCEPT ![ProcOf[s]] = Append(@, s)]
      <3>1. PICK i \in 1..Len(queue[p]) : queue[p][i] = r
        BY <2>2 DEF InQueue
      <3>2. CASE p = ProcOf[s]
        <4>1. queue'[p] = Append(queue[p], s) /\ queue[p] \in Seq(Reqs)
          BY <1>3, <2>2, <3>2
        <4>2. Len(queue'[p]) = Len(queue[p]) + 1 /\ queue'[p][i] = queue[p][i]
          BY <1>6, <4>1, AppendElements
        <4>3. i \in 1..Len(queue'[p])
          BY <4>1, <4>2
        <4> QED
          BY <3>1, <4>2, <4>3 DEF InQueue
      <3>3. CASE p # ProcOf[s]
        BY <1>3, <2>2, <3>1, <3>3 DEF InQueue
      <3> QED
        BY <3>2, <3>3
    <2>3. CASE Working(r)
      BY <2>1, <2>3 DEF Working
    <2>4. CASE InQueue(r, p) /\ queue' = queue
      BY <2>4 DEF InQueue
    <2> QED
      BY <1>6, <2>1, <2>2, <2>3, <2>4 DEF Enqueue
  <1>7. ASSUME NEW s \in Reqs,
               Acquire(s) \/ AcquireRepeated(s) \/ AcquireFailed(s) \/ Execute(s) \/ Fallback(s) \/ FallbackRepeated(s)
        PROVE  InQueue(r, p)' \/ Working(r)'
    BY <1>5, <1>7 DEF Acquire, AcquireRepeated, AcquireFailed, Execute, Fallback, FallbackRepeated, cleanup, Fault
  <1>8. ASSUME NEW w \in Workers, TakeJob(w) PROVE InQueue(r, p)' \/ Working(r)'
    <2> DEFINE q == WorkerProc[w]
    <2>1. /\ UNCHANGED <<closer, faults>> /\ q \in Procs /\ queue[q] # <<>> /\ queue[q] \in Seq(Reqs)
          /\ queue' = [queue EXCEPT ![q] = Tail(@)]
      BY <1>8 DEF TakeJob, QueueOf, WorkerAlone
    <2>2. /\ Len(Tail(queue[q])) = Len(queue[q]) - 1 /\ Len(queue[q]) > 0
          /\ Head(queue[q]) = queue[q][1]
          /\ \A i \in 1..Len(queue[q]) - 1 : Tail(queue[q])[i] = queue[q][i + 1]
      BY <2>1, TailElements
    <2>3. InQueue(r, p) \/ Working(r)
      BY <1>4, <2>1 DEF LateOK
    <2>4. CASE Working(r)
      <3>1. PICK v \in Workers : WorkerProc[v] = p /\ worker[v].job = r /\ worker[v].pc \in {"attempt", "backoff"}
        BY <2>4 DEF Working
      <3>2. worker'[v] = worker[v]
        BY <1>8, <3>1, WorkerEffect DEF TakeJob, WorkerAt, Work
      <3> QED
        BY <3>1, <3>2 DEF Working
    <2>5. ASSUME NEW i \in 1..Len(queue[p]), queue[p][i] = r, p # q \/ i # 1 PROVE InQueue(r, p)'
      <3>1. CASE p # q
        BY <1>3, <2>1, <2>5, <3>1 DEF InQueue
      <3>2. CASE p = q
        <4>1. queue'[p] = Tail(queue[p])
          BY <2>1, <3>2
        <4>2. i - 1 \in 1..Len(queue[p]) - 1 /\ i - 1 \in 1..Len(queue'[p]) /\ (i - 1) + 1 = i
          BY <2>1, <2>2, <2>5, <3>2, <4>1
        <4>3. queue'[p][i - 1] = r
          BY <2>2, <2>5, <3>2, <4>1, <4>2
        <4> QED
          BY <4>2, <4>3 DEF InQueue
      <3> QED
        BY <3>1, <3>2
    <2>6. ASSUME p = q, queue[q][1] = r PROVE Working(r)'
      <3>1. closer[q] # "drained"
        BY <1>8 DEF TakeJob, WorkerAt, DrainInv, StoppedDrained
      <3>2. ~Canceled(q)
        BY <2>1, <2>6, <3>1 DEF Canceled
      <3>3. worker' = [worker EXCEPT ![w] = [pc |-> "attempt", job |-> queue[q][1], attempt |-> 1]]
        BY <1>8, <2>2, <3>2 DEF TakeJob, QueueOf
      <3>4. worker'[w].job = r /\ worker'[w].pc = "attempt"
        BY <2>6, <3>3
      <3> QED
        BY <2>6, <3>4 DEF Working
    <2> QED
      BY <2>3, <2>4, <2>5, <2>6 DEF InQueue
  <1>9. ASSUME NEW w \in Workers, Work(w) \/ AttemptRepeated(w) \/ AttemptFails(w), UNCHANGED queue
        PROVE  InQueue(r, p)' \/ Working(r)'
    <2>1. /\ \A v \in Workers : v # w => worker'[v] = worker[v]
          /\ UNCHANGED <<closer, accepted>> /\ (faults' = faults \/ faults' = faults + 1)
      BY <1>9, WorkerEffect
    <2>2. InQueue(r, p) \/ Working(r)
      BY <1>4, <2>1 DEF LateOK
    <2>3. CASE InQueue(r, p)
      BY <1>9, <2>3 DEF InQueue
    <2>4. CASE Working(r)
      <3>1. PICK v \in Workers : WorkerProc[v] = p /\ worker[v].job = r /\ worker[v].pc \in {"attempt", "backoff"}
        BY <2>4 DEF Working
      <3>2. CASE v # w
        BY <2>1, <3>1, <3>2 DEF Working
      <3>3. CASE v = w
        <4>1. ~Canceled(WorkerProc[w])
          BY <2>1, <3>1, <3>3 DEF Canceled, DrainInv, StoppedDrained
        <4>2. ~CheckWorker(w) /\ ~TakeJob(w) /\ ~StopWorker(w)
          BY <3>1, <3>3 DEF CheckWorker, TakeJob, StopWorker, WorkerAt
        <4>3. CASE Attempt(w) \/ AttemptRepeated(w)
          BY <1>3, <3>1, <3>3, <4>3, ReleaseFrees DEF Attempt, AttemptRepeated
        <4>4. CASE AttemptFails(w)
          <5>1. faults' = faults + 1 /\ worker[w].attempt <= faults + 1 /\ worker[w].attempt \in 0..MaxAttempts
            BY <4>1, <4>4 DEF AttemptFails, Fault, WorkerAt, DrainInv, AttemptsCostFaults, WorkerType
          <5>2. ~GivesUp(w)
            BY <4>1, <5>1 DEF GivesUp, LateOK
          <5>3. worker' = [worker EXCEPT ![w].pc = "backoff"]
            BY <4>4, <5>2 DEF AttemptFails, WorkerMoves
          <5>4. worker'[w].pc = "backoff" /\ worker'[w].job = r
            BY <3>1, <3>3, <5>3 DEF WorkerType
          <5> QED
            BY <3>1, <3>3, <5>4 DEF Working
        <4>5. CASE EndBackoff(w)
          <5>1. worker' = [worker EXCEPT ![w].pc = "attempt", ![w].attempt = @ + 1]
            BY <4>1, <4>5 DEF EndBackoff
          <5>2. worker'[w].pc = "attempt" /\ worker'[w].job = r
            BY <3>1, <3>3, <5>1 DEF WorkerType
          <5> QED
            BY <3>1, <3>3, <5>2 DEF Working
        <4> QED
          BY <1>9, <4>2, <4>3, <4>4, <4>5 DEF Work
      <3> QED
        BY <3>2, <3>3
    <2> QED
      BY <2>2, <2>3, <2>4
  <1>10. ASSUME NEW q \in Procs, Close(q) \/ Drained(q) \/ CloseDeadline(q) PROVE InQueue(r, p)' \/ Working(r)'
    <2>1. UNCHANGED <<queue, worker, faults>> /\ closer[p] # "canceled"
      BY <1>3, <1>10 DEF Close, Drained, CloseDeadline, CloserMoves, CloserAlone
    <2>2. InQueue(r, p) \/ Working(r)
      BY <1>4, <2>1 DEF LateOK
    <2> QED
      BY <2>1, <2>2 DEF InQueue, Working
  <1>11. ASSUME NEW q \in Procs, Exit(q) \/ Restart(q) PROVE InQueue(r, p)' \/ Working(r)'
    <2>1. p # q
      BY <1>11 DEF Exit, Restart, DrainInv, StoppedDrained
    <2>2. /\ closer'[p] = closer[p] /\ queue'[p] = queue[p]
          /\ \A w \in Workers : WorkerProc[w] = p => worker'[w] = worker[w]
          /\ faults' = faults \/ faults' = faults + 1
      BY <1>3, <1>11, <2>1 DEF Exit, Restart, CloserMoves, Fault
    <2>3. InQueue(r, p) \/ Working(r)
      BY <1>4, <2>2 DEF LateOK
    <2> QED
      BY <2>2, <2>3 DEF InQueue, Working
  <1>12. CASE LateScript \/ CooldownExpires \/ (\E c \in Commands : LeaseExpires(c)) \/ UNCHANGED vars
    BY <1>5, <1>12 DEF LateScript, CooldownExpires, LeaseExpires, vars, cleanup
  <1>13. ASSUME NEW w \in Workers, Work(w) \/ AttemptRepeated(w) \/ AttemptFails(w)
         PROVE  InQueue(r, p)' \/ Working(r)'
    BY <1>8, <1>9, <1>13 DEF Work, CheckWorker, StopWorker, Attempt, EndBackoff, AttemptRepeated, AttemptFails
  <1> QED
    BY <1>6, <1>7, <1>10, <1>11, <1>12, <1>13 DEF Next, Handle

LEMMA StepDrain == HolderInv /\ DrainInv /\ [Next]_vars => DrainInv'
  BY StepStopped, StepAttempts, StepAccounted DEF DrainInv

\* The state of the guard keeps its type: no queue outgrows its channel.
THEOREM TypeCorrect == Spec => []TypeOK
  <1>1. HolderInv => TypeOK
    BY DEF HolderInv
  <1> QED
    BY InitHolder, StepHolder, <1>1, PTL DEF Spec

\* A delivery that executes with an owner token holds the lock of its command
\* (dedup.go, completeRequestGuardScript compares the owner): no release of an
\* earlier holder, however late or repeated, takes it away.
THEOREM HoldersKeepTheirLocks == Spec => []HolderKeepsLock
  <1>1. HolderInv => HolderKeepsLock
    BY DEF HolderInv
  <1> QED
    BY InitHolder, StepHolder, <1>1, PTL DEF Spec

\* A close that drained its workers in time has freed every lock whose release
\* was accepted (dedup_cleanup.go, CloseContext), whatever failed less often
\* than a release is attempted.
THEOREM DrainsRelease == Spec => []DrainReleases
  <1>1. HolderInv /\ DrainInv => DrainReleases
    <2> SUFFICES ASSUME HolderInv, DrainInv, NEW r \in accepted, closer[ProcOf[r]] = "drained",
                        faults < MaxAttempts, lock[CommandOf[r]] = r
                 PROVE  FALSE
      BY DEF DrainReleases
    <2>1. ProcOf[r] \in Procs
      BY GuardAssumption DEF HolderInv, TypeOK
    <2>2. PICK w \in Workers : WorkerProc[w] = ProcOf[r]
      BY <2>1, GuardAssumption
    <2>3. worker[w].pc = "exited" /\ queue[ProcOf[r]] = <<>>
      BY <2>2 DEF DrainInv, StoppedDrained
    <2>4. ~InQueue(r, ProcOf[r])
      BY <2>3 DEF InQueue
    <2>5. ~Working(r)
      BY DEF Working, DrainInv, StoppedDrained
    <2> QED
      BY <2>4, <2>5 DEF DrainInv, LockAccounted
  <1> QED
    BY InitHolder, StepHolder, InitDrain, StepDrain, <1>1, PTL DEF Spec
================================================================================
