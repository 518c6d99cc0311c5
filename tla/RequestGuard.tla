------------------------------ MODULE RequestGuard ------------------------------
(***************************************************************************)
(* RequestGuard (api/bot/pjsk/dedup.go, dedup_cleanup.go): one delivery of *)
(* a command is executed under a lock in Redis, and a user is given a      *)
(* cooldown after an answer.  The lock is released in the background, by   *)
(* the workers of a queue that the server drains when it stops.            *)
(*                                                                         *)
(* Redis runs a script atomically.  The client repeats a call whose reply  *)
(* is lost; a call it has given up may still run at any later time.  A     *)
(* delivery stands for its random owner token.  Expiries are steps that    *)
(* may happen at any time, except that the lease of a lock exceeds the     *)
(* execution under it ("the lease must exceed the slowest supported        *)
(* command").                                                              *)
(***************************************************************************)
EXTENDS Naturals, Sequences, SequencesExt

CONSTANTS
  Reqs,         \* deliveries of the commands of one user
  Commands,     \* command identities, each with its own lock
  CommandOf,
  Procs,        \* server processes
  ProcOf,       \* the process each delivery reaches
  Workers,      \* cleanup workers
  WorkerProc,   \* the process of each worker
  Capacity,     \* requestGuardCleanupQueueCapacity
  MaxAttempts,  \* requestGuardCleanupMaxAttempts
  MaxFaults,    \* bound: failed calls and crashes
  NoReq

ASSUME GuardAssumption ==
  /\ NoReq \notin Reqs
  /\ CommandOf \in [Reqs -> Commands]
  /\ ProcOf \in [Reqs -> Procs]
  /\ WorkerProc \in [Workers -> Procs]
  /\ \A p \in Procs : \E w \in Workers : WorkerProc[w] = p
  /\ {Capacity, MaxAttempts} \subseteq Nat \ {0} /\ MaxFaults \in Nat

VARIABLES
  lock,      \* the dedup lock of each command: the token stored in it
  cooldown,  \* whether the rate-limit key exists
  phase,     \* the handler of each delivery
  queue,     \* dispatcher.jobs
  worker,    \* runWorker and process
  closer,    \* CloseContext, per process
  late,      \* scripts given up by their clients and still on their way
  accepted,  \* history: releases that the running process has accepted
  faults

redis == <<lock, cooldown>>
cleanup == <<queue, worker, closer, accepted>>
vars == <<redis, phase, cleanup, late, faults>>

Tokens == Reqs \union {NoReq}
\* "holding": executing with an owner token; "direct": executing without one.
Phases == {"idle", "holding", "direct", "finished", "fallback", "done", "dead"}
IdleWorker == [pc |-> "check", job |-> NoReq, attempt |-> 0]
Closers == {"open", "draining", "drained", "canceled", "exited"}

WorkerType == [pc : {"check", "select", "attempt", "backoff", "exited"},
               job : Tokens, attempt : 0..MaxAttempts]

RedisOK == lock \in [Commands -> Tokens] /\ cooldown \in BOOLEAN
QueueOK == queue \in [Procs -> Seq(Reqs)] /\ \A p \in Procs : Len(queue[p]) <= Capacity
LateOK == late \subseteq {"acquire", "complete"} \X Reqs /\ faults \in 0..MaxFaults
TypeOK ==
  /\ RedisOK /\ QueueOK /\ LateOK
  /\ phase \in [Reqs -> Phases]
  /\ worker \in [Workers -> WorkerType]
  /\ closer \in [Procs -> Closers]
  /\ accepted \subseteq Reqs

Init ==
  /\ lock = [c \in Commands |-> NoReq] /\ cooldown = FALSE
  /\ phase = [r \in Reqs |-> "idle"]
  /\ queue = [p \in Procs |-> <<>>]
  /\ worker = [w \in Workers |-> IdleWorker]
  /\ closer = [p \in Procs |-> "open"]
  /\ late = {} /\ accepted = {}
  /\ faults = 0

Fault == faults < MaxFaults /\ faults' = faults + 1
Canceled(p) == closer[p] \in {"drained", "canceled"}

--------------------------------------------------------------------------------
(* The scripts *)

\* acquireRequestGuardScript.  A repeated call finds its own lock and is
\* refused as any other.
AcquireScript(r, granted) ==
  LET c == CommandOf[r] IN
  /\ granted = (~cooldown /\ lock[c] = NoReq)
  /\ lock' = IF granted THEN [lock EXCEPT ![c] = r] ELSE lock
  /\ UNCHANGED cooldown

\* Mutant: the release does not compare the owner.
OwnedOrTaken(r) == lock[CommandOf[r]] # NoReq
Owned(r) == lock[CommandOf[r]] = r

\* completeRequestGuardScript
CompleteScript(r) ==
  \/ /\ Owned(r)
     /\ lock' = [lock EXCEPT ![CommandOf[r]] = NoReq]
     /\ cooldown' = TRUE
  \/ ~Owned(r) /\ UNCHANGED redis

--------------------------------------------------------------------------------
(* Acquire and MarkComplete *)

PhaseMoves(r, next) == phase' = [phase EXCEPT ![r] = next]
Arriving(r) == phase[r] = "idle" /\ closer[ProcOf[r]] # "exited"

Acquire(r) ==
  /\ Arriving(r)
  /\ \E granted \in BOOLEAN :
       AcquireScript(r, granted) /\ PhaseMoves(r, IF granted THEN "holding" ELSE "done")
  /\ UNCHANGED <<cleanup, late, faults>>

AcquireRepeated(r) ==
  /\ Arriving(r) /\ Fault
  /\ \E granted \in BOOLEAN : AcquireScript(r, granted)
  /\ UNCHANGED <<phase, cleanup, late>>

\* The guard fails open without a token, or the request was canceled.
AcquireFailed(r) ==
  /\ Arriving(r) /\ Fault
  /\ \E next \in {"direct", "done"} : PhaseMoves(r, next)
  /\ late' = late \union {<<"acquire", r>>}
  /\ UNCHANGED <<redis, cleanup>>

\* The command is executed and answered; only an owner has a lock to release.
Execute(r) ==
  /\ \/ phase[r] = "holding" /\ PhaseMoves(r, "finished")
     \/ phase[r] = "direct" /\ PhaseMoves(r, "done")
  /\ UNCHANGED <<redis, cleanup, late, faults>>

\* Mutant: one job more than the channel holds.
AcceptsOneMore(p) == closer[p] = "open" /\ Len(queue[p]) <= Capacity
Accepts(p) == closer[p] = "open" /\ Len(queue[p]) < Capacity

\* MarkComplete and Enqueue, which holds the read lock that Close waits for.
Enqueue(r) ==
  /\ phase[r] = "finished"
  /\ LET p == ProcOf[r] IN
       \/ /\ Accepts(p)
          /\ queue' = [queue EXCEPT ![p] = Append(@, r)]
          /\ accepted' = accepted \union {r}
          /\ PhaseMoves(r, "done")
       \/ /\ ~Accepts(p)
          /\ PhaseMoves(r, "fallback")
          /\ UNCHANGED <<queue, accepted>>
  /\ UNCHANGED <<redis, worker, closer, late, faults>>

\* One synchronous attempt when the queue is full or closed.
Fallback(r) ==
  /\ phase[r] = "fallback"
  /\ \/ CompleteScript(r) /\ UNCHANGED <<late, faults>>
     \/ Fault /\ late' = late \union {<<"complete", r>>} /\ UNCHANGED redis
  /\ PhaseMoves(r, "done")
  /\ UNCHANGED cleanup

FallbackRepeated(r) ==
  /\ phase[r] = "fallback" /\ Fault
  /\ CompleteScript(r)
  /\ UNCHANGED <<phase, cleanup, late>>

Handle(r) == Execute(r) \/ Enqueue(r) \/ Fallback(r)

--------------------------------------------------------------------------------
(* runWorker and process *)

WorkerAt(w, pc) == worker[w].pc = pc
QueueOf(w) == queue[WorkerProc[w]]
WorkerMoves(w, pc) == worker' = [worker EXCEPT ![w].pc = pc]
JobEnds(w) == worker' = [worker EXCEPT ![w] = IdleWorker]
WorkerAlone == UNCHANGED <<phase, closer, accepted>>

CheckWorker(w) ==
  /\ WorkerAt(w, "check")
  /\ WorkerMoves(w, IF Canceled(WorkerProc[w]) THEN "exited" ELSE "select")
  /\ UNCHANGED <<redis, queue, late, faults>> /\ WorkerAlone

\* An attempt under a canceled context fails before it is sent.
TakeJob(w) ==
  /\ WorkerAt(w, "select") /\ QueueOf(w) # <<>>
  /\ queue' = [queue EXCEPT ![WorkerProc[w]] = Tail(@)]
  /\ IF Canceled(WorkerProc[w]) THEN JobEnds(w)
     ELSE worker' = [worker EXCEPT ![w] = [pc |-> "attempt", job |-> Head(QueueOf(w)), attempt |-> 1]]
  /\ UNCHANGED <<redis, late, faults>> /\ WorkerAlone

\* Mutant: the workers stop at the close, whatever the channel still holds.
ClosedUndrained(w) == closer[WorkerProc[w]] # "open"
ClosedAndDrained(w) == closer[WorkerProc[w]] # "open" /\ QueueOf(w) = <<>>

StopWorker(w) ==
  /\ WorkerAt(w, "select")
  /\ Canceled(WorkerProc[w]) \/ ClosedAndDrained(w)
  /\ WorkerMoves(w, "exited")
  /\ UNCHANGED <<redis, queue, late, faults>> /\ WorkerAlone

\* The script ran, whether or not the lock was still the owner's.
Attempt(w) ==
  /\ WorkerAt(w, "attempt")
  /\ CompleteScript(worker[w].job)
  /\ JobEnds(w)
  /\ UNCHANGED <<queue, late, faults>> /\ WorkerAlone

AttemptRepeated(w) ==
  /\ WorkerAt(w, "attempt") /\ Fault
  /\ CompleteScript(worker[w].job)
  /\ UNCHANGED <<queue, worker, late>> /\ WorkerAlone

\* Mutant: a failed release is not tried again.
GivesUpAtOnce(w) == TRUE
GivesUp(w) == worker[w].attempt = MaxAttempts \/ Canceled(WorkerProc[w])

\* The attempt times out, fails, or its context is canceled.
AttemptFails(w) ==
  /\ WorkerAt(w, "attempt")
  /\ (Canceled(WorkerProc[w]) /\ UNCHANGED faults) \/ Fault
  /\ late' = late \union {<<"complete", worker[w].job>>}
  /\ IF GivesUp(w) THEN JobEnds(w) ELSE WorkerMoves(w, "backoff")
  /\ UNCHANGED <<redis, queue>> /\ WorkerAlone

EndBackoff(w) ==
  /\ WorkerAt(w, "backoff")
  /\ IF Canceled(WorkerProc[w]) THEN JobEnds(w)
     ELSE worker' = [worker EXCEPT ![w].pc = "attempt", ![w].attempt = @ + 1]
  /\ UNCHANGED <<redis, queue, late, faults>> /\ WorkerAlone

Work(w) == CheckWorker(w) \/ TakeJob(w) \/ StopWorker(w) \/ Attempt(w) \/ EndBackoff(w)

--------------------------------------------------------------------------------
(* CloseContext and the environment *)

CloserMoves(p, next) == closer' = [closer EXCEPT ![p] = next]
CloserAlone == UNCHANGED <<redis, queue, worker, accepted, late>>

Close(p) ==
  /\ closer[p] = "open"
  /\ CloserMoves(p, "draining")
  /\ UNCHANGED <<phase, faults>> /\ CloserAlone

Drained(p) ==
  /\ closer[p] = "draining"
  /\ \A w \in Workers : WorkerProc[w] = p => WorkerAt(w, "exited")
  /\ CloserMoves(p, "drained")
  /\ UNCHANGED <<phase, faults>> /\ CloserAlone

\* The flush timeout: the workers are canceled with their queue.
CloseDeadline(p) ==
  /\ closer[p] = "draining"
  /\ CloserMoves(p, "canceled")
  /\ UNCHANGED <<phase, faults>> /\ CloserAlone

\* The process ends after the close, or dies.
Exit(p) ==
  /\ closer[p] # "exited"
  /\ (Canceled(p) /\ UNCHANGED faults) \/ Fault
  /\ CloserMoves(p, "exited")
  /\ phase' = [r \in Reqs |-> IF ProcOf[r] = p /\ phase[r] \notin {"idle", "done"} THEN "dead" ELSE phase[r]]
  /\ queue' = [queue EXCEPT ![p] = <<>>]
  /\ worker' = [w \in Workers |-> IF WorkerProc[w] = p THEN [IdleWorker EXCEPT !.pc = "exited"] ELSE worker[w]]
  /\ accepted' = {r \in accepted : ProcOf[r] # p}
  /\ UNCHANGED <<redis, late>>

\* The server is started again: NewRequestGuard.
Restart(p) ==
  /\ closer[p] = "exited"
  /\ CloserMoves(p, "open")
  /\ worker' = [w \in Workers |-> IF WorkerProc[w] = p THEN IdleWorker ELSE worker[w]]
  /\ UNCHANGED <<redis, phase, queue, late, accepted, faults>>

LateScript ==
  \E r \in Reqs :
    /\ \/ /\ <<"acquire", r>> \in late /\ late' = late \ {<<"acquire", r>>}
          /\ \E granted \in BOOLEAN : AcquireScript(r, granted)
       \/ /\ <<"complete", r>> \in late /\ late' = late \ {<<"complete", r>>}
          /\ CompleteScript(r)
    /\ UNCHANGED <<phase, cleanup, faults>>

\* The lease outlasts the execution under the lock.
LeaseExpires(c) ==
  /\ lock[c] # NoReq /\ phase[lock[c]] # "holding"
  /\ lock' = [lock EXCEPT ![c] = NoReq]
  /\ UNCHANGED <<cooldown, phase, cleanup, late, faults>>

CooldownExpires ==
  /\ cooldown /\ cooldown' = FALSE
  /\ UNCHANGED <<lock, phase, cleanup, late, faults>>

Next ==
  \/ \E r \in Reqs : Acquire(r) \/ AcquireRepeated(r) \/ AcquireFailed(r) \/ Handle(r) \/ FallbackRepeated(r)
  \/ \E w \in Workers : Work(w) \/ AttemptRepeated(w) \/ AttemptFails(w)
  \/ \E p \in Procs : Close(p) \/ Drained(p) \/ CloseDeadline(p) \/ Exit(p) \/ Restart(p)
  \/ LateScript \/ CooldownExpires \/ \E c \in Commands : LeaseExpires(c)

Spec == Init /\ [][Next]_vars

\* The goroutines run; nothing obliges a lease to expire or a close to begin.
FairSpec ==
  /\ Spec
  /\ \A r \in Reqs : WF_vars(Handle(r))
  /\ \A w \in Workers : WF_vars(Work(w))
  /\ \A p \in Procs : WF_vars(Drained(p))

--------------------------------------------------------------------------------
(* Correctness *)

\* A delivery that executes with an owner token holds the lock of its command
\* all the time, whatever releases of earlier holders are repeated, retried or
\* late: no two such executions of a command overlap.
HolderKeepsLock == \A r \in Reqs : phase[r] = "holding" => lock[CommandOf[r]] = r

\* A drain that ends in time has released the lock of every accepted job, as
\* long as fewer calls failed than a job has attempts.
DrainReleases ==
  \A r \in accepted :
    closer[ProcOf[r]] = "drained" /\ faults < MaxAttempts => lock[CommandOf[r]] # r

\* An accepted release is applied without waiting for the lease to expire, as
\* long as its attempts are not spent and the process is not cut short.
AcceptedReleased ==
  \A r \in Reqs :
    r \in accepted ~> \/ lock[CommandOf[r]] # r
                      \/ faults >= MaxAttempts
                      \/ closer[ProcOf[r]] \in {"canceled", "exited"}
================================================================================
