---------------------------- MODULE CachePersistence ----------------------------
(***************************************************************************)
(* The persistence of a rebuildable cache (internal/cachepersist and the   *)
(* forecast cache of pjsk/render/sk; the housing cache of                  *)
(* pjsk/render/mysekai repeats it).  Refreshes merge into memory and       *)
(* schedule their generation; one background writer stores the newest      *)
(* snapshot; shutdown drains the refreshes and then the writer; a start    *)
(* restores the snapshot of the instance.                                  *)
(*                                                                         *)
(* A snapshot is the set of the updates it reflects.  A write given up by  *)
(* its deadline, or by the end of the process, may still reach the store.  *)
(***************************************************************************)
EXTENDS Naturals, FiniteSets

CONSTANTS
  Updates,    \* refreshes, each of which brings one piece of news
  Shared,     \* what the object from before the namespaces holds
  MaxFaults,  \* bound: failed reads and writes of the store
  MaxLate     \* bound: given-up writes on their way at a time

ASSUME PersistenceAssumption ==
  /\ Updates \intersect Shared = {}
  /\ IsFiniteSet(Updates)
  /\ {MaxFaults, MaxLate} \subseteq Nat

VARIABLES
  stored,   \* the instance's object: no snapshot or one
  late,     \* snapshots whose writes were given up and may still land
  raced,    \* history: one of them has overwritten this process's snapshot
  expired,  \* updates older than the entry TTL
  up,       \* whether the process runs
  entries,  \* the cache in memory
  merged,   \* the generation of each update merged by this process, 0 if none
  refresh,  \* the goroutine of each update
  tasks,    \* cachepersist.Tasks
  disabled, \* persistenceDisabled
  writer,   \* cachepersist.Writer and its worker
  closer,   \* closePersistence
  faults

store == <<stored, late, raced>>
cache == <<entries, merged>>
vars == <<store, expired, up, cache, refresh, tasks, disabled, writer, closer, faults>>

Items == Updates \union Shared
Snapshots == SUBSET Items
Generations == 0..Cardinality(Updates)

NoTasks == [closed |-> FALSE, pending |-> {}]
NoWriter == [pc |-> "none", requested |-> 0, persisted |-> 0, failed |-> FALSE, closed |-> FALSE,
             canceled |-> FALSE, snap |-> {}, generation |-> 0]
NoCloser == [pc |-> "open", late |-> FALSE, error |-> FALSE, target |-> 0, attempted |-> FALSE]

RefreshStates == {"new", "fetch", "merged", "writer", "done"}
WriterType == [pc : {"none", "wait", "check", "put", "exited"},
               requested : Generations, persisted : Generations, failed : BOOLEAN, closed : BOOLEAN,
               canceled : BOOLEAN, snap : Snapshots, generation : Generations]
CloserType == [pc : {"open", "drain", "close", "flush", "wait", "stop", "closed"}, late : BOOLEAN,
               error : BOOLEAN, target : Generations, attempted : BOOLEAN]

TypeOK ==
  /\ stored \in {{}} \union {{s} : s \in Snapshots} /\ late \subseteq Snapshots
  /\ {raced, up, disabled} \subseteq BOOLEAN
  /\ expired \subseteq Items /\ entries \subseteq Items
  /\ merged \in [Updates -> Generations]
  /\ refresh \in [Updates -> RefreshStates]
  /\ tasks \in [closed : BOOLEAN, pending : SUBSET Updates]
  /\ writer \in WriterType /\ closer \in CloserType
  /\ faults \in 0..MaxFaults

Generation == Cardinality({u \in Updates : merged[u] > 0})
\* Mutant: generations add up.
Summed(a, b) == a + b
Larger(a, b) == IF a > b THEN a ELSE b
Pruned(snapshot) == snapshot \ expired

Fault == faults < MaxFaults /\ faults' = faults + 1

\* The write under way is given up: it may still reach the store, or never.
GivesUpWrite ==
  \/ UNCHANGED late
  \/ late' = late \union {writer.snap} /\ Cardinality(late') <= MaxLate

--------------------------------------------------------------------------------
Init ==
  /\ stored = {} /\ late = {} /\ raced = FALSE /\ expired = {}
  /\ up = FALSE
  /\ entries = {} /\ merged = [u \in Updates |-> 0]
  /\ refresh = [u \in Updates |-> "new"]
  /\ tasks = NoTasks /\ disabled = TRUE
  /\ writer = NoWriter /\ closer = NoCloser
  /\ faults = 0

\* Mutant: any failed read counts as a missing object.
UnreadableAsMissing == disabled' = FALSE
Unreadable == disabled' = TRUE

(* SnapshotRestorer.Restore: the object of the namespace replaces the      *)
(* memory; when it does not exist the shared object is merged instead, if  *)
(* it can be read; after any other error persistence stays disabled.       *)
Restored ==
  \/ /\ \E s \in stored : entries' = Pruned(s)
     /\ disabled' = FALSE /\ UNCHANGED faults
  \/ /\ stored = {}
     /\ \/ entries' = Pruned(Shared) /\ UNCHANGED faults
        \/ entries' = {} /\ Fault
     /\ disabled' = FALSE
  \/ entries' = {} /\ Unreadable /\ Fault

Start ==
  /\ ~up /\ up' = TRUE
  /\ Restored
  /\ raced' = FALSE
  /\ UNCHANGED <<stored, late, expired, merged, refresh, tasks, writer, closer>>

(* The process ends, at any point or after closePersistence; a write under *)
(* way keeps its chance.                                                   *)
Stop ==
  /\ up /\ up' = FALSE
  /\ IF writer.pc = "put" THEN GivesUpWrite ELSE UNCHANGED late
  /\ entries' = {} /\ merged' = [u \in Updates |-> 0]
  /\ refresh' = [u \in Updates |-> IF refresh[u] \in {"new", "fetch"} THEN "new" ELSE "done"]
  /\ tasks' = NoTasks /\ disabled' = TRUE
  /\ writer' = NoWriter /\ closer' = NoCloser
  /\ UNCHANGED <<stored, raced, expired, faults>>

--------------------------------------------------------------------------------
(* A refresh: Tasks.Start, fetch, merge, persistLatest, finish.            *)

RefreshMoves(u, to) == refresh' = [refresh EXCEPT ![u] = to]

StartRefresh(u) ==
  /\ up /\ refresh[u] = "new" /\ ~tasks.closed
  /\ tasks' = [tasks EXCEPT !.pending = @ \union {u}]
  /\ RefreshMoves(u, "fetch")
  /\ UNCHANGED <<store, expired, up, cache, disabled, writer, closer, faults>>

\* finish: the deferred decrement; the last one closes drained.
Finished(u) == tasks' = [tasks EXCEPT !.pending = @ \ {u}]

\* finishFailure, also after the life context is canceled.
FetchFails(u) ==
  /\ refresh[u] = "fetch"
  /\ entries' = Pruned(entries)
  /\ Finished(u) /\ RefreshMoves(u, "new")
  /\ UNCHANGED <<store, expired, up, merged, disabled, writer, closer, faults>>

\* finishSuccess, under mu.
Merge(u) ==
  /\ refresh[u] = "fetch"
  /\ entries' = Pruned(entries \union {u})
  /\ merged' = [merged EXCEPT ![u] = Generation + 1]
  /\ RefreshMoves(u, "merged")
  /\ UNCHANGED <<store, expired, up, tasks, disabled, writer, closer, faults>>

\* persistLatest, under persistenceMu: the first refresh creates the writer.
HoldWriter(u) ==
  /\ refresh[u] = "merged"
  /\ IF disabled
       THEN RefreshMoves(u, "done") /\ Finished(u) /\ UNCHANGED writer
       ELSE /\ RefreshMoves(u, "writer") /\ UNCHANGED tasks
            /\ writer' = IF writer.pc = "none" THEN [writer EXCEPT !.pc = "wait"] ELSE writer
  /\ UNCHANGED <<store, expired, up, cache, disabled, closer, faults>>

\* Writer.Schedule, and the end of the refresh.
Schedule(u) ==
  /\ refresh[u] = "writer"
  /\ writer' = IF writer.closed THEN writer
               ELSE [writer EXCEPT !.requested = Larger(@, merged[u])]
  /\ Finished(u) /\ RefreshMoves(u, "done")
  /\ UNCHANGED <<store, expired, up, cache, disabled, closer, faults>>

Refreshing(u) ==
  FetchFails(u) \/ Merge(u) \/ HoldWriter(u) \/ Schedule(u)

--------------------------------------------------------------------------------
(* Writer.run                                                              *)

WriterMoves(to) == writer' = [writer EXCEPT !.pc = to]
WriterOnly == UNCHANGED <<expired, up, cache, refresh, tasks, disabled>>

\* A signal or the retry ticker, which fires in any case, and the coalescing window.
Wake ==
  /\ writer.pc = "wait"
  /\ WriterMoves("check")
  /\ WriterOnly /\ UNCHANGED <<store, closer, faults>>

\* The selects on the worker's canceled context.
ExitWorker ==
  /\ writer.pc = "wait" /\ writer.canceled
  /\ WriterMoves("exited")
  /\ WriterOnly /\ UNCHANGED <<store, closer, faults>>

\* Mutant: the generation next to the stored one is not missed.
PendingLater == writer.requested > writer.persisted + 1
Pending == writer.requested > writer.persisted

NothingPending ==
  /\ writer.pc = "check" /\ ~Pending
  /\ WriterMoves("wait")
  /\ WriterOnly /\ UNCHANGED <<store, closer, faults>>

\* persistSnapshot, under mu: what is stored and its generation are read at once.
TakeSnapshot ==
  /\ writer.pc = "check" /\ Pending
  /\ entries' = Pruned(entries)
  /\ writer' = [writer EXCEPT !.pc = "put", !.snap = Pruned(entries), !.generation = Generation]
  /\ UNCHANGED <<store, expired, up, merged, refresh, tasks, disabled, closer, faults>>

\* attempts and changed, for the flush that waits.
Attempted == closer' = [closer EXCEPT !.attempted = closer.pc = "wait" \/ @]

\* Mutant: the generation asked for counts as stored.
AskedGeneration == writer.requested
StoredGeneration == writer.generation

PutSucceeds ==
  /\ writer.pc = "put"
  /\ stored' = {writer.snap} /\ raced' = FALSE
  /\ writer' = [writer EXCEPT !.pc = IF writer.canceled THEN "exited" ELSE "check",
                              !.failed = FALSE, !.persisted = Larger(@, StoredGeneration),
                              !.snap = {}, !.generation = 0]
  /\ Attempted
  /\ WriterOnly /\ UNCHANGED <<late, faults>>

\* The store's error, the write timeout or the canceled context.
PutFails ==
  /\ writer.pc = "put"
  /\ IF writer.canceled THEN UNCHANGED faults ELSE Fault
  /\ GivesUpWrite
  /\ writer' = [writer EXCEPT !.pc = "wait", !.failed = TRUE, !.snap = {}, !.generation = 0]
  /\ Attempted
  /\ WriterOnly /\ UNCHANGED <<stored, raced>>

Working ==
  \/ Wake \/ ExitWorker \/ NothingPending
  \/ TakeSnapshot \/ PutSucceeds \/ PutFails

--------------------------------------------------------------------------------
(* closePersistence: Tasks.Close, then Writer.Close, under one deadline.   *)

CloserMoves(to) == closer' = [closer EXCEPT !.pc = to]
CloserFails(to) == closer' = [closer EXCEPT !.pc = to, !.error = TRUE]
CloserOnly == UNCHANGED <<store, expired, up, cache, refresh, disabled, faults>>

\* Mutant: a refresh counts as drained before it schedules its generation.
AllMerged == \A u \in Updates : refresh[u] # "fetch"
AllFinished == tasks.pending = {}

CloseTasks ==
  /\ up /\ closer.pc = "open"
  /\ tasks' = [tasks EXCEPT !.closed = TRUE]
  /\ CloserMoves(IF AllFinished THEN "close" ELSE "drain")
  /\ CloserOnly /\ UNCHANGED writer

Deadline ==
  /\ closer.pc \notin {"open", "closed"} /\ ~closer.late
  /\ closer' = [closer EXCEPT !.late = TRUE]
  /\ CloserOnly /\ UNCHANGED <<tasks, writer>>

Drained ==
  /\ closer.pc = "drain"
  /\ \/ AllFinished /\ CloserMoves("close")
     \/ closer.late /\ CloserFails("close")
  /\ CloserOnly /\ UNCHANGED <<tasks, writer>>

\* The writer is read under persistenceMu; a nil writer has nothing to close.
CloseWriter ==
  /\ closer.pc = "close"
  /\ IF writer.pc = "none"
       THEN CloserMoves("closed") /\ UNCHANGED writer
       ELSE CloserMoves("flush") /\ writer' = [writer EXCEPT !.closed = TRUE]
  /\ CloserOnly /\ UNCHANGED tasks

BeginFlush ==
  /\ closer.pc = "flush"
  /\ closer' = [closer EXCEPT !.pc = "wait", !.target = writer.requested, !.attempted = FALSE]
  /\ CloserOnly /\ UNCHANGED <<tasks, writer>>

\* The flush returns and the worker's context is canceled.
EndFlush ==
  /\ closer.pc = "wait"
  /\ \/ writer.persisted >= closer.target
     \/ closer.late \/ (closer.attempted /\ writer.failed)
  /\ closer' = [NoCloser EXCEPT !.pc = "stop", !.late = closer.late,
                                !.error = closer.error \/ writer.persisted < closer.target]
  /\ writer' = [writer EXCEPT !.canceled = TRUE]
  /\ CloserOnly /\ UNCHANGED tasks

Closed ==
  /\ closer.pc = "stop"
  /\ \/ writer.pc = "exited" /\ CloserMoves("closed")
     \/ closer.late /\ CloserFails("closed")
  /\ CloserOnly /\ UNCHANGED <<tasks, writer>>

Closing == Drained \/ CloseWriter \/ BeginFlush \/ EndFlush \/ Closed

--------------------------------------------------------------------------------
(* The store and time                                                      *)

LatePut ==
  /\ \E s \in late : stored' = {s} /\ late' = late \ {s}
  /\ raced' = TRUE
  /\ UNCHANGED <<expired, up, cache, refresh, tasks, disabled, writer, closer, faults>>

Expires ==
  /\ \E i \in Items \ expired :
       /\ i \in Updates => refresh[i] \notin {"new", "fetch"}
       /\ expired' = expired \union {i}
  /\ UNCHANGED <<store, up, cache, refresh, tasks, disabled, writer, closer, faults>>

Next ==
  \/ Start \/ Stop
  \/ \E u \in Updates : StartRefresh(u) \/ Refreshing(u)
  \/ Working
  \/ CloseTasks \/ Deadline \/ Closing
  \/ LatePut \/ Expires

Spec == Init /\ [][Next]_vars

Fairness ==
  /\ \A u \in Updates : WF_vars(Refreshing(u))
  /\ WF_vars(Working) /\ WF_vars(Closing)

FairSpec == Spec /\ Fairness

--------------------------------------------------------------------------------
Reflects(object, updates) == \E s \in object : updates \ expired \subseteq s

(* Whatever generation the writer holds for persisted, every update merged *)
(* up to it is in the stored snapshot, unless a write given up earlier has *)
(* landed since: the writer counts the generation of the snapshot it wrote *)
(* and never the one that was asked for (Writer.run, persistSnapshot).     *)
PersistedIsStored ==
  LET covered == {u \in Updates : merged[u] \in 1..writer.persisted}
  IN covered # {} /\ ~raced => Reflects(stored, covered)

(* When closePersistence returns without an error, every update the        *)
(* process has merged is stored, no refresh is left and no writer runs:    *)
(* the refreshes are drained before the writer is flushed, and a refresh   *)
(* schedules its generation before it counts as drained.                   *)
ClosedIsStored ==
  closer.pc = "closed" /\ ~closer.error =>
    LET news == {u \in Updates : merged[u] > 0}
    IN /\ ~disabled /\ news # {} /\ ~raced => Reflects(stored, news)
       /\ tasks.pending = {} /\ writer.pc \in {"none", "exited"}

(* A process never writes over a snapshot with one that lacks any of its   *)
(* unexpired updates, also after a restart that could not read it; a write *)
(* that was given up and lands later is the exception, until the next one. *)
SnapshotsGrow ==
  [][stored' # stored /\ ~raced /\ ~raced' =>
       \A s \in stored : Reflects(stored', s)]_vars

(* A merged update reaches the store, although writes fail finitely often, *)
(* unless the process stops or closes the cache first.                     *)
MergedIsStored ==
  \A u \in Updates :
    (merged[u] > 0 /\ ~disabled) ~>
      (Reflects(stored, {u}) \/ raced \/ ~up \/ closer.pc # "open")
================================================================================
