-------------------------- MODULE CachePersistenceProofs --------------------------
(***************************************************************************)
(* Proofs about CachePersistence, for every set of updates, every shared   *)
(* object and every number of faults.  The inductive invariant follows an  *)
(* update from the memory over the snapshot under way to the stored one,   *)
(* and the closer past the refreshes to the worker.                        *)
(***************************************************************************)
EXTENDS CachePersistence, FiniteSetTheorems, TLAPS

\* What a process that is not running has left.
Stopped ==
  ~up => /\ \A u \in Updates : merged[u] = 0 /\ refresh[u] \in {"new", "done"}
         /\ tasks = NoTasks /\ writer = NoWriter /\ closer = NoCloser /\ disabled

RefreshesCounted ==
  /\ \A u \in Updates :
       /\ u \in tasks.pending <=> refresh[u] \in {"fetch", "merged", "writer"}
       /\ merged[u] > 0 => refresh[u] \in {"merged", "writer", "done"}
       /\ refresh[u] = "writer" => writer.pc # "none"
  /\ closer.pc # "open" => tasks.closed
  /\ closer.pc \notin {"open", "drain"} /\ ~closer.error => tasks.pending = {}

\* What the writer counts as stored, or is about to, it has read.
WriterHolds ==
  /\ disabled => writer.pc = "none"
  /\ writer.persisted <= Generation
  /\ writer.pc = "put" =>
       /\ writer.snap \subseteq entries \union expired
       /\ writer.persisted <= writer.generation /\ writer.generation <= Generation
       /\ \A u \in Updates : merged[u] \in 1..writer.generation => u \in writer.snap \union expired
       /\ ~raced => \A s \in stored : s \subseteq writer.snap \union expired

\* The memory never has less than the store.
MemoryHolds ==
  /\ \A u \in Updates : merged[u] > 0 => u \in entries \union expired
  /\ up /\ ~disabled /\ ~raced => \A s \in stored : s \subseteq entries \union expired

SchedulesAsked ==
  ~disabled /\ ~closer.error =>
    \A u \in Updates : refresh[u] = "done" /\ merged[u] > 0 =>
      writer.pc # "none" /\ merged[u] <= writer.requested

CloserHolds ==
  /\ closer.pc \in {"flush", "wait", "stop"} => writer.pc # "none"
  /\ writer.closed => closer.pc \in {"flush", "wait", "stop", "closed"}
  /\ closer.pc = "wait" /\ ~closer.error => closer.target = writer.requested
  /\ closer.pc \in {"stop", "closed"} /\ ~closer.error /\ writer.pc # "none" =>
       writer.persisted >= writer.requested
  /\ closer.pc = "closed" /\ ~closer.error => writer.pc \in {"none", "exited"}

PersistenceInv ==
  /\ TypeOK /\ Stopped /\ RefreshesCounted /\ WriterHolds /\ MemoryHolds
  /\ SchedulesAsked /\ CloserHolds /\ PersistedIsStored

--------------------------------------------------------------------------------
(* Generations                                                             *)

LEMMA UpdatesCounted == Cardinality(Updates) \in Nat
  BY PersistenceAssumption, FS_CardinalityType

LEMMA GenerationType == TypeOK => Generation \in 0..Cardinality(Updates)
<1> DEFINE M == {u \in Updates : merged[u] > 0}
<1>1. IsFiniteSet(M) /\ Cardinality(M) <= Cardinality(Updates)
  BY PersistenceAssumption, FS_Subset
<1>2. Cardinality(M) \in Nat
  BY <1>1, FS_CardinalityType
<1>3. QED
  BY <1>1, <1>2, UpdatesCounted DEF Generation

\* A merge takes the number after the last.
LEMMA MergeCounts ==
  ASSUME TypeOK, NEW u \in Updates, merged[u] = 0,
         merged' = [merged EXCEPT ![u] = Generation + 1]
  PROVE  Generation' = Generation + 1 /\ Generation + 1 \in Generations
<1> DEFINE M == {v \in Updates : merged[v] > 0}
<1>1. IsFiniteSet(M) /\ u \notin M
  BY PersistenceAssumption, FS_Subset
<1>2. Generation = Cardinality(M) /\ Generation \in Nat
  BY GenerationType, UpdatesCounted DEF Generation
<1>3. {v \in Updates : merged'[v] > 0} = M \union {u}
  BY <1>2, UpdatesCounted DEF TypeOK, Generations
<1>4. Cardinality(M \union {u}) = Cardinality(M) + 1
  BY <1>1, FS_AddElement
<1>5. Generation' = Generation + 1
  BY <1>2, <1>3, <1>4 DEF Generation
<1>6. M \union {u} \subseteq Updates
  OBVIOUS
<1>7. Cardinality(M \union {u}) <= Cardinality(Updates)
  BY <1>6, PersistenceAssumption, FS_Subset
<1>8. QED
  BY <1>2, <1>4, <1>5, <1>7, UpdatesCounted DEF Generations

LEMMA NothingMerged == (\A u \in Updates : merged[u] = 0) => Generation = 0
<1> SUFFICES ASSUME \A u \in Updates : merged[u] = 0 PROVE Generation = 0
  OBVIOUS
<1>1. {u \in Updates : merged[u] > 0} = {}
  OBVIOUS
<1>2. QED
  BY <1>1, FS_EmptySet DEF Generation

--------------------------------------------------------------------------------
(* One lemma per action                                                    *)
LEMMA StartKeeps ==
  ASSUME PersistenceInv, Start
  PROVE  PersistenceInv'
<1> USE PersistenceAssumption, UpdatesCounted DEF PersistenceInv, store, cache,
    Generations, Start, Restored, Unreadable, Pruned, Fault
<1>g. Generation' = Generation /\ Generation \in 0..Cardinality(Updates)
  BY GenerationType DEF Generation
<1>1. TypeOK'
  <2>1. entries' \subseteq Items
    BY DEF TypeOK, Snapshots, Items
  <2>2. disabled' \in BOOLEAN /\ raced' \in BOOLEAN /\ up' \in BOOLEAN
    OBVIOUS
  <2>3. faults' \in 0..MaxFaults
    BY DEF TypeOK
  <2>4. QED
    BY <2>1, <2>2, <2>3 DEF TypeOK
<1>2. Stopped'
  BY <1>g DEF Stopped, NoTasks, NoWriter, NoCloser
<1>3. RefreshesCounted'
  BY <1>g DEF RefreshesCounted, Stopped, NoTasks, NoWriter, NoCloser
<1>4. WriterHolds'
  BY <1>g DEF WriterHolds, MemoryHolds, Stopped, NoWriter
<1>5. MemoryHolds'
  BY <1>g DEF MemoryHolds, TypeOK, RefreshStates, WriterType, CloserType, Items,
      Snapshots, NoTasks, NoWriter, NoCloser, Stopped, RefreshesCounted,
      WriterHolds, CloserHolds
<1>6. SchedulesAsked'
  BY <1>g DEF SchedulesAsked, RefreshesCounted, CloserHolds, TypeOK, RefreshStates,
      WriterType, CloserType, Items, Snapshots, NoTasks, NoWriter, NoCloser,
      Stopped, MemoryHolds, WriterHolds
<1>7. CloserHolds'
  BY <1>g DEF CloserHolds, RefreshesCounted, WriterHolds
<1>8. PersistedIsStored'
  BY <1>g DEF PersistedIsStored, Reflects, WriterHolds, Stopped, NoWriter
<1>9. QED
  BY <1>1, <1>2, <1>3, <1>4, <1>5, <1>6, <1>7, <1>8

LEMMA StopKeeps ==
  ASSUME PersistenceInv, Stop
  PROVE  PersistenceInv'
<1> USE PersistenceAssumption, UpdatesCounted DEF PersistenceInv, store, cache,
    Generations, Stop, GivesUpWrite, NoTasks, NoWriter, NoCloser
<1>g. Generation' = 0
  <2>1. \A u \in Updates : merged'[u] = 0
    OBVIOUS
  <2>2. {u \in Updates : merged'[u] > 0} = {}
    BY <2>1
  <2>3. QED
    BY <2>2, FS_EmptySet DEF Generation
<1>1. TypeOK'
  <2>1. 0 \in Generations /\ {} \in Snapshots
    BY DEF Snapshots
  <2>2. writer' \in WriterType /\ closer' \in CloserType
    BY <2>1 DEF WriterType, CloserType
  <2>3. merged' \in [Updates -> Generations] /\ refresh' \in [Updates -> RefreshStates]
    BY <2>1 DEF RefreshStates
  <2>4. late' \subseteq Snapshots
    BY DEF TypeOK, WriterType
  <2>5. /\ tasks' \in [closed : BOOLEAN, pending : SUBSET Updates]
        /\ entries' \subseteq Items /\ up' \in BOOLEAN /\ disabled' \in BOOLEAN
    OBVIOUS
  <2>6. QED
    BY <2>2, <2>3, <2>4, <2>5 DEF TypeOK
<1>2. Stopped'
  BY <1>g DEF Stopped
<1>3. RefreshesCounted'
  BY <1>g DEF RefreshesCounted, Stopped
<1>4. WriterHolds'
  BY <1>g DEF WriterHolds, MemoryHolds, Stopped
<1>5. MemoryHolds'
  BY <1>g DEF MemoryHolds
<1>6. SchedulesAsked'
  BY <1>g DEF SchedulesAsked, RefreshesCounted, CloserHolds
<1>7. CloserHolds'
  BY <1>g DEF CloserHolds, RefreshesCounted, WriterHolds
<1>8. PersistedIsStored'
  BY <1>g DEF PersistedIsStored, Reflects, WriterHolds, Stopped
<1>9. QED
  BY <1>1, <1>2, <1>3, <1>4, <1>5, <1>6, <1>7, <1>8

LEMMA StartRefreshKeeps ==
  ASSUME PersistenceInv, NEW u \in Updates, StartRefresh(u)
  PROVE  PersistenceInv'
<1> USE PersistenceAssumption, UpdatesCounted DEF PersistenceInv, store, cache,
    Generations, StartRefresh, RefreshMoves
<1>g. Generation' = Generation /\ Generation \in 0..Cardinality(Updates)
  BY GenerationType DEF Generation
<1>1. TypeOK'
  BY <1>g DEF Items, Snapshots, RefreshStates, WriterType, CloserType, TypeOK
<1>2. Stopped'
  BY <1>g DEF Stopped, NoTasks, NoWriter, NoCloser
<1>3. RefreshesCounted'
  BY <1>g DEF RefreshesCounted, Stopped, NoTasks, NoWriter, NoCloser, TypeOK
<1>4. WriterHolds'
  BY <1>g DEF WriterHolds, MemoryHolds, Stopped, NoWriter
<1>5. MemoryHolds'
  BY <1>g DEF MemoryHolds
<1>6. SchedulesAsked'
  BY <1>g DEF SchedulesAsked, RefreshesCounted, CloserHolds
<1>7. CloserHolds'
  BY <1>g DEF CloserHolds, RefreshesCounted, WriterHolds
<1>8. PersistedIsStored'
  BY <1>g DEF PersistedIsStored, Reflects, WriterHolds, Stopped, NoWriter
<1>9. QED
  BY <1>1, <1>2, <1>3, <1>4, <1>5, <1>6, <1>7, <1>8

LEMMA FetchFailsKeeps ==
  ASSUME PersistenceInv, NEW u \in Updates, FetchFails(u)
  PROVE  PersistenceInv'
<1> USE PersistenceAssumption, UpdatesCounted DEF PersistenceInv, store, cache,
    Generations, FetchFails, RefreshMoves, Finished, Pruned
<1>g. Generation' = Generation /\ Generation \in 0..Cardinality(Updates)
  BY GenerationType DEF Generation
<1>1. TypeOK'
  BY <1>g DEF Items, Snapshots, RefreshStates, WriterType, CloserType, TypeOK
<1>2. Stopped'
  BY <1>g DEF Stopped, NoTasks, NoWriter, NoCloser
<1>3. RefreshesCounted'
  BY <1>g DEF RefreshesCounted, Stopped, NoTasks, NoWriter, NoCloser, TypeOK
<1>4. WriterHolds'
  BY <1>g DEF WriterHolds, MemoryHolds, Stopped, NoWriter
<1>5. MemoryHolds'
  BY <1>g DEF MemoryHolds
<1>6. SchedulesAsked'
  BY <1>g DEF SchedulesAsked, RefreshesCounted, CloserHolds
<1>7. CloserHolds'
  BY <1>g DEF CloserHolds, RefreshesCounted, WriterHolds
<1>8. PersistedIsStored'
  BY <1>g DEF PersistedIsStored, Reflects, WriterHolds, Stopped, NoWriter
<1>9. QED
  BY <1>1, <1>2, <1>3, <1>4, <1>5, <1>6, <1>7, <1>8

LEMMA MergeKeeps ==
  ASSUME PersistenceInv, NEW u \in Updates, Merge(u)
  PROVE  PersistenceInv'
<1> USE PersistenceAssumption, UpdatesCounted DEF PersistenceInv, store, cache,
    Generations, Merge, RefreshMoves, Pruned
<1>a. merged[u] = 0
  BY DEF RefreshesCounted, TypeOK
<1>b. TypeOK /\ merged' = [merged EXCEPT ![u] = Generation + 1]
  OBVIOUS
<1>c. Generation' = Generation + 1 /\ Generation + 1 \in Generations
  BY ONLY <1>a, <1>b, MergeCounts
<1>d. Generation \in Nat
  BY <1>b, GenerationType
<1>g. Generation' = Generation + 1 /\ Generation + 1 \in Generations /\ Generation \in Nat
  BY <1>c, <1>d
<1>1. TypeOK'
  BY <1>g DEF Items, Snapshots, RefreshStates, WriterType, CloserType, TypeOK
<1>2. Stopped'
  BY <1>g DEF Stopped, NoTasks, NoWriter, NoCloser
<1>3. RefreshesCounted'
  BY <1>g DEF RefreshesCounted, Stopped, NoTasks, NoWriter, NoCloser, TypeOK
<1>4. WriterHolds'
  BY <1>g DEF WriterHolds, MemoryHolds, Stopped, NoWriter, TypeOK, RefreshStates,
      WriterType, CloserType, Items, Snapshots
<1>5. MemoryHolds'
  BY <1>g DEF MemoryHolds
<1>6. SchedulesAsked'
  BY <1>g DEF SchedulesAsked, RefreshesCounted, CloserHolds
<1>7. CloserHolds'
  BY <1>g DEF CloserHolds, RefreshesCounted, WriterHolds
<1>8. PersistedIsStored'
  BY <1>g DEF PersistedIsStored, Reflects, WriterHolds, Stopped, NoWriter, TypeOK,
      RefreshStates, WriterType, CloserType, Items, Snapshots
<1>9. QED
  BY <1>1, <1>2, <1>3, <1>4, <1>5, <1>6, <1>7, <1>8

LEMMA HoldWriterKeeps ==
  ASSUME PersistenceInv, NEW u \in Updates, HoldWriter(u)
  PROVE  PersistenceInv'
<1> USE PersistenceAssumption, UpdatesCounted DEF PersistenceInv, store, cache,
    Generations, HoldWriter, RefreshMoves, Finished
<1>g. Generation' = Generation /\ Generation \in 0..Cardinality(Updates)
  BY GenerationType DEF Generation
<1>1. TypeOK'
  BY <1>g DEF Items, Snapshots, RefreshStates, WriterType, CloserType, TypeOK
<1>2. Stopped'
  BY <1>g DEF Stopped, NoTasks, NoWriter, NoCloser
<1>3. RefreshesCounted'
  BY <1>g DEF RefreshesCounted, Stopped, NoTasks, NoWriter, NoCloser, TypeOK,
      RefreshStates, WriterType, CloserType, Items, Snapshots
<1>4. WriterHolds'
  BY <1>g DEF WriterHolds, MemoryHolds, Stopped, NoWriter, TypeOK, RefreshStates,
      WriterType, CloserType, Items, Snapshots
<1>5. MemoryHolds'
  BY <1>g DEF MemoryHolds
<1>6. SchedulesAsked'
  BY <1>g DEF SchedulesAsked, RefreshesCounted, CloserHolds, TypeOK
<1>7. CloserHolds'
  BY <1>g DEF CloserHolds, RefreshesCounted, WriterHolds, TypeOK, RefreshStates,
      WriterType, CloserType, Items, Snapshots
<1>8. PersistedIsStored'
  BY <1>g DEF PersistedIsStored, Reflects, WriterHolds, Stopped, NoWriter, TypeOK,
      RefreshStates, WriterType, CloserType, Items, Snapshots
<1>9. QED
  BY <1>1, <1>2, <1>3, <1>4, <1>5, <1>6, <1>7, <1>8

LEMMA ScheduleKeeps ==
  ASSUME PersistenceInv, NEW u \in Updates, Schedule(u)
  PROVE  PersistenceInv'
<1> USE PersistenceAssumption, UpdatesCounted DEF PersistenceInv, store, cache,
    Generations, Schedule, RefreshMoves, Finished, Larger
<1>g. Generation' = Generation /\ Generation \in 0..Cardinality(Updates)
  BY GenerationType DEF Generation
<1>1. TypeOK'
  BY <1>g DEF Items, Snapshots, RefreshStates, WriterType, CloserType, TypeOK
<1>2. Stopped'
  BY <1>g DEF Stopped, NoTasks, NoWriter, NoCloser
<1>3. RefreshesCounted'
  BY <1>g DEF RefreshesCounted, Stopped, NoTasks, NoWriter, NoCloser, TypeOK
<1>4. WriterHolds'
  BY <1>g DEF WriterHolds, MemoryHolds, Stopped, NoWriter
<1>5. MemoryHolds'
  BY <1>g DEF MemoryHolds
<1>6. SchedulesAsked'
  BY <1>g DEF SchedulesAsked, RefreshesCounted, CloserHolds, TypeOK, RefreshStates,
      WriterType, CloserType, Items, Snapshots, NoTasks, NoWriter, NoCloser,
      Stopped, MemoryHolds, WriterHolds
<1>7. CloserHolds'
  BY <1>g DEF CloserHolds, RefreshesCounted, WriterHolds
<1>8. PersistedIsStored'
  BY <1>g DEF PersistedIsStored, Reflects, WriterHolds, Stopped, NoWriter
<1>9. QED
  BY <1>1, <1>2, <1>3, <1>4, <1>5, <1>6, <1>7, <1>8

LEMMA WakeKeeps ==
  ASSUME PersistenceInv, Wake
  PROVE  PersistenceInv'
<1> USE PersistenceAssumption, UpdatesCounted DEF PersistenceInv, store, cache,
    Generations, Wake, WriterMoves, WriterOnly
<1>g. Generation' = Generation /\ Generation \in 0..Cardinality(Updates)
  BY GenerationType DEF Generation
<1>1. TypeOK'
  BY <1>g DEF Items, Snapshots, RefreshStates, WriterType, CloserType, TypeOK
<1>2. Stopped'
  BY <1>g DEF Stopped, NoTasks, NoWriter, NoCloser
<1>3. RefreshesCounted'
  BY <1>g DEF RefreshesCounted, Stopped, NoTasks, NoWriter, NoCloser
<1>4. WriterHolds'
  BY <1>g DEF WriterHolds, MemoryHolds, Stopped, NoWriter
<1>5. MemoryHolds'
  BY <1>g DEF MemoryHolds
<1>6. SchedulesAsked'
  BY <1>g DEF SchedulesAsked, RefreshesCounted, CloserHolds
<1>7. CloserHolds'
  BY <1>g DEF CloserHolds, RefreshesCounted, WriterHolds
<1>8. PersistedIsStored'
  BY <1>g DEF PersistedIsStored, Reflects, WriterHolds, Stopped, NoWriter
<1>9. QED
  BY <1>1, <1>2, <1>3, <1>4, <1>5, <1>6, <1>7, <1>8

LEMMA ExitWorkerKeeps ==
  ASSUME PersistenceInv, ExitWorker
  PROVE  PersistenceInv'
<1> USE PersistenceAssumption, UpdatesCounted DEF PersistenceInv, store, cache,
    Generations, ExitWorker, WriterMoves, WriterOnly
<1>g. Generation' = Generation /\ Generation \in 0..Cardinality(Updates)
  BY GenerationType DEF Generation
<1>1. TypeOK'
  BY <1>g DEF Items, Snapshots, RefreshStates, WriterType, CloserType, TypeOK
<1>2. Stopped'
  BY <1>g DEF Stopped, NoTasks, NoWriter, NoCloser
<1>3. RefreshesCounted'
  BY <1>g DEF RefreshesCounted, Stopped, NoTasks, NoWriter, NoCloser
<1>4. WriterHolds'
  BY <1>g DEF WriterHolds, MemoryHolds, Stopped, NoWriter
<1>5. MemoryHolds'
  BY <1>g DEF MemoryHolds
<1>6. SchedulesAsked'
  BY <1>g DEF SchedulesAsked, RefreshesCounted, CloserHolds
<1>7. CloserHolds'
  BY <1>g DEF CloserHolds, RefreshesCounted, WriterHolds
<1>8. PersistedIsStored'
  BY <1>g DEF PersistedIsStored, Reflects, WriterHolds, Stopped, NoWriter
<1>9. QED
  BY <1>1, <1>2, <1>3, <1>4, <1>5, <1>6, <1>7, <1>8

LEMMA NothingPendingKeeps ==
  ASSUME PersistenceInv, NothingPending
  PROVE  PersistenceInv'
<1> USE PersistenceAssumption, UpdatesCounted DEF PersistenceInv, store, cache,
    Generations, NothingPending, WriterMoves, WriterOnly
<1>g. Generation' = Generation /\ Generation \in 0..Cardinality(Updates)
  BY GenerationType DEF Generation
<1>1. TypeOK'
  BY <1>g DEF Items, Snapshots, RefreshStates, WriterType, CloserType, TypeOK
<1>2. Stopped'
  BY <1>g DEF Stopped, NoTasks, NoWriter, NoCloser
<1>3. RefreshesCounted'
  BY <1>g DEF RefreshesCounted, Stopped, NoTasks, NoWriter, NoCloser
<1>4. WriterHolds'
  BY <1>g DEF WriterHolds, MemoryHolds, Stopped, NoWriter
<1>5. MemoryHolds'
  BY <1>g DEF MemoryHolds
<1>6. SchedulesAsked'
  BY <1>g DEF SchedulesAsked, RefreshesCounted, CloserHolds
<1>7. CloserHolds'
  BY <1>g DEF CloserHolds, RefreshesCounted, WriterHolds
<1>8. PersistedIsStored'
  BY <1>g DEF PersistedIsStored, Reflects, WriterHolds, Stopped, NoWriter
<1>9. QED
  BY <1>1, <1>2, <1>3, <1>4, <1>5, <1>6, <1>7, <1>8

LEMMA TakeSnapshotKeeps ==
  ASSUME PersistenceInv, TakeSnapshot
  PROVE  PersistenceInv'
<1> USE PersistenceAssumption, UpdatesCounted DEF PersistenceInv, store, cache,
    Generations, TakeSnapshot, Pruned
<1>g. Generation' = Generation /\ Generation \in 0..Cardinality(Updates)
  BY GenerationType DEF Generation
<1>1. TypeOK'
  BY <1>g DEF Items, Snapshots, RefreshStates, WriterType, CloserType, TypeOK
<1>2. Stopped'
  BY <1>g DEF Stopped, NoTasks, NoWriter, NoCloser
<1>3. RefreshesCounted'
  BY <1>g DEF RefreshesCounted, Stopped, NoTasks, NoWriter, NoCloser
<1>4. WriterHolds'
  BY <1>g DEF WriterHolds, MemoryHolds, Stopped, NoWriter
<1>5. MemoryHolds'
  BY <1>g DEF MemoryHolds
<1>6. SchedulesAsked'
  BY <1>g DEF SchedulesAsked, RefreshesCounted, CloserHolds
<1>7. CloserHolds'
  BY <1>g DEF CloserHolds, RefreshesCounted, WriterHolds
<1>8. PersistedIsStored'
  BY <1>g DEF PersistedIsStored, Reflects, WriterHolds, Stopped, NoWriter
<1>9. QED
  BY <1>1, <1>2, <1>3, <1>4, <1>5, <1>6, <1>7, <1>8

LEMMA PutSucceedsKeeps ==
  ASSUME PersistenceInv, PutSucceeds
  PROVE  PersistenceInv'
<1> USE PersistenceAssumption, UpdatesCounted DEF PersistenceInv, store, cache,
    Generations, PutSucceeds, Attempted, WriterOnly, StoredGeneration, Larger
<1>g. Generation' = Generation /\ Generation \in 0..Cardinality(Updates)
  BY GenerationType DEF Generation
<1>1. TypeOK'
  <2>1. writer.snap \in Snapshots /\ 0 \in Generations /\ {} \in Snapshots
    BY DEF TypeOK, WriterType, Snapshots
  <2>2. writer' \in WriterType
    BY <2>1 DEF TypeOK, WriterType
  <2>3. closer' \in CloserType
    BY DEF TypeOK, CloserType
  <2>4. stored' \in {{}} \union {{s} : s \in Snapshots} /\ raced' \in BOOLEAN
    BY <2>1
  <2>5. QED
    BY <2>2, <2>3, <2>4 DEF TypeOK
<1>2. Stopped'
  BY <1>g DEF Stopped, NoTasks, NoWriter, NoCloser
<1>3. RefreshesCounted'
  BY <1>g DEF RefreshesCounted, Stopped, NoTasks, NoWriter, NoCloser
<1>4. WriterHolds'
  BY <1>g DEF WriterHolds, MemoryHolds, Stopped, NoWriter
<1>5. MemoryHolds'
  BY <1>g DEF MemoryHolds, TypeOK, RefreshStates, WriterType, CloserType, Items,
      Snapshots, NoTasks, NoWriter, NoCloser, Stopped, RefreshesCounted,
      WriterHolds, CloserHolds
<1>6. SchedulesAsked'
  BY <1>g DEF SchedulesAsked, RefreshesCounted, CloserHolds
<1>7. CloserHolds'
  BY <1>g DEF CloserHolds, RefreshesCounted, WriterHolds, TypeOK, RefreshStates,
      WriterType, CloserType, Items, Snapshots
<1>8. PersistedIsStored'
  BY <1>g DEF PersistedIsStored, Reflects, WriterHolds, Stopped, NoWriter, TypeOK,
      RefreshStates, WriterType, CloserType, Items, Snapshots
<1>9. QED
  BY <1>1, <1>2, <1>3, <1>4, <1>5, <1>6, <1>7, <1>8

LEMMA PutFailsKeeps ==
  ASSUME PersistenceInv, PutFails
  PROVE  PersistenceInv'
<1> USE PersistenceAssumption, UpdatesCounted DEF PersistenceInv, store, cache,
    Generations, PutFails, GivesUpWrite, Attempted, WriterOnly, Fault
<1>g. Generation' = Generation /\ Generation \in 0..Cardinality(Updates)
  BY GenerationType DEF Generation
<1>1. TypeOK'
  <2>1. writer.snap \in Snapshots /\ 0 \in Generations /\ {} \in Snapshots
    BY DEF TypeOK, WriterType, Snapshots
  <2>2. writer' \in WriterType
    BY <2>1 DEF TypeOK, WriterType
  <2>3. closer' \in CloserType
    BY DEF TypeOK, CloserType
  <2>4. late' \subseteq Snapshots /\ faults' \in 0..MaxFaults
    BY <2>1 DEF TypeOK
  <2>5. QED
    BY <2>2, <2>3, <2>4 DEF TypeOK
<1>2. Stopped'
  BY <1>g DEF Stopped, NoTasks, NoWriter, NoCloser
<1>3. RefreshesCounted'
  BY <1>g DEF RefreshesCounted, Stopped, NoTasks, NoWriter, NoCloser
<1>4. WriterHolds'
  BY <1>g DEF WriterHolds, MemoryHolds, Stopped, NoWriter
<1>5. MemoryHolds'
  BY <1>g DEF MemoryHolds
<1>6. SchedulesAsked'
  BY <1>g DEF SchedulesAsked, RefreshesCounted, CloserHolds
<1>7. CloserHolds'
  BY <1>g DEF CloserHolds, RefreshesCounted, WriterHolds
<1>8. PersistedIsStored'
  BY <1>g DEF PersistedIsStored, Reflects, WriterHolds, Stopped, NoWriter
<1>9. QED
  BY <1>1, <1>2, <1>3, <1>4, <1>5, <1>6, <1>7, <1>8

LEMMA CloseTasksKeeps ==
  ASSUME PersistenceInv, CloseTasks
  PROVE  PersistenceInv'
<1> USE PersistenceAssumption, UpdatesCounted DEF PersistenceInv, store, cache,
    Generations, CloseTasks, CloserMoves, CloserOnly, AllFinished
<1>g. Generation' = Generation /\ Generation \in 0..Cardinality(Updates)
  BY GenerationType DEF Generation
<1>1. TypeOK'
  BY <1>g DEF Items, Snapshots, RefreshStates, WriterType, CloserType, TypeOK
<1>2. Stopped'
  BY <1>g DEF Stopped, NoTasks, NoWriter, NoCloser
<1>3. RefreshesCounted'
  BY <1>g DEF RefreshesCounted, Stopped, NoTasks, NoWriter, NoCloser
<1>4. WriterHolds'
  BY <1>g DEF WriterHolds, MemoryHolds, Stopped, NoWriter
<1>5. MemoryHolds'
  BY <1>g DEF MemoryHolds
<1>6. SchedulesAsked'
  BY <1>g DEF SchedulesAsked, RefreshesCounted, CloserHolds
<1>7. CloserHolds'
  BY <1>g DEF CloserHolds, RefreshesCounted, WriterHolds
<1>8. PersistedIsStored'
  BY <1>g DEF PersistedIsStored, Reflects, WriterHolds, Stopped, NoWriter
<1>9. QED
  BY <1>1, <1>2, <1>3, <1>4, <1>5, <1>6, <1>7, <1>8

LEMMA DeadlineKeeps ==
  ASSUME PersistenceInv, Deadline
  PROVE  PersistenceInv'
<1> USE PersistenceAssumption, UpdatesCounted DEF PersistenceInv, store, cache,
    Generations, Deadline, CloserOnly
<1>g. Generation' = Generation /\ Generation \in 0..Cardinality(Updates)
  BY GenerationType DEF Generation
<1>1. TypeOK'
  BY <1>g DEF Items, Snapshots, RefreshStates, WriterType, CloserType, TypeOK
<1>2. Stopped'
  BY <1>g DEF Stopped, NoTasks, NoWriter, NoCloser
<1>3. RefreshesCounted'
  BY <1>g DEF RefreshesCounted, Stopped, NoTasks, NoWriter, NoCloser
<1>4. WriterHolds'
  BY <1>g DEF WriterHolds, MemoryHolds, Stopped, NoWriter
<1>5. MemoryHolds'
  BY <1>g DEF MemoryHolds
<1>6. SchedulesAsked'
  BY <1>g DEF SchedulesAsked, RefreshesCounted, CloserHolds
<1>7. CloserHolds'
  BY <1>g DEF CloserHolds, RefreshesCounted, WriterHolds
<1>8. PersistedIsStored'
  BY <1>g DEF PersistedIsStored, Reflects, WriterHolds, Stopped, NoWriter
<1>9. QED
  BY <1>1, <1>2, <1>3, <1>4, <1>5, <1>6, <1>7, <1>8

LEMMA DrainedKeeps ==
  ASSUME PersistenceInv, Drained
  PROVE  PersistenceInv'
<1> USE PersistenceAssumption, UpdatesCounted DEF PersistenceInv, store, cache,
    Generations, Drained, CloserMoves, CloserFails, CloserOnly, AllFinished
<1>g. Generation' = Generation /\ Generation \in 0..Cardinality(Updates)
  BY GenerationType DEF Generation
<1>1. TypeOK'
  <2>1. closer' \in CloserType
    BY DEF TypeOK, CloserType
  <2>2. QED
    BY <1>g, <2>1 DEF TypeOK
<1>2. Stopped'
  BY <1>g DEF Stopped, NoTasks, NoWriter, NoCloser
<1>3. RefreshesCounted'
  BY <1>g DEF RefreshesCounted, Stopped, NoTasks, NoWriter, NoCloser, TypeOK,
      RefreshStates, WriterType, CloserType, Items, Snapshots
<1>4. WriterHolds'
  BY <1>g DEF WriterHolds, MemoryHolds, Stopped, NoWriter
<1>5. MemoryHolds'
  BY <1>g DEF MemoryHolds
<1>6. SchedulesAsked'
  BY <1>g DEF SchedulesAsked, RefreshesCounted, CloserHolds, TypeOK, RefreshStates,
      WriterType, CloserType, Items, Snapshots
<1>7. CloserHolds'
  BY <1>g DEF CloserHolds, RefreshesCounted, WriterHolds, TypeOK, RefreshStates,
      WriterType, CloserType, Items, Snapshots
<1>8. PersistedIsStored'
  BY <1>g DEF PersistedIsStored, Reflects, WriterHolds, Stopped, NoWriter
<1>9. QED
  BY <1>1, <1>2, <1>3, <1>4, <1>5, <1>6, <1>7, <1>8

LEMMA CloseWriterKeeps ==
  ASSUME PersistenceInv, CloseWriter
  PROVE  PersistenceInv'
<1> USE PersistenceAssumption, UpdatesCounted DEF PersistenceInv, store, cache,
    Generations, CloseWriter, CloserMoves, CloserOnly
<1>g. Generation' = Generation /\ Generation \in 0..Cardinality(Updates)
  BY GenerationType DEF Generation
<1>1. TypeOK'
  <2>1. writer' \in WriterType
    BY DEF TypeOK, WriterType
  <2>2. closer' \in CloserType
    BY DEF TypeOK, CloserType
  <2>3. QED
    BY <2>1, <2>2 DEF TypeOK
<1>2. Stopped'
  BY <1>g DEF Stopped, NoTasks, NoWriter, NoCloser
<1>3. RefreshesCounted'
  BY <1>g DEF RefreshesCounted, Stopped, NoTasks, NoWriter, NoCloser, TypeOK,
      RefreshStates, WriterType, CloserType, Items, Snapshots
<1>4. WriterHolds'
  BY <1>g DEF WriterHolds, MemoryHolds, Stopped, NoWriter, TypeOK, RefreshStates,
      WriterType, CloserType, Items, Snapshots
<1>5. MemoryHolds'
  BY <1>g DEF MemoryHolds
<1>6. SchedulesAsked'
  BY <1>g DEF SchedulesAsked, RefreshesCounted, CloserHolds, TypeOK, RefreshStates,
      WriterType, CloserType, Items, Snapshots
<1>7. CloserHolds'
  BY <1>g DEF CloserHolds, RefreshesCounted, WriterHolds, TypeOK, RefreshStates,
      WriterType, CloserType, Items, Snapshots
<1>8. PersistedIsStored'
  BY <1>g DEF PersistedIsStored, Reflects, WriterHolds, Stopped, NoWriter, TypeOK,
      RefreshStates, WriterType, CloserType, Items, Snapshots
<1>9. QED
  BY <1>1, <1>2, <1>3, <1>4, <1>5, <1>6, <1>7, <1>8

LEMMA BeginFlushKeeps ==
  ASSUME PersistenceInv, BeginFlush
  PROVE  PersistenceInv'
<1> USE PersistenceAssumption, UpdatesCounted DEF PersistenceInv, store, cache,
    Generations, BeginFlush, CloserOnly
<1>g. Generation' = Generation /\ Generation \in 0..Cardinality(Updates)
  BY GenerationType DEF Generation
<1>1. TypeOK'
  BY <1>g DEF Items, Snapshots, RefreshStates, WriterType, CloserType, TypeOK
<1>2. Stopped'
  BY <1>g DEF Stopped, NoTasks, NoWriter, NoCloser
<1>3. RefreshesCounted'
  BY <1>g DEF RefreshesCounted, Stopped, NoTasks, NoWriter, NoCloser
<1>4. WriterHolds'
  BY <1>g DEF WriterHolds, MemoryHolds, Stopped, NoWriter
<1>5. MemoryHolds'
  BY <1>g DEF MemoryHolds
<1>6. SchedulesAsked'
  BY <1>g DEF SchedulesAsked, RefreshesCounted, CloserHolds
<1>7. CloserHolds'
  BY <1>g DEF CloserHolds, RefreshesCounted, WriterHolds
<1>8. PersistedIsStored'
  BY <1>g DEF PersistedIsStored, Reflects, WriterHolds, Stopped, NoWriter
<1>9. QED
  BY <1>1, <1>2, <1>3, <1>4, <1>5, <1>6, <1>7, <1>8

LEMMA EndFlushKeeps ==
  ASSUME PersistenceInv, EndFlush
  PROVE  PersistenceInv'
<1> USE PersistenceAssumption, UpdatesCounted DEF PersistenceInv, store, cache,
    Generations, EndFlush, NoCloser, CloserOnly
<1>g. Generation' = Generation /\ Generation \in 0..Cardinality(Updates)
  BY GenerationType DEF Generation
<1>1. TypeOK'
  <2>1. writer' \in WriterType
    BY DEF TypeOK, WriterType
  <2>2. closer' \in CloserType
    <3>1. 0 \in Generations /\ closer.late \in BOOLEAN /\ closer.error \in BOOLEAN
      BY DEF TypeOK, CloserType
    <3>2. QED
      BY <3>1 DEF CloserType
  <2>3. QED
    BY <2>1, <2>2 DEF TypeOK
<1>2. Stopped'
  BY <1>g DEF Stopped, NoTasks, NoWriter
<1>3. RefreshesCounted'
  BY <1>g DEF RefreshesCounted, Stopped, NoTasks, NoWriter, TypeOK
<1>4. WriterHolds'
  BY <1>g DEF WriterHolds, MemoryHolds, Stopped, NoWriter
<1>5. MemoryHolds'
  BY <1>g DEF MemoryHolds
<1>6. SchedulesAsked'
  BY <1>g DEF SchedulesAsked, RefreshesCounted, CloserHolds, TypeOK
<1>7. CloserHolds'
  BY <1>g DEF CloserHolds, RefreshesCounted, WriterHolds, TypeOK, RefreshStates,
      WriterType, CloserType, Items, Snapshots
<1>8. PersistedIsStored'
  BY <1>g DEF PersistedIsStored, Reflects, WriterHolds, Stopped, NoWriter
<1>9. QED
  BY <1>1, <1>2, <1>3, <1>4, <1>5, <1>6, <1>7, <1>8

LEMMA ClosedKeeps ==
  ASSUME PersistenceInv, Closed
  PROVE  PersistenceInv'
<1> USE PersistenceAssumption, UpdatesCounted DEF PersistenceInv, store, cache,
    Generations, Closed, CloserMoves, CloserFails, CloserOnly
<1>g. Generation' = Generation /\ Generation \in 0..Cardinality(Updates)
  BY GenerationType DEF Generation
<1>1. TypeOK'
  BY ZenonT(40), <1>g DEF Items, Snapshots, RefreshStates, WriterType, CloserType, TypeOK
<1>2. Stopped'
  BY <1>g DEF Stopped, NoTasks, NoWriter, NoCloser
<1>3. RefreshesCounted'
  BY <1>g DEF RefreshesCounted, Stopped, NoTasks, NoWriter, NoCloser, TypeOK,
      RefreshStates, WriterType, CloserType, Items, Snapshots
<1>4. WriterHolds'
  BY <1>g DEF WriterHolds, MemoryHolds, Stopped, NoWriter
<1>5. MemoryHolds'
  BY <1>g DEF MemoryHolds
<1>6. SchedulesAsked'
  BY <1>g DEF SchedulesAsked, RefreshesCounted, CloserHolds, TypeOK, RefreshStates,
      WriterType, CloserType, Items, Snapshots
<1>7. CloserHolds'
  BY <1>g DEF CloserHolds, RefreshesCounted, WriterHolds, TypeOK, RefreshStates,
      WriterType, CloserType, Items, Snapshots
<1>8. PersistedIsStored'
  BY <1>g DEF PersistedIsStored, Reflects, WriterHolds, Stopped, NoWriter
<1>9. QED
  BY <1>1, <1>2, <1>3, <1>4, <1>5, <1>6, <1>7, <1>8

LEMMA LatePutKeeps ==
  ASSUME PersistenceInv, LatePut
  PROVE  PersistenceInv'
<1> USE PersistenceAssumption, UpdatesCounted DEF PersistenceInv, store, cache,
    Generations, LatePut
<1>g. Generation' = Generation /\ Generation \in 0..Cardinality(Updates)
  BY GenerationType DEF Generation
<1>1. TypeOK'
  BY <1>g DEF Items, Snapshots, RefreshStates, WriterType, CloserType, TypeOK
<1>2. Stopped'
  BY <1>g DEF Stopped, NoTasks, NoWriter, NoCloser
<1>3. RefreshesCounted'
  BY <1>g DEF RefreshesCounted, Stopped, NoTasks, NoWriter, NoCloser
<1>4. WriterHolds'
  BY <1>g DEF WriterHolds, MemoryHolds, Stopped, NoWriter
<1>5. MemoryHolds'
  BY <1>g DEF MemoryHolds
<1>6. SchedulesAsked'
  BY <1>g DEF SchedulesAsked, RefreshesCounted, CloserHolds
<1>7. CloserHolds'
  BY <1>g DEF CloserHolds, RefreshesCounted, WriterHolds
<1>8. PersistedIsStored'
  BY <1>g DEF PersistedIsStored, Reflects, WriterHolds, Stopped, NoWriter
<1>9. QED
  BY <1>1, <1>2, <1>3, <1>4, <1>5, <1>6, <1>7, <1>8

LEMMA ExpiresKeeps ==
  ASSUME PersistenceInv, Expires
  PROVE  PersistenceInv'
<1> USE PersistenceAssumption, UpdatesCounted DEF PersistenceInv, store, cache,
    Generations, Expires
<1>g. Generation' = Generation /\ Generation \in 0..Cardinality(Updates)
  BY GenerationType DEF Generation
<1>1. TypeOK'
  BY <1>g DEF Items, Snapshots, RefreshStates, WriterType, CloserType, TypeOK
<1>2. Stopped'
  BY <1>g DEF Stopped, NoTasks, NoWriter, NoCloser
<1>3. RefreshesCounted'
  BY <1>g DEF RefreshesCounted, Stopped, NoTasks, NoWriter, NoCloser
<1>4. WriterHolds'
  BY <1>g DEF WriterHolds, MemoryHolds, Stopped, NoWriter
<1>5. MemoryHolds'
  BY <1>g DEF MemoryHolds
<1>6. SchedulesAsked'
  BY <1>g DEF SchedulesAsked, RefreshesCounted, CloserHolds
<1>7. CloserHolds'
  BY <1>g DEF CloserHolds, RefreshesCounted, WriterHolds
<1>8. PersistedIsStored'
  BY <1>g DEF PersistedIsStored, Reflects, WriterHolds, Stopped, NoWriter
<1>9. QED
  BY <1>1, <1>2, <1>3, <1>4, <1>5, <1>6, <1>7, <1>8
--------------------------------------------------------------------------------
LEMMA InitInv == Init => PersistenceInv
<1> SUFFICES ASSUME Init PROVE PersistenceInv
  OBVIOUS
<1> USE PersistenceAssumption, UpdatesCounted DEF Init
<1>1. Generation = 0
  BY NothingMerged
<1>2. TypeOK
  <2>1. 0 \in Generations /\ {} \in Snapshots
    BY DEF Generations, Snapshots
  <2>2. writer \in WriterType /\ closer \in CloserType
    BY <2>1 DEF WriterType, CloserType, NoWriter, NoCloser
  <2>3. merged \in [Updates -> Generations] /\ refresh \in [Updates -> RefreshStates]
    BY <2>1 DEF RefreshStates
  <2>4. tasks \in [closed : BOOLEAN, pending : SUBSET Updates] /\ faults \in 0..MaxFaults
    BY DEF NoTasks
  <2>5. QED
    BY <2>2, <2>3, <2>4 DEF TypeOK
<1>3. Stopped /\ RefreshesCounted
  BY DEF Stopped, RefreshesCounted, NoTasks, NoWriter, NoCloser
<1>4. WriterHolds /\ MemoryHolds
  BY <1>1 DEF WriterHolds, MemoryHolds, NoWriter
<1>5. SchedulesAsked /\ CloserHolds /\ PersistedIsStored
  BY DEF SchedulesAsked, CloserHolds, PersistedIsStored, NoWriter, NoCloser
<1>6. QED
  BY <1>2, <1>3, <1>4, <1>5 DEF PersistenceInv

LEMMA StepKeeps == PersistenceInv /\ [Next]_vars => PersistenceInv'
<1> SUFFICES ASSUME PersistenceInv, [Next]_vars PROVE PersistenceInv'
  OBVIOUS
<1>1. CASE UNCHANGED vars
  <2> USE <1>1 DEF PersistenceInv, vars, store, cache
  <2>1. TypeOK'
    BY DEF TypeOK
  <2>2. Generation' = Generation
    BY DEF Generation
  <2>3. Stopped' /\ RefreshesCounted' /\ SchedulesAsked'
    BY DEF Stopped, RefreshesCounted, SchedulesAsked
  <2>4. WriterHolds' /\ MemoryHolds' /\ CloserHolds'
    BY <2>2 DEF WriterHolds, MemoryHolds, CloserHolds
  <2>5. PersistedIsStored'
    BY DEF PersistedIsStored, Reflects
  <2>6. QED
    BY <2>1, <2>3, <2>4, <2>5
<1>2. ASSUME NEW u \in Updates, StartRefresh(u) \/ Refreshing(u)
      PROVE  PersistenceInv'
  BY <1>2, StartRefreshKeeps, FetchFailsKeeps, MergeKeeps, HoldWriterKeeps, ScheduleKeeps
    DEF Refreshing
<1>3. CASE Working
  BY <1>3, WakeKeeps, ExitWorkerKeeps, NothingPendingKeeps, TakeSnapshotKeeps,
    PutSucceedsKeeps, PutFailsKeeps DEF Working
<1>4. CASE CloseTasks \/ Deadline \/ Closing
  BY <1>4, CloseTasksKeeps, DeadlineKeeps, DrainedKeeps, CloseWriterKeeps, BeginFlushKeeps,
    EndFlushKeeps, ClosedKeeps DEF Closing
<1>5. CASE Start \/ Stop \/ LatePut \/ Expires
  BY <1>5, StartKeeps, StopKeeps, LatePutKeeps, ExpiresKeeps
<1>6. QED
  BY <1>1, <1>2, <1>3, <1>4, <1>5 DEF Next

LEMMA PersistenceInvariant == Spec => []PersistenceInv
  BY InitInv, StepKeeps, PTL DEF Spec

\* Every variable keeps its type; no generation exceeds the number of updates.
THEOREM TypeCorrect == Spec => []TypeOK
  BY PersistenceInvariant, PTL DEF PersistenceInv

\* The generation counted as persisted never runs ahead of the stored snapshot,
\* unless a write given up earlier has landed late.
THEOREM PersistedGenerationsAreStored == Spec => []PersistedIsStored
  BY PersistenceInvariant, PTL DEF PersistenceInv

\* A close without an error leaves nothing behind: the refreshes are over, the
\* writer has stopped, and all that was merged is stored, unless persistence is
\* disabled or a write given up earlier has landed late.
THEOREM CleanClosesStoreAll == Spec => []ClosedIsStored
<1>1. PersistenceInv => ClosedIsStored
  <2> SUFFICES ASSUME PersistenceInv, closer.pc = "closed", ~closer.error PROVE ClosedIsStored
    BY DEF ClosedIsStored
  <2> USE PersistenceAssumption, UpdatesCounted DEF PersistenceInv
  <2>1. tasks.pending = {} /\ writer.pc \in {"none", "exited"}
    BY DEF RefreshesCounted, CloserHolds
  <2>2. \A u \in Updates : merged[u] > 0 => refresh[u] = "done"
    BY <2>1 DEF RefreshesCounted
  <2> DEFINE news == {u \in Updates : merged[u] > 0}
             covered == {u \in Updates : merged[u] \in 1..writer.persisted}
  <2>3. ASSUME ~disabled, news # {}, ~raced PROVE Reflects(stored, news)
    <3>1. writer.pc # "none"
      BY <2>2, <2>3 DEF SchedulesAsked
    <3>2. writer.persisted >= writer.requested
      BY <3>1 DEF CloserHolds
    <3>3. \A u \in news : merged[u] \in Nat /\ merged[u] <= writer.requested
      BY <2>2, <2>3 DEF SchedulesAsked, TypeOK, Generations
    <3>4. writer.persisted \in Nat /\ writer.requested \in Nat
      BY DEF TypeOK, WriterType, Generations
    <3>5. news = covered
      BY <3>2, <3>3, <3>4 DEF TypeOK, Generations
    <3>6. QED
      BY <2>3, <3>5 DEF PersistedIsStored
  <2>4. QED
    BY <2>1, <2>3 DEF ClosedIsStored
<1>2. QED
  BY <1>1, PersistenceInvariant, PTL

\* A write replaces the stored snapshot only by one that has its unexpired
\* updates; a write that was given up and lands late is the exception.
THEOREM SnapshotsNeverShrink == Spec => SnapshotsGrow
<1> DEFINE Grows == stored' # stored /\ ~raced /\ ~raced' => \A s \in stored : Reflects(stored', s)
<1>1. PersistenceInv /\ [Next]_vars => Grows
  <2> SUFFICES ASSUME PersistenceInv, [Next]_vars, stored' # stored, ~raced, ~raced'
               PROVE  \A s \in stored : Reflects(stored', s)
    OBVIOUS
  <2>1. PutSucceeds
    BY DEF vars, store, cache, Next, Start, Stop, StartRefresh, Refreshing,
        FetchFails, Merge,
      HoldWriter, Schedule, Working, Wake, ExitWorker, NothingPending, TakeSnapshot,
      PutFails, CloseTasks, Deadline, Closing, Drained, CloseWriter, BeginFlush, EndFlush,
      Closed, CloserOnly, LatePut, Expires
  <2>2. stored' = {writer.snap} /\ \A s \in stored : s \subseteq writer.snap \union expired
    BY <2>1 DEF PutSucceeds, PersistenceInv, WriterHolds
  <2>3. QED
    BY <2>2 DEF Reflects
<1>2. QED
  BY <1>1, PersistenceInvariant, PTL DEF Spec, SnapshotsGrow
================================================================================
