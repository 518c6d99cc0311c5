---------------------------- MODULE ImageCacheProofs ----------------------------
(***************************************************************************)
(* Proofs about ImageCacheLifecycle, for every set of keys, writers,       *)
(* collectors and request keys, and every number of faults.  The inductive *)
(* invariant says which traces of a key can be around at the same time,    *)
(* and that what a transaction has read holds until it ends.               *)
(***************************************************************************)
EXTENDS ImageCacheLifecycle, TLAPS

\* The keys under way: a writer's key is its own, was never adopted and is not
\* the row's; a key that was never drawn has left no trace.
KeysApart ==
  /\ \A w \in Writers :
       /\ writer[w].pc = "idle" => writer[w].key = NoKey
       /\ writer[w].pc # "idle" =>
            /\ writer[w].key \in used \ unindexed /\ writer[w].key # entry
            /\ \A v \in Writers \ {w} : writer[v].key # writer[w].key
  /\ \A k \in Keys \ used :
       /\ k \notin objects /\ k \notin unindexed /\ k # entry /\ deletions[k] = "none"
       /\ <<"put", k>> \notin late /\ <<"delete", k>> \notin late
  /\ \A k \in unindexed : k \in objects \union lost /\ deletions[k] = "none" /\ k # entry

\* What a transaction has read still holds while it has the lock.
ReadsHold ==
  /\ \A w \in Writers :
       /\ writer[w].pc = "hit" => entry # NoKey
       /\ writer[w].pc \in {"put", "insert"} => entry = NoKey /\ deletions[writer[w].key] # "none"
       /\ writer[w].pc \in {"registered", "hit", "put"} =>
            writer[w].key \notin objects /\ <<"put", writer[w].key>> \notin late
       /\ writer[w].pc = "insert" => writer[w].key \in objects \union lost
  /\ \A g \in Collectors :
       /\ collector[g].pc \in {"delete", "retire"} => collector[g].key \in Keys
       /\ collector[g].pc = "delete" =>
            collector[g].key # entry /\ deletions[collector[g].key] = "due"

\* A deletion that was given up concerns a key that will never be a row's.
DoomedStay ==
  \A k \in Keys : <<"delete", k>> \in late =>
    /\ k # entry /\ k \notin unindexed /\ deletions[k] # "leased"
    /\ \A w \in Writers : writer[w].pc \in {"put", "insert"} => writer[w].key # k

\* A key that was sent is the row's, within its window, or was never recorded and
\* stays out of the collection's sight.
AnsweredCurrent ==
  \A k \in answered \ unnoticed : (k = entry /\ referenced) \/ k \in lost \/ k \in failed

\* A duplicate that was sent all the same can never be recorded again, and keeps
\* its object while its deletion is leased.
UnnoticedDoomed ==
  \A k \in unnoticed :
    /\ k \in used \ unindexed /\ k # entry
    /\ \A w \in Writers : writer[w].key # k
    /\ deletions[k] = "leased" => k \in objects \union lost

\* A key sent from a render row is that of the entry as long as the row is live.
ServedCurrent ==
  \A q \in RenderKeys : served[q] # NoKey =>
    (served[q] = entry /\ renders[q] = "live") \/ served[q] \in lost

LifecycleInv ==
  /\ TypeOK /\ KeysApart /\ ReadsHold /\ DoomedStay
  /\ IndexedObjectExists /\ ObjectsAccounted
  /\ AnsweredCurrent /\ UnnoticedDoomed /\ ServedCurrent

--------------------------------------------------------------------------------
LEMMA RegisterKeeps ==
  ASSUME LifecycleInv, NEW w \in Writers, Register(w)
  PROVE  LifecycleInv'
<1> USE LifecycleAssumption DEF LifecycleInv, TypeOK, DeletionStates, index, bucket,
    ghosts, adoption, sent
<1>a. PICK k \in Keys \ used :
        /\ used' = used \union {k}
        /\ deletions' = [deletions EXCEPT ![k] = "leased"]
        /\ \/ writer' = [writer EXCEPT ![w] = [pc |-> "registered", key |-> k]]
           \/ writer' = writer
  BY DEF Register, WriterMoves, SetDeletion, Fault
<1>b. \A v \in Writers : writer'[v] = writer[v] \/ (v = w /\ writer'[v] = [pc |-> "registered", key |-> k])
  BY <1>a DEF StateOK
<1>c. /\ \A v \in Writers : writer[v].key # k
      /\ k \notin objects /\ k \notin unindexed /\ k # entry
      /\ <<"put", k>> \notin late /\ <<"delete", k>> \notin late
  BY DEF KeysApart, StateOK
<1>d. /\ deletions' \in [Keys -> DeletionStates] /\ deletions'[k] = "leased" /\ deletions[k] = "none"
      /\ \A j \in Keys \ {k} : deletions'[j] = deletions[j]
  BY <1>a DEF StateOK, KeysApart
<1>e. \A g \in Collectors : collector[g].pc = "delete" => collector[g].key # k
  BY <1>d DEF ReadsHold
<1>f. UNCHANGED <<index, bucket, lock, collector, adoption, sent>>
  BY DEF Register
<1>1. StateOK'
  BY DEF Register, WriterMoves, SetDeletion, Fault, StateOK, WriterType,
      CollectorType
<1>2. LockHeld'
  BY DEF Register, WriterMoves, SetDeletion, Fault, LockHeld, InTransaction,
      StateOK, WriterType, CollectorType
<1>3. KeysApart'
  BY <1>a, <1>b, <1>c, <1>d, <1>f DEF KeysApart
<1>4. ReadsHold'
  BY <1>a, <1>b, <1>c, <1>d, <1>e, <1>f DEF ReadsHold
<1>5. DoomedStay'
  BY <1>a, <1>b, <1>c, <1>d, <1>f DEF DoomedStay
<1>6. IndexedObjectExists'
  BY DEF Register, WriterMoves, SetDeletion, Fault, IndexedObjectExists
<1>7. ObjectsAccounted'
  BY DEF Register, WriterMoves, SetDeletion, Fault, ObjectsAccounted
<1>8. AnsweredCurrent'
  BY DEF Register, WriterMoves, SetDeletion, Fault, AnsweredCurrent
<1>9. UnnoticedDoomed'
  BY <1>a, <1>b, <1>c, <1>d, <1>f DEF UnnoticedDoomed, StateOK
<1>10. ServedCurrent'
  BY DEF Register, WriterMoves, SetDeletion, Fault, ServedCurrent
<1>11. QED
  BY <1>1, <1>2, <1>3, <1>4, <1>5, <1>6, <1>7, <1>8, <1>9, <1>10

LEMMA BeginStoreKeeps ==
  ASSUME LifecycleInv, NEW w \in Writers, BeginStore(w)
  PROVE  LifecycleInv'
<1> USE LifecycleAssumption DEF LifecycleInv, TypeOK, DeletionStates, index, bucket,
    ghosts, adoption, sent
<1> USE DEF BeginStore, WriterMoves, Rollback, LockFree, VerifyUpload
<1>1. StateOK'
  BY DEF StateOK, WriterType, CollectorType
<1>2. LockHeld'
  BY DEF LockHeld, InTransaction, StateOK, WriterType, CollectorType
<1>3. KeysApart'
  BY DEF KeysApart, StateOK
<1>4. ReadsHold'
  BY DEF ReadsHold, StateOK
<1>5. DoomedStay'
  BY DEF DoomedStay, StateOK
<1>6. IndexedObjectExists'
  BY DEF IndexedObjectExists
<1>7. ObjectsAccounted'
  BY DEF ObjectsAccounted
<1>8. AnsweredCurrent'
  BY DEF AnsweredCurrent
<1>9. UnnoticedDoomed'
  BY DEF UnnoticedDoomed, StateOK
<1>10. ServedCurrent'
  BY DEF ServedCurrent
<1>11. QED
  BY <1>1, <1>2, <1>3, <1>4, <1>5, <1>6, <1>7, <1>8, <1>9, <1>10

LEMMA PutObjectKeeps ==
  ASSUME LifecycleInv, NEW w \in Writers, PutObject(w)
  PROVE  LifecycleInv'
<1> USE LifecycleAssumption DEF LifecycleInv, TypeOK, DeletionStates, index, bucket,
    ghosts, adoption, sent
<1>a. writer[w] \in WriterType /\ writer[w].key \in Keys
  BY DEF StateOK, KeysApart, PutObject
<1>b. PICK x \in WriterType : writer' = [writer EXCEPT ![w] = x]
  BY <1>a DEF PutObject, WriterMoves, Rollback, WriterType
<1>c. objects' \subseteq Keys /\ late' \subseteq {"put", "delete"} \X Keys
  BY <1>a DEF PutObject, StateOK
<1>d. lock' \in Writers \union Collectors \union {Nobody} /\ faults' \in 0..MaxFaults
  BY DEF PutObject, Rollback, Fault, StateOK
<1>e. UNCHANGED <<index, deletions, collector, ghosts, lost>>
  BY DEF PutObject
<1>f. /\ objects' \in {objects, objects \union {writer[w].key}}
      /\ late' \in {late, late \union {<<"put", writer[w].key>>}}
      /\ writer' \in {[writer EXCEPT ![w] = [pc |-> "insert", key |-> writer[w].key]],
                     [writer EXCEPT ![w] = [pc |-> "idle", key |-> NoKey]]}
  BY DEF PutObject, WriterMoves, Rollback
<1>g. writer[w].pc # "idle"
  BY DEF PutObject
<1>1. StateOK'
  BY <1>a, <1>b, <1>c, <1>d, <1>e DEF StateOK
<1>2. LockHeld'
  BY DEF PutObject, WriterMoves, Rollback, Fault, LockHeld, InTransaction, StateOK,
      WriterType, CollectorType
<1>3. KeysApart'
  BY <1>e, <1>f, <1>g DEF KeysApart, StateOK
<1>4. ReadsHold'
  BY DEF PutObject, WriterMoves, Rollback, Fault, ReadsHold, KeysApart, StateOK
<1>5. DoomedStay'
  BY DEF PutObject, WriterMoves, Rollback, Fault, DoomedStay, StateOK
<1>6. IndexedObjectExists'
  BY DEF PutObject, WriterMoves, Rollback, Fault, IndexedObjectExists
<1>7. ObjectsAccounted'
  BY ZenonT(40) DEF PutObject, WriterMoves, Rollback, Fault, ObjectsAccounted, StateOK,
      KeysApart, ReadsHold, LockHeld, InTransaction, WriterType, CollectorType
<1>8. AnsweredCurrent'
  BY DEF PutObject, WriterMoves, Rollback, Fault, AnsweredCurrent
<1>9. UnnoticedDoomed'
  BY <1>e, <1>f DEF UnnoticedDoomed, StateOK
<1>10. ServedCurrent'
  BY DEF PutObject, WriterMoves, Rollback, Fault, ServedCurrent
<1>11. QED
  BY <1>1, <1>2, <1>3, <1>4, <1>5, <1>6, <1>7, <1>8, <1>9, <1>10

LEMMA CommitStoreKeeps ==
  ASSUME LifecycleInv, NEW w \in Writers, CommitStore(w)
  PROVE  LifecycleInv'
<1> USE LifecycleAssumption DEF LifecycleInv, TypeOK, DeletionStates, index, bucket,
    ghosts, adoption, sent
<1>a. writer[w].key \in Keys /\ writer[w] \in WriterType
  BY DEF StateOK, KeysApart, CommitStore
<1>b. /\ writer[w].pc = "hit" => entry # NoKey /\ entry' = entry
      /\ writer[w].pc = "insert" => entry = NoKey /\ entry' = writer[w].key
      /\ writer[w].pc \in {"hit", "insert"} /\ referenced' = TRUE
      /\ entry' \in Keys
      /\ answered' = answered \/ answered' = answered \union {entry'}
  BY <1>a DEF CommitStore, ReadsHold, StateOK
<1>c. /\ deletions' = [deletions EXCEPT ![writer[w].key] = "none"]
      /\ deletions' \in [Keys -> DeletionStates]
      /\ \A k \in Keys \ {writer[w].key} : deletions'[k] = deletions[k]
  BY <1>a DEF CommitStore, SetDeletion, StateOK
<1>d. /\ writer' = [writer EXCEPT ![w] = [pc |-> "idle", key |-> NoKey]] /\ lock' = Nobody
      /\ faults' \in 0..MaxFaults
      /\ UNCHANGED <<renders, bucket, collector, used, adoption, unnoticed, served>>
  BY DEF CommitStore, Rollback, WriterMoves, Fault, StateOK
<1>e. writer' \in [Writers -> WriterType]
  <2>1. [pc |-> "idle", key |-> NoKey] \in WriterType
    BY DEF WriterType
  <2>2. QED
    BY <1>d, <2>1 DEF StateOK
<1>f. /\ writer[w].pc = "hit" => writer[w].key \notin objects
      /\ writer[w].pc = "insert" => writer[w].key \in objects \union lost
  BY DEF ReadsHold
<1>1. StateOK'
  BY <1>a, <1>b, <1>c, <1>d, <1>e DEF StateOK
<1>2. LockHeld'
  BY DEF CommitStore, WriterMoves, Rollback, SetDeletion, Fault, LockHeld,
      InTransaction, StateOK, WriterType, CollectorType
<1>3. KeysApart'
  BY DEF CommitStore, WriterMoves, Rollback, SetDeletion, Fault, KeysApart, StateOK
<1>4. ReadsHold'
  BY DEF CommitStore, WriterMoves, Rollback, SetDeletion, Fault, ReadsHold, StateOK,
      LockHeld, InTransaction, KeysApart, DoomedStay, WriterType, CollectorType
<1>5. DoomedStay'
  BY DEF CommitStore, WriterMoves, Rollback, SetDeletion, Fault, DoomedStay
<1>6. IndexedObjectExists'
  BY DEF CommitStore, WriterMoves, Rollback, SetDeletion, Fault,
      IndexedObjectExists, ReadsHold, StateOK
<1>7. ObjectsAccounted'
  BY <1>a, <1>b, <1>c, <1>d, <1>f DEF ObjectsAccounted, KeysApart, StateOK
<1>8. AnsweredCurrent'
  BY <1>a, <1>b, <1>d DEF AnsweredCurrent, IndexedObjectExists, StateOK
<1>9. UnnoticedDoomed'
  BY <1>a, <1>b, <1>c, <1>d DEF UnnoticedDoomed, StateOK
<1>10. ServedCurrent'
  BY <1>a, <1>b, <1>d DEF ServedCurrent, IndexedObjectExists, StateOK
<1>11. QED
  BY <1>1, <1>2, <1>3, <1>4, <1>5, <1>6, <1>7, <1>8, <1>9, <1>10

LEMMA AbandonStoreKeeps ==
  ASSUME LifecycleInv, NEW w \in Writers, AbandonStore(w)
  PROVE  LifecycleInv'
<1> USE LifecycleAssumption DEF LifecycleInv, TypeOK, DeletionStates, index, bucket,
    ghosts, adoption, sent
<1> USE DEF AbandonStore, WriterMoves, Fault
<1>1. StateOK'
  BY DEF StateOK, WriterType, CollectorType
<1>2. LockHeld'
  BY DEF LockHeld, InTransaction, StateOK, WriterType, CollectorType
<1>3. KeysApart'
  BY DEF KeysApart, StateOK
<1>4. ReadsHold'
  BY DEF ReadsHold
<1>5. DoomedStay'
  BY DEF DoomedStay
<1>6. IndexedObjectExists'
  BY DEF IndexedObjectExists
<1>7. ObjectsAccounted'
  BY DEF ObjectsAccounted
<1>8. AnsweredCurrent'
  BY DEF AnsweredCurrent
<1>9. UnnoticedDoomed'
  BY DEF UnnoticedDoomed, StateOK
<1>10. ServedCurrent'
  BY DEF ServedCurrent
<1>11. QED
  BY <1>1, <1>2, <1>3, <1>4, <1>5, <1>6, <1>7, <1>8, <1>9, <1>10

LEMMA StartCycleKeeps ==
  ASSUME LifecycleInv, NEW g \in Collectors, StartCycle(g)
  PROVE  LifecycleInv'
<1> USE LifecycleAssumption DEF LifecycleInv, TypeOK, DeletionStates, index, bucket,
    ghosts, adoption, sent
<1> USE DEF StartCycle, CollectorMoves, IdleCollector
<1>1. StateOK'
  BY DEF StateOK, WriterType, CollectorType
<1>2. LockHeld'
  BY DEF LockHeld, InTransaction
<1>3. KeysApart'
  BY DEF KeysApart
<1>4. ReadsHold'
  BY DEF ReadsHold
<1>5. DoomedStay'
  BY DEF DoomedStay
<1>6. IndexedObjectExists'
  BY DEF IndexedObjectExists
<1>7. ObjectsAccounted'
  BY DEF ObjectsAccounted
<1>8. AnsweredCurrent'
  BY DEF AnsweredCurrent
<1>9. UnnoticedDoomed'
  BY DEF UnnoticedDoomed
<1>10. ServedCurrent'
  BY DEF ServedCurrent
<1>11. QED
  BY <1>1, <1>2, <1>3, <1>4, <1>5, <1>6, <1>7, <1>8, <1>9, <1>10

LEMMA BeginDeleteKeeps ==
  ASSUME LifecycleInv, NEW g \in Collectors, BeginDelete(g)
  PROVE  LifecycleInv'
<1> USE LifecycleAssumption DEF LifecycleInv, TypeOK, DeletionStates, index, bucket,
    ghosts, adoption, sent
<1> DEFINE c(k) == [collector[g] EXCEPT !.list = @ \ {k}]
           d(k) == [c(k) EXCEPT !.pc = "delete", !.key = k]
<1>a. collector[g] \in CollectorType /\ collector[g].pc = "pending" /\ lock = Nobody
  BY DEF StateOK, BeginDelete, LockFree
<1>b. PICK k \in collector[g].list :
        \/ collector' = [collector EXCEPT ![g] = c(k)] /\ lock' = lock
           /\ (deletions' = deletions \/ (k = entry /\ deletions' = [deletions EXCEPT ![k] = "none"]))
        \/ /\ deletions[k] = "due" /\ k # entry /\ deletions' = deletions
           /\ collector' = [collector EXCEPT ![g] = d(k)]
           /\ lock' = g
  BY DEF BeginDelete, CollectorMoves, SetDeletion, Recorded
<1>c. k \in Keys
  BY <1>a DEF CollectorType
<1>d. /\ c(k) \in CollectorType /\ c(k).pc = "pending"
      /\ d(k) \in CollectorType /\ d(k).pc = "delete" /\ d(k).key = k
  BY <1>a, <1>c DEF CollectorType
<1> HIDE DEF c, d
<1>e. /\ collector' \in [Collectors -> CollectorType]
      /\ \A h \in Collectors \ {g} : collector'[h] = collector[h]
      /\ \/ collector'[g].pc = "pending" /\ lock' = lock
            /\ (deletions' = deletions \/ (k = entry /\ deletions' = [deletions EXCEPT ![k] = "none"]))
         \/ /\ deletions[k] = "due" /\ k # entry /\ deletions' = deletions
            /\ collector'[g].pc = "delete" /\ collector'[g].key = k /\ lock' = g
  BY <1>b, <1>d DEF StateOK
<1>f. UNCHANGED <<index, bucket, writer, ghosts, faults>>
  BY DEF BeginDelete
<1>1. StateOK'
  BY <1>c, <1>e, <1>f DEF StateOK
<1>2. LockHeld'
  BY <1>a, <1>e, <1>f DEF LockHeld, InTransaction
<1>3. KeysApart'
  BY DEF BeginDelete, CollectorMoves, SetDeletion, Recorded, LockFree, KeysApart,
      StateOK
<1>4. ReadsHold'
  BY <1>a, <1>c, <1>e, <1>f DEF ReadsHold, StateOK
<1>5. DoomedStay'
  BY DEF BeginDelete, CollectorMoves, SetDeletion, Recorded, LockFree, DoomedStay,
      StateOK
<1>6. IndexedObjectExists'
  BY DEF BeginDelete, CollectorMoves, SetDeletion, Recorded, LockFree,
      IndexedObjectExists
<1>7. ObjectsAccounted'
  BY DEF BeginDelete, CollectorMoves, SetDeletion, Recorded, LockFree,
      ObjectsAccounted, KeysApart, StateOK
<1>8. AnsweredCurrent'
  BY DEF BeginDelete, CollectorMoves, SetDeletion, Recorded, LockFree,
      AnsweredCurrent
<1>9. UnnoticedDoomed'
  BY <1>c, <1>e, <1>f DEF UnnoticedDoomed, StateOK
<1>10. ServedCurrent'
  BY DEF BeginDelete, CollectorMoves, SetDeletion, Recorded, LockFree,
      ServedCurrent
<1>11. QED
  BY <1>1, <1>2, <1>3, <1>4, <1>5, <1>6, <1>7, <1>8, <1>9, <1>10

LEMMA DeleteObjectKeeps ==
  ASSUME LifecycleInv, NEW g \in Collectors, DeleteObject(g)
  PROVE  LifecycleInv'
<1> USE LifecycleAssumption DEF LifecycleInv, TypeOK, DeletionStates, index, bucket,
    ghosts, adoption, sent
<1>a. collector[g] \in CollectorType /\ collector[g].key \in Keys
  BY DEF StateOK, ReadsHold, DeleteObject
<1>b. [collector[g] EXCEPT !.pc = "pending", !.key = NoKey] \in CollectorType
  BY <1>a DEF CollectorType
<1>c. collector' \in [Collectors -> CollectorType]
  BY <1>b DEF DeleteObject, CollectorMoves, StateOK
<1>d. deletions' \in [Keys -> DeletionStates]
  BY <1>a DEF DeleteObject, SetDeletion, Retried, DeletionStates, StateOK
<1>e. late' \subseteq {"put", "delete"} \X Keys /\ objects' \subseteq Keys /\ faults' \in 0..MaxFaults
  BY <1>a DEF DeleteObject, Fault, StateOK
<1>f. lock' = Nobody /\ UNCHANGED <<index, lost, writer, ghosts>>
  BY DEF DeleteObject
<1>1. StateOK'
  BY <1>c, <1>d, <1>e, <1>f DEF StateOK
<1>2. LockHeld'
  BY DEF DeleteObject, CollectorMoves, SetDeletion, Retried, Fault, LockHeld,
      InTransaction, StateOK, WriterType, CollectorType
<1>3. KeysApart'
  BY DEF DeleteObject, CollectorMoves, SetDeletion, Retried, Fault, KeysApart,
      StateOK, LockHeld, InTransaction, ReadsHold, WriterType, CollectorType
<1>4. ReadsHold'
  BY DEF DeleteObject, CollectorMoves, SetDeletion, Retried, Fault, ReadsHold,
      StateOK, LockHeld, InTransaction, KeysApart, DoomedStay, WriterType,
      CollectorType
<1>5. DoomedStay'
  BY DEF DeleteObject, CollectorMoves, SetDeletion, Retried, Fault, DoomedStay,
      StateOK, LockHeld, InTransaction, KeysApart, ReadsHold, WriterType,
      CollectorType
<1>6. IndexedObjectExists'
  BY DEF DeleteObject, CollectorMoves, SetDeletion, Retried, Fault,
      IndexedObjectExists, ReadsHold, StateOK
<1>7. ObjectsAccounted'
  BY DEF DeleteObject, CollectorMoves, SetDeletion, Retried, Fault,
      ObjectsAccounted, KeysApart, StateOK
<1>8. AnsweredCurrent'
  BY DEF DeleteObject, CollectorMoves, SetDeletion, Retried, Fault, AnsweredCurrent
<1>9. UnnoticedDoomed'
  BY DEF DeleteObject, CollectorMoves, SetDeletion, Retried, Fault, UnnoticedDoomed,
      ReadsHold, StateOK
<1>10. ServedCurrent'
  BY DEF DeleteObject, CollectorMoves, SetDeletion, Retried, Fault, ServedCurrent
<1>11. QED
  BY <1>1, <1>2, <1>3, <1>4, <1>5, <1>6, <1>7, <1>8, <1>9, <1>10

LEMMA ListRowsKeeps ==
  ASSUME LifecycleInv, NEW g \in Collectors, ListRows(g)
  PROVE  LifecycleInv'
<1> USE LifecycleAssumption DEF LifecycleInv, TypeOK, DeletionStates, index, bucket,
    ghosts, adoption, sent
<1>a. collector[g] \in CollectorType
  BY DEF StateOK
<1>b. /\ IdleCollector \in CollectorType
      /\ [Step(g, "rows") EXCEPT !.rows = {q \in RenderKeys : renders[q] = "expired"}] \in CollectorType
  BY <1>a DEF Step, IdleCollector, CollectorType
<1>c. collector' \in [Collectors -> CollectorType]
  BY <1>b DEF ListRows, CollectorMoves, StateOK
<1>d. UNCHANGED <<index, deletions, bucket, lock, writer, ghosts, faults>>
  BY DEF ListRows
<1>1. StateOK'
  BY <1>c, <1>d DEF StateOK
<1>2. LockHeld'
  BY DEF ListRows, CollectorMoves, Step, IdleCollector, LockHeld, InTransaction
<1>3. KeysApart'
  BY DEF ListRows, CollectorMoves, Step, IdleCollector, KeysApart
<1>4. ReadsHold'
  BY DEF ListRows, CollectorMoves, Step, IdleCollector, ReadsHold
<1>5. DoomedStay'
  BY DEF ListRows, CollectorMoves, Step, IdleCollector, DoomedStay
<1>6. IndexedObjectExists'
  BY DEF ListRows, CollectorMoves, Step, IdleCollector, IndexedObjectExists
<1>7. ObjectsAccounted'
  BY DEF ListRows, CollectorMoves, Step, IdleCollector, ObjectsAccounted
<1>8. AnsweredCurrent'
  BY DEF ListRows, CollectorMoves, Step, IdleCollector, AnsweredCurrent
<1>9. UnnoticedDoomed'
  BY DEF ListRows, CollectorMoves, Step, IdleCollector, UnnoticedDoomed
<1>10. ServedCurrent'
  BY DEF ListRows, CollectorMoves, Step, IdleCollector, ServedCurrent
<1>11. QED
  BY <1>1, <1>2, <1>3, <1>4, <1>5, <1>6, <1>7, <1>8, <1>9, <1>10

LEMMA DropRowsKeeps ==
  ASSUME LifecycleInv, NEW g \in Collectors, DropRows(g)
  PROVE  LifecycleInv'
<1> USE LifecycleAssumption DEF LifecycleInv, TypeOK, DeletionStates, index, bucket,
    ghosts, adoption, sent
<1>a. collector[g] \in CollectorType
  BY DEF StateOK
<1>b. /\ [Step(g, "entries") EXCEPT !.rows = {}] \in CollectorType
  BY <1>a DEF Step, IdleCollector, CollectorType
<1>c. collector' \in [Collectors -> CollectorType]
  BY <1>b DEF DropRows, CollectorMoves, StateOK
<1>d. UNCHANGED <<entry, referenced, deletions, bucket, lock, writer, ghosts, faults>>
  BY DEF DropRows
<1>e. renders' \in [RenderKeys -> {"none", "live", "expired"}]
  BY DEF DropRows, StateOK
<1>1. StateOK'
  BY <1>c, <1>d, <1>e DEF StateOK
<1>2. LockHeld'
  BY DEF DropRows, CollectorMoves, Step, LockHeld, InTransaction
<1>3. KeysApart'
  BY DEF DropRows, CollectorMoves, Step, KeysApart
<1>4. ReadsHold'
  BY DEF DropRows, CollectorMoves, Step, ReadsHold
<1>5. DoomedStay'
  BY DEF DropRows, CollectorMoves, Step, DoomedStay
<1>6. IndexedObjectExists'
  BY DEF DropRows, CollectorMoves, Step, IndexedObjectExists
<1>7. ObjectsAccounted'
  BY DEF DropRows, CollectorMoves, Step, ObjectsAccounted
<1>8. AnsweredCurrent'
  BY DEF DropRows, CollectorMoves, Step, AnsweredCurrent
<1>9. UnnoticedDoomed'
  BY DEF DropRows, CollectorMoves, Step, UnnoticedDoomed
<1>10. ServedCurrent'
  BY DEF DropRows, CollectorMoves, Step, StillExpired, ServedCurrent, StateOK
<1>11. QED
  BY <1>1, <1>2, <1>3, <1>4, <1>5, <1>6, <1>7, <1>8, <1>9, <1>10

LEMMA ListEntriesKeeps ==
  ASSUME LifecycleInv, NEW g \in Collectors, ListEntries(g)
  PROVE  LifecycleInv'
<1> USE LifecycleAssumption DEF LifecycleInv, TypeOK, DeletionStates, index, bucket,
    ghosts, adoption, sent
<1>a. collector[g] \in CollectorType
  BY DEF StateOK
<1>b. /\ IdleCollector \in CollectorType
      /\ [Step(g, "retire") EXCEPT !.key = entry] \in CollectorType
  BY <1>a DEF Step, IdleCollector, CollectorType, StateOK
<1>c. collector' \in [Collectors -> CollectorType]
  BY <1>b DEF ListEntries, CollectorMoves, StateOK
<1>d. UNCHANGED <<index, deletions, bucket, lock, writer, ghosts, faults>>
  BY DEF ListEntries
<1>1. StateOK'
  BY <1>c, <1>d DEF StateOK
<1>2. LockHeld'
  BY DEF ListEntries, CollectorMoves, Step, IdleCollector, Unreferenced, LockHeld,
      InTransaction
<1>3. KeysApart'
  BY DEF ListEntries, CollectorMoves, Step, IdleCollector, Unreferenced, KeysApart
<1>4. ReadsHold'
  BY DEF ListEntries, CollectorMoves, Step, IdleCollector, Unreferenced, ReadsHold,
      StateOK
<1>5. DoomedStay'
  BY DEF ListEntries, CollectorMoves, Step, IdleCollector, Unreferenced, DoomedStay
<1>6. IndexedObjectExists'
  BY DEF ListEntries, CollectorMoves, Step, IdleCollector, Unreferenced,
      IndexedObjectExists
<1>7. ObjectsAccounted'
  BY DEF ListEntries, CollectorMoves, Step, IdleCollector, Unreferenced,
      ObjectsAccounted
<1>8. AnsweredCurrent'
  BY DEF ListEntries, CollectorMoves, Step, IdleCollector, Unreferenced,
      AnsweredCurrent
<1>9. UnnoticedDoomed'
  BY DEF ListEntries, CollectorMoves, Step, IdleCollector, Unreferenced,
      UnnoticedDoomed
<1>10. ServedCurrent'
  BY DEF ListEntries, CollectorMoves, Step, IdleCollector, Unreferenced,
      ServedCurrent
<1>11. QED
  BY <1>1, <1>2, <1>3, <1>4, <1>5, <1>6, <1>7, <1>8, <1>9, <1>10

LEMMA RetireObjectKeeps ==
  ASSUME LifecycleInv, NEW g \in Collectors, RetireObject(g)
  PROVE  LifecycleInv'
<1> USE LifecycleAssumption DEF LifecycleInv, TypeOK, DeletionStates, index, bucket,
    ghosts, adoption, sent
<1> DEFINE k == collector[g].key
           final == [IdleCollector EXCEPT !.pc = "pending", !.list = {k}, !.final = TRUE]
<1>a. k \in Keys /\ collector[g].pc = "retire" /\ lock = Nobody
  BY DEF RetireObject, ReadsHold, LockFree
<1>b. /\ final \in CollectorType /\ final.pc = "pending"
      /\ IdleCollector \in CollectorType /\ IdleCollector.pc = "idle"
  BY <1>a DEF CollectorType, IdleCollector
<1>d. \/ /\ entry = k /\ ~referenced /\ entry' = NoKey
         /\ deletions' = [deletions EXCEPT ![k] = IF @ = "none" THEN "due" ELSE @]
         /\ collector' = [collector EXCEPT ![g] = final]
      \/ UNCHANGED <<entry, deletions>> /\ collector' = [collector EXCEPT ![g] = IdleCollector]
  BY DEF RetireObject, CollectorMoves, Orphan
<1> HIDE DEF final
<1>e. UNCHANGED <<referenced, renders, bucket, lock, writer, ghosts, faults>>
  BY DEF RetireObject
<1>f. /\ collector' \in [Collectors -> CollectorType]
      /\ \A h \in Collectors \ {g} : collector'[h] = collector[h]
      /\ collector'[g].pc \in {"idle", "pending"}
  BY <1>b, <1>d DEF StateOK
<1>g. /\ deletions' \in [Keys -> DeletionStates]
      /\ \A j \in Keys : deletions'[j] = deletions[j] \/ (j = entry /\ deletions[j] = "none" /\ deletions'[j] = "due")
      /\ entry' \in {entry, NoKey}
  BY <1>a, <1>d DEF StateOK, DeletionStates
<1>1. StateOK'
  BY <1>e, <1>f, <1>g DEF StateOK
<1>2. LockHeld'
  BY <1>a, <1>e, <1>f DEF LockHeld, InTransaction
<1>3. KeysApart'
  BY DEF RetireObject, CollectorMoves, Orphan, Unreferenced, IdleCollector,
      LockFree, KeysApart, StateOK
<1>4. ReadsHold'
  BY <1>a, <1>e, <1>f, <1>g DEF ReadsHold, StateOK, LockHeld, InTransaction,
      KeysApart, DoomedStay
<1>5. DoomedStay'
  BY DEF RetireObject, CollectorMoves, Orphan, Unreferenced, IdleCollector,
      LockFree, DoomedStay, StateOK
<1>6. IndexedObjectExists'
  BY DEF RetireObject, CollectorMoves, Orphan, Unreferenced, IdleCollector,
      LockFree, IndexedObjectExists
<1>7. ObjectsAccounted'
  BY DEF RetireObject, CollectorMoves, Orphan, Unreferenced, IdleCollector,
      LockFree, ObjectsAccounted, KeysApart, StateOK
<1>8. AnsweredCurrent'
  BY DEF RetireObject, CollectorMoves, Orphan, Unreferenced, IdleCollector,
      LockFree, AnsweredCurrent
<1>9. UnnoticedDoomed'
  BY <1>e, <1>g DEF UnnoticedDoomed, StateOK
<1>10. ServedCurrent'
  BY DEF RetireObject, CollectorMoves, Orphan, Unreferenced, IdleCollector,
      LockFree, ServedCurrent, StateOK
<1>11. QED
  BY <1>1, <1>2, <1>3, <1>4, <1>5, <1>6, <1>7, <1>8, <1>9, <1>10

LEMMA AbandonCycleKeeps ==
  ASSUME LifecycleInv, NEW g \in Collectors, AbandonCycle(g)
  PROVE  LifecycleInv'
<1> USE LifecycleAssumption DEF LifecycleInv, TypeOK, DeletionStates, index, bucket,
    ghosts, adoption, sent
<1> USE DEF AbandonCycle, CollectorMoves, IdleCollector, Fault
<1>1. StateOK'
  BY DEF StateOK, WriterType, CollectorType
<1>2. LockHeld'
  BY DEF LockHeld, InTransaction, StateOK, WriterType, CollectorType
<1>3. KeysApart'
  BY DEF KeysApart
<1>4. ReadsHold'
  BY DEF ReadsHold
<1>5. DoomedStay'
  BY DEF DoomedStay
<1>6. IndexedObjectExists'
  BY DEF IndexedObjectExists
<1>7. ObjectsAccounted'
  BY DEF ObjectsAccounted
<1>8. AnsweredCurrent'
  BY DEF AnsweredCurrent
<1>9. UnnoticedDoomed'
  BY DEF UnnoticedDoomed
<1>10. ServedCurrent'
  BY DEF ServedCurrent
<1>11. QED
  BY <1>1, <1>2, <1>3, <1>4, <1>5, <1>6, <1>7, <1>8, <1>9, <1>10

LEMMA DrawingUploadsKeeps ==
  ASSUME LifecycleInv, DrawingUploads
  PROVE  LifecycleInv'
<1> USE LifecycleAssumption DEF LifecycleInv, TypeOK, DeletionStates, index, bucket,
    ghosts, adoption, sent
<1>a. PICK k \in Keys \ used :
        used' = used \union {k} /\ unindexed' = unindexed \union {k} /\ objects' = objects \union {k}
  BY DEF DrawingUploads
<1>b. UNCHANGED <<entry, deletions, late, lost, writer>>
  BY DEF DrawingUploads, index
<1>c. k # entry /\ deletions[k] = "none"
  BY DEF KeysApart
<1>d. \A w \in Writers : writer[w].key # k
  BY DEF KeysApart
<1>1. StateOK'
  BY DEF DrawingUploads, StateOK, WriterType, CollectorType
<1>2. LockHeld'
  BY DEF DrawingUploads, LockHeld, InTransaction
<1>3. KeysApart'
  BY <1>a, <1>b, <1>c, <1>d DEF DrawingUploads, KeysApart
<1>4. ReadsHold'
  BY DEF DrawingUploads, ReadsHold, KeysApart, StateOK
<1>5. DoomedStay'
  BY DEF DrawingUploads, DoomedStay, KeysApart, StateOK
<1>6. IndexedObjectExists'
  BY DEF DrawingUploads, IndexedObjectExists
<1>7. ObjectsAccounted'
  BY DEF DrawingUploads, ObjectsAccounted
<1>8. AnsweredCurrent'
  BY DEF DrawingUploads, AnsweredCurrent
<1>9. UnnoticedDoomed'
  BY <1>a, <1>b DEF DrawingUploads, UnnoticedDoomed, StateOK
<1>10. ServedCurrent'
  BY DEF DrawingUploads, ServedCurrent
<1>11. QED
  BY <1>1, <1>2, <1>3, <1>4, <1>5, <1>6, <1>7, <1>8, <1>9, <1>10

LEMMA ReconcileKeeps ==
  ASSUME LifecycleInv, Reconcile
  PROVE  LifecycleInv'
<1> USE LifecycleAssumption DEF LifecycleInv, TypeOK, DeletionStates, index, bucket,
    ghosts, adoption, sent
<1> USE DEF Reconcile, LockFree
<1>1. StateOK'
  BY DEF StateOK, WriterType, CollectorType
<1>2. LockHeld'
  BY DEF LockHeld, InTransaction
<1>3. KeysApart'
  BY DEF KeysApart, StateOK
<1>4. ReadsHold'
  BY DEF ReadsHold, StateOK, LockHeld, InTransaction, KeysApart, DoomedStay,
      WriterType, CollectorType
<1>5. DoomedStay'
  BY DEF DoomedStay
<1>6. IndexedObjectExists'
  BY DEF IndexedObjectExists
<1>7. ObjectsAccounted'
  BY DEF ObjectsAccounted
<1>8. AnsweredCurrent'
  BY DEF AnsweredCurrent, IndexedObjectExists, StateOK
<1>9. UnnoticedDoomed'
  BY DEF UnnoticedDoomed, IndexedObjectExists, StateOK
<1>10. ServedCurrent'
  BY DEF ServedCurrent, IndexedObjectExists, StateOK
<1>11. QED
  BY <1>1, <1>2, <1>3, <1>4, <1>5, <1>6, <1>7, <1>8, <1>9, <1>10

LEMMA AgesKeeps ==
  ASSUME LifecycleInv, Ages
  PROVE  LifecycleInv'
<1> USE LifecycleAssumption DEF LifecycleInv, TypeOK, DeletionStates, index, bucket,
    ghosts, adoption, sent
<1> USE DEF Ages
<1>1. StateOK'
  BY DEF StateOK, WriterType, CollectorType
<1>2. LockHeld'
  BY DEF LockHeld, InTransaction
<1>3. KeysApart'
  BY DEF KeysApart
<1>4. ReadsHold'
  BY DEF ReadsHold
<1>5. DoomedStay'
  BY DEF DoomedStay
<1>6. IndexedObjectExists'
  BY DEF IndexedObjectExists
<1>7. ObjectsAccounted'
  BY DEF ObjectsAccounted
<1>8. AnsweredCurrent'
  BY DEF AnsweredCurrent
<1>9. UnnoticedDoomed'
  BY DEF UnnoticedDoomed
<1>10. ServedCurrent'
  BY DEF ServedCurrent
<1>11. QED
  BY <1>1, <1>2, <1>3, <1>4, <1>5, <1>6, <1>7, <1>8, <1>9, <1>10

LEMMA AdoptObjectKeeps ==
  ASSUME LifecycleInv, NEW k \in Keys, AdoptObject(k)
  PROVE  LifecycleInv'
<1> USE LifecycleAssumption DEF LifecycleInv, TypeOK, DeletionStates, index, bucket,
    ghosts, adoption, sent
<1>a. /\ k \in unindexed \ failed /\ k \in objects \union lost /\ k # entry /\ deletions[k] = "none"
      /\ k \in used /\ \A w \in Writers : writer[w].key # k
      /\ <<"delete", k>> \notin late
  BY DEF AdoptObject, KeysApart, DoomedStay, StateOK
<1>b. UNCHANGED <<renders, bucket, lock, writer, collector, used, served>>
  BY DEF AdoptObject
<1>c. CASE Adopt(k)
  <2>1. lock = Nobody /\ unindexed' = unindexed \ {k} /\ failed' = failed /\ referenced' = TRUE
    BY <1>c DEF Adopt, LockFree
  <2>2. \/ entry = NoKey /\ entry' = k /\ deletions' = deletions
        \/ entry # NoKey /\ entry' = entry /\ deletions' = [deletions EXCEPT ![k] = "leased"]
    BY <1>a, <1>c DEF Adopt, DuplicateQueued, StateOK
  <2>3. /\ deletions' \in [Keys -> DeletionStates] /\ entry' \in Keys
        /\ \A j \in Keys \ {k} : deletions'[j] = deletions[j]
        /\ deletions'[k] \in {"none", "leased"}
        /\ entry' # k => deletions'[k] = "leased"
    BY <1>a, <2>2 DEF StateOK
  <2>4. \/ answered' = answered \union {entry'} /\ UNCHANGED <<unnoticed, faults>>
        \/ /\ answered' = answered \union {k} /\ faults' \in 0..MaxFaults
           /\ unnoticed' = IF entry' = k THEN unnoticed ELSE unnoticed \union {k}
    <3>1. Recorded(k)' <=> entry' = k
      BY DEF Recorded
    <3>2. CASE answered' = answered \union {entry'} /\ UNCHANGED <<unnoticed, faults>>
      BY <3>2
    <3>3. CASE Fault /\ answered' = answered \union {k}
      <4>1. faults' \in 0..MaxFaults
        BY <3>3 DEF Fault, StateOK
      <4>2. unnoticed' = IF Recorded(k)' THEN unnoticed ELSE unnoticed \union {k}
        <5>1. failed' # failed \union {k}
          BY <1>a, <2>1
        <5>2. faults' # faults
          BY <3>3 DEF Fault, StateOK
        <5>3. QED
          BY <5>1, <5>2 DEF AdoptObject
      <4>3. QED
        BY <3>1, <3>3, <4>1, <4>2
    <3>4. QED
      BY <3>2, <3>3 DEF AdoptObject
  <2>5. \A w \in Writers : writer[w].pc \notin {"hit", "put", "insert"}
    BY <2>1 DEF LockHeld, InTransaction
  <2>6. \A g \in Collectors : collector[g].pc # "delete"
    BY <2>1 DEF LockHeld, InTransaction
  <2>7. StateOK'
    BY <1>a, <1>b, <2>1, <2>3, <2>4 DEF StateOK
  <2>8. LockHeld'
    BY <1>b DEF LockHeld, InTransaction
  <2>9. KeysApart'
    BY <1>a, <1>b, <2>1, <2>2, <2>3 DEF KeysApart, StateOK
  <2>10. ReadsHold'
    BY <1>b, <2>5, <2>6 DEF ReadsHold
  <2>11. DoomedStay'
    BY <1>a, <1>b, <2>1, <2>2, <2>3 DEF DoomedStay
  <2>12. IndexedObjectExists'
    BY <1>a, <1>b, <2>2 DEF IndexedObjectExists
  <2>13. ObjectsAccounted'
    BY <1>a, <1>b, <2>1, <2>2, <2>3 DEF ObjectsAccounted, StateOK
  <2>14. AnsweredCurrent'
    BY <1>a, <1>b, <2>1, <2>2, <2>4 DEF AnsweredCurrent, StateOK
  <2>15. UnnoticedDoomed'
    BY <1>a, <1>b, <2>1, <2>2, <2>3, <2>4 DEF UnnoticedDoomed, StateOK
  <2>16. ServedCurrent'
    BY <1>b, <2>2 DEF ServedCurrent, StateOK
  <2>17. QED
    BY <2>7, <2>8, <2>9, <2>10, <2>11, <2>12, <2>13, <2>14, <2>15, <2>16
<1>d. CASE /\ answered' = answered \union {k} /\ failed' = failed \union {k} /\ faults' \in 0..MaxFaults
           /\ UNCHANGED <<entry, referenced, deletions, unindexed, unnoticed>>
  <2>1. StateOK'
    BY <1>a, <1>b, <1>d DEF StateOK
  <2>2. LockHeld'
    BY <1>b DEF LockHeld, InTransaction
  <2>3. KeysApart' /\ DoomedStay'
    BY <1>b, <1>d DEF KeysApart, DoomedStay
  <2>4. ReadsHold'
    BY <1>b, <1>d DEF ReadsHold
  <2>5. IndexedObjectExists' /\ ObjectsAccounted' /\ AnsweredCurrent'
    BY <1>b, <1>d DEF IndexedObjectExists, ObjectsAccounted, AnsweredCurrent
  <2>6. UnnoticedDoomed' /\ ServedCurrent'
    BY <1>b, <1>d DEF UnnoticedDoomed, ServedCurrent
  <2>7. QED
    BY <2>1, <2>2, <2>3, <2>4, <2>5, <2>6
<1>e. QED
  BY <1>c, <1>d DEF AdoptObject, Fault, StateOK

LEMMA LoseObjectKeeps ==
  ASSUME LifecycleInv, NEW k \in Keys, LoseObject(k)
  PROVE  LifecycleInv'
<1> USE LifecycleAssumption DEF LifecycleInv, TypeOK, DeletionStates, index, bucket,
    ghosts, adoption, sent
<1> USE DEF LoseObject, Fault
<1>1. StateOK'
  BY DEF StateOK, WriterType, CollectorType
<1>2. LockHeld'
  BY DEF LockHeld, InTransaction
<1>3. KeysApart'
  BY DEF KeysApart
<1>4. ReadsHold'
  BY DEF ReadsHold
<1>5. DoomedStay'
  BY DEF DoomedStay
<1>6. IndexedObjectExists'
  BY DEF IndexedObjectExists
<1>7. ObjectsAccounted'
  BY DEF ObjectsAccounted
<1>8. AnsweredCurrent'
  BY DEF AnsweredCurrent
<1>9. UnnoticedDoomed'
  BY DEF UnnoticedDoomed
<1>10. ServedCurrent'
  BY DEF ServedCurrent
<1>11. QED
  BY <1>1, <1>2, <1>3, <1>4, <1>5, <1>6, <1>7, <1>8, <1>9, <1>10

LEMMA FallsDueKeeps ==
  ASSUME LifecycleInv, NEW k \in Keys, FallsDue(k)
  PROVE  LifecycleInv'
<1> USE LifecycleAssumption DEF LifecycleInv, TypeOK, DeletionStates, index, bucket,
    ghosts, adoption, sent
<1> USE DEF FallsDue, Scheduled, SetDeletion
<1>1. StateOK'
  BY DEF StateOK, WriterType, CollectorType
<1>2. LockHeld'
  BY DEF LockHeld, InTransaction
<1>3. KeysApart'
  BY DEF KeysApart
<1>4. ReadsHold'
  BY DEF ReadsHold
<1>5. DoomedStay'
  BY DEF DoomedStay
<1>6. IndexedObjectExists'
  BY DEF IndexedObjectExists
<1>7. ObjectsAccounted'
  BY DEF ObjectsAccounted
<1>8. AnsweredCurrent'
  BY DEF AnsweredCurrent
<1>9. UnnoticedDoomed'
  BY DEF UnnoticedDoomed
<1>10. ServedCurrent'
  BY DEF ServedCurrent
<1>11. QED
  BY <1>1, <1>2, <1>3, <1>4, <1>5, <1>6, <1>7, <1>8, <1>9, <1>10

LEMMA DrawingIndexesKeeps ==
  ASSUME LifecycleInv, NEW q \in RenderKeys, DrawingIndexes(q)
  PROVE  LifecycleInv'
<1> USE LifecycleAssumption DEF LifecycleInv, TypeOK, DeletionStates, index, bucket,
    ghosts, adoption, sent
<1> USE DEF DrawingIndexes, LockFree
<1>1. StateOK'
  BY DEF StateOK, WriterType, CollectorType
<1>2. LockHeld'
  BY DEF LockHeld, InTransaction
<1>3. KeysApart'
  BY DEF KeysApart
<1>4. ReadsHold'
  BY DEF ReadsHold
<1>5. DoomedStay'
  BY DEF DoomedStay
<1>6. IndexedObjectExists'
  BY DEF IndexedObjectExists
<1>7. ObjectsAccounted'
  BY DEF ObjectsAccounted
<1>8. AnsweredCurrent'
  BY DEF AnsweredCurrent
<1>9. UnnoticedDoomed'
  BY DEF UnnoticedDoomed
<1>10. ServedCurrent'
  BY DEF ServedCurrent
<1>11. QED
  BY <1>1, <1>2, <1>3, <1>4, <1>5, <1>6, <1>7, <1>8, <1>9, <1>10

LEMMA TouchRenderKeeps ==
  ASSUME LifecycleInv, NEW q \in RenderKeys, TouchRender(q)
  PROVE  LifecycleInv'
<1> USE LifecycleAssumption DEF LifecycleInv, TypeOK, DeletionStates, index, bucket,
    ghosts, adoption, sent
<1> USE DEF TouchRender
<1>1. StateOK'
  BY DEF StateOK, WriterType, CollectorType
<1>2. LockHeld'
  BY DEF LockHeld, InTransaction
<1>3. KeysApart'
  BY DEF KeysApart
<1>4. ReadsHold'
  BY DEF ReadsHold
<1>5. DoomedStay'
  BY DEF DoomedStay
<1>6. IndexedObjectExists'
  BY DEF IndexedObjectExists
<1>7. ObjectsAccounted'
  BY DEF ObjectsAccounted
<1>8. AnsweredCurrent'
  BY DEF AnsweredCurrent
<1>9. UnnoticedDoomed'
  BY DEF UnnoticedDoomed
<1>10. ServedCurrent'
  BY DEF ServedCurrent
<1>11. QED
  BY <1>1, <1>2, <1>3, <1>4, <1>5, <1>6, <1>7, <1>8, <1>9, <1>10

LEMMA RenderHitKeeps ==
  ASSUME LifecycleInv, NEW q \in RenderKeys, RenderHit(q)
  PROVE  LifecycleInv'
<1> USE LifecycleAssumption DEF LifecycleInv, TypeOK, DeletionStates, index, bucket,
    ghosts, adoption, sent
<1> USE DEF RenderHit
<1>1. StateOK'
  BY DEF StateOK, WriterType, CollectorType
<1>2. LockHeld'
  BY DEF LockHeld, InTransaction
<1>3. KeysApart'
  BY DEF KeysApart
<1>4. ReadsHold'
  BY DEF ReadsHold
<1>5. DoomedStay'
  BY DEF DoomedStay
<1>6. IndexedObjectExists'
  BY DEF IndexedObjectExists
<1>7. ObjectsAccounted'
  BY DEF ObjectsAccounted
<1>8. AnsweredCurrent'
  BY DEF AnsweredCurrent
<1>9. UnnoticedDoomed'
  BY DEF UnnoticedDoomed
<1>10. ServedCurrent'
  BY DEF ServedCurrent
<1>11. QED
  BY <1>1, <1>2, <1>3, <1>4, <1>5, <1>6, <1>7, <1>8, <1>9, <1>10

LEMMA ExpireRenderKeeps ==
  ASSUME LifecycleInv, NEW q \in RenderKeys, ExpireRender(q)
  PROVE  LifecycleInv'
<1> USE LifecycleAssumption DEF LifecycleInv, TypeOK, DeletionStates, index, bucket,
    ghosts, adoption, sent
<1> USE DEF ExpireRender
<1>1. StateOK'
  BY DEF StateOK, WriterType, CollectorType
<1>2. LockHeld'
  BY DEF LockHeld, InTransaction
<1>3. KeysApart'
  BY DEF KeysApart
<1>4. ReadsHold'
  BY DEF ReadsHold
<1>5. DoomedStay'
  BY DEF DoomedStay
<1>6. IndexedObjectExists'
  BY DEF IndexedObjectExists
<1>7. ObjectsAccounted'
  BY DEF ObjectsAccounted
<1>8. AnsweredCurrent'
  BY DEF AnsweredCurrent
<1>9. UnnoticedDoomed'
  BY DEF UnnoticedDoomed
<1>10. ServedCurrent'
  BY DEF ServedCurrent
<1>11. QED
  BY <1>1, <1>2, <1>3, <1>4, <1>5, <1>6, <1>7, <1>8, <1>9, <1>10

LEMMA RenderExpiresKeeps ==
  ASSUME LifecycleInv, NEW q \in RenderKeys, RenderExpires(q)
  PROVE  LifecycleInv'
<1> USE LifecycleAssumption DEF LifecycleInv, TypeOK, DeletionStates, index, bucket,
    ghosts, adoption, sent
<1> USE DEF RenderExpires
<1>1. StateOK'
  BY DEF StateOK, WriterType, CollectorType
<1>2. LockHeld'
  BY DEF LockHeld, InTransaction
<1>3. KeysApart'
  BY DEF KeysApart
<1>4. ReadsHold'
  BY DEF ReadsHold
<1>5. DoomedStay'
  BY DEF DoomedStay
<1>6. IndexedObjectExists'
  BY DEF IndexedObjectExists
<1>7. ObjectsAccounted'
  BY DEF ObjectsAccounted
<1>8. AnsweredCurrent'
  BY DEF AnsweredCurrent
<1>9. UnnoticedDoomed'
  BY DEF UnnoticedDoomed
<1>10. ServedCurrent'
  BY DEF ServedCurrent, StateOK
<1>11. QED
  BY <1>1, <1>2, <1>3, <1>4, <1>5, <1>6, <1>7, <1>8, <1>9, <1>10

LEMMA LateCallKeeps ==
  ASSUME LifecycleInv, NEW c \in late, LateCall(c)
  PROVE  LifecycleInv'
<1> USE LifecycleAssumption DEF LifecycleInv, TypeOK, DeletionStates, index, bucket,
    ghosts, adoption, sent
<1>a. /\ c[2] \in Keys /\ late' = late \ {c}
      /\ c = <<"put", c[2]>> \/ c = <<"delete", c[2]>>
  BY DEF LateCall, StateOK
<1>b. \/ c = <<"put", c[2]>> /\ deletions[c[2]] = "leased" /\ objects' = objects \union {c[2]}
      \/ c = <<"delete", c[2]>> /\ objects' = objects \ {c[2]}
  BY <1>a DEF LateCall
<1>c. UNCHANGED <<index, deletions, lost, writer, used, unindexed>>
  BY DEF LateCall, ghosts
<1>d. c = <<"delete", c[2]>> => c[2] \notin unindexed
  BY <1>a DEF DoomedStay
<1>e. <<"put", c[2]>> \in late \/ <<"delete", c[2]>> \in late
  BY <1>a
<1>f. c[2] \in used
  BY <1>a, <1>e DEF KeysApart
<1>1. StateOK'
  BY DEF LateCall, StateOK, WriterType, CollectorType
<1>2. LockHeld'
  BY DEF LateCall, LockHeld, InTransaction
<1>3. KeysApart'
  BY <1>a, <1>b, <1>c, <1>d, <1>f DEF KeysApart
<1>4. ReadsHold'
  BY DEF LateCall, ReadsHold, StateOK, LockHeld, InTransaction, KeysApart,
      DoomedStay, WriterType, CollectorType
<1>5. DoomedStay'
  BY DEF LateCall, DoomedStay
<1>6. IndexedObjectExists'
  BY DEF LateCall, IndexedObjectExists, StateOK, KeysApart, ReadsHold, DoomedStay,
      LockHeld, InTransaction, WriterType, CollectorType
<1>7. ObjectsAccounted'
  BY DEF LateCall, ObjectsAccounted
<1>8. AnsweredCurrent'
  BY DEF LateCall, AnsweredCurrent
<1>9. UnnoticedDoomed'
  BY <1>a, <1>b DEF LateCall, UnnoticedDoomed, DoomedStay, StateOK
<1>10. ServedCurrent'
  BY DEF LateCall, ServedCurrent
<1>11. QED
  BY <1>1, <1>2, <1>3, <1>4, <1>5, <1>6, <1>7, <1>8, <1>9, <1>10
--------------------------------------------------------------------------------
LEMMA InitInv == Init => LifecycleInv
<1> SUFFICES ASSUME Init PROVE LifecycleInv
  OBVIOUS
<1> USE LifecycleAssumption DEF Init
<1>1. StateOK
  <2>1. IdleWriter \in WriterType /\ IdleCollector \in CollectorType
    BY DEF IdleWriter, IdleCollector, WriterType, CollectorType
  <2>2. writer \in [Writers -> WriterType] /\ collector \in [Collectors -> CollectorType]
    BY <2>1
  <2>3. /\ renders \in [RenderKeys -> {"none", "live", "expired"}]
        /\ deletions \in [Keys -> DeletionStates]
        /\ served \in [RenderKeys -> Keys \union {NoKey}]
    BY DEF DeletionStates
  <2>4. /\ entry \in Keys \union {NoKey} /\ referenced \in BOOLEAN
        /\ lock \in Writers \union Collectors \union {Nobody}
    OBVIOUS
  <2>5. faults \in 0..MaxFaults
    OBVIOUS
  <2>6. QED
    BY <2>2, <2>3, <2>4, <2>5 DEF StateOK
<1>2. /\ \A w \in Writers : writer[w].pc = "idle" /\ writer[w].key = NoKey
      /\ \A g \in Collectors : collector[g].pc = "idle"
  BY DEF IdleWriter, IdleCollector
<1>3. LockHeld
  BY <1>2 DEF LockHeld, InTransaction
<1>4. KeysApart /\ ReadsHold /\ DoomedStay
  BY <1>2 DEF KeysApart, ReadsHold, DoomedStay
<1>5. IndexedObjectExists /\ ObjectsAccounted /\ AnsweredCurrent /\ UnnoticedDoomed /\ ServedCurrent
  BY DEF IndexedObjectExists, ObjectsAccounted, AnsweredCurrent, UnnoticedDoomed, ServedCurrent
<1>6. QED
  BY <1>1, <1>3, <1>4, <1>5 DEF LifecycleInv, TypeOK

LEMMA StepKeeps == LifecycleInv /\ [Next]_vars => LifecycleInv'
<1> SUFFICES ASSUME LifecycleInv, [Next]_vars PROVE LifecycleInv'
  OBVIOUS
<1>1. CASE UNCHANGED vars
  <2> USE <1>1 DEF LifecycleInv, TypeOK, vars, index, bucket, ghosts, adoption, sent
  <2>1. StateOK'
    BY DEF StateOK
  <2>2. LockHeld'
    BY DEF LockHeld, InTransaction
  <2>3. KeysApart' /\ DoomedStay'
    BY DEF KeysApart, DoomedStay
  <2>4. ReadsHold'
    BY DEF ReadsHold
  <2>5. IndexedObjectExists' /\ ObjectsAccounted' /\ AnsweredCurrent'
    BY DEF IndexedObjectExists, ObjectsAccounted, AnsweredCurrent
  <2>6. UnnoticedDoomed' /\ ServedCurrent'
    BY DEF UnnoticedDoomed, ServedCurrent
  <2>7. QED
    BY <2>1, <2>2, <2>3, <2>4, <2>5, <2>6
<1>2. ASSUME NEW w \in Writers, Register(w) \/ Writing(w) \/ AbandonStore(w)
      PROVE  LifecycleInv'
  BY <1>2, RegisterKeeps, BeginStoreKeeps, PutObjectKeeps, CommitStoreKeeps, AbandonStoreKeeps
    DEF Writing
<1>3. ASSUME NEW g \in Collectors, Collecting(g) \/ AbandonCycle(g)
      PROVE  LifecycleInv'
  BY <1>3, StartCycleKeeps, BeginDeleteKeeps, DeleteObjectKeeps, ListRowsKeeps, DropRowsKeeps,
    ListEntriesKeeps, RetireObjectKeeps, AbandonCycleKeeps DEF Collecting
<1>4. CASE DrawingUploads \/ Reconcile \/ Ages
  BY <1>4, DrawingUploadsKeeps, ReconcileKeeps, AgesKeeps
<1>5. ASSUME NEW k \in Keys, AdoptObject(k) \/ LoseObject(k) \/ FallsDue(k)
      PROVE  LifecycleInv'
  BY <1>5, AdoptObjectKeeps, LoseObjectKeeps, FallsDueKeeps
<1>6. ASSUME NEW q \in RenderKeys,
             DrawingIndexes(q) \/ RenderExpires(q) \/ RenderHit(q) \/ TouchRender(q) \/ ExpireRender(q)
      PROVE  LifecycleInv'
  BY <1>6, DrawingIndexesKeeps, RenderExpiresKeeps, RenderHitKeeps, TouchRenderKeeps, ExpireRenderKeeps
<1>7. ASSUME NEW c \in late, LateCall(c)
      PROVE  LifecycleInv'
  BY <1>7, LateCallKeeps
<1>8. QED
  BY <1>1, <1>2, <1>3, <1>4, <1>5, <1>6, <1>7 DEF Next

LEMMA LifecycleInvariant == Spec => []LifecycleInv
  BY InitInv, StepKeeps, PTL DEF Spec

\* Every variable keeps its type, and the content lock its single holder.
THEOREM TypeCorrect == Spec => []TypeOK
  BY LifecycleInvariant, PTL DEF LifecycleInv

\* A row's object is never deleted under it, however many processes write and
\* collect and whatever bucket calls were given up and land late.
THEOREM RowsKeepObjects == Spec => []IndexedObjectExists
  BY LifecycleInvariant, PTL DEF LifecycleInv

\* No failure leaves an object that neither its row nor a durable deletion
\* accounts for, but for an object whose adoption has not been committed.
THEOREM ObjectsDiscoverable == Spec => []ObjectsAccounted
  BY LifecycleInvariant, PTL DEF LifecycleInv

\* A URL sent after a store or an adoption keeps its object through the retention
\* window, but for a duplicate whose adoption was committed without its reply: its
\* URL keeps the object for the lease of its deletion.
THEOREM UrlsKept == Spec => []AnsweredKept
<1>1. LifecycleInv => AnsweredKept
  BY LifecycleAssumption DEF LifecycleInv, AnsweredCurrent, UnnoticedDoomed, AnsweredKept,
      IndexedObjectExists, KeysApart, TypeOK, StateOK
<1>2. QED
  BY <1>1, LifecycleInvariant, PTL

\* A URL sent from a render row keeps its object until the row expires.
THEOREM ServedUrlsKept == Spec => []ServedKept
<1>1. LifecycleInv => ServedKept
  BY LifecycleAssumption DEF LifecycleInv, ServedCurrent, ServedKept,
      IndexedObjectExists, TypeOK, StateOK
<1>2. QED
  BY <1>1, LifecycleInvariant, PTL
================================================================================
