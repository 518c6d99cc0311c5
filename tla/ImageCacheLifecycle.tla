-------------------------- MODULE ImageCacheLifecycle --------------------------
(***************************************************************************)
(* The life of one rendered content (utils/imagecache): its row in         *)
(* image_cache_entries, the render index rows that refer to it, its        *)
(* objects in the bucket, and the durable list of object deletions, which  *)
(* doubles as the list of upload intents.  Contents with different hashes  *)
(* share nothing, so the module has one hash.                              *)
(*                                                                         *)
(* Writers (storeHashed) and collectors (GC.RunOnce) of any number of      *)
(* processes work under a content lock, a PostgreSQL transaction lock:     *)
(* what a transaction writes is applied when it commits, the bucket is     *)
(* written at once.  A call to the bucket that is given up may take effect *)
(* later; for a PUT "later" ends with the 5 minutes of its intent, since   *)
(* the transaction gives it up after 30 seconds.  Every write uses a fresh *)
(* random key.  Drawing writes render rows under the same lock, and in     *)
(* store-ref mode uploads an object for Cloud to adopt.  Cloud sends a URL *)
(* after a store, after an adoption, whatever came of it, and when it      *)
(* finds a render row that has not expired.                                *)
(***************************************************************************)
EXTENDS Naturals

CONSTANTS
  Keys,        \* generation keys (cdn_path), each written once
  Writers,     \* Cloud processes that store the content
  Collectors,  \* Cloud processes that run the collection
  RenderKeys,  \* request keys of the render index
  MaxFaults,   \* bound: failed calls, lost objects and crashes
  NoKey, Nobody

ASSUME LifecycleAssumption ==
  /\ NoKey \notin Keys
  /\ Nobody \notin Writers \union Collectors /\ Writers \intersect Collectors = {}
  /\ MaxFaults \in Nat

VARIABLES
  entry,       \* cdn_path of the row, or NoKey
  referenced,  \* last_referenced_at is within the retention window
  renders,     \* the render index rows
  deletions,   \* image_cache_object_deletions
  objects,     \* keys that exist in the bucket
  lock,        \* holder of the content lock
  writer, collector,
  late,        \* calls given up by their callers and still on their way
  used,        \* keys drawn so far
  unindexed,   \* objects Drawing uploaded for Cloud that have no row (yet)
  failed,      \* of these, the ones whose adoption was rolled back
  answered,    \* history: keys sent after a store or an adoption
  unnoticed,   \* history: keys sent though their deletion had been queued
  served,      \* history: the key last sent from each row, until it expires
  lost,        \* objects lost outside the protocol
  faults

index == <<entry, referenced, renders>>
bucket == <<objects, late, lost>>
adoption == <<unindexed, failed>>
sent == <<answered, unnoticed, served>>
ghosts == <<used, adoption, sent>>
vars == <<index, deletions, bucket, lock, writer, collector, ghosts, faults>>

\* "leased": no attempt and next_attempt_at ahead; "retry": attempted, ahead;
\* "due": next_attempt_at has passed.
DeletionStates == {"none", "leased", "retry", "due"}
IdleWriter == [pc |-> "idle", key |-> NoKey]
IdleCollector == [pc |-> "idle", list |-> {}, rows |-> {}, key |-> NoKey, final |-> FALSE]

WriterType == [pc : {"idle", "registered", "hit", "put", "insert"}, key : Keys \union {NoKey}]
CollectorType ==
  [pc : {"idle", "pending", "delete", "rows", "entries", "retire"},
   list : SUBSET Keys, rows : SUBSET RenderKeys, key : Keys \union {NoKey}, final : BOOLEAN]

InTransaction(a) ==
  \/ a \in Writers /\ writer[a].pc \in {"hit", "put", "insert"}
  \/ a \in Collectors /\ collector[a].pc = "delete"

StateOK ==
  /\ entry \in Keys \union {NoKey} /\ referenced \in BOOLEAN
  /\ renders \in [RenderKeys -> {"none", "live", "expired"}]
  /\ deletions \in [Keys -> DeletionStates]
  /\ objects \subseteq Keys /\ lost \subseteq Keys
  /\ late \subseteq {"put", "delete"} \X Keys
  /\ lock \in Writers \union Collectors \union {Nobody}
  /\ writer \in [Writers -> WriterType] /\ collector \in [Collectors -> CollectorType]
  /\ used \subseteq Keys /\ unindexed \subseteq Keys /\ failed \subseteq unindexed
  /\ answered \subseteq Keys /\ unnoticed \subseteq Keys
  /\ served \in [RenderKeys -> Keys \union {NoKey}]
  /\ faults \in 0..MaxFaults

\* Types; and whoever is in a transaction of the content, and nobody else, has
\* its lock (WithContentLock).
LockHeld == \A a \in Writers \union Collectors : InTransaction(a) <=> lock = a
TypeOK == StateOK /\ LockHeld

Init ==
  /\ entry = NoKey /\ referenced = FALSE
  /\ renders = [q \in RenderKeys |-> "none"]
  /\ deletions = [k \in Keys |-> "none"]
  /\ objects = {} /\ late = {} /\ lost = {}
  /\ lock = Nobody
  /\ writer = [w \in Writers |-> IdleWriter]
  /\ collector = [g \in Collectors |-> IdleCollector]
  /\ used = {} /\ unindexed = {} /\ failed = {}
  /\ answered = {} /\ unnoticed = {} /\ served = [q \in RenderKeys |-> NoKey]
  /\ faults = 0

Fault == faults < MaxFaults /\ faults' = faults + 1

\* Mutant: the lock is taken without waiting for its holder.
NotWaiting == TRUE
LockFree == lock = Nobody

SetDeletion(k, s) == deletions' = [deletions EXCEPT ![k] = s]

--------------------------------------------------------------------------------
(* storeHashed *)

WriterMoves(w, pc, k) == writer' = [writer EXCEPT ![w] = [pc |-> pc, key |-> k]]
Rollback(w) == WriterMoves(w, "idle", NoKey) /\ lock' = Nobody

\* registerUpload, in a transaction of its own; the insert may be committed
\* and its reply lost.
Register(w) ==
  /\ writer[w].pc = "idle"
  /\ \E k \in Keys \ used :
       /\ used' = used \union {k}
       /\ SetDeletion(k, "leased")
       /\ \/ WriterMoves(w, "registered", k) /\ UNCHANGED faults
          \/ Fault /\ UNCHANGED writer
  /\ UNCHANGED <<index, bucket, lock, collector, adoption, sent>>

\* Mutant: the intent only has to exist at some time.
IntentOfAnyAge(k) == k \in used
\* verifyUpload, which also locks the intent's row.
VerifyUpload(k) == deletions[k] = "leased"

\* The transaction begins: lock, lookup, and verification of the intent.
BeginStore(w) ==
  LET k == writer[w].key IN
  /\ writer[w].pc = "registered" /\ LockFree
  /\ \/ entry # NoKey /\ WriterMoves(w, "hit", k) /\ lock' = w
     \/ entry = NoKey /\ VerifyUpload(k) /\ WriterMoves(w, "put", k) /\ lock' = w
     \/ entry = NoKey /\ ~VerifyUpload(k) /\ Rollback(w)
  /\ UNCHANGED <<index, deletions, bucket, collector, ghosts, faults>>

PutObject(w) ==
  LET k == writer[w].key IN
  /\ writer[w].pc = "put"
  /\ \/ WriterMoves(w, "insert", k) /\ objects' = objects \union {k} /\ UNCHANGED <<lock, late, faults>>
     \/ /\ Fault /\ Rollback(w)
        /\ \/ objects' = objects \union {k} /\ UNCHANGED late
           \/ late' = late \union {<<"put", k>>} /\ UNCHANGED objects
           \/ UNCHANGED <<objects, late>>
  /\ UNCHANGED <<index, deletions, collector, ghosts, lost>>

\* InsertEntry (or TouchEntry on a hit) and the end of the writer's own
\* intent, committed together.  The URL is returned unless the reply is lost.
CommitStore(w) ==
  LET k == writer[w].key
      stored == IF writer[w].pc = "hit" THEN entry ELSE k IN
  /\ writer[w].pc \in {"hit", "insert"}
  /\ entry' = stored /\ referenced' = TRUE
  /\ SetDeletion(k, "none")
  /\ Rollback(w)
  /\ \/ answered' = answered \union {stored} /\ UNCHANGED faults
     \/ Fault /\ UNCHANGED answered
  /\ UNCHANGED <<renders, bucket, collector, used, adoption, unnoticed, served>>

\* A statement or the commit fails, the caller's time is up, or the process
\* stops: the transaction is rolled back, what the bucket has stays.
AbandonStore(w) ==
  /\ writer[w].pc # "idle" /\ Fault
  /\ WriterMoves(w, "idle", NoKey)
  /\ lock' = IF lock = w THEN Nobody ELSE lock
  /\ UNCHANGED <<index, deletions, bucket, collector, ghosts>>

--------------------------------------------------------------------------------
(* Drawing, AdoptObject and ReconcileObject *)

\* Drawing has uploaded the content under a key of Cloud's layout.
DrawingUploads ==
  /\ \E k \in Keys \ used :
       /\ used' = used \union {k} /\ unindexed' = unindexed \union {k}
       /\ objects' = objects \union {k}
  /\ UNCHANGED <<index, deletions, late, lost, lock, writer, collector, failed, sent, faults>>

Recorded(k) == entry = k
DuplicateQueued(k) ==
  deletions' = [deletions EXCEPT ![k] = IF @ = "none" THEN "leased" ELSE @]

\* Adopted: the row of another object of the content is kept, and the duplicate's
\* deletion queued beside it.
Adopt(k) ==
  /\ LockFree
  /\ unindexed' = unindexed \ {k}
  /\ referenced' = TRUE
  /\ \/ entry = NoKey /\ entry' = k /\ UNCHANGED deletions
     \/ entry # NoKey /\ UNCHANGED entry /\ DuplicateQueued(k)
  /\ UNCHANGED failed

\* One call per upload.  It answers with the path of the row; when it is rolled
\* back, or committed without its reply, with the object's own path, and that
\* URL is sent all the same (client.go, acceptStoreRef).
AdoptObject(k) ==
  /\ k \in unindexed \ failed
  /\ \/ Adopt(k) /\ answered' = answered \union {entry'} /\ UNCHANGED <<unnoticed, faults>>
     \/ /\ Fault /\ answered' = answered \union {k}
        /\ \/ /\ Adopt(k)
              /\ unnoticed' = IF Recorded(k)' THEN unnoticed ELSE unnoticed \union {k}
           \/ failed' = failed \union {k} /\ UNCHANGED <<entry, referenced, deletions, unindexed, unnoticed>>
  /\ UNCHANGED <<renders, bucket, lock, writer, collector, used, served>>

\* Drawing records a render of the content and answers with the entry's URL.
DrawingIndexes(q) ==
  /\ LockFree /\ entry # NoKey /\ renders[q] # "live"
  /\ renders' = [renders EXCEPT ![q] = "live"] /\ referenced' = TRUE
  /\ answered' = answered \union {entry}
  /\ UNCHANGED <<entry, deletions, bucket, lock, writer, collector, used, adoption,
                 unnoticed, served, faults>>

LoseObject(k) ==
  /\ k \in objects /\ Fault
  /\ objects' = objects \ {k} /\ lost' = lost \union {k}
  /\ UNCHANGED <<index, deletions, late, lock, writer, collector, ghosts>>

\* ReconcileObject with repair
Reconcile ==
  /\ LockFree /\ entry # NoKey /\ entry \notin objects
  /\ renders' = [q \in RenderKeys |-> "none"] /\ entry' = NoKey
  /\ UNCHANGED <<referenced, deletions, bucket, lock, writer, collector, ghosts, faults>>

\* lookupIndexContext finds the row, not expired, with its entry, and the entry's
\* URL is sent.  The entry is not touched, and the row later, see TouchRender.
RenderHit(q) ==
  /\ renders[q] = "live" /\ entry # NoKey
  /\ served' = [served EXCEPT ![q] = entry]
  /\ UNCHANGED <<index, deletions, bucket, lock, writer, collector, used, adoption,
                 answered, unnoticed, faults>>

\* A hit's buffered touch restarts the row's TTL, also when it has expired in the
\* meantime.  Hits are not counted: any expired row may have such a touch on its
\* way, and any touch may be dropped (a full or closed buffer, a failed flush).
TouchRender(q) ==
  /\ renders[q] = "expired"
  /\ renders' = [renders EXCEPT ![q] = "live"]
  /\ UNCHANGED <<entry, referenced, deletions, bucket, lock, writer, collector, ghosts, faults>>

\* A row that lookupIndexContext found expired is deleted, if it is so still.
ExpireRender(q) ==
  /\ renders[q] = "expired"
  /\ renders' = [renders EXCEPT ![q] = "none"]
  /\ UNCHANGED <<entry, referenced, deletions, bucket, lock, writer, collector, ghosts, faults>>

--------------------------------------------------------------------------------
(* GC.RunOnce *)

CollectorMoves(g, c) == collector' = [collector EXCEPT ![g] = c]
Step(g, pc) == [collector[g] EXCEPT !.pc = pc]

\* retryPending reads the due deletions.
StartCycle(g) ==
  /\ collector[g].pc = "idle"
  /\ CollectorMoves(g, [IdleCollector EXCEPT !.pc = "pending",
                                             !.list = {k \in Keys : deletions[k] = "due"}])
  /\ UNCHANGED <<index, deletions, bucket, lock, writer, ghosts, faults>>

\* deletePending: under the lock the deletion must still be due; a path that
\* is live again only loses its deletion.
BeginDelete(g) ==
  /\ collector[g].pc = "pending" /\ LockFree
  /\ \E k \in collector[g].list :
       LET c == [collector[g] EXCEPT !.list = @ \ {k}] IN
       \/ deletions[k] # "due" /\ CollectorMoves(g, c) /\ UNCHANGED <<deletions, lock>>
       \/ /\ deletions[k] = "due" /\ Recorded(k)
          /\ CollectorMoves(g, c) /\ SetDeletion(k, "none") /\ UNCHANGED lock
       \/ /\ deletions[k] = "due" /\ ~Recorded(k)
          /\ CollectorMoves(g, [c EXCEPT !.pc = "delete", !.key = k])
          /\ lock' = g /\ UNCHANGED deletions
  /\ UNCHANGED <<index, bucket, writer, ghosts, faults>>

\* Mutant: a failed deletion is forgotten.
Forgotten == "none"
Retried == "retry"

\* Delete, and the end of the deletion or its next attempt, which is recorded
\* unless the transaction fails as well.
DeleteObject(g) ==
  LET k == collector[g].key IN
  /\ collector[g].pc = "delete"
  /\ CollectorMoves(g, [collector[g] EXCEPT !.pc = "pending", !.key = NoKey])
  /\ lock' = Nobody
  /\ \/ objects' = objects \ {k} /\ SetDeletion(k, "none") /\ UNCHANGED <<late, faults>>
     \/ /\ Fault
        /\ \/ objects' = objects \ {k} /\ UNCHANGED late
           \/ late' = late \union {<<"delete", k>>} /\ UNCHANGED objects
        /\ SetDeletion(k, Retried) \/ UNCHANGED deletions
  /\ UNCHANGED <<index, lost, writer, ghosts>>

\* collectRenderRows reads the expired rows.
ListRows(g) ==
  /\ collector[g].pc = "pending" /\ collector[g].list = {}
  /\ CollectorMoves(g, IF collector[g].final THEN IdleCollector
                       ELSE [Step(g, "rows") EXCEPT !.rows = {q \in RenderKeys : renders[q] = "expired"}])
  /\ UNCHANGED <<index, deletions, bucket, lock, writer, ghosts, faults>>

\* Mutant: the rows are deleted as they were listed.
AsListed(q) == TRUE
\* DeleteExpiredRender spares the rows touched since.
StillExpired(q) == renders[q] = "expired"

DropRows(g) ==
  /\ collector[g].pc = "rows"
  /\ renders' = [q \in RenderKeys |-> IF q \in collector[g].rows /\ StillExpired(q)
                                      THEN "none" ELSE renders[q]]
  /\ CollectorMoves(g, [Step(g, "entries") EXCEPT !.rows = {}])
  /\ UNCHANGED <<entry, referenced, deletions, bucket, lock, writer, ghosts, faults>>

Unreferenced == \A q \in RenderKeys : renders[q] = "none"
\* Mutant: the retirement trusts the list it was read from.
StillListed(k) == entry = k /\ Unreferenced
Orphan(k) == entry = k /\ ~referenced /\ Unreferenced

ListEntries(g) ==
  /\ collector[g].pc = "entries"
  /\ CollectorMoves(g, IF entry # NoKey /\ ~referenced /\ Unreferenced
                       THEN [Step(g, "retire") EXCEPT !.key = entry] ELSE IdleCollector)
  /\ UNCHANGED <<index, deletions, bucket, lock, writer, ghosts, faults>>

\* retireObject: the row is deleted and its object's deletion queued in one
\* statement, if the row is an orphan still; then comes deletePending.
RetireObject(g) ==
  LET k == collector[g].key IN
  /\ collector[g].pc = "retire" /\ LockFree
  /\ \/ /\ Orphan(k)
        /\ entry' = NoKey
        /\ deletions' = [deletions EXCEPT ![k] = IF @ = "none" THEN "due" ELSE @]
        /\ CollectorMoves(g, [IdleCollector EXCEPT !.pc = "pending", !.list = {k}, !.final = TRUE])
     \/ ~Orphan(k) /\ UNCHANGED <<entry, deletions>> /\ CollectorMoves(g, IdleCollector)
  /\ UNCHANGED <<referenced, renders, bucket, lock, writer, ghosts, faults>>

\* A statement fails, the two minutes of the cycle are over, or the process
\* stops.
AbandonCycle(g) ==
  /\ collector[g].pc # "idle" /\ Fault
  /\ CollectorMoves(g, IdleCollector)
  /\ lock' = IF lock = g THEN Nobody ELSE lock
  /\ UNCHANGED <<index, deletions, bucket, writer, ghosts>>

--------------------------------------------------------------------------------
(* Time and late calls *)

LateCall(c) ==
  LET k == c[2] IN
  /\ c \in late /\ late' = late \ {c}
  /\ \/ c[1] = "put" /\ deletions[k] = "leased" /\ objects' = objects \union {k}
     \/ c[1] = "delete" /\ objects' = objects \ {k}
  /\ UNCHANGED <<index, deletions, lost, lock, writer, collector, ghosts, faults>>

\* Mutant: only deletions attempted before are taken up again.
AttemptedBefore(k) == deletions[k] = "retry"
Scheduled(k) == deletions[k] \in {"leased", "retry"}

FallsDue(k) ==
  /\ Scheduled(k) /\ SetDeletion(k, "due")
  /\ UNCHANGED <<index, bucket, lock, writer, collector, ghosts, faults>>

RenderExpires(q) ==
  /\ renders[q] = "live"
  /\ renders' = [renders EXCEPT ![q] = "expired"]
  /\ served' = [served EXCEPT ![q] = NoKey]
  /\ UNCHANGED <<entry, referenced, deletions, bucket, lock, writer, collector, used, adoption,
                 answered, unnoticed, faults>>

\* The retention window passes without a reference.
Ages ==
  /\ referenced /\ referenced' = FALSE /\ answered' = answered \intersect failed
  /\ UNCHANGED <<entry, renders, deletions, bucket, lock, writer, collector, used, adoption,
                 unnoticed, served, faults>>

Writing(w) == BeginStore(w) \/ PutObject(w) \/ CommitStore(w)
Collecting(g) ==
  \/ StartCycle(g) \/ BeginDelete(g) \/ DeleteObject(g) \/ ListRows(g)
  \/ DropRows(g) \/ ListEntries(g) \/ RetireObject(g)

Next ==
  \/ \E w \in Writers : Register(w) \/ Writing(w) \/ AbandonStore(w)
  \/ \E g \in Collectors : Collecting(g) \/ AbandonCycle(g)
  \/ DrawingUploads \/ Reconcile \/ Ages
  \/ \E k \in Keys : AdoptObject(k) \/ LoseObject(k) \/ FallsDue(k)
  \/ \E q \in RenderKeys : DrawingIndexes(q) \/ RenderExpires(q)
  \/ \E q \in RenderKeys : RenderHit(q) \/ TouchRender(q) \/ ExpireRender(q)
  \/ \E c \in late : LateCall(c)

Spec == Init /\ [][Next]_vars

\* Transactions end, by their timeouts at the latest; cycles recur; time passes.
Fairness ==
  /\ \A w \in Writers : WF_vars(Writing(w))
  /\ \A g \in Collectors : WF_vars(Collecting(g))
  /\ \A k \in Keys : WF_vars(FallsDue(k))

FairSpec == Spec /\ Fairness

--------------------------------------------------------------------------------
(* Properties *)

\* The row's object is in the bucket, whatever deletions and uploads were given
\* up and land late (client.go, storeHashedLocked: "Drawing trusts an indexed
\* row and skips its own upload"; lookupIndexedWithStore: "garage rows are
\* trusted outright").
IndexedObjectExists == entry # NoKey => entry \in objects \union lost

\* Every object that was not lost sight of by a failed adoption has the row or
\* a durable deletion, so that the collection can find it (client.go,
\* storeHashed: "an upload that outlives its writer must remain discoverable").
ObjectsAccounted ==
  \A k \in objects \ unindexed : entry = k \/ deletions[k] # "none"

\* A URL sent after a store or an adoption keeps its object through the retention
\* window (client.go, touchEntry: "the re-emitted URL must outlive GC's retention
\* window"), and for good when the adoption was rolled back (acceptStoreRef:
\* "object is invisible to GC").  A duplicate whose adoption was committed without
\* its reply is the exception: its URL keeps the object only as long as the lease
\* of its deletion.
AnsweredKept ==
  /\ answered \ unnoticed \subseteq objects \union lost
  /\ \A k \in unnoticed : deletions[k] = "leased" => k \in objects \union lost

\* A URL sent from a render row keeps its object until the row expires, however
\* old the last reference to its entry is: neither a collection that had listed
\* the row before its TTL was restarted nor the retirement of the entry takes it
\* away earlier (pgstore_render.go, DeleteExpiredRender: "A concurrent touch or
\* replacement with a later expiry must survive stale cleanup").
ServedKept == \A q \in RenderKeys : served[q] # NoKey => served[q] \in objects \union lost

\* An object without a row, or with an orphan row, is deleted in the end unless
\* its content is referenced again, over failed attempts, crashes and late calls
\* (gc.go, retryPending: "Failed work survives restarts").
Owned(k) == entry = k /\ ~Orphan(k)
OrphansCollected ==
  \A k \in Keys :
    (k \in objects \ unindexed /\ ~Owned(k)) ~> (k \notin objects \/ Owned(k))
================================================================================
