----------------------------- MODULE RealtimeStore -----------------------------
(***************************************************************************)
(* The table realtime_events (internal/realtime/store.go), one statement   *)
(* per operator.  An event id is notified for one subscription version, so *)
(* the unique key (subscription, version, event_id) is the event itself.   *)
(* Time is the age of a row, in ticks since its last delivery or, for an   *)
(* event never delivered, since its creation; a row that is settled keeps  *)
(* no age.                                                                 *)
(***************************************************************************)
EXTENDS Integers, FiniteSets

CONSTANTS
  Events,          \* event ids
  MaxVersions,     \* bound: subscription versions issued
  Keep,            \* 1 under "latest", ReplayMax under "all"
  MaxDeliveries,
  ReplayGrace,     \* in ticks
  RedeliverAfter   \* in ticks

ASSUME StoreAssumption ==
  /\ {Keep, MaxDeliveries, ReplayGrace, RedeliverAfter} \subseteq Nat \ {0}
  /\ MaxVersions \in Nat
  /\ IsFiniteSet(Events)

VARIABLES
  rows,    \* realtime_events
  nextId   \* the sequence of its primary key

Versions == 1..MaxVersions
Reasons == {"no", "replaced", "overflow", "delivery_limit",
            "subscription_replaced", "subscription_cancelled"}

NoRow == [id |-> 0, version |-> 0, acked |-> FALSE, superseded |-> "no", count |-> 0, age |-> 0]

RowType == [id : Nat, version : {0} \union Versions, acked : BOOLEAN,
            superseded : Reasons, count : 0..MaxDeliveries, age : 0..RedeliverAfter]

StoreTypeOK ==
  /\ rows \in [Events -> RowType]
  /\ nextId \in Nat \ {0}

StoreInit ==
  /\ rows = [e \in Events |-> NoRow]
  /\ nextId = 1

Stored(e) == rows[e] # NoRow
Pending(e) == Stored(e) /\ ~rows[e].acked /\ rows[e].superseded = "no"
Undelivered(e) == rows[e].count = 0

PendingOf(v) == {e \in Events : Pending(e) /\ rows[e].version = v}
Newer(e, f) == rows[e].id < rows[f].id

\* Order(ById(asc)): the rows of a result are handled oldest first.
Oldest(S) == CHOOSE e \in S : \A f \in S : ~Newer(f, e)

--------------------------------------------------------------------------------
Insert(e, v, id) == rows' = [rows EXCEPT ![e] = [NoRow EXCEPT !.id = id, !.version = v]]

Supersede(S, why) ==
  rows' = [e \in Events |->
             IF e \in S /\ Pending(e) THEN [rows[e] EXCEPT !.superseded = why, !.age = 0] ELSE rows[e]]

\* ApplyReplayPolicy: under "latest" the older ones, in one statement; under
\* "all" those beyond the newest Keep, read first and superseded then.
Replaced(id, v) == {e \in PendingOf(v) : rows[e].id < id}

\* Mutant: one too many is superseded.
OverflowByOne(v) ==
  {e \in PendingOf(v) : Cardinality({f \in PendingOf(v) : Newer(e, f)}) >= Keep - 1}

Overflow(v) == {e \in PendingOf(v) : Cardinality({f \in PendingOf(v) : Newer(e, f)}) >= Keep}

\* Pending(key, afterID), less recentlyDelivered, whose answer is taken when
\* the rows are read.
RecentlyDelivered(e) == ~Undelivered(e) /\ rows[e].age < ReplayGrace
Replay(v, after) == {e \in PendingOf(v) : rows[e].id > after /\ ~RecentlyDelivered(e)}

\* Mutant: the claim looks at the count alone.
ClaimableByCount(e) == Stored(e) /\ rows[e].count < MaxDeliveries

Claimable(e) == Pending(e) /\ rows[e].count < MaxDeliveries
Claim(e) == rows' = [rows EXCEPT ![e].count = @ + 1, ![e].age = 0]

Late(e) == rows[e].age = RedeliverAfter

\* Mutant: an event that was never delivered is not overdue.
OverdueOnceDelivered == {e \in Events : Pending(e) /\ ~Undelivered(e) /\ Late(e)}

Overdue == {e \in Events : Pending(e) /\ Late(e)}
Exhausted == {e \in Events : Pending(e) /\ rows[e].count >= MaxDeliveries /\ ~Undelivered(e) /\ Late(e)}

Ack(e) == rows' = [rows EXCEPT ![e].acked = TRUE, ![e].age = 0]

\* Mutant: the version that replaces the others is retired with them.
AllPending(keep) == {e \in Events : Pending(e)}

\* SupersedeSubscription keeps the version keep, or none when keep is 0.
NotKept(keep) == {e \in Events : Pending(e) /\ rows[e].version # keep}

DeleteExpired(S) == rows' = [e \in Events |-> IF e \in S THEN NoRow ELSE rows[e]]

\* A tick of the clock; past RedeliverAfter all ages are alike.
Aged == [e \in Events |->
           IF Pending(e) /\ ~Late(e) THEN [rows[e] EXCEPT !.age = @ + 1] ELSE rows[e]]
=============================================================================
