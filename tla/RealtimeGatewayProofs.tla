------------------------- MODULE RealtimeGatewayProofs -------------------------
(***************************************************************************)
(* Proofs about RealtimeGateway, for every number of streams, requests and *)
(* versions and every cap: its types, the hub, and the replay policy.  The *)
(* types and the hub are one invariant, GatewayInv, since each needs the   *)
(* other; PolicyInv adds what rows and ingests keep.                       *)
(***************************************************************************)
EXTENDS RealtimeGateway, FiniteSetTheorems, SequenceTheorems, WellFoundedInduction, TLAPS

\* A nonempty set of stored ids has a least one: the rows are handled in order.
LEMMA OldestIsMember ==
  ASSUME StoreTypeOK, NEW S \in SUBSET Events, S # {}
  PROVE  Oldest(S) \in S
<1> DEFINE Ids == {rows[e].id : e \in S}
<1>1. Ids \subseteq Nat /\ Ids # {}
  BY DEF StoreTypeOK, RowType
<1>2. PICK n \in Ids : \A m \in Ids : ~ (<<m, n>> \in OpToRel(<, Nat))
  BY <1>1, NatLessThanWellFounded, WFMin, Zenon
<1>3. \A m \in Ids : ~ (m < n)
  BY <1>1, <1>2 DEF OpToRel
<1>4. \E e \in S : \A f \in S : ~Newer(f, e)
  BY <1>3 DEF Newer
<1>5. QED
  BY <1>4 DEF Oldest

--------------------------------------------------------------------------------
(* The hub *)

HubOK == IsFiniteSet(hub) /\ IsWellFoundedOn(older, Streams) /\ HubConsistent

Served(st) == st.pc \in {"load", "serve"} /\ ~st.closed

LEMMA KeyFinite ==
  ASSUME HubOK, NEW v
  PROVE  IsFiniteSet(OnKey(v)) /\ Cardinality(OnKey(v)) \in Nat
BY FS_Subset, FS_CardinalityType DEF HubOK, OnKey

\* The hub stays as it is, and no stream is opened, closed or ended.
LEMMA HubUntouched ==
  ASSUME HubTypeOK, HubOK, UNCHANGED hubVars,
         \A s \in Streams : /\ Served(stream'[s]) <=> Served(stream[s])
                            /\ Served(stream[s]) => stream'[s].version = stream[s].version
  PROVE  HubTypeOK' /\ HubOK'
<1>1. \A s \in hub : s \in Streams /\ Served(stream[s])
  BY DEF HubTypeOK, HubOK, HubConsistent, Served
<1>2. hub' = hub /\ older' = older /\ total' = total
  BY DEF hubVars
<1>3. \A s \in hub : stream'[s].version = stream[s].version
  BY <1>1
<1>4. \A v : OnKey(v)' = OnKey(v)
  <2>1. ASSUME NEW v, NEW s PROVE s \in OnKey(v)' <=> s \in OnKey(v)
    BY <1>2, <1>3 DEF OnKey
  <2>2. QED
    BY <2>1, Zenon DEF OnKey
<1>5. HubConsistent'
  <2>1. \A s \in Streams : s \in hub' <=> Served(stream'[s])
    BY <1>2 DEF HubOK, HubConsistent, Served
  <2>2. QED
    BY <1>2, <1>4, <2>1 DEF HubOK, HubConsistent, Served
<1>6. QED
  BY <1>2, <1>5 DEF HubOK, HubTypeOK

\* A critical section that removes the streams of S, those that are there.
LEMMA RemoveKeepsHub ==
  ASSUME HubTypeOK, HubOK, NEW S \in SUBSET Streams, RemoveConns(S),
         \A s \in S : ~Served(stream'[s]),
         \A s \in Streams \ S : /\ Served(stream'[s]) <=> Served(stream[s])
                                /\ stream'[s].version = stream[s].version
  PROVE  HubTypeOK' /\ HubOK'
<1>1. IsFiniteSet(hub') /\ Cardinality(hub') = Cardinality(hub) - Cardinality(hub \intersect S)
  BY FS_Difference DEF RemoveConns, HubOK
<1>2. total' = Cardinality(hub')
  <2>1. S \intersect hub = hub \intersect S
    OBVIOUS
  <2>2. QED
    BY <1>1, <2>1 DEF RemoveConns, Registered, HubOK, HubConsistent
<1>3. total' \in Nat /\ total' <= MaxConns
  BY <1>1, <1>2, FS_Subset, FS_CardinalityType, GatewayAssumption
    DEF RemoveConns, HubOK, HubConsistent
<1>4. older' \subseteq older
  BY DEF RemoveConns, Among
<1>5. IsWellFoundedOn(older', Streams)
  BY <1>4, IsWellFoundedOnSubrelation DEF HubOK
<1>6. ASSUME NEW v \in Versions PROVE Cardinality(OnKey(v)') <= MaxPerKey
  <2>1. OnKey(v)' \subseteq OnKey(v)
    BY DEF OnKey, RemoveConns, HubTypeOK
  <2>2. Cardinality(OnKey(v)') <= Cardinality(OnKey(v)) /\ Cardinality(OnKey(v)') \in Nat
    BY <2>1, KeyFinite, FS_Subset, FS_CardinalityType
  <2>3. QED
    BY <2>2, KeyFinite, GatewayAssumption DEF HubOK, HubConsistent
<1>7. \A s \in Streams : s \in hub' <=> Served(stream'[s])
  BY DEF RemoveConns, HubOK, HubConsistent, Served
<1>8. HubTypeOK'
  BY <1>3 DEF HubTypeOK, RemoveConns, Among
<1>9. QED
  BY <1>1, <1>2, <1>3, <1>5, <1>6, <1>7, <1>8 DEF HubOK, HubConsistent, Served

\* A stream that registers is younger than those that stay: a descending chain
\* of the new order leaves it with its first step.
LEMMA YoungestKeepsOrder ==
  ASSUME HubTypeOK, HubOK, NEW s \in Streams, s \notin hub, NEW K \in SUBSET hub
  PROVE  IsWellFoundedOn(Among(K) \union (K \X {s}), Streams)
<1> DEFINE R == Among(K) \union (K \X {s})
<1>1. SUFFICES ASSUME NEW f \in [Nat -> Streams], \A n \in Nat : <<f[n + 1], f[n]>> \in R
              PROVE  FALSE
  BY DEF IsWellFoundedOn
<1> DEFINE g == [n \in Nat |-> f[n + 1]]
<1>2. ASSUME NEW n \in Nat PROVE f[n + 1] # s
  <2>1. <<f[n + 1], f[n]>> \in R
    BY <1>1
  <2>2. f[n + 1] \in K
    BY <2>1 DEF Among
  <2>3. QED
    BY <2>2
<1>3. ASSUME NEW n \in Nat PROVE <<g[n + 1], g[n]>> \in older
  <2>1. n + 1 \in Nat /\ <<f[(n + 1) + 1], f[n + 1]>> \in R
    BY <1>1
  <2>2. <<f[(n + 1) + 1], f[n + 1]>> \in older
    BY <2>1, <1>2 DEF Among
  <2>3. QED
    BY <2>1, <2>2
<1>4. g \in [Nat -> Streams]
  OBVIOUS
<1>5. QED
  BY <1>3, <1>4 DEF HubOK, IsWellFoundedOn

\* At the cap one stream is evicted, or more: the cap holds, so that one has
\* to go, and the order has a least element.
LEMMA EvictsEnough ==
  ASSUME HubTypeOK, HubOK, NEW v \in Versions
  PROVE  LET evicted == OldestStreams(v, Evictable(v)) IN
         /\ evicted \subseteq OnKey(v) /\ IsFiniteSet(evicted)
         /\ Evictable(v) \in {0, 1} /\ Cardinality(evicted) \in Nat
         /\ Cardinality(evicted) >= Evictable(v)
         /\ Cardinality(OnKey(v) \ evicted) < MaxPerKey
<1> DEFINE evicted == OldestStreams(v, Evictable(v))
<1>1. evicted \subseteq OnKey(v) /\ OnKey(v) \subseteq hub
  BY DEF OldestStreams, OnKey
<1>2. /\ IsFiniteSet(evicted) /\ IsFiniteSet(OnKey(v)) /\ Cardinality(evicted) \in Nat
      /\ Cardinality(OnKey(v)) \in Nat /\ Cardinality(OnKey(v)) <= MaxPerKey
  BY <1>1, KeyFinite, FS_Subset, FS_CardinalityType DEF HubOK, HubConsistent
<1>3. MaxPerKey \in Nat \ {0}
  BY GatewayAssumption
<1>4. Cardinality(OnKey(v) \ evicted) = Cardinality(OnKey(v)) - Cardinality(evicted)
  <2>1. OnKey(v) \intersect evicted = evicted
    BY <1>1
  <2>2. QED
    BY <1>2, <2>1, FS_Difference
<1>5. CASE Cardinality(OnKey(v)) < MaxPerKey
  <2>1. Evictable(v) = 0
    BY <1>2, <1>3, <1>5 DEF Evictable
  <2>2. QED
    BY <1>1, <1>2, <1>3, <1>4, <1>5, <2>1
<1>6. CASE Cardinality(OnKey(v)) >= MaxPerKey
  <2>1. Evictable(v) = 1 /\ Cardinality(OnKey(v)) = MaxPerKey
    BY <1>2, <1>3, <1>6 DEF Evictable
  <2>2. OnKey(v) # {} /\ OnKey(v) \subseteq Streams
    BY <1>2, <1>3, <2>1, <1>1, FS_EmptySet DEF HubTypeOK
  <2>3. PICK t \in OnKey(v) : \A u \in OnKey(v) : ~ (<<u, t>> \in older)
    BY <2>2, WFMin DEF HubOK
  <2>4. {u \in OnKey(v) : <<u, t>> \in older} = {}
    BY <2>3
  <2>5. t \in evicted
    <3>1. Cardinality({u \in OnKey(v) : <<u, t>> \in older}) = 0
      BY <2>4, FS_EmptySet
    <3>2. QED
      BY <2>1, <2>3, <3>1 DEF OldestStreams
  <2>6. Cardinality(evicted) >= 1
    BY <1>2, <2>5, FS_EmptySet
  <2>7. QED
    BY <1>1, <1>2, <1>3, <1>4, <2>1, <2>6
<1>7. QED
  BY <1>2, <1>3, <1>5, <1>6

LEMMA RegisterKeepsHub ==
  ASSUME HubTypeOK, HubOK, stream \in [Streams -> StreamType],
         NEW s \in Streams, stream[s].version \in Versions, ~stream[s].closed, Register(s)
  PROVE  HubTypeOK' /\ HubOK'
<1> DEFINE v == stream[s].version
           evicted == OldestStreams(v, Evictable(v))
           stays == hub \ evicted
<1>1. s \notin hub
  BY DEF Register, StreamAt, HubOK, HubConsistent
<1>2. CASE Full(v) /\ stream' = [stream EXCEPT ![s] = IdleStream] /\ UNCHANGED hubVars
  <2>1. \A t \in Streams \ {s} : stream'[t] = stream[t]
    BY <1>2
  <2>2. stream'[s] = IdleStream
    BY <1>2
  <2>3. \A w : OnKey(w)' = OnKey(w)
    BY <1>1, <1>2, <2>1 DEF OnKey, hubVars, HubTypeOK
  <2>4. HubConsistent'
    BY <1>1, <1>2, <2>1, <2>2, <2>3 DEF HubOK, HubConsistent, hubVars, IdleStream
  <2>5. QED
    BY <1>2, <2>4 DEF HubOK, HubTypeOK, hubVars
<1>3. CASE /\ ~Full(v)
           /\ hub' = stays \union {s}
           /\ older' = Among(stays) \union (stays \X {s})
           /\ total' = total - Cardinality(evicted) + 1
           /\ stream' = [t \in Streams |->
                           CASE t = s -> [stream[t] EXCEPT !.pc = "load"]
                             [] t \in evicted -> [stream[t] EXCEPT !.closed = TRUE]
                             [] OTHER -> stream[t]]
  <2>1. /\ evicted \subseteq OnKey(v) /\ Evictable(v) \in {0, 1} /\ Cardinality(evicted) \in Nat
        /\ Cardinality(evicted) >= Evictable(v) /\ Cardinality(OnKey(v) \ evicted) < MaxPerKey
    BY EvictsEnough
  <2>2. evicted \subseteq hub
    BY <2>1 DEF OnKey
  <2>3. IsFiniteSet(stays) /\ Cardinality(stays) = Cardinality(hub) - Cardinality(evicted)
    <3>1. hub \intersect evicted = evicted
      BY <2>2
    <3>2. QED
      BY <3>1, FS_Difference DEF HubOK
  <2>4. IsFiniteSet(hub') /\ Cardinality(hub') = Cardinality(hub) - Cardinality(evicted) + 1
    BY <1>1, <1>3, <2>3, FS_AddElement
  <2>5. total' = Cardinality(hub') /\ total' \in Nat
    BY <1>3, <2>4, FS_CardinalityType DEF HubOK, HubConsistent
  <2>6. total' <= MaxConns
    BY <1>3, <2>1, GatewayAssumption DEF Full, HubTypeOK
  <2>7. IsWellFoundedOn(older', Streams)
    BY <1>1, <1>3, YoungestKeepsOrder
  <2>8. HubTypeOK'
    BY <1>3, <2>5 DEF HubTypeOK, Among
  <2>a. \A t \in Streams : stream'[t].version = stream[t].version
    BY <1>3 DEF StreamType
  <2>9. ASSUME NEW w \in Versions PROVE Cardinality(OnKey(w)') <= MaxPerKey
    <3>1. CASE w = v
      <4>1. OnKey(w)' = (OnKey(v) \ evicted) \union {s}
        BY <1>3, <2>a, <3>1, <2>2 DEF OnKey, HubTypeOK
      <4> DEFINE kept == OnKey(v) \ evicted
      <4>2. IsFiniteSet(kept) /\ Cardinality(kept) \in Nat /\ Cardinality(kept) < MaxPerKey
        BY <2>1, KeyFinite, FS_Difference, FS_CardinalityType
      <4>3. Cardinality(kept \union {s}) = IF s \in kept THEN Cardinality(kept) ELSE Cardinality(kept) + 1
        BY <4>2, FS_AddElement
      <4>4. Cardinality(kept \union {s}) <= MaxPerKey
        <5> HIDE DEF kept
        <5>1. QED
          BY <4>2, <4>3, GatewayAssumption
      <4>5. QED
        BY <4>1, <4>4
    <3>2. CASE w # v
      <4>1. OnKey(w)' \subseteq OnKey(w)
        BY <1>3, <2>a, <3>2, <2>2 DEF OnKey, HubTypeOK
      <4>2. Cardinality(OnKey(w)') <= Cardinality(OnKey(w)) /\ Cardinality(OnKey(w)') \in Nat
        BY <4>1, KeyFinite, FS_Subset, FS_CardinalityType
      <4>3. QED
        BY <4>2, KeyFinite, GatewayAssumption DEF HubOK, HubConsistent
    <3>3. QED
      BY <3>1, <3>2
  <2>10. \A t \in Streams : t \in hub' <=> stream'[t].pc \in {"load", "serve"} /\ ~stream'[t].closed
    <3> SUFFICES ASSUME NEW t \in Streams
                 PROVE  t \in hub' <=> stream'[t].pc \in {"load", "serve"} /\ ~stream'[t].closed
      OBVIOUS
    <3>1. CASE t = s
      <4>1. s \notin evicted /\ stream[s] \in StreamType /\ s \in hub'
        BY <1>1, <1>3, <2>2
      <4>2. stream'[s] = [stream[s] EXCEPT !.pc = "load"]
        BY <1>3, <4>1
      <4>3. stream'[s].pc = "load" /\ ~stream'[s].closed
        BY <4>1, <4>2 DEF StreamType
      <4>4. QED
        BY <3>1, <4>1, <4>3
    <3>2. CASE t # s /\ t \in evicted
      <4>1. stream'[t] = [stream[t] EXCEPT !.closed = TRUE]
        BY <1>3, <3>2
      <4>2. t \notin hub' /\ stream[t] \in StreamType
        BY <1>3, <3>2
      <4>3. QED
        BY <4>1, <4>2 DEF StreamType
    <3>3. CASE t # s /\ t \notin evicted
      BY <1>3, <3>3 DEF HubOK, HubConsistent
    <3>4. QED
      BY <3>1, <3>2, <3>3
  <2>11. QED
    BY <2>4, <2>5, <2>6, <2>7, <2>8, <2>9, <2>10 DEF HubOK, HubConsistent
<1>4. QED
  BY <1>2, <1>3 DEF Register, hubVars

--------------------------------------------------------------------------------
(* The inductive invariant *)

IngestOK ==
  IngestTypeOK /\ \A p \in Posts : post[p].pc # "idle" => post[p].event \in Events
StreamsOK ==
  /\ stream \in [Streams -> StreamType]
  /\ \A s \in Streams : /\ stream[s].pc # "idle" => stream[s].version \in Versions
                        /\ stream[s].closed => stream[s].pc \in {"load", "serve"}
SweepOK == sweep \in SweepType /\ (sweep.pc = "deliver" => sweep.event \in Events)
ApiOK == api \in [Requests -> RequestType]
FaultsOK == faults \in 0..MaxFaults

\* What is under way has its event and its version, and the hub is as it
\* should be: the counter stays a number only because it counts the streams.
GatewayInv ==
  /\ StoreTypeOK /\ SubscriptionTypeOK /\ IngestOK /\ ClientTypeOK
  /\ HubTypeOK /\ HubOK /\ StreamsOK /\ stopping \in BOOLEAN
  /\ SweepOK /\ ApiOK /\ FaultsOK

LEMMA StoreFrame == StoreTypeOK /\ UNCHANGED db => StoreTypeOK'
BY DEF StoreTypeOK, db
LEMMA SubscriptionFrame == SubscriptionTypeOK /\ UNCHANGED subscription => SubscriptionTypeOK'
BY DEF SubscriptionTypeOK, subscription
LEMMA IngestFrame == IngestOK /\ UNCHANGED ingest => IngestOK'
BY DEF IngestOK, IngestTypeOK, ingest
LEMMA ClientFrame == ClientTypeOK /\ UNCHANGED client => ClientTypeOK'
BY DEF ClientTypeOK, client
LEMMA StreamsFrame ==
  HubTypeOK /\ HubOK /\ StreamsOK /\ UNCHANGED streams => HubTypeOK' /\ HubOK' /\ StreamsOK'
<1>1. HubTypeOK /\ HubOK /\ UNCHANGED streams => HubTypeOK' /\ HubOK'
  BY HubUntouched DEF streams, hubVars
<1>2. QED
  BY <1>1 DEF StreamsOK, streams

LEMMA SweepFrame == SweepOK /\ UNCHANGED sweep => SweepOK'
BY DEF SweepOK
LEMMA FaultFrame == FaultsOK /\ (Fault \/ UNCHANGED faults) => FaultsOK'
BY GatewayAssumption DEF FaultsOK, Fault

LEMMA StoreBounds == RedeliverAfter \in Nat /\ MaxDeliveries \in Nat /\ MaxVersions \in Nat
BY StoreAssumption

LEMMA RowUpdates ==
  ASSUME NEW r \in RowType
  PROVE  /\ \A n \in 0..RedeliverAfter : [r EXCEPT !.age = n] \in RowType
         /\ \A n \in 0..MaxDeliveries : [r EXCEPT !.count = n] \in RowType
         /\ \A why \in Reasons : [r EXCEPT !.superseded = why] \in RowType
         /\ [r EXCEPT !.acked = TRUE] \in RowType
         /\ \A id \in Nat : [r EXCEPT !.id = id] \in RowType
         /\ \A v \in Issued : [r EXCEPT !.version = v] \in RowType
<1>1. Issued = {0} \union Versions
  BY StoreBounds DEF Issued, Versions
<1>2. QED
  BY <1>1 DEF RowType

LEMMA ClaimKeepsStore ==
  ASSUME StoreTypeOK, NEW e \in Events, Claimable(e), Claim(e), nextId' = nextId
  PROVE  StoreTypeOK'
<1> DEFINE counted == [rows[e] EXCEPT !.count = @ + 1]
<1>1. rows[e] \in RowType /\ rows[e].count + 1 \in 0..MaxDeliveries
  BY StoreBounds DEF StoreTypeOK, RowType, Claimable
<1>2. counted \in RowType
  BY <1>1, RowUpdates
<1>3. [counted EXCEPT !.age = 0] \in RowType
  <2>1. 0 \in 0..RedeliverAfter
    BY StoreBounds
  <2> HIDE DEF counted
  <2>2. QED
    BY <1>2, <2>1, RowUpdates
<1>4. rows' = [rows EXCEPT ![e] = [counted EXCEPT !.age = 0]]
  BY Zenon DEF Claim
<1>5. QED
  BY <1>3, <1>4 DEF StoreTypeOK

LEMMA SupersedeKeepsStore ==
  ASSUME StoreTypeOK, NEW S, NEW why \in Reasons, Supersede(S, why), nextId' = nextId
  PROVE  StoreTypeOK'
<1> DEFINE marked(e) == [rows[e] EXCEPT !.superseded = why]
<1>1. ASSUME NEW e \in Events PROVE [marked(e) EXCEPT !.age = 0] \in RowType
  <2>1. marked(e) \in RowType
    BY RowUpdates DEF StoreTypeOK
  <2>2. 0 \in 0..RedeliverAfter
    BY StoreBounds
  <2> HIDE DEF marked
  <2>3. QED
    BY <2>1, <2>2, RowUpdates
<1>2. rows' = [e \in Events |-> IF e \in S /\ Pending(e) THEN [marked(e) EXCEPT !.age = 0] ELSE rows[e]]
  BY Zenon DEF Supersede
<1>3. QED
  <2> HIDE DEF marked
  <2>1. QED
    BY <1>1, <1>2 DEF StoreTypeOK

LEMMA NoRowTyped == NoRow \in RowType
BY StoreBounds DEF NoRow, RowType, Reasons

LEMMA InsertKeepsStore ==
  ASSUME StoreTypeOK, NEW e \in Events, NEW v \in Issued, NEW id \in Nat, Insert(e, v, id),
         nextId' = nextId
  PROVE  StoreTypeOK'
<1> DEFINE numbered == [NoRow EXCEPT !.id = id]
<1>1. numbered \in RowType
  BY NoRowTyped, RowUpdates
<1>2. [numbered EXCEPT !.version = v] \in RowType
  <2> HIDE DEF numbered
  <2>1. QED
    BY <1>1, RowUpdates
<1>3. rows' = [rows EXCEPT ![e] = [numbered EXCEPT !.version = v]]
  BY Zenon DEF Insert
<1>4. QED
  <2> HIDE DEF numbered
  <2>1. QED
    BY <1>2, <1>3 DEF StoreTypeOK

\* A delivery to the queues leaves the hub, and what is served, as they are.
LEMMA DeliverKeepsStreams ==
  ASSUME HubTypeOK, HubOK, StreamsOK, NEW e \in Events, NEW redelivery \in BOOLEAN,
         Deliver(e, redelivery), UNCHANGED hubVars
  PROVE  HubTypeOK' /\ HubOK' /\ StreamsOK'
<1>1. ASSUME NEW s \in Streams
      PROVE  /\ stream'[s] \in StreamType /\ stream'[s].version = stream[s].version
             /\ stream'[s].pc = stream[s].pc /\ stream'[s].closed = stream[s].closed
  <2>1. stream[s] \in StreamType /\ [event |-> e, redelivery |-> redelivery] \in Copies
    BY DEF StreamsOK, Copies
  <2>2. Append(stream[s].queue, [event |-> e, redelivery |-> redelivery]) \in Seq(Copies)
    BY <2>1, AppendProperties DEF StreamType
  <2>3. QED
    BY <2>1, <2>2 DEF Deliver, StreamType
<1>2. StreamsOK'
  BY <1>1 DEF StreamsOK, Deliver
<1>3. QED
  BY <1>1, <1>2, HubUntouched DEF Served

--------------------------------------------------------------------------------
(* Ingest *)

LEMMA PostUpdates ==
  ASSUME NEW q \in PostType
  PROVE  /\ \A pc \in {"insert", "commit", "policy", "trim", "claim", "deliver"} :
              [q EXCEPT !.pc = pc] \in PostType
         /\ \A e \in Events : [q EXCEPT !.event = e] \in PostType
         /\ \A id \in Nat : [q EXCEPT !.id = id] \in PostType
         /\ \A drop \in SUBSET Events : [q EXCEPT !.drop = drop] \in PostType
BY DEF PostType

LEMMA IdlePostTyped == IdlePost \in PostType
BY DEF IdlePost, PostType

LEMMA PostChanges ==
  ASSUME IngestOK, NEW p \in Posts, NEW q \in PostType, q.pc # "idle" => q.event \in Events,
         post' = [post EXCEPT ![p] = q], UNCHANGED <<versionOf, posted>>
  PROVE  IngestOK'
<1>1. post' \in [Posts -> PostType] /\ \A r \in Posts : post'[r] = IF r = p THEN q ELSE post[r]
  BY DEF IngestOK, IngestTypeOK
<1>2. QED
  BY <1>1 DEF IngestOK, IngestTypeOK

LEMMA PostReturnsKeeps ==
  ASSUME IngestOK, NEW p \in Posts, PostReturns(p), UNCHANGED <<versionOf, posted>>
  PROVE  IngestOK'
<1>1. IdlePost.pc = "idle"
  BY DEF IdlePost
<1>2. QED
  BY <1>1, IdlePostTyped, PostChanges DEF PostReturns

LEMMA PostMovesKeeps ==
  ASSUME IngestOK, NEW p \in Posts, post[p].pc # "idle",
         NEW pc \in {"insert", "commit", "policy", "trim", "claim", "deliver"},
         PostMoves(p, pc), UNCHANGED <<versionOf, posted>>
  PROVE  IngestOK'
<1> DEFINE q == [post[p] EXCEPT !.pc = pc]
<1>1. post[p] \in PostType /\ post[p].event \in Events
  BY DEF IngestOK, IngestTypeOK
<1>2. q \in PostType /\ q.event = post[p].event
  BY <1>1, PostUpdates DEF PostType
<1>3. post' = [post EXCEPT ![p] = q]
  BY Zenon DEF PostMoves
<1>4. QED
  <2> HIDE DEF q
  <2>1. QED
    BY <1>1, <1>2, <1>3, PostChanges

\* A statement that clears what it has read and moves on.
LEMMA PostDropsKeeps ==
  ASSUME IngestOK, NEW p \in Posts, post[p].pc # "idle", NEW drop \in SUBSET Events,
         NEW pc \in {"insert", "commit", "policy", "trim", "claim", "deliver"},
         post' = [post EXCEPT ![p].pc = pc, ![p].drop = drop], UNCHANGED <<versionOf, posted>>
  PROVE  IngestOK'
<1> DEFINE moved == [post[p] EXCEPT !.pc = pc]
           q == [moved EXCEPT !.drop = drop]
<1>1. post[p] \in PostType /\ post[p].event \in Events
  BY DEF IngestOK, IngestTypeOK
<1>2. moved \in PostType /\ moved.event = post[p].event
  BY <1>1, PostUpdates DEF PostType
<1>3. q \in PostType /\ q.event = post[p].event
  <2> HIDE DEF moved
  <2>1. q \in PostType
    BY <1>2, PostUpdates
  <2>2. q.event = moved.event
    BY <1>2 DEF PostType
  <2>3. QED
    BY <1>2, <2>1, <2>2
<1>4. post' = [post EXCEPT ![p] = q]
  BY Zenon
<1>5. QED
  <2> HIDE DEF q
  <2>1. QED
    BY <1>1, <1>3, <1>4, PostChanges

LEMMA PostAloneFrame ==
  ASSUME GatewayInv, PostAlone
  PROVE  /\ SubscriptionTypeOK' /\ ClientTypeOK' /\ HubTypeOK' /\ HubOK' /\ StreamsOK'
         /\ stopping' \in BOOLEAN /\ SweepOK' /\ ApiOK'
BY SubscriptionFrame, ClientFrame, StreamsFrame, SweepFrame DEF GatewayInv, PostAlone, ApiOK

LEMMA ReceiveKeeps ==
  ASSUME GatewayInv, NEW p \in Posts, NEW e \in Events, Receive(p, e)
  PROVE  GatewayInv'
<1>1. versionOf' \in [Events -> Issued] /\ posted' \in Nat
  BY DEF GatewayInv, IngestOK, IngestTypeOK, SubscriptionTypeOK, Receive
<1> DEFINE begun == [post[p] EXCEPT !.pc = "insert"]
           q == [begun EXCEPT !.event = e]
<1>2. begun \in PostType
  BY PostUpdates DEF GatewayInv, IngestOK, IngestTypeOK
<1>3. q \in PostType /\ q.event = e
  <2> HIDE DEF begun
  <2>1. QED
    BY <1>2, PostUpdates DEF PostType
<1>4. post' = [post EXCEPT ![p] = q] \/ post' = post
  BY Zenon DEF Receive
<1>5. IngestOK'
  <2> HIDE DEF q
  <2>1. CASE post' = post
    BY <1>1, <2>1 DEF GatewayInv, IngestOK, IngestTypeOK
  <2>2. CASE post' = [post EXCEPT ![p] = q]
    <3>1. post' \in [Posts -> PostType] /\ \A r \in Posts : post'[r] = IF r = p THEN q ELSE post[r]
      BY <1>3, <2>2 DEF GatewayInv, IngestOK, IngestTypeOK
    <3>2. QED
      BY <1>1, <1>3, <3>1 DEF GatewayInv, IngestOK, IngestTypeOK
  <2>3. QED
    BY <1>4, <2>1, <2>2
<1>6. QED
  BY <1>5, StoreFrame, SubscriptionFrame, ClientFrame, StreamsFrame, SweepFrame, FaultFrame
    DEF GatewayInv, Receive, ApiOK

\* What a request holds: its event, and the version it was notified for.
LEMMA PostHolds ==
  ASSUME IngestOK, NEW p \in Posts, post[p].pc # "idle"
  PROVE  /\ post[p] \in PostType /\ post[p].event \in Events
         /\ versionOf[post[p].event] \in Issued /\ post[p].id \in Nat
BY DEF IngestOK, IngestTypeOK, PostType

LEMMA IngestKeeps ==
  ASSUME GatewayInv, NEW p \in Posts, Ingest(p) \/ LoseInsert(p) \/ PostFails(p)
  PROVE  GatewayInv'
<1> USE DEF PostAt
<1>1. PostAlone /\ FaultsOK' /\ UNCHANGED <<versionOf, posted>> => (StoreTypeOK' /\ IngestOK' => GatewayInv')
  BY PostAloneFrame DEF GatewayInv
<1>2. StoreTypeOK /\ IngestOK /\ FaultsOK
  BY DEF GatewayInv
<1>3. PostAlone => UNCHANGED <<versionOf, posted>>
  BY DEF PostAlone
<1>4. CASE BeginInsert(p)
  <2>1. StoreTypeOK'
    BY <1>2, <1>4 DEF BeginInsert, StoreTypeOK
  <2>2. IngestOK'
    <3>1. CASE PostReturns(p)
      BY <1>2, <1>3, <1>4, <3>1, PostReturnsKeeps DEF BeginInsert
    <3>2. CASE post' = [post EXCEPT ![p].pc = "commit", ![p].id = nextId]
      <4> DEFINE moved == [post[p] EXCEPT !.pc = "commit"]
                 q == [moved EXCEPT !.id = nextId]
      <4>1. post[p] \in PostType /\ post[p].event \in Events
        BY <1>2, <1>4, PostHolds DEF BeginInsert
      <4>2. moved \in PostType /\ moved.event \in Events
        BY <4>1, PostUpdates DEF PostType
      <4>3. q \in PostType /\ q.event \in Events
        <5> HIDE DEF moved
        <5>1. nextId \in Nat
          BY <1>2 DEF StoreTypeOK
        <5>2. q \in PostType
          BY <4>2, <5>1, PostUpdates
        <5>3. q.event = moved.event
          BY <4>2 DEF PostType
        <5>4. QED
          BY <4>2, <5>2, <5>3
      <4>4. post' = [post EXCEPT ![p] = q]
        BY <3>2, Zenon
      <4>5. QED
        <5> HIDE DEF q
        <5>1. QED
          BY <1>2, <1>3, <1>4, <4>3, <4>4, PostChanges DEF BeginInsert
    <3>3. QED
      BY <1>4, <3>1, <3>2 DEF BeginInsert
  <2>3. QED
    BY <1>1, <1>2, <1>3, <1>4, <2>1, <2>2, FaultFrame DEF BeginInsert
<1>5. CASE CommitInsert(p)
  <2>1. CASE PostReturns(p) /\ UNCHANGED rows
    <3>1. StoreTypeOK' /\ IngestOK'
      BY <1>2, <1>3, <1>5, <2>1, PostReturnsKeeps DEF CommitInsert, StoreTypeOK
    <3>2. QED
      BY <1>1, <1>2, <1>3, <1>5, <3>1, FaultFrame DEF CommitInsert
  <2>2. CASE Insert(post[p].event, versionOf[post[p].event], post[p].id) /\ PostMoves(p, "policy")
    <3>1. StoreTypeOK'
      BY <1>2, <1>5, <2>2, PostHolds, InsertKeepsStore DEF CommitInsert
    <3>2. IngestOK'
      BY <1>2, <1>3, <1>5, <2>2, PostMovesKeeps DEF CommitInsert
    <3>3. QED
      BY <1>1, <1>2, <1>3, <1>5, <3>1, <3>2, FaultFrame DEF CommitInsert
  <2>3. QED
    BY <1>5, <2>1, <2>2 DEF CommitInsert
<1>6. CASE LoseInsert(p)
  <2>1. StoreTypeOK'
    BY <1>2, <1>6, PostHolds, InsertKeepsStore DEF LoseInsert
  <2>2. IngestOK'
    BY <1>2, <1>3, <1>6, PostReturnsKeeps DEF LoseInsert
  <2>3. QED
    BY <1>1, <1>2, <1>3, <1>6, <2>1, <2>2, FaultFrame DEF LoseInsert
<1>7. CASE ApplyLatest(p)
  <2>1. StoreTypeOK'
    BY <1>2, <1>7, SupersedeKeepsStore DEF ApplyLatest, Reasons
  <2>2. IngestOK'
    BY <1>2, <1>3, <1>7, PostMovesKeeps DEF ApplyLatest
  <2>3. QED
    BY <1>1, <1>2, <1>3, <1>7, <2>1, <2>2, FaultFrame DEF ApplyLatest
<1>8. CASE FindOverflow(p)
  <2>1. Overflow(versionOf[post[p].event]) \in SUBSET Events
    BY DEF Overflow, PendingOf
  <2>2. IngestOK'
    BY <1>2, <1>3, <1>8, <2>1, PostDropsKeeps DEF FindOverflow
  <2>3. QED
    BY <1>1, <1>2, <1>3, <1>8, <2>2, StoreFrame, FaultFrame DEF FindOverflow
<1>9. CASE TrimOverflow(p)
  <2>1. StoreTypeOK'
    BY <1>2, <1>9, SupersedeKeepsStore DEF TrimOverflow, Reasons
  <2>2. IngestOK'
    BY <1>2, <1>3, <1>9, PostDropsKeeps DEF TrimOverflow
  <2>3. QED
    BY <1>1, <1>2, <1>3, <1>9, <2>1, <2>2, FaultFrame DEF TrimOverflow
<1>10. CASE ClaimLive(p)
  <2>1. CASE Claimable(post[p].event) /\ Claim(post[p].event) /\ PostMoves(p, "deliver")
    <3>1. StoreTypeOK'
      BY <1>2, <1>10, <2>1, PostHolds, ClaimKeepsStore DEF ClaimLive
    <3>2. IngestOK'
      BY <1>2, <1>3, <1>10, <2>1, PostMovesKeeps DEF ClaimLive
    <3>3. QED
      BY <1>1, <1>2, <1>3, <1>10, <3>1, <3>2, FaultFrame DEF ClaimLive
  <2>2. CASE PostReturns(p) /\ UNCHANGED rows
    <3>1. StoreTypeOK' /\ IngestOK'
      BY <1>2, <1>3, <1>10, <2>2, PostReturnsKeeps DEF ClaimLive, StoreTypeOK
    <3>2. QED
      BY <1>1, <1>2, <1>3, <1>10, <3>1, FaultFrame DEF ClaimLive
  <2>3. QED
    BY <1>10, <2>1, <2>2 DEF ClaimLive
<1>11. CASE DeliverLive(p)
  <2>1. HubTypeOK' /\ HubOK' /\ StreamsOK'
    BY <1>2, <1>11, PostHolds, DeliverKeepsStreams DEF GatewayInv, DeliverLive
  <2>2. IngestOK'
    BY <1>2, <1>11, PostReturnsKeeps DEF DeliverLive
  <2>3. QED
    BY <1>11, <2>1, <2>2, StoreFrame, SubscriptionFrame, ClientFrame, SweepFrame, FaultFrame
      DEF GatewayInv, DeliverLive, ApiOK
<1>12. CASE PostFails(p)
  <2>1. IngestOK'
    <3>1. CASE post' = [post EXCEPT ![p].pc = "claim", ![p].drop = {}]
      BY <1>2, <1>3, <1>12, <3>1, PostDropsKeeps DEF PostFails
    <3>2. CASE PostReturns(p)
      BY <1>2, <1>3, <1>12, <3>2, PostReturnsKeeps DEF PostFails
    <3>3. QED
      BY <1>12, <3>1, <3>2 DEF PostFails
  <2>2. QED
    BY <1>1, <1>2, <1>3, <1>12, <2>1, StoreFrame, FaultFrame DEF PostFails
<1>13. QED
  BY <1>4, <1>5, <1>6, <1>7, <1>8, <1>9, <1>10, <1>11, <1>12 DEF Ingest

--------------------------------------------------------------------------------
(* handleSSE and serveStream *)

LEMMA StreamUpdates ==
  ASSUME NEW q \in StreamType
  PROVE  /\ \A pc \in {"register", "load", "serve"} : [q EXCEPT !.pc = pc] \in StreamType
         /\ \A v \in Issued : [q EXCEPT !.version = v] \in StreamType
         /\ \A n \in Nat : [q EXCEPT !.after = n] \in StreamType
         /\ \A S \in SUBSET Events : [q EXCEPT !.replay = S] \in StreamType
         /\ \A e \in Events \union {NoEvent} : [q EXCEPT !.out = e] \in StreamType
         /\ \A c \in Seq(Copies) : [q EXCEPT !.queue = c] \in StreamType
         /\ \A S \in SUBSET Events : [q EXCEPT !.delivered = S] \in StreamType
         /\ [q EXCEPT !.closed = TRUE] \in StreamType
BY DEF StreamType

LEMMA IdleStreamTyped ==
  IdleStream \in StreamType /\ IdleStream.pc = "idle" /\ ~Served(IdleStream) /\ ~IdleStream.closed
<1>1. <<>> \in Seq(Copies)
  OBVIOUS
<1>2. 0 \in Issued
  BY StoreBounds DEF Issued
<1>3. QED
  BY <1>1, <1>2 DEF IdleStream, StreamType, Served

\* A stream changes what it holds, and neither enters nor leaves the hub.
LEMMA StreamChanges ==
  ASSUME HubTypeOK, HubOK, StreamsOK, UNCHANGED hubVars, NEW s \in Streams, NEW q \in StreamType,
         stream' = [stream EXCEPT ![s] = q], q.pc # "idle" => q.version \in Versions,
         q.closed => q.pc \in {"load", "serve"},
         Served(q) <=> Served(stream[s]), Served(stream[s]) => q.version = stream[s].version
  PROVE  HubTypeOK' /\ HubOK' /\ StreamsOK'
<1>1. stream' \in [Streams -> StreamType] /\ \A t \in Streams : stream'[t] = IF t = s THEN q ELSE stream[t]
  BY DEF StreamsOK
<1>2. StreamsOK'
  BY <1>1 DEF StreamsOK
<1>3. \A t \in Streams : /\ Served(stream'[t]) <=> Served(stream[t])
                         /\ Served(stream[t]) => stream'[t].version = stream[t].version
  BY <1>1
<1>4. QED
  BY <1>2, <1>3, HubUntouched

LEMMA EndStreamKeeps ==
  ASSUME HubTypeOK, HubOK, StreamsOK, NEW s \in Streams, EndStream(s)
  PROVE  HubTypeOK' /\ HubOK' /\ StreamsOK'
<1>1. \A t \in Streams : stream'[t] = IF t = s THEN IdleStream ELSE stream[t]
  BY DEF StreamsOK, EndStream
<1>2. StreamsOK'
  BY <1>1, IdleStreamTyped DEF StreamsOK, EndStream
<1>3. HubTypeOK' /\ HubOK'
  BY <1>1, IdleStreamTyped, RemoveKeepsHub DEF EndStream
<1>4. QED
  BY <1>2, <1>3

\* The streams of S are removed from the hub and closed.
LEMMA CloseHubKeeps ==
  ASSUME HubTypeOK, HubOK, StreamsOK, NEW S \in SUBSET hub, CloseHub(S)
  PROVE  HubTypeOK' /\ HubOK' /\ StreamsOK'
<1>1. ASSUME NEW t \in Streams
      PROVE  /\ stream'[t] \in StreamType /\ stream'[t].pc = stream[t].pc
             /\ stream'[t].version = stream[t].version
             /\ stream'[t].closed = (IF t \in S THEN TRUE ELSE stream[t].closed)
  <2>1. stream'[t] = IF t \in S THEN [stream[t] EXCEPT !.closed = TRUE] ELSE stream[t]
    BY DEF CloseHub, CloseConns
  <2>2. stream[t] \in StreamType
    BY DEF StreamsOK
  <2>3. stream'[t] \in StreamType
    BY <2>1, <2>2, StreamUpdates
  <2>4. QED
    BY <2>1, <2>2, <2>3 DEF StreamType
<1>2. \A t \in S : stream[t].pc \in {"load", "serve"}
  BY DEF HubTypeOK, HubOK, HubConsistent
<1>3. StreamsOK'
  BY <1>1, <1>2 DEF StreamsOK, CloseHub, CloseConns
<1>4. S \in SUBSET Streams
  BY DEF HubTypeOK
<1>5. HubTypeOK' /\ HubOK'
  BY <1>1, <1>4, RemoveKeepsHub DEF CloseHub, Served
<1>6. QED
  BY <1>3, <1>5

LEMMA StreamAloneFrame ==
  ASSUME GatewayInv, StreamAlone
  PROVE  SubscriptionTypeOK' /\ IngestOK' /\ stopping' \in BOOLEAN /\ SweepOK' /\ ApiOK'
BY SubscriptionFrame, IngestFrame, SweepFrame DEF GatewayInv, StreamAlone, ApiOK

LEMMA FrameKeepsClient ==
  ASSUME ClientTypeOK, StoreTypeOK, NEW s, NEW e \in Events, Frame(s, e)
  PROVE  ClientTypeOK'
<1>1. rows[e].id \in Nat
  BY DEF StoreTypeOK, RowType
<1>2. lastSeen' \in [Versions -> Nat]
  BY <1>1 DEF ClientTypeOK, Frame
<1>3. frames' \in [Events -> Nat]
  BY DEF ClientTypeOK, Frame
<1>4. QED
  BY <1>2, <1>3 DEF ClientTypeOK, Frame

LEMMA AuthenticateKeeps ==
  ASSUME GatewayInv, NEW s \in Streams, NEW v \in Versions, Authenticate(s, v)
  PROVE  GatewayInv'
<1>1. stream[s] \in StreamType /\ stream[s].pc = "idle" /\ ~stream[s].closed /\ v \in Issued
  BY StoreBounds DEF GatewayInv, StreamsOK, Authenticate, StreamAt, Issued, Versions
<1>2. PICK after \in {0, lastSeen[v]} :
        stream' = [stream EXCEPT ![s].pc = "register", ![s].version = v, ![s].after = after]
  BY DEF Authenticate
<1>3. after \in Nat
  BY DEF GatewayInv, ClientTypeOK
<1> DEFINE moved == [stream[s] EXCEPT !.pc = "register"]
           keyed == [moved EXCEPT !.version = v]
           q == [keyed EXCEPT !.after = after]
<1>4. moved \in StreamType /\ moved.pc = "register" /\ ~moved.closed
  BY <1>1, StreamUpdates DEF StreamType
<1>5. keyed \in StreamType /\ keyed.pc = "register" /\ keyed.version = v /\ ~keyed.closed
  <2> HIDE DEF moved
  <2>1. keyed \in StreamType
    BY <1>1, <1>4, StreamUpdates
  <2>2. QED
    BY <1>4, <2>1 DEF StreamType
<1>6. q \in StreamType /\ q.pc = "register" /\ q.version = v /\ ~q.closed
  <2> HIDE DEF keyed
  <2>1. q \in StreamType
    BY <1>3, <1>5, StreamUpdates
  <2>2. QED
    BY <1>5, <2>1 DEF StreamType
<1>7. stream' = [stream EXCEPT ![s] = q]
  BY <1>2, Zenon
<1>8. HubTypeOK' /\ HubOK' /\ StreamsOK'
  <2> HIDE DEF q
  <2>1. QED
    BY <1>1, <1>6, <1>7, StreamChanges DEF GatewayInv, Authenticate, Served
<1>9. QED
  BY <1>8, StreamAloneFrame, StoreFrame, ClientFrame, FaultFrame DEF GatewayInv, Authenticate

LEMMA EvictedServed ==
  ASSUME GatewayInv, NEW v, NEW n, NEW t \in OldestStreams(v, n)
  PROVE  stream[t].pc \in {"load", "serve"}
<1>1. t \in hub /\ t \in Streams
  BY DEF OldestStreams, OnKey, GatewayInv, HubTypeOK
<1>2. QED
  BY <1>1 DEF GatewayInv, HubOK, HubConsistent

LEMMA RegisterKeeps ==
  ASSUME GatewayInv, NEW s \in Streams, Register(s)
  PROVE  GatewayInv'
<1>1. stream[s].pc = "register" /\ stream[s].version \in Versions /\ ~stream[s].closed
  BY DEF GatewayInv, StreamsOK, Register, StreamAt
<1>2. HubTypeOK' /\ HubOK'
  BY <1>1, RegisterKeepsHub DEF GatewayInv, StreamsOK
<1>3. StreamsOK'
  <2> DEFINE evicted == OldestStreams(stream[s].version, Evictable(stream[s].version))
  <2>1. \/ stream' = [stream EXCEPT ![s] = IdleStream]
        \/ stream' = [t \in Streams |->
                        CASE t = s -> [stream[t] EXCEPT !.pc = "load"]
                          [] t \in evicted -> [stream[t] EXCEPT !.closed = TRUE]
                          [] OTHER -> stream[t]]
    BY DEF Register
  <2>2. s \notin evicted
    <3>1. s \notin hub
      BY <1>1 DEF GatewayInv, HubOK, HubConsistent
    <3>2. QED
      BY <3>1 DEF OldestStreams, OnKey
  <2> HIDE DEF evicted
  <2>3. CASE stream' = [stream EXCEPT ![s] = IdleStream]
    BY <2>3, IdleStreamTyped DEF GatewayInv, StreamsOK
  <2>4. CASE stream' = [t \in Streams |->
                          CASE t = s -> [stream[t] EXCEPT !.pc = "load"]
                            [] t \in evicted -> [stream[t] EXCEPT !.closed = TRUE]
                            [] OTHER -> stream[t]]
    <3>1. ASSUME NEW t \in Streams
          PROVE  /\ stream'[t] \in StreamType
                 /\ stream'[t].pc # "idle" => stream'[t].version \in Versions
                 /\ stream'[t].closed => stream'[t].pc \in {"load", "serve"}
      <4>1. /\ stream[t] \in StreamType /\ (stream[t].pc # "idle" => stream[t].version \in Versions)
            /\ stream[t].closed => stream[t].pc \in {"load", "serve"}
        BY DEF GatewayInv, StreamsOK
      <4>2. CASE t = s
        <5>1. stream'[t] = [stream[t] EXCEPT !.pc = "load"]
          BY <2>4, <2>2, <4>2
        <5>2. stream'[t] \in StreamType
          BY <4>1, <5>1, StreamUpdates
        <5>3. stream'[t].version = stream[t].version /\ stream'[t].pc = "load"
          BY <4>1, <5>1 DEF StreamType
        <5>4. QED
          BY <1>1, <4>2, <5>2, <5>3
      <4>3. CASE t # s /\ t \in evicted
        <5>1. stream'[t] = [stream[t] EXCEPT !.closed = TRUE]
          BY <2>4, <4>3
        <5>2. stream'[t] \in StreamType
          BY <4>1, <5>1, StreamUpdates
        <5>3. stream'[t].version = stream[t].version /\ stream'[t].pc = stream[t].pc
          BY <4>1, <5>1 DEF StreamType
        <5>4. stream[t].pc \in {"load", "serve"}
          BY <4>3, EvictedServed DEF evicted
        <5>5. QED
          BY <4>1, <5>2, <5>3, <5>4
      <4>4. CASE t # s /\ t \notin evicted
        <5>1. stream'[t] = stream[t]
          BY <2>4, <4>4
        <5>2. QED
          BY <4>1, <5>1
      <4>5. QED
        BY <4>2, <4>3, <4>4
    <3>2. QED
      BY <2>4, <3>1 DEF StreamsOK
  <2>5. QED
    BY <2>3, <2>4, <2>1
<1>4. QED
  BY <1>2, <1>3, StreamAloneFrame, StoreFrame, ClientFrame, FaultFrame DEF GatewayInv, Register

\* The replay is read, or given up.
LEMMA ReplayKeeps ==
  ASSUME HubTypeOK, HubOK, StreamsOK, UNCHANGED hubVars, NEW s \in Streams,
         stream[s].pc \in {"load", "serve"}, NEW S \in SUBSET Events,
         stream' = [stream EXCEPT ![s].pc = "serve", ![s].replay = S]
  PROVE  HubTypeOK' /\ HubOK' /\ StreamsOK'
<1> DEFINE moved == [stream[s] EXCEPT !.pc = "serve"]
           q == [moved EXCEPT !.replay = S]
<1>1. stream[s] \in StreamType /\ stream[s].version \in Versions
  BY DEF StreamsOK
<1>2. /\ moved \in StreamType /\ moved.pc = "serve" /\ moved.version = stream[s].version
      /\ moved.closed = stream[s].closed
  <2>1. moved \in StreamType
    BY <1>1, StreamUpdates
  <2>2. QED
    BY <1>1, <2>1 DEF StreamType
<1>3. q \in StreamType /\ q.pc = "serve" /\ q.version = stream[s].version /\ q.closed = stream[s].closed
  <2> HIDE DEF moved
  <2>1. q \in StreamType
    BY <1>2, StreamUpdates
  <2>2. QED
    BY <1>2, <2>1 DEF StreamType
<1>4. stream' = [stream EXCEPT ![s] = q]
  BY Zenon
<1>5. QED
  <2> HIDE DEF q
  <2>1. Served(q) <=> Served(stream[s])
    BY <1>3 DEF Served
  <2>2. QED
    BY <1>1, <1>3, <1>4, <2>1, StreamChanges

\* What a stream does between two selects of its loop leaves its state alone.
LEMMA LoopKeeps ==
  ASSUME HubTypeOK, HubOK, StreamsOK, UNCHANGED hubVars, NEW s \in Streams,
         NEW q \in StreamType, q.pc = stream[s].pc, q.version = stream[s].version,
         q.closed = stream[s].closed, stream' = [stream EXCEPT ![s] = q]
  PROVE  HubTypeOK' /\ HubOK' /\ StreamsOK'
<1>1. (q.pc # "idle" => q.version \in Versions) /\ (q.closed => q.pc \in {"load", "serve"})
  BY DEF StreamsOK
<1>2. Served(q) <=> Served(stream[s])
  BY DEF Served
<1>3. QED
  BY <1>1, <1>2, StreamChanges

LEMMA ClaimReplayKeeps ==
  ASSUME GatewayInv, NEW s \in Streams, ClaimReplay(s)
  PROVE  GatewayInv'
<1> DEFINE e == Oldest(stream[s].replay)
           left == stream[s].replay \ {e}
           read == [stream[s] EXCEPT !.replay = left]
           q == [read EXCEPT !.out = e]
<1>1. stream[s] \in StreamType
  BY DEF GatewayInv, StreamsOK
<1>2. stream[s].replay \in SUBSET Events /\ stream[s].replay # {}
  BY <1>1 DEF StreamType, ClaimReplay
<1>3. e \in Events
  BY <1>2, OldestIsMember DEF GatewayInv
<1>4. /\ read \in StreamType /\ read.pc = stream[s].pc /\ read.version = stream[s].version
      /\ read.closed = stream[s].closed
  <2>1. left \in SUBSET Events
    BY <1>2
  <2> HIDE DEF left
  <2>2. read \in StreamType
    BY <1>1, <2>1, StreamUpdates
  <2>3. QED
    BY <1>1, <2>2 DEF StreamType
<1>5. /\ q \in StreamType /\ q.pc = stream[s].pc /\ q.version = stream[s].version
      /\ q.closed = stream[s].closed
  <2> HIDE DEF read, e
  <2>1. q \in StreamType
    BY <1>3, <1>4, StreamUpdates
  <2>2. QED
    BY <1>4, <2>1 DEF StreamType
<1>6. \/ Claimable(e) /\ Claim(e) /\ stream' = [stream EXCEPT ![s] = q]
      \/ stream' = [stream EXCEPT ![s] = read] /\ UNCHANGED rows
  BY Zenon DEF ClaimReplay
<1> HIDE DEF e, left, read, q
<1>7. StoreTypeOK'
  BY <1>3, <1>6, ClaimKeepsStore DEF GatewayInv, ClaimReplay, StoreTypeOK
<1>8. HubTypeOK' /\ HubOK' /\ StreamsOK'
  BY <1>4, <1>5, <1>6, LoopKeeps DEF GatewayInv, ClaimReplay
<1>9. QED
  BY <1>7, <1>8, StreamAloneFrame, ClientFrame, FaultFrame DEF GatewayInv, ClaimReplay

LEMMA SendReplayKeeps ==
  ASSUME GatewayInv, NEW s \in Streams, SendReplay(s)
  PROVE  GatewayInv'
<1> DEFINE sent == stream[s].delivered \union {stream[s].out}
           noted == [stream[s] EXCEPT !.delivered = sent]
           q == [noted EXCEPT !.out = NoEvent]
<1>1. stream[s] \in StreamType
  BY DEF GatewayInv, StreamsOK
<1>2. stream[s].out \in Events /\ stream[s].delivered \in SUBSET Events
  BY <1>1 DEF StreamType, SendReplay
<1>3. /\ noted \in StreamType /\ noted.pc = stream[s].pc /\ noted.version = stream[s].version
      /\ noted.closed = stream[s].closed
  <2>1. sent \in SUBSET Events
    BY <1>2
  <2> HIDE DEF sent
  <2>2. noted \in StreamType
    BY <1>1, <2>1, StreamUpdates
  <2>3. QED
    BY <1>1, <2>2 DEF StreamType
<1>4. /\ q \in StreamType /\ q.pc = stream[s].pc /\ q.version = stream[s].version
      /\ q.closed = stream[s].closed
  <2> HIDE DEF noted
  <2>1. q \in StreamType
    BY <1>3, StreamUpdates
  <2>2. QED
    BY <1>3, <2>1 DEF StreamType
<1>5. stream' = [stream EXCEPT ![s] = q]
  BY Zenon DEF SendReplay
<1> HIDE DEF sent, noted, q
<1>6. ClientTypeOK'
  BY <1>2, FrameKeepsClient DEF GatewayInv, SendReplay
<1>7. HubTypeOK' /\ HubOK' /\ StreamsOK'
  BY <1>4, <1>5, LoopKeeps DEF GatewayInv, SendReplay
<1>8. QED
  BY <1>6, <1>7, StreamAloneFrame, StoreFrame, FaultFrame DEF GatewayInv, SendReplay

LEMMA SendQueuedKeeps ==
  ASSUME GatewayInv, NEW s \in Streams, SendQueued(s)
  PROVE  GatewayInv'
<1> DEFINE copy == Head(stream[s].queue)
           rest == Tail(stream[s].queue)
           sent == stream[s].delivered \union {copy.event}
           taken == [stream[s] EXCEPT !.queue = rest]
           q == [taken EXCEPT !.delivered = sent]
<1>1. stream[s] \in StreamType
  BY DEF GatewayInv, StreamsOK
<1>2. stream[s].queue \in Seq(Copies) /\ stream[s].queue # <<>> /\ stream[s].delivered \in SUBSET Events
  BY <1>1 DEF StreamType, SendQueued
<1>3. copy \in Copies /\ rest \in Seq(Copies)
  BY <1>2, HeadTailProperties
<1>4. copy.event \in Events /\ sent \in SUBSET Events
  BY <1>2, <1>3 DEF Copies
<1>5. /\ taken \in StreamType /\ taken.pc = stream[s].pc /\ taken.version = stream[s].version
      /\ taken.closed = stream[s].closed
  <2> HIDE DEF rest
  <2>1. taken \in StreamType
    BY <1>1, <1>3, StreamUpdates
  <2>2. QED
    BY <1>1, <2>1 DEF StreamType
<1>6. /\ q \in StreamType /\ q.pc = stream[s].pc /\ q.version = stream[s].version
      /\ q.closed = stream[s].closed
  <2> HIDE DEF taken, sent
  <2>1. q \in StreamType
    BY <1>4, <1>5, StreamUpdates
  <2>2. QED
    BY <1>5, <2>1 DEF StreamType
<1>7. \/ stream' = [stream EXCEPT ![s] = taken] /\ UNCHANGED client
      \/ Frame(s, copy.event) /\ stream' = [stream EXCEPT ![s] = q]
  BY Zenon DEF SendQueued
<1> HIDE DEF copy, rest, sent, taken, q
<1>8. ClientTypeOK'
  BY <1>4, <1>7, FrameKeepsClient, ClientFrame DEF GatewayInv
<1>9. HubTypeOK' /\ HubOK' /\ StreamsOK'
  BY <1>5, <1>6, <1>7, LoopKeeps DEF GatewayInv, SendQueued
<1>10. QED
  BY <1>8, <1>9, StreamAloneFrame, StoreFrame, FaultFrame DEF GatewayInv, SendQueued

LEMMA ServeKeeps ==
  ASSUME GatewayInv, NEW s \in Streams, Serve(s) \/ ReplayFails(s) \/ Disconnect(s)
  PROVE  GatewayInv'
<1>1. HubTypeOK /\ HubOK /\ StreamsOK
  BY DEF GatewayInv
<1>2. CASE LoadReplay(s)
  <2>1. Replay(stream[s].version, stream[s].after) \in SUBSET Events
    BY DEF Replay, PendingOf
  <2>2. HubTypeOK' /\ HubOK' /\ StreamsOK'
    BY <1>1, <1>2, <2>1, ReplayKeeps DEF LoadReplay, StreamAt
  <2>3. QED
    BY <1>2, <2>2, StreamAloneFrame, StoreFrame, ClientFrame, FaultFrame DEF GatewayInv, LoadReplay
<1>3. CASE ReplayFails(s)
  <2>1. stream[s].pc \in {"load", "serve"}
    BY <1>3 DEF ReplayFails, StreamAt
  <2>2. {} \in SUBSET Events
    OBVIOUS
  <2>3. stream' = [stream EXCEPT ![s].pc = "serve", ![s].replay = {}] /\ UNCHANGED hubVars
    BY <1>3, Zenon DEF ReplayFails
  <2>4. HubTypeOK' /\ HubOK' /\ StreamsOK'
    BY <1>1, <2>1, <2>2, <2>3, ReplayKeeps
  <2>5. QED
    BY <1>3, <2>4, StreamAloneFrame, StoreFrame, ClientFrame, FaultFrame DEF GatewayInv, ReplayFails
<1>4. CASE SeeClosed(s)
  BY <1>1, <1>4, EndStreamKeeps, StreamAloneFrame, StoreFrame, ClientFrame, FaultFrame
    DEF GatewayInv, SeeClosed
<1>5. CASE Disconnect(s)
  BY <1>1, <1>5, EndStreamKeeps, StreamAloneFrame, StoreFrame, ClientFrame, FaultFrame
    DEF GatewayInv, Disconnect
<1>6. QED
  BY <1>2, <1>3, <1>4, <1>5, RegisterKeeps, ClaimReplayKeeps, SendReplayKeeps, SendQueuedKeeps
    DEF Serve

--------------------------------------------------------------------------------
(* Acknowledgements, the clock and the retention *)

LEMMA AckKeeps ==
  ASSUME GatewayInv, NEW e \in Events, ValidateAck(e) \/ AckEvent(e)
  PROVE  GatewayInv'
<1>1. CASE ValidateAck(e)
  <2>1. ClientTypeOK'
    BY <1>1 DEF GatewayInv, ClientTypeOK, ValidateAck
  <2>2. QED
    BY <1>1, <2>1, StoreFrame, SubscriptionFrame, IngestFrame, StreamsFrame, SweepFrame, FaultFrame
      DEF GatewayInv, ValidateAck, ApiOK
<1>2. CASE AckEvent(e)
  <2> DEFINE acked == [rows[e] EXCEPT !.acked = TRUE]
  <2>1. acked \in RowType
    BY RowUpdates DEF GatewayInv, StoreTypeOK
  <2>2. 0 \in 0..RedeliverAfter
    BY StoreBounds
  <2>3. [acked EXCEPT !.age = 0] \in RowType
    <3> HIDE DEF acked
    <3>1. QED
      BY <2>1, <2>2, RowUpdates
  <2>4. rows' = [rows EXCEPT ![e] = [acked EXCEPT !.age = 0]]
    BY <1>2, Zenon DEF AckEvent, Ack
  <2>5. StoreTypeOK'
    <3> HIDE DEF acked
    <3>1. QED
      BY <1>2, <2>3, <2>4 DEF GatewayInv, StoreTypeOK, AckEvent
  <2>6. ClientTypeOK'
    BY <1>2 DEF GatewayInv, ClientTypeOK, AckEvent
  <2>7. QED
    BY <1>2, <2>5, <2>6, SubscriptionFrame, IngestFrame, StreamsFrame, SweepFrame, FaultFrame
      DEF GatewayInv, AckEvent, ApiOK
<1>3. QED
  BY <1>1, <1>2

LEMMA TickKeeps ==
  ASSUME GatewayInv, Tick
  PROVE  GatewayInv'
<1>1. ASSUME NEW e \in Events PROVE rows'[e] \in RowType
  <2>1. rows[e] \in RowType /\ rows'[e] = Aged[e]
    BY DEF GatewayInv, StoreTypeOK, Tick, Aged
  <2>2. CASE Pending(e) /\ ~Late(e)
    <3>1. rows[e].age + 1 \in 0..RedeliverAfter
      BY <2>1, <2>2, StoreBounds DEF RowType, Late
    <3>2. rows'[e] = [rows[e] EXCEPT !.age = rows[e].age + 1]
      BY <2>1, <2>2 DEF Aged
    <3>3. QED
      BY <2>1, <3>1, <3>2, RowUpdates
  <2>3. CASE ~(Pending(e) /\ ~Late(e))
    BY <2>1, <2>3 DEF Aged
  <2>4. QED
    BY <2>2, <2>3
<1>2. StoreTypeOK'
  BY <1>1 DEF GatewayInv, StoreTypeOK, Tick, Aged
<1>3. QED
  BY <1>2, SubscriptionFrame, IngestFrame, ClientFrame, StreamsFrame, SweepFrame, FaultFrame
    DEF GatewayInv, Tick, ApiOK

LEMMA CollectKeeps ==
  ASSUME GatewayInv, CollectGarbage
  PROVE  GatewayInv'
<1>1. PICK S \in SUBSET Events : DeleteExpired(S)
  <2>1. PICK v \in Versions : DeleteExpired({e \in Events : Stored(e) /\ rows[e].version = v})
    BY DEF CollectGarbage
  <2>2. {e \in Events : Stored(e) /\ rows[e].version = v} \in SUBSET Events
    OBVIOUS
  <2>3. QED
    BY <2>1, <2>2
<1>2. StoreTypeOK'
  BY <1>1, NoRowTyped DEF GatewayInv, StoreTypeOK, CollectGarbage, DeleteExpired
<1>3. QED
  BY <1>2, SubscriptionFrame, IngestFrame, ClientFrame, StreamsFrame, SweepFrame, FaultFrame
    DEF GatewayInv, CollectGarbage, SweepAlone, ApiOK

--------------------------------------------------------------------------------
(* Sweep *)

LEMMA SweepUpdates ==
  ASSUME NEW q \in SweepType
  PROVE  /\ \A pc \in {"check", "close", "exhaust", "overdue", "claim", "deliver"} :
              [q EXCEPT !.pc = pc] \in SweepType /\ [q EXCEPT !.pc = pc].pc = pc
         /\ \A K \in SUBSET Issued : [q EXCEPT !.keys = K] \in SweepType
         /\ \A K \in SUBSET Issued : [q EXCEPT !.live = K] \in SweepType
         /\ \A S \in SUBSET Events : [q EXCEPT !.overdue = S] \in SweepType
         /\ \A e \in Events \union {NoEvent} : [q EXCEPT !.event = e] \in SweepType
BY DEF SweepType

LEMMA IdleSweepTyped == IdleSweep \in SweepType /\ IdleSweep.pc = "idle"
BY DEF IdleSweep, SweepType

LEMMA SweepAloneFrame ==
  ASSUME GatewayInv, SweepAlone
  PROVE  SubscriptionTypeOK' /\ IngestOK' /\ stopping' \in BOOLEAN /\ ApiOK' /\ ClientTypeOK'
BY SubscriptionFrame, IngestFrame, ClientFrame DEF GatewayInv, SweepAlone, ApiOK

\* The statements of the sweep that read the store and the hub only.
LEMMA SweepReadsKeep ==
  ASSUME GatewayInv, SweepAlone, SweepOK', UNCHANGED <<db, streams>>, Fault \/ UNCHANGED faults
  PROVE  GatewayInv'
BY SweepAloneFrame, StoreFrame, StreamsFrame, FaultFrame DEF GatewayInv

LEMMA BeginSweepKeeps ==
  ASSUME GatewayInv, BeginSweep
  PROVE  GatewayInv'
<1> DEFINE keys == {stream[s].version : s \in hub}
           begun == [IdleSweep EXCEPT !.pc = "check"]
<1>1. keys \in SUBSET Issued
  <2>1. ASSUME NEW s \in hub PROVE stream[s].version \in Issued
    <3>1. stream[s] \in StreamType
      BY DEF GatewayInv, HubTypeOK, StreamsOK
    <3>2. QED
      BY <3>1 DEF StreamType
  <2>2. QED
    BY <2>1
<1>2. begun \in SweepType /\ begun.pc = "check"
  BY IdleSweepTyped, SweepUpdates DEF IdleSweep
<1>3. sweep' = [begun EXCEPT !.keys = keys]
  BY Zenon DEF BeginSweep
<1>4. SweepOK'
  <2> HIDE DEF keys, begun
  <2>1. sweep' \in SweepType
    BY <1>1, <1>2, <1>3, SweepUpdates
  <2>2. sweep'.pc = "check"
    BY <1>2, <1>3 DEF SweepType
  <2>3. QED
    BY <2>1, <2>2 DEF SweepOK
<1>5. QED
  BY <1>4, SweepReadsKeep DEF BeginSweep

LEMMA CheckSubscriptionKeeps ==
  ASSUME GatewayInv, CheckSubscription
  PROVE  GatewayInv'
<1> DEFINE live == {v \in sweep.keys : Live(v)}
           moved == [sweep EXCEPT !.pc = "close"]
<1>1. sweep \in SweepType
  BY DEF GatewayInv, SweepOK
<1>2. live \in SUBSET Issued
  BY <1>1 DEF SweepType
<1>3. moved \in SweepType /\ moved.pc = "close"
  BY <1>1, SweepUpdates
<1>4. sweep' = [moved EXCEPT !.live = live]
  BY Zenon DEF CheckSubscription
<1>5. SweepOK'
  <2> HIDE DEF live, moved
  <2>1. sweep' \in SweepType
    BY <1>2, <1>3, <1>4, SweepUpdates
  <2>2. sweep'.pc = "close"
    BY <1>3, <1>4 DEF SweepType
  <2>3. QED
    BY <2>1, <2>2 DEF SweepOK
<1>6. QED
  BY <1>5, SweepReadsKeep DEF CheckSubscription

LEMMA CloseStaleKeeps ==
  ASSUME GatewayInv, NEW v \in Versions, CloseStale(v)
  PROVE  GatewayInv'
<1>1. sweep \in SweepType /\ sweep.pc = "close"
  BY DEF GatewayInv, SweepOK, CloseStale, SweepAt
<1>2. sweep' = [sweep EXCEPT !.keys = sweep.keys \ {v}]
  BY DEF CloseStale
<1>3. SweepOK'
  <2>1. sweep.keys \ {v} \in SUBSET Issued
    BY <1>1 DEF SweepType
  <2>2. sweep' \in SweepType
    BY <1>1, <1>2, <2>1, SweepUpdates
  <2>3. sweep'.pc = "close"
    BY <1>1, <1>2 DEF SweepType
  <2>4. QED
    BY <2>2, <2>3 DEF SweepOK
<1>4. HubTypeOK' /\ HubOK' /\ StreamsOK'
  <2>1. OnKey(v) \in SUBSET hub
    BY DEF OnKey
  <2>2. QED
    BY <2>1, CloseHubKeeps DEF GatewayInv, CloseStale
<1>5. QED
  BY <1>3, <1>4, SweepAloneFrame, StoreFrame, FaultFrame DEF GatewayInv, CloseStale

LEMMA StaleClosedKeeps ==
  ASSUME GatewayInv, StaleClosed
  PROVE  GatewayInv'
<1> DEFINE moved == [sweep EXCEPT !.pc = "exhaust"]
<1>1. sweep \in SweepType
  BY DEF GatewayInv, SweepOK
<1>2. moved \in SweepType /\ moved.pc = "exhaust"
  BY <1>1, SweepUpdates
<1>3. sweep' = [moved EXCEPT !.keys = {}]
  BY Zenon DEF StaleClosed
<1>4. SweepOK'
  <2> HIDE DEF moved
  <2>1. sweep' \in SweepType
    BY <1>2, <1>3, SweepUpdates
  <2>2. sweep'.pc = "exhaust"
    BY <1>2, <1>3 DEF SweepType
  <2>3. QED
    BY <2>1, <2>2 DEF SweepOK
<1>5. QED
  BY <1>4, SweepReadsKeep DEF StaleClosed

LEMMA SupersedeExhaustedKeeps ==
  ASSUME GatewayInv, SupersedeExhausted
  PROVE  GatewayInv'
<1>1. SweepOK'
  <2>1. sweep \in SweepType /\ sweep' = [sweep EXCEPT !.pc = "overdue"]
    BY DEF GatewayInv, SweepOK, SupersedeExhausted
  <2>2. sweep' \in SweepType /\ sweep'.pc = "overdue"
    BY <2>1, SweepUpdates
  <2>3. QED
    BY <2>2 DEF SweepOK
<1>2. StoreTypeOK'
  BY SupersedeKeepsStore DEF GatewayInv, SupersedeExhausted, Reasons
<1>3. QED
  BY <1>1, <1>2, SweepAloneFrame, StreamsFrame, FaultFrame DEF GatewayInv, SupersedeExhausted

LEMMA ReadOverdueKeeps ==
  ASSUME GatewayInv, ReadOverdue
  PROVE  GatewayInv'
<1> DEFINE read == {e \in Overdue : versionOf[e] \in sweep.live}
           moved == [sweep EXCEPT !.pc = "claim"]
<1>1. sweep \in SweepType /\ read \in SUBSET Events
  BY DEF GatewayInv, SweepOK, Overdue
<1>2. moved \in SweepType /\ moved.pc = "claim"
  BY <1>1, SweepUpdates
<1>3. sweep' = [moved EXCEPT !.overdue = read]
  BY Zenon DEF ReadOverdue
<1>4. SweepOK'
  <2> HIDE DEF moved, read
  <2>1. sweep' \in SweepType
    BY <1>1, <1>2, <1>3, SweepUpdates
  <2>2. sweep'.pc = "claim"
    BY <1>2, <1>3 DEF SweepType
  <2>3. QED
    BY <2>1, <2>2 DEF SweepOK
<1>5. QED
  BY <1>4, SweepReadsKeep DEF ReadOverdue

LEMMA ClaimOverdueKeeps ==
  ASSUME GatewayInv, ClaimOverdue
  PROVE  GatewayInv'
<1> DEFINE e == Oldest(sweep.overdue)
           left == sweep.overdue \ {e}
           read == [sweep EXCEPT !.overdue = left]
           moved == [sweep EXCEPT !.pc = "deliver"]
           taken == [moved EXCEPT !.overdue = left]
           q == [taken EXCEPT !.event = e]
<1>1. sweep \in SweepType /\ sweep.pc = "claim"
  BY DEF GatewayInv, SweepOK, ClaimOverdue, SweepAt
<1>2. sweep.overdue \in SUBSET Events /\ sweep.overdue # {}
  BY <1>1 DEF SweepType, ClaimOverdue
<1>3. e \in Events /\ left \in SUBSET Events
  BY <1>2, OldestIsMember DEF GatewayInv
<1>4. \/ Claimable(e) /\ Claim(e) /\ sweep' = q
      \/ sweep' = read /\ UNCHANGED rows
  BY Zenon DEF ClaimOverdue
<1>5. moved \in SweepType
  BY <1>1, SweepUpdates
<1> HIDE DEF e, left, moved
<1>6. taken \in SweepType /\ read \in SweepType
  BY <1>1, <1>3, <1>5, SweepUpdates
<1>7. read.pc = "claim"
  BY <1>1 DEF SweepType
<1> HIDE DEF taken, read
<1>8. q \in SweepType /\ q.event = e
  <2>1. q \in SweepType
    BY <1>3, <1>6, SweepUpdates
  <2>2. QED
    BY <1>6, <2>1 DEF SweepType
<1> HIDE DEF q
<1>9. SweepOK'
  BY <1>3, <1>4, <1>6, <1>7, <1>8 DEF SweepOK
<1>10. StoreTypeOK'
  BY <1>3, <1>4, ClaimKeepsStore DEF GatewayInv, ClaimOverdue, StoreTypeOK
<1>11. QED
  BY <1>9, <1>10, SweepAloneFrame, StreamsFrame, FaultFrame DEF GatewayInv, ClaimOverdue

LEMMA DeliverOverdueKeeps ==
  ASSUME GatewayInv, DeliverOverdue
  PROVE  GatewayInv'
<1> DEFINE moved == [sweep EXCEPT !.pc = "claim"]
<1>1. sweep \in SweepType /\ sweep.event \in Events
  BY DEF GatewayInv, SweepOK, DeliverOverdue, SweepAt
<1>2. moved \in SweepType /\ moved.pc = "claim"
  BY <1>1, SweepUpdates
<1>3. sweep' = [moved EXCEPT !.event = NoEvent]
  BY Zenon DEF DeliverOverdue
<1>4. SweepOK'
  <2> HIDE DEF moved
  <2>1. sweep' \in SweepType
    BY <1>2, <1>3, SweepUpdates
  <2>2. sweep'.pc = "claim"
    BY <1>2, <1>3 DEF SweepType
  <2>3. QED
    BY <2>1, <2>2 DEF SweepOK
<1>5. HubTypeOK' /\ HubOK' /\ StreamsOK'
  BY <1>1, DeliverKeepsStreams DEF GatewayInv, DeliverOverdue
<1>6. QED
  BY <1>4, <1>5, SweepAloneFrame, StoreFrame, FaultFrame DEF GatewayInv, DeliverOverdue

LEMMA SweepFailsKeeps ==
  ASSUME GatewayInv, SweepFails
  PROVE  GatewayInv'
<1>1. sweep \in SweepType
  BY DEF GatewayInv, SweepOK
<1>2. CASE sweep' = [sweep EXCEPT !.pc = "overdue"]
  <2>1. sweep' \in SweepType
    BY <1>1, <1>2, SweepUpdates
  <2>2. sweep'.pc = "overdue"
    BY <1>1, <1>2 DEF SweepType
  <2>3. SweepOK'
    BY <2>1, <2>2 DEF SweepOK
  <2>4. QED
    BY <2>3, SweepReadsKeep DEF SweepFails
<1>3. CASE sweep.pc = "claim" /\ sweep' = [sweep EXCEPT !.overdue = @ \ {Oldest(sweep.overdue)}]
  <2> DEFINE left == sweep.overdue \ {Oldest(sweep.overdue)}
  <2>1. left \in SUBSET Events
    BY <1>1 DEF SweepType
  <2>2. sweep' = [sweep EXCEPT !.overdue = left]
    BY <1>3
  <2> HIDE DEF left
  <2>3. sweep' \in SweepType
    BY <1>1, <2>1, <2>2, SweepUpdates
  <2>4. sweep'.pc = "claim"
    BY <1>1, <1>3, <2>2 DEF SweepType
  <2>5. SweepOK'
    BY <2>3, <2>4 DEF SweepOK
  <2>6. QED
    BY <2>5, SweepReadsKeep DEF SweepFails
<1>4. CASE sweep' = IdleSweep
  <2>1. SweepOK'
    BY <1>4, IdleSweepTyped DEF SweepOK
  <2>2. QED
    BY <2>1, SweepReadsKeep DEF SweepFails
<1>5. QED
  BY <1>2, <1>3, <1>4 DEF SweepFails, SweepAt

LEMMA SweepKeeps ==
  ASSUME GatewayInv, Sweep
  PROVE  GatewayInv'
<1>1. CASE EndSweep
  <2>1. SweepOK'
    BY <1>1, IdleSweepTyped DEF SweepOK, EndSweep
  <2>2. QED
    BY <1>1, <2>1, SweepReadsKeep DEF EndSweep
<1>2. QED
  BY <1>1, BeginSweepKeeps, CheckSubscriptionKeeps, CloseStaleKeeps, StaleClosedKeeps,
     SupersedeExhaustedKeeps, ReadOverdueKeeps, ClaimOverdueKeeps, DeliverOverdueKeeps DEF Sweep

--------------------------------------------------------------------------------
(* CreateOrUpdate and Cancel *)

LEMMA RequestUpdates ==
  ASSUME NEW q \in RequestType
  PROVE  /\ \A pc \in {"create", "sync", "undo", "save", "delete", "cancel", "retire", "close"} :
              [q EXCEPT !.pc = pc] \in RequestType
         /\ \A v \in Issued : [q EXCEPT !.old = v] \in RequestType
BY DEF RequestType

LEMMA MovesKeeps ==
  ASSUME ApiOK, NEW a \in Requests,
         NEW pc \in {"create", "sync", "undo", "save", "delete", "cancel", "retire", "close"},
         Moves(a, pc)
  PROVE  ApiOK'
<1> DEFINE q == [api[a] EXCEPT !.pc = pc]
<1>1. q \in RequestType
  BY RequestUpdates DEF ApiOK
<1>2. api' = [api EXCEPT ![a] = q]
  BY Zenon DEF Moves
<1>3. QED
  <2> HIDE DEF q
  <2>1. QED
    BY <1>1, <1>2 DEF ApiOK

LEMMA ReturnsKeeps ==
  ASSUME ApiOK, NEW a \in Requests, Returns(a)
  PROVE  ApiOK'
<1>1. IdleRequest \in RequestType
  BY StoreBounds DEF IdleRequest, RequestType, Issued
<1>2. QED
  BY <1>1 DEF ApiOK, Returns

SubType == [version : Issued, active : BOOLEAN, expired : BOOLEAN]

\* The rows the handlers write are rows, and monitors are versions.
LEMMA SubscriptionValues ==
  ASSUME SubscriptionTypeOK, ApiOK, NEW a \in Requests
  PROVE  /\ sub \in SubType /\ monitor \in Issued /\ issued \in Issued
         /\ Created(a) \in SubType /\ Saved(a) \in SubType
         /\ [sub EXCEPT !.active = FALSE] \in SubType
         /\ [sub EXCEPT !.expired = TRUE] \in SubType
         /\ api[a].new \in Issued /\ api[a].old \in Issued
         /\ MonitorWithout(api[a].old) \in Issued /\ MonitorWithout(api[a].new) \in Issued
<1>1. sub \in SubType /\ monitor \in Issued /\ issued \in Issued
  BY DEF SubscriptionTypeOK, SubType
<1>2. api[a].new \in Issued /\ api[a].old \in Issued /\ 0 \in Issued
  BY StoreBounds DEF ApiOK, RequestType, Issued
<1>3. \A on \in BOOLEAN : [sub EXCEPT !.active = on] \in SubType /\ [sub EXCEPT !.expired = on] \in SubType
  BY <1>1 DEF SubType
<1>4. /\ [version |-> api[a].new, active |-> FALSE, expired |-> FALSE] \in SubType
      /\ [version |-> api[a].new, active |-> TRUE, expired |-> FALSE] \in SubType
  BY <1>2 DEF SubType
<1>5. Created(a) \in SubType /\ Saved(a) \in SubType
  BY <1>3, <1>4 DEF Created, Saved
<1>6. QED
  BY <1>1, <1>2, <1>3, <1>5 DEF MonitorWithout

LEMMA ApiAloneFrame ==
  ASSUME GatewayInv, ApiAlone
  PROVE  IngestOK' /\ stopping' \in BOOLEAN /\ SweepOK' /\ ClientTypeOK'
BY IngestFrame, SweepFrame, ClientFrame DEF GatewayInv, ApiAlone

\* A handler that writes the subscription, or asks Toolbox.
LEMMA SubscriptionWritten ==
  ASSUME GatewayInv, ApiAlone, ApiOK', UNCHANGED <<db, streams>>, Fault \/ UNCHANGED faults,
         sub' \in SubType, monitor' \in Issued, issued' \in Issued
  PROVE  GatewayInv'
<1>1. SubscriptionTypeOK'
  BY DEF SubscriptionTypeOK, SubType
<1>2. QED
  BY <1>1, ApiAloneFrame, StoreFrame, StreamsFrame, FaultFrame DEF GatewayInv

LEMMA BeginRequestKeeps ==
  ASSUME GatewayInv, NEW a \in Requests, BeginUpdate(a) \/ BeginCancel(a)
  PROVE  GatewayInv'
<1>1. /\ sub \in SubType /\ monitor \in Issued /\ issued \in Issued /\ sub.version \in Issued
      /\ api \in [Requests -> RequestType]
  BY SubscriptionValues DEF GatewayInv, ApiOK, SubType
<1>2. CASE BeginUpdate(a)
  <2> DEFINE q == [pc |-> IF sub.version = 0 THEN "create" ELSE "sync",
                   old |-> sub.version, new |-> issued + 1, create |-> sub.version = 0]
  <2>1. issued + 1 \in Issued
    BY <1>1, <1>2, StoreBounds DEF BeginUpdate, Issued
  <2>2. q \in RequestType
    BY <1>1, <2>1 DEF RequestType
  <2>3. api' = [api EXCEPT ![a] = q]
    BY <1>2, Zenon DEF BeginUpdate
  <2>4. ApiOK'
    <3> HIDE DEF q
    <3>1. QED
      BY <1>1, <2>2, <2>3 DEF ApiOK
  <2>5. QED
    BY <1>1, <1>2, <2>1, <2>4, SubscriptionWritten DEF BeginUpdate
<1>3. CASE BeginCancel(a)
  <2> DEFINE moved == [api[a] EXCEPT !.pc = "delete"]
             q == [moved EXCEPT !.old = sub.version]
  <2>1. moved \in RequestType
    BY <1>1, RequestUpdates
  <2>2. q \in RequestType
    <3> HIDE DEF moved
    <3>1. QED
      BY <1>1, <2>1, RequestUpdates
  <2>3. api' = [api EXCEPT ![a] = q]
    BY <1>3, Zenon DEF BeginCancel
  <2>4. ApiOK'
    <3> HIDE DEF q
    <3>1. QED
      BY <1>1, <2>2, <2>3 DEF ApiOK
  <2>5. QED
    BY <1>1, <1>3, <2>4, SubscriptionWritten DEF BeginCancel, subscription
<1>4. QED
  BY <1>2, <1>3

LEMMA HandleKeeps ==
  ASSUME GatewayInv, NEW a \in Requests, Handle(a)
  PROVE  GatewayInv'
<1>1. /\ sub \in SubType /\ monitor \in Issued /\ issued \in Issued
      /\ Created(a) \in SubType /\ Saved(a) \in SubType
      /\ [sub EXCEPT !.active = FALSE] \in SubType
      /\ api[a].new \in Issued /\ MonitorWithout(api[a].old) \in Issued
  BY SubscriptionValues DEF GatewayInv
<1>2. ApiOK
  BY DEF GatewayInv
<1>3. CASE CreateRow(a)
  <2>1. ApiOK'
    BY <1>2, <1>3, MovesKeeps, ReturnsKeeps DEF CreateRow
  <2>2. QED
    BY <1>1, <1>3, <2>1, SubscriptionWritten DEF CreateRow
<1>4. CASE SyncMonitor(a)
  <2>1. ApiOK'
    BY <1>2, <1>4, MovesKeeps DEF SyncMonitor
  <2>2. QED
    BY <1>1, <1>4, <2>1, SubscriptionWritten DEF SyncMonitor
<1>5. CASE SaveSubscription(a)
  <2>1. ApiOK'
    BY <1>2, <1>5, MovesKeeps, ReturnsKeeps DEF SaveSubscription
  <2>2. QED
    BY <1>1, <1>5, <2>1, SubscriptionWritten DEF SaveSubscription
<1>6. CASE UndoCreate(a)
  <2>1. ApiOK'
    BY <1>2, <1>6, ReturnsKeeps DEF UndoCreate
  <2>2. QED
    BY <1>1, <1>6, <2>1, SubscriptionWritten DEF UndoCreate
<1>7. CASE DeleteMonitor(a)
  <2>1. ApiOK'
    BY <1>2, <1>7, MovesKeeps DEF DeleteMonitor
  <2>2. QED
    BY <1>1, <1>7, <2>1, SubscriptionWritten DEF DeleteMonitor
<1>8. CASE CancelRow(a)
  <2>1. ApiOK'
    BY <1>2, <1>8, MovesKeeps DEF CancelRow
  <2>2. QED
    BY <1>1, <1>8, <2>1, SubscriptionWritten DEF CancelRow
<1>9. CASE RetireEvents(a)
  <2>1. ApiOK'
    BY <1>2, <1>9, MovesKeeps DEF RetireEvents
  <2>2. StoreTypeOK'
    BY <1>9, SupersedeKeepsStore DEF GatewayInv, RetireEvents, Reasons
  <2>3. QED
    BY <1>9, <2>1, <2>2, ApiAloneFrame, SubscriptionFrame, StreamsFrame, FaultFrame
      DEF GatewayInv, RetireEvents
<1>10. CASE CloseStreams(a)
  <2>1. ApiOK'
    BY <1>2, <1>10, ReturnsKeeps DEF CloseStreams
  <2>2. OnKey(api[a].old) \in SUBSET hub
    BY DEF OnKey
  <2>3. HubTypeOK' /\ HubOK' /\ StreamsOK'
    BY <1>10, <2>2, CloseHubKeeps DEF GatewayInv, CloseStreams
  <2>4. QED
    BY <1>10, <2>1, <2>3, ApiAloneFrame, StoreFrame, SubscriptionFrame, FaultFrame
      DEF GatewayInv, CloseStreams
<1>11. QED
  BY <1>3, <1>4, <1>5, <1>6, <1>7, <1>8, <1>9, <1>10 DEF Handle

LEMMA ApiFailsKeeps ==
  ASSUME GatewayInv, NEW a \in Requests, ApiFails(a)
  PROVE  GatewayInv'
<1>1. /\ sub \in SubType /\ monitor \in Issued /\ issued \in Issued
      /\ Created(a) \in SubType /\ Saved(a) \in SubType
      /\ [sub EXCEPT !.active = FALSE] \in SubType /\ api[a].new \in Issued
      /\ MonitorWithout(api[a].old) \in Issued /\ MonitorWithout(api[a].new) \in Issued
  BY SubscriptionValues DEF GatewayInv
<1>2. \/ Moves(a, "undo") \/ Moves(a, "close") \/ Returns(a)
  BY Zenon DEF ApiFails
<1>3. ApiOK'
  BY <1>2, MovesKeeps, ReturnsKeeps DEF GatewayInv
<1>4. sub' \in SubType /\ monitor' \in Issued
  BY <1>1 DEF ApiFails
<1>5. QED
  BY <1>1, <1>3, <1>4, SubscriptionWritten DEF ApiFails

--------------------------------------------------------------------------------
(* The processes *)

LEMMA ExpireKeeps ==
  ASSUME GatewayInv, Expire
  PROVE  GatewayInv'
<1>1. SubscriptionTypeOK'
  BY DEF GatewayInv, SubscriptionTypeOK, Expire
<1>2. QED
  BY <1>1, StoreFrame, IngestFrame, ClientFrame, StreamsFrame, SweepFrame, FaultFrame
    DEF GatewayInv, Expire, ApiOK

LEMMA ShutdownKeeps ==
  ASSUME GatewayInv, Shutdown
  PROVE  GatewayInv'
<1>1. HubTypeOK' /\ HubOK' /\ StreamsOK'
  BY CloseHubKeeps DEF GatewayInv, Shutdown, HubTypeOK
<1>2. stopping' \in BOOLEAN
  BY DEF Shutdown
<1>3. QED
  BY <1>1, <1>2, StoreFrame, SubscriptionFrame, IngestFrame, ClientFrame, SweepFrame, FaultFrame
    DEF GatewayInv, Shutdown, ApiOK

\* An empty hub is as it should be.
NoStreams == hub = {} /\ older = {} /\ total = 0 /\ stream = [s \in Streams |-> IdleStream]

LEMMA EmptyHub == NoStreams => HubTypeOK /\ HubOK /\ StreamsOK
<1> SUFFICES ASSUME NoStreams PROVE HubTypeOK /\ HubOK /\ StreamsOK
  OBVIOUS
<1> USE DEF NoStreams
<1>1. StreamsOK
  BY IdleStreamTyped DEF StreamsOK
<1>2. \A v : OnKey(v) = {}
  BY DEF OnKey
<1>3. HubConsistent
  <2>1. IdleStream.pc = "idle"
    BY DEF IdleStream
  <2>2. QED
    BY <1>2, <2>1, FS_EmptySet, GatewayAssumption DEF HubConsistent
<1>4. IsWellFoundedOn(older, Streams)
  BY DEF IsWellFoundedOn
<1>5. HubTypeOK
  BY DEF HubTypeOK
<1>6. QED
  BY <1>1, <1>3, <1>4, <1>5, FS_EmptySet DEF HubOK

LEMMA RestartKeeps ==
  ASSUME GatewayInv, Restart
  PROVE  GatewayInv'
<1>1. HubTypeOK' /\ HubOK' /\ StreamsOK'
  <2>1. (NoStreams => HubTypeOK /\ HubOK /\ StreamsOK)'
    BY EmptyHub, PTL
  <2>2. QED
    BY <2>1 DEF Restart, NoStreams
<1>2. IngestOK'
  BY IdlePostTyped DEF GatewayInv, IngestOK, IngestTypeOK, Restart, IdlePost
<1>3. SweepOK' /\ stopping' \in BOOLEAN
  BY IdleSweepTyped DEF SweepOK, Restart
<1>4. QED
  BY <1>1, <1>2, <1>3, StoreFrame, SubscriptionFrame, ClientFrame, FaultFrame
    DEF GatewayInv, Restart, ApiOK

LEMMA CrashApiKeeps ==
  ASSUME GatewayInv, CrashApi
  PROVE  GatewayInv'
<1>1. IdleRequest \in RequestType
  BY StoreBounds DEF IdleRequest, RequestType, Issued
<1>2. ApiOK'
  BY <1>1 DEF ApiOK, CrashApi
<1>3. QED
  BY <1>2, StoreFrame, SubscriptionFrame, IngestFrame, ClientFrame, StreamsFrame, SweepFrame, FaultFrame
    DEF GatewayInv, CrashApi

--------------------------------------------------------------------------------
LEMMA InitHolds == Init => GatewayInv
<1> SUFFICES ASSUME Init PROVE GatewayInv
  OBVIOUS
<1>1. HubTypeOK /\ HubOK /\ StreamsOK
  BY EmptyHub DEF Init, NoStreams
<1>2. StoreTypeOK
  BY NoRowTyped DEF Init, StoreInit, StoreTypeOK
<1>3. issued \in Issued /\ 0 \in Issued
  BY StoreBounds, GatewayAssumption DEF Init, Issued
<1>4. SubscriptionTypeOK
  BY <1>3, GatewayAssumption DEF Init, SubscriptionTypeOK
<1>5. IngestOK
  BY <1>3, IdlePostTyped DEF Init, IngestOK, IngestTypeOK, IdlePost
<1>6. ClientTypeOK
  BY DEF Init, ClientTypeOK
<1>7. ApiOK
  BY <1>3 DEF Init, ApiOK, IdleRequest, RequestType
<1>8. SweepOK /\ stopping \in BOOLEAN
  BY IdleSweepTyped DEF Init, SweepOK
<1>9. FaultsOK
  BY GatewayAssumption DEF Init, FaultsOK
<1>10. QED
  BY <1>1, <1>2, <1>4, <1>5, <1>6, <1>7, <1>8, <1>9 DEF GatewayInv

LEMMA Inductive == GatewayInv /\ [Next]_vars => GatewayInv'
<1> SUFFICES ASSUME GatewayInv, [Next]_vars PROVE GatewayInv'
  OBVIOUS
<1>1. CASE UNCHANGED vars
  BY <1>1, StoreFrame, SubscriptionFrame, IngestFrame, ClientFrame, StreamsFrame, SweepFrame, FaultFrame
    DEF GatewayInv, vars, ApiOK
<1>2. CASE \E p \in Posts : Ingest(p) \/ LoseInsert(p) \/ PostFails(p) \/ \E e \in Events : Receive(p, e)
  BY <1>2, IngestKeeps, ReceiveKeeps
<1>3. CASE \E s \in Streams : Serve(s) \/ ReplayFails(s) \/ Disconnect(s)
                              \/ \E v \in Versions : Authenticate(s, v)
  BY <1>3, ServeKeeps, AuthenticateKeeps
<1>4. CASE \E e \in Events : ValidateAck(e) \/ AckEvent(e)
  BY <1>4, AckKeeps
<1>5. CASE \E a \in Requests : BeginUpdate(a) \/ BeginCancel(a) \/ Handle(a) \/ ApiFails(a)
  BY <1>5, BeginRequestKeeps, HandleKeeps, ApiFailsKeeps
<1>6. QED
  BY <1>1, <1>2, <1>3, <1>4, <1>5, SweepKeeps, SweepFailsKeeps, CollectKeeps, ExpireKeeps,
     ShutdownKeeps, RestartKeeps, CrashApiKeeps, TickKeeps DEF Next

LEMMA Invariant == Spec => []GatewayInv
BY InitHolds, Inductive, PTL DEF Spec

\* Every variable keeps its type: no counter of the hub goes below zero, no
\* request, stream or sweep acts on an event or a version it does not have.
THEOREM TypeCorrect == Spec => []TypeOK
<1>1. GatewayInv => TypeOK
  BY DEF GatewayInv, TypeOK, IngestOK, StreamsOK, SweepOK, ApiOK, FaultsOK
<1>2. QED
  BY <1>1, Invariant, PTL

\* The hub's counter, its caps and its membership, whatever the order of
\* registrations, evictions, closes and deferred removals, for any caps.
THEOREM HubStaysConsistent == Spec => []HubConsistent
<1>1. GatewayInv => HubConsistent
  BY DEF GatewayInv, HubOK
<1>2. QED
  BY <1>1, Invariant, PTL

--------------------------------------------------------------------------------
(* The replay policy: what it may drop is settled by ids and versions, which *)
(* a row keeps until the retention of its version is over.                   *)

Dropped(e) == rows[e].superseded \in {"replaced", "overflow"}
Behind(e) == {f \in Events : Newer(e, f) /\ rows[f].version = rows[e].version}
Enough(e) == rows[e].id # 0 /\ Cardinality(Behind(e)) >= Keep

RowsOK ==
  \A e \in Events : /\ Stored(e) /\ ~rows[e].acked => rows[e].id # 0
                    /\ Dropped(e) => Enough(e)

\* A request that has inserted its row, or has read what it will drop.
PostOK(p) ==
  /\ post[p].pc = "idle" => post[p].drop = {}
  /\ post[p].pc # "idle" => versionOf[post[p].event] # 0
  /\ post[p].pc = "commit" => post[p].id # 0
  /\ post[p].pc = "policy" => /\ post[p].id # 0 /\ rows[post[p].event].id = post[p].id
                              /\ rows[post[p].event].version = versionOf[post[p].event]
  /\ \A e \in post[p].drop : Enough(e) /\ rows[e].version = versionOf[post[p].event]

PolicyInv == GatewayInv /\ RowsOK /\ \A p \in Posts : PostOK(p)

\* Rows keep their ids and versions, and are added.
RowsGrow ==
  \A e \in Events : rows[e].id # 0 => rows'[e].id = rows[e].id /\ rows'[e].version = rows[e].version

LEMMA RowTyped ==
  ASSUME GatewayInv, NEW e \in Events
  PROVE  rows[e] \in RowType /\ rows[e].id \in Nat
BY DEF GatewayInv, StoreTypeOK, RowType

LEMMA BehindFinite ==
  ASSUME NEW S \in SUBSET Events
  PROVE  IsFiniteSet(S) /\ Cardinality(S) \in Nat
BY StoreAssumption, FS_Subset, FS_CardinalityType

LEMMA EnoughStays ==
  ASSUME GatewayInv, GatewayInv', RowsGrow, NEW e \in Events, Enough(e)
  PROVE  Enough(e)'
<1>1. Behind(e) \subseteq Behind(e)'
  <2> SUFFICES ASSUME NEW f \in Behind(e) PROVE f \in Behind(e)'
    OBVIOUS
  <2>1. f \in Events /\ rows[e].id < rows[f].id /\ rows[f].version = rows[e].version /\ rows[e].id # 0
    BY DEF Behind, Newer, Enough
  <2>2. rows[e].id \in Nat /\ rows[f].id \in Nat
    BY <2>1, RowTyped
  <2>3. rows[f].id # 0
    BY <2>1, <2>2
  <2>4. /\ rows'[e].id = rows[e].id /\ rows'[e].version = rows[e].version
        /\ rows'[f].id = rows[f].id /\ rows'[f].version = rows[f].version
    BY <2>1, <2>3 DEF RowsGrow
  <2>5. QED
    BY <2>1, <2>4 DEF Behind, Newer
<1>2. Behind(e)' \in SUBSET Events /\ Behind(e) \in SUBSET Events
  BY DEF Behind
<1>3. Cardinality(Behind(e)) <= Cardinality(Behind(e)')
  BY <1>1, <1>2, BehindFinite, FS_Subset
<1>4. Cardinality(Behind(e)') >= Keep
  BY <1>2, <1>3, BehindFinite, StoreAssumption DEF Enough
<1>5. QED
  BY <1>4 DEF Enough, RowsGrow

\* A request that stays as it is, or moves on to deliver what is left.
LEMMA PostStays ==
  ASSUME PolicyInv, GatewayInv', RowsGrow, NEW p \in Posts,
         post[p].pc # "idle" => versionOf'[post[p].event] = versionOf[post[p].event],
         \/ post'[p] = post[p]
         \/ post'[p] = IdlePost
         \/ /\ post[p].pc # "idle" /\ post'[p].event = post[p].event
            /\ post'[p].drop \subseteq post[p].drop /\ post'[p].pc \in {"claim", "deliver", "trim", "insert"}
  PROVE  PostOK(p)'
<1>1. CASE post'[p] = IdlePost
  BY <1>1 DEF PostOK, IdlePost
<1>2. CASE /\ post'[p].event = post[p].event /\ post'[p].drop \subseteq post[p].drop
           /\ post[p].pc # "idle" /\ post'[p].pc # "idle"
           /\ post'[p].pc = "commit" => post[p].pc = "commit" /\ post'[p].id = post[p].id
           /\ post'[p].pc = "policy" => post[p].pc = "policy" /\ post'[p].id = post[p].id
  <2>1. post[p].event \in Events /\ post[p].drop \in SUBSET Events
    BY <1>2 DEF PolicyInv, GatewayInv, IngestOK, IngestTypeOK, PostType
  <2>2. versionOf'[post[p].event] = versionOf[post[p].event] /\ versionOf[post[p].event] # 0
    BY <1>2 DEF PolicyInv, PostOK
  <2>3. ASSUME NEW e \in post'[p].drop PROVE Enough(e)' /\ rows'[e].version = versionOf'[post'[p].event]
    <3>1. e \in Events /\ Enough(e) /\ rows[e].version = versionOf[post[p].event]
      BY <1>2, <2>1 DEF PolicyInv, PostOK
    <3>2. Enough(e)'
      BY <3>1, EnoughStays DEF PolicyInv
    <3>3. rows'[e].version = rows[e].version
      BY <3>1 DEF RowsGrow, Enough
    <3>4. QED
      BY <1>2, <2>2, <3>1, <3>2, <3>3
  <2>4. CASE post'[p].pc = "policy"
    <3>1. /\ post[p].id # 0 /\ rows[post[p].event].id = post[p].id
          /\ rows[post[p].event].version = versionOf[post[p].event]
      BY <1>2, <2>4 DEF PolicyInv, PostOK
    <3>2. /\ rows'[post[p].event].id = rows[post[p].event].id
          /\ rows'[post[p].event].version = rows[post[p].event].version
      BY <2>1, <3>1 DEF RowsGrow
    <3>3. QED
      BY <1>2, <2>2, <2>3, <2>4, <3>1, <3>2 DEF PostOK
  <2>5. CASE post'[p].pc # "policy"
    BY <1>2, <2>2, <2>3, <2>5 DEF PolicyInv, PostOK
  <2>6. QED
    BY <2>4, <2>5
<1>3. CASE post'[p] = post[p] /\ post[p].pc = "idle"
  BY <1>3 DEF PolicyInv, PostOK
<1>4. QED
  BY <1>1, <1>2, <1>3

LEMMA RowsStay ==
  ASSUME PolicyInv, GatewayInv', RowsGrow,
         \A e \in Events : /\ (Stored(e) /\ ~rows[e].acked)' => rows'[e].id # 0
                           /\ Dropped(e)' => Dropped(e) \/ Enough(e)
  PROVE  RowsOK'
<1>1. ASSUME NEW e \in Events, Dropped(e)' PROVE Enough(e)'
  <2>1. Enough(e)
    BY <1>1 DEF PolicyInv, RowsOK
  <2>2. QED
    BY <2>1, EnoughStays DEF PolicyInv
<1>2. QED
  BY <1>1 DEF RowsOK

\* A step that leaves the rows alone.
LEMMA SameRows ==
  ASSUME PolicyInv, GatewayInv', UNCHANGED rows
  PROVE  RowsGrow /\ RowsOK'
<1>1. RowsGrow
  BY DEF RowsGrow
<1>2. \A e \in Events : /\ (Stored(e) /\ ~rows[e].acked)' => rows'[e].id # 0
                        /\ Dropped(e)' => Dropped(e) \/ Enough(e)
  BY DEF PolicyInv, RowsOK, Stored, Dropped
<1>3. QED
  BY <1>1, <1>2, RowsStay

RowsKept ==
  /\ RowsGrow
  /\ \A e \in Events : /\ (Stored(e) /\ ~rows[e].acked)' => rows'[e].id # 0
                       /\ Dropped(e)' => Dropped(e) \/ Enough(e)

\* An update of one row, or of several, that were there.
LEMMA UpdateKeepsRows ==
  ASSUME PolicyInv,
         \A e \in Events :
           \/ rows'[e] = rows[e]
           \/ /\ rows'[e].id = rows[e].id /\ rows'[e].version = rows[e].version
              /\ (rows'[e].superseded = rows[e].superseded \/ (Dropped(e)' => Enough(e)))
              /\ (rows[e].id # 0 \/ rows'[e].acked)
  PROVE  RowsKept
<1>1. RowsGrow
  BY DEF RowsGrow
<1>2. ASSUME NEW e \in Events
      PROVE  /\ (Stored(e) /\ ~rows[e].acked)' => rows'[e].id # 0
             /\ Dropped(e)' => Dropped(e) \/ Enough(e)
  BY DEF PolicyInv, RowsOK, Stored, Dropped
<1>3. QED
  BY <1>1, <1>2 DEF RowsKept

LEMMA ClaimKeepsRows ==
  ASSUME PolicyInv, NEW e \in Events, Claimable(e), Claim(e)
  PROVE  RowsKept
<1> DEFINE counted == [rows[e] EXCEPT !.count = @ + 1]
           row == [counted EXCEPT !.age = 0]
<1>1. rows \in [Events -> RowType] /\ rows[e] \in RowType /\ rows[e].id # 0
  BY DEF PolicyInv, GatewayInv, StoreTypeOK, RowsOK, Claimable, Pending
<1>2. counted.id = rows[e].id /\ counted.version = rows[e].version /\ counted.superseded = rows[e].superseded
  BY <1>1 DEF RowType
<1>3. row.id = rows[e].id /\ row.version = rows[e].version /\ row.superseded = rows[e].superseded
  BY <1>1, <1>2 DEF RowType
<1>4. rows' = [rows EXCEPT ![e] = row]
  BY Zenon DEF Claim
<1>5. QED
  <2> HIDE DEF row
  <2>1. \A f \in Events : rows'[f] = IF f = e THEN row ELSE rows[f]
    BY <1>1, <1>4
  <2>2. QED
    BY <1>1, <1>3, <2>1, UpdateKeepsRows

LEMMA SupersedeKeepsRows ==
  ASSUME PolicyInv, NEW S, NEW why \in Reasons, Supersede(S, why),
         why \in {"replaced", "overflow"} => \A e \in Events : e \in S /\ Pending(e) => Enough(e)
  PROVE  RowsKept
<1>1. ASSUME NEW e \in Events
      PROVE  \/ rows'[e] = rows[e]
             \/ /\ rows'[e].id = rows[e].id /\ rows'[e].version = rows[e].version
                /\ Dropped(e)' => Enough(e)
                /\ rows[e].id # 0
  <2> DEFINE marked == [rows[e] EXCEPT !.superseded = why]
             row == [marked EXCEPT !.age = 0]
  <2>1. rows[e] \in RowType
    BY RowTyped DEF PolicyInv
  <2>2. rows'[e] = IF e \in S /\ Pending(e) THEN row ELSE rows[e]
    BY Zenon DEF Supersede
  <2>3. CASE e \in S /\ Pending(e)
    <3>1. marked.id = rows[e].id /\ marked.version = rows[e].version /\ marked.superseded = why
      BY <2>1 DEF RowType
    <3>2. row.id = rows[e].id /\ row.version = rows[e].version /\ row.superseded = why
      BY <2>1, <3>1 DEF RowType
    <3>3. rows'[e] = row
      BY <2>2, <2>3
    <3>4. rows[e].id # 0
      BY <2>3 DEF PolicyInv, RowsOK, Pending
    <3> HIDE DEF row
    <3>5. Dropped(e)' => why \in {"replaced", "overflow"}
      BY <3>2, <3>3 DEF Dropped
    <3>6. QED
      BY <2>3, <3>2, <3>3, <3>4, <3>5
  <2>4. CASE ~(e \in S /\ Pending(e))
    BY <2>2, <2>4
  <2>5. QED
    BY <2>3, <2>4
<1>2. QED
  BY <1>1, UpdateKeepsRows

LEMMA InsertKeepsRows ==
  ASSUME PolicyInv, NEW e \in Events, NEW v, NEW id, id # 0, ~Stored(e), Insert(e, v, id)
  PROVE  RowsKept /\ rows'[e].id = id /\ rows'[e].version = v
<1> DEFINE numbered == [NoRow EXCEPT !.id = id]
           row == [numbered EXCEPT !.version = v]
<1>1. rows[e] = NoRow /\ rows \in [Events -> RowType]
  BY DEF Stored, PolicyInv, GatewayInv, StoreTypeOK
<1>2. row.id = id /\ row.version = v /\ row.superseded = "no" /\ NoRow.id = 0
  BY DEF NoRow
<1>3. rows' = [rows EXCEPT ![e] = row]
  BY Zenon DEF Insert
<1> HIDE DEF row
<1>4. \A f \in Events : rows'[f] = IF f = e THEN row ELSE rows[f]
  BY <1>1, <1>3
<1>5. RowsGrow
  BY <1>1, <1>2, <1>4 DEF RowsGrow
<1>6. ASSUME NEW f \in Events
      PROVE  /\ (Stored(f) /\ ~rows[f].acked)' => rows'[f].id # 0
             /\ Dropped(f)' => Dropped(f) \/ Enough(f)
  BY <1>2, <1>4 DEF PolicyInv, RowsOK, Stored, Dropped
<1>7. QED
  BY <1>2, <1>4, <1>5, <1>6 DEF RowsKept

\* A step of anything but a request of ingest.
LEMMA PolicyFrame ==
  ASSUME PolicyInv, GatewayInv', UNCHANGED ingest, RowsKept \/ UNCHANGED rows
  PROVE  PolicyInv'
<1>1. RowsGrow /\ RowsOK'
  BY SameRows, RowsStay DEF RowsKept
<1>2. ASSUME NEW p \in Posts PROVE PostOK(p)'
  BY <1>1, PostStays DEF ingest
<1>3. QED
  BY <1>1, <1>2 DEF PolicyInv

\* A step of one request, the others of which stay.
LEMMA IngestFramePolicy ==
  ASSUME PolicyInv, GatewayInv', NEW p \in Posts, RowsKept \/ UNCHANGED rows, PostOK(p)',
         \A r \in Posts \ {p} : post'[r] = post[r],
         \A e \in Events : versionOf[e] # 0 => versionOf'[e] = versionOf[e]
  PROVE  PolicyInv'
<1>1. RowsGrow /\ RowsOK'
  BY SameRows, RowsStay DEF RowsKept
<1>2. ASSUME NEW r \in Posts \ {p} PROVE PostOK(r)'
  <2>1. post[r].pc # "idle" => post[r].event \in Events /\ versionOf[post[r].event] # 0
    BY DEF PolicyInv, PostOK, GatewayInv, IngestOK
  <2>2. QED
    BY <1>1, <2>1, PostStays
<1>3. QED
  BY <1>1, <1>2 DEF PolicyInv

LEMMA PostAloneVersions ==
  ASSUME PostAlone
  PROVE  versionOf' = versionOf
BY DEF PostAlone

LEMMA OnlyPost ==
  ASSUME GatewayInv, NEW p \in Posts, NEW q, post' = [post EXCEPT ![p] = q]
  PROVE  post'[p] = q /\ \A r \in Posts \ {p} : post'[r] = post[r]
BY DEF GatewayInv, IngestOK, IngestTypeOK

\* A request that ends, whatever it did to the rows.
LEMMA ReturnKeepsPolicy ==
  ASSUME PolicyInv, GatewayInv', NEW p \in Posts, PostReturns(p), versionOf' = versionOf,
         RowsKept \/ UNCHANGED rows
  PROVE  PolicyInv'
<1>1. post'[p] = IdlePost /\ \A r \in Posts \ {p} : post'[r] = post[r]
  BY OnlyPost DEF PostReturns, PolicyInv
<1>2. PostOK(p)'
  BY <1>1 DEF PostOK, IdlePost
<1>3. QED
  BY <1>1, <1>2, IngestFramePolicy

\* A request that goes on to claim, or to deliver, what it has inserted.
LEMMA MoveKeepsPolicy ==
  ASSUME PolicyInv, GatewayInv', NEW p \in Posts, post[p].pc # "idle", versionOf' = versionOf,
         RowsKept \/ UNCHANGED rows, NEW pc \in {"claim", "deliver"},
         \/ PostMoves(p, pc)
         \/ post' = [post EXCEPT ![p].pc = pc, ![p].drop = {}]
  PROVE  PolicyInv'
<1> DEFINE moved == [post[p] EXCEPT !.pc = pc]
           cleared == [moved EXCEPT !.drop = {}]
<1>1. post[p] \in PostType
  BY DEF PolicyInv, GatewayInv, IngestOK, IngestTypeOK
<1>2. moved.pc = pc /\ moved.event = post[p].event /\ moved.drop = post[p].drop
  BY <1>1 DEF PostType
<1>3. cleared.pc = pc /\ cleared.event = post[p].event /\ cleared.drop = {}
  BY <1>1, <1>2 DEF PostType
<1>4. post' = [post EXCEPT ![p] = moved] \/ post' = [post EXCEPT ![p] = cleared]
  BY Zenon DEF PostMoves
<1> HIDE DEF moved, cleared
<1>5. /\ post'[p] = moved \/ post'[p] = cleared
      /\ \A r \in Posts \ {p} : post'[r] = post[r]
  BY <1>4, OnlyPost DEF PolicyInv
<1>6. RowsGrow
  BY SameRows DEF RowsKept
<1>7. PostOK(p)'
  BY <1>2, <1>3, <1>5, <1>6, PostStays
<1>8. QED
  BY <1>5, <1>7, IngestFramePolicy

LEMMA BeginInsertPolicy ==
  ASSUME PolicyInv, GatewayInv', NEW p \in Posts, BeginInsert(p)
  PROVE  PolicyInv'
<1>1. rows' = rows /\ versionOf' = versionOf
  BY PostAloneVersions DEF BeginInsert
<1>2. CASE PostReturns(p)
  BY <1>1, <1>2, ReturnKeepsPolicy
<1>3. CASE post' = [post EXCEPT ![p].pc = "commit", ![p].id = nextId]
  <2> DEFINE moved == [post[p] EXCEPT !.pc = "commit"]
             q == [moved EXCEPT !.id = nextId]
  <2>1. post[p] \in PostType /\ post[p].pc = "insert" /\ nextId # 0
    BY DEF PolicyInv, GatewayInv, IngestOK, IngestTypeOK, StoreTypeOK, BeginInsert, PostAt
  <2>2. moved.pc = "commit" /\ moved.event = post[p].event /\ moved.drop = post[p].drop
    BY <2>1 DEF PostType
  <2>3. q.pc = "commit" /\ q.event = post[p].event /\ q.drop = post[p].drop /\ q.id = nextId
    BY <2>1, <2>2 DEF PostType
  <2>4. post' = [post EXCEPT ![p] = q]
    BY <1>3, Zenon
  <2> HIDE DEF q
  <2>5. post'[p] = q /\ \A r \in Posts \ {p} : post'[r] = post[r]
    BY <2>4, OnlyPost DEF PolicyInv
  <2>6. PostOK(p)'
    <3>1. \A e \in post[p].drop : Enough(e) => Enough(e)'
      BY <1>1 DEF Enough, Behind, Newer
    <3>2. QED
      BY <1>1, <2>1, <2>3, <2>5, <3>1 DEF PolicyInv, PostOK
  <2>7. QED
    BY <1>1, <2>5, <2>6, IngestFramePolicy
<1>4. QED
  BY <1>2, <1>3 DEF BeginInsert

LEMMA CommitInsertPolicy ==
  ASSUME PolicyInv, GatewayInv', NEW p \in Posts, CommitInsert(p)
  PROVE  PolicyInv'
<1> DEFINE e == post[p].event
           q == [post[p] EXCEPT !.pc = "policy"]
<1>1. versionOf' = versionOf
  BY PostAloneVersions DEF CommitInsert
<1>2. CASE PostReturns(p) /\ UNCHANGED rows
  BY <1>1, <1>2, ReturnKeepsPolicy
<1>3. CASE ~Stored(e) /\ Insert(e, versionOf[e], post[p].id) /\ PostMoves(p, "policy")
  <2>1. post[p] \in PostType /\ e \in Events /\ post[p].id # 0 /\ versionOf[e] # 0
    BY DEF PolicyInv, GatewayInv, IngestOK, IngestTypeOK, PostOK, CommitInsert, PostAt
  <2>2. RowsKept /\ rows'[e].id = post[p].id /\ rows'[e].version = versionOf[e]
    <3> HIDE DEF e
    <3>1. QED
      BY <1>3, <2>1, InsertKeepsRows
  <2>3. q.pc = "policy" /\ q.event = e /\ q.drop = post[p].drop /\ q.id = post[p].id
    BY <2>1 DEF PostType
  <2>4. post' = [post EXCEPT ![p] = q]
    BY <1>3, Zenon DEF PostMoves
  <2> HIDE DEF q
  <2>5. post'[p] = q /\ \A r \in Posts \ {p} : post'[r] = post[r]
    BY <2>4, OnlyPost DEF PolicyInv
  <2>6. PostOK(p)'
    <3>1. ASSUME NEW f \in post[p].drop
          PROVE  Enough(f)' /\ rows'[f].version = versionOf[e]
      <4>1. f \in Events /\ Enough(f) /\ rows[f].version = versionOf[e]
        BY <2>1 DEF PolicyInv, PostOK, PostType
      <4>2. QED
        BY <2>2, <4>1, EnoughStays DEF RowsKept, RowsGrow, Enough, PolicyInv
    <3>2. QED
      BY <1>1, <2>1, <2>2, <2>3, <2>5, <3>1 DEF PostOK
  <2>7. QED
    BY <1>1, <2>2, <2>5, <2>6, IngestFramePolicy
<1>4. QED
  BY <1>2, <1>3 DEF CommitInsert

\* Under "latest" what is older than the row inserted is behind it.
LEMMA ApplyLatestPolicy ==
  ASSUME PolicyInv, GatewayInv', NEW p \in Posts, ApplyLatest(p)
  PROVE  PolicyInv'
<1> DEFINE e == post[p].event
<1>1. /\ Keep = 1 /\ e \in Events /\ rows[e].id = post[p].id /\ rows[e].version = versionOf[e]
      /\ post[p].pc = "policy"
  BY DEF PolicyInv, GatewayInv, IngestOK, PostOK, ApplyLatest, PostAt
<1>2. ASSUME NEW f \in Events, f \in Replaced(post[p].id, versionOf[e]), Pending(f)
      PROVE  Enough(f)
  <2>1. rows[f].version = versionOf[e] /\ rows[f].id < post[p].id
    BY <1>2 DEF Replaced, PendingOf
  <2>2. e \in Behind(f)
    BY <1>1, <2>1 DEF Behind, Newer
  <2>3. Behind(f) \in SUBSET Events
    BY DEF Behind
  <2>4. Cardinality(Behind(f)) >= 1
    BY <2>2, <2>3, BehindFinite, FS_EmptySet
  <2>5. rows[f].id # 0
    BY <1>2 DEF PolicyInv, RowsOK, Pending
  <2>6. QED
    BY <1>1, <2>4, <2>5 DEF Enough
<1>3. RowsKept
  BY <1>2, SupersedeKeepsRows DEF ApplyLatest, Reasons
<1>4. QED
  BY <1>1, <1>3, PostAloneVersions, MoveKeepsPolicy DEF ApplyLatest

\* Under "all" what is read is behind as many as are kept.
LEMMA FindOverflowPolicy ==
  ASSUME PolicyInv, GatewayInv', NEW p \in Posts, FindOverflow(p)
  PROVE  PolicyInv'
<1> DEFINE v == versionOf[post[p].event]
           found == Overflow(v)
           moved == [post[p] EXCEPT !.pc = "trim"]
           q == [moved EXCEPT !.drop = found]
<1>1. /\ post[p] \in PostType /\ post[p].pc = "policy" /\ v # 0
      /\ rows' = rows /\ versionOf' = versionOf
  BY PostAloneVersions DEF PolicyInv, GatewayInv, IngestOK, IngestTypeOK, PostOK, FindOverflow, PostAt, db
<1>2. ASSUME NEW e \in found PROVE Enough(e) /\ rows[e].version = v
  <2>1. e \in Events /\ Pending(e) /\ rows[e].version = v
    BY DEF Overflow, PendingOf
  <2>2. Cardinality({f \in PendingOf(v) : Newer(e, f)}) >= Keep
    BY DEF Overflow
  <2>3. {f \in PendingOf(v) : Newer(e, f)} \subseteq Behind(e) /\ Behind(e) \in SUBSET Events
    BY <2>1 DEF PendingOf, Behind
  <2>4. Cardinality({f \in PendingOf(v) : Newer(e, f)}) <= Cardinality(Behind(e))
    BY <2>3, BehindFinite, FS_Subset
  <2>5. {f \in PendingOf(v) : Newer(e, f)} \in SUBSET Events
    BY <2>3
  <2>6. Cardinality(Behind(e)) >= Keep
    BY <2>2, <2>3, <2>4, <2>5, BehindFinite, StoreAssumption
  <2>7. QED
    BY <2>1, <2>6 DEF Enough, PolicyInv, RowsOK, Pending
<1> HIDE DEF found
<1>3. moved.pc = "trim" /\ moved.event = post[p].event
  BY <1>1 DEF PostType
<1>4. q.pc = "trim" /\ q.event = post[p].event /\ q.drop = found
  BY <1>1, <1>3 DEF PostType
<1>5. post' = [post EXCEPT ![p] = q]
  BY Zenon DEF FindOverflow, found
<1> HIDE DEF q
<1>6. post'[p] = q /\ \A r \in Posts \ {p} : post'[r] = post[r]
  BY <1>5, OnlyPost DEF PolicyInv
<1>7. PostOK(p)'
  <2>1. \A e \in found : Enough(e)' /\ rows'[e].version = v
    BY <1>1, <1>2 DEF Enough, Behind, Newer
  <2>2. QED
    BY <1>1, <1>4, <1>6, <2>1 DEF PostOK
<1>8. QED
  BY <1>1, <1>6, <1>7, IngestFramePolicy

LEMMA TrimOverflowPolicy ==
  ASSUME PolicyInv, GatewayInv', NEW p \in Posts, TrimOverflow(p)
  PROVE  PolicyInv'
<1>1. RowsKept
  BY SupersedeKeepsRows DEF TrimOverflow, Reasons, PolicyInv, PostOK
<1>2. post[p].pc # "idle"
  BY DEF TrimOverflow, PostAt
<1>3. QED
  BY <1>1, <1>2, PostAloneVersions, MoveKeepsPolicy DEF TrimOverflow

LEMMA IngestPolicy ==
  ASSUME PolicyInv, GatewayInv', NEW p \in Posts, Ingest(p) \/ LoseInsert(p) \/ PostFails(p)
  PROVE  PolicyInv'
<1>1. PostAlone => versionOf' = versionOf
  BY PostAloneVersions
<1>2. CASE LoseInsert(p)
  <2>1. post[p].event \in Events /\ post[p].id # 0
    BY <1>2 DEF PolicyInv, GatewayInv, IngestOK, PostOK, LoseInsert, PostAt
  <2>2. RowsKept
    BY <1>2, <2>1, InsertKeepsRows DEF LoseInsert
  <2>3. QED
    BY <1>1, <1>2, <2>2, ReturnKeepsPolicy DEF LoseInsert
<1>3. CASE ClaimLive(p)
  <2>1. CASE Claimable(post[p].event) /\ Claim(post[p].event) /\ PostMoves(p, "deliver")
    <3>1. post[p].event \in Events /\ post[p].pc # "idle"
      BY <1>3 DEF PolicyInv, GatewayInv, IngestOK, ClaimLive, PostAt
    <3>2. RowsKept
      BY <2>1, <3>1, ClaimKeepsRows
    <3>3. QED
      BY <1>1, <1>3, <2>1, <3>1, <3>2, MoveKeepsPolicy DEF ClaimLive
  <2>2. CASE PostReturns(p) /\ UNCHANGED rows
    BY <1>1, <1>3, <2>2, ReturnKeepsPolicy DEF ClaimLive
  <2>3. QED
    BY <1>3, <2>1, <2>2 DEF ClaimLive
<1>4. CASE DeliverLive(p)
  BY <1>4, ReturnKeepsPolicy DEF DeliverLive, db
<1>5. CASE PostFails(p)
  <2>1. rows' = rows /\ post[p].pc # "idle"
    BY <1>5 DEF PostFails, db
  <2>2. CASE post' = [post EXCEPT ![p].pc = "claim", ![p].drop = {}]
    BY <1>1, <1>5, <2>1, <2>2, MoveKeepsPolicy DEF PostFails
  <2>3. CASE PostReturns(p)
    BY <1>1, <1>5, <2>1, <2>3, ReturnKeepsPolicy DEF PostFails
  <2>4. QED
    BY <1>5, <2>2, <2>3 DEF PostFails
<1>6. QED
  BY <1>2, <1>3, <1>4, <1>5, BeginInsertPolicy, CommitInsertPolicy, ApplyLatestPolicy,
     FindOverflowPolicy, TrimOverflowPolicy DEF Ingest

LEMMA ReceivePolicy ==
  ASSUME PolicyInv, GatewayInv', NEW p \in Posts, NEW e \in Events, Receive(p, e)
  PROVE  PolicyInv'
<1> DEFINE begun == [post[p] EXCEPT !.pc = "insert"]
           q == [begun EXCEPT !.event = e]
<1>1. post[p] \in PostType /\ post[p].pc = "idle" /\ post[p].drop = {} /\ rows' = rows
  BY DEF PolicyInv, GatewayInv, IngestOK, IngestTypeOK, PostOK, Receive, PostAt, db
<1>2. \A f \in Events : versionOf[f] # 0 => versionOf'[f] = versionOf[f]
  BY DEF PolicyInv, GatewayInv, IngestOK, IngestTypeOK, Receive
<1>3. begun.pc = "insert" /\ begun.drop = {}
  BY <1>1 DEF PostType
<1>4. q.pc = "insert" /\ q.drop = {} /\ q.event = e
  BY <1>1, <1>3 DEF PostType
<1>5. (versionOf'[e] # 0 /\ post' = [post EXCEPT ![p] = q]) \/ post' = post
  BY Zenon DEF Receive, Live
<1> HIDE DEF q
<1>6. CASE versionOf'[e] # 0 /\ post' = [post EXCEPT ![p] = q]
  <2>1. post'[p] = q /\ \A r \in Posts \ {p} : post'[r] = post[r]
    BY <1>6, OnlyPost DEF PolicyInv
  <2>2. PostOK(p)'
    BY <1>4, <1>6, <2>1 DEF PostOK
  <2>3. QED
    BY <1>1, <1>2, <2>1, <2>2, IngestFramePolicy
<1>7. CASE post' = post
  <2>1. PostOK(p)'
    BY <1>1, <1>7 DEF PostOK
  <2>2. QED
    BY <1>1, <1>2, <1>7, <2>1, IngestFramePolicy
<1>8. QED
  BY <1>5, <1>6, <1>7

LEMMA AckPolicy ==
  ASSUME PolicyInv, GatewayInv', NEW e \in Events, AckEvent(e)
  PROVE  PolicyInv'
<1> DEFINE acked == [rows[e] EXCEPT !.acked = TRUE]
           row == [acked EXCEPT !.age = 0]
<1>1. rows \in [Events -> RowType] /\ rows[e] \in RowType
  BY DEF PolicyInv, GatewayInv, StoreTypeOK
<1>2. /\ acked.id = rows[e].id /\ acked.version = rows[e].version
      /\ acked.superseded = rows[e].superseded /\ acked.acked
  BY <1>1 DEF RowType
<1>3. /\ row.id = rows[e].id /\ row.version = rows[e].version
      /\ row.superseded = rows[e].superseded /\ row.acked
  BY <1>1, <1>2 DEF RowType
<1>4. rows' = [rows EXCEPT ![e] = row]
  BY Zenon DEF AckEvent, Ack
<1> HIDE DEF row
<1>5. \A f \in Events : rows'[f] = IF f = e THEN row ELSE rows[f]
  BY <1>1, <1>4
<1>6. RowsKept
  BY <1>3, <1>5, UpdateKeepsRows
<1>7. QED
  BY <1>6, PolicyFrame DEF AckEvent

LEMMA TickPolicy ==
  ASSUME PolicyInv, GatewayInv', Tick
  PROVE  PolicyInv'
<1>1. ASSUME NEW e \in Events
      PROVE  \/ rows'[e] = rows[e]
             \/ /\ rows'[e].id = rows[e].id /\ rows'[e].version = rows[e].version
                /\ rows'[e].superseded = rows[e].superseded /\ rows[e].id # 0
  <2>1. rows[e] \in RowType
    BY RowTyped DEF PolicyInv
  <2>2. CASE Pending(e) /\ ~Late(e)
    <3>1. rows'[e] = [rows[e] EXCEPT !.age = rows[e].age + 1]
      BY <2>2 DEF Tick, Aged
    <3>2. rows[e].id # 0
      BY <2>2 DEF PolicyInv, RowsOK, Pending
    <3>3. QED
      BY <2>1, <3>1, <3>2 DEF RowType
  <2>3. CASE ~(Pending(e) /\ ~Late(e))
    BY <2>3 DEF Tick, Aged
  <2>4. QED
    BY <2>2, <2>3
<1>2. RowsKept
  BY <1>1, UpdateKeepsRows
<1>3. QED
  BY <1>2, PolicyFrame DEF Tick

\* The retention deletes a version at a time, rows and what they are behind.
LEMMA CollectPolicy ==
  ASSUME PolicyInv, GatewayInv', CollectGarbage
  PROVE  PolicyInv'
<1> DEFINE expired(v) == {e \in Events : Stored(e) /\ rows[e].version = v}
<1>1. PICK v \in Versions : Outlasted(v) /\ DeleteExpired(expired(v))
  BY DEF CollectGarbage
<1>2. \A e \in Events : rows'[e] = IF Stored(e) /\ rows[e].version = v THEN NoRow ELSE rows[e]
  BY <1>1 DEF DeleteExpired
<1>3. UNCHANGED ingest
  BY DEF CollectGarbage, SweepAlone
<1>4. NoRow.id = 0 /\ NoRow.superseded = "no" /\ NoRow.version = 0 /\ v # 0
  BY StoreBounds DEF NoRow, Versions
<1>5. ASSUME NEW e \in Events, Enough(e), rows[e].version # v PROVE Enough(e)' /\ rows'[e] = rows[e]
  <2>1. rows'[e] = rows[e]
    BY <1>2, <1>5
  <2>2. Behind(e) \subseteq Behind(e)'
    BY <1>2, <1>5, <2>1 DEF Behind, Newer
  <2>3. Behind(e) \in SUBSET Events /\ Behind(e)' \in SUBSET Events
    BY DEF Behind
  <2>4. Cardinality(Behind(e)) <= Cardinality(Behind(e)')
    BY <2>2, <2>3, BehindFinite, FS_Subset
  <2>5. Cardinality(Behind(e)') >= Keep
    BY <1>5, <2>3, <2>4, BehindFinite, StoreAssumption DEF Enough
  <2>6. QED
    BY <1>5, <2>1, <2>5 DEF Enough
<1>6. RowsOK'
  <2> SUFFICES ASSUME NEW e \in Events
               PROVE  /\ (Stored(e) /\ ~rows[e].acked)' => rows'[e].id # 0
                      /\ Dropped(e)' => Enough(e)'
    BY DEF RowsOK
  <2>1. CASE Stored(e) /\ rows[e].version = v
    BY <1>2, <1>4, <2>1 DEF Stored, Dropped
  <2>2. CASE Stored(e) /\ rows[e].version # v
    BY <1>2, <1>5, <2>2 DEF PolicyInv, RowsOK, Stored, Dropped
  <2>3. CASE ~Stored(e)
    BY <1>2, <1>4, <2>3 DEF Stored, Dropped
  <2>4. QED
    BY <2>1, <2>2, <2>3
<1>7. ASSUME NEW p \in Posts PROVE PostOK(p)'
  <2>1. CASE post[p].pc = "idle"
    BY <1>3, <2>1 DEF PolicyInv, PostOK, ingest
  <2>2. CASE post[p].pc # "idle"
    <3>1. post[p].event \in Events /\ post[p].drop \in SUBSET Events
      BY <2>2 DEF PolicyInv, GatewayInv, IngestOK, IngestTypeOK, PostType
    <3>2. versionOf[post[p].event] # v
      BY <1>1, <3>1 DEF Outlasted
    <3>3. \A e \in post[p].drop : Enough(e)' /\ rows'[e].version = versionOf[post[p].event]
      BY <1>5, <3>1, <3>2 DEF PolicyInv, PostOK
    <3>4. post' = post /\ versionOf' = versionOf
      BY <1>3 DEF ingest
    <3>5. post[p].pc = "policy" => rows'[post[p].event] = rows[post[p].event]
      BY <1>2, <3>1, <3>2 DEF PolicyInv, PostOK
    <3>6. QED
      BY <2>2, <3>3, <3>4, <3>5 DEF PolicyInv, PostOK
  <2>3. QED
    BY <2>1, <2>2
<1>8. QED
  BY <1>6, <1>7 DEF PolicyInv

LEMMA ServePolicy ==
  ASSUME PolicyInv, GatewayInv', NEW s \in Streams,
         Serve(s) \/ ReplayFails(s) \/ Disconnect(s) \/ (\E v \in Versions : Authenticate(s, v))
  PROVE  PolicyInv'
<1>1. UNCHANGED ingest
  BY DEF Serve, Register, LoadReplay, ClaimReplay, SendReplay, SendQueued, SeeClosed,
         ReplayFails, Disconnect, Authenticate, StreamAlone
<1>2. CASE ClaimReplay(s)
  <2> DEFINE e == Oldest(stream[s].replay)
  <2>1. stream[s].replay \in SUBSET Events /\ stream[s].replay # {}
    BY <1>2 DEF PolicyInv, GatewayInv, StreamsOK, StreamType, ClaimReplay
  <2>2. e \in Events
    BY <2>1, OldestIsMember DEF PolicyInv, GatewayInv
  <2>3. (Claimable(e) /\ Claim(e)) \/ UNCHANGED rows
    BY <1>2 DEF ClaimReplay
  <2> HIDE DEF e
  <2>4. QED
    BY <1>1, <2>2, <2>3, ClaimKeepsRows, PolicyFrame
<1>3. CASE ~ClaimReplay(s)
  <2>1. UNCHANGED rows
    BY <1>3 DEF Serve, Register, LoadReplay, SendReplay, SendQueued, SeeClosed,
                ReplayFails, Disconnect, Authenticate, db
  <2>2. QED
    BY <1>1, <2>1, PolicyFrame
<1>4. QED
  BY <1>2, <1>3

LEMMA SweepPolicy ==
  ASSUME PolicyInv, GatewayInv', Sweep \/ SweepFails
  PROVE  PolicyInv'
<1>1. UNCHANGED ingest
  BY DEF Sweep, BeginSweep, CheckSubscription, CloseStale, StaleClosed, SupersedeExhausted,
         ReadOverdue, ClaimOverdue, DeliverOverdue, EndSweep, SweepFails, SweepAlone
<1>2. CASE SupersedeExhausted
  <2>1. RowsKept
    BY <1>2, SupersedeKeepsRows DEF SupersedeExhausted, Reasons
  <2>2. QED
    BY <1>1, <2>1, PolicyFrame
<1>3. CASE ClaimOverdue
  <2> DEFINE e == Oldest(sweep.overdue)
  <2>1. sweep.overdue \in SUBSET Events /\ sweep.overdue # {}
    BY <1>3 DEF PolicyInv, GatewayInv, SweepOK, SweepType, ClaimOverdue
  <2>2. e \in Events
    BY <2>1, OldestIsMember DEF PolicyInv, GatewayInv
  <2>3. (Claimable(e) /\ Claim(e)) \/ UNCHANGED rows
    BY <1>3 DEF ClaimOverdue
  <2> HIDE DEF e
  <2>4. QED
    BY <1>1, <2>2, <2>3, ClaimKeepsRows, PolicyFrame
<1>4. CASE ~SupersedeExhausted /\ ~ClaimOverdue
  <2>1. UNCHANGED rows
    BY <1>4 DEF Sweep, BeginSweep, CheckSubscription, CloseStale, StaleClosed,
                ReadOverdue, DeliverOverdue, EndSweep, SweepFails, db
  <2>2. QED
    BY <1>1, <2>1, PolicyFrame
<1>5. QED
  BY <1>2, <1>3, <1>4

LEMMA ApiPolicy ==
  ASSUME PolicyInv, GatewayInv', NEW a \in Requests,
         BeginUpdate(a) \/ BeginCancel(a) \/ Handle(a) \/ ApiFails(a)
  PROVE  PolicyInv'
<1>1. UNCHANGED ingest
  BY DEF BeginUpdate, BeginCancel, Handle, CreateRow, SyncMonitor, SaveSubscription, UndoCreate,
         DeleteMonitor, CancelRow, RetireEvents, CloseStreams, ApiFails, ApiAlone
<1>2. CASE RetireEvents(a)
  <2> DEFINE why == IF api[a].new = 0 THEN "subscription_cancelled" ELSE "subscription_replaced"
  <2>1. why \in Reasons /\ why \notin {"replaced", "overflow"}
    BY DEF Reasons
  <2>2. Supersede(NotKept(api[a].new), why)
    BY <1>2 DEF RetireEvents
  <2> HIDE DEF why
  <2>3. RowsKept
    BY <2>1, <2>2, SupersedeKeepsRows
  <2>4. QED
    BY <1>1, <2>3, PolicyFrame
<1>3. CASE ~RetireEvents(a)
  <2>1. UNCHANGED rows
    BY <1>3 DEF BeginUpdate, BeginCancel, Handle, CreateRow, SyncMonitor, SaveSubscription,
                UndoCreate, DeleteMonitor, CancelRow, CloseStreams, ApiFails, db
  <2>2. QED
    BY <1>1, <2>1, PolicyFrame
<1>4. QED
  BY <1>2, <1>3

LEMMA ProcessPolicy ==
  ASSUME PolicyInv, GatewayInv',
         Expire \/ Shutdown \/ Restart \/ CrashApi \/ (\E e \in Events : ValidateAck(e)) \/ UNCHANGED vars
  PROVE  PolicyInv'
<1>1. UNCHANGED rows
  BY DEF Expire, Shutdown, Restart, CrashApi, ValidateAck, vars, db
<1>2. CASE Restart
  <2>1. \A p \in Posts : post'[p] = IdlePost /\ versionOf' = versionOf
    BY <1>2 DEF Restart
  <2>2. QED
    BY <1>1, <2>1, SameRows, PostStays DEF PolicyInv
<1>3. CASE ~Restart
  <2>1. UNCHANGED ingest
    BY <1>3 DEF Expire, Shutdown, CrashApi, ValidateAck, vars
  <2>2. QED
    BY <1>1, <2>1, PolicyFrame
<1>4. QED
  BY <1>2, <1>3

LEMMA PolicyInit == Init => PolicyInv
<1> SUFFICES ASSUME Init PROVE PolicyInv
  OBVIOUS
<1>1. GatewayInv
  BY InitHolds
<1>2. RowsOK
  BY DEF Init, StoreInit, RowsOK, Stored, Dropped, NoRow
<1>3. ASSUME NEW p \in Posts PROVE PostOK(p)
  BY DEF Init, PostOK, IdlePost
<1>4. QED
  BY <1>1, <1>2, <1>3 DEF PolicyInv

LEMMA PolicyInductive == PolicyInv /\ [Next]_vars => PolicyInv'
<1> SUFFICES ASSUME PolicyInv, [Next]_vars PROVE PolicyInv'
  OBVIOUS
<1>1. GatewayInv'
  BY Inductive DEF PolicyInv
<1>2. QED
  BY <1>1, IngestPolicy, ReceivePolicy, ServePolicy, AckPolicy, SweepPolicy, CollectPolicy,
     ApiPolicy, ProcessPolicy, TickPolicy DEF Next

\* Under "latest" and under "all", for any number of kept events, requests
\* and versions: ids are drawn before they are committed, what is dropped is
\* read before it is dropped, and still an event is dropped for newer ones.
THEOREM DropsForNewer == Spec => []DroppedForNewer
<1>1. Spec => []PolicyInv
  BY PolicyInit, PolicyInductive, PTL DEF Spec
<1>2. PolicyInv => DroppedForNewer
  BY DEF PolicyInv, RowsOK, DroppedForNewer, Dropped, Enough, Behind
<1>3. QED
  BY <1>1, <1>2, PTL
=============================================================================
