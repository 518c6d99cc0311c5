---------------------------- MODULE RealtimeGateway ----------------------------
(***************************************************************************)
(* The realtime event gateway (internal/realtime) of one birthday          *)
(* subscription.  Toolbox posts events to the events process, which stores *)
(* them and pushes them on server-sent streams; its sweep redelivers what  *)
(* is not acknowledged.  The API process replaces and cancels the          *)
(* subscription (internal/pjsk/subscription), records acknowledgements and *)
(* asks the events process to close the streams of a retired version.      *)
(* Every statement of the database and every critical section of the hub   *)
(* is a step of its own.                                                   *)
(***************************************************************************)
EXTENDS RealtimeStore, Sequences

CONSTANTS
  Posts,        \* ingest requests served at one time
  Streams,      \* stream requests served at one time
  Requests,     \* requests to replace or cancel served at one time
  QueueSize,    \* connQueueSize
  MaxPerKey,    \* MaxConnsPerSubscription
  MaxConns,
  Subscribed,   \* whether the account has a live subscription at the start
  MaxPosts,     \* bound: ingest requests in all
  MaxFaults,    \* bound: failed calls, closed connections, crashes
  NoEvent

ASSUME GatewayAssumption ==
  /\ NoEvent \notin Events
  /\ {QueueSize, MaxPerKey, MaxConns} \subseteq Nat \ {0}
  /\ {MaxPosts, MaxFaults} \subseteq Nat
  /\ Subscribed \in BOOLEAN /\ (Subscribed => MaxVersions > 0)

VARIABLES
  sub,       \* the subscription row; version 0 when there is none
  monitor,   \* the version Toolbox monitors, 0 for none
  issued,    \* the last version issued
  versionOf, \* the version each event was notified for, 0 before
  post,      \* Ingest, per request
  posted,    \* ingest requests so far
  hub,       \* Hub.streams
  older,     \* <<s, t>>: both are in the hub, and s has the lower connection id
  total,     \* Hub.total
  stopping,
  stream,    \* handleSSE and serveStream, per stream
  sweep,     \* Sweep
  api,       \* CreateOrUpdate and Cancel, per request
  lastSeen,  \* Last-Event-ID of the client of each version
  acking,    \* ackRealtimeEvent: events whose token has been validated
  frames,    \* history: frames written for each event
  faults     \* failures so far

db == <<rows, nextId>>
subscription == <<sub, monitor, issued>>
ingest == <<versionOf, post, posted>>
hubVars == <<hub, older, total>>
streams == <<hub, older, total, stream>>
client == <<lastSeen, acking, frames>>
vars == <<db, subscription, ingest, streams, stopping, sweep, api, client, faults>>

Copies == [event : Events, redelivery : BOOLEAN]
IdlePost == [pc |-> "idle", event |-> NoEvent, id |-> 0, drop |-> {}]
IdleStream == [pc |-> "idle", version |-> 0, after |-> 0, replay |-> {}, out |-> NoEvent,
               queue |-> <<>>, delivered |-> {}, closed |-> FALSE]
IdleSweep == [pc |-> "idle", keys |-> {}, live |-> {}, overdue |-> {}, event |-> NoEvent]
IdleRequest == [pc |-> "idle", old |-> 0, new |-> 0, create |-> FALSE]

Issued == 0..MaxVersions

PostType == [pc : {"idle", "insert", "commit", "policy", "trim", "claim", "deliver"},
             event : Events \union {NoEvent}, id : Nat, drop : SUBSET Events]
StreamType == [pc : {"idle", "register", "load", "serve"}, version : Issued, after : Nat,
               replay : SUBSET Events, out : Events \union {NoEvent}, queue : Seq(Copies),
               delivered : SUBSET Events, closed : BOOLEAN]
SweepType == [pc : {"idle", "check", "close", "exhaust", "overdue", "claim", "deliver"},
              keys : SUBSET Issued, live : SUBSET Issued, overdue : SUBSET Events,
              event : Events \union {NoEvent}]
RequestType == [pc : {"idle", "create", "sync", "undo", "save", "delete", "cancel", "retire", "close"},
                old : Issued, new : Issued, create : BOOLEAN]

SubscriptionTypeOK ==
  /\ sub \in [version : Issued, active : BOOLEAN, expired : BOOLEAN]
  /\ monitor \in Issued /\ issued \in Issued
IngestTypeOK ==
  versionOf \in [Events -> Issued] /\ post \in [Posts -> PostType] /\ posted \in Nat
HubTypeOK == hub \subseteq Streams /\ older \subseteq hub \X hub /\ total \in Nat
ClientTypeOK ==
  lastSeen \in [Versions -> Nat] /\ acking \subseteq Events /\ frames \in [Events -> Nat]

TypeOK ==
  /\ StoreTypeOK /\ SubscriptionTypeOK /\ IngestTypeOK /\ ClientTypeOK
  /\ HubTypeOK /\ stream \in [Streams -> StreamType] /\ stopping \in BOOLEAN
  /\ sweep \in SweepType /\ api \in [Requests -> RequestType]
  /\ faults \in 0..MaxFaults

Init ==
  /\ StoreInit
  /\ issued = IF Subscribed THEN 1 ELSE 0
  /\ sub = [version |-> issued, active |-> Subscribed, expired |-> FALSE]
  /\ monitor = issued
  /\ versionOf = [e \in Events |-> 0]
  /\ post = [p \in Posts |-> IdlePost]
  /\ posted = 0
  /\ hub = {} /\ older = {} /\ total = 0 /\ stopping = FALSE
  /\ stream = [s \in Streams |-> IdleStream]
  /\ sweep = IdleSweep
  /\ api = [a \in Requests |-> IdleRequest]
  /\ lastSeen = [v \in Versions |-> 0] /\ acking = {}
  /\ frames = [e \in Events |-> 0]
  /\ faults = 0

Fault == faults < MaxFaults /\ faults' = faults + 1

\* subscriptionLive
Live(v) == v # 0 /\ sub.version = v /\ sub.active /\ ~sub.expired

--------------------------------------------------------------------------------
(* Hub: each operator is one critical section of Hub.mu. *)

OnKey(v) == {s \in hub : stream[s].version = v}
Online(v) == OnKey(v) # {}

Among(S) == older \intersect (S \X S)

\* Mutant: a stream is removed twice.
RegisteredOrNot(S) == S

\* removeLocked ignores a stream that is no longer in the hub.
Registered(S) == S \intersect hub
RemoveConns(S) ==
  /\ hub' = hub \ S
  /\ older' = Among(hub \ S)
  /\ total' = total - Cardinality(Registered(S))

\* conn.close: the stream sees it when its loop selects it.
CloseConns(S) == stream' = [s \in Streams |-> IF s \in S THEN [stream[s] EXCEPT !.closed = TRUE] ELSE stream[s]]

CloseHub(S) == RemoveConns(S) /\ CloseConns(S)

\* Deliver: a full queue drops the copy.
Accepts(s) == Len(stream[s].queue) < QueueSize
Deliver(e, redelivery) ==
  stream' = [s \in Streams |->
               IF s \in OnKey(rows[e].version) /\ Accepts(s)
               THEN [stream[s] EXCEPT !.queue = Append(@, [event |-> e, redelivery |-> redelivery])]
               ELSE stream[s]]

Evictable(v) == IF Cardinality(OnKey(v)) >= MaxPerKey THEN Cardinality(OnKey(v)) - MaxPerKey + 1 ELSE 0
\* Mutant: one connection too many.
FullLate(v) == total - Evictable(v) > MaxConns

Full(v) == total - Evictable(v) >= MaxConns

\* The streams of v with the lowest connection ids.
OldestStreams(v, n) == {s \in OnKey(v) : Cardinality({t \in OnKey(v) : <<t, s>> \in older}) < n}

--------------------------------------------------------------------------------
(* Ingest *)

PostAt(p, pc) == post[p].pc = pc
PostMoves(p, pc) == post' = [post EXCEPT ![p].pc = pc]
PostReturns(p) == post' = [post EXCEPT ![p] = IdlePost]
PostAlone == UNCHANGED <<subscription, versionOf, posted, streams, stopping, sweep, api, client>>

\* Toolbox posts an event of the version it monitors, or posts one again.
\* Ingest loads the subscription; a version that is not live is refused.
Receive(p, e) ==
  /\ PostAt(p, "idle") /\ posted < MaxPosts
  /\ IF versionOf[e] = 0
     THEN monitor # 0 /\ versionOf' = [versionOf EXCEPT ![e] = monitor]
     ELSE UNCHANGED versionOf
  /\ posted' = posted + 1
  /\ IF Live(versionOf'[e])
     THEN post' = [post EXCEPT ![p].pc = "insert", ![p].event = e]
     ELSE UNCHANGED post
  /\ UNCHANGED <<db, subscription, streams, stopping, sweep, api, client, faults>>

\* findByEventID, and the INSERT takes its id from the sequence.
BeginInsert(p) ==
  /\ PostAt(p, "insert")
  /\ \/ /\ Stored(post[p].event)
        /\ PostReturns(p)
        /\ UNCHANGED nextId
     \/ /\ ~Stored(post[p].event)
        /\ nextId' = nextId + 1
        /\ post' = [post EXCEPT ![p].pc = "commit", ![p].id = nextId]
  /\ UNCHANGED <<rows, faults>> /\ PostAlone

\* The row becomes visible, or a concurrent duplicate won the unique key.
CommitInsert(p) ==
  /\ PostAt(p, "commit")
  /\ LET e == post[p].event IN
       \/ /\ Stored(e)
          /\ PostReturns(p)
          /\ UNCHANGED rows
       \/ /\ ~Stored(e)
          /\ Insert(e, versionOf[e], post[p].id)
          /\ PostMoves(p, "policy")
  /\ UNCHANGED <<nextId, faults>> /\ PostAlone

\* The reply is lost after the commit: 503, and nothing is delivered.
LoseInsert(p) ==
  /\ PostAt(p, "commit") /\ ~Stored(post[p].event)
  /\ Fault
  /\ Insert(post[p].event, versionOf[post[p].event], post[p].id)
  /\ PostReturns(p)
  /\ UNCHANGED nextId /\ PostAlone

ApplyLatest(p) ==
  /\ PostAt(p, "policy") /\ Keep = 1
  /\ Supersede(Replaced(post[p].id, versionOf[post[p].event]), "replaced")
  /\ PostMoves(p, "claim")
  /\ UNCHANGED <<nextId, faults>> /\ PostAlone

FindOverflow(p) ==
  /\ PostAt(p, "policy") /\ Keep > 1
  /\ post' = [post EXCEPT ![p].pc = "trim", ![p].drop = Overflow(versionOf[post[p].event])]
  /\ UNCHANGED <<db, faults>> /\ PostAlone

TrimOverflow(p) ==
  /\ PostAt(p, "trim")
  /\ Supersede(post[p].drop, "overflow")
  /\ post' = [post EXCEPT ![p].pc = "claim", ![p].drop = {}]
  /\ UNCHANGED <<nextId, faults>> /\ PostAlone

\* deliverLive: Online, then Claim.
ClaimLive(p) ==
  /\ PostAt(p, "claim")
  /\ LET e == post[p].event IN
       \/ /\ Online(versionOf[e]) /\ Claimable(e)
          /\ Claim(e)
          /\ PostMoves(p, "deliver")
       \/ /\ ~Online(versionOf[e]) \/ ~Claimable(e)
          /\ PostReturns(p)
          /\ UNCHANGED rows
  /\ UNCHANGED <<nextId, faults>> /\ PostAlone

DeliverLive(p) ==
  /\ PostAt(p, "deliver")
  /\ Deliver(post[p].event, FALSE)
  /\ PostReturns(p)
  /\ UNCHANGED <<db, subscription, versionOf, posted, hubVars, stopping, sweep, api, client, faults>>

\* A statement fails: a failed policy is only logged, a failed insert is
\* answered 503 and a failed claim leaves the event to the sweep.
PostFails(p) ==
  /\ post[p].pc \in {"insert", "commit", "policy", "trim", "claim"}
  /\ Fault
  /\ IF post[p].pc \in {"policy", "trim"}
     THEN post' = [post EXCEPT ![p].pc = "claim", ![p].drop = {}]
     ELSE PostReturns(p)
  /\ UNCHANGED db /\ PostAlone

Ingest(p) ==
  \/ BeginInsert(p) \/ CommitInsert(p)
  \/ ApplyLatest(p) \/ FindOverflow(p) \/ TrimOverflow(p)
  \/ ClaimLive(p) \/ DeliverLive(p)

--------------------------------------------------------------------------------
(* handleSSE and serveStream *)

StreamAt(s, pc) == stream[s].pc = pc
StreamAlone == UNCHANGED <<subscription, ingest, stopping, sweep, api>>

\* The deferred Unregister, wherever serveStream returns.
EndStream(s) ==
  /\ RemoveConns({s})
  /\ stream' = [stream EXCEPT ![s] = IdleStream]

\* A client connects with the token of v, and resumes after the last event
\* it has seen unless it has restarted.
Authenticate(s, v) ==
  /\ StreamAt(s, "idle") /\ ~stopping /\ Live(v)
  /\ \E after \in {0, lastSeen[v]} :
       stream' = [stream EXCEPT ![s].pc = "register", ![s].version = v, ![s].after = after]
  /\ UNCHANGED <<db, hubVars, client, faults>> /\ StreamAlone

Register(s) ==
  /\ StreamAt(s, "register")
  /\ LET v == stream[s].version
         evicted == OldestStreams(v, Evictable(v))
     IN \/ /\ Full(v)
           /\ stream' = [stream EXCEPT ![s] = IdleStream]
           /\ UNCHANGED hubVars
        \/ /\ ~Full(v)
           /\ hub' = (hub \ evicted) \union {s}
           /\ older' = Among(hub \ evicted) \union ((hub \ evicted) \X {s})
           /\ total' = total - Cardinality(evicted) + 1
           /\ stream' = [t \in Streams |->
                           CASE t = s -> [stream[t] EXCEPT !.pc = "load"]
                             [] t \in evicted -> [stream[t] EXCEPT !.closed = TRUE]
                             [] OTHER -> stream[t]]
  /\ UNCHANGED <<db, client, faults>> /\ StreamAlone

LoadReplay(s) ==
  /\ StreamAt(s, "load")
  /\ stream' = [stream EXCEPT ![s].pc = "serve", ![s].replay = Replay(stream[s].version, stream[s].after)]
  /\ UNCHANGED <<db, hubVars, client, faults>> /\ StreamAlone

ClaimReplay(s) ==
  /\ StreamAt(s, "serve") /\ stream[s].replay # {} /\ stream[s].out = NoEvent
  /\ LET e == Oldest(stream[s].replay) IN
       \/ /\ Claimable(e)
          /\ Claim(e)
          /\ stream' = [stream EXCEPT ![s].replay = @ \ {e}, ![s].out = e]
       \/ /\ ~Claimable(e)
          /\ stream' = [stream EXCEPT ![s].replay = @ \ {e}]
          /\ UNCHANGED rows
  /\ UNCHANGED <<nextId, hubVars, client, faults>> /\ StreamAlone

\* Pending or Claim fails: the rest of the replay is left to the sweep.
ReplayFails(s) ==
  /\ \/ StreamAt(s, "load")
     \/ StreamAt(s, "serve") /\ stream[s].replay # {} /\ stream[s].out = NoEvent
  /\ Fault
  /\ stream' = [stream EXCEPT ![s].pc = "serve", ![s].replay = {}]
  /\ UNCHANGED <<db, hubVars, client>> /\ StreamAlone

\* send: the frame reaches the client, whose Last-Event-ID is its id.
Frame(s, e) ==
  /\ frames' = [frames EXCEPT ![e] = @ + 1]
  /\ lastSeen' = [lastSeen EXCEPT ![stream[s].version] = rows[e].id]
  /\ UNCHANGED acking

SendReplay(s) ==
  /\ stream[s].out # NoEvent
  /\ Frame(s, stream[s].out)
  /\ stream' = [stream EXCEPT ![s].delivered = @ \union {stream[s].out}, ![s].out = NoEvent]
  /\ UNCHANGED <<db, hubVars, faults>> /\ StreamAlone

Looping(s) == StreamAt(s, "serve") /\ stream[s].replay = {} /\ stream[s].out = NoEvent

AlreadySent(s, copy) == ~copy.redelivery /\ copy.event \in stream[s].delivered

\* The select of the loop takes any case that is ready, so a copy may still
\* be sent on a stream that is closed.
SendQueued(s) ==
  /\ Looping(s) /\ stream[s].queue # <<>>
  /\ LET copy == Head(stream[s].queue) IN
       \/ /\ AlreadySent(s, copy)
          /\ stream' = [stream EXCEPT ![s].queue = Tail(@)]
          /\ UNCHANGED client
       \/ /\ ~AlreadySent(s, copy)
          /\ Frame(s, copy.event)
          /\ stream' = [stream EXCEPT ![s].queue = Tail(@), ![s].delivered = @ \union {copy.event}]
  /\ UNCHANGED <<db, hubVars, faults>> /\ StreamAlone

SeeClosed(s) ==
  /\ Looping(s) /\ stream[s].closed
  /\ EndStream(s)
  /\ UNCHANGED <<db, client, faults>> /\ StreamAlone

\* The client is gone, or a write fails: what the stream held is dropped.
Disconnect(s) ==
  /\ stream[s].out # NoEvent \/ Looping(s)
  /\ Fault
  /\ EndStream(s)
  /\ UNCHANGED <<db, client>> /\ StreamAlone

Serve(s) ==
  \/ Register(s) \/ LoadReplay(s) \/ ClaimReplay(s)
  \/ SendReplay(s) \/ SendQueued(s) \/ SeeClosed(s)

\* The client acknowledges what it has rendered, to the API process, which
\* validates the token of the live version and then updates the row.
ValidateAck(e) ==
  /\ frames[e] > 0 /\ Stored(e) /\ ~rows[e].acked /\ e \notin acking
  /\ Live(rows[e].version)
  /\ acking' = acking \union {e}
  /\ UNCHANGED <<db, subscription, ingest, streams, stopping, sweep, api, lastSeen, frames, faults>>

AckEvent(e) ==
  /\ e \in acking
  /\ Ack(e)
  /\ acking' = acking \ {e}
  /\ UNCHANGED <<nextId, subscription, ingest, streams, stopping, sweep, api, lastSeen, frames, faults>>

--------------------------------------------------------------------------------
(* Sweep and collectGarbage *)

SweepAt(pc) == sweep.pc = pc
SweepAlone == UNCHANGED <<subscription, ingest, stopping, api, client>>

BeginSweep ==
  /\ SweepAt("idle") /\ hub # {} /\ ~stopping
  /\ sweep' = [IdleSweep EXCEPT !.pc = "check", !.keys = {stream[s].version : s \in hub}]
  /\ UNCHANGED <<db, streams, faults>> /\ SweepAlone

CheckSubscription ==
  /\ SweepAt("check")
  /\ sweep' = [sweep EXCEPT !.pc = "close", !.live = {v \in sweep.keys : Live(v)}]
  /\ UNCHANGED <<db, streams, faults>> /\ SweepAlone

\* Mutant: the sweep checks that the subscription is active, not its version.
KeysOfInactive == IF sub.active /\ ~sub.expired THEN {} ELSE sweep.keys

StaleKeys == sweep.keys \ sweep.live

CloseStale(v) ==
  /\ SweepAt("close") /\ v \in StaleKeys
  /\ CloseHub(OnKey(v))
  /\ sweep' = [sweep EXCEPT !.keys = @ \ {v}]
  /\ UNCHANGED <<db, faults>> /\ SweepAlone

StaleClosed ==
  /\ SweepAt("close") /\ StaleKeys = {}
  /\ sweep' = [sweep EXCEPT !.pc = "exhaust", !.keys = {}]
  /\ UNCHANGED <<db, streams, faults>> /\ SweepAlone

SupersedeExhausted ==
  /\ SweepAt("exhaust")
  /\ Supersede(Exhausted, "delivery_limit")
  /\ sweep' = [sweep EXCEPT !.pc = "overdue"]
  /\ UNCHANGED <<nextId, streams, faults>> /\ SweepAlone

ReadOverdue ==
  /\ SweepAt("overdue")
  /\ sweep' = [sweep EXCEPT !.pc = "claim",
                            !.overdue = {e \in Overdue : versionOf[e] \in sweep.live}]
  /\ UNCHANGED <<db, streams, faults>> /\ SweepAlone

\* deliverLive again, for each overdue event.
ClaimOverdue ==
  /\ SweepAt("claim") /\ sweep.overdue # {}
  /\ LET e == Oldest(sweep.overdue) IN
       \/ /\ Online(versionOf[e]) /\ Claimable(e)
          /\ Claim(e)
          /\ sweep' = [sweep EXCEPT !.pc = "deliver", !.overdue = @ \ {e}, !.event = e]
       \/ /\ ~Online(versionOf[e]) \/ ~Claimable(e)
          /\ sweep' = [sweep EXCEPT !.overdue = @ \ {e}]
          /\ UNCHANGED rows
  /\ UNCHANGED <<nextId, streams, faults>> /\ SweepAlone

DeliverOverdue ==
  /\ SweepAt("deliver")
  /\ Deliver(sweep.event, TRUE)
  /\ sweep' = [sweep EXCEPT !.pc = "claim", !.event = NoEvent]
  /\ UNCHANGED <<db, hubVars, faults>> /\ SweepAlone

EndSweep ==
  /\ SweepAt("claim") /\ sweep.overdue = {}
  /\ sweep' = IdleSweep
  /\ UNCHANGED <<db, streams, faults>> /\ SweepAlone

\* A statement fails: the delivery limit is skipped, one claim is skipped,
\* any other failure ends the sweep.
SweepFails ==
  /\ sweep.pc \in {"check", "exhaust", "overdue", "claim"}
  /\ Fault
  /\ sweep' = CASE SweepAt("exhaust") -> [sweep EXCEPT !.pc = "overdue"]
                [] SweepAt("claim") /\ sweep.overdue # {} ->
                     [sweep EXCEPT !.overdue = @ \ {Oldest(sweep.overdue)}]
                [] OTHER -> IdleSweep
  /\ UNCHANGED <<db, streams>> /\ SweepAlone

Sweep ==
  \/ BeginSweep \/ CheckSubscription \/ (\E v \in Versions : CloseStale(v)) \/ StaleClosed
  \/ SupersedeExhausted
  \/ ReadOverdue \/ ClaimOverdue \/ DeliverOverdue \/ EndSweep

\* The retention, which begins when the subscription expires, outlasts the
\* requests and the streams of its version.  A cancelled version is kept as
\* long as one that is live; one that was replaced does not come back.
Outlasted(v) ==
  /\ v = sub.version => sub.expired
  /\ \A e \in Events : versionOf[e] = v => e \notin acking \union {post[p].event : p \in Posts}
  /\ \A s \in Streams : stream[s].version # v

CollectGarbage ==
  /\ SweepAt("idle") /\ ~stopping
  /\ \E v \in Versions :
       LET expired == {e \in Events : Stored(e) /\ rows[e].version = v} IN
         Outlasted(v) /\ expired # {} /\ DeleteExpired(expired)
  /\ UNCHANGED <<nextId, streams, sweep, faults>> /\ SweepAlone

--------------------------------------------------------------------------------
(* CreateOrUpdate and Cancel *)

At(a, pc) == api[a].pc = pc
Moves(a, pc) == api' = [api EXCEPT ![a].pc = pc]
Returns(a) == api' = [api EXCEPT ![a] = IdleRequest]
ApiAlone == UNCHANGED <<ingest, stopping, sweep, client>>

\* A fresh version is drawn, and the row of the account read.
BeginUpdate(a) ==
  /\ At(a, "idle") /\ issued < MaxVersions
  /\ issued' = issued + 1
  /\ api' = [api EXCEPT ![a] = [pc |-> IF sub.version = 0 THEN "create" ELSE "sync",
                                old |-> sub.version, new |-> issued + 1, create |-> sub.version = 0]]
  /\ UNCHANGED <<db, sub, monitor, streams, faults>> /\ ApiAlone

Created(a) == [version |-> api[a].new, active |-> FALSE, expired |-> FALSE]

\* (region, uid) is unique: the second of two creators fails.
CreateRow(a) ==
  /\ At(a, "create")
  /\ \/ /\ sub.version = 0
        /\ sub' = Created(a)
        /\ Moves(a, "sync")
     \/ /\ sub.version # 0
        /\ Returns(a)
        /\ UNCHANGED sub
  /\ UNCHANGED <<db, monitor, issued, streams, faults>> /\ ApiAlone

SyncMonitor(a) ==
  /\ At(a, "sync")
  /\ monitor' = api[a].new
  /\ Moves(a, "save")
  /\ UNCHANGED <<db, sub, issued, streams, faults>> /\ ApiAlone

Saved(a) == IF api[a].create
            THEN [sub EXCEPT !.active = TRUE]
            ELSE [version |-> api[a].new, active |-> TRUE, expired |-> FALSE]

SaveSubscription(a) ==
  /\ At(a, "save")
  /\ sub' = Saved(a)
  /\ IF api[a].create THEN Returns(a) ELSE Moves(a, "retire")
  /\ UNCHANGED <<db, monitor, issued, streams, faults>> /\ ApiAlone

\* CreateOrUpdate sets the row it could not synchronize inactive again.
UndoCreate(a) ==
  /\ At(a, "undo")
  /\ sub' = [sub EXCEPT !.active = FALSE]
  /\ Returns(a)
  /\ UNCHANGED <<db, monitor, issued, streams, faults>> /\ ApiAlone

BeginCancel(a) ==
  /\ At(a, "idle") /\ Live(sub.version)
  /\ api' = [api EXCEPT ![a].pc = "delete", ![a].old = sub.version]
  /\ UNCHANGED <<db, subscription, streams, faults>> /\ ApiAlone

MonitorWithout(v) == IF monitor = v THEN 0 ELSE monitor

DeleteMonitor(a) ==
  /\ At(a, "delete")
  /\ monitor' = MonitorWithout(api[a].old)
  /\ Moves(a, "cancel")
  /\ UNCHANGED <<db, sub, issued, streams, faults>> /\ ApiAlone

CancelRow(a) ==
  /\ At(a, "cancel")
  /\ sub' = [sub EXCEPT !.active = FALSE]
  /\ Moves(a, "retire")
  /\ UNCHANGED <<db, monitor, issued, streams, faults>> /\ ApiAlone

\* retireStreams
RetireEvents(a) ==
  /\ At(a, "retire")
  /\ Supersede(NotKept(api[a].new),
               IF api[a].new = 0 THEN "subscription_cancelled" ELSE "subscription_replaced")
  /\ Moves(a, "close")
  /\ UNCHANGED <<nextId, subscription, streams, faults>> /\ ApiAlone

CloseStreams(a) ==
  /\ At(a, "close")
  /\ CloseHub(OnKey(api[a].old))
  /\ Returns(a)
  /\ UNCHANGED <<db, subscription, faults>> /\ ApiAlone

\* A call fails, or succeeds and its reply is lost.  Toolbox and the row can
\* then differ; what retireStreams fails to do is only logged.
ApiFails(a) ==
  /\ Fault
  /\ \/ /\ At(a, "sync")
        /\ monitor' \in {monitor, api[a].new}
        /\ IF api[a].create THEN Moves(a, "undo") ELSE Returns(a)
        /\ UNCHANGED sub
     \/ /\ At(a, "save") /\ sub' \in {sub, Saved(a)}
        /\ monitor' \in IF api[a].create THEN {monitor, MonitorWithout(api[a].new)} ELSE {monitor}
        /\ Returns(a)
     \/ /\ At(a, "delete")
        /\ monitor' \in {monitor, MonitorWithout(api[a].old)}
        /\ Returns(a)
        /\ UNCHANGED sub
     \/ /\ At(a, "cancel")
        /\ sub' \in {sub, [sub EXCEPT !.active = FALSE]}
        /\ Returns(a)
        /\ UNCHANGED monitor
     \/ /\ At(a, "retire")
        /\ Moves(a, "close")
        /\ UNCHANGED <<sub, monitor>>
     \/ /\ At(a, "create")
        /\ sub' \in IF sub.version = 0 THEN {sub, Created(a)} ELSE {sub}
        /\ Returns(a)
        /\ UNCHANGED monitor
     \/ /\ api[a].pc \in {"undo", "close"}
        /\ Returns(a)
        /\ UNCHANGED <<sub, monitor>>
  /\ UNCHANGED <<db, issued, streams>> /\ ApiAlone

Handle(a) ==
  \/ CreateRow(a) \/ SyncMonitor(a) \/ SaveSubscription(a) \/ UndoCreate(a)
  \/ DeleteMonitor(a) \/ CancelRow(a) \/ RetireEvents(a) \/ CloseStreams(a)

--------------------------------------------------------------------------------
(* The processes and the clock *)

Expire ==
  /\ sub.version # 0 /\ ~sub.expired
  /\ sub' = [sub EXCEPT !.expired = TRUE]
  /\ UNCHANGED <<db, monitor, issued, ingest, streams, stopping, sweep, api, client, faults>>

\* Run ends between two sweeps, and Shutdown closes every stream.
Shutdown ==
  /\ SweepAt("idle") /\ ~stopping
  /\ Fault
  /\ stopping' = TRUE
  /\ CloseHub(hub)
  /\ UNCHANGED <<db, subscription, ingest, sweep, api, client>>

\* The events process exits or dies, and another one starts.
Restart ==
  /\ (stopping /\ UNCHANGED faults) \/ Fault
  /\ post' = [p \in Posts |-> IdlePost]
  /\ hub' = {} /\ older' = {} /\ total' = 0 /\ stopping' = FALSE
  /\ stream' = [s \in Streams |-> IdleStream]
  /\ sweep' = IdleSweep
  /\ UNCHANGED <<db, subscription, versionOf, posted, api, client>>

CrashApi ==
  /\ \E a \in Requests : ~At(a, "idle")
  /\ Fault
  /\ api' = [a \in Requests |-> IdleRequest]
  /\ UNCHANGED <<db, subscription, ingest, streams, stopping, sweep, client>>

\* An ingest, a replay and a sweep end within dbTimeout (5 s), well below
\* the shortest age that is told apart: no tick falls into one.
Tick ==
  /\ SweepAt("idle") /\ \A p \in Posts : PostAt(p, "idle")
  /\ \A s \in Streams : ~StreamAt(s, "load") /\ stream[s].replay = {}
  /\ rows' = Aged
  /\ UNCHANGED <<nextId, subscription, ingest, streams, stopping, sweep, api, client, faults>>

Next ==
  \/ \E p \in Posts : Ingest(p) \/ LoseInsert(p) \/ PostFails(p) \/ \E e \in Events : Receive(p, e)
  \/ \E s \in Streams : Serve(s) \/ ReplayFails(s) \/ Disconnect(s)
                        \/ \E v \in Versions : Authenticate(s, v)
  \/ \E e \in Events : ValidateAck(e) \/ AckEvent(e)
  \/ Sweep \/ SweepFails \/ CollectGarbage
  \/ \E a \in Requests : BeginUpdate(a) \/ BeginCancel(a) \/ Handle(a) \/ ApiFails(a)
  \/ Expire \/ Shutdown \/ Restart \/ CrashApi \/ Tick

Spec == Init /\ [][Next]_vars

\* The client of a subscription whose stream has ended connects again.
Reconnect(v) ==
  /\ \A s \in Streams : stream[s].version # v
  /\ \E s \in Streams : Authenticate(s, v)

Fairness ==
  /\ \A p \in Posts : WF_vars(Ingest(p))
  /\ \A s \in Streams : WF_vars(Serve(s))
  /\ \A v \in Versions : WF_vars(Reconnect(v))
  /\ \A a \in Requests : WF_vars(Handle(a))
  /\ WF_vars(Sweep) /\ SF_vars(Tick) /\ WF_vars(stopping /\ Restart)

FairSpec == Spec /\ Fairness

--------------------------------------------------------------------------------
(***************************************************************************)
(* Correctness                                                             *)
(***************************************************************************)

\* The hub's counter and its caps survive evictions, closes and the deferred
\* Unregister of streams the hub has already dropped; a stream that is served
\* is in the hub unless it has been closed, so that nothing is left running
\* that no close, sweep or shutdown could reach.
HubConsistent ==
  /\ total = Cardinality(hub) /\ total <= MaxConns
  /\ \A v \in Versions : Cardinality(OnKey(v)) <= MaxPerKey
  /\ \A s \in Streams : s \in hub <=> stream[s].pc \in {"load", "serve"} /\ ~stream[s].closed

\* The replay policy drops an event only for newer ones of its version:
\* under "latest" one, under "all" as many as are kept.
DroppedForNewer ==
  \A e \in Events :
    rows[e].superseded \in {"replaced", "overflow"} =>
      Cardinality({f \in Events : Newer(e, f) /\ rows[f].version = rows[e].version}) >= Keep

\* Retiring a version never drops the pending events of the live one.
LiveEventsKept ==
  [][\A e \in Events :
       Pending(e) /\ rows'[e].superseded \in {"subscription_replaced", "subscription_cancelled"}
         => ~Live(rows[e].version)]_vars

\* The gateway implements EventDelivery.
Status(e) == IF ~Stored(e) THEN "absent" ELSE IF Pending(e) THEN "pending" ELSE "settled"

Delivery == INSTANCE EventDelivery WITH
  Fanout <- MaxPerKey,
  status <- [e \in Events |-> Status(e)],
  claims <- [e \in Events |-> rows[e].count],
  sent <- [e \in Events |-> IF Stored(e) THEN frames[e] ELSE 0]

EventsDelivered == Delivery!Spec

\* An event stored for a live subscription, whose client reconnects, is sent
\* or settled, whatever was lost when it was stored or replayed.
EventuallySent ==
  \A e \in Events :
    Pending(e) /\ Live(versionOf[e]) ~> frames[e] > 0 \/ ~Pending(e) \/ ~Live(versionOf[e])

\* A stream whose version is retired ends, also when the request to close it
\* is lost, or was sent before the stream was registered.
StaleStreamsEnd ==
  \A s \in Streams, v \in Versions :
    stream[s].version = v /\ ~Live(v) ~> stream[s].version # v \/ Live(v)
=============================================================================
