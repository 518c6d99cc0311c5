-------------------------- MODULE EventDeliveryProofs --------------------------
(***************************************************************************)
(* Proofs about what RealtimeGateway promises of each event, for every     *)
(* number of events, requests, streams and versions and every cap: that it *)
(* implements EventDelivery, and, when requests to replace or cancel come  *)
(* one at a time, that retiring a version keeps the events of the live one.*)
(* VersionInv says which versions can still be written, DeliveryInv that   *)
(* whatever is on its way to a stream is covered by a claim.               *)
(***************************************************************************)
EXTENDS RealtimeGatewayProofs, Functions

--------------------------------------------------------------------------------
(* What a request to replace or cancel does to the subscription *)

Drawing(a) == api[a].pc = "create" \/ (api[a].pc \in {"sync", "save"} /\ ~api[a].create)

\* A version that has been issued, and that no request is about to write.
Known(v) == v \in 1..issued /\ \A a \in Requests : Drawing(a) => api[a].new # v

\* It is not written again, and no event of it is accepted any more.
Dead(v) == Known(v) /\ (v = sub.version => sub.expired)

DrawsOK ==
  \A a \in Requests :
    /\ api[a].pc = "create" => api[a].create
    /\ Drawing(a) => api[a].new \in 1..issued
    /\ \A b \in Requests \ {a} : Drawing(a) /\ Drawing(b) => api[a].new # api[b].new

SubOK == sub.version # 0 => Known(sub.version)

SubKept == sub'.version = sub.version /\ (sub.expired => sub'.expired)
SubWritten(a) == Drawing(a) /\ ~Drawing(a)' /\ sub'.version = api[a].new

\* What every step of a request that has begun does, retiring apart.
RequestStep(a) ==
  /\ issued' = issued
  /\ \A b \in Requests \ {a} : api'[b] = api[b]
  /\ api'[a].pc # "create"
  /\ Drawing(a)' => Drawing(a) /\ api'[a].new = api[a].new
  /\ SubKept \/ SubWritten(a)
  /\ At(a, "retire")' => sub'.version = api'[a].new \/ ~sub'.active

LEMMA MovesFields ==
  ASSUME GatewayInv, NEW a \in Requests, NEW pc, Moves(a, pc)
  PROVE  /\ api'[a].pc = pc /\ api'[a].new = api[a].new /\ api'[a].create = api[a].create
         /\ \A b \in Requests \ {a} : api'[b] = api[b]
<1>1. api \in [Requests -> RequestType] /\ api[a] \in RequestType
  BY DEF GatewayInv, ApiOK
<1>2. api'[a] = [api[a] EXCEPT !.pc = pc] /\ \A b \in Requests \ {a} : api'[b] = api[b]
  BY <1>1 DEF Moves
<1>3. QED
  BY <1>1, <1>2 DEF RequestType

LEMMA ReturnsFields ==
  ASSUME GatewayInv, NEW a \in Requests, Returns(a)
  PROVE  /\ api'[a] = IdleRequest /\ api'[a].pc = "idle" /\ ~Drawing(a)'
         /\ \A b \in Requests \ {a} : api'[b] = api[b]
<1>1. api \in [Requests -> RequestType]
  BY DEF GatewayInv, ApiOK
<1>2. QED
  BY <1>1 DEF Returns, IdleRequest, Drawing

LEMMA SubscriptionFields ==
  ASSUME GatewayInv
  PROVE  /\ sub \in SubType
         /\ [sub EXCEPT !.active = TRUE].version = sub.version
         /\ [sub EXCEPT !.active = TRUE].expired = sub.expired
         /\ [sub EXCEPT !.active = FALSE].version = sub.version
         /\ [sub EXCEPT !.active = FALSE].expired = sub.expired
         /\ ~[sub EXCEPT !.active = FALSE].active
         /\ [sub EXCEPT !.expired = TRUE].version = sub.version
         /\ [sub EXCEPT !.expired = TRUE].active = sub.active
         /\ [sub EXCEPT !.expired = TRUE].expired
BY DEF GatewayInv, SubscriptionTypeOK, SubType

LEMMA HandleSteps ==
  ASSUME GatewayInv, DrawsOK, NEW a \in Requests, Handle(a)
  PROVE  RequestStep(a)
<1>1. CASE CreateRow(a)
  <2>1. Drawing(a) /\ api[a].create /\ issued' = issued
    BY <1>1 DEF DrawsOK, Drawing, CreateRow, At
  <2>2. CASE sub' = Created(a) /\ Moves(a, "sync")
    <3>1. /\ api'[a].pc = "sync" /\ api'[a].create = api[a].create
          /\ \A b \in Requests \ {a} : api'[b] = api[b]
      BY <2>2, MovesFields
    <3>2. QED
      BY <2>1, <2>2, <3>1 DEF RequestStep, SubWritten, Drawing, Created, At
  <2>3. CASE Returns(a) /\ UNCHANGED sub
    BY <2>1, <2>3, ReturnsFields DEF RequestStep, SubKept, At
  <2>4. QED
    BY <1>1, <2>2, <2>3 DEF CreateRow
<1>2. CASE SyncMonitor(a)
  BY <1>2, MovesFields DEF SyncMonitor, RequestStep, SubKept, Drawing, At
<1>3. CASE SaveSubscription(a)
  <2>1. CASE api[a].create
    BY <1>3, <2>1, ReturnsFields, SubscriptionFields
       DEF SaveSubscription, Saved, RequestStep, SubKept, At
  <2>2. CASE ~api[a].create
    <3>1. api'[a].pc = "retire" /\ api'[a].new = api[a].new /\ \A b \in Requests \ {a} : api'[b] = api[b]
      BY <1>3, <2>2, MovesFields DEF SaveSubscription
    <3>2. sub'.version = api[a].new /\ issued' = issued /\ Drawing(a)
      BY <1>3, <2>2 DEF SaveSubscription, Saved, Drawing, At
    <3>3. QED
      BY <3>1, <3>2 DEF RequestStep, SubWritten, Drawing, At
  <2>3. QED
    BY <2>1, <2>2
<1>4. CASE UndoCreate(a)
  BY <1>4, ReturnsFields, SubscriptionFields DEF UndoCreate, RequestStep, SubKept, At
<1>5. CASE DeleteMonitor(a)
  BY <1>5, MovesFields DEF DeleteMonitor, RequestStep, SubKept, Drawing, At
<1>6. CASE CancelRow(a)
  <2>1. api'[a].pc = "retire" /\ \A b \in Requests \ {a} : api'[b] = api[b]
    BY <1>6, MovesFields DEF CancelRow
  <2>2. issued' = issued /\ SubKept /\ ~sub'.active
    BY <1>6, SubscriptionFields DEF CancelRow, SubKept
  <2>3. QED
    BY <2>1, <2>2 DEF RequestStep, Drawing, At
<1>7. CASE RetireEvents(a)
  BY <1>7, MovesFields DEF RetireEvents, RequestStep, SubKept, Drawing, At, subscription
<1>8. CASE CloseStreams(a)
  BY <1>8, ReturnsFields DEF CloseStreams, RequestStep, SubKept, At, subscription
<1>9. QED
  BY <1>1, <1>2, <1>3, <1>4, <1>5, <1>6, <1>7, <1>8 DEF Handle

LEMMA ApiFailsSteps ==
  ASSUME GatewayInv, DrawsOK, NEW a \in Requests, ApiFails(a)
  PROVE  RequestStep(a)
<1>1. issued' = issued
  BY DEF ApiFails
<1>2. CASE Returns(a) /\ (SubKept \/ (Drawing(a) /\ sub'.version = api[a].new))
  BY <1>1, <1>2, ReturnsFields DEF RequestStep, SubWritten, At
<1>3. CASE At(a, "sync") /\ sub' = sub /\ Moves(a, "undo")
  BY <1>1, <1>3, MovesFields DEF RequestStep, SubKept, Drawing, At
<1>4. CASE At(a, "retire") /\ sub' = sub /\ Moves(a, "close")
  BY <1>1, <1>4, MovesFields DEF RequestStep, SubKept, Drawing, At
<1>5. CASE At(a, "save") /\ sub' \in {sub, Saved(a)} /\ Returns(a)
  <2>1. sub' = sub => SubKept
    BY DEF SubKept
  <2>2. api[a].create /\ sub' = Saved(a) => SubKept
    BY SubscriptionFields DEF Saved, SubKept
  <2>3. ~api[a].create /\ sub' = Saved(a) => Drawing(a) /\ sub'.version = api[a].new
    BY <1>5 DEF Saved, Drawing, At
  <2>4. QED
    BY <1>2, <1>5, <2>1, <2>2, <2>3
<1>6. CASE At(a, "create") /\ Returns(a) /\ sub' \in {sub, Created(a)}
  <2>1. Drawing(a)
    BY <1>6 DEF Drawing, At
  <2>2. SubKept \/ sub'.version = api[a].new
    BY <1>6 DEF SubKept, Created
  <2>3. QED
    BY <1>2, <1>6, <2>1, <2>2
<1>7. CASE Returns(a) /\ sub' \in {sub, [sub EXCEPT !.active = FALSE]}
  BY <1>2, <1>7, SubscriptionFields DEF SubKept
<1>8. \/ At(a, "sync") /\ sub' = sub /\ (Moves(a, "undo") \/ Returns(a))
      \/ At(a, "save") /\ sub' \in {sub, Saved(a)} /\ Returns(a)
      \/ Returns(a) /\ sub' \in {sub, [sub EXCEPT !.active = FALSE]}
      \/ At(a, "retire") /\ sub' = sub /\ Moves(a, "close")
      \/ At(a, "create") /\ Returns(a) /\ sub' \in {sub, Created(a)}
  BY DEF ApiFails
<1>9. QED
  BY <1>3, <1>4, <1>5, <1>6, <1>7, <1>8

\* No version that was written, or can no longer be, becomes a coming one.
DrawsStep ==
  /\ DrawsOK' /\ SubOK'
  /\ \A v : /\ Known(v) => Known(v)'
            /\ Dead(v) => Dead(v)'

LEMMA RequestDraws ==
  ASSUME GatewayInv, DrawsOK, SubOK, NEW a \in Requests, RequestStep(a)
  PROVE  DrawsStep
<1>1. \A b \in Requests : Drawing(b)' => Drawing(b) /\ api'[b].new = api[b].new
  BY DEF RequestStep, Drawing
<1>2. DrawsOK'
  <2>1. \A b \in Requests : (api[b].pc = "create" => api[b].create)'
    BY DEF RequestStep, DrawsOK
  <2>2. QED
    BY <1>1, <2>1 DEF RequestStep, DrawsOK
<1>3. \A v : Known(v) => Known(v)'
  BY <1>1 DEF RequestStep, Known
<1>4. CASE SubKept
  BY <1>2, <1>3, <1>4 DEF SubOK, SubKept, DrawsStep, Dead
<1>5. CASE SubWritten(a)
  <2>1. sub'.version = api[a].new /\ api[a].new \in 1..issued /\ Drawing(a) /\ ~Drawing(a)'
    BY <1>5 DEF SubWritten, DrawsOK
  <2>2. \A b \in Requests : Drawing(b)' => api'[b].new # api[a].new
    BY <1>1, <2>1 DEF DrawsOK
  <2>3. Known(sub.version)'
    BY <2>1, <2>2 DEF Known, RequestStep
  <2>4. \A v : Known(v) => v # sub'.version
    BY <2>1 DEF Known
  <2>5. QED
    BY <1>2, <1>3, <2>3, <2>4 DEF DrawsStep, SubOK, Dead
<1>6. QED
  BY <1>4, <1>5 DEF RequestStep

LEMMA BeginUpdateDraws ==
  ASSUME GatewayInv, DrawsOK, SubOK, NEW a \in Requests, BeginUpdate(a)
  PROVE  DrawsStep /\ ~At(a, "retire")' /\ \A b \in Requests \ {a} : api'[b] = api[b]
<1>1. /\ issued \in Nat /\ issued' = issued + 1 /\ sub' = sub
  BY StoreBounds DEF GatewayInv, SubscriptionTypeOK, Issued, BeginUpdate
<1>2. /\ \A b \in Requests \ {a} : api'[b] = api[b]
      /\ api'[a].pc = IF sub.version = 0 THEN "create" ELSE "sync"
      /\ api'[a].new = issued + 1 /\ api'[a].create = (sub.version = 0)
  BY DEF GatewayInv, ApiOK, BeginUpdate
<1>3. \A b \in Requests \ {a} : (Drawing(b)' <=> Drawing(b)) /\ api'[b].new = api[b].new
  BY <1>2 DEF Drawing
<1>4. \A v : Known(v) => Known(v)' /\ v # issued + 1
  BY <1>1, <1>2, <1>3 DEF Known
<1>5. DrawsOK'
  <2>1. \A b \in Requests : Drawing(b)' => api'[b].new \in 1..issued' /\ (b # a => api'[b].new # issued + 1)
    BY <1>1, <1>2, <1>3 DEF DrawsOK
  <2>2. \A b \in Requests : (api[b].pc = "create" => api[b].create)'
    BY <1>2 DEF DrawsOK
  <2>3. ASSUME NEW b \in Requests, NEW c \in Requests \ {b}, Drawing(b)', Drawing(c)'
        PROVE  api'[b].new # api'[c].new
    BY <1>2, <1>3, <2>1, <2>3 DEF DrawsOK
  <2>4. QED
    BY <2>1, <2>2, <2>3 DEF DrawsOK
<1>6. SubOK' /\ \A v : Dead(v) => Dead(v)'
  BY <1>1, <1>4 DEF SubOK, Dead
<1>7. QED
  BY <1>2, <1>4, <1>5, <1>6 DEF DrawsStep, At

LEMMA BeginCancelSteps ==
  ASSUME GatewayInv, NEW a \in Requests, BeginCancel(a)
  PROVE  RequestStep(a)
<1> DEFINE begun == [api[a] EXCEPT !.pc = "delete"]
           q == [begun EXCEPT !.old = sub.version]
<1>1. api \in [Requests -> RequestType] /\ api[a] \in RequestType
  BY DEF GatewayInv, ApiOK
<1>2. q.pc = "delete"
  BY <1>1 DEF RequestType
<1>3. api' = [api EXCEPT ![a] = q]
  BY Zenon DEF BeginCancel
<1> HIDE DEF q
<1>4. api'[a].pc = "delete" /\ \A b \in Requests \ {a} : api'[b] = api[b]
  BY <1>1, <1>2, <1>3
<1>5. issued' = issued /\ SubKept
  BY DEF BeginCancel, subscription, SubKept
<1>6. QED
  BY <1>4, <1>5 DEF RequestStep, Drawing, At

ApiStep(a) == BeginUpdate(a) \/ BeginCancel(a) \/ Handle(a) \/ ApiFails(a)

\* Every other step leaves the requests, or crashes them all.
OtherStep ==
  \/ \E p \in Posts : Ingest(p) \/ LoseInsert(p) \/ PostFails(p) \/ \E e \in Events : Receive(p, e)
  \/ \E s \in Streams : Serve(s) \/ ReplayFails(s) \/ Disconnect(s)
                        \/ \E v \in Versions : Authenticate(s, v)
  \/ \E e \in Events : ValidateAck(e) \/ AckEvent(e)
  \/ Sweep \/ SweepFails \/ CollectGarbage
  \/ Expire \/ Shutdown \/ Restart \/ CrashApi \/ Tick \/ UNCHANGED vars

LEMMA StepKinds == [Next]_vars => OtherStep \/ \E a \in Requests : ApiStep(a)
BY Zenon DEF Next, OtherStep, ApiStep

LEMMA OtherSteps ==
  ASSUME GatewayInv, OtherStep
  PROVE  /\ issued' = issued
         /\ api' = api \/ \A a \in Requests : api'[a] = IdleRequest
         /\ \/ sub' = sub
            \/ sub'.version = sub.version /\ sub'.active = sub.active /\ sub'.expired
<1>1. CASE Expire \/ CrashApi
  BY <1>1, SubscriptionFields DEF Expire, CrashApi, subscription
<1>2. CASE \E p \in Posts : Ingest(p) \/ LoseInsert(p) \/ PostFails(p) \/ \E e \in Events : Receive(p, e)
  BY <1>2 DEF Ingest, BeginInsert, CommitInsert, ApplyLatest, FindOverflow, TrimOverflow, ClaimLive,
              DeliverLive, LoseInsert, PostFails, Receive, PostAlone, subscription
<1>3. CASE \E s \in Streams : Serve(s) \/ ReplayFails(s) \/ Disconnect(s)
                              \/ \E v \in Versions : Authenticate(s, v)
  BY <1>3 DEF Serve, Register, LoadReplay, ClaimReplay, SendReplay, SendQueued, SeeClosed,
              ReplayFails, Disconnect, Authenticate, StreamAlone, subscription
<1>4. CASE \E e \in Events : ValidateAck(e) \/ AckEvent(e)
  BY <1>4 DEF ValidateAck, AckEvent, subscription
<1>5. CASE Sweep \/ SweepFails \/ CollectGarbage
  BY <1>5 DEF Sweep, BeginSweep, CheckSubscription, CloseStale, StaleClosed, SupersedeExhausted,
              ReadOverdue, ClaimOverdue, DeliverOverdue, EndSweep, SweepFails, CollectGarbage,
              SweepAlone, subscription
<1>6. CASE Shutdown \/ Restart \/ Tick \/ UNCHANGED vars
  BY <1>6 DEF Shutdown, Restart, Tick, vars, subscription
<1>7. QED
  BY <1>1, <1>2, <1>3, <1>4, <1>5, <1>6 DEF OtherStep

LEMMA OtherDraws ==
  ASSUME GatewayInv, DrawsOK, SubOK, OtherStep
  PROVE  DrawsStep
<1>1. issued' = issued /\ (api' = api \/ \A a \in Requests : api'[a] = IdleRequest)
  BY OtherSteps
<1>2. SubKept
  BY OtherSteps DEF SubKept
<1>3. \A b \in Requests : /\ Drawing(b)' => Drawing(b) /\ api'[b].new = api[b].new
                          /\ api'[b].pc = "create" => api'[b] = api[b]
  BY <1>1 DEF Drawing, IdleRequest
<1>4. DrawsOK'
  BY <1>1, <1>3 DEF DrawsOK
<1>5. \A v : Known(v) => Known(v)'
  BY <1>1, <1>3 DEF Known
<1>6. QED
  BY <1>2, <1>4, <1>5 DEF DrawsStep, SubOK, SubKept, Dead

LEMMA StepDraws ==
  ASSUME GatewayInv, DrawsOK, SubOK, [Next]_vars
  PROVE  DrawsStep
BY StepKinds, OtherDraws, RequestDraws, BeginUpdateDraws, BeginCancelSteps, HandleSteps, ApiFailsSteps
   DEF ApiStep

LEMMA InitDraws == Init => DrawsOK /\ SubOK
<1> SUFFICES ASSUME Init PROVE DrawsOK /\ SubOK
  OBVIOUS
<1>1. \A a \in Requests : api[a].pc = "idle"
  BY DEF Init, IdleRequest
<1>2. sub.version = issued /\ issued \in {0, 1}
  BY DEF Init
<1>3. QED
  BY <1>1, <1>2 DEF DrawsOK, SubOK, Known, Drawing

--------------------------------------------------------------------------------
(* What a step does to the rows *)

\* The row stays, with its version and its count.
Held(e) ==
  /\ Stored(e)' <=> Stored(e)
  /\ rows'[e].version = rows[e].version /\ rows'[e].count = rows[e].count

InsertRow(p) ==
  /\ post[p].pc = "commit" /\ ~Stored(post[p].event)
  /\ Insert(post[p].event, versionOf[post[p].event], post[p].id)

PolicyReasons == {"replaced", "overflow", "delivery_limit"}

RowStep ==
  \/ UNCHANGED rows
  \/ rows' = Aged
  \/ \E S \in SUBSET Events, why \in PolicyReasons : Supersede(S, why)
  \/ \E a \in Requests : RetireEvents(a)
  \/ \E e \in Events : AckEvent(e)
  \/ \E e \in Events : Claimable(e) /\ Claim(e)
  \/ \E p \in Posts : InsertRow(p)
  \/ CollectGarbage

LEMMA IngestRows ==
  ASSUME GatewayInv, NEW p \in Posts,
         Ingest(p) \/ LoseInsert(p) \/ PostFails(p) \/ \E e \in Events : Receive(p, e)
  PROVE  RowStep
<1>1. CASE CommitInsert(p) \/ LoseInsert(p)
  <2>1. UNCHANGED rows \/ InsertRow(p)
    BY <1>1 DEF CommitInsert, LoseInsert, InsertRow, PostAt
  <2>2. QED
    BY <2>1 DEF RowStep
<1>2. CASE ApplyLatest(p)
  BY <1>2 DEF ApplyLatest, Replaced, PendingOf, RowStep, PolicyReasons
<1>3. CASE TrimOverflow(p)
  <2>1. post[p].drop \in SUBSET Events
    BY DEF GatewayInv, IngestOK, IngestTypeOK, PostType
  <2>2. QED
    BY <1>3, <2>1 DEF TrimOverflow, RowStep, PolicyReasons
<1>4. CASE ClaimLive(p)
  <2>1. post[p].event \in Events
    BY <1>4 DEF GatewayInv, IngestOK, ClaimLive, PostAt
  <2>2. (Claimable(post[p].event) /\ Claim(post[p].event)) \/ UNCHANGED rows
    BY <1>4 DEF ClaimLive
  <2>3. QED
    BY <2>1, <2>2 DEF RowStep
<1>5. CASE BeginInsert(p) \/ FindOverflow(p) \/ DeliverLive(p) \/ PostFails(p)
           \/ \E e \in Events : Receive(p, e)
  BY <1>5 DEF BeginInsert, FindOverflow, DeliverLive, PostFails, Receive, db, RowStep
<1>6. QED
  BY <1>1, <1>2, <1>3, <1>4, <1>5 DEF Ingest

LEMMA StreamRows ==
  ASSUME GatewayInv, NEW s \in Streams,
         Serve(s) \/ ReplayFails(s) \/ Disconnect(s) \/ \E v \in Versions : Authenticate(s, v)
  PROVE  RowStep
<1>1. CASE ClaimReplay(s)
  <2>1. stream[s].replay \in SUBSET Events /\ stream[s].replay # {}
    BY <1>1 DEF GatewayInv, StreamsOK, StreamType, ClaimReplay
  <2>2. Oldest(stream[s].replay) \in Events
    BY <2>1, OldestIsMember DEF GatewayInv
  <2>3. (Claimable(Oldest(stream[s].replay)) /\ Claim(Oldest(stream[s].replay))) \/ UNCHANGED rows
    BY <1>1 DEF ClaimReplay
  <2>4. QED
    BY <2>2, <2>3 DEF RowStep
<1>2. CASE ~ClaimReplay(s)
  <2>1. UNCHANGED rows
    BY <1>2 DEF Serve, Register, LoadReplay, SendReplay, SendQueued, SeeClosed,
                ReplayFails, Disconnect, Authenticate, db
  <2>2. QED
    BY <2>1 DEF RowStep
<1>3. QED
  BY <1>1, <1>2

LEMMA SweepRows ==
  ASSUME GatewayInv, Sweep \/ SweepFails
  PROVE  RowStep
<1>1. CASE SupersedeExhausted
  BY <1>1 DEF SupersedeExhausted, Exhausted, RowStep, PolicyReasons
<1>2. CASE ClaimOverdue
  <2>1. sweep.overdue \in SUBSET Events /\ sweep.overdue # {}
    BY <1>2 DEF GatewayInv, SweepOK, SweepType, ClaimOverdue
  <2>2. Oldest(sweep.overdue) \in Events
    BY <2>1, OldestIsMember DEF GatewayInv
  <2>3. (Claimable(Oldest(sweep.overdue)) /\ Claim(Oldest(sweep.overdue))) \/ UNCHANGED rows
    BY <1>2 DEF ClaimOverdue
  <2>4. QED
    BY <2>2, <2>3 DEF RowStep
<1>3. CASE ~SupersedeExhausted /\ ~ClaimOverdue
  <2>1. UNCHANGED rows
    BY <1>3 DEF Sweep, BeginSweep, CheckSubscription, CloseStale, StaleClosed,
                ReadOverdue, DeliverOverdue, EndSweep, SweepFails, db
  <2>2. QED
    BY <2>1 DEF RowStep
<1>4. QED
  BY <1>1, <1>2, <1>3

LEMMA RowSteps ==
  ASSUME GatewayInv, [Next]_vars
  PROVE  RowStep
<1>1. CASE \E a \in Requests : ApiStep(a)
  BY <1>1 DEF ApiStep, BeginUpdate, BeginCancel, Handle, CreateRow, SyncMonitor, SaveSubscription,
              UndoCreate, DeleteMonitor, CancelRow, CloseStreams, ApiFails, db, RowStep
<1>2. CASE Expire \/ Shutdown \/ Restart \/ CrashApi \/ (\E e \in Events : ValidateAck(e)) \/ UNCHANGED vars
  BY <1>2 DEF Expire, Shutdown, Restart, CrashApi, ValidateAck, vars, db, RowStep
<1>3. CASE (\E e \in Events : AckEvent(e)) \/ CollectGarbage \/ Tick
  BY <1>3 DEF RowStep, Tick
<1>4. QED
  BY <1>1, <1>2, <1>3, StepKinds, IngestRows, StreamRows, SweepRows DEF OtherStep

LEMMA RowOf ==
  ASSUME GatewayInv, NEW e \in Events
  PROVE  /\ rows \in [Events -> RowType] /\ rows[e] \in RowType
         /\ rows[e].version # 0 => Stored(e)
BY DEF GatewayInv, StoreTypeOK, Stored, NoRow

LEMMA SupersedeEffect ==
  ASSUME GatewayInv, NEW S, NEW why \in Reasons \ {"no"}, Supersede(S, why), NEW e \in Events
  PROVE  /\ (Stored(e) => rows[e].version # 0) => Held(e)
         /\ Pending(e)' <=> Pending(e) /\ e \notin S
         /\ rows'[e].superseded = IF e \in S /\ Pending(e) THEN why ELSE rows[e].superseded
<1>1. rows[e] \in RowType
  BY RowOf
<1>2. CASE e \in S /\ Pending(e)
  <2> DEFINE dropped == [rows[e] EXCEPT !.superseded = why]
             row == [dropped EXCEPT !.age = 0]
  <2>1. /\ dropped.id = rows[e].id /\ dropped.version = rows[e].version /\ dropped.count = rows[e].count
        /\ dropped.superseded = why /\ dropped.acked = rows[e].acked
    BY <1>1 DEF RowType
  <2>2. /\ row.version = rows[e].version /\ row.count = rows[e].count /\ row.superseded = why
    BY <1>1, <2>1 DEF RowType
  <2>3. rows'[e] = row
    BY <1>2, Zenon DEF Supersede
  <2> HIDE DEF row
  <2>4. Stored(e) /\ NoRow.superseded = "no"
    BY <1>2 DEF Pending, NoRow
  <2>5. QED
    BY <1>2, <2>2, <2>3, <2>4 DEF Held, Stored, Pending, NoRow
<1>3. CASE ~(e \in S /\ Pending(e))
  <2>1. rows'[e] = rows[e]
    BY <1>3 DEF Supersede
  <2>2. QED
    BY <1>3, <2>1 DEF Held, Stored, Pending
<1>4. QED
  BY <1>2, <1>3

LEMMA TickEffect ==
  ASSUME GatewayInv, rows' = Aged, NEW e \in Events
  PROVE  /\ (Stored(e) => rows[e].version # 0) => Held(e) /\ (Pending(e)' <=> Pending(e))
         /\ rows'[e].superseded = rows[e].superseded
<1>1. rows[e] \in RowType
  BY RowOf
<1>2. CASE Pending(e) /\ ~Late(e)
  <2>1. rows'[e] = [rows[e] EXCEPT !.age = rows[e].age + 1]
    BY <1>2 DEF Aged
  <2>2. /\ rows'[e].version = rows[e].version /\ rows'[e].count = rows[e].count
        /\ rows'[e].superseded = rows[e].superseded /\ rows'[e].acked = rows[e].acked
    BY <1>1, <2>1 DEF RowType
  <2>3. QED
    BY <1>2, <2>2 DEF Held, Stored, Pending, NoRow
<1>3. CASE ~(Pending(e) /\ ~Late(e))
  BY <1>3 DEF Aged, Held, Stored, Pending
<1>4. QED
  BY <1>2, <1>3

LEMMA AckEffect ==
  ASSUME GatewayInv, NEW f \in Events, AckEvent(f), NEW e \in Events
  PROVE  /\ Stored(f) => Held(e)
         /\ Pending(e)' <=> Pending(e) /\ e # f
         /\ rows'[e].superseded = rows[e].superseded
<1> DEFINE acked == [rows[f] EXCEPT !.acked = TRUE]
           row == [acked EXCEPT !.age = 0]
<1>1. rows \in [Events -> RowType] /\ rows[f] \in RowType
  BY RowOf
<1>2. /\ acked.version = rows[f].version /\ acked.count = rows[f].count
      /\ acked.superseded = rows[f].superseded /\ acked.acked
  BY <1>1 DEF RowType
<1>3. /\ row.version = rows[f].version /\ row.count = rows[f].count
      /\ row.superseded = rows[f].superseded /\ row.acked
  BY <1>1, <1>2 DEF RowType
<1>4. rows' = [rows EXCEPT ![f] = row]
  BY Zenon DEF AckEvent, Ack
<1> HIDE DEF row
<1>5. rows'[e] = IF e = f THEN row ELSE rows[e]
  BY <1>1, <1>4
<1>6. QED
  BY <1>3, <1>5 DEF Held, Stored, Pending, NoRow

LEMMA ClaimEffect ==
  ASSUME GatewayInv, NEW f \in Events, Claimable(f), Claim(f), NEW e \in Events
  PROVE  /\ e # f => Held(e)
         /\ Stored(e)' <=> Stored(e)
         /\ rows'[e].version = rows[e].version
         /\ rows'[f].count = rows[f].count + 1
         /\ Pending(e)' <=> Pending(e)
         /\ rows'[e].superseded = rows[e].superseded
<1> DEFINE counted == [rows[f] EXCEPT !.count = rows[f].count + 1]
           row == [counted EXCEPT !.age = 0]
<1>1. rows \in [Events -> RowType] /\ rows[f] \in RowType
  BY RowOf
<1>2. /\ counted.version = rows[f].version /\ counted.count = rows[f].count + 1
      /\ counted.superseded = rows[f].superseded /\ counted.acked = rows[f].acked
  BY <1>1 DEF RowType
<1>3. /\ row.version = rows[f].version /\ row.count = rows[f].count + 1
      /\ row.superseded = rows[f].superseded /\ row.acked = rows[f].acked
  BY <1>1, <1>2 DEF RowType
<1>4. rows' = [rows EXCEPT ![f] = row]
  BY Zenon DEF Claim
<1>5. rows[f].count \in Nat /\ rows[f].count + 1 # 0
  BY <1>1, StoreBounds DEF RowType
<1> HIDE DEF row
<1>6. rows'[e] = (IF e = f THEN row ELSE rows[e]) /\ rows'[f] = row
  BY <1>1, <1>4
<1>7. Stored(f)' /\ Stored(f)
  BY <1>3, <1>5, <1>6 DEF Claimable, Pending, Stored, NoRow
<1>8. QED
  BY <1>3, <1>6, <1>7 DEF Held, Stored, Pending

LEMMA InsertEffect ==
  ASSUME GatewayInv, NEW p \in Posts, InsertRow(p), versionOf[post[p].event] # 0, NEW e \in Events
  PROVE  /\ e # post[p].event => Held(e) /\ (Pending(e)' <=> Pending(e))
         /\ e = post[p].event =>
              /\ Pending(e)' /\ Stored(e)'
              /\ rows'[e].version = versionOf[e] /\ rows'[e].count = 0
         /\ Pending(e) => rows'[e].superseded = "no"
<1> DEFINE f == post[p].event
           numbered == [NoRow EXCEPT !.id = post[p].id]
           row == [numbered EXCEPT !.version = versionOf[f]]
<1>1. rows \in [Events -> RowType]
  BY RowOf
<1>2. /\ row.version = versionOf[f] /\ row.count = 0 /\ ~row.acked /\ row.superseded = "no"
  BY DEF NoRow
<1>3. rows' = [rows EXCEPT ![f] = row]
  BY Zenon DEF InsertRow, Insert
<1> HIDE DEF row
<1>4. rows'[e] = IF e = f THEN row ELSE rows[e]
  BY <1>1, <1>3
<1>5. e = f => row # NoRow
  BY <1>2 DEF NoRow
<1>6. QED
  BY <1>2, <1>4, <1>5 DEF Held, Stored, Pending, InsertRow

\* What retires an event keeps it settled for another reason than retiring.
LEMMA OnlyRetiring ==
  ASSUME PolicyInv, RowStep, ~\E a \in Requests : RetireEvents(a), NEW e \in Events, Pending(e)
  PROVE  rows'[e].superseded \in {"no"} \union PolicyReasons
<1>1. rows[e].superseded = "no"
  BY DEF Pending
<1>2. ASSUME NEW S \in SUBSET Events, NEW why \in PolicyReasons, Supersede(S, why)
      PROVE  rows'[e].superseded \in {"no"} \union PolicyReasons
  BY <1>1, <1>2, SupersedeEffect DEF PolicyReasons, Reasons, PolicyInv
<1>3. ASSUME NEW p \in Posts, InsertRow(p)
      PROVE  rows'[e].superseded \in {"no"} \union PolicyReasons
  BY <1>3, InsertEffect DEF InsertRow, PolicyInv, PostOK
<1>4. CASE CollectGarbage
  BY <1>1, <1>4 DEF CollectGarbage, DeleteExpired, NoRow
<1>5. QED
  BY <1>1, <1>2, <1>3, <1>4, TickEffect, AckEffect, ClaimEffect DEF RowStep, PolicyInv

RetireOK == \A a \in Requests : At(a, "retire") => sub.version = api[a].new \/ ~sub.active

LEMMA RetireInductive ==
  ASSUME PolicyInv, DrawsOK, SubOK, RetireOK, [Next]_vars, \A a, b \in Requests : a = b
  PROVE  RetireOK'
<1>1. ASSUME NEW a \in Requests, ApiStep(a) PROVE RetireOK'
  <2>1. At(a, "retire")' => sub'.version = api'[a].new \/ ~sub'.active
    BY <1>1, BeginUpdateDraws, BeginCancelSteps, HandleSteps, ApiFailsSteps
       DEF ApiStep, RequestStep, PolicyInv
  <2>2. QED
    BY <2>1 DEF RetireOK
<1>2. CASE OtherStep
  BY <1>2, OtherSteps DEF RetireOK, At, IdleRequest, PolicyInv
<1>3. QED
  BY <1>1, <1>2, StepKinds

\* With one request to replace or cancel at a time, for any number of events,
\* streams, ingests and versions: whatever fails or crashes in between, the
\* statement that retires a version does not reach the pending events of the
\* version that is live.
THEOREM RetiringKeepsLive ==
  ASSUME \A a, b \in Requests : a = b
  PROVE  Spec => LiveEventsKept
<1> DEFINE Inv == PolicyInv /\ DrawsOK /\ SubOK /\ RetireOK
           A == \A e \in Events :
                  Pending(e) /\ rows'[e].superseded \in {"subscription_replaced", "subscription_cancelled"}
                    => ~Live(rows[e].version)
<1>1. Init => Inv
  <2>1. Init => RetireOK
    BY DEF Init, RetireOK, At, IdleRequest
  <2>2. QED
    BY <2>1, PolicyInit, InitDraws
<1>2. Inv /\ [Next]_vars => Inv'
  <2> SUFFICES ASSUME Inv, [Next]_vars PROVE Inv'
    OBVIOUS
  <2>1. PolicyInv'
    BY PolicyInductive
  <2>2. DrawsOK' /\ SubOK'
    BY StepDraws DEF DrawsStep, PolicyInv
  <2>3. RetireOK'
    BY RetireInductive
  <2>4. QED
    BY <2>1, <2>2, <2>3
<1>3. Inv /\ [Next]_vars => [A]_vars
  <2> SUFFICES ASSUME Inv, [Next]_vars, NEW e \in Events, Pending(e),
                      rows'[e].superseded \in {"subscription_replaced", "subscription_cancelled"}
               PROVE  ~Live(rows[e].version)
    OBVIOUS
  <2>1. PICK a \in Requests : RetireEvents(a)
    BY RowSteps, OnlyRetiring DEF PolicyInv, PolicyReasons
  <2> DEFINE why == IF api[a].new = 0 THEN "subscription_cancelled" ELSE "subscription_replaced"
  <2>2. Supersede(NotKept(api[a].new), why) /\ why \in Reasons \ {"no"}
    BY <2>1 DEF RetireEvents, Reasons
  <2> HIDE DEF why
  <2>3. rows'[e].superseded = IF e \in NotKept(api[a].new) /\ Pending(e) THEN why ELSE rows[e].superseded
    BY <2>2, SupersedeEffect DEF PolicyInv
  <2>4. e \in NotKept(api[a].new)
    BY <2>3 DEF Pending
  <2>5. sub.version = api[a].new \/ ~sub.active
    BY <2>1 DEF RetireOK, RetireEvents
  <2>6. QED
    BY <2>4, <2>5 DEF NotKept, Live
<1> HIDE DEF Inv, A
<1>4. Spec => [][A]_vars
  BY <1>1, <1>2, <1>3, PTL DEF Spec
<1>5. QED
  BY <1>4 DEF LiveEventsKept, A

--------------------------------------------------------------------------------
(* The version of an event, and that of its row *)

ClaimsLive(p) == ClaimLive(p) /\ Claimable(post[p].event) /\ Claim(post[p].event)

\* A request of ingest keeps its event, and delivers what it has claimed.
PostStep(p) ==
  /\ post'[p].pc # "idle" =>
       \/ post[p].pc # "idle" /\ post'[p].event = post[p].event
       \/ Live(versionOf'[post'[p].event])
  /\ post'[p].pc = "deliver" =>
       post'[p].event = post[p].event /\ (post[p].pc = "deliver" \/ ClaimsLive(p))

IngestStep ==
  /\ \A e \in Events : versionOf[e] # 0 => versionOf'[e] = versionOf[e]
  /\ \A p \in Posts : PostStep(p)

LEMMA PostFields ==
  ASSUME GatewayInv, NEW p \in Posts, NEW pc
  PROVE  /\ post \in [Posts -> PostType] /\ post[p] \in PostType
         /\ [post[p] EXCEPT !.pc = pc].pc = pc
         /\ [post[p] EXCEPT !.pc = pc].event = post[p].event
         /\ \A id : /\ [post[p] EXCEPT !.pc = pc, !.id = id].pc = pc
                    /\ [post[p] EXCEPT !.pc = pc, !.id = id].event = post[p].event
         /\ \A S : /\ [post[p] EXCEPT !.pc = pc, !.drop = S].pc = pc
                   /\ [post[p] EXCEPT !.pc = pc, !.drop = S].event = post[p].event
<1>1. post \in [Posts -> PostType] /\ post[p] \in PostType
  BY DEF GatewayInv, IngestOK, IngestTypeOK
<1> DEFINE moved == [post[p] EXCEPT !.pc = pc]
<1>2. moved.pc = pc /\ moved.event = post[p].event
  BY <1>1 DEF PostType
<1>3. ASSUME NEW id
      PROVE  [moved EXCEPT !.id = id].pc = pc /\ [moved EXCEPT !.id = id].event = post[p].event
  BY <1>1, <1>2 DEF PostType
<1>4. ASSUME NEW S
      PROVE  [moved EXCEPT !.drop = S].pc = pc /\ [moved EXCEPT !.drop = S].event = post[p].event
  BY <1>1, <1>2 DEF PostType
<1>5. QED
  BY <1>1, <1>2, <1>3, <1>4, Zenon

\* A request that ends, or goes on with its event; a claim apart, it does
\* not get as far as to deliver.
LEMMA PostGoesOn ==
  ASSUME GatewayInv, NEW p \in Posts, post[p].pc # "idle", versionOf' = versionOf,
         NEW q, post' = [post EXCEPT ![p] = q],
         q = IdlePost \/ (q.event = post[p].event /\ (q.pc = "deliver" => ClaimsLive(p)))
  PROVE  IngestStep
<1>1. post'[p] = q /\ \A r \in Posts \ {p} : post'[r] = post[r]
  BY OnlyPost
<1>2. PostStep(p)
  BY <1>1 DEF PostStep, IdlePost
<1>3. \A r \in Posts \ {p} : PostStep(r)
  BY <1>1 DEF PostStep
<1>4. QED
  BY <1>2, <1>3 DEF IngestStep

LEMMA PostEnds ==
  ASSUME GatewayInv, NEW p \in Posts, post[p].pc # "idle", versionOf' = versionOf, PostReturns(p)
  PROVE  IngestStep
BY PostGoesOn DEF PostReturns

LEMMA PostAdvances ==
  ASSUME GatewayInv, NEW p \in Posts, post[p].pc # "idle", versionOf' = versionOf,
         NEW pc, PostMoves(p, pc), pc = "deliver" => ClaimsLive(p)
  PROVE  IngestStep
<1> DEFINE q == [post[p] EXCEPT !.pc = pc]
<1>1. post' = [post EXCEPT ![p] = q]
  BY Zenon DEF PostMoves
<1>2. q.pc = pc /\ q.event = post[p].event
  BY PostFields
<1> HIDE DEF q
<1>3. QED
  BY <1>1, <1>2, PostGoesOn

LEMMA PostDrops ==
  ASSUME GatewayInv, NEW p \in Posts, post[p].pc # "idle", versionOf' = versionOf,
         NEW pc, pc # "deliver", NEW S, post' = [post EXCEPT ![p].pc = pc, ![p].drop = S]
  PROVE  IngestStep
<1> DEFINE q == [post[p] EXCEPT !.pc = pc, !.drop = S]
<1>1. post' = [post EXCEPT ![p] = q]
  BY Zenon
<1>2. q.pc = pc /\ q.event = post[p].event
  BY PostFields
<1> HIDE DEF q
<1>3. QED
  BY <1>1, <1>2, PostGoesOn

LEMMA IngestSteps ==
  ASSUME GatewayInv, NEW p \in Posts, Ingest(p) \/ LoseInsert(p) \/ PostFails(p)
  PROVE  IngestStep
<1>1. PostAlone => versionOf' = versionOf
  BY PostAloneVersions
<1>2. CASE BeginInsert(p)
  <2>1. CASE post' = [post EXCEPT ![p].pc = "commit", ![p].id = nextId]
    <3> DEFINE q == [post[p] EXCEPT !.pc = "commit", !.id = nextId]
    <3>1. post' = [post EXCEPT ![p] = q]
      BY <2>1, Zenon
    <3>2. q.pc = "commit" /\ q.event = post[p].event
      BY PostFields
    <3> HIDE DEF q
    <3>3. QED
      BY <1>1, <1>2, <3>1, <3>2, PostGoesOn DEF BeginInsert, PostAt
  <2>2. QED
    BY <1>1, <1>2, <2>1, PostEnds DEF BeginInsert, PostAt
<1>3. CASE CommitInsert(p)
  BY <1>1, <1>3, PostEnds, PostAdvances DEF CommitInsert, PostAt
<1>4. CASE LoseInsert(p)
  BY <1>1, <1>4, PostEnds DEF LoseInsert, PostAt
<1>5. CASE ApplyLatest(p)
  BY <1>1, <1>5, PostAdvances DEF ApplyLatest, PostAt
<1>6. CASE FindOverflow(p)
  BY <1>1, <1>6, PostDrops DEF FindOverflow, PostAt
<1>7. CASE TrimOverflow(p)
  BY <1>1, <1>7, PostDrops DEF TrimOverflow, PostAt
<1>8. CASE ClaimLive(p)
  <2>1. post[p].pc = "claim" /\ versionOf' = versionOf
    BY <1>1, <1>8 DEF ClaimLive, PostAt
  <2>2. PostReturns(p) \/ (ClaimsLive(p) /\ PostMoves(p, "deliver"))
    BY <1>8 DEF ClaimLive, ClaimsLive
  <2>3. QED
    BY <2>1, <2>2, PostEnds, PostAdvances
<1>9. CASE DeliverLive(p)
  BY <1>9, PostEnds DEF DeliverLive, PostAt
<1>10. CASE PostFails(p)
  <2>1. post[p].pc # "idle"
    BY <1>10 DEF PostFails
  <2>2. PostReturns(p) \/ post' = [post EXCEPT ![p].pc = "claim", ![p].drop = {}]
    BY <1>10 DEF PostFails
  <2>3. QED
    BY <1>1, <1>10, <2>1, <2>2, PostEnds, PostDrops DEF PostFails
<1>11. QED
  BY <1>2, <1>3, <1>4, <1>5, <1>6, <1>7, <1>8, <1>9, <1>10 DEF Ingest

LEMMA ReceiveSteps ==
  ASSUME GatewayInv, NEW p \in Posts, NEW e \in Events, Receive(p, e)
  PROVE  IngestStep
<1> DEFINE begun == [post[p] EXCEPT !.pc = "insert"]
           q == [begun EXCEPT !.event = e]
<1>1. post \in [Posts -> PostType] /\ post[p] \in PostType
  BY PostFields
<1>2. \A f \in Events : versionOf[f] # 0 => versionOf'[f] = versionOf[f]
  BY DEF GatewayInv, IngestOK, IngestTypeOK, Receive
<1>3. begun.pc = "insert"
  BY <1>1 DEF PostType
<1>4. q.pc = "insert" /\ q.event = e
  BY <1>1, <1>3 DEF PostType
<1>5. (Live(versionOf'[e]) /\ post' = [post EXCEPT ![p] = q]) \/ post' = post
  BY Zenon DEF Receive
<1> HIDE DEF q
<1>6. CASE Live(versionOf'[e]) /\ post' = [post EXCEPT ![p] = q]
  <2>1. post'[p] = q /\ \A r \in Posts \ {p} : post'[r] = post[r]
    BY <1>6, OnlyPost
  <2>2. \A r \in Posts : PostStep(r)
    BY <1>4, <1>6, <2>1 DEF PostStep
  <2>3. QED
    BY <1>2, <2>2 DEF IngestStep
<1>7. CASE post' = post
  BY <1>2, <1>7 DEF IngestStep, PostStep
<1>8. QED
  BY <1>5, <1>6, <1>7

LEMMA IngestStepHolds ==
  ASSUME GatewayInv, [Next]_vars
  PROVE  IngestStep
<1>1. CASE UNCHANGED ingest
  BY <1>1 DEF ingest, IngestStep, PostStep
<1>2. CASE Restart
  BY <1>2 DEF Restart, IngestStep, PostStep, IdlePost
<1>3. CASE \E s \in Streams : Serve(s) \/ ReplayFails(s) \/ Disconnect(s)
                              \/ \E v \in Versions : Authenticate(s, v)
  <2>1. UNCHANGED ingest
    BY <1>3 DEF Serve, Register, LoadReplay, ClaimReplay, SendReplay, SendQueued, SeeClosed,
                ReplayFails, Disconnect, Authenticate, StreamAlone
  <2>2. QED
    BY <1>1, <2>1
<1>4. CASE Sweep \/ SweepFails \/ CollectGarbage
  <2>1. UNCHANGED ingest
    BY <1>4 DEF Sweep, BeginSweep, CheckSubscription, CloseStale, StaleClosed, SupersedeExhausted,
                ReadOverdue, ClaimOverdue, DeliverOverdue, EndSweep, SweepFails, CollectGarbage, SweepAlone
  <2>2. QED
    BY <1>1, <2>1
<1>5. CASE \E a \in Requests : ApiStep(a)
  <2>1. UNCHANGED ingest
    BY <1>5 DEF ApiStep, BeginUpdate, BeginCancel, Handle, CreateRow, SyncMonitor, SaveSubscription,
                UndoCreate, DeleteMonitor, CancelRow, RetireEvents, CloseStreams, ApiFails, ApiAlone
  <2>2. QED
    BY <1>1, <2>1
<1>6. CASE Expire \/ Shutdown \/ CrashApi \/ Tick \/ UNCHANGED vars
           \/ \E e \in Events : ValidateAck(e) \/ AckEvent(e)
  <2>1. UNCHANGED ingest
    BY <1>6 DEF Expire, Shutdown, CrashApi, Tick, ValidateAck, AckEvent, vars
  <2>2. QED
    BY <1>1, <2>1
<1>7. QED
  BY <1>2, <1>3, <1>4, <1>5, <1>6, StepKinds, IngestSteps, ReceiveSteps DEF OtherStep

\* Only events of a version that has been written are accepted and stored,
\* and what is being acknowledged is stored.
VersionsOK ==
  /\ \A p \in Posts : post[p].pc # "idle" => Known(versionOf[post[p].event])
  /\ \A e \in Events : Stored(e) => rows[e].version = versionOf[e] /\ Known(versionOf[e])
  /\ \A e \in acking : Stored(e)

VersionInv == PolicyInv /\ DrawsOK /\ SubOK /\ VersionsOK

\* The retention is over: the version is not written again, and nothing of
\* the event is under way in ingest or in an acknowledgement.
Expires(e) ==
  /\ Stored(e) /\ ~Stored(e)' /\ e \notin acking /\ Dead(versionOf[e])
  /\ \A p \in Posts : post[p].event # e

LEMMA VersionNotZero ==
  ASSUME VersionInv
  PROVE  /\ \A v : Known(v) => v # 0
         /\ \A e \in Events : Stored(e) => rows[e].version # 0
BY DEF VersionInv, VersionsOK, Known

LEMMA CollectEffect ==
  ASSUME VersionInv, CollectGarbage, NEW e \in Events
  PROVE  (Held(e) /\ (Pending(e)' <=> Pending(e))) \/ Expires(e)
<1>1. PICK v \in Versions : Outlasted(v) /\ DeleteExpired({f \in Events : Stored(f) /\ rows[f].version = v})
  BY DEF CollectGarbage
<1>2. rows'[e] = IF Stored(e) /\ rows[e].version = v THEN NoRow ELSE rows[e]
  BY <1>1 DEF DeleteExpired
<1>3. CASE Stored(e) /\ rows[e].version = v
  <2>1. versionOf[e] = v /\ Known(v)
    BY <1>3 DEF VersionInv, VersionsOK
  <2>2. Dead(v)
    BY <1>1, <2>1 DEF Outlasted, Dead
  <2>3. e \notin acking /\ \A p \in Posts : post[p].event # e
    BY <1>1, <2>1 DEF Outlasted
  <2>4. ~Stored(e)'
    BY <1>2, <1>3 DEF Stored
  <2>5. QED
    BY <1>3, <2>1, <2>2, <2>3, <2>4 DEF Expires
<1>4. CASE ~(Stored(e) /\ rows[e].version = v)
  BY <1>2, <1>4 DEF Held, Stored, Pending
<1>5. QED
  BY <1>3, <1>4

\* What becomes of a row.
LEMMA RowEffect ==
  ASSUME VersionInv, RowStep, NEW e \in Events
  PROVE  \/ Held(e)
         \/ Claimable(e) /\ Claim(e)
         \/ \E p \in Posts : InsertRow(p) /\ post[p].event = e
         \/ CollectGarbage /\ Expires(e)
<1>1. GatewayInv /\ (Stored(e) => rows[e].version # 0)
  BY VersionNotZero DEF VersionInv, PolicyInv
<1>2. ASSUME NEW S, NEW why \in Reasons \ {"no"}, Supersede(S, why) PROVE Held(e)
  BY <1>1, <1>2, SupersedeEffect
<1>3. ASSUME NEW a \in Requests, RetireEvents(a) PROVE Held(e)
  BY <1>2, <1>3 DEF RetireEvents, Reasons
<1>4. ASSUME NEW S \in SUBSET Events, NEW why \in PolicyReasons, Supersede(S, why) PROVE Held(e)
  BY <1>2, <1>4 DEF PolicyReasons, Reasons
<1>5. ASSUME NEW f \in Events, AckEvent(f) PROVE Held(e)
  BY <1>1, <1>5, AckEffect DEF AckEvent, VersionInv, VersionsOK
<1>6. ASSUME NEW f \in Events, Claimable(f), Claim(f), e # f PROVE Held(e)
  BY <1>1, <1>6, ClaimEffect
<1>7. ASSUME NEW p \in Posts, InsertRow(p), post[p].event # e PROVE Held(e)
  BY <1>1, <1>7, InsertEffect DEF InsertRow, VersionInv, PolicyInv, PostOK
<1>8. UNCHANGED rows => Held(e)
  BY DEF Held, Stored
<1>9. rows' = Aged => Held(e)
  BY <1>1, TickEffect
<1>10. QED
  BY <1>3, <1>4, <1>5, <1>6, <1>7, <1>8, <1>9, CollectEffect DEF RowStep

LEMMA AckingStep ==
  ASSUME [Next]_vars
  PROVE  \A e \in acking' : e \in acking \/ Stored(e)
<1>1. CASE \E e \in Events : ValidateAck(e) \/ AckEvent(e)
  BY <1>1 DEF ValidateAck, AckEvent
<1>2. CASE \E s \in Streams : Serve(s) \/ ReplayFails(s) \/ Disconnect(s)
                              \/ \E v \in Versions : Authenticate(s, v)
  BY <1>2 DEF Serve, Register, LoadReplay, ClaimReplay, SendReplay, SendQueued, SeeClosed, Frame,
              ReplayFails, Disconnect, Authenticate, client
<1>3. CASE \E p \in Posts : Ingest(p) \/ LoseInsert(p) \/ PostFails(p) \/ \E e \in Events : Receive(p, e)
  BY <1>3 DEF Ingest, BeginInsert, CommitInsert, ApplyLatest, FindOverflow, TrimOverflow, ClaimLive,
              DeliverLive, LoseInsert, PostFails, Receive, PostAlone, client
<1>4. CASE Sweep \/ SweepFails \/ CollectGarbage
  BY <1>4 DEF Sweep, BeginSweep, CheckSubscription, CloseStale, StaleClosed, SupersedeExhausted,
              ReadOverdue, ClaimOverdue, DeliverOverdue, EndSweep, SweepFails, CollectGarbage,
              SweepAlone, client
<1>5. CASE \E a \in Requests : ApiStep(a)
  BY <1>5 DEF ApiStep, BeginUpdate, BeginCancel, Handle, CreateRow, SyncMonitor, SaveSubscription,
              UndoCreate, DeleteMonitor, CancelRow, RetireEvents, CloseStreams, ApiFails, ApiAlone, client
<1>6. CASE Expire \/ Shutdown \/ Restart \/ CrashApi \/ Tick \/ UNCHANGED vars
  BY <1>6 DEF Expire, Shutdown, Restart, CrashApi, Tick, vars, client
<1>7. QED
  BY <1>1, <1>2, <1>3, <1>4, <1>5, <1>6, StepKinds DEF OtherStep

LEMMA VersionInductive == VersionInv /\ [Next]_vars => VersionInv'
<1> SUFFICES ASSUME VersionInv, [Next]_vars PROVE VersionInv'
  OBVIOUS
<1>1. PolicyInv' /\ GatewayInv /\ GatewayInv'
  BY PolicyInductive DEF VersionInv, PolicyInv
<1>2. DrawsStep
  BY <1>1, StepDraws DEF VersionInv
<1>3. IngestStep /\ RowStep
  BY <1>1, IngestStepHolds, RowSteps
<1>4. ASSUME NEW p \in Posts, (post[p].pc # "idle")' PROVE Known(versionOf[post[p].event])'
  <2>1. CASE post[p].pc # "idle" /\ post'[p].event = post[p].event
    <3>1. Known(versionOf[post[p].event]) /\ post[p].event \in Events
      BY <1>1, <2>1 DEF VersionInv, VersionsOK, GatewayInv, IngestOK
    <3>2. versionOf'[post'[p].event] = versionOf[post[p].event]
      BY <1>3, <2>1, <3>1, VersionNotZero DEF IngestStep
    <3>3. QED
      BY <1>2, <3>1, <3>2 DEF DrawsStep
  <2>2. CASE Live(versionOf'[post'[p].event])
    <3>1. Known(versionOf'[post'[p].event])
      BY <2>2 DEF Live, VersionInv, SubOK
    <3>2. QED
      BY <1>2, <3>1 DEF DrawsStep
  <2>3. QED
    BY <1>3, <1>4, <2>1, <2>2 DEF IngestStep, PostStep
<1>5. ASSUME NEW e \in Events, Stored(e)' PROVE rows'[e].version = versionOf'[e] /\ Known(versionOf[e])'
  <2>1. Known(versionOf[e]) /\ rows'[e].version = versionOf[e]
    <3>1. CASE Held(e)
      BY <1>5, <3>1 DEF Held, VersionInv, VersionsOK
    <3>2. CASE Claimable(e) /\ Claim(e)
      <4>1. Stored(e) /\ rows'[e].version = rows[e].version
        BY <1>1, <3>2, ClaimEffect DEF Claimable, Pending
      <4>2. QED
        BY <4>1 DEF VersionInv, VersionsOK
    <3>3. ASSUME NEW p \in Posts, InsertRow(p), post[p].event = e
          PROVE  Known(versionOf[e]) /\ rows'[e].version = versionOf[e]
      <4>1. Known(versionOf[e])
        BY <3>3 DEF InsertRow, VersionInv, VersionsOK
      <4>2. QED
        BY <1>1, <3>3, <4>1, VersionNotZero, InsertEffect
    <3>4. CASE Expires(e)
      BY <1>5, <3>4 DEF Expires
    <3>5. QED
      BY <1>3, <3>1, <3>2, <3>3, <3>4, RowEffect
  <2>2. versionOf'[e] = versionOf[e]
    BY <1>3, <2>1, VersionNotZero DEF IngestStep
  <2>3. QED
    BY <1>2, <2>1, <2>2 DEF DrawsStep
<1>6. ASSUME NEW e \in acking' PROVE Stored(e)'
  <2>1. Stored(e) /\ e \in Events
    BY <1>1, <1>6, AckingStep DEF VersionInv, VersionsOK, GatewayInv, ClientTypeOK
  <2>2. CASE CollectGarbage /\ Expires(e)
    BY <1>6, <2>2 DEF CollectGarbage, SweepAlone, client, Expires
  <2>3. CASE Claimable(e) /\ Claim(e)
    BY <1>1, <2>1, <2>3, ClaimEffect
  <2>4. QED
    BY <1>3, <2>1, <2>2, <2>3, RowEffect DEF Held, InsertRow
<1>7. QED
  BY <1>1, <1>2, <1>4, <1>5, <1>6 DEF VersionInv, VersionsOK, DrawsStep

LEMMA VersionInit == Init => VersionInv
<1> SUFFICES ASSUME Init PROVE VersionInv
  OBVIOUS
<1>1. PolicyInv /\ DrawsOK /\ SubOK
  BY PolicyInit, InitDraws
<1>2. VersionsOK
  BY DEF Init, StoreInit, VersionsOK, Stored, IdlePost
<1>3. QED
  BY <1>1, <1>2 DEF VersionInv

--------------------------------------------------------------------------------
(* What is on its way to a stream *)

Outs(e) == {s \in Streams : stream[s].out = e}
Queued(e) == {c \in Streams \X (Nat \ {0}) :
                c[2] \in 1..Len(stream[c[1]].queue) /\ stream[c[1]].queue[c[2]].event = e}
Claiming(e) == {p \in Posts : post[p].pc = "deliver" /\ post[p].event = e}
Sweeping(e) == sweep.pc = "deliver" /\ sweep.event = e

InFlight(e) == frames[e] + Cardinality(Outs(e)) + Cardinality(Queued(e))
Owed(e) == Cardinality(Claiming(e)) + (IF Sweeping(e) THEN 1 ELSE 0)

\* The frames written, the copies held by streams and, for each delivery that
\* is claimed and not begun, as many copies as there can be streams.
Covered(e) ==
  /\ IsFiniteSet(Outs(e)) /\ IsFiniteSet(Queued(e)) /\ IsFiniteSet(Claiming(e))
  /\ InFlight(e) + Owed(e) * MaxPerKey <= rows[e].count * MaxPerKey

Gone(e) == Dead(versionOf[e]) /\ \A p \in Posts : post[p].pc # "idle" => post[p].event # e
Fresh(e) == frames[e] = 0 /\ Outs(e) = {} /\ Queued(e) = {}

\* An event that is not stored has never been, or will not be again: its
\* frames start from nothing when its row does.
DeliveryOK(e) ==
  /\ Claiming(e) # {} \/ Sweeping(e) => Stored(e)
  /\ Stored(e) => Covered(e)
  /\ ~Stored(e) => Gone(e) \/ Fresh(e)

DeliveryInv == VersionInv /\ \A e \in Events : DeliveryOK(e)

LEMMA Times ==
  ASSUME NEW m \in Nat, NEW n \in Nat, NEW k \in Nat
  PROVE  /\ m * k \in Nat
         /\ (m + 1) * k = m * k + k
         /\ m <= n => m * k <= n * k
OBVIOUS

\* The four ways in which the account moves: something is dropped or written,
\* a delivery is begun, one is claimed for later, one is claimed for a frame.
LEMMA Account ==
  ASSUME NEW x \in Nat, NEW w \in Nat, NEW n \in Nat, NEW y \in Nat, NEW u \in Nat, NEW m \in Nat,
         NEW k \in Nat \ {0}, x + w * k <= n * k,
         \/ y <= x /\ u <= w /\ n <= m
         \/ y <= x + k /\ u + 1 <= w /\ n <= m
         \/ y <= x /\ u <= w + 1 /\ n + 1 <= m
         \/ y <= x + 1 /\ u <= w /\ n + 1 <= m
  PROVE  y + u * k <= m * k
<1>1. w * k \in Nat /\ n * k \in Nat /\ u * k \in Nat /\ m * k \in Nat
  BY Times
<1>2. (u + 1) * k = u * k + k /\ (w + 1) * k = w * k + k /\ (n + 1) * k = n * k + k
  BY Times
<1>3. CASE y <= x /\ u <= w /\ n <= m
  <2>1. u * k <= w * k /\ n * k <= m * k
    BY <1>3, Times
  <2>2. QED
    BY <1>1, <1>3, <2>1
<1>4. CASE y <= x + k /\ u + 1 <= w /\ n <= m
  <2>1. (u + 1) * k <= w * k /\ n * k <= m * k
    BY <1>4, Times
  <2>2. QED
    BY <1>1, <1>2, <1>4, <2>1
<1>5. CASE y <= x /\ u <= w + 1 /\ n + 1 <= m
  <2>1. u * k <= (w + 1) * k /\ (n + 1) * k <= m * k
    BY <1>5, Times
  <2>2. QED
    BY <1>1, <1>2, <1>5, <2>1
<1>6. CASE y <= x + 1 /\ u <= w /\ n + 1 <= m
  <2>1. u * k <= w * k /\ (n + 1) * k <= m * k
    BY <1>6, Times
  <2>2. QED
    BY <1>1, <1>2, <1>6, <2>1
<1>7. QED
  BY <1>3, <1>4, <1>5, <1>6

Finite(e) == IsFiniteSet(Outs(e)) /\ IsFiniteSet(Queued(e)) /\ IsFiniteSet(Claiming(e))

LEMMA AccountTypes ==
  ASSUME GatewayInv, NEW e \in Events, Finite(e)
  PROVE  /\ frames[e] \in Nat /\ rows[e].count \in Nat
         /\ Cardinality(Outs(e)) \in Nat /\ Cardinality(Queued(e)) \in Nat
         /\ Cardinality(Claiming(e)) \in Nat
         /\ InFlight(e) \in Nat /\ Owed(e) \in Nat
<1>1. frames[e] \in Nat /\ rows[e].count \in Nat
  BY RowOf, StoreBounds DEF GatewayInv, ClientTypeOK, RowType
<1>2. /\ Cardinality(Outs(e)) \in Nat /\ Cardinality(Queued(e)) \in Nat
      /\ Cardinality(Claiming(e)) \in Nat
  BY FS_CardinalityType DEF Finite
<1>3. QED
  BY <1>1, <1>2 DEF InFlight, Owed

LEMMA CoveredMoves ==
  ASSUME GatewayInv, GatewayInv', NEW e \in Events, Covered(e), Finite(e)',
         \/ InFlight(e)' <= InFlight(e) /\ Owed(e)' <= Owed(e) /\ rows[e].count <= rows'[e].count
         \/ InFlight(e)' <= InFlight(e) + MaxPerKey /\ Owed(e)' + 1 <= Owed(e) /\ rows[e].count <= rows'[e].count
         \/ InFlight(e)' <= InFlight(e) /\ Owed(e)' <= Owed(e) + 1 /\ rows[e].count + 1 <= rows'[e].count
         \/ InFlight(e)' <= InFlight(e) + 1 /\ Owed(e)' <= Owed(e) /\ rows[e].count + 1 <= rows'[e].count
  PROVE  Covered(e)'
<1>1. InFlight(e) \in Nat /\ Owed(e) \in Nat /\ rows[e].count \in Nat
  BY AccountTypes DEF Covered, Finite
<1>2. InFlight(e)' \in Nat /\ Owed(e)' \in Nat /\ rows'[e].count \in Nat
  <2>1. (frames[e] \in Nat /\ rows[e].count \in Nat)'
    <3>1. rows' \in [Events -> RowType] /\ frames' \in [Events -> Nat]
      BY DEF GatewayInv, StoreTypeOK, ClientTypeOK
    <3>2. QED
      BY <3>1, StoreBounds DEF RowType
  <2>2. /\ Cardinality(Outs(e)') \in Nat /\ Cardinality(Queued(e)') \in Nat
        /\ Cardinality(Claiming(e)') \in Nat
    BY FS_CardinalityType DEF Finite
  <2>3. QED
    BY <2>1, <2>2 DEF InFlight, Owed
<1>3. InFlight(e) + Owed(e) * MaxPerKey <= rows[e].count * MaxPerKey
  BY DEF Covered
<1>4. MaxPerKey \in Nat \ {0}
  BY GatewayAssumption
<1>5. InFlight(e)' + Owed(e)' * MaxPerKey <= rows'[e].count * MaxPerKey
  BY <1>1, <1>2, <1>3, <1>4, Account
<1>6. QED
  BY <1>5 DEF Covered, Finite

LEMMA GoneStays ==
  ASSUME VersionInv, [Next]_vars, NEW e \in Events, Gone(e)
  PROVE  Gone(e)'
<1>1. GatewayInv
  BY DEF VersionInv, PolicyInv
<1>2. DrawsStep /\ IngestStep
  BY <1>1, StepDraws, IngestStepHolds DEF VersionInv
<1>3. versionOf[e] # 0 /\ Dead(versionOf[e])
  BY VersionNotZero DEF Gone, Dead
<1>4. versionOf'[e] = versionOf[e] /\ Dead(versionOf[e])'
  BY <1>2, <1>3 DEF IngestStep, DrawsStep
<1>5. ~Live(versionOf[e])
  BY <1>3 DEF Dead, Live
<1>6. ASSUME NEW p \in Posts, post'[p].pc # "idle", post'[p].event = e PROVE FALSE
  BY <1>2, <1>4, <1>5, <1>6 DEF IngestStep, PostStep, Gone
<1>7. QED
  BY <1>4, <1>6 DEF Gone

NoMore(T, S) ==
  /\ IsFiniteSet(S) => IsFiniteSet(T) /\ Cardinality(T) <= Cardinality(S)
  /\ S = {} => T = {}

LEMMA SubsetNoMore ==
  ASSUME NEW S, NEW T \in SUBSET S
  PROVE  NoMore(T, S)
BY FS_Subset DEF NoMore

\* Nothing more of e is written, held or claimed for delivery.
QuietFor(e) ==
  /\ frames'[e] = frames[e]
  /\ Outs(e)' \subseteq Outs(e) /\ NoMore(Queued(e)', Queued(e)) /\ Claiming(e)' \subseteq Claiming(e)
  /\ Sweeping(e)' => Sweeping(e)

LEMMA QuietCovered ==
  ASSUME GatewayInv, GatewayInv', NEW e \in Events, Covered(e), QuietFor(e),
         rows[e].count <= rows'[e].count
  PROVE  Covered(e)'
<1>1. /\ Finite(e)'
      /\ Cardinality(Outs(e)') <= Cardinality(Outs(e))
      /\ Cardinality(Queued(e)') <= Cardinality(Queued(e))
      /\ Cardinality(Claiming(e)') <= Cardinality(Claiming(e))
  BY FS_Subset DEF Covered, Finite, QuietFor, NoMore
<1>2. /\ Cardinality(Outs(e)') \in Nat /\ Cardinality(Queued(e)') \in Nat
      /\ Cardinality(Claiming(e)') \in Nat
  BY <1>1, FS_CardinalityType DEF Finite
<1>3. /\ frames[e] \in Nat /\ frames'[e] = frames[e]
      /\ Cardinality(Outs(e)) \in Nat /\ Cardinality(Queued(e)) \in Nat
      /\ Cardinality(Claiming(e)) \in Nat
  BY AccountTypes DEF Covered, Finite, QuietFor
<1>4. InFlight(e)' <= InFlight(e)
  BY <1>1, <1>2, <1>3 DEF InFlight
<1>5. Owed(e)' <= Owed(e)
  BY <1>1, <1>2, <1>3 DEF Owed, QuietFor
<1>6. QED
  BY <1>1, <1>4, <1>5, CoveredMoves

LEMMA QuietKeeps ==
  ASSUME DeliveryInv, VersionInv', [Next]_vars, NEW e \in Events, QuietFor(e)
  PROVE  DeliveryOK(e)'
<1>1. GatewayInv /\ GatewayInv' /\ VersionInv /\ DeliveryOK(e)
  BY DEF DeliveryInv, VersionInv, PolicyInv
<1>2. rows[e].count \in Nat
  BY <1>1, RowOf, StoreBounds DEF RowType
<1>3. CASE (Stored(e)' <=> Stored(e)) /\ rows[e].count <= rows'[e].count
  <2>1. Claiming(e)' # {} \/ Sweeping(e)' => Stored(e)'
    BY <1>1, <1>3 DEF DeliveryOK, QuietFor
  <2>2. Stored(e)' => Covered(e)'
    BY <1>1, <1>3, QuietCovered DEF DeliveryOK
  <2>3. ~Stored(e)' => Gone(e)' \/ Fresh(e)'
    BY <1>1, <1>3, GoneStays DEF DeliveryOK, Fresh, QuietFor, NoMore
  <2>4. QED
    BY <2>1, <2>2, <2>3 DEF DeliveryOK
<1>4. ASSUME NEW p \in Posts, InsertRow(p), post[p].event = e PROVE DeliveryOK(e)'
  <2>1. ~Stored(e) /\ Fresh(e) /\ Claiming(e) = {} /\ ~Sweeping(e)
    BY <1>1, <1>4 DEF InsertRow, DeliveryOK, Gone
  <2>2. Stored(e)' /\ rows'[e].count = 0
    BY <1>1, <1>4, InsertEffect DEF InsertRow, VersionInv, PolicyInv, PostOK
  <2>3. frames'[e] = 0 /\ Outs(e)' = {} /\ Queued(e)' = {} /\ Claiming(e)' = {} /\ ~Sweeping(e)'
    BY <2>1 DEF QuietFor, Fresh, NoMore
  <2>4. Finite(e)' /\ InFlight(e)' = 0 /\ Owed(e)' = 0
    BY <2>3, FS_EmptySet DEF Finite, InFlight, Owed
  <2>5. 0 * MaxPerKey = 0
    BY GatewayAssumption
  <2>6. Covered(e)'
    BY <2>2, <2>4, <2>5 DEF Covered, Finite
  <2>7. QED
    BY <2>2, <2>6 DEF DeliveryOK
<1>5. CASE CollectGarbage /\ Expires(e)
  <2>1. Gone(e)
    BY <1>5 DEF Expires, Gone
  <2>2. Gone(e)'
    BY <1>1, <2>1, GoneStays
  <2>3. Claiming(e)' = {} /\ ~Sweeping(e)'
    BY <1>5, <2>1 DEF Gone, Claiming, QuietFor, CollectGarbage, Sweeping, SweepAt
  <2>4. QED
    BY <1>5, <2>2, <2>3 DEF DeliveryOK, Expires
<1>6. CASE Claimable(e) /\ Claim(e)
  BY <1>1, <1>2, <1>3, <1>6, ClaimEffect
<1>7. CASE Held(e)
  BY <1>2, <1>3, <1>7 DEF Held
<1>8. QED
  BY <1>1, <1>4, <1>5, <1>6, <1>7, RowSteps, RowEffect

--------------------------------------------------------------------------------
(* The steps that put nothing on its way *)

\* A stream holds what it held, or nothing.
StreamsShrink ==
  \A s \in Streams :
    \/ stream'[s].out = stream[s].out /\ stream'[s].queue = stream[s].queue
    \/ stream'[s].out = NoEvent /\ stream'[s].queue = <<>>

PostsShrink ==
  \A p \in Posts :
    post'[p].pc = "deliver" => post[p].pc = "deliver" /\ post'[p].event = post[p].event

SweepShrinks == sweep'.pc = "deliver" => sweep.pc = "deliver" /\ sweep'.event = sweep.event

QuietStep == StreamsShrink /\ PostsShrink /\ SweepShrinks /\ frames' = frames

LEMMA HeldShrinks ==
  ASSUME StreamsShrink, NEW e \in Events
  PROVE  Outs(e)' \subseteq Outs(e) /\ Queued(e)' \subseteq Queued(e)
<1>1. e # NoEvent
  BY GatewayAssumption
<1>2. Outs(e)' \subseteq Outs(e)
  BY <1>1 DEF StreamsShrink, Outs
<1>3. ASSUME NEW c \in Queued(e)' PROVE c \in Queued(e)
  <2>1. /\ c \in Streams \X (Nat \ {0}) /\ c[1] \in Streams
        /\ c[2] \in 1..Len(stream'[c[1]].queue) /\ stream'[c[1]].queue[c[2]].event = e
    BY <1>3 DEF Queued
  <2>2. stream'[c[1]].queue # <<>>
    BY <2>1
  <2>3. stream'[c[1]].queue = stream[c[1]].queue
    BY <2>1, <2>2 DEF StreamsShrink
  <2>4. QED
    BY <2>1, <2>3 DEF Queued
<1>4. QED
  BY <1>2, <1>3

LEMMA QuietStepKeeps ==
  ASSUME DeliveryInv, VersionInv', [Next]_vars, QuietStep
  PROVE  DeliveryInv'
<1>1. ASSUME NEW e \in Events PROVE QuietFor(e)
  <2>1. Outs(e)' \subseteq Outs(e) /\ Queued(e)' \subseteq Queued(e)
    BY HeldShrinks DEF QuietStep
  <2>2. Claiming(e)' \subseteq Claiming(e)
    BY DEF QuietStep, PostsShrink, Claiming
  <2>3. Sweeping(e)' => Sweeping(e)
    BY DEF QuietStep, SweepShrinks, Sweeping
  <2>4. QED
    BY <2>1, <2>2, <2>3, SubsetNoMore DEF QuietFor, QuietStep
<1>2. QED
  BY <1>1, QuietKeeps DEF DeliveryInv

LEMMA OnlyStream ==
  ASSUME GatewayInv, NEW s \in Streams, NEW q, stream' = [stream EXCEPT ![s] = q]
  PROVE  stream'[s] = q /\ \A t \in Streams \ {s} : stream'[t] = stream[t]
BY DEF GatewayInv, StreamsOK

LEMMA StreamFields ==
  ASSUME GatewayInv, NEW s \in Streams, NEW pc, NEW v, NEW n, NEW S
  PROVE  LET q == stream[s] IN
         /\ q \in StreamType
         /\ \A r \in {[q EXCEPT !.pc = pc], [q EXCEPT !.closed = TRUE], [q EXCEPT !.replay = S],
                      [q EXCEPT !.pc = pc, !.version = v, !.after = n],
                      [q EXCEPT !.pc = pc, !.replay = S]} :
              r.out = q.out /\ r.queue = q.queue
<1> DEFINE q == stream[s]
           moved == [q EXCEPT !.pc = pc]
           keyed == [moved EXCEPT !.version = v]
<1>1. q \in StreamType
  BY DEF GatewayInv, StreamsOK
<1>2. moved.out = q.out /\ moved.queue = q.queue
  BY <1>1 DEF StreamType
<1>3. [q EXCEPT !.closed = TRUE].out = q.out /\ [q EXCEPT !.closed = TRUE].queue = q.queue
  BY <1>1 DEF StreamType
<1>4. [q EXCEPT !.replay = S].out = q.out /\ [q EXCEPT !.replay = S].queue = q.queue
  BY <1>1 DEF StreamType
<1>5. keyed.out = q.out /\ keyed.queue = q.queue
  BY <1>1 DEF StreamType
<1>6. [keyed EXCEPT !.after = n].out = q.out /\ [keyed EXCEPT !.after = n].queue = q.queue
  BY <1>1 DEF StreamType
<1>7. [moved EXCEPT !.replay = S].out = q.out /\ [moved EXCEPT !.replay = S].queue = q.queue
  BY <1>1 DEF StreamType
<1>8. QED
  BY <1>1, <1>2, <1>3, <1>4, <1>6, <1>7, Zenon

\* One stream ends, or changes what it does not hold.
LEMMA OneShrinks ==
  ASSUME GatewayInv, NEW s \in Streams, NEW q, stream' = [stream EXCEPT ![s] = q],
         q = IdleStream \/ (q.out = stream[s].out /\ q.queue = stream[s].queue)
  PROVE  StreamsShrink
<1>1. stream'[s] = q /\ \A t \in Streams \ {s} : stream'[t] = stream[t]
  BY OnlyStream
<1>2. IdleStream.out = NoEvent /\ IdleStream.queue = <<>>
  BY DEF IdleStream
<1>3. QED
  BY <1>1, <1>2 DEF StreamsShrink

LEMMA CloseShrinks ==
  ASSUME GatewayInv, NEW S, CloseHub(S)
  PROVE  StreamsShrink
<1>1. \A s \in Streams : stream'[s] = IF s \in S THEN [stream[s] EXCEPT !.closed = TRUE] ELSE stream[s]
  BY DEF CloseHub, CloseConns
<1>2. QED
  BY <1>1, StreamFields DEF StreamsShrink

LEMMA RegisterShrinks ==
  ASSUME GatewayInv, NEW s \in Streams, Register(s)
  PROVE  StreamsShrink
<1> DEFINE evicted == OldestStreams(stream[s].version, Evictable(stream[s].version))
<1>1. \/ stream' = [stream EXCEPT ![s] = IdleStream]
      \/ stream' = [t \in Streams |->
                      CASE t = s -> [stream[t] EXCEPT !.pc = "load"]
                        [] t \in evicted -> [stream[t] EXCEPT !.closed = TRUE]
                        [] OTHER -> stream[t]]
  BY DEF Register
<1>2. s \notin evicted
  <2>1. s \notin hub
    BY DEF GatewayInv, HubOK, HubConsistent, Register, StreamAt
  <2>2. QED
    BY <2>1 DEF OldestStreams, OnKey
<1> HIDE DEF evicted
<1>3. CASE stream' = [t \in Streams |->
                        CASE t = s -> [stream[t] EXCEPT !.pc = "load"]
                          [] t \in evicted -> [stream[t] EXCEPT !.closed = TRUE]
                          [] OTHER -> stream[t]]
  <2>1. ASSUME NEW t \in Streams
        PROVE  stream'[t] \in {[stream[t] EXCEPT !.pc = "load"], [stream[t] EXCEPT !.closed = TRUE], stream[t]}
    BY <1>2, <1>3
  <2>2. ASSUME NEW t \in Streams
        PROVE  /\ [stream[t] EXCEPT !.pc = "load"].out = stream[t].out
               /\ [stream[t] EXCEPT !.pc = "load"].queue = stream[t].queue
               /\ [stream[t] EXCEPT !.closed = TRUE].out = stream[t].out
               /\ [stream[t] EXCEPT !.closed = TRUE].queue = stream[t].queue
    BY DEF GatewayInv, StreamsOK, StreamType
  <2>3. QED
    BY <2>1, <2>2 DEF StreamsShrink
<1>4. QED
  BY <1>1, <1>3, OneShrinks

LEMMA StreamsQuiet ==
  ASSUME GatewayInv, NEW s \in Streams,
         \/ Register(s) \/ LoadReplay(s) \/ SeeClosed(s) \/ ReplayFails(s) \/ Disconnect(s)
         \/ \E v \in Versions : Authenticate(s, v)
  PROVE  QuietStep
<1>1. UNCHANGED <<ingest, sweep, frames>>
  BY DEF Register, LoadReplay, SeeClosed, ReplayFails, Disconnect, Authenticate, StreamAlone, client
<1>2. PostsShrink /\ SweepShrinks /\ frames' = frames
  BY <1>1 DEF PostsShrink, SweepShrinks, ingest
<1>3. StreamsShrink
  <2>1. CASE LoadReplay(s) \/ ReplayFails(s)
    <3>1. PICK S : stream' = [stream EXCEPT ![s].pc = "serve", ![s].replay = S]
      BY <2>1, Zenon DEF LoadReplay, ReplayFails
    <3> DEFINE q == [stream[s] EXCEPT !.pc = "serve", !.replay = S]
    <3>2. stream' = [stream EXCEPT ![s] = q]
      BY <3>1, Zenon
    <3>3. q.out = stream[s].out /\ q.queue = stream[s].queue
      BY StreamFields
    <3> HIDE DEF q
    <3>4. QED
      BY <3>2, <3>3, OneShrinks
  <2>2. CASE SeeClosed(s) \/ Disconnect(s)
    BY <2>2, OneShrinks DEF SeeClosed, Disconnect, EndStream
  <2>3. ASSUME NEW v \in Versions, Authenticate(s, v) PROVE StreamsShrink
    <3>1. PICK after :
            stream' = [stream EXCEPT ![s].pc = "register", ![s].version = v, ![s].after = after]
      BY <2>3, Zenon DEF Authenticate
    <3> DEFINE q == [stream[s] EXCEPT !.pc = "register", !.version = v, !.after = after]
    <3>2. stream' = [stream EXCEPT ![s] = q]
      BY <3>1, Zenon
    <3>3. q.out = stream[s].out /\ q.queue = stream[s].queue
      BY StreamFields
    <3> HIDE DEF q
    <3>4. QED
      BY <3>2, <3>3, OneShrinks
  <2>4. QED
    BY <2>1, <2>2, <2>3, RegisterShrinks
<1>4. QED
  BY <1>2, <1>3 DEF QuietStep

LEMMA PostsQuiet ==
  ASSUME IngestStep, ~\E p \in Posts : ClaimsLive(p)
  PROVE  PostsShrink
BY DEF IngestStep, PostStep, PostsShrink

LEMMA SameStreams == UNCHANGED streams => StreamsShrink
BY DEF streams, StreamsShrink

LEMMA IngestQuiet ==
  ASSUME GatewayInv, NEW p \in Posts, IngestStep, ~\E r \in Posts : ClaimsLive(r),
         Ingest(p) \/ LoseInsert(p) \/ PostFails(p) \/ (\E e \in Events : Receive(p, e)), ~DeliverLive(p)
  PROVE  QuietStep
<1>1. UNCHANGED <<streams, sweep, frames>>
  BY DEF Ingest, BeginInsert, CommitInsert, ApplyLatest, FindOverflow, TrimOverflow, ClaimLive,
         LoseInsert, PostFails, Receive, PostAlone, client
<1>2. QED
  BY <1>1, SameStreams, PostsQuiet DEF QuietStep, SweepShrinks

LEMMA SweepEnds ==
  ASSUME GatewayInv, Sweep \/ SweepFails, ~DeliverOverdue, sweep' # sweep
  PROVE  sweep'.pc # "deliver" \/ (ClaimOverdue /\ Claimable(Oldest(sweep.overdue)) /\ Claim(Oldest(sweep.overdue)))
<1>1. sweep \in SweepType /\ IdleSweep \in SweepType /\ IdleSweep.pc = "idle"
  BY IdleSweepTyped DEF GatewayInv, SweepOK
<1>3. CASE BeginSweep
  <2> DEFINE begun == [IdleSweep EXCEPT !.pc = "check"]
  <2>1. begun.pc = "check"
    BY <1>1 DEF SweepType
  <2>2. \A x : [begun EXCEPT !.keys = x].pc = "check"
    BY <1>1, <2>1 DEF SweepType
  <2>3. PICK x : sweep' = [begun EXCEPT !.keys = x]
    BY <1>3, Zenon DEF BeginSweep
  <2> HIDE DEF begun
  <2>4. QED
    BY <2>2, <2>3
<1>4. CASE CheckSubscription
  <2> DEFINE moved == [sweep EXCEPT !.pc = "close"]
  <2>1. \A x : [moved EXCEPT !.live = x].pc = "close"
    BY <1>1 DEF SweepType
  <2>2. PICK x : sweep' = [moved EXCEPT !.live = x]
    BY <1>4, Zenon DEF CheckSubscription
  <2> HIDE DEF moved
  <2>3. QED
    BY <2>1, <2>2
<1>5. CASE \E v \in Versions : CloseStale(v)
  <2>1. \A x : [sweep EXCEPT !.keys = x].pc = sweep.pc
    BY <1>1 DEF SweepType
  <2>2. PICK x : sweep' = [sweep EXCEPT !.keys = x]
    BY <1>5, Zenon DEF CloseStale
  <2>3. QED
    BY <1>5, <2>1, <2>2 DEF CloseStale, SweepAt
<1>6. CASE StaleClosed
  <2> DEFINE moved == [sweep EXCEPT !.pc = "exhaust"]
  <2>1. \A x : [moved EXCEPT !.keys = x].pc = "exhaust"
    BY <1>1 DEF SweepType
  <2>2. sweep' = [moved EXCEPT !.keys = {}]
    BY <1>6, Zenon DEF StaleClosed
  <2> HIDE DEF moved
  <2>3. QED
    BY <2>1, <2>2
<1>7. CASE SupersedeExhausted
  BY <1>1, <1>7 DEF SupersedeExhausted, SweepType
<1>8. CASE ReadOverdue
  <2> DEFINE moved == [sweep EXCEPT !.pc = "claim"]
  <2>1. \A x : [moved EXCEPT !.overdue = x].pc = "claim"
    BY <1>1 DEF SweepType
  <2>2. PICK x : sweep' = [moved EXCEPT !.overdue = x]
    BY <1>8, Zenon DEF ReadOverdue
  <2> HIDE DEF moved
  <2>3. QED
    BY <2>1, <2>2
<1>9. CASE ClaimOverdue
  <2>1. \A x : [sweep EXCEPT !.overdue = x].pc = sweep.pc
    BY <1>1 DEF SweepType
  <2>2. \/ Claimable(Oldest(sweep.overdue)) /\ Claim(Oldest(sweep.overdue))
        \/ sweep' = [sweep EXCEPT !.overdue = @ \ {Oldest(sweep.overdue)}]
    BY <1>9 DEF ClaimOverdue
  <2>3. QED
    BY <1>9, <2>1, <2>2 DEF ClaimOverdue, SweepAt
<1>10. CASE EndSweep
  BY <1>1, <1>10 DEF EndSweep
<1>11. CASE SweepFails
  <2>1. \A x : [sweep EXCEPT !.overdue = x].pc = sweep.pc
    BY <1>1 DEF SweepType
  <2>2. [sweep EXCEPT !.pc = "overdue"].pc = "overdue"
    BY <1>1 DEF SweepType
  <2>3. \/ sweep' = [sweep EXCEPT !.pc = "overdue"]
        \/ SweepAt("claim") /\ sweep' = [sweep EXCEPT !.overdue = @ \ {Oldest(sweep.overdue)}]
        \/ sweep' = IdleSweep
    BY <1>11 DEF SweepFails
  <2>4. QED
    BY <1>1, <2>1, <2>2, <2>3 DEF SweepAt
<1>12. QED
  BY <1>3, <1>4, <1>5, <1>6, <1>7, <1>8, <1>9, <1>10, <1>11 DEF Sweep

LEMMA SweepQuiet ==
  ASSUME GatewayInv, Sweep \/ SweepFails, ~DeliverOverdue,
         ~(ClaimOverdue /\ Claimable(Oldest(sweep.overdue)) /\ Claim(Oldest(sweep.overdue)))
  PROVE  QuietStep
<1>1. UNCHANGED <<ingest, frames>>
  BY DEF Sweep, BeginSweep, CheckSubscription, CloseStale, StaleClosed, SupersedeExhausted,
         ReadOverdue, ClaimOverdue, EndSweep, SweepFails, SweepAlone, client
<1>2. SweepShrinks
  BY SweepEnds DEF SweepShrinks
<1>3. CASE \E v \in Versions : CloseStale(v)
  BY <1>1, <1>2, <1>3, CloseShrinks DEF CloseStale, QuietStep, PostsShrink, ingest
<1>4. CASE ~\E v \in Versions : CloseStale(v)
  <2>1. UNCHANGED streams
    BY <1>4 DEF Sweep, BeginSweep, CheckSubscription, StaleClosed, SupersedeExhausted,
                ReadOverdue, ClaimOverdue, EndSweep, SweepFails
  <2>2. QED
    BY <1>1, <1>2, <2>1, SameStreams DEF QuietStep, PostsShrink, ingest
<1>5. QED
  BY <1>3, <1>4

LEMMA ApiQuiet ==
  ASSUME GatewayInv, NEW a \in Requests, ApiStep(a)
  PROVE  QuietStep
<1>1. UNCHANGED <<ingest, sweep, frames>>
  BY DEF ApiStep, BeginUpdate, BeginCancel, Handle, CreateRow, SyncMonitor, SaveSubscription,
         UndoCreate, DeleteMonitor, CancelRow, RetireEvents, CloseStreams, ApiFails, ApiAlone, client
<1>2. CASE CloseStreams(a)
  BY <1>1, <1>2, CloseShrinks DEF CloseStreams, QuietStep, PostsShrink, SweepShrinks, ingest
<1>3. CASE ~CloseStreams(a)
  <2>1. UNCHANGED streams
    BY <1>3 DEF ApiStep, BeginUpdate, BeginCancel, Handle, CreateRow, SyncMonitor, SaveSubscription,
                UndoCreate, DeleteMonitor, CancelRow, RetireEvents, ApiFails
  <2>2. QED
    BY <1>1, <2>1, SameStreams DEF QuietStep, PostsShrink, SweepShrinks, ingest
<1>4. QED
  BY <1>2, <1>3

LEMMA ProcessQuiet ==
  ASSUME GatewayInv,
         \/ Expire \/ Shutdown \/ Restart \/ CrashApi \/ Tick \/ CollectGarbage \/ UNCHANGED vars
         \/ \E e \in Events : ValidateAck(e) \/ AckEvent(e)
  PROVE  QuietStep
<1>1. frames' = frames
  BY DEF Expire, Shutdown, Restart, CrashApi, Tick, CollectGarbage, ValidateAck, AckEvent, vars,
         SweepAlone, client
<1>2. CASE Restart
  <2>1. /\ \A p \in Posts : post'[p].pc = "idle"
        /\ \A s \in Streams : stream'[s].out = NoEvent /\ stream'[s].queue = <<>>
        /\ sweep'.pc = "idle"
    BY <1>2 DEF Restart, IdlePost, IdleStream, IdleSweep
  <2>2. QED
    BY <1>1, <2>1 DEF QuietStep, StreamsShrink, PostsShrink, SweepShrinks
<1>3. CASE Shutdown
  BY <1>1, <1>3, CloseShrinks DEF Shutdown, QuietStep, PostsShrink, SweepShrinks, ingest
<1>4. CASE ~Restart /\ ~Shutdown
  <2>1. UNCHANGED <<ingest, streams, sweep>>
    BY <1>4 DEF Expire, CrashApi, Tick, CollectGarbage, ValidateAck, AckEvent, vars, SweepAlone, streams, hubVars
  <2>2. QED
    BY <1>1, <2>1, SameStreams DEF QuietStep, PostsShrink, SweepShrinks, ingest
<1>5. QED
  BY <1>2, <1>3, <1>4

--------------------------------------------------------------------------------
(* The steps that do *)

LEMMA DeliveryParts ==
  ASSUME DeliveryInv, VersionInv'
  PROVE  VersionInv /\ GatewayInv /\ GatewayInv' /\ \A e \in Events : DeliveryOK(e)
BY DEF DeliveryInv, VersionInv, PolicyInv

LEMMA ClaimLiveCovers ==
  ASSUME DeliveryInv, VersionInv', [Next]_vars, NEW p \in Posts, ClaimsLive(p)
  PROVE  DeliveryInv'
<1>0. PICK e : e = post[p].event
  OBVIOUS
<1> DEFINE q == [post[p] EXCEPT !.pc = "deliver"]
<1>1. GatewayInv /\ GatewayInv' /\ \A f \in Events : DeliveryOK(f)
  BY DeliveryParts
<1>2. e \in Events /\ post[p].pc = "claim"
  BY <1>0, <1>1 DEF ClaimsLive, ClaimLive, PostAt, GatewayInv, IngestOK
<1>3. Claimable(e) /\ Claim(e)
  BY <1>0 DEF ClaimsLive
<1>4. rows'[e].count = rows[e].count + 1 /\ Stored(e) /\ Stored(e)'
  BY <1>1, <1>2, <1>3, ClaimEffect DEF Claimable, Pending
<1>5. rows[e].count \in Nat
  BY <1>1, <1>2, RowOf, StoreBounds DEF RowType
<1>6. UNCHANGED <<streams, sweep, frames>> /\ (PostMoves(p, "deliver") \/ PostReturns(p))
  BY DEF ClaimsLive, ClaimLive, PostAlone, client
<1>7. q.event = e /\ IdlePost.pc # "deliver"
  BY <1>0, <1>1, PostFields DEF IdlePost
<1>8. post' = [post EXCEPT ![p] = q] \/ post' = [post EXCEPT ![p] = IdlePost]
  BY <1>6, Zenon DEF PostMoves, PostReturns
<1> HIDE DEF q
<1>9. /\ post'[p].pc = "deliver" => post'[p].event = e
      /\ \A r \in Posts \ {p} : post'[r] = post[r]
  BY <1>1, <1>7, <1>8, OnlyPost
<1>10. \A f \in Events : Outs(f)' = Outs(f) /\ Queued(f)' = Queued(f) /\ (Sweeping(f)' <=> Sweeping(f))
  BY <1>6 DEF Outs, Queued, Sweeping, streams
<1>11. \A f \in Events : Claiming(f)' \subseteq Claiming(f) \union (IF f = e THEN {p} ELSE {})
  BY <1>9 DEF Claiming
<1>12. ASSUME NEW f \in Events \ {e} PROVE DeliveryOK(f)'
  <2>1. QuietFor(f)
    BY <1>6, <1>10, <1>11, SubsetNoMore DEF QuietFor
  <2>2. QED
    BY <2>1, QuietKeeps
<1>13. Covered(e)'
  <2>1. Covered(e)
    BY <1>1, <1>2, <1>4 DEF DeliveryOK
  <2>2. /\ IsFiniteSet(Claiming(e) \union {p})
        /\ Cardinality(Claiming(e) \union {p}) <= Cardinality(Claiming(e)) + 1
    <3>1. IsFiniteSet(Claiming(e)) /\ Cardinality(Claiming(e)) \in Nat
      BY <2>1, FS_CardinalityType DEF Covered
    <3>2. QED
      BY <3>1, FS_AddElement
  <2>3. Claiming(e)' \in SUBSET (Claiming(e) \union {p})
    BY <1>2, <1>11
  <2>4. IsFiniteSet(Claiming(e)') /\ Cardinality(Claiming(e)') <= Cardinality(Claiming(e) \union {p})
    BY <2>2, <2>3, FS_Subset
  <2>5. /\ Cardinality(Claiming(e)') \in Nat /\ Cardinality(Claiming(e)) \in Nat
        /\ Cardinality(Claiming(e) \union {p}) \in Nat
    BY <2>1, <2>2, <2>4, FS_CardinalityType DEF Covered
  <2>6. Owed(e)' <= Owed(e) + 1
    BY <1>2, <1>10, <2>2, <2>4, <2>5 DEF Owed
  <2>7. Finite(e)' /\ InFlight(e)' = InFlight(e)
    BY <1>2, <1>6, <1>10, <2>1, <2>4 DEF Covered, Finite, InFlight
  <2>8. InFlight(e) \in Nat
    BY <1>1, <1>2, <2>1, AccountTypes DEF Covered, Finite
  <2>9. QED
    BY <1>1, <1>2, <1>4, <1>5, <2>1, <2>6, <2>7, <2>8, CoveredMoves
<1>14. DeliveryOK(e)'
  BY <1>4, <1>13 DEF DeliveryOK
<1>15. QED
  BY <1>12, <1>14 DEF DeliveryInv

LEMMA ClaimOverdueCovers ==
  ASSUME DeliveryInv, VersionInv', [Next]_vars, ClaimOverdue,
         Claimable(Oldest(sweep.overdue)), Claim(Oldest(sweep.overdue))
  PROVE  DeliveryInv'
<1>0. PICK e : e = Oldest(sweep.overdue)
  OBVIOUS
<1> DEFINE begun == [sweep EXCEPT !.pc = "deliver"]
           left == [begun EXCEPT !.overdue = @ \ {e}]
           q == [left EXCEPT !.event = e]
           skipped == [sweep EXCEPT !.overdue = @ \ {e}]
<1>1. GatewayInv /\ GatewayInv' /\ \A f \in Events : DeliveryOK(f)
  BY DeliveryParts
<1>2. sweep \in SweepType /\ sweep.pc = "claim"
  BY <1>1 DEF GatewayInv, SweepOK, ClaimOverdue, SweepAt
<1>3. e \in Events
  <2>1. sweep.overdue \in SUBSET Events /\ sweep.overdue # {}
    BY <1>2 DEF SweepType, ClaimOverdue
  <2>2. QED
    BY <1>0, <1>1, <2>1, OldestIsMember DEF GatewayInv
<1>4. rows'[e].count = rows[e].count + 1 /\ Stored(e) /\ Stored(e)' /\ rows[e].count \in Nat
  <2>1. Claimable(e) /\ Claim(e)
    BY <1>0
  <2>2. rows[e].count \in Nat
    BY <1>1, <1>3, RowOf, StoreBounds DEF RowType
  <2>3. QED
    BY <1>1, <1>3, <2>1, <2>2, ClaimEffect DEF Claimable, Pending
<1>5. UNCHANGED <<streams, post, frames>>
  BY DEF ClaimOverdue, SweepAlone, ingest, client
<1>6. q.event = e /\ skipped.pc = "claim"
  <2>1. left.pc = "deliver" /\ skipped.pc = "claim"
    BY <1>2 DEF SweepType
  <2>2. q.event = e
    BY <1>2 DEF SweepType
  <2>3. QED
    BY <2>1, <2>2
<1>7. sweep' = q \/ sweep' = skipped
  BY <1>0, Zenon DEF ClaimOverdue
<1> HIDE DEF q, skipped
<1>8. \A f \in Events : /\ Outs(f)' = Outs(f) /\ Queued(f)' = Queued(f) /\ Claiming(f)' = Claiming(f)
                        /\ ~Sweeping(f) /\ (Sweeping(f)' => f = e)
  BY <1>2, <1>5, <1>6, <1>7 DEF Outs, Queued, Claiming, Sweeping, streams
<1>9. ASSUME NEW f \in Events \ {e} PROVE DeliveryOK(f)'
  <2>1. QuietFor(f)
    BY <1>5, <1>8, SubsetNoMore DEF QuietFor
  <2>2. QED
    BY <2>1, QuietKeeps
<1>10. Covered(e)'
  <2>1. Covered(e)
    BY <1>1, <1>3, <1>4 DEF DeliveryOK
  <2>2. Finite(e)' /\ InFlight(e)' = InFlight(e)
    BY <1>3, <1>5, <1>8, <2>1 DEF Covered, Finite, InFlight
  <2>3. Cardinality(Claiming(e)) \in Nat /\ InFlight(e) \in Nat
    BY <1>1, <1>3, <2>1, AccountTypes DEF Covered, Finite
  <2>4. Owed(e)' <= Owed(e) + 1
    BY <1>3, <1>8, <2>3 DEF Owed
  <2>5. QED
    BY <1>1, <1>3, <1>4, <2>1, <2>2, <2>3, <2>4, CoveredMoves
<1>11. DeliveryOK(e)'
  BY <1>4, <1>10 DEF DeliveryOK
<1>12. QED
  BY <1>9, <1>11 DEF DeliveryInv

\* A delivery adds at most one copy to each queue of the version, which has
\* at most MaxPerKey streams in the hub.
LEMMA DeliverQueues ==
  ASSUME GatewayInv, NEW e \in Events, NEW redelivery \in BOOLEAN, Deliver(e, redelivery),
         rows[e].version \in Versions
  PROVE  /\ \A f \in Events : Outs(f)' = Outs(f)
         /\ \A f \in Events \ {e} : Queued(f)' = Queued(f)
         /\ IsFiniteSet(Queued(e)) =>
              /\ IsFiniteSet(Queued(e)')
              /\ Cardinality(Queued(e)') <= Cardinality(Queued(e)) + MaxPerKey
<1> DEFINE key == OnKey(rows[e].version)
           copy == [event |-> e, redelivery |-> redelivery]
           added == {c \in Streams \X (Nat \ {0}) :
                       c[1] \in key /\ c[2] = Len(stream[c[1]].queue) + 1}
<1>1. ASSUME NEW s \in Streams
      PROVE  /\ stream[s].queue \in Seq(Copies)
             /\ stream'[s].out = stream[s].out
             /\ \/ stream'[s].queue = stream[s].queue
                \/ s \in key /\ stream'[s].queue = Append(stream[s].queue, copy)
  <2>1. stream[s] \in StreamType
    BY DEF GatewayInv, StreamsOK
  <2>2. \/ stream'[s] = stream[s]
        \/ s \in key /\ stream'[s] = [stream[s] EXCEPT !.queue = Append(stream[s].queue, copy)]
    BY DEF Deliver
  <2>3. QED
    BY <2>1, <2>2 DEF StreamType
<1> HIDE DEF key
<1>2. \A f \in Events : Outs(f)' = Outs(f)
  BY <1>1 DEF Outs
<1>3. ASSUME NEW s \in Streams, NEW i \in Nat \ {0}
      PROVE  /\ i \in 1..Len(stream[s].queue) =>
                  i \in 1..Len(stream'[s].queue) /\ stream'[s].queue[i] = stream[s].queue[i]
             /\ i \in 1..Len(stream'[s].queue) /\ i \notin 1..Len(stream[s].queue) =>
                  /\ s \in key /\ i = Len(stream[s].queue) + 1
                  /\ stream'[s].queue[i].event = e
  <2>1. CASE stream'[s].queue = stream[s].queue
    BY <2>1
  <2>2. CASE s \in key /\ stream'[s].queue = Append(stream[s].queue, copy)
    <3>1. stream[s].queue \in Seq(Copies) /\ copy \in Copies /\ Len(stream[s].queue) \in Nat
      BY <1>1, LenProperties DEF Copies
    <3>2. /\ Len(stream'[s].queue) = Len(stream[s].queue) + 1
          /\ stream'[s].queue[Len(stream[s].queue) + 1] = copy
          /\ \A j \in 1..Len(stream[s].queue) : stream'[s].queue[j] = stream[s].queue[j]
      BY <2>2, <3>1, AppendProperties
    <3>3. QED
      BY <2>2, <3>1, <3>2
  <2>3. QED
    BY <1>1, <2>1, <2>2
<1>4. ASSUME NEW f \in Events \ {e} PROVE Queued(f)' = Queued(f)
  <2>1. ASSUME NEW c \in Streams \X (Nat \ {0}) PROVE c \in Queued(f)' <=> c \in Queued(f)
    <3>1. c[1] \in Streams /\ c[2] \in Nat \ {0}
      OBVIOUS
    <3>2. QED
      BY <1>3, <3>1 DEF Queued
  <2>2. QED
    BY <2>1 DEF Queued
<1>5. Queued(e)' \subseteq Queued(e) \union added
  <2> SUFFICES ASSUME NEW c \in Queued(e)', c \notin Queued(e) PROVE c \in added
    OBVIOUS
  <2>1. c \in Streams \X (Nat \ {0}) /\ c[1] \in Streams /\ c[2] \in Nat \ {0}
    BY DEF Queued
  <2>2. c[2] \in 1..Len(stream'[c[1]].queue) /\ stream'[c[1]].queue[c[2]].event = e
    BY DEF Queued
  <2>3. c[2] \notin 1..Len(stream[c[1]].queue)
    BY <1>3, <2>1, <2>2 DEF Queued
  <2>4. QED
    BY <1>3, <2>1, <2>2, <2>3
<1>6. IsFiniteSet(added) /\ Cardinality(added) <= MaxPerKey
  <2> DEFINE g == [c \in added |-> c[1]]
  <2>1. IsFiniteSet(key) /\ Cardinality(key) \in Nat /\ Cardinality(key) <= MaxPerKey
    BY KeyFinite DEF key, GatewayInv, HubOK, HubConsistent
  <2>2. g \in [added -> key]
    OBVIOUS
  <2>3. ASSUME NEW c \in added, NEW d \in added, g[c] = g[d] PROVE c = d
    <3>1. c[1] = d[1] /\ c[2] = d[2]
      BY <2>3
    <3>2. QED
      BY <3>1
  <2>4. g \in Injection(added, key)
    BY <2>2, <2>3 DEF Injection, IsInjective
  <2>5. IsFiniteSet(added) /\ Cardinality(added) <= Cardinality(key)
    BY <2>1, <2>4, FS_Injection
  <2>6. QED
    BY <2>1, <2>5, FS_CardinalityType, GatewayAssumption
<1> HIDE DEF added
<1>7. ASSUME IsFiniteSet(Queued(e))
      PROVE  /\ IsFiniteSet(Queued(e)')
             /\ Cardinality(Queued(e)') <= Cardinality(Queued(e)) + MaxPerKey
  <2>1. /\ IsFiniteSet(Queued(e) \union added)
        /\ Cardinality(Queued(e) \union added) =
             Cardinality(Queued(e)) + Cardinality(added) - Cardinality(Queued(e) \intersect added)
    BY <1>6, <1>7, FS_Union
  <2>2. IsFiniteSet(Queued(e) \intersect added)
    BY <1>7, FS_Subset
  <2>3. /\ Cardinality(Queued(e) \intersect added) \in Nat /\ Cardinality(Queued(e)) \in Nat
        /\ Cardinality(added) \in Nat
    BY <1>6, <1>7, <2>2, FS_CardinalityType
  <2>4. /\ IsFiniteSet(Queued(e)')
        /\ Cardinality(Queued(e)') <= Cardinality(Queued(e) \union added)
    BY <1>5, <2>1, FS_Subset
  <2>5. Cardinality(Queued(e)') \in Nat
    BY <2>4, FS_CardinalityType
  <2>6. QED
    BY <1>6, <2>1, <2>3, <2>4, <2>5, GatewayAssumption
<1>8. QED
  BY <1>2, <1>4, <1>7

\* A delivery that was owed is made.
LEMMA DeliverCovers ==
  ASSUME DeliveryInv, VersionInv', [Next]_vars, NEW e \in Events, NEW redelivery \in BOOLEAN,
         Deliver(e, redelivery), UNCHANGED <<rows, frames>>,
         Claiming(e) # {} \/ Sweeping(e),
         \A f \in Events \ {e} : Claiming(f)' \subseteq Claiming(f) /\ (Sweeping(f)' => Sweeping(f)),
         \/ \E p \in Claiming(e) : Claiming(e)' \subseteq Claiming(e) \ {p} /\ (Sweeping(e)' => Sweeping(e))
         \/ Claiming(e)' \subseteq Claiming(e) /\ Sweeping(e) /\ ~Sweeping(e)'
  PROVE  DeliveryInv'
<1>1. GatewayInv /\ GatewayInv' /\ \A f \in Events : DeliveryOK(f)
  BY DeliveryParts
<1>2. Stored(e) /\ Stored(e)' /\ Covered(e)
  BY <1>1 DEF DeliveryOK, Stored
<1>3. rows[e].version \in Versions
  <2>1. rows[e].version # 0 /\ rows[e] \in RowType
    BY <1>1, <1>2, VersionNotZero, RowOf DEF DeliveryInv
  <2>2. QED
    BY <2>1 DEF RowType
<1>4. ASSUME NEW f \in Events \ {e} PROVE DeliveryOK(f)'
  <2>1. QuietFor(f)
    BY <1>1, <1>3, DeliverQueues, SubsetNoMore DEF QuietFor
  <2>2. QED
    BY <2>1, QuietKeeps
<1>5. /\ Outs(e)' = Outs(e) /\ IsFiniteSet(Queued(e)')
      /\ Cardinality(Queued(e)') <= Cardinality(Queued(e)) + MaxPerKey
  BY <1>1, <1>2, <1>3, DeliverQueues DEF Covered
<1>6. /\ frames[e] \in Nat /\ Cardinality(Outs(e)) \in Nat /\ Cardinality(Queued(e)) \in Nat
      /\ Cardinality(Claiming(e)) \in Nat /\ rows[e].count \in Nat
  BY <1>1, <1>2, AccountTypes DEF Covered, Finite
<1>7. InFlight(e)' <= InFlight(e) + MaxPerKey
  <2>1. Cardinality(Queued(e)') \in Nat
    BY <1>5, FS_CardinalityType
  <2>2. QED
    BY <1>5, <1>6, <2>1, GatewayAssumption DEF InFlight
<1>8. IsFiniteSet(Claiming(e)') /\ Owed(e)' + 1 <= Owed(e)
  <2>1. IsFiniteSet(Claiming(e))
    BY <1>2 DEF Covered
  <2>2. ASSUME NEW p \in Claiming(e), Claiming(e)' \subseteq Claiming(e) \ {p}, Sweeping(e)' => Sweeping(e)
        PROVE  IsFiniteSet(Claiming(e)') /\ Owed(e)' + 1 <= Owed(e)
    <3>1. IsFiniteSet(Claiming(e) \ {p}) /\ Cardinality(Claiming(e) \ {p}) = Cardinality(Claiming(e)) - 1
      BY <2>1, FS_RemoveElement
    <3>2. IsFiniteSet(Claiming(e)') /\ Cardinality(Claiming(e)') <= Cardinality(Claiming(e) \ {p})
      BY <2>2, <3>1, FS_Subset
    <3>3. Cardinality(Claiming(e)') \in Nat
      BY <3>2, FS_CardinalityType
    <3>4. QED
      BY <1>6, <2>2, <3>1, <3>2, <3>3 DEF Owed
  <2>3. CASE Claiming(e)' \subseteq Claiming(e) /\ Sweeping(e) /\ ~Sweeping(e)'
    <3>1. IsFiniteSet(Claiming(e)') /\ Cardinality(Claiming(e)') <= Cardinality(Claiming(e))
      BY <2>1, <2>3, FS_Subset
    <3>2. Cardinality(Claiming(e)') \in Nat
      BY <3>1, FS_CardinalityType
    <3>3. QED
      BY <1>6, <2>3, <3>1, <3>2 DEF Owed
  <2>4. QED
    BY <2>2, <2>3
<1>9. Covered(e)'
  <2>1. Finite(e)'
    BY <1>2, <1>5, <1>8 DEF Covered, Finite
  <2>2. QED
    BY <1>1, <1>2, <1>6, <1>7, <1>8, <2>1, CoveredMoves
<1>10. DeliveryOK(e)'
  BY <1>2, <1>9 DEF DeliveryOK
<1>11. QED
  BY <1>4, <1>10 DEF DeliveryInv

LEMMA DeliverLiveCovers ==
  ASSUME DeliveryInv, VersionInv', [Next]_vars, NEW p \in Posts, DeliverLive(p)
  PROVE  DeliveryInv'
<1>0. PICK e : e = post[p].event
  OBVIOUS
<1>1. GatewayInv
  BY DeliveryParts
<1>2. e \in Events /\ p \in Claiming(e)
  BY <1>0, <1>1 DEF DeliverLive, PostAt, GatewayInv, IngestOK, Claiming
<1>3. Deliver(e, FALSE) /\ UNCHANGED <<rows, sweep, frames>> /\ PostReturns(p)
  BY <1>0 DEF DeliverLive, db, client
<1>4. post'[p].pc # "deliver" /\ \A r \in Posts \ {p} : post'[r] = post[r]
  <2>1. post'[p] = IdlePost /\ \A r \in Posts \ {p} : post'[r] = post[r]
    BY <1>1, <1>3, OnlyPost DEF PostReturns
  <2>2. QED
    BY <2>1 DEF IdlePost
<1>5. \A f \in Events : Claiming(f)' \subseteq Claiming(f) \ {p} /\ (Sweeping(f)' => Sweeping(f))
  BY <1>3, <1>4 DEF Claiming, Sweeping
<1>6. QED
  BY <1>2, <1>3, <1>5, DeliverCovers

LEMMA DeliverOverdueCovers ==
  ASSUME DeliveryInv, VersionInv', [Next]_vars, DeliverOverdue
  PROVE  DeliveryInv'
<1>0. PICK e : e = sweep.event
  OBVIOUS
<1> DEFINE moved == [sweep EXCEPT !.pc = "claim"]
           q == [moved EXCEPT !.event = NoEvent]
<1>1. GatewayInv
  BY DeliveryParts
<1>2. sweep \in SweepType /\ e \in Events /\ Sweeping(e)
  BY <1>0, <1>1 DEF DeliverOverdue, SweepAt, GatewayInv, SweepOK, Sweeping
<1>3. Deliver(e, TRUE) /\ UNCHANGED <<rows, post, frames>> /\ sweep' = q
  <2>1. sweep' = q
    BY Zenon DEF DeliverOverdue
  <2> HIDE DEF q
  <2>2. QED
    BY <1>0, <2>1 DEF DeliverOverdue, SweepAlone, db, ingest, client
<1>4. q.pc = "claim"
  BY <1>2 DEF SweepType
<1> HIDE DEF q
<1>5. \A f \in Events : Claiming(f)' \subseteq Claiming(f) /\ ~Sweeping(f)'
  BY <1>3, <1>4 DEF Claiming, Sweeping
<1>6. QED
  BY <1>2, <1>3, <1>5, DeliverCovers

\* A frame of e is written, or it is held by one stream more that has just
\* claimed it; what else is held is not more than before.
LEMMA HeldCovers ==
  ASSUME DeliveryInv, VersionInv', [Next]_vars, NEW e \in Events, Covered(e), Stored(e)', Finite(e)',
         Claiming(e)' = Claiming(e), Sweeping(e)' <=> Sweeping(e),
         \/ InFlight(e)' <= InFlight(e) /\ rows[e].count <= rows'[e].count
         \/ InFlight(e)' <= InFlight(e) + 1 /\ rows[e].count + 1 <= rows'[e].count
  PROVE  DeliveryOK(e)'
<1>1. GatewayInv /\ GatewayInv'
  BY DeliveryParts
<1>2. Owed(e) \in Nat /\ Owed(e)' = Owed(e)
  BY <1>1, AccountTypes DEF Covered, Finite, Owed
<1>3. Covered(e)'
  BY <1>1, <1>2, CoveredMoves
<1>4. QED
  BY <1>3 DEF DeliveryOK

\* What the streams hold, of every event, when one of them changes.
LEMMA OneStreamHolds ==
  ASSUME GatewayInv, NEW s \in Streams, NEW q, stream' = [stream EXCEPT ![s] = q], NEW e \in Events
  PROVE  /\ q.out # e => Outs(e)' = Outs(e) \ {s}
         /\ q.out = e => Outs(e)' = Outs(e) \union {s}
         /\ q.queue = stream[s].queue => Queued(e)' = Queued(e)
<1>1. stream'[s] = q /\ \A t \in Streams \ {s} : stream'[t] = stream[t]
  BY OnlyStream
<1>2. q.out # e => Outs(e)' = Outs(e) \ {s}
  BY <1>1 DEF Outs
<1>3. q.out = e => Outs(e)' = Outs(e) \union {s}
  BY <1>1 DEF Outs
<1>4. ASSUME q.queue = stream[s].queue PROVE Queued(e)' = Queued(e)
  <2>1. \A t \in Streams : stream'[t].queue = stream[t].queue
    BY <1>1, <1>4
  <2>2. ASSUME NEW c \in Streams \X (Nat \ {0}) PROVE c \in Queued(e)' <=> c \in Queued(e)
    <3>1. c[1] \in Streams
      OBVIOUS
    <3>2. QED
      BY <2>1, <3>1 DEF Queued
  <2>3. QED
    BY <2>2 DEF Queued
<1>5. QED
  BY <1>2, <1>3, <1>4

LEMMA ClaimReplayCovers ==
  ASSUME DeliveryInv, VersionInv', [Next]_vars, NEW s \in Streams, ClaimReplay(s)
  PROVE  DeliveryInv'
<1>0. PICK e : e = Oldest(stream[s].replay)
  OBVIOUS
<1> DEFINE read == [stream[s] EXCEPT !.replay = @ \ {e}]
           q == [read EXCEPT !.out = e]
<1>1. GatewayInv /\ GatewayInv' /\ \A f \in Events : DeliveryOK(f)
  BY DeliveryParts
<1>2. stream[s] \in StreamType /\ stream[s].out = NoEvent
  BY <1>1 DEF GatewayInv, StreamsOK, ClaimReplay
<1>3. e \in Events /\ e # NoEvent
  <2>1. stream[s].replay \in SUBSET Events /\ stream[s].replay # {}
    BY <1>2 DEF StreamType, ClaimReplay
  <2>2. e \in Events
    BY <1>0, <1>1, <2>1, OldestIsMember DEF GatewayInv
  <2>3. QED
    BY <2>2, GatewayAssumption
<1>4. read.out = NoEvent /\ read.queue = stream[s].queue
  BY <1>2 DEF StreamType
<1>5. q.out = e /\ q.queue = stream[s].queue
  BY <1>2, <1>4 DEF StreamType
<1>6. UNCHANGED <<post, sweep, frames>>
  BY DEF ClaimReplay, StreamAlone, ingest, client
<1>7. \/ Claimable(e) /\ Claim(e) /\ stream' = [stream EXCEPT ![s] = q]
      \/ stream' = [stream EXCEPT ![s] = read] /\ UNCHANGED rows
  BY <1>0, Zenon DEF ClaimReplay
<1> HIDE DEF read, q
<1>8. \A f \in Events : Claiming(f)' = Claiming(f) /\ (Sweeping(f)' <=> Sweeping(f))
  BY <1>6 DEF Claiming, Sweeping
<1>9. CASE stream' = [stream EXCEPT ![s] = read] /\ UNCHANGED rows
  <2>1. StreamsShrink
    BY <1>1, <1>2, <1>4, <1>9, OneShrinks
  <2>2. QED
    BY <1>6, <2>1, QuietStepKeeps DEF QuietStep, PostsShrink, SweepShrinks
<1>10. CASE Claimable(e) /\ Claim(e) /\ stream' = [stream EXCEPT ![s] = q]
  <2>1. \A f \in Events : /\ f # e => Outs(f)' = Outs(f) \ {s}
                          /\ f = e => Outs(f)' = Outs(f) \union {s}
                          /\ Queued(f)' = Queued(f)
    BY <1>1, <1>5, <1>10, OneStreamHolds
  <2>2. ASSUME NEW f \in Events \ {e} PROVE DeliveryOK(f)'
    <3>1. QuietFor(f)
      BY <1>6, <1>8, <2>1, SubsetNoMore DEF QuietFor
    <3>2. QED
      BY <3>1, QuietKeeps
  <2>3. rows'[e].count = rows[e].count + 1 /\ Stored(e)' /\ Covered(e)
    BY <1>1, <1>3, <1>10, ClaimEffect DEF Claimable, Pending, DeliveryOK
  <2>4. /\ Finite(e)' /\ Cardinality(Outs(e)') <= Cardinality(Outs(e)) + 1
        /\ Cardinality(Outs(e)') \in Nat
    <3>1. IsFiniteSet(Outs(e)) /\ Cardinality(Outs(e)) \in Nat
      BY <2>3, FS_CardinalityType DEF Covered
    <3>2. IsFiniteSet(Outs(e)') /\ Cardinality(Outs(e)') <= Cardinality(Outs(e)) + 1
      <4>1. /\ IsFiniteSet(Outs(e) \union {s})
            /\ Cardinality(Outs(e) \union {s}) <= Cardinality(Outs(e)) + 1
        BY <3>1, FS_AddElement
      <4>2. Outs(e)' = Outs(e) \union {s}
        BY <1>3, <2>1
      <4>3. QED
        BY <4>1, <4>2
    <3>3. QED
      BY <1>3, <1>8, <2>1, <2>3, <3>2, FS_CardinalityType DEF Finite, Covered
  <2>5. /\ frames[e] \in Nat /\ Cardinality(Outs(e)) \in Nat /\ Cardinality(Queued(e)) \in Nat
        /\ rows[e].count \in Nat
    BY <1>1, <1>3, <2>3, AccountTypes DEF Covered, Finite
  <2>6. InFlight(e)' <= InFlight(e) + 1
    BY <1>3, <1>6, <2>1, <2>4, <2>5 DEF InFlight
  <2>7. DeliveryOK(e)'
    BY <1>3, <1>8, <2>3, <2>4, <2>5, <2>6, HeldCovers
  <2>8. QED
    BY <2>2, <2>7 DEF DeliveryInv
<1>11. QED
  BY <1>7, <1>9, <1>10

\* A copy leaves the head of a queue, and those behind it move up.
LEMMA TailQueues ==
  ASSUME GatewayInv, NEW s \in Streams, NEW q, stream' = [stream EXCEPT ![s] = q],
         stream[s].queue # <<>>, q.queue = Tail(stream[s].queue), NEW e \in Events
  PROVE  /\ NoMore(Queued(e)', Queued(e))
         /\ Head(stream[s].queue).event = e =>
              /\ Queued(e) # {}
              /\ IsFiniteSet(Queued(e)) => Cardinality(Queued(e)') + 1 <= Cardinality(Queued(e))
<1> DEFINE up(c) == IF c[1] = s THEN <<s, c[2] + 1>> ELSE c
           first == <<s, 1>>
           g == [c \in Queued(e)' |-> up(c)]
<1>1. stream'[s] = q /\ \A t \in Streams \ {s} : stream'[t] = stream[t]
  BY OnlyStream
<1>2. /\ stream[s].queue \in Seq(Copies) /\ Len(stream[s].queue) \in Nat /\ Len(stream[s].queue) > 0
      /\ Head(stream[s].queue) = stream[s].queue[1]
  <2>1. stream[s].queue \in Seq(Copies)
    BY DEF GatewayInv, StreamsOK, StreamType
  <2>2. QED
    BY <2>1, LenProperties, HeadTailProperties
<1>3. /\ Len(q.queue) = Len(stream[s].queue) - 1
      /\ \A i \in 1..Len(q.queue) : q.queue[i] = stream[s].queue[i + 1]
  BY <1>2, HeadTailProperties
<1>4. ASSUME NEW c \in Queued(e)' PROVE up(c) \in Queued(e) \ {first}
  <2>1. c \in Streams \X (Nat \ {0}) /\ c[1] \in Streams /\ c[2] \in Nat \ {0} /\ c = <<c[1], c[2]>>
    BY DEF Queued
  <2>2. c[2] \in 1..Len(stream'[c[1]].queue) /\ stream'[c[1]].queue[c[2]].event = e
    BY DEF Queued
  <2>3. CASE c[1] = s
    <3>1. c[2] + 1 \in 1..Len(stream[s].queue) /\ stream[s].queue[c[2] + 1].event = e
      <4>1. stream'[c[1]].queue = q.queue /\ c[1] = s
        BY <1>1, <2>3
      <4>2. c[2] \in 1..Len(q.queue) /\ q.queue[c[2]].event = e
        BY <2>2, <4>1
      <4>3. q.queue[c[2]] = stream[s].queue[c[2] + 1]
        BY <1>3, <4>2
      <4>4. c[2] + 1 \in 1..Len(stream[s].queue)
        BY <1>2, <1>3, <4>2
      <4>5. QED
        BY <4>2, <4>3, <4>4
    <3>2. up(c) = <<s, c[2] + 1>> /\ c[2] + 1 \in Nat \ {0} /\ c[2] + 1 # 1
      BY <2>1, <2>3
    <3>3. QED
      BY <3>1, <3>2 DEF Queued
  <2>4. CASE c[1] # s
    <3>1. stream'[c[1]] = stream[c[1]] /\ up(c) = c /\ c # first
      BY <1>1, <2>1, <2>4
    <3>2. QED
      BY <2>1, <2>2, <3>1 DEF Queued
  <2>5. QED
    BY <2>3, <2>4
<1>5. \A c \in Queued(e)' : c \in Streams \X Nat
  BY DEF Queued
<1> HIDE DEF first
<1>6. g \in Injection(Queued(e)', Queued(e) \ {first})
  <2>1. g \in [Queued(e)' -> Queued(e) \ {first}]
    BY <1>4
  <2>2. ASSUME NEW c \in Queued(e)', NEW d \in Queued(e)', g[c] = g[d] PROVE c = d
    <3>1. up(c) = up(d)
      BY <2>2
    <3>2. c = <<c[1], c[2]>> /\ d = <<d[1], d[2]>> /\ c[2] \in Nat /\ d[2] \in Nat
      BY <1>5
    <3>3. QED
      BY <3>1, <3>2
  <2>3. QED
    BY <2>1, <2>2 DEF Injection, IsInjective
<1> HIDE DEF g
<1>7. ASSUME IsFiniteSet(Queued(e))
      PROVE  /\ IsFiniteSet(Queued(e)')
             /\ Cardinality(Queued(e)') <= Cardinality(Queued(e))
             /\ first \in Queued(e) => Cardinality(Queued(e)') + 1 <= Cardinality(Queued(e))
  <2>1. /\ IsFiniteSet(Queued(e) \ {first})
        /\ Cardinality(Queued(e) \ {first}) =
             IF first \in Queued(e) THEN Cardinality(Queued(e)) - 1 ELSE Cardinality(Queued(e))
    BY <1>7, FS_RemoveElement
  <2>2. IsFiniteSet(Queued(e)') /\ Cardinality(Queued(e)') <= Cardinality(Queued(e) \ {first})
    BY <1>6, <2>1, FS_Injection
  <2>3. Cardinality(Queued(e)') \in Nat /\ Cardinality(Queued(e)) \in Nat
    BY <1>7, <2>2, FS_CardinalityType
  <2>4. QED
    BY <2>1, <2>2, <2>3
<1>8. Queued(e) = {} => Queued(e)' = {}
  BY <1>4
<1>9. Head(stream[s].queue).event = e => first \in Queued(e)
  BY <1>2 DEF Queued, first
<1>10. QED
  BY <1>7, <1>8, <1>9 DEF NoMore

\* An event that is not stored and of which a copy is held is gone, and what
\* is written of it is not accounted for.
LEMMA GoneCovers ==
  ASSUME DeliveryInv, [Next]_vars, NEW e \in Events, ~Stored(e), ~Stored(e)', ~Fresh(e),
         Claiming(e)' = Claiming(e), Sweeping(e)' <=> Sweeping(e)
  PROVE  DeliveryOK(e)'
<1>1. Gone(e)' /\ Claiming(e) = {} /\ ~Sweeping(e)
  BY GoneStays DEF DeliveryInv, DeliveryOK
<1>2. QED
  BY <1>1 DEF DeliveryOK

LEMMA SendReplayCovers ==
  ASSUME DeliveryInv, VersionInv', [Next]_vars, NEW s \in Streams, SendReplay(s)
  PROVE  DeliveryInv'
<1>0. PICK e : e = stream[s].out
  OBVIOUS
<1> DEFINE noted == [stream[s] EXCEPT !.delivered = @ \union {stream[s].out}]
           q == [noted EXCEPT !.out = NoEvent]
<1>1. GatewayInv /\ GatewayInv' /\ \A f \in Events : DeliveryOK(f)
  BY DeliveryParts
<1>2. stream[s] \in StreamType /\ e \in Events /\ s \in Outs(e)
  BY <1>0, <1>1 DEF GatewayInv, StreamsOK, StreamType, SendReplay, Outs
<1>3. q.out = NoEvent /\ q.queue = stream[s].queue
  <2>1. noted.queue = stream[s].queue
    BY <1>2 DEF StreamType
  <2>2. QED
    BY <1>2, <2>1 DEF StreamType
<1>4. stream' = [stream EXCEPT ![s] = q]
  BY Zenon DEF SendReplay
<1> HIDE DEF noted, q
<1>5. /\ UNCHANGED <<rows, post, sweep>>
      /\ \A f \in Events : frames'[f] = IF f = e THEN frames[f] + 1 ELSE frames[f]
  BY <1>0, <1>1 DEF SendReplay, Frame, StreamAlone, db, ingest, GatewayInv, ClientTypeOK
<1>6. \A f \in Events : /\ Outs(f)' = Outs(f) \ {s} /\ Queued(f)' = Queued(f)
                        /\ Claiming(f)' = Claiming(f) /\ (Sweeping(f)' <=> Sweeping(f))
                        /\ Stored(f)' <=> Stored(f)
  <2>1. \A f \in Events : f # NoEvent
    BY GatewayAssumption
  <2>2. \A f \in Events : Outs(f)' = Outs(f) \ {s} /\ Queued(f)' = Queued(f)
    BY <1>1, <1>3, <1>4, <2>1, OneStreamHolds
  <2>3. QED
    BY <1>5, <2>2 DEF Claiming, Sweeping, Stored
<1>7. ASSUME NEW f \in Events \ {e} PROVE DeliveryOK(f)'
  <2>1. QuietFor(f)
    BY <1>5, <1>6, SubsetNoMore DEF QuietFor
  <2>2. QED
    BY <2>1, QuietKeeps
<1>8. ASSUME Stored(e) PROVE DeliveryOK(e)'
  <2>1. Covered(e)
    BY <1>1, <1>2, <1>8 DEF DeliveryOK
  <2>2. /\ frames[e] \in Nat /\ Cardinality(Outs(e)) \in Nat /\ Cardinality(Queued(e)) \in Nat
        /\ rows[e].count \in Nat
    BY <1>1, <1>2, <2>1, AccountTypes DEF Covered, Finite
  <2>3. IsFiniteSet(Outs(e) \ {s}) /\ Cardinality(Outs(e) \ {s}) = Cardinality(Outs(e)) - 1
    BY <1>2, <2>1, FS_RemoveElement DEF Covered
  <2>4. Outs(e)' = Outs(e) \ {s} /\ frames'[e] = frames[e] + 1 /\ Queued(e)' = Queued(e)
    BY <1>2, <1>5, <1>6
  <2>5. Finite(e)' /\ InFlight(e)' = InFlight(e)
    BY <1>2, <1>6, <2>1, <2>2, <2>3, <2>4 DEF Finite, Covered, InFlight
  <2>6. InFlight(e) \in Nat
    BY <2>2 DEF InFlight
  <2>7. /\ Stored(e)' /\ Claiming(e)' = Claiming(e) /\ (Sweeping(e)' <=> Sweeping(e))
        /\ rows[e].count <= rows'[e].count /\ InFlight(e)' <= InFlight(e)
    BY <1>2, <1>5, <1>6, <1>8, <2>2, <2>5, <2>6
  <2>8. QED
    BY <1>2, <2>1, <2>5, <2>7, HeldCovers
<1>9. ASSUME ~Stored(e) PROVE DeliveryOK(e)'
  <2>1. ~Stored(e)' /\ Claiming(e)' = Claiming(e) /\ (Sweeping(e)' <=> Sweeping(e))
    BY <1>2, <1>6, <1>9
  <2>2. ~Fresh(e)
    BY <1>2 DEF Fresh
  <2>3. QED
    BY <1>2, <1>9, <2>1, <2>2, GoneCovers
<1>10. QED
  BY <1>7, <1>8, <1>9 DEF DeliveryInv

LEMMA SendQueuedCovers ==
  ASSUME DeliveryInv, VersionInv', [Next]_vars, NEW s \in Streams, SendQueued(s)
  PROVE  DeliveryInv'
<1>0. PICK e : e = Head(stream[s].queue).event
  OBVIOUS
<1> DEFINE taken == [stream[s] EXCEPT !.queue = Tail(@)]
           noted == [taken EXCEPT !.delivered = @ \union {Head(stream[s].queue).event}]
<1>1. GatewayInv /\ GatewayInv' /\ \A f \in Events : DeliveryOK(f)
  BY DeliveryParts
<1>2. stream[s] \in StreamType /\ e \in Events /\ stream[s].out = NoEvent /\ stream[s].queue # <<>>
  <2>1. stream[s] \in StreamType /\ stream[s].out = NoEvent /\ stream[s].queue # <<>>
    BY <1>1 DEF GatewayInv, StreamsOK, SendQueued, Looping
  <2>2. stream[s].queue \in Seq(Copies)
    BY <2>1 DEF StreamType
  <2>3. Head(stream[s].queue) \in Copies
    BY <2>1, <2>2, HeadTailProperties
  <2>4. QED
    BY <1>0, <2>1, <2>3 DEF Copies
<1>3. taken.out = NoEvent /\ taken.queue = Tail(stream[s].queue)
  BY <1>2 DEF StreamType
<1>4. noted.out = NoEvent /\ noted.queue = Tail(stream[s].queue)
  BY <1>2, <1>3 DEF StreamType
<1>5. \/ stream' = [stream EXCEPT ![s] = taken] /\ UNCHANGED client
      \/ stream' = [stream EXCEPT ![s] = noted] /\ Frame(s, Head(stream[s].queue).event)
  BY Zenon DEF SendQueued
<1>6. PICK q : stream' = [stream EXCEPT ![s] = q] /\ q.out = NoEvent /\ q.queue = Tail(stream[s].queue)
  <2> HIDE DEF taken, noted
  <2>1. QED
    BY <1>3, <1>4, <1>5
<1> HIDE DEF taken, noted
<1>7. UNCHANGED <<rows, post, sweep>>
  BY DEF SendQueued, StreamAlone, db, ingest
<1>8. \A f \in Events : frames'[f] = frames[f] \/ (f = e /\ frames'[f] = frames[f] + 1)
  BY <1>0, <1>1, <1>5 DEF Frame, client, GatewayInv, ClientTypeOK
<1>9. \A f \in Events : /\ Outs(f)' = Outs(f)
                        /\ Claiming(f)' = Claiming(f) /\ (Sweeping(f)' <=> Sweeping(f))
                        /\ Stored(f)' <=> Stored(f)
  <2>1. \A f \in Events : f # NoEvent /\ s \notin Outs(f)
    BY <1>2, GatewayAssumption DEF Outs
  <2>2. \A f \in Events : Outs(f)' = Outs(f) \ {s}
    BY <1>1, <1>6, <2>1, OneStreamHolds
  <2>3. QED
    BY <1>7, <2>1, <2>2 DEF Claiming, Sweeping, Stored
<1>10. \A f \in Events :
         /\ NoMore(Queued(f)', Queued(f))
         /\ f = e => /\ Queued(f) # {}
                     /\ IsFiniteSet(Queued(f)) => Cardinality(Queued(f)') + 1 <= Cardinality(Queued(f))
  BY <1>0, <1>1, <1>2, <1>6, TailQueues
<1>11. ASSUME NEW f \in Events \ {e} PROVE DeliveryOK(f)'
  <2>1. QuietFor(f)
    BY <1>8, <1>9, <1>10 DEF QuietFor
  <2>2. QED
    BY <2>1, QuietKeeps
<1>12. ASSUME Stored(e) PROVE DeliveryOK(e)'
  <2>1. Covered(e)
    BY <1>1, <1>2, <1>12 DEF DeliveryOK
  <2>2. /\ frames[e] \in Nat /\ Cardinality(Outs(e)) \in Nat /\ Cardinality(Queued(e)) \in Nat
        /\ rows[e].count \in Nat
    BY <1>1, <1>2, <2>1, AccountTypes DEF Covered, Finite
  <2>3. IsFiniteSet(Queued(e)') /\ Cardinality(Queued(e)') + 1 <= Cardinality(Queued(e))
    BY <1>2, <1>10, <2>1 DEF NoMore, Covered
  <2>4. Cardinality(Queued(e)') \in Nat
    BY <2>3, FS_CardinalityType
  <2>5. Finite(e)'
    BY <1>2, <1>9, <2>1, <2>3 DEF Finite, Covered
  <2>6. InFlight(e)' <= InFlight(e)
    BY <1>2, <1>8, <1>9, <2>2, <2>3, <2>4 DEF InFlight
  <2>7. /\ Stored(e)' /\ Claiming(e)' = Claiming(e) /\ (Sweeping(e)' <=> Sweeping(e))
        /\ rows[e].count <= rows'[e].count
    BY <1>2, <1>7, <1>9, <1>12, <2>2
  <2>8. QED
    BY <1>2, <2>1, <2>5, <2>6, <2>7, HeldCovers
<1>13. ASSUME ~Stored(e) PROVE DeliveryOK(e)'
  <2>1. ~Stored(e)' /\ Claiming(e)' = Claiming(e) /\ (Sweeping(e)' <=> Sweeping(e))
    BY <1>2, <1>9, <1>13
  <2>2. ~Fresh(e)
    BY <1>2, <1>10 DEF Fresh
  <2>3. QED
    BY <1>2, <1>13, <2>1, <2>2, GoneCovers
<1>14. QED
  BY <1>11, <1>12, <1>13 DEF DeliveryInv

LEMMA DeliveryInductive == DeliveryInv /\ [Next]_vars => DeliveryInv'
<1> SUFFICES ASSUME DeliveryInv, [Next]_vars PROVE DeliveryInv'
  OBVIOUS
<1>1. VersionInv /\ VersionInv' /\ GatewayInv
  BY VersionInductive DEF DeliveryInv, VersionInv, PolicyInv
<1>2. CASE \E p \in Posts : ClaimsLive(p)
  BY <1>1, <1>2, ClaimLiveCovers
<1>3. CASE (\E p \in Posts : DeliverLive(p)) \/ DeliverOverdue
  BY <1>1, <1>3, DeliverLiveCovers, DeliverOverdueCovers
<1>4. CASE \E s \in Streams : ClaimReplay(s) \/ SendReplay(s) \/ SendQueued(s)
  BY <1>1, <1>4, ClaimReplayCovers, SendReplayCovers, SendQueuedCovers
<1>5. CASE ClaimOverdue /\ Claimable(Oldest(sweep.overdue)) /\ Claim(Oldest(sweep.overdue))
  BY <1>1, <1>5, ClaimOverdueCovers
<1>6. CASE QuietStep
  BY <1>1, <1>6, QuietStepKeeps
<1>7. CASE \E p \in Posts : Ingest(p) \/ LoseInsert(p) \/ PostFails(p) \/ \E e \in Events : Receive(p, e)
  BY <1>1, <1>2, <1>3, <1>6, <1>7, IngestStepHolds, IngestQuiet
<1>8. CASE \E s \in Streams : Serve(s) \/ ReplayFails(s) \/ Disconnect(s)
                              \/ \E v \in Versions : Authenticate(s, v)
  BY <1>1, <1>4, <1>6, <1>8, StreamsQuiet DEF Serve
<1>9. CASE Sweep \/ SweepFails
  BY <1>1, <1>3, <1>5, <1>6, <1>9, SweepQuiet
<1>10. CASE \E a \in Requests : ApiStep(a)
  BY <1>1, <1>6, <1>10, ApiQuiet
<1>11. CASE \/ Expire \/ Shutdown \/ Restart \/ CrashApi \/ Tick \/ CollectGarbage \/ UNCHANGED vars
            \/ \E e \in Events : ValidateAck(e) \/ AckEvent(e)
  BY <1>1, <1>6, <1>11, ProcessQuiet
<1>12. QED
  BY <1>7, <1>8, <1>9, <1>10, <1>11, StepKinds DEF OtherStep

LEMMA DeliveryInit == Init => DeliveryInv
<1> SUFFICES ASSUME Init PROVE DeliveryInv
  OBVIOUS
<1>1. VersionInv
  BY VersionInit
<1>2. ASSUME NEW e \in Events PROVE DeliveryOK(e)
  <2>1. Claiming(e) = {} /\ ~Sweeping(e) /\ ~Stored(e)
    BY DEF Init, StoreInit, Claiming, Sweeping, Stored, IdlePost, IdleSweep
  <2>2. Outs(e) = {}
    BY GatewayAssumption DEF Init, Outs, IdleStream
  <2>3. Queued(e) = {}
    BY DEF Init, Queued, IdleStream
  <2>4. frames[e] = 0
    BY DEF Init
  <2>5. QED
    BY <2>1, <2>2, <2>3, <2>4 DEF DeliveryOK, Fresh
<1>3. QED
  BY <1>1, <1>2 DEF DeliveryInv

--------------------------------------------------------------------------------
(* Each step is one of EventDelivery: settling no event changes nothing *)

FrameOf(e) == UNCHANGED rows /\ frames' = [frames EXCEPT ![e] = @ + 1]

LEMMA SendFrames ==
  ASSUME GatewayInv, NEW s \in Streams, SendReplay(s) \/ SendQueued(s)
  PROVE  UNCHANGED frames \/ \E e \in Events : FrameOf(e)
<1>1. stream[s] \in StreamType
  BY DEF GatewayInv, StreamsOK
<1>2. CASE SendReplay(s)
  <2>1. stream[s].out \in Events /\ FrameOf(stream[s].out)
    BY <1>1, <1>2 DEF SendReplay, StreamType, Frame, FrameOf, db
  <2>2. QED
    BY <2>1
<1>3. CASE SendQueued(s)
  <2>1. stream[s].queue \in Seq(Copies) /\ stream[s].queue # <<>>
    BY <1>1, <1>3 DEF StreamType, SendQueued
  <2>2. Head(stream[s].queue) \in Copies
    BY <2>1, HeadTailProperties
  <2>3. Head(stream[s].queue).event \in Events
    BY <2>2 DEF Copies
  <2>4. UNCHANGED frames \/ FrameOf(Head(stream[s].queue).event)
    BY <1>3 DEF SendQueued, client, Frame, FrameOf, db
  <2>5. QED
    BY <2>3, <2>4
<1>4. QED
  BY <1>2, <1>3

LEMMA FrameSteps ==
  ASSUME GatewayInv, [Next]_vars
  PROVE  UNCHANGED frames \/ \E e \in Events : FrameOf(e)
<1>1. CASE \E p \in Posts : Ingest(p) \/ LoseInsert(p) \/ PostFails(p) \/ \E e \in Events : Receive(p, e)
  BY <1>1 DEF Ingest, BeginInsert, CommitInsert, ApplyLatest, FindOverflow, TrimOverflow, ClaimLive,
              DeliverLive, LoseInsert, PostFails, Receive, PostAlone, client
<1>2. CASE \E s \in Streams : \/ Register(s) \/ LoadReplay(s) \/ ClaimReplay(s) \/ SeeClosed(s)
                              \/ ReplayFails(s) \/ Disconnect(s) \/ \E v \in Versions : Authenticate(s, v)
  BY <1>2 DEF Register, LoadReplay, ClaimReplay, SeeClosed, ReplayFails, Disconnect, Authenticate, client
<1>3. CASE Sweep \/ SweepFails \/ CollectGarbage
  BY <1>3 DEF Sweep, BeginSweep, CheckSubscription, CloseStale, StaleClosed, SupersedeExhausted,
              ReadOverdue, ClaimOverdue, DeliverOverdue, EndSweep, SweepFails, CollectGarbage,
              SweepAlone, client
<1>4. CASE \E a \in Requests : ApiStep(a)
  BY <1>4 DEF ApiStep, BeginUpdate, BeginCancel, Handle, CreateRow, SyncMonitor, SaveSubscription,
              UndoCreate, DeleteMonitor, CancelRow, RetireEvents, CloseStreams, ApiFails, ApiAlone, client
<1>5. CASE \/ Expire \/ Shutdown \/ Restart \/ CrashApi \/ Tick \/ UNCHANGED vars
           \/ \E e \in Events : ValidateAck(e) \/ AckEvent(e)
  BY <1>5 DEF Expire, Shutdown, Restart, CrashApi, Tick, ValidateAck, AckEvent, vars, client
<1>6. QED
  BY <1>1, <1>2, <1>3, <1>4, <1>5, SendFrames, StepKinds DEF OtherStep, Serve

LEMMA SettleMaps ==
  ASSUME NEW S \in SUBSET Events, \A e \in S : Pending(e), UNCHANGED frames,
         \A e \in Events : /\ Stored(e)' <=> Stored(e)
                           /\ rows'[e].count = rows[e].count
                           /\ Pending(e)' <=> Pending(e) /\ e \notin S
  PROVE  Delivery!Next
<1>1. \A e \in S : e \in Events /\ Stored(e) /\ Status(e) = "pending"
  BY DEF Pending, Status
<1>2. ASSUME NEW e \in Events PROVE Status(e)' = IF e \in S THEN "settled" ELSE Status(e)
  BY <1>1 DEF Status
<1>3. Delivery!Settle(S)
  BY <1>1, <1>2 DEF Delivery!Settle
<1>4. QED
  BY <1>3 DEF Delivery!Next

LEMMA ClaimMaps ==
  ASSUME DeliveryInv, NEW e \in Events, Claimable(e), Claim(e), UNCHANGED frames
  PROVE  Delivery!Next
<1>1. GatewayInv
  BY DEF DeliveryInv, VersionInv, PolicyInv
<1>2. ASSUME NEW f \in Events
      PROVE  /\ Status(f)' = Status(f)
             /\ Stored(f)' <=> Stored(f)
             /\ rows'[f].count = IF f = e THEN rows[e].count + 1 ELSE rows[f].count
  BY <1>1, ClaimEffect DEF Status, Held
<1>3. Status(e) = "pending" /\ rows[e].count < MaxDeliveries
  BY DEF Claimable, Pending, Status
<1>4. Delivery!Claim(e)
  BY <1>2, <1>3 DEF Delivery!Claim
<1>5. QED
  BY <1>4 DEF Delivery!Next

LEMMA AcceptMaps ==
  ASSUME DeliveryInv, NEW p \in Posts, InsertRow(p), UNCHANGED frames
  PROVE  Delivery!Next
<1>0. PICK e : e = post[p].event
  OBVIOUS
<1>1. GatewayInv /\ e \in Events /\ versionOf[post[p].event] # 0
  <2>1. VersionInv /\ (\A v : Known(v) => v # 0)
    BY VersionNotZero DEF DeliveryInv
  <2>2. GatewayInv /\ Known(versionOf[post[p].event])
    BY <2>1 DEF VersionInv, PolicyInv, VersionsOK, InsertRow
  <2>3. e \in Events
    BY <1>0, <2>2 DEF GatewayInv, IngestOK, InsertRow
  <2>4. QED
    BY <2>1, <2>2, <2>3
<1>2. frames[e] = 0 /\ ~Stored(e)
  BY <1>0, <1>1 DEF DeliveryInv, DeliveryOK, Gone, Fresh, InsertRow
<1>3. ASSUME NEW f \in Events \ {e}
      PROVE  /\ Status(f)' = Status(f) /\ (Stored(f)' <=> Stored(f))
             /\ rows'[f].count = rows[f].count
  BY <1>0, <1>1, InsertEffect DEF Status, Held
<1>4. Status(e)' = "pending" /\ rows'[e].count = 0 /\ Stored(e)' /\ Status(e) = "absent" /\ rows[e].count = 0
  BY <1>0, <1>1, <1>2, InsertEffect DEF Status, Stored, NoRow
<1>5. \A f \in Events : (IF Stored(f) THEN frames[f] ELSE 0)' = IF Stored(f) THEN frames[f] ELSE 0
  BY <1>2, <1>3, <1>4
<1>6. Delivery!Accept(e)
  BY <1>1, <1>3, <1>4, <1>5 DEF Delivery!Accept
<1>7. QED
  BY <1>1, <1>6 DEF Delivery!Next

LEMMA ForgetMaps ==
  ASSUME CollectGarbage
  PROVE  Delivery!Next
<1>1. PICK v \in Versions : DeleteExpired({f \in Events : Stored(f) /\ rows[f].version = v})
  BY DEF CollectGarbage
<1> DEFINE expired == {f \in Events : Stored(f) /\ rows[f].version = v}
<1>2. PICK S : S = expired
  OBVIOUS
<1>3. S \in SUBSET Events /\ UNCHANGED frames
  BY <1>2 DEF CollectGarbage, SweepAlone, client
<1>4. \A e \in Events : rows'[e] = IF e \in S THEN NoRow ELSE rows[e]
  BY <1>1, <1>2 DEF DeleteExpired
<1> HIDE DEF expired
<1>5. ASSUME NEW e \in Events
      PROVE  /\ Status(e)' = IF e \in S THEN "absent" ELSE Status(e)
             /\ rows'[e].count = IF e \in S THEN 0 ELSE rows[e].count
             /\ Stored(e)' <=> Stored(e) /\ e \notin S
  BY <1>4 DEF Status, Stored, Pending, NoRow
<1>6. Delivery!Forget(S)
  BY <1>3, <1>5 DEF Delivery!Forget
<1>7. QED
  BY <1>3, <1>6 DEF Delivery!Next

LEMMA SendMaps ==
  ASSUME DeliveryInv, DeliveryInv', NEW e \in Events, FrameOf(e)
  PROVE  Delivery!Next
<1>1. GatewayInv /\ GatewayInv'
  BY DEF DeliveryInv, VersionInv, PolicyInv
<1>2. \A f \in Events : /\ Stored(f)' <=> Stored(f)
                        /\ Status(f)' = Status(f) /\ rows'[f].count = rows[f].count
                        /\ Pending(f)' <=> Pending(f)
                        /\ frames'[f] = IF f = e THEN frames[e] + 1 ELSE frames[f]
  BY <1>1 DEF FrameOf, GatewayInv, ClientTypeOK, Stored, Status, Pending
<1>3. CASE Stored(e)
  <2>1. Covered(e)'
    BY <1>2, <1>3 DEF DeliveryInv, DeliveryOK
  <2>2. frames'[e] <= rows'[e].count * MaxPerKey
    <3>1. /\ frames'[e] \in Nat /\ Cardinality(Outs(e)') \in Nat /\ Cardinality(Queued(e)') \in Nat
          /\ rows'[e].count \in Nat /\ Cardinality(Claiming(e)') \in Nat
      <4>1. rows'[e] \in RowType /\ frames'[e] \in Nat
        BY <1>1 DEF GatewayInv, StoreTypeOK, ClientTypeOK
      <4>2. rows'[e].count \in Nat
        BY <4>1, StoreBounds DEF RowType
      <4>3. QED
        BY <2>1, <4>1, <4>2, FS_CardinalityType DEF Covered
    <3>2. Owed(e)' \in Nat /\ InFlight(e)' \in Nat /\ frames'[e] <= InFlight(e)'
      BY <3>1 DEF Owed, InFlight
    <3>3. PICK a \in Nat, b \in Nat, c \in Nat : a = Owed(e)' /\ b = InFlight(e)' /\ c = rows'[e].count
      BY <3>1, <3>2
    <3>4. a * MaxPerKey \in Nat /\ c * MaxPerKey \in Nat
      BY <3>3, Times, GatewayAssumption
    <3>5. b + a * MaxPerKey <= c * MaxPerKey
      BY <2>1, <3>3 DEF Covered
    <3>6. QED
      BY <3>1, <3>2, <3>3, <3>4, <3>5
  <2>3. frames[e] \in Nat /\ rows[e].count * MaxPerKey \in Nat
    <3>1. frames[e] \in Nat /\ rows[e].count \in Nat
      BY <1>1, StoreBounds DEF GatewayInv, StoreTypeOK, ClientTypeOK, RowType
    <3>2. QED
      BY <3>1, Times, GatewayAssumption
  <2>4. frames[e] < rows[e].count * MaxPerKey
    BY <1>2, <2>2, <2>3
  <2>5. Delivery!Send(e)
    BY <1>2, <1>3, <2>4 DEF Delivery!Send
  <2>6. QED
    BY <2>5 DEF Delivery!Next
<1>4. CASE ~Stored(e)
  <2>1. \A f \in Events : (IF Stored(f) THEN frames[f] ELSE 0)' = IF Stored(f) THEN frames[f] ELSE 0
    BY <1>2, <1>4
  <2>2. \A f \in Events : Status(f)' = IF f \in {} THEN "settled" ELSE Status(f)
    BY <1>2
  <2>3. Delivery!Settle({})
    BY <1>2, <2>1, <2>2 DEF Delivery!Settle
  <2>4. QED
    BY <2>3 DEF Delivery!Next
<1>5. QED
  BY <1>3, <1>4

LEMMA StepMaps ==
  ASSUME DeliveryInv, DeliveryInv', [Next]_vars
  PROVE  Delivery!Next
<1>1. VersionInv /\ GatewayInv
  BY DEF DeliveryInv, VersionInv, PolicyInv
<1>2. CASE \E e \in Events : FrameOf(e)
  BY <1>2, SendMaps
<1>3. CASE UNCHANGED frames
  <2>1. \A e \in Events : Stored(e) => rows[e].version # 0
    BY <1>1, VersionNotZero
  <2>2. ASSUME NEW S \in SUBSET Events, NEW why \in Reasons \ {"no"}, Supersede(S, why)
        PROVE  Delivery!Next
    <3>1. PICK D : D = {e \in S : Pending(e)}
      OBVIOUS
    <3>2. \A e \in Events : Held(e) /\ (Pending(e)' <=> Pending(e) /\ e \notin D)
      BY <1>1, <2>1, <2>2, <3>1, SupersedeEffect
    <3>3. QED
      BY <1>3, <3>1, <3>2, SettleMaps DEF Held
  <2>3. CASE \E a \in Requests : RetireEvents(a)
    <3>1. PICK S \in SUBSET Events, why \in Reasons \ {"no"} : Supersede(S, why)
      BY <2>3 DEF RetireEvents, NotKept, Reasons
    <3>2. QED
      BY <2>2, <3>1
  <2>4. CASE \E S \in SUBSET Events, why \in PolicyReasons : Supersede(S, why)
    BY <2>2, <2>4 DEF PolicyReasons, Reasons
  <2>5. ASSUME NEW f \in Events, AckEvent(f) PROVE Delivery!Next
    <3>1. Stored(f)
      BY <1>1, <2>5 DEF AckEvent, VersionInv, VersionsOK
    <3>2. PICK D : D = {e \in {f} : Pending(e)}
      OBVIOUS
    <3>3. \A e \in Events : Held(e) /\ (Pending(e)' <=> Pending(e) /\ e \notin D)
      BY <1>1, <2>5, <3>1, <3>2, AckEffect
    <3>4. QED
      BY <1>3, <3>2, <3>3, SettleMaps DEF Held
  <2>6. CASE UNCHANGED rows \/ rows' = Aged
    <3>1. \A e \in Events : Held(e) /\ (Pending(e)' <=> Pending(e))
      BY <1>1, <2>1, <2>6, TickEffect DEF Held, Stored, Pending
    <3>2. PICK D : D = {}
      OBVIOUS
    <3>3. QED
      BY <1>3, <3>1, <3>2, SettleMaps DEF Held
  <2>7. QED
    BY <1>1, <1>3, <2>3, <2>4, <2>5, <2>6, RowSteps, ClaimMaps, AcceptMaps, ForgetMaps DEF RowStep
<1>4. QED
  BY <1>1, <1>2, <1>3, FrameSteps

LEMMA InitMaps == Init => Delivery!Init
<1> SUFFICES ASSUME Init PROVE Delivery!Init
  OBVIOUS
<1>1. \A e \in Events : rows[e] = NoRow /\ ~Stored(e) /\ rows[e].count = 0
  BY DEF Init, StoreInit, Stored, NoRow
<1>2. QED
  BY <1>1 DEF Delivery!Init, Status

\* Every claim is counted before anything is sent, and a claim is of a pending
\* event and at most MaxDeliveries to an event: no interleaving of ingests,
\* sweeps, replays, evictions, restarts, acknowledgements and replacements
\* writes more frames of an event than its claims cover, or makes a settled
\* event pending again.
THEOREM DeliveryImplements == Spec => EventsDelivered
<1>1. Init => DeliveryInv /\ Delivery!Init
  BY DeliveryInit, InitMaps
<1>2. DeliveryInv /\ [Next]_vars => DeliveryInv'
  BY DeliveryInductive
<1>3. DeliveryInv /\ DeliveryInv' /\ [Next]_vars => Delivery!Next
  BY StepMaps
<1>4. QED
  BY <1>1, <1>2, <1>3, PTL DEF Spec, EventsDelivered, Delivery!Spec

\* In numbers: as long as its row is stored, an event is written to clients at
\* most MaxDeliveries times MaxConnsPerSubscription times.
THEOREM FramesBounded == Spec => [](\A e \in Events : Stored(e) => frames[e] <= MaxDeliveries * MaxPerKey)
<1>1. DeliveryInv => \A e \in Events : Stored(e) => frames[e] <= MaxDeliveries * MaxPerKey
  <2> SUFFICES ASSUME DeliveryInv, NEW e \in Events, Stored(e)
               PROVE  frames[e] <= MaxDeliveries * MaxPerKey
    OBVIOUS
  <2>1. Covered(e) /\ GatewayInv
    BY DEF DeliveryInv, DeliveryOK, VersionInv, PolicyInv
  <2>2. /\ frames[e] \in Nat /\ Cardinality(Outs(e)) \in Nat /\ Cardinality(Queued(e)) \in Nat
        /\ Owed(e) \in Nat
    BY <2>1, AccountTypes, FS_CardinalityType DEF Covered, Finite, Owed
  <2>3. rows[e].count \in Nat /\ rows[e].count <= MaxDeliveries /\ MaxDeliveries \in Nat
    BY <2>1, StoreBounds, StoreAssumption DEF GatewayInv, StoreTypeOK, RowType
  <2>4. PICK c \in Nat, u \in Nat : c = rows[e].count /\ u = Owed(e)
    BY <2>2, <2>3
  <2>5. /\ u * MaxPerKey \in Nat /\ c * MaxPerKey \in Nat /\ MaxDeliveries * MaxPerKey \in Nat
        /\ c * MaxPerKey <= MaxDeliveries * MaxPerKey
    BY <2>3, <2>4, Times, GatewayAssumption
  <2>6. InFlight(e) + u * MaxPerKey <= c * MaxPerKey
    BY <2>1, <2>4 DEF Covered
  <2>7. QED
    BY <2>2, <2>5, <2>6 DEF InFlight
<1>2. QED
  BY <1>1, DeliveryInit, DeliveryInductive, PTL DEF Spec
====
