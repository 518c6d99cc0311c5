---------------------------- MODULE ElectionRedis ----------------------------
(***************************************************************************)
(* The Redis side of the multi-bot response election: the four keys one    *)
(* command identity uses and the five Lua scripts that change them         *)
(* (api/bot/pjsk/response_election.go).  Redis runs a script atomically,   *)
(* so each script is one action; the status it returns is a parameter of   *)
(* the action, which the coordinator quantifies over.                      *)
(*                                                                         *)
(* A request stands for its own random admission token.  Redis time is     *)
(* the integer now; an expiry is the first instant at which the key is     *)
(* gone.  sha1(seed|bot) is abstracted to an arbitrary candidate.          *)
(***************************************************************************)
EXTENDS Naturals, FiniteSets

CONSTANTS
  Reqs,          \* deliveries of the command, one per bot that observed it
  Bots,          \* bot identities, the fields of the candidates hash
  BotOf,         \* the bot each delivery belongs to
  EventTime,     \* its sanitized platform timestamp, 0 when absent
  NoReq,         \* an absent field
  Window,        \* the join window
  ClaimTTL,      \* responseElectionWinnerClaim
  RateTTL,       \* rateLimitTTL, also the grace and the short retention
  ReadyTTL,      \* readyTTL(), from publication
  CompletedTTL,  \* responseElectionCompletedTTL
  StateTTL,      \* inFlightTTL(), from creation
  MaxTime        \* bound: the clock stops here

ASSUME ReqsAssumption == NoReq \notin Reqs
ASSUME BotsAssumption == BotOf \in [Reqs -> Bots]
ASSUME EventTimeAssumption == EventTime \in [Reqs -> Nat]
ASSUME TimesAssumption ==
  /\ {Window, MaxTime} \subseteq Nat
  /\ {ClaimTTL, RateTTL, ReadyTTL, CompletedTTL, StateTTL} \subseteq Nat \ {0}

VARIABLES
  now,            \* Redis TIME
  state,          \* KEYS[1], the election hash
  candidates,     \* KEYS[2], the hash bot -> token
  candidatesTTL,  \* when KEYS[2] expires, 0 while it has no expiry
  rate,           \* KEYS[3], expiry of the user's cooldown, 0 when absent
  lock            \* KEYS[4], the dedup lock shared with RequestGuard

store == <<state, candidates, candidatesTTL, rate, lock>>

Tokens == Reqs \union {NoReq}

Absent ==
  [owner |-> NoReq, eventTime |-> 0, deadline |-> 0, ready |-> FALSE,
   force |-> FALSE, closed |-> FALSE, closedAt |-> 0, consumedBy |-> NoReq,
   winner |-> NoReq, claimDeadline |-> 0, expires |-> 0]

NoLock == [holder |-> NoReq, expires |-> 0]
NoCandidates == [b \in Bots |-> NoReq]

StateType ==
  [owner : Tokens, eventTime : Nat, deadline : Nat, ready : BOOLEAN,
   force : BOOLEAN, closed : BOOLEAN, closedAt : Nat, consumedBy : Tokens,
   winner : Tokens, claimDeadline : Nat, expires : Nat]

StoreTypeOK ==
  /\ now \in Nat
  /\ state \in StateType
  /\ candidates \in [Bots -> Tokens]
  /\ candidatesTTL \in Nat
  /\ rate \in Nat
  /\ lock \in [holder : Tokens, expires : Nat]

StoreInit ==
  /\ now = 0
  /\ state = Absent
  /\ candidates = NoCandidates
  /\ candidatesTTL = 0
  /\ rate = 0
  /\ lock = NoLock

Exists == state.owner # NoReq
RateLimited == now < rate
LockHeld == lock.holder # NoReq

(***************************************************************************)
(* PEXPIRE and HDEL on the candidates hash.  Redis deletes a hash with its *)
(* last field, and its expiry with it; PEXPIRE on a missing key does       *)
(* nothing.                                                                *)
(***************************************************************************)
HashTTL(hash, ttl) == IF hash = NoCandidates THEN 0 ELSE ttl
Without(hash, b) == [hash EXCEPT ![b] = NoReq]

(***************************************************************************)
(* joinResponseElectionScript                                              *)
(***************************************************************************)
\* Mutant: a delivery of the same event counts as a newer one.
SameOrNewer(r) ==
  IF EventTime[r] > 0 /\ state.eventTime > 0
  THEN EventTime[r] >= state.eventTime
  ELSE now - state.closedAt >= RateTTL
\* Whether a delivery may replace the closed election it finds.
NewGeneration(r) ==
  IF EventTime[r] > 0 /\ state.eventTime > 0
  THEN EventTime[r] > state.eventTime
  ELSE now - state.closedAt >= RateTTL

\* Mutant: the claim's term where the in-flight lease belongs.
LeaseTooShort == now + ClaimTTL
InFlightLease == now + StateTTL

\* create_election() after its two guards, on top of the candidates in base.
Create(r, single, base) ==
  /\ state' = [Absent EXCEPT
                 !.owner = r,
                 !.eventTime = EventTime[r],
                 !.deadline = IF single THEN now ELSE now + Window,
                 !.expires = InFlightLease]
  /\ candidates' = [base EXCEPT ![BotOf[r]] = r]
  /\ candidatesTTL' = InFlightLease
  /\ lock' = [holder |-> r, expires |-> InFlightLease]
  /\ UNCHANGED rate

CreateFirst(r, single, role) ==
  /\ ~Exists
  /\ \/ /\ RateLimited \/ LockHeld
        /\ role = "rejected"
        /\ UNCHANGED store
     \/ /\ ~RateLimited /\ ~LockHeld
        /\ role = "executor"
        /\ Create(r, single, candidates)

\* The old generation is deleted before the lock is tried: a held lock
\* rejects the delivery and still loses the closed state.
ReplaceClosed(r, single, role) ==
  /\ Exists /\ state.closed
  /\ \/ /\ ~NewGeneration(r) \/ RateLimited
        /\ role = "rejected"
        /\ UNCHANGED store
     \/ /\ NewGeneration(r) /\ ~RateLimited /\ LockHeld
        /\ role = "rejected"
        /\ state' = Absent
        /\ candidates' = NoCandidates
        /\ candidatesTTL' = 0
        /\ UNCHANGED <<rate, lock>>
     \/ /\ NewGeneration(r) /\ ~RateLimited /\ ~LockHeld
        /\ role = "executor"
        /\ Create(r, single, NoCandidates)

JoinOpen(r, role) ==
  LET mine == candidates[BotOf[r]] IN
  /\ Exists /\ ~state.closed
  /\ \/ /\ mine = r
        /\ role = (IF state.owner = r THEN "executor" ELSE "follower")
        /\ UNCHANGED store
     \/ /\ mine # r
        /\ mine # NoReq \/ now >= state.deadline
        /\ role = "rejected"
        /\ UNCHANGED store
     \/ /\ mine = NoReq /\ now < state.deadline
        /\ role = "follower"
        /\ candidates' = [candidates EXCEPT ![BotOf[r]] = r]
        /\ state' = [state EXCEPT !.eventTime = IF @ = 0 THEN EventTime[r] ELSE @]
        /\ UNCHANGED <<candidatesTTL, rate, lock>>

\* single: the roster told the delivery to expect one candidate only.
JoinScript(r, single, role) ==
  \/ CreateFirst(r, single, role)
  \/ ReplaceClosed(r, single, role)
  \/ JoinOpen(r, role)

(***************************************************************************)
(* publishResponseElectionScript                                           *)
(***************************************************************************)
StoreResult(force) ==
  /\ state' = [state EXCEPT !.ready = TRUE, !.force = force,
                            !.expires = now + ReadyTTL]
  /\ candidatesTTL' = HashTTL(candidates, now + ReadyTTL)
  /\ lock' = IF LockHeld THEN [lock EXCEPT !.expires = now + ReadyTTL] ELSE lock
  /\ UNCHANGED <<candidates, rate>>

PublishScript(r, force, ok) ==
  \/ /\ state.owner = r /\ ~state.ready /\ ~state.closed
     /\ ok
     /\ StoreResult(force)
  \/ /\ ok = (state.owner = r /\ state.ready)
     /\ state.owner # r \/ state.ready \/ state.closed
     /\ UNCHANGED store

(***************************************************************************)
(* What every close does: stamp the state, arm the user's cooldown,        *)
(* release the owner's dedup lock and keep the state for a retention.      *)
(***************************************************************************)
\* Mutant: the close forgets the dedup lock.
LockKept == lock
ReleasedLock == IF lock.holder = state.owner THEN NoLock ELSE lock

\* Mutant: the close does not arm the cooldown.
CooldownForgotten == rate
Cooldown == now + RateTTL

Close(closed, hash, retention) ==
  /\ state' = [closed EXCEPT !.closed = TRUE, !.closedAt = now,
                             !.expires = now + retention]
  /\ candidates' = hash
  /\ candidatesTTL' = HashTTL(hash, now + retention)
  /\ rate' = Cooldown
  /\ lock' = ReleasedLock

(***************************************************************************)
(* abortResponseElectionScript                                             *)
(***************************************************************************)
\* Mutant: a consumed election no longer counts as published.
PublishedAndOpen == state.ready /\ ~state.closed
Published == state.ready

AbortScript(r, status) ==
  \/ /\ state.owner # r
     /\ status = "unknown"
     /\ UNCHANGED store
  \/ /\ state.owner = r /\ Published
     /\ status = "published"
     /\ UNCHANGED store
  \/ /\ state.owner = r /\ ~Published /\ ~state.closed
     /\ status = "aborted"
     /\ Close(state, candidates, RateTTL)
  \/ /\ state.owner = r /\ ~Published /\ state.closed
     /\ status = "aborted"
     /\ UNCHANGED store

(***************************************************************************)
(* decideResponseElectionScript                                            *)
(***************************************************************************)
\* Mutant: a claim never expires.
ClaimForever == FALSE
ClaimExpired == state.winner # NoReq /\ now >= state.claimDeadline

\* The candidates left once an expired claim has cost its holder its place.
Standing ==
  IF ClaimExpired THEN Without(candidates, BotOf[state.winner]) ELSE candidates

\* The tokens a decision may name: the claim that stands, the executor's own
\* entry when the result is bound to it, or else any standing candidate.
Electable ==
  IF state.winner # NoReq /\ ~ClaimExpired THEN {state.winner}
  ELSE LET hash == Standing IN
       (IF state.force THEN {hash[BotOf[state.owner]]}
        ELSE {hash[b] : b \in Bots}) \ {NoReq}

\* Mutant: every consumed election gets the short retention.
ShortRetention == RateTTL
CompletedRetention == IF state.eventTime > 0 THEN CompletedTTL ELSE RateTTL

\* Mutant: the winning bot is stored where its token belongs.
ClaimedByBot(w) == [state EXCEPT !.winner = BotOf[w], !.claimDeadline = now + ClaimTTL]
\* The state after w's claim is recorded; a claim that stands is not renewed.
Claimed(w) ==
  IF state.winner # NoReq /\ ~ClaimExpired THEN state
  ELSE [state EXCEPT !.winner = w, !.claimDeadline = now + ClaimTTL]

Elect(r, verdict) ==
  LET hash == Standing IN
  \/ /\ Electable = {}
     /\ verdict = "not_selected"
     /\ Close([state EXCEPT !.winner = NoReq, !.claimDeadline = 0], hash, RateTTL)
  \/ \E w \in Electable \ {r} :
       /\ verdict = "wait"
       /\ state' = Claimed(w)
       /\ candidates' = hash
       /\ candidatesTTL' = HashTTL(hash, candidatesTTL)
       /\ UNCHANGED <<rate, lock>>
  \/ /\ r \in Electable
     /\ verdict = "selected"
     /\ Close([Claimed(r) EXCEPT !.consumedBy = r], hash, CompletedRetention)

\* Mutant: whoever polls a consumed election is given its result.
ConsumedByAnyone(r) == state.consumedBy # NoReq
\* A poll repeated after its reply was lost is given the result again.
ConsumedBy(r) == state.consumedBy = r

DecideScript(r, verdict) ==
  \/ /\ ~Exists
     /\ verdict = "not_selected"
     /\ UNCHANGED store
  \/ /\ Exists /\ state.closed
     /\ verdict = (IF ConsumedBy(r) THEN "selected" ELSE "not_selected")
     /\ UNCHANGED store
  \/ /\ Exists /\ ~state.closed
     /\ now < state.deadline \/ ~state.ready
     /\ verdict = "wait"
     /\ UNCHANGED store
  \/ /\ Exists /\ ~state.closed /\ now >= state.deadline /\ state.ready
     /\ Elect(r, verdict)

(***************************************************************************)
(* leaveResponseElectionScript                                             *)
(***************************************************************************)
LeaveScript(r) ==
  \/ /\ candidates[BotOf[r]] # r
     /\ UNCHANGED store
  \/ LET hash == Without(candidates, BotOf[r]) IN
     /\ candidates[BotOf[r]] = r
     /\ candidates' = hash
     /\ candidatesTTL' = HashTTL(hash, candidatesTTL)
     /\ state' = IF ~state.closed /\ state.winner = r
                 THEN [state EXCEPT !.winner = NoReq, !.claimDeadline = 0]
                 ELSE state
     /\ UNCHANGED <<rate, lock>>

(***************************************************************************)
(* Time passes and Redis drops what has expired.                           *)
(***************************************************************************)
Tick ==
  /\ now < MaxTime
  /\ now' = now + 1
  /\ state' = IF Exists /\ state.expires <= now' THEN Absent ELSE state
  /\ IF candidatesTTL # 0 /\ candidatesTTL <= now'
     THEN candidates' = NoCandidates /\ candidatesTTL' = 0
     ELSE UNCHANGED <<candidates, candidatesTTL>>
  /\ rate' = IF rate <= now' THEN 0 ELSE rate
  /\ lock' = IF LockHeld /\ lock.expires <= now' THEN NoLock ELSE lock
=============================================================================
