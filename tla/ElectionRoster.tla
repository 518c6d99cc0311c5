---------------------------- MODULE ElectionRoster ----------------------------
(***************************************************************************)
(* The roster of one group (api/bot/pjsk/response_election_roster.go): a   *)
(* Redis hash with a field for every bot that serves the group and one     *)
(* with its misses, and a view of it in every process.  The creator of an  *)
(* election skips the window when the view knows no other bot.             *)
(*                                                                         *)
(* Reads, writes and reconciliations run in goroutines.  A pipeline is not *)
(* atomic: the commands of others come between its own.  The client        *)
(* repeats a pipeline whose reply is lost; one it has given up may run     *)
(* late.  Ages are steps that may happen at any time.  Some bots and       *)
(* processes are followed; the others take part in the elections, join and *)
(* reconcile as well.                                                      *)
(***************************************************************************)
EXTENDS Naturals, FiniteSets

CONSTANTS
  Bots,       \* the bots that are followed
  Procs,      \* the server processes whose views are followed; each may serve any bot
  Threshold,  \* rosterMissThreshold
  MaxJobs,    \* bound: goroutines at a time
  MaxFaults   \* bound: failed or repeated calls, evictions, crashes

ASSUME RosterAssumption ==
  /\ IsFiniteSet(Bots) /\ IsFiniteSet(Procs)
  /\ {Threshold, MaxJobs} \subseteq Nat \ {0} /\ Threshold > 1
  /\ MaxFaults \in Nat

VARIABLES
  members,  \* fields of the hash: the bots
  misses,   \* and their miss counters, 0 when there is none
  view,     \* rosterCacheState of each process
  job,
  faults

redis == <<members, misses>>
vars == <<redis, view, job, faults>>

Slots == 1..MaxJobs
\* fetchedAt: never, within the soft TTL, within the hard TTL, older.
Ages == {"none", "fresh", "stale", "expired"}
NoView == [age |-> "none", members |-> {}, writes |-> {}, refreshing |-> FALSE]
Idle == [op |-> "idle"]
Commands == {"none", "miss", "demote", "clear"}
NoCommands == [b \in Bots |-> "none"]

ViewType == [age : Ages, members : SUBSET Bots, writes : SUBSET Bots, refreshing : BOOLEAN]
JobType ==
       {Idle}
  \cup [op : {"hset", "hdel"}, bot : Bots]
  \cup [op : {"load"}, proc : Procs]
  \cup [op : {"apply"}, proc : Procs, got : SUBSET Bots, left : [Bots -> Commands], stores : BOOLEAN]

\* Reconciliations that overlap, or are repeated, may count beyond the
\* threshold: once more each, and no further.
TypeOK ==
  /\ members \subseteq Bots
  /\ misses \in [Bots -> 0..(Threshold - 2 + MaxJobs + MaxFaults)]
  /\ view \in [Procs -> ViewType]
  /\ job \in [Slots -> JobType]
  /\ faults \in 0..MaxFaults

Init ==
  /\ members = {} /\ misses = [b \in Bots |-> 0]
  /\ view = [p \in Procs |-> NoView]
  /\ job = [s \in Slots |-> Idle]
  /\ faults = 0

Fault == faults < MaxFaults /\ faults' = faults + 1
At(s, op) == job[s].op = op
Becomes(s, j) == job' = [job EXCEPT ![s] = j]
Free == {s \in Slots : At(s, "idle")}
Starts(j) == Free # {} /\ Becomes(CHOOSE s \in Free : TRUE, j)

--------------------------------------------------------------------------------
(* expectedCandidates and recordJoin *)

Known(p) == view[p].age \in {"fresh", "stale"}
NeedsRefresh(p) == view[p].age # "fresh" /\ ~view[p].refreshing

\* expectedCandidates: a delivery asks how many bots to wait for.
Ask(p) ==
  /\ NeedsRefresh(p)
  /\ view' = [view EXCEPT ![p].refreshing = TRUE]
  /\ Starts([op |-> "load", proc |-> p])
  /\ UNCHANGED <<redis, faults>>

\* Mutant: the window of the dedup never ends.
WrittenBefore(p, b) == b \in view[p].writes \/ b \in view[p].members
Deduplicated(p, b) ==
  view[p].age # "none" /\ b \in view[p].members /\ b \in view[p].writes

\* recordJoin, some time after the delivery asked, when its join is answered.
\* A deduplicated one changes nothing.
RecordJoin(p, b) ==
  /\ ~Deduplicated(p, b)
  /\ view' = [view EXCEPT ![p].writes = @ \union {b},
                          ![p].members = IF view[p].age = "none" THEN @ ELSE @ \union {b}]
  /\ Starts([op |-> "hset", bot |-> b])
  /\ UNCHANGED <<redis, faults>>

\* The same in a process that is not followed.
JoinElsewhere(b) ==
  /\ Starts([op |-> "hset", bot |-> b])
  /\ UNCHANGED <<redis, view, faults>>

WriteMember(s) ==
  /\ At(s, "hset")
  /\ members' = members \union {job[s].bot}
  /\ Becomes(s, [op |-> "hdel", bot |-> job[s].bot])
  /\ UNCHANGED <<misses, view, faults>>

\* The end of the pipeline, unless it is repeated.
ClearMisses(s) ==
  /\ At(s, "hdel")
  /\ misses' = [misses EXCEPT ![job[s].bot] = 0]
  /\ \/ Becomes(s, Idle) /\ UNCHANGED faults
     \/ Becomes(s, [op |-> "hset", bot |-> job[s].bot]) /\ Fault
  /\ UNCHANGED <<members, view>>

WriteFails(s) ==
  /\ job[s].op \in {"hset", "hdel"} /\ Fault
  /\ Becomes(s, Idle)
  /\ UNCHANGED <<redis, view>>

--------------------------------------------------------------------------------
(* refresh and storeMembers *)

Load(s) ==
  /\ At(s, "load")
  /\ Becomes(s, [op |-> "apply", proc |-> job[s].proc, left |-> NoCommands, stores |-> TRUE, got |-> members])
  /\ UNCHANGED <<redis, view, faults>>

\* Mutant: a failed refresh leaves its mark.
StillRefreshing(p) == UNCHANGED view
NotRefreshing(p) == view' = [view EXCEPT ![p].refreshing = FALSE]

LoadFails(s) ==
  /\ At(s, "load") /\ Fault
  /\ NotRefreshing(job[s].proc)
  /\ Becomes(s, Idle)
  /\ UNCHANGED redis

Stored(p, got) ==
  view' = [view EXCEPT ![p] = [age |-> "fresh", members |-> got, writes |-> @.writes, refreshing |-> FALSE]]

\* The pipeline, of which a refresh has none, is through: storeMembers.
StoreMembers(s) ==
  /\ At(s, "apply") /\ job[s].left = NoCommands
  /\ IF job[s].stores THEN Stored(job[s].proc, job[s].got) ELSE UNCHANGED view
  /\ Becomes(s, Idle)
  /\ UNCHANGED <<redis, faults>>

--------------------------------------------------------------------------------
(* reconcile *)

\* Mutant: the counter must hit the threshold.
HitsThreshold(b) == misses[b] + 1 = Threshold
ReachesThreshold(b) == misses[b] + 1 >= Threshold

\* applyRosterReconciliation: the command for each member that was read.
Verdict(b, present) ==
  IF b \notin members THEN "none"
  ELSE IF b \in present THEN IF misses[b] > 0 THEN "clear" ELSE "none"
  ELSE IF ReachesThreshold(b) THEN "demote" ELSE "miss"

\* A full-window election has selected a candidate of the process, or of
\* another, which stores no view that is followed.  The roster is read some
\* time after the snapshot of the candidates; a failed read changes nothing.
Reconcile(p, present) ==
  LET verdict == [b \in Bots |-> Verdict(b, present)] IN
  /\ \E stores \in BOOLEAN :
       Starts([op |-> "apply", proc |-> p, left |-> verdict, stores |-> stores,
               got |-> {b \in members : verdict[b] # "demote"}])
  /\ UNCHANGED <<redis, view, faults>>

\* Mutant: a miss is recorded, not counted.
Marked(n) == 1
Counted(n) == n + 1

Command(b, verdict) ==
  /\ members' = IF verdict = "demote" THEN members \ {b} ELSE members
  /\ misses' = [misses EXCEPT ![b] = IF verdict = "miss" THEN Counted(@) ELSE 0]

\* One command of the pipeline, whose order is that of a Go map; it may be
\* run once more when the pipeline is repeated.
Apply(s) ==
  /\ At(s, "apply")
  /\ \E b \in Bots :
       /\ job[s].left[b] # "none"
       /\ Command(b, job[s].left[b])
       /\ \/ Becomes(s, [job[s] EXCEPT !.left[b] = "none"]) /\ UNCHANGED faults
          \/ Fault /\ UNCHANGED job
  /\ UNCHANGED view

\* An error ends the reconciliation, but a deadline that has passed is not
\* taken for one: the view is stored, and the rest may run late or never.
ApplyFails(s) ==
  /\ At(s, "apply") /\ job[s].stores /\ job[s].left # NoCommands /\ Fault
  /\ \/ Becomes(s, Idle) /\ UNCHANGED view
     \/ Stored(job[s].proc, job[s].got) /\ Becomes(s, Idle)
     \/ Stored(job[s].proc, job[s].got) /\ Becomes(s, [job[s] EXCEPT !.stores = FALSE])
  /\ UNCHANGED redis

--------------------------------------------------------------------------------
(* Time, the bound of the cache, and crashes *)

Older(age) == CASE age = "fresh" -> "stale" [] age = "stale" -> "expired" [] OTHER -> age

Age(p) ==
  /\ Known(p)
  /\ view' = [view EXCEPT ![p].age = Older(@)]
  /\ UNCHANGED <<redis, job, faults>>

WindowPasses(p, b) ==
  /\ b \in view[p].writes
  /\ view' = [view EXCEPT ![p].writes = @ \ {b}]
  /\ UNCHANGED <<redis, job, faults>>

\* A week without a write is longer than any view is trusted.
Expire ==
  /\ members # {} /\ \A p \in Procs : ~Known(p) /\ view[p].writes = {}
  /\ \A s \in Slots : job[s].op \in {"idle", "load"}
  /\ members' = {} /\ misses' = [b \in Bots |-> 0]
  /\ UNCHANGED <<view, job, faults>>

\* The least recently used group leaves the cache.
Evict(p) ==
  /\ view[p] # NoView /\ Fault
  /\ view' = [view EXCEPT ![p] = NoView]
  /\ UNCHANGED <<redis, job>>

\* The goroutines of the process end with it, writes among them.
Crash(p) ==
  LET owned == {s \in Slots : At(s, "load") \/ (At(s, "apply") /\ job[s].stores)}
      its == {s \in owned : job[s].proc = p} IN
  /\ Fault
  /\ view' = [view EXCEPT ![p] = NoView]
  /\ \E gone \in SUBSET (its \union (Slots \ owned)) :
       /\ its \subseteq gone
       /\ job' = [s \in Slots |-> IF s \in gone THEN Idle ELSE job[s]]
  /\ UNCHANGED redis

Work(s) ==
  \/ WriteMember(s) \/ ClearMisses(s)
  \/ Load(s) \/ StoreMembers(s) \/ Apply(s)

Next ==
  \/ \E p \in Procs : Ask(p) \/ Age(p) \/ Evict(p) \/ Crash(p)
  \/ \E p \in Procs, b \in Bots : RecordJoin(p, b) \/ WindowPasses(p, b)
  \/ \E s \in Slots : Work(s) \/ WriteFails(s) \/ LoadFails(s) \/ ApplyFails(s)
  \/ \E b \in Bots : JoinElsewhere(b)
  \/ \E p \in Procs, present \in SUBSET Bots : Reconcile(p, present)
  \/ Expire

Spec == Init /\ [][Next]_vars

\* The goroutines run and time passes; nobody has to send commands.
Fairness ==
  /\ \A s \in Slots : WF_vars(Work(s))
  /\ \A p \in Procs : WF_vars(Age(p)) /\ \A b \in Bots : WF_vars(WindowPasses(p, b))

FairSpec == Spec /\ Fairness

--------------------------------------------------------------------------------
\* A process is marked as refreshing only while a goroutine of its is on the
\* way that clears the mark: no failure, eviction or crash leaves a mark behind
\* that would keep every later delivery from refreshing the roster.
RefreshUnderWay ==
  \A p \in Procs : view[p].refreshing =>
    \E s \in Slots :
      /\ job[s].op \in {"load", "apply"} /\ job[s].proc = p
      /\ At(s, "apply") => job[s].stores /\ job[s].left = NoCommands

Joins(b) == \E p \in Procs : RecordJoin(p, b)
Reconciles(present) == \E p \in Procs : Reconcile(p, present)
TakesPart(b) == Joins(b) \/ JoinElsewhere(b) \/ \E present \in SUBSET Bots : Reconciles(present) /\ b \in present

\* A bot that keeps joining is registered again and again, whatever demotes it,
\* evicts or crashes: the write dedup never shuts out a bot that Redis has
\* lost ("the join itself re-registers the bot for subsequent elections").
JoinsRegister ==
  \A b \in Bots : SF_vars(Joins(b)) => []<>(b \in members)

\* A bot that has left is dropped from Redis and from every trusted view for
\* good, as long as full-window elections are reconciled ("a member missing
\* rosterMissThreshold consecutive full-window elections is dropped").
DepartedDropped ==
  \A b \in Bots :
    <>[][~TakesPart(b)]_vars /\ []<><<\E present \in SUBSET Bots : Reconciles(present)>>_vars
      => <>[](b \notin members /\ \A p \in Procs : Known(p) => b \notin view[p].members)

\* A process that keeps serving the group keeps learning its roster: no failed
\* refresh, reconciliation or eviction blocks the refreshes that follow.
ServedKnows ==
  \A p \in Procs : SF_vars(Ask(p)) => []<>Known(p)
================================================================================
