------------------------- MODULE ElectionRosterProofs -------------------------
(***************************************************************************)
(* Theorems about ElectionRoster, for any bots, processes, threshold,      *)
(* number of goroutines and number of failures.                            *)
(***************************************************************************)
EXTENDS ElectionRoster, FiniteSetTheorems, TLAPS

-----------------------------------------------------------------------------
(***************************************************************************)
(* The inductive invariant                                                 *)
(***************************************************************************)
\* The pipelines that are still to count a miss of b.
Pending(b) == {s \in Slots : At(s, "apply") /\ job[s].left[b] = "miss"}

\* A reconciliation decides to count a miss below the threshold only; each of
\* the others that overlap counts one more, and each repetition is a fault.
MissBound ==
  \A b \in Bots : misses[b] + Cardinality(Pending(b)) <= Threshold - 2 + MaxJobs + faults

\* Types, but for the bound of the counters.
Shape ==
  /\ members \subseteq Bots
  /\ misses \in [Bots -> Nat]
  /\ view \in [Procs -> ViewType]
  /\ job \in [Slots -> JobType]
  /\ faults \in 0..MaxFaults

IInv == Shape /\ MissBound /\ RefreshUnderWay

ApplyType ==
  [op : {"apply"}, proc : Procs, got : SUBSET Bots, left : [Bots -> Commands], stores : BOOLEAN]

-----------------------------------------------------------------------------
(***************************************************************************)
(* Types                                                                   *)
(***************************************************************************)
LEMMA JobKinds ==
  ASSUME NEW j \in JobType
  PROVE  /\ j.op \in {"idle", "hset", "hdel", "load", "apply"}
         /\ j.op \in {"hset", "hdel"} => j.bot \in Bots
         /\ j.op = "load" => j.proc \in Procs
         /\ j.op = "apply" => j \in ApplyType
BY DEF JobType, Idle, ApplyType

LEMMA JobMembers ==
  /\ Idle \in JobType /\ ApplyType \subseteq JobType
  /\ \A b \in Bots : [op |-> "hset", bot |-> b] \in JobType /\ [op |-> "hdel", bot |-> b] \in JobType
  /\ \A p \in Procs : [op |-> "load", proc |-> p] \in JobType
BY DEF JobType, Idle, ApplyType

LEMMA BecomesType ==
  ASSUME job \in [Slots -> JobType], NEW s \in Slots, NEW j \in JobType, Becomes(s, j)
  PROVE  job' \in [Slots -> JobType] /\ \A t \in Slots : job'[t] = IF t = s THEN j ELSE job[t]
BY DEF Becomes

LEMMA StartsType ==
  ASSUME job \in [Slots -> JobType], NEW j \in JobType, Starts(j)
  PROVE  /\ job' \in [Slots -> JobType]
         /\ \E s \in Slots : At(s, "idle") /\ \A t \in Slots : job'[t] = IF t = s THEN j ELSE job[t]
<1> DEFINE s == CHOOSE s \in Free : TRUE
<1>1. s \in Free /\ Becomes(s, j)
  BY DEF Starts
<1> HIDE DEF s
<1> QED BY <1>1, BecomesType DEF Free

LEMMA ViewTypes ==
  ASSUME view \in [Procs -> ViewType], NEW p \in Procs, NEW got \in SUBSET Bots
  PROVE  /\ Stored(p, got) \/ NotRefreshing(p) \/ UNCHANGED view => view' \in [Procs -> ViewType]
         /\ view' = [view EXCEPT ![p] = NoView] => view' \in [Procs -> ViewType]
<1>1. NoView \in ViewType
  BY DEF ViewType, Ages, NoView
<1>2. CASE Stored(p, got)
  <2>1. [age |-> "fresh", members |-> got, writes |-> view[p].writes, refreshing |-> FALSE]
          \in ViewType
    BY DEF ViewType, Ages
  <2> QED BY <1>1, <1>2, <2>1 DEF Stored
<1>3. CASE NotRefreshing(p)
  BY <1>1, <1>3 DEF NotRefreshing, ViewType
<1> QED BY <1>1, <1>2, <1>3

LEMMA VerdictType ==
  ASSUME NEW present, NEW b \in Bots
  PROVE  Verdict(b, present) \in Commands
BY DEF Verdict, Commands

\* A faulty step counts one more fault, below the bound.
LEMMA FaultType ==
  ASSUME faults \in 0..MaxFaults, Fault \/ UNCHANGED faults
  PROVE  faults' \in 0..MaxFaults /\ faults <= faults'
BY RosterAssumption DEF Fault

LEMMA ShapeInit == Init => Shape
BY RosterAssumption, JobMembers DEF Init, Shape, ViewType, NoView, Ages

LEMMA ShapeProcess ==
  ASSUME Shape, NEW p \in Procs, Ask(p) \/ Age(p) \/ Evict(p) \/ Crash(p)
  PROVE  Shape'
<1> USE DEF Shape, redis
<1>1. CASE Ask(p)
  <2>1. view' \in [Procs -> ViewType]
    BY <1>1 DEF Ask, ViewType
  <2> QED BY <1>1, <2>1, StartsType, JobMembers DEF Ask
<1>2. CASE Age(p)
  BY <1>2 DEF Age, ViewType, Older, Ages
<1>3. CASE Evict(p)
  BY <1>3, ViewTypes, FaultType DEF Evict
<1>4. CASE Crash(p)
  <2>1. job' \in [Slots -> JobType]
    BY <1>4, JobMembers DEF Crash
  <2>2. view' \in [Procs -> ViewType]
    BY <1>4, ViewTypes DEF Crash
  <2> QED BY <1>4, <2>1, <2>2, FaultType DEF Crash
<1> QED BY <1>1, <1>2, <1>3, <1>4

LEMMA ShapeBot ==
  ASSUME Shape, NEW b \in Bots,
         JoinElsewhere(b) \/ \E p \in Procs : RecordJoin(p, b) \/ WindowPasses(p, b)
  PROVE  Shape'
<1> USE DEF Shape, redis
<1>1. ASSUME NEW p \in Procs, RecordJoin(p, b) PROVE Shape'
  <2>1. view' \in [Procs -> ViewType]
    BY <1>1 DEF RecordJoin, ViewType
  <2> QED BY <1>1, <2>1, StartsType, JobMembers DEF RecordJoin
<1>2. ASSUME NEW p \in Procs, WindowPasses(p, b) PROVE Shape'
  BY <1>2 DEF WindowPasses, ViewType
<1>3. CASE JoinElsewhere(b)
  BY <1>3, StartsType, JobMembers DEF JoinElsewhere
<1> QED BY <1>1, <1>2, <1>3

LEMMA CommandType ==
  ASSUME members \subseteq Bots, misses \in [Bots -> Nat], NEW b \in Bots,
         NEW verdict, Command(b, verdict)
  PROVE  /\ members' \subseteq Bots
         /\ misses' \in [Bots -> Nat]
         /\ \A c \in Bots : misses'[c] = IF c # b THEN misses[c]
                                         ELSE IF verdict = "miss" THEN misses[b] + 1 ELSE 0
BY DEF Command, Counted

LEMMA ShapeWork ==
  ASSUME Shape, NEW s \in Slots,
         \/ WriteMember(s) \/ ClearMisses(s) \/ WriteFails(s)
         \/ Load(s) \/ LoadFails(s) \/ StoreMembers(s)
  PROVE  Shape'
<1> USE DEF Shape, redis
<1>0. job[s] \in JobType
  OBVIOUS
<1>1. CASE WriteMember(s)
  <2>1. job[s].bot \in Bots
    BY <1>0, <1>1, JobKinds DEF WriteMember, At
  <2> QED BY <1>1, <2>1, JobMembers, BecomesType DEF WriteMember
<1>2. CASE ClearMisses(s)
  <2>1. job[s].bot \in Bots
    BY <1>0, <1>2, JobKinds DEF ClearMisses, At
  <2> QED BY <1>2, <2>1, JobMembers, BecomesType, FaultType DEF ClearMisses
<1>3. CASE WriteFails(s)
  BY <1>3, JobMembers, BecomesType, FaultType DEF WriteFails
<1>4. CASE Load(s)
  <2>1. job[s].proc \in Procs
    BY <1>0, <1>4, JobKinds DEF Load, At
  <2>2. [op |-> "apply", proc |-> job[s].proc, left |-> NoCommands, stores |-> TRUE,
         got |-> members] \in JobType
    BY <2>1, JobMembers DEF ApplyType, NoCommands, Commands
  <2> QED BY <1>4, <2>2, BecomesType DEF Load
<1>5. CASE LoadFails(s)
  <2>1. job[s].proc \in Procs
    BY <1>0, <1>5, JobKinds DEF LoadFails, At
  <2> QED BY <1>5, <2>1, JobMembers, BecomesType, FaultType, ViewTypes DEF LoadFails
<1>6. CASE StoreMembers(s)
  <2>1. job[s] \in ApplyType
    BY <1>0, <1>6, JobKinds DEF StoreMembers, At
  <2>2. job[s].proc \in Procs /\ job[s].got \in SUBSET Bots
    BY <2>1 DEF ApplyType
  <2> QED BY <1>6, <2>2, JobMembers, BecomesType, ViewTypes DEF StoreMembers
<1> QED BY <1>1, <1>2, <1>3, <1>4, <1>5, <1>6

LEMMA ShapeApply ==
  ASSUME Shape, NEW s \in Slots, Apply(s) \/ ApplyFails(s)
  PROVE  Shape'
<1> USE DEF Shape, redis
<1>1. At(s, "apply") /\ job[s] \in ApplyType
  BY JobKinds DEF Apply, ApplyFails, At
<1>2. /\ job[s].proc \in Procs /\ job[s].got \in SUBSET Bots
      /\ \A b \in Bots : [job[s] EXCEPT !.left[b] = "none"] \in ApplyType
      /\ [job[s] EXCEPT !.stores = FALSE] \in ApplyType
  BY <1>1 DEF ApplyType, Commands
<1>3. CASE Apply(s)
  <2>1. PICK b \in Bots :
          /\ Command(b, job[s].left[b])
          /\ \/ Becomes(s, [job[s] EXCEPT !.left[b] = "none"]) /\ UNCHANGED faults
             \/ Fault /\ UNCHANGED job
    BY <1>3 DEF Apply
  <2>2. job' \in [Slots -> JobType] /\ faults' \in 0..MaxFaults
    BY <1>2, <2>1, JobMembers, BecomesType, FaultType
  <2> QED BY <1>3, <2>1, <2>2, CommandType DEF Apply
<1>4. CASE ApplyFails(s)
  <2>1. job' \in [Slots -> JobType]
    BY <1>2, <1>4, JobMembers, BecomesType DEF ApplyFails
  <2> QED BY <1>2, <1>4, <2>1, FaultType, ViewTypes DEF ApplyFails
<1> QED BY <1>3, <1>4

LEMMA ReconcileJob ==
  ASSUME Shape, NEW p \in Procs, NEW present \in SUBSET Bots, Reconcile(p, present)
  PROVE  \E j \in ApplyType :
           Starts(j) /\ j.left = [b \in Bots |-> Verdict(b, present)]
<1> DEFINE verdict == [b \in Bots |-> Verdict(b, present)]
           j(stores) == [op |-> "apply", proc |-> p, left |-> verdict, stores |-> stores,
                         got |-> {b \in members : verdict[b] # "demote"}]
<1>1. verdict \in [Bots -> Commands]
  BY VerdictType
<1>2. PICK stores \in BOOLEAN : Starts(j(stores))
  BY DEF Reconcile
<1> HIDE DEF verdict
<1>3. j(stores) \in ApplyType /\ j(stores).left = verdict
  BY <1>1 DEF ApplyType, Shape
<1> QED BY <1>2, <1>3 DEF verdict

LEMMA ShapeStep == Shape /\ [Next]_vars => Shape'
<1> SUFFICES ASSUME Shape, [Next]_vars PROVE Shape'
  OBVIOUS
<1>1. ASSUME NEW p \in Procs, NEW present \in SUBSET Bots, Reconcile(p, present) PROVE Shape'
  <2>1. PICK j \in ApplyType : Starts(j)
    BY <1>1, ReconcileJob
  <2> QED BY <1>1, <2>1, StartsType, JobMembers DEF Reconcile, Shape, redis
<1>2. CASE Expire \/ UNCHANGED vars
  BY <1>2 DEF Expire, vars, redis, Shape
<1>3. ASSUME NEW s \in Slots, Work(s) \/ WriteFails(s) \/ LoadFails(s) \/ ApplyFails(s)
      PROVE  Shape'
  BY <1>3, ShapeWork, ShapeApply DEF Work
<1> QED BY <1>1, <1>2, <1>3, ShapeProcess, ShapeBot DEF Next

-----------------------------------------------------------------------------
(***************************************************************************)
(* The counters stay within their bound                                    *)
(***************************************************************************)
LEMMA PendingType ==
  ASSUME NEW b
  PROVE  IsFiniteSet(Pending(b)) /\ Cardinality(Pending(b)) \in 0..MaxJobs
<1>1. IsFiniteSet(Slots) /\ Cardinality(Slots) = MaxJobs
  BY RosterAssumption, FS_Interval DEF Slots
<1> QED BY <1>1, FS_Subset, FS_CardinalityType, RosterAssumption DEF Pending

LEMMA PendingTypePrimed ==
  ASSUME NEW b
  PROVE  IsFiniteSet(Pending(b)') /\ Cardinality(Pending(b)') \in 0..MaxJobs
<1>1. IsFiniteSet(Slots) /\ Cardinality(Slots) = MaxJobs
  BY RosterAssumption, FS_Interval DEF Slots
<1> QED BY <1>1, FS_Subset, FS_CardinalityType, RosterAssumption DEF Pending, Slots

\* A step that counts no miss and starts no pipeline keeps the bound.
LEMMA BoundKept ==
  ASSUME Shape, Shape', MissBound, faults <= faults',
         \A b \in Bots : misses'[b] <= misses[b] /\ Pending(b)' \subseteq Pending(b)
  PROVE  MissBound'
<1> SUFFICES ASSUME NEW b \in Bots
             PROVE  misses'[b] + Cardinality(Pending(b)') <= Threshold - 2 + MaxJobs + faults'
  BY DEF MissBound
<1>1. Cardinality(Pending(b)') <= Cardinality(Pending(b))
  BY PendingType, FS_Subset
<1>2. /\ Cardinality(Pending(b)') \in Nat /\ Cardinality(Pending(b)) \in Nat
      /\ misses[b] \in Nat /\ misses'[b] \in Nat /\ faults \in Nat /\ faults' \in Nat
  BY PendingType, PendingTypePrimed, RosterAssumption DEF Shape
<1> QED BY <1>1, <1>2, RosterAssumption DEF MissBound

\* What a step that touches one slot does to the pending misses.
LEMMA PendingOfSlot ==
  ASSUME Shape, NEW s \in Slots, NEW b \in Bots,
         \A t \in Slots : t # s => job'[t] = job[t],
         ~(At(s, "apply")' /\ job'[s].left[b] = "miss")
  PROVE  Pending(b)' = Pending(b) \ {s}
BY DEF Pending, At, Slots

LEMMA PendingOfNew ==
  ASSUME NEW s \in Slots, NEW b \in Bots, \A t \in Slots : t # s => job'[t] = job[t]
  PROVE  Pending(b)' \subseteq Pending(b) \union {s}
BY DEF Pending, At, Slots

LEMMA BoundProcess ==
  ASSUME Shape, Shape', MissBound, NEW p \in Procs, Ask(p) \/ Age(p) \/ Evict(p) \/ Crash(p)
  PROVE  MissBound'
<1>1. misses' = misses /\ faults <= faults'
  BY FaultType DEF Shape, Ask, Age, Evict, Crash, redis
<1>2. \A b \in Bots : Pending(b)' \subseteq Pending(b)
  <2>1. CASE Ask(p)
    <3>1. [op |-> "load", proc |-> p] \in JobType
      BY JobMembers
    <3>2. PICK s \in Slots : \A t \in Slots :
            job'[t] = IF t = s THEN [op |-> "load", proc |-> p] ELSE job[t]
      BY <2>1, <3>1, StartsType DEF Ask, Shape
    <3> QED BY <3>2 DEF Pending, At, Slots
  <2>2. CASE Crash(p)
    BY <2>2 DEF Crash, Pending, At, Slots, Idle
  <2>3. CASE Age(p) \/ Evict(p)
    BY <2>3 DEF Age, Evict, Pending, At, Slots
  <2> QED BY <2>1, <2>2, <2>3
<1>3. \A b \in Bots : misses'[b] <= misses[b]
  BY <1>1 DEF Shape
<1> QED BY <1>1, <1>2, <1>3, BoundKept

LEMMA BoundBot ==
  ASSUME Shape, Shape', MissBound, NEW b \in Bots,
         JoinElsewhere(b) \/ \E p \in Procs : RecordJoin(p, b) \/ WindowPasses(p, b)
  PROVE  MissBound'
<1>1. misses' = misses /\ faults' = faults
  BY DEF JoinElsewhere, RecordJoin, WindowPasses, redis
<1>2. \A c \in Bots : Pending(c)' \subseteq Pending(c)
  <2>1. CASE Starts([op |-> "hset", bot |-> b])
    <3>1. [op |-> "hset", bot |-> b] \in JobType
      BY JobMembers
    <3>2. PICK s \in Slots : \A t \in Slots :
            job'[t] = IF t = s THEN [op |-> "hset", bot |-> b] ELSE job[t]
      BY <2>1, <3>1, StartsType DEF Shape
    <3> QED BY <3>2 DEF Pending, At, Slots
  <2>2. CASE UNCHANGED job
    BY <2>2 DEF Pending, At, Slots
  <2> QED BY <2>1, <2>2 DEF JoinElsewhere, RecordJoin, WindowPasses
<1>3. faults <= faults' /\ \A c \in Bots : misses'[c] <= misses[c]
  BY <1>1, RosterAssumption DEF Shape
<1> QED BY <1>2, <1>3, BoundKept

LEMMA BoundWork ==
  ASSUME Shape, Shape', MissBound, NEW s \in Slots,
         \/ WriteMember(s) \/ ClearMisses(s) \/ WriteFails(s)
         \/ Load(s) \/ LoadFails(s) \/ StoreMembers(s) \/ ApplyFails(s)
  PROVE  MissBound'
<1>0. faults <= faults'
  BY FaultType, RosterAssumption
     DEF Shape, WriteMember, ClearMisses, WriteFails, Load, LoadFails, StoreMembers, ApplyFails
<1>1. \A b \in Bots : misses'[b] <= misses[b]
  <2>1. CASE UNCHANGED misses
    BY <2>1 DEF Shape
  <2>2. CASE ClearMisses(s)
    BY <2>2 DEF ClearMisses, Shape
  <2> QED BY <2>1, <2>2
        DEF WriteMember, WriteFails, Load, LoadFails, StoreMembers, ApplyFails, redis
<1>2. ASSUME NEW b \in Bots PROVE Pending(b)' \subseteq Pending(b)
  <2>1. \A t \in Slots : t # s => job'[t] = job[t]
    BY DEF WriteMember, ClearMisses, WriteFails, Load, LoadFails, StoreMembers, ApplyFails,
           Becomes, Shape
  <2>2. CASE ApplyFails(s)
    <3>1. \/ job'[s] = Idle
          \/ job'[s] = [job[s] EXCEPT !.stores = FALSE]
      BY <2>2 DEF ApplyFails, Becomes, Shape
    <3>2. At(s, "apply") /\ job[s] \in ApplyType
      BY <2>2, JobKinds DEF ApplyFails, At, Shape
    <3>3. job'[s].op = "apply" => job'[s].left[b] = job[s].left[b]
      BY <3>1, <3>2 DEF ApplyType, Idle
    <3> QED BY <2>1, <3>2, <3>3 DEF Pending, At, Slots
  <2>3. CASE Load(s)
    BY <2>1, <2>3 DEF Load, Becomes, Shape, Pending, At, Slots, NoCommands
  <2>4. CASE \/ WriteMember(s) \/ ClearMisses(s) \/ WriteFails(s) \/ LoadFails(s)
             \/ StoreMembers(s)
    BY <2>1, <2>4 DEF WriteMember, ClearMisses, WriteFails, LoadFails, StoreMembers,
                      Becomes, Shape, Pending, At, Slots, Idle
  <2> QED BY <2>2, <2>3, <2>4
<1> QED BY <1>0, <1>1, <1>2, BoundKept

LEMMA BoundApply ==
  ASSUME Shape, Shape', MissBound, NEW s \in Slots, Apply(s)
  PROVE  MissBound'
<1>1. At(s, "apply") /\ job[s] \in ApplyType
  BY JobKinds DEF Apply, At, Shape
<1>2. PICK b \in Bots :
        /\ job[s].left[b] # "none"
        /\ Command(b, job[s].left[b])
        /\ \/ Becomes(s, [job[s] EXCEPT !.left[b] = "none"]) /\ UNCHANGED faults
           \/ Fault /\ UNCHANGED job
  BY DEF Apply
<1>3. \A c \in Bots : misses'[c] = IF c # b THEN misses[c]
                                   ELSE IF job[s].left[b] = "miss" THEN misses[b] + 1 ELSE 0
  BY <1>2, CommandType DEF Shape
<1>4. ASSUME NEW c \in Bots
      PROVE  misses'[c] + Cardinality(Pending(c)') <= Threshold - 2 + MaxJobs + faults'
  <2>0. /\ Cardinality(Pending(c)') \in Nat /\ Cardinality(Pending(c)) \in Nat
        /\ misses[c] \in Nat /\ misses'[c] \in Nat /\ faults \in Nat /\ faults' \in Nat
        /\ misses[c] + Cardinality(Pending(c)) <= Threshold - 2 + MaxJobs + faults
    BY PendingType, PendingTypePrimed, RosterAssumption DEF Shape, MissBound
  <2>1. CASE Becomes(s, [job[s] EXCEPT !.left[b] = "none"]) /\ UNCHANGED faults
    <3>1. /\ \A t \in Slots : t # s => job'[t] = job[t]
          /\ job'[s].op = "apply" /\ job'[s].left = [job[s].left EXCEPT ![b] = "none"]
      BY <1>1, <2>1 DEF Becomes, Shape, ApplyType
    <3>2. job[s].left \in [Bots -> Commands]
      BY <1>1 DEF ApplyType
    <3>3. CASE c # b
      <4>1. Pending(c)' = Pending(c)
        BY <1>1, <3>1, <3>2, <3>3 DEF Pending, At, Slots
      <4> QED BY <1>3, <2>0, <2>1, <3>3, <4>1
    <3>4. CASE c = b /\ job[s].left[b] = "miss"
      <4>1. s \in Pending(b)
        BY <1>1, <3>4 DEF Pending
      <4>2. Pending(b)' = Pending(b) \ {s}
        BY <3>1, <3>2, PendingOfSlot
      <4>3. Cardinality(Pending(b)') = Cardinality(Pending(b)) - 1
        BY <4>1, <4>2, PendingType, FS_RemoveElement
      <4> QED BY <1>3, <2>0, <2>1, <3>4, <4>3, RosterAssumption
    <3>5. CASE c = b /\ job[s].left[b] # "miss"
      <4>1. misses'[c] = 0
        BY <1>3, <3>5
      <4> QED BY <2>0, <4>1, PendingTypePrimed, RosterAssumption
    <3> QED BY <3>3, <3>4, <3>5
  <2>2. CASE Fault /\ UNCHANGED job
    <3>1. Pending(c)' = Pending(c) /\ faults' = faults + 1
      BY <2>2 DEF Pending, At, Slots, Fault
    <3> QED BY <1>3, <2>0, <3>1, RosterAssumption
  <2> QED BY <1>2, <2>1, <2>2
<1> QED BY <1>4 DEF MissBound

LEMMA BoundReconcile ==
  ASSUME Shape, Shape', MissBound, NEW p \in Procs, NEW present \in SUBSET Bots,
         Reconcile(p, present)
  PROVE  MissBound'
<1>1. PICK j \in ApplyType : Starts(j) /\ j.left = [b \in Bots |-> Verdict(b, present)]
  BY ReconcileJob
<1>2. PICK s \in Slots : At(s, "idle") /\ \A t \in Slots : job'[t] = IF t = s THEN j ELSE job[t]
  BY <1>1, JobMembers, StartsType DEF Shape
<1>3. misses' = misses /\ faults' = faults
  BY DEF Reconcile, redis
<1>4. ASSUME NEW b \in Bots
      PROVE  misses'[b] + Cardinality(Pending(b)') <= Threshold - 2 + MaxJobs + faults'
  <2>0. /\ Cardinality(Pending(b)') \in 0..MaxJobs
        /\ misses[b] \in Nat /\ faults \in Nat
        /\ misses[b] + Cardinality(Pending(b)) <= Threshold - 2 + MaxJobs + faults
    BY PendingTypePrimed, RosterAssumption DEF Shape, MissBound
  <2>1. CASE Verdict(b, present) = "miss"
    <3>1. misses[b] + 1 < Threshold
      BY <2>0, <2>1, RosterAssumption DEF Verdict, ReachesThreshold
    <3> QED BY <1>3, <2>0, <3>1, RosterAssumption
  <2>2. CASE Verdict(b, present) # "miss"
    <3>1. Pending(b)' \subseteq Pending(b)
      BY <1>1, <1>2, <2>2 DEF Pending, At, Slots
    <3>2. Cardinality(Pending(b)') <= Cardinality(Pending(b)) /\ Cardinality(Pending(b)) \in Nat
      BY <3>1, PendingType, FS_Subset
    <3> QED BY <1>3, <2>0, <3>2, RosterAssumption
  <2> QED BY <2>1, <2>2
<1> QED BY <1>4 DEF MissBound

LEMMA BoundStep == Shape /\ Shape' /\ MissBound /\ [Next]_vars => MissBound'
<1> SUFFICES ASSUME Shape, Shape', MissBound, [Next]_vars PROVE MissBound'
  OBVIOUS
<1>1. CASE Expire \/ UNCHANGED vars
  <2>1. /\ faults' = faults /\ job' = job /\ faults <= faults'
        /\ \A b \in Bots : misses'[b] <= misses[b]
    BY <1>1, RosterAssumption DEF Expire, vars, redis, Shape
  <2>2. \A b \in Bots : Pending(b)' \subseteq Pending(b)
    BY <2>1 DEF Pending, At, Slots
  <2> QED BY <2>1, <2>2, BoundKept
<1> QED BY <1>1, BoundProcess, BoundBot, BoundWork, BoundApply, BoundReconcile DEF Next, Work

-----------------------------------------------------------------------------
(***************************************************************************)
(* A mark has its refresh                                                  *)
(***************************************************************************)
\* The goroutine in s will clear the mark of p.
Clears(s, p) ==
  /\ job[s].op \in {"load", "apply"} /\ job[s].proc = p
  /\ At(s, "apply") => job[s].stores /\ job[s].left = NoCommands

LEMMA MarkKept ==
  ASSUME RefreshUnderWay,
         \A p \in Procs : view'[p].refreshing =>
           /\ view[p].refreshing
           /\ \A s \in Slots : Clears(s, p) => Clears(s, p)'
  PROVE  RefreshUnderWay'
BY DEF RefreshUnderWay, Clears, At, Slots

\* A goroutine starts: none that runs is lost.
LEMMA MarkStarts ==
  ASSUME Shape, NEW j \in JobType, Starts(j), NEW p, NEW s \in Slots, Clears(s, p)
  PROVE  Clears(s, p)'
BY StartsType DEF Shape, Clears, At

LEMMA MarkProcess ==
  ASSUME Shape, RefreshUnderWay, NEW p \in Procs, Ask(p) \/ Age(p) \/ Evict(p) \/ Crash(p)
  PROVE  RefreshUnderWay'
<1>1. CASE Ask(p)
  <2> DEFINE j == [op |-> "load", proc |-> p]
  <2>1. j \in JobType /\ Starts(j)
    BY <1>1, JobMembers DEF Ask
  <2>2. PICK s \in Slots : job'[s] = j
    BY <2>1, StartsType DEF Shape
  <2>3. Clears(s, p)'
    BY <2>2 DEF Clears, At
  <2>4. \A q \in Procs : q # p => view'[q] = view[q]
    BY <1>1 DEF Ask, Shape
  <2>5. \A q \in Procs, t \in Slots : Clears(t, q) => Clears(t, q)'
    BY <2>1, MarkStarts
  <2> QED BY <2>3, <2>4, <2>5 DEF RefreshUnderWay, Clears, At, Slots
<1>2. CASE Age(p)
  <2>1. job' = job /\ \A q \in Procs : view'[q].refreshing => view[q].refreshing
    BY <1>2 DEF Age, Shape, ViewType
  <2> QED BY <2>1, MarkKept DEF Clears, At
<1>3. CASE Evict(p)
  <2>1. job' = job /\ \A q \in Procs : view'[q].refreshing => view[q].refreshing
    BY <1>3 DEF Evict, Shape, ViewType, NoView
  <2> QED BY <2>1, MarkKept DEF Clears, At
<1>4. CASE Crash(p)
  <2>1. \A q \in Procs : view'[q].refreshing => q # p /\ view[q].refreshing
    BY <1>4 DEF Crash, Shape, ViewType, NoView
  <2>2. ASSUME NEW q \in Procs, q # p, NEW s \in Slots, Clears(s, q) PROVE job'[s] = job[s]
    BY <1>4, <2>2 DEF Crash, Clears, At
  <2>3. \A q \in Procs, s \in Slots : q # p /\ Clears(s, q) => Clears(s, q)'
    BY <2>2 DEF Clears, At
  <2> QED BY <2>1, <2>3, MarkKept
<1> QED BY <1>1, <1>2, <1>3, <1>4

LEMMA MarkBot ==
  ASSUME Shape, RefreshUnderWay, NEW b \in Bots,
         JoinElsewhere(b) \/ \E p \in Procs : RecordJoin(p, b) \/ WindowPasses(p, b)
  PROVE  RefreshUnderWay'
<1>1. \A q \in Procs : view'[q].refreshing => view[q].refreshing
  BY DEF JoinElsewhere, RecordJoin, WindowPasses, Shape, ViewType
<1>2. \A q \in Procs, s \in Slots : Clears(s, q) => Clears(s, q)'
  <2>1. CASE Starts([op |-> "hset", bot |-> b])
    BY <2>1, JobMembers, MarkStarts
  <2>2. CASE UNCHANGED job
    BY <2>2 DEF Clears, At
  <2> QED BY <2>1, <2>2 DEF JoinElsewhere, RecordJoin, WindowPasses
<1> QED BY <1>1, <1>2, MarkKept

\* A goroutine that clears the mark keeps its slot, or clears it.
LEMMA MarkWork ==
  ASSUME Shape, RefreshUnderWay, NEW s \in Slots,
         \/ WriteMember(s) \/ ClearMisses(s) \/ WriteFails(s) \/ Apply(s)
         \/ Load(s) \/ LoadFails(s) \/ StoreMembers(s) \/ ApplyFails(s)
  PROVE  RefreshUnderWay'
<1>0. job[s] \in JobType /\ \A t \in Slots : t # s => job'[t] = job[t]
  BY DEF WriteMember, ClearMisses, WriteFails, Load, LoadFails, StoreMembers, Apply, ApplyFails,
         Becomes, Shape
<1>1. \A q \in Procs, t \in Slots : t # s /\ Clears(t, q) => Clears(t, q)'
  BY <1>0 DEF Clears, At
<1>2. \A q \in Procs : view'[q].refreshing => view[q].refreshing
  <2>1. CASE UNCHANGED view
    BY <2>1
  <2>2. ASSUME NEW p \in Procs, NEW got, Stored(p, got) \/ NotRefreshing(p)
        PROVE  \A q \in Procs : view'[q].refreshing => view[q].refreshing
    BY <2>2 DEF Stored, NotRefreshing, Shape, ViewType
  <2>3. At(s, "load") \/ At(s, "apply") => job[s].proc \in Procs
    BY <1>0, JobKinds DEF At, ApplyType
  <2> QED BY <2>1, <2>2, <2>3 DEF WriteMember, ClearMisses, WriteFails, Apply, Load, LoadFails,
                             StoreMembers, ApplyFails, At
<1>3. ASSUME NEW q \in Procs, Clears(s, q), view'[q].refreshing PROVE Clears(s, q)'
  <2>1. CASE Load(s)
    <3>1. job'[s] = [op |-> "apply", proc |-> q, left |-> NoCommands, stores |-> TRUE,
                     got |-> members]
      BY <1>3, <2>1 DEF Load, Becomes, Shape, Clears, At
    <3> QED BY <3>1 DEF Clears, At, NoCommands
  <2>2. CASE LoadFails(s)
    BY <1>3, <2>2 DEF LoadFails, NotRefreshing, Clears, Shape, ViewType
  <2>3. CASE StoreMembers(s)
    BY <1>3, <2>3 DEF StoreMembers, Stored, Clears, Shape, ViewType
  <2>4. CASE Apply(s) \/ ApplyFails(s)
    <3>1. job[s].left = NoCommands
      BY <1>3, <2>4 DEF Apply, ApplyFails, Clears
    <3>2. \A b \in Bots : NoCommands[b] = "none"
      BY DEF NoCommands
    <3> QED BY <2>4, <3>1, <3>2 DEF Apply, ApplyFails
  <2>5. CASE WriteMember(s) \/ ClearMisses(s) \/ WriteFails(s)
    BY <1>3, <2>5 DEF WriteMember, ClearMisses, WriteFails, Clears, At
  <2> QED BY <2>1, <2>2, <2>3, <2>4, <2>5
<1> QED BY <1>1, <1>2, <1>3, MarkKept

LEMMA MarkStep == Shape /\ RefreshUnderWay /\ [Next]_vars => RefreshUnderWay'
<1> SUFFICES ASSUME Shape, RefreshUnderWay, [Next]_vars PROVE RefreshUnderWay'
  OBVIOUS
<1>1. ASSUME NEW p \in Procs, NEW present \in SUBSET Bots, Reconcile(p, present)
      PROVE  RefreshUnderWay'
  <2>1. PICK j \in ApplyType : Starts(j)
    BY <1>1, ReconcileJob
  <2>2. \A q \in Procs, s \in Slots : Clears(s, q) => Clears(s, q)'
    BY <2>1, JobMembers, MarkStarts
  <2>3. view' = view
    BY <1>1 DEF Reconcile
  <2> QED BY <2>2, <2>3, MarkKept
<1>2. CASE Expire \/ UNCHANGED vars
  BY <1>2, MarkKept DEF Expire, vars, Clears, At
<1> QED BY <1>1, <1>2, MarkProcess, MarkBot, MarkWork DEF Next, Work

-----------------------------------------------------------------------------
(***************************************************************************)
(* The theorems                                                            *)
(***************************************************************************)
LEMMA InitInv == Init => IInv
<1> SUFFICES ASSUME Init PROVE IInv
  OBVIOUS
<1>1. Shape
  BY ShapeInit
<1>2. ASSUME NEW b \in Bots PROVE misses[b] = 0 /\ Pending(b) = {}
  BY DEF Init, Pending, At, Idle
<1>3. MissBound
  <2>1. \A b \in Bots : misses[b] + Cardinality(Pending(b)) = 0
    BY <1>2, FS_EmptySet
  <2> QED BY <1>1, <2>1, RosterAssumption DEF MissBound, Shape
<1>4. RefreshUnderWay
  BY DEF Init, RefreshUnderWay, NoView
<1> QED BY <1>1, <1>3, <1>4 DEF IInv

LEMMA InvStep == IInv /\ [Next]_vars => IInv'
BY ShapeStep, BoundStep, MarkStep DEF IInv

LEMMA InvTypes == IInv => TypeOK
<1> SUFFICES ASSUME IInv PROVE TypeOK
  OBVIOUS
<1>1. ASSUME NEW b \in Bots PROVE misses[b] \in 0..(Threshold - 2 + MaxJobs + MaxFaults)
  <2>1. /\ misses[b] \in Nat /\ faults \in 0..MaxFaults /\ Cardinality(Pending(b)) \in Nat
        /\ misses[b] + Cardinality(Pending(b)) <= Threshold - 2 + MaxJobs + faults
    BY PendingType, RosterAssumption DEF IInv, Shape, MissBound
  <2> QED BY <2>1, RosterAssumption
<1> QED BY <1>1 DEF IInv, Shape, TypeOK

\* The roster keeps its types: in particular a miss counter exceeds the
\* threshold by no more than the reconciliations that overlap or are repeated.
THEOREM TypeCorrect == Spec => []TypeOK
<1> QED BY InitInv, InvStep, InvTypes, PTL DEF Spec

\* A process that is marked as refreshing has a goroutine that will clear the
\* mark, for any number of processes and failures.
THEOREM MarksHaveRefreshes == Spec => []RefreshUnderWay
<1>1. IInv => RefreshUnderWay
  BY DEF IInv
<1> QED BY InitInv, InvStep, <1>1, PTL DEF Spec
=============================================================================
