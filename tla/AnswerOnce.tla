------------------------------ MODULE AnswerOnce ------------------------------
(***************************************************************************)
(* What the response election promises the user of a group with several    *)
(* bots, without Redis, clocks or failures: the deliveries of one command  *)
(* are executed one at a time, each at most once, and the result of an     *)
(* execution is delivered at most once, after the execution, and never     *)
(* replaced by another delivery.                                           *)
(***************************************************************************)
CONSTANTS Reqs, NoReq

VARIABLES
  running,    \* the deliveries being executed
  executed,   \* those whose execution has started
  answer      \* for each execution, the delivery that answered with it

Init ==
  /\ running = {}
  /\ executed = {}
  /\ answer = [r \in Reqs |-> NoReq]

Start(r) ==
  /\ running = {} /\ r \notin executed
  /\ running' = {r}
  /\ executed' = executed \union {r}
  /\ UNCHANGED answer

Stop(r) ==
  /\ r \in running
  /\ running' = {}
  /\ UNCHANGED <<executed, answer>>

Deliver(r, s) ==
  /\ r \in executed \ running
  /\ answer[r] = NoReq
  /\ answer' = [answer EXCEPT ![r] = s]
  /\ UNCHANGED <<running, executed>>

Next ==
  \/ \E r \in Reqs : Start(r) \/ Stop(r)
  \/ \E r, s \in Reqs : Deliver(r, s)

Spec == Init /\ [][Next]_<<running, executed, answer>>
=============================================================================
