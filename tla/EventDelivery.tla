----------------------------- MODULE EventDelivery -----------------------------
(***************************************************************************)
(* What the realtime gateway promises of each event, without streams,      *)
(* requests, sweeps or clocks: it is claimed for delivery a bounded number *)
(* of times and only while it is pending, every frame is covered by a      *)
(* claim, which reaches at most Fanout streams, and an event that is       *)
(* settled (acknowledged or superseded) never becomes pending again.       *)
(***************************************************************************)
EXTENDS Integers

CONSTANTS Events, MaxDeliveries, Fanout

VARIABLES
  status,   \* "absent", "pending" or "settled"
  claims,   \* deliveries claimed
  sent      \* frames written

Init ==
  /\ status = [e \in Events |-> "absent"]
  /\ claims = [e \in Events |-> 0]
  /\ sent = [e \in Events |-> 0]

Accept(e) ==
  /\ status[e] = "absent"
  /\ status' = [status EXCEPT ![e] = "pending"]
  /\ UNCHANGED <<claims, sent>>

Claim(e) ==
  /\ status[e] = "pending" /\ claims[e] < MaxDeliveries
  /\ claims' = [claims EXCEPT ![e] = @ + 1]
  /\ UNCHANGED <<status, sent>>

Send(e) ==
  /\ sent[e] < claims[e] * Fanout
  /\ sent' = [sent EXCEPT ![e] = @ + 1]
  /\ UNCHANGED <<status, claims>>

\* One statement may settle several events.
Settle(S) ==
  /\ \A e \in S : status[e] = "pending"
  /\ status' = [e \in Events |-> IF e \in S THEN "settled" ELSE status[e]]
  /\ UNCHANGED <<claims, sent>>

\* Retention is over.
Forget(S) ==
  /\ status' = [e \in Events |-> IF e \in S THEN "absent" ELSE status[e]]
  /\ claims' = [e \in Events |-> IF e \in S THEN 0 ELSE claims[e]]
  /\ sent' = [e \in Events |-> IF e \in S THEN 0 ELSE sent[e]]

Next ==
  \/ \E e \in Events : Accept(e) \/ Claim(e) \/ Send(e)
  \/ \E S \in SUBSET Events : Settle(S) \/ Forget(S)

Spec == Init /\ [][Next]_<<status, claims, sent>>
=============================================================================
