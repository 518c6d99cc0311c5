-------------------------- MODULE MCResponseElection --------------------------
(***************************************************************************)
(* Instances of ResponseElection for TLC: three deliveries r1, r2, r3.     *)
(***************************************************************************)
EXTENDS ResponseElection, TLC

CONSTANTS r1, r2, r3, b1, b2, b3, p1, p2, p3

MCReqs == {r1, r2, r3}

\* Three bots observe one message; two of them are served by one process.
ThreeBots == (r1 :> b1) @@ (r2 :> b2) @@ (r3 :> b3)
TwoProcs == (r1 :> p1) @@ (r2 :> p1) @@ (r3 :> p2)
ThreeProcs == (r1 :> p1) @@ (r2 :> p2) @@ (r3 :> p3)
OneEvent == [r \in MCReqs |-> 1]

\* The user sends the command again: r2 is newer than r1, r3 is r1 once more.
Resent == (r1 :> 1) @@ (r2 :> 2) @@ (r3 :> 1)

\* Two bots observe what the user sent again: r2 and r3 are newer than r1.
ResentToTwo == (r1 :> 1) @@ (r2 :> 2) @@ (r3 :> 2)

\* No client reports an event time.
NoEventTime == [r \in MCReqs |-> 0]
=============================================================================
