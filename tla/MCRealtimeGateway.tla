--------------------------- MODULE MCRealtimeGateway ---------------------------
(***************************************************************************)
(* Instances of RealtimeGateway for TLC.                                   *)
(***************************************************************************)
EXTENDS RealtimeGateway, TLC

CONSTANTS e1, e2, e3, p1, p2, s1, s2, a1, a2

\* Slots of streams, requests and events are interchangeable.
Symmetry == Permutations(Streams) \union Permutations(Posts)
              \union Permutations(Requests) \union Permutations(Events)
=============================================================================
