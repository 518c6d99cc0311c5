--------------------------- MODULE MCElectionRoster ---------------------------
(***************************************************************************)
(* An instance of ElectionRoster for TLC.                                  *)
(***************************************************************************)
EXTENDS ElectionRoster
===============================================================================
