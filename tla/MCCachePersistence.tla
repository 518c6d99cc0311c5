---------------------------- MODULE MCCachePersistence ----------------------------
(***************************************************************************)
(* An instance of CachePersistence for TLC: refreshes of one cache, across *)
(* restarts of its process.                                                *)
(***************************************************************************)
EXTENDS CachePersistence
===================================================================================
