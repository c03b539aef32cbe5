---------------------------- MODULE MCFetchWorker ----------------------------
(***************************************************************************)
(* Small instances of FetchWorker.                                         *)
(***************************************************************************)
EXTENDS FetchWorker

CONSTANTS d1, d2, d3
=============================================================================
