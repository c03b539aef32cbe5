---------------------------- MODULE MCTokenBucket ----------------------------
(***************************************************************************)
(* Small instances of TokenBucket.                                         *)
(***************************************************************************)
EXTENDS TokenBucket

CONSTANTS t1, t2
=============================================================================
