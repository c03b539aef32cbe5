---------------------------- MODULE MCDiscovery ----------------------------
(***************************************************************************)
(* Small instances of Discovery.                                           *)
(***************************************************************************)
EXTENDS Discovery, TLC

CONSTANTS c1, c2, w1, w2

\* Every deck is listed under c1, some are listed under c2 as well.
MCCardSets == {{c1}, {c1, c2}}

\* The workers are interchangeable.
MCSymmetry == Permutations(Workers)
=============================================================================
