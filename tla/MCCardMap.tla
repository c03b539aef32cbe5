------------------------------ MODULE MCCardMap ------------------------------
(***************************************************************************)
(* Small instances of CardMap.                                             *)
(***************************************************************************)
EXTENDS CardMap, TLC

CONSTANTS a, b, s1, s2

MCPrinted == (a :> "legal") @@ (b :> "not_legal")

\* The seeders are interchangeable.
MCSymmetry == Permutations(Seeders)
=============================================================================
