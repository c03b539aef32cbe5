---------------------------- MODULE MCDeckQueue ----------------------------
(***************************************************************************)
(* Small instances of DeckQueue.                                           *)
(***************************************************************************)
EXTENDS DeckQueue, TLC

CONSTANTS d1, w1, w2

MCOneRank == (d1 :> 0)

\* The workers are interchangeable.
MCSymmetry == Permutations(Workers)
=============================================================================
