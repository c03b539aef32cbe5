---------------------------- MODULE MCSweepCycle ----------------------------
(***************************************************************************)
(* Small instances of SweepCycle: two units, of two formats.               *)
(***************************************************************************)
EXTENDS SweepCycle, TLC

CONSTANTS u1, u2, w1, w2

MCFormatOf == (u1 :> 1) @@ (u2 :> 2)

\* The workers are interchangeable.
MCSymmetry == Permutations(Workers)
=============================================================================
