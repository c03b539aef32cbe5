----------------------------- MODULE MCSubmitTx -----------------------------
(***************************************************************************)
(* A small instance of SubmitTx: two submissions with different versions   *)
(* of a list and a post with newer stamps.                                 *)
(***************************************************************************)
EXTENDS SubmitTx, TLC

CONSTANTS a, b, c, d1, d2, s1, s2, p1

MCListOf  == (s1 :> {a, b}) @@ (s2 :> {a, b, c}) @@ (Old :> {c})
MCStampOf == (p1 :> 2)
=============================================================================
