------------------------------ MODULE MCScraper ------------------------------
(***************************************************************************)
(* Small instances of Scraper: one format, d1 is older than d2.            *)
(***************************************************************************)
EXTENDS Scraper, TLC

CONSTANTS d1, d2, w1

MCRank == (d1 :> 0) @@ (d2 :> 0)
MCBorn == (d1 :> 1) @@ (d2 :> 2)
=============================================================================
