---------------------------- MODULE MCLedgerApp ----------------------------
(***************************************************************************)
(* Instances of LedgerApp for TLC.  Five appends get past the three empty  *)
(* blocks a new leader proposes first, and commit one of the next.         *)
(***************************************************************************)
EXTENDS LedgerApp

MCHashes == {"h1", "h2", "h3", "h4", "h5"}
=============================================================================
