----------------------------- MODULE MCPlayout -----------------------------
(***************************************************************************)
(* Instances of Playout for TLC.                                           *)
(***************************************************************************)
EXTENDS Playout
=============================================================================
