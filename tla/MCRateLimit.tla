---------------------------- MODULE MCRateLimit ----------------------------
(***************************************************************************)
(* Instances of RateLimit for TLC.                                         *)
(***************************************************************************)
EXTENDS RateLimit, TLC

\* All connections share one IP.
AllOne == [c \in Conns |-> "ip1"]

ConnSymmetry == Permutations(Conns)
=============================================================================
