----------------------------- MODULE MCExchange -----------------------------
(* RconExchange on small instances. *)
EXTENDS RconService, TLC

CallerSymmetry == Permutations(Callers)
=============================================================================
