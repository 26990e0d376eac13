------------------------------ MODULE MCServer ------------------------------
(* RconServer on small instances. *)
EXTENDS RconServer, TLC

(* Connections and listeners are interchangeable in the safety runs. *)
ServerSymmetry == Permutations(Conns \ CtxHandlers) \cup Permutations(Listeners)
=============================================================================
