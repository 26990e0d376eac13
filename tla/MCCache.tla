------------------------------ MODULE MCCache -------------------------------
(* Small instances of SessionCache. *)
EXTENDS SessionCache, TLC

OneBackend   == {[Addr |-> "h", Password |-> "p"]}
TwoPasswords == {[Addr |-> "h", Password |-> "p"], [Addr |-> "h", Password |-> "q"]}

RequestSymmetry == Permutations(Requests)
=============================================================================
