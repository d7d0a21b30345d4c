----------------------------- MODULE MCSession -----------------------------
(* Session for TLC: clients that are all alike. *)
EXTENDS Session, TLC

Symmetry == Permutations(Clients)
=============================================================================
