----------------------------- MODULE MCGateways -----------------------------
(* The gateway registry with small sets of gateways and goroutines. *)
EXTENDS Gateways, TLC

(* MACs, and the goroutines that call set, are interchangeable. *)
Symmetry == Permutations(MAC) \cup Permutations(Setter)
=============================================================================
