------------------------------ MODULE MCStartup ------------------------------
(* Startup for TLC: helpers and commands are interchangeable.              *)
EXTENDS Startup, TLC

Symmetry == Permutations(Helpers) \cup Permutations(Clients)
=============================================================================
