-------------------------- MODULE MCSessionManager --------------------------
(* SessionManager for TLC: wrappers are interchangeable.                   *)
EXTENDS SessionManager, TLC

Symmetry == Permutations(Wrapper)
=============================================================================
