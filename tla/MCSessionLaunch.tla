--------------------------- MODULE MCSessionLaunch ---------------------------
(* Symmetric launchers, container slots and fingerprints.                    *)
EXTENDS SessionLaunch, TLC

Symmetry == Permutations(Launcher) \union Permutations(Container)
              \union Permutations(Fingerprint)
=============================================================================
