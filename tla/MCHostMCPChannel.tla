-------------------------- MODULE MCHostMCPChannel --------------------------
(* Instances of HostMCPChannel for TLC.                                    *)
EXTENDS HostMCPChannel, TLC

\* Connection slots and launchers are interchangeable.
Symmetry == Permutations(Conn) \union Permutations(Launcher)

\* Bound of the safety runs: no later launch reuses a session whose launcher was
\* not told of it.
UntoldBound == untold => \A l \in Launcher : mode[l] # "reuse"

\* Bound of the passing runs: one lease at a time has a read error, and no signal
\* reaches a relay while that error is not dealt with.
ErrorBound ==
  LET failed == {c \in Conn : handler[c] \in {"readError", "error"}}
  IN Cardinality(failed) <= 1 /\ (failed # {} => ~signalled)

\* Bound of the liveness run: launchers do not probe, which only reads, and no
\* process gets a signal (the session may be killed, its supervisor may end, and
\* the sidecar may be killed). A launcher may stop for ever, and is told of the
\* session it creates.
LiveBound ==
  /\ \A l \in Launcher : lpc'[l] # "await"
  /\ ~sctx' /\ ~signalled' /\ ~untold'
=============================================================================
