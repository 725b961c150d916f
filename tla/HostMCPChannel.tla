--------------------------- MODULE HostMCPChannel ---------------------------
(***************************************************************************)
(* One host-MCP channel with everything that uses it: the relay sidecar    *)
(* (module Relay), the session process that leases it                      *)
(* (internal/container/hostmcp.go), and the launchers that create, adopt,  *)
(* probe and clean up (internal/launcher/host_mcp.go,                      *)
(* internal/launcher/hostmcp/channel.go). The session container may be of  *)
(* the kind Docker keeps when it stops; it is then started again on the    *)
(* generation directory it recorded.                                       *)
(***************************************************************************)
EXTENDS Relay

CONSTANTS Launcher,        \* launcher processes
          KeepContainer    \* the session container outlives its process

ASSUME KeepContainerAssumption == KeepContainer \in BOOLEAN

VARIABLES
  sess,      \* the session container and the supervisor in it
  hpc,       \* dialLease during bootstrap, the goroutine of holdLease after it
  held,      \* the connection (at most one) that goroutine works on
  lease,     \* hostMCPChannel.lease
  parting,   \* the lease close has taken out and not closed yet
  closed,    \* hostMCPChannel.closed
  done,      \* hostMCPChannel.done is closed
  sctx,      \* the session context is cancelled
  mine,      \* history: connections dialed by the session process that runs
  lpc,       \* where each launcher is
  mode,      \* what each launcher does with the channel
  probe,     \* the probe connection (at most one) of each launcher
  untold     \* history: a launcher created the session and was not told

leaseHolderVars == <<hpc, held, lease, parting, closed, done, sctx, mine>>
launcherVars == <<lpc, mode, probe, untold>>
vars == <<relayVars, sess, leaseHolderVars, launcherVars>>

\* The session still needs its channel.
Alive == sess \in {"bootstrap", "leased", "serving"}
SessionRuns == Alive \/ sess \in {"closing", "closed"}

SessionTypeOK ==
  /\ sess \in {"none", "bootstrap", "leased", "serving", "closing", "closed",
               "stopped", "gone"}
  /\ hpc \in {"off", "dial", "write", "backoff", "adopt", "watch", "hold",
              "gone"}
  /\ held \in SUBSET Conn /\ lease \in SUBSET Conn /\ parting \in SUBSET Conn
  /\ closed \in BOOLEAN /\ done \in BOOLEAN /\ sctx \in BOOLEAN
  /\ mine \in SUBSET Conn

LauncherTypeOK ==
  /\ lpc \in [Launcher -> {"idle", "create", "conflict", "awaitName",
              "recreate", "start", "awaitSession", "probe", "await", "alive",
              "failed", "stopSidecar", "awaitStop", "removeDir"}]
  /\ mode \in [Launcher -> {"none", "cold", "made", "keepDir", "restart",
                            "reuse"}]
  /\ probe \in [Launcher -> SUBSET Conn]
  /\ untold \in BOOLEAN

TypeOK == RelayTypeOK /\ SessionTypeOK /\ LauncherTypeOK

Init ==
  /\ RelayInit
  /\ sess = "none" /\ hpc = "off"
  /\ held = {} /\ lease = {} /\ parting = {}
  /\ closed = FALSE /\ done = FALSE /\ sctx = FALSE /\ mine = {}
  /\ lpc = [l \in Launcher |-> "idle"]
  /\ mode = [l \in Launcher |-> "none"]
  /\ probe = [l \in Launcher |-> {}]
  /\ untold = FALSE

-----------------------------------------------------------------------------
(* Dialing control.sock.                                                   *)

\* A stale entry refuses the connection, an absent one does not exist.
Connectable == Control \in entry /\ Control \in bound

\* A connect succeeds once the kernel has queued it. (The slot is one that the
\* session does not remember a closed connection by.)
Connect(c) ==
  /\ Connectable /\ Free(c)
  /\ c \notin held \union lease \union parting
  /\ handler' = [handler EXCEPT ![c] = "queued"]
  /\ open' = open \union {c}

Hangup(cs) == open' = open \ cs

\* The session closes a connection it need not remember: only one that has
\* been read to EOF matters afterwards.
Forget(c) ==
  /\ Hangup({c})
  /\ mine' = IF ReadToEnd(c) THEN mine ELSE mine \ {c}

relayRest == <<runVars, sockVars, leaseVars, dirVars>>

-----------------------------------------------------------------------------
(* The session: startHostMCP, dialLease, attachLease, holdLease.           *)

\* The session's mount shows the directory at the path only while that is
\* the directory the container was started on.
DialLease(c) ==
  /\ hpc = "dial" /\ dir = "mounted"
  /\ Connect(c)
  /\ hpc' = "write"
  /\ held' = {c}
  /\ mine' = mine \union {c}
  /\ UNCHANGED <<relayRest, byte, sess, lease, parting, closed, done, sctx,
                 launcherVars>>

DialFails ==
  /\ hpc = "dial" /\ (dir = "mounted" => ~Connectable)
  /\ hpc' = "backoff"
  /\ UNCHANGED <<relayVars, sess, held, lease, parting, closed, done, sctx,
                 mine, launcherVars>>

\* The role byte is all the session ever sends; no answer is awaited, so a
\* refused lease looks like an accepted one. The first lease ends dialLease;
\* later ones go through adoptLease.
WriteRole(c) ==
  /\ hpc = "write" /\ c \in held /\ ~Hungup(c)
  /\ byte' = [byte EXCEPT ![c] = "lease"]
  /\ IF sess = "bootstrap"
       THEN hpc' = "watch" /\ held' = {} /\ lease' = {c} /\ sess' = "leased"
       ELSE hpc' = "adopt" /\ UNCHANGED <<held, lease, sess>>
  /\ UNCHANGED <<relayRest, handler, open, parting, closed, done, sctx, mine,
                 launcherVars>>

WriteRoleFails(c) ==
  /\ hpc = "write" /\ c \in held /\ Hungup(c)
  /\ Forget(c)
  /\ held' = {}
  /\ hpc' = "backoff"
  /\ UNCHANGED <<relayRest, handler, byte, sess, lease, parting,
                 closed, done, sctx, launcherVars>>

\* LeaseRetryInterval is over. A select that could also have seen the end
\* may still choose this.
RetryElapsed ==
  /\ hpc = "backoff"
  /\ hpc' = "dial"
  /\ UNCHANGED <<relayVars, sess, held, lease, parting, closed, done, sctx,
                 mine, launcherVars>>

\* PreLeaseDeadline, or a signal: Serve returns the error.
BootstrapFails ==
  /\ hpc = "backoff" /\ sess = "bootstrap"
  /\ hpc' = "gone"
  /\ sess' = "closed"
  /\ UNCHANGED <<relayVars, held, lease, parting, closed, done, sctx, mine,
                 launcherVars>>

RetryStops ==
  /\ hpc = "backoff" /\ sess # "bootstrap"
  /\ done \/ sctx
  /\ hpc' = "gone"
  /\ UNCHANGED <<relayVars, sess, held, lease, parting, closed, done, sctx,
                 mine, launcherVars>>

\* Mutant of AdoptLease: closed is not looked at under the mutex.
AdoptLeaseAnyway(c) ==
  /\ hpc = "adopt" /\ c \in held
  /\ lease' = {c} /\ hpc' = "watch"
  /\ held' = {}
  /\ UNCHANGED <<relayRest, connVars, sess, parting, closed, done, sctx, mine,
                 launcherVars>>

AdoptLease(c) ==
  /\ hpc = "adopt" /\ c \in held
  /\ IF closed
       THEN Hangup({c}) /\ hpc' = "gone" /\ UNCHANGED lease
       ELSE lease' = {c} /\ hpc' = "watch" /\ UNCHANGED open
  /\ held' = {}
  /\ UNCHANGED <<relayRest, handler, byte, sess, parting, closed,
                 done, sctx, mine, launcherVars>>

\* currentLease: nil once the channel is closed.
WatchLease ==
  /\ hpc = "watch"
  /\ hpc' = IF lease = {} THEN "gone" ELSE "hold"
  /\ held' = lease
  /\ UNCHANGED <<relayVars, sess, lease, parting, closed, done, sctx, mine,
                 launcherVars>>

\* Mutant of LoseLease: the goroutine ends with its lease.
LoseLeaseForGood(c) ==
  /\ hpc = "hold" /\ c \in held
  /\ Hungup(c) \/ c \notin open
  /\ Forget(c)
  /\ held' = {} /\ lease' = {}
  /\ hpc' = "gone"
  /\ UNCHANGED <<relayRest, handler, byte, sess, parting,
                 closed, done, sctx, launcherVars>>

\* The relay has hung up, or close has closed the lease. (The field keeps the
\* closed connection, which means no more than none.)
LoseLease(c) ==
  /\ hpc = "hold" /\ c \in held
  /\ Hungup(c) \/ c \notin open
  /\ Forget(c)
  /\ held' = {} /\ lease' = {}
  /\ hpc' = IF sctx THEN "gone" ELSE "backoff"
  /\ UNCHANGED <<relayRest, handler, byte, sess, parting,
                 closed, done, sctx, launcherVars>>

-----------------------------------------------------------------------------
(* The session: the supervisor around the channel.                         *)

SessionServes ==
  /\ sess = "leased"
  /\ sess' = "serving"
  /\ UNCHANGED <<relayVars, leaseHolderVars, launcherVars>>

CancelSession ==
  /\ SessionRuns /\ ~sctx
  /\ sctx' = TRUE
  /\ UNCHANGED <<relayVars, sess, hpc, held, lease, parting, closed, done, mine,
                 launcherVars>>

\* The supervisor is over, for whatever reason: the first half of close.
CloseChannel ==
  /\ sess \in {"leased", "serving"}
  /\ sess' = "closing"
  /\ closed' = TRUE
  /\ lease' = {} /\ parting' = lease
  /\ UNCHANGED <<relayVars, hpc, held, done, sctx, mine, launcherVars>>

CloseLease ==
  /\ sess = "closing"
  /\ sess' = "closed"
  /\ done' = TRUE
  /\ Hangup(parting)
  /\ parting' = {}
  /\ UNCHANGED <<relayRest, handler, byte, hpc, held, lease,
                 closed, sctx, mine, launcherVars>>

\* The process is gone; Docker keeps the container or removes it. Nothing has
\* the directory mounted any more.
SessionGone ==
  /\ sess' = IF KeepContainer THEN "stopped" ELSE "gone"
  /\ Hangup(mine)
  /\ hpc' = "off" /\ held' = {} /\ lease' = {} /\ parting' = {}
  /\ closed' = FALSE /\ done' = FALSE /\ sctx' = FALSE /\ mine' = {}
  /\ dir' = IF dir = "mounted" THEN "fresh" ELSE dir
  /\ UNCHANGED <<runVars, sockVars, leaseVars, entry, handler, byte>>

SessionExits == sess = "closed" /\ SessionGone /\ UNCHANGED launcherVars

SessionKilled == SessionRuns /\ SessionGone /\ UNCHANGED launcherVars

\* A container starts on the directory at the path.
StartSession ==
  /\ dir # "absent"
  /\ dir' = "mounted"
  /\ sess' = "bootstrap"
  /\ hpc' = "dial"

-----------------------------------------------------------------------------
(* A launcher: which of the three paths it takes.                          *)

Goto(l, pc) == lpc' = [lpc EXCEPT ![l] = pc]

Begin(l, m) ==
  /\ lpc[l] = "idle"
  /\ Goto(l, "create")
  /\ mode' = [mode EXCEPT ![l] = m]

\* os.Mkdir; EnsureChannel accepts a directory that exists.
MakeDir == dir' = IF dir = "absent" THEN "fresh" ELSE dir

\* NewChannel: the generation belongs to one cold attempt. (An attempt that
\* failed has left nothing; the next generation looks the same.)
PlanCold(l) ==
  /\ sess = "none"
  /\ \A k \in Launcher : mode[k] \notin {"cold", "made", "keepDir"}
  /\ dir = "absent" /\ rpc = "none"
  /\ Begin(l, "cold")
  /\ MakeDir
  /\ UNCHANGED <<runVars, sockVars, leaseVars, entry, connVars, sess,
                 leaseHolderVars, probe, untold>>

\* restartContainer, prepareHostMCPRestart: EnsureChannel.
PlanRestart(l) ==
  /\ sess = "stopped"
  /\ Begin(l, "restart")
  /\ MakeDir
  /\ UNCHANGED <<runVars, sockVars, leaseVars, entry, connVars, sess,
                 leaseHolderVars, probe, untold>>

\* A running session that answers wait-ready: reuseHostMCP.
PlanReuse(l) ==
  /\ sess = "serving"
  /\ Begin(l, "reuse")
  /\ UNCHANGED <<relayVars, sess, leaseHolderVars, probe, untold>>

-----------------------------------------------------------------------------
(* A launcher: ensureSidecar, awaitSidecarName.                            *)

\* What follows ensureSidecar.
Ensured(l) == IF mode[l] = "reuse" THEN "probe" ELSE "start"

CreateSidecar(l) ==
  /\ lpc[l] \in {"create", "recreate"}
  /\ StartSidecar
  /\ Goto(l, Ensured(l))
  /\ UNCHANGED <<sess, leaseHolderVars, mode, probe, untold>>

NameTaken(l) ==
  /\ lpc[l] \in {"create", "recreate"} /\ rpc # "none"
  /\ Goto(l, IF lpc[l] = "create" THEN "conflict" ELSE "failed")
  /\ UNCHANGED <<relayVars, sess, leaseHolderVars, mode, probe, untold>>

InspectSidecar(l) ==
  /\ lpc[l] = "conflict"
  /\ Goto(l, IF SidecarRuns THEN Ensured(l) ELSE "awaitName")
  /\ UNCHANGED <<relayVars, sess, leaseHolderVars, mode, probe, untold>>

AwaitSidecarName(l) ==
  /\ lpc[l] = "awaitName"
  /\ \/ rpc = "none" /\ Goto(l, "recreate")
     \/ SidecarRuns /\ Goto(l, Ensured(l))
  /\ UNCHANGED <<relayVars, sess, leaseHolderVars, mode, probe, untold>>

\* Any Docker command fails, or a bounded wait runs out. Without a sidecar of
\* its own a cold attempt has only the directory to remove.
BeforeSidecar == {"create", "conflict", "awaitName", "recreate"}
LaunchFails(l) ==
  /\ lpc[l] \in BeforeSidecar \union {"start", "awaitSession", "alive"}
  /\ Goto(l, IF mode[l] = "cold" /\ lpc[l] \in BeforeSidecar
             THEN "removeDir" ELSE "failed")
  /\ UNCHANGED <<relayVars, sess, leaseHolderVars, mode, probe, untold>>

\* docker run reports a failure, or is cut off, after Docker has created the
\* sidecar.
SidecarUntold(l) ==
  /\ lpc[l] \in {"create", "recreate"}
  /\ StartSidecar
  /\ Goto(l, IF mode[l] = "cold" THEN "removeDir" ELSE "failed")
  /\ UNCHANGED <<sess, leaseHolderVars, mode, probe, untold>>

-----------------------------------------------------------------------------
(* A launcher: docker run or docker start, then the waits for readiness.   *)

\* A start of a container that runs already changes nothing.
LaunchSession(l) ==
  /\ lpc[l] = "start"
  /\ IF SessionRuns
       THEN UNCHANGED <<dir, sess, hpc>>
       ELSE sess \in {"none", "stopped"} /\ StartSession
  /\ Goto(l, "awaitSession")
  /\ mode' = [mode EXCEPT ![l] = IF @ = "cold" THEN "made" ELSE @]
  /\ UNCHANGED <<runVars, sockVars, leaseVars, entry, connVars, held, lease,
                 parting, closed, done, sctx, mine, probe, untold>>

\* docker run is cut off by sessionCreateTimeout when Docker has created the
\* session: its ID is not recorded.
SessionUntold(l) ==
  /\ lpc[l] = "start" /\ mode[l] = "cold" /\ sess = "none"
  /\ StartSession
  /\ Goto(l, "failed")
  /\ untold' = TRUE
  /\ UNCHANGED <<runVars, sockVars, leaseVars, entry, connVars, held, lease,
                 parting, closed, done, sctx, mine, mode, probe>>

\* wait-ready answers. A restarted session is then reused like a running one.
AwaitSession(l) ==
  /\ lpc[l] = "awaitSession" /\ sess = "serving"
  /\ IF mode[l] = "made"
       THEN Goto(l, "probe") /\ UNCHANGED mode
       ELSE Goto(l, "create") /\ mode' = [mode EXCEPT ![l] = "reuse"]
  /\ UNCHANGED <<relayVars, sess, leaseHolderVars, probe, untold>>

SendProbe(l, c) ==
  /\ lpc[l] = "probe" /\ dir # "absent"
  /\ Connect(c)
  /\ byte' = [byte EXCEPT ![c] = "probe"]
  /\ probe' = [probe EXCEPT ![l] = {c}]
  /\ mine' = mine \ {c}
  /\ Goto(l, "await")
  /\ UNCHANGED <<relayRest, sess, hpc, held, lease, parting, closed, done, sctx,
                 mode, untold>>

ProbeFails(l) ==
  /\ lpc[l] = "probe" /\ ~Connectable
  /\ Goto(l, "alive")
  /\ UNCHANGED <<relayVars, sess, leaseHolderVars, mode, probe, untold>>

\* The answer is read, or the connection ends or times out without one. Only
\* Ready ends the launch well: the command starts.
ReadAnswer(l, c) ==
  /\ lpc[l] = "await" /\ c \in probe[l]
  /\ Hangup({c})
  /\ probe' = [probe EXCEPT ![l] = {}]
  /\ IF handler[c] = "ready"
       THEN /\ Goto(l, "idle") /\ mode' = [mode EXCEPT ![l] = "none"]
            /\ handler' = [handler EXCEPT ![c] = "shut"]
       ELSE Goto(l, "alive") /\ UNCHANGED <<mode, handler>>
  /\ UNCHANGED <<relayRest, byte, sess, leaseHolderVars, untold>>

\* requireHostMCPContainersAlive.
RequireAlive(l) ==
  /\ lpc[l] = "alive"
  /\ Goto(l, IF SessionRuns /\ SidecarRuns THEN "probe" ELSE "failed")
  /\ UNCHANGED <<relayVars, sess, leaseHolderVars, mode, probe, untold>>

-----------------------------------------------------------------------------
(* A launcher: cleanupCandidate.                                           *)

\* Only a cold attempt owns the generation.
GiveUp(l) ==
  /\ lpc[l] = "failed" /\ mode[l] \in {"restart", "reuse"}
  /\ Goto(l, "idle")
  /\ mode' = [mode EXCEPT ![l] = "none"]
  /\ UNCHANGED <<relayVars, sess, leaseHolderVars, probe, untold>>

\* No session is known: only the sidecar is stopped.
SkipSession(l) ==
  /\ lpc[l] = "failed" /\ mode[l] = "cold"
  /\ Goto(l, "stopSidecar")
  /\ UNCHANGED <<relayVars, sess, leaseHolderVars, mode, probe, untold>>

\* Mutant of StopSessionFails: the error is logged and forgotten.
StopSessionFailsUnnoticed(l) ==
  /\ lpc[l] = "failed" /\ mode[l] = "made"
  /\ Goto(l, "stopSidecar")
  /\ UNCHANGED <<relayVars, sess, leaseHolderVars, mode, probe, untold>>

\* The sidecar is stopped all the same, the directory is not removed.
StopSessionFails(l) ==
  /\ lpc[l] = "failed" /\ mode[l] = "made"
  /\ Goto(l, "stopSidecar")
  /\ mode' = [mode EXCEPT ![l] = "keepDir"]
  /\ UNCHANGED <<relayVars, sess, leaseHolderVars, probe, untold>>

\* The stop returns when the session has ended.
StopSession(l) ==
  /\ lpc[l] = "failed" /\ mode[l] = "made"
  /\ IF SessionRuns
       THEN SessionGone
       ELSE UNCHANGED <<relayVars, sess, leaseHolderVars>>
  /\ Goto(l, "stopSidecar")
  /\ UNCHANGED <<mode, probe, untold>>

StopSidecar(l) ==
  /\ lpc[l] = "stopSidecar"
  /\ signalled' = (signalled \/ SidecarRuns)
  /\ Goto(l, "awaitStop")
  /\ UNCHANGED <<rpc, removing, sockVars, leaseVars, dirVars, connVars, sess,
                 leaseHolderVars, mode, probe, untold>>

CleanupOver(l) ==
  /\ Goto(l, "idle")
  /\ mode' = [mode EXCEPT ![l] = "none"]

AwaitStop(l) ==
  /\ lpc[l] = "awaitStop" /\ rpc = "none"
  /\ IF mode[l] \in {"cold", "made"}
       THEN Goto(l, "removeDir") /\ UNCHANGED mode
       ELSE CleanupOver(l)
  /\ UNCHANGED <<relayVars, sess, leaseHolderVars, probe, untold>>

RemoveCandidate(l) ==
  /\ lpc[l] = "removeDir"
  /\ RemoveAll
  /\ CleanupOver(l)
  /\ UNCHANGED <<runVars, sockVars, leaseVars, connVars, sess,
                 leaseHolderVars, probe, untold>>

\* The sidecar cannot be stopped, or its name is not released in time.
CleanupFails(l) ==
  /\ lpc[l] \in {"stopSidecar", "awaitStop"}
  /\ CleanupOver(l)
  /\ UNCHANGED <<relayVars, sess, leaseHolderVars, probe, untold>>

-----------------------------------------------------------------------------

\* A session that dials the relay every LeaseRetryInterval when it has no lease.
Retrying == Alive /\ dir = "mounted"

Expire == InitialLeaseTimeout(Retrying)

RelayNext ==
  \/ RunStep \/ Expire \/ ReleaseName \/ RelayFails
  \/ \E c \in Conn : HandlerStep(c)

LeaseHolderStep ==
  \/ \E c \in Conn : \/ DialLease(c) \/ WriteRole(c) \/ WriteRoleFails(c)
                     \/ AdoptLease(c) \/ LoseLease(c)
  \/ DialFails \/ WatchLease \/ RetryElapsed \/ RetryStops

SupervisorStep == SessionServes \/ CloseLease \/ SessionExits

SessionNext ==
  \/ LeaseHolderStep \/ SupervisorStep
  \/ BootstrapFails \/ CancelSession \/ CloseChannel \/ SessionKilled

LauncherNext(l) ==
  \/ PlanCold(l) \/ PlanRestart(l) \/ PlanReuse(l)
  \/ CreateSidecar(l) \/ NameTaken(l) \/ InspectSidecar(l)
  \/ AwaitSidecarName(l) \/ LaunchFails(l) \/ SidecarUntold(l)
  \/ LaunchSession(l) \/ SessionUntold(l) \/ AwaitSession(l)
  \/ ProbeFails(l) \/ RequireAlive(l)
  \/ \E c \in Conn : SendProbe(l, c) \/ ReadAnswer(l, c)
  \/ GiveUp(l) \/ SkipSession(l) \/ StopSession(l) \/ StopSessionFails(l) \/ StopSidecar(l)
  \/ AwaitStop(l) \/ RemoveCandidate(l) \/ CleanupFails(l)

Next ==
  \/ RelayNext /\ UNCHANGED <<sess, leaseHolderVars, launcherVars>>
  \/ SessionNext
  \/ \E l \in Launcher : LauncherNext(l)

Spec == Init /\ [][Next]_vars

\* Goroutines that can take a step take it, and timers that run expire. No
\* failure is owed, no step of a launcher and nothing Docker does later.
Fairness ==
  /\ WF_vars(RunStep /\ UNCHANGED <<sess, leaseHolderVars, launcherVars>>)
  /\ WF_vars(Expire /\ UNCHANGED <<sess, leaseHolderVars, launcherVars>>)
  /\ \A c \in Conn :
       WF_vars(HandlerStep(c) /\ UNCHANGED <<sess, leaseHolderVars,
                                            launcherVars>>)
  /\ WF_vars(LeaseHolderStep)
  /\ WF_vars(SupervisorStep)

FairSpec == Spec /\ Fairness

-----------------------------------------------------------------------------
(* Properties.                                                             *)

\* channel.bind and channel.close: control.sock answers only while every
\* endpoint socket does, in the window of startup as in that of shutdown.
ControlMeansComplete ==
  Connectable => Endpoint \subseteq bound /\ Endpoint \subseteq entry

\* handleControl: a relay decides to answer Ready, and writes it, only when it has
\* granted a lease and serves every endpoint, however the two loads, the write
\* and the steps of close interleave. The exceptions: the sockets are not at
\* their path once a launcher unwinds a session it was not told of, and close may
\* come between the load of shuttingDown and the write, so that a Ready is still
\* written from a channel that is closing (against relay.go:247-249).
ReadyIsTruthful ==
  [][\A c \in Conn :
       /\ handler[c] # "cleared" /\ handler'[c] = "cleared" =>
            /\ established /\ Endpoint \subseteq bound
            /\ Endpoint \subseteq entry \/ untold
       /\ handler[c] # "ready" /\ handler'[c] = "ready" =>
            /\ established
            /\ Endpoint \subseteq bound \/ shuttingDown]_vars

\* Run: the directory is on its way out only if a lease read EOF, and the
\* session process that held that lease has let go of its channel: no read
\* error, signal, refused lease, timeout or reconnection can be taken for it.
RemovalProvesSessionGone ==
  removing => \E c \in ended : handler[c] = "eof" /\ ~(c \in mine /\ Alive)

\* A session that runs sees the sockets of its channel: the directory it has
\* mounted is the one at the path, in which a later sidecar binds. The
\* exception is a session whose launcher was not told that it was created, and
\* which unwinds the generation without stopping it (host_mcp.go:229-234).
MountIsIntact == Alive /\ ~untold => dir = "mounted"

\* hostMCPChannel.close against holdLease: a reconnection in progress installs
\* no lease in a channel that was closed meanwhile, and once the goroutine has
\* ended no lease is left open that would keep the relay waiting.
ClosedLeaksNothing ==
  /\ closed => lease = {}
  /\ sess = "closed" /\ hpc = "gone" => mine \intersect open = {}

\* Run: a sidecar whose session is over does not stay, whether it was ever
\* leased, is still starting, or has lost its accept loop.
OrphanedSidecarExits ==
  (SidecarRuns /\ ~SessionRuns) ~> (~SidecarRuns \/ SessionRuns)

\* holdLease against serveControl: a sidecar that replaces a dead one gets the
\* lease of the running session, unless one of the two fails or is stopped.
RecoveryReattaches ==
  (rpc = "first" /\ sess = "serving") ~>
     (\/ leaseHeld
      \/ ~SidecarRuns \/ signalled \/ ~accepting
      \/ sess # "serving" \/ sctx)
=============================================================================
