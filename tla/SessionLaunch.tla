---------------------------- MODULE SessionLaunch ----------------------------
(***************************************************************************)
(* Launchers that run one command each in the session container of one     *)
(* project: DockerLauncher.Launch (internal/launcher/launcher.go) with     *)
(* acquireContainer, waitForReusableOrReleased, restartContainer and       *)
(* containerStoppedAfterExec (container_lifecycle.go), the session part of *)
(* createSessionWithHostMCP and cleanupCandidate (host_mcp.go), and the    *)
(* exec calls (command_execution.go). Docker, which lets one container     *)
(* hold the project's name, is external; the life of a container in it is  *)
(* that of modules Supervisor and SessionManager. The sidecar and the      *)
(* channel directory are in module HostMCPChannel.                         *)
(***************************************************************************)
EXTENDS Naturals, FiniteSets

CONSTANTS Launcher,      \* launcher processes, one command each
          Container,     \* slots for containers; a slot no launcher remembers
                         \* is used again with a new container ID
          Fingerprint,   \* creation fingerprints launchers compute
          Foreign,       \* the labels of a container that is not ours
          None,          \* no container
          Forwarding,    \* launches forward host-MCP endpoints
          KeepOptions,   \* the values of keep_container in use
          ForceOptions,  \* the values of --force-exec in use
          Attempts       \* containerCreateAttempts

ASSUME LaunchAssumption ==
  /\ Foreign \notin Fingerprint /\ None \notin Container
  /\ Forwarding \in BOOLEAN
  /\ KeepOptions \subseteq BOOLEAN /\ ForceOptions \subseteq BOOLEAN
  /\ Attempts \in Nat \ {0}

VARIABLES
  state,     \* Docker's and the session's view of each container
  print,     \* its fingerprint label
  keep,      \* it was created without --rm
  active,    \* the launchers whose command is registered in it
  pc,        \* where each launcher is
  cid,       \* the container ID it works with
  via,       \* how it got that container
  retried,   \* it is in its second acquisition
  losses,    \* lost creations in this acquisition
  want,      \* its launch fingerprint
  force,     \* its --force-exec
  keeps,     \* its keep_container
  ran        \* history: how often its command was started

dockerVars == <<state, print, keep, active>>
options == <<want, force, keeps>>
vars == <<dockerVars, pc, cid, via, retried, losses, options, ran>>

Final == {"done", "failed", "refused"}

TypeOK ==
  /\ state \in [Container -> {"none", "booting", "serving", "committed",
                              "stopping", "exited"}]
  /\ print \in [Container -> Fingerprint \union {Foreign}]
  /\ keep \in [Container -> BOOLEAN]
  /\ active \in [Container -> SUBSET Launcher]
  /\ pc \in [Launcher -> {"inspect", "wait", "restart", "ready", "adopt",
                          "channel", "create", "cleanup", "exec", "register",
                          "running", "check", "recheck"} \union Final]
  /\ cid \in [Launcher -> Container \union {None}]
  /\ via \in [Launcher -> {"none", "found", "waited", "made"}]
  /\ retried \in [Launcher -> BOOLEAN]
  /\ losses \in [Launcher -> 0..Attempts]
  /\ want \in [Launcher -> Fingerprint]
  /\ force \in [Launcher -> BOOLEAN] /\ keeps \in [Launcher -> BOOLEAN]
  /\ ran \in [Launcher -> 0..2]

Init ==
  /\ state = [c \in Container |-> "none"]
  /\ print = [c \in Container |-> Foreign]
  /\ keep = [c \in Container |-> FALSE]
  /\ active = [c \in Container |-> {}]
  /\ pc = [l \in Launcher |-> "inspect"]
  /\ cid = [l \in Launcher |-> None]
  /\ via = [l \in Launcher |-> "none"]
  /\ retried = [l \in Launcher |-> FALSE]
  /\ losses = [l \in Launcher |-> 0]
  /\ want \in [Launcher -> Fingerprint]
  /\ force \in [Launcher -> ForceOptions]
  /\ keeps \in [Launcher -> KeepOptions]
  /\ ran = [l \in Launcher |-> 0]

-----------------------------------------------------------------------------
(* Docker and the container's own life.                                    *)

Exists(c) == state[c] # "none"
Running(c) == state[c] \in {"booting", "serving", "committed", "stopping"}
SocketThere(c) == state[c] \in {"serving", "committed"}

\* The container, at most one, that has the project's name.
Holder == {c \in Container : Exists(c)}

Become(c, s) == state' = [state EXCEPT ![c] = s]

\* Bootstrap is over and the manager listens.
Serve(c) ==
  /\ state[c] = "booting"
  /\ Become(c, "serving")
  /\ UNCHANGED <<print, keep, active, pc, cid, via, retried, losses, options,
                 ran>>

\* The manager commits its idle shutdown, never while a command is
\* registered (SessionManager!IdleShutdownSparesCommands).
CommitIdle(c) ==
  /\ state[c] = "serving" /\ active[c] = {}
  /\ Become(c, "committed")
  /\ UNCHANGED <<print, keep, active, pc, cid, via, retried, losses, options,
                 ran>>

\* The listener is closed, its socket is gone, and dockerd is being stopped.
CloseSession(c) ==
  /\ state[c] = "committed"
  /\ Become(c, "stopping")
  /\ UNCHANGED <<print, keep, active, pc, cid, via, retried, losses, options,
                 ran>>

\* Mutant: a killed exec is taken for a refused one.
ExecKilledRetries == "check"

\* Launch returns the status of a killed exec; it is not a retryable error.
ExecKilled == "failed"

\* A container that ends takes the processes of every exec with it.
End(c) ==
  /\ Become(c, "exited") /\ active' = [active EXCEPT ![c] = {}]
  /\ LET hit == {l \in Launcher :
                   cid[l] = c /\ pc[l] \in {"register", "running"}}
     IN  /\ pc' = [l \in Launcher |-> IF l \in hit THEN ExecKilled ELSE pc[l]]
         /\ cid' = [l \in Launcher |-> IF l \in hit THEN None ELSE cid[l]]
         /\ via' = [l \in Launcher |-> IF l \in hit THEN "none" ELSE via[l]]
  /\ UNCHANGED <<print, keep, retried, losses, options, ran>>

Exit(c) == state[c] = "stopping" /\ End(c)

\* A failed bootstrap, a lost dockerd or manager, docker kill.
Crash(c) == Running(c) /\ End(c)

\* --rm: Docker removes what has stopped. A kept container goes only when its
\* user removes it.
Remove(c) ==
  /\ state[c] = "exited"
  /\ Become(c, "none")
  /\ print' = [print EXCEPT ![c] = Foreign]
  /\ keep' = [keep EXCEPT ![c] = FALSE]
  /\ UNCHANGED <<active, pc, cid, via, retried, losses, options,
                 ran>>

\* Somebody else's container takes the name.
ForeignAppears(c) ==
  /\ Holder = {} /\ \A l \in Launcher : cid[l] # c
  /\ Become(c, "serving")
  /\ print' = [print EXCEPT ![c] = Foreign]
  /\ keep' = [keep EXCEPT ![c] = FALSE]
  /\ UNCHANGED <<active, pc, cid, via, retried, losses, options, ran>>

-----------------------------------------------------------------------------
(* Acquiring a container.                                                  *)

\* A launcher moves on; one that has returned remembers nothing.
Goto(l, p) ==
  /\ pc' = [pc EXCEPT ![l] = p]
  /\ cid' = [cid EXCEPT ![l] = IF p \in Final THEN None ELSE @]
  /\ via' = [via EXCEPT ![l] = IF p \in Final THEN "none" ELSE @]
Stay == UNCHANGED <<dockerVars, retried, losses, options, ran>>
Take(l, p, c, v) ==
  /\ pc' = [pc EXCEPT ![l] = p]
  /\ cid' = [cid EXCEPT ![l] = c] /\ via' = [via EXCEPT ![l] = v]
  /\ UNCHANGED <<retried, losses, options, ran>>

\* validateOwnership and validateRunningFingerprint.
Owned(c) == print[c] # Foreign
Accepts(l, c) == Owned(c) /\ (print[c] = want[l] \/ force[l])

\* A failed acquisition is unwound first when it had created the session of
\* a launch that forwards.
Unwind(l) ==
  IF Forwarding /\ via[l] = "made" THEN "cleanup" ELSE "failed"

FindNone(l) ==
  /\ pc[l] = "inspect" /\ Holder = {}
  /\ Goto(l, "create") /\ Stay

\* Mutant: a container that runs is taken to be ready.
FindRunningAtOnce(l) ==
  \E c \in Holder :
    /\ pc[l] = "inspect" /\ Running(c) /\ Accepts(l, c)
    /\ Take(l, "exec", c, "found") /\ UNCHANGED dockerVars

\* Mutant: the fingerprint of a session that already runs is not compared.
FindRunningAny(l) ==
  \E c \in Holder :
    /\ pc[l] = "inspect" /\ Running(c) /\ Owned(c)
    /\ Take(l, "ready", c, "found") /\ UNCHANGED dockerVars

FindRunning(l) ==
  \E c \in Holder :
    /\ pc[l] = "inspect" /\ Running(c) /\ Accepts(l, c)
    /\ Take(l, "ready", c, "found") /\ UNCHANGED dockerVars

FindStopped(l) ==
  \E c \in Holder :
    /\ pc[l] = "inspect" /\ ~Running(c) /\ Owned(c)
    /\ Goto(l, "wait") /\ Stay

\* An inspection that finds another owner, or a session that runs or is kept
\* with other creation-time settings.
Rejected(l) ==
  \E c \in Holder :
    /\ pc[l] = "check" => ~retried[l]
    /\ \/ pc[l] \in {"inspect", "wait", "check", "recheck"} /\ ~Owned(c)
       \/ pc[l] \in {"inspect", "check"} /\ Running(c) /\ ~Accepts(l, c)
       \/ pc[l] \in {"wait", "recheck"} /\ (Running(c) \/ keep[c])
                                        /\ ~Accepts(l, c)
    /\ Goto(l, "failed") /\ Stay

(* waitForReusableOrReleased, polled: the name is free, a session runs, or a *)
(* kept one is to be started.                                              *)

\* Mutant: creation is tried again without a bound.
ReleasedAlways(l) ==
  /\ pc[l] = "wait" /\ Holder = {}
  /\ Goto(l, "create") /\ Stay

\* The name is free: creation comes next, if another try is left.
Released(l) ==
  /\ pc[l] = "wait" /\ Holder = {}
  /\ Goto(l, IF losses[l] = Attempts THEN "failed" ELSE "create") /\ Stay

WaitFindsRunning(l) ==
  \E c \in Holder :
    /\ pc[l] = "wait" /\ Running(c) /\ Accepts(l, c)
    /\ Take(l, "ready", c, "waited") /\ UNCHANGED dockerVars

\* Mutant: whether to start or to wait is decided by the launch's own option.
WaitFindsKeptByOption(l) ==
  \E c \in Holder :
    /\ pc[l] = "wait" /\ state[c] = "exited" /\ keeps[l] /\ Accepts(l, c)
    /\ Take(l, "restart", c, "waited") /\ UNCHANGED dockerVars

WaitFindsKept(l) ==
  \E c \in Holder :
    /\ pc[l] = "wait" /\ state[c] = "exited" /\ keep[c] /\ Accepts(l, c)
    /\ Take(l, "restart", c, "waited") /\ UNCHANGED dockerVars

\* docker start, by name: a container that runs is fine, one that Docker is
\* removing is not.
Restart(l) ==
  /\ pc[l] = "restart"
  /\ IF \E c \in Holder : Running(c) \/ keep[c]
       THEN /\ state' = [c \in Container |->
                           IF state[c] = "exited" THEN "booting" ELSE state[c]]
            /\ Goto(l, "ready")
       ELSE UNCHANGED state /\ Goto(l, "failed")
  /\ UNCHANGED <<print, keep, active, retried, losses, options, ran>>

Create(l) ==
  \E c \in Container :
    /\ pc[l] = "create" /\ Holder = {} /\ \A m \in Launcher : cid[m] # c
    /\ Become(c, "booting")
    /\ print' = [print EXCEPT ![c] = want[l]]
    /\ keep' = [keep EXCEPT ![c] = keeps[l]]
    /\ Take(l, "ready", c, "made") /\ UNCHANGED active

\* docker run fails, or is cut short after Docker has made the container.
CreateFails(l) ==
  /\ pc[l] = "create" /\ Goto(l, "failed")
  /\ \/ UNCHANGED dockerVars
     \/ \E c \in Container :
          /\ Holder = {} /\ \A m \in Launcher : cid[m] # c
          /\ Become(c, "booting")
          /\ print' = [print EXCEPT ![c] = want[l]]
          /\ keep' = [keep EXCEPT ![c] = keeps[l]]
          /\ UNCHANGED active
  /\ UNCHANGED <<retried, losses, options, ran>>

CreateConflicts(l) ==
  /\ pc[l] = "create" /\ Holder # {}
  /\ losses' = [losses EXCEPT ![l] = @ + 1]
  /\ Goto(l, "wait")
  /\ UNCHANGED <<dockerVars, retried, options, ran>>

\* The root exec of wait-ready. What follows depends on where the container
\* came from: reuseHostMCP, reuseHostMCPAfterWait or awaitHostMCPReady.
Forced(l, c) == force[l] /\ print[c] # want[l]

Ready(l) ==
  /\ pc[l] = "ready" /\ SocketThere(cid[l])
  /\ Goto(l, CASE via[l] = "waited" /\ (Forwarding \/ force[l]) -> "adopt"
               [] via[l] = "found" /\ Forwarding /\ ~Forced(l, cid[l]) ->
                    "channel"
               [] via[l] = "made" /\ Forwarding -> "channel"
               [] OTHER -> "exec")
  /\ Stay

NotReady(l) ==
  /\ pc[l] = "ready" /\ ~Running(cid[l])
  /\ Goto(l, Unwind(l)) /\ Stay

\* The second inspection of a container that was waited for.
Adopt(l) ==
  /\ pc[l] = "adopt"
  /\ \/ \E c \in Holder :
          /\ Accepts(l, c)
          /\ Goto(l, IF Forwarding /\ ~Forced(l, c) THEN "channel" ELSE "exec")
     \/ ~(\E c \in Holder : Accepts(l, c)) /\ Goto(l, "failed")
  /\ Stay

\* The sidecar reports ready while the session holds its lease; the wait ends
\* as soon as the session whose channel it is does not run.
Awaited(l) == IF via[l] = "waited" THEN Holder ELSE {cid[l]}

ChannelReady(l) ==
  /\ pc[l] = "channel"
  /\ Goto(l, IF \E c \in Awaited(l) : Running(c) THEN "exec" ELSE Unwind(l))
  /\ Stay

\* A wait reaches its bound, or a step of Docker, of the image, of the
\* storage volume or of the channel fails.
AcquireFails(l) ==
  /\ \/ /\ pc[l] \in {"inspect", "wait", "restart", "ready", "adopt", "channel"}
        /\ Goto(l, Unwind(l))
     \/ /\ pc[l] \in {"check", "recheck"} /\ ~retried[l]
        /\ Goto(l, "failed")
  /\ Stay

\* cleanupCandidate stops the session container, by name.
Cleanup(l) ==
  /\ pc[l] = "cleanup"
  /\ Goto(l, "failed")
  /\ state' = [c \in Container |->
                 CASE state[c] = "serving" -> "committed"
                   [] state[c] = "booting" -> "stopping"
                   [] OTHER -> state[c]]
  /\ UNCHANGED <<print, keep, active, retried, losses, options, ran>>

-----------------------------------------------------------------------------
(* Running the command.                                                    *)

\* docker exec by container ID. Docker refuses it for a container that does
\* not run.
Exec(l) ==
  /\ pc[l] = "exec"
  /\ Goto(l, IF Running(cid[l]) THEN "register" ELSE "check") /\ Stay

\* The wrapper is acknowledged and starts the command.
Register(l) ==
  /\ pc[l] = "register" /\ state[cid[l]] = "serving"
  /\ active' = [active EXCEPT ![cid[l]] = @ \union {l}]
  /\ ran' = [ran EXCEPT ![l] = @ + 1]
  /\ Goto(l, "running")
  /\ UNCHANGED <<state, print, keep, retried, losses, options>>

\* The wrapper finds the stopping marker: exit status 125. (One that times out
\* also ends so; module SessionManager has that.)
WrapperRefused(l) ==
  /\ pc[l] = "register" /\ state[cid[l]] \in {"committed", "stopping"}
  /\ Goto(l, "check") /\ Stay

CommandEnds(l) ==
  /\ pc[l] = "running"
  /\ active' = [active EXCEPT ![cid[l]] = @ \ {l}]
  /\ Goto(l, "done")
  /\ UNCHANGED <<state, print, keep, retried, losses, options, ran>>

\* The second acquisition: everything remembered of the first is dropped.
Again(l) ==
  /\ pc' = [pc EXCEPT ![l] = "inspect"]
  /\ cid' = [cid EXCEPT ![l] = None] /\ via' = [via EXCEPT ![l] = "none"]
  /\ losses' = [losses EXCEPT ![l] = 0]
  /\ retried' = [retried EXCEPT ![l] = TRUE]
  /\ UNCHANGED <<dockerVars, options, ran>>

\* containerStoppedAfterExec: gone, or stopped and kept.
Retry(l) ==
  /\ pc[l] = "check" /\ ~retried[l]
  /\ \A c \in Holder : Owned(c) /\ ~Running(c) /\ keep[c]
  /\ Again(l)

StillRemoved(l) ==
  \E c \in Holder :
    /\ pc[l] = "check" /\ ~retried[l]
    /\ Owned(c) /\ ~Running(c) /\ ~keep[c]
    /\ Goto(l, "recheck") /\ Stay

RetryAfterRemoval(l) ==
  /\ pc[l] = "recheck" /\ Holder = {}
  /\ Again(l)

\* No retry: it was the second exec, or a session runs under the name. A kept
\* one that has appeared meanwhile is started on the way.
NoRetry(l) ==
  /\ \/ pc[l] = "check" /\ retried[l] /\ UNCHANGED state
     \/ \E c \in Holder : /\ pc[l] \in {"check", "recheck"} /\ ~retried[l]
                          /\ Running(c) /\ Accepts(l, c) /\ UNCHANGED state
     \/ \E c \in Holder : /\ pc[l] = "recheck"
                          /\ state[c] = "exited" /\ keep[c] /\ Accepts(l, c)
                          /\ Become(c, "booting")
  /\ Goto(l, "refused")
  /\ UNCHANGED <<print, keep, active, retried, losses, options, ran>>

-----------------------------------------------------------------------------

LaunchStep(l) ==
  \/ FindNone(l) \/ FindRunning(l) \/ FindStopped(l) \/ Rejected(l)
  \/ Released(l) \/ WaitFindsRunning(l) \/ WaitFindsKept(l) \/ Restart(l)
  \/ Create(l) \/ CreateConflicts(l)
  \/ Ready(l) \/ NotReady(l) \/ Adopt(l) \/ ChannelReady(l) \/ Cleanup(l)
  \/ Exec(l) \/ Register(l) \/ WrapperRefused(l)
  \/ Retry(l) \/ StillRemoved(l) \/ RetryAfterRemoval(l) \/ NoRetry(l)

ContainerStep(c) ==
  \/ Serve(c) \/ CommitIdle(c) \/ CloseSession(c) \/ Exit(c) \/ Crash(c)
  \/ Remove(c) \/ ForeignAppears(c)

Next ==
  \/ \E l \in Launcher :
       LaunchStep(l) \/ AcquireFails(l) \/ CreateFails(l) \/ CommandEnds(l)
  \/ \E c \in Container : ContainerStep(c)

Spec == Init /\ [][Next]_vars

\* Launchers keep going. A container comes up, ends once it has begun to, and
\* is removed if it is to be; it need not become idle, crash or fail, and no
\* wait has to reach its bound.
Fairness ==
  /\ \A l \in Launcher : WF_vars(LaunchStep(l))
  /\ \A c \in Container :
       WF_vars(Serve(c)) /\ WF_vars(CloseSession(c)) /\ WF_vars(Exit(c))
         /\ WF_vars(~keep[c] /\ Remove(c))

FairSpec == Spec /\ Fairness

-----------------------------------------------------------------------------
(* Properties.                                                             *)

\* A command runs only in a container of this project and of this user whose
\* creation fingerprint is the launch's, unless --force-exec waived that
\* (container_lifecycle.go:252-268; go-session-manager.md:462).
CommandsRunWhereTheyBelong ==
  \A c \in Container : \A l \in active[c] : Accepts(l, c)

\* The retry never runs a command a second time (launcher.go:171-207).
CommandStartsOnce == \A l \in Launcher : ran[l] <= 1

\* No user process is started in a container that still reconciles its
\* account (command_execution.go:29-31; go-session-manager.md:300-302). A kept
\* container that is started again under a waiting launcher is the exception.
BarrierHolds ==
  \A l \in Launcher :
    pc[l] = "register" => state[cid[l]] # "booting" \/ keep[cid[l]]

\* A launch never waits for something that cannot come: without any timeout
\* it ends or has its command running.
LaunchResolves ==
  \A l \in Launcher : <>(pc[l] \in Final \union {"running"})

\* "It removes only this attempt's own resources and adopts nothing"
\* (host_mcp.go:73): unwinding a failed launch does not stop the session in
\* which another launch has its command running.
CleanupSparesOthers ==
  [][\A l, k \in Launcher :
       pc[l] = "cleanup" /\ pc'[l] # "cleanup"
         /\ pc[k] = "running" /\ cid[k] # cid[l]
       => state'[cid[k]] = state[cid[k]]]_vars
=============================================================================
