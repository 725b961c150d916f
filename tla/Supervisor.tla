----------------------------- MODULE Supervisor -----------------------------
(***************************************************************************)
(* The root workload `agents-safe-session serve`: Supervisor.Serve         *)
(* (internal/container/supervisor.go) and the dockerd process it owns      *)
(* (internal/container/dockerd.go), over one run of the container. Four    *)
(* actors: the goroutine of Serve, the goroutine that owns dockerd's one   *)
(* Wait call, dockerd itself, and the session manager, of which only what  *)
(* Serve can see is here (module SessionManager has the rest). A signal to *)
(* the container cancels the context of Serve at any moment.               *)
(***************************************************************************)
EXTENDS Naturals

VARIABLES
  sup,        \* where the goroutine of Serve is
  woken,      \* the case its final select takes
  failed,     \* Serve has an error to return
  result,     \* what Serve returned
  channel,    \* the host-MCP channel is open: its lease is held
  daemon,     \* the dockerd process
  status,     \* its exit status
  asked,      \* Serve has asked dockerd to stop
  killed,     \* Serve has killed dockerd
  manager,    \* the goroutine of manager.Serve
  managerErr, \* the first error the manager recorded
  cancelled,  \* cancelManager was called
  signalled,  \* the context of Serve is cancelled
  fault,      \* history: something failed
  lost,       \* history: dockerd ended unasked before the manager did
  stuck       \* history: the kernel refused a signal to dockerd

serveVars == <<sup, woken, failed, result, channel>>
daemonVars == <<daemon, status, asked, killed>>
managerVars == <<manager, managerErr>>
history == <<fault, lost, stuck>>
vars == <<serveVars, daemonVars, managerVars, cancelled, signalled, history>>

TypeOK ==
  /\ sup \in {"bootstrap", "startDockerd", "abort", "awaitReady", "own",
              "access", "create", "select", "parked", "drain", "stop",
              "await", "reap", "close", "returned"}
  /\ woken \in {"none", "manager", "daemon", "signal"}
  /\ failed \in BOOLEAN /\ result \in {"none", "ok", "error"}
  /\ channel \in BOOLEAN
  /\ daemon \in {"none", "running", "exited", "reaped"}
  /\ status \in {"none", "ok", "failed"}
  /\ asked \in BOOLEAN /\ killed \in BOOLEAN
  /\ manager \in {"none", "starting", "serving", "stopping", "done"}
  /\ managerErr \in {"nil", "canceled", "failed"}
  /\ cancelled \in BOOLEAN /\ signalled \in BOOLEAN
  /\ fault \in BOOLEAN /\ lost \in BOOLEAN /\ stuck \in BOOLEAN

Init ==
  /\ sup = "bootstrap" /\ woken = "none" /\ failed = FALSE /\ result = "none"
  /\ channel = FALSE
  /\ daemon = "none" /\ status = "none" /\ asked = FALSE /\ killed = FALSE
  /\ manager = "none" /\ managerErr = "nil"
  /\ cancelled = FALSE /\ signalled = FALSE
  /\ fault = FALSE /\ lost = FALSE /\ stuck = FALSE

\* Serve goes on to p; it fails there; or it takes e into account there.
Proceed(p) ==
  /\ sup' = p
  /\ UNCHANGED <<woken, failed, result, channel, daemonVars, managerVars,
                 cancelled, signalled, history>>
Fail(p) ==
  /\ sup' = p /\ failed' = TRUE /\ fault' = TRUE
  /\ UNCHANGED <<woken, result, channel, daemonVars, managerVars, cancelled,
                 signalled, lost, stuck>>
Conclude(p, e) ==
  /\ sup' = p /\ failed' = (failed \/ e)
  /\ UNCHANGED <<woken, result, channel, daemonVars, managerVars, cancelled,
                 signalled, history>>

-----------------------------------------------------------------------------
(* Startup.                                                                *)

\* The tmpfs mounts, the account, the user's files and the channel, all
\* within PreLeaseDeadline. Without endpoints the channel is nil and closing
\* it does nothing.
Bootstrap ==
  /\ sup = "bootstrap"
  /\ sup' = "startDockerd" /\ channel' = TRUE
  /\ UNCHANGED <<woken, failed, result, daemonVars, managerVars, cancelled,
                 signalled, history>>

\* A step of the bootstrap fails, or the deadline or a signal cuts it short;
\* startHostMCP closes what it has opened before it returns.
BootstrapFails ==
  /\ sup = "bootstrap"
  /\ Fail("close")

StartDockerd ==
  /\ sup = "startDockerd"
  /\ daemon' = "running" /\ sup' = "awaitReady"
  /\ UNCHANGED <<woken, failed, result, channel, status, asked, killed,
                 managerVars, cancelled, signalled, history>>

\* Stale state cannot be cleared, a directory or the log not be made, or the
\* process not be started.
StartDockerdFails ==
  /\ sup = "startDockerd"
  /\ Fail("close")

\* dockerd runs but the parent's log file does not close: Kill, its error
\* ignored, and Wait without a bound.
CloseLogFails ==
  /\ sup = "startDockerd"
  /\ daemon' = "running" /\ asked' = TRUE
  /\ killed' \in BOOLEAN /\ stuck' = ~killed'
  /\ sup' = "abort" /\ failed' = TRUE /\ fault' = TRUE
  /\ UNCHANGED <<woken, result, channel, status, managerVars, cancelled,
                 signalled, lost>>

WaitAborted ==
  /\ sup = "abort" /\ daemon = "exited"
  /\ daemon' = "reaped" /\ sup' = "close"
  /\ UNCHANGED <<woken, failed, result, channel, status, asked, killed,
                 managerVars, cancelled, signalled, history>>

\* An answer to the ping, which only a running dockerd gives.
DockerReady ==
  /\ sup = "awaitReady" /\ daemon = "running" /\ ~signalled
  /\ Proceed("own")

OwnSocket ==
  /\ sup = "own" /\ Proceed("access")

\* A cancelled context starts no further command.
ServiceAccess ==
  /\ sup = "access" /\ ~signalled
  /\ Proceed("create")

CreateManager ==
  /\ sup = "create"
  /\ manager' = "starting" /\ sup' = "select"
  /\ UNCHANGED <<woken, failed, result, channel, daemonVars, managerErr,
                 cancelled, signalled, history>>

\* Mutant: a failure after dockerd was started returns without stopping it.
StartupFailsUnstopped ==
  /\ sup \in {"awaitReady", "own", "access", "create"}
  /\ Fail("close")

\* dockerd exits or is not ready in time, its socket cannot be handed over,
\* a rule is not installed, or the manager is refused: all of them stop
\* dockerd. A signal shows as such a failure too.
StartupFails ==
  /\ sup \in {"awaitReady", "own", "access", "create"}
  /\ Fail("stop")

-----------------------------------------------------------------------------
(* The final select. A goroutine that finds nothing ready is parked and    *)
(* takes the first case that becomes ready; one that finds several ready   *)
(* takes any of them.                                                      *)

Ready == {w \in {"manager", "daemon", "signal"} :
            \/ w = "manager" /\ manager = "done"
            \/ w = "daemon" /\ daemon = "reaped"
            \/ w = "signal" /\ signalled}

WakenedBy(w) == IF sup = "parked" /\ woken = "none" THEN w ELSE woken

EnterSelect ==
  /\ sup = "select"
  /\ sup' = "parked"
  /\ IF Ready = {} THEN woken' = "none" ELSE woken' \in Ready
  /\ UNCHANGED <<failed, result, channel, daemonVars, managerVars, cancelled,
                 signalled, history>>

\* The manager ended by itself: any error of it is returned.
ManagerEnded ==
  /\ sup = "parked" /\ woken = "manager"
  /\ Conclude("stop", managerErr # "nil")

DockerdEnded ==
  /\ sup = "parked" /\ woken = "daemon"
  /\ cancelled' = TRUE /\ failed' = TRUE /\ sup' = "drain"
  /\ UNCHANGED <<woken, result, channel, daemonVars, managerVars, signalled,
                 history>>

\* Mutant: dockerd is stopped without waiting for the manager.
ContextDoneStopsFirst ==
  /\ sup = "parked" /\ woken = "signal"
  /\ cancelled' = TRUE /\ sup' = "stop"
  /\ UNCHANGED <<woken, failed, result, channel, daemonVars, managerVars,
                 signalled, history>>

ContextDone ==
  /\ sup = "parked" /\ woken = "signal"
  /\ cancelled' = TRUE /\ sup' = "drain"
  /\ UNCHANGED <<woken, failed, result, channel, daemonVars, managerVars,
                 signalled, history>>

\* <-managerDone. After a signal dockerd is stopped next, and the manager's
\* error counts unless it is the cancellation.
ManagerDrained ==
  /\ sup = "drain" /\ manager = "done"
  /\ Conclude(IF woken = "signal" THEN "stop" ELSE "close",
              woken = "signal" /\ managerErr = "failed")

-----------------------------------------------------------------------------
(* dockerDaemon.Stop.                                                      *)

\* Mutant: how dockerd ended is ignored.
StopReapedQuietly ==
  /\ sup \in {"stop", "await"} /\ daemon = "reaped"
  /\ Proceed("close")

\* dockerd has been waited for: its status decides, whoever ended it.
StopReaped ==
  /\ sup \in {"stop", "await"} /\ daemon = "reaped"
  /\ Conclude("close", status = "failed")

\* Mutant: the channel is closed as soon as the run winds down.
SignalTermReleased ==
  /\ sup = "stop" /\ daemon # "reaped"
  /\ asked' = TRUE /\ sup' = "await" /\ channel' = FALSE
  /\ UNCHANGED <<woken, failed, result, daemon, status, killed, managerVars,
                 cancelled, signalled, history>>

\* ErrProcessDone is no error: dockerd may have exited unnoticed.
SignalTerm ==
  /\ sup = "stop" /\ daemon # "reaped"
  /\ asked' = TRUE /\ sup' = "await"
  /\ UNCHANGED <<woken, failed, result, channel, daemon, status, killed,
                 managerVars, cancelled, signalled, history>>

\* SIGTERM, or SIGKILL after the shutdown timeout, is refused: Stop returns
\* at once with dockerd alive.
SignalRefused ==
  /\ sup \in {"stop", "await"} /\ daemon = "running"
  /\ stuck' = TRUE /\ failed' = TRUE /\ fault' = TRUE /\ sup' = "close"
  /\ UNCHANGED <<woken, result, channel, daemonVars, managerVars, cancelled,
                 signalled, lost>>

\* Mutant: a late dockerd is waited for, not killed.
ShutdownTimesOutOnly ==
  /\ sup = "await" /\ daemon # "reaped"
  /\ fault' = TRUE /\ sup' = "reap"
  /\ UNCHANGED <<woken, failed, result, channel, daemonVars, managerVars,
                 cancelled, signalled, lost, stuck>>

ShutdownTimesOut ==
  /\ sup = "await" /\ daemon # "reaped"
  /\ killed' = TRUE /\ fault' = TRUE /\ sup' = "reap"
  /\ UNCHANGED <<woken, failed, result, channel, daemon, status, asked,
                 managerVars, cancelled, signalled, lost, stuck>>

ReapKilled ==
  /\ sup = "reap" /\ daemon = "reaped"
  /\ Conclude("close", TRUE)

\* The deferred channel.close runs, then serve exits with the result and the
\* container is torn down.
Return ==
  /\ sup = "close"
  /\ channel' = FALSE /\ sup' = "returned"
  /\ result' = (IF failed THEN "error" ELSE "ok")
  /\ UNCHANGED <<woken, failed, daemonVars, managerVars, cancelled, signalled,
                 history>>

-----------------------------------------------------------------------------
(* dockerd, the goroutine that waits for it, the manager, and signals.     *)

\* dockerd exits: when it was killed, when it was asked to, or by itself.
DockerdExits(s) ==
  /\ daemon = "running" /\ sup # "returned"
  /\ killed => s = "failed"
  /\ daemon' = "exited" /\ status' = s
  /\ fault' = (fault \/ s = "failed")
  /\ UNCHANGED <<serveVars, asked, killed, managerVars, cancelled, signalled,
                 lost, stuck>>

\* The goroutine of newDockerDaemon: Wait returns and done is closed.
DockerdReaped ==
  /\ daemon = "exited" /\ sup \notin {"abort", "returned"}
  /\ daemon' = "reaped" /\ woken' = WakenedBy("daemon")
  /\ lost' = (lost \/ (~asked /\ manager # "done"))
  /\ UNCHANGED <<sup, failed, result, channel, status, asked, killed,
                 managerVars, cancelled, signalled, fault, stuck>>

ManagerListens ==
  /\ manager = "starting"
  /\ manager' = "serving"
  /\ UNCHANGED <<serveVars, daemonVars, managerErr, cancelled, signalled, history>>

ManagerEnds(e) ==
  /\ manager' = "done" /\ managerErr' = e
  /\ woken' = WakenedBy("manager")
  /\ UNCHANGED <<sup, failed, result, channel, daemonVars, cancelled,
                 signalled, lost, stuck>>

ManagerListenFails ==
  /\ manager = "starting"
  /\ ManagerEnds("failed") /\ fault' = TRUE

ManagerStops(e) ==
  /\ manager = "serving"
  /\ manager' = "stopping" /\ managerErr' = e
  /\ UNCHANGED <<serveVars, daemonVars, cancelled, signalled, lost, stuck>>

\* The idle timeout of five seconds is over long after Serve has reached its
\* select.
ManagerIdle == sup # "select" /\ ManagerStops("nil") /\ UNCHANGED fault
ManagerCancelled == (cancelled \/ signalled) /\ ManagerStops("canceled")
                    /\ UNCHANGED fault
ManagerFails == ManagerStops("failed") /\ fault' = TRUE

\* Every connection is closed and the socket removed; a socket that cannot
\* be removed is an error when it is the first.
ManagerReturns ==
  /\ manager = "stopping"
  /\ \/ ManagerEnds(managerErr) /\ UNCHANGED fault
     \/ managerErr = "nil" /\ ManagerEnds("failed") /\ fault' = TRUE

\* SIGINT or SIGTERM.
SignalServe ==
  /\ ~signalled /\ sup # "returned"
  /\ signalled' = TRUE /\ woken' = WakenedBy("signal")
  /\ UNCHANGED <<sup, failed, result, channel, daemonVars, managerVars,
                 cancelled, history>>

-----------------------------------------------------------------------------

ServeStep ==
  \/ Bootstrap \/ BootstrapFails
  \/ StartDockerd \/ StartDockerdFails \/ CloseLogFails \/ WaitAborted
  \/ DockerReady \/ OwnSocket \/ ServiceAccess \/ CreateManager \/ StartupFails
  \/ EnterSelect \/ ManagerEnded \/ DockerdEnded \/ ContextDone
  \/ ManagerDrained
  \/ StopReaped \/ SignalTerm \/ SignalRefused \/ ShutdownTimesOut
  \/ ReapKilled \/ Return

ManagerStep ==
  \/ ManagerListens \/ ManagerListenFails \/ ManagerIdle \/ ManagerCancelled
  \/ ManagerFails \/ ManagerReturns

DockerdStep == \E s \in {"ok", "failed"} : DockerdExits(s)

Next == ServeStep \/ ManagerStep \/ DockerdStep \/ DockerdReaped \/ SignalServe

Spec == Init /\ [][Next]_vars

\* Every goroutine keeps running: the startup steps and Stop have timeouts,
\* the manager ends once it is cancelled (SessionManager!ShutdownCompletes),
\* and the kernel ends a process it has killed. dockerd owes nothing until
\* then, the idle timeout need not come, and no signal has to.
Fairness ==
  /\ WF_vars(ServeStep) /\ WF_vars(DockerdReaped)
  /\ WF_vars(ManagerListens \/ ManagerListenFails)
  /\ WF_vars(ManagerCancelled) /\ WF_vars(ManagerReturns)
  /\ WF_vars(killed /\ DockerdStep)

FairSpec == Spec /\ Fairness

-----------------------------------------------------------------------------
(* Properties.                                                             *)

DockerdGone == daemon \in {"none", "reaped"}

\* Commands keep their nested Docker: dockerd is asked to stop only once the
\* manager has ended, after it closed every registration, or before it was
\* started (supervisor.go:143-175).
DockerdOutlivesManager == asked => manager \in {"none", "done"}

\* Serve returns, and the kernel tears the container down, only after dockerd
\* was stopped and waited for and the manager has ended, unless the kernel
\* refused a signal (supervisor.go:127-141, and every failure path of
\* dockerd.go:92-142).
NothingIsLeftBehind ==
  sup \in {"close", "returned"} =>
    (DockerdGone \/ stuck) /\ manager \in {"none", "done"}

\* From the start of dockerd to the return of Serve the session holds its lease
\* on the channel, so the sidecar outlives whatever may use it
\* (supervisor.go:112).
LeaseCoversRun ==
  daemon # "none" /\ ~channel => sup = "returned"

\* A clean exit hides nothing: no bootstrap step failed, no signal was refused,
\* dockerd stopped in time and without an error, the manager recorded none, and
\* dockerd did not end under a manager that nobody had told to stop.
SuccessHidesNothing == result = "ok" => ~fault /\ (lost => signalled)

\* The test of cancellation (supervisor_test.go:75-79) wants a nil result from
\* a Serve that was cancelled and has stopped its dockerd in good order: such
\* a Serve returns an error only when something failed.
CleanCancellation == result = "error" /\ asked => fault

\* Serve returns after a signal, after the manager has ended and after
\* dockerd has exited, however dockerd takes its SIGTERM.
ServeReturns ==
  (signalled \/ manager = "done" \/ daemon \in {"exited", "reaped"})
    ~> (sup = "returned" \/ stuck)
=============================================================================
