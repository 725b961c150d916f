--------------------------- MODULE SessionManager ---------------------------
(***************************************************************************)
(* The container-local session lifetime protocol: one manager (internal/   *)
(* session/manager.go) counts the wrapper connections of a container and   *)
(* stops after an idle timeout; every wrapper (internal/session/command.go)*)
(* registers before it starts its command and keeps the connection open    *)
(* until the command has been waited for.                                  *)
(*                                                                         *)
(* Interleaved here are the goroutines of the manager process (the accept  *)
(* loop, one reader per connection, the timer callbacks, the context       *)
(* watcher, the goroutine that executes a committed shutdown), the wrapper *)
(* processes, and the kernel's queue of connections not yet accepted.      *)
(* Every critical section of managerState.mutex is one action.             *)
(***************************************************************************)
EXTENDS Naturals, FiniteSets

CONSTANTS Wrapper,       \* the `agents-safe-session run` processes
          MaxAttempts    \* bound: connections one wrapper makes

ASSUME MaxAttemptsAssumption == MaxAttempts \in Nat

VARIABLES
  srv,          \* where the goroutine of Manager.Serve is
  hand,         \* the connections (at most one) it has accepted and not let go
  active,       \* managerState.active
  counted,      \* connections that hold managerState.connections (WaitGroup)
  readers,      \* connections with a reader goroutine in io.Copy
  idleTimer,    \* number of the timer in managerState.idleTimer, 0 for nil
  armed,        \* that timer runs: it has neither fired nor been stopped
  fired,        \* timers whose callback goroutine has not taken the mutex yet
  stopping,     \* managerState.stopping, with done closed
  cause,        \* history: which path committed the shutdown
  shutdownErr,  \* managerState.shutdownErr
  closer,       \* progress of closeForShutdown
  snapshot,     \* connections closeForShutdown has still to close
  ctxDone,      \* the context of Serve is cancelled
  watcher,      \* the goroutine that watches the context
  marker,       \* the stopping marker file next to the socket
  path,         \* the socket path exists
  listening,    \* the listener on it is open
  queued,       \* connections in the listener's kernel queue
  open,         \* connections whose wrapper end is open
  acked,        \* connections on which the acknowledgement byte was written
  severed,      \* connections whose manager end is closed
  wpc,          \* where each wrapper is
  attempt,      \* number of connections each wrapper has made
  expired       \* wrappers whose startup timeout has elapsed

serveVars == <<srv, hand>>
countVars == <<active, counted, readers>>
timerVars == <<idleTimer, armed, fired>>
stopVars  == <<stopping, cause, shutdownErr, closer, snapshot>>
ctxVars   == <<ctxDone, watcher>>
fileVars  == <<marker, path, listening>>
connVars  == <<queued, open, acked, severed>>
wrapVars  == <<wpc, attempt, expired>>
vars == <<serveVars, countVars, timerVars, stopVars, ctxVars, fileVars,
          connVars, wrapVars>>

Connection == Wrapper \X (1 .. MaxAttempts)

\* The connection of a wrapper's latest attempt.
Conn(w) == <<w, attempt[w]>>

\* Wrapper states: still in connectRegistered; past it with the
\* acknowledgement read; and over.
Connecting == {"probe", "dial", "recheck", "await", "retry"}
Holding    == {"registered", "running", "waited"}
Over       == {"unready", "refused", "timedOut", "exited", "killed"}

ServeState == {"starting", "cleared", "bound", "accepting", "registering",
               "acking", "failing", "closing", "draining", "stopped"}

ServeTypeOK ==
  /\ srv \in ServeState
  /\ hand \in SUBSET Connection
  /\ counted \in SUBSET Connection
  /\ active \in SUBSET counted
  /\ readers \in SUBSET Connection
  /\ idleTimer \in Nat
  /\ armed \in BOOLEAN
  /\ fired \in SUBSET Nat
  /\ ctxDone \in BOOLEAN
  /\ watcher \in {"none", "waiting", "gone"}

StopTypeOK ==
  /\ stopping \in BOOLEAN
  /\ cause \in {"none", "idle", "context", "accept"}
  /\ shutdownErr \in {"nil", "context", "accept", "marker", "listen", "exists",
                     "remove"}
  /\ closer \in {"none", "marker", "listener", "connections"}
  /\ snapshot \in SUBSET Connection

ConnectionTypeOK ==
  /\ marker \in {"absent", "present", "unwritable"}
  /\ path \in BOOLEAN
  /\ listening \in BOOLEAN
  /\ queued \in SUBSET Connection
  /\ open \in SUBSET Connection
  /\ acked \in SUBSET Connection
  /\ severed \in SUBSET Connection

WrapperTypeOK ==
  /\ wpc \in [Wrapper -> {"waiting"} \union Connecting \union Holding \union Over]
  /\ attempt \in [Wrapper -> 0 .. MaxAttempts]
  /\ expired \in SUBSET Wrapper

TypeOK == ServeTypeOK /\ StopTypeOK /\ ConnectionTypeOK /\ WrapperTypeOK

\* A container starts its manager. A kept container may have run before: its
\* file system then holds the marker of an orderly shutdown, or, if it was
\* killed, the socket path too.
Init ==
  /\ srv = "starting" /\ hand = {}
  /\ active = {} /\ counted = {} /\ readers = {}
  /\ idleTimer = 0 /\ armed = FALSE /\ fired = {}
  /\ stopping = FALSE /\ cause = "none" /\ shutdownErr = "nil"
  /\ closer = "none" /\ snapshot = {}
  /\ ctxDone = FALSE /\ watcher = "none"
  /\ marker \in {"absent", "present"} /\ path \in BOOLEAN /\ listening = FALSE
  /\ queued = {} /\ open = {} /\ acked = {} /\ severed = {}
  /\ wpc = [w \in Wrapper |-> "waiting"]
  /\ attempt = [w \in Wrapper |-> 0]
  /\ expired = {}

-----------------------------------------------------------------------------
(* Helpers of managerState.                                                *)

\* resetIdleTimerLocked: the old timer is stopped, which does not recall a
\* callback already started, and a new one runs.
ResetIdleTimer ==
  /\ idleTimer' = idleTimer + 1
  /\ armed' = TRUE
  /\ UNCHANGED fired

\* commitShutdownLocked(err).
CommitShutdown(why, err) ==
  /\ stopping' = TRUE
  /\ cause' = why
  /\ shutdownErr' = err
  /\ armed' = FALSE
  /\ snapshot' = active
  /\ closer' = "marker"
  /\ UNCHANGED <<idleTimer>>

\* setError, and the same two lines of shutdown on a committed manager.
FirstError(err) == IF shutdownErr = "nil" THEN err ELSE shutdownErr

\* Mutant of Unregister: the map is tested before the connection is deleted.
UnregisterTestsEarly(c) ==
  /\ severed' = severed \union {c}
  /\ active' = active \ {c}
  /\ counted' = counted \ {c}
  /\ IF c \in active /\ active = {} /\ ~stopping
       THEN ResetIdleTimer
       ELSE UNCHANGED timerVars

\* unregister, with the release of the wait group that follows it.
Unregister(c) ==
  /\ severed' = severed \union {c}
  /\ active' = active \ {c}
  /\ counted' = counted \ {c}
  /\ IF c \in active /\ active = {c} /\ ~stopping
       THEN ResetIdleTimer
       ELSE UNCHANGED timerVars

\* A read or a write on the connection fails at the manager's side.
Hungup(c) == c \in severed \/ c \notin open

-----------------------------------------------------------------------------
(* Manager.listen and the start of Manager.Serve.                          *)

\* Mutant of ClearStaleMarker: the marker of an earlier run stays.
KeepStaleMarker ==
  /\ srv = "starting"
  /\ srv' = "cleared"
  /\ UNCHANGED <<hand, countVars, timerVars, stopVars, ctxVars, fileVars,
                 connVars, wrapVars>>

ClearStaleMarker ==
  /\ srv = "starting"
  /\ srv' = "cleared"
  /\ marker' = "absent"
  /\ UNCHANGED <<hand, countVars, timerVars, stopVars, ctxVars, path,
                 listening, connVars, wrapVars>>

BindSocket ==
  /\ srv = "cleared" /\ ~path
  /\ srv' = "bound"
  /\ path' = TRUE /\ listening' = TRUE
  /\ UNCHANGED <<hand, countVars, timerVars, stopVars, ctxVars, marker,
                 connVars, wrapVars>>

\* ensureSocketPathAvailable: the path is never removed, whoever left it.
SocketPathTaken ==
  /\ srv = "cleared" /\ path
  /\ srv' = "stopped"
  /\ shutdownErr' = "exists"
  /\ UNCHANGED <<hand, countVars, timerVars, stopping, cause, closer, snapshot,
                 ctxVars, fileVars, connVars, wrapVars>>

\* A system call of listen fails. A listener already bound is closed and its
\* path removed, which drops the connections it had queued.
ListenFails ==
  /\ srv \in {"starting", "cleared", "bound"}
  /\ srv' = "stopped"
  /\ shutdownErr' = "listen"
  /\ listening' = FALSE
  /\ path' = (path /\ ~listening)
  /\ queued' = {}
  /\ severed' = severed \union queued
  /\ UNCHANGED <<hand, countVars, timerVars, stopping, cause, closer, snapshot,
                 ctxVars, marker, open, acked, wrapVars>>

StartServing ==
  /\ srv = "bound"
  /\ srv' = "accepting"
  /\ watcher' = "waiting"
  /\ ResetIdleTimer
  /\ UNCHANGED <<hand, countVars, stopVars, ctxDone, fileVars, connVars,
                 wrapVars>>

-----------------------------------------------------------------------------
(* The accept loop, and managerState.register.                             *)

Accept(c) ==
  /\ srv = "accepting" /\ listening
  /\ c \in queued
  /\ queued' = queued \ {c}
  /\ hand' = {c}
  /\ srv' = "registering"
  /\ UNCHANGED <<countVars, timerVars, stopVars, ctxVars, fileVars, open,
                 acked, severed, wrapVars>>

RejectStopping(c) ==
  /\ stopping
  /\ severed' = severed \union {c}
  /\ srv' = "accepting"
  /\ hand' = {}
  /\ UNCHANGED <<active, counted, armed>>

\* Mutant of Admit: only the reader goroutine would enter the wait group.
AdmitUncounted(c) ==
  /\ ~stopping
  /\ active' = active \union {c}
  /\ armed' = (armed /\ active # {})
  /\ srv' = "acking"
  /\ UNCHANGED <<hand, counted, severed>>

Admit(c) ==
  /\ ~stopping
  /\ active' = active \union {c}
  /\ counted' = counted \union {c}
  /\ armed' = (armed /\ active # {})
  /\ srv' = "acking"
  /\ UNCHANGED <<hand, severed>>

Register(c) ==
  /\ srv = "registering" /\ c \in hand
  /\ RejectStopping(c) \/ Admit(c)
  /\ UNCHANGED <<readers, idleTimer, fired, stopVars, ctxVars, fileVars,
                 queued, open, acked, wrapVars>>

WriteAck(c) ==
  /\ srv = "acking" /\ c \in hand
  /\ ~Hungup(c)
  /\ acked' = acked \union {c}
  /\ readers' = readers \union {c}
  /\ srv' = "accepting"
  /\ hand' = {}
  /\ UNCHANGED <<active, counted, timerVars, stopVars, ctxVars, fileVars,
                 queued, open, severed, wrapVars>>

WriteAckFails(c) ==
  /\ srv = "acking" /\ c \in hand
  /\ Hungup(c)
  /\ Unregister(c)
  /\ srv' = "accepting"
  /\ hand' = {}
  /\ UNCHANGED <<readers, stopVars, ctxVars, fileVars, queued, open, acked,
                 wrapVars>>

\* Mutant of ReaderEnds: a read deadline makes io.Copy return early.
ReaderGivesUp(c) ==
  /\ c \in readers
  /\ Unregister(c)
  /\ readers' = readers \ {c}
  /\ UNCHANGED <<serveVars, stopVars, ctxVars, fileVars, queued, open, acked,
                 wrapVars>>

\* The reader goroutine of a connection: io.Copy ends, then unregister.
ReaderEnds(c) ==
  /\ c \in readers
  /\ Hungup(c)
  /\ Unregister(c)
  /\ readers' = readers \ {c}
  /\ UNCHANGED <<serveVars, stopVars, ctxVars, fileVars, queued, open, acked,
                 wrapVars>>

-----------------------------------------------------------------------------
(* Timers, the context, and the ways a shutdown is committed.              *)

TimerFires ==
  /\ armed
  /\ armed' = FALSE
  /\ fired' = fired \union {idleTimer}
  /\ UNCHANGED <<serveVars, countVars, idleTimer, stopVars, ctxVars, fileVars,
                 connVars, wrapVars>>

\* Mutant of ShutdownIfIdle: the callback does not look at the map again.
ShutdownUnlessStopping(t) ==
  /\ t \in fired
  /\ fired' = fired \ {t}
  /\ IF stopping
       THEN UNCHANGED <<stopVars, idleTimer, armed>>
       ELSE CommitShutdown("idle", "nil")
  /\ UNCHANGED <<serveVars, countVars, ctxVars, fileVars, connVars, wrapVars>>

\* shutdownIfIdle, run by the callback goroutine of timer t.
ShutdownIfIdle(t) ==
  /\ t \in fired
  /\ fired' = fired \ {t}
  /\ IF stopping \/ active # {}
       THEN UNCHANGED <<stopVars, idleTimer, armed>>
       ELSE CommitShutdown("idle", "nil")
  /\ UNCHANGED <<serveVars, countVars, ctxVars, fileVars, connVars, wrapVars>>

CancelContext ==
  /\ ~ctxDone
  /\ ctxDone' = TRUE
  /\ UNCHANGED <<serveVars, countVars, timerVars, stopVars, watcher, fileVars,
                 connVars, wrapVars>>

\* managerState.shutdown(err).
Shutdown(why) ==
  /\ UNCHANGED fired
  /\ IF stopping
       THEN /\ shutdownErr' = FirstError(why)
            /\ UNCHANGED <<stopping, cause, closer, snapshot, idleTimer, armed>>
       ELSE CommitShutdown(why, why)

ContextShutdown ==
  /\ watcher = "waiting" /\ ctxDone
  /\ watcher' = "gone"
  /\ Shutdown("context")
  /\ UNCHANGED <<serveVars, countVars, ctxDone, fileVars, connVars, wrapVars>>

\* state.done is closed: the watcher returns. When both channels are ready the
\* select takes either.
WatcherReturns ==
  /\ watcher = "waiting" /\ stopping
  /\ watcher' = "gone"
  /\ UNCHANGED <<serveVars, countVars, timerVars, stopVars, ctxDone, fileVars,
                 connVars, wrapVars>>

\* Accept fails though the listener is open (no file descriptor left, say),
\* and isStopping looks whether a shutdown is committed.
AcceptFails ==
  /\ srv = "accepting" /\ listening
  /\ srv' = IF stopping THEN "draining" ELSE "failing"
  /\ UNCHANGED <<hand, countVars, timerVars, stopVars, ctxVars, fileVars,
                 connVars, wrapVars>>

\* The shutdown that follows may find one committed meanwhile.
AcceptShutdown ==
  /\ srv = "failing"
  /\ srv' = IF stopping THEN "draining" ELSE "closing"
  /\ Shutdown("accept")
  /\ UNCHANGED <<hand, countVars, ctxVars, fileVars, connVars, wrapVars>>

\* The Serve goroutine has run closeForShutdown itself and leaves its loop.
LeaveLoop ==
  /\ srv = "closing"
  /\ closer = "connections" /\ snapshot = {}
  /\ srv' = "draining"
  /\ UNCHANGED <<hand, countVars, timerVars, stopVars, ctxVars, fileVars,
                 connVars, wrapVars>>

\* Accept fails because the listener was closed by a committed shutdown.
AcceptClosed ==
  /\ srv = "accepting" /\ ~listening
  /\ srv' = "draining"
  /\ UNCHANGED <<hand, countVars, timerVars, stopVars, ctxVars, fileVars,
                 connVars, wrapVars>>

-----------------------------------------------------------------------------
(* closeForShutdown, in the goroutine that committed, and the end of Serve.*)

WriteMarker ==
  /\ closer = "marker"
  /\ closer' = "listener"
  /\ \/ marker' = "present" /\ shutdownErr' \in {shutdownErr, FirstError("marker")}
     \/ marker' = "unwritable" /\ shutdownErr' = FirstError("marker")
  /\ UNCHANGED <<serveVars, countVars, timerVars, stopping, cause, snapshot,
                 ctxVars, path, listening, connVars, wrapVars>>

\* Mutant of CloseListener: the listener is closed before the marker is written.
CloseListenerFirst ==
  /\ closer = "marker"
  /\ closer' = "connections"
  /\ path' = FALSE /\ listening' = FALSE
  /\ queued' = {}
  /\ severed' = severed \union queued
  /\ UNCHANGED <<serveVars, countVars, timerVars, stopping, cause, shutdownErr,
                 snapshot, ctxVars, marker, open, acked, wrapVars>>

\* net.UnixListener.Close unlinks the path; the kernel drops the queue.
CloseListener ==
  /\ closer = "listener"
  /\ closer' = "connections"
  /\ path' = FALSE /\ listening' = FALSE
  /\ queued' = {}
  /\ severed' = severed \union queued
  /\ UNCHANGED <<serveVars, countVars, timerVars, stopping, cause, shutdownErr,
                 snapshot, ctxVars, marker, open, acked, wrapVars>>

\* Mutant of CloseConnection: the snapshot is dropped without closing it.
ForgetConnection(c) ==
  /\ closer = "connections" /\ c \in snapshot
  /\ snapshot' = snapshot \ {c}
  /\ UNCHANGED <<serveVars, countVars, timerVars, stopping, cause, shutdownErr,
                 closer, ctxVars, fileVars, connVars, wrapVars>>

CloseConnection(c) ==
  /\ closer = "connections" /\ c \in snapshot
  /\ snapshot' = snapshot \ {c}
  /\ severed' = severed \union {c}
  /\ UNCHANGED <<serveVars, countVars, timerVars, stopping, cause, shutdownErr,
                 closer, ctxVars, fileVars, queued, open, acked, wrapVars>>

\* connections.Wait() returns, the socket path is removed, unless that fails,
\* and Serve returns.
ServeReturns ==
  /\ srv = "draining"
  /\ counted = {}
  /\ srv' = "stopped"
  /\ \/ path' = FALSE /\ UNCHANGED shutdownErr
     \/ path /\ shutdownErr' = FirstError("remove") /\ UNCHANGED path
  /\ UNCHANGED <<hand, countVars, timerVars, stopping, cause, closer, snapshot,
                 ctxVars, marker, listening, connVars, wrapVars>>

-----------------------------------------------------------------------------
(* The wrapper: readiness wait, connectRegistered, RunCommand.             *)

managerVars == <<serveVars, countVars, timerVars, stopVars, ctxVars, fileVars>>

Goto(w, state) == wpc' = [wpc EXCEPT ![w] = state]

\* WaitForSocket, which the launcher runs before it starts the wrapper: it
\* returns once the socket path exists, or its caller gives up.
WaitForSocket(w) ==
  /\ wpc[w] = "waiting"
  /\ \/ path /\ Goto(w, "probe")
     \/ Goto(w, "unready")
  /\ UNCHANGED <<managerVars, connVars, attempt, expired>>

\* The startup timeout runs while the wrapper is in connectRegistered.
StartupExpires(w) ==
  /\ wpc[w] \in Connecting /\ w \notin expired
  /\ expired' = expired \union {w}
  /\ UNCHANGED <<managerVars, connVars, wpc, attempt>>

\* The check at the top of the loop.
ProbeMarker(w) ==
  /\ wpc[w] = "probe"
  /\ Goto(w, IF marker = "present" THEN "refused" ELSE "dial")
  /\ UNCHANGED <<managerVars, connVars, attempt, expired>>

Dial(w) ==
  /\ wpc[w] = "dial"
  /\ path /\ listening /\ w \notin expired
  /\ attempt[w] < MaxAttempts
  /\ attempt' = [attempt EXCEPT ![w] = @ + 1]
  /\ open' = open \union {<<w, attempt[w] + 1>>}
  /\ queued' = queued \union {<<w, attempt[w] + 1>>}
  /\ Goto(w, "recheck")
  /\ UNCHANGED <<managerVars, acked, severed, expired>>

\* No listener, a full queue, a socket not yet given to the wrapper's user, or
\* the startup deadline.
DialFails(w) ==
  /\ wpc[w] = "dial"
  /\ Goto(w, "retry")
  /\ UNCHANGED <<managerVars, connVars, attempt, expired>>

RecheckMarker(w) ==
  /\ wpc[w] = "recheck"
  /\ IF marker = "present"
       THEN Goto(w, "refused") /\ open' = open \ {Conn(w)}
       ELSE Goto(w, "await") /\ UNCHANGED open
  /\ UNCHANGED <<managerVars, queued, acked, severed, attempt, expired>>

\* Mutant of ReadAck: a connection alone is taken for a registration.
AssumeAck(w) ==
  /\ wpc[w] = "await"
  /\ Goto(w, "registered")
  /\ UNCHANGED <<managerVars, connVars, attempt, expired>>

ReadAck(w) ==
  /\ wpc[w] = "await"
  /\ Conn(w) \in acked
  /\ Goto(w, "registered")
  /\ UNCHANGED <<managerVars, connVars, attempt, expired>>

\* The acknowledgement deadline passes, or the connection was closed.
AckFails(w) ==
  /\ wpc[w] = "await"
  /\ open' = open \ {Conn(w)}
  /\ Goto(w, "retry")
  /\ UNCHANGED <<managerVars, queued, acked, severed, attempt, expired>>

\* Mutant of Retry: the startup deadline is not looked at.
RetryForever(w) ==
  /\ wpc[w] = "retry"
  /\ Goto(w, IF marker = "present" THEN "refused" ELSE "probe")
  /\ UNCHANGED <<managerVars, connVars, attempt, expired>>

Retry(w) ==
  /\ wpc[w] = "retry"
  /\ \/ marker = "present" /\ Goto(w, "refused")
     \/ marker # "present" /\ w \in expired /\ Goto(w, "timedOut")
     \/ marker # "present" /\ w \notin expired /\ Goto(w, "probe")
  /\ UNCHANGED <<managerVars, connVars, attempt, expired>>

\* command.Start, which may fail: RunCommand then returns at once.
StartChild(w) ==
  /\ wpc[w] = "registered"
  /\ Goto(w, "running") \/ Goto(w, "waited")
  /\ UNCHANGED <<managerVars, connVars, attempt, expired>>

\* command.Wait returns: the direct child has exited and been waited for.
ChildExits(w) ==
  /\ wpc[w] = "running"
  /\ Goto(w, "waited")
  /\ UNCHANGED <<managerVars, connVars, attempt, expired>>

\* The deferred registration.Close().
CloseRegistration(w) ==
  /\ wpc[w] = "waited"
  /\ open' = open \ {Conn(w)}
  /\ Goto(w, "exited")
  /\ UNCHANGED <<managerVars, queued, acked, severed, attempt, expired>>

\* The wrapper process is killed; the kernel closes its end.
WrapperKilled(w) ==
  /\ wpc[w] \in Connecting \union Holding
  /\ open' = open \ {Conn(w)}
  /\ Goto(w, "killed")
  /\ UNCHANGED <<managerVars, queued, acked, severed, attempt, expired>>

-----------------------------------------------------------------------------

\* The goroutines of the manager process, one operator each.
ServeStep ==
  \/ ClearStaleMarker \/ BindSocket \/ SocketPathTaken \/ StartServing
  \/ \E c \in Connection : \/ Accept(c) \/ Register(c)
                           \/ WriteAck(c) \/ WriteAckFails(c)
  \/ AcceptShutdown \/ LeaveLoop \/ AcceptClosed \/ ServeReturns

CloserStep == WriteMarker \/ CloseListener \/ \E c \in Connection : CloseConnection(c)

WatcherStep == ContextShutdown \/ WatcherReturns

CallbackStep == \E t \in fired : ShutdownIfIdle(t)

ReaderStep == \E c \in Connection : ReaderEnds(c)

\* What a wrapper does by itself, its child's exit apart.
WrapperStep(w) ==
  \/ WaitForSocket(w) \/ ProbeMarker(w) \/ Dial(w) \/ DialFails(w)
  \/ RecheckMarker(w) \/ ReadAck(w) \/ AckFails(w) \/ Retry(w)
  \/ StartChild(w) \/ CloseRegistration(w)

\* What happens to the system: failures, cancellation, time, children, kills.
EnvironmentStep ==
  \/ ListenFails \/ AcceptFails \/ CancelContext \/ TimerFires
  \/ \E w \in Wrapper : StartupExpires(w) \/ ChildExits(w) \/ WrapperKilled(w)

\* Serve has returned and every wrapper is over.
Terminated ==
  /\ srv = "stopped" /\ closer \in {"none", "connections"} /\ snapshot = {}
  /\ \A w \in Wrapper : wpc[w] \in Over
  /\ UNCHANGED vars

Next ==
  \/ ServeStep \/ CloserStep \/ WatcherStep \/ CallbackStep \/ ReaderStep
  \/ \E w \in Wrapper : WrapperStep(w)
  \/ EnvironmentStep
  \/ Terminated

Spec == Init /\ [][Next]_vars

\* Fairness: every goroutine and every wrapper that can run does, and time
\* passes. No fairness for cancellation, failures, kills, or a child's exit.
Fairness ==
  /\ WF_vars(ServeStep) /\ WF_vars(CloserStep) /\ WF_vars(WatcherStep)
  /\ WF_vars(CallbackStep) /\ WF_vars(ReaderStep) /\ WF_vars(TimerFires)
  /\ \A w \in Wrapper : WF_vars(WrapperStep(w)) /\ WF_vars(StartupExpires(w))

FairSpec == Spec /\ Fairness

-----------------------------------------------------------------------------
(* The abstract specification this one implements: a lease is a connection,*)
(* counted while it is in the map, held while its wrapper may run a command.*)

Phase ==
  IF srv = "stopped" THEN "closed"
  ELSE IF stopping THEN "closing"
  ELSE IF srv \in {"starting", "cleared", "bound"} THEN "opening"
  ELSE "serving"

Holders == {Conn(w) : w \in {v \in Wrapper : wpc[v] \in Holding}}

Lifetime == INSTANCE SessionLifetime
  WITH Lease <- Connection, phase <- Phase, forced <- cause \in {"context", "accept"},
       members <- active, holders <- Holders

(* Properties.                                                             *)

\* The protocol keeps the promise of SessionLifetime: admission is atomic with
\* the commit of a shutdown, a lease is granted only once it is counted, it is
\* forgotten only once nobody holds it, and an idle shutdown needs that no
\* lease is counted.
ImplementsLifetime == Lifetime!Spec

\* An idle shutdown never takes a registered command with it: from the moment
\* a wrapper has read its acknowledgement to the moment its child has been
\* waited for, shutdownIfIdle cannot commit. (docs/design-docs/
\* go-session-manager.md, "the manager cannot exit for idleness while any
\* registered wrapper's direct child is running".)
IdleShutdownSparesCommands ==
  cause = "idle" => \A w \in Wrapper : wpc[w] \notin Holding

\* As long as no shutdown is committed, every wrapper that may run a command
\* is in the manager's map, on the connection it still holds.
AcknowledgedIsCounted ==
  ~stopping => \A w \in Wrapper : wpc[w] \in Holding => Conn(w) \in active

\* A serving manager with nothing registered always has a timer to stop it:
\* the current timer runs, or its callback is on its way. A running timer
\* implies that nothing is registered.
IdleManagerIsTimed ==
  /\ srv \notin {"starting", "cleared", "bound", "stopped"} /\ ~stopping
     => (active = {} => armed \/ idleTimer \in fired)
  /\ armed => active = {}

\* The socket path was left behind by an earlier run that was killed.
StaleSocket == path /\ ~listening

\* A wrapper is told "manager is stopping" only by a manager that has
\* committed its shutdown, never by the marker an earlier run of the container
\* left behind: wrappers start only when they have seen the socket, which
\* appears after that marker is gone. (Unless the earlier run left its socket.)
RefusedMeansStopping ==
  \A w \in Wrapper : wpc[w] = "refused" => stopping \/ StaleSocket

\* Admission closes with the commit: no connection enters the map afterwards.
NoAdmissionAfterCommit == [][stopping => active' \subseteq active]_vars

\* The socket path of a committed shutdown goes away only after the marker was
\* written or could not be, so that a wrapper that finds no socket can tell a
\* manager that is leaving from one that has not started. (A Serve loop that
\* leaves on an accept error of its own is the exception.)
ShutdownIsAnnounced ==
  [][stopping /\ path /\ ~path' /\ srv # "draining" => marker # "absent"]_vars

\* A committed shutdown completes, whatever the registered children do.
ShutdownCompletes == stopping ~> srv = "stopped"

\* A manager whose wrappers have all gone away stops.
AbandonedManagerStops == <>[](open = {}) => <>(srv = "stopped")

\* A wrapper leaves connectRegistered: acknowledged, or with an error.
RegistrationResolves ==
  \A w \in Wrapper : wpc[w] = "probe" ~> wpc[w] \in Holding \union Over
=============================================================================
