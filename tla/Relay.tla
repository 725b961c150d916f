-------------------------------- MODULE Relay --------------------------------
(***************************************************************************)
(* The host-MCP relay sidecar (internal/relay/relay.go): the process that  *)
(* binds one Unix socket per endpoint and then control.sock in a           *)
(* generation directory, answers readiness probes, accepts the session's   *)
(* lease, and removes the directory once that lease has read EOF.          *)
(*                                                                         *)
(* The sidecar's container name is exclusive, so there is one sidecar at a *)
(* time; when its container is gone another may be created under the name. *)
(* Here are the goroutines of that process (Run, the control accept loop,  *)
(* one handler per control connection), the directory with its entries,    *)
(* and both ends of every control connection. A connection is a slot that  *)
(* is used again once both ends are closed, so the model has no counters.  *)
(* HostMCPChannel adds the processes at the other ends.                    *)
(***************************************************************************)
EXTENDS Naturals, FiniteSets

CONSTANTS Endpoints,     \* number of forwarded endpoints
          Conn,          \* slots for control connections
          Timely         \* no timeout of the relay beats a prompt client

ASSUME EndpointsAssumption == Endpoints \in Nat \ {0}
ASSUME TimelyAssumption == Timely \in BOOLEAN

VARIABLES
  rpc,           \* where Run is; "none" before a container has the name
  removing,      \* Run is on its way to removeGeneration
  bound,         \* sockets whose listener is open
  shuttingDown,  \* channel.shuttingDown
  accepting,     \* the accept loop of serveControl runs
  leaseHeld,     \* leaseHeld of serveControl
  established,   \* the established channel is closed
  ended,         \* the connections (at most one) whose outcome was sent
  signalled,     \* the context of Run is cancelled
  dir,           \* the generation directory at its path
  entry,         \* the socket files in it
  handler,       \* relay end of each connection: where its handler is
  open,          \* connections whose client end is open
  byte           \* the role byte a client has written and no handler has read

runVars  == <<rpc, removing, signalled>>
sockVars == <<bound, shuttingDown, accepting>>
leaseVars == <<leaseHeld, established, ended>>
dirVars  == <<dir, entry>>
connVars == <<handler, open, byte>>
relayVars == <<runVars, sockVars, leaseVars, dirVars, connVars>>

Control  == 0
Endpoint == 1 .. Endpoints
Socket   == {Control} \union Endpoint

Binding == {"clearing", "binding", "bound"}
Closing == {"closing", "closingEndpoints", "unlinking", "exiting"}
SidecarRuns == rpc \in Binding \union {"first", "leased"} \union Closing

\* A handler has read its lease to EOF; it has yet to clear leaseHeld, or not.
ReadToEnd(c) == handler[c] \in {"readEOF", "eof"}

\* The relay's end of a connection is closed: its handler has returned (from a
\* probe it may have answered Ready), or has only to tell how its lease ended.
Hungup(c) ==
  ReadToEnd(c) \/ handler[c] \in {"shut", "ready", "readError", "error"}

\* A slot no process uses any more.
Free(c) == handler[c] = "shut" /\ c \notin open

RelayTypeOK ==
  /\ rpc \in {"none", "first", "leased", "exited"} \union Binding \union Closing
  /\ removing \in BOOLEAN /\ signalled \in BOOLEAN
  /\ bound \in SUBSET Socket /\ shuttingDown \in BOOLEAN
  /\ accepting \in BOOLEAN
  /\ leaseHeld \in BOOLEAN /\ established \in BOOLEAN
  /\ ended \in SUBSET Conn /\ \A c, d \in ended : c = d
  /\ dir \in {"absent", "fresh", "mounted"}
  /\ entry \in SUBSET Socket
  /\ handler \in [Conn -> {"shut", "queued", "accepted", "loaded", "cleared",
                           "ready", "lease", "readEOF", "readError", "eof",
                           "error"}]
  /\ open \in SUBSET Conn
  /\ byte \in [Conn -> {"none", "probe", "lease"}]

RelayInit ==
  /\ rpc = "none" /\ removing = FALSE /\ signalled = FALSE
  /\ bound = {} /\ shuttingDown = FALSE /\ accepting = FALSE
  /\ leaseHeld = FALSE /\ established = FALSE /\ ended = {}
  /\ dir = "absent" /\ entry = {}
  /\ handler = [c \in Conn |-> "shut"]
  /\ open = {}
  /\ byte = [c \in Conn |-> "none"]

-----------------------------------------------------------------------------
(* The life of the container, as Docker keeps it.                          *)

\* A container is created and started; of an earlier one only files are left.
StartSidecar ==
  /\ rpc = "none"
  /\ rpc' = "clearing"
  /\ UNCHANGED <<removing, signalled, sockVars, leaseVars, dirVars, connVars>>

\* The process is gone, and with it its listeners, its connection ends and
\* its memory.
ProcessGone ==
  /\ rpc' = "exited"
  /\ removing' = FALSE /\ signalled' = FALSE
  /\ bound' = {} /\ shuttingDown' = FALSE /\ accepting' = FALSE
  /\ leaseHeld' = FALSE /\ established' = FALSE /\ ended' = {}
  /\ handler' = [c \in Conn |-> IF handler[c] = "ready" THEN "ready" ELSE "shut"]
  /\ byte' = [c \in Conn |-> "none"]
  /\ UNCHANGED <<dirVars, open>>

KillSidecar == SidecarRuns /\ ProcessGone

\* A signal reaches the context of Run.
Signal ==
  /\ SidecarRuns /\ ~signalled
  /\ signalled' = TRUE
  /\ UNCHANGED <<rpc, removing, sockVars, leaseVars, dirVars, connVars>>

\* Docker's asynchronous removal of a container that has stopped.
ReleaseName ==
  /\ rpc = "exited"
  /\ rpc' = "none"
  /\ UNCHANGED <<removing, signalled, sockVars, leaseVars, dirVars, connVars>>

-----------------------------------------------------------------------------
(* Run up to the first select: removeStaleSockets, then bind.              *)

RemoveStaleSockets ==
  /\ rpc = "clearing"
  /\ rpc' = "binding"
  /\ entry' = {}
  /\ UNCHANGED <<removing, signalled, sockVars, leaseVars, dir, connVars>>

BindEndpoint(i) ==
  /\ rpc = "binding" /\ dir # "absent"
  /\ bound = 1 .. (i - 1)
  /\ bound' = bound \union {i}
  /\ entry' = entry \union {i}
  /\ UNCHANGED <<runVars, shuttingDown, accepting, leaseVars, dir, connVars>>

\* Mutant of BindControl: control.sock is bound first.
BindControlEarly ==
  /\ rpc = "binding" /\ dir # "absent"
  /\ rpc' = "bound"
  /\ bound' = bound \union {Control}
  /\ entry' = entry \union {Control}
  /\ UNCHANGED <<removing, signalled, shuttingDown, accepting, leaseVars, dir,
                 connVars>>

BindControl ==
  /\ rpc = "binding" /\ dir # "absent"
  /\ bound = Endpoint
  /\ rpc' = "bound"
  /\ bound' = bound \union {Control}
  /\ entry' = entry \union {Control}
  /\ UNCHANGED <<removing, signalled, shuttingDown, accepting, leaseVars, dir,
                 connVars>>

\* serveControl starts its accept loop; Run reaches its first select.
ServeControl ==
  /\ rpc = "bound"
  /\ rpc' = "first"
  /\ accepting' = TRUE
  /\ UNCHANGED <<removing, signalled, bound, shuttingDown, leaseVars, dirVars,
                 connVars>>

\* Mutant of BeginClose: shuttingDown is forgotten.
BeginCloseSilently(remove) ==
  /\ rpc' = "closing"
  /\ removing' = remove
  /\ UNCHANGED <<signalled, sockVars, leaseVars, dirVars, connVars>>

\* channel.close starts, by Run itself or deferred; its caller removes the
\* generation afterwards or leaves it.
BeginClose(remove) ==
  /\ rpc' = "closing"
  /\ removing' = remove
  /\ shuttingDown' = TRUE
  /\ UNCHANGED <<signalled, bound, accepting, leaseVars, dirVars, connVars>>

\* The first bind fails: there is no directory.
BindImpossible == rpc = "binding" /\ dir = "absent" /\ BeginClose(FALSE)

\* A stale entry cannot be removed, or a bind fails: what is bound is closed.
StartupFails == rpc \in {"clearing", "binding"} /\ BeginClose(FALSE)

-----------------------------------------------------------------------------
(* The two selects of Run, and channel.close.                              *)

LeaseEstablished ==
  /\ rpc = "first" /\ established
  /\ rpc' = "leased"
  /\ UNCHANGED <<removing, signalled, sockVars, leaseVars, dirVars, connVars>>

\* Expiry keeps the directory: a live session may have it mounted.
InitialLeaseTimeout(retrying) ==
  /\ rpc = "first"
  /\ Timely => ~(accepting /\ retrying)
  /\ BeginClose(FALSE)

StopOnSignal == rpc \in {"first", "leased"} /\ signalled /\ BeginClose(FALSE)

\* Mutant of LeaseEnded: a read error removes the generation too.
LeaseEndedAnyhow(c) ==
  /\ rpc = "leased" /\ c \in ended
  /\ BeginClose(TRUE)

\* Only EOF lets Run remove the generation.
LeaseEnded(c) ==
  /\ rpc = "leased" /\ c \in ended
  /\ BeginClose(handler[c] = "eof")

\* Closing control.sock drops the connections not accepted yet.
CloseControl ==
  /\ rpc = "closing"
  /\ rpc' = "closingEndpoints"
  /\ bound' = bound \ {Control}
  /\ entry' = entry \ {Control}
  /\ accepting' = FALSE
  /\ handler' = [c \in Conn |-> IF handler[c] = "queued" THEN "shut"
                                                         ELSE handler[c]]
  /\ byte' = [c \in Conn |-> IF handler[c] = "queued" THEN "none" ELSE byte[c]]
  /\ UNCHANGED <<removing, signalled, shuttingDown, leaseVars, dir, open>>

CloseEndpoint(i) ==
  /\ rpc = "closingEndpoints" /\ i \in bound
  /\ \A j \in bound : i <= j
  /\ bound' = bound \ {i}
  /\ entry' = entry \ {i}
  /\ UNCHANGED <<runVars, shuttingDown, accepting, leaseVars, dir, connVars>>

Closed ==
  /\ rpc = "closingEndpoints" /\ bound = {}
  /\ rpc' = IF removing THEN "unlinking" ELSE "exiting"
  /\ UNCHANGED <<removing, signalled, sockVars, leaseVars, dirVars, connVars>>

\* os.RemoveAll of the generation, by whoever calls it.
RemoveAll == dir' = "absent" /\ entry' = {}

RemoveGeneration ==
  /\ rpc = "unlinking"
  /\ rpc' = "exiting"
  /\ RemoveAll \/ UNCHANGED dirVars          \* RemoveAll may fail
  /\ UNCHANGED <<removing, signalled, sockVars, leaseVars, connVars>>

\* Run returns and main exits.
ExitSidecar == rpc = "exiting" /\ ProcessGone

-----------------------------------------------------------------------------
(* serveControl and handleControl.                                         *)

Handle(c, state) == handler' = [handler EXCEPT ![c] = state]

Accept(c) ==
  /\ accepting /\ handler[c] = "queued"
  /\ Handle(c, "accepted")
  /\ UNCHANGED <<runVars, sockVars, leaseVars, dirVars, open, byte>>

\* Accept returns an error: the loop ends, the listener stays open.
AcceptFails ==
  /\ accepting
  /\ accepting' = FALSE
  /\ UNCHANGED <<runVars, bound, shuttingDown, leaseVars, dirVars, connVars>>

\* No role byte: the client has closed, or 30 seconds are over.
RoleMissing(c) ==
  /\ handler[c] = "accepted" /\ byte[c] = "none"
  /\ Timely => c \notin open
  /\ Handle(c, "shut")
  /\ UNCHANGED <<runVars, sockVars, leaseVars, dirVars, open, byte>>

ReadRole(c, role) ==
  /\ handler[c] = "accepted" /\ byte[c] = role
  /\ byte' = [byte EXCEPT ![c] = "none"]

\* A probe: leaseHeld is loaded first, shuttingDown after it, and the answer is
\* written last; close may run between any two of them.
LoadLeaseHeld(c) ==
  /\ ReadRole(c, "probe")
  /\ Handle(c, IF leaseHeld THEN "loaded" ELSE "shut")
  /\ UNCHANGED <<runVars, sockVars, leaseVars, dirVars, open>>

LoadShuttingDown(c) ==
  /\ handler[c] = "loaded"
  /\ Handle(c, IF shuttingDown THEN "shut" ELSE "cleared")
  /\ UNCHANGED <<runVars, sockVars, leaseVars, dirVars, open, byte>>

WriteReady(c) ==
  /\ handler[c] = "cleared"
  /\ Handle(c, IF c \in open THEN "ready" ELSE "shut")
  /\ UNCHANGED <<runVars, sockVars, leaseVars, dirVars, open, byte>>

GrantLease(c) ==
  /\ ReadRole(c, "lease") /\ ~leaseHeld
  /\ leaseHeld' = TRUE
  /\ established' = TRUE
  /\ Handle(c, "lease")
  /\ UNCHANGED <<runVars, sockVars, ended, dirVars, open>>

\* The Refused byte is never read.
RefuseLease(c) ==
  /\ ReadRole(c, "lease") /\ leaseHeld
  /\ Handle(c, "shut")
  /\ UNCHANGED <<runVars, sockVars, leaseVars, dirVars, open>>

\* io.Copy on the lease ends, and the connection is closed: EOF if the client's
\* end is closed; a read error may come at any time.
LeaseReadEnds(c, outcome) ==
  /\ handler[c] = "lease"
  /\ outcome = "readEOF" => c \notin open
  /\ Handle(c, outcome)
  /\ UNCHANGED <<runVars, sockVars, leaseVars, dirVars, open, byte>>

\* leaseHeld is cleared after that, and before the outcome is sent: a session
\* that reconnects at once is refused.
ReleaseLease(c) ==
  /\ handler[c] \in {"readEOF", "readError"}
  /\ Handle(c, IF handler[c] = "readEOF" THEN "eof" ELSE "error")
  /\ leaseHeld' = FALSE
  /\ UNCHANGED <<runVars, sockVars, established, ended, dirVars, open, byte>>

\* Mutant of SendOutcome: the outcome is dropped unless Run waits for it.
SendOutcomeToWaiter(c) ==
  /\ handler[c] \in {"eof", "error"} /\ ended = {}
  /\ ended' = IF rpc = "leased" THEN {c} ELSE ended
  /\ handler' = IF rpc = "leased" THEN handler ELSE [handler EXCEPT ![c] = "shut"]
  /\ UNCHANGED <<runVars, sockVars, leaseHeld, established, dirVars, open, byte>>

\* Mutant of SendOutcome: the channel is taken for one without a bound.
SendOutcomeAlways(c) ==
  /\ handler[c] \in {"eof", "error"} /\ c \notin ended
  /\ ended' = ended \union {c}
  /\ UNCHANGED <<runVars, sockVars, leaseHeld, established, dirVars, connVars>>

\* The channel takes one outcome; a second sender is left waiting.
SendOutcome(c) ==
  /\ handler[c] \in {"eof", "error"} /\ ended = {}
  /\ ended' = {c}
  /\ UNCHANGED <<runVars, sockVars, leaseHeld, established, dirVars, connVars>>

-----------------------------------------------------------------------------
(* Steps of the relay's own goroutines, except its one timer.              *)

RunStep ==
  \/ RemoveStaleSockets \/ BindImpossible \/ BindControl \/ ServeControl
  \/ \E i \in Endpoint : BindEndpoint(i) \/ CloseEndpoint(i)
  \/ LeaseEstablished \/ StopOnSignal
  \/ \E c \in Conn : LeaseEnded(c)
  \/ CloseControl \/ Closed \/ RemoveGeneration \/ ExitSidecar

HandlerStep(c) ==
  \/ Accept(c) \/ LoadLeaseHeld(c) \/ LoadShuttingDown(c) \/ WriteReady(c)
  \/ GrantLease(c) \/ RefuseLease(c)
  \/ LeaseReadEnds(c, "readEOF") \/ ReleaseLease(c) \/ SendOutcome(c)
  \/ RoleMissing(c)

RelayFails ==
  \/ StartupFails \/ AcceptFails \/ KillSidecar \/ Signal
  \/ \E c \in Conn : LeaseReadEnds(c, "readError")
=============================================================================
