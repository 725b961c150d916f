# Verification of agents-safe-environment

This directory specifies and verifies the parts of `agents-safe-environment`
that are hard to get right by testing: the life of a shared session container,
the goroutines and processes inside it, the relay channel to the host, the
launchers that race for the container, what a kept container carries from one
run to the next, and the planning of what a container may see of the host. The
specifications are TLA+; TLC checks them on small instances, TLAPS proves for
every value of the constants that they are safe. Source paths below are relative
to `src/`.

- [The system](#the-system): components, their state, how they interact
- [Modules](#modules): which module models which part, and how
- [Runs](#runs): what each model-checking run shows, with its bounds
- [Fairness](#fairness)
- [Proofs](#proofs)
- [Where code and text disagree](#where-code-and-text-disagree)
- [What is not modelled](#what-is-not-modelled)
- [Plan](#plan)

## The system

A user runs `agents-safe <command>` (or `codex-safe`, `claude-safe`) in a Git
worktree. All launches of one user and worktree share one container, found by
its deterministic name. Inside it `agents-safe-session serve` prepares the
account and the file system, runs a nested `dockerd`, and counts the commands
that are running; when none has run for five seconds it shuts everything down.
Each command is a `docker exec` of `agents-safe-session run`, which registers
itself over a Unix socket before it starts its child. When the host has MCP
servers on loopback addresses, a second container, the relay sidecar, forwards
connections to them through Unix sockets in a directory both containers mount.

```
 launcher A ──┐  docker run/start/exec/stop      ┌── session container ───────────┐
 launcher B ──┼────────► Docker ────────────────►│ Supervisor.Serve               │
              │                                  │   ├─ dockerd                   │
              │                                  │   ├─ host-MCP lease ───────┐   │
              │      docker exec run ───────────►│   └─ session Manager       │   │
              │                                  │        ▲ socket            │   │
              │                                  │        └─ wrapper ─ child  │   │
              │                                  └────────────────────────────┼───┘
              └─ probe "ready" ─► channel directory ◄── relay sidecar ◄───────┘
```

### Components

| Component | State it keeps | Operations | Hard behaviour | What makes it correct |
|---|---|---|---|---|
| **Session manager** `internal/session/manager.go` | `active` connections, `stopping`, idle timer, socket and marker files | listen, accept, register, acknowledge, unregister, idle/cancelled/failed shutdown | a goroutine per connection, timer callbacks and a context watcher on one mutex; the acknowledgement is written outside it | an idle shutdown never takes a command with it; admission ends with the commit; a manager without commands ends |
| **Command wrapper** `command.go`, `readiness.go` | its connection, its child | probe marker, dial, recheck, read acknowledgement, retry, run, close | timeouts and retries race a late answer and a shutdown | it starts its child only while it is counted; it is refused only by a manager that is stopping |
| **Supervisor** `container/supervisor.go`, `dockerd.go` | manager goroutine, dockerd and its waiter, derived contexts | bootstrap, start, select on three events, ordered shutdown | several events at once; a dockerd that does not stop; a failure at every step | dockerd goes after the manager; nothing is left behind; success hides no failure |
| **Session side of the channel** `container/hostmcp.go` | the lease connection, the reconnecting goroutine | dial, attach, adopt, watch, reconnect, close | a reconnection that succeeds while the session closes | no lease leaks; a replaced sidecar gets the lease |
| **Relay sidecar** `relay/relay.go` | listeners, `leaseHeld`, `shuttingDown`, the channel directory | bind, serve control, grant a lease, answer a probe, close, remove the directory | handlers race the closing; end-of-file, read error, signal and timeout look alike | the control socket means that all endpoints are bound; the directory goes only when the session has gone |
| **Launcher, channel side** `launcher/host_mcp.go`, `hostmcp/channel.go` | the candidate generation, what it has started | ensure the sidecar, wait for its name, probe, unwind | a sidecar about to leave; an unwinding that fails halfway | a running session keeps its directory |
| **Launcher, container life** `launcher/launcher.go`, `container_lifecycle.go`, `command_execution.go` | the container ID it works with, whether it has retried | inspect, wait, restart, create, wait for readiness, exec, decide on a retry | other launchers; containers that stop, vanish or are replaced between any two calls | a command runs once, where it belongs, after bootstrap; no launcher waits for ever |
| **Mount planning** `launchplan/` | none | validate roles, merge, order parents first, absorb, add caches, mask Python environments | nested mounts with different access; symlinks; a loop whose result depends on the order of its scan | every place shows what was asked for nearest to it; nothing writable reaches Git's worktree registry |
| **Host and Git discovery** `host_environment.go`, `gitproject/` | none | canonicalise, accept or refuse | broken links, linked worktrees, a registry in an unusual place | a launch starts from real paths only |
| **Configuration** `projectenv/`, `project_config.go`, `launchcli/` | four files in `.agents-safe` | initialise, overlay, validate, choose caches | two initialisations of one worktree, one cut off, a launch that reads meanwhile | a launch means the same before, during and after an initialisation; a file is never overwritten |
| **Endpoint discovery** `hostmcp/discovery.go`, `endpoint.go` | none | select, merge, sort, reject collisions, label and back | `localhost` needs two listeners; a restart reads the set from a label | both containers agree on every index; no server is lost or invented |
| **Container bootstrap** `container/account.go`, `tmpfs.go`, `user_filesystem.go`, `service_access.go` | the account databases, the home, the firewall rules, files in `/run` | run once at every start | cut off anywhere, repeated on what a kept container retains | a session that serves is complete; a restart repairs what bootstrap owns and spares the rest; no cut-off wedges the container |
| **Fingerprint, Docker requests** `launch_fingerprint.go`, `docker_requests.go`, `dockercli/` | none | encode | – | equal settings, equal fingerprint |
| **Front ends, image, tools** `cmd/`, `cli/`, `terminal/`, `container/`, `tools/` | none | dispatch | – | – |

### How they interact

- *Launcher → Docker → container.* `docker run` with the project's name is the
  only arbiter between launchers: a name conflict means that somebody else has
  created the session. Everything else a launcher knows comes from
  inspections, which are stale as soon as they return.
- *Launcher → session.* `wait-ready` (as root) returns when the manager's socket
  exists; only then is `run` executed as the user.
- *Wrapper → manager.* A connection is a registration. One byte acknowledges
  it, end-of-file releases it. The file `stopping` tells a wrapper without a
  connection that the shutdown is committed.
- *Supervisor → manager, dockerd.* Contexts and channels: the end of one makes
  the supervisor stop the others, in order.
- *Session → sidecar.* One connection to `control.sock` with the role `lease` is
  held as long as the session lives. Its end-of-file is the sidecar's order to
  remove the directory and leave.
- *Run → run.* A kept container keeps its writable layer: what one run left in
  `/run`, in the account databases and in the home is what the next bootstrap finds.
- *init → launch.* The files of `.agents-safe` and nothing else.
- *Plan → container.* The mounts are bound once, at creation; the endpoints are
  recorded in a label and read back when a kept container is started again.
- *Launcher → sidecar.* A connection with the role `probe` asks whether the
  channel is ready.

## Modules

| Module | Lines | Models | Kind |
|---|---|---|---|
| `SessionLifetime` | 76 | what manager and wrappers promise together | abstract specification |
| `SessionManager` | 676 | `session/manager.go`, `command.go`, `readiness.go` | detailed, implements `SessionLifetime` |
| `SessionManagerProofs` | 1149 | | proofs: its invariants, and that it implements `SessionLifetime` |
| `Relay` | 360 | `relay/relay.go`, the directory part of `hostmcp/channel.go` | component |
| `HostMCPChannel` | 579 | `Relay` with `container/hostmcp.go` and `launcher/host_mcp.go` | composition |
| `HostMCPChannelProofs` | 1566 | | proofs |
| `Supervisor` | 395 | `container/supervisor.go`, `dockerd.go` | component |
| `SupervisorProofs` | 427 | | proofs |
| `KeptContainer` | 461 | `Supervisor` with the steps of bootstrap (`account.go`, `tmpfs.go`, `user_filesystem.go`, `service_access.go`) over all runs of one container | composition |
| `KeptContainerProofs` | 1584 | | proofs |
| `SessionLaunch` | 467 | `launcher/launcher.go`, `container_lifecycle.go`, `command_execution.go` | component |
| `SessionLaunchProofs` | 603 | | proofs |
| `HostPaths` | 68 | paths, symlinks, containment | operators |
| `LaunchInputs` | 163 | `gitproject/`, `host_environment.go`, the defaults of `project_config.go` | operators |
| `MountPlan` | 502 | `launchplan/plan.go`, `python_venv.go`, `docker_storage.go` | component |
| `MountPlanProofs` | 3410 | | proofs |
| `EndpointSet` | 209 | `hostmcp/discovery.go`, `endpoint.go` | component |
| `EndpointSetProofs` | 718 | | proofs |
| `ProjectFiles` | 340 | `projectenv/init.go`, `config.go`, `project_config.go`, `host_caches.go` | component |
| `ProjectFilesProofs` | 1855 | | proofs |
| `MC…` | | instances and symmetry sets for TLC; `MCPlanning` explores the last three components side by side | |

Definitions marked "Mutant" in the modules are altered forms of the definition
that follows (or precedes) them. They are used by no specification; each shows,
put in the place of the original, that some property notices that bug.

### SessionManager

*Atomicity.* Every critical section of `managerState.mutex` is one action;
everything the code does outside it is a separate action. `Register` is
therefore two: `Register` (insert and stop the timer, under the mutex) and
`WriteAck`. An accept error is two (`AcceptFails` asks whether
a shutdown is committed, `AcceptShutdown` commits one).
`closeForShutdown` is `WriteMarker`, `CloseListener` and one
`CloseConnection` per collected connection; the removal of the socket path at the
end of `Serve` may fail. A wrapper's `connectRegistered` is
one action per system call.

*Goroutines.* `srv` is the accept loop of `Serve`; `reader` holds the
connections with a reader goroutine; `fired` the timers whose callback has been
started, which `Stop` no longer reaches; `closer` the one goroutine inside
`closeForShutdown`. The kernel's accept queue is `queued`.

*Connections* are pairs of a wrapper and an attempt, so that the connection a
wrapper abandoned stays distinct from its next one. `MaxAttempts` bounds the
retries; a wrapper with no attempt left can still only time out.

*Initial states* include the files an earlier run of a kept container left: the
marker, the socket path, or both.

### Relay and HostMCPChannel

`Relay` has the state of one sidecar at a time: the goroutine of `Run` (`rpc`),
the accept loop, one handler per connection, and the directory (`dir`,
`entry`). `dir` tells the directory the running session has mounted from a
fresh one with the same path, because unlinking a bind-mounted directory and
making it anew separates the two. Connections are slots that are used again.

`HostMCPChannel` adds the session's lease holder (`hpc`, `lease`, `mine`), the
stages of the session around it, and launchers that start, restart and reuse
the session, including those that fail halfway and unwind. `Timely` says that
no timeout of the relay beats a client that answers promptly: the code's
constants (retry 2 s, pre-lease 20 s, relay 60 s) are ordered so, and
`launcher/timeouts_test.go` pins the order. Safety is checked with `Timely`
false and proved for both values, so it does not rest on that; only the liveness
run uses it.

A handler that answers a probe loads `leaseHeld`, loads `shuttingDown` and
writes, one action each, and one whose lease ends closes the connection and clears
`leaseHeld` in two. `ReadyIsTruthful` is about the second load and the write: the
decision for Ready is right when it is taken, and what is written is right too
unless `close` has begun in between. That exception is a window of the code (below).

A connection slot is used again once nobody has anything of the old connection
in hand. `ReadyIsTruthful` promises the sockets at their path unless the session
is one whose launcher was not told of it (`untold`): a second launcher may reuse
that session and its sidecar while the first unwinds what it believes is its own.
`MountIsIntact` has the same exception, and that session does lose its directory
(below).

### Supervisor

The goroutine of `Serve` (`sup`), the goroutine that waits for dockerd, dockerd,
the manager goroutine, and the signal. The select is modelled as the Go runtime
behaves: a goroutine that arrives with several cases ready takes any of them,
one that is already parked takes the first that becomes ready (`woken`). The
manager cannot become idle before `Serve` has reached the select, because its
idle timeout is five seconds. `fault`, `lost` and `stuck` are history
variables: a step failed, dockerd ended by itself under a running manager, the
kernel refused a signal.

### SessionLaunch

Launchers (`pc`, `cid`, `via`, …) and containers (`state`). A container slot is
used again with a new identity once no launcher remembers it, so that a stale
ID never names a new container. A container's life is the sequence *booting,
serving, committed, stopping, exited*: what `Supervisor` and `SessionManager`
do in detail. In particular `CommitIdle` needs that no command is registered,
which is `SessionManager!IdleShutdownSparesCommands`, a theorem there. Docker's
`--rm` removal is a step of its own, so a stopped container can be seen. Other
users of Docker may take the name, `docker run` may create a container without
the launcher learning of it, containers may die at any time, and every call of
an acquisition may fail.

An attempt that unwinds stops the session by its name. `CleanupSparesOthers`
says what that must not do, and does not hold (below).

### KeptContainer

`KeptContainer` extends `Supervisor`: the one step `Bootstrap` of that module
becomes the steps of `tmpfs.go`, `account.go`, `user_filesystem.go` and
`service_access.go`, each action the whole effect of one system command, so that
a run can be cut off between any two. `kept` is what survives the end of a
container (`groups`, `users`, `home`, `bashrc`, `sudoers`, and in `stale` the
sockets and pid files in `/run`); `run` does not. `Kill` ends a run anywhere,
`Restart` is `docker start`. The databases are sequences because `getent`
answers with the first entry that matches. Commands of a session, which may become
root, edit or delete `~/.bashrc`, give the home another owner or mode or remove it,
give their own account another group and home, remove the sudo policy, and install
a package that adds an account (`Command`). Bootstrap undoes most of this, and
`RestartOnlyRepairs` says where it stops: the groups, the other accounts, a
`~/.bashrc` that is there, and whatever is already as it should be stay as they are.

Every action of `Supervisor` occurs in `KeptContainer` conjoined with what it
does to the kept state, so a behaviour here, cut at its restarts and up to the
kill, is a behaviour of `Supervisor`; its invariants are checked again.

### HostPaths, LaunchInputs, MountPlan

A path is a sequence of names; a *disk* has directories, files, links and locked
paths. Its links are listed under every name by which they are reached, so that
the last link on the way to a path says where the path leads (`SoundDisk`); a
loop of links is not a disk of the model. A lookup that the code may refuse is
the set of the values it can return, empty or a singleton, and `Take` makes the
pipeline of `ResolveWithHostHome` of them: each stage takes the one value or the
plan is refused. `RetainEach` is the loop of `normalizeLogicalMounts` as a recursive
function of the number of entries seen, with the nearest ancestor as the *last*
match of the scan, as in the code; `Placed` is the loop of
`orderMountParentsFirst`, pass after pass over the list.
`AccessIsAsAsked` compares it with a definition that has no order at all: at each
place, the mount asked for nearest to it. What a place shows (`View`) is the source
as Docker resolves it, links included. The plan compares sources as they are
spelled, so the trees agree unless a link lies between the source of a mount and of
the one that absorbed it (`LinkBetween`), where the container shows the link itself
(below); the access agrees always.

### EndpointSet

Discovery, the label and its way back are three steps. A configuration is a set
of servers per file and scope, as the maps of the code are, and a merge is what
`mergeSets` makes of its arguments: each address once, in order, with all names
it was given. Only Codex's entries have a key `enabled`, so `Selected` asks for it
in that scope alone. `ParseLabel` is the check of a recorded label;
`EveryServerIsForwarded` and `RestartKeepsSockets` compare the results with the
configuration itself. `RefusalIsJustified` does so for what is refused: three merges,
each with its own check for collisions, refuse exactly the configurations in which
two selected servers of any scope need one listener, or one has no valid port.

### ProjectFiles

The four files of `.agents-safe`, any number of `agents-safe init` processes with
one action per system call (inspect, mkdir, encode, check, `O_EXCL` create,
write), a user who edits, and a launch that chooses its base and then locates and
reads the two layers, so that a file may change or vanish between the two. The
directory itself may be no directory, which everybody refuses. A file that was
created and not yet written is `Hollow`: to the decoder a file without settings.
`Contract` is the whole of `ResolveProjectConfig` on files nobody touches; `expected`
is its value on the user's own files.

## Runs

Run names are those of `PROJECT.json`. Every property of a passing run is also
exercised by a mutant of the modelled code that violates it.

| Run | Instance | States | What it shows |
|---|---|---|---|
| `session_safety` | 2 wrappers, 1 attempt each, symmetric | 2.0 M | Registration, idleness, cancellation and failures in every order: an idle shutdown spares commands, an idle manager is timed, the shutdown is announced. The protocol implements `SessionLifetime`: nothing is admitted after the commit, and a closed session is drained. |
| `session_retry` | 1 wrapper, 2 attempts, fair | 268 k | A wrapper that dials again is counted on the connection it holds. Shutdowns complete, abandoned managers stop, registrations resolve. |
| `channel_transient` | 2 endpoints, 3 connection slots, 1 launcher, `--rm` sessions | 1.6 M | The control socket means that all endpoints are bound, Ready is decided on and written truthfully, no running session loses its directory, a closed channel leaks no lease; `docker run` may be cut off for the sidecar and for the session. |
| `channel_recovery` | 1 endpoint, 2 slots, 1 launcher, kept sessions, fair | 277 k | The directory is removed only when the session has gone, orphaned sidecars end, a replaced sidecar is leased again. |
| `kept_container` | 5 images, 1 mask, 2 troubles, any number of restarts, fair | 508 k | A session that serves is complete, a restart only repairs, no cut-off wedges the container; shutdown order, cleanup after every failure, an honest exit status and termination in every run. |
| `launch` | 2 launchers, 3 container slots, 2 fingerprints, forwarding, kept and not, forced and not, symmetric | 1.1 M | Commands run once, where they belong, after bootstrap. |
| `launch_resolves` | 2 launchers, 2 slots, fair | 367 k | No launch waits for ever. |
| `planning` | 24 hosts with all edits of their configuration; every pair of servers; 2 initialisations, 1 edit, 1 launch after the other, 5 checkouts | 744 k | Mounts give each place the access asked for, the worktree registry is protected, every role and every server is served, a restart keeps the sockets, nothing is refused without a reason; initialisations leave what a launch resolves as it was and leave no gap. |
| `channel_replaced`, `supervisor_cancel`, `launch_cleanup`, `planning_codex_home` | small, or as the run beside them | | counterexamples, [below](#where-code-and-text-disagree) |

*Why the bounds are enough.* A wrapper interferes with the manager only through
its connection and the shared map, marker and timer: two wrappers give one that
is being admitted while another leaves, and the theorems cover any number. Two
attempts are what a connection that lingers after its wrapper has given it up
takes. Three connection slots let a lease, a probe and a refused lease meet in
one sidecar; more connections would repeat one of the roles. Two launchers give
a winner and a loser of every race for the name; three container slots give the
loser a container that is gone, the one that replaced it, and a free one.
`launch_resolves` has two slots and one fingerprint, since a creating launcher
remembers no container and a mismatch only shortens a launch. `Attempts` is 2
where the code has `containerCreateAttempts`: one lost creation that is tried
again, and one that is not. `Supervisor` has no bound at all.

`KeptContainer` bounds what may go wrong without a reason (`MaxTrouble` = 2:
failures, signals, kills): a cut-off whose consequence is cut off again; failures
that have their reason in the state (a conflict of accounts, a stale file, a
cancelled context) and restarts are not bounded. One mask stands for the loop over
masks (`Tmpfs` = 1). The databases of `MCKeptContainer` are one for each branch of the reconciliation.
`MCPlanning` has the project alone, with a worktree beside it, inside it,
inside its registry, and outside of the home, Python layouts, and the layouts the code refuses; the edits
put any mount of a list of sources, targets and modes first or last, remove or
flip any default, nest two, and pair any two caches. Paths have at most four
names, which is what a worktree's entry in the registry needs. Two
initialisations give the race; more would repeat one of them.
In `channel_transient` no later launch reuses the session whose launcher was not
told of it (`UntoldBound`), and in it and in `channel_recovery` one lease at a time
has a read error, with no signal to the relay until that is dealt with
(`ErrorBound`): two errors, or an error and a signal, fill the one-slot outcome
channel in orders that one of each already has. The theorems about the channel have
neither bound.

Deadlock is not checked where the modelled processes may all be done: the channel
without launchers left, a supervisor that has returned, launches that are over, a
plan that is made.

## Fairness

Weak fairness is assumed for what the Go scheduler, the kernel and time provide,
and for nothing else:

- *SessionManager*: each goroutine that can run does; each wrapper proceeds;
  running timers and startup deadlines elapse. Not assumed: that a context is
  cancelled, that anything fails, that a child exits, that a wrapper is killed.
- *HostMCPChannel*: the sidecar's goroutines, its timeouts, the session's lease
  goroutine and supervisor. Not assumed: anything of launchers, signals, Docker.
  An action constraint of `channel_recovery` (`LiveBound`) leaves out probes and
  signals, which would only add ways to end.
- *Supervisor*: `Serve` and the waiter for dockerd proceed, a manager that was
  cancelled or has committed returns, a killed dockerd ends. Not assumed: that a
  dockerd that got SIGTERM ends, that the manager becomes idle.
- *KeptContainer*: as Supervisor, and the container is started again whenever it
  has stopped (`WF(Restart)`): a user who keeps trying, which is the question
  `BootstrapConverges` asks. Not assumed: that nothing goes wrong meanwhile.
- *SessionLaunch*: launchers proceed; a booting container comes up or dies, a
  stopping one ends, a stopped `--rm` container is removed. Not assumed: that any
  timeout elapses, that a container becomes idle, that commands end.

## Proofs

Every safety property of a passing run is a theorem. The proofs are checked by
TLAPS to the last leaf, for every value of the constants that satisfies the named
assumptions; TLC evaluates these on the instances of the runs.

| Module | Invariant | Theorems | Assumptions |
|---|---|---|---|
| `SessionManagerProofs` | `IInv` | types, `AcknowledgedIsCounted`, `IdleShutdownSparesCommands`, `RefusedMeansStopping`, no admission after a commit | `MaxAttempts` is a natural number |
| | `IInv`, `ServiceInv` | `IdleManagerIsTimed`, `ShutdownIsAnnounced`, `ImplementsLifetime`, `Lifetime!HoldersAreMembers` | the same |
| `SupervisorProofs` | `IInv` | types, `DockerdOutlivesManager`, `NothingIsLeftBehind`, `LeaseCoversRun`, `SuccessHidesNothing` | none |
| `KeptContainerProofs` | `LifeInv` | types, `ServingIsComplete`, `RestartOnlyRepairs`, the four of `Supervisor` in every run | an image's databases give each name once |
| `HostMCPChannelProofs` | `LeaseInv` | types, `ClosedLeaksNothing`, `RemovalProvesSessionGone`, the control socket comes last | there is an endpoint |
| | `TransientInv` | `MountIsIntact`, `ControlMeansComplete`, `ReadyIsTruthful` | also `~KeepContainer` |
| `SessionLaunchProofs` | `IInv` | types, `CommandsRunWhereTheyBelong`, `CommandStartsOnce`, `BarrierHolds` | a foreign label is no fingerprint, a creation may be tried |
| `ProjectFilesProofs` | `GapInv`, `LaunchInv` | `InitLeavesNoGap`, `LaunchIsUnaffected` | each cache is offered once; a file of the user's has some setting (an empty one is indistinguishable from one just created) |
| `MountPlanProofs` | `PlanInv` | `AccessIsAsAsked`, also at every path; where no source is a link, the trees too; `RegistryIsProtected`, `RolesAreServed` | disks are as `HostPaths` describes them, Git reports paths, configurations decode as such; two literals are strings |
| `EndpointSetProofs` | `EpInv` | `EveryServerIsForwarded`, `RestartKeepsSockets`, `RefusalIsJustified` | finite configurations |

**SessionManager.** `IdleShutdownSparesCommands` is not inductive: that an idle
commit finds no holder needs that each holder is counted, which needs to know
how an acknowledgement can be under way. The invariant `IInv` adds:

- `KnownAreMade`, `OnePlace`: a connection exists before it is anywhere, and is
  in the accept queue, in the accept loop's hands, or in the map with a reader;
- `WaitersAreOpen`, `HoldersAreAcked`: a wrapper that waits has its end open;
  one that runs has been acknowledged;
- `Admission`: until a shutdown is committed, every acknowledged connection whose
  wrapper is still there is counted, and none that is counted or waits to be has
  been closed by the manager;
- `IdleAftermath`: after an idle commit no acknowledged connection is open and
  no acknowledgement is about to be written;
- `Stages`: which steps of `Serve`, the watcher and the closing goroutine
  exclude each other;
- `MarkerInv`: a marker belongs to this manager or is one it removes before it listens.

From `IInv` follow `TypeCorrect`, `IdleShutdownIsSafe`,
`AcknowledgedIsAlwaysCounted`, `RefusalIsCurrent`, and the action property
`AdmissionCloses` (`NoAdmissionAfterCommit`, which the runs check as a part of
`ImplementsLifetime`). `IdleShutdownIsSafe` is the design's central invariant: *the
manager cannot exit for idleness while any registered wrapper's direct child is
running* (`go-session-manager.md`, "Invariants").

**Refinement of SessionLifetime.** `ServiceInv` adds what the manager owes:
before the accept loop nothing has begun (`NothingBegun`), the listener is closed
only behind the marker (`MarkerComesFirst`). `IdleManagerIsTimed` is then inductive:
the step that empties the map arms a timer, and the one that stops a timer fills
the map. The
refinement mapping takes the phase of the abstract manager from `srv` and
`stopping`, its members from the map, its holders from the wrappers that run.
`StepImplements` has one case per action: a step of a wrapper or a file is a
stutter, an admission or a commit is the abstract one, and each needs the
invariant, for instance that a wrapper that starts its child is a member
(`Admission`). `PromiseIsKept` carries an invariant of the abstract
specification over to the implementation.

**Supervisor.** `IInv` is the type invariant with `Stages` (what has been
started, asked and cancelled at each place of `Serve`), `Accounts` (where an
error that has happened is kept) and `Losses` (why dockerd or the manager is
gone). It yields `DockerdIsStoppedLast`, `ServeCleansUp`,
`LeaseIsHeldThroughout`, and `SuccessIsHonest`: by `Accounts` every failure is
at each moment in the result, in the dockerd waiter's result or in the
manager's, so that it reaches the result of `Serve`.

**KeptContainer.** Every step is a step of `Supervisor`, a kill or a restart, so
`Supervisor`'s `IInv` is kept until a kill (`Slain`) and holds again after the
restart; that gives `EveryRunIsSound` without a second proof. The rest follows
bootstrap: `Prepared` says what is done before each step, `Guarded` which rules
there are at each place of `Serve`, and `Lasting` what a container that has
served once keeps. The databases are sequences in which the first match wins, so
what `usermod` and `groupmod` do is stated of the *leading* entry of an id
(`Settled`: it has the host's name; `Complete`: and its group and home), with a
lemma per system command. `RestartOnlyRepairs` is then a statement about
single steps: with `Lasting`, the group is settled and the host's own account leads
its id, so every branch of the reconciliation that writes either finds nothing to
change or changes that account alone.

**HostMCPChannel.** `LeaseInv` describes one sidecar and one session whatever the
launchers do: what is bound at each stage of `Run` (`BoundByStage`), what a
handler has seen (`Conversation`), that `holdLease` works on one connection of
its own (`OneLease`), and that every open connection of the session is in the
hands of its goroutine or its close (`NothingForgotten`), which is why nothing
leaks. `AliveMeansOpen` makes an end-of-file the proof that the session is gone.
The properties about the directory are about launchers too, and hold for
transient sessions only; `~KeepContainer` is an assumption of those theorems, and
`channel_replaced` is the counterexample without it. There `Ownership` says that
one attempt at a time may unlink the directory, and only when its session does
not exist, is gone, or was never made known to it; and `NoDirectoryNoLease` that
a sidecar without a directory is closing or was never leased.

**SessionLaunch.** `Matched` carries the acceptance of a container from the
inspection to the exec: a remembered ID names either the container that was
inspected or none, for Docker gives no ID twice. With `Registered` (the commands
of a container are those that run in it) this is `CommandsRunWhereTheyBelong`.
`StartsAreCounted` says that a command has not been started before it runs, on
the way to a retry in particular; `PastBootstrap` is `BarrierHolds` extended to
the places between the readiness check and the exec.

**ProjectFiles.** `GapInv` says who fills a gap: a file without content has its
one writer (`Writers`, `Gaps`), which has the content at hand (`Texts`), and what
an initialisation has passed exists (`Behind`). It holds as long as nothing was
cut off, which is what the property supposes. `LaunchInv` reads such a file as the
absent one it was (`Meaning`) and says at each stage of a launch that the base it
chose still fits `config.toml` and that what it resolved so far is what the
layers mean now (`Progress`). The heart are two lemmas about the layers: adding
the generated `common.toml` (`CommonKeepsContract`) or `config.toml`
(`LocalKeepsContract`) changes nothing a launch resolves. The second needs what
the selection of caches keeps, a recursive function over the list of caches,
for which the induction is done on sets of numbers (`NumbersFollow`).

**MountPlan.** Three things meet. `PlanInv` says that what each step has found is
what its lookup returns for the findings before it, so that a finished plan has
passed every check. The second is what the lookups compute. They are recursive
functions over lists of any length: `RecursionExists` carries a recursion whose
steps stay within given sets up to any number, with `Climb` for the induction, on
a set of numbers. `PlacedIsInOrder` shows that `orderMountParentsFirst` never runs
out of entries (mounts that contain each other have one source, one target, and
are merged: `ContainedIsLonger`) and that each stands behind all that contain it.
`Retains` is the invariant of the loop of `normalizeLogicalMounts`: each entry
seen is *served* (`Serves`) by a retained mount that contains it, has its access
and its roles, and no later one is mounted over the entry's target; that rests on
the nearest ancestor being the last match of the scan and on parents coming first.
The third relates the two sides of each property. At a place with a mount asked
for, one is the nearest (`SomeIsNearest`), and the mount that serves it is the
last over the place (`MountIsSeen`); a cache overlaps no mount and is seen alone.
That one source is below the other as spelled makes it so for what they resolve to
if the same links lie on the way to both (`ResolvedInTurn`).
That is `AccessIsNeverChanged`, and as the proof uses nothing of `Places` it holds
at every path (`AccessHoldsEverywhere`); without links among the sources it has no
exception (`TreesHoldWithoutLinks`). For the registry, each mount wanted keeps
apart from it, shows one of the three paths that Git's layout pins, or is one of
the launcher's own two (`InRegistry`); by the first theorem what is writable at
a place in the registry would have to be the nearest one there, which the
launcher's read-only mount is, a linked worktree's own part excepted. Paths
compare well only when they are canonical, hence `ResolvedIsCanonical` and
`ProjectIsCanonical`. `EveryRoleIsServed` adds that a role is configured once,
so that no second retained mount has it.

**EndpointSet.** `Canonical` is what a merge gives: ascending addresses, and the
*grants* (addresses under one name each) of what it was given. It is closed
under merging again (`MergedAgain`), so three merges of three scopes have the
grants of the union. That a finite set of addresses has an ascending order is
proved by its least counterexample; that the order is strict makes the label
acceptable again. `Canonical` also says that a merge has the addresses it was given
and no other, so it is refused just when two of its servers clash
(`CollisionIsClash`); what clashes in a part clashes in the whole, and so an early
merge refuses nothing that the last one would accept (`DiscoverySucceeds`).

*Only model-checked*: all liveness properties, because liveness under fairness and
ENABLED are beyond the proof system. The properties about the channel's directory
are checked for kept sessions by `channel_replaced`, which violates one, and
proved for transient ones. Induction over data is not available as a rule with an
operator as its parameter; where a proof needs it (the caches of `ProjectFiles`,
the loops of `MountPlan`) it is done on the set of the numbers for which the claim
holds.

## Where code and text disagree

1. **A running session loses its directory** (`channel_replaced`). A kept
   session can be restarted while the previous sidecar is about to remove the
   directory; the running session then has a directory that no later sidecar can reach.
2. **A clean cancellation that fails** (`supervisor_cancel`). A signal that
   arrives before `Serve` reaches its select makes two cases ready; one of them
   reports `context.Canceled` as a failure.
3. **A cleanup that stops somebody else's session** (`launch_cleanup`).
   `cleanupCandidate` stops by name what it remembers by ID. If its own container
   is gone and another launch has created the next session of the project, that
   session and its command are stopped, although the comment above says that the
   cleanup removes only the attempt's own resources.
4. **A Codex home that is not** (`planning_codex_home`). With an additional
   writable mount of the home directory (the project elsewhere) the mount of
   `.codex` is absorbed and its role goes to the ancestor, whose target the command
   then gets as `CODEX_HOME`.

Further observations. They need no run of their own: the first five are where a
property of a passing run states an exception, and the exception is what the code
does.

- *Ready from a channel that closes.* The comment of `close` (`relay.go:247-249`)
  says this never happens, because `shuttingDown` is set first. `handleControl`
  loads it and writes the answer in two steps, and `close` can run between them.
  `ReadyIsTruthful` excepts a write under `shuttingDown`.
- *A session nobody was told of.* `docker run` may be cut off after Docker has
  created the session; its ID is then unknown and the generation is removed while
  the session has it mounted, although `host_mcp.go:78-79` says a running session
  never has its channel unlinked. `MountIsIntact` excepts it (`untold`).
- *A mount that shows its link.* A mount whose source is a symlink is absorbed by a
  mount whose *spelled* source contains it, and its target shows the link, not the
  directory it leads to, against
  `docs/design-docs/project-launcher-configuration.md:638-639`. `AccessIsAsAsked`
  excepts its path (`LinkBetween`), not its access.
- *Two endpoints, one listener.* `::1` and `0:0:0:0:0:0:0:1` are two endpoints;
  `rejectCollisions` compares spellings, although its comment
  (`endpoint.go:142-145`) and `docs/design-docs/host-mcp-forwarding.md:145` exclude
  a second bind of one address. `RefusalIsJustified` compares spellings too.
- *A socket left behind.* `ensureSocketPathAvailable` refuses whatever is in its way,
  so a kept container whose manager was killed does not serve again, although
  `go-session-manager.md:389-391` says that bootstrap removes stale manager state.
  `BootstrapConverges` excepts it.
- *A stale idle callback.* A timer whose callback has started cannot be stopped.
  If a command registers and leaves before the callback gets the mutex,
  `shutdownIfIdle` commits although a fresh timer has just been armed: the session
  ends without the "full idle timeout" of
  `docs/design-docs/go-session-manager.md:379`. No command is harmed.
- *A refusal that is not retried.* Between the stopping marker and the end of the
  container a command is refused and not retried, although
  `go-session-manager.md:411-413` says it is: `containerStoppedAfterExec` takes a
  running container for a reason not to.
- With kept sessions and two launchers the control socket can be bound in a
  directory that lacks an endpoint's socket: an attempt that unwinds removes the
  directory while the sidecar of a restarted session is between two binds, and
  the next restart makes it again. `ControlAlwaysMeansComplete` is therefore about
  transient sessions.
- A launch that adopts a session which has committed its shutdown but still has
  its socket passes the readiness check; one that comes when the socket is gone
  polls until the container ends and then fails, without a retry.
- A kept container that another launcher restarts between the readiness check
  and the exec is the same ID and still bootstrapping; `BarrierHolds` excepts it.
- The comment at `relay.go:336` ("a second lease cannot reach here") does not
  hold between `leaseHeld.Store(false)` and the close of `control.sock`: a session
  that dials again in between is granted a lease of a relay that is leaving. A refused
  lease looks attached to the session until it reads the end of file.
- The control accept loop ends on any error (`relay.go:289-293`) and leaves
  `control.sock` bound, so that dials succeed and nobody answers.
- An accept error that meets the commit of a timer lets `Serve` return before the
  marker is written; `ShutdownIsAnnounced` excepts it.
- When dockerd's log cannot be closed and the kernel refuses the kill, the wait
  for dockerd in `startDockerDaemon` has no bound (`dockerd.go:120-123`);
  `BootstrapConverges` excepts it (`stuck`).
- A linked worktree that a user has added at a path inside Git's registry is
  mounted writable there, at its root; `RegistryIsProtected` excepts it
  (`OwnInRegistry`). The check of configured mounts passes the three roles of
  Git's layout unseen (`plan.go:623-644`).
- `orderMountParentsFirst` goes on behind the entry it has placed, and takes an
  earlier one that has become available only in its next pass; its comment says
  "chooses the first available input entry". Parents come first either way.
- A tmpfs mask may cover a configured mount nested in it, and the option for the
  host's Python environments drops the configured masks too.
- Two initialisations may both report that they created `config.toml`; one that
  decided that a file exists, which a failing peer then removes, creates it empty.
  `InitLeavesNoGap` excepts failures and cut-offs.
- An initialisation that adds `common.toml` beside a `config.toml` with portable
  settings changes no setting but makes each of them a shadowing warning.

## What is not modelled

- *Data*: bytes forwarded between endpoint sockets and host services, the
  contents of fingerprints, argv, banners, log lines, exit codes beyond success,
  failure and refusal.
- *Details of bootstrap*: modes of files, options of mounts, the contents of the
  policies; a system command is atomic.
- *Signals to children and terminals*: `forwardSignals` changes no state of the session.
- *Syntax*: TOML, JSON, URLs, Git's output, `getent`'s output, labels as text. The
  models start from what the parsers return.
- *Override flags and shadowing warnings* of the configuration: an assignment per
  flag, and a comparison of two maps.
- *Front ends, image builds, updaters, repository tools, the probes for caches*:
  no state that survives a call and nothing concurrent.
- *Docker*: external. Modelled as the code uses it: one container per name,
  `--rm`, an exec that dies with its container, name conflicts, failures.

## Plan

Done, in this order, the most important behaviour first:

1. `SessionLifetime`, `SessionManager`, `SessionManagerProofs`
2. `Relay`, `HostMCPChannel`
3. `Supervisor`, `SupervisorProofs`
4. `SessionLaunch`
5. `HostPaths`, `LaunchInputs`, `MountPlan`, `EndpointSet`
6. `KeptContainer`
7. `ProjectFiles`
8. `HostMCPChannel` with unknown outcomes of `docker run`, and the cleanup property
   of `SessionLaunch`
9. the refinement in `SessionManagerProofs`, `SessionLaunchProofs`,
   `HostMCPChannelProofs`, `KeptContainerProofs`, `ProjectFilesProofs`,
   `EndpointSetProofs`
10. `MountPlanProofs`, for which `MountPlan` was rewritten with recursive functions
   and `HostPaths` with links on links

Open: the endpoint data path and the container-side listeners, the override
flags of the configuration, and the masks of `MountPlan`, of which no property
says more than `MasksAreSafe` does. Modules to be proved about use no RECURSIVE
operators.
