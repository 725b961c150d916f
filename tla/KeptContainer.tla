---------------------------- MODULE KeptContainer ----------------------------
(***************************************************************************)
(* The life of one session container over all of its runs: the bootstrap   *)
(* that Supervisor.Serve performs as root (internal/container: tmpfs.go,   *)
(* account.go, user_filesystem.go, service_access.go and the start of      *)
(* dockerd.go), composed with the rest of Serve from module Supervisor.    *)
(*                                                                         *)
(* A container created with keep_container is started again after it       *)
(* stopped. Its writable layer survives: accounts, files and /run. Its     *)
(* mounts, its network namespace and its processes do not. A run may be    *)
(* cut off between any two steps, and bootstrap has to make the next run   *)
(* as good as a first one.                                                 *)
(***************************************************************************)
EXTENDS Supervisor, Sequences

CONSTANTS
  Names,       \* what accounts, groups and homes are called
  Databases,   \* the passwd and group files an image may come with
  Tmpfs,       \* how many tmpfs masks the plan has
  MaxTrouble   \* bound: failures, signals and kills before a run serves

ASSUME KeptAssumption == Tmpfs \in Nat /\ MaxTrouble \in Nat

\* Entries of the databases, which no image gives the same name twice.
Account == [name : Names, id : Nat, gid : Nat, home : Names]
Wellformed(database) ==
  /\ database \in Seq(Account)
  /\ \A i, j \in DOMAIN database : database[i].name = database[j].name => i = j

ASSUME DatabasesAssumption ==
  /\ {"host", "service", "elsewhere", "none"} \subseteq Names
  /\ \A database \in Databases :
       Wellformed(database.groups) /\ Wellformed(database.users)

VARIABLES
  groups, users, \* kept: /etc/group and /etc/passwd, in the order of lookup
  home,          \* kept: the home directory, with bootstrap's owner and mode
                 \* ("user") or with others
  bashrc,        \* kept: ~/.bashrc
  sudoers,       \* kept: the policy of the host user is installed
  stale,         \* kept: whose socket or pid file an earlier run left in /run
  served,        \* history: some run has served
  step,          \* this run: where bootstrap is, while sup = "bootstrap"
  masks,         \* this run: how many tmpfs masks are effective
  rules,         \* this run: Docker's and our iptables rules, oldest first
  trouble        \* how much of MaxTrouble is used

accounts == <<groups, users>>
files == <<home, bashrc, sudoers>>
kept == <<accounts, files, stale, served>>
run == <<step, masks, rules>>
lifeVars == <<vars, kept, run, trouble>>

-----------------------------------------------------------------------------
(* The account databases. getent answers with the first entry that         *)
(* matches; the host's user and group have one name and one id here.       *)

Host == "host"
HostID == 1000
NoEntry == [name |-> "none", id |-> 0, gid |-> 0, home |-> "none"]

Entry(name, id, gid, dir) == [name |-> name, id |-> id, gid |-> gid, home |-> dir]
HostEntry == Entry(Host, HostID, HostID, Host)
HostGroup == Entry(Host, HostID, 0, "none")

Lookup(database, Matches(_)) ==
  LET found == {i \in DOMAIN database : Matches(database[i])}
  IN  IF found = {} THEN NoEntry
      ELSE database[CHOOSE i \in found : \A j \in found : i <= j]
ByID(database)   == LET Is(e) == e.id = HostID IN Lookup(database, Is)
ByName(database) == LET Is(e) == e.name = Host IN Lookup(database, Is)

\* The host's name belongs to another id, or its id to another name while
\* the name is taken: neither is repaired.
Conflict(database) ==
  /\ ByName(database) # NoEntry
  /\ \/ ByName(database).id # HostID
     \/ ByID(database).name # Host

Changed(database, name, Change(_)) ==
  [i \in DOMAIN database |->
     IF database[i].name = name THEN Change(database[i]) ELSE database[i]]

\* usermod --login, groupmod --new-name: the entry that has the id.
Renamed(database) ==
  LET Rename(e) == [e EXCEPT !.name = Host]
  IN  Changed(database, ByID(database).name, Rename)

\* usermod --gid --home, the entry that has the name.
Updated(database) ==
  LET Update(e) == Entry(e.name, e.id, HostID, Host)
  IN  Changed(database, Host, Update)

-----------------------------------------------------------------------------

TypeInvariant ==
  /\ TypeOK
  /\ Wellformed(groups) /\ Wellformed(users)
  /\ home \in {"none", "other", "user"} /\ bashrc \in {"none", "image", "user"}
  /\ sudoers \in BOOLEAN /\ served \in BOOLEAN
  /\ stale \subseteq {"dockerd", "session"}
  /\ step \in {"tmpfs", "group", "user", "update", "mkdir", "chown", "bashrc",
               "rename", "sudoers", "channel"}
  /\ masks \in 0..Tmpfs /\ Len(rules) \in 0..4
  /\ trouble \in 0..MaxTrouble

LifeInit ==
  /\ Init
  /\ \E database \in Databases :
       groups = database.groups /\ users = database.users
  /\ home \in {"none", "other"} /\ bashrc = "none" /\ sudoers = FALSE
  /\ stale = {} /\ served = FALSE
  /\ step = "tmpfs" /\ masks = 0 /\ rules = <<>>
  /\ trouble = 0

\* Something goes wrong: either for a reason that lies in the state, or as
\* one of the MaxTrouble things that just happen.
Trouble(forced) ==
  IF forced THEN UNCHANGED trouble
  ELSE trouble < MaxTrouble /\ trouble' = trouble + 1

-----------------------------------------------------------------------------
(* Bootstrap, in the order of Serve. A cancelled context starts no command. *)

\* Bootstrap goes on from one step to the next.
Pass(from, to) ==
  /\ sup = "bootstrap" /\ step = from /\ step' = to
  /\ UNCHANGED <<vars, stale, served, rules, trouble>>

\* mount, the check of the effective filesystem, and the owner of an owned
\* mask, one mask after the other.
MountTmpfs ==
  /\ ~signalled
  /\ IF masks < Tmpfs
       THEN Pass("tmpfs", "tmpfs") /\ masks' = masks + 1
       ELSE Pass("tmpfs", "group") /\ UNCHANGED masks
  /\ UNCHANGED <<accounts, files>>

\* groupadd, groupmod or nothing.
ReconcileGroup ==
  /\ ~signalled /\ ~Conflict(groups)
  /\ Pass("group", "user")
  /\ groups' = IF ByID(groups) = NoEntry THEN Append(groups, HostGroup)
               ELSE Renamed(groups)
  /\ UNCHANGED <<users, files, masks>>

\* Mutant: an entry that bears the right name is taken to be complete.
ReconcileUserByName ==
  /\ ~signalled /\ ~Conflict(users)
  /\ ByID(groups) # NoEntry
  /\ IF ByID(users) = NoEntry
       THEN Pass("user", "mkdir") /\ users' = Append(users, HostEntry)
     ELSE IF ByName(users) = NoEntry
       THEN Pass("user", "update") /\ users' = Renamed(users)
       ELSE Pass("user", "mkdir") /\ UNCHANGED users
  /\ UNCHANGED <<groups, files, masks>>

\* useradd, which wants the group to exist; or the first usermod, unless the
\* entry has its name already.
ReconcileUser ==
  /\ ~signalled /\ ~Conflict(users)
  /\ IF ByID(users) = NoEntry
       THEN /\ ByID(groups) # NoEntry
            /\ Pass("user", "mkdir") /\ users' = Append(users, HostEntry)
       ELSE Pass("user", "update") /\ users' = Renamed(users)
  /\ UNCHANGED <<groups, files, masks>>

\* The second usermod sets the group and the home of the named entry.
UpdateUser ==
  /\ ~signalled /\ ByID(groups) # NoEntry
  /\ Pass("update", "mkdir")
  /\ users' = Updated(users)
  /\ UNCHANGED <<groups, files, masks>>

MakeHome ==
  /\ Pass("mkdir", "chown")
  /\ home' = IF home = "none" THEN "other" ELSE home
  /\ UNCHANGED <<accounts, bashrc, sudoers, masks>>

OwnHome ==
  /\ Pass("chown", "bashrc") /\ home' = "user"
  /\ UNCHANGED <<accounts, bashrc, sudoers, masks>>

\* Mutant: the image's file is written in any case.
SeedBashRCAgain ==
  /\ Pass("bashrc", "rename")
  /\ UNCHANGED <<accounts, files, masks>>

\* A ~/.bashrc is kept. Otherwise the image's is written beside it, with the
\* owner and mode it will have, and only then takes the name.
SeedBashRC ==
  /\ Pass("bashrc", IF bashrc = "none" THEN "rename" ELSE "sudoers")
  /\ UNCHANGED <<accounts, files, masks>>

InstallBashRC ==
  /\ Pass("rename", "sudoers") /\ bashrc' = "image"
  /\ UNCHANGED <<accounts, home, sudoers, masks>>

\* A temporary policy that visudo accepts takes the name of the last one.
InstallSudoers ==
  /\ ~signalled
  /\ Pass("sudoers", "channel") /\ sudoers' = TRUE
  /\ UNCHANGED <<accounts, home, bashrc, masks>>

\* The host-MCP channel, the last step before dockerd.
OpenChannel ==
  /\ step = "channel" /\ Bootstrap
  /\ UNCHANGED <<kept, run, trouble>>

\* A step fails. A conflict of accounts and a cancelled context fail every
\* time.
CutShort ==
  /\ BootstrapFails
  /\ Trouble(\/ signalled
             \/ step = "group" /\ Conflict(groups)
             \/ step = "user" /\ Conflict(users))
  /\ UNCHANGED <<kept, run>>

-----------------------------------------------------------------------------
(* dockerd and its runtime state in /run.                                  *)

\* Mutant: what the last dockerd left is not cleared.
StartUncleared ==
  /\ StartDockerd
  /\ UNCHANGED <<kept, run, trouble>>

\* clearStaleDaemonRuntime, then the start.
ClearAndStart ==
  /\ StartDockerd
  /\ stale' = stale \ {"dockerd"}
  /\ UNCHANGED <<accounts, files, served, run, trouble>>

StartAborted ==
  /\ Trouble(FALSE)
  /\ \/ StartDockerdFails /\ stale' \in {stale, stale \ {"dockerd"}}
     \/ CloseLogFails /\ stale' = stale \ {"dockerd"}
  /\ UNCHANGED <<accounts, files, served, run>>

\* dockerd answers once it has installed its own rules.
DockerAnswers ==
  /\ DockerReady
  /\ rules' = Append(rules, "docker")
  /\ UNCHANGED <<kept, step, masks, trouble>>

\* An exit in good order removes the socket and the pid file. dockerd may
\* refuse to start over those of another run.
DockerdEnds ==
  /\ \E s \in {"ok", "failed"} :
       /\ DockerdExits(s)
       /\ stale' = IF s = "failed" THEN stale \cup {"dockerd"} ELSE stale
  /\ Trouble(\/ asked \/ manager # "none"
             \/ sup = "awaitReady" /\ "dockerd" \in stale)
  /\ UNCHANGED <<accounts, files, served, run>>

-----------------------------------------------------------------------------
(* Access to the services of the session: a new network namespace has no   *)
(* rules, and the three go in one by one.                                  *)

\* The guard is inserted at the top of its chain, the two translations are
\* appended to theirs, behind what is there.
ServiceRules == <<"guard", "source", "destination">>

\* Mutant: when a command fails the three are installed once more.
InstallRuleRetried ==
  LET Then == [docker |-> "guard", guard |-> "source", source |-> "destination"]
      last == rules[Len(rules)]
  IN  /\ sup = "access" /\ ~signalled
      /\ \/ /\ rules' = Append(rules, Then[last]) /\ UNCHANGED trouble
            /\ IF last = "source" THEN ServiceAccess ELSE UNCHANGED vars
         \/ /\ rules' = Append(rules, "guard") /\ Trouble(FALSE)
            /\ UNCHANGED vars
      /\ UNCHANGED <<kept, step, masks>>

InstallRule ==
  /\ sup = "access" /\ ~signalled
  /\ rules' = Append(rules, ServiceRules[Len(rules)])
  /\ IF Len(rules) = Len(ServiceRules) THEN ServiceAccess ELSE UNCHANGED vars
  /\ UNCHANGED <<kept, step, masks, trouble>>

FailStartup ==
  /\ StartupFails
  /\ Trouble(signalled \/ daemon # "running")
  /\ UNCHANGED <<kept, run>>

-----------------------------------------------------------------------------
(* The manager's socket, and the end of a run.                             *)

\* ensureSocketPathAvailable: any socket in the way is refused.
Listen ==
  /\ "session" \notin stale /\ ManagerListens /\ served' = TRUE
  /\ UNCHANGED <<accounts, files, stale, run, trouble>>

ListenRefused ==
  /\ ManagerListenFails
  /\ Trouble("session" \in stale)
  /\ UNCHANGED <<kept, run>>

CloseSocket ==
  /\ ManagerReturns
  /\ stale' = IF managerErr = "nil" /\ managerErr' = "failed"
              THEN stale \cup {"session"} ELSE stale
  /\ UNCHANGED <<accounts, files, served, run, trouble>>

\* What the end of the container makes of a dockerd that still runs.
Abandoned == IF daemon = "running" THEN {"dockerd"} ELSE {}

Leave ==
  /\ Return /\ stale' = stale \cup Abandoned
  /\ UNCHANGED <<accounts, files, served, run, trouble>>

\* The container is killed, or its host goes down. A manager that was
\* stopping may or may not have removed its socket.
Kill ==
  /\ sup # "returned" /\ Trouble(FALSE)
  /\ sup' = "returned" /\ woken' = "none" /\ channel' = FALSE
  /\ daemon' = "none" /\ manager' = "none"
  /\ \E socket \in CASE manager = "serving"  -> {{"session"}}
                     [] manager = "stopping" -> {{"session"}, {}}
                     [] OTHER                -> {{}} :
       stale' = stale \cup Abandoned \cup socket
  /\ UNCHANGED <<failed, result, status, asked, killed, managerErr, cancelled,
                 signalled, history, accounts, files, served, run>>

\* docker start of the kept container.
Restart ==
  /\ sup = "returned"
  /\ sup' = "bootstrap" /\ woken' = "none" /\ failed' = FALSE /\ result' = "none"
  /\ channel' = FALSE
  /\ daemon' = "none" /\ status' = "none" /\ asked' = FALSE /\ killed' = FALSE
  /\ manager' = "none" /\ managerErr' = "nil"
  /\ cancelled' = FALSE /\ signalled' = FALSE
  /\ fault' = FALSE /\ lost' = FALSE /\ stuck' = FALSE
  /\ step' = "tmpfs" /\ masks' = 0 /\ rules' = <<>>
  /\ UNCHANGED <<kept, trouble>>

Signalled ==
  /\ SignalServe /\ Trouble(FALSE)
  /\ UNCHANGED <<kept, run>>

\* Commands of the session, which may become root: they edit or remove
\* ~/.bashrc, give the home another owner or mode or remove it, give their own
\* account another group and home, remove the sudo policy, or install a
\* package that brings an account.
EditBashRC ==
  /\ manager = "serving" /\ home # "none" /\ bashrc' \in {"user", "none"}
  /\ UNCHANGED <<vars, accounts, home, sudoers, stale, served, run, trouble>>

ChangeHome ==
  /\ manager = "serving" /\ home # "none"
  /\ \/ home' = "other" /\ UNCHANGED bashrc
     \/ home' = "none" /\ bashrc' = "none"
  /\ UNCHANGED <<vars, accounts, sudoers, stale, served, run, trouble>>

ChangeAccount ==
  LET Move(e) == Entry(e.name, e.id, 0, "elsewhere")
  IN  /\ manager = "serving" /\ users' = Changed(users, Host, Move)
      /\ UNCHANGED <<vars, groups, files, stale, served, run, trouble>>

DropSudoers ==
  /\ manager = "serving" /\ sudoers' = FALSE
  /\ UNCHANGED <<vars, accounts, home, bashrc, stale, served, run, trouble>>

AddAccount ==
  LET service == Entry("service", 101, 101, "service")
  IN  /\ manager = "serving"
      /\ \A i \in DOMAIN users : users[i].name # service.name
      /\ users' = Append(users, service)
      /\ UNCHANGED <<vars, groups, files, stale, served, run, trouble>>

Command ==
  EditBashRC \/ ChangeHome \/ ChangeAccount \/ DropSudoers \/ AddAccount

-----------------------------------------------------------------------------

\* The other steps of Serve touch nothing that is kept.
Rest ==
  \/ WaitAborted \/ OwnSocket \/ CreateManager \/ EnterSelect \/ ManagerEnded
  \/ DockerdEnded \/ ContextDone \/ ManagerDrained \/ StopReaped \/ SignalTerm
  \/ SignalRefused \/ ShutdownTimesOut \/ ReapKilled
OtherServeStep == Rest /\ UNCHANGED <<kept, run, trouble>>
OtherManagerStep ==
  (ManagerIdle \/ ManagerFails) /\ UNCHANGED <<kept, run, trouble>>
Cancelled == ManagerCancelled /\ UNCHANGED <<kept, run, trouble>>
Reaped == DockerdReaped /\ UNCHANGED <<kept, run, trouble>>

BootstrapStep ==
  \/ MountTmpfs \/ ReconcileGroup \/ ReconcileUser \/ UpdateUser \/ MakeHome
  \/ OwnHome \/ SeedBashRC \/ InstallBashRC \/ InstallSudoers \/ OpenChannel
  \/ CutShort

ServeGoesOn ==
  \/ BootstrapStep \/ ClearAndStart \/ StartAborted \/ DockerAnswers
  \/ InstallRule \/ FailStartup \/ Leave \/ OtherServeStep

LifeNext ==
  \/ ServeGoesOn \/ Listen \/ ListenRefused \/ CloseSocket \/ Cancelled
  \/ OtherManagerStep \/ DockerdEnds \/ Reaped \/ Kill \/ Restart \/ Signalled
  \/ Command

LifeSpec == LifeInit /\ [][LifeNext]_lifeVars

\* The fairness of module Supervisor, and a user who starts the container
\* again whenever it has stopped.
LifeFairness ==
  /\ WF_lifeVars(ServeGoesOn) /\ WF_lifeVars(Reaped)
  /\ WF_lifeVars(Listen \/ ListenRefused)
  /\ WF_lifeVars(Cancelled) /\ WF_lifeVars(CloseSocket)
  /\ WF_lifeVars(killed /\ DockerdEnds)
  /\ WF_lifeVars(Restart)

FairLifeSpec == LifeSpec /\ LifeFairness

-----------------------------------------------------------------------------
(* Properties.                                                             *)

\* However many runs were cut off, wherever, and whatever the commands of
\* earlier runs have changed: when the manager is started, the host's id and
\* name mean one account with its group and home, and the home and its files
\* are in place. Then and while the session serves, every mask is effective,
\* the translation of addresses is guarded and comes behind Docker's published
\* ports, and no dockerd runs over the socket or the pid file of an earlier one
\* (supervisor.go:86-129).
ServingIsComplete ==
  /\ manager = "starting" =>
       /\ ByID(users) = HostEntry /\ ByName(users) = HostEntry
       /\ ByID(groups).name = Host /\ ByName(groups).id = HostID
       /\ home = "user" /\ bashrc # "none" /\ sudoers
  /\ manager \in {"starting", "serving"} =>
       /\ masks = Tmpfs
       /\ rules = <<"docker", "guard", "source", "destination">>
       /\ daemon = "running" => "dockerd" \notin stale

\* Other accounts, and what is as bootstrap wants it, stay as they are; nobody
\* loses a ~/.bashrc of his own or his home.
Spared ==
  /\ UNCHANGED groups /\ DOMAIN users' = DOMAIN users
  /\ \A i \in DOMAIN users :
       users[i].name # Host \/ users[i] = HostEntry => users'[i] = users[i]
  /\ bashrc # "none" => UNCHANGED bashrc
  /\ home = "user" => UNCHANGED home
  /\ home = "other" => home' # "none"
  /\ sudoers => UNCHANGED sudoers

\* Once a container has served, its runs cut off or not, bootstrap is a repair:
\* it puts back a missing ~/.bashrc, the home's owner and mode, the group and
\* home of the host's own account and the sudo policy, and leaves everything
\* else that the container keeps for its user as its commands have made it
\* (user_filesystem.go:109-111, docs/design-docs/go-session-manager.md:389).
RestartOnlyRepairs ==
  [][served /\ manager # "serving" => Spared]_lifeVars

\* No cut-off wedges a kept container: unless its image came with accounts
\* that conflict, it serves again and again as long as it is started again.
\* The exceptions are the socket that a killed manager left, and a dockerd that
\* cannot be signalled while Serve waits for it without a bound.
BootstrapConverges ==
  \/ []<>(manager = "serving")
  \/ <>[]("session" \in stale)
  \/ <>[]stuck
  \/ [](Conflict(groups) \/ Conflict(users))
=============================================================================
