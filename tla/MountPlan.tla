------------------------------ MODULE MountPlan ------------------------------
(***************************************************************************)
(* The filesystem contract of a new container: from the directory a launch *)
(* starts in and the mounts its configuration asks for to the bind mounts, *)
(* dependency caches and tmpfs masks that Docker is given                  *)
(* (internal/launcher/launchplan).  Each step either refuses the launch or *)
(* hands its result to the next one.                                       *)
(*                                                                         *)
(* Paths in the container are paths like those of the host.  Of a bind     *)
(* mount only the role, source, target and access mode are kept; a nested  *)
(* Docker storage volume is named by what its name is derived from.        *)
(***************************************************************************)
EXTENDS LaunchInputs, TLC, FiniteSetsExt

CONSTANTS
  Worlds,             \* hosts to start from: [disk, git, env, start]
  Edits(_, _)         \* configurations that a user makes of the generated one

\* The name the launcher adds to a path, and the role it gives its own mounts.
ASSUME LiteralsAssumption == {"worktrees", ""} \subseteq STRING

\* Disks are as HostPaths describes them, and Git reports paths.
ASSUME WorldsAssumption ==
  \A w \in Worlds :
    /\ SoundDisk(w.disk)
    /\ \A d \in DOMAIN w.git :
         {w.git[d].top, w.git[d].dir, w.git[d].common} \subseteq Path

LogicalMount == [role : STRING, source : Path, target : Path,
                 readOnly : BOOLEAN]

\* Whatever a user makes of a generated configuration, it decodes as one.
ASSUME EditsAssumption ==
  \A w \in Worlds :
    \A p \in Discover(w.disk, w.git, w.start),
       h \in HostEnvironment(w.disk, w.env) :
      \A generated \in DefaultProjectConfig(p, h) :
        \A edited \in Edits(w, generated) :
          /\ edited.mounts \in Seq(LogicalMount)
          /\ edited.caches \in Seq([kind : STRING, source : Path])

VARIABLES
  world,      \* the host, which a launch only reads
  stage,      \* the next step, or "done" or "refused"
  plan        \* what each step has found, by its name: {} before that

vars == <<world, stage, plan>>

Following ==
  [project |-> "host", host |-> "defaults", defaults |-> "config",
   config |-> "registry", registry |-> "logical", logical |-> "retained",
   retained |-> "caches", caches |-> "masks", masks |-> "storage",
   storage |-> "done"]

disk     == world.disk
project  == plan["project"]     \* the Git worktree
host     == plan["host"]        \* the host paths worth sharing
defaults == plan["defaults"]    \* the generated configuration
config   == plan["config"]      \* the effective one
registry == plan["registry"]    \* where Git keeps its linked worktrees
logical  == plan["logical"]     \* the mounts wanted
retained == plan["retained"]    \* the mounts kept, with the roles they satisfy
caches   == plan["caches"]
masks    == plan["masks"]

\* The members of a list that belong to a set, in the order of the list.
Among(list, wanted) ==
  LET first[n \in 0..Len(list)] ==
        IF n = 0 THEN <<>>
        ELSE IF list[n] \in wanted THEN Append(first[n - 1], list[n])
        ELSE first[n - 1]
  IN  first[Len(list)]

-----------------------------------------------------------------------------
(* The roles of the configuration                                          *)

RequiredRoles == {"primary_checkout", "common_git_dir", "worktree"}

MountsOf(settings, role) ==
  {settings.mounts[i] : i \in {j \in DOMAIN settings.mounts :
                                 settings.mounts[j].role = role}}

RepeatsNoRole(settings) ==
  \A i, j \in DOMAIN settings.mounts :
    /\ settings.mounts[i].role = settings.mounts[j].role
    /\ settings.mounts[i].role \in ManagedRoles
    => i = j

\* Required roles are there, and a managed role is the host's own default.
RolesMatchDefaults ==
  \A role \in ManagedRoles :
    /\ role \in RequiredRoles => MountsOf(defaults, role) # {}
                                 /\ MountsOf(config, role) # {}
    /\ MountsOf(config, role) \subseteq MountsOf(defaults, role)

RolesMatchProject ==
  LET wanted(role, path, readOnly) ==
        MountsOf(config, role) = {MountOf(role, path, path, readOnly)[1]}
  IN  /\ wanted("worktree", project.WorktreeRoot, FALSE)
      /\ wanted("primary_checkout", project.PrimaryRoot, project.Linked)
      /\ wanted("common_git_dir", project.CommonGitDir, FALSE)

RegistryOf(common) == Append(common, "worktrees")

\* A linked worktree's own directory is a real child of the registry.
SupportedTopology ==
  /\ Mountable(RegistryOf(project.CommonGitDir))
  /\ project.Linked =>
       /\ Mountable(project.GitDir)
       /\ EvalSymlinks(disk, project.GitDir) = project.GitDir
       /\ Front(project.GitDir) = RegistryOf(project.CommonGitDir)

RolesAreSound ==
  /\ Mountable(project.RequestedDir) /\ Mountable(project.WorktreeRoot)
  /\ Covers(project.WorktreeRoot, project.RequestedDir)
  /\ ValidConfig(defaults) /\ ValidConfig(config)
  /\ RepeatsNoRole(defaults) /\ RepeatsNoRole(config)
  /\ RolesMatchDefaults
  /\ RolesMatchProject
  /\ SupportedTopology

-----------------------------------------------------------------------------
(* The logical mounts                                                      *)

SourceExists(mount) ==
  /\ Mountable(mount.source) /\ mount.source # Root /\ Mountable(mount.target)
  /\ IF mount.role \in {"host_git_config", "claude_config"}
     THEN IsFile(disk, mount.source)
     ELSE IsDir(disk, mount.source)

\* Mutant: sources are compared as they are spelled.
LeavesRegistryAloneAsSpelled(mount) ==
  mount.role \in RequiredRoles
  \/ /\ ~Overlap(mount.source, registry)
     /\ ~Overlap(mount.target, registry)

\* Only the three roles that Git's layout pins may touch the registry.
LeavesRegistryAlone(mount) ==
  mount.role \in RequiredRoles
  \/ /\ ~Overlap(EvalSymlinks(disk, mount.source), registry)
     /\ ~Overlap(mount.target, registry)

Configured ==
  Among(config.mounts,
        {m \in Range(config.mounts) : m.role # "host_mcp_channel"})

\* The mounts the launcher adds by itself carry no role.
LogicalMounts ==
  Configured
  \o MountOf("", registry, registry, TRUE)
  \o (IF project.Linked THEN MountOf("", project.GitDir, project.GitDir, FALSE)
      ELSE <<>>)

MountsAreSound ==
  \A i \in DOMAIN Configured :
    SourceExists(Configured[i]) /\ LeavesRegistryAlone(Configured[i])

-----------------------------------------------------------------------------
(* normalizeLogicalMounts                                                  *)

Bind(mount) == [source |-> mount.source, target |-> mount.target,
                readOnly |-> mount.readOnly]

\* Mounts that agree on everything become one, with the roles of all.
Merged ==
  LET repeats(i) == \E j \in 1..i - 1 : Bind(logical[j]) = Bind(logical[i])
      firsts == Among([i \in DOMAIN logical |-> i],
                      {i \in DOMAIN logical : ~repeats(i)})
      roles(mount) == {m.role : m \in {l \in Range(logical) :
                                         Bind(l) = mount}} \ {""}
  IN  [i \in DOMAIN firsts |-> [mount |-> Bind(logical[firsts[i]]),
                                roles |-> roles(Bind(logical[firsts[i]]))]]

TargetsConflict ==
  \E i, j \in DOMAIN logical :
    /\ logical[i].target = logical[j].target
    /\ Bind(logical[i]) # Bind(logical[j])

\* The child is reached at the same place through its parent.
MountContains(parent, child) ==
  /\ Covers(parent.source, child.source)
  /\ Covers(parent.target, child.target)
  /\ Below(parent.source, child.source) = Below(parent.target, child.target)

ParentsOf(entries, c) ==
  {p \in DOMAIN entries \ {c} :
     MountContains(entries[p].mount, entries[c].mount)}

\* Passes over the list place every entry that no unplaced one contains: the
\* next is behind the last in its pass, or else the first of another pass.
NextPlaced(entries, placed) ==
  LET ready == {c \in DOMAIN entries \ Range(placed) :
                  ParentsOf(entries, c) \subseteq Range(placed)}
      later == {c \in ready : placed # <<>> /\ c > Last(placed)}
  IN  Min(IF later # {} THEN later ELSE ready)

Placed(entries) ==
  LET first[n \in 0..Len(entries)] ==
        IF n = 0 THEN <<>>
        ELSE LET placed == first[n - 1]
             IN  Append(placed, NextPlaced(entries, placed))
  IN  first[Len(entries)]

ParentsFirst(entries) ==
  LET order == Placed(entries) IN [i \in DOMAIN entries |-> entries[order[i]]]

\* The retained mounts around a candidate are nested in each other: the last
\* is the nearest, and the only one that may absorb it.
Around(kept, entry) ==
  {i \in DOMAIN kept : MountContains(kept[i].mount, entry.mount)}

Clashes(kept, entry) ==
  \E i \in DOMAIN kept \ Around(kept, entry) :
    \/ Overlap(kept[i].mount.source, entry.mount.source)
    \/ Overlap(kept[i].mount.target, entry.mount.target)

\* Mutant: any ancestor with the same access absorbs.
RetainNearAny(kept, entry) ==
  LET alike == {i \in Around(kept, entry) :
                  kept[i].mount.readOnly = entry.mount.readOnly}
  IN  IF alike # {}
      THEN [kept EXCEPT ![Max(alike)].roles = @ \cup entry.roles]
      ELSE Append(kept, entry)

\* Mutant: an absorbed mount takes its roles with it.
RetainForgetful(kept, entry) ==
  LET around == Around(kept, entry)
  IN  IF around # {}
         /\ kept[Max(around)].mount.readOnly = entry.mount.readOnly
      THEN kept ELSE Append(kept, entry)

Retain(kept, entry) ==
  LET around  == Around(kept, entry)
      nearest == Max(around)
  IN  IF around # {} /\ kept[nearest].mount.readOnly = entry.mount.readOnly
      THEN [kept EXCEPT ![nearest].roles = @ \cup entry.roles]
      ELSE Append(kept, entry)

\* The list retained of the first n entries: none once two have clashed.
RetainEach(entries) ==
  LET first[n \in 0..Len(entries)] ==
        IF n = 0 THEN {<<>>}
        ELSE {Retain(kept, entries[n]) :
                kept \in {k \in first[n - 1] : ~Clashes(k, entries[n])}}
  IN  first[Len(entries)]

Normalized ==
  IF TargetsConflict THEN {} ELSE RetainEach(ParentsFirst(Merged))

-----------------------------------------------------------------------------
(* Dependency caches                                                       *)

Physical(cache) == EvalSymlinks(disk, cache.source)

CacheIsSafe(cache) ==
  /\ ~Covers(cache.source, host.HomeDir)
  /\ Physical(cache) \in disk.dirs \ disk.locked
  /\ ~Covers(Physical(cache), host.HomeDir)
  /\ ~Overlap(cache.source, registry) /\ ~Overlap(Physical(cache), registry)
  /\ \A i \in DOMAIN logical : logical[i].role # "" =>
       /\ ~Overlap(cache.source, logical[i].target)
       /\ ~Overlap(Physical(cache),
                   EvalSymlinks(disk, logical[i].source))

CachesAreSafe ==
  \A i, j \in DOMAIN config.caches :
    /\ CacheIsSafe(config.caches[i])
    /\ i # j => /\ ~Overlap(config.caches[i].source, config.caches[j].source)
                /\ ~Overlap(Physical(config.caches[i]),
                            Physical(config.caches[j]))

ResolvedCaches ==
  LET cacheOf(kind) == CHOOSE c \in Range(config.caches) : c.kind = kind
      kinds == Among(CacheKindOrder, {c.kind : c \in Range(config.caches)})
      resolved(cache) == [kind |-> cache.kind, source |-> Physical(cache),
                          target |-> cache.source]
  IN  [i \in DOMAIN kinds |-> resolved(cacheOf(kinds[i]))]

-----------------------------------------------------------------------------
(* Tmpfs masks                                                             *)

\* Any of the eleven root files by which a Python project is recognised.
PythonMarkers == {"pyproject.toml", "setup.py"}

VenvMarker(dir) == Append(dir, "pyvenv.cfg")

ProjectVenv == Append(project.WorktreeRoot, ".venv")

IsPythonProject ==
  \E name \in PythonMarkers :
    Append(project.WorktreeRoot, name) \in disk.files

\* The conventional environment of a Python project, made when it is missing.
ReservationIsSafe ==
  IsPythonProject /\ Listed(disk, ProjectVenv) =>
    ProjectVenv \in disk.dirs

Reserved ==
  WhenHolds(IsPythonProject,
            [target |-> ProjectVenv, owned |-> TRUE,
             create |-> ~Listed(disk, ProjectVenv)])

\* The walk does not enter Git directories or environments it has found.
Visited ==
  {dir \in disk.dirs :
     /\ Covers(project.WorktreeRoot, dir)
     /\ \A n \in Len(project.WorktreeRoot) + 1 .. Len(dir) :
          /\ dir[n] # ".git"
          /\ n < Len(dir) =>
               VenvMarker(SubSeq(dir, 1, n)) \notin disk.files}

Environments == {dir \in Visited : VenvMarker(dir) \in disk.files}

EnvironmentsAreSafe ==
  /\ project.WorktreeRoot \notin Environments
  /\ \A dir \in Visited : Listed(disk, VenvMarker(dir)) =>
                            VenvMarker(dir) \in disk.files

\* A configured target that is also an environment becomes the user's own.
Masks ==
  LET wanted  == Range(config.tmpfs)
      targets == {m.target : m \in Reserved} \cup Environments
      create(t) == [target |-> t, owned |-> TRUE, create |-> TRUE] \in Reserved
  IN  {[target |-> t, owned |-> t \in targets, create |-> create(t)] :
         t \in wanted \cup targets}

MasksAreSafe ==
  /\ \A i \in DOMAIN config.tmpfs :
       /\ Covers(project.WorktreeRoot, config.tmpfs[i])
       /\ config.tmpfs[i] # project.WorktreeRoot
  /\ ~config.hostVenv =>
       /\ ReservationIsSafe /\ EnvironmentsAreSafe
       /\ \A m, n \in Masks : /\ ~Overlap(m.target, registry)
                              /\ Colon \notin Range(m.target)
                              /\ m # n => ~Overlap(m.target, n.target)

-----------------------------------------------------------------------------
(* Nested Docker storage: the identity its volume name is derived from     *)

DockerStorage ==
  CASE config.storage = "shared" -> {<<>>}
    [] config.storage = "project" -> {<<project.PrimaryRoot>>}
    [] OTHER -> WhenHolds(project.Branch # "",
                          <<project.PrimaryRoot, project.Branch>>)

-----------------------------------------------------------------------------
Init ==
  /\ world \in Worlds
  /\ stage = "project"
  /\ plan = [step \in DOMAIN Following |-> {}]

\* A step takes what its lookup returns and refuses when that is nothing.
Take(step, results) ==
  /\ stage = step
  /\ IF results = {} THEN stage' = "refused" /\ plan' = plan
     ELSE \E result \in results :
            stage' = Following[step] /\ plan' = [plan EXCEPT ![step] = result]
  /\ UNCHANGED world

DiscoverProject == Take("project", Discover(disk, world.git, world.start))

ReadHost == Take("host", HostEnvironment(disk, world.env))

Generate == Take("defaults", DefaultProjectConfig(project, host))

Configure == Take("config", Edits(world, defaults))

CheckRoles ==
  Take("registry",
       WhenHolds(RolesAreSound, RegistryOf(project.CommonGitDir)))

CollectMounts == Take("logical", WhenHolds(MountsAreSound, LogicalMounts))

NormalizeLogicalMounts == Take("retained", Normalized)

ResolveDependencyCaches ==
  Take("caches", WhenHolds(CachesAreSafe, ResolvedCaches))

ResolveTmpfsMounts ==
  Take("masks",
       WhenHolds(MasksAreSafe, IF config.hostVenv THEN {} ELSE Masks))

ResolveDockerStorage == Take("storage", DockerStorage)

Next ==
  \/ DiscoverProject \/ ReadHost \/ Generate \/ Configure
  \/ CheckRoles \/ CollectMounts \/ NormalizeLogicalMounts
  \/ ResolveDependencyCaches \/ ResolveTmpfsMounts \/ ResolveDockerStorage

Spec == Init /\ [][Next]_vars

-----------------------------------------------------------------------------
(* Properties of a finished plan                                           *)

\* The bind mounts Docker is given, in order; those asked for, in any order.
Given ==
  [i \in DOMAIN retained |-> retained[i].mount]
  \o [i \in DOMAIN caches |-> [source |-> caches[i].source,
                               target |-> caches[i].target,
                               readOnly |-> FALSE]]

Asked ==
  {Bind(m) : m \in Range(logical)}
  \cup {[source |-> Physical(c), target |-> c.source, readOnly |-> FALSE] :
          c \in Range(config.caches)}

\* The last mount over a place is the one seen there.
Seen(place) ==
  {Given[i] : i \in {j \in DOMAIN Given :
     /\ Covers(Given[j].target, place)
     /\ \A k \in DOMAIN Given : Covers(Given[k].target, place) => k <= j}}

Nearest(place) ==
  {m \in Asked :
     /\ Covers(m.target, place)
     /\ \A n \in Asked : Covers(n.target, place) => Covers(n.target, m.target)}

\* Docker mounts the directory that a source leads to.
View(mounts, place) ==
  {[path |-> EvalSymlinks(disk, m.source) \o Below(m.target, place),
    readOnly |-> m.readOnly] : m \in mounts}

\* A link within the tree of an outer mount leads the source of an inner one
\* elsewhere.
LinkBetween(outer, inner) ==
  LinksOnTheWay(disk, inner.source) # LinksOnTheWay(disk, outer.source)

\* The paths of the host, and where its directories are mounted.
Places ==
  LET beneath(m) == {d \in disk.dirs : Covers(EvalSymlinks(disk, m.source), d)}
  IN  disk.dirs \cup disk.files \cup {m.target : m \in Asked}
      \cup UNION {{m.target \o Below(EvalSymlinks(disk, m.source), d) :
                     d \in beneath(m)} : m \in Asked}

\* A place has the access that was asked for it, and shows the host path that
\* was, unless the mount asked for has a link between its source and that of the
\* mount it was absorbed into.
AsAsked(place) ==
  LET modes(mounts) == {m.readOnly : m \in mounts}
  IN  /\ modes(Seen(place)) = modes(Nearest(place))
      /\ \/ \E m \in Seen(place), n \in Nearest(place) : LinkBetween(m, n)
         \/ View(Seen(place), place) = View(Nearest(place), place)

\* However mounts were merged, ordered and absorbed, every place in the
\* container shows the host path, with the access, of the mount asked for
\* nearest to it, and nothing where none was asked for. Links on the way to an
\* absorbed mount are the exception of the path, not of the access.
AccessIsAsAsked == stage = "done" => \A place \in Places : AsAsked(place)

\* What a linked worktree has in the registry: its own directory, and its
\* files where a user has added it at a path in there.
OwnInRegistry ==
  IF project.Linked
  THEN {project.GitDir}
       \cup {root \in {project.WorktreeRoot} : Covers(registry, root)}
  ELSE {}

\* No writable mount reaches Git's worktree registry, under whatever name,
\* except what the linked worktree itself has in it.
RegistryIsProtected ==
  stage = "done" =>
    \A place \in Places : \A m \in Seen(place) :
      LET reached == EvalSymlinks(disk, m.source) \o Below(m.target, place)
      IN  Covers(registry, reached) /\ ~m.readOnly =>
            \E own \in OwnInRegistry : Covers(own, reached)

-----------------------------------------------------------------------------
(* What later steps take from the plan by the name of a role               *)

FilesystemRoles == ManagedRoles \ {"host_mcp_channel"}

MountForRole(role) ==
  {entry.mount : entry \in {e \in Range(retained) : role \in e.roles}}

TargetForRole(role) ==
  IF MountForRole(role) = {} THEN NoPath
  ELSE (CHOOSE m \in MountForRole(role) : TRUE).target

\* An explicit Claude directory has no global configuration beside it.
CommandEnvironment ==
  [HOME |-> host.HomeDir,
   CODEX_HOME |-> TargetForRole("codex_home"),
   CLAUDE_CONFIG_DIR |-> IF MountForRole("claude_config") # {} THEN NoPath
                         ELSE TargetForRole("claude_home"),
   caches |-> {<<caches[i].kind, caches[i].target>> : i \in DOMAIN caches}]

\* Every role that is configured is satisfied by one retained mount, which
\* shows the source of the role at its target with the access it asked for.
RolesAreServed ==
  stage = "done" =>
    \A role \in FilesystemRoles : \A wanted \in MountsOf(config, role) :
      \E m \in MountForRole(role) :
        /\ MountForRole(role) = {m}
        /\ MountContains(m, Bind(wanted)) /\ m.readOnly = wanted.readOnly

\* The command finds Codex's state at one place whatever else is mounted:
\* CODEX_HOME is .codex in the home directory, where the role is mounted.
CodexHomeIsFixed ==
  stage = "done" /\ MountsOf(config, "codex_home") # {} =>
    CommandEnvironment.CODEX_HOME = Append(host.HomeDir, ".codex")

=============================================================================
