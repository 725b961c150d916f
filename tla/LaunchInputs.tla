---------------------------- MODULE LaunchInputs ----------------------------
(***************************************************************************)
(* What a launch learns from the host before it plans any mount: the Git   *)
(* worktree it was started in (internal/gitproject), the host paths worth  *)
(* sharing with the container (host_environment.go) and the configuration  *)
(* generated from the two (project_config.go).                             *)
(*                                                                         *)
(* A lookup that the code may refuse with an error is the set of the       *)
(* values it can return: empty when it refuses, else the one value.        *)
(***************************************************************************)
EXTENDS HostPaths

WhenHolds(condition, value) == IF condition THEN {value} ELSE {}

-----------------------------------------------------------------------------
(* gitproject.Discover.  git[d] is what Git reports for the directory d;   *)
(* the directories it knows nothing about are outside of any working tree. *)

GitPath(disk, git, dir, selector) == EvalSymlinks(disk, git[dir][selector])

ValidPrimary(disk, git, common) ==
  LET primary == Front(common)
  IN  /\ common # Root /\ Last(common) = ".git"
      /\ IsDir(disk, primary)
      /\ primary \in DOMAIN git
      /\ GitPath(disk, git, primary, "top") = primary
      /\ GitPath(disk, git, primary, "common") = common

Discover(disk, git, path) ==
  LET requested == EvalSymlinks(disk, path)
      reported(selector) == GitPath(disk, git, requested, selector)
      linked  == reported("dir") # reported("common")
      primary == Front(reported("common"))
  IN  WhenHolds(
        /\ IsDir(disk, requested)
        /\ requested \in DOMAIN git
        /\ IF linked THEN ValidPrimary(disk, git, reported("common"))
           ELSE reported("common") = Append(reported("top"), ".git"),
        [RequestedDir |-> requested, WorktreeRoot |-> reported("top"),
         GitDir |-> reported("dir"), CommonGitDir |-> reported("common"),
         PrimaryRoot |-> IF linked THEN primary ELSE reported("top"),
         Linked |-> linked, Branch |-> git[requested].branch])

-----------------------------------------------------------------------------
(* resolveHostEnvironment                                                  *)

\* An absent path is not an error; a broken link, the root, the wrong kind
\* of file and a path Docker cannot mount are.
CanonicalOptional(disk, path, OfKind(_, _)) ==
  LET canonical == EvalSymlinks(disk, path)
  IN  IF ~Listed(disk, path) THEN {NoPath}
      ELSE WhenHolds(/\ canonical # Root
                     /\ OfKind(disk, path)
                     /\ Mountable(canonical),
                     canonical)

OptionalDirectory(disk, path) == CanonicalOptional(disk, path, IsDir)

OptionalFile(disk, path) == CanonicalOptional(disk, path, IsFile)

\* A path the caller named in the environment has to be there.
RequestedDirectory(disk, path) == OptionalDirectory(disk, path) \ {NoPath}

\* Either the one directory of CLAUDE_CONFIG_DIR or both default paths: half
\* of the default state is treated as none.
ClaudeState(disk, home, variable) ==
  IF variable # NoPath
  THEN {[dir |-> d, file |-> NoPath] : d \in RequestedDirectory(disk, variable)}
  ELSE {IF NoPath \in {d, f} THEN [dir |-> NoPath, file |-> NoPath]
        ELSE [dir |-> d, file |-> f] :
          d \in OptionalDirectory(disk, Append(home, ".claude")),
          f \in OptionalFile(disk, Append(home, ".claude.json"))}

CodexHome(disk, home, variable) ==
  IF variable # NoPath THEN RequestedDirectory(disk, variable)
  ELSE OptionalDirectory(disk, Append(home, ".codex"))

PersonalSkills(disk, home) ==
  OptionalDirectory(disk, home \o <<".agents", "skills">>)

\* Unlike the others, the Git configuration is read through os.Stat: a link
\* that leads nowhere counts as absent.
HostGitConfig(disk, home) ==
  LET path == Append(home, ".gitconfig")
  IN  IF ~Exists(disk, path) THEN {NoPath}
      ELSE WhenHolds(IsFile(disk, path), EvalSymlinks(disk, path))

HostHome(disk, path) ==
  LET home == EvalSymlinks(disk, path)
  IN  WhenHolds(home # Root /\ IsDir(disk, home) /\ Mountable(home), home)

HostEnvironment(disk, env) ==
  UNION {
    {[HomeDir |-> home, GitConfig |-> config, CodexHome |-> codex,
      ClaudeConfigDir |-> claude.dir, ClaudeConfigFile |-> claude.file,
      PersonalSkills |-> skills] :
        config \in HostGitConfig(disk, home),
        codex  \in CodexHome(disk, home, env.CODEX_HOME),
        claude \in ClaudeState(disk, home, env.CLAUDE_CONFIG_DIR),
        skills \in PersonalSkills(disk, home)} :
    home \in HostHome(disk, env.HOME)}

-----------------------------------------------------------------------------
(* DefaultProjectConfig and projectenv.Validate                            *)

ChannelMount == [role |-> "host_mcp_channel", source |-> <<"@channel">>,
                 target |-> <<"run", "host-mcp">>, readOnly |-> FALSE]

MountOf(role, source, target, readOnly) ==
  IF source = NoPath THEN <<>>
  ELSE <<[role |-> role, source |-> source, target |-> target,
          readOnly |-> readOnly]>>

DefaultMounts(project, host) ==
  LET home(name) == Append(host.HomeDir, name)
      same(role, path, readOnly) == MountOf(role, path, path, readOnly)
  IN  MountOf("host_git_config", host.GitConfig, home(".gitconfig"), TRUE)
      \o same("primary_checkout", project.PrimaryRoot, project.Linked)
      \o same("common_git_dir", project.CommonGitDir, FALSE)
      \o same("worktree", project.WorktreeRoot, FALSE)
      \o MountOf("codex_home", host.CodexHome, home(".codex"), FALSE)
      \o MountOf("claude_home", host.ClaudeConfigDir, home(".claude"), FALSE)
      \o MountOf("claude_config", host.ClaudeConfigFile,
                 home(".claude.json"), FALSE)
      \o MountOf("personal_skills", host.PersonalSkills,
                 host.HomeDir \o <<".agents", "skills">>, TRUE)
      \o <<ChannelMount>>

CacheKindOrder == <<"go_build", "go_modules", "uv">>

Distinct(list, Key(_)) ==
  \A i, j \in DOMAIN list : Key(list[i]) = Key(list[j]) => i = j

ManagedRoles == {"host_git_config", "primary_checkout", "common_git_dir",
                 "worktree", "codex_home", "claude_home", "claude_config",
                 "personal_skills", "host_mcp_channel"}

ValidMount(mount) ==
  /\ mount.role \in ManagedRoles \cup {"additional"}
  /\ IF mount.role = "host_mcp_channel" THEN mount = ChannelMount
     ELSE /\ Mountable(mount.source) /\ mount.source # Root
          /\ Mountable(mount.target)

\* A tmpfs mount is its target and a dependency cache its kind and source.
ValidConfig(config) ==
  LET target(tmpfs) == tmpfs
      kind(cache)   == cache.kind
  IN  /\ \A i \in DOMAIN config.mounts : ValidMount(config.mounts[i])
      /\ \A i \in DOMAIN config.tmpfs : Mountable(config.tmpfs[i])
      /\ Distinct(config.tmpfs, target)
      /\ \A i \in DOMAIN config.caches :
           /\ config.caches[i].kind \in Range(CacheKindOrder)
           /\ config.caches[i].source # Root
           /\ Mountable(config.caches[i].source)
      /\ Distinct(config.caches, kind)
      /\ config.storage \in {"branch", "project", "shared"}

DefaultProjectConfig(project, host) ==
  LET config == [mounts |-> DefaultMounts(project, host), tmpfs |-> <<>>,
                 caches |-> <<>>, hostVenv |-> FALSE, storage |-> "branch"]
  IN  WhenHolds(ValidConfig(config), config)

=============================================================================
