----------------------------- MODULE MCPlanning -----------------------------
\* Three parts of a launch's preparation that share no state, explored side by
\* side: the mount plan, the set of host MCP endpoints and the project's files.
\*
\* A home /h with a project /h/p, alone, with a linked worktree beside it
\* (/h/w) or with one inside it (/h/p/w), and what a user may configure.
EXTENDS MountPlan, EndpointSet, MCProjectFiles

P == <<"h", "p">>
Git == Append(P, ".git")
Registry == Append(Git, "worktrees")
Entry == Append(Registry, "w")
Beside == <<"h", "w">>
Within == Registry \o <<"x", "y">>
Inside == Append(P, "w")

Home == {Root, <<"h">>, <<"h", ".codex">>, <<"h", ".claude">>,
         <<"h", ".agents">>, <<"h", ".agents", "skills">>, <<"h", "go">>,
         <<"h", "uv">>, <<"q">>, <<"q", "d">>, <<"q", "d", "e">>}
Checkout == {P, Git, P \o <<"d">>, P \o <<"d", "e">>}

\* /h/p/d/x leads to /q/d, and /h/l to the registry's parent.
Links == (P \o <<"d", "x">> :> <<"q", "d">>) @@ (<<"h", "l">> :> Git)

Files == {<<"h", ".claude.json">>, <<"h", ".gitconfig">>}

Disk(dirs, regular, links) ==
  [dirs |-> Home \cup Checkout \cup dirs, files |-> Files \cup regular,
   links |-> Links @@ links, locked |-> {<<"h", "uv">>}]

Plain == [top |-> P, dir |-> Git, common |-> Git, branch |-> "main"]
LinkedAt(top) == [top |-> top, dir |-> Entry, common |-> Git, branch |-> "dev"]

Env == [HOME |-> <<"h">>, CODEX_HOME |-> NoPath, CLAUDE_CONFIG_DIR |-> NoPath]

World(d, git, env, start) ==
  [disk |-> d, git |-> git, env |-> env, start |-> start]

Alone == World(Disk({}, {}, <<>>), P :> Plain @@ P \o <<"d">> :> Plain, Env,
               P \o <<"d">>)
WorktreeAt(top) ==
  World(Disk({top, Registry, Entry}, {}, <<>>),
        P :> Plain @@ top :> LinkedAt(top), Env, top)

\* A project outside of the home directory.
Apart ==
  LET root == <<"q", "p">>
      git  == [top |-> root, dir |-> Append(root, ".git"),
               common |-> Append(root, ".git"), branch |-> "main"]
  IN  World(Disk({root, Append(root, ".git")}, {}, <<>>), root :> git, Env,
            root)

\* Python projects and environments, at the root, below it and by a link.
Python(markers, links) ==
  World(Disk({P \o <<"d", ".venv">>}, markers \cup {Append(P, "setup.py")},
             links),
        P :> Plain, Env, P)

\* Layouts the discovery does not support or the host cannot share.
Odd ==
  LET found(git, d, start) == World(d, git, Env, start)
      env(variable, path) ==
        [Alone EXCEPT !.env = [Env EXCEPT ![variable] = path]]
      moved == Disk({Beside, <<"q", "w">>}, {},
                    Registry :> <<"q">> @@ <<"h", "l", "worktrees">> :> <<"q">>)
  IN  {found(<<"q">> :> Plain, Disk({}, {}, <<>>), <<"q", "d">>),
       found(P :> [Plain EXCEPT !.common = <<"q">>], Disk({}, {}, <<>>), P),
       found(P :> [Plain EXCEPT !.dir = Git \o <<"m">>], Disk({}, {}, <<>>), P),
       found(P :> Plain @@ Beside :> LinkedAt(Beside), moved, Beside),
       WorktreeAt(Within),
       [Alone EXCEPT !.disk.files = @ \ {<<"h", ".claude.json">>}],
       [Alone EXCEPT !.disk.links = <<"h", ".gitconfig">> :> <<"z">>,
                     !.disk.files = {}],
       [Alone EXCEPT !.disk.dirs = @ \ {<<"h", ".codex">>},
                     !.disk.links = <<"h", ".codex">> :> <<"z">>],
       [Alone EXCEPT !.git = P \o <<"d">> :> [Plain EXCEPT !.branch = ""]],
       env("CODEX_HOME", <<"q">>), env("CODEX_HOME", <<"z">>),
       env("CODEX_HOME", Git), env("CODEX_HOME", <<"h", "l">>),
       env("CLAUDE_CONFIG_DIR", P \o <<"d", "x">>),
       env("CLAUDE_CONFIG_DIR", <<"h", "l">>), env("HOME", <<"z">>)}

MCWorlds ==
  {Alone, Apart, WorktreeAt(Beside), WorktreeAt(Inside), Python({}, <<>>),
   Python({VenvMarker(P \o <<"d", ".venv">>)}, <<>>),
   Python({VenvMarker(P)}, <<>>),
   Python({}, Append(P, ".venv") :> <<"q">>)} \cup Odd

Additional ==
  [role : {"additional"},
   source : {<<"h">>, P, Git, Registry, Entry, P \o <<"d">>,
             P \o <<"d", "e">>, P \o <<"d", "x">>, <<"h", "l">>, <<"q">>,
             Beside, Inside, <<"z">>},
   target : {<<"h">>, <<"m">>, P, P \o <<"d">>, P \o <<"d", "e">>, P \o <<"d", "x">>,
             Registry, Entry, <<"h", ".codex", "y">>},
   readOnly : BOOLEAN]

\* Two mounts, the outer of which changes what the inner one would find.
Nested ==
  LET d(source, readOnly) == [role |-> "additional", source |-> source,
                              target |-> P \o <<"d">>, readOnly |-> readOnly]
      e(source, readOnly) == [role |-> "additional", source |-> source,
                              target |-> P \o <<"d", "e">>,
                              readOnly |-> readOnly]
  IN  {<<e(s, r), d(t, w)>> : s \in {P \o <<"d", "e">>, <<"q", "d", "e">>},
         t \in {P \o <<"d">>, <<"q", "d">>}, r \in BOOLEAN, w \in BOOLEAN}

MountLists(mounts) ==
  {RemoveAt(mounts, i) : i \in DOMAIN mounts}
  \cup {[mounts EXCEPT ![i].readOnly = ~@] : i \in DOMAIN mounts}
  \cup {<<m>> \o mounts : m \in Additional}
  \cup {Append(mounts, m) : m \in Additional}
  \cup {list \o mounts : list \in Nested}
  \cup {mounts \o mounts}

CacheLists ==
  LET paths == {<<"h", "go">>, <<"h", "uv">>, <<"h">>, P, P \o <<"d", "x">>,
                <<"h", "l">>, <<"q", "d">>, <<"q">>, <<"z">>}
      entries == [kind : {"go_build", "uv"}, source : paths]
  IN  {<<c>> : c \in entries} \cup {<<c, d>> : c \in entries, d \in entries}

TmpfsLists ==
  {<<Append(P, "t")>>, <<P>>, <<<<"q">>>>, <<Append(P, ".venv")>>,
   <<Append(P, "t"), Append(P, "t")>>, <<Append(P, "t"), P \o <<"t", "u">>>>,
   <<Git>>, <<P \o <<"d", ".venv">>>>, <<Append(P, Colon)>>}

MCEdits(from, generated) ==
  LET all == {generated}
        \cup {[generated EXCEPT !.storage = s] : s \in {"shared", "project"}}
        \cup {[generated EXCEPT !.tmpfs = t, !.hostVenv = v] :
                t \in TmpfsLists, v \in BOOLEAN}
        \cup {[generated EXCEPT !.caches = c] : c \in CacheLists}
        \cup {[generated EXCEPT !.mounts = m] :
                m \in MountLists(generated.mounts)}
  IN  IF from \in Odd THEN {generated} ELSE all

-----------------------------------------------------------------------------
MCHosts == <<"0:0:0:0:0:0:0:1", "127.0.0.1", "127.0.0.2", "::1", "localhost">>

\* Every host of the list is loopback; "lan" stands for any other host.
MCLoopback == Range(MCHosts)

Server(name, h, port, scheme) ==
  [name |-> name, enabled |-> TRUE, host |-> h, port |-> port,
   scheme |-> scheme]

\* Ports on both sides of the range, and the two defaults of the schemes.
Servers(name) ==
  {Server(name, h, p, "http") : h \in MCLoopback, p \in {NoPort, 443}}
  \cup {Server(name, "::1", NoPort, "https"),
        Server(name, "lan", 65536, "http"),
        [Server(name, "::1", 80, "http") EXCEPT !.enabled = FALSE]}

Faulty == {{Server("a", "::1", NoPort, "ftp")},
           {Server("a", "localhost", 65536, "http")},
           {Server("a", "localhost", 0, "http")}}

Singles == {{}} \cup {{s} : s \in Servers("a")}
Few == {{}} \cup {{Server("a", h, NoPort, "http")} : h \in MCLoopback}

MCConfigurations ==
  [codex : Singles \cup Faulty
           \cup {{s, t} : s \in Servers("a"), t \in Servers("b")},
   user : Singles \cup Faulty, local : Few]

NoServers == [codex |-> {}, user |-> {}, local |-> {}]

PlanIdle == world = Alone /\ stage = "idle" /\ plan = <<>>
EndpointsIdle ==
  /\ servers = NoServers /\ phase = "idle"
  /\ endpoints = <<>> /\ label = <<>> /\ restored = <<>>
ProjectIdle ==
  /\ files = [f \in File |-> Absent] /\ directory = "absent"
  /\ at = [p \in Initializer |-> "failed"]
  /\ index = [p \in Initializer |-> 1]
  /\ content = [p \in Initializer |-> <<>>]
  /\ launch = "none" /\ resolved = {} /\ disturbed = FALSE
  /\ expected = {} /\ edits = MaxEdits /\ faulty = TRUE

MCInit ==
  \/ Init /\ EndpointsIdle /\ ProjectIdle
  \/ EpInit /\ PlanIdle /\ ProjectIdle
  \/ ProjectInit /\ PlanIdle /\ EndpointsIdle

MCNext ==
  \/ Next /\ UNCHANGED <<epVars, projectVars>>
  \/ EpNext /\ UNCHANGED <<vars, projectVars>>
  \/ ProjectNext /\ UNCHANGED <<vars, epVars>>

MCSpec == MCInit /\ [][MCNext]_<<vars, epVars, projectVars>>

=============================================================================
