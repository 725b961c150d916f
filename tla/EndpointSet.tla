----------------------------- MODULE EndpointSet -----------------------------
(***************************************************************************)
(* The set of host MCP endpoints a session forwards                        *)
(* (internal/launcher/hostmcp): selected from the Codex and the Claude     *)
(* configuration, merged, sorted, recorded in a label of the container and *)
(* restored from the label when a kept container is started again.  The    *)
(* position of an endpoint in the set names its socket, so the containers  *)
(* on both sides of the channel must agree on it.                          *)
(*                                                                         *)
(* A configured server is a record of what its entry says: whether it is   *)
(* enabled, and the host, port and scheme of its URL.  An address is a     *)
(* pair of a host as it is spelled and a port.                             *)
(***************************************************************************)
EXTENDS Integers, Sequences, FiniteSets, Functions

CONSTANTS
  Hosts,              \* the spellings of a host, in the order of strings
  Loopback,           \* those that name the loopback
  Configurations      \* what to discover: [codex, user, local], each the
                      \* set of the servers named there

ASSUME HostsAssumption ==
  Hosts \in Seq(Range(Hosts)) /\ Loopback \subseteq Range(Hosts)

Scopes == {"codex", "user", "local"}
ASSUME ConfigurationsAssumption ==
  \A configuration \in Configurations : \A scope \in Scopes :
    IsFiniteSet(configuration[scope])

VARIABLES
  servers,            \* the configuration of this launch
  phase,              \* "discover", "record", "restore", "settled", "failed"
  endpoints,          \* the set: a sequence of [address, names]
  label,              \* the addresses recorded on the container
  restored            \* the addresses a later launch reads back

epVars == <<servers, phase, endpoints, label, restored>>

NoPort == -1
HighestPort == 65535

Rank(host) == CHOOSE i \in DOMAIN Hosts : Hosts[i] = host

Precedes(first, second) ==
  \/ Rank(first[1]) < Rank(second[1])
  \/ first[1] = second[1] /\ first[2] < second[2]

-----------------------------------------------------------------------------
(* Discovery                                                               *)

\* Not selecting a server is silent; a selected one needs a valid port.
\* Only an entry of Codex can be switched off.
Selected(scope, server) ==
  (scope = "codex" => server.enabled) /\ server.host \in Loopback

Port(server) ==
  CASE server.port # NoPort -> server.port
    [] server.scheme = "http" -> 80
    [] server.scheme = "https" -> 443
    [] OTHER -> NoPort

ValidPort(port) == port \in 1..HighestPort

Malformed(scope, named) ==
  \E s \in named : Selected(scope, s) /\ ~ValidPort(Port(s))

\* A server that is selected, under the name of the file and scope it is in.
Endpoint(scope, server) == [address |-> <<server.host, Port(server)>>,
                            names |-> {<<scope, server.name>>}]

SelectedFrom(scope, named) ==
  {Endpoint(scope, s) : s \in {t \in named : Selected(scope, t)}}

Addresses(set) == [i \in DOMAIN set |-> set[i].address]

\* The order in which Before puts the addresses.
Sorted(addresses, Before(_, _)) ==
  CHOOSE s \in [1..Cardinality(addresses) -> addresses] :
    /\ Range(s) = addresses
    /\ \A i, j \in DOMAIN s : i < j => Before(s[i], s[j])

At(given, address) == {e \in given : e.address = address}
AllNames(given, address) == UNION {e.names : e \in At(given, address)}

Joined(order, Names(_)) ==
  [i \in DOMAIN order |-> [address |-> order[i], names |-> Names(order[i])]]

\* Mutant: the names of one of the servers win.
MergeOne(given) ==
  LET Names(address) == (CHOOSE e \in At(given, address) : TRUE).names
  IN  Joined(Sorted({e.address : e \in given}, Precedes), Names)

\* Mutant: the port is compared before the host.
MergeByPort(given) ==
  LET Names(address) == AllNames(given, address)
      ByPort(first, second) ==
        \/ first[2] < second[2]
        \/ first[2] = second[2] /\ Rank(first[1]) < Rank(second[1])
  IN  Joined(Sorted({e.address : e \in given}, ByPort), Names)

\* Equal addresses become one endpoint that keeps every name.
Merge(given) ==
  LET Names(address) == AllNames(given, address)
  IN  Joined(Sorted({e.address : e \in given}, Precedes), Names)

\* The name localhost is served on both loopback addresses.
Listen(address) ==
  IF address[1] = "localhost"
  THEN {<<"127.0.0.1", address[2]>>, <<"::1", address[2]>>}
  ELSE {address}

Collides(addresses) ==
  \E i, j \in DOMAIN addresses :
    i # j /\ Listen(addresses[i]) \cap Listen(addresses[j]) # {}

\* Every merge on the way sorts and rejects: a set of sets, empty on failure.
MergedSets(given) == {m \in {Merge(given)} : ~Collides(Addresses(m))}

Parsed(scope) ==
  IF Malformed(scope, servers[scope]) THEN {}
  ELSE MergedSets(SelectedFrom(scope, servers[scope]))

ClaudeSets ==
  UNION {MergedSets(Range(user) \cup Range(local)) :
    user \in Parsed("user"), local \in Parsed("local")}

\* Mutant: the sets of the two products are joined without the check.
DiscoverUnchecked ==
  {Merge(Range(codex) \cup Range(claude)) :
    codex \in Parsed("codex"), claude \in ClaudeSets}

DiscoverAll ==
  UNION {MergedSets(Range(codex) \cup Range(claude)) :
    codex \in Parsed("codex"), claude \in ClaudeSets}

\* What a later launch accepts of the record.
ParseLabel(addresses) ==
  IF /\ \A i \in DOMAIN addresses : /\ addresses[i][1] \in Loopback
                                    /\ ValidPort(addresses[i][2])
     /\ \A i \in 1..Len(addresses) - 1 :
          ~Precedes(addresses[i + 1], addresses[i])
     /\ ~Collides(addresses)
  THEN {addresses} ELSE {}

-----------------------------------------------------------------------------
EpInit ==
  /\ servers \in Configurations
  /\ phase = "discover"
  /\ endpoints = <<>> /\ label = <<>> /\ restored = <<>>

DiscoverEndpoints ==
  /\ phase = "discover"
  /\ IF DiscoverAll = {} THEN phase' = "failed" /\ UNCHANGED endpoints
     ELSE phase' = "record" /\ endpoints' \in DiscoverAll
  /\ UNCHANGED <<servers, label, restored>>

RecordLabel ==
  /\ phase = "record"
  /\ label' = Addresses(endpoints)
  /\ phase' = "restore"
  /\ UNCHANGED <<servers, endpoints, restored>>

RestoreEndpoints ==
  /\ phase = "restore"
  /\ IF ParseLabel(label) = {} THEN phase' = "failed" /\ UNCHANGED restored
     ELSE phase' = "settled" /\ restored' \in ParseLabel(label)
  /\ UNCHANGED <<servers, endpoints, label>>

EpNext == DiscoverEndpoints \/ RecordLabel \/ RestoreEndpoints

EpSpec == EpInit /\ [][EpNext]_epVars

-----------------------------------------------------------------------------
\* The endpoints one by one, under one name each.
Grants(given) ==
  UNION {{[address |-> e.address, names |-> {name}] : name \in e.names} :
           e \in given}

\* A discovery that succeeds forwards every server it selected, at one place
\* in the set, under the name its configuration gives it, and nothing else:
\* merging the products and scopes loses and invents no grant.
EveryServerIsForwarded ==
  phase \in {"record", "restore", "settled"} =>
    /\ Grants(Range(endpoints)) =
         UNION {SelectedFrom(scope, servers[scope]) : scope \in Scopes}
    /\ IsInjective(Addresses(endpoints))

\* What discovery accepted and the label records, a restart accepts again,
\* and every endpoint keeps the socket it was served on.
RestartKeepsSockets ==
  /\ phase = "settled" => restored = Addresses(endpoints)
  /\ phase = "failed" => endpoints = <<>>

\* Endpoints that are not equal but need one listener, as their addresses are
\* spelled: localhost and an address of the loopback on one port.
Clash(e, f) ==
  e.address # f.address /\ Listen(e.address) \cap Listen(f.address) # {}

\* Discovery refuses a configuration only for what it says: a selected server
\* without a valid port, or two that clash, in whichever products and scopes they
\* are, and whatever is merged first. No such pair gets as far as the container,
\* where the second bind would fail and end the session.
RefusalIsJustified ==
  LET selected == UNION {SelectedFrom(scope, servers[scope]) : scope \in Scopes}
      faulty == \E scope \in Scopes : Malformed(scope, servers[scope])
      clashing == \E e, f \in selected : Clash(e, f)
  IN  /\ phase = "failed" => faulty \/ clashing
      /\ phase \in {"record", "restore", "settled"} => ~faulty /\ ~clashing
=============================================================================
