------------------------- MODULE KeptContainerProofs -------------------------
(***************************************************************************)
(* Proofs about KeptContainer, for account databases of any length, any    *)
(* number of masks and any number of failures. Every step of the kept      *)
(* container is a step of Supervisor, a kill or a restart, so the          *)
(* invariant of SupervisorProofs carries over; the rest follows bootstrap. *)
(***************************************************************************)
EXTENDS KeptContainer, SupervisorProofs, SequenceTheorems, WellFoundedInduction

(* The account databases.                                                  *)

\* The host's entry has its id and name, and no other entry comes before it.
Leads(database, i) ==
  /\ i \in DOMAIN database
  /\ database[i].id = HostID
  /\ \A j \in DOMAIN database : database[j].id = HostID => i <= j

Settled(database) ==
  \E i \in DOMAIN database : Leads(database, i) /\ database[i].name = Host
Complete(database) ==
  \E i \in DOMAIN database : Leads(database, i) /\ database[i] = HostEntry

First(S) == CHOOSE i \in S : \A j \in S : i <= j

\* A set of indices has a first one.
LEMMA FirstIsLeast ==
  ASSUME NEW S \in SUBSET Nat, S # {}
  PROVE  First(S) \in S /\ \A j \in S : First(S) <= j
<1> DEFINE Less == {pair \in Nat \X Nat : pair[1] < pair[2]}
<1>1. IsWellFoundedOn(Less, Nat)
  BY NatLessThanWellFounded DEF OpToRel
<1> HIDE DEF Less
<1>2. PICK i \in S : \A j \in S : ~(<<j, i>> \in Less)
  <2>1. S \subseteq Nat
    OBVIOUS
  <2>2. QED
    BY <1>1, <2>1, WFMin
<1>3. ASSUME NEW j \in S
      PROVE  i <= j
  <2>1. i \in Nat /\ j \in Nat
    OBVIOUS
  <2>2. <<j, i>> \in Less <=> j < i
    BY <2>1 DEF Less
  <2>3. QED
    BY <1>2, <2>1, <2>2
<1>4. QED
  BY <1>3 DEF First

LEMMA FirstIsUnique ==
  ASSUME NEW S \in SUBSET Nat, NEW i \in S, \A j \in S : i <= j
  PROVE  First(S) = i
<1>1. \A k \in S : (\A j \in S : k <= j) => k = i
  OBVIOUS
<1>2. QED
  BY <1>1 DEF First

WithID(database)   == {i \in DOMAIN database : database[i].id = HostID}
WithName(database) == {i \in DOMAIN database : database[i].name = Host}

LEMMA ByIDIsFirst ==
  ASSUME NEW database
  PROVE  ByID(database) = IF WithID(database) = {} THEN NoEntry
                          ELSE database[First(WithID(database))]
BY DEF ByID, Lookup, WithID, First

LEMMA ByNameIsFirst ==
  ASSUME NEW database
  PROVE  ByName(database) = IF WithName(database) = {} THEN NoEntry
                            ELSE database[First(WithName(database))]
BY DEF ByName, Lookup, WithName, First

LEMMA Indices ==
  ASSUME NEW database, Wellformed(database)
  PROVE  /\ Len(database) \in Nat
         /\ DOMAIN database = 1 .. Len(database)
         /\ WithID(database) \in SUBSET Nat /\ WithName(database) \in SUBSET Nat
         /\ \A i \in DOMAIN database : database[i] \in Account
BY LenProperties DEF Wellformed, WithID, WithName

LEMMA LeaderIsFound ==
  ASSUME NEW database, Wellformed(database), NEW i, Leads(database, i)
  PROVE  /\ ByID(database) = database[i]
         /\ database[i].name = Host => ByName(database) = database[i]
<1>1. First(WithID(database)) = i
  BY Indices, FirstIsUnique DEF Leads, WithID
<1>2. ByID(database) = database[i]
  BY <1>1, ByIDIsFirst DEF Leads, WithID
<1>3. ASSUME database[i].name = Host
      PROVE  ByName(database) = database[i]
  <2>1. WithName(database) = {i}
    BY <1>3 DEF WithName, Wellformed, Leads
  <2>2. First({i}) = i
    BY DEF First
  <2>3. QED
    BY <2>1, <2>2, ByNameIsFirst
<1>4. QED
  BY <1>2, <1>3

\* An id that is used has a first entry; so has a name.
LEMMA SomeEntryLeads ==
  ASSUME NEW database, Wellformed(database)
  PROVE  /\ ByID(database) = NoEntry <=> WithID(database) = {}
         /\ WithID(database) # {} => \E i \in DOMAIN database : Leads(database, i)
         /\ WithName(database) # {} =>
              \E i \in DOMAIN database : database[i].name = Host /\ ByName(database) = database[i]
         /\ ByName(database) = NoEntry <=> WithName(database) = {}
<1>1. ASSUME WithID(database) # {}
      PROVE  Leads(database, First(WithID(database)))
  BY <1>1, Indices, FirstIsLeast DEF WithID, Leads
<1>2. ASSUME WithID(database) # {}
      PROVE  ByID(database) # NoEntry
  <2>1. ByID(database) = database[First(WithID(database))]
    BY <1>2, ByIDIsFirst
  <2>2. database[First(WithID(database))].id = HostID
    BY <1>1, <1>2 DEF Leads
  <2>3. NoEntry.id # HostID
    BY DEF NoEntry, HostID
  <2>4. QED
    BY <2>1, <2>2, <2>3
<1>3. ASSUME WithName(database) # {}
      PROVE  /\ First(WithName(database)) \in DOMAIN database
             /\ database[First(WithName(database))].name = Host
  <2>1. First(WithName(database)) \in WithName(database)
    BY <1>3, Indices, FirstIsLeast
  <2>2. QED
    BY <2>1 DEF WithName
<1>4. ASSUME WithName(database) # {}
      PROVE  ByName(database) # NoEntry
  <2>1. ByName(database) = database[First(WithName(database))]
    BY <1>4, ByNameIsFirst
  <2>2. NoEntry.name # Host
    BY DEF NoEntry, Host
  <2>3. QED
    BY <1>3, <1>4, <2>1, <2>2
<1>5. WithName(database) # {} =>
        ByName(database) = database[First(WithName(database))]
  BY ByNameIsFirst
<1>6. /\ WithID(database) = {} => ByID(database) = NoEntry
      /\ WithName(database) = {} => ByName(database) = NoEntry
  BY ByIDIsFirst, ByNameIsFirst
<1>7. QED
  BY <1>1, <1>2, <1>3, <1>4, <1>5, <1>6 DEF Leads

\* groupadd and useradd: a new entry at the end.
LEMMA AddedEntry ==
  ASSUME NEW database, Wellformed(database), WithID(database) = {},
         ~Conflict(database), NEW entry \in Account,
         entry.id = HostID, entry.name = Host
  PROVE  /\ Wellformed(Append(database, entry))
         /\ Append(database, entry)[Len(database) + 1] = entry
         /\ Leads(Append(database, entry), Len(database) + 1)
<1> DEFINE longer == Append(database, entry)
<1>1. WithName(database) = {}
  <2>1. SUFFICES ASSUME WithName(database) # {} PROVE FALSE
    OBVIOUS
  <2>2. PICK i \in DOMAIN database : database[i].name = Host /\ ByName(database) = database[i]
    BY <2>1, SomeEntryLeads
  <2>3. ByName(database).id = HostID
    BY <2>1, SomeEntryLeads DEF Conflict
  <2>4. QED
    BY <2>2, <2>3 DEF WithID
<1>2. /\ longer \in Seq(Account) /\ DOMAIN longer = 1 .. Len(database) + 1
      /\ \A i \in 1 .. Len(database) : longer[i] = database[i]
      /\ longer[Len(database) + 1] = entry
  BY AppendProperties, LenProperties DEF Wellformed
<1>3. \A i \in 1 .. Len(database) : database[i].name # Host /\ database[i].id # HostID
  BY <1>1, Indices DEF WithName, WithID
<1>4. Wellformed(longer)
  BY <1>2, <1>3, Indices DEF Wellformed
<1>5. Leads(longer, Len(database) + 1)
  BY <1>2, <1>3, Indices DEF Leads
<1>6. QED
  BY <1>2, <1>4, <1>5

\* Databases that differ in one entry.
LEMMA ChangedEntry ==
  ASSUME NEW database, Wellformed(database), NEW i \in DOMAIN database,
         NEW entry \in Account, entry.id = database[i].id,
         \A j \in DOMAIN database : database[j].name = entry.name => j = i
  PROVE  /\ Wellformed([database EXCEPT ![i] = entry])
         /\ Leads(database, i) => Leads([database EXCEPT ![i] = entry], i)
<1> DEFINE changed == [database EXCEPT ![i] = entry]
<1>1. database \in Seq(Account) /\ i \in 1 .. Len(database)
  BY Indices DEF Wellformed
<1>2. changed \in Seq(Account) /\ Len(changed) = Len(database)
  BY <1>1, ExceptSeq
<1>3. /\ DOMAIN changed = DOMAIN database
      /\ changed[i] = entry
      /\ \A j \in DOMAIN database \ {i} : changed[j] = database[j]
  OBVIOUS
<1>4. Wellformed(changed)
  <2>1. ASSUME NEW j \in DOMAIN database, NEW k \in DOMAIN database,
               changed[j].name = changed[k].name
        PROVE  j = k
    BY <1>3, <2>1 DEF Wellformed
  <2>2. QED
    BY <1>2, <1>3, <2>1 DEF Wellformed
<1>5. ASSUME Leads(database, i)
      PROVE  Leads(changed, i)
  BY <1>3, <1>5 DEF Leads
<1>6. QED
  BY <1>4, <1>5

LEMMA NamedAccount ==
  ASSUME NEW e \in Account, NEW name \in Names
  PROVE  /\ [e EXCEPT !.name = name] \in Account
         /\ [e EXCEPT !.name = name].id = e.id
         /\ [e EXCEPT !.name = name].name = name
<1>1. [e EXCEPT !.name = name] =
        [name |-> name, id |-> e.id, gid |-> e.gid, home |-> e.home]
  BY DEF Account
<1>2. e.id \in Nat /\ e.gid \in Nat /\ e.home \in Names
  BY DEF Account
<1>3. QED
  BY <1>1, <1>2 DEF Account

\* groupmod --new-name and usermod --login: only the entry with the id changes.
LEMMA RenamedEntry ==
  ASSUME NEW database, Wellformed(database), NEW i, Leads(database, i),
         ~Conflict(database)
  PROVE  Renamed(database) =
           [database EXCEPT ![i] = [database[i] EXCEPT !.name = Host]]
<1>1. ByID(database) = database[i]
  BY LeaderIsFound
<1>2. i \in DOMAIN database
  BY DEF Leads
<1>3. \A j \in DOMAIN database : database[j].name = database[i].name <=> j = i
  BY <1>2 DEF Wellformed
<1>4. Renamed(database) =
        [j \in DOMAIN database |->
           IF database[j].name = database[i].name
             THEN [database[j] EXCEPT !.name = Host] ELSE database[j]]
  BY <1>1 DEF Renamed, Changed
<1>5. [j \in DOMAIN database |->
         IF database[j].name = database[i].name
           THEN [database[j] EXCEPT !.name = Host] ELSE database[j]] =
      [j \in DOMAIN database |->
         IF j = i THEN [database[i] EXCEPT !.name = Host] ELSE database[j]]
  BY <1>3
<1>6. database = [j \in DOMAIN database |-> database[j]]
  BY DEF Wellformed
<1>7. QED
  BY <1>2, <1>4, <1>5, <1>6

LEMMA RenamedSettles ==
  ASSUME NEW database, Wellformed(database), NEW i, Leads(database, i),
         ~Conflict(database)
  PROVE  Wellformed(Renamed(database)) /\ Settled(Renamed(database))
<1> DEFINE entry == [database[i] EXCEPT !.name = Host]
           changed == [database EXCEPT ![i] = entry]
<1>1. i \in DOMAIN database /\ database[i] \in Account
  BY Indices DEF Leads
<1>2. entry \in Account /\ entry.id = database[i].id /\ entry.name = Host
  <2>1. Host \in Names
    BY DatabasesAssumption DEF Host
  <2>2. QED
    BY <1>1, <2>1, NamedAccount
<1>3. ASSUME NEW j \in DOMAIN database, database[j].name = Host
      PROVE  j = i
  <2>1. WithName(database) # {}
    BY <1>3 DEF WithName
  <2>2. ByID(database).name = Host
    BY <2>1, SomeEntryLeads DEF Conflict
  <2>3. database[i].name = Host
    BY <2>2, LeaderIsFound
  <2>4. QED
    BY <1>1, <1>3, <2>3 DEF Wellformed
<1>4. Renamed(database) = changed
  BY RenamedEntry
<1>5. DOMAIN changed = DOMAIN database /\ changed[i] = entry
  BY <1>1
<1> HIDE DEF entry
<1>6. Wellformed(changed) /\ Leads(changed, i)
  BY <1>1, <1>2, <1>3, ChangedEntry
<1> HIDE DEF changed
<1>7. QED
  BY <1>1, <1>2, <1>4, <1>5, <1>6 DEF Settled

\* Once the host's entry has its name, there is nothing to rename.
LEMMA SettledIsKept ==
  ASSUME NEW database, Wellformed(database), Settled(database)
  PROVE  Renamed(database) = database
<1>1. PICK i \in DOMAIN database : Leads(database, i) /\ database[i].name = Host
  BY DEF Settled
<1>2. ByID(database) = database[i] /\ ByName(database) = database[i]
  BY <1>1, LeaderIsFound
<1>3. ~Conflict(database)
  BY <1>1, <1>2 DEF Conflict, Leads
<1>4. [database[i] EXCEPT !.name = Host] = database[i]
  BY <1>1, Indices DEF Account
<1>5. database \in Seq(Account)
  BY DEF Wellformed
<1>6. QED
  BY <1>1, <1>3, <1>4, <1>5, RenamedEntry

LEMMA UpdatedEntry ==
  ASSUME NEW database, Wellformed(database),
         NEW i \in DOMAIN database, database[i].name = Host
  PROVE  Updated(database) =
           [database EXCEPT ![i] = Entry(Host, database[i].id, HostID, Host)]
<1>1. \A j \in DOMAIN database : database[j].name = Host <=> j = i
  BY DEF Wellformed
<1>2. Updated(database) =
        [j \in DOMAIN database |->
           IF database[j].name = Host
             THEN Entry(database[j].name, database[j].id, HostID, Host)
             ELSE database[j]]
  BY DEF Updated, Changed
<1>3. ASSUME NEW j \in DOMAIN database
      PROVE  (IF database[j].name = Host
                THEN Entry(database[j].name, database[j].id, HostID, Host)
                ELSE database[j]) =
             (IF j = i THEN Entry(Host, database[i].id, HostID, Host)
              ELSE database[j])
  BY <1>1, <1>3
<1>4. database = [j \in DOMAIN database |-> database[j]]
  BY DEF Wellformed
<1>5. QED
  BY <1>2, <1>3, <1>4

\* The second usermod completes the entry that the first one named.
LEMMA UpdatedCompletes ==
  ASSUME NEW database, Wellformed(database), Settled(database)
  PROVE  Wellformed(Updated(database)) /\ Complete(Updated(database))
<1>1. PICK i \in DOMAIN database : Leads(database, i) /\ database[i].name = Host
  BY DEF Settled
<1> DEFINE changed == [database EXCEPT ![i] = HostEntry]
<1>2. HostEntry \in Account /\ HostEntry.id = HostID /\ HostEntry.name = Host
  <2>1. Host \in Names
    BY DatabasesAssumption DEF Host
  <2>2. QED
    BY <2>1 DEF HostEntry, Entry, Account, HostID
<1>3. Updated(database) = changed
  <2>1. database[i].id = HostID
    BY <1>1 DEF Leads
  <2>2. QED
    BY <1>1, <2>1, UpdatedEntry DEF HostEntry
<1>4. DOMAIN changed = DOMAIN database /\ changed[i] = HostEntry
  OBVIOUS
<1>5. \A j \in DOMAIN database : database[j].name = HostEntry.name => j = i
  BY <1>1, <1>2 DEF Wellformed
<1>6. Wellformed(changed) /\ Leads(changed, i)
  BY <1>1, <1>2, <1>5, ChangedEntry DEF Leads
<1> HIDE DEF changed
<1>7. QED
  BY <1>3, <1>4, <1>6 DEF Complete

\* It leaves the other entries alone, and one that is complete.
LEMMA UpdatedSpares ==
  ASSUME NEW database, Wellformed(database), Settled(database)
  PROVE  /\ DOMAIN Updated(database) = DOMAIN database
         /\ \A i \in DOMAIN database :
              database[i].name # Host \/ database[i] = HostEntry =>
                Updated(database)[i] = database[i]
<1>1. PICK i \in DOMAIN database : Leads(database, i) /\ database[i].name = Host
  BY DEF Settled
<1>2. Updated(database) =
        [database EXCEPT ![i] = Entry(Host, database[i].id, HostID, Host)]
  BY <1>1, UpdatedEntry
<1>3. Entry(Host, database[i].id, HostID, Host) = HostEntry
  BY <1>1 DEF Leads, HostEntry
<1>4. QED
  BY <1>1, <1>2, <1>3

LEMMA CompleteIsSettled ==
  ASSUME NEW database, Wellformed(database), Complete(database)
  PROVE  Settled(database)
<1>1. PICK i \in DOMAIN database : Leads(database, i) /\ database[i] = HostEntry
  BY DEF Complete
<1>2. database[i].name = Host /\ database[i].id = HostID
  BY <1>1 DEF HostEntry, Entry
<1>3. QED
  BY <1>1, <1>2 DEF Settled

\* What the lookups say of such databases.
LEMMA SettledIsFound ==
  ASSUME NEW database, Wellformed(database), Settled(database)
  PROVE  /\ ByID(database) # NoEntry /\ ByID(database).name = Host
         /\ ByName(database).id = HostID
<1>1. PICK i \in DOMAIN database : Leads(database, i) /\ database[i].name = Host
  BY DEF Settled
<1>2. ByID(database) = database[i] /\ ByName(database) = database[i]
  BY <1>1, LeaderIsFound
<1>3. WithID(database) # {}
  BY <1>1 DEF WithID, Leads
<1>4. QED
  BY <1>1, <1>2, <1>3, SomeEntryLeads DEF Leads

LEMMA CompleteIsFound ==
  ASSUME NEW database, Wellformed(database), Complete(database)
  PROVE  ByID(database) = HostEntry /\ ByName(database) = HostEntry
<1>1. PICK i \in DOMAIN database : Leads(database, i) /\ database[i] = HostEntry
  BY DEF Complete
<1>2. database[i].name = Host
  BY <1>1 DEF HostEntry, Entry
<1>3. QED
  BY <1>1, <1>2, LeaderIsFound

\* An account that a package brings.
LEMMA OtherEntry ==
  ASSUME NEW database, Wellformed(database), NEW entry \in Account,
         entry.id # HostID,
         \A i \in DOMAIN database : database[i].name # entry.name
  PROVE  /\ Wellformed(Append(database, entry))
         /\ Settled(database) => Settled(Append(database, entry))
<1> DEFINE longer == Append(database, entry)
<1>1. /\ longer \in Seq(Account) /\ DOMAIN longer = 1 .. Len(database) + 1
      /\ \A i \in 1 .. Len(database) : longer[i] = database[i]
      /\ longer[Len(database) + 1] = entry
  BY AppendProperties, LenProperties DEF Wellformed
<1>2. Wellformed(longer)
  BY <1>1, Indices DEF Wellformed
<1>3. ASSUME NEW i \in DOMAIN database, Leads(database, i)
      PROVE  Leads(longer, i)
  BY <1>1, <1>3, Indices DEF Leads
<1>4. ASSUME Settled(database)
      PROVE  Settled(longer)
  <2>1. PICK i \in DOMAIN database :
               Leads(database, i) /\ database[i].name = Host
    BY <1>4 DEF Settled
  <2>2. longer[i].name = Host /\ i \in DOMAIN longer
    BY <1>1, <2>1, Indices
  <2> HIDE DEF longer
  <2>3. QED
    BY <1>3, <2>1, <2>2 DEF Settled
<1>5. QED
  BY <1>2, <1>4

-----------------------------------------------------------------------------
(* The invariant.                                                          *)

\* A killed container has no process left, whatever Serve was doing.
Slain ==
  TypeOK /\ sup = "returned" /\ daemon = "none" /\ manager = "none"
  /\ result # "ok"

\* No command has run in this run of the container yet.
Fresh ==
  \/ sup \in {"bootstrap", "startDockerd", "awaitReady", "own", "access",
              "create"}
  \/ manager = "starting"

\* What bootstrap has done before each of its steps.
Prepared ==
  /\ step \notin {"tmpfs", "group"} => Settled(groups)
  /\ step \notin {"tmpfs", "group", "user"} => Settled(users)
  /\ step \in {"mkdir", "chown", "bashrc", "rename", "sudoers"} => Complete(users)
  /\ step \in {"bashrc", "rename", "sudoers"} => home = "user"
  /\ step = "rename" => bashrc = "none"
  /\ step = "sudoers" => bashrc # "none"
  /\ step = "channel" /\ Fresh =>
       Complete(users) /\ home = "user" /\ bashrc # "none" /\ sudoers
  /\ step # "tmpfs" => masks = Tmpfs

\* Serve leaves bootstrap by its last step, or it ends.
Reached == sup \notin {"bootstrap"} \union Over => step = "channel"

AllRules == <<"docker", "guard", "source", "destination">>

\* The rules there are when Serve is where it is.
Guarded ==
  /\ rules \in {<<>>, <<"docker">>, <<"docker", "guard">>,
                <<"docker", "guard", "source">>, AllRules}
  /\ sup \in {"bootstrap", "startDockerd", "abort", "awaitReady"} =>
       rules = <<>>
  /\ sup = "own" => rules = <<"docker">>
  /\ sup = "access" => rules \notin {<<>>, AllRules}
  /\ sup \in {"create", "select", "parked", "drain"} => rules = AllRules

\* What a session that has served once keeps over every later run.
Lasting ==
  served => Settled(groups) /\ Settled(users)

\* A dockerd never runs over what an earlier one has left.
Cleared == daemon = "running" /\ sup # "returned" => "dockerd" \notin stale

LifeTypes ==
  /\ Wellformed(groups) /\ Wellformed(users)
  /\ home \in {"none", "other", "user"} /\ bashrc \in {"none", "image", "user"}
  /\ sudoers \in BOOLEAN /\ served \in BOOLEAN
  /\ stale \subseteq {"dockerd", "session"}
  /\ step \in {"tmpfs", "group", "user", "update", "mkdir", "chown", "bashrc",
               "rename", "sudoers", "channel"}
  /\ masks \in 0..Tmpfs /\ trouble \in 0..MaxTrouble

LifeInv ==
  /\ IInv \/ Slain
  /\ LifeTypes /\ Prepared /\ Reached /\ Guarded /\ Lasting /\ Cleared

-----------------------------------------------------------------------------
(* The steps, as Supervisor sees them.                                     *)

LEMMA LifeInitially == LifeInit => LifeInv
<1> SUFFICES ASSUME LifeInit PROVE LifeInv
  OBVIOUS
<1>1. IInv
  BY Initially DEF LifeInit
<1>2. Wellformed(groups) /\ Wellformed(users)
  BY DatabasesAssumption DEF LifeInit
<1>3. /\ sup = "bootstrap" /\ step = "tmpfs" /\ rules = <<>> /\ served = FALSE
      /\ daemon = "none"
  BY DEF LifeInit, Init
<1>4. LifeTypes
  <2>1. masks \in 0..Tmpfs /\ trouble \in 0..MaxTrouble
    BY KeptAssumption DEF LifeInit
  <2>2. /\ home \in {"none", "other", "user"} /\ stale = {}
        /\ bashrc = "none" /\ step = "tmpfs" /\ ~sudoers /\ ~served
    BY DEF LifeInit
  <2>3. sudoers \in BOOLEAN /\ served \in BOOLEAN
    BY DEF LifeInit
  <2>4. QED
    BY <1>2, <2>1, <2>2, <2>3 DEF LifeTypes
<1>5. Prepared /\ Reached /\ Guarded /\ Lasting /\ Cleared
  BY <1>3 DEF Prepared, Reached, Guarded, Lasting, Cleared
<1>6. QED
  BY <1>1, <1>4, <1>5 DEF LifeInv

\* A step of bootstrap but the last leaves the variables of Supervisor alone.
LEMMA BootstrapWithin == BootstrapStep => [Next]_vars
<1> SUFFICES ASSUME BootstrapStep PROVE [Next]_vars
  OBVIOUS
<1>1. CASE \/ MountTmpfs \/ ReconcileGroup \/ ReconcileUser \/ UpdateUser
           \/ MakeHome \/ OwnHome \/ SeedBashRC \/ InstallBashRC
           \/ InstallSudoers
  <2>1. UNCHANGED vars
    BY <1>1
       DEF MountTmpfs, ReconcileGroup, ReconcileUser, UpdateUser, MakeHome,
           OwnHome, SeedBashRC, InstallBashRC, InstallSudoers, Pass
  <2>2. QED
    BY <2>1
<1>2. CASE OpenChannel \/ CutShort
  BY <1>2 DEF OpenChannel, CutShort, Next, ServeStep
<1>3. QED
  BY <1>1, <1>2 DEF BootstrapStep

LEMMA LifeImplementsServe == LifeNext => [Next]_vars \/ Kill \/ Restart
<1> SUFFICES ASSUME LifeNext PROVE [Next]_vars \/ Kill \/ Restart
  OBVIOUS
<1> USE DEF Next, ServeStep, ManagerStep, DockerdStep
<1>1. CASE BootstrapStep
  BY <1>1, BootstrapWithin
<1>2. CASE ClearAndStart \/ StartAborted \/ DockerAnswers
  BY <1>2 DEF ClearAndStart, StartAborted, DockerAnswers
<1>3. CASE InstallRule
  BY <1>3 DEF InstallRule
<1>4. CASE FailStartup \/ Leave \/ Listen \/ ListenRefused \/ CloseSocket
  BY <1>4 DEF FailStartup, Leave, Listen, ListenRefused, CloseSocket
<1>5. CASE OtherServeStep
  BY <1>5 DEF OtherServeStep, Rest
<1>6. CASE Cancelled \/ OtherManagerStep \/ Reaped \/ Signalled
  BY <1>6 DEF Cancelled, OtherManagerStep, Reaped, Signalled
<1>7. CASE DockerdEnds
  BY <1>7 DEF DockerdEnds
<1>8. CASE Command
  BY <1>8
     DEF Command, EditBashRC, ChangeHome, ChangeAccount, DropSudoers, AddAccount
<1>9. CASE Kill \/ Restart
  BY <1>9
<1>10. QED
  BY <1>1, <1>2, <1>3, <1>4, <1>5, <1>6, <1>7, <1>8, <1>9
     DEF LifeNext, ServeGoesOn

\* What a kill leaves does nothing until the container is started again.
LEMMA SlainRests == Slain /\ [Next]_vars => UNCHANGED vars
<1> SUFFICES ASSUME Slain, Next PROVE FALSE
  OBVIOUS
<1>1. sup = "returned" /\ daemon = "none" /\ manager = "none"
  BY DEF Slain
<1>2. CASE Bootstrap \/ BootstrapFails \/ StartDockerd \/ StartDockerdFails
           \/ CloseLogFails \/ WaitAborted \/ DockerReady \/ OwnSocket
  BY <1>1, <1>2
     DEF Bootstrap, BootstrapFails, StartDockerd, StartDockerdFails,
         CloseLogFails, WaitAborted, DockerReady, OwnSocket
<1>3. CASE ServiceAccess \/ CreateManager \/ StartupFails \/ EnterSelect
           \/ ManagerEnded \/ DockerdEnded \/ ContextDone
  BY <1>1, <1>3
     DEF ServiceAccess, CreateManager, StartupFails, EnterSelect, ManagerEnded,
         DockerdEnded, ContextDone
<1>4. CASE ManagerDrained \/ StopReaped \/ SignalTerm \/ SignalRefused
           \/ ShutdownTimesOut \/ ReapKilled \/ Return
  BY <1>1, <1>4
     DEF ManagerDrained, StopReaped, SignalTerm, SignalRefused,
         ShutdownTimesOut, ReapKilled, Return
<1>5. CASE ManagerStep
  BY <1>1, <1>5
     DEF ManagerStep, ManagerListens, ManagerListenFails, ManagerIdle,
         ManagerCancelled, ManagerFails, ManagerReturns, ManagerStops
<1>6. CASE DockerdStep \/ DockerdReaped \/ SignalServe
  BY <1>1, <1>6 DEF DockerdStep, DockerdExits, DockerdReaped, SignalServe
<1>7. QED
  BY <1>2, <1>3, <1>4, <1>5, <1>6 DEF Next, ServeStep

LEMMA ServeKept == (IInv \/ Slain) /\ [LifeNext]_lifeVars => (IInv \/ Slain)'
<1> SUFFICES ASSUME IInv \/ Slain, [LifeNext]_lifeVars
             PROVE  IInv' \/ Slain'
  OBVIOUS
<1>1. CASE [Next]_vars
  <2>1. CASE IInv
    BY <1>1, <2>1, TypesKept, StagesKept, AccountsKept, LossesKept DEF IInv
  <2>2. CASE Slain
    <3>1. UNCHANGED vars
      BY <1>1, <2>2, SlainRests
    <3>2. QED
      BY <2>2, <3>1
         DEF Slain, TypeOK, vars, serveVars, daemonVars, managerVars, history
  <2>3. QED
    BY <2>1, <2>2
<1>2. CASE Kill
  <2>1. TypeOK /\ (result = "ok" => sup = "returned")
    BY DEF IInv, Accounts, Slain
  <2>2. QED
    <3>1. /\ sup # "returned" /\ sup' = "returned" /\ woken' = "none"
          /\ channel' = FALSE /\ daemon' = "none" /\ manager' = "none"
          /\ UNCHANGED <<failed, result, status, asked, killed, managerErr,
                         cancelled, signalled, history>>
      BY <1>2, Zenon DEF Kill
    <3>2. UNCHANGED <<failed, result, status, asked, killed, managerErr,
                      cancelled, signalled, fault, lost, stuck>>
      BY <3>1 DEF history
    <3>3. TypeOK'
      BY <2>1, <3>1, <3>2, Zenon DEF TypeOK
    <3>4. Slain'
      BY <2>1, <3>1, <3>3 DEF Slain
    <3>5. QED
      BY <3>4
<1>3. CASE Restart
  <2>1. IInv'
    BY <1>3
       DEF Restart, IInv, TypeOK, Stages, Accounts, Losses, Early, Over,
           DockerdGone
  <2>2. QED
    BY <2>1
<1>4. CASE UNCHANGED lifeVars
  BY <1>1, <1>4 DEF lifeVars
<1>5. QED
  BY <1>1, <1>2, <1>3, <1>4, LifeImplementsServe

-----------------------------------------------------------------------------
(* What is kept, after the bootstrap of a run.                             *)

\* The manager runs only where Serve waits for it.
LEMMA ManagerRuns ==
  ASSUME IInv \/ Slain, Reached, manager \in {"starting", "serving", "stopping"}
  PROVE  sup \in {"select", "parked", "drain"} /\ step = "channel"
<1>1. sup \in {"select", "parked", "drain"}
  BY DEF IInv, TypeOK, Stages, Slain, Early, Over
<1>2. QED
  BY <1>1 DEF Reached, Over

\* A step that leaves the account, its files and bootstrap alone.
Calm ==
  /\ UNCHANGED <<groups, users, home, bashrc, sudoers, step, masks>>
  /\ trouble' \in 0..MaxTrouble /\ stale' \subseteq {"dockerd", "session"}
  /\ \/ served' = served
     \/ served' = TRUE /\ manager = "starting"

LEMMA CalmKeeps ==
  ASSUME LifeInv, Calm, Fresh' => Fresh
  PROVE  LifeTypes' /\ Prepared' /\ Lasting' /\ Spared
<1>1. LifeTypes'
  BY DEF LifeInv, Calm, LifeTypes, Wellformed
<1>2. Prepared'
  BY DEF LifeInv, Calm, Prepared, Settled, Complete, Leads
<1>3. ASSUME served' PROVE Settled(groups) /\ Settled(users)
  <2>1. CASE served
    BY <2>1 DEF LifeInv, Lasting
  <2>2. CASE manager = "starting"
    <3>1. step = "channel"
      BY <2>2, ManagerRuns DEF LifeInv
    <3>2. QED
      BY <3>1 DEF LifeInv, Prepared
  <2>3. QED
    BY <1>3, <2>1, <2>2, Zenon DEF Calm
<1>4. Lasting'
  <2>1. UNCHANGED <<groups, users>>
    BY DEF Calm
  <2>2. QED
    BY <1>3, <2>1 DEF Lasting, Settled, Leads
<1>5. Spared
  BY DEF Calm, Spared
<1>6. QED
  BY <1>1, <1>2, <1>4, <1>5

\* Every step of Serve, the manager and dockerd that is not bootstrap.
Beyond ==
  \/ ClearAndStart \/ StartAborted \/ DockerAnswers \/ InstallRule
  \/ FailStartup \/ Leave \/ OtherServeStep \/ Listen \/ ListenRefused
  \/ CloseSocket \/ Cancelled \/ OtherManagerStep \/ DockerdEnds \/ Reaped
  \/ Signalled

LEMMA BeyondIsCalm == LifeTypes /\ Beyond => Calm
<1> SUFFICES ASSUME LifeTypes, Beyond PROVE Calm
  OBVIOUS
<1> USE KeptAssumption DEF LifeTypes, Calm, kept, accounts, files, run
<1>1. CASE ClearAndStart
  BY <1>1 DEF ClearAndStart, StartDockerd
<1>2. CASE StartAborted
  <2>1. trouble' \in 0..MaxTrouble
    BY <1>2 DEF StartAborted, Trouble
  <2>2. /\ UNCHANGED <<accounts, files, served, run>>
        /\ stale' = stale \/ stale' = stale \ {"dockerd"}
    BY <1>2 DEF StartAborted
  <2>3. QED
    BY <2>1, <2>2
<1>3. CASE DockerAnswers
  BY <1>3 DEF DockerAnswers, DockerReady, Proceed
<1>4. CASE InstallRule
  BY <1>4 DEF InstallRule
<1>5. CASE FailStartup
  BY <1>5 DEF FailStartup, StartupFails, Fail, Trouble
<1>6. CASE Leave
  BY <1>6 DEF Leave, Return, Abandoned
<1>7. CASE OtherServeStep
  BY <1>7 DEF OtherServeStep
<1>8. CASE Listen
  BY <1>8 DEF Listen, ManagerListens
<1>9. CASE ListenRefused
  BY <1>9 DEF ListenRefused, ManagerListenFails, Trouble
<1>10. CASE CloseSocket
  BY <1>10 DEF CloseSocket, ManagerReturns
<1>11. CASE Cancelled
  BY <1>11 DEF Cancelled
<1>12. CASE OtherManagerStep
  BY <1>12 DEF OtherManagerStep
<1>13. CASE DockerdEnds
  BY <1>13 DEF DockerdEnds, Trouble
<1>14. CASE Reaped
  BY <1>14 DEF Reaped
<1>15. CASE Signalled
  BY <1>15 DEF Signalled, SignalServe, Trouble
<1>16. QED
  BY <1>1, <1>2, <1>3, <1>4, <1>5, <1>6, <1>7, <1>8,
     <1>9, <1>10, <1>11, <1>12, <1>13, <1>14, <1>15 DEF Beyond

-----------------------------------------------------------------------------
(* Bootstrap.                                                              *)

LEMMA HostAccounts ==
  /\ HostEntry \in Account /\ HostEntry.id = HostID /\ HostEntry.name = Host
  /\ HostGroup \in Account /\ HostGroup.id = HostID /\ HostGroup.name = Host
<1>1. Host \in Names /\ "none" \in Names
  BY DatabasesAssumption DEF Host
<1>2. HostEntry \in Account /\ HostEntry.id = HostID /\ HostEntry.name = Host
  BY <1>1 DEF HostEntry, Entry, Account, HostID
<1>3. HostGroup \in Account /\ HostGroup.id = HostID /\ HostGroup.name = Host
  BY <1>1 DEF HostGroup, Entry, Account, HostID
<1>4. QED
  BY <1>2, <1>3

\* Without a conflict the database ends with the host's id first under the
\* host's name, and one that is like that stays as it is.
LEMMA Added ==
  ASSUME NEW database, Wellformed(database), ~Conflict(database),
         ByID(database) = NoEntry, NEW entry \in Account,
         entry.id = HostID, entry.name = Host
  PROVE  /\ Wellformed(Append(database, entry))
         /\ Settled(Append(database, entry))
         /\ entry = HostEntry => Complete(Append(database, entry))
         /\ ~Settled(database)
<1> DEFINE longer == Append(database, entry)
<1>1. WithID(database) = {}
  BY SomeEntryLeads
<1>2. /\ Wellformed(longer) /\ Leads(longer, Len(database) + 1)
      /\ longer[Len(database) + 1] = entry
  BY <1>1, AddedEntry
<1>3. ~Settled(database)
  BY SettledIsFound
<1> HIDE DEF longer
<1>4. Settled(longer) /\ (entry = HostEntry => Complete(longer))
  BY <1>2 DEF Settled, Complete, Leads
<1>5. QED
  BY <1>2, <1>3, <1>4 DEF longer

LEMMA Adopted ==
  ASSUME NEW database, Wellformed(database), ~Conflict(database),
         ByID(database) # NoEntry
  PROVE  /\ Wellformed(Renamed(database)) /\ Settled(Renamed(database))
         /\ Settled(database) => Renamed(database) = database
<1>1. PICK i : Leads(database, i)
  BY SomeEntryLeads
<1>2. QED
  BY <1>1, RenamedSettles, SettledIsKept

LEMMA GroupReconciled ==
  ASSUME LifeInv, ReconcileGroup
  PROVE  /\ LifeTypes' /\ Prepared' /\ Lasting'
         /\ served => Spared
<1>1. /\ step = "group" /\ step' = "user" /\ ~Conflict(groups)
      /\ UNCHANGED <<users, home, bashrc, sudoers, masks, stale, served, trouble>>
  BY DEF ReconcileGroup, Pass, files
<1>2. Wellformed(groups) /\ Wellformed(users)
  BY DEF LifeInv, LifeTypes
<1>3. Wellformed(groups') /\ Settled(groups') /\ (Settled(groups) => groups' = groups)
  <2>1. CASE ByID(groups) = NoEntry
    <3>1. groups' = Append(groups, HostGroup)
      BY <2>1 DEF ReconcileGroup
    <3>2. QED
      BY <1>1, <1>2, <2>1, <3>1, Added, HostAccounts
  <2>2. CASE ByID(groups) # NoEntry
    <3>1. groups' = Renamed(groups)
      BY <2>2 DEF ReconcileGroup
    <3>2. QED
      BY <1>1, <1>2, <2>2, <3>1, Adopted
  <2>3. QED
    BY <2>1, <2>2
<1>4. LifeTypes'
  BY <1>1, <1>2, <1>3 DEF LifeInv, LifeTypes
<1>5. masks = Tmpfs
  BY <1>1 DEF LifeInv, Prepared
<1>6. Prepared'
  BY <1>1, <1>3, <1>5 DEF Prepared
<1>7. served => groups' = groups
  BY <1>3 DEF LifeInv, Lasting
<1>8. Lasting'
  <2>1. ASSUME served' PROVE served /\ Lasting
    BY <1>1, <2>1 DEF LifeInv
  <2>2. QED
    BY <1>1, <1>7, <2>1 DEF Lasting
<1>9. served => Spared
  BY <1>1, <1>7 DEF Spared
<1>10. QED
  BY <1>4, <1>6, <1>8, <1>9

LEMMA UserReconciled ==
  ASSUME LifeInv, ReconcileUser
  PROVE  /\ LifeTypes' /\ Prepared' /\ Lasting'
         /\ served => Spared
<1>1. /\ step = "user" /\ ~Conflict(users)
      /\ UNCHANGED <<groups, home, bashrc, sudoers, masks, stale, served, trouble>>
  BY DEF ReconcileUser, Pass, files
<1>2. Wellformed(groups) /\ Wellformed(users) /\ Settled(groups) /\ masks = Tmpfs
  BY <1>1 DEF LifeInv, LifeTypes, Prepared
<1>3. /\ Wellformed(users') /\ (Settled(users) => users' = users)
      /\ Settled(users')
      /\ \/ step' = "mkdir" /\ Complete(users')
         \/ step' = "update" /\ Settled(users')
  <2>1. CASE ByID(users) = NoEntry
    <3>1. users' = Append(users, HostEntry) /\ step' = "mkdir"
      BY <2>1 DEF ReconcileUser, Pass
    <3>2. QED
      BY <1>1, <1>2, <2>1, <3>1, Added, HostAccounts
  <2>2. CASE ByID(users) # NoEntry
    <3>1. users' = Renamed(users) /\ step' = "update"
      BY <2>2 DEF ReconcileUser, Pass
    <3>2. QED
      BY <1>1, <1>2, <2>2, <3>1, Adopted
  <2>3. QED
    BY <2>1, <2>2
<1>4. LifeTypes'
  BY <1>1, <1>2, <1>3 DEF LifeInv, LifeTypes
<1>5. Prepared'
  BY <1>1, <1>2, <1>3 DEF Prepared
<1>6. served => users' = users
  BY <1>3 DEF LifeInv, Lasting
<1>7. Lasting'
  <2>1. ASSUME served' PROVE served /\ Lasting
    BY <1>1, <2>1 DEF LifeInv
  <2>2. QED
    BY <1>1, <1>6, <2>1 DEF Lasting
<1>8. served => Spared
  BY <1>1, <1>6 DEF Spared
<1>9. QED
  BY <1>4, <1>5, <1>7, <1>8

LEMMA UserUpdated ==
  ASSUME LifeInv, UpdateUser
  PROVE  /\ LifeTypes' /\ Prepared' /\ Lasting'
         /\ served => Spared
<1>1. /\ step = "update" /\ step' = "mkdir" /\ users' = Updated(users)
      /\ UNCHANGED <<groups, home, bashrc, sudoers, masks, stale, served, trouble>>
  BY DEF UpdateUser, Pass, files
<1>2. /\ Wellformed(groups) /\ Wellformed(users) /\ Settled(groups)
      /\ Settled(users) /\ masks = Tmpfs
  BY <1>1 DEF LifeInv, LifeTypes, Prepared
<1>3. /\ Wellformed(users') /\ Complete(users') /\ Settled(users')
  BY <1>1, <1>2, UpdatedCompletes, CompleteIsSettled
<1>4. LifeTypes'
  BY <1>1, <1>2, <1>3 DEF LifeInv, LifeTypes
<1>5. Prepared'
  BY <1>1, <1>2, <1>3 DEF Prepared
<1>6. Lasting'
  <2>1. ASSUME served' PROVE served /\ Lasting
    BY <1>1, <2>1 DEF LifeInv
  <2>2. QED
    BY <1>1, <1>3, <2>1 DEF Lasting
<1>7. /\ DOMAIN users' = DOMAIN users
      /\ \A i \in DOMAIN users :
           users[i].name # Host \/ users[i] = HostEntry => users'[i] = users[i]
  BY <1>1, <1>2, UpdatedSpares
<1>8. Spared
  BY <1>1, <1>7 DEF Spared
<1>9. QED
  BY <1>4, <1>5, <1>6, <1>8

LEMMA MasksMounted ==
  ASSUME LifeInv, MountTmpfs
  PROVE  /\ LifeTypes' /\ Prepared' /\ Lasting'
         /\ served => Spared
<1>1. /\ step = "tmpfs"
      /\ UNCHANGED <<groups, users, home, bashrc, sudoers, stale, served, trouble>>
      /\ \/ masks < Tmpfs /\ step' = "tmpfs" /\ masks' = masks + 1
         \/ ~(masks < Tmpfs) /\ step' = "group" /\ masks' = masks
  BY DEF MountTmpfs, Pass, accounts, files
<1>2. masks \in 0..Tmpfs /\ Wellformed(groups) /\ Wellformed(users)
  BY DEF LifeInv, LifeTypes
<1>3. masks' \in 0..Tmpfs /\ (step' = "group" => masks' = Tmpfs)
  BY <1>1, <1>2, KeptAssumption
<1>4. LifeTypes'
  BY <1>1, <1>2, <1>3 DEF LifeInv, LifeTypes
<1>5. Prepared'
  BY <1>1, <1>3 DEF Prepared
<1>6. Lasting'
  <2>1. ASSUME served' PROVE served /\ Lasting
    BY <1>1, <2>1 DEF LifeInv
  <2>2. QED
    BY <1>1, <2>1 DEF Lasting
<1>7. Spared
  BY <1>1 DEF Spared
<1>8. QED
  BY <1>4, <1>5, <1>6, <1>7

\* The steps between the account and the channel write files only.
LEMMA FilesInstalled ==
  ASSUME LifeInv,
         \/ MakeHome \/ OwnHome \/ SeedBashRC \/ InstallBashRC \/ InstallSudoers
  PROVE  /\ LifeTypes' /\ Prepared' /\ Lasting'
         /\ served => Spared
<1>1. /\ Complete(users) /\ Settled(users) /\ Settled(groups) /\ masks = Tmpfs
      /\ step \in {"mkdir", "chown", "bashrc", "rename", "sudoers"}
      /\ UNCHANGED <<groups, users, masks, stale, served, trouble>>
  BY DEF LifeInv, Prepared, MakeHome, OwnHome, SeedBashRC, InstallBashRC,
     InstallSudoers, Pass, accounts, files
<1>2. /\ home' \in {"none", "other", "user"}
      /\ bashrc' \in {"none", "image", "user"}
      /\ sudoers' \in BOOLEAN
      /\ step' \in {"chown", "bashrc", "rename", "sudoers", "channel"}
      /\ step' # "chown" => home' = "user"
      /\ step' = "rename" => bashrc' = "none"
      /\ step' \in {"sudoers", "channel"} => bashrc' # "none"
      /\ step' = "channel" => sudoers'
      /\ bashrc # "none" => bashrc' = bashrc
      /\ home = "user" => home' = home
      /\ home = "other" => home' # "none"
      /\ sudoers => sudoers'
  <2> USE DEF LifeInv, LifeTypes, Prepared, Pass, files
  <2>1. CASE MakeHome
    BY <2>1 DEF MakeHome
  <2>2. CASE OwnHome
    BY <2>2 DEF OwnHome
  <2>3. CASE SeedBashRC
    BY <2>3 DEF SeedBashRC
  <2>4. CASE InstallBashRC
    BY <2>4 DEF InstallBashRC
  <2>5. CASE InstallSudoers
    BY <2>5 DEF InstallSudoers
  <2>6. QED
    BY <2>1, <2>2, <2>3, <2>4, <2>5
<1>3. LifeTypes'
  BY <1>1, <1>2 DEF LifeInv, LifeTypes
<1>4. Prepared'
  BY <1>1, <1>2 DEF Prepared
<1>5. Lasting'
  BY <1>1 DEF Lasting
<1>6. sudoers => sudoers' = sudoers
  BY <1>2, Zenon DEF LifeInv, LifeTypes
<1>7. Spared
  BY <1>1, <1>2, <1>6 DEF Spared
<1>8. QED
  BY <1>3, <1>4, <1>5, <1>7

LEMMA BootstrapKeeps ==
  ASSUME LifeInv, BootstrapStep
  PROVE  /\ LifeTypes' /\ Prepared' /\ Lasting'
         /\ served => Spared
<1>1. CASE OpenChannel \/ CutShort
  <2>1. UNCHANGED <<kept, run>>
    BY <1>1 DEF OpenChannel, CutShort
  <2>2. trouble' \in 0..MaxTrouble
    BY <1>1, KeptAssumption
       DEF OpenChannel, CutShort, Trouble, LifeInv, LifeTypes
  <2>3. Calm
    BY <2>1, <2>2 DEF Calm, kept, accounts, files, run, LifeInv, LifeTypes
  <2>4. Fresh
    BY <1>1 DEF OpenChannel, CutShort, Bootstrap, BootstrapFails, Fresh
  <2>5. QED
    BY <2>3, <2>4, CalmKeeps
<1>2. CASE MountTmpfs
  BY <1>2, MasksMounted
<1>3. CASE ReconcileGroup
  BY <1>3, GroupReconciled
<1>4. CASE ReconcileUser
  BY <1>4, UserReconciled
<1>5. CASE UpdateUser
  BY <1>5, UserUpdated
<1>6. CASE \/ MakeHome \/ OwnHome \/ SeedBashRC \/ InstallBashRC
           \/ InstallSudoers
  BY <1>6, FilesInstalled
<1>7. QED
  BY <1>1, <1>2, <1>3, <1>4, <1>5, <1>6 DEF BootstrapStep

-----------------------------------------------------------------------------
(* The end of a run, the next one, and the commands of the session.        *)

LEMMA RunEnds ==
  ASSUME LifeInv, Kill \/ Restart
  PROVE  LifeTypes' /\ Prepared' /\ Lasting' /\ Spared
<1>1. CASE Kill
  <2>1. UNCHANGED <<accounts, files, served, run>>
    BY <1>1 DEF Kill
  <2>2. trouble' \in 0..MaxTrouble
    BY <1>1, KeptAssumption DEF Kill, Trouble, LifeInv, LifeTypes
  <2>3. stale' \subseteq {"dockerd", "session"}
    <3>1. PICK socket \in CASE manager = "serving"  -> {{"session"}}
                            [] manager = "stopping" -> {{"session"}, {}}
                            [] OTHER                -> {{}} :
                 stale' = stale \cup Abandoned \cup socket
      BY <1>1 DEF Kill
    <3>2. socket \subseteq {"session"}
      BY <3>1
    <3>3. QED
      BY <3>1, <3>2 DEF Abandoned, LifeInv, LifeTypes
  <2>4. Calm
    BY <2>1, <2>2, <2>3 DEF Calm, accounts, files, run
  <2>5. ~Fresh'
    BY <1>1 DEF Kill, Fresh
  <2>6. QED
    BY <2>4, <2>5, CalmKeeps
<1>2. CASE Restart
  <2>1. /\ step' = "tmpfs" /\ masks' = 0
        /\ UNCHANGED <<groups, users, home, bashrc, sudoers, stale, served,
                       trouble>>
    BY <1>2 DEF Restart, kept, accounts, files
  <2>2. LifeTypes'
    BY <2>1, KeptAssumption DEF LifeInv, LifeTypes
  <2>3. Prepared'
    BY <2>1 DEF Prepared
  <2>4. Lasting'
    <3>1. ASSUME served' PROVE served /\ Lasting
      BY <2>1, <3>1 DEF LifeInv
    <3>2. QED
      BY <2>1, <3>1 DEF Lasting
  <2>5. Spared
    BY <2>1 DEF Spared
  <2>6. QED
    BY <2>2, <2>3, <2>4, <2>5
<1>3. QED
  BY <1>1, <1>2

\* Another group and home for the host's account.
LEMMA MovedSettles ==
  ASSUME NEW database, Wellformed(database), Settled(database),
         NEW moved,
         moved = [i \in DOMAIN database |->
                    IF database[i].name = Host
                      THEN Entry(database[i].name, database[i].id, 0, "elsewhere")
                      ELSE database[i]]
  PROVE  Wellformed(moved) /\ Settled(moved)
<1>1. PICK i \in DOMAIN database : Leads(database, i) /\ database[i].name = Host
  BY DEF Settled
<1> DEFINE entry == Entry(Host, HostID, 0, "elsewhere")
           changed == [database EXCEPT ![i] = entry]
<1>2. entry \in Account /\ entry.id = HostID /\ entry.name = Host
  <2>1. Host \in Names /\ "elsewhere" \in Names
    BY DatabasesAssumption DEF Host
  <2>2. QED
    BY <2>1 DEF Entry, Account, HostID
<1>3. \A j \in DOMAIN database : database[j].name = Host <=> j = i
  BY <1>1 DEF Wellformed
<1>4. moved = changed
  <2>1. database = [j \in DOMAIN database |-> database[j]]
    BY DEF Wellformed
  <2>2. database[i].id = HostID
    BY <1>1 DEF Leads
  <2>3. ASSUME NEW j \in DOMAIN database
        PROVE  (IF database[j].name = Host
                  THEN Entry(database[j].name, database[j].id, 0, "elsewhere")
                  ELSE database[j]) =
               (IF j = i THEN entry ELSE database[j])
    BY <1>3, <2>2, <2>3
  <2>4. QED
    BY <2>1, <2>3
<1>5. DOMAIN changed = DOMAIN database /\ changed[i] = entry
  OBVIOUS
<1> HIDE DEF entry
<1>6. Wellformed(changed) /\ Leads(changed, i)
  BY <1>1, <1>2, <1>3, ChangedEntry DEF Leads
<1> HIDE DEF changed
<1>7. QED
  BY <1>2, <1>4, <1>5, <1>6 DEF Settled

LEMMA CommandsKeep ==
  ASSUME LifeInv, Command
  PROVE  LifeTypes' /\ Prepared' /\ Lasting'
<1>1. /\ manager = "serving"
      /\ UNCHANGED <<vars, groups, stale, served, step, masks, trouble>>
  BY DEF Command, EditBashRC, ChangeHome, ChangeAccount, DropSudoers, AddAccount,
     accounts, files, run
<1>2. step = "channel" /\ sup \in {"select", "parked", "drain"}
  BY <1>1, ManagerRuns DEF LifeInv
<1>3. /\ Settled(groups) /\ Settled(users) /\ Wellformed(groups)
      /\ Wellformed(users) /\ masks = Tmpfs
  BY <1>2 DEF LifeInv, LifeTypes, Prepared
<1>4. Wellformed(users') /\ Settled(users')
  <2>1. CASE EditBashRC \/ ChangeHome \/ DropSudoers
    BY <1>3, <2>1 DEF EditBashRC, ChangeHome, DropSudoers, accounts
  <2>2. CASE ChangeAccount
    <3>1. users' = [i \in DOMAIN users |->
                      IF users[i].name = Host
                        THEN Entry(users[i].name, users[i].id, 0, "elsewhere")
                        ELSE users[i]]
      BY <2>2 DEF ChangeAccount, Changed
    <3>2. QED
      BY <1>3, <3>1, MovedSettles
  <2>3. CASE AddAccount
    <3> DEFINE service == Entry("service", 101, 101, "service")
    <3>1. /\ \A i \in DOMAIN users : users[i].name # service.name
          /\ users' = Append(users, service)
      BY <2>3 DEF AddAccount
    <3>2. service \in Account /\ service.id # HostID
      BY DatabasesAssumption DEF Entry, Account, HostID
    <3> HIDE DEF service
    <3>3. QED
      BY <1>3, <3>1, <3>2, OtherEntry
  <2>4. QED
    BY <2>1, <2>2, <2>3 DEF Command
<1>5. /\ home' \in {"none", "other", "user"}
      /\ bashrc' \in {"none", "image", "user"} /\ sudoers' \in BOOLEAN
  <2> USE DEF LifeInv, LifeTypes, accounts, files
  <2>1. CASE EditBashRC \/ ChangeHome
    BY <2>1 DEF EditBashRC, ChangeHome
  <2>2. CASE ChangeAccount \/ AddAccount
    BY <2>2 DEF ChangeAccount, AddAccount
  <2>3. CASE DropSudoers
    BY <2>3 DEF DropSudoers
  <2>4. QED
    BY <2>1, <2>2, <2>3 DEF Command
<1>6. LifeTypes'
  BY <1>1, <1>3, <1>4, <1>5 DEF LifeInv, LifeTypes
<1>7. ~Fresh'
  BY <1>1, <1>2 DEF Fresh, vars, serveVars, managerVars
<1>8. Prepared'
  BY <1>1, <1>2, <1>3, <1>4, <1>7 DEF Prepared
<1>9. Lasting'
  BY <1>1, <1>3, <1>4 DEF Lasting
<1>10. QED
  BY <1>6, <1>8, <1>9

-----------------------------------------------------------------------------
(* The place of Serve, the last step of bootstrap, and the rules.          *)

LEMMA OneMore ==
  ASSUME NEW S, NEW s \in Seq(S), NEW t \in Seq(S), Len(t) = Len(s) + 1,
         \A i \in 1 .. Len(s) : s[i] = t[i]
  PROVE  Append(s, t[Len(t)]) = t
<1> DEFINE longer == Append(s, t[Len(t)])
<1>1. Len(s) \in Nat
  BY LenProperties
<1>2. t[Len(t)] \in S
  BY <1>1, ElementOfSeq
<1>3. /\ longer \in Seq(S) /\ Len(longer) = Len(t)
      /\ \A i \in 1 .. Len(s) : longer[i] = s[i]
      /\ longer[Len(t)] = t[Len(t)]
  BY <1>2, AppendProperties
<1> HIDE DEF longer
<1>4. \A i \in 1 .. Len(longer) : longer[i] = t[i]
  BY <1>1, <1>3
<1>5. QED
  BY <1>3, <1>4, SeqEqual DEF longer

\* The three rules, each appended to the ones before it.
LEMMA RulesGrow ==
  /\ Append(<<"docker">>, "guard") = <<"docker", "guard">>
  /\ Append(<<"docker", "guard">>, "source") = <<"docker", "guard", "source">>
  /\ Append(<<"docker", "guard", "source">>, "destination") = AllRules
<1> DEFINE S == {"docker", "guard", "source", "destination"}
<1>1. Append(<<"docker">>, "guard") = <<"docker", "guard">>
  <2> DEFINE s == <<"docker">>
             t == <<"docker", "guard">>
  <2>1. s \in Seq(S) /\ t \in Seq(S) /\ Len(s) = 1 /\ Len(t) = 2
    OBVIOUS
  <2>2. t[1] = "docker" /\ t[2] = "guard" /\ s[1] = "docker"
    OBVIOUS
  <2> HIDE DEF s, t, S
  <2>3. Len(t) = Len(s) + 1 /\ \A i \in 1 .. Len(s) : s[i] = t[i]
    BY <2>1, <2>2
  <2>4. Append(s, t[Len(t)]) = t
    BY <2>1, <2>3, OneMore
  <2>5. QED
    BY <2>1, <2>2, <2>4, Zenon DEF s, t
<1>2. Append(<<"docker", "guard">>, "source") = <<"docker", "guard", "source">>
  <2> DEFINE s == <<"docker", "guard">>
             t == <<"docker", "guard", "source">>
  <2>1. s \in Seq(S) /\ t \in Seq(S) /\ Len(s) = 2 /\ Len(t) = 3
    OBVIOUS
  <2>2. /\ t[1] = "docker" /\ t[2] = "guard" /\ t[3] = "source"
        /\ s[1] = "docker" /\ s[2] = "guard"
    OBVIOUS
  <2> HIDE DEF s, t, S
  <2>3. Len(t) = Len(s) + 1 /\ \A i \in 1 .. Len(s) : s[i] = t[i]
    BY <2>1, <2>2
  <2>4. Append(s, t[Len(t)]) = t
    BY <2>1, <2>3, OneMore
  <2>5. QED
    BY <2>1, <2>2, <2>4, Zenon DEF s, t
<1>3. Append(<<"docker", "guard", "source">>, "destination") = AllRules
  <2> DEFINE s == <<"docker", "guard", "source">>
             t == AllRules
  <2>1. s \in Seq(S) /\ t \in Seq(S) /\ Len(s) = 3 /\ Len(t) = 4
    BY DEF AllRules
  <2>2. /\ t[1] = "docker" /\ t[2] = "guard" /\ t[3] = "source"
        /\ t[4] = "destination"
        /\ s[1] = "docker" /\ s[2] = "guard" /\ s[3] = "source"
    BY DEF AllRules
  <2> HIDE DEF s, t, S
  <2>3. Len(t) = Len(s) + 1 /\ \A i \in 1 .. Len(s) : s[i] = t[i]
    BY <2>1, <2>2
  <2>4. Append(s, t[Len(t)]) = t
    BY <2>1, <2>3, OneMore
  <2>5. QED
    BY <2>1, <2>2, <2>4, Zenon DEF s, t
<1>4. QED
  BY <1>1, <1>2, <1>3

LEMMA BootstrapStays ==
  ASSUME LifeInv, BootstrapStep
  PROVE  Reached' /\ Guarded' /\ Cleared'
<1>1. CASE OpenChannel
  BY <1>1
     DEF OpenChannel, Bootstrap, kept, run, daemonVars, LifeInv, Reached, Guarded,
         Cleared
<1>2. CASE CutShort
  BY <1>2
     DEF CutShort, BootstrapFails, Fail, kept, run, daemonVars, LifeInv, Reached,
         Guarded, Cleared, Over
<1>3. CASE \/ MountTmpfs \/ ReconcileGroup \/ ReconcileUser \/ UpdateUser
           \/ MakeHome \/ OwnHome \/ SeedBashRC \/ InstallBashRC
           \/ InstallSudoers
  <2>1. /\ sup = "bootstrap" /\ sup' = "bootstrap" /\ rules' = rules
        /\ daemon' = daemon /\ stale' = stale
    BY <1>3
       DEF MountTmpfs, ReconcileGroup, ReconcileUser, UpdateUser, MakeHome,
           OwnHome, SeedBashRC, InstallBashRC, InstallSudoers, Pass, vars,
           serveVars, daemonVars
  <2>2. QED
    BY <2>1 DEF LifeInv, Reached, Guarded, Cleared
<1>4. QED
  BY <1>1, <1>2, <1>3 DEF BootstrapStep

LEMMA BeyondStays == LifeInv /\ Beyond => Reached' /\ Guarded'
<1> SUFFICES ASSUME LifeInv, Beyond PROVE Reached' /\ Guarded'
  OBVIOUS
<1> USE DEF LifeInv, Reached, Guarded, Over, AllRules, run, serveVars
<1>1. CASE ClearAndStart
  BY <1>1 DEF ClearAndStart, StartDockerd
<1>2. CASE StartAborted
  BY <1>2 DEF StartAborted, StartDockerdFails, CloseLogFails, Fail
<1>3. CASE DockerAnswers
  BY <1>3 DEF DockerAnswers, DockerReady, Proceed
<1>4. CASE InstallRule
  <2>1. /\ sup = "access" /\ step' = step
        /\ rules' = Append(rules, ServiceRules[Len(rules)])
        /\ IF Len(rules) = 3 THEN sup' = "create" ELSE sup' = sup
    BY <1>4 DEF InstallRule, ServiceAccess, Proceed, vars, ServiceRules
  <2>2. \/ rules = <<"docker">> /\ rules' = <<"docker", "guard">>
        \/ rules = <<"docker", "guard">> /\ rules' = <<"docker", "guard", "source">>
        \/ rules = <<"docker", "guard", "source">> /\ rules' = AllRules
    <3>1. CASE rules = <<"docker">>
      <4>1. ServiceRules[Len(rules)] = "guard"
        BY <3>1 DEF ServiceRules
      <4>2. QED
        BY <2>1, <3>1, <4>1, RulesGrow, Zenon
    <3>2. CASE rules = <<"docker", "guard">>
      <4>1. ServiceRules[Len(rules)] = "source"
        BY <3>2 DEF ServiceRules
      <4>2. QED
        BY <2>1, <3>2, <4>1, RulesGrow, Zenon
    <3>3. CASE rules = <<"docker", "guard", "source">>
      <4>1. ServiceRules[Len(rules)] = "destination"
        BY <3>3 DEF ServiceRules
      <4>2. QED
        BY <2>1, <3>3, <4>1, RulesGrow, Zenon
    <3>4. QED
      BY <2>1, <3>1, <3>2, <3>3
  <2>3. Len(rules) = 3 <=> rules = <<"docker", "guard", "source">>
    <3>1. rules \in {<<"docker">>, <<"docker", "guard">>,
                    <<"docker", "guard", "source">>}
      BY <2>2
    <3>2. /\ Len(<<"docker">>) = 1 /\ Len(<<"docker", "guard">>) = 2
          /\ Len(<<"docker", "guard", "source">>) = 3
      OBVIOUS
    <3>3. CASE rules = <<"docker", "guard", "source">>
      BY <3>2, <3>3
    <3>4. CASE rules \in {<<"docker">>, <<"docker", "guard">>}
      <4>1. Len(rules) # 3
        BY <3>2, <3>4
      <4>2. QED
        BY <3>2, <4>1
    <3>5. QED
      BY <3>1, <3>3, <3>4
  <2>4. Reached'
    BY <2>1
  <2>5. /\ AllRules \notin {<<>>, <<"docker">>, <<"docker", "guard">>,
                          <<"docker", "guard", "source">>}
        /\ <<"docker", "guard">> # <<>> /\ <<"docker", "guard", "source">> # <<>>
        /\ <<"docker", "guard", "source">> \notin
             {<<"docker">>, <<"docker", "guard">>}
    OBVIOUS
  <2>6. \/ /\ sup' = "access" /\ rules' # AllRules
           /\ rules' \in {<<"docker", "guard">>, <<"docker", "guard", "source">>}
        \/ sup' = "create" /\ rules' = AllRules
    BY <2>1, <2>2, <2>3, <2>5, Zenon
  <2>7. Guarded'
    BY <2>5, <2>6
  <2>8. QED
    BY <2>4, <2>7
<1>5. CASE FailStartup
  BY <1>5 DEF FailStartup, StartupFails, Fail
<1>6. CASE Leave
  BY <1>6 DEF Leave, Return
<1>7. CASE OtherServeStep
  <2> USE DEF OtherServeStep
  <2>1. CASE WaitAborted
    BY <1>7, <2>1 DEF WaitAborted
  <2>2. CASE OwnSocket
    BY <1>7, <2>2 DEF OwnSocket, Proceed
  <2>3. CASE CreateManager
    BY <1>7, <2>3 DEF CreateManager
  <2>4. CASE EnterSelect
    BY <1>7, <2>4 DEF EnterSelect
  <2>5. CASE ManagerEnded
    BY <1>7, <2>5 DEF ManagerEnded, Conclude
  <2>6. CASE DockerdEnded
    BY <1>7, <2>6 DEF DockerdEnded
  <2>7. CASE ContextDone
    BY <1>7, <2>7 DEF ContextDone
  <2>8. CASE ManagerDrained
    BY <1>7, <2>8 DEF ManagerDrained, Conclude
  <2>9. CASE StopReaped
    BY <1>7, <2>9 DEF StopReaped, Conclude
  <2>10. CASE SignalTerm
    BY <1>7, <2>10 DEF SignalTerm
  <2>11. CASE SignalRefused
    BY <1>7, <2>11 DEF SignalRefused
  <2>12. CASE ShutdownTimesOut
    BY <1>7, <2>12 DEF ShutdownTimesOut
  <2>13. CASE ReapKilled
    BY <1>7, <2>13 DEF ReapKilled, Conclude
  <2>14. QED
    BY <1>7, <2>1, <2>2, <2>3, <2>4, <2>5, <2>6,
       <2>7, <2>8, <2>9, <2>10, <2>11, <2>12, <2>13 DEF Rest
<1>8. CASE Listen
  BY <1>8 DEF Listen, ManagerListens
<1>9. CASE ListenRefused
  BY <1>9 DEF ListenRefused, ManagerListenFails, ManagerEnds
<1>10. CASE CloseSocket
  BY <1>10 DEF CloseSocket, ManagerReturns, ManagerEnds
<1>11. CASE Cancelled
  BY <1>11 DEF Cancelled, ManagerCancelled, ManagerStops
<1>12. CASE OtherManagerStep
  BY <1>12 DEF OtherManagerStep, ManagerIdle, ManagerFails, ManagerStops
<1>13. CASE DockerdEnds
  BY <1>13 DEF DockerdEnds, DockerdExits
<1>14. CASE Reaped
  BY <1>14 DEF Reaped, DockerdReaped
<1>15. CASE Signalled
  BY <1>15 DEF Signalled, SignalServe
<1>16. QED
  BY <1>1, <1>2, <1>3, <1>4, <1>5, <1>6, <1>7, <1>8,
     <1>9, <1>10, <1>11, <1>12, <1>13, <1>14, <1>15 DEF Beyond

\* Serve has one way from bootstrap to the manager, and clears the way for
\* dockerd on it.
LEMMA BeyondMoves ==
  ASSUME LifeInv, Beyond
  PROVE  (Fresh' => Fresh) /\ Cleared'
<1> USE DEF LifeInv, Cleared, Fresh, Over, kept, run, vars, serveVars, daemonVars,
        managerVars
<1>1. CASE ClearAndStart
  BY <1>1 DEF ClearAndStart, StartDockerd
<1>2. CASE StartAborted
  BY <1>2 DEF StartAborted, StartDockerdFails, CloseLogFails, Fail
<1>3. CASE DockerAnswers
  BY <1>3 DEF DockerAnswers, DockerReady, Proceed
<1>4. CASE InstallRule
  BY <1>4 DEF InstallRule, ServiceAccess, Proceed
<1>5. CASE FailStartup
  BY <1>5 DEF FailStartup, StartupFails, Fail
<1>6. CASE Leave
  BY <1>6 DEF Leave, Return
<1>7. CASE OtherServeStep
  <2> USE DEF OtherServeStep
  <2>1. CASE WaitAborted \/ OwnSocket \/ CreateManager
    BY <1>7, <2>1 DEF WaitAborted, OwnSocket, Proceed, CreateManager
  <2>2. CASE EnterSelect \/ ManagerEnded \/ DockerdEnded
    BY <1>7, <2>2 DEF EnterSelect, ManagerEnded, DockerdEnded, Conclude
  <2>3. CASE ContextDone \/ ManagerDrained \/ StopReaped
    BY <1>7, <2>3 DEF ContextDone, ManagerDrained, StopReaped, Conclude
  <2>4. CASE SignalTerm \/ SignalRefused
    BY <1>7, <2>4 DEF SignalTerm, SignalRefused
  <2>5. CASE ShutdownTimesOut \/ ReapKilled
    BY <1>7, <2>5 DEF ShutdownTimesOut, ReapKilled, Conclude
  <2>6. QED
    BY <1>7, <2>1, <2>2, <2>3, <2>4, <2>5 DEF Rest
<1>8. CASE Listen
  BY <1>8 DEF Listen, ManagerListens
<1>9. CASE ListenRefused
  BY <1>9 DEF ListenRefused, ManagerListenFails, ManagerEnds
<1>10. CASE CloseSocket
  <2>1. ManagerReturns /\ stale' \subseteq stale \cup {"session"}
    BY <1>10 DEF CloseSocket
  <2>2. QED
    BY <2>1 DEF ManagerReturns, ManagerEnds
<1>11. CASE Cancelled
  BY <1>11 DEF Cancelled, ManagerCancelled, ManagerStops
<1>12. CASE OtherManagerStep
  BY <1>12 DEF OtherManagerStep, ManagerIdle, ManagerFails, ManagerStops
<1>13. CASE DockerdEnds
  BY <1>13 DEF DockerdEnds, DockerdExits
<1>14. CASE Reaped
  BY <1>14 DEF Reaped, DockerdReaped
<1>15. CASE Signalled
  BY <1>15 DEF Signalled, SignalServe
<1>16. QED
  BY <1>1, <1>2, <1>3, <1>4, <1>5, <1>6, <1>7, <1>8,
     <1>9, <1>10, <1>11, <1>12, <1>13, <1>14, <1>15 DEF Beyond

LEMMA OthersStay ==
  ASSUME LifeInv, Kill \/ Restart \/ Command \/ UNCHANGED lifeVars
  PROVE  Reached' /\ Guarded' /\ Cleared'
<1>1. CASE Kill
  BY <1>1 DEF Kill, LifeInv, Reached, Guarded, Cleared, Over, run
<1>2. CASE Restart
  BY <1>2 DEF Restart, LifeInv, Reached, Guarded, Cleared, Over
<1>3. CASE Command \/ UNCHANGED lifeVars
  <2>1. UNCHANGED <<vars, run, stale>>
    BY <1>3
       DEF Command, EditBashRC, ChangeHome, ChangeAccount, DropSudoers,
           AddAccount, lifeVars, kept
  <2>2. QED
    BY <2>1
       DEF LifeInv, Reached, Guarded, Cleared, run, vars, serveVars, daemonVars
<1>4. QED
  BY <1>1, <1>2, <1>3

-----------------------------------------------------------------------------

\* One step of the life of the container: the invariant is kept, and what
\* has served is only repaired behind the back of a session.
LEMMA OneStep ==
  ASSUME LifeInv, [LifeNext]_lifeVars
  PROVE  LifeInv' /\ (served /\ manager # "serving" => Spared)
<1>1. (IInv \/ Slain)'
  BY ServeKept DEF LifeInv
<1>2. CASE BootstrapStep
  <2>1. LifeTypes' /\ Prepared' /\ Lasting' /\ (served => Spared)
    BY <1>2, BootstrapKeeps
  <2>2. Reached' /\ Guarded' /\ Cleared'
    BY <1>2, BootstrapStays
  <2>3. QED
    BY <1>1, <2>1, <2>2 DEF LifeInv
<1>3. CASE Beyond
  <2>1. Calm /\ (Fresh' => Fresh) /\ Cleared'
    BY <1>3, BeyondIsCalm, BeyondMoves DEF LifeInv
  <2>2. LifeTypes' /\ Prepared' /\ Lasting' /\ Spared
    BY <2>1, CalmKeeps
  <2>3. Reached' /\ Guarded'
    BY <1>3, BeyondStays
  <2>4. QED
    BY <1>1, <2>1, <2>2, <2>3 DEF LifeInv
<1>4. CASE Kill \/ Restart
  <2>1. LifeTypes' /\ Prepared' /\ Lasting' /\ Spared
    BY <1>4, RunEnds
  <2>2. Reached' /\ Guarded' /\ Cleared'
    BY <1>4, OthersStay
  <2>3. QED
    BY <1>1, <2>1, <2>2 DEF LifeInv
<1>5. CASE Command
  <2>1. LifeTypes' /\ Prepared' /\ Lasting'
    BY <1>5, CommandsKeep
  <2>2. Reached' /\ Guarded' /\ Cleared'
    BY <1>5, OthersStay
  <2>3. manager = "serving"
    BY <1>5
       DEF Command, EditBashRC, ChangeHome, ChangeAccount, DropSudoers, AddAccount
  <2>4. QED
    BY <1>1, <2>1, <2>2, <2>3 DEF LifeInv
<1>6. CASE UNCHANGED lifeVars
  <2>1. Calm /\ (Fresh' => Fresh)
    BY <1>6
       DEF Calm, Fresh, lifeVars, vars, serveVars, managerVars, kept, accounts,
           files, run, LifeInv, LifeTypes
  <2>2. LifeTypes' /\ Prepared' /\ Lasting' /\ Spared
    BY <2>1, CalmKeeps
  <2>3. Reached' /\ Guarded' /\ Cleared'
    BY <1>6, OthersStay
  <2>4. QED
    BY <1>1, <2>2, <2>3 DEF LifeInv
<1>7. LifeNext => BootstrapStep \/ Beyond \/ Kill \/ Restart \/ Command
  BY DEF LifeNext, ServeGoesOn, Beyond
<1>8. QED
  BY <1>2, <1>3, <1>4, <1>5, <1>6, <1>7

LEMMA LifeInvariance == LifeSpec => []LifeInv
<1>1. LifeInv /\ [LifeNext]_lifeVars => LifeInv'
  BY OneStep
<1>2. QED
  BY LifeInitially, <1>1, PTL DEF LifeSpec

\* The type invariant of the life of a container; the databases never get two
\* entries of one name.
THEOREM LifeIsTyped == LifeSpec => []TypeInvariant
<1>1. LifeInv => TypeInvariant
  <2> SUFFICES ASSUME LifeInv PROVE TypeInvariant
    OBVIOUS
  <2>1. TypeOK
    BY DEF LifeInv, IInv, Slain
  <2>2. Len(rules) \in 0..4
    BY DEF LifeInv, Guarded, AllRules
  <2>3. QED
    BY <2>1, <2>2 DEF LifeInv, LifeTypes, TypeInvariant
<1>2. QED
  BY LifeInvariance, <1>1, PTL

\* Whatever accounts the image came with, however often bootstrap was cut off
\* and whatever commands have changed, a session that begins to serve is
\* complete, and its masks, rules and Docker are in order while it serves.
THEOREM ServiceIsComplete == LifeSpec => []ServingIsComplete
<1>1. LifeInv => ServingIsComplete
  <2> SUFFICES ASSUME LifeInv, manager \in {"starting", "serving"}
               PROVE  ServingIsComplete
    BY DEF ServingIsComplete
  <2>1. sup \in {"select", "parked", "drain"} /\ step = "channel"
    BY ManagerRuns DEF LifeInv
  <2>2. masks = Tmpfs /\ rules = AllRules
    BY <2>1 DEF LifeInv, Prepared, Guarded
  <2>3. daemon = "running" => "dockerd" \notin stale
    BY <2>1 DEF LifeInv, Cleared
  <2>4. ASSUME manager = "starting"
        PROVE  /\ ByID(users) = HostEntry /\ ByName(users) = HostEntry
               /\ ByID(groups).name = Host /\ ByName(groups).id = HostID
               /\ home = "user" /\ bashrc # "none" /\ sudoers
    <3>1. /\ Settled(groups) /\ Complete(users) /\ Wellformed(groups)
          /\ Wellformed(users) /\ home = "user" /\ bashrc # "none" /\ sudoers
      BY <2>1, <2>4 DEF LifeInv, LifeTypes, Prepared, Fresh
    <3>2. QED
      BY <3>1, SettledIsFound, CompleteIsFound
  <2>5. QED
    BY <2>2, <2>3, <2>4 DEF ServingIsComplete, AllRules
<1>2. QED
  BY LifeInvariance, <1>1, PTL

\* Bootstrap is a repair: once a session has served, no restart, cut off or
\* not, touches an account or a file of it that needs none.
THEOREM BootstrapIsARepair == LifeSpec => RestartOnlyRepairs
<1>1. LifeInv /\ [LifeNext]_lifeVars =>
        [served /\ manager # "serving" => Spared]_lifeVars
  BY OneStep
<1>2. QED
  BY LifeInvariance, <1>1, PTL DEF LifeSpec, RestartOnlyRepairs

\* What SupervisorProofs shows of one run holds over all of them, kills and
\* restarts included.
THEOREM EveryRunIsSound ==
  LifeSpec => [](/\ DockerdOutlivesManager /\ NothingIsLeftBehind
                 /\ LeaseCoversRun /\ SuccessHidesNothing)
<1>1. LifeInv => /\ DockerdOutlivesManager /\ NothingIsLeftBehind
                 /\ LeaseCoversRun /\ SuccessHidesNothing
  <2>1. IInv => DockerdOutlivesManager
    BY DEF IInv, TypeOK, Stages, DockerdOutlivesManager, Early, Over
  <2>2. IInv => NothingIsLeftBehind
    BY DEF IInv, Stages, NothingIsLeftBehind, Over
  <2>3. IInv => LeaseCoversRun
    BY DEF IInv, TypeOK, Stages, LeaseCoversRun, Over
  <2>4. IInv => SuccessHidesNothing
    BY DEF IInv, TypeOK, Stages, Accounts, Losses, SuccessHidesNothing, Over
  <2>5. Slain => /\ DockerdOutlivesManager /\ NothingIsLeftBehind
                 /\ LeaseCoversRun /\ SuccessHidesNothing
    BY DEF Slain, DockerdOutlivesManager, NothingIsLeftBehind, LeaseCoversRun,
       SuccessHidesNothing, DockerdGone
  <2>6. QED
    BY <2>1, <2>2, <2>3, <2>4, <2>5 DEF LifeInv
<1>2. QED
  BY LifeInvariance, <1>1, PTL
=============================================================================
