------------------------ MODULE HostMCPChannelProofs ------------------------
(***************************************************************************)
(* Proofs about HostMCPChannel, for every number of endpoints, every set   *)
(* of connections and of launchers, with and without timely clients. What  *)
(* the processes at the two ends of the lease owe each other holds for     *)
(* transient and for kept sessions; what launchers owe a session is proved *)
(* for transient ones, of which a kept one is a counterexample.            *)
(***************************************************************************)
EXTENDS HostMCPChannel, TLAPS

(* The sidecar process.                                                    *)

\* What is bound at each stage of Run.
BoundByStage ==
  /\ rpc \in {"none", "clearing", "exited"} => bound = {}
  /\ rpc \in {"bound", "first", "leased"} => bound = Socket
  /\ rpc \notin {"bound", "first", "leased", "closing"} => Control \notin bound
  /\ Control \in bound => Endpoint \subseteq bound

\* channel.close has begun, for which reason.
ClosingStages ==
  /\ shuttingDown <=> rpc \in Closing
  /\ removing => rpc \in Closing
  /\ rpc = "unlinking" => removing

\* What each handler has seen.
Conversation ==
  /\ removing => \E c \in ended : handler[c] = "eof"
  /\ leaseHeld => established
  /\ established => rpc \in {"bound", "first", "leased"} \union Closing
  /\ \A c \in Conn :
       /\ byte[c] # "none" => handler[c] \in {"queued", "accepted"}
       /\ hpc = "write" /\ c \in held
            => byte[c] = "none" /\ handler[c] \in {"queued", "accepted", "shut"}
       /\ handler[c] \in {"loaded", "cleared"} => established
       /\ handler[c] \notin {"shut", "ready"}
            => rpc \in {"bound", "first", "leased"} \union Closing

(* The session's end of the lease.                                         *)

\* What the session process has, at each stage of its supervisor.
SessionStages ==
  /\ ~SessionRuns => /\ hpc = "off" /\ mine = {} /\ ~closed
                     /\ held = {} /\ lease = {} /\ parting = {}
  /\ sess = "bootstrap" => hpc \in {"dial", "write", "backoff"} /\ lease = {}
  /\ closed => sess \in {"closing", "closed"} /\ lease = {}
  /\ sess = "closing" => closed
  /\ sess = "closed" => lease = {} /\ (closed \/ hpc = "gone")
  /\ parting # {} => sess = "closing"

\* The goroutine of holdLease works on one connection, its own.
OneLease ==
  /\ held # {} => hpc \in {"write", "adopt", "hold"}
  /\ lease # {} => hpc \in {"watch", "hold"}
  /\ hpc = "hold" => lease \subseteq held
  /\ \A c \in held : held = {c}
  /\ \A c \in lease : lease = {c}
  /\ held \union lease \subseteq mine

\* Nothing the session has open is forgotten by its goroutine and its close.
NothingForgotten == mine \intersect open \subseteq held \union lease \union parting

\* A launcher's probe is its own connection.
ProbesAreOwn ==
  \A l \in Launcher :
    /\ probe[l] \subseteq open
    /\ probe[l] \intersect (mine \union parting) = {}
    /\ \A k \in Launcher : k # l => probe[l] \intersect probe[k] = {}

\* A session that needs its channel has closed none of its connections.
AliveMeansOpen ==
  Alive => \A c \in mine : c \in open /\ ~ReadToEnd(c)

LeaseInv ==
  /\ TypeOK /\ BoundByStage /\ ClosingStages /\ Conversation
  /\ SessionStages /\ OneLease /\ NothingForgotten /\ ProbesAreOwn
  /\ AliveMeansOpen

(* The launchers of a transient session.                                   *)

\* One attempt owns the generation, from before the session exists.
Ownership ==
  /\ sess # "stopped"
  /\ \A l, k \in Launcher :
       mode[l] \in {"cold", "made", "keepDir"} /\ mode[k] \in {"cold", "made", "keepDir"}
         => l = k
  /\ sess = "none" => \A l \in Launcher : mode[l] \in {"none", "cold"}
  /\ \A l \in Launcher :
       /\ lpc[l] # "idle" => mode[l] # "none"
       /\ mode[l] = "cold" => sess = "none" \/ untold
       /\ lpc[l] = "removeDir" => mode[l] \in {"cold", "made"}
       /\ mode[l] = "made" /\ lpc[l] \in {"stopSidecar", "awaitStop", "removeDir"}
            => sess = "gone"

\* A lease that the sidecar reads, or has read to its end, is the session's.
LeaseIsMine(c) ==
  handler[c] = "lease" \/ ReadToEnd(c) \/ byte[c] = "lease"
    => sess # "none" /\ (Alive => c \in mine)

LeasesAreMine == \A c \in Conn : LeaseIsMine(c)

\* A directory at its path has every socket that is bound.
SocketsAreInPlace ==
  /\ dir = "absent" => entry = {}
  /\ dir # "absent" => bound \subseteq entry

\* The sidecar has no lease and none is on its way.
Quiet ==
  /\ ~established
  /\ \A c \in Conn : /\ byte[c] # "lease"
                     /\ hpc = "write" /\ c \in held => Hungup(c)

\* A sidecar whose directory is gone is closing, or was never leased.
NoDirectoryNoLease ==
  /\ sess = "none" => Quiet
  /\ ~untold => /\ dir = "absent" => shuttingDown \/ Quiet
                /\ \A l \in Launcher : mode[l] = "made" /\ lpc[l] = "removeDir" => Quiet

TransientInv ==
  /\ Ownership /\ LeasesAreMine /\ SocketsAreInPlace /\ NoDirectoryNoLease
  /\ MountIsIntact
-----------------------------------------------------------------------------
(* What the steps of the other processes do to the sidecar.                *)

USE EndpointsAssumption, TimelyAssumption, KeepContainerAssumption

SidecarVars == <<rpc, removing, sockVars, leaseVars>>

\* Outside the sidecar, only docker run and docker stop reach it.
LEMMA OutsideMoves ==
  ASSUME SessionNext \/ \E l \in Launcher : LauncherNext(l)
  PROVE  \/ rpc = "none" /\ rpc' = "clearing" /\ UNCHANGED <<removing, sockVars, leaseVars>>
         \/ UNCHANGED SidecarVars
<1>1. ASSUME SessionNext
      PROVE  UNCHANGED SidecarVars
  BY <1>1
     DEF SessionNext, LeaseHolderStep, SupervisorStep, DialLease, WriteRole,
         WriteRoleFails, AdoptLease, LoseLease, DialFails, WatchLease,
         RetryElapsed, RetryStops, SessionServes, CloseLease, SessionExits,
         SessionGone, BootstrapFails, CancelSession, CloseChannel,
         SessionKilled, relayVars, relayRest, runVars, sockVars, leaseVars,
         SidecarVars
<1>2. ASSUME NEW l \in Launcher, CreateSidecar(l) \/ SidecarUntold(l)
      PROVE  rpc = "none" /\ rpc' = "clearing" /\ UNCHANGED <<removing, sockVars, leaseVars>>
  BY <1>2 DEF CreateSidecar, SidecarUntold, StartSidecar
<1>3. ASSUME NEW l \in Launcher, LauncherNext(l),
             ~(CreateSidecar(l) \/ SidecarUntold(l))
      PROVE  UNCHANGED SidecarVars
  BY <1>3
     DEF LauncherNext, PlanCold, PlanRestart, PlanReuse, NameTaken,
         InspectSidecar, AwaitSidecarName, LaunchFails, LaunchSession,
         SessionUntold, AwaitSession, SendProbe, ReadAnswer, ProbeFails,
         RequireAlive, GiveUp, SkipSession, StopSession, SessionGone,
         StopSessionFails, StopSidecar, AwaitStop, RemoveCandidate,
         CleanupFails, relayVars, relayRest, runVars, sockVars, leaseVars,
         SidecarVars
<1>4. QED
  BY <1>1, <1>2, <1>3

-----------------------------------------------------------------------------
(* Types.                                                                  *)

LEMMA TypeInit == Init => TypeOK
<1>1. Init => RelayTypeOK
  BY ZenonT(60) DEF Init, RelayInit, RelayTypeOK, Binding, Closing, Socket
<1>2. Init => SessionTypeOK /\ LauncherTypeOK
  BY DEF Init, SessionTypeOK, LauncherTypeOK
<1>3. QED
  BY <1>1, <1>2 DEF TypeOK

LEMMA RelayType ==
  ASSUME RelayTypeOK, RelayNext
  PROVE  RelayTypeOK'
<1> USE DEF RelayTypeOK, runVars, sockVars, leaseVars, dirVars, connVars,
       Binding, Closing
<1>1. ASSUME RunStep
      PROVE  RelayTypeOK'
  <2>1. CASE RemoveStaleSockets  BY <2>1 DEF RemoveStaleSockets
  <2>2. CASE BindImpossible  BY <2>2 DEF BindImpossible, BeginClose
  <2>3. CASE BindControl  BY <2>3 DEF BindControl, Socket
  <2>4. CASE ServeControl  BY <2>4 DEF ServeControl
  <2>5. CASE LeaseEstablished  BY <2>5 DEF LeaseEstablished
  <2>6. CASE StopOnSignal  BY <2>6 DEF StopOnSignal, BeginClose
  <2>7. CASE CloseControl  BY <2>7 DEF CloseControl
  <2>8. CASE Closed  BY <2>8 DEF Closed
  <2>9. CASE RemoveGeneration  BY <2>9 DEF RemoveGeneration, RemoveAll
  <2>10. CASE ExitSidecar  BY <2>10 DEF ExitSidecar, ProcessGone
  <2>11. ASSUME NEW i \in Endpoint, BindEndpoint(i) \/ CloseEndpoint(i)
         PROVE  RelayTypeOK'
    <3>1. CASE BindEndpoint(i)  BY <3>1 DEF BindEndpoint, Socket
    <3>2. CASE CloseEndpoint(i)  BY <3>2 DEF CloseEndpoint
    <3>3. QED
      BY <2>11, <3>1, <3>2
  <2>12. ASSUME NEW c \in Conn, LeaseEnded(c)
         PROVE  RelayTypeOK'
    <3>1. PICK remove \in BOOLEAN : rpc = "leased" /\ BeginClose(remove)
      BY <2>12, Zenon DEF LeaseEnded
    <3>2. QED
      BY <3>1 DEF BeginClose
  <2> HIDE DEF RelayTypeOK
  <2>13. QED
    BY <1>1, <2>1, <2>2, <2>3, <2>4, <2>5, <2>6, <2>7, <2>8, <2>9, <2>10,
       <2>11, <2>12 DEF RunStep
<1>2. ASSUME NEW c \in Conn, HandlerStep(c) \/ LeaseReadEnds(c, "readError")
      PROVE  RelayTypeOK'
  <2>1. CASE Accept(c)  BY <2>1 DEF Accept, Handle
  <2>2. CASE LoadLeaseHeld(c)  BY <2>2 DEF LoadLeaseHeld, ReadRole, Handle
  <2>3. CASE LoadShuttingDown(c)  BY <2>3 DEF LoadShuttingDown, Handle
  <2>4. CASE GrantLease(c)  BY <2>4 DEF GrantLease, ReadRole, Handle
  <2>5. CASE RefuseLease(c)  BY <2>5 DEF RefuseLease, ReadRole, Handle
  <2>6. CASE LeaseReadEnds(c, "readEOF")  BY <2>6 DEF LeaseReadEnds, Handle
  <2>7. CASE SendOutcome(c)  BY <2>7 DEF SendOutcome
  <2>8. CASE RoleMissing(c)  BY <2>8 DEF RoleMissing, Handle
  <2>9. CASE LeaseReadEnds(c, "readError")  BY <2>9 DEF LeaseReadEnds, Handle
  <2>10. CASE WriteReady(c)  BY <2>10 DEF WriteReady, Handle
  <2>11. CASE ReleaseLease(c)
    <3> USE <2>11 DEF ReleaseLease
    <3>1. /\ rpc' = rpc /\ removing' = removing /\ signalled' = signalled
          /\ bound' = bound /\ shuttingDown' = shuttingDown
          /\ accepting' = accepting /\ established' = established
          /\ ended' = ended /\ dir' = dir /\ entry' = entry /\ open' = open
          /\ byte' = byte /\ leaseHeld' = FALSE
      OBVIOUS
    <3>2. PICK state \in {"eof", "error"} :
            handler' = [handler EXCEPT ![c] = state]
      BY DEF Handle
    <3>3. handler' \in [Conn -> {"shut", "queued", "accepted", "loaded",
                                "cleared", "ready", "lease", "readEOF",
                                "readError", "eof", "error"}]
      BY <3>2
    <3>4. QED
      BY <3>1, <3>3, ZenonT(60)
  <2> HIDE DEF RelayTypeOK
  <2>12. QED
    BY <1>2, <2>1, <2>2, <2>3, <2>4, <2>5, <2>6, <2>7, <2>8, <2>9, <2>10,
       <2>11 DEF HandlerStep
<1>3. CASE Expire  BY <1>3 DEF Expire, InitialLeaseTimeout, BeginClose
<1>4. CASE ReleaseName  BY <1>4 DEF ReleaseName
<1>5. CASE StartupFails  BY <1>5 DEF StartupFails, BeginClose
<1>6. CASE AcceptFails  BY <1>6 DEF AcceptFails
<1>7. CASE KillSidecar  BY <1>7 DEF KillSidecar, ProcessGone
<1>8. CASE Signal  BY <1>8 DEF Signal
<1> HIDE DEF RelayTypeOK
<1>9. QED
  BY <1>1, <1>2, <1>3, <1>4, <1>5, <1>6, <1>7, <1>8 DEF RelayNext, RelayFails

LEMMA GoneType ==
  ASSUME TypeOK, SessionGone
  PROVE  RelayTypeOK' /\ SessionTypeOK'
<1> USE DEF runVars, sockVars, leaseVars, SessionGone, Hangup
<1>1. RelayTypeOK'
  BY DEF TypeOK, RelayTypeOK
<1>2. SessionTypeOK'
  BY DEF TypeOK, SessionTypeOK
<1>3. QED
  BY <1>1, <1>2

LEMMA SessionType ==
  ASSUME TypeOK, SessionNext
  PROVE  TypeOK'
<1> USE DEF TypeOK, RelayTypeOK, SessionTypeOK, LauncherTypeOK, relayVars,
       relayRest, runVars, sockVars, leaseVars, dirVars, connVars,
       leaseHolderVars, launcherVars
<1>1. ASSUME NEW c \in Conn, \/ DialLease(c) \/ WriteRole(c) \/ WriteRoleFails(c)
                             \/ AdoptLease(c) \/ LoseLease(c)
      PROVE  TypeOK'
  <2>1. CASE DialLease(c)  BY <2>1 DEF DialLease, Connect
  <2>2. CASE WriteRole(c)  BY <2>2 DEF WriteRole
  <2>3. CASE WriteRoleFails(c)  BY <2>3 DEF WriteRoleFails, Forget, ReadToEnd, Hangup
  <2>4. CASE AdoptLease(c)  BY <2>4 DEF AdoptLease, Hangup
  <2>5. CASE LoseLease(c)  BY <2>5 DEF LoseLease, Forget, ReadToEnd, Hangup
  <2>6. QED
    BY <1>1, <2>1, <2>2, <2>3, <2>4, <2>5
<1>2. CASE DialFails  BY <1>2 DEF DialFails
<1>3. CASE WatchLease  BY <1>3 DEF WatchLease
<1>4. CASE RetryElapsed  BY <1>4 DEF RetryElapsed
<1>5. CASE RetryStops  BY <1>5 DEF RetryStops
<1>6. CASE SessionServes  BY <1>6 DEF SessionServes
<1>7. CASE CloseLease  BY <1>7 DEF CloseLease, Hangup
<1>8. CASE SessionExits
  BY <1>8, GoneType DEF SessionExits
<1>9. CASE BootstrapFails  BY <1>9 DEF BootstrapFails
<1>10. CASE CancelSession  BY <1>10 DEF CancelSession
<1>11. CASE CloseChannel  BY <1>11 DEF CloseChannel
<1>12. CASE SessionKilled
  BY <1>12, GoneType DEF SessionKilled
<1> HIDE DEF TypeOK
<1>13. QED
  BY <1>1, <1>2, <1>3, <1>4, <1>5, <1>6, <1>7, <1>8, <1>9, <1>10, <1>11, <1>12
     DEF SessionNext, LeaseHolderStep, SupervisorStep

LEMMA LauncherType ==
  ASSUME TypeOK, NEW l \in Launcher, LauncherNext(l)
  PROVE  TypeOK'
<1> USE DEF TypeOK, RelayTypeOK, SessionTypeOK, LauncherTypeOK, relayVars,
       relayRest, runVars, sockVars, leaseVars, dirVars, connVars,
       leaseHolderVars, launcherVars, Binding, Closing
<1>1. ASSUME NEW c \in Conn, SendProbe(l, c) \/ ReadAnswer(l, c)
      PROVE  TypeOK'
  <2>1. CASE SendProbe(l, c)  BY <2>1 DEF SendProbe, Connect, Goto
  <2>2. CASE ReadAnswer(l, c)  BY <2>2 DEF ReadAnswer, Hangup, Goto
  <2>3. QED
    BY <1>1, <2>1, <2>2
<1>2. CASE PlanCold(l)  BY <1>2 DEF PlanCold, Begin, MakeDir, Goto
<1>3. CASE PlanRestart(l)  BY <1>3 DEF PlanRestart, Begin, MakeDir, Goto
<1>4. CASE PlanReuse(l)  BY <1>4 DEF PlanReuse, Begin, Goto
<1>5. CASE CreateSidecar(l)
  BY <1>5 DEF CreateSidecar, StartSidecar, Goto, Ensured
<1>6. CASE NameTaken(l)  BY <1>6 DEF NameTaken, Goto
<1>7. CASE InspectSidecar(l)  BY <1>7 DEF InspectSidecar, Goto, Ensured
<1>8. CASE AwaitSidecarName(l)  BY <1>8 DEF AwaitSidecarName, Goto, Ensured
<1>9. CASE LaunchFails(l)  BY <1>9 DEF LaunchFails, Goto, BeforeSidecar
<1>10. CASE SidecarUntold(l)  BY <1>10 DEF SidecarUntold, StartSidecar, Goto
<1>11. CASE LaunchSession(l)  BY <1>11 DEF LaunchSession, StartSession, Goto
<1>12. CASE SessionUntold(l)  BY <1>12 DEF SessionUntold, StartSession, Goto
<1>13. CASE AwaitSession(l)  BY <1>13 DEF AwaitSession, Goto
<1>14. CASE ProbeFails(l)  BY <1>14 DEF ProbeFails, Goto
<1>15. CASE RequireAlive(l)  BY <1>15 DEF RequireAlive, Goto
<1>16. CASE GiveUp(l)  BY <1>16 DEF GiveUp, Goto
<1>17. CASE SkipSession(l)  BY <1>17 DEF SkipSession, Goto
<1>18. CASE StopSession(l)
  BY <1>18, GoneType DEF StopSession, Goto
<1>19. CASE StopSessionFails(l)  BY <1>19 DEF StopSessionFails, Goto
<1>20. CASE StopSidecar(l)  BY <1>20 DEF StopSidecar, Goto, SidecarRuns
<1>21. CASE AwaitStop(l)  BY <1>21 DEF AwaitStop, CleanupOver, Goto
<1>22. CASE RemoveCandidate(l)
  BY <1>22 DEF RemoveCandidate, RemoveAll, CleanupOver, Goto
<1>23. CASE CleanupFails(l)  BY <1>23 DEF CleanupFails, CleanupOver, Goto
<1> HIDE DEF TypeOK
<1>24. QED
  BY <1>1, <1>2, <1>3, <1>4, <1>5, <1>6, <1>7, <1>8, <1>9, <1>10, <1>11, <1>12,
     <1>13, <1>14, <1>15, <1>16, <1>17, <1>18, <1>19, <1>20, <1>21, <1>22,
     <1>23 DEF LauncherNext

LEMMA TypeStep == TypeOK /\ [Next]_vars => TypeOK'
<1>1. ASSUME TypeOK, UNCHANGED vars
      PROVE  TypeOK'
  BY <1>1
     DEF TypeOK, RelayTypeOK, SessionTypeOK, LauncherTypeOK, vars, relayVars,
         runVars, sockVars, leaseVars, dirVars, connVars, leaseHolderVars,
         launcherVars
<1>2. ASSUME TypeOK, RelayNext,
             UNCHANGED <<sess, leaseHolderVars, launcherVars>>
      PROVE  TypeOK'
  <2>1. SessionTypeOK' /\ LauncherTypeOK'
    BY <1>2
       DEF TypeOK, SessionTypeOK, LauncherTypeOK, leaseHolderVars, launcherVars
  <2>2. QED
    BY <1>2, <2>1, RelayType DEF TypeOK
<1>3. QED
  BY <1>1, <1>2, SessionType, LauncherType DEF Next

\* Every variable stays in its range.
THEOREM TypeCorrect == Spec => []TypeOK
BY TypeInit, TypeStep, PTL DEF Spec

-----------------------------------------------------------------------------
(* The stages of Run.                                                      *)

LEMMA StagesRelay ==
  ASSUME TypeOK, BoundByStage, ClosingStages, RelayNext
  PROVE  (BoundByStage /\ ClosingStages)'
<1> USE DEF TypeOK, RelayTypeOK, BoundByStage, ClosingStages, runVars,
       sockVars, Closing, Binding, Socket, Endpoint, Control, SidecarRuns
<1>1. ASSUME RunStep
      PROVE  (BoundByStage /\ ClosingStages)'
  <2>1. CASE RemoveStaleSockets  BY <2>1 DEF RemoveStaleSockets
  <2>2. CASE BindImpossible  BY <2>2 DEF BindImpossible, BeginClose
  <2>3. CASE BindControl  BY <2>3 DEF BindControl, Socket
  <2>4. CASE ServeControl  BY <2>4 DEF ServeControl
  <2>5. CASE LeaseEstablished  BY <2>5 DEF LeaseEstablished
  <2>6. CASE StopOnSignal  BY <2>6 DEF StopOnSignal, BeginClose
  <2>7. CASE CloseControl  BY <2>7 DEF CloseControl
  <2>8. CASE Closed  BY <2>8 DEF Closed
  <2>9. CASE RemoveGeneration  BY <2>9 DEF RemoveGeneration, RemoveAll
  <2>10. CASE ExitSidecar  BY <2>10 DEF ExitSidecar, ProcessGone
  <2>11. ASSUME NEW i \in Endpoint, BindEndpoint(i) \/ CloseEndpoint(i)
         PROVE  (BoundByStage /\ ClosingStages)'
    <3>1. CASE BindEndpoint(i)  BY <3>1 DEF BindEndpoint, Socket
    <3>2. CASE CloseEndpoint(i)  BY <3>2 DEF CloseEndpoint
    <3>3. QED
      BY <2>11, <3>1, <3>2
  <2>12. ASSUME NEW c \in Conn, LeaseEnded(c)
         PROVE  (BoundByStage /\ ClosingStages)'
    <3>1. PICK remove \in BOOLEAN : rpc = "leased" /\ BeginClose(remove)
      BY <2>12, Zenon DEF LeaseEnded
    <3>2. QED
      BY <3>1 DEF BeginClose
  <2> HIDE DEF BoundByStage, ClosingStages
  <2>13. QED
    BY <1>1, <2>1, <2>2, <2>3, <2>4, <2>5, <2>6, <2>7, <2>8, <2>9, <2>10,
       <2>11, <2>12 DEF RunStep
<1>2. ASSUME NEW c \in Conn, HandlerStep(c) \/ LeaseReadEnds(c, "readError")
      PROVE  (BoundByStage /\ ClosingStages)'
  <2>1. CASE Accept(c)  BY <2>1 DEF Accept, Handle
  <2>2. CASE LoadLeaseHeld(c)  BY <2>2 DEF LoadLeaseHeld, ReadRole, Handle
  <2>3. CASE LoadShuttingDown(c)  BY <2>3 DEF LoadShuttingDown, Handle
  <2>4. CASE GrantLease(c)  BY <2>4 DEF GrantLease, ReadRole, Handle
  <2>5. CASE RefuseLease(c)  BY <2>5 DEF RefuseLease, ReadRole, Handle
  <2>6. CASE LeaseReadEnds(c, "readEOF")  BY <2>6 DEF LeaseReadEnds, Handle
  <2>7. CASE SendOutcome(c)  BY <2>7 DEF SendOutcome
  <2>8. CASE RoleMissing(c)  BY <2>8 DEF RoleMissing, Handle
  <2>9. CASE LeaseReadEnds(c, "readError")  BY <2>9 DEF LeaseReadEnds, Handle
  <2>10. CASE WriteReady(c)  BY <2>10 DEF WriteReady, Handle
  <2>11. CASE ReleaseLease(c)  BY <2>11 DEF ReleaseLease, Handle
  <2> HIDE DEF BoundByStage, ClosingStages
  <2>12. QED
    BY <1>2, <2>1, <2>2, <2>3, <2>4, <2>5, <2>6, <2>7, <2>8, <2>9, <2>10,
       <2>11 DEF HandlerStep
<1>3. CASE Expire  BY <1>3 DEF Expire, InitialLeaseTimeout, BeginClose
<1>4. CASE ReleaseName  BY <1>4 DEF ReleaseName
<1>5. CASE StartupFails  BY <1>5 DEF StartupFails, BeginClose
<1>6. CASE AcceptFails  BY <1>6 DEF AcceptFails
<1>7. CASE KillSidecar  BY <1>7 DEF KillSidecar, ProcessGone
<1>8. CASE Signal  BY <1>8 DEF Signal
<1> HIDE DEF BoundByStage, ClosingStages
<1>9. QED
  BY <1>1, <1>2, <1>3, <1>4, <1>5, <1>6, <1>7, <1>8 DEF RelayNext, RelayFails

LEMMA StagesStep ==
  ASSUME TypeOK, BoundByStage, ClosingStages, [Next]_vars
  PROVE  (BoundByStage /\ ClosingStages)'
<1>1. CASE RelayNext
  BY <1>1, StagesRelay
<1>2. ASSUME rpc = "none", rpc' = "clearing", UNCHANGED <<removing, sockVars, leaseVars>>
      PROVE  (BoundByStage /\ ClosingStages)'
  BY <1>2 DEF BoundByStage, ClosingStages, sockVars, Closing
<1>3. ASSUME UNCHANGED SidecarVars
      PROVE  (BoundByStage /\ ClosingStages)'
  BY <1>3 DEF BoundByStage, ClosingStages, SidecarVars, sockVars, Closing
<1>4. QED
  <2>1. UNCHANGED vars => UNCHANGED SidecarVars
    BY DEF vars, relayVars, runVars, SidecarVars
  <2>2. QED
    BY <1>1, <1>2, <1>3, <2>1, OutsideMoves DEF Next

-----------------------------------------------------------------------------
(* What a launcher does to the two ends of the lease.                      *)

LeaseView == <<rpc, removing, sockVars, leaseVars, connVars, sess,
               leaseHolderVars, probe>>

LEMMA LauncherMoves ==
  ASSUME NEW l \in Launcher, LauncherNext(l)
  PROVE  \/ LaunchSession(l) \/ SessionUntold(l) \/ StopSession(l)
         \/ \E c \in Conn : SendProbe(l, c) \/ ReadAnswer(l, c)
         \/ /\ rpc = "none" /\ rpc' = "clearing"
            /\ UNCHANGED <<removing, sockVars, leaseVars, connVars, sess,
                           leaseHolderVars, probe>>
         \/ UNCHANGED LeaseView
<1>1. CASE CreateSidecar(l) \/ SidecarUntold(l)
  BY <1>1 DEF CreateSidecar, SidecarUntold, StartSidecar
<1>2. CASE \/ PlanCold(l) \/ PlanRestart(l) \/ PlanReuse(l) \/ NameTaken(l)
           \/ InspectSidecar(l) \/ AwaitSidecarName(l) \/ LaunchFails(l)
           \/ AwaitSession(l) \/ ProbeFails(l) \/ RequireAlive(l)
  BY <1>2
     DEF PlanCold, PlanRestart, PlanReuse, NameTaken, InspectSidecar,
         AwaitSidecarName, LaunchFails, AwaitSession, ProbeFails, RequireAlive,
         relayVars, runVars, LeaseView
<1>3. CASE \/ GiveUp(l) \/ SkipSession(l) \/ StopSessionFails(l) \/ StopSidecar(l)
           \/ AwaitStop(l) \/ RemoveCandidate(l) \/ CleanupFails(l)
  BY <1>3
     DEF GiveUp, SkipSession, StopSessionFails, StopSidecar, AwaitStop,
         RemoveCandidate, CleanupFails, relayVars, runVars, LeaseView
<1>4. QED
  BY <1>1, <1>2, <1>3 DEF LauncherNext

-----------------------------------------------------------------------------
(* The conversation on each connection.                                    *)

LEMMA ConversationRelay ==
  ASSUME TypeOK, BoundByStage, Conversation, RelayNext,
         UNCHANGED <<sess, leaseHolderVars, launcherVars>>
  PROVE  Conversation'
<1> USE DEF TypeOK, RelayTypeOK, BoundByStage, Conversation, runVars, sockVars,
       leaseVars, dirVars, connVars, leaseHolderVars, launcherVars, Closing,
       Binding, SidecarRuns
<1>1. ASSUME RunStep
      PROVE  Conversation'
  <2>1. CASE RemoveStaleSockets  BY <2>1 DEF RemoveStaleSockets
  <2>2. CASE BindImpossible  BY <2>2 DEF BindImpossible, BeginClose
  <2>3. CASE BindControl  BY <2>3 DEF BindControl, Socket
  <2>4. CASE ServeControl  BY <2>4 DEF ServeControl
  <2>5. CASE LeaseEstablished  BY <2>5 DEF LeaseEstablished
  <2>6. CASE StopOnSignal  BY <2>6 DEF StopOnSignal, BeginClose
  <2>7. CASE CloseControl  BY <2>7 DEF CloseControl
  <2>8. CASE Closed  BY <2>8 DEF Closed
  <2>9. CASE RemoveGeneration  BY <2>9 DEF RemoveGeneration, RemoveAll
  <2>10. CASE ExitSidecar  BY <2>10 DEF ExitSidecar, ProcessGone
  <2>11. ASSUME NEW i \in Endpoint, BindEndpoint(i) \/ CloseEndpoint(i)
         PROVE  Conversation'
    <3>1. CASE BindEndpoint(i)  BY <3>1 DEF BindEndpoint, Socket
    <3>2. CASE CloseEndpoint(i)  BY <3>2 DEF CloseEndpoint
    <3>3. QED
      BY <2>11, <3>1, <3>2
  <2>12. ASSUME NEW c \in Conn, LeaseEnded(c)
         PROVE  Conversation'
    <3>1. removing' => handler[c] = "eof"
      BY <2>12, Zenon DEF LeaseEnded, BeginClose
    <3>2. rpc' = "closing" /\ c \in ended /\ UNCHANGED <<leaseVars, connVars>>
      BY <2>12 DEF LeaseEnded, BeginClose
    <3>3. QED
      BY <3>1, <3>2
  <2> HIDE DEF Conversation
  <2>13. QED
    BY <1>1, <2>1, <2>2, <2>3, <2>4, <2>5, <2>6, <2>7, <2>8, <2>9, <2>10,
       <2>11, <2>12 DEF RunStep
<1>2. ASSUME NEW c \in Conn, HandlerStep(c) \/ LeaseReadEnds(c, "readError")
      PROVE  Conversation'
  <2>1. CASE Accept(c)  BY <2>1 DEF Accept, Handle
  <2>2. CASE LoadLeaseHeld(c)  BY <2>2 DEF LoadLeaseHeld, ReadRole, Handle
  <2>3. CASE LoadShuttingDown(c)  BY <2>3 DEF LoadShuttingDown, Handle
  <2>4. CASE GrantLease(c)  BY <2>4 DEF GrantLease, ReadRole, Handle
  <2>5. CASE RefuseLease(c)  BY <2>5 DEF RefuseLease, ReadRole, Handle
  <2>6. CASE LeaseReadEnds(c, "readEOF")  BY <2>6 DEF LeaseReadEnds, Handle
  <2>7. CASE SendOutcome(c)  BY <2>7 DEF SendOutcome
  <2>8. CASE RoleMissing(c)  BY <2>8 DEF RoleMissing, Handle
  <2>9. CASE LeaseReadEnds(c, "readError")  BY <2>9 DEF LeaseReadEnds, Handle
  <2>10. CASE WriteReady(c)  BY <2>10 DEF WriteReady, Handle
  <2>11. CASE ReleaseLease(c)  BY <2>11 DEF ReleaseLease, Handle
  <2> HIDE DEF Conversation
  <2>12. QED
    BY <1>2, <2>1, <2>2, <2>3, <2>4, <2>5, <2>6, <2>7, <2>8, <2>9, <2>10,
       <2>11 DEF HandlerStep
<1>3. CASE Expire  BY <1>3 DEF Expire, InitialLeaseTimeout, BeginClose
<1>4. CASE ReleaseName  BY <1>4 DEF ReleaseName
<1>5. CASE StartupFails  BY <1>5 DEF StartupFails, BeginClose
<1>6. CASE AcceptFails  BY <1>6 DEF AcceptFails
<1>7. CASE KillSidecar  BY <1>7 DEF KillSidecar, ProcessGone
<1>8. CASE Signal  BY <1>8 DEF Signal
<1> HIDE DEF Conversation
<1>9. QED
  BY <1>1, <1>2, <1>3, <1>4, <1>5, <1>6, <1>7, <1>8 DEF RelayNext, RelayFails

LEMMA ConversationSession ==
  ASSUME TypeOK, BoundByStage, Conversation, SessionStages, OneLease, SessionNext
  PROVE  Conversation'
<1> USE DEF TypeOK, RelayTypeOK, SessionTypeOK, BoundByStage, Conversation,
       SessionStages, OneLease, relayVars, relayRest, runVars, sockVars,
       leaseVars, dirVars, connVars, leaseHolderVars, launcherVars, Closing,
       Binding, Hungup, ReadToEnd, Connectable, Free
<1>1. ASSUME NEW c \in Conn, \/ DialLease(c) \/ WriteRole(c) \/ WriteRoleFails(c)
                             \/ AdoptLease(c) \/ LoseLease(c)
      PROVE  Conversation'
  <2>1. CASE DialLease(c)  BY <2>1 DEF DialLease, Connect
  <2>2. CASE WriteRole(c)  BY <2>2 DEF WriteRole
  <2>3. CASE WriteRoleFails(c)  BY <2>3 DEF WriteRoleFails, Forget, ReadToEnd, Hangup
  <2>4. CASE AdoptLease(c)  BY <2>4 DEF AdoptLease, Hangup
  <2>5. CASE LoseLease(c)  BY <2>5 DEF LoseLease, Forget, ReadToEnd, Hangup
  <2>6. QED
    BY <1>1, <2>1, <2>2, <2>3, <2>4, <2>5
<1>2. CASE DialFails  BY <1>2 DEF DialFails
<1>3. CASE WatchLease  BY <1>3 DEF WatchLease
<1>4. CASE RetryElapsed  BY <1>4 DEF RetryElapsed
<1>5. CASE RetryStops  BY <1>5 DEF RetryStops
<1>6. CASE SessionServes  BY <1>6 DEF SessionServes
<1>7. CASE CloseLease  BY <1>7 DEF CloseLease, Hangup
<1>8. CASE SessionExits  BY <1>8 DEF SessionExits, SessionGone, Hangup
<1>9. CASE BootstrapFails  BY <1>9 DEF BootstrapFails
<1>10. CASE CancelSession  BY <1>10 DEF CancelSession
<1>11. CASE CloseChannel  BY <1>11 DEF CloseChannel
<1>12. CASE SessionKilled  BY <1>12 DEF SessionKilled, SessionGone, Hangup
<1> HIDE DEF Conversation
<1>13. QED
  BY <1>1, <1>2, <1>3, <1>4, <1>5, <1>6, <1>7, <1>8, <1>9, <1>10, <1>11, <1>12
     DEF SessionNext, LeaseHolderStep, SupervisorStep

LEMMA ConversationLauncher ==
  ASSUME TypeOK, BoundByStage, Conversation, SessionStages, OneLease, ProbesAreOwn,
         NEW l \in Launcher, LauncherNext(l)
  PROVE  Conversation'
<1> USE DEF TypeOK, RelayTypeOK, SessionTypeOK, LauncherTypeOK, BoundByStage,
       Conversation, SessionStages, OneLease, ProbesAreOwn, relayVars,
       relayRest, runVars, sockVars, leaseVars, dirVars, connVars,
       leaseHolderVars, launcherVars, Closing, Connectable, Free, Alive,
       SessionRuns
<1>1. CASE LaunchSession(l)  BY <1>1 DEF LaunchSession, StartSession, Goto
<1>2. CASE SessionUntold(l)  BY <1>2 DEF SessionUntold, StartSession, Goto
<1>3. CASE StopSession(l)  BY <1>3 DEF StopSession, SessionGone, Hangup, Goto
<1>4. ASSUME NEW c \in Conn, SendProbe(l, c)
      PROVE  Conversation'
  BY <1>4 DEF SendProbe, Connect, Goto
<1>5. ASSUME NEW c \in Conn, ReadAnswer(l, c)
      PROVE  Conversation'
  BY <1>5 DEF ReadAnswer, Hangup, Goto
<1>6. CASE rpc = "none" /\ rpc' = "clearing" /\ UNCHANGED <<removing, sockVars, leaseVars,
               connVars, sess, leaseHolderVars, probe>>
  BY <1>6
<1>7. CASE UNCHANGED LeaseView
  BY <1>7 DEF LeaseView
<1> HIDE DEF Conversation
<1>8. QED
  BY <1>1, <1>2, <1>3, <1>4, <1>5, <1>6, <1>7, LauncherMoves

LEMMA ConversationStep ==
  ASSUME TypeOK, BoundByStage, Conversation, SessionStages, OneLease, ProbesAreOwn,
         [Next]_vars
  PROVE  Conversation'
<1>1. CASE UNCHANGED vars
  BY <1>1
     DEF Conversation, vars, relayVars, runVars, sockVars, leaseVars, connVars,
         leaseHolderVars, Closing
<1>2. QED
  BY <1>1, ConversationRelay, ConversationSession, ConversationLauncher
     DEF Next

-----------------------------------------------------------------------------
(* The session process and its connections.                                *)

LEMMA HoldingSession ==
  ASSUME TypeOK, SessionStages, OneLease, SessionNext
  PROVE  (SessionStages /\ OneLease)'
<1> USE DEF TypeOK, RelayTypeOK, SessionTypeOK, LauncherTypeOK, SessionStages,
       OneLease, relayVars, relayRest, runVars, sockVars, leaseVars, dirVars,
       connVars, leaseHolderVars, launcherVars, SessionRuns, Alive
<1>1. ASSUME NEW c \in Conn, \/ DialLease(c) \/ WriteRole(c) \/ WriteRoleFails(c)
                             \/ AdoptLease(c) \/ LoseLease(c)
      PROVE  (SessionStages /\ OneLease)'
  <2>1. CASE DialLease(c)  BY <2>1 DEF DialLease, Connect
  <2>2. CASE WriteRole(c)  BY <2>2 DEF WriteRole
  <2>3. CASE WriteRoleFails(c)  BY <2>3 DEF WriteRoleFails, Forget, ReadToEnd, Hangup
  <2>4. CASE AdoptLease(c)  BY <2>4 DEF AdoptLease, Hangup
  <2>5. CASE LoseLease(c)  BY <2>5 DEF LoseLease, Forget, ReadToEnd, Hangup
  <2>6. QED
    BY <1>1, <2>1, <2>2, <2>3, <2>4, <2>5
<1>2. CASE DialFails  BY <1>2 DEF DialFails
<1>3. CASE WatchLease  BY <1>3 DEF WatchLease
<1>4. CASE RetryElapsed  BY <1>4 DEF RetryElapsed
<1>5. CASE RetryStops  BY <1>5 DEF RetryStops
<1>6. CASE SessionServes  BY <1>6 DEF SessionServes
<1>7. CASE CloseLease  BY <1>7 DEF CloseLease, Hangup
<1>8. CASE SessionExits  BY <1>8 DEF SessionExits, SessionGone, Hangup
<1>9. CASE BootstrapFails  BY <1>9 DEF BootstrapFails
<1>10. CASE CancelSession  BY <1>10 DEF CancelSession
<1>11. CASE CloseChannel  BY <1>11 DEF CloseChannel
<1>12. CASE SessionKilled  BY <1>12 DEF SessionKilled, SessionGone, Hangup
<1> HIDE DEF SessionStages, OneLease
<1>13. QED
  BY <1>1, <1>2, <1>3, <1>4, <1>5, <1>6, <1>7, <1>8, <1>9, <1>10, <1>11, <1>12
     DEF SessionNext, LeaseHolderStep, SupervisorStep

LEMMA HoldingLauncher ==
  ASSUME TypeOK, SessionStages, OneLease, NEW l \in Launcher, LauncherNext(l)
  PROVE  (SessionStages /\ OneLease)'
<1> USE DEF TypeOK, RelayTypeOK, SessionTypeOK, LauncherTypeOK, SessionStages,
       OneLease, relayVars, relayRest, runVars, sockVars, leaseVars, dirVars,
       connVars, leaseHolderVars, launcherVars, SessionRuns, Alive
<1>1. CASE LaunchSession(l)  BY <1>1 DEF LaunchSession, StartSession, Goto
<1>2. CASE SessionUntold(l)  BY <1>2 DEF SessionUntold, StartSession, Goto
<1>3. CASE StopSession(l)  BY <1>3 DEF StopSession, SessionGone, Hangup, Goto
<1>4. ASSUME NEW c \in Conn, SendProbe(l, c)
      PROVE  (SessionStages /\ OneLease)'
  BY <1>4 DEF SendProbe, Connect, Goto
<1>5. ASSUME NEW c \in Conn, ReadAnswer(l, c)
      PROVE  (SessionStages /\ OneLease)'
  BY <1>5 DEF ReadAnswer, Hangup, Goto
<1>6. CASE rpc = "none" /\ rpc' = "clearing" /\ UNCHANGED <<removing, sockVars, leaseVars,
               connVars, sess, leaseHolderVars, probe>>
  BY <1>6
<1>7. CASE UNCHANGED LeaseView
  BY <1>7 DEF LeaseView
<1> HIDE DEF SessionStages, OneLease
<1>8. QED
  BY <1>1, <1>2, <1>3, <1>4, <1>5, <1>6, <1>7, LauncherMoves

LEMMA HoldingStep ==
  ASSUME TypeOK, SessionStages, OneLease, [Next]_vars
  PROVE  (SessionStages /\ OneLease)'
<1>1. CASE UNCHANGED <<sess, leaseHolderVars, launcherVars>>
  BY <1>1
     DEF SessionStages, OneLease, leaseHolderVars, launcherVars, SessionRuns,
         Alive
<1>2. QED
  BY <1>1, HoldingSession, HoldingLauncher DEF Next, vars

LEMMA ConnectionsRelay ==
  ASSUME TypeOK, SessionStages, OneLease, NothingForgotten, ProbesAreOwn,
         AliveMeansOpen, RelayNext,
         UNCHANGED <<sess, leaseHolderVars, launcherVars>>
  PROVE  (NothingForgotten /\ ProbesAreOwn /\ AliveMeansOpen)'
<1> USE DEF TypeOK, RelayTypeOK, SessionTypeOK, LauncherTypeOK, SessionStages,
       OneLease, ProbesAreOwn, NothingForgotten, AliveMeansOpen, ReadToEnd,
       relayVars, relayRest, runVars, sockVars, leaseVars, dirVars, connVars,
       leaseHolderVars, launcherVars, SessionRuns, Alive, Connectable, Free,
       Hungup
<1>1. ASSUME RunStep
      PROVE  (NothingForgotten /\ ProbesAreOwn /\ AliveMeansOpen)'
  <2>1. CASE RemoveStaleSockets  BY <2>1 DEF RemoveStaleSockets
  <2>2. CASE BindImpossible  BY <2>2 DEF BindImpossible, BeginClose
  <2>3. CASE BindControl  BY <2>3 DEF BindControl, Socket
  <2>4. CASE ServeControl  BY <2>4 DEF ServeControl
  <2>5. CASE LeaseEstablished  BY <2>5 DEF LeaseEstablished
  <2>6. CASE StopOnSignal  BY <2>6 DEF StopOnSignal, BeginClose
  <2>7. CASE CloseControl  BY <2>7 DEF CloseControl
  <2>8. CASE Closed  BY <2>8 DEF Closed
  <2>9. CASE RemoveGeneration  BY <2>9 DEF RemoveGeneration, RemoveAll
  <2>10. CASE ExitSidecar  BY <2>10 DEF ExitSidecar, ProcessGone
  <2>11. ASSUME NEW i \in Endpoint, BindEndpoint(i) \/ CloseEndpoint(i)
         PROVE  (NothingForgotten /\ ProbesAreOwn /\ AliveMeansOpen)'
    <3>1. CASE BindEndpoint(i)  BY <3>1 DEF BindEndpoint, Socket
    <3>2. CASE CloseEndpoint(i)  BY <3>2 DEF CloseEndpoint
    <3>3. QED
      BY <2>11, <3>1, <3>2
  <2>12. ASSUME NEW c \in Conn, LeaseEnded(c)
         PROVE  (NothingForgotten /\ ProbesAreOwn /\ AliveMeansOpen)'
    <3>1. removing' => handler[c] = "eof"
      BY <2>12, Zenon DEF LeaseEnded, BeginClose
    <3>2. rpc' = "closing" /\ c \in ended /\ UNCHANGED <<leaseVars, connVars>>
      BY <2>12 DEF LeaseEnded, BeginClose
    <3>3. QED
      BY <3>1, <3>2
  <2> HIDE DEF NothingForgotten, ProbesAreOwn, AliveMeansOpen
  <2>13. QED
    BY <1>1, <2>1, <2>2, <2>3, <2>4, <2>5, <2>6, <2>7, <2>8, <2>9, <2>10,
       <2>11, <2>12 DEF RunStep
<1>2. ASSUME NEW c \in Conn, HandlerStep(c) \/ LeaseReadEnds(c, "readError")
      PROVE  (NothingForgotten /\ ProbesAreOwn /\ AliveMeansOpen)'
  <2>1. CASE Accept(c)  BY <2>1 DEF Accept, Handle
  <2>2. CASE LoadLeaseHeld(c)  BY <2>2 DEF LoadLeaseHeld, ReadRole, Handle
  <2>3. CASE LoadShuttingDown(c)  BY <2>3 DEF LoadShuttingDown, Handle
  <2>4. CASE GrantLease(c)  BY <2>4 DEF GrantLease, ReadRole, Handle
  <2>5. CASE RefuseLease(c)  BY <2>5 DEF RefuseLease, ReadRole, Handle
  <2>6. CASE LeaseReadEnds(c, "readEOF")  BY <2>6 DEF LeaseReadEnds, Handle
  <2>7. CASE SendOutcome(c)  BY <2>7 DEF SendOutcome
  <2>8. CASE RoleMissing(c)  BY <2>8 DEF RoleMissing, Handle
  <2>9. CASE LeaseReadEnds(c, "readError")  BY <2>9 DEF LeaseReadEnds, Handle
  <2>10. CASE WriteReady(c)  BY <2>10 DEF WriteReady, Handle
  <2>11. CASE ReleaseLease(c)  BY <2>11 DEF ReleaseLease, Handle
  <2> HIDE DEF NothingForgotten, ProbesAreOwn, AliveMeansOpen
  <2>12. QED
    BY <1>2, <2>1, <2>2, <2>3, <2>4, <2>5, <2>6, <2>7, <2>8, <2>9, <2>10,
       <2>11 DEF HandlerStep
<1>3. CASE Expire  BY <1>3 DEF Expire, InitialLeaseTimeout, BeginClose
<1>4. CASE ReleaseName  BY <1>4 DEF ReleaseName
<1>5. CASE StartupFails  BY <1>5 DEF StartupFails, BeginClose
<1>6. CASE AcceptFails  BY <1>6 DEF AcceptFails
<1>7. CASE KillSidecar  BY <1>7 DEF KillSidecar, ProcessGone
<1>8. CASE Signal  BY <1>8 DEF Signal
<1> HIDE DEF NothingForgotten, ProbesAreOwn, AliveMeansOpen
<1>9. QED
  BY <1>1, <1>2, <1>3, <1>4, <1>5, <1>6, <1>7, <1>8 DEF RelayNext, RelayFails

LEMMA ConnectionsSession ==
  ASSUME TypeOK, SessionStages, OneLease, NothingForgotten, ProbesAreOwn,
         AliveMeansOpen, SessionNext
  PROVE  (NothingForgotten /\ ProbesAreOwn /\ AliveMeansOpen)'
<1> USE DEF TypeOK, RelayTypeOK, SessionTypeOK, LauncherTypeOK, SessionStages,
       OneLease, ProbesAreOwn, NothingForgotten, AliveMeansOpen, ReadToEnd,
       relayVars, relayRest, runVars, sockVars, leaseVars, dirVars, connVars,
       leaseHolderVars, launcherVars, SessionRuns, Alive, Connectable, Free,
       Hungup
<1>1. ASSUME NEW c \in Conn, \/ DialLease(c) \/ WriteRole(c) \/ WriteRoleFails(c)
                             \/ AdoptLease(c) \/ LoseLease(c)
      PROVE  (NothingForgotten /\ ProbesAreOwn /\ AliveMeansOpen)'
  <2>1. CASE DialLease(c)  BY <2>1 DEF DialLease, Connect
  <2>2. CASE WriteRole(c)  BY <2>2 DEF WriteRole
  <2>3. CASE WriteRoleFails(c)  BY <2>3 DEF WriteRoleFails, Forget, ReadToEnd, Hangup
  <2>4. CASE AdoptLease(c)  BY <2>4 DEF AdoptLease, Hangup
  <2>5. CASE LoseLease(c)  BY <2>5 DEF LoseLease, Forget, ReadToEnd, Hangup
  <2>6. QED
    BY <1>1, <2>1, <2>2, <2>3, <2>4, <2>5
<1>2. CASE DialFails  BY <1>2 DEF DialFails
<1>3. CASE WatchLease  BY <1>3 DEF WatchLease
<1>4. CASE RetryElapsed  BY <1>4 DEF RetryElapsed
<1>5. CASE RetryStops  BY <1>5 DEF RetryStops
<1>6. CASE SessionServes  BY <1>6 DEF SessionServes
<1>7. CASE CloseLease  BY <1>7 DEF CloseLease, Hangup
<1>8. CASE SessionExits  BY <1>8 DEF SessionExits, SessionGone, Hangup
<1>9. CASE BootstrapFails  BY <1>9 DEF BootstrapFails
<1>10. CASE CancelSession  BY <1>10 DEF CancelSession
<1>11. CASE CloseChannel  BY <1>11 DEF CloseChannel
<1>12. CASE SessionKilled  BY <1>12 DEF SessionKilled, SessionGone, Hangup
<1> HIDE DEF NothingForgotten, ProbesAreOwn, AliveMeansOpen
<1>13. QED
  BY <1>1, <1>2, <1>3, <1>4, <1>5, <1>6, <1>7, <1>8, <1>9, <1>10, <1>11, <1>12
     DEF SessionNext, LeaseHolderStep, SupervisorStep

LEMMA ConnectionsLauncher ==
  ASSUME TypeOK, SessionStages, OneLease, NothingForgotten, ProbesAreOwn,
         AliveMeansOpen, NEW l \in Launcher, LauncherNext(l)
  PROVE  (NothingForgotten /\ ProbesAreOwn /\ AliveMeansOpen)'
<1> USE DEF TypeOK, RelayTypeOK, SessionTypeOK, LauncherTypeOK, SessionStages,
       OneLease, ProbesAreOwn, NothingForgotten, AliveMeansOpen, ReadToEnd,
       relayVars, relayRest, runVars, sockVars, leaseVars, dirVars, connVars,
       leaseHolderVars, launcherVars, SessionRuns, Alive, Connectable, Free,
       Hungup
<1>1. CASE LaunchSession(l)  BY <1>1 DEF LaunchSession, StartSession, Goto
<1>2. CASE SessionUntold(l)  BY <1>2 DEF SessionUntold, StartSession, Goto
<1>3. CASE StopSession(l)  BY <1>3 DEF StopSession, SessionGone, Hangup, Goto
<1>4. ASSUME NEW c \in Conn, SendProbe(l, c)
      PROVE  (NothingForgotten /\ ProbesAreOwn /\ AliveMeansOpen)'
  BY <1>4 DEF SendProbe, Connect, Goto
<1>5. ASSUME NEW c \in Conn, ReadAnswer(l, c)
      PROVE  (NothingForgotten /\ ProbesAreOwn /\ AliveMeansOpen)'
  BY <1>5 DEF ReadAnswer, Hangup, Goto
<1>6. CASE rpc = "none" /\ rpc' = "clearing" /\ UNCHANGED <<removing, sockVars, leaseVars,
               connVars, sess, leaseHolderVars, probe>>
  BY <1>6
<1>7. CASE UNCHANGED LeaseView
  BY <1>7 DEF LeaseView
<1> HIDE DEF NothingForgotten, ProbesAreOwn, AliveMeansOpen
<1>8. QED
  BY <1>1, <1>2, <1>3, <1>4, <1>5, <1>6, <1>7, LauncherMoves

LEMMA ConnectionsStep ==
  ASSUME TypeOK, SessionStages, OneLease, NothingForgotten, ProbesAreOwn,
         AliveMeansOpen, [Next]_vars
  PROVE  (NothingForgotten /\ ProbesAreOwn /\ AliveMeansOpen)'
<1>1. CASE UNCHANGED vars
  BY <1>1
     DEF NothingForgotten, ProbesAreOwn, AliveMeansOpen, ReadToEnd, vars,
         relayVars, runVars, sockVars, leaseVars, connVars, leaseHolderVars,
         launcherVars, SessionRuns, Alive
<1>2. QED
  BY <1>1, ConnectionsRelay, ConnectionsSession, ConnectionsLauncher DEF Next


-----------------------------------------------------------------------------
(* The lease, for transient and for kept sessions.                         *)

LEMMA LeaseInit == Init => LeaseInv
<1>1. Init => TypeOK
  BY TypeInit
<1>2. Init => BoundByStage /\ ClosingStages /\ Conversation
  BY DEF Init, RelayInit, BoundByStage, ClosingStages, Conversation, Closing
<1>3. Init => /\ SessionStages /\ OneLease /\ NothingForgotten /\ ProbesAreOwn
              /\ AliveMeansOpen
  BY DEF Init, RelayInit, SessionStages, OneLease, NothingForgotten,
     ProbesAreOwn, AliveMeansOpen, ReadToEnd, SessionRuns, Alive
<1>4. QED
  BY <1>1, <1>2, <1>3 DEF LeaseInv

LEMMA LeaseStep == LeaseInv /\ [Next]_vars => LeaseInv'
BY TypeStep, StagesStep, ConversationStep, HoldingStep, ConnectionsStep
   DEF LeaseInv

LEMMA LeaseInvariant == Spec => []LeaseInv
BY LeaseInit, LeaseStep, PTL DEF Spec

\* hostMCPChannel.close against holdLease, however they interleave: no lease is
\* installed in a closed channel, and when both are over nothing is open.
THEOREM NothingLeaks == Spec => []ClosedLeaksNothing
<1>1. LeaseInv => ClosedLeaksNothing
  BY DEF LeaseInv, SessionStages, OneLease, NothingForgotten,
     ClosedLeaksNothing
<1>2. QED
  BY <1>1, LeaseInvariant, PTL

\* Run: the directory is on its way out only when a lease read EOF and the
\* session that held that lease is done with its channel.
THEOREM RemovalNeedsTheEnd == Spec => []RemovalProvesSessionGone
<1>1. LeaseInv => RemovalProvesSessionGone
  BY DEF LeaseInv, Conversation, AliveMeansOpen, ReadToEnd,
     RemovalProvesSessionGone
<1>2. QED
  BY <1>1, LeaseInvariant, PTL

\* channel.bind and channel.close: nobody can connect to control.sock while an
\* endpoint socket is not bound.
ControlComesLast == Connectable => Endpoint \subseteq bound

THEOREM ControlAlwaysComesLast == Spec => []ControlComesLast
<1>1. LeaseInv => ControlComesLast
  BY DEF LeaseInv, BoundByStage, ControlComesLast, Connectable
<1>2. QED
  BY <1>1, LeaseInvariant, PTL

-----------------------------------------------------------------------------
(* Launchers of a transient session: who owns the generation.              *)

LEMMA OwnershipSession ==
  ASSUME ~KeepContainer, Ownership, SessionNext
  PROVE  Ownership'
<1>1. /\ sess' = "stopped" => sess = "stopped"
      /\ sess' = "none" <=> sess = "none"
      /\ sess = "gone" => sess' = "gone"
  BY DEF SessionNext, LeaseHolderStep, SupervisorStep, DialLease, WriteRole,
     WriteRoleFails, AdoptLease, LoseLease, DialFails, WatchLease,
     RetryElapsed, RetryStops, SessionServes, CloseLease, SessionExits,
     SessionGone, BootstrapFails, CancelSession, CloseChannel, SessionKilled,
     SessionRuns, Alive

<1>2. UNCHANGED launcherVars
  BY DEF SessionNext, LeaseHolderStep, SupervisorStep, DialLease, WriteRole,
     WriteRoleFails, AdoptLease, LoseLease, DialFails, WatchLease,
     RetryElapsed, RetryStops, SessionServes, CloseLease, SessionExits,
     BootstrapFails, CancelSession, CloseChannel, SessionKilled
<1>3. QED
  BY <1>1, <1>2 DEF Ownership, launcherVars

LEMMA OwnershipLauncher ==
  ASSUME ~KeepContainer, TypeOK, Ownership, NEW l \in Launcher, LauncherNext(l)
  PROVE  Ownership'
<1> USE DEF TypeOK, RelayTypeOK, SessionTypeOK, LauncherTypeOK, Ownership,
       relayVars, relayRest, runVars, sockVars, leaseVars, dirVars, connVars,
       leaseHolderVars, launcherVars, SessionRuns, Alive, Binding, Closing
<1>1. ASSUME NEW c \in Conn, SendProbe(l, c) \/ ReadAnswer(l, c)
      PROVE  Ownership'
  <2>1. CASE SendProbe(l, c)  BY <2>1 DEF SendProbe, Connect, Goto
  <2>2. CASE ReadAnswer(l, c)  BY <2>2 DEF ReadAnswer, Hangup, Goto
  <2>3. QED
    BY <1>1, <2>1, <2>2
<1>2. CASE PlanCold(l)  BY <1>2 DEF PlanCold, Begin, MakeDir, Goto
<1>3. CASE PlanRestart(l)  BY <1>3 DEF PlanRestart, Begin, MakeDir, Goto
<1>4. CASE PlanReuse(l)  BY <1>4 DEF PlanReuse, Begin, Goto
<1>5. CASE CreateSidecar(l)
  BY <1>5 DEF CreateSidecar, StartSidecar, Goto, Ensured
<1>6. CASE NameTaken(l)  BY <1>6 DEF NameTaken, Goto
<1>7. CASE InspectSidecar(l)  BY <1>7 DEF InspectSidecar, Goto, Ensured
<1>8. CASE AwaitSidecarName(l)  BY <1>8 DEF AwaitSidecarName, Goto, Ensured
<1>9. CASE LaunchFails(l)  BY <1>9 DEF LaunchFails, Goto, BeforeSidecar
<1>10. CASE SidecarUntold(l)  BY <1>10 DEF SidecarUntold, StartSidecar, Goto
<1>11. CASE LaunchSession(l)  BY <1>11 DEF LaunchSession, StartSession, Goto
<1>12. CASE SessionUntold(l)  BY <1>12 DEF SessionUntold, StartSession, Goto
<1>13. CASE AwaitSession(l)  BY <1>13 DEF AwaitSession, Goto
<1>14. CASE ProbeFails(l)  BY <1>14 DEF ProbeFails, Goto
<1>15. CASE RequireAlive(l)  BY <1>15 DEF RequireAlive, Goto
<1>16. CASE GiveUp(l)  BY <1>16 DEF GiveUp, Goto
<1>17. CASE SkipSession(l)  BY <1>17 DEF SkipSession, Goto
<1>18. CASE StopSession(l)  BY <1>18 DEF StopSession, SessionGone, Hangup, Goto
<1>19. CASE StopSessionFails(l)  BY <1>19 DEF StopSessionFails, Goto
<1>20. CASE StopSidecar(l)  BY <1>20 DEF StopSidecar, Goto, SidecarRuns
<1>21. CASE AwaitStop(l)  BY <1>21 DEF AwaitStop, CleanupOver, Goto
<1>22. CASE RemoveCandidate(l)
  BY <1>22 DEF RemoveCandidate, RemoveAll, CleanupOver, Goto
<1>23. CASE CleanupFails(l)  BY <1>23 DEF CleanupFails, CleanupOver, Goto
<1> HIDE DEF Ownership
<1>24. QED
  BY <1>1, <1>2, <1>3, <1>4, <1>5, <1>6, <1>7, <1>8, <1>9, <1>10, <1>11, <1>12,
     <1>13, <1>14, <1>15, <1>16, <1>17, <1>18, <1>19, <1>20, <1>21, <1>22,
     <1>23 DEF LauncherNext

LEMMA OwnershipStep ==
  ASSUME ~KeepContainer, TypeOK, Ownership, [Next]_vars
  PROVE  Ownership'
<1>1. CASE UNCHANGED <<sess, leaseHolderVars, launcherVars>>
  BY <1>1 DEF Ownership, launcherVars
<1>2. QED
  BY <1>1, OwnershipSession, OwnershipLauncher DEF Next, vars

-----------------------------------------------------------------------------
(* Every lease is the session's.                                           *)

LEMMA LeasesRelay ==
  ASSUME ~KeepContainer, LeaseInv, Ownership, LeasesAreMine, RelayNext,
         UNCHANGED <<sess, leaseHolderVars, launcherVars>>
  PROVE  LeasesAreMine'
<1> USE DEF LeaseInv, TypeOK, RelayTypeOK, SessionTypeOK, LauncherTypeOK,
       Conversation, SessionStages, OneLease, ProbesAreOwn, AliveMeansOpen,
       ReadToEnd, Ownership, LeasesAreMine, LeaseIsMine, relayVars, relayRest,
       runVars, sockVars, leaseVars, dirVars, connVars, leaseHolderVars,
       launcherVars, SessionRuns, Alive, Connectable, Free, Hungup
<1>1. ASSUME RunStep
      PROVE  LeasesAreMine'
  <2>1. CASE RemoveStaleSockets  BY <2>1 DEF RemoveStaleSockets
  <2>2. CASE BindImpossible  BY <2>2 DEF BindImpossible, BeginClose
  <2>3. CASE BindControl  BY <2>3 DEF BindControl, Socket
  <2>4. CASE ServeControl  BY <2>4 DEF ServeControl
  <2>5. CASE LeaseEstablished  BY <2>5 DEF LeaseEstablished
  <2>6. CASE StopOnSignal  BY <2>6 DEF StopOnSignal, BeginClose
  <2>7. CASE CloseControl  BY <2>7 DEF CloseControl
  <2>8. CASE Closed  BY <2>8 DEF Closed
  <2>9. CASE RemoveGeneration  BY <2>9 DEF RemoveGeneration, RemoveAll
  <2>10. CASE ExitSidecar  BY <2>10 DEF ExitSidecar, ProcessGone
  <2>11. ASSUME NEW i \in Endpoint, BindEndpoint(i) \/ CloseEndpoint(i)
         PROVE  LeasesAreMine'
    <3>1. CASE BindEndpoint(i)  BY <3>1 DEF BindEndpoint, Socket
    <3>2. CASE CloseEndpoint(i)  BY <3>2 DEF CloseEndpoint
    <3>3. QED
      BY <2>11, <3>1, <3>2
  <2>12. ASSUME NEW c \in Conn, LeaseEnded(c)
         PROVE  LeasesAreMine'
    <3>1. removing' => handler[c] = "eof"
      BY <2>12, Zenon DEF LeaseEnded, BeginClose
    <3>2. rpc' = "closing" /\ c \in ended /\ UNCHANGED <<leaseVars, connVars>>
      BY <2>12 DEF LeaseEnded, BeginClose
    <3>3. QED
      BY <3>1, <3>2
  <2> HIDE DEF LeasesAreMine
  <2>13. QED
    BY <1>1, <2>1, <2>2, <2>3, <2>4, <2>5, <2>6, <2>7, <2>8, <2>9, <2>10,
       <2>11, <2>12 DEF RunStep
<1>2. ASSUME NEW c \in Conn, HandlerStep(c) \/ LeaseReadEnds(c, "readError")
      PROVE  LeasesAreMine'
  <2>1. CASE Accept(c)  BY <2>1 DEF Accept, Handle
  <2>2. CASE LoadLeaseHeld(c)  BY <2>2 DEF LoadLeaseHeld, ReadRole, Handle
  <2>3. CASE LoadShuttingDown(c)  BY <2>3 DEF LoadShuttingDown, Handle
  <2>4. CASE GrantLease(c)  BY <2>4 DEF GrantLease, ReadRole, Handle
  <2>5. CASE RefuseLease(c)  BY <2>5 DEF RefuseLease, ReadRole, Handle
  <2>6. CASE LeaseReadEnds(c, "readEOF")  BY <2>6 DEF LeaseReadEnds, Handle
  <2>7. CASE SendOutcome(c)  BY <2>7 DEF SendOutcome
  <2>8. CASE RoleMissing(c)  BY <2>8 DEF RoleMissing, Handle
  <2>9. CASE LeaseReadEnds(c, "readError")  BY <2>9 DEF LeaseReadEnds, Handle
  <2>10. CASE WriteReady(c)  BY <2>10 DEF WriteReady, Handle
  <2>11. CASE ReleaseLease(c)  BY <2>11 DEF ReleaseLease, Handle
  <2> HIDE DEF LeasesAreMine
  <2>12. QED
    BY <1>2, <2>1, <2>2, <2>3, <2>4, <2>5, <2>6, <2>7, <2>8, <2>9, <2>10,
       <2>11 DEF HandlerStep
<1>3. CASE Expire  BY <1>3 DEF Expire, InitialLeaseTimeout, BeginClose
<1>4. CASE ReleaseName  BY <1>4 DEF ReleaseName
<1>5. CASE StartupFails  BY <1>5 DEF StartupFails, BeginClose
<1>6. CASE AcceptFails  BY <1>6 DEF AcceptFails
<1>7. CASE KillSidecar  BY <1>7 DEF KillSidecar, ProcessGone
<1>8. CASE Signal  BY <1>8 DEF Signal
<1> HIDE DEF LeasesAreMine
<1>9. QED
  BY <1>1, <1>2, <1>3, <1>4, <1>5, <1>6, <1>7, <1>8 DEF RelayNext, RelayFails

LEMMA LeasesSession ==
  ASSUME ~KeepContainer, LeaseInv, Ownership, LeasesAreMine, SessionNext
  PROVE  LeasesAreMine'
<1> USE DEF LeaseInv, TypeOK, RelayTypeOK, SessionTypeOK, LauncherTypeOK,
       Conversation, SessionStages, OneLease, ProbesAreOwn, AliveMeansOpen,
       ReadToEnd, Ownership, LeasesAreMine, LeaseIsMine, relayVars, relayRest,
       runVars, sockVars, leaseVars, dirVars, connVars, leaseHolderVars,
       launcherVars, SessionRuns, Alive, Connectable, Free, Hungup
<1>1. ASSUME NEW c \in Conn, \/ DialLease(c) \/ WriteRole(c) \/ WriteRoleFails(c)
                             \/ AdoptLease(c) \/ LoseLease(c)
      PROVE  LeasesAreMine'
  <2>1. CASE DialLease(c)  BY <2>1 DEF DialLease, Connect
  <2>2. CASE WriteRole(c)  BY <2>2 DEF WriteRole
  <2>3. CASE WriteRoleFails(c)  BY <2>3 DEF WriteRoleFails, Forget, ReadToEnd, Hangup
  <2>4. CASE AdoptLease(c)  BY <2>4 DEF AdoptLease, Hangup
  <2>5. CASE LoseLease(c)  BY <2>5 DEF LoseLease, Forget, ReadToEnd, Hangup
  <2>6. QED
    BY <1>1, <2>1, <2>2, <2>3, <2>4, <2>5
<1>2. CASE DialFails  BY <1>2 DEF DialFails
<1>3. CASE WatchLease  BY <1>3 DEF WatchLease
<1>4. CASE RetryElapsed  BY <1>4 DEF RetryElapsed
<1>5. CASE RetryStops  BY <1>5 DEF RetryStops
<1>6. CASE SessionServes  BY <1>6 DEF SessionServes
<1>7. CASE CloseLease  BY <1>7 DEF CloseLease, Hangup
<1>8. CASE SessionExits  BY <1>8 DEF SessionExits, SessionGone, Hangup
<1>9. CASE BootstrapFails  BY <1>9 DEF BootstrapFails
<1>10. CASE CancelSession  BY <1>10 DEF CancelSession
<1>11. CASE CloseChannel  BY <1>11 DEF CloseChannel
<1>12. CASE SessionKilled  BY <1>12 DEF SessionKilled, SessionGone, Hangup
<1> HIDE DEF LeasesAreMine
<1>13. QED
  BY <1>1, <1>2, <1>3, <1>4, <1>5, <1>6, <1>7, <1>8, <1>9, <1>10, <1>11, <1>12
     DEF SessionNext, LeaseHolderStep, SupervisorStep

LEMMA LeasesLauncher ==
  ASSUME ~KeepContainer, LeaseInv, Ownership, LeasesAreMine, NEW l \in Launcher, LauncherNext(l)
  PROVE  LeasesAreMine'
<1> USE DEF LeaseInv, TypeOK, RelayTypeOK, SessionTypeOK, LauncherTypeOK,
       Conversation, SessionStages, OneLease, ProbesAreOwn, AliveMeansOpen,
       ReadToEnd, Ownership, LeasesAreMine, LeaseIsMine, relayVars, relayRest,
       runVars, sockVars, leaseVars, dirVars, connVars, leaseHolderVars,
       launcherVars, SessionRuns, Alive, Connectable, Free, Hungup
<1>1. CASE LaunchSession(l)  BY <1>1 DEF LaunchSession, StartSession, Goto
<1>2. CASE SessionUntold(l)  BY <1>2 DEF SessionUntold, StartSession, Goto
<1>3. CASE StopSession(l)  BY <1>3 DEF StopSession, SessionGone, Hangup, Goto
<1>4. ASSUME NEW c \in Conn, SendProbe(l, c)
      PROVE  LeasesAreMine'
  BY <1>4 DEF SendProbe, Connect, Goto
<1>5. ASSUME NEW c \in Conn, ReadAnswer(l, c)
      PROVE  LeasesAreMine'
  BY <1>5 DEF ReadAnswer, Hangup, Goto
<1>6. CASE rpc = "none" /\ rpc' = "clearing" /\ UNCHANGED <<removing, sockVars, leaseVars,
               connVars, sess, leaseHolderVars, probe>>
  BY <1>6
<1>7. CASE UNCHANGED LeaseView
  BY <1>7 DEF LeaseView
<1> HIDE DEF LeasesAreMine
<1>8. QED
  BY <1>1, <1>2, <1>3, <1>4, <1>5, <1>6, <1>7, LauncherMoves

LEMMA LeasesStep ==
  ASSUME ~KeepContainer, LeaseInv, Ownership, LeasesAreMine, [Next]_vars
  PROVE  LeasesAreMine'
<1>1. CASE UNCHANGED vars
  BY <1>1
     DEF LeasesAreMine, LeaseIsMine, ReadToEnd, vars, relayVars, runVars,
         sockVars, leaseVars, connVars, leaseHolderVars, launcherVars,
         SessionRuns, Alive
<1>2. QED
  BY <1>1, LeasesRelay, LeasesSession, LeasesLauncher DEF Next

-----------------------------------------------------------------------------
(* The directory and what is in it.                                        *)

LEMMA DirectoryRelay ==
  ASSUME ~KeepContainer, LeaseInv, Ownership, LeasesAreMine, SocketsAreInPlace,
         MountIsIntact, RelayNext,
         UNCHANGED <<sess, leaseHolderVars, launcherVars>>
  PROVE  (SocketsAreInPlace /\ MountIsIntact)'
<1> USE DEF LeaseInv, TypeOK, RelayTypeOK, SessionTypeOK, LauncherTypeOK,
       BoundByStage, ClosingStages, Conversation, SessionStages,
       AliveMeansOpen, ReadToEnd, Ownership, LeasesAreMine, LeaseIsMine,
       SocketsAreInPlace, MountIsIntact, relayVars, relayRest, runVars,
       sockVars, leaseVars, dirVars, connVars, leaseHolderVars, launcherVars,
       SessionRuns, Alive, Closing, Socket, Endpoint, Control
<1>1. ASSUME RunStep
      PROVE  (SocketsAreInPlace /\ MountIsIntact)'
  <2>1. CASE RemoveStaleSockets  BY <2>1 DEF RemoveStaleSockets
  <2>2. CASE BindImpossible  BY <2>2 DEF BindImpossible, BeginClose
  <2>3. CASE BindControl  BY <2>3 DEF BindControl, Socket
  <2>4. CASE ServeControl  BY <2>4 DEF ServeControl
  <2>5. CASE LeaseEstablished  BY <2>5 DEF LeaseEstablished
  <2>6. CASE StopOnSignal  BY <2>6 DEF StopOnSignal, BeginClose
  <2>7. CASE CloseControl  BY <2>7 DEF CloseControl
  <2>8. CASE Closed  BY <2>8 DEF Closed
  <2>9. CASE RemoveGeneration  BY <2>9 DEF RemoveGeneration, RemoveAll
  <2>10. CASE ExitSidecar  BY <2>10 DEF ExitSidecar, ProcessGone
  <2>11. ASSUME NEW i \in Endpoint, BindEndpoint(i) \/ CloseEndpoint(i)
         PROVE  (SocketsAreInPlace /\ MountIsIntact)'
    <3>1. CASE BindEndpoint(i)  BY <3>1 DEF BindEndpoint, Socket
    <3>2. CASE CloseEndpoint(i)  BY <3>2 DEF CloseEndpoint
    <3>3. QED
      BY <2>11, <3>1, <3>2
  <2>12. ASSUME NEW c \in Conn, LeaseEnded(c)
         PROVE  (SocketsAreInPlace /\ MountIsIntact)'
    <3>1. removing' => handler[c] = "eof"
      BY <2>12, Zenon DEF LeaseEnded, BeginClose
    <3>2. rpc' = "closing" /\ UNCHANGED <<bound, dirVars>>
      BY <2>12 DEF LeaseEnded, BeginClose
    <3>3. QED
      BY <3>1, <3>2
  <2> HIDE DEF SocketsAreInPlace, MountIsIntact
  <2>13. QED
    BY <1>1, <2>1, <2>2, <2>3, <2>4, <2>5, <2>6, <2>7, <2>8, <2>9, <2>10,
       <2>11, <2>12 DEF RunStep
<1>2. ASSUME NEW c \in Conn, HandlerStep(c) \/ LeaseReadEnds(c, "readError")
      PROVE  (SocketsAreInPlace /\ MountIsIntact)'
  <2>1. CASE Accept(c)  BY <2>1 DEF Accept, Handle
  <2>2. CASE LoadLeaseHeld(c)  BY <2>2 DEF LoadLeaseHeld, ReadRole, Handle
  <2>3. CASE LoadShuttingDown(c)  BY <2>3 DEF LoadShuttingDown, Handle
  <2>4. CASE GrantLease(c)  BY <2>4 DEF GrantLease, ReadRole, Handle
  <2>5. CASE RefuseLease(c)  BY <2>5 DEF RefuseLease, ReadRole, Handle
  <2>6. CASE LeaseReadEnds(c, "readEOF")  BY <2>6 DEF LeaseReadEnds, Handle
  <2>7. CASE SendOutcome(c)  BY <2>7 DEF SendOutcome
  <2>8. CASE RoleMissing(c)  BY <2>8 DEF RoleMissing, Handle
  <2>9. CASE LeaseReadEnds(c, "readError")  BY <2>9 DEF LeaseReadEnds, Handle
  <2>10. CASE WriteReady(c)  BY <2>10 DEF WriteReady, Handle
  <2>11. CASE ReleaseLease(c)  BY <2>11 DEF ReleaseLease, Handle
  <2> HIDE DEF SocketsAreInPlace, MountIsIntact
  <2>12. QED
    BY <1>2, <2>1, <2>2, <2>3, <2>4, <2>5, <2>6, <2>7, <2>8, <2>9, <2>10,
       <2>11 DEF HandlerStep
<1>3. CASE Expire  BY <1>3 DEF Expire, InitialLeaseTimeout, BeginClose
<1>4. CASE ReleaseName  BY <1>4 DEF ReleaseName
<1>5. CASE StartupFails  BY <1>5 DEF StartupFails, BeginClose
<1>6. CASE AcceptFails  BY <1>6 DEF AcceptFails
<1>7. CASE KillSidecar  BY <1>7 DEF KillSidecar, ProcessGone
<1>8. CASE Signal  BY <1>8 DEF Signal
<1> HIDE DEF SocketsAreInPlace, MountIsIntact
<1>9. QED
  BY <1>1, <1>2, <1>3, <1>4, <1>5, <1>6, <1>7, <1>8 DEF RelayNext, RelayFails

LEMMA DirectorySession ==
  ASSUME ~KeepContainer, LeaseInv, Ownership, LeasesAreMine, SocketsAreInPlace,
         MountIsIntact, SessionNext
  PROVE  (SocketsAreInPlace /\ MountIsIntact)'
<1> USE DEF LeaseInv, TypeOK, RelayTypeOK, SessionTypeOK, LauncherTypeOK,
       BoundByStage, ClosingStages, Conversation, SessionStages,
       AliveMeansOpen, ReadToEnd, Ownership, LeasesAreMine, LeaseIsMine,
       SocketsAreInPlace, MountIsIntact, relayVars, relayRest, runVars,
       sockVars, leaseVars, dirVars, connVars, leaseHolderVars, launcherVars,
       SessionRuns, Alive, Closing, Socket, Endpoint, Control
<1>1. ASSUME NEW c \in Conn, \/ DialLease(c) \/ WriteRole(c) \/ WriteRoleFails(c)
                             \/ AdoptLease(c) \/ LoseLease(c)
      PROVE  (SocketsAreInPlace /\ MountIsIntact)'
  <2>1. CASE DialLease(c)  BY <2>1 DEF DialLease, Connect
  <2>2. CASE WriteRole(c)  BY <2>2 DEF WriteRole
  <2>3. CASE WriteRoleFails(c)  BY <2>3 DEF WriteRoleFails, Forget, ReadToEnd, Hangup
  <2>4. CASE AdoptLease(c)  BY <2>4 DEF AdoptLease, Hangup
  <2>5. CASE LoseLease(c)  BY <2>5 DEF LoseLease, Forget, ReadToEnd, Hangup
  <2>6. QED
    BY <1>1, <2>1, <2>2, <2>3, <2>4, <2>5
<1>2. CASE DialFails  BY <1>2 DEF DialFails
<1>3. CASE WatchLease  BY <1>3 DEF WatchLease
<1>4. CASE RetryElapsed  BY <1>4 DEF RetryElapsed
<1>5. CASE RetryStops  BY <1>5 DEF RetryStops
<1>6. CASE SessionServes  BY <1>6 DEF SessionServes
<1>7. CASE CloseLease  BY <1>7 DEF CloseLease, Hangup
<1>8. CASE SessionExits  BY <1>8 DEF SessionExits, SessionGone, Hangup
<1>9. CASE BootstrapFails  BY <1>9 DEF BootstrapFails
<1>10. CASE CancelSession  BY <1>10 DEF CancelSession
<1>11. CASE CloseChannel  BY <1>11 DEF CloseChannel
<1>12. CASE SessionKilled  BY <1>12 DEF SessionKilled, SessionGone, Hangup
<1> HIDE DEF SocketsAreInPlace, MountIsIntact
<1>13. QED
  BY <1>1, <1>2, <1>3, <1>4, <1>5, <1>6, <1>7, <1>8, <1>9, <1>10, <1>11, <1>12
     DEF SessionNext, LeaseHolderStep, SupervisorStep

LEMMA DirectoryLauncher ==
  ASSUME ~KeepContainer, LeaseInv, Ownership, LeasesAreMine, SocketsAreInPlace,
         MountIsIntact, NEW l \in Launcher, LauncherNext(l)
  PROVE  (SocketsAreInPlace /\ MountIsIntact)'
<1> USE DEF LeaseInv, TypeOK, RelayTypeOK, SessionTypeOK, LauncherTypeOK,
       BoundByStage, ClosingStages, Conversation, SessionStages,
       AliveMeansOpen, ReadToEnd, Ownership, LeasesAreMine, LeaseIsMine,
       SocketsAreInPlace, MountIsIntact, relayVars, relayRest, runVars,
       sockVars, leaseVars, dirVars, connVars, leaseHolderVars, launcherVars,
       SessionRuns, Alive, Closing, Socket, Endpoint, Control
<1>1. ASSUME NEW c \in Conn, SendProbe(l, c) \/ ReadAnswer(l, c)
      PROVE  (SocketsAreInPlace /\ MountIsIntact)'
  <2>1. CASE SendProbe(l, c)  BY <2>1 DEF SendProbe, Connect, Goto
  <2>2. CASE ReadAnswer(l, c)  BY <2>2 DEF ReadAnswer, Hangup, Goto
  <2>3. QED
    BY <1>1, <2>1, <2>2
<1>2. CASE PlanCold(l)  BY <1>2 DEF PlanCold, Begin, MakeDir, Goto
<1>3. CASE PlanRestart(l)  BY <1>3 DEF PlanRestart, Begin, MakeDir, Goto
<1>4. CASE PlanReuse(l)  BY <1>4 DEF PlanReuse, Begin, Goto
<1>5. CASE CreateSidecar(l)
  BY <1>5 DEF CreateSidecar, StartSidecar, Goto, Ensured
<1>6. CASE NameTaken(l)  BY <1>6 DEF NameTaken, Goto
<1>7. CASE InspectSidecar(l)  BY <1>7 DEF InspectSidecar, Goto, Ensured
<1>8. CASE AwaitSidecarName(l)  BY <1>8 DEF AwaitSidecarName, Goto, Ensured
<1>9. CASE LaunchFails(l)  BY <1>9 DEF LaunchFails, Goto, BeforeSidecar
<1>10. CASE SidecarUntold(l)  BY <1>10 DEF SidecarUntold, StartSidecar, Goto
<1>11. CASE LaunchSession(l)  BY <1>11 DEF LaunchSession, StartSession, Goto
<1>12. CASE SessionUntold(l)  BY <1>12 DEF SessionUntold, StartSession, Goto
<1>13. CASE AwaitSession(l)  BY <1>13 DEF AwaitSession, Goto
<1>14. CASE ProbeFails(l)  BY <1>14 DEF ProbeFails, Goto
<1>15. CASE RequireAlive(l)  BY <1>15 DEF RequireAlive, Goto
<1>16. CASE GiveUp(l)  BY <1>16 DEF GiveUp, Goto
<1>17. CASE SkipSession(l)  BY <1>17 DEF SkipSession, Goto
<1>18. CASE StopSession(l)  BY <1>18 DEF StopSession, SessionGone, Hangup, Goto
<1>19. CASE StopSessionFails(l)  BY <1>19 DEF StopSessionFails, Goto
<1>20. CASE StopSidecar(l)  BY <1>20 DEF StopSidecar, Goto, SidecarRuns
<1>21. CASE AwaitStop(l)  BY <1>21 DEF AwaitStop, CleanupOver, Goto
<1>22. CASE RemoveCandidate(l)
  BY <1>22 DEF RemoveCandidate, RemoveAll, CleanupOver, Goto
<1>23. CASE CleanupFails(l)  BY <1>23 DEF CleanupFails, CleanupOver, Goto
<1> HIDE DEF SocketsAreInPlace, MountIsIntact
<1>24. QED
  BY <1>1, <1>2, <1>3, <1>4, <1>5, <1>6, <1>7, <1>8, <1>9, <1>10, <1>11, <1>12,
     <1>13, <1>14, <1>15, <1>16, <1>17, <1>18, <1>19, <1>20, <1>21, <1>22,
     <1>23 DEF LauncherNext

LEMMA DirectoryStep ==
  ASSUME ~KeepContainer, LeaseInv, Ownership, LeasesAreMine, SocketsAreInPlace,
         MountIsIntact, [Next]_vars
  PROVE  (SocketsAreInPlace /\ MountIsIntact)'
<1>1. CASE UNCHANGED vars
  BY <1>1
     DEF SocketsAreInPlace, MountIsIntact, vars, relayVars, sockVars, dirVars,
         launcherVars, Alive
<1>2. QED
  BY <1>1, DirectoryRelay, DirectorySession, DirectoryLauncher DEF Next

-----------------------------------------------------------------------------
(* A sidecar whose directory is gone answers no probe.                     *)

LEMMA QuietRelay ==
  ASSUME ~KeepContainer, LeaseInv, Ownership, LeasesAreMine,
         NoDirectoryNoLease, RelayNext,
         UNCHANGED <<sess, leaseHolderVars, launcherVars>>
  PROVE  NoDirectoryNoLease'
<1> USE DEF LeaseInv, TypeOK, RelayTypeOK, SessionTypeOK, LauncherTypeOK,
       BoundByStage, ClosingStages, Conversation, SessionStages, OneLease,
       ProbesAreOwn, AliveMeansOpen, ReadToEnd, Ownership, LeasesAreMine,
       LeaseIsMine, NoDirectoryNoLease, Quiet, relayVars, relayRest, runVars,
       sockVars, leaseVars, dirVars, connVars, leaseHolderVars, launcherVars,
       SessionRuns, Alive, Closing, Hungup, Connectable, Free
<1>1. ASSUME RunStep
      PROVE  NoDirectoryNoLease'
  <2>1. CASE RemoveStaleSockets  BY <2>1 DEF RemoveStaleSockets
  <2>2. CASE BindImpossible  BY <2>2 DEF BindImpossible, BeginClose
  <2>3. CASE BindControl  BY <2>3 DEF BindControl, Socket
  <2>4. CASE ServeControl  BY <2>4 DEF ServeControl
  <2>5. CASE LeaseEstablished  BY <2>5 DEF LeaseEstablished
  <2>6. CASE StopOnSignal  BY <2>6 DEF StopOnSignal, BeginClose
  <2>7. CASE CloseControl  BY <2>7 DEF CloseControl
  <2>8. CASE Closed  BY <2>8 DEF Closed
  <2>9. CASE RemoveGeneration  BY <2>9 DEF RemoveGeneration, RemoveAll
  <2>10. CASE ExitSidecar  BY <2>10 DEF ExitSidecar, ProcessGone
  <2>11. ASSUME NEW i \in Endpoint, BindEndpoint(i) \/ CloseEndpoint(i)
         PROVE  NoDirectoryNoLease'
    <3>1. CASE BindEndpoint(i)  BY <3>1 DEF BindEndpoint, Socket
    <3>2. CASE CloseEndpoint(i)  BY <3>2 DEF CloseEndpoint
    <3>3. QED
      BY <2>11, <3>1, <3>2
  <2>12. ASSUME NEW c \in Conn, LeaseEnded(c)
         PROVE  NoDirectoryNoLease'
    <3>1. removing' => handler[c] = "eof"
      BY <2>12, Zenon DEF LeaseEnded, BeginClose
    <3>2. rpc' = "closing" /\ UNCHANGED <<leaseVars, connVars, dirVars>> /\ shuttingDown'
      BY <2>12 DEF LeaseEnded, BeginClose
    <3>3. QED
      BY <3>1, <3>2
  <2> HIDE DEF NoDirectoryNoLease
  <2>13. QED
    BY <1>1, <2>1, <2>2, <2>3, <2>4, <2>5, <2>6, <2>7, <2>8, <2>9, <2>10,
       <2>11, <2>12 DEF RunStep
<1>2. ASSUME NEW c \in Conn, HandlerStep(c) \/ LeaseReadEnds(c, "readError")
      PROVE  NoDirectoryNoLease'
  <2>1. CASE Accept(c)  BY <2>1 DEF Accept, Handle
  <2>2. CASE LoadLeaseHeld(c)  BY <2>2 DEF LoadLeaseHeld, ReadRole, Handle
  <2>3. CASE LoadShuttingDown(c)  BY <2>3 DEF LoadShuttingDown, Handle
  <2>4. CASE GrantLease(c)  BY <2>4 DEF GrantLease, ReadRole, Handle
  <2>5. CASE RefuseLease(c)  BY <2>5 DEF RefuseLease, ReadRole, Handle
  <2>6. CASE LeaseReadEnds(c, "readEOF")  BY <2>6 DEF LeaseReadEnds, Handle
  <2>7. CASE SendOutcome(c)  BY <2>7 DEF SendOutcome
  <2>8. CASE RoleMissing(c)  BY <2>8 DEF RoleMissing, Handle
  <2>9. CASE LeaseReadEnds(c, "readError")  BY <2>9 DEF LeaseReadEnds, Handle
  <2>10. CASE WriteReady(c)  BY <2>10 DEF WriteReady, Handle
  <2>11. CASE ReleaseLease(c)  BY <2>11 DEF ReleaseLease, Handle
  <2> HIDE DEF NoDirectoryNoLease
  <2>12. QED
    BY <1>2, <2>1, <2>2, <2>3, <2>4, <2>5, <2>6, <2>7, <2>8, <2>9, <2>10,
       <2>11 DEF HandlerStep
<1>3. CASE Expire  BY <1>3 DEF Expire, InitialLeaseTimeout, BeginClose
<1>4. CASE ReleaseName  BY <1>4 DEF ReleaseName
<1>5. CASE StartupFails  BY <1>5 DEF StartupFails, BeginClose
<1>6. CASE AcceptFails  BY <1>6 DEF AcceptFails
<1>7. CASE KillSidecar  BY <1>7 DEF KillSidecar, ProcessGone
<1>8. CASE Signal  BY <1>8 DEF Signal
<1> HIDE DEF NoDirectoryNoLease
<1>9. QED
  BY <1>1, <1>2, <1>3, <1>4, <1>5, <1>6, <1>7, <1>8 DEF RelayNext, RelayFails

LEMMA QuietSession ==
  ASSUME ~KeepContainer, LeaseInv, Ownership, LeasesAreMine,
         NoDirectoryNoLease, SessionNext
  PROVE  NoDirectoryNoLease'
<1> USE DEF LeaseInv, TypeOK, RelayTypeOK, SessionTypeOK, LauncherTypeOK,
       BoundByStage, ClosingStages, Conversation, SessionStages, OneLease,
       ProbesAreOwn, AliveMeansOpen, ReadToEnd, Ownership, LeasesAreMine,
       LeaseIsMine, NoDirectoryNoLease, Quiet, relayVars, relayRest, runVars,
       sockVars, leaseVars, dirVars, connVars, leaseHolderVars, launcherVars,
       SessionRuns, Alive, Closing, Hungup, Connectable, Free
<1>1. ASSUME NEW c \in Conn, \/ DialLease(c) \/ WriteRole(c) \/ WriteRoleFails(c)
                             \/ AdoptLease(c) \/ LoseLease(c)
      PROVE  NoDirectoryNoLease'
  <2>1. CASE DialLease(c)  BY <2>1 DEF DialLease, Connect
  <2>2. CASE WriteRole(c)  BY <2>2 DEF WriteRole
  <2>3. CASE WriteRoleFails(c)  BY <2>3 DEF WriteRoleFails, Forget, ReadToEnd, Hangup
  <2>4. CASE AdoptLease(c)  BY <2>4 DEF AdoptLease, Hangup
  <2>5. CASE LoseLease(c)  BY <2>5 DEF LoseLease, Forget, ReadToEnd, Hangup
  <2>6. QED
    BY <1>1, <2>1, <2>2, <2>3, <2>4, <2>5
<1>2. CASE DialFails  BY <1>2 DEF DialFails
<1>3. CASE WatchLease  BY <1>3 DEF WatchLease
<1>4. CASE RetryElapsed  BY <1>4 DEF RetryElapsed
<1>5. CASE RetryStops  BY <1>5 DEF RetryStops
<1>6. CASE SessionServes  BY <1>6 DEF SessionServes
<1>7. CASE CloseLease  BY <1>7 DEF CloseLease, Hangup
<1>8. CASE SessionExits  BY <1>8 DEF SessionExits, SessionGone, Hangup
<1>9. CASE BootstrapFails  BY <1>9 DEF BootstrapFails
<1>10. CASE CancelSession  BY <1>10 DEF CancelSession
<1>11. CASE CloseChannel  BY <1>11 DEF CloseChannel
<1>12. CASE SessionKilled  BY <1>12 DEF SessionKilled, SessionGone, Hangup
<1> HIDE DEF NoDirectoryNoLease
<1>13. QED
  BY <1>1, <1>2, <1>3, <1>4, <1>5, <1>6, <1>7, <1>8, <1>9, <1>10, <1>11, <1>12
     DEF SessionNext, LeaseHolderStep, SupervisorStep

LEMMA QuietLauncher ==
  ASSUME ~KeepContainer, LeaseInv, Ownership, LeasesAreMine,
         NoDirectoryNoLease, NEW l \in Launcher, LauncherNext(l)
  PROVE  NoDirectoryNoLease'
<1> USE DEF LeaseInv, TypeOK, RelayTypeOK, SessionTypeOK, LauncherTypeOK,
       BoundByStage, ClosingStages, Conversation, SessionStages, OneLease,
       ProbesAreOwn, AliveMeansOpen, ReadToEnd, Ownership, LeasesAreMine,
       LeaseIsMine, NoDirectoryNoLease, Quiet, relayVars, relayRest, runVars,
       sockVars, leaseVars, dirVars, connVars, leaseHolderVars, launcherVars,
       SessionRuns, Alive, Closing, Hungup, Connectable, Free
<1>1. ASSUME NEW c \in Conn, SendProbe(l, c) \/ ReadAnswer(l, c)
      PROVE  NoDirectoryNoLease'
  <2>1. CASE SendProbe(l, c)  BY <2>1 DEF SendProbe, Connect, Goto
  <2>2. CASE ReadAnswer(l, c)  BY <2>2 DEF ReadAnswer, Hangup, Goto
  <2>3. QED
    BY <1>1, <2>1, <2>2
<1>2. CASE PlanCold(l)  BY <1>2 DEF PlanCold, Begin, MakeDir, Goto
<1>3. CASE PlanRestart(l)  BY <1>3 DEF PlanRestart, Begin, MakeDir, Goto
<1>4. CASE PlanReuse(l)  BY <1>4 DEF PlanReuse, Begin, Goto
<1>5. CASE CreateSidecar(l)
  BY <1>5 DEF CreateSidecar, StartSidecar, Goto, Ensured
<1>6. CASE NameTaken(l)  BY <1>6 DEF NameTaken, Goto
<1>7. CASE InspectSidecar(l)  BY <1>7 DEF InspectSidecar, Goto, Ensured
<1>8. CASE AwaitSidecarName(l)  BY <1>8 DEF AwaitSidecarName, Goto, Ensured
<1>9. CASE LaunchFails(l)  BY <1>9 DEF LaunchFails, Goto, BeforeSidecar
<1>10. CASE SidecarUntold(l)  BY <1>10 DEF SidecarUntold, StartSidecar, Goto
<1>11. CASE LaunchSession(l)  BY <1>11 DEF LaunchSession, StartSession, Goto
<1>12. CASE SessionUntold(l)  BY <1>12 DEF SessionUntold, StartSession, Goto
<1>13. CASE AwaitSession(l)  BY <1>13 DEF AwaitSession, Goto
<1>14. CASE ProbeFails(l)  BY <1>14 DEF ProbeFails, Goto
<1>15. CASE RequireAlive(l)  BY <1>15 DEF RequireAlive, Goto
<1>16. CASE GiveUp(l)  BY <1>16 DEF GiveUp, Goto
<1>17. CASE SkipSession(l)  BY <1>17 DEF SkipSession, Goto
<1>18. CASE StopSession(l)  BY <1>18 DEF StopSession, SessionGone, Hangup, Goto
<1>19. CASE StopSessionFails(l)  BY <1>19 DEF StopSessionFails, Goto
<1>20. CASE StopSidecar(l)  BY <1>20 DEF StopSidecar, Goto, SidecarRuns
<1>21. CASE AwaitStop(l)  BY <1>21 DEF AwaitStop, CleanupOver, Goto
<1>22. CASE RemoveCandidate(l)
  BY <1>22 DEF RemoveCandidate, RemoveAll, CleanupOver, Goto
<1>23. CASE CleanupFails(l)  BY <1>23 DEF CleanupFails, CleanupOver, Goto
<1> HIDE DEF NoDirectoryNoLease
<1>24. QED
  BY <1>1, <1>2, <1>3, <1>4, <1>5, <1>6, <1>7, <1>8, <1>9, <1>10, <1>11, <1>12,
     <1>13, <1>14, <1>15, <1>16, <1>17, <1>18, <1>19, <1>20, <1>21, <1>22,
     <1>23 DEF LauncherNext

LEMMA QuietStep ==
  ASSUME ~KeepContainer, LeaseInv, Ownership, LeasesAreMine,
         NoDirectoryNoLease, [Next]_vars
  PROVE  NoDirectoryNoLease'
<1>1. CASE UNCHANGED vars
  BY <1>1
     DEF NoDirectoryNoLease, Quiet, Hungup, ReadToEnd, vars, relayVars,
         sockVars, leaseVars, dirVars, connVars, leaseHolderVars, launcherVars
<1>2. QED
  BY <1>1, QuietRelay, QuietSession, QuietLauncher DEF Next

-----------------------------------------------------------------------------
(* The launchers and the lease of a transient session, together.           *)

LEMMA TransientInit == Init => TransientInv
<1>1. Init => Ownership /\ LeasesAreMine /\ SocketsAreInPlace
  BY DEF Init, RelayInit, Ownership, LeasesAreMine, LeaseIsMine, ReadToEnd,
     SocketsAreInPlace
<1>2. Init => NoDirectoryNoLease /\ MountIsIntact
  BY DEF Init, RelayInit, NoDirectoryNoLease, Quiet, MountIsIntact, Alive
<1>3. QED
  BY <1>1, <1>2 DEF TransientInv

LEMMA TransientStep ==
  ASSUME ~KeepContainer, LeaseInv, TransientInv, [Next]_vars
  PROVE  TransientInv'
<1>1. Ownership' /\ LeasesAreMine'
  BY OwnershipStep, LeasesStep DEF LeaseInv, TransientInv
<1>2. SocketsAreInPlace' /\ MountIsIntact' /\ NoDirectoryNoLease'
  BY DirectoryStep, QuietStep DEF TransientInv
<1>3. QED
  BY <1>1, <1>2 DEF TransientInv

LEMMA TransientInvariant ==
  ASSUME ~KeepContainer
  PROVE  Spec => []TransientInv
BY TransientInit, TransientStep, LeaseInvariant, PTL DEF Spec

\* Docker's --rm sessions, however many launchers race for them: a session that
\* runs keeps its directory mounted at the path, through every cleanup and
\* through the relay's own removal, unless its launcher was not told of it.
THEOREM MountStaysIntact ==
  ASSUME ~KeepContainer
  PROVE  Spec => []MountIsIntact
<1>1. TransientInv => MountIsIntact
  BY DEF TransientInv
<1>2. QED
  BY <1>1, TransientInvariant, PTL

\* channel.bind, channel.close and RemoveAll: whoever finds control.sock finds
\* every endpoint socket beside it.
THEOREM ControlAlwaysMeansComplete ==
  ASSUME ~KeepContainer
  PROVE  Spec => []ControlMeansComplete
<1>1. LeaseInv /\ TransientInv => ControlMeansComplete
  BY DEF LeaseInv, BoundByStage, TransientInv, SocketsAreInPlace,
     ControlMeansComplete, Connectable
<1>2. QED
  BY <1>1, LeaseInvariant, TransientInvariant, PTL

-----------------------------------------------------------------------------
(* What a Ready answer means.                                              *)

LEMMA OnlyHandlersAnswer ==
  ASSUME TypeOK, Next, NEW d \in Conn, handler'[d] # handler[d],
         handler'[d] \in {"cleared", "ready"}
  PROVE  \/ LoadShuttingDown(d) /\ handler'[d] = "cleared"
         \/ WriteReady(d) /\ handler'[d] = "ready"
<1> DEFINE Answers == \/ LoadShuttingDown(d) /\ handler'[d] = "cleared"
                      \/ WriteReady(d) /\ handler'[d] = "ready"
<1> USE DEF TypeOK, RelayTypeOK, relayVars, relayRest, connVars
<1>1. CASE RunStep
  <2>1. RemoveStaleSockets \/ BindControl \/ ServeControl => UNCHANGED handler
    BY DEF RemoveStaleSockets, BindControl, ServeControl
  <2>2. LeaseEstablished \/ Closed \/ RemoveGeneration => UNCHANGED handler
    BY DEF LeaseEstablished, Closed, RemoveGeneration
  <2>3. BindImpossible \/ StopOnSignal => UNCHANGED handler
    BY DEF BindImpossible, StopOnSignal, BeginClose
  <2>4. \A i \in Endpoint : BindEndpoint(i) \/ CloseEndpoint(i) => UNCHANGED handler
    BY DEF BindEndpoint, CloseEndpoint
  <2>5. \A c \in Conn : LeaseEnded(c) => UNCHANGED handler
    BY DEF LeaseEnded, BeginClose
  <2>6. ~(CloseControl \/ ExitSidecar)
    BY DEF CloseControl, ExitSidecar, ProcessGone
  <2>7. QED
    BY <1>1, <2>1, <2>2, <2>3, <2>4, <2>5, <2>6 DEF RunStep
<1>2. CASE Expire \/ ReleaseName \/ StartupFails \/ AcceptFails \/ KillSidecar \/ Signal
  BY <1>2
     DEF Expire, InitialLeaseTimeout, BeginClose, ReleaseName, StartupFails,
         AcceptFails, KillSidecar, ProcessGone, Signal
<1>3. ASSUME NEW c \in Conn, HandlerStep(c) \/ LeaseReadEnds(c, "readError")
      PROVE  Answers
  BY <1>3
     DEF HandlerStep, Accept, LoadLeaseHeld, LoadShuttingDown, WriteReady,
         GrantLease, RefuseLease, ReadRole, LeaseReadEnds, ReleaseLease,
         SendOutcome, RoleMissing, Handle
<1>4. CASE SessionNext
  BY <1>4
     DEF SessionNext, LeaseHolderStep, SupervisorStep, DialLease, Connect,
         WriteRole, WriteRoleFails, AdoptLease, LoseLease, DialFails,
         WatchLease, RetryElapsed, RetryStops, SessionServes, CloseLease,
         SessionExits, SessionGone, BootstrapFails, CancelSession,
         CloseChannel, SessionKilled
<1>5. ASSUME NEW l \in Launcher, LauncherNext(l)
      PROVE  Answers
  <2>1. ASSUME NEW c \in Conn, SendProbe(l, c) \/ ReadAnswer(l, c)
        PROVE  FALSE
    BY <2>1 DEF SendProbe, Connect, ReadAnswer
  <2>2. LaunchSession(l) \/ SessionUntold(l) \/ StopSession(l) => UNCHANGED handler
    BY DEF LaunchSession, SessionUntold, StopSession, SessionGone
  <2>3. QED
    BY <1>5, <2>1, <2>2, LauncherMoves DEF LeaseView
<1>6. QED
  BY <1>1, <1>2, <1>3, <1>4, <1>5 DEF Next, RelayNext, RelayFails

\* handleControl against close, GrantLease and every removal of the directory:
\* a relay decides to answer Ready only with a lease granted and a complete set
\* of sockets, and writes it with the sockets complete unless it is closing by
\* then.
THEOREM ReadyIsAlwaysTruthful ==
  ASSUME ~KeepContainer
  PROVE  Spec => ReadyIsTruthful
<1> DEFINE Truthful(c) ==
             /\ handler[c] # "cleared" /\ handler'[c] = "cleared" =>
                  /\ established /\ Endpoint \subseteq bound
                  /\ Endpoint \subseteq entry \/ untold
             /\ handler[c] # "ready" /\ handler'[c] = "ready" =>
                  /\ established
                  /\ Endpoint \subseteq bound \/ shuttingDown
<1>1. ASSUME LeaseInv, TransientInv, Next, NEW c \in Conn,
             handler[c] # "cleared", handler'[c] = "cleared"
      PROVE  /\ established /\ Endpoint \subseteq bound
             /\ Endpoint \subseteq entry \/ untold
  <2>1. LoadShuttingDown(c)
    BY <1>1, OnlyHandlersAnswer DEF LeaseInv
  <2>2. handler[c] = "loaded" /\ ~shuttingDown
    BY <1>1, <2>1
       DEF LeaseInv, TypeOK, RelayTypeOK, LoadShuttingDown, Handle
  <2>3. established /\ rpc \in {"bound", "first", "leased"}
    BY <1>1, <2>2 DEF LeaseInv, Conversation, ClosingStages, Closing
  <2>4. bound = Socket
    BY <1>1, <2>3 DEF LeaseInv, BoundByStage
  <2>5. dir # "absent" \/ untold
    BY <1>1, <2>2, <2>3 DEF TransientInv, NoDirectoryNoLease, Quiet
  <2>6. QED
    BY <1>1, <2>3, <2>4, <2>5 DEF TransientInv, SocketsAreInPlace, Socket
<1>2. ASSUME LeaseInv, Next, NEW c \in Conn,
             handler[c] # "ready", handler'[c] = "ready"
      PROVE  established /\ (Endpoint \subseteq bound \/ shuttingDown)
  <2>1. WriteReady(c)
    BY <1>2, OnlyHandlersAnswer DEF LeaseInv
  <2>2. handler[c] = "cleared"
    BY <2>1 DEF WriteReady
  <2>3. /\ established
        /\ rpc \in {"bound", "first", "leased"} \/ shuttingDown
    BY <1>2, <2>2 DEF LeaseInv, Conversation, ClosingStages, Closing
  <2>4. rpc \in {"bound", "first", "leased"} => bound = Socket
    BY <1>2 DEF LeaseInv, BoundByStage
  <2>5. QED
    BY <2>3, <2>4 DEF Socket
<1>3. ASSUME UNCHANGED vars, NEW c \in Conn
      PROVE  Truthful(c)
  BY <1>3 DEF vars, relayVars, connVars
<1>4. LeaseInv /\ TransientInv /\ [Next]_vars =>
        [\A c \in Conn : Truthful(c)]_vars
  BY <1>1, <1>2, <1>3
<1>5. QED
  BY <1>4, LeaseInvariant, TransientInvariant, PTL DEF Spec, ReadyIsTruthful
=============================================================================
