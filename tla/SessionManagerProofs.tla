------------------------ MODULE SessionManagerProofs ------------------------
(***************************************************************************)
(* Proofs about SessionManager, for every set of wrappers and every bound  *)
(* on their attempts: its invariants, and that it implements               *)
(* SessionLifetime.                                                        *)
(***************************************************************************)
EXTENDS SessionManager, TLAPS

\* Every connection anybody knows of is one its wrapper has made.
Made == {c \in Connection : c[2] <= attempt[c[1]]}

AllMade(made) ==
  /\ queued \subseteq made /\ hand \subseteq made
  /\ active \subseteq made /\ readers \subseteq made /\ snapshot \subseteq made
  /\ open \subseteq made /\ acked \subseteq made /\ severed \subseteq made

KnownAreMade == AllMade(Made)

\* A connection is in the kernel's queue, or in the hands of the accept loop,
\* or in the map with a reader.
OnePlace ==
  /\ queued \intersect hand = {}
  /\ queued \intersect active = {}
  /\ queued \intersect readers = {}
  /\ hand \intersect readers = {}
  /\ \A c \in hand : hand = {c}

\* A wrapper that waits for its acknowledgement, or has it, keeps its end of
\* the connection open.
WaitersAreOpen ==
  \A w \in Wrapper :
    wpc[w] \in {"recheck", "await"} \union Holding => Conn(w) \in open

HoldersAreAcked == \A w \in Wrapper : wpc[w] \in Holding => Conn(w) \in acked

\* What a manager that has not committed a shutdown maintains.
Admission ==
  ~stopping => /\ acked \intersect open \subseteq active
               /\ (active \union queued \union hand) \intersect severed = {}
               /\ srv = "acking" => hand \subseteq active

\* What an idle shutdown leaves behind.
IdleAftermath ==
  cause = "idle" => /\ acked \intersect open = {}
                    /\ srv = "acking" => hand = {}

\* The stages of a shutdown, and where each can be met.
Stages ==
  /\ cause = "none" <=> ~stopping
  /\ closer # "none" => stopping
  /\ srv \in {"closing", "draining"} => stopping
  /\ srv \in {"bound", "accepting", "registering", "acking"} /\ ~listening => stopping

\* The marker of an earlier run is gone before a wrapper can look for it.
StaleMarker ==
  marker = "present" /\ ~stopping /\ ~StaleSocket =>
    /\ ~path /\ ~listening /\ srv \in {"starting", "stopped"}
    /\ \A w \in Wrapper : wpc[w] \in {"waiting", "unready"}

MarkerInv == StaleMarker /\ RefusedMeansStopping

IInv ==
  /\ TypeOK /\ KnownAreMade /\ OnePlace /\ WaitersAreOpen /\ HoldersAreAcked
  /\ Admission /\ IdleAftermath /\ Stages /\ MarkerInv

-----------------------------------------------------------------------------
\* The initial states satisfy every part of the inductive invariant.
LEMMA InitInvariant == Init => IInv
<1> SUFFICES ASSUME Init PROVE IInv
  OBVIOUS
<1>1. TypeOK
  <2>1. attempt \in [Wrapper -> 0 .. MaxAttempts]
    BY MaxAttemptsAssumption DEF Init
  <2> QED
    BY <2>1
       DEF Init, TypeOK, ServeTypeOK, StopTypeOK, ConnectionTypeOK,
           WrapperTypeOK, ServeState
<1>2. KnownAreMade /\ OnePlace
  BY DEF Init, KnownAreMade, AllMade, OnePlace
<1>3. WaitersAreOpen /\ HoldersAreAcked /\ RefusedMeansStopping
  BY DEF Init, WaitersAreOpen, HoldersAreAcked, RefusedMeansStopping, Holding
<1>4. Admission /\ IdleAftermath /\ Stages /\ StaleMarker
  BY DEF Init, Admission, IdleAftermath, Stages, StaleMarker, StaleSocket
<1> QED
  BY <1>1, <1>2, <1>3, <1>4 DEF IInv, MarkerInv

\* The two helpers that touch the timer keep its number a number.
LEMMA UnregisterTypes ==
  ASSUME TypeOK, NEW c \in Connection, Unregister(c)
  PROVE  /\ severed' \in SUBSET Connection
         /\ counted' \in SUBSET Connection /\ active' \in SUBSET counted'
         /\ idleTimer' \in Nat /\ armed' \in BOOLEAN /\ fired' \in SUBSET Nat
<1>1. CASE ResetIdleTimer
  BY <1>1 DEF Unregister, TypeOK, ServeTypeOK, ConnectionTypeOK, ResetIdleTimer
<1>2. CASE UNCHANGED timerVars
  BY <1>2 DEF Unregister, TypeOK, ServeTypeOK, ConnectionTypeOK, timerVars
<1> QED
  BY <1>1, <1>2 DEF Unregister

\* managerState.shutdown keeps the types of what it sets.
LEMMA ShutdownTypes ==
  ASSUME TypeOK, NEW why \in {"context", "accept"}, Shutdown(why)
  PROVE  StopTypeOK' /\ idleTimer' \in Nat /\ armed' \in BOOLEAN /\ fired' \in SUBSET Nat
<1>1. CASE stopping
  BY <1>1 DEF Shutdown, FirstError, TypeOK, ServeTypeOK, StopTypeOK
<1>2. CASE ~stopping
  BY <1>2 DEF Shutdown, CommitShutdown, TypeOK, ServeTypeOK, StopTypeOK
<1> QED
  BY <1>1, <1>2

\* Every step of the protocol preserves the type invariant.
LEMMA TypeStep == TypeOK /\ [Next]_vars => TypeOK'
<1> SUFFICES ASSUME TypeOK, [Next]_vars PROVE TypeOK'
  OBVIOUS
<1> USE DEF TypeOK, ServeTypeOK, StopTypeOK, ConnectionTypeOK, WrapperTypeOK,
       ServeState, vars, serveVars, countVars, timerVars, stopVars, ctxVars,
       fileVars, connVars, wrapVars, managerVars
<1>1. CASE ServeStep
  <2>1. CASE ClearStaleMarker
    BY <2>1 DEF ClearStaleMarker
  <2>2. CASE BindSocket
    BY <2>2 DEF BindSocket
  <2>11. CASE SocketPathTaken
    BY <2>11 DEF SocketPathTaken
  <2>3. CASE StartServing
    BY <2>3 DEF StartServing, ResetIdleTimer
  <2>4. ASSUME NEW c \in Connection, Accept(c) PROVE TypeOK'
    BY <2>4 DEF Accept
  <2>5. ASSUME NEW c \in Connection, Register(c) PROVE TypeOK'
    BY <2>5 DEF Register, RejectStopping, Admit
  <2>6. ASSUME NEW c \in Connection, WriteAck(c) PROVE TypeOK'
    BY <2>6 DEF WriteAck
  <2>7. ASSUME NEW c \in Connection, WriteAckFails(c) PROVE TypeOK'
    <3>1. Unregister(c)
      BY <2>7 DEF WriteAckFails
    <3> QED
      BY <2>7, <3>1, UnregisterTypes DEF WriteAckFails
  <2>8. CASE LeaveLoop
    BY <2>8 DEF LeaveLoop
  <2>12. CASE AcceptShutdown
    <3>1. srv' \in ServeState
      BY <2>12 DEF AcceptShutdown
    <3> QED
      BY <2>12, <3>1, ShutdownTypes DEF AcceptShutdown, StopTypeOK
  <2>10. CASE AcceptClosed
    BY <2>10 DEF AcceptClosed
  <2>9. CASE ServeReturns
    <3>1. ServeTypeOK' /\ StopTypeOK' /\ WrapperTypeOK'
      BY <2>9 DEF ServeReturns, FirstError
    <3>2. ConnectionTypeOK'
      BY <2>9 DEF ServeReturns
    <3> QED
      BY <3>1, <3>2
  <2> QED
    BY <1>1, <2>1, <2>2, <2>3, <2>4, <2>5, <2>6, <2>7, <2>8, <2>9,
       <2>10, <2>11, <2>12 DEF ServeStep
<1>2. CASE CloserStep
  <2>1. CASE WriteMarker
    BY <2>1 DEF WriteMarker, FirstError
  <2>2. CASE CloseListener
    <3>1. ServeTypeOK' /\ StopTypeOK' /\ WrapperTypeOK'
      BY <2>2 DEF CloseListener
    <3>2. ConnectionTypeOK'
      BY <2>2 DEF CloseListener
    <3> QED
      BY <3>1, <3>2
  <2>3. ASSUME NEW c \in Connection, CloseConnection(c) PROVE TypeOK'
    BY <2>3 DEF CloseConnection
  <2> QED
    BY <1>2, <2>1, <2>2, <2>3 DEF CloserStep
<1>3. CASE WatcherStep
  <2>1. CASE ContextShutdown
    <3>1. watcher' \in {"none", "waiting", "gone"}
      BY <2>1 DEF ContextShutdown
    <3> QED
      BY <2>1, <3>1, ShutdownTypes DEF ContextShutdown, StopTypeOK
  <2>2. CASE WatcherReturns
    BY <2>2 DEF WatcherReturns
  <2> QED
    BY <1>3, <2>1, <2>2 DEF WatcherStep
<1>4. CASE CallbackStep
  <2>1. PICK t \in fired : ShutdownIfIdle(t)
    BY <1>4 DEF CallbackStep
  <2>2. StopTypeOK' /\ idleTimer' \in Nat /\ armed' \in BOOLEAN
    BY <2>1 DEF ShutdownIfIdle, CommitShutdown, StopTypeOK
  <2>3. fired' \in SUBSET Nat
    BY <2>1 DEF ShutdownIfIdle
  <2> QED
    BY <2>1, <2>2, <2>3 DEF ShutdownIfIdle, StopTypeOK
<1>5. CASE ReaderStep
  <2>1. PICK c \in Connection : ReaderEnds(c)
    BY <1>5 DEF ReaderStep
  <2>2. Unregister(c)
    BY <2>1 DEF ReaderEnds
  <2> QED
    BY <2>1, <2>2, UnregisterTypes DEF ReaderEnds
<1>6. ASSUME NEW w \in Wrapper, WrapperStep(w) PROVE TypeOK'
  <2> USE DEF Goto, Connecting, Holding, Over
  <2>1. CASE WaitForSocket(w)
    BY <2>1 DEF WaitForSocket
  <2>2. CASE ProbeMarker(w)
    BY <2>2 DEF ProbeMarker
  <2>3. CASE Dial(w)
    <3>1. attempt[w] + 1 \in 1 .. MaxAttempts
      BY <2>3, MaxAttemptsAssumption DEF Dial
    <3>2. <<w, attempt[w] + 1>> \in Connection
      BY <3>1 DEF Connection
    <3>3. attempt' \in [Wrapper -> 0 .. MaxAttempts]
      BY <2>3, <3>1, MaxAttemptsAssumption DEF Dial
    <3> QED
      BY <2>3, <3>2, <3>3 DEF Dial
  <2>4. CASE DialFails(w)
    BY <2>4 DEF DialFails
  <2>5. CASE RecheckMarker(w)
    BY <2>5 DEF RecheckMarker
  <2>6. CASE ReadAck(w)
    BY <2>6 DEF ReadAck
  <2>7. CASE AckFails(w)
    BY <2>7 DEF AckFails
  <2>8. CASE Retry(w)
    BY <2>8 DEF Retry
  <2>9. CASE StartChild(w)
    BY <2>9 DEF StartChild
  <2>10. CASE CloseRegistration(w)
    BY <2>10 DEF CloseRegistration
  <2> QED
    BY <1>6, <2>1, <2>2, <2>3, <2>4, <2>5, <2>6, <2>7, <2>8, <2>9, <2>10
       DEF WrapperStep
<1>7. CASE EnvironmentStep
  <2>1. CASE ListenFails
    BY <2>1, ZenonT(60) DEF ListenFails
  <2>2. CASE AcceptFails
    BY <2>2 DEF AcceptFails
  <2>3. CASE CancelContext
    BY <2>3 DEF CancelContext
  <2>4. CASE TimerFires
    <3>1. fired' \in SUBSET Nat /\ armed' \in BOOLEAN
      BY <2>4 DEF TimerFires
    <3> QED
      BY <2>4, <3>1 DEF TimerFires
  <2>5. ASSUME NEW w \in Wrapper, StartupExpires(w) PROVE TypeOK'
    BY <2>5 DEF StartupExpires
  <2>6. ASSUME NEW w \in Wrapper, ChildExits(w) PROVE TypeOK'
    BY <2>6 DEF ChildExits, Goto, Holding
  <2>7. ASSUME NEW w \in Wrapper, WrapperKilled(w) PROVE TypeOK'
    BY <2>7 DEF WrapperKilled, Goto, Over
  <2> QED
    BY <1>7, <2>1, <2>2, <2>3, <2>4, <2>5, <2>6, <2>7 DEF EnvironmentStep
<1>8. CASE UNCHANGED vars
  BY <1>8
<1> QED
  BY <1>1, <1>2, <1>3, <1>4, <1>5, <1>6, <1>7, <1>8 DEF Next, Terminated
-----------------------------------------------------------------------------
(* The other parts of the invariant, one lemma each: what every step does  *)
(* to it, given the parts it leans on.                                     *)

\* A connection being dialled is new to everybody, and made from then on.
LEMMA DialIsFresh ==
  ASSUME TypeOK, NEW w \in Wrapper, Dial(w)
  PROVE  /\ <<w, attempt[w] + 1>> \notin Made
         /\ <<w, attempt[w] + 1>> \in Made'
         /\ Made \subseteq Made'
<1>1. attempt[w] \in Nat /\ attempt[w] + 1 \in 1 .. MaxAttempts
  BY MaxAttemptsAssumption DEF TypeOK, WrapperTypeOK, Dial
<1>2. <<w, attempt[w] + 1>> \in Connection
  BY <1>1 DEF Connection
<1>3. /\ attempt' = [attempt EXCEPT ![w] = @ + 1]
      /\ attempt \in [Wrapper -> 0 .. MaxAttempts]
  BY DEF TypeOK, WrapperTypeOK, Dial
<1>4. <<w, attempt[w] + 1>> \notin Made
  BY <1>1 DEF Made
<1>5. <<w, attempt[w] + 1>> \in Made'
  BY <1>1, <1>2, <1>3 DEF Made
<1>6. ASSUME NEW c \in Made PROVE c \in Made'
  <2>1. /\ c \in Connection /\ c[1] \in Wrapper /\ c[2] \in Nat
        /\ c[2] <= attempt[c[1]]
    BY MaxAttemptsAssumption DEF Made, Connection
  <2>2. attempt[c[1]] <= attempt'[c[1]] /\ attempt[c[1]] \in Nat /\ attempt'[c[1]] \in Nat
    BY <1>1, <1>3, <2>1, MaxAttemptsAssumption
  <2> QED
    BY <2>1, <2>2 DEF Made
<1> QED
  BY <1>4, <1>5, <1>6

\* Nobody comes to know a connection that no wrapper has made.
LEMMA KnownStep == TypeOK /\ KnownAreMade /\ [Next]_vars => KnownAreMade'
<1> SUFFICES ASSUME TypeOK, KnownAreMade, [Next]_vars PROVE KnownAreMade'
  OBVIOUS
<1> USE DEF vars, serveVars, countVars, timerVars, stopVars, ctxVars, fileVars,
       connVars, wrapVars, managerVars
<1>1. ASSUME NEW w \in Wrapper, Dial(w) PROVE KnownAreMade'
  <2>1. Made \subseteq Made' /\ <<w, attempt[w] + 1>> \in Made'
    BY <1>1, DialIsFresh
  <2>2. AllMade(Made')
    BY <2>1 DEF KnownAreMade, AllMade
  <2> QED
    BY <1>1, <2>1, <2>2 DEF Dial, KnownAreMade, AllMade
<1>2. ASSUME \A w \in Wrapper : ~Dial(w) PROVE KnownAreMade'
  <2> USE DEF KnownAreMade, AllMade
  <2>1. CASE ServeStep
    <3>1. CASE \/ ClearStaleMarker \/ BindSocket \/ SocketPathTaken \/ StartServing
               \/ LeaveLoop \/ AcceptClosed \/ ServeReturns
      BY <3>1
         DEF ClearStaleMarker, BindSocket, SocketPathTaken, StartServing,
             LeaveLoop, AcceptClosed, ServeReturns, Made
    <3>5. CASE AcceptShutdown
      BY <3>5 DEF AcceptShutdown, Shutdown, CommitShutdown, Made
    <3>2. ASSUME NEW c \in Connection, Accept(c) \/ Register(c) PROVE KnownAreMade'
      BY <3>2 DEF Accept, Register, RejectStopping, Admit, Made
    <3>3. ASSUME NEW c \in Connection, WriteAck(c) PROVE KnownAreMade'
      BY <3>3 DEF WriteAck, Made
    <3>4. ASSUME NEW c \in Connection, WriteAckFails(c) PROVE KnownAreMade'
      BY <3>4 DEF WriteAckFails, Unregister, Made
    <3> QED
      BY <2>1, <3>1, <3>2, <3>3, <3>4, <3>5 DEF ServeStep
  <2>2. CASE CloserStep
    BY <2>2 DEF CloserStep, WriteMarker, CloseListener, CloseConnection, Made
  <2>3. CASE WatcherStep
    BY <2>3
       DEF WatcherStep, ContextShutdown, WatcherReturns, Shutdown,
           CommitShutdown, Made
  <2>4. CASE CallbackStep
    BY <2>4 DEF CallbackStep, ShutdownIfIdle, CommitShutdown, Made
  <2>5. CASE ReaderStep
    BY <2>5 DEF ReaderStep, ReaderEnds, Unregister, Made
  <2>6. ASSUME NEW w \in Wrapper, WrapperStep(w) PROVE KnownAreMade'
    BY <1>2, <2>6
       DEF WrapperStep, WaitForSocket, ProbeMarker, DialFails, RecheckMarker,
           ReadAck, AckFails, Retry, StartChild, CloseRegistration, Made
  <2>7. CASE EnvironmentStep
    BY <2>7
       DEF EnvironmentStep, ListenFails, AcceptFails, CancelContext,
           TimerFires, StartupExpires, ChildExits, WrapperKilled, Made
  <2>8. CASE UNCHANGED vars
    BY <2>8 DEF Made
  <2> QED
    BY <2>1, <2>2, <2>3, <2>4, <2>5, <2>6, <2>7, <2>8 DEF Next, Terminated
<1> QED
  BY <1>1, <1>2
\* A connection stays in one place at a time.
LEMMA OnePlaceStep == TypeOK /\ KnownAreMade /\ OnePlace /\ [Next]_vars => OnePlace'
<1> SUFFICES ASSUME TypeOK, KnownAreMade, OnePlace, [Next]_vars PROVE OnePlace'
  OBVIOUS
<1> USE DEF OnePlace, KnownAreMade, AllMade, vars, serveVars, countVars,
       timerVars, stopVars, ctxVars, fileVars, connVars, wrapVars, managerVars
<1>1. CASE ServeStep
  BY <1>1
     DEF ServeStep, ClearStaleMarker, BindSocket, SocketPathTaken,
         StartServing, Accept, Register, RejectStopping, Admit, WriteAck,
         WriteAckFails, Unregister, AcceptShutdown, Shutdown, CommitShutdown,
         LeaveLoop, AcceptClosed, ServeReturns
<1>2. CASE CloserStep
  BY <1>2 DEF CloserStep, WriteMarker, CloseListener, CloseConnection
<1>3. CASE WatcherStep
  BY <1>3
     DEF WatcherStep, ContextShutdown, WatcherReturns, Shutdown, CommitShutdown
<1>4. CASE CallbackStep
  BY <1>4 DEF CallbackStep, ShutdownIfIdle, CommitShutdown
<1>5. CASE ReaderStep
  BY <1>5 DEF ReaderStep, ReaderEnds, Unregister
<1>6. ASSUME NEW w \in Wrapper, WrapperStep(w) PROVE OnePlace'
  <2>1. CASE Dial(w)
    BY <2>1, DialIsFresh DEF Dial
  <2>2. CASE ~Dial(w)
    BY <1>6, <2>2
       DEF WrapperStep, WaitForSocket, ProbeMarker, DialFails, RecheckMarker,
           ReadAck, AckFails, Retry, StartChild, CloseRegistration, Goto
  <2> QED
    BY <2>1, <2>2
<1>7. CASE EnvironmentStep
  BY <1>7
     DEF EnvironmentStep, ListenFails, AcceptFails, CancelContext, TimerFires,
         StartupExpires, ChildExits, WrapperKilled, Goto
<1>8. CASE UNCHANGED vars
  BY <1>8
<1> QED
  BY <1>1, <1>2, <1>3, <1>4, <1>5, <1>6, <1>7, <1>8 DEF Next, Terminated

\* Only its wrapper closes the wrapper's end, and then it is past waiting.
LEMMA WaitersStep == TypeOK /\ WaitersAreOpen /\ [Next]_vars => WaitersAreOpen'
<1> SUFFICES ASSUME TypeOK, WaitersAreOpen, [Next]_vars PROVE WaitersAreOpen'
  OBVIOUS
<1> USE DEF WaitersAreOpen, TypeOK, WrapperTypeOK, Conn, Holding, Connecting,
       vars, serveVars, countVars, timerVars, stopVars, ctxVars, fileVars,
       connVars, wrapVars, managerVars
<1>1. CASE ServeStep
  BY <1>1
     DEF ServeStep, ClearStaleMarker, BindSocket, SocketPathTaken,
         StartServing, Accept, Register, RejectStopping, Admit, WriteAck,
         WriteAckFails, Unregister, AcceptShutdown, Shutdown, CommitShutdown,
         LeaveLoop, AcceptClosed, ServeReturns
<1>2. CASE CloserStep
  BY <1>2 DEF CloserStep, WriteMarker, CloseListener, CloseConnection
<1>3. CASE WatcherStep
  BY <1>3
     DEF WatcherStep, ContextShutdown, WatcherReturns, Shutdown, CommitShutdown
<1>4. CASE CallbackStep
  BY <1>4 DEF CallbackStep, ShutdownIfIdle, CommitShutdown
<1>5. CASE ReaderStep
  BY <1>5 DEF ReaderStep, ReaderEnds, Unregister
<1>6. ASSUME NEW w \in Wrapper, WrapperStep(w) PROVE WaitersAreOpen'
  BY <1>6
     DEF WrapperStep, WaitForSocket, ProbeMarker, Dial, DialFails,
         RecheckMarker, ReadAck, AckFails, Retry, StartChild,
         CloseRegistration, Goto
<1>7. CASE EnvironmentStep
  BY <1>7
     DEF EnvironmentStep, ListenFails, AcceptFails, CancelContext, TimerFires,
         StartupExpires, ChildExits, WrapperKilled, Goto
<1>8. CASE UNCHANGED vars
  BY <1>8
<1> QED
  BY <1>1, <1>2, <1>3, <1>4, <1>5, <1>6, <1>7, <1>8 DEF Next, Terminated

\* A wrapper starts its command only on an acknowledgement.
LEMMA HoldersStep == TypeOK /\ HoldersAreAcked /\ [Next]_vars => HoldersAreAcked'
<1> SUFFICES ASSUME TypeOK, HoldersAreAcked, [Next]_vars PROVE HoldersAreAcked'
  OBVIOUS
<1> USE DEF HoldersAreAcked, TypeOK, WrapperTypeOK, Conn, Holding, vars,
       serveVars, countVars, timerVars, stopVars, ctxVars, fileVars, connVars,
       wrapVars, managerVars
<1>1. CASE ServeStep
  BY <1>1
     DEF ServeStep, ClearStaleMarker, BindSocket, SocketPathTaken,
         StartServing, Accept, Register, RejectStopping, Admit, WriteAck,
         WriteAckFails, Unregister, AcceptShutdown, Shutdown, CommitShutdown,
         LeaveLoop, AcceptClosed, ServeReturns
<1>2. CASE CloserStep
  BY <1>2 DEF CloserStep, WriteMarker, CloseListener, CloseConnection
<1>3. CASE WatcherStep
  BY <1>3
     DEF WatcherStep, ContextShutdown, WatcherReturns, Shutdown, CommitShutdown
<1>4. CASE CallbackStep
  BY <1>4 DEF CallbackStep, ShutdownIfIdle, CommitShutdown
<1>5. CASE ReaderStep
  BY <1>5 DEF ReaderStep, ReaderEnds, Unregister
<1>6. ASSUME NEW w \in Wrapper, WrapperStep(w) PROVE HoldersAreAcked'
  BY <1>6
     DEF WrapperStep, WaitForSocket, ProbeMarker, Dial, DialFails,
         RecheckMarker, ReadAck, AckFails, Retry, StartChild,
         CloseRegistration, Goto
<1>7. CASE EnvironmentStep
  BY <1>7
     DEF EnvironmentStep, ListenFails, AcceptFails, CancelContext, TimerFires,
         StartupExpires, ChildExits, WrapperKilled, Goto
<1>8. CASE UNCHANGED vars
  BY <1>8
<1> QED
  BY <1>1, <1>2, <1>3, <1>4, <1>5, <1>6, <1>7, <1>8 DEF Next, Terminated

\* The stages of a shutdown follow its commit.
LEMMA StagesStep == TypeOK /\ Stages /\ [Next]_vars => Stages'
<1> SUFFICES ASSUME TypeOK, Stages, [Next]_vars PROVE Stages'
  OBVIOUS
<1> USE DEF Stages, TypeOK, StopTypeOK, vars, serveVars, countVars, timerVars,
       stopVars, ctxVars, fileVars, connVars, wrapVars, managerVars
<1>1. CASE ServeStep
  BY <1>1
     DEF ServeStep, ClearStaleMarker, BindSocket, SocketPathTaken,
         StartServing, Accept, Register, RejectStopping, Admit, WriteAck,
         WriteAckFails, Unregister, AcceptShutdown, Shutdown, CommitShutdown,
         LeaveLoop, AcceptClosed, ServeReturns
<1>2. CASE CloserStep
  BY <1>2 DEF CloserStep, WriteMarker, CloseListener, CloseConnection
<1>3. CASE WatcherStep
  BY <1>3
     DEF WatcherStep, ContextShutdown, WatcherReturns, Shutdown, CommitShutdown
<1>4. CASE CallbackStep
  BY <1>4 DEF CallbackStep, ShutdownIfIdle, CommitShutdown
<1>5. CASE ReaderStep
  BY <1>5 DEF ReaderStep, ReaderEnds, Unregister
<1>6. ASSUME NEW w \in Wrapper, WrapperStep(w) PROVE Stages'
  BY <1>6
     DEF WrapperStep, WaitForSocket, ProbeMarker, Dial, DialFails,
         RecheckMarker, ReadAck, AckFails, Retry, StartChild,
         CloseRegistration, Goto
<1>7. CASE EnvironmentStep
  BY <1>7
     DEF EnvironmentStep, ListenFails, AcceptFails, CancelContext, TimerFires,
         StartupExpires, ChildExits, WrapperKilled, Goto
<1>8. CASE UNCHANGED vars
  BY <1>8
<1> QED
  BY <1>1, <1>2, <1>3, <1>4, <1>5, <1>6, <1>7, <1>8 DEF Next, Terminated

\* The marker a wrapper can read is that of this run.
LEMMA MarkerStep == TypeOK /\ Stages /\ MarkerInv /\ [Next]_vars => MarkerInv'
<1> SUFFICES ASSUME TypeOK, Stages, MarkerInv, [Next]_vars PROVE MarkerInv'
  OBVIOUS
<1> USE DEF MarkerInv, StaleMarker, StaleSocket, RefusedMeansStopping, Stages,
       TypeOK, WrapperTypeOK, vars, serveVars, countVars, timerVars, stopVars,
       ctxVars, fileVars, connVars, wrapVars, managerVars
<1>1. CASE ServeStep
  BY <1>1
     DEF ServeStep, ClearStaleMarker, BindSocket, SocketPathTaken,
         StartServing, Accept, Register, RejectStopping, Admit, WriteAck,
         WriteAckFails, Unregister, AcceptShutdown, Shutdown, CommitShutdown,
         LeaveLoop, AcceptClosed, ServeReturns
<1>2. CASE CloserStep
  BY <1>2 DEF CloserStep, WriteMarker, CloseListener, CloseConnection
<1>3. CASE WatcherStep
  BY <1>3
     DEF WatcherStep, ContextShutdown, WatcherReturns, Shutdown, CommitShutdown
<1>4. CASE CallbackStep
  BY <1>4 DEF CallbackStep, ShutdownIfIdle, CommitShutdown
<1>5. CASE ReaderStep
  BY <1>5 DEF ReaderStep, ReaderEnds, Unregister
<1>6. ASSUME NEW w \in Wrapper, WrapperStep(w) PROVE MarkerInv'
  BY <1>6
     DEF WrapperStep, WaitForSocket, ProbeMarker, Dial, DialFails,
         RecheckMarker, ReadAck, AckFails, Retry, StartChild,
         CloseRegistration, Goto
<1>7. CASE EnvironmentStep
  <2>1. CASE ListenFails
    BY <2>1 DEF ListenFails
  <2>2. CASE AcceptFails
    BY <2>2 DEF AcceptFails
  <2>3. ASSUME NEW w \in Wrapper, StartupExpires(w) \/ ChildExits(w) \/ WrapperKilled(w)
        PROVE  MarkerInv'
    BY <2>3
       DEF StartupExpires, ChildExits, WrapperKilled, Goto, Connecting, Holding
  <2>4. CASE CancelContext \/ TimerFires
    BY <2>4 DEF CancelContext, TimerFires
  <2> QED
    BY <1>7, <2>1, <2>2, <2>3, <2>4 DEF EnvironmentStep
<1>8. CASE UNCHANGED vars
  BY <1>8
<1> QED
  BY <1>1, <1>2, <1>3, <1>4, <1>5, <1>6, <1>7, <1>8 DEF Next, Terminated

\* Before the commit, what is acknowledged and open is in the map.
LEMMA AdmissionStep == TypeOK /\ KnownAreMade /\ OnePlace /\ Stages /\ Admission /\ [Next]_vars => Admission'
<1> SUFFICES ASSUME TypeOK, KnownAreMade, OnePlace, Stages, Admission, [Next]_vars PROVE Admission'
  OBVIOUS
<1> USE DEF Admission, OnePlace, Stages, vars, serveVars, countVars, timerVars,
       stopVars, ctxVars, fileVars, connVars, wrapVars, managerVars
<1>1. CASE ServeStep
  <2>1. ASSUME NEW c \in Connection, Register(c) PROVE Admission'
    BY <2>1 DEF Register, RejectStopping, Admit
  <2>2. ASSUME NEW c \in Connection, Accept(c) \/ WriteAck(c) PROVE Admission'
    BY <2>2 DEF Accept, WriteAck
  <2>3. ASSUME NEW c \in Connection, WriteAckFails(c) PROVE Admission'
    BY <2>3 DEF WriteAckFails, Unregister, Hungup
  <2>4. CASE \/ ClearStaleMarker \/ BindSocket \/ SocketPathTaken \/ StartServing \/ LeaveLoop
             \/ AcceptClosed \/ ServeReturns
    BY <2>4
       DEF ClearStaleMarker, BindSocket, SocketPathTaken, StartServing,
           LeaveLoop, AcceptClosed, ServeReturns
  <2>5. CASE AcceptShutdown
    BY <2>5 DEF AcceptShutdown, Shutdown, CommitShutdown
  <2> QED
    BY <1>1, <2>1, <2>2, <2>3, <2>4, <2>5 DEF ServeStep
<1>2. CASE CloserStep
  BY <1>2 DEF CloserStep, WriteMarker, CloseListener, CloseConnection
<1>3. CASE WatcherStep
  BY <1>3
     DEF WatcherStep, ContextShutdown, WatcherReturns, Shutdown, CommitShutdown
<1>4. CASE CallbackStep
  BY <1>4 DEF CallbackStep, ShutdownIfIdle, CommitShutdown
<1>5. CASE ReaderStep
  BY <1>5 DEF ReaderStep, ReaderEnds, Unregister, Hungup
<1>6. ASSUME NEW w \in Wrapper, WrapperStep(w) PROVE Admission'
  <2>1. CASE Dial(w)
    <3>1. <<w, attempt[w] + 1>> \notin acked \union severed
      BY <2>1, DialIsFresh DEF KnownAreMade, AllMade
    <3> QED
      BY <2>1, <3>1 DEF Dial
  <2>2. CASE ~Dial(w)
    BY <1>6, <2>2
       DEF WrapperStep, WaitForSocket, ProbeMarker, DialFails, RecheckMarker,
           ReadAck, AckFails, Retry, StartChild, CloseRegistration, Goto
  <2> QED
    BY <2>1, <2>2
<1>7. CASE EnvironmentStep
  BY <1>7
     DEF EnvironmentStep, ListenFails, AcceptFails, CancelContext, TimerFires,
         StartupExpires, ChildExits, WrapperKilled, Goto
<1>8. CASE UNCHANGED vars
  BY <1>8
<1> QED
  BY <1>1, <1>2, <1>3, <1>4, <1>5, <1>6, <1>7, <1>8 DEF Next, Terminated

\* An idle shutdown finds nothing acknowledged, and nothing is afterwards.
LEMMA AftermathStep ==
  TypeOK /\ KnownAreMade /\ Stages /\ Admission /\ IdleAftermath /\ [Next]_vars
    => IdleAftermath'
<1> SUFFICES ASSUME TypeOK, KnownAreMade, Stages, Admission, IdleAftermath,
                    [Next]_vars
             PROVE  IdleAftermath'
  OBVIOUS
<1> USE DEF IdleAftermath, Stages, Admission, vars, serveVars, countVars,
       timerVars, stopVars, ctxVars, fileVars, connVars, wrapVars, managerVars
<1>1. CASE ServeStep
  BY <1>1
     DEF ServeStep, ClearStaleMarker, BindSocket, SocketPathTaken,
         StartServing, Accept, Register, RejectStopping, Admit, WriteAck,
         WriteAckFails, Unregister, AcceptShutdown, Shutdown, CommitShutdown,
         LeaveLoop, AcceptClosed, ServeReturns
<1>2. CASE CloserStep
  BY <1>2 DEF CloserStep, WriteMarker, CloseListener, CloseConnection
<1>3. CASE WatcherStep
  BY <1>3
     DEF WatcherStep, ContextShutdown, WatcherReturns, Shutdown, CommitShutdown
<1>4. CASE CallbackStep
  BY <1>4 DEF CallbackStep, ShutdownIfIdle, CommitShutdown
<1>5. CASE ReaderStep
  BY <1>5 DEF ReaderStep, ReaderEnds, Unregister
<1>6. ASSUME NEW w \in Wrapper, WrapperStep(w) PROVE IdleAftermath'
  <2>1. CASE Dial(w)
    BY <2>1, DialIsFresh DEF Dial, KnownAreMade, AllMade
  <2>2. CASE ~Dial(w)
    BY <1>6, <2>2
       DEF WrapperStep, WaitForSocket, ProbeMarker, DialFails, RecheckMarker,
           ReadAck, AckFails, Retry, StartChild, CloseRegistration, Goto
  <2> QED
    BY <2>1, <2>2
<1>7. CASE EnvironmentStep
  BY <1>7
     DEF EnvironmentStep, ListenFails, AcceptFails, CancelContext, TimerFires,
         StartupExpires, ChildExits, WrapperKilled, Goto
<1>8. CASE UNCHANGED vars
  BY <1>8
<1> QED
  BY <1>1, <1>2, <1>3, <1>4, <1>5, <1>6, <1>7, <1>8 DEF Next, Terminated

-----------------------------------------------------------------------------
(* The theorems.                                                           *)

\* IInv is inductive.
LEMMA StepInvariant == IInv /\ [Next]_vars => IInv'
BY TypeStep, KnownStep, OnePlaceStep, WaitersStep, HoldersStep, AdmissionStep,
   AftermathStep, StagesStep, MarkerStep
   DEF IInv

\* Every behaviour of the protocol satisfies the inductive invariant.
LEMMA Invariance == Spec => []IInv
<1>1. Init => IInv
  BY InitInvariant
<1>2. IInv /\ [Next]_vars => IInv'
  BY StepInvariant
<1> QED
  BY <1>1, <1>2, PTL DEF Spec

\* The state of manager, connections and wrappers is always well typed.
THEOREM TypeCorrect == Spec => []TypeOK
<1>1. IInv => TypeOK
  BY DEF IInv
<1> QED
  BY <1>1, Invariance, PTL

\* A wrapper that may run a command is counted until a shutdown is committed
\* (register writes the acknowledgement after it has added the connection, and
\* only the wrapper's own close removes it).
THEOREM AcknowledgedIsAlwaysCounted == Spec => []AcknowledgedIsCounted
<1>1. IInv => AcknowledgedIsCounted
  BY DEF IInv, Admission, WaitersAreOpen, HoldersAreAcked,
     AcknowledgedIsCounted
<1> QED
  BY <1>1, Invariance, PTL

\* shutdownIfIdle never commits while a registered command runs, whichever
\* timer the callback belongs to.
THEOREM IdleShutdownIsSafe == Spec => []IdleShutdownSparesCommands
<1>1. IInv => IdleShutdownSparesCommands
  BY DEF IInv, IdleAftermath, WaitersAreOpen, HoldersAreAcked,
     IdleShutdownSparesCommands
<1> QED
  BY <1>1, Invariance, PTL

\* A wrapper is refused only by a manager that has committed a shutdown.
THEOREM RefusalIsCurrent == Spec => []RefusedMeansStopping
<1>1. IInv => RefusedMeansStopping
  BY DEF IInv, MarkerInv
<1> QED
  BY <1>1, Invariance, PTL

\* After the commit of a shutdown no connection enters the manager's map.
THEOREM AdmissionCloses == Spec => NoAdmissionAfterCommit
<1>1. [Next]_vars => (stopping => active' \subseteq active)
  <2> SUFFICES ASSUME [Next]_vars, stopping PROVE active' \subseteq active
    OBVIOUS
  <2> USE DEF vars, serveVars, countVars, timerVars, stopVars, ctxVars,
         fileVars, connVars, wrapVars, managerVars
  <2>1. CASE ServeStep
    BY <2>1
       DEF ServeStep, ClearStaleMarker, BindSocket, SocketPathTaken,
           StartServing, Accept, Register, RejectStopping, Admit, WriteAck,
           WriteAckFails, Unregister, AcceptShutdown, LeaveLoop, AcceptClosed,
           ServeReturns
  <2>2. CASE CloserStep \/ WatcherStep \/ CallbackStep \/ ReaderStep
    BY <2>2
       DEF CloserStep, WriteMarker, CloseListener, CloseConnection,
           WatcherStep, ContextShutdown, WatcherReturns, CallbackStep,
           ShutdownIfIdle, ReaderStep, ReaderEnds, Unregister
  <2>3. ASSUME NEW w \in Wrapper, WrapperStep(w) PROVE active' \subseteq active
    BY <2>3
       DEF WrapperStep, WaitForSocket, ProbeMarker, Dial, DialFails,
           RecheckMarker, ReadAck, AckFails, Retry, StartChild,
           CloseRegistration
  <2>4. CASE EnvironmentStep
    BY <2>4
       DEF EnvironmentStep, ListenFails, AcceptFails, CancelContext,
           TimerFires, StartupExpires, ChildExits, WrapperKilled
  <2> QED
    BY <2>1, <2>2, <2>3, <2>4 DEF Next, Terminated
<1> QED
  BY <1>1, PTL DEF Spec, NoAdmissionAfterCommit

-----------------------------------------------------------------------------
(* The protocol of SessionManager implements SessionLifetime; and what the *)
(* manager owes while it serves and when it leaves: a timer, and an        *)
(* announcement.                                                           *)

\* Serve has not got to its accept loop, or never did.
Unstarted ==
  \/ srv \in {"starting", "cleared", "bound"}
  \/ srv = "stopped" /\ ~stopping

\* Nothing of the manager has begun before the accept loop.
NothingBegun ==
  Unstarted => /\ ~stopping /\ active = {} /\ readers = {}
               /\ ~armed /\ fired = {} /\ watcher = "none"

\* closeForShutdown gets past the marker only once it was written, or could
\* not be.
MarkerComesFirst == closer \in {"listener", "connections"} => marker # "absent"

ServiceInv == NothingBegun /\ MarkerComesFirst /\ IdleManagerIsTimed

-----------------------------------------------------------------------------
\* The initial states satisfy the additional invariant.
LEMMA ServiceInit == Init => ServiceInv
BY DEF Init, ServiceInv, NothingBegun, MarkerComesFirst, IdleManagerIsTimed

\* A connection that leaves the map arms a new timer when it was the last one.
LEMMA UnregisterServes ==
  ASSUME TypeOK, IInv, ServiceInv, NEW c \in Connection, Unregister(c),
         ~Unstarted, srv' \notin {"starting", "cleared", "bound"}, UNCHANGED stopVars
  PROVE  IdleManagerIsTimed'
<1> USE DEF ServiceInv, IdleManagerIsTimed, stopVars
<1>1. CASE c \in active /\ active = {c} /\ ~stopping
  BY <1>1 DEF Unregister, ResetIdleTimer
<1>2. CASE ~(c \in active /\ active = {c} /\ ~stopping)
  BY <1>2 DEF Unregister, timerVars, Unstarted
<1> QED
  BY <1>1, <1>2

\* Every step keeps the marker ahead of the listener, and an idle manager
\* timed.
LEMMA ServiceStep == IInv /\ ServiceInv /\ [Next]_vars => ServiceInv'
<1> SUFFICES ASSUME IInv, ServiceInv, [Next]_vars PROVE ServiceInv'
  OBVIOUS
<1> USE DEF ServiceInv, NothingBegun, Unstarted, MarkerComesFirst,
       IdleManagerIsTimed, vars, serveVars, countVars,
       timerVars, stopVars, ctxVars, fileVars, connVars, wrapVars, managerVars
<1>0. TypeOK /\ Stages
  BY DEF IInv
<1>1. CASE ServeStep
  <2>1. CASE ClearStaleMarker
    BY <1>0, <2>1 DEF ClearStaleMarker, Stages
  <2>6. CASE BindSocket \/ SocketPathTaken
    BY <2>6 DEF BindSocket, SocketPathTaken
  <2>7. CASE StartServing
    BY <2>7 DEF StartServing, ResetIdleTimer
  <2>2. ASSUME NEW c \in Connection, Accept(c) \/ WriteAck(c) PROVE ServiceInv'
    BY <1>0, <2>2 DEF Accept, WriteAck
  <2>3. ASSUME NEW c \in Connection, Register(c) PROVE ServiceInv'
    <3>1. CASE RejectStopping(c)
      BY <2>3, <3>1 DEF Register, RejectStopping
    <3>2. CASE Admit(c)
      <4>1. ~armed'
        BY <3>2 DEF Admit
      <4> QED
        BY <2>3, <3>2, <4>1 DEF Register, Admit
    <3> QED
      BY <2>3, <3>1, <3>2 DEF Register
  <2>4. ASSUME NEW c \in Connection, WriteAckFails(c) PROVE ServiceInv'
    <3>1. IdleManagerIsTimed'
      BY <1>0, <2>4, UnregisterServes DEF WriteAckFails
    <3> QED
      BY <2>4, <3>1 DEF WriteAckFails
  <2>5. CASE LeaveLoop \/ AcceptClosed \/ ServeReturns
    BY <1>0, <2>5 DEF LeaveLoop, AcceptClosed, ServeReturns, Stages
  <2>8. CASE AcceptShutdown
    BY <1>0, <2>8 DEF AcceptShutdown, Shutdown, CommitShutdown
  <2> QED
    BY <1>1, <2>1, <2>2, <2>3, <2>4, <2>5, <2>6, <2>7, <2>8 DEF ServeStep
<1>2. CASE CloserStep
  BY <1>0, <1>2 DEF CloserStep, WriteMarker, CloseListener, CloseConnection
<1>3. CASE WatcherStep
  BY <1>0, <1>3
     DEF WatcherStep, ContextShutdown, WatcherReturns, Shutdown, CommitShutdown
<1>4. CASE CallbackStep
  BY <1>0, <1>4 DEF CallbackStep, ShutdownIfIdle, CommitShutdown
<1>5. CASE ReaderStep
  <2>1. PICK c \in Connection : ReaderEnds(c)
    BY <1>5 DEF ReaderStep
  <2>2. IdleManagerIsTimed'
    BY <1>0, <2>1, UnregisterServes DEF ReaderEnds
  <2> QED
    BY <2>1, <2>2 DEF ReaderEnds
<1>6. ASSUME NEW w \in Wrapper, WrapperStep(w) PROVE ServiceInv'
  BY <1>6
     DEF WrapperStep, WaitForSocket, ProbeMarker, Dial, DialFails,
         RecheckMarker, ReadAck, AckFails, Retry, StartChild,
         CloseRegistration, Goto
<1>7. CASE EnvironmentStep
  <2>1. CASE ListenFails
    BY <1>0, <2>1 DEF ListenFails
  <2>2. CASE AcceptFails
    BY <1>0, <2>2 DEF AcceptFails
  <2>3. CASE CancelContext \/ TimerFires
    BY <2>3 DEF CancelContext, TimerFires
  <2>4. ASSUME NEW w \in Wrapper, StartupExpires(w) \/ ChildExits(w) \/ WrapperKilled(w)
        PROVE  ServiceInv'
    BY <2>4 DEF StartupExpires, ChildExits, WrapperKilled, Goto
  <2> QED
    BY <1>7, <2>1, <2>2, <2>3, <2>4 DEF EnvironmentStep
<1>8. CASE UNCHANGED vars
  BY <1>8
<1> QED
  BY <1>1, <1>2, <1>3, <1>4, <1>5, <1>6, <1>7, <1>8 DEF Next, Terminated

\* Every behaviour satisfies both invariants.
LEMMA ServiceInvariance == Spec => [](IInv /\ ServiceInv)
<1>1. Init => IInv /\ ServiceInv
  BY InitInvariant, ServiceInit
<1>2. (IInv /\ ServiceInv) /\ [Next]_vars => (IInv /\ ServiceInv)'
  BY StepInvariant, ServiceStep
<1> QED
  BY <1>1, <1>2, PTL DEF Spec

\* A serving manager without a registered command always has a timer to stop
\* it, and never one that runs while a command is registered
\* (resetIdleTimerLocked, register, unregister).
THEOREM IdleManagerIsAlwaysTimed == Spec => []IdleManagerIsTimed
<1>1. ServiceInv => IdleManagerIsTimed
  BY DEF ServiceInv
<1> QED
  BY <1>1, ServiceInvariance, PTL

\* The socket path of a committed shutdown is removed only after the marker was
\* written or could not be (closeForShutdown, in this order), unless Serve
\* leaves its loop on an error of its own.
THEOREM ShutdownIsAlwaysAnnounced == Spec => ShutdownIsAnnounced
<1>1. IInv /\ ServiceInv /\ [Next]_vars
        => (stopping /\ path /\ ~path' /\ srv # "draining" => marker # "absent")
  <2> SUFFICES ASSUME IInv, ServiceInv, [Next]_vars, stopping, path, ~path', srv # "draining"
               PROVE  marker # "absent"
    OBVIOUS
  <2> USE DEF vars, serveVars, countVars, timerVars, stopVars, ctxVars,
         fileVars, connVars, wrapVars, managerVars
  <2>1. CASE ServeStep
    BY <2>1
       DEF ServeStep, ClearStaleMarker, BindSocket, SocketPathTaken,
           StartServing, Accept, Register, WriteAck, WriteAckFails,
           AcceptShutdown, LeaveLoop, AcceptClosed, ServeReturns
  <2>2. CASE CloserStep
    BY <2>2
       DEF CloserStep, WriteMarker, CloseListener, CloseConnection, ServiceInv,
           MarkerComesFirst
  <2>3. CASE WatcherStep \/ CallbackStep \/ ReaderStep
    BY <2>3
       DEF WatcherStep, ContextShutdown, WatcherReturns, CallbackStep,
           ShutdownIfIdle, ReaderStep, ReaderEnds
  <2>4. ASSUME NEW w \in Wrapper, WrapperStep(w) PROVE FALSE
    BY <2>4
       DEF WrapperStep, WaitForSocket, ProbeMarker, Dial, DialFails,
           RecheckMarker, ReadAck, AckFails, Retry, StartChild,
           CloseRegistration
  <2>5. CASE EnvironmentStep
    BY <2>5
       DEF EnvironmentStep, ListenFails, AcceptFails, CancelContext,
           TimerFires, StartupExpires, ChildExits, WrapperKilled, ServiceInv,
           NothingBegun, Unstarted
  <2> QED
    BY <2>1, <2>2, <2>3, <2>4, <2>5 DEF Next, Terminated
<1> QED
  BY <1>1, ServiceInvariance, PTL DEF Spec, ShutdownIsAnnounced

-----------------------------------------------------------------------------
(* The refinement of SessionLifetime.                                      *)

\* A step that changes neither the stage of the session, nor its map, nor who
\* holds a connection, is a stutter of the abstract specification.
LEMMA Unseen ==
  ASSUME Phase' = Phase, cause' = cause, active' = active, wpc' = wpc, attempt' = attempt
  PROVE  UNCHANGED Lifetime!lifetimeVars
BY DEF Lifetime!lifetimeVars, Holders, Conn

\* The connections of two wrappers differ.
LEMMA ConnIsOwn ==
  ASSUME NEW w \in Wrapper, NEW v \in Wrapper, Conn(w) = Conn(v)
  PROVE  w = v
BY DEF Conn

\* A connection that the manager finds closed is held by no command, unless
\* the shutdown was forced.
LEMMA HungupIsNotHeld ==
  ASSUME IInv, NEW c \in Connection, c \in active, Hungup(c)
  PROVE  c \notin Holders \/ cause \in {"context", "accept"}
<1> SUFFICES ASSUME NEW w \in Wrapper, wpc[w] \in Holding, c = Conn(w)
             PROVE  cause \in {"context", "accept"}
  BY DEF Holders
<1>1. c \in open /\ c \in acked
  BY DEF IInv, WaitersAreOpen, HoldersAreAcked
<1>2. stopping /\ cause # "idle"
  BY <1>1 DEF Hungup, IInv, Admission, IdleAftermath
<1> QED
  BY <1>2 DEF IInv, Stages, TypeOK, StopTypeOK

\* A connection leaves the map as an abstract Forget, or was not in it.
LEMMA UnregisterImplements ==
  ASSUME IInv, NEW c \in Connection, Hungup(c), Unregister(c), Phase' = Phase,
         cause' = cause, wpc' = wpc, attempt' = attempt
  PROVE  [Lifetime!Next]_(Lifetime!lifetimeVars)
<1>1. Holders' = Holders
  BY DEF Holders, Conn
<1>2. CASE c \in active
  <2>1. Lifetime!Forget(c)
    BY <1>1, <1>2, HungupIsNotHeld DEF Unregister, Lifetime!Forget
  <2> QED
    BY <2>1 DEF Lifetime!Next
<1>3. CASE c \notin active
  BY <1>1, <1>3, Unseen DEF Unregister
<1> QED
  BY <1>2, <1>3

\* What the accept loop does, as steps of the abstract session.
LEMMA ServeImplements ==
  ASSUME IInv, ServiceInv, ServeStep
  PROVE  [Lifetime!Next]_(Lifetime!lifetimeVars)
<1> USE DEF serveVars, countVars, timerVars, stopVars, ctxVars, fileVars,
       connVars, wrapVars
<1>1. CASE ClearStaleMarker \/ BindSocket
  BY <1>1, Unseen DEF ClearStaleMarker, BindSocket, Phase
<1>2. CASE SocketPathTaken
  <2>1. Lifetime!FailToOpen
    BY <1>2
       DEF SocketPathTaken, ServiceInv, NothingBegun, Unstarted,
           Lifetime!FailToOpen, Phase, Holders, Conn
  <2> QED
    BY <2>1 DEF Lifetime!Next
<1>3. CASE StartServing
  <2>1. Lifetime!Open
    BY <1>3
       DEF StartServing, ServiceInv, NothingBegun, Unstarted, Lifetime!Open,
           Phase, Holders, Conn
  <2> QED
    BY <2>1 DEF Lifetime!Next
<1>4. ASSUME NEW c \in Connection, Accept(c) \/ WriteAck(c)
      PROVE  [Lifetime!Next]_(Lifetime!lifetimeVars)
  BY <1>4, Unseen DEF Accept, WriteAck, Phase
<1>5. ASSUME NEW c \in Connection, Register(c)
      PROVE  [Lifetime!Next]_(Lifetime!lifetimeVars)
  <2>1. CASE RejectStopping(c)
    BY <1>5, <2>1, Unseen DEF Register, RejectStopping, Phase
  <2>2. CASE Admit(c)
    <3>1. Lifetime!Admit(c)
      BY <1>5, <2>2 DEF Register, Admit, Lifetime!Admit, Phase, Holders, Conn
    <3> QED
      BY <3>1 DEF Lifetime!Next
  <2> QED
    BY <1>5, <2>1, <2>2 DEF Register
<1>6. ASSUME NEW c \in Connection, WriteAckFails(c)
      PROVE  [Lifetime!Next]_(Lifetime!lifetimeVars)
  BY <1>6, UnregisterImplements DEF WriteAckFails, Phase
<1>7. CASE LeaveLoop \/ AcceptClosed
  BY <1>7, Unseen DEF LeaveLoop, AcceptClosed, Phase, IInv, Stages
<1>8. CASE ServeReturns
  <2>1. Lifetime!Close
    BY <1>8
       DEF ServeReturns, Lifetime!Close, Phase, Holders, Conn, IInv, Stages,
           TypeOK, ServeTypeOK
  <2> QED
    BY <2>1 DEF Lifetime!Next
<1>9. CASE AcceptShutdown /\ stopping
  BY <1>9, Unseen DEF AcceptShutdown, Shutdown, Phase
<1>10. CASE AcceptShutdown /\ ~stopping
  <2>1. Lifetime!ForceStop
    BY <1>10
       DEF AcceptShutdown, Shutdown, CommitShutdown, Lifetime!ForceStop, Phase,
           Holders, Conn
  <2> QED
    BY <2>1 DEF Lifetime!Next
<1> QED
  BY <1>1, <1>2, <1>3, <1>4, <1>5, <1>6, <1>7, <1>8, <1>9, <1>10 DEF ServeStep

\* What a wrapper does: it is granted its lease, and leaves it.
LEMMA WrapperImplements ==
  ASSUME IInv, NEW w \in Wrapper,
         WrapperStep(w) \/ StartupExpires(w) \/ ChildExits(w) \/ WrapperKilled(w)
  PROVE  [Lifetime!Next]_(Lifetime!lifetimeVars)
<1> USE DEF serveVars, countVars, timerVars, stopVars, ctxVars, fileVars,
       connVars, wrapVars, managerVars
<1>0. /\ wpc \in [Wrapper -> {"waiting"} \union Connecting \union Holding \union Over]
      /\ attempt \in [Wrapper -> 0 .. MaxAttempts]
  BY DEF IInv, TypeOK, WrapperTypeOK
<1>1. ASSUME Phase' = Phase, UNCHANGED <<cause, active>>, Holders' = Holders
      PROVE  UNCHANGED Lifetime!lifetimeVars
  BY <1>1 DEF Lifetime!lifetimeVars
<1>2. CASE StartupExpires(w)
  BY <1>2, Unseen DEF StartupExpires, Phase
<1>3. CASE ReadAck(w)
  <2>1. Conn(w) \in open /\ Conn(w) \in acked /\ Conn(w) \in Connection
    BY <1>3 DEF ReadAck, IInv, WaitersAreOpen, TypeOK, ConnectionTypeOK
  <2>2. Conn(w) \in active \/ cause \in {"context", "accept"}
    BY <2>1 DEF IInv, Admission, IdleAftermath, Stages, TypeOK, StopTypeOK
  <2>3. Holders' = Holders \union {Conn(w)}
    BY <1>0, <1>3 DEF ReadAck, Goto, Holders, Conn, Holding
  <2>4. Lifetime!Grant(Conn(w))
    BY <1>3, <2>2, <2>3 DEF ReadAck, Lifetime!Grant, Phase
  <2> QED
    BY <2>1, <2>4 DEF Lifetime!Next
<1>4. CASE \/ CloseRegistration(w)
           \/ wpc[w] \in Holding /\ WrapperKilled(w)
  <2>1. Conn(w) \in Connection
    BY <1>4
       DEF CloseRegistration, Holding, IInv, WaitersAreOpen, TypeOK,
           ConnectionTypeOK
  <2>2. wpc' = [wpc EXCEPT ![w] = wpc'[w]] /\ wpc'[w] \notin Holding /\ attempt' = attempt
    BY <1>0, <1>4 DEF CloseRegistration, WrapperKilled, Goto, Holding
  <2>3. Holders' = Holders \ {Conn(w)}
    BY <1>0, <2>2, ConnIsOwn DEF Holders, Conn
  <2>4. Lifetime!Leave(Conn(w))
    BY <1>4, <2>3 DEF CloseRegistration, WrapperKilled, Lifetime!Leave, Phase
  <2> QED
    BY <2>1, <2>4 DEF Lifetime!Next
<1>5. CASE Dial(w)
  <2>1. Holders' = Holders
    BY <1>0, <1>5 DEF Dial, Goto, Holders, Conn, Holding
  <2> QED
    BY <1>1, <1>5, <2>1 DEF Dial, Phase
<1>6. CASE StartChild(w) \/ ChildExits(w)
  <2>1. Holders' = Holders
    BY <1>0, <1>6 DEF StartChild, ChildExits, Goto, Holders, Conn, Holding
  <2> QED
    BY <1>1, <1>6, <2>1 DEF StartChild, ChildExits, Phase
<1>7. CASE \/ WaitForSocket(w) \/ ProbeMarker(w) \/ DialFails(w) \/ RecheckMarker(w)
           \/ AckFails(w) \/ Retry(w)
           \/ wpc[w] \in Connecting /\ WrapperKilled(w)
  <2>1. /\ wpc' = [wpc EXCEPT ![w] = wpc'[w]] /\ attempt' = attempt
        /\ wpc[w] \notin Holding /\ wpc'[w] \notin Holding
    BY <1>0, <1>7
       DEF WaitForSocket, ProbeMarker, DialFails, RecheckMarker, AckFails,
           Retry, WrapperKilled, Goto, Holding, Connecting
  <2>2. Holders' = Holders
    BY <1>0, <2>1 DEF Holders, Conn
  <2> QED
    BY <1>1, <1>7, <2>2
       DEF WaitForSocket, ProbeMarker, DialFails, RecheckMarker, AckFails,
           Retry, WrapperKilled, Phase
<1> QED
  BY <1>2, <1>3, <1>4, <1>5, <1>6, <1>7 DEF WrapperStep, WrapperKilled

\* The shutdowns: an idle one finds no member, the others are forced.
LEMMA ShutdownImplements ==
  ASSUME IInv, ServiceInv,
         WatcherStep \/ CallbackStep \/ AcceptFails \/ ListenFails
  PROVE  [Lifetime!Next]_(Lifetime!lifetimeVars)
<1> USE DEF serveVars, countVars, timerVars, stopVars, ctxVars, fileVars,
       connVars, wrapVars
<1>0. Stages /\ NothingBegun
  BY DEF IInv, ServiceInv
<1>1. CASE WatcherReturns
  BY <1>1, Unseen DEF WatcherReturns, Phase
<1>2. CASE ContextShutdown /\ stopping
  BY <1>2, Unseen DEF ContextShutdown, Shutdown, Phase
<1>3. CASE ContextShutdown /\ ~stopping
  <2>1. Lifetime!ForceStop
    BY <1>0, <1>3
       DEF ContextShutdown, Shutdown, CommitShutdown, NothingBegun, Unstarted,
           Lifetime!ForceStop, Phase, Holders, Conn
  <2> QED
    BY <2>1 DEF Lifetime!Next
<1>4. ASSUME NEW t \in fired, ShutdownIfIdle(t)
      PROVE  [Lifetime!Next]_(Lifetime!lifetimeVars)
  <2>1. CASE stopping \/ active # {}
    BY <1>4, <2>1, Unseen DEF ShutdownIfIdle, Phase
  <2>2. CASE ~stopping /\ active = {}
    <3>1. Lifetime!IdleStop
      BY <1>0, <1>4, <2>2
         DEF ShutdownIfIdle, CommitShutdown, NothingBegun, Unstarted,
             Lifetime!IdleStop, Phase, Holders, Conn, Stages
    <3> QED
      BY <3>1 DEF Lifetime!Next
  <2> QED
    BY <2>1, <2>2
<1>5. CASE AcceptFails
  BY <1>5, Unseen DEF AcceptFails, Phase
<1>6. CASE ListenFails
  <2>1. Lifetime!FailToOpen
    BY <1>0, <1>6
       DEF ListenFails, NothingBegun, Unstarted, Lifetime!FailToOpen, Phase,
           Holders, Conn
  <2> QED
    BY <2>1 DEF Lifetime!Next
<1> QED
  BY <1>1, <1>2, <1>3, <1>4, <1>5, <1>6 DEF WatcherStep, CallbackStep

\* Every step of the protocol is a step of SessionLifetime or a stutter.
LEMMA StepImplements ==
  IInv /\ ServiceInv /\ [Next]_vars => [Lifetime!Next]_(Lifetime!lifetimeVars)
<1> SUFFICES ASSUME IInv, ServiceInv, [Next]_vars
             PROVE  [Lifetime!Next]_(Lifetime!lifetimeVars)
  OBVIOUS
<1> USE DEF vars, serveVars, countVars, timerVars, stopVars, ctxVars, fileVars,
       connVars, wrapVars
<1>1. CASE CloserStep
  BY <1>1, Unseen
     DEF CloserStep, WriteMarker, CloseListener, CloseConnection, Phase
<1>2. ASSUME NEW c \in Connection, ReaderEnds(c)
      PROVE  [Lifetime!Next]_(Lifetime!lifetimeVars)
  BY <1>2, UnregisterImplements DEF ReaderEnds, Phase
<1>3. CASE CancelContext \/ TimerFires
  BY <1>3, Unseen DEF CancelContext, TimerFires, Phase
<1>4. CASE UNCHANGED vars
  BY <1>4, Unseen DEF Phase
<1> QED
  BY <1>1, <1>2, <1>3, <1>4, ServeImplements, WrapperImplements,
     ShutdownImplements
     DEF Next, ReaderStep, EnvironmentStep, Terminated

\* The manager and its wrappers, over sockets, goroutines and timers, keep the
\* promise of SessionLifetime.
THEOREM Implementation == Spec => ImplementsLifetime
<1>1. Init => Lifetime!Init
  BY DEF Init, Lifetime!Init, Phase, Holders, Holding
<1>2. IInv /\ ServiceInv /\ [Next]_vars => [Lifetime!Next]_(Lifetime!lifetimeVars)
  BY StepImplements
<1> QED
  BY <1>1, <1>2, ServiceInvariance, PTL
     DEF Spec, ImplementsLifetime, Lifetime!Spec

\* What the refinement is for: unless a shutdown was forced, a command that
\* holds its connection is in the manager's map at every moment. It follows from
\* the abstract specification alone.
THEOREM PromiseIsKept == Spec => []Lifetime!HoldersAreMembers
<1> USE DEF Lifetime!HoldersAreMembers
<1>1. Lifetime!Init => Lifetime!HoldersAreMembers
  BY DEF Lifetime!Init
<1>2. Lifetime!HoldersAreMembers /\ [Lifetime!Next]_(Lifetime!lifetimeVars)
        => Lifetime!HoldersAreMembers'
  BY DEF Lifetime!Next, Lifetime!Open, Lifetime!FailToOpen, Lifetime!Admit,
     Lifetime!Grant, Lifetime!Leave, Lifetime!Forget, Lifetime!IdleStop,
     Lifetime!ForceStop, Lifetime!Close, Lifetime!lifetimeVars
<1> QED
  BY <1>1, <1>2, Implementation, PTL DEF ImplementsLifetime, Lifetime!Spec
=============================================================================
