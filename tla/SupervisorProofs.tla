-------------------------- MODULE SupervisorProofs --------------------------
(***************************************************************************)
(* Proofs about module Supervisor. The specification has no constants, so  *)
(* TLC has seen every state; the proofs say why the properties hold. The   *)
(* invariant follows the goroutine of Serve: Stages ties its place to      *)
(* dockerd, the manager and the case its select took, and Accounts follows *)
(* every failure until it is in the value that Serve returns.              *)
(***************************************************************************)
EXTENDS Supervisor, TLAPS

\* Before the manager's goroutine is started.
Early == {"bootstrap", "startDockerd", "abort", "awaitReady", "own", "access",
          "create"}

Over == {"close", "returned"}

\* What the place of Serve says of dockerd and of the manager.
Stages ==
  /\ sup \in {"bootstrap", "startDockerd"} => daemon = "none"
  /\ daemon = "none" => sup \in {"bootstrap", "startDockerd"} \union Over
  /\ sup = "abort" => failed
  /\ sup \in Early => manager = "none" /\ ~cancelled
  /\ sup \in Early \ {"abort"} => ~asked
  /\ sup = "select" => ~asked /\ ~cancelled
  /\ manager \in {"none", "starting", "serving"} => managerErr = "nil"
  /\ daemon \in {"none", "running"} => status = "none"
  /\ sup \in {"await", "reap"} => asked
  /\ sup \in {"parked", "drain"} => ~asked
  /\ sup = "drain" => woken \in {"daemon", "signal"} /\ cancelled
  /\ sup \in {"stop", "await", "reap"} \union Over =>
       manager \in {"none", "done"}
  /\ sup \in Over => DockerdGone \/ stuck
  /\ sup = "parked" /\ woken = "manager" => manager = "done"
  /\ sup \in {"parked", "drain"} /\ woken = "daemon" => daemon = "reaped"
  /\ sup \notin {"bootstrap", "startDockerd"} \union Over => channel
  /\ sup = "close" /\ daemon # "none" => channel
  /\ sup = "startDockerd" => channel

\* Where a failure is before it reaches the returned error.
Accounts ==
  /\ fault => \/ failed \/ status = "failed" \/ managerErr = "failed"
              \/ sup = "reap"
  /\ stuck => failed
  /\ sup \in {"stop", "await"} /\ manager = "none" => failed
  /\ sup \in {"stop", "await"} /\ ~failed => managerErr # "failed"
  /\ sup \in Over /\ ~failed =>
       status # "failed" /\ managerErr # "failed" /\ daemon = "reaped"
  /\ result = "ok" => sup = "returned" /\ ~failed

\* What a cancelled manager, a signal and an unasked end of dockerd come to.
Losses ==
  /\ sup = "drain" /\ woken = "daemon" => failed
  /\ woken = "signal" => signalled
  /\ cancelled => failed \/ signalled
  /\ manager \in {"stopping", "done"} /\ sup = "select" => managerErr # "nil"
  /\ managerErr = "canceled" => cancelled \/ signalled
  /\ lost => \/ signalled \/ failed
             \/ sup \in {"awaitReady", "own", "access", "create", "select"}
             \/ sup = "parked" /\ woken = "daemon"
             \/ sup = "parked" /\ woken = "manager" /\ managerErr # "nil"
  /\ lost => daemon = "reaped"

IInv == TypeOK /\ Stages /\ Accounts /\ Losses

-----------------------------------------------------------------------------

LEMMA Initially == Init => IInv
  BY DEF Init, IInv, TypeOK, Stages, Accounts, Losses, Early, Over, DockerdGone

\* Every step keeps the types.
LEMMA TypesKept == IInv /\ [Next]_vars => TypeOK'
<1> SUFFICES ASSUME IInv, [Next]_vars PROVE TypeOK'
  OBVIOUS
<1> USE DEF IInv, TypeOK, serveVars, daemonVars, managerVars, history
<1>1. CASE Bootstrap
  BY <1>1 DEF Bootstrap
<1>2. CASE BootstrapFails
  BY <1>2 DEF BootstrapFails, Fail
<1>3. CASE StartDockerd
  BY <1>3 DEF StartDockerd
<1>4. CASE StartDockerdFails
  BY <1>4 DEF StartDockerdFails, Fail
<1>5. CASE CloseLogFails
  BY <1>5 DEF CloseLogFails
<1>6. CASE WaitAborted
  BY <1>6 DEF WaitAborted
<1>7. CASE DockerReady
  BY <1>7 DEF DockerReady, Proceed
<1>8. CASE OwnSocket
  BY <1>8 DEF OwnSocket, Proceed
<1>9. CASE ServiceAccess
  BY <1>9 DEF ServiceAccess, Proceed
<1>10. CASE CreateManager
  BY <1>10 DEF CreateManager
<1>11. CASE StartupFails
  BY <1>11 DEF StartupFails, Fail
<1>12. CASE EnterSelect
  BY <1>12 DEF EnterSelect, Ready
<1>13. CASE ManagerEnded
  BY <1>13 DEF ManagerEnded, Conclude
<1>14. CASE DockerdEnded
  BY <1>14 DEF DockerdEnded
<1>15. CASE ContextDone
  BY <1>15 DEF ContextDone
<1>16. CASE ManagerDrained
  BY <1>16 DEF ManagerDrained, Conclude
<1>17. CASE StopReaped
  BY <1>17 DEF StopReaped, Conclude
<1>18. CASE SignalTerm
  BY <1>18 DEF SignalTerm
<1>19. CASE SignalRefused
  BY <1>19 DEF SignalRefused
<1>20. CASE ShutdownTimesOut
  BY <1>20 DEF ShutdownTimesOut
<1>21. CASE ReapKilled
  BY <1>21 DEF ReapKilled, Conclude
<1>22. CASE Return
  <2>1. result' \in {"ok", "error"}
    BY <1>22, Zenon DEF Return
  <2>2. sup' = "returned" /\ channel' \in BOOLEAN
    BY <1>22 DEF Return
  <2>3. UNCHANGED <<woken, failed, daemon, status, asked, killed, manager,
                    managerErr, cancelled, signalled, fault, lost, stuck>>
    BY <1>22 DEF Return
  <2> QED
    BY <2>1, <2>2, <2>3
<1>23. CASE ManagerListens
  BY <1>23 DEF ManagerListens
<1>24. CASE ManagerListenFails
  BY <1>24 DEF ManagerListenFails, ManagerEnds, WakenedBy
<1>25. CASE ManagerIdle
  BY <1>25 DEF ManagerIdle, ManagerStops
<1>26. CASE ManagerCancelled
  BY <1>26 DEF ManagerCancelled, ManagerStops
<1>27. CASE ManagerFails
  BY <1>27 DEF ManagerFails, ManagerStops
<1>28. CASE ManagerReturns
  BY <1>28 DEF ManagerReturns, ManagerEnds, WakenedBy
<1>29. CASE DockerdStep
  BY <1>29 DEF DockerdStep, DockerdExits
<1>30. CASE DockerdReaped
  BY <1>30 DEF DockerdReaped, WakenedBy
<1>31. CASE SignalServe
  BY <1>31 DEF SignalServe, WakenedBy
<1>32. CASE UNCHANGED vars
  BY <1>32 DEF vars
<1> QED
  BY <1>1, <1>2, <1>3, <1>4, <1>5, <1>6, <1>7, <1>8, <1>9, <1>10, <1>11, <1>12,
     <1>13, <1>14, <1>15, <1>16, <1>17, <1>18, <1>19, <1>20, <1>21, <1>22,
     <1>23, <1>24, <1>25, <1>26, <1>27, <1>28, <1>29, <1>30, <1>31, <1>32
     DEF Next, ServeStep, ManagerStep

\* Every step keeps the places of Serve, dockerd and the manager together.
LEMMA StagesKept == IInv /\ [Next]_vars => Stages'
<1> SUFFICES ASSUME IInv, [Next]_vars PROVE Stages'
  OBVIOUS
<1> USE DEF IInv, TypeOK, Stages, Early, Over, DockerdGone, serveVars,
       daemonVars, managerVars, history
<1>1. CASE Bootstrap
  BY <1>1 DEF Bootstrap
<1>2. CASE BootstrapFails
  BY <1>2 DEF BootstrapFails, Fail
<1>3. CASE StartDockerd
  BY <1>3 DEF StartDockerd
<1>4. CASE StartDockerdFails
  BY <1>4 DEF StartDockerdFails, Fail
<1>5. CASE CloseLogFails
  BY <1>5 DEF CloseLogFails
<1>6. CASE WaitAborted
  BY <1>6 DEF WaitAborted
<1>7. CASE DockerReady
  BY <1>7 DEF DockerReady, Proceed
<1>8. CASE OwnSocket
  BY <1>8 DEF OwnSocket, Proceed
<1>9. CASE ServiceAccess
  BY <1>9 DEF ServiceAccess, Proceed
<1>10. CASE CreateManager
  BY <1>10 DEF CreateManager
<1>11. CASE StartupFails
  BY <1>11 DEF StartupFails, Fail
<1>12. CASE EnterSelect
  BY <1>12 DEF EnterSelect, Ready
<1>13. CASE ManagerEnded
  BY <1>13 DEF ManagerEnded, Conclude
<1>14. CASE DockerdEnded
  BY <1>14 DEF DockerdEnded
<1>15. CASE ContextDone
  BY <1>15 DEF ContextDone
<1>16. CASE ManagerDrained
  BY <1>16 DEF ManagerDrained, Conclude
<1>17. CASE StopReaped
  BY <1>17 DEF StopReaped, Conclude
<1>18. CASE SignalTerm
  BY <1>18 DEF SignalTerm
<1>19. CASE SignalRefused
  BY <1>19 DEF SignalRefused
<1>20. CASE ShutdownTimesOut
  BY <1>20 DEF ShutdownTimesOut
<1>21. CASE ReapKilled
  BY <1>21 DEF ReapKilled, Conclude
<1>22. CASE Return
  BY <1>22 DEF Return
<1>23. CASE ManagerListens
  BY <1>23 DEF ManagerListens
<1>24. CASE ManagerListenFails
  BY <1>24 DEF ManagerListenFails, ManagerEnds, WakenedBy
<1>25. CASE ManagerIdle
  BY <1>25 DEF ManagerIdle, ManagerStops
<1>26. CASE ManagerCancelled
  BY <1>26 DEF ManagerCancelled, ManagerStops
<1>27. CASE ManagerFails
  BY <1>27 DEF ManagerFails, ManagerStops
<1>28. CASE ManagerReturns
  BY <1>28 DEF ManagerReturns, ManagerEnds, WakenedBy
<1>29. CASE DockerdStep
  BY <1>29 DEF DockerdStep, DockerdExits
<1>30. CASE DockerdReaped
  BY <1>30 DEF DockerdReaped, WakenedBy
<1>31. CASE SignalServe
  BY <1>31 DEF SignalServe, WakenedBy
<1>32. CASE UNCHANGED vars
  BY <1>32 DEF vars
<1> QED
  BY <1>1, <1>2, <1>3, <1>4, <1>5, <1>6, <1>7, <1>8, <1>9, <1>10, <1>11, <1>12,
     <1>13, <1>14, <1>15, <1>16, <1>17, <1>18, <1>19, <1>20, <1>21, <1>22,
     <1>23, <1>24, <1>25, <1>26, <1>27, <1>28, <1>29, <1>30, <1>31, <1>32
     DEF Next, ServeStep, ManagerStep

\* No step loses a failure on its way to the result.
LEMMA AccountsKept == IInv /\ [Next]_vars => Accounts'
<1> SUFFICES ASSUME IInv, [Next]_vars PROVE Accounts'
  OBVIOUS
<1> USE DEF IInv, TypeOK, Stages, Accounts, Early, Over, DockerdGone,
       serveVars, daemonVars, managerVars, history
<1>1. CASE Bootstrap
  BY <1>1 DEF Bootstrap
<1>2. CASE BootstrapFails
  BY <1>2 DEF BootstrapFails, Fail
<1>3. CASE StartDockerd
  BY <1>3 DEF StartDockerd
<1>4. CASE StartDockerdFails
  BY <1>4 DEF StartDockerdFails, Fail
<1>5. CASE CloseLogFails
  BY <1>5 DEF CloseLogFails
<1>6. CASE WaitAborted
  BY <1>6 DEF WaitAborted
<1>7. CASE DockerReady
  BY <1>7 DEF DockerReady, Proceed
<1>8. CASE OwnSocket
  BY <1>8 DEF OwnSocket, Proceed
<1>9. CASE ServiceAccess
  BY <1>9 DEF ServiceAccess, Proceed
<1>10. CASE CreateManager
  BY <1>10 DEF CreateManager
<1>11. CASE StartupFails
  BY <1>11 DEF StartupFails, Fail
<1>12. CASE EnterSelect
  BY <1>12 DEF EnterSelect, Ready
<1>13. CASE ManagerEnded
  BY <1>13 DEF ManagerEnded, Conclude
<1>14. CASE DockerdEnded
  BY <1>14 DEF DockerdEnded
<1>15. CASE ContextDone
  BY <1>15 DEF ContextDone
<1>16. CASE ManagerDrained
  BY <1>16 DEF ManagerDrained, Conclude, Losses
<1>17. CASE StopReaped
  BY <1>17 DEF StopReaped, Conclude
<1>18. CASE SignalTerm
  BY <1>18 DEF SignalTerm
<1>19. CASE SignalRefused
  BY <1>19 DEF SignalRefused
<1>20. CASE ShutdownTimesOut
  BY <1>20 DEF ShutdownTimesOut
<1>21. CASE ReapKilled
  BY <1>21 DEF ReapKilled, Conclude
<1>22. CASE Return
  <2>1. CASE failed
    BY <1>22, <2>1 DEF Return
  <2>2. CASE ~failed
    BY <1>22, <2>2 DEF Return
  <2> QED
    BY <2>1, <2>2
<1>23. CASE ManagerListens
  BY <1>23 DEF ManagerListens
<1>24. CASE ManagerListenFails
  BY <1>24 DEF ManagerListenFails, ManagerEnds, WakenedBy
<1>25. CASE ManagerIdle
  BY <1>25 DEF ManagerIdle, ManagerStops
<1>26. CASE ManagerCancelled
  BY <1>26 DEF ManagerCancelled, ManagerStops
<1>27. CASE ManagerFails
  BY <1>27 DEF ManagerFails, ManagerStops
<1>28. CASE ManagerReturns
  BY <1>28 DEF ManagerReturns, ManagerEnds, WakenedBy
<1>29. CASE DockerdStep
  BY <1>29 DEF DockerdStep, DockerdExits
<1>30. CASE DockerdReaped
  BY <1>30 DEF DockerdReaped, WakenedBy
<1>31. CASE SignalServe
  BY <1>31 DEF SignalServe, WakenedBy
<1>32. CASE UNCHANGED vars
  BY <1>32 DEF vars
<1> QED
  BY <1>1, <1>2, <1>3, <1>4, <1>5, <1>6, <1>7, <1>8, <1>9, <1>10, <1>11, <1>12,
     <1>13, <1>14, <1>15, <1>16, <1>17, <1>18, <1>19, <1>20, <1>21, <1>22,
     <1>23, <1>24, <1>25, <1>26, <1>27, <1>28, <1>29, <1>30, <1>31, <1>32
     DEF Next, ServeStep, ManagerStep

\* No step loses an unasked end of dockerd.
LEMMA LossesKept == IInv /\ [Next]_vars => Losses'
<1> SUFFICES ASSUME IInv, [Next]_vars PROVE Losses'
  OBVIOUS
<1> USE DEF IInv, TypeOK, Stages, Losses, Early, Over, DockerdGone, serveVars,
       daemonVars, managerVars, history
<1>1. CASE Bootstrap
  BY <1>1 DEF Bootstrap
<1>2. CASE BootstrapFails
  BY <1>2 DEF BootstrapFails, Fail
<1>3. CASE StartDockerd
  BY <1>3 DEF StartDockerd
<1>4. CASE StartDockerdFails
  BY <1>4 DEF StartDockerdFails, Fail
<1>5. CASE CloseLogFails
  BY <1>5 DEF CloseLogFails
<1>6. CASE WaitAborted
  BY <1>6 DEF WaitAborted
<1>7. CASE DockerReady
  BY <1>7 DEF DockerReady, Proceed
<1>8. CASE OwnSocket
  BY <1>8 DEF OwnSocket, Proceed
<1>9. CASE ServiceAccess
  BY <1>9 DEF ServiceAccess, Proceed
<1>10. CASE CreateManager
  BY <1>10 DEF CreateManager
<1>11. CASE StartupFails
  BY <1>11 DEF StartupFails, Fail
<1>12. CASE EnterSelect
  BY <1>12 DEF EnterSelect, Ready
<1>13. CASE ManagerEnded
  BY <1>13 DEF ManagerEnded, Conclude
<1>14. CASE DockerdEnded
  BY <1>14 DEF DockerdEnded
<1>15. CASE ContextDone
  BY <1>15 DEF ContextDone
<1>16. CASE ManagerDrained
  BY <1>16 DEF ManagerDrained, Conclude
<1>17. CASE StopReaped
  BY <1>17 DEF StopReaped, Conclude
<1>18. CASE SignalTerm
  BY <1>18 DEF SignalTerm
<1>19. CASE SignalRefused
  BY <1>19 DEF SignalRefused
<1>20. CASE ShutdownTimesOut
  BY <1>20 DEF ShutdownTimesOut
<1>21. CASE ReapKilled
  BY <1>21 DEF ReapKilled, Conclude
<1>22. CASE Return
  BY <1>22 DEF Return
<1>23. CASE ManagerListens
  BY <1>23 DEF ManagerListens
<1>24. CASE ManagerListenFails
  BY <1>24 DEF ManagerListenFails, ManagerEnds, WakenedBy
<1>25. CASE ManagerIdle
  BY <1>25 DEF ManagerIdle, ManagerStops
<1>26. CASE ManagerCancelled
  BY <1>26 DEF ManagerCancelled, ManagerStops
<1>27. CASE ManagerFails
  BY <1>27 DEF ManagerFails, ManagerStops
<1>28. CASE ManagerReturns
  BY <1>28 DEF ManagerReturns, ManagerEnds, WakenedBy
<1>29. CASE DockerdStep
  BY <1>29 DEF DockerdStep, DockerdExits
<1>30. CASE DockerdReaped
  BY <1>30 DEF DockerdReaped, WakenedBy, Accounts
<1>31. CASE SignalServe
  BY <1>31 DEF SignalServe, WakenedBy
<1>32. CASE UNCHANGED vars
  BY <1>32 DEF vars
<1> QED
  BY <1>1, <1>2, <1>3, <1>4, <1>5, <1>6, <1>7, <1>8, <1>9, <1>10, <1>11, <1>12,
     <1>13, <1>14, <1>15, <1>16, <1>17, <1>18, <1>19, <1>20, <1>21, <1>22,
     <1>23, <1>24, <1>25, <1>26, <1>27, <1>28, <1>29, <1>30, <1>31, <1>32
     DEF Next, ServeStep, ManagerStep

\* The invariant of the protocol.
LEMMA Invariance == Spec => []IInv
<1>1. IInv /\ [Next]_vars => IInv'
  BY TypesKept, StagesKept, AccountsKept, LossesKept DEF IInv
<1> QED
  BY Initially, <1>1, PTL DEF Spec

\* The type invariant of Serve, dockerd and the manager.
THEOREM TypeCorrect == Spec => []TypeOK
  BY Invariance, PTL DEF IInv

\* dockerd is asked to stop only when no manager runs, so a registered
\* command never loses its nested Docker to the shutdown of the session.
THEOREM DockerdIsStoppedLast == Spec => []DockerdOutlivesManager
<1>1. IInv => DockerdOutlivesManager
  BY DEF IInv, TypeOK, Stages, DockerdOutlivesManager, Early, Over
<1> QED
  BY Invariance, <1>1, PTL

\* Serve leaves neither dockerd nor the manager behind, unless the kernel
\* refuses a signal.
THEOREM ServeCleansUp == Spec => []NothingIsLeftBehind
<1>1. IInv => NothingIsLeftBehind
  BY DEF IInv, Stages, NothingIsLeftBehind, Over
<1> QED
  BY Invariance, <1>1, PTL

\* The lease on the host-MCP channel is held for as long as dockerd is there.
THEOREM LeaseIsHeldThroughout == Spec => []LeaseCoversRun
<1>1. IInv => LeaseCoversRun
  BY DEF IInv, TypeOK, Stages, LeaseCoversRun, Over
<1> QED
  BY Invariance, <1>1, PTL

\* A nil result of Serve hides no failure.
THEOREM SuccessIsHonest == Spec => []SuccessHidesNothing
<1>1. IInv => SuccessHidesNothing
  BY DEF IInv, TypeOK, Stages, Accounts, Losses, SuccessHidesNothing, Over
<1> QED
  BY Invariance, <1>1, PTL

=============================================================================
