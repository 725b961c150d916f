------------------------- MODULE SessionLaunchProofs -------------------------
(***************************************************************************)
(* Proofs about SessionLaunch, for every set of launchers, of containers   *)
(* and of fingerprints, with and without forwarding, and for every bound   *)
(* on lost creations.                                                      *)
(***************************************************************************)
EXTENDS SessionLaunch, TLAPS

\* Docker lets one container have the project's name.
OneHolder == \A c, d \in Holder : c = d

\* A launcher creates only while it has a try left; an acquisition starts with
\* all of them.
Tries ==
  \A l \in Launcher : /\ pc[l] = "inspect" => losses[l] = 0
                      /\ pc[l] = "create" => losses[l] < Attempts

\* A launcher past its inspection works with some container.
Remembered ==
  \A l \in Launcher :
    pc[l] \in {"restart", "ready", "adopt", "channel", "exec", "register", "running"}
      => cid[l] \in Container

\* The container it works with is one it may use, or is gone: a remembered
\* container ID never comes to name another container.
Matched ==
  \A l \in Launcher :
    cid[l] \in Container => state[cid[l]] = "none" \/ Accepts(l, cid[l])

\* The commands that are registered in a container are those that run in it.
Registered ==
  \A c \in Container : \A l \in Launcher :
    l \in active[c] <=> pc[l] = "running" /\ cid[l] = c

\* An exec lives no longer than its container.
ExecsAreAlive ==
  \A l \in Launcher : pc[l] \in {"register", "running"} => Running(cid[l])

\* No launch has started its command before it runs it.
StartsAreCounted ==
  \A l \in Launcher : /\ ran[l] <= 1
                      /\ pc[l] \notin {"running"} \union Final => ran[l] = 0

\* A launcher past the readiness check has a container that is past bootstrap,
\* or a kept one.
PastBootstrap ==
  \A l \in Launcher :
    pc[l] \in {"adopt", "channel", "exec", "register"}
      => state[cid[l]] # "booting" \/ keep[cid[l]]

IInv ==
  /\ TypeOK /\ OneHolder /\ Tries /\ Remembered /\ Matched /\ Registered
  /\ ExecsAreAlive /\ StartsAreCounted /\ PastBootstrap

-----------------------------------------------------------------------------
\* The steps of a launcher that leave Docker's containers as they are.
Looks(l) ==
  \/ FindNone(l) \/ FindStopped(l) \/ Rejected(l) \/ Released(l) \/ NotReady(l)
  \/ Ready(l) \/ Adopt(l) \/ ChannelReady(l) \/ AcquireFails(l) \/ Exec(l)
  \/ WrapperRefused(l) \/ StillRemoved(l)

Finds(l) == FindRunning(l) \/ WaitFindsRunning(l) \/ WaitFindsKept(l)

Acquires(l) == Retry(l) \/ RetryAfterRemoval(l)

\* The initial states satisfy every part of the inductive invariant.
LEMMA InitInvariant == Init => IInv
<1> SUFFICES ASSUME Init PROVE IInv
  OBVIOUS
<1> USE LaunchAssumption
<1>1. TypeOK
  BY DEF Init, TypeOK
<1>2. OneHolder /\ Tries /\ Remembered
  BY DEF Init, OneHolder, Tries, Remembered, Holder, Exists
<1>3. Matched /\ Registered /\ ExecsAreAlive
  BY DEF Init, Matched, Registered, ExecsAreAlive
<1>4. StartsAreCounted /\ PastBootstrap
  BY DEF Init, StartsAreCounted, PastBootstrap
<1> QED
  BY <1>1, <1>2, <1>3, <1>4 DEF IInv

\* A launcher that looks only moves on.
LEMMA LookMoves ==
  ASSUME NEW l \in Launcher, Looks(l)
  PROVE  /\ Stay
         /\ \E p \in {"create", "wait", "failed", "adopt", "channel", "exec", "cleanup",
                      "register", "check", "recheck"} : Goto(l, p)
<1>1. Stay
  BY DEF Looks, FindNone, FindStopped, Rejected, Released, NotReady, Ready,
     Adopt, ChannelReady, AcquireFails, Exec, WrapperRefused, StillRemoved
<1>2. \E p \in {"create", "wait", "failed", "adopt", "channel", "exec", "cleanup",
                "register", "check", "recheck"} : Goto(l, p)
  BY DEF Looks, FindNone, FindStopped, Rejected, Released, NotReady, Ready,
     Adopt, ChannelReady, AcquireFails, Exec, WrapperRefused, StillRemoved,
     Unwind
<1> QED
  BY <1>1, <1>2

\* A second acquisition starts where the first one did.
LEMMA AcquireMoves ==
  ASSUME NEW l \in Launcher, Acquires(l)
  PROVE  Again(l) /\ pc[l] \in {"check", "recheck"}
BY DEF Acquires, Retry, RetryAfterRemoval

\* The kinds of steps.
LEMMA StepCases ==
  ASSUME [Next]_vars
  PROVE  \/ \E l \in Launcher :
              \/ Looks(l) \/ Finds(l) \/ Acquires(l) \/ Create(l) \/ CreateFails(l)
              \/ CreateConflicts(l) \/ Restart(l) \/ Cleanup(l) \/ NoRetry(l)
              \/ Register(l) \/ CommandEnds(l)
         \/ \E c \in Container :
              \/ Serve(c) \/ CommitIdle(c) \/ CloseSession(c) \/ (Running(c) /\ End(c))
              \/ Remove(c) \/ ForeignAppears(c)
         \/ UNCHANGED vars
BY DEF Next, LaunchStep, ContainerStep, Looks, Finds, Acquires, Exit, Crash,
   Running

\* Every step keeps the types.
LEMMA TypeStep ==
  TypeOK /\ Tries /\ Remembered /\ StartsAreCounted /\ [Next]_vars => TypeOK'
<1> SUFFICES ASSUME TypeOK, Tries, Remembered, StartsAreCounted, [Next]_vars PROVE TypeOK'
  OBVIOUS
<1> USE LaunchAssumption DEF TypeOK, Final, dockerVars, options, vars
<1>1. ASSUME NEW l \in Launcher, Looks(l) PROVE TypeOK'
  BY <1>1, LookMoves, SMTT(30) DEF Stay, Goto
<1>2. ASSUME NEW l \in Launcher, Finds(l) PROVE TypeOK'
  <2>1. CASE FindRunning(l)
    BY <2>1 DEF FindRunning, Take, Holder
  <2>2. CASE WaitFindsRunning(l)
    BY <2>2 DEF WaitFindsRunning, Take, Holder
  <2>3. CASE WaitFindsKept(l)
    BY <2>3 DEF WaitFindsKept, Take, Holder
  <2> QED
    BY <1>2, <2>1, <2>2, <2>3 DEF Finds
<1>3. ASSUME NEW l \in Launcher, Acquires(l) PROVE TypeOK'
  <2>1. Again(l)
    BY <1>3, AcquireMoves
  <2> QED
    BY <2>1 DEF Again
<1>4. ASSUME NEW l \in Launcher, Create(l) \/ CreateFails(l) PROVE TypeOK'
  BY <1>4, SMTT(30) DEF Create, CreateFails, Become, Take, Goto
<1>5. ASSUME NEW l \in Launcher, CreateConflicts(l) PROVE TypeOK'
  BY <1>5 DEF CreateConflicts, Tries, Goto
<1>6. ASSUME NEW l \in Launcher, Restart(l) \/ Cleanup(l) PROVE TypeOK'
  <2>1. CASE Restart(l)
    BY <2>1 DEF Restart, Goto
  <2>2. CASE Cleanup(l)
    BY <2>2 DEF Cleanup, Goto
  <2> QED
    BY <1>6, <2>1, <2>2
<1>7. ASSUME NEW l \in Launcher, NoRetry(l) PROVE TypeOK'
  BY <1>7 DEF NoRetry, Become, Goto
<1>8. ASSUME NEW l \in Launcher, Register(l) \/ CommandEnds(l) PROVE TypeOK'
  BY <1>8 DEF Register, CommandEnds, Goto, Remembered, StartsAreCounted
<1>9. ASSUME NEW c \in Container, ContainerStep(c) PROVE TypeOK'
  <2>1. CASE Serve(c) \/ CommitIdle(c) \/ CloseSession(c) \/ Remove(c) \/ ForeignAppears(c)
    BY <2>1, ZenonT(60) DEF Serve, CommitIdle, CloseSession, Remove, ForeignAppears, Become
  <2>2. CASE Running(c) /\ End(c)
    BY <2>2 DEF End, Become, ExecKilled
  <2> QED
    BY <1>9, <2>1, <2>2 DEF ContainerStep, Exit, Crash, Running
<1>10. CASE UNCHANGED vars
  BY <1>10
<1> QED
  BY <1>1, <1>2, <1>3, <1>4, <1>5, <1>6, <1>7, <1>8, <1>9, <1>10
     DEF Next, LaunchStep, Looks, Finds, Acquires

\* A container is created only where no container has the name.
LEMMA OneHolderStep ==
  TypeOK /\ OneHolder /\ [Next]_vars => OneHolder'
<1> SUFFICES ASSUME TypeOK, OneHolder, [Next]_vars PROVE OneHolder'
  OBVIOUS
<1> USE LaunchAssumption
       DEF TypeOK, OneHolder, Holder, Exists, Running, dockerVars, vars
<1>1. ASSUME NEW l \in Launcher, Looks(l) PROVE OneHolder'
  BY <1>1, LookMoves DEF Stay, Goto
<1>2. ASSUME NEW l \in Launcher, Finds(l) PROVE OneHolder'
  BY <1>2 DEF Finds, FindRunning, WaitFindsRunning, WaitFindsKept, Take
<1>3. ASSUME NEW l \in Launcher, Acquires(l) PROVE OneHolder'
  BY <1>3, AcquireMoves DEF Again
<1>4. ASSUME NEW l \in Launcher, Create(l) PROVE OneHolder'
  BY <1>4 DEF Create, Become, Take
<1>5. ASSUME NEW l \in Launcher, CreateFails(l) PROVE OneHolder'
  BY <1>5 DEF CreateFails, Become, Goto
<1>6. ASSUME NEW l \in Launcher, CreateConflicts(l) PROVE OneHolder'
  BY <1>6 DEF CreateConflicts, Goto
<1>7. ASSUME NEW l \in Launcher, Restart(l) PROVE OneHolder'
  BY <1>7 DEF Restart, Goto
<1>8. ASSUME NEW l \in Launcher, Cleanup(l) PROVE OneHolder'
  BY <1>8 DEF Cleanup, Goto
<1>9. ASSUME NEW l \in Launcher, NoRetry(l) PROVE OneHolder'
  BY <1>9 DEF NoRetry, Become, Goto
<1>10. ASSUME NEW l \in Launcher, Register(l) PROVE OneHolder'
  BY <1>10 DEF Register, Goto
<1>11. ASSUME NEW l \in Launcher, CommandEnds(l) PROVE OneHolder'
  BY <1>11 DEF CommandEnds, Goto
<1>12. ASSUME NEW c \in Container, Serve(c) \/ CommitIdle(c) \/ CloseSession(c) PROVE OneHolder'
  BY <1>12 DEF Serve, CommitIdle, CloseSession, Become
<1>13. ASSUME NEW c \in Container, Running(c) /\ End(c) PROVE OneHolder'
  BY <1>13 DEF End, Become, ExecKilled
<1>14. ASSUME NEW c \in Container, Remove(c) PROVE OneHolder'
  BY <1>14 DEF Remove, Become
<1>15. ASSUME NEW c \in Container, ForeignAppears(c) PROVE OneHolder'
  BY <1>15 DEF ForeignAppears, Become
<1>16. CASE UNCHANGED vars
  BY <1>16
<1> QED
  BY <1>1, <1>2, <1>3, <1>4, <1>5, <1>6, <1>7, <1>8, <1>9, <1>10, <1>11, <1>12,
     <1>13,
     <1>14, <1>15, <1>16, StepCases

\* Creation is tried again only with a try left.
LEMMA TriesStep ==
  TypeOK /\ Tries /\ [Next]_vars => Tries'
<1> SUFFICES ASSUME TypeOK, Tries, [Next]_vars PROVE Tries'
  OBVIOUS
<1> USE LaunchAssumption DEF TypeOK, Tries, vars
<1>1. ASSUME NEW l \in Launcher, Looks(l) PROVE Tries'
  <2>1. CASE FindNone(l) \/ Released(l)
    BY <2>1 DEF FindNone, Released, Stay, Goto
  <2>2. CASE ~(FindNone(l) \/ Released(l))
    <3>1. /\ Stay
          /\ \E p \in {"wait", "failed", "adopt", "channel", "exec", "cleanup",
                       "register", "check", "recheck"} : Goto(l, p)
      BY <1>1, <2>2
         DEF Looks, FindStopped, Rejected, NotReady, Ready, Adopt,
             ChannelReady, AcquireFails, Exec, WrapperRefused, StillRemoved,
             Unwind
    <3> QED
      BY <3>1 DEF Stay, Goto
  <2> QED
    BY <2>1, <2>2
<1>2. ASSUME NEW l \in Launcher, Finds(l) PROVE Tries'
  BY <1>2 DEF Finds, FindRunning, WaitFindsRunning, WaitFindsKept, Take
<1>3. ASSUME NEW l \in Launcher, Acquires(l) PROVE Tries'
  BY <1>3, AcquireMoves DEF Again
<1>4. ASSUME NEW l \in Launcher, Create(l) PROVE Tries'
  BY <1>4 DEF Create, Become, Take
<1>5. ASSUME NEW l \in Launcher, CreateFails(l) PROVE Tries'
  BY <1>5 DEF CreateFails, Become, Goto
<1>6. ASSUME NEW l \in Launcher, CreateConflicts(l) PROVE Tries'
  BY <1>6 DEF CreateConflicts, Goto
<1>7. ASSUME NEW l \in Launcher, Restart(l) PROVE Tries'
  BY <1>7 DEF Restart, Goto
<1>8. ASSUME NEW l \in Launcher, Cleanup(l) PROVE Tries'
  BY <1>8 DEF Cleanup, Goto
<1>9. ASSUME NEW l \in Launcher, NoRetry(l) PROVE Tries'
  BY <1>9 DEF NoRetry, Become, Goto
<1>10. ASSUME NEW l \in Launcher, Register(l) PROVE Tries'
  BY <1>10 DEF Register, Goto
<1>11. ASSUME NEW l \in Launcher, CommandEnds(l) PROVE Tries'
  BY <1>11 DEF CommandEnds, Goto
<1>12. ASSUME NEW c \in Container, Serve(c) \/ CommitIdle(c) \/ CloseSession(c) PROVE Tries'
  BY <1>12 DEF Serve, CommitIdle, CloseSession, Become
<1>13. ASSUME NEW c \in Container, Running(c) /\ End(c) PROVE Tries'
  BY <1>13 DEF End, Become, ExecKilled
<1>14. ASSUME NEW c \in Container, Remove(c) PROVE Tries'
  BY <1>14 DEF Remove, Become
<1>15. ASSUME NEW c \in Container, ForeignAppears(c) PROVE Tries'
  BY <1>15 DEF ForeignAppears, Become
<1>16. CASE UNCHANGED vars
  BY <1>16
<1> QED
  BY <1>1, <1>2, <1>3, <1>4, <1>5, <1>6, <1>7, <1>8, <1>9, <1>10, <1>11, <1>12,
     <1>13,
     <1>14, <1>15, <1>16, StepCases

\* A launcher keeps the container it works with.
LEMMA RememberedStep ==
  TypeOK /\ Remembered /\ [Next]_vars => Remembered'
<1> SUFFICES ASSUME TypeOK, Remembered, [Next]_vars PROVE Remembered'
  OBVIOUS
<1> USE LaunchAssumption DEF TypeOK, Remembered, Final, vars
<1>1. ASSUME NEW l \in Launcher, Looks(l) PROVE Remembered'
  BY <1>1, LookMoves
     DEF Looks, FindNone, FindStopped, Rejected, Released, NotReady, Ready,
         Adopt, ChannelReady, AcquireFails, Exec, WrapperRefused, StillRemoved,
         Stay, Goto, Unwind
<1>2. ASSUME NEW l \in Launcher, Finds(l) PROVE Remembered'
  BY <1>2 DEF Finds, FindRunning, WaitFindsRunning, WaitFindsKept, Take, Holder
<1>3. ASSUME NEW l \in Launcher, Acquires(l) PROVE Remembered'
  BY <1>3, AcquireMoves DEF Again
<1>4. ASSUME NEW l \in Launcher, Create(l) PROVE Remembered'
  BY <1>4 DEF Create, Become, Take
<1>5. ASSUME NEW l \in Launcher, CreateFails(l) PROVE Remembered'
  BY <1>5 DEF CreateFails, Become, Goto
<1>6. ASSUME NEW l \in Launcher, CreateConflicts(l) PROVE Remembered'
  BY <1>6 DEF CreateConflicts, Goto
<1>7. ASSUME NEW l \in Launcher, Restart(l) PROVE Remembered'
  BY <1>7 DEF Restart, Goto
<1>8. ASSUME NEW l \in Launcher, Cleanup(l) PROVE Remembered'
  BY <1>8 DEF Cleanup, Goto
<1>9. ASSUME NEW l \in Launcher, NoRetry(l) PROVE Remembered'
  BY <1>9 DEF NoRetry, Become, Goto
<1>10. ASSUME NEW l \in Launcher, Register(l) PROVE Remembered'
  BY <1>10 DEF Register, Goto
<1>11. ASSUME NEW l \in Launcher, CommandEnds(l) PROVE Remembered'
  BY <1>11 DEF CommandEnds, Goto
<1>12. ASSUME NEW c \in Container, Serve(c) \/ CommitIdle(c) \/ CloseSession(c) PROVE Remembered'
  BY <1>12 DEF Serve, CommitIdle, CloseSession, Become
<1>13. ASSUME NEW c \in Container, Running(c) /\ End(c) PROVE Remembered'
  BY <1>13 DEF End, Become, ExecKilled
<1>14. ASSUME NEW c \in Container, Remove(c) PROVE Remembered'
  BY <1>14 DEF Remove, Become
<1>15. ASSUME NEW c \in Container, ForeignAppears(c) PROVE Remembered'
  BY <1>15 DEF ForeignAppears, Become
<1>16. CASE UNCHANGED vars
  BY <1>16
<1> QED
  BY <1>1, <1>2, <1>3, <1>4, <1>5, <1>6, <1>7, <1>8, <1>9, <1>10, <1>11, <1>12,
     <1>13,
     <1>14, <1>15, <1>16, StepCases

\* A slot is used again only when nobody remembers it.
LEMMA MatchedStep ==
  TypeOK /\ Matched /\ [Next]_vars => Matched'
<1> SUFFICES ASSUME TypeOK, Matched, [Next]_vars PROVE Matched'
  OBVIOUS
<1> USE LaunchAssumption
       DEF TypeOK, Matched, Accepts, Owned, Running, Final, dockerVars,
           options, vars
<1>1. ASSUME NEW l \in Launcher, Looks(l) PROVE Matched'
  BY <1>1, LookMoves DEF Stay, Goto
<1>2. ASSUME NEW l \in Launcher, Finds(l) PROVE Matched'
  BY <1>2 DEF Finds, FindRunning, WaitFindsRunning, WaitFindsKept, Take
<1>3. ASSUME NEW l \in Launcher, Acquires(l) PROVE Matched'
  BY <1>3, AcquireMoves DEF Again
<1>4. ASSUME NEW l \in Launcher, Create(l) PROVE Matched'
  BY <1>4 DEF Create, Become, Take
<1>5. ASSUME NEW l \in Launcher, CreateFails(l) PROVE Matched'
  BY <1>5 DEF CreateFails, Become, Goto
<1>6. ASSUME NEW l \in Launcher, CreateConflicts(l) PROVE Matched'
  BY <1>6 DEF CreateConflicts, Goto
<1>7. ASSUME NEW l \in Launcher, Restart(l) PROVE Matched'
  BY <1>7 DEF Restart, Goto
<1>8. ASSUME NEW l \in Launcher, Cleanup(l) PROVE Matched'
  BY <1>8 DEF Cleanup, Goto
<1>9. ASSUME NEW l \in Launcher, NoRetry(l) PROVE Matched'
  BY <1>9 DEF NoRetry, Become, Goto
<1>10. ASSUME NEW l \in Launcher, Register(l) PROVE Matched'
  BY <1>10 DEF Register, Goto
<1>11. ASSUME NEW l \in Launcher, CommandEnds(l) PROVE Matched'
  BY <1>11 DEF CommandEnds, Goto
<1>12. ASSUME NEW c \in Container, Serve(c) \/ CommitIdle(c) \/ CloseSession(c) PROVE Matched'
  BY <1>12 DEF Serve, CommitIdle, CloseSession, Become
<1>13. ASSUME NEW c \in Container, Running(c) /\ End(c) PROVE Matched'
  BY <1>13 DEF End, Become, ExecKilled
<1>14. ASSUME NEW c \in Container, Remove(c) PROVE Matched'
  BY <1>14 DEF Remove, Become
<1>15. ASSUME NEW c \in Container, ForeignAppears(c) PROVE Matched'
  BY <1>15 DEF ForeignAppears, Become
<1>16. CASE UNCHANGED vars
  BY <1>16
<1> QED
  BY <1>1, <1>2, <1>3, <1>4, <1>5, <1>6, <1>7, <1>8, <1>9, <1>10, <1>11, <1>12,
     <1>13,
     <1>14, <1>15, <1>16, StepCases

\* Commands and registrations come and go together.
LEMMA RegisteredStep ==
  TypeOK /\ Remembered /\ Registered /\ [Next]_vars => Registered'
<1> SUFFICES ASSUME TypeOK, Remembered, Registered, [Next]_vars PROVE Registered'
  OBVIOUS
<1> USE LaunchAssumption DEF TypeOK, Registered, Final, dockerVars, vars
<1>1. ASSUME NEW l \in Launcher, Looks(l) PROVE Registered'
  BY <1>1, LookMoves
     DEF Looks, FindNone, FindStopped, Rejected, Released, NotReady, Ready,
         Adopt, ChannelReady, AcquireFails, Exec, WrapperRefused, StillRemoved,
         Stay, Goto, Unwind
<1>2. ASSUME NEW l \in Launcher, Finds(l) PROVE Registered'
  BY <1>2 DEF Finds, FindRunning, WaitFindsRunning, WaitFindsKept, Take
<1>3. ASSUME NEW l \in Launcher, Acquires(l) PROVE Registered'
  BY <1>3, AcquireMoves DEF Again
<1>4. ASSUME NEW l \in Launcher, Create(l) PROVE Registered'
  BY <1>4 DEF Create, Become, Take
<1>5. ASSUME NEW l \in Launcher, CreateFails(l) PROVE Registered'
  BY <1>5 DEF CreateFails, Become, Goto
<1>6. ASSUME NEW l \in Launcher, CreateConflicts(l) PROVE Registered'
  BY <1>6 DEF CreateConflicts, Goto
<1>7. ASSUME NEW l \in Launcher, Restart(l) PROVE Registered'
  BY <1>7 DEF Restart, Goto
<1>8. ASSUME NEW l \in Launcher, Cleanup(l) PROVE Registered'
  BY <1>8 DEF Cleanup, Goto
<1>9. ASSUME NEW l \in Launcher, NoRetry(l) PROVE Registered'
  BY <1>9 DEF NoRetry, Become, Goto
<1>10. ASSUME NEW l \in Launcher, Register(l) PROVE Registered'
  BY <1>10 DEF Register, Goto, Remembered
<1>11. ASSUME NEW l \in Launcher, CommandEnds(l) PROVE Registered'
  BY <1>11 DEF CommandEnds, Goto, Remembered
<1>12. ASSUME NEW c \in Container, Serve(c) \/ CommitIdle(c) \/ CloseSession(c) PROVE Registered'
  BY <1>12 DEF Serve, CommitIdle, CloseSession, Become
<1>13. ASSUME NEW c \in Container, Running(c) /\ End(c) PROVE Registered'
  BY <1>13 DEF End, Become, ExecKilled
<1>14. ASSUME NEW c \in Container, Remove(c) PROVE Registered'
  BY <1>14 DEF Remove, Become
<1>15. ASSUME NEW c \in Container, ForeignAppears(c) PROVE Registered'
  BY <1>15 DEF ForeignAppears, Become
<1>16. CASE UNCHANGED vars
  BY <1>16
<1> QED
  BY <1>1, <1>2, <1>3, <1>4, <1>5, <1>6, <1>7, <1>8, <1>9, <1>10, <1>11, <1>12,
     <1>13,
     <1>14, <1>15, <1>16, StepCases

\* A container that ends takes its execs with it.
LEMMA ExecsAreAliveStep ==
  TypeOK /\ Remembered /\ ExecsAreAlive /\ [Next]_vars => ExecsAreAlive'
<1> SUFFICES ASSUME TypeOK, Remembered, ExecsAreAlive, [Next]_vars PROVE ExecsAreAlive'
  OBVIOUS
<1> USE LaunchAssumption
       DEF TypeOK, ExecsAreAlive, Remembered, Running, Final, dockerVars, vars
<1>1. ASSUME NEW l \in Launcher, Looks(l) PROVE ExecsAreAlive'
  BY <1>1, LookMoves, SMTT(30)
     DEF Looks, FindNone, FindStopped, Rejected, Released, NotReady, Ready,
         Adopt, ChannelReady, AcquireFails, Exec, WrapperRefused, StillRemoved,
         Stay, Goto, Unwind
<1>2. ASSUME NEW l \in Launcher, Finds(l) PROVE ExecsAreAlive'
  BY <1>2 DEF Finds, FindRunning, WaitFindsRunning, WaitFindsKept, Take
<1>3. ASSUME NEW l \in Launcher, Acquires(l) PROVE ExecsAreAlive'
  BY <1>3, AcquireMoves DEF Again
<1>4. ASSUME NEW l \in Launcher, Create(l) PROVE ExecsAreAlive'
  BY <1>4 DEF Create, Become, Take
<1>5. ASSUME NEW l \in Launcher, CreateFails(l) PROVE ExecsAreAlive'
  BY <1>5 DEF CreateFails, Become, Goto
<1>6. ASSUME NEW l \in Launcher, CreateConflicts(l) PROVE ExecsAreAlive'
  BY <1>6 DEF CreateConflicts, Goto
<1>7. ASSUME NEW l \in Launcher, Restart(l) PROVE ExecsAreAlive'
  BY <1>7 DEF Restart, Goto
<1>8. ASSUME NEW l \in Launcher, Cleanup(l) PROVE ExecsAreAlive'
  BY <1>8 DEF Cleanup, Goto
<1>9. ASSUME NEW l \in Launcher, NoRetry(l) PROVE ExecsAreAlive'
  BY <1>9 DEF NoRetry, Become, Goto
<1>10. ASSUME NEW l \in Launcher, Register(l) PROVE ExecsAreAlive'
  BY <1>10 DEF Register, Goto
<1>11. ASSUME NEW l \in Launcher, CommandEnds(l) PROVE ExecsAreAlive'
  BY <1>11 DEF CommandEnds, Goto
<1>12. ASSUME NEW c \in Container, Serve(c) \/ CommitIdle(c) \/ CloseSession(c) PROVE ExecsAreAlive'
  BY <1>12 DEF Serve, CommitIdle, CloseSession, Become
<1>13. ASSUME NEW c \in Container, Running(c) /\ End(c) PROVE ExecsAreAlive'
  BY <1>13 DEF End, Become, ExecKilled
<1>14. ASSUME NEW c \in Container, Remove(c) PROVE ExecsAreAlive'
  BY <1>14 DEF Remove, Become
<1>15. ASSUME NEW c \in Container, ForeignAppears(c) PROVE ExecsAreAlive'
  BY <1>15 DEF ForeignAppears, Become
<1>16. CASE UNCHANGED vars
  BY <1>16
<1> QED
  BY <1>1, <1>2, <1>3, <1>4, <1>5, <1>6, <1>7, <1>8, <1>9, <1>10, <1>11, <1>12,
     <1>13,
     <1>14, <1>15, <1>16, StepCases

\* A command that has been started is not started again.
LEMMA StartsAreCountedStep ==
  TypeOK /\ StartsAreCounted /\ [Next]_vars => StartsAreCounted'
<1> SUFFICES ASSUME TypeOK, StartsAreCounted, [Next]_vars PROVE StartsAreCounted'
  OBVIOUS
<1> USE LaunchAssumption DEF TypeOK, StartsAreCounted, Final, vars
<1>1. ASSUME NEW l \in Launcher, Looks(l) PROVE StartsAreCounted'
  BY <1>1, LookMoves
     DEF Looks, FindNone, FindStopped, Rejected, Released, NotReady, Ready,
         Adopt, ChannelReady, AcquireFails, Exec, WrapperRefused, StillRemoved,
         Stay, Goto, Unwind
<1>2. ASSUME NEW l \in Launcher, Finds(l) PROVE StartsAreCounted'
  BY <1>2 DEF Finds, FindRunning, WaitFindsRunning, WaitFindsKept, Take
<1>3. ASSUME NEW l \in Launcher, Acquires(l) PROVE StartsAreCounted'
  BY <1>3, AcquireMoves DEF Again
<1>4. ASSUME NEW l \in Launcher, Create(l) PROVE StartsAreCounted'
  BY <1>4 DEF Create, Become, Take
<1>5. ASSUME NEW l \in Launcher, CreateFails(l) PROVE StartsAreCounted'
  BY <1>5 DEF CreateFails, Become, Goto
<1>6. ASSUME NEW l \in Launcher, CreateConflicts(l) PROVE StartsAreCounted'
  BY <1>6 DEF CreateConflicts, Goto
<1>7. ASSUME NEW l \in Launcher, Restart(l) PROVE StartsAreCounted'
  BY <1>7 DEF Restart, Goto
<1>8. ASSUME NEW l \in Launcher, Cleanup(l) PROVE StartsAreCounted'
  BY <1>8 DEF Cleanup, Goto
<1>9. ASSUME NEW l \in Launcher, NoRetry(l) PROVE StartsAreCounted'
  BY <1>9 DEF NoRetry, Become, Goto
<1>10. ASSUME NEW l \in Launcher, Register(l) PROVE StartsAreCounted'
  BY <1>10 DEF Register, Goto
<1>11. ASSUME NEW l \in Launcher, CommandEnds(l) PROVE StartsAreCounted'
  BY <1>11 DEF CommandEnds, Goto
<1>12. ASSUME NEW c \in Container, Serve(c) \/ CommitIdle(c) \/ CloseSession(c) PROVE StartsAreCounted'
  BY <1>12 DEF Serve, CommitIdle, CloseSession, Become
<1>13. ASSUME NEW c \in Container, Running(c) /\ End(c) PROVE StartsAreCounted'
  BY <1>13 DEF End, Become, ExecKilled
<1>14. ASSUME NEW c \in Container, Remove(c) PROVE StartsAreCounted'
  BY <1>14 DEF Remove, Become
<1>15. ASSUME NEW c \in Container, ForeignAppears(c) PROVE StartsAreCounted'
  BY <1>15 DEF ForeignAppears, Become
<1>16. CASE UNCHANGED vars
  BY <1>16
<1> QED
  BY <1>1, <1>2, <1>3, <1>4, <1>5, <1>6, <1>7, <1>8, <1>9, <1>10, <1>11, <1>12,
     <1>13,
     <1>14, <1>15, <1>16, StepCases

\* Only a kept container comes to bootstrap again.
LEMMA PastBootstrapStep ==
  TypeOK /\ OneHolder /\ Remembered /\ PastBootstrap /\ [Next]_vars => PastBootstrap'
<1> SUFFICES ASSUME TypeOK, OneHolder, Remembered, PastBootstrap, [Next]_vars PROVE PastBootstrap'
  OBVIOUS
<1> USE LaunchAssumption
       DEF TypeOK, PastBootstrap, Remembered, Final, dockerVars, vars
<1>1. ASSUME NEW l \in Launcher, Looks(l) PROVE PastBootstrap'
  BY <1>1, LookMoves
     DEF Looks, FindNone, FindStopped, Rejected, Released, NotReady, Ready,
         Adopt, ChannelReady, AcquireFails, Exec, WrapperRefused, StillRemoved,
         Stay, Goto, Unwind, SocketThere
<1>2. ASSUME NEW l \in Launcher, Finds(l) PROVE PastBootstrap'
  BY <1>2 DEF Finds, FindRunning, WaitFindsRunning, WaitFindsKept, Take
<1>3. ASSUME NEW l \in Launcher, Acquires(l) PROVE PastBootstrap'
  BY <1>3, AcquireMoves DEF Again
<1>4. ASSUME NEW l \in Launcher, Create(l) PROVE PastBootstrap'
  BY <1>4 DEF Create, Become, Take
<1>5. ASSUME NEW l \in Launcher, CreateFails(l) PROVE PastBootstrap'
  BY <1>5 DEF CreateFails, Become, Goto
<1>6. ASSUME NEW l \in Launcher, CreateConflicts(l) PROVE PastBootstrap'
  BY <1>6 DEF CreateConflicts, Goto
<1>7. ASSUME NEW l \in Launcher, Restart(l) PROVE PastBootstrap'
  BY <1>7 DEF Restart, Goto, OneHolder, Holder, Exists, Running
<1>8. ASSUME NEW l \in Launcher, Cleanup(l) PROVE PastBootstrap'
  BY <1>8 DEF Cleanup, Goto
<1>9. ASSUME NEW l \in Launcher, NoRetry(l) PROVE PastBootstrap'
  BY <1>9 DEF NoRetry, Become, Goto
<1>10. ASSUME NEW l \in Launcher, Register(l) PROVE PastBootstrap'
  BY <1>10 DEF Register, Goto
<1>11. ASSUME NEW l \in Launcher, CommandEnds(l) PROVE PastBootstrap'
  BY <1>11 DEF CommandEnds, Goto
<1>12. ASSUME NEW c \in Container, Serve(c) \/ CommitIdle(c) \/ CloseSession(c) PROVE PastBootstrap'
  BY <1>12 DEF Serve, CommitIdle, CloseSession, Become
<1>13. ASSUME NEW c \in Container, Running(c) /\ End(c) PROVE PastBootstrap'
  BY <1>13 DEF End, Become, ExecKilled
<1>14. ASSUME NEW c \in Container, Remove(c) PROVE PastBootstrap'
  BY <1>14 DEF Remove, Become
<1>15. ASSUME NEW c \in Container, ForeignAppears(c) PROVE PastBootstrap'
  BY <1>15 DEF ForeignAppears, Become
<1>16. CASE UNCHANGED vars
  BY <1>16
<1> QED
  BY <1>1, <1>2, <1>3, <1>4, <1>5, <1>6, <1>7, <1>8, <1>9, <1>10, <1>11, <1>12,
     <1>13,
     <1>14, <1>15, <1>16, StepCases

-----------------------------------------------------------------------------
(* The theorems.                                                           *)

\* Every behaviour satisfies the inductive invariant.
LEMMA Invariance == Spec => []IInv
<1>1. Init => IInv
  BY InitInvariant
<1>2. IInv /\ [Next]_vars => IInv'
  BY TypeStep, OneHolderStep, TriesStep, RememberedStep, MatchedStep,
     RegisteredStep, ExecsAreAliveStep, StartsAreCountedStep, PastBootstrapStep
     DEF IInv
<1> QED
  BY <1>1, <1>2, PTL DEF Spec

\* The state of containers and launchers is always well typed; in particular
\* no acquisition loses more creations than containerCreateAttempts.
THEOREM TypeCorrect == Spec => []TypeOK
<1>1. IInv => TypeOK
  BY DEF IInv
<1> QED
  BY <1>1, Invariance, PTL

\* A command runs only in a container of this project and user, made with the
\* launch's own settings unless --force-exec waived them. Between the check and
\* the exec the container may stop, be removed and be replaced under its name;
\* the exec goes by ID (container_lifecycle.go, command_execution.go).
THEOREM CommandsBelong == Spec => []CommandsRunWhereTheyBelong
<1>1. IInv => CommandsRunWhereTheyBelong
  <2> SUFFICES ASSUME IInv, NEW c \in Container, NEW l \in active[c]
               PROVE  Accepts(l, c)
    BY DEF CommandsRunWhereTheyBelong
  <2>1. l \in Launcher
    BY DEF IInv, TypeOK
  <2>2. pc[l] = "running" /\ cid[l] = c
    BY <2>1 DEF IInv, Registered
  <2>3. state[c] # "none"
    BY <2>1, <2>2 DEF IInv, ExecsAreAlive, Running
  <2> QED
    BY <2>1, <2>2, <2>3 DEF IInv, Matched
<1> QED
  BY <1>1, Invariance, PTL

\* The second acquisition of a launch never starts its command again
\* (DockerLauncher.Launch retries only what was refused).
THEOREM NoCommandStartsTwice == Spec => []CommandStartsOnce
<1>1. IInv => CommandStartsOnce
  BY DEF IInv, StartsAreCounted, CommandStartsOnce
<1> QED
  BY <1>1, Invariance, PTL

\* No user process is started in a container that still bootstraps, unless
\* it is a kept one that somebody has started again.
THEOREM BarrierAlwaysHolds == Spec => []BarrierHolds
<1>1. IInv => BarrierHolds
  BY DEF IInv, PastBootstrap, BarrierHolds
<1> QED
  BY <1>1, Invariance, PTL
=============================================================================
