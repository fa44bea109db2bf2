----------------------- MODULE MoonlightProcess_proofs -----------------------
(***************************************************************************)
(* Theorems about MoonlightProcess, for any set of process ids, any number *)
(* of polls and, unless said otherwise, any of the failures.               *)
(***************************************************************************)
EXTENDS MoonlightProcess, TLAPS

Stopping == js \in {"poll", "reap"}
Pairing == js \in {"pair", "pairterm", "pairkill"}

\* What a call knows of its target.
TargetInv ==
  /\ Pairing => target # moonlightPid
  /\ Stopping /\ moonlightPid # NoPid => target = moonlightPid
  /\ js = "reap" => target = moonlightPid
  /\ js \in {"prepare", "fork", "destroy"} => moonlightPid = NoPid

\* The pid file and moonlightPid_ never name two different processes.
RecordInv ==
  /\ pidFile # NoPid /\ moonlightPid # NoPid => pidFile = moonlightPid
  /\ Stopping /\ pidFile # NoPid => pidFile = target
  /\ js \in {"prepare", "fork", "destroy", "record"} => pidFile = NoPid

ProcessInv == ProcessTypeOK /\ NoLostChild /\ TargetInv /\ RecordInv

\* The keep-alive thread runs only while its flag is set or a stop waits for
\* it, so nothing sets host mode after a stop.
KeepAliveInv ==
  /\ thr \notin {"none", "ended"} => keepAlive \/ js = "join"
  /\ thr = "host" => otgActive
  /\ keepAlive => js \in {"idle", "quiet", "pair", "pairterm", "pairkill"}

NoCrash == "crash" \notin Faults

\* Unless the mini-app crashes, the pid file names its own child, and host
\* mode has an owner who restores it.
UncrashedInv ==
  /\ app # "up" => js = "idle"
  /\ app = "gone" => pidFile = NoPid
  /\ app = "up" /\ pidFile # NoPid => pidFile = moonlightPid
  /\ Stopping => target = moonlightPid
  /\ prepared => js = "fork"
  /\ js \in {"prepare", "fork", "destroy"} => ~otgActive
  /\ app # "aborted" /\ otg = "host" => otgActive \/ prepared

LEMMA ProcessTypeInit == ProcessInit => ProcessTypeOK
<1>1. ProcessInit => keepAlive \in BOOLEAN /\ otgActive \in BOOLEAN /\ prepared
    \in BOOLEAN
  BY Zenon DEF ProcessInit
<1>2. QED BY <1>1, ProcessConstantsOK DEF ProcessInit, ProcessTypeOK,
    ProcStates

LEMMA ProcessTypeNext == ProcessTypeOK /\ [ProcessNext]_processVars =>
    ProcessTypeOK'
<1> SUFFICES ASSUME ProcessTypeOK, [ProcessNext]_processVars PROVE
    ProcessTypeOK'
  OBVIOUS
<1> USE ProcessConstantsOK DEF ProcessTypeOK, ProcStates, jsVars, keepVars,
    otgVars, kernel
<1>1. CASE Calls
  <2>1. CASE BeginStart
    BY <2>1 DEF BeginStart, Begin
  <2>2. CASE BeginStop
    BY <2>2 DEF BeginStop, Begin
  <2>3. CASE BeginDestroy
    BY <2>3 DEF BeginDestroy, Begin
  <2>4. CASE Poll
    BY <2>4 DEF Poll, AskRunning
  <2>5. CASE \E p \in Pids : BeginPair(p)
    BY <2>5 DEF BeginPair
  <2>6. QED BY <1>1, <2>1, <2>2, <2>3, <2>4, <2>5 DEF Calls
<1>2. CASE CallSteps
  <2>1. CASE QuietKeepAlive
    <3>1. keepAlive' \in BOOLEAN /\ otgActive' \in BOOLEAN /\ prepared' \in
        BOOLEAN
      BY <2>1, Zenon DEF QuietKeepAlive
    <3>2. QED BY <2>1, <3>1 DEF QuietKeepAlive
  <2>2. CASE JoinKeepAlive
    BY <2>2 DEF JoinKeepAlive
  <2>3. CASE NothingToStop
    <3>1. keepAlive' \in BOOLEAN /\ otgActive' \in BOOLEAN /\ prepared' \in
        BOOLEAN
      BY <2>3, Zenon DEF NothingToStop, Settle, AfterStop, KnownPid
    <3>2. QED BY <2>3, <3>1 DEF NothingToStop, Settle, AfterStop, KnownPid
  <2>4. CASE Signal
    BY <2>4 DEF Signal, KnownPid, Terminated
  <2>5. CASE PollFinds
    <3>1. keepAlive' \in BOOLEAN /\ otgActive' \in BOOLEAN /\ prepared' \in
        BOOLEAN
      BY <2>5, Zenon DEF PollFinds, Settle, AfterStop, TargetGone, TargetReaped
    <3>2. QED BY <2>5, <3>1 DEF PollFinds, Settle, AfterStop, TargetGone,
        TargetReaped
  <2>6. CASE PollAgain
    BY <2>6 DEF PollAgain, TargetGone, TargetReaped
  <2>7. CASE KillOrphan
    <3>1. keepAlive' \in BOOLEAN /\ otgActive' \in BOOLEAN /\ prepared' \in
        BOOLEAN
      BY <2>7, Zenon DEF KillOrphan, Settle, AfterStop, Killed
    <3>2. QED BY <2>7, <3>1 DEF KillOrphan, Settle, AfterStop, Killed
  <2>8. CASE KillChild
    BY <2>8 DEF KillChild, Killed
  <2>9. CASE Reap
    <3>1. keepAlive' \in BOOLEAN /\ otgActive' \in BOOLEAN /\ prepared' \in
        BOOLEAN
      BY <2>9, Zenon DEF Reap, Settle, AfterStop
    <3>2. QED BY <2>9, <3>1 DEF Reap, Settle, AfterStop
  <2>10. CASE Destroy
    <3>1. keepAlive' \in BOOLEAN /\ otgActive' \in BOOLEAN /\ prepared' \in
        BOOLEAN
      BY <2>10, Zenon DEF Destroy, AppEnds
    <3>2. QED BY <2>10, <3>1 DEF Destroy, AppEnds
  <2>11. CASE PrepareFails
    BY <2>11 DEF PrepareFails
  <2>12. CASE Prepare
    BY <2>12 DEF Prepare
  <2>13. CASE ForkFails
    <3>1. keepAlive' \in BOOLEAN /\ otgActive' \in BOOLEAN /\ prepared' \in
        BOOLEAN
      BY <2>13, Zenon DEF ForkFails
    <3>2. QED BY <2>13, <3>1 DEF ForkFails
  <2>14. CASE Record
    BY <2>14 DEF Record
  <2>15. CASE StartKeepAlive
    BY <2>15 DEF StartKeepAlive
  <2>16. CASE StartKeepAliveAborts
    <3>1. keepAlive' \in BOOLEAN /\ otgActive' \in BOOLEAN /\ prepared' \in
        BOOLEAN
      BY <2>16, Zenon DEF StartKeepAliveAborts, AppEnds
    <3>2. QED BY <2>16, <3>1 DEF StartKeepAliveAborts, AppEnds
  <2>17. CASE PairEnds
    BY <2>17 DEF PairEnds
  <2>18. CASE PairTimeout
    BY <2>18 DEF PairTimeout, Terminated, Killed
  <2>19. CASE \E p \in Pids : Fork(p)
    <3>1. PICK p \in Pids : Fork(p)
      BY <2>19
    <3>2. proc' \in [Pids -> ProcStates]
          /\ children' \subseteq Pids
      BY <3>1 DEF Fork
    <3>3. keepAlive' \in BOOLEAN /\ otgActive' \in BOOLEAN /\ prepared' \in
        BOOLEAN
      BY <3>1, Zenon DEF Fork
    <3>4. QED BY <3>1, <3>2, <3>3 DEF Fork
  <2>20. QED BY <1>2, <2>1, <2>2, <2>3, <2>4, <2>5, <2>6, <2>7, <2>8, <2>9,
      <2>10, <2>11, <2>12, <2>13, <2>14, <2>15, <2>16, <2>17, <2>18, <2>19 DEF
      CallSteps
<1>3. CASE KeepAliveThread
  <2>1. CASE KeepAliveTop
    BY <2>1 DEF KeepAliveTop
  <2>2. CASE KeepAlivePower
    BY <2>2 DEF KeepAlivePower
  <2>3. CASE KeepAliveHost
    BY <2>3 DEF KeepAliveHost
  <2>4. CASE KeepAliveLook
    <3>1. keepAlive' \in BOOLEAN /\ otgActive' \in BOOLEAN /\ prepared' \in
        BOOLEAN
      BY <2>4, Zenon DEF KeepAliveLook
    <3>2. QED BY <2>4, <3>1 DEF KeepAliveLook
  <2>5. CASE KeepAliveEnter
    BY <2>5 DEF KeepAliveEnter
  <2>6. CASE KeepAliveBlock
    BY <2>6 DEF KeepAliveBlock
  <2>7. CASE KeepAliveTimeout
    BY <2>7 DEF KeepAliveTimeout
  <2>8. QED BY <1>3, <2>1, <2>2, <2>3, <2>4, <2>5, <2>6, <2>7 DEF
      KeepAliveThread
<1>4. CASE Kernel
  <2>1. CASE \E p \in Pids : ChildStarts(p)
    BY <2>1 DEF ChildStarts
  <2>2. CASE \E p \in Pids : ChildExits(p)
    BY <2>2 DEF ChildExits, Dead
  <2>3. CASE \E p \in Pids : KilledDies(p)
    BY <2>3 DEF KilledDies, Dead
  <2>4. CASE \E p \in Pids : StrangerStarts(p)
    BY <2>4 DEF StrangerStarts
  <2>5. CASE \E p \in Pids : StrangerEnds(p)
    BY <2>5 DEF StrangerEnds
  <2>6. QED BY <1>4, <2>1, <2>2, <2>3, <2>4, <2>5 DEF Kernel
<1>5. CASE AppCrashes
  <2>1. keepAlive' \in BOOLEAN /\ otgActive' \in BOOLEAN /\ prepared' \in
      BOOLEAN
    BY <1>5, Zenon DEF AppCrashes, AppEnds
  <2>2. QED BY <1>5, <2>1 DEF AppCrashes, AppEnds
<1>6. CASE AppRestarts
  BY <1>6 DEF AppRestarts
<1>7. CASE UNCHANGED processVars
  BY <1>7 DEF processVars
<1>8. QED BY <1>1, <1>2, <1>3, <1>4, <1>5, <1>6, <1>7 DEF ProcessNext

LEMMA ChildrenNext ==
  ProcessInv /\ [ProcessNext]_processVars => (NoLostChild /\ TargetInv /\
      RecordInv)'
<1> SUFFICES ASSUME ProcessInv, [ProcessNext]_processVars PROVE (NoLostChild /\
    TargetInv /\ RecordInv)'
  OBVIOUS
<1> USE ProcessConstantsOK DEF ProcessInv, NoLostChild, TargetInv, RecordInv,
    PairChild, Stopping, Pairing, ProcessTypeOK, ProcStates, jsVars, keepVars,
    otgVars, kernel
<1>1. CASE Calls
  <2>1. CASE BeginStart
    BY <2>1 DEF BeginStart, Begin
  <2>2. CASE BeginStop
    BY <2>2 DEF BeginStop, Begin
  <2>3. CASE BeginDestroy
    BY <2>3 DEF BeginDestroy, Begin
  <2>4. CASE Poll
    BY <2>4 DEF Poll, AskRunning
  <2>5. CASE \E p \in Pids : BeginPair(p)
    BY <2>5 DEF BeginPair
  <2>6. QED BY <1>1, <2>1, <2>2, <2>3, <2>4, <2>5 DEF Calls
<1>2. CASE CallSteps
  <2>1. CASE QuietKeepAlive
    BY <2>1 DEF QuietKeepAlive
  <2>2. CASE JoinKeepAlive
    BY <2>2 DEF JoinKeepAlive
  <2>3. CASE NothingToStop
    BY <2>3 DEF NothingToStop, Settle, AfterStop, KnownPid
  <2>4. CASE Signal
    BY <2>4 DEF Signal, KnownPid, Terminated
  <2>5. CASE PollFinds
    BY <2>5 DEF PollFinds, Settle, AfterStop, TargetGone, TargetReaped
  <2>6. CASE PollAgain
    BY <2>6 DEF PollAgain, TargetGone, TargetReaped
  <2>7. CASE KillOrphan
    BY <2>7 DEF KillOrphan, Settle, AfterStop, Killed
  <2>8. CASE KillChild
    BY <2>8 DEF KillChild, Killed
  <2>9. CASE Reap
    BY <2>9 DEF Reap, Settle, AfterStop
  <2>10. CASE Destroy
    BY <2>10 DEF Destroy, AppEnds
  <2>11. CASE PrepareFails
    BY <2>11 DEF PrepareFails
  <2>12. CASE Prepare
    BY <2>12 DEF Prepare
  <2>13. CASE ForkFails
    BY <2>13 DEF ForkFails
  <2>14. CASE Record
    BY <2>14 DEF Record
  <2>15. CASE StartKeepAlive
    BY <2>15 DEF StartKeepAlive
  <2>16. CASE StartKeepAliveAborts
    BY <2>16 DEF StartKeepAliveAborts, AppEnds
  <2>17. CASE PairEnds
    BY <2>17 DEF PairEnds
  <2>18. CASE PairTimeout
    BY <2>18 DEF PairTimeout, Terminated, Killed
  <2>19. CASE \E p \in Pids : Fork(p)
    BY <2>19 DEF Fork
  <2>20. QED BY <1>2, <2>1, <2>2, <2>3, <2>4, <2>5, <2>6, <2>7, <2>8, <2>9,
      <2>10, <2>11, <2>12, <2>13, <2>14, <2>15, <2>16, <2>17, <2>18, <2>19 DEF
      CallSteps
<1>3. CASE KeepAliveThread
  <2>1. CASE KeepAliveTop
    BY <2>1 DEF KeepAliveTop
  <2>2. CASE KeepAlivePower
    BY <2>2 DEF KeepAlivePower
  <2>3. CASE KeepAliveHost
    BY <2>3 DEF KeepAliveHost
  <2>4. CASE KeepAliveLook
    BY <2>4 DEF KeepAliveLook
  <2>5. CASE KeepAliveEnter
    BY <2>5 DEF KeepAliveEnter
  <2>6. CASE KeepAliveBlock
    BY <2>6 DEF KeepAliveBlock
  <2>7. CASE KeepAliveTimeout
    BY <2>7 DEF KeepAliveTimeout
  <2>8. QED BY <1>3, <2>1, <2>2, <2>3, <2>4, <2>5, <2>6, <2>7 DEF
      KeepAliveThread
<1>4. CASE Kernel
  <2>1. CASE \E p \in Pids : ChildStarts(p)
    BY <2>1 DEF ChildStarts
  <2>2. CASE \E p \in Pids : ChildExits(p)
    BY <2>2 DEF ChildExits, Dead
  <2>3. CASE \E p \in Pids : KilledDies(p)
    BY <2>3 DEF KilledDies, Dead
  <2>4. CASE \E p \in Pids : StrangerStarts(p)
    BY <2>4 DEF StrangerStarts
  <2>5. CASE \E p \in Pids : StrangerEnds(p)
    BY <2>5 DEF StrangerEnds
  <2>6. QED BY <1>4, <2>1, <2>2, <2>3, <2>4, <2>5 DEF Kernel
<1>5. CASE AppCrashes
  BY <1>5 DEF AppCrashes, AppEnds
<1>6. CASE AppRestarts
  BY <1>6 DEF AppRestarts
<1>7. CASE UNCHANGED processVars
  BY <1>7 DEF processVars
<1>8. QED BY <1>1, <1>2, <1>3, <1>4, <1>5, <1>6, <1>7 DEF ProcessNext

\* The keep-alive thread's part, and the parts that hold without a crash.
LEMMA KeepAliveInit == ProcessInit => KeepAliveInv
  BY DEF ProcessInit, KeepAliveInv

LEMMA KeepAliveNext == ProcessTypeOK /\ KeepAliveInv /\
    [ProcessNext]_processVars => KeepAliveInv'
<1> SUFFICES ASSUME ProcessTypeOK /\ KeepAliveInv, [ProcessNext]_processVars
    PROVE KeepAliveInv'
  OBVIOUS
<1> USE ProcessConstantsOK DEF KeepAliveInv, ProcessTypeOK, jsVars, keepVars,
    otgVars, kernel
<1>1. CASE Calls
  <2>1. CASE BeginStart
    BY <2>1 DEF BeginStart, Begin
  <2>2. CASE BeginStop
    BY <2>2 DEF BeginStop, Begin
  <2>3. CASE BeginDestroy
    BY <2>3 DEF BeginDestroy, Begin
  <2>4. CASE Poll
    BY <2>4 DEF Poll, AskRunning
  <2>5. CASE \E p \in Pids : BeginPair(p)
    BY <2>5 DEF BeginPair
  <2>6. QED BY <1>1, <2>1, <2>2, <2>3, <2>4, <2>5 DEF Calls
<1>2. CASE CallSteps
  <2>1. CASE QuietKeepAlive
    BY <2>1 DEF QuietKeepAlive
  <2>2. CASE JoinKeepAlive
    BY <2>2 DEF JoinKeepAlive
  <2>3. CASE NothingToStop
    BY <2>3 DEF NothingToStop, Settle, AfterStop, KnownPid
  <2>4. CASE Signal
    BY <2>4 DEF Signal, KnownPid, Terminated
  <2>5. CASE PollFinds
    BY <2>5 DEF PollFinds, Settle, AfterStop, TargetGone, TargetReaped
  <2>6. CASE PollAgain
    BY <2>6 DEF PollAgain, TargetGone, TargetReaped
  <2>7. CASE KillOrphan
    BY <2>7 DEF KillOrphan, Settle, AfterStop, Killed
  <2>8. CASE KillChild
    BY <2>8 DEF KillChild, Killed
  <2>9. CASE Reap
    BY <2>9 DEF Reap, Settle, AfterStop
  <2>10. CASE Destroy
    BY <2>10 DEF Destroy, AppEnds
  <2>11. CASE PrepareFails
    BY <2>11 DEF PrepareFails
  <2>12. CASE Prepare
    BY <2>12 DEF Prepare
  <2>13. CASE ForkFails
    BY <2>13 DEF ForkFails
  <2>14. CASE Record
    BY <2>14 DEF Record
  <2>15. CASE StartKeepAlive
    BY <2>15 DEF StartKeepAlive
  <2>16. CASE StartKeepAliveAborts
    BY <2>16 DEF StartKeepAliveAborts, AppEnds
  <2>17. CASE PairEnds
    BY <2>17 DEF PairEnds
  <2>18. CASE PairTimeout
    BY <2>18 DEF PairTimeout, Terminated, Killed
  <2>19. CASE \E p \in Pids : Fork(p)
    BY <2>19 DEF Fork
  <2>20. QED BY <1>2, <2>1, <2>2, <2>3, <2>4, <2>5, <2>6, <2>7, <2>8, <2>9,
      <2>10, <2>11, <2>12, <2>13, <2>14, <2>15, <2>16, <2>17, <2>18, <2>19 DEF
      CallSteps
<1>3. CASE KeepAliveThread
  <2>1. CASE KeepAliveTop
    BY <2>1 DEF KeepAliveTop
  <2>2. CASE KeepAlivePower
    BY <2>2 DEF KeepAlivePower
  <2>3. CASE KeepAliveHost
    BY <2>3 DEF KeepAliveHost
  <2>4. CASE KeepAliveLook
    BY <2>4 DEF KeepAliveLook
  <2>5. CASE KeepAliveEnter
    BY <2>5 DEF KeepAliveEnter
  <2>6. CASE KeepAliveBlock
    BY <2>6 DEF KeepAliveBlock
  <2>7. CASE KeepAliveTimeout
    BY <2>7 DEF KeepAliveTimeout
  <2>8. QED BY <1>3, <2>1, <2>2, <2>3, <2>4, <2>5, <2>6, <2>7 DEF
      KeepAliveThread
<1>4. CASE Kernel
  <2>1. CASE \E p \in Pids : ChildStarts(p)
    BY <2>1 DEF ChildStarts
  <2>2. CASE \E p \in Pids : ChildExits(p)
    BY <2>2 DEF ChildExits, Dead
  <2>3. CASE \E p \in Pids : KilledDies(p)
    BY <2>3 DEF KilledDies, Dead
  <2>4. CASE \E p \in Pids : StrangerStarts(p)
    BY <2>4 DEF StrangerStarts
  <2>5. CASE \E p \in Pids : StrangerEnds(p)
    BY <2>5 DEF StrangerEnds
  <2>6. QED BY <1>4, <2>1, <2>2, <2>3, <2>4, <2>5 DEF Kernel
<1>5. CASE AppCrashes
  BY <1>5 DEF AppCrashes, AppEnds
<1>6. CASE AppRestarts
  BY <1>6 DEF AppRestarts
<1>7. CASE UNCHANGED processVars
  BY <1>7 DEF processVars
<1>8. QED BY <1>1, <1>2, <1>3, <1>4, <1>5, <1>6, <1>7 DEF ProcessNext

LEMMA UncrashedNext ==
  ASSUME NoCrash,
         ProcessInv /\ KeepAliveInv /\ UncrashedInv, [ProcessNext]_processVars
  PROVE  UncrashedInv'
<1> USE NoCrash, ProcessConstantsOK DEF NoCrash, ProcessInv, TargetInv,
    RecordInv, KeepAliveInv, UncrashedInv, ProcessTypeOK, Stopping, Pairing,
    jsVars, keepVars, otgVars, kernel
<1>1. CASE Calls
  <2>1. CASE BeginStart
    BY <2>1 DEF BeginStart, Begin
  <2>2. CASE BeginStop
    BY <2>2 DEF BeginStop, Begin
  <2>3. CASE BeginDestroy
    BY <2>3 DEF BeginDestroy, Begin
  <2>4. CASE Poll
    BY <2>4 DEF Poll, AskRunning
  <2>5. CASE \E p \in Pids : BeginPair(p)
    BY <2>5 DEF BeginPair
  <2>6. QED BY <1>1, <2>1, <2>2, <2>3, <2>4, <2>5 DEF Calls
<1>2. CASE CallSteps
  <2>1. CASE QuietKeepAlive
    BY <2>1 DEF QuietKeepAlive
  <2>2. CASE JoinKeepAlive
    BY <2>2 DEF JoinKeepAlive
  <2>3. CASE NothingToStop
    BY <2>3 DEF NothingToStop, Settle, AfterStop, KnownPid
  <2>4. CASE Signal
    BY <2>4 DEF Signal, KnownPid, Terminated
  <2>5. CASE PollFinds
    BY <2>5 DEF PollFinds, Settle, AfterStop, TargetGone, TargetReaped
  <2>6. CASE PollAgain
    BY <2>6 DEF PollAgain, TargetGone, TargetReaped
  <2>7. CASE KillOrphan
    BY <2>7 DEF KillOrphan, Settle, AfterStop, Killed
  <2>8. CASE KillChild
    BY <2>8 DEF KillChild, Killed
  <2>9. CASE Reap
    BY <2>9 DEF Reap, Settle, AfterStop
  <2>10. CASE Destroy
    BY <2>10 DEF Destroy, AppEnds
  <2>11. CASE PrepareFails
    BY <2>11 DEF PrepareFails
  <2>12. CASE Prepare
    BY <2>12 DEF Prepare
  <2>13. CASE ForkFails
    BY <2>13 DEF ForkFails
  <2>14. CASE Record
    BY <2>14 DEF Record
  <2>15. CASE StartKeepAlive
    BY <2>15 DEF StartKeepAlive
  <2>16. CASE StartKeepAliveAborts
    BY <2>16 DEF StartKeepAliveAborts, AppEnds
  <2>17. CASE PairEnds
    BY <2>17 DEF PairEnds
  <2>18. CASE PairTimeout
    BY <2>18 DEF PairTimeout, Terminated, Killed
  <2>19. CASE \E p \in Pids : Fork(p)
    BY <2>19 DEF Fork
  <2>20. QED BY <1>2, <2>1, <2>2, <2>3, <2>4, <2>5, <2>6, <2>7, <2>8, <2>9,
      <2>10, <2>11, <2>12, <2>13, <2>14, <2>15, <2>16, <2>17, <2>18, <2>19 DEF
      CallSteps
<1>3. CASE KeepAliveThread
  <2>1. CASE KeepAliveTop
    BY <2>1 DEF KeepAliveTop
  <2>2. CASE KeepAlivePower
    BY <2>2 DEF KeepAlivePower
  <2>3. CASE KeepAliveHost
    BY <2>3 DEF KeepAliveHost
  <2>4. CASE KeepAliveLook
    BY <2>4 DEF KeepAliveLook
  <2>5. CASE KeepAliveEnter
    BY <2>5 DEF KeepAliveEnter
  <2>6. CASE KeepAliveBlock
    BY <2>6 DEF KeepAliveBlock
  <2>7. CASE KeepAliveTimeout
    BY <2>7 DEF KeepAliveTimeout
  <2>8. QED BY <1>3, <2>1, <2>2, <2>3, <2>4, <2>5, <2>6, <2>7 DEF
      KeepAliveThread
<1>4. CASE Kernel
  <2>1. CASE \E p \in Pids : ChildStarts(p)
    BY <2>1 DEF ChildStarts
  <2>2. CASE \E p \in Pids : ChildExits(p)
    BY <2>2 DEF ChildExits, Dead
  <2>3. CASE \E p \in Pids : KilledDies(p)
    BY <2>3 DEF KilledDies, Dead
  <2>4. CASE \E p \in Pids : StrangerStarts(p)
    BY <2>4 DEF StrangerStarts
  <2>5. CASE \E p \in Pids : StrangerEnds(p)
    BY <2>5 DEF StrangerEnds
  <2>6. QED BY <1>4, <2>1, <2>2, <2>3, <2>4, <2>5 DEF Kernel
<1>5. CASE AppCrashes
  BY <1>5 DEF AppCrashes, AppEnds
<1>6. CASE AppRestarts
  BY <1>6 DEF AppRestarts
<1>7. CASE UNCHANGED processVars
  BY <1>7 DEF processVars
<1>8. QED BY <1>1, <1>2, <1>3, <1>4, <1>5, <1>6, <1>7 DEF ProcessNext

LEMMA ProcessInvInit == ProcessInit => ProcessInv
  BY ProcessTypeInit, ProcessConstantsOK
  DEF ProcessInit, ProcessInv, NoLostChild, TargetInv, RecordInv, PairChild,
      Stopping, Pairing

LEMMA ProcessInvNext == ProcessInv /\ [ProcessNext]_processVars => ProcessInv'
  BY ProcessTypeNext, ChildrenNext DEF ProcessInv

LEMMA ProcessInvHolds == ProcessSpec => []ProcessInv
  BY ProcessInvInit, ProcessInvNext, PTL DEF ProcessSpec

\* Every variable of the process model keeps its type, for any set of
\* process ids and any number of polls.
THEOREM ProcessTypeCorrect == ProcessSpec => []ProcessTypeOK
<1>1. ProcessInv => ProcessTypeOK
  BY DEF ProcessInv
<1>2. QED BY <1>1, ProcessInvHolds, PTL

\* No call forgets a child, zombies included (startMoonlightProcess,
\* stopMoonlightProcess, isMoonlightProcessRunning, pairMoonlightProcess).
THEOREM ChildrenAreAccounted == ProcessSpec => []NoLostChild
<1>1. ProcessInv => NoLostChild
  BY DEF ProcessInv
<1>2. QED BY <1>1, ProcessInvHolds, PTL

LEMMA RecordStep ==
  ASSUME ProcessInv, ProcessNext, pidFile # NoPid, pidFile' # pidFile
  PROVE  proc'[pidFile] \notin {"forked", "run", "term"}
<1> USE ProcessConstantsOK, ProcessInv, ProcessNext, pidFile # NoPid, pidFile'
    # pidFile DEF ProcessInv, NoLostChild, TargetInv, RecordInv, PairChild,
    Stopping, Pairing, ProcessTypeOK, ProcStates, jsVars, keepVars, otgVars,
    kernel
<1>1. CASE NothingToStop
  BY <1>1 DEF NothingToStop, Settle, AfterStop, KnownPid
<1>2. CASE PollFinds
  BY <1>2 DEF PollFinds, Settle, AfterStop, TargetGone, TargetReaped
<1>3. CASE KillOrphan
  BY <1>3 DEF KillOrphan, Settle, AfterStop, Killed
<1>4. CASE Reap
  BY <1>4 DEF Reap, Settle, AfterStop
<1>5. CASE Record
  BY <1>5 DEF Record
<1>6. CASE Poll
  BY <1>6 DEF Poll, AskRunning
<1>7. pidFile' = pidFile \/ NothingToStop \/ PollFinds \/ KillOrphan \/ Reap \/
    Record \/ Poll
  BY DEF ProcessNext, Calls, CallSteps, KeepAliveThread, Kernel, AppEnds,
      Begin, BeginStart, BeginStop, BeginDestroy, BeginPair, QuietKeepAlive,
      JoinKeepAlive, Signal, PollAgain, KillChild, Destroy, PrepareFails,
      Prepare, ForkFails, StartKeepAlive, StartKeepAliveAborts, PairEnds,
      PairTimeout, Fork, KeepAliveTop, KeepAlivePower, KeepAliveHost,
      KeepAliveLook, KeepAliveEnter, KeepAliveBlock, KeepAliveTimeout,
      ChildStarts, ChildExits, KilledDies, StrangerStarts, StrangerEnds,
      AppCrashes, AppRestarts
<1>8. QED BY <1>1, <1>2, <1>3, <1>4, <1>5, <1>6, <1>7

\* The pid file is only removed when its process ended or got SIGKILL,
\* across crashes of the mini-app and whatever fails.
THEOREM RecordIsKept == ProcessSpec => RecordOutlivesProcess
<1>1. ProcessInv /\ [ProcessNext]_processVars =>
        [pidFile # NoPid /\ pidFile' # pidFile =>
           proc'[pidFile] \notin {"forked", "run", "term"}]_processVars
  BY RecordStep
<1>2. QED BY <1>1, ProcessInvHolds, PTL DEF ProcessSpec, RecordOutlivesProcess

LEMMA OrphanNext ==
  ASSUME ProcessInv, OrphansAreTold, [ProcessNext]_processVars
  PROVE  OrphansAreTold'
<1> USE ProcessConstantsOK, ProcessInv, OrphansAreTold,
    [ProcessNext]_processVars DEF ProcessInv, NoLostChild, TargetInv,
    RecordInv, PairChild, Stopping, Pairing, ProcessTypeOK, ProcStates,
    OrphansAreTold, jsVars, keepVars, otgVars, kernel
<1>1. CASE Calls
  <2>1. CASE BeginStart
    BY <2>1 DEF BeginStart, Begin
  <2>2. CASE BeginStop
    BY <2>2 DEF BeginStop, Begin
  <2>3. CASE BeginDestroy
    BY <2>3 DEF BeginDestroy, Begin
  <2>4. CASE Poll
    BY <2>4 DEF Poll, AskRunning
  <2>5. CASE \E p \in Pids : BeginPair(p)
    BY <2>5 DEF BeginPair
  <2>6. QED BY <1>1, <2>1, <2>2, <2>3, <2>4, <2>5 DEF Calls
<1>2. CASE CallSteps
  <2>1. CASE QuietKeepAlive
    BY <2>1 DEF QuietKeepAlive
  <2>2. CASE JoinKeepAlive
    BY <2>2 DEF JoinKeepAlive
  <2>3. CASE NothingToStop
    BY <2>3 DEF NothingToStop, Settle, AfterStop, KnownPid
  <2>4. CASE Signal
    BY <2>4 DEF Signal, KnownPid, Terminated
  <2>5. CASE PollFinds
    BY <2>5 DEF PollFinds, Settle, AfterStop, TargetGone, TargetReaped
  <2>6. CASE PollAgain
    BY <2>6 DEF PollAgain, TargetGone, TargetReaped
  <2>7. CASE KillOrphan
    BY <2>7 DEF KillOrphan, Settle, AfterStop, Killed
  <2>8. CASE KillChild
    BY <2>8 DEF KillChild, Killed
  <2>9. CASE Reap
    BY <2>9 DEF Reap, Settle, AfterStop
  <2>10. CASE Destroy
    BY <2>10 DEF Destroy, AppEnds
  <2>11. CASE PrepareFails
    BY <2>11 DEF PrepareFails
  <2>12. CASE Prepare
    BY <2>12 DEF Prepare
  <2>13. CASE ForkFails
    BY <2>13 DEF ForkFails
  <2>14. CASE Record
    BY <2>14 DEF Record
  <2>15. CASE StartKeepAlive
    BY <2>15 DEF StartKeepAlive
  <2>16. CASE StartKeepAliveAborts
    BY <2>16 DEF StartKeepAliveAborts, AppEnds
  <2>17. CASE PairEnds
    BY <2>17 DEF PairEnds
  <2>18. CASE PairTimeout
    BY <2>18 DEF PairTimeout, Terminated, Killed
  <2>19. CASE \E p \in Pids : Fork(p)
    BY <2>19 DEF Fork
  <2>20. QED BY <1>2, <2>1, <2>2, <2>3, <2>4, <2>5, <2>6, <2>7, <2>8, <2>9,
      <2>10, <2>11, <2>12, <2>13, <2>14, <2>15, <2>16, <2>17, <2>18, <2>19 DEF
      CallSteps
<1>3. CASE KeepAliveThread
  <2>1. CASE KeepAliveTop
    BY <2>1 DEF KeepAliveTop
  <2>2. CASE KeepAlivePower
    BY <2>2 DEF KeepAlivePower
  <2>3. CASE KeepAliveHost
    BY <2>3 DEF KeepAliveHost
  <2>4. CASE KeepAliveLook
    BY <2>4 DEF KeepAliveLook
  <2>5. CASE KeepAliveEnter
    BY <2>5 DEF KeepAliveEnter
  <2>6. CASE KeepAliveBlock
    BY <2>6 DEF KeepAliveBlock
  <2>7. CASE KeepAliveTimeout
    BY <2>7 DEF KeepAliveTimeout
  <2>8. QED BY <1>3, <2>1, <2>2, <2>3, <2>4, <2>5, <2>6, <2>7 DEF
      KeepAliveThread
<1>4. CASE Kernel
  <2>1. CASE \E p \in Pids : ChildStarts(p)
    BY <2>1 DEF ChildStarts
  <2>2. CASE \E p \in Pids : ChildExits(p)
    BY <2>2 DEF ChildExits, Dead
  <2>3. CASE \E p \in Pids : KilledDies(p)
    BY <2>3 DEF KilledDies, Dead
  <2>4. CASE \E p \in Pids : StrangerStarts(p)
    BY <2>4 DEF StrangerStarts
  <2>5. CASE \E p \in Pids : StrangerEnds(p)
    BY <2>5 DEF StrangerEnds
  <2>6. QED BY <1>4, <2>1, <2>2, <2>3, <2>4, <2>5 DEF Kernel
<1>5. CASE AppCrashes
  BY <1>5 DEF AppCrashes, AppEnds
<1>6. CASE AppRestarts
  BY <1>6 DEF AppRestarts
<1>7. CASE UNCHANGED processVars
  BY <1>7 DEF processVars
<1>8. QED BY <1>1, <1>2, <1>3, <1>4, <1>5, <1>6, <1>7 DEF ProcessNext

\* No Moonlight runs untold after the mini-app that started it ended.
THEOREM OrphansGetTheSignal == ProcessSpec => []OrphansAreTold
<1>1. ProcessInit => OrphansAreTold
  BY DEF ProcessInit, OrphansAreTold
<1>2. QED BY <1>1, OrphanNext, ProcessInvHolds, PTL DEF ProcessSpec

LEMMA UncrashedHolds ==
  ASSUME NoCrash
  PROVE  ProcessSpec => [](ProcessInv /\ KeepAliveInv /\ UncrashedInv)
<1>1. ProcessInit => UncrashedInv
  BY ProcessConstantsOK DEF ProcessInit, UncrashedInv, Stopping
<1>2. ProcessInv /\ KeepAliveInv /\ UncrashedInv /\ [ProcessNext]_processVars
        => (ProcessInv /\ KeepAliveInv /\ UncrashedInv)'
  BY NoCrash, ProcessInvNext, KeepAliveNext, UncrashedNext DEF ProcessInv
<1>3. QED BY <1>1, <1>2, ProcessInvInit, KeepAliveInit, PTL DEF ProcessSpec

\* Unless the mini-app crashes, the stop signals its own child and never a
\* stranger that got the id of a child it reaped.
THEOREM StopSignalsOwnChild ==
  ASSUME NoCrash
  PROVE  ProcessSpec => []SignalsOwnChild
<1>1. ProcessInv /\ UncrashedInv => SignalsOwnChild
  BY ProcessConstantsOK DEF ProcessInv, ProcessTypeOK, NoLostChild, RecordInv,
      UncrashedInv,
         SignalsOwnChild, KnownPid, Stopping, PairChild
<1>2. QED BY <1>1, UncrashedHolds, PTL

\* Unless the mini-app ends without its destructor, host mode is restored on
\* every path and the keep-alive thread cannot bring it back.
THEOREM HostModeIsRestored ==
  ASSUME NoCrash
  PROVE  ProcessSpec => []HostModeIsTemporary
<1>1. UncrashedInv => HostModeIsTemporary
  BY DEF UncrashedInv, HostModeIsTemporary
<1>2. QED BY <1>1, UncrashedHolds, PTL

-----------------------------------------------------------------------------
(* The pages are served by one stream at a time.  Each step of the process *)
(* model is one step of StreamControl, or none the pages can tell.         *)

\* What the steps below need of the process moonlightPid_ names: it is a
\* child that has not been waited for, and while a stop runs it is its target.
LEMMA StreamFacts ==
  ASSUME ProcessInv
  PROVE  /\ moonlightPid # NoPid =>
              /\ moonlightPid \in children /\ moonlightPid \in Pids
              /\ proc[moonlightPid] \notin {"free", "other"}
         /\ Pairing => target # moonlightPid
         /\ Stopping /\ moonlightPid # NoPid => target = moonlightPid
         /\ js \in {"prepare", "fork", "destroy"} => moonlightPid = NoPid
         /\ js \in {"quiet", "join", "signal", "poll", "reap"} =>
              call \in {"start", "stop", "destroy"}
         /\ proc \in [Pids -> ProcStates] /\ NoPid \notin Pids
  BY ProcessConstantsOK DEF ProcessInv, ProcessTypeOK, NoLostChild, TargetInv

\* A step that leaves moonlightPid_ and its ending alone keeps the stream.
LEMMA SameStream ==
  ASSUME moonlightPid' = moonlightPid,
         moonlightPid # NoPid =>
           (proc'[moonlightPid] = "zombie" <=> proc[moonlightPid] = "zombie")
  PROVE  StreamOf' = StreamOf
  BY DEF StreamOf

\* The end of a stop, once the stream has ended or there was none.
LEMMA SettleStops ==
  ASSUME js \in {"signal", "poll", "reap"}, call \in {"start", "stop", "destroy"},
         StreamOf # "running", Settle
  PROVE  Control!Stopped
<1>1. StreamOf' = "none"
  BY DEF Settle, StreamOf
<1>2. AskedOf = call
  BY DEF AskedOf
<1>3. AskedOf' = [stop |-> "none", start |-> "launch", destroy |-> "leave"][call]
  BY DEF Settle, AfterStop, AskedOf
<1>4. QED BY <1>1, <1>2, <1>3 DEF Control!Stopped

LEMMA AppEndsLeaves ==
  ASSUME NEW how, AppEnds(how), "crash" \in Faults \/ AskedOf \in {"launched", "leave"}
  PROVE  Control!Leave
<1>1. StreamOf' = "none" /\ AskedOf' = "none"
  BY DEF AppEnds, StreamOf, AskedOf
<1>2. QED BY <1>1 DEF Control!Leave

LEMMA ControlCalls ==
  ASSUME ProcessInv, Calls
  PROVE  [Control!Next]_(Control!vars)
<1>1. ASSUME NEW c \in {"stop", "start", "destroy"}, Begin(c, "quiet")
      PROVE  Control!Ask(c)
  <2>1. StreamOf' = StreamOf
    BY <1>1, SameStream DEF Begin, kernel
  <2>2. AskedOf = "none" /\ AskedOf' = c
    BY <1>1 DEF Begin, AskedOf
  <2>3. QED BY <2>1, <2>2 DEF Control!Ask
<1>2. CASE BeginStart
  BY <1>1, <1>2 DEF BeginStart, Control!Next
<1>3. CASE BeginStop
  BY <1>1, <1>3 DEF BeginStop, Control!Next
<1>4. CASE BeginDestroy
  BY <1>1, <1>4 DEF BeginDestroy, Control!Next
<1>5. CASE Poll
  <2>1. AskedOf = "none" /\ AskedOf' = AskedOf
    BY <1>5 DEF Poll, AskRunning, AskedOf
  <2>2. CASE moonlightPid # NoPid /\ proc[moonlightPid] = "zombie"
    <3>1. StreamOf = "ended" /\ StreamOf' = "none"
      BY <1>5, <2>2 DEF Poll, AskRunning, StreamOf
    <3>2. QED BY <2>1, <3>1 DEF Control!Next, Control!Notice
  <2>3. CASE ~(moonlightPid # NoPid /\ proc[moonlightPid] = "zombie")
    BY <1>5, <2>1, <2>3, SameStream DEF Poll, AskRunning, kernel, Control!vars
  <2>4. QED BY <2>2, <2>3
<1>6. CASE \E p \in Pids : BeginPair(p)
  <2>1. PICK p \in Pids : BeginPair(p)
    BY <1>6
  <2>2. StreamOf' = StreamOf
    BY <2>1, SameStream, StreamFacts DEF BeginPair
  <2>3. AskedOf = "none" /\ AskedOf' = "pair"
    BY <2>1 DEF BeginPair, AskedOf
  <2>4. QED BY <2>2, <2>3 DEF Control!Next, Control!Ask
<1>7. QED BY <1>2, <1>3, <1>4, <1>5, <1>6 DEF Calls

\* The steps of the stop.
LEMMA ControlStops ==
  ASSUME ProcessInv,
         \/ QuietKeepAlive \/ JoinKeepAlive \/ NothingToStop \/ Signal
         \/ PollFinds \/ PollAgain \/ KillOrphan \/ KillChild \/ Reap
  PROVE  [Control!Next]_(Control!vars)
<1> USE StreamFacts DEF Stopping
<1>1. CASE QuietKeepAlive \/ JoinKeepAlive \/ PollAgain
  <2>1. StreamOf' = StreamOf
    BY <1>1, SameStream DEF QuietKeepAlive, JoinKeepAlive, PollAgain, kernel
  <2>2. AskedOf' = AskedOf
    BY <1>1 DEF QuietKeepAlive, JoinKeepAlive, PollAgain, AskedOf
  <2>3. QED BY <2>1, <2>2 DEF Control!vars
<1>2. CASE Signal \/ KillChild
  <2>1. AskedOf' = AskedOf
    BY <1>2 DEF Signal, KillChild, AskedOf
  <2>2. moonlightPid' = moonlightPid
    BY <1>2 DEF Signal, KillChild
  <2>3. moonlightPid # NoPid =>
          (proc'[moonlightPid] = "zombie" <=> proc[moonlightPid] = "zombie")
    BY <1>2 DEF Signal, KillChild, Terminated, Killed
  <2>4. QED BY <2>1, <2>2, <2>3, SameStream DEF Control!vars
<1>3. CASE NothingToStop
  <2>1. StreamOf = "none"
    BY <1>3 DEF NothingToStop, KnownPid, StreamOf
  <2>2. QED BY <1>3, <2>1, SettleStops DEF NothingToStop, Control!Next
<1>4. CASE PollFinds
  <2>1. StreamOf # "running"
    BY <1>4 DEF PollFinds, TargetGone, TargetReaped, StreamOf
  <2>2. QED BY <1>4, <2>1, SettleStops DEF PollFinds, Control!Next
<1>5. CASE KillOrphan
  <2>1. StreamOf = "none"
    BY <1>5 DEF KillOrphan, StreamOf
  <2>2. QED BY <1>5, <2>1, SettleStops DEF KillOrphan, Control!Next
<1>6. CASE Reap
  <2>1. StreamOf # "running"
    BY <1>6 DEF Reap, StreamOf
  <2>2. QED BY <1>6, <2>1, SettleStops DEF Reap, Control!Next
<1>7. QED BY <1>1, <1>2, <1>3, <1>4, <1>5, <1>6

\* The steps of a start after its stop, of the destructor and of a pairing.
LEMMA ControlLaunches ==
  ASSUME ProcessInv,
         \/ Destroy \/ PrepareFails \/ Prepare \/ ForkFails \/ Record
         \/ StartKeepAlive \/ StartKeepAliveAborts \/ PairEnds \/ PairTimeout
         \/ \E p \in Pids : Fork(p)
  PROVE  [Control!Next]_(Control!vars)
<1> USE StreamFacts DEF Pairing
<1>1. CASE Destroy
  <2>1. AskedOf = "leave"
    BY <1>1 DEF Destroy, AskedOf
  <2>2. QED BY <1>1, <2>1, AppEndsLeaves DEF Destroy, Control!Next
<1>2. CASE PrepareFails \/ ForkFails \/ StartKeepAlive
  <2>1. StreamOf' = StreamOf
    BY <1>2, SameStream DEF PrepareFails, ForkFails, StartKeepAlive, kernel
  <2>2. AskedOf \in {"launch", "launched"} /\ AskedOf' = "none"
    BY <1>2 DEF PrepareFails, ForkFails, StartKeepAlive, AskedOf
  <2>3. QED BY <2>1, <2>2 DEF Control!Next, Control!Return
<1>3. CASE Prepare \/ Record
  <2>1. StreamOf' = StreamOf
    BY <1>3, SameStream DEF Prepare, Record, kernel
  <2>2. AskedOf' = AskedOf
    BY <1>3 DEF Prepare, Record, AskedOf
  <2>3. QED BY <2>1, <2>2 DEF Control!vars
<1>4. CASE StartKeepAliveAborts
  <2>1. AskedOf = "launched"
    BY <1>4 DEF StartKeepAliveAborts, AskedOf
  <2>2. QED BY <1>4, <2>1, AppEndsLeaves DEF StartKeepAliveAborts, Control!Next
<1>5. CASE PairEnds
  <2>1. StreamOf' = StreamOf
    BY <1>5, SameStream DEF PairEnds
  <2>2. AskedOf = "pair" /\ AskedOf' = "none"
    BY <1>5 DEF PairEnds, AskedOf
  <2>3. QED BY <2>1, <2>2 DEF Control!Next, Control!Return
<1>6. CASE PairTimeout
  <2>1. StreamOf' = StreamOf
    BY <1>6, SameStream DEF PairTimeout
  <2>2. AskedOf' = AskedOf
    BY <1>6 DEF PairTimeout, AskedOf
  <2>3. QED BY <2>1, <2>2 DEF Control!vars
<1>7. CASE \E p \in Pids : Fork(p)
  <2>1. PICK p \in Pids : Fork(p)
    BY <1>7
  <2>2. StreamOf = "none" /\ StreamOf' = "running"
    BY <2>1 DEF Fork, StreamOf
  <2>3. AskedOf = "launch" /\ AskedOf' = "launched"
    BY <2>1 DEF Fork, AskedOf
  <2>4. QED BY <2>2, <2>3 DEF Control!Next, Control!Launch
<1>8. QED BY <1>1, <1>2, <1>3, <1>4, <1>5, <1>6, <1>7

\* The keep-alive thread and the kernel run beside every call.
LEMMA ControlOthers ==
  ASSUME ProcessInv, KeepAliveThread \/ Kernel
  PROVE  [Control!Next]_(Control!vars)
<1>1. AskedOf' = AskedOf
  BY DEF KeepAliveThread, Kernel, KeepAliveTop, KeepAlivePower, KeepAliveHost,
         KeepAliveLook, KeepAliveEnter, KeepAliveBlock, KeepAliveTimeout,
         ChildStarts, ChildExits, KilledDies, StrangerStarts, StrangerEnds,
         jsVars, AskedOf
<1>2. CASE KeepAliveThread
  <2>1. moonlightPid' = moonlightPid /\ proc' = proc
    BY <1>2 DEF KeepAliveThread, KeepAliveTop, KeepAlivePower, KeepAliveHost,
         KeepAliveLook, KeepAliveEnter, KeepAliveBlock, KeepAliveTimeout,
         jsVars, kernel
  <2>2. QED BY <1>1, <2>1, SameStream DEF Control!vars
<1>3. CASE Kernel
  <2>1. PICK p \in Pids : \/ ChildStarts(p) \/ ChildExits(p) \/ KilledDies(p)
                          \/ StrangerStarts(p) \/ StrangerEnds(p)
    BY <1>3 DEF Kernel
  <2>2. moonlightPid' = moonlightPid
    BY <2>1 DEF ChildStarts, ChildExits, KilledDies, StrangerStarts,
                StrangerEnds, jsVars
  <2>3. CASE p = moonlightPid /\ (ChildExits(p) \/ KilledDies(p))
    <3>1. StreamOf = "running" /\ StreamOf' = "ended"
      BY <2>2, <2>3, StreamFacts DEF ChildExits, KilledDies, Dead, StreamOf
    <3>2. QED BY <1>1, <3>1 DEF Control!Next, Control!StreamEnds
  <2>4. CASE ~(p = moonlightPid /\ (ChildExits(p) \/ KilledDies(p)))
    <3>1. moonlightPid # NoPid =>
            (proc'[moonlightPid] = "zombie" <=> proc[moonlightPid] = "zombie")
      BY <2>1, <2>4, StreamFacts
      DEF ChildStarts, ChildExits, KilledDies, StrangerStarts, StrangerEnds
    <3>2. QED BY <1>1, <2>2, <3>1, SameStream DEF Control!vars
  <2>5. QED BY <2>3, <2>4
<1>4. QED BY <1>2, <1>3

LEMMA ControlStep ==
  ProcessInv /\ [ProcessNext]_processVars => [Control!Next]_(Control!vars)
<1> SUFFICES ASSUME ProcessInv, [ProcessNext]_processVars
             PROVE  [Control!Next]_(Control!vars)
  OBVIOUS
<1>1. CASE Calls
  BY <1>1, ControlCalls
<1>2. CASE CallSteps
  BY <1>2, ControlStops, ControlLaunches DEF CallSteps
<1>3. CASE KeepAliveThread \/ Kernel
  BY <1>3, ControlOthers
<1>4. CASE AppCrashes
  BY <1>4, AppEndsLeaves DEF AppCrashes, Control!Next
<1>5. CASE AppRestarts \/ UNCHANGED processVars
  <2>1. StreamOf' = StreamOf /\ AskedOf' = AskedOf
    BY <1>5, SameStream DEF AppRestarts, processVars, jsVars, kernel, AskedOf
  <2>2. QED BY <2>1 DEF Control!vars
<1>6. QED BY <1>1, <1>2, <1>3, <1>4, <1>5 DEF ProcessNext

\* Whatever fails, the mini-app's crash included, the native module serves
\* the pages as StreamControl promises: one stream at a time, a start after
\* the end of the one before, and no running stream forgotten
\* (startMoonlightProcess, stopMoonlightProcess, isMoonlightProcessRunning).
THEOREM ProcessIsStreamControl == ProcessSpec => IsStreamControl
<1>1. ProcessInit => Control!Init
  BY DEF ProcessInit, Control!Init, StreamOf, AskedOf
<1>2. QED BY <1>1, ControlStep, ProcessInvHolds, PTL
          DEF ProcessSpec, IsStreamControl, Control!Spec
=============================================================================
