-------------------------- MODULE MoonlightProcess --------------------------
(***************************************************************************)
(* How the native module of the mini-app (JSRgbFramePlayer.cpp) starts,    *)
(* watches and stops the streaming process.  The JS thread runs one call   *)
(* at a time; meanwhile the keep-alive thread runs, and the kernel lets    *)
(* processes exit, reaps orphans and reuses process ids.  A call is        *)
(* split where another of these can come between.                          *)
(***************************************************************************)
EXTENDS Naturals

CONSTANTS
  Pids,       \* process ids
  NoPid,      \* -1: no process known
  StopPolls,  \* how often stopMoonlightProcess polls before SIGKILL (20)
  Faults      \* what may go wrong in a run

FaultKinds == {"prepare", "fork", "pidfile", "crash", "reuse"}

ASSUME ProcessConstantsOK ==
  /\ NoPid \notin Pids
  /\ StopPolls \in Nat \ {0}
  /\ Faults \subseteq FaultKinds

VARIABLES
  app,           \* the mini-app's process: "up", or how it ended
  js,            \* where the JS thread is in the call it runs
  call,          \* the call it runs
  moonlightPid,  \* moonlightPid_
  target,        \* `pid' of stopMoonlightProcess and pairMoonlightProcess
  polls,         \* polls done so far
  pidFile,       \* content of MOONLIGHT_PID_FILE
  keepAlive,     \* screenKeepAliveRunning_
  thr,           \* screenKeepAliveThread_: "none" when not joinable
  otg,           \* mode of the USB controller
  otgActive,     \* otgHostActive_
  prepared,      \* otgHostPrepared
  proc,          \* what each process id is
  children       \* processes whose parent is the running mini-app

jsVars == <<js, call, moonlightPid, target, polls>>
keepVars == <<keepAlive, thr>>
otgVars == <<otg, otgActive, prepared>>
kernel == <<proc, children>>
processVars == <<app, jsVars, pidFile, keepVars, otgVars, kernel>>

ProcessInit ==
  /\ app = "up" /\ js = "idle" /\ call = "none"
  /\ moonlightPid = NoPid /\ target = NoPid /\ polls = 0 /\ pidFile = NoPid
  /\ keepAlive = FALSE /\ thr = "none"
  /\ otg = "otg" /\ otgActive = FALSE /\ prepared = FALSE
  /\ proc = [p \in Pids |-> "free"] /\ children = {}

-----------------------------------------------------------------------------
(* The kernel.                                                             *)

\* SIGTERM and SIGKILL to process p and its group.
Terminated(p) == IF proc[p] \in {"forked", "run"} THEN "term" ELSE proc[p]
Killed(p) == IF proc[p] \in {"forked", "run", "term"} THEN "kill" ELSE proc[p]
Dead(p) == IF p \in children THEN "zombie" ELSE "free"

\* Mutant: the child does not look whether its parent is gone already.
ChildStartsBlindly(p) ==
  /\ proc[p] = "forked"
  /\ proc' = [proc EXCEPT ![p] = "run"]
  /\ UNCHANGED <<app, jsVars, pidFile, keepVars, otgVars, children>>

\* The child asks for SIGTERM on its parent's death, leaves if the parent
\* is gone already, and becomes Moonlight.
ChildStarts(p) ==
  /\ proc[p] = "forked"
  /\ proc' = [proc EXCEPT ![p] = IF p \in children THEN "run" ELSE "free"]
  /\ UNCHANGED <<app, jsVars, pidFile, keepVars, otgVars, children>>

\* A stream ends, a child crashes or cannot be executed, SIGTERM is obeyed.
ChildExits(p) ==
  /\ proc[p] \in {"forked", "run", "term"}
  /\ proc' = [proc EXCEPT ![p] = Dead(p)]
  /\ UNCHANGED <<app, jsVars, pidFile, keepVars, otgVars, children>>

KilledDies(p) ==
  /\ proc[p] = "kill"
  /\ proc' = [proc EXCEPT ![p] = Dead(p)]
  /\ UNCHANGED <<app, jsVars, pidFile, keepVars, otgVars, children>>

\* A process id nobody holds may be given to a stranger, which ends some day.
StrangerStarts(p) ==
  /\ "reuse" \in Faults /\ proc[p] = "free"
  /\ proc' = [proc EXCEPT ![p] = "other"]
  /\ UNCHANGED <<app, jsVars, pidFile, keepVars, otgVars, children>>
StrangerEnds(p) ==
  /\ proc[p] = "other"
  /\ proc' = [proc EXCEPT ![p] = "free"]
  /\ UNCHANGED <<app, jsVars, pidFile, keepVars, otgVars, children>>

\* The mini-app's process ends: its memory is gone, its children get the
\* SIGTERM they asked for, its zombies are reaped.
AppEnds(how) ==
  /\ app' = how
  /\ js' = "idle" /\ call' = "none"
  /\ moonlightPid' = NoPid /\ target' = NoPid /\ polls' = 0
  /\ keepAlive' = FALSE /\ thr' = "none"
  /\ otgActive' = FALSE /\ prepared' = FALSE
  /\ proc' = [p \in Pids |->
       IF p \notin children THEN proc[p]
       ELSE CASE proc[p] = "run" -> "term" [] proc[p] = "zombie" -> "free"
              [] OTHER -> proc[p]]
  /\ children' = {}
  /\ UNCHANGED <<pidFile, otg>>

AppCrashes == app = "up" /\ "crash" \in Faults /\ AppEnds("gone")

\* An abort ends a run without crashes, so that its effects stay apart.
AppRestarts ==
  /\ app = "gone" \/ (app = "aborted" /\ "crash" \in Faults)
  /\ app' = "up"
  /\ UNCHANGED <<jsVars, pidFile, keepVars, otgVars, kernel>>

-----------------------------------------------------------------------------
(* screenKeepAliveLoop                                                     *)

KeepAliveTop ==
  /\ thr = "top"
  /\ thr' = IF keepAlive THEN "power" ELSE "ended"
  /\ UNCHANGED <<app, jsVars, keepAlive, pidFile, otgVars, kernel>>

\* otgHostActive_ is read before the mode is written.
KeepAlivePower ==
  /\ thr = "power"
  /\ thr' = IF otgActive THEN "host" ELSE "look"
  /\ UNCHANGED <<app, jsVars, keepAlive, pidFile, otgVars, kernel>>
KeepAliveHost ==
  /\ thr = "host"
  /\ otg' = "host"
  /\ thr' = "look"
  /\ UNCHANGED <<app, jsVars, keepAlive, pidFile, otgActive, prepared, kernel>>

\* kill(pid, 0) finds a zombie too.
KeepAliveLook ==
  /\ thr = "look"
  /\ IF pidFile = NoPid \/ proc[pidFile] = "free"
       THEN keepAlive' = FALSE /\ thr' = "ended"
       ELSE thr' = "enter" /\ UNCHANGED keepAlive
  /\ UNCHANGED <<app, jsVars, pidFile, otgVars, kernel>>

\* wait_for: the predicate is tested, then the thread blocks; the flag is
\* cleared and notified without the mutex, so a notification may come
\* between the two and be lost.
KeepAliveEnter ==
  /\ thr = "enter"
  /\ thr' = IF keepAlive THEN "block" ELSE "top"
  /\ UNCHANGED <<app, jsVars, keepAlive, pidFile, otgVars, kernel>>
KeepAliveBlock ==
  /\ thr = "block"
  /\ thr' = "wait"
  /\ UNCHANGED <<app, jsVars, keepAlive, pidFile, otgVars, kernel>>
KeepAliveTimeout ==
  /\ thr = "wait"
  /\ thr' = "top"
  /\ UNCHANGED <<app, jsVars, keepAlive, pidFile, otgVars, kernel>>

-----------------------------------------------------------------------------
(* stopMoonlightProcess, which startMoonlightProcess and the destructor    *)
(* begin with.                                                             *)

Begin(c, pc) ==
  /\ app = "up" /\ js = "idle"
  /\ js' = pc /\ call' = c
  /\ UNCHANGED <<app, moonlightPid, target, polls, pidFile, keepVars, otgVars, kernel>>

BeginStop == Begin("stop", "quiet")
BeginDestroy == Begin("destroy", "quiet")
\* Mutant: a start does not stop the stream before.
BeginStartAnew == Begin("start", "prepare")
BeginStart == Begin("start", "quiet")

AfterStop ==
  [stop |-> "idle", start |-> "prepare", destroy |-> "destroy"][call]

\* The end of every branch of the stop.
Settle ==
  /\ moonlightPid' = NoPid /\ pidFile' = NoPid
  /\ otg' = IF otgActive THEN "otg" ELSE otg
  /\ otgActive' = FALSE
  /\ js' = AfterStop
  /\ UNCHANGED <<app, call, keepVars, prepared>>

\* stopScreenKeepAlive up to the join.
QuietKeepAlive ==
  /\ js = "quiet"
  /\ keepAlive' = FALSE
  /\ IF keepAlive
       THEN js' = "join" /\ thr' = IF thr = "wait" THEN "top" ELSE thr
       ELSE js' = "signal" /\ UNCHANGED thr
  /\ UNCHANGED <<app, call, moonlightPid, target, polls, pidFile, otgVars, kernel>>

\* Mutant: the thread is not joined (it is detached).
JoinKeepAliveNot ==
  /\ js = "join"
  /\ js' = "signal"
  /\ UNCHANGED <<app, call, moonlightPid, target, polls, pidFile, keepVars, otgVars, kernel>>

JoinKeepAlive ==
  /\ js = "join" /\ thr \in {"ended", "none"}
  /\ thr' = "none"
  /\ js' = "signal"
  /\ UNCHANGED <<app, call, moonlightPid, target, polls, keepAlive, pidFile, otgVars, kernel>>

\* Mutant: the pid file is not looked at.
KnownPidMine == moonlightPid

KnownPid == IF moonlightPid # NoPid THEN moonlightPid ELSE pidFile

NothingToStop ==
  /\ js = "signal" /\ KnownPid = NoPid
  /\ Settle
  /\ UNCHANGED <<target, polls, kernel>>

Signal ==
  /\ js = "signal" /\ KnownPid # NoPid
  /\ target' = KnownPid /\ polls' = 0
  /\ proc' = [proc EXCEPT ![KnownPid] = Terminated(KnownPid)]
  /\ js' = "poll"
  /\ UNCHANGED <<app, call, moonlightPid, pidFile, keepVars, otgVars, children>>

\* waitpid reaps our child; another process is found gone by kill(pid, 0).
TargetReaped == moonlightPid = target /\ proc[target] = "zombie"
TargetGone == TargetReaped \/ proc[target] = "free"

PollFinds ==
  /\ js = "poll" /\ polls < StopPolls /\ TargetGone
  /\ proc' = [proc EXCEPT ![target] = "free"] /\ children' = children \ {target}
  /\ Settle
  /\ UNCHANGED <<target, polls>>
\* Mutant: one poll too many.
PollAgainOnce ==
  /\ js = "poll" /\ polls <= StopPolls /\ ~TargetGone
  /\ polls' = polls + 1
  /\ UNCHANGED <<app, js, call, moonlightPid, target, pidFile, keepVars, otgVars, kernel>>
PollAgain ==
  /\ js = "poll" /\ polls < StopPolls /\ ~TargetGone
  /\ polls' = polls + 1
  /\ UNCHANGED <<app, js, call, moonlightPid, target, pidFile, keepVars, otgVars, kernel>>

\* SIGKILL, and the branch that has no child to wait for.
KillOrphan ==
  /\ js = "poll" /\ polls = StopPolls /\ moonlightPid # target
  /\ proc' = [proc EXCEPT ![target] = Killed(target)]
  /\ Settle
  /\ UNCHANGED <<target, polls, children>>
\* Mutant: waits for a child that never got SIGKILL.
KillChildNot ==
  /\ js = "poll" /\ polls = StopPolls /\ moonlightPid = target
  /\ js' = "reap"
  /\ UNCHANGED <<app, call, moonlightPid, target, polls, pidFile, keepVars, otgVars, kernel>>
\* Mutant: the killed child is not waited for.
KillChildOnly ==
  /\ js = "poll" /\ polls = StopPolls /\ moonlightPid = target
  /\ proc' = [proc EXCEPT ![target] = Killed(target)]
  /\ Settle
  /\ UNCHANGED <<target, polls, children>>
KillChild ==
  /\ js = "poll" /\ polls = StopPolls /\ moonlightPid = target
  /\ proc' = [proc EXCEPT ![target] = Killed(target)]
  /\ js' = "reap"
  /\ UNCHANGED <<app, call, moonlightPid, target, polls, pidFile, keepVars, otgVars, children>>

Reap ==
  /\ js = "reap" /\ proc[target] = "zombie"
  /\ proc' = [proc EXCEPT ![target] = "free"] /\ children' = children \ {target}
  /\ Settle
  /\ UNCHANGED <<target, polls>>

\* The destructor's end: destroying a joinable std::thread aborts.
Destroy ==
  /\ js = "destroy"
  /\ AppEnds(IF thr = "none" THEN "gone" ELSE "aborted")

-----------------------------------------------------------------------------
(* startMoonlightProcess, after the stop.                                  *)

\* No host, or the runtime cannot be copied: the call throws.
PrepareFails ==
  /\ js = "prepare" /\ "prepare" \in Faults
  /\ js' = "idle"
  /\ UNCHANGED <<app, call, moonlightPid, target, polls, pidFile, keepVars, otgVars, kernel>>

\* setRkOtgMode("host") is tried when the stream takes input, and may fail.
Prepare ==
  /\ js = "prepare"
  /\ \E host \in BOOLEAN :
       prepared' = host /\ otg' = IF host THEN "host" ELSE otg
  /\ js' = "fork"
  /\ UNCHANGED <<app, call, moonlightPid, target, polls, pidFile, keepVars, otgActive, kernel>>

\* Mutant: a failing fork leaves the controller in host mode.
ForkFailsInHostMode ==
  /\ js = "fork" /\ "fork" \in Faults
  /\ prepared' = FALSE
  /\ js' = "idle"
  /\ UNCHANGED <<app, call, moonlightPid, target, polls, pidFile, keepVars, otg, otgActive, kernel>>

ForkFails ==
  /\ js = "fork" /\ "fork" \in Faults
  /\ otg' = IF prepared THEN "otg" ELSE otg
  /\ prepared' = FALSE
  /\ js' = "idle"
  /\ UNCHANGED <<app, call, moonlightPid, target, polls, pidFile, keepVars, otgActive, kernel>>

Fork(p) ==
  /\ js = "fork" /\ proc[p] = "free"
  /\ proc' = [proc EXCEPT ![p] = "forked"] /\ children' = children \union {p}
  /\ moonlightPid' = p
  /\ otgActive' = prepared /\ prepared' = FALSE
  /\ js' = "record"
  /\ UNCHANGED <<app, call, target, polls, pidFile, keepVars, otg>>

\* writeMoonlightPidFile does not report that it failed.
Record ==
  /\ js = "record"
  /\ \/ pidFile' = moonlightPid
     \/ "pidfile" \in Faults /\ UNCHANGED pidFile
  /\ js' = "awake"
  /\ UNCHANGED <<app, call, moonlightPid, target, polls, keepVars, otgVars, kernel>>

\* startScreenKeepAlive: assigning to a joinable std::thread aborts.
StartKeepAlive ==
  /\ js = "awake" /\ thr = "none"
  /\ keepAlive' = TRUE /\ thr' = "top"
  /\ js' = "idle"
  /\ UNCHANGED <<app, call, moonlightPid, target, polls, pidFile, otgVars, kernel>>
StartKeepAliveAborts ==
  /\ js = "awake" /\ thr # "none" /\ ~keepAlive
  /\ AppEnds("aborted")

-----------------------------------------------------------------------------
(* isMoonlightProcessRunning and pairMoonlightProcess.                     *)

\* Mutant: the pid file outlives the child it names.
AskRunningKeepsFile ==
  /\ IF moonlightPid # NoPid /\ proc[moonlightPid] = "zombie"
       THEN /\ proc' = [proc EXCEPT ![moonlightPid] = "free"]
            /\ children' = children \ {moonlightPid}
            /\ moonlightPid' = NoPid
            /\ UNCHANGED pidFile
       ELSE UNCHANGED <<kernel, moonlightPid, pidFile>>
  /\ UNCHANGED <<app, js, call, target, polls, keepVars, otgVars>>

\* isMoonlightProcessRunning reaps and forgets a child that ended.
AskRunning ==
  /\ IF moonlightPid # NoPid /\ proc[moonlightPid] = "zombie"
       THEN /\ proc' = [proc EXCEPT ![moonlightPid] = "free"]
            /\ children' = children \ {moonlightPid}
            /\ moonlightPid' = NoPid /\ pidFile' = NoPid
       ELSE UNCHANGED <<kernel, moonlightPid, pidFile>>
  /\ UNCHANGED <<app, js, call, target, polls, keepVars, otgVars>>

Poll == app = "up" /\ js = "idle" /\ AskRunning

\* The JS thread waits for the pairing process, two minutes at most; then it
\* gets SIGTERM and, two seconds later, SIGKILL.
BeginPair(p) ==
  /\ app = "up" /\ js = "idle" /\ proc[p] = "free"
  /\ proc' = [proc EXCEPT ![p] = "forked"] /\ children' = children \union {p}
  /\ target' = p
  /\ js' = "pair" /\ call' = "pair"
  /\ UNCHANGED <<app, moonlightPid, polls, pidFile, keepVars, otgVars>>
PairEnds ==
  /\ js \in {"pair", "pairterm", "pairkill"} /\ proc[target] = "zombie"
  /\ proc' = [proc EXCEPT ![target] = "free"] /\ children' = children \ {target}
  /\ js' = "idle"
  /\ UNCHANGED <<app, call, moonlightPid, target, polls, pidFile, keepVars, otgVars>>
PairTimeout ==
  /\ js \in {"pair", "pairterm"}
  /\ js' = IF js = "pair" THEN "pairterm" ELSE "pairkill"
  /\ proc' = [proc EXCEPT ![target] =
                IF js = "pair" THEN Terminated(target) ELSE Killed(target)]
  /\ UNCHANGED <<app, call, moonlightPid, target, polls, pidFile, keepVars, otgVars, children>>

-----------------------------------------------------------------------------
Calls == BeginStart \/ BeginStop \/ BeginDestroy \/ Poll \/ \E p \in Pids : BeginPair(p)
CallSteps ==
  \/ QuietKeepAlive \/ JoinKeepAlive \/ NothingToStop \/ Signal
  \/ PollFinds \/ PollAgain \/ KillOrphan \/ KillChild \/ Reap \/ Destroy
  \/ PrepareFails \/ Prepare \/ ForkFails \/ Record
  \/ StartKeepAlive \/ StartKeepAliveAborts \/ PairEnds \/ PairTimeout
  \/ \E p \in Pids : Fork(p)
KeepAliveThread ==
  \/ KeepAliveTop \/ KeepAlivePower \/ KeepAliveHost \/ KeepAliveLook
  \/ KeepAliveEnter \/ KeepAliveBlock \/ KeepAliveTimeout
Kernel ==
  \E p \in Pids : \/ ChildStarts(p) \/ ChildExits(p) \/ KilledDies(p)
                  \/ StrangerStarts(p) \/ StrangerEnds(p)

ProcessNext ==
  Calls \/ CallSteps \/ KeepAliveThread \/ Kernel \/ AppCrashes \/ AppRestarts

ProcessSpec == ProcessInit /\ [][ProcessNext]_processVars

\* Threads are scheduled, a wait of five seconds ends and SIGKILL works.
\* Nothing says that Moonlight obeys SIGTERM.
ProcessFairness ==
  /\ WF_processVars(CallSteps) /\ WF_processVars(KeepAliveThread)
  /\ \A p \in Pids : WF_processVars(KilledDies(p))

FairProcessSpec == ProcessSpec /\ ProcessFairness

-----------------------------------------------------------------------------
ProcStates == {"free", "forked", "run", "term", "kill", "zombie", "other"}

ProcessTypeOK ==
  /\ app \in {"up", "gone", "aborted"}
  /\ js \in {"idle", "quiet", "join", "signal", "poll", "reap", "destroy",
             "prepare", "fork", "record", "awake", "pair", "pairterm", "pairkill"}
  /\ call \in {"none", "start", "stop", "destroy", "pair"}
  /\ (js \in {"quiet", "join", "signal", "poll", "reap"}
        => call \in {"start", "stop", "destroy"})
  /\ moonlightPid \in Pids \union {NoPid} /\ pidFile \in Pids \union {NoPid}
  /\ target \in Pids \union {NoPid}
  /\ (js \in {"poll", "reap", "pair", "pairterm", "pairkill"} => target # NoPid)
  /\ polls \in 0..StopPolls
  /\ keepAlive \in BOOLEAN
  /\ thr \in {"none", "top", "power", "host", "look", "enter", "block", "wait", "ended"}
  /\ otg \in {"otg", "host"} /\ otgActive \in BOOLEAN /\ prepared \in BOOLEAN
  /\ proc \in [Pids -> ProcStates] /\ children \subseteq Pids

PairChild == IF js \in {"pair", "pairterm", "pairkill"} THEN {target} ELSE {}

\* Every child of the mini-app, zombies included, is the one in
\* moonlightPid_ or the pairing process of the call that runs: none is
\* forgotten, or taken for a child after it was reaped, on any path of
\* startMoonlightProcess, stopMoonlightProcess, isMoonlightProcessRunning
\* and pairMoonlightProcess.
NoLostChild ==
  /\ children = ({moonlightPid} \ {NoPid}) \union PairChild
  /\ \A p \in children : proc[p] \notin {"free", "other"}

\* stopMoonlightProcess signals the process this mini-app started, never a
\* stranger that got its id after the child was reaped.
SignalsOwnChild ==
  /\ js = "signal" /\ KnownPid # NoPid => KnownPid \in children
  /\ js \in {"poll", "reap"} => target \in children

\* The USB controller is in host mode only while somebody will restore it:
\* every failing start restores it, and the keep-alive thread cannot set it
\* again after the stop did (setRkOtgMode, restoreOtgIfNeeded).
HostModeIsTemporary ==
  app # "aborted" /\ otg = "host" => otgActive \/ prepared

\* A Moonlight that lost its parent has been told to end: the death signal
\* and the getppid test of the child leave no gap between fork and execv.
OrphansAreTold == \A p \in Pids : proc[p] = "run" => p \in children

\* The pid file outlives the process it names, across crashes of the
\* mini-app: it is removed only when that process ended or got SIGKILL.
RecordOutlivesProcess ==
  [][pidFile # NoPid /\ pidFile' # pidFile =>
       proc'[pidFile] \notin {"forked", "run", "term"}]_processVars

\* A call always returns: the keep-alive thread is joined within its wait,
\* and a Moonlight or a pairing that ignores SIGTERM is killed.
CallsReturn == (js # "idle") ~> (js = "idle")

\* The process that moonlightPid_ names, as the pages see it.
StreamOf ==
  IF moonlightPid = NoPid THEN "none"
  ELSE IF proc[moonlightPid] = "zombie" THEN "ended" ELSE "running"
AskedOf ==
  CASE js = "idle" -> "none"
    [] js \in {"quiet", "join", "signal", "poll", "reap"} -> call
    [] js \in {"prepare", "fork"} -> "launch"
    [] js \in {"record", "awake"} -> "launched"
    [] js = "destroy" -> "leave"
    [] OTHER -> "pair"

Control == INSTANCE StreamControl WITH
  stream <- StreamOf, asked <- AskedOf, Crashes <- "crash" \in Faults

\* Whatever fails, and whenever Moonlight exits, the pages are served by one
\* stream at a time: a start comes after the end of the stream before, and
\* stop and poll forget none that runs (stopMoonlightProcess,
\* isMoonlightProcessRunning).
IsStreamControl == Control!Spec

\* README.md, "If Moonlight exits unexpectedly, the frame page watchdog
\* returns to the settings page": neither that return nor the next start
\* aborts the mini-app.
AppSurvives == app # "aborted"
=============================================================================
