----------------------------- MODULE FramePage -----------------------------
(***************************************************************************)
(* The frame page of the mini-app (frame.vue): when it starts, watches and *)
(* stops a stream, and when it goes back to the settings page.  JavaScript *)
(* runs one callback at a time, so a callback is one action; between two   *)
(* callbacks Moonlight may exit, the user may leave or return, and timers  *)
(* and the volume manager answer in any order.  A native call returns      *)
(* before its callback goes on, and is taken for what it promises          *)
(* (MoonlightProcess): after stop there is no stream, start stops first.   *)
(***************************************************************************)
EXTENDS Naturals

CONSTANT MaxVisits  \* bound: how often the user opens a page or comes back to one

ASSUME FrameConstantsOK == MaxVisits \in Nat

VARIABLES
  current,              \* the page in front, when the mini-app is
  visible,              \* is the mini-app in front
  exists,               \* is there a frame page
  showing,              \* the framework owes the frame page an onShow
  visits,               \* visits so far
  moonlightRunning,
  moonlightStarting,
  moonlightStartToken,
  watchdog,             \* is the interval of moonlightWatchdogTimer set
  leavingFrame,
  leaveTimer,           \* the timer leaveBlankFrame sets is running
  pending,              \* start tokens whose volume is not known yet
  stream                \* the process: "none", "running" or "ended"

place == <<current, visible, exists, showing, visits>>
flags == <<moonlightRunning, moonlightStarting, moonlightStartToken>>
starting == <<flags, pending>>
leaving == <<leavingFrame, leaveTimer>>
frameVars == <<place, starting, watchdog, leaving, stream>>

FrameVisible == visible /\ current = "frame"

FrameInit ==
  /\ current = "index" /\ visible = TRUE /\ exists = FALSE /\ showing = FALSE
  /\ visits = 0
  /\ moonlightRunning = FALSE /\ moonlightStarting = FALSE
  /\ moonlightStartToken = 0 /\ pending = {}
  /\ watchdog = FALSE /\ leavingFrame = FALSE /\ leaveTimer = FALSE
  /\ stream = "none"

-----------------------------------------------------------------------------
\* Mutant: a start that waits for the volume survives the stop.
StopMoonlightOnly ==
  /\ watchdog' = FALSE /\ stream' = "none"
  /\ moonlightStarting' = FALSE /\ moonlightRunning' = FALSE
  /\ UNCHANGED moonlightStartToken

\* Mutant: moonlightStarting is not cleared.
StopMoonlightStarting ==
  /\ watchdog' = FALSE /\ stream' = "none"
  /\ moonlightRunning' = FALSE
  /\ moonlightStartToken' = moonlightStartToken + 1
  /\ UNCHANGED moonlightStarting

\* stopMoonlight: any start that still waits for the volume is stale now.
StopMoonlight ==
  /\ watchdog' = FALSE /\ stream' = "none"
  /\ moonlightStarting' = FALSE /\ moonlightRunning' = FALSE
  /\ moonlightStartToken' = moonlightStartToken + 1

\* isMoonlightRunning reaps a process that ended.
Asked == IF stream = "ended" THEN "none" ELSE stream

\* Mutant: the token is not counted up.
AskVolumeUncounted ==
  /\ moonlightRunning' = FALSE /\ moonlightStarting' = TRUE
  /\ pending' = pending \union {moonlightStartToken + 1}
  /\ UNCHANGED moonlightStartToken

\* startMoonlight up to the question for the volume.
AskVolume ==
  /\ moonlightRunning' = FALSE /\ moonlightStarting' = TRUE
  /\ moonlightStartToken' = moonlightStartToken + 1
  /\ pending' = pending \union {moonlightStartToken + 1}

\* Mutant: start without looking for a stream.
StartMoonlightBlindly == AskVolume /\ UNCHANGED stream

StartMoonlight ==
  IF moonlightRunning \/ moonlightStarting
    THEN /\ stream' = Asked
         /\ IF stream = "running" \/ moonlightStarting
              THEN UNCHANGED starting
              ELSE AskVolume
    ELSE AskVolume /\ UNCHANGED stream

\* Mutant: the page gives up without going back.
LeaveBlankFrameSilently ==
  leavingFrame' = TRUE /\ StopMoonlight /\ UNCHANGED leaveTimer

\* leaveBlankFrame, by a caller that clears moonlightRunning and ends with
\* moonlightStarting cleared: stop the stream, go back 100 ms later.
LeaveBlankFrame ==
  IF leavingFrame
    THEN /\ moonlightRunning' = FALSE /\ moonlightStarting' = FALSE
         /\ UNCHANGED <<moonlightStartToken, watchdog, leaving, stream>>
    ELSE leavingFrame' = TRUE /\ leaveTimer' = TRUE /\ StopMoonlight

-----------------------------------------------------------------------------
(* What the user and the framework do.                                     *)

\* index.vue's startStream: a page that is there already is shown again, a
\* new one is mounted first.  (Its tokens go on from the old page's: the
\* callbacks of a closed page find its token changed in either case.)
Open ==
  /\ visible /\ current = "index" /\ visits < MaxVisits
  /\ current' = "frame" /\ exists' = TRUE /\ showing' = TRUE /\ visits' = visits + 1
  /\ IF exists
       THEN UNCHANGED <<starting, stream, leavingFrame>>
       ELSE leavingFrame' = FALSE /\ StartMoonlight
  /\ UNCHANGED <<visible, watchdog, leaveTimer>>

OnShow ==
  /\ showing /\ showing' = FALSE
  /\ IF leavingFrame THEN UNCHANGED <<starting, stream>> ELSE StartMoonlight
  /\ UNCHANGED <<current, visible, exists, visits, watchdog, leaving>>

\* The mini-app goes to the background, and comes back.
Hide ==
  /\ FrameVisible /\ ~showing
  /\ visible' = FALSE
  /\ StopMoonlight
  /\ UNCHANGED <<current, exists, showing, visits, pending, leaving>>
Return ==
  /\ ~visible /\ visits < MaxVisits
  /\ visible' = TRUE /\ visits' = visits + 1
  /\ showing' = (current = "frame")
  /\ UNCHANGED <<current, exists, starting, watchdog, leaving, stream>>

\* The user closes the page: onHide and onUnload stop the stream, and so does
\* the settings page's onShow.
Back ==
  /\ FrameVisible /\ ~showing
  /\ current' = "index" /\ exists' = FALSE
  /\ StopMoonlight
  /\ UNCHANGED <<visible, showing, visits, pending, leaving>>

-----------------------------------------------------------------------------
(* What happens to a page that is there.                                   *)

\* Mutant: no watchdog for the stream.
VolumeKnownUnwatched(t) ==
  /\ t \in pending
  /\ pending' = pending \ {t}
  /\ IF t # moonlightStartToken
       THEN UNCHANGED <<flags, watchdog, leaving, stream>>
       ELSE \/ /\ stream' = "running"
               /\ moonlightRunning' = TRUE /\ moonlightStarting' = FALSE
               /\ UNCHANGED <<moonlightStartToken, watchdog, leaving>>
            \/ LeaveBlankFrame
  /\ UNCHANGED place

\* The volume manager, or its timeout after 300 ms, answers; the native start
\* succeeds or fails.
VolumeKnown(t) ==
  /\ t \in pending
  /\ pending' = pending \ {t}
  /\ IF t # moonlightStartToken
       THEN UNCHANGED <<flags, watchdog, leaving, stream>>
       ELSE \/ /\ stream' = "running" /\ watchdog' = TRUE
               /\ moonlightRunning' = TRUE /\ moonlightStarting' = FALSE
               /\ UNCHANGED <<moonlightStartToken, leaving>>
            \/ LeaveBlankFrame
  /\ UNCHANGED place

\* The watchdog's interval: a stream that ended makes the page leave.
Watch ==
  /\ watchdog /\ ~moonlightStarting /\ ~leavingFrame
  /\ IF stream = "running"
       THEN moonlightRunning' = TRUE
              /\ UNCHANGED <<moonlightStarting, moonlightStartToken, watchdog, leaving, stream>>
       ELSE IF moonlightRunning
         THEN LeaveBlankFrame
         ELSE stream' = Asked /\ UNCHANGED <<flags, watchdog, leaving>>
  /\ UNCHANGED <<place, pending>>

\* navTo('index'): the framework keeps the frame page and hides it, and the
\* settings page stops what streams.
Leave ==
  /\ leaveTimer /\ ~showing
  /\ leaveTimer' = FALSE
  /\ IF current = "frame"
       THEN current' = "index" /\ StopMoonlight
       ELSE UNCHANGED <<current, flags, watchdog, stream>>
  /\ UNCHANGED <<visible, exists, showing, visits, pending, leavingFrame>>

MoonlightExits ==
  /\ stream = "running" /\ stream' = "ended"
  /\ UNCHANGED <<place, starting, watchdog, leaving>>

-----------------------------------------------------------------------------
Volume == \E t \in pending : VolumeKnown(t)
FrameNext ==
  \/ Open \/ OnShow \/ Hide \/ Return \/ Back
  \/ Volume \/ Watch \/ Leave \/ MoonlightExits

FrameSpec == FrameInit /\ [][FrameNext]_frameVars

\* The framework delivers onShow, every volume request is answered at the
\* latest by its timeout, timers fire.  The user does as he likes, and
\* Moonlight may run for ever.
FairFrameSpec ==
  FrameSpec /\ WF_frameVars(OnShow) /\ WF_frameVars(Volume)
            /\ WF_frameVars(Watch) /\ WF_frameVars(Leave)

-----------------------------------------------------------------------------
FrameTypeOK ==
  /\ current \in {"index", "frame"} /\ stream \in {"none", "running", "ended"}
  /\ visible \in BOOLEAN /\ exists \in BOOLEAN /\ showing \in BOOLEAN
  /\ visits \in 0..MaxVisits
  /\ moonlightRunning \in BOOLEAN /\ moonlightStarting \in BOOLEAN
  /\ moonlightStartToken \in Nat /\ pending \subseteq 1..moonlightStartToken
  /\ watchdog \in BOOLEAN /\ leavingFrame \in BOOLEAN /\ leaveTimer \in BOOLEAN
  /\ current = "frame" => exists

\* README.md, "Leaving the frame page stops Moonlight and releases the
\* framebuffer": however late the volume manager answers, a page that is not in
\* front neither streams nor watches (onHide, onUnload, startMoonlight).
HiddenNeverStreams == ~FrameVisible => stream = "none" /\ ~watchdog

\* moonlightStarting always has a callback that will clear it; otherwise no
\* later onShow could start a stream and the watchdog would sleep.
StartingIsResolved == moonlightStarting => moonlightStartToken \in pending

\* While a start is under way there is no stream that it would kill and
\* replace, although mounted and onShow both start (startMoonlight).
StreamIsNotRestarted == moonlightStartToken \in pending => stream # "running"

\* README.md, "If Moonlight exits unexpectedly, the frame page watchdog returns
\* to the settings page", unless it streams again before.
DeadStreamLeaves ==
  (FrameVisible /\ stream = "ended") ~> (~FrameVisible \/ stream = "running")

\* A page in front that has not left by itself before streams in the end or is
\* left: no order of answers, timers, exits and the user strands it.
FreshPageResolves ==
  (FrameVisible /\ ~leavingFrame) ~> (stream = "running" \/ ~FrameVisible)

\* README.md, "Starting a stream navigates to frame.vue. The frame page ...
\* starts Moonlight as a child process": the black page streams in the end or
\* is left.
NotStranded == FrameVisible ~> (stream = "running" \/ ~FrameVisible)
=============================================================================
