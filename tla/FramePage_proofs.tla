-------------------------- MODULE FramePage_proofs --------------------------
(***************************************************************************)
(* Theorems about FramePage, for any number of visits.                     *)
(***************************************************************************)
EXTENDS FramePage, TLAPS

\* A start waits for the volume exactly while moonlightStarting is set, and
\* only the page in front starts, streams or is owed an onShow.
StartInv ==
  /\ moonlightStarting => moonlightStartToken \in pending
  /\ moonlightStartToken \in pending => moonlightStarting
  /\ ~FrameVisible => ~moonlightStarting /\ ~moonlightRunning
  /\ showing => FrameVisible
  /\ stream = "running" => moonlightRunning
  /\ moonlightStarting => stream # "running"
  /\ current = "index" => ~showing

FrameInv == FrameTypeOK /\ HiddenNeverStreams /\ StartInv

LEMMA FrameInvInit == FrameInit => FrameInv
<1> SUFFICES ASSUME FrameInit PROVE FrameInv
  OBVIOUS
<1>1. FrameTypeOK
  <2>1. /\ visible \in BOOLEAN /\ exists \in BOOLEAN /\ showing \in BOOLEAN
        /\ moonlightRunning \in BOOLEAN /\ moonlightStarting \in BOOLEAN
        /\ watchdog \in BOOLEAN /\ leavingFrame \in BOOLEAN /\ leaveTimer \in BOOLEAN
    BY Zenon DEF FrameInit
  <2>2. QED BY <2>1, FrameConstantsOK DEF FrameInit, FrameTypeOK
<1>2. HiddenNeverStreams /\ StartInv
  BY DEF FrameInit, HiddenNeverStreams, StartInv, FrameVisible
<1>3. QED BY <1>1, <1>2 DEF FrameInv

\* Counting the token up keeps the outstanding tokens below it.
LEMMA NewToken ==
  ASSUME NEW t \in Nat, NEW S, S \subseteq 1..t
  PROVE  t + 1 \in Nat /\ S \union {t + 1} \subseteq 1..(t + 1)
OBVIOUS

LEMMA FrameInvNext == FrameInv /\ [FrameNext]_frameVars => FrameInv'
<1> SUFFICES ASSUME FrameInv, [FrameNext]_frameVars PROVE FrameInv'
  OBVIOUS
<1> USE FrameConstantsOK DEF FrameInv, FrameTypeOK, HiddenNeverStreams, StartInv, FrameVisible, place, flags, starting, leaving
<1>1. CASE Open
  <2>1. /\ visible' \in BOOLEAN /\ exists' \in BOOLEAN /\ showing' \in BOOLEAN
        /\ moonlightRunning' \in BOOLEAN /\ moonlightStarting' \in BOOLEAN
        /\ watchdog' \in BOOLEAN /\ leavingFrame' \in BOOLEAN /\ leaveTimer' \in BOOLEAN
    BY <1>1, Zenon DEF Open, StartMoonlight, AskVolume, Asked
  <2>2. FrameTypeOK'
    <3>1. stream' \in {"none", "running", "ended"}
      BY <1>1, Zenon DEF Open, StartMoonlight, AskVolume, Asked
    <3>2. moonlightStartToken' \in Nat /\ pending' \subseteq 1..moonlightStartToken'
      <4>1. \/ moonlightStartToken' = moonlightStartToken /\ pending' = pending
            \/ AskVolume
        BY <1>1, Zenon DEF Open, StartMoonlight
      <4>2. moonlightStartToken \in Nat /\ pending \subseteq 1..moonlightStartToken
        OBVIOUS
      <4>3. CASE moonlightStartToken' = moonlightStartToken /\ pending' = pending
        BY <4>2, <4>3
      <4>4. CASE AskVolume
        <5>1. moonlightStartToken' = moonlightStartToken + 1
              /\ pending' = pending \union {moonlightStartToken + 1}
          BY <4>4, Zenon DEF AskVolume
        <5>2. QED BY ONLY <4>2, <5>1, NewToken
      <4>5. QED BY ONLY <4>1, <4>3, <4>4
    <3>3. current' \in {"index", "frame"} /\ visits' \in 0..MaxVisits
          /\ (current' = "frame" => exists')
      BY <1>1 DEF Open
    <3>4. QED BY <2>1, <3>1, <3>2, <3>3
  <2>3. HiddenNeverStreams'
    BY <1>1 DEF Open, StartMoonlight, AskVolume, Asked
  <2>4. StartInv'
    BY <1>1 DEF Open, StartMoonlight, AskVolume, Asked
  <2>5. QED BY <2>2, <2>3, <2>4
<1>2. CASE OnShow
  <2>1. /\ visible' \in BOOLEAN /\ exists' \in BOOLEAN /\ showing' \in BOOLEAN
        /\ moonlightRunning' \in BOOLEAN /\ moonlightStarting' \in BOOLEAN
        /\ watchdog' \in BOOLEAN /\ leavingFrame' \in BOOLEAN /\ leaveTimer' \in BOOLEAN
    BY <1>2, Zenon DEF OnShow, StartMoonlight, AskVolume, Asked
  <2>2. FrameTypeOK'
    <3>1. stream' \in {"none", "running", "ended"}
      BY <1>2, Zenon DEF OnShow, StartMoonlight, AskVolume, Asked
    <3>2. moonlightStartToken' \in Nat /\ pending' \subseteq 1..moonlightStartToken'
      <4>1. \/ moonlightStartToken' = moonlightStartToken /\ pending' = pending
            \/ AskVolume
        BY <1>2, Zenon DEF OnShow, StartMoonlight
      <4>2. moonlightStartToken \in Nat /\ pending \subseteq 1..moonlightStartToken
        OBVIOUS
      <4>3. CASE moonlightStartToken' = moonlightStartToken /\ pending' = pending
        BY <4>2, <4>3
      <4>4. CASE AskVolume
        <5>1. moonlightStartToken' = moonlightStartToken + 1
              /\ pending' = pending \union {moonlightStartToken + 1}
          BY <4>4, Zenon DEF AskVolume
        <5>2. QED BY ONLY <4>2, <5>1, NewToken
      <4>5. QED BY ONLY <4>1, <4>3, <4>4
    <3>3. current' \in {"index", "frame"} /\ visits' \in 0..MaxVisits
          /\ (current' = "frame" => exists')
      BY <1>2 DEF OnShow
    <3>4. QED BY <2>1, <3>1, <3>2, <3>3
  <2>3. HiddenNeverStreams'
    BY <1>2 DEF OnShow, StartMoonlight, AskVolume, Asked
  <2>4. StartInv'
    BY <1>2 DEF OnShow, StartMoonlight, AskVolume, Asked
  <2>5. QED BY <2>2, <2>3, <2>4
<1>3. CASE Hide
  <2>1. /\ visible' \in BOOLEAN /\ exists' \in BOOLEAN /\ showing' \in BOOLEAN
        /\ moonlightRunning' \in BOOLEAN /\ moonlightStarting' \in BOOLEAN
        /\ watchdog' \in BOOLEAN /\ leavingFrame' \in BOOLEAN /\ leaveTimer' \in BOOLEAN
    BY <1>3, Zenon DEF Hide, StopMoonlight
  <2>2. FrameTypeOK'
    BY <1>3, <2>1 DEF Hide, StopMoonlight
  <2>3. HiddenNeverStreams'
    BY <1>3 DEF Hide, StopMoonlight
  <2>4. StartInv'
    BY <1>3 DEF Hide, StopMoonlight
  <2>5. QED BY <2>2, <2>3, <2>4
<1>4. CASE Return
  <2>1. /\ visible' \in BOOLEAN /\ exists' \in BOOLEAN /\ showing' \in BOOLEAN
        /\ moonlightRunning' \in BOOLEAN /\ moonlightStarting' \in BOOLEAN
        /\ watchdog' \in BOOLEAN /\ leavingFrame' \in BOOLEAN /\ leaveTimer' \in BOOLEAN
    BY <1>4, Zenon DEF Return
  <2>2. FrameTypeOK'
    BY <1>4, <2>1 DEF Return
  <2>3. HiddenNeverStreams'
    BY <1>4 DEF Return
  <2>4. StartInv'
    BY <1>4 DEF Return
  <2>5. QED BY <2>2, <2>3, <2>4
<1>5. CASE Back
  <2>1. /\ visible' \in BOOLEAN /\ exists' \in BOOLEAN /\ showing' \in BOOLEAN
        /\ moonlightRunning' \in BOOLEAN /\ moonlightStarting' \in BOOLEAN
        /\ watchdog' \in BOOLEAN /\ leavingFrame' \in BOOLEAN /\ leaveTimer' \in BOOLEAN
    BY <1>5, Zenon DEF Back, StopMoonlight
  <2>2. FrameTypeOK'
    BY <1>5, <2>1 DEF Back, StopMoonlight
  <2>3. HiddenNeverStreams'
    BY <1>5 DEF Back, StopMoonlight
  <2>4. StartInv'
    BY <1>5 DEF Back, StopMoonlight
  <2>5. QED BY <2>2, <2>3, <2>4
<1>6. CASE Volume
  <2>1. /\ visible' \in BOOLEAN /\ exists' \in BOOLEAN /\ showing' \in BOOLEAN
        /\ moonlightRunning' \in BOOLEAN /\ moonlightStarting' \in BOOLEAN
        /\ watchdog' \in BOOLEAN /\ leavingFrame' \in BOOLEAN /\ leaveTimer' \in BOOLEAN
    BY <1>6, Zenon DEF Volume, VolumeKnown, LeaveBlankFrame, StopMoonlight
  <2>2. FrameTypeOK'
    BY <1>6, <2>1 DEF Volume, VolumeKnown, LeaveBlankFrame, StopMoonlight
  <2>3. HiddenNeverStreams'
    BY <1>6 DEF Volume, VolumeKnown, LeaveBlankFrame, StopMoonlight
  <2>4. StartInv'
    BY <1>6 DEF Volume, VolumeKnown, LeaveBlankFrame, StopMoonlight
  <2>5. QED BY <2>2, <2>3, <2>4
<1>7. CASE Watch
  <2> USE <1>7
  <2>1. CASE stream = "running"
    <3>1. /\ visible' \in BOOLEAN /\ exists' \in BOOLEAN /\ showing' \in BOOLEAN
          /\ moonlightRunning' \in BOOLEAN /\ moonlightStarting' \in BOOLEAN
          /\ watchdog' \in BOOLEAN /\ leavingFrame' \in BOOLEAN /\ leaveTimer' \in BOOLEAN
      BY <2>1, Zenon DEF Watch
    <3>2. FrameTypeOK'
      BY <2>1, <3>1 DEF Watch
    <3>3. HiddenNeverStreams'
      BY <2>1 DEF Watch
    <3>4. StartInv'
      BY <2>1 DEF Watch
    <3>5. QED BY <3>2, <3>3, <3>4
  <2>2. CASE stream # "running" /\ moonlightRunning
    <3>1. /\ visible' \in BOOLEAN /\ exists' \in BOOLEAN /\ showing' \in BOOLEAN
          /\ moonlightRunning' \in BOOLEAN /\ moonlightStarting' \in BOOLEAN
          /\ watchdog' \in BOOLEAN /\ leavingFrame' \in BOOLEAN /\ leaveTimer' \in BOOLEAN
      BY <2>2, Zenon DEF Watch, LeaveBlankFrame, StopMoonlight
    <3>2. FrameTypeOK'
      BY <2>2, <3>1 DEF Watch, LeaveBlankFrame, StopMoonlight
    <3>3. HiddenNeverStreams'
      BY <2>2 DEF Watch, LeaveBlankFrame, StopMoonlight
    <3>4. StartInv'
      BY <2>2 DEF Watch, LeaveBlankFrame, StopMoonlight
    <3>5. QED BY <3>2, <3>3, <3>4
  <2>3. CASE stream # "running" /\ ~moonlightRunning
    <3>1. /\ visible' \in BOOLEAN /\ exists' \in BOOLEAN /\ showing' \in BOOLEAN
          /\ moonlightRunning' \in BOOLEAN /\ moonlightStarting' \in BOOLEAN
          /\ watchdog' \in BOOLEAN /\ leavingFrame' \in BOOLEAN /\ leaveTimer' \in BOOLEAN
      BY <2>3, Zenon DEF Watch, Asked
    <3>2. FrameTypeOK'
      BY <2>3, <3>1 DEF Watch, Asked
    <3>3. HiddenNeverStreams'
      BY <2>3 DEF Watch, Asked
    <3>4. StartInv'
      BY <2>3 DEF Watch, Asked
    <3>5. QED BY <3>2, <3>3, <3>4
  <2>4. QED BY <2>1, <2>2, <2>3
<1>8. CASE Leave
  <2>1. /\ visible' \in BOOLEAN /\ exists' \in BOOLEAN /\ showing' \in BOOLEAN
        /\ moonlightRunning' \in BOOLEAN /\ moonlightStarting' \in BOOLEAN
        /\ watchdog' \in BOOLEAN /\ leavingFrame' \in BOOLEAN /\ leaveTimer' \in BOOLEAN
    BY <1>8, Zenon DEF Leave, StopMoonlight
  <2>2. FrameTypeOK'
    BY <1>8, <2>1 DEF Leave, StopMoonlight
  <2>3. HiddenNeverStreams'
    BY <1>8 DEF Leave, StopMoonlight
  <2>4. StartInv'
    BY <1>8 DEF Leave, StopMoonlight
  <2>5. QED BY <2>2, <2>3, <2>4
<1>9. CASE MoonlightExits
  <2>1. /\ visible' \in BOOLEAN /\ exists' \in BOOLEAN /\ showing' \in BOOLEAN
        /\ moonlightRunning' \in BOOLEAN /\ moonlightStarting' \in BOOLEAN
        /\ watchdog' \in BOOLEAN /\ leavingFrame' \in BOOLEAN /\ leaveTimer' \in BOOLEAN
    BY <1>9, Zenon DEF MoonlightExits
  <2>2. FrameTypeOK'
    BY <1>9, <2>1 DEF MoonlightExits
  <2>3. HiddenNeverStreams'
    BY <1>9 DEF MoonlightExits
  <2>4. StartInv'
    BY <1>9 DEF MoonlightExits
  <2>5. QED BY <2>2, <2>3, <2>4
<1>10. CASE UNCHANGED frameVars
  <2>1. /\ visible' \in BOOLEAN /\ exists' \in BOOLEAN /\ showing' \in BOOLEAN
        /\ moonlightRunning' \in BOOLEAN /\ moonlightStarting' \in BOOLEAN
        /\ watchdog' \in BOOLEAN /\ leavingFrame' \in BOOLEAN /\ leaveTimer' \in BOOLEAN
    BY <1>10, Zenon DEF frameVars
  <2>2. FrameTypeOK'
    BY <1>10, <2>1 DEF frameVars
  <2>3. HiddenNeverStreams'
    BY <1>10 DEF frameVars
  <2>4. StartInv'
    BY <1>10 DEF frameVars
  <2>5. QED BY <2>2, <2>3, <2>4
<1>11. QED BY <1>1, <1>2, <1>3, <1>4, <1>5, <1>6, <1>7, <1>8, <1>9, <1>10 DEF FrameNext

LEMMA FrameInvHolds == FrameSpec => []FrameInv
  BY FrameInvInit, FrameInvNext, PTL DEF FrameSpec

\* The types of the page's state (frame.vue), for any number of visits.
THEOREM FrameTypeCorrect == FrameSpec => []FrameTypeOK
<1>1. FrameInv => FrameTypeOK
  BY DEF FrameInv
<1>2. QED BY <1>1, FrameInvHolds, PTL

\* However the callbacks interleave, a page that is not in front neither
\* streams nor watches (onHide, onUnload, startMoonlight).
THEOREM HiddenPageIsQuiet == FrameSpec => []HiddenNeverStreams
<1>1. FrameInv => HiddenNeverStreams
  BY DEF FrameInv
<1>2. QED BY <1>1, FrameInvHolds, PTL

\* moonlightStarting is never left set without a callback that clears it.
THEOREM StartsAreResolved == FrameSpec => []StartingIsResolved
<1>1. FrameInv => StartingIsResolved
  BY DEF FrameInv, StartInv, StartingIsResolved
<1>2. QED BY <1>1, FrameInvHolds, PTL

\* No start kills and replaces a stream that runs (startMoonlight).
THEOREM RunningStreamIsKept == FrameSpec => []StreamIsNotRestarted
<1>1. FrameInv => StreamIsNotRestarted
  BY DEF FrameInv, StartInv, StreamIsNotRestarted
<1>2. QED BY <1>1, FrameInvHolds, PTL
=============================================================================
