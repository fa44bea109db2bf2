-------------------------- MODULE RkDisplay_proofs --------------------------
(***************************************************************************)
(* Theorems about RkDisplay, for any set of buffers, any packet queue      *)
(* length, any number of pictures and, unless said otherwise, any of the   *)
(* failures.                                                               *)
(***************************************************************************)
EXTENDS RkDisplay, FiniteSetTheorems, TLAPS

LEMMA TypeInit == Init => TypeOK
<1> USE ConstantsOK
<1> SUFFICES ASSUME Init PROVE TypeOK
  OBVIOUS
<1>1. eos \in BOOLEAN /\ vblanked \in BOOLEAN
  BY Zenon DEF Init
<1>2. stats \in Stats
  BY DEF Init, Stats
<1>3. QED BY <1>1, <1>2 DEF Init, TypeOK

\* Updating two counters at once keeps the record of counters.
LEMMA QueueStats ==
  ASSUME NEW r \in Stats, NEW k \in Nat
  PROVE  [r EXCEPT !.decoded = @ + 1, !.replaced = @ + k] \in Stats
<1> DEFINE s == [r EXCEPT !.decoded = @ + 1]
<1>1. s \in Stats /\ s.replaced = r.replaced
  BY DEF Stats
<1>2. [r EXCEPT !.decoded = @ + 1, !.replaced = @ + k]
        = [s EXCEPT !.replaced = r.replaced + k]
  OBVIOUS
<1> HIDE DEF s
<1>3. QED BY <1>1, <1>2 DEF Stats

LEMMA TypeNext == TypeOK /\ [Next]_vars => TypeOK'
<1> SUFFICES ASSUME TypeOK, [Next]_vars PROVE TypeOK'
  OBVIOUS
<1> USE ConstantsOK
<1>1. CASE ReceiveThread
  BY <1>1 DEF TypeOK, ReceiveThread, SubmitUnit, PutPacket, mpp, kms
<1>2. CASE Mpp
  BY <1>2 DEF TypeOK, Mpp, AnnounceFormat, DecodeNothing, Decode, mpp, kms
<1>3. CASE FrameThread
  <2>1. CASE FrameLoop \/ EnterGet \/ AttachGroup \/ RefuseFormat \/ GetError
            \/ GetNothing
    BY <2>1 DEF TypeOK, FrameLoop, EnterGet, AttachGroup, RefuseFormat, GetError,
                GetNothing, mpp, kms
  <2>2. CASE RotateFrame
    <3>1. dest' \in [Buffers -> Nat]
      BY <2>2 DEF TypeOK, RotateFrame
    <3>2. QED BY <2>2, <3>1 DEF TypeOK, RotateFrame, mpp, kms
  <2>3. CASE RotateFail
    <3>1. slot' \in [Slots -> Buffers \union {NoBuf}]
      BY <2>3 DEF TypeOK, RotateFail, Slots
    <3>2. free' \subseteq Buffers
      BY <2>3 DEF TypeOK, RotateFail, Release, Slots
    <3>3. QED BY <2>3, <3>1, <3>2 DEF TypeOK, RotateFail, mpp, kms
  <2>4. CASE QueueFrame
    <3>1. slot' \in [Slots -> Buffers \union {NoBuf}]
      BY <2>4 DEF TypeOK, QueueFrame, Slots
    <3>2. stats' \in Stats
      BY <2>4, QueueStats DEF TypeOK, QueueFrame, Occupied
    <3>3. QED BY <2>4, <3>1, <3>2 DEF TypeOK, QueueFrame, mpp, kms
  <2>5. CASE ReleaseReplaced
    <3>1. slot' \in [Slots -> Buffers \union {NoBuf}]
      BY <2>5 DEF TypeOK, ReleaseReplaced, Slots
    <3>2. free' \subseteq Buffers
      BY <2>5 DEF TypeOK, ReleaseReplaced, Release, Slots
    <3>3. eos' \in BOOLEAN
      BY <2>5 DEF TypeOK, ReleaseReplaced
    <3>4. QED BY <2>5, <3>1, <3>2, <3>3 DEF TypeOK, ReleaseReplaced, mpp, kms
  <2>6. CASE \E b \in Buffers : GetFrame(b)
    BY <2>6 DEF TypeOK, GetFrame, Slots, mpp, kms
  <2>7. CASE GetEmptyFrame
    <3>1. eos' \in BOOLEAN
      BY <2>7 DEF TypeOK, GetEmptyFrame
    <3>2. QED BY <2>7, <3>1 DEF TypeOK, GetEmptyFrame, mpp, kms
  <2>8. CASE AttachFail
    BY <2>8 DEF TypeOK, AttachFail, mpp, kms
  <2>9. QED BY <1>3, <2>1, <2>2, <2>3, <2>4, <2>5, <2>6, <2>7, <2>8
            DEF FrameThread, FrameRuns
<1>4. CASE DisplayThread
  <2>1. CASE DisplayExit \/ DisplaySleep \/ SpuriousWakeup
    BY <2>1 DEF TypeOK, DisplayExit, DisplaySleep, SpuriousWakeup, mpp, kms
  <2>2. CASE DisplayTake
    <3>1. slot' \in [Slots -> Buffers \union {NoBuf}]
      BY <2>2 DEF TypeOK, DisplayTake, Slots
    <3>2. QED BY <2>2, <3>1 DEF TypeOK, DisplayTake, mpp, kms
  <2>3. CASE Commit
    <3>1. latched' \in Buffers \union {NoBuf}
      BY <2>3 DEF TypeOK, Commit, Slots
    <3>2. eos' \in BOOLEAN /\ vblanked' \in BOOLEAN
      BY <2>3, Zenon DEF TypeOK, Commit, mpp
    <3>3. QED BY <2>3, <3>1, <3>2 DEF TypeOK, Commit, mpp, kms
  <2>4. CASE CommitFail
    <3>1. slot' \in [Slots -> Buffers \union {NoBuf}]
      BY <2>4 DEF TypeOK, CommitFail, Slots
    <3>2. stats' \in Stats
      BY <2>4 DEF TypeOK, CommitFail, Stats
    <3>3. free' \subseteq Buffers
      BY <2>4 DEF TypeOK, CommitFail, Release, Slots
    <3>4. QED BY <2>4, <3>1, <3>2, <3>3 DEF TypeOK, CommitFail, mpp, kms
  <2>5. CASE VBlankDone
    <3>1. slot' \in [Slots -> Buffers \union {NoBuf}]
      BY <2>5 DEF TypeOK, VBlankDone, Slots
    <3>2. stats' \in Stats
      BY <2>5 DEF TypeOK, VBlankDone, Stats
    <3>3. QED BY <2>5, <3>1, <3>2 DEF TypeOK, VBlankDone, mpp, kms
  <2>6. CASE ReleasePrevious
    <3>1. slot' \in [Slots -> Buffers \union {NoBuf}]
      BY <2>6 DEF TypeOK, ReleasePrevious, Slots
    <3>2. free' \subseteq Buffers
      BY <2>6 DEF TypeOK, ReleasePrevious, Release, Slots
    <3>3. QED BY <2>6, <3>1, <3>2 DEF TypeOK, ReleasePrevious, mpp, kms
  <2>7. CASE VBlankFail
    <3>1. slot' \in [Slots -> Buffers \union {NoBuf}]
      BY <2>7 DEF TypeOK, VBlankFail, Slots
    <3>2. stats' \in Stats
      BY <2>7 DEF TypeOK, VBlankFail, Stats
    <3>3. free' \subseteq Buffers
      BY <2>7 DEF TypeOK, VBlankFail, Release, Slots
    <3>4. QED BY <2>7, <3>1, <3>2, <3>3 DEF TypeOK, VBlankFail, mpp, kms
  <2>8. QED BY <1>4, <2>1, <2>2, <2>3, <2>4, <2>5, <2>6, <2>7 DEF DisplayThread, DisplayRuns
<1>5. CASE Cleanup
  <2>1. CASE BeginCleanup \/ DisablePlane
    <3>1. eos' \in BOOLEAN /\ vblanked' \in BOOLEAN
      BY <2>1, Zenon DEF TypeOK, BeginCleanup, DisablePlane, mpp, kms
    <3>2. CASE BeginCleanup
      BY <3>1, <3>2 DEF TypeOK, BeginCleanup, mpp, kms
    <3>3. CASE DisablePlane
      BY <3>1, <3>3 DEF TypeOK, DisablePlane, mpp, kms
    <3>4. QED BY <2>1, <3>2, <3>3
  <2>2. CASE ResetDecoder
    BY <2>2 DEF TypeOK, ResetDecoder, Release, mpp, kms
  <2>3. CASE ReleaseMailbox
    <3>1. slot' \in [Slots -> Buffers \union {NoBuf}]
      BY <2>3 DEF TypeOK, ReleaseMailbox, Slots
    <3>2. free' \subseteq Buffers
      BY <2>3 DEF TypeOK, ReleaseMailbox, Release, Slots
    <3>3. QED BY <2>3, <3>1, <3>2 DEF TypeOK, ReleaseMailbox, mpp, kms
  <2>4. CASE DisableFail \/ OffWait
    BY <2>4 DEF TypeOK, DisableFail, OffWait, mpp, kms
  <2>5. CASE JoinFrame
    BY <2>5 DEF TypeOK, JoinFrame, mpp, kms
  <2>6. QED BY <1>5, <2>1, <2>2, <2>3, <2>4, <2>5 DEF Cleanup
<1>6. CASE VBlank \/ StopStream
  <2>1. CASE VBlank
    BY <2>1 DEF TypeOK, VBlank, mpp, kms
  <2>2. CASE StopStream
    BY <2>2 DEF TypeOK, StopStream, mpp, kms
  <2>3. QED BY <1>6, <2>1, <2>2
<1>7. CASE Stopped \/ UNCHANGED vars
  <2>1. UNCHANGED vars
    BY <1>7 DEF Stopped
  <2>2. QED BY <2>1 DEF TypeOK, vars, mpp, kms
<1>8. QED BY <1>1, <1>2, <1>3, <1>4, <1>5, <1>6, <1>7 DEF Next

\* Type correctness of the display path.
THEOREM TypeCorrect == Spec => []TypeOK
BY TypeInit, TypeNext, PTL DEF Spec

-----------------------------------------------------------------------------
(* Program counters and slots.                                             *)

LEMMA OrderNext ==
  ASSUME TypeOK, StopOrder, [Next]_vars
  PROVE  StopOrder'
<1> USE ConstantsOK DEF StopOrder, Closing
<1>1. CASE ReceiveThread
  BY <1>1 DEF TypeOK, ReceiveThread, SubmitUnit, PutPacket, mpp
<1>2. CASE Mpp
  BY <1>2 DEF TypeOK, Mpp, AnnounceFormat, DecodeNothing, Decode
<1>3. CASE FrameThread
  BY <1>3 DEF TypeOK, FrameThread, FrameRuns, FrameLoop, EnterGet, AttachGroup, AttachFail,
              RefuseFormat, GetEmptyFrame, GetError,
              GetNothing, RotateFrame, RotateFail, QueueFrame, ReleaseReplaced,
              GetFrame, mpp
<1>4. CASE DisplayThread
  BY <1>4 DEF TypeOK, DisplayThread, DisplayRuns, DisplayExit, DisplaySleep, SpuriousWakeup,
              DisplayTake, Commit, CommitFail, VBlankDone, ReleasePrevious,
              VBlankFail, mpp
<1>5. CASE Cleanup
  BY <1>5 DEF TypeOK, Cleanup, BeginCleanup, ResetDecoder, JoinFrame,
              DisablePlane, DisableFail, OffWait, ReleaseMailbox, mpp
<1>6. CASE VBlank \/ StopStream
  BY <1>6 DEF TypeOK, VBlank, StopStream, mpp
<1>7. CASE UNCHANGED vars
  BY <1>7 DEF vars, mpp
<1>8. QED BY <1>1, <1>2, <1>3, <1>4, <1>5, <1>6, <1>7 DEF Next, Stopped

\* Before the group is attached no buffer exists.
LEMMA NothingHeld ==
  ASSUME SoleOwner, grp # "ready"
  PROVE  \A s \in Slots : slot[s] = NoBuf
BY DEF SoleOwner, Held

LEMMA InUseNext ==
  ASSUME TypeOK, StopOrder, SlotsInUse, SoleOwner, [Next]_vars
  PROVE  SlotsInUse'
<1> USE ConstantsOK DEF SlotsInUse
<1>1. CASE ReceiveThread
  BY <1>1 DEF ReceiveThread, SubmitUnit, PutPacket
<1>2. CASE Mpp
  BY <1>2 DEF Mpp, AnnounceFormat, DecodeNothing, Decode
<1>3. CASE FrameThread
  <2>1. CASE FrameLoop \/ EnterGet \/ AttachGroup \/ RefuseFormat \/ GetError
            \/ GetNothing
    BY <2>1 DEF FrameLoop, EnterGet, AttachGroup, RefuseFormat, GetError, GetNothing
  <2>2. CASE RotateFrame \/ RotateFail
    BY <2>2 DEF TypeOK, RotateFrame, RotateFail, Slots
  <2>3. CASE QueueFrame
    BY <2>3 DEF TypeOK, QueueFrame, Slots, StopOrder, Closing
  <2>4. CASE ReleaseReplaced
    BY <2>4 DEF TypeOK, ReleaseReplaced, Slots
  <2>5. CASE \E b \in Buffers : GetFrame(b)
    BY <2>5 DEF TypeOK, GetFrame, Slots
  <2>6. CASE GetEmptyFrame
    BY <2>6 DEF GetEmptyFrame
  <2>7. CASE AttachFail
    BY <2>7, NothingHeld DEF AttachFail, Slots
  <2>8. QED BY <1>3, <2>1, <2>2, <2>3, <2>4, <2>5, <2>6, <2>7
            DEF FrameThread, FrameRuns
<1>4. CASE DisplayThread
  <2>1. CASE DisplayExit \/ DisplaySleep \/ SpuriousWakeup \/ Commit
    BY <2>1 DEF DisplayExit, DisplaySleep, SpuriousWakeup, Commit
  <2>2. CASE DisplayTake
    BY <2>2 DEF TypeOK, DisplayTake, Slots
  <2>3. CASE CommitFail \/ ReleasePrevious
    BY <2>3 DEF TypeOK, CommitFail, ReleasePrevious, Slots
  <2>4. CASE VBlankDone
    BY <2>4 DEF TypeOK, VBlankDone, Slots, StopOrder, Closing
  <2>5. CASE VBlankFail
    BY <2>5 DEF TypeOK, VBlankFail, Slots, StopOrder, Closing
  <2>6. QED BY <1>4, <2>1, <2>2, <2>3, <2>4, <2>5 DEF DisplayThread, DisplayRuns
<1>5. CASE Cleanup
  <2>1. CASE ReleaseMailbox
    BY <2>1 DEF TypeOK, ReleaseMailbox, Slots
  <2>2. CASE JoinFrame
    BY <2>2 DEF JoinFrame
  <2>3. CASE Cleanup /\ ~ReleaseMailbox /\ ~JoinFrame
    BY <2>3 DEF Cleanup, BeginCleanup, ResetDecoder, DisablePlane, DisableFail,
                OffWait
  <2>4. QED BY <1>5, <2>1, <2>2, <2>3
<1>6. CASE VBlank \/ StopStream
  BY <1>6 DEF VBlank, StopStream
<1>7. CASE UNCHANGED vars
  BY <1>7 DEF vars
<1>8. QED BY <1>1, <1>2, <1>3, <1>4, <1>5, <1>6, <1>7 DEF Next, Stopped

-----------------------------------------------------------------------------
(* The plane.                                                              *)

LEMMA PlaneNext ==
  ASSUME TypeOK, StopOrder, SlotsInUse, SoleOwner, PlaneOwned, [Next]_vars
  PROVE  PlaneOwned'
<1> USE ConstantsOK DEF PlaneOwned, Closing
<1>1. CASE ReceiveThread
  BY <1>1 DEF ReceiveThread, SubmitUnit, PutPacket, kms
<1>2. CASE Mpp
  BY <1>2 DEF Mpp, AnnounceFormat, DecodeNothing, Decode, kms
<1>3. CASE FrameThread
  <2>1. CASE FrameLoop \/ EnterGet \/ AttachGroup \/ RefuseFormat \/ GetError
            \/ GetNothing
    BY <2>1 DEF FrameLoop, EnterGet, AttachGroup, RefuseFormat, GetError, GetNothing, kms
  <2>2. CASE RotateFrame \/ RotateFail
    BY <2>2 DEF TypeOK, RotateFrame, RotateFail, Slots, kms
  <2>3. CASE QueueFrame
    BY <2>3 DEF TypeOK, QueueFrame, Slots, kms, StopOrder
  <2>4. CASE ReleaseReplaced
    BY <2>4 DEF TypeOK, ReleaseReplaced, Slots, kms
  <2>5. CASE \E b \in Buffers : GetFrame(b)
    BY <2>5 DEF TypeOK, GetFrame, Slots, kms
  <2>6. CASE GetEmptyFrame
    BY <2>6 DEF GetEmptyFrame, kms
  <2>7. CASE AttachFail
    BY <2>7, NothingHeld DEF AttachFail, Slots, kms, StopOrder, SlotsInUse
  <2>8. QED BY <1>3, <2>1, <2>2, <2>3, <2>4, <2>5, <2>6, <2>7
            DEF FrameThread, FrameRuns
<1>4. CASE DisplayThread
  <2>1. CASE DisplayExit \/ DisplaySleep \/ SpuriousWakeup
    BY <2>1 DEF DisplayExit, DisplaySleep, SpuriousWakeup, kms
  <2>2. CASE DisplayTake
    BY <2>2 DEF TypeOK, DisplayTake, Slots, kms
  <2>3. CASE Commit
    BY <2>3 DEF TypeOK, Commit, Slots, SlotsInUse, StopOrder
  <2>4. CASE CommitFail \/ ReleasePrevious
    BY <2>4 DEF TypeOK, CommitFail, ReleasePrevious, Slots, kms
  <2>5. CASE VBlankDone
    BY <2>5 DEF TypeOK, VBlankDone, Slots, kms, StopOrder
  <2>6. CASE VBlankFail
    BY <2>6 DEF TypeOK, VBlankFail, Slots, kms, StopOrder
  <2>7. QED BY <1>4, <2>1, <2>2, <2>3, <2>4, <2>5, <2>6 DEF DisplayThread, DisplayRuns
<1>5. CASE Cleanup
  <2>1. CASE ReleaseMailbox
    BY <2>1 DEF TypeOK, ReleaseMailbox, Slots, kms
  <2>2. CASE JoinFrame
    BY <2>2 DEF JoinFrame, kms
  <2>3. CASE BeginCleanup \/ ResetDecoder
    BY <2>3 DEF BeginCleanup, ResetDecoder, kms
  <2>4. CASE DisablePlane
    BY <2>4 DEF DisablePlane, kms
  <2>5. CASE OffWait
    BY <2>5 DEF OffWait, kms
  <2>6. CASE DisableFail
    BY <2>6 DEF DisableFail
  <2>7. QED BY <1>5, <2>1, <2>2, <2>3, <2>4, <2>5, <2>6 DEF Cleanup
<1>6. CASE VBlank
  BY <1>6 DEF VBlank
<1>7. CASE StopStream
  BY <1>7 DEF StopStream, kms
<1>8. CASE UNCHANGED vars
  BY <1>8 DEF vars, kms
<1>9. QED BY <1>1, <1>2, <1>3, <1>4, <1>5, <1>6, <1>7, <1>8 DEF Next, Stopped

\* The two ways the plane can be left scanning out when rk_cleanup releases.
PlaneTurnsOff == Faults \intersect {"disable", "offwait"} = {}

LEMMA PlaneOffNext ==
  ASSUME PlaneTurnsOff, TypeOK, StopOrder, PlaneOwned, PlaneOff, [Next]_vars
  PROVE  PlaneOff'
<1> USE ConstantsOK DEF PlaneOff, Closing, StopOrder
<1>1. CASE ReceiveThread \/ Mpp
  BY <1>1 DEF ReceiveThread, SubmitUnit, PutPacket, Mpp, AnnounceFormat, DecodeNothing,
              Decode, kms
<1>2. CASE FrameThread
  BY <1>2 DEF FrameThread, FrameRuns, FrameLoop, EnterGet, AttachGroup, AttachFail,
              RefuseFormat, GetEmptyFrame, GetError,
              GetNothing, RotateFrame, RotateFail, QueueFrame, ReleaseReplaced, GetFrame
<1>3. CASE DisplayThread
  BY <1>3 DEF DisplayThread, DisplayRuns, DisplayExit, DisplaySleep, SpuriousWakeup,
              DisplayTake, Commit, CommitFail, VBlankDone, ReleasePrevious, VBlankFail
<1>4. CASE Cleanup
  <2>1. CASE DisablePlane
    BY <2>1 DEF DisablePlane, PlaneOwned
  <2>2. CASE OffWait
    BY <2>2 DEF OffWait, kms, PlaneTurnsOff
  <2>3. CASE DisableFail
    BY <2>3 DEF DisableFail, PlaneTurnsOff
  <2>4. CASE BeginCleanup \/ ResetDecoder \/ JoinFrame \/ ReleaseMailbox
    BY <2>4 DEF BeginCleanup, ResetDecoder, JoinFrame, ReleaseMailbox, kms
  <2>5. QED BY <1>4, <2>1, <2>2, <2>3, <2>4 DEF Cleanup
<1>5. CASE VBlank
  BY <1>5 DEF VBlank
<1>6. CASE StopStream \/ UNCHANGED vars
  BY <1>6 DEF StopStream, vars, kms
<1>7. QED BY <1>1, <1>2, <1>3, <1>4, <1>5, <1>6 DEF Next, Stopped

-----------------------------------------------------------------------------
(* Ownership of the buffers.                                               *)

LEMMA OwnerNext ==
  ASSUME TypeOK, StopOrder, SlotsInUse, SoleOwner, [Next]_vars
  PROVE  SoleOwner'
<1> USE ConstantsOK DEF SoleOwner, Held
<1>1. CASE ReceiveThread
  BY <1>1 DEF ReceiveThread, SubmitUnit, PutPacket, mpp
<1>2. CASE Mpp
  BY <1>2 DEF Mpp, AnnounceFormat, DecodeNothing, Decode, mpp
<1>3. CASE FrameThread
  <2>1. CASE FrameLoop \/ EnterGet \/ GetError \/ GetNothing \/ RotateFrame
    BY <2>1 DEF FrameLoop, EnterGet, GetError, GetNothing, RotateFrame, mpp
  <2>2. CASE AttachGroup \/ RefuseFormat
    BY <2>2 DEF AttachGroup, RefuseFormat
  <2>3. CASE RotateFail
    BY <2>3 DEF TypeOK, RotateFail, Release, Slots, mpp
  <2>4. CASE QueueFrame
    BY <2>4 DEF TypeOK, QueueFrame, Slots, SlotsInUse, mpp
  <2>5. CASE ReleaseReplaced
    BY <2>5 DEF TypeOK, ReleaseReplaced, Release, Slots, mpp
  <2>6. CASE \E b \in Buffers : GetFrame(b)
    BY <2>6 DEF TypeOK, GetFrame, Slots, SlotsInUse
  <2>7. CASE GetEmptyFrame
    BY <2>7 DEF GetEmptyFrame
  <2>8. CASE AttachFail
    BY <2>8 DEF AttachFail, mpp
  <2>9. QED BY <1>3, <2>1, <2>2, <2>3, <2>4, <2>5, <2>6, <2>7, <2>8
            DEF FrameThread, FrameRuns
<1>4. CASE DisplayThread
  <2>1. CASE DisplayExit \/ DisplaySleep \/ SpuriousWakeup \/ Commit
    BY <2>1 DEF DisplayExit, DisplaySleep, SpuriousWakeup, Commit, mpp
  <2>2. CASE DisplayTake
    BY <2>2 DEF TypeOK, DisplayTake, Slots, SlotsInUse, mpp
  <2>3. CASE CommitFail
    BY <2>3 DEF TypeOK, CommitFail, Release, Slots, mpp
  <2>4. CASE ReleasePrevious
    BY <2>4 DEF TypeOK, ReleasePrevious, Release, Slots, mpp
  <2>5. CASE VBlankDone
    BY <2>5 DEF TypeOK, VBlankDone, Slots, SlotsInUse, mpp
  <2>6. CASE VBlankFail
    BY <2>6 DEF TypeOK, VBlankFail, Release, Slots, SlotsInUse, mpp
  <2>7. QED BY <1>4, <2>1, <2>2, <2>3, <2>4, <2>5, <2>6 DEF DisplayThread, DisplayRuns
<1>5. CASE Cleanup
  <2>1. CASE ReleaseMailbox
    BY <2>1 DEF TypeOK, ReleaseMailbox, Release, Slots, mpp
  <2>2. CASE ResetDecoder
    BY <2>2 DEF TypeOK, ResetDecoder, Release
  <2>3. CASE Cleanup /\ ~ReleaseMailbox /\ ~ResetDecoder
    BY <2>3 DEF Cleanup, BeginCleanup, JoinFrame, DisablePlane, DisableFail,
                OffWait, mpp
  <2>4. QED BY <1>5, <2>1, <2>2, <2>3
<1>6. CASE VBlank \/ StopStream
  BY <1>6 DEF VBlank, StopStream, mpp
<1>7. CASE UNCHANGED vars
  BY <1>7 DEF vars, mpp
<1>8. QED BY <1>1, <1>2, <1>3, <1>4, <1>5, <1>6, <1>7 DEF Next, Stopped

-----------------------------------------------------------------------------
(* The order of the pictures.                                              *)

LEMMA OrderOfPictures ==
  ASSUME TypeOK, StopOrder, SlotsInUse, SoleOwner, PictureOrder, [Next]_vars
  PROVE  PictureOrder'
<1> USE ConstantsOK DEF PictureOrder, Newer, Copied
<1>1. CASE ReceiveThread
  BY <1>1 DEF ReceiveThread, SubmitUnit, PutPacket, mpp
<1>2. CASE Mpp
  <2>1. CASE AnnounceFormat \/ DecodeNothing
    BY <2>1 DEF AnnounceFormat, DecodeNothing
  <2>2. ASSUME NEW b \in Buffers, Decode(b) PROVE PictureOrder'
    BY <2>2 DEF TypeOK, Decode, SoleOwner, Held, Slots
  <2>3. QED BY <1>2, <2>1, <2>2 DEF Mpp
<1>3. CASE FrameThread
  <2>1. CASE FrameLoop \/ EnterGet \/ AttachGroup \/ RefuseFormat \/ GetError
            \/ GetNothing
    BY <2>1 DEF FrameLoop, EnterGet, AttachGroup, RefuseFormat, GetError, GetNothing, mpp
  <2>2. CASE RotateFrame
    BY <2>2 DEF TypeOK, RotateFrame, SoleOwner, Slots, mpp
  <2>3. CASE RotateFail
    BY <2>3 DEF TypeOK, RotateFail, Slots, mpp
  <2>4. CASE QueueFrame
    BY <2>4 DEF TypeOK, QueueFrame, Slots, mpp
  <2>5. CASE ReleaseReplaced
    BY <2>5 DEF TypeOK, ReleaseReplaced, Slots, mpp
  <2>6. ASSUME NEW b \in Buffers, GetFrame(b) PROVE PictureOrder'
    BY <2>6 DEF TypeOK, GetFrame, SlotsInUse, Slots
  <2>7. CASE GetEmptyFrame
    BY <2>7 DEF GetEmptyFrame
  <2>8. CASE AttachFail
    BY <2>8 DEF AttachFail, mpp
  <2>9. QED BY <1>3, <2>1, <2>2, <2>3, <2>4, <2>5, <2>6, <2>7, <2>8
            DEF FrameThread, FrameRuns
<1>4. CASE DisplayThread
  <2>1. CASE DisplayExit \/ DisplaySleep \/ SpuriousWakeup \/ Commit
    BY <2>1 DEF DisplayExit, DisplaySleep, SpuriousWakeup, Commit, mpp
  <2>2. CASE DisplayTake
    BY <2>2 DEF TypeOK, DisplayTake, Slots, mpp
  <2>3. CASE CommitFail
    BY <2>3 DEF TypeOK, CommitFail, Slots, mpp
  <2>4. CASE ReleasePrevious
    BY <2>4 DEF TypeOK, ReleasePrevious, Slots, mpp
  <2>5. CASE VBlankDone
    BY <2>5 DEF TypeOK, VBlankDone, Slots, SlotsInUse, mpp
  <2>6. CASE VBlankFail
    BY <2>6 DEF TypeOK, VBlankFail, Slots, mpp
  <2>7. QED BY <1>4, <2>1, <2>2, <2>3, <2>4, <2>5, <2>6 DEF DisplayThread, DisplayRuns
<1>5. CASE Cleanup
  <2>1. CASE ReleaseMailbox
    BY <2>1 DEF TypeOK, ReleaseMailbox, Slots, mpp
  <2>2. CASE ResetDecoder
    BY <2>2 DEF TypeOK, ResetDecoder
  <2>3. CASE Cleanup /\ ~ReleaseMailbox /\ ~ResetDecoder
    BY <2>3 DEF Cleanup, BeginCleanup, JoinFrame, DisablePlane, DisableFail,
                OffWait, mpp
  <2>4. QED BY <1>5, <2>1, <2>2, <2>3
<1>6. CASE VBlank \/ StopStream
  BY <1>6 DEF VBlank, StopStream, mpp
<1>7. CASE UNCHANGED vars
  BY <1>7 DEF vars, mpp
<1>8. QED BY <1>1, <1>2, <1>3, <1>4, <1>5, <1>6, <1>7 DEF Next, Stopped

-----------------------------------------------------------------------------
(* The invariants as a whole.                                              *)

StreamInv == TypeOK /\ StopOrder /\ SlotsInUse /\ SoleOwner /\ PictureOrder

LEMMA InitHolds == Init => StreamInv /\ PlaneOwned /\ PlaneOff
<1> SUFFICES ASSUME Init PROVE StreamInv /\ PlaneOwned /\ PlaneOff
  OBVIOUS
<1>1. TypeOK
  BY TypeInit
<1>2. \A s \in Slots : slot[s] = NoBuf
  BY DEF Init
<1>3. StopOrder /\ SlotsInUse /\ PlaneOwned /\ PlaneOff
  BY <1>2 DEF Init, StopOrder, SlotsInUse, PlaneOwned, PlaneOff, Closing, Slots
<1>4. SoleOwner
  BY <1>2 DEF Init, SoleOwner, Held
<1>5. PictureOrder
  BY <1>2 DEF Init, PictureOrder, Newer, Copied, Slots
<1>6. QED BY <1>1, <1>3, <1>4, <1>5 DEF StreamInv

LEMMA StreamInvNext == StreamInv /\ [Next]_vars => StreamInv'
BY TypeNext, OrderNext, InUseNext, OwnerNext, OrderOfPictures DEF StreamInv

LEMMA StreamInvHolds == Spec => []StreamInv
BY InitHolds, StreamInvNext, PTL DEF Spec

LEMMA PlaneOwnedHolds == Spec => [](StreamInv /\ PlaneOwned)
<1>1. StreamInv /\ PlaneOwned /\ [Next]_vars => (StreamInv /\ PlaneOwned)'
  BY StreamInvNext, PlaneNext DEF StreamInv
<1>2. QED BY InitHolds, <1>1, PTL DEF Spec

\* No frame is leaked and none is released twice, whatever fails.
THEOREM BuffersHaveSoleOwner == Spec => []SoleOwner
<1>1. StreamInv => SoleOwner
  BY DEF StreamInv
<1>2. QED BY <1>1, StreamInvHolds, PTL

\* What is named four times has at most four elements.
LEMMA FourElements ==
  ASSUME NEW a, NEW b, NEW c, NEW d
  PROVE  IsFiniteSet({a, b, c, d}) /\ Cardinality({a, b, c, d}) \in 0..4
<1>1. IsFiniteSet({a}) /\ Cardinality({a}) = 1
  BY FS_Singleton
<1>2. IsFiniteSet({a} \union {b}) /\ Cardinality({a} \union {b}) \in 1..2
  BY <1>1, FS_AddElement
<1>3. /\ IsFiniteSet(({a} \union {b}) \union {c})
      /\ Cardinality(({a} \union {b}) \union {c}) \in 1..3
  BY <1>2, FS_AddElement
<1>4. /\ IsFiniteSet((({a} \union {b}) \union {c}) \union {d})
      /\ Cardinality((({a} \union {b}) \union {c}) \union {d}) \in 1..4
  BY <1>3, FS_AddElement
<1>5. (({a} \union {b}) \union {c}) \union {d} = {a, b, c, d}
  OBVIOUS
<1> QED BY <1>4, <1>5

\* frame_thread owns one frame at a time, display_thread one besides
\* display_pending and display_current.
LEMMA AtMostFourHeld ==
  ASSUME StreamInv
  PROVE  IsFiniteSet(Held) /\ Cardinality(Held) \in 0..4
<1> DEFINE a == IF slot["frame"] # NoBuf THEN slot["frame"] ELSE slot["replaced"]
           b == IF slot["submitted"] # NoBuf THEN slot["submitted"]
                ELSE IF slot["previous"] # NoBuf THEN slot["previous"] ELSE slot["retired"]
           four == {a, b, slot["pending"], slot["current"]}
<1>1. Held \subseteq four
  BY DEF StreamInv, SlotsInUse, Held, Slots
<1>2. IsFiniteSet(four) /\ Cardinality(four) \in 0..4
  BY FourElements
<1> HIDE DEF four
<1>3. IsFiniteSet(Held) /\ Cardinality(Held) <= Cardinality(four)
  BY <1>1, <1>2, FS_Subset
<1>4. Cardinality(Held) \in Nat
  BY <1>3, FS_CardinalityType
<1> QED BY <1>2, <1>3, <1>4

\* With more than four buffers in the group (MAX_FRAMES is six) MPP always
\* has one to decode into or to hand out, whatever fails.
THEOREM DecoderHasHeadroom == Spec => []DecoderHeadroom
<1>1. StreamInv => DecoderHeadroom
  <2> SUFFICES ASSUME StreamInv, grp = "ready"
               PROVE  Cardinality(free \union ready) + 4 >= Cardinality(Buffers)
    BY DEF DecoderHeadroom
  <2>1. Buffers = (free \union ready) \union Held
    BY DEF StreamInv, SoleOwner
  <2>2. IsFiniteSet(free \union ready)
    BY <2>1, ConstantsOK, FS_Subset
  <2>3. IsFiniteSet(Held) /\ Cardinality(Held) \in 0..4
    BY AtMostFourHeld
  <2>4. (free \union ready) \intersect Held = {}
    BY DEF StreamInv, SoleOwner
  <2>5. Cardinality(Buffers)
          = Cardinality(free \union ready) + Cardinality(Held) - Cardinality({})
    BY <2>1, <2>2, <2>3, <2>4, FS_Union
  <2>6. Cardinality({}) = 0 /\ Cardinality(free \union ready) \in Nat
    BY <2>2, FS_EmptySet, FS_CardinalityType
  <2> QED BY <2>3, <2>5, <2>6
<1>2. QED BY <1>1, StreamInvHolds, PTL

\* rk_cleanup finds every buffer back in the pool.
THEOREM CleanupReturnsEverything == Spec => []CleanupReturnsAll
<1>1. StreamInv => CleanupReturnsAll
  <2> SUFFICES ASSUME StreamInv, cpc = "done" PROVE Held = {} /\ ready = {}
    BY DEF CleanupReturnsAll
  <2>1. fpc = "done" /\ dpc = "done" /\ ready = {}
    BY DEF StreamInv, StopOrder, Closing
  <2>2. \A s \in Slots : slot[s] = NoBuf
    BY <2>1 DEF StreamInv, SlotsInUse, Slots
  <2>3. QED BY <2>1, <2>2 DEF Held
<1>2. QED BY <1>1, StreamInvHolds, PTL

LEMMA OnScreenOwned ==
  StreamInv /\ PlaneOwned /\ (PlaneOff \/ cpc \notin Closing) => FramesOutliveScanout
BY DEF StreamInv, TypeOK, StopOrder, PlaneOwned, PlaneOff, Closing,
       FramesOutliveScanout, OnScreen

\* Whatever fails, a frame the panel shows or is about to show is not given
\* back to the decoder before rk_cleanup has tried to turn the plane off.
THEOREM StreamingScanoutIsHeld == Spec => [](cpc \notin Closing => FramesOutliveScanout)
<1>1. StreamInv /\ PlaneOwned => (cpc \notin Closing => FramesOutliveScanout)
  BY OnScreenOwned
<1>2. QED BY <1>1, PlaneOwnedHolds, PTL

\* As long as the plane can be turned off, a frame the panel shows or is
\* about to show is never given back to the decoder.
THEOREM ScanoutIsHeld == PlaneTurnsOff => (Spec => []FramesOutliveScanout)
<1> SUFFICES ASSUME PlaneTurnsOff PROVE Spec => []FramesOutliveScanout
  OBVIOUS
<1>1. StreamInv /\ PlaneOwned /\ PlaneOff /\ [Next]_vars => PlaneOff'
  BY PlaneOffNext DEF StreamInv
<1>2. QED BY <1>1, InitHolds, PlaneOwnedHolds, OnScreenOwned, PTL DEF Spec

\* Every picture handed to the mailbox is accounted for by the counters.
THEOREM StatsAddUp == Spec => []StatsAccount
<1>1. Init => StatsAccount
  BY DEF Init, StatsAccount, Occupied, Slots
<1>2. StreamInv /\ StatsAccount /\ [Next]_vars => StatsAccount'
  <2> SUFFICES ASSUME StreamInv, StatsAccount, [Next]_vars PROVE StatsAccount'
    OBVIOUS
  <2> USE DEF StreamInv, TypeOK, Stats, StatsAccount, Occupied
  <2>1. CASE ReceiveThread
    BY <2>1 DEF ReceiveThread, SubmitUnit, PutPacket
  <2>2. CASE Mpp
    BY <2>2 DEF Mpp, AnnounceFormat, DecodeNothing, Decode
  <2>3. CASE FrameThread
    <3>1. CASE QueueFrame
      BY <3>1 DEF QueueFrame, SlotsInUse, Slots, StopOrder, Closing
    <3>2. CASE RotateFail \/ ReleaseReplaced \/ \E b \in Buffers : GetFrame(b)
      BY <3>2 DEF RotateFail, ReleaseReplaced, GetFrame, Slots
    <3>3. CASE FrameLoop \/ EnterGet \/ AttachGroup \/ RefuseFormat \/ GetError
            \/ GetNothing
               \/ RotateFrame
      BY <3>3 DEF FrameLoop, EnterGet, AttachGroup, RefuseFormat, GetError, GetNothing,
                  RotateFrame
    <3>4. CASE GetEmptyFrame \/ AttachFail
      BY <3>4 DEF GetEmptyFrame, AttachFail, StopOrder, Closing
    <3>5. QED BY <2>3, <3>1, <3>2, <3>3, <3>4 DEF FrameThread, FrameRuns
  <2>4. CASE DisplayThread
    <3>1. CASE DisplayTake
      BY <3>1 DEF DisplayTake, SlotsInUse, Slots
    <3>2. CASE CommitFail
      BY <3>2 DEF CommitFail, SlotsInUse, Slots
    <3>3. CASE VBlankDone
      BY <3>3 DEF VBlankDone, SlotsInUse, Slots
    <3>4. CASE VBlankFail
      BY <3>4 DEF VBlankFail, SlotsInUse, Slots
    <3>5. CASE ReleasePrevious
      BY <3>5 DEF ReleasePrevious, Slots
    <3>6. CASE DisplayExit \/ DisplaySleep \/ SpuriousWakeup \/ Commit
      BY <3>6 DEF DisplayExit, DisplaySleep, SpuriousWakeup, Commit
    <3>7. QED BY <2>4, <3>1, <3>2, <3>3, <3>4, <3>5, <3>6 DEF DisplayThread, DisplayRuns
  <2>5. CASE Cleanup
    <3>1. CASE ReleaseMailbox
      BY <3>1 DEF ReleaseMailbox
    <3>2. CASE Cleanup /\ ~ReleaseMailbox
      BY <3>2 DEF Cleanup, BeginCleanup, ResetDecoder, JoinFrame, DisablePlane,
                  DisableFail, OffWait
    <3>3. QED BY <2>5, <3>1, <3>2
  <2>6. CASE VBlank \/ StopStream
    BY <2>6 DEF VBlank, StopStream
  <2>7. CASE UNCHANGED vars
    BY <2>7 DEF vars
  <2>8. QED BY <2>1, <2>2, <2>3, <2>4, <2>5, <2>6, <2>7 DEF Next, Stopped
<1>3. QED BY <1>1, <1>2, StreamInvHolds, PTL DEF Spec
=============================================================================
