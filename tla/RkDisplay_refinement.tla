------------------------ MODULE RkDisplay_refinement ------------------------
(***************************************************************************)
(* Two consequences of picture order: the panel only moves forward, and,   *)
(* if the plane is turned off at the end, the display path is a latest-wins*)
(* mailbox, for any number of buffers and pictures.                        *)
(***************************************************************************)
EXTENDS RkDisplay_proofs

LEMMA PositiveNext ==
  ASSUME TypeOK, SoleOwner, NumbersPositive, [Next]_vars
  PROVE  NumbersPositive'
<1> USE ConstantsOK DEF NumbersPositive
<1>1. CASE ReceiveThread
  BY <1>1 DEF ReceiveThread, SubmitUnit, PutPacket, mpp
<1>2. CASE Mpp
  <2>1. CASE AnnounceFormat \/ DecodeNothing
    BY <2>1 DEF AnnounceFormat, DecodeNothing
  <2>2. ASSUME NEW b \in Buffers, Decode(b) PROVE NumbersPositive'
    BY <2>2 DEF TypeOK, Decode, SoleOwner, Held
  <2>3. QED BY <1>2, <2>1, <2>2 DEF Mpp
<1>3. CASE FrameThread
  <2>1. CASE FrameLoop \/ EnterGet \/ AttachGroup \/ AttachFail \/ RefuseFormat
             \/ GetEmptyFrame \/ GetError \/ GetNothing \/ RotateFrame
    BY <2>1 DEF FrameLoop, EnterGet, AttachGroup, AttachFail, RefuseFormat,
                GetEmptyFrame, GetError, GetNothing, RotateFrame, mpp
  <2>2. CASE RotateFail \/ ReleaseReplaced
    BY <2>2 DEF TypeOK, RotateFail, ReleaseReplaced, Slots, mpp
  <2>3. CASE QueueFrame
    BY <2>3 DEF TypeOK, QueueFrame, Slots, mpp
  <2>4. ASSUME NEW b \in Buffers, GetFrame(b) PROVE NumbersPositive'
    BY <2>4 DEF TypeOK, GetFrame, Slots
  <2>5. QED BY <1>3, <2>1, <2>2, <2>3, <2>4 DEF FrameThread, FrameRuns
<1>4. CASE DisplayThread
  <2>1. CASE DisplayExit \/ DisplaySleep \/ SpuriousWakeup \/ Commit
    BY <2>1 DEF DisplayExit, DisplaySleep, SpuriousWakeup, Commit, mpp
  <2>2. CASE DisplayTake \/ CommitFail \/ ReleasePrevious
    BY <2>2 DEF TypeOK, DisplayTake, CommitFail, ReleasePrevious, Slots, mpp
  <2>3. CASE VBlankDone
    BY <2>3 DEF TypeOK, VBlankDone, Slots, mpp
  <2>4. CASE VBlankFail
    BY <2>4 DEF TypeOK, VBlankFail, Slots, mpp
  <2>5. QED BY <1>4, <2>1, <2>2, <2>3, <2>4 DEF DisplayThread, DisplayRuns
<1>5. CASE Cleanup
  BY <1>5 DEF TypeOK, Cleanup, BeginCleanup, ResetDecoder, JoinFrame,
              DisablePlane, DisableFail, OffWait, ReleaseMailbox, Slots, mpp
<1>6. CASE VBlank \/ StopStream \/ UNCHANGED vars
  BY <1>6 DEF VBlank, StopStream, vars, mpp
<1>7. QED BY <1>1, <1>2, <1>3, <1>4, <1>5, <1>6 DEF Next, Stopped

LEMMA NumberingNext ==
  ASSUME StreamInv, Numbering, [Next]_vars
  PROVE  Numbering'
<1> USE ConstantsOK DEF StreamInv, TypeOK, Numbering, Occupied
<1>1. CASE ReceiveThread
  BY <1>1 DEF ReceiveThread, SubmitUnit, PutPacket, mpp
<1>2. CASE Mpp
  <2>1. CASE AnnounceFormat \/ DecodeNothing
    BY <2>1 DEF AnnounceFormat, DecodeNothing
  <2>2. ASSUME NEW b \in Buffers, Decode(b) PROVE Numbering'
    <3>1. /\ slot["frame"] # b /\ b \notin ready
          /\ ready' = ready \union {b} /\ pics' = pics + 1
          /\ pic' = [pic EXCEPT ![b] = pics + 1]
          /\ UNCHANGED <<slot, stats, fpc, eos, cpc>>
      BY <2>2 DEF Decode, SoleOwner, Held, Slots
    <3>2. \A k \in 1..pics' : k \in 1..pics \/ k = pics + 1
      BY <3>1
    <3>3. stats.decoded \in Nat /\ \A c \in Buffers : pic[c] <= pics
      BY DEF PictureOrder, Stats
    <3>4. slot["frame"] # NoBuf => slot["frame"] \in Buffers
      BY DEF Slots
    <3>5. QED BY <3>1, <3>2, <3>3, <3>4
  <2>3. QED BY <1>2, <2>1, <2>2 DEF Mpp
<1>3. CASE FrameThread
  <2>1. CASE FrameLoop \/ EnterGet
    BY <2>1 DEF FrameLoop, EnterGet, mpp
  <2>2. CASE AttachGroup \/ AttachFail \/ RefuseFormat \/ GetEmptyFrame
    BY <2>2 DEF AttachGroup, AttachFail, RefuseFormat, GetEmptyFrame, mpp
  <2>3. CASE GetError \/ GetNothing \/ RotateFrame \/ RotateFail
    BY <2>3 DEF GetError, GetNothing, RotateFrame, RotateFail, mpp
  <2>4. CASE QueueFrame
    BY <2>4 DEF QueueFrame, Slots, SlotsInUse, Stats, mpp
  <2>5. CASE ReleaseReplaced
    BY <2>5 DEF ReleaseReplaced, Slots, mpp
  <2>6. ASSUME NEW b \in Buffers, GetFrame(b) PROVE Numbering'
    <3>1. /\ slot["frame"] = NoBuf /\ b \in ready /\ \A c \in ready : pic[b] <= pic[c]
          /\ ready' = ready \ {b} /\ slot'["frame"] = b
          /\ UNCHANGED <<pics, pic, stats, eos, cpc>>
          /\ fpc = "get" /\ fpc' \in {"rotate", "queue"}
      BY <2>6 DEF GetFrame, Slots, SlotsInUse
    <3>2. stats.decoded \in Nat /\ pic[b] \in Nat /\ pic[b] <= pics
      BY DEF PictureOrder, Stats
    <3>3. \A c \in ready : c # b => pic[c] # pic[b]
      BY <3>1 DEF PictureOrder
    <3>4. pic[b] = stats.decoded + 1
      BY <3>1, <3>2 DEF StopOrder
    <3>5. QED BY <3>1, <3>2, <3>3, <3>4
  <2>7. QED BY <1>3, <2>1, <2>2, <2>3, <2>4, <2>5, <2>6 DEF FrameThread, FrameRuns
<1>4. CASE DisplayThread
  <2>1. CASE DisplayExit \/ DisplaySleep \/ SpuriousWakeup \/ Commit
    BY <2>1 DEF DisplayExit, DisplaySleep, SpuriousWakeup, Commit, mpp
  <2>2. CASE DisplayTake \/ ReleasePrevious
    BY <2>2 DEF DisplayTake, ReleasePrevious, Slots, mpp
  <2>3. CASE CommitFail
    BY <2>3 DEF CommitFail, Slots, Stats, mpp
  <2>4. CASE VBlankDone
    BY <2>4 DEF VBlankDone, Slots, Stats, mpp
  <2>5. CASE VBlankFail
    BY <2>5 DEF VBlankFail, Slots, Stats, mpp
  <2>6. QED BY <1>4, <2>1, <2>2, <2>3, <2>4, <2>5 DEF DisplayThread, DisplayRuns
<1>5. CASE Cleanup
  BY <1>5 DEF Cleanup, BeginCleanup, ResetDecoder, JoinFrame, DisablePlane,
              DisableFail, OffWait, ReleaseMailbox, Slots, StopOrder, Closing, mpp
<1>6. CASE VBlank \/ StopStream \/ UNCHANGED vars
  BY <1>6 DEF VBlank, StopStream, vars, mpp
<1>7. QED BY <1>1, <1>2, <1>3, <1>4, <1>5, <1>6 DEF Next, Stopped

-----------------------------------------------------------------------------
(* The panel.  What the plane was last given is newer than what the panel  *)
(* still shows.  While the stream runs this follows from who owns the      *)
(* pictures; from then on nobody writes pictures any more.                 *)

LatchedNewer ==
  front # NoBuf /\ latched # NoBuf /\ front # latched => Shown(latched) > Shown(front)

PanelInv == StreamInv /\ PlaneOwned /\ LatchedNewer

\* A buffer the panel shows is not the one frame_thread is working on and
\* is not free.
LEMMA FrontIsHeld ==
  ASSUME StreamInv, PlaneOwned, front # NoBuf, cpc \notin Closing
  PROVE  front \notin free /\ front # slot["frame"]
BY DEF StreamInv, TypeOK, PlaneOwned, SoleOwner, Held, Slots, SlotsInUse

LEMMA LatchedIsNewer ==
  StreamInv /\ PlaneOwned /\ cpc \notin Closing => LatchedNewer
<1> SUFFICES ASSUME StreamInv, PlaneOwned, cpc \notin Closing, front # NoBuf,
                    latched # NoBuf, front # latched
             PROVE  Shown(latched) > Shown(front)
  BY DEF LatchedNewer
<1>1. pic[latched] > pic[front]
  BY DEF StreamInv, PlaneOwned, PictureOrder, Newer
<1>2. Rotation => dest[latched] = pic[latched] /\ dest[front] = pic[front]
  BY DEF StreamInv, PlaneOwned, PictureOrder, Copied
<1>3. QED BY <1>1, <1>2 DEF Shown

\* Once the receive thread, frame_thread and display_thread have ended, no
\* picture is written and the plane is given no other one.
LEMMA ClosingIsStill ==
  ASSUME StreamInv, Next, cpc' \in Closing
  PROVE  /\ pic' = pic /\ dest' = dest
         /\ latched' \in {latched, NoBuf} /\ front' \in {front, latched}
<1> USE DEF StreamInv, StopOrder, Closing, mpp, kms
<1>1. CASE ReceiveThread
  BY <1>1 DEF ReceiveThread, SubmitUnit, PutPacket
<1>2. CASE Mpp
  BY <1>2 DEF Mpp, AnnounceFormat, DecodeNothing, Decode
<1>3. CASE FrameThread
  BY <1>3 DEF FrameThread, FrameRuns, FrameLoop, EnterGet, AttachGroup, AttachFail,
              RefuseFormat, GetEmptyFrame, GetError,
              GetNothing, RotateFrame, RotateFail, QueueFrame, ReleaseReplaced, GetFrame
<1>4. CASE DisplayThread
  BY <1>4 DEF DisplayThread, DisplayRuns, DisplayExit, DisplaySleep, SpuriousWakeup,
              DisplayTake, Commit, CommitFail, VBlankDone, ReleasePrevious, VBlankFail
<1>5. CASE VBlank
  BY <1>5 DEF VBlank
<1>6. CASE StopStream \/ Stopped
  BY <1>6 DEF StopStream, Stopped, vars
<1>7. CASE Cleanup
  BY <1>7 DEF Cleanup, BeginCleanup, ResetDecoder, JoinFrame, DisablePlane,
              DisableFail, OffWait, ReleaseMailbox
<1>8. QED BY <1>1, <1>2, <1>3, <1>4, <1>5, <1>6, <1>7 DEF Next

LEMMA PanelInvNext == PanelInv /\ [Next]_vars => PanelInv'
<1> SUFFICES ASSUME PanelInv, [Next]_vars PROVE PanelInv'
  OBVIOUS
<1>1. (StreamInv /\ PlaneOwned)'
  BY StreamInvNext, PlaneNext DEF PanelInv, StreamInv
<1>2. CASE (cpc \notin Closing)'
  <2>1. LatchedNewer'
    BY <1>1, <1>2, LatchedIsNewer, PTL
  <2>2. QED BY <1>1, <2>1 DEF PanelInv
<1>3. CASE Next /\ cpc' \in Closing
  <2>1. LatchedNewer'
    BY <1>3, ClosingIsStill DEF PanelInv, LatchedNewer, Shown
  <2>2. QED BY <1>1, <2>1 DEF PanelInv
<1>4. CASE UNCHANGED vars
  <2>1. LatchedNewer'
    BY <1>4 DEF PanelInv, LatchedNewer, Shown, vars, mpp, kms
  <2>2. QED BY <1>1, <2>1 DEF PanelInv
<1>5. QED BY <1>2, <1>3, <1>4 DEF Closing

LEMMA PanelStep == PanelInv /\ [Next]_vars => [ScreenStep]_vars
<1> SUFFICES ASSUME PanelInv, Next, front # NoBuf, front' # NoBuf
             PROVE  \/ front' = front /\ Shown(front)' = Shown(front)
                    \/ front' # front /\ Shown(front)' > Shown(front)
  BY DEF ScreenStep
<1> USE DEF Shown
<1>1. CASE VBlank
  BY <1>1 DEF VBlank, mpp, PanelInv, LatchedNewer
<1>2. ASSUME NEW b \in Buffers, Decode(b)
      PROVE  front' = front /\ Shown(front)' = Shown(front)
  <2>1. front # b
    BY <1>2, FrontIsHeld DEF Decode, PanelInv, StreamInv, StopOrder, Closing
  <2>2. QED BY <1>2, <2>1 DEF Decode, kms, PanelInv, StreamInv, TypeOK
<1>3. CASE RotateFrame
  <2>1. front # slot["frame"]
    BY <1>3, FrontIsHeld DEF RotateFrame, PanelInv, StreamInv, StopOrder
  <2>2. QED BY <1>3, <2>1 DEF RotateFrame, kms, mpp, PanelInv, StreamInv, TypeOK
<1>4. CASE Next /\ ~VBlank /\ ~RotateFrame /\ \A b \in Buffers : ~Decode(b)
  <2>1. pic' = pic /\ dest' = dest /\ front' = front
    <3>1. CASE ReceiveThread
      BY <3>1 DEF ReceiveThread, SubmitUnit, PutPacket, mpp, kms
    <3>2. CASE Mpp
      BY <1>4, <3>2 DEF Mpp, AnnounceFormat, DecodeNothing, mpp, kms
    <3>3. CASE FrameThread
      BY <1>4, <3>3 DEF FrameThread, FrameRuns, FrameLoop, EnterGet, AttachGroup, AttachFail,
              RefuseFormat, GetEmptyFrame, GetError,
                        GetNothing, RotateFail, QueueFrame, ReleaseReplaced,
                        GetFrame, mpp, kms
    <3>4. CASE DisplayThread
      BY <3>4 DEF DisplayThread, DisplayRuns, DisplayExit, DisplaySleep, SpuriousWakeup,
                  DisplayTake, Commit, CommitFail, VBlankDone, ReleasePrevious,
                  VBlankFail, mpp, kms
    <3>5. CASE Cleanup
      BY <3>5 DEF Cleanup, BeginCleanup, ResetDecoder, JoinFrame, DisablePlane,
                  DisableFail, OffWait, ReleaseMailbox, mpp, kms
    <3>6. CASE StopStream \/ Stopped
      BY <3>6 DEF StopStream, Stopped, vars, mpp, kms
    <3>7. QED BY <1>4, <3>1, <3>2, <3>3, <3>4, <3>5, <3>6 DEF Next
  <2>2. QED BY <2>1
<1>5. QED BY <1>1, <1>2, <1>3, <1>4

\* Whatever fails, what the panel shows changes only by going to a newer
\* picture or to black: no picture is overwritten while it is on screen and
\* none comes back, not even when rk_cleanup cannot turn the plane off.
THEOREM PanelMovesForward == Spec => ScreenMovesForward
<1>1. Init => PanelInv
  BY InitHolds DEF Init, PanelInv, LatchedNewer
<1>2. QED BY <1>1, PanelInvNext, PanelStep, PTL DEF Spec, ScreenMovesForward

-----------------------------------------------------------------------------
PlaneInv == StreamInv /\ PlaneOwned /\ PlaneOff /\ NumbersPositive /\ Numbering

LEMMA PlaneInvInit == Init => PlaneInv
<1> SUFFICES ASSUME Init PROVE PlaneInv
  OBVIOUS
<1>1. \A s \in Slots : slot[s] = NoBuf
  BY DEF Init
<1>2. NumbersPositive
  BY <1>1 DEF Init, NumbersPositive
<1>3. Numbering
  BY <1>1 DEF Init, Numbering, Occupied, Slots
<1>4. QED BY <1>2, <1>3, InitHolds DEF PlaneInv

LEMMA PlaneInvNext == PlaneTurnsOff /\ PlaneInv /\ [Next]_vars => PlaneInv'
BY StreamInvNext, PlaneNext, PlaneOffNext, PositiveNext, NumberingNext
DEF PlaneInv, StreamInv

-----------------------------------------------------------------------------
(* The mailbox.                                                            *)

Box == IF Open THEN PictureIn(slot["pending"]) ELSE 0
Hand == IF ~Open \/ InHand = front THEN 0 ELSE PictureIn(InHand)
MailboxVars == <<stats.decoded, Box, Hand, PictureIn(front), Open>>

\* What the invariants say of the pictures the mailbox talks about.
LEMMA PictureFacts ==
  ASSUME PlaneInv
  PROVE  /\ \A s \in Slots : slot[s] \in Buffers \union {NoBuf}
         /\ \A b \in Buffers : pic[b] \in Nat /\ dest[b] \in Nat
         /\ stats \in Stats
         /\ NoBuf \notin Buffers
         /\ \A s \in {"pending", "submitted", "current", "retired"} :
              slot[s] # NoBuf => Shown(slot[s]) = pic[slot[s]] /\ pic[slot[s]] > 0
BY ConstantsOK DEF PlaneInv, StreamInv, TypeOK, PictureOrder, Copied,
                   NumbersPositive, Shown, Slots

\* A step that leaves the panel, the mailbox and the taken picture alone.
LEMMA SameMailbox ==
  ASSUME UNCHANGED <<front, stats.decoded, Open, InHand>>,
         Open => slot'["pending"] = slot["pending"],
         \A b \in OnScreen \union {slot["pending"], slot["submitted"]} :
            b # NoBuf => Shown(b)' = Shown(b)
  PROVE  UNCHANGED MailboxVars
<1>1. PictureIn(front)' = PictureIn(front)
  BY DEF PictureIn, OnScreen
<1>2. Box' = Box
  BY DEF Box, PictureIn
<1>3. Hand' = Hand
  BY DEF Hand, PictureIn, InHand, OnScreen
<1>4. QED BY <1>1, <1>2, <1>3 DEF MailboxVars

LEMMA MailboxStep ==
  ASSUME PlaneTurnsOff, PlaneInv, [Next]_vars
  PROVE  [Mailbox!Next]_(Mailbox!vars)
<1> USE PictureFacts DEF Closing
<1> DEFINE Same == UNCHANGED MailboxVars
<1>0. Same => [Mailbox!Next]_(Mailbox!vars)
  BY DEF MailboxVars, Mailbox!vars, Box, Hand
<1>1. CASE ReceiveThread
  <2>1. Same
    BY <1>1, SameMailbox DEF ReceiveThread, SubmitUnit, PutPacket, mpp, kms, Open,
                             InHand, Shown
  <2>2. QED BY <1>0, <2>1
<1>2. CASE Mpp
  <2>1. CASE AnnounceFormat \/ DecodeNothing
    BY <2>1, SameMailbox, <1>0 DEF AnnounceFormat, DecodeNothing, kms, Open, InHand,
                                   Shown
  <2>2. ASSUME NEW b \in Buffers, Decode(b) PROVE Same
    <3>1. b \notin OnScreen \union {slot["pending"], slot["submitted"]}
      BY <2>2 DEF Decode, PlaneInv, StreamInv, TypeOK, SoleOwner, Held, Slots,
                  PlaneOwned, StopOrder, OnScreen
    <3>2. QED BY <2>2, <3>1, SameMailbox DEF Decode, kms, Open, InHand, Shown,
                                             PlaneInv, StreamInv, TypeOK
  <2>3. QED BY <1>0, <1>2, <2>1, <2>2 DEF Mpp
<1>3. CASE FrameThread
  <2>1. CASE FrameLoop \/ EnterGet \/ AttachGroup \/ AttachFail \/ RefuseFormat
             \/ GetEmptyFrame \/ GetError \/ GetNothing
    BY <2>1, SameMailbox, <1>0
       DEF FrameLoop, EnterGet, AttachGroup, AttachFail, RefuseFormat, GetEmptyFrame,
           GetError, GetNothing, mpp, kms, Open, InHand, Shown, PlaneInv, StreamInv,
           StopOrder
  <2>2. CASE RotateFrame
    <3>1. slot["frame"] \notin OnScreen \union {slot["pending"], slot["submitted"]}
      BY <2>2 DEF RotateFrame, PlaneInv, StreamInv, TypeOK, SoleOwner, Slots,
                  SlotsInUse, PlaneOwned, StopOrder, OnScreen
    <3>2. QED BY <2>2, <3>1, SameMailbox, <1>0
              DEF RotateFrame, mpp, kms, Open, InHand, Shown, PlaneInv, StreamInv,
                  TypeOK, PlaneOwned, OnScreen, Slots
  <2>3. CASE RotateFail \/ ReleaseReplaced
    BY <2>3, SameMailbox, <1>0 DEF RotateFail, ReleaseReplaced, mpp, kms, Open,
                                   InHand, Shown, PlaneInv, StreamInv, TypeOK, Slots
  <2>4. CASE QueueFrame
    <3>1. Open /\ Open' /\ stats'.decoded = stats.decoded + 1
      BY <2>4 DEF QueueFrame, Open, PlaneInv, StreamInv, StopOrder, Stats
    <3>2. Box' = stats.decoded + 1
      BY <2>4, <3>1 DEF QueueFrame, Box, PictureIn, Shown, PlaneInv, StreamInv,
             TypeOK, Numbering, PictureOrder, Copied, SlotsInUse, Slots, mpp
    <3>3. Hand' = Hand /\ PictureIn(front)' = PictureIn(front)
      BY <2>4, <3>1 DEF QueueFrame, Hand, InHand, PictureIn, Shown, PlaneInv,
             StreamInv, TypeOK, Slots, mpp, kms
    <3>4. QED BY <3>1, <3>2, <3>3 DEF Mailbox!Next, Mailbox!Offer, Box, Hand
  <2>5. CASE \E b \in Buffers : GetFrame(b)
    BY <2>5, SameMailbox, <1>0 DEF GetFrame, kms, Open, InHand, Shown, PlaneInv,
                                   StreamInv, TypeOK, Slots
  <2>6. QED BY <1>3, <2>1, <2>2, <2>3, <2>4, <2>5 DEF FrameThread, FrameRuns
<1>4. CASE DisplayThread
  <2>1. CASE DisplayExit \/ DisplaySleep \/ SpuriousWakeup
    BY <2>1, SameMailbox, <1>0 DEF DisplayExit, DisplaySleep, SpuriousWakeup, mpp,
                                   kms, Open, InHand, Shown
  <2>2. CASE DisplayTake
    <3>1. Open /\ Open' /\ Hand = 0 /\ Box # 0
      BY <2>2 DEF DisplayTake, Open, Hand, InHand, Box, PictureIn, PlaneInv,
                  StreamInv, StopOrder, SlotsInUse, PlaneOwned
    <3>2. Hand' = Box /\ Box' = 0
      BY <2>2, <3>1 DEF DisplayTake, Hand, InHand, Box, PictureIn, Shown, PlaneInv,
             StreamInv, TypeOK, Slots, SoleOwner, SlotsInUse, PlaneOwned, Open, mpp, kms
    <3>3. PictureIn(front)' = PictureIn(front) /\ stats'.decoded = stats.decoded
      BY <2>2 DEF DisplayTake, PictureIn, Shown, mpp, kms
    <3>4. QED BY <3>1, <3>2, <3>3 DEF Mailbox!Next, Mailbox!Take, Box, Hand
  <2>3. CASE Commit
    <3>1. InHand' = InHand
      BY <2>3 DEF Commit, InHand, PlaneInv, StreamInv, SlotsInUse
    <3>2. PictureIn(front)' = PictureIn(front) /\ Box' = Box /\ Hand' = Hand
      BY <2>3, <3>1 DEF Commit, PictureIn, Box, Hand, Shown, Open, mpp
    <3>3. QED BY <2>3, <3>2, <1>0 DEF Commit, MailboxVars, Open
  <2>4. CASE CommitFail
    <3>1. Open /\ Open' /\ Hand # 0 /\ Hand' = 0
      BY <2>4 DEF CommitFail, Open, Hand, InHand, PictureIn, PlaneInv, StreamInv,
             TypeOK, StopOrder, SlotsInUse, PlaneOwned, SoleOwner, Slots, kms
    <3>2. Box' = Box /\ PictureIn(front)' = PictureIn(front)
      BY <2>4, <3>1 DEF CommitFail, Box, PictureIn, Shown, PlaneInv, StreamInv,
             TypeOK, Slots, mpp, kms
    <3>3. stats'.decoded = stats.decoded
      BY <2>4 DEF CommitFail, Stats
    <3>4. QED BY <3>1, <3>2, <3>3 DEF Mailbox!Next, Mailbox!Refuse, Box, Hand
  <2>5. CASE ReleasePrevious
    BY <2>5, SameMailbox, <1>0 DEF ReleasePrevious, mpp, kms, Open, InHand, Shown,
                                   PlaneInv, StreamInv, TypeOK, Slots
  <2>6. CASE VBlankDone \/ VBlankFail
    <3>1. Open /\ Open' /\ stats'.decoded = stats.decoded
      BY <2>6 DEF VBlankDone, VBlankFail, Open, PlaneInv, StreamInv, StopOrder, Stats
    <3>2. InHand' = InHand
      BY <2>6 DEF VBlankDone, VBlankFail, InHand, PlaneInv, StreamInv, TypeOK, Slots,
                  StopOrder, SlotsInUse, PlaneOwned, kms
    <3>3. QED BY <2>6, <3>1, <3>2, SameMailbox, <1>0
              DEF VBlankDone, VBlankFail, mpp, kms, Shown, PlaneInv, StreamInv,
                  TypeOK, Slots
  <2>7. QED BY <1>4, <2>1, <2>2, <2>3, <2>4, <2>5, <2>6 DEF DisplayThread, DisplayRuns
<1>5. CASE Cleanup
  <2>1. CASE BeginCleanup \/ ResetDecoder \/ JoinFrame \/ OffWait
    BY <2>1, SameMailbox, <1>0 DEF BeginCleanup, ResetDecoder, JoinFrame, OffWait,
                                   mpp, kms, Open, InHand, Shown
  <2>2. CASE DisablePlane
    BY <2>2 DEF DisablePlane, Mailbox!Next, Mailbox!Close, Open, PictureIn, Shown,
                InHand, mpp
  <2>3. CASE DisableFail
    BY <2>3 DEF DisableFail, PlaneTurnsOff
  <2>4. CASE ReleaseMailbox
    <3>1. ~Open /\ ~Open' /\ stats' = stats /\ PictureIn(front)' = PictureIn(front)
      BY <2>4 DEF ReleaseMailbox, Open, PictureIn, Shown, mpp, kms
    <3>2. Box' = Box /\ Hand' = Hand /\ Open' = Open
      BY <3>1 DEF Box, Hand, Open
    <3>3. QED BY <3>1, <3>2, <1>0 DEF MailboxVars
  <2>5. QED BY <1>5, <2>1, <2>2, <2>3, <2>4 DEF Cleanup
<1>6. CASE VBlank
  <2>1. front' = latched /\ UNCHANGED <<latched, pic, dest, slot, cpc, dpc, stats>>
    BY <1>6 DEF VBlank, mpp
  <2>2. CASE Open
    <3>1. Box' = Box /\ Open' /\ stats'.decoded = stats.decoded
      BY <2>1, <2>2 DEF Box, PictureIn, Shown, Open
    <3>2. InHand = latched \/ front = latched
      BY <2>2 DEF Open, InHand, PlaneInv, StreamInv, SlotsInUse, PlaneOwned
    <3>3. CASE front = latched
      BY <2>1, <2>2, <3>1, <3>3, <1>0
         DEF MailboxVars, Open, Hand, InHand, PictureIn, Shown
    <3>4. CASE front # latched
      <4>1. /\ InHand = latched /\ latched # NoBuf
            /\ PictureIn(latched) > PictureIn(front)
        <5>1. CASE dpc = "vblank"
          <6>1. /\ latched = slot["submitted"] /\ latched # NoBuf
                /\ front = slot["current"]
            BY <2>2, <3>4, <5>1 DEF Open, Closing, PlaneInv, StreamInv, SlotsInUse, PlaneOwned
          <6>2. PictureIn(latched) > PictureIn(front)
            BY <3>4, <6>1, PictureFacts
               DEF PictureIn, PlaneInv, StreamInv, PictureOrder, Newer, Slots
          <6>3. QED BY <3>2, <3>4, <6>1, <6>2
        <5>2. CASE dpc # "vblank"
          <6>1. /\ latched = slot["current"] /\ latched # NoBuf
                /\ front = slot["retired"]
            BY <2>2, <3>4, <5>2 DEF Open, Closing, PlaneInv, StreamInv, SlotsInUse, PlaneOwned
          <6>2. PictureIn(latched) > PictureIn(front)
            BY <3>4, <6>1, PictureFacts
               DEF PictureIn, PlaneInv, StreamInv, PictureOrder, Newer, Slots
          <6>3. QED BY <3>2, <3>4, <6>1, <6>2
        <5>3. QED BY <5>1, <5>2
      <4>2. Hand' = 0 /\ Hand = PictureIn(latched) /\ PictureIn(front)' = Hand
        BY <2>1, <2>2, <3>4, <4>1 DEF Hand, InHand, PictureIn, Shown, Open
      <4>3. QED BY <3>1, <2>2, <4>1, <4>2 DEF Mailbox!Next, Mailbox!Show, Box, Hand
    <3>5. QED BY <3>3, <3>4
  <2>3. CASE ~Open
    <3>1. latched = NoBuf /\ ~Open'
      BY <2>1, <2>3 DEF Open, PlaneInv, StreamInv, TypeOK, PlaneOff
    <3>2. PictureIn(front)' = 0
      BY <2>1, <3>1 DEF PictureIn
    <3>3. Box' = Box /\ Hand' = Hand /\ Open' = Open
      BY <2>3, <3>1 DEF Box, Hand, Open
    <3>4. stats'.decoded = stats.decoded
      BY <2>1
    <3>5. QED BY <2>3, <3>2, <3>3, <3>4, <1>0 DEF Mailbox!Next, Mailbox!Blank
  <2>4. QED BY <2>2, <2>3
<1>7. CASE StopStream \/ UNCHANGED vars
  BY <1>7, SameMailbox, <1>0 DEF StopStream, vars, mpp, kms, Open, InHand, Shown
<1>8. QED BY <1>1, <1>2, <1>3, <1>4, <1>5, <1>6, <1>7 DEF Next, Stopped

\* Whatever fails while streaming, the threads, buffers and vblanks of rk.c
\* implement a latest-wins mailbox.
THEOREM DisplayIsLatestWins == PlaneTurnsOff => (Spec => IsLatestWins)
<1> SUFFICES ASSUME PlaneTurnsOff PROVE Spec => IsLatestWins
  OBVIOUS
<1>1. Init => Mailbox!Init
  BY DEF Init, Mailbox!Init, Open, Closing, PictureIn, InHand, Slots
<1>2. PlaneInv /\ [Next]_vars => PlaneInv'
  BY PlaneInvNext
<1>3. PlaneInv /\ [Next]_vars => [Mailbox!Next]_(Mailbox!vars)
  BY MailboxStep
<1>4. QED BY PlaneInvInit, <1>1, <1>2, <1>3, PTL DEF Spec, IsLatestWins, Mailbox!Spec
=============================================================================
