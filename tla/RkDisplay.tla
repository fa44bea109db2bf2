----------------------------- MODULE RkDisplay -----------------------------
(***************************************************************************)
(* The DRM presentation path of the Rockchip backend                       *)
(* (moonlight-embedded-master/src/video/rk.c), from the decode unit handed *)
(* to MPP to the picture on the panel and the buffer back in the pool:     *)
(*                                                                         *)
(*   receive thread --packets--> MPP --ready--> frame_thread               *)
(*        --display_pending--> display_thread --FB_ID--> DRM plane         *)
(*                                                                         *)
(* Five actors interleave: the receive thread of moonlight-common-c (it    *)
(* runs rk_submit_decode_unit), MPP, frame_thread, display_thread, the     *)
(* display controller, and the thread that stops the connection and then   *)
(* runs rk_cleanup.  A critical section of `mutex' holds no blocking call, *)
(* so each is one step.  A DRM/MPP buffer is named by its index in         *)
(* frame_to_drm; pictures are numbered in decode order.                    *)
(***************************************************************************)
EXTENDS Naturals, FiniteSets

CONSTANTS
  Buffers,    \* indices of frame_to_drm, MAX_FRAMES of them
  NoBuf,      \* an empty slot, a disabled plane
  Rotation,   \* rga_rotation: pictures are rotated into rga_to_drm
  PacketCap,  \* packets MPP queues before decode_put_packet fails
  MaxPics,    \* bound: decode units of a run
  Faults      \* the failing calls a run considers

FaultKinds ==
  {"get", "nobuf", "format", "attach", "rotate", "eos", "commit", "vblank",
   "disable", "offwait"}

ASSUME ConstantsOK ==
  /\ NoBuf \notin Buffers
  /\ IsFiniteSet(Buffers)
  /\ Rotation \in BOOLEAN
  /\ PacketCap \in Nat \ {0}
  /\ MaxPics \in Nat
  /\ Faults \subseteq FaultKinds

\* Every variable or local of rk.c that owns an MppFrame: frame_thread's
\* `frame', queue_display_frame's `replaced', the three display_* mailbox
\* slots, and display_thread's `submitted' and `previous'.
Slots == {"frame", "replaced", "pending", "submitted", "current", "retired",
          "previous"}

VARIABLES
  spc,       \* receive thread: between units, or spinning in decode_put_packet
  packets,   \* packets queued in MPP
  grp,       \* buffer group (mpi_frm_grp) and the info-change handshake
  free,      \* buffers of the group no MppFrame refers to
  ready,     \* decoded buffers MPP has queued for decode_get_frame
  pics,      \* number of pictures decoded
  pic,       \* picture in each frame_to_drm buffer, 0 before the first
  dest,      \* picture in each rga_to_drm buffer
  slot,      \* buffer of the MppFrame each slot owns
  eos,       \* frm_eos
  retries,   \* frame_thread's `count'
  fpc,       \* program counter of frame_thread
  dpc,       \* program counter of display_thread
  cpc,       \* progress of the thread stopping the stream
  latched,   \* buffer whose FB the plane was last given
  front,     \* buffer being scanned out
  vblanked,  \* a vblank has passed since the plane was last changed
  stats      \* the stats_* counters

mpp == <<packets, grp, ready, pics, pic>>
kms == <<latched, front, vblanked>>
vars == <<spc, mpp, free, dest, slot, eos, retries, fpc, dpc, cpc, kms, stats>>

\* The picture the panel shows when it scans out buffer b.
Shown(b) == IF Rotation THEN dest[b] ELSE pic[b]
OnScreen == {latched, front} \ {NoBuf}
Held == {slot[s] : s \in Slots} \ {NoBuf}

Init ==
  /\ spc = "idle" /\ packets = 0
  /\ grp = "none" /\ free = {} /\ ready = {}
  /\ pics = 0 /\ pic = [b \in Buffers |-> 0] /\ dest = [b \in Buffers |-> 0]
  /\ slot = [s \in Slots |-> NoBuf]
  /\ eos = FALSE /\ retries = 0
  /\ fpc = "check" /\ dpc = "check" /\ cpc = "run"
  /\ latched = NoBuf /\ front = NoBuf /\ vblanked = TRUE
  /\ stats = [decoded |-> 0, replaced |-> 0, displayed |-> 0,
              commit_fail |-> 0, vblank_fail |-> 0]

\* mpp_frame_deinit on the buffers in bs gives them back to the group.
Release(bs) == free' = free \union (bs \ {NoBuf})

-----------------------------------------------------------------------------
(* The receive thread: rk_submit_decode_unit.                              *)

SubmitUnit ==
  /\ spc = "idle" /\ cpc = "run" /\ pics + packets < MaxPics
  /\ spc' = "put"
  /\ UNCHANGED <<mpp, free, dest, slot, eos, retries, fpc, dpc, cpc, kms, stats>>

\* The loop around decode_put_packet leaves only when MPP has room.
PutPacket ==
  /\ spc = "put" /\ packets < PacketCap
  /\ spc' = "idle" /\ packets' = packets + 1
  /\ UNCHANGED <<grp, ready, pics, pic, free, dest, slot, eos, retries,
                 fpc, dpc, cpc, kms, stats>>

-----------------------------------------------------------------------------
(* MPP, as rk.c uses it.  It announces the stream format once and decodes  *)
(* nothing until the buffer group is attached; it then writes into buffers *)
(* no frame refers to, and hands frames out in decode order.               *)

AnnounceFormat ==
  /\ packets > 0 /\ grp = "none"
  /\ grp' = "announced"
  /\ UNCHANGED <<packets, ready, pics, pic, spc, free, dest, slot, eos,
                 retries, fpc, dpc, cpc, kms, stats>>

Decode(b) ==
  /\ packets > 0 /\ grp = "ready" /\ b \in free
  /\ packets' = packets - 1
  /\ free' = free \ {b} /\ ready' = ready \union {b}
  /\ pics' = pics + 1 /\ pic' = [pic EXCEPT ![b] = pics + 1]
  /\ UNCHANGED <<grp, spc, dest, slot, eos, retries, fpc, dpc, cpc, kms,
                 stats>>

\* A damaged unit yields no picture.
DecodeNothing ==
  /\ packets > 0 /\ grp = "ready"
  /\ packets' = packets - 1
  /\ UNCHANGED <<grp, ready, pics, pic, spc, free, dest, slot, eos,
                 retries, fpc, dpc, cpc, kms, stats>>

-----------------------------------------------------------------------------
(* frame_thread                                                            *)

FrameLoop ==
  /\ fpc = "check"
  /\ fpc' = IF eos THEN "done" ELSE "call"
  /\ UNCHANGED <<spc, mpp, free, dest, slot, eos, retries, dpc, cpc, kms, stats>>

\* The call comes after the test of frm_eos: rk_cleanup can raise it and reset
\* MPP in between.
EnterGet ==
  /\ fpc = "call"
  /\ fpc' = "get"
  /\ UNCHANGED <<spc, mpp, free, dest, slot, eos, retries, dpc, cpc, kms, stats>>

\* The info-change frame: allocate MAX_FRAMES buffers and attach them.
AttachGroup ==
  /\ fpc = "get" /\ grp = "announced"
  /\ grp' = "ready" /\ free' = Buffers
  /\ fpc' = "check"
  /\ UNCHANGED <<packets, ready, pics, pic, spc, dest, slot, eos, retries,
                 dpc, cpc, kms, stats>>

\* A buffer cannot be allocated, imported or given an FB: exit(EXIT_FAILURE)
\* ends every thread where it is.
AttachFail ==
  /\ fpc = "get" /\ grp = "announced" /\ "attach" \in Faults
  /\ spc' = "exited" /\ fpc' = "exited" /\ dpc' = "exited" /\ cpc' = "exited"
  /\ UNCHANGED <<mpp, free, dest, slot, eos, retries, kms, stats>>

\* An unsupported format is dropped; with RGA rotation a 10-bit one also
\* ends the stream.
RefuseFormat ==
  /\ fpc = "get" /\ grp = "announced" /\ "format" \in Faults
  /\ grp' = "refused"
  /\ eos' \in {eos, Rotation \/ eos}
  /\ fpc' = "check"
  /\ UNCHANGED <<packets, ready, pics, pic, spc, free, dest, slot,
                 retries, dpc, cpc, kms, stats>>

GetFrame(b) ==
  /\ fpc = "get" /\ b \in ready
  /\ \A c \in ready : pic[b] <= pic[c]
  /\ ready' = ready \ {b}
  /\ slot' = [slot EXCEPT !["frame"] = b]
  /\ fpc' = IF Rotation THEN "rotate" ELSE "queue"
  /\ UNCHANGED <<packets, grp, pics, pic, spc, free, dest, eos, retries,
                 dpc, cpc, kms, stats>>

\* "Frame no buff": MPP answers a packet with a frame that holds no buffer,
\* which may carry the end-of-stream flag.
GetEmptyFrame ==
  /\ fpc = "get" /\ packets > 0 /\ grp = "ready" /\ ready = {}
  /\ "nobuf" \in Faults
  /\ packets' = packets - 1
  /\ \/ UNCHANGED eos
     \/ "eos" \in Faults /\ eos' = TRUE
  /\ fpc' = "check"
  /\ UNCHANGED <<grp, ready, pics, pic, spc, free, dest, slot, retries, dpc, cpc,
                 kms, stats>>

\* Mutant: one retry too many.
GetErrorAgain ==
  /\ fpc \in {"get", "woken"} /\ "get" \in Faults
  /\ IF retries <= 3
       THEN retries' = retries + 1 /\ fpc' = "check"
       ELSE fpc' = "done" /\ UNCHANGED retries
  /\ UNCHANGED <<spc, mpp, free, dest, slot, eos, dpc, cpc, kms, stats>>

\* decode_get_frame fails: three retries over the thread's life, then it
\* stops without raising frm_eos.
GetError ==
  /\ fpc \in {"get", "woken"} /\ "get" \in Faults
  /\ IF retries < 3
       THEN retries' = retries + 1 /\ fpc' = "check"
       ELSE fpc' = "done" /\ UNCHANGED retries
  /\ UNCHANGED <<spc, mpp, free, dest, slot, eos, dpc, cpc, kms, stats>>

\* A decode_get_frame the reset in rk_cleanup found blocked returns no frame.
GetNothing ==
  /\ fpc = "woken"
  /\ fpc' = "done"
  /\ UNCHANGED <<spc, mpp, free, dest, slot, eos, retries, dpc, cpc, kms, stats>>

RotateFrame ==
  /\ fpc = "rotate"
  /\ dest' = [dest EXCEPT ![slot["frame"]] = pic[slot["frame"]]]
  /\ fpc' = "queue"
  /\ UNCHANGED <<spc, mpp, free, slot, eos, retries, dpc, cpc, kms, stats>>

RotateFail ==
  /\ fpc = "rotate" /\ "rotate" \in Faults
  /\ eos' = TRUE
  /\ Release({slot["frame"]})
  /\ slot' = [slot EXCEPT !["frame"] = NoBuf]
  /\ fpc' = "check"
  /\ UNCHANGED <<spc, mpp, dest, retries, dpc, cpc, kms, stats>>

Occupied(s) == IF slot[s] = NoBuf THEN 0 ELSE 1

\* Mutant: the displaced frame is overwritten, not handed to the release.
QueueFrameLeaks ==
  /\ fpc = "queue"
  /\ slot' = [slot EXCEPT !["pending"] = slot["frame"], !["frame"] = NoBuf]
  /\ stats' = [stats EXCEPT !.decoded = @ + 1, !.replaced = @ + Occupied("pending")]
  /\ dpc' = IF dpc = "asleep" THEN "check" ELSE dpc
  /\ fpc' = "release"
  /\ UNCHANGED <<spc, mpp, free, dest, eos, retries, cpc, kms>>

\* Mutant: a full mailbox keeps its frame and the new one is dropped.
QueueFrameKeepsOld ==
  /\ fpc = "queue"
  /\ slot' = [slot EXCEPT !["frame"] = NoBuf,
                          ![IF slot["pending"] = NoBuf THEN "pending" ELSE "replaced"] =
                             slot["frame"]]
  /\ stats' = [stats EXCEPT !.decoded = @ + 1, !.replaced = @ + Occupied("pending")]
  /\ dpc' = IF dpc = "asleep" THEN "check" ELSE dpc
  /\ fpc' = "release"
  /\ UNCHANGED <<spc, mpp, free, dest, eos, retries, cpc, kms>>

\* Mutant: display_thread is not signalled.
QueueFrameSilently ==
  /\ fpc = "queue"
  /\ slot' = [slot EXCEPT !["replaced"] = slot["pending"],
                          !["pending"] = slot["frame"],
                          !["frame"] = NoBuf]
  /\ stats' = [stats EXCEPT !.decoded = @ + 1, !.replaced = @ + Occupied("pending")]
  /\ fpc' = "release"
  /\ UNCHANGED <<dpc, spc, mpp, free, dest, eos, retries, cpc, kms>>

\* queue_display_frame under `mutex': the new frame takes the mailbox, the
\* one it displaces is released after the unlock; pthread_cond_signal.
QueueFrame ==
  /\ fpc = "queue"
  /\ slot' = [slot EXCEPT !["replaced"] = slot["pending"],
                          !["pending"] = slot["frame"],
                          !["frame"] = NoBuf]
  /\ stats' = [stats EXCEPT !.decoded = @ + 1, !.replaced = @ + Occupied("pending")]
  /\ dpc' = IF dpc = "asleep" THEN "check" ELSE dpc
  /\ fpc' = "release"
  /\ UNCHANGED <<spc, mpp, free, dest, eos, retries, cpc, kms>>

\* ... and the end of the loop body: a frame flagged end-of-stream.
ReleaseReplaced ==
  /\ fpc = "release"
  /\ Release({slot["replaced"]})
  /\ slot' = [slot EXCEPT !["replaced"] = NoBuf]
  /\ \/ UNCHANGED eos
     \/ "eos" \in Faults /\ eos' = TRUE
  /\ fpc' = "check"
  /\ UNCHANGED <<spc, mpp, dest, retries, dpc, cpc, kms, stats>>

-----------------------------------------------------------------------------
(* display_thread                                                          *)

DisplayExit ==
  /\ dpc = "check" /\ eos
  /\ dpc' = "done"
  /\ UNCHANGED <<spc, mpp, free, dest, slot, eos, retries, fpc, cpc, kms, stats>>

\* Mutant: waits without looking at the mailbox first.
DisplaySleepAlways ==
  /\ dpc = "check" /\ ~eos
  /\ dpc' = "asleep"
  /\ UNCHANGED <<spc, mpp, free, dest, slot, eos, retries, fpc, cpc, kms, stats>>

DisplaySleep ==
  /\ dpc = "check" /\ ~eos /\ slot["pending"] = NoBuf
  /\ dpc' = "asleep"
  /\ UNCHANGED <<spc, mpp, free, dest, slot, eos, retries, fpc, cpc, kms, stats>>

SpuriousWakeup ==
  /\ dpc = "asleep"
  /\ dpc' = "check"
  /\ UNCHANGED <<spc, mpp, free, dest, slot, eos, retries, fpc, cpc, kms, stats>>

DisplayTake ==
  /\ dpc = "check" /\ ~eos /\ slot["pending"] # NoBuf
  /\ slot' = [slot EXCEPT !["submitted"] = slot["pending"], !["pending"] = NoBuf]
  /\ dpc' = "commit"
  /\ UNCHANGED <<spc, mpp, free, dest, eos, retries, fpc, cpc, kms, stats>>

\* drmModeAtomicCommit or drmModeSetPlane: the plane is given the FB and
\* scans it out from the next vblank on (a blocking commit returns later,
\* when that vblank has passed).
Commit ==
  /\ dpc = "commit"
  /\ latched' = slot["submitted"] /\ vblanked' = FALSE
  /\ dpc' = "vblank"
  /\ UNCHANGED <<front, spc, mpp, free, dest, slot, eos, retries, fpc, cpc, stats>>

\* Mutant: the error path forgets to release the frame.
CommitFailLeaks ==
  /\ dpc = "commit" /\ "commit" \in Faults
  /\ stats' = [stats EXCEPT !.commit_fail = @ + 1]
  /\ slot' = [slot EXCEPT !["submitted"] = NoBuf]
  /\ dpc' = "check"
  /\ UNCHANGED <<free, spc, mpp, dest, eos, retries, fpc, cpc, kms>>

\* Mutant: the error path is not counted.
CommitFailUncounted ==
  /\ dpc = "commit" /\ "commit" \in Faults
  /\ Release({slot["submitted"]})
  /\ slot' = [slot EXCEPT !["submitted"] = NoBuf]
  /\ dpc' = "check"
  /\ UNCHANGED <<stats, spc, mpp, dest, eos, retries, fpc, cpc, kms>>

CommitFail ==
  /\ dpc = "commit" /\ "commit" \in Faults
  /\ stats' = [stats EXCEPT !.commit_fail = @ + 1]
  /\ Release({slot["submitted"]})
  /\ slot' = [slot EXCEPT !["submitted"] = NoBuf]
  /\ dpc' = "check"
  /\ UNCHANGED <<spc, mpp, dest, eos, retries, fpc, cpc, kms>>

\* Mutant: does not wait for the vblank.
VBlankDoneEarly ==
  /\ dpc = "vblank"
  /\ slot' = [slot EXCEPT !["previous"] = slot["current"],
                          !["current"] = slot["submitted"],
                          !["submitted"] = NoBuf]
  /\ stats' = [stats EXCEPT !.displayed = @ + 1]
  /\ dpc' = "release"
  /\ UNCHANGED <<spc, mpp, free, dest, eos, retries, fpc, cpc, kms>>

\* wait_for_display_vblank succeeds: what was current is on screen no more.
VBlankDone ==
  /\ dpc = "vblank" /\ vblanked
  /\ slot' = [slot EXCEPT !["previous"] = slot["current"],
                          !["current"] = slot["submitted"],
                          !["submitted"] = NoBuf]
  /\ stats' = [stats EXCEPT !.displayed = @ + 1]
  /\ dpc' = "release"
  /\ UNCHANGED <<spc, mpp, free, dest, eos, retries, fpc, cpc, kms>>

ReleasePrevious ==
  /\ dpc = "release"
  /\ Release({slot["previous"]})
  /\ slot' = [slot EXCEPT !["previous"] = NoBuf]
  /\ dpc' = "check"
  /\ UNCHANGED <<spc, mpp, dest, eos, retries, fpc, cpc, kms, stats>>

\* Mutant: the frame the panel may still show is released, not retired.
VBlankFailReleases ==
  /\ dpc = "vblank" /\ "vblank" \in Faults
  /\ stats' = [stats EXCEPT !.vblank_fail = @ + 1]
  /\ Release({slot["current"]})
  /\ slot' = [slot EXCEPT !["current"] = slot["submitted"], !["submitted"] = NoBuf]
  /\ eos' = TRUE
  /\ dpc' = "done"
  /\ UNCHANGED <<spc, mpp, dest, retries, fpc, cpc, kms>>

\* wait_for_display_vblank fails: both frames are kept and the stream ends.
VBlankFail ==
  /\ dpc = "vblank" /\ "vblank" \in Faults
  /\ stats' = [stats EXCEPT !.vblank_fail = @ + 1]
  /\ Release({slot["retired"]})
  /\ slot' = [slot EXCEPT !["retired"] = slot["current"],
                          !["current"] = slot["submitted"],
                          !["submitted"] = NoBuf]
  /\ eos' = TRUE
  /\ dpc' = "done"
  /\ UNCHANGED <<spc, mpp, dest, retries, fpc, cpc, kms>>

-----------------------------------------------------------------------------
(* The display controller starts the next refresh.                         *)

VBlank ==
  /\ ~vblanked \/ front # latched
  /\ front' = latched /\ vblanked' = TRUE
  /\ UNCHANGED <<latched, spc, mpp, free, dest, slot, eos, retries, fpc, dpc,
                 cpc, stats>>

-----------------------------------------------------------------------------
(* Stopping: LiStopConnection joins the receive thread, then rk_cleanup.   *)

StopStream ==
  /\ cpc = "run"
  /\ cpc' = "stopping"
  /\ UNCHANGED <<spc, mpp, free, dest, slot, eos, retries, fpc, dpc, kms, stats>>

\* Mutant: frm_eos is not raised.
BeginCleanupNoEos ==
  /\ cpc = "stopping" /\ spc = "idle"
  /\ cpc' = "reset"
  /\ UNCHANGED <<eos, spc, mpp, free, dest, slot, retries, fpc, dpc, kms, stats>>

BeginCleanup ==
  /\ cpc = "stopping" /\ spc = "idle"
  /\ eos' = TRUE
  /\ cpc' = "reset"
  /\ UNCHANGED <<spc, mpp, free, dest, slot, retries, fpc, dpc, kms, stats>>

\* mpi_api->reset: queued packets and undelivered frames are dropped, and a
\* decode_get_frame that is blocked now is woken.  A later call is not: it
\* blocks (MPP_POLL_BLOCK) until a frame comes, and none does.
ResetDecoder ==
  /\ cpc = "reset"
  /\ packets' = 0 /\ ready' = {}
  /\ fpc' = IF fpc = "get" THEN "woken" ELSE fpc
  /\ grp' = IF grp = "announced" THEN "none" ELSE grp
  /\ Release(ready)
  /\ cpc' = "join_frame"
  /\ UNCHANGED <<pics, pic, spc, dest, slot, eos, retries, dpc, kms, stats>>

\* Mutant: no broadcast after the join.
JoinFrameSilently ==
  /\ cpc = "join_frame" /\ fpc = "done"
  /\ cpc' = "join_display"
  /\ UNCHANGED <<dpc, spc, mpp, free, dest, slot, eos, retries, fpc, kms, stats>>

\* pthread_join of frame_thread, then the broadcast under `mutex'.
JoinFrame ==
  /\ cpc = "join_frame" /\ fpc = "done"
  /\ dpc' = IF dpc = "asleep" THEN "check" ELSE dpc
  /\ cpc' = "join_display"
  /\ UNCHANGED <<spc, mpp, free, dest, slot, eos, retries, fpc, kms, stats>>

\* pthread_join of display_thread, then disable_video_plane.
DisablePlane ==
  /\ cpc = "join_display" /\ dpc = "done"
  /\ latched' = NoBuf /\ vblanked' = FALSE
  /\ cpc' = "off_wait"
  /\ UNCHANGED <<front, spc, mpp, free, dest, slot, eos, retries, fpc, dpc, stats>>

\* The plane cannot be disabled: the error is printed and ignored.
DisableFail ==
  /\ cpc = "join_display" /\ dpc = "done" /\ "disable" \in Faults
  /\ cpc' = "release"
  /\ UNCHANGED <<spc, mpp, free, dest, slot, eos, retries, fpc, dpc, kms, stats>>

OffWait ==
  /\ cpc = "off_wait"
  /\ vblanked \/ "offwait" \in Faults
  /\ cpc' = "release"
  /\ UNCHANGED <<spc, mpp, free, dest, slot, eos, retries, fpc, dpc, kms, stats>>

\* Mutant: display_retired is forgotten.
ReleaseMailboxPartly ==
  /\ cpc = "release"
  /\ Release({slot["pending"], slot["current"]})
  /\ slot' = [slot EXCEPT !["pending"] = NoBuf, !["current"] = NoBuf]
  /\ cpc' = "done"
  /\ UNCHANGED <<spc, mpp, dest, eos, retries, fpc, dpc, kms, stats>>

ReleaseMailbox ==
  /\ cpc = "release"
  /\ Release({slot["pending"], slot["current"], slot["retired"]})
  /\ slot' = [slot EXCEPT !["pending"] = NoBuf, !["current"] = NoBuf,
                          !["retired"] = NoBuf]
  /\ cpc' = "done"
  /\ UNCHANGED <<spc, mpp, dest, eos, retries, fpc, dpc, kms, stats>>

Stopped == cpc = "done" /\ ~(~vblanked \/ front # latched) /\ UNCHANGED vars

-----------------------------------------------------------------------------
ReceiveThread == SubmitUnit \/ PutPacket
Mpp == AnnounceFormat \/ DecodeNothing \/ \E b \in Buffers : Decode(b)
FrameRuns ==
  \/ FrameLoop \/ EnterGet \/ AttachGroup \/ RefuseFormat \/ GetNothing
  \/ RotateFrame \/ RotateFail \/ QueueFrame \/ ReleaseReplaced
  \/ \E b \in Buffers : GetFrame(b)
FrameThread == FrameRuns \/ GetError \/ GetEmptyFrame \/ AttachFail
DisplayRuns ==
  \/ DisplayExit \/ DisplaySleep \/ DisplayTake
  \/ Commit \/ CommitFail \/ VBlankDone \/ ReleasePrevious \/ VBlankFail
DisplayThread == DisplayRuns \/ SpuriousWakeup
Cleanup ==
  \/ BeginCleanup \/ ResetDecoder \/ JoinFrame \/ DisablePlane
  \/ DisableFail \/ OffWait \/ ReleaseMailbox

Next ==
  \/ ReceiveThread \/ Mpp \/ FrameThread \/ DisplayThread \/ VBlank
  \/ StopStream \/ Cleanup \/ Stopped

Spec == Init /\ [][Next]_vars

\* Threads are scheduled, MPP decodes a packet when it has a buffer for it,
\* the panel refreshes.  Nothing obliges the host to send a unit, anyone to
\* stop the stream or MPP to drop a packet, and no failing decode_get_frame,
\* frame without a buffer, exit or spurious wakeup may be relied on.
Fairness ==
  /\ WF_vars(PutPacket)
  /\ WF_vars(AnnounceFormat \/ \E b \in Buffers : Decode(b))
  /\ WF_vars(FrameRuns)
  /\ WF_vars(DisplayRuns) /\ WF_vars(VBlank) /\ WF_vars(Cleanup)

FairSpec == Spec /\ Fairness

-----------------------------------------------------------------------------
Stats == [decoded : Nat, replaced : Nat, displayed : Nat, commit_fail : Nat,
          vblank_fail : Nat]

TypeOK ==
  /\ spc \in {"idle", "put", "exited"}
  /\ packets \in 0..PacketCap
  /\ grp \in {"none", "announced", "ready", "refused"}
  /\ free \subseteq Buffers /\ ready \subseteq Buffers
  /\ pics \in Nat /\ pic \in [Buffers -> Nat] /\ dest \in [Buffers -> Nat]
  /\ eos \in BOOLEAN /\ vblanked \in BOOLEAN
  /\ slot \in [Slots -> Buffers \union {NoBuf}]
  /\ retries \in 0..3
  /\ fpc \in {"check", "call", "get", "woken", "rotate", "queue", "release",
              "done", "exited"}
  /\ dpc \in {"check", "asleep", "commit", "vblank", "release", "done", "exited"}
  /\ cpc \in {"run", "stopping", "reset", "join_frame", "join_display",
              "off_wait", "release", "done", "exited"}
  /\ latched \in Buffers \union {NoBuf} /\ front \in Buffers \union {NoBuf}
  /\ stats \in Stats

\* Once the group is attached every buffer has exactly one owner: the pool,
\* MPP's output queue, or one slot.  No frame is leaked when the mailbox is
\* overwritten and none is released twice (queue_display_frame,
\* display_thread, rk_cleanup).
SoleOwner ==
  /\ free \intersect ready = {}
  /\ (free \union ready) \intersect Held = {}
  /\ \A s, t \in Slots : s # t /\ slot[s] # NoBuf => slot[s] # slot[t]
  /\ free \union ready \union Held = IF grp = "ready" THEN Buffers ELSE {}

\* A buffer the plane scans out, or will from the next vblank on, is owned
\* by the display side: neither the decoder nor a rotation can write it.
FramesOutliveScanout ==
  OnScreen \subseteq {slot[s] : s \in {"submitted", "current", "previous", "retired"}}

\* Even when the plane cannot be disabled no one is left to write a picture
\* that is on screen: what the panel shows changes only by going to a
\* newer picture or to black.
ScreenStep ==
  front # NoBuf /\ front' # NoBuf =>
    \/ front' = front /\ Shown(front)' = Shown(front)
    \/ front' # front /\ Shown(front)' > Shown(front)

ScreenMovesForward == [][ScreenStep]_vars

\* Each frame queued for display is displaced, shown, refused by the plane,
\* cut off by a failed vblank wait, or still on its way.
StatsAccount ==
  cpc # "done" =>
    stats.decoded = stats.replaced + stats.displayed + stats.commit_fail
      + stats.vblank_fail + Occupied("pending") + Occupied("submitted")

\* The display path never keeps more than four buffers from the decoder.
DecoderHeadroom ==
  grp = "ready" => Cardinality(free \union ready) + 4 >= Cardinality(Buffers)

\* rk_cleanup leaves no frame behind: mpp_buffer_group_put finds every
\* buffer in the pool.
CleanupReturnsAll == cpc = "done" => Held = {} /\ ready = {}

-----------------------------------------------------------------------------
(* Why the three invariants above hold: which program counter goes with    *)
(* which slot, and which slot with what the plane scans out.               *)

Closing == {"off_wait", "release", "done"}

SlotsInUse ==
  /\ slot["frame"] # NoBuf <=> fpc \in {"rotate", "queue"}
  /\ slot["replaced"] # NoBuf => fpc = "release"
  /\ slot["submitted"] # NoBuf <=> dpc \in {"commit", "vblank"}
  /\ slot["previous"] # NoBuf => dpc = "release"
  /\ slot["retired"] # NoBuf => dpc = "done" /\ slot["current"] # NoBuf
  /\ cpc = "done" =>
       slot["pending"] = NoBuf /\ slot["current"] = NoBuf /\ slot["retired"] = NoBuf

\* What the steps of the stop have joined or drained by the time they end;
\* exit ends all threads together.
StopOrder ==
  /\ cpc \notin {"run", "stopping", "exited"} => spc = "idle"
  /\ cpc \notin {"run", "stopping", "reset", "exited"} => packets = 0 /\ ready = {}
  /\ cpc \in {"join_display"} \union Closing => fpc = "done"
  /\ cpc \in Closing => dpc = "done"
  /\ cpc = "exited" => spc = "exited" /\ fpc = "exited" /\ dpc = "exited"

\* The plane has what is current, or what was submitted and is waiting for
\* its vblank; after a failed vblank wait the panel may still show what is
\* retired.
PlaneOwned ==
  /\ cpc \notin Closing /\ dpc = "vblank" =>
       /\ latched = slot["submitted"]
       /\ front \in {slot["current"], slot["submitted"]}
       /\ vblanked => front = latched
  /\ cpc \notin Closing /\ dpc # "vblank" =>
       /\ latched = slot["current"]
       /\ front \in {slot["current"], slot["retired"]}
       /\ dpc # "done" => front = latched

\* After the plane was disabled and a vblank awaited the panel is black.
PlaneOff ==
  /\ cpc = "off_wait" =>
       /\ latched = NoBuf
       /\ front \in {slot["current"], slot["retired"], NoBuf}
       /\ vblanked => front = NoBuf
  /\ cpc \in {"release", "done"} => latched = NoBuf /\ front = NoBuf

\* Frames travel in decode order: frame s is newer than frame t, and the
\* rotated copy of a frame shows that frame.
Newer(s, t) ==
  slot[s] # NoBuf /\ slot[t] # NoBuf => pic[slot[s]] > pic[slot[t]]
Copied(s) == slot[s] # NoBuf /\ Rotation => dest[slot[s]] = pic[slot[s]]

PictureOrder ==
  /\ \A b \in Buffers : pic[b] <= pics
  /\ \A b, c \in ready : b # c => pic[b] # pic[c]
  /\ \A b \in ready, s \in {"frame", "pending", "submitted", "current", "retired"} :
       slot[s] # NoBuf => pic[b] > pic[slot[s]]
  /\ \A s \in {"pending", "submitted", "current", "retired"} :
       Newer("frame", s) /\ Copied(s)
  /\ \A s \in {"submitted", "current", "retired"} : Newer("pending", s)
  /\ \A s \in {"current", "retired"} : Newer("submitted", s)
  /\ Newer("current", "retired")
  /\ fpc = "queue" => Copied("frame")

NumbersPositive ==
  /\ \A b \in ready : pic[b] > 0
  /\ \A s \in Slots : slot[s] # NoBuf => pic[slot[s]] > 0

\* While frame_thread can still queue a frame none is lost between MPP and the
\* mailbox: the next frame queued is number stats.decoded + 1.
Numbering ==
  LET next == stats.decoded + Occupied("frame") + 1 IN
  fpc # "done" /\ ~(fpc = "check" /\ eos) =>
    /\ next <= pics + 1
    /\ slot["frame"] # NoBuf => pic[slot["frame"]] = stats.decoded + 1
    /\ \A b \in ready : pic[b] >= next
    /\ cpc \in {"run", "stopping", "reset"} =>
         \A k \in 1..pics : next <= k => \E b \in ready : pic[b] = k

-----------------------------------------------------------------------------
(* The threads, buffers and vblanks above implement the mailbox of         *)
(* LatestWins.                                                             *)

PictureIn(b) == IF b = NoBuf THEN 0 ELSE Shown(b)
Open == cpc \notin {"off_wait", "release", "done"}
\* The buffer taken from the mailbox and not on screen yet: after a failed
\* vblank wait it is no longer in `submitted' but the plane still has it.
InHand == IF slot["submitted"] # NoBuf THEN slot["submitted"] ELSE latched

Mailbox == INSTANCE LatestWins WITH
  offered <- stats.decoded,
  box     <- IF Open THEN PictureIn(slot["pending"]) ELSE 0,
  hand    <- IF ~Open \/ InHand = front THEN 0 ELSE PictureIn(InHand),
  screen  <- PictureIn(front),
  open    <- Open

\* Whatever fails while streaming, the display path is a latest-wins mailbox
\* (queue_display_frame and display_thread).
IsLatestWins == Mailbox!Spec

\* frame_thread tested frm_eos before rk_cleanup raised it and entered
\* decode_get_frame after MPP was reset: pthread_join waits for it for ever.
Stranded == cpc = "join_frame" /\ fpc = "get"

\* When nothing fails it also serves the mailbox, short of a stop that never
\* gets to close it: no lost wakeup, no starved display thread.
ServesLatestWins == Mailbox!Spec /\ (<>[]Stranded \/ Mailbox!Service)

\* The k-th picture queued reaches the panel, or a newer one does: the last
\* picture of a burst is never left in the mailbox.
PictureReachesScreen ==
  \A k \in 1..MaxPics :
    stats.decoded >= k ~> (PictureIn(front) >= k \/ cpc # "run")

\* When nothing fails a requested stop gets through rk_cleanup, or is stranded
\* by a frame_thread that called decode_get_frame too late to be woken.
StopCompletes == cpc = "stopping" ~> (cpc = "done" \/ Stranded)

\* rk_submit_decode_unit spins on a full MPP that nobody drains any more.
Wedged ==
  /\ spc = "put" /\ packets = PacketCap
  /\ fpc = "done" \/ grp = "refused"

\* With failures, unless the process exits, a stop can hang in two ways only:
\* stranded as above, or LiStopConnection joins a receive thread that spins in
\* decode_put_packet because frame_thread ended or the format was refused, and
\* rk_cleanup is never reached.
StopHangsOnlyWedged ==
  cpc = "stopping" ~> (cpc \in {"done", "exited"} \/ Wedged \/ Stranded)
=============================================================================
