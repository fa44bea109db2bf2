# Verification of Moonlight for dictionary pens

TLA+ models of the program in `src/`: a Moonlight game-streaming client for
RK3562 dictionary pens. A Vue mini-app (`src/src/pages`) drives a native JS
module (`src/jsapi`), which forks the streaming process
(`src/moonlight-embedded-master`); that process decodes with Rockchip MPP and
shows pictures on a DRM plane. Paths below are relative to `src/`; `rk.c` is
`moonlight-embedded-master/src/video/rk.c`.

## 1. The system

| part | state | operations | talks to |
|---|---|---|---|
| Presentation path, `rk.c` | MPP buffer group, mailbox `display_pending/current/retired`, `frm_eos`, counters | submit unit, get frame, rotate, queue, commit, wait vblank, clean up | common-c receive thread, MPP, DRM |
| Shared RGB frame, `rk.c` and `JSRgbFramePlayer.cpp` | mapped file with header and pixels | write, map, copy | streaming process, JS worker |
| Process control, `JSRgbFramePlayer.cpp` | `moonlightPid_`, pid file, keep-alive thread and flag | start, pair, stop, poll | kernel, frame page |
| Frame page, `frame.vue` | start token, `moonlightStarting`, `leavingFrame`, timers | show, hide, start, watchdog, leave | process control |
| Touch, `evdev.c`, `touch_utils.c` | slots, `touchMouseSlot`, tap timers | event, flush, cancel, remove device | event loop, host |
| Gamepads and mouse emulation, `evdev.c` | device array, controller ids, emulation threads | add, remove, handle, toggle | event loop, udev |
| Hotplug, `udev.c` | known nodes, rescan timer | add event, rescan | `evdev_create` |
| Event loop, `loop.c` | parallel arrays of fds and handlers | add, remove, poll | signals, evdev, udev |
| Session, `main.c`, `connection.c` | connection, main thread id | start, terminated callback, stop, quit app | common-c, loop |
| Pairing and apps, `libgamestream/client.c` | `server->paired`, `currentGame` | pair in four phases, unpair, start, quit | host over HTTP |
| Index page, `index.vue` | hosts, pairing dialog, timers | find, pair, start | process control |

What is hard here: five threads and the display controller share MPP buffers
that are never copied; every DRM or MPP call may fail; stopping joins threads
that may be blocked in a driver; the page, the JS module and the streaming
process each believe they own the process's life; touch slots must be lifted
whatever happens to the device. PROJECT.json lists each hazard at its line.

Correctness, part by part: the presentation path never lets a buffer be written
while it is scanned out, leaks none, shows pictures in order and always the last
one, and can be stopped but for two races told below; process control runs at most one streaming process and
its keep-alive thread is always joined; the page leaves exactly once; a touch
the host was told is down is lifted, at the latest when the device is cancelled; the device table, the poll table and the
controller numbers stay in step; a pairing that fails asks the host to forget the client.

## 2. Modules

| module | models |
|---|---|
| `RkDisplay` | the presentation path in DRM mode, with and without RGA rotation |
| `LatestWins` | what the mailbox promises, without buffers or threads |
| `RkDisplay_proofs` | the inductive invariant and the safety theorems |
| `RkDisplay_refinement` | order on the panel, and RkDisplay implements LatestWins |
| `MCRkDisplay` | constants for TLC |
| `MoonlightProcess` | the native module's process control, with the kernel's part |
| `StreamControl` | what the native module promises the pages, without processes or threads |
| `MoonlightProcess_proofs` | its inductive invariants and safety theorems, and MoonlightProcess implements StreamControl |
| `MCMoonlightProcess` | constants for TLC |
| `FramePage` | the frame page's starts, watchdog and ways out |
| `FramePage_proofs` | its inductive invariant and safety theorems |
| `TouchPanel` | a touch panel, the kernel and libevdev, as `evdev.c` reads them |
| `TouchScreen`, `TouchPad` | what the two touch modes make of the panel's events |
| `TouchDevice` | both, as one device of one session chooses |
| `TouchDevice_proofs` | inductive invariants and safety theorems of screen mode |
| `TouchPad_proofs` | the same for touchpad mode, and the type invariant of the device |
| `EventLoop` | the poll table and the walk over it |
| `InputDevices` | device table, players, hotplug, mouse-emulation threads, over `EventLoop` |
| `StreamSession` | the main thread from `loop_init` to the end, over `InputDevices` |
| `StreamSession_proofs` | its inductive invariant and safety theorems |
| `Pairing` | keys, server status, pairing and unpairing, with the host's part |
| `Pairing_proofs` | its inductive invariant and safety theorems |

### RkDisplay and the code

Variables carry the names of the code's where there are any (`eos` is `frm_eos`,
`retries` is `frame_thread`'s `count`). `slot` has one entry per variable that
owns an `MppFrame`: `frame`, `replaced`, `display_pending`, `submitted`,
`display_current`, `display_retired`, `previous`. A buffer is named by its index
in `frame_to_drm`; `pic` and `dest` say which picture it and its rotated copy
contain, which is how a property can say that a picture was overwritten on
screen. A critical section of `mutex` contains no blocking call, so it is one
step; calls into MPP or DRM, joins and releases are steps of their own.

| actor | code | actions |
|---|---|---|
| receive thread | `rk_submit_decode_unit` | SubmitUnit, PutPacket |
| MPP (external) | as `rk.c` uses it | AnnounceFormat, Decode, DecodeNothing |
| `frame_thread` | 715-1021 | FrameLoop, EnterGet, AttachGroup, AttachFail, RefuseFormat, GetFrame, GetEmptyFrame, GetError, GetNothing, RotateFrame, RotateFail, QueueFrame, ReleaseReplaced |
| `display_thread` | 641-713 | DisplayExit, DisplaySleep, SpuriousWakeup, DisplayTake, Commit, CommitFail, VBlankDone, ReleasePrevious, VBlankFail |
| display controller (external) | | VBlank |
| stopping thread | `LiStopConnection`, `rk_cleanup` | StopStream, BeginCleanup, ResetDecoder, JoinFrame, DisablePlane, DisableFail, OffWait, ReleaseMailbox |

Assumed of the outside: MPP announces the format once, writes only into buffers
no frame refers to, hands frames out in decode order, and its `reset` wakes a
`decode_get_frame` that is blocked at that moment (`fpc` goes from "get" to
"woken") and no later one; the plane scans out its last FB from the next vblank
on. The test of `frm_eos` (FrameLoop) and the call (EnterGet) are two steps, as
no lock holds them together (`rk.c:722`, 724). A frame without a buffer
(`rk.c:1001`) is GetEmptyFrame, which may carry the end-of-stream flag; the
`exit(EXIT_FAILURE)` of the buffers' set-up (`rk.c:837` to 888) is AttachFail and
ends all threads ("exited"). `Faults` names the calls that may fail in a run.

### MoonlightProcess and the code

`moonlightPid`, `keepAlive`, `otgActive` are the class's `moonlightPid_`,
`screenKeepAliveRunning_`, `otgHostActive_`; `pidFile` is the content of
`MOONLIGHT_PID_FILE`, `otg` the mode written to the USB controller, `proc` and
`children` are the kernel's. `js` is where the JS thread is in the one call it
runs; a call is split where the keep-alive thread, a child or the kernel can come
between, and what lies between two such points is one step.

| actor | code in `JSRgbFramePlayer.cpp` | actions |
|---|---|---|
| JS thread: stop | 1010-1070 and its helpers | Begin, QuietKeepAlive, JoinKeepAlive, NothingToStop, Signal, PollFinds, PollAgain, KillOrphan, KillChild, Reap, Destroy |
| JS thread: start | `startMoonlightProcess` | Begin, the stop, then Prepare, PrepareFails, Fork, ForkFails, Record, StartKeepAlive, StartKeepAliveAborts |
| JS thread: poll, pair | `isMoonlightProcessRunning`, `pairMoonlightProcess` | Poll, BeginPair, PairEnds, PairTimeout |
| keep-alive thread | `screenKeepAliveLoop` | KeepAliveTop, KeepAlivePower, KeepAliveHost, KeepAliveLook, KeepAliveEnter, KeepAliveBlock, KeepAliveTimeout |
| child between fork and execv | 834-889 | ChildStarts |
| kernel, other processes (external) | | ChildExits, KilledDies, StrangerStarts, StrangerEnds, AppCrashes, AppRestarts |

`StreamControl` is what the pages may rely on: a stream is "none", "running" or
"ended" and not yet noticed, and a page waits for at most one call. There is one
stream at a time, a start comes after the end of the one before, and only a
stream that has ended is forgotten, unless the mini-app itself ends. `StreamOf`
maps `moonlightPid` and the state of the process it names to the stream,
`AskedOf` maps `js` to the call. The steps of a stop before its end, of the
keep-alive thread and of strangers stutter. The orphan of a mini-app that crashed
is no stream of the one started next: OrphansAreTold and RecordOutlivesProcess
are about it.

Simplifications: option parsing and the copy of the runtime are one "prepare"
that may fail; setting the controller back to OTG is taken to succeed; a signal
that reaches a stranger is recorded by `SignalsOwnChild` and does not kill it;
a mini-app that aborts is not started again in a run without crashes.

### FramePage and the code

A JavaScript callback runs alone, so each is one action: Open (`index.vue`
`startStream`), OnShow, Hide (`onHide`), Back (`onUnload`), VolumeKnown (the
volume manager or its 300 ms timeout), Watch (the interval of
`startMoonlightWatchdog`), Leave (the 100 ms timer of `leaveBlankFrame`).
`moonlightRunning`, `moonlightStarting`, `moonlightStartToken`, `leavingFrame`
are the page's; `pending` holds the tokens of starts whose volume is not known
yet, stale ones included. A native call blocks the JS thread, so it is atomic
here and does what `MoonlightProcess` shows: after a stop there is no stream, a
start stops first, a poll reaps. `Asked` is that poll. The tokens of a page that
is created again go on from the closed page's instead of from 0: the callbacks
of the closed page find their own token outdated either way.

The framework keeps a page that `navTo` leaves and shows it again later; this is
what `tools/miniapp_docs.md` and `src/base-page.js` say of it.

### Touch and the code

`TouchPanel` is the environment: which contacts are in the panel's slots, what
libevdev believes, the frame in progress, and overflows of the event queue, after
which `evdev_handle` goes on without asking for what was lost. It keeps three
current slots: the kernel's (`mtSlot`), libevdev's (`readSlot`) and the code's
(`touchSlot`). The kernel sends ABS_MT_SLOT only when the slot changes (SlotRead),
so a device that is opened with the kernel at another slot than 0, with or
without fingers on it, has its first reports written to slot 0: `stray` records
that this has happened, or that it did so after lost events. Reports of one
finger need not carry both axes, nor a tracking id that libevdev drops. Four kinds of panel
are told apart: slots only; slots with the kernel's pointer emulation; a single
contact that sends BTN_TOUCH before or after its coordinates.

| code | actions |
|---|---|
| `touch_utils.c` | the slot operations of `TouchScreen`: begin, end, move, flush |
| `evdev.c`, screen mode, 731-817 and the EV_ABS, EV_KEY, EV_SYN cases | `TouchScreen`: a report of a slot, a single contact, SYN, cancel, reopen |
| `evdev.c`, touchpad mode, 480-647 | `TouchPad`: the same reports, taps, drags, clicks, scrolling |

`sent` and the host's pointers are separate variables, so that a property can
say that the two differ. Coordinates are only known or unknown, and near or far
from where a touch began; times are only within the tap time or past it.

### EventLoop, InputDevices, StreamSession and the code

| code | actions |
|---|---|
| `loop.c` | AddFd, RemoveFd, Onward, Poll; `walk` is the loop's index, `revents` what poll said |
| `evdev_create`, `evdev_scan_devices`, `udev.c` | Create, Monitor, Rescan, ScanNode |
| `evdev_handle`, `evdev_handle_event` | OtherInput, FirstPadInput, EmulationOn, EmulationOff |
| `evdev_remove` | RemoveDevice, Joined |
| `HandleMouseEmulation` | ThreadEnds, ThreadStrays |
| `main.c` `stream`, `connection.c` | Connect, Walks, LeavesByInput, LeavesBySignal, StopConnection, QuitApp, Terminate |
| calls that do not return; `exit` | Hangs, Aborts |

One handler call is one step, except where it waits: a `pthread_join` and the
nodes of a scan, between which devices come and go. The emulation thread is
started with a pointer into the array: `thread` is the index that pointer now
leads to, `Freed` once `realloc` has moved or cut the block; what a thread reads
through a freed pointer is free (ThreadStrays: it may end, or never). `emulates`
keeps the flags of the records past `numDevices`, which such a thread reads.

Leaving takes several steps: `loop_main` returns (`main` is "stop"; `evdev_stop`
cancels the touches, which is in `TouchDevice`), LiStopConnection, with
quitappafter also `gs_quit_app` ("quit"), then the end. LiStartConnection and
LiStopConnection wait for threads, which `rk_hang` shows may never end, and
`gs_quit_app` for a host without a timeout: each may hang for good (Hangs,
"hung"), with SIGTERM blocked, so that only SIGKILL, which `MoonlightProcess`
sends, ends the process. Aborts stands for that, for the `exit` after a device
that cannot be read (`evdev.c:1526`) and for those of `rk.c`. Devices that come
and go after the loop is left are not modelled, as nobody looks at them.

### Pairing and the code

`client` is the line of `gs_init`, `gs_pair` or `gs_unpair` the process is at;
`keys` is what the two files hold. `session`, `pin`, `trusts` belong to the host,
modelled from what the client's requests and its reading of the answers imply.
Each phase is Answered (the host agrees or not) or RequestFails (lost before or
after the host handled it, or an answer the client refuses); both kinds of
failure take the label `cleanup`, which asks the host to unpair. The host obeys,
refuses or does not hear (`unpairing`): `gs_unpair` takes any answer for success,
a refusal too. Cryptography is abstract: the
client finds out from the answer to its third request, the host from the fourth,
whether both used one PIN. A request that reaches the host is taken to reach it
before the next one.

## 3. Runs

| run | instance | checks |
|---|---|---|
| `rk_faults` | 5 buffers, 5 pictures, rotation, everything fails but turning the plane off | TypeOK; SoleOwner (no buffer leaked or freed twice); FramesOutliveScanout; StatsAccount; DecoderHeadroom (MPP always has a buffer left); CleanupReturnsAll; IsLatestWins (refinement of `LatestWins`) |
| `rk_live` | 3 buffers, 4 pictures, nothing fails | ServesLatestWins, PictureReachesScreen, StopCompletes |
| `rk_hang` | 4 buffers, 3 pictures, rotation, everything fails | ScreenMovesForward, StopHangsOnlyWedged |
| `proc_calls` | 3 process ids, 2 polls, any calls, no crash | ProcessTypeOK, NoLostChild, SignalsOwnChild, HostModeIsTemporary, CallsReturn, IsStreamControl (refinement of `StreamControl`) |
| `proc_crash` | 3 process ids, 2 polls, crashes and restarts | OrphansAreTold, RecordOutlivesProcess |
| `proc_abort` | 2 process ids, nothing fails | finding: AppSurvives |
| `frame_page` | 4 visits | FrameTypeOK, HiddenNeverStreams, StartingIsResolved, StreamIsNotRestarted, DeadStreamLeaves, FreshPageResolves |
| `frame_stranded` | 4 visits | finding: NotStranded |
| `touch` | 2 client slots, 2 panel slots, 2 contacts, 4 kinds of panel, hosts with and without touch, both modes, 1 overflow | DeviceTypeOK, HostFollowsSlots, ScreenQuietWhenLifted, FallbackHolds, PadFollowsFingers, GesturesFollowFingers |
| `touch_phantom` | 2 slots, a panel with pointer emulation | finding: NoPhantomTouch |
| `devices` | 2 device nodes, 1 player number | SessionTypeOK, TablesAgree, PlayersDistinct, SessionEnds, PluggedInputIsServed |
| `pairing` | 3 polls | PairingTypeOK, SidesAgree, PairingReturns |

Bounds. The display path holds at most four buffers (being rotated or displaced,
pending, current, previous), so with five MPP always has one and every overlap
of owners occurs; three buffers make MPP run dry, which is what `rk_live` wants.
`rk_hang` has four, because MPP, which owes nobody a dropped packet, would stand
still with three that are all held, and hangs for other reasons are what that run
looks for. Four pictures are enough for one to be displaced while another
is on screen and a third retires, three for a stop in every stage of a picture; `PacketCap` 1 makes the receive thread meet a
full MPP. `Buffers` is symmetric: no run treats two buffers differently. In
`proc_*` three ids are the own child, an orphan or a pairing process, and a
stranger; two polls give a first, a last and the SIGKILL after it (the code has
20). `MaxVisits` 4 is a first visit, a return from the background, a second
visit and one more after the page has left by itself. `touch` opens devices with
the kernel at either slot and any fingers on the panel, and has an overflow at any
event; slots of the panel beyond the client's table are left to the theorems,
which cover any number of both (a third slot takes TLC beyond five minutes). Two nodes make one device leave
while another's entry follows it in the table, come back before its entry is
gone, and share the one player number; with two numbers, two nodes could not
share one (the theorems cover any number of both). Three polls are a first, a
middle and the last one (the code has 61).

`CHECK_DEADLOCK FALSE` stands where the program may really stop: a receive
thread that spins on a full MPP or a `frame_thread` nobody wakes (`rk_*`), a mini-app that aborted (`proc_*`), a
user whose visits are used up and who watches the page for ever (`frame_*`), a
session that has ended (`devices`).

Fairness. `FairSpec`: threads are scheduled, MPP decodes a packet when it has a
buffer for it (that it drops one is possible and never owed), the controller
refreshes, cleanup runs on once begun. `FairProcessSpec`: the JS
thread and the keep-alive thread are scheduled, timed waits end, SIGKILL kills.
`FairFrameSpec`: the framework delivers `onShow`, timers fire, the volume
manager answers or its timeout does. `StreamSession`: the main thread and an
emulation thread whose flag is down are scheduled; the rescan timer is periodic,
so its handler is not passed over for ever (SF). `Pairing`: the process goes on,
a request is answered if it does not fail. Nothing relies on the user, the
host's agreement, a stream that ends, SIGTERM being obeyed, a call that fails, a
stray thread that stops or a spurious wakeup. A session in LiStopConnection or
`gs_quit_app` either goes on or hangs; SessionEnds excepts the hang by name.

### Findings

* `proc_abort`: after a stream ended by itself and a poll reaped it, the
  keep-alive thread ends by itself, the stop skips the join, and the next start
  or the destructor meets a joinable `std::thread`: `std::terminate`.
* `frame_stranded`: `leavingFrame` is never cleared, and the framework keeps the
  page: after it has left once by itself, it never starts a stream again.
* `touch_phantom`: ABS_X and ABS_Y always mean slot 0, so a panel that sends them
  beside its slots makes the host see a touch no finger makes.

### Seen while modelling

Behaviours the models show, or leave out, that no line of the repository speaks
against, listed for whoever changes the code:

* `frame_thread` tests `frm_eos` and then calls a blocking `decode_get_frame`. If
  `rk_cleanup` raises the flag and resets MPP in between, nothing wakes the call
  and the join never ends (`rk.c:722`, 1415-1422): `Stranded` in StopCompletes,
  StopHangsOnlyWedged and ServesLatestWins. Short of that, and of the receive
  thread that spins on a full MPP (`Wedged`, after a failure), a stop completes.
* A device opened while the kernel's current slot is not 0 has its first reports
  taken for slot 0 (`evdev.c:1301`, 1707). Two fingers may then share a slot: a
  touch of the host is forgotten until the device is cancelled, a tap of two
  fingers is a left click, two fingers move the pointer. The touch properties are
  stated for the time before (`~stray`), cancelling and the remembered button for
  all time.
* `gs_unpair` does not look at the status of the answer: "Succesfully unpaired"
  (`main.c:448`) is also said of a host that refused.
* When `disable_video_plane` fails, `rk_cleanup` releases the frames all the
  same (`rk.c:1402`); `rk_hang` shows that nothing writes them any more.
* A second info-change frame fails `assert(!mpi_frm_grp)` (`rk.c:737`), and the
  receive thread adds to the DRM request `display_thread` commits (`rk.c:1628`).
* When the pid file cannot be written, a start succeeds, but the keep-alive
  thread ends in its first round.
* The emulation thread's pointer does not move with its record (`evdev.c:1242`).
  If it then reads a raised flag, or freed memory, `pthread_join` may wait for
  ever, also for a SIGTERM: `Wedged` in SessionEnds and PluggedInputIsServed,
  which show that a join hangs for no other reason.
* `stream()` does not look at the result of `LiStartConnection` (`main.c:174`).
* A quit combination of keys ends the session from any keyboard; switching mouse
  emulation off does not release its buttons.
* `connection.c:81` tests `rumble_handler` and calls `rumble_triggers_handler`.
* A process killed inside `mkcert_save` leaves an empty certificate, or one
  without a key, for ever: no later process replaces it (outcome `noKeys`, or
  pairings that fail).
* `http_request` sets no timeout: `PairingReturns` assumes that requests end.

## 4. Proofs

All proofs are for every value of the constants: any number of buffers,
pictures, process ids, polls, visits, slots, contacts and losses, any device
nodes and number of players, and any set of faults.

| theorem | says |
|---|---|
| TypeCorrect | types of `RkDisplay` |
| BuffersHaveSoleOwner, CleanupReturnsEverything, StatsAddUp, DecoderHasHeadroom | SoleOwner, CleanupReturnsAll, StatsAccount, DecoderHeadroom |
| StreamingScanoutIsHeld | FramesOutliveScanout, whatever fails, until the plane is to be turned off |
| ScanoutIsHeld | FramesOutliveScanout, if the plane can be turned off |
| PanelMovesForward | ScreenMovesForward, whatever fails |
| DisplayIsLatestWins | `RkDisplay` implements `LatestWins`, if the plane can be turned off |
| ProcessTypeCorrect, ChildrenAreAccounted, RecordIsKept, OrphansGetTheSignal | ProcessTypeOK, NoLostChild, RecordOutlivesProcess, OrphansAreTold |
| StopSignalsOwnChild, HostModeIsRestored | SignalsOwnChild, HostModeIsTemporary, if the mini-app does not crash |
| ProcessIsStreamControl | `MoonlightProcess` implements `StreamControl`, crashes included |
| FrameTypeCorrect, HiddenPageIsQuiet, StartsAreResolved, RunningStreamIsKept | FrameTypeOK, HiddenNeverStreams, StartingIsResolved, StreamIsNotRestarted |
| SlotsStayInStep | until an event is lost, the code's current slot is the kernel's, or still the 0 it starts with |
| HostNeverForgotten, HostLetsGo, FallbackButtonHeld | HostFollowsSlots, ScreenQuietWhenLifted, FallbackHolds |
| DeviceTyped, PadFollows, GesturesFollow | DeviceTypeOK, PadFollowsFingers, GesturesFollowFingers |
| SessionTypeCorrect, TablesStayInStep, PlayersStayApart | SessionTypeOK, TablesAgree, PlayersDistinct |
| PairingTypeCorrect, ClientAndHostAgree | PairingTypeOK, SidesAgree |

The argument for `RkDisplay`: SoleOwner is not inductive, because it does not
say which variables may own a buffer at which point of each thread. `StreamInv`
adds that (`SlotsInUse`), which threads have ended when cleanup goes on
(`StopOrder`) and that what is earlier in the pipeline is newer
(`PictureOrder`). `PlaneOwned` adds where the buffers the panel shows, or will
show from the next vblank on, are held while streaming (`display_current`,
`display_retired` or the submitted frame), which is why the release in
ReleasePrevious is safe; `PlaneOff` adds what disabling the plane does, if it
works. PanelMovesForward needs no such condition: `LatchedNewer` says that what
the plane was last given is newer than what the panel still shows, which follows
from `PlaneOwned` while streaming and stays true afterwards, because the threads
that write pictures have ended. `PlaneInv` adds the numbering of pictures
(`Numbering`), which the refinement needs: the next frame queued is the next
number the mailbox of `LatestWins` gives out. The refinement maps the slots to
that mailbox; most steps stutter.

`MoonlightProcess`: `ProcessInv` ties `target`, `moonlightPid` and the pairing
process to where the JS thread is; `KeepAliveInv` says in which states the
keep-alive thread can still write host mode; `UncrashedInv` is what holds as
long as no crash separates the pid file from the children. `FramePage`:
`StartInv` says that a start waits for its volume exactly while
`moonlightStarting` is set, and only in the page in front.

ProcessIsStreamControl needs `ProcessInv` only. The end of every branch of the
stop forgets `moonlightPid_`; that the stream it names has ended by then is
`TargetInv`: the process that is signalled and waited for is the stream, if there
is one. Neither a pairing nor a stranger gets the stream's process id, because a
child that has not been waited for keeps it (`NoLostChild`).

DecoderHeadroom follows from `SlotsInUse` and SoleOwner: `frame_thread` owns one
frame at a time, `display_thread` one beside `display_pending` and
`display_current`, so the held buffers are a subset of a set of four.

`TouchDevice`: that the host holds nothing once the fingers are lifted needs, for
every slot, that what the client remembers as sent is what the host has, and that
an active slot either has its contact or will be reported as ended in the frame
in progress. Both need that a report is written to its own slot. `SlotsInStep`,
an invariant of the panel alone, says where that can fail while nothing is lost:
only before the code has first been told a slot; a step with `~stray'` is then
one whose slot is `touchSlot'`, and the mode's invariants are about those.

Touchpad mode: PadFollowsFingers and GesturesFollowFingers speak of `most`, the
most fingers since the panel was empty. `PadInv` says that the pad's contacts are
the panel's, as far as the client has slots for them, and that `maxFingers` is
`most`, capped at two (`MostCounted`). A panel with pointer emulation needs more:
its ABS_X begins a contact in slot 0 that no finger may have made, and only the
fall of BTN_TOUCH clears it. `EmulationAgrees` says that BTN_TOUCH is
down whenever there may be such a contact: while it is up, the pad's contacts
have come in the frame in progress and are on the panel. What the slot
operations do to the contacts, the count and the button is stated once per
operation (`Began`, `Ended`, `Alike`); counting uses the library's theorems on
finite sets.

`StreamSession`: the three invariants, restated over index ranges,
are inductive together (`SessionInv`): a new entry's descriptor is closed, hence
in no record and not in the poll table; the entry that `loop_remove_fd` moves up
and the record that `evdev_remove` moves up keep what they are about; a free
player number is nobody's. `Pairing`: an outcome belongs to a process that has
ended, during which the host does not change its list, and the last phase is
reached with both keys only; and every failure passes through the unpair request.

Only model-checked: liveness (ServesLatestWins, PictureReachesScreen,
StopCompletes, StopHangsOnlyWedged, CallsReturn, DeadStreamLeaves,
FreshPageResolves, SessionEnds, PluggedInputIsServed, PairingReturns), which needs
ENABLED. Every invariant and action property and both refinements that the
passing runs check are theorems, under the conditions of the runs that check
them.

## 5. Not modelled

Input devices named on the command line (udev's autoload off) and a rescan timer
that cannot be created are not modelled. `rk_setup`'s device discovery and HDR properties are sequential and read the
hardware once. A second resolution change in mid-stream is not, as what MPP then
does is not visible in the repository. The RGB-frame mode has one writer and one
copier without a lock; how long the framework keeps the JS buffer it copies to is
not visible either. The mapping of keys, axes, rumble and LEDs to messages is
data. Starting, listing and quitting applications is one request each, after
which the process goes on or ends. The index page is dialogs over the calls
`MoonlightProcess` models. Options, SPS rewriting and configuration are data
conversions without state. Audio, the other video back ends and the SDL, X11 and
CEC front ends are thin wrappers or not built for this device. common-c and the
SDK are third-party: what is needed of them appears as external actions.

## 6. What could come next

The frame page over `StreamControl` instead of its own account of the native
calls; the shared RGB frame; application start and quit.
