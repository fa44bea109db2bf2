---------------------------- MODULE InputDevices ----------------------------
(***************************************************************************)
(* The table of input devices (evdev.c), hotplug (udev.c) and the threads  *)
(* that make a gamepad a mouse, over the event loop.  The events of one    *)
(* read loop of evdev_handle are one step, of the kinds that matter here:  *)
(* any device may send what only a gamepad does, a key or a button may     *)
(* always be the one that quits, and what a touch device sends, also when  *)
(* it goes or the session ends, is in TouchDevice.                         *)
(***************************************************************************)
EXTENDS EventLoop, FiniteSets

CONSTANTS
  Nodes,       \* numbers of the device nodes /dev/input/event<n>
  MaxGamepads  \* MAX_GAMEPADS

ASSUME InputAssumption ==
  /\ Nodes \subseteq Nat /\ IsFiniteSet(Nodes)
  /\ MaxGamepads \in Nat \ {0}

VARIABLES
  plugged,   \* the kernel: the nodes with a device
  file,      \* the kernel: state of each descriptor a device may get
  devices,   \* the first numDevices records at devices
  emulates,  \* mouseEmulation of every record of the block, also past those
  thread,    \* by descriptor: the index its emulation thread looks at
  joining,   \* index of the device whose thread is being joined, or 0
  leaving,   \* the join is part of evdev_remove
  assigned,  \* assignedControllerIds
  crowded,   \* a gamepad has had to share id 0 (for properties)
  scan       \* nodes evdev_scan_devices has still to look at

kernelVars == <<plugged, file>>
blockVars == <<devices, emulates, thread>>
joinVars == <<joining, leaving>>
playerVars == <<assigned, crowded>>
inputVars == <<loopVars, kernelVars, blockVars, joinVars, playerVars, scan>>

SignalFd == 1
MonitorFd == 2
RescanFd == 3
DeviceFds == 4..(3 + Cardinality(Nodes))
NoThread == 0
Ended == -1
Freed == -2     \* its pointer leads to freed memory
Record(fd, n) == [fd |-> fd, node |-> n, controllerId |-> -1]
Present == DOMAIN devices

FromHere(t) == Onward(t, walk)

(* evdev_create, called for node n and then for the others.  A node that is*)
(* gone cannot be opened; one that is in the device table, if only as a    *)
(* device that has left, is not opened again.  realloc cuts the block to   *)
(* size or, if it grows, may move it.                                      *)
Create(n, others) ==
  LET After(t) == IF others = {} THEN FromHere(t) ELSE table' = t /\ UNCHANGED walk
  IN
  IF n \notin plugged \/ \E i \in Present : devices[i].node = n
  THEN After(table) /\ UNCHANGED <<file, blockVars>>
  ELSE \E fd \in DeviceFds, stale, moves \in BOOLEAN :
    /\ file[fd] = "closed" /\ \A lower \in DeviceFds : lower < fd => file[lower] # "closed"
    /\ file' = [file EXCEPT ![fd] = "live"]
    /\ devices' = Append(devices, Record(fd, n))
    /\ emulates' = [j \in 1..Len(devices') |-> j <= Len(devices) /\ emulates[j]]
    /\ moves => Len(devices) = Len(emulates)
    /\ thread' = [f \in DeviceFds |->
                    IF thread[f] > Len(devices') \/ (moves /\ thread[f] > 0)
                    THEN Freed ELSE thread[f]]
    /\ After(AddFd(table, fd, "device", stale))

(* Up to loop_main: udev_init opens what is plugged in, in the order the   *)
(* enumeration gives, and adds the monitor and the timer; loop_init adds   *)
(* the signals.                                                            *)
InputInit ==
  /\ plugged \in SUBSET Nodes
  /\ LET last == Cardinality(plugged)
     IN /\ \E order \in [1..last -> plugged] :
             /\ \A i, j \in 1..last : order[i] = order[j] => i = j
             /\ devices = [i \in 1..last |-> Record(3 + i, order[i])]
        /\ emulates = [i \in 1..last |-> FALSE]
        /\ table = [i \in 1..last |-> EntryOf(3 + i, "device", FALSE)]
                   \o <<EntryOf(MonitorFd, "monitor", FALSE),
                        EntryOf(RescanFd, "rescan", FALSE), EntryOf(SignalFd, "signal", FALSE)>>
        /\ file = [fd \in DeviceFds |-> IF fd <= 3 + last THEN "live" ELSE "closed"]
  /\ walk = 0 /\ scan = {}
  /\ thread = [fd \in DeviceFds |-> NoThread] /\ joining = 0 /\ leaving = FALSE
  /\ assigned = {} /\ crowded = FALSE

-----------------------------------------------------------------------------
(* The world.                                                              *)
Plug(n) ==
  /\ n \notin plugged /\ plugged' = plugged \cup {n}
  /\ UNCHANGED <<loopVars, file, blockVars, joinVars, playerVars, scan>>
Unplug(n) ==
  /\ n \in plugged /\ plugged' = plugged \ {n}
  /\ file' = [fd \in DeviceFds |->
                IF \E i \in Present : devices[i].fd = fd /\ devices[i].node = n
                THEN "dead" ELSE file[fd]]
  /\ UNCHANGED <<loopVars, blockVars, joinVars, playerVars, scan>>

(* HandleMouseEmulation looks through the pointer it was started with: at  *)
(* its own device, at what has got there since, or at freed memory.        *)
ThreadEnds(fd) ==
  /\ thread[fd] > 0 /\ ~emulates[thread[fd]]
  /\ thread' = [thread EXCEPT ![fd] = Ended]
  /\ UNCHANGED <<loopVars, kernelVars, devices, emulates, joinVars, playerVars, scan>>
ThreadStrays(fd) ==
  /\ thread[fd] = Freed /\ thread' = [thread EXCEPT ![fd] = Ended]
  /\ UNCHANGED <<loopVars, kernelVars, devices, emulates, joinVars, playerVars, scan>>

-----------------------------------------------------------------------------
(* The main thread.  Free: it is not inside a scan or a join.              *)
Free == joining = 0 /\ scan = {}

(* udev_handle: one event, of a device that may be gone again.             *)
Monitor ==
  /\ Free /\ Calls("monitor", MonitorFd) /\ \E n \in Nodes : Create(n, {})
  /\ UNCHANGED <<plugged, joinVars, playerVars, scan>>

RescanOff ==  \* mutant: opening is left to udev's events
  /\ Free /\ Calls("rescan", RescanFd) /\ FromHere(table)
  /\ UNCHANGED <<kernelVars, blockVars, joinVars, playerVars, scan>>
(* udev_rescan_handle, then evdev_scan_devices node by node.               *)
Rescan ==
  /\ Free /\ Calls("rescan", RescanFd) /\ scan' = Nodes
  /\ UNCHANGED <<loopVars, kernelVars, blockVars, joinVars, playerVars>>
ScanNode ==
  /\ \E n \in scan :
       /\ \A m \in scan : n <= m
       /\ scan' = scan \ {n} /\ Create(n, scan \ {n})
  /\ UNCHANGED <<plugged, joinVars, playerVars>>

(* evdev_handle for device i, which is still there.                        *)
Reads(i) == Free /\ Calls("device", devices[i].fd) /\ file[devices[i].fd] = "live"
(* Keys and mice; also poll had not flagged the entry, or nothing is left. *)
OtherInput ==
  /\ Free
  /\ \/ \E i \in Present : Reads(i)
     \/ Calls("monitor", MonitorFd) \/ Calls("rescan", RescanFd)
  /\ FromHere(table)
  /\ UNCHANGED <<kernelVars, blockVars, joinVars, playerVars, scan>>

(* A button or an axis, and SYN_REPORT: the gamepad gets the first free    *)
(* player number, or 0 when there is none.                                 *)
GivePlayer(i, free) ==
  /\ Reads(i) /\ devices[i].controllerId < 0 /\ FromHere(table)
  /\ \E id \in {0} \cup free :
       /\ free # {} => id \in free /\ \A other \in free : id <= other
       /\ devices' = [devices EXCEPT ![i].controllerId = id]
       /\ assigned' = assigned \cup {id} /\ crowded' = (crowded \/ free = {})
  /\ UNCHANGED <<kernelVars, emulates, thread, joinVars, scan>>
FirstPadInputPastEnd(i) ==  \* mutant: the loop runs up to MAX_GAMEPADS
  GivePlayer(i, 0..MaxGamepads \ assigned)
FirstPadInput(i) == GivePlayer(i, 0..(MaxGamepads - 1) \ assigned)

(* Start is released after MOUSE_EMULATION_LONG_PRESS_TIME, perhaps before *)
(* the gamepad has got a player number.                                    *)
EmulationOn(i) ==
  /\ Reads(i) /\ ~emulates[i] /\ FromHere(table)
  /\ emulates' = [emulates EXCEPT ![i] = TRUE]
  /\ thread' = [thread EXCEPT ![devices[i].fd] = i]
  /\ UNCHANGED <<kernelVars, devices, joinVars, playerVars, scan>>
Joins(i) ==
  /\ Reads(i) /\ emulates[i] /\ joining' = i
  /\ UNCHANGED <<loopVars, kernelVars, devices, thread, leaving, playerVars, scan>>
EmulationOffUnsaid(i) ==  \* mutant: the flag is not lowered before the join
  Joins(i) /\ UNCHANGED emulates
EmulationOff(i) == Joins(i) /\ emulates' = [emulates EXCEPT ![i] = FALSE]

(* evdev_remove after the join.                                            *)
ForgetDevice(i) ==
  LET last == Len(devices)
  IN /\ FromHere(RemoveFd(table, devices[i].fd))
     /\ file' = [file EXCEPT ![devices[i].fd] = "closed"]
     /\ devices' = [j \in 1..(last - 1) |-> IF j = i THEN devices[last] ELSE devices[j]]
     /\ emulates' = [emulates EXCEPT ![i] = emulates[last]]
(* evdev_remove: nothing but this thread sees that numDevices is less      *)
(* before the join.                                                        *)
TakeOut(i) ==
  /\ Free /\ Calls("device", devices[i].fd) /\ file[devices[i].fd] = "dead"
  /\ IF emulates[i]
     THEN /\ emulates' = [emulates EXCEPT ![i] = FALSE]
          /\ joining' = i /\ leaving' = TRUE
          /\ UNCHANGED <<loopVars, file, devices>>
     ELSE ForgetDevice(i) /\ UNCHANGED joinVars
  /\ UNCHANGED <<plugged, thread, crowded, scan>>
RemoveKeepsId(i) ==  \* mutant: the player number is not given back
  TakeOut(i) /\ UNCHANGED assigned
RemoveDevice(i) == TakeOut(i) /\ assigned' = assigned \ {devices[i].controllerId}

(* pthread_join returns.                                                   *)
Joined ==
  /\ joining # 0 /\ thread[devices[joining].fd] = Ended
  /\ thread' = [thread EXCEPT ![devices[joining].fd] = NoThread]
  /\ joining' = 0 /\ leaving' = FALSE
  /\ IF leaving THEN ForgetDevice(joining)
     ELSE FromHere(table) /\ UNCHANGED <<file, devices, emulates>>
  /\ UNCHANGED <<plugged, playerVars, scan>>

(* loop_main returns: nothing polls any more, or reads what poll said.     *)
LoopEnds ==
  /\ table' = [i \in DOMAIN table |-> [table[i] EXCEPT !.revents = FALSE]] /\ walk' = 0
  /\ UNCHANGED <<kernelVars, blockVars, joinVars, playerVars, scan>>

(* The process ends, wherever its threads are.                             *)
Exit ==
  /\ table' = <<>> /\ walk' = 0 /\ devices' = <<>> /\ emulates' = <<>>
  /\ file' = [fd \in DeviceFds |-> "closed"] /\ thread' = [fd \in DeviceFds |-> NoThread]
  /\ assigned' = {} /\ crowded' = FALSE /\ joining' = 0 /\ leaving' = FALSE /\ scan' = {}
  /\ UNCHANGED plugged

HandleInput ==
  \/ Monitor \/ Rescan \/ ScanNode \/ OtherInput \/ Joined
  \/ \E i \in Present :
       FirstPadInput(i) \/ EmulationOn(i) \/ EmulationOff(i) \/ RemoveDevice(i)
Environment ==
  \/ \E n \in Nodes : Plug(n) \/ Unplug(n)
  \/ \E fd \in DeviceFds : ThreadStrays(fd)
=============================================================================
