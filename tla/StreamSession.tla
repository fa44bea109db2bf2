--------------------------- MODULE StreamSession ---------------------------
(***************************************************************************)
(* stream() of main.c from loop_init to the end: the main thread connects, *)
(* takes the input devices, runs the event loop over them, leaves it and   *)
(* ends the connection, while the connection and the page that started it  *)
(* send it SIGTERM.                                                        *)
(***************************************************************************)
EXTENDS InputDevices

VARIABLES
  main,   \* where the main thread is
  signal  \* a SIGTERM is pending: blocked, and read through signalfd

vars == <<main, signal, inputVars>>

Init == InputInit /\ main = "connect" /\ signal = FALSE

-----------------------------------------------------------------------------
(* connection_terminated, on a thread of the library, or the page: SIGTERM *)
(* to this process, blocked since loop_init.                               *)
Terminate ==
  /\ main # "done" /\ ~signal /\ signal' = TRUE /\ UNCHANGED <<main, inputVars>>

(* LiStartConnection, whose result stream() does not look at, evdev_start. *)
Connect == main = "connect" /\ main' = "loop" /\ UNCHANGED <<signal, inputVars>>

(* A call of the library or of the host does not return: LiStartConnection,*)
(* LiStopConnection, which joins the threads of rk.c (rk_hang shows that   *)
(* they may hang), or gs_quit_app, whose requests have no timeout.         *)
Hangs ==
  /\ main \in {"connect", "stop", "quit"} /\ main' = "hung"
  /\ UNCHANGED <<signal, inputVars>>

(* The process is killed, or calls exit: a device cannot be read           *)
(* (evdev.c:1526), or a thread of rk.c gives up.                           *)
Aborts == main # "done" /\ main' = "done" /\ Exit /\ UNCHANGED signal

(* loop_main.  A handler with nothing to do (OtherInput) stands for an     *)
(* entry that is not ready, so that only the signals need be told apart.   *)
Walks ==
  /\ Poll({MonitorFd, RescanFd} \cup DeviceFds \cup (IF signal THEN {SignalFd} ELSE {}))
  /\ UNCHANGED <<main, signal, kernelVars, blockVars, joinVars, playerVars, scan>>
HandlesInput == HandleInput /\ UNCHANGED <<main, signal>>
(* loop_main returns; evdev_stop, whose part is TouchDevice's.             *)
Leaves == main' = "stop" /\ LoopEnds
(* The quit buttons, or a key after the quit combination: LOOP_RETURN.     *)
LeavesByInput == (\E i \in Present : Reads(i)) /\ Leaves /\ UNCHANGED signal
(* loop_sig_handler: each of the signals blocked ends the loop.            *)
LeavesBySignal ==
  Free /\ Calls("signal", SignalFd) /\ signal' = FALSE /\ Leaves

(* main returns: platform_stop has nothing to do on this platform.         *)
Returns == main' = "done" /\ Exit
(* LiStopConnection, then gs_quit_app, if quitappafter says so.            *)
StopConnection ==
  main = "stop" /\ UNCHANGED signal /\ (Returns \/ (main' = "quit" /\ UNCHANGED inputVars))
QuitApp == main = "quit" /\ Returns /\ UNCHANGED signal

Main ==
  \/ Connect
  \/ main = "loop" /\ (Walks \/ HandlesInput \/ LeavesByInput \/ LeavesBySignal)
  \/ StopConnection \/ QuitApp
(* What comes and goes once the loop is left nobody looks at (bound).      *)
Kernel == main \in {"connect", "loop"} /\ Environment /\ UNCHANGED <<main, signal>>
EmulationThread(fd) == main # "done" /\ ThreadEnds(fd) /\ UNCHANGED <<main, signal>>

Next ==
  \/ Main \/ Hangs \/ Aborts \/ Kernel \/ Terminate
  \/ \E fd \in DeviceFds : EmulationThread(fd)

(* The main thread and the threads whose flag is down are scheduled, and   *)
(* the timer is periodic: the scan cannot be passed over for ever.  No     *)
(* user, page, library, kernel event or stray pointer is owed anything.    *)
Fairness ==
  /\ WF_vars(Main) /\ SF_vars(main = "loop" /\ Rescan /\ UNCHANGED <<main, signal>>)
  /\ \A fd \in DeviceFds : WF_vars(EmulationThread(fd))
Spec == Init /\ [][Next]_vars /\ Fairness

-----------------------------------------------------------------------------
(* Types of the state of the event loop, the devices and the session.      *)
SessionTypeOK ==
  /\ main \in {"connect", "loop", "stop", "quit", "hung", "done"} /\ signal \in BOOLEAN
  /\ table \in Seq([fd : 1..3 \cup DeviceFds, revents : BOOLEAN,
                    handler : {"device", "monitor", "rescan", "signal"}])
  /\ walk \in 0..Len(table)
  /\ plugged \subseteq Nodes
  /\ file \in [DeviceFds -> {"closed", "live", "dead"}]
  /\ devices \in Seq([fd : DeviceFds, node : Nodes,
                      controllerId : -1..(MaxGamepads - 1)])
  /\ emulates \in Seq(BOOLEAN) /\ Len(devices) <= Len(emulates)
  /\ thread \in [DeviceFds -> {NoThread, Ended, Freed} \cup DOMAIN emulates]
  /\ joining \in 0..Len(devices) /\ leaving \in BOOLEAN
  /\ assigned \subseteq 0..(MaxGamepads - 1) /\ crowded \in BOOLEAN
  /\ scan \subseteq Nodes

(* The poll table, the device table and the open descriptors stay in step  *)
(* through adding and removing in the middle of the walk over them: each   *)
(* descriptor is polled once, with its own handler, and a device node is   *)
(* never open twice (loop_add_fd, loop_remove_fd, evdev_create,            *)
(* evdev_remove).                                                          *)
TablesAgree ==
  /\ \A i, j \in DOMAIN table : table[i].fd = table[j].fd => i = j
  /\ {<<table[i].fd, table[i].handler>> : i \in DOMAIN table} =
       (IF main = "done" THEN {} ELSE
          {<<SignalFd, "signal">>, <<MonitorFd, "monitor">>, <<RescanFd, "rescan">>})
       \cup {<<devices[i].fd, "device">> : i \in Present}
  /\ \A i, j \in Present : devices[i].fd = devices[j].fd \/ devices[i].node = devices[j].node
                            => i = j
  /\ {devices[i].fd : i \in Present} = {fd \in DeviceFds : file[fd] # "closed"}

(* Two gamepads speak for one player only as player 0, and only once there *)
(* were more than MAX_GAMEPADS; the mask sent to the host never names a    *)
(* player who is not there and misses none but player 0 (evdev.c:1060,     *)
(* evdev.c:850).                                                           *)
PlayersDistinct ==
  LET playing == {i \in Present : devices[i].controllerId >= 0 /\ ~(leaving /\ i = joining)}
      Shared(id) == crowded /\ id = 0
      players == {devices[i].controllerId : i \in playing}
  IN /\ \A i, j \in playing :
          devices[i].controllerId = devices[j].controllerId
            => i = j \/ Shared(devices[i].controllerId)
     /\ assigned \subseteq players
     /\ \A id \in players : id \in assigned \/ Shared(id)

(* The join waits for a thread whose device's record has been moved, and   *)
(* that looks at freed memory, or at another record whose flag is up: the  *)
(* emulation of another device, or what was left behind when records moved.*)
Wedged ==
  /\ joining # 0
  /\ LET at == thread[devices[joining].fd]
     IN at = Freed \/ (at > 0 /\ at # joining /\ emulates[at])

(* A SIGTERM, from the page or because the connection ended, whenever it   *)
(* comes and whatever the devices do, ends the session, unless a call that *)
(* the library or the host must answer hangs (main.c:174, 188, 193), or the*)
(* main thread waits for an emulation thread that was left behind when its *)
(* record moved; no other join hangs (evdev.c:855, evdev.c:1237).          *)
SessionEnds == signal ~> (main \in {"done", "hung"} \/ Wedged)

(* A device that is plugged in and stays is opened, also when udev did not *)
(* say so, or said so while the entry of the device before it on the same  *)
(* node was still there (udev.c:66, evdev.c:1548).                         *)
Served(n) == \E i \in Present : devices[i].node = n /\ file[devices[i].fd] = "live"
PluggedInputIsServed ==
  \A n \in Nodes :
    n \in plugged ~> (Served(n) \/ n \notin plugged \/ main \notin {"connect", "loop"} \/ Wedged)
=============================================================================
