---------------------------- MODULE TouchDevice ----------------------------
(***************************************************************************)
(* A touch device of evdev.c in the mode the session was started with.     *)
(***************************************************************************)
EXTENDS TouchScreen, TouchPad

VARIABLE touchpadMode  \* MOONLIGHT_RK_TOUCH_MODE says "touchpad"

touchVars == <<screenVars, padVars, touchpadMode>>

(* Touchpad mode sends no touches: what the host takes makes no difference.*)
TouchInit ==
  /\ touchpadMode \in BOOLEAN
  /\ ScreenInit /\ PadInit
  /\ touchpadMode => supported

TouchNext ==
  \/ ~touchpadMode /\ ScreenNext /\ UNCHANGED <<pad, sent, most, touchpadMode>>
  \/ /\ touchpadMode /\ PadNext
     /\ UNCHANGED <<supported, deviceVars, flush, hostVars, touchpadMode>>

TouchSpec == TouchInit /\ [][TouchNext]_touchVars

DeviceTypeOK == touchpadMode \in BOOLEAN /\ TouchTypeOK /\ PadTypeOK
=============================================================================
