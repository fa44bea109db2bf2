---------------------------- MODULE TouchScreen ----------------------------
(***************************************************************************)
(* Screen mode of the touch input (evdev.c, touch_utils.c): every contact  *)
(* is a touch of the host, or, if the host takes no touches, one contact   *)
(* at a time holds the left mouse button.                                  *)
(***************************************************************************)
EXTENDS TouchPanel

CONSTANT HostTakesTouch  \* the kinds of host considered, a set of Booleans

ASSUME HostAssumption == HostTakesTouch \subseteq BOOLEAN

VARIABLES
  supported,         \* the host of this connection takes touch events
  touchSlots,
  directUnsupported, \* touchDirectUnsupported
  mouseSlot,         \* touchMouseSlot
  mouseDown,         \* touchMouseDown
  flush,             \* the slot evdev_flush_touch is at, or Rest
  hostTouches,       \* the host: pointer ids that are down
  hostButton         \* the host: the left button is down

deviceVars == <<touchSlots, directUnsupported, mouseSlot, mouseDown>>
hostVars == <<hostTouches, hostButton>>
screenVars == <<panelVars, supported, deviceVars, flush, hostVars>>

Rest == MaxSlots + 1
NoSlotPastEnd == MaxSlots  \* mutant: the sentinel is an index
NoSlot == -1
Ids == TrackingIds \cup {0}
Slot == [active : BOOLEAN, sent_down : BOOLEAN, x_valid : BOOLEAN,
         y_valid : BOOLEAN, dirty : BOOLEAN, up_pending : BOOLEAN,
         tracking_id : Ids \cup {Lifted}]

SlotReset ==
  [active |-> FALSE, sent_down |-> FALSE, x_valid |-> FALSE, y_valid |-> FALSE,
   dirty |-> FALSE, up_pending |-> FALSE, tracking_id |-> Lifted]
SlotBegin(id) == [SlotReset EXCEPT !.active = TRUE, !.tracking_id = id]
SlotUpdate(slot, axes) ==
  IF axes = {} THEN slot
  ELSE LET begun == IF slot.active THEN slot ELSE SlotBegin(0) IN
       [begun EXCEPT !.x_valid = @ \/ "x" \in axes, !.y_valid = @ \/ "y" \in axes,
                     !.dirty = TRUE]
SlotEndResets(slot) == SlotReset  \* mutant: the touch is forgotten before its UP
SlotEnd(slot) ==
  IF slot.active \/ slot.sent_down
  THEN [slot EXCEPT !.active = FALSE, !.up_pending = TRUE, !.dirty = FALSE]
  ELSE slot
SlotTrack(slot, id) == IF id = Lifted THEN SlotEnd(slot) ELSE SlotBegin(id)

Fresh == [s \in Slots |-> SlotReset]
DeviceCreated ==
  /\ touchSlots' = Fresh /\ directUnsupported' = FALSE
  /\ mouseSlot' = NoSlot /\ mouseDown' = FALSE

ScreenInit ==
  /\ PanelInit
  /\ supported \in HostTakesTouch
  /\ touchSlots = Fresh /\ directUnsupported = FALSE
  /\ mouseSlot = NoSlot /\ mouseDown = FALSE
  /\ flush = Rest
  /\ hostTouches = {} /\ hostButton = FALSE

(* ABS_MT_SLOT if it changes, ABS_MT_TRACKING_ID likewise, and the         *)
(* positions the kernel finds changed since this slot's last contact.      *)
Report(s, id, axes) ==
  /\ flush = Rest
  /\ Contact(s, id, axes # {}) /\ (id = Lifted => axes = {})
  /\ LET Touch(slot) == IF TrackingIdSent(s, id) THEN SlotTrack(slot, id) ELSE slot
     IN touchSlots' = IF touchSlot' \notin Slots THEN touchSlots
                      ELSE [touchSlots EXCEPT ![touchSlot'] = SlotUpdate(Touch(@), axes)]
  /\ UNCHANGED <<supported, directUnsupported, mouseSlot, mouseDown, flush, hostVars>>

(* BTN_TOUCH if it changes, then ABS_X and ABS_Y, which always mean slot 0.*)
Emulate(axes) ==
  /\ flush = Rest
  /\ Emulated /\ (Contacts = {} => axes = {})
  /\ LET released == IF key /\ ~key'
                     THEN [s \in Slots |-> SlotEnd(touchSlots[s])] ELSE touchSlots
     IN touchSlots' = [released EXCEPT ![0] = SlotUpdate(@, axes)]
  /\ UNCHANGED <<supported, directUnsupported, mouseSlot, mouseDown, flush, hostVars>>

(* BTN_TOUCH if it changes, ABS_X and ABS_Y, in the panel's order.         *)
ReportSingle(id, axes) ==
  /\ flush = Rest
  /\ SingleContact(id) /\ (id = Lifted => axes = {})
  /\ LET Touch(slot) == IF key = key' THEN slot
                        ELSE SlotTrack(slot, IF key' THEN 0 ELSE Lifted)
     IN touchSlots' = [touchSlots EXCEPT ![0] =
                         IF panel = "single" THEN SlotUpdate(Touch(@), axes)
                         ELSE Touch(SlotUpdate(@, axes))]
  /\ UNCHANGED <<supported, directUnsupported, mouseSlot, mouseDown, flush, hostVars>>

Syn ==
  /\ flush = Rest /\ FrameEnds /\ flush' = 0
  /\ UNCHANGED <<supported, deviceVars, hostVars>>

EventType(slot) ==
  IF ~(slot.x_valid /\ slot.y_valid) THEN "none"
  ELSE IF slot.up_pending THEN "UP"
  ELSE IF slot.active /\ ~slot.sent_down THEN "DOWN"
  ELSE IF slot.active /\ slot.dirty THEN "MOVE" ELSE "none"

(* evdev_send_touch_mouse_fallback                                         *)
MouseFallback(s, type) ==
  LET owner == IF mouseSlot = NoSlot /\ type # "UP" THEN s ELSE mouseSlot IN
  IF owner # s THEN UNCHANGED <<mouseSlot, mouseDown, hostButton>>
  ELSE /\ mouseDown' = (type # "UP") /\ hostButton' = (type # "UP")
       /\ mouseSlot' = IF type = "UP" /\ mouseDown THEN NoSlot ELSE owner

HostReceives(type, id) ==
  hostTouches' = CASE type = "DOWN" -> hostTouches \cup {id}
                   [] type = "UP" -> hostTouches \ {id}
                   [] OTHER -> hostTouches

FlushedSlot(slot) ==
  CASE EventType(slot) = "none" -> IF slot.up_pending THEN SlotReset ELSE slot
    [] EventType(slot) = "UP" -> SlotReset
    [] OTHER -> [slot EXCEPT !.sent_down = @ \/ EventType(slot) = "DOWN", !.dirty = FALSE]

Usable(s) == touchSlots[s].active /\ touchSlots[s].x_valid /\ touchSlots[s].y_valid

(* One turn of the loop of evdev_flush_touch.                              *)
FlushSlot ==
  /\ flush \in Slots /\ flush' = flush + 1
  /\ touchSlots' = [touchSlots EXCEPT ![flush] = FlushedSlot(touchSlots[flush])]
  /\ LET slot == touchSlots[flush]  type == EventType(slot) IN
     \/ /\ type = "none"
        /\ UNCHANGED <<directUnsupported, mouseSlot, mouseDown, hostVars>>
     \/ /\ type # "none" /\ supported
        /\ HostReceives(type, slot.tracking_id)
        /\ UNCHANGED <<directUnsupported, mouseSlot, mouseDown, hostButton>>
     \/ /\ type # "none" /\ ~supported
        /\ directUnsupported' = TRUE
        /\ MouseFallback(flush, type)
        /\ UNCHANGED hostTouches
  /\ UNCHANGED <<panelVars, supported>>

FlushEndsAlone ==  \* mutant: no other contact takes over
  /\ flush = MaxSlots /\ flush' = Rest
  /\ UNCHANGED <<panelVars, supported, deviceVars, hostVars>>
(* evdev_start_mouse_fallback_if_needed: the first usable contact takes    *)
(* over.                                                                   *)
FlushEnds ==
  /\ flush = MaxSlots /\ flush' = Rest
  /\ IF directUnsupported /\ mouseSlot = NoSlot /\ \E s \in Slots : Usable(s)
     THEN \E s \in Slots : /\ Usable(s) /\ \A t \in Slots : Usable(t) => s <= t
                           /\ MouseFallback(s, "DOWN")
     ELSE UNCHANGED <<mouseSlot, mouseDown, hostButton>>
  /\ UNCHANGED <<panelVars, supported, touchSlots, directUnsupported, hostTouches>>

CancelTouches ==  \* mutant: the emulated button is not released
  /\ flush = Rest /\ open /\ open' = FALSE
  /\ hostTouches' = {} /\ mouseDown' = FALSE /\ mouseSlot' = NoSlot /\ touchSlots' = Fresh
  /\ UNCHANGED <<panel, finger, known, key, cursor, losses, slotVars, supported,
                 directUnsupported, flush, hostButton>>
(* evdev_cancel_touch_input: the device is removed or the session stops.   *)
Cancel ==
  /\ flush = Rest /\ open /\ open' = FALSE
  /\ hostTouches' = IF directUnsupported \/ ~supported THEN hostTouches ELSE {}
  /\ hostButton' = IF mouseDown THEN FALSE ELSE hostButton
  /\ mouseDown' = FALSE /\ mouseSlot' = NoSlot /\ touchSlots' = Fresh
  /\ UNCHANGED <<panel, finger, known, key, cursor, losses, slotVars, supported,
                 directUnsupported, flush>>

(* The device comes back: evdev_create.                                    *)
Reopen ==
  /\ ~open /\ Opened /\ DeviceCreated
  /\ UNCHANGED <<panel, supported, flush, hostVars>>

QueueOverflows ==
  /\ flush = Rest /\ Overflow
  /\ UNCHANGED <<supported, deviceVars, flush, hostVars>>

ScreenNext ==
  \/ \E s \in PanelSlots, id \in TrackingIds \cup {Lifted}, axes \in SUBSET Axes :
       Report(s, id, axes)
  \/ \E axes \in SUBSET Axes : Emulate(axes)
  \/ \E id \in TrackingIds \cup {Lifted}, axes \in SUBSET Axes : ReportSingle(id, axes)
  \/ Syn \/ FlushSlot \/ FlushEnds
  \/ Cancel \/ Reopen \/ QueueOverflows

ScreenSpec == ScreenInit /\ [][ScreenNext]_screenVars

-----------------------------------------------------------------------------
TouchTypeOK ==
  /\ PanelTypeOK
  /\ supported \in BOOLEAN
  /\ touchSlots \in [Slots -> Slot]
  /\ directUnsupported \in BOOLEAN
  /\ mouseSlot \in Slots \cup {-1}
  /\ mouseDown \in BOOLEAN
  /\ flush \in 0..Rest
  /\ hostTouches \subseteq Ids \cup {Lifted}
  /\ hostButton \in BOOLEAN

(* Every touch the host holds down belongs to a slot that will lift it     *)
(* (ml_touch_slot_begin).                                                  *)
HostTouchesTracked ==
  \A id \in hostTouches :
    \E s \in Slots : touchSlots[s].sent_down /\ touchSlots[s].tracking_id = id

(* The button is held for a contact whose release is still to come.        *)
ButtonTracked ==
  mouseDown =>
    LET slot == touchSlots[mouseSlot] IN
    slot.x_valid /\ slot.y_valid /\ (slot.active \/ slot.up_pending)

(* The button the host holds is the one the client remembers, whatever was *)
(* lost; while every report is taken for its own slot, so are the touches, *)
(* and the button has a contact that will release it (evdev_flush_touch,   *)
(* evdev_send_touch_mouse_fallback).  A host that takes no touches is given*)
(* the button only.                                                        *)
HostFollowsSlots ==
  /\ hostButton = mouseDown
  /\ mouseDown = (mouseSlot # NoSlot)
  /\ hostButton => hostTouches = {}
  /\ Reliable => HostTouchesTracked /\ ButtonTracked

(* The host holds no touch and no button once the device is removed or the *)
(* session stopped, whatever was lost or taken for another slot's before   *)
(* (evdev_cancel_touch_input, evdev_stop); nor while no finger is on the   *)
(* panel, if every report was taken for its own slot.                      *)
ScreenQuietWhenLifted ==
  ~open \/ (flush = Rest /\ Idle /\ Reliable) => hostTouches = {} /\ ~hostButton

(* If every report was taken for its own slot, a host without touch sees   *)
(* the button down exactly while some contact with a known position is on  *)
(* the panel, whichever finger came first or left first                    *)
(* (evdev_start_mouse_fallback_if_needed).                                 *)
FallbackHolds ==
  flush = Rest /\ cursor = 0 /\ directUnsupported /\ Reliable =>
    hostButton = (\E s \in Slots : Usable(s))

(* README.md, "Multi-touch MT slots in screen mode": the host never has    *)
(* more touches down than there are fingers on the panel, even if every    *)
(* report is taken for its own slot.                                       *)
NoPhantomTouch ==
  flush = Rest /\ cursor = 0 /\ open /\ losses = 0 /\ ~stray =>
    Cardinality(hostTouches) <= Cardinality(Contacts)
=============================================================================
