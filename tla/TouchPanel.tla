----------------------------- MODULE TouchPanel -----------------------------
(***************************************************************************)
(* A touch panel as evdev.c reads it: the contacts in the panel's slots,   *)
(* what the kernel and libevdev make of them, and the frames of events     *)
(* they arrive in.  The kernel is not part of the repository; the protocol *)
(* is the one evdev_handle_event is written for.  TouchScreen and TouchPad *)
(* say what the two touch modes do with the events.                        *)
(***************************************************************************)
EXTENDS Integers, FiniteSets

CONSTANTS
  MaxSlots,       \* ML_TOUCH_MAX_SLOTS, TOUCHPAD_MAX_SLOTS
  PanelSlotCount, \* slots of the panel, which may have more
  TrackingIds,
  Panels,         \* kinds of panel considered, see PanelKinds
  MaxLosses       \* overflows of the event queue considered

(* "mt": slots only; "emulating": slots, and BTN_TOUCH, ABS_X, ABS_Y of    *)
(* the oldest contact; "single": BTN_TOUCH, then ABS_X, ABS_Y;             *)
(* "singleLate": ABS_X, ABS_Y, then BTN_TOUCH.                             *)
PanelKinds == {"mt", "emulating", "single", "singleLate"}

ASSUME PanelAssumption ==
  /\ MaxSlots \in Nat \ {0} /\ PanelSlotCount \in Nat \ {0}
  /\ TrackingIds \subseteq Nat
  /\ Panels \subseteq PanelKinds
  /\ MaxLosses \in Nat

VARIABLES
  panel,   \* the kind of the panel
  open,    \* the device is in the table and the session has not been stopped
  finger,  \* finger[s]: tracking id of the contact in slot s, or Lifted
  known,   \* the slots libevdev believes in contact
  key,     \* the last BTN_TOUCH the kernel sent, if the panel has one
  cursor,  \* first slot the current frame may still report
  losses,  \* overflows since the device was opened
  mtSlot,    \* the slot the kernel reported last
  readSlot,  \* libevdev's current slot
  touchSlot, \* evdev.c's
  stray      \* a report has been taken for another slot's (for properties)

slotVars == <<mtSlot, readSlot, touchSlot, stray>>
panelVars == <<panel, open, finger, known, key, cursor, losses, slotVars>>

Lifted == -1
Axes == {"x", "y"}
Slots == 0..(MaxSlots - 1)
PanelSlots == 0..(PanelSlotCount - 1)
HasMtSlots == panel \in {"mt", "emulating"}   \* touchHasMtSlots
Contacts == {s \in PanelSlots : finger[s] # Lifted}

(* Contacts have distinct ids; a panel without slots has one contact.      *)
Placements ==
  {f \in [PanelSlots -> TrackingIds \cup {Lifted}] :
     \A s, t \in PanelSlots : s # t /\ f[s] = f[t] => f[s] = Lifted}
PlacementsOf(p) ==
  IF p \in {"mt", "emulating"} THEN Placements
  ELSE {f \in Placements : \A s \in PanelSlots \ {0} : f[s] = Lifted}
LastSlotsOf(p) == IF p \in {"mt", "emulating"} THEN PanelSlots ELSE {0}

(* The device is opened, perhaps with fingers on it (evdev_drain discards  *)
(* what was queued): libevdev reads the present contacts and the kernel's  *)
(* current slot, whatever it is; evdev_create assumes slot 0.              *)
Opened ==
  /\ open' = TRUE
  /\ finger' \in PlacementsOf(panel) /\ known' = {s \in PanelSlots : finger'[s] # Lifted}
  /\ key' = (panel # "mt" /\ known' # {})
  /\ cursor' = 0 /\ losses' = 0
  /\ mtSlot' \in LastSlotsOf(panel) /\ readSlot' = mtSlot'
  /\ touchSlot' = 0 /\ stray' = FALSE

PanelInit ==
  /\ panel \in Panels /\ open = TRUE
  /\ finger \in PlacementsOf(panel) /\ known = Contacts
  /\ key = (panel # "mt" /\ Contacts # {}) /\ cursor = 0 /\ losses = 0
  /\ mtSlot \in LastSlotsOf(panel) /\ readSlot = mtSlot
  /\ touchSlot = 0 /\ stray = FALSE

(* What a reader's current slot is once slot s is reported: the kernel     *)
(* sends ABS_MT_SLOT only if the slot is not the last one it reported.     *)
SlotRead(current, s) == IF mtSlot = s THEN current ELSE s

(* Slot s is reported, at most once in a frame: its contact comes, goes or *)
(* moves.                                                                  *)
Contact(s, id, moved) ==
  /\ open /\ HasMtSlots /\ cursor <= s
  /\ (finger[s] = Lifted) # (id = Lifted) \/ (moved /\ id = finger[s] /\ id # Lifted)
  /\ finger' = [finger EXCEPT ![s] = id] /\ finger' \in Placements
  /\ mtSlot' = s
  /\ readSlot' = SlotRead(readSlot, s) /\ touchSlot' = SlotRead(touchSlot, s)
  /\ stray' = (stray \/ touchSlot' # s)
  /\ known' = IF id = finger[s] THEN known
              ELSE IF id = Lifted THEN known \ {readSlot'} ELSE known \cup {readSlot'}
  /\ cursor' = s + 1
  /\ UNCHANGED <<panel, open, key, losses>>

(* The kernel sends a tracking id that changes; libevdev hands it out only *)
(* where it changes from or to -1 in its own current slot.                 *)
TrackingIdSent(s, id) ==
  finger[s] # id /\ (SlotRead(readSlot, s) \in known) = (id = Lifted)

(* Pointer emulation, after the slots of a frame.                          *)
Emulated ==
  /\ open /\ panel = "emulating" /\ cursor <= PanelSlotCount
  /\ key' = (Contacts # {}) /\ cursor' = PanelSlotCount + 1
  /\ UNCHANGED <<panel, open, finger, known, losses, slotVars>>

(* A panel without slots reports its only contact.                         *)
SingleContact(id) ==
  /\ open /\ ~HasMtSlots /\ cursor = 0
  /\ id # finger[0] \/ id # Lifted
  /\ finger' = [finger EXCEPT ![0] = id]
  /\ key' = (id # Lifted) /\ cursor' = PanelSlotCount + 1
  /\ UNCHANGED <<panel, open, known, losses, slotVars>>

(* SYN_REPORT ends the frame.                                              *)
FrameEnds ==
  /\ open /\ cursor # 0 /\ cursor' = 0
  /\ panel = "emulating" => cursor = PanelSlotCount + 1
  /\ UNCHANGED <<panel, open, finger, known, key, losses, slotVars>>

(* The kernel's queue overflows: what happened meanwhile is lost.  libevdev*)
(* would report the difference on READ_FLAG_SYNC, which evdev_handle never *)
(* passes.                                                                 *)
Overflow ==
  /\ open /\ losses < MaxLosses /\ losses' = losses + 1
  /\ finger' \in PlacementsOf(panel) /\ cursor' = 0
  /\ key' = (panel # "mt" /\ \E s \in PanelSlots : finger'[s] # Lifted)
  /\ mtSlot' \in LastSlotsOf(panel)
  /\ UNCHANGED <<panel, open, known, readSlot, touchSlot, stray>>

(* Between frames, nothing was lost and no finger is on the panel.         *)
Idle == open /\ cursor = 0 /\ losses = 0 /\ Contacts = {}

(* What the modes are written for: no event is lost, each report is taken  *)
(* for its own slot, and ABS_X and ABS_Y come from a panel without slots.  *)
Reliable == losses = 0 /\ ~stray /\ panel # "emulating"

PanelTypeOK ==
  /\ panel \in PanelKinds /\ open \in BOOLEAN /\ key \in BOOLEAN
  /\ finger \in [PanelSlots -> TrackingIds \cup {Lifted}]
  /\ known \subseteq PanelSlots
  /\ cursor \in 0..(PanelSlotCount + 1) /\ losses \in 0..MaxLosses
  /\ mtSlot \in PanelSlots /\ readSlot \in PanelSlots /\ touchSlot \in PanelSlots
  /\ stray \in BOOLEAN
=============================================================================
