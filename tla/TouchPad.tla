------------------------------ MODULE TouchPad ------------------------------
(***************************************************************************)
(* Touchpad mode of the touch input (evdev.c): fingers move the pointer,   *)
(* scroll, tap and drag.  Coordinates are abstracted to what the gestures  *)
(* tell apart: known or not, at least TOUCH_CLICK_RADIUS from where they   *)
(* began, changed since the last SYN_REPORT.                               *)
(***************************************************************************)
EXTENDS TouchPanel

VARIABLES
  pad,   \* the touchpad part of struct input_device, and the host's button
  sent,  \* what the last step sent besides presses and releases
  most   \* most fingers on known slots since they were empty (for properties)

padVars == <<panelVars, pad, sent, most>>

PadSlot == [active : BOOLEAN, x_valid : BOOLEAN, y_valid : BOOLEAN,
            far : BOOLEAN, changed : BOOLEAN, last : BOOLEAN]
NoPadSlot == [active |-> FALSE, x_valid |-> FALSE, y_valid |-> FALSE,
              far |-> FALSE, changed |-> FALSE, last |-> FALSE]
PositionValid(slot) == slot.x_valid /\ slot.y_valid

Tracked == PanelSlots \cap Slots
Active(p) == {s \in Slots : p.slots[s].active}
Count(p) == Cardinality(Active(p))    \* touchpad_active_count
CapFingers(n) == IF n > 2 THEN 2 ELSE n  \* the code asks for 1 and for 2 or more

PressLeft(p) == [p EXCEPT !.left = TRUE, !.dragging = TRUE]
ReleaseLeft(p) == IF p.dragging THEN [p EXCEPT !.left = FALSE, !.dragging = FALSE] ELSE p
ResetGesture(p) == [p EXCEPT !.maxFingers = 0, !.moved = FALSE, !.avgValid = FALSE]
UpdateMaxFingers(p) ==
  [p EXCEPT !.maxFingers = IF CapFingers(Count(p)) > @ THEN CapFingers(Count(p)) ELSE @]
MarkMoved(p, slots) ==
  [p EXCEPT !.moved = @ \/ \E s \in slots : PositionValid(p.slots[s]) /\ p.slots[s].far]

NoPad == [slots |-> [s \in Slots |-> NoPadSlot], maxFingers |-> 0, moved |-> FALSE,
          avgValid |-> FALSE, dragging |-> FALSE, lastTap |-> "none",
          left |-> FALSE, click |-> "none"]

(* touchpad_begin_slot; timed is FALSE when touchpad_update_slot_axis calls*)
(* it with a time of zero, which is within any window.                     *)
BeginPad(p, s, timed) ==
  LET begun == [p EXCEPT !.slots[s] = [NoPadSlot EXCEPT !.active = TRUE]]
      first == ResetGesture(begun)
      window == IF timed THEN {"recent"} ELSE {"recent", "old"}
  IN UpdateMaxFingers(
       IF Active(p) # {} THEN ReleaseLeft(begun)
       ELSE IF p.lastTap \in window THEN [PressLeft(first) EXCEPT !.lastTap = "none"]
       ELSE first)

(* touchpad_update_slot_axis for each axis that changed; far is where the  *)
(* contact is then.                                                        *)
UpdatePad(p, s, axes, far) ==
  IF axes = {} THEN p
  ELSE LET q == IF p.slots[s].active THEN p ELSE BeginPad(p, s, FALSE)
           was == q.slots[s]
           now == [was EXCEPT !.x_valid = @ \/ "x" \in axes,
                              !.y_valid = @ \/ "y" \in axes, !.changed = TRUE]
       IN [q EXCEPT !.slots[s] = IF PositionValid(was) THEN [now EXCEPT !.far = far]
                                 ELSE [now EXCEPT !.far = FALSE, !.last = FALSE]]

FinishGesture(p) ==
  ResetGesture(
    IF p.dragging THEN ReleaseLeft(p)
    ELSE IF p.moved THEN [p EXCEPT !.lastTap = "none"]
    ELSE IF p.maxFingers >= 2 THEN [p EXCEPT !.lastTap = "none", !.click = "rightClick"]
    ELSE IF p.maxFingers = 1 THEN [p EXCEPT !.lastTap = "recent", !.click = "leftClick"]
    ELSE p)

(* touchpad_release_slot and touchpad_release_all                          *)
ReleasePad(p, slots) ==
  IF slots \cap Active(p) = {} THEN p
  ELSE LET q == [MarkMoved(p, slots \cap Active(p)) EXCEPT !.slots =
                   [s \in Slots |-> IF s \in slots THEN NoPadSlot ELSE p.slots[s]]]
       IN IF Active(q) = {} THEN FinishGesture(q) ELSE [q EXCEPT !.avgValid = FALSE]
TrackPad(p, s, down) == IF down THEN BeginPad(p, s, TRUE) ELSE ReleasePad(p, {s})

Handled(p) == pad' = [p EXCEPT !.click = "none"] /\ sent' = p.click

PadInit == PanelInit /\ pad = NoPad /\ sent = "none"
           /\ most = IF Contacts \cap Tracked = {} THEN 0 ELSE PanelSlotCount + 1
MostFingers ==
  most' = LET n == Cardinality({s \in Tracked : finger'[s] # Lifted}) IN
          IF Contacts \cap Tracked = {} \/ n > most THEN n ELSE most

PadReport(s, id, axes, far) ==
  /\ Contact(s, id, axes # {}) /\ (id = Lifted => axes = {}) /\ MostFingers
  /\ Handled(IF touchSlot' \notin Slots THEN pad
             ELSE UpdatePad(IF TrackingIdSent(s, id)
                            THEN TrackPad(pad, touchSlot', id # Lifted) ELSE pad,
                            touchSlot', axes, far))

PadEmulateKeepsContacts(axes, far) ==  \* mutant: BTN_TOUCH 0 is ignored
  /\ Emulated /\ (Contacts = {} => axes = {})
  /\ Handled(UpdatePad(pad, 0, axes, far))
  /\ UNCHANGED most
PadEmulate(axes, far) ==
  /\ Emulated /\ (Contacts = {} => axes = {})
  /\ Handled(UpdatePad(IF key /\ ~key' THEN ReleasePad(pad, Slots) ELSE pad,
                       0, axes, far))
  /\ UNCHANGED most

PadReportSingle(id, axes, far) ==
  /\ SingleContact(id) /\ (id = Lifted => axes = {}) /\ MostFingers
  /\ LET Touch(p) == IF key = key' THEN p ELSE TrackPad(p, 0, key')
     IN Handled(IF panel = "single" THEN UpdatePad(Touch(pad), 0, axes, far)
                ELSE Touch(UpdatePad(pad, 0, axes, far)))

OneFingerNow(p) == Count(p) = 1  \* mutant: that there was another finger is forgotten
OneFinger(p) == p.maxFingers = 1 /\ Count(p) = 1
(* touchpad_flush: two fingers scroll, one that was alone moves the        *)
(* pointer; differs says whether what moved comes out as a movement.       *)
Flushed(p, differs) ==
  LET q == UpdateMaxFingers(p)
      valid == {s \in Active(q) : PositionValid(q.slots[s])}
      pair == {s \in valid : Cardinality({t \in valid : t < s}) < 2}
      two == q.maxFingers >= 2 /\ Count(q) >= 2
      one == OneFinger(q)
      full == two /\ Cardinality(pair) = 2
      delta == differs /\ \E s \in valid : q.slots[s].changed
      scrolls == full /\ q.avgValid /\ delta
      moves == one /\ delta /\ \E s \in valid : q.slots[s].last
      marked == MarkMoved(q, IF two THEN pair ELSE IF one THEN valid ELSE {})
  IN [marked EXCEPT
        !.moved = @ \/ scrolls, !.avgValid = @ \/ full,
        !.click = IF scrolls THEN "scroll" ELSE IF moves THEN "move" ELSE "none",
        !.slots = [s \in Slots |-> IF s \in valid
                                   THEN [@[s] EXCEPT !.last = TRUE, !.changed = FALSE]
                                   ELSE @[s]]]

PadSyn(differs) ==
  /\ FrameEnds /\ UNCHANGED most
  /\ Handled(IF Active(pad) = {} THEN pad ELSE Flushed(pad, differs))

(* TOUCHPAD_DRAG_TAP_WINDOW_MS pass.                                       *)
TapAges ==
  /\ pad.lastTap = "recent" /\ Handled([pad EXCEPT !.lastTap = "old"])
  /\ UNCHANGED <<panelVars, most>>

PadCancel ==
  /\ open /\ open' = FALSE
  /\ Handled([NoPad EXCEPT !.left = ReleaseLeft(pad).left])
  /\ UNCHANGED <<panel, finger, known, key, cursor, losses, slotVars, most>>

PadReopen ==
  /\ ~open /\ Opened /\ Handled([NoPad EXCEPT !.left = pad.left])
  /\ most' = IF known' \cap Tracked = {} THEN 0 ELSE PanelSlotCount + 1
  /\ UNCHANGED panel

PadOverflows == Overflow /\ Handled(pad) /\ UNCHANGED most

PadNext ==
  \/ \E axes \in SUBSET Axes, far \in BOOLEAN :
       \/ \E s \in PanelSlots, id \in TrackingIds \cup {Lifted} :
            PadReport(s, id, axes, far)
       \/ \E id \in TrackingIds \cup {Lifted} : PadReportSingle(id, axes, far)
       \/ PadEmulate(axes, far)
  \/ \E differs \in BOOLEAN : PadSyn(differs)
  \/ TapAges \/ PadCancel \/ PadReopen \/ PadOverflows

PadSpec == PadInit /\ [][PadNext]_padVars

-----------------------------------------------------------------------------
PadTypeOK ==
  /\ PanelTypeOK
  /\ pad \in [slots : [Slots -> PadSlot], maxFingers : 0..2, moved : BOOLEAN,
              avgValid : BOOLEAN, dragging : BOOLEAN, left : BOOLEAN,
              lastTap : {"none", "recent", "old"}, click : {"none"}]
  /\ sent \in {"none", "leftClick", "rightClick", "scroll", "move"}
  /\ most \in 0..(PanelSlotCount + 1)

(* The host's left button is held only for a drag of one finger; a second  *)
(* finger or a lost device lets go (touchpad_begin_slot,                   *)
(* evdev_cancel_touch_input), whatever was lost or made up before.         *)
DragIsOneFinger ==
  /\ pad.left = pad.dragging
  /\ pad.dragging => open /\ Count(pad) = 1

(* A click ends a gesture, and if every report was taken for its own slot, *)
(* the number of fingers that were on the panel together chose the button. *)
FingersChooseButton ==
  /\ sent \in {"leftClick", "rightClick"} => Active(pad) = {}
  /\ Reliable /\ most <= PanelSlotCount =>
       /\ sent = "leftClick" => most <= 1
       /\ sent = "rightClick" => most >= 2

(* The pad's contacts and buttons are those of the fingers.  Without       *)
(* fingers nothing is left over, if every report was taken for its own slot*)
(* or the panel says BTN_TOUCH, which releases all of them.                *)
PadFollowsFingers ==
  /\ DragIsOneFinger /\ FingersChooseButton
  /\ Idle /\ (stray => panel = "emulating") => Active(pad) = {}

(* If every report is taken for its own slot, a drag begins only within    *)
(* TOUCHPAD_DRAG_TAP_WINDOW_MS after a tap (on a panel that says BTN_TOUCH *)
(* before coordinates), and only a finger that has been alone moves the    *)
(* pointer: lifting one of two does not make it jump.                      *)
GesturesFollowFingers ==
  [][Reliable' /\ most <= PanelSlotCount =>
       /\ panel # "singleLate" /\ ~pad.dragging /\ pad'.dragging => pad.lastTap = "recent"
       /\ sent' = "move" => most = 1]_padVars
=============================================================================
