--------------------------- MODULE TouchPad_proofs ---------------------------
(***************************************************************************)
(* Touchpad mode, for any number of slots, contacts, panels and overflows: *)
(* the gestures and the button the host sees are those of the fingers.     *)
(***************************************************************************)
EXTENDS TouchDevice_proofs, FiniteSetTheorems

Clicks == {"none", "leftClick", "rightClick", "scroll", "move"}
Pads == [slots : [Slots -> PadSlot], maxFingers : 0..2, moved : BOOLEAN,
         avgValid : BOOLEAN, dragging : BOOLEAN, left : BOOLEAN,
         lastTap : {"none", "recent", "old"}, click : Clicks]

(* The button is down for a drag, a drag is of one finger.                 *)
DragSound(p) == p.left = p.dragging /\ (p.dragging => Count(p) = 1)

(* q differs from p only in coordinates, for all that the gestures ask.    *)
Alike(p, q) ==
  /\ q \in Pads /\ Active(q) = Active(p)
  /\ q.dragging = p.dragging /\ q.left = p.left /\ q.click = p.click
  /\ q.maxFingers = p.maxFingers /\ q.lastTap = p.lastTap

MaxFingersOf(m, n) == IF CapFingers(n) > m THEN CapFingers(n) ELSE m
(* q is p after slot s has begun a contact, or after those of S have ended.*)
Began(p, s, q) ==
  /\ q \in Pads /\ DragSound(q) /\ q.click = p.click
  /\ Active(q) = Active(p) \cup {s}
  /\ q.maxFingers = IF Active(p) = {} THEN 1 ELSE MaxFingersOf(p.maxFingers, Count(q))
  /\ q.dragging => Active(p) = {}
Ended(p, S, q) ==
  /\ q \in Pads /\ DragSound(q) /\ Active(q) = Active(p) \ S
  /\ q.dragging => p.dragging
  /\ Active(q) # {} => q.maxFingers = p.maxFingers
  /\ q.click # "none" =>
       /\ Active(p) # {} /\ Active(q) = {}
       /\ \/ q.click = "leftClick" /\ p.maxFingers = 1
          \/ q.click = "rightClick" /\ p.maxFingers = 2

(* What every operation leaves behind.                                     *)
Sound(q) ==
  /\ q \in Pads /\ DragSound(q)
  /\ q.click \in {"leftClick", "rightClick"} => Active(q) = {}

-----------------------------------------------------------------------------
(* Counting fingers.                                                       *)
LEMMA SlotSets ==
  /\ 0 \in Slots /\ 0 \in PanelSlots
  /\ \A S \in SUBSET Slots : IsFiniteSet(S) /\ Cardinality(S) \in Nat
<1>1. 0 \in Slots /\ 0 \in PanelSlots
  BY PanelAssumption DEF Slots, PanelSlots
<1>2. MaxSlots - 1 \in Int
  BY PanelAssumption
<1>3. IsFiniteSet(Slots)
  BY <1>2, FS_Interval DEF Slots
<1>4. ASSUME NEW S \in SUBSET Slots
      PROVE  IsFiniteSet(S) /\ Cardinality(S) \in Nat
  BY <1>3, FS_Subset, FS_CardinalityType
<1>5. QED BY <1>1, <1>4

LEMMA Counting ==
  ASSUME NEW p
  PROVE  /\ Active(p) \in SUBSET Slots /\ Count(p) \in Nat
         /\ Count(p) = 0 <=> Active(p) = {}
         /\ Count(p) = 1 <=> \E s : Active(p) = {s}
<1>1. Active(p) \in SUBSET Slots
  BY DEF Active
<1>2. IsFiniteSet(Active(p)) /\ Count(p) \in Nat
  BY <1>1, SlotSets DEF Count
<1>3. Count(p) = 0 <=> Active(p) = {}
  BY <1>2, FS_EmptySet DEF Count
<1>4. Count(p) = 1 <=> \E s : Active(p) = {s}
  BY <1>2, FS_Singleton DEF Count
<1>5. QED BY <1>1, <1>2, <1>3, <1>4

(* One more finger is at most as many on the panel as are tracked there.   *)
LEMMA TrackedBound ==
  \A S \in SUBSET Tracked : Cardinality(S) \in 0..PanelSlotCount
<1>1. PanelSlotCount - 1 \in Int /\ PanelSlotCount \in Nat /\ 0 \in Int /\ 0 <= PanelSlotCount - 1
  BY PanelAssumption
<1>2. IsFiniteSet(PanelSlots) /\ Cardinality(PanelSlots) = PanelSlotCount
  <2>1. IsFiniteSet(0..(PanelSlotCount - 1))
    BY <1>1, FS_Interval
  <2>2. Cardinality(0..(PanelSlotCount - 1))
          = IF 0 > PanelSlotCount - 1 THEN 0 ELSE PanelSlotCount - 1 - 0 + 1
    BY <1>1, FS_Interval
  <2>3. QED BY <1>1, <2>1, <2>2 DEF PanelSlots
<1>3. ASSUME NEW S \in SUBSET Tracked PROVE Cardinality(S) \in 0..PanelSlotCount
  <2>1. S \in SUBSET PanelSlots /\ S \in SUBSET Slots
    BY <1>3 DEF Tracked
  <2>2. Cardinality(S) <= PanelSlotCount
    BY <1>2, <2>1, FS_Subset
  <2>3. Cardinality(S) \in Nat
    BY <2>1, SlotSets
  <2>4. QED BY <1>1, <2>2, <2>3
<1>4. QED BY <1>3

(* What the operations of evdev.c on the touchpad's state do to a pad.     *)
LEMMA MaxFingersUpdated ==
  ASSUME NEW p \in Pads
  PROVE  /\ UpdateMaxFingers(p) = [p EXCEPT !.maxFingers = MaxFingersOf(@, Count(p))]
         /\ UpdateMaxFingers(p) \in Pads
         /\ UpdateMaxFingers(p).slots = p.slots
         /\ UpdateMaxFingers(p).maxFingers = MaxFingersOf(p.maxFingers, Count(p))
<1>1. Count(p) \in Nat
  BY Counting
<1>2. CapFingers(Count(p)) \in 0..2
  BY <1>1 DEF CapFingers
<1>3. UpdateMaxFingers(p) = [p EXCEPT !.maxFingers = MaxFingersOf(@, Count(p))]
  BY DEF UpdateMaxFingers, MaxFingersOf
<1>4. MaxFingersOf(p.maxFingers, Count(p)) \in 0..2
  BY <1>2 DEF MaxFingersOf, Pads
<1>5. QED BY <1>3, <1>4 DEF Pads

LEMMA ButtonOperations ==
  ASSUME NEW p \in Pads
  PROVE  /\ PressLeft(p) \in Pads /\ PressLeft(p).left /\ PressLeft(p).dragging
         /\ ReleaseLeft(p) \in Pads /\ ~ReleaseLeft(p).dragging
         /\ p.left = p.dragging => ~ReleaseLeft(p).left
         /\ \A q \in {PressLeft(p), ReleaseLeft(p)} :
              /\ q.slots = p.slots /\ q.maxFingers = p.maxFingers
              /\ q.click = p.click /\ q.lastTap = p.lastTap
BY DEF PressLeft, ReleaseLeft, Pads

LEMMA GestureReset ==
  ASSUME NEW p \in Pads
  PROVE  /\ ResetGesture(p) \in Pads /\ ResetGesture(p).slots = p.slots
         /\ ResetGesture(p).maxFingers = 0
         /\ ResetGesture(p).dragging = p.dragging /\ ResetGesture(p).left = p.left
         /\ ResetGesture(p).click = p.click /\ ResetGesture(p).lastTap = p.lastTap
<1>1. ResetGesture(p) \in Pads
  <2>1. 0 \in 0..2
    OBVIOUS
  <2>2. \A zero \in 0..2 : [p EXCEPT !.maxFingers = zero, !.moved = FALSE,
                                     !.avgValid = FALSE] \in Pads
    BY DEF Pads
  <2>3. QED BY <2>1, <2>2 DEF ResetGesture
<1>2. \A f \in {"slots", "dragging", "left", "click", "lastTap"} : ResetGesture(p)[f] = p[f]
  BY DEF ResetGesture, Pads
<1>3. ResetGesture(p).maxFingers = 0
  BY DEF ResetGesture, Pads
<1>4. QED BY <1>1, <1>2, <1>3

(* touchpad_begin_slot: only a finger that comes alone can drag.           *)
LEMMA BeginEffect ==
  ASSUME NEW p \in Pads, DragSound(p), NEW s \in Slots, NEW timed \in BOOLEAN
  PROVE  LET q == BeginPad(p, s, timed) IN
           /\ Began(p, s, q)
           /\ q.dragging /\ timed => p.lastTap = "recent"
<1> DEFINE begun == [p EXCEPT !.slots[s] = [NoPadSlot EXCEPT !.active = TRUE]]
           first == ResetGesture(begun)
           window == IF timed THEN {"recent"} ELSE {"recent", "old"}
           tapped == [PressLeft(first) EXCEPT !.lastTap = "none"]
           new == IF Active(p) # {} THEN ReleaseLeft(begun)
                  ELSE IF p.lastTap \in window THEN tapped ELSE first
           q == BeginPad(p, s, timed)
<1>1. q = UpdateMaxFingers(new)
  BY DEF BeginPad
<1>2. begun \in Pads /\ begun.click = p.click /\ begun.maxFingers = p.maxFingers
      /\ begun.left = p.left /\ begun.dragging = p.dragging
      /\ begun.slots = [p.slots EXCEPT ![s] = [NoPadSlot EXCEPT !.active = TRUE]]
  BY DEF Pads, PadSlot, NoPadSlot
<1>3. \A r : r.slots = begun.slots => Active(r) = Active(p) \cup {s}
  <2>1. begun.slots[s].active
    BY <1>2 DEF Pads, NoPadSlot
  <2>2. \A t \in Slots \ {s} : begun.slots[t] = p.slots[t]
    BY <1>2 DEF Pads
  <2>3. QED BY <2>1, <2>2 DEF Active
<1> HIDE DEF begun
<1>4. first \in Pads /\ first.slots = begun.slots /\ first.click = p.click
      /\ first.left = p.left /\ first.dragging = p.dragging /\ first.maxFingers = 0
  BY <1>2, GestureReset
<1> HIDE DEF first
<1>5. tapped \in Pads /\ tapped.slots = begun.slots /\ tapped.click = p.click
      /\ tapped.left /\ tapped.dragging /\ tapped.maxFingers = 0
  <2>1. PressLeft(first) \in Pads /\ PressLeft(first).slots = begun.slots
        /\ PressLeft(first).click = p.click /\ PressLeft(first).maxFingers = 0
        /\ PressLeft(first).left /\ PressLeft(first).dragging
    BY <1>4, ButtonOperations
  <2>2. QED BY <2>1 DEF Pads
<1> HIDE DEF tapped
<1>6. /\ ReleaseLeft(begun) \in Pads /\ ReleaseLeft(begun).slots = begun.slots
      /\ ReleaseLeft(begun).click = p.click /\ ReleaseLeft(begun).maxFingers = p.maxFingers
      /\ ~ReleaseLeft(begun).dragging /\ ~ReleaseLeft(begun).left
  BY <1>2, ButtonOperations DEF DragSound
<1>7. new \in Pads /\ new.slots = begun.slots /\ new.click = p.click
      /\ new.maxFingers = IF Active(p) = {} THEN 0 ELSE p.maxFingers
  BY <1>4, <1>5, <1>6
<1>8. new.left = new.dragging
      /\ (new.dragging => Active(p) = {} /\ p.lastTap \in window)
  <2>1. Active(p) = {} => ~p.dragging /\ ~p.left
    BY Counting DEF DragSound, Pads
  <2>2. QED BY <1>4, <1>5, <1>6, <2>1 DEF Pads
<1> HIDE DEF new
<1>9. q \in Pads /\ q.slots = new.slots /\ q.click = p.click
      /\ q.left = new.left /\ q.dragging = new.dragging
      /\ q.maxFingers = MaxFingersOf(new.maxFingers, Count(new))
  BY <1>1, <1>7, MaxFingersUpdated DEF Pads
<1> HIDE DEF q
<1>10. Active(q) = Active(p) \cup {s} /\ Active(new) = Active(p) \cup {s}
  BY <1>3, <1>7, <1>9
<1>11. Count(new) = Count(q)
  BY <1>10 DEF Count
<1>12. Active(p) = {} => Count(q) = 1
  BY <1>10, Counting
<1>13. q.maxFingers = IF Active(p) = {} THEN 1 ELSE MaxFingersOf(p.maxFingers, Count(q))
  BY <1>7, <1>9, <1>11, <1>12 DEF MaxFingersOf, CapFingers
<1>14. QED
  BY <1>8, <1>9, <1>10, <1>12, <1>13 DEF DragSound, Began, q

(* touchpad_update_slot_axis: a contact that was not there begins.         *)
LEMMA UpdateEffect ==
  ASSUME NEW p \in Pads, DragSound(p), NEW s \in Slots,
         NEW axes \in SUBSET Axes, NEW far \in BOOLEAN
  PROVE  LET q == UpdatePad(p, s, axes, far) IN
           Alike(IF axes = {} \/ s \in Active(p) THEN p ELSE BeginPad(p, s, FALSE), q)
<1>1. CASE axes = {}
  BY <1>1 DEF UpdatePad, Alike
<1>2. CASE axes # {}
  <2> DEFINE r == IF p.slots[s].active THEN p ELSE BeginPad(p, s, FALSE)
             was == r.slots[s]
             now == [was EXCEPT !.x_valid = @ \/ "x" \in axes,
                                !.y_valid = @ \/ "y" \in axes, !.changed = TRUE]
             slot == IF PositionValid(was) THEN [now EXCEPT !.far = far]
                     ELSE [now EXCEPT !.far = FALSE, !.last = FALSE]
             q == UpdatePad(p, s, axes, far)
  <2>1. q = [r EXCEPT !.slots[s] = slot]
    BY <1>2 DEF UpdatePad
  <2>2. r \in Pads
    BY BeginEffect DEF Began
  <2>3. r.slots[s].active
    <3>1. Active(BeginPad(p, s, FALSE)) = Active(p) \cup {s}
      BY BeginEffect DEF Began
    <3>2. BeginPad(p, s, FALSE).slots[s].active
      BY <3>1 DEF Active
    <3>3. QED BY <3>2
  <2>4. r = IF axes = {} \/ s \in Active(p) THEN p ELSE BeginPad(p, s, FALSE)
    BY <1>2 DEF Active
  <2> HIDE DEF r
  <2>5. slot \in PadSlot /\ slot.active
    <3>1. was \in PadSlot /\ was.active
      BY <2>2, <2>3 DEF Pads
    <3>2. QED BY <3>1 DEF PadSlot
  <2> HIDE DEF slot
  <2>6. q \in Pads /\ q.slots = [r.slots EXCEPT ![s] = slot]
        /\ q.dragging = r.dragging /\ q.left = r.left /\ q.click = r.click
        /\ q.maxFingers = r.maxFingers /\ q.lastTap = r.lastTap
    BY <2>1, <2>2, <2>5 DEF Pads
  <2>7. Active(q) = Active(r)
    <3>1. \A t \in Slots : q.slots[t].active <=> r.slots[t].active
      BY <2>2, <2>3, <2>5, <2>6 DEF Pads
    <3>2. QED BY <3>1 DEF Active
  <2>8. QED BY <2>4, <2>6, <2>7 DEF Alike
<1>3. QED BY <1>1, <1>2

LEMMA MovedMarked ==
  ASSUME NEW p \in Pads, NEW slots
  PROVE  /\ MarkMoved(p, slots) \in Pads /\ MarkMoved(p, slots).slots = p.slots
         /\ Alike(p, MarkMoved(p, slots))
<1> DEFINE moved == p.moved \/ \E s \in slots : PositionValid(p.slots[s]) /\ p.slots[s].far
           q == MarkMoved(p, slots)
<1>1. moved \in BOOLEAN /\ q = [p EXCEPT !.moved = moved]
  BY DEF MarkMoved, Pads
<1> HIDE DEF moved, q
<1>2. q \in Pads
  BY <1>1 DEF Pads
<1>3. q.slots = p.slots /\ q.dragging = p.dragging /\ q.left = p.left
      /\ q.click = p.click /\ q.maxFingers = p.maxFingers /\ q.lastTap = p.lastTap
  BY <1>1 DEF Pads
<1>4. QED BY <1>2, <1>3 DEF Alike, Active, q

LEMMA FinishEffect ==
  ASSUME NEW p \in Pads, p.left = p.dragging, p.click = "none"
  PROVE  LET q == FinishGesture(p) IN
           /\ q \in Pads /\ q.slots = p.slots /\ ~q.dragging /\ ~q.left
           /\ q.click = "none"
              \/ (q.click = "leftClick" /\ p.maxFingers = 1)
              \/ (q.click = "rightClick" /\ p.maxFingers = 2)
<1> DEFINE tap == [p EXCEPT !.lastTap = "recent", !.click = "leftClick"]
           both == [p EXCEPT !.lastTap = "none", !.click = "rightClick"]
           swipe == [p EXCEPT !.lastTap = "none"]
           done == IF p.dragging THEN ReleaseLeft(p) ELSE IF p.moved THEN swipe
                   ELSE IF p.maxFingers >= 2 THEN both
                   ELSE IF p.maxFingers = 1 THEN tap ELSE p
<1>1. /\ ReleaseLeft(p) \in Pads /\ ReleaseLeft(p).slots = p.slots
      /\ ~ReleaseLeft(p).dragging /\ ~ReleaseLeft(p).left
      /\ ReleaseLeft(p).click = "none"
  BY ButtonOperations
<1>2. \A r \in {tap, both, swipe} :
        r \in Pads /\ r.slots = p.slots /\ r.dragging = p.dragging /\ r.left = p.left
  BY DEF Pads, Clicks
<1>3. swipe.click = "none" /\ tap.click = "leftClick" /\ both.click = "rightClick"
  BY DEF Pads
<1> HIDE DEF tap, both, swipe
<1>4. p.maxFingers \in 0..2 /\ p.dragging \in BOOLEAN /\ p.moved \in BOOLEAN
  BY DEF Pads
<1>5. done \in Pads /\ done.slots = p.slots /\ ~done.dragging /\ ~done.left
  BY <1>1, <1>2, <1>4
<1>6. done.click = "none" \/ (done.click = "leftClick" /\ p.maxFingers = 1)
      \/ (done.click = "rightClick" /\ p.maxFingers = 2)
  BY <1>1, <1>3, <1>4
<1>7. FinishGesture(p) = ResetGesture(done)
  BY DEF FinishGesture, tap, both, swipe
<1> HIDE DEF done
<1>8. QED BY <1>5, <1>6, <1>7, GestureReset

(* touchpad_release_slot, touchpad_release_all: the last finger ends the   *)
(* gesture, and the most there were choose the click.                      *)
LEMMA ReleaseEffect ==
  ASSUME NEW p \in Pads, DragSound(p), p.click = "none", NEW S \in SUBSET Slots
  PROVE  Ended(p, S, ReleasePad(p, S))
<1> USE DEF Ended
<1>1. CASE S \cap Active(p) = {}
  BY <1>1 DEF ReleasePad
<1>2. CASE S \cap Active(p) # {}
  <2> DEFINE left == [s \in Slots |-> IF s \in S THEN NoPadSlot ELSE p.slots[s]]
             marked == MarkMoved(p, S \cap Active(p))
             lifted == [marked EXCEPT !.slots = left]
             fewer == [lifted EXCEPT !.avgValid = FALSE]
             q == ReleasePad(p, S)
  <2>1. q = IF Active(lifted) = {} THEN FinishGesture(lifted) ELSE fewer
    BY <1>2 DEF ReleasePad
  <2>2. marked \in Pads /\ Alike(p, marked)
    BY MovedMarked
  <2>3. left \in [Slots -> PadSlot]
    BY DEF Pads, PadSlot, NoPadSlot
  <2>4. \A r : r.slots = left => Active(r) = Active(p) \ S
    BY DEF Active, NoPadSlot
  <2> HIDE DEF left, marked
  <2>5. lifted \in Pads /\ lifted.slots = left /\ lifted.click = "none"
        /\ lifted.dragging = p.dragging /\ lifted.left = p.left
        /\ lifted.maxFingers = p.maxFingers
    BY <2>2, <2>3 DEF Pads, Alike
  <2> HIDE DEF lifted
  <2>6. fewer \in Pads /\ fewer.slots = left /\ fewer.click = "none"
        /\ fewer.dragging = p.dragging /\ fewer.left = p.left
        /\ fewer.maxFingers = p.maxFingers
    BY <2>5 DEF Pads
  <2> HIDE DEF fewer
  <2>7. Active(lifted) = Active(p) \ S /\ Active(fewer) = Active(p) \ S
    BY <2>4, <2>5, <2>6
  <2>8. CASE Active(p) \ S = {}
    <3>1. q = FinishGesture(lifted)
      BY <2>1, <2>7, <2>8
    <3>2. lifted.left = lifted.dragging
      BY <2>5 DEF DragSound
    <3>3. q \in Pads /\ q.slots = left /\ ~q.dragging /\ ~q.left
          /\ (q.click = "none" \/ (q.click = "leftClick" /\ p.maxFingers = 1)
              \/ (q.click = "rightClick" /\ p.maxFingers = 2))
      BY <2>5, <3>1, <3>2, FinishEffect
    <3>4. Active(q) = {}
      BY <2>4, <2>8, <3>3
    <3>5. q.left = q.dragging
      BY <3>3 DEF Pads
    <3>6. QED BY <1>2, <2>8, <3>3, <3>4, <3>5 DEF DragSound
  <2>9. CASE Active(p) \ S # {}
    <3>1. q = fewer
      BY <2>1, <2>7, <2>9
    <3>2. ~p.dragging
      <4>1. SUFFICES ASSUME p.dragging PROVE FALSE
        OBVIOUS
      <4>2. PICK s : Active(p) = {s}
        BY <4>1, Counting DEF DragSound
      <4>3. QED BY <1>2, <2>9, <4>2
    <3>3. QED BY <2>6, <2>7, <3>1, <3>2 DEF DragSound
  <2>10. QED BY <2>8, <2>9
<1>3. QED BY <1>1, <1>2

(* touchpad_flush: only a finger that has been alone moves the pointer.    *)
LEMMA FlushEffect ==
  ASSUME NEW p \in Pads, NEW differs \in BOOLEAN
  PROVE  LET q == Flushed(p, differs) IN
           /\ q \in Pads /\ Active(q) = Active(p)
           /\ q.dragging = p.dragging /\ q.left = p.left
           /\ q.maxFingers = MaxFingersOf(p.maxFingers, Count(p))
           /\ q.click \in {"none", "scroll", "move"}
           /\ q.click = "move" => q.maxFingers = 1
<1> DEFINE r == UpdateMaxFingers(p)
           valid == {s \in Active(r) : PositionValid(r.slots[s])}
           pair == {s \in valid : Cardinality({t \in valid : t < s}) < 2}
           two == r.maxFingers >= 2 /\ Count(r) >= 2
           one == OneFinger(r)
           full == two /\ Cardinality(pair) = 2
           delta == differs /\ \E s \in valid : r.slots[s].changed
           scrolls == full /\ r.avgValid /\ delta
           moves == one /\ delta /\ \E s \in valid : r.slots[s].last
           marked == MarkMoved(r, IF two THEN pair ELSE IF one THEN valid ELSE {})
           click == IF scrolls THEN "scroll" ELSE IF moves THEN "move" ELSE "none"
           slots == [s \in Slots |-> IF s \in valid
                       THEN [marked.slots[s] EXCEPT !.last = TRUE, !.changed = FALSE]
                       ELSE marked.slots[s]]
           q == Flushed(p, differs)
<1>1. q = [marked EXCEPT !.moved = @ \/ scrolls, !.avgValid = @ \/ full,
                         !.click = click, !.slots = slots]
  BY DEF Flushed
<1>2. r \in Pads /\ r.maxFingers = MaxFingersOf(p.maxFingers, Count(p))
      /\ r.dragging = p.dragging /\ r.left = p.left /\ r.slots = p.slots
  BY MaxFingersUpdated DEF Pads
<1>3. marked \in Pads /\ Alike(r, marked)
  BY <1>2, MovedMarked
<1>4. scrolls \in BOOLEAN /\ full \in BOOLEAN
  OBVIOUS
<1>5. click \in {"none", "scroll", "move"} /\ (click = "move" => r.maxFingers = 1)
  BY DEF OneFinger
<1> HIDE DEF marked, scrolls, full, click, valid
<1>6. slots \in [Slots -> PadSlot]
      /\ \A s \in Slots : slots[s].active <=> marked.slots[s].active
  <2>1. \A s \in Slots : marked.slots[s] \in PadSlot
    BY <1>3 DEF Pads
  <2>2. ASSUME NEW slot \in PadSlot
        PROVE  /\ [slot EXCEPT !.last = TRUE, !.changed = FALSE] \in PadSlot
               /\ [slot EXCEPT !.last = TRUE, !.changed = FALSE].active = slot.active
    BY DEF PadSlot
  <2>3. QED BY <2>1, <2>2
<1> HIDE DEF slots
<1>7. q \in Pads /\ q.slots = slots /\ q.click = click
      /\ q.dragging = p.dragging /\ q.left = p.left /\ q.maxFingers = r.maxFingers
  <2>1. marked.moved \in BOOLEAN /\ marked.avgValid \in BOOLEAN
    BY <1>3 DEF Pads
  <2>2. (marked.moved \/ scrolls) \in BOOLEAN /\ (marked.avgValid \/ full) \in BOOLEAN
    BY <1>4, <2>1
  <2>3. click \in Clicks
    BY <1>5 DEF Clicks
  <2>4. ASSUME NEW b \in BOOLEAN, NEW c \in BOOLEAN
        PROVE  LET new == [marked EXCEPT !.moved = b, !.avgValid = c,
                                         !.click = click, !.slots = slots]
               IN /\ new \in Pads /\ new.slots = slots /\ new.click = click
                  /\ new.dragging = marked.dragging /\ new.left = marked.left
                  /\ new.maxFingers = marked.maxFingers
    BY <1>3, <1>6, <2>3 DEF Pads
  <2>5. q = [marked EXCEPT !.moved = (marked.moved \/ scrolls),
                           !.avgValid = (marked.avgValid \/ full),
                           !.click = click, !.slots = slots]
    BY <1>1
  <2>6. /\ q \in Pads /\ q.slots = slots /\ q.click = click
        /\ q.dragging = marked.dragging /\ q.left = marked.left
        /\ q.maxFingers = marked.maxFingers
    BY <1>4, <2>1, <2>4, <2>5
  <2>7. QED BY <1>2, <1>3, <2>6 DEF Alike
<1>8. Active(q) = Active(p)
  <2>1. Active(q) = Active(marked)
    BY <1>6, <1>7 DEF Active
  <2>2. Active(marked) = Active(r)
    BY <1>3 DEF Alike
  <2>3. QED BY <1>2, <2>1, <2>2 DEF Active
<1>9. QED BY <1>2, <1>5, <1>7, <1>8 DEF q

LEMMA AlikeSound ==
  ASSUME NEW p, NEW q, Sound(p), Alike(p, q)
  PROVE  Sound(q)
<1>1. Count(q) = Count(p)
  BY DEF Alike, Count
<1>2. QED BY <1>1 DEF Alike, Sound, DragSound

LEMMA BeganSound ==
  ASSUME NEW p, NEW q, NEW s, p.click = "none", Began(p, s, q)
  PROVE  Sound(q)
BY DEF Began, Sound

LEMMA EndedSound ==
  ASSUME NEW p, NEW q, NEW S, Ended(p, S, q)
  PROVE  Sound(q)
BY DEF Ended, Sound

LEMMA BeganAlike ==
  ASSUME NEW p, NEW q, NEW r, NEW s, Began(p, s, q), Alike(q, r)
  PROVE  Began(p, s, r)
<1>1. Count(r) = Count(q)
  BY DEF Alike, Count
<1>2. QED BY <1>1 DEF Alike, Began, DragSound

(* A finger that comes, goes or moves in slot s.                           *)
LEMMA DownEffect ==
  ASSUME NEW p \in Pads, Sound(p), p.click = "none", NEW s \in Slots,
         NEW axes \in SUBSET Axes, NEW far \in BOOLEAN
  PROVE  LET q == UpdatePad(TrackPad(p, s, TRUE), s, axes, far)
         IN Began(p, s, q) /\ (q.dragging => p.lastTap = "recent")
<1> DEFINE b == BeginPad(p, s, TRUE)
<1>1. Began(p, s, b) /\ (b.dragging => p.lastTap = "recent")
  BY BeginEffect DEF Sound
<1>2. s \in Active(b) /\ b \in Pads /\ DragSound(b)
  BY <1>1 DEF Began
<1> HIDE DEF b
<1>3. Alike(b, UpdatePad(b, s, axes, far))
  BY <1>2, UpdateEffect
<1>4. TrackPad(p, s, TRUE) = b
  BY DEF TrackPad, b
<1>5. QED BY <1>1, <1>3, <1>4, BeganAlike DEF Alike

LEMMA MoveEffect ==
  ASSUME NEW p \in Pads, Sound(p), NEW s \in Slots,
         NEW axes \in SUBSET Axes, NEW far \in BOOLEAN
  PROVE  LET q == UpdatePad(p, s, axes, far)
         IN IF axes = {} \/ s \in Active(p) THEN Alike(p, q) ELSE Began(p, s, q)
<1>1. DragSound(p)
  BY DEF Sound
<1>2. Began(p, s, BeginPad(p, s, FALSE))
  BY <1>1, BeginEffect
<1>3. QED BY <1>1, <1>2, UpdateEffect, BeganAlike

LEMMA UpEffect ==
  ASSUME NEW p \in Pads, Sound(p), p.click = "none", NEW s \in Slots, NEW far
  PROVE  Ended(p, {s}, UpdatePad(TrackPad(p, s, FALSE), s, {}, far))
BY ReleaseEffect DEF Sound, TrackPad, UpdatePad

-----------------------------------------------------------------------------
(* Without slots, or while nothing is lost, libevdev and the kernel know   *)
(* which contacts there are.                                               *)
SlotsAgree ==
  losses = 0 =>
    /\ HasMtSlots => known = Contacts
    /\ ~HasMtSlots => Contacts \subseteq {0} /\ key = (Contacts # {})

(* In a frame of an emulating panel that began without contacts, the ones  *)
(* there are have come in this frame; the emulation then reports them.     *)
EmulationAgrees ==
  losses = 0 /\ panel = "emulating" =>
    /\ cursor \in {0, PanelSlotCount + 1} => key = (Contacts # {})
    /\ ~key /\ Contacts = {} => Active(pad) = {}
    /\ ~key => Contacts \subseteq 0..(cursor - 1)

(* The pad's contacts are fingers; all fingers, once the panel was empty.  *)
PadTracks == Reliable => Active(pad) \subseteq Contacts
MostCounted ==
  open /\ Reliable /\ most <= PanelSlotCount =>
    /\ Active(pad) = Contacts \cap Slots
    /\ Count(pad) <= most
    /\ Active(pad) # {} => pad.maxFingers = CapFingers(most)

PadInv ==
  /\ PadTypeOK /\ DragSound(pad)
  /\ ~open => ~pad.dragging /\ Active(pad) = {}
  /\ SlotsAgree /\ EmulationAgrees /\ PadTracks /\ MostCounted
  /\ FingersChooseButton

-----------------------------------------------------------------------------
LEMMA PadIsSound ==
  ASSUME PadInv
  PROVE  pad \in Pads /\ Sound(pad) /\ pad.click = "none"
BY DEF PadInv, PadTypeOK, Pads, Clicks, Sound

LEMMA HandledEffect ==
  ASSUME NEW q, Sound(q), Handled(q)
  PROVE  /\ PanelTypeOK' /\ most' \in 0..(PanelSlotCount + 1) => PadTypeOK'
         /\ DragSound(pad)'
         /\ Active(pad)' = Active(q) /\ Count(pad)' = Count(q)
         /\ pad'.maxFingers = q.maxFingers /\ pad'.dragging = q.dragging
         /\ sent' = q.click
         /\ sent' \in {"leftClick", "rightClick"} => Active(pad)' = {}
<1>1. q \in Pads /\ pad' = [q EXCEPT !.click = "none"] /\ sent' = q.click
  BY DEF Handled, Sound
<1>2. pad' \in [slots : [Slots -> PadSlot], maxFingers : 0..2, moved : BOOLEAN,
                avgValid : BOOLEAN, dragging : BOOLEAN, left : BOOLEAN,
                lastTap : {"none", "recent", "old"}, click : {"none"}]
  BY <1>1 DEF Pads
<1>3. pad'.slots = q.slots /\ pad'.maxFingers = q.maxFingers
      /\ pad'.dragging = q.dragging /\ pad'.left = q.left
  BY <1>1 DEF Pads
<1>4. Active(pad)' = Active(q)
  BY <1>3 DEF Active
<1>5. Count(pad)' = Count(q)
  BY <1>4 DEF Count
<1>6. sent' \in {"none", "leftClick", "rightClick", "scroll", "move"}
  BY <1>1 DEF Pads, Clicks
<1>7. DragSound(pad)'
  BY <1>3, <1>5 DEF Sound, DragSound
<1>8. QED
  BY <1>1, <1>2, <1>3, <1>4, <1>5, <1>6, <1>7 DEF PadTypeOK, Sound

LEMMA MostEffect ==
  ASSUME MostFingers, most \in 0..(PanelSlotCount + 1)
  PROVE  LET n == Cardinality((Contacts \cap Slots)') IN
           /\ n \in 0..PanelSlotCount /\ most' \in 0..(PanelSlotCount + 1)
           /\ most' = IF Contacts \cap Slots = {} \/ n > most THEN n ELSE most
<1> DEFINE n == Cardinality((Contacts \cap Slots)')
<1>1. {s \in Tracked : finger'[s] # Lifted} = (Contacts \cap Slots)'
  BY DEF Tracked, Contacts
<1>2. (Contacts \cap Slots)' \in SUBSET Tracked
  BY <1>1
<1>3. n \in 0..PanelSlotCount
  BY <1>2, TrackedBound
<1>4. Contacts \cap Tracked = Contacts \cap Slots
  BY DEF Tracked, Contacts
<1>5. most' = IF Contacts \cap Slots = {} \/ n > most THEN n ELSE most
  BY <1>1, <1>4 DEF MostFingers
<1> HIDE DEF n
<1>6. most' \in 0..(PanelSlotCount + 1)
  BY <1>3, <1>5, PanelAssumption
<1>7. QED BY <1>3, <1>5, <1>6 DEF n

(* A finger in slot s comes, or stays as it is, or goes: the most that were*)
(* there together decide what the lift will click.                         *)
LEMMA CountedStep ==
  ASSUME PadInv, MostFingers, NEW q, NEW s, Sound(q), Handled(q),
         open, Reliable, Reliable',
         \/ /\ Began(pad, s, q)
            /\ (Contacts \cap Slots)' = (Contacts \cap Slots) \cup {s}
         \/ /\ Alike(pad, q)
            /\ (Contacts \cap Slots)' = Contacts \cap Slots
         \/ /\ Ended(pad, {s}, q) /\ s \in Contacts \cap Slots
            /\ (Contacts \cap Slots)' = (Contacts \cap Slots) \ {s}
  PROVE  PadTracks' /\ MostCounted' /\ FingersChooseButton'
<1> DEFINE A == Active(pad)
           C == Contacts \cap Slots
           n == Cardinality(C')
<1>1. A \subseteq C
  BY DEF PadInv, PadTracks, Active
<1>2. most \in 0..(PanelSlotCount + 1) /\ PanelSlotCount \in Nat
  BY PanelAssumption DEF PadInv, PadTypeOK
<1>3. n \in 0..PanelSlotCount /\ most' = IF C = {} \/ n > most THEN n ELSE most
  BY <1>2, MostEffect
<1>4. /\ Active(pad)' = Active(q) /\ Count(pad)' = Count(q)
      /\ pad'.maxFingers = q.maxFingers /\ sent' = q.click
      /\ sent' \in {"leftClick", "rightClick"} => Active(pad)' = {}
  BY HandledEffect
<1>5. pad.click = "none" /\ pad.maxFingers \in 0..2
  BY PadIsSound DEF Pads
<1>6. A = {} <=> Count(pad) = 0
  BY Counting
<1>7. Count(pad) \in Nat
  BY Counting
<1>8. ASSUME C # {}, most' <= PanelSlotCount
      PROVE  A = C /\ Count(pad) <= most /\ pad.maxFingers = CapFingers(most)
  <2>1. most <= PanelSlotCount
    BY <1>2, <1>3, <1>8
  <2>2. QED BY <1>8, <2>1 DEF PadInv, MostCounted
<1>9. C = {} => A = C
  BY <1>1
<1> HIDE DEF n, C
<1>10. Active(q) \subseteq C'
  BY <1>1 DEF Began, Alike, Ended, C
<1>11. PadTracks'
  BY <1>4, <1>10 DEF PadTracks, C
<1>12. ASSUME most' <= PanelSlotCount
       PROVE  /\ Active(q) = C' /\ Count(q) <= most'
              /\ Active(q) # {} => q.maxFingers = CapFingers(most')
              /\ q.click = "leftClick" => most' <= 1
              /\ q.click = "rightClick" => most' >= 2
  <2>1. A = C
    BY <1>8, <1>9, <1>12
  <2>2. CASE Began(pad, s, q) /\ C' = C \cup {s}
    <3>1. Active(q) = C' /\ Count(q) = n
      BY <2>1, <2>2 DEF Began, n, Count
    <3>2. q.click = "none"
      BY <1>5, <2>2 DEF Began
    <3>3. CASE C = {}
      <4>1. Count(q) = 1
        BY <2>2, <3>1, <3>3, Counting
      <4>2. QED BY <1>3, <2>1, <2>2, <3>1, <3>2, <3>3, <4>1 DEF Began, CapFingers
    <3>4. CASE C # {}
      <4>1. pad.maxFingers = CapFingers(most)
        BY <1>8, <1>12, <3>4
      <4>2. q.maxFingers = MaxFingersOf(CapFingers(most), n)
        BY <2>1, <2>2, <3>1, <3>4, <4>1 DEF Began
      <4>3. q.maxFingers = CapFingers(most') /\ n <= most'
        BY <1>2, <1>3, <3>4, <4>2 DEF MaxFingersOf, CapFingers
      <4>4. QED BY <3>1, <3>2, <4>3
    <3>5. QED BY <3>3, <3>4
  <2>3. CASE Alike(pad, q) /\ C' = C
    <3>1. Active(q) = C' /\ Count(q) = Count(pad) /\ n = Count(pad)
          /\ q.click = "none" /\ q.maxFingers = pad.maxFingers
      BY <1>5, <2>1, <2>3 DEF Alike, Count, n
    <3>2. CASE C = {}
      BY <1>2, <1>3, <1>6, <2>1, <2>3, <3>1, <3>2
    <3>3. CASE C # {}
      BY <1>2, <1>3, <1>8, <1>12, <3>1, <3>3
    <3>4. QED BY <3>2, <3>3
  <2>4. CASE Ended(pad, {s}, q) /\ s \in C /\ C' = C \ {s}
    <3>1. Active(q) = C' /\ Count(q) = n
      BY <2>1, <2>4 DEF Ended, n, Count
    <3>2. n <= Count(pad)
      <4>1. IsFiniteSet(A) /\ C' \in SUBSET A
        BY <2>1, <2>4, Counting, SlotSets
      <4>2. QED BY <4>1, FS_Subset DEF n, Count
    <3>3. Count(pad) <= most /\ pad.maxFingers = CapFingers(most)
      BY <1>8, <1>12, <2>4
    <3>4. most' = most
      BY <1>2, <1>3, <1>7, <2>4, <3>2, <3>3
    <3>5. Active(q) # {} => q.maxFingers = CapFingers(most')
      BY <2>4, <3>3, <3>4 DEF Ended
    <3>6. /\ q.click = "leftClick" => CapFingers(most) = 1
          /\ q.click = "rightClick" => CapFingers(most) = 2
      BY <2>4, <3>3 DEF Ended
    <3>7. (q.click = "leftClick" => most <= 1) /\ (q.click = "rightClick" => most >= 2)
      BY <1>2, <3>6 DEF CapFingers
    <3>8. Count(q) <= most'
      BY <1>2, <1>3, <1>7, <3>1, <3>2, <3>3, <3>4
    <3>9. QED BY <3>1, <3>4, <3>5, <3>7, <3>8
  <2>5. QED BY <2>2, <2>3, <2>4 DEF C
<1>13. MostCounted'
  BY <1>4, <1>12 DEF MostCounted, C
<1>14. FingersChooseButton'
  BY <1>4, <1>12 DEF FingersChooseButton
<1>15. QED BY <1>11, <1>13, <1>14

-----------------------------------------------------------------------------
(* One slot of a panel with slots is reported.                             *)
LEMMA ContactEffect ==
  ASSUME PanelTypeOK, SlotsAgree, SlotsInStep, NEW s \in PanelSlots,
         NEW id \in TrackingIds \cup {Lifted}, NEW moved \in BOOLEAN, Contact(s, id, moved)
  PROVE  /\ PanelTypeOK' /\ open /\ open' /\ UNCHANGED <<panel, key, losses>>
         /\ HasMtSlots /\ cursor <= s /\ cursor' = s + 1
         /\ Contacts' = IF id = Lifted THEN Contacts \ {s} ELSE Contacts \cup {s}
         /\ id = Lifted => s \in Contacts
         /\ losses = 0 /\ ~stray' =>
              /\ touchSlot' = s /\ ~stray
              /\ TrackingIdSent(s, id) <=> ~(s \in Contacts /\ id # Lifted)
         /\ SlotsAgree'
<1>1. PanelTypeOK' /\ open /\ open' /\ UNCHANGED <<panel, key, losses>>
      /\ HasMtSlots /\ cursor <= s /\ cursor' = s + 1
  BY PanelTypes DEF Contact
<1>2. finger' = [finger EXCEPT ![s] = id] /\ finger \in [PanelSlots -> TrackingIds \cup {Lifted}]
  BY DEF Contact, PanelTypeOK
<1>3. Contacts' = IF id = Lifted THEN Contacts \ {s} ELSE Contacts \cup {s}
  BY <1>2 DEF Contacts
<1>4. id = Lifted => s \in Contacts
  BY DEF Contact, Contacts
<1>5. losses = 0 =>
        /\ known' = Contacts'
        /\ ~stray' => touchSlot' = s /\ ~stray
        /\ TrackingIdSent(s, id) <=> finger[s] # id
  BY ContactInStep
<1>6. finger[s] # id <=> ~(s \in Contacts /\ id # Lifted)
  BY DEF Contact, Contacts
<1>7. HasMtSlots'
  BY <1>1 DEF HasMtSlots
<1>8. QED BY <1>1, <1>3, <1>4, <1>5, <1>6, <1>7 DEF SlotsAgree

(* What a report taken for slot u makes of the pad before Handled clears   *)
(* the click; told: it brings a tracking id.                               *)
PadReported(u, told, id, axes, far) ==
  IF u \notin Slots THEN pad
  ELSE UpdatePad(IF told THEN TrackPad(pad, u, id # Lifted) ELSE pad, u, axes, far)

LEMMA ReportedPad ==
  ASSUME PadInv, NEW u, NEW told \in BOOLEAN, NEW id \in TrackingIds \cup {Lifted},
         NEW axes \in SUBSET Axes, NEW far \in BOOLEAN, id = Lifted => axes = {}
  PROVE  LET q == PadReported(u, told, id, axes, far) IN
         /\ Sound(q)
         /\ u \notin Slots \/ (id = Lifted /\ ~told) => Alike(pad, q)
         /\ u \in Slots /\ id # Lifted /\ ~told =>
              IF axes = {} \/ u \in Active(pad) THEN Alike(pad, q) ELSE Began(pad, u, q)
         /\ u \in Slots /\ id # Lifted /\ told =>
              Began(pad, u, q) /\ (q.dragging => pad.lastTap = "recent")
         /\ u \in Slots /\ id = Lifted /\ told => Ended(pad, {u}, q)
<1> DEFINE q == PadReported(u, told, id, axes, far)
<1>1. pad \in Pads /\ Sound(pad) /\ pad.click = "none"
  BY PadIsSound
<1>2. CASE u \notin Slots \/ (id = Lifted /\ ~told)
  <2>1. q = pad
    BY <1>2 DEF PadReported, UpdatePad
  <2>2. Alike(pad, q)
    BY <1>1, <2>1 DEF Alike
  <2>3. QED BY <1>1, <1>2, <2>1, <2>2
<1>3. CASE u \in Slots /\ id # Lifted /\ ~told
  <2>1. q = UpdatePad(pad, u, axes, far)
    BY <1>3 DEF PadReported
  <2>2. IF axes = {} \/ u \in Active(pad) THEN Alike(pad, q) ELSE Began(pad, u, q)
    BY <1>1, <1>3, <2>1, MoveEffect
  <2>3. QED BY <1>1, <1>3, <2>2, AlikeSound, BeganSound
<1>4. CASE u \in Slots /\ id # Lifted /\ told
  <2>1. q = UpdatePad(TrackPad(pad, u, TRUE), u, axes, far)
    <3>1. TrackPad(pad, u, id # Lifted) = TrackPad(pad, u, TRUE)
      BY <1>4 DEF TrackPad
    <3>2. QED BY <1>4, <3>1 DEF PadReported
  <2>2. Began(pad, u, q) /\ (q.dragging => pad.lastTap = "recent")
    BY <1>1, <1>4, <2>1, DownEffect
  <2>3. QED BY <1>1, <1>4, <2>2, BeganSound
<1>5. CASE u \in Slots /\ id = Lifted /\ told
  <2>1. q = UpdatePad(TrackPad(pad, u, FALSE), u, {}, far)
    BY <1>5 DEF PadReported, TrackPad
  <2>2. Ended(pad, {u}, q)
    BY <1>1, <1>5, <2>1, UpEffect
  <2>3. QED BY <1>5, <2>2, EndedSound
<1>6. QED BY <1>2, <1>3, <1>4, <1>5

LEMMA PadReportStep ==
  ASSUME PadInv, SlotsInStep, NEW s \in PanelSlots, NEW id \in TrackingIds \cup {Lifted},
         NEW axes \in SUBSET Axes, NEW far \in BOOLEAN, PadReport(s, id, axes, far)
  PROVE  PadInv'
<1> DEFINE u == touchSlot'
           told == TrackingIdSent(s, id)
           q == PadReported(u, told, id, axes, far)
<1>0. told \in BOOLEAN /\ (axes # {}) \in BOOLEAN
  BY DEF TrackingIdSent
<1>1. /\ Contact(s, id, axes # {}) /\ (id = Lifted => axes = {}) /\ MostFingers
      /\ Handled(q)
  BY DEF PadReport, PadReported
<1>2. /\ PanelTypeOK' /\ open /\ open' /\ UNCHANGED <<panel, key, losses>>
      /\ HasMtSlots /\ cursor <= s /\ cursor' = s + 1
      /\ Contacts' = IF id = Lifted THEN Contacts \ {s} ELSE Contacts \cup {s}
      /\ id = Lifted => s \in Contacts
      /\ losses = 0 /\ ~stray' =>
           u = s /\ ~stray /\ (told <=> ~(s \in Contacts /\ id # Lifted))
      /\ SlotsAgree'
  BY <1>0, <1>1, ContactEffect DEF PadInv, PadTypeOK
<1>3. /\ Sound(q)
      /\ u \notin Slots => Alike(pad, q)
      /\ u \in Slots /\ id # Lifted /\ ~told => Alike(pad, q) \/ Began(pad, u, q)
      /\ u \in Slots /\ id # Lifted /\ told => Began(pad, u, q)
      /\ u \in Slots /\ id = Lifted /\ told => Ended(pad, {u}, q)
  BY <1>0, <1>1, ReportedPad
<1> HIDE DEF q, u, told
<1>4. /\ DragSound(pad)' /\ Active(pad)' = Active(q)
      /\ PanelTypeOK' /\ most' \in 0..(PanelSlotCount + 1) => PadTypeOK'
      /\ sent' \in {"leftClick", "rightClick"} => Active(pad)' = {}
  BY <1>1, <1>3, HandledEffect
<1>5. PadTypeOK'
  BY <1>1, <1>2, <1>4, MostEffect DEF PadInv, PadTypeOK
<1>6. EmulationAgrees'
  <2> SUFFICES ASSUME losses' = 0, panel' = "emulating"
               PROVE  /\ cursor' \in {0, PanelSlotCount + 1} => key' = (Contacts' # {})
                      /\ ~key' => Contacts' # {} /\ Contacts' \subseteq 0..(cursor' - 1)
    BY DEF EmulationAgrees
  <2>1. s \in Int /\ cursor' = s + 1 /\ 0 < cursor' /\ cursor' < PanelSlotCount + 1
    BY <1>2, PanelAssumption DEF PanelSlots
  <2>2. ASSUME ~key
        PROVE  Contacts' # {} /\ Contacts' \subseteq 0..s
    <3>1. Contacts \subseteq 0..(cursor - 1)
      BY <1>2, <2>2 DEF PadInv, EmulationAgrees
    <3>2. cursor \in Int /\ s \notin Contacts
      BY <1>2, <2>1, <3>1 DEF PadInv, PadTypeOK, PanelTypeOK
    <3>3. Contacts' = Contacts \cup {s}
      BY <1>2, <3>2
    <3>4. 0..(cursor - 1) \subseteq 0..s /\ s \in 0..s
      BY <1>2, <2>1, <3>2 DEF PanelSlots
    <3>5. QED BY <3>1, <3>3, <3>4
  <2>3. QED BY <1>2, <2>1, <2>2
<1>7. PadTracks' /\ MostCounted' /\ FingersChooseButton'
  <2>1. CASE Reliable'
    <3>1. /\ Reliable /\ losses = 0 /\ u = s
          /\ told <=> ~(s \in Contacts /\ id # Lifted)
      BY <1>2, <2>1 DEF Reliable
    <3>2. CASE s \notin Slots
      BY <1>1, <1>2, <1>3, <2>1, <3>1, <3>2, CountedStep
    <3>3. CASE s \in Slots /\ id = Lifted
      BY <1>1, <1>2, <1>3, <2>1, <3>1, <3>3, CountedStep
    <3>4. CASE s \in Slots /\ id # Lifted
      <4>1. (Contacts \cap Slots)' = (Contacts \cap Slots) \cup {s}
        BY <1>2, <3>4
      <4>2. CASE Began(pad, s, q)
        BY <1>1, <1>2, <1>3, <2>1, <3>1, <4>1, <4>2, CountedStep
      <4>3. CASE s \in Contacts /\ Alike(pad, q)
        <5>1. (Contacts \cap Slots)' = Contacts \cap Slots
          BY <1>2, <3>1, <4>1, <4>3
        <5>2. QED BY <1>1, <1>2, <1>3, <2>1, <3>1, <4>3, <5>1, CountedStep
      <4>4. QED BY <1>3, <3>1, <3>4, <4>2, <4>3
    <3>5. QED BY <3>2, <3>3, <3>4
  <2>2. CASE ~Reliable'
    BY <1>4, <2>2 DEF PadTracks, MostCounted, FingersChooseButton
  <2>3. QED BY <2>1, <2>2
<1>8. QED BY <1>2, <1>4, <1>5, <1>6, <1>7 DEF PadInv

-----------------------------------------------------------------------------
(* The contact of a panel without slots is reported.                       *)
LEMMA SingleContactEffect ==
  ASSUME PanelTypeOK, SlotsAgree, NEW id \in TrackingIds \cup {Lifted}, SingleContact(id)
  PROVE  /\ PanelTypeOK' /\ open /\ open' /\ UNCHANGED <<panel, losses, stray>>
         /\ panel \in {"single", "singleLate"} /\ ~HasMtSlots
         /\ key \in BOOLEAN /\ key' \in BOOLEAN /\ key' = (id # Lifted)
         /\ losses = 0 => /\ Contacts = IF key THEN {0} ELSE {}
                          /\ Contacts' = IF key' THEN {0} ELSE {}
                          /\ key \/ key'
         /\ SlotsAgree'
<1>1. PanelTypeOK' /\ open /\ open' /\ UNCHANGED <<panel, losses, stray>>
  BY PanelTypes DEF SingleContact, slotVars
<1>2. ~HasMtSlots /\ panel \in {"single", "singleLate"} /\ key' = (id # Lifted)
      /\ key \in BOOLEAN /\ key' \in BOOLEAN
  BY DEF SingleContact, HasMtSlots, PanelTypeOK, PanelKinds
<1>3. finger' = [finger EXCEPT ![0] = id] /\ finger \in [PanelSlots -> TrackingIds \cup {Lifted}]
  BY DEF SingleContact, PanelTypeOK
<1>4. ASSUME losses = 0
      PROVE  /\ Contacts = IF key THEN {0} ELSE {}
             /\ Contacts' = IF key' THEN {0} ELSE {}
             /\ key \/ key'
  <2>1. Contacts \subseteq {0} /\ (key <=> Contacts # {})
    BY <1>2, <1>4 DEF SlotsAgree
  <2>2. Contacts = IF key THEN {0} ELSE {}
    BY <2>1
  <2>3. Contacts' = IF id # Lifted THEN {0} ELSE {}
    BY <1>3, <2>1, SlotSets DEF Contacts
  <2>4. id # Lifted \/ finger[0] # Lifted
    BY DEF SingleContact
  <2>5. key \/ key'
    BY <1>2, <2>1, <2>4, SlotSets DEF Contacts
  <2>6. QED BY <1>2, <2>2, <2>3, <2>5
<1>5. ~HasMtSlots'
  BY <1>1, <1>2 DEF HasMtSlots
<1>6. losses' = 0 => Contacts' \subseteq {0} /\ (key' <=> Contacts' # {})
  BY <1>1, <1>4
<1>7. QED BY <1>1, <1>2, <1>4, <1>5, <1>6 DEF SlotsAgree

PadReportedSingle(axes, far) ==
  LET Touch(p) == IF key = key' THEN p ELSE TrackPad(p, 0, key')
  IN IF panel = "single" THEN UpdatePad(Touch(pad), 0, axes, far)
     ELSE Touch(UpdatePad(pad, 0, axes, far))

LEMMA ReportedSinglePad ==
  ASSUME PadInv, key \in BOOLEAN, key' \in BOOLEAN,
         NEW axes \in SUBSET Axes, NEW far \in BOOLEAN, ~key' => axes = {}
  PROVE  LET q == PadReportedSingle(axes, far) IN
         /\ Sound(q)
         /\ key /\ key' =>
              IF axes = {} \/ 0 \in Active(pad) THEN Alike(pad, q) ELSE Began(pad, 0, q)
         /\ ~key /\ key' /\ Active(pad) = {} => Began(pad, 0, q)
         /\ ~key /\ key' /\ panel = "single" /\ q.dragging => pad.lastTap = "recent"
         /\ key /\ ~key' => Ended(pad, {0}, q)
<1> DEFINE q == PadReportedSingle(axes, far)
           u == UpdatePad(pad, 0, axes, far)
<1>1. pad \in Pads /\ Sound(pad) /\ pad.click = "none" /\ 0 \in Slots
  BY PadIsSound, SlotSets
<1>2. /\ IF axes = {} \/ 0 \in Active(pad) THEN Alike(pad, u) ELSE Began(pad, 0, u)
      /\ Sound(u) /\ u \in Pads /\ u.click = "none"
  <2>1. IF axes = {} \/ 0 \in Active(pad) THEN Alike(pad, u) ELSE Began(pad, 0, u)
    BY <1>1, MoveEffect
  <2> HIDE DEF u
  <2>2. u \in Pads /\ u.click = "none"
    BY <1>1, <2>1 DEF Alike, Began
  <2>3. Sound(u)
    BY <1>1, <2>1, AlikeSound, BeganSound
  <2>4. QED BY <2>1, <2>2, <2>3
<1>3. CASE key = key'
  <2>1. q = u
    BY <1>3 DEF PadReportedSingle
  <2>2. QED BY <1>2, <1>3, <2>1
<1>4. CASE ~key /\ key'
  <2>1. CASE panel = "single"
    <3>1. q = UpdatePad(TrackPad(pad, 0, TRUE), 0, axes, far)
      BY <1>4, <2>1 DEF PadReportedSingle, TrackPad
    <3>2. Began(pad, 0, q) /\ (q.dragging => pad.lastTap = "recent")
      BY <1>1, <3>1, DownEffect
    <3>3. QED BY <1>1, <1>4, <3>2, BeganSound
  <2>2. CASE panel # "single"
    <3>1. q = BeginPad(u, 0, TRUE)
      BY <1>4, <2>2 DEF PadReportedSingle, TrackPad
    <3>2. Began(u, 0, q)
      BY <1>1, <1>2, <3>1, BeginEffect DEF Sound
    <3>3. Sound(q)
      BY <1>2, <3>2, BeganSound
    <3>4. ASSUME Active(pad) = {} PROVE Began(pad, 0, q)
      <4>1. CASE Alike(pad, u)
        BY <3>2, <3>4, <4>1 DEF Alike, Began
      <4>2. CASE Began(pad, 0, u)
        <5>1. Active(u) = {0} /\ Active(q) = {0} /\ u.maxFingers = 1 /\ u.click = pad.click
          BY <3>2, <3>4, <4>2 DEF Began
        <5>2. Count(q) = 1
          BY <5>1, Counting
        <5>3. q.maxFingers = 1 /\ ~q.dragging
          BY <3>2, <5>1, <5>2 DEF Began, MaxFingersOf, CapFingers
        <5>4. QED BY <3>2, <3>4, <5>1, <5>3 DEF Began
      <4>3. QED BY <1>2, <4>1, <4>2
    <3>5. QED BY <1>4, <2>2, <3>3, <3>4
  <2>3. QED BY <2>1, <2>2
<1>5. CASE key /\ ~key'
  <2>1. q = ReleasePad(pad, {0})
    BY <1>5 DEF PadReportedSingle, TrackPad, UpdatePad
  <2>2. Ended(pad, {0}, q)
    BY <1>1, <2>1, ReleaseEffect DEF Sound
  <2>3. QED BY <1>5, <2>2, EndedSound
<1>6. QED BY <1>3, <1>4, <1>5

LEMMA PadReportSingleStep ==
  ASSUME PadInv, NEW id \in TrackingIds \cup {Lifted},
         NEW axes \in SUBSET Axes, NEW far \in BOOLEAN, PadReportSingle(id, axes, far)
  PROVE  PadInv'
<1> DEFINE q == PadReportedSingle(axes, far)
<1>1. SingleContact(id) /\ (id = Lifted => axes = {}) /\ MostFingers /\ Handled(q)
  BY DEF PadReportSingle, PadReportedSingle
<1>2. /\ PanelTypeOK' /\ open /\ open' /\ UNCHANGED <<panel, losses, stray>>
      /\ panel \in {"single", "singleLate"}
      /\ key \in BOOLEAN /\ key' \in BOOLEAN /\ (~key' => axes = {})
      /\ losses = 0 => /\ Contacts = IF key THEN {0} ELSE {}
                       /\ Contacts' = IF key' THEN {0} ELSE {}
                       /\ key \/ key'
      /\ SlotsAgree'
  BY <1>1, SingleContactEffect DEF PadInv, PadTypeOK
<1>3. /\ Sound(q)
      /\ key /\ key' => Alike(pad, q) \/ Began(pad, 0, q)
      /\ ~key /\ key' /\ Active(pad) = {} => Began(pad, 0, q)
      /\ key /\ ~key' => Ended(pad, {0}, q)
  BY <1>2, ReportedSinglePad
<1> HIDE DEF q
<1>4. /\ DragSound(pad)' /\ Active(pad)' = Active(q)
      /\ PanelTypeOK' /\ most' \in 0..(PanelSlotCount + 1) => PadTypeOK'
      /\ sent' \in {"leftClick", "rightClick"} => Active(pad)' = {}
  BY <1>1, <1>3, HandledEffect
<1>5. PadTypeOK'
  BY <1>1, <1>2, <1>4, MostEffect DEF PadInv, PadTypeOK
<1>6. EmulationAgrees'
  BY <1>2 DEF EmulationAgrees
<1>7. PadTracks' /\ MostCounted' /\ FingersChooseButton'
  <2>1. CASE Reliable'
    <3>1. Reliable /\ losses = 0
      BY <1>2, <2>1 DEF Reliable
    <3>2. 0 \in Slots
      BY SlotSets
    <3>3. CASE key /\ key'
      <4>1. (Contacts \cap Slots)' = Contacts \cap Slots
            /\ (Contacts \cap Slots)' = (Contacts \cap Slots) \cup {0}
        BY <1>2, <3>1, <3>2, <3>3
      <4>2. QED BY <1>1, <1>2, <1>3, <2>1, <3>1, <3>3, <4>1, CountedStep
    <3>4. CASE ~key /\ key'
      <4>1. (Contacts \cap Slots)' = (Contacts \cap Slots) \cup {0} /\ Active(pad) = {}
        BY <1>2, <3>1, <3>2, <3>4 DEF PadInv, PadTracks
      <4>2. QED BY <1>1, <1>2, <1>3, <2>1, <3>1, <3>4, <4>1, CountedStep
    <3>5. CASE key /\ ~key'
      <4>1. (Contacts \cap Slots)' = (Contacts \cap Slots) \ {0} /\ 0 \in Contacts \cap Slots
        BY <1>2, <3>1, <3>2, <3>5
      <4>2. QED BY <1>1, <1>2, <1>3, <2>1, <3>1, <3>5, <4>1, CountedStep
    <3>6. QED BY <1>2, <3>1, <3>3, <3>4, <3>5
  <2>2. CASE ~Reliable'
    BY <1>4, <2>2 DEF PadTracks, MostCounted, FingersChooseButton
  <2>3. QED BY <2>1, <2>2
<1>8. QED BY <1>2, <1>4, <1>5, <1>6, <1>7 DEF PadInv

-----------------------------------------------------------------------------
(* Pointer emulation: BTN_TOUCH 0 releases every slot; without contacts    *)
(* there are no coordinates that would begin one again.                    *)
LEMMA PadEmulateStep ==
  ASSUME PadInv, NEW axes \in SUBSET Axes, NEW far \in BOOLEAN, PadEmulate(axes, far)
  PROVE  PadInv'
<1> DEFINE r == IF key /\ ~key' THEN ReleasePad(pad, Slots) ELSE pad
           q == UpdatePad(r, 0, axes, far)
<1>1. Emulated /\ (Contacts = {} => axes = {}) /\ Handled(q) /\ most' = most
  BY DEF PadEmulate
<1>2. /\ PanelTypeOK' /\ open /\ open' /\ panel = "emulating"
      /\ UNCHANGED <<panel, losses, finger, known>>
      /\ key' = (Contacts # {}) /\ cursor' = PanelSlotCount + 1 /\ cursor <= PanelSlotCount
  BY <1>1, PanelTypes DEF Emulated, PadInv, PadTypeOK
<1>3. Contacts' = Contacts /\ HasMtSlots /\ HasMtSlots'
  BY <1>2 DEF Contacts, HasMtSlots
<1>4. pad \in Pads /\ Sound(pad) /\ pad.click = "none" /\ 0 \in Slots
  BY PadIsSound, SlotSets
<1>5. Ended(pad, Slots, ReleasePad(pad, Slots))
  BY <1>4, ReleaseEffect DEF Sound
<1>6. ASSUME Contacts = {}
      PROVE  Sound(q) /\ (losses = 0 => Active(q) = {})
  <2>1. q = r
    BY <1>1, <1>6 DEF UpdatePad
  <2>2. Sound(q)
    BY <1>4, <1>5, <2>1, EndedSound
  <2>3. losses = 0 => Active(q) = {}
    <3>1. CASE key /\ ~key'
      BY <1>5, <2>1, <3>1 DEF Ended, Active
    <3>2. CASE ~key
      BY <1>2, <1>6, <2>1, <3>2 DEF PadInv, EmulationAgrees
    <3>3. ~key'
      BY <1>2, <1>6
    <3>4. QED BY <3>1, <3>2, <3>3
  <2>4. QED BY <2>2, <2>3
<1>7. ASSUME Contacts # {} PROVE Sound(q)
  <2>1. q = UpdatePad(pad, 0, axes, far)
    BY <1>2, <1>7
  <2>2. Alike(pad, q) \/ Began(pad, 0, q)
    BY <1>4, <2>1, MoveEffect
  <2>3. QED BY <1>4, <2>2, AlikeSound, BeganSound
<1>8. Sound(q) /\ (losses = 0 /\ Contacts = {} => Active(q) = {})
  <2> HIDE DEF q
  <2>1. QED BY <1>6, <1>7
<1> HIDE DEF q
<1>9. /\ DragSound(pad)' /\ Active(pad)' = Active(q)
      /\ PanelTypeOK' /\ most' \in 0..(PanelSlotCount + 1) => PadTypeOK'
      /\ sent' \in {"leftClick", "rightClick"} => Active(pad)' = {}
  BY <1>1, <1>8, HandledEffect
<1>10. PadTypeOK'
  BY <1>1, <1>2, <1>9 DEF PadInv, PadTypeOK
<1>11. EmulationAgrees'
  BY <1>2, <1>3, <1>8, <1>9 DEF EmulationAgrees
<1>12. SlotsAgree'
  BY <1>2, <1>3 DEF PadInv, SlotsAgree
<1>13. ~Reliable'
  BY <1>2 DEF Reliable
<1>14. PadTracks' /\ MostCounted' /\ FingersChooseButton'
  BY <1>9, <1>13 DEF PadTracks, MostCounted, FingersChooseButton
<1>15. QED BY <1>2, <1>9, <1>10, <1>11, <1>12, <1>14 DEF PadInv

(* SYN_REPORT: the gesture is flushed.                                     *)
LEMMA PadSynStep ==
  ASSUME PadInv, NEW differs \in BOOLEAN, PadSyn(differs)
  PROVE  PadInv'
<1> DEFINE q == IF Active(pad) = {} THEN pad ELSE Flushed(pad, differs)
<1>1. FrameEnds /\ Handled(q) /\ most' = most
  BY DEF PadSyn
<1>2. /\ PanelTypeOK' /\ open /\ open' /\ cursor' = 0
      /\ UNCHANGED <<panel, losses, finger, known, key, stray>>
      /\ panel = "emulating" => cursor = PanelSlotCount + 1
  BY <1>1, PanelTypes DEF FrameEnds, PadInv, PadTypeOK, slotVars
<1>3. pad \in Pads /\ Sound(pad) /\ pad.click = "none"
  BY PadIsSound
<1>4. /\ q \in Pads /\ Active(q) = Active(pad)
      /\ q.dragging = pad.dragging /\ q.left = pad.left
      /\ q.click \in {"none", "scroll", "move"}
      /\ Active(pad) # {} => q.maxFingers = MaxFingersOf(pad.maxFingers, Count(pad))
  BY <1>3, FlushEffect
<1> HIDE DEF q
<1>5. Count(q) = Count(pad)
  BY <1>4 DEF Count
<1>6. Sound(q)
  BY <1>3, <1>4, <1>5 DEF Sound, DragSound
<1>7. /\ DragSound(pad)' /\ Active(pad)' = Active(pad) /\ Count(pad)' = Count(pad)
      /\ PanelTypeOK' /\ most' \in 0..(PanelSlotCount + 1) => PadTypeOK'
      /\ sent' \notin {"leftClick", "rightClick"} /\ pad'.maxFingers = q.maxFingers
  BY <1>1, <1>4, <1>5, <1>6, HandledEffect
<1>8. PadTypeOK'
  BY <1>1, <1>2, <1>7 DEF PadInv, PadTypeOK
<1>9. Contacts' = Contacts /\ HasMtSlots' = HasMtSlots /\ Reliable' = Reliable
  BY <1>2 DEF Contacts, HasMtSlots, Reliable
<1>10. SlotsAgree' /\ PadTracks'
  BY <1>2, <1>7, <1>9 DEF PadInv, SlotsAgree, PadTracks
<1>11. EmulationAgrees'
  <2> SUFFICES ASSUME losses' = 0, panel' = "emulating"
               PROVE  /\ key' = (Contacts' # {})
                      /\ ~key' => Active(pad)' = {} /\ Contacts' \subseteq 0..(cursor' - 1)
    BY DEF EmulationAgrees
  <2>1. key = (Contacts # {}) /\ (~key /\ Contacts = {} => Active(pad) = {})
    BY <1>2 DEF PadInv, EmulationAgrees
  <2>2. ~key => Contacts = {}
    BY <2>1
  <2>3. QED BY <1>2, <1>7, <1>9, <2>1, <2>2
<1>12. MostCounted'
  <2> SUFFICES ASSUME Reliable, most <= PanelSlotCount
               PROVE  /\ Active(pad) = Contacts \cap Slots /\ Count(pad) <= most
                      /\ Active(pad) # {} => q.maxFingers = CapFingers(most)
    BY <1>1, <1>7, <1>9 DEF MostCounted
  <2>1. /\ Active(pad) = Contacts \cap Slots /\ Count(pad) <= most
        /\ Active(pad) # {} => pad.maxFingers = CapFingers(most)
    BY <1>2 DEF PadInv, MostCounted
  <2>2. most \in Nat /\ Count(pad) \in Nat
    BY Counting DEF PadInv, PadTypeOK
  <2>3. MaxFingersOf(CapFingers(most), Count(pad)) = CapFingers(most)
    BY <2>1, <2>2 DEF MaxFingersOf, CapFingers
  <2>4. QED BY <1>4, <2>1, <2>3
<1>13. FingersChooseButton'
  BY <1>7 DEF FingersChooseButton
<1>14. QED BY <1>2, <1>7, <1>8, <1>10, <1>11, <1>12, <1>13 DEF PadInv

-----------------------------------------------------------------------------
LEMMA NoPadFacts ==
  /\ NoPad \in Pads
  /\ \A q \in {NoPad, [NoPad EXCEPT !.left = FALSE]} :
       Sound(q) /\ q.click = "none" /\ ~q.dragging /\ Active(q) = {}
<1>1. NoPad \in Pads
  BY DEF NoPad, Pads, NoPadSlot, PadSlot, Clicks
<1>2. \A s \in Slots : ~NoPad.slots[s].active
  BY DEF NoPad, NoPadSlot
<1>3. NoPad.click = "none" /\ NoPad.left = FALSE /\ NoPad.dragging = FALSE
  BY DEF NoPad
<1>4. ASSUME NEW q \in {NoPad, [NoPad EXCEPT !.left = FALSE]}
      PROVE  /\ q \in Pads /\ q.slots = NoPad.slots
             /\ q.click = "none" /\ q.left = FALSE /\ q.dragging = FALSE
  BY <1>1, <1>3 DEF Pads
<1>5. ASSUME NEW q \in {NoPad, [NoPad EXCEPT !.left = FALSE]}
      PROVE  Sound(q) /\ q.click = "none" /\ ~q.dragging /\ Active(q) = {}
  <2>1. Active(q) = {}
    BY <1>2, <1>4 DEF Active
  <2>2. QED BY <1>4, <2>1 DEF Sound, DragSound
<1>6. QED BY <1>1, <1>5

(* The window for a second tap passes.                                     *)
LEMMA TapAgesStep ==
  ASSUME PadInv, TapAges
  PROVE  PadInv'
<1> DEFINE q == [pad EXCEPT !.lastTap = "old"]
<1>1. Handled(q) /\ most' = most
      /\ UNCHANGED <<panel, open, finger, known, key, cursor, losses>>
      /\ UNCHANGED <<mtSlot, readSlot, touchSlot, stray>>
  BY DEF TapAges, panelVars, slotVars
<1>2. pad \in Pads /\ Sound(pad) /\ pad.click = "none"
  BY PadIsSound
<1>3. q \in Pads /\ q.slots = pad.slots /\ q.dragging = pad.dragging /\ q.left = pad.left
      /\ q.click = "none" /\ q.maxFingers = pad.maxFingers
  BY <1>2 DEF Pads
<1> HIDE DEF q
<1>4. Active(q) = Active(pad) /\ Count(q) = Count(pad)
  BY <1>3 DEF Active, Count
<1>5. Sound(q)
  BY <1>2, <1>3, <1>4 DEF Sound, DragSound
<1>6. /\ DragSound(pad)' /\ Active(pad)' = Active(pad) /\ Count(pad)' = Count(pad)
      /\ PanelTypeOK' /\ most' \in 0..(PanelSlotCount + 1) => PadTypeOK'
      /\ sent' = "none" /\ pad'.maxFingers = pad.maxFingers
      /\ pad'.dragging = pad.dragging
  BY <1>1, <1>3, <1>4, <1>5, HandledEffect
<1>7. PadTypeOK'
  BY <1>1, <1>6 DEF PadInv, PadTypeOK, PanelTypeOK
<1>8. Contacts' = Contacts /\ HasMtSlots' = HasMtSlots /\ Reliable' = Reliable
  BY <1>1 DEF Contacts, HasMtSlots, Reliable
<1>9. SlotsAgree' /\ EmulationAgrees' /\ PadTracks'
  BY <1>1, <1>6, <1>8 DEF PadInv, SlotsAgree, EmulationAgrees, PadTracks
<1>10. MostCounted'
  BY <1>1, <1>6, <1>8 DEF PadInv, MostCounted
<1>11. FingersChooseButton'
  BY <1>6 DEF FingersChooseButton
<1>12. QED BY <1>1, <1>6, <1>7, <1>9, <1>10, <1>11 DEF PadInv

(* evdev_cancel_touch_input: a drag is let go of.                          *)
LEMMA PadCancelStep ==
  ASSUME PadInv, PadCancel
  PROVE  PadInv'
<1>1. open' = FALSE /\ UNCHANGED <<panel, finger, known, key, cursor, losses, most>>
      /\ UNCHANGED <<mtSlot, readSlot, touchSlot, stray>>
      /\ Handled([NoPad EXCEPT !.left = ReleaseLeft(pad).left])
  BY DEF PadCancel, slotVars
<1>2. ReleaseLeft(pad).left = FALSE
  <2>1. pad \in Pads /\ pad.left = pad.dragging
    BY PadIsSound DEF Sound, DragSound
  <2>2. ReleaseLeft(pad).left \in BOOLEAN /\ ~ReleaseLeft(pad).left
    BY <2>1, ButtonOperations DEF Pads
  <2>3. QED BY <2>2
<1>3. Handled([NoPad EXCEPT !.left = FALSE])
  BY <1>1, <1>2
<1>4. /\ DragSound(pad)' /\ Active(pad)' = {} /\ ~pad'.dragging /\ sent' = "none"
      /\ PanelTypeOK' /\ most' \in 0..(PanelSlotCount + 1) => PadTypeOK'
  BY <1>3, NoPadFacts, HandledEffect
<1>5. PadTypeOK'
  BY <1>1, <1>4 DEF PadInv, PadTypeOK, PanelTypeOK
<1>6. Contacts' = Contacts /\ HasMtSlots' = HasMtSlots
  BY <1>1 DEF Contacts, HasMtSlots
<1>7. SlotsAgree' /\ EmulationAgrees'
  BY <1>1, <1>4, <1>6 DEF PadInv, SlotsAgree, EmulationAgrees
<1>8. PadTracks' /\ MostCounted' /\ FingersChooseButton'
  BY <1>1, <1>4 DEF PadTracks, MostCounted, FingersChooseButton
<1>9. QED BY <1>1, <1>4, <1>5, <1>7, <1>8 DEF PadInv

(* Nothing of the pad is left when the device is opened: what is needed of *)
(* the panel is the same at the start and when the device comes back.      *)
LEMMA PlacedFacts ==
  ASSUME finger \in PlacementsOf(panel)
  PROVE  /\ finger \in [PanelSlots -> TrackingIds \cup {Lifted}]
         /\ ~HasMtSlots => Contacts \subseteq {0}
<1>1. finger \in Placements
  BY DEF PlacementsOf
<1>2. ~HasMtSlots => \A s \in PanelSlots \ {0} : finger[s] = Lifted
  BY DEF PlacementsOf, HasMtSlots
<1>3. QED BY <1>1, <1>2 DEF Placements, Contacts

PadFresh ==
  /\ panel \in PanelKinds /\ open = TRUE /\ finger \in PlacementsOf(panel)
  /\ known = Contacts /\ key = (panel # "mt" /\ Contacts # {}) /\ cursor = 0 /\ losses = 0
  /\ PadTypeOK /\ Active(pad) = {} /\ DragSound(pad) /\ sent = "none"
  /\ most = IF Contacts \cap Tracked = {} THEN 0 ELSE PanelSlotCount + 1

LEMMA FreshPad == PadFresh => PadInv
<1> SUFFICES ASSUME PadFresh PROVE PadInv
  OBVIOUS
<1> USE DEF PadFresh
<1>1. SlotsAgree
  BY PlacedFacts DEF SlotsAgree, HasMtSlots
<1>2. EmulationAgrees
  BY DEF EmulationAgrees
<1>3. PadTracks
  BY DEF PadTracks
<1>4. MostCounted
  <2> SUFFICES ASSUME most <= PanelSlotCount
               PROVE  Active(pad) = Contacts \cap Slots /\ Count(pad) <= most
    BY DEF MostCounted
  <2>1. Contacts \cap Tracked = {} /\ most = 0
    BY PanelAssumption
  <2>2. Contacts \cap Slots = {}
    BY <2>1 DEF Tracked, Contacts
  <2>3. Count(pad) = 0
    BY Counting
  <2>4. QED BY <2>1, <2>2, <2>3
<1>5. FingersChooseButton
  BY DEF FingersChooseButton
<1>6. QED BY <1>1, <1>2, <1>3, <1>4, <1>5 DEF PadInv

LEMMA PadInitial ==
  ASSUME PadInit
  PROVE  PadInv
<1>1. /\ panel \in PanelKinds /\ open = TRUE /\ finger \in PlacementsOf(panel)
      /\ known = Contacts /\ key = (panel # "mt" /\ Contacts # {}) /\ cursor = 0 /\ losses = 0
      /\ mtSlot \in LastSlotsOf(panel) /\ readSlot = mtSlot /\ touchSlot = 0 /\ stray = FALSE
      /\ pad = NoPad /\ sent = "none"
      /\ most = IF Contacts \cap Tracked = {} THEN 0 ELSE PanelSlotCount + 1
  BY PanelAssumption DEF PadInit, PanelInit
<1>2. PanelTypeOK
  <2>1. /\ mtSlot \in PanelSlots /\ readSlot \in PanelSlots /\ touchSlot \in PanelSlots
        /\ stray \in BOOLEAN
    BY <1>1, LastSlots
  <2>2. QED BY <1>1, <2>1, PlacedFacts, PanelAssumption DEF PanelTypeOK, Contacts
<1>3. NoPad \in [slots : [Slots -> PadSlot], maxFingers : 0..2, moved : BOOLEAN,
                 avgValid : BOOLEAN, dragging : BOOLEAN, left : BOOLEAN,
                 lastTap : {"none", "recent", "old"}, click : {"none"}]
  BY NoPadFacts DEF Pads
<1>4. most \in 0..(PanelSlotCount + 1)
  BY <1>1, PanelAssumption
<1>5. PadTypeOK
  BY <1>1, <1>2, <1>3, <1>4 DEF PadTypeOK
<1>6. Active(pad) = {} /\ DragSound(pad)
  BY <1>1, NoPadFacts DEF Sound
<1>7. QED BY <1>1, <1>5, <1>6, FreshPad DEF PadFresh

LEMMA PadReopenStep ==
  ASSUME PadInv, PadReopen
  PROVE  PadInv'
<1>1. /\ ~open /\ panel' = panel /\ open' = TRUE /\ finger' \in PlacementsOf(panel')
      /\ known' = Contacts' /\ key' = (panel' # "mt" /\ Contacts' # {})
      /\ cursor' = 0 /\ losses' = 0
      /\ mtSlot' \in LastSlotsOf(panel) /\ readSlot' = mtSlot'
      /\ touchSlot' = 0 /\ stray' = FALSE
      /\ most' = IF Contacts' \cap Tracked = {} THEN 0 ELSE PanelSlotCount + 1
      /\ Handled([NoPad EXCEPT !.left = pad.left])
  BY DEF PadReopen, Opened, Contacts
<1>2. pad.left = FALSE
  BY <1>1, PadIsSound DEF PadInv, DragSound, Pads
<1>3. Handled([NoPad EXCEPT !.left = FALSE])
  BY <1>1, <1>2
<1>4. /\ DragSound(pad)' /\ Active(pad)' = {} /\ ~pad'.dragging /\ sent' = "none"
      /\ PanelTypeOK' /\ most' \in 0..(PanelSlotCount + 1) => PadTypeOK'
  BY <1>3, NoPadFacts, HandledEffect
<1>5. panel' \in PanelKinds /\ key' \in BOOLEAN
  BY <1>1 DEF PadInv, PadTypeOK, PanelTypeOK
<1>6. finger' \in [PanelSlots -> TrackingIds \cup {Lifted}]
  BY <1>1 DEF PlacementsOf, Placements
<1>7. PanelTypeOK' /\ most' \in 0..(PanelSlotCount + 1)
  <2>1. /\ mtSlot' \in PanelSlots /\ readSlot' \in PanelSlots /\ touchSlot' \in PanelSlots
        /\ stray' \in BOOLEAN
    BY <1>1, LastSlots
  <2>2. QED BY <1>1, <1>5, <1>6, <2>1, PanelAssumption DEF PanelTypeOK, Contacts
<1>8. PadFresh'
  BY <1>1, <1>4, <1>5, <1>7 DEF PadFresh
<1>9. QED BY <1>8, FreshPad, PTL

(* Events are lost: only the button is still vouched for.                  *)
LEMMA PadOverflowsStep ==
  ASSUME PadInv, PadOverflows
  PROVE  PadInv'
<1>1. Overflow /\ Handled(pad) /\ most' = most
  BY DEF PadOverflows
<1>2. PanelTypeOK' /\ open /\ open' /\ panel' = panel
  BY <1>1, PanelTypes DEF PadInv, PadTypeOK
<1>3. losses' # 0
  BY <1>1 DEF Overflow, PadInv, PadTypeOK, PanelTypeOK
<1>4. Sound(pad)
  BY PadIsSound
<1>5. /\ DragSound(pad)'
      /\ PanelTypeOK' /\ most' \in 0..(PanelSlotCount + 1) => PadTypeOK'
      /\ sent' \in {"leftClick", "rightClick"} => Active(pad)' = {}
  BY <1>1, <1>4, HandledEffect
<1>6. PadTypeOK'
  BY <1>1, <1>2, <1>5 DEF PadInv, PadTypeOK
<1>7. SlotsAgree' /\ EmulationAgrees' /\ PadTracks' /\ MostCounted' /\ FingersChooseButton'
  BY <1>3, <1>5 DEF SlotsAgree, EmulationAgrees, PadTracks, MostCounted,
                    FingersChooseButton, Reliable
<1>8. QED BY <1>2, <1>5, <1>6, <1>7 DEF PadInv

-----------------------------------------------------------------------------
LEMMA PadInductive ==
  ASSUME PadInv, SlotsInStep, PadNext
  PROVE  PadInv'
BY PadReportStep, PadReportSingleStep, PadEmulateStep, PadSynStep, TapAgesStep,
   PadCancelStep, PadReopenStep, PadOverflowsStep DEF PadNext

(* Each mode leaves the state of the other as it was at the start.         *)
ScreenUnused ==
  /\ supported \in BOOLEAN /\ touchSlots \in [Slots -> Slot] /\ flush \in 0..Rest
  /\ Unused
PadUnused == pad = NoPad /\ sent = "none" /\ most \in 0..(PanelSlotCount + 1)
ModeInv ==
  /\ touchpadMode \in BOOLEAN
  /\ touchpadMode => PadInv /\ ScreenUnused
  /\ ~touchpadMode => PadUnused

LEMMA ModeInductive == TouchSpec => []ModeInv
<1>1. TouchInit => ModeInv
  <2> SUFFICES ASSUME TouchInit PROVE ModeInv
    OBVIOUS
  <2>1. PadInit /\ ScreenInit /\ touchpadMode \in BOOLEAN
    BY DEF TouchInit
  <2>2. PadInv
    BY <2>1, PadInitial
  <2>3. Fresh \in [Slots -> Slot]
    BY DEF Fresh, SlotReset, Slot
  <2>4. ScreenUnused
    BY <2>1, <2>3, FlushTypes, HostAssumption DEF ScreenInit, ScreenUnused, Unused
  <2>5. PadUnused
    BY <2>1, <2>2 DEF PadInit, PadUnused, PadInv, PadTypeOK
  <2>6. QED BY <2>1, <2>2, <2>4, <2>5 DEF ModeInv
<1>2. ModeInv /\ PanelInStep /\ [TouchNext]_touchVars => ModeInv'
  <2> SUFFICES ASSUME ModeInv, SlotsInStep, [TouchNext]_touchVars PROVE ModeInv'
    BY DEF PanelInStep
  <2>1. CASE ~touchpadMode /\ UNCHANGED <<pad, sent, most, touchpadMode>>
    BY <2>1 DEF ModeInv, PadUnused
  <2>2. CASE /\ touchpadMode /\ PadNext
             /\ UNCHANGED <<supported, deviceVars, flush, hostVars, touchpadMode>>
    <3>1. PadInv'
      BY <2>2, PadInductive DEF ModeInv
    <3>2. ScreenUnused'
      BY <2>2 DEF ModeInv, ScreenUnused, Unused, deviceVars, hostVars, Rest
    <3>3. QED BY <2>2, <3>1, <3>2 DEF ModeInv
  <2>3. CASE UNCHANGED touchVars
    <3>1. /\ UNCHANGED <<panel, open, finger, known, key, cursor, losses>>
          /\ UNCHANGED <<mtSlot, readSlot, touchSlot, stray>>
          /\ UNCHANGED <<supported, touchSlots, directUnsupported, mouseSlot, mouseDown>>
          /\ UNCHANGED <<flush, hostTouches, hostButton, pad, sent, most, touchpadMode>>
      BY <2>3 DEF touchVars, screenVars, padVars, panelVars, slotVars, deviceVars, hostVars
    <3>2. PadInv => PadInv'
      <4> SUFFICES ASSUME PadInv PROVE PadInv'
        OBVIOUS
      <4>1. Contacts' = Contacts /\ HasMtSlots' = HasMtSlots /\ Reliable' = Reliable
        BY <3>1 DEF Contacts, HasMtSlots, Reliable
      <4>2. PadTypeOK'
        BY <3>1 DEF PadInv, PadTypeOK, PanelTypeOK
      <4>3. Active(pad)' = Active(pad) /\ Count(pad)' = Count(pad)
        BY <3>1 DEF Active, Count
      <4>4. DragSound(pad)' /\ SlotsAgree' /\ EmulationAgrees' /\ PadTracks'
        BY <3>1, <4>1, <4>3 DEF PadInv, DragSound, SlotsAgree, EmulationAgrees, PadTracks
      <4>5. MostCounted' /\ FingersChooseButton'
        BY <3>1, <4>1, <4>3 DEF PadInv, MostCounted, FingersChooseButton
      <4>6. QED BY <3>1, <4>2, <4>3, <4>4, <4>5 DEF PadInv
    <3>3. ScreenUnused => ScreenUnused'
      BY <3>1 DEF ScreenUnused, Unused, Rest
    <3>4. PadUnused => PadUnused'
      BY <3>1 DEF PadUnused
    <3>5. QED BY <3>1, <3>2, <3>3, <3>4 DEF ModeInv
  <2>4. QED BY <2>1, <2>2, <2>3 DEF TouchNext
<1>3. QED BY <1>1, <1>2, PanelStaysInStep, PTL DEF TouchSpec

(* A touch device's state, in either mode, is what evdev.c and             *)
(* touch_utils.c declare it to be.                                         *)
THEOREM DeviceTyped == TouchSpec => []DeviceTypeOK
<1>1. ModeInv /\ DeviceInv => DeviceTypeOK
  <2> SUFFICES ASSUME ModeInv, DeviceInv PROVE DeviceTypeOK
    OBVIOUS
  <2>1. CASE touchpadMode
    <3>1. PadTypeOK /\ ScreenUnused
      BY <2>1 DEF ModeInv, PadInv
    <3>2. TouchTypeOK
      BY <3>1 DEF PadTypeOK, TouchTypeOK, ScreenUnused, Unused, NoSlot
    <3>3. QED BY <3>1, <3>2 DEF ModeInv, DeviceTypeOK
  <2>2. CASE ~touchpadMode
    <3>1. TouchTypeOK /\ PadUnused
      BY <2>2 DEF ModeInv, DeviceInv, ScreenInv, ButtonInv
    <3>2. pad \in [slots : [Slots -> PadSlot], maxFingers : 0..2, moved : BOOLEAN,
                   avgValid : BOOLEAN, dragging : BOOLEAN, left : BOOLEAN,
                   lastTap : {"none", "recent", "old"}, click : {"none"}]
      BY <3>1, NoPadFacts DEF PadUnused, Pads
    <3>3. PadTypeOK
      BY <3>1, <3>2 DEF PadTypeOK, PadUnused, TouchTypeOK
    <3>4. QED BY <3>1, <3>3 DEF ModeInv, DeviceTypeOK
  <2>3. QED BY <2>1, <2>2
<1>2. QED BY <1>1, ModeInductive, DeviceInductive, PTL

(* The button is held for a drag of one finger and a click ends a gesture; *)
(* if every report was taken for its own slot, the fingers that were       *)
(* together choose the click and nothing is left over when they are gone   *)
(* (touchpad_begin_slot, touchpad_finish_gesture, touchpad_release_all).   *)
THEOREM PadFollows == TouchSpec => []PadFollowsFingers
<1>1. ModeInv => PadFollowsFingers
  <2> SUFFICES ASSUME ModeInv PROVE PadFollowsFingers
    OBVIOUS
  <2>1. CASE touchpadMode
    <3>1. PadInv
      BY <2>1 DEF ModeInv
    <3>2. DragIsOneFinger
      <4>1. open \in BOOLEAN /\ pad.dragging \in BOOLEAN
        BY <3>1 DEF PadInv, PadTypeOK, PanelTypeOK
      <4>2. QED BY <3>1, <4>1 DEF PadInv, DragSound, DragIsOneFinger
    <3>3. ASSUME Idle, stray => panel = "emulating" PROVE Active(pad) = {}
      <4>1. losses = 0 /\ cursor = 0 /\ Contacts = {}
        BY <3>3 DEF Idle
      <4>2. CASE panel = "emulating"
        BY <3>1, <4>1, <4>2 DEF PadInv, EmulationAgrees
      <4>3. CASE panel # "emulating"
        <5>1. Reliable
          BY <3>3, <4>1, <4>3 DEF Reliable
        <5>2. Active(pad) \subseteq Contacts
          BY <3>1, <5>1 DEF PadInv, PadTracks
        <5>3. QED BY <4>1, <5>2
      <4>4. QED BY <4>2, <4>3
    <3>4. QED BY <3>1, <3>2, <3>3 DEF PadInv, PadFollowsFingers
  <2>2. CASE ~touchpadMode
    <3>1. pad = NoPad /\ sent = "none"
      BY <2>2 DEF ModeInv, PadUnused
    <3>2. Sound(pad) /\ ~pad.dragging /\ Active(pad) = {}
      BY <3>1, NoPadFacts
    <3>3. DragIsOneFinger
      BY <3>2 DEF Sound, DragSound, DragIsOneFinger
    <3>4. FingersChooseButton
      BY <3>1 DEF FingersChooseButton
    <3>5. QED BY <3>2, <3>3, <3>4 DEF PadFollowsFingers
  <2>3. QED BY <2>1, <2>2
<1>2. QED BY <1>1, ModeInductive, PTL

-----------------------------------------------------------------------------
(* What a step may make of a gesture whose fingers were all seen to come.  *)
GestureStep ==
  /\ panel # "singleLate" /\ ~pad.dragging /\ pad'.dragging => pad.lastTap = "recent"
  /\ sent' = "move" => most = 1

LEMMA TrackedFingers ==
  ASSUME PadInv, open, Reliable, most <= PanelSlotCount
  PROVE  /\ losses = 0 /\ Active(pad) = Contacts \cap Slots
         /\ Active(pad) # {} =>
              /\ MaxFingersOf(pad.maxFingers, Count(pad)) = CapFingers(most)
              /\ most >= 1
<1>1. /\ losses = 0 /\ Active(pad) = Contacts \cap Slots /\ Count(pad) <= most
      /\ Active(pad) # {} => pad.maxFingers = CapFingers(most)
  BY DEF PadInv, MostCounted, Reliable
<1>2. most \in Nat /\ Count(pad) \in Nat /\ (Active(pad) # {} => Count(pad) # 0)
  BY Counting DEF PadInv, PadTypeOK
<1>3. MaxFingersOf(CapFingers(most), Count(pad)) = CapFingers(most)
  BY <1>1, <1>2 DEF MaxFingersOf, CapFingers
<1>4. QED BY <1>1, <1>2, <1>3

LEMMA GestureSteps ==
  ASSUME PadInv, SlotsInStep, PadNext, Reliable', most <= PanelSlotCount
  PROVE  GestureStep
<1>1. pad \in Pads /\ Sound(pad) /\ pad.click = "none"
  BY PadIsSound
<1>2. ASSUME NEW q, Sound(q), Handled(q),
             \/ Alike(pad, q)
             \/ \E s : Began(pad, s, q) /\ (q.dragging => pad.lastTap = "recent")
             \/ \E S : Ended(pad, S, q)
      PROVE  GestureStep
  <2>1. pad'.dragging = q.dragging /\ sent' = q.click
    BY <1>2, HandledEffect
  <2>2. q.click # "move"
    BY <1>1, <1>2 DEF Alike, Began, Ended
  <2>3. q.dragging => pad.dragging \/ pad.lastTap = "recent"
    BY <1>2 DEF Alike, Ended
  <2>4. QED BY <2>1, <2>2, <2>3 DEF GestureStep
<1>3. ASSUME NEW axes \in SUBSET Axes, NEW far \in BOOLEAN, NEW s \in PanelSlots,
             NEW id \in TrackingIds \cup {Lifted}, PadReport(s, id, axes, far)
      PROVE  GestureStep
  <2> DEFINE u == touchSlot'
             told == TrackingIdSent(s, id)
             q == PadReported(u, told, id, axes, far)
  <2>0. told \in BOOLEAN /\ (axes # {}) \in BOOLEAN
    BY DEF TrackingIdSent
  <2>1. Contact(s, id, axes # {}) /\ (id = Lifted => axes = {}) /\ Handled(q)
    BY <1>3 DEF PadReport, PadReported
  <2>2. /\ open /\ panel' = panel /\ losses' = losses
        /\ losses = 0 /\ ~stray' =>
             u = s /\ ~stray /\ (told <=> ~(s \in Contacts /\ id # Lifted))
        /\ id = Lifted => s \in Contacts
    BY <2>0, <2>1, ContactEffect DEF PadInv, PadTypeOK
  <2>3. /\ Active(pad) = Contacts \cap Slots /\ u = s
        /\ told <=> ~(s \in Contacts /\ id # Lifted)
    BY <2>2, TrackedFingers DEF Reliable
  <2>4. /\ Sound(q)
        /\ u \notin Slots => Alike(pad, q)
        /\ u \in Slots /\ id # Lifted /\ ~told =>
             IF axes = {} \/ u \in Active(pad) THEN Alike(pad, q) ELSE Began(pad, u, q)
        /\ u \in Slots /\ id # Lifted /\ told =>
             Began(pad, u, q) /\ (q.dragging => pad.lastTap = "recent")
        /\ u \in Slots /\ id = Lifted /\ told => Ended(pad, {u}, q)
    BY <2>0, <2>1, ReportedPad
  <2> HIDE DEF q, u, told
  <2>5. \/ Alike(pad, q)
        \/ Began(pad, s, q) /\ (q.dragging => pad.lastTap = "recent")
        \/ Ended(pad, {s}, q)
    BY <2>2, <2>3, <2>4
  <2>6. QED BY <1>2, <2>1, <2>4, <2>5
<1>4. ASSUME NEW axes \in SUBSET Axes, NEW far \in BOOLEAN,
             NEW id \in TrackingIds \cup {Lifted}, PadReportSingle(id, axes, far)
      PROVE  GestureStep
  <2> DEFINE q == PadReportedSingle(axes, far)
  <2>1. SingleContact(id) /\ (id = Lifted => axes = {}) /\ Handled(q)
    BY <1>4 DEF PadReportSingle, PadReportedSingle
  <2>2. /\ open /\ panel \in {"single", "singleLate"} /\ Reliable
        /\ key \in BOOLEAN /\ key' \in BOOLEAN /\ (~key' => axes = {})
        /\ losses = 0 => Contacts = (IF key THEN {0} ELSE {}) /\ (key \/ key')
    BY <2>1, SingleContactEffect DEF PadInv, PadTypeOK, Reliable
  <2>3. Active(pad) = Contacts \cap Slots /\ losses = 0 /\ 0 \in Slots
    BY <2>2, TrackedFingers, SlotSets
  <2>4. /\ Sound(q)
        /\ key /\ key' =>
             IF axes = {} \/ 0 \in Active(pad) THEN Alike(pad, q) ELSE Began(pad, 0, q)
        /\ ~key /\ key' /\ Active(pad) = {} => Began(pad, 0, q)
        /\ ~key /\ key' /\ panel = "single" /\ q.dragging => pad.lastTap = "recent"
        /\ key /\ ~key' => Ended(pad, {0}, q)
    BY <2>2, ReportedSinglePad
  <2> HIDE DEF q
  <2>5. \/ Alike(pad, q)
        \/ Began(pad, 0, q) /\ (panel = "single" /\ q.dragging => pad.lastTap = "recent")
        \/ Ended(pad, {0}, q)
    BY <2>2, <2>3, <2>4
  <2>6. CASE panel = "single"
    BY <1>2, <2>1, <2>4, <2>5, <2>6
  <2>7. CASE panel = "singleLate"
    <3>1. sent' = q.click
      BY <2>1, <2>4, HandledEffect
    <3>2. q.click # "move"
      BY <1>1, <2>5 DEF Alike, Began, Ended
    <3>3. QED BY <2>7, <3>1, <3>2 DEF GestureStep
  <2>8. QED BY <2>2, <2>6, <2>7
<1>5. ASSUME NEW axes \in SUBSET Axes, NEW far \in BOOLEAN, PadEmulate(axes, far)
      PROVE  GestureStep
  BY <1>5 DEF PadEmulate, Emulated, Reliable
<1>6. ASSUME NEW differs \in BOOLEAN, PadSyn(differs)
      PROVE  GestureStep
  <2> DEFINE q == Flushed(pad, differs)
  <2>1. Handled(IF Active(pad) = {} THEN pad ELSE q) /\ open /\ Reliable
    BY <1>6 DEF PadSyn, FrameEnds, Reliable, slotVars
  <2>2. CASE Active(pad) = {}
    <3>1. Alike(pad, pad)
      BY <1>1 DEF Alike
    <3>2. QED BY <1>1, <1>2, <2>1, <2>2, <3>1
  <2>3. CASE Active(pad) # {}
    <3>1. /\ q \in Pads /\ q.dragging = pad.dragging
          /\ q.maxFingers = MaxFingersOf(pad.maxFingers, Count(pad))
          /\ q.click = "move" => q.maxFingers = 1
      BY <1>1, FlushEffect
    <3>2. pad'.dragging = q.dragging /\ sent' = q.click
      BY <2>1, <2>3, <3>1 DEF Handled, Pads
    <3>3. q.maxFingers = CapFingers(most) /\ most >= 1
      BY <2>1, <2>3, <3>1, TrackedFingers
    <3>4. q.click = "move" => most = 1
      BY <3>1, <3>3 DEF CapFingers, PadInv, PadTypeOK
    <3>5. QED BY <3>1, <3>2, <3>4 DEF GestureStep
  <2>4. QED BY <2>2, <2>3
<1>7. CASE TapAges
  <2> DEFINE q == [pad EXCEPT !.lastTap = "old"]
  <2>1. q \in Pads /\ q.dragging = pad.dragging /\ q.click = "none"
    BY <1>1 DEF Pads
  <2>2. Handled(q)
    BY <1>7 DEF TapAges
  <2> HIDE DEF q
  <2>3. pad'.dragging = pad.dragging /\ sent' = "none"
    BY <2>1, <2>2 DEF Handled, Pads
  <2>4. QED BY <2>3 DEF GestureStep
<1>8. CASE PadCancel \/ PadReopen
  <2>1. PICK left \in BOOLEAN : Handled([NoPad EXCEPT !.left = left])
    <3>1. ReleaseLeft(pad).left \in BOOLEAN /\ pad.left \in BOOLEAN
      BY <1>1, ButtonOperations DEF Pads
    <3>2. QED BY <1>8, <3>1 DEF PadCancel, PadReopen
  <2>2. ~pad'.dragging /\ sent' = "none"
    BY <2>1 DEF Handled, NoPad
  <2>3. QED BY <2>2 DEF GestureStep
<1>9. CASE PadOverflows
  <2>1. Alike(pad, pad) /\ Handled(pad)
    BY <1>1, <1>9 DEF Alike, PadOverflows
  <2>2. QED BY <1>1, <1>2, <2>1
<1>10. QED BY <1>3, <1>4, <1>5, <1>6, <1>7, <1>8, <1>9 DEF PadNext

(* If every report was taken for its own slot, a drag begins only within   *)
(* the window after a tap, and only a finger that has been alone moves the *)
(* pointer (touchpad_begin_slot, touchpad_flush).                          *)
THEOREM GesturesFollow == TouchSpec => GesturesFollowFingers
<1>1. ModeInv /\ PanelInStep /\ [TouchNext]_touchVars
        => [Reliable' /\ most <= PanelSlotCount => GestureStep]_padVars
  <2> SUFFICES ASSUME ModeInv, SlotsInStep, [TouchNext]_touchVars, Reliable',
                      most <= PanelSlotCount, ~UNCHANGED padVars
               PROVE  GestureStep
    BY DEF PanelInStep
  <2>1. CASE ~touchpadMode /\ UNCHANGED <<pad, sent>>
    <3>1. sent' = "none" /\ pad' = pad
      BY <2>1 DEF ModeInv, PadUnused
    <3>2. QED BY <3>1 DEF GestureStep
  <2>2. CASE touchpadMode /\ PadNext
    BY <2>2, GestureSteps DEF ModeInv
  <2>3. CASE UNCHANGED touchVars
    BY <2>3 DEF touchVars
  <2>4. QED BY <2>1, <2>2, <2>3 DEF TouchNext
<1>2. QED
  BY <1>1, ModeInductive, PanelStaysInStep, PTL
  DEF TouchSpec, GesturesFollowFingers, GestureStep
=============================================================================
