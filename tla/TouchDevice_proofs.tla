------------------------- MODULE TouchDevice_proofs -------------------------
(***************************************************************************)
(* Screen mode, for any number of slots, contacts, panels and overflows:   *)
(* the host never holds a touch or a button that the client has forgotten. *)
(***************************************************************************)
EXTENDS TouchDevice, TLAPS

(* What holds whatever the panel reports and whatever is lost.             *)
ButtonInv ==
  /\ TouchTypeOK
  /\ hostButton = mouseDown
  /\ mouseDown = (mouseSlot # NoSlot)
  /\ mouseDown => directUnsupported
  /\ directUnsupported => ~supported
  /\ ~supported => hostTouches = {}
  /\ ~open => hostTouches = {} /\ ~mouseDown /\ touchSlots = Fresh /\ flush = Rest
  /\ flush # Rest => cursor = 0

(* A slot's flags belong together; a slot that is active has a finger; one *)
(* that is to be lifted is so in the frame that lifts it.                  *)
SlotShape ==
  \A s \in Slots :
    /\ touchSlots[s].sent_down =>
         /\ touchSlots[s].x_valid /\ touchSlots[s].y_valid
         /\ touchSlots[s].active \/ touchSlots[s].up_pending
    /\ touchSlots[s].up_pending => ~touchSlots[s].active
SlotsHaveFingers ==
  \A s \in Slots : touchSlots[s].active =>
    /\ s \in PanelSlots /\ finger[s] # Lifted
    /\ HasMtSlots => s \in known
    /\ ~HasMtSlots => s = 0 /\ key
PendingInFrame ==
  \A s \in Slots : touchSlots[s].up_pending =>
    IF flush = Rest THEN s < cursor ELSE flush <= s
KernelAgrees == ~HasMtSlots => key = (finger[0] # Lifted)

ReliableInv ==
  /\ SlotShape /\ SlotsHaveFingers /\ PendingInFrame /\ KernelAgrees
  /\ HostTouchesTracked /\ ButtonTracked
  /\ flush = Rest /\ cursor = 0 /\ directUnsupported =>
       mouseDown = (\E s \in Slots : Usable(s))

ScreenInv == ButtonInv /\ (Reliable => ReliableInv)

-----------------------------------------------------------------------------
(* The slot operations of touch_utils.c keep a slot a slot.                *)
LEMMA SlotTypes ==
  ASSUME NEW slot \in Slot, NEW axes \in SUBSET Axes
  PROVE  /\ SlotReset \in Slot
         /\ \A id \in Ids : SlotBegin(id) \in Slot
         /\ SlotEnd(slot) \in Slot
         /\ SlotUpdate(slot, axes) \in Slot
         /\ Fresh \in [Slots -> Slot]
<1>1. SlotReset \in Slot
  BY DEF SlotReset, Slot
<1>2. \A id \in Ids : SlotBegin(id) \in Slot
  BY DEF SlotReset, SlotBegin, Slot
<1>3. SlotEnd(slot) \in Slot
  BY DEF SlotEnd, Slot
<1>4. SlotUpdate(slot, axes) \in Slot
  <2> DEFINE begun == IF slot.active THEN slot ELSE SlotBegin(0)
  <2>1. begun \in Slot
    BY <1>2 DEF Ids
  <2> HIDE DEF begun
  <2>2. [begun EXCEPT !.x_valid = @ \/ "x" \in axes, !.y_valid = @ \/ "y" \in axes,
                      !.dirty = TRUE] \in Slot
    BY <2>1 DEF Slot
  <2>3. QED BY <2>2 DEF SlotUpdate, begun
<1>5. QED BY <1>1, <1>2, <1>3, <1>4 DEF Fresh

(* What one operation does to a slot's flags.                              *)
LEMMA BeginFlags ==
  ASSUME NEW id
  PROVE  /\ SlotBegin(id).active /\ ~SlotBegin(id).sent_down
         /\ ~SlotBegin(id).up_pending
BY DEF SlotReset, SlotBegin

LEMMA EndFlags ==
  ASSUME NEW slot \in Slot
  PROVE  /\ ~SlotEnd(slot).active
         /\ SlotEnd(slot).sent_down = slot.sent_down
         /\ SlotEnd(slot).tracking_id = slot.tracking_id
         /\ SlotEnd(slot).x_valid = slot.x_valid /\ SlotEnd(slot).y_valid = slot.y_valid
         /\ (slot.active \/ slot.sent_down \/ slot.up_pending) = SlotEnd(slot).up_pending
BY DEF SlotEnd, Slot

LEMMA UpdateFlags ==
  ASSUME NEW slot \in Slot, NEW axes, slot.active
  PROVE  /\ SlotUpdate(slot, axes).active
         /\ SlotUpdate(slot, axes).sent_down = slot.sent_down
         /\ SlotUpdate(slot, axes).up_pending = slot.up_pending
         /\ SlotUpdate(slot, axes).tracking_id = slot.tracking_id
         /\ slot.x_valid => SlotUpdate(slot, axes).x_valid
         /\ slot.y_valid => SlotUpdate(slot, axes).y_valid
BY DEF SlotUpdate, Slot

LEMMA UpdateBegins ==
  ASSUME NEW slot \in Slot, NEW axes, ~slot.active, axes # {}
  PROVE  /\ SlotUpdate(slot, axes).active
         /\ ~SlotUpdate(slot, axes).sent_down
         /\ ~SlotUpdate(slot, axes).up_pending
BY DEF SlotUpdate, SlotBegin, SlotReset

LEMMA FlushTypes == Rest \in Nat /\ \A n \in Slots : n \in 0..Rest /\ n + 1 \in 0..Rest
BY PanelAssumption DEF Rest, Slots

LEMMA LastSlots == \A p : LastSlotsOf(p) \subseteq PanelSlots /\ 0 \in PanelSlots
BY PanelAssumption DEF LastSlotsOf, PanelSlots

LEMMA PanelTypes ==
  ASSUME PanelTypeOK,
         \/ \E s \in PanelSlots, id \in TrackingIds \cup {Lifted}, moved \in BOOLEAN :
              Contact(s, id, moved)
         \/ \E id \in TrackingIds \cup {Lifted} : SingleContact(id)
         \/ Emulated \/ FrameEnds \/ Overflow
  PROVE  PanelTypeOK' /\ open /\ open' /\ panel' = panel
<1> USE PanelAssumption DEF PanelTypeOK
<1>1. CASE \E s \in PanelSlots, id \in TrackingIds \cup {Lifted}, moved \in BOOLEAN :
             Contact(s, id, moved)
  <2>1. PICK s \in PanelSlots, id \in TrackingIds \cup {Lifted}, moved \in BOOLEAN :
          Contact(s, id, moved)
    BY <1>1
  <2>2. /\ mtSlot' \in PanelSlots /\ readSlot' \in PanelSlots /\ touchSlot' \in PanelSlots
        /\ stray' \in BOOLEAN /\ known' \subseteq PanelSlots
    BY <2>1 DEF Contact, SlotRead
  <2>3. QED BY <2>1, <2>2 DEF Contact, Placements, PanelSlots
<1>2. CASE \E id \in TrackingIds \cup {Lifted} : SingleContact(id)
  BY <1>2 DEF SingleContact, PanelSlots, slotVars
<1>3. CASE Emulated
  BY <1>3 DEF Emulated, slotVars
<1>4. CASE FrameEnds
  BY <1>4 DEF FrameEnds, slotVars
<1>5. CASE Overflow
  BY <1>5, LastSlots DEF Overflow, PlacementsOf, Placements
<1>6. QED BY <1>1, <1>2, <1>3, <1>4, <1>5

(* Whoever reads the panel's events agrees with the kernel while none is   *)
(* lost: libevdev on the current slot and on the contacts, evdev.c on the  *)
(* current slot but for the 0 it starts with (evdev_create).               *)
SlotsInStep ==
  HasMtSlots /\ losses = 0 =>
    readSlot = mtSlot /\ touchSlot \in {0, mtSlot} /\ known = Contacts

(* A report that is taken for its own slot.                                *)
LEMMA ContactInStep ==
  ASSUME PanelTypeOK, SlotsInStep, losses = 0, NEW s \in PanelSlots,
         NEW id \in TrackingIds \cup {Lifted}, NEW moved, Contact(s, id, moved)
  PROVE  /\ readSlot' = s /\ touchSlot' \in {0, s}
         /\ TrackingIdSent(s, id) <=> finger[s] # id
         /\ s \in known <=> finger[s] # Lifted
         /\ known' = IF id = finger[s] THEN known
                     ELSE IF id = Lifted THEN known \ {s} ELSE known \cup {s}
         /\ known' = Contacts'
         /\ ~stray' => touchSlot' = s /\ ~stray
<1>1. readSlot = mtSlot /\ touchSlot \in {0, mtSlot} /\ known = Contacts
  BY DEF SlotsInStep, Contact
<1>2. SlotRead(readSlot, s) = s /\ SlotRead(touchSlot, s) \in {0, s}
  BY <1>1 DEF SlotRead
<1>3. readSlot' = s /\ touchSlot' \in {0, s}
  BY <1>2 DEF Contact
<1>4. s \in known <=> finger[s] # Lifted
  BY <1>1 DEF Contacts
<1>5. (finger[s] = Lifted) # (id = Lifted) \/ (id = finger[s] /\ id # Lifted)
  BY DEF Contact
<1>6. TrackingIdSent(s, id) <=> finger[s] # id
  BY <1>2, <1>4, <1>5 DEF TrackingIdSent
<1>7. known' = IF id = finger[s] THEN known
               ELSE IF id = Lifted THEN known \ {s} ELSE known \cup {s}
  BY <1>3 DEF Contact
<1>8. known' = Contacts'
  <2>1. finger' = [finger EXCEPT ![s] = id] /\ finger \in [PanelSlots -> TrackingIds \cup {Lifted}]
    BY DEF Contact, PanelTypeOK
  <2>2. \A t \in PanelSlots : finger'[t] = IF t = s THEN id ELSE finger[t]
    BY <2>1
  <2>3. Contacts' = {t \in PanelSlots : finger'[t] # Lifted}
    BY DEF Contacts
  <2>4. QED BY <1>1, <1>5, <1>7, <2>2, <2>3 DEF Contacts
<1>9. ~stray' => touchSlot' = s /\ ~stray
  BY DEF Contact
<1>10. QED BY <1>3, <1>4, <1>6, <1>7, <1>8, <1>9

(* The three report actions change nothing but slots and panel.            *)
Reported ==
  /\ flush = Rest /\ open
  /\ touchSlots' \in [Slots -> Slot]
  /\ PanelTypeOK' /\ open' /\ panel' = panel /\ (stray => stray')
  /\ UNCHANGED <<supported, directUnsupported, mouseSlot, mouseDown, flush, hostVars, losses>>

LEMMA ReportTypes ==
  ASSUME TouchTypeOK, NEW s \in PanelSlots, NEW id \in TrackingIds \cup {Lifted},
         NEW axes \in SUBSET Axes, Report(s, id, axes)
  PROVE  Reported
<1>1. PanelTypeOK' /\ open /\ open' /\ panel' = panel
  <2>1. PanelTypeOK /\ Contact(s, id, axes # {}) /\ (axes # {}) \in BOOLEAN
    BY DEF TouchTypeOK, Report
  <2>2. QED BY <2>1, PanelTypes
<1>2. touchSlots' \in [Slots -> Slot]
  <2> DEFINE u == touchSlot'
  <2>1. CASE u \notin Slots
    BY <2>1 DEF Report, TouchTypeOK
  <2>2. CASE u \in Slots
    <3> DEFINE tracked == IF TrackingIdSent(s, id)
                          THEN SlotTrack(touchSlots[u], id) ELSE touchSlots[u]
    <3>1. touchSlots[u] \in Slot
      BY <2>2 DEF TouchTypeOK
    <3>2. tracked \in Slot
      BY <3>1, SlotTypes DEF SlotTrack, Ids
    <3>3. SlotUpdate(tracked, axes) \in Slot
      BY <3>2, SlotTypes
    <3>4. touchSlots' = [touchSlots EXCEPT ![u] = SlotUpdate(tracked, axes)]
      BY <2>2 DEF Report
    <3> HIDE DEF tracked
    <3>5. QED BY <3>3, <3>4 DEF TouchTypeOK
  <2>3. QED BY <2>1, <2>2
<1>3. QED BY <1>1, <1>2 DEF Report, Reported, Contact

LEMMA EmulateTypes ==
  ASSUME TouchTypeOK, NEW axes \in SUBSET Axes, Emulate(axes)
  PROVE  Reported
<1>1. PanelTypeOK' /\ open /\ open' /\ panel' = panel
  <2>1. PanelTypeOK /\ Emulated
    BY DEF TouchTypeOK, Emulate
  <2>2. QED BY <2>1, PanelTypes
<1>2. touchSlots' \in [Slots -> Slot]
  <2> DEFINE released == IF key /\ ~key' THEN [s \in Slots |-> SlotEnd(touchSlots[s])]
                         ELSE touchSlots
  <2>1. released \in [Slots -> Slot]
    BY SlotTypes DEF TouchTypeOK
  <2>2. touchSlots' = [released EXCEPT ![0] = SlotUpdate(@, axes)]
    BY DEF Emulate
  <2>3. 0 \in Slots
    BY PanelAssumption DEF Slots
  <2> HIDE DEF released
  <2>4. SlotUpdate(released[0], axes) \in Slot
    BY <2>1, <2>3, SlotTypes
  <2>5. QED BY <2>1, <2>2, <2>4
<1>3. QED BY <1>1, <1>2 DEF Emulate, Reported, Emulated, slotVars

LEMMA ReportSingleTypes ==
  ASSUME TouchTypeOK, NEW id \in TrackingIds \cup {Lifted},
         NEW axes \in SUBSET Axes, ReportSingle(id, axes)
  PROVE  Reported
<1>1. PanelTypeOK' /\ open /\ open' /\ panel' = panel
  <2>1. PanelTypeOK /\ SingleContact(id)
    BY DEF TouchTypeOK, ReportSingle
  <2>2. QED BY <2>1, PanelTypes
<1>2. touchSlots' \in [Slots -> Slot]
  <2> DEFINE Touch(slot) == IF key = key' THEN slot
                            ELSE SlotTrack(slot, IF key' THEN 0 ELSE Lifted)
             new == IF panel = "single" THEN SlotUpdate(Touch(touchSlots[0]), axes)
                    ELSE Touch(SlotUpdate(touchSlots[0], axes))
  <2>1. 0 \in Slots
    BY PanelAssumption DEF Slots
  <2>2. \A slot \in Slot : Touch(slot) \in Slot
    BY SlotTypes DEF SlotTrack, Ids
  <2>3. touchSlots[0] \in Slot
    BY <2>1 DEF TouchTypeOK
  <2>4. touchSlots' = [touchSlots EXCEPT ![0] = new]
    BY DEF ReportSingle
  <2> HIDE DEF Touch
  <2>5. new \in Slot
    BY <2>2, <2>3, SlotTypes
  <2> HIDE DEF new
  <2>6. QED BY <2>1, <2>4, <2>5 DEF TouchTypeOK
<1>3. QED BY <1>1, <1>2 DEF ReportSingle, Reported, SingleContact, slotVars

(* What one turn of the flush loop does to the slot it is at.              *)
LEMMA FlushedFlags ==
  ASSUME NEW slot \in Slot
  PROVE  /\ FlushedSlot(slot) \in Slot
         /\ EventType(slot) \in {"none", "UP", "DOWN", "MOVE"}
         /\ ~FlushedSlot(slot).up_pending
         /\ ~slot.up_pending =>
              /\ FlushedSlot(slot).active = slot.active
              /\ FlushedSlot(slot).x_valid = slot.x_valid
              /\ FlushedSlot(slot).y_valid = slot.y_valid
              /\ FlushedSlot(slot).tracking_id = slot.tracking_id
              /\ slot.sent_down => FlushedSlot(slot).sent_down
              /\ EventType(slot) # "UP"
         /\ slot.up_pending => FlushedSlot(slot) = SlotReset
         /\ slot.up_pending /\ slot.x_valid /\ slot.y_valid => EventType(slot) = "UP"
         /\ EventType(slot) # "none" => slot.x_valid /\ slot.y_valid
         /\ EventType(slot) = "DOWN" => slot.active /\ FlushedSlot(slot).sent_down
         /\ EventType(slot) = "MOVE" => slot.active
         /\ FlushedSlot(slot).sent_down =>
              slot.sent_down \/ (slot.active /\ slot.x_valid /\ slot.y_valid)
<1>1. EventType(slot) \in {"none", "UP", "DOWN", "MOVE"}
  BY DEF EventType
<1>2. SlotReset \in Slot /\ SlotReset.up_pending = FALSE /\ SlotReset.sent_down = FALSE
  BY DEF SlotReset, Slot
<1>3. CASE EventType(slot) = "none"
  <2>1. FlushedSlot(slot) = IF slot.up_pending THEN SlotReset ELSE slot
    BY <1>3 DEF FlushedSlot
  <2>2. QED BY <1>1, <1>2, <1>3, <2>1 DEF EventType, Slot
<1>4. CASE EventType(slot) = "UP"
  <2>1. FlushedSlot(slot) = SlotReset
    BY <1>4 DEF FlushedSlot
  <2>2. slot.up_pending /\ slot.x_valid /\ slot.y_valid
    BY <1>4 DEF EventType
  <2>3. QED BY <1>2, <1>4, <2>1, <2>2
<1>5. CASE EventType(slot) \in {"DOWN", "MOVE"}
  <2>1. FlushedSlot(slot) =
          [slot EXCEPT !.sent_down = @ \/ EventType(slot) = "DOWN", !.dirty = FALSE]
    BY <1>5 DEF FlushedSlot
  <2>2. slot.active /\ ~slot.up_pending /\ slot.x_valid /\ slot.y_valid
    BY <1>5 DEF EventType
  <2>3. FlushedSlot(slot) \in Slot
    BY <2>1 DEF Slot
  <2>4. QED BY <1>1, <1>5, <2>1, <2>2, <2>3 DEF Slot
<1>6. QED BY <1>1, <1>3, <1>4, <1>5

LEMMA FlushSlotTypes ==
  ASSUME TouchTypeOK, FlushSlot
  PROVE  /\ touchSlots[flush] \in Slot
         /\ touchSlots' = [touchSlots EXCEPT ![flush] = FlushedSlot(touchSlots[flush])]
         /\ touchSlots' \in [Slots -> Slot]
         /\ flush \in Slots /\ flush' = flush + 1
<1>1. flush \in Slots /\ flush' = flush + 1
  BY DEF FlushSlot
<1>2. touchSlots[flush] \in Slot
  BY <1>1 DEF TouchTypeOK
<1>3. touchSlots' = [touchSlots EXCEPT ![flush] = FlushedSlot(touchSlots[flush])]
  BY DEF FlushSlot
<1>4. touchSlots' \in [Slots -> Slot]
  BY <1>1, <1>2, <1>3, FlushedFlags DEF TouchTypeOK
<1>5. QED BY <1>1, <1>2, <1>3, <1>4

(* The button and the host's state after a fallback event.                 *)
LEMMA FallbackFacts ==
  ASSUME ButtonInv, NEW s \in Slots, NEW type, MouseFallback(s, type)
  PROVE  /\ hostButton' = mouseDown'
         /\ mouseDown' = (mouseSlot' # NoSlot)
         /\ mouseSlot' \in Slots \cup {-1} /\ mouseDown' \in BOOLEAN
         /\ type # "UP" => \/ mouseSlot' = s
                           \/ mouseSlot' = mouseSlot /\ mouseSlot # NoSlot /\ mouseSlot # s
         /\ type # "UP" /\ mouseSlot = NoSlot => mouseSlot' = s
         /\ type = "UP" => mouseSlot' = IF mouseSlot = s THEN NoSlot ELSE mouseSlot
<1>1. s # NoSlot
  BY DEF Slots, NoSlot
<1>2. /\ mouseDown \in BOOLEAN /\ hostButton = mouseDown
      /\ mouseDown = (mouseSlot # NoSlot)
      /\ mouseSlot \in Slots \cup {-1}
  BY DEF ButtonInv, TouchTypeOK
<1>3. CASE mouseSlot = NoSlot /\ type # "UP"
  <2>1. mouseDown' = TRUE /\ hostButton' = TRUE /\ mouseSlot' = s
    BY <1>3 DEF MouseFallback
  <2>2. QED BY <1>1, <1>2, <1>3, <2>1
<1>4. CASE ~(mouseSlot = NoSlot /\ type # "UP") /\ mouseSlot # s
  <2>1. UNCHANGED <<mouseSlot, mouseDown, hostButton>>
    BY <1>4 DEF MouseFallback
  <2>2. QED BY <1>1, <1>2, <1>4, <2>1
<1>5. CASE ~(mouseSlot = NoSlot /\ type # "UP") /\ mouseSlot = s
  <2>1. /\ mouseDown' = (type # "UP") /\ hostButton' = (type # "UP")
        /\ mouseSlot' = IF type = "UP" /\ mouseDown THEN NoSlot ELSE mouseSlot
    BY <1>5 DEF MouseFallback
  <2>2. mouseDown = TRUE
    BY <1>1, <1>2, <1>5
  <2>3. CASE type = "UP"
    BY <1>1, <1>2, <1>5, <2>1, <2>2, <2>3 DEF NoSlot
  <2>4. CASE type # "UP"
    BY <1>1, <1>2, <1>5, <2>1, <2>2, <2>4
  <2>5. QED BY <2>3, <2>4
<1>6. QED BY <1>3, <1>4, <1>5

-----------------------------------------------------------------------------
(* A step of the panel that turns slot s of the client into new.           *)
LEMMA SlotStep ==
  ASSUME ScreenInv, Reliable, Reported, NEW s \in PanelSlots,
         \A t \in Slots \ {s} : touchSlots'[t] = touchSlots[t],
         \A t \in PanelSlots \ {s} :
           finger'[t] = finger[t] /\ (t \in known' <=> t \in known),
         cursor' > s, cursor' >= cursor,
         ~HasMtSlots => s = 0 /\ key' = (finger'[0] # Lifted),
         s \in Slots =>
           /\ touchSlots'[s].sent_down =>
                /\ touchSlots[s].sent_down
                /\ touchSlots'[s].x_valid /\ touchSlots'[s].y_valid
                /\ touchSlots'[s].active \/ touchSlots'[s].up_pending
           /\ touchSlots[s].sent_down =>
                /\ touchSlots'[s].sent_down
                /\ touchSlots'[s].tracking_id = touchSlots[s].tracking_id
           /\ touchSlots'[s].up_pending => ~touchSlots'[s].active
           /\ touchSlots[s].active =>
                /\ touchSlots[s].x_valid => touchSlots'[s].x_valid
                /\ touchSlots[s].y_valid => touchSlots'[s].y_valid
                /\ touchSlots'[s].active \/ touchSlots'[s].up_pending
           /\ ~touchSlots[s].up_pending
           /\ touchSlots'[s].active =>
                /\ finger'[s] # Lifted
                /\ HasMtSlots => s \in known'
                /\ ~HasMtSlots => key'
  PROVE  ScreenInv'
<1>1. ButtonInv'
  BY DEF ScreenInv, ButtonInv, Reported, TouchTypeOK, hostVars
<1>2. ReliableInv
  BY DEF ScreenInv
<1>3. HasMtSlots' = HasMtSlots
  BY DEF Reported, HasMtSlots
<1>4. cursor \in Int /\ cursor' \in Int /\ s \in Int /\ \A t \in Slots : t \in Int
  BY DEF ScreenInv, ButtonInv, TouchTypeOK, PanelTypeOK, Reported, PanelSlots, Slots
<1>5. SlotShape'
  BY <1>2 DEF ReliableInv, SlotShape
<1>6. SlotsHaveFingers'
  <2> SUFFICES ASSUME NEW t \in Slots, touchSlots'[t].active
               PROVE  /\ t \in PanelSlots /\ finger'[t] # Lifted
                      /\ HasMtSlots => t \in known'
                      /\ ~HasMtSlots => t = 0 /\ key'
    BY <1>3 DEF SlotsHaveFingers
  <2>1. CASE t = s
    BY <2>1
  <2>2. CASE t # s
    <3>1. touchSlots[t].active
      BY <2>2
    <3>2. /\ t \in PanelSlots /\ finger[t] # Lifted
          /\ HasMtSlots => t \in known
          /\ ~HasMtSlots => t = 0
      BY <1>2, <3>1 DEF ReliableInv, SlotsHaveFingers
    <3>3. QED BY <2>2, <3>2
  <2>3. QED BY <2>1, <2>2
<1>7. PendingInFrame'
  <2>1. flush = Rest /\ flush' = Rest
    BY DEF Reported, Rest
  <2>2. \A t \in Slots : touchSlots'[t].up_pending => t < cursor'
    BY <1>2, <1>4, <2>1 DEF ReliableInv, PendingInFrame
  <2>3. QED BY <2>1, <2>2 DEF PendingInFrame, Rest
<1>8. KernelAgrees'
  BY <1>3 DEF KernelAgrees, Lifted
<1>9. HostTouchesTracked'
  <2>1. hostTouches' = hostTouches
    BY DEF Reported, hostVars
  <2>2. \A t \in Slots : touchSlots[t].sent_down =>
          touchSlots'[t].sent_down /\ touchSlots'[t].tracking_id = touchSlots[t].tracking_id
    OBVIOUS
  <2>3. QED BY <1>2, <2>1, <2>2 DEF ReliableInv, HostTouchesTracked
<1>10. ButtonTracked'
  <2>1. mouseDown' = mouseDown /\ mouseSlot' = mouseSlot
    BY DEF Reported
  <2>2. mouseDown => mouseSlot \in Slots
    BY DEF ScreenInv, ButtonInv, TouchTypeOK, NoSlot
  <2>3. QED BY <1>2, <2>1, <2>2 DEF ReliableInv, ButtonTracked
<1>11. cursor' # 0
  BY <1>4 DEF PanelSlots
<1>12. QED
  BY <1>1, <1>5, <1>6, <1>7, <1>8, <1>9, <1>10, <1>11 DEF ScreenInv, ReliableInv

(* When events were lost or taken for another slot's, or ABS_X comes beside*)
(* slots, only the button and the types are claimed.                       *)
LEMMA UnreliableStep ==
  ASSUME ScreenInv, ~Reliable', Reported
  PROVE  ScreenInv'
<1>1. ButtonInv'
  BY DEF ScreenInv, ButtonInv, Reported, TouchTypeOK, hostVars
<1>2. QED BY <1>1 DEF ScreenInv

LEMMA ReportStep ==
  ASSUME ScreenInv, SlotsInStep, NEW s \in PanelSlots, NEW id \in TrackingIds \cup {Lifted},
         NEW axes \in SUBSET Axes, Report(s, id, axes)
  PROVE  ScreenInv'
<1>1. TouchTypeOK /\ Reported
  BY ReportTypes DEF ScreenInv, ButtonInv
<1>2. CASE ~Reliable'
  BY <1>1, <1>2, UnreliableStep
<1>3. CASE Reliable'
  <2>0. Reliable /\ losses = 0
    BY <1>1, <1>3 DEF Reported, Reliable
  <2>1. ReliableInv
    BY <2>0 DEF ScreenInv
  <2>2. /\ HasMtSlots /\ cursor <= s /\ cursor' = s + 1
        /\ finger' = [finger EXCEPT ![s] = id]
        /\ Contact(s, id, axes # {})
        /\ (finger[s] = Lifted) # (id = Lifted) \/ (id = finger[s] /\ id # Lifted)
    BY DEF Report, Contact
  <2>10. /\ touchSlot' = s
         /\ TrackingIdSent(s, id) <=> finger[s] # id
         /\ s \in known <=> finger[s] # Lifted
         /\ known' = IF id = finger[s] THEN known
                     ELSE IF id = Lifted THEN known \ {s} ELSE known \cup {s}
    BY <1>1, <1>3, <2>0, <2>2, ContactInStep DEF Reliable, TouchTypeOK
  <2>3. cursor \in Int /\ s \in Int
    BY <1>1 DEF TouchTypeOK, PanelTypeOK, PanelSlots
  <2>4. \A t \in Slots \ {s} : touchSlots'[t] = touchSlots[t]
    BY <1>1, <2>10 DEF Report, TouchTypeOK
  <2>5. \A t \in PanelSlots \ {s} :
          finger'[t] = finger[t] /\ (t \in known' <=> t \in known)
    BY <1>1, <2>2, <2>10 DEF TouchTypeOK, PanelTypeOK
  <2>6. finger'[s] = id
    BY <1>1, <2>2 DEF TouchTypeOK, PanelTypeOK
  <2> DEFINE o == touchSlots[s]
             tracked == IF TrackingIdSent(s, id) THEN SlotTrack(o, id) ELSE o
  <2>7. ASSUME s \in Slots
        PROVE  /\ touchSlots'[s].sent_down =>
                    /\ o.sent_down
                    /\ touchSlots'[s].x_valid /\ touchSlots'[s].y_valid
                    /\ touchSlots'[s].active \/ touchSlots'[s].up_pending
               /\ o.sent_down =>
                    /\ touchSlots'[s].sent_down
                    /\ touchSlots'[s].tracking_id = o.tracking_id
               /\ touchSlots'[s].up_pending => ~touchSlots'[s].active
               /\ o.active =>
                    /\ o.x_valid => touchSlots'[s].x_valid
                    /\ o.y_valid => touchSlots'[s].y_valid
                    /\ touchSlots'[s].active \/ touchSlots'[s].up_pending
               /\ ~o.up_pending
               /\ touchSlots'[s].active =>
                    /\ finger'[s] # Lifted
                    /\ HasMtSlots => s \in known'
                    /\ ~HasMtSlots => key'
    <3>1. o \in Slot
      BY <1>1, <2>7 DEF TouchTypeOK
    <3>2. touchSlots'[s] = SlotUpdate(tracked, axes)
      BY <1>1, <2>7, <2>10 DEF Report, TouchTypeOK
    <3>3. ~o.up_pending
      <4>1. o.up_pending => s < cursor
        BY <1>1, <2>1, <2>7 DEF ReliableInv, PendingInFrame, Reported
      <4>2. QED BY <2>2, <2>3, <4>1
    <3>4. o.sent_down => o.active /\ o.x_valid /\ o.y_valid
      BY <2>1, <2>7, <3>3 DEF ReliableInv, SlotShape
    <3>5. o.active => s \in known
      BY <2>1, <2>2, <2>7 DEF ReliableInv, SlotsHaveFingers
    <3> HIDE DEF o
    <3>6. CASE id # Lifted
      <4>1. id \in Ids /\ s \in known' /\ HasMtSlots
        BY <2>2, <2>10, <3>6 DEF Ids
      <4>2. CASE s \notin known
        <5>1. tracked = SlotBegin(id)
          BY <2>10, <3>6, <4>2 DEF SlotTrack
        <5>2. SlotBegin(id) \in Slot
          BY <3>1, <4>1, SlotTypes
        <5>3. /\ touchSlots'[s].active /\ ~touchSlots'[s].sent_down
              /\ ~touchSlots'[s].up_pending
          <6> DEFINE b == SlotBegin(id)
          <6>1. b \in Slot /\ touchSlots'[s] = SlotUpdate(b, axes)
            BY <3>2, <5>1, <5>2
          <6>2. b.active /\ ~b.sent_down /\ ~b.up_pending
            BY BeginFlags
          <6> HIDE DEF b
          <6>3. QED BY <6>1, <6>2, UpdateFlags
        <5>4. QED BY <2>6, <3>3, <3>4, <3>5, <3>6, <4>1, <4>2, <5>3
      <4>3. CASE s \in known
        <5>1. touchSlots'[s] = SlotUpdate(o, axes)
          BY <2>2, <2>10, <3>2, <3>6, <4>3
        <5>2. CASE o.active
          <6>1. /\ touchSlots'[s].active
                /\ touchSlots'[s].sent_down = o.sent_down
                /\ touchSlots'[s].up_pending = o.up_pending
                /\ touchSlots'[s].tracking_id = o.tracking_id
                /\ o.x_valid => touchSlots'[s].x_valid
                /\ o.y_valid => touchSlots'[s].y_valid
            BY <3>1, <5>1, <5>2, UpdateFlags
          <6>2. QED BY <2>6, <3>3, <3>4, <3>6, <4>1, <5>2, <6>1
        <5>3. CASE ~o.active /\ axes # {}
          <6>1. /\ touchSlots'[s].active /\ ~touchSlots'[s].sent_down
                /\ ~touchSlots'[s].up_pending
            BY <3>1, <5>1, <5>3, UpdateBegins
          <6>2. QED BY <2>6, <3>3, <3>4, <3>6, <4>1, <5>3, <6>1
        <5>4. CASE ~o.active /\ axes = {}
          <6>1. touchSlots'[s] = o
            BY <5>1, <5>4 DEF SlotUpdate
          <6>2. QED BY <3>3, <3>4, <5>4, <6>1
        <5>5. QED BY <5>2, <5>3, <5>4
      <4>4. QED BY <4>2, <4>3
    <3>7. CASE id = Lifted
      <4>1. touchSlots'[s] = tracked
        BY <3>2, <3>7 DEF Report, SlotUpdate
      <4>2. CASE s \in known
        <5>1. touchSlots'[s] = SlotEnd(o)
          BY <2>10, <3>7, <4>1, <4>2 DEF SlotTrack
        <5>2. /\ ~touchSlots'[s].active
              /\ touchSlots'[s].sent_down = o.sent_down
              /\ touchSlots'[s].tracking_id = o.tracking_id
              /\ touchSlots'[s].x_valid = o.x_valid /\ touchSlots'[s].y_valid = o.y_valid
              /\ (o.active \/ o.sent_down \/ o.up_pending) = touchSlots'[s].up_pending
          BY <3>1, <5>1, EndFlags
        <5>3. QED BY <3>3, <3>4, <5>2
      <4>3. CASE s \notin known
        <5>1. touchSlots'[s] = o
          BY <2>10, <3>7, <4>1, <4>3
        <5>2. QED BY <3>3, <3>4, <3>5, <4>3, <5>1
      <4>4. QED BY <4>2, <4>3
    <3>8. QED BY <3>6, <3>7 DEF o
  <2> HIDE DEF o
  <2>8. cursor' > s /\ cursor' >= cursor
    BY <2>2, <2>3
  <2>9. QED BY <1>1, <2>0, <2>2, <2>4, <2>5, <2>7, <2>8, SlotStep DEF o
<1>4. QED BY <1>2, <1>3

LEMMA ReportSingleStep ==
  ASSUME ScreenInv, NEW id \in TrackingIds \cup {Lifted},
         NEW axes \in SUBSET Axes, ReportSingle(id, axes)
  PROVE  ScreenInv'
<1>1. TouchTypeOK /\ Reported
  BY ReportSingleTypes DEF ScreenInv, ButtonInv
<1>2. CASE ~Reliable'
  BY <1>1, <1>2, UnreliableStep
<1>3. CASE Reliable'
  <2>0. Reliable
    BY <1>1, <1>3 DEF Reported, Reliable
  <2> DEFINE o == touchSlots[0]
             n == touchSlots'[0]
             Touch(slot) == IF key = key' THEN slot
                            ELSE SlotTrack(slot, IF key' THEN 0 ELSE Lifted)
  <2>1. ReliableInv
    BY <2>0 DEF ScreenInv
  <2>2. /\ ~HasMtSlots /\ cursor = 0 /\ cursor' = PanelSlotCount + 1
        /\ finger' = [finger EXCEPT ![0] = id] /\ known' = known
        /\ key' = (id # Lifted) /\ (id # finger[0] \/ id # Lifted)
        /\ id = Lifted => axes = {}
    BY DEF ReportSingle, SingleContact
  <2>3. 0 \in Slots /\ 0 \in PanelSlots /\ cursor' > 0 /\ cursor' >= cursor
    BY <2>2, PanelAssumption DEF Slots, PanelSlots
  <2>4. o \in Slot
    BY <1>1, <2>3 DEF TouchTypeOK
  <2>5. touchSlots' = [touchSlots EXCEPT ![0] =
           IF panel = "single" THEN SlotUpdate(Touch(o), axes)
           ELSE Touch(SlotUpdate(o, axes))]
    BY DEF ReportSingle
  <2>6. n = IF panel = "single" THEN SlotUpdate(Touch(o), axes)
            ELSE Touch(SlotUpdate(o, axes))
    BY <1>1, <2>3, <2>5 DEF TouchTypeOK
  <2>7. \A t \in Slots \ {0} : touchSlots'[t] = touchSlots[t]
    BY <1>1, <2>5 DEF TouchTypeOK
  <2>8. \A t \in PanelSlots \ {0} :
          finger'[t] = finger[t] /\ (t \in known' <=> t \in known)
    BY <1>1, <2>2 DEF TouchTypeOK, PanelTypeOK
  <2>9. finger'[0] = id
    BY <1>1, <2>2, <2>3 DEF TouchTypeOK, PanelTypeOK
  <2>10. key = (finger[0] # Lifted)
    BY <2>1, <2>2 DEF ReliableInv, KernelAgrees
  <2>11. ~o.up_pending
    <3>1. o.up_pending => 0 < cursor
      BY <1>1, <2>1, <2>3 DEF ReliableInv, PendingInFrame, Reported
    <3>2. QED BY <2>2, <3>1
  <2>12. o.sent_down => o.active /\ o.x_valid /\ o.y_valid
    BY <2>1, <2>3, <2>11 DEF ReliableInv, SlotShape
  <2>13. o.active => key
    BY <2>1, <2>2, <2>3 DEF ReliableInv, SlotsHaveFingers
  <2> HIDE DEF o, n
  <2> DEFINE Kept == /\ key' /\ ~n.up_pending
                     /\ ~o.active => ~n.sent_down
                     /\ o.active =>
                          /\ n.active /\ n.sent_down = o.sent_down
                          /\ n.tracking_id = o.tracking_id
                          /\ o.x_valid => n.x_valid
                          /\ o.y_valid => n.y_valid
             Ended == /\ ~n.active /\ n.sent_down = o.sent_down
                      /\ n.tracking_id = o.tracking_id
                      /\ n.x_valid = o.x_valid /\ n.y_valid = o.y_valid
                      /\ (o.active \/ o.sent_down \/ o.up_pending) = n.up_pending
  <2>14. ASSUME key, id # Lifted PROVE Kept \/ Ended
    <3>1. n = SlotUpdate(o, axes) /\ key'
      BY <2>2, <2>6, <2>14
    <3>2. CASE o.active
      <4>1. Kept
        BY <2>4, <2>11, <3>1, <3>2, UpdateFlags
      <4>2. QED BY <4>1
    <3>3. CASE ~o.active /\ axes # {}
      <4>1. Kept
        BY <2>4, <3>1, <3>3, UpdateBegins
      <4>2. QED BY <4>1
    <3>4. CASE axes = {}
      <4>1. n = o
        BY <3>1, <3>4 DEF SlotUpdate
      <4>2. Kept
        BY <2>11, <2>12, <3>1, <4>1
      <4>3. QED BY <4>2
    <3>5. QED BY <3>2, <3>3, <3>4
  <2>15. ASSUME ~key, id # Lifted PROVE Kept \/ Ended
    <3>1. ~o.active /\ key'
      BY <2>2, <2>13, <2>15
    <3>2. \A slot : Touch(slot) = SlotBegin(0)
      <4>1. \A slot : SlotTrack(slot, 0) = SlotBegin(0)
        BY DEF SlotTrack, Lifted
      <4>2. key # key'
        BY <2>15, <3>1
      <4>3. QED BY <3>1, <4>1, <4>2
    <3>3. SlotBegin(0) \in Slot
      BY <2>4, SlotTypes DEF Ids
    <3>4. n = SlotBegin(0) \/ n = SlotUpdate(SlotBegin(0), axes)
      BY <2>6, <3>2
    <3>5. /\ SlotBegin(0).active /\ ~SlotBegin(0).sent_down
          /\ ~SlotBegin(0).up_pending
      BY BeginFlags
    <3>6. ~n.sent_down /\ ~n.up_pending
      <4> DEFINE b == SlotBegin(0)
      <4>1. b \in Slot /\ b.active /\ ~b.sent_down /\ ~b.up_pending
        BY <3>3, <3>5
      <4>2. n = b \/ n = SlotUpdate(b, axes)
        BY <3>4
      <4> HIDE DEF b
      <4>3. QED BY <4>1, <4>2, UpdateFlags
    <3>7. Kept
      BY <3>1, <3>6
    <3>8. QED BY <3>7
  <2>16. ASSUME id = Lifted PROVE Kept \/ Ended
    <3>1. key /\ ~key' /\ axes = {}
      BY <2>2, <2>10, <2>16
    <3>2. n = SlotEnd(o)
      BY <2>6, <3>1 DEF SlotUpdate, SlotTrack
    <3>3. Ended
      BY <2>4, <3>2, EndFlags
    <3>4. QED BY <3>3
  <2>17. Kept \/ Ended
    BY <2>14, <2>15, <2>16
  <2>18. /\ n.sent_down => o.sent_down /\ n.x_valid /\ n.y_valid
                           /\ (n.active \/ n.up_pending)
         /\ o.sent_down => n.sent_down /\ n.tracking_id = o.tracking_id
         /\ n.up_pending => ~n.active
         /\ o.active => (/\ o.x_valid => n.x_valid
                         /\ o.y_valid => n.y_valid
                         /\ n.active \/ n.up_pending)
         /\ ~o.up_pending
         /\ n.active => key'
    BY <2>11, <2>12, <2>17
  <2>19. key' => finger'[0] # Lifted
    BY <2>2, <2>9
  <2>20. key' = (finger'[0] # Lifted)
    BY <2>2, <2>9
  <2> HIDE DEF Kept, Ended, Touch
  <2>21. QED
    BY <1>1, <2>0, <2>2, <2>3, <2>7, <2>8, <2>18, <2>19, <2>20, SlotStep DEF o, n
<1>4. QED BY <1>2, <1>3

LEMMA EmulateStep ==
  ASSUME ScreenInv, NEW axes \in SUBSET Axes, Emulate(axes)
  PROVE  ScreenInv'
<1>1. Reported
  BY EmulateTypes DEF ScreenInv, ButtonInv
<1>2. ~Reliable'
  BY DEF Emulate, Emulated, Reliable
<1>3. QED BY <1>1, <1>2, UnreliableStep

LEMMA SynStep ==
  ASSUME ScreenInv, Syn
  PROVE  ScreenInv'
<1>1. TouchTypeOK /\ FrameEnds /\ cursor' = 0 /\ flush = Rest /\ flush' = 0
  BY DEF ScreenInv, ButtonInv, Syn, FrameEnds
<1>2. PanelTypeOK' /\ open /\ open' /\ panel' = panel
  BY <1>1, PanelTypes DEF TouchTypeOK
<1>3. UNCHANGED <<panel, open, finger, known, key, losses, stray>>
      /\ UNCHANGED <<supported, touchSlots, directUnsupported, mouseSlot, mouseDown>>
      /\ UNCHANGED <<hostTouches, hostButton>>
  BY DEF Syn, FrameEnds, deviceVars, hostVars, slotVars
<1>4. 0 \in 0..Rest /\ 0 # Rest
  BY PanelAssumption DEF Rest
<1>5. ButtonInv'
  BY <1>1, <1>2, <1>3, <1>4 DEF ScreenInv, ButtonInv, TouchTypeOK
<1>6. ASSUME Reliable' PROVE ReliableInv'
  <2>1. ReliableInv
    BY <1>3, <1>6 DEF ScreenInv, Reliable
  <2>2. SlotShape' /\ SlotsHaveFingers' /\ KernelAgrees'
    BY <1>3, <2>1 DEF ReliableInv, SlotShape, SlotsHaveFingers, KernelAgrees, HasMtSlots
  <2>3. PendingInFrame'
    BY <1>1, <1>4 DEF PendingInFrame, Slots, Rest
  <2>4. HostTouchesTracked' /\ ButtonTracked'
    BY <1>3, <2>1 DEF ReliableInv, HostTouchesTracked, ButtonTracked
  <2>5. flush' # Rest
    BY <1>1, <1>4
  <2>6. QED BY <2>2, <2>3, <2>4, <2>5 DEF ReliableInv, Rest
<1>7. QED BY <1>5, <1>6 DEF ScreenInv

LEMMA FlushSlotStep ==
  ASSUME ScreenInv, FlushSlot
  PROVE  ScreenInv'
<1> DEFINE f == flush
           o == touchSlots[f]
           n == touchSlots'[f]
           type == EventType(o)
<1>1. /\ o \in Slot /\ touchSlots' \in [Slots -> Slot]
      /\ touchSlots' = [touchSlots EXCEPT ![f] = FlushedSlot(o)]
      /\ f \in Slots /\ flush' = f + 1
  BY FlushSlotTypes DEF ScreenInv, ButtonInv
<1>2. TouchTypeOK /\ ButtonInv
  BY DEF ScreenInv, ButtonInv
<1>3. n = FlushedSlot(o) /\ \A t \in Slots \ {f} : touchSlots'[t] = touchSlots[t]
  BY <1>1, <1>2 DEF TouchTypeOK
<1>4. /\ f # Rest /\ flush' # Rest /\ flush' \in 0..Rest
      /\ \A t \in Slots : f <= t /\ t # f => flush' <= t
  BY <1>1, PanelAssumption DEF Slots, Rest
<1>5. /\ UNCHANGED <<panel, open, finger, known, key, losses, stray>> /\ cursor' = cursor
      /\ UNCHANGED <<mtSlot, readSlot, touchSlot, supported>>
  BY DEF FlushSlot, panelVars, slotVars
<1>6. cursor = 0 /\ open
  BY <1>2, <1>4 DEF ButtonInv
<1>7. \/ /\ type = "none"
         /\ UNCHANGED <<directUnsupported, mouseSlot, mouseDown, hostTouches, hostButton>>
      \/ /\ type # "none" /\ supported /\ HostReceives(type, o.tracking_id)
         /\ UNCHANGED <<directUnsupported, mouseSlot, mouseDown, hostButton>>
      \/ /\ type # "none" /\ ~supported /\ directUnsupported' = TRUE
         /\ MouseFallback(f, type) /\ UNCHANGED hostTouches
  BY DEF FlushSlot, hostVars
<1> HIDE DEF f
<1>8. ButtonInv'
  <2>1. PanelTypeOK'
    BY <1>2, <1>5 DEF TouchTypeOK, PanelTypeOK
  <2>2. hostTouches' \subseteq Ids \cup {Lifted} /\ (~supported => hostTouches' = {})
    <3>1. o.tracking_id \in Ids \cup {Lifted}
      BY <1>1 DEF Slot
    <3>2. hostTouches \subseteq Ids \cup {Lifted} /\ (~supported => hostTouches = {})
      BY <1>2 DEF TouchTypeOK, ButtonInv
    <3>3. QED BY <1>7, <3>1, <3>2 DEF HostReceives
  <2>3. /\ mouseDown' \in BOOLEAN /\ mouseSlot' \in Slots \cup {-1}
        /\ hostButton' = mouseDown' /\ mouseDown' = (mouseSlot' # NoSlot)
    <3>1. /\ mouseDown \in BOOLEAN /\ mouseSlot \in Slots \cup {-1}
          /\ hostButton = mouseDown /\ mouseDown = (mouseSlot # NoSlot)
      BY <1>2 DEF TouchTypeOK, ButtonInv
    <3>2. QED BY <1>1, <1>2, <1>7, <3>1, FallbackFacts
  <2>4. /\ directUnsupported' \in BOOLEAN
        /\ mouseDown' => directUnsupported'
        /\ directUnsupported' => ~supported
    <3>1. /\ directUnsupported \in BOOLEAN /\ mouseDown \in BOOLEAN
          /\ mouseDown => directUnsupported
          /\ directUnsupported => ~supported
      BY <1>2 DEF TouchTypeOK, ButtonInv
    <3>2. \/ directUnsupported' = directUnsupported /\ mouseDown' = mouseDown
          \/ directUnsupported' = TRUE /\ ~supported
      BY <1>7
    <3>3. CASE directUnsupported' = directUnsupported /\ mouseDown' = mouseDown
      <4>1. directUnsupported' \in BOOLEAN
        BY <3>1, <3>3
      <4>2. (mouseDown' <=> mouseDown) /\ (directUnsupported' <=> directUnsupported)
        BY <3>3
      <4>3. QED BY <3>1, <4>1, <4>2
    <3>4. CASE directUnsupported' = TRUE /\ ~supported
      BY <3>4
    <3>5. QED BY <3>2, <3>3, <3>4
  <2>5. QED
    BY <1>1, <1>2, <1>4, <1>5, <1>6, <2>1, <2>2, <2>3, <2>4
    DEF TouchTypeOK, ButtonInv, Rest
<1>9. ASSUME Reliable' PROVE ReliableInv'
  <2>1. ReliableInv
    BY <1>5, <1>9 DEF ScreenInv, Reliable
  <2>2. o.sent_down => o.x_valid /\ o.y_valid /\ (o.active \/ o.up_pending)
    BY <1>1, <2>1 DEF ReliableInv, SlotShape
  <2>3. o.up_pending => ~o.active
    BY <1>1, <2>1 DEF ReliableInv, SlotShape
  <2>4. /\ n \in Slot /\ ~n.up_pending
        /\ n.active => o.active
        /\ n.sent_down => n.active /\ n.x_valid /\ n.y_valid
    <3>1. CASE o.up_pending
      BY <1>1, <1>3, <3>1, FlushedFlags DEF SlotReset
    <3>2. CASE ~o.up_pending
      BY <1>1, <1>3, <2>2, <3>2, FlushedFlags
    <3>3. QED BY <3>1, <3>2
  <2>5. SlotShape'
    BY <1>1, <1>3, <2>1, <2>4 DEF ReliableInv, SlotShape
  <2>6. SlotsHaveFingers' /\ KernelAgrees'
    BY <1>1, <1>3, <1>5, <2>1, <2>4
    DEF ReliableInv, SlotsHaveFingers, KernelAgrees, HasMtSlots
  <2>7. PendingInFrame'
    <3>1. \A t \in Slots : touchSlots[t].up_pending => f <= t
      BY <1>4, <2>1 DEF ReliableInv, PendingInFrame, f
    <3>2. \A t \in Slots : touchSlots'[t].up_pending => flush' <= t
      BY <1>3, <1>4, <2>4, <3>1
    <3>3. QED BY <1>4, <3>2 DEF PendingInFrame, Rest
  <2>8. HostTouchesTracked'
    <3>1. CASE ~supported
      <4>1. hostTouches' = {}
        BY <1>5, <1>8, <3>1 DEF ButtonInv
      <4>2. QED BY <4>1 DEF HostTouchesTracked
    <3>2. CASE supported
      <4> SUFFICES ASSUME NEW id \in hostTouches'
                   PROVE  \E s \in Slots : touchSlots'[s].sent_down
                                           /\ touchSlots'[s].tracking_id = id
        BY DEF HostTouchesTracked
      <4>1. \/ type = "DOWN" /\ id = o.tracking_id
            \/ id \in hostTouches /\ (type = "UP" => id # o.tracking_id)
        BY <1>7, <3>2 DEF HostReceives
      <4>2. CASE type = "DOWN" /\ id = o.tracking_id
        <5>1. o.active /\ n.sent_down
          BY <1>1, <1>3, <4>2, FlushedFlags
        <5>2. n.tracking_id = o.tracking_id
          BY <1>1, <1>3, <2>3, <5>1, FlushedFlags
        <5>3. QED BY <1>1, <4>2, <5>1, <5>2
      <4>3. CASE id \in hostTouches /\ (type = "UP" => id # o.tracking_id)
        <5>1. PICK s \in Slots : touchSlots[s].sent_down /\ touchSlots[s].tracking_id = id
          BY <2>1, <4>3 DEF ReliableInv, HostTouchesTracked
        <5>2. CASE s # f
          BY <1>3, <5>1, <5>2
        <5>3. CASE s = f
          <6>1. o.sent_down /\ o.tracking_id = id
            BY <5>1, <5>3
          <6>2. ~o.up_pending
            BY <1>1, <2>2, <4>3, <6>1, FlushedFlags
          <6>3. n.sent_down /\ n.tracking_id = id
            BY <1>1, <1>3, <6>1, <6>2, FlushedFlags
          <6>4. QED BY <1>1, <6>3
        <5>4. QED BY <5>2, <5>3
      <4>4. QED BY <4>1, <4>2, <4>3
    <3>3. QED BY <3>1, <3>2
  <2>9. ButtonTracked'
    <3> SUFFICES ASSUME mouseDown'
                 PROVE  LET slot == touchSlots'[mouseSlot'] IN
                        slot.x_valid /\ slot.y_valid /\ (slot.active \/ slot.up_pending)
      BY DEF ButtonTracked
    <3>1. mouseSlot' # NoSlot
      BY <1>8 DEF ButtonInv
    <3>2. mouseDown = (mouseSlot # NoSlot) /\ mouseSlot \in Slots \cup {-1}
      BY <1>2 DEF ButtonInv, TouchTypeOK
    <3>3. mouseSlot # NoSlot => mouseSlot \in Slots
      BY <3>2 DEF NoSlot
    <3>4. mouseDown => LET slot == touchSlots[mouseSlot] IN
            slot.x_valid /\ slot.y_valid /\ (slot.active \/ slot.up_pending)
      BY <2>1 DEF ReliableInv, ButtonTracked
    <3>5. \/ mouseSlot' = mouseSlot /\ (mouseSlot = f => type = "none" \/ type # "UP")
          \/ mouseSlot' = f /\ type \notin {"none", "UP"}
      <4>1. mouseSlot # NoSlot => ~supported
        BY <1>2 DEF ButtonInv
      <4>2. f # NoSlot
        BY <1>1 DEF Slots, NoSlot
      <4>3. CASE type = "none" \/ supported
        BY <1>7, <4>1, <4>2, <4>3
      <4>4. CASE type # "none" /\ ~supported
        <5>1. MouseFallback(f, type)
          BY <1>7, <4>4
        <5>2. QED BY <1>1, <1>2, <3>1, <4>4, <5>1, FallbackFacts
      <4>5. QED BY <4>3, <4>4
    <3>6. CASE mouseSlot' = mouseSlot /\ mouseSlot # f
      BY <1>3, <3>1, <3>2, <3>3, <3>4, <3>6
    <3>7. CASE mouseSlot' = mouseSlot /\ mouseSlot = f /\ type # "UP"
      <4>1. o.x_valid /\ o.y_valid /\ (o.active \/ o.up_pending)
        BY <3>1, <3>2, <3>4, <3>7
      <4>2. ~o.up_pending
        BY <1>1, <3>7, <4>1, FlushedFlags
      <4>3. n.active /\ n.x_valid /\ n.y_valid
        <5>1. /\ n.active = o.active /\ n.x_valid = o.x_valid
              /\ n.y_valid = o.y_valid
          BY <1>1, <1>3, <4>2, FlushedFlags
        <5>2. QED BY <4>1, <4>2, <5>1
      <4>4. QED BY <3>7, <4>3
    <3>8. CASE mouseSlot' = f /\ type \notin {"none", "UP"}
      <4>1. o.active /\ o.x_valid /\ o.y_valid
        BY <1>1, <3>8, FlushedFlags
      <4>2. n.active /\ n.x_valid /\ n.y_valid
        <5>1. /\ n.active = o.active /\ n.x_valid = o.x_valid
              /\ n.y_valid = o.y_valid
          BY <1>1, <1>3, <2>3, <4>1, FlushedFlags
        <5>2. QED BY <4>1, <5>1
      <4>3. QED BY <3>8, <4>2
    <3>9. QED BY <3>5, <3>6, <3>7, <3>8
  <2>10. QED
    BY <1>4, <2>5, <2>6, <2>7, <2>8, <2>9 DEF ReliableInv, Rest
<1>10. QED BY <1>8, <1>9 DEF ScreenInv

LEMMA FlushEndsStep ==
  ASSUME ScreenInv, FlushEnds
  PROVE  ScreenInv'
<1>1. TouchTypeOK /\ ButtonInv
  BY DEF ScreenInv, ButtonInv
<1>2. /\ flush = MaxSlots /\ flush' = Rest /\ flush # Rest
      /\ Rest \in 0..Rest /\ \A t \in Slots : ~(MaxSlots <= t)
  BY PanelAssumption DEF FlushEnds, Slots, Rest
<1>3. /\ UNCHANGED <<panel, open, finger, known, key, losses, stray>> /\ cursor' = cursor
      /\ UNCHANGED <<mtSlot, readSlot, touchSlot>>
      /\ UNCHANGED <<supported, touchSlots, directUnsupported, hostTouches>>
  BY DEF FlushEnds, panelVars, slotVars
<1>4. cursor = 0 /\ open
  BY <1>1, <1>2 DEF ButtonInv
<1>5. \/ /\ directUnsupported /\ mouseSlot = NoSlot
         /\ \E s \in Slots : Usable(s) /\ MouseFallback(s, "DOWN")
      \/ /\ ~(directUnsupported /\ mouseSlot = NoSlot /\ \E s \in Slots : Usable(s))
         /\ UNCHANGED <<mouseSlot, mouseDown, hostButton>>
  BY DEF FlushEnds
<1>6. /\ mouseDown \in BOOLEAN /\ mouseSlot \in Slots \cup {-1}
      /\ hostButton = mouseDown /\ mouseDown = (mouseSlot # NoSlot)
  BY <1>1 DEF TouchTypeOK, ButtonInv
<1>7. /\ mouseDown' \in BOOLEAN /\ mouseSlot' \in Slots \cup {-1}
      /\ hostButton' = mouseDown' /\ mouseDown' = (mouseSlot' # NoSlot)
  BY <1>1, <1>5, <1>6, FallbackFacts
<1>8. mouseDown' => directUnsupported
  <2>1. mouseDown => directUnsupported
    BY <1>1 DEF ButtonInv
  <2>2. QED BY <1>5, <2>1
<1>9. ButtonInv'
  <2>1. PanelTypeOK'
    BY <1>1, <1>3 DEF TouchTypeOK, PanelTypeOK
  <2>2. QED
    BY <1>1, <1>2, <1>3, <1>4, <1>7, <1>8, <2>1 DEF TouchTypeOK, ButtonInv, Rest
<1>10. ASSUME Reliable' PROVE ReliableInv'
  <2>1. ReliableInv
    BY <1>3, <1>10 DEF ScreenInv, Reliable
  <2>2. \A s \in Slots : ~touchSlots[s].up_pending
    BY <1>2, <2>1 DEF ReliableInv, PendingInFrame
  <2>3. SlotShape' /\ SlotsHaveFingers' /\ KernelAgrees' /\ HostTouchesTracked'
    BY <1>3, <2>1 DEF ReliableInv, SlotShape, SlotsHaveFingers, KernelAgrees,
                      HasMtSlots, HostTouchesTracked
  <2>4. PendingInFrame'
    BY <1>3, <2>2 DEF PendingInFrame
  <2>5. mouseSlot # NoSlot => mouseSlot \in Slots /\ Usable(mouseSlot)
    <3>1. mouseSlot # NoSlot => mouseDown /\ mouseSlot \in Slots
      BY <1>6 DEF NoSlot
    <3>2. QED BY <2>1, <2>2, <3>1 DEF ReliableInv, ButtonTracked, Usable
  <2>6. mouseSlot' # NoSlot => mouseSlot' \in Slots /\ Usable(mouseSlot')
    BY <1>1, <1>5, <2>5, FallbackFacts
  <2>7. Usable(mouseSlot') => touchSlots'[mouseSlot'].active
                              /\ touchSlots'[mouseSlot'].x_valid
                              /\ touchSlots'[mouseSlot'].y_valid
    BY <1>3 DEF Usable
  <2>8. ButtonTracked'
    <3>1. mouseDown' => mouseSlot' # NoSlot
      BY <1>7
    <3>2. QED BY <2>6, <2>7, <3>1 DEF ButtonTracked
  <2>9. directUnsupported =>
          ((\E s \in Slots : Usable(s)) <=> mouseSlot' # NoSlot)
    <3>1. mouseSlot' # NoSlot => \E s \in Slots : Usable(s)
      BY <2>6
    <3>2. ASSUME directUnsupported, \E s \in Slots : Usable(s)
          PROVE  mouseSlot' # NoSlot
      <4>1. \A s \in Slots : s # NoSlot
        BY DEF Slots, NoSlot
      <4>2. CASE mouseSlot = NoSlot
        <5>1. PICK s \in Slots : MouseFallback(s, "DOWN")
          BY <1>5, <3>2, <4>2
        <5>2. mouseSlot' = s
          BY <1>1, <4>2, <5>1, FallbackFacts
        <5>3. QED BY <4>1, <5>2
      <4>3. CASE mouseSlot # NoSlot
        BY <1>5, <4>3
      <4>4. QED BY <4>2, <4>3
    <3>3. QED BY <3>1, <3>2
  <2>10. (\E s \in Slots : Usable(s))' = (\E s \in Slots : Usable(s))
    BY <1>3 DEF Usable
  <2>11. directUnsupported' => mouseDown' = (\E s \in Slots : Usable(s))'
    BY <1>3, <1>7, <2>9, <2>10
  <2>12. QED
    BY <2>3, <2>4, <2>8, <2>11 DEF ReliableInv
<1>11. QED BY <1>9, <1>10 DEF ScreenInv

(* Nothing is held: no slot, no touch and no button.                       *)
LEMMA FreshStep ==
  ASSUME ScreenInv, TouchTypeOK', touchSlots' = Fresh,
         hostTouches' = {}, hostButton' = FALSE, mouseDown' = FALSE,
         mouseSlot' = NoSlot, flush' = Rest, supported' = supported,
         directUnsupported' => ~supported,
         Reliable' => KernelAgrees'
  PROVE  ScreenInv'
<1>1. ButtonInv'
  BY DEF ButtonInv, Rest, Fresh, NoSlot
<1>2. \A s \in Slots : touchSlots'[s] = SlotReset
  BY DEF Fresh
<1>3. ~SlotReset.active /\ ~SlotReset.sent_down /\ ~SlotReset.up_pending
  BY DEF SlotReset
<1>4. SlotShape' /\ SlotsHaveFingers' /\ PendingInFrame'
  BY <1>2, <1>3 DEF SlotShape, SlotsHaveFingers, PendingInFrame
<1>5. HostTouchesTracked' /\ ButtonTracked'
  BY DEF HostTouchesTracked, ButtonTracked
<1>6. mouseDown' = (\E s \in Slots : Usable(s))'
  BY <1>2, <1>3 DEF Usable
<1>7. QED
  BY <1>1, <1>4, <1>5, <1>6 DEF ScreenInv, ReliableInv

LEMMA CancelStep ==
  ASSUME ScreenInv, Cancel
  PROVE  ScreenInv'
<1>1. TouchTypeOK /\ ButtonInv
  BY DEF ScreenInv, ButtonInv
<1>2. /\ UNCHANGED <<panel, finger, known, key, cursor, losses>> /\ open' = FALSE
      /\ UNCHANGED <<mtSlot, readSlot, touchSlot, stray>>
      /\ flush' = flush /\ flush = Rest /\ supported' = supported
      /\ directUnsupported' = directUnsupported
      /\ touchSlots' = Fresh /\ mouseDown' = FALSE /\ mouseSlot' = NoSlot
  BY DEF Cancel, slotVars
<1>3. hostTouches' = {}
  BY <1>1 DEF Cancel, ButtonInv
<1>4. hostButton' = FALSE
  <2>1. hostButton = mouseDown /\ mouseDown \in BOOLEAN
    BY <1>1 DEF ButtonInv, TouchTypeOK
  <2>2. QED BY <2>1 DEF Cancel
<1>5. Fresh \in [Slots -> Slot]
  BY DEF Fresh, SlotReset, Slot
<1>6. TouchTypeOK'
  BY <1>1, <1>2, <1>3, <1>4, <1>5 DEF TouchTypeOK, PanelTypeOK, Rest, NoSlot
<1>7. Reliable' => KernelAgrees'
  BY <1>2 DEF ScreenInv, ReliableInv, Reliable, KernelAgrees, HasMtSlots
<1>8. directUnsupported' => ~supported
  BY <1>1, <1>2 DEF ButtonInv
<1>9. QED
  BY <1>2, <1>3, <1>4, <1>6, <1>7, <1>8, FreshStep DEF Rest

LEMMA ReopenStep ==
  ASSUME ScreenInv, Reopen
  PROVE  ScreenInv'
<1>1. TouchTypeOK /\ ButtonInv
  BY DEF ScreenInv, ButtonInv
<1>2. /\ ~open /\ open' = TRUE /\ panel' = panel /\ cursor' = 0 /\ losses' = 0
      /\ finger' \in PlacementsOf(panel)
      /\ known' = {s \in PanelSlots : finger'[s] # Lifted}
      /\ key' = (panel # "mt" /\ known' # {})
      /\ mtSlot' \in LastSlotsOf(panel) /\ readSlot' = mtSlot'
      /\ touchSlot' = 0 /\ stray' = FALSE
      /\ touchSlots' = Fresh /\ directUnsupported' = FALSE
      /\ mouseSlot' = NoSlot /\ mouseDown' = FALSE
      /\ supported' = supported /\ flush' = flush
      /\ hostTouches' = hostTouches /\ hostButton' = hostButton
  BY DEF Reopen, Opened, DeviceCreated, hostVars
<1>3. hostTouches = {} /\ ~mouseDown /\ flush = Rest
  BY <1>1, <1>2 DEF ButtonInv
<1>4. hostButton' = FALSE
  <2>1. hostButton = mouseDown /\ mouseDown \in BOOLEAN
    BY <1>1 DEF ButtonInv, TouchTypeOK
  <2>2. QED BY <1>2, <1>3, <2>1
<1>5. Fresh \in [Slots -> Slot]
  BY DEF Fresh, SlotReset, Slot
<1>6. TouchTypeOK'
  <2>1. finger' \in [PanelSlots -> TrackingIds \cup {Lifted}]
    BY <1>2 DEF PlacementsOf, Placements
  <2>2. cursor' \in 0..(PanelSlotCount + 1) /\ losses' \in 0..MaxLosses
    BY <1>2, PanelAssumption
  <2>3. PanelTypeOK'
    BY <1>1, <1>2, <2>1, <2>2, LastSlots DEF TouchTypeOK, PanelTypeOK
  <2>4. QED
    BY <1>1, <1>2, <1>3, <1>4, <1>5, <2>3 DEF TouchTypeOK, Rest, NoSlot
<1>7. KernelAgrees'
  <2>1. ASSUME ~HasMtSlots PROVE \A s \in PanelSlots \ {0} : finger'[s] = Lifted
    BY <1>2, <2>1 DEF PlacementsOf, HasMtSlots
  <2>2. 0 \in PanelSlots
    BY PanelAssumption DEF PanelSlots
  <2>3. ~HasMtSlots => (known' # {} <=> finger'[0] # Lifted)
    BY <1>2, <2>1, <2>2
  <2>4. HasMtSlots' = HasMtSlots
    BY <1>2 DEF HasMtSlots
  <2>5. QED BY <1>2, <2>3, <2>4 DEF KernelAgrees, Lifted, HasMtSlots
<1>8. QED
  BY <1>2, <1>3, <1>4, <1>6, <1>7, FreshStep DEF Rest

LEMMA OverflowStep ==
  ASSUME ScreenInv, QueueOverflows
  PROVE  ScreenInv'
<1>1. TouchTypeOK /\ ButtonInv
  BY DEF ScreenInv, ButtonInv
<1>2. Overflow /\ flush = Rest
      /\ UNCHANGED <<supported, touchSlots, directUnsupported, mouseSlot, mouseDown>>
      /\ UNCHANGED <<flush, hostTouches, hostButton>>
  BY DEF QueueOverflows, deviceVars, hostVars
<1>3. PanelTypeOK' /\ open /\ open' /\ panel' = panel
  BY <1>1, <1>2, PanelTypes DEF TouchTypeOK
<1>4. ButtonInv'
  BY <1>1, <1>2, <1>3 DEF ButtonInv, TouchTypeOK, Rest
<1>5. losses \in Nat /\ losses' = losses + 1
  BY <1>1, <1>2 DEF TouchTypeOK, PanelTypeOK, Overflow
<1>6. ~Reliable'
  BY <1>5 DEF Reliable
<1>7. QED BY <1>4, <1>6 DEF ScreenInv

LEMMA ScreenInitial == ScreenInit => ScreenInv
<1> SUFFICES ASSUME ScreenInit PROVE ScreenInv
  OBVIOUS
<1>1. PanelTypeOK
  <2>1. finger \in [PanelSlots -> TrackingIds \cup {Lifted}]
    BY DEF ScreenInit, PanelInit, PlacementsOf, Placements
  <2>2. cursor \in 0..(PanelSlotCount + 1) /\ losses \in 0..MaxLosses
    BY PanelAssumption DEF ScreenInit, PanelInit
  <2>3. panel \in PanelKinds /\ open \in BOOLEAN /\ key \in BOOLEAN
    BY PanelAssumption DEF ScreenInit, PanelInit
  <2>4. known \subseteq PanelSlots
    BY DEF ScreenInit, PanelInit, Contacts
  <2>5. /\ mtSlot \in PanelSlots /\ readSlot \in PanelSlots /\ touchSlot \in PanelSlots
        /\ stray \in BOOLEAN
    BY LastSlots DEF ScreenInit, PanelInit
  <2>6. QED BY <2>1, <2>2, <2>3, <2>4, <2>5 DEF PanelTypeOK
<1>2. Fresh \in [Slots -> Slot]
  BY DEF Fresh, SlotReset, Slot
<1>3. Rest \in 0..Rest
  BY FlushTypes
<1>4. TouchTypeOK
  BY <1>1, <1>2, <1>3, HostAssumption DEF ScreenInit, TouchTypeOK, NoSlot
<1>5. ButtonInv
  BY <1>4, PanelAssumption DEF ScreenInit, PanelInit, ButtonInv
<1>6. \A s \in Slots : touchSlots[s] = SlotReset
  BY DEF ScreenInit, Fresh
<1>7. ~SlotReset.active /\ ~SlotReset.sent_down /\ ~SlotReset.up_pending
  BY DEF SlotReset
<1>8. SlotShape /\ SlotsHaveFingers /\ PendingInFrame
  BY <1>6, <1>7 DEF SlotShape, SlotsHaveFingers, PendingInFrame
<1>9. KernelAgrees
  <2>1. ASSUME ~HasMtSlots PROVE \A s \in PanelSlots \ {0} : finger[s] = Lifted
    BY <2>1 DEF ScreenInit, PanelInit, PlacementsOf, HasMtSlots
  <2>2. 0 \in PanelSlots
    BY PanelAssumption DEF PanelSlots
  <2>3. ~HasMtSlots => (Contacts # {} <=> finger[0] # Lifted)
    BY <2>1, <2>2 DEF Contacts
  <2>4. QED BY <2>3 DEF ScreenInit, PanelInit, KernelAgrees, HasMtSlots
<1>10. HostTouchesTracked /\ ButtonTracked /\ ~directUnsupported
  BY DEF ScreenInit, HostTouchesTracked, ButtonTracked
<1>11. QED
  BY <1>5, <1>8, <1>9, <1>10 DEF ScreenInv, ReliableInv

-----------------------------------------------------------------------------
(* Every step of either mode is one of the panel's, or leaves it alone.    *)
PanelInStep == PanelTypeOK /\ SlotsInStep
PanelStep ==
  \/ \E s \in PanelSlots, id \in TrackingIds \cup {Lifted}, moved \in BOOLEAN :
       Contact(s, id, moved)
  \/ \E id \in TrackingIds \cup {Lifted} : SingleContact(id)
  \/ Emulated \/ FrameEnds \/ Overflow
  \/ open' \in BOOLEAN /\ UNCHANGED <<panel, finger, known, key, cursor, losses, slotVars>>
  \/ Opened /\ UNCHANGED panel

LEMMA StepsOfPanel == PanelTypeOK /\ [TouchNext]_touchVars => PanelStep
<1> SUFFICES ASSUME PanelTypeOK, [TouchNext]_touchVars PROVE PanelStep
  OBVIOUS
<1>1. CASE ScreenNext
  <2>1. CASE \E s \in PanelSlots, id \in TrackingIds \cup {Lifted}, axes \in SUBSET Axes :
               Report(s, id, axes)
    <3>1. PICK s \in PanelSlots, id \in TrackingIds \cup {Lifted}, axes \in SUBSET Axes :
            Contact(s, id, axes # {})
      BY <2>1 DEF Report
    <3>2. (axes # {}) \in BOOLEAN
      OBVIOUS
    <3>3. QED BY <3>1, <3>2 DEF PanelStep
  <2>2. CASE \E axes \in SUBSET Axes : Emulate(axes)
    BY <2>2 DEF Emulate, PanelStep
  <2>3. CASE \E id \in TrackingIds \cup {Lifted}, axes \in SUBSET Axes : ReportSingle(id, axes)
    BY <2>3 DEF ReportSingle, PanelStep
  <2>4. CASE Syn \/ QueueOverflows \/ Reopen
    BY <2>4 DEF Syn, QueueOverflows, Reopen, PanelStep
  <2>5. CASE FlushSlot \/ FlushEnds \/ Cancel
    BY <2>5 DEF FlushSlot, FlushEnds, Cancel, panelVars, PanelTypeOK, PanelStep
  <2>6. QED BY <1>1, <2>1, <2>2, <2>3, <2>4, <2>5 DEF ScreenNext
<1>2. CASE PadNext
  <2>1. CASE \E s \in PanelSlots, id \in TrackingIds \cup {Lifted}, axes \in SUBSET Axes,
               far \in BOOLEAN : PadReport(s, id, axes, far)
    <3>1. PICK s \in PanelSlots, id \in TrackingIds \cup {Lifted}, axes \in SUBSET Axes :
            Contact(s, id, axes # {})
      BY <2>1 DEF PadReport
    <3>2. (axes # {}) \in BOOLEAN
      OBVIOUS
    <3>3. QED BY <3>1, <3>2 DEF PanelStep
  <2>2. CASE \E axes \in SUBSET Axes, far \in BOOLEAN : PadEmulate(axes, far)
    BY <2>2 DEF PadEmulate, PanelStep
  <2>3. CASE \E id \in TrackingIds \cup {Lifted}, axes \in SUBSET Axes, far \in BOOLEAN :
               PadReportSingle(id, axes, far)
    BY <2>3 DEF PadReportSingle, PanelStep
  <2>4. CASE (\E differs \in BOOLEAN : PadSyn(differs)) \/ PadOverflows \/ PadReopen
    BY <2>4 DEF PadSyn, PadOverflows, PadReopen, PanelStep
  <2>5. CASE TapAges \/ PadCancel
    BY <2>5 DEF TapAges, PadCancel, panelVars, PanelTypeOK, PanelStep
  <2>6. QED BY <1>2, <2>1, <2>2, <2>3, <2>4, <2>5 DEF PadNext
<1>3. CASE UNCHANGED touchVars
  BY <1>3 DEF touchVars, screenVars, panelVars, PanelTypeOK, PanelStep
<1>4. QED BY <1>1, <1>2, <1>3 DEF TouchNext

LEMMA PanelStaysInStep == TouchSpec => []PanelInStep
<1>1. TouchInit => PanelInStep
  <2> SUFFICES ASSUME TouchInit PROVE PanelInStep
    OBVIOUS
  <2>1. PanelTypeOK
    BY ScreenInitial DEF TouchInit, ScreenInv, ButtonInv, TouchTypeOK
  <2>2. QED BY <2>1 DEF TouchInit, ScreenInit, PanelInit, PanelInStep, SlotsInStep
<1>2. PanelInStep /\ [TouchNext]_touchVars => PanelInStep'
  <2> SUFFICES ASSUME PanelTypeOK, SlotsInStep, PanelStep PROVE PanelTypeOK' /\ SlotsInStep'
    BY StepsOfPanel DEF PanelInStep
  <2>1. CASE \E s \in PanelSlots, id \in TrackingIds \cup {Lifted}, moved \in BOOLEAN :
               Contact(s, id, moved)
    <3>1. PICK s \in PanelSlots, id \in TrackingIds \cup {Lifted}, moved \in BOOLEAN :
            Contact(s, id, moved)
      BY <2>1
    <3>2. PanelTypeOK'
      BY <3>1, PanelTypes
    <3>3. losses' = losses /\ mtSlot' = s
      BY <3>1 DEF Contact
    <3>4. losses = 0 => readSlot' = s /\ touchSlot' \in {0, s} /\ known' = Contacts'
      BY <3>1, ContactInStep
    <3>5. QED BY <3>2, <3>3, <3>4 DEF SlotsInStep
  <2>2. CASE \E id \in TrackingIds \cup {Lifted} : SingleContact(id)
    <3>1. PanelTypeOK' /\ ~HasMtSlots'
      BY <2>2, PanelTypes DEF SingleContact, HasMtSlots
    <3>2. QED BY <3>1 DEF SlotsInStep
  <2>3. CASE Emulated \/ FrameEnds
    <3>1. PanelTypeOK'
      BY <2>3, PanelTypes
    <3>2. UNCHANGED <<panel, finger, known, losses, mtSlot, readSlot, touchSlot>>
      BY <2>3 DEF Emulated, FrameEnds, slotVars
    <3>3. QED BY <3>1, <3>2 DEF SlotsInStep, HasMtSlots, Contacts
  <2>4. CASE Overflow
    <3>1. PanelTypeOK' /\ losses \in Nat /\ losses' = losses + 1
      BY <2>4, PanelTypes DEF PanelTypeOK, Overflow
    <3>2. QED BY <3>1 DEF SlotsInStep
  <2>5. CASE open' \in BOOLEAN /\ UNCHANGED <<panel, finger, known, key, cursor, losses, slotVars>>
    <3>1. open' \in BOOLEAN /\ UNCHANGED <<panel, finger, known, key, cursor, losses>>
          /\ UNCHANGED <<mtSlot, readSlot, touchSlot, stray>>
      BY <2>5 DEF slotVars
    <3>2. QED BY <3>1 DEF PanelTypeOK, SlotsInStep, HasMtSlots, Contacts
  <2>6. CASE Opened /\ UNCHANGED panel
    <3>1. /\ finger' \in [PanelSlots -> TrackingIds \cup {Lifted}]
          /\ known' = Contacts' /\ known' \subseteq PanelSlots
      BY <2>6 DEF Opened, PlacementsOf, Placements, Contacts
    <3>2. mtSlot' \in PanelSlots /\ readSlot' = mtSlot' /\ touchSlot' = 0 /\ stray' = FALSE
      BY <2>6, LastSlots DEF Opened
    <3>3. /\ panel' \in PanelKinds /\ open' \in BOOLEAN /\ key' \in BOOLEAN
          /\ cursor' \in 0..(PanelSlotCount + 1) /\ losses' \in 0..MaxLosses
      BY <2>6, PanelAssumption DEF Opened, PanelTypeOK
    <3>4. QED BY <3>1, <3>2, <3>3, LastSlots DEF PanelTypeOK, SlotsInStep
  <2>7. QED BY <2>1, <2>2, <2>3, <2>4, <2>5, <2>6 DEF PanelStep
<1>3. QED BY <1>1, <1>2, PTL DEF TouchSpec

(* Until an event is lost, the slot evdev.c takes a report for is the one  *)
(* the kernel means, or still the 0 evdev_create assumed: only what comes  *)
(* before the first ABS_MT_SLOT can be taken for another slot's.           *)
THEOREM SlotsStayInStep == TouchSpec => []SlotsInStep
<1>1. PanelInStep => SlotsInStep
  BY DEF PanelInStep
<1>2. QED BY <1>1, PanelStaysInStep, PTL

-----------------------------------------------------------------------------
(* Touchpad mode leaves the host's touches and the screen's button alone.  *)
Unused ==
  /\ hostTouches = {} /\ hostButton = FALSE /\ mouseDown = FALSE
  /\ mouseSlot = NoSlot /\ directUnsupported = FALSE
DeviceInv == (touchpadMode => Unused) /\ (~touchpadMode => ScreenInv)

LEMMA DeviceInductive == TouchSpec => []DeviceInv
<1>1. TouchInit => DeviceInv
  BY ScreenInitial DEF TouchInit, ScreenInit, DeviceInv, Unused
<1>2. DeviceInv /\ PanelInStep /\ [TouchNext]_touchVars => DeviceInv'
  <2> SUFFICES ASSUME DeviceInv, SlotsInStep, [TouchNext]_touchVars PROVE DeviceInv'
    BY DEF PanelInStep
  <2>1. CASE ~touchpadMode /\ ScreenNext /\ touchpadMode' = touchpadMode
    <3>1. ScreenInv
      BY <2>1 DEF DeviceInv
    <3>2. ScreenInv'
      BY <2>1, <3>1, ReportStep, EmulateStep, ReportSingleStep, SynStep, FlushSlotStep,
         FlushEndsStep, CancelStep, ReopenStep, OverflowStep DEF ScreenNext
    <3>3. QED BY <2>1, <3>2 DEF DeviceInv
  <2>2. CASE /\ touchpadMode /\ touchpadMode' = touchpadMode
             /\ UNCHANGED <<supported, deviceVars, flush, hostVars>>
    BY <2>2 DEF DeviceInv, Unused, deviceVars, hostVars
  <2>3. CASE UNCHANGED touchVars
    <3>1. UNCHANGED <<panel, open, finger, known, key, cursor, losses>>
          /\ UNCHANGED <<mtSlot, readSlot, touchSlot, stray>>
          /\ UNCHANGED <<supported, touchSlots, directUnsupported, mouseSlot, mouseDown>>
          /\ UNCHANGED <<flush, hostTouches, hostButton, touchpadMode>>
      BY <2>3 DEF touchVars, screenVars, panelVars, slotVars, deviceVars, hostVars
    <3>2. CASE touchpadMode
      BY <3>1, <3>2 DEF DeviceInv, Unused
    <3>3. CASE ~touchpadMode
      <4>1. ScreenInv
        BY <3>3 DEF DeviceInv
      <4>2. ButtonInv' /\ (Reliable' = Reliable)
        BY <3>1, <4>1 DEF ScreenInv, ButtonInv, TouchTypeOK, PanelTypeOK, Rest, Reliable
      <4>3. ReliableInv => ReliableInv'
        BY <3>1 DEF ReliableInv, SlotShape, SlotsHaveFingers, PendingInFrame,
                    KernelAgrees, HasMtSlots, HostTouchesTracked, ButtonTracked, Usable, Rest
      <4>4. QED BY <3>1, <3>3, <4>1, <4>2, <4>3 DEF DeviceInv, ScreenInv
    <3>4. QED BY <3>2, <3>3
  <2>4. QED BY <2>1, <2>2, <2>3 DEF TouchNext
<1>3. QED BY <1>1, <1>2, PanelStaysInStep, PTL DEF TouchSpec

(* What the host holds is what the client remembers and will let go:       *)
(* evdev_flush_touch and evdev_send_touch_mouse_fallback never lose track; *)
(* of a touch, as long as every report is taken for its own slot.          *)
THEOREM HostNeverForgotten == TouchSpec => []HostFollowsSlots
<1>1. DeviceInv => HostFollowsSlots
  <2> SUFFICES ASSUME DeviceInv PROVE HostFollowsSlots
    OBVIOUS
  <2>1. CASE touchpadMode
    BY <2>1 DEF DeviceInv, Unused, HostFollowsSlots, HostTouchesTracked, ButtonTracked
  <2>2. CASE ~touchpadMode
    <3>1. ButtonInv /\ (Reliable => HostTouchesTracked /\ ButtonTracked)
      BY <2>2 DEF DeviceInv, ScreenInv, ReliableInv
    <3>2. hostButton => hostTouches = {}
      BY <3>1 DEF ButtonInv
    <3>3. QED BY <3>1, <3>2 DEF HostFollowsSlots, ButtonInv
  <2>3. QED BY <2>1, <2>2
<1>2. QED BY <1>1, DeviceInductive, PTL

(* Nothing is held once the device is gone (evdev_cancel_touch_input), nor *)
(* once the fingers are lifted if every report was taken for its own slot. *)
THEOREM HostLetsGo == TouchSpec => []ScreenQuietWhenLifted
<1>1. DeviceInv => ScreenQuietWhenLifted
  <2> SUFFICES ASSUME DeviceInv, ~open \/ (flush = Rest /\ Idle /\ Reliable)
               PROVE  hostTouches = {} /\ ~hostButton
    BY DEF ScreenQuietWhenLifted
  <2>1. CASE touchpadMode
    BY <2>1 DEF DeviceInv, Unused
  <2>2. CASE ~touchpadMode /\ ~open
    BY <2>2 DEF DeviceInv, ScreenInv, ButtonInv
  <2>3. CASE ~touchpadMode /\ flush = Rest /\ Idle /\ Reliable
    <3>1. ButtonInv /\ ReliableInv
      BY <2>3 DEF DeviceInv, ScreenInv
    <3>2. \A s \in Slots : ~touchSlots[s].active
      BY <2>3, <3>1 DEF ReliableInv, SlotsHaveFingers, Idle, Contacts
    <3>3. \A s \in Slots : ~touchSlots[s].up_pending
      BY <2>3, <3>1 DEF ReliableInv, PendingInFrame, Idle, Slots
    <3>4. hostTouches = {}
      BY <3>1, <3>2, <3>3 DEF ReliableInv, SlotShape, HostTouchesTracked
    <3>5. mouseDown => mouseSlot \in Slots
      BY <3>1 DEF ButtonInv, TouchTypeOK, NoSlot
    <3>6. ~mouseDown
      BY <3>1, <3>2, <3>3, <3>5 DEF ReliableInv, ButtonTracked
    <3>7. hostButton = mouseDown
      BY <3>1 DEF ButtonInv
    <3>8. QED BY <3>4, <3>6, <3>7
  <2>4. QED BY <2>1, <2>2, <2>3
<1>2. QED BY <1>1, DeviceInductive, PTL

(* A host without touch sees the button down exactly while a contact with  *)
(* a known position is there (evdev_start_mouse_fallback_if_needed), if    *)
(* every report was taken for its own slot.                                *)
THEOREM FallbackButtonHeld == TouchSpec => []FallbackHolds
<1>1. DeviceInv => FallbackHolds
  <2> SUFFICES ASSUME DeviceInv, flush = Rest /\ cursor = 0 /\ directUnsupported /\ Reliable
               PROVE  hostButton = (\E s \in Slots : Usable(s))
    BY DEF FallbackHolds
  <2>1. ~touchpadMode
    BY DEF DeviceInv, Unused
  <2>2. hostButton = mouseDown /\ mouseDown = (\E s \in Slots : Usable(s))
    BY <2>1 DEF DeviceInv, ScreenInv, ReliableInv, ButtonInv
  <2>3. QED BY <2>2
<1>2. QED BY <1>1, DeviceInductive, PTL
=============================================================================
