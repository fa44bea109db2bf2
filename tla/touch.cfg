\* Two slots, two contacts at a time, every kind of panel, host and mode, the
\* kernel at either slot when the device is opened, one overflow of its queue.
CONSTANTS
  MaxSlots = 2
  PanelSlotCount = 2
  TrackingIds = {0, 1}
  Panels = {"mt", "emulating", "single", "singleLate"}
  MaxLosses = 1
  HostTakesTouch = {TRUE, FALSE}
SPECIFICATION TouchSpec
INVARIANTS
  DeviceTypeOK
  HostFollowsSlots
  ScreenQuietWhenLifted
  FallbackHolds
  PadFollowsFingers
PROPERTIES
  GesturesFollowFingers
