\* A panel that reports its oldest contact as ABS_X and ABS_Y beside the slots.
CONSTANTS
  MaxSlots = 2
  PanelSlotCount = 2
  TrackingIds = {0, 1}
  Panels = {"emulating"}
  MaxLosses = 0
  HostTakesTouch = {TRUE}
SPECIFICATION ScreenSpec
INVARIANT NoPhantomTouch
