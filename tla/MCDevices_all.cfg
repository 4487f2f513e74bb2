CONSTANTS
  A = A
  B = B
  C = C
  slot1 = slot1
  slot2 = slot2
  red = red
  fast = fast
  mode1 = mode1
  mode2 = mode2
  moving = moving
  live = live
  home = home
  none = none
  Elements = {A, B}
  Internal = {B}
  Keep = {}
  AutoLoad = TRUE
  PurgeUnknown = TRUE
  MaxChanges = 2
  MaxActivations = 2
  MaxTakes = 1
  MaxTroubles = 1
  MayOverlap = FALSE
  MayTakeUnexpected = FALSE
  MayReactivate = FALSE
  MayCleanUp = FALSE
SPECIFICATION Spec
INVARIANTS TypeOK DeviceShowsTheState NoTakeFails
PROPERTIES DevicesFollow ConnectionsComeBack
CHECK_DEADLOCK FALSE
