CONSTANTS
  layer1 = layer1
  layer2 = layer2
  old = old
  new = new
  p1 = p1
  p2 = p2
  channel1 = channel1
  A = A
  B = B
  i1 = i1
  i2 = i2
  i3 = i3
  dark = dark
  bright = bright
  c1 = c1
  c2 = c2
  trigger = trigger
  none = none
  Ports = {p1, p2}
  Channels = {channel1}
  Clips = {A}
  Mode <- FastPorts
  FoundLater = {}
  CLIP_LENGTH = 20
  JUMP_ERROR_MARGIN = 10
  MaxStates = 2
  AheadOfMissing = FALSE
  ReleaseErrors = {}
  MayRemap = FALSE
  MayRace = FALSE
SPECIFICATION Spec
INVARIANTS TypeOK PortShowsTheClip NobodyWaitsInVain
PROPERTIES DeviceFollows ChangesOffAir
CHECK_DEADLOCK FALSE
