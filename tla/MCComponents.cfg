SPECIFICATION MCSpec
CONSTANTS
  TickPeriod = 10
  TicksPerUnit = 4
  First = 1
  StampMod = 32
  Limit = 6
  MaxGap = 6
  MaxTicks = 60
  MaxStep = 0
  Width = 6
  Weight <- MCWeight
  Resolutions = {1, 2, 3, 4, 7, 8}
  WordSize = 16
  kp = 1
  ki = 2
  kd = 1
  u_max = 6
  u_min <- UMin
  i_max = 4
  i_min <- IMin
  MaxError = 2
  NaN = NaN
  ByteMod = 16
  Capacities = {2, 5, 12, 26, 28, 40}
  StringRoom = 3
  MaxItems = 2
  Samples <- MCSamples
  Strings <- MCStrings
  Arrays <- MCArrays
  RingSize = 7
  Start <- MCStart
  Given <- MCGiven
  MaxCalls = 3
  FifoDepth = 2
  timeout = 1
  Chars = 3
  Breaks = 2
  Tables <- MCTables
  Gpio = {"PF4"}
  BadPins = {"PG0"}
  JtagPins = {"PC1"}
  NmiPins = {"PF0", "PD7"}
  MaxOps = 3
CHECK_DEADLOCK FALSE
INVARIANTS
  ElapsedTracks NotEarly
  AcceptsPowersOfTwo
  TicksMeasureAngle
  IntegralBounded NaNForgotten
  BsRoundTrip BsWithin
  MxMeans
  PtForwards PtOneBreakEach
  PnGivenOnce PnUndisturbed
PROPERTIES
  DelayEnds
  SlotsInOrder
  PtEnds
