CONSTANTS
  Dates = {d1, d2}
  Power = power
  Torn = torn
  Servers <- MCServers
  Connections <- MCConnections
  Readings <- MCReadings
  Lengths = {0, 38, 39, 40}
  Flips = {16, 17, 33}
  PolledSeconds = {0, 7, 10}
  Minute = 3
  MaxUptime = 6
  Roms <- MCRoms
  CrcHolds <- MCCrcHolds
  FamilyBits = 2
  Thermometers <- MCThermometers
  Halves <- MCHalves
  OW_MAX_DEVICES = 3
  Scratchpads <- MCScratchpads
  Unplugged = 1
  Starts <- MCStarts
  Ticks = 170
  Tick = 3600
  Zones <- MCZones
SPECIFICATION MCSpec
INVARIANTS DateNotForgotten RequestIsTimed CalendarHolds SummerTime PagesAgree FoundOnce ShownIsMeasured FanShown MotionIsWatched
PROPERTIES ClockRead
