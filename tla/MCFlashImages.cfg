CONSTANTS
  PageLen = 3
  SectorPages = 2
  FwPages = 4
  Fw2Page = 4
  FlashPages = 12
  HeaderLen = 3
  BuffLen = 5
  Bodies <- MCBodies
  WindowBits = 4
  LookaheadBits = 3
  PushBits = 3
  GetBits = 2
  Files <- MCFiles
  Sizes <- MCSizes
SPECIFICATION MCSpec
INVARIANTS ImageStored RunningSpared RoundTrip ServedWhole TemplateWhole
PROPERTIES ServingEnds
