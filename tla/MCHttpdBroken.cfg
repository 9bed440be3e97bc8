CONSTANTS
  s1 = s1
  s2 = s2
  s3 = s3
  s4 = s4
  Sockets <- MCSockets
  Addresses = {1, 2}
  Ports = {1, 2}
  MaxConn = 2
  Browsers = {"ann", "bob"}
  AccessPoints = {"m", "n", "o"}
  Scans <- MCScans
  MaxRequests = 2
  Names <- MCNames
  Values <- MCValues
  Pairs = 2
  Rooms = {1, 4}
SYMMETRY Symmetry
SPECIFICATION MCSpec
INVARIANT SlotsAreLive
