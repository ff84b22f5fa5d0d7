SPECIFICATION Spec
CONSTANTS
  Ifaces <- MCIfaces
  SameName <- MCSameName
  Contents <- MCContents
  MaxEdits = 1
CHECK_DEADLOCK FALSE
INVARIANTS ValidConfig LinesCount RoundTrip
