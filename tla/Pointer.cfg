SPECIFICATION Spec
CONSTANTS
  Axes = {"x", "y"}
  Pixels <- MCPixels
  DesktopMin <- MCDesktopMin
  DesktopMax <- MCDesktopMax
  MonitorMin <- MCMonitorMin
  MonitorMax <- MCMonitorMax
  Deltas <- MCDeltas
  ReanchorEvery = 3
  ReanchorDivergePx = 1
  TrailLimit = 3
INVARIANTS
  TypeOK
  TracksPointer
  DriftBounded
