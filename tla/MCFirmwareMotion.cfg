SPECIFICATION FairFwSpec
CONSTANTS
  Frames = {{}, {"head", "aux"}}
  Full = 2
  Segments = 1
INVARIANT
  FwTypeOK
PROPERTIES
  OnlyFreshStopCutsGoto
  NeverReleasedInMotion
  RequestsDrained
  GotoEnds
  StopHoldsHead
