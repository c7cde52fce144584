SPECIFICATION FwSpec
CONSTANTS
  Frames = {{}, {"head", "aux"}}
  Full = 2
  Segments = 1
INVARIANT
  StepIsrStoppedWhileFlashing
