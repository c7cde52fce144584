SPECIFICATION AroundSpec
CONSTANTS
  Viewers = {1, 2}
  Slots = {1, 2}
  MaxRestarts = 2
  Pages = {p1}
  Aircraft = {a1, a2}
  None = None
  Dwell = 1
  Polls = {c1, c2}
  Controls = {c3}
  Restarts = 1
  Panels <- MCPanels
  PollSlots = {1, 2}
  Changes = 2
  Lag = 1
  Widgets = {p1}
  Turn = 3
  Drops = {0}
  Files <- MCFiles
  Edits = 2
  Unset = Unset
  SweepPositions = 1
  Cameras <- MCCameras
  PanMin = 0
  PanMax = 3
  Postures <- MCPostures
  Unsolved = Unsolved
  MaxJog = 2
  Accel = 1
  Rounding = 1
  Limit = 4
  TickPeriod = 2
  PumpPeriod = 1
  PushPeriod = 2
CHECK_DEADLOCK FALSE
INVARIANTS
  AroundTypesOK
  OneMtplvcap
  PipelineMatchesDemand
  FrameIsLive
  WaitsForTheStopped
  CalmStaysStopped
  RestartKeepsSector
  DrawnIsAdmitted
  CalibrationHolds
  PointsTrue
  NeverRunsAway
PROPERTIES
  DwellIsKept
  HealsAfterRestart
  FeedNeverGoesBack
  FeedConverges
