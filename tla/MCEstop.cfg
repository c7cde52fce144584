SPECIFICATION EstopOnlySpec
CONSTANTS
  Pages = {p1}
  Aircraft = {a1}
  None = None
  Dwell = 1
INVARIANT EstopEndsTracking
