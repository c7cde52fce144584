SPECIFICATION DaemonSpec
CONSTANTS
  Targets = {t1, t2}
  Gens = {1, 2, 3}
  Readings <- MCReadings
  MaxTargetAge = 0
  Deadman = 0
  MaxJogs = 1
  Lost = 1
INVARIANT
  TrackingAndJogExclude
