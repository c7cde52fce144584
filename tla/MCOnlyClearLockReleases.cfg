SPECIFICATION SunSpec
CONSTANTS
  Targets = {t1}
  Gens = {1, 2, 3}
  Readings <- MCReadings
  MaxTargetAge = 0
  Deadman = 0
  ParkGens = {1, 2, 3}
  Skies <- MCSkies
  MaxRetries = 2
PROPERTY
  OnlyClearLockReleases
