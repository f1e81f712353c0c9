SPECIFICATION Spec
CONSTANTS
  village = village
  inn = inn
  Maps = {village, inn}
  MaxGenerations = 3
  MaxPlays = 1
CHECK_DEADLOCK FALSE
INVARIANT WorldWhole
