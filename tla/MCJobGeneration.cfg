SPECIFICATION Spec
CONSTANTS
  tile = tile
  cover = cover
  poster = poster
  Items = {tile, cover}
  Plan <- Local
  Group <- LocalGroups
  Hosted = {}
  Ceiling = 0
  Cancellable = {}
  MaxRuns = 1
  MaxKills = 0
CHECK_DEADLOCK FALSE
INVARIANT
  OneGeneration
