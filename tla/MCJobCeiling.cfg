SPECIFICATION Spec
CONSTANTS
  tile = tile
  cover = cover
  poster = poster
  Items = {cover, poster}
  Plan <- Paid
  Group <- PaidGroups
  Hosted = {cover, poster}
  Ceiling = 1
  Cancellable = {}
  MaxRuns = 2
  MaxKills = 0
CHECK_DEADLOCK FALSE
INVARIANT
  CeilingKept
