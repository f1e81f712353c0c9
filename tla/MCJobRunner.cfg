SPECIFICATION FairSpec
CONSTANTS
  tile = tile
  cover = cover
  poster = poster
  Items = {tile, cover}
  Plan <- Mixed
  Group <- MixedGroups
  Hosted = {cover}
  Ceiling = 1
  Cancellable = {cover}
  MaxRuns = 2
  MaxKills = 1
CHECK_DEADLOCK FALSE
INVARIANTS
  TypeOK
  ReviewStaged
  HostedBilledOnce
  SoloSettles
PROPERTIES
  CancelledStays
  RawReused
  RunsEnd
