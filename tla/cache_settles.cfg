SPECIFICATION FairCacheSpec
CONSTANTS
  r1 = r1  r2 = r2  r3 = r3  d1 = d1  d2 = d2  d3 = d3
  setup = setup  latest = latest
  None = None  Torn = Torn
  Releases <- TwoReleases
  Downloads <- TwoDownloads
  Names = {latest}
  FileName <- SameName
  Sha <- OwnSha
  Overlap = TRUE
  LateWriters = TRUE
  MaxCrashes = 1
PROPERTIES EveryDownloadSettles
CHECK_DEADLOCK FALSE
