SPECIFICATION CacheSpec
CONSTANTS
  r1 = r1  r2 = r2  r3 = r3  d1 = d1  d2 = d2  d3 = d3
  setup = setup  latest = latest
  None = None  Torn = Torn
  Releases <- OneRelease
  Downloads <- TwoDownloads
  Names = {setup}
  FileName <- OneName
  Sha <- OneSha
  Overlap = FALSE
  LateWriters = TRUE
  MaxCrashes = 0
PROPERTIES AnnouncedComplete
CHECK_DEADLOCK FALSE
