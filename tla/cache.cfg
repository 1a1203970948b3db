SPECIFICATION CacheSpec
CONSTANTS
  r1 = r1  r2 = r2  r3 = r3  d1 = d1  d2 = d2  d3 = d3
  setup = setup  latest = latest
  None = None  Torn = Torn
  Releases <- ThreeReleases
  Downloads <- ThreeDownloads
  Names = {setup, latest}
  FileName <- SharedNames
  Sha <- SharedShas
  Overlap = FALSE
  LateWriters = FALSE
  MaxCrashes = 2
SYMMETRY DownloadSymmetry
INVARIANTS CacheTypeOK InstanceCheckSound HeldIsThere
PROPERTIES AnnouncedComplete
CHECK_DEADLOCK FALSE
