SPECIFICATION Spec
CONSTANTS
  r1 = r1  r2 = r2  d1 = d1  d2 = d2
  setup = setup  latest = latest
  None = None  Torn = Torn
  Releases <- MCReleases
  Downloads <- MCDownloads
  Names = {setup, latest}
  FileName <- MCFileName
  Sha <- MCSha
  Overlap = FALSE
  LateWriters = FALSE
  MaxCrashes = 1
  Version <- Newer
  CurrentVersion = 1
  Staged <- MCReleases
  AllowDowngrade = FALSE
  AutoInstallOnAppQuit = TRUE
  Platforms = {"nsis", "appImage"}
  MaxCalls = 2
SYMMETRY DownloadSymmetry
INVARIANT NeverDamaged
PROPERTIES InstalledOnQuietQuit InstallerConforms
CHECK_DEADLOCK FALSE
