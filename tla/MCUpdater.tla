----------------------------- MODULE MCUpdater -----------------------------
EXTENDS Updater, TLC

CONSTANTS r1, r2, d1, d2, setup, latest

MCReleases == {r1, r2}
MCDownloads == {d1, d2}

\* Each release's file has a name of its own; the application is at
\* version 1.
MCFileName == r1 :> setup @@ r2 :> latest
MCSha == r1 :> 1 @@ r2 :> 2
Newer == r1 :> 2 @@ r2 :> 3

DownloadSymmetry == Permutations(Downloads)
=============================================================================
