-------------------------- MODULE MCDownloadCache --------------------------
EXTENDS DownloadCache, TLC

CONSTANTS r1, r2, r3, d1, d2, d3, setup, latest

ThreeReleases == {r1, r2, r3}
TwoReleases == {r1, r2}
OneRelease == {r1}

\* Two releases are served under one name ("/latest"), and the file of one of them
\* was published before under a name of its own.
SharedNames == r1 :> latest @@ r2 :> latest @@ r3 :> setup
SharedShas == r1 :> 1 @@ r2 :> 2 @@ r3 :> 2
SameName == r1 :> latest @@ r2 :> latest
OneName == r1 :> setup

OwnSha == r1 :> 1 @@ r2 :> 2
OneSha == r1 :> 1

ThreeDownloads == {d1, d2, d3}
TwoDownloads == {d1, d2}
TwoNames == {setup, latest}

DownloadSymmetry == Permutations(Downloads)
=============================================================================
