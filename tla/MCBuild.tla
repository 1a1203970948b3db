------------------------------ MODULE MCBuild ------------------------------
EXTENDS Build

CONSTANTS zip, nsis, deb, appImage

\* Windows: zip side by side, nsis in finishBuild; then Linux: a target that
\* is not built side by side with others.
TwoPlatforms == <<[async |-> {zip}, sync |-> <<>>, finish |-> {nsis}],
                  [async |-> {}, sync |-> <<deb>>, finish |-> {}]>>
\* Linux: a group of targets of both kinds.
OneGroup == <<[async |-> {appImage}, sync |-> <<deb>>, finish |-> {}]>>

BothPlans == {TwoPlatforms, OneGroup}
Updatable == {nsis, appImage}
=============================================================================
