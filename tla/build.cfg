SPECIFICATION BuildSpec
CONSTANTS
    zip = zip
    nsis = nsis
    deb = deb
    appImage = appImage
    Plans <- BothPlans
    WithInfo <- Updatable
INVARIANTS ResolvedMeansDone UpdateInfoLast
PROPERTY BuildEnds
CHECK_DEADLOCK FALSE
