SPECIFICATION Spec
CONSTANTS
    Mode <- MCMode
    Needs <- MCNeeds
    Severe = {"auto", "windows"}
    AllInputs <- MCInputs
    Provided <- MCProvided
    Lock <- MCLock
    SignedBuilds = {1}
    FormalToolchain = TRUE
    Raws <- MCRaws
    Externals <- MCExternals
    Audits <- MCAudits
    Nothing = Nothing
    MaxCommits = 2
    MaxBuilds = 1
    MaxRuns = 2
    MaxStamps = 3
    MaxChanges = 1
    MaxFailures = 2
INVARIANTS ReleaseConsistent VerdictIsTrue SingleRoundConverges
PROPERTY SetsSwitchAtOnce
CHECK_DEADLOCK FALSE
