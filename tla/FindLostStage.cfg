SPECIFICATION FairSpec
CONSTANTS
    Installations <- ThreeInstallations
    Routings <- TwoRoutings
    Goals <- ThreeGoals
    Hints = {}
    DefaultWait = 2
    RerouteCap = 1
PROPERTY
    PlannedSequenceImplements
CHECK_DEADLOCK FALSE
