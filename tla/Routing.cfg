SPECIFICATION FairSpec
CONSTANTS
    Installations <- ThreeInstallations
    Routings <- TwoRoutings
    Goals <- ThreeGoals
    Hints = {}
    DefaultWait = 2
    RerouteCap = 1
INVARIANTS
    ClaudeKeepsImplementation
    ClaudeIsLast
PROPERTY
    ChoiceComesBack
CHECK_DEADLOCK FALSE
