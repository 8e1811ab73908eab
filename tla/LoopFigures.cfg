SPECIFICATION Spec
CONSTANTS
    N = 2
    Base = 8
    WordLen = 2
    Gamma = 27
    Mix <- MCMix
    Configs <- MCConfigs
    RampLen = 5
    Starter <- MCStarter
    Iterations = 2
INVARIANTS TypeOK DistinctPlaintexts Replayable FiguresAreHonest
CHECK_DEADLOCK FALSE
