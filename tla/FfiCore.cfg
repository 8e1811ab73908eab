CONSTANTS
    Threads = {t1, t2}
    m1 = m1
    m2 = m2
    m3 = m3
    NoMessage = NoMessage
    Messages <- MCMessages
    MessageLen <- MCMessageLen
    MaxLoads = 3

SPECIFICATION Spec

INVARIANTS
    CallsArePrototyped
    LoadedStaysLoaded
    DiagnosticIsHonest
