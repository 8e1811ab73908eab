CONSTANTS
    Threads = {t1}
    m1 = m1
    m2 = m2
    m3 = m3
    NoMessage = NoMessage
    Messages <- MCMessages
    MessageLen <- MCMessageLen
    MaxLoads = 2

SPECIFICATION Spec

PROPERTIES
    LoadFailureIsCached
