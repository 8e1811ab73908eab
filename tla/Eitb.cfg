SPECIFICATION Spec
CONSTANTS
    Files = {f1, f2}
    Texts = {t}
    Torn = Torn
    Noise = Noise
    None = None
    MaxSessions = 2
    MaxDecrypts = 1
INVARIANTS TypeOK SuccessIsOpenable
PROPERTIES OutputOnlyFromCipher
