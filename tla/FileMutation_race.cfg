\* Three threads save one note while other programs write it and power may fail.
SPECIFICATION Spec
CONSTANTS
    Workers = {w1, w2, w3}
    Paths = {1}
    Files = {"a"}
    Keys = {1}
    FileAt <- OneFile
    KeyAt <- OneKey
    Contents = {a, b}
    LockIds = {m1, m2, m3}
    Kinds = {"cas", "put"}
    Outsiders = TRUE
    PowerMayFail = TRUE
    NoFile = NoFile
    NoRequest = NoRequest
    NoLock = NoLock
    Torn = Torn
SYMMETRY Symmetry
INVARIANT OneCallPerFile
INVARIANT NoInProcessLostUpdate
INVARIANT NoteNeverTorn
INVARIANT AcknowledgedSaveSurvives
