\* Two threads run every command over two notes while other programs write them.
SPECIFICATION Spec
CONSTANTS
    Workers = {w1, w2}
    Paths = {1, 2, 3}
    Files = {"a", "b"}
    Keys = {1, 2, 3}
    FileAt <- TwoNotes
    KeyAt <- TwoKeys
    Contents = {a}
    LockIds = {m1, m2, m3}
    Kinds = {"cas", "put", "delete", "rename"}
    Outsiders = TRUE
    PowerMayFail = FALSE
    NoFile = NoFile
    NoRequest = NoRequest
    NoLock = NoLock
    Torn = Torn
SYMMETRY Symmetry
INVARIANT TypeOK
INVARIANT NoCircularWait
INVARIANT NoStrayTemp
PROPERTY ImplementsAtomicFiles
