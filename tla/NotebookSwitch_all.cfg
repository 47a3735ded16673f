\* Two notebooks, two switches, two faults or disturbances.
SPECIFICATION Spec
CHECK_DEADLOCK FALSE
CONSTANTS
    Roots = {a, b}
    None = None
    MaxSwitches = 2
    MaxFaults = 2
    MaxDisturb = 2
    MaxUpsets = 2
    MaxSaves = 2
INVARIANT TypeOK
INVARIANT RootsAgree
INVARIANT ShowsOneNotebook
INVARIANT WatcherIsHeard
INVARIANT OwnEventsOnly
INVARIANT NoSilentOrphan
INVARIANT SavesStayHome
PROPERTY SwitchEnds
PROPERTY WatchedAgain
