\* One switch, nothing fails, a note is created meanwhile.
SPECIFICATION Spec
CHECK_DEADLOCK FALSE
CONSTANTS
    Roots = {a, b}
    None = None
    MaxSwitches = 1
    MaxFaults = 0
    MaxDisturb = 1
    MaxUpsets = 1
    MaxSaves = 1
INVARIANT IndexIsRebuilt
