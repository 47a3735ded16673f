SPECIFICATION FairSpec
CONSTANTS
    Notes = {n1, n2}
    Contents = {c0, c1}
    Blank = c0
    Scenes <- ProgressScenes
    MaxTasks = 2
    NoNote = NoNote
    Missing = Missing
    NoIssue = NoIssue
    NoTimer = NoTimer
    Baseline = Baseline
\* The window may be closed: nothing happens any more.
CHECK_DEADLOCK FALSE
INVARIANT SavingHasACause
PROPERTY DirtyResolves
PROPERTY LockEnds
