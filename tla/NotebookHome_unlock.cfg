SPECIFICATION Spec
CONSTANTS
    Notes = {n1, n2}
    Contents = {c0, c1}
    Blank = c0
    Scenes <- CreateAndSelectScenes
    MaxTasks = 2
    NoNote = NoNote
    Missing = Missing
    NoIssue = NoIssue
    NoTimer = NoTimer
    Baseline = Baseline
SYMMETRY Symmetry
INVARIANT NoTypingLost
