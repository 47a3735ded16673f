SPECIFICATION Spec
CONSTANTS
    Notes = {n1, n2}
    Contents = {c0, c1}
    Blank = c0
    Scenes <- FileScenes
    MaxTasks = 2
    NoNote = NoNote
    Missing = Missing
    NoIssue = NoIssue
    NoTimer = NoTimer
    Baseline = Baseline
SYMMETRY Symmetry
\* The window may be closed: nothing happens any more.
CHECK_DEADLOCK FALSE
INVARIANT TypeOK
INVARIANT CleanMeansSaved
PROPERTY SavesGoToTheOpenNote
