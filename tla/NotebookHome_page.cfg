SPECIFICATION Spec
CONSTANTS
    Notes = {n1, n2}
    Contents = {c0, c1}
    Blank = c0
    Scenes <- PageScenes
    MaxTasks = 2
    NoNote = NoNote
    Missing = Missing
    NoIssue = NoIssue
    NoTimer = NoTimer
    Baseline = Baseline
SYMMETRY Symmetry
INVARIANT NoTypingLost
INVARIANT CleanIsBaseline
INVARIANT ErrorIsActionable
INVARIANT IssueIsAboutTheNote
PROPERTY NoBlindOverwrite
