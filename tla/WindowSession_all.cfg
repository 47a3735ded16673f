\* Two windows, a note and a document, two commands at once.
SPECIFICATION Spec
CONSTANTS
    Windows = {main, w1}
    Main = main
    Notes = {n1, n2}
    Documents = {d1}
    Tokens = {x1, x2}
    Threads = {t1, t2}
    None = None
SYMMETRY Symmetry
INVARIANT TypeOK
INVARIANT IndexMatchesSessions
INVARIANT WriteMeansEdit
INVARIANT RootsAreWorkspaces
INVARIANT NothingLeftBehind
PROPERTY WritesStayInTheSession
PROPERTY ImplementsOwnership
