\* One permit, windows that convert again, and sources that change.
SPECIFICATION Spec
CONSTANTS
    Windows = {w1}
    Jobs = {1, 2}
    MaxActive = 1
    MaxEdits = 2
    None = None
    Missing = Missing
\* The windows may all be closed, and jobs run out.
CHECK_DEADLOCK FALSE
INVARIANT TypeOK
INVARIANT NoTempLeak
INVARIANT SavedIsCurrent
PROPERTY CancelEnds
PROPERTY ConversionEnds
