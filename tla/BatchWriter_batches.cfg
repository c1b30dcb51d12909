SPECIFICATION FairSpec
CONSTANTS
    LabelSets <- MCLabelSets
    MaxWrites = 3
    MaxAttempts = 2
INVARIANTS
    EachProfileOnce
    SeriesInOrder
    StoredUnderItsLabels
PROPERTY
    EveryProfileSettled
\* Run may have returned when the profiling loop has written its last profile.
CHECK_DEADLOCK FALSE
