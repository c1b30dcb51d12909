SPECIFICATION FairSpec
CONSTANTS
    Units = {"ssh"}
    MainPIDs = {1, 2}
    MaxDBusFaults = 1
    Absent = Absent
    Dead = Dead
    NoGroup = NoGroup
    Empty = Empty
    Found = {"ssh"}
    NotFound = NotFound
    Configs = {0, 1}
    NoConfig = 0
    Bad = Bad
    Requests = {"loop"}
    Missing = Missing
PROPERTIES
    ReportedArrives
    StoppedLosesLabels
    LastConfigApplied
    LabelsCatchUp
CHECK_DEADLOCK FALSE
