SPECIFICATION Spec
CONSTANTS
    Items <- MCItems
    Lists <- MCLists
    MissionFiles <- MCMissionFiles
    HaveProtobuf = TRUE
    MaxItems = 3
    Places = {1, 2, 3}
    RallyFiles <- MCRallyFiles
    FenceFiles <- MCFenceFiles
    MaxRally = 2
    MaxPoints = 4
    Names = {"A", "B"}
    Excluded = {"X"}
    ParmFiles <- MCParmFiles
    Values = {0, 1}
    Retries = 2
    Polls = 1
    MaxStray = 2
    MaxSets = 3
    MaxCalls = 2
    Size <- MCSize
    Local = {3}
    Directory <- MCDirectory
    ReadOffsets = {0}
    Commands = {"get", "put", "read", "list", "Rename"}
    burst_read_size = 2
    write_size = 1
    write_qsize = 2
    MaxPayload = 3
    ServerBurst = 3
    RetryTime = 1
    ReadRetryTime = 2
    IdleTime = 3
    MaxLoss = 2
    MaxLate = 1
    Careful = TRUE
    Tasks <- MCTasks
    Known <- MCKnown
    Few = 1
    Compare = TRUE
    PageSize = 2
    Remotes <- MCRemotes
    MaxNews = 1
    FrameTable <- MCFrameTable
INVARIANTS ListsSound FilesSound TransfersSound DoneMeansDone
PROPERTIES PointsSound SetsReach CallsEnd
CHECK_DEADLOCK FALSE
