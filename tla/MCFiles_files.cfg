SPECIFICATION Spec
CONSTANTS
    Documents <- MCDocuments
    Invalid <- MCInvalid
    Commands <- MCCommands
    MAXIMUM_INCLUDE_FILE_NESTING = 3
    Logs <- MCLogs
    AskedTypes <- MCAskedTypes
    Tail528 = 3
    MaxPasses = 3
    Known <- MCKnown
    InstanceField <- MCInstanceField
    Tlogs <- MCTlogs
    TypeSets <- MCTypes
    ThreeDays = 50
    StreamAge = 100
    SecondsBetweenFetches = 2
    MaxReadings = 2
    Tracks <- MCTracks
    Tenth = 1
INVARIANTS DialectsSound ReadsWhatWasWritten LogsRead TlogsRead ToolsSound
CHECK_DEADLOCK FALSE
