SPECIFICATION Spec
CONSTANTS
    Full = 4
    LogicalMin = 0
    LogicalMax = 8
    RawValues <- MCRawValues
    Unit = 2
    PadMotion = 2
    StickParameters <- MCStickParameters
    ReportDevices <- MCReportDevices
    HidReports <- MCReports
    ReportMotion = 3
    ScrollOptions <- MCScrollOptions
    Motions <- MCMotions
    MotionDevices = {1, 2}
    MaxMotions = 3
    MaxScrollTime = 5
    None = None
    Running <- MCRunning
    ByAgent = {"frontmost_application"}
    ByServer = {"input_source"}
    MaxEvents = 2
INVARIANTS  EveryMotionValueCounts DpadFollowsHatSwitch ScrollsInOneDirection EntriesHaveTimer
PROPERTIES ObserversCatchUp EnvironmentCatchesUp ClosedClientsLeaveNothing
CHECK_DEADLOCK FALSE
