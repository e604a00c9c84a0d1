SPECIFICATION Spec
CONSTANTS
    ToolLists <- MCToolLists
    StaticLists <- MCStaticLists
    MaxChatter = 2
    CommandLines <- MCCommandLines
    SnakeCaseNames <- MCSnakeCaseNames
    DestructiveNames <- MCDestructiveNames
    ConfirmKeys <- MCConfirmKeys
    URLKeys <- MCURLKeys
    PathKeys <- MCPathKeys
INVARIANTS
    ExitCodeTellsOffence
    DriftReportedOnce
    ReportGrouped
    QuietLiveGate
    CleanExit
PROPERTIES
    ExitsByDeadline
