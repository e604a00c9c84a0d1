SPECIFICATION Spec
CONSTANTS
    ToolLists <- MCToolLists
    StaticLists <- MCStaticLists
    MaxChatter = 1
    CommandLines <- MCCommandLines
    SnakeCaseNames <- MCSnakeCaseNames
    DestructiveNames <- MCDestructiveNames
    ConfirmKeys <- MCConfirmKeys
    URLKeys <- MCURLKeys
    PathKeys <- MCPathKeys
INVARIANTS
    LiveGate
