SPECIFICATION WsSpec
CONSTANTS
    None = None
    Users = {a, b}
    Owners = {a}
    Names = {f, g}
    MaxCalls = 2
    ModeDbs = {pg}
    DsnDbs = {my}
    Pooled = {}
    MaxKeys = 1
    Small = {}
    Objects = {f}
    Tables = {f}
    Inherited = {}
    Projects = {f, g}
    MaxBuilds = 2
    MaxRows = 3
    Foreign = {b}
INVARIANTS PagesAgree WhoseIsShown OutcomeIsTold FfPasteKeepsOthers
PROPERTIES DbNoDsnOnlyTyped FfRestored BusyEnds
CHECK_DEADLOCK FALSE
