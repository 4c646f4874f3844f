SPECIFICATION MCSpec
CONSTANTS
    Looked = "kp"
    None = None
    Users = {a, b}
    Owners = {a, b}
    Names = {f, g}
    MaxCalls = 2
    ModeDbs = {pg}
    DsnDbs = {my}
    Pooled = {}
    MaxKeys = 1
    Small = {f}
    Objects = {f, g}
    Tables = {f, g}
    Inherited = {f}
    Projects = {f, g}
    MaxBuilds = 2
    MaxRows = 2
    Foreign = {b}
PROPERTY CreatedIsShown
CHECK_DEADLOCK FALSE
