SPECIFICATION Spec
CONSTANTS
    Admins = {a, b}
    MaxSessions = 2
    Requests = {c1}
    NoOne = NoOne
INVARIANT NavbarFollows
PROPERTIES OnlyLateMeMixes SpinnerEnds HydrationEnds
CHECK_DEADLOCK FALSE
