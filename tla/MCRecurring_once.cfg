SPECIFICATION FairSpec
CONSTANTS
    Templates = {t1, t2}
    t1 = t1
    t2 = t2
    Passes = {p1, p2}
    p1 = p1
    p2 = p2
    Scopes = {user}
    user = user
    Horizon = 2
    Periods = {1}
    Never = Never
    Ends = {Never, 1}
    MaxCatchUp = 1
    MaxRows = 2
    Edits = {"end", "category", "delete"}
    Faults = {"release"}
    Keep = Keep
INVARIANT AtMostOnce
PROPERTY OpenEndedCaughtUp
