SPECIFICATION FairSpec
CONSTANTS
    Templates = {t1}
    t1 = t1
    Passes = {p1}
    p1 = p1
    Scopes = {user}
    user = user
    Horizon = 3
    Periods = {1}
    Never = Never
    Ends = {Never, 1}
    MaxCatchUp = 2
    MaxRows = 2
    Edits = {"end"}
    Faults = {}
    Keep = Keep
PROPERTY MissedOccurrencesGenerated
