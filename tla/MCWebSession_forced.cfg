SPECIFICATION MCSpec
CONSTANTS
    Tokens = {k1, k2, k3}
    k1 = k1
    k2 = k2
    k3 = k3
    Calls = {c1, c2}
    c1 = c1
    c2 = c2
    Tabs = {t1}
    t1 = t1
    Requests = {r1, r2}
    r1 = r1
    r2 = r2
    None = None
    Faults = {"retry"}
CHECK_DEADLOCK FALSE
PROPERTY ForcedOutOnlyWhenGone
