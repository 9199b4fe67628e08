SPECIFICATION ClientsSpec
CONSTANTS
    Tokens = {k1, k2, k3}
    k1 = k1
    k2 = k2
    k3 = k3
    Calls = {c1, c2}
    c1 = c1
    c2 = c2
    Tabs = {t1, t2}
    t1 = t1
    t2 = t2
    Requests = {r1, r2}
    r1 = r1
    r2 = r2
    None = None
    Faults = {"server", "expiry", "lost", "reload", "retry"}
    ToolCalls = {c1, c2}
    Asked <- MCAsked
    MaxAccessTokens = 3
    FixedToken = FALSE
CHECK_DEADLOCK FALSE
SYMMETRY AllSymmetry
INVARIANT TypeOK
INVARIANT JarStaysLive
PROPERTIES ClosedFamilyStaysClosed LogoutClosesSession
INVARIANTS CallBooksOnce RetryCarriesNewToken AmountsArrive
