SPECIFICATION MCSpec
CONSTANTS
    GoalIds = {g1}
    g1 = g1
    a = a
    b = b
    c = c
    r1 = r1
    r2 = r2
    m1 = m1
    m2 = m2
    ContributionIds = {a, b, c}
    Requests = {r1, r2}
    Amounts = {1, 2}
    MaxMinor = 4
    Edits = {"retarget", "status", "delete"}
    Unborn = Unborn
    Gone = Gone
    Ids = {a, b, c}
    Writers = {r1, r2}
    Overlapping = TRUE
    NoParent = NoParent
    Uncreated = Uncreated
    EntryIds = {e1}
    e1 = e1
    Updates = {r1, r2}
    Same = Same
    NoEntry = NoEntry
    MailTokens = {m1, m2}
    MailRequests = {r1, r2}
    NoMailToken = NoMailToken
    InitialPassword = InitialPassword
    RowIds = {i1}
    i1 = i1
    Slots = {r1, r2}
    FirstRows <- MCFirstRows
    Absent = Absent
    NewRow = NewRow
    TxnIds = {m1, m2}
    TxnRows <- MCTxnRows
    PageSize = 1
    Calls = {r1, r2}
    LastPage = 2
    NoTxn = NoTxn
SYMMETRY RequestSymmetry
CHECK_DEADLOCK FALSE
INVARIANTS TypeOK CurrentMatchesContributions SameTypeNesting DraftIsNeverRefused
INVARIANTS EffectOnce EffectsAccountedFor
INVARIANTS PageInStep PageShownIsPageAsked WalkShowsEachRowOnce
PROPERTIES FreshCommitsKeepStatus FreshCommitsKeepArchived OnlyStaleMovesLoseCategories
PROPERTIES MismatchHasAReason UntouchedSaveKeepsRow
