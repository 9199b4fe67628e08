SPECIFICATION Spec
CONSTANTS
    GoalIds = {g1}
    g1 = g1
    ContributionIds = {c1, c2, c3}
    c1 = c1
    c2 = c2
    c3 = c3
    Requests = {r1, r2}
    r1 = r1
    r2 = r2
    Amounts = {1, 2}
    MaxMinor = 4
    Edits = {}
    Unborn = Unborn
    Gone = Gone
SYMMETRY RowSymmetry
INVARIANT StatusInSync
CHECK_DEADLOCK FALSE
