\* Edits of one row overlap freely.
SPECIFICATION Spec
CONSTANTS
    Accounts = {a1, a2}
    TxnIds = {t1, t2}
    TransferIds = {}
    Requests = {r1, r2}
    Amounts = {1}
    Openings <- MCOpenings
    MaxMinor = 1
    MaxLegs = 2
    Ops = {"create", "update", "delete", "archive"}
    OverlappingEdits = TRUE
    Keep = Keep
    Unborn = Unborn
    Gone = Gone
SYMMETRY RowSymmetry
PROPERTIES DriftOnlyFromStaleRead
CHECK_DEADLOCK FALSE
