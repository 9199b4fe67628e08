\* Two overlapping updates of one row.
SPECIFICATION Spec
CONSTANTS
    Accounts = {a1, a2}
    TxnIds = {t1, t2}
    TransferIds = {}
    Requests = {r1, r2}
    Amounts = {1}
    Openings <- MCOpenings
    MaxMinor = 2
    MaxLegs = 2
    Ops = {"create", "update"}
    OverlappingEdits = TRUE
    Keep = Keep
    Unborn = Unborn
    Gone = Gone
SYMMETRY RowSymmetry
INVARIANTS BalanceMatchesLedger
CHECK_DEADLOCK FALSE
