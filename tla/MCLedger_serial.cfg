\* Every operation at once; no two edits of one row or group overlap.
SPECIFICATION Spec
CONSTANTS
    Accounts = {a1, a2}
    TxnIds = {t1, t2}
    TransferIds = {m1}
    Requests = {r1, r2}
    Amounts = {1, 2}
    Openings <- MCOpenings
    MaxMinor = 2
    MaxLegs = 2
    Ops = {"create", "update", "delete", "transfer", "deleteTransfer"}
    OverlappingEdits = FALSE
    Keep = Keep
    Unborn = Unborn
    Gone = Gone
SYMMETRY RowSymmetry
INVARIANTS TypeOK BalanceMatchesLedger
PROPERTIES ImplementsAtomicLedger
CHECK_DEADLOCK FALSE
