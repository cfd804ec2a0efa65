SPECIFICATION Spec
CONSTANTS
    Codes = {"CASH", "OPENING"}
    Currencies = {"usd", "eur"}
    LedgerAccounts <- MCLedgerAccounts
    Amounts = {0, 1, 2}
    MaxLines = 3
    Callers = {c1, c2}
    MaxTransactions = 2
INVARIANTS
    TypeOK
    TransactionsBalance
PROPERTIES
    ImplementsTotals
CHECK_DEADLOCK FALSE
