CONSTANTS
    Attempts = {a1, a2}
    Requests = {r1, r2}
    Accounts = {acct}
    Currencies = {usd}
    Provider = "stripe"
    MaxInvoices = 1
    Totals = {1}
    CreditAmounts = {}
    ManualAmounts = {}
    Delayed = FALSE
    Kinds = {"balance"}
    None = None
SPECIFICATION Spec
SYMMETRY Interchangeable
INVARIANTS
    OneReservation
    ClosedIsCertain
PROPERTIES
    ClosedStays
CHECK_DEADLOCK FALSE
