CONSTANTS
    Attempts = {a1}
    Requests = {r1, r2}
    Accounts = {m1,m2}
    Currencies = {usd}
    Provider = "stripe"
    MaxInvoices = 1
    Totals = {1}
    CreditAmounts = {}
    ManualAmounts = {}
    Delayed = FALSE
    Kinds = {"balance"}
    None = None
SPECIFICATION Spec
SYMMETRY Interchangeable
INVARIANTS
    OneSession
PROPERTIES
    KeepsPromise
CHECK_DEADLOCK FALSE
