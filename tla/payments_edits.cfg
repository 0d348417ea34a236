CONSTANTS
    Attempts = {a1, a2}
    Requests = {r1}
    Accounts = {acct}
    Currencies = {usd}
    Provider = "stripe"
    MaxInvoices = 2
    Totals = {1}
    CreditAmounts = {1}
    ManualAmounts = {1}
    Delayed = FALSE
    Kinds = {"balance"}
    None = None
SPECIFICATION Spec
SYMMETRY Interchangeable
INVARIANTS
    TypeOK
    OverpaymentKnown
CHECK_DEADLOCK FALSE
