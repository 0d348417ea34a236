CONSTANTS
    Attempts = {a1}
    Requests = {r1}
    Accounts = {acct}
    Currencies = {usd}
    Provider = "stripe"
    MaxInvoices = 1
    Totals = {2}
    CreditAmounts = {}
    ManualAmounts = {1}
    Delayed = FALSE
    Kinds = {"balance"}
    None = None
SPECIFICATION Spec
SYMMETRY Interchangeable
PROPERTIES
    ManualPaymentHolds
CHECK_DEADLOCK FALSE
