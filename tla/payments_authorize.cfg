CONSTANTS
    Attempts = {a1, a2}
    Requests = {r1}
    Accounts = {acct}
    Currencies = {usd,eur}
    Provider = "authorize_net"
    MaxInvoices = 1
    Totals = {1}
    CreditAmounts = {}
    ManualAmounts = {}
    Delayed = FALSE
    Kinds = {"balance"}
    None = None
SPECIFICATION Spec
SYMMETRY Interchangeable
INVARIANTS
    OneSession
    BooksBalance
    HeldEvidence
CHECK_DEADLOCK FALSE
