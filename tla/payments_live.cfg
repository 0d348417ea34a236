CONSTANTS
    Attempts = {a1}
    Requests = {r1}
    Accounts = {acct}
    Currencies = {usd}
    Provider = "stripe"
    MaxInvoices = 2
    Totals = {1, 2}
    CreditAmounts = {}
    ManualAmounts = {}
    Delayed = TRUE
    Kinds = {"deposit","balance"}
    None = None
SPECIFICATION LiveSpec
PROPERTIES
    ChargeIsBooked
CHECK_DEADLOCK FALSE
