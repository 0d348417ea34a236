CONSTANTS
    Refunds = {re1, re2}
    Gateways = {"stripe", "authorize_net"}
    Amounts = {1, 2}
    Paid = 2
    Due = 2
    MaxCrashes = 1
SPECIFICATION LiveSpec
INVARIANTS
    BooksFollowRefunds
    PendingIsReviewed
PROPERTIES
    NoEarlierAnswer
    AnnouncedWhenPaid
    RefundsSettle
CHECK_DEADLOCK FALSE
