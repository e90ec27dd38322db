CONSTANTS
    NoTx = NoTx
    NoEnd = NoEnd
    Webhook = webhook
    Owner <- MCOwner
    Length <- MCLength
    alice = alice
    month = month
    year = year
    Accounts = {alice}
    Operators = {}
    Payments = {month}
    Returns = {r1}
    Cancels = {}
    Faults = {}
    MaxClock = 1
    MaxCredits = 2
SPECIFICATION Spec
INVARIANTS
    ActivatedOnce
CHECK_DEADLOCK FALSE
