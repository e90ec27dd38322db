CONSTANTS
    NoTx = NoTx
    NoEnd = NoEnd
    Webhook = webhook
    Owner <- MCOwner
    Length <- MCLength
    alice = alice
    month = month
    year = year
    Accounts = {alice}
    Operators = {}
    Payments = {month, year}
    Returns = {r1}
    Cancels = {k1}
    Faults = {"abort", "outage"}
    MaxClock = 0
    MaxCredits = 2
SPECIFICATION Spec
INVARIANTS
    TypeOK
    NoUnpaidActivation
    GrantedBeforeTaken
PROPERTIES
    StatusOnlyForward
CHECK_DEADLOCK FALSE
