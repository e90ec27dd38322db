CONSTANTS
    NoTx = NoTx
    NoEnd = NoEnd
    Webhook = webhook
    Owner <- MCOwner
    Length <- MCLength
    alice = alice
    bob = bob
    month = month
    year = year
    other = other
    Accounts = {alice, bob}
    Operators = {}
    Payments = {month, year, other}
    Returns = {}
    Cancels = {}
    Faults = {"outage"}
    MaxClock = 2
    MaxCredits = 2
SPECIFICATION Spec
PROPERTIES
    
    ImplementsLedger
CHECK_DEADLOCK FALSE
