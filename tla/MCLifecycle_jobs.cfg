CONSTANTS
    NoTx = NoTx
    NoEnd = NoEnd
    Webhook = webhook
    Owner <- MCOwner
    Length <- MCLength
    alice = alice
    bob = bob
    month = month
    other = other
    Accounts = {alice, bob}
    Operators = {}
    Payments = {month, other}
    Returns = {r1}
    Cancels = {k1}
    Faults = {}
    MaxClock = 2
    MaxCredits = 1
    Stages <- MCStages
    MaxAborts = 1
SPECIFICATION MCFairSpec
INVARIANTS
    MailedOnce
PROPERTIES
    PaidIsActivated
    
CHECK_DEADLOCK FALSE
