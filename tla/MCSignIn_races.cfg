CONSTANTS
    ann = ann
    ben = ben
    OneAsk = ask
    Emails = {ann, ben}
    Asks = {ask, again}
    Proofs = {p1, p2}
    Claimed = {ann}
    MaxChallenges = 4
    MaxAccounts = 3
    MaxClock = 3
    MaxAborts = 1
    MaxPerHour = 2
    HourCap = 2
    DayCap = 2
    MaxAttempts = 2
    Ttl = 1
    Hour = 1
    Day = 2
    SessionTtl = 1
    NoOne = noone
SPECIFICATION MCSpec
INVARIANTS
    OneSessionPerChallenge
    LimitsHeld
    SessionsAreHoused
SYMMETRY
    Interchangeable
CHECK_DEADLOCK FALSE
