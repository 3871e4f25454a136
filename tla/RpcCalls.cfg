SPECIFICATION FairSpec
CONSTANTS
    c1 = c1
    Caller = {c1}
    Service = {"users", "mail"}
    Thrown = {"missing", "plain"}
    Times = 3
INVARIANT OutcomeIsOfLastAttempt
PROPERTY CallSettles
CHECK_DEADLOCK FALSE
