CONSTANTS
    Client = {c1, c2}
    Room = {ops, news}
SPECIFICATION RoomsSpec
INVARIANTS GhostsAreLateJoins
PROPERTIES MembershipSpec
CHECK_DEADLOCK FALSE
