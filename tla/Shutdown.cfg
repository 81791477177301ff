\* Three workers, as by default, and two requests in flight.
CONSTANTS
    w1 = w1
    w2 = w2
    w3 = w3
    c1 = c1
    c2 = c2
    Workers = {w1, w2, w3}
    Conns = {c1, c2}
SPECIFICATION Spec
INVARIANTS
    WorkersHaveClients
    RequestsHaveClients
    LogOutlivesUsers
    LogTellsAnswer
PROPERTY SignalExits
