CONSTANTS
    u1 = u1
    c1 = c1
    c2 = c2
    s1 = s1
    s2 = s2
    n1 = n1
    n2 = n2
    Users <- OneUser
    Senders <- TwoSenders
    Notes <- TwoNotes
    Clients <- TwoClients
    UserOf <- OfTwo
    Cap = 1
CHECK_DEADLOCK FALSE
SPECIFICATION HubSafety
SYMMETRY Symmetry
INVARIANTS MapHoldsOpen PushedOnce
