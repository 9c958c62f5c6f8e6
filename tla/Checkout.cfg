SPECIFICATION CheckoutSpec
CONSTANTS
    Calls = {a, b}
    NoCall = NoCall
    MaxExpiries = 1
    MaxFaults = 1
CHECK_DEADLOCK FALSE
INVARIANTS
    CallsStayApart
PROPERTIES
    ImplementsBookCall
    EveryCallEnds
