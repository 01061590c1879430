SPECIFICATION Spec
CONSTANTS
    MaxOrders = 2
    MaxInFlight = 2
    Price = {1, 2}
    MaxQuantity = 2
    QuantityRange = 8
    Symbol = {s1, s2}
    None = None
INVARIANTS
    BooksMirror
CHECK_DEADLOCK FALSE
