SPECIFICATION Spec
CONSTANTS
    Symbol = {s1}
    Price = {0, 1, 2}
    Quantity = {0, 1, 2}
    MarkPrice = {2}
    MaxOrders = 2
    MaxPartialFills = 2
INVARIANTS
    JournalExplainsState
    AccountsAgree
PROPERTIES
    OnlyOpenOrdersMakeProfit
