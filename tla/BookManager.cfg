SPECIFICATION Spec
CONSTANTS
    o1 = o1
    o2 = o2
    s1 = s1
    s2 = s2
    None = None
    Price = {1, 2}
    OrderId <- MCOrderId
    Symbol <- MCSymbol
    SymbolsOf <- MCSymbolsOf
    MaxQuantity = 2
    QuantityRange = 8
INVARIANTS
    LevelTotals
    UpdateIsTop
    RestingIsRouted
