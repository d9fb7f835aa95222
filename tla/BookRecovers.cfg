SPECIFICATION LiveSpec
CONSTANTS
    Tranches = {1}
    Closes = {c1}
    Processes = {timer, w1}
    Timer = timer
    SymbolOf <- OneSymbol
    Bought <- TwoThenOne
    UnitCost <- Ones
    Prices = {2}
    Step = 1
    InitialBalance = 3
    CloseTTL = 1
    MaxTime = 1
    None = None
PROPERTIES
    CloseIsResolved
