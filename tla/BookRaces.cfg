SPECIFICATION Spec
CONSTANTS
    Tranches = {1, 2}
    Closes = {c1, c2}
    Processes = {timer, w1}
    Timer = timer
    SymbolOf <- OneSymbol
    Bought <- TwoThenOne
    UnitCost <- Ones
    Prices = {2}
    Step = 1
    InitialBalance = 3
    CloseTTL = 1
    MaxTime = 1
    None = None
SYMMETRY Symmetry
INVARIANTS
    TypeOK
    BookBalances
    OneActiveClose
PROPERTIES
    SellsWhatWasShown
    CloseIsFinal
