SPECIFICATION PositionSpec
CONSTANTS
    Whole = 50
    Step = 5
    Settings <- MCSettings
    Symbols = {btc, eth}
    TrancheCap = 3
    EntryBound = 3
    CloseBound = 1
    MoveBound = 2
    Prices = {18, 20, 22}
    Noises = {2}
    Requests <- MCRequests
    Percentages = {50, 100}
    InitialBalance = 6000
    MinNotional = 300
SYMMETRY MCSymmetry
CHECK_DEADLOCK FALSE
INVARIANTS
    EntriesStayMonitorable
    RecordedRiskIsLossAtStop
PROPERTIES
    EntryWithinBothEquities
    SteadyProposalFills
