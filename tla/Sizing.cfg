SPECIFICATION Spec
CONSTANTS
    Step = 2
    Holdings <- MCHoldings
    Histories <- MCHistories
    MaxTranches = 3
    MaxHeld = 7
    Whole = 100
    MaxFills = 5
    Configurations <- MCConfigurations
    Accounts <- MCAccounts
    Markets <- MCMarkets
    Prices = {100}
    Noises = {3, 8, 11}
    Amounts <- MCAmounts
INVARIANTS
    AgreesWithLoop
    FairToAStep
    SizingAgreesWithEvaluator
    PreparedTermsRevalidate
    LateEntryWithinBothEquities
    SessionLossIsFirstInFirstOut
    InferredRiskIsApproved
