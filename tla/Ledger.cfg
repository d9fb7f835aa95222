SPECIFICATION Spec
CONSTANTS
    PaperProposals = {p1}
    LiveProposals = {l1, l2}
    LiveExits = {}
    Candidates = {c1, c2}
    Workers = {w1}
    MaxActive = 2
    ProposalTTL = 2
    CandidateTTL = 1
    LeaseTime = 1
    LockWait = 1
    DayLength = 2
    SinceMidnight = 1
    Quote <- UnitQuote
    MaxDailyQuote = 1
    MaxTime = 2
    None = None
SYMMETRY Symmetry
INVARIANTS
    TypeOK
    LiveQuotaRespected
    FillsMatchPositions
    ExecutingIsRecoverable
    OpenPositionsSinceReset
    OneProposalPerCandidate
PROPERTIES
    DecisionIsFinal
    ContractSpec
