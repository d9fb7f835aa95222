SPECIFICATION ApprovalSpec
CONSTANTS
    PaperProposals = {p1, p2, p3}
    LiveProposals = {}
    LiveExits = {}
    Candidates = {c1, c2, c3}
    Workers = {w1, w2}
    MaxActive = 2
    MaxTranches = 1
    MaxEntries = 1
    ProposalTTL = 1
    CandidateTTL = 1
    LeaseTime = 1
    LockWait = 0
    DayLength = 2
    SinceMidnight = 0
    Quote <- UnitQuote
    MaxDailyQuote = 1
    MaxTime = 1
    None = None
SYMMETRY Symmetry
INVARIANTS
    EntriesWithinLimits
    ActiveWithinCap
