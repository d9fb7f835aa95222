SPECIFICATION LiveSpec
CONSTANTS
    PaperProposals = {}
    LiveProposals = {entry, sale, cancel, restore}
    LiveExits = {sale, cancel, restore}
    Cancels = {cancel}
    Restores = {restore}
    Candidates = {c1}
    Workers = {w1, w2}
    MaxActive = 1
    ProposalTTL = 1
    CandidateTTL = 2
    LeaseTime = 1
    LockWait = 1
    DayLength = 2
    SinceMidnight = 0
    Quote <- UnitQuote
    MaxDailyQuote = 1
    MaxTime = 3
    None = None
SYMMETRY Symmetry
INVARIANTS
    OneWritePerApproval
    OutcomeMatchesExchange
    FillIsEvidenced
