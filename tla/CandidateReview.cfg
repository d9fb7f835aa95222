SPECIFICATION ReviewSpec
CONSTANTS
    PaperProposals = {p1}
    LiveProposals = {}
    LiveExits = {}
    c1 = c1
    c2 = c2
    Candidates = {c1, c2}
    Workers = {w1, w2}
    MaxActive = 1
    ProposalTTL = 1
    CandidateTTL = 1
    LeaseTime = 1
    LockWait = 0
    DayLength = 2
    SinceMidnight = 0
    Quote <- NoQuote
    MaxDailyQuote = 0
    MaxTime = 2
    CandleOf <- OneThenTwo
    CandleLength = 1
    Cooldown = 0
    MaxDispatches = 2
    None = None
INVARIANTS
    AnsweredMeansEnded
PROPERTIES
    RestsOnItsCandle
    SilenceMeansButtons
    ReviewIsAnswered
CHECK_DEADLOCK FALSE
