\* Two calls at a time about one entry: both start states, one renewal of the
\* authorization, a block that opens or ends, and every order of their steps.
SPECIFICATION Spec
CONSTANTS
    Workers = {w1, w2}
    Entries = {e1}
    AuthTime = 1
    ChallengeTime = 1
    TicketTime = 1
    ProofTime = 1
    BlockTime = 1
    ArmTime = 1
    MaxTime = 1
    MaxGrants = 2
    MaxTickets = 1
    MaxEpochEvents = 3
    MaxLaunches = 2
    SharedSymbol = FALSE
    None = None
    Unknown = Unknown
SYMMETRY WorkerSymmetry
CHECK_DEADLOCK FALSE
INVARIANTS
    SentVouched
