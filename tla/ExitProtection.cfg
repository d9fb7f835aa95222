\* One exit of each kind, overlapping on the bracket of one entry.
SPECIFICATION Spec
CONSTANTS
    None = None
    Partials = {p1}
    Cancels = {c1}
    Restores = {r1}
    Closes = {x1}
    Entries = {e1}
    Holding = 2
    Other = 1
    MinQuantity = 1
    Percentages = {50}
CHECK_DEADLOCK FALSE
INVARIANTS
    ReleasedIsKnown
    ExecutedIsComplete
    SoldOnlyReleased
