\* One option from before the run and one it finds, and two clicks.
SPECIFICATION Spec
CONSTANTS
    None = None
    before = before
    found = found
    Old = {before}
    New = {found}
    Lockable = {before}
    VotedUp = {found}
    MaxClicks = 2
    Clickable <- MCClickable
INVARIANTS
    TypeOK
    PageShowsMine
    OptionsStayListed
\* The page may show everything and nobody click again.
CHECK_DEADLOCK FALSE
