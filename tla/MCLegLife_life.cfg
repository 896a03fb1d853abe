\* Two requests at once on two positions, up to two options and a run.
SPECIFICATION Spec
CONSTANTS
    None = None
    Clients = {c1, c2}
    Indexes = {0, 1}
    Wanted = {{0}, {0, 1}}
    NewDates <- MCNewDates
    Patches <- MCPatches
    Emits <- MCEmits
    ManualPrices <- MCManualPrices
    HomeCurrency = "home"
    MaxLegs = 2
    MaxRows = 3
    MaxImports = 1
    OnePatchAtATime = TRUE
SYMMETRY ClientSymmetry
INVARIANTS
    TypeOK
    OneLegPerIndex
    DatesAgree
    RowsHaveTheirLeg
    PricesAreQuoted
PROPERTIES
    DeletionTakesNothing
\* Every option may be held and every run over.
CHECK_DEADLOCK FALSE
