\* The price of a locked activity is overridden.
CONSTANTS
    None = None
    hotelA = hotelA
    hotelB = hotelB
    tour = tour
    unpriced = unpriced
    c1 = c1
    c2 = c2
    Cards = {tour}
    OptionTypeOf <- MCOptionTypeOf
    BasePrice <- MCBasePrice
    Parties = {1, 3}
    Amounts = {6}
    Clients = {c1}
    MaxLocks = 1
    MaxEvents = 3
    OneAtATime = TRUE
SPECIFICATION Spec
INVARIANT BudgetShowsLockedPrices
\* Every lock row may be used up and unlocked.
CHECK_DEADLOCK FALSE
