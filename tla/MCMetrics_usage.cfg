CONSTANTS
    Names = {1, 2, 3}
    Limits = {1, 2}
    Second = 2
    Window = 2
    Asked <- MCAsked
    Now = 9
    Clocks = {5, 7, 9}
    LastTick = 12
CHECK_DEADLOCK FALSE
SPECIFICATION Spec
INVARIANTS TotalsAreWhole SeriesIsComplete
PROPERTY PagesMakeAListing
