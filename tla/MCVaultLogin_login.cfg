CONSTANTS
    c1 = c1
    c2 = c2
    c3 = c3
    Calls <- MCCalls
    Denied <- MCDenied
    Free = Free
CHECK_DEADLOCK FALSE
SPECIFICATION Spec
INVARIANTS LoginReplacesTheRefused OneExpiryIsSurvived
PROPERTY CallsEnd
