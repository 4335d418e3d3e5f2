CONSTANTS
    MaxBodySize = 8388608
    MaxEntries = 1000
    People = {1}
    Cases <- MCCases
    Alterations <- MCAlterations
SPECIFICATION Spec
CHECK_DEADLOCK FALSE
INVARIANT WriteLockedWritesRefused
