CONSTANTS
    Principals = {1, 2}
    Actions = {"get", "put"}
    Commands = {"get", "put"}
    CommandsOf <- MCCommandsOf
    Procs = {"policies", "writes", "joiners"}
    Buckets = {1, 2}
    Keys = {}
    Docs <- PairDocs
    Conds <- Conditional
    Serves <- MCServes
    Faults = {}
SPECIFICATION Spec
INVARIANTS NoWaitCycle
PROPERTY CompareAndSet
