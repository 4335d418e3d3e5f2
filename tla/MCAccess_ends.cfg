CONSTANTS
    Principals = {1}
    Actions = {"get", "put"}
    Commands = {"get", "put"}
    CommandsOf <- MCCommandsOf
    Procs = {"policies", "members", "removals"}
    Buckets = {1, 2}
    Keys = {1, 2}
    Docs <- NamedDocs
    Conds <- NoCondition
    Serves <- MCServes
    Faults = {}
SPECIFICATION EndsSpec
ACTION_CONSTRAINTS Sent InOrder
INVARIANTS GrantsMatchPolicy RowsHaveSecrets NoWaitCycle
PROPERTIES RequestsEnd OperationsAreAtomic
