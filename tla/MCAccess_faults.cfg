CONSTANTS
    Principals = {1}
    Actions = {"get", "put"}
    Commands = {"get", "put"}
    CommandsOf <- MCCommandsOf
    Procs = {"writes", "keys", "principals"}
    Buckets = {1}
    Keys = {1}
    Docs <- WildDocs
    Conds <- NoCondition
    Serves <- MCServes
    Faults = {"timeout", "publish", "error", "crash"}
SPECIFICATION Spec
INVARIANTS TypeOK NamedAreLive KeysHaveLiveOwners GrantsMatchPolicy NoWaitCycle
PROPERTIES RevokedBeforeGone OperationsAreAtomic
