CONSTANTS
    Principals = {1}
    Actions = {"get", "put"}
    Commands = {"get", "put"}
    CommandsOf <- MCCommandsOf
    Procs = {"policies", "members", "buckets"}
    Buckets = {1}
    Keys = {1}
    Docs <- MCDocs
    Conds <- NoCondition
    Serves <- MCServes
    Faults = {}
SPECIFICATION Spec
PROPERTY RevokedBeforeGone
