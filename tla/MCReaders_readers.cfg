CONSTANTS
    Principals = {1}
    Actions = {"get", "put"}
    Commands = {"get", "put"}
    CommandsOf <- MCCommandsOf
    CleanupCommands = {"put"}
    Procs = {"writes", "owners"}
    Buckets = {1}
    Keys = {1}
    Docs <- SwapDocs
    Conds <- NoCondition
    Serves <- MCServes
    Faults = {"timeout"}
SPECIFICATION ReadersSpec
INVARIANTS InfoIsOneRevision AnsweredFromTheNewState UsableIsJustified
