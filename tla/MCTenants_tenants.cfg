CONSTANTS
    ExtIDs = {"acme"}
    DIDs = {"d1", "d2"}
    Keys = {"k1"}
    Buckets = {"b1"}
    NameOf <- MCNameOf
    Procs = {"console", "retries"}
    Serves <- MCServes
    Faults = {"error", "remote", "crash"}
    MaxFaults = 1
    Asked = {"disabled"}
    None = None
SPECIFICATION FairSpec
INVARIANTS TypeOK LiveTenantIsWhole NothingOutlivesTheRow CreatedBucketIsReachable
PROPERTIES RevokedWhileVerifiable DeletionConverges
