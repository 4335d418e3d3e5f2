---------------------------- MODULE AccessStore ----------------------------
(***************************************************************************)
(* What the access-control services of one tenant share: the committed     *)
(* tables of the Postgres backend, the vault's access-key entries, the     *)
(* revocation service's record, the locks, and the request each handler is *)
(* serving.                                                                *)
(*                                                                         *)
(* A handler writes inside a transaction.  What it has written and not     *)
(* committed is in its own call record, and the commit step puts it in the *)
(* tables at once: a read through the pool sees committed rows only, even  *)
(* from inside the transaction's callback.  Locks go when the transaction  *)
(* ends.                                                                   *)
(*                                                                         *)
(* Principals, buckets and keys are numbers: the stores take their locks   *)
(* in the order of the ids.                                                *)
(***************************************************************************)
EXTENDS PolicyDoc, PgLock, FiniteSets

CONSTANTS
    Procs,     \* the handlers at work (request goroutines)
    Buckets,   \* bucket ids of the tenant
    Keys,      \* ids of principal-bound access keys; each is generated once
    Docs,      \* the documents callers send
    Conds,     \* the preconditions callers send with a write
    Serves,    \* the kinds of request each handler takes
    Faults     \* the faults of this instance

Kinds == {"writePolicy", "removePolicy", "createPrincipal", "removePrincipal",
          "createKey", "deleteKey", "deleteBucket"}

ASSUME BucketsAssumption == Buckets \subseteq Nat \ {0}
ASSUME KeysAssumption == Keys \subseteq Nat \ {0}
ASSUME DocsAssumption == Docs \subseteq Documents \ {NoPolicy}
ASSUME CondsAssumption == Conds \subseteq Conditions
ASSUME ServesAssumption == Serves \in [Procs -> SUBSET Kinds]
ASSUME FaultsAssumption == Faults \subseteq {"timeout", "publish", "error", "crash"}

VARIABLES
    principal,  \* principal table: "absent", "live" or "removed" (deleted_at set)
    buckets,    \* bucket table: the buckets that exist
    policy,     \* bucket_policy table (the index rows follow from it)
    keyRow,     \* access_key table: the keys that have a row
    owner,      \* the principal each generated key is bound to
    held,       \* delegation table: the commands each key holds over each bucket
    revoked,    \* the (key, bucket) pairs whose stored delegations are revoked
    secrets,    \* the keys whose private key the vault holds
    returned,   \* the keys whose creation answered its caller
    excused,    \* history: pairs a rotation or a removal has let go of, see below
    locks,      \* the locks held
    call        \* the request each handler is serving

tables == <<principal, buckets, policy, keyRow, owner, held, revoked, secrets, returned, excused>>
vars == <<principal, buckets, policy, keyRow, owner, held, revoked, secrets, returned,
          excused, locks, call>>

-----------------------------------------------------------------------------
None == 0     \* no principal, bucket or key

Labels == {"idle", "tenant", "named", "bucket", "bucketRow", "row", "relist", "lockP",
           "load", "lockK", "publish", "commit",
           "rvLoad", "rvLock", "rvPublish", "rvCommit", "stripList", "strip",
           "tomb", "tombCheck", "tombKeys", "tombLock", "tombPublish", "tombSecrets",
           "tombCommit",
           "addTenant", "addRow", "addGet",
           "ckPrincipal", "ckSecret", "ckAdd", "ckSnap", "ckRows", "ckStore", "ckGet",
           "rbGrants", "rbRow", "rbSecret",
           "kdLock", "kdPublish", "kdCommit", "kdSecret",
           "dbLock", "dbRevoke", "dbAudiences", "dbLockK", "dbDelete", "dbCommit"}

\* How the last request ended: with its result or an error the API has a code
\* for, or with an internal error.
Results == {"answered", "internal"}

CallRecords ==
    [pc : Labels, kind : Kinds \cup {"none"}, bucket : Buckets \cup {None},
     doc : Documents, match : Conditions, old : Documents,
     principal : Principals \cup {None}, key : Keys \cup {None},
     want : SUBSET Nat, todo : SUBSET Buckets, aff : SUBSET Principals,
     keys : SUBSET Keys, fresh : SUBSET Keys, snap : [Buckets -> Documents],
     res : Results]

\* The steps that are about a principal, a bucket or a key.
OfPrincipal == {"addTenant", "addRow", "addGet", "rvLoad", "rvLock", "rvPublish", "rvCommit",
                "stripList", "strip", "tomb", "tombCheck", "tombKeys", "tombLock",
                "tombPublish", "tombSecrets", "tombCommit",
                "ckPrincipal", "ckSecret", "ckAdd", "ckSnap", "ckRows", "ckStore"}
OfBucket == {"tenant", "named", "bucket", "bucketRow", "row", "relist", "lockP", "load",
             "lockK", "publish", "commit",
             "dbLock", "dbRevoke", "dbAudiences", "dbLockK", "dbDelete", "dbCommit"}
OfKey == {"ckAdd", "ckSnap", "ckRows", "ckStore", "ckGet", "rbGrants", "rbRow", "rbSecret",
          "kdLock", "kdPublish", "kdCommit", "kdSecret"}

Aimed(c) ==
    /\ c.kind = "removePrincipal" \/ c.pc \in OfPrincipal => c.principal \in Principals
    /\ c.pc \in OfBucket => c.bucket \in Buckets
    /\ c.pc \in OfKey => c.key \in Keys
    /\ c.pc = "named" => c.want \subseteq Principals

Calls == {c \in CallRecords : Aimed(c)}

Resources == {<<"tenant", None>>}
             \cup {"principal"} \X Principals
             \cup {"bucket", "bucketRow", "policyRow"} \X Buckets
             \cup {"audience", "keyRow"} \X Keys

Locks == [by : Procs, on : Resources, mode : Modes]

TablesOK ==
    /\ principal \in [Principals -> {"absent", "live", "removed"}]
    /\ buckets \subseteq Buckets
    /\ policy \in [Buckets -> Documents]
    /\ keyRow \subseteq Keys
    /\ owner \in [Keys -> Principals \cup {None}]
    /\ held \in [Keys -> [Buckets -> SUBSET Commands]]
    /\ revoked \subseteq Keys \X Buckets
    /\ secrets \subseteq Keys
    /\ returned \subseteq Keys
    /\ excused \subseteq Keys \X Buckets

\* The tables and the locks hold what their columns may hold, and every request is
\* at a step of the code with what that step works on.
TypeOK ==
    /\ TablesOK
    /\ locks \subseteq Locks
    /\ call \in [Procs -> Calls]

NoDocs == [b \in Buckets |-> NoPolicy]

Idle(res) == [pc |-> "idle", kind |-> "none", bucket |-> None, doc |-> NoPolicy,
              match |-> Unconditional, old |-> NoPolicy, principal |-> None,
              key |-> None, want |-> {}, todo |-> {}, aff |-> {}, keys |-> {},
              fresh |-> {}, snap |-> NoDocs, res |-> res]

Init ==
    /\ principal = [p \in Principals |-> "absent"]
    /\ buckets = Buckets
    /\ policy = NoDocs
    /\ keyRow = {}
    /\ owner = [k \in Keys |-> None]
    /\ held = [k \in Keys |-> [b \in Buckets |-> {}]]
    /\ revoked = {} /\ secrets = {} /\ returned = {} /\ excused = {}
    /\ locks = {}
    /\ call = [s \in Procs |-> Idle("answered")]

-----------------------------------------------------------------------------
(***************************************************************************)
(* Reads through the pool.                                                 *)
(***************************************************************************)
ListIDsByTenant == {p \in Principals : principal[p] = "live"}

KeysOf(ps) == {k \in keyRow : owner[k] \in ps}

ListByPrincipal(p) == {b \in Buckets : policy[b] # NoPolicy /\ Listed(policy[b], p)}

Holds(k) == \E b \in Buckets : held[k][b] # {}

-----------------------------------------------------------------------------
(***************************************************************************)
(* Control of one handler: where it is, the locks it takes and how it      *)
(* ends.                                                                   *)
(***************************************************************************)
At(s, label) == call[s].pc = label

Goto(s, label) == call' = [call EXCEPT ![s].pc = label]

Begin(s, kind) == At(s, "idle") /\ kind \in Serves[s]

Take(s, res, mode) ==
    /\ CanLock(locks, s, res, mode)
    /\ locks' = Granted(locks, s, res, mode)

Release(s) == locks' = Released(locks, s)

\* The store errors each service has an answer for (writeError, Create and Delete
\* of the principal and access-key services); the handler turns the rest into an
\* internal error.
Known(kind) ==
    CASE kind \in {"writePolicy", "removePolicy"} ->
            {"precondition", "concurrent", "notfound", "invalid"}
      [] kind = "removePrincipal" -> {"precondition", "concurrent"}
      [] kind = "createKey" -> {"concurrent", "invalid"}
      [] kind \in {"createPrincipal", "deleteKey"} -> {"concurrent"}
      [] OTHER -> {}

Outcome(s, err) == IF err \in Known(call[s].kind) THEN "answered" ELSE "internal"

Finish(s, res) == call' = [call EXCEPT ![s] = Idle(res)]

\* An error: the transaction rolls back and the call ends, or, for a key creation
\* past its vault write, takes back what it has done.
Fail(s, err) ==
    /\ Release(s)
    /\ IF call[s].kind = "createKey" /\ call[s].key # None
       THEN call' = [call EXCEPT ![s].pc = "rbGrants", ![s].res = Outcome(s, err)]
       ELSE Finish(s, Outcome(s, err))

\* Mutant of Next1: the ids in any order.
AnyNext(s, x) == x \in call[s].want

\* The next id of the handler's lock list, in the order of the ids.
Next1(s, x) == x \in call[s].want /\ \A y \in call[s].want : x <= y

\* Where a loop over the lock list goes on once x is done.
Looped(s, x, here, next) ==
    [call EXCEPT ![s].want = @ \ {x},
                 ![s].pc = IF call[s].want = {x} THEN next ELSE here]

\* Take the exclusive delegation locks of the listed keys, in order.
LockAudiences(s, here, next) ==
    /\ At(s, here)
    /\ \E k \in Keys :
          /\ Next1(s, k)
          /\ Take(s, <<"audience", k>>, "exclusive")
          /\ call' = Looped(s, k, here, next)
    /\ UNCHANGED tables

(***************************************************************************)
(* Publish the revocations of the pairs that hold anything, in one batch,  *)
(* then go on.  A batch that fails may have reached the service or not;    *)
(* either way the caller fails and its transaction rolls back.             *)
(***************************************************************************)
Holding(pairs) == {x \in pairs : held[x[1]][x[2]] # {}}

\* Mutant of PublishRevocations: a batch that fails is ignored.
PublishIgnoringFailure(s, pairs, goon) ==
    /\ revoked' \in {revoked \cup Holding(pairs)} \cup (IF "publish" \in Faults THEN {revoked} ELSE {})
    /\ goon

PublishRevocations(s, pairs, goon) ==
    \/ revoked' = revoked \cup Holding(pairs) /\ goon
    \/ /\ "publish" \in Faults /\ Holding(pairs) # {}
       /\ revoked' \in {revoked, revoked \cup Holding(pairs)}
       /\ Fail(s, "error")
=============================================================================
