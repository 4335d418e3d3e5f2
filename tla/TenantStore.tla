---------------------------- MODULE TenantStore ----------------------------
(***************************************************************************)
(* What the life of a tenant is written in: its row, its wrap key, the     *)
(* vault, the PLC directory, the upload service and the revocation         *)
(* service, with the access keys and buckets that refer to the tenant.     *)
(*                                                                         *)
(* Every write is a call of its own, with no transaction around several of *)
(* them.  A call may fail without effect, and, where the instance says so, *)
(* take effect and lose its answer.                                        *)
(***************************************************************************)
EXTENDS Naturals

CONSTANTS
    Procs,      \* the handlers at work
    ExtIDs,     \* the console's tenant ids
    DIDs,       \* did:plc ids; each is generated once
    Keys,       \* service access keys; each is generated once
    Buckets,    \* bucket DIDs; each is generated once
    NameOf,     \* the name each bucket is asked for under
    Asked,      \* the statuses callers ask for
    Serves,     \* the kinds of request each handler takes
    Faults,     \* "error": no effect; "remote", "sql": the answer is lost; "crash"
    MaxFaults,  \* Bound: how many faults a behaviour has
    None        \* no tenant, key or bucket

Kinds == {"provision", "setStatus", "delete", "createKey", "createBucket", "createPrincipal"}

Statuses == {"active", "write-locked", "disabled"}

ASSUME AskedTyped == Asked \subseteq Statuses
ASSUME ServesTyped == Serves \in [Procs -> SUBSET Kinds]
ASSUME FaultsTyped == Faults \subseteq {"error", "remote", "sql", "crash"}
ASSUME MaxFaultsTyped == MaxFaults \in Nat
ASSUME NamesTyped == DOMAIN NameOf = Buckets
ASSUME IdsDiffer == /\ None \notin ExtIDs \cup DIDs \cup Keys \cup Buckets
                    /\ Keys \cap Buckets = {}

Items == Keys \cup Buckets   \* what belongs to a tenant and refers to its row

VARIABLES
    row,         \* tenant table: "none", "active", "write-locked" or "disabled"
    ext,         \* the console id each generated tenant is for
    plc,         \* the directory: "unborn", "live" or "deactivated"
    vault,       \* the entries of the vault, see Secrets
    wrapRow,     \* wrap_key table: the tenants that have version 1
    upload,      \* the customers and spaces the upload service knows
    principals,  \* the tenants that have principal rows
    rows,        \* access_key and bucket tables
    tenantOf,    \* the tenant of each generated key and bucket
    delegated,   \* the keys holding delegations, the buckets whose root is stored
    revoked,     \* the keys whose delegations are revoked
    answered,    \* the keys and buckets whose creation answered its caller
    faults,      \* the faults so far
    call         \* the request each handler is serving

tables == <<row, ext, plc, vault, wrapRow, upload, principals, rows, tenantOf, delegated,
            revoked, answered>>
vars == <<tables, faults, call>>

\* vault.TenantKeyPath, wrapkey.VaultKey and vault.AccessKeyPath.
Signing(d) == <<"signing", d>>
Wrapping(d) == <<"wrap", d>>
Secret(k) == <<"key", k>>

Secrets == {Signing(d) : d \in DIDs} \cup {Wrapping(d) : d \in DIDs} \cup {Secret(k) : k \in Keys}

Labels == {"idle",
           "pvSigning", "pvWrapping", "pvGenesis", "pvCustomer", "pvWrapRow", "pvRow", "pvGet",
           "cuWrapRow", "cuWrapping", "cuSigning", "pvWinner",
           "status",
           "dlKeys", "dlLast", "dlRevoke", "dlTomb", "dlGrants", "dlSecret", "dlKey",
           "dlPrincipals", "dlWrapping", "dlWrapRow", "dlBuckets", "dlBucket", "dlRoots",
           "dlRow", "dlSigning",
           "ckIssuer", "ckSecret", "ckAdd", "ckStore", "ckGet",
           "rbGrants", "rbRow", "rbSecret",
           "cbAdd", "cbRoot", "cbIssuer", "cbSpace", "cbRoute", "cbReturn", "cbRollback",
           "cpAdd"}

\* shown: the keys in callers' hands, of a deletion's listing or of a bucket's creator.
CallRecords == [pc : Labels, did : DIDs \cup {None}, item : Items \cup {None},
                ext : ExtIDs \cup {None}, status : Statuses, todo : SUBSET Items,
                shown : SUBSET Keys, exists : BOOLEAN]

\* The tables, the outside services and the requests hold what they may hold.
TypeOK ==
    /\ row \in [DIDs -> Statuses \cup {"none"}]
    /\ ext \in [DIDs -> ExtIDs \cup {None}]
    /\ plc \in [DIDs -> {"unborn", "live", "deactivated"}]
    /\ vault \subseteq Secrets
    /\ wrapRow \subseteq DIDs /\ principals \subseteq DIDs
    /\ upload \subseteq DIDs \cup Buckets
    /\ rows \subseteq Items /\ delegated \subseteq Items /\ answered \subseteq Items
    /\ tenantOf \in [Items -> DIDs \cup {None}]
    /\ revoked \subseteq Keys
    /\ faults \in 0..MaxFaults
    /\ call \in [Procs -> CallRecords]

Idle == [pc |-> "idle", did |-> None, item |-> None, ext |-> None, status |-> "active",
         todo |-> {}, shown |-> {}, exists |-> FALSE]

Init ==
    /\ row = [d \in DIDs |-> "none"]
    /\ ext = [d \in DIDs |-> None]
    /\ plc = [d \in DIDs |-> "unborn"]
    /\ vault = {} /\ wrapRow = {} /\ upload = {} /\ principals = {}
    /\ rows = {} /\ delegated = {} /\ revoked = {} /\ answered = {}
    /\ tenantOf = [i \in Items |-> None]
    /\ faults = 0
    /\ call = [s \in Procs |-> Idle]

-----------------------------------------------------------------------------
\* GetByExternalID: the rows of a console id, one at most.
GetByExternalID(e) == {d \in DIDs : row[d] # "none" /\ ext[d] = e}

Of(d) == {i \in rows : tenantOf[i] = d}

At(s, label) == call[s].pc = label
didOf(s) == call[s].did
itemOf(s) == call[s].item

Begin(s, kind) == At(s, "idle") /\ kind \in Serves[s]
Start(s, c) == call' = [call EXCEPT ![s] = c]
Goto(s, label) == call' = [call EXCEPT ![s].pc = label]
Finish(s) == call' = [call EXCEPT ![s] = Idle]

\* A call that changes something: done with its answer, or a fault.
Attempt(via, done, undone, ok, err) ==
    \/ done /\ ok /\ UNCHANGED faults
    \/ /\ faults < MaxFaults /\ faults' = faults + 1
       /\ err
       /\ \/ "error" \in Faults /\ undone
          \/ via \in Faults /\ done
=============================================================================
