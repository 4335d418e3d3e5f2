# hilt in TLA+

hilt is the control plane of an S3 service on Forge storage. It keeps tenants, buckets,
principals (the tenant's users), access keys and bucket policies; it turns policies into UCAN
delegations for the access keys; and it answers a gateway's questions about who may do what.
Its hardest part is not any single operation but what happens when several of them run at once:
every operation is a handful of Postgres transactions mixed with calls to a vault and to a
revocation service, and the services rely on a carefully chosen set of row and advisory locks.

This directory specifies, as TLA+ modules:

- access control within a tenant: policies, principals, keys and delegations, with the locks and
  transactions that protect them, and a gateway's reads racing those writes;
- the life of a tenant: provisioning, filling, deletion, across five services;
- the decision on one S3 request: its signature, its operation, what the credential may do, and the
  answer the gateway gets;
- providers and the routing of their buckets, the usage series of a tenant, and the vault client's
  logins.

All are checked with TLC on small instances. The invariants of access control and of its readers, of
the life of tenants, of the decision on a request, of the vault's logins, of routing and of the usage
series are proved with TLAPS for every size of the instance.

1. [Inventory](#1-inventory)
2. [Modules and their correspondence to the code](#2-modules-and-their-correspondence-to-the-code)
3. [Abstractions and bounds](#3-abstractions-and-bounds)
4. [Properties](#4-properties)
5. [Runs](#5-runs)
6. [Proofs](#6-proofs)
7. [Where the code and its comments disagree](#7-where-the-code-and-its-comments-disagree)
8. [Not modelled](#8-not-modelled)
9. [Plan](#9-plan)

`PROJECT.json` lists the components, the runs, the lines each definition stands for, the hazards
and the theorems. To repeat a run: `tlc -config MCAccess_faults.cfg MCAccess`; to repeat a proof:
`tlapm AccessProofs.tla`.

## 1. Inventory

| component | state | operations | what makes it correct |
|---|---|---|---|
| bucket policy documents (`pkg/bucketpolicy`) | none | `Effective`, `Named`, `RemovePrincipal`, `Changed` | Deny wins; a principal whose actions change is always rotated; a strip touches one principal only |
| S3 permission table (`pkg/s3perm`) | none | `CommandsFor`, `Issue` | an action's commands are exactly those the operation needs |
| Postgres locking (`pkg/store/pglock`) | advisory and row locks | lock with a timeout, release with the transaction | no cycle of waits |
| bucket policy service and store (`pkg/api/service/bucketpolicy`, `pkg/store/bucketpolicy`) | `bucket_policy`, `bucket_policy_principal` | `Write`, `Remove`, `Get`, listings | compare-and-set; a policy names live principals; delegations follow the policy |
| delegation rotator (`pkg/grant`) | none of its own | `Rotate`, `Revoke` | nothing leaves the table unrevoked |
| principal service and store (`pkg/api/service/principal`, `pkg/store/principal`) | `principal` with tombstones | `Create`, `Delete`, `Get`, `List` | a removal leaves no policy, no key and no delegation behind |
| access key service and store (`pkg/api/service/accesskey`, `pkg/store/accesskey`) | `access_key`, vault entries | `Create` and its rollback, `Delete`, `Get`, `List` | a key has a live owner and a secret, and holds what the policies give its owner |
| delegation store (`pkg/store/delegation`) | `delegation` | `Replace`, `ReplaceOver`, `PutBatch`, `DeleteByAudience`, `DeleteBySubject`, `ProofChain` | writers of one audience exclude each other |
| bucket RPC service (`pkg/rpc/service/bucket`) | `bucket` | `Create`, `Delete`, `Info`, `List` | a deleted bucket leaves no usable delegation; `Info` never pairs data of two policies |
| tenant service (`pkg/api/service/tenant`) | `tenant`, wrap keys, vault, PLC directory, upload service | `Provision`, `SetStatus`, `Delete` | a tenant row has all that was made for it; a deletion revokes before it deactivates and, repeated, ends with nothing left |
| request authorization (`pkg/rpc/service/auth`, `pkg/rpc/authorize.go`) | none | `Authorize`, `AuthorizeRequest`, `RequirementsFor` | only what is signed decides; the gateway's own check agrees; the delegations serve the request and expire in time; nothing is said of buckets out of reach |
| S3 operation classification (`pkg/rpc/service/auth/operation.go`) | none | request to operation and permissions | a header, a copy source or a body that adds a permission is counted, and only when signed |
| SigV4 verification (`pkg/sigv4`) | none | `Parse`, `Verify`, derived keys, time bounds | what a signature covers is what is decided on; expired requests are refused |
| wrap keys (`pkg/store/wrapkey`) | versions per tenant | add, get active | one active version |
| provider administration (`pkg/rpc/admin.go`, `pkg/store/provider`) | provider records, policy roots; candidates on the upload service | `AddProvider`, `SetProviderNodes`, `ListProviders` | a policy in use leads to nodes; a region has one provider |
| metrics service (`pkg/api/service/metrics`) | none | the usage series of a tenant or a bucket | a total is of all buckets; no instant is lost |
| vault (`pkg/vault`) | secrets; a login token and its generation | put, get, delete, log in again after a 403 | an expired token is replaced once, and no call fails for it |

The interactions are calls and shared tables. A policy write calls the rotator inside its own
transaction (a callback of the store), and the rotator calls the delegation store, which calls
the revocation service from inside *its* callback. A principal's removal is a sequence of separate
transactions: revoke what the keys hold, rewrite each policy naming the principal, then tombstone
the row with a callback that deletes the keys. A key creation is five separate writes with a
best-effort rollback. Reads inside a callback go through the connection pool and therefore see
committed rows only.

What is hard:

- **interleaving**: a policy naming a principal against that principal's removal; a key creation
  against a rotation, a removal or a bucket deletion; two removals rewriting one policy;
- **stale reads**: policies are read before the delegations derived from them are stored; the keys
  to rotate are listed before they are locked; a strip starts from an unlocked listing;
- **lock order**: a policy write may hold a tenant lock, principal rows, a bucket lock, bucket and
  policy rows and many delegation locks, and a removal needs some of these the other way round;
- **partial failure**: publishing revocations inside a transaction that may still roll back; vault
  writes beside the database; a rollback made of three independent deletes; a tenant whose parts
  live in five services, and a routing policy whose parts live in two, with no transaction around them;
- **timeouts and crashes** between the transactions of one request;
- **a decision from many reads**: `Authorize` and `Info` read the key, the principal, the policy, the
  delegations and the proof chains one after the other while all of them change;
- **what is signed**: a relay can change whatever the signature does not cover, and headers, the copy
  source and the body each change what a request needs;
- **boundaries of time**: signatures live 15 minutes around midnight, derived keys a day, delegations
  are cut to whole seconds, two services' clocks differ within one series;
- **many callers, one token**: every vault call shares a token that expires under all of them at once.

## 2. Modules and their correspondence to the code

    PolicyDoc          documents, effective actions, preconditions        (pure)
    PgLock             lock modes, conflicts, grant and release           (pure)
      AccessStore      tables, vault, revocations, locks, request records
        PolicyService      Write, Remove, Put, Delete, rotation
          PrincipalService     Create, Delete, Tombstone
            AccessKeyService       Create, rollback, Delete
              BucketDeletion           bucket Delete
                Access                     faults, Next, Spec, properties; implements Entitlements
                  MCAccess                     instances for TLC
    Entitlements       what access control promises its callers  (abstract)
    AccessProofs       documents; types; locks and what they guarantee; compare-and-set
      AccessGrantsProofs   grants follow policies; revocations; private keys; whole operations; waits

    Readers            Authorize and Info against the writers      (extends Access)
      MCReaders            instance for TLC
      ReadersProofs        theorems about them           (extends AccessGrantsProofs)

    TenantStore        tenants, wrap keys, vault, PLC directory, upload service
      TenantService        Provision and its cleanups, SetStatus, Delete
        TenantContents         service keys, buckets and principals are added
          Tenants                  failed reads, crashes, Next, Spec, properties
            MCTenants                  instance for TLC
            TenantsProofs              theorems about them

    S3Operation        routes, permissions, commands, requirements        (pure)
      SigV4                what is signed, derived keys, time bounds      (pure)
        Authorization          sign, relay, decide                        (uses PolicyDoc)
          MCAuthorization          requests, worlds and alterations for TLC
          AuthorizationProofs      theorems about decisions

    Routing            providers, routing policies, bucket creation;   MCRouting
      RoutingProofs        theorems about them
    Listing            what a listing promises                         (abstract)
      Metrics              paging, sampling, summing; implements Listing;   MCMetrics
      MetricsProofs        theorems about them
    VaultLogin         the shared token and its logins;                MCVaultLogin
      VaultLoginProofs     theorems about them

The services call each other's steps (a removal runs the store's `Put` through the policy steps),
which is why each module extends the previous one.

**PolicyDoc** is `pkg/bucketpolicy` with the preconditions of `pkg/store/bucketpolicy` and the
lookup of `pkg/s3perm`. `Effective` is all allowed actions minus all denied ones, `Named` the
principals listed outside wildcards, `RemovePrincipal` the strip, which drops a statement nobody
is left in, and `Changed` the principals whose effective actions differ, taken from the named
ones and, under a wildcard, from the tenant's listing.

**PgLock** is Postgres's own conflict table for row and advisory locks, as `pkg/store/pglock` and
the stores' `FOR ...` clauses use it.

**AccessStore** declares the state. Each table of the schema is a variable (`principal`,
`buckets`, `policy`, `keyRow` and `owner`, `held`), beside the vault's entries (`secrets`), what the
revocation service has been told about delegations now stored (`revoked`), the `locks`, and
`call`, the request each handler is serving: its program counter and the local variables of the
Go functions on its stack. `excused` and `returned` are history variables: `returned` is the keys
whose creation answered its caller, and `excused` the (key, bucket) pairs the code has let go of,
explained under GrantsMatchPolicy below.

A handler moves in steps; a step ends where another handler could observe or disturb it: at a lock,
at a read through the pool, at a network call and at a commit. What a transaction has written and
not committed stays in the call record, and the commit step moves it to the tables and frees the
locks. `Fail` is the error path of every function: roll back, and for a key creation past its vault
write, enter `rollback`.

`WaitsFor` is whom a handler waits for where it stands, `Circular` a set of handlers that wait for each
other, and `Deadlocked` that a handler is on such a cycle. That is how Postgres's deadlock detector is
modelled: it aborts one transaction of a cycle, which `MapError` makes the same `ErrLockTimeout` as a wait
that took too long. So `Timeout` is possible for a deadlocked handler in every instance, and for any
waiting one where the instance has the fault `timeout`.

| Go | actions |
|---|---|
| `bucketpolicy.Service.Write`, store `Put` | BeginWrite, TakeTenant, RequireLive, TakeBucket, TakeBucketRow, LockRow, Commit |
| `bucketpolicy.Service.Remove`, store `Delete` | BeginRemove, TakeBucket, LockRow, Commit |
| the callback of both, `principals.WithLock`, `Rotator.Rotate`, `ReplaceOver` | Relist, LockPrincipals, Load, LockRotated, Rotate |
| `principal.Service.Create`, store `Add` | BeginCreatePrincipal, AddTenant, AddRow, AddGet |
| `principal.Service.Delete`: `Rotator.Revoke` | BeginDeletePrincipal, RevokeLoad, RevokeLock, RevokePublish, RevokeCommit |
| ... `stripFromPolicies` | StripList, StripPolicy, the policy steps, StripDone |
| ... `Tombstone`, its re-check and `removeKeys` | Tombstone, NamedAgain, RemoveLoad, RemoveLock, RemovePublish, RemoveSecrets, TombstoneCommit |
| `accesskey.Service.Create`, store `Add`, `ListByPrincipal FOR SHARE`, `Replace` | BeginCreateKey, FindPrincipal, WriteSecret, AddKey, ListSnapshot, ListRows, StoreGrants, ReturnKey |
| ... `rollback` | RollbackGrants, RollbackRow, RollbackSecret, RollbackSkip |
| `accesskey.Service.Delete` | BeginDeleteKey, DeleteLock, DeletePublish, DeleteCommit, DeleteSecret |
| bucket RPC `Delete`, `DeleteByBucket`, `DeleteBySubject` | BeginDeleteBucket, DeleteByBucket, RevokeSubject, SubjectAudiences, SubjectLock, DeleteBySubject, DeleteBucketRow |
| lock timeout or deadlock, a failed statement or vault call, a stopped process | Timeout, Error, Crash |

**Entitlements** is the abstract specification of all of that: principals, one document per bucket, the
keys in their callers' hands and what each holds, with eight operations that each happen at once and
never fail: `Join`, `SetPolicy`, `Suspend`, `Strip`, `Leave`, `Issue`, `Revoke`, `DropBucket`. `Access` states
that it implements it (`OperationsAreAtomic`), by a mapping that forgets locks, requests, revocations, private
keys and every key that nobody was given. The step of an operation is the commit of its transaction;
all others stutter. A removal is not one operation, because the code does not make it one: it suspends the
keys, strips each policy and leaves, and a failure in between shows. `adrift` is what Entitlements allows to
be out of step with the policies, the `excused` pairs of keys in a caller's hands.

**TenantStore** and the modules over it are a second specification, one level up: many tenants, each
with its row (`row`), its DID at the PLC directory (`plc`), its entries in the vault, its wrap key's
row, its customer at the upload service, and the keys and buckets that refer to it. Locks play no part
here, because no transaction spans two of the calls; every call to a store or a service is a step,
and a call that locks internally (`Replace`, `DeleteByTenant`) is one too. `call` is again the
request a handler is serving with its local variables. `answered` is a history variable: the keys and
buckets whose creation returned to its caller.

`Attempt` is the one place where a call meets failure: it takes effect and answers, or it uses up a
fault and the handler sees an error, with no effect or, where the instance says so, with the effect and
the answer lost.

| Go | actions |
|---|---|
| `tenant.Service.Provision` | BeginProvision, SealSigning, SealWrapping, PublishGenesis, RegisterCustomer, AddWrapKey, AddTenant, ReadBack |
| ... `runCleanups`, last first | CleanWrapRow, CleanWrapping, CleanSigning |
| `tenant.Service.SetStatus` | BeginSetStatus, SetStatus |
| `tenant.Service.Delete` | BeginDelete, DeleteListKeys, DeleteLast, RevokeKeyDelegations, DeactivateDID |
| ... its cascade | DeleteKeyGrants, DeleteKeySecret, DeleteKeyRow, DeletePrincipals, DeleteWrapping, DeleteWrapRow, DeleteListBuckets, DeleteNextBucket, DeleteRoots, DeleteTenantRow, DeleteSigning |
| `accesskey.Service.Create` of a service key, `rollback` | BeginCreateKey, LoadIssuer, SealKey, AddKey, StoreGrants, ReturnKey, RollbackGrants, RollbackRow, RollbackSecret |
| bucket RPC `Create`, `rollback` | BeginCreateBucket, AddBucket, PutRoot, LoadAccount, ProvisionSpace, UseRoutingPolicy, ReturnBucket, RollbackBucket |
| `principal.Service.Create` | BeginCreatePrincipal, AddPrincipal |
| a read that fails, a stopped process | ReadFails, Crash |

Access and Tenants share no variables. Access looks at one live tenant and takes its rows for
given; Tenants takes for given that a key's delegations are written atomically, which is what
Access checks.

**Readers** adds to Access one session of a gateway: `Authorize` for an authentic request with a
principal-bound key, then `Info` for the chains of that key, or `Info` alone. Each read is a step. A
share-locked read waits until no transaction holds the row (for a policy: the bucket's advisory lock
too, which a policy that has no row yet is created under); a plain read sees what is committed. What an
authorized session holds is of two kinds: delegations signed by the key, which work only through a
chain from the bucket to the key, and, for the commands in `CleanupCommands`, delegations signed by the
tenant, which need the bucket's root only.

| Go | actions |
|---|---|
| `Authorizer.Authorize`: key, signer, principal, bucket, policy | ArriveForAuthorize, GetKey, ReadSigner, GetPrincipal, resolveBucket, GetPolicy |
| `AuthorizeRequest` signing as the key, and as the tenant | SignDelegations, issueCleanupDelegations |
| bucket RPC `Info` | ArriveForInfo, resolveBucket, InfoKey, GetPrincipal, InfoPolicy, listGrants, ProofChain, policyETag, Relisted |
| a share lock that is not granted in time | ReadTimeout |

**S3Operation**, **SigV4** and **Authorization** are the decision on one request, as functions of the
request and of hilt's records (the *world*). `operationOf`, `permissions` and `RequirementsFor`
follow `operation.go` route by route; `StringToSign` says which parts of a request a signature
covers; `authenticate`, `serviceAccess`, `memberAccess` and `AuthorizeRequest` keep the order of the code's
checks, since the first failing one is the answer. The state machine around them has two steps:
`Relay`, which hands hilt a request that differs from the signed one, and `Decide`. The permission
table is the real one, and `PolicyDoc` is instantiated over it.

**Routing** is `pkg/rpc/admin.go` with the provider store, and the part of the bucket RPC `Create` that
concerns the space's route. A failed call may have taken effect. `superseded` is a history variable: what a
provider's record said before a `SetProviderNodes` that had found the record without a policy
wrote its own.

| Go | actions |
|---|---|
| `AddProvider` | BeginAdd, CheckRegion, issuePolicy, setPolicyNodes, AddRecord |
| `SetProviderNodes` | BeginSet, issuePolicy, setPolicyNodes, SetPolicy |
| bucket RPC `Create`, its rollback | BeginCreate, AddBucket, RouteSpace, Rollback |

**Metrics** is a tenant's usage query: `CheckRange` (with `clamp`), `Page` for each page of
`store.Collect` over `ListByTenant`, `Sample` or `SampleFails` for each bucket's call, in any order,
and `sum`. Around it buckets come and go and the upload service's clock ticks. **Listing** is the abstract
specification of its listing part: one atomic answer, in order, without repetition, with every row that was
there throughout and none that never was. `PagesMakeAListing` states the refinement, with the answer
mapped to the collected items once the last page is read.

**VaultLogin** is `withReauth` and `reauthOnce` of `pkg/vault/openbao`: currentLoginGen, Send, Answered,
Refused, Lock, LoginFails, SetToken, CountLogin, Resend, with Expire for the server's side. `wasted` is a
history variable: the tokens got by a login for a call that the vault's policy denies.

Some definitions have a second form above them marked "Mutant of": a plausible mistake in the code
(a dropped lock, a forgotten publish, the wrong order). Each property is known to fail for at least
one of them; `PROJECT.json` says which. They are used nowhere else.

## 3. Abstractions and bounds

- **Documents** are sets of statements: the code encodes them canonically, so order and repetition
  carry no meaning. The empty set is "no policy", since a stored document has at least one
  statement. Condition blocks, sids and JSON do not exist in the model.
- **The ETag** is a digest of the canonical encoding, taken to be free of collisions; it is an
  opaque record, and only equality is used.
- **Delegations** are the set of commands a key holds over a bucket. Their CIDs, expiry and proof
  chains are left out; a rotation that reissues equal commands still revokes what was there.
- **Ids** of principals, buckets and keys are numbers because the stores lock in the order of the ids.
- **Errors** are the classes the services tell apart (`precondition`, `concurrent`, `notfound`,
  `invalid`, `refused`, `error`), and a request ends `answered` when its service maps the class to
  an answer of the API and `internal` otherwise.
- **Faults** are a constant. `timeout`: a wait gives up. `publish`: a batch of revocations fails,
  whether or not it arrived. `error`: a database or vault call fails. `crash`: the process stops, its
  transaction rolls back and nothing else is undone. The end of a deadlock is no fault of the instance's: it
  happens in all of them.
- **Bounds.** `KeysLeft` caps the creations by the ids the instance has, since a key id is generated
  once; requests otherwise repeat forever. The sets Principals, Buckets, Keys, Docs, Conds and Procs
  are finite in the instances and arbitrary in the proofs.

In the tenant modules:

- **Faults** are `error` (a call has no effect), `remote` (the vault, the directory, the upload or the
  revocation service does it and the answer is lost), `sql` (the same for Postgres) and `crash`.
  `MaxFaults` bounds them.
- **Generated ids** (DIDs, keys, buckets) are used once, as the code generates them from fresh keys.
  `FreshDIDs` bounds the provisions; it takes any unused id, since they are interchangeable.
- **A key's delegations** are one fact, held or not, as is a bucket's root. Which commands they carry
  is the matter of Access. Principals are one fact per tenant: it has some or none.
- **Names of keys** are left out: a name that is taken fails `AddKey` as any refused insert does.
  Names of buckets are kept, because they are unique across tenants.
- **A provider** has a routing policy or not, chosen freely in `UseRoutingPolicy`.
- **Keys bound to principals** are created in Access only. Here every key is a service key.

In the modules of the request decision:

- **A signature** is the secret it was made with and the content it was made over; no other pair
  verifies. **A hash or a checksum** is the body it is of. HMAC, ECDSA and byte encodings do not exist.
- **Times** are in half seconds: fine enough to fall between two whole seconds, which is where the
  truncation of a delegation's expiry bites.
- **Headers** are those that add a permission, by what their value means to the code; the copy source, the
  checksum and the body are fields with what their parsers find in them.
- **Cases** (`MCCases`) crosses every route, header combination, copy, body and credential form with
  every world; `MCAlterations` is one change each, or a body together with its checksum. The size limits are
  the code's own, met at the limit and one past it.

In the others:

- **Readers** follows one session at a time, because sessions write nothing. Delegations get fresh links
  whenever they are written, because they are minted with a nonce. Service keys are not in it:
  their permissions are in their own row. `CleanupCommands` is a constant, any of the commands.
- **Routing**: policy and bucket DIDs are generated once; `MaxFaults` bounds the failures.
- **Metrics**: a sample is known by the second it ends at; `Limits` are the page sizes, which differ
  from page to page only to cover all of them in one run; `LastTick` bounds the upload service's clock.
- **VaultLogin**: a token is the number of the login that got it. `Calls` is finite in the
  instance and arbitrary in the proof.

The documents of the instances are chosen for what they exercise: `NamedDoc` names one principal;
`WildDoc` allows everybody everything and denies the first principal one action, which makes the
strip, the wildcard listing and the Deny interact; `PairDoc` names two principals; the two
`SwapDocs` of Readers are written over each other, back and forth.

## 4. Properties

- **NamedAreLive**: a committed policy names only live principals. It takes a policy write and a
  removal: the write's KEY SHARE locks against the removal's UPDATE lock and its re-check.
- **KeysHaveLiveOwners**: no key row belongs to a removed principal, so reviving an id hands nobody
  an old key. It takes a key creation and a removal: SHARE against UPDATE.
- **GrantsMatchPolicy**: a key holds no more over a bucket than the policy gives its owner, and
  exactly that once the caller has the key, outside the pairs in `excused`. A pair is excused when
  (a) a removal has stripped its owner, which rotates nothing because the tombstone follows, or (b) a
  rotation left a key under creation with nothing, the case the code does not detect (finding `stale`).
  The next rotation that reaches the pair ends the excuse.
- **RevokedBeforeGone**: a delegation of a key in a caller's hands is deleted or replaced only after
  its revocation was published.
- **CompareAndSet**: a conditional write, and every strip, replaces exactly the document its
  condition was about, although it compares and commits many steps apart.
- **RowsHaveSecrets**: a key with a row has its private key in the vault, but between a removal's
  vault deletes and its commit.
- **OperationsAreAtomic**: what callers see is Entitlements. A policy write takes effect together with every
  rotation it needs, on all keys in anybody's hands, though it listed, locked, derived and published them
  in many steps; a strip and a suspension touch no key but the principal's own; a failed, timed-out or
  rolled-back operation shows nowhere, and neither does a key creation before it answers. It takes a step
  of one operation acting on what another has changed since it looked: a write to a bucket that is gone, an
  answer for a key that was removed.
- **NoWaitCycle**: no set of handlers wait for each other, so the lock timeout is never the only way
  out, unless a bucket deletion is among them: that one takes its locks in another order (*order* in
  section 7).
- **RequestsEnd**: every request ends, without help from the timeout. The cycle NoWaitCycle excepts is
  reachable, and nothing in the code ends it: there the property rests on Postgres aborting one of the
  transactions, and fails without that.

Of tenants:

- **LiveTenantIsWhole**: a tenant row, until its deletion has deactivated the DID, has a live DID, a
  customer at the upload service, both private keys and the wrap key's row. It takes a failing or
  crashing provision, another one for the same console id, and the loser's cleanups.
- **NothingOutlivesTheRow**: once a deleted tenant's row is gone, and with it the way to repeat the
  deletion, no key, bucket, principal or wrap key is left.
- **RevokedWhileVerifiable**: a DID is deactivated only when every key the deletion found in a caller's
  hands is revoked, since nothing signed by the DID verifies afterwards.
- **CreatedBucketIsReachable**: a bucket whose creation was answered has its root delegation and its
  space as long as its tenant's DID lives, whatever failed in other creations of the same name.
- **DeletionConverges**: a deletion that has deactivated the DID gets through when it is repeated, after
  any fault, unless keys, buckets or principals go on being added to the disabled tenant.

Of a gateway's reads:

- **InfoIsOneRevision**: the actions, the grants and the proof chains `Info` reports together were all
  true at one moment, though each is read by itself and a policy may be changed and changed back
  meanwhile. It rests on both re-reads: the ETag and the links.
- **AnsweredFromTheNewState**: `Authorize` decides on no policy while a change it met in flight on arrival
  is uncommitted, even one that creates the bucket's first policy.
- **UsableIsJustified**: delegations that can be used were justified at one moment since the request
  arrived. A key deleted or a principal revived between the reads may be let through, but then no chain
  leads from the bucket to the key. The cleanup delegations need no such chain, and have one exception: a key
  whose row was deleted after `Authorize` read it (*cleanup* in section 7).

Of a request's decision:

- **OnlySignedDecides**: a request authorized as relayed performs the operation, on the buckets and with
  the permissions, of the request that was signed.
- **MirrorAgrees**: the gateway, deciding from `RequirementsFor`, and `Authorize` come to the same decision.
- **DelegationsCover**: the derived key verifies the request, the delegations cover every command it
  needs, and none is for a command no permission of the credential stands for.
- **UnreachableIsUnknown**: the answer is the same whether or not a principal's unreachable buckets exist,
  and wherever the buckets out of a service key's scope live.
- **ExpiryFits**: a delegation of the credential never outlives its key. It is in time when it is issued and
  lasts for the work of the last request the derived key verifies (of the answered request, if that is dated
  on a later day than hilt's: *skew* in section 7), unless it was cut to the whole second its key ends
  in, and then it is past by less than a second at most (*second* in section 7). A cleanup delegation has its
  whole lifetime from that last request.

Of the rest:

- **PoliciesInUseLead**: a routing policy that a provider or a space refers to has candidates, and the
  root to change them with, whichever step failed and whatever raced.
- **SpacesFollowTheirProvider**: a bucket's space is placed by the policy its own provider's record names, so
  that setting the provider's nodes moves it, or by one that another first `SetProviderNodes` has replaced in
  that record since both found it empty (*orphan* in section 7).
- **RegionsResolve**: a region names one provider, though two registrations found it free.
- **PagesMakeAListing**: the paged listing implements Listing.
- **TotalsAreWhole**: a reported total adds up every bucket that was there throughout, exactly once, even
  when some series are cut short.
- **SeriesIsComplete**: unless the upload service's clock is behind hilt's, no window of the range is
  dropped and no instant but the last is off the grid.
- **LoginReplacesTheRefused**: a login is made only for a token the call was refused with and that is
  still the client's.
- **OneExpiryIsSurvived**: an allowed call ends with a 403 only after two tokens in a row have expired,
  neither older than the client's when the call began; or the second alone, if the login that got it
  was for a call the vault's policy denies (*retry* in section 7).
- **CallsEnd**: every vault call ends, though logins fail while others wait for the mutex.

## 5. Runs

| run | instance | distinct states | shows |
|---|---|---|---|
| faults | 1 principal, 1 bucket, 1 key; policy writer, key handler, principal handler; all four faults at every step | 241 k | TypeOK, NamedAreLive, KeysHaveLiveOwners, GrantsMatchPolicy, NoWaitCycle, RevokedBeforeGone, OperationsAreAtomic |
| writers | 2 principals, 2 buckets; two conditional policy writers, principals being created | 30 k | NoWaitCycle, CompareAndSet |
| ends | 1 principal, 2 buckets, 2 keys; policy handler, key handler, principal and bucket removal, called as `Sent` says; fair | 110 k | GrantsMatchPolicy, RowsHaveSecrets, NoWaitCycle, RequestsEnd, OperationsAreAtomic |
| readers | 1 principal, 1 bucket, 1 key; a policy writer, an owner of principals and keys, one session, one command a cleanup command; lock timeouts | 605 k | InfoIsOneRevision, AnsweredFromTheNewState, UsableIsJustified |
| tenants | 1 console id, 2 DIDs, 1 key, 1 bucket; a console and a second handler that also deletes; one fault anywhere; fair | 142 k | the properties of tenants |
| requests | every route, header, copy, body and credential of `MCCases`, as signed and altered | 435 k | the properties of a request's decision |
| routing | 2 admins, 1 creation, 2 providers, 1 region, 2 nodes, 3 policies; one fault; symmetry | 58 k | PoliciesInUseLead, SpacesFollowTheirProvider, RegionsResolve |
| usage | 3 bucket names, pages of 1 or 2, windows of 2 seconds, the upload service's clock behind, at and ahead of hilt's | 237 k | TotalsAreWhole, SeriesIsComplete, PagesMakeAListing |
| login | 3 calls, one of them denied by the vault's policy, any token expiring at any time | 50 k | LoginReplacesTheRefused, OneExpiryIsSurvived, CallsEnd |
| stale, bucket, locked | the smallest instance of each disagreement | | section 7 |

*Why these bounds.* Every pair of operations that share a table meets in one of the runs, over the
same principal, bucket and key. Two principals are needed for lock order among principals, two buckets
for two writers to overlap partly (`writers`). `WildDoc` makes the wildcard listing and the strip of a
Deny happen with one principal. A second key would only repeat what one key does with an ordered lock
list, since the keys of one rotation are locked in the same loop as principals. Three handlers are the
most that conflict over one row in any of the code's comments.

The cycle of waits that a bucket deletion can close takes two buckets and two keys, and liveness over all
requests with two of each is more than TLC can do. The callers of `ends` (the action constraint `Sent`)
therefore open with one request at a time, until one of two situations holds: one bucket is left and no
key was generated, and then every kind of request runs against every other, with one key; or both buckets
have a policy and a key of its principal is under way, and then a policy's removal, the creation of the
second key and the deletion of the first bucket run against each other, which are the three that can wait
in a cycle. A principal is created, or created again, at any time, and key ids are generated in their
order (`InOrder`). Only beginnings are restricted: a handler that has begun can go on wherever it could, so
the constraints take nothing from its fairness.

For a reader, one policy writer that swaps two documents gives the policy that is changed and changed
back; one handler that removes and revives the principal and deletes and creates keys gives the rest.

For tenants, one console id is what two provisions compete for, two DIDs let a loser exist beside the
winner and a tenant come back after its deletion, and one fault puts an error, a lost answer or a
crash at every step of every operation, of which the repeated operation then has to make the best.
Two handlers are a deletion and one operation that it races. A status is `active` or `disabled` there;
`write-locked` matters to the request decision only.

For routing, two registrations compete for one region or one provider, three policies let an orphan exist
beside two in use, so that a bucket can be routed by the policy of one first `SetProviderNodes` before the
other's is recorded, and a fault may hit any step. Three buckets in pages of one or two make a listing of
up to three pages. Three vault calls are one that logs in, one that finds it done, and one that begins in
between.

*Fairness.* In Access, `Fairness` is strong fairness of each handler once it has begun (`GoesOn`). A
goroutine that can run is run, and Postgres queues the waiters of a lock, so a handler whose lock becomes
free again and again is granted it; weak fairness would let other requests take the lock forever, which
Postgres does not. The abort of a deadlocked transaction is among a handler's fair steps, because Postgres
looks for cycles after its `deadlock_timeout`. Nothing is assumed about requests arriving, nor about
faults. In Tenants, a handler that has begun goes on (weak fairness: no step waits for another handler),
and the console repeats a deletion as long as it can be asked for (strong fairness of `BeginDelete`),
which is what the code's comments on retries expect of it. In VaultLogin a call's goroutine goes on and
the server answers or the context ends (weak fairness per call); a call needs the mutex only until it has
passed it and there are finitely many, so the mutex is not taken for ever.

Deadlock checking is on where the system serves requests for ever: an idle handler can always begin
one, and a state where none can move would be reported. `requests`, `usage` and `login` follow requests
that end, and turn it off.

## 6. Proofs

The constants are constrained by named assumptions only: principal, bucket and key ids are positive
numbers (`PrincipalsAssumption`, `BucketsAssumption`, `KeysAssumption`), the permission table maps actions
to commands (`CommandsOfAssumption`), `"*"` is no action, and the documents, conditions, services and
faults are of their types. No set is assumed finite but the handlers in one theorem (`WaitsEnd`) and a
tenant's possible bucket names (`MetricsAssumption`; `store/bucket/bucket.go` admits 3 to 63 characters).
Of the requests of Authorization, `RequestsAssumption` says what holds of any: a world's records have an
entry for every bucket name a request or an alteration can ask for (a missing bucket is an entry `Absent`)
and its policies are documents; a request carries a signature, good or not, over what it says; and a relay
cannot replace it. `ReadersAssumption` says that a read's transaction is none of the handlers', and
`CleanupAssumption` that the cleanup commands are commands.

- **TypeCorrect** (`AccessProofs`): `Spec => []TypeOK`. `TypeOK` includes that a request at a
  step about a principal, a bucket or a key has one, which the other proofs need.
- **LockDiscipline** (`AccessProofs`): `Spec => []AccessInv`.
- **PoliciesNameLivePrincipals** and **KeysDieWithTheirPrincipal**: `NamedAreLive` and
  `KeysHaveLiveOwners` as consequences.
- **RemoveForgets**, **RemoveLeavesOthers**, **ChangedMissesNobody** (`AccessProofs`): after a
  strip no statement names the principal; a strip changes no other principal's effective actions,
  which is why it rotates nobody; and whoever of the tenant is affected by a change of document is among those
  `Changed` returns.

*The argument.* Neither invariant is inductive. A policy commit preserves `NamedAreLive` only because
the principals it found live some steps ago still are, and a tombstone commit preserves it only
because no policy has come to name the principal since the re-check. `AccessInv` adds what the locks
guarantee in between:

- `LocksCompatible`: no two transactions hold conflicting locks on one resource;
- `HoldsNamed`: a policy write holds KEY SHARE on every principal `requireLivePrincipals` has been
  through, and each is live;
- `HoldsRow`: a tombstone in progress holds UPDATE on a live row; past its re-check no policy names
  the principal, and past its listing it knows all the principal's keys;
- `OwnsKey` and `RowsHaveOwners`: a key about to be added belongs to the principal it was checked against.

KEY SHARE and UPDATE conflict, so a write vouching for a principal and a removal of it cannot both be
past their checks; SHARE and UPDATE conflict, so no key is added while a removal is past its listing.
The proof has one lemma per service (`PolicyStepPreserves`, `PrincipalStepPreserves`,
`AccessKeyStepPreserves`, `BucketStepPreserves`, `FaultPreserves`) with one step per action. Lemmas
about the handlers an action does not move (`OthersHoldNamed`, `OthersHoldRow`, `OthersOwnKey`) carry
the rest. Faults need no argument of their own: they only release locks and leave the tables alone.

*Compare and set* (`AccessProofs`): **WritesCompareAndSet** is the action property `CompareAndSet`,
from **PolicyRowsAreGuarded** (`Spec => []WriteInv`). Between `lockRow`, which reads the document and
checks the condition, and the commit lies the whole callback: listing, locking, deriving and publishing.
`WriteInv` says what makes the two ends one step: a handler there holds the bucket's advisory lock
exclusive (`HoldsBucket`), what it has read is still the policy (`HoldsPolicy`), and a strip writes what
it has listed on the condition that it is still there (`StripsListed`). Every step that changes a policy
row, a bucket's deletion included, is made under that lock.

*Grants* (`AccessGrantsProofs`): **GrantsFollowPolicy** is `Spec => []GrantsMatchPolicy`, from
**NoKeyIsOverlooked** (`Spec => []GrantsInv`). Policy writes and key creations each read before they
write, so the invariant says what each may have missed:

- a write in its callback may leave a key with a row alone only when the change spares the key's owner,
  or when the key cannot have read the policy yet (`MindsRows`). For a Put it is the tenant's lock and
  the affected principals' rows (NO KEY UPDATE against the SHARE of a key's insert) that keep such keys
  from appearing (`MindsLive`); a Delete locks no tenant, and it is the policy row's UPDATE that makes a
  new key wait before it reads (`Unseen`);
- a creation between its reads and its store holds what is still in force, or a rotation has dealt with
  its key in between (`Fits`), and then `Replace` finds the key not empty-handed and refuses. The pair
  is excused only where a rotation left the key nothing, which that check cannot see (section 7), or
  where a strip or a removal let go of it on purpose.

The proof has two halves per action: a step keeps what the other handlers rely on (`TableMoves`,
`CallMoves`), and leaves its own handler with what it needs at its next label.

*Revocations* (same module): **RevokedFirst** is the action property `RevokedBeforeGone`, under the
hypothesis `NoneDeletesBuckets`: with bucket deletions it is false (run `bucket`). It rests on
**GoneKeysHoldNothing** (`Spec => []RevokeInv`), which needs no hypothesis: a rotation, a removal or a
key's deletion holds the delegation locks of its keys from before it publishes until it commits, what
those keys hold by then was published (`Told`), and a key of a caller that has lost its row holds nothing.
A bucket's deletion keeps all of that, though not the order: what it takes without telling, it leaves
nothing of (`Spent`). A creation still rolling back deletes unpublished delegations, but of a key nobody
was given.

*Private keys* (same module): **RowsKeepSecrets** is `[]RowsHaveSecrets` under the hypothesis
`OnlyPublishingFails`: the database and the vault answer and the process does not die, but the revocation
service may fail anywhere, and deadlocks end as Postgres ends them (`AbortSecrets`: no handler is aborted
in the middle of its vault calls, where it waits for nothing). It cannot be had for more: the vault
entries go before the commit that takes the rows, and an error in between keeps the rows (section 7).
`SecretInv` says that a creation stores the secret before the row, and that what takes a secret has taken
the row, or is about to and alone may.

*Whole operations* (same module): **WholeOperations** is the refinement `OperationsAreAtomic`: the initial
states map to initial states, and a step of any handler maps to an operation or a stutter (`Seen`). Most
steps leave all that is visible alone (`Hidden`): they are reads, locks and publications, or are about a
key that was not answered yet (`CreationHidden`). The others are seven commits with a lemma each
(`CommitSeen`, `RevokeCommitSeen`, `TombstoneCommitSeen`, ...), which is where the earlier invariants
meet: a policy's commit is `SetPolicy` because `GrantsInv` says that every key in a caller's hands was
rotated to the document's grants or is one the change spares; a strip's is `Strip` because `WriteInv` says
that the document it has listed is still the policy; a tombstone's is `Leave` because `AccessInv` says
that no policy names the principal and no key of it is missing from the list; and an answer is `Issue`
because the key's creation is in step with the policies (`Ready`). What was missing is in
**StepsKeepTheirPlace** (`Spec => []PlacedInv`): a write past `TakeBucketRow` or `lockRow` still has its
bucket (only the holder of the bucket's lock deletes it), a removal holds keys of its own principal only,
and a strip writes a policy that names it.

*Waits* (same module): **WaitsEnd** is `[]NoWaitCycle` for any finite set of handlers (of infinitely many, each
could wait for the next). The locks have an order: the tenant, the rows a Put names, the bucket with its row and
its policy's, the affected principals by id, the delegations of keys by id, the keys' rows. `OrderInv` says of
each lock at which steps its holder can be, and of those taken one by one that only larger ids are left to
take (`Stands`); a bucket deletion keeps to no order, and the invariant says nothing of its locks. Whoever is
waited for, and waits too, is therefore further down than the one that waits for it (`WaitsForBelow`; `Rung` and
the least id still wanted measure it), and of finitely many somebody is furthest (`LastOfFinite`).

*Readers* (`ReadersProofs`), for any handlers and every fault: **AlwaysAnsweredFromTheNewState**,
**UsableIsAlwaysJustified** and **InfoIsAlwaysOneRevision**, from **SessionsAreSound**
(`ReadersSpec => []ReaderInv`). Sessions write nothing (`ReadersOnlyRead`), so all the above holds here,
and three parts of it are used:

- `WritesAhead`: a write met on arrival and not over by now holds a lock the session has yet to wait
  for. It takes that a handler's step lets go of all its locks or of none (`HandlerMoves`), and that
  advisory and row locks are each taken in modes that exclude the reader's (`ModesMatch`). At the
  decision nothing is ahead, so nothing is pending;
- `GoodIsBacked`: `Authorize` may go on with a key, a principal and a policy that were never good
  together. If the key still has a row at the decision its principal is live (`KeysHaveLiveOwners`), and
  the three are good together now; if it has none it will never have one again (`GivenKeys`, from the
  grants' invariant) and holds nothing (`GoneKeysHoldNothing`), so the listing finds no link. The cleanup
  delegations ask for no link, so of them the theorem says just that: justified, or the key's row is gone;
- `OneRevision`: once some link was listed, a relinking is never forgotten, so a chain read after one
  and a second listing that agrees exclude each other; and as long as the links are the listed ones,
  finding the policy's first ETag again means that both were in force together at some moment.

*Tenants* (`TenantsProofs`), for any numbers of console ids, DIDs, keys, buckets and handlers:
**TypeCorrect**, **RowGoesLast**, **CreatedBucketsAreReachable** and the action property
**DeactivatedAfterRevoking**, whatever faults occur, and **LiveTenantsAreWhole** where no answer of the
database is lost (with `sql` faults it is false, section 7). One inductive invariant `Inv` serves them
all: what a handler has made or found by its label (`Prepared`, `Deletion`, `Creation`); that a tenant
without a row is in one provision's hands, and a key or bucket in one creation's (`Apart`); and that
what was answered stays usable until it is revoked or the DID is gone (`Kept`). No lock protects any
of this, so the invariant is kept by what each step does not do: a step is `Gentle` when it takes
nothing that another handler made, unless the tenant's DID is gone. Each action is shown gentle,
and to leave its own handler with what it relies on.

*Decisions on requests* (`AuthorizationProofs`), for any worlds, requests and alterations:
**OnlySignedAlwaysDecides**, **MirrorAlwaysAgrees**, **DelegationsAlwaysCover**, **ExpiryAlwaysFits** and
**UnreachableStaysUnknown**. `DecisionInv` is the little that several steps share: a case is one of
the cases, what arrives differs from it as a relay can alter it, and an answer is `AuthorizeRequest` of
what arrived. The rest is about the operators, and holds of every world:

- two requests with one string to sign are of one method, path and signed headers, so they are of one
  operation that needs the same permissions (`OneString`, `SignedAlike`, `OneDecision`);
- `RequirementsFor` and `Authorize` are compared credential by credential: a service key has the commands
  its statements issue, a member what the bucket's policy gives the principal (`ServiceMirrors`,
  `MemberMirrors`);
- a command issued stands for a permission the credential has (`IssuedAre`), and every command an
  operation needs is one of its permissions' (`IssuedCover`, `OwnCommandsDo`), which is read off the
  tables of the classifier and of `s3perm`, row by row;
- the expiry is arithmetic: the last use of an answer is over by the midnight after hilt's time and the skew
  (`LastUseIsOver`), the overhang is added to that, and what is cut is cut to the key's whole second;
- `VisibleSuffices`: whatever is read of a bucket out of reach, the same answer follows.

*The vault's logins* (`VaultLoginProofs`), for any set of calls: **LoginsReplaceTheRefused** and
**OneExpiryIsAlwaysSurvived**. The inductive invariant `IInv` has three parts: the mutex is held exactly
from the start of a login to its count (`MutexHeld`); the client's token is the generation's, or the next
one while the login that got it holds the mutex (`TokenCounted`); and of each call, the token it was sent
with is not older than the generation it saw, and newer once it has been sent again (`CallTokens`). So a
call that reaches the login saw the present generation and was refused with the present token.
`TokensAccounted` adds, of every token that was replaced, that it has expired or that its replacement was
got for a denied call, because nobody else is refused with a token that is alive; OneExpiryIsSurvived is
that about the token before the one the call was last sent with.

*Routing* (`RoutingProofs`), for any number of everything: **RoutingTypes**, **RegionsAlwaysResolve**,
**PoliciesInUseAlwaysLead** and **SpacesAlwaysFollow**. RegionsResolve is inductive, since the insert
checks again what the registration checked first. PoliciesInUseLead is not: a record or a route is written
from what a request carries, so `CallLeads` says what a request at each step has made sure of (before the
record is written its policy has a root and candidates; a bucket's creation carries a policy that was in a
record). `Grows` says why that stays true under the steps of others: roots are never deleted, records
never unregistered, and a put replaces candidates by others, never by none. SpacesFollowTheirProvider has
an invariant of its own over that one: a creation that carries a policy carries one its bucket's provider
has in its record or had in it (`superseded`), and a record's policy is replaced only by a step that puts
the old one there.

*The usage series* (`MetricsProofs`), for any number of buckets, any page sizes, ranges and clocks:
**TotalsAreAlwaysWhole**, **SeriesIsAlwaysComplete** and **PagesAreAListing**, the refinement of Listing.
A page is what the query returns only because a finite set of names has one order: counting for each name
those up to it numbers them from 1 without a gap (`OrderExists`), and an order of as many places as there
are names leaves none out (`OrderIsWhole`). `MetricsInv` then says that what is collected is in order,
ends at the cursor and has everything up to it that was there throughout (`Collected`; `PageCollects` is
the step); that a run sampled when the service's clock had come up to hilt's has the whole grid, because
the end was cut to hilt's clock beforehand (`Sampled`); and that the totals are of all runs at the
instants all of them have (`Summed`).

Each inductive invariant was first an invariant of TLC's runs, which found the parts that were missing,
before it was proved.

*Only model-checked*: RequestsEnd, DeletionConverges and CallsEnd: liveness under fairness is out of the
prover's reach. Every other property of a passing run is a theorem too, at most under the hypothesis named
with it above.

## 7. Where the code and its comments disagree

Three have a run whose property states the comment and which TLC refutes.

- **stale** (`accesskey/service.go:281`): "a key holding anything was rotated meanwhile, and the
  creation fails ... rather than store stale grants". A rotation that leaves the key *nothing* is not
  noticed: read the policy, let it be removed, store the old delegations, answer. The key holds commands
  no policy grants until the bucket's policy next changes for that principal.
- **bucket** (`rpc/service/bucket/service.go:279`): revocations are published before the delegations
  are deleted. The listing holds no delegation lock, and a key creation in between has its
  delegations deleted unrevoked.
- **locked** (`rpc/service/auth/auth.go:189`): a write-locked tenant is let through because "write handlers
  gate WriteLocked themselves". Nothing after `Authorize` looks at the status: writes are authorized and
  given write delegations.

Others were seen while modelling and have no run of their own:

- **strip** (`principal/service.go:11`): "a failure part way leaves the principal with narrower
  access". The strip takes the principal out of Deny statements too; under a wildcard Allow the
  rewritten policy gives it more.
- **secret** (`principal/service.go:263`): "the rows went first". They went in a transaction that
  commits after the vault deletes; a crash in between keeps the rows and loses the secrets. The rollback of a
  key creation does the same where the row's delete fails and the vault's does not
  (`accesskey/service.go:209`).
- **race** (`principal/service.go:185`): losing to another writer should be a retryable error. When
  the other writer removed another principal the listed policy names, the rewrite fails in
  `requireLivePrincipals` first and the caller gets an internal error.
- **order** (`rpc/service/bucket/service.go:322`): a bucket deletion keeps the delegation locks of the
  bucket's keys (`DeleteBySubject` joins the transaction) and asks for the policy row after them, where a
  policy write asks for delegation locks with its policy row held. With a key creation between them the
  three wait in a cycle: the creation has read bucket 1's policy row FOR SHARE and waits for bucket 2's,
  which a policy write holds while it waits for a key's delegation lock, which the deletion of bucket 1
  holds while it waits for bucket 1's row. All three waits are Postgres's own, so its deadlock detector
  ends one of them with `ErrLockTimeout`: a failed request, nothing worse. The run `ends` reaches the state
  (NoWaitCycle without its exception fails there), and RequestsEnd holds in it because the model has
  the detector too: without it those three requests never end. `WaitsEnd` proves that no such state
  exists without a deletion.
- **late** (`tenant/service.go:291`): every delegation of the tenant's keys is revoked before the DID
  goes, and an old tombstone "is the one case nothing here can revoke for". Key creation does not look
  at the tenant's status: a key that stores its delegations after the deletion has published is answered
  to its caller, and the cascade deletes them unrevoked.
- **lost answer** (`tenant/service.go:216`): if the insert of the tenant row commits and its answer is
  lost (the client disconnects at that moment), `Provision` runs its cleanups and deletes the keys and
  the wrap key's row of a tenant that exists, which every later call then returns: `LiveTenantIsWhole`
  fails as soon as `Faults` contains `sql`.
- **status** (`tenant/service.go:280`): `Delete` checks the status once. A tenant enabled again meanwhile
  is deleted all the same, or, if the deletion fails half way, stays active with a deactivated DID.
- **skew** (`sigv4/sigv4.go:289`): "delegations issued for a date-scoped key must outlive the key's date
  window by this tolerance". The expiry is counted from the midnight after *hilt's* time
  (`rpc/authorize.go:114`); for a request dated a few minutes ahead, across midnight, the derived key is
  of the next day and outlives the delegations. They last for the work of the request they were issued for, and
  `ExpiryFits` promises no more of that case.
- **second** (`rpc/authorize.go:113`): the expiry is "capped to the access key's own expiry if sooner". A
  key is let through until its expiry has passed, fractions included (`auth.go`, `time.Now().After`), and the
  delegations' expiry is the whole second of it. In the fraction that is left, hilt hands out delegations
  that are already past. `ExpiryFits` states how far.
- **cleanup** (`rpc/authorize.go:216`): `Authorize` reads the key, the principal and the policy one after
  the other, and relies on it that a delegation it should not have signed "simply has no proof chain to a
  root and is unusable - harmless" (line 104). The cleanup delegations do not pass through the key: one
  whose row was deleted after `Authorize` read it, before a policy came to grant what was asked, gets them
  for eight days, usable, though at no moment it could do what they clean up after. The gateway must not
  let them authorize requests, as the comment says.
- **orphan** (`rpc/admin.go:78`, `:169`): a policy that no record references is "inert", and a failed
  `SetProviderNodes` "leaves only inert orphans". Two first calls for one provider each issue a policy;
  the second to write the record replaces the first's. A bucket created in between has its space on the
  first's policy, which no record names and no command can change: setting the provider's nodes no longer
  moves that bucket. `SpacesFollowTheirProvider` admits this case and no other.
- **reroute** (`rpc/admin.go:80`): a provider without nodes, "its buckets use default routing until nodes
  are set". Buckets created before then stay on default routing afterwards, too.
- **retry** (`vault/openbao/vault.go:128`): "the fresh token is already installed and the caller just
  retries". The generation is read before the operation; a call that began before another's login, was
  sent with the token of that login and met its expiry retries with the very token that was refused. If
  that other login answered an expiry, two tokens have expired by then; but a call that the policy denies
  logs in as well, and then this one expiry fails a call the policy allows. `OneExpiryIsSurvived` says
  exactly how much survives.

Runs with faults therefore leave out what fails under them: `faults` has no bucket deletion
(RevokedBeforeGone) and not RowsHaveSecrets, `tenants` no `sql` faults. Each property is checked wherever
the code does keep it.

## 8. Not modelled

- Read-only operations of the API (`Get`, `List` and their rendering): no state change; the reads the
  writers, `Authorize` and `Info` make are modelled where they are made, and paging in Metrics.
- JSON, HTTP and RPC plumbing, URL and host parsing, byte encodings, HMAC and ECDSA, key generation:
  conversion and cryptography, with no interleaving to explore.
- The connection pool: a callback reads through the pool while its transaction holds a connection of
  it, so an exhausted pool can stall writers until the lock timeout. A bound on connections would be a
  bound on handlers at the model's grain.
- In Access, unique names and expiry of keys (expiry is in Authorization) and service keys (they are in
  Tenants and Authorization).
- Archived wrap keys: the store can archive a version, and nothing in the repository calls it.
- In-memory stores: the development backend. Each call is one critical section, so none of these
  interleavings arises. (Its delegation store's paging starts over when the delegation a cursor names
  has been deleted; the Postgres store compares with the cursor and does not.)
- Tracing, configuration, the command line, generated codecs.

## 9. Plan

Done:

1. policies, principals, keys, delegations and bucket deletion of one tenant, with locks and faults; type
   correctness and the two ownership invariants proved;
2. the life of tenants, with the vault, the PLC directory, the upload and the revocation service as
   participants that fail before or after taking effect;
3. the readers of Access; the decision on a request, from its signature to the delegations issued;
4. provider administration and routing, the usage series and its listing as a refinement, the vault's
   logins; the invariants of routing and of the logins proved;
5. theorems about access control: compare-and-set from the bucket lock, grants from the locks of the
   callback, revocations and private keys from the delegation locks; theorems about tenants;
6. theorems about the decision on a request, for every request, and about the readers: what `Authorize`
   and `Info` report was true at one moment.

7. the abstract specification of access control, one atomic step per operation, that Access implements
   (`Entitlements`), the order of its locks, and the usage series, all proved.

Left:

- service keys in Access, whose delegations no policy write rotates.
