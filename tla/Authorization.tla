--------------------------- MODULE Authorization ---------------------------
(***************************************************************************)
(* The authorization of one S3 request: pkg/rpc/service/auth/auth.go and   *)
(* the /s3/request/authorize handler of pkg/rpc/authorize.go.              *)
(*                                                                         *)
(* A client signs a request, whatever relays it may change what reaches    *)
(* hilt, and hilt answers from the records it finds (the world):           *)
(*   key        the access key: its kind, and for a service key its        *)
(*              permissions and bucket scope (empty admits every bucket)   *)
(*   principals the tenant's principals;  status  the tenant's             *)
(*   buckets    by name: the tenant, the provider, the policy, the root    *)
(*   served     the provider of each region;  issuer  who asks             *)
(* The reads are taken here at one moment; Readers has them race writes.   *)
(***************************************************************************)
EXTENDS SigV4

CONSTANTS
    Cases,         \* a request a client signs, hilt's records and the time it arrives
    Alterations,   \* what a relay makes of a request
    People         \* the ids of principals

VARIABLES
    world, now,
    sent,      \* the request as it was signed
    request,   \* the request as hilt receives it
    answer     \* hilt's answer

vars == <<world, now, sent, request, answer>>

Never == 0         \* the expiry of a key that has none
Absent == "absent" \* the provider of an unserved region, the tenant of a missing bucket
Tenant == "tenant" \* the key's tenant

Policy == INSTANCE PolicyDoc
            WITH Principals <- People,
                 Actions <- PolicyActions,
                 Commands <- UNION {CommandsOfPermission(p) : p \in S3Permissions},
                 CommandsOf <- [p \in PolicyActions |-> CommandsOfPermission(p)]

\* The bucket names a request may ask for: its path's, and those a parseable copy
\* source names.
PathNames(r) == IF r.bucket = NoName THEN {} ELSE {r.bucket}
CopyNames(c) == IF parseCopySource(c) THEN {c.bucket} ELSE {}

\* Hilt's records have every name: a missing bucket is absent.
RecordsAssumption ==
    \A c \in Cases :
        /\ DOMAIN c.world = {"key", "status", "buckets", "principals", "issuer", "served"}
        /\ c.world.key.expires \in Nat
        /\ \A n \in DOMAIN c.world.buckets :
              /\ DOMAIN c.world.buckets[n] = {"tenant", "provider", "policy", "root"}
              /\ c.world.buckets[n].policy \in Policy!Documents
        /\ PathNames(c.request) \cup CopyNames(c.request.copy) \subseteq DOMAIN c.world.buckets
        /\ \A a \in Alterations :
              /\ "bucket" \in DOMAIN a => PathNames(a) \subseteq DOMAIN c.world.buckets
              /\ "copy" \in DOMAIN a => CopyNames(a.copy) \subseteq DOMAIN c.world.buckets

\* A client signs what it sends, with whatever secret, and a relay cannot.
SignedAssumption ==
    /\ \A c \in Cases :
          /\ {"bucket", "copy", "signature"} \subseteq DOMAIN c.request
          /\ c.request.signature.over = StringToSign(c.request)
          /\ c.request.scopeDate \in Nat /\ c.request.date \in Nat /\ c.time \in Nat
    /\ \A a \in Alterations : "signature" \notin DOMAIN a

ASSUME RequestsAssumption == RecordsAssumption /\ SignedAssumption

-----------------------------------------------------------------------------
(***************************************************************************)
(* Authentication, the tenant and the provider.                            *)
(***************************************************************************)

\* The provider of one of the request's regions must be the one who asks.
resolveProvider(w, r) ==
    LET serving == {w.served[r.regions[i]] : i \in DOMAIN r.regions} \ {Absent}
    IN  IF w.issuer \in serving THEN "none"
        ELSE IF serving # {} THEN "IssuerForbidden" ELSE "RegionNotServed"

authenticate(w, r, t) ==
    IF ~Parses(r) THEN "MalformedSignature"
    ELSE IF r.keyID = "garbled" THEN "InvalidAccessKeyID"
    ELSE IF r.keyID # w.key.id THEN "UnknownAccessKey"
    ELSE IF w.key.expires # Never /\ t > w.key.expires THEN "AccessKeyExpired"
    ELSE IF ~Verify(r, w.key.secret) THEN "SignatureMismatch"
    ELSE IF ~ValidTime(r, t) THEN "SignatureExpired"
    ELSE IF w.status = "disabled" THEN "TenantDisabled"
    ELSE resolveProvider(w, r)

-----------------------------------------------------------------------------
(***************************************************************************)
(* What the credential may do.                                             *)
(***************************************************************************)
resolveBucket(w, name) ==
    CASE w.buckets[name].tenant = Absent -> "UnknownBucket"
      [] w.buckets[name].tenant = Tenant -> "none"
      [] OTHER -> "ForeignBucket"

assertServedBy(w, name) ==
    IF w.buckets[name].provider = w.issuer THEN "none" ELSE "BucketRegionMismatch"

\* A service key's bucket, within its scope.
resolveBucketInScope(w, name) ==
    IF resolveBucket(w, name) # "none" THEN resolveBucket(w, name)
    ELSE IF w.key.scope # {} /\ name \notin w.key.scope THEN "BucketNotPermitted"
    ELSE assertServedBy(w, name)

effectiveActions(w, name) == Policy!Effective(w.buckets[name].policy, w.key.principal)

\* Mutant of principalAccess: where the bucket lives is asked first.
principalAccessServedFirst(w, name, perms) ==
    IF resolveBucket(w, name) # "none" THEN resolveBucket(w, name)
    ELSE IF assertServedBy(w, name) # "none" THEN assertServedBy(w, name)
    ELSE IF effectiveActions(w, name) = {} THEN "UnknownBucket"
    ELSE IF ~(perms \subseteq effectiveActions(w, name)) THEN "OperationNotPermitted"
    ELSE "none"

\* A principal's bucket: one it holds no action on is unknown to it.
principalAccess(w, name, perms) ==
    IF resolveBucket(w, name) # "none" THEN resolveBucket(w, name)
    ELSE IF effectiveActions(w, name) = {} THEN "UnknownBucket"
    ELSE IF ~(perms \subseteq effectiveActions(w, name)) THEN "OperationNotPermitted"
    ELSE assertServedBy(w, name)

\* Mutant of serviceAccess: the copy source's bucket is not looked at.
serviceAccessDestinationOnly(w, r, op) ==
    IF ~(permissions(r, op) \subseteq w.key.permissions) THEN "OperationNotPermitted"
    ELSE IF ~addressesExistingBucket(op) THEN "none"
    ELSE resolveBucketInScope(w, r.bucket)

serviceAccess(w, r, op) ==
    IF ~(permissions(r, op) \subseteq w.key.permissions) THEN "OperationNotPermitted"
    ELSE IF ~addressesExistingBucket(op) THEN "none"
    ELSE IF resolveBucketInScope(w, r.bucket) # "none" \/ ~CopiesSource(op)
        THEN resolveBucketInScope(w, r.bucket)
    ELSE IF sourcePermission(r) \notin w.key.permissions THEN "OperationNotPermitted"
    ELSE IF r.copy.bucket = r.bucket THEN "none"
    ELSE resolveBucketInScope(w, r.copy.bucket)

\* The operations no policy grants.
ungrantable ==
    {"CreateBucket", "DeleteBucket", "GetBucketPolicy", "PutBucketPolicy",
     "DeleteBucketPolicy", "GetBucketPolicyStatus", "GetBucketEncryption",
     "PutBucketEncryption", "DeleteBucketEncryption", "PutBucketTagging",
     "DeleteBucketTagging", "PutBucketVersioning", "PutObjectLockConfiguration",
     "PutBucketCors", "DeleteBucketCors"}

memberAccess(w, r, op) ==
    IF w.key.principal \notin w.principals THEN "UnknownAccessKey"
    ELSE IF op = "ListBuckets" THEN "none"
    ELSE IF op \in ungrantable THEN "OperationNotPermitted"
    ELSE IF principalAccess(w, r.bucket, permissions(r, op)) # "none" \/ ~CopiesSource(op)
        THEN principalAccess(w, r.bucket, permissions(r, op))
    ELSE IF r.copy.bucket # r.bucket
        THEN principalAccess(w, r.copy.bucket, {sourcePermission(r)})
    ELSE IF sourcePermission(r) \in effectiveActions(w, r.bucket) THEN "none"
    ELSE "OperationNotPermitted"

authorizeOperation(w, r, op) ==
    IF w.key.kind = "service" THEN serviceAccess(w, r, op) ELSE memberAccess(w, r, op)

\* Why the request is refused, "none" when it is authorized.
Authorize(w, r, t) ==
    IF authenticate(w, r, t) # "none" THEN authenticate(w, r, t)
    ELSE IF undecidable(r) # "none" THEN undecidable(r)
    ELSE authorizeOperation(w, r, operationOf(r))

-----------------------------------------------------------------------------
(***************************************************************************)
(* The delegations an authorized request is answered with.                 *)
(***************************************************************************)
AsyncOverhang == 4 * 3600 * Second
CleanupLifetime == 8 * Day
cleanupCommands == {"blob/remove", "blob/abort", "upload/remove"}

WholeSeconds(t) == (t \div Second) * Second

\* Mutant of requestExpiry: the expiry of the key does not cap it.
requestExpiryUncapped(w, t) == NextMidnight(t) + MaxClockSkew + AsyncOverhang

\* Past the derived key's day, but never past the access key's own expiry.
requestExpiry(w, t) ==
    LET exp == NextMidnight(t) + MaxClockSkew + AsyncOverhang
        cap == WholeSeconds(w.key.expires)
    IN  IF w.key.expires # Never /\ cap < exp THEN cap ELSE exp

Delegations(by, name, cmds, exp) ==
    [by : {by}, bucket : {name}, command : cmds, exp : {exp}]

issuePermissionDelegations(name, perm, exp) ==
    Delegations("key", name, CommandsOfPermission(perm), exp)

\* By the tenant, through the bucket's root delegation, for as long as the
\* gateway may put the cleanup off.
issueCleanupDelegations(w, name, perm, t) ==
    IF w.buckets[name].root
    THEN Delegations("tenant", name, CommandsOfPermission(perm) \cap cleanupCommands,
                     NextMidnight(t) + MaxClockSkew + CleanupLifetime)
    ELSE {}

issued(w, r, t) ==
    LET op == operationOf(r)
        perm == Permission(op)
        exp == requestExpiry(w, t)
    IN  IF ~addressesExistingBucket(op) THEN {}
        ELSE issuePermissionDelegations(r.bucket, perm, exp)
            \cup issueCleanupDelegations(w, r.bucket, perm, t)
            \cup (IF CopiesSource(op) /\ r.copy.bucket # r.bucket
                  THEN issuePermissionDelegations(r.copy.bucket, sourcePermission(r), exp)
                  ELSE {})

NoKey == [by |-> "nobody", scope |-> <<>>]
NotAsked == [result |-> "not asked", op |-> Refused, dlgs |-> {}, key |-> NoKey]

AuthorizeRequest(w, r, t) ==
    LET why == Authorize(w, r, t)
    IN  IF why = "none"
        THEN [result |-> "authorized", op |-> operationOf(r), dlgs |-> issued(w, r, t),
              key |-> DeriveKey(r, w.key.secret)]
        ELSE [NotAsked EXCEPT !.result = why]

-----------------------------------------------------------------------------
Init ==
    /\ \E c \in Cases : sent = c.request /\ world = c.world /\ now = c.time
    /\ request = sent
    /\ answer = NotAsked

\* The request is relayed, and changed on the way.
Relay ==
    /\ answer = NotAsked /\ request = sent
    /\ \E a \in Alterations :
          request' = [f \in DOMAIN sent |-> IF f \in DOMAIN a THEN a[f] ELSE sent[f]]
    /\ UNCHANGED <<world, now, sent, answer>>

Decide ==
    /\ answer = NotAsked
    /\ answer' = AuthorizeRequest(world, request, now)
    /\ UNCHANGED <<world, now, sent, request>>

Next == Relay \/ Decide

Spec == Init /\ [][Next]_vars

-----------------------------------------------------------------------------
(***************************************************************************)
(* Properties.                                                             *)
(***************************************************************************)
Authorized == answer.result = "authorized"

\* Nothing outside the signature changes what is decided: a request authorized
\* as relayed performs the operation, on the buckets and with the permissions,
\* of the request its signer made, if that can be decided on at all.  Headers
\* count only when listed as signed, a body only when a signed hash covers it.
OnlySignedDecides ==
    Authorized /\ undecidable(sent) = "none" =>
        /\ operationOf(request) = operationOf(sent)
        /\ permissions(request, answer.op) = permissions(sent, answer.op)
        /\ RequirementsFor(request) = RequirementsFor(sent)

\* What a credential holds on a bucket it can reach.
Reachable(w, name) ==
    /\ w.buckets[name].tenant = Tenant /\ w.buckets[name].provider = w.issuer
    /\ w.key.kind = "service" /\ w.key.scope # {} => name \in w.key.scope
Holds(w, name, perm) ==
    IF w.key.kind = "service" THEN perm \in w.key.permissions
    ELSE perm \in effectiveActions(w, name) /\ w.key.principal \in w.principals

\* RequirementsFor mirrors Authorize: on an authentic request for an existing
\* bucket the gateway, deciding from the requirements and what the credential
\* holds, and hilt come to the same decision.
MirrorAgrees ==
    answer # NotAsked /\ authenticate(world, request, now) = "none"
            /\ routeError(request) = "none" /\ addressesExistingBucket(operationOf(request)) =>
        (Authorized <=> /\ undecidable(request) = "none"
                        /\ \A q \in RequirementsFor(request) :
                              Reachable(world, q[1]) /\ Holds(world, q[1], q[2]))

\* The gateway can serve what it was authorized to: the derived key verifies the
\* request, and the delegations cover every command of every permission the
\* request needs, though only those of the operation's own permission are issued;
\* none is for a command no permission of the credential stands for.
DelegationsCover ==
    Authorized =>
        /\ VerifyWithKey(request, answer.key)
        /\ \A q \in RequirementsFor(request) : \A c \in CommandsOfPermission(q[2]) :
              \E d \in answer.dlgs : d.by = "key" /\ d.bucket = q[1] /\ d.command = c
        /\ \A d \in answer.dlgs : \E p \in S3Permissions :
              Holds(world, d.bucket, p) /\ d.command \in CommandsOfPermission(p)

\* The world as the credential may know it: without the buckets it holds no
\* action on, or with those out of its scope living wherever it asks.
Visible(w) ==
    [w EXCEPT !.buckets =
        [n \in DOMAIN @ |->
            IF @[n].tenant # Tenant THEN @[n]
            ELSE IF w.key.kind = "service"
            THEN IF n \in w.key.scope \/ w.key.scope = {} THEN @[n]
                 ELSE [@[n] EXCEPT !.provider = w.issuer]
            ELSE IF effectiveActions(w, n) # {} THEN @[n]
                 ELSE [@[n] EXCEPT !.tenant = Absent]]]

\* A caller learns nothing of a bucket beyond its reach: hilt answers as if a
\* principal's unreachable buckets did not exist, and as if it did not know where
\* the buckets outside a service key's scope live.
UnreachableIsUnknown ==
    answer # NotAsked => answer = AuthorizeRequest(Visible(world), request, now)

\* The last use of what an answer hands out: the derived key verifies a request signed
\* just before its day's midnight until the skew after it.  If the key's day is ahead of
\* hilt's, only the request that was answered is accounted for, by the time it bears.
LastUse(r, t) ==
    IF r.scopeDate <= t \div Day THEN (r.scopeDate + 1) * Day + MaxClockSkew ELSE r.date

\* A delegation of the credential never outlives its key.  It is in time when it is
\* issued and lets the work of the last use finish, or it was cut to the whole second its
\* key's end is in; that second may have begun, but no later one has.  A cleanup has its
\* whole lifetime from the last use.
ExpiryFits ==
    Authorized =>
        \A d \in answer.dlgs :
            CASE d.by = "key" ->
                    /\ world.key.expires # Never => d.exp <= world.key.expires
                    /\ \/ d.exp > now /\ d.exp >= LastUse(request, now) + AsyncOverhang
                       \/ /\ world.key.expires # Never
                          /\ d.exp = WholeSeconds(world.key.expires) /\ d.exp + Second > now
              [] d.by = "tenant" -> d.exp >= LastUse(request, now) + CleanupLifetime

-----------------------------------------------------------------------------
(***************************************************************************)
(* What the code's comments say and the steps above do not do.             *)
(***************************************************************************)

\* Authorize: a WriteLocked tenant is let through because "write handlers gate
\* WriteLocked themselves".
WriteLockedWritesRefused ==
    Authorized /\ world.status = "write-locked" =>
        \A d \in answer.dlgs : d.command = "content/retrieve"
=============================================================================
