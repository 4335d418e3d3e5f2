------------------------ MODULE AuthorizationProofs ------------------------
(***************************************************************************)
(* Proofs about Authorization: for every request, every set of records and *)
(* everything a relay makes of what was signed.                            *)
(*                                                                         *)
(* The state machine is two steps, so the invariant says little: what was  *)
(* signed, and that the answer is AuthorizeRequest of what arrived.  The   *)
(* work is in the lemmas about the decision itself: that it rests on what  *)
(* the signature covers only, that the gateway's mirror of it agrees, what *)
(* the delegations are for, and what it does not tell.                     *)
(***************************************************************************)
EXTENDS Authorization, TLAPS

-----------------------------------------------------------------------------
(***************************************************************************)
(* Operations, permissions and commands.                                   *)
(***************************************************************************)

\* The operations of the routes with a subresource.
Subresourced ==
    {"GetBucketLocation", "GetBucketTagging", "GetBucketVersioning", "GetBucketPolicy",
     "GetBucketCors", "GetBucketAcl", "GetObjectLockConfiguration",
     "ListBucketMultipartUploads", "ListBucketVersions", "GetBucketPolicyStatus",
     "GetBucketEncryption", "PutBucketTagging", "PutBucketVersioning",
     "PutObjectLockConfiguration", "PutBucketCors", "PutBucketPolicy",
     "PutBucketEncryption", "DeleteBucketTagging", "DeleteBucketPolicy",
     "DeleteBucketCors", "DeleteBucketEncryption", "DeleteObjects",
     "GetObjectTagging", "GetObjectRetention", "GetObjectLegalHold",
     "GetObjectAttributes", "ListMultipartUploadParts", "PutObjectTagging",
     "PutObjectRetention", "PutObjectLegalHold", "UploadPart",
     "CompleteMultipartUpload", "CreateMultipartUpload",
     "DeleteObjectTagging", "AbortMultipartUpload"}

LEMMA RoutesAre ==
    \A t \in bucketRoutes \cup objectRoutes : t[3] \in Subresourced \cup {Refused}
  <1>1. \A t \in bucketRoutes : t[3] \in Subresourced \cup {Refused}
    BY DEF bucketRoutes, Subresourced
  <1>2. \A t \in objectRoutes : t[3] \in Subresourced \cup {Refused}
    BY DEF objectRoutes, Subresourced
  <1>3. QED
    BY <1>1, <1>2

\* A route that is not refused is an operation with a permission.
LEMMA OperationKnown ==
    ASSUME NEW r, routeError(r) = "none"
    PROVE  operationOf(r) \in Operations
  <1>1. operationOf(r) # Refused
    BY DEF routeError
  <1>2. \A t \in bucketRoutes \cup objectRoutes : t[3] \in Operations \cup {Refused}
    <2>1. Subresourced \subseteq Operations
      BY DEF Subresourced, Operations, OperationPermission
    <2>2. QED
      BY <2>1, RoutesAre
  <1>3. Routed(r) \subseteq Operations \cup {Refused}
    BY <1>2 DEF Routed
  <1>4. plainOperation(r) \in Operations \cup {Refused}
    BY DEF plainOperation, Reading, Deleting, copied, Operations, OperationPermission, Refused
  <1>5. partUpload(r) \in Operations \cup {Refused}
    BY DEF partUpload, copied, Operations, OperationPermission, Refused
  <1>6. CASE r.bucket = NoName
    BY <1>1, <1>6 DEF operationOf, Operations, OperationPermission, Refused
  <1>7. CASE r.bucket # NoName /\ Routed(r) = {}
    BY <1>1, <1>4, <1>7 DEF operationOf
  <1>8. CASE r.bucket # NoName /\ Routed(r) = {"UploadPart"}
    BY <1>1, <1>5, <1>8 DEF operationOf
  <1>9. CASE r.bucket # NoName /\ Routed(r) # {} /\ Routed(r) # {"UploadPart"}
    <2>1. operationOf(r) = CHOOSE op \in Routed(r) : TRUE
      BY <1>9 DEF operationOf
    <2>2. operationOf(r) \in Routed(r)
      BY <1>9, <2>1
    <2>3. QED
      BY <1>1, <1>3, <2>2
  <1>10. QED
    BY <1>6, <1>7, <1>8, <1>9

\* What no policy grants is no policy's action.
LEMMA UngrantableIsNone ==
    ASSUME NEW op \in ungrantable
    PROVE  Permission(op) \notin PolicyActions
  <1>1. Permission(op) \in {"s3:CreateBucket", "s3:DeleteBucket", "s3:ListAllMyBuckets",
                     "s3:GetBucketPolicy", "s3:PutBucketPolicy", "s3:DeleteBucketPolicy",
                     "s3:GetBucketPolicyStatus", "s3:GetEncryptionConfiguration",
                     "s3:PutEncryptionConfiguration", "s3:PutBucketTagging",
                     "s3:PutBucketVersioning", "s3:PutBucketObjectLockConfiguration",
                     "s3:PutBucketCORS"}
    BY DEF ungrantable, Permission, OperationPermission
  <1>2. QED
    BY <1>1 DEF PolicyActions

\* The commands of the operation's own permission do for every other one it needs.
LEMMA OwnCommandsDo ==
    ASSUME NEW r, NEW op \in Operations, addressesExistingBucket(op),
           NEW p \in permissions(r, op)
    PROVE  CommandsOfPermission(p) \subseteq CommandsOfPermission(Permission(op))
  <1>1. CASE p = Permission(op)
    BY <1>1
  <1>2. CASE p \in companionPermission(op)
    <2>1. op = "GetObjectAttributes" /\ p = "s3:GetObject"
      BY <1>2 DEF companionPermission
    <2>2. Permission(op) = "s3:GetObjectAttributes"
      BY <2>1 DEF Permission, OperationPermission
    <2>3. QED
      BY <2>1, <2>2 DEF CommandsOfPermission
  <1>3. CASE p \in headerPermissions(r, op)
    <2>1. PICK h : p \in headerNeeds(op, h)
      BY <1>3 DEF headerPermissions
    <2>2. CASE op \in Writes
      <3>1. Permission(op) = "s3:PutObject"
        BY <2>2 DEF Writes, Permission, OperationPermission
      <3>2. p \in {"s3:PutObjectRetention", "s3:PutObjectLegalHold", "s3:PutObjectTagging"}
        BY <2>1, <2>2 DEF headerNeeds, Writes, Bypassed
      <3>3. CommandsOfPermission(p) = CatalogWrite
        BY <3>2 DEF CommandsOfPermission
      <3>4. CommandsOfPermission(Permission(op)) = AddCommands
        BY <3>1 DEF CommandsOfPermission
      <3>5. QED
        BY <3>3, <3>4 DEF AddCommands
    <2>3. CASE op \notin Writes
      <3>1. p = "s3:BypassGovernanceRetention"
        BY <2>1, <2>3 DEF headerNeeds, Writes, Bypassed, addressesExistingBucket
      <3>2. QED
        BY <3>1 DEF CommandsOfPermission
    <2>4. QED
      BY <2>2, <2>3
  <1>4. CASE p \in bodyPermissions(r, op)
    <2>1. op = "DeleteObjects" /\ p = "s3:DeleteObjectVersion"
      BY <1>4 DEF bodyPermissions, ReadsBody
    <2>2. Permission(op) = "s3:DeleteObject"
      BY <2>1 DEF Permission, OperationPermission
    <2>3. QED
      BY <2>1, <2>2 DEF CommandsOfPermission
  <1>5. QED
    BY <1>1, <1>2, <1>3, <1>4 DEF permissions, OwnPermissions

\* A copy reads its source with a command it also writes with.
LEMMA SourceCommandsDo ==
    ASSUME NEW r, NEW op, CopiesSource(op)
    PROVE  /\ CommandsOfPermission(sourcePermission(r)) \subseteq
                 CommandsOfPermission(Permission(op))
           /\ sourcePermission(r) \in S3Permissions
  <1>1. Permission(op) = "s3:PutObject"
    BY DEF CopiesSource, Permission, OperationPermission
  <1>2. sourcePermission(r) \in {"s3:GetObject", "s3:GetObjectVersion"}
    BY DEF sourcePermission
  <1>3. CommandsOfPermission(sourcePermission(r)) = Retrieve
    BY <1>2 DEF CommandsOfPermission
  <1>4. CommandsOfPermission(Permission(op)) = AddCommands
    BY <1>1 DEF CommandsOfPermission
  <1>5. /\ Permission("GetObject") = "s3:GetObject"
        /\ Permission("GetObjectVersion") = "s3:GetObjectVersion"
    BY DEF Permission, OperationPermission
  <1>6. "GetObject" \in Operations /\ "GetObjectVersion" \in Operations
    BY DEF Operations, OperationPermission
  <1>7. QED
    BY <1>2, <1>3, <1>4, <1>5, <1>6 DEF Retrieve, AddCommands, CatalogWrite, S3Permissions

-----------------------------------------------------------------------------
(***************************************************************************)
(* The decision rests on what is signed.                                   *)
(***************************************************************************)

\* Requests with one string to sign agree on all that it covers.
LEMMA SignedAlike ==
    ASSUME NEW r, NEW u, StringToSign(r) = StringToSign(u)
    PROVE  /\ r.method = u.method /\ r.bucket = u.bucket /\ r.key = u.key
           /\ r.query = u.query /\ r.payload = u.payload /\ r.signed = u.signed
           /\ r.scopeDate = u.scopeDate /\ r.date = u.date
           /\ \A h \in r.signed :
                 /\ Has(r, h) <=> Has(u, h)
                 /\ Has(r, h) => r.headers[h] = u.headers[h]
           /\ HeaderSigned(r, CopySource) => r.copy = u.copy
           /\ HeaderSigned(r, Checksum) => r.checksum = u.checksum
  <1>. DEFINE S(v) == StringToSign(v)
  <1>1. \A v : /\ S(v).method = v.method /\ S(v).path = <<v.bucket, v.key>>
               /\ S(v).query = v.query /\ S(v).payload = v.payload
               /\ S(v).names = v.signed /\ S(v).scope = Scope(v) /\ S(v).date = v.date
               /\ S(v).headers = {<<h, v.headers[h]>> : h \in (DOMAIN v.headers) \cap v.signed}
               /\ S(v).copy = IF HeaderSigned(v, CopySource) THEN {v.copy} ELSE {}
               /\ S(v).checksum = IF HeaderSigned(v, Checksum) THEN {v.checksum} ELSE {}
    BY DEF StringToSign
  <1>. HIDE DEF S
  <1>2. S(r) = S(u)
    BY DEF S
  <1>3. /\ r.method = u.method /\ r.query = u.query /\ r.payload = u.payload
        /\ r.signed = u.signed /\ <<r.bucket, r.key>> = <<u.bucket, u.key>>
        /\ Scope(r) = Scope(u) /\ r.date = u.date
    BY <1>1, <1>2
  <1>4. r.bucket = u.bucket /\ r.key = u.key /\ r.scopeDate = u.scopeDate
    BY <1>3 DEF Scope
  <1>5. ASSUME NEW v, NEW w, v.signed = w.signed, S(v) = S(w), NEW h \in v.signed, Has(v, h)
        PROVE  Has(w, h) /\ v.headers[h] = w.headers[h]
    <2>1. <<h, v.headers[h]>> \in S(v).headers
      BY <1>1, <1>5 DEF Has
    <2>2. <<h, v.headers[h]>> \in S(w).headers
      BY <1>5, <2>1
    <2>3. PICK g \in (DOMAIN w.headers) \cap w.signed : <<h, v.headers[h]>> = <<g, w.headers[g]>>
      BY <1>1, <2>2
    <2>4. QED
      BY <2>3 DEF Has
  <1>6. \A h \in r.signed : /\ Has(r, h) <=> Has(u, h)
                            /\ Has(r, h) => r.headers[h] = u.headers[h]
    BY <1>2, <1>3, <1>5
  <1>7. HeaderSigned(r, CopySource) => r.copy = u.copy
    BY <1>1, <1>2, <1>3 DEF HeaderSigned
  <1>8. HeaderSigned(r, Checksum) => r.checksum = u.checksum
    BY <1>1, <1>2, <1>3 DEF HeaderSigned
  <1>9. QED
    BY <1>3, <1>4, <1>6, <1>7, <1>8

\* The header of a copy is the only unsigned thing an operation depends on, and one
\* of the two operations is then a copy.
LEMMA OneOperation ==
    ASSUME NEW r, NEW u, StringToSign(r) = StringToSign(u),
           undecidable(r) = "none", undecidable(u) = "none"
    PROVE  /\ operationOf(r) = operationOf(u)
           /\ CopiesSource(operationOf(r)) => r.copy = u.copy
  <1>1. /\ r.method = u.method /\ r.bucket = u.bucket /\ r.key = u.key /\ r.query = u.query
        /\ HeaderSigned(r, CopySource) => r.copy = u.copy
        /\ r.signed = u.signed
    BY SignedAlike
  <1>2. ASSUME NEW v, undecidable(v) = "none", CopiesSource(operationOf(v))
        PROVE  HeaderSigned(v, CopySource)
    <2>1. ~unsignedHeader(v, operationOf(v))
      BY <1>2 DEF undecidable
    <2>2. QED
      BY <1>2, <2>1 DEF unsignedHeader, headersOf, HeaderSigned
  <1>3. CASE HeaderSigned(r, CopySource)
    <2>1. r.copy = u.copy
      BY <1>1, <1>3
    <2>2. Routed(r) = Routed(u) /\ partUpload(r) = partUpload(u)
      BY <1>1, <2>1 DEF Routed, subresourcesOf, partUpload, copied
    <2>3. plainOperation(r) = plainOperation(u)
      BY <1>1, <2>1 DEF plainOperation, Reading, Deleting, copied
    <2>4. operationOf(r) = operationOf(u)
      BY <1>1, <2>2, <2>3 DEF operationOf
    <2>5. QED
      BY <2>1, <2>4
  <1>4. CASE ~HeaderSigned(r, CopySource)
    <2>1. ~CopiesSource(operationOf(r)) /\ ~CopiesSource(operationOf(u))
      BY <1>1, <1>2, <1>4 DEF HeaderSigned
    <2>2. Routed(r) = Routed(u)
      BY <1>1 DEF Routed, subresourcesOf
    <2>3. /\ plainOperation(r) = plainOperation(u)
             \/ CopiesSource(plainOperation(r)) \/ CopiesSource(plainOperation(u))
          /\ partUpload(r) = partUpload(u)
             \/ CopiesSource(partUpload(r)) \/ CopiesSource(partUpload(u))
      BY <1>1 DEF plainOperation, Reading, Deleting, partUpload, copied, CopiesSource
    <2>4. operationOf(r) = operationOf(u)
      BY <1>1, <2>1, <2>2, <2>3 DEF operationOf
    <2>5. QED
      BY <2>1, <2>4
  <1>5. QED
    BY <1>3, <1>4

\* A body that counts is the one the signature covers.
LEMMA OneBody ==
    ASSUME NEW r, NEW u, StringToSign(r) = StringToSign(u), NEW op, ReadsBody(op),
           boundBody(r, op) = "none", boundBody(u, op) = "none"
    PROVE  r.body = u.body
  <1>1. /\ r.payload = u.payload /\ r.signed = u.signed
        /\ HeaderSigned(r, Checksum) => r.checksum = u.checksum
    BY SignedAlike
  <1>2. ASSUME NEW v, boundBody(v, op) = "none"
        PROVE  /\ v.body # UnsignedPayload
               /\ HasChecksum(v) => HeaderSigned(v, Checksum)
               /\ v.checksum \in {v.body, UnsignedPayload}
               /\ v.payload \in {v.body, UnsignedPayload}
               /\ v.body \in {v.checksum, v.payload}
    <2>1. v.body.size # 0
      BY <1>2 DEF boundBody
    <2>2. UnsignedPayload.size = 0
      BY DEF UnsignedPayload, NoBody
    <2>3. QED
      BY <1>2, <2>1, <2>2 DEF boundBody, HeaderSigned
  <1>3. CASE r.payload # UnsignedPayload
    BY <1>1, <1>2, <1>3
  <1>4. CASE r.payload = UnsignedPayload
    <2>1. r.checksum = r.body /\ u.checksum = u.body
      BY <1>1, <1>2, <1>4
    <2>2. HeaderSigned(r, Checksum)
      BY <1>2, <2>1 DEF HasChecksum
    <2>3. QED
      BY <1>1, <2>1, <2>2
  <1>5. QED
    BY <1>3, <1>4

\* A header that counts is signed, so it is there in both, with one value.
LEMMA OneHeaderSet ==
    ASSUME NEW r, NEW u, StringToSign(r) = StringToSign(u), NEW op,
           ~unsignedHeader(r, op), ~unsignedHeader(u, op)
    PROVE  decidedFrom(r, op) = decidedFrom(u, op)
  <1>1. ASSUME NEW v, NEW w, StringToSign(v) = StringToSign(w), ~unsignedHeader(v, op),
               NEW h \in decidedFrom(v, op)
        PROVE  h \in decidedFrom(w, op)
    <2>1. ASSUME NEW g \in decidedFrom(v, op)
          PROVE  Has(w, g) /\ v.headers[g] = w.headers[g]
      <3>1. Has(v, g)
        BY DEF decidedFrom, Has
      <3>2. g \in v.signed
        BY <1>1 DEF unsignedHeader, headersOf
      <3>3. QED
        BY <1>1, <3>1, <3>2, SignedAlike
    <2>2. h \in DOMAIN w.headers /\ v.headers[h] = w.headers[h]
      BY <1>1, <2>1 DEF Has
    <2>3. CASE h # "tagging" \/ op # "CopyObject"
      BY <1>1, <2>2, <2>3 DEF decidedFrom, Writes
    <2>4. CASE h = "tagging" /\ op = "CopyObject"
      <3>1. Says(v, "tagging-directive", "REPLACE")
        BY <1>1, <2>4 DEF decidedFrom
      <3>2. "tagging-directive" \in decidedFrom(v, op)
        BY <2>4, <3>1 DEF decidedFrom, Says, Has
      <3>3. Says(w, "tagging-directive", "REPLACE")
        BY <2>1, <3>1, <3>2 DEF Says
      <3>4. QED
        BY <2>2, <2>4, <3>3 DEF decidedFrom
    <2>5. QED
      BY <2>3, <2>4
  <1>2. QED
    BY <1>1

\* Two requests that can be decided on and have one string to sign need the same.
LEMMA OneDecision ==
    ASSUME NEW r, NEW u, StringToSign(r) = StringToSign(u),
           undecidable(r) = "none", undecidable(u) = "none"
    PROVE  /\ operationOf(r) = operationOf(u)
           /\ permissions(r, operationOf(r)) = permissions(u, operationOf(r))
           /\ RequirementsFor(r) = RequirementsFor(u)
  <1>. DEFINE op == operationOf(r)
  <1>1. operationOf(u) = op /\ (CopiesSource(op) => r.copy = u.copy)
    BY OneOperation
  <1>2. /\ ~unsignedHeader(r, op) /\ ~unsignedHeader(u, op)
        /\ boundBody(r, op) = "none" /\ boundBody(u, op) = "none"
    BY <1>1 DEF undecidable
  <1>. HIDE DEF op
  <1>3. headerPermissions(r, op) = headerPermissions(u, op)
    BY <1>2, OneHeaderSet DEF headerPermissions
  <1>4. bodyPermissions(r, op) = bodyPermissions(u, op)
    BY <1>2, OneBody DEF bodyPermissions
  <1>5. permissions(r, op) = permissions(u, op)
    BY <1>3, <1>4 DEF permissions
  <1>6. r.bucket = u.bucket
    BY SignedAlike
  <1>7. RequirementsFor(r) = RequirementsFor(u)
    BY <1>1, <1>5, <1>6 DEF RequirementsFor, sourcePermission, op
  <1>8. QED
    BY <1>1, <1>5, <1>7 DEF op

-----------------------------------------------------------------------------
(***************************************************************************)
(* The invariant.                                                          *)
(***************************************************************************)
Fields == {"key", "status", "buckets", "principals", "issuer", "served"}
BucketFields == {"tenant", "provider", "policy", "root"}

\* The records have the bucket, as hilt's have every bucket, if only as absent.
Recorded(w, n) == n \in DOMAIN w.buckets

Records(w) ==
    /\ DOMAIN w = Fields
    /\ w.key.expires \in Nat
    /\ \A n \in DOMAIN w.buckets : /\ DOMAIN w.buckets[n] = BucketFields
                                   /\ w.buckets[n].policy \in Policy!Documents

\* What was signed and what arrived carry one signature, made over what was signed.
Relayed ==
    /\ {"bucket", "copy", "signature"} \subseteq DOMAIN sent
    /\ sent.signature.over = StringToSign(sent)
    /\ sent.scopeDate \in Nat /\ sent.date \in Nat
    /\ request.signature = sent.signature
    /\ \A n \in PathNames(request) \cup CopyNames(request.copy) : Recorded(world, n)

Answered == answer # NotAsked => answer = AuthorizeRequest(world, request, now)

DecisionInv ==
    /\ world \in {c.world : c \in Cases}
    /\ Records(world) /\ now \in Nat /\ Relayed /\ Answered

LEMMA InitDecision == Init => DecisionInv
  <1>. SUFFICES ASSUME Init PROVE DecisionInv
    OBVIOUS
  <1>1. PICK c \in Cases : sent = c.request /\ world = c.world /\ now = c.time
    BY DEF Init
  <1>2. Records(world)
    BY <1>1, RequestsAssumption DEF RecordsAssumption, Records, Fields, BucketFields
  <1>3. request = sent
    BY DEF Init
  <1>4. now \in Nat /\ Relayed
    BY <1>1, <1>3, RequestsAssumption DEF RecordsAssumption, SignedAssumption, Relayed, Recorded
  <1>5. Answered
    BY DEF Init, Answered
  <1>6. QED
    BY <1>1, <1>2, <1>4, <1>5 DEF DecisionInv

LEMMA RelayDecision ==
    ASSUME DecisionInv, Relay
    PROVE  DecisionInv'
  <1>. USE DEF DecisionInv, Relay
  <1>1. PICK c \in Cases : world = c.world
    OBVIOUS
  <1>2. PICK a \in Alterations :
            request' = [f \in DOMAIN sent |-> IF f \in DOMAIN a THEN a[f] ELSE sent[f]]
    OBVIOUS
  <1>3. {"bucket", "copy", "signature"} \subseteq DOMAIN sent
    BY DEF Relayed
  <1>4. request'.signature = sent.signature
    BY <1>2, <1>3, RequestsAssumption DEF SignedAssumption
  <1>5. /\ request'.bucket = IF "bucket" \in DOMAIN a THEN a.bucket ELSE sent.bucket
        /\ request'.copy = IF "copy" \in DOMAIN a THEN a.copy ELSE sent.copy
    BY <1>2, <1>3
  <1>6. /\ "bucket" \in DOMAIN a => PathNames(a) \subseteq DOMAIN world.buckets
        /\ "copy" \in DOMAIN a => CopyNames(a.copy) \subseteq DOMAIN world.buckets
    BY <1>1, RequestsAssumption DEF RecordsAssumption
  <1>7. PathNames(sent) \cup CopyNames(sent.copy) \subseteq DOMAIN world.buckets
    BY DEF Relayed, Recorded
  <1>8. PathNames(request)' \subseteq DOMAIN world.buckets
    BY <1>5, <1>6, <1>7 DEF PathNames
  <1>9. CopyNames(request'.copy) \subseteq DOMAIN world.buckets
    BY <1>5, <1>6, <1>7
  <1>10. Relayed'
    BY <1>4, <1>8, <1>9 DEF Relayed, Recorded, CopyNames, PathNames
  <1>11. Answered'
    BY DEF Answered
  <1>12. QED
    BY <1>10, <1>11 DEF Records

LEMMA DecideDecision ==
    ASSUME DecisionInv, Decide
    PROVE  DecisionInv'
  <1>1. world' = world /\ now' = now /\ sent' = sent /\ request' = request
    BY DEF Decide
  <1>2. Relayed' /\ Records(world)'
    BY <1>1 DEF DecisionInv, Relayed, Records, PathNames, CopyNames, Recorded
  <1>3. answer' = AuthorizeRequest(world', request', now')
    BY <1>1 DEF Decide
  <1>4. Answered'
    BY <1>3 DEF Answered
  <1>5. QED
    BY <1>1, <1>2, <1>4 DEF DecisionInv

THEOREM Decisions == Spec => []DecisionInv
  <1>1. Init => DecisionInv
    BY InitDecision
  <1>2. DecisionInv /\ [Next]_vars => DecisionInv'
    <2>. SUFFICES ASSUME DecisionInv, [Next]_vars PROVE DecisionInv'
      OBVIOUS
    <2>1. CASE Relay
      BY <2>1, RelayDecision
    <2>2. CASE Decide
      BY <2>2, DecideDecision
    <2>3. CASE UNCHANGED vars
      <3>1. world' = world /\ now' = now /\ sent' = sent /\ request' = request /\ answer' = answer
        BY <2>3 DEF vars
      <3>2. Relayed' /\ Records(world)'
        BY <3>1 DEF DecisionInv, Relayed, Records, PathNames, CopyNames, Recorded
      <3>3. Answered'
        BY <3>1 DEF DecisionInv, Answered
      <3>4. QED
        BY <3>1, <3>2, <3>3 DEF DecisionInv
    <2>4. QED
      BY <2>1, <2>2, <2>3 DEF Next
  <1>3. QED
    BY <1>1, <1>2, PTL DEF Spec

\* No refusal is called "authorized".
LEMMA RefusalIsNamed ==
    ASSUME NEW w, NEW r, NEW t
    PROVE  Authorize(w, r, t) # "authorized"
  <1>1. authenticate(w, r, t) # "authorized"
    BY DEF authenticate, resolveProvider
  <1>2. undecidable(r) # "authorized"
    BY DEF undecidable, routeError, boundBody, readBody
  <1>3. \A n : resolveBucket(w, n) # "authorized" /\ assertServedBy(w, n) # "authorized"
    BY DEF resolveBucket, assertServedBy
  <1>4. \A op : serviceAccess(w, r, op) # "authorized"
    BY <1>3 DEF serviceAccess, resolveBucketInScope
  <1>5. \A op : memberAccess(w, r, op) # "authorized"
    BY <1>3 DEF memberAccess, principalAccess
  <1>6. QED
    BY <1>1, <1>2, <1>4, <1>5 DEF Authorize, authorizeOperation

\* What an authorized answer says.
LEMMA AuthorizedIs ==
    ASSUME DecisionInv
    PROVE  /\ Authorized => /\ Authorize(world, request, now) = "none"
                            /\ answer.op = operationOf(request)
                            /\ answer.dlgs = issued(world, request, now)
                            /\ answer.key = DeriveKey(request, world.key.secret)
           /\ answer # NotAsked =>
                 (Authorized <=> Authorize(world, request, now) = "none")
  <1>. DEFINE why == Authorize(world, request, now)
  <1>1. why # "authorized"
    BY RefusalIsNamed
  <1>2. NotAsked.result = "not asked"
    BY DEF NotAsked
  <1>3. CASE answer = NotAsked
    BY <1>2, <1>3 DEF Authorized
  <1>. HIDE DEF why
  <1>4. CASE answer # NotAsked /\ why = "none"
    <2>1. answer = [result |-> "authorized", op |-> operationOf(request),
                    dlgs |-> issued(world, request, now),
                    key |-> DeriveKey(request, world.key.secret)]
      BY <1>4 DEF DecisionInv, Answered, AuthorizeRequest, why
    <2>2. QED
      BY <1>4, <2>1 DEF Authorized, why
  <1>5. CASE answer # NotAsked /\ why # "none"
    <2>1. answer = [NotAsked EXCEPT !.result = why]
      BY <1>5 DEF DecisionInv, Answered, AuthorizeRequest, why
    <2>2. answer.result = why
      BY <2>1 DEF NotAsked
    <2>3. QED
      BY <1>1, <1>5, <2>2 DEF Authorized, why
  <1>6. QED
    BY <1>3, <1>4, <1>5

LEMMA AuthorizedPasses ==
    ASSUME NEW w, NEW r, NEW t, Authorize(w, r, t) = "none"
    PROVE  /\ authenticate(w, r, t) = "none" /\ undecidable(r) = "none"
           /\ authorizeOperation(w, r, operationOf(r)) = "none"
           /\ Verify(r, w.key.secret) /\ routeError(r) = "none"
           /\ w.key.expires # Never => ~(t > w.key.expires)
           /\ ValidTime(r, t)
  <1>1. authenticate(w, r, t) = "none" /\ undecidable(r) = "none"
        /\ authorizeOperation(w, r, operationOf(r)) = "none"
    BY DEF Authorize
  <1>2. /\ Verify(r, w.key.secret) /\ ValidTime(r, t)
        /\ w.key.expires # Never => ~(t > w.key.expires)
    BY <1>1 DEF authenticate
  <1>3. routeError(r) = "none"
    BY <1>1 DEF undecidable
  <1>4. QED
    BY <1>1, <1>2, <1>3

LEMMA OneString ==
    ASSUME DecisionInv, Authorized
    PROVE  StringToSign(request) = StringToSign(sent)
  <1>1. Verify(request, world.key.secret)
    BY AuthorizedIs, AuthorizedPasses
  <1>2. request.signature.over = StringToSign(request)
    BY <1>1 DEF Verify, signatureOf
  <1>3. QED
    BY <1>2 DEF DecisionInv, Relayed

\* Nothing outside the signature changes what is decided (auth.Authorize,
\* operation.go, body.go): headers, copy source and body count when signed only.
THEOREM OnlySignedAlwaysDecides == Spec => []OnlySignedDecides
  <1>1. DecisionInv => OnlySignedDecides
    <2>. SUFFICES ASSUME DecisionInv, Authorized, undecidable(sent) = "none"
                  PROVE  /\ operationOf(request) = operationOf(sent)
                         /\ permissions(request, answer.op) = permissions(sent, answer.op)
                         /\ RequirementsFor(request) = RequirementsFor(sent)
      BY DEF OnlySignedDecides
    <2>1. undecidable(request) = "none" /\ answer.op = operationOf(request)
      BY AuthorizedIs, AuthorizedPasses
    <2>2. QED
      BY <2>1, OneString, OneDecision
  <1>2. QED
    BY <1>1, Decisions, PTL

-----------------------------------------------------------------------------
(***************************************************************************)
(* The gateway's mirror.                                                   *)
(***************************************************************************)

\* A policy's actions are PolicyActions.
LEMMA EffectiveTyped ==
    ASSUME NEW w, Records(w), NEW n, Recorded(w, n)
    PROVE  effectiveActions(w, n) \subseteq PolicyActions
  <1>1. "*" \notin PolicyActions
    <2>1. "*" \notin S3Permissions
      <3>1. \A op \in Operations : Permission(op) # "*"
        BY DEF Operations, Permission, OperationPermission
      <3>2. QED
        BY <3>1 DEF S3Permissions
    <2>2. QED
      BY <2>1 DEF PolicyActions
  <1>2. w.buckets[n].policy \in Policy!Documents
    BY DEF Records, Recorded
  <1>3. \A st \in w.buckets[n].policy : Policy!expand(st.actions) \subseteq PolicyActions
    BY <1>2 DEF Policy!Documents, Policy!Statements, Policy!expand, Policy!PolicyWildcard
  <1>4. Policy!Gathered(w.buckets[n].policy, w.key.principal, "Allow") \subseteq PolicyActions
    BY <1>3 DEF Policy!Gathered
  <1>5. QED
    BY <1>4 DEF effectiveActions, Policy!Effective

LEMMA ScopeMirrors ==
    ASSUME NEW w, NEW n, w.key.kind = "service"
    PROVE  resolveBucketInScope(w, n) = "none" <=> Reachable(w, n)
  <1>1. resolveBucket(w, n) = "none" <=> w.buckets[n].tenant = Tenant
    BY DEF resolveBucket, Tenant, Absent
  <1>2. assertServedBy(w, n) = "none" <=> w.buckets[n].provider = w.issuer
    BY DEF assertServedBy
  <1>3. QED
    BY <1>1, <1>2 DEF resolveBucketInScope, Reachable

LEMMA PrincipalMirrors ==
    ASSUME NEW w, NEW n, w.key.kind # "service", NEW ps, ps # {}
    PROVE  principalAccess(w, n, ps) = "none" <=>
              Reachable(w, n) /\ ps \subseteq effectiveActions(w, n)
  <1>1. resolveBucket(w, n) = "none" <=> w.buckets[n].tenant = Tenant
    BY DEF resolveBucket, Tenant, Absent
  <1>2. assertServedBy(w, n) = "none" <=> w.buckets[n].provider = w.issuer
    BY DEF assertServedBy
  <1>3. ps \subseteq effectiveActions(w, n) => effectiveActions(w, n) # {}
    OBVIOUS
  <1>4. QED
    BY <1>1, <1>2, <1>3 DEF principalAccess, Reachable

\* What the credential holds of one requirement.
Meets(w, q) == Reachable(w, q[1]) /\ Holds(w, q[1], q[2])

LEMMA RequirementsAre ==
    ASSUME NEW w, NEW r, addressesExistingBucket(operationOf(r))
    PROVE  (\A q \in RequirementsFor(r) : Meets(w, q)) <=>
              /\ \A p \in permissions(r, operationOf(r)) : Meets(w, <<r.bucket, p>>)
              /\ CopiesSource(operationOf(r)) => Meets(w, <<r.copy.bucket, sourcePermission(r)>>)
  <1>. DEFINE op == operationOf(r)
              own == {<<r.bucket, p>> : p \in permissions(r, op)}
  <1>1. RequirementsFor(r) = own \cup (IF CopiesSource(op)
                                      THEN {<<r.copy.bucket, sourcePermission(r)>>} ELSE {})
    BY DEF RequirementsFor
  <1>2. (\A q \in own : Meets(w, q)) <=>
            \A p \in permissions(r, op) : Meets(w, <<r.bucket, p>>)
    OBVIOUS
  <1>. HIDE DEF own, op
  <1>3. QED
    BY <1>1, <1>2 DEF op

LEMMA ServiceMirrors ==
    ASSUME NEW w, NEW r, NEW op, op = operationOf(r), w.key.kind = "service",
           addressesExistingBucket(op)
    PROVE  serviceAccess(w, r, op) = "none" <=> \A q \in RequirementsFor(r) : Meets(w, q)
  <1>1. \A n, p : Meets(w, <<n, p>>) <=>
                     Reachable(w, n) /\ p \in w.key.permissions
    BY DEF Meets, Holds
  <1>2. permissions(r, op) # {}
    BY DEF permissions, OwnPermissions
  <1>3. \A n : resolveBucketInScope(w, n) = "none" <=> Reachable(w, n)
    BY ScopeMirrors
  <1>4. (\A p \in permissions(r, op) : Meets(w, <<r.bucket, p>>)) <=>
            Reachable(w, r.bucket) /\ permissions(r, op) \subseteq w.key.permissions
    BY <1>1, <1>2
  <1>5. serviceAccess(w, r, op) = "none" <=>
            /\ permissions(r, op) \subseteq w.key.permissions
            /\ Reachable(w, r.bucket)
            /\ CopiesSource(op) => /\ sourcePermission(r) \in w.key.permissions
                                   /\ Reachable(w, r.copy.bucket)
    BY <1>3 DEF serviceAccess
  <1>6. QED
    BY <1>1, <1>4, <1>5, RequirementsAre

LEMMA MemberMirrors ==
    ASSUME NEW w, NEW r, NEW op, op = operationOf(r), w.key.kind # "service",
           addressesExistingBucket(op), Records(w), Recorded(w, r.bucket)
    PROVE  memberAccess(w, r, op) = "none" <=> \A q \in RequirementsFor(r) : Meets(w, q)
  <1>1. \A n, p : Meets(w, <<n, p>>) <=>
            Reachable(w, n) /\ p \in effectiveActions(w, n) /\ w.key.principal \in w.principals
    BY DEF Meets, Holds
  <1>2. permissions(r, op) # {} /\ Permission(op) \in permissions(r, op)
    BY DEF permissions, OwnPermissions
  <1>3. (\A p \in permissions(r, op) : Meets(w, <<r.bucket, p>>)) <=>
            /\ Reachable(w, r.bucket) /\ permissions(r, op) \subseteq effectiveActions(w, r.bucket)
            /\ w.key.principal \in w.principals
    BY <1>1, <1>2
  <1>4. op \in ungrantable => ~(permissions(r, op) \subseteq effectiveActions(w, r.bucket))
    BY <1>2, EffectiveTyped, UngrantableIsNone
  <1>5. op # "ListBuckets"
    BY DEF addressesExistingBucket
  <1>6. \A n, ps : ps # {} =>
            (principalAccess(w, n, ps) = "none" <=>
                Reachable(w, n) /\ ps \subseteq effectiveActions(w, n))
    BY PrincipalMirrors
  <1>7. principalAccess(w, r.bucket, permissions(r, op)) = "none" <=>
            Reachable(w, r.bucket) /\ permissions(r, op) \subseteq effectiveActions(w, r.bucket)
    BY <1>2, <1>6
  <1>8. principalAccess(w, r.copy.bucket, {sourcePermission(r)}) = "none" <=>
            Reachable(w, r.copy.bucket) /\ sourcePermission(r) \in effectiveActions(w, r.copy.bucket)
    BY <1>6
  <1>9. memberAccess(w, r, op) = "none" <=>
            /\ w.key.principal \in w.principals
            /\ op \notin ungrantable
            /\ Reachable(w, r.bucket) /\ permissions(r, op) \subseteq effectiveActions(w, r.bucket)
            /\ CopiesSource(op) =>
                  /\ Reachable(w, r.copy.bucket)
                  /\ sourcePermission(r) \in effectiveActions(w, r.copy.bucket)
    BY <1>5, <1>7, <1>8 DEF memberAccess
  <1>10. QED
    BY <1>1, <1>3, <1>4, <1>9, RequirementsAre

\* An operation on an existing bucket has a bucket in its path.
LEMMA AddressedHasPath ==
    ASSUME NEW r, routeError(r) = "none", addressesExistingBucket(operationOf(r))
    PROVE  r.bucket \in PathNames(r)
  <1>1. operationOf(r) # Refused /\ operationOf(r) # "ListBuckets"
    BY DEF routeError, addressesExistingBucket
  <1>2. r.bucket # NoName
    BY <1>1 DEF operationOf
  <1>3. QED
    BY <1>2 DEF PathNames

\* A gateway deciding from RequirementsFor and hilt deciding with Authorize come to the
\* same decision on every authentic request for an existing bucket (auth.go).
THEOREM MirrorAlwaysAgrees == Spec => []MirrorAgrees
  <1>1. DecisionInv => MirrorAgrees
    <2>. DEFINE op == operationOf(request)
    <2>. SUFFICES ASSUME DecisionInv, answer # NotAsked,
                         authenticate(world, request, now) = "none",
                         routeError(request) = "none", addressesExistingBucket(op)
                  PROVE  Authorized <=> /\ undecidable(request) = "none"
                                        /\ \A q \in RequirementsFor(request) :
                                              Reachable(world, q[1]) /\ Holds(world, q[1], q[2])
      BY DEF MirrorAgrees
    <2>1. Authorized <=> /\ undecidable(request) = "none"
                         /\ authorizeOperation(world, request, op) = "none"
      BY AuthorizedIs DEF Authorize
    <2>2. Records(world) /\ Recorded(world, request.bucket)
      BY AddressedHasPath DEF DecisionInv, Relayed
    <2>. HIDE DEF op
    <2>3. authorizeOperation(world, request, op) = "none" <=>
             \A q \in RequirementsFor(request) : Meets(world, q)
      BY <2>2, ServiceMirrors, MemberMirrors DEF authorizeOperation, op
    <2>4. QED
      BY <2>1, <2>3 DEF Meets
  <1>2. QED
    BY <1>1, Decisions, PTL

-----------------------------------------------------------------------------
(***************************************************************************)
(* The delegations.                                                        *)
(***************************************************************************)
LEMMA PermissionTyped ==
    ASSUME NEW op \in Operations
    PROVE  Permission(op) \in S3Permissions
  BY DEF S3Permissions

\* What is issued: the operation's commands for its bucket and a copy's for its source,
\* of the key, and a cleanup's of the tenant.
LEMMA IssuedAre ==
    ASSUME NEW w, NEW r, NEW t, NEW d \in issued(w, r, t)
    PROVE  /\ addressesExistingBucket(operationOf(r))
           /\ \/ /\ d.by = "key" /\ d.bucket = r.bucket /\ d.exp = requestExpiry(w, t)
                 /\ d.command \in CommandsOfPermission(Permission(operationOf(r)))
              \/ /\ d.by = "key" /\ d.bucket = r.copy.bucket /\ d.exp = requestExpiry(w, t)
                 /\ d.command \in CommandsOfPermission(sourcePermission(r))
                 /\ CopiesSource(operationOf(r))
              \/ /\ d.by = "tenant" /\ d.bucket = r.bucket
                 /\ d.exp = NextMidnight(t) + MaxClockSkew + CleanupLifetime
                 /\ d.command \in CommandsOfPermission(Permission(operationOf(r)))
  <1>. DEFINE op == operationOf(r)
              own == issuePermissionDelegations(r.bucket, Permission(op), requestExpiry(w, t))
              clean == issueCleanupDelegations(w, r.bucket, Permission(op), t)
              source == issuePermissionDelegations(r.copy.bucket, sourcePermission(r),
                                                   requestExpiry(w, t))
  <1>1. /\ addressesExistingBucket(op)
        /\ d \in own \cup clean \/ (CopiesSource(op) /\ d \in source)
    BY DEF issued
  <1>2. CASE d \in own
    BY <1>1, <1>2 DEF issuePermissionDelegations, Delegations
  <1>3. CASE d \in clean
    BY <1>1, <1>3 DEF issueCleanupDelegations, Delegations
  <1>4. CASE CopiesSource(op) /\ d \in source
    BY <1>1, <1>4 DEF issuePermissionDelegations, Delegations
  <1>5. QED
    BY <1>1, <1>2, <1>3, <1>4

\* Every command of the operation's own permission is delegated for its bucket, and of
\* a copy's source for the other bucket it reads.
LEMMA IssuedCover ==
    ASSUME NEW w, NEW r, NEW t, NEW op, op = operationOf(r), addressesExistingBucket(op)
    PROVE  /\ \A c \in CommandsOfPermission(Permission(op)) :
                 \E d \in issued(w, r, t) : d.by = "key" /\ d.bucket = r.bucket /\ d.command = c
           /\ CopiesSource(op) /\ r.copy.bucket # r.bucket =>
                 \A c \in CommandsOfPermission(sourcePermission(r)) :
                    \E d \in issued(w, r, t) :
                        d.by = "key" /\ d.bucket = r.copy.bucket /\ d.command = c
  <1>. DEFINE exp == requestExpiry(w, t)
              own == issuePermissionDelegations(r.bucket, Permission(op), exp)
              source == issuePermissionDelegations(r.copy.bucket, sourcePermission(r), exp)
  <1>1. own \subseteq issued(w, r, t)
    BY DEF issued
  <1>2. CopiesSource(op) /\ r.copy.bucket # r.bucket => source \subseteq issued(w, r, t)
    BY DEF issued
  <1>3. \A n, p, c : c \in CommandsOfPermission(p) =>
            [by |-> "key", bucket |-> n, command |-> c, exp |-> exp]
                \in issuePermissionDelegations(n, p, exp)
    BY DEF issuePermissionDelegations, Delegations
  <1>. HIDE DEF exp
  <1>4. ASSUME NEW c \in CommandsOfPermission(Permission(op))
        PROVE  \E d \in issued(w, r, t) : d.by = "key" /\ d.bucket = r.bucket /\ d.command = c
    <2>1. [by |-> "key", bucket |-> r.bucket, command |-> c, exp |-> exp] \in issued(w, r, t)
      BY <1>1, <1>3
    <2>2. QED
      BY <2>1
  <1>5. ASSUME CopiesSource(op), r.copy.bucket # r.bucket,
               NEW c \in CommandsOfPermission(sourcePermission(r))
        PROVE  \E d \in issued(w, r, t) :
                  d.by = "key" /\ d.bucket = r.copy.bucket /\ d.command = c
    <2>1. [by |-> "key", bucket |-> r.copy.bucket, command |-> c, exp |-> exp]
             \in issued(w, r, t)
      BY <1>2, <1>3, <1>5
    <2>2. QED
      BY <2>1
  <1>6. QED
    BY <1>4, <1>5

\* An authorized credential meets what the request needs.
LEMMA AuthorizedMeets ==
    ASSUME DecisionInv, Authorized, NEW op, op = operationOf(request),
           addressesExistingBucket(op)
    PROVE  /\ Meets(world, <<request.bucket, Permission(op)>>)
           /\ CopiesSource(op) => Meets(world, <<request.copy.bucket, sourcePermission(request)>>)
  <1>1. authorizeOperation(world, request, op) = "none" /\ routeError(request) = "none"
    BY AuthorizedIs, AuthorizedPasses
  <1>2. Records(world) /\ Recorded(world, request.bucket)
    BY <1>1, AddressedHasPath DEF DecisionInv, Relayed
  <1>3. \A q \in RequirementsFor(request) : Meets(world, q)
    BY <1>1, <1>2, ServiceMirrors, MemberMirrors DEF authorizeOperation
  <1>4. Permission(op) \in permissions(request, op)
    BY DEF permissions, OwnPermissions
  <1>5. QED
    BY <1>3, <1>4, RequirementsAre

\* The derived key verifies the request (rpc/authorize.go): it is of the request's scope.
LEMMA DerivedKeyVerifies ==
    ASSUME NEW r, NEW secret, Verify(r, secret)
    PROVE  VerifyWithKey(r, DeriveKey(r, secret))
  BY DEF Verify, VerifyWithKey, DeriveKey, verifyV4WithKey, verifyV4aWithKey,
         deriveSigningKeyV4, derivedPublicKeyV4a

\* The answer serves the request and no other: the derived key verifies it, the
\* delegations cover every command it needs, and none is for a command no permission of
\* the credential stands for (rpc/authorize.go).
THEOREM DelegationsAlwaysCover == Spec => []DelegationsCover
  <1>1. DecisionInv => DelegationsCover
    <2>. SUFFICES ASSUME DecisionInv, Authorized PROVE DelegationsCover
      BY DEF DelegationsCover
    <2>. DEFINE op == operationOf(request)
    <2>1. /\ Verify(request, world.key.secret) /\ routeError(request) = "none"
          /\ answer.dlgs = issued(world, request, now)
          /\ answer.key = DeriveKey(request, world.key.secret)
      BY AuthorizedIs, AuthorizedPasses
    <2>2. VerifyWithKey(request, answer.key)
      BY <2>1, DerivedKeyVerifies
    <2>3. op \in Operations
      BY <2>1, OperationKnown
    <2>. HIDE DEF op
    <2>4. ASSUME NEW q \in RequirementsFor(request), NEW c \in CommandsOfPermission(q[2])
          PROVE  \E d \in answer.dlgs : d.by = "key" /\ d.bucket = q[1] /\ d.command = c
      <3>1. addressesExistingBucket(op)
        BY <2>4 DEF RequirementsFor, op
      <3>2. \A b \in CommandsOfPermission(Permission(op)) :
               \E d \in answer.dlgs : d.by = "key" /\ d.bucket = request.bucket /\ d.command = b
        BY <2>1, <3>1, IssuedCover DEF op
      <3>3. CASE \E p \in permissions(request, op) : q = <<request.bucket, p>>
        <4>1. c \in CommandsOfPermission(Permission(op)) /\ q[1] = request.bucket
          BY <2>3, <2>4, <3>1, <3>3, OwnCommandsDo
        <4>2. QED
          BY <3>2, <4>1
      <3>4. CASE CopiesSource(op) /\ q = <<request.copy.bucket, sourcePermission(request)>>
        <4>1. CASE request.copy.bucket = request.bucket
          <5>1. c \in CommandsOfPermission(Permission(op)) /\ q[1] = request.bucket
            BY <2>4, <3>4, <4>1, SourceCommandsDo
          <5>2. QED
            BY <3>2, <5>1
        <4>2. CASE request.copy.bucket # request.bucket
          BY <2>1, <2>4, <3>1, <3>4, <4>2, IssuedCover DEF op
        <4>3. QED
          BY <4>1, <4>2
      <3>5. QED
        BY <2>4, <3>1, <3>3, <3>4 DEF RequirementsFor, op
    <2>5. ASSUME NEW d \in answer.dlgs
          PROVE  \E p \in S3Permissions :
                    Holds(world, d.bucket, p) /\ d.command \in CommandsOfPermission(p)
      <3>1. d \in issued(world, request, now)
        BY <2>1
      <3>2. addressesExistingBucket(op)
        BY <3>1, IssuedAre DEF op
      <3>3. \/ d.bucket = request.bucket /\ d.command \in CommandsOfPermission(Permission(op))
            \/ /\ d.bucket = request.copy.bucket /\ CopiesSource(op)
               /\ d.command \in CommandsOfPermission(sourcePermission(request))
        BY <3>1, IssuedAre DEF op
      <3>4. /\ Holds(world, request.bucket, Permission(op))
            /\ CopiesSource(op) => Holds(world, request.copy.bucket, sourcePermission(request))
        BY <3>2, AuthorizedMeets DEF Meets, op
      <3>5. /\ Permission(op) \in S3Permissions
            /\ CopiesSource(op) => sourcePermission(request) \in S3Permissions
        BY <2>3, PermissionTyped, SourceCommandsDo
      <3>6. QED
        BY <3>3, <3>4, <3>5
    <2>6. QED
      BY <2>2, <2>4, <2>5 DEF DelegationsCover
  <1>2. QED
    BY <1>1, Decisions, PTL

-----------------------------------------------------------------------------
(***************************************************************************)
(* Times.                                                                  *)
(***************************************************************************)

\* A midnight is after the time it is of, and after every day that has begun.
LEMMA MidnightIsNext ==
    ASSUME NEW t \in Nat
    PROVE  /\ NextMidnight(t) \in Nat /\ NextMidnight(t) > t
           /\ \A d \in Nat : d <= t \div Day => (d + 1) * Day <= NextMidnight(t)
  BY DEF NextMidnight, Day, Second

LEMMA WholeSecondsAre ==
    ASSUME NEW t \in Nat
    PROVE  /\ WholeSeconds(t) \in Nat /\ WholeSeconds(t) <= t
           /\ WholeSeconds(t) + Second > t
  BY DEF WholeSeconds, Second

\* The last use is over when hilt's next midnight and the skew are.
LEMMA LastUseIsOver ==
    ASSUME NEW r, NEW t \in Nat, r.scopeDate \in Nat, r.date \in Nat, ValidTime(r, t)
    PROVE  /\ LastUse(r, t) \in Nat
           /\ LastUse(r, t) <= NextMidnight(t) + MaxClockSkew
  <1>1. /\ NextMidnight(t) \in Nat /\ NextMidnight(t) > t
        /\ \A d \in Nat : d <= t \div Day => (d + 1) * Day <= NextMidnight(t)
    BY MidnightIsNext
  <1>2. CASE r.scopeDate <= t \div Day
    BY <1>1, <1>2 DEF LastUse, MaxClockSkew, Day, Second
  <1>3. CASE ~(r.scopeDate <= t \div Day)
    <2>1. LastUse(r, t) = r.date
      BY <1>3 DEF LastUse
    <2>2. r.date <= t + MaxClockSkew
      BY DEF ValidTime, MaxClockSkew, Second
    <2>3. QED
      BY <1>1, <2>1, <2>2 DEF MaxClockSkew, Second
  <1>4. QED
    BY <1>2, <1>3

\* A delegation never outlives its key, and lasts for the work of the last request the
\* derived key verifies, or of the one answered if its day is ahead of hilt's, unless it
\* was cut to the whole second of its key's end (rpc/authorize.go, sigv4.go): whatever
\* the clock, the dates and the key's end.
THEOREM ExpiryAlwaysFits == Spec => []ExpiryFits
  <1>1. DecisionInv => ExpiryFits
    <2>. DEFINE lastUse == LastUse(request, now)
                expires == world.key.expires
    <2>. SUFFICES ASSUME DecisionInv, Authorized, NEW d \in answer.dlgs
                  PROVE  CASE d.by = "key" ->
                                /\ expires # Never => d.exp <= expires
                                /\ \/ d.exp > now /\ d.exp >= lastUse + AsyncOverhang
                                   \/ /\ expires # Never
                                      /\ d.exp = WholeSeconds(expires) /\ d.exp + Second > now
                           [] d.by = "tenant" -> d.exp >= lastUse + CleanupLifetime
      BY DEF ExpiryFits
    <2>1. /\ d \in issued(world, request, now)
          /\ expires # Never => ~(now > expires)
          /\ ValidTime(request, now)
      BY AuthorizedIs, AuthorizedPasses
    <2>2. now \in Nat /\ expires \in Nat
      BY DEF DecisionInv, Records
    <2>3. request.scopeDate \in Nat /\ request.date \in Nat
      BY OneString, SignedAlike DEF DecisionInv, Relayed
    <2>4. /\ NextMidnight(now) \in Nat /\ NextMidnight(now) > now
          /\ lastUse \in Nat
          /\ lastUse <= NextMidnight(now) + MaxClockSkew
      BY <2>1, <2>2, <2>3, MidnightIsNext, LastUseIsOver
    <2>5. /\ WholeSeconds(expires) \in Nat /\ WholeSeconds(expires) <= expires
          /\ WholeSeconds(expires) + Second > expires
      BY <2>2, WholeSecondsAre
    <2>. HIDE DEF lastUse, expires
    <2>6. CASE d.by = "tenant"
      <3>1. d.exp = NextMidnight(now) + MaxClockSkew + CleanupLifetime
        BY <2>1, <2>6, IssuedAre
      <3>2. QED
        BY <2>4, <2>6, <3>1 DEF MaxClockSkew, CleanupLifetime, Day, Second
    <2>7. CASE d.by = "key"
      <3>. DEFINE full == NextMidnight(now) + MaxClockSkew + AsyncOverhang
      <3>1. d.exp = requestExpiry(world, now)
        BY <2>1, <2>7, IssuedAre
      <3>2. /\ full \in Nat /\ full > now /\ full >= lastUse + AsyncOverhang
        BY <2>2, <2>4 DEF MaxClockSkew, AsyncOverhang, Second
      <3>3. d.exp = IF expires # Never /\ WholeSeconds(expires) < full
                    THEN WholeSeconds(expires) ELSE full
        BY <3>1 DEF requestExpiry, expires
      <3>. HIDE DEF full
      <3>4. CASE expires # Never /\ WholeSeconds(expires) < full
        <4>1. d.exp = WholeSeconds(expires)
          BY <3>3, <3>4
        <4>2. d.exp + Second > now /\ d.exp <= expires
          BY <2>1, <2>2, <2>5, <3>4, <4>1 DEF Second
        <4>3. QED
          BY <2>7, <3>4, <4>1, <4>2
      <3>5. CASE ~(expires # Never /\ WholeSeconds(expires) < full)
        <4>1. d.exp = full
          BY <3>3, <3>5
        <4>2. d.exp > now /\ (expires # Never => d.exp <= expires)
          BY <2>2, <2>5, <3>2, <3>5, <4>1
        <4>3. QED
          BY <2>7, <3>2, <4>1, <4>2
      <3>6. QED
        BY <3>4, <3>5
    <2>8. d.by \in {"key", "tenant"}
      BY <2>1, IssuedAre
    <2>9. QED
      BY <2>6, <2>7, <2>8
  <1>2. QED
    BY <1>1, Decisions, PTL

-----------------------------------------------------------------------------
(***************************************************************************)
(* What the answer does not tell.                                          *)
(***************************************************************************)

\* The world as the credential may know it differs in the buckets beyond its reach only.
LEMMA VisibleIs ==
    ASSUME NEW w, Records(w), NEW v, v = Visible(w)
    PROVE  /\ v.key = w.key /\ v.status = w.status /\ v.principals = w.principals
           /\ v.issuer = w.issuer /\ v.served = w.served
           /\ \A n \in DOMAIN w.buckets :
                 /\ v.buckets[n].policy = w.buckets[n].policy
                 /\ v.buckets[n].root = w.buckets[n].root
                 /\ w.buckets[n].tenant # Tenant => v.buckets[n] = w.buckets[n]
                 /\ w.key.kind = "service" => v.buckets[n].tenant = w.buckets[n].tenant
                 /\ w.key.kind = "service" /\ (n \in w.key.scope \/ w.key.scope = {})
                       => v.buckets[n] = w.buckets[n]
                 /\ w.key.kind # "service" /\ effectiveActions(w, n) # {}
                       => v.buckets[n] = w.buckets[n]
                 /\ w.key.kind # "service" /\ effectiveActions(w, n) = {}
                          /\ w.buckets[n].tenant = Tenant
                       => v.buckets[n].tenant = Absent
  <1>. DEFINE seen ==
                [n \in DOMAIN w.buckets |->
                    IF w.buckets[n].tenant # Tenant THEN w.buckets[n]
                    ELSE IF w.key.kind = "service"
                    THEN IF n \in w.key.scope \/ w.key.scope = {} THEN w.buckets[n]
                         ELSE [w.buckets[n] EXCEPT !.provider = w.issuer]
                    ELSE IF effectiveActions(w, n) # {} THEN w.buckets[n]
                         ELSE [w.buckets[n] EXCEPT !.tenant = Absent]]
  <1>1. v = [w EXCEPT !.buckets = seen]
    BY DEF Visible
  <1>2. \A n \in DOMAIN w.buckets : DOMAIN w.buckets[n] = BucketFields
    BY DEF Records
  <1>3. ASSUME NEW b, DOMAIN b = BucketFields, NEW x
        PROVE  /\ [b EXCEPT !.provider = x].tenant = b.tenant
               /\ [b EXCEPT !.provider = x].policy = b.policy
               /\ [b EXCEPT !.provider = x].root = b.root
               /\ [b EXCEPT !.tenant = x].tenant = x
               /\ [b EXCEPT !.tenant = x].policy = b.policy
               /\ [b EXCEPT !.tenant = x].root = b.root
    BY <1>3 DEF BucketFields
  <1>. DEFINE Shown(n, b) ==
                /\ b.policy = w.buckets[n].policy
                /\ b.root = w.buckets[n].root
                /\ w.buckets[n].tenant # Tenant => b = w.buckets[n]
                /\ w.key.kind = "service" => b.tenant = w.buckets[n].tenant
                /\ w.key.kind = "service" /\ (n \in w.key.scope \/ w.key.scope = {})
                      => b = w.buckets[n]
                /\ w.key.kind # "service" /\ effectiveActions(w, n) # {} => b = w.buckets[n]
                /\ w.key.kind # "service" /\ effectiveActions(w, n) = {}
                         /\ w.buckets[n].tenant = Tenant
                      => b.tenant = Absent
  <1>4. \A n \in DOMAIN w.buckets : Shown(n, seen[n])
    BY <1>2, <1>3
  <1>. HIDE DEF seen, Shown
  <1>5. /\ v.key = w.key /\ v.status = w.status /\ v.principals = w.principals
        /\ v.issuer = w.issuer /\ v.served = w.served /\ v.buckets = seen
    BY <1>1 DEF Records, Fields
  <1>6. QED
    BY <1>4, <1>5 DEF Shown

LEMMA VisibleActions ==
    ASSUME NEW w, Records(w), NEW v, v = Visible(w), NEW n, Recorded(w, n)
    PROVE  effectiveActions(v, n) = effectiveActions(w, n)
  BY VisibleIs DEF effectiveActions, Recorded

LEMMA VisibleInScope ==
    ASSUME NEW w, Records(w), NEW v, v = Visible(w), NEW n, Recorded(w, n),
           w.key.kind = "service"
    PROVE  resolveBucketInScope(v, n) = resolveBucketInScope(w, n)
  <1>1. /\ v.key = w.key /\ v.issuer = w.issuer /\ v.buckets[n].tenant = w.buckets[n].tenant
        /\ n \in w.key.scope \/ w.key.scope = {} => v.buckets[n] = w.buckets[n]
    BY VisibleIs DEF Recorded
  <1>2. resolveBucket(v, n) = resolveBucket(w, n)
    BY <1>1 DEF resolveBucket
  <1>3. n \in w.key.scope \/ w.key.scope = {} => assertServedBy(v, n) = assertServedBy(w, n)
    BY <1>1 DEF assertServedBy
  <1>4. QED
    BY <1>1, <1>2, <1>3 DEF resolveBucketInScope

\* A bucket a principal holds no action on is as unknown as one that does not exist.
LEMMA VisibleToPrincipal ==
    ASSUME NEW w, Records(w), NEW v, v = Visible(w), NEW n, Recorded(w, n),
           w.key.kind # "service", NEW ps
    PROVE  principalAccess(v, n, ps) = principalAccess(w, n, ps)
  <1>1. effectiveActions(v, n) = effectiveActions(w, n)
    BY VisibleActions
  <1>2. CASE w.buckets[n].tenant # Tenant \/ effectiveActions(w, n) # {}
    <2>1. v.buckets[n] = w.buckets[n] /\ v.issuer = w.issuer
      BY <1>2, VisibleIs DEF Recorded
    <2>2. resolveBucket(v, n) = resolveBucket(w, n) /\ assertServedBy(v, n) = assertServedBy(w, n)
      BY <2>1 DEF resolveBucket, assertServedBy
    <2>3. QED
      BY <1>1, <2>2 DEF principalAccess
  <1>3. CASE w.buckets[n].tenant = Tenant /\ effectiveActions(w, n) = {}
    <2>1. v.buckets[n].tenant = Absent
      BY <1>3, VisibleIs DEF Recorded
    <2>2. resolveBucket(v, n) = "UnknownBucket" /\ resolveBucket(w, n) = "none"
      BY <1>3, <2>1 DEF resolveBucket, Tenant, Absent
    <2>3. principalAccess(v, n, ps) = "UnknownBucket"
      BY <2>2 DEF principalAccess
    <2>4. principalAccess(w, n, ps) = "UnknownBucket"
      BY <1>3, <2>2 DEF principalAccess
    <2>5. QED
      BY <2>3, <2>4
  <1>4. QED
    BY <1>2, <1>3

\* A copy has a source whose name parses.
LEMMA CopyHasSource ==
    ASSUME NEW r, CopiesSource(operationOf(r))
    PROVE  r.copy.bucket \in CopyNames(r.copy)
  <1>1. \A t \in bucketRoutes \cup objectRoutes : ~CopiesSource(t[3])
    <2>1. \A op \in Subresourced \cup {Refused} : ~CopiesSource(op)
      BY DEF Subresourced, CopiesSource, Refused
    <2>2. QED
      BY <2>1, RoutesAre
  <1>2. \A op \in Routed(r) : ~CopiesSource(op)
    BY <1>1 DEF Routed
  <1>3. CASE r.bucket = NoName
    BY <1>3 DEF operationOf, CopiesSource, Refused
  <1>4. CASE r.bucket # NoName /\ Routed(r) = {}
    <2>1. CopiesSource(plainOperation(r))
      BY <1>4 DEF operationOf
    <2>2. parseCopySource(r.copy)
      BY <2>1 DEF plainOperation, Reading, Deleting, copied, CopiesSource, Refused
    <2>3. QED
      BY <2>2 DEF CopyNames
  <1>5. CASE r.bucket # NoName /\ Routed(r) = {"UploadPart"}
    <2>1. CopiesSource(partUpload(r))
      BY <1>5 DEF operationOf
    <2>2. parseCopySource(r.copy)
      BY <2>1 DEF partUpload, copied, CopiesSource, Refused
    <2>3. QED
      BY <2>2 DEF CopyNames
  <1>6. CASE r.bucket # NoName /\ Routed(r) # {} /\ Routed(r) # {"UploadPart"}
    <2>1. operationOf(r) = CHOOSE op \in Routed(r) : TRUE
      BY <1>6 DEF operationOf
    <2>2. operationOf(r) \in Routed(r)
      BY <1>6, <2>1
    <2>3. QED
      BY <1>2, <2>2
  <1>7. QED
    BY <1>3, <1>4, <1>5, <1>6

\* hilt answers alike for the world and what of it the credential may know.
LEMMA VisibleSuffices ==
    ASSUME NEW w, Records(w), NEW v, v = Visible(w), NEW r, NEW t,
           \A n \in PathNames(r) \cup CopyNames(r.copy) : Recorded(w, n)
    PROVE  AuthorizeRequest(v, r, t) = AuthorizeRequest(w, r, t)
  <1>. DEFINE op == operationOf(r)
  <1>1. /\ v.key = w.key /\ v.status = w.status /\ v.principals = w.principals
        /\ v.issuer = w.issuer /\ v.served = w.served
    BY VisibleIs
  <1>2. authenticate(v, r, t) = authenticate(w, r, t)
    BY <1>1 DEF authenticate, resolveProvider
  <1>3. CopiesSource(op) => Recorded(w, r.copy.bucket)
    BY CopyHasSource
  <1>4. routeError(r) = "none" /\ addressesExistingBucket(op) => Recorded(w, r.bucket)
    BY AddressedHasPath
  <1>5. undecidable(r) = "none" => routeError(r) = "none"
    BY DEF undecidable
  <1>6. CopiesSource(op) => addressesExistingBucket(op)
    BY DEF CopiesSource, addressesExistingBucket
  <1>7. ASSUME routeError(r) = "none", w.key.kind = "service"
        PROVE  serviceAccess(v, r, op) = serviceAccess(w, r, op)
    <2>1. addressesExistingBucket(op) =>
             resolveBucketInScope(v, r.bucket) = resolveBucketInScope(w, r.bucket)
      BY <1>4, <1>7, VisibleInScope
    <2>2. CopiesSource(op) =>
             resolveBucketInScope(v, r.copy.bucket) = resolveBucketInScope(w, r.copy.bucket)
      BY <1>3, <1>7, VisibleInScope
    <2>. HIDE DEF op
    <2>3. QED
      BY <1>1, <2>1, <2>2 DEF serviceAccess
  <1>8. ASSUME routeError(r) = "none", w.key.kind # "service"
        PROVE  memberAccess(v, r, op) = memberAccess(w, r, op)
    <2>1. op # "ListBuckets" /\ op \notin ungrantable => addressesExistingBucket(op)
      BY DEF addressesExistingBucket, ungrantable
    <2>2. addressesExistingBucket(op) =>
             /\ \A ps : principalAccess(v, r.bucket, ps) = principalAccess(w, r.bucket, ps)
             /\ effectiveActions(v, r.bucket) = effectiveActions(w, r.bucket)
      BY <1>4, <1>8, VisibleToPrincipal, VisibleActions
    <2>3. CopiesSource(op) =>
             \A ps : principalAccess(v, r.copy.bucket, ps) = principalAccess(w, r.copy.bucket, ps)
      BY <1>3, <1>8, VisibleToPrincipal
    <2>. HIDE DEF op
    <2>4. QED
      BY <1>1, <2>1, <2>2, <2>3 DEF memberAccess
  <1>9. Authorize(v, r, t) = Authorize(w, r, t)
    BY <1>1, <1>2, <1>5, <1>7, <1>8 DEF Authorize, authorizeOperation
  <1>10. routeError(r) = "none" => issued(v, r, t) = issued(w, r, t)
    <2>1. requestExpiry(v, t) = requestExpiry(w, t)
      BY <1>1 DEF requestExpiry
    <2>2. Recorded(w, r.bucket) => v.buckets[r.bucket].root = w.buckets[r.bucket].root
      BY VisibleIs DEF Recorded
    <2>3. Recorded(w, r.bucket) =>
             issueCleanupDelegations(v, r.bucket, Permission(op), t)
                = issueCleanupDelegations(w, r.bucket, Permission(op), t)
      BY <2>2 DEF issueCleanupDelegations
    <2>4. QED
      BY <1>4, <2>1, <2>3 DEF issued
  <1>. HIDE DEF op
  <1>11. Authorize(w, r, t) = "none" => routeError(r) = "none"
    BY <1>5, AuthorizedPasses
  <1>12. QED
    BY <1>1, <1>9, <1>10, <1>11 DEF AuthorizeRequest

\* Nothing is said of buckets beyond the credential's reach (auth.principalAccess,
\* resolveBucketInScope): the answer is the same without them, or wherever they live.
THEOREM UnreachableStaysUnknown == Spec => []UnreachableIsUnknown
  <1>1. DecisionInv => UnreachableIsUnknown
    <2>. SUFFICES ASSUME DecisionInv, answer # NotAsked
                  PROVE  answer = AuthorizeRequest(Visible(world), request, now)
      BY DEF UnreachableIsUnknown
    <2>1. answer = AuthorizeRequest(world, request, now)
      BY DEF DecisionInv, Answered
    <2>2. QED
      BY <2>1, VisibleSuffices DEF DecisionInv, Relayed
  <1>2. QED
    BY <1>1, Decisions, PTL
=============================================================================
