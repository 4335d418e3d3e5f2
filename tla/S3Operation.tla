---------------------------- MODULE S3Operation ----------------------------
(***************************************************************************)
(* What an S3 request asks for: hilt's classification of a request into an *)
(* operation, and the permissions the operation, its headers and its body  *)
(* put on the buckets it addresses (pkg/rpc/service/auth/operation.go,     *)
(* body.go, body_deleteobjects.go), with the Forge commands each           *)
(* permission stands for (pkg/s3perm).                                     *)
(*                                                                         *)
(* A request is a record:                                                  *)
(*   method, bucket (NoName when the path has none), key (has one?),       *)
(*   query     the set of parameters named, "versionId" with a value       *)
(*   headers   the values of the headers that add a permission             *)
(*   copy      the x-amz-copy-source header, as parseCopySource reads it   *)
(*   body, checksum   the body, and the body a checksum header is of       *)
(*   signed    the headers in SignedHeaders;  payload  the payload hash    *)
(* A hash or checksum is the body it was computed from.  A header whose    *)
(* value is empty counts as absent (HeaderValue).                          *)
(***************************************************************************)
EXTENDS Naturals, FiniteSets

CONSTANTS
    MaxBodySize,   \* the largest body hilt reads (8 MiB)
    MaxEntries     \* the most keys a DeleteObjects may name (1000)

ASSUME BodyAssumption == MaxBodySize \in Nat /\ MaxEntries \in Nat

NoName == ""
Refused == ""       \* the empty operation: a route hilt does not authorize

-----------------------------------------------------------------------------
(***************************************************************************)
(* Permissions and the commands delegated for them.                        *)
(***************************************************************************)
Retrieve == {"content/retrieve"}
CatalogWrite == {"blob/add", "index/add", "content/retrieve"}

\* Mutant of AddCommands: a write is not given the read it starts with.
AddWithoutRead ==
    {"upload/add", "upload/remove", "blob/abort", "blob/remove", "blob/add", "index/add"}

AddCommands == {"upload/add", "upload/remove", "blob/abort", "blob/remove"} \cup CatalogWrite

CommandsOfPermission(p) ==
    CASE p \in {"s3:GetObject", "s3:GetObjectVersion", "s3:GetObjectRetention",
                "s3:GetObjectLegalHold", "s3:ListBucket", "s3:ListBucketVersions",
                "s3:GetObjectTagging", "s3:GetObjectAttributes",
                "s3:ListMultipartUploadParts", "s3:ListBucketMultipartUploads"} -> Retrieve
      [] p = "s3:PutObject" -> AddCommands
      [] p = "s3:DeleteObject" ->
            {"blob/remove", "upload/add", "upload/remove"} \cup CatalogWrite
      [] p = "s3:DeleteObjectVersion" -> {"blob/remove", "upload/remove"} \cup CatalogWrite
      [] p \in {"s3:PutObjectRetention", "s3:PutObjectLegalHold",
                "s3:PutObjectTagging", "s3:DeleteObjectTagging"} -> CatalogWrite
      [] p = "s3:AbortMultipartUpload" -> {"blob/abort", "blob/remove"}
      [] p = "s3:DeleteBucket" -> {"blob/abort", "blob/remove", "upload/remove"}
      [] OTHER -> {}

OperationPermission ==
    [ListBuckets |-> "s3:ListAllMyBuckets",
     ListBucket |-> "s3:ListBucket",
     GetObject |-> "s3:GetObject",
     PutObject |-> "s3:PutObject",
     CopyObject |-> "s3:PutObject",
     CreateBucket |-> "s3:CreateBucket",
     DeleteObject |-> "s3:DeleteObject",
     DeleteBucket |-> "s3:DeleteBucket",
     GetObjectVersion |-> "s3:GetObjectVersion",
     GetObjectRetention |-> "s3:GetObjectRetention",
     GetObjectLegalHold |-> "s3:GetObjectLegalHold",
     PutObjectRetention |-> "s3:PutObjectRetention",
     PutObjectLegalHold |-> "s3:PutObjectLegalHold",
     DeleteObjectVersion |-> "s3:DeleteObjectVersion",
     DeleteObjects |-> "s3:DeleteObject",
     ListBucketVersions |-> "s3:ListBucketVersions",
     GetBucketPolicy |-> "s3:GetBucketPolicy",
     PutBucketPolicy |-> "s3:PutBucketPolicy",
     DeleteBucketPolicy |-> "s3:DeleteBucketPolicy",
     GetBucketEncryption |-> "s3:GetEncryptionConfiguration",
     PutBucketEncryption |-> "s3:PutEncryptionConfiguration",
     DeleteBucketEncryption |-> "s3:PutEncryptionConfiguration",
     CreateMultipartUpload |-> "s3:PutObject",
     UploadPart |-> "s3:PutObject",
     UploadPartCopy |-> "s3:PutObject",
     CompleteMultipartUpload |-> "s3:PutObject",
     AbortMultipartUpload |-> "s3:AbortMultipartUpload",
     ListMultipartUploadParts |-> "s3:ListMultipartUploadParts",
     ListBucketMultipartUploads |-> "s3:ListBucketMultipartUploads",
     GetBucketLocation |-> "s3:GetBucketLocation",
     GetBucketAcl |-> "s3:GetBucketAcl",
     GetBucketCors |-> "s3:GetBucketCORS",
     PutBucketCors |-> "s3:PutBucketCORS",
     DeleteBucketCors |-> "s3:PutBucketCORS",
     GetBucketPolicyStatus |-> "s3:GetBucketPolicyStatus",
     GetBucketTagging |-> "s3:GetBucketTagging",
     PutBucketTagging |-> "s3:PutBucketTagging",
     DeleteBucketTagging |-> "s3:PutBucketTagging",
     GetBucketVersioning |-> "s3:GetBucketVersioning",
     PutBucketVersioning |-> "s3:PutBucketVersioning",
     GetObjectLockConfiguration |-> "s3:GetBucketObjectLockConfiguration",
     PutObjectLockConfiguration |-> "s3:PutBucketObjectLockConfiguration",
     GetObjectTagging |-> "s3:GetObjectTagging",
     PutObjectTagging |-> "s3:PutObjectTagging",
     DeleteObjectTagging |-> "s3:DeleteObjectTagging",
     GetObjectAttributes |-> "s3:GetObjectAttributes"]

Operations == DOMAIN OperationPermission

Permission(op) == OperationPermission[op]

companionPermission(op) == IF op = "GetObjectAttributes" THEN {"s3:GetObject"} ELSE {}

OwnPermissions(op) == {Permission(op)} \cup companionPermission(op)

S3Permissions ==
    {Permission(op) : op \in Operations} \cup {"s3:BypassGovernanceRetention"}

\* The permissions a bucket policy may grant (libforge's PolicyActions).
PolicyActions ==
    S3Permissions \ {"s3:CreateBucket", "s3:DeleteBucket", "s3:ListAllMyBuckets",
                     "s3:GetBucketPolicy", "s3:PutBucketPolicy", "s3:DeleteBucketPolicy",
                     "s3:GetBucketPolicyStatus", "s3:GetEncryptionConfiguration",
                     "s3:PutEncryptionConfiguration", "s3:PutBucketTagging",
                     "s3:PutBucketVersioning", "s3:PutBucketObjectLockConfiguration",
                     "s3:PutBucketCORS"}

CopiesSource(op) == op \in {"CopyObject", "UploadPartCopy"}
addressesExistingBucket(op) == op \notin {"ListBuckets", "CreateBucket"}
ReadsBody(op) == op = "DeleteObjects"

-----------------------------------------------------------------------------
(***************************************************************************)
(* The route: method, what the path addresses, and the subresource.        *)
(***************************************************************************)
Supported == {"acl", "attributes", "cors", "delete", "encryption", "legal-hold", "location",
              "object-lock", "policy", "policyStatus", "retention", "tagging", "uploadId",
              "uploads", "versioning", "versions"}
Unsupported == {"accelerate", "analytics", "intelligent-tiering", "inventory", "lifecycle",
                "logging", "metadataConfiguration", "metadataTable", "metrics",
                "notification", "ownershipControls", "publicAccessBlock", "renameObject",
                "replication", "requestPayment", "restore", "select", "session", "torrent",
                "website"}

bucketRoutes ==
    {<<"GET", "location", "GetBucketLocation">>, <<"GET", "tagging", "GetBucketTagging">>,
     <<"GET", "versioning", "GetBucketVersioning">>, <<"GET", "policy", "GetBucketPolicy">>,
     <<"GET", "cors", "GetBucketCors">>, <<"GET", "acl", "GetBucketAcl">>,
     <<"GET", "object-lock", "GetObjectLockConfiguration">>,
     <<"GET", "uploads", "ListBucketMultipartUploads">>,
     <<"GET", "versions", "ListBucketVersions">>,
     <<"GET", "policyStatus", "GetBucketPolicyStatus">>,
     <<"GET", "encryption", "GetBucketEncryption">>,
     <<"PUT", "tagging", "PutBucketTagging">>, <<"PUT", "versioning", "PutBucketVersioning">>,
     <<"PUT", "object-lock", "PutObjectLockConfiguration">>,
     <<"PUT", "cors", "PutBucketCors">>, <<"PUT", "policy", "PutBucketPolicy">>,
     <<"PUT", "acl", Refused>>, <<"PUT", "encryption", "PutBucketEncryption">>,
     <<"DELETE", "tagging", "DeleteBucketTagging">>,
     <<"DELETE", "policy", "DeleteBucketPolicy">>, <<"DELETE", "cors", "DeleteBucketCors">>,
     <<"DELETE", "encryption", "DeleteBucketEncryption">>,
     <<"POST", "delete", "DeleteObjects">>}

objectRoutes ==
    {<<"GET", "uploads", Refused>>, <<"GET", "versions", Refused>>, <<"GET", "acl", Refused>>,
     <<"GET", "tagging", "GetObjectTagging">>, <<"GET", "retention", "GetObjectRetention">>,
     <<"GET", "legal-hold", "GetObjectLegalHold">>,
     <<"GET", "attributes", "GetObjectAttributes">>,
     <<"GET", "uploadId", "ListMultipartUploadParts">>,
     <<"PUT", "tagging", "PutObjectTagging">>, <<"PUT", "retention", "PutObjectRetention">>,
     <<"PUT", "legal-hold", "PutObjectLegalHold">>, <<"PUT", "acl", Refused>>,
     <<"PUT", "uploadId", "UploadPart">>,
     <<"POST", "uploadId", "CompleteMultipartUpload">>,
     <<"POST", "uploads", "CreateMultipartUpload">>,
     <<"DELETE", "tagging", "DeleteObjectTagging">>,
     <<"DELETE", "uploadId", "AbortMultipartUpload">>}

subresourcesOf(r) == r.query \cap (Supported \cup Unsupported)

\* A copy source is no copy when its percent-encoding is bad or it has no separator.
parseCopySource(c) == c.present /\ c.parses

\* A PUT with a parseable copy source is a copy.
copied(r, plain, copy) == IF parseCopySource(r.copy) THEN copy ELSE plain

Reading(r) ==
    CASE ~r.key -> "ListBucket"
      [] r.key /\ "versionId" \in r.query -> "GetObjectVersion"
      [] r.key /\ "versionId" \notin r.query -> "GetObject"

Deleting(r) ==
    CASE ~r.key -> "DeleteBucket"
      [] r.key /\ "versionId" \in r.query -> "DeleteObjectVersion"
      [] r.key /\ "versionId" \notin r.query -> "DeleteObject"

\* The operation of a method alone; a POST names no route of its own.
plainOperation(r) ==
    CASE r.method \in {"GET", "HEAD"} -> Reading(r)
      [] r.method = "DELETE" -> Deleting(r)
      [] r.method = "PUT" ->
            IF r.key THEN copied(r, "PutObject", "CopyObject") ELSE "CreateBucket"
      [] OTHER -> Refused

Routed(r) ==
    {t[3] : t \in {u \in IF r.key THEN objectRoutes ELSE bucketRoutes :
                     u[1] = r.method /\ u[2] \in subresourcesOf(r)}}

\* A part upload needs its part number, and may copy its part.
partUpload(r) ==
    IF "partNumber" \in r.query THEN copied(r, "UploadPart", "UploadPartCopy") ELSE Refused

\* The operation of a request with at most one subresource, a supported one.
operationOf(r) ==
    CASE r.bucket = NoName -> IF r.method \in {"GET", "HEAD"} THEN "ListBuckets" ELSE Refused
      [] r.bucket # NoName /\ Routed(r) = {} -> plainOperation(r)
      [] r.bucket # NoName /\ Routed(r) = {"UploadPart"} -> partUpload(r)
      [] OTHER -> CHOOSE op \in Routed(r) : TRUE

\* Why the route is refused, "none" when it is not.
routeError(r) ==
    IF Cardinality(subresourcesOf(r)) > 1 THEN "ConflictingQuery"
    ELSE IF subresourcesOf(r) \subseteq Supported /\ operationOf(r) # Refused THEN "none"
    ELSE "UnsupportedOperation"

-----------------------------------------------------------------------------
(***************************************************************************)
(* The headers that add a permission, and the ones a decision rests on.    *)
(***************************************************************************)
Writes == {"PutObject", "CopyObject", "CreateMultipartUpload"}
Bypassed == {"DeleteObject", "DeleteObjectVersion", "DeleteObjects", "PutObjectRetention"}
CopySource == "x-amz-copy-source"
Checksum == "x-amz-checksum"

Has(r, h) == h \in DOMAIN r.headers
Says(r, h, v) == Has(r, h) /\ r.headers[h] = v

\* The permissions a header puts on the operation it rides on.
headerNeeds(op, h) ==
    CASE op \in Writes /\ h \in {"lock-mode", "retain-until"} -> {"s3:PutObjectRetention"}
      [] op \in Writes /\ h = "legal-hold" -> {"s3:PutObjectLegalHold"}
      [] op = "CopyObject" /\ h = "tagging-directive" -> {"s3:PutObjectTagging"}
      [] op \in Writes \ {"CopyObject"} /\ h = "tagging" -> {"s3:PutObjectTagging"}
      [] op \in Bypassed /\ h = "bypass-governance" -> {"s3:BypassGovernanceRetention"}
      [] op = "CreateBucket" /\ h = "lock-enabled" ->
            {"s3:PutBucketVersioning", "s3:PutBucketObjectLockConfiguration"}
      [] OTHER -> {}

\* The headers readHeaders decided from.  A copy's tags are written, and so its
\* tagging header decided from, only under a REPLACE directive.
decidedFrom(r, op) ==
    {h \in DOMAIN r.headers :
        CASE h = "tagging-directive" -> op = "CopyObject" /\ r.headers[h] = "REPLACE"
          [] h = "tagging" ->
                \/ op \in Writes \ {"CopyObject"}
                \/ op = "CopyObject" /\ Says(r, "tagging-directive", "REPLACE")
          [] h \in {"bypass-governance", "lock-enabled"} ->
                headerNeeds(op, h) # {} /\ r.headers[h] = "true"
          [] OTHER -> headerNeeds(op, h) # {}}

headerPermissions(r, op) == UNION {headerNeeds(op, h) : h \in decidedFrom(r, op)}

\* Every header a decision was taken from: those, and a copy's source.
headersOf(r, op) ==
    decidedFrom(r, op) \cup (IF CopiesSource(op) THEN {CopySource} ELSE {})

sourcePermission(r) == IF r.copy.version THEN "s3:GetObjectVersion" ELSE "s3:GetObject"

-----------------------------------------------------------------------------
(***************************************************************************)
(* The body, once bound to the signature.                                  *)
(***************************************************************************)
NoBody == [size |-> 0, parses |-> FALSE, entries |-> 0, versions |-> FALSE]
UnsignedPayload == [NoBody EXCEPT !.entries = MaxEntries + 2]   \* no body's hash

HasChecksum(r) == r.checksum # UnsignedPayload

boundBody(r, op) ==
    CASE ~ReadsBody(op) -> IF r.body.size > 0 THEN "InvalidBody" ELSE "none"
      [] ReadsBody(op) ->
            IF r.body.size = 0 \/ r.body.size > MaxBodySize THEN "InvalidBody"
            ELSE IF HasChecksum(r) /\ Checksum \notin r.signed THEN "UnsignedHeader"
            ELSE IF /\ r.checksum \in {r.body, UnsignedPayload}
                    /\ r.payload \in {r.body, UnsignedPayload}
                    /\ r.body \in {r.checksum, r.payload}
            THEN "none" ELSE "InvalidBody"

readBody(r, op) ==
    IF ReadsBody(op) /\ (~r.body.parses \/ r.body.entries > MaxEntries)
    THEN "InvalidBody" ELSE "none"

bodyPermissions(r, op) ==
    IF ReadsBody(op) /\ r.body.versions THEN {"s3:DeleteObjectVersion"} ELSE {}

-----------------------------------------------------------------------------
\* Every permission the credential needs on the bucket the request addresses.
permissions(r, op) ==
    OwnPermissions(op) \cup headerPermissions(r, op) \cup bodyPermissions(r, op)

\* Mutant of unsignedHeader: the headers a decision rests on need no signature.
neverUnsigned(r, op) == FALSE

\* Some header the decision rests on is not covered by the signature.
unsignedHeader(r, op) == ~(headersOf(r, op) \subseteq r.signed)

\* Why the request cannot be decided on, "none" when it can: the refusals that
\* Authorize and RequirementsFor share, in their common order.
undecidable(r) ==
    LET op == operationOf(r)
    IN  IF routeError(r) # "none" THEN routeError(r)
        ELSE IF unsignedHeader(r, op) THEN "UnsignedHeader"
        ELSE IF boundBody(r, op) # "none" THEN boundBody(r, op)
        ELSE readBody(r, op)

\* Every bucket and permission the request needs, for a gateway deciding from
\* what it has cached.
RequirementsFor(r) ==
    LET op == operationOf(r)
    IN  IF ~addressesExistingBucket(op) THEN {}
        ELSE {<<r.bucket, p>> : p \in permissions(r, op)}
                \cup (IF CopiesSource(op) THEN {<<r.copy.bucket, sourcePermission(r)>>} ELSE {})
=============================================================================
