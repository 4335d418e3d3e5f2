------------------------------- MODULE SigV4 -------------------------------
(***************************************************************************)
(* SigV4 and SigV4a signatures on S3 requests (pkg/sigv4): what Parse      *)
(* refuses, what the signature covers, and when it is valid.               *)
(*                                                                         *)
(* To the fields of S3Operation a request adds                             *)
(*   auth      "header", "presigned" or "none"                             *)
(*   form      "good", or what is wrong with the signature's parameters    *)
(*   scheme    "v4" or "v4a";  keyID  the access key it names              *)
(*   regions   the credential's region, or the region set of a v4a         *)
(*   scopeDate the day of the credential scope;  date, expires  its times  *)
(*   signature the secret it was made with and what it was made over       *)
(* A signature is its key and content: no other pair verifies.  Times are  *)
(* in half seconds, so that a fraction of a second is a time of its own.   *)
(***************************************************************************)
EXTENDS S3Operation, Sequences

Second == 2
Day == 86400 * Second
MaxClockSkew == 15 * 60 * Second
maxPresignExpiry == 7 * Day

NextMidnight(t) == ((t \div Day) + 1) * Day

RegionSet == "x-amz-region-set"

\* A header map that repeats a name is refused, as are a missing payload hash,
\* an unknown algorithm, incomplete parameters and a malformed credential.
Forms == {"good", "duplicate header", "no payload hash", "algorithm", "incomplete",
          "credential"}

Parses(r) ==
    /\ r.auth # "none"
    /\ r.form = "good"
    /\ r.auth = "header" => /\ "host" \in r.signed
                            /\ r.scheme = "v4a" => RegionSet \in r.signed

HeaderSigned(r, h) == h \in r.signed

Scope(r) == <<r.scopeDate, IF r.scheme = "v4" THEN r.regions ELSE <<>>>>

\* The canonical request and the string to sign: the signed headers with their
\* values, an absent one as empty; a presigned request's parameters, its
\* lifetime and region set among them, are part of the query.
StringToSign(r) ==
    [scheme |-> r.scheme, date |-> r.date, scope |-> Scope(r), method |-> r.method,
     path |-> <<r.bucket, r.key>>, query |-> r.query, payload |-> r.payload,
     presigned |-> IF r.auth = "presigned" THEN <<r.keyID, r.expires, r.regions>> ELSE <<>>,
     names |-> r.signed,
     headers |-> {<<h, r.headers[h]>> : h \in (DOMAIN r.headers) \cap r.signed},
     copy |-> IF HeaderSigned(r, CopySource) THEN {r.copy} ELSE {},
     checksum |-> IF HeaderSigned(r, Checksum) THEN {r.checksum} ELSE {},
     regions |-> IF HeaderSigned(r, RegionSet) THEN {r.regions} ELSE {}]

\* HMAC under the derived key, or ECDSA under the key pair of the secret.
signatureOf(r, secret) == [by |-> secret, over |-> StringToSign(r)]

Signed(r, secret) == [r EXCEPT !.signature = signatureOf(r, secret)]

Verify(r, secret) == r.signature = signatureOf(r, secret)

\* The key a gateway verifies later requests with: of one day and region under
\* SigV4, of the access key alone under SigV4a.
deriveSigningKeyV4(secret, scope) == [by |-> secret, scope |-> scope]
derivedPublicKeyV4a(secret) == [by |-> secret, scope |-> <<>>]

DeriveKey(r, secret) ==
    IF r.scheme = "v4" THEN deriveSigningKeyV4(secret, Scope(r))
    ELSE derivedPublicKeyV4a(secret)

verifyV4WithKey(r, key) == key.scope = Scope(r) /\ r.signature = signatureOf(r, key.by)
verifyV4aWithKey(r, key) == r.signature = signatureOf(r, key.by)

VerifyWithKey(r, key) ==
    IF r.scheme = "v4" THEN verifyV4WithKey(r, key) ELSE verifyV4aWithKey(r, key)

\* The window of a header signature, or of a presigned URL.
ValidTime(r, now) ==
    IF r.auth = "presigned"
    THEN /\ r.expires > 0 /\ r.expires <= maxPresignExpiry
         /\ r.date <= now /\ now <= r.date + r.expires
    ELSE now <= r.date + MaxClockSkew /\ r.date <= now + MaxClockSkew
=============================================================================
