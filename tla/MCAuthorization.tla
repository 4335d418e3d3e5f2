-------------------------- MODULE MCAuthorization --------------------------
(***************************************************************************)
(* Requests, worlds and times for TLC to run Authorization on.             *)
(*                                                                         *)
(* Bucket "a" is the tenant's and served by the provider that asks, "b"    *)
(* the tenant's in one world or another, "c" another tenant's, "d" nobody's*)
(***************************************************************************)
EXTENDS Authorization

Noon == 20 * Day + Day \div 2
Late == 21 * Day - Second         \* the last second of day 20
MCTimes == {Noon, Late, 21 * Day + 1}

NoCopy == [present |-> FALSE, parses |-> FALSE, bucket |-> NoName, version |-> FALSE]
CopyOf(b, v) == [present |-> TRUE, parses |-> TRUE, bucket |-> b, version |-> v]
BadCopy == [NoCopy EXCEPT !.present = TRUE]

Plain(m, b, k, q) ==
    [method |-> m, bucket |-> b, key |-> k, query |-> q, headers |-> <<>>, copy |-> NoCopy,
     body |-> NoBody, checksum |-> UnsignedPayload, payload |-> UnsignedPayload,
     signed |-> {"host"}, auth |-> "presigned", form |-> "good", scheme |-> "v4",
     keyID |-> "key", regions |-> <<"here">>, scopeDate |-> 20, date |-> Noon,
     expires |-> Day, signature |-> [by |-> "nobody", over |-> <<>>]]

Object(m, q) == Plain(m, "a", TRUE, q)

Made(R) == {Signed(r, "secret") : r \in R}

-----------------------------------------------------------------------------
Methods == {"GET", "HEAD", "PUT", "POST", "DELETE", "PATCH"}
Queries == {{}, {"versionId"}, {"acl", "cors"}, {"lifecycle"}, {"uploadId", "partNumber"}}
              \cup {{s} : s \in Supported} \cup {{s, "versionId"} : s \in {"retention", "acl"}}

\* Every route, with no header or body to add to it.
Routes ==
    {Plain(m, "a", k, q) : m \in Methods, k \in BOOLEAN, q \in Queries}
        \cup {Plain(m, n, FALSE, {}) : m \in Methods, n \in {NoName, "b", "c", "d"}}

Lists(S, v) == [h \in S |-> v]

\* Writes with headers that add a permission, all signed or all but one.
Headed ==
    LET with(r, hs) ==
            {[r EXCEPT !.headers = hs, !.signed = ({"host", CopySource} \cup DOMAIN hs) \ out] :
                out \in {{}} \cup {{h} : h \in DOMAIN hs \cup {CopySource}}}
        writes == {Object("PUT", {}), Object("POST", {"uploads"})}
                    \cup {[Object("PUT", {}) EXCEPT !.copy = c] :
                            c \in {CopyOf("a", FALSE), CopyOf("b", TRUE), BadCopy}}
    IN  UNION {with(r, Lists(S, v)) :
                  r \in writes, v \in {"REPLACE", "other"},
                  S \in {{"lock-mode"}, {"legal-hold", "tagging"},
                         {"tagging", "tagging-directive"}}}
        \cup UNION {with(r, Lists({h}, v)) :
                  r \in {Object("DELETE", {}), Object("PUT", {"retention"}),
                         Plain("PUT", "d", FALSE, {})},
                  h \in {"bypass-governance", "lock-enabled"}, v \in {"true", "other"}}

Copies ==
    {[r EXCEPT !.copy = CopyOf(b, v), !.signed = {"host", CopySource}] :
        r \in {Object("PUT", {}), Object("PUT", {"uploadId", "partNumber"})},
        b \in {"a", "b", "c", "d"}, v \in BOOLEAN}

Body(n, v) == [size |-> 100, parses |-> TRUE, entries |-> n, versions |-> v]
Big(n) == [Body(1, FALSE) EXCEPT !.size = n]
Bodies == {Body(MaxEntries, FALSE), Body(MaxEntries + 1, FALSE), Body(1, TRUE), NoBody,
           Big(MaxBodySize), Big(MaxBodySize + 1), [Body(1, FALSE) EXCEPT !.parses = FALSE]}

\* Deletes of many objects, bound by the payload hash, by a checksum or by neither.
Bulk ==
    LET delete == Plain("POST", "a", FALSE, {"delete"})
    IN  UNION {{[delete EXCEPT !.body = b, !.payload = b],
                [delete EXCEPT !.body = b, !.checksum = b, !.signed = {"host", Checksum}],
                [delete EXCEPT !.body = b, !.checksum = b],
                [delete EXCEPT !.body = b]} : b \in Bodies}

\* Signatures of other kinds, times and regions.
Credentials ==
    LET read == Object("GET", {})
    IN  {[read EXCEPT !.form = f] : f \in Forms} \cup {[read EXCEPT !.keyID = k] :
            k \in {"garbled", "other"}}
        \cup {[read EXCEPT !.auth = "header", !.signed = s, !.scheme = v, !.regions = g,
                           !.date = d, !.scopeDate = d \div Day] :
                s \in {{}, {"host"}, {"host", RegionSet}}, v \in {"v4", "v4a"},
                g \in {<<"here">>, <<"nowhere">>, <<"there", "here">>, <<"there">>},
                d \in {Noon, Late, Late + MaxClockSkew, 21 * Day}}
        \cup {[read EXCEPT !.auth = "none"], [read EXCEPT !.expires = 8 * Day],
              [read EXCEPT !.expires = 0]}

\* A relay changes one thing, or a body together with the checksum of it.
MCAlterations ==
    {[method |-> "DELETE"], [bucket |-> "b"], [query |-> {"versionId"}],
     [regions |-> <<"here">>], [expires |-> 2 * Day],
     [headers |-> Lists({"tagging", "lock-mode"}, "other")],
     [headers |-> Lists({"tagging", "tagging-directive"}, "REPLACE")],
     [headers |-> Lists({"bypass-governance", "lock-enabled"}, "true")],
     [headers |-> <<>>],
     [copy |-> CopyOf("b", FALSE)], [copy |-> CopyOf("a", TRUE)], [copy |-> NoCopy],
     [body |-> Body(1, TRUE)], [body |-> NoBody],
     [body |-> Body(1, TRUE), checksum |-> Body(1, TRUE)],
     [body |-> Body(1, TRUE), payload |-> Body(1, TRUE)]}

-----------------------------------------------------------------------------
Allow(ps, as) == [effect |-> "Allow", principal |-> ps, actions |-> as]
Deny(ps, as) == [effect |-> "Deny", principal |-> ps, actions |-> as]
AllButVersions == {Allow({0}, {"*"}), Deny({1}, {"s3:GetObjectVersion",
                                                  "s3:DeleteObjectVersion"})}
Readers == {Allow({1}, {"s3:GetObject", "s3:GetObjectVersion"})}

Bucket(t, p, d, root) == [tenant |-> t, provider |-> p, policy |-> d, root |-> root]
Buckets(da, pb, db) ==
    [a |-> Bucket(Tenant, "p1", da, TRUE), b |-> Bucket(Tenant, pb, db, FALSE),
     c |-> Bucket("another", "p1", {}, TRUE), d |-> Bucket(Absent, "p1", {}, FALSE)]

Key(kind, perms, scope, p, exp) ==
    [id |-> "key", secret |-> "secret", kind |-> kind, permissions |-> perms,
     scope |-> scope, principal |-> p, expires |-> exp]

Objects == {"s3:GetObject", "s3:PutObject", "s3:DeleteObject", "s3:PutObjectTagging"}

Keys == {Key("service", S3Permissions, {}, 0, Never), Key("service", Objects, {"a"}, 0, Noon + 1),
         Key("service", S3Permissions, {"a"}, 0, 21 * Day + 3), Key("member", {}, {}, 1, Never)}

World(k, s, bs, ps) ==
    [key |-> k, status |-> s, buckets |-> bs, principals |-> ps, issuer |-> "p1",
     served |-> [here |-> "p1", there |-> "p2", nowhere |-> Absent]]

MCWorlds ==
    {World(k, "active", bs, {1}) :
        k \in Keys, bs \in {Buckets(AllButVersions, "p1", Readers),
                            Buckets(Readers, "p2", Readers), Buckets({}, "p2", {})}}
    \cup {World(k, s, Buckets(AllButVersions, "p1", Readers), {}) :
            k \in Keys, s \in {"write-locked", "disabled"}}

At(R, W, T) == [request : Made(R), world : W, time : T]

MCCases == At(Routes \cup Headed \cup Copies \cup Bulk, MCWorlds, {Noon})
              \cup At(Credentials, MCWorlds, MCTimes)
=============================================================================
