------------------------------ MODULE MCAccess ------------------------------
(***************************************************************************)
(* Instances of Access for TLC.  A handler's name says what it serves.     *)
(***************************************************************************)
EXTENDS Access

Allow(ps, as) == [effect |-> "Allow", principal |-> ps, actions |-> as]
Deny(ps, as) == [effect |-> "Deny", principal |-> ps, actions |-> as]

MCCommandsOf == [a \in Actions |-> {a}]

NamedDoc == {Allow({1}, {"get"})}
WildDoc == {Allow({Wildcard}, {"*"}), Deny({1}, {"put"})}
PairDoc == {Allow({1, 2}, {"get"})}

MCDocs == {NamedDoc, WildDoc}
NamedDocs == {NamedDoc}
WildDocs == {WildDoc}
PairDocs == {PairDoc}

NoCondition == {Unconditional}
Conditional == {IfNoneMatch} \cup {IfMatch(ETag(d)) : d \in Docs}

MCServes ==
    [s \in Procs |->
        CASE s = "policies" -> {"writePolicy", "removePolicy"}
          [] s = "writes" -> {"writePolicy"}
          [] s = "keys" -> {"createKey", "deleteKey"}
          [] s = "principals" -> {"createPrincipal", "removePrincipal"}
          [] s = "joiners" -> {"createPrincipal"}
          [] s = "members" -> {"createPrincipal", "createKey", "deleteKey"}
          [] s = "removals" -> {"removePrincipal", "deleteBucket"}
          [] s = "owners" -> {"createPrincipal", "removePrincipal", "createKey", "deleteKey"}
          [] s = "leavers" -> {"removePrincipal"}
          [] s = "buckets" -> {"deleteBucket"}]

-----------------------------------------------------------------------------
(***************************************************************************)
(* The callers of the run ends.  They bring the system into one of two     *)
(* situations, one request at a time: a single bucket is left and no key   *)
(* was generated, or both buckets have a policy and a key of its principal *)
(* is being created.  In the first every kind of request runs against      *)
(* every other, with one key; in the second a policy's removal, another    *)
(* key's creation and the deletion of the first bucket, the three that can *)
(* wait for each other in a cycle.  A principal may be created, or created *)
(* again, at any time.                                                     *)
(***************************************************************************)
Generated == {k \in Keys : owner[k] # None}

OneBucket(kind) == 2 \notin buckets /\ (kind = "createKey" => Generated = {})

TwoBuckets(c) ==
    /\ 2 \in buckets /\ Generated # {}
    /\ \/ c.kind \in {"removePolicy", "createKey"}
       \/ c.kind = "deleteBucket" /\ c.bucket = 1

Opening(c) ==
    /\ \A s \in Procs : At(s, "idle")
    /\ \/ c.kind = "writePolicy" /\ Generated = {}
       \/ c.kind = "createKey" /\ \A b \in Buckets : policy[b] # NoPolicy
       \/ c.kind = "deleteBucket" /\ c.bucket = 2 /\ policy = NoDocs /\ ListIDsByTenant = {}

\* The action constraints of the run: what begins a request is restricted, and ids are
\* generated in their order.  A handler that has begun can go on wherever it could.
Sent ==
    \A s \in Procs :
        At(s, "idle") /\ call'[s] # call[s] =>
            \/ call'[s].kind = "createPrincipal"
            \/ OneBucket(call'[s].kind) \/ TwoBuckets(call'[s]) \/ Opening(call'[s])

InOrder == \A k \in Keys : owner'[k] # None => \A j \in Keys : j < k => owner'[j] # None

EndsSpec == Spec /\ Fairness
=============================================================================
