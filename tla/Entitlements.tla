---------------------------- MODULE Entitlements ----------------------------
(***************************************************************************)
(* What access control promises the callers of one tenant, as if every     *)
(* operation happened at once: who the principals are, which document is   *)
(* each bucket's policy, which keys are in their callers' hands, and what  *)
(* each of those holds over each bucket.  There are no handlers, locks,    *)
(* transactions, callbacks or revocations here, and nothing fails.         *)
(*                                                                         *)
(* A key follows the policies of its principal: each write of a policy     *)
(* brings along every key the change matters to.  The exceptions are kept  *)
(* in adrift: the pairs of a key and a bucket that a removal in progress   *)
(* has let go of, or that the key was handed out with.                     *)
(***************************************************************************)
CONSTANTS
    Principals, Buckets, Keys, Commands,
    Documents, NoPolicy,      \* what a bucket's policy can be, and none
    Named(_),                 \* the principals a document names
    Grants(_, _),             \* the commands a document gives a principal
    RemovePrincipal(_, _)     \* the document without the principal

VARIABLES
    users,     \* the principals
    buckets,   \* the buckets
    policy,    \* the policy of each bucket
    keys,      \* the keys in their callers' hands
    gone,      \* the keys that were, and work no more
    owner,     \* the principal each key is bound to
    held,      \* the commands each key holds over each bucket
    adrift     \* the pairs of a key and a bucket that do not follow the policy

entitlements == <<users, buckets, policy, keys, gone, owner, held, adrift>>

Init ==
    /\ users = {} /\ keys = {} /\ gone = {} /\ adrift = {}
    /\ buckets = Buckets
    /\ policy = [b \in Buckets |-> NoPolicy]
    /\ owner = [k \in {} |-> NoPolicy] /\ held = [k \in {} |-> NoPolicy]

\* A key is bound to a principal and holds commands over the buckets there are.
InPlace ==
    /\ owner \in [keys -> users]
    /\ held \in [keys -> [buckets -> SUBSET Commands]]
    /\ adrift \subseteq keys \X buckets

-----------------------------------------------------------------------------
(***************************************************************************)
(* What an operation does to a key over a bucket.                          *)
(***************************************************************************)
Same(k, b) == held'[k][b] = held[k][b] /\ (<<k, b>> \in adrift' <=> <<k, b>> \in adrift)
Renewed(k, b) == held'[k][b] = Grants(policy'[b], owner[k]) /\ <<k, b>> \notin adrift'
Abandoned(k, b) == held'[k][b] = held[k][b] /\ <<k, b>> \in adrift'
Emptied(k, b) == held'[k][b] = {} /\ <<k, b>> \in adrift'

Untouched(ks, bs) == \A k \in ks : owner'[k] = owner[k] /\ \A b \in bs : Same(k, b)

-----------------------------------------------------------------------------
Join(p) ==
    /\ p \notin users /\ users' = users \cup {p}
    /\ UNCHANGED <<buckets, policy, keys, gone, owner, held, adrift>>

\* The policy of a bucket is written or removed, with the keys it matters to.
SetPolicy(b) ==
    /\ UNCHANGED <<users, buckets, keys, gone, owner>>
    /\ b \in buckets
    /\ policy'[b] \in Documents /\ Named(policy'[b]) \subseteq users
    /\ policy' = [policy EXCEPT ![b] = policy'[b]]
    /\ \A k \in keys :
          \/ Renewed(k, b)
          \/ Grants(policy'[b], owner[k]) = Grants(policy[b], owner[k]) /\ Same(k, b)
    /\ Untouched(keys, buckets \ {b})

\* A removal takes from keys of p what they hold, wherever they hold it ...
Suspend(p, ks) ==
    /\ UNCHANGED <<users, buckets, policy, keys, gone, owner>>
    /\ \A k \in ks : owner[k] = p /\ \A b \in buckets : Emptied(k, b)
    /\ Untouched(keys \ ks, buckets)

\* ... and p out of a policy that names it, with its keys left as they are ...
Strip(p, b) ==
    /\ UNCHANGED <<users, buckets, keys, gone, owner>>
    /\ b \in buckets /\ p \in Named(policy[b])
    /\ policy' = [policy EXCEPT ![b] = RemovePrincipal(policy[b], p)]
    /\ \A k \in keys : IF owner[k] = p THEN Abandoned(k, b) ELSE Same(k, b)
    /\ Untouched(keys, buckets \ {b})

\* ... until no policy names p, and it goes with every key of its own.
Leave(p) ==
    /\ UNCHANGED <<buckets, policy>>
    /\ p \in users /\ users' = users \ {p}
    /\ \A b \in Buckets : p \notin Named(policy[b])
    /\ keys' = {k \in keys : owner[k] # p}
    /\ gone' = gone \cup (keys \ keys')
    /\ Untouched(keys', buckets)

\* A new key is handed out.
Issue(k, p) ==
    /\ UNCHANGED <<users, buckets, policy, gone>>
    /\ k \notin keys \cup gone /\ p \in users
    /\ keys' = keys \cup {k} /\ owner'[k] = p
    /\ \A b \in buckets : held'[k][b] = Grants(policy[b], p) \/ <<k, b>> \in adrift'
    /\ Untouched(keys, buckets)

Revoke(k) ==
    /\ UNCHANGED <<users, buckets, policy>>
    /\ k \in keys /\ keys' = keys \ {k} /\ gone' = gone \cup {k}
    /\ Untouched(keys', buckets)

DropBucket(b) ==
    /\ UNCHANGED <<users, keys, gone>>
    /\ b \in buckets /\ buckets' = buckets \ {b}
    /\ policy' = [policy EXCEPT ![b] = NoPolicy]
    /\ Untouched(keys, buckets')

Next ==
    /\ InPlace'
    /\ \/ \E p \in Principals : Join(p) \/ Leave(p)
       \/ \E p \in Principals : \E ks \in SUBSET keys : Suspend(p, ks)
       \/ \E p \in Principals, b \in Buckets : Strip(p, b)
       \/ \E b \in Buckets : SetPolicy(b) \/ DropBucket(b)
       \/ \E k \in Keys : Revoke(k) \/ \E p \in Principals : Issue(k, p)

Spec == Init /\ [][Next]_entitlements
=============================================================================
