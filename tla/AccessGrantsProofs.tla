------------------------- MODULE AccessGrantsProofs -------------------------
(***************************************************************************)
(* Every key holds over a bucket what the committed policy gives its       *)
(* principal, however policy writes, removals and key creations interleave *)
(* and whatever fails.                                                     *)
(*                                                                         *)
(* The argument has two halves.  A policy write may leave a key alone only *)
(* when the change spares its owner, or when the key cannot have read the  *)
(* policy yet; the callback's locks (the tenant's for a Put, the policy    *)
(* row's for a Delete, the affected principals' rows for both) see to it.  *)
(* A key creation may store what it has read only when no rotation came in *)
(* between; the empty-handed check of Replace sees to that.                *)
(*                                                                         *)
(* Two parts are about the keys themselves: what a key in a caller's hands *)
(* held is revoked before it leaves the table, and a key with a row has    *)
(* its private key in the vault.  A further part shows that all of this,   *)
(* as callers see it, is Entitlements: one whole operation at a time.  The *)
(* last part is about the locks: which order they are taken in, and that   *)
(* it lets every wait end.                                                 *)
(***************************************************************************)
EXTENDS AccessProofs, FiniteSetTheorems

Minding == {"lockP", "load", "lockK", "publish", "commit"}

-----------------------------------------------------------------------------
(***************************************************************************)
(* The invariant: keys in the making.                                      *)
(***************************************************************************)
\* Every key a handler speaks of has been generated.
Bound(s) ==
    /\ \A k \in call[s].keys : owner[k] # None
    /\ call[s].key # None => owner[call[s].key] # None

KeysAreBound ==
    \A k \in Keys : owner[k] = None => k \notin keyRow /\ k \notin returned /\ ~Holds(k)

\* A creation has its key to itself: nobody was given it, and before it has a row
\* nobody has listed it.
Creates(s) ==
    /\ call[s].pc \in Starting \cup {"ckAdd", "ckSnap"} => call[s].snap = NoDocs
    /\ call[s].pc \in Creating =>
          /\ owner[keyOf(s)] = principalOf(s)
          /\ keyOf(s) \notin returned
    /\ At(s, "ckAdd") =>
          /\ keyOf(s) \notin keyRow /\ ~Holds(keyOf(s))
          /\ \A t \in Procs : keyOf(s) \notin call[t].keys

Distinct ==
    \A s, t \in Procs :
        s # t /\ call[s].pc \in Creating /\ call[t].pc \in Creating => keyOf(s) # keyOf(t)

\* s is not a creation of k that has read the policy of b, or gone past it.
Unread(s, k, b) ==
    call[s].pc \in Creating /\ keyOf(s) = k =>
        \/ call[s].pc \in {"ckSnap"} \cup Undoing
        \/ At(s, "ckRows") /\ b \in call[s].want

\* What a rotation has left on k over b is what the policy gives.
InStep(k, b) == held[k][b] = Grants(policy[b], owner[k])

\* What a creation has read is still in force, or a rotation has dealt with it.
Fits(s) ==
    call[s].pc \in {"ckRows", "ckStore"} /\ keyOf(s) \in keyRow =>
        \A b \in buckets :
            \/ At(s, "ckRows") /\ b \in call[s].want
            \/ held[keyOf(s)][b] # {} /\ InStep(keyOf(s), b)
            \/ <<keyOf(s), b>> \in excused
            \/ Grants(call[s].snap[b], principalOf(s)) = Grants(policy[b], principalOf(s))

\* A creation about to answer holds what the policies give.
Ready(s) ==
    At(s, "ckGet") /\ keyOf(s) \in keyRow =>
        \A b \in buckets : <<keyOf(s), b>> \in excused \/ InStep(keyOf(s), b)

-----------------------------------------------------------------------------
(***************************************************************************)
(* The invariant: writes in their callback.                                *)
(***************************************************************************)
\* The write changes nothing for p.
Spared(s, p) == Grants(call[s].old, p) = Grants(docOf(s), p)

\* A Put has every live principal it affects locked, or in its lock list.
MindsLive(s) ==
    \A p \in Principals : principal[p] = "live" =>
        \/ docOf(s) = NoPolicy
        \/ Spared(s, p)
        \/ /\ p \in call[s].aff
           /\ \/ At(s, "lockP") /\ p \in call[s].want
              \/ Has(s, <<"principal", p>>, "NO KEY UPDATE")

\* The keys it has not listed are spared, or have not read the policy.
Unseen(k, b) == /\ k \notin returned /\ held[k][b] = {}
                /\ \A t \in Procs : Unread(t, k, b)

MindsRows(s) ==
    \A k \in keyRow :
        \/ Spared(s, owner[k])
        \/ call[s].pc \in {"lockP", "load"} /\ owner[k] \in call[s].aff
        \/ call[s].pc \notin {"lockP", "load"} /\ k \in call[s].keys
        \/ docOf(s) = NoPolicy /\ Unseen(k, bucketOf(s))

\* The keys it rotates are those of the listed ones that still have a row.
MindsFresh(s) == At(s, "commit") => \A k \in call[s].keys : k \in keyRow => k \in call[s].fresh

Minds(s) ==
    call[s].pc \in Minding /\ ~Strips(s) => MindsLive(s) /\ MindsRows(s) /\ MindsFresh(s)

GrantsInv ==
    /\ KeysAreBound /\ Distinct /\ GrantsMatchPolicy
    /\ \A s \in Procs : Bound(s) /\ Creates(s) /\ Fits(s) /\ Ready(s) /\ Minds(s)

-----------------------------------------------------------------------------
(***************************************************************************)
(* What a step of s may do to the others.                                  *)
(***************************************************************************)
Own(s, k) == call[s].pc \in Creating /\ keyOf(s) = k

\* A pair of a key and a bucket after a step: as it was, let go of, rotated to the new
\* policy, or of a key that has not read the policy yet.
Still(k, b) ==
    /\ held'[k][b] = held[k][b]
    /\ <<k, b>> \in excused => <<k, b>> \in excused'
    /\ Grants(policy'[b], owner[k]) = Grants(policy[b], owner[k])
Renewed(k, b) ==
    /\ held'[k][b] = Grants(policy'[b], owner[k])
    /\ held'[k][b] # {} \/ k \in returned
Later(s, k, b) ==
    /\ k \notin returned /\ held'[k][b] = {}
    /\ \A t \in Procs : t # s => Unread(t, k, b)

Fair(s) ==
    \A k \in keyRow', b \in buckets' :
        Own(s, k) \/ Still(k, b) \/ <<k, b>> \in excused' \/ Renewed(k, b) \/ Later(s, k, b)

\* The key a creation is making obeys its policy after the step too.
OwnMatches(s) ==
    \A k \in keyRow', b \in buckets' : Own(s, k) =>
        \/ <<k, b>> \in excused'
        \/ /\ held'[k][b] \subseteq Grants(policy'[b], owner[k])
           /\ k \in returned' => held'[k][b] = Grants(policy'[b], owner[k])

TableMoves(s) ==
    /\ \A k \in Keys : owner[k] # None => owner'[k] = owner[k]
    /\ \A k \in keyRow' : k \in keyRow \/
          /\ At(s, "ckAdd") /\ k = keyOf(s) /\ call'[s].pc = "ckSnap"
          /\ principal[owner[k]] = "live"
          /\ CanLock(locks, s, <<"principal", owner[k]>>, "SHARE")
    /\ \A k \in returned' : k \in returned \/ (At(s, "ckGet") /\ k = keyOf(s) /\ k \in keyRow)
    /\ \A p \in Principals :
          principal'[p] = "live" =>
              principal[p] = "live" \/ Has(s, <<"tenant", None>>, "exclusive")
    /\ buckets' \subseteq buckets
    /\ \A k \in Keys, b \in Buckets : held[k][b] = {} =>
          \/ held'[k][b] = {}
          \/ k \in call[s].keys /\ Has(s, <<"bucket", b>>, "exclusive")
          \/ At(s, "ckStore") /\ k = keyOf(s)
    /\ Fair(s) /\ OwnMatches(s)

\* The keys a handler lists have a row or hold something.
Lists(s) == \A k \in call'[s].keys : k \in call[s].keys \/ k \in keyRow \/ (k \in Keys /\ Holds(k))

\* A creation reads no policy that a Delete is about to take from its key.
ReadsInTurn(s) ==
    \A t \in Procs, k \in keyRow, b \in Buckets :
        /\ t # s /\ call[t].pc \in Minding /\ ~Strips(t)
        /\ docOf(t) = NoPolicy /\ b = bucketOf(t)
        /\ ~Spared(t, owner[k]) /\ Unread(s, k, b)
        => Unread(s, k, b)'

CallMoves(s) ==
    /\ Lists(s) /\ ReadsInTurn(s)
    /\ call'[s].pc \in Creating =>
          \/ call[s].pc \in Creating /\ SameKey(s)
          \/ owner[call'[s].key] = None

Grant(s) == Bound(s) /\ Creates(s) /\ Fits(s) /\ Ready(s) /\ Minds(s)

GrantStep(s) == Grant(s)' /\ TableMoves(s) /\ CallMoves(s)

-----------------------------------------------------------------------------
(***************************************************************************)
(* A step of s and the other handlers' part of the invariant.              *)
(***************************************************************************)
LEMMA MindingIsPastRow == Minding \subseteq PastRow \cap OnBucket
  BY DEF Minding, PastRow, Rotating, OnBucket

LEMMA CreatesTyped ==
    ASSUME AccessInv, GrantsInv, NEW t \in Procs, call[t].pc \in Creating
    PROVE  /\ keyOf(t) \in Keys /\ owner[keyOf(t)] # None
           /\ keyOf(t) \notin returned
  <1>1. call[t] \in CallRecords /\ Creates(t) /\ Bound(t)
    BY CallTyped DEF AccessInv, GrantsInv
  <1>2. call[t].key # None => keyOf(t) \in Keys
    BY <1>1 DEF CallRecords, keyOf
  <1>3. call[t].key # None
    <2>1. CASE call[t].pc \in {"ckAdd", "ckSnap", "ckRows", "ckStore", "ckGet",
                                   "rbGrants", "rbRow", "rbSecret"}
      BY <2>1, CallTyped, KeysAssumption DEF AccessInv, Aimed, OfKey, None
    <2>2. QED
      BY <2>1 DEF Creating, Undoing
  <1>4. QED
    BY <1>1, <1>2, <1>3 DEF Creates, Bound, keyOf

LEMMA OthersCreate ==
    ASSUME AccessInv, GrantsInv, NEW s \in Procs, CallStep(s), GrantStep(s),
           NEW t \in Procs, t # s
    PROVE  Bound(t)' /\ Creates(t)'
  <1>1. call'[t] = call[t]
    BY DEF CallStep
  <1>2. Bound(t) /\ Creates(t) /\ TableMoves(s) /\ CallMoves(s) /\ call[t] \in CallRecords
    BY CallTyped DEF GrantsInv, GrantStep, AccessInv
  <1>3. Bound(t)'
    <2>1. call[t].keys \subseteq Keys /\ call[t].key \in Keys \cup {None}
      BY <1>2 DEF CallRecords
    <2>2. QED
      BY <1>1, <1>2, <2>1 DEF Bound, TableMoves
  <1>4. ASSUME call[t].pc \in Creating
        PROVE  owner'[keyOf(t)] = principalOf(t) /\ keyOf(t) \notin returned'
    <2>1. keyOf(t) \in Keys /\ owner[keyOf(t)] # None /\ keyOf(t) \notin returned
      BY <1>4, CreatesTyped
    <2>2. owner'[keyOf(t)] = owner[keyOf(t)]
      BY <1>2, <2>1 DEF TableMoves
    <2>3. At(s, "ckGet") => keyOf(t) # keyOf(s)
      BY <1>4 DEF GrantsInv, Distinct, At, Creating
    <2>4. QED
      BY <1>2, <1>4, <2>1, <2>2, <2>3 DEF TableMoves, Creates
  <1>5. ASSUME At(t, "ckAdd")
        PROVE  /\ keyOf(t) \notin keyRow' /\ ~Holds(keyOf(t))'
               /\ \A u \in Procs : keyOf(t) \notin call'[u].keys
    <2>1. /\ keyOf(t) \in Keys /\ keyOf(t) \notin keyRow /\ ~Holds(keyOf(t))
          /\ \A u \in Procs : keyOf(t) \notin call[u].keys
      BY <1>2, <1>5, CreatesTyped DEF Creates, At, Creating
    <2>2. At(s, "ckAdd") \/ At(s, "ckStore") => keyOf(t) # keyOf(s)
      BY <1>5 DEF GrantsInv, Distinct, At, Creating
    <2>3. keyOf(t) \notin keyRow'
      BY <1>2, <2>1, <2>2 DEF TableMoves
    <2>4. ASSUME NEW b \in Buckets PROVE held'[keyOf(t)][b] = {}
      BY <1>2, <2>1, <2>2 DEF TableMoves, Holds
    <2>5. ~Holds(keyOf(t))'
      BY <1>1, <2>4 DEF Holds, keyOf
    <2>6. \A u \in Procs : keyOf(t) \notin call'[u].keys
      BY <1>2, <2>1 DEF CallStep, CallMoves, Lists
    <2>7. QED
      BY <2>3, <2>5, <2>6
  <1>6. Creates(t)'
    BY <1>1, <1>2, <1>4, <1>5 DEF Creates, At, keyOf, principalOf
  <1>7. QED
    BY <1>3, <1>6

LEMMA OthersFit ==
    ASSUME AccessInv, GrantsInv, NEW s \in Procs, CallStep(s), GrantStep(s),
           NEW t \in Procs, t # s
    PROVE  Fits(t)' /\ Ready(t)'
  <1>1. call'[t] = call[t]
    BY DEF CallStep
  <1>2. Fits(t) /\ Ready(t) /\ Creates(t) /\ TableMoves(s)
    BY DEF GrantsInv, GrantStep
  <1>. DEFINE k == keyOf(t)
  <1>3. ASSUME call[t].pc \in Creating, k \in keyRow', NEW b \in buckets', ~At(t, "ckAdd")
        PROVE  /\ k \in keyRow /\ b \in buckets
               /\ owner'[k] = principalOf(t) /\ owner[k] = principalOf(t)
               /\ k \notin returned
               /\ \/ Still(k, b)
                  \/ <<k, b>> \in excused'
                  \/ held'[k][b] = Grants(policy'[b], owner[k]) /\ held'[k][b] # {}
                  \/ Unread(t, k, b)
    <2>1. k \in Keys /\ owner[k] # None /\ k \notin returned /\ owner[k] = principalOf(t)
      BY <1>2, <1>3, CreatesTyped DEF Creates
    <2>2. ~Own(s, k)
      BY <1>3 DEF GrantsInv, Distinct, Own
    <2>3. owner'[k] = owner[k] /\ k \in keyRow /\ b \in buckets
      BY <1>2, <1>3, <2>1, <2>2 DEF TableMoves, Own, At, Creating
    <2>4. Still(k, b) \/ <<k, b>> \in excused' \/ Renewed(k, b) \/ Later(s, k, b)
      BY <1>2, <1>3, <2>2 DEF TableMoves, Fair
    <2>5. QED
      BY <2>1, <2>3, <2>4 DEF Renewed, Later
  <1>4. ASSUME call[t].pc \in {"ckRows", "ckStore"}, k \in keyRow', NEW b \in buckets'
        PROVE  \/ At(t, "ckRows") /\ b \in call[t].want
               \/ held'[k][b] # {} /\ held'[k][b] = Grants(policy'[b], owner'[k])
               \/ <<k, b>> \in excused'
               \/ Grants(call[t].snap[b], principalOf(t)) = Grants(policy'[b], principalOf(t))
    <2>1. call[t].pc \in Creating /\ ~At(t, "ckAdd")
      BY <1>4 DEF Creating, At
    <2>2. /\ k \in keyRow /\ b \in buckets
          /\ owner'[k] = principalOf(t) /\ owner[k] = principalOf(t)
          /\ \/ Still(k, b)
             \/ <<k, b>> \in excused'
             \/ held'[k][b] = Grants(policy'[b], owner[k]) /\ held'[k][b] # {}
             \/ Unread(t, k, b)
      BY <1>3, <1>4, <2>1
    <2>3. CASE Still(k, b)
      BY <1>2, <1>4, <2>2, <2>3 DEF Still, Fits, InStep
    <2>4. CASE Unread(t, k, b)
      BY <1>4, <2>1, <2>4 DEF Unread, At, Undoing
    <2>5. QED
      BY <2>2, <2>3, <2>4
  <1>5. ASSUME At(t, "ckGet"), k \in keyRow', NEW b \in buckets'
        PROVE  <<k, b>> \in excused' \/ held'[k][b] = Grants(policy'[b], owner'[k])
    <2>1. call[t].pc \in Creating /\ ~At(t, "ckAdd")
      BY <1>5 DEF Creating, At
    <2>2. /\ k \in keyRow /\ b \in buckets
          /\ owner'[k] = principalOf(t) /\ owner[k] = principalOf(t)
          /\ \/ Still(k, b)
             \/ <<k, b>> \in excused'
             \/ held'[k][b] = Grants(policy'[b], owner[k]) /\ held'[k][b] # {}
             \/ Unread(t, k, b)
      BY <1>3, <1>5, <2>1
    <2>3. CASE Still(k, b)
      BY <1>2, <1>5, <2>2, <2>3 DEF Still, Ready, InStep
    <2>4. CASE Unread(t, k, b)
      BY <1>5, <2>1, <2>4 DEF Unread, At, Undoing
    <2>5. QED
      BY <2>2, <2>3, <2>4
  <1>. HIDE DEF k
  <1>6. Fits(t)'
    BY <1>1, <1>4 DEF Fits, InStep, At, keyOf, principalOf, k
  <1>7. Ready(t)'
    BY <1>1, <1>5 DEF Ready, InStep, At, keyOf, k
  <1>8. QED
    BY <1>6, <1>7

LEMMA OthersMind ==
    ASSUME AccessInv, WriteInv, GrantsInv, NEW s \in Procs, CallStep(s), LockStep(s),
           GrantStep(s), NEW t \in Procs, t # s
    PROVE  Minds(t)'
  <1>1. call'[t] = call[t]
    BY DEF CallStep
  <1>2. Minds(t) /\ Writes(t) /\ Writes(s) /\ Creates(s) /\ TableMoves(s) /\ CallMoves(s)
    BY DEF GrantsInv, WriteInv, GrantStep
  <1>3. ASSUME NEW res, NEW m, Has(t, res, m) PROVE Has(t, res, m)'
    BY <1>3, HasElsewhere DEF AccessInv, Has
  <1>. DEFINE B == bucketOf(t)
  <1>. SUFFICES ASSUME call[t].pc \in Minding, ~Strips(t)
                PROVE  MindsLive(t)' /\ MindsRows(t)' /\ MindsFresh(t)'
    BY <1>1 DEF Minds, Strips
  <1>4. /\ MindsLive(t) /\ MindsRows(t) /\ MindsFresh(t) /\ B \in Buckets
        /\ Has(t, <<"bucket", B>>, "exclusive")
        /\ docOf(t) # NoPolicy => Has(t, <<"tenant", None>>, "shared")
    BY <1>2, MindingIsPastRow, CallTyped
       DEF Minds, Writes, HoldsBucket, HoldsTenant, PastRow, Rotating, Minding, AccessInv, Aimed,
           OfBucket, bucketOf
  <1>5. ASSUME NEW p \in Principals, principal'[p] = "live", docOf(t) # NoPolicy
        PROVE  principal[p] = "live"
    BY <1>2, <1>4, <1>5, HasExcludes, ExclusivePairs DEF TableMoves
  <1>6. MindsLive(t)'
    <2>1. ASSUME NEW p \in Principals, principal'[p] = "live", docOf(t) # NoPolicy, ~Spared(t, p)
          PROVE  /\ p \in call[t].aff
                 /\ \/ At(t, "lockP") /\ p \in call[t].want
                    \/ Has(t, <<"principal", p>>, "NO KEY UPDATE")'
      BY <1>3, <1>4, <1>5, <2>1 DEF MindsLive
    <2>2. QED
      BY <1>1, <2>1 DEF MindsLive, At, Has, Spared, docOf
  <1>7. ASSUME NEW k \in keyRow', k \in keyRow
        PROVE  \/ Spared(t, owner'[k])
               \/ call[t].pc \in {"lockP", "load"} /\ owner'[k] \in call[t].aff
               \/ call[t].pc \notin {"lockP", "load"} /\ k \in call[t].keys
               \/ docOf(t) = NoPolicy /\ Unseen(k, B)'
    <2>1. k \in Keys /\ owner'[k] = owner[k]
      BY <1>2, <1>7 DEF AccessInv, TypeOK, TablesOK, RowsHaveOwners, TableMoves, GrantsInv, KeysAreBound
    <2>2. CASE docOf(t) = NoPolicy /\ Unseen(k, B) /\ ~Spared(t, owner[k])
      <3>1. k \notin returned /\ held[k][B] = {} /\ \A u \in Procs : Unread(u, k, B)
        BY <2>2 DEF Unseen
      <3>2. Unread(s, k, B)
        BY <3>1
      <3>3. ~(k \in call[s].keys /\ Has(s, <<"bucket", B>>, "exclusive"))
        BY <1>4, HasExcludes, ExclusivePairs
      <3>4. held'[k][B] = {}
        BY <1>2, <1>4, <2>1, <3>1, <3>2, <3>3
           DEF TableMoves, Unread, At, Creating, Undoing
      <3>5. k \notin returned'
        BY <1>2, <3>1, <3>2 DEF TableMoves, Unread, At, Creating, Undoing
      <3>6. Unread(s, k, B)'
        <4>1. \A b \in Buckets : b = bucketOf(t) /\ Unread(s, k, b) => Unread(s, k, b)'
          BY <1>2, <1>7, <2>2 DEF CallMoves, ReadsInTurn
        <4>2. bucketOf(t)' = bucketOf(t)
          BY <1>1 DEF bucketOf
        <4>3. QED
          BY <1>4, <3>2, <4>1, <4>2
      <3>7. ASSUME NEW u \in Procs, u # s PROVE Unread(u, k, B)'
        <4>1. call'[u] = call[u] /\ call'[t] = call[t] /\ Unread(u, k, B)
          BY <1>1, <3>1, <3>7 DEF CallStep
        <4>2. QED
          BY <4>1 DEF Unread, At, keyOf, bucketOf
      <3>8. QED
        BY <1>1, <2>2, <3>4, <3>5, <3>6, <3>7 DEF Unseen, bucketOf
    <2>3. QED
      BY <1>4, <1>7, <2>1, <2>2 DEF MindsRows
  <1>8. ASSUME NEW k \in keyRow', k \notin keyRow
        PROVE  \/ Spared(t, owner'[k])
               \/ call[t].pc \in {"lockP", "load"} /\ owner'[k] \in call[t].aff
               \/ docOf(t) = NoPolicy /\ Unseen(k, B)'
    <2>1. /\ At(s, "ckAdd") /\ k = keyOf(s) /\ call'[s].pc = "ckSnap"
          /\ principal[owner[k]] = "live"
          /\ CanLock(locks, s, <<"principal", owner[k]>>, "SHARE")
      BY <1>2, <1>8 DEF TableMoves
    <2>2. call[s].pc \in Creating /\ k \in Keys /\ owner[k] # None /\ k \notin returned
      BY <2>1, CreatesTyped DEF At, Creating
    <2>3. owner'[k] = owner[k] /\ owner[k] \in Principals
      BY <1>2, <2>2 DEF TableMoves, AccessInv, TypeOK, TablesOK
    <2>4. ~Has(t, <<"principal", owner[k]>>, "NO KEY UPDATE")
      BY <2>1, CanLockHas, ExclusivePairs
    <2>5. \/ docOf(t) = NoPolicy
          \/ Spared(t, owner[k])
          \/ owner[k] \in call[t].aff /\ At(t, "lockP")
      BY <1>4, <2>1, <2>3, <2>4 DEF MindsLive
    <2>6. CASE docOf(t) = NoPolicy
      <3>1. ~Holds(k) /\ k \notin call[s].keys
        BY <1>2, <2>1 DEF Creates
      <3>2. held'[k][B] = {}
        BY <1>2, <1>4, <2>1, <2>2, <3>1 DEF TableMoves, Holds, At
      <3>3. k \notin returned'
        BY <1>2, <2>1, <2>2 DEF TableMoves, At
      <3>4. ASSUME NEW u \in Procs PROVE Unread(u, k, B)'
        <4>1. CASE u = s
          BY <2>1, <4>1 DEF Unread
        <4>2. CASE u # s
          <5>1. ~(call[u].pc \in Creating /\ keyOf(u) = k)
            BY <2>1, <2>2, <4>2 DEF GrantsInv, Distinct
          <5>2. call'[u] = call[u]
            BY <4>2 DEF CallStep
          <5>3. QED
            BY <5>1, <5>2 DEF Unread, keyOf
        <4>3. QED
          BY <4>1, <4>2
      <3>5. QED
        BY <1>1, <2>6, <3>2, <3>3, <3>4 DEF Unseen, bucketOf
    <2>7. QED
      BY <2>3, <2>5, <2>6 DEF At
  <1>9. MindsRows(t)'
    BY <1>1, <1>7, <1>8 DEF MindsRows, Spared, docOf, bucketOf
  <1>10. MindsFresh(t)'
    <2>1. ASSUME NEW k \in call[t].keys, k \in keyRow' PROVE k \in keyRow
      BY <1>2, <2>1 DEF TableMoves, Creates
    <2>2. QED
      BY <1>1, <1>4, <2>1 DEF MindsFresh, At
  <1>11. QED
    BY <1>6, <1>9, <1>10

-----------------------------------------------------------------------------
(***************************************************************************)
(* A step of s and what the tables promise.                                *)
(***************************************************************************)
LEMMA TablesGrant ==
    ASSUME AccessInv, GrantsInv, NEW s \in Procs, CallStep(s), GrantStep(s)
    PROVE  KeysAreBound' /\ Distinct' /\ GrantsMatchPolicy'
  <1>1. TableMoves(s) /\ CallMoves(s) /\ Bound(s) /\ Creates(s)
    BY DEF GrantsInv, GrantStep
  <1>2. ASSUME NEW k \in Keys, owner'[k] = None
        PROVE  k \notin keyRow' /\ k \notin returned' /\ ~Holds(k)'
    <2>1. owner[k] = None
      BY <1>1, <1>2 DEF TableMoves
    <2>2. k \notin keyRow /\ k \notin returned /\ ~Holds(k)
      BY <2>1 DEF GrantsInv, KeysAreBound
    <2>3. ~Own(s, k) /\ k \notin call[s].keys
      BY <1>1, <2>1, CreatesTyped DEF Own, Bound
    <2>4. ~(At(s, "ckAdd") /\ k = keyOf(s)) /\ ~(At(s, "ckStore") /\ k = keyOf(s))
      BY <2>3 DEF Own, At, Creating
    <2>5. k \notin keyRow' /\ k \notin returned'
      BY <1>1, <2>2, <2>4 DEF TableMoves
    <2>6. ASSUME NEW b \in Buckets PROVE held'[k][b] = {}
      BY <1>1, <2>2, <2>3, <2>4 DEF TableMoves, Holds
    <2>7. QED
      BY <2>5, <2>6 DEF Holds
  <1>3. KeysAreBound'
    BY <1>2 DEF KeysAreBound
  <1>4. ASSUME NEW t \in Procs, t # s, call'[s].pc \in Creating, call'[t].pc \in Creating
        PROVE  call'[s].key # call'[t].key
    <2>1. call'[t] = call[t] /\ call[t].pc \in Creating
      BY <1>4 DEF CallStep
    <2>2. owner[keyOf(t)] # None
      BY <2>1, CreatesTyped
    <2>3. CASE call[s].pc \in Creating /\ SameKey(s)
      BY <1>4, <2>1, <2>3 DEF GrantsInv, Distinct, SameKey, keyOf
    <2>4. QED
      BY <1>1, <1>4, <2>1, <2>2, <2>3 DEF CallMoves, keyOf
  <1>5. Distinct'
    <2>1. SUFFICES ASSUME NEW t \in Procs, NEW u \in Procs, t # u, call'[t].pc \in Creating,
                          call'[u].pc \in Creating
                   PROVE  call'[t].key # call'[u].key
      BY DEF Distinct, keyOf
    <2>2. CASE t # s /\ u # s
      BY <2>1, <2>2 DEF CallStep, GrantsInv, Distinct, keyOf
    <2>3. QED
      BY <1>4, <2>1, <2>2
  <1>6. GrantsMatchPolicy'
    <2>. SUFFICES ASSUME NEW k \in keyRow', NEW b \in buckets', <<k, b>> \notin excused'
                  PROVE  /\ held'[k][b] \subseteq Grants(policy'[b], owner'[k])
                         /\ k \in returned' => held'[k][b] = Grants(policy'[b], owner'[k])
      BY DEF GrantsMatchPolicy
    <2>1. k \in Keys /\ owner[k] # None
      BY <1>1, CreatesTyped DEF TableMoves, GrantsInv, KeysAreBound, AccessInv, TypeOK, TablesOK,
                                Creating, At
    <2>2. owner'[k] = owner[k] /\ b \in buckets
      BY <1>1, <2>1 DEF TableMoves
    <2>3. CASE Own(s, k)
      BY <1>1, <2>2, <2>3 DEF TableMoves, OwnMatches
    <2>4. CASE ~Own(s, k)
      <3>1. k \in keyRow /\ (k \in returned' => k \in returned)
        BY <1>1, <2>4 DEF TableMoves, Own, At, Creating
      <3>2. Still(k, b) \/ Renewed(k, b) \/ Later(s, k, b)
        BY <1>1, <2>4 DEF TableMoves, Fair
      <3>3. CASE Still(k, b)
        <4>1. /\ held[k][b] \subseteq Grants(policy[b], owner[k])
              /\ k \in returned => held[k][b] = Grants(policy[b], owner[k])
          BY <2>2, <3>1, <3>3 DEF Still, GrantsInv, GrantsMatchPolicy
        <4>2. QED
          BY <2>2, <3>1, <3>3, <4>1 DEF Still
      <3>4. QED
        BY <2>2, <3>1, <3>2, <3>3 DEF Renewed, Later
    <2>5. QED
      BY <2>3, <2>4
  <1>7. QED
    BY <1>3, <1>5, <1>6

LEMMA GrantStepKeeps ==
    ASSUME AccessInv, WriteInv, GrantsInv, NEW s \in Procs, WriteStep(s), GrantStep(s)
    PROVE  GrantsInv'
  <1>1. CallStep(s) /\ LockStep(s)
    BY DEF WriteStep
  <1>2. Bound(s)' /\ Creates(s)' /\ Fits(s)' /\ Ready(s)' /\ Minds(s)'
    BY DEF GrantStep, Grant
  <1>3. ASSUME NEW t \in Procs, t # s
        PROVE  Bound(t)' /\ Creates(t)' /\ Fits(t)' /\ Ready(t)' /\ Minds(t)'
    BY <1>1, <1>3, OthersCreate, OthersFit, OthersMind
  <1>4. QED
    BY <1>1, <1>2, <1>3, TablesGrant DEF GrantsInv

-----------------------------------------------------------------------------
(***************************************************************************)
(* A step of s and its own part.                                           *)
(***************************************************************************)
Quiet == UNCHANGED <<principal, buckets, policy, keyRow, owner, held, returned, excused>>

LEMMA QuietTables ==
    ASSUME AccessInv, GrantsInv, NEW s \in Procs, Quiet
    PROVE  TableMoves(s)
  <1>1. Fair(s)
    BY DEF Quiet, Fair, Still
  <1>2. OwnMatches(s)
    BY DEF Quiet, OwnMatches, GrantsInv, GrantsMatchPolicy
  <1>3. QED
    BY <1>1, <1>2 DEF Quiet, TableMoves

\* Most labels ask little: a handler goes on with the keys it has, or ends.
Calm(s) ==
    /\ call'[s].pc \notin {"ckAdd", "ckSnap", "ckRows", "ckStore", "ckGet"}
    /\ call'[s].pc \in Minding => call'[s].kind = "removePrincipal"
    /\ call'[s].pc \in Creating =>
          /\ call[s].pc \in Creating /\ SameKey(s)
          /\ call'[s].principal = call[s].principal
          /\ returned' = returned
    /\ call'[s].pc \in Starting => call'[s].snap = NoDocs
    /\ Lists(s)
    /\ call'[s].key = None \/ SameKey(s) \/ call'[s].key \in keyRow

LEMMA CalmGrants ==
    ASSUME AccessInv, GrantsInv, NEW s \in Procs, TableMoves(s), Calm(s)
    PROVE  GrantStep(s)
  <1>1. Bound(s) /\ Creates(s) /\ call[s] \in CallRecords
    BY CallTyped DEF GrantsInv, AccessInv
  <1>2. call'[s].pc \in Creating => call'[s].pc \in Undoing
    BY DEF Calm, Creating
  <1>3. Fits(s)' /\ Ready(s)' /\ Minds(s)'
    BY DEF Calm, Fits, Ready, Minds, At, Strips
  <1>4. ASSUME call'[s].pc \in Creating
        PROVE  owner'[keyOf(s)] = principalOf(s) /\ keyOf(s) \notin returned'
               /\ call'[s].key = call[s].key /\ call'[s].principal = call[s].principal
    BY <1>1, <1>4, CreatesTyped DEF Calm, TableMoves, Creates, SameKey, keyOf
  <1>5. Creates(s)'
    BY <1>4 DEF Calm, Creates, At, keyOf, principalOf
  <1>6. ASSUME NEW k \in Keys, k \in call[s].keys \/ k \in keyRow \/ Holds(k) \/ k = call[s].key
        PROVE  owner'[k] # None
    <2>1. owner[k] # None
      BY <1>1, <1>6, KeysAssumption DEF Bound, GrantsInv, KeysAreBound, None
    <2>2. QED
      BY <2>1 DEF TableMoves
  <1>7. Bound(s)'
    <2>1. keyRow \subseteq Keys /\ call[s].key \in Keys \cup {None} /\ call[s].keys \subseteq Keys
      BY <1>1 DEF CallRecords, AccessInv, TypeOK, TablesOK
    <2>2. ASSUME NEW k \in call'[s].keys PROVE owner'[k] # None
      <3>1. k \in Keys
        BY <1>1, <2>1, <2>2 DEF Calm, Lists, Holds, AccessInv, TypeOK, TablesOK
      <3>2. QED
        BY <1>6, <2>1, <2>2, <3>1 DEF Calm, Lists
    <2>3. call'[s].key # None => owner'[call'[s].key] # None
      BY <1>6, <2>1 DEF Calm, SameKey
    <2>4. QED
      BY <2>2, <2>3 DEF Bound
  <1>8. CallMoves(s)
    BY <1>2 DEF Calm, CallMoves, ReadsInTurn, Unread
  <1>9. QED
    BY <1>3, <1>5, <1>7, <1>8 DEF GrantStep, Grant

\* The labels that ask nothing but known keys.
Easy == Labels \ (Creating \cup Starting \cup Minding)

LEMMA EasyCalm ==
    ASSUME NEW s, call'[s].pc \in Easy, SameKey(s), Lists(s)
    PROVE  Calm(s)
  BY DEF Easy, Calm, Creating

LEMMA WorkCalm ==
    ASSUME NEW s, call'[s].pc \in Easy, SameWork(s)
    PROVE  Calm(s)
  BY EasyCalm DEF SameWork, SameKeys, Lists

LEMMA EndCalm ==
    ASSUME NEW s, NEW res, call'[s] = Idle(res)
    PROVE  Calm(s)
  <1>1. call'[s].pc = "idle" /\ call'[s].keys = {} /\ call'[s].key = None
    BY DEF Idle
  <1>2. QED
    BY <1>1 DEF Calm, Lists, Minding, Creating, Starting, Undoing

LEMMA FailCalm ==
    ASSUME AccessInv, WriteInv, GrantsInv, NEW s \in Procs, NEW err, Fail(s, err), Quiet
    PROVE  GrantStep(s)
  <1>1. \/ call'[s] = Idle(Outcome(s, err))
        \/ /\ call[s].kind = "createKey" /\ call[s].key # None
           /\ call'[s].pc = "rbGrants" /\ SameWork(s)
    BY FailSets DEF AccessInv
  <1>2. CASE /\ call[s].kind = "createKey" /\ call[s].key # None
             /\ call'[s].pc = "rbGrants" /\ SameWork(s)
    <2>1. call[s].pc \in Creating
      BY <1>2 DEF WriteInv, Writes, ByKind
    <2>2. Calm(s)
      BY <1>2, <2>1 DEF Calm, Quiet, Minding, Starting, Lists, SameWork, SameCore, SameKeys
    <2>3. QED
      BY <2>2, QuietTables, CalmGrants
  <1>3. QED
    BY <1>1, <1>2, EndCalm, QuietTables, CalmGrants

\* A handler at its first step, with the key it was asked to delete or none.
LEMMA BeginCalm ==
    ASSUME TypeOK, NEW s \in Procs, NEW c, call' = [call EXCEPT ![s] = c],
           c.pc \in Easy \cup Starting, c.pc \in Starting => c.snap = NoDocs,
           c.key = None \/ c.key \in keyRow, c.keys \subseteq keyRow
    PROVE  Calm(s)
  <1>1. call'[s] = c
    BY SetMoves
  <1>2. QED
    BY <1>1 DEF Calm, Lists, Easy, Starting, Creating, Undoing, Minding

\* The locks on delegations, between labels that ask nothing.
LEMMA AudienceCalm ==
    ASSUME AccessInv, GrantsInv, NEW s \in Procs, NEW here \in Easy, NEW next \in Easy,
           LockAudiences(s, here, next)
    PROVE  GrantStep(s)
  <1>1. SameWork(s) /\ call'[s].pc \in Easy /\ Quiet
    BY AudienceSets DEF tables, Quiet
  <1>2. QED
    BY <1>1, WorkCalm, QuietTables, CalmGrants

-----------------------------------------------------------------------------
(***************************************************************************)
(* The callback of a policy write.                                         *)
(***************************************************************************)
\* The callback goes on, with the same document against the same one.
LEMMA MindingStep ==
    ASSUME AccessInv, GrantsInv, NEW s \in Procs, Quiet, call[s].pc \in PastRow,
           call'[s].pc \in Minding, SameKey(s), Lists(s), Minds(s)'
    PROVE  GrantStep(s)
  <1>1. /\ call'[s].pc \notin Creating \cup Starting
    BY DEF Minding, Creating, Undoing, Starting
  <1>2. Fits(s)' /\ Ready(s)' /\ Creates(s)'
    BY <1>1 DEF Fits, Ready, Creates, At, Creating
  <1>3. call[s] \in CallRecords /\ Bound(s)
    BY CallTyped DEF AccessInv, GrantsInv
  <1>4. Bound(s)'
    <2>1. keyRow \subseteq Keys /\ call[s].keys \subseteq Keys
      BY <1>3 DEF CallRecords, AccessInv, TypeOK, TablesOK
    <2>2. \A k \in call'[s].keys : owner[k] # None
      BY <1>3, <2>1 DEF Lists, Bound, GrantsInv, KeysAreBound
    <2>3. QED
      BY <1>3, <2>2 DEF Bound, Quiet, SameKey
  <1>5. CallMoves(s)
    BY <1>1 DEF CallMoves, ReadsInTurn, Unread
  <1>6. QED
    BY <1>2, <1>4, <1>5, QuietTables DEF GrantStep, Grant

\* Keys that have not read the policy still have not.
LEMMA UnseenStays ==
    ASSUME NEW s \in Procs, Quiet, CallStep(s), call'[s].pc \notin Creating,
           NEW k, NEW b, Unseen(k, b)
    PROVE  /\ k \notin returned' /\ held'[k][b] = {}
           /\ \A t \in Procs : Unread(t, k, b)'
  <1>1. ASSUME NEW t \in Procs PROVE Unread(t, k, b)'
    <2>1. CASE t = s
      BY <2>1 DEF Unread
    <2>2. CASE t # s
      BY <2>2 DEF CallStep, Unseen, Unread, At, keyOf
    <2>3. QED
      BY <2>1, <2>2
  <1>2. QED
    BY <1>1 DEF Unseen, Quiet

\* The callback works out who the change affects.
LEMMA RelistGrants ==
    ASSUME AccessInv, WriteInv, GrantsInv, NEW s \in Procs, Relist(s)
    PROVE  GrantStep(s)
  <1>c. TypeOK /\ call[s] \in CallRecords /\ Writes(s)
    BY CallTyped DEF AccessInv, WriteInv
  <1>. DEFINE aff == Changed(call[s].old, docOf(s), ListIDsByTenant)
              l == IF aff = {} THEN "commit" ELSE "lockP"
  <1>1. Quiet /\ call[s].pc = "relist"
    BY DEF Relist, tables, Quiet, At
  <1>2. \/ Fail(s, "invalid")
        \/ call' = [call EXCEPT ![s].aff = aff, ![s].want = aff, ![s].pc = l]
    BY DEF Relist
  <1>3. CASE call' = [call EXCEPT ![s].aff = aff, ![s].want = aff, ![s].pc = l]
    <2>1. l \in {"commit", "lockP"} /\ (aff # {} => l = "lockP")
      OBVIOUS
    <2>2. ASSUME NEW p \in Principals, principal[p] = "live", ~Spared(s, p)
          PROVE  p \in aff
      <3>1. call[s].old \in Documents /\ docOf(s) \in Documents
        BY <1>c DEF CallRecords, docOf
      <3>2. p \in ListIDsByTenant
        BY <2>2 DEF ListIDsByTenant
      <3>3. Effective(call[s].old, p) # Effective(docOf(s), p)
        BY <2>2 DEF Spared, Grants
      <3>4. QED
        BY <3>1, <3>2, <3>3, ChangedMissesNobody
    <2>. HIDE DEF aff, l
    <2>3. /\ CallStep(s) /\ call'[s].aff = aff /\ call'[s].want = aff /\ call'[s].pc = l
          /\ SameCore(s) /\ SameKey(s) /\ SameOld(s) /\ SameKeys(s)
      BY <1>c, <1>3, SetAff
    <2>4. ~Strips(s) /\ call[s].keys = {}
      BY <1>1, <1>c DEF Writes, ByKind, Rotating, Preparing
    <2>5. \A p \in Principals : Spared(s, p)' <=> Spared(s, p)
      BY <2>3 DEF Spared, SameOld, SameCore, docOf
    <2>6. MindsLive(s)'
      <3>1. ASSUME NEW p \in Principals, principal'[p] = "live"
            PROVE  Spared(s, p)' \/ (p \in call'[s].aff /\ At(s, "lockP")' /\ p \in call'[s].want)
        BY <1>1, <2>1, <2>2, <2>3, <2>5, <3>1 DEF Quiet, At
      <3>2. QED
        BY <3>1 DEF MindsLive, At
    <2>7. MindsRows(s)'
      <3>1. ASSUME NEW k \in keyRow'
            PROVE  \/ Spared(s, owner[k])'
                   \/ (call[s].pc \in {"lockP", "load"} /\ owner[k] \in call[s].aff)'
        <4>1. PICK p \in Principals : p = owner'[k] /\ principal[p] = "live"
          BY <1>1, <3>1 DEF Quiet, AccessInv, RowsHaveOwners, KeysHaveLiveOwners
        <4>2. Spared(s, p)' \/ p \in aff
          BY <2>2, <2>5, <4>1
        <4>3. Spared(s, p)' => Spared(s, owner[k])'
          BY <4>1
        <4>4. QED
          BY <2>1, <2>3, <4>1, <4>2, <4>3
      <3>2. QED
        BY <3>1 DEF MindsRows, Spared
    <2>8. MindsFresh(s)'
      BY <2>3, <2>4 DEF MindsFresh, SameKeys
    <2>9. Minds(s)' /\ Lists(s) /\ call'[s].pc \in Minding
      BY <2>1, <2>3, <2>6, <2>7, <2>8 DEF Minds, Lists, SameKeys, Minding
    <2>10. QED
      BY <1>1, <2>3, <2>9, MindingStep DEF PastRow, Rotating
  <1>4. QED
    BY <1>1, <1>2, <1>3, FailCalm

\* A callback past its list of principals keeps what it minds, unless it says so.
LEMMA MindsOn ==
    ASSUME AccessInv, GrantsInv, NEW s \in Procs, Quiet, CallStep(s),
           call[s].pc \in Minding, ~Strips(s), call'[s].pc \in Minding,
           SameCore(s), SameOld(s), SameAff(s), locks \subseteq locks',
           At(s, "lockP") =>
               \A p \in call[s].want : principal[p] = "live" =>
                   \/ call'[s].pc = "lockP" /\ p \in call'[s].want
                   \/ Has(s, <<"principal", p>>, "NO KEY UPDATE")',
           \/ call[s].pc \in {"lockP", "load"} /\ call'[s].pc \in {"lockP", "load"}
           \/ /\ call[s].pc \notin {"lockP", "load"} /\ call'[s].pc \notin {"lockP", "load"}
              /\ call[s].keys \subseteq call'[s].keys
           \/ /\ call[s].pc \in {"lockP", "load"} /\ call'[s].pc \notin {"lockP", "load"}
              /\ KeysOf(call[s].aff) \subseteq call'[s].keys
    PROVE  MindsLive(s)' /\ MindsRows(s)'
  <1>1. MindsLive(s) /\ MindsRows(s)
    BY DEF GrantsInv, Minds
  <1>2. /\ call'[s].old = call[s].old /\ call'[s].doc = call[s].doc
        /\ call'[s].bucket = call[s].bucket /\ call'[s].aff = call[s].aff
    BY DEF SameCore, SameOld, SameAff
  <1>3. MindsLive(s)'
    <2>1. ASSUME NEW p \in Principals, principal'[p] = "live", docOf(s) # NoPolicy, ~Spared(s, p)
          PROVE  /\ p \in call'[s].aff
                 /\ \/ call'[s].pc = "lockP" /\ p \in call'[s].want
                    \/ Has(s, <<"principal", p>>, "NO KEY UPDATE")'
      <3>1. /\ principal[p] = "live" /\ p \in call[s].aff
            /\ \/ At(s, "lockP") /\ p \in call[s].want
               \/ Has(s, <<"principal", p>>, "NO KEY UPDATE")
        BY <1>1, <2>1 DEF MindsLive, Quiet
      <3>2. QED
        BY <1>2, <3>1 DEF Has
    <2>2. QED
      BY <1>2, <2>1 DEF MindsLive, At, Spared, docOf
  <1>4. call'[s].pc \notin Creating
    BY DEF Minding, Creating, Undoing
  <1>5. MindsRows(s)'
    <2>1. ASSUME NEW k \in keyRow
          PROVE  \/ Spared(s, owner[k])
                 \/ call'[s].pc \in {"lockP", "load"} /\ owner[k] \in call[s].aff
                 \/ call'[s].pc \notin {"lockP", "load"} /\ k \in call'[s].keys
                 \/ docOf(s) = NoPolicy /\ Unseen(k, bucketOf(s))
      BY <1>1 DEF MindsRows, KeysOf
    <2>2. ASSUME NEW k, Unseen(k, bucketOf(s)) PROVE Unseen(k, bucketOf(s))'
      <3>1. PICK b \in {call[s].bucket} : Unseen(k, b)
        BY <2>2 DEF bucketOf
      <3>2. b = call'[s].bucket
        BY <1>2
      <3>3. /\ k \notin returned' /\ held'[k][b] = {}
            /\ \A t \in Procs : Unread(t, k, b)'
        BY <1>4, <3>1, UnseenStays
      <3>4. QED
        BY <3>2, <3>3 DEF Unseen, Unread, bucketOf
    <2>3. QED
      BY <1>2, <2>1, <2>2 DEF MindsRows, Spared, docOf, Quiet
  <1>6. QED
    BY <1>3, <1>5

\* WithLock: the affected principals' rows.
LEMMA LockPrincipalsGrants ==
    ASSUME AccessInv, WriteInv, GrantsInv, NEW s \in Procs, LockPrincipals(s)
    PROVE  GrantStep(s)
  <1>c. TypeOK /\ call[s] \in CallRecords /\ Writes(s) /\ ~Strips(s)
    BY CallTyped DEF AccessInv, WriteInv, LockPrincipals, At, Writes, ByKind, Rotating
  <1>1. Quiet /\ call[s].pc = "lockP"
    BY DEF LockPrincipals, tables, Quiet, At
  <1>2. PICK p \in Principals :
          /\ IF principal[p] = "live"
             THEN Take(s, <<"principal", p>>, "NO KEY UPDATE")
             ELSE UNCHANGED locks
          /\ call' = Looped(s, p, "lockP", "load")
    BY DEF LockPrincipals
  <1>3. /\ locks \subseteq locks'
        /\ principal[p] = "live" => Has(s, <<"principal", p>>, "NO KEY UPDATE")'
    BY <1>2, TakeLocks DEF Has
  <1>4. /\ CallStep(s) /\ SameWork(s) /\ call'[s].want = call[s].want \ {p}
        /\ call'[s].pc = IF call[s].want = {p} THEN "load" ELSE "lockP"
    <2>1. call' = Looped(s, p, "lockP", "load")
      BY <1>2
    <2>2. QED
      BY <1>c, <2>1, LoopedSets
  <1>5. MindsLive(s)' /\ MindsRows(s)'
    BY <1>c, <1>1, <1>3, <1>4, MindsOn DEF SameWork, Minding
  <1>6. Minds(s)' /\ call'[s].pc \in Minding /\ SameKey(s) /\ Lists(s)
    BY <1>4, <1>5 DEF Minds, MindsFresh, At, Minding, SameWork, SameKeys, Lists
  <1>7. QED
    BY <1>1, <1>6, MindingStep DEF PastRow, Rotating

\* Rotator.load.
LEMMA LoadGrants ==
    ASSUME AccessInv, WriteInv, GrantsInv, NEW s \in Procs, Load(s)
    PROVE  GrantStep(s)
  <1>c. TypeOK /\ call[s] \in CallRecords /\ Writes(s) /\ ~Strips(s)
    BY CallTyped DEF AccessInv, WriteInv, Load, At, Writes, ByKind, Rotating
  <1>. DEFINE ks == KeysOf(call[s].aff)
              l == IF ks = {} THEN "commit" ELSE "lockK"
  <1>1. /\ Quiet /\ call[s].pc = "load" /\ UNCHANGED locks
        /\ call' = [call EXCEPT ![s].keys = ks, ![s].want = ks, ![s].pc = l]
    BY DEF Load, tables, Quiet, At
  <1>2. l \in {"commit", "lockK"} /\ (l = "commit" => ks = {}) /\ ks \subseteq keyRow
    BY DEF KeysOf
  <1>3. ks = KeysOf(call[s].aff)
    OBVIOUS
  <1>. HIDE DEF ks, l
  <1>4. /\ CallStep(s) /\ call'[s].keys = ks /\ call'[s].pc = l
        /\ SameCore(s) /\ SameKey(s) /\ SameOld(s) /\ SameAff(s)
    BY <1>c, <1>1, SetKeys, ZenonT(60)
  <1>5. MindsLive(s)' /\ MindsRows(s)'
    BY <1>c, <1>1, <1>2, <1>3, <1>4, MindsOn DEF Minding, At
  <1>6. Minds(s)' /\ call'[s].pc \in Minding /\ Lists(s)
    BY <1>2, <1>4, <1>5 DEF Minds, MindsFresh, At, Minding, Lists
  <1>7. QED
    BY <1>1, <1>4, <1>6, MindingStep DEF PastRow, Rotating

\* Rotator.lock.
LEMMA LockRotatedGrants ==
    ASSUME AccessInv, WriteInv, GrantsInv, NEW s \in Procs, LockRotated(s)
    PROVE  GrantStep(s)
  <1>c. ~Strips(s) /\ call[s].pc = "lockK"
    BY DEF WriteInv, LockRotated, LockAudiences, At, Writes, ByKind, Rotating
  <1>1. /\ Quiet /\ CallStep(s) /\ locks \subseteq locks' /\ SameWork(s)
        /\ call'[s].pc \in {"lockK", "publish"}
    BY AudienceSets DEF LockRotated, tables, Quiet
  <1>2. MindsLive(s)' /\ MindsRows(s)'
    BY <1>c, <1>1, MindsOn DEF Minding, At, SameWork, SameKeys
  <1>3. Minds(s)' /\ call'[s].pc \in Minding /\ Lists(s) /\ SameKey(s)
    BY <1>1, <1>2 DEF Minds, MindsFresh, At, Minding, Lists, SameWork, SameKeys
  <1>4. QED
    BY <1>c, <1>1, <1>3, MindingStep DEF PastRow, Rotating

\* The rotation of the keys that still have a row.
LEMMA RotateGrants ==
    ASSUME AccessInv, WriteInv, GrantsInv, NEW s \in Procs, Rotate(s)
    PROVE  GrantStep(s)
  <1>c. TypeOK /\ ~Strips(s) /\ call[s].pc = "publish"
    BY DEF AccessInv, WriteInv, Rotate, At, Writes, ByKind, Rotating
  <1>. DEFINE ks == call[s].keys \cap keyRow
  <1>1. Quiet
    BY DEF Rotate, Quiet
  <1>2. \/ call' = [call EXCEPT ![s].fresh = ks, ![s].pc = "commit"] /\ UNCHANGED locks
        \/ Fail(s, "error")
    BY DEF Rotate, PublishRevocations
  <1>3. ks = call[s].keys \cap keyRow
    OBVIOUS
  <1>. HIDE DEF ks
  <1>4. CASE call' = [call EXCEPT ![s].fresh = ks, ![s].pc = "commit"] /\ UNCHANGED locks
    <2>1. /\ CallStep(s) /\ call'[s].fresh = ks /\ call'[s].pc = "commit"
          /\ SameCore(s) /\ SameKey(s) /\ SameOld(s) /\ SameAff(s) /\ SameKeys(s)
      BY <1>c, <1>4, SetFresh
    <2>2. MindsLive(s)' /\ MindsRows(s)'
      BY <1>c, <1>1, <1>4, <2>1, MindsOn DEF Minding, At, SameKeys
    <2>3. MindsFresh(s)'
      BY <1>1, <1>3, <2>1 DEF MindsFresh, SameKeys, Quiet
    <2>4. Minds(s)' /\ call'[s].pc \in Minding /\ Lists(s)
      BY <2>1, <2>2, <2>3 DEF Minds, Minding, Lists, SameKeys
    <2>5. QED
      BY <1>c, <1>1, <2>1, <2>4, MindingStep DEF PastRow, Rotating
  <1>5. QED
    BY <1>1, <1>2, <1>4, FailCalm

-----------------------------------------------------------------------------
(***************************************************************************)
(* The commit of a policy write.                                           *)
(***************************************************************************)
\* A strip takes nothing from anybody but the principal it strips.
LEMMA StripSpares ==
    ASSUME AccessInv, WriteInv, NEW s \in Procs, At(s, "commit"), Strips(s),
           NEW q, q # principalOf(s)
    PROVE  Grants(docOf(s), q) = Grants(policy[bucketOf(s)], q)
  <1>. DEFINE listed == call[s].snap[bucketOf(s)]
  <1>1. /\ call[s].old = policy[bucketOf(s)]
        /\ CheckPrecondition(call[s].old, call[s].match)
        /\ call[s].match = IfMatch(ETag(listed))
        /\ docOf(s) = RemovePrincipal(listed, principalOf(s))
    BY DEF WriteInv, Writes, HoldsPolicy, StripsListed, PastRow, At
  <1>2. call[s].old \in Documents
    BY CallTyped DEF AccessInv, CallRecords
  <1>. HIDE DEF listed
  <1>3. call[s].old = listed
    BY <1>1 DEF CheckPrecondition, IfMatch, ETag
  <1>4. QED
    BY <1>1, <1>2, <1>3, RemoveLeavesOthers DEF Grants

LEMMA CommitTables ==
    ASSUME AccessInv, WriteInv, GrantsInv, NEW s \in Procs, Commit(s)
    PROVE  TableMoves(s)
  <1>. DEFINE B == bucketOf(s)
  <1>c. /\ TypeOK /\ call[s] \in CallRecords /\ Writes(s) /\ At(s, "commit") /\ B \in Buckets
        /\ call[s].pc \notin Creating
    BY CallTyped DEF AccessInv, WriteInv, Commit, At, Aimed, OfBucket, bucketOf, Creating, Undoing
  <1>1. /\ \A b \in Buckets : policy'[b] = IF b = B THEN docOf(s) ELSE policy[b]
        /\ \A k \in Keys, b \in Buckets :
              held'[k][b] = IF k \in call[s].keys /\ b = B THEN Rotated(s, k) ELSE held[k][b]
        /\ UNCHANGED <<principal, buckets, keyRow, owner, returned>>
    BY <1>c DEF Commit, TypeOK, TablesOK
  <1>2. ASSUME NEW k \in Keys, NEW b \in Buckets
        PROVE  /\ <<k, b>> \in excused /\ (k \notin call[s].keys \/ b # B) => <<k, b>> \in excused'
               /\ k \in LetGo(s) /\ b = B => <<k, b>> \in excused'
    BY DEF Commit
  <1>3. Has(s, <<"bucket", B>>, "exclusive") /\ call[s].old = policy[B]
    BY <1>c DEF Writes, HoldsBucket, HoldsPolicy, OnBucket, PastRow, At
  <1>. HIDE DEF B
  <1>4. ASSUME NEW k \in keyRow, NEW b \in buckets
        PROVE  Still(k, b) \/ <<k, b>> \in excused' \/ Renewed(k, b) \/ Later(s, k, b)
    <2>1. k \in Keys /\ b \in Buckets
      BY <1>c DEF TypeOK, TablesOK
    <2>2. CASE b # B
      BY <1>1, <1>2, <2>1, <2>2 DEF Still
    <2>3. CASE b = B /\ Strips(s)
      <3>1. call[s].keys = {}
        BY <1>c, <2>3 DEF Writes, ByKind, At
      <3>2. CASE owner[k] = principalOf(s)
        BY <1>2, <2>1, <2>3, <3>2 DEF LetGo, Strips, principalOf
      <3>3. CASE owner[k] # principalOf(s)
        <4>1. Grants(docOf(s), owner[k]) = Grants(policy[B], owner[k])
          BY <1>c, <2>3, <3>3, StripSpares DEF B
        <4>2. QED
          BY <1>1, <1>2, <2>1, <2>3, <3>1, <4>1 DEF Still
      <3>4. QED
        BY <3>2, <3>3
    <2>4. CASE b = B /\ ~Strips(s)
      <3>1. MindsRows(s) /\ MindsFresh(s)
        BY <1>c, <2>4 DEF GrantsInv, Minds, Minding, At
      <3>2. CASE k \in call[s].keys
        <4>1. held'[k][b] = Grants(docOf(s), owner[k]) /\ Rotated(s, k) = Grants(docOf(s), owner[k])
          BY <1>c, <1>1, <2>1, <2>4, <3>1, <3>2 DEF MindsFresh, Rotated
        <4>2. CASE held'[k][b] = {} /\ k \notin returned
          <5>1. k \in LetGo(s)
            BY <2>4, <3>2, <4>1, <4>2 DEF LetGo, Strips
          <5>2. QED
            BY <1>2, <2>1, <2>4, <5>1
        <4>3. QED
          BY <1>1, <2>1, <2>4, <4>1, <4>2 DEF Renewed
      <3>3. CASE k \notin call[s].keys /\ Spared(s, owner[k])
        BY <1>1, <1>2, <1>3, <2>1, <2>4, <3>3 DEF Still, Spared
      <3>4. CASE k \notin call[s].keys /\ Unseen(k, B)
        BY <1>1, <2>1, <2>4, <3>4 DEF Later, Unseen
      <3>5. QED
        BY <1>c, <3>1, <3>2, <3>3, <3>4 DEF MindsRows, At, B
    <2>5. QED
      BY <2>2, <2>3, <2>4
  <1>5. Fair(s) /\ OwnMatches(s)
    BY <1>c, <1>1, <1>4 DEF Fair, OwnMatches, Own
  <1>6. ASSUME NEW k \in Keys, NEW b \in Buckets, held[k][b] = {}
        PROVE  held'[k][b] = {} \/ (k \in call[s].keys /\ Has(s, <<"bucket", b>>, "exclusive"))
    BY <1>1, <1>3, <1>6
  <1>7. QED
    BY <1>1, <1>5, <1>6 DEF TableMoves

LEMMA PolicyGrants ==
    ASSUME AccessInv, WriteInv, GrantsInv, NEW s \in Procs, PolicyStep(s)
    PROVE  GrantStep(s)
  <1>. USE DEF At, Easy, Labels, Starting, Undoing, Creating, Minding
  <1>c. TypeOK /\ call[s] \in CallRecords /\ Writes(s)
    BY CallTyped DEF AccessInv, WriteInv
  <1>q. ASSUME Quiet, Calm(s) PROVE GrantStep(s)
    BY <1>q, QuietTables, CalmGrants
  <1>1. CASE BeginWrite(s)
    <2>1. PICK b \in buckets, d \in Docs, m \in Conds :
            \/ call' = [call EXCEPT ![s] = [Idle("answered") EXCEPT
                            !.pc = "tenant", !.kind = "writePolicy",
                            !.bucket = b, !.doc = d, !.match = m]]
            \/ Finish(s, "answered")
      BY <1>1 DEF BeginWrite
    <2>. DEFINE c == [Idle("answered") EXCEPT !.pc = "tenant", !.kind = "writePolicy",
                        !.bucket = b, !.doc = d, !.match = m]
    <2>2. c.pc = "tenant" /\ c.keys = {} /\ c.key = None
      BY DEF Idle
    <2>3. call' = [call EXCEPT ![s] = c] \/ Finish(s, "answered")
      BY <2>1
    <2>. HIDE DEF c
    <2>4. Calm(s)
      BY <1>c, <2>2, <2>3, BeginCalm, FinishSets, EndCalm
    <2>5. QED
      BY <1>1, <1>q, <2>4 DEF BeginWrite, tables, Quiet
  <1>2. CASE BeginRemove(s)
    <2>1. PICK b \in buckets, m \in Conds :
            call' = [call EXCEPT ![s] = [Idle("answered") EXCEPT
                       !.pc = "bucket", !.kind = "removePolicy",
                       !.bucket = b, !.doc = NoPolicy, !.match = m]]
      BY <1>2 DEF BeginRemove
    <2>. DEFINE c == [Idle("answered") EXCEPT !.pc = "bucket", !.kind = "removePolicy",
                        !.bucket = b, !.doc = NoPolicy, !.match = m]
    <2>2. c.pc = "bucket" /\ c.keys = {} /\ c.key = None
      BY DEF Idle
    <2>3. call' = [call EXCEPT ![s] = c]
      BY <2>1
    <2>. HIDE DEF c
    <2>4. Calm(s)
      BY <1>c, <2>2, <2>3, BeginCalm
    <2>5. QED
      BY <1>2, <1>q, <2>4 DEF BeginRemove, tables, Quiet
  <1>3. CASE TakeTenant(s)
    <2>. DEFINE W == Named(docOf(s))
                l == IF W = {} THEN "bucket" ELSE "named"
    <2>1. call' = [call EXCEPT ![s].want = W, ![s].pc = l]
      BY <1>3 DEF TakeTenant
    <2>2. l \in {"bucket", "named"}
      OBVIOUS
    <2>. HIDE DEF W, l
    <2>3. SameWork(s) /\ call'[s].pc \in Easy
      BY <1>c, <2>1, <2>2, SetWant
    <2>4. QED
      BY <1>3, <1>q, <2>3, WorkCalm DEF TakeTenant, tables, Quiet
  <1>4. CASE RequireLive(s)
    <2>1. PICK p \in call[s].want :
            \/ Fail(s, "invalid")
            \/ call' = Looped(s, p, "named", "bucket")
      BY <1>4 DEF RequireLive
    <2>2. Quiet
      BY <1>4 DEF RequireLive, tables, Quiet
    <2>3. CASE call' = Looped(s, p, "named", "bucket")
      <3>1. SameWork(s) /\ call'[s].pc \in {"named", "bucket"}
        BY <1>c, <2>3, LoopedSets
      <3>2. QED
        BY <1>q, <2>2, <3>1, WorkCalm
    <2>4. QED
      BY <2>1, <2>2, <2>3, FailCalm
  <1>5. CASE TakeBucket(s)
    <2>1. SameWork(s) /\ call'[s].pc \in {"row", "bucketRow"}
      BY <1>5, <1>c, GotoSets DEF TakeBucket
    <2>2. QED
      BY <1>5, <1>q, <2>1, WorkCalm DEF TakeBucket, tables, Quiet
  <1>6. CASE TakeBucketRow(s)
    <2>1. Quiet /\ (Fail(s, "notfound") \/ Goto(s, "row"))
      BY <1>6 DEF TakeBucketRow, tables, Quiet
    <2>2. CASE Goto(s, "row")
      <3>1. SameWork(s) /\ call'[s].pc = "row"
        BY <2>2, <1>c, GotoSets
      <3>2. QED
        BY <1>q, <2>1, <3>1, WorkCalm
    <2>3. QED
      BY <2>1, <2>2, FailCalm
  <1>7. CASE LockRow(s)
    <2>. DEFINE old == policy[bucketOf(s)]
                l == IF call[s].kind = "removePrincipal" THEN "commit" ELSE "relist"
                err == Refusal(s, old)
    <2>1. Quiet
      BY <1>7 DEF LockRow, tables, Quiet
    <2>2. \/ Goto(s, "strip")
          \/ Fail(s, err)
          \/ call' = [call EXCEPT ![s].old = old, ![s].pc = l]
      BY <1>7 DEF LockRow
    <2>3. CASE Goto(s, "strip")
      <3>1. SameWork(s) /\ call'[s].pc = "strip"
        BY <2>3, <1>c, GotoSets
      <3>2. QED
        BY <1>q, <2>1, <3>1, WorkCalm
    <2>4. CASE call' = [call EXCEPT ![s].old = old, ![s].pc = l]
      <3>1. l \in {"commit", "relist"} /\ (l = "commit" => call[s].kind = "removePrincipal")
        OBVIOUS
      <3>. HIDE DEF old, l
      <3>2. SameCore(s) /\ SameKey(s) /\ SameKeys(s) /\ call'[s].pc = l
        BY <1>c, <2>4, SetOld
      <3>3. Calm(s)
        BY <3>1, <3>2 DEF Calm, Lists, SameCore, SameKeys
      <3>4. QED
        BY <1>q, <2>1, <3>3
    <2>5. QED
      BY <2>1, <2>2, <2>3, <2>4, FailCalm
  <1>8. CASE Commit(s)
    <2>1. CASE Strips(s) /\ Goto(s, "strip")
      <3>1. SameWork(s) /\ call'[s].pc = "strip"
        BY <1>c, <2>1, GotoSets
      <3>2. QED
        BY <1>8, <3>1, WorkCalm, CommitTables, CalmGrants
    <2>2. CASE Finish(s, "answered")
      BY <1>8, <1>c, <2>2, FinishSets, EndCalm, CommitTables, CalmGrants
    <2>3. QED
      BY <1>8, <2>1, <2>2 DEF Commit, Strips
  <1>9. QED
    BY <1>1, <1>2, <1>3, <1>4, <1>5, <1>6, <1>7, <1>8, RelistGrants, LockPrincipalsGrants,
       LoadGrants, LockRotatedGrants, RotateGrants
       DEF PolicyStep

-----------------------------------------------------------------------------
(***************************************************************************)
(* The principal service.                                                  *)
(***************************************************************************)
\* A step that clears the delegations of some keys, deletes rows, or both, and moves
\* nothing else.
LEMMA ClearTables ==
    ASSUME AccessInv, GrantsInv, NEW s \in Procs, NEW ks,
           \A k \in Keys : held'[k] = IF k \in ks THEN [b \in Buckets |-> {}] ELSE held[k],
           \A k \in keyRow', b \in Buckets :
              /\ k \notin ks => (<<k, b>> \in excused => <<k, b>> \in excused')
              /\ k \in ks => <<k, b>> \in excused' \/ Own(s, k),
           \A p \in Principals : principal'[p] = "live" => principal[p] = "live",
           keyRow' \subseteq keyRow, UNCHANGED <<buckets, policy, owner, returned>>
    PROVE  TableMoves(s)
  <1>1. keyRow \subseteq Keys /\ buckets \subseteq Buckets
    BY DEF AccessInv, TypeOK, TablesOK
  <1>2. Fair(s)
    BY <1>1 DEF Fair, Still
  <1>3. OwnMatches(s)
    <2>1. SUFFICES ASSUME NEW k \in keyRow', NEW b \in buckets', Own(s, k), <<k, b>> \notin excused'
                   PROVE  /\ held'[k][b] \subseteq Grants(policy'[b], owner[k])
                          /\ k \in returned' => held'[k][b] = Grants(policy'[b], owner[k])
      BY DEF OwnMatches
    <2>2. k \notin returned
      BY <2>1, CreatesTyped DEF Own
    <2>3. CASE k \in ks
      BY <1>1, <2>1, <2>2, <2>3
    <2>4. CASE k \notin ks
      BY <1>1, <2>1, <2>2, <2>4 DEF GrantsInv, GrantsMatchPolicy
    <2>5. QED
      BY <2>3, <2>4
  <1>4. QED
    BY <1>1, <1>2, <1>3 DEF TableMoves

LEMMA PrincipalGrants ==
    ASSUME AccessInv, WriteInv, GrantsInv, NEW s \in Procs, PrincipalStep(s)
    PROVE  GrantStep(s)
  <1>. USE DEF At, Easy, Labels, Starting, Undoing, Creating, Minding
  <1>c. TypeOK /\ call[s] \in CallRecords /\ Writes(s) /\ keyRow \subseteq Keys
    BY CallTyped DEF AccessInv, WriteInv, TypeOK, TablesOK
  <1>q. ASSUME Quiet, Calm(s) PROVE GrantStep(s)
    BY <1>q, QuietTables, CalmGrants
  <1>g. ASSUME NEW l, Goto(s, l), l \in Easy PROVE Calm(s)
    BY <1>c, <1>g, GotoSets, WorkCalm
  <1>f. ASSUME NEW res, Finish(s, res) PROVE Calm(s)
    BY <1>c, <1>f, FinishSets, EndCalm
  <1>1. CASE BeginCreatePrincipal(s)
    <2>1. PICK p \in Principals :
            call' = [call EXCEPT ![s] = [Idle("answered") EXCEPT !.pc = "addTenant",
                        !.kind = "createPrincipal", !.principal = p]]
      BY <1>1 DEF BeginCreatePrincipal
    <2>. DEFINE c == [Idle("answered") EXCEPT !.pc = "addTenant",
                        !.kind = "createPrincipal", !.principal = p]
    <2>2. c.pc = "addTenant" /\ c.keys = {} /\ c.key = None
      BY DEF Idle
    <2>3. call' = [call EXCEPT ![s] = c]
      BY <2>1
    <2>. HIDE DEF c
    <2>4. Calm(s)
      BY <1>c, <2>2, <2>3, BeginCalm
    <2>5. QED
      BY <1>1, <1>q, <2>4 DEF BeginCreatePrincipal, tables, Quiet
  <1>2. CASE AddTenant(s)
    <2>1. Goto(s, "addRow") /\ Quiet
      BY <1>2 DEF AddTenant, tables, Quiet
    <2>2. QED
      BY <1>g, <1>q, <2>1
  <1>3. CASE AddRow(s)
    <2>1. /\ Goto(s, "addGet") /\ UNCHANGED <<buckets, policy, keyRow, owner, held, returned, excused>>
          /\ Has(s, <<"tenant", None>>, "exclusive")
      BY <1>3, <1>c DEF AddRow, Writes, HoldsTenant
    <2>2. Fair(s) /\ OwnMatches(s)
      BY <2>1 DEF Fair, Still, OwnMatches, GrantsInv, GrantsMatchPolicy
    <2>3. TableMoves(s)
      BY <2>1, <2>2 DEF TableMoves
    <2>4. QED
      BY <1>g, <2>1, <2>3, CalmGrants
  <1>4. CASE AddGet(s)
    <2>1. Finish(s, "answered") /\ Quiet
      BY <1>4 DEF AddGet, tables, Quiet
    <2>2. QED
      BY <1>f, <1>q, <2>1
  <1>5. CASE BeginDeletePrincipal(s)
    <2>1. PICK p \in Principals :
            call' = [call EXCEPT ![s] = [Idle("answered") EXCEPT !.pc = "rvLoad",
                        !.kind = "removePrincipal", !.principal = p]]
      BY <1>5 DEF BeginDeletePrincipal
    <2>. DEFINE c == [Idle("answered") EXCEPT !.pc = "rvLoad",
                        !.kind = "removePrincipal", !.principal = p]
    <2>2. c.pc = "rvLoad" /\ c.keys = {} /\ c.key = None
      BY DEF Idle
    <2>3. call' = [call EXCEPT ![s] = c]
      BY <2>1
    <2>. HIDE DEF c
    <2>4. Calm(s)
      BY <1>c, <2>2, <2>3, BeginCalm
    <2>5. QED
      BY <1>5, <1>q, <2>4 DEF BeginDeletePrincipal, tables, Quiet
  <1>6. ASSUME NEW l, l \in Easy,
               call' = [call EXCEPT ![s].keys = KeysOf({principalOf(s)}),
                                    ![s].want = KeysOf({principalOf(s)}), ![s].pc = l]
        PROVE  Calm(s)
    <2>. DEFINE ks == KeysOf({principalOf(s)})
    <2>1. ks \subseteq keyRow /\ call' = [call EXCEPT ![s].keys = ks, ![s].want = ks, ![s].pc = l]
      BY <1>6 DEF KeysOf
    <2>. HIDE DEF ks
    <2>2. SameKey(s) /\ call'[s].keys = ks /\ call'[s].pc = l
      BY <1>c, <2>1, SetKeys
    <2>3. QED
      BY <1>6, <2>1, <2>2, EasyCalm DEF Lists
  <1>7. CASE RevokeLoad(s)
    <2>. DEFINE l == IF KeysOf({principalOf(s)}) = {} THEN "stripList" ELSE "rvLock"
    <2>1. /\ call' = [call EXCEPT ![s].keys = KeysOf({principalOf(s)}),
                                  ![s].want = KeysOf({principalOf(s)}), ![s].pc = l]
          /\ Quiet
      BY <1>7 DEF RevokeLoad, tables, Quiet
    <2>2. l \in {"stripList", "rvLock"}
      OBVIOUS
    <2>. HIDE DEF l
    <2>3. QED
      BY <1>6, <1>q, <2>1, <2>2
  <1>8. CASE RevokeLock(s)
    BY <1>8, AudienceCalm DEF RevokeLock
  <1>9. CASE RevokePublish(s)
    <2>1. Quiet /\ (Goto(s, "rvCommit") \/ Fail(s, "error"))
      BY <1>9 DEF RevokePublish, PublishRevocations, Quiet
    <2>2. QED
      BY <1>g, <1>q, <2>1, FailCalm
  <1>10. CASE RevokeCommit(s)
    <2>1. call' = [call EXCEPT ![s].keys = {}, ![s].pc = "stripList"]
      BY <1>10 DEF RevokeCommit
    <2>2. SameKey(s) /\ call'[s].keys = {} /\ call'[s].pc = "stripList"
      BY <1>c, <2>1, SetKeysOnly
    <2>3. Calm(s)
      BY <2>2, EasyCalm DEF Lists
    <2>4. TableMoves(s)
      <3>. DEFINE ks == call[s].keys
      <3>1. /\ \A k \in Keys : held'[k] = IF k \in ks THEN [b \in Buckets |-> {}] ELSE held[k]
            /\ excused' = excused \cup (ks \X Buckets)
            /\ UNCHANGED <<principal, buckets, policy, keyRow, owner, returned>>
        BY <1>10 DEF RevokeCommit
      <3>. HIDE DEF ks
      <3>2. \A k \in keyRow', b \in Buckets :
              /\ k \notin ks => (<<k, b>> \in excused => <<k, b>> \in excused')
              /\ k \in ks => <<k, b>> \in excused' \/ Own(s, k)
        BY <3>1
      <3>3. QED
        BY <3>1, <3>2, ClearTables
    <2>5. QED
      BY <2>3, <2>4, CalmGrants
  <1>11. CASE StripList(s)
    <2>. DEFINE bs == ListByPrincipal(principalOf(s))
    <2>1. call' = [call EXCEPT ![s].todo = bs, ![s].snap = policy, ![s].pc = "strip"] /\ Quiet
      BY <1>11 DEF StripList, tables, Quiet
    <2>. HIDE DEF bs
    <2>2. SameKey(s) /\ SameKeys(s) /\ call'[s].pc = "strip"
      BY <1>c, <2>1, SetListed
    <2>3. QED
      BY <1>q, <2>1, <2>2, EasyCalm DEF Lists, SameKeys
  <1>12. CASE StripPolicy(s)
    <2>1. PICK b \in call[s].todo :
            LET old == call[s].snap[b]
                new == RemovePrincipal(old, principalOf(s))
            IN  call' = [call EXCEPT ![s].todo = @ \ {b}, ![s].bucket = b, ![s].doc = new,
                                     ![s].match = IfMatch(ETag(old)),
                                     ![s].pc = StripWrite(s, old, new)]
      BY <1>12 DEF StripPolicy
    <2>. DEFINE old == call[s].snap[b]
                new == RemovePrincipal(old, principalOf(s))
                l == StripWrite(s, old, new)
                m == IfMatch(ETag(old))
                t == call[s].todo \ {b}
    <2>. DEFINE c == [call[s] EXCEPT !.todo = t, !.bucket = b, !.doc = new, !.match = m, !.pc = l]
    <2>2. call' = [call EXCEPT ![s] = c]
      BY <2>1
    <2>3. l \in {"strip", "tenant", "bucket"}
      BY DEF StripWrite
    <2>. HIDE DEF t, l, new, m, old
    <2>4. c.pc = l /\ c.keys = call[s].keys /\ c.key = call[s].key
      BY <1>c DEF CallRecords
    <2>. HIDE DEF c
    <2>5. call'[s].pc = l /\ SameKey(s) /\ SameKeys(s)
      BY <1>c, <2>2, <2>4, SetMoves DEF SameKey, SameKeys
    <2>6. QED
      BY <1>12, <1>q, <2>3, <2>5, EasyCalm DEF Lists, SameKeys, StripPolicy, tables, Quiet
  <1>13. CASE StripDone(s)
    <2>1. Goto(s, "tomb") /\ Quiet
      BY <1>13 DEF StripDone, tables, Quiet
    <2>2. QED
      BY <1>g, <1>q, <2>1
  <1>14. CASE Tombstone(s)
    <2>1. Quiet /\ (Finish(s, "answered") \/ Goto(s, "tombCheck"))
      BY <1>14 DEF Tombstone, tables, Quiet
    <2>2. QED
      BY <1>f, <1>g, <1>q, <2>1
  <1>15. CASE NamedAgain(s)
    <2>1. Quiet /\ (Fail(s, "concurrent") \/ Goto(s, "tombKeys"))
      BY <1>15 DEF NamedAgain, tables, Quiet
    <2>2. QED
      BY <1>g, <1>q, <2>1, FailCalm
  <1>16. CASE RemoveLoad(s)
    <2>. DEFINE l == IF KeysOf({principalOf(s)}) = {} THEN "tombCommit" ELSE "tombLock"
    <2>1. /\ call' = [call EXCEPT ![s].keys = KeysOf({principalOf(s)}),
                                  ![s].want = KeysOf({principalOf(s)}), ![s].pc = l]
          /\ Quiet
      BY <1>16 DEF RemoveLoad, tables, Quiet
    <2>2. l \in {"tombCommit", "tombLock"}
      OBVIOUS
    <2>. HIDE DEF l
    <2>3. QED
      BY <1>6, <1>q, <2>1, <2>2
  <1>17. CASE RemoveLock(s)
    BY <1>17, AudienceCalm DEF RemoveLock
  <1>18. CASE RemovePublish(s)
    <2>1. Quiet /\ (Goto(s, "tombSecrets") \/ Fail(s, "error"))
      BY <1>18 DEF RemovePublish, PublishRevocations, Quiet
    <2>2. QED
      BY <1>g, <1>q, <2>1, FailCalm
  <1>19. CASE RemoveSecrets(s)
    <2>1. Goto(s, "tombCommit") /\ Quiet
      BY <1>19 DEF RemoveSecrets, Quiet
    <2>2. QED
      BY <1>g, <1>q, <2>1
  <1>20. CASE TombstoneCommit(s)
    <2>. DEFINE ks == call[s].keys
    <2>1. /\ \A k \in Keys : held'[k] = IF k \in ks THEN [b \in Buckets |-> {}] ELSE held[k]
          /\ excused' = excused \ (ks \X Buckets) /\ keyRow' = keyRow \ ks
          /\ UNCHANGED <<buckets, policy, owner, returned>> /\ Finish(s, "answered")
          /\ \A p \in Principals : principal'[p] = "live" => principal[p] = "live"
      BY <1>20, <1>c DEF TombstoneCommit, ClearGrants, TypeOK, TablesOK
    <2>. HIDE DEF ks
    <2>2. \A k \in keyRow', b \in Buckets :
            /\ k \notin ks => (<<k, b>> \in excused => <<k, b>> \in excused')
            /\ k \in ks => <<k, b>> \in excused' \/ Own(s, k)
      BY <2>1
    <2>3. TableMoves(s)
      BY <2>1, <2>2, ClearTables
    <2>4. QED
      BY <1>f, <2>1, <2>3, CalmGrants
  <1>21. QED
    BY <1>1, <1>2, <1>3, <1>4, <1>5, <1>7, <1>8, <1>9, <1>10, <1>11, <1>12,
       <1>13, <1>14, <1>15, <1>16, <1>17, <1>18, <1>19, <1>20
       DEF PrincipalStep

-----------------------------------------------------------------------------
(***************************************************************************)
(* The access-key service.                                                 *)
(***************************************************************************)
\* What is not listed for a principal gives it nothing.
LEMMA UnlistedGrants ==
    ASSUME NEW d \in Documents, NEW p
    PROVE  /\ ~Listed(d, p) => Grants(d, p) = {}
           /\ Grants(NoPolicy, p) = {}
  <1>1. NoPolicy \in Documents /\ ~Listed(NoPolicy, p)
    BY DEF NoPolicy, Documents, Listed, Named, NamesWildcard
  <1>2. ASSUME NEW e \in Documents, ~Listed(e, p) PROVE Grants(e, p) = {}
    BY <1>2, UnlistedHasNothing DEF Grants, CommandsFor
  <1>3. QED
    BY <1>1, <1>2

\* A creation goes on with its key.
LEMMA CreationStep ==
    ASSUME AccessInv, GrantsInv, NEW s \in Procs, call[s].pc \in Creating,
           call'[s].pc \in {"ckSnap", "ckRows", "ckStore", "ckGet"},
           call'[s].pc = "ckSnap" => At(s, "ckAdd") /\ SameSnap(s),
           SameCore(s), SameKey(s), SameKeys(s), returned' = returned,
           TableMoves(s), ReadsInTurn(s), Fits(s)', Ready(s)'
    PROVE  GrantStep(s)
  <1>1. Bound(s) /\ Creates(s) /\ call[s] \in CallRecords
    BY CallTyped DEF GrantsInv, AccessInv
  <1>2. /\ call'[s].key = call[s].key /\ call'[s].keys = call[s].keys
        /\ call'[s].principal = call[s].principal
    BY DEF SameKey, SameKeys, SameCore
  <1>3. Minds(s)'
    BY DEF Minds, Minding
  <1>4. Bound(s)'
    BY <1>1, <1>2 DEF Bound, TableMoves, CallRecords
  <1>5. owner'[keyOf(s)] = principalOf(s) /\ keyOf(s) \notin returned'
    BY <1>1, CreatesTyped DEF Creates, TableMoves
  <1>6. call'[s].pc = "ckSnap" => call'[s].snap = NoDocs
    BY <1>1 DEF Creates, SameSnap, At
  <1>7. Creates(s)'
    BY <1>2, <1>5, <1>6 DEF Creates, At, keyOf, principalOf, Starting
  <1>8. CallMoves(s)
    BY <1>2 DEF CallMoves, Lists
  <1>9. QED
    BY <1>3, <1>4, <1>7, <1>8 DEF GrantStep, Grant

\* The key is generated and bound.
LEMMA WriteSecretGrants ==
    ASSUME AccessInv, WriteInv, GrantsInv, NEW s \in Procs, WriteSecret(s)
    PROVE  GrantStep(s)
  <1>c. /\ TypeOK /\ call[s] \in CallRecords /\ Bound(s) /\ Creates(s)
        /\ call[s].pc = "ckSecret" /\ principalOf(s) \in Principals
    BY CallTyped DEF AccessInv, GrantsInv, WriteSecret, At, Aimed, OfPrincipal, principalOf
  <1>1. PICK k \in Keys : /\ owner[k] = None
                          /\ owner' = [owner EXCEPT ![k] = principalOf(s)]
                          /\ call' = [call EXCEPT ![s].key = k, ![s].pc = "ckAdd"]
    BY DEF WriteSecret
  <1>2. /\ CallStep(s) /\ call'[s].key = k /\ call'[s].pc = "ckAdd"
        /\ SameCore(s) /\ SameKeys(s) /\ SameSnap(s)
    <2>1. call' = [call EXCEPT ![s].key = k, ![s].pc = "ckAdd"]
      BY <1>1
    <2>2. QED
      BY <1>c, <2>1, SetKey
  <1>3. UNCHANGED <<principal, buckets, policy, keyRow, held, returned, excused>>
    BY DEF WriteSecret
  <1>4. /\ \A j \in Keys : owner[j] # None => owner'[j] = owner[j]
        /\ owner'[k] = principalOf(s) /\ principalOf(s) # None
    BY <1>c, <1>1, PrincipalsAssumption DEF TypeOK, TablesOK, None
  <1>5. k \notin keyRow /\ k \notin returned /\ ~Holds(k)
    BY <1>1 DEF GrantsInv, KeysAreBound
  <1>6. \A t \in Procs : k \notin call[t].keys
    BY <1>1 DEF GrantsInv, Bound
  <1>7. TableMoves(s)
    <2>1. Fair(s) /\ OwnMatches(s)
      BY <1>3 DEF Fair, Still, OwnMatches, GrantsInv, GrantsMatchPolicy
    <2>2. QED
      BY <1>3, <1>4, <2>1 DEF TableMoves
  <1>8. CallMoves(s)
    <2>1. ReadsInTurn(s)
      BY <1>2, <1>5 DEF ReadsInTurn, Unread, keyOf
    <2>2. QED
      BY <1>1, <1>2, <2>1 DEF CallMoves, Lists, SameKeys
  <1>9. Bound(s)'
    BY <1>c, <1>2, <1>4 DEF Bound, SameKeys, CallRecords
  <1>10. Creates(s)'
    <2>1. \A t \in Procs : k \notin call'[t].keys
      BY <1>2, <1>6 DEF CallStep, SameKeys
    <2>2. call'[s].snap = NoDocs /\ call'[s].principal = call[s].principal
      BY <1>c, <1>2 DEF Creates, Starting, SameSnap, SameCore
    <2>3. k \notin keyRow' /\ k \notin returned' /\ ~Holds(k)'
      BY <1>3, <1>5 DEF Holds
    <2>4. QED
      BY <1>2, <1>4, <2>1, <2>2, <2>3 DEF Creates, At, keyOf, principalOf, Holds
  <1>11. Fits(s)' /\ Ready(s)' /\ Minds(s)'
    BY <1>2 DEF Fits, Ready, Minds, At, Minding
  <1>12. QED
    BY <1>7, <1>8, <1>9, <1>10, <1>11 DEF GrantStep, Grant

\* The row is added under a share lock on a live owner.
LEMMA AddKeyGrants ==
    ASSUME AccessInv, WriteInv, GrantsInv, NEW s \in Procs, AddKey(s)
    PROVE  GrantStep(s)
  <1>c. /\ TypeOK /\ Creates(s) /\ call[s].pc = "ckAdd" /\ call[s].pc \in Creating
        /\ keyOf(s) \in Keys /\ keyOf(s) \notin returned /\ owner[keyOf(s)] = principalOf(s)
    BY CreatesTyped DEF AccessInv, GrantsInv, AddKey, At, Creating, Creates
  <1>1. CASE Goto(s, "ckSnap") /\ principal[principalOf(s)] = "live"
             /\ keyRow' = keyRow \cup {keyOf(s)}
    <2>1. SameWork(s) /\ call'[s].pc = "ckSnap"
      BY <1>c, <1>1, GotoSets
    <2>2. /\ UNCHANGED <<principal, buckets, policy, owner, held, returned, excused>>
          /\ CanLock(locks, s, <<"principal", principalOf(s)>>, "SHARE")
      BY DEF AddKey
    <2>3. keyRow \subseteq Keys /\ buckets \subseteq Buckets
      BY <1>c DEF TypeOK, TablesOK
    <2>4. Fair(s)
      <3>1. \A k \in keyRow', b \in buckets' : Own(s, k) \/ k \in keyRow
        BY <1>c, <1>1 DEF Own
      <3>2. QED
        BY <2>2, <3>1 DEF Fair, Still
    <2>5. OwnMatches(s)
      <3>1. ~Holds(keyOf(s))
        BY <1>c DEF Creates, At
      <3>2. \A b \in buckets' : held'[keyOf(s)][b] = {}
        BY <2>2, <2>3, <3>1 DEF Holds
      <3>3. QED
        BY <1>c, <2>2, <3>2 DEF OwnMatches, Own
    <2>6. TableMoves(s)
      BY <1>c, <1>1, <2>1, <2>2, <2>4, <2>5 DEF TableMoves, At
    <2>7. ReadsInTurn(s)
      BY <2>1 DEF ReadsInTurn, Unread
    <2>8. Fits(s)' /\ Ready(s)'
      BY <2>1 DEF Fits, Ready, At
    <2>9. QED
      BY <1>c, <2>1, <2>2, <2>6, <2>7, <2>8, CreationStep DEF SameWork, At
  <1>2. CASE Fail(s, "invalid") /\ UNCHANGED keyRow
    BY <1>2, FailCalm DEF AddKey, Quiet
  <1>3. QED
    BY <1>1, <1>2 DEF AddKey

\* The listing's snapshot: a policy that is not in it gives the key nothing.
LEMMA ListSnapshotGrants ==
    ASSUME AccessInv, WriteInv, GrantsInv, NEW s \in Procs, ListSnapshot(s)
    PROVE  GrantStep(s)
  <1>. DEFINE bs == ListByPrincipal(principalOf(s))
              l == IF bs = {} THEN "ckGet" ELSE "ckRows"
              p == principalOf(s)
  <1>c. /\ TypeOK /\ Creates(s) /\ call[s].pc = "ckSnap" /\ call[s].pc \in Creating
        /\ keyOf(s) \in Keys /\ keyOf(s) \notin returned /\ owner[keyOf(s)] = p
        /\ call[s].snap = NoDocs
    BY CreatesTyped DEF AccessInv, GrantsInv, ListSnapshot, At, Creating, Creates
  <1>1. policy \in [Buckets -> Documents] /\ buckets \subseteq Buckets /\ keyRow \subseteq Keys
    BY <1>c DEF TypeOK, TablesOK
  <1>2. AfterListing(s, NoDocs) = "ckGet"
    <2>1. NoPolicy \in Documents
      BY DEF NoPolicy, Documents
    <2>2. QED
      BY <2>1, UnlistedGrants DEF AfterListing, Derived, NoDocs
  <1>3. call' = [call EXCEPT ![s].want = bs, ![s].pc = l] /\ Quiet
    BY <1>2 DEF ListSnapshot, tables, Quiet
  <1>4. ASSUME NEW b \in Buckets, b \notin bs PROVE Grants(policy[b], p) = {}
    BY <1>1, <1>4, UnlistedGrants DEF ListByPrincipal
  <1>5. p = principalOf(s) /\ l \in {"ckGet", "ckRows"} /\ (l = "ckGet" <=> bs = {})
    OBVIOUS
  <1>. HIDE DEF bs, l, p
  <1>6. CallStep(s) /\ SameWork(s) /\ call'[s].want = bs /\ call'[s].pc = l
    BY <1>c, <1>3, SetWant
  <1>7. call'[s].key = call[s].key /\ call'[s].principal = p /\ call'[s].snap = NoDocs
    BY <1>c, <1>5, <1>6 DEF SameWork, SameCore, SameKey, SameSnap, principalOf
  <1>8. Fits(s)'
    <2>1. ASSUME NEW b \in buckets, b \notin bs
          PROVE  Grants(NoDocs[b], p) = Grants(policy[b], p)
      BY <1>1, <1>4, <2>1, UnlistedGrants DEF NoDocs
    <2>2. QED
      BY <1>3, <1>5, <1>6, <1>7, <2>1 DEF Fits, At, Quiet, keyOf, principalOf
  <1>9. Ready(s)'
    <2>1. ASSUME bs = {}, keyOf(s) \in keyRow, NEW b \in buckets, <<keyOf(s), b>> \notin excused
          PROVE  held[keyOf(s)][b] = Grants(policy[b], p)
      BY <1>c, <1>1, <1>4, <2>1 DEF GrantsInv, GrantsMatchPolicy
    <2>2. QED
      BY <1>c, <1>3, <1>5, <1>6, <1>7, <2>1 DEF Ready, InStep, At, Quiet, keyOf
  <1>10. ReadsInTurn(s)
    <2>1. SUFFICES ASSUME NEW t \in Procs, NEW b \in Buckets, t # s, call[t].pc \in Minding,
                          docOf(t) = NoPolicy, b = bucketOf(t), ~Spared(t, p)
                   PROVE  b \in bs
      BY <1>c, <1>5, <1>6, <1>7 DEF ReadsInTurn, Unread, At, keyOf
    <2>2. call[t].old = policy[b]
      BY <2>1, MindingIsPastRow DEF WriteInv, Writes, HoldsPolicy
    <2>3. Grants(policy[b], p) # {}
      BY <1>1, <2>1, <2>2, UnlistedGrants DEF Spared
    <2>4. QED
      BY <1>4, <2>3
  <1>11. QED
    BY <1>c, <1>3, <1>5, <1>6, <1>8, <1>9, <1>10, QuietTables, CreationStep DEF SameWork, Quiet

\* Each row is read as last committed, while no Delete has it.
LEMMA ListRowsGrants ==
    ASSUME AccessInv, WriteInv, GrantsInv, NEW s \in Procs, ListRows(s)
    PROVE  GrantStep(s)
  <1>. DEFINE p == principalOf(s)
              k == keyOf(s)
  <1>c. /\ TypeOK /\ Fits(s) /\ call[s] \in CallRecords
        /\ call[s].pc = "ckRows" /\ call[s].pc \in Creating
        /\ k \in Keys /\ k \notin returned /\ owner[k] = p
    BY CreatesTyped, CallTyped DEF AccessInv, GrantsInv, ListRows, At, Creating, Creates
  <1>1. PICK b \in Buckets :
          LET docs == [call[s].snap EXCEPT ![b] = policy[b]]
              last == call[s].want = {b}
          IN  /\ b \in call[s].want
              /\ CanLock(locks, s, <<"policyRow", b>>, "SHARE")
              /\ call' = [call EXCEPT ![s].want = @ \ {b}, ![s].snap = docs,
                            ![s].pc = IF last THEN AfterListing(s, docs) ELSE "ckRows"]
    BY DEF ListRows, Next1
  <1>. DEFINE docs == [call[s].snap EXCEPT ![b] = policy[b]]
              w == call[s].want \ {b}
              l == IF call[s].want = {b} THEN AfterListing(s, docs) ELSE "ckRows"
  <1>2. /\ call' = [call EXCEPT ![s].want = w, ![s].snap = docs, ![s].pc = l]
        /\ b \in call[s].want /\ CanLock(locks, s, <<"policyRow", b>>, "SHARE")
    BY <1>1
  <1>3. /\ l \in {"ckStore", "ckGet", "ckRows"}
        /\ w # {} => l = "ckRows"
        /\ l = "ckGet" => \A x \in Buckets : Grants(docs[x], p) = {}
        /\ l = "ckRows" \/ w = {}
    BY <1>2 DEF AfterListing, Derived
  <1>4. \A x \in Buckets : docs[x] = IF x = b THEN policy[b] ELSE call[s].snap[x]
    BY <1>c DEF CallRecords
  <1>5. w = call[s].want \ {b} /\ Quiet /\ buckets \subseteq Buckets
    BY <1>c DEF ListRows, tables, Quiet, TypeOK, TablesOK
  <1>6. p = principalOf(s) /\ k = keyOf(s)
    OBVIOUS
  <1>. HIDE DEF docs, w, l, p, k
  <1>7. /\ CallStep(s) /\ SameCore(s) /\ SameKey(s) /\ SameKeys(s)
        /\ call'[s].want = w /\ call'[s].snap = docs /\ call'[s].pc = l
    BY <1>c, <1>2, SetRead, ZenonT(60)
  <1>8. call'[s].key = k /\ call'[s].principal = p
    BY <1>6, <1>7 DEF SameCore, SameKey, principalOf, keyOf
  <1>9. ASSUME k \in keyRow, NEW x \in buckets, x \notin w
        PROVE  \/ held[k][x] # {} /\ InStep(k, x)
               \/ <<k, x>> \in excused
               \/ Grants(docs[x], p) = Grants(policy[x], p)
    <2>1. CASE x = b
      BY <1>4, <1>5, <2>1
    <2>2. CASE x # b
      BY <1>c, <1>4, <1>5, <1>6, <1>9, <2>2 DEF Fits, At
    <2>3. QED
      BY <2>1, <2>2
  <1>10. Fits(s)'
    BY <1>3, <1>5, <1>7, <1>8, <1>9 DEF Fits, InStep, At, Quiet, keyOf, principalOf
  <1>11. Ready(s)'
    <2>1. ASSUME l = "ckGet", k \in keyRow, NEW x \in buckets, <<k, x>> \notin excused
          PROVE  InStep(k, x)
      <3>1. \/ held[k][x] # {} /\ InStep(k, x)
            \/ Grants(policy[x], p) = {}
        BY <1>3, <1>5, <1>9, <2>1
      <3>2. held[k][x] \subseteq Grants(policy[x], p)
        BY <1>c, <2>1 DEF GrantsInv, GrantsMatchPolicy
      <3>3. QED
        BY <1>c, <3>1, <3>2 DEF InStep
    <2>2. QED
      BY <1>5, <1>7, <1>8, <2>1 DEF Ready, InStep, At, Quiet, keyOf
  <1>12. ReadsInTurn(s)
    <2>1. SUFFICES ASSUME NEW t \in Procs, NEW x \in Buckets, t # s, call[t].pc \in Minding,
                          docOf(t) = NoPolicy, x = bucketOf(t), Unread(s, k, x)
                   PROVE  l = "ckRows" /\ x \in w
      BY <1>6, <1>7, <1>8 DEF ReadsInTurn, Unread, At, keyOf
    <2>2. x \in call[s].want
      BY <1>c, <1>6, <2>1 DEF Unread, Undoing
    <2>3. Has(t, <<"policyRow", x>>, "UPDATE")
      BY <2>1, MindingIsPastRow DEF WriteInv, Writes, HoldsPolicy
    <2>4. x # b
      BY <1>2, <2>1, <2>3, CanLockHas, ExclusivePairs
    <2>5. QED
      BY <1>3, <1>5, <2>2, <2>4
  <1>13. QED
    BY <1>c, <1>3, <1>5, <1>7, <1>10, <1>11, <1>12, QuietTables, CreationStep DEF Quiet

\* The delegations are stored if nobody has rotated the key.
LEMMA StoreGrantsGrants ==
    ASSUME AccessInv, WriteInv, GrantsInv, NEW s \in Procs, StoreGrants(s)
    PROVE  GrantStep(s)
  <1>. DEFINE p == principalOf(s)
              k == keyOf(s)
  <1>c. /\ TypeOK /\ Fits(s) /\ call[s].pc = "ckStore" /\ call[s].pc \in Creating
        /\ k \in Keys /\ k \notin returned /\ owner[k] = p
    BY CreatesTyped DEF AccessInv, GrantsInv, StoreGrants, At, Creating, Creates
  <1>1. CASE /\ ~Holds(k) /\ Goto(s, "ckGet")
             /\ held' = [held EXCEPT ![k] = Derived(s, call[s].snap)]
    <2>1. CallStep(s) /\ SameWork(s) /\ call'[s].pc = "ckGet"
      BY <1>c, <1>1, GotoSets
    <2>2. /\ UNCHANGED <<principal, buckets, policy, keyRow, owner, returned, excused>>
          /\ buckets \subseteq Buckets /\ keyRow \subseteq Keys
      BY <1>c DEF StoreGrants, TypeOK, TablesOK
    <2>3. /\ \A j \in Keys : j # k => held'[j] = held[j]
          /\ \A b \in Buckets : held'[k][b] = Grants(call[s].snap[b], p)
      BY <1>c, <1>1 DEF TypeOK, TablesOK, Derived
    <2>4. k = keyOf(s) /\ p = principalOf(s)
      OBVIOUS
    <2>. HIDE DEF k, p
    <2>5. ASSUME k \in keyRow, NEW b \in buckets, <<k, b>> \notin excused
          PROVE  held'[k][b] = Grants(policy[b], p)
      <3>1. held[k][b] = {}
        BY <1>1, <2>2 DEF Holds
      <3>2. Grants(call[s].snap[b], p) = Grants(policy[b], p)
        BY <1>c, <2>4, <2>5, <3>1 DEF Fits, At
      <3>3. QED
        BY <2>2, <2>3, <3>2
    <2>6. Fair(s)
      BY <1>c, <2>2, <2>3, <2>4 DEF Fair, Still, Own
    <2>7. OwnMatches(s)
      BY <1>c, <2>2, <2>4, <2>5 DEF OwnMatches, Own
    <2>8. TableMoves(s)
      BY <1>c, <2>2, <2>3, <2>4, <2>6, <2>7 DEF TableMoves, At
    <2>9. Fits(s)' /\ Ready(s)'
      <3>1. call'[s].key = k
        BY <2>1, <2>4 DEF SameWork, SameKey, keyOf
      <3>2. QED
        BY <1>c, <2>1, <2>2, <2>5, <3>1 DEF Fits, Ready, InStep, At, keyOf
    <2>10. ReadsInTurn(s)
      <3>1. ASSUME NEW j, NEW b, Unread(s, j, b) PROVE j # k
        BY <1>c, <2>4, <3>1 DEF Unread, At, Undoing
      <3>2. call'[s].key = k
        BY <2>1, <2>4 DEF SameWork, SameKey, keyOf
      <3>3. QED
        BY <3>1, <3>2 DEF ReadsInTurn, Unread, keyOf
    <2>11. QED
      BY <1>c, <2>1, <2>2, <2>8, <2>9, <2>10, CreationStep DEF SameWork
  <1>2. CASE Fail(s, "refused") /\ UNCHANGED held
    BY <1>2, FailCalm DEF StoreGrants, Quiet
  <1>3. QED
    BY <1>1, <1>2 DEF StoreGrants

\* The caller is given a key that holds what the policies say.
LEMMA ReturnKeyGrants ==
    ASSUME AccessInv, WriteInv, GrantsInv, NEW s \in Procs, ReturnKey(s)
    PROVE  GrantStep(s)
  <1>c. /\ TypeOK /\ Ready(s) /\ call[s].pc = "ckGet"
    BY DEF AccessInv, GrantsInv, ReturnKey, At
  <1>1. CASE /\ keyOf(s) \in keyRow /\ returned' = returned \cup {keyOf(s)}
             /\ Finish(s, "answered")
    <2>1. Calm(s)
      BY <1>c, <1>1, FinishSets, EndCalm
    <2>2. UNCHANGED <<principal, buckets, policy, keyRow, owner, held, excused>>
      BY DEF ReturnKey
    <2>3. Fair(s)
      BY <2>2 DEF Fair, Still
    <2>4. OwnMatches(s)
      BY <1>c, <2>2 DEF OwnMatches, Own, Ready, InStep, At
    <2>5. TableMoves(s)
      BY <1>c, <1>1, <2>2, <2>3, <2>4 DEF TableMoves, At
    <2>6. QED
      BY <2>1, <2>5, CalmGrants
  <1>2. CASE Fail(s, "notfound") /\ UNCHANGED returned
    BY <1>2, FailCalm DEF ReturnKey, Quiet
  <1>3. QED
    BY <1>1, <1>2 DEF ReturnKey

-----------------------------------------------------------------------------
(***************************************************************************)
(* The access key service.                                                 *)
(***************************************************************************)
\* A creation that turns back goes on undoing.
LEMMA UndoCalm ==
    ASSUME TypeOK, NEW s \in Procs, NEW l \in Undoing, Goto(s, l), call[s].pc \in Creating,
           returned' = returned
    PROVE  Calm(s)
  <1>1. call'[s].pc = l /\ SameWork(s)
    BY GotoSets
  <1>2. QED
    BY <1>1 DEF Calm, Undoing, Creating, Starting, Minding, Lists, SameWork, SameCore, SameKeys

\* The key of a creation lets go of what it holds; the creation still answers for it.
LEMMA OwnClears ==
    ASSUME AccessInv, GrantsInv, NEW s \in Procs, call[s].pc \in Creating,
           ClearGrants({keyOf(s)}),
           UNCHANGED <<principal, buckets, policy, keyRow, owner, returned>>
    PROVE  TableMoves(s)
  <1>. DEFINE ks == {keyOf(s)}
  <1>1. /\ \A k \in Keys : held'[k] = IF k \in ks THEN [b \in Buckets |-> {}] ELSE held[k]
        /\ excused' = excused \ (ks \X Buckets)
    BY DEF ClearGrants
  <1>2. \A k \in ks : Own(s, k)
    BY DEF Own
  <1>. HIDE DEF ks
  <1>3. \A k \in keyRow', b \in Buckets :
          /\ k \notin ks => (<<k, b>> \in excused => <<k, b>> \in excused')
          /\ k \in ks => <<k, b>> \in excused' \/ Own(s, k)
    BY <1>1, <1>2
  <1>4. QED
    BY <1>1, <1>3, ClearTables

\* Rows go, with what their keys hold or without.
LEMMA RowsGo ==
    ASSUME AccessInv, GrantsInv, NEW s \in Procs, NEW ks,
           (held' = held /\ excused' = excused) \/ ClearGrants(ks), keyRow' = keyRow \ ks,
           UNCHANGED <<principal, buckets, policy, owner, returned>>
    PROVE  TableMoves(s)
  <1>1. CASE held' = held /\ excused' = excused
    <2>1. \A k \in Keys : held'[k] = IF k \in {} THEN [b \in Buckets |-> {}] ELSE held[k]
      BY <1>1
    <2>2. \A k \in keyRow', b \in Buckets :
            /\ k \notin {} => (<<k, b>> \in excused => <<k, b>> \in excused')
            /\ k \in {} => <<k, b>> \in excused' \/ Own(s, k)
      BY <1>1
    <2>3. QED
      BY <2>1, <2>2, ClearTables
  <1>2. CASE ClearGrants(ks)
    <2>1. /\ \A k \in Keys : held'[k] = IF k \in ks THEN [b \in Buckets |-> {}] ELSE held[k]
          /\ excused' = excused \ (ks \X Buckets)
      BY <1>2 DEF ClearGrants
    <2>2. \A k \in keyRow', b \in Buckets :
            /\ k \notin ks => (<<k, b>> \in excused => <<k, b>> \in excused')
            /\ k \in ks => <<k, b>> \in excused' \/ Own(s, k)
      BY <2>1
    <2>3. QED
      BY <2>1, <2>2, ClearTables
  <1>3. QED
    BY <1>1, <1>2

LEMMA KeyGrants ==
    ASSUME AccessInv, WriteInv, GrantsInv, NEW s \in Procs, AccessKeyStep(s)
    PROVE  GrantStep(s)
  <1>. USE DEF At, Easy, Labels, Starting, Undoing, Creating, Minding
  <1>c. TypeOK /\ Creates(s)
    BY DEF AccessInv, GrantsInv
  <1>q. ASSUME Quiet, Calm(s) PROVE GrantStep(s)
    BY <1>q, QuietTables, CalmGrants
  <1>g. ASSUME NEW l, Goto(s, l), l \in Easy PROVE Calm(s)
    BY <1>c, <1>g, GotoSets, WorkCalm
  <1>f. ASSUME NEW res, Finish(s, res) PROVE Calm(s)
    BY <1>c, <1>f, FinishSets, EndCalm
  <1>1. CASE BeginCreateKey(s)
    <2>1. PICK p \in Principals :
            call' = [call EXCEPT ![s] = [Idle("answered") EXCEPT !.pc = "ckPrincipal",
                        !.kind = "createKey", !.principal = p]]
      BY <1>1 DEF BeginCreateKey
    <2>. DEFINE c == [Idle("answered") EXCEPT !.pc = "ckPrincipal",
                        !.kind = "createKey", !.principal = p]
    <2>2. c.pc = "ckPrincipal" /\ c.keys = {} /\ c.key = None /\ c.snap = NoDocs
      BY DEF Idle
    <2>3. call' = [call EXCEPT ![s] = c]
      BY <2>1
    <2>. HIDE DEF c
    <2>4. Calm(s)
      BY <1>c, <2>2, <2>3, BeginCalm
    <2>5. QED
      BY <1>1, <1>q, <2>4 DEF BeginCreateKey, tables, Quiet
  <1>2. CASE FindPrincipal(s)
    <2>1. Quiet /\ call[s].pc = "ckPrincipal" /\ (Goto(s, "ckSecret") \/ Finish(s, "answered"))
      BY <1>2 DEF FindPrincipal, tables, Quiet
    <2>2. CASE Goto(s, "ckSecret")
      <3>1. call'[s].pc = "ckSecret" /\ SameWork(s)
        BY <1>c, <2>2, GotoSets
      <3>2. call'[s].snap = NoDocs
        BY <1>c, <2>1, <3>1 DEF Creates, SameWork, SameSnap
      <3>3. Calm(s)
        BY <3>1, <3>2 DEF Calm, Lists, SameWork, SameKeys
      <3>4. QED
        BY <1>q, <2>1, <3>3
    <2>3. QED
      BY <1>f, <1>q, <2>1, <2>2
  <1>3. CASE RollbackGrants(s)
    <2>1. call[s].pc = "rbGrants" /\ Goto(s, "rbRow") /\ returned' = returned
      BY <1>3 DEF RollbackGrants
    <2>2. TableMoves(s)
      BY <1>3, <2>1, OwnClears DEF RollbackGrants
    <2>3. Calm(s)
      BY <1>c, <2>1, UndoCalm
    <2>4. QED
      BY <2>2, <2>3, CalmGrants
  <1>4. CASE RollbackRow(s)
    <2>1. call[s].pc = "rbRow" /\ Goto(s, "rbSecret") /\ returned' = returned
      BY <1>4 DEF RollbackRow
    <2>2. TableMoves(s)
      BY <1>4, RowsGo DEF RollbackRow
    <2>3. Calm(s)
      BY <1>c, <2>1, UndoCalm
    <2>4. QED
      BY <2>2, <2>3, CalmGrants
  <1>5. CASE RollbackSecret(s)
    <2>1. Quiet /\ Finish(s, call[s].res)
      BY <1>5 DEF RollbackSecret, Quiet
    <2>2. QED
      BY <1>f, <1>q, <2>1
  <1>6. CASE BeginDeleteKey(s)
    <2>1. PICK k \in keyRow :
            call' = [call EXCEPT ![s] = [Idle("answered") EXCEPT !.pc = "kdLock",
                        !.kind = "deleteKey", !.key = k, !.keys = {k}, !.want = {k}]]
      BY <1>6 DEF BeginDeleteKey
    <2>. DEFINE c == [Idle("answered") EXCEPT !.pc = "kdLock",
                        !.kind = "deleteKey", !.key = k, !.keys = {k}, !.want = {k}]
    <2>2. c.pc = "kdLock" /\ c.keys = {k} /\ c.key = k
      BY DEF Idle
    <2>3. call' = [call EXCEPT ![s] = c]
      BY <2>1
    <2>. HIDE DEF c
    <2>4. Calm(s)
      BY <1>c, <2>2, <2>3, BeginCalm
    <2>5. QED
      BY <1>6, <1>q, <2>4 DEF BeginDeleteKey, tables, Quiet
  <1>7. CASE DeleteLock(s)
    BY <1>7, AudienceCalm DEF DeleteLock
  <1>8. CASE DeletePublish(s)
    <2>1. Quiet /\ (Goto(s, "kdCommit") \/ Fail(s, "error"))
      BY <1>8 DEF DeletePublish, PublishRevocations, Quiet
    <2>2. QED
      BY <1>g, <1>q, <2>1, FailCalm
  <1>9. CASE DeleteCommit(s)
    <2>1. TableMoves(s)
      BY <1>9, RowsGo DEF DeleteCommit
    <2>2. Calm(s)
      BY <1>9, <1>g DEF DeleteCommit
    <2>3. QED
      BY <2>1, <2>2, CalmGrants
  <1>10. CASE DeleteSecret(s)
    <2>1. Quiet /\ Finish(s, "answered")
      BY <1>10 DEF DeleteSecret, Quiet
    <2>2. QED
      BY <1>f, <1>q, <2>1
  <1>11. QED
    BY <1>1, <1>2, <1>3, <1>4, <1>5, <1>6, <1>7, <1>8, <1>9, <1>10, WriteSecretGrants,
       AddKeyGrants, ListSnapshotGrants, ListRowsGrants, StoreGrantsGrants, ReturnKeyGrants
       DEF AccessKeyStep

-----------------------------------------------------------------------------
(***************************************************************************)
(* Bucket deletion and faults.                                             *)
(***************************************************************************)
\* The bucket goes, and what the other buckets' keys hold stays.
LEMMA DeleteBucketGrants ==
    ASSUME AccessInv, WriteInv, GrantsInv, NEW s \in Procs, DeleteBucketRow(s)
    PROVE  GrantStep(s)
  <1>. DEFINE a == bucketOf(s)
  <1>c. /\ TypeOK /\ keyRow \subseteq Keys /\ buckets \subseteq Buckets
        /\ policy \in [Buckets -> Documents] /\ held \in [Keys -> [Buckets -> SUBSET Commands]]
        /\ call[s].keys \subseteq Keys
    BY CallTyped DEF AccessInv, TypeOK, TablesOK, CallRecords
  <1>1. /\ buckets' = buckets \ {a} /\ policy' = [policy EXCEPT ![a] = NoPolicy]
        /\ held' = [k \in Keys |-> IF k \in call[s].keys
                                   THEN [held[k] EXCEPT ![a] = {}] ELSE held[k]]
        /\ excused' = excused \ (call[s].keys \X {a})
        /\ UNCHANGED <<principal, keyRow, owner, returned>> /\ Finish(s, "answered")
        /\ call[s].pc = "dbCommit"
    BY DEF DeleteBucketRow, At
  <1>. HIDE DEF a
  <1>2. ASSUME NEW k \in keyRow', NEW b \in buckets' PROVE Still(k, b)
    <2>1. k \in Keys /\ b \in Buckets /\ b # a
      BY <1>c, <1>1, <1>2
    <2>2. held'[k][b] = held[k][b] /\ policy'[b] = policy[b]
      BY <1>c, <1>1, <2>1
    <2>3. QED
      BY <1>1, <2>1, <2>2 DEF Still
  <1>3. ASSUME NEW k \in Keys, NEW b \in Buckets, held[k][b] = {} PROVE held'[k][b] = {}
    BY <1>c, <1>1, <1>3
  <1>4. Fair(s)
    BY <1>2 DEF Fair
  <1>5. OwnMatches(s)
    BY <1>1, <1>2 DEF OwnMatches, GrantsInv, GrantsMatchPolicy, Still
  <1>6. TableMoves(s)
    BY <1>1, <1>3, <1>4, <1>5 DEF TableMoves
  <1>7. Calm(s)
    BY <1>c, <1>1, FinishSets, EndCalm
  <1>8. QED
    BY <1>6, <1>7, CalmGrants

LEMMA BucketGrants ==
    ASSUME AccessInv, WriteInv, GrantsInv, NEW s \in Procs, BucketStep(s)
    PROVE  GrantStep(s)
  <1>. USE DEF At, Easy, Labels, Starting, Undoing, Creating, Minding
  <1>c. TypeOK
    BY DEF AccessInv
  <1>q. ASSUME Quiet, Calm(s) PROVE GrantStep(s)
    BY <1>q, QuietTables, CalmGrants
  <1>g. ASSUME NEW l, Goto(s, l), l \in Easy PROVE Calm(s)
    BY <1>c, <1>g, GotoSets, WorkCalm
  <1>1. CASE BeginDeleteBucket(s)
    <2>1. PICK b \in buckets :
            call' = [call EXCEPT ![s] = [Idle("answered") EXCEPT !.pc = "dbLock",
                        !.kind = "deleteBucket", !.bucket = b]]
      BY <1>1 DEF BeginDeleteBucket
    <2>. DEFINE c == [Idle("answered") EXCEPT !.pc = "dbLock",
                        !.kind = "deleteBucket", !.bucket = b]
    <2>2. c.pc = "dbLock" /\ c.keys = {} /\ c.key = None
      BY DEF Idle
    <2>3. call' = [call EXCEPT ![s] = c]
      BY <2>1
    <2>. HIDE DEF c
    <2>4. Calm(s)
      BY <1>c, <2>2, <2>3, BeginCalm
    <2>5. QED
      BY <1>1, <1>q, <2>4 DEF BeginDeleteBucket, tables, Quiet
  <1>2. CASE DeleteByBucket(s)
    <2>1. Goto(s, "dbRevoke") /\ Quiet
      BY <1>2 DEF DeleteByBucket, tables, Quiet
    <2>2. QED
      BY <1>g, <1>q, <2>1
  <1>3. CASE RevokeSubject(s)
    <2>1. Quiet /\ (Goto(s, "dbAudiences") \/ Fail(s, "error"))
      BY <1>3 DEF RevokeSubject, PublishRevocations, Quiet
    <2>2. QED
      BY <1>g, <1>q, <2>1, FailCalm
  <1>4. CASE SubjectAudiences(s)
    <2>. DEFINE ks == HoldersOf(bucketOf(s))
                l == IF ks = {} THEN "dbDelete" ELSE "dbLockK"
    <2>1. call' = [call EXCEPT ![s].want = ks, ![s].pc = l] /\ Quiet
      BY <1>4 DEF SubjectAudiences, tables, Quiet
    <2>2. l \in {"dbDelete", "dbLockK"}
      OBVIOUS
    <2>. HIDE DEF ks, l
    <2>3. SameWork(s) /\ call'[s].pc = l
      BY <1>c, <2>1, SetWant
    <2>4. Calm(s)
      BY <2>2, <2>3, WorkCalm
    <2>5. QED
      BY <1>q, <2>1, <2>4
  <1>5. CASE SubjectLock(s)
    BY <1>5, AudienceCalm DEF SubjectLock
  <1>6. CASE DeleteBySubject(s)
    <2>. DEFINE ks == HoldersOf(bucketOf(s))
    <2>1. call' = [call EXCEPT ![s].keys = ks, ![s].pc = "dbCommit"] /\ Quiet
      BY <1>6 DEF DeleteBySubject, tables, Quiet
    <2>2. \A k \in ks : k \in Keys /\ Holds(k)
      BY <1>6, CallTyped DEF HoldersOf, Holds, AccessInv, DeleteBySubject, Aimed, OfBucket, bucketOf
    <2>. HIDE DEF ks
    <2>3. SameKey(s) /\ call'[s].keys = ks /\ call'[s].pc = "dbCommit"
      BY <1>c, <2>1, SetKeysOnly
    <2>4. Calm(s)
      BY <2>2, <2>3, EasyCalm DEF Lists
    <2>5. QED
      BY <1>q, <2>1, <2>4
  <1>7. QED
    BY <1>1, <1>2, <1>3, <1>4, <1>5, <1>6, DeleteBucketGrants DEF BucketStep

LEMMA FaultGrants ==
    ASSUME AccessInv, WriteInv, GrantsInv, NEW s \in Procs, Fault(s)
    PROVE  GrantStep(s)
  <1>c. TypeOK
    BY DEF AccessInv
  <1>q. ASSUME Quiet, Calm(s) PROVE GrantStep(s)
    BY <1>q, QuietTables, CalmGrants
  <1>f. ASSUME NEW res, Finish(s, res) PROVE Calm(s)
    BY <1>c, <1>f, FinishSets, EndCalm
  <1>1. CASE Timeout(s)
    BY <1>1, FailCalm DEF Timeout, tables, Quiet
  <1>2. CASE Error(s)
    BY <1>2, FailCalm DEF Error, tables, Quiet
  <1>3. CASE Crash(s)
    BY <1>3, <1>f, <1>q DEF Crash, tables, Quiet
  <1>4. CASE RollbackSkip(s)
    <2>1. /\ Quiet
          /\ \/ call[s].pc = "rbGrants" /\ Goto(s, "rbRow")
             \/ call[s].pc = "rbRow" /\ Goto(s, "rbSecret")
             \/ Finish(s, call[s].res)
      BY <1>4 DEF RollbackSkip, At, tables, Quiet
    <2>2. Calm(s)
      BY <1>c, <1>f, <2>1, UndoCalm DEF Quiet, Creating, Undoing
    <2>3. QED
      BY <1>q, <2>1, <2>2
  <1>5. QED
    BY <1>1, <1>2, <1>3, <1>4 DEF Fault

-----------------------------------------------------------------------------
(***************************************************************************)
(* Every behaviour keeps the invariant.                                    *)
(***************************************************************************)
LEMMA InitGrants == Init => GrantsInv
  <1>. SUFFICES ASSUME Init PROVE GrantsInv
    OBVIOUS
  <1>1. \A s \in Procs : call[s] = Idle("answered")
    BY DEF Init
  <1>2. \A s \in Procs : /\ call[s].pc = "idle" /\ call[s].keys = {} /\ call[s].key = None
    BY <1>1 DEF Idle
  <1>3. KeysAreBound /\ GrantsMatchPolicy
    BY DEF Init, KeysAreBound, GrantsMatchPolicy, Holds
  <1>4. \A s \in Procs : Bound(s) /\ Creates(s) /\ Fits(s) /\ Ready(s) /\ Minds(s)
    BY <1>2 DEF Bound, Creates, Fits, Ready, Minds, At, Starting, Creating, Undoing, Minding
  <1>5. Distinct
    BY <1>2 DEF Distinct, Creating, Undoing
  <1>6. QED
    BY <1>3, <1>4, <1>5 DEF GrantsInv

LEMMA StutterGrants == GrantsInv /\ UNCHANGED vars => GrantsInv'
  <1>. SUFFICES ASSUME GrantsInv, UNCHANGED vars PROVE GrantsInv'
    OBVIOUS
  <1>1. /\ UNCHANGED <<principal, buckets, policy, keyRow, owner, held, returned, excused>>
        /\ call' = call /\ locks' = locks
    BY DEF vars
  <1>2. (KeysAreBound /\ Distinct /\ GrantsMatchPolicy)'
    BY <1>1 DEF GrantsInv, KeysAreBound, Distinct, GrantsMatchPolicy, Holds, keyOf
  <1>3. ASSUME NEW s \in Procs PROVE (Bound(s) /\ Creates(s) /\ Fits(s) /\ Ready(s))'
    BY <1>1 DEF GrantsInv, Bound, Creates, Fits, Ready, InStep, At, Holds, keyOf, principalOf
  <1>4. ASSUME NEW s \in Procs PROVE Minds(s)'
    <2>1. Minds(s) /\ (MindsFresh(s) => MindsFresh(s)')
      BY <1>1 DEF GrantsInv, MindsFresh, At
    <2>2. MindsLive(s) => MindsLive(s)'
      BY <1>1 DEF MindsLive, Spared, At, Has, docOf
    <2>3. MindsRows(s) => MindsRows(s)'
      <3>1. ASSUME NEW k, NEW b, Unseen(k, b)
            PROVE  /\ k \notin returned' /\ held'[k][b] = {}
                   /\ \A t \in Procs : Unread(t, k, b)'
        BY <1>1, <3>1 DEF Unseen, Unread, At, keyOf
      <3>2. \A k, b : Unseen(k, b) => Unseen(k, b)'
        BY <3>1 DEF Unseen
      <3>3. call'[s].bucket = call[s].bucket
        BY <1>1
      <3>4. QED
        BY <1>1, <3>2, <3>3 DEF MindsRows, Spared, docOf, bucketOf
    <2>4. QED
      BY <1>1, <2>1, <2>2, <2>3 DEF Minds, Strips
  <1>5. QED
    BY <1>2, <1>3, <1>4 DEF GrantsInv

LEMMA NextGrants ==
    ASSUME AccessInv, WriteInv, GrantsInv, Next
    PROVE  GrantsInv'
  <1>1. PICK s \in Procs : Step(s) \/ Fault(s)
    BY DEF Next
  <1>2. GrantStep(s)
    BY <1>1, PolicyGrants, PrincipalGrants, KeyGrants, BucketGrants, FaultGrants DEF Step
  <1>3. WriteStep(s)
    BY <1>1, PolicyWrites, PrincipalWrites, KeyWrites, BucketWrites, FaultWrites DEF Step
  <1>4. QED
    BY <1>2, <1>3, GrantStepKeeps

\* Every reachable state satisfies the invariant: a policy write in its callback
\* overlooks no key it could leave stale, and a key creation stores nothing that is no
\* longer in force.
THEOREM NoKeyIsOverlooked == Spec => []GrantsInv
  <1>1. Init => GrantsInv
    BY InitGrants
  <1>2. AccessInv /\ WriteInv /\ GrantsInv /\ [Next]_vars => GrantsInv'
    BY NextGrants, StutterGrants
  <1>3. QED
    BY <1>1, <1>2, LockDiscipline, PolicyRowsAreGuarded, PTL DEF Spec

\* Whatever the handlers, the faults and the interleaving, a key with a row holds no more
\* over a bucket than the committed policy gives its principal, and exactly that once its
\* caller was given it, but for the pairs a rotation let go of during the key's creation
\* or a removal has revoked.
THEOREM GrantsFollowPolicy == Spec => []GrantsMatchPolicy
  <1>1. GrantsInv => GrantsMatchPolicy
    BY DEF GrantsInv
  <1>2. QED
    BY <1>1, NoKeyIsOverlooked, PTL

-----------------------------------------------------------------------------
(***************************************************************************)
(* Revocations.                                                            *)
(*                                                                         *)
(* The argument: who publishes the revocations of a key's delegations has  *)
(* the key's delegation lock exclusive, and keeps it until they leave the  *)
(* table; whoever stores delegations of the key, replaces or deletes them  *)
(* needs that lock too.  A bucket's deletion publishes without it, which   *)
(* is why this holds only of handlers that delete no bucket.               *)
(***************************************************************************)
Deletes == {"dbLock", "dbRevoke", "dbAudiences", "dbLockK", "dbDelete", "dbCommit"}
LocksKeys == {"rvLock", "lockK", "tombLock", "kdLock"}
HasKeys == {"rvPublish", "rvCommit", "publish", "commit",
            "tombPublish", "tombSecrets", "tombCommit", "kdPublish", "kdCommit"}
Letting == {"rvCommit", "tombSecrets", "tombCommit", "kdCommit"}

Audience(s, k) == Has(s, <<"audience", k>>, "exclusive")

\* The listed keys are locked, one after the other.
HoldsAudiences(s) ==
    \A k \in call[s].keys :
        call[s].pc \in HasKeys \/ (call[s].pc \in LocksKeys /\ k \notin call[s].want) =>
            Audience(s, k)

Published(k, b) == held[k][b] # {} => <<k, b>> \in revoked

\* Past its publication a handler knows everything its keys hold to be revoked.
Told(s) ==
    /\ call[s].pc \in Letting => \A k \in call[s].keys, b \in Buckets : Published(k, b)
    /\ At(s, "commit") => \A k \in call[s].keys \cap call[s].fresh :
          Published(k, bucketOf(s)) /\ (k \in returned => k \in keyRow)

\* A key that was given out and deleted holds nothing.
GoneHoldNothing == \A k \in returned : k \in keyRow \/ ~Holds(k)

RevokeInv == GoneHoldNothing /\ \A s \in Procs : HoldsAudiences(s) /\ Told(s)

\* Nobody is deleting a bucket.
NoneDeletes == \A s \in Procs : call[s].pc \notin Deletes

-----------------------------------------------------------------------------
\* What a step of s does to a key: nothing another handler has to know of, or s could
\* have its delegation lock.
Alone(s, k) == \A t \in Procs : t # s => ~Audience(t, k)

Kept(k) ==
    /\ \A b \in Buckets : /\ held'[k][b] = held[k][b]
                          /\ <<k, b>> \in revoked => <<k, b>> \in revoked'
    /\ k \in returned' => k \in returned \/ k \in keyRow'
    /\ k \in returned /\ k \in keyRow => k \in keyRow'

Revealed ==
    \A k \in returned, b \in Buckets :
        held[k][b] # {} /\ held'[k][b] # held[k][b] => <<k, b>> \in revoked

KeyMoves(s) ==
    /\ GoneHoldNothing' /\ Revealed
    /\ \A k \in Keys : Alone(s, k) \/ Kept(k)

RevokeStep(s) ==
    /\ HoldsAudiences(s)' /\ Told(s)' /\ call'[s].pc \notin Deletes
    /\ KeyMoves(s)

\* A bucket's deletion does less than that: it takes what keys hold over the bucket
\* without their locks, but leaves them nothing there that would not be revoked.
Spent(k) ==
    /\ \A b \in Buckets : \/ held'[k][b] = {}
                          \/ /\ held'[k][b] = held[k][b]
                             /\ <<k, b>> \in revoked => <<k, b>> \in revoked'
    /\ k \in returned' => k \in returned \/ k \in keyRow'
    /\ k \in returned /\ k \in keyRow => k \in keyRow'

KeyStep(s) ==
    /\ HoldsAudiences(s)' /\ Told(s)' /\ GoneHoldNothing'
    /\ \A k \in Keys : Alone(s, k) \/ Spent(k)

LEMMA RevokeStepIsKeyStep ==
    ASSUME NEW s, RevokeStep(s)
    PROVE  KeyStep(s)
  BY DEF RevokeStep, KeyMoves, KeyStep, Kept, Spent

LEMMA OthersTold ==
    ASSUME AccessInv, RevokeInv, NEW s \in Procs, WriteStep(s), KeyStep(s),
           NEW t \in Procs, t # s
    PROVE  HoldsAudiences(t)' /\ Told(t)'
  <1>1. /\ call'[t] = call[t] /\ call[t] \in CallRecords
        /\ HoldsAudiences(t) /\ Told(t)
    BY CallTyped DEF WriteStep, CallStep, RevokeInv, AccessInv
  <1>2. HoldsAudiences(t)'
    <2>1. ASSUME NEW k, Audience(t, k) PROVE Audience(t, k)'
      BY <2>1, HasElsewhere DEF Audience, Has, WriteStep, AccessInv
    <2>2. QED
      BY <1>1, <2>1 DEF HoldsAudiences
  <1>3. ASSUME NEW k \in call[t].keys, call[t].pc \in HasKeys
        PROVE  k \in Keys /\ Spent(k)
    <2>1. Audience(t, k) /\ k \in Keys
      BY <1>1, <1>3 DEF HoldsAudiences, CallRecords
    <2>2. QED
      BY <2>1 DEF KeyStep, Alone
  <1>4. ASSUME call[t].pc \in Letting, NEW k \in call[t].keys, NEW b \in Buckets
        PROVE  Published(k, b)'
    BY <1>1, <1>3, <1>4 DEF Told, Spent, Published, Letting, HasKeys
  <1>5. ASSUME At(t, "commit"), NEW k \in call[t].keys \cap call[t].fresh
        PROVE  /\ held'[k][bucketOf(t)] # {} => <<k, bucketOf(t)>> \in revoked'
               /\ k \in returned' => k \in keyRow'
    <2>1. bucketOf(t) \in Buckets
      BY <1>5, CallTyped DEF AccessInv, Aimed, OfBucket, At, bucketOf
    <2>2. Spent(k)
      BY <1>3, <1>5 DEF At, HasKeys
    <2>3. QED
      BY <1>1, <1>5, <2>1, <2>2 DEF Told, Spent, Published
  <1>6. Told(t)'
    BY <1>1, <1>4, <1>5 DEF Told, Published, At, bucketOf
  <1>7. QED
    BY <1>1, <1>2, <1>6

LEMMA RevokeStepKeeps ==
    ASSUME AccessInv, RevokeInv, NEW s \in Procs, WriteStep(s), KeyStep(s)
    PROVE  RevokeInv'
  BY OthersTold DEF RevokeInv, KeyStep

-----------------------------------------------------------------------------
(***************************************************************************)
(* A step of s and its own part.                                           *)
(***************************************************************************)
Hush == UNCHANGED <<keyRow, held, returned>> /\ revoked \subseteq revoked'

LEMMA HushMoves ==
    ASSUME RevokeInv, NEW s, Hush
    PROVE  KeyMoves(s)
  <1>1. \A k \in Keys : Kept(k)
    BY DEF Hush, Kept
  <1>2. GoneHoldNothing'
    BY DEF Hush, RevokeInv, GoneHoldNothing, Holds
  <1>3. QED
    BY <1>1, <1>2 DEF Hush, KeyMoves, Revealed

\* A handler that holds no list of keys, or has done with it.
Idly(s) == /\ call'[s].pc \notin Deletes
           /\ call'[s].pc \in LocksKeys \cup HasKeys => call'[s].keys = {}

LEMMA IdlyRevokes ==
    ASSUME NEW s, KeyMoves(s), Idly(s)
    PROVE  RevokeStep(s)
  <1>1. HoldsAudiences(s)'
    BY DEF Idly, HoldsAudiences
  <1>2. Told(s)'
    BY DEF Idly, Told, At, Letting, HasKeys
  <1>3. QED
    BY <1>1, <1>2 DEF Idly, RevokeStep

LEMMA EndIdly ==
    ASSUME NEW s, NEW res, call'[s] = Idle(res)
    PROVE  Idly(s)
  <1>1. call'[s].pc = "idle"
    BY DEF Idle
  <1>2. QED
    BY <1>1 DEF Idly, Deletes, LocksKeys, HasKeys

LEMMA FailRevokes ==
    ASSUME TypeOK, RevokeInv, NEW s \in Procs, NEW err, Fail(s, err), Hush
    PROVE  RevokeStep(s)
  <1>1. call'[s] = Idle(Outcome(s, err)) \/ call'[s].pc = "rbGrants"
    BY FailSets
  <1>2. Idly(s)
    BY <1>1, EndIdly DEF Idly, Deletes, LocksKeys, HasKeys
  <1>3. QED
    BY <1>2, HushMoves, IdlyRevokes

\* Holding a key's delegation lock, or able to take it, nobody else has it.
LEMMA AudienceAlone ==
    ASSUME AccessInv, NEW s, NEW k,
           Audience(s, k) \/ CanLock(locks, s, <<"audience", k>>, "exclusive")
    PROVE  Alone(s, k)
  <1>1. SUFFICES ASSUME NEW t \in Procs, t # s, Audience(t, k) PROVE FALSE
    BY DEF Alone
  <1>2. CASE Audience(s, k)
    BY <1>1, <1>2, HasExcludes, ExclusivePairs DEF Audience
  <1>3. CASE CanLock(locks, s, <<"audience", k>>, "exclusive")
    BY <1>1, <1>3, CanLockHas, ExclusivePairs DEF Audience
  <1>4. QED
    BY <1>2, <1>3

\* Locking the listed keys one by one, and then with all of them.
LEMMA AudiencesRevoke ==
    ASSUME AccessInv, RevokeInv, NEW s \in Procs, NEW here \in LocksKeys,
           NEW next \in {"rvPublish", "publish", "tombPublish", "kdPublish"},
           call[s].pc = here, LockAudiences(s, here, next)
    PROVE  RevokeStep(s)
  <1>1. PICK k \in Keys : /\ call'[s].want = call[s].want \ {k}
                          /\ call'[s].pc = IF call[s].want = {k} THEN next ELSE here
                          /\ [by |-> s, on |-> <<"audience", k>>, mode |-> "exclusive"] \in locks'
    BY AudienceSets
  <1>2. SameWork(s) /\ locks \subseteq locks' /\ UNCHANGED tables
    BY AudienceSets
  <1>3. Hush
    BY <1>2 DEF tables, Hush
  <1>4. call'[s].keys = call[s].keys /\ HoldsAudiences(s)
    BY <1>2 DEF SameWork, SameKeys, RevokeInv
  <1>5. HoldsAudiences(s)'
    <2>1. ASSUME NEW x \in call[s].keys, x = k \/ x \notin call[s].want PROVE Audience(s, x)'
      BY <1>1, <1>2, <1>4, <2>1 DEF HoldsAudiences, Audience, Has
    <2>2. here \notin HasKeys
      BY DEF LocksKeys, HasKeys
    <2>3. QED
      BY <1>1, <1>4, <2>1, <2>2 DEF HoldsAudiences
  <1>6. Told(s)' /\ call'[s].pc \notin Deletes
    BY <1>1 DEF Told, At, Letting, LocksKeys, Deletes
  <1>7. QED
    BY <1>3, <1>5, <1>6, HushMoves DEF RevokeStep

\* A batch of revocations that was published.
LEMMA PublishedAll ==
    ASSUME NEW pairs, UNCHANGED held, revoked' = revoked \cup Holding(pairs)
    PROVE  \A x \in pairs : held'[x[1]][x[2]] # {} => x \in revoked'
  BY DEF Holding

-----------------------------------------------------------------------------
(***************************************************************************)
(* The policy service and the rotator.                                     *)
(***************************************************************************)
LEMMA LoadRevokes ==
    ASSUME AccessInv, RevokeInv, NEW s \in Procs, Load(s)
    PROVE  RevokeStep(s)
  <1>. DEFINE ks == KeysOf(call[s].aff)
              l == IF ks = {} THEN "commit" ELSE "lockK"
  <1>1. /\ call' = [call EXCEPT ![s].keys = ks, ![s].want = ks, ![s].pc = l]
        /\ Hush
    BY DEF Load, tables, Hush
  <1>2. l \in {"commit", "lockK"} /\ (l = "commit" => ks = {})
    OBVIOUS
  <1>. HIDE DEF ks, l
  <1>3. call'[s].keys = ks /\ call'[s].want = ks /\ call'[s].pc = l
    BY <1>1, SetKeys DEF AccessInv
  <1>4. HoldsAudiences(s)' /\ Told(s)' /\ call'[s].pc \notin Deletes
    BY <1>2, <1>3 DEF HoldsAudiences, Told, At, Letting, LocksKeys, HasKeys, Deletes
  <1>5. QED
    BY <1>1, <1>4, HushMoves DEF RevokeStep

LEMMA RotateRevokes ==
    ASSUME AccessInv, RevokeInv, NEW s \in Procs, Rotate(s)
    PROVE  RevokeStep(s)
  <1>. DEFINE ks == call[s].keys \cap keyRow
              pairs == ks \X {bucketOf(s)}
  <1>1. /\ call[s].pc = "publish" /\ UNCHANGED <<keyRow, held, returned>>
        /\ \/ /\ call' = [call EXCEPT ![s].fresh = ks, ![s].pc = "commit"]
              /\ UNCHANGED locks
              /\ revoked' = revoked \cup Holding(pairs)
           \/ Fail(s, "error") /\ revoked' \in {revoked, revoked \cup Holding(pairs)}
    BY DEF Rotate, PublishRevocations, At
  <1>2. Hush
    BY <1>1 DEF Hush
  <1>3. ks \subseteq keyRow /\ \A k \in ks, b \in {bucketOf(s)} : <<k, b>> \in pairs
    OBVIOUS
  <1>. HIDE DEF ks, pairs
  <1>4. CASE /\ call' = [call EXCEPT ![s].fresh = ks, ![s].pc = "commit"]
             /\ UNCHANGED locks
             /\ revoked' = revoked \cup Holding(pairs)
    <2>1. call'[s].fresh = ks /\ call'[s].pc = "commit" /\ SameCore(s) /\ SameKeys(s)
      BY <1>4, SetFresh DEF AccessInv
    <2>2. HoldsAudiences(s)'
      BY <1>1, <1>4, <2>1 DEF RevokeInv, HoldsAudiences, Audience, Has, SameKeys, HasKeys
    <2>3. ASSUME NEW k \in ks PROVE held'[k][bucketOf(s)] # {} => <<k, bucketOf(s)>> \in revoked'
      <3>. DEFINE x == <<k, bucketOf(s)>>
      <3>1. x \in pairs /\ x[1] = k /\ x[2] = bucketOf(s)
        BY <1>3, <2>3
      <3>. HIDE DEF x
      <3>2. held'[x[1]][x[2]] # {} => x \in revoked'
        BY <1>1, <1>4, <3>1, PublishedAll
      <3>3. QED
        BY <3>1, <3>2 DEF x
    <2>4. Told(s)'
      BY <1>1, <1>3, <2>1, <2>3 DEF Told, Published, At, Letting, SameCore, bucketOf
    <2>5. QED
      BY <1>2, <2>1, <2>2, <2>4, HushMoves DEF RevokeStep, Deletes
  <1>5. QED
    BY <1>1, <1>2, <1>4, FailRevokes DEF AccessInv

LEMMA CommitRevokes ==
    ASSUME AccessInv, WriteInv, GrantsInv, RevokeInv, NEW s \in Procs, Commit(s)
    PROVE  RevokeStep(s)
  <1>. DEFINE B == bucketOf(s)
  <1>c. /\ TypeOK /\ call[s] \in CallRecords /\ At(s, "commit") /\ call[s].pc = "commit"
        /\ B \in Buckets /\ held \in [Keys -> [Buckets -> SUBSET Commands]]
        /\ returned \subseteq Keys /\ Told(s) /\ HoldsAudiences(s)
    BY CallTyped DEF AccessInv, RevokeInv, TypeOK, TablesOK, Commit, At, Aimed, OfBucket, bucketOf
  <1>1. /\ \A k \in Keys, b \in Buckets : held'[k][b] =
              IF k \in call[s].keys /\ b = B THEN Rotated(s, k) ELSE held[k][b]
        /\ revoked' = revoked \ (call[s].keys \X {B})
        /\ UNCHANGED <<keyRow, returned>>
    BY <1>c DEF Commit
  <1>. HIDE DEF B
  <1>2. ASSUME NEW k \in call[s].keys, k \in returned
        PROVE  k \in keyRow <=> k \in call[s].fresh
    <2>1. ~Strips(s)
      BY <1>c, <1>2 DEF WriteInv, Writes, ByKind
    <2>2. Minds(s)
      BY DEF GrantsInv
    <2>3. MindsFresh(s)
      BY <1>c, <2>1, <2>2 DEF Minds, Minding
    <2>4. QED
      BY <1>c, <1>2, <2>3 DEF MindsFresh, Told
  <1>3. Revealed
    <2>1. SUFFICES ASSUME NEW k \in returned, NEW b \in Buckets, held[k][b] # {},
                          held'[k][b] # held[k][b]
                   PROVE  <<k, b>> \in revoked
      BY DEF Revealed
    <2>2. k \in Keys /\ k \in call[s].keys /\ b = B
      BY <1>c, <1>1, <2>1
    <2>3. k \in keyRow
      BY <2>1 DEF RevokeInv, GoneHoldNothing, Holds
    <2>4. QED
      BY <1>c, <1>2, <2>1, <2>2, <2>3 DEF Told, Published, B
  <1>4. GoneHoldNothing'
    <2>1. SUFFICES ASSUME NEW k \in returned, k \notin keyRow, NEW b \in Buckets
                   PROVE  held'[k][b] = {}
      BY <1>1 DEF GoneHoldNothing, Holds
    <2>2. held[k][b] = {} /\ k \in Keys
      BY <1>c, <2>1 DEF RevokeInv, GoneHoldNothing, Holds
    <2>3. k \in call[s].keys => Rotated(s, k) = {}
      BY <1>2, <2>1 DEF Rotated
    <2>4. QED
      BY <1>1, <2>2, <2>3
  <1>5. ASSUME NEW k \in Keys PROVE Alone(s, k) \/ Kept(k)
    <2>1. CASE k \in call[s].keys
      <3>1. Audience(s, k)
        BY <1>c, <2>1 DEF HoldsAudiences, HasKeys
      <3>2. QED
        BY <3>1, AudienceAlone
    <2>2. CASE k \notin call[s].keys
      BY <1>1, <2>2 DEF Kept
    <2>3. QED
      BY <2>1, <2>2
  <1>6. KeyMoves(s)
    BY <1>3, <1>4, <1>5 DEF KeyMoves
  <1>7. Idly(s)
    <2>1. CASE Goto(s, "strip")
      BY <1>c, <2>1, GotoSets DEF Idly, Deletes, LocksKeys, HasKeys
    <2>2. CASE Finish(s, "answered")
      BY <1>c, <2>2, FinishSets, EndIdly
    <2>3. QED
      BY <2>1, <2>2 DEF Commit
  <1>8. QED
    BY <1>6, <1>7, IdlyRevokes

LEMMA PolicyRevokes ==
    ASSUME AccessInv, WriteInv, GrantsInv, RevokeInv, NEW s \in Procs, PolicyStep(s)
    PROVE  RevokeStep(s)
  <1>. USE DEF At, Deletes, LocksKeys, HasKeys
  <1>c. TypeOK /\ Writes(s)
    BY DEF AccessInv, WriteInv
  <1>q. ASSUME Hush, Idly(s) PROVE RevokeStep(s)
    BY <1>q, HushMoves, IdlyRevokes
  <1>f. ASSUME Hush, NEW err, Fail(s, err) PROVE RevokeStep(s)
    BY <1>c, <1>f, FailRevokes
  <1>g. ASSUME NEW l, Goto(s, l), l \notin Deletes, l \notin LocksKeys, l \notin HasKeys
        PROVE  Idly(s)
    BY <1>c, <1>g, GotoSets DEF Idly
  <1>e. ASSUME NEW res, Finish(s, res) PROVE Idly(s)
    BY <1>c, <1>e, FinishSets, EndIdly
  <1>1. CASE BeginWrite(s)
    <2>1. PICK b \in buckets, d \in Docs, m \in Conds :
            \/ call' = [call EXCEPT ![s] = [Idle("answered") EXCEPT
                            !.pc = "tenant", !.kind = "writePolicy",
                            !.bucket = b, !.doc = d, !.match = m]]
            \/ Finish(s, "answered")
      BY <1>1 DEF BeginWrite
    <2>. DEFINE c == [Idle("answered") EXCEPT !.pc = "tenant", !.kind = "writePolicy",
                        !.bucket = b, !.doc = d, !.match = m]
    <2>2. c.pc = "tenant"
      BY DEF Idle
    <2>3. call' = [call EXCEPT ![s] = c] \/ Finish(s, "answered")
      BY <2>1
    <2>. HIDE DEF c
    <2>4. Idly(s)
      BY <1>c, <1>e, <2>2, <2>3, SetMoves DEF Idly
    <2>5. QED
      BY <1>1, <1>q, <2>4 DEF BeginWrite, tables, Hush
  <1>2. CASE BeginRemove(s)
    <2>1. PICK b \in buckets, m \in Conds :
            call' = [call EXCEPT ![s] = [Idle("answered") EXCEPT
                       !.pc = "bucket", !.kind = "removePolicy",
                       !.bucket = b, !.doc = NoPolicy, !.match = m]]
      BY <1>2 DEF BeginRemove
    <2>. DEFINE c == [Idle("answered") EXCEPT !.pc = "bucket", !.kind = "removePolicy",
                        !.bucket = b, !.doc = NoPolicy, !.match = m]
    <2>2. c.pc = "bucket"
      BY DEF Idle
    <2>3. call' = [call EXCEPT ![s] = c]
      BY <2>1
    <2>. HIDE DEF c
    <2>4. Idly(s)
      BY <1>c, <2>2, <2>3, SetMoves DEF Idly
    <2>5. QED
      BY <1>2, <1>q, <2>4 DEF BeginRemove, tables, Hush
  <1>3. CASE TakeTenant(s)
    <2>. DEFINE W == Named(docOf(s))
                l == IF W = {} THEN "bucket" ELSE "named"
    <2>1. call' = [call EXCEPT ![s].want = W, ![s].pc = l]
      BY <1>3 DEF TakeTenant
    <2>2. l \in {"bucket", "named"}
      OBVIOUS
    <2>. HIDE DEF W, l
    <2>3. Idly(s)
      BY <1>c, <2>1, <2>2, SetWant DEF Idly
    <2>4. QED
      BY <1>3, <1>q, <2>3 DEF TakeTenant, tables, Hush
  <1>4. CASE RequireLive(s)
    <2>1. PICK p \in call[s].want :
            \/ Fail(s, "invalid")
            \/ call' = Looped(s, p, "named", "bucket")
      BY <1>4 DEF RequireLive
    <2>2. Hush
      BY <1>4 DEF RequireLive, tables, Hush
    <2>3. CASE call' = Looped(s, p, "named", "bucket")
      <3>1. call'[s].pc \in {"named", "bucket"}
        BY <1>c, <2>3, LoopedSets
      <3>2. QED
        BY <1>q, <2>2, <3>1 DEF Idly
    <2>4. QED
      BY <1>f, <2>1, <2>2, <2>3
  <1>5. CASE TakeBucket(s)
    <2>1. call'[s].pc \in {"row", "bucketRow"}
      BY <1>5, <1>c, GotoSets DEF TakeBucket
    <2>2. QED
      BY <1>5, <1>q, <2>1 DEF Idly, TakeBucket, tables, Hush
  <1>6. CASE TakeBucketRow(s)
    <2>1. Hush /\ (Fail(s, "notfound") \/ Goto(s, "row"))
      BY <1>6 DEF TakeBucketRow, tables, Hush
    <2>2. QED
      BY <1>f, <1>g, <1>q, <2>1
  <1>7. CASE LockRow(s)
    <2>. DEFINE old == policy[bucketOf(s)]
                l == IF call[s].kind = "removePrincipal" THEN "commit" ELSE "relist"
                err == Refusal(s, old)
    <2>1. Hush
      BY <1>7 DEF LockRow, tables, Hush
    <2>2. \/ Goto(s, "strip")
          \/ Fail(s, err)
          \/ call' = [call EXCEPT ![s].old = old, ![s].pc = l]
      BY <1>7 DEF LockRow
    <2>3. l \in {"commit", "relist"} /\ call[s].keys = {}
      BY <1>7, <1>c DEF LockRow, Writes, ByKind, Preparing
    <2>. HIDE DEF old, l, err
    <2>4. CASE call' = [call EXCEPT ![s].old = old, ![s].pc = l]
      <3>1. SameKeys(s) /\ call'[s].pc = l
        BY <1>c, <2>4, SetOld
      <3>2. QED
        BY <1>q, <2>1, <2>3, <3>1 DEF Idly, SameKeys
    <2>5. QED
      BY <1>f, <1>g, <1>q, <2>1, <2>2, <2>4
  <1>8. CASE Relist(s)
    <2>. DEFINE aff == Changed(call[s].old, docOf(s), ListIDsByTenant)
                l == IF aff = {} THEN "commit" ELSE "lockP"
    <2>1. /\ Hush
          /\ \/ Fail(s, "invalid")
             \/ call' = [call EXCEPT ![s].aff = aff, ![s].want = aff, ![s].pc = l]
      BY <1>8 DEF Relist, tables, Hush
    <2>2. l \in {"commit", "lockP"} /\ call[s].keys = {}
      BY <1>8, <1>c DEF Relist, Writes, ByKind
    <2>. HIDE DEF aff, l
    <2>3. CASE call' = [call EXCEPT ![s].aff = aff, ![s].want = aff, ![s].pc = l]
      <3>1. SameKeys(s) /\ call'[s].pc = l
        BY <1>c, <2>3, SetAff
      <3>2. QED
        BY <1>q, <2>1, <2>2, <3>1 DEF Idly, SameKeys
    <2>4. QED
      BY <1>f, <2>1, <2>3
  <1>9. CASE LockPrincipals(s)
    <2>1. PICK p \in Principals : call' = Looped(s, p, "lockP", "load")
      BY <1>9 DEF LockPrincipals
    <2>2. call'[s].pc \in {"lockP", "load"}
      BY <1>c, <2>1, LoopedSets
    <2>3. QED
      BY <1>9, <1>q, <2>2 DEF Idly, LockPrincipals, tables, Hush
  <1>10. CASE LockRotated(s)
    <2>1. LockAudiences(s, "lockK", "publish") /\ call[s].pc = "lockK"
      BY <1>10 DEF LockRotated, LockAudiences
    <2>2. QED
      BY <2>1, AudiencesRevoke
  <1>11. QED
    BY <1>1, <1>2, <1>3, <1>4, <1>5, <1>6, <1>7, <1>8, <1>9, <1>10, LoadRevokes, RotateRevokes,
       CommitRevokes
       DEF PolicyStep

-----------------------------------------------------------------------------
(***************************************************************************)
(* The principal service and the access key service.                       *)
(***************************************************************************)
\* Everything the listed keys hold is published, with their locks held.
LEMMA PublishRevokes ==
    ASSUME AccessInv, RevokeInv, NEW s \in Procs,
           call[s].pc \in {"rvPublish", "tombPublish", "kdPublish"},
           call'[s].pc \in {"rvCommit", "tombSecrets", "kdCommit"}, SameKeys(s),
           locks \subseteq locks', UNCHANGED <<keyRow, held, returned>>,
           revoked' = revoked \cup Holding(call[s].keys \X Buckets)
    PROVE  RevokeStep(s)
  <1>1. Hush
    BY DEF Hush
  <1>2. HoldsAudiences(s)'
    BY DEF RevokeInv, HoldsAudiences, Audience, Has, SameKeys, HasKeys
  <1>3. ASSUME NEW k \in call[s].keys, NEW b \in Buckets PROVE Published(k, b)'
    <2>. DEFINE x == <<k, b>>
                pairs == call[s].keys \X Buckets
    <2>1. x \in pairs /\ x[1] = k /\ x[2] = b
      OBVIOUS
    <2>2. revoked' = revoked \cup Holding(pairs)
      OBVIOUS
    <2>. HIDE DEF x, pairs
    <2>3. held'[x[1]][x[2]] # {} => x \in revoked'
      BY <2>1, <2>2, PublishedAll
    <2>4. QED
      BY <2>1, <2>3 DEF Published, x
  <1>4. Told(s)' /\ call'[s].pc \notin Deletes
    BY <1>3 DEF Told, At, SameKeys, Deletes
  <1>5. QED
    BY <1>1, <1>2, <1>4, HushMoves DEF RevokeStep

\* Keys that s has locked, or that nobody was given, let go of what they hold, with
\* their rows or without.
LEMMA LettingMoves ==
    ASSUME AccessInv, RevokeInv, NEW s, NEW ks,
           \A k \in ks : /\ Audience(s, k) \/ CanLock(locks, s, <<"audience", k>>, "exclusive")
                         /\ k \in returned => \A b \in Buckets : Published(k, b),
           held' = [k \in Keys |-> IF k \in ks THEN [b \in Buckets |-> {}] ELSE held[k]],
           revoked' = revoked \ (ks \X Buckets),
           keyRow' \in {keyRow, keyRow \ ks}, returned' = returned
    PROVE  KeyMoves(s)
  <1>c. returned \subseteq Keys
    BY DEF AccessInv, TypeOK, TablesOK
  <1>1. Revealed
    BY <1>c DEF Revealed, Published
  <1>2. GoneHoldNothing'
    <2>1. SUFFICES ASSUME NEW k \in returned, k \notin keyRow', NEW b \in Buckets
                   PROVE  held'[k][b] = {}
      BY DEF GoneHoldNothing, Holds
    <2>2. QED
      BY <1>c, <2>1 DEF RevokeInv, GoneHoldNothing, Holds
  <1>3. ASSUME NEW k \in Keys PROVE Alone(s, k) \/ Kept(k)
    <2>1. CASE k \in ks
      BY <2>1, AudienceAlone
    <2>2. CASE k \notin ks
      BY <2>2 DEF Kept
    <2>3. QED
      BY <2>1, <2>2
  <1>4. QED
    BY <1>1, <1>2, <1>3 DEF KeyMoves

LEMMA PrincipalRevokes ==
    ASSUME AccessInv, WriteInv, GrantsInv, RevokeInv, NEW s \in Procs, PrincipalStep(s)
    PROVE  RevokeStep(s)
  <1>. USE DEF At, Deletes, LocksKeys, HasKeys
  <1>c. TypeOK /\ HoldsAudiences(s) /\ Told(s)
    BY DEF AccessInv, RevokeInv
  <1>q. ASSUME Hush, Idly(s) PROVE RevokeStep(s)
    BY <1>q, HushMoves, IdlyRevokes
  <1>f. ASSUME Hush, NEW err, Fail(s, err) PROVE RevokeStep(s)
    BY <1>c, <1>f, FailRevokes
  <1>g. ASSUME NEW l, Goto(s, l), l \notin Deletes, l \notin LocksKeys, l \notin HasKeys
        PROVE  Idly(s)
    BY <1>c, <1>g, GotoSets DEF Idly
  <1>e. ASSUME NEW res, Finish(s, res) PROVE Idly(s)
    BY <1>c, <1>e, FinishSets, EndIdly
  <1>1. CASE BeginCreatePrincipal(s)
    <2>1. PICK p \in Principals :
            call' = [call EXCEPT ![s] = [Idle("answered") EXCEPT !.pc = "addTenant",
                        !.kind = "createPrincipal", !.principal = p]]
      BY <1>1 DEF BeginCreatePrincipal
    <2>. DEFINE c == [Idle("answered") EXCEPT !.pc = "addTenant",
                        !.kind = "createPrincipal", !.principal = p]
    <2>2. c.pc = "addTenant"
      BY DEF Idle
    <2>3. call' = [call EXCEPT ![s] = c]
      BY <2>1
    <2>. HIDE DEF c
    <2>4. Idly(s)
      BY <1>c, <2>2, <2>3, SetMoves DEF Idly
    <2>5. QED
      BY <1>1, <1>q, <2>4 DEF BeginCreatePrincipal, tables, Hush
  <1>2. CASE AddTenant(s)
    <2>1. Goto(s, "addRow") /\ Hush
      BY <1>2 DEF AddTenant, tables, Hush
    <2>2. QED
      BY <1>g, <1>q, <2>1
  <1>3. CASE AddRow(s)
    <2>1. Goto(s, "addGet") /\ Hush
      BY <1>3 DEF AddRow, Hush
    <2>2. QED
      BY <1>g, <1>q, <2>1
  <1>4. CASE AddGet(s)
    <2>1. Finish(s, "answered") /\ Hush
      BY <1>4 DEF AddGet, tables, Hush
    <2>2. QED
      BY <1>e, <1>q, <2>1
  <1>5. CASE BeginDeletePrincipal(s)
    <2>1. PICK p \in Principals :
            call' = [call EXCEPT ![s] = [Idle("answered") EXCEPT !.pc = "rvLoad",
                        !.kind = "removePrincipal", !.principal = p]]
      BY <1>5 DEF BeginDeletePrincipal
    <2>. DEFINE c == [Idle("answered") EXCEPT !.pc = "rvLoad",
                        !.kind = "removePrincipal", !.principal = p]
    <2>2. c.pc = "rvLoad"
      BY DEF Idle
    <2>3. call' = [call EXCEPT ![s] = c]
      BY <2>1
    <2>. HIDE DEF c
    <2>4. Idly(s)
      BY <1>c, <2>2, <2>3, SetMoves DEF Idly
    <2>5. QED
      BY <1>5, <1>q, <2>4 DEF BeginDeletePrincipal, tables, Hush
  <1>6. ASSUME NEW here \in {"rvLock", "tombLock"}, NEW none \in {"stripList", "tombCommit"},
               LET ks == KeysOf({principalOf(s)})
               IN  call' = [call EXCEPT ![s].keys = ks, ![s].want = ks,
                                        ![s].pc = IF ks = {} THEN none ELSE here],
               Hush
        PROVE  RevokeStep(s)
    <2>. DEFINE ks == KeysOf({principalOf(s)})
                l == IF ks = {} THEN none ELSE here
    <2>1. call' = [call EXCEPT ![s].keys = ks, ![s].want = ks, ![s].pc = l]
      BY <1>6
    <2>2. l = here \/ (l = none /\ ks = {})
      OBVIOUS
    <2>. HIDE DEF ks, l
    <2>3. call'[s].keys = ks /\ call'[s].want = ks /\ call'[s].pc = l
      BY <1>c, <2>1, SetKeys
    <2>4. HoldsAudiences(s)' /\ Told(s)' /\ call'[s].pc \notin Deletes
      BY <1>6, <2>2, <2>3 DEF HoldsAudiences, Told, Letting
    <2>5. QED
      BY <1>6, <2>4, HushMoves DEF RevokeStep
  <1>7. CASE RevokeLoad(s)
    BY <1>6, <1>7 DEF RevokeLoad, tables, Hush
  <1>8. CASE RevokeLock(s)
    <2>1. LockAudiences(s, "rvLock", "rvPublish") /\ call[s].pc = "rvLock"
      BY <1>8 DEF RevokeLock, LockAudiences
    <2>2. QED
      BY <2>1, AudiencesRevoke
  <1>9. CASE RevokePublish(s)
    <2>1. CASE /\ Goto(s, "rvCommit") /\ UNCHANGED <<locks, keyRow, held, returned>>
               /\ revoked' = revoked \cup Holding(call[s].keys \X Buckets)
      BY <1>9, <1>c, <2>1, GotoSets, PublishRevokes DEF RevokePublish, SameWork
    <2>2. CASE Hush /\ Fail(s, "error")
      BY <1>f, <2>2
    <2>3. QED
      BY <1>9, <2>1, <2>2 DEF RevokePublish, PublishRevocations, Hush
  <1>10. CASE RevokeCommit(s)
    <2>. DEFINE ks == call[s].keys
    <2>1. /\ held' = [k \in Keys |-> IF k \in ks THEN [b \in Buckets |-> {}] ELSE held[k]]
          /\ revoked' = revoked \ (ks \X Buckets)
          /\ UNCHANGED <<keyRow, returned>> /\ call[s].pc = "rvCommit"
      BY <1>10 DEF RevokeCommit
    <2>2. \A k \in ks : Audience(s, k) /\ \A b \in Buckets : Published(k, b)
      BY <1>c, <2>1 DEF HoldsAudiences, Told, Letting
    <2>3. call' = [call EXCEPT ![s].keys = {}, ![s].pc = "stripList"]
      BY <1>10 DEF RevokeCommit
    <2>. HIDE DEF ks
    <2>4. KeyMoves(s)
      BY <2>1, <2>2, LettingMoves
    <2>5. call'[s].pc = "stripList"
      BY <1>c, <2>3, SetKeysOnly
    <2>6. QED
      BY <2>4, <2>5, IdlyRevokes DEF Idly
  <1>11. CASE StripList(s)
    <2>. DEFINE bs == ListByPrincipal(principalOf(s))
    <2>1. call' = [call EXCEPT ![s].todo = bs, ![s].snap = policy, ![s].pc = "strip"] /\ Hush
      BY <1>11 DEF StripList, tables, Hush
    <2>. HIDE DEF bs
    <2>2. call'[s].pc = "strip"
      BY <1>c, <2>1, SetListed
    <2>3. QED
      BY <1>q, <2>1, <2>2 DEF Idly
  <1>12. CASE StripPolicy(s)
    <2>1. PICK b \in call[s].todo :
            LET old == call[s].snap[b]
                new == RemovePrincipal(old, principalOf(s))
            IN  call' = [call EXCEPT ![s].todo = @ \ {b}, ![s].bucket = b, ![s].doc = new,
                                     ![s].match = IfMatch(ETag(old)),
                                     ![s].pc = StripWrite(s, old, new)]
      BY <1>12 DEF StripPolicy
    <2>. DEFINE old == call[s].snap[b]
                new == RemovePrincipal(old, principalOf(s))
                l == StripWrite(s, old, new)
                m == IfMatch(ETag(old))
                t == call[s].todo \ {b}
    <2>. DEFINE c == [call[s] EXCEPT !.todo = t, !.bucket = b, !.doc = new, !.match = m, !.pc = l]
    <2>2. call' = [call EXCEPT ![s] = c]
      BY <2>1
    <2>3. l \in {"strip", "tenant", "bucket"}
      BY DEF StripWrite
    <2>. HIDE DEF t, l, new, m, old
    <2>4. c.pc = l
      BY <1>c, CallTyped DEF CallRecords
    <2>. HIDE DEF c
    <2>5. Idly(s)
      BY <1>c, <2>2, <2>3, <2>4, SetMoves DEF Idly
    <2>6. QED
      BY <1>12, <1>q, <2>5 DEF StripPolicy, tables, Hush
  <1>13. CASE StripDone(s)
    <2>1. Goto(s, "tomb") /\ Hush
      BY <1>13 DEF StripDone, tables, Hush
    <2>2. QED
      BY <1>g, <1>q, <2>1
  <1>14. CASE Tombstone(s)
    <2>1. Hush /\ (Finish(s, "answered") \/ Goto(s, "tombCheck"))
      BY <1>14 DEF Tombstone, tables, Hush
    <2>2. QED
      BY <1>e, <1>g, <1>q, <2>1
  <1>15. CASE NamedAgain(s)
    <2>1. Hush /\ (Fail(s, "concurrent") \/ Goto(s, "tombKeys"))
      BY <1>15 DEF NamedAgain, tables, Hush
    <2>2. QED
      BY <1>f, <1>g, <1>q, <2>1
  <1>16. CASE RemoveLoad(s)
    BY <1>6, <1>16 DEF RemoveLoad, tables, Hush
  <1>17. CASE RemoveLock(s)
    <2>1. LockAudiences(s, "tombLock", "tombPublish") /\ call[s].pc = "tombLock"
      BY <1>17 DEF RemoveLock, LockAudiences
    <2>2. QED
      BY <2>1, AudiencesRevoke
  <1>18. CASE RemovePublish(s)
    <2>1. CASE /\ Goto(s, "tombSecrets") /\ UNCHANGED <<keyRow, held, returned>>
               /\ locks \subseteq locks'
               /\ revoked' = revoked \cup Holding(call[s].keys \X Buckets)
      BY <1>18, <1>c, <2>1, GotoSets, PublishRevokes DEF RemovePublish, SameWork
    <2>2. CASE Hush /\ Fail(s, "error")
      BY <1>f, <2>2
    <2>3. QED
      BY <1>18, <2>1, <2>2 DEF RemovePublish, PublishRevocations, Hush
  <1>19. CASE RemoveSecrets(s)
    <2>1. /\ Goto(s, "tombCommit") /\ Hush /\ UNCHANGED <<locks, revoked>>
          /\ call[s].pc = "tombSecrets"
      BY <1>19 DEF RemoveSecrets, Hush
    <2>2. call'[s].pc = "tombCommit" /\ call'[s].keys = call[s].keys
      BY <1>c, <2>1, GotoSets DEF SameWork, SameKeys
    <2>3. HoldsAudiences(s)' /\ Told(s)'
      BY <1>c, <2>1, <2>2 DEF HoldsAudiences, Told, Letting, Audience, Has, Published, Hush
    <2>4. QED
      BY <2>1, <2>2, <2>3, HushMoves DEF RevokeStep
  <1>20. CASE TombstoneCommit(s)
    <2>. DEFINE ks == call[s].keys
    <2>1. /\ held' = [k \in Keys |-> IF k \in ks THEN [b \in Buckets |-> {}] ELSE held[k]]
          /\ revoked' = revoked \ (ks \X Buckets)
          /\ keyRow' = keyRow \ ks /\ returned' = returned /\ call[s].pc = "tombCommit"
      BY <1>20 DEF TombstoneCommit, ClearGrants
    <2>2. \A k \in ks : Audience(s, k) /\ \A b \in Buckets : Published(k, b)
      BY <1>c, <2>1 DEF HoldsAudiences, Told, Letting
    <2>. HIDE DEF ks
    <2>3. KeyMoves(s)
      BY <2>1, <2>2, LettingMoves
    <2>4. Finish(s, "answered")
      BY <1>20 DEF TombstoneCommit
    <2>5. QED
      BY <1>e, <2>3, <2>4, IdlyRevokes
  <1>21. QED
    BY <1>1, <1>2, <1>3, <1>4, <1>5, <1>7, <1>8, <1>9, <1>10, <1>11, <1>12,
       <1>13, <1>14, <1>15, <1>16, <1>17, <1>18, <1>19, <1>20
       DEF PrincipalStep

\* A creation puts delegations on its key, or takes its key back: nobody was given it.
LEMMA OwnRevokes ==
    ASSUME AccessInv, GrantsInv, RevokeInv, NEW s \in Procs, call[s].pc \in Creating,
           CanLock(locks, s, <<"audience", keyOf(s)>>, "exclusive"),
           NEW g, held' = [held EXCEPT ![keyOf(s)] = g],
           UNCHANGED <<keyRow, revoked, returned>>
    PROVE  KeyMoves(s)
  <1>1. keyOf(s) \notin returned /\ Alone(s, keyOf(s))
    BY CreatesTyped, AudienceAlone
  <1>2. ASSUME NEW k \in Keys, k # keyOf(s) PROVE held'[k] = held[k]
    BY <1>2 DEF AccessInv, TypeOK, TablesOK
  <1>3. returned \subseteq Keys
    BY DEF AccessInv, TypeOK, TablesOK
  <1>4. Revealed
    BY <1>1, <1>2, <1>3 DEF Revealed
  <1>5. GoneHoldNothing'
    BY <1>1, <1>2, <1>3 DEF RevokeInv, GoneHoldNothing, Holds
  <1>6. ASSUME NEW k \in Keys PROVE Alone(s, k) \/ Kept(k)
    BY <1>1, <1>2 DEF Kept
  <1>7. QED
    BY <1>4, <1>5, <1>6 DEF KeyMoves

\* Rows come and go that nobody was given the key of; or a key with a row is given out.
LEMMA RowsRevoke ==
    ASSUME RevokeInv, NEW s, UNCHANGED <<held, revoked>>,
           \A k \in returned' : k \in returned \/ k \in keyRow',
           \A k \in returned : k \in keyRow => k \in keyRow'
    PROVE  KeyMoves(s)
  <1>1. \A k \in Keys : Kept(k)
    BY DEF Kept
  <1>2. GoneHoldNothing'
    BY DEF RevokeInv, GoneHoldNothing, Holds
  <1>3. QED
    BY <1>1, <1>2 DEF KeyMoves, Revealed

LEMMA KeyRevokes ==
    ASSUME AccessInv, WriteInv, GrantsInv, RevokeInv, NEW s \in Procs, AccessKeyStep(s)
    PROVE  RevokeStep(s)
  <1>. USE DEF At, Deletes, LocksKeys, HasKeys
  <1>c. TypeOK /\ HoldsAudiences(s) /\ Told(s)
    BY DEF AccessInv, RevokeInv
  <1>q. ASSUME Hush, Idly(s) PROVE RevokeStep(s)
    BY <1>q, HushMoves, IdlyRevokes
  <1>f. ASSUME Hush, NEW err, Fail(s, err) PROVE RevokeStep(s)
    BY <1>c, <1>f, FailRevokes
  <1>g. ASSUME NEW l, Goto(s, l), l \notin Deletes, l \notin LocksKeys, l \notin HasKeys
        PROVE  Idly(s)
    BY <1>c, <1>g, GotoSets DEF Idly
  <1>e. ASSUME NEW res, Finish(s, res) PROVE Idly(s)
    BY <1>c, <1>e, FinishSets, EndIdly
  <1>k. call[s].pc \in Creating => keyOf(s) \in Keys /\ keyOf(s) \notin returned
    BY CreatesTyped
  <1>1. CASE BeginCreateKey(s)
    <2>1. PICK p \in Principals :
            call' = [call EXCEPT ![s] = [Idle("answered") EXCEPT !.pc = "ckPrincipal",
                        !.kind = "createKey", !.principal = p]]
      BY <1>1 DEF BeginCreateKey
    <2>. DEFINE c == [Idle("answered") EXCEPT !.pc = "ckPrincipal",
                        !.kind = "createKey", !.principal = p]
    <2>2. c.pc = "ckPrincipal"
      BY DEF Idle
    <2>3. call' = [call EXCEPT ![s] = c]
      BY <2>1
    <2>. HIDE DEF c
    <2>4. Idly(s)
      BY <1>c, <2>2, <2>3, SetMoves DEF Idly
    <2>5. QED
      BY <1>1, <1>q, <2>4 DEF BeginCreateKey, tables, Hush
  <1>2. CASE FindPrincipal(s)
    <2>1. Hush /\ (Goto(s, "ckSecret") \/ Finish(s, "answered"))
      BY <1>2 DEF FindPrincipal, tables, Hush
    <2>2. QED
      BY <1>e, <1>g, <1>q, <2>1
  <1>3. CASE WriteSecret(s)
    <2>1. PICK k \in Keys : call' = [call EXCEPT ![s].key = k, ![s].pc = "ckAdd"]
      BY <1>3 DEF WriteSecret
    <2>2. call'[s].pc = "ckAdd"
      BY <1>c, <2>1, SetKey
    <2>3. QED
      BY <1>3, <1>q, <2>2 DEF Idly, WriteSecret, Hush
  <1>4. CASE AddKey(s)
    <2>1. CASE keyRow' = keyRow \cup {keyOf(s)} /\ Goto(s, "ckSnap")
      <3>1. UNCHANGED <<held, revoked, returned>>
        BY <1>4 DEF AddKey
      <3>2. KeyMoves(s)
        BY <2>1, <3>1, RowsRevoke
      <3>3. QED
        BY <1>g, <2>1, <3>2, IdlyRevokes
    <2>2. CASE Fail(s, "invalid") /\ UNCHANGED keyRow
      BY <1>4, <1>f, <2>2 DEF AddKey, Hush
    <2>3. QED
      BY <1>4, <2>1, <2>2 DEF AddKey
  <1>5. CASE ListSnapshot(s)
    <2>. DEFINE bs == ListByPrincipal(principalOf(s))
                l == IF bs = {} THEN AfterListing(s, NoDocs) ELSE "ckRows"
    <2>1. call' = [call EXCEPT ![s].want = bs, ![s].pc = l] /\ Hush
      BY <1>5 DEF ListSnapshot, tables, Hush
    <2>2. l \in {"ckStore", "ckGet", "ckRows"}
      BY DEF AfterListing
    <2>. HIDE DEF bs, l
    <2>3. call'[s].pc = l
      BY <1>c, <2>1, SetWant
    <2>4. QED
      BY <1>q, <2>1, <2>2, <2>3 DEF Idly
  <1>6. CASE ListRows(s)
    <2>1. PICK b \in Buckets :
            LET docs == [call[s].snap EXCEPT ![b] = policy[b]]
                last == call[s].want = {b}
            IN  call' = [call EXCEPT ![s].want = @ \ {b}, ![s].snap = docs,
                            ![s].pc = IF last THEN AfterListing(s, docs) ELSE "ckRows"]
      BY <1>6 DEF ListRows
    <2>. DEFINE docs == [call[s].snap EXCEPT ![b] = policy[b]]
                w == call[s].want \ {b}
                l == IF call[s].want = {b} THEN AfterListing(s, docs) ELSE "ckRows"
    <2>2. call' = [call EXCEPT ![s].want = w, ![s].snap = docs, ![s].pc = l]
      BY <2>1
    <2>3. l \in {"ckStore", "ckGet", "ckRows"}
      BY DEF AfterListing
    <2>. HIDE DEF docs, w, l
    <2>4. call'[s].pc = l
      BY <1>c, <2>2, SetRead, ZenonT(60)
    <2>5. QED
      BY <1>6, <1>q, <2>3, <2>4 DEF Idly, ListRows, tables, Hush
  <1>7. CASE StoreGrants(s)
    <2>1. CASE held' = [held EXCEPT ![keyOf(s)] = Derived(s, call[s].snap)] /\ Goto(s, "ckGet")
      <3>. DEFINE g == Derived(s, call[s].snap)
      <3>1. /\ UNCHANGED <<keyRow, revoked, returned>> /\ call[s].pc \in Creating
            /\ CanLock(locks, s, <<"audience", keyOf(s)>>, "exclusive")
            /\ held' = [held EXCEPT ![keyOf(s)] = g]
        BY <1>7, <2>1 DEF StoreGrants, Creating
      <3>. HIDE DEF g
      <3>2. KeyMoves(s)
        BY <3>1, OwnRevokes
      <3>3. QED
        BY <1>g, <2>1, <3>2, IdlyRevokes
    <2>2. CASE Fail(s, "refused") /\ UNCHANGED held
      BY <1>7, <1>f, <2>2 DEF StoreGrants, Hush
    <2>3. QED
      BY <1>7, <2>1, <2>2 DEF StoreGrants
  <1>8. CASE ReturnKey(s)
    <2>1. CASE keyOf(s) \in keyRow /\ returned' = returned \cup {keyOf(s)} /\ Finish(s, "answered")
      <3>1. UNCHANGED <<keyRow, held, revoked>>
        BY <1>8 DEF ReturnKey
      <3>2. KeyMoves(s)
        BY <2>1, <3>1, RowsRevoke
      <3>3. QED
        BY <1>e, <2>1, <3>2, IdlyRevokes
    <2>2. CASE Fail(s, "notfound") /\ UNCHANGED returned
      BY <1>8, <1>f, <2>2 DEF ReturnKey, Hush
    <2>3. QED
      BY <1>8, <2>1, <2>2 DEF ReturnKey
  <1>9. CASE RollbackGrants(s)
    <2>. DEFINE ks == {keyOf(s)}
    <2>1. /\ held' = [k \in Keys |-> IF k \in ks THEN [b \in Buckets |-> {}] ELSE held[k]]
          /\ revoked' = revoked \ (ks \X Buckets) /\ UNCHANGED <<keyRow, returned>>
      BY <1>9 DEF RollbackGrants, ClearGrants
    <2>2. \A k \in ks : CanLock(locks, s, <<"audience", k>>, "exclusive") /\ k \notin returned
      BY <1>9, <1>k DEF RollbackGrants, Creating, Undoing
    <2>. HIDE DEF ks
    <2>3. KeyMoves(s)
      BY <2>1, <2>2, LettingMoves
    <2>4. Goto(s, "rbRow")
      BY <1>9 DEF RollbackGrants
    <2>5. QED
      BY <1>g, <2>3, <2>4, IdlyRevokes
  <1>10. CASE RollbackRow(s)
    <2>1. /\ UNCHANGED <<held, revoked, returned>> /\ keyRow' = keyRow \ {keyOf(s)}
          /\ keyOf(s) \notin returned /\ Goto(s, "rbSecret")
      BY <1>10, <1>k DEF RollbackRow, Creating, Undoing
    <2>2. KeyMoves(s)
      BY <2>1, RowsRevoke
    <2>3. QED
      BY <1>g, <2>1, <2>2, IdlyRevokes
  <1>11. CASE RollbackSecret(s)
    <2>1. Hush /\ Finish(s, call[s].res)
      BY <1>11 DEF RollbackSecret, Hush
    <2>2. QED
      BY <1>e, <1>q, <2>1
  <1>12. CASE BeginDeleteKey(s)
    <2>1. PICK k \in keyRow :
            call' = [call EXCEPT ![s] = [Idle("answered") EXCEPT !.pc = "kdLock",
                        !.kind = "deleteKey", !.key = k, !.keys = {k}, !.want = {k}]]
      BY <1>12 DEF BeginDeleteKey
    <2>. DEFINE c == [Idle("answered") EXCEPT !.pc = "kdLock",
                        !.kind = "deleteKey", !.key = k, !.keys = {k}, !.want = {k}]
    <2>2. c.pc = "kdLock" /\ c.keys = {k} /\ c.want = {k}
      BY DEF Idle
    <2>3. call' = [call EXCEPT ![s] = c]
      BY <2>1
    <2>. HIDE DEF c
    <2>4. call'[s].pc = "kdLock" /\ call'[s].keys = call'[s].want
      BY <1>c, <2>2, <2>3, SetMoves
    <2>5. HoldsAudiences(s)' /\ Told(s)' /\ call'[s].pc \notin Deletes
      BY <2>4 DEF HoldsAudiences, Told, Letting
    <2>6. Hush
      BY <1>12 DEF BeginDeleteKey, tables, Hush
    <2>7. QED
      BY <2>5, <2>6, HushMoves DEF RevokeStep
  <1>13. CASE DeleteLock(s)
    <2>1. LockAudiences(s, "kdLock", "kdPublish") /\ call[s].pc = "kdLock"
      BY <1>13 DEF DeleteLock, LockAudiences
    <2>2. QED
      BY <2>1, AudiencesRevoke
  <1>14. CASE DeletePublish(s)
    <2>1. call[s].pc = "kdPublish" /\ call[s].keys = {keyOf(s)}
      BY <1>14 DEF DeletePublish, WriteInv, Writes, ByKind, OnKey
    <2>2. CASE /\ Goto(s, "kdCommit") /\ UNCHANGED <<keyRow, held, returned>>
               /\ locks \subseteq locks'
               /\ revoked' = revoked \cup Holding(call[s].keys \X Buckets)
      BY <1>c, <2>1, <2>2, GotoSets, PublishRevokes DEF SameWork
    <2>3. CASE Hush /\ Fail(s, "error")
      BY <1>f, <2>3
    <2>4. QED
      BY <1>14, <2>1, <2>2, <2>3 DEF DeletePublish, PublishRevocations, Hush, Granted
  <1>15. CASE DeleteCommit(s)
    <2>. DEFINE ks == {keyOf(s)}
    <2>1. /\ held' = [k \in Keys |-> IF k \in ks THEN [b \in Buckets |-> {}] ELSE held[k]]
          /\ revoked' = revoked \ (ks \X Buckets)
          /\ keyRow' = keyRow \ ks /\ returned' = returned /\ call[s].pc = "kdCommit"
      BY <1>15 DEF DeleteCommit, ClearGrants
    <2>2. call[s].keys = ks
      BY <2>1 DEF WriteInv, Writes, ByKind, OnKey
    <2>3. \A k \in ks : Audience(s, k) /\ \A b \in Buckets : Published(k, b)
      BY <1>c, <2>1, <2>2 DEF HoldsAudiences, Told, Letting
    <2>. HIDE DEF ks
    <2>4. KeyMoves(s)
      BY <2>1, <2>3, LettingMoves
    <2>5. Goto(s, "kdSecret")
      BY <1>15 DEF DeleteCommit
    <2>6. QED
      BY <1>g, <2>4, <2>5, IdlyRevokes
  <1>16. CASE DeleteSecret(s)
    <2>1. Hush /\ Finish(s, "answered")
      BY <1>16 DEF DeleteSecret, Hush
    <2>2. QED
      BY <1>e, <1>q, <2>1
  <1>17. QED
    BY <1>1, <1>2, <1>3, <1>4, <1>5, <1>6, <1>7, <1>8, <1>9, <1>10, <1>11, <1>12,
       <1>13, <1>14, <1>15, <1>16
       DEF AccessKeyStep

-----------------------------------------------------------------------------
(***************************************************************************)
(* A bucket's deletion, and handlers that do none.                         *)
(***************************************************************************)
LEMMA BucketSpends ==
    ASSUME AccessInv, RevokeInv, NEW s \in Procs, BucketStep(s)
    PROVE  KeyStep(s)
  <1>c. TypeOK
    BY DEF AccessInv
  <1>q. ASSUME Hush, call'[s].pc \in Deletes \cup {"idle"} PROVE KeyStep(s)
    <2>1. HoldsAudiences(s)' /\ Told(s)'
      BY <1>q DEF HoldsAudiences, Told, At, Letting, HasKeys, LocksKeys, Deletes
    <2>2. QED
      BY <1>q, <2>1, HushMoves DEF KeyMoves, KeyStep, Kept, Spent
  <1>f. ASSUME Hush, NEW err, Fail(s, err) PROVE KeyStep(s)
    BY <1>c, <1>f, FailRevokes, RevokeStepIsKeyStep
  <1>1. CASE BeginDeleteBucket(s)
    <2>1. Hush /\ call'[s].pc = "dbLock"
      BY <1>1, <1>c DEF BeginDeleteBucket, tables, Hush, Idle, TypeOK
    <2>2. QED
      BY <1>q, <2>1 DEF Deletes
  <1>2. CASE DeleteByBucket(s)
    <2>1. Hush /\ call'[s].pc = "dbRevoke"
      BY <1>2, <1>c, GotoSets DEF DeleteByBucket, tables, Hush
    <2>2. QED
      BY <1>q, <2>1 DEF Deletes
  <1>3. CASE RevokeSubject(s)
    <2>. DEFINE pairs == Keys \X {bucketOf(s)}
    <2>1. Hush
      BY <1>3 DEF RevokeSubject, PublishRevocations, Hush
    <2>2. Goto(s, "dbAudiences") \/ Fail(s, "error")
      BY <1>3 DEF RevokeSubject, PublishRevocations
    <2>3. Goto(s, "dbAudiences") => call'[s].pc = "dbAudiences"
      BY <1>c, GotoSets
    <2>4. QED
      BY <1>q, <1>f, <2>1, <2>2, <2>3 DEF Deletes
  <1>4. CASE SubjectAudiences(s)
    <2>1. Hush /\ call'[s].pc \in {"dbDelete", "dbLockK"}
      BY <1>4, <1>c DEF SubjectAudiences, tables, Hush, TypeOK
    <2>2. QED
      BY <1>q, <2>1 DEF Deletes
  <1>5. CASE SubjectLock(s)
    <2>1. Hush /\ call'[s].pc \in {"dbDelete", "dbLockK"}
      BY <1>5, <1>c DEF SubjectLock, LockAudiences, Looped, tables, Hush, TypeOK
    <2>2. QED
      BY <1>q, <2>1 DEF Deletes
  <1>6. CASE DeleteBySubject(s)
    <2>1. Hush /\ call'[s].pc = "dbCommit"
      BY <1>6, <1>c DEF DeleteBySubject, tables, Hush, TypeOK
    <2>2. QED
      BY <1>q, <2>1 DEF Deletes
  <1>7. CASE DeleteBucketRow(s)
    <2>0. Finish(s, "answered")
      BY <1>7 DEF DeleteBucketRow
    <2>a. call'[s] = Idle("answered")
      BY <2>0, <1>c, FinishSets
    <2>1. call'[s].pc = "idle"
      BY <2>a DEF Idle
    <2>2. HoldsAudiences(s)' /\ Told(s)'
      BY <2>1 DEF HoldsAudiences, Told, At, Letting, HasKeys, LocksKeys
    <2>3. /\ held \in [Keys -> [Buckets -> SUBSET Commands]]
          /\ keyRow' = keyRow /\ returned' = returned /\ returned \subseteq Keys
          /\ revoked' = revoked \ (call[s].keys \X {bucketOf(s)})
          /\ held' = [k \in Keys |-> IF k \in call[s].keys
                                     THEN [held[k] EXCEPT ![bucketOf(s)] = {}] ELSE held[k]]
      BY <1>7, <1>c DEF DeleteBucketRow, TypeOK, TablesOK
    <2>4. ASSUME NEW k \in Keys, NEW b \in Buckets
          PROVE  \/ held'[k][b] = {}
                 \/ /\ held'[k][b] = held[k][b]
                    /\ <<k, b>> \in revoked => <<k, b>> \in revoked'
      <3>1. CASE k \in call[s].keys /\ b = bucketOf(s)
        BY <2>3, <3>1
      <3>2. CASE ~(k \in call[s].keys /\ b = bucketOf(s))
        BY <2>3, <3>2
      <3>3. QED
        BY <3>1, <3>2
    <2>5. GoneHoldNothing'
      BY <2>3, <2>4 DEF RevokeInv, GoneHoldNothing, Holds
    <2>6. \A k \in Keys : Spent(k)
      BY <2>3, <2>4 DEF Spent
    <2>7. QED
      BY <2>2, <2>5, <2>6 DEF KeyStep
  <1>8. QED
    BY <1>1, <1>2, <1>3, <1>4, <1>5, <1>6, <1>7 DEF BucketStep

NoneDeletesBuckets == \A s \in Procs : "deleteBucket" \notin Serves[s]

LEMMA BucketRevokes ==
    ASSUME NoneDeletesBuckets, NoneDeletes, NEW s \in Procs, BucketStep(s)
    PROVE  FALSE
  <1>1. call[s].pc \notin Deletes
    BY DEF NoneDeletes
  <1>2. ~BeginDeleteBucket(s)
    BY DEF BeginDeleteBucket, Begin, NoneDeletesBuckets
  <1>3. QED
    BY <1>1, <1>2 DEF BucketStep, DeleteByBucket, RevokeSubject, SubjectAudiences, SubjectLock,
                      LockAudiences, DeleteBySubject, DeleteBucketRow, At, Deletes

LEMMA FaultRevokes ==
    ASSUME AccessInv, RevokeInv, NEW s \in Procs, Fault(s)
    PROVE  RevokeStep(s)
  <1>c. TypeOK
    BY DEF AccessInv
  <1>q. ASSUME Hush, Idly(s) PROVE RevokeStep(s)
    BY <1>q, HushMoves, IdlyRevokes
  <1>1. CASE Timeout(s)
    BY <1>1, <1>c, FailRevokes DEF Timeout, tables, Hush
  <1>2. CASE Error(s)
    BY <1>2, <1>c, FailRevokes DEF Error, tables, Hush
  <1>3. CASE Crash(s)
    BY <1>3, <1>c, <1>q, FinishSets, EndIdly DEF Crash, tables, Hush
  <1>4. CASE RollbackSkip(s)
    <2>1. Hush /\ (Goto(s, "rbRow") \/ Goto(s, "rbSecret") \/ Finish(s, call[s].res))
      BY <1>4 DEF RollbackSkip, tables, Hush
    <2>2. call'[s].pc \in {"rbRow", "rbSecret"} \/ call'[s] = Idle(call[s].res)
      BY <1>c, <2>1, GotoSets, FinishSets
    <2>3. QED
      BY <1>q, <2>1, <2>2, EndIdly DEF Idly, Deletes, LocksKeys, HasKeys
  <1>5. QED
    BY <1>1, <1>2, <1>3, <1>4 DEF Fault

LEMMA InitRevokes == Init => RevokeInv
  <1>. SUFFICES ASSUME Init PROVE RevokeInv
    OBVIOUS
  <1>1. \A s \in Procs : call[s].pc = "idle"
    BY DEF Init, Idle
  <1>2. QED
    BY <1>1 DEF Init, RevokeInv, GoneHoldNothing, HoldsAudiences, Told, At, Deletes, LocksKeys,
                HasKeys, Letting

LEMMA StutterRevokes == RevokeInv /\ UNCHANGED vars => RevokeInv'
  BY DEF vars, RevokeInv, GoneHoldNothing, HoldsAudiences, Told, Published, Audience, Has, Holds,
         At, bucketOf

LEMMA NextRevokes ==
    ASSUME AccessInv, WriteInv, GrantsInv, RevokeInv, Next
    PROVE  RevokeInv'
  <1>1. PICK s \in Procs : Step(s) \/ Fault(s)
    BY DEF Next
  <1>2. KeyStep(s)
    BY <1>1, PolicyRevokes, PrincipalRevokes, KeyRevokes, FaultRevokes, BucketSpends,
       RevokeStepIsKeyStep DEF Step
  <1>3. WriteStep(s)
    BY <1>1, PolicyWrites, PrincipalWrites, KeyWrites, BucketWrites, FaultWrites DEF Step
  <1>4. QED
    BY <1>2, <1>3, RevokeStepKeeps

\* Who lets delegations of a key go has the key's delegation lock and has published
\* their revocations, and a key that was given out and deleted holds nothing, however
\* removals, rotations, rollbacks and bucket deletions interleave.
THEOREM GoneKeysHoldNothing == Spec => []RevokeInv
  <1>1. Init => RevokeInv
    BY InitRevokes
  <1>2. AccessInv /\ WriteInv /\ GrantsInv /\ RevokeInv /\ [Next]_vars => RevokeInv'
    BY NextRevokes, StutterRevokes
  <1>3. QED
    BY <1>1, <1>2, LockDiscipline, PolicyRowsAreGuarded, NoKeyIsOverlooked, PTL DEF Spec

LEMMA NextReveals ==
    ASSUME AccessInv, WriteInv, GrantsInv, RevokeInv, NoneDeletesBuckets, NoneDeletes, Next
    PROVE  NoneDeletes' /\ Revealed
  <1>1. PICK s \in Procs : Step(s) \/ Fault(s)
    BY DEF Next
  <1>2. RevokeStep(s)
    BY <1>1, PolicyRevokes, PrincipalRevokes, KeyRevokes, BucketRevokes, FaultRevokes DEF Step
  <1>3. WriteStep(s)
    BY <1>1, PolicyWrites, PrincipalWrites, KeyWrites, BucketWrites, FaultWrites DEF Step
  <1>4. QED
    BY <1>2, <1>3 DEF NoneDeletes, RevokeStep, KeyMoves, WriteStep, CallStep

\* Unless buckets are deleted, a delegation of a key in a caller's hands leaves the
\* table, by rotation, by the key's deletion or by its principal's, only after its
\* revocation was published: for any number of handlers and under every fault.
THEOREM RevokedFirst == NoneDeletesBuckets => (Spec => RevokedBeforeGone)
  <1>. SUFFICES ASSUME NoneDeletesBuckets PROVE Spec => RevokedBeforeGone
    OBVIOUS
  <1>1. Init => NoneDeletes
    BY DEF Init, Idle, NoneDeletes, Deletes
  <1>2. NoneDeletes /\ UNCHANGED vars => NoneDeletes'
    BY DEF NoneDeletes, vars
  <1>3. AccessInv /\ WriteInv /\ GrantsInv /\ RevokeInv /\ NoneDeletes /\ [Next]_vars =>
          NoneDeletes' /\ [\A k \in returned, b \in Buckets :
            held[k][b] # {} /\ held'[k][b] # held[k][b] => <<k, b>> \in revoked]_vars
    BY <1>2, NextReveals DEF Revealed
  <1>4. QED
    BY <1>1, <1>3, LockDiscipline, PolicyRowsAreGuarded, NoKeyIsOverlooked,
       GoneKeysHoldNothing, PTL DEF Spec, RevokedBeforeGone

-----------------------------------------------------------------------------
(***************************************************************************)
(* Private keys.                                                           *)
(*                                                                         *)
(* The argument: a vault entry goes when its key's row is gone, or by the  *)
(* removal that is about to commit the row's end; a creation stores the    *)
(* private key before the row, and nobody else knows of its key until      *)
(* then.  A crash, an error or a timeout may come between the two, which   *)
(* is why this holds only without them.                                    *)
(***************************************************************************)
Touchy == {"ckAdd", "rbSecret", "kdSecret"}

Secrets(s) ==
    /\ call[s].pc \in {"rbSecret", "kdSecret"} => keyOf(s) \notin keyRow
    /\ At(s, "kdSecret") => keyOf(s) \in call[s].keys
    /\ At(s, "ckAdd") => keyOf(s) \in secrets

SecretInv == RowsHaveSecrets /\ \A s \in Procs : Secrets(s)

\* What a step of s does to rows and vault entries.
SecretStep(s) ==
    /\ Secrets(s)'
    /\ \A k \in keyRow' : k \in keyRow \/ (At(s, "ckAdd") /\ k = keyOf(s) /\ k \in secrets')
    /\ \A k \in secrets \ secrets' :
          /\ k \in call[s].keys \/ Own(s, k)
          /\ k \notin keyRow' \/ (call'[s].pc = "tombCommit" /\ k \in call'[s].keys)
    /\ At(s, "tombCommit") => \A k \in call[s].keys : k \notin keyRow'

LEMMA OthersSecrets ==
    ASSUME GrantsInv, SecretInv, NEW s \in Procs, CallStep(s), SecretStep(s),
           NEW t \in Procs, t # s
    PROVE  Secrets(t)'
  <1>1. call'[t] = call[t] /\ Secrets(t) /\ Creates(s) /\ Creates(t)
    BY DEF CallStep, SecretInv, GrantsInv
  <1>2. call[s].pc \in Creating /\ call[t].pc \in Creating => keyOf(s) # keyOf(t)
    BY DEF GrantsInv, Distinct
  <1>3. ASSUME call[t].pc \in {"rbSecret", "kdSecret"} PROVE keyOf(t) \notin keyRow'
    <2>1. At(s, "ckAdd") => keyOf(s) # keyOf(t)
      BY <1>1, <1>2, <1>3 DEF Creates, Secrets, At, Creating, Undoing
    <2>2. QED
      BY <1>1, <1>3, <2>1 DEF SecretStep, Secrets
  <1>4. ASSUME At(t, "ckAdd") PROVE keyOf(t) \in secrets'
    <2>1. keyOf(t) \in secrets /\ keyOf(t) \notin call[s].keys
      BY <1>1, <1>4 DEF Secrets, Creates
    <2>2. ~Own(s, keyOf(t))
      BY <1>2, <1>4 DEF Own, At, Creating
    <2>3. QED
      BY <2>1, <2>2 DEF SecretStep
  <1>5. QED
    BY <1>1, <1>3, <1>4 DEF Secrets, At, keyOf

LEMMA SecretStepKeeps ==
    ASSUME GrantsInv, SecretInv, NEW s \in Procs, CallStep(s), SecretStep(s)
    PROVE  SecretInv'
  <1>1. ASSUME NEW k \in keyRow', k \notin secrets'
        PROVE  \E t \in Procs : call'[t].pc = "tombCommit" /\ k \in call'[t].keys
    <2>1. CASE k \in secrets
      BY <1>1, <2>1 DEF SecretStep
    <2>2. CASE k \notin secrets
      <3>1. k \in keyRow
        BY <1>1 DEF SecretStep
      <3>2. PICK t \in Procs : At(t, "tombCommit") /\ k \in call[t].keys
        BY <2>2, <3>1 DEF SecretInv, RowsHaveSecrets
      <3>3. t # s
        BY <1>1, <3>2 DEF SecretStep
      <3>4. call'[t] = call[t]
        BY <3>3 DEF CallStep
      <3>5. QED
        BY <3>2, <3>4 DEF At
    <2>3. QED
      BY <2>1, <2>2
  <1>2. RowsHaveSecrets'
    BY <1>1 DEF RowsHaveSecrets, At
  <1>3. \A t \in Procs : Secrets(t)'
    BY OthersSecrets DEF SecretStep
  <1>4. QED
    BY <1>2, <1>3 DEF SecretInv

\* Most steps leave the vault alone and add no row.
VaultRests(s) == secrets' = secrets /\ keyRow' \subseteq keyRow

LEMMA RestingStep ==
    ASSUME NEW s, VaultRests(s), call[s].pc # "tombCommit", call'[s].pc \notin Touchy
    PROVE  SecretStep(s)
  <1>1. Secrets(s)'
    BY DEF Secrets, At, Touchy
  <1>2. QED
    BY <1>1 DEF VaultRests, SecretStep, At

LEMMA EndUntouchy ==
    ASSUME NEW s, NEW res, call'[s] = Idle(res)
    PROVE  call'[s].pc \notin Touchy
  BY DEF Idle, Touchy

LEMMA FailUntouchy ==
    ASSUME TypeOK, NEW s \in Procs, NEW err, Fail(s, err)
    PROVE  call'[s].pc \notin Touchy
  <1>1. call'[s] = Idle(Outcome(s, err)) \/ call'[s].pc = "rbGrants"
    BY FailSets
  <1>2. QED
    BY <1>1, EndUntouchy DEF Touchy

LEMMA PolicySecrets ==
    ASSUME AccessInv, NEW s \in Procs, PolicyStep(s)
    PROVE  SecretStep(s)
  <1>. USE DEF At, Touchy
  <1>c. TypeOK /\ call[s].pc # "tombCommit"
    BY DEF AccessInv, PolicyStep, BeginWrite, BeginRemove, Begin, TakeTenant, RequireLive,
           TakeBucket, TakeBucketRow, LockRow, Relist, LockPrincipals, Load, LockRotated,
           LockAudiences, Rotate, Commit
  <1>q. ASSUME call'[s].pc \notin Touchy PROVE SecretStep(s)
    <2>1. VaultRests(s)
      BY DEF PolicyStep, BeginWrite, BeginRemove, TakeTenant, RequireLive,
             TakeBucket, TakeBucketRow, LockRow, Relist, LockPrincipals, Load, LockRotated,
             LockAudiences, Rotate, Commit, tables, VaultRests
    <2>2. QED
      BY <1>c, <1>q, <2>1, RestingStep
  <1>f. ASSUME NEW err, Fail(s, err) PROVE SecretStep(s)
    BY <1>c, <1>f, <1>q, FailUntouchy
  <1>g. ASSUME NEW l, Goto(s, l), l \notin Touchy PROVE SecretStep(s)
    BY <1>c, <1>g, <1>q, GotoSets
  <1>e. ASSUME NEW res, Finish(s, res) PROVE SecretStep(s)
    BY <1>c, <1>e, <1>q, FinishSets, EndUntouchy
  <1>1. CASE BeginWrite(s)
    <2>1. PICK b \in buckets, d \in Docs, m \in Conds :
            \/ call' = [call EXCEPT ![s] = [Idle("answered") EXCEPT
                            !.pc = "tenant", !.kind = "writePolicy",
                            !.bucket = b, !.doc = d, !.match = m]]
            \/ Finish(s, "answered")
      BY <1>1 DEF BeginWrite
    <2>. DEFINE c == [Idle("answered") EXCEPT !.pc = "tenant", !.kind = "writePolicy",
                        !.bucket = b, !.doc = d, !.match = m]
    <2>2. c.pc = "tenant"
      BY DEF Idle
    <2>3. call' = [call EXCEPT ![s] = c] \/ Finish(s, "answered")
      BY <2>1
    <2>. HIDE DEF c
    <2>4. QED
      BY <1>c, <1>e, <1>q, <2>2, <2>3, SetMoves
  <1>2. CASE BeginRemove(s)
    <2>1. PICK b \in buckets, m \in Conds :
            call' = [call EXCEPT ![s] = [Idle("answered") EXCEPT
                       !.pc = "bucket", !.kind = "removePolicy",
                       !.bucket = b, !.doc = NoPolicy, !.match = m]]
      BY <1>2 DEF BeginRemove
    <2>. DEFINE c == [Idle("answered") EXCEPT !.pc = "bucket", !.kind = "removePolicy",
                        !.bucket = b, !.doc = NoPolicy, !.match = m]
    <2>2. c.pc = "bucket"
      BY DEF Idle
    <2>3. call' = [call EXCEPT ![s] = c]
      BY <2>1
    <2>. HIDE DEF c
    <2>4. QED
      BY <1>c, <1>q, <2>2, <2>3, SetMoves
  <1>3. CASE TakeTenant(s)
    <2>. DEFINE W == Named(docOf(s))
                l == IF W = {} THEN "bucket" ELSE "named"
    <2>1. call' = [call EXCEPT ![s].want = W, ![s].pc = l]
      BY <1>3 DEF TakeTenant
    <2>2. l \in {"bucket", "named"}
      OBVIOUS
    <2>. HIDE DEF W, l
    <2>3. QED
      BY <1>c, <1>q, <2>1, <2>2, SetWant
  <1>4. CASE RequireLive(s)
    <2>1. PICK p \in call[s].want :
            \/ Fail(s, "invalid")
            \/ call' = Looped(s, p, "named", "bucket")
      BY <1>4 DEF RequireLive
    <2>2. call' = Looped(s, p, "named", "bucket") => call'[s].pc \in {"named", "bucket"}
      BY <1>c, LoopedSets
    <2>3. QED
      BY <1>f, <1>q, <2>1, <2>2
  <1>5. CASE TakeBucket(s)
    <2>1. call'[s].pc \in {"row", "bucketRow"}
      BY <1>5, <1>c, GotoSets DEF TakeBucket
    <2>2. QED
      BY <1>q, <2>1
  <1>6. CASE TakeBucketRow(s)
    BY <1>6, <1>f, <1>g DEF TakeBucketRow
  <1>7. CASE LockRow(s)
    <2>. DEFINE old == policy[bucketOf(s)]
                l == IF call[s].kind = "removePrincipal" THEN "commit" ELSE "relist"
                err == Refusal(s, old)
    <2>1. \/ Goto(s, "strip")
          \/ Fail(s, err)
          \/ call' = [call EXCEPT ![s].old = old, ![s].pc = l]
      BY <1>7 DEF LockRow
    <2>2. l \in {"commit", "relist"}
      OBVIOUS
    <2>. HIDE DEF old, l, err
    <2>3. call' = [call EXCEPT ![s].old = old, ![s].pc = l] => call'[s].pc = l
      BY <1>c, SetOld
    <2>4. QED
      BY <1>f, <1>g, <1>q, <2>1, <2>2, <2>3
  <1>8. CASE Relist(s)
    <2>. DEFINE aff == Changed(call[s].old, docOf(s), ListIDsByTenant)
                l == IF aff = {} THEN "commit" ELSE "lockP"
    <2>1. \/ Fail(s, "invalid")
          \/ call' = [call EXCEPT ![s].aff = aff, ![s].want = aff, ![s].pc = l]
      BY <1>8 DEF Relist
    <2>2. l \in {"commit", "lockP"}
      OBVIOUS
    <2>. HIDE DEF aff, l
    <2>3. call' = [call EXCEPT ![s].aff = aff, ![s].want = aff, ![s].pc = l] => call'[s].pc = l
      BY <1>c, SetAff
    <2>4. QED
      BY <1>f, <1>q, <2>1, <2>2, <2>3
  <1>9. CASE LockPrincipals(s)
    <2>1. PICK p \in Principals : call' = Looped(s, p, "lockP", "load")
      BY <1>9 DEF LockPrincipals
    <2>2. call'[s].pc \in {"lockP", "load"}
      BY <1>c, <2>1, LoopedSets
    <2>3. QED
      BY <1>q, <2>2
  <1>10. CASE Load(s)
    <2>. DEFINE ks == KeysOf(call[s].aff)
                l == IF ks = {} THEN "commit" ELSE "lockK"
    <2>1. call' = [call EXCEPT ![s].keys = ks, ![s].want = ks, ![s].pc = l]
      BY <1>10 DEF Load
    <2>2. l \in {"commit", "lockK"}
      OBVIOUS
    <2>. HIDE DEF ks, l
    <2>3. QED
      BY <1>c, <1>q, <2>1, <2>2, SetKeys
  <1>11. CASE LockRotated(s)
    <2>1. call'[s].pc \in {"lockK", "publish"}
      BY <1>11, AudienceSets DEF LockRotated
    <2>2. QED
      BY <1>q, <2>1
  <1>12. CASE Rotate(s)
    <2>. DEFINE ks == call[s].keys \cap keyRow
    <2>1. \/ call' = [call EXCEPT ![s].fresh = ks, ![s].pc = "commit"]
          \/ Fail(s, "error")
      BY <1>12 DEF Rotate, PublishRevocations
    <2>. HIDE DEF ks
    <2>2. call' = [call EXCEPT ![s].fresh = ks, ![s].pc = "commit"] => call'[s].pc = "commit"
      BY <1>c, SetFresh
    <2>3. QED
      BY <1>f, <1>q, <2>1, <2>2
  <1>13. CASE Commit(s)
    BY <1>13, <1>e, <1>g DEF Commit
  <1>14. QED
    BY <1>1, <1>2, <1>3, <1>4, <1>5, <1>6, <1>7, <1>8, <1>9, <1>10, <1>11, <1>12, <1>13
       DEF PolicyStep

\* Through the steps of a removal: its vault deletes and its commit are the ones to see to.
LEMMA PrincipalSecrets ==
    ASSUME AccessInv, "error" \notin Faults, NEW s \in Procs, PrincipalStep(s)
    PROVE  SecretStep(s)
  <1>. USE DEF At, Touchy
  <1>c. TypeOK
    BY DEF AccessInv
  <1>r. UNCHANGED tables => VaultRests(s)
    BY DEF tables, VaultRests
  <1>q. ASSUME VaultRests(s), call[s].pc # "tombCommit", call'[s].pc \notin Touchy
        PROVE  SecretStep(s)
    BY <1>q, RestingStep
  <1>f. ASSUME NEW err, Fail(s, err) PROVE call'[s].pc \notin Touchy
    BY <1>c, <1>f, FailUntouchy
  <1>g. ASSUME NEW l, Goto(s, l) PROVE call'[s].pc = l
    BY <1>c, <1>g, GotoSets
  <1>e. ASSUME NEW res, Finish(s, res) PROVE call'[s].pc \notin Touchy
    BY <1>c, <1>e, FinishSets, EndUntouchy
  <1>1. CASE BeginCreatePrincipal(s)
    <2>1. PICK p \in Principals :
            call' = [call EXCEPT ![s] = [Idle("answered") EXCEPT !.pc = "addTenant",
                        !.kind = "createPrincipal", !.principal = p]]
      BY <1>1 DEF BeginCreatePrincipal
    <2>. DEFINE c == [Idle("answered") EXCEPT !.pc = "addTenant",
                        !.kind = "createPrincipal", !.principal = p]
    <2>2. c.pc = "addTenant"
      BY DEF Idle
    <2>3. call' = [call EXCEPT ![s] = c]
      BY <2>1
    <2>. HIDE DEF c
    <2>4. QED
      BY <1>1, <1>c, <1>q, <1>r, <2>2, <2>3, SetMoves DEF BeginCreatePrincipal, Begin
  <1>2. CASE AddTenant(s)
    BY <1>2, <1>g, <1>q, <1>r DEF AddTenant
  <1>3. CASE AddRow(s)
    BY <1>3, <1>g, <1>q DEF AddRow, VaultRests
  <1>4. CASE AddGet(s)
    BY <1>4, <1>e, <1>q, <1>r DEF AddGet
  <1>5. CASE BeginDeletePrincipal(s)
    <2>1. PICK p \in Principals :
            call' = [call EXCEPT ![s] = [Idle("answered") EXCEPT !.pc = "rvLoad",
                        !.kind = "removePrincipal", !.principal = p]]
      BY <1>5 DEF BeginDeletePrincipal
    <2>. DEFINE c == [Idle("answered") EXCEPT !.pc = "rvLoad",
                        !.kind = "removePrincipal", !.principal = p]
    <2>2. c.pc = "rvLoad"
      BY DEF Idle
    <2>3. call' = [call EXCEPT ![s] = c]
      BY <2>1
    <2>. HIDE DEF c
    <2>4. QED
      BY <1>5, <1>c, <1>q, <1>r, <2>2, <2>3, SetMoves DEF BeginDeletePrincipal, Begin
  <1>6. ASSUME NEW here \in {"rvLock", "tombLock"}, NEW none \in {"stripList", "tombCommit"},
               LET ks == KeysOf({principalOf(s)})
               IN  call' = [call EXCEPT ![s].keys = ks, ![s].want = ks,
                                        ![s].pc = IF ks = {} THEN none ELSE here],
               UNCHANGED tables, call[s].pc # "tombCommit"
        PROVE  SecretStep(s)
    <2>. DEFINE ks == KeysOf({principalOf(s)})
                l == IF ks = {} THEN none ELSE here
    <2>1. call' = [call EXCEPT ![s].keys = ks, ![s].want = ks, ![s].pc = l]
      BY <1>6
    <2>2. l \notin Touchy
      OBVIOUS
    <2>. HIDE DEF ks, l
    <2>3. call'[s].pc = l
      BY <1>c, <2>1, SetKeys
    <2>4. QED
      BY <1>6, <1>q, <1>r, <2>2, <2>3
  <1>7. CASE RevokeLoad(s)
    BY <1>6, <1>7 DEF RevokeLoad
  <1>8. CASE RevokeLock(s)
    <2>1. call'[s].pc \in {"rvLock", "rvPublish"} /\ UNCHANGED tables /\ call[s].pc = "rvLock"
      BY <1>8, AudienceSets DEF RevokeLock, LockAudiences
    <2>2. QED
      BY <1>q, <1>r, <2>1
  <1>9. CASE RevokePublish(s)
    BY <1>9, <1>f, <1>g, <1>q DEF RevokePublish, PublishRevocations, VaultRests
  <1>10. CASE RevokeCommit(s)
    <2>1. call' = [call EXCEPT ![s].keys = {}, ![s].pc = "stripList"] /\ call[s].pc = "rvCommit"
      BY <1>10 DEF RevokeCommit
    <2>2. call'[s].pc = "stripList"
      BY <1>c, <2>1, SetKeysOnly
    <2>3. QED
      BY <1>10, <1>q, <2>1, <2>2 DEF RevokeCommit, VaultRests
  <1>11. CASE StripList(s)
    <2>. DEFINE bs == ListByPrincipal(principalOf(s))
    <2>1. /\ call' = [call EXCEPT ![s].todo = bs, ![s].snap = policy, ![s].pc = "strip"]
          /\ UNCHANGED tables /\ call[s].pc = "stripList"
      BY <1>11 DEF StripList
    <2>. HIDE DEF bs
    <2>2. call'[s].pc = "strip"
      BY <1>c, <2>1, SetListed
    <2>3. QED
      BY <1>q, <1>r, <2>1, <2>2
  <1>12. CASE StripPolicy(s)
    <2>1. PICK b \in call[s].todo :
            LET old == call[s].snap[b]
                new == RemovePrincipal(old, principalOf(s))
            IN  call' = [call EXCEPT ![s].todo = @ \ {b}, ![s].bucket = b, ![s].doc = new,
                                     ![s].match = IfMatch(ETag(old)),
                                     ![s].pc = StripWrite(s, old, new)]
      BY <1>12 DEF StripPolicy
    <2>. DEFINE old == call[s].snap[b]
                new == RemovePrincipal(old, principalOf(s))
                l == StripWrite(s, old, new)
                m == IfMatch(ETag(old))
                t == call[s].todo \ {b}
    <2>. DEFINE c == [call[s] EXCEPT !.todo = t, !.bucket = b, !.doc = new, !.match = m, !.pc = l]
    <2>2. call' = [call EXCEPT ![s] = c]
      BY <2>1
    <2>3. l \in {"strip", "tenant", "bucket"}
      BY DEF StripWrite
    <2>. HIDE DEF t, l, new, m, old
    <2>4. c.pc = l
      BY <1>c, CallTyped DEF CallRecords
    <2>. HIDE DEF c
    <2>5. call'[s].pc = l
      BY <1>c, <2>2, <2>4, SetMoves
    <2>6. QED
      BY <1>12, <1>q, <1>r, <2>3, <2>5 DEF StripPolicy
  <1>13. CASE StripDone(s)
    BY <1>13, <1>g, <1>q, <1>r DEF StripDone
  <1>14. CASE Tombstone(s)
    BY <1>14, <1>e, <1>g, <1>q, <1>r DEF Tombstone
  <1>15. CASE NamedAgain(s)
    BY <1>15, <1>f, <1>g, <1>q, <1>r DEF NamedAgain
  <1>16. CASE RemoveLoad(s)
    BY <1>6, <1>16 DEF RemoveLoad
  <1>17. CASE RemoveLock(s)
    <2>1. /\ call'[s].pc \in {"tombLock", "tombPublish"} /\ UNCHANGED tables
          /\ call[s].pc = "tombLock"
      BY <1>17, AudienceSets DEF RemoveLock, LockAudiences
    <2>2. QED
      BY <1>q, <1>r, <2>1
  <1>18. CASE RemovePublish(s)
    BY <1>18, <1>f, <1>g, <1>q DEF RemovePublish, PublishRevocations, VaultRests
  <1>19. CASE RemoveSecrets(s)
    <2>1. /\ Goto(s, "tombCommit") /\ secrets' = secrets \ call[s].keys /\ keyRow' = keyRow
          /\ call[s].pc = "tombSecrets"
      BY <1>19 DEF RemoveSecrets
    <2>2. call'[s].pc = "tombCommit" /\ call'[s].keys = call[s].keys
      BY <1>c, <2>1, GotoSets DEF SameWork, SameKeys
    <2>3. Secrets(s)'
      BY <2>2 DEF Secrets
    <2>4. QED
      BY <2>1, <2>2, <2>3 DEF SecretStep
  <1>20. CASE TombstoneCommit(s)
    <2>1. secrets' = secrets /\ keyRow' = keyRow \ call[s].keys /\ Finish(s, "answered")
      BY <1>20 DEF TombstoneCommit
    <2>2. Secrets(s)'
      BY <1>e, <2>1 DEF Secrets
    <2>3. QED
      BY <2>1, <2>2 DEF SecretStep
  <1>21. QED
    BY <1>1, <1>2, <1>3, <1>4, <1>5, <1>7, <1>8, <1>9, <1>10, <1>11, <1>12,
       <1>13, <1>14, <1>15, <1>16, <1>17, <1>18, <1>19, <1>20
       DEF PrincipalStep

\* A creation, its rollback and a key's deletion.
LEMMA KeySecrets ==
    ASSUME AccessInv, WriteInv, SecretInv, "error" \notin Faults, NEW s \in Procs, AccessKeyStep(s)
    PROVE  SecretStep(s)
  <1>. USE DEF At, Touchy
  <1>c. TypeOK /\ Secrets(s)
    BY DEF AccessInv, SecretInv
  <1>r. UNCHANGED tables => VaultRests(s)
    BY DEF tables, VaultRests
  <1>q. ASSUME VaultRests(s), call[s].pc # "tombCommit", call'[s].pc \notin Touchy
        PROVE  SecretStep(s)
    BY <1>q, RestingStep
  <1>f. ASSUME NEW err, Fail(s, err) PROVE call'[s].pc \notin Touchy
    BY <1>c, <1>f, FailUntouchy
  <1>g. ASSUME NEW l, Goto(s, l)
        PROVE  call'[s].pc = l /\ call'[s].keys = call[s].keys /\ call'[s].key = call[s].key
    BY <1>c, <1>g, GotoSets DEF SameWork, SameKeys, SameKey
  <1>e. ASSUME NEW res, Finish(s, res) PROVE call'[s].pc \notin Touchy
    BY <1>c, <1>e, FinishSets, EndUntouchy
  <1>1. CASE BeginCreateKey(s)
    <2>1. PICK p \in Principals :
            call' = [call EXCEPT ![s] = [Idle("answered") EXCEPT !.pc = "ckPrincipal",
                        !.kind = "createKey", !.principal = p]]
      BY <1>1 DEF BeginCreateKey
    <2>. DEFINE c == [Idle("answered") EXCEPT !.pc = "ckPrincipal",
                        !.kind = "createKey", !.principal = p]
    <2>2. c.pc = "ckPrincipal"
      BY DEF Idle
    <2>3. call' = [call EXCEPT ![s] = c]
      BY <2>1
    <2>. HIDE DEF c
    <2>4. QED
      BY <1>1, <1>c, <1>q, <1>r, <2>2, <2>3, SetMoves DEF BeginCreateKey, Begin
  <1>2. CASE FindPrincipal(s)
    BY <1>2, <1>e, <1>g, <1>q, <1>r DEF FindPrincipal
  <1>3. CASE WriteSecret(s)
    <2>1. PICK k \in Keys : /\ call' = [call EXCEPT ![s].key = k, ![s].pc = "ckAdd"]
                            /\ secrets' = secrets \cup {k}
      BY <1>3 DEF WriteSecret
    <2>2. call'[s].pc = "ckAdd" /\ call'[s].key = k
      BY <1>c, <2>1, SetKey
    <2>3. Secrets(s)'
      BY <2>1, <2>2 DEF Secrets, keyOf
    <2>4. keyRow' = keyRow /\ call[s].pc = "ckSecret"
      BY <1>3 DEF WriteSecret
    <2>5. QED
      BY <2>1, <2>3, <2>4 DEF SecretStep
  <1>4. CASE AddKey(s)
    <2>1. CASE keyRow' = keyRow \cup {keyOf(s)} /\ Goto(s, "ckSnap")
      <3>1. secrets' = secrets /\ call[s].pc = "ckAdd"
        BY <1>4 DEF AddKey
      <3>2. Secrets(s)'
        BY <1>g, <2>1 DEF Secrets
      <3>3. QED
        BY <1>c, <2>1, <3>1, <3>2 DEF SecretStep, Secrets
    <2>2. CASE Fail(s, "invalid") /\ UNCHANGED keyRow
      BY <1>4, <1>f, <1>q, <2>2 DEF AddKey, VaultRests
    <2>3. QED
      BY <1>4, <2>1, <2>2 DEF AddKey
  <1>5. CASE ListSnapshot(s)
    <2>. DEFINE bs == ListByPrincipal(principalOf(s))
                l == IF bs = {} THEN AfterListing(s, NoDocs) ELSE "ckRows"
    <2>1. /\ call' = [call EXCEPT ![s].want = bs, ![s].pc = l]
          /\ UNCHANGED tables /\ call[s].pc = "ckSnap"
      BY <1>5 DEF ListSnapshot
    <2>2. l \in {"ckStore", "ckGet", "ckRows"}
      BY DEF AfterListing
    <2>. HIDE DEF bs, l
    <2>3. call'[s].pc = l
      BY <1>c, <2>1, SetWant
    <2>4. QED
      BY <1>q, <1>r, <2>1, <2>2, <2>3
  <1>6. CASE ListRows(s)
    <2>1. PICK b \in Buckets :
            LET docs == [call[s].snap EXCEPT ![b] = policy[b]]
                last == call[s].want = {b}
            IN  call' = [call EXCEPT ![s].want = @ \ {b}, ![s].snap = docs,
                            ![s].pc = IF last THEN AfterListing(s, docs) ELSE "ckRows"]
      BY <1>6 DEF ListRows
    <2>. DEFINE docs == [call[s].snap EXCEPT ![b] = policy[b]]
                w == call[s].want \ {b}
                l == IF call[s].want = {b} THEN AfterListing(s, docs) ELSE "ckRows"
    <2>2. call' = [call EXCEPT ![s].want = w, ![s].snap = docs, ![s].pc = l]
      BY <2>1
    <2>3. l \in {"ckStore", "ckGet", "ckRows"}
      BY DEF AfterListing
    <2>. HIDE DEF docs, w, l
    <2>4. call'[s].pc = l
      BY <1>c, <2>2, SetRead, ZenonT(60)
    <2>5. QED
      BY <1>6, <1>q, <1>r, <2>3, <2>4 DEF ListRows
  <1>7. CASE StoreGrants(s)
    BY <1>7, <1>f, <1>g, <1>q DEF StoreGrants, VaultRests
  <1>8. CASE ReturnKey(s)
    BY <1>8, <1>e, <1>f, <1>q DEF ReturnKey, VaultRests
  <1>9. CASE RollbackGrants(s)
    BY <1>9, <1>g, <1>q DEF RollbackGrants, VaultRests
  <1>10. CASE RollbackRow(s)
    <2>1. /\ keyRow' = keyRow \ {keyOf(s)} /\ secrets' = secrets /\ Goto(s, "rbSecret")
          /\ call[s].pc = "rbRow"
      BY <1>10 DEF RollbackRow
    <2>2. Secrets(s)'
      BY <1>g, <2>1 DEF Secrets, keyOf
    <2>3. QED
      BY <2>1, <2>2 DEF SecretStep
  <1>11. CASE RollbackSecret(s)
    <2>1. /\ secrets' = secrets \ {keyOf(s)} /\ keyRow' = keyRow /\ Finish(s, call[s].res)
          /\ call[s].pc = "rbSecret"
      BY <1>11 DEF RollbackSecret
    <2>2. Secrets(s)'
      BY <1>e, <2>1 DEF Secrets
    <2>3. keyOf(s) \notin keyRow /\ Own(s, keyOf(s))
      BY <1>c, <2>1 DEF Secrets, Own, Creating, Undoing
    <2>4. QED
      BY <2>1, <2>2, <2>3 DEF SecretStep
  <1>12. CASE BeginDeleteKey(s)
    <2>1. PICK k \in keyRow :
            call' = [call EXCEPT ![s] = [Idle("answered") EXCEPT !.pc = "kdLock",
                        !.kind = "deleteKey", !.key = k, !.keys = {k}, !.want = {k}]]
      BY <1>12 DEF BeginDeleteKey
    <2>. DEFINE c == [Idle("answered") EXCEPT !.pc = "kdLock",
                        !.kind = "deleteKey", !.key = k, !.keys = {k}, !.want = {k}]
    <2>2. c.pc = "kdLock"
      BY DEF Idle
    <2>3. call' = [call EXCEPT ![s] = c]
      BY <2>1
    <2>. HIDE DEF c
    <2>4. QED
      BY <1>12, <1>c, <1>q, <1>r, <2>2, <2>3, SetMoves DEF BeginDeleteKey, Begin
  <1>13. CASE DeleteLock(s)
    <2>1. call'[s].pc \in {"kdLock", "kdPublish"} /\ UNCHANGED tables /\ call[s].pc = "kdLock"
      BY <1>13, AudienceSets DEF DeleteLock, LockAudiences
    <2>2. QED
      BY <1>q, <1>r, <2>1
  <1>14. CASE DeletePublish(s)
    BY <1>14, <1>f, <1>g, <1>q DEF DeletePublish, PublishRevocations, VaultRests
  <1>15. CASE DeleteCommit(s)
    <2>1. /\ keyRow' = keyRow \ {keyOf(s)} /\ secrets' = secrets /\ Goto(s, "kdSecret")
          /\ call[s].pc = "kdCommit"
      BY <1>15 DEF DeleteCommit
    <2>2. call[s].keys = {keyOf(s)}
      BY <2>1 DEF WriteInv, Writes, ByKind, OnKey
    <2>3. Secrets(s)'
      BY <1>g, <2>1, <2>2 DEF Secrets, keyOf
    <2>4. QED
      BY <2>1, <2>3 DEF SecretStep
  <1>16. CASE DeleteSecret(s)
    <2>1. /\ secrets' = secrets \ {keyOf(s)} /\ keyRow' = keyRow /\ Finish(s, "answered")
          /\ call[s].pc = "kdSecret"
      BY <1>16 DEF DeleteSecret
    <2>2. Secrets(s)'
      BY <1>e, <2>1 DEF Secrets
    <2>3. keyOf(s) \notin keyRow /\ keyOf(s) \in call[s].keys
      BY <1>c, <2>1 DEF Secrets
    <2>4. QED
      BY <2>1, <2>2, <2>3 DEF SecretStep
  <1>17. QED
    BY <1>1, <1>2, <1>3, <1>4, <1>5, <1>6, <1>7, <1>8, <1>9, <1>10, <1>11, <1>12,
       <1>13, <1>14, <1>15, <1>16
       DEF AccessKeyStep

LEMMA BucketSecrets ==
    ASSUME AccessInv, NEW s \in Procs, BucketStep(s)
    PROVE  SecretStep(s)
  <1>. USE DEF At, Touchy
  <1>c. TypeOK
    BY DEF AccessInv
  <1>r. UNCHANGED tables => VaultRests(s)
    BY DEF tables, VaultRests
  <1>q. ASSUME VaultRests(s), call[s].pc # "tombCommit", call'[s].pc \notin Touchy
        PROVE  SecretStep(s)
    BY <1>q, RestingStep
  <1>g. ASSUME NEW l, Goto(s, l) PROVE call'[s].pc = l
    BY <1>c, <1>g, GotoSets
  <1>1. CASE BeginDeleteBucket(s)
    <2>1. PICK b \in buckets :
            call' = [call EXCEPT ![s] = [Idle("answered") EXCEPT !.pc = "dbLock",
                        !.kind = "deleteBucket", !.bucket = b]]
      BY <1>1 DEF BeginDeleteBucket
    <2>. DEFINE c == [Idle("answered") EXCEPT !.pc = "dbLock",
                        !.kind = "deleteBucket", !.bucket = b]
    <2>2. c.pc = "dbLock"
      BY DEF Idle
    <2>3. call' = [call EXCEPT ![s] = c]
      BY <2>1
    <2>. HIDE DEF c
    <2>4. QED
      BY <1>1, <1>c, <1>q, <1>r, <2>2, <2>3, SetMoves DEF BeginDeleteBucket, Begin
  <1>2. CASE DeleteByBucket(s)
    BY <1>2, <1>g, <1>q, <1>r DEF DeleteByBucket
  <1>3. CASE RevokeSubject(s)
    BY <1>3, <1>c, <1>g, <1>q, FailUntouchy DEF RevokeSubject, PublishRevocations, VaultRests
  <1>4. CASE SubjectAudiences(s)
    <2>. DEFINE ks == HoldersOf(bucketOf(s))
                l == IF ks = {} THEN "dbDelete" ELSE "dbLockK"
    <2>1. /\ call' = [call EXCEPT ![s].want = ks, ![s].pc = l]
          /\ UNCHANGED tables /\ call[s].pc = "dbAudiences"
      BY <1>4 DEF SubjectAudiences
    <2>2. l \in {"dbDelete", "dbLockK"}
      OBVIOUS
    <2>. HIDE DEF ks, l
    <2>3. call'[s].pc = l
      BY <1>c, <2>1, SetWant
    <2>4. QED
      BY <1>q, <1>r, <2>1, <2>2, <2>3
  <1>5. CASE SubjectLock(s)
    <2>1. call'[s].pc \in {"dbLockK", "dbDelete"} /\ UNCHANGED tables /\ call[s].pc = "dbLockK"
      BY <1>5, AudienceSets DEF SubjectLock, LockAudiences
    <2>2. QED
      BY <1>q, <1>r, <2>1
  <1>6. CASE DeleteBySubject(s)
    <2>. DEFINE ks == HoldersOf(bucketOf(s))
    <2>1. /\ call' = [call EXCEPT ![s].keys = ks, ![s].pc = "dbCommit"]
          /\ UNCHANGED tables /\ call[s].pc = "dbDelete"
      BY <1>6 DEF DeleteBySubject
    <2>. HIDE DEF ks
    <2>2. call'[s].pc = "dbCommit"
      BY <1>c, <2>1, SetKeysOnly
    <2>3. QED
      BY <1>q, <1>r, <2>1, <2>2
  <1>7. CASE DeleteBucketRow(s)
    <2>1. /\ Finish(s, "answered") /\ keyRow' = keyRow /\ secrets' = secrets
          /\ call[s].pc = "dbCommit"
      BY <1>7 DEF DeleteBucketRow
    <2>2. call'[s].pc \notin Touchy
      BY <1>c, <2>1, FinishSets, EndUntouchy
    <2>3. QED
      BY <1>q, <2>1, <2>2 DEF VaultRests
  <1>8. QED
    BY <1>1, <1>2, <1>3, <1>4, <1>5, <1>6, <1>7 DEF BucketStep

-----------------------------------------------------------------------------
(***************************************************************************)
(* Where nothing fails but the revocation service.                         *)
(***************************************************************************)
OnlyPublishingFails == Faults \subseteq {"publish"}

\* A handler aborted in a deadlock was waiting, and so had deleted no secret.
LEMMA AbortSecrets ==
    ASSUME AccessInv, SecretInv, OnlyPublishingFails, NEW s \in Procs, Fault(s)
    PROVE  SecretStep(s)
  <1>1. Timeout(s)
    BY DEF OnlyPublishingFails, Fault, Error, Crash, RollbackSkip
  <1>2. Fail(s, "concurrent") /\ VaultRests(s)
    BY <1>1 DEF Timeout, tables, VaultRests
  <1>3. call[s].pc # "tombCommit"
    <2>1. SUFFICES ASSUME call[s].pc = "tombCommit" PROVE Requests(s) = {}
      BY <1>1 DEF Timeout, WaitsFor
    <2>2. QED
      BY <2>1 DEF Requests
  <1>4. call'[s].pc \notin Touchy
    BY <1>2, FailUntouchy DEF AccessInv
  <1>5. Secrets(s)
    BY DEF SecretInv
  <1>6. QED
    BY <1>2, <1>3, <1>4, <1>5, RestingStep

LEMMA InitSecrets == Init => SecretInv
  <1>. SUFFICES ASSUME Init PROVE SecretInv
    OBVIOUS
  <1>1. \A s \in Procs : call[s].pc = "idle"
    BY DEF Init, Idle
  <1>2. QED
    BY <1>1 DEF Init, SecretInv, RowsHaveSecrets, Secrets, At

LEMMA StutterSecrets == SecretInv /\ UNCHANGED vars => SecretInv'
  BY DEF vars, SecretInv, RowsHaveSecrets, Secrets, At, keyOf

LEMMA StepSecrets ==
    ASSUME AccessInv, WriteInv, GrantsInv, SecretInv, OnlyPublishingFails, Next
    PROVE  SecretInv'
  <1>1. PICK s \in Procs : Step(s) \/ Fault(s)
    BY DEF Next
  <1>2. "error" \notin Faults
    BY DEF OnlyPublishingFails
  <1>3. SecretStep(s)
    BY <1>1, <1>2, PolicySecrets, PrincipalSecrets, KeySecrets, BucketSecrets, AbortSecrets
       DEF Step
  <1>4. CallStep(s)
    BY <1>1, PolicyWrites, PrincipalWrites, KeyWrites, BucketWrites, FaultWrites
       DEF Step, WriteStep
  <1>5. QED
    BY <1>3, <1>4, SecretStepKeeps

\* Without crashes, errors and timeouts, but for the abort that ends a deadlock, a key
\* with a row has its private key in the vault, except between a removal's vault deletes
\* and its commit: no two handlers at work on one key, a creation turning back among
\* them, get in between.
THEOREM RowsKeepSecrets == OnlyPublishingFails => (Spec => []RowsHaveSecrets)
  <1>. SUFFICES ASSUME OnlyPublishingFails PROVE Spec => []RowsHaveSecrets
    OBVIOUS
  <1>1. Init => SecretInv
    BY InitSecrets
  <1>2. AccessInv /\ WriteInv /\ GrantsInv /\ SecretInv /\ [Next]_vars => SecretInv'
    BY StepSecrets, StutterSecrets
  <1>3. SecretInv => RowsHaveSecrets
    BY DEF SecretInv
  <1>4. QED
    BY <1>1, <1>2, <1>3, LockDiscipline, PolicyRowsAreGuarded, NoKeyIsOverlooked, PTL DEF Spec

-----------------------------------------------------------------------------
(***************************************************************************)
(* Whole operations: the tables, seen from outside, change as Entitlements *)
(* says.  Each commit is one of its operations: the rotation's invariant   *)
(* gives a write the keys it matters to, the compare-and-set gives a strip *)
(* the document it has listed, and the tombstone's locks give a removal    *)
(* every key of its principal.  What an operation does before its commit,  *)
(* and what a rollback takes back, is about keys nobody was given.         *)
(***************************************************************************)
\* The steps of a removal that work on its keys.
Owning == {"rvLock", "rvPublish", "rvCommit",
           "tombLock", "tombPublish", "tombSecrets", "tombCommit"}

PoliciesHaveBuckets == \A b \in Buckets : policy[b] # NoPolicy => b \in buckets

\* The bucket of a write that has found it stays.
Sited(s) ==
    call[s].pc \in PastRow \/ (At(s, "row") /\ docOf(s) # NoPolicy) => bucketOf(s) \in buckets

\* A removal's keys are its principal's, and its strips write policies that name it.
OwnsKeys(s) == call[s].pc \in Owning => \A k \in call[s].keys : owner[k] = principalOf(s)

StripsNamed(s) ==
    Strips(s) /\ call[s].pc \in Preparing \cup {"commit"} =>
        principalOf(s) \in Named(call[s].snap[bucketOf(s)])

Placed(s) == Sited(s) /\ OwnsKeys(s) /\ StripsNamed(s)

PlacedInv == PoliciesHaveBuckets /\ \A s \in Procs : Placed(s)

\* A step of s: a bucket goes only under its lock, and what a caller sees of the step is
\* a whole operation or nothing.
Seen == Promised!Next \/ UNCHANGED Promised!entitlements

PlacedStep(s) ==
    /\ Placed(s)' /\ PoliciesHaveBuckets'
    /\ \A b \in buckets : b \in buckets' \/ Has(s, <<"bucket", b>>, "exclusive")
    /\ Seen

LEMMA PlacedStepKeeps ==
    ASSUME AccessInv, WriteInv, GrantsInv, PlacedInv, NEW s \in Procs, CallStep(s),
           GrantStep(s), PlacedStep(s)
    PROVE  PlacedInv'
  <1>1. SUFFICES ASSUME NEW t \in Procs, t # s PROVE Placed(t)'
    BY DEF PlacedInv, PlacedStep
  <1>2. /\ call'[t] = call[t] /\ call[t] \in CallRecords /\ Placed(t)
        /\ Bound(t) /\ HoldsBucket(t) /\ TableMoves(s)
    BY <1>1, CallTyped DEF CallStep, AccessInv, PlacedInv, GrantsInv, WriteInv, Writes, GrantStep
  <1>3. Sited(t)'
    <2>1. ASSUME bucketOf(t) \in buckets, call[t].pc \in PastRow \cup {"row"}
          PROVE  bucketOf(t) \in buckets'
      <3>1. Has(t, <<"bucket", bucketOf(t)>>, "exclusive")
        BY <1>2, <2>1 DEF HoldsBucket, OnBucket
      <3>2. ~Has(s, <<"bucket", bucketOf(t)>>, "exclusive")
        BY <1>1, <3>1, HasExcludes, ExclusivePairs
      <3>3. QED
        BY <2>1, <3>2 DEF PlacedStep
    <2>2. QED
      BY <1>2, <2>1 DEF Placed, Sited, At, docOf, bucketOf
  <1>4. OwnsKeys(t)'
    BY <1>2 DEF Placed, OwnsKeys, Bound, TableMoves, CallRecords, principalOf
  <1>5. StripsNamed(t)'
    BY <1>2 DEF Placed, StripsNamed, Strips, principalOf, bucketOf
  <1>6. QED
    BY <1>3, <1>4, <1>5 DEF Placed

-----------------------------------------------------------------------------
(***************************************************************************)
(* A step of s and its own part.                                           *)
(***************************************************************************)
\* The labels that ask for nothing of this.
Bare == Labels \ (Preparing \cup PastRow \cup Owning)

LEMMA BarePlaced ==
    ASSUME NEW s, call'[s].pc \in Bare
    PROVE  Placed(s)'
  BY DEF Bare, Placed, Sited, OwnsKeys, StripsNamed, At, Preparing, PastRow

LEMMA EndBare ==
    ASSUME NEW s, NEW res, call'[s] = Idle(res)
    PROVE  call'[s].pc \in Bare
  <1>1. call'[s].pc = "idle"
    BY DEF Idle
  <1>2. QED
    BY <1>1 DEF Bare, Labels, Preparing, PastRow, Rotating, Owning

\* A request at its first step, or a write on the way to its row.
LEMMA NearPlaced ==
    ASSUME NEW s, call'[s].pc \in Preparing, call'[s].kind # "removePrincipal",
           call'[s].pc = "row" => call'[s].doc = NoPolicy
    PROVE  Placed(s)'
  BY DEF Placed, Sited, OwnsKeys, StripsNamed, Strips, At, Preparing, PastRow, Rotating, Owning,
         docOf

\* The same request one step on, with the keys it had.
LEMMA SamePlaced ==
    ASSUME PlacedInv, NEW s \in Procs, SameCore(s), SameKeys(s), SameSnap(s),
           UNCHANGED <<buckets, owner>>,
           call'[s].pc \in PastRow => call[s].pc \in PastRow \/ bucketOf(s) \in buckets,
           call'[s].pc = "row" => docOf(s) = NoPolicy \/ bucketOf(s) \in buckets,
           call'[s].pc \in Owning => call[s].pc \in Owning,
           call'[s].pc \in Preparing \cup {"commit"} =>
               call[s].pc \in Preparing \cup {"commit"} \/ ~Strips(s)
    PROVE  Placed(s)'
  BY DEF PlacedInv, Placed, Sited, OwnsKeys, StripsNamed, Strips, SameCore, SameKeys, SameSnap, At,
         docOf, bucketOf, principalOf

-----------------------------------------------------------------------------
(***************************************************************************)
(* What a caller sees of the tables.                                       *)
(***************************************************************************)
\* Whatever changes, it is out of sight.
Hidden ==
    /\ UNCHANGED <<principal, buckets, policy, returned>> /\ InHand' = InHand
    /\ \A k \in InHand : owner'[k] = owner[k] /\ \A b \in buckets :
          held'[k][b] = held[k][b] /\ (<<k, b>> \in excused' <=> <<k, b>> \in excused)

LEMMA HiddenUnseen == Hidden => UNCHANGED Promised!entitlements
  <1>. SUFFICES ASSUME Hidden PROVE UNCHANGED Promised!entitlements
    OBVIOUS
  <1>1. /\ ListIDsByTenant' = ListIDsByTenant /\ InHand' = InHand /\ buckets' = buckets
        /\ policy' = policy
    BY DEF Hidden, ListIDsByTenant
  <1>2. (returned \ keyRow)' = returned \ keyRow
    <2>1. returned \ keyRow = returned \ InHand /\ returned' \ keyRow' = returned' \ InHand'
      BY DEF InHand
    <2>2. QED
      BY <2>1 DEF Hidden
  <1>3. [k \in InHand |-> owner[k]]' = [k \in InHand |-> owner[k]]
    BY DEF Hidden
  <1>4. [k \in InHand |-> [b \in buckets |-> held[k][b]]]'
        = [k \in InHand |-> [b \in buckets |-> held[k][b]]]
    BY DEF Hidden
  <1>5. (excused \cap (InHand \X buckets))' = excused \cap (InHand \X buckets)
    BY DEF Hidden
  <1>6. QED
    BY <1>1, <1>2, <1>3, <1>4, <1>5 DEF Promised!entitlements

LEMMA QuietHidden == Quiet => Hidden
  BY DEF Quiet, Hidden, InHand

\* A key in a caller's hands is of a principal that exists.
LEMMA SeenInPlace == AccessInv => Promised!InPlace
  <1>. SUFFICES ASSUME AccessInv PROVE Promised!InPlace
    OBVIOUS
  <1>1. /\ keyRow \subseteq Keys /\ buckets \subseteq Buckets
        /\ held \in [Keys -> [Buckets -> SUBSET Commands]]
    BY DEF AccessInv, TypeOK, TablesOK
  <1>2. \A k \in InHand : owner[k] \in ListIDsByTenant
    BY DEF AccessInv, RowsHaveOwners, KeysHaveLiveOwners, InHand, ListIDsByTenant
  <1>3. [k \in InHand |-> owner[k]] \in [InHand -> ListIDsByTenant]
    BY <1>2
  <1>4. [k \in InHand |-> [b \in buckets |-> held[k][b]]]
            \in [InHand -> [buckets -> SUBSET Commands]]
    <2>1. \A k \in InHand : [b \in buckets |-> held[k][b]] \in [buckets -> SUBSET Commands]
      BY <1>1 DEF InHand
    <2>2. QED
      BY <2>1
  <1>5. QED
    BY <1>3, <1>4 DEF Promised!InPlace

-----------------------------------------------------------------------------
(***************************************************************************)
(* The commits, each a whole operation.                                    *)
(***************************************************************************)
LEMMA AddRowSeen ==
    ASSUME AccessInv, Promised!InPlace', NEW s \in Procs, AddRow(s)
    PROVE  Seen
  <1>. DEFINE p == principalOf(s)
  <1>c. p \in Principals /\ principal \in [Principals -> {"absent", "live", "removed"}]
    BY CallTyped DEF AddRow, At, AccessInv, TypeOK, TablesOK, Aimed, OfPrincipal, principalOf
  <1>1. /\ principal' = [principal EXCEPT ![p] = "live"]
        /\ UNCHANGED <<buckets, policy, keyRow, owner, held, returned, excused>>
    BY DEF AddRow
  <1>. HIDE DEF p
  <1>2. ListIDsByTenant' = ListIDsByTenant \cup {p} /\ InHand' = InHand
    BY <1>c, <1>1 DEF ListIDsByTenant, InHand
  <1>3. CASE p \in ListIDsByTenant
    BY <1>1, <1>2, <1>3 DEF Promised!entitlements, Seen
  <1>4. CASE p \notin ListIDsByTenant
    <2>1. Promised!Join(p)
      BY <1>1, <1>2, <1>4 DEF Promised!Join
    <2>2. QED
      BY <1>c, <2>1 DEF Promised!Next, Seen
  <1>5. QED
    BY <1>3, <1>4

\* A write's commit, or a strip's.
LEMMA CommitSeen ==
    ASSUME AccessInv, WriteInv, GrantsInv, PlacedInv, Promised!InPlace', NEW s \in Procs, Commit(s)
    PROVE  Seen
  <1>b. PICK B \in Buckets : B = bucketOf(s)
    BY CallTyped DEF AccessInv, Commit, At, Aimed, OfBucket, bucketOf
  <1>. DEFINE d == docOf(s)
  <1>c. /\ At(s, "commit") /\ B \in buckets /\ buckets \subseteq Buckets
        /\ d \in Documents /\ policy \in [Buckets -> Documents] /\ keyRow \subseteq Keys
        /\ held \in [Keys -> [Buckets -> SUBSET Commands]] /\ call[s].keys \subseteq Keys
    BY <1>b, CallTyped DEF AccessInv, TypeOK, TablesOK, Commit, At, PlacedInv, Placed, Sited,
                           PastRow, CallRecords, docOf
  <1>1. /\ policy' = [policy EXCEPT ![B] = d]
        /\ \A k \in Keys, b \in Buckets :
              held'[k][b] = IF k \in call[s].keys /\ b = B THEN Rotated(s, k) ELSE held[k][b]
        /\ UNCHANGED <<principal, buckets, keyRow, owner, returned>>
        /\ excused' = (excused \ (call[s].keys \X {B})) \cup (LetGo(s) \X {B})
    BY <1>b, <1>c DEF Commit
  <1>2. ASSUME NEW k, NEW b
        PROVE  <<k, b>> \in excused' <=> IF b = B THEN \/ <<k, b>> \in excused /\ k \notin call[s].keys
                                                       \/ k \in LetGo(s)
                                         ELSE <<k, b>> \in excused
    BY <1>1
  <1>3. /\ ListIDsByTenant' = ListIDsByTenant /\ InHand' = InHand
        /\ InHand \subseteq keyRow /\ InHand \subseteq returned
    BY <1>1 DEF ListIDsByTenant, InHand
  <1>4. [k \in InHand |-> owner[k]]' = [k \in InHand |-> owner[k]]
        /\ (returned \ keyRow)' = returned \ keyRow
    BY <1>1, <1>3
  <1>5. Promised!Untouched(InHand, buckets \ {B})
    <2>1. \A k \in InHand : owner'[k] = owner[k] /\ \A b \in buckets \ {B} :
             held'[k][b] = held[k][b] /\ (<<k, b>> \in excused' <=> <<k, b>> \in excused)
      BY <1>c, <1>1, <1>2, <1>3
    <2>2. QED
      BY <1>1, <1>3, <2>1 DEF Promised!Untouched, Promised!Same
  <1>6. policy'[B] = d
    BY <1>c, <1>1
  <1>7. CASE Strips(s)
    <2>p. PICK p \in Principals : p = principalOf(s)
      BY <1>7, CallTyped DEF AccessInv, Aimed, Strips, principalOf
    <2>1. /\ call[s].old = policy[B]
          /\ CheckPrecondition(call[s].old, call[s].match)
          /\ call[s].match = IfMatch(ETag(call[s].snap[B]))
          /\ d = RemovePrincipal(call[s].snap[B], p)
          /\ call[s].keys = {} /\ p \in Named(call[s].snap[B])
      BY <1>b, <1>c, <1>7, <2>p DEF WriteInv, Writes, ByKind, HoldsPolicy, StripsListed, PlacedInv, Placed,
                        StripsNamed, PastRow, At
    <2>2. policy[B] = call[s].snap[B]
      BY <2>1 DEF CheckPrecondition, IfMatch, ETag
    <2>4. LetGo(s) = {k \in Keys : owner[k] = p}
      BY <1>7, <2>p DEF LetGo, Strips, principalOf
    <2>. HIDE DEF d
    <2>5. ASSUME NEW k \in InHand
          PROVE  IF owner[k] = p THEN Promised!Abandoned(k, B) ELSE Promised!Same(k, B)
      <3>1. k \in Keys /\ held'[k][B] = held[k][B]
        BY <1>c, <1>1, <1>3, <2>1
      <3>2. <<k, B>> \in excused' <=> (<<k, B>> \in excused \/ owner[k] = p)
        BY <1>2, <2>1, <2>4, <3>1
      <3>3. QED
        BY <1>c, <1>1, <1>3, <3>1, <3>2 DEF Promised!Abandoned, Promised!Same
    <2>6. Promised!Strip(p, B)
      BY <1>c, <1>1, <1>3, <1>4, <1>5, <2>1, <2>2, <2>5 DEF Promised!Strip
    <2>7. \E q \in Principals, b \in Buckets : Promised!Strip(q, b)
      BY <2>6
    <2>8. QED
      BY <2>7 DEF Promised!Next, Seen
  <1>8. CASE ~Strips(s)
    <2>1. MindsRows(s) /\ MindsFresh(s)
      BY <1>c, <1>8 DEF GrantsInv, Minds, Minding, At
    <2>2. Named(d) \subseteq ListIDsByTenant
      BY <1>c, NamedTyped DEF AccessInv, HoldsNamed, Vouched, Writing, At, ListIDsByTenant
    <2>3. LetGo(s) = {k \in call[s].keys \ returned : Rotated(s, k) = {}}
      BY <1>8 DEF LetGo, Strips
    <2>4. ASSUME NEW k \in InHand
          PROVE  \/ Promised!Renewed(k, B)
                 \/ Grants(policy'[B], owner[k]) = Grants(policy[B], owner[k]) /\ Promised!Same(k, B)
      <3>1. k \in Keys /\ k \in keyRow /\ k \in returned
        BY <1>c, <1>3
      <3>2. CASE k \in call[s].keys
        <4>1. held'[k][B] = Grants(d, owner[k])
          BY <1>c, <1>1, <2>1, <3>1, <3>2 DEF MindsFresh, Rotated
        <4>2. <<k, B>> \notin excused'
          BY <1>2, <2>3, <3>1, <3>2
        <4>3. QED
          BY <1>c, <1>1, <1>3, <1>6, <4>1, <4>2 DEF Promised!Renewed
      <3>3. CASE k \notin call[s].keys
        <4>1. Spared(s, owner[k])
          BY <1>b, <1>c, <2>1, <3>1, <3>3 DEF MindsRows, Unseen, At
        <4>2. call[s].old = policy[B]
          BY <1>b, <1>c DEF WriteInv, Writes, HoldsPolicy, PastRow, At
        <4>3. Grants(policy'[B], owner[k]) = Grants(policy[B], owner[k])
          BY <1>6, <4>1, <4>2 DEF Spared
        <4>4. held'[k][B] = held[k][B] /\ (<<k, B>> \in excused' <=> <<k, B>> \in excused)
          BY <1>c, <1>1, <1>2, <2>3, <3>1, <3>3
        <4>. HIDE DEF d
        <4>5. QED
          BY <1>c, <1>1, <1>3, <4>3, <4>4 DEF Promised!Same
      <3>4. QED
        BY <3>2, <3>3
    <2>. HIDE DEF d
    <2>5. Promised!SetPolicy(B)
      BY <1>c, <1>1, <1>3, <1>4, <1>5, <1>6, <2>2, <2>4 DEF Promised!SetPolicy
    <2>6. \E b \in Buckets : Promised!SetPolicy(b) \/ Promised!DropBucket(b)
      BY <2>5
    <2>7. QED
      BY <2>6 DEF Promised!Next, Seen
  <1>9. QED
    BY <1>7, <1>8

LEMMA RevokeCommitSeen ==
    ASSUME AccessInv, PlacedInv, Promised!InPlace', NEW s \in Procs, RevokeCommit(s)
    PROVE  Seen
  <1>p. PICK p \in Principals : p = principalOf(s)
    BY CallTyped DEF AccessInv, RevokeCommit, At, Aimed, OfPrincipal, principalOf
  <1>k. PICK ks \in SUBSET InHand : ks = call[s].keys \cap InHand
    OBVIOUS
  <1>c. /\ buckets \subseteq Buckets /\ keyRow \subseteq Keys
        /\ \A k \in call[s].keys : owner[k] = p
    BY <1>p DEF AccessInv, TypeOK, TablesOK, RevokeCommit, At, PlacedInv, Placed, OwnsKeys, Owning
  <1>1. /\ held' = [k \in Keys |-> IF k \in call[s].keys THEN [b \in Buckets |-> {}] ELSE held[k]]
        /\ excused' = excused \cup (call[s].keys \X Buckets)
        /\ UNCHANGED <<principal, buckets, policy, keyRow, owner, returned>>
    BY DEF RevokeCommit
  <1>2. /\ ListIDsByTenant' = ListIDsByTenant /\ InHand' = InHand /\ InHand \subseteq Keys
    BY <1>c, <1>1 DEF ListIDsByTenant, InHand
  <1>3. [k \in InHand |-> owner[k]]' = [k \in InHand |-> owner[k]]
        /\ (returned \ keyRow)' = returned \ keyRow
    BY <1>1, <1>2
  <1>4. ASSUME NEW k \in ks, NEW b \in buckets PROVE Promised!Emptied(k, b)
    BY <1>k, <1>c, <1>1, <1>2 DEF Promised!Emptied
  <1>5. Promised!Untouched(InHand \ ks, buckets)
    <2>1. \A k \in InHand \ ks : owner'[k] = owner[k] /\ \A b \in buckets :
             held'[k][b] = held[k][b] /\ (<<k, b>> \in excused' <=> <<k, b>> \in excused)
      BY <1>k, <1>c, <1>1, <1>2
    <2>2. buckets' = buckets /\ InHand' = InHand
      BY <1>1, <1>2
    <2>3. QED
      BY <2>1, <2>2 DEF Promised!Untouched, Promised!Same
  <1>6. ks \subseteq InHand /\ \A k \in ks : owner[k] = p
    BY <1>k, <1>c
  <1>7. Promised!Suspend(p, ks)
    BY <1>1, <1>2, <1>3, <1>4, <1>5, <1>6 DEF Promised!Suspend
  <1>8. \E q \in Principals : \E js \in SUBSET InHand : Promised!Suspend(q, js)
    BY <1>7
  <1>9. QED
    BY <1>8 DEF Promised!Next, Seen

LEMMA TombstoneCommitSeen ==
    ASSUME AccessInv, PlacedInv, Promised!InPlace', NEW s \in Procs, TombstoneCommit(s)
    PROVE  Seen
  <1>. DEFINE p == principalOf(s)
              K == call[s].keys
  <1>c. /\ p \in Principals /\ buckets \subseteq Buckets /\ keyRow \subseteq Keys
        /\ principal \in [Principals -> {"absent", "live", "removed"}]
        /\ \A k \in K : owner[k] = p
    BY CallTyped DEF AccessInv, TypeOK, TablesOK, TombstoneCommit, At, Aimed, OfPrincipal, PlacedInv,
                     Placed, OwnsKeys, Owning, principalOf
  <1>1. /\ principal[p] = "live" /\ \A b \in Buckets : p \notin Named(policy[b])
        /\ \A k \in keyRow : owner[k] = p => k \in K
    BY DEF AccessInv, HoldsRow, Removing, TombstoneCommit, At, KeysOf
  <1>2. /\ held' = [k \in Keys |-> IF k \in K THEN [b \in Buckets |-> {}] ELSE held[k]]
        /\ excused' = excused \ (K \X Buckets)
        /\ principal' = [principal EXCEPT ![p] = "removed"]
        /\ keyRow' = keyRow \ K
        /\ UNCHANGED <<buckets, policy, owner, returned>>
    BY DEF TombstoneCommit, ClearGrants
  <1>. HIDE DEF p, K
  <1>3. p \in ListIDsByTenant /\ ListIDsByTenant' = ListIDsByTenant \ {p}
    BY <1>c, <1>1, <1>2 DEF ListIDsByTenant
  <1>4. InHand' = {k \in InHand : owner[k] # p} /\ InHand' = InHand \ K /\ InHand \subseteq Keys
    BY <1>c, <1>1, <1>2 DEF InHand
  <1>5. InHand' = {k \in InHand : [j \in InHand |-> owner[j]][k] # p}
    BY <1>4
  <1>6. (returned \ keyRow)' = (returned \ keyRow) \cup (InHand \ InHand')
    BY <1>2, <1>4 DEF InHand
  <1>7. Promised!Untouched(InHand', buckets)
    <2>1. \A k \in InHand' : owner'[k] = owner[k] /\ \A b \in buckets :
             held'[k][b] = held[k][b] /\ (<<k, b>> \in excused' <=> <<k, b>> \in excused)
      BY <1>c, <1>2, <1>4
    <2>2. QED
      BY <1>2, <1>4, <2>1 DEF Promised!Untouched, Promised!Same
  <1>8. Promised!Leave(p)
    BY <1>1, <1>2, <1>3, <1>5, <1>6, <1>7 DEF Promised!Leave
  <1>9. QED
    BY <1>c, <1>8 DEF Promised!Next, Seen

\* A key is handed out: its creation holds what the policies give, or the pair was let
\* go of meanwhile.
LEMMA ReturnKeySeen ==
    ASSUME AccessInv, WriteInv, GrantsInv, Promised!InPlace', NEW s \in Procs, ReturnKey(s)
    PROVE  Seen
  <1>c. /\ Ready(s) /\ Creates(s) /\ At(s, "ckGet") /\ call[s].pc \in Creating
        /\ keyOf(s) \in Keys /\ keyOf(s) \notin returned
        /\ UNCHANGED <<principal, buckets, policy, keyRow, owner, held, excused>>
    BY CreatesTyped DEF GrantsInv, ReturnKey, At, Creating
  <1>1. CASE keyOf(s) \notin keyRow
    BY <1>1, <1>c, QuietHidden, HiddenUnseen DEF ReturnKey, Quiet, Seen
  <1>2. CASE keyOf(s) \in keyRow
    <2>1. PICK k \in Keys : k = keyOf(s)
      BY <1>c
    <2>2. PICK p \in Principals : p = owner[k] /\ principal[p] = "live"
      BY <1>2, <2>1 DEF AccessInv, RowsHaveOwners, KeysHaveLiveOwners
    <2>3. returned' = returned \cup {k}
      BY <1>2, <2>1 DEF ReturnKey
    <2>4. /\ ListIDsByTenant' = ListIDsByTenant /\ p \in ListIDsByTenant
          /\ k \notin InHand /\ InHand' = InHand \cup {k}
          /\ k \notin returned \ keyRow /\ (returned \ keyRow)' = returned \ keyRow
      BY <1>c, <1>2, <2>1, <2>2, <2>3 DEF ListIDsByTenant, InHand
    <2>5. \A b \in buckets : <<k, b>> \in excused \/ held[k][b] = Grants(policy[b], p)
      BY <1>c, <1>2, <2>1, <2>2 DEF Ready, InStep
    <2>6. /\ [j \in InHand' |-> owner'[j]][k] = p
          /\ \A b \in buckets :
                \/ [j \in InHand' |-> [a \in buckets' |-> held'[j][a]]][k][b] = Grants(policy[b], p)
                \/ <<k, b>> \in excused' \cap (InHand' \X buckets')
      BY <1>c, <2>2, <2>4, <2>5
    <2>7. Promised!Untouched(InHand, buckets)
      BY <1>c, <2>4 DEF Promised!Untouched, Promised!Same
    <2>8. Promised!Issue(k, p)
      BY <1>c, <2>4, <2>6, <2>7 DEF Promised!Issue
    <2>9. \E j \in Keys : Promised!Revoke(j) \/ \E q \in Principals : Promised!Issue(j, q)
      BY <2>8
    <2>10. QED
      BY <2>9 DEF Promised!Next, Seen
  <1>3. QED
    BY <1>1, <1>2

\* A key is deleted: one in a caller's hands, or one nobody was given.
LEMMA DeleteCommitSeen ==
    ASSUME AccessInv, Promised!InPlace', NEW s \in Procs, DeleteCommit(s)
    PROVE  Seen
  <1>c. PICK k \in Keys : k = keyOf(s)
    BY CallTyped DEF AccessInv, DeleteCommit, At, Aimed, OfKey, keyOf
  <1>t. buckets \subseteq Buckets /\ keyRow \subseteq Keys
    BY DEF AccessInv, TypeOK, TablesOK
  <1>1. /\ keyRow' = keyRow \ {k}
        /\ held' = [j \in Keys |-> IF j \in {k} THEN [b \in Buckets |-> {}] ELSE held[j]]
        /\ excused' = excused \ ({k} \X Buckets)
        /\ UNCHANGED <<principal, buckets, policy, owner, returned>>
    BY <1>c DEF DeleteCommit, ClearGrants
  <1>2. /\ ListIDsByTenant' = ListIDsByTenant /\ InHand' = InHand \ {k} /\ InHand \subseteq Keys
    BY <1>t, <1>1 DEF ListIDsByTenant, InHand
  <1>3. \A j \in InHand \ {k} : owner'[j] = owner[j] /\ \A b \in buckets :
           held'[j][b] = held[j][b] /\ (<<j, b>> \in excused' <=> <<j, b>> \in excused)
    BY <1>1, <1>2
  <1>4. CASE k \in InHand
    <2>1. (returned \ keyRow)' = (returned \ keyRow) \cup {k}
      BY <1>1, <1>4 DEF InHand
    <2>2. Promised!Untouched(InHand', buckets)
      BY <1>1, <1>2, <1>3 DEF Promised!Untouched, Promised!Same
    <2>3. Promised!Revoke(k)
      BY <1>1, <1>2, <1>4, <2>1, <2>2 DEF Promised!Revoke
    <2>4. \E j \in Keys : Promised!Revoke(j) \/ \E q \in Principals : Promised!Issue(j, q)
      BY <2>3
    <2>5. QED
      BY <2>4 DEF Promised!Next, Seen
  <1>5. CASE k \notin InHand
    <2>1. Hidden
      BY <1>1, <1>2, <1>3, <1>5 DEF Hidden
    <2>2. QED
      BY <2>1, HiddenUnseen DEF Seen
  <1>6. QED
    BY <1>4, <1>5

\* A bucket goes with its policy; deleting it once more changes nothing.
LEMMA DeleteBucketRowSeen ==
    ASSUME AccessInv, PlacedInv, Promised!InPlace', NEW s \in Procs, DeleteBucketRow(s)
    PROVE  Seen
  <1>c. PICK B \in Buckets : B = bucketOf(s)
    BY CallTyped DEF AccessInv, DeleteBucketRow, At, Aimed, OfBucket, bucketOf
  <1>t. /\ buckets \subseteq Buckets /\ keyRow \subseteq Keys /\ policy \in [Buckets -> Documents]
        /\ held \in [Keys -> [Buckets -> SUBSET Commands]]
    BY DEF AccessInv, TypeOK, TablesOK
  <1>1. /\ buckets' = buckets \ {B} /\ policy' = [policy EXCEPT ![B] = NoPolicy]
        /\ held' = [k \in Keys |-> IF k \in call[s].keys THEN [held[k] EXCEPT ![B] = {}] ELSE held[k]]
        /\ excused' = excused \ (call[s].keys \X {B})
        /\ UNCHANGED <<principal, keyRow, owner, returned>>
    BY <1>c DEF DeleteBucketRow
  <1>2. /\ ListIDsByTenant' = ListIDsByTenant /\ InHand' = InHand /\ InHand \subseteq Keys
        /\ (returned \ keyRow)' = returned \ keyRow
    BY <1>t, <1>1 DEF ListIDsByTenant, InHand
  <1>3. \A k \in InHand, b \in buckets \ {B} :
           held'[k][b] = held[k][b] /\ (<<k, b>> \in excused' <=> <<k, b>> \in excused)
    BY <1>t, <1>1, <1>2
  <1>4. CASE B \in buckets
    <2>1. Promised!Untouched(InHand, buckets')
      BY <1>1, <1>2, <1>3 DEF Promised!Untouched, Promised!Same
    <2>2. Promised!DropBucket(B)
      BY <1>1, <1>2, <1>4, <2>1 DEF Promised!DropBucket
    <2>3. \E b \in Buckets : Promised!SetPolicy(b) \/ Promised!DropBucket(b)
      BY <2>2
    <2>4. QED
      BY <2>3 DEF Promised!Next, Seen
  <1>5. CASE B \notin buckets
    <2>1. policy[B] = NoPolicy
      BY <1>5 DEF PlacedInv, PoliciesHaveBuckets
    <2>2. policy' = policy /\ buckets' = buckets
      BY <1>t, <1>1, <1>5, <2>1
    <2>3. Hidden
      BY <1>1, <1>2, <1>3, <1>5, <2>2 DEF Hidden
    <2>4. QED
      BY <2>3, HiddenUnseen DEF Seen
  <1>6. QED
    BY <1>4, <1>5

-----------------------------------------------------------------------------
(***************************************************************************)
(* What a creation does before it answers is out of sight.                 *)
(***************************************************************************)
\* The tables change for keys that nobody was given.
LEMMA OwnHidden ==
    ASSUME NEW k, k \notin returned, UNCHANGED <<principal, buckets, policy, returned>>,
           keyRow' \in {keyRow, keyRow \cup {k}, keyRow \ {k}},
           \A j \in returned : owner'[j] = owner[j] /\ \A b \in buckets :
              held'[j][b] = held[j][b] /\ (<<j, b>> \in excused' <=> <<j, b>> \in excused)
    PROVE  Hidden
  BY DEF Hidden, InHand

LEMMA CreationHidden ==
    ASSUME AccessInv, GrantsInv, NEW s \in Procs,
           \/ WriteSecret(s) \/ AddKey(s) \/ StoreGrants(s) \/ RollbackGrants(s) \/ RollbackRow(s)
    PROVE  Hidden
  <1>t. /\ returned \subseteq Keys /\ buckets \subseteq Buckets
        /\ owner \in [Keys -> Principals \cup {None}]
        /\ held \in [Keys -> [Buckets -> SUBSET Commands]]
    BY DEF AccessInv, TypeOK, TablesOK
  <1>k. ASSUME call[s].pc \in Creating PROVE keyOf(s) \in Keys /\ keyOf(s) \notin returned
    BY <1>k, CreatesTyped
  <1>1. CASE WriteSecret(s)
    <2>1. PICK k \in Keys : owner[k] = None /\ owner' = [owner EXCEPT ![k] = principalOf(s)]
      BY <1>1 DEF WriteSecret
    <2>2. k \notin returned
      BY <2>1 DEF GrantsInv, KeysAreBound
    <2>3. UNCHANGED <<principal, buckets, policy, keyRow, held, returned, excused>>
      BY <1>1 DEF WriteSecret
    <2>4. \A j \in returned : owner'[j] = owner[j]
      BY <1>t, <2>1, <2>2
    <2>5. QED
      BY <2>2, <2>3, <2>4, OwnHidden
  <1>2. CASE AddKey(s)
    <2>1. keyOf(s) \notin returned
      BY <1>2, <1>k DEF AddKey, At, Creating
    <2>2. /\ UNCHANGED <<principal, buckets, policy, owner, held, returned, excused>>
          /\ keyRow' \in {keyRow, keyRow \cup {keyOf(s)}}
      BY <1>2 DEF AddKey
    <2>3. QED
      BY <2>1, <2>2, OwnHidden
  <1>3. CASE StoreGrants(s)
    <2>1. keyOf(s) \in Keys /\ keyOf(s) \notin returned
      BY <1>3, <1>k DEF StoreGrants, At, Creating
    <2>2. /\ UNCHANGED <<principal, buckets, policy, keyRow, owner, returned, excused>>
          /\ held' = held \/ held' = [held EXCEPT ![keyOf(s)] = Derived(s, call[s].snap)]
      BY <1>3 DEF StoreGrants
    <2>3. \A j \in returned : held'[j] = held[j]
      BY <1>t, <2>1, <2>2
    <2>4. QED
      BY <2>1, <2>2, <2>3, OwnHidden
  <1>4. CASE RollbackGrants(s)
    <2>1. keyOf(s) \in Keys /\ keyOf(s) \notin returned
      BY <1>4, <1>k DEF RollbackGrants, At, Creating, Undoing
    <2>2. /\ UNCHANGED <<principal, buckets, policy, keyRow, owner, returned>>
          /\ held' = [k \in Keys |-> IF k \in {keyOf(s)} THEN [b \in Buckets |-> {}] ELSE held[k]]
          /\ excused' = excused \ ({keyOf(s)} \X Buckets)
      BY <1>4 DEF RollbackGrants, ClearGrants
    <2>3. \A j \in returned : held'[j] = held[j] /\ \A b \in buckets :
             <<j, b>> \in excused' <=> <<j, b>> \in excused
      BY <1>t, <2>1, <2>2
    <2>4. QED
      BY <2>1, <2>2, <2>3, OwnHidden
  <1>5. CASE RollbackRow(s)
    <2>1. keyOf(s) \notin returned
      BY <1>5, <1>k DEF RollbackRow, At, Creating, Undoing
    <2>2. /\ UNCHANGED <<principal, buckets, policy, owner, held, returned, excused>>
          /\ keyRow' = keyRow \ {keyOf(s)}
      BY <1>5 DEF RollbackRow
    <2>3. QED
      BY <2>1, <2>2, OwnHidden
  <1>6. QED
    BY <1>1, <1>2, <1>3, <1>4, <1>5

-----------------------------------------------------------------------------
(***************************************************************************)
(* Step by step: the services.                                             *)
(***************************************************************************)
LEMMA HiddenPlaced ==
    ASSUME PlacedInv, NEW s, Hidden, Placed(s)'
    PROVE  PlacedStep(s)
  BY HiddenUnseen DEF PlacedInv, PoliciesHaveBuckets, PlacedStep, Seen, Hidden

LEMMA FailBare ==
    ASSUME TypeOK, NEW s \in Procs, NEW err, Fail(s, err)
    PROVE  call'[s].pc \in Bare
  <1>1. call'[s] = Idle(Outcome(s, err)) \/ call'[s].pc = "rbGrants"
    BY FailSets
  <1>2. "rbGrants" \in Bare
    BY DEF Bare, Labels, Preparing, PastRow, Rotating, Owning
  <1>3. QED
    BY <1>1, <1>2, EndBare

LEMMA FailPlaced ==
    ASSUME AccessInv, PlacedInv, NEW s \in Procs, NEW err, Fail(s, err), Quiet
    PROVE  PlacedStep(s)
  <1>1. Placed(s)'
    BY FailBare, BarePlaced DEF AccessInv
  <1>2. QED
    BY <1>1, QuietHidden, HiddenPlaced

\* Inside the callback: no strip comes here.
LEMMA CallbackPlaced ==
    ASSUME WriteInv, PlacedInv, NEW s \in Procs, Quiet, SameCore(s),
           call[s].pc \in Rotating, call'[s].pc \in PastRow
    PROVE  PlacedStep(s)
  <1>1. ~Strips(s) /\ bucketOf(s) \in buckets
    BY DEF WriteInv, Writes, ByKind, PlacedInv, Placed, Sited, PastRow
  <1>2. call'[s].bucket = call[s].bucket /\ call'[s].kind = call[s].kind /\ buckets' = buckets
    BY DEF SameCore, Quiet
  <1>3. Placed(s)'
    BY <1>1, <1>2 DEF Placed, Sited, OwnsKeys, StripsNamed, Strips, At, PastRow, Rotating, Owning,
                      bucketOf
  <1>4. QED
    BY <1>3, QuietHidden, HiddenPlaced

LEMMA PolicyPlaced ==
    ASSUME AccessInv, WriteInv, GrantsInv, PlacedInv, Promised!InPlace', NEW s \in Procs,
           PolicyStep(s)
    PROVE  PlacedStep(s)
  <1>. USE DEF At
  <1>c. TypeOK /\ Writes(s) /\ call[s] \in CallRecords
    BY CallTyped DEF AccessInv, WriteInv
  <1>q. ASSUME Quiet, Placed(s)' PROVE PlacedStep(s)
    BY <1>q, QuietHidden, HiddenPlaced
  <1>s. ASSUME Quiet, SameWork(s), call[s].pc \in Preparing, call'[s].pc \in Preparing,
               call'[s].pc = "row" => docOf(s) = NoPolicy \/ bucketOf(s) \in buckets
        PROVE  PlacedStep(s)
    <2>1. call'[s].pc \notin PastRow /\ call'[s].pc \notin Owning
      BY <1>s DEF Preparing, PastRow, Rotating, Owning
    <2>2. Placed(s)'
      BY <1>s, <2>1, SamePlaced DEF SameWork, Quiet
    <2>3. QED
      BY <1>q, <1>s, <2>2
  <1>1. CASE BeginWrite(s)
    <2>1. PICK b \in buckets, d \in Docs, m \in Conds :
            \/ call' = [call EXCEPT ![s] = [Idle("answered") EXCEPT
                            !.pc = "tenant", !.kind = "writePolicy",
                            !.bucket = b, !.doc = d, !.match = m]]
            \/ Finish(s, "answered")
      BY <1>1 DEF BeginWrite
    <2>. DEFINE c == [Idle("answered") EXCEPT !.pc = "tenant", !.kind = "writePolicy",
                        !.bucket = b, !.doc = d, !.match = m]
    <2>2. c.pc = "tenant" /\ c.kind = "writePolicy"
      BY DEF Idle
    <2>3. call' = [call EXCEPT ![s] = c] \/ Finish(s, "answered")
      BY <2>1
    <2>4. Quiet
      BY <1>1 DEF BeginWrite, tables, Quiet
    <2>. HIDE DEF c
    <2>5. CASE call' = [call EXCEPT ![s] = c]
      <3>1. call'[s] = c
        BY <1>c, <2>5, SetMoves
      <3>2. Placed(s)'
        BY <2>2, <3>1, NearPlaced DEF Preparing
      <3>3. QED
        BY <1>q, <2>4, <3>2
    <2>6. CASE Finish(s, "answered")
      BY <1>c, <1>q, <2>4, <2>6, FinishSets, EndBare, BarePlaced
    <2>7. QED
      BY <2>3, <2>5, <2>6
  <1>2. CASE BeginRemove(s)
    <2>1. PICK b \in buckets, m \in Conds :
            call' = [call EXCEPT ![s] = [Idle("answered") EXCEPT
                       !.pc = "bucket", !.kind = "removePolicy",
                       !.bucket = b, !.doc = NoPolicy, !.match = m]]
      BY <1>2 DEF BeginRemove
    <2>. DEFINE c == [Idle("answered") EXCEPT !.pc = "bucket", !.kind = "removePolicy",
                        !.bucket = b, !.doc = NoPolicy, !.match = m]
    <2>2. c.pc = "bucket" /\ c.kind = "removePolicy"
      BY DEF Idle
    <2>3. call' = [call EXCEPT ![s] = c]
      BY <2>1
    <2>. HIDE DEF c
    <2>4. call'[s] = c
      BY <1>c, <2>3, SetMoves
    <2>5. Placed(s)'
      BY <2>2, <2>4, NearPlaced DEF Preparing
    <2>6. QED
      BY <1>2, <1>q, <2>5 DEF BeginRemove, tables, Quiet
  <1>3. CASE TakeTenant(s)
    <2>. DEFINE W == Named(docOf(s))
                l == IF W = {} THEN "bucket" ELSE "named"
    <2>1. call' = [call EXCEPT ![s].want = W, ![s].pc = l] /\ call[s].pc = "tenant" /\ Quiet
      BY <1>3 DEF TakeTenant, tables, Quiet
    <2>2. l \in {"bucket", "named"}
      OBVIOUS
    <2>. HIDE DEF W, l
    <2>3. SameWork(s) /\ call'[s].pc \in {"bucket", "named"}
      BY <1>c, <2>1, <2>2, SetWant
    <2>4. QED
      BY <1>s, <2>1, <2>3 DEF Preparing
  <1>4. CASE RequireLive(s)
    <2>1. PICK p \in call[s].want :
            \/ Fail(s, "invalid")
            \/ call' = Looped(s, p, "named", "bucket")
      BY <1>4 DEF RequireLive
    <2>2. Quiet /\ call[s].pc = "named"
      BY <1>4 DEF RequireLive, tables, Quiet
    <2>3. CASE call' = Looped(s, p, "named", "bucket")
      <3>1. SameWork(s) /\ call'[s].pc \in {"named", "bucket"}
        BY <1>c, <2>3, LoopedSets
      <3>2. QED
        BY <1>s, <2>2, <3>1 DEF Preparing
    <2>4. QED
      BY <2>1, <2>2, <2>3, FailPlaced
  <1>5. CASE TakeBucket(s)
    <2>1. SameWork(s) /\ call'[s].pc = IF docOf(s) = NoPolicy THEN "row" ELSE "bucketRow"
      BY <1>5, <1>c, GotoSets DEF TakeBucket
    <2>2. call[s].pc = "bucket" /\ Quiet
      BY <1>5 DEF TakeBucket, tables, Quiet
    <2>3. QED
      BY <1>s, <2>1, <2>2 DEF Preparing
  <1>6. CASE TakeBucketRow(s)
    <2>1. /\ Quiet /\ call[s].pc = "bucketRow"
          /\ Fail(s, "notfound") \/ (Goto(s, "row") /\ bucketOf(s) \in buckets)
      BY <1>6 DEF TakeBucketRow, tables, Quiet
    <2>2. CASE Goto(s, "row") /\ bucketOf(s) \in buckets
      <3>1. SameWork(s) /\ call'[s].pc = "row"
        BY <2>2, <1>c, GotoSets
      <3>2. QED
        BY <1>s, <2>1, <2>2, <3>1 DEF Preparing
    <2>3. QED
      BY <2>1, <2>2, FailPlaced
  <1>7. CASE LockRow(s)
    <2>. DEFINE old == policy[bucketOf(s)]
                l == IF call[s].kind = "removePrincipal" THEN "commit" ELSE "relist"
                err == Refusal(s, old)
    <2>1. Quiet /\ call[s].pc = "row" /\ bucketOf(s) \in Buckets
      BY <1>7, CallTyped DEF LockRow, tables, Quiet, AccessInv, Aimed, OfBucket, bucketOf
    <2>2. \/ Goto(s, "strip")
          \/ Fail(s, err)
          \/ call' = [call EXCEPT ![s].old = old, ![s].pc = l] /\ err = "none"
      BY <1>7 DEF LockRow
    <2>3. bucketOf(s) \in buckets \/ err # "none"
      <3>1. CASE docOf(s) # NoPolicy
        BY <2>1, <3>1 DEF PlacedInv, Placed, Sited
      <3>2. CASE docOf(s) = NoPolicy /\ old = NoPolicy
        BY <3>2 DEF Refusal
      <3>3. CASE old # NoPolicy
        BY <2>1, <3>3 DEF PlacedInv, PoliciesHaveBuckets
      <3>4. QED
        BY <3>1, <3>2, <3>3
    <2>4. l \in {"commit", "relist"} /\ (l = "commit" <=> Strips(s))
      BY DEF Strips
    <2>. HIDE DEF old, l, err
    <2>5. CASE call' = [call EXCEPT ![s].old = old, ![s].pc = l] /\ err = "none"
      <3>1. SameCore(s) /\ SameKeys(s) /\ SameSnap(s) /\ call'[s].pc = l
        BY <1>c, <2>5, SetOld
      <3>2. l \notin Owning /\ l # "row" /\ l \notin Preparing
        BY <2>4 DEF Owning, Preparing
      <3>3. Placed(s)'
        BY <2>1, <2>3, <2>4, <2>5, <3>1, <3>2, SamePlaced DEF Preparing, Quiet
      <3>4. QED
        BY <1>q, <2>1, <3>3
    <2>6. CASE Goto(s, "strip")
      <3>1. call'[s].pc \in Bare
        BY <1>c, <2>6, GotoSets DEF Bare, Labels, Preparing, PastRow, Rotating, Owning
      <3>2. QED
        BY <1>q, <2>1, <3>1, BarePlaced
    <2>7. QED
      BY <2>1, <2>2, <2>5, <2>6, FailPlaced
  <1>8. CASE Relist(s)
    <2>. DEFINE aff == Changed(call[s].old, docOf(s), ListIDsByTenant)
                l == IF aff = {} THEN "commit" ELSE "lockP"
    <2>1. /\ Quiet /\ call[s].pc = "relist"
          /\ \/ Fail(s, "invalid")
             \/ call' = [call EXCEPT ![s].aff = aff, ![s].want = aff, ![s].pc = l]
      BY <1>8 DEF Relist, tables, Quiet
    <2>2. l \in {"commit", "lockP"}
      OBVIOUS
    <2>. HIDE DEF aff, l
    <2>3. CASE call' = [call EXCEPT ![s].aff = aff, ![s].want = aff, ![s].pc = l]
      <3>1. SameCore(s) /\ call'[s].pc = l
        BY <1>c, <2>3, SetAff
      <3>2. QED
        BY <2>1, <2>2, <3>1, CallbackPlaced DEF PastRow, Rotating
    <2>4. QED
      BY <2>1, <2>3, FailPlaced
  <1>9. CASE LockPrincipals(s)
    <2>1. PICK p \in Principals : call' = Looped(s, p, "lockP", "load")
      BY <1>9 DEF LockPrincipals
    <2>2. SameCore(s) /\ call'[s].pc \in {"lockP", "load"}
      BY <1>c, <2>1, LoopedSets DEF SameWork
    <2>3. Quiet /\ call[s].pc = "lockP"
      BY <1>9 DEF LockPrincipals, tables, Quiet
    <2>4. QED
      BY <2>2, <2>3, CallbackPlaced DEF PastRow, Rotating
  <1>10. CASE Load(s)
    <2>. DEFINE ks == KeysOf(call[s].aff)
                l == IF ks = {} THEN "commit" ELSE "lockK"
    <2>1. /\ call' = [call EXCEPT ![s].keys = ks, ![s].want = ks, ![s].pc = l]
          /\ Quiet /\ call[s].pc = "load"
      BY <1>10 DEF Load, tables, Quiet
    <2>2. l \in {"commit", "lockK"}
      OBVIOUS
    <2>. HIDE DEF ks, l
    <2>3. SameCore(s) /\ call'[s].pc = l
      BY <1>c, <2>1, SetKeys
    <2>4. QED
      BY <2>1, <2>2, <2>3, CallbackPlaced DEF PastRow, Rotating
  <1>11. CASE LockRotated(s)
    <2>1. SameCore(s) /\ call'[s].pc \in {"lockK", "publish"} /\ UNCHANGED tables
      BY <1>11, AudienceSets DEF LockRotated, SameWork
    <2>2. Quiet /\ call[s].pc = "lockK"
      BY <1>11, <2>1 DEF LockRotated, LockAudiences, tables, Quiet
    <2>3. QED
      BY <2>1, <2>2, CallbackPlaced DEF PastRow, Rotating
  <1>12. CASE Rotate(s)
    <2>. DEFINE ks == call[s].keys \cap keyRow
    <2>1. /\ Quiet /\ call[s].pc = "publish"
          /\ Fail(s, "error") \/ call' = [call EXCEPT ![s].fresh = ks, ![s].pc = "commit"]
      BY <1>12 DEF Rotate, PublishRevocations, Quiet
    <2>. HIDE DEF ks
    <2>2. CASE call' = [call EXCEPT ![s].fresh = ks, ![s].pc = "commit"]
      <3>1. SameCore(s) /\ call'[s].pc = "commit"
        BY <1>c, <2>2, SetFresh
      <3>2. QED
        BY <2>1, <3>1, CallbackPlaced DEF PastRow, Rotating
    <2>3. QED
      BY <2>1, <2>2, FailPlaced
  <1>13. CASE Commit(s)
    <2>1. Goto(s, "strip") \/ Finish(s, "answered")
      BY <1>13 DEF Commit
    <2>2. call'[s].pc \in Bare
      <3>1. CASE Goto(s, "strip")
        BY <1>c, <3>1, GotoSets DEF Bare, Labels, Preparing, PastRow, Rotating, Owning
      <3>2. QED
        BY <1>c, <2>1, <3>1, FinishSets, EndBare
    <2>3. Placed(s)'
      BY <2>2, BarePlaced
    <2>4. bucketOf(s) \in buckets
      BY <1>13 DEF Commit, PlacedInv, Placed, Sited, PastRow
    <2>5. policy' = [policy EXCEPT ![bucketOf(s)] = docOf(s)] /\ UNCHANGED buckets
      BY <1>13 DEF Commit
    <2>6. PoliciesHaveBuckets'
      BY <1>c, <2>4, <2>5 DEF PlacedInv, PoliciesHaveBuckets, TypeOK, TablesOK
    <2>7. Seen
      BY <1>13, CommitSeen
    <2>8. QED
      BY <2>3, <2>5, <2>6, <2>7 DEF PlacedStep
  <1>14. QED
    BY <1>1, <1>2, <1>3, <1>4, <1>5, <1>6, <1>7, <1>8, <1>9, <1>10, <1>11, <1>12, <1>13
       DEF PolicyStep

\* The table changes of a whole operation, none of them a bucket's.
LEMMA SeenPlaced ==
    ASSUME PlacedInv, NEW s, UNCHANGED <<buckets, policy>>, Seen, Placed(s)'
    PROVE  PlacedStep(s)
  BY DEF PlacedInv, PoliciesHaveBuckets, PlacedStep

\* The locks on delegations, on the way of a removal.
LEMMA OwningPlaced ==
    ASSUME PlacedInv, NEW s \in Procs, Hidden, SameWork(s), UNCHANGED owner,
           call[s].pc \in Owning, call'[s].pc \in Owning
    PROVE  PlacedStep(s)
  <1>1. /\ call'[s].pc \notin PastRow /\ call'[s].pc # "row"
        /\ call'[s].pc \notin Preparing \cup {"commit"}
    BY DEF Owning, PastRow, Preparing, Rotating
  <1>2. Placed(s)'
    BY <1>1, SamePlaced DEF SameWork, Hidden
  <1>3. QED
    BY <1>2, HiddenPlaced

\* A removal lists the keys of its principal.
LEMMA LoadPlaced ==
    ASSUME TypeOK, PlacedInv, NEW s \in Procs, Quiet, NEW l \in Bare \cup Owning,
           NEW ks, \A k \in ks : owner[k] = principalOf(s),
           call' = [call EXCEPT ![s].keys = ks, ![s].want = ks, ![s].pc = l]
    PROVE  PlacedStep(s)
  <1>1. call'[s].keys = ks /\ call'[s].pc = l /\ SameCore(s)
    BY SetKeys
  <1>2. owner' = owner
    BY DEF Quiet
  <1>3. OwnsKeys(s)'
    BY <1>1, <1>2 DEF OwnsKeys, SameCore, principalOf
  <1>4. call'[s].pc \notin PastRow /\ call'[s].pc \notin Preparing \cup {"commit"}
    BY <1>1 DEF Owning, Bare, PastRow, Preparing, Rotating
  <1>5. Placed(s)'
    BY <1>3, <1>4 DEF Placed, Sited, StripsNamed, At, Preparing
  <1>6. QED
    BY <1>5, QuietHidden, HiddenPlaced

\* The next policy of a removal is one that names its principal.
LEMMA StripPlaced ==
    ASSUME AccessInv, WriteInv, PlacedInv, NEW s \in Procs, StripPolicy(s)
    PROVE  PlacedStep(s)
  <1>c. TypeOK /\ call[s] \in CallRecords /\ call[s].pc = "strip" /\ Quiet
    BY CallTyped DEF AccessInv, StripPolicy, At, tables, Quiet
  <1>1. PICK b \in call[s].todo :
          LET old == call[s].snap[b]
              new == RemovePrincipal(old, principalOf(s))
          IN  call' = [call EXCEPT ![s].todo = @ \ {b}, ![s].bucket = b, ![s].doc = new,
                                   ![s].match = IfMatch(ETag(old)),
                                   ![s].pc = StripWrite(s, old, new)]
    BY DEF StripPolicy
  <1>. DEFINE old == call[s].snap[b]
              new == RemovePrincipal(old, principalOf(s))
              l == StripWrite(s, old, new)
              m == IfMatch(ETag(old))
              t == call[s].todo \ {b}
  <1>. DEFINE c == [call[s] EXCEPT !.todo = t, !.bucket = b, !.doc = new, !.match = m, !.pc = l]
  <1>2. call' = [call EXCEPT ![s] = c]
    BY <1>1
  <1>. HIDE DEF t, new, m, c
  <1>3. l = "strip" \/ (l \in {"bucket", "tenant"} /\ principalOf(s) \in Named(old))
    BY DEF StripWrite
  <1>. HIDE DEF l
  <1>4. c.pc = l /\ c.bucket = b /\ c.principal = call[s].principal /\ c.snap = call[s].snap
    BY <1>c DEF CallRecords, c
  <1>5. /\ call'[s].pc = l /\ call'[s].bucket = b
        /\ call'[s].principal = call[s].principal /\ call'[s].snap = call[s].snap
    BY <1>c, <1>2, <1>4, SetMoves
  <1>6. Sited(s)' /\ OwnsKeys(s)'
    BY <1>3, <1>5 DEF Sited, OwnsKeys, Owning, PastRow, Rotating, At
  <1>7. StripsNamed(s)'
    BY <1>3, <1>5 DEF StripsNamed, Preparing, principalOf, bucketOf
  <1>8. QED
    BY <1>c, <1>6, <1>7, QuietHidden, HiddenPlaced DEF Placed

LEMMA PrincipalPlaced ==
    ASSUME AccessInv, WriteInv, GrantsInv, PlacedInv, Promised!InPlace', NEW s \in Procs,
           PrincipalStep(s)
    PROVE  PlacedStep(s)
  <1>. USE DEF At
  <1>c. TypeOK
    BY DEF AccessInv
  <1>b. {"idle", "addTenant", "addRow", "addGet", "rvLoad", "stripList", "strip", "tomb",
         "tombCheck", "tombKeys"} \subseteq Bare
    BY DEF Bare, Labels, Preparing, PastRow, Rotating, Owning
  <1>q. ASSUME Quiet, call'[s].pc \in Bare PROVE PlacedStep(s)
    BY <1>q, BarePlaced, QuietHidden, HiddenPlaced
  <1>s. ASSUME UNCHANGED <<buckets, policy>>, Seen, call'[s].pc \in Bare PROVE PlacedStep(s)
    BY <1>s, BarePlaced, SeenPlaced
  <1>g. ASSUME NEW l, Goto(s, l), l \in Bare PROVE call'[s].pc \in Bare
    BY <1>c, <1>g, GotoSets
  <1>f. ASSUME NEW res, Finish(s, res) PROVE call'[s].pc \in Bare
    BY <1>c, <1>f, FinishSets, EndBare
  <1>w. ASSUME NEW l, Goto(s, l), Quiet, call[s].pc \in Owning, l \in Owning
        PROVE  PlacedStep(s)
    BY <1>c, <1>w, GotoSets, QuietHidden, OwningPlaced DEF Quiet
  <1>1. CASE BeginCreatePrincipal(s)
    <2>1. PICK p \in Principals :
            call' = [call EXCEPT ![s] = [Idle("answered") EXCEPT !.pc = "addTenant",
                        !.kind = "createPrincipal", !.principal = p]]
      BY <1>1 DEF BeginCreatePrincipal
    <2>. DEFINE c == [Idle("answered") EXCEPT !.pc = "addTenant",
                        !.kind = "createPrincipal", !.principal = p]
    <2>2. c.pc = "addTenant"
      BY DEF Idle
    <2>3. call' = [call EXCEPT ![s] = c]
      BY <2>1
    <2>. HIDE DEF c
    <2>4. call'[s].pc = "addTenant"
      BY <1>c, <2>2, <2>3, SetMoves
    <2>5. QED
      BY <1>1, <1>b, <1>q, <2>4 DEF BeginCreatePrincipal, tables, Quiet
  <1>2. CASE AddTenant(s)
    <2>1. Goto(s, "addRow") /\ Quiet
      BY <1>2 DEF AddTenant, tables, Quiet
    <2>2. QED
      BY <1>b, <1>g, <1>q, <2>1
  <1>3. CASE AddRow(s)
    <2>1. Goto(s, "addGet") /\ UNCHANGED <<buckets, policy>>
      BY <1>3 DEF AddRow
    <2>2. QED
      BY <1>3, <1>b, <1>g, <1>s, <2>1, AddRowSeen
  <1>4. CASE AddGet(s)
    <2>1. Finish(s, "answered") /\ Quiet
      BY <1>4 DEF AddGet, tables, Quiet
    <2>2. QED
      BY <1>f, <1>q, <2>1
  <1>5. CASE BeginDeletePrincipal(s)
    <2>1. PICK p \in Principals :
            call' = [call EXCEPT ![s] = [Idle("answered") EXCEPT !.pc = "rvLoad",
                        !.kind = "removePrincipal", !.principal = p]]
      BY <1>5 DEF BeginDeletePrincipal
    <2>. DEFINE c == [Idle("answered") EXCEPT !.pc = "rvLoad",
                        !.kind = "removePrincipal", !.principal = p]
    <2>2. c.pc = "rvLoad"
      BY DEF Idle
    <2>3. call' = [call EXCEPT ![s] = c]
      BY <2>1
    <2>. HIDE DEF c
    <2>4. call'[s].pc = "rvLoad"
      BY <1>c, <2>2, <2>3, SetMoves
    <2>5. QED
      BY <1>5, <1>b, <1>q, <2>4 DEF BeginDeletePrincipal, tables, Quiet
  <1>6. CASE RevokeLoad(s)
    <2>. DEFINE ks == KeysOf({principalOf(s)})
                l == IF ks = {} THEN "stripList" ELSE "rvLock"
    <2>1. /\ call' = [call EXCEPT ![s].keys = ks, ![s].want = ks, ![s].pc = l]
          /\ Quiet /\ \A k \in ks : owner[k] = principalOf(s)
      BY <1>6 DEF RevokeLoad, KeysOf, tables, Quiet
    <2>2. l \in {"stripList", "rvLock"}
      OBVIOUS
    <2>. HIDE DEF ks, l
    <2>3. l \in Bare \cup Owning
      BY <2>2, <1>b DEF Owning
    <2>4. QED
      BY <1>c, <2>1, <2>3, LoadPlaced
  <1>7. CASE RevokeLock(s)
    <2>1. SameWork(s) /\ call'[s].pc \in {"rvLock", "rvPublish"} /\ UNCHANGED tables
      BY <1>7, AudienceSets DEF RevokeLock
    <2>2. Quiet /\ call[s].pc = "rvLock" /\ owner' = owner
      BY <1>7, <2>1 DEF RevokeLock, LockAudiences, tables, Quiet
    <2>3. QED
      BY <2>1, <2>2, QuietHidden, OwningPlaced DEF Owning
  <1>8. CASE RevokePublish(s)
    <2>1. /\ Quiet /\ call[s].pc = "rvPublish"
          /\ Goto(s, "rvCommit") \/ Fail(s, "error")
      BY <1>8 DEF RevokePublish, PublishRevocations, Quiet
    <2>2. QED
      BY <1>w, <2>1, FailPlaced DEF Owning
  <1>9. CASE RevokeCommit(s)
    <2>1. /\ call' = [call EXCEPT ![s].keys = {}, ![s].pc = "stripList"]
          /\ UNCHANGED <<buckets, policy>>
      BY <1>9 DEF RevokeCommit
    <2>2. call'[s].pc = "stripList"
      BY <1>c, <2>1, SetKeysOnly
    <2>3. QED
      BY <1>9, <1>b, <1>s, <2>1, <2>2, RevokeCommitSeen
  <1>10. CASE StripList(s)
    <2>. DEFINE bs == ListByPrincipal(principalOf(s))
    <2>1. call' = [call EXCEPT ![s].todo = bs, ![s].snap = policy, ![s].pc = "strip"] /\ Quiet
      BY <1>10 DEF StripList, tables, Quiet
    <2>. HIDE DEF bs
    <2>2. call'[s].pc = "strip"
      BY <1>c, <2>1, SetListed
    <2>3. QED
      BY <1>b, <1>q, <2>1, <2>2
  <1>11. CASE StripDone(s)
    <2>1. Goto(s, "tomb") /\ Quiet
      BY <1>11 DEF StripDone, tables, Quiet
    <2>2. QED
      BY <1>b, <1>g, <1>q, <2>1
  <1>12. CASE Tombstone(s)
    <2>1. Quiet /\ (Finish(s, "answered") \/ Goto(s, "tombCheck"))
      BY <1>12 DEF Tombstone, tables, Quiet
    <2>2. QED
      BY <1>b, <1>f, <1>g, <1>q, <2>1
  <1>13. CASE NamedAgain(s)
    <2>1. Quiet /\ (Fail(s, "concurrent") \/ Goto(s, "tombKeys"))
      BY <1>13 DEF NamedAgain, tables, Quiet
    <2>2. QED
      BY <1>b, <1>g, <1>q, <2>1, FailPlaced
  <1>14. CASE RemoveLoad(s)
    <2>. DEFINE ks == KeysOf({principalOf(s)})
                l == IF ks = {} THEN "tombCommit" ELSE "tombLock"
    <2>1. /\ call' = [call EXCEPT ![s].keys = ks, ![s].want = ks, ![s].pc = l]
          /\ Quiet /\ \A k \in ks : owner[k] = principalOf(s)
      BY <1>14 DEF RemoveLoad, KeysOf, tables, Quiet
    <2>2. l \in {"tombCommit", "tombLock"}
      OBVIOUS
    <2>. HIDE DEF ks, l
    <2>3. l \in Bare \cup Owning
      BY <2>2 DEF Owning
    <2>4. QED
      BY <1>c, <2>1, <2>3, LoadPlaced
  <1>15. CASE RemoveLock(s)
    <2>1. SameWork(s) /\ call'[s].pc \in {"tombLock", "tombPublish"} /\ UNCHANGED tables
      BY <1>15, AudienceSets DEF RemoveLock
    <2>2. Quiet /\ call[s].pc = "tombLock" /\ owner' = owner
      BY <1>15, <2>1 DEF RemoveLock, LockAudiences, tables, Quiet
    <2>3. QED
      BY <2>1, <2>2, QuietHidden, OwningPlaced DEF Owning
  <1>16. CASE RemovePublish(s)
    <2>1. /\ Quiet /\ call[s].pc = "tombPublish"
          /\ Goto(s, "tombSecrets") \/ Fail(s, "error")
      BY <1>16 DEF RemovePublish, PublishRevocations, Quiet
    <2>2. QED
      BY <1>w, <2>1, FailPlaced DEF Owning
  <1>17. CASE RemoveSecrets(s)
    <2>1. Goto(s, "tombCommit") /\ Quiet /\ call[s].pc = "tombSecrets"
      BY <1>17 DEF RemoveSecrets, Quiet
    <2>2. QED
      BY <1>w, <2>1 DEF Owning
  <1>18. CASE TombstoneCommit(s)
    <2>1. Finish(s, "answered") /\ UNCHANGED <<buckets, policy>>
      BY <1>18 DEF TombstoneCommit
    <2>2. QED
      BY <1>18, <1>f, <1>s, <2>1, TombstoneCommitSeen
  <1>19. QED
    BY <1>1, <1>2, <1>3, <1>4, <1>5, <1>6, <1>7, <1>8, <1>9, <1>10, <1>11, <1>12, <1>13,
       <1>14, <1>15, <1>16, <1>17, <1>18, StripPlaced DEF PrincipalStep

LEMMA KeyPlaced ==
    ASSUME AccessInv, WriteInv, GrantsInv, PlacedInv, Promised!InPlace', NEW s \in Procs,
           AccessKeyStep(s)
    PROVE  PlacedStep(s)
  <1>c. TypeOK
    BY DEF AccessInv
  <1>b. {"idle", "ckPrincipal", "ckSecret", "ckAdd", "ckSnap", "ckRows", "ckStore", "ckGet",
         "rbGrants", "rbRow", "rbSecret", "kdLock", "kdPublish", "kdCommit", "kdSecret"}
            \subseteq Bare
    BY DEF Bare, Labels, Preparing, PastRow, Rotating, Owning
  <1>h. ASSUME Hidden, call'[s].pc \in Bare PROVE PlacedStep(s)
    BY <1>h, BarePlaced, HiddenPlaced
  <1>q. ASSUME Quiet, call'[s].pc \in Bare PROVE PlacedStep(s)
    BY <1>h, <1>q, QuietHidden
  <1>s. ASSUME UNCHANGED <<buckets, policy>>, Seen, call'[s].pc \in Bare PROVE PlacedStep(s)
    BY <1>s, BarePlaced, SeenPlaced
  <1>g. ASSUME NEW l, Goto(s, l), l \in Bare PROVE call'[s].pc \in Bare
    BY <1>c, <1>g, GotoSets
  <1>f. ASSUME NEW res, Finish(s, res) PROVE call'[s].pc \in Bare
    BY <1>c, <1>f, FinishSets, EndBare
  <1>e. ASSUME NEW err, Fail(s, err) PROVE call'[s].pc \in Bare
    BY <1>c, <1>e, FailBare
  <1>1. CASE BeginCreateKey(s)
    <2>1. PICK p \in Principals :
            call' = [call EXCEPT ![s] = [Idle("answered") EXCEPT !.pc = "ckPrincipal",
                        !.kind = "createKey", !.principal = p]]
      BY <1>1 DEF BeginCreateKey
    <2>. DEFINE c == [Idle("answered") EXCEPT !.pc = "ckPrincipal",
                        !.kind = "createKey", !.principal = p]
    <2>2. c.pc = "ckPrincipal"
      BY DEF Idle
    <2>3. call' = [call EXCEPT ![s] = c]
      BY <2>1
    <2>. HIDE DEF c
    <2>4. call'[s].pc = "ckPrincipal"
      BY <1>c, <2>2, <2>3, SetMoves
    <2>5. QED
      BY <1>1, <1>b, <1>q, <2>4 DEF BeginCreateKey, tables, Quiet
  <1>2. CASE FindPrincipal(s)
    <2>1. Quiet /\ (Goto(s, "ckSecret") \/ Finish(s, "answered"))
      BY <1>2 DEF FindPrincipal, tables, Quiet
    <2>2. QED
      BY <1>b, <1>f, <1>g, <1>q, <2>1
  <1>3. CASE WriteSecret(s)
    <2>1. PICK k \in Keys : call' = [call EXCEPT ![s].key = k, ![s].pc = "ckAdd"]
      BY <1>3 DEF WriteSecret
    <2>2. call'[s].pc = "ckAdd"
      BY <1>c, <2>1, SetKey
    <2>3. QED
      BY <1>3, <1>b, <1>h, <2>2, CreationHidden
  <1>4. CASE AddKey(s)
    <2>1. Goto(s, "ckSnap") \/ Fail(s, "invalid")
      BY <1>4 DEF AddKey
    <2>2. QED
      BY <1>4, <1>b, <1>e, <1>g, <1>h, <2>1, CreationHidden
  <1>l. ASSUME NEW docs PROVE AfterListing(s, docs) \in {"ckStore", "ckGet"}
    BY DEF AfterListing
  <1>5. CASE ListSnapshot(s)
    <2>. DEFINE bs == ListByPrincipal(principalOf(s))
                l == IF bs = {} THEN AfterListing(s, NoDocs) ELSE "ckRows"
    <2>1. call' = [call EXCEPT ![s].want = bs, ![s].pc = l] /\ Quiet
      BY <1>5 DEF ListSnapshot, tables, Quiet
    <2>2. l \in {"ckRows", "ckStore", "ckGet"}
      BY <1>l
    <2>. HIDE DEF bs, l
    <2>3. call'[s].pc = l
      BY <1>c, <2>1, SetWant
    <2>4. QED
      BY <1>b, <1>q, <2>1, <2>2, <2>3
  <1>6. CASE ListRows(s)
    <2>1. PICK b \in Buckets :
            call' = [call EXCEPT ![s].want = call[s].want \ {b},
                       ![s].snap = [call[s].snap EXCEPT ![b] = policy[b]],
                       ![s].pc = IF call[s].want = {b}
                                 THEN AfterListing(s, [call[s].snap EXCEPT ![b] = policy[b]])
                                 ELSE "ckRows"]
      BY <1>6 DEF ListRows
    <2>. DEFINE w == call[s].want \ {b}
                docs == [call[s].snap EXCEPT ![b] = policy[b]]
                l == IF call[s].want = {b} THEN AfterListing(s, docs) ELSE "ckRows"
    <2>2. call' = [call EXCEPT ![s].want = w, ![s].snap = docs, ![s].pc = l]
      BY <2>1
    <2>3. l \in {"ckRows", "ckStore", "ckGet"}
      BY <1>l
    <2>. HIDE DEF w, docs, l
    <2>4. call'[s].pc = l
      BY <1>c, <2>2, SetRead
    <2>5. QED
      BY <1>6, <1>b, <1>q, <2>3, <2>4 DEF ListRows, tables, Quiet
  <1>7. CASE StoreGrants(s)
    <2>1. Goto(s, "ckGet") \/ Fail(s, "refused")
      BY <1>7 DEF StoreGrants
    <2>2. QED
      BY <1>7, <1>b, <1>e, <1>g, <1>h, <2>1, CreationHidden
  <1>8. CASE ReturnKey(s)
    <2>1. (Finish(s, "answered") \/ Fail(s, "notfound")) /\ UNCHANGED <<buckets, policy>>
      BY <1>8 DEF ReturnKey
    <2>2. QED
      BY <1>8, <1>e, <1>f, <1>s, <2>1, ReturnKeySeen
  <1>9. CASE RollbackGrants(s)
    <2>1. Goto(s, "rbRow")
      BY <1>9 DEF RollbackGrants
    <2>2. QED
      BY <1>9, <1>b, <1>g, <1>h, <2>1, CreationHidden
  <1>10. CASE RollbackRow(s)
    <2>1. Goto(s, "rbSecret")
      BY <1>10 DEF RollbackRow
    <2>2. QED
      BY <1>10, <1>b, <1>g, <1>h, <2>1, CreationHidden
  <1>11. CASE RollbackSecret(s)
    <2>1. Quiet /\ Finish(s, call[s].res)
      BY <1>11 DEF RollbackSecret, Quiet
    <2>2. QED
      BY <1>f, <1>q, <2>1
  <1>12. CASE BeginDeleteKey(s)
    <2>1. PICK k \in keyRow :
            call' = [call EXCEPT ![s] = [Idle("answered") EXCEPT !.pc = "kdLock",
                        !.kind = "deleteKey", !.key = k, !.keys = {k}, !.want = {k}]]
      BY <1>12 DEF BeginDeleteKey
    <2>. DEFINE c == [Idle("answered") EXCEPT !.pc = "kdLock",
                        !.kind = "deleteKey", !.key = k, !.keys = {k}, !.want = {k}]
    <2>2. c.pc = "kdLock"
      BY DEF Idle
    <2>3. call' = [call EXCEPT ![s] = c]
      BY <2>1
    <2>. HIDE DEF c
    <2>4. call'[s].pc = "kdLock"
      BY <1>c, <2>2, <2>3, SetMoves
    <2>5. QED
      BY <1>12, <1>b, <1>q, <2>4 DEF BeginDeleteKey, tables, Quiet
  <1>13. CASE DeleteLock(s)
    <2>1. call'[s].pc \in {"kdLock", "kdPublish"} /\ Quiet
      BY <1>13, AudienceSets DEF DeleteLock, tables, Quiet
    <2>2. QED
      BY <1>b, <1>q, <2>1
  <1>14. CASE DeletePublish(s)
    <2>1. Quiet /\ (Goto(s, "kdCommit") \/ Fail(s, "error"))
      BY <1>14 DEF DeletePublish, PublishRevocations, Quiet
    <2>2. QED
      BY <1>b, <1>e, <1>g, <1>q, <2>1
  <1>15. CASE DeleteCommit(s)
    <2>1. Goto(s, "kdSecret") /\ UNCHANGED <<buckets, policy>>
      BY <1>15 DEF DeleteCommit
    <2>2. QED
      BY <1>15, <1>b, <1>g, <1>s, <2>1, DeleteCommitSeen
  <1>16. CASE DeleteSecret(s)
    <2>1. Quiet /\ Finish(s, "answered")
      BY <1>16 DEF DeleteSecret, Quiet
    <2>2. QED
      BY <1>f, <1>q, <2>1
  <1>17. QED
    BY <1>1, <1>2, <1>3, <1>4, <1>5, <1>6, <1>7, <1>8, <1>9, <1>10, <1>11, <1>12, <1>13,
       <1>14, <1>15, <1>16 DEF AccessKeyStep

-----------------------------------------------------------------------------
(***************************************************************************)
(* Bucket deletion and faults.                                             *)
(***************************************************************************)
LEMMA BucketPlaced ==
    ASSUME AccessInv, WriteInv, GrantsInv, PlacedInv, Promised!InPlace', NEW s \in Procs,
           BucketStep(s)
    PROVE  PlacedStep(s)
  <1>. USE DEF At
  <1>c. TypeOK
    BY DEF AccessInv
  <1>b. {"idle", "dbLock", "dbRevoke", "dbAudiences", "dbLockK", "dbDelete", "dbCommit"}
            \subseteq Bare
    BY DEF Bare, Labels, Preparing, PastRow, Rotating, Owning
  <1>q. ASSUME Quiet, call'[s].pc \in Bare PROVE PlacedStep(s)
    BY <1>q, BarePlaced, QuietHidden, HiddenPlaced
  <1>g. ASSUME NEW l, Goto(s, l), l \in Bare PROVE call'[s].pc \in Bare
    BY <1>c, <1>g, GotoSets
  <1>1. CASE BeginDeleteBucket(s)
    <2>1. PICK b \in buckets :
            call' = [call EXCEPT ![s] = [Idle("answered") EXCEPT !.pc = "dbLock",
                        !.kind = "deleteBucket", !.bucket = b]]
      BY <1>1 DEF BeginDeleteBucket
    <2>. DEFINE c == [Idle("answered") EXCEPT !.pc = "dbLock",
                        !.kind = "deleteBucket", !.bucket = b]
    <2>2. c.pc = "dbLock"
      BY DEF Idle
    <2>3. call' = [call EXCEPT ![s] = c]
      BY <2>1
    <2>. HIDE DEF c
    <2>4. call'[s].pc = "dbLock"
      BY <1>c, <2>2, <2>3, SetMoves
    <2>5. QED
      BY <1>1, <1>b, <1>q, <2>4 DEF BeginDeleteBucket, tables, Quiet
  <1>2. CASE DeleteByBucket(s)
    <2>1. Goto(s, "dbRevoke") /\ Quiet
      BY <1>2 DEF DeleteByBucket, tables, Quiet
    <2>2. QED
      BY <1>b, <1>g, <1>q, <2>1
  <1>3. CASE RevokeSubject(s)
    <2>1. Quiet /\ (Goto(s, "dbAudiences") \/ Fail(s, "error"))
      BY <1>3 DEF RevokeSubject, PublishRevocations, Quiet
    <2>2. QED
      BY <1>b, <1>g, <1>q, <2>1, FailPlaced
  <1>4. CASE SubjectAudiences(s)
    <2>. DEFINE ks == HoldersOf(bucketOf(s))
                l == IF ks = {} THEN "dbDelete" ELSE "dbLockK"
    <2>1. call' = [call EXCEPT ![s].want = ks, ![s].pc = l] /\ Quiet
      BY <1>4 DEF SubjectAudiences, tables, Quiet
    <2>2. l \in {"dbDelete", "dbLockK"}
      OBVIOUS
    <2>. HIDE DEF ks, l
    <2>3. call'[s].pc = l
      BY <1>c, <2>1, SetWant
    <2>4. QED
      BY <1>b, <1>q, <2>1, <2>2, <2>3
  <1>5. CASE SubjectLock(s)
    <2>1. call'[s].pc \in {"dbLockK", "dbDelete"} /\ Quiet
      BY <1>5, AudienceSets DEF SubjectLock, tables, Quiet
    <2>2. QED
      BY <1>b, <1>q, <2>1
  <1>6. CASE DeleteBySubject(s)
    <2>. DEFINE ks == HoldersOf(bucketOf(s))
    <2>1. call' = [call EXCEPT ![s].keys = ks, ![s].pc = "dbCommit"] /\ Quiet
      BY <1>6 DEF DeleteBySubject, tables, Quiet
    <2>. HIDE DEF ks
    <2>2. call'[s].pc = "dbCommit"
      BY <1>c, <2>1, SetKeysOnly
    <2>3. QED
      BY <1>b, <1>q, <2>1, <2>2
  <1>7. CASE DeleteBucketRow(s)
    <2>. DEFINE B == bucketOf(s)
    <2>1. /\ buckets' = buckets \ {B} /\ policy' = [policy EXCEPT ![B] = NoPolicy]
          /\ Finish(s, "answered")
      BY <1>7 DEF DeleteBucketRow
    <2>2. Has(s, <<"bucket", B>>, "exclusive")
      BY <1>7 DEF DeleteBucketRow, WriteInv, Writes, HoldsBucket, OnBucket
    <2>3. policy \in [Buckets -> Documents]
      BY DEF AccessInv, TypeOK, TablesOK
    <2>. HIDE DEF B
    <2>4. \A b \in Buckets : policy'[b] # NoPolicy => b # B /\ policy[b] # NoPolicy
      BY <2>1, <2>3
    <2>5. PoliciesHaveBuckets'
      BY <2>1, <2>4 DEF PlacedInv, PoliciesHaveBuckets
    <2>6. Placed(s)'
      BY <1>c, <2>1, FinishSets, EndBare, BarePlaced
    <2>7. \A b \in buckets : b \in buckets' \/ Has(s, <<"bucket", b>>, "exclusive")
      BY <2>1, <2>2
    <2>8. QED
      BY <1>7, <2>5, <2>6, <2>7, DeleteBucketRowSeen DEF PlacedStep
  <1>8. QED
    BY <1>1, <1>2, <1>3, <1>4, <1>5, <1>6, <1>7 DEF BucketStep

LEMMA FaultPlaced ==
    ASSUME AccessInv, PlacedInv, NEW s \in Procs, Fault(s)
    PROVE  PlacedStep(s)
  <1>c. TypeOK
    BY DEF AccessInv
  <1>b. {"rbRow", "rbSecret"} \subseteq Bare
    BY DEF Bare, Labels, Preparing, PastRow, Rotating, Owning
  <1>q. ASSUME Quiet, call'[s].pc \in Bare PROVE PlacedStep(s)
    BY <1>q, BarePlaced, QuietHidden, HiddenPlaced
  <1>g. ASSUME NEW l, Goto(s, l), l \in Bare PROVE call'[s].pc \in Bare
    BY <1>c, <1>g, GotoSets
  <1>f. ASSUME NEW res, Finish(s, res) PROVE call'[s].pc \in Bare
    BY <1>c, <1>f, FinishSets, EndBare
  <1>1. CASE Timeout(s)
    BY <1>1, FailPlaced DEF Timeout, tables, Quiet
  <1>2. CASE Error(s)
    BY <1>2, FailPlaced DEF Error, tables, Quiet
  <1>3. CASE Crash(s)
    BY <1>3, <1>f, <1>q DEF Crash, tables, Quiet
  <1>4. CASE RollbackSkip(s)
    <2>1. /\ Quiet
          /\ \/ Goto(s, "rbRow") \/ Goto(s, "rbSecret") \/ Finish(s, call[s].res)
      BY <1>4 DEF RollbackSkip, tables, Quiet
    <2>2. QED
      BY <1>b, <1>f, <1>g, <1>q, <2>1
  <1>5. QED
    BY <1>1, <1>2, <1>3, <1>4 DEF Fault

-----------------------------------------------------------------------------
(***************************************************************************)
(* Every behaviour is one of the promised.                                 *)
(***************************************************************************)
LEMMA InitPlaced == Init => PlacedInv
  <1>. SUFFICES ASSUME Init PROVE PlacedInv
    OBVIOUS
  <1>1. \A s \in Procs : call[s] = Idle("answered")
    BY DEF Init
  <1>2. \A s \in Procs : call[s].pc = "idle"
    BY <1>1 DEF Idle
  <1>3. \A s \in Procs : Placed(s)
    BY <1>2 DEF Placed, Sited, OwnsKeys, StripsNamed, At, Owning, Preparing, PastRow, Rotating
  <1>4. PoliciesHaveBuckets
    BY DEF Init, PoliciesHaveBuckets
  <1>5. QED
    BY <1>3, <1>4 DEF PlacedInv

LEMMA StutterPlaced ==
    ASSUME PlacedInv, UNCHANGED vars
    PROVE  PlacedInv' /\ UNCHANGED Promised!entitlements
  <1>1. Quiet /\ call' = call
    BY DEF vars, Quiet
  <1>2. UNCHANGED Promised!entitlements
    BY <1>1, QuietHidden, HiddenUnseen
  <1>3. PoliciesHaveBuckets'
    BY <1>1 DEF PlacedInv, PoliciesHaveBuckets, Quiet
  <1>4. ASSUME NEW s \in Procs PROVE Placed(s)'
    BY <1>1 DEF PlacedInv, Placed, Sited, OwnsKeys, StripsNamed, Strips, At, Quiet, docOf, bucketOf,
                principalOf
  <1>5. QED
    BY <1>2, <1>3, <1>4 DEF PlacedInv

LEMMA NextPlaced ==
    ASSUME AccessInv, WriteInv, GrantsInv, PlacedInv, AccessInv', Next
    PROVE  PlacedInv' /\ Seen
  <1>1. PICK s \in Procs : Step(s) \/ Fault(s)
    BY DEF Next
  <1>2. Promised!InPlace'
    <2>1. AccessInv => Promised!InPlace
      BY SeenInPlace
    <2>2. QED
      BY <2>1, SeenInPlace, PTL
  <1>3. PlacedStep(s)
    BY <1>1, <1>2, PolicyPlaced, PrincipalPlaced, KeyPlaced, BucketPlaced, FaultPlaced DEF Step
  <1>4. GrantStep(s)
    BY <1>1, PolicyGrants, PrincipalGrants, KeyGrants, BucketGrants, FaultGrants DEF Step
  <1>5. CallStep(s)
    BY <1>1, PolicyWrites, PrincipalWrites, KeyWrites, BucketWrites, FaultWrites
       DEF Step, WriteStep
  <1>6. PlacedInv'
    BY <1>3, <1>4, <1>5, PlacedStepKeeps
  <1>7. QED
    BY <1>3, <1>6 DEF PlacedStep

\* At the start nobody holds anything, inside or out.
LEMMA InitSeen == Init => Promised!Init
  <1>. SUFFICES ASSUME Init PROVE Promised!Init
    OBVIOUS
  <1>1. /\ principal = [p \in Principals |-> "absent"] /\ buckets = Buckets
        /\ policy = [b \in Buckets |-> NoPolicy]
        /\ keyRow = {} /\ returned = {} /\ excused = {}
    BY DEF Init, NoDocs
  <1>2. ListIDsByTenant = {} /\ InHand = {} /\ returned \ keyRow = {}
    BY <1>1 DEF ListIDsByTenant, InHand
  <1>3. excused \cap (InHand \X buckets) = {}
    BY <1>1
  <1>4. [k \in InHand |-> owner[k]] = [k \in {} |-> NoPolicy]
        /\ [k \in InHand |-> [b \in buckets |-> held[k][b]]] = [k \in {} |-> NoPolicy]
    BY <1>2
  <1>5. QED
    BY <1>1, <1>2, <1>3, <1>4 DEF Promised!Init

\* Every reachable state satisfies the invariant: a write past its bucket's check still has
\* its bucket, a removal holds keys of its own principal only, and a strip writes a policy
\* that names it.
THEOREM StepsKeepTheirPlace == Spec => []PlacedInv
  <1>1. Init => PlacedInv
    BY InitPlaced
  <1>2. AccessInv /\ WriteInv /\ GrantsInv /\ PlacedInv /\ AccessInv' /\ [Next]_vars => PlacedInv'
    BY NextPlaced, StutterPlaced
  <1>3. QED
    BY <1>1, <1>2, LockDiscipline, PolicyRowsAreGuarded, NoKeyIsOverlooked, PTL DEF Spec

\* Whatever the handlers, the faults and the interleaving, the tables change for a caller
\* one whole operation at a time.
THEOREM WholeOperations == Spec => OperationsAreAtomic
  <1>1. Init => Promised!Init
    BY InitSeen
  <1>2. AccessInv /\ WriteInv /\ GrantsInv /\ PlacedInv /\ AccessInv' /\ [Next]_vars
        => [Promised!Next]_(Promised!entitlements)
    BY NextPlaced, StutterPlaced DEF Seen
  <1>3. QED
    BY <1>1, <1>2, LockDiscipline, PolicyRowsAreGuarded, NoKeyIsOverlooked, StepsKeepTheirPlace, PTL
       DEF Spec, OperationsAreAtomic, Promised!Spec

-----------------------------------------------------------------------------
(***************************************************************************)
(* No set of handlers wait on each other, unless a bucket is being deleted.*)
(*                                                                         *)
(* The argument: the locks have an order (the tenant, the rows a Put       *)
(* names, the bucket, its rows, the affected principals by id, the keys'   *)
(* delegations by id, the keys' rows), and a handler only ever waits for a *)
(* lock further down than those it holds.  So whoever is waited for and    *)
(* waits too is further down than the handler that waits for it, and in a  *)
(* finite set somebody is the furthest.  The invariant says where a        *)
(* handler can be that holds a given lock.                                 *)
(***************************************************************************)
\* A handler at a step of this set is taking a list of locks, one by one.
InOrder == {"lockP", "lockK", "rvLock", "tombLock", "kdLock"}

\* Where a handler can be that holds a lock on this resource in this mode, and which
\* ids it may still have to lock.
Stands(at, want, on, mode) ==
    LET ahead == \A y \in want : on[2] < y
    IN  \/ /\ on[1] = "tenant" /\ mode = "shared"
           /\ at \in (Preparing \cup PastRow) \ {"tenant"}
        \/ on[1] = "tenant" /\ mode = "exclusive" /\ at = "addRow"
        \/ /\ on[1] = "principal" /\ mode = "KEY SHARE"
           /\ at \in (Preparing \cup PastRow) \ {"tenant"}
        \/ /\ on[1] = "principal" /\ mode = "NO KEY UPDATE"
           /\ \/ at \in {"load", "lockK", "publish", "commit"}
              \/ at = "lockP" /\ ahead
        \/ on[1] = "principal" /\ mode = "UPDATE" /\ at \in Removing
        \/ on[1] = "bucket" /\ mode = "exclusive" /\ at \in {"bucketRow", "row"} \cup PastRow
        \/ on[1] = "bucketRow" /\ mode = "KEY SHARE" /\ at \in {"row"} \cup PastRow
        \/ on[1] = "policyRow" /\ mode = "UPDATE" /\ at \in PastRow
        \/ on[1] = "policyRow" /\ mode = "SHARE" /\ at = "ckRows"
        \/ /\ on[1] = "audience" /\ mode = "exclusive"
           /\ \/ at \in {"publish", "commit", "rvPublish", "rvCommit", "tombPublish",
                         "tombSecrets", "tombCommit", "kdPublish", "kdCommit"}
              \/ at \in InOrder \ {"lockP"} /\ ahead
        \/ on[1] = "keyRow" /\ mode = "UPDATE" /\ at \in {"tombSecrets", "tombCommit", "kdCommit"}

Orderly(s) == \A l \in locks : l.by = s => Stands(call[s].pc, call[s].want, l.on, l.mode)

\* A bucket deletion keeps to no order.
Ordered(s) == IF call[s].pc \in Deletes THEN call[s].kind = "deleteBucket" ELSE Orderly(s)

OrderInv == \A s \in Procs : Ordered(s)
-----------------------------------------------------------------------------
(***************************************************************************)
(* A step of s and its own locks.                                          *)
(***************************************************************************)
\* At these labels a handler holds nothing.
Lockless == Labels \ ({"named", "addRow", "ckRows"} \cup (Preparing \ {"tenant"}) \cup PastRow
                  \cup Removing \cup InOrder \cup OnKey \cup {"rvPublish", "rvCommit"})

\* What a handler may hold where it was it may hold where it gets to.
Carries(s) ==
    \A on \in Resources, mode \in Modes :
        Stands(call[s].pc, call[s].want, on, mode) =>
            Stands(call'[s].pc, call'[s].want, on, mode)

\* The ways on that keep the locks.
Onward ==
    {<<"named", "named">>, <<"named", "bucket">>, <<"bucket", "bucketRow">>, <<"bucket", "row">>,
     <<"bucketRow", "row">>, <<"row", "relist">>, <<"row", "commit">>,
     <<"relist", "lockP">>, <<"relist", "commit">>, <<"lockP", "lockP">>, <<"lockP", "load">>,
     <<"load", "lockK">>, <<"load", "commit">>, <<"lockK", "lockK">>, <<"lockK", "publish">>,
     <<"publish", "commit">>,
     <<"rvLock", "rvLock">>, <<"rvLock", "rvPublish">>, <<"rvPublish", "rvCommit">>,
     <<"tombCheck", "tombKeys">>, <<"tombKeys", "tombLock">>, <<"tombKeys", "tombCommit">>,
     <<"tombLock", "tombLock">>, <<"tombLock", "tombPublish">>,
     <<"tombPublish", "tombSecrets">>, <<"tombSecrets", "tombCommit">>,
     <<"kdLock", "kdLock">>, <<"kdLock", "kdPublish">>, <<"kdPublish", "kdCommit">>,
     <<"ckRows", "ckRows">>}

LEMMA OnwardStands ==
    ASSUME NEW at, NEW here, <<at, here>> \in Onward, NEW want, NEW left,
           at \in InOrder => left \subseteq want,
           NEW on, NEW mode, Stands(at, want, on, mode)
    PROVE  Stands(here, left, on, mode)
  <1>. USE DEF Onward, Preparing, PastRow, Rotating, Removing, InOrder
  <1>. DEFINE ahead(w) == \A y \in w : on[2] < y
  <1>1. at \in InOrder /\ ahead(want) => ahead(left)
    OBVIOUS
  <1>. HIDE DEF ahead
  <1>2. CASE on[1] = "tenant"
    BY <1>2 DEF Stands
  <1>3. CASE on[1] = "principal"
    BY <1>1, <1>3 DEF Stands, ahead
  <1>4. CASE on[1] \in {"bucket", "bucketRow", "policyRow"}
    <2>1. CASE on[1] = "bucket"
      BY <2>1 DEF Stands
    <2>2. CASE on[1] = "bucketRow"
      BY <2>2 DEF Stands
    <2>3. CASE on[1] = "policyRow"
      BY <2>3 DEF Stands
    <2>4. QED
      BY <1>4, <2>1, <2>2, <2>3
  <1>5. CASE on[1] = "audience"
    BY <1>1, <1>5 DEF Stands, ahead
  <1>6. CASE on[1] = "keyRow"
    BY <1>6 DEF Stands
  <1>7. on[1] \in {"tenant", "principal", "bucket", "bucketRow", "policyRow", "audience", "keyRow"}
    BY DEF Stands
  <1>8. QED
    BY <1>2, <1>3, <1>4, <1>5, <1>6, <1>7

LEMMA OnwardCarries ==
    ASSUME NEW s \in Procs, <<call[s].pc, call'[s].pc>> \in Onward,
           call[s].pc \in InOrder => call'[s].want \subseteq call[s].want
    PROVE  Carries(s)
  BY OnwardStands DEF Carries

LEMMA BareHoldsNothing ==
    ASSUME NEW at \in Lockless, NEW want, NEW on, NEW mode, Stands(at, want, on, mode)
    PROVE  FALSE
  BY DEF Lockless, Stands, Preparing, PastRow, Rotating, Removing, InOrder, OnKey

LEMMA BareOrders ==
    ASSUME NEW s \in Procs, Orderly(s), call[s].pc \in Lockless, UNCHANGED locks
    PROVE  Orderly(s)'
  BY BareHoldsNothing DEF Orderly

LEMMA ReleaseOrders ==
    ASSUME NEW s \in Procs, Release(s)
    PROVE  Orderly(s)'
  BY DEF Orderly, Release, Released

LEMMA CarryOrders ==
    ASSUME TypeOK, NEW s \in Procs, Orderly(s), Carries(s), UNCHANGED locks
    PROVE  Orderly(s)'
  BY DEF Orderly, Carries, TypeOK, Locks

LEMMA GrowOrders ==
    ASSUME TypeOK, NEW s \in Procs, Orderly(s), Carries(s), NEW new,
           locks' = locks \cup new,
           \A l \in new : Stands(call'[s].pc, call'[s].want, l.on, l.mode)
    PROVE  Orderly(s)'
  <1>1. ASSUME NEW l \in locks, l.by = s
        PROVE  Stands(call'[s].pc, call'[s].want, l.on, l.mode)
    BY <1>1 DEF Orderly, Carries, TypeOK, Locks
  <1>2. QED
    BY <1>1 DEF Orderly

LEMMA TakeOrders ==
    ASSUME TypeOK, NEW s \in Procs, Orderly(s), Carries(s), NEW res, NEW mode,
           locks' = Granted(locks, s, res, mode), Stands(call'[s].pc, call'[s].want, res, mode)
    PROVE  Orderly(s)'
  <1>. DEFINE new == {[by |-> s, on |-> res, mode |-> mode]}
  <1>1. locks' = locks \cup new
    BY DEF Granted
  <1>2. \A l \in new : Stands(call'[s].pc, call'[s].want, l.on, l.mode)
    OBVIOUS
  <1>. HIDE DEF new
  <1>3. QED
    BY <1>1, <1>2, GrowOrders

LEMMA FailOrders ==
    ASSUME NEW s \in Procs, NEW err, Fail(s, err)
    PROVE  Orderly(s)'
  BY ReleaseOrders DEF Fail

\* A list of ids in their order: what is locked comes before what is left.
LEMMA NextIsAhead ==
    ASSUME NEW s, NEW w, w = call[s].want, w \subseteq Nat, NEW x \in Nat, Next1(s, x)
    PROVE  \A y \in w \ {x} : x < y
  BY DEF Next1

LEMMA AudienceOrders ==
    ASSUME AccessInv, NEW s \in Procs, Orderly(s), NEW here \in InOrder \ {"lockP"},
           NEW next, LockAudiences(s, here, next),
           <<here, next>> \in {<<"lockK", "publish">>, <<"rvLock", "rvPublish">>,
                               <<"tombLock", "tombPublish">>, <<"kdLock", "kdPublish">>}
    PROVE  Orderly(s)'
  <1>c. TypeOK /\ call[s] \in CallRecords /\ call[s].pc = here
    BY CallTyped DEF AccessInv, LockAudiences, At
  <1>1. PICK k \in Keys : /\ Next1(s, k) /\ locks' = Granted(locks, s, <<"audience", k>>, "exclusive")
                          /\ call' = Looped(s, k, here, next)
    BY DEF LockAudiences, Take
  <1>2. /\ call'[s].want = call[s].want \ {k}
        /\ call'[s].pc = IF call[s].want = {k} THEN next ELSE here
    BY <1>c, <1>1, LoopedSets
  <1>3. call[s].want \subseteq Nat /\ k \in Nat
    BY <1>c, KeysAssumption DEF CallRecords
  <1>4. \A y \in call'[s].want : k < y
    BY <1>1, <1>2, <1>3, NextIsAhead
  <1>5. Stands(call'[s].pc, call'[s].want, <<"audience", k>>, "exclusive")
    BY <1>2, <1>4 DEF Stands, InOrder
  <1>6. Carries(s)
    BY <1>2, <1>c, OnwardCarries DEF Onward
  <1>7. QED
    BY <1>1, <1>5, <1>6, <1>c, TakeOrders

LEMMA PolicyOrders ==
    ASSUME AccessInv, NEW s \in Procs, Orderly(s), PolicyStep(s)
    PROVE  Orderly(s)'
  <1>. USE DEF At, Labels, Preparing, PastRow, Rotating, Removing, InOrder, OnKey, Lockless, Onward
  <1>c. TypeOK /\ call[s] \in CallRecords
    BY CallTyped DEF AccessInv
  <1>1. CASE BeginWrite(s) \/ BeginRemove(s)
    BY <1>1, BareOrders DEF BeginWrite, BeginRemove, Begin, tables
  <1>2. CASE TakeTenant(s)
    <2>. DEFINE w == Named(docOf(s))
                l == IF w = {} THEN "bucket" ELSE "named"
    <2>1. /\ call' = [call EXCEPT ![s].want = w, ![s].pc = l]
          /\ call[s].pc = "tenant"
          /\ locks' = Granted(locks, s, <<"tenant", None>>, "shared")
      BY <1>2 DEF TakeTenant, Take
    <2>2. l \in {"bucket", "named"}
      OBVIOUS
    <2>. HIDE DEF w, l
    <2>3. call'[s].pc = l
      BY <1>c, <2>1, SetWant
    <2>4. Carries(s)
      BY <2>1, BareHoldsNothing DEF Carries
    <2>5. Stands(call'[s].pc, call'[s].want, <<"tenant", None>>, "shared")
      BY <2>2, <2>3 DEF Stands
    <2>6. QED
      BY <1>c, <2>1, <2>4, <2>5, TakeOrders
  <1>3. CASE RequireLive(s)
    <2>1. PICK p \in call[s].want :
            \/ Fail(s, "invalid")
            \/ /\ Take(s, <<"principal", p>>, "KEY SHARE")
               /\ call' = Looped(s, p, "named", "bucket")
      BY <1>3 DEF RequireLive
    <2>2. CASE /\ Take(s, <<"principal", p>>, "KEY SHARE")
               /\ call' = Looped(s, p, "named", "bucket")
      <3>p. call[s].pc = "named"
        BY <1>3 DEF RequireLive
      <3>l. call'[s].pc = IF call[s].want = {p} THEN "bucket" ELSE "named"
        BY <1>c, <2>2, LoopedSets
      <3>1. call[s].pc = "named" /\ call'[s].pc \in {"named", "bucket"}
        BY <3>p, <3>l
      <3>2. Carries(s)
        BY <3>1, OnwardCarries
      <3>3. Stands(call'[s].pc, call'[s].want, <<"principal", p>>, "KEY SHARE")
        BY <3>1 DEF Stands
      <3>4. QED
        BY <1>c, <2>2, <3>2, <3>3, TakeOrders DEF Take
    <2>3. QED
      BY <2>1, <2>2, FailOrders
  <1>4. CASE TakeBucket(s)
    <2>. DEFINE l == IF docOf(s) = NoPolicy THEN "row" ELSE "bucketRow"
    <2>1. /\ Goto(s, l) /\ call[s].pc = "bucket"
          /\ locks' = Granted(locks, s, <<"bucket", bucketOf(s)>>, "exclusive")
      BY <1>4 DEF TakeBucket, Take
    <2>2. l \in {"row", "bucketRow"}
      OBVIOUS
    <2>. HIDE DEF l
    <2>3. call'[s].pc = l
      BY <1>c, <2>1, GotoSets
    <2>4. Carries(s)
      BY <2>1, <2>2, <2>3, OnwardCarries
    <2>5. Stands(call'[s].pc, call'[s].want, <<"bucket", bucketOf(s)>>, "exclusive")
      BY <2>2, <2>3 DEF Stands
    <2>6. QED
      BY <1>c, <2>1, <2>4, <2>5, TakeOrders
  <1>5. CASE TakeBucketRow(s)
    <2>1. CASE /\ Take(s, <<"bucketRow", bucketOf(s)>>, "KEY SHARE") /\ Goto(s, "row")
      <3>1. call[s].pc = "bucketRow" /\ call'[s].pc = "row"
        BY <1>5, <1>c, <2>1, GotoSets DEF TakeBucketRow
      <3>2. Carries(s)
        BY <3>1, OnwardCarries
      <3>3. Stands(call'[s].pc, call'[s].want, <<"bucketRow", bucketOf(s)>>, "KEY SHARE")
        BY <3>1 DEF Stands
      <3>4. QED
        BY <1>c, <2>1, <3>2, <3>3, TakeOrders DEF Take
    <2>2. QED
      BY <1>5, <2>1, FailOrders DEF TakeBucketRow
  <1>6. CASE LockRow(s)
    <2>. DEFINE old == policy[bucketOf(s)]
                row == <<"policyRow", bucketOf(s)>>
                l == IF call[s].kind = "removePrincipal" THEN "commit" ELSE "relist"
    <2>1. CASE /\ call' = [call EXCEPT ![s].old = old, ![s].pc = l]
               /\ locks' = IF old = NoPolicy THEN locks ELSE Granted(locks, s, row, "UPDATE")
      <3>1. l \in {"commit", "relist"} /\ call[s].pc = "row"
        BY <1>6 DEF LockRow
      <3>. HIDE DEF l, old
      <3>2. call'[s].pc = l
        BY <1>c, <2>1, SetOld
      <3>3. Carries(s)
        BY <3>1, <3>2, OnwardCarries
      <3>4. Stands(call'[s].pc, call'[s].want, row, "UPDATE")
        BY <3>1, <3>2 DEF Stands
      <3>. HIDE DEF row
      <3>5. QED
        BY <1>c, <2>1, <3>3, <3>4, TakeOrders, CarryOrders
    <2>2. CASE Release(s)
      BY <2>2, ReleaseOrders
    <2>3. QED
      BY <1>6, <2>1, <2>2 DEF LockRow, Fail
  <1>7. CASE Relist(s)
    <2>. DEFINE aff == Changed(call[s].old, docOf(s), ListIDsByTenant)
                l == IF aff = {} THEN "commit" ELSE "lockP"
    <2>1. CASE /\ call' = [call EXCEPT ![s].aff = aff, ![s].want = aff, ![s].pc = l]
               /\ UNCHANGED locks
      <3>1. l \in {"commit", "lockP"} /\ call[s].pc = "relist"
        BY <1>7 DEF Relist
      <3>. HIDE DEF l, aff
      <3>2. call'[s].pc = l
        BY <1>c, <2>1, SetAff
      <3>3. Carries(s)
        BY <3>1, <3>2, OnwardCarries
      <3>4. QED
        BY <1>c, <2>1, <3>3, CarryOrders
    <2>2. QED
      BY <1>7, <2>1, FailOrders DEF Relist
  <1>8. CASE LockPrincipals(s)
    <2>1. PICK p \in Principals :
            /\ Next1(s, p)
            /\ \/ locks' = Granted(locks, s, <<"principal", p>>, "NO KEY UPDATE")
               \/ UNCHANGED locks
            /\ call' = Looped(s, p, "lockP", "load")
      BY <1>8 DEF LockPrincipals, Take
    <2>2. /\ call[s].pc = "lockP" /\ call'[s].want = call[s].want \ {p}
          /\ call'[s].pc \in {"lockP", "load"}
      BY <1>8, <1>c, <2>1, LoopedSets DEF LockPrincipals
    <2>3. Carries(s)
      BY <2>2, OnwardCarries
    <2>4. call[s].want \subseteq Nat /\ p \in Nat
      BY <1>c, PrincipalsAssumption DEF CallRecords
    <2>5. \A y \in call'[s].want : p < y
      BY <2>1, <2>2, <2>4, NextIsAhead
    <2>6. Stands(call'[s].pc, call'[s].want, <<"principal", p>>, "NO KEY UPDATE")
      BY <2>2, <2>5 DEF Stands
    <2>7. QED
      BY <1>c, <2>1, <2>3, <2>6, TakeOrders, CarryOrders
  <1>9. CASE Load(s)
    <2>. DEFINE ks == KeysOf(call[s].aff)
                l == IF ks = {} THEN "commit" ELSE "lockK"
    <2>k. call' = [call EXCEPT ![s].keys = ks, ![s].want = ks, ![s].pc = l]
      BY <1>9 DEF Load
    <2>1. UNCHANGED locks /\ call[s].pc = "load"
      BY <1>9 DEF Load
    <2>2. l \in {"commit", "lockK"}
      OBVIOUS
    <2>. HIDE DEF l, ks
    <2>3. call'[s].pc = l
      BY <1>c, <2>k, SetKeys, ZenonT(60)
    <2>4. Carries(s)
      BY <2>1, <2>2, <2>3, OnwardCarries
    <2>5. QED
      BY <1>c, <2>1, <2>4, CarryOrders
  <1>10. CASE LockRotated(s)
    BY <1>10, AudienceOrders DEF LockRotated
  <1>11. CASE Rotate(s)
    <2>. DEFINE ks == call[s].keys \cap keyRow
    <2>1. CASE call' = [call EXCEPT ![s].fresh = ks, ![s].pc = "commit"] /\ UNCHANGED locks
      <3>. HIDE DEF ks
      <3>1. call[s].pc = "publish" /\ call'[s].pc = "commit"
        BY <1>11, <1>c, <2>1, SetFresh DEF Rotate
      <3>2. QED
        BY <1>c, <2>1, <3>1, OnwardCarries, CarryOrders
    <2>2. QED
      BY <1>11, <2>1, FailOrders DEF Rotate, PublishRevocations
  <1>12. CASE Commit(s)
    BY <1>12, ReleaseOrders DEF Commit
  <1>13. QED
    BY <1>1, <1>2, <1>3, <1>4, <1>5, <1>6, <1>7, <1>8, <1>9, <1>10, <1>11, <1>12 DEF PolicyStep

LEMMA PrincipalOrders ==
    ASSUME AccessInv, NEW s \in Procs, Orderly(s), PrincipalStep(s)
    PROVE  Orderly(s)'
  <1>. USE DEF At, Labels, Preparing, PastRow, Rotating, Removing, InOrder, OnKey, Lockless, Onward
  <1>c. TypeOK /\ call[s] \in CallRecords
    BY CallTyped DEF AccessInv
  <1>1. CASE BeginCreatePrincipal(s) \/ AddGet(s) \/ BeginDeletePrincipal(s) \/ RevokeLoad(s)
    BY <1>1, BareOrders DEF BeginCreatePrincipal, AddGet, BeginDeletePrincipal, RevokeLoad,
                            Begin, tables
  <1>2. CASE StripList(s) \/ StripPolicy(s) \/ StripDone(s)
    BY <1>2, BareOrders DEF StripList, StripPolicy, StripDone
  <1>3. CASE AddRow(s) \/ RevokeCommit(s) \/ TombstoneCommit(s)
    BY <1>3, ReleaseOrders DEF AddRow, RevokeCommit, TombstoneCommit
  <1>4. CASE AddTenant(s)
    <2>1. /\ call[s].pc = "addTenant" /\ call'[s].pc = "addRow"
          /\ locks' = Granted(locks, s, <<"tenant", None>>, "exclusive")
      BY <1>4, <1>c, GotoSets DEF AddTenant, Take
    <2>2. Carries(s)
      BY <2>1, BareHoldsNothing DEF Carries
    <2>3. Stands(call'[s].pc, call'[s].want, <<"tenant", None>>, "exclusive")
      BY <2>1 DEF Stands
    <2>4. QED
      BY <1>c, <2>1, <2>2, <2>3, TakeOrders
  <1>5. CASE RevokeLock(s)
    BY <1>5, AudienceOrders DEF RevokeLock
  <1>6. CASE RevokePublish(s)
    <2>1. CASE Goto(s, "rvCommit") /\ UNCHANGED locks
      <3>1. call[s].pc = "rvPublish" /\ call'[s].pc = "rvCommit"
        BY <1>6, <1>c, <2>1, GotoSets DEF RevokePublish
      <3>2. QED
        BY <1>c, <2>1, <3>1, OnwardCarries, CarryOrders
    <2>2. QED
      BY <1>6, <2>1, FailOrders DEF RevokePublish, PublishRevocations
  <1>7. CASE Tombstone(s)
    <2>1. CASE UNCHANGED locks
      BY <1>7, <2>1, BareOrders DEF Tombstone
    <2>2. CASE /\ locks' = Granted(locks, s, <<"principal", principalOf(s)>>, "UPDATE")
               /\ Goto(s, "tombCheck")
      <3>1. call[s].pc = "tomb" /\ call'[s].pc = "tombCheck"
        BY <1>7, <1>c, <2>2, GotoSets DEF Tombstone
      <3>2. Carries(s)
        BY <3>1, BareHoldsNothing DEF Carries
      <3>3. Stands(call'[s].pc, call'[s].want, <<"principal", principalOf(s)>>, "UPDATE")
        BY <3>1 DEF Stands
      <3>4. QED
        BY <1>c, <2>2, <3>2, <3>3, TakeOrders
    <2>3. QED
      BY <1>7, <2>1, <2>2 DEF Tombstone
  <1>8. CASE NamedAgain(s)
    <2>1. CASE Goto(s, "tombKeys") /\ UNCHANGED locks
      <3>1. call[s].pc = "tombCheck" /\ call'[s].pc = "tombKeys"
        BY <1>8, <1>c, <2>1, GotoSets DEF NamedAgain
      <3>2. QED
        BY <1>c, <2>1, <3>1, OnwardCarries, CarryOrders
    <2>2. QED
      BY <1>8, <2>1, FailOrders DEF NamedAgain
  <1>9. CASE RemoveLoad(s)
    <2>. DEFINE ks == KeysOf({principalOf(s)})
                l == IF ks = {} THEN "tombCommit" ELSE "tombLock"
    <2>k. call' = [call EXCEPT ![s].keys = ks, ![s].want = ks, ![s].pc = l]
      BY <1>9 DEF RemoveLoad
    <2>1. UNCHANGED locks /\ call[s].pc = "tombKeys"
      BY <1>9 DEF RemoveLoad
    <2>2. l \in {"tombCommit", "tombLock"}
      OBVIOUS
    <2>. HIDE DEF l, ks
    <2>3. call'[s].pc = l
      BY <1>c, <2>k, SetKeys, ZenonT(60)
    <2>4. Carries(s)
      BY <2>1, <2>2, <2>3, OnwardCarries
    <2>5. QED
      BY <1>c, <2>1, <2>4, CarryOrders
  <1>10. CASE RemoveLock(s)
    BY <1>10, AudienceOrders DEF RemoveLock
  <1>11. CASE RemovePublish(s)
    <2>. DEFINE new == {[by |-> s, on |-> <<"keyRow", k>>, mode |-> "UPDATE"] :
                          k \in call[s].keys}
    <2>1. CASE Goto(s, "tombSecrets") /\ locks' = locks \cup new
      <3>1. call[s].pc = "tombPublish" /\ call'[s].pc = "tombSecrets"
        BY <1>11, <1>c, <2>1, GotoSets DEF RemovePublish
      <3>2. \A l \in new : Stands(call'[s].pc, call'[s].want, l.on, l.mode)
        BY <3>1 DEF Stands
      <3>. HIDE DEF new
      <3>3. Carries(s)
        BY <3>1, OnwardCarries
      <3>4. QED
        BY <1>c, <2>1, <3>2, <3>3, GrowOrders
    <2>2. QED
      BY <1>11, <2>1, FailOrders DEF RemovePublish, PublishRevocations
  <1>12. CASE RemoveSecrets(s)
    <2>1. call[s].pc = "tombSecrets" /\ call'[s].pc = "tombCommit" /\ UNCHANGED locks
      BY <1>12, <1>c, GotoSets DEF RemoveSecrets
    <2>2. QED
      BY <1>c, <2>1, OnwardCarries, CarryOrders
  <1>13. QED
    BY <1>1, <1>2, <1>3, <1>4, <1>5, <1>6, <1>7, <1>8, <1>9, <1>10, <1>11, <1>12
       DEF PrincipalStep

LEMMA KeyOrders ==
    ASSUME AccessInv, NEW s \in Procs, Orderly(s), AccessKeyStep(s)
    PROVE  Orderly(s)'
  <1>. USE DEF At, Labels, Preparing, PastRow, Rotating, Removing, InOrder, OnKey, Lockless, Onward
  <1>c. TypeOK /\ call[s] \in CallRecords
    BY CallTyped DEF AccessInv
  <1>1. CASE BeginCreateKey(s) \/ FindPrincipal(s) \/ WriteSecret(s) \/ ListSnapshot(s)
    BY <1>1, BareOrders DEF BeginCreateKey, FindPrincipal, WriteSecret, ListSnapshot, Begin
  <1>2. CASE AddKey(s) \/ StoreGrants(s) \/ ReturnKey(s)
    BY <1>2, BareOrders, FailOrders DEF AddKey, StoreGrants, ReturnKey
  <1>3. CASE RollbackGrants(s) \/ RollbackRow(s) \/ RollbackSecret(s)
    BY <1>3, BareOrders DEF RollbackGrants, RollbackRow, RollbackSecret
  <1>4. CASE BeginDeleteKey(s) \/ DeleteSecret(s)
    BY <1>4, BareOrders DEF BeginDeleteKey, Begin, DeleteSecret
  <1>5. CASE ListRows(s)
    <2>1. PICK b \in Buckets :
            LET docs == [call[s].snap EXCEPT ![b] = policy[b]]
                row == <<"policyRow", b>>
                last == call[s].want = {b}
            IN  /\ locks' = CASE last -> Released(locks, s)
                              [] ~last /\ policy[b] = NoPolicy -> locks
                              [] OTHER -> Granted(locks, s, row, "SHARE")
                /\ call' = [call EXCEPT ![s].want = @ \ {b}, ![s].snap = docs,
                              ![s].pc = IF last THEN AfterListing(s, docs) ELSE "ckRows"]
      BY <1>5 DEF ListRows
    <2>2. CASE call[s].want = {b}
      BY <2>1, <2>2, ReleaseOrders DEF Release
    <2>3. CASE call[s].want # {b}
      <3>. DEFINE docs == [call[s].snap EXCEPT ![b] = policy[b]]
                  w == call[s].want \ {b}
                  row == <<"policyRow", b>>
      <3>1. /\ call' = [call EXCEPT ![s].want = w, ![s].snap = docs, ![s].pc = "ckRows"]
            /\ locks' = locks \/ locks' = Granted(locks, s, row, "SHARE")
        BY <2>1, <2>3
      <3>. HIDE DEF docs, w
      <3>p. call[s].pc = "ckRows"
        BY <1>5 DEF ListRows
      <3>2. call'[s].pc = "ckRows"
        BY <1>c, <3>1, SetRead
      <3>3. Carries(s)
        BY <3>p, <3>2, OnwardCarries
      <3>4. Stands(call'[s].pc, call'[s].want, row, "SHARE")
        BY <3>2 DEF Stands
      <3>. HIDE DEF row
      <3>5. QED
        BY <1>c, <3>1, <3>3, <3>4, TakeOrders, CarryOrders
    <2>4. QED
      BY <2>2, <2>3
  <1>6. CASE DeleteLock(s)
    BY <1>6, AudienceOrders DEF DeleteLock
  <1>7. CASE DeletePublish(s)
    <2>1. CASE /\ locks' = Granted(locks, s, <<"keyRow", keyOf(s)>>, "UPDATE")
               /\ Goto(s, "kdCommit")
      <3>1. call[s].pc = "kdPublish" /\ call'[s].pc = "kdCommit"
        BY <1>7, <1>c, <2>1, GotoSets DEF DeletePublish
      <3>2. Carries(s)
        BY <3>1, OnwardCarries
      <3>3. Stands(call'[s].pc, call'[s].want, <<"keyRow", keyOf(s)>>, "UPDATE")
        BY <3>1 DEF Stands
      <3>4. QED
        BY <1>c, <2>1, <3>2, <3>3, TakeOrders
    <2>2. QED
      BY <1>7, <2>1, FailOrders DEF DeletePublish, PublishRevocations
  <1>8. CASE DeleteCommit(s)
    BY <1>8, ReleaseOrders DEF DeleteCommit
  <1>9. QED
    BY <1>1, <1>2, <1>3, <1>4, <1>5, <1>6, <1>7, <1>8 DEF AccessKeyStep

LEMMA FaultOrders ==
    ASSUME AccessInv, NEW s \in Procs, Ordered(s), Fault(s)
    PROVE  Orderly(s)'
  <1>1. CASE Timeout(s) \/ Error(s)
    BY <1>1, FailOrders DEF Timeout, Error
  <1>2. CASE Crash(s)
    BY <1>2, ReleaseOrders DEF Crash
  <1>3. CASE RollbackSkip(s)
    <2>1. call[s].pc \in {"rbGrants", "rbRow", "rbSecret"} /\ UNCHANGED locks
      BY <1>3 DEF RollbackSkip, At
    <2>2. Orderly(s)
      BY <2>1 DEF Ordered, Deletes
    <2>3. QED
      BY <2>1, <2>2, BareOrders DEF Labels, Preparing, PastRow, Rotating, Removing, InOrder,
                                    OnKey, Lockless
  <1>4. QED
    BY <1>1, <1>2, <1>3 DEF Fault
-----------------------------------------------------------------------------
\* The steps of a bucket deletion are its own.
LEMMA PolicyNotDeleting ==
    ASSUME NEW s \in Procs, PolicyStep(s)
    PROVE  call[s].pc \notin Deletes
  BY DEF PolicyStep, BeginWrite, BeginRemove, TakeTenant, RequireLive, TakeBucket, TakeBucketRow,
         LockRow, Relist, LockPrincipals, Load, LockRotated, LockAudiences, Rotate, Commit,
         Begin, At, Deletes

LEMMA PrincipalNotDeleting ==
    ASSUME NEW s \in Procs, PrincipalStep(s)
    PROVE  call[s].pc \notin Deletes
  BY DEF PrincipalStep, BeginCreatePrincipal, AddTenant, AddRow, AddGet, BeginDeletePrincipal,
         RevokeLoad, RevokeLock, RevokePublish, RevokeCommit, StripList, StripPolicy, StripDone,
         Tombstone, NamedAgain, RemoveLoad, RemoveLock, RemovePublish, RemoveSecrets,
         TombstoneCommit, LockAudiences, Begin, At, Deletes

LEMMA KeyNotDeleting ==
    ASSUME NEW s \in Procs, AccessKeyStep(s)
    PROVE  call[s].pc \notin Deletes
  BY DEF AccessKeyStep, BeginCreateKey, FindPrincipal, WriteSecret, AddKey, ListSnapshot, ListRows,
         StoreGrants, ReturnKey, RollbackGrants, RollbackRow, RollbackSecret, BeginDeleteKey,
         DeleteLock, DeletePublish, DeleteCommit, DeleteSecret, LockAudiences, Begin, At, Deletes

LEMMA BucketOrders ==
    ASSUME AccessInv, NEW s \in Procs, Ordered(s), BucketStep(s)
    PROVE  Ordered(s)'
  <1>. USE DEF At, Deletes
  <1>c. TypeOK
    BY DEF AccessInv
  <1>k. call[s].pc \in Deletes => call[s].kind = "deleteBucket"
    BY DEF Ordered
  <1>g. ASSUME call[s].pc \in Deletes, SameCore(s), call'[s].pc \in Deletes
        PROVE  Ordered(s)'
    BY <1>g, <1>k DEF Ordered, SameCore
  <1>f. ASSUME NEW err, call[s].pc \in Deletes, Fail(s, err)
        PROVE  Ordered(s)'
    <2>1. call'[s] = Idle(Outcome(s, err))
      BY <1>c, <1>f, <1>k, FailSets
    <2>2. call'[s].pc = "idle"
      BY <2>1 DEF Idle
    <2>3. QED
      BY <1>f, <2>2, FailOrders DEF Ordered
  <1>1. CASE BeginDeleteBucket(s)
    <2>1. PICK b \in buckets :
            call' = [call EXCEPT ![s] = [Idle("answered") EXCEPT
                       !.pc = "dbLock", !.kind = "deleteBucket", !.bucket = b]]
      BY <1>1 DEF BeginDeleteBucket
    <2>. DEFINE c == [Idle("answered") EXCEPT
                       !.pc = "dbLock", !.kind = "deleteBucket", !.bucket = b]
    <2>2. c.pc = "dbLock" /\ c.kind = "deleteBucket"
      BY DEF Idle
    <2>. HIDE DEF c
    <2>3. call'[s] = c
      BY <1>c, <2>1, SetMoves DEF c
    <2>4. QED
      BY <2>2, <2>3 DEF Ordered
  <1>2. CASE DeleteByBucket(s)
    BY <1>2, <1>c, <1>g, GotoSets DEF DeleteByBucket, SameWork
  <1>3. CASE RevokeSubject(s)
    <2>1. CASE Goto(s, "dbAudiences")
      BY <1>3, <1>c, <1>g, <2>1, GotoSets DEF RevokeSubject, SameWork
    <2>2. QED
      BY <1>3, <1>f, <2>1 DEF RevokeSubject, PublishRevocations
  <1>4. CASE SubjectAudiences(s)
    <2>. DEFINE ks == HoldersOf(bucketOf(s))
                l == IF ks = {} THEN "dbDelete" ELSE "dbLockK"
    <2>1. call' = [call EXCEPT ![s].want = ks, ![s].pc = l] /\ call[s].pc = "dbAudiences"
      BY <1>4 DEF SubjectAudiences
    <2>2. l \in Deletes
      OBVIOUS
    <2>. HIDE DEF ks, l
    <2>3. SameCore(s) /\ call'[s].pc = l
      BY <1>c, <2>1, SetWant DEF SameWork
    <2>4. QED
      BY <1>g, <2>1, <2>2, <2>3
  <1>5. CASE SubjectLock(s)
    <2>1. call[s].pc = "dbLockK" /\ SameWork(s) /\ call'[s].pc \in {"dbLockK", "dbDelete"}
      BY <1>5, AudienceSets DEF SubjectLock, LockAudiences
    <2>2. QED
      BY <1>g, <2>1 DEF SameWork
  <1>6. CASE DeleteBySubject(s)
    <2>. DEFINE ks == HoldersOf(bucketOf(s))
    <2>1. call' = [call EXCEPT ![s].keys = ks, ![s].pc = "dbCommit"] /\ call[s].pc = "dbDelete"
      BY <1>6 DEF DeleteBySubject
    <2>. HIDE DEF ks
    <2>2. SameCore(s) /\ call'[s].pc = "dbCommit"
      BY <1>c, <2>1, SetKeysOnly
    <2>3. QED
      BY <1>g, <2>1, <2>2
  <1>7. CASE DeleteBucketRow(s)
    <2>1. Release(s) /\ Finish(s, "answered")
      BY <1>7 DEF DeleteBucketRow
    <2>2. call'[s] = Idle("answered")
      BY <1>c, <2>1, FinishSets
    <2>3. call'[s].pc = "idle"
      BY <2>2 DEF Idle
    <2>4. QED
      BY <2>1, <2>3, ReleaseOrders DEF Ordered
  <1>8. QED
    BY <1>1, <1>2, <1>3, <1>4, <1>5, <1>6, <1>7 DEF BucketStep

LEMMA OthersOrdered ==
    ASSUME TypeOK', OrderInv, NEW s \in Procs, CallStep(s), LockStep(s), NEW t \in Procs, t # s
    PROVE  Ordered(t)'
  <1>1. call'[t] = call[t] /\ Ordered(t)
    BY DEF CallStep, OrderInv
  <1>2. ASSUME NEW l \in locks', l.by = t PROVE l \in locks
    BY <1>2 DEF LockStep, TypeOK
  <1>3. QED
    BY <1>1, <1>2 DEF Ordered, Orderly

LEMMA NextOrders ==
    ASSUME AccessInv, WriteInv, GrantsInv, RevokeInv, OrderInv, Next
    PROVE  OrderInv'
  <1>1. PICK s \in Procs : Step(s) \/ Fault(s)
    BY DEF Next
  <1>2. Ordered(s)
    BY DEF OrderInv
  <1>3. Ordered(s)'
    <2>1. ASSUME Orderly(s)', call'[s].pc \notin Deletes PROVE Ordered(s)'
      BY <2>1 DEF Ordered
    <2>2. CASE PolicyStep(s)
      <3>1. Orderly(s)
        BY <1>2, <2>2, PolicyNotDeleting DEF Ordered
      <3>2. QED
        BY <2>1, <2>2, <3>1, PolicyOrders, PolicyRevokes DEF RevokeStep
    <2>3. CASE PrincipalStep(s)
      <3>1. Orderly(s)
        BY <1>2, <2>3, PrincipalNotDeleting DEF Ordered
      <3>2. QED
        BY <2>1, <2>3, <3>1, PrincipalOrders, PrincipalRevokes DEF RevokeStep
    <2>4. CASE AccessKeyStep(s)
      <3>1. Orderly(s)
        BY <1>2, <2>4, KeyNotDeleting DEF Ordered
      <3>2. QED
        BY <2>1, <2>4, <3>1, KeyOrders, KeyRevokes DEF RevokeStep
    <2>5. CASE BucketStep(s)
      BY <1>2, <2>5, BucketOrders
    <2>6. CASE Fault(s)
      BY <1>2, <2>1, <2>6, FaultOrders, FaultRevokes DEF RevokeStep
    <2>7. QED
      BY <1>1, <2>2, <2>3, <2>4, <2>5, <2>6 DEF Step
  <1>4. CallStep(s) /\ LockStep(s)
    BY <1>1, PolicyWrites, PrincipalWrites, KeyWrites, BucketWrites, FaultWrites
       DEF Step, WriteStep
  <1>5. TypeOK'
    BY <1>1, NextTyped DEF AccessInv, Next
  <1>6. ASSUME NEW t \in Procs, t # s PROVE Ordered(t)'
    BY <1>4, <1>5, <1>6, OthersOrdered
  <1>7. QED
    BY <1>3, <1>6 DEF OrderInv

LEMMA InitOrders == Init => OrderInv
  BY DEF Init, Idle, OrderInv, Ordered, Deletes, Orderly

LEMMA StutterOrders == OrderInv /\ UNCHANGED vars => OrderInv'
  BY DEF OrderInv, Ordered, Orderly, vars

-----------------------------------------------------------------------------
(***************************************************************************)
(* Who waits for whom.                                                     *)
(***************************************************************************)
\* How far down the order of the locks a waiting handler is.
Rung(at) ==
    CASE at \in {"addRow", "named", "bucket"} -> 1
      [] at \in {"bucketRow", "row"} -> 2
      [] at = "ckRows" -> 3
      [] at = "lockP" -> 4
      [] at \in {"ckStore", "rbGrants"} -> 5
      [] at \in InOrder \ {"lockP"} -> 6
      [] at \in {"kdPublish", "tombPublish", "rbRow"} -> 7
      [] OTHER -> 0

\* A handler further down, or at the same list of ids and further down that.
Below(s, t) ==
    \/ Rung(call[s].pc) < Rung(call[t].pc)
    \/ /\ Rung(call[s].pc) = Rung(call[t].pc)
       /\ \E x \in call[s].want : \A y \in call[t].want : x < y

\* What a handler asks for.
Asks(at, want, on, mode) ==
    \/ at = "tenant" /\ on[1] = "tenant" /\ mode = "shared"
    \/ at = "addTenant" /\ on[1] = "tenant" /\ mode = "exclusive"
    \/ at = "named" /\ on[1] = "principal" /\ mode = "KEY SHARE"
    \/ at = "bucket" /\ on[1] = "bucket" /\ mode = "exclusive"
    \/ at = "bucketRow" /\ on[1] = "bucketRow" /\ mode = "KEY SHARE"
    \/ at = "row" /\ on[1] = "policyRow" /\ mode = "UPDATE"
    \/ at = "lockP" /\ on[1] = "principal" /\ on[2] \in want /\ mode = "NO KEY UPDATE"
    \/ at \in InOrder \ {"lockP"} /\ on[1] = "audience" /\ on[2] \in want /\ mode = "exclusive"
    \/ at \in {"ckStore", "rbGrants"} /\ on[1] = "audience" /\ mode = "exclusive"
    \/ at = "addRow" /\ on[1] = "principal" /\ mode = "NO KEY UPDATE"
    \/ at = "tomb" /\ on[1] = "principal" /\ mode = "UPDATE"
    \/ at \in {"ckPrincipal", "ckAdd"} /\ on[1] = "principal" /\ mode = "SHARE"
    \/ at = "ckRows" /\ on[1] = "policyRow" /\ mode = "SHARE"
    \/ at \in {"kdPublish", "rbRow", "tombPublish"} /\ on[1] = "keyRow" /\ mode = "UPDATE"

LEMMA RequestsAsk ==
    ASSUME NEW s, call[s].pc \notin Deletes, NEW r \in Requests(s)
    PROVE  Asks(call[s].pc, call[s].want, r[1], r[2])
  <1>. DEFINE at == call[s].pc
              c == call[s]
  <1>1. CASE at = "tenant"
    <2>1. Requests(s) \subseteq {<<<<"tenant", None>>, "shared">>}
      BY <1>1 DEF Requests, InOrder, Next1
    <2>2. r[1][1] = "tenant" /\ r[2] = "shared"
      BY <2>1
    <2>3. QED
      BY <1>1, <2>2 DEF Asks
  <1>2. CASE at = "addTenant"
    <2>1. Requests(s) \subseteq {<<<<"tenant", None>>, "exclusive">>}
      BY <1>2 DEF Requests, InOrder, Next1
    <2>2. r[1][1] = "tenant" /\ r[2] = "exclusive"
      BY <2>1
    <2>3. QED
      BY <1>2, <2>2 DEF Asks
  <1>3. CASE at = "named"
    <2>1. Requests(s) \subseteq ({"principal"} \X {p \in c.want : principal[p] # "absent"}) \X {"KEY SHARE"}
      BY <1>3 DEF Requests, InOrder, Next1
    <2>2. r[1][1] = "principal" /\ r[2] = "KEY SHARE"
      BY <2>1
    <2>3. QED
      BY <1>3, <2>2 DEF Asks
  <1>4. CASE at = "bucket"
    <2>1. Requests(s) \subseteq {<<<<"bucket", c.bucket>>, "exclusive">>}
      BY <1>4 DEF Requests, InOrder, Next1
    <2>2. r[1][1] = "bucket" /\ r[2] = "exclusive"
      BY <2>1
    <2>3. QED
      BY <1>4, <2>2 DEF Asks
  <1>5. CASE at = "bucketRow"
    <2>. DEFINE m == "KEY SHARE"
    <2>1. Requests(s) \subseteq {<<<<"bucketRow", c.bucket>>, m>>}
      BY <1>5 DEF Requests, InOrder, Next1
    <2>. HIDE DEF m
    <2>2. r[1][1] = "bucketRow" /\ r[2] = m
      BY <2>1
    <2>3. QED
      BY <1>5, <2>2 DEF Asks, m
  <1>6. CASE at = "row"
    <2>1. Requests(s) \subseteq {<<<<"policyRow", c.bucket>>, "UPDATE">>}
      BY <1>6 DEF Requests, InOrder, Next1
    <2>2. r[1][1] = "policyRow" /\ r[2] = "UPDATE"
      BY <2>1
    <2>3. QED
      BY <1>6, <2>2 DEF Asks
  <1>7. CASE at = "lockP"
    <2>. DEFINE m == "NO KEY UPDATE"
    <2>1. Requests(s) \subseteq {<<"principal", x>> : x \in c.want} \X {m}
      BY <1>7 DEF Requests, InOrder, Next1
    <2>. HIDE DEF m
    <2>2. r[1][1] = "principal" /\ r[2] = m /\ r[1][2] \in c.want
      BY <2>1
    <2>3. QED
      BY <1>7, <2>2 DEF Asks, m
  <1>8. CASE at \in InOrder \ {"lockP"}
    <2>1. Requests(s) \subseteq {<<"audience", x>> : x \in c.want} \X {"exclusive"}
      BY <1>8 DEF Requests, InOrder, Next1
    <2>2. r[1][1] = "audience" /\ r[2] = "exclusive" /\ r[1][2] \in c.want
      BY <2>1
    <2>3. QED
      BY <1>8, <2>2 DEF Asks
  <1>9. CASE at \in {"ckStore", "rbGrants"}
    <2>1. Requests(s) \subseteq {<<<<"audience", c.key>>, "exclusive">>}
      BY <1>9 DEF Requests, InOrder, Next1
    <2>2. r[1][1] = "audience" /\ r[2] = "exclusive"
      BY <2>1
    <2>3. QED
      BY <1>9, <2>2 DEF Asks
  <1>10. CASE at = "addRow"
    <2>. DEFINE m == "NO KEY UPDATE"
    <2>1. Requests(s) \subseteq {<<<<"principal", c.principal>>, m>>}
      BY <1>10 DEF Requests, InOrder, Next1
    <2>. HIDE DEF m
    <2>2. r[1][1] = "principal" /\ r[2] = m
      BY <2>1
    <2>3. QED
      BY <1>10, <2>2 DEF Asks, m
  <1>11. CASE at = "tomb"
    <2>1. Requests(s) \subseteq {<<<<"principal", c.principal>>, "UPDATE">>}
      BY <1>11 DEF Requests, InOrder, Next1
    <2>2. r[1][1] = "principal" /\ r[2] = "UPDATE"
      BY <2>1
    <2>3. QED
      BY <1>11, <2>2 DEF Asks
  <1>12. CASE at \in {"ckPrincipal", "ckAdd"}
    <2>1. Requests(s) \subseteq {<<<<"principal", c.principal>>, "SHARE">>}
      BY <1>12 DEF Requests, InOrder, Next1
    <2>2. r[1][1] = "principal" /\ r[2] = "SHARE"
      BY <2>1
    <2>3. QED
      BY <1>12, <2>2 DEF Asks
  <1>13. CASE at = "ckRows"
    <2>1. Requests(s) \subseteq {<<"policyRow", x>> : x \in c.want} \X {"SHARE"}
      BY <1>13 DEF Requests, InOrder, Next1
    <2>2. r[1][1] = "policyRow" /\ r[2] = "SHARE"
      BY <2>1
    <2>3. QED
      BY <1>13, <2>2 DEF Asks
  <1>14. CASE at \in {"kdPublish", "rbRow"}
    <2>1. Requests(s) \subseteq {<<<<"keyRow", c.key>>, "UPDATE">>}
      BY <1>14 DEF Requests, InOrder, Next1
    <2>2. r[1][1] = "keyRow" /\ r[2] = "UPDATE"
      BY <2>1
    <2>3. QED
      BY <1>14, <2>2 DEF Asks
  <1>15. CASE at = "tombPublish"
    <2>1. Requests(s) \subseteq ({"keyRow"} \X c.keys) \X {"UPDATE"}
      BY <1>15 DEF Requests, InOrder, Next1
    <2>2. r[1][1] = "keyRow" /\ r[2] = "UPDATE"
      BY <2>1
    <2>3. QED
      BY <1>15, <2>2 DEF Asks
  <1>16. at \in InOrder \cup {"tenant", "addTenant", "named", "bucket", "bucketRow", "row", "ckStore",
                  "rbGrants", "addRow", "tomb", "ckPrincipal", "ckAdd", "ckRows", "kdPublish",
                  "rbRow", "tombPublish"}
    BY DEF Requests, Deletes, InOrder
  <1>17. QED
    BY <1>1, <1>2, <1>3, <1>4, <1>5, <1>6, <1>7, <1>8, <1>9, <1>10, <1>11, <1>12, <1>13, <1>14, <1>15, <1>16 DEF InOrder

\* A handler that another one waits for, and that waits itself, is further down.
LEMMA AskedStands ==
    ASSUME NEW at, NEW want, NEW on, NEW mode, Asks(at, want, on, mode),
           NEW here, NEW left, NEW its, Stands(here, left, on, its), Conflicts(its, mode),
           Rung(here) # 0
    PROVE  \/ Rung(at) < Rung(here)
           \/ Rung(at) = Rung(here) /\ on[2] \in want /\ \A y \in left : on[2] < y
  <1>. USE DEF Preparing, PastRow, Rotating, Removing, InOrder
  <1>. DEFINE ahead == \A y \in left : on[2] < y
              Past == {"relist", "load", "lockK", "publish", "commit"}
  <1>1. CASE at \in {"tenant", "addTenant", "tomb", "ckPrincipal", "ckAdd"}
    BY <1>1 DEF Rung
  <1>2. CASE at = "named"
    <2>1. on[1] = "principal" /\ mode = "KEY SHARE"
      BY <1>2 DEF Asks
    <2>2. its = "UPDATE"
      BY <2>1 DEF Conflicts, Conflicting
    <2>3. here \in Removing
      BY <2>1, <2>2 DEF Stands
    <2>. HIDE DEF Past, ahead
    <2>4. QED
      BY <1>2, <2>3 DEF Rung
  <1>3. CASE at \in {"addRow", "lockP"}
    <2>1. on[1] = "principal" /\ mode = "NO KEY UPDATE" /\ (at = "lockP" => on[2] \in want)
      BY <1>3 DEF Asks
    <2>2. its # "KEY SHARE"
      BY <2>1 DEF Conflicts, Conflicting
    <2>3. \/ here \in Removing \cup Past
          \/ here = "lockP" /\ ahead
      BY <2>1, <2>2 DEF Stands
    <2>4. CASE here \in Removing \cup Past
      BY <1>3, <2>4 DEF Rung
    <2>5. CASE here = "lockP" /\ ahead
      <3>1. at = "addRow" => Rung(at) < Rung(here)
        BY <2>5 DEF Rung
      <3>2. at = "lockP" => Rung(at) = Rung(here)
        BY <2>5
      <3>3. at = "lockP" => on[2] \in want /\ ahead
        BY <2>1, <2>5
      <3>4. QED
        BY <1>3, <3>1, <3>2, <3>3
    <2>6. QED
      BY <2>3, <2>4, <2>5
  <1>4. CASE at = "bucket"
    <2>1. on[1] = "bucket"
      BY <1>4 DEF Asks
    <2>2. here \in {"bucketRow", "row"} \cup PastRow
      BY <2>1 DEF Stands
    <2>3. QED
      BY <1>4, <2>2 DEF Rung
  <1>5. CASE at = "bucketRow"
    <2>1. on[1] = "bucketRow" /\ mode = "KEY SHARE"
      BY <1>5 DEF Asks
    <2>2. its = "KEY SHARE"
      BY <2>1 DEF Stands
    <2>3. QED
      BY <2>1, <2>2 DEF Conflicts, Conflicting
  <1>6. CASE at \in {"row", "ckRows"}
    <2>1. on[1] = "policyRow" /\ (at = "ckRows" => mode = "SHARE")
      BY <1>6 DEF Asks
    <2>2. at = "ckRows" => its # "SHARE"
      BY <2>1 DEF Conflicts, Conflicting
    <2>3. \/ here \in PastRow
          \/ at = "row" /\ here = "ckRows"
      BY <1>6, <2>1, <2>2 DEF Stands
    <2>4. QED
      BY <1>6, <2>3 DEF Rung
  <1>7. CASE at \in {"ckStore", "rbGrants"} \cup (InOrder \ {"lockP"})
    <2>1. on[1] = "audience" /\ (at \in InOrder => on[2] \in want)
      BY <1>7 DEF Asks
    <2>2. \/ here \in {"publish", "commit", "rvPublish", "rvCommit", "tombPublish",
                       "tombSecrets", "tombCommit", "kdPublish", "kdCommit"}
          \/ here \in InOrder \ {"lockP"} /\ ahead
      BY <2>1 DEF Stands
    <2>. HIDE DEF ahead
    <2>3. QED
      BY <1>7, <2>1, <2>2 DEF Rung, ahead
  <1>8. CASE at \in {"kdPublish", "rbRow", "tombPublish"}
    <2>1. on[1] = "keyRow"
      BY <1>8 DEF Asks
    <2>2. here \in {"tombSecrets", "tombCommit", "kdCommit"}
      BY <2>1 DEF Stands
    <2>3. QED
      BY <2>2 DEF Rung
  <1>9. \/ at \in {"tenant", "addTenant", "tomb", "ckPrincipal", "ckAdd"}
        \/ at = "named" \/ at \in {"addRow", "lockP"} \/ at = "bucket" \/ at = "bucketRow"
        \/ at \in {"row", "ckRows"}
        \/ at \in {"ckStore", "rbGrants"} \cup (InOrder \ {"lockP"})
        \/ at \in {"kdPublish", "rbRow", "tombPublish"}
    BY DEF Asks
  <1>10. QED
    BY <1>1, <1>2, <1>3, <1>4, <1>5, <1>6, <1>7, <1>8, <1>9

LEMMA WaitsForBelow ==
    ASSUME NEW s, call[s].pc \notin Deletes, NEW t \in WaitsFor(s),
           \A l \in locks : l.by = t => Stands(call[t].pc, call[t].want, l.on, l.mode),
           Rung(call[t].pc) # 0
    PROVE  Below(s, t)
  <1>1. PICK r \in Requests(s) : t \in Blockers(locks, s, r[1], r[2])
    BY DEF WaitsFor
  <1>2. PICK l \in locks : l.by = t /\ l.on = r[1] /\ Conflicts(l.mode, r[2])
    BY <1>1 DEF Blockers
  <1>3. Asks(call[s].pc, call[s].want, r[1], r[2])
    BY RequestsAsk
  <1>4. Stands(call[t].pc, call[t].want, r[1], l.mode)
    BY <1>2
  <1>5. \/ Rung(call[s].pc) < Rung(call[t].pc)
        \/ /\ Rung(call[s].pc) = Rung(call[t].pc) /\ r[1][2] \in call[s].want
           /\ \A y \in call[t].want : r[1][2] < y
    BY <1>2, <1>3, <1>4, AskedStands
  <1>6. QED
    BY <1>5 DEF Below

\* Nobody holds a lock while asking for the first ones: whoever is waited for and waits
\* is past them.
LEMMA WaitedForHasRung ==
    ASSUME NEW t, call[t].pc \notin Deletes, Requests(t) # {}, NEW l \in locks, l.by = t,
           Stands(call[t].pc, call[t].want, l.on, l.mode)
    PROVE  Rung(call[t].pc) # 0
  <1>1. PICK r \in Requests(t) : TRUE
    OBVIOUS
  <1>2. Asks(call[t].pc, call[t].want, r[1], r[2])
    BY RequestsAsk
  <1>. DEFINE at == call[t].pc
  <1>3. at \notin {"tenant", "addTenant", "tomb", "ckPrincipal", "ckAdd"}
    BY DEF Stands, Preparing, PastRow, Rotating, Removing, InOrder
  <1>4. \/ at \in {"tenant", "addTenant", "tomb", "ckPrincipal", "ckAdd"}
        \/ at \in InOrder
        \/ at \in {"named", "bucket", "bucketRow", "row", "ckStore", "rbGrants",
                  "addRow", "ckRows", "kdPublish", "rbRow", "tombPublish"}
    BY <1>2 DEF Asks, InOrder
  <1>. HIDE DEF at
  <1>5. Rung(at) # 0
    BY <1>3, <1>4 DEF Rung, InOrder
  <1>6. QED
    BY <1>5 DEF at

LEMMA BelowOrders ==
    ASSUME TypeOK, NEW s \in Procs, NEW t \in Procs, NEW u \in Procs
    PROVE  /\ ~Below(s, s)
           /\ Below(s, t) /\ Below(t, u) => Below(s, u)
  <1>1. /\ call[s].want \subseteq Nat /\ call[t].want \subseteq Nat /\ call[u].want \subseteq Nat
    BY CallTyped DEF CallRecords
  <1>2. Rung(call[s].pc) \in Nat /\ Rung(call[t].pc) \in Nat /\ Rung(call[u].pc) \in Nat
    BY DEF Rung
  <1>3. ~Below(s, s)
    BY <1>1, <1>2 DEF Below
  <1>4. ASSUME Below(s, t), Below(t, u) PROVE Below(s, u)
    <2>1. CASE /\ Rung(call[s].pc) = Rung(call[t].pc) /\ Rung(call[t].pc) = Rung(call[u].pc)
      <3>1. PICK x \in call[s].want : \A y \in call[t].want : x < y
        BY <1>2, <1>4, <2>1 DEF Below
      <3>2. PICK y \in call[t].want : \A z \in call[u].want : y < z
        BY <1>2, <1>4, <2>1 DEF Below
      <3>3. \A z \in call[u].want : x < z
        BY <1>1, <3>1, <3>2
      <3>4. QED
        BY <2>1, <3>3 DEF Below
    <2>2. CASE ~(Rung(call[s].pc) = Rung(call[t].pc) /\ Rung(call[t].pc) = Rung(call[u].pc))
      <3>1. Rung(call[s].pc) < Rung(call[u].pc)
        BY <1>2, <1>4, <2>2 DEF Below
      <3>2. QED
        BY <3>1 DEF Below
    <2>3. QED
      BY <2>1, <2>2
  <1>5. QED
    BY <1>3, <1>4

\* In a finite set an order has a last element.
LEMMA LastOfFinite ==
    ASSUME NEW S, IsFiniteSet(S), S # {}, NEW R,
           \A x \in S : <<x, x>> \notin R,
           \A x \in S, y \in S, z \in S : <<x, y>> \in R /\ <<y, z>> \in R => <<x, z>> \in R
    PROVE  \E x \in S : \A y \in S : <<x, y>> \notin R
  <1>. DEFINE Up(x) == {y \in S : <<x, y>> \in R}
              T == {Up(x) : x \in S}
  <1>1. IsWellFoundedOn(StrictSubsetOrdering(S), SUBSET S)
    BY FS_StrictSubsetOrderingWellFounded, FS_FiniteSubsetsOfFinite
  <1>u. \A x \in S : Up(x) \in SUBSET S
    OBVIOUS
  <1>2. T \subseteq SUBSET S /\ T # {}
    <2>. HIDE DEF Up
    <2>1. QED
      BY <1>u
  <1>3. PICK U \in T : \A V \in T : <<V, U>> \notin StrictSubsetOrdering(S)
    <2>. HIDE DEF T
    <2>1. QED
      BY <1>1, <1>2, WFMin
  <1>4. PICK x \in S : U = Up(x)
    BY <1>3
  <1>5. ASSUME NEW y \in S, <<x, y>> \in R PROVE FALSE
    <2>1. Up(y) \subseteq U /\ y \in U /\ y \notin Up(y)
      BY <1>4, <1>5
    <2>2. Up(y) \in T /\ Up(y) \in SUBSET S /\ U \in SUBSET S
      BY <1>4
    <2>3. <<Up(y), U>> \in StrictSubsetOrdering(S)
      <3>. HIDE DEF Up
      <3>1. QED
        BY <2>1, <2>2 DEF StrictSubsetOrdering
    <2>4. QED
      BY <1>3, <2>2, <2>3
  <1>6. QED
    BY <1>5

LEMMA OrderBreaksCycles ==
    ASSUME TypeOK, OrderInv, IsFiniteSet(Procs)
    PROVE  NoWaitCycle
  <1>. SUFFICES ASSUME NEW S \in (SUBSET Procs) \ {{}},
                       \A s \in S : call[s].kind # "deleteBucket",
                       \A s \in S : ~(WaitsFor(s) \cap S = {})
                PROVE  FALSE
    BY DEF NoWaitCycle
  <1>0. S \subseteq Procs /\ S # {}
    OBVIOUS
  <1>. DEFINE R == {e \in S \X S : Below(e[1], e[2])}
  <1>1. IsFiniteSet(S)
    BY <1>0, FS_Subset
  <1>2. \A x \in S : <<x, x>> \notin R
    BY <1>0, BelowOrders
  <1>3. \A x \in S, y \in S, z \in S : <<x, y>> \in R /\ <<y, z>> \in R => <<x, z>> \in R
    BY <1>0, BelowOrders
  <1>4. PICK s \in S : \A t \in S : <<s, t>> \notin R
    <2>. HIDE DEF R
    <2>1. QED
      BY <1>0, <1>1, <1>2, <1>3, LastOfFinite
  <1>5. PICK t \in S : t \in WaitsFor(s)
    OBVIOUS
  <1>6. /\ \A l \in locks : l.by = t => Stands(call[t].pc, call[t].want, l.on, l.mode)
        /\ call[s].pc \notin Deletes /\ call[t].pc \notin Deletes
    BY <1>0 DEF OrderInv, Ordered, Orderly
  <1>7. Requests(t) # {}
    BY DEF WaitsFor
  <1>8. \E l \in locks : l.by = t
    BY <1>5 DEF WaitsFor, Blockers
  <1>9. Below(s, t)
    BY <1>5, <1>6, <1>7, <1>8, WaitedForHasRung, WaitsForBelow
  <1>10. QED
    BY <1>4, <1>9

\* No set of handlers wait on each other unless one of them is deleting a bucket, for
\* any number of them, of principals, buckets and keys, and under every fault: policy
\* writes, principals, keys and their rollbacks take their locks in one order.
THEOREM WaitsEnd == IsFiniteSet(Procs) => (Spec => []NoWaitCycle)
  <1>. SUFFICES ASSUME IsFiniteSet(Procs) PROVE Spec => []NoWaitCycle
    OBVIOUS
  <1>1. AccessInv /\ WriteInv /\ GrantsInv /\ RevokeInv /\ OrderInv /\ [Next]_vars => OrderInv'
    BY NextOrders, StutterOrders
  <1>2. AccessInv /\ OrderInv => NoWaitCycle
    BY OrderBreaksCycles DEF AccessInv
  <1>3. QED
    BY <1>1, <1>2, InitOrders, LockDiscipline, PolicyRowsAreGuarded, NoKeyIsOverlooked,
       GoneKeysHoldNothing, PTL DEF Spec
=============================================================================
