---------------------------- MODULE AccessProofs ----------------------------
(***************************************************************************)
(* Proofs about Access, for every set of principals, buckets, keys,        *)
(* handlers and documents, and under every fault:                          *)
(*                                                                         *)
(* 1. what the operations on policy documents guarantee;                   *)
(* 2. type correctness;                                                    *)
(* 3. no committed policy names a removed principal and no key outlives    *)
(*    its principal;                                                       *)
(* 4. a policy write that succeeds replaces exactly the document its       *)
(*    condition was about.                                                 *)
(*                                                                         *)
(* What keys hold is in AccessGrantsProofs.                                *)
(***************************************************************************)
EXTENDS Access, TLAPS

-----------------------------------------------------------------------------
(***************************************************************************)
(* 1. What the operations on policy documents guarantee.                   *)
(***************************************************************************)
\* A document names principals only: the wildcard is not one of them.
LEMMA NamedTyped ==
    ASSUME NEW d \in Documents
    PROVE  Named(d) \subseteq Principals
  BY PrincipalsAssumption DEF Named, All, Documents, Statements, Wildcard

\* A delegation carries commands of the permission table only (s3perm.CommandsFor).
LEMMA GrantsTyped ==
    ASSUME NEW d, NEW p
    PROVE  Grants(d, p) \subseteq Commands
  BY CommandsOfAssumption DEF Grants, CommandsFor

\* Taking a principal out of one statement leaves a statement, or none at all.
LEMMA WithoutTyped ==
    ASSUME NEW st \in Statements, NEW p, Without(st, p).principal # {}
    PROVE  Without(st, p) \in Statements
  BY PrincipalsAssumption DEF Statements, Without, All, Wildcard

\* RemovePrincipal returns a document, or nothing when no statement is left.
LEMMA RemoveTyped ==
    ASSUME NEW d \in Documents, NEW p
    PROVE  RemovePrincipal(d, p) \in Documents
  <1>1. ASSUME NEW t \in d, Without(t, p).principal # {}
        PROVE  Without(t, p) \in Statements
    BY <1>1, WithoutTyped DEF Documents
  <1>2. RemovePrincipal(d, p) = {st \in {Without(t, p) : t \in d} : st.principal # {}}
    BY DEF RemovePrincipal
  <1>3. QED
    BY <1>1, <1>2 DEF Documents

\* Without changes the principals of a statement and nothing else, and those
\* only where the statement names p itself.
LEMMA WithoutIs ==
    ASSUME NEW st \in Statements, NEW p
    PROVE  /\ Without(st, p).effect = st.effect
           /\ Without(st, p).actions = st.actions
           /\ All(Without(st, p)) <=> All(st)
           /\ p \in Without(st, p).principal => All(st)
           /\ \A q : q # p => (q \in Without(st, p).principal <=> q \in st.principal)
  BY PrincipalsAssumption DEF Statements, Without, All, Wildcard

\* Stripping a principal (RemovePrincipal, as stripFromPolicies uses it) takes it,
\* and nobody else, out of the names of the policy: the re-check of the removal
\* cannot find the policies its own strip has written.
THEOREM RemoveForgets ==
    ASSUME NEW d \in Documents, NEW p \in Principals
    PROVE  Named(RemovePrincipal(d, p)) = Named(d) \ {p}
  <1>1. ASSUME NEW q \in Named(RemovePrincipal(d, p))
        PROVE  q \in Named(d) \ {p}
    <2>1. PICK t \in d : ~All(Without(t, p)) /\ q \in Without(t, p).principal
      BY <1>1 DEF Named, RemovePrincipal
    <2>2. ~All(t) /\ q \in t.principal \ {p}
      BY <2>1, WithoutIs DEF Documents
    <2>3. QED
      BY <2>2 DEF Named
  <1>2. ASSUME NEW q \in Named(d) \ {p}
        PROVE  q \in Named(RemovePrincipal(d, p))
    <2>1. PICK t \in d : ~All(t) /\ q \in t.principal
      BY <1>2 DEF Named
    <2>. t \in Statements /\ q # p
      BY <1>2 DEF Documents
    <2>2. ~All(Without(t, p)) /\ q \in Without(t, p).principal
      BY <2>1, WithoutIs
    <2>3. Without(t, p) \in RemovePrincipal(d, p)
      BY <2>2 DEF RemovePrincipal
    <2>4. QED
      BY <2>2, <2>3 DEF Named
  <1>3. QED
    BY <1>1, <1>2

\* For anybody but p, a statement says the same after p is taken out of it.
LEMMA WithoutNames ==
    ASSUME NEW st \in Statements, NEW p, NEW q, q # p
    PROVE  names(Without(st, p), q) <=> names(st, q)
  BY WithoutIs DEF names, All

LEMMA GatheredOthers ==
    ASSUME NEW d \in Documents, NEW p, NEW q, q # p, NEW e
    PROVE  Gathered(RemovePrincipal(d, p), q, e) = Gathered(d, q, e)
  <1>1. ASSUME NEW a \in Gathered(RemovePrincipal(d, p), q, e)
        PROVE  a \in Gathered(d, q, e)
    <2>1. PICK t \in d : /\ names(Without(t, p), q) /\ Without(t, p).effect = e
                         /\ a \in expand(Without(t, p).actions)
      BY <1>1 DEF Gathered, RemovePrincipal
    <2>2. names(t, q) /\ t.effect = e /\ a \in expand(t.actions)
      BY <2>1, WithoutIs, WithoutNames DEF Documents
    <2>3. QED
      BY <2>2 DEF Gathered
  <1>2. ASSUME NEW a \in Gathered(d, q, e)
        PROVE  a \in Gathered(RemovePrincipal(d, p), q, e)
    <2>1. PICK t \in d : names(t, q) /\ t.effect = e /\ a \in expand(t.actions)
      BY <1>2 DEF Gathered
    <2>2. t \in Statements
      BY DEF Documents
    <2>3. /\ names(Without(t, p), q) /\ Without(t, p).effect = e
          /\ a \in expand(Without(t, p).actions)
      BY <2>1, <2>2, WithoutIs, WithoutNames
    <2>4. Without(t, p).principal # {}
      BY <2>3 DEF names, All
    <2>5. Without(t, p) \in RemovePrincipal(d, p)
      BY <2>4 DEF RemovePrincipal
    <2>6. QED
      BY <2>3, <2>5 DEF Gathered
  <1>3. QED
    BY <1>1, <1>2

\* Stripping p leaves what the policy gives every other principal as it was: a
\* removal rotates only the removed principal's keys, and needs no rotation of
\* anybody else's (principal Service.stripFromPolicies writes with no callback).
THEOREM RemoveLeavesOthers ==
    ASSUME NEW d \in Documents, NEW p, NEW q, q # p
    PROVE  Effective(RemovePrincipal(d, p), q) = Effective(d, q)
  BY GatheredOthers DEF Effective

\* A policy gives nothing to a principal that it neither names nor reaches with
\* the wildcard, so ListByPrincipal misses no policy that grants something.
THEOREM UnlistedHasNothing ==
    ASSUME NEW d \in Documents, NEW p, ~Listed(d, p)
    PROVE  Effective(d, p) = {}
  <1>1. ASSUME NEW t \in d PROVE ~names(t, p)
    BY DEF Listed, Named, NamesWildcard, names
  <1>2. QED
    BY <1>1 DEF Effective, Gathered

\* Changed misses nobody: a principal of the tenant whose actions a policy write
\* changes is among the principals whose keys the write rotates.
THEOREM ChangedMissesNobody ==
    ASSUME NEW old \in Documents, NEW new \in Documents, NEW tenantPrincipals,
           NEW p \in tenantPrincipals, Effective(old, p) # Effective(new, p)
    PROVE  p \in Changed(old, new, tenantPrincipals)
  <1>1. Listed(old, p) \/ Listed(new, p)
    BY UnlistedHasNothing
  <1>2. QED
    BY <1>1 DEF Changed, Listed

-----------------------------------------------------------------------------
(***************************************************************************)
(* 2. Type correctness.                                                    *)
(***************************************************************************)
CallsOK == call \in [Procs -> Calls]
LocksOK == locks \subseteq Locks

-----------------------------------------------------------------------------
(***************************************************************************)
(* The helpers the actions are built from.                                 *)
(***************************************************************************)

\* A fresh record is a call at rest.
LEMMA IdleTyped ==
    ASSUME NEW res \in Results
    PROVE  Idle(res) \in Calls /\ Idle(res) \in CallRecords
  <1>1. Idle(res) \in CallRecords
    BY DEF Idle, CallRecords, Results, Labels, Unconditional, NoETag, NoPolicy, NoDocs,
           Conditions, Documents, None
  <1>2. Aimed(Idle(res))
    BY DEF Aimed, Idle, OfPrincipal, OfBucket, OfKey
  <1>3. QED
    BY <1>1, <1>2 DEF Calls

\* Replacing one handler's record by another call keeps the records calls.
LEMMA UpdateTyped ==
    ASSUME TypeOK, NEW s \in Procs, NEW c \in Calls, call' = [call EXCEPT ![s] = c]
    PROVE  CallsOK'
  BY DEF TypeOK, CallsOK

LEMMA CallTyped ==
    ASSUME TypeOK, NEW s \in Procs
    PROVE  call[s] \in CallRecords /\ Aimed(call[s])
  BY DEF TypeOK, Calls

LEMMA TypeParts ==
    ASSUME TypeOK, TablesOK', LocksOK', CallsOK'
    PROVE  TypeOK'
  BY DEF TypeOK, LocksOK, CallsOK

LEMMA SameTables ==
    ASSUME TypeOK, UNCHANGED tables
    PROVE  TablesOK'
  BY DEF TypeOK, TablesOK, tables

LEMMA SameLocks ==
    ASSUME TypeOK, UNCHANGED locks
    PROVE  LocksOK'
  BY DEF TypeOK, LocksOK

LEMMA TakeTyped ==
    ASSUME TypeOK, NEW s \in Procs, NEW res \in Resources, NEW mode \in Modes,
           Take(s, res, mode)
    PROVE  LocksOK'
  BY DEF TypeOK, LocksOK, Take, Granted, Locks

LEMMA ReleaseTyped ==
    ASSUME TypeOK, NEW s \in Procs, Release(s)
    PROVE  LocksOK'
  BY DEF TypeOK, LocksOK, Release, Released

LEMMA FinishTyped ==
    ASSUME TypeOK, NEW s \in Procs, NEW res \in Results, Finish(s, res)
    PROVE  CallsOK'
  BY IdleTyped, UpdateTyped DEF Finish

\* A step to another label, with the subject that label needs.
LEMMA GotoTyped ==
    ASSUME TypeOK, NEW s \in Procs, NEW label \in Labels, Goto(s, label),
           label \in OfPrincipal => principalOf(s) \in Principals,
           label \in OfBucket => bucketOf(s) \in Buckets,
           label \in OfKey => keyOf(s) \in Keys,
           label = "named" => call[s].want \subseteq Principals
    PROVE  CallsOK'
  <1>. DEFINE c == [call[s] EXCEPT !.pc = label]
  <1>1. c \in CallRecords
    BY CallTyped DEF CallRecords
  <1>2. Aimed(c)
    BY CallTyped DEF CallRecords, Aimed, principalOf, bucketOf, keyOf
  <1>3. call' = [call EXCEPT ![s] = c]
    BY DEF Goto
  <1>. HIDE DEF c
  <1>4. QED
    BY <1>1, <1>2, <1>3, UpdateTyped DEF Calls

\* A failing call rolls back, and ends or goes to its rollback.
LEMMA FailTyped ==
    ASSUME TypeOK, NEW s \in Procs, NEW err, Fail(s, err)
    PROVE  LocksOK' /\ CallsOK'
  <1>1. LocksOK'
    BY ReleaseTyped DEF Fail
  <1>2. Outcome(s, err) \in Results
    BY DEF Outcome, Results
  <1>3. CASE call[s].kind = "createKey" /\ call[s].key # None
    <2>. DEFINE c == [call[s] EXCEPT !.pc = "rbGrants", !.res = Outcome(s, err)]
    <2>0. "rbGrants" \in Labels
      BY DEF Labels
    <2>1. c \in CallRecords
      BY <1>2, <2>0, CallTyped, ZenonT(60) DEF CallRecords
    <2>2. Aimed(c)
      BY <1>3, CallTyped DEF CallRecords, Aimed, OfPrincipal, OfBucket, OfKey
    <2>3. call' = [call EXCEPT ![s] = c]
      BY <1>3 DEF Fail
    <2>. HIDE DEF c
    <2>4. QED
      BY <1>1, <2>1, <2>2, <2>3, UpdateTyped DEF Calls
  <1>4. CASE ~(call[s].kind = "createKey" /\ call[s].key # None)
    BY <1>1, <1>2, <1>4, FinishTyped DEF Fail
  <1>5. QED
    BY <1>3, <1>4

\* One turn of a loop over the lock list.
LEMMA LoopedTyped ==
    ASSUME TypeOK, NEW s \in Procs, NEW x, NEW here \in Labels, NEW next \in Labels,
           call' = Looped(s, x, here, next), At(s, here), next # "named",
           next \in OfPrincipal => principalOf(s) \in Principals,
           next \in OfBucket => bucketOf(s) \in Buckets,
           next \in OfKey => keyOf(s) \in Keys
    PROVE  CallsOK'
  <1>. DEFINE l == IF call[s].want = {x} THEN next ELSE here
              c == [call[s] EXCEPT !.want = @ \ {x}, !.pc = l]
  <1>1. c \in CallRecords
    BY CallTyped, ZenonT(60) DEF CallRecords
  <1>2. Aimed(c)
    BY CallTyped DEF CallRecords, Aimed, At, principalOf, bucketOf, keyOf
  <1>3. call' = [call EXCEPT ![s] = c]
    BY DEF Looped
  <1>. HIDE DEF c
  <1>4. QED
    BY <1>1, <1>2, <1>3, UpdateTyped DEF Calls

LEMMA LockAudiencesTyped ==
    ASSUME TypeOK, NEW s \in Procs, NEW here \in Labels, NEW next \in Labels,
           LockAudiences(s, here, next), next # "named",
           next \in OfPrincipal => principalOf(s) \in Principals,
           next \in OfBucket => bucketOf(s) \in Buckets,
           next \in OfKey => keyOf(s) \in Keys
    PROVE  TypeOK'
  <1>1. PICK k \in Keys : /\ Take(s, <<"audience", k>>, "exclusive")
                          /\ call' = Looped(s, k, here, next)
    BY DEF LockAudiences
  <1>2. LocksOK'
    BY <1>1, TakeTyped DEF Resources, Modes, AdvisoryModes
  <1>3. CallsOK'
    BY <1>1, LoopedTyped DEF LockAudiences
  <1>4. QED
    BY <1>2, <1>3, SameTables, TypeParts DEF LockAudiences

\* Publishing changes the revocations of stored delegations and no other table.
LEMMA PublishedTyped ==
    ASSUME TypeOK, NEW pairs \in SUBSET (Keys \X Buckets),
           revoked' \in {revoked, revoked \cup Holding(pairs)},
           UNCHANGED <<principal, buckets, policy, keyRow, owner, held, secrets, returned, excused>>
    PROVE  TablesOK'
  BY DEF TypeOK, TablesOK, Holding

LEMMA ClearGrantsTyped ==
    ASSUME TypeOK, NEW ks \in SUBSET Keys, ClearGrants(ks)
    PROVE  /\ held' \in [Keys -> [Buckets -> SUBSET Commands]]
           /\ revoked' \subseteq Keys \X Buckets
           /\ excused' \subseteq Keys \X Buckets
  BY DEF TypeOK, TablesOK, ClearGrants

\* A handler's record is replaced by a record that is aimed.
LEMMA RecordTyped ==
    ASSUME TypeOK, NEW s \in Procs, NEW c \in CallRecords, Aimed(c),
           call' = [call EXCEPT ![s] = c]
    PROVE  CallsOK'
  BY UpdateTyped DEF Calls

-----------------------------------------------------------------------------
(***************************************************************************)
(* One lemma per service: its steps keep the types.                        *)
(***************************************************************************)
LEMMA PolicyStepTyped ==
    ASSUME TypeOK, NEW s \in Procs, PolicyStep(s)
    PROVE  TypeOK'
  <1>. USE DEF At
  <1>c. call[s] \in CallRecords /\ Aimed(call[s])
    BY CallTyped
  <1>1. CASE BeginWrite(s)
    <2>1. PICK b \in buckets, d \in Docs, m \in Conds :
            IF Named(d) \subseteq ListIDsByTenant
            THEN call' = [call EXCEPT ![s] = [Idle("answered") EXCEPT
                            !.pc = "tenant", !.kind = "writePolicy",
                            !.bucket = b, !.doc = d, !.match = m]]
            ELSE Finish(s, "answered")
      BY <1>1 DEF BeginWrite
    <2>2. CallsOK'
      <3>. DEFINE c == [Idle("answered") EXCEPT !.pc = "tenant", !.kind = "writePolicy",
                          !.bucket = b, !.doc = d, !.match = m]
      <3>1. b \in Buckets /\ d \in Documents /\ m \in Conditions
        BY DocsAssumption, CondsAssumption DEF TypeOK, TablesOK
      <3>a. "tenant" \in Labels /\ "writePolicy" \in Kinds /\ Idle("answered") \in CallRecords
        BY IdleTyped DEF Labels, Kinds, Results
      <3>2. c \in CallRecords
        BY <3>1, <3>a DEF CallRecords
      <3>3. Aimed(c)
        BY <3>1, IdleTyped DEF CallRecords, Idle, Aimed, OfPrincipal, OfBucket, OfKey
      <3>. HIDE DEF c
      <3>4. QED
        BY <2>1, <3>2, <3>3, RecordTyped, FinishTyped DEF c, Results
    <2>3. QED
      BY <1>1, <2>2, SameTables, SameLocks, TypeParts DEF BeginWrite
  <1>2. CASE BeginRemove(s)
    <2>1. PICK b \in buckets, m \in Conds :
            call' = [call EXCEPT ![s] = [Idle("answered") EXCEPT
                       !.pc = "bucket", !.kind = "removePolicy",
                       !.bucket = b, !.doc = NoPolicy, !.match = m]]
      BY <1>2 DEF BeginRemove
    <2>2. CallsOK'
      <3>. DEFINE c == [Idle("answered") EXCEPT !.pc = "bucket", !.kind = "removePolicy",
                          !.bucket = b, !.doc = NoPolicy, !.match = m]
      <3>1. b \in Buckets /\ NoPolicy \in Documents /\ m \in Conditions
        BY CondsAssumption DEF TypeOK, TablesOK, Documents, NoPolicy
      <3>a. "bucket" \in Labels /\ "removePolicy" \in Kinds /\ Idle("answered") \in CallRecords
        BY IdleTyped DEF Labels, Kinds, Results
      <3>2. c \in CallRecords
        BY <3>1, <3>a DEF CallRecords
      <3>3. Aimed(c)
        BY <3>1, IdleTyped DEF CallRecords, Idle, Aimed, OfPrincipal, OfBucket, OfKey
      <3>4. QED
        BY <2>1, <3>2, <3>3, RecordTyped
    <2>3. QED
      BY <1>2, <2>2, SameTables, SameLocks, TypeParts DEF BeginRemove
  <1>3. CASE TakeTenant(s)
    <2>. DEFINE W == Named(docOf(s))
                l == IF W = {} THEN "bucket" ELSE "named"
                c == [call[s] EXCEPT !.want = W, !.pc = l]
    <2>1. W \subseteq Principals /\ W \subseteq Nat
      BY <1>c, NamedTyped, PrincipalsAssumption DEF CallRecords, docOf
    <2>2. l \in Labels /\ l \in {"bucket", "named"}
      BY DEF Labels
    <2>3. c \in CallRecords
      <3>. HIDE DEF W, l
      <3>. QED  BY <1>c, <2>1, <2>2 DEF CallRecords
    <2>4. Aimed(c)
      <3>. HIDE DEF W, l
      <3>. QED  BY <1>3, <1>c, <2>1, <2>2 DEF TakeTenant, CallRecords, Aimed, OfPrincipal, OfBucket, OfKey
    <2>5. call' = [call EXCEPT ![s] = c]
      BY <1>3 DEF TakeTenant
    <2>. HIDE DEF c
    <2>6. CallsOK'
      BY <2>3, <2>4, <2>5, RecordTyped
    <2>7. LocksOK'
      BY <1>3, TakeTyped DEF TakeTenant, Resources, Modes, AdvisoryModes
    <2>8. QED
      BY <1>3, <2>6, <2>7, SameTables, TypeParts DEF TakeTenant
  <1>4. CASE RequireLive(s)
    <2>1. LocksOK' /\ CallsOK'
      <3>1. PICK p \in call[s].want :
              \/ Fail(s, "invalid")
              \/ /\ Take(s, <<"principal", p>>, "KEY SHARE")
                 /\ call' = Looped(s, p, "named", "bucket")
        BY <1>4 DEF RequireLive
      <3>2. bucketOf(s) \in Buckets /\ p \in Principals
        BY <1>4, <1>c DEF RequireLive, Aimed, OfBucket, bucketOf
      <3>3. CASE Fail(s, "invalid")
        BY <3>3, FailTyped
      <3>4. CASE /\ Take(s, <<"principal", p>>, "KEY SHARE")
                 /\ call' = Looped(s, p, "named", "bucket")
        <4>1. LocksOK'
          BY <3>2, <3>4, TakeTyped DEF Resources, Modes, RowModes
        <4>2. CallsOK'
          BY <1>4, <3>2, <3>4, LoopedTyped, ZenonT(60) DEF RequireLive, Labels, OfPrincipal, OfBucket, OfKey
        <4>3. QED
          BY <4>1, <4>2
      <3>5. QED
        BY <3>1, <3>3, <3>4
    <2>2. QED
      BY <1>4, <2>1, SameTables, TypeParts DEF RequireLive
  <1>5. CASE TakeBucket(s)
    <2>1. bucketOf(s) \in Buckets
      BY <1>5, <1>c DEF TakeBucket, Aimed, OfBucket, bucketOf
    <2>2. LocksOK'
      BY <1>5, <2>1, TakeTyped DEF TakeBucket, Resources, Modes, AdvisoryModes
    <2>3. CallsOK'
      BY <1>5, <2>1, GotoTyped DEF TakeBucket, Labels, OfPrincipal, OfBucket, OfKey
    <2>4. QED
      BY <1>5, <2>2, <2>3, SameTables, TypeParts DEF TakeBucket
  <1>6. CASE TakeBucketRow(s)
    <2>1. bucketOf(s) \in Buckets
      BY <1>6, <1>c DEF TakeBucketRow, Aimed, OfBucket, bucketOf
    <2>2. CASE Take(s, <<"bucketRow", bucketOf(s)>>, "KEY SHARE") /\ Goto(s, "row")
      <3>1. LocksOK'
        BY <2>1, <2>2, TakeTyped DEF Resources, Modes, RowModes
      <3>2. CallsOK'
        BY <2>1, <2>2, GotoTyped DEF Labels, OfPrincipal, OfBucket, OfKey
      <3>3. QED
        BY <1>6, <3>1, <3>2, SameTables, TypeParts DEF TakeBucketRow
    <2>3. CASE Fail(s, "notfound")
      BY <1>6, <2>3, FailTyped, SameTables, TypeParts DEF TakeBucketRow
    <2>4. QED
      BY <1>6, <2>2, <2>3 DEF TakeBucketRow
  <1>7. CASE LockRow(s)
    <2>. DEFINE row == <<"policyRow", bucketOf(s)>>
                old == policy[bucketOf(s)]
                l == IF call[s].kind = "removePrincipal" THEN "commit" ELSE "relist"
                c == [call[s] EXCEPT !.old = old, !.pc = l]
    <2>1. bucketOf(s) \in Buckets /\ old \in Documents
      BY <1>7, <1>c DEF LockRow, Aimed, OfBucket, bucketOf, TypeOK, TablesOK
    <2>2. \/ call[s].kind = "removePrincipal" /\ Release(s) /\ Goto(s, "strip")
          \/ \E err : Fail(s, err)
          \/ /\ locks' \in {locks, Granted(locks, s, row, "UPDATE")}
             /\ call' = [call EXCEPT ![s] = c]
      <3>1. \/ call[s].kind = "removePrincipal" /\ Release(s) /\ Goto(s, "strip")
            \/ Fail(s, Refusal(s, old))
            \/ /\ locks' \in {locks, Granted(locks, s, row, "UPDATE")}
               /\ call' = [call EXCEPT ![s] = c]
        BY <1>7 DEF LockRow
      <3>2. QED
        BY <3>1
    <2>3. CASE call[s].kind = "removePrincipal" /\ Release(s) /\ Goto(s, "strip")
      <3>1. principalOf(s) \in Principals
        BY <1>c, <2>3 DEF Aimed, principalOf
      <3>2. CallsOK'
        BY <2>3, <3>1, GotoTyped DEF Labels, OfPrincipal, OfBucket, OfKey
      <3>3. QED
        BY <1>7, <2>3, <3>2, ReleaseTyped, SameTables, TypeParts DEF LockRow
    <2>4. CASE \E err : Fail(s, err)
      BY <1>7, <2>4, FailTyped, SameTables, TypeParts DEF LockRow
    <2>5. CASE /\ locks' \in {locks, Granted(locks, s, row, "UPDATE")}
               /\ call' = [call EXCEPT ![s] = c]
      <3>a. row \in Resources /\ "UPDATE" \in Modes
        BY <2>1 DEF Resources, Modes, RowModes
      <3>1. LocksOK'
        <4>. HIDE DEF row
        <4>. QED  BY <2>5, <3>a DEF TypeOK, LocksOK, Granted, Locks
      <3>2. l \in Labels /\ l \in {"commit", "relist"}
        BY DEF Labels
      <3>3. c \in CallRecords
        <4>. HIDE DEF old, l
        <4>. QED  BY <1>c, <2>1, <3>2 DEF CallRecords
      <3>4. Aimed(c)
        <4>. HIDE DEF old, l
        <4>. QED  BY <1>c, <2>1, <3>2 DEF CallRecords, Aimed, OfPrincipal, OfBucket, OfKey, bucketOf
      <3>. HIDE DEF c
      <3>5. CallsOK'
        BY <2>5, <3>3, <3>4, RecordTyped
      <3>6. QED
        BY <1>7, <3>1, <3>5, SameTables, TypeParts DEF LockRow
    <2>6. QED
      BY <2>2, <2>3, <2>4, <2>5
  <1>8. CASE Relist(s)
    <2>. DEFINE aff == Changed(call[s].old, docOf(s), ListIDsByTenant)
                l == IF aff = {} THEN "commit" ELSE "lockP"
                c == [call[s] EXCEPT !.aff = aff, !.want = aff, !.pc = l]
    <2>1. bucketOf(s) \in Buckets
      BY <1>8, <1>c DEF Relist, Aimed, OfBucket, bucketOf
    <2>2. aff \subseteq Principals /\ aff \subseteq Nat
      <3>1. Named(call[s].old) \subseteq Principals /\ Named(docOf(s)) \subseteq Principals
        BY <1>c, NamedTyped DEF CallRecords, docOf
      <3>2. QED
        BY <3>1, PrincipalsAssumption DEF Changed, ListIDsByTenant
    <2>3. l \in Labels /\ l \in {"commit", "lockP"}
      BY DEF Labels
    <2>4. c \in CallRecords
      <3>. HIDE DEF aff, l
      <3>. QED  BY <1>c, <2>2, <2>3 DEF CallRecords
    <2>5. Aimed(c)
      <3>. HIDE DEF aff, l
      <3>. QED  BY <1>c, <2>1, <2>3 DEF CallRecords, Aimed, OfPrincipal, OfBucket, OfKey, bucketOf
    <2>6. \/ call' = [call EXCEPT ![s] = c] /\ UNCHANGED locks
          \/ Fail(s, "invalid")
      BY <1>8 DEF Relist
    <2>. HIDE DEF c
    <2>7. QED
      BY <1>8, <2>4, <2>5, <2>6, RecordTyped, SameLocks, FailTyped, SameTables, TypeParts DEF Relist
  <1>9. CASE LockPrincipals(s)
    <2>1. PICK p \in Principals :
            /\ Take(s, <<"principal", p>>, "NO KEY UPDATE") \/ UNCHANGED locks
            /\ call' = Looped(s, p, "lockP", "load")
      BY <1>9 DEF LockPrincipals
    <2>2. bucketOf(s) \in Buckets
      BY <1>9, <1>c DEF LockPrincipals, Aimed, OfBucket, bucketOf
    <2>3. LocksOK'
      BY <2>1, TakeTyped, SameLocks DEF Resources, Modes, RowModes
    <2>4. CallsOK'
      BY <1>9, <2>1, <2>2, LoopedTyped, ZenonT(60) DEF LockPrincipals, Labels, OfPrincipal, OfBucket, OfKey
    <2>5. QED
      BY <1>9, <2>3, <2>4, SameTables, TypeParts DEF LockPrincipals
  <1>10. CASE Load(s)
    <2>. DEFINE ks == KeysOf(call[s].aff)
                l == IF ks = {} THEN "commit" ELSE "lockK"
                c == [call[s] EXCEPT !.keys = ks, !.want = ks, !.pc = l]
    <2>1. ks \subseteq Keys /\ ks \subseteq Nat
      BY KeysAssumption DEF KeysOf, TypeOK, TablesOK
    <2>2. bucketOf(s) \in Buckets
      BY <1>10, <1>c DEF Load, Aimed, OfBucket, bucketOf
    <2>3. l \in Labels /\ l \in {"commit", "lockK"}
      BY DEF Labels
    <2>4. c \in CallRecords
      <3>. HIDE DEF ks, l
      <3>. QED  BY <1>c, <2>1, <2>3 DEF CallRecords
    <2>5. Aimed(c)
      <3>. HIDE DEF ks, l
      <3>. QED  BY <1>c, <2>2, <2>3 DEF CallRecords, Aimed, OfPrincipal, OfBucket, OfKey, bucketOf
    <2>6. call' = [call EXCEPT ![s] = c]
      BY <1>10 DEF Load
    <2>. HIDE DEF c
    <2>7. QED
      BY <1>10, <2>4, <2>5, <2>6, RecordTyped, SameLocks, SameTables, TypeParts DEF Load
  <1>11. CASE LockRotated(s)
    BY <1>11, <1>c, LockAudiencesTyped, ZenonT(60)
       DEF LockRotated, LockAudiences, Aimed, bucketOf, Labels, OfPrincipal, OfBucket, OfKey
  <1>12. CASE Rotate(s)
    <2>. DEFINE remaining == call[s].keys \cap keyRow
                c == [call[s] EXCEPT !.fresh = remaining, !.pc = "commit"]
    <2>1. bucketOf(s) \in Buckets /\ remaining \subseteq Keys
      BY <1>12, <1>c DEF Rotate, Aimed, OfBucket, bucketOf, CallRecords
    <2>2. c \in CallRecords
      <3>1. "commit" \in Labels
        BY DEF Labels
      <3>. HIDE DEF remaining
      <3>. QED  BY <1>c, <2>1, <3>1 DEF CallRecords
    <2>3. Aimed(c)
      <3>. HIDE DEF remaining
      <3>. QED  BY <1>c, <2>1 DEF CallRecords, Aimed, OfPrincipal, OfBucket, OfKey, bucketOf
    <2>4. TablesOK'
      <3>1. remaining \X {bucketOf(s)} \in SUBSET (Keys \X Buckets)
        BY <2>1
      <3>2. revoked' \in {revoked, revoked \cup Holding(remaining \X {bucketOf(s)})}
        BY <1>12 DEF Rotate, PublishRevocations
      <3>3. QED
        BY <1>12, <3>1, <3>2, PublishedTyped DEF Rotate
    <2>5. \/ call' = [call EXCEPT ![s] = c] /\ UNCHANGED locks
          \/ Fail(s, "error")
      BY <1>12 DEF Rotate, PublishRevocations
    <2>. HIDE DEF c
    <2>6. QED
      BY <2>2, <2>3, <2>4, <2>5, RecordTyped, SameLocks, FailTyped, TypeParts
  <1>13. CASE Commit(s)
    <2>1. bucketOf(s) \in Buckets /\ docOf(s) \in Documents /\ call[s].keys \subseteq Keys
      BY <1>13, <1>c DEF Commit, Aimed, OfBucket, bucketOf, docOf, CallRecords
    <2>2. \A k \in Keys : Rotated(s, k) \subseteq Commands
      BY GrantsTyped DEF Rotated
    <2>3. held' \in [Keys -> [Buckets -> SUBSET Commands]]
      BY <1>13, <2>1, <2>2 DEF Commit, TypeOK, TablesOK
    <2>4. LetGo(s) \subseteq Keys
      BY <2>1 DEF LetGo
    <2>5. policy' \in [Buckets -> Documents]
      BY <1>13, <2>1 DEF Commit, TypeOK, TablesOK
    <2>6. revoked' \subseteq Keys \X Buckets /\ excused' \subseteq Keys \X Buckets
      BY <1>13, <2>1, <2>4 DEF Commit, TypeOK, TablesOK
    <2>7. TablesOK'
      BY <1>13, <2>3, <2>5, <2>6 DEF Commit, TypeOK, TablesOK
    <2>8. call[s].kind = "removePrincipal" => principalOf(s) \in Principals
      BY <1>c DEF Aimed, principalOf
    <2>9. CallsOK'
      BY <1>13, <2>8, GotoTyped, FinishTyped DEF Commit, Labels, Results, OfPrincipal, OfBucket, OfKey
    <2>10. QED
      BY <1>13, <2>7, <2>9, ReleaseTyped, TypeParts DEF Commit
  <1>14. QED
    BY <1>1, <1>2, <1>3, <1>4, <1>5, <1>6, <1>7, <1>8, <1>9, <1>10, <1>11, <1>12, <1>13
       DEF PolicyStep

LEMMA PrincipalStepTyped ==
    ASSUME TypeOK, NEW s \in Procs, PrincipalStep(s)
    PROVE  TypeOK'
  <1>. USE DEF At
  <1>c. call[s] \in CallRecords /\ Aimed(call[s])
    BY CallTyped
  <1>1. CASE BeginCreatePrincipal(s)
    <2>1. PICK p \in Principals :
            call' = [call EXCEPT ![s] = [Idle("answered") EXCEPT
                       !.pc = "addTenant", !.kind = "createPrincipal", !.principal = p]]
      BY <1>1 DEF BeginCreatePrincipal
    <2>. DEFINE c == [Idle("answered") EXCEPT !.pc = "addTenant", !.kind = "createPrincipal",
                        !.principal = p]
    <2>2. "addTenant" \in Labels /\ "createPrincipal" \in Kinds /\ Idle("answered") \in CallRecords
      BY IdleTyped DEF Labels, Kinds, Results
    <2>3. c \in CallRecords
      BY <2>2 DEF CallRecords
    <2>4. Aimed(c)
      BY <2>2 DEF CallRecords, Idle, Aimed, OfPrincipal, OfBucket, OfKey
    <2>5. QED
      BY <1>1, <2>1, <2>3, <2>4, RecordTyped, SameLocks, SameTables, TypeParts DEF BeginCreatePrincipal
  <1>2. CASE AddTenant(s)
    <2>1. principalOf(s) \in Principals
      BY <1>2, <1>c DEF AddTenant, Aimed, OfPrincipal, principalOf
    <2>2. LocksOK'
      BY <1>2, TakeTyped DEF AddTenant, Resources, Modes, AdvisoryModes
    <2>3. CallsOK'
      BY <1>2, <2>1, GotoTyped DEF AddTenant, Labels, OfPrincipal, OfBucket, OfKey
    <2>4. QED
      BY <1>2, <2>2, <2>3, SameTables, TypeParts DEF AddTenant
  <1>3. CASE AddRow(s)
    <2>1. principalOf(s) \in Principals
      BY <1>3, <1>c DEF AddRow, Aimed, OfPrincipal, principalOf
    <2>2. TablesOK'
      BY <1>3 DEF AddRow, TypeOK, TablesOK
    <2>3. CallsOK'
      BY <1>3, <2>1, GotoTyped DEF AddRow, Labels, OfPrincipal, OfBucket, OfKey
    <2>4. QED
      BY <1>3, <2>2, <2>3, ReleaseTyped, TypeParts DEF AddRow
  <1>4. CASE AddGet(s)
    BY <1>4, FinishTyped, SameTables, SameLocks, TypeParts DEF AddGet, Results
  <1>5. CASE BeginDeletePrincipal(s)
    <2>1. PICK p \in Principals :
            call' = [call EXCEPT ![s] = [Idle("answered") EXCEPT
                       !.pc = "rvLoad", !.kind = "removePrincipal", !.principal = p]]
      BY <1>5 DEF BeginDeletePrincipal
    <2>. DEFINE c == [Idle("answered") EXCEPT !.pc = "rvLoad", !.kind = "removePrincipal",
                        !.principal = p]
    <2>2. "rvLoad" \in Labels /\ "removePrincipal" \in Kinds /\ Idle("answered") \in CallRecords
      BY IdleTyped DEF Labels, Kinds, Results
    <2>3. c \in CallRecords
      BY <2>2 DEF CallRecords
    <2>4. Aimed(c)
      BY <2>2 DEF CallRecords, Idle, Aimed, OfPrincipal, OfBucket, OfKey
    <2>5. QED
      BY <1>5, <2>1, <2>3, <2>4, RecordTyped, SameLocks, SameTables, TypeParts DEF BeginDeletePrincipal
  <1>6. CASE RevokeLoad(s)
    <2>. DEFINE ks == KeysOf({principalOf(s)})
                l == IF ks = {} THEN "stripList" ELSE "rvLock"
                c == [call[s] EXCEPT !.keys = ks, !.want = ks, !.pc = l]
    <2>1. ks \subseteq Keys /\ ks \subseteq Nat
      BY KeysAssumption DEF KeysOf, TypeOK, TablesOK
    <2>2. principalOf(s) \in Principals
      BY <1>6, <1>c DEF RevokeLoad, Aimed, OfPrincipal, principalOf
    <2>3. l \in Labels /\ l \in {"stripList", "rvLock"}
      BY DEF Labels
    <2>4. c \in CallRecords
      <3>. HIDE DEF ks, l
      <3>. QED  BY <1>c, <2>1, <2>3 DEF CallRecords
    <2>5. Aimed(c)
      <3>. HIDE DEF ks, l
      <3>. QED  BY <1>c, <2>2, <2>3 DEF CallRecords, Aimed, OfPrincipal, OfBucket, OfKey, principalOf
    <2>6. call' = [call EXCEPT ![s] = c]
      BY <1>6 DEF RevokeLoad
    <2>. HIDE DEF c
    <2>7. QED
      BY <1>6, <2>4, <2>5, <2>6, RecordTyped, SameLocks, SameTables, TypeParts DEF RevokeLoad
  <1>7. CASE RevokeLock(s)
    <2>1. principalOf(s) \in Principals
      BY <1>7, <1>c DEF RevokeLock, LockAudiences, Aimed, OfPrincipal, principalOf
    <2>2. /\ "rvLock" \in Labels /\ "rvPublish" \in Labels /\ "rvPublish" # "named"
          /\ "rvPublish" \in OfPrincipal
          /\ "rvPublish" \notin OfBucket /\ "rvPublish" \notin OfKey
      BY DEF Labels, OfPrincipal, OfBucket, OfKey
    <2>3. QED
      BY <1>7, <2>1, <2>2, LockAudiencesTyped DEF RevokeLock
  <1>8. CASE RevokePublish(s)
    <2>1. principalOf(s) \in Principals /\ call[s].keys \X Buckets \in SUBSET (Keys \X Buckets)
      BY <1>8, <1>c DEF RevokePublish, Aimed, OfPrincipal, principalOf, CallRecords
    <2>2. TablesOK'
      <3>1. revoked' \in {revoked, revoked \cup Holding(call[s].keys \X Buckets)}
        BY <1>8 DEF RevokePublish, PublishRevocations
      <3>2. QED
        BY <1>8, <2>1, <3>1, PublishedTyped DEF RevokePublish
    <2>3. \/ Goto(s, "rvCommit") /\ UNCHANGED locks
          \/ Fail(s, "error")
      BY <1>8 DEF RevokePublish, PublishRevocations
    <2>4. CASE Goto(s, "rvCommit") /\ UNCHANGED locks
      <3>1. CallsOK'
        BY <2>1, <2>4, GotoTyped DEF Labels, OfPrincipal, OfBucket, OfKey
      <3>2. QED
        BY <2>2, <2>4, <3>1, SameLocks, TypeParts
    <2>5. QED
      BY <2>2, <2>3, <2>4, FailTyped, TypeParts
  <1>9. CASE RevokeCommit(s)
    <2>. DEFINE c == [call[s] EXCEPT !.keys = {}, !.pc = "stripList"]
    <2>1. principalOf(s) \in Principals /\ call[s].keys \subseteq Keys
      BY <1>9, <1>c DEF RevokeCommit, Aimed, OfPrincipal, principalOf, CallRecords
    <2>2. c \in CallRecords
      <3>1. "stripList" \in Labels
        BY DEF Labels
      <3>2. QED
        BY <1>c, <3>1 DEF CallRecords
    <2>3. Aimed(c)
      BY <1>c, <2>1 DEF CallRecords, Aimed, OfPrincipal, OfBucket, OfKey, principalOf
    <2>4. call' = [call EXCEPT ![s] = c]
      BY <1>9 DEF RevokeCommit
    <2>. HIDE DEF c
    <2>5. TablesOK'
      BY <1>9, <2>1 DEF RevokeCommit, TypeOK, TablesOK
    <2>6. QED
      BY <1>9, <2>2, <2>3, <2>4, <2>5, RecordTyped, ReleaseTyped, TypeParts DEF RevokeCommit
  <1>10. CASE StripList(s)
    <2>. DEFINE bs == ListByPrincipal(principalOf(s))
                c == [call[s] EXCEPT !.todo = bs, !.snap = policy, !.pc = "strip"]
    <2>1. principalOf(s) \in Principals /\ bs \subseteq Buckets
          /\ policy \in [Buckets -> Documents]
      BY <1>10, <1>c DEF StripList, Aimed, OfPrincipal, principalOf, ListByPrincipal, TypeOK, TablesOK
    <2>2. c \in CallRecords
      <3>1. "strip" \in Labels
        BY DEF Labels
      <3>. HIDE DEF bs
      <3>2. QED
        BY <1>c, <2>1, <3>1 DEF CallRecords
    <2>3. Aimed(c)
      <3>. HIDE DEF bs
      <3>. QED  BY <1>c, <2>1 DEF CallRecords, Aimed, OfPrincipal, OfBucket, OfKey, principalOf
    <2>4. call' = [call EXCEPT ![s] = c]
      BY <1>10 DEF StripList
    <2>. HIDE DEF c
    <2>5. QED
      BY <1>10, <2>2, <2>3, <2>4, RecordTyped, SameLocks, SameTables, TypeParts DEF StripList
  <1>11. CASE StripPolicy(s)
    <2>1. PICK b \in call[s].todo :
            LET old == call[s].snap[b]
                new == RemovePrincipal(old, principalOf(s))
            IN  call' = [call EXCEPT
                    ![s].todo = @ \ {b}, ![s].bucket = b, ![s].doc = new,
                    ![s].match = IfMatch(ETag(old)),
                    ![s].pc = StripWrite(s, old, new)]
      BY <1>11 DEF StripPolicy
    <2>. DEFINE old == call[s].snap[b]
                new == RemovePrincipal(old, principalOf(s))
                m == IfMatch(ETag(old))
                l == StripWrite(s, old, new)
                c == [call[s] EXCEPT !.todo = @ \ {b}, !.bucket = b, !.doc = new,
                                     !.match = m, !.pc = l]
    <2>2. principalOf(s) \in Principals /\ b \in Buckets /\ old \in Documents
      BY <1>11, <1>c DEF StripPolicy, Aimed, OfPrincipal, principalOf, CallRecords
    <2>3. new \in Documents
      BY <2>2, RemoveTyped
    <2>4. m \in Conditions
      BY <2>2 DEF IfMatch, ETag, Conditions
    <2>5. l \in Labels /\ l \in {"strip", "bucket", "tenant"}
      BY DEF Labels, StripWrite
    <2>6. c \in CallRecords
      <3>. HIDE DEF new, m, l
      <3>. QED  BY <1>c, <2>2, <2>3, <2>4, <2>5 DEF CallRecords
    <2>7. Aimed(c)
      <3>. HIDE DEF new, m, l
      <3>. QED  BY <1>c, <2>2, <2>5 DEF CallRecords, Aimed, OfPrincipal, OfBucket, OfKey, principalOf
    <2>8. call' = [call EXCEPT ![s] = c]
      BY <2>1
    <2>. HIDE DEF c
    <2>9. QED
      BY <1>11, <2>6, <2>7, <2>8, RecordTyped, SameLocks, SameTables, TypeParts DEF StripPolicy
  <1>12. CASE StripDone(s)
    <2>1. principalOf(s) \in Principals
      BY <1>12, <1>c DEF StripDone, Aimed, OfPrincipal, principalOf
    <2>2. CallsOK'
      BY <1>12, <2>1, GotoTyped DEF StripDone, Labels, OfPrincipal, OfBucket, OfKey
    <2>3. QED
      BY <1>12, <2>2, SameLocks, SameTables, TypeParts DEF StripDone
  <1>13. CASE Tombstone(s)
    <2>1. principalOf(s) \in Principals
      BY <1>13, <1>c DEF Tombstone, Aimed, OfPrincipal, principalOf
    <2>2. \/ Finish(s, "answered") /\ UNCHANGED locks
          \/ Take(s, <<"principal", principalOf(s)>>, "UPDATE") /\ Goto(s, "tombCheck")
      BY <1>13 DEF Tombstone, Take
    <2>3. CASE Take(s, <<"principal", principalOf(s)>>, "UPDATE") /\ Goto(s, "tombCheck")
      <3>1. LocksOK'
        BY <2>1, <2>3, TakeTyped DEF Resources, Modes, RowModes
      <3>2. CallsOK'
        BY <2>1, <2>3, GotoTyped DEF Labels, OfPrincipal, OfBucket, OfKey
      <3>3. QED
        BY <1>13, <3>1, <3>2, SameTables, TypeParts DEF Tombstone
    <2>4. QED
      BY <1>13, <2>2, <2>3, FinishTyped, SameLocks, SameTables, TypeParts DEF Tombstone, Results
  <1>14. CASE NamedAgain(s)
    <2>1. principalOf(s) \in Principals
      BY <1>14, <1>c DEF NamedAgain, Aimed, OfPrincipal, principalOf
    <2>2. CASE Goto(s, "tombKeys") /\ UNCHANGED locks
      <3>1. CallsOK'
        BY <2>1, <2>2, GotoTyped DEF Labels, OfPrincipal, OfBucket, OfKey
      <3>2. QED
        BY <1>14, <2>2, <3>1, SameLocks, SameTables, TypeParts DEF NamedAgain
    <2>3. QED
      BY <1>14, <2>2, FailTyped, SameTables, TypeParts DEF NamedAgain
  <1>15. CASE RemoveLoad(s)
    <2>. DEFINE ks == KeysOf({principalOf(s)})
                l == IF ks = {} THEN "tombCommit" ELSE "tombLock"
                c == [call[s] EXCEPT !.keys = ks, !.want = ks, !.pc = l]
    <2>1. ks \subseteq Keys /\ ks \subseteq Nat
      BY KeysAssumption DEF KeysOf, TypeOK, TablesOK
    <2>2. principalOf(s) \in Principals
      BY <1>15, <1>c DEF RemoveLoad, Aimed, OfPrincipal, principalOf
    <2>3. l \in Labels /\ l \in {"tombCommit", "tombLock"}
      BY DEF Labels
    <2>4. c \in CallRecords
      <3>. HIDE DEF ks, l
      <3>. QED  BY <1>c, <2>1, <2>3 DEF CallRecords
    <2>5. Aimed(c)
      <3>. HIDE DEF ks, l
      <3>. QED  BY <1>c, <2>2, <2>3 DEF CallRecords, Aimed, OfPrincipal, OfBucket, OfKey, principalOf
    <2>6. call' = [call EXCEPT ![s] = c]
      BY <1>15 DEF RemoveLoad
    <2>. HIDE DEF c
    <2>7. QED
      BY <1>15, <2>4, <2>5, <2>6, RecordTyped, SameLocks, SameTables, TypeParts DEF RemoveLoad
  <1>16. CASE RemoveLock(s)
    <2>1. principalOf(s) \in Principals
      BY <1>16, <1>c DEF RemoveLock, LockAudiences, Aimed, OfPrincipal, principalOf
    <2>2. /\ "tombLock" \in Labels /\ "tombPublish" \in Labels /\ "tombPublish" # "named"
          /\ "tombPublish" \in OfPrincipal
          /\ "tombPublish" \notin OfBucket /\ "tombPublish" \notin OfKey
      BY DEF Labels, OfPrincipal, OfBucket, OfKey
    <2>3. QED
      BY <1>16, <2>1, <2>2, LockAudiencesTyped DEF RemoveLock
  <1>17. CASE RemovePublish(s)
    <2>. DEFINE rows == {[by |-> s, on |-> <<"keyRow", k>>, mode |-> "UPDATE"] : k \in call[s].keys}
    <2>1. principalOf(s) \in Principals /\ call[s].keys \X Buckets \in SUBSET (Keys \X Buckets)
          /\ call[s].keys \subseteq Keys
      BY <1>17, <1>c DEF RemovePublish, Aimed, OfPrincipal, principalOf, CallRecords
    <2>2. TablesOK'
      <3>1. revoked' \in {revoked, revoked \cup Holding(call[s].keys \X Buckets)}
        BY <1>17 DEF RemovePublish, PublishRevocations
      <3>2. QED
        BY <1>17, <2>1, <3>1, PublishedTyped DEF RemovePublish
    <2>3. \/ Goto(s, "tombSecrets") /\ locks' = locks \cup rows
          \/ Fail(s, "error")
      BY <1>17 DEF RemovePublish, PublishRevocations
    <2>4. CASE Goto(s, "tombSecrets") /\ locks' = locks \cup rows
      <3>1. CallsOK'
        BY <2>1, <2>4, GotoTyped DEF Labels, OfPrincipal, OfBucket, OfKey
      <3>2. rows \subseteq Locks
        <4>1. \A k \in call[s].keys : <<"keyRow", k>> \in Resources
          BY <2>1 DEF Resources
        <4>2. "UPDATE" \in Modes
          BY DEF Modes, RowModes
        <4>3. QED
          BY <4>1, <4>2 DEF Locks
      <3>3. LocksOK'
        BY <2>4, <3>2 DEF TypeOK, LocksOK
      <3>4. QED
        BY <2>2, <3>1, <3>3, TypeParts
    <2>5. QED
      BY <2>2, <2>3, <2>4, FailTyped, TypeParts
  <1>18. CASE RemoveSecrets(s)
    <2>1. principalOf(s) \in Principals
      BY <1>18, <1>c DEF RemoveSecrets, Aimed, OfPrincipal, principalOf
    <2>2. TablesOK'
      BY <1>18 DEF RemoveSecrets, TypeOK, TablesOK
    <2>3. CallsOK'
      BY <1>18, <2>1, GotoTyped DEF RemoveSecrets, Labels, OfPrincipal, OfBucket, OfKey
    <2>4. QED
      BY <1>18, <2>2, <2>3, SameLocks, TypeParts DEF RemoveSecrets
  <1>19. CASE TombstoneCommit(s)
    <2>1. call[s].keys \subseteq Keys
      BY <1>c DEF CallRecords
    <2>2. TablesOK'
      BY <1>19, <2>1, ClearGrantsTyped DEF TombstoneCommit, TypeOK, TablesOK
    <2>3. QED
      BY <1>19, <2>2, FinishTyped, ReleaseTyped, TypeParts DEF TombstoneCommit, Results
  <1>20. QED
    BY <1>1, <1>2, <1>3, <1>4, <1>5, <1>6, <1>7, <1>8, <1>9, <1>10, <1>11, <1>12,
       <1>13, <1>14, <1>15, <1>16, <1>17, <1>18, <1>19
       DEF PrincipalStep

LEMMA AccessKeyStepTyped ==
    ASSUME TypeOK, NEW s \in Procs, AccessKeyStep(s)
    PROVE  TypeOK'
  <1>. USE DEF At
  <1>c. call[s] \in CallRecords /\ Aimed(call[s])
    BY CallTyped
  <1>1. CASE BeginCreateKey(s)
    <2>1. PICK p \in Principals :
            call' = [call EXCEPT ![s] = [Idle("answered") EXCEPT
                       !.pc = "ckPrincipal", !.kind = "createKey", !.principal = p]]
      BY <1>1 DEF BeginCreateKey
    <2>. DEFINE c == [Idle("answered") EXCEPT !.pc = "ckPrincipal", !.kind = "createKey",
                        !.principal = p]
    <2>2. "ckPrincipal" \in Labels /\ "createKey" \in Kinds /\ Idle("answered") \in CallRecords
      BY IdleTyped DEF Labels, Kinds, Results
    <2>3. c \in CallRecords
      BY <2>2 DEF CallRecords
    <2>4. Aimed(c)
      BY <2>2 DEF CallRecords, Idle, Aimed, OfPrincipal, OfBucket, OfKey
    <2>5. QED
      BY <1>1, <2>1, <2>3, <2>4, RecordTyped, SameLocks, SameTables, TypeParts DEF BeginCreateKey
  <1>2. CASE FindPrincipal(s)
    <2>1. principalOf(s) \in Principals
      BY <1>2, <1>c DEF FindPrincipal, Aimed, OfPrincipal, principalOf
    <2>2. Goto(s, "ckSecret") \/ Finish(s, "answered")
      BY <1>2 DEF FindPrincipal
    <2>3. CallsOK'
      BY <2>1, <2>2, GotoTyped, FinishTyped DEF Labels, Results, OfPrincipal, OfBucket, OfKey
    <2>4. QED
      BY <1>2, <2>3, SameLocks, SameTables, TypeParts DEF FindPrincipal
  <1>3. CASE WriteSecret(s)
    <2>1. PICK k \in Keys : /\ owner' = [owner EXCEPT ![k] = principalOf(s)]
                            /\ secrets' = secrets \cup {k}
                            /\ call' = [call EXCEPT ![s].key = k, ![s].pc = "ckAdd"]
      BY <1>3 DEF WriteSecret
    <2>. DEFINE c == [call[s] EXCEPT !.key = k, !.pc = "ckAdd"]
    <2>2. principalOf(s) \in Principals
      BY <1>3, <1>c DEF WriteSecret, Aimed, OfPrincipal, principalOf
    <2>3. c \in CallRecords
      <3>1. "ckAdd" \in Labels
        BY DEF Labels
      <3>2. QED
        BY <1>c, <3>1 DEF CallRecords
    <2>4. Aimed(c)
      BY <1>c, <2>2 DEF CallRecords, Aimed, OfPrincipal, OfBucket, OfKey, principalOf
    <2>5. call' = [call EXCEPT ![s] = c]
      BY <2>1
    <2>. HIDE DEF c
    <2>6. TablesOK'
      BY <1>3, <2>1, <2>2 DEF WriteSecret, TypeOK, TablesOK
    <2>7. QED
      BY <1>3, <2>3, <2>4, <2>5, <2>6, RecordTyped, SameLocks, TypeParts DEF WriteSecret
  <1>4. CASE AddKey(s)
    <2>1. principalOf(s) \in Principals /\ keyOf(s) \in Keys
      BY <1>4, <1>c DEF AddKey, Aimed, OfPrincipal, OfKey, principalOf, keyOf
    <2>2. TablesOK'
      BY <1>4, <2>1 DEF AddKey, TypeOK, TablesOK
    <2>3. CASE Goto(s, "ckSnap") /\ UNCHANGED locks
      <3>1. CallsOK'
        BY <2>1, <2>3, GotoTyped DEF Labels, OfPrincipal, OfBucket, OfKey
      <3>2. QED
        BY <2>2, <2>3, <3>1, SameLocks, TypeParts
    <2>4. QED
      BY <1>4, <2>2, <2>3, FailTyped, TypeParts DEF AddKey
  <1>5. CASE ListSnapshot(s)
    <2>. DEFINE bs == ListByPrincipal(principalOf(s))
                l == IF bs = {} THEN AfterListing(s, NoDocs) ELSE "ckRows"
                c == [call[s] EXCEPT !.want = bs, !.pc = l]
    <2>1. principalOf(s) \in Principals /\ keyOf(s) \in Keys
      BY <1>5, <1>c DEF ListSnapshot, Aimed, OfPrincipal, OfKey, principalOf, keyOf
    <2>2. bs \subseteq Nat
      BY BucketsAssumption DEF ListByPrincipal
    <2>3. l \in Labels /\ l \in {"ckStore", "ckGet", "ckRows"}
      BY DEF AfterListing, Labels
    <2>4. c \in CallRecords
      <3>. HIDE DEF bs, l
      <3>. QED  BY <1>c, <2>2, <2>3 DEF CallRecords
    <2>5. Aimed(c)
      <3>. HIDE DEF bs, l
      <3>. QED  BY <1>c, <2>1, <2>3 DEF CallRecords, Aimed, OfPrincipal, OfBucket, OfKey,
                                       principalOf, keyOf
    <2>6. call' = [call EXCEPT ![s] = c]
      BY <1>5 DEF ListSnapshot
    <2>. HIDE DEF c
    <2>7. QED
      BY <1>5, <2>4, <2>5, <2>6, RecordTyped, SameLocks, SameTables, TypeParts DEF ListSnapshot
  <1>6. CASE ListRows(s)
    <2>. DEFINE docs(b) == [call[s].snap EXCEPT ![b] = policy[b]]
                row(b) == <<"policyRow", b>>
                l(b) == IF call[s].want = {b} THEN AfterListing(s, docs(b)) ELSE "ckRows"
                c(b) == [call[s] EXCEPT !.want = @ \ {b}, !.snap = docs(b), !.pc = l(b)]
    <2>1. PICK b \in Buckets :
            /\ locks' \in {Released(locks, s), locks, Granted(locks, s, row(b), "SHARE")}
            /\ call' = [call EXCEPT ![s] = c(b)]
      BY <1>6, ZenonT(60) DEF ListRows
    <2>2. principalOf(s) \in Principals /\ keyOf(s) \in Keys
      BY <1>6, <1>c DEF ListRows, Aimed, OfPrincipal, OfKey, principalOf, keyOf
    <2>3. docs(b) \in [Buckets -> Documents]
      BY <1>c DEF TypeOK, TablesOK, CallRecords
    <2>4. l(b) \in Labels /\ l(b) \in {"ckStore", "ckGet", "ckRows"}
      BY DEF AfterListing, Labels
    <2>5. c(b) \in CallRecords
      <3>. HIDE DEF docs, l
      <3>. QED  BY <1>c, <2>3, <2>4 DEF CallRecords
    <2>6. Aimed(c(b))
      <3>. HIDE DEF docs, l
      <3>. QED  BY <1>c, <2>2, <2>4 DEF CallRecords, Aimed, OfPrincipal, OfBucket, OfKey,
                                       principalOf, keyOf
    <2>7. LocksOK'
      <3>1. row(b) \in Resources /\ "SHARE" \in Modes
        BY DEF Resources, Modes, RowModes
      <3>. HIDE DEF row
      <3>2. QED
        BY <2>1, <3>1 DEF TypeOK, LocksOK, Granted, Released, Locks
    <2>. HIDE DEF c
    <2>8. QED
      BY <1>6, <2>1, <2>5, <2>6, <2>7, RecordTyped, SameTables, TypeParts DEF ListRows
  <1>7. CASE StoreGrants(s)
    <2>1. keyOf(s) \in Keys
      BY <1>7, <1>c DEF StoreGrants, Aimed, OfKey, keyOf
    <2>2. Derived(s, call[s].snap) \in [Buckets -> SUBSET Commands]
      BY GrantsTyped DEF Derived
    <2>3. TablesOK'
      BY <1>7, <2>1, <2>2 DEF StoreGrants, TypeOK, TablesOK
    <2>4. CASE Goto(s, "ckGet") /\ UNCHANGED locks
      <3>1. CallsOK'
        BY <2>1, <2>4, GotoTyped DEF Labels, OfPrincipal, OfBucket, OfKey
      <3>2. QED
        BY <2>3, <2>4, <3>1, SameLocks, TypeParts
    <2>5. QED
      BY <1>7, <2>3, <2>4, FailTyped, TypeParts DEF StoreGrants
  <1>8. CASE ReturnKey(s)
    <2>1. keyOf(s) \in Keys
      BY <1>8, <1>c DEF ReturnKey, Aimed, OfKey, keyOf
    <2>2. TablesOK'
      BY <1>8, <2>1 DEF ReturnKey, TypeOK, TablesOK
    <2>3. QED
      BY <1>8, <2>2, FinishTyped, SameLocks, FailTyped, TypeParts DEF ReturnKey, Results
  <1>9. CASE RollbackGrants(s)
    <2>1. keyOf(s) \in Keys
      BY <1>9, <1>c DEF RollbackGrants, Aimed, OfKey, keyOf
    <2>2. TablesOK'
      <3>1. {keyOf(s)} \in SUBSET Keys
        BY <2>1
      <3>2. QED
        BY <1>9, <3>1, ClearGrantsTyped DEF RollbackGrants, TypeOK, TablesOK
    <2>3. CallsOK'
      BY <1>9, <2>1, GotoTyped DEF RollbackGrants, Labels, OfPrincipal, OfBucket, OfKey
    <2>4. QED
      BY <1>9, <2>2, <2>3, SameLocks, TypeParts DEF RollbackGrants
  <1>10. CASE RollbackRow(s)
    <2>1. keyOf(s) \in Keys
      BY <1>10, <1>c DEF RollbackRow, Aimed, OfKey, keyOf
    <2>2. TablesOK'
      BY <1>10 DEF RollbackRow, TypeOK, TablesOK
    <2>3. CallsOK'
      BY <1>10, <2>1, GotoTyped DEF RollbackRow, Labels, OfPrincipal, OfBucket, OfKey
    <2>4. QED
      BY <1>10, <2>2, <2>3, SameLocks, TypeParts DEF RollbackRow
  <1>11. CASE RollbackSecret(s)
    <2>1. call[s].res \in Results
      BY <1>c DEF CallRecords
    <2>2. TablesOK'
      BY <1>11 DEF RollbackSecret, TypeOK, TablesOK
    <2>3. QED
      BY <1>11, <2>1, <2>2, FinishTyped, SameLocks, TypeParts DEF RollbackSecret
  <1>12. CASE BeginDeleteKey(s)
    <2>1. PICK k \in keyRow :
            call' = [call EXCEPT ![s] = [Idle("answered") EXCEPT
                       !.pc = "kdLock", !.kind = "deleteKey", !.key = k,
                       !.keys = {k}, !.want = {k}]]
      BY <1>12 DEF BeginDeleteKey
    <2>. DEFINE c == [Idle("answered") EXCEPT !.pc = "kdLock", !.kind = "deleteKey",
                        !.key = k, !.keys = {k}, !.want = {k}]
    <2>2. k \in Keys /\ {k} \in SUBSET Keys /\ {k} \in SUBSET Nat
      BY KeysAssumption DEF TypeOK, TablesOK
    <2>3. "kdLock" \in Labels /\ "deleteKey" \in Kinds /\ Idle("answered") \in CallRecords
      BY IdleTyped DEF Labels, Kinds, Results
    <2>4. c \in CallRecords
      BY <2>2, <2>3 DEF CallRecords
    <2>5. Aimed(c)
      BY <2>2, <2>3 DEF CallRecords, Idle, Aimed, OfPrincipal, OfBucket, OfKey
    <2>6. QED
      BY <1>12, <2>1, <2>4, <2>5, RecordTyped, SameLocks, SameTables, TypeParts DEF BeginDeleteKey
  <1>13. CASE DeleteLock(s)
    <2>1. keyOf(s) \in Keys
      BY <1>13, <1>c DEF DeleteLock, LockAudiences, Aimed, OfKey, keyOf
    <2>2. /\ "kdLock" \in Labels /\ "kdPublish" \in Labels /\ "kdPublish" # "named"
          /\ "kdPublish" \in OfKey
          /\ "kdPublish" \notin OfPrincipal /\ "kdPublish" \notin OfBucket
      BY DEF Labels, OfPrincipal, OfBucket, OfKey
    <2>3. QED
      BY <1>13, <2>1, <2>2, LockAudiencesTyped DEF DeleteLock
  <1>14. CASE DeletePublish(s)
    <2>1. keyOf(s) \in Keys /\ {keyOf(s)} \X Buckets \in SUBSET (Keys \X Buckets)
      BY <1>14, <1>c DEF DeletePublish, Aimed, OfKey, keyOf
    <2>2. TablesOK'
      <3>1. revoked' \in {revoked, revoked \cup Holding({keyOf(s)} \X Buckets)}
        BY <1>14 DEF DeletePublish, PublishRevocations
      <3>2. QED
        BY <1>14, <2>1, <3>1, PublishedTyped DEF DeletePublish
    <2>3. \/ /\ Take(s, <<"keyRow", keyOf(s)>>, "UPDATE")
             /\ Goto(s, "kdCommit")
          \/ Fail(s, "error")
      BY <1>14 DEF DeletePublish, PublishRevocations, Take
    <2>4. CASE Take(s, <<"keyRow", keyOf(s)>>, "UPDATE") /\ Goto(s, "kdCommit")
      <3>1. CallsOK'
        BY <2>1, <2>4, GotoTyped DEF Labels, OfPrincipal, OfBucket, OfKey
      <3>2. LocksOK'
        BY <2>1, <2>4, TakeTyped DEF Resources, Modes, RowModes
      <3>3. QED
        BY <2>2, <3>1, <3>2, TypeParts
    <2>5. QED
      BY <2>2, <2>3, <2>4, FailTyped, TypeParts
  <1>15. CASE DeleteCommit(s)
    <2>1. keyOf(s) \in Keys /\ {keyOf(s)} \in SUBSET Keys
      BY <1>15, <1>c DEF DeleteCommit, Aimed, OfKey, keyOf
    <2>2. TablesOK'
      BY <1>15, <2>1, ClearGrantsTyped DEF DeleteCommit, TypeOK, TablesOK
    <2>3. CallsOK'
      BY <1>15, <2>1, GotoTyped DEF DeleteCommit, Labels, OfPrincipal, OfBucket, OfKey
    <2>4. QED
      BY <1>15, <2>2, <2>3, ReleaseTyped, TypeParts DEF DeleteCommit
  <1>16. CASE DeleteSecret(s)
    <2>1. TablesOK'
      BY <1>16 DEF DeleteSecret, TypeOK, TablesOK
    <2>2. QED
      BY <1>16, <2>1, FinishTyped, SameLocks, TypeParts DEF DeleteSecret, Results
  <1>17. QED
    BY <1>1, <1>2, <1>3, <1>4, <1>5, <1>6, <1>7, <1>8, <1>9, <1>10, <1>11, <1>12,
       <1>13, <1>14, <1>15, <1>16
       DEF AccessKeyStep

LEMMA BucketStepTyped ==
    ASSUME TypeOK, NEW s \in Procs, BucketStep(s)
    PROVE  TypeOK'
  <1>. USE DEF At
  <1>c. call[s] \in CallRecords /\ Aimed(call[s])
    BY CallTyped
  <1>1. CASE BeginDeleteBucket(s)
    <2>1. PICK b \in buckets :
            call' = [call EXCEPT ![s] = [Idle("answered") EXCEPT
                       !.pc = "dbLock", !.kind = "deleteBucket", !.bucket = b]]
      BY <1>1 DEF BeginDeleteBucket
    <2>. DEFINE c == [Idle("answered") EXCEPT !.pc = "dbLock", !.kind = "deleteBucket",
                        !.bucket = b]
    <2>2. /\ b \in Buckets
          /\ "dbLock" \in Labels /\ "deleteBucket" \in Kinds /\ Idle("answered") \in CallRecords
      BY IdleTyped DEF Labels, Kinds, Results, TypeOK, TablesOK
    <2>3. c \in CallRecords
      BY <2>2 DEF CallRecords
    <2>4. Aimed(c)
      BY <2>2 DEF CallRecords, Idle, Aimed, OfPrincipal, OfBucket, OfKey
    <2>5. QED
      BY <1>1, <2>1, <2>3, <2>4, RecordTyped, SameLocks, SameTables, TypeParts DEF BeginDeleteBucket
  <1>2. CASE DeleteByBucket(s)
    <2>1. bucketOf(s) \in Buckets
      BY <1>2, <1>c DEF DeleteByBucket, Aimed, OfBucket, bucketOf
    <2>2. LocksOK'
      BY <1>2, <2>1, TakeTyped DEF DeleteByBucket, Resources, Modes, AdvisoryModes
    <2>3. CallsOK'
      BY <1>2, <2>1, GotoTyped DEF DeleteByBucket, Labels, OfPrincipal, OfBucket, OfKey
    <2>4. QED
      BY <1>2, <2>2, <2>3, SameTables, TypeParts DEF DeleteByBucket
  <1>3. CASE RevokeSubject(s)
    <2>1. bucketOf(s) \in Buckets /\ Keys \X {bucketOf(s)} \in SUBSET (Keys \X Buckets)
      BY <1>3, <1>c DEF RevokeSubject, Aimed, OfBucket, bucketOf
    <2>2. TablesOK'
      <3>1. revoked' \in {revoked, revoked \cup Holding(Keys \X {bucketOf(s)})}
        BY <1>3 DEF RevokeSubject, PublishRevocations
      <3>2. QED
        BY <1>3, <2>1, <3>1, PublishedTyped DEF RevokeSubject
    <2>3. \/ Goto(s, "dbAudiences") /\ UNCHANGED locks
          \/ Fail(s, "error")
      BY <1>3 DEF RevokeSubject, PublishRevocations
    <2>4. CASE Goto(s, "dbAudiences") /\ UNCHANGED locks
      <3>1. CallsOK'
        BY <2>1, <2>4, GotoTyped DEF Labels, OfPrincipal, OfBucket, OfKey
      <3>2. QED
        BY <2>2, <2>4, <3>1, SameLocks, TypeParts
    <2>5. QED
      BY <2>2, <2>3, <2>4, FailTyped, TypeParts
  <1>4. CASE SubjectAudiences(s)
    <2>. DEFINE ks == HoldersOf(bucketOf(s))
                l == IF ks = {} THEN "dbDelete" ELSE "dbLockK"
                c == [call[s] EXCEPT !.want = ks, !.pc = l]
    <2>1. ks \subseteq Nat
      BY KeysAssumption DEF HoldersOf
    <2>2. bucketOf(s) \in Buckets
      BY <1>4, <1>c DEF SubjectAudiences, Aimed, OfBucket, bucketOf
    <2>3. l \in Labels /\ l \in {"dbDelete", "dbLockK"}
      BY DEF Labels
    <2>4. c \in CallRecords
      <3>. HIDE DEF ks, l
      <3>. QED  BY <1>c, <2>1, <2>3 DEF CallRecords
    <2>5. Aimed(c)
      <3>. HIDE DEF ks, l
      <3>. QED  BY <1>c, <2>2, <2>3 DEF CallRecords, Aimed, OfPrincipal, OfBucket, OfKey, bucketOf
    <2>6. call' = [call EXCEPT ![s] = c]
      BY <1>4 DEF SubjectAudiences
    <2>. HIDE DEF c
    <2>7. QED
      BY <1>4, <2>4, <2>5, <2>6, RecordTyped, SameLocks, SameTables, TypeParts DEF SubjectAudiences
  <1>5. CASE SubjectLock(s)
    <2>1. bucketOf(s) \in Buckets
      BY <1>5, <1>c DEF SubjectLock, LockAudiences, Aimed, OfBucket, bucketOf
    <2>2. /\ "dbLockK" \in Labels /\ "dbDelete" \in Labels /\ "dbDelete" # "named"
          /\ "dbDelete" \in OfBucket
          /\ "dbDelete" \notin OfPrincipal /\ "dbDelete" \notin OfKey
      BY DEF Labels, OfPrincipal, OfBucket, OfKey
    <2>3. QED
      BY <1>5, <2>1, <2>2, LockAudiencesTyped DEF SubjectLock
  <1>6. CASE DeleteBySubject(s)
    <2>. DEFINE ks == HoldersOf(bucketOf(s))
                c == [call[s] EXCEPT !.keys = ks, !.pc = "dbCommit"]
    <2>1. ks \subseteq Keys /\ "dbCommit" \in Labels
      BY DEF HoldersOf, Labels
    <2>2. bucketOf(s) \in Buckets
      BY <1>6, <1>c DEF DeleteBySubject, Aimed, OfBucket, bucketOf
    <2>3. c \in CallRecords
      <3>. HIDE DEF ks
      <3>. QED  BY <1>c, <2>1 DEF CallRecords
    <2>4. Aimed(c)
      <3>. HIDE DEF ks
      <3>. QED  BY <1>c, <2>2 DEF CallRecords, Aimed, OfPrincipal, OfBucket, OfKey, bucketOf
    <2>5. call' = [call EXCEPT ![s] = c]
      BY <1>6 DEF DeleteBySubject
    <2>. HIDE DEF c
    <2>6. QED
      BY <1>6, <2>3, <2>4, <2>5, RecordTyped, SameLocks, SameTables, TypeParts DEF DeleteBySubject
  <1>7. CASE DeleteBucketRow(s)
    <2>1. bucketOf(s) \in Buckets /\ NoPolicy \in Documents
      BY <1>7, <1>c DEF DeleteBucketRow, Aimed, OfBucket, bucketOf, NoPolicy, Documents
    <2>2. held' \in [Keys -> [Buckets -> SUBSET Commands]]
      BY <1>7 DEF DeleteBucketRow, TypeOK, TablesOK
    <2>3. TablesOK'
      BY <1>7, <2>1, <2>2 DEF DeleteBucketRow, TypeOK, TablesOK
    <2>4. QED
      BY <1>7, <2>3, FinishTyped, ReleaseTyped, TypeParts DEF DeleteBucketRow, Results
  <1>8. QED
    BY <1>1, <1>2, <1>3, <1>4, <1>5, <1>6, <1>7
       DEF BucketStep

LEMMA FaultTyped ==
    ASSUME TypeOK, NEW s \in Procs, Fault(s)
    PROVE  TypeOK'
  <1>. USE DEF At
  <1>c. call[s] \in CallRecords /\ Aimed(call[s])
    BY CallTyped
  <1>1. CASE Timeout(s)
    BY <1>1, FailTyped, SameTables, TypeParts DEF Timeout
  <1>2. CASE Error(s)
    BY <1>2, FailTyped, SameTables, TypeParts DEF Error
  <1>3. CASE Crash(s)
    BY <1>3, FinishTyped, ReleaseTyped, SameTables, TypeParts DEF Crash, Results
  <1>4. CASE RollbackSkip(s)
    <2>1. keyOf(s) \in Keys /\ call[s].res \in Results
      BY <1>4, <1>c DEF RollbackSkip, Aimed, OfKey, keyOf, CallRecords
    <2>2. Goto(s, "rbRow") \/ Goto(s, "rbSecret") \/ Finish(s, call[s].res)
      BY <1>4 DEF RollbackSkip
    <2>3. CallsOK'
      <3>1. CASE Goto(s, "rbRow")
        BY <2>1, <3>1, GotoTyped DEF Labels, OfPrincipal, OfBucket, OfKey
      <3>2. CASE Goto(s, "rbSecret")
        BY <2>1, <3>2, GotoTyped DEF Labels, OfPrincipal, OfBucket, OfKey
      <3>3. QED
        BY <2>1, <2>2, <3>1, <3>2, FinishTyped
    <2>4. QED
      BY <1>4, <2>3, SameLocks, SameTables, TypeParts DEF RollbackSkip
  <1>5. QED
    BY <1>1, <1>2, <1>3, <1>4 DEF Fault

-----------------------------------------------------------------------------
LEMMA InitTyped == Init => TypeOK
  <1>. SUFFICES ASSUME Init PROVE TypeOK
    OBVIOUS
  <1>1. TablesOK
    BY DEF Init, TablesOK, NoDocs, NoPolicy, Documents, None
  <1>2. QED
    BY <1>1, IdleTyped DEF Init, TypeOK, Results

LEMMA NextTyped == TypeOK /\ [Next]_vars => TypeOK'
  <1>. SUFFICES ASSUME TypeOK, [Next]_vars PROVE TypeOK'
    OBVIOUS
  <1>1. CASE UNCHANGED vars
    BY <1>1 DEF vars, TypeOK, TablesOK
  <1>2. ASSUME NEW s \in Procs, Step(s) PROVE TypeOK'
    BY <1>2, PolicyStepTyped, PrincipalStepTyped, AccessKeyStepTyped, BucketStepTyped DEF Step
  <1>3. QED
    BY <1>1, <1>2, FaultTyped DEF Next

\* Every step of every handler, and every fault, keeps the tables, the locks and the
\* requests in their types: no handler works on a principal, bucket or key it has
\* not got.
THEOREM TypeCorrect == Spec => []TypeOK
  BY InitTyped, NextTyped, PTL DEF Spec

-----------------------------------------------------------------------------
(***************************************************************************)
(* 3. No committed policy names a removed principal and no key outlives    *)
(* its principal, whatever the handlers do and whatever fails.             *)
(*                                                                         *)
(* The argument is about three row locks: a policy write holds KEY SHARE   *)
(* on the principals it names, a tombstone holds UPDATE on the one it      *)
(* removes, and a key is added under SHARE on its owner.  UPDATE excludes  *)
(* the other two, so what a tombstone has checked stays true until it      *)
(* commits, and what a write has checked stays true until it commits.      *)
(***************************************************************************)
\* What a step of s leaves alone: the other handlers and their locks.
CallStep(s) == \A t \in Procs : t # s => call'[t] = call[t]
LockStep(s) == /\ LocksCompatible'
               /\ \A l \in Locks : l.by # s => (l \in locks' <=> l \in locks)

\* How a step of s may change the tables the invariant speaks of.
MaySettle(s) ==
    /\ \A p \in Principals :
          principal[p] = "live" => principal'[p] = "live" \/ Locked(s, p, "UPDATE")
    /\ \A b \in Buckets : \A p \in Named(policy'[b]) :
          p \in Named(policy[b]) \/ Locked(s, p, "KEY SHARE")
    /\ \A k \in keyRow' : owner'[k] = owner[k] /\ owner[k] \in Principals
    /\ \A k \in keyRow' : k \in keyRow \/ CanLock(locks, s, <<"principal", owner[k]>>, "SHARE")
    /\ \A k \in Keys : owner[k] # None => owner'[k] = owner[k]

Settled == UNCHANGED <<principal, policy, keyRow, owner>>

\* The steps the invariant says something about.
Marked == {"named", "ckAdd"} \cup Writing \cup Removing

-----------------------------------------------------------------------------
(***************************************************************************)
(* Locks.                                                                  *)
(***************************************************************************)
LEMMA ConflictsSymmetric ==
    ASSUME NEW m, NEW n, Conflicts(m, n)
    PROVE  Conflicts(n, m)
  BY DEF Conflicts

\* UPDATE on a row excludes KEY SHARE, SHARE and another UPDATE.
LEMMA UpdateExcludes ==
    /\ Conflicts("UPDATE", "KEY SHARE")
    /\ Conflicts("UPDATE", "SHARE")
    /\ Conflicts("UPDATE", "UPDATE")
  BY DEF Conflicts, Conflicting

LEMMA KeepLocks ==
    ASSUME AccessInv, NEW s \in Procs, UNCHANGED locks
    PROVE  LockStep(s)
  BY DEF AccessInv, LocksCompatible, LockStep

LEMMA ReleaseLocks ==
    ASSUME AccessInv, NEW s \in Procs, Release(s)
    PROVE  LockStep(s)
  BY DEF AccessInv, LocksCompatible, LockStep, Release, Released

\* New locks of s that nobody's locks keep waiting.
LEMMA GrowLocks ==
    ASSUME AccessInv, NEW s \in Procs, NEW new,
           locks' = locks \cup new,
           \A l \in new : l.by = s /\ CanLock(locks, s, l.on, l.mode)
    PROVE  LockStep(s)
  <1>1. ASSUME NEW l \in locks', NEW m \in locks', l.on = m.on, l.by # m.by,
               Conflicts(l.mode, m.mode)
        PROVE  FALSE
    <2>1. CASE l \in locks /\ m \in locks
      BY <1>1, <2>1 DEF AccessInv, LocksCompatible
    <2>2. CASE l \in new /\ m \in locks
      BY <1>1, <2>2, ConflictsSymmetric DEF CanLock
    <2>3. CASE l \in locks /\ m \in new
      BY <1>1, <2>3 DEF CanLock
    <2>4. CASE l \in new /\ m \in new
      BY <1>1, <2>4
    <2>5. QED
      BY <2>1, <2>2, <2>3, <2>4
  <1>2. LocksCompatible'
    BY <1>1 DEF LocksCompatible
  <1>3. QED
    BY <1>2 DEF LockStep

LEMMA TakeLocks ==
    ASSUME AccessInv, NEW s \in Procs, NEW res, NEW mode, Take(s, res, mode)
    PROVE  /\ LockStep(s) /\ locks \subseteq locks'
           /\ [by |-> s, on |-> res, mode |-> mode] \in locks'
  <1>. DEFINE new == {[by |-> s, on |-> res, mode |-> mode]}
  <1>1. locks' = locks \cup new
    BY DEF Take, Granted
  <1>2. \A l \in new : l.by = s /\ CanLock(locks, s, l.on, l.mode)
    BY DEF Take
  <1>. HIDE DEF new
  <1>3. LockStep(s)
    BY <1>1, <1>2, GrowLocks
  <1>4. QED
    BY <1>1, <1>3 DEF new

\* Two handlers cannot hold conflicting locks on a principal's row.
LEMMA RowExcludes ==
    ASSUME AccessInv, NEW s, NEW t, s # t, NEW p, NEW m, NEW n,
           Locked(s, p, m), Locked(t, p, n), Conflicts(m, n)
    PROVE  FALSE
  <1>. DEFINE a == [by |-> s, on |-> <<"principal", p>>, mode |-> m]
              b == [by |-> t, on |-> <<"principal", p>>, mode |-> n]
  <1>1. a \in locks /\ b \in locks
    BY DEF Locked
  <1>2. a.on = b.on /\ a.by # b.by /\ Conflicts(a.mode, b.mode)
    OBVIOUS
  <1>. HIDE DEF a, b
  <1>3. QED
    BY <1>1, <1>2 DEF AccessInv, LocksCompatible

\* A lock that could be taken conflicts with none that another handler holds.
LEMMA CanLockRow ==
    ASSUME NEW s, NEW t, s # t, NEW p, NEW m, NEW n, Locked(t, p, n),
           CanLock(locks, s, <<"principal", p>>, m), Conflicts(n, m)
    PROVE  FALSE
  <1>. DEFINE b == [by |-> t, on |-> <<"principal", p>>, mode |-> n]
  <1>1. b \in locks
    BY DEF Locked
  <1>2. b.on = <<"principal", p>> /\ b.by # s /\ Conflicts(b.mode, m)
    OBVIOUS
  <1>. HIDE DEF b
  <1>3. QED
    BY <1>1, <1>2 DEF CanLock

LEMMA LockedElsewhere ==
    ASSUME TypeOK, NEW s, LockStep(s), NEW t \in Procs, s # t, NEW p \in Principals,
           NEW m \in Modes, Locked(t, p, m)
    PROVE  [by |-> t, on |-> <<"principal", p>>, mode |-> m] \in locks'
  BY DEF LockStep, Locked, Locks, Resources

-----------------------------------------------------------------------------
(***************************************************************************)
(* A step of s leaves every other handler's part of the invariant true.    *)
(***************************************************************************)
LEMMA VouchedTyped ==
    ASSUME TypeOK, NEW t \in Procs
    PROVE  Vouched(t) \subseteq Principals
  <1>1. Named(docOf(t)) \subseteq Principals
    BY CallTyped, NamedTyped DEF CallRecords, docOf
  <1>2. QED
    BY <1>1 DEF Vouched

LEMMA OthersHoldNamed ==
    ASSUME AccessInv, TypeOK', NEW s \in Procs, CallStep(s), LockStep(s), MaySettle(s),
           NEW t \in Procs, t # s
    PROVE  HoldsNamed(t)'
  <1>1. Vouched(t)' = Vouched(t)
    BY DEF CallStep, Vouched, At, docOf
  <1>2. SUFFICES ASSUME NEW p \in Vouched(t)
                 PROVE  /\ principal'[p] = "live"
                        /\ [by |-> t, on |-> <<"principal", p>>, mode |-> "KEY SHARE"] \in locks'
    BY <1>1 DEF HoldsNamed, Locked
  <1>3. p \in Principals
    BY VouchedTyped DEF AccessInv
  <1>4. principal[p] = "live" /\ Locked(t, p, "KEY SHARE")
    BY DEF AccessInv, HoldsNamed
  <1>5. ~Locked(s, p, "UPDATE")
    BY <1>4, RowExcludes, UpdateExcludes
  <1>6. [by |-> t, on |-> <<"principal", p>>, mode |-> "KEY SHARE"] \in locks'
    BY <1>3, <1>4, LockedElsewhere DEF AccessInv, Modes, RowModes
  <1>7. QED
    BY <1>3, <1>4, <1>5, <1>6 DEF MaySettle

LEMMA OthersHoldRow ==
    ASSUME AccessInv, TypeOK', NEW s \in Procs, CallStep(s), LockStep(s), MaySettle(s),
           NEW t \in Procs, t # s
    PROVE  HoldsRow(t)'
  <1>1. call'[t] = call[t]
    BY DEF CallStep
  <1>2. SUFFICES ASSUME call[t].pc \in Removing
                 PROVE  HoldsRow(t)'
    BY <1>1 DEF HoldsRow
  <1>3. PICK p \in Principals : p = principalOf(t)
    BY <1>2, CallTyped DEF AccessInv, Aimed, OfPrincipal, Removing, principalOf
  <1>4. principal[p] = "live" /\ Locked(t, p, "UPDATE")
    BY <1>2, <1>3 DEF AccessInv, HoldsRow
  <1>5. ~Locked(s, p, "UPDATE") /\ ~Locked(s, p, "KEY SHARE")
    BY <1>4, RowExcludes, UpdateExcludes
  <1>6. [by |-> t, on |-> <<"principal", p>>, mode |-> "UPDATE"] \in locks'
    BY <1>3, <1>4, LockedElsewhere DEF AccessInv, Modes, RowModes
  <1>7. principal'[p] = "live"
    BY <1>3, <1>4, <1>5 DEF MaySettle
  <1>8. ASSUME ~At(t, "tombCheck"), NEW b \in Buckets PROVE p \notin Named(policy'[b])
    BY <1>2, <1>3, <1>5, <1>8 DEF AccessInv, HoldsRow, MaySettle
  <1>9. ASSUME call[t].pc \notin {"tombCheck", "tombKeys"}, NEW k \in keyRow', owner'[k] = p
        PROVE  k \in call[t].keys
    <2>1. owner[k] = p
      BY <1>9 DEF MaySettle
    <2>2. k \in keyRow
      BY <1>4, <2>1, CanLockRow, UpdateExcludes DEF MaySettle
    <2>3. QED
      BY <1>2, <1>3, <1>9, <2>1, <2>2 DEF AccessInv, HoldsRow, KeysOf
  <1>10. principalOf(t)' = p
    BY <1>1, <1>3 DEF principalOf
  <1>11. QED
    BY <1>1, <1>6, <1>7, <1>8, <1>9, <1>10 DEF HoldsRow, At, Locked, KeysOf

LEMMA OthersOwnKey ==
    ASSUME AccessInv, NEW s \in Procs, CallStep(s), MaySettle(s), NEW t \in Procs, t # s
    PROVE  OwnsKey(t)'
  <1>1. call'[t] = call[t]
    BY DEF CallStep
  <1>2. SUFFICES ASSUME At(t, "ckAdd") PROVE OwnsKey(t)'
    BY <1>1 DEF OwnsKey, At
  <1>3. keyOf(t) \in Keys /\ principalOf(t) \in Principals
    BY <1>2, CallTyped DEF AccessInv, Aimed, OfPrincipal, OfKey, At, principalOf, keyOf
  <1>4. owner[keyOf(t)] = principalOf(t)
    BY <1>2 DEF AccessInv, OwnsKey
  <1>5. owner[keyOf(t)] # None
    BY <1>3, <1>4, PrincipalsAssumption DEF None
  <1>6. owner'[keyOf(t)] = principalOf(t)
    BY <1>3, <1>4, <1>5 DEF MaySettle
  <1>7. QED
    BY <1>1, <1>6 DEF OwnsKey, keyOf, principalOf

\* What is left to show of a step: its own handler's part, and the tables.
LEMMA Preserved ==
    ASSUME AccessInv, TypeOK', NEW s \in Procs, CallStep(s), LockStep(s), MaySettle(s),
           HoldsNamed(s)', HoldsRow(s)', OwnsKey(s)',
           RowsHaveOwners', NamedAreLive', KeysHaveLiveOwners'
    PROVE  AccessInv'
  <1>1. ASSUME NEW t \in Procs PROVE (HoldsNamed(t) /\ HoldsRow(t) /\ OwnsKey(t))'
    <2>1. CASE t = s
      BY <2>1
    <2>2. CASE t # s
      BY <2>2, OthersHoldNamed, OthersHoldRow, OthersOwnKey
    <2>3. QED
      BY <2>1, <2>2
  <1>2. QED
    BY <1>1 DEF AccessInv, LockStep

LEMMA SettledPreserved ==
    ASSUME AccessInv, TypeOK', NEW s \in Procs, CallStep(s), LockStep(s), Settled,
           HoldsNamed(s)', HoldsRow(s)', OwnsKey(s)'
    PROVE  AccessInv'
  <1>1. MaySettle(s)
    BY DEF AccessInv, RowsHaveOwners, MaySettle, Settled
  <1>2. RowsHaveOwners' /\ NamedAreLive' /\ KeysHaveLiveOwners'
    BY DEF AccessInv, RowsHaveOwners, NamedAreLive, KeysHaveLiveOwners, Settled
  <1>3. QED
    BY <1>1, <1>2, Preserved

\* At a step that is not marked the invariant asks nothing of the handler.
LEMMA UnmarkedHolds ==
    ASSUME NEW s, call'[s].pc \notin Marked
    PROVE  HoldsNamed(s)' /\ HoldsRow(s)' /\ OwnsKey(s)'
  BY DEF Marked, HoldsNamed, Vouched, HoldsRow, OwnsKey, At, Writing, Removing

\* Deleting key rows breaks nothing.
LEMMA ShrinkPreserved ==
    ASSUME AccessInv, TypeOK', NEW s \in Procs, CallStep(s), LockStep(s),
           UNCHANGED <<principal, policy, owner>>, keyRow' \subseteq keyRow,
           call'[s].pc \notin Marked
    PROVE  AccessInv'
  <1>1. MaySettle(s)
    BY DEF AccessInv, RowsHaveOwners, MaySettle
  <1>2. RowsHaveOwners' /\ NamedAreLive' /\ KeysHaveLiveOwners'
    BY DEF AccessInv, RowsHaveOwners, NamedAreLive, KeysHaveLiveOwners
  <1>3. QED
    BY <1>1, <1>2, UnmarkedHolds, Preserved

LEMMA UnmarkedPreserved ==
    ASSUME AccessInv, TypeOK', NEW s \in Procs, CallStep(s), LockStep(s), Settled,
           call'[s].pc \notin Marked
    PROVE  AccessInv'
  BY UnmarkedHolds, SettledPreserved

-----------------------------------------------------------------------------
(***************************************************************************)
(* How the helpers move a handler.                                         *)
(***************************************************************************)
LEMMA SetMoves ==
    ASSUME TypeOK, NEW s \in Procs, NEW c, call' = [call EXCEPT ![s] = c]
    PROVE  CallStep(s) /\ call'[s] = c
  BY DEF TypeOK, CallStep

LEMMA GotoMoves ==
    ASSUME TypeOK, NEW s \in Procs, NEW label, Goto(s, label)
    PROVE  /\ CallStep(s)
           /\ call'[s].pc = label
           /\ call'[s].doc = call[s].doc /\ call'[s].principal = call[s].principal
           /\ call'[s].key = call[s].key /\ call'[s].keys = call[s].keys
  <1>. DEFINE c == [call[s] EXCEPT !.pc = label]
  <1>1. call' = [call EXCEPT ![s] = c]
    BY DEF Goto
  <1>2. /\ c.pc = label /\ c.doc = call[s].doc /\ c.principal = call[s].principal
        /\ c.key = call[s].key /\ c.keys = call[s].keys
    BY CallTyped DEF CallRecords
  <1>. HIDE DEF c
  <1>3. QED
    BY <1>1, <1>2, SetMoves

LEMMA FinishMoves ==
    ASSUME TypeOK, NEW s \in Procs, NEW res, Finish(s, res)
    PROVE  CallStep(s) /\ call'[s].pc \notin Marked
  <1>1. Idle(res).pc = "idle"
    BY DEF Idle
  <1>2. CallStep(s) /\ call'[s] = Idle(res)
    BY SetMoves DEF Finish
  <1>3. QED
    BY <1>1, <1>2 DEF Marked, Writing, Removing

LEMMA FailMoves ==
    ASSUME AccessInv, NEW s \in Procs, NEW err, Fail(s, err)
    PROVE  CallStep(s) /\ LockStep(s) /\ call'[s].pc \notin Marked
  <1>1. LockStep(s)
    BY ReleaseLocks DEF Fail
  <1>2. CASE call[s].kind = "createKey" /\ call[s].key # None
    <2>. DEFINE c == [call[s] EXCEPT !.pc = "rbGrants", !.res = Outcome(s, err)]
    <2>1. call' = [call EXCEPT ![s] = c]
      BY <1>2 DEF Fail
    <2>2. c.pc = "rbGrants"
      BY CallTyped DEF AccessInv, CallRecords
    <2>. HIDE DEF c
    <2>3. QED
      BY <1>1, <2>1, <2>2, SetMoves DEF AccessInv, Marked, Writing, Removing
  <1>3. CASE ~(call[s].kind = "createKey" /\ call[s].key # None)
    BY <1>1, <1>3, FinishMoves DEF AccessInv, Fail
  <1>4. QED
    BY <1>2, <1>3

LEMMA LoopedMoves ==
    ASSUME TypeOK, NEW s \in Procs, NEW x, NEW here, NEW next, call' = Looped(s, x, here, next)
    PROVE  /\ CallStep(s)
           /\ call'[s].pc = IF call[s].want = {x} THEN next ELSE here
           /\ call'[s].want = call[s].want \ {x}
           /\ call'[s].doc = call[s].doc /\ call'[s].principal = call[s].principal
           /\ call'[s].key = call[s].key /\ call'[s].keys = call[s].keys
  <1>. DEFINE l == IF call[s].want = {x} THEN next ELSE here
              c == [call[s] EXCEPT !.want = @ \ {x}, !.pc = l]
  <1>1. call' = [call EXCEPT ![s] = c]
    BY DEF Looped
  <1>2. /\ c.pc = l /\ c.want = call[s].want \ {x}
        /\ c.doc = call[s].doc /\ c.principal = call[s].principal
        /\ c.key = call[s].key /\ c.keys = call[s].keys
    <2>. HIDE DEF l
    <2>. QED  BY CallTyped DEF CallRecords
  <1>. HIDE DEF c
  <1>3. QED
    BY <1>1, <1>2, SetMoves

LEMMA LockAudiencesMoves ==
    ASSUME AccessInv, NEW s \in Procs, NEW here, NEW next, LockAudiences(s, here, next)
    PROVE  /\ CallStep(s) /\ LockStep(s) /\ Settled /\ locks \subseteq locks'
           /\ call'[s].pc \in {here, next}
           /\ call'[s].doc = call[s].doc /\ call'[s].principal = call[s].principal
           /\ call'[s].key = call[s].key /\ call'[s].keys = call[s].keys
  <1>1. PICK k \in Keys : /\ Take(s, <<"audience", k>>, "exclusive")
                          /\ call' = Looped(s, k, here, next)
    BY DEF LockAudiences
  <1>2. Settled
    BY DEF LockAudiences, tables, Settled
  <1>3. LockStep(s) /\ locks \subseteq locks'
    BY <1>1, TakeLocks
  <1>4. QED
    BY <1>1, <1>2, <1>3, LoopedMoves DEF AccessInv

-----------------------------------------------------------------------------
(***************************************************************************)
(* Steps that stay inside a policy write or inside a tombstone.            *)
(***************************************************************************)
LEMMA WritingHolds ==
    ASSUME AccessInv, NEW s \in Procs, call[s].pc \in Writing, call'[s].pc \in Writing,
           call'[s].doc = call[s].doc, locks \subseteq locks', principal' = principal
    PROVE  HoldsNamed(s)' /\ HoldsRow(s)' /\ OwnsKey(s)'
  <1>1. Vouched(s)' = Vouched(s)
    BY DEF Vouched, At, docOf, Writing
  <1>2. HoldsNamed(s)'
    BY <1>1 DEF AccessInv, HoldsNamed, Locked
  <1>3. QED
    BY <1>2 DEF HoldsRow, OwnsKey, At, Writing, Removing

LEMMA RemovingHolds ==
    ASSUME AccessInv, NEW s \in Procs, call[s].pc \in Removing \ {"tombCheck", "tombKeys"},
           call'[s].pc \in Removing \ {"tombCheck", "tombKeys"},
           call'[s].principal = call[s].principal, call'[s].keys = call[s].keys,
           locks \subseteq locks', Settled
    PROVE  HoldsNamed(s)' /\ HoldsRow(s)' /\ OwnsKey(s)'
  <1>1. HoldsRow(s)'
    BY DEF AccessInv, HoldsRow, Locked, KeysOf, principalOf, At, Settled
  <1>2. QED
    BY <1>1 DEF HoldsNamed, Vouched, OwnsKey, At, Writing, Removing

-----------------------------------------------------------------------------
(***************************************************************************)
(* The steps of each service.                                              *)
(***************************************************************************)
LEMMA PolicyStepPreserves ==
    ASSUME AccessInv, TypeOK', NEW s \in Procs, PolicyStep(s)
    PROVE  AccessInv'
  <1>. USE DEF At
  <1>c. TypeOK /\ call[s] \in CallRecords /\ Aimed(call[s])
    BY CallTyped DEF AccessInv
  <1>n. Named(NoPolicy) = {}
    BY DEF Named, NoPolicy
  <1>1. CASE BeginWrite(s)
    <2>1. PICK b \in buckets, d \in Docs, m \in Conds :
            IF Named(d) \subseteq ListIDsByTenant
            THEN call' = [call EXCEPT ![s] = [Idle("answered") EXCEPT
                            !.pc = "tenant", !.kind = "writePolicy",
                            !.bucket = b, !.doc = d, !.match = m]]
            ELSE Finish(s, "answered")
      BY <1>1 DEF BeginWrite
    <2>. DEFINE c == [Idle("answered") EXCEPT !.pc = "tenant", !.kind = "writePolicy",
                        !.bucket = b, !.doc = d, !.match = m]
    <2>2. c.pc = "tenant"
      BY DEF Idle
    <2>3. call' = [call EXCEPT ![s] = c] \/ Finish(s, "answered")
      BY <2>1
    <2>. HIDE DEF c
    <2>4. CallStep(s) /\ call'[s].pc \notin Marked
      BY <1>c, <2>2, <2>3, SetMoves, FinishMoves DEF Marked, Writing, Removing
    <2>5. LockStep(s) /\ Settled
      BY <1>1, KeepLocks DEF BeginWrite, tables, Settled
    <2>6. QED
      BY <2>4, <2>5, UnmarkedPreserved
  <1>2. CASE BeginRemove(s)
    <2>1. PICK b \in buckets, m \in Conds :
            call' = [call EXCEPT ![s] = [Idle("answered") EXCEPT
                       !.pc = "bucket", !.kind = "removePolicy",
                       !.bucket = b, !.doc = NoPolicy, !.match = m]]
      BY <1>2 DEF BeginRemove
    <2>. DEFINE c == [Idle("answered") EXCEPT !.pc = "bucket", !.kind = "removePolicy",
                        !.bucket = b, !.doc = NoPolicy, !.match = m]
    <2>2. c.pc = "bucket" /\ c.doc = NoPolicy
      BY DEF Idle
    <2>. HIDE DEF c
    <2>3. CallStep(s) /\ call'[s] = c
      BY <1>c, <2>1, SetMoves DEF c
    <2>4. HoldsNamed(s)' /\ HoldsRow(s)' /\ OwnsKey(s)'
      BY <1>n, <2>2, <2>3 DEF HoldsNamed, Vouched, HoldsRow, OwnsKey, docOf, Writing, Removing
    <2>5. LockStep(s) /\ Settled
      BY <1>2, KeepLocks DEF BeginRemove, tables, Settled
    <2>6. QED
      BY <2>3, <2>4, <2>5, SettledPreserved
  <1>3. CASE TakeTenant(s)
    <2>. DEFINE W == Named(docOf(s))
                l == IF W = {} THEN "bucket" ELSE "named"
                c == [call[s] EXCEPT !.want = W, !.pc = l]
    <2>1. call' = [call EXCEPT ![s] = c]
      BY <1>3 DEF TakeTenant
    <2>2. c.want = Named(docOf(s)) /\ c.doc = docOf(s) /\ c.pc = l
      <3>. HIDE DEF l, W
      <3>1. c.want = W /\ c.doc = docOf(s) /\ c.pc = l
        BY <1>c DEF CallRecords, docOf
      <3>2. QED
        BY <3>1 DEF W
    <2>. HIDE DEF c
    <2>3. CallStep(s) /\ call'[s] = c
      BY <1>c, <2>1, SetMoves
    <2>4. Vouched(s)' = {}
      BY <2>2, <2>3 DEF Vouched, docOf, Writing
    <2>5. l \in {"bucket", "named"}
      OBVIOUS
    <2>. HIDE DEF l, W
    <2>6. HoldsNamed(s)' /\ HoldsRow(s)' /\ OwnsKey(s)'
      BY <2>2, <2>3, <2>4, <2>5 DEF HoldsNamed, HoldsRow, OwnsKey, Removing
    <2>7. LockStep(s) /\ Settled
      BY <1>3, TakeLocks DEF TakeTenant, tables, Settled
    <2>8. QED
      BY <2>3, <2>6, <2>7, SettledPreserved
  <1>4. CASE RequireLive(s)
    <2>1. Settled
      BY <1>4 DEF RequireLive, tables, Settled
    <2>2. PICK p \in call[s].want :
            \/ Fail(s, "invalid")
            \/ /\ principal[p] = "live"
               /\ Take(s, <<"principal", p>>, "KEY SHARE")
               /\ call' = Looped(s, p, "named", "bucket")
      BY <1>4 DEF RequireLive
    <2>3. CASE Fail(s, "invalid")
      BY <2>1, <2>3, FailMoves, UnmarkedPreserved
    <2>4. CASE /\ principal[p] = "live"
               /\ Take(s, <<"principal", p>>, "KEY SHARE")
               /\ call' = Looped(s, p, "named", "bucket")
      <3>1. /\ CallStep(s)
            /\ call'[s].pc = IF call[s].want = {p} THEN "bucket" ELSE "named"
            /\ call'[s].want = call[s].want \ {p}
            /\ call'[s].doc = call[s].doc
        BY <1>c, <2>4, LoopedMoves
      <3>2. /\ LockStep(s) /\ locks \subseteq locks'
            /\ [by |-> s, on |-> <<"principal", p>>, mode |-> "KEY SHARE"] \in locks'
        BY <2>4, TakeLocks
      <3>3. Vouched(s) = Named(docOf(s)) \ call[s].want
        BY <1>4 DEF RequireLive, Vouched, Writing
      <3>4. Vouched(s)' \subseteq Vouched(s) \cup {p}
        <4>1. CASE call[s].want = {p}
          BY <3>1, <3>3, <4>1 DEF Vouched, docOf, Writing
        <4>2. CASE call[s].want # {p}
          BY <3>1, <3>3, <4>2 DEF Vouched, docOf, Writing
        <4>3. QED
          BY <4>1, <4>2
      <3>5. \A q \in Vouched(s) : principal[q] = "live" /\ Locked(s, q, "KEY SHARE")
        BY DEF AccessInv, HoldsNamed
      <3>6. HoldsNamed(s)'
        BY <2>1, <2>4, <3>2, <3>4, <3>5 DEF HoldsNamed, Locked, Settled
      <3>7. HoldsRow(s)' /\ OwnsKey(s)'
        BY <3>1 DEF HoldsRow, OwnsKey, Removing
      <3>8. QED
        BY <2>1, <3>1, <3>2, <3>6, <3>7, SettledPreserved
    <2>5. QED
      BY <2>2, <2>3, <2>4
  <1>5. CASE TakeBucket(s)
    <2>1. Settled /\ LockStep(s) /\ locks \subseteq locks'
      BY <1>5, TakeLocks DEF TakeBucket, tables, Settled
    <2>2. CallStep(s) /\ call'[s].pc \in {"row", "bucketRow"} /\ call'[s].doc = call[s].doc
      BY <1>5, <1>c, GotoMoves DEF TakeBucket
    <2>3. HoldsNamed(s)' /\ HoldsRow(s)' /\ OwnsKey(s)'
      BY <1>5, <2>1, <2>2, WritingHolds DEF TakeBucket, Writing, Settled
    <2>4. QED
      BY <2>1, <2>2, <2>3, SettledPreserved
  <1>6. CASE TakeBucketRow(s)
    <2>1. Settled
      BY <1>6 DEF TakeBucketRow, tables, Settled
    <2>2. CASE Fail(s, "notfound")
      BY <2>1, <2>2, FailMoves, UnmarkedPreserved
    <2>3. CASE Take(s, <<"bucketRow", bucketOf(s)>>, "KEY SHARE") /\ Goto(s, "row")
      <3>1. LockStep(s) /\ locks \subseteq locks'
        BY <2>3, TakeLocks
      <3>2. CallStep(s) /\ call'[s].pc = "row" /\ call'[s].doc = call[s].doc
        BY <1>c, <2>3, GotoMoves
      <3>3. HoldsNamed(s)' /\ HoldsRow(s)' /\ OwnsKey(s)'
        BY <1>6, <2>1, <3>1, <3>2, WritingHolds DEF TakeBucketRow, Writing, Settled
      <3>4. QED
        BY <2>1, <3>1, <3>2, <3>3, SettledPreserved
    <2>4. QED
      BY <1>6, <2>2, <2>3 DEF TakeBucketRow
  <1>7. CASE LockRow(s)
    <2>. DEFINE row == <<"policyRow", bucketOf(s)>>
                old == policy[bucketOf(s)]
                l == IF call[s].kind = "removePrincipal" THEN "commit" ELSE "relist"
                c == [call[s] EXCEPT !.old = old, !.pc = l]
    <2>1. Settled
      BY <1>7 DEF LockRow, tables, Settled
    <2>2. \/ Release(s) /\ Goto(s, "strip")
          \/ Fail(s, Refusal(s, old))
          \/ /\ \/ UNCHANGED locks
                \/ Take(s, row, "UPDATE")
             /\ call' = [call EXCEPT ![s] = c]
      BY <1>7 DEF LockRow, Take
    <2>3. CASE Release(s) /\ Goto(s, "strip")
      <3>1. CallStep(s) /\ call'[s].pc = "strip"
        BY <1>c, <2>3, GotoMoves
      <3>2. QED
        BY <2>1, <2>3, <3>1, ReleaseLocks, UnmarkedPreserved DEF Marked, Writing, Removing
    <2>4. CASE Fail(s, Refusal(s, old))
      BY <2>1, <2>4, FailMoves, UnmarkedPreserved
    <2>5. CASE /\ UNCHANGED locks \/ Take(s, row, "UPDATE")
               /\ call' = [call EXCEPT ![s] = c]
      <3>1. LockStep(s) /\ locks \subseteq locks'
        BY <2>5, KeepLocks, TakeLocks
      <3>2. l \in {"commit", "relist"}
        OBVIOUS
      <3>3. c.pc = l /\ c.doc = call[s].doc
        <4>. HIDE DEF l, old
        <4>. QED  BY <1>c DEF CallRecords
      <3>. HIDE DEF c, l
      <3>4. CallStep(s) /\ call'[s].pc \in {"commit", "relist"} /\ call'[s].doc = call[s].doc
        BY <1>c, <2>5, <3>2, <3>3, SetMoves
      <3>5. HoldsNamed(s)' /\ HoldsRow(s)' /\ OwnsKey(s)'
        BY <1>7, <2>1, <3>1, <3>4, WritingHolds DEF LockRow, Writing, Settled
      <3>6. QED
        BY <2>1, <3>1, <3>4, <3>5, SettledPreserved
    <2>6. QED
      BY <2>2, <2>3, <2>4, <2>5
  <1>8. CASE Relist(s)
    <2>. DEFINE aff == Changed(call[s].old, docOf(s), ListIDsByTenant)
                l == IF aff = {} THEN "commit" ELSE "lockP"
                c == [call[s] EXCEPT !.aff = aff, !.want = aff, !.pc = l]
    <2>1. Settled
      BY <1>8 DEF Relist, tables, Settled
    <2>2. \/ call' = [call EXCEPT ![s] = c] /\ UNCHANGED locks
          \/ Fail(s, "invalid")
      BY <1>8 DEF Relist
    <2>3. CASE Fail(s, "invalid")
      BY <2>1, <2>3, FailMoves, UnmarkedPreserved
    <2>4. CASE call' = [call EXCEPT ![s] = c] /\ UNCHANGED locks
      <3>1. LockStep(s) /\ locks \subseteq locks'
        BY <2>4, KeepLocks
      <3>2. l \in {"commit", "lockP"}
        OBVIOUS
      <3>3. c.pc = l /\ c.doc = call[s].doc
        <4>. HIDE DEF l, aff
        <4>. QED  BY <1>c DEF CallRecords
      <3>. HIDE DEF c, l
      <3>4. CallStep(s) /\ call'[s].pc \in {"commit", "lockP"} /\ call'[s].doc = call[s].doc
        BY <1>c, <2>4, <3>2, <3>3, SetMoves
      <3>5. HoldsNamed(s)' /\ HoldsRow(s)' /\ OwnsKey(s)'
        BY <1>8, <2>1, <3>1, <3>4, WritingHolds DEF Relist, Writing, Settled
      <3>6. QED
        BY <2>1, <3>1, <3>4, <3>5, SettledPreserved
    <2>5. QED
      BY <2>2, <2>3, <2>4
  <1>9. CASE LockPrincipals(s)
    <2>1. Settled
      BY <1>9 DEF LockPrincipals, tables, Settled
    <2>2. PICK p \in Principals :
            /\ Take(s, <<"principal", p>>, "NO KEY UPDATE") \/ UNCHANGED locks
            /\ call' = Looped(s, p, "lockP", "load")
      BY <1>9 DEF LockPrincipals
    <2>3. LockStep(s) /\ locks \subseteq locks'
      BY <2>2, KeepLocks, TakeLocks
    <2>4. CallStep(s) /\ call'[s].pc \in {"lockP", "load"} /\ call'[s].doc = call[s].doc
      <3>1. /\ CallStep(s) /\ call'[s].doc = call[s].doc
            /\ call'[s].pc = IF call[s].want = {p} THEN "load" ELSE "lockP"
        <4>1. call' = Looped(s, p, "lockP", "load")
          BY <2>2
        <4>2. QED
          BY <1>c, <4>1, LoopedMoves
      <3>2. QED
        BY <3>1
    <2>5. HoldsNamed(s)' /\ HoldsRow(s)' /\ OwnsKey(s)'
      BY <1>9, <2>1, <2>3, <2>4, WritingHolds DEF LockPrincipals, Writing, Settled
    <2>6. QED
      BY <2>1, <2>3, <2>4, <2>5, SettledPreserved
  <1>10. CASE Load(s)
    <2>. DEFINE ks == KeysOf(call[s].aff)
                l == IF ks = {} THEN "commit" ELSE "lockK"
                c == [call[s] EXCEPT !.keys = ks, !.want = ks, !.pc = l]
    <2>1. Settled /\ LockStep(s) /\ locks \subseteq locks'
      BY <1>10, KeepLocks DEF Load, tables, Settled
    <2>2. l \in {"commit", "lockK"}
      OBVIOUS
    <2>3. c.pc = l /\ c.doc = call[s].doc
      <3>. HIDE DEF l, ks
      <3>. QED  BY <1>c DEF CallRecords
    <2>4. call' = [call EXCEPT ![s] = c]
      BY <1>10 DEF Load
    <2>. HIDE DEF c, l
    <2>5. CallStep(s) /\ call'[s].pc \in {"commit", "lockK"} /\ call'[s].doc = call[s].doc
      BY <1>c, <2>2, <2>3, <2>4, SetMoves
    <2>6. HoldsNamed(s)' /\ HoldsRow(s)' /\ OwnsKey(s)'
      BY <1>10, <2>1, <2>5, WritingHolds DEF Load, Writing, Settled
    <2>7. QED
      BY <2>1, <2>5, <2>6, SettledPreserved
  <1>11. CASE LockRotated(s)
    <2>1. /\ CallStep(s) /\ LockStep(s) /\ Settled /\ locks \subseteq locks'
          /\ call'[s].pc \in {"lockK", "publish"} /\ call'[s].doc = call[s].doc
      BY <1>11, LockAudiencesMoves DEF LockRotated
    <2>2. HoldsNamed(s)' /\ HoldsRow(s)' /\ OwnsKey(s)'
      BY <1>11, <2>1, WritingHolds DEF LockRotated, LockAudiences, Writing, Settled
    <2>3. QED
      BY <2>1, <2>2, SettledPreserved
  <1>12. CASE Rotate(s)
    <2>. DEFINE remaining == call[s].keys \cap keyRow
                c == [call[s] EXCEPT !.fresh = remaining, !.pc = "commit"]
    <2>1. Settled
      BY <1>12 DEF Rotate, Settled
    <2>2. \/ call' = [call EXCEPT ![s] = c] /\ UNCHANGED locks
          \/ Fail(s, "error")
      BY <1>12 DEF Rotate, PublishRevocations
    <2>3. CASE Fail(s, "error")
      BY <2>1, <2>3, FailMoves, UnmarkedPreserved
    <2>4. CASE call' = [call EXCEPT ![s] = c] /\ UNCHANGED locks
      <3>1. LockStep(s) /\ locks \subseteq locks'
        BY <2>4, KeepLocks
      <3>2. c.pc = "commit" /\ c.doc = call[s].doc
        <4>. HIDE DEF remaining
        <4>. QED  BY <1>c DEF CallRecords
      <3>. HIDE DEF c
      <3>3. CallStep(s) /\ call'[s].pc = "commit" /\ call'[s].doc = call[s].doc
        BY <1>c, <2>4, <3>2, SetMoves
      <3>4. HoldsNamed(s)' /\ HoldsRow(s)' /\ OwnsKey(s)'
        BY <1>12, <2>1, <3>1, <3>3, WritingHolds DEF Rotate, Writing, Settled
      <3>5. QED
        BY <2>1, <3>1, <3>3, <3>4, SettledPreserved
    <2>5. QED
      BY <2>2, <2>3, <2>4
  <1>13. CASE Commit(s)
    <2>1. UNCHANGED <<principal, keyRow, owner>> /\ LockStep(s)
      BY <1>13, ReleaseLocks DEF Commit
    <2>2. CallStep(s) /\ call'[s].pc \notin Marked
      <3>1. Goto(s, "strip") \/ Finish(s, "answered")
        BY <1>13 DEF Commit
      <3>2. QED
        BY <1>c, <3>1, GotoMoves, FinishMoves DEF Marked, Writing, Removing
    <2>3. HoldsNamed(s)' /\ HoldsRow(s)' /\ OwnsKey(s)'
      BY <2>2, UnmarkedHolds
    <2>4. \A p \in Named(docOf(s)) : principal[p] = "live" /\ Locked(s, p, "KEY SHARE")
      BY <1>13 DEF Commit, AccessInv, HoldsNamed, Vouched, Writing
    <2>5. \A b \in Buckets : policy'[b] = policy[b] \/ policy'[b] = docOf(s)
      BY <1>13, <1>c DEF Commit, TypeOK, TablesOK
    <2>6. MaySettle(s)
      BY <2>1, <2>4, <2>5 DEF MaySettle, AccessInv, RowsHaveOwners
    <2>7. NamedAreLive'
      BY <2>1, <2>4, <2>5 DEF AccessInv, NamedAreLive
    <2>8. RowsHaveOwners' /\ KeysHaveLiveOwners'
      BY <2>1 DEF AccessInv, RowsHaveOwners, KeysHaveLiveOwners
    <2>9. QED
      BY <2>1, <2>2, <2>3, <2>6, <2>7, <2>8, Preserved
  <1>14. QED
    BY <1>1, <1>2, <1>3, <1>4, <1>5, <1>6, <1>7, <1>8, <1>9, <1>10, <1>11, <1>12,
       <1>13
       DEF PolicyStep

LEMMA PrincipalStepPreserves ==
    ASSUME AccessInv, TypeOK', NEW s \in Procs, PrincipalStep(s)
    PROVE  AccessInv'
  <1>. USE DEF At
  <1>c. TypeOK /\ call[s] \in CallRecords /\ Aimed(call[s])
    BY CallTyped DEF AccessInv
  <1>1. CASE BeginCreatePrincipal(s)
    <2>1. PICK p \in Principals :
            call' = [call EXCEPT ![s] = [Idle("answered") EXCEPT 
                          !.pc = "addTenant", !.kind = "createPrincipal", !.principal = p]]
      BY <1>1 DEF BeginCreatePrincipal
    <2>. DEFINE c == [Idle("answered") EXCEPT 
                          !.pc = "addTenant", !.kind = "createPrincipal", !.principal = p]
    <2>2. c.pc \notin Marked
      BY DEF Idle, Marked, Writing, Removing
    <2>. HIDE DEF c
    <2>3. CallStep(s) /\ call'[s].pc \notin Marked
      BY <1>c, <2>1, <2>2, SetMoves DEF c
    <2>4. LockStep(s) /\ Settled
      BY <1>1, KeepLocks DEF BeginCreatePrincipal, tables, Settled
    <2>5. QED
      BY <2>3, <2>4, UnmarkedPreserved
  <1>2. CASE AddTenant(s)
    <2>1. LockStep(s) /\ Settled
      BY <1>2, TakeLocks DEF AddTenant, tables, Settled
    <2>2. CallStep(s) /\ call'[s].pc \notin Marked
      BY <1>2, <1>c, GotoMoves DEF AddTenant, Marked, Writing, Removing
    <2>3. QED
      BY <2>1, <2>2, UnmarkedPreserved
  <1>3. CASE AddRow(s)
    <2>1. UNCHANGED <<policy, keyRow, owner>> /\ LockStep(s)
      BY <1>3, ReleaseLocks DEF AddRow
    <2>2. CallStep(s) /\ call'[s].pc \notin Marked
      <3>1. Goto(s, "addGet")
        BY <1>3 DEF AddRow
      <3>2. QED
        BY <1>c, <3>1, GotoMoves DEF Marked, Writing, Removing
    <2>3. \A p \in Principals : principal[p] = "live" => principal'[p] = "live"
      BY <1>3, <1>c DEF AddRow, TypeOK, TablesOK
    <2>4. MaySettle(s)
      BY <2>1, <2>3 DEF MaySettle, AccessInv, RowsHaveOwners
    <2>5. \A b \in Buckets : Named(policy[b]) \subseteq Principals
      BY <1>c, NamedTyped DEF TypeOK, TablesOK
    <2>6. NamedAreLive'
      BY <2>1, <2>3, <2>5 DEF AccessInv, NamedAreLive
    <2>7. RowsHaveOwners' /\ KeysHaveLiveOwners'
      BY <2>1, <2>3 DEF AccessInv, RowsHaveOwners, KeysHaveLiveOwners
    <2>8. QED
      BY <2>1, <2>2, <2>4, <2>6, <2>7, UnmarkedHolds, Preserved
  <1>4. CASE AddGet(s)
    <2>1. LockStep(s) /\ Settled
      BY <1>4, KeepLocks DEF AddGet, tables, Settled
    <2>2. CallStep(s) /\ call'[s].pc \notin Marked
      BY <1>4, <1>c, FinishMoves DEF AddGet
    <2>3. QED
      BY <2>1, <2>2, UnmarkedPreserved
  <1>5. CASE BeginDeletePrincipal(s)
    <2>1. PICK p \in Principals :
            call' = [call EXCEPT ![s] = [Idle("answered") EXCEPT 
                          !.pc = "rvLoad", !.kind = "removePrincipal", !.principal = p]]
      BY <1>5 DEF BeginDeletePrincipal
    <2>. DEFINE c == [Idle("answered") EXCEPT 
                          !.pc = "rvLoad", !.kind = "removePrincipal", !.principal = p]
    <2>2. c.pc \notin Marked
      BY DEF Idle, Marked, Writing, Removing
    <2>. HIDE DEF c
    <2>3. CallStep(s) /\ call'[s].pc \notin Marked
      BY <1>c, <2>1, <2>2, SetMoves DEF c
    <2>4. LockStep(s) /\ Settled
      BY <1>5, KeepLocks DEF BeginDeletePrincipal, tables, Settled
    <2>5. QED
      BY <2>3, <2>4, UnmarkedPreserved
  <1>6. CASE RevokeLoad(s)
    <2>. DEFINE ks == KeysOf({principalOf(s)})
                l == IF ks = {} THEN "stripList" ELSE "rvLock"
                c == [call[s] EXCEPT !.keys = ks, !.want = ks, !.pc = l]
    <2>1. LockStep(s) /\ Settled
      BY <1>6, KeepLocks DEF RevokeLoad, tables, Settled
    <2>2. l \in {"stripList", "rvLock"}
      BY DEF AfterListing
    <2>3. c.pc = l
      <3>. HIDE DEF l, ks
      <3>. QED  BY <1>c DEF CallRecords
    <2>4. call' = [call EXCEPT ![s] = c]
      BY <1>6 DEF RevokeLoad
    <2>. HIDE DEF c, l
    <2>5. CallStep(s) /\ call'[s].pc \notin Marked
      BY <1>c, <2>2, <2>3, <2>4, SetMoves DEF Marked, Writing, Removing
    <2>6. QED
      BY <2>1, <2>5, UnmarkedPreserved
  <1>7. CASE RevokeLock(s)
    BY <1>7, LockAudiencesMoves, UnmarkedPreserved DEF RevokeLock, Marked, Writing, Removing
  <1>8. CASE RevokePublish(s)
    <2>1. Settled
      BY <1>8 DEF RevokePublish, Settled
    <2>2. \/ Goto(s, "rvCommit") /\ UNCHANGED locks
          \/ Fail(s, "error")
      BY <1>8 DEF RevokePublish, PublishRevocations
    <2>3. CASE Goto(s, "rvCommit") /\ UNCHANGED locks
      <3>1. CallStep(s) /\ call'[s].pc \notin Marked
        BY <1>c, <2>3, GotoMoves DEF Marked, Writing, Removing
      <3>2. QED
        BY <2>1, <2>3, <3>1, KeepLocks, UnmarkedPreserved
    <2>4. QED
      BY <2>1, <2>2, <2>3, FailMoves, UnmarkedPreserved
  <1>9. CASE RevokeCommit(s)
    <2>. DEFINE c == [call[s] EXCEPT !.keys = {}, !.pc = "stripList"]
    <2>1. LockStep(s) /\ Settled
      BY <1>9, ReleaseLocks DEF RevokeCommit, tables, Settled
    <2>2. c.pc = "stripList"
      BY <1>c DEF CallRecords
    <2>3. call' = [call EXCEPT ![s] = c]
      BY <1>9 DEF RevokeCommit
    <2>. HIDE DEF c
    <2>4. CallStep(s) /\ call'[s].pc \notin Marked
      BY <1>c, <2>2, <2>3, SetMoves DEF Marked, Writing, Removing
    <2>5. QED
      BY <2>1, <2>4, UnmarkedPreserved
  <1>10. CASE StripList(s)
    <2>. DEFINE bs == ListByPrincipal(principalOf(s))
                c == [call[s] EXCEPT !.todo = bs, !.snap = policy, !.pc = "strip"]
    <2>1. LockStep(s) /\ Settled
      BY <1>10, KeepLocks DEF StripList, tables, Settled
    <2>2. c.pc = "strip"
      BY <1>c DEF CallRecords
    <2>3. call' = [call EXCEPT ![s] = c]
      BY <1>10 DEF StripList
    <2>. HIDE DEF c
    <2>4. CallStep(s) /\ call'[s].pc \notin Marked
      BY <1>c, <2>2, <2>3, SetMoves DEF Marked, Writing, Removing
    <2>5. QED
      BY <2>1, <2>4, UnmarkedPreserved
  <1>11. CASE StripPolicy(s)
    <2>. DEFINE old(b) == call[s].snap[b]
                new(b) == RemovePrincipal(old(b), principalOf(s))
                l(b) == StripWrite(s, old(b), new(b))
                c(b) == [call[s] EXCEPT !.todo = @ \ {b}, !.bucket = b, !.doc = new(b),
                                        !.match = IfMatch(ETag(old(b))), !.pc = l(b)]
    <2>1. PICK b \in call[s].todo : call' = [call EXCEPT ![s] = c(b)]
      BY <1>11, ZenonT(60) DEF StripPolicy
    <2>2. c(b).pc = l(b) /\ c(b).doc = new(b)
      <3>. HIDE DEF l, new, old
      <3>. QED  BY <1>c DEF CallRecords
    <2>3. l(b) \in {"strip", "tenant"} \/ (l(b) = "bucket" /\ new(b) = NoPolicy)
      BY DEF StripWrite
    <2>. HIDE DEF c, l, new
    <2>4. CallStep(s) /\ call'[s] = c(b)
      BY <1>c, <2>1, SetMoves
    <2>5. LockStep(s) /\ Settled
      BY <1>11, KeepLocks DEF StripPolicy, tables, Settled
    <2>6. CASE l(b) \in {"strip", "tenant"}
      BY <2>2, <2>4, <2>5, <2>6, UnmarkedPreserved DEF Marked, Writing, Removing
    <2>7. CASE l(b) = "bucket" /\ new(b) = NoPolicy
      <3>1. Named(NoPolicy) = {}
        BY DEF Named, NoPolicy
      <3>2. HoldsNamed(s)' /\ HoldsRow(s)' /\ OwnsKey(s)'
        BY <2>2, <2>4, <2>7, <3>1 DEF HoldsNamed, Vouched, HoldsRow, OwnsKey, docOf, Writing, Removing
      <3>3. QED
        BY <2>4, <2>5, <3>2, SettledPreserved
    <2>8. QED
      BY <2>3, <2>6, <2>7
  <1>12. CASE StripDone(s)
    <2>1. LockStep(s) /\ Settled
      BY <1>12, KeepLocks DEF StripDone, tables, Settled
    <2>2. CallStep(s) /\ call'[s].pc \notin Marked
      BY <1>12, <1>c, GotoMoves DEF StripDone, Marked, Writing, Removing
    <2>3. QED
      BY <2>1, <2>2, UnmarkedPreserved
  <1>13. CASE Tombstone(s)
    <2>1. Settled
      BY <1>13 DEF Tombstone, tables, Settled
    <2>2. \/ Finish(s, "answered") /\ UNCHANGED locks
          \/ /\ principal[principalOf(s)] = "live"
             /\ Take(s, <<"principal", principalOf(s)>>, "UPDATE") /\ Goto(s, "tombCheck")
      <3>1. principal[principalOf(s)] \in {"absent", "live", "removed"}
        BY <1>13, <1>c DEF Tombstone, TypeOK, TablesOK, Aimed, OfPrincipal, principalOf
      <3>2. QED
        BY <1>13, <3>1 DEF Tombstone, Take
    <2>3. CASE Finish(s, "answered") /\ UNCHANGED locks
      BY <1>c, <2>1, <2>3, FinishMoves, KeepLocks, UnmarkedPreserved
    <2>4. CASE /\ principal[principalOf(s)] = "live"
               /\ Take(s, <<"principal", principalOf(s)>>, "UPDATE") /\ Goto(s, "tombCheck")
      <3>1. /\ CallStep(s) /\ call'[s].pc = "tombCheck"
            /\ call'[s].principal = call[s].principal
        BY <1>c, <2>4, GotoMoves
      <3>2. /\ LockStep(s)
            /\ [by |-> s, on |-> <<"principal", principalOf(s)>>, mode |-> "UPDATE"] \in locks'
        BY <2>4, TakeLocks
      <3>3. HoldsRow(s)'
        BY <2>1, <2>4, <3>1, <3>2 DEF HoldsRow, Locked, principalOf, Settled
      <3>4. HoldsNamed(s)' /\ OwnsKey(s)'
        BY <3>1 DEF HoldsNamed, Vouched, OwnsKey, Writing
      <3>5. QED
        BY <2>1, <3>1, <3>2, <3>3, <3>4, SettledPreserved
    <2>5. QED
      BY <2>2, <2>3, <2>4
  <1>14. CASE NamedAgain(s)
    <2>1. Settled
      BY <1>14 DEF NamedAgain, tables, Settled
    <2>2. CASE Fail(s, "concurrent")
      BY <2>1, <2>2, FailMoves, UnmarkedPreserved
    <2>3. CASE /\ ~\E b \in ListByPrincipal(principalOf(s)) : principalOf(s) \in Named(policy[b])
               /\ Goto(s, "tombKeys") /\ UNCHANGED locks
      <3>1. /\ CallStep(s) /\ call'[s].pc = "tombKeys"
            /\ call'[s].principal = call[s].principal
        BY <1>c, <2>3, GotoMoves
      <3>2. \A b \in Buckets : principalOf(s) \notin Named(policy[b])
        BY <2>3 DEF ListByPrincipal, Listed, Named, NoPolicy
      <3>3. principal[principalOf(s)] = "live" /\ Locked(s, principalOf(s), "UPDATE")
        BY <1>14 DEF NamedAgain, AccessInv, HoldsRow, Removing
      <3>4. HoldsRow(s)'
        BY <2>1, <2>3, <3>1, <3>2, <3>3 DEF HoldsRow, Locked, principalOf, Settled
      <3>5. HoldsNamed(s)' /\ OwnsKey(s)'
        BY <3>1 DEF HoldsNamed, Vouched, OwnsKey, Writing
      <3>6. QED
        BY <2>1, <2>3, <3>1, <3>4, <3>5, KeepLocks, SettledPreserved
    <2>4. QED
      BY <1>14, <2>2, <2>3 DEF NamedAgain
  <1>15. CASE RemoveLoad(s)
    <2>. DEFINE ks == KeysOf({principalOf(s)})
                l == IF ks = {} THEN "tombCommit" ELSE "tombLock"
                c == [call[s] EXCEPT !.keys = ks, !.want = ks, !.pc = l]
    <2>1. Settled /\ UNCHANGED locks
      BY <1>15 DEF RemoveLoad, tables, Settled
    <2>2. l \in {"tombCommit", "tombLock"}
      OBVIOUS
    <2>3. c.pc = l /\ c.keys = ks /\ c.principal = call[s].principal
      <3>. HIDE DEF l, ks
      <3>. QED  BY <1>c DEF CallRecords
    <2>4. call' = [call EXCEPT ![s] = c]
      BY <1>15 DEF RemoveLoad
    <2>. HIDE DEF c, l
    <2>5. /\ CallStep(s) /\ call'[s].pc \in {"tombCommit", "tombLock"}
          /\ call'[s].keys = ks /\ call'[s].principal = call[s].principal
      BY <1>c, <2>2, <2>3, <2>4, SetMoves
    <2>6. /\ principal[principalOf(s)] = "live" /\ Locked(s, principalOf(s), "UPDATE")
          /\ \A b \in Buckets : principalOf(s) \notin Named(policy[b])
      BY <1>15 DEF RemoveLoad, AccessInv, HoldsRow, Removing
    <2>7. HoldsRow(s)'
      BY <2>1, <2>5, <2>6 DEF HoldsRow, Locked, principalOf, KeysOf, Settled
    <2>8. HoldsNamed(s)' /\ OwnsKey(s)'
      BY <2>5 DEF HoldsNamed, Vouched, OwnsKey, Writing
    <2>9. QED
      BY <2>1, <2>5, <2>7, <2>8, KeepLocks, SettledPreserved
  <1>16. CASE RemoveLock(s)
    <2>1. /\ CallStep(s) /\ LockStep(s) /\ Settled /\ locks \subseteq locks'
          /\ call'[s].pc \in {"tombLock", "tombPublish"}
          /\ call'[s].principal = call[s].principal /\ call'[s].keys = call[s].keys
      BY <1>16, LockAudiencesMoves DEF RemoveLock
    <2>2. HoldsNamed(s)' /\ HoldsRow(s)' /\ OwnsKey(s)'
      BY <1>16, <2>1, RemovingHolds DEF RemoveLock, LockAudiences, Removing
    <2>3. QED
      BY <2>1, <2>2, SettledPreserved
  <1>17. CASE RemovePublish(s)
    <2>. DEFINE rows == {[by |-> s, on |-> <<"keyRow", k>>, mode |-> "UPDATE"] : k \in call[s].keys}
    <2>1. Settled
      BY <1>17 DEF RemovePublish, Settled
    <2>2. \/ Goto(s, "tombSecrets") /\ locks' = locks \cup rows
          \/ Fail(s, "error")
      BY <1>17 DEF RemovePublish, PublishRevocations
    <2>3. \A l \in rows : l.by = s /\ CanLock(locks, s, l.on, l.mode)
      BY <1>17 DEF RemovePublish
    <2>. HIDE DEF rows
    <2>4. CASE Fail(s, "error")
      BY <2>1, <2>4, FailMoves, UnmarkedPreserved
    <2>5. CASE Goto(s, "tombSecrets") /\ locks' = locks \cup rows
      <3>1. /\ CallStep(s) /\ call'[s].pc = "tombSecrets"
            /\ call'[s].principal = call[s].principal /\ call'[s].keys = call[s].keys
        BY <1>c, <2>5, GotoMoves
      <3>2. LockStep(s) /\ locks \subseteq locks'
        BY <2>3, <2>5, GrowLocks
      <3>3. HoldsNamed(s)' /\ HoldsRow(s)' /\ OwnsKey(s)'
        BY <1>17, <2>1, <3>1, <3>2, RemovingHolds DEF RemovePublish, Removing
      <3>4. QED
        BY <2>1, <3>1, <3>2, <3>3, SettledPreserved
    <2>6. QED
      BY <2>2, <2>4, <2>5
  <1>18. CASE RemoveSecrets(s)
    <2>1. Settled /\ LockStep(s) /\ locks \subseteq locks'
      BY <1>18, KeepLocks DEF RemoveSecrets, Settled
    <2>2. /\ CallStep(s) /\ call'[s].pc = "tombCommit"
          /\ call'[s].principal = call[s].principal /\ call'[s].keys = call[s].keys
      BY <1>18, <1>c, GotoMoves DEF RemoveSecrets
    <2>3. HoldsNamed(s)' /\ HoldsRow(s)' /\ OwnsKey(s)'
      BY <1>18, <2>1, <2>2, RemovingHolds DEF RemoveSecrets, Removing
    <2>4. QED
      BY <2>1, <2>2, <2>3, SettledPreserved
  <1>19. CASE TombstoneCommit(s)
    <2>1. PICK q \in Principals : q = principalOf(s)
      BY <1>19, <1>c DEF TombstoneCommit, Aimed, OfPrincipal, principalOf
    <2>2. /\ Locked(s, q, "UPDATE")
          /\ \A b \in Buckets : q \notin Named(policy[b])
          /\ \A k \in keyRow : owner[k] = q => k \in call[s].keys
      BY <1>19, <2>1 DEF TombstoneCommit, AccessInv, HoldsRow, Removing, KeysOf
    <2>3. UNCHANGED <<policy, owner>> /\ keyRow' = keyRow \ call[s].keys /\ LockStep(s)
      BY <1>19, ReleaseLocks DEF TombstoneCommit
    <2>4. CallStep(s) /\ call'[s].pc \notin Marked
      BY <1>19, <1>c, FinishMoves DEF TombstoneCommit
    <2>5. \A p \in Principals : p # q => principal'[p] = principal[p]
      BY <1>19, <1>c, <2>1 DEF TombstoneCommit, TypeOK, TablesOK
    <2>6. MaySettle(s)
      BY <2>2, <2>3, <2>5 DEF MaySettle, AccessInv, RowsHaveOwners
    <2>7. \A b \in Buckets : Named(policy[b]) \subseteq Principals
      BY <1>c, NamedTyped DEF TypeOK, TablesOK
    <2>8. NamedAreLive'
      BY <2>2, <2>3, <2>5, <2>7 DEF AccessInv, NamedAreLive
    <2>9. RowsHaveOwners' /\ KeysHaveLiveOwners'
      BY <2>2, <2>3, <2>5 DEF AccessInv, RowsHaveOwners, KeysHaveLiveOwners
    <2>10. QED
      BY <2>3, <2>4, <2>6, <2>8, <2>9, UnmarkedHolds, Preserved
  <1>20. QED
    BY <1>1, <1>2, <1>3, <1>4, <1>5, <1>6, <1>7, <1>8, <1>9, <1>10, <1>11, <1>12,
       <1>13, <1>14, <1>15, <1>16, <1>17, <1>18, <1>19
       DEF PrincipalStep

LEMMA AccessKeyStepPreserves ==
    ASSUME AccessInv, TypeOK', NEW s \in Procs, AccessKeyStep(s)
    PROVE  AccessInv'
  <1>. USE DEF At
  <1>c. TypeOK /\ call[s] \in CallRecords /\ Aimed(call[s])
    BY CallTyped DEF AccessInv
  <1>1. CASE BeginCreateKey(s)
    <2>1. PICK p \in Principals :
            call' = [call EXCEPT ![s] = [Idle("answered") EXCEPT 
                          !.pc = "ckPrincipal", !.kind = "createKey", !.principal = p]]
      BY <1>1 DEF BeginCreateKey
    <2>. DEFINE c == [Idle("answered") EXCEPT 
                          !.pc = "ckPrincipal", !.kind = "createKey", !.principal = p]
    <2>2. c.pc \notin Marked
      BY DEF Idle, Marked, Writing, Removing
    <2>. HIDE DEF c
    <2>3. CallStep(s) /\ call'[s].pc \notin Marked
      BY <1>c, <2>1, <2>2, SetMoves DEF c
    <2>4. LockStep(s) /\ Settled
      BY <1>1, KeepLocks DEF BeginCreateKey, tables, Settled
    <2>5. QED
      BY <2>3, <2>4, UnmarkedPreserved
  <1>2. CASE FindPrincipal(s)
    <2>1. LockStep(s) /\ Settled
      BY <1>2, KeepLocks DEF FindPrincipal, tables, Settled
    <2>2. Goto(s, "ckSecret") \/ Finish(s, "answered")
      BY <1>2 DEF FindPrincipal
    <2>3. CallStep(s) /\ call'[s].pc \notin Marked
      BY <1>c, <2>2, GotoMoves, FinishMoves DEF Marked, Writing, Removing
    <2>4. QED
      BY <2>1, <2>3, UnmarkedPreserved
  <1>3. CASE WriteSecret(s)
    <2>1. PICK k \in Keys : /\ owner[k] = None
                            /\ owner' = [owner EXCEPT ![k] = principalOf(s)]
                            /\ call' = [call EXCEPT ![s].key = k, ![s].pc = "ckAdd"]
      BY <1>3 DEF WriteSecret
    <2>. DEFINE c == [call[s] EXCEPT !.key = k, !.pc = "ckAdd"]
    <2>2. c.pc = "ckAdd" /\ c.key = k /\ c.principal = call[s].principal
      BY <1>c DEF CallRecords
    <2>3. call' = [call EXCEPT ![s] = c]
      BY <2>1
    <2>. HIDE DEF c
    <2>4. CallStep(s) /\ call'[s] = c
      BY <1>c, <2>3, SetMoves
    <2>5. UNCHANGED <<principal, policy, keyRow>> /\ LockStep(s)
      BY <1>3, KeepLocks DEF WriteSecret
    <2>6. \A x \in Keys : owner[x] # None => owner'[x] = owner[x]
      BY <1>c, <2>1 DEF TypeOK, TablesOK
    <2>7. \A x \in keyRow : x \in Keys /\ owner[x] \in Principals /\ owner'[x] = owner[x]
      BY <1>c, <2>6, PrincipalsAssumption DEF AccessInv, RowsHaveOwners, None, TypeOK, TablesOK
    <2>8. MaySettle(s)
      BY <2>5, <2>6, <2>7 DEF MaySettle
    <2>9. RowsHaveOwners' /\ NamedAreLive' /\ KeysHaveLiveOwners'
      BY <2>5, <2>7 DEF AccessInv, RowsHaveOwners, NamedAreLive, KeysHaveLiveOwners
    <2>10. OwnsKey(s)'
      BY <1>c, <2>1, <2>2, <2>4 DEF OwnsKey, keyOf, principalOf, TypeOK, TablesOK
    <2>11. HoldsNamed(s)' /\ HoldsRow(s)'
      BY <2>2, <2>4 DEF HoldsNamed, Vouched, HoldsRow, Writing, Removing
    <2>12. QED
      BY <2>4, <2>5, <2>8, <2>9, <2>10, <2>11, Preserved
  <1>4. CASE AddKey(s)
    <2>1. UNCHANGED <<principal, policy, owner>>
      BY <1>4 DEF AddKey
    <2>2. CASE Fail(s, "invalid") /\ UNCHANGED keyRow
      <3>1. Settled
        BY <2>1, <2>2 DEF Settled
      <3>2. QED
        BY <2>2, <3>1, FailMoves, UnmarkedPreserved
    <2>3. CASE /\ principal[principalOf(s)] = "live"
               /\ keyRow' = keyRow \cup {keyOf(s)} /\ Goto(s, "ckSnap") /\ UNCHANGED locks
      <3>1. CallStep(s) /\ call'[s].pc \notin Marked
        BY <1>c, <2>3, GotoMoves DEF Marked, Writing, Removing
      <3>2. owner[keyOf(s)] = principalOf(s) /\ principalOf(s) \in Principals
        BY <1>4, <1>c DEF AddKey, AccessInv, OwnsKey, Aimed, OfPrincipal, principalOf
      <3>3. CanLock(locks, s, <<"principal", owner[keyOf(s)]>>, "SHARE")
        BY <1>4, <3>2 DEF AddKey
      <3>4. MaySettle(s)
        BY <2>1, <2>3, <3>2, <3>3 DEF MaySettle, AccessInv, RowsHaveOwners
      <3>5. RowsHaveOwners' /\ NamedAreLive' /\ KeysHaveLiveOwners'
        BY <2>1, <2>3, <3>2 DEF AccessInv, RowsHaveOwners, NamedAreLive, KeysHaveLiveOwners
      <3>6. QED
        BY <2>3, <3>1, <3>4, <3>5, KeepLocks, UnmarkedHolds, Preserved
    <2>4. QED
      BY <1>4, <2>2, <2>3 DEF AddKey
  <1>5. CASE ListSnapshot(s)
    <2>. DEFINE bs == ListByPrincipal(principalOf(s))
                l == IF bs = {} THEN AfterListing(s, NoDocs) ELSE "ckRows"
                c == [call[s] EXCEPT !.want = bs, !.pc = l]
    <2>1. LockStep(s) /\ Settled
      BY <1>5, KeepLocks DEF ListSnapshot, tables, Settled
    <2>2. l \in {"ckStore", "ckGet", "ckRows"}
      BY DEF AfterListing
    <2>3. c.pc = l
      <3>. HIDE DEF l, bs
      <3>. QED  BY <1>c DEF CallRecords
    <2>4. call' = [call EXCEPT ![s] = c]
      BY <1>5 DEF ListSnapshot
    <2>. HIDE DEF c, l
    <2>5. CallStep(s) /\ call'[s].pc \notin Marked
      BY <1>c, <2>2, <2>3, <2>4, SetMoves DEF Marked, Writing, Removing
    <2>6. QED
      BY <2>1, <2>5, UnmarkedPreserved
  <1>6. CASE ListRows(s)
    <2>. DEFINE docs(b) == [call[s].snap EXCEPT ![b] = policy[b]]
                l(b) == IF call[s].want = {b} THEN AfterListing(s, docs(b)) ELSE "ckRows"
                c(b) == [call[s] EXCEPT !.want = @ \ {b}, !.snap = docs(b), !.pc = l(b)]
    <2>1. PICK b \in Buckets :
            /\ Release(s) \/ UNCHANGED locks \/ Take(s, <<"policyRow", b>>, "SHARE")
            /\ call' = [call EXCEPT ![s] = c(b)]
      BY <1>6, ZenonT(60) DEF ListRows, Release, Take
    <2>2. l(b) \in {"ckStore", "ckGet", "ckRows"}
      BY DEF AfterListing
    <2>3. c(b).pc = l(b)
      <3>. HIDE DEF l, docs
      <3>. QED  BY <1>c DEF CallRecords
    <2>. HIDE DEF c, l
    <2>4. call' = [call EXCEPT ![s] = c(b)]
      BY <2>1
    <2>5. CallStep(s) /\ call'[s].pc \notin Marked
      BY <1>c, <2>2, <2>3, <2>4, SetMoves DEF Marked, Writing, Removing
    <2>6. LockStep(s)
      BY <2>1, ReleaseLocks, KeepLocks, TakeLocks
    <2>7. Settled
      BY <1>6 DEF ListRows, tables, Settled
    <2>8. QED
      BY <2>5, <2>6, <2>7, UnmarkedPreserved
  <1>7. CASE StoreGrants(s)
    <2>1. Settled
      BY <1>7 DEF StoreGrants, Settled
    <2>2. CASE Goto(s, "ckGet") /\ UNCHANGED locks
      <3>1. CallStep(s) /\ call'[s].pc \notin Marked
        BY <1>c, <2>2, GotoMoves DEF Marked, Writing, Removing
      <3>2. QED
        BY <2>1, <2>2, <3>1, KeepLocks, UnmarkedPreserved
    <2>3. QED
      BY <1>7, <2>1, <2>2, FailMoves, UnmarkedPreserved DEF StoreGrants
  <1>8. CASE ReturnKey(s)
    <2>1. Settled
      BY <1>8 DEF ReturnKey, Settled
    <2>2. \/ Finish(s, "answered") /\ UNCHANGED locks
          \/ Fail(s, "notfound")
      BY <1>8 DEF ReturnKey
    <2>3. QED
      BY <1>c, <2>1, <2>2, FinishMoves, KeepLocks, FailMoves, UnmarkedPreserved
  <1>9. CASE RollbackGrants(s)
    <2>1. LockStep(s) /\ Settled
      BY <1>9, KeepLocks DEF RollbackGrants, tables, Settled
    <2>2. CallStep(s) /\ call'[s].pc \notin Marked
      BY <1>9, <1>c, GotoMoves DEF RollbackGrants, Marked, Writing, Removing
    <2>3. QED
      BY <2>1, <2>2, UnmarkedPreserved
  <1>10. CASE RollbackRow(s)
    <2>1. /\ UNCHANGED <<principal, policy, owner>> /\ keyRow' \subseteq keyRow
          /\ LockStep(s)
      BY <1>10, KeepLocks DEF RollbackRow
    <2>2. CallStep(s) /\ call'[s].pc \notin Marked
      BY <1>10, <1>c, GotoMoves DEF RollbackRow, Marked, Writing, Removing
    <2>3. QED
      BY <2>1, <2>2, ShrinkPreserved
  <1>11. CASE RollbackSecret(s)
    <2>1. LockStep(s) /\ Settled
      BY <1>11, KeepLocks DEF RollbackSecret, tables, Settled
    <2>2. CallStep(s) /\ call'[s].pc \notin Marked
      BY <1>11, <1>c, FinishMoves DEF RollbackSecret
    <2>3. QED
      BY <2>1, <2>2, UnmarkedPreserved
  <1>12. CASE BeginDeleteKey(s)
    <2>1. PICK k \in keyRow :
            call' = [call EXCEPT ![s] = [Idle("answered") EXCEPT 
                          !.pc = "kdLock", !.kind = "deleteKey", !.key = k,
                          !.keys = {k}, !.want = {k}]]
      BY <1>12 DEF BeginDeleteKey
    <2>. DEFINE c == [Idle("answered") EXCEPT 
                          !.pc = "kdLock", !.kind = "deleteKey", !.key = k,
                          !.keys = {k}, !.want = {k}]
    <2>2. c.pc \notin Marked
      BY DEF Idle, Marked, Writing, Removing
    <2>. HIDE DEF c
    <2>3. CallStep(s) /\ call'[s].pc \notin Marked
      BY <1>c, <2>1, <2>2, SetMoves DEF c
    <2>4. LockStep(s) /\ Settled
      BY <1>12, KeepLocks DEF BeginDeleteKey, tables, Settled
    <2>5. QED
      BY <2>3, <2>4, UnmarkedPreserved
  <1>13. CASE DeleteLock(s)
    BY <1>13, LockAudiencesMoves, UnmarkedPreserved DEF DeleteLock, Marked, Writing, Removing
  <1>14. CASE DeletePublish(s)
    <2>1. Settled
      BY <1>14 DEF DeletePublish, Settled
    <2>2. \/ Take(s, <<"keyRow", keyOf(s)>>, "UPDATE") /\ Goto(s, "kdCommit")
          \/ Fail(s, "error")
      BY <1>14 DEF DeletePublish, PublishRevocations, Take
    <2>3. CASE Take(s, <<"keyRow", keyOf(s)>>, "UPDATE") /\ Goto(s, "kdCommit")
      <3>1. CallStep(s) /\ call'[s].pc \notin Marked
        BY <1>c, <2>3, GotoMoves DEF Marked, Writing, Removing
      <3>2. QED
        BY <2>1, <2>3, <3>1, TakeLocks, UnmarkedPreserved
    <2>4. QED
      BY <2>1, <2>2, <2>3, FailMoves, UnmarkedPreserved
  <1>15. CASE DeleteCommit(s)
    <2>1. /\ UNCHANGED <<principal, policy, owner>> /\ keyRow' \subseteq keyRow
          /\ LockStep(s)
      BY <1>15, ReleaseLocks DEF DeleteCommit
    <2>2. CallStep(s) /\ call'[s].pc \notin Marked
      BY <1>15, <1>c, GotoMoves DEF DeleteCommit, Marked, Writing, Removing
    <2>3. QED
      BY <2>1, <2>2, ShrinkPreserved
  <1>16. CASE DeleteSecret(s)
    <2>1. LockStep(s) /\ Settled
      BY <1>16, KeepLocks DEF DeleteSecret, tables, Settled
    <2>2. CallStep(s) /\ call'[s].pc \notin Marked
      BY <1>16, <1>c, FinishMoves DEF DeleteSecret
    <2>3. QED
      BY <2>1, <2>2, UnmarkedPreserved
  <1>17. QED
    BY <1>1, <1>2, <1>3, <1>4, <1>5, <1>6, <1>7, <1>8, <1>9, <1>10, <1>11, <1>12,
       <1>13, <1>14, <1>15, <1>16
       DEF AccessKeyStep

LEMMA BucketStepPreserves ==
    ASSUME AccessInv, TypeOK', NEW s \in Procs, BucketStep(s)
    PROVE  AccessInv'
  <1>. USE DEF At
  <1>c. TypeOK /\ call[s] \in CallRecords /\ Aimed(call[s])
    BY CallTyped DEF AccessInv
  <1>1. CASE BeginDeleteBucket(s)
    <2>1. PICK b \in buckets :
            call' = [call EXCEPT ![s] = [Idle("answered") EXCEPT 
                          !.pc = "dbLock", !.kind = "deleteBucket", !.bucket = b]]
      BY <1>1 DEF BeginDeleteBucket
    <2>. DEFINE c == [Idle("answered") EXCEPT 
                          !.pc = "dbLock", !.kind = "deleteBucket", !.bucket = b]
    <2>2. c.pc \notin Marked
      BY DEF Idle, Marked, Writing, Removing
    <2>. HIDE DEF c
    <2>3. CallStep(s) /\ call'[s].pc \notin Marked
      BY <1>c, <2>1, <2>2, SetMoves DEF c
    <2>4. LockStep(s) /\ Settled
      BY <1>1, KeepLocks DEF BeginDeleteBucket, tables, Settled
    <2>5. QED
      BY <2>3, <2>4, UnmarkedPreserved
  <1>2. CASE DeleteByBucket(s)
    <2>1. LockStep(s) /\ Settled
      BY <1>2, TakeLocks DEF DeleteByBucket, tables, Settled
    <2>2. CallStep(s) /\ call'[s].pc \notin Marked
      BY <1>2, <1>c, GotoMoves DEF DeleteByBucket, Marked, Writing, Removing
    <2>3. QED
      BY <2>1, <2>2, UnmarkedPreserved
  <1>3. CASE RevokeSubject(s)
    <2>1. Settled
      BY <1>3 DEF RevokeSubject, Settled
    <2>2. \/ Goto(s, "dbAudiences") /\ UNCHANGED locks
          \/ Fail(s, "error")
      BY <1>3 DEF RevokeSubject, PublishRevocations
    <2>3. CASE Goto(s, "dbAudiences") /\ UNCHANGED locks
      <3>1. CallStep(s) /\ call'[s].pc \notin Marked
        BY <1>c, <2>3, GotoMoves DEF Marked, Writing, Removing
      <3>2. QED
        BY <2>1, <2>3, <3>1, KeepLocks, UnmarkedPreserved
    <2>4. QED
      BY <2>1, <2>2, <2>3, FailMoves, UnmarkedPreserved
  <1>4. CASE SubjectAudiences(s)
    <2>. DEFINE ks == HoldersOf(bucketOf(s))
                l == IF ks = {} THEN "dbDelete" ELSE "dbLockK"
                c == [call[s] EXCEPT !.want = ks, !.pc = l]
    <2>1. LockStep(s) /\ Settled
      BY <1>4, KeepLocks DEF SubjectAudiences, tables, Settled
    <2>2. l \in {"dbDelete", "dbLockK"}
      BY DEF AfterListing
    <2>3. c.pc = l
      <3>. HIDE DEF l, ks
      <3>. QED  BY <1>c DEF CallRecords
    <2>4. call' = [call EXCEPT ![s] = c]
      BY <1>4 DEF SubjectAudiences
    <2>. HIDE DEF c, l
    <2>5. CallStep(s) /\ call'[s].pc \notin Marked
      BY <1>c, <2>2, <2>3, <2>4, SetMoves DEF Marked, Writing, Removing
    <2>6. QED
      BY <2>1, <2>5, UnmarkedPreserved
  <1>5. CASE SubjectLock(s)
    BY <1>5, LockAudiencesMoves, UnmarkedPreserved DEF SubjectLock, Marked, Writing, Removing
  <1>6. CASE DeleteBySubject(s)
    <2>. DEFINE ks == HoldersOf(bucketOf(s))
                c == [call[s] EXCEPT !.keys = ks, !.pc = "dbCommit"]
    <2>1. LockStep(s) /\ Settled
      BY <1>6, KeepLocks DEF DeleteBySubject, tables, Settled
    <2>2. c.pc = "dbCommit"
      BY <1>c DEF CallRecords
    <2>3. call' = [call EXCEPT ![s] = c]
      BY <1>6 DEF DeleteBySubject
    <2>. HIDE DEF c
    <2>4. CallStep(s) /\ call'[s].pc \notin Marked
      BY <1>c, <2>2, <2>3, SetMoves DEF Marked, Writing, Removing
    <2>5. QED
      BY <2>1, <2>4, UnmarkedPreserved
  <1>7. CASE DeleteBucketRow(s)
    <2>1. UNCHANGED <<principal, keyRow, owner>> /\ LockStep(s)
      BY <1>7, ReleaseLocks DEF DeleteBucketRow
    <2>2. CallStep(s) /\ call'[s].pc \notin Marked
      BY <1>7, <1>c, FinishMoves DEF DeleteBucketRow
    <2>3. \A b \in Buckets : policy'[b] \in {policy[b], NoPolicy}
      BY <1>7, <1>c DEF DeleteBucketRow, TypeOK, TablesOK
    <2>4. Named(NoPolicy) = {}
      BY DEF Named, NoPolicy
    <2>5. MaySettle(s)
      BY <2>1, <2>3, <2>4 DEF MaySettle, AccessInv, RowsHaveOwners
    <2>6. RowsHaveOwners' /\ NamedAreLive' /\ KeysHaveLiveOwners'
      BY <2>1, <2>3, <2>4 DEF AccessInv, RowsHaveOwners, NamedAreLive, KeysHaveLiveOwners
    <2>7. QED
      BY <2>1, <2>2, <2>5, <2>6, UnmarkedHolds, Preserved
  <1>8. QED
    BY <1>1, <1>2, <1>3, <1>4, <1>5, <1>6, <1>7
       DEF BucketStep

LEMMA FaultPreserves ==
    ASSUME AccessInv, TypeOK', NEW s \in Procs, Fault(s)
    PROVE  AccessInv'
  <1>. USE DEF At
  <1>c. TypeOK /\ call[s] \in CallRecords /\ Aimed(call[s])
    BY CallTyped DEF AccessInv
  <1>1. CASE Timeout(s)
    BY <1>1, FailMoves, UnmarkedPreserved DEF Timeout, tables, Settled
  <1>2. CASE Error(s)
    BY <1>2, FailMoves, UnmarkedPreserved DEF Error, tables, Settled
  <1>3. CASE Crash(s)
    BY <1>3, <1>c, FinishMoves, ReleaseLocks, UnmarkedPreserved DEF Crash, tables, Settled
  <1>4. CASE RollbackSkip(s)
    <2>1. LockStep(s) /\ Settled
      BY <1>4, KeepLocks DEF RollbackSkip, tables, Settled
    <2>2. Goto(s, "rbRow") \/ Goto(s, "rbSecret") \/ Finish(s, call[s].res)
      BY <1>4 DEF RollbackSkip
    <2>3. CallStep(s) /\ call'[s].pc \notin Marked
      BY <1>c, <2>2, GotoMoves, FinishMoves DEF Marked, Writing, Removing
    <2>4. QED
      BY <2>1, <2>3, UnmarkedPreserved
  <1>5. QED
    BY <1>1, <1>2, <1>3, <1>4 DEF Fault

-----------------------------------------------------------------------------
LEMMA InitInvariant == Init => AccessInv
  <1>. SUFFICES ASSUME Init PROVE AccessInv
    OBVIOUS
  <1>1. TypeOK
    BY InitTyped
  <1>2. LocksCompatible /\ RowsHaveOwners /\ KeysHaveLiveOwners
    BY DEF Init, LocksCompatible, RowsHaveOwners, KeysHaveLiveOwners
  <1>3. NamedAreLive
    BY DEF Init, NamedAreLive, NoDocs, NoPolicy, Named
  <1>4. ASSUME NEW s \in Procs PROVE HoldsNamed(s) /\ HoldsRow(s) /\ OwnsKey(s)
    <2>1. call[s].pc = "idle"
      BY DEF Init, Idle
    <2>2. QED
      BY <2>1 DEF HoldsNamed, Vouched, HoldsRow, OwnsKey, At, Writing, Removing
  <1>5. QED
    BY <1>1, <1>2, <1>3, <1>4 DEF AccessInv

LEMMA StutterInvariant == AccessInv /\ UNCHANGED vars => AccessInv'
  <1>. SUFFICES ASSUME AccessInv, UNCHANGED vars PROVE AccessInv'
    OBVIOUS
  <1>1. TypeOK'
    BY NextTyped DEF AccessInv
  <1>2. LocksCompatible' /\ RowsHaveOwners' /\ NamedAreLive' /\ KeysHaveLiveOwners'
    BY DEF AccessInv, vars, LocksCompatible, RowsHaveOwners, NamedAreLive, KeysHaveLiveOwners
  <1>3. ASSUME NEW s \in Procs PROVE (HoldsNamed(s) /\ HoldsRow(s) /\ OwnsKey(s))'
    BY DEF AccessInv, vars, HoldsNamed, Vouched, HoldsRow, OwnsKey, At, Locked, KeysOf, docOf,
           keyOf, principalOf
  <1>4. QED
    BY <1>1, <1>2, <1>3 DEF AccessInv

\* The lock discipline of the stores is an invariant: every step of every service,
\* and every fault, keeps each handler in possession of what it has checked.
THEOREM LockDiscipline == Spec => []AccessInv
  <1>1. ASSUME AccessInv, [Next]_vars PROVE AccessInv'
    <2>1. TypeOK'
      BY <1>1, NextTyped DEF AccessInv
    <2>2. CASE UNCHANGED vars
      BY <1>1, <2>2, StutterInvariant
    <2>3. ASSUME NEW s \in Procs, Step(s) PROVE AccessInv'
      BY <1>1, <2>1, <2>3, PolicyStepPreserves, PrincipalStepPreserves,
         AccessKeyStepPreserves, BucketStepPreserves DEF Step
    <2>4. QED
      BY <1>1, <2>1, <2>2, <2>3, FaultPreserves DEF Next
  <1>2. QED
    BY <1>1, InitInvariant, PTL DEF Spec

\* No committed policy ever names a principal that is missing or removed: the
\* KEY SHARE locks of requireLivePrincipals and the UPDATE lock and re-check of
\* the tombstone are enough, for any number of handlers and under every fault.
THEOREM PoliciesNameLivePrincipals == Spec => []NamedAreLive
  <1>1. AccessInv => NamedAreLive
    BY DEF AccessInv
  <1>2. QED
    BY <1>1, LockDiscipline, PTL

\* No access key's row outlives its principal, so reviving a tombstone brings back
\* no key: a key is added under a share lock on its live owner, and the tombstone
\* deletes every key it lists under its UPDATE lock.
THEOREM KeysDieWithTheirPrincipal == Spec => []KeysHaveLiveOwners
  <1>1. AccessInv => KeysHaveLiveOwners
    BY DEF AccessInv
  <1>2. QED
    BY <1>1, LockDiscipline, PTL

-----------------------------------------------------------------------------
(***************************************************************************)
(* 4. A policy write that succeeds replaces exactly the document its       *)
(* condition was about: compare and set, with a callback of any length     *)
(* between the compare and the set.                                        *)
(*                                                                         *)
(* The argument: from the moment lockRow reads the document until the      *)
(* commit, the handler holds the bucket's advisory lock exclusive, and     *)
(* every step that changes a policy row is made under that same lock.      *)
(***************************************************************************)
\* s holds this lock.
Has(s, res, mode) == [by |-> s, on |-> res, mode |-> mode] \in locks

-----------------------------------------------------------------------------
(***************************************************************************)
(* Where a handler can be.                                                 *)
(***************************************************************************)
Starting == {"ckPrincipal", "ckSecret"}
Undoing == {"rbGrants", "rbRow", "rbSecret"}
Creating == {"ckAdd", "ckSnap", "ckRows", "ckStore", "ckGet"} \cup Undoing
Preparing == {"tenant", "named", "bucket", "bucketRow", "row"}
Rotating == {"relist", "lockP", "load", "lockK", "publish"}
PastRow == Rotating \cup {"commit"}
OnBucket == {"bucketRow", "row", "dbRevoke", "dbAudiences", "dbLockK", "dbDelete",
             "dbCommit"} \cup PastRow
OnKey == {"kdLock", "kdPublish", "kdCommit"}

Strips(s) == call[s].kind = "removePrincipal"

-----------------------------------------------------------------------------
(***************************************************************************)
(* The invariant.                                                          *)
(***************************************************************************)
\* What kind of request stands where, and when its list of keys is still empty:
\* a strip rotates no key.
ByKind(s) ==
    /\ call[s].kind = "createKey" <=> call[s].pc \in Creating \cup Starting
    /\ call[s].pc \in Starting => call[s].key = None
    /\ call[s].pc \in Rotating => ~Strips(s)
    /\ \/ call[s].pc \in Preparing \cup {"relist", "lockP", "load", "stripList", "strip"}
       \/ call[s].pc = "commit" /\ Strips(s)
       => call[s].keys = {}
    /\ call[s].pc \in OnKey => call[s].keys = {keyOf(s)}

\* The bucket's advisory lock, from TakeBucket or DeleteByBucket to the end.
HoldsBucket(s) ==
    call[s].pc \in OnBucket => Has(s, <<"bucket", bucketOf(s)>>, "exclusive")

\* The tenant's advisory lock: shared in a Put, exclusive in an Add.
HoldsTenant(s) ==
    /\ call[s].pc \in (Preparing \cup PastRow) \ {"tenant"} /\ docOf(s) # NoPolicy
       => Has(s, <<"tenant", None>>, "shared")
    /\ call[s].pc = "addRow" => Has(s, <<"tenant", None>>, "exclusive")

\* What lockRow has read is still there, and the condition still holds of it; a
\* Delete has the row to itself.
HoldsPolicy(s) ==
    call[s].pc \in PastRow =>
        /\ call[s].old = policy[bucketOf(s)]
        /\ CheckPrecondition(call[s].old, call[s].match)
        /\ docOf(s) = NoPolicy => Has(s, <<"policyRow", bucketOf(s)>>, "UPDATE")

\* A strip writes what it has listed, without the principal, on the condition that
\* it is still what it has listed.
StripsListed(s) ==
    Strips(s) /\ call[s].pc \in Preparing \cup {"commit"} =>
        LET listed == call[s].snap[bucketOf(s)]
        IN  /\ call[s].match = IfMatch(ETag(listed))
            /\ docOf(s) = RemovePrincipal(listed, principalOf(s))

Writes(s) == /\ ByKind(s) /\ HoldsBucket(s) /\ HoldsTenant(s) /\ HoldsPolicy(s)
             /\ StripsListed(s)

WriteInv == \A s \in Procs : Writes(s)

-----------------------------------------------------------------------------
(***************************************************************************)
(* Locks, of any resource.                                                 *)
(***************************************************************************)
LEMMA HasExcludes ==
    ASSUME AccessInv, NEW s, NEW t, s # t, NEW res, NEW m, NEW n,
           Has(s, res, m), Has(t, res, n), Conflicts(m, n)
    PROVE  FALSE
  <1>. DEFINE a == [by |-> s, on |-> res, mode |-> m]
              b == [by |-> t, on |-> res, mode |-> n]
  <1>1. a \in locks /\ b \in locks
    BY DEF Has
  <1>2. a.on = b.on /\ a.by # b.by /\ Conflicts(a.mode, b.mode)
    OBVIOUS
  <1>. HIDE DEF a, b
  <1>3. QED
    BY <1>1, <1>2 DEF AccessInv, LocksCompatible

LEMMA CanLockHas ==
    ASSUME NEW s, NEW t, s # t, NEW res, NEW m, NEW n, Has(t, res, n),
           CanLock(locks, s, res, m), Conflicts(n, m)
    PROVE  FALSE
  <1>. DEFINE b == [by |-> t, on |-> res, mode |-> n]
  <1>1. b \in locks
    BY DEF Has
  <1>2. b.on = res /\ b.by # s /\ Conflicts(b.mode, m)
    OBVIOUS
  <1>. HIDE DEF b
  <1>3. QED
    BY <1>1, <1>2 DEF CanLock

\* A step of s takes no lock from another handler and gives it none.
LEMMA HasElsewhere ==
    ASSUME TypeOK, NEW s, LockStep(s), NEW t, s # t, NEW res, NEW m, Has(t, res, m)
    PROVE  [by |-> t, on |-> res, mode |-> m] \in locks'
  <1>. DEFINE b == [by |-> t, on |-> res, mode |-> m]
  <1>1. b \in locks /\ b \in Locks /\ b.by # s
    BY DEF Has, TypeOK
  <1>. HIDE DEF b
  <1>2. b \in locks'
    BY <1>1 DEF LockStep
  <1>3. QED
    BY <1>2 DEF b

LEMMA ExclusivePairs ==
    /\ Conflicts("exclusive", "exclusive")
    /\ Conflicts("shared", "exclusive") /\ Conflicts("exclusive", "shared")
    /\ Conflicts("NO KEY UPDATE", "SHARE") /\ Conflicts("UPDATE", "SHARE")
  BY DEF Conflicts, Conflicting

-----------------------------------------------------------------------------
(***************************************************************************)
(* How each step changes its handler's record.                             *)
(***************************************************************************)
SameCore(s) == /\ call'[s].kind = call[s].kind /\ call'[s].bucket = call[s].bucket
               /\ call'[s].doc = call[s].doc /\ call'[s].match = call[s].match
               /\ call'[s].principal = call[s].principal
SameKey(s) == call'[s].key = call[s].key
SameWant(s) == call'[s].want = call[s].want
SameOld(s) == call'[s].old = call[s].old
SameAff(s) == call'[s].aff = call[s].aff
SameKeys(s) == call'[s].keys = call[s].keys
SameFresh(s) == call'[s].fresh = call[s].fresh
SameSnap(s) == call'[s].snap = call[s].snap

SameWork(s) == /\ SameCore(s) /\ SameKey(s) /\ SameOld(s) /\ SameAff(s) /\ SameKeys(s)
               /\ SameFresh(s) /\ SameSnap(s)

LEMMA SetPc ==
    ASSUME TypeOK, NEW s \in Procs, NEW l,
           call' = [call EXCEPT ![s].pc = l]
    PROVE  /\ CallStep(s) /\ call'[s].pc = l
           /\ SameWork(s) /\ SameWant(s)
  <1>. DEFINE c == [call[s] EXCEPT !.pc = l]
  <1>1. call' = [call EXCEPT ![s] = c]
    OBVIOUS
  <1>2. /\ c.pc = l /\ c.kind = call[s].kind /\ c.bucket = call[s].bucket
        /\ c.doc = call[s].doc /\ c.match = call[s].match /\ c.principal = call[s].principal
        /\ c.key = call[s].key /\ c.old = call[s].old /\ c.aff = call[s].aff
        /\ c.keys = call[s].keys /\ c.fresh = call[s].fresh /\ c.snap = call[s].snap
        /\ c.want = call[s].want
    BY CallTyped DEF CallRecords
  <1>. HIDE DEF c
  <1>3. CallStep(s) /\ call'[s] = c
    BY <1>1, SetMoves
  <1>4. QED
    BY <1>2, <1>3 DEF SameWork, SameCore, SameKey, SameWant, SameOld, SameAff, SameKeys, SameFresh,
                      SameSnap

LEMMA SetWant ==
    ASSUME TypeOK, NEW s \in Procs, NEW w, NEW l,
           call' = [call EXCEPT ![s].want = w, ![s].pc = l]
    PROVE  /\ CallStep(s) /\ call'[s].want = w /\ call'[s].pc = l
           /\ SameWork(s)
  <1>. DEFINE c == [call[s] EXCEPT !.want = w, !.pc = l]
  <1>1. call' = [call EXCEPT ![s] = c]
    OBVIOUS
  <1>2. /\ c.want = w /\ c.pc = l /\ c.kind = call[s].kind
        /\ c.bucket = call[s].bucket /\ c.doc = call[s].doc /\ c.match = call[s].match
        /\ c.principal = call[s].principal /\ c.key = call[s].key /\ c.old = call[s].old
        /\ c.aff = call[s].aff /\ c.keys = call[s].keys /\ c.fresh = call[s].fresh
        /\ c.snap = call[s].snap
    BY CallTyped DEF CallRecords
  <1>. HIDE DEF c
  <1>3. CallStep(s) /\ call'[s] = c
    BY <1>1, SetMoves
  <1>4. QED
    BY <1>2, <1>3 DEF SameWork, SameCore, SameKey, SameWant, SameOld, SameAff, SameKeys, SameFresh,
                      SameSnap

LEMMA SetOld ==
    ASSUME TypeOK, NEW s \in Procs, NEW o, NEW l,
           call' = [call EXCEPT ![s].old = o, ![s].pc = l]
    PROVE  /\ CallStep(s) /\ call'[s].old = o /\ call'[s].pc = l
           /\ SameCore(s) /\ SameKey(s) /\ SameAff(s) /\ SameKeys(s) /\ SameFresh(s) /\ SameSnap(s) /\ SameWant(s)
  <1>. DEFINE c == [call[s] EXCEPT !.old = o, !.pc = l]
  <1>1. call' = [call EXCEPT ![s] = c]
    OBVIOUS
  <1>2. /\ c.old = o /\ c.pc = l /\ c.kind = call[s].kind
        /\ c.bucket = call[s].bucket /\ c.doc = call[s].doc /\ c.match = call[s].match
        /\ c.principal = call[s].principal /\ c.key = call[s].key /\ c.aff = call[s].aff
        /\ c.keys = call[s].keys /\ c.fresh = call[s].fresh /\ c.snap = call[s].snap
        /\ c.want = call[s].want
    BY CallTyped DEF CallRecords
  <1>. HIDE DEF c
  <1>3. CallStep(s) /\ call'[s] = c
    BY <1>1, SetMoves
  <1>4. QED
    BY <1>2, <1>3 DEF SameWork, SameCore, SameKey, SameWant, SameOld, SameAff, SameKeys, SameFresh,
                      SameSnap

LEMMA SetAff ==
    ASSUME TypeOK, NEW s \in Procs, NEW a, NEW l,
           call' = [call EXCEPT ![s].aff = a, ![s].want = a, ![s].pc = l]
    PROVE  /\ CallStep(s) /\ call'[s].aff = a /\ call'[s].want = a /\ call'[s].pc = l
           /\ SameCore(s) /\ SameKey(s) /\ SameOld(s) /\ SameKeys(s) /\ SameFresh(s) /\ SameSnap(s)
  <1>. DEFINE c == [call[s] EXCEPT !.aff = a, !.want = a, !.pc = l]
  <1>1. call' = [call EXCEPT ![s] = c]
    OBVIOUS
  <1>2. /\ c.aff = a /\ c.want = a /\ c.pc = l
        /\ c.kind = call[s].kind /\ c.bucket = call[s].bucket /\ c.doc = call[s].doc
        /\ c.match = call[s].match /\ c.principal = call[s].principal /\ c.key = call[s].key
        /\ c.old = call[s].old /\ c.keys = call[s].keys /\ c.fresh = call[s].fresh
        /\ c.snap = call[s].snap
    BY CallTyped DEF CallRecords
  <1>. HIDE DEF c
  <1>3. CallStep(s) /\ call'[s] = c
    BY <1>1, SetMoves
  <1>4. QED
    BY <1>2, <1>3 DEF SameWork, SameCore, SameKey, SameWant, SameOld, SameAff, SameKeys, SameFresh,
                      SameSnap

LEMMA SetKeys ==
    ASSUME TypeOK, NEW s \in Procs, NEW ks, NEW l,
           call' = [call EXCEPT ![s].keys = ks, ![s].want = ks, ![s].pc = l]
    PROVE  /\ CallStep(s) /\ call'[s].keys = ks /\ call'[s].want = ks /\ call'[s].pc = l
           /\ SameCore(s) /\ SameKey(s) /\ SameOld(s) /\ SameAff(s) /\ SameFresh(s) /\ SameSnap(s)
  <1>. DEFINE c == [call[s] EXCEPT !.keys = ks, !.want = ks, !.pc = l]
  <1>1. call' = [call EXCEPT ![s] = c]
    OBVIOUS
  <1>2. /\ c.keys = ks /\ c.want = ks /\ c.pc = l
        /\ c.kind = call[s].kind /\ c.bucket = call[s].bucket /\ c.doc = call[s].doc
        /\ c.match = call[s].match /\ c.principal = call[s].principal /\ c.key = call[s].key
        /\ c.old = call[s].old /\ c.aff = call[s].aff /\ c.fresh = call[s].fresh
        /\ c.snap = call[s].snap
    BY CallTyped DEF CallRecords
  <1>. HIDE DEF c
  <1>3. CallStep(s) /\ call'[s] = c
    BY <1>1, SetMoves
  <1>4. QED
    BY <1>2, <1>3 DEF SameWork, SameCore, SameKey, SameWant, SameOld, SameAff, SameKeys, SameFresh,
                      SameSnap

LEMMA SetKeysOnly ==
    ASSUME TypeOK, NEW s \in Procs, NEW ks, NEW l,
           call' = [call EXCEPT ![s].keys = ks, ![s].pc = l]
    PROVE  /\ CallStep(s) /\ call'[s].keys = ks /\ call'[s].pc = l
           /\ SameCore(s) /\ SameKey(s) /\ SameOld(s) /\ SameAff(s) /\ SameFresh(s) /\ SameSnap(s) /\ SameWant(s)
  <1>. DEFINE c == [call[s] EXCEPT !.keys = ks, !.pc = l]
  <1>1. call' = [call EXCEPT ![s] = c]
    OBVIOUS
  <1>2. /\ c.keys = ks /\ c.pc = l /\ c.kind = call[s].kind
        /\ c.bucket = call[s].bucket /\ c.doc = call[s].doc /\ c.match = call[s].match
        /\ c.principal = call[s].principal /\ c.key = call[s].key /\ c.old = call[s].old
        /\ c.aff = call[s].aff /\ c.fresh = call[s].fresh /\ c.snap = call[s].snap
        /\ c.want = call[s].want
    BY CallTyped DEF CallRecords
  <1>. HIDE DEF c
  <1>3. CallStep(s) /\ call'[s] = c
    BY <1>1, SetMoves
  <1>4. QED
    BY <1>2, <1>3 DEF SameWork, SameCore, SameKey, SameWant, SameOld, SameAff, SameKeys, SameFresh,
                      SameSnap

LEMMA SetFresh ==
    ASSUME TypeOK, NEW s \in Procs, NEW ks, NEW l,
           call' = [call EXCEPT ![s].fresh = ks, ![s].pc = l]
    PROVE  /\ CallStep(s) /\ call'[s].fresh = ks /\ call'[s].pc = l
           /\ SameCore(s) /\ SameKey(s) /\ SameOld(s) /\ SameAff(s) /\ SameKeys(s) /\ SameSnap(s) /\ SameWant(s)
  <1>. DEFINE c == [call[s] EXCEPT !.fresh = ks, !.pc = l]
  <1>1. call' = [call EXCEPT ![s] = c]
    OBVIOUS
  <1>2. /\ c.fresh = ks /\ c.pc = l /\ c.kind = call[s].kind
        /\ c.bucket = call[s].bucket /\ c.doc = call[s].doc /\ c.match = call[s].match
        /\ c.principal = call[s].principal /\ c.key = call[s].key /\ c.old = call[s].old
        /\ c.aff = call[s].aff /\ c.keys = call[s].keys /\ c.snap = call[s].snap
        /\ c.want = call[s].want
    BY CallTyped DEF CallRecords
  <1>. HIDE DEF c
  <1>3. CallStep(s) /\ call'[s] = c
    BY <1>1, SetMoves
  <1>4. QED
    BY <1>2, <1>3 DEF SameWork, SameCore, SameKey, SameWant, SameOld, SameAff, SameKeys, SameFresh,
                      SameSnap

LEMMA SetListed ==
    ASSUME TypeOK, NEW s \in Procs, NEW t, NEW d, NEW l,
           call' = [call EXCEPT ![s].todo = t, ![s].snap = d, ![s].pc = l]
    PROVE  /\ CallStep(s) /\ call'[s].snap = d /\ call'[s].pc = l
           /\ SameCore(s) /\ SameKey(s) /\ SameOld(s) /\ SameAff(s) /\ SameKeys(s) /\ SameFresh(s) /\ SameWant(s)
  <1>. DEFINE c == [call[s] EXCEPT !.todo = t, !.snap = d, !.pc = l]
  <1>1. call' = [call EXCEPT ![s] = c]
    OBVIOUS
  <1>2. /\ c.snap = d /\ c.pc = l /\ c.kind = call[s].kind
        /\ c.bucket = call[s].bucket /\ c.doc = call[s].doc /\ c.match = call[s].match
        /\ c.principal = call[s].principal /\ c.key = call[s].key /\ c.old = call[s].old
        /\ c.aff = call[s].aff /\ c.keys = call[s].keys /\ c.fresh = call[s].fresh
        /\ c.want = call[s].want
    BY CallTyped DEF CallRecords
  <1>. HIDE DEF c
  <1>3. CallStep(s) /\ call'[s] = c
    BY <1>1, SetMoves
  <1>4. QED
    BY <1>2, <1>3 DEF SameWork, SameCore, SameKey, SameWant, SameOld, SameAff, SameKeys, SameFresh,
                      SameSnap

LEMMA SetKey ==
    ASSUME TypeOK, NEW s \in Procs, NEW k, NEW l,
           call' = [call EXCEPT ![s].key = k, ![s].pc = l]
    PROVE  /\ CallStep(s) /\ call'[s].key = k /\ call'[s].pc = l
           /\ SameCore(s) /\ SameOld(s) /\ SameAff(s) /\ SameKeys(s) /\ SameFresh(s) /\ SameSnap(s) /\ SameWant(s)
  <1>. DEFINE c == [call[s] EXCEPT !.key = k, !.pc = l]
  <1>1. call' = [call EXCEPT ![s] = c]
    OBVIOUS
  <1>2. /\ c.key = k /\ c.pc = l /\ c.kind = call[s].kind
        /\ c.bucket = call[s].bucket /\ c.doc = call[s].doc /\ c.match = call[s].match
        /\ c.principal = call[s].principal /\ c.old = call[s].old /\ c.aff = call[s].aff
        /\ c.keys = call[s].keys /\ c.fresh = call[s].fresh /\ c.snap = call[s].snap
        /\ c.want = call[s].want
    BY CallTyped DEF CallRecords
  <1>. HIDE DEF c
  <1>3. CallStep(s) /\ call'[s] = c
    BY <1>1, SetMoves
  <1>4. QED
    BY <1>2, <1>3 DEF SameWork, SameCore, SameKey, SameWant, SameOld, SameAff, SameKeys, SameFresh,
                      SameSnap

LEMMA SetRead ==
    ASSUME TypeOK, NEW s \in Procs, NEW w, NEW d, NEW l,
           call' = [call EXCEPT ![s].want = w, ![s].snap = d, ![s].pc = l]
    PROVE  /\ CallStep(s) /\ call'[s].want = w /\ call'[s].snap = d /\ call'[s].pc = l
           /\ SameCore(s) /\ SameKey(s) /\ SameOld(s) /\ SameAff(s) /\ SameKeys(s) /\ SameFresh(s)
  <1>. DEFINE c == [call[s] EXCEPT !.want = w, !.snap = d, !.pc = l]
  <1>1. call' = [call EXCEPT ![s] = c]
    OBVIOUS
  <1>2. /\ c.want = w /\ c.snap = d /\ c.pc = l
        /\ c.kind = call[s].kind /\ c.bucket = call[s].bucket /\ c.doc = call[s].doc
        /\ c.match = call[s].match /\ c.principal = call[s].principal /\ c.key = call[s].key
        /\ c.old = call[s].old /\ c.aff = call[s].aff /\ c.keys = call[s].keys
        /\ c.fresh = call[s].fresh
    BY CallTyped DEF CallRecords
  <1>. HIDE DEF c
  <1>3. CallStep(s) /\ call'[s] = c
    BY <1>1, SetMoves
  <1>4. QED
    BY <1>2, <1>3 DEF SameWork, SameCore, SameKey, SameWant, SameOld, SameAff, SameKeys, SameFresh,
                      SameSnap

LEMMA SetUndo ==
    ASSUME TypeOK, NEW s \in Procs, NEW l, NEW r,
           call' = [call EXCEPT ![s].pc = l, ![s].res = r]
    PROVE  /\ CallStep(s) /\ call'[s].pc = l
           /\ SameWork(s) /\ SameWant(s)
  <1>. DEFINE c == [call[s] EXCEPT !.pc = l, !.res = r]
  <1>1. call' = [call EXCEPT ![s] = c]
    OBVIOUS
  <1>2. /\ c.pc = l /\ c.kind = call[s].kind /\ c.bucket = call[s].bucket
        /\ c.doc = call[s].doc /\ c.match = call[s].match /\ c.principal = call[s].principal
        /\ c.key = call[s].key /\ c.old = call[s].old /\ c.aff = call[s].aff
        /\ c.keys = call[s].keys /\ c.fresh = call[s].fresh /\ c.snap = call[s].snap
        /\ c.want = call[s].want
    BY CallTyped DEF CallRecords
  <1>. HIDE DEF c
  <1>3. CallStep(s) /\ call'[s] = c
    BY <1>1, SetMoves
  <1>4. QED
    BY <1>2, <1>3 DEF SameWork, SameCore, SameKey, SameWant, SameOld, SameAff, SameKeys, SameFresh,
                      SameSnap

LEMMA GotoSets ==
    ASSUME TypeOK, NEW s \in Procs, NEW l, Goto(s, l)
    PROVE  CallStep(s) /\ call'[s].pc = l /\ SameWork(s) /\ SameWant(s)
  BY SetPc DEF Goto

LEMMA LoopedSets ==
    ASSUME TypeOK, NEW s \in Procs, NEW x, NEW here, NEW next, call' = Looped(s, x, here, next)
    PROVE  /\ CallStep(s) /\ SameWork(s) /\ call'[s].want = call[s].want \ {x}
           /\ call'[s].pc = IF call[s].want = {x} THEN next ELSE here
  <1>. DEFINE l == IF call[s].want = {x} THEN next ELSE here
              w == call[s].want \ {x}
  <1>1. call' = [call EXCEPT ![s].want = w, ![s].pc = l]
    BY DEF Looped
  <1>. HIDE DEF w, l
  <1>2. CallStep(s) /\ SameWork(s) /\ call'[s].want = w /\ call'[s].pc = l
    BY <1>1, SetWant
  <1>3. QED
    BY <1>2 DEF w, l

LEMMA FinishSets ==
    ASSUME TypeOK, NEW s \in Procs, NEW res, Finish(s, res)
    PROVE  CallStep(s) /\ call'[s] = Idle(res)
  BY SetMoves DEF Finish

\* A failing call ends, or is a key creation that turns back.
LEMMA FailSets ==
    ASSUME TypeOK, NEW s \in Procs, NEW err, Fail(s, err)
    PROVE  /\ CallStep(s) /\ Release(s)
           /\ \/ call'[s] = Idle(Outcome(s, err))
              \/ /\ call[s].kind = "createKey" /\ call[s].key # None
                 /\ call'[s].pc = "rbGrants" /\ SameWork(s)
  <1>1. Release(s)
    BY DEF Fail
  <1>. DEFINE r == Outcome(s, err)
  <1>2. CASE call[s].kind = "createKey" /\ call[s].key # None
    <2>1. call' = [call EXCEPT ![s].pc = "rbGrants", ![s].res = r]
      BY <1>2 DEF Fail
    <2>. HIDE DEF r
    <2>2. QED
      BY <1>1, <1>2, <2>1, SetUndo
  <1>3. CASE ~(call[s].kind = "createKey" /\ call[s].key # None)
    <2>1. Finish(s, r)
      BY <1>3 DEF Fail
    <2>2. QED
      BY <1>1, <2>1, FinishSets
  <1>4. QED
    BY <1>2, <1>3

LEMMA AudienceSets ==
    ASSUME AccessInv, NEW s \in Procs, NEW here, NEW next, LockAudiences(s, here, next)
    PROVE  /\ CallStep(s) /\ LockStep(s) /\ UNCHANGED tables /\ locks \subseteq locks'
           /\ SameWork(s) /\ call'[s].pc \in {here, next}
           /\ \E k \in Keys : /\ call'[s].want = call[s].want \ {k}
                              /\ call'[s].pc = IF call[s].want = {k} THEN next ELSE here
                              /\ [by |-> s, on |-> <<"audience", k>>, mode |-> "exclusive"] \in locks'
  <1>1. PICK k \in Keys : /\ Take(s, <<"audience", k>>, "exclusive")
                          /\ call' = Looped(s, k, here, next)
    BY DEF LockAudiences
  <1>2. UNCHANGED tables
    BY DEF LockAudiences
  <1>3. /\ LockStep(s) /\ locks \subseteq locks'
        /\ [by |-> s, on |-> <<"audience", k>>, mode |-> "exclusive"] \in locks'
    BY <1>1, TakeLocks
  <1>4. /\ CallStep(s) /\ SameWork(s) /\ call'[s].want = call[s].want \ {k}
        /\ call'[s].pc = IF call[s].want = {k} THEN next ELSE here
    BY <1>1, LoopedSets DEF AccessInv
  <1>5. QED
    BY <1>2, <1>3, <1>4

-----------------------------------------------------------------------------
(***************************************************************************)
(* A step of s and the other handlers' part of the invariant.              *)
(***************************************************************************)
\* Policy rows change under the bucket's exclusive lock.
Guarded(s) == \A b \in Buckets : policy'[b] = policy[b]
                                 \/ Has(s, <<"bucket", b>>, "exclusive")

WriteStep(s) == Writes(s)' /\ CallStep(s) /\ LockStep(s) /\ Guarded(s)

LEMMA OthersWrite ==
    ASSUME AccessInv, WriteInv, NEW s \in Procs, CallStep(s), LockStep(s), Guarded(s),
           NEW t \in Procs, t # s
    PROVE  Writes(t)'
  <1>1. call'[t] = call[t]
    BY DEF CallStep
  <1>2. ASSUME NEW res, NEW m, Has(t, res, m) PROVE Has(t, res, m)'
    BY <1>2, HasElsewhere DEF AccessInv, Has
  <1>3. ByKind(t)' /\ StripsListed(t)'
    BY <1>1 DEF WriteInv, Writes, ByKind, StripsListed, Strips, keyOf, bucketOf, docOf,
                principalOf
  <1>4. HoldsBucket(t)'
    BY <1>1, <1>2 DEF WriteInv, Writes, HoldsBucket, bucketOf
  <1>5. HoldsTenant(t)'
    BY <1>1, <1>2 DEF WriteInv, Writes, HoldsTenant, docOf
  <1>6. CASE call[t].pc \in PastRow
    <2>1. bucketOf(t) \in Buckets
      BY <1>6, CallTyped DEF AccessInv, PastRow, Rotating, Aimed, OfBucket, bucketOf
    <2>2. Has(t, <<"bucket", bucketOf(t)>>, "exclusive")
      BY <1>6 DEF WriteInv, Writes, HoldsBucket, OnBucket
    <2>3. policy'[bucketOf(t)] = policy[bucketOf(t)]
      BY <2>1, <2>2, HasExcludes, ExclusivePairs DEF Guarded
    <2>4. HoldsPolicy(t)'
      BY <1>1, <1>2, <1>6, <2>3 DEF WriteInv, Writes, HoldsPolicy, bucketOf, docOf
    <2>5. QED
      BY <1>3, <1>4, <1>5, <2>4 DEF Writes
  <1>7. CASE call[t].pc \notin PastRow
    BY <1>1, <1>3, <1>4, <1>5, <1>7 DEF Writes, HoldsPolicy
  <1>8. QED
    BY <1>6, <1>7

LEMMA WriteStepKeeps ==
    ASSUME AccessInv, WriteInv, NEW s \in Procs, WriteStep(s)
    PROVE  WriteInv'
  BY OthersWrite DEF WriteInv, WriteStep

-----------------------------------------------------------------------------
(***************************************************************************)
(* A step of s and its own part.                                           *)
(***************************************************************************)
\* At these labels the invariant asks nothing.
Plain == Labels \ (Creating \cup Starting \cup Preparing \cup OnBucket \cup OnKey
                   \cup {"addRow", "stripList", "strip"})

LEMMA PlainWrites ==
    ASSUME NEW s, call'[s].pc \in Plain, call'[s].kind # "createKey"
    PROVE  Writes(s)'
  BY DEF Plain, Writes, ByKind, HoldsBucket, HoldsTenant, HoldsPolicy, StripsListed,
         Starting, Undoing, Creating, Preparing, Rotating, PastRow, OnBucket, OnKey

LEMMA EndWrites ==
    ASSUME NEW s, NEW res, call'[s] = Idle(res)
    PROVE  Writes(s)'
  <1>1. call'[s].pc = "idle" /\ call'[s].kind = "none"
    BY DEF Idle
  <1>2. QED
    BY <1>1, PlainWrites DEF Plain, Labels, Starting, Undoing, Creating, Preparing, Rotating,
                             PastRow, OnBucket, OnKey

LEMMA FailWrites ==
    ASSUME AccessInv, WriteInv, NEW s \in Procs, NEW err, Fail(s, err), UNCHANGED policy
    PROVE  WriteStep(s)
  <1>1. /\ CallStep(s) /\ Release(s)
        /\ \/ call'[s] = Idle(Outcome(s, err))
           \/ /\ call[s].kind = "createKey" /\ call[s].key # None
              /\ call'[s].pc = "rbGrants" /\ SameWork(s)
    BY FailSets DEF AccessInv
  <1>2. LockStep(s)
    BY <1>1, ReleaseLocks
  <1>3. CASE /\ call[s].kind = "createKey" /\ call[s].key # None
             /\ call'[s].pc = "rbGrants" /\ SameWork(s)
    <2>1. call'[s].kind = "createKey"
      BY <1>3 DEF SameWork, SameCore
    <2>2. Writes(s)'
      BY <1>3, <2>1 DEF Writes, ByKind, HoldsBucket, HoldsTenant, HoldsPolicy, StripsListed,
         Strips, Starting, Undoing, Creating, Preparing, Rotating, PastRow, OnBucket, OnKey
    <2>3. QED
      BY <1>1, <1>2, <2>2 DEF WriteStep, Guarded
  <1>4. QED
    BY <1>1, <1>2, <1>3, EndWrites DEF WriteStep, Guarded

\* The call goes on to a plain label.
LEMMA PlainStep ==
    ASSUME AccessInv, WriteInv, NEW s \in Procs, CallStep(s), LockStep(s), UNCHANGED policy,
           call'[s].pc \in Plain, call'[s].kind # "createKey"
    PROVE  WriteStep(s)
  BY PlainWrites DEF WriteStep, Guarded


\* The callback of a write goes on, with the locks it has and perhaps more.
LEMMA RotatingStep ==
    ASSUME AccessInv, WriteInv, NEW s \in Procs, call[s].pc \in Rotating,
           call'[s].pc \in (Rotating \cup {"commit"}) \ {"relist"},
           CallStep(s), LockStep(s), UNCHANGED policy, locks \subseteq locks',
           SameCore(s), SameKey(s), SameOld(s), SameSnap(s),
           call'[s].pc \in {"lockP", "load"} => call'[s].keys = {}
    PROVE  WriteStep(s)
  <1>. USE DEF Starting, Undoing, Creating, Preparing, Rotating, PastRow, OnBucket, OnKey
  <1>1. Writes(s) /\ ~Strips(s)
    BY DEF WriteInv, Writes, ByKind
  <1>2. Writes(s)'
    BY <1>1
       DEF Writes, ByKind, HoldsBucket, HoldsTenant, HoldsPolicy, StripsListed,
           Strips, Has, docOf, bucketOf, principalOf, SameCore, SameKey, SameOld, SameSnap
  <1>3. QED
    BY <1>2 DEF WriteStep, Guarded

-----------------------------------------------------------------------------
(***************************************************************************)
(* The steps of each service.                                              *)
(***************************************************************************)
LEMMA PolicyWrites ==
    ASSUME AccessInv, WriteInv, NEW s \in Procs, PolicyStep(s)
    PROVE  WriteStep(s)
  <1>. USE DEF At, Starting, Undoing, Creating, Preparing, Rotating, PastRow, OnBucket, OnKey
  <1>c. TypeOK /\ call[s] \in CallRecords /\ Aimed(call[s])
    BY CallTyped DEF AccessInv
  <1>w. Writes(s)
    BY DEF WriteInv
  <1>1. CASE BeginWrite(s)
    <2>1. PICK b \in buckets, d \in Docs, m \in Conds :
            \/ call' = [call EXCEPT ![s] = [Idle("answered") EXCEPT
                            !.pc = "tenant", !.kind = "writePolicy",
                            !.bucket = b, !.doc = d, !.match = m]]
            \/ Finish(s, "answered")
      BY <1>1 DEF BeginWrite
    <2>. DEFINE c == [Idle("answered") EXCEPT !.pc = "tenant", !.kind = "writePolicy",
                        !.bucket = b, !.doc = d, !.match = m]
    <2>2. c.pc = "tenant" /\ c.kind = "writePolicy" /\ c.keys = {}
      BY DEF Idle
    <2>3. call' = [call EXCEPT ![s] = c] \/ Finish(s, "answered")
      BY <2>1
    <2>. HIDE DEF c
    <2>4. LockStep(s) /\ UNCHANGED policy
      BY <1>1, KeepLocks DEF BeginWrite, tables
    <2>5. CASE call' = [call EXCEPT ![s] = c]
      <3>1. CallStep(s) /\ call'[s] = c
        BY <1>c, <2>5, SetMoves
      <3>2. Writes(s)'
        BY <2>2, <3>1 DEF Writes, ByKind, HoldsBucket, HoldsTenant, HoldsPolicy, StripsListed,
                          Strips
      <3>3. QED
        BY <2>4, <3>1, <3>2 DEF WriteStep, Guarded
    <2>6. CASE Finish(s, "answered")
      BY <1>c, <2>4, <2>6, FinishSets, EndWrites DEF WriteStep, Guarded
    <2>7. QED
      BY <2>3, <2>5, <2>6
  <1>2. CASE BeginRemove(s)
    <2>1. PICK b \in buckets, m \in Conds :
            call' = [call EXCEPT ![s] = [Idle("answered") EXCEPT
                       !.pc = "bucket", !.kind = "removePolicy",
                       !.bucket = b, !.doc = NoPolicy, !.match = m]]
      BY <1>2 DEF BeginRemove
    <2>. DEFINE c == [Idle("answered") EXCEPT !.pc = "bucket", !.kind = "removePolicy",
                        !.bucket = b, !.doc = NoPolicy, !.match = m]
    <2>2. c.pc = "bucket" /\ c.kind = "removePolicy" /\ c.doc = NoPolicy /\ c.keys = {}
      BY DEF Idle
    <2>. HIDE DEF c
    <2>3. CallStep(s) /\ call'[s] = c
      BY <1>c, <2>1, SetMoves DEF c
    <2>4. LockStep(s) /\ UNCHANGED policy
      BY <1>2, KeepLocks DEF BeginRemove, tables
    <2>5. Writes(s)'
      BY <2>2, <2>3 DEF Writes, ByKind, HoldsBucket, HoldsTenant, HoldsPolicy, StripsListed,
                        Strips, docOf
    <2>6. QED
      BY <2>3, <2>4, <2>5 DEF WriteStep, Guarded
  <1>3. CASE TakeTenant(s)
    <2>. DEFINE W == Named(docOf(s))
                l == IF W = {} THEN "bucket" ELSE "named"
    <2>1. call' = [call EXCEPT ![s].want = W, ![s].pc = l]
      BY <1>3 DEF TakeTenant
    <2>2. l \in {"bucket", "named"}
      OBVIOUS
    <2>. HIDE DEF W, l
    <2>3. CallStep(s) /\ SameWork(s) /\ call'[s].pc \in {"bucket", "named"}
      BY <1>c, <2>1, <2>2, SetWant
    <2>4. /\ LockStep(s) /\ UNCHANGED policy
          /\ [by |-> s, on |-> <<"tenant", None>>, mode |-> "shared"] \in locks'
      BY <1>3, TakeLocks DEF TakeTenant, tables
    <2>5. Writes(s)'
      BY <1>3, <1>w, <2>3, <2>4
         DEF TakeTenant, Writes, ByKind, HoldsBucket, HoldsTenant, HoldsPolicy, StripsListed,
             Strips, Has, docOf, bucketOf, principalOf, SameWork, SameCore, SameKey, SameKeys,
             SameSnap
    <2>6. QED
      BY <2>3, <2>4, <2>5 DEF WriteStep, Guarded
  <1>4. CASE RequireLive(s)
    <2>1. PICK p \in call[s].want :
            \/ Fail(s, "invalid")
            \/ Take(s, <<"principal", p>>, "KEY SHARE") /\ call' = Looped(s, p, "named", "bucket")
      BY <1>4 DEF RequireLive
    <2>2. UNCHANGED policy /\ call[s].pc = "named"
      BY <1>4 DEF RequireLive, tables
    <2>3. CASE Fail(s, "invalid")
      BY <2>2, <2>3, FailWrites
    <2>4. CASE Take(s, <<"principal", p>>, "KEY SHARE") /\ call' = Looped(s, p, "named", "bucket")
      <3>1. CallStep(s) /\ SameWork(s) /\ call'[s].pc \in {"named", "bucket"}
        BY <1>c, <2>4, LoopedSets
      <3>2. LockStep(s) /\ locks \subseteq locks'
        BY <2>4, TakeLocks
      <3>3. Writes(s)'
        BY <1>w, <2>2, <3>1, <3>2
           DEF Writes, ByKind, HoldsBucket, HoldsTenant, HoldsPolicy, StripsListed,
               Strips, Has, docOf, bucketOf, principalOf, SameWork, SameCore, SameKey, SameKeys,
               SameSnap
      <3>4. QED
        BY <2>2, <3>1, <3>2, <3>3 DEF WriteStep, Guarded
    <2>5. QED
      BY <2>1, <2>3, <2>4
  <1>5. CASE TakeBucket(s)
    <2>1. UNCHANGED policy /\ call[s].pc = "bucket"
      BY <1>5 DEF TakeBucket, tables
    <2>2. CallStep(s) /\ SameWork(s) /\ call'[s].pc \in {"row", "bucketRow"}
      BY <1>5, <1>c, GotoSets DEF TakeBucket
    <2>3. /\ LockStep(s) /\ locks \subseteq locks'
          /\ [by |-> s, on |-> <<"bucket", bucketOf(s)>>, mode |-> "exclusive"] \in locks'
      BY <1>5, TakeLocks DEF TakeBucket
    <2>4. Writes(s)'
      BY <1>w, <2>1, <2>2, <2>3
         DEF Writes, ByKind, HoldsBucket, HoldsTenant, HoldsPolicy, StripsListed,
             Strips, Has, docOf, bucketOf, principalOf, SameWork, SameCore, SameKey, SameKeys,
             SameSnap
    <2>5. QED
      BY <2>1, <2>2, <2>3, <2>4 DEF WriteStep, Guarded
  <1>6. CASE TakeBucketRow(s)
    <2>1. UNCHANGED policy /\ call[s].pc = "bucketRow"
      BY <1>6 DEF TakeBucketRow, tables
    <2>2. CASE Fail(s, "notfound")
      BY <2>1, <2>2, FailWrites
    <2>3. CASE Take(s, <<"bucketRow", bucketOf(s)>>, "KEY SHARE") /\ Goto(s, "row")
      <3>1. CallStep(s) /\ SameWork(s) /\ call'[s].pc = "row"
        BY <2>3, <1>c, GotoSets
      <3>2. LockStep(s) /\ locks \subseteq locks'
        BY <2>3, TakeLocks
      <3>3. Writes(s)'
        BY <1>w, <2>1, <3>1, <3>2
           DEF Writes, ByKind, HoldsBucket, HoldsTenant, HoldsPolicy, StripsListed,
               Strips, Has, docOf, bucketOf, principalOf, SameWork, SameCore, SameKey, SameKeys,
               SameSnap
      <3>4. QED
        BY <2>1, <3>1, <3>2, <3>3 DEF WriteStep, Guarded
    <2>4. QED
      BY <1>6, <2>2, <2>3 DEF TakeBucketRow
  <1>7. CASE LockRow(s)
    <2>. DEFINE row == <<"policyRow", bucketOf(s)>>
                old == policy[bucketOf(s)]
                l == IF call[s].kind = "removePrincipal" THEN "commit" ELSE "relist"
                err == Refusal(s, old)
    <2>1. UNCHANGED policy /\ call[s].pc = "row"
      BY <1>7 DEF LockRow, tables
    <2>2. \/ Release(s) /\ Goto(s, "strip")
          \/ Fail(s, err)
          \/ /\ err = "none"
             /\ \/ old = NoPolicy /\ UNCHANGED locks
                \/ Take(s, row, "UPDATE")
             /\ call' = [call EXCEPT ![s].old = old, ![s].pc = l]
      BY <1>7 DEF LockRow, Take
    <2>3. CASE Release(s) /\ Goto(s, "strip")
      <3>1. CallStep(s) /\ SameWork(s) /\ call'[s].pc = "strip"
        BY <1>c, <2>3, GotoSets
      <3>2. LockStep(s)
        BY <2>3, ReleaseLocks
      <3>3. Writes(s)'
        BY <1>w, <2>1, <3>1
           DEF Writes, ByKind, HoldsBucket, HoldsTenant, HoldsPolicy, StripsListed,
               Strips, SameWork, SameCore, SameKey, SameKeys
      <3>4. QED
        BY <2>1, <3>1, <3>2, <3>3 DEF WriteStep, Guarded
    <2>4. CASE Fail(s, err)
      BY <2>1, <2>4, FailWrites
    <2>5. CASE /\ err = "none"
               /\ \/ old = NoPolicy /\ UNCHANGED locks
                  \/ Take(s, row, "UPDATE")
               /\ call' = [call EXCEPT ![s].old = old, ![s].pc = l]
      <3>1. /\ CheckPrecondition(old, call[s].match)
            /\ ~(docOf(s) = NoPolicy /\ old = NoPolicy)
        BY <2>5 DEF Refusal
      <3>2. /\ LockStep(s) /\ locks \subseteq locks'
            /\ old # NoPolicy => [by |-> s, on |-> row, mode |-> "UPDATE"] \in locks'
        BY <2>5, KeepLocks, TakeLocks
      <3>3. l \in {"commit", "relist"} /\ (l = "commit" <=> Strips(s))
        BY DEF Strips
      <3>. HIDE DEF old, l
      <3>4. /\ CallStep(s) /\ SameCore(s) /\ SameKey(s) /\ SameKeys(s) /\ SameSnap(s)
            /\ call'[s].old = old /\ call'[s].pc = l
        BY <1>c, <2>5, SetOld
      <3>5. ByKind(s)' /\ HoldsBucket(s)' /\ HoldsTenant(s)' /\ StripsListed(s)'
        BY <1>w, <2>1, <3>2, <3>3, <3>4
           DEF Writes, ByKind, HoldsBucket, HoldsTenant, StripsListed,
               Strips, Has, docOf, bucketOf, principalOf, SameCore, SameKey, SameKeys, SameSnap
      <3>6. HoldsPolicy(s)'
        BY <2>1, <3>1, <3>2, <3>4 DEF HoldsPolicy, Has, docOf, bucketOf, SameCore, old
      <3>7. QED
        BY <2>1, <3>2, <3>4, <3>5, <3>6 DEF WriteStep, Writes, Guarded
    <2>6. QED
      BY <2>2, <2>3, <2>4, <2>5
  <1>8. CASE Relist(s)
    <2>. DEFINE aff == Changed(call[s].old, docOf(s), ListIDsByTenant)
                l == IF aff = {} THEN "commit" ELSE "lockP"
    <2>1. UNCHANGED policy /\ call[s].pc = "relist"
      BY <1>8 DEF Relist, tables
    <2>2. \/ Fail(s, "invalid")
          \/ call' = [call EXCEPT ![s].aff = aff, ![s].want = aff, ![s].pc = l] /\ UNCHANGED locks
      BY <1>8 DEF Relist
    <2>3. CASE call' = [call EXCEPT ![s].aff = aff, ![s].want = aff, ![s].pc = l]
               /\ UNCHANGED locks
      <3>1. l \in {"commit", "lockP"}
        OBVIOUS
      <3>. HIDE DEF aff, l
      <3>2. /\ CallStep(s) /\ SameCore(s) /\ SameKey(s) /\ SameOld(s) /\ SameKeys(s)
            /\ SameSnap(s) /\ call'[s].pc = l
        BY <1>c, <2>3, SetAff
      <3>3. LockStep(s) /\ locks \subseteq locks'
        BY <2>3, KeepLocks
      <3>4. call'[s].keys = {}
        BY <1>w, <2>1, <3>2 DEF Writes, ByKind, SameKeys
      <3>5. QED
        BY <2>1, <3>1, <3>2, <3>3, <3>4, RotatingStep
    <2>4. QED
      BY <2>1, <2>2, <2>3, FailWrites
  <1>9. CASE LockPrincipals(s)
    <2>1. UNCHANGED policy /\ call[s].pc = "lockP"
      BY <1>9 DEF LockPrincipals, tables
    <2>2. PICK p \in Principals :
            /\ Take(s, <<"principal", p>>, "NO KEY UPDATE") \/ UNCHANGED locks
            /\ call' = Looped(s, p, "lockP", "load")
      BY <1>9 DEF LockPrincipals
    <2>3. LockStep(s) /\ locks \subseteq locks'
      BY <2>2, KeepLocks, TakeLocks
    <2>4. CallStep(s) /\ SameWork(s) /\ call'[s].pc \in {"lockP", "load"}
      <3>1. call' = Looped(s, p, "lockP", "load")
        BY <2>2
      <3>2. QED
        BY <1>c, <3>1, LoopedSets
    <2>5. call'[s].keys = {}
      BY <1>w, <2>1, <2>4 DEF Writes, ByKind, SameWork, SameKeys
    <2>6. QED
      BY <2>1, <2>3, <2>4, <2>5, RotatingStep DEF SameWork
  <1>10. CASE Load(s)
    <2>. DEFINE ks == KeysOf(call[s].aff)
                l == IF ks = {} THEN "commit" ELSE "lockK"
    <2>1. /\ UNCHANGED policy /\ call[s].pc = "load" /\ UNCHANGED locks
          /\ call' = [call EXCEPT ![s].keys = ks, ![s].want = ks, ![s].pc = l]
      BY <1>10 DEF Load, tables
    <2>2. l \in {"commit", "lockK"}
      OBVIOUS
    <2>. HIDE DEF ks, l
    <2>3. /\ CallStep(s) /\ SameCore(s) /\ SameKey(s) /\ SameOld(s) /\ SameSnap(s)
          /\ call'[s].pc = l
      BY <1>c, <2>1, SetKeys, ZenonT(60)
    <2>4. LockStep(s) /\ locks \subseteq locks'
      BY <2>1, KeepLocks
    <2>5. QED
      BY <2>1, <2>2, <2>3, <2>4, RotatingStep
  <1>11. CASE LockRotated(s)
    <2>1. /\ CallStep(s) /\ LockStep(s) /\ UNCHANGED policy /\ locks \subseteq locks'
          /\ call'[s].pc \in {"lockK", "publish"} /\ SameWork(s)
      BY <1>11, AudienceSets DEF LockRotated, tables
    <2>2. call[s].pc = "lockK"
      BY <1>11 DEF LockRotated, LockAudiences
    <2>3. QED
      BY <2>1, <2>2, RotatingStep DEF SameWork
  <1>12. CASE Rotate(s)
    <2>. DEFINE ks == call[s].keys \cap keyRow
    <2>1. UNCHANGED policy /\ call[s].pc = "publish"
      BY <1>12 DEF Rotate
    <2>2. \/ call' = [call EXCEPT ![s].fresh = ks, ![s].pc = "commit"] /\ UNCHANGED locks
          \/ Fail(s, "error")
      BY <1>12 DEF Rotate, PublishRevocations
    <2>3. CASE call' = [call EXCEPT ![s].fresh = ks, ![s].pc = "commit"] /\ UNCHANGED locks
      <3>. HIDE DEF ks
      <3>1. /\ CallStep(s) /\ SameCore(s) /\ SameKey(s) /\ SameOld(s) /\ SameSnap(s)
            /\ call'[s].pc = "commit"
        BY <1>c, <2>3, SetFresh
      <3>2. LockStep(s) /\ locks \subseteq locks'
        BY <2>3, KeepLocks
      <3>3. QED
        BY <2>1, <3>1, <3>2, RotatingStep
    <2>4. QED
      BY <2>1, <2>2, <2>3, FailWrites
  <1>13. CASE Commit(s)
    <2>1. /\ call[s].pc = "commit" /\ LockStep(s)
          /\ \A b \in Buckets : policy'[b] = policy[b] \/ b = bucketOf(s)
      BY <1>13, <1>c, ReleaseLocks DEF Commit, TypeOK, TablesOK
    <2>2. Guarded(s)
      BY <1>w, <2>1 DEF Guarded, Writes, HoldsBucket
    <2>3. CASE Strips(s) /\ Goto(s, "strip")
      <3>1. CallStep(s) /\ SameWork(s) /\ call'[s].pc = "strip"
        BY <1>c, <2>3, GotoSets
      <3>2. Writes(s)'
        BY <1>w, <2>1, <2>3, <3>1
           DEF Writes, ByKind, HoldsBucket, HoldsTenant, HoldsPolicy, StripsListed,
               Strips, SameWork, SameCore, SameKey, SameKeys
      <3>3. QED
        BY <2>1, <2>2, <3>1, <3>2 DEF WriteStep
    <2>4. CASE Finish(s, "answered")
      BY <1>c, <2>1, <2>2, <2>4, FinishSets, EndWrites DEF WriteStep
    <2>5. QED
      BY <1>13, <2>3, <2>4 DEF Commit, Strips
  <1>14. QED
    BY <1>1, <1>2, <1>3, <1>4, <1>5, <1>6, <1>7, <1>8, <1>9, <1>10, <1>11, <1>12, <1>13
       DEF PolicyStep

LEMMA PrincipalWrites ==
    ASSUME AccessInv, WriteInv, NEW s \in Procs, PrincipalStep(s)
    PROVE  WriteStep(s)
  <1>. USE DEF At, Labels, Starting, Undoing, Creating, Preparing, Rotating, PastRow, OnBucket, OnKey,
               Plain
  <1>c. TypeOK /\ call[s] \in CallRecords /\ Aimed(call[s])
    BY CallTyped DEF AccessInv
  <1>w. Writes(s)
    BY DEF WriteInv
  <1>1. CASE BeginCreatePrincipal(s)
    <2>1. PICK p \in Principals :
            call' = [call EXCEPT ![s] = [Idle("answered") EXCEPT !.pc = "addTenant",
                        !.kind = "createPrincipal", !.principal = p]]
      BY <1>1 DEF BeginCreatePrincipal
    <2>. DEFINE c == [Idle("answered") EXCEPT !.pc = "addTenant",
                        !.kind = "createPrincipal", !.principal = p]
    <2>2. c.pc = "addTenant" /\ c.kind = "createPrincipal"
      BY DEF Idle
    <2>. HIDE DEF c
    <2>3. CallStep(s) /\ call'[s] = c
      BY <1>c, <2>1, SetMoves DEF c
    <2>4. LockStep(s) /\ UNCHANGED policy
      BY <1>1, KeepLocks DEF BeginCreatePrincipal, tables
    <2>5. QED
      BY <2>2, <2>3, <2>4, PlainStep
  <1>2. CASE AddTenant(s)
    <2>1. /\ LockStep(s) /\ UNCHANGED policy
          /\ [by |-> s, on |-> <<"tenant", None>>, mode |-> "exclusive"] \in locks'
      BY <1>2, TakeLocks DEF AddTenant, tables
    <2>2. CallStep(s) /\ SameWork(s) /\ call'[s].pc = "addRow"
      BY <1>2, <1>c, GotoSets DEF AddTenant
    <2>3. call'[s].kind # "createKey"
      BY <1>2, <1>w, <2>2 DEF AddTenant, Writes, ByKind, SameWork, SameCore
    <2>4. Writes(s)'
      BY <2>1, <2>2, <2>3 DEF Writes, ByKind, HoldsBucket, HoldsTenant, HoldsPolicy,
                              StripsListed, Has
    <2>5. QED
      BY <2>1, <2>2, <2>4 DEF WriteStep, Guarded
  <1>3. CASE AddRow(s)
    <2>1. LockStep(s) /\ UNCHANGED policy
      BY <1>3, ReleaseLocks DEF AddRow, tables
    <2>2. CallStep(s) /\ SameWork(s) /\ call'[s].pc = "addGet"
      BY <1>3, <1>c, GotoSets DEF AddRow
    <2>3. call'[s].kind # "createKey"
      BY <1>3, <1>w, <2>2 DEF AddRow, Writes, ByKind, SameWork, SameCore
    <2>4. QED
      BY <2>1, <2>2, <2>3, PlainStep
  <1>4. CASE AddGet(s)
    <2>1. LockStep(s) /\ UNCHANGED policy
      BY <1>4, KeepLocks DEF AddGet, tables
    <2>2. QED
      BY <1>4, <1>c, <2>1, FinishSets, EndWrites DEF AddGet, WriteStep, Guarded
  <1>5. CASE BeginDeletePrincipal(s)
    <2>1. PICK p \in Principals :
            call' = [call EXCEPT ![s] = [Idle("answered") EXCEPT !.pc = "rvLoad",
                        !.kind = "removePrincipal", !.principal = p]]
      BY <1>5 DEF BeginDeletePrincipal
    <2>. DEFINE c == [Idle("answered") EXCEPT !.pc = "rvLoad",
                        !.kind = "removePrincipal", !.principal = p]
    <2>2. c.pc = "rvLoad" /\ c.kind = "removePrincipal"
      BY DEF Idle
    <2>. HIDE DEF c
    <2>3. CallStep(s) /\ call'[s] = c
      BY <1>c, <2>1, SetMoves DEF c
    <2>4. LockStep(s) /\ UNCHANGED policy
      BY <1>5, KeepLocks DEF BeginDeletePrincipal, tables
    <2>5. QED
      BY <2>2, <2>3, <2>4, PlainStep
  <1>6. CASE RevokeLoad(s)
    <2>. DEFINE ks == KeysOf({principalOf(s)})
                l == IF ks = {} THEN "stripList" ELSE "rvLock"
    <2>1. /\ call' = [call EXCEPT ![s].keys = ks, ![s].want = ks, ![s].pc = l]
          /\ UNCHANGED <<policy, locks>>
      BY <1>6 DEF RevokeLoad, tables
    <2>2. l \in {"stripList", "rvLock"} /\ (l = "stripList" => ks = {})
      OBVIOUS
    <2>. HIDE DEF ks, l
    <2>3. CallStep(s) /\ SameCore(s) /\ call'[s].keys = ks /\ call'[s].pc = l
      BY <1>c, <2>1, SetKeys
    <2>4. LockStep(s)
      BY <2>1, KeepLocks
    <2>5. call'[s].kind # "createKey"
      BY <1>6, <1>w, <2>3 DEF RevokeLoad, Writes, ByKind, SameCore
    <2>6. Writes(s)'
      BY <2>2, <2>3, <2>5 DEF Writes, ByKind, HoldsBucket, HoldsTenant, HoldsPolicy, StripsListed
    <2>7. QED
      BY <2>1, <2>3, <2>4, <2>6 DEF WriteStep, Guarded
  <1>7. CASE RevokeLock(s)
    <2>1. /\ CallStep(s) /\ LockStep(s) /\ UNCHANGED policy /\ SameWork(s)
          /\ call'[s].pc \in {"rvLock", "rvPublish"} /\ call[s].pc = "rvLock"
      BY <1>7, AudienceSets DEF RevokeLock, LockAudiences, tables
    <2>2. call'[s].kind # "createKey"
      BY <1>w, <2>1 DEF Writes, ByKind, SameWork, SameCore
    <2>3. QED
      BY <2>1, <2>2, PlainStep
  <1>8. CASE RevokePublish(s)
    <2>1. \/ Goto(s, "rvCommit") /\ UNCHANGED locks
          \/ Fail(s, "error")
      BY <1>8 DEF RevokePublish, PublishRevocations
    <2>2. UNCHANGED policy
      BY <1>8 DEF RevokePublish
    <2>3. CASE Goto(s, "rvCommit") /\ UNCHANGED locks
      <3>1. CallStep(s) /\ SameWork(s) /\ call'[s].pc = "rvCommit"
        BY <1>c, <2>3, GotoSets
      <3>2. call'[s].kind # "createKey"
        BY <1>8, <1>w, <3>1 DEF RevokePublish, Writes, ByKind, SameWork, SameCore
      <3>3. QED
        BY <2>2, <2>3, <3>1, <3>2, KeepLocks, PlainStep
    <2>4. QED
      BY <2>1, <2>2, <2>3, FailWrites
  <1>9. CASE RevokeCommit(s)
    <2>1. LockStep(s) /\ UNCHANGED policy
      BY <1>9, ReleaseLocks DEF RevokeCommit
    <2>2. call' = [call EXCEPT ![s].keys = {}, ![s].pc = "stripList"]
      BY <1>9 DEF RevokeCommit
    <2>3. CallStep(s) /\ SameCore(s) /\ call'[s].keys = {} /\ call'[s].pc = "stripList"
      BY <1>c, <2>2, SetKeysOnly
    <2>4. Writes(s)'
      BY <1>9, <1>w, <2>3 DEF RevokeCommit, Writes, ByKind, HoldsBucket, HoldsTenant, HoldsPolicy,
                              StripsListed, SameCore
    <2>5. QED
      BY <2>1, <2>3, <2>4 DEF WriteStep, Guarded
  <1>10. CASE StripList(s)
    <2>. DEFINE bs == ListByPrincipal(principalOf(s))
    <2>1. LockStep(s) /\ UNCHANGED policy
      BY <1>10, KeepLocks DEF StripList, tables
    <2>2. call' = [call EXCEPT ![s].todo = bs, ![s].snap = policy, ![s].pc = "strip"]
      BY <1>10 DEF StripList
    <2>. HIDE DEF bs
    <2>3. CallStep(s) /\ SameCore(s) /\ SameKeys(s) /\ call'[s].pc = "strip"
      BY <1>c, <2>2, SetListed
    <2>4. Writes(s)'
      BY <1>10, <1>w, <2>3 DEF StripList, Writes, ByKind, HoldsBucket, HoldsTenant, HoldsPolicy,
                               StripsListed, SameCore, SameKeys
    <2>5. QED
      BY <2>1, <2>3, <2>4 DEF WriteStep, Guarded
  <1>11. CASE StripPolicy(s)
    <2>1. PICK b \in call[s].todo :
            LET old == call[s].snap[b]
                new == RemovePrincipal(old, principalOf(s))
            IN  call' = [call EXCEPT ![s].todo = @ \ {b}, ![s].bucket = b, ![s].doc = new,
                                     ![s].match = IfMatch(ETag(old)),
                                     ![s].pc = StripWrite(s, old, new)]
      BY <1>11 DEF StripPolicy
    <2>. DEFINE old == call[s].snap[b]
                new == RemovePrincipal(old, principalOf(s))
                l == StripWrite(s, old, new)
                m == IfMatch(ETag(old))
                t == call[s].todo \ {b}
    <2>. DEFINE c == [call[s] EXCEPT !.todo = t, !.bucket = b, !.doc = new, !.match = m, !.pc = l]
    <2>2. call' = [call EXCEPT ![s] = c]
      BY <2>1
    <2>3. l \in {"strip", "tenant"} \/ (l = "bucket" /\ new = NoPolicy)
      BY DEF StripWrite
    <2>. HIDE DEF t, l, new, m, old
    <2>a. /\ c.bucket = b /\ c.doc = new /\ c.match = m /\ c.pc = l
          /\ c.kind = call[s].kind /\ c.principal = call[s].principal
          /\ c.keys = call[s].keys /\ c.snap = call[s].snap
      BY <1>c DEF CallRecords
    <2>. HIDE DEF c
    <2>4. /\ CallStep(s) /\ call'[s].bucket = b /\ call'[s].doc = new
          /\ call'[s].match = m /\ call'[s].pc = l
          /\ call'[s].kind = call[s].kind /\ call'[s].principal = call[s].principal
          /\ SameKeys(s) /\ SameSnap(s)
      BY <1>c, <2>2, <2>a, SetMoves DEF SameKeys, SameSnap
    <2>5. LockStep(s) /\ UNCHANGED policy
      BY <1>11, KeepLocks DEF StripPolicy, tables
    <2>6. ByKind(s)' /\ HoldsBucket(s)' /\ HoldsTenant(s)' /\ HoldsPolicy(s)'
      BY <1>11, <1>w, <2>3, <2>4
         DEF StripPolicy, Writes, ByKind, HoldsBucket, HoldsTenant, HoldsPolicy, Strips, SameKeys,
             docOf
    <2>7. StripsListed(s)'
      BY <2>4 DEF StripsListed, SameSnap, docOf, bucketOf, principalOf, old, new, m
    <2>8. QED
      BY <2>4, <2>5, <2>6, <2>7 DEF WriteStep, Writes, Guarded
  <1>12. CASE StripDone(s)
    <2>1. LockStep(s) /\ UNCHANGED policy
      BY <1>12, KeepLocks DEF StripDone, tables
    <2>2. CallStep(s) /\ SameWork(s) /\ call'[s].pc = "tomb"
      BY <1>12, <1>c, GotoSets DEF StripDone
    <2>3. call'[s].kind # "createKey"
      BY <1>12, <1>w, <2>2 DEF StripDone, Writes, ByKind, SameWork, SameCore
    <2>4. QED
      BY <2>1, <2>2, <2>3, PlainStep
  <1>13. CASE Tombstone(s)
    <2>1. UNCHANGED policy /\ call[s].pc = "tomb"
      BY <1>13 DEF Tombstone, tables
    <2>2. \/ Finish(s, "answered") /\ UNCHANGED locks
          \/ Take(s, <<"principal", principalOf(s)>>, "UPDATE") /\ Goto(s, "tombCheck")
      BY <1>13 DEF Tombstone, Take
    <2>3. CASE Finish(s, "answered") /\ UNCHANGED locks
      BY <1>c, <2>1, <2>3, FinishSets, KeepLocks, EndWrites DEF WriteStep, Guarded
    <2>4. CASE Take(s, <<"principal", principalOf(s)>>, "UPDATE") /\ Goto(s, "tombCheck")
      <3>1. CallStep(s) /\ SameWork(s) /\ call'[s].pc = "tombCheck"
        BY <1>c, <2>4, GotoSets
      <3>2. call'[s].kind # "createKey"
        BY <1>w, <2>1, <3>1 DEF Writes, ByKind, SameWork, SameCore
      <3>3. QED
        BY <2>1, <2>4, <3>1, <3>2, TakeLocks, PlainStep
    <2>5. QED
      BY <2>2, <2>3, <2>4
  <1>14. CASE NamedAgain(s)
    <2>1. UNCHANGED policy /\ call[s].pc = "tombCheck"
      BY <1>14 DEF NamedAgain, tables
    <2>2. \/ Fail(s, "concurrent")
          \/ Goto(s, "tombKeys") /\ UNCHANGED locks
      BY <1>14 DEF NamedAgain
    <2>3. CASE Goto(s, "tombKeys") /\ UNCHANGED locks
      <3>1. CallStep(s) /\ SameWork(s) /\ call'[s].pc = "tombKeys"
        BY <1>c, <2>3, GotoSets
      <3>2. call'[s].kind # "createKey"
        BY <1>w, <2>1, <3>1 DEF Writes, ByKind, SameWork, SameCore
      <3>3. QED
        BY <2>1, <2>3, <3>1, <3>2, KeepLocks, PlainStep
    <2>4. QED
      BY <2>1, <2>2, <2>3, FailWrites
  <1>15. CASE RemoveLoad(s)
    <2>. DEFINE ks == KeysOf({principalOf(s)})
                l == IF ks = {} THEN "tombCommit" ELSE "tombLock"
    <2>1. /\ call' = [call EXCEPT ![s].keys = ks, ![s].want = ks, ![s].pc = l]
          /\ UNCHANGED <<policy, locks>>
      BY <1>15 DEF RemoveLoad, tables
    <2>2. l \in {"tombCommit", "tombLock"} /\ (l = "tombCommit" => ks = {})
      OBVIOUS
    <2>. HIDE DEF ks, l
    <2>3. CallStep(s) /\ SameCore(s) /\ call'[s].keys = ks /\ call'[s].pc = l
      BY <1>c, <2>1, SetKeys
    <2>4. LockStep(s)
      BY <2>1, KeepLocks
    <2>5. call'[s].kind # "createKey"
      BY <1>15, <1>w, <2>3 DEF RemoveLoad, Writes, ByKind, SameCore
    <2>6. QED
      BY <2>1, <2>2, <2>3, <2>4, <2>5, PlainStep
  <1>16. CASE RemoveLock(s)
    <2>1. /\ CallStep(s) /\ LockStep(s) /\ UNCHANGED policy /\ SameWork(s)
          /\ call'[s].pc \in {"tombLock", "tombPublish"} /\ call[s].pc = "tombLock"
      BY <1>16, AudienceSets DEF RemoveLock, LockAudiences, tables
    <2>2. call'[s].kind # "createKey"
      BY <1>w, <2>1 DEF Writes, ByKind, SameWork, SameCore
    <2>3. QED
      BY <2>1, <2>2, PlainStep
  <1>17. CASE RemovePublish(s)
    <2>. DEFINE rows == {[by |-> s, on |-> <<"keyRow", k>>, mode |-> "UPDATE"] : k \in call[s].keys}
    <2>1. UNCHANGED policy /\ call[s].pc = "tombPublish"
      BY <1>17 DEF RemovePublish
    <2>2. \/ Goto(s, "tombSecrets") /\ locks' = locks \cup rows
          \/ Fail(s, "error")
      BY <1>17 DEF RemovePublish, PublishRevocations
    <2>3. \A l \in rows : l.by = s /\ CanLock(locks, s, l.on, l.mode)
      BY <1>17 DEF RemovePublish
    <2>. HIDE DEF rows
    <2>4. CASE Goto(s, "tombSecrets") /\ locks' = locks \cup rows
      <3>1. CallStep(s) /\ SameWork(s) /\ call'[s].pc = "tombSecrets"
        BY <1>c, <2>4, GotoSets
      <3>2. call'[s].kind # "createKey"
        BY <1>w, <2>1, <3>1 DEF Writes, ByKind, SameWork, SameCore
      <3>3. LockStep(s)
        BY <2>3, <2>4, GrowLocks
      <3>4. QED
        BY <2>1, <3>1, <3>2, <3>3, PlainStep
    <2>5. QED
      BY <2>1, <2>2, <2>4, FailWrites
  <1>18. CASE RemoveSecrets(s)
    <2>1. LockStep(s) /\ UNCHANGED policy
      BY <1>18, KeepLocks DEF RemoveSecrets, tables
    <2>2. CallStep(s) /\ SameWork(s) /\ call'[s].pc = "tombCommit"
      BY <1>18, <1>c, GotoSets DEF RemoveSecrets
    <2>3. call'[s].kind # "createKey"
      BY <1>18, <1>w, <2>2 DEF RemoveSecrets, Writes, ByKind, SameWork, SameCore
    <2>4. QED
      BY <2>1, <2>2, <2>3, PlainStep
  <1>19. CASE TombstoneCommit(s)
    <2>1. LockStep(s) /\ UNCHANGED policy
      BY <1>19, ReleaseLocks DEF TombstoneCommit, tables
    <2>2. QED
      BY <1>19, <1>c, <2>1, FinishSets, EndWrites DEF TombstoneCommit, WriteStep, Guarded
  <1>20. QED
    BY <1>1, <1>2, <1>3, <1>4, <1>5, <1>6, <1>7, <1>8, <1>9, <1>10, <1>11, <1>12,
       <1>13, <1>14, <1>15, <1>16, <1>17, <1>18, <1>19
       DEF PrincipalStep

\* A key creation goes on past its first two steps.
LEMMA CreatingStep ==
    ASSUME AccessInv, WriteInv, NEW s \in Procs, call[s].pc \in Creating \cup Starting,
           call'[s].pc \in Creating, CallStep(s), LockStep(s), UNCHANGED policy, SameCore(s)
    PROVE  WriteStep(s)
  <1>1. call[s].kind = "createKey"
    BY DEF WriteInv, Writes, ByKind
  <1>2. Writes(s)'
    BY <1>1 DEF Writes, ByKind, HoldsBucket, HoldsTenant, HoldsPolicy, StripsListed, Strips,
                SameCore, Starting, Undoing, Creating, Preparing, Rotating, PastRow, OnBucket, OnKey
  <1>3. QED
    BY <1>2 DEF WriteStep, Guarded

LEMMA KeyWrites ==
    ASSUME AccessInv, WriteInv, NEW s \in Procs, AccessKeyStep(s)
    PROVE  WriteStep(s)
  <1>. USE DEF At, Labels, Starting, Undoing, Creating, Preparing, Rotating, PastRow, OnBucket, OnKey,
               Plain
  <1>c. TypeOK /\ call[s] \in CallRecords /\ Aimed(call[s])
    BY CallTyped DEF AccessInv
  <1>w. Writes(s)
    BY DEF WriteInv
  <1>1. CASE BeginCreateKey(s)
    <2>1. PICK p \in Principals :
            call' = [call EXCEPT ![s] = [Idle("answered") EXCEPT !.pc = "ckPrincipal",
                        !.kind = "createKey", !.principal = p]]
      BY <1>1 DEF BeginCreateKey
    <2>. DEFINE c == [Idle("answered") EXCEPT !.pc = "ckPrincipal",
                        !.kind = "createKey", !.principal = p]
    <2>2. c.pc = "ckPrincipal" /\ c.kind = "createKey" /\ c.key = None
      BY DEF Idle
    <2>. HIDE DEF c
    <2>3. CallStep(s) /\ call'[s] = c
      BY <1>c, <2>1, SetMoves DEF c
    <2>4. LockStep(s) /\ UNCHANGED policy
      BY <1>1, KeepLocks DEF BeginCreateKey, tables
    <2>5. Writes(s)'
      BY <2>2, <2>3 DEF Writes, ByKind, HoldsBucket, HoldsTenant, HoldsPolicy, StripsListed,
                        Strips, keyOf
    <2>6. QED
      BY <2>3, <2>4, <2>5 DEF WriteStep, Guarded
  <1>2. CASE FindPrincipal(s)
    <2>1. LockStep(s) /\ UNCHANGED policy
      BY <1>2, KeepLocks DEF FindPrincipal, tables
    <2>2. Goto(s, "ckSecret") \/ Finish(s, "answered")
      BY <1>2 DEF FindPrincipal
    <2>3. CASE Goto(s, "ckSecret")
      <3>1. CallStep(s) /\ SameWork(s) /\ call'[s].pc = "ckSecret"
        BY <1>c, <2>3, GotoSets
      <3>2. Writes(s)'
        BY <1>2, <1>w, <3>1 DEF FindPrincipal, Writes, ByKind, HoldsBucket, HoldsTenant,
                                HoldsPolicy, StripsListed, Strips, SameWork, SameCore, SameKey
      <3>3. QED
        BY <2>1, <3>1, <3>2 DEF WriteStep, Guarded
    <2>4. QED
      BY <1>c, <2>1, <2>2, <2>3, FinishSets, EndWrites DEF WriteStep, Guarded
  <1>3. CASE WriteSecret(s)
    <2>1. LockStep(s) /\ UNCHANGED policy
      BY <1>3, KeepLocks DEF WriteSecret
    <2>2. PICK k \in Keys : call' = [call EXCEPT ![s].key = k, ![s].pc = "ckAdd"]
      BY <1>3 DEF WriteSecret
    <2>3. CallStep(s) /\ SameCore(s) /\ call'[s].pc = "ckAdd"
      BY <1>c, <2>2, SetKey
    <2>4. QED
      BY <1>3, <2>1, <2>3, CreatingStep DEF WriteSecret
  <1>4. CASE AddKey(s)
    <2>1. UNCHANGED policy
      BY <1>4 DEF AddKey
    <2>2. \/ Goto(s, "ckSnap") /\ UNCHANGED locks
          \/ Fail(s, "invalid")
      BY <1>4 DEF AddKey
    <2>3. CASE Goto(s, "ckSnap") /\ UNCHANGED locks
      <3>1. CallStep(s) /\ SameWork(s) /\ call'[s].pc = "ckSnap"
        BY <1>c, <2>3, GotoSets
      <3>2. QED
        BY <1>4, <2>1, <2>3, <3>1, KeepLocks, CreatingStep DEF AddKey, SameWork
    <2>4. QED
      BY <2>1, <2>2, <2>3, FailWrites
  <1>5. CASE ListSnapshot(s)
    <2>. DEFINE bs == ListByPrincipal(principalOf(s))
                l == IF bs = {} THEN AfterListing(s, NoDocs) ELSE "ckRows"
    <2>1. LockStep(s) /\ UNCHANGED policy
      BY <1>5, KeepLocks DEF ListSnapshot, tables
    <2>2. l \in {"ckStore", "ckGet", "ckRows"}
      BY DEF AfterListing
    <2>3. call' = [call EXCEPT ![s].want = bs, ![s].pc = l]
      BY <1>5 DEF ListSnapshot
    <2>. HIDE DEF bs, l
    <2>4. CallStep(s) /\ SameWork(s) /\ call'[s].pc = l
      BY <1>c, <2>3, SetWant
    <2>5. QED
      BY <1>5, <2>1, <2>2, <2>4, CreatingStep DEF ListSnapshot, SameWork
  <1>6. CASE ListRows(s)
    <2>. DEFINE docs(b) == [call[s].snap EXCEPT ![b] = policy[b]]
                l(b) == IF call[s].want = {b} THEN AfterListing(s, docs(b)) ELSE "ckRows"
                w(b) == call[s].want \ {b}
    <2>1. PICK b \in Buckets :
            /\ Release(s) \/ UNCHANGED locks \/ Take(s, <<"policyRow", b>>, "SHARE")
            /\ call' = [call EXCEPT ![s].want = w(b), ![s].snap = docs(b), ![s].pc = l(b)]
      BY <1>6 DEF ListRows, Release, Take
    <2>2. l(b) \in {"ckStore", "ckGet", "ckRows"}
      BY DEF AfterListing
    <2>. HIDE DEF docs, l, w
    <2>3. LockStep(s)
      BY <2>1, ReleaseLocks, KeepLocks, TakeLocks
    <2>4. CallStep(s) /\ SameCore(s) /\ call'[s].pc = l(b)
      <3>1. call' = [call EXCEPT ![s].want = w(b), ![s].snap = docs(b), ![s].pc = l(b)]
        BY <2>1
      <3>2. QED
        BY <1>c, <3>1, SetRead
    <2>5. UNCHANGED policy
      BY <1>6 DEF ListRows, tables
    <2>6. QED
      BY <1>6, <2>2, <2>3, <2>4, <2>5, CreatingStep DEF ListRows
  <1>7. CASE StoreGrants(s)
    <2>1. UNCHANGED policy
      BY <1>7 DEF StoreGrants
    <2>2. \/ Goto(s, "ckGet") /\ UNCHANGED locks
          \/ Fail(s, "refused")
      BY <1>7 DEF StoreGrants
    <2>3. CASE Goto(s, "ckGet") /\ UNCHANGED locks
      <3>1. CallStep(s) /\ SameWork(s) /\ call'[s].pc = "ckGet"
        BY <1>c, <2>3, GotoSets
      <3>2. QED
        BY <1>7, <2>1, <2>3, <3>1, KeepLocks, CreatingStep DEF StoreGrants, SameWork
    <2>4. QED
      BY <2>1, <2>2, <2>3, FailWrites
  <1>8. CASE ReturnKey(s)
    <2>1. UNCHANGED policy
      BY <1>8 DEF ReturnKey
    <2>2. \/ Finish(s, "answered") /\ UNCHANGED locks
          \/ Fail(s, "notfound")
      BY <1>8 DEF ReturnKey
    <2>3. CASE Finish(s, "answered") /\ UNCHANGED locks
      BY <1>c, <2>1, <2>3, FinishSets, KeepLocks, EndWrites DEF WriteStep, Guarded
    <2>4. QED
      BY <2>1, <2>2, <2>3, FailWrites
  <1>9. CASE RollbackGrants(s)
    <2>1. LockStep(s) /\ UNCHANGED policy
      BY <1>9, KeepLocks DEF RollbackGrants, tables
    <2>2. CallStep(s) /\ SameWork(s) /\ call'[s].pc = "rbRow"
      BY <1>9, <1>c, GotoSets DEF RollbackGrants
    <2>3. QED
      BY <1>9, <2>1, <2>2, CreatingStep DEF RollbackGrants, SameWork
  <1>10. CASE RollbackRow(s)
    <2>1. LockStep(s) /\ UNCHANGED policy
      BY <1>10, KeepLocks DEF RollbackRow, tables
    <2>2. CallStep(s) /\ SameWork(s) /\ call'[s].pc = "rbSecret"
      BY <1>10, <1>c, GotoSets DEF RollbackRow
    <2>3. QED
      BY <1>10, <2>1, <2>2, CreatingStep DEF RollbackRow, SameWork
  <1>11. CASE RollbackSecret(s)
    <2>1. LockStep(s) /\ UNCHANGED policy
      BY <1>11, KeepLocks DEF RollbackSecret, tables
    <2>2. QED
      BY <1>11, <1>c, <2>1, FinishSets, EndWrites DEF RollbackSecret, WriteStep, Guarded
  <1>12. CASE BeginDeleteKey(s)
    <2>1. PICK k \in keyRow :
            call' = [call EXCEPT ![s] = [Idle("answered") EXCEPT !.pc = "kdLock",
                        !.kind = "deleteKey", !.key = k, !.keys = {k}, !.want = {k}]]
      BY <1>12 DEF BeginDeleteKey
    <2>. DEFINE c == [Idle("answered") EXCEPT !.pc = "kdLock",
                        !.kind = "deleteKey", !.key = k, !.keys = {k}, !.want = {k}]
    <2>2. c.pc = "kdLock" /\ c.kind = "deleteKey" /\ c.key = k /\ c.keys = {k}
      BY DEF Idle
    <2>. HIDE DEF c
    <2>3. CallStep(s) /\ call'[s] = c
      BY <1>c, <2>1, SetMoves DEF c
    <2>4. LockStep(s) /\ UNCHANGED policy
      BY <1>12, KeepLocks DEF BeginDeleteKey, tables
    <2>5. Writes(s)'
      BY <2>2, <2>3 DEF Writes, ByKind, HoldsBucket, HoldsTenant, HoldsPolicy, StripsListed,
                        Strips, keyOf
    <2>6. QED
      BY <2>3, <2>4, <2>5 DEF WriteStep, Guarded
  <1>13. CASE DeleteLock(s)
    <2>1. /\ CallStep(s) /\ LockStep(s) /\ UNCHANGED policy /\ SameWork(s)
          /\ call'[s].pc \in {"kdLock", "kdPublish"} /\ call[s].pc = "kdLock"
      BY <1>13, AudienceSets DEF DeleteLock, LockAudiences, tables
    <2>2. Writes(s)'
      BY <1>w, <2>1 DEF Writes, ByKind, HoldsBucket, HoldsTenant, HoldsPolicy, StripsListed,
                        SameWork, SameCore, SameKey, SameKeys, keyOf
    <2>3. QED
      BY <2>1, <2>2 DEF WriteStep, Guarded
  <1>14. CASE DeletePublish(s)
    <2>1. UNCHANGED policy /\ call[s].pc = "kdPublish"
      BY <1>14 DEF DeletePublish
    <2>2. \/ Take(s, <<"keyRow", keyOf(s)>>, "UPDATE") /\ Goto(s, "kdCommit")
          \/ Fail(s, "error")
      BY <1>14 DEF DeletePublish, PublishRevocations, Take
    <2>3. CASE Take(s, <<"keyRow", keyOf(s)>>, "UPDATE") /\ Goto(s, "kdCommit")
      <3>1. CallStep(s) /\ SameWork(s) /\ call'[s].pc = "kdCommit"
        BY <1>c, <2>3, GotoSets
      <3>2. Writes(s)'
        BY <1>w, <2>1, <3>1 DEF Writes, ByKind, HoldsBucket, HoldsTenant, HoldsPolicy,
                                StripsListed, SameWork, SameCore, SameKey, SameKeys, keyOf
      <3>3. LockStep(s)
        BY <2>3, TakeLocks
      <3>4. QED
        BY <2>1, <3>1, <3>2, <3>3 DEF WriteStep, Guarded
    <2>4. QED
      BY <2>1, <2>2, <2>3, FailWrites
  <1>15. CASE DeleteCommit(s)
    <2>1. LockStep(s) /\ UNCHANGED policy
      BY <1>15, ReleaseLocks DEF DeleteCommit, tables
    <2>2. CallStep(s) /\ SameWork(s) /\ call'[s].pc = "kdSecret"
      BY <1>15, <1>c, GotoSets DEF DeleteCommit
    <2>3. call'[s].kind # "createKey"
      BY <1>15, <1>w, <2>2 DEF DeleteCommit, Writes, ByKind, SameWork, SameCore
    <2>4. QED
      BY <2>1, <2>2, <2>3, PlainStep
  <1>16. CASE DeleteSecret(s)
    <2>1. LockStep(s) /\ UNCHANGED policy
      BY <1>16, KeepLocks DEF DeleteSecret, tables
    <2>2. QED
      BY <1>16, <1>c, <2>1, FinishSets, EndWrites DEF DeleteSecret, WriteStep, Guarded
  <1>17. QED
    BY <1>1, <1>2, <1>3, <1>4, <1>5, <1>6, <1>7, <1>8, <1>9, <1>10, <1>11, <1>12,
       <1>13, <1>14, <1>15, <1>16
       DEF AccessKeyStep

\* A bucket's deletion goes on, with the locks it has and perhaps more.
Deleting == {"dbRevoke", "dbAudiences", "dbLockK", "dbDelete", "dbCommit"}

LEMMA DeletingStep ==
    ASSUME AccessInv, WriteInv, NEW s \in Procs, call[s].pc \in Deleting,
           call'[s].pc \in Deleting, CallStep(s), LockStep(s), UNCHANGED policy, SameCore(s),
           locks \subseteq locks'
    PROVE  WriteStep(s)
  <1>. USE DEF Deleting, Starting, Undoing, Creating, Preparing, Rotating, PastRow, OnBucket, OnKey
  <1>1. Writes(s)
    BY DEF WriteInv
  <1>2. Writes(s)'
    BY <1>1 DEF Writes, ByKind, HoldsBucket, HoldsTenant, HoldsPolicy, StripsListed, Has,
                bucketOf, SameCore
  <1>3. QED
    BY <1>2 DEF WriteStep, Guarded

LEMMA BucketWrites ==
    ASSUME AccessInv, WriteInv, NEW s \in Procs, BucketStep(s)
    PROVE  WriteStep(s)
  <1>. USE DEF At, Labels, Starting, Undoing, Creating, Preparing, Rotating, PastRow, OnBucket, OnKey,
               Plain, Deleting
  <1>c. TypeOK /\ call[s] \in CallRecords /\ Aimed(call[s])
    BY CallTyped DEF AccessInv
  <1>w. Writes(s)
    BY DEF WriteInv
  <1>1. CASE BeginDeleteBucket(s)
    <2>1. PICK b \in buckets :
            call' = [call EXCEPT ![s] = [Idle("answered") EXCEPT !.pc = "dbLock",
                        !.kind = "deleteBucket", !.bucket = b]]
      BY <1>1 DEF BeginDeleteBucket
    <2>. DEFINE c == [Idle("answered") EXCEPT !.pc = "dbLock",
                        !.kind = "deleteBucket", !.bucket = b]
    <2>2. c.pc = "dbLock" /\ c.kind = "deleteBucket"
      BY DEF Idle
    <2>. HIDE DEF c
    <2>3. CallStep(s) /\ call'[s] = c
      BY <1>c, <2>1, SetMoves DEF c
    <2>4. LockStep(s) /\ UNCHANGED policy
      BY <1>1, KeepLocks DEF BeginDeleteBucket, tables
    <2>5. QED
      BY <2>2, <2>3, <2>4, PlainStep
  <1>2. CASE DeleteByBucket(s)
    <2>1. UNCHANGED policy /\ call[s].pc = "dbLock"
      BY <1>2 DEF DeleteByBucket, tables
    <2>2. CallStep(s) /\ SameWork(s) /\ call'[s].pc = "dbRevoke"
      BY <1>2, <1>c, GotoSets DEF DeleteByBucket
    <2>3. /\ LockStep(s)
          /\ [by |-> s, on |-> <<"bucket", bucketOf(s)>>, mode |-> "exclusive"] \in locks'
      BY <1>2, TakeLocks DEF DeleteByBucket
    <2>4. Writes(s)'
      BY <1>w, <2>1, <2>2, <2>3 DEF Writes, ByKind, HoldsBucket, HoldsTenant, HoldsPolicy,
                                    StripsListed, Has, bucketOf, SameWork, SameCore
    <2>5. QED
      BY <2>1, <2>2, <2>3, <2>4 DEF WriteStep, Guarded
  <1>3. CASE RevokeSubject(s)
    <2>1. \/ Goto(s, "dbAudiences") /\ UNCHANGED locks
          \/ Fail(s, "error")
      BY <1>3 DEF RevokeSubject, PublishRevocations
    <2>2. UNCHANGED policy /\ call[s].pc = "dbRevoke"
      BY <1>3 DEF RevokeSubject
    <2>3. CASE Goto(s, "dbAudiences") /\ UNCHANGED locks
      <3>1. CallStep(s) /\ SameWork(s) /\ call'[s].pc = "dbAudiences"
        BY <1>c, <2>3, GotoSets
      <3>2. QED
        BY <2>2, <2>3, <3>1, KeepLocks, DeletingStep DEF SameWork
    <2>4. QED
      BY <2>1, <2>2, <2>3, FailWrites
  <1>4. CASE SubjectAudiences(s)
    <2>. DEFINE ks == HoldersOf(bucketOf(s))
                l == IF ks = {} THEN "dbDelete" ELSE "dbLockK"
    <2>1. /\ call' = [call EXCEPT ![s].want = ks, ![s].pc = l]
          /\ UNCHANGED <<policy, locks>> /\ call[s].pc = "dbAudiences"
      BY <1>4 DEF SubjectAudiences, tables
    <2>2. l \in {"dbDelete", "dbLockK"}
      OBVIOUS
    <2>. HIDE DEF ks, l
    <2>3. CallStep(s) /\ SameWork(s) /\ call'[s].pc = l
      BY <1>c, <2>1, SetWant
    <2>4. QED
      BY <2>1, <2>2, <2>3, KeepLocks, DeletingStep DEF SameWork
  <1>5. CASE SubjectLock(s)
    <2>1. /\ CallStep(s) /\ LockStep(s) /\ UNCHANGED policy /\ SameWork(s) /\ locks \subseteq locks'
          /\ call'[s].pc \in {"dbLockK", "dbDelete"} /\ call[s].pc = "dbLockK"
      BY <1>5, AudienceSets DEF SubjectLock, LockAudiences, tables
    <2>2. QED
      BY <2>1, DeletingStep DEF SameWork
  <1>6. CASE DeleteBySubject(s)
    <2>. DEFINE ks == HoldersOf(bucketOf(s))
    <2>1. /\ call' = [call EXCEPT ![s].keys = ks, ![s].pc = "dbCommit"]
          /\ UNCHANGED <<policy, locks>> /\ call[s].pc = "dbDelete"
      BY <1>6 DEF DeleteBySubject, tables
    <2>. HIDE DEF ks
    <2>2. CallStep(s) /\ SameCore(s) /\ call'[s].pc = "dbCommit"
      BY <1>c, <2>1, SetKeysOnly
    <2>3. QED
      BY <2>1, <2>2, KeepLocks, DeletingStep
  <1>7. CASE DeleteBucketRow(s)
    <2>1. /\ call[s].pc = "dbCommit" /\ LockStep(s) /\ Finish(s, "answered")
          /\ \A b \in Buckets : policy'[b] = policy[b] \/ b = bucketOf(s)
      BY <1>7, <1>c, ReleaseLocks DEF DeleteBucketRow, TypeOK, TablesOK
    <2>2. Guarded(s)
      BY <1>w, <2>1 DEF Guarded, Writes, HoldsBucket
    <2>3. QED
      BY <1>c, <2>1, <2>2, FinishSets, EndWrites DEF WriteStep
  <1>8. QED
    BY <1>1, <1>2, <1>3, <1>4, <1>5, <1>6, <1>7
       DEF BucketStep

LEMMA FaultWrites ==
    ASSUME AccessInv, WriteInv, NEW s \in Procs, Fault(s)
    PROVE  WriteStep(s)
  <1>c. TypeOK
    BY DEF AccessInv
  <1>1. CASE Timeout(s)
    BY <1>1, FailWrites DEF Timeout, tables
  <1>2. CASE Error(s)
    BY <1>2, FailWrites DEF Error, tables
  <1>3. CASE Crash(s)
    BY <1>3, <1>c, FinishSets, EndWrites, ReleaseLocks DEF Crash, tables, WriteStep, Guarded
  <1>4. CASE RollbackSkip(s)
    <2>1. LockStep(s) /\ UNCHANGED policy
      BY <1>4, KeepLocks DEF RollbackSkip, tables
    <2>2. \/ At(s, "rbGrants") /\ Goto(s, "rbRow")
          \/ At(s, "rbRow") /\ Goto(s, "rbSecret")
          \/ Finish(s, call[s].res)
      BY <1>4 DEF RollbackSkip
    <2>3. ASSUME NEW l \in {"rbRow", "rbSecret"}, call[s].pc \in Undoing, Goto(s, l)
          PROVE  WriteStep(s)
      <3>1. CallStep(s) /\ SameWork(s) /\ call'[s].pc = l
        BY <1>c, <2>3, GotoSets
      <3>2. QED
        BY <2>1, <2>3, <3>1, CreatingStep DEF SameWork, Creating, Undoing
    <2>4. QED
      BY <1>c, <2>1, <2>2, <2>3, FinishSets, EndWrites DEF WriteStep, Guarded, At, Undoing
  <1>5. QED
    BY <1>1, <1>2, <1>3, <1>4 DEF Fault

-----------------------------------------------------------------------------
LEMMA InitWrites == Init => WriteInv
  <1>. SUFFICES ASSUME Init, NEW s \in Procs PROVE Writes(s)
    BY DEF WriteInv
  <1>1. call[s].pc = "idle" /\ call[s].kind = "none"
    BY DEF Init, Idle
  <1>2. QED
    BY <1>1 DEF Writes, ByKind, HoldsBucket, HoldsTenant, HoldsPolicy, StripsListed,
         Starting, Undoing, Creating, Preparing, Rotating, PastRow, OnBucket, OnKey

LEMMA StutterWrites == WriteInv /\ UNCHANGED vars => WriteInv'
  BY DEF WriteInv, vars, Writes, ByKind, HoldsBucket, HoldsTenant, HoldsPolicy, StripsListed,
         Strips, Has, keyOf, bucketOf, docOf, principalOf

\* Policy rows change only under the bucket's exclusive lock, and what a write has
\* read stays there until its commit: for any number of handlers, buckets and
\* documents, and under every fault.
THEOREM PolicyRowsAreGuarded == Spec => []WriteInv
  <1>1. ASSUME AccessInv, WriteInv, [Next]_vars PROVE WriteInv'
    <2>1. CASE UNCHANGED vars
      BY <1>1, <2>1, StutterWrites
    <2>2. ASSUME NEW s \in Procs, Step(s) PROVE WriteInv'
      BY <1>1, <2>2, PolicyWrites, PrincipalWrites, KeyWrites, BucketWrites, WriteStepKeeps
         DEF Step
    <2>3. ASSUME NEW s \in Procs, Fault(s) PROVE WriteInv'
      BY <1>1, <2>3, FaultWrites, WriteStepKeeps
    <2>4. QED
      BY <1>1, <2>1, <2>2, <2>3 DEF Next
  <1>2. QED
    BY <1>1, InitWrites, LockDiscipline, PTL DEF Spec

\* A conditional write that succeeds replaces exactly the document its condition
\* was about, although the compare and the set are many steps, of many handlers,
\* apart: Put and Delete keep the bucket's lock over their callback.
THEOREM WritesCompareAndSet == Spec => CompareAndSet
  <1>1. ASSUME WriteInv
        PROVE  [\A s \in Procs :
                  At(s, "commit") /\ call'[s] # call[s] /\ call'[s].res = "answered" =>
                      CheckPrecondition(policy[call[s].bucket], call[s].match)]_vars
    BY <1>1 DEF WriteInv, Writes, HoldsPolicy, At, PastRow, bucketOf
  <1>2. QED
    BY <1>1, PolicyRowsAreGuarded, PTL DEF CompareAndSet
=============================================================================
