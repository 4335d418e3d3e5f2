--------------------------- MODULE ReadersProofs ---------------------------
(***************************************************************************)
(* What Authorize and Info answer from reads made one after the other,     *)
(* while any number of handlers write what they read.                      *)
(*                                                                         *)
(* Sessions write nothing, so every invariant of Access holds here too.    *)
(* The rest is what a session may conclude from its earlier reads: a       *)
(* transaction it met on arrival still holds a lock the session has yet    *)
(* to wait for; a credential that was good by then has been seen so; the   *)
(* links listed are those in the table as long as nobody relinked them.    *)
(***************************************************************************)
EXTENDS Readers, AccessGrantsProofs

-----------------------------------------------------------------------------
(***************************************************************************)
(* What a handler's step does to its locks: they all go, or none does and  *)
(* new ones come, advisory locks and row locks each in their modes.        *)
(***************************************************************************)
AdvisoryKinds == {"tenant", "bucket", "audience"}

RightMode(l) == l.mode \in AdvisoryModes <=> l.on[1] \in AdvisoryKinds

ModesMatch == \A l \in locks : RightMode(l)

LockMove(s) ==
    \/ locks' = Released(locks, s)
    \/ /\ locks \subseteq locks'
       /\ \A l \in locks' : l \in locks \/ (l.by = s /\ RightMode(l))

HandlerMoves(s) == LockMove(s) /\ returned \subseteq returned'

LEMMA TakeMoves ==
    ASSUME NEW s, NEW kind, NEW x, NEW mode, Take(s, <<kind, x>>, mode),
           mode \in AdvisoryModes <=> kind \in AdvisoryKinds
    PROVE  LockMove(s)
  BY DEF Take, Granted, LockMove, RightMode

LEMMA FailReleases ==
    ASSUME NEW s, NEW err, Fail(s, err)
    PROVE  LockMove(s)
  BY DEF Fail, Release, LockMove

LEMMA AudienceMoves ==
    ASSUME NEW s, NEW here, NEW next, LockAudiences(s, here, next)
    PROVE  HandlerMoves(s)
  <1>1. PICK k \in Keys : Take(s, <<"audience", k>>, "exclusive")
    BY DEF LockAudiences
  <1>2. LockMove(s)
    BY <1>1, TakeMoves DEF AdvisoryModes, AdvisoryKinds
  <1>3. QED
    BY <1>2 DEF LockAudiences, tables, HandlerMoves

LEMMA PolicyMoves ==
    ASSUME NEW s \in Procs, PolicyStep(s)
    PROVE  HandlerMoves(s)
  <1>. USE DEF HandlerMoves, tables
  <1>u. ASSUME UNCHANGED locks PROVE LockMove(s)
    BY <1>u DEF LockMove
  <1>r. ASSUME Release(s) PROVE LockMove(s)
    BY <1>r DEF LockMove, Release
  <1>1. CASE BeginWrite(s) \/ BeginRemove(s)
    BY <1>1, <1>u DEF BeginWrite, BeginRemove
  <1>2. CASE TakeTenant(s)
    BY <1>2, TakeMoves DEF TakeTenant, AdvisoryModes, AdvisoryKinds
  <1>3. CASE RequireLive(s)
    <2>1. PICK p \in call[s].want : \/ Fail(s, "invalid")
                                    \/ Take(s, <<"principal", p>>, "KEY SHARE")
      BY <1>3 DEF RequireLive
    <2>2. LockMove(s)
      BY <2>1, TakeMoves, FailReleases DEF AdvisoryModes, AdvisoryKinds
    <2>3. QED
      BY <1>3, <2>2 DEF RequireLive
  <1>4. CASE TakeBucket(s)
    BY <1>4, TakeMoves DEF TakeBucket, AdvisoryModes, AdvisoryKinds
  <1>5. CASE TakeBucketRow(s)
    BY <1>5, TakeMoves, FailReleases DEF TakeBucketRow, AdvisoryModes, AdvisoryKinds
  <1>6. CASE LockRow(s)
    <2>. DEFINE row == <<"policyRow", bucketOf(s)>>
                err == Refusal(s, policy[bucketOf(s)])
    <2>1. \/ Release(s) \/ Fail(s, err) \/ UNCHANGED locks
          \/ locks' = Granted(locks, s, row, "UPDATE")
      BY <1>6 DEF LockRow
    <2>2. locks' = Granted(locks, s, row, "UPDATE") => LockMove(s)
      BY DEF Granted, LockMove, RightMode, AdvisoryModes, AdvisoryKinds
    <2>. HIDE DEF row, err
    <2>3. LockMove(s)
      BY <1>u, <1>r, <2>1, <2>2, FailReleases
    <2>4. QED
      BY <1>6, <2>3 DEF LockRow
  <1>7. CASE Relist(s)
    BY <1>7, <1>u, FailReleases DEF Relist
  <1>8. CASE LockPrincipals(s)
    <2>1. PICK p \in Principals : \/ UNCHANGED locks
                                  \/ Take(s, <<"principal", p>>, "NO KEY UPDATE")
      BY <1>8 DEF LockPrincipals
    <2>2. LockMove(s)
      BY <1>u, <2>1, TakeMoves DEF AdvisoryModes, AdvisoryKinds
    <2>3. QED
      BY <1>8, <2>2 DEF LockPrincipals
  <1>9. CASE Load(s)
    BY <1>9, <1>u DEF Load
  <1>10. CASE LockRotated(s)
    BY <1>10, AudienceMoves DEF LockRotated
  <1>11. CASE Rotate(s)
    BY <1>11, <1>u, FailReleases DEF Rotate, PublishRevocations
  <1>12. CASE Commit(s)
    BY <1>12, <1>r DEF Commit
  <1>13. QED
    BY <1>1, <1>2, <1>3, <1>4, <1>5, <1>6, <1>7, <1>8, <1>9, <1>10, <1>11, <1>12
       DEF PolicyStep

LEMMA PrincipalMoves ==
    ASSUME NEW s \in Procs, PrincipalStep(s)
    PROVE  HandlerMoves(s)
  <1>. USE DEF HandlerMoves, tables
  <1>u. ASSUME UNCHANGED locks PROVE LockMove(s)
    BY <1>u DEF LockMove
  <1>r. ASSUME Release(s) PROVE LockMove(s)
    BY <1>r DEF LockMove, Release
  <1>1. CASE BeginCreatePrincipal(s) \/ AddGet(s) \/ BeginDeletePrincipal(s) \/ RevokeLoad(s)
    BY <1>1, <1>u DEF BeginCreatePrincipal, AddGet, BeginDeletePrincipal, RevokeLoad
  <1>2. CASE AddTenant(s)
    BY <1>2, TakeMoves DEF AddTenant, AdvisoryModes, AdvisoryKinds
  <1>3. CASE AddRow(s) \/ RevokeCommit(s) \/ TombstoneCommit(s)
    BY <1>3, <1>r DEF AddRow, RevokeCommit, TombstoneCommit
  <1>4. CASE RevokeLock(s) \/ RemoveLock(s)
    BY <1>4, AudienceMoves DEF RevokeLock, RemoveLock
  <1>5. CASE RevokePublish(s)
    BY <1>5, <1>u, FailReleases DEF RevokePublish, PublishRevocations
  <1>6. CASE StripList(s) \/ StripPolicy(s) \/ StripDone(s) \/ RemoveLoad(s) \/ RemoveSecrets(s)
    BY <1>6, <1>u DEF StripList, StripPolicy, StripDone, RemoveLoad, RemoveSecrets
  <1>7. CASE Tombstone(s)
    <2>1. \/ UNCHANGED locks
          \/ locks' = Granted(locks, s, <<"principal", principalOf(s)>>, "UPDATE")
      BY <1>7 DEF Tombstone
    <2>2. LockMove(s)
      BY <1>u, <2>1 DEF Granted, LockMove, RightMode, AdvisoryModes, AdvisoryKinds
    <2>3. QED
      BY <1>7, <2>2 DEF Tombstone
  <1>8. CASE NamedAgain(s)
    BY <1>8, <1>u, FailReleases DEF NamedAgain
  <1>9. CASE RemovePublish(s)
    <2>1. \/ Fail(s, "error")
          \/ locks' = locks \cup {[by |-> s, on |-> <<"keyRow", k>>, mode |-> "UPDATE"] :
                                     k \in call[s].keys}
      BY <1>9 DEF RemovePublish, PublishRevocations
    <2>2. LockMove(s)
      BY <2>1, FailReleases DEF LockMove, RightMode, AdvisoryModes, AdvisoryKinds
    <2>3. QED
      BY <1>9, <2>2 DEF RemovePublish
  <1>10. QED
    BY <1>1, <1>2, <1>3, <1>4, <1>5, <1>6, <1>7, <1>8, <1>9 DEF PrincipalStep

LEMMA AccessKeyMoves ==
    ASSUME NEW s \in Procs, AccessKeyStep(s)
    PROVE  HandlerMoves(s)
  <1>. USE DEF HandlerMoves, tables
  <1>u. ASSUME UNCHANGED locks PROVE LockMove(s)
    BY <1>u DEF LockMove
  <1>r. ASSUME Release(s) PROVE LockMove(s)
    BY <1>r DEF LockMove, Release
  <1>1. CASE BeginCreateKey(s) \/ WriteSecret(s) \/ ListSnapshot(s) \/ BeginDeleteKey(s)
    BY <1>1, <1>u DEF BeginCreateKey, WriteSecret, ListSnapshot, BeginDeleteKey
  <1>2. CASE FindPrincipal(s)
    BY <1>2, <1>u, FailReleases DEF FindPrincipal
  <1>3. CASE AddKey(s)
    BY <1>3, <1>u, FailReleases DEF AddKey
  <1>4. CASE ListRows(s)
    <2>1. PICK b \in Buckets :
              \/ Release(s) \/ UNCHANGED locks
              \/ locks' = Granted(locks, s, <<"policyRow", b>>, "SHARE")
      BY <1>4 DEF ListRows, Release
    <2>2. locks' = Granted(locks, s, <<"policyRow", b>>, "SHARE") => LockMove(s)
      BY DEF Granted, LockMove, RightMode, AdvisoryModes, AdvisoryKinds
    <2>3. LockMove(s)
      BY <1>u, <1>r, <2>1, <2>2
    <2>4. QED
      BY <1>4, <2>3 DEF ListRows
  <1>5. CASE StoreGrants(s) \/ ReturnKey(s)
    BY <1>5, <1>u, FailReleases DEF StoreGrants, ReturnKey
  <1>6. CASE RollbackGrants(s) \/ RollbackRow(s) \/ RollbackSecret(s) \/ DeleteSecret(s)
    BY <1>6, <1>u DEF RollbackGrants, RollbackRow, RollbackSecret, DeleteSecret
  <1>7. CASE DeleteLock(s)
    BY <1>7, AudienceMoves DEF DeleteLock
  <1>8. CASE DeletePublish(s)
    <2>1. \/ Fail(s, "error")
          \/ locks' = Granted(locks, s, <<"keyRow", keyOf(s)>>, "UPDATE")
      BY <1>8 DEF DeletePublish, PublishRevocations
    <2>2. LockMove(s)
      BY <2>1, FailReleases DEF Granted, LockMove, RightMode, AdvisoryModes, AdvisoryKinds
    <2>3. QED
      BY <1>8, <2>2 DEF DeletePublish
  <1>9. CASE DeleteCommit(s)
    BY <1>9, <1>r DEF DeleteCommit
  <1>10. QED
    BY <1>1, <1>2, <1>3, <1>4, <1>5, <1>6, <1>7, <1>8, <1>9 DEF AccessKeyStep

LEMMA BucketMoves ==
    ASSUME NEW s \in Procs, BucketStep(s)
    PROVE  HandlerMoves(s)
  <1>. USE DEF HandlerMoves, tables
  <1>u. ASSUME UNCHANGED locks PROVE LockMove(s)
    BY <1>u DEF LockMove
  <1>1. CASE BeginDeleteBucket(s) \/ SubjectAudiences(s) \/ DeleteBySubject(s)
    BY <1>1, <1>u DEF BeginDeleteBucket, SubjectAudiences, DeleteBySubject
  <1>2. CASE DeleteByBucket(s)
    BY <1>2, TakeMoves DEF DeleteByBucket, AdvisoryModes, AdvisoryKinds
  <1>3. CASE RevokeSubject(s)
    BY <1>3, <1>u, FailReleases DEF RevokeSubject, PublishRevocations
  <1>4. CASE SubjectLock(s)
    BY <1>4, AudienceMoves DEF SubjectLock
  <1>5. CASE DeleteBucketRow(s)
    BY <1>5 DEF DeleteBucketRow, Release, LockMove
  <1>6. QED
    BY <1>1, <1>2, <1>3, <1>4, <1>5 DEF BucketStep

LEMMA FaultMoves ==
    ASSUME NEW s \in Procs, Fault(s)
    PROVE  HandlerMoves(s)
  <1>. USE DEF HandlerMoves, tables
  <1>1. CASE Timeout(s) \/ Error(s)
    BY <1>1, FailReleases DEF Timeout, Error
  <1>2. CASE Crash(s)
    BY <1>2 DEF Crash, Release, LockMove
  <1>3. CASE RollbackSkip(s)
    BY <1>3 DEF RollbackSkip, LockMove
  <1>4. QED
    BY <1>1, <1>2, <1>3 DEF Fault

-----------------------------------------------------------------------------
(***************************************************************************)
(* The session.                                                            *)
(***************************************************************************)
Ended == {"none", "refused", "unavailable"}
KeyAhead == {"key"}
PrincipalAhead == KeyAhead \cup {"signer", "principal"}
PolicyAhead == PrincipalAhead \cup {"bucket", "policy"}
Asking == {"cleanup", "infoBucket", "infoKey", "infoPrincipal", "infoPolicy", "list"}
Linked == {"chains", "reread", "relist", "answered"}
ReaderLabels == Ended \cup PolicyAhead \cup {"sign", "denied"} \cup Asking \cup Linked

Sessions ==
    [pc : ReaderLabels, key : Keys \cup {None}, bucket : Buckets \cup {None},
     action : Actions \cup {"none"}, doc : Documents, todo : SUBSET Commands,
     authorized : BOOLEAN, cleanup : BOOLEAN, empty : BOOLEAN, same : BOOLEAN,
     torn : BOOLEAN, met : BOOLEAN, backed : BOOLEAN, pending : SUBSET Procs]

\* A session is about a key its caller was given, and a bucket.
ReaderOK ==
    /\ reader \in Sessions
    /\ reader.pc \notin Ended => k0 \in returned /\ b0 \in Buckets

\* What a session still has to wait for, once it is there.
Guards(res) ==
    \/ reader.pc \in KeyAhead /\ res = <<"keyRow", k0>>
    \/ reader.pc \in PrincipalAhead /\ res = <<"principal", p0>>
    \/ reader.pc \in PolicyAhead /\ res \in {<<"bucket", b0>>, <<"policyRow", b0>>}

WriteModes == {"exclusive", "UPDATE", "NO KEY UPDATE"}

\* A write met on arrival and not over by now holds a lock that is still ahead.
WritesAhead ==
    reader.pc \in PolicyAhead \cup {"sign", "denied"} =>
        \A s \in reader.pending :
            \E l \in locks : l.by = s /\ l.mode \in WriteModes /\ Guards(l.on)

\* Was the credential good for the request at some moment of the session?  If it is
\* now, it was; if Authorize went on although it never was, its key is gone.
GoodIsBacked ==
    /\ reader.pc \in PolicyAhead /\ Justified(k0, b0, reader.action, keyRow, principal, policy)
          => reader.backed
    /\ reader.pc = "sign" \/ (reader.authorized /\ reader.pc \in Asking \cup Linked)
          => reader.backed \/ k0 \notin keyRow
    /\ reader.authorized /\ reader.pc \in Linked => reader.empty \/ reader.backed
    /\ reader.authorized => reader.pc \in Asking \cup Linked

\* The links listed: what is known of them while they are followed.
OneRevision ==
    /\ reader.pc \notin Linked => ~reader.torn
    /\ reader.pc \in Linked /\ ~reader.empty =>
          /\ reader.torn => ~reader.same
          /\ reader.same /\ policy[b0] = reader.doc => reader.met
          /\ reader.pc \in {"relist", "answered"} => (reader.same => reader.met)
          /\ reader.pc = "answered" => reader.same

ReaderInv == ReaderOK /\ ModesMatch /\ WritesAhead /\ GoodIsBacked /\ OneRevision

-----------------------------------------------------------------------------
(***************************************************************************)
(* A step of the session, with its record.                                 *)
(***************************************************************************)
LEMMA NoReaderIsOne == NoReader \in Sessions
  <1>1. /\ "none" \in ReaderLabels /\ NoPolicy \in Documents
        /\ {} \in SUBSET Commands /\ {} \in SUBSET Procs
    BY DEF ReaderLabels, Ended, NoPolicy, Documents
  <1>2. QED
    BY <1>1 DEF NoReader, Sessions

\* What a step that moves on leaves of the session.
Same == /\ reader'.key = reader.key /\ reader'.bucket = reader.bucket
        /\ reader'.action = reader.action /\ reader'.authorized = reader.authorized
        /\ reader'.empty = reader.empty /\ reader'.same = reader.same
        /\ reader'.torn = reader.torn /\ reader'.met = reader.met
        /\ reader'.backed = reader.backed /\ reader'.pending = reader.pending
        /\ reader'.doc = reader.doc

LEMMA EndSets ==
    ASSUME NEW pc \in Ended \ {"none"}, To(pc)
    PROVE  /\ reader' \in Sessions /\ reader'.pc = pc
           /\ ~reader'.torn /\ ~reader'.authorized
  <1>1. reader' = [NoReader EXCEPT !.pc = pc]
    BY DEF To, Ended
  <1>2. pc \in ReaderLabels
    BY DEF ReaderLabels
  <1>3. QED
    BY <1>1, <1>2, NoReaderIsOne DEF Sessions, NoReader

LEMMA ToSets ==
    ASSUME ReaderOK, NEW pc \in ReaderLabels \ Ended, To(pc)
    PROVE  reader' \in Sessions /\ reader'.pc = pc /\ Same
  <1>1. reader' = [reader EXCEPT !.pc = pc]
    BY DEF To, Ended
  <1>2. QED
    BY <1>1 DEF ReaderOK, Sessions, Same

\* An ended session needs nothing.
LEMMA EndKeeps ==
    ASSUME ReaderInv, UNCHANGED vars, reader' \in Sessions, reader'.pc \in Ended,
           ~reader'.torn, ~reader'.authorized
    PROVE  ReaderInv'
  <1>1. reader'.pc \notin PolicyAhead \cup {"sign", "denied"} \cup Asking \cup Linked
    BY DEF Ended, PolicyAhead, PrincipalAhead, KeyAhead, Asking, Linked
  <1>2. ModesMatch'
    BY DEF ReaderInv, ModesMatch, RightMode, vars
  <1>3. QED
    BY <1>1, <1>2 DEF ReaderInv, ReaderOK, WritesAhead, GoodIsBacked, OneRevision

-----------------------------------------------------------------------------
(***************************************************************************)
(* The reads of Authorize.                                                 *)
(***************************************************************************)
Labelled == /\ KeyAhead \subseteq PrincipalAhead /\ PrincipalAhead \subseteq PolicyAhead
            /\ PolicyAhead \cup {"sign", "denied"} \cup Asking \cup Linked
                 \subseteq ReaderLabels \ Ended
            /\ PolicyAhead \cap ({"sign", "denied"} \cup Asking \cup Linked) = {}
            /\ {"sign", "denied"} \cap (Asking \cup Linked) = {}
            /\ Asking \cap Linked = {}

LEMMA LabelsApart == Labelled
  BY DEF Labelled, ReaderLabels, Ended, PolicyAhead, PrincipalAhead, KeyAhead, Asking, Linked

\* A row that can be share-locked is held for a write by nobody.
LEMMA RowPassed ==
    ASSUME ReaderInv, NEW kind, NEW x, kind \notin AdvisoryKinds, ShareLocked(<<kind, x>>),
           NEW l \in locks, l.by \in Procs, l.mode \in WriteModes, l.on = <<kind, x>>
    PROVE  FALSE
  <1>1. l.on[1] = kind
    OBVIOUS
  <1>2. l.mode \in {"UPDATE", "NO KEY UPDATE"}
    BY <1>1 DEF ReaderInv, ModesMatch, RightMode, WriteModes, AdvisoryModes
  <1>3. Conflicts(l.mode, "SHARE")
    BY <1>2 DEF Conflicts, Conflicting
  <1>4. l.by # "reader"
    BY ReadersAssumption
  <1>5. QED
    BY <1>3, <1>4 DEF ShareLocked, CanLock

\* Nor is the bucket or the policy, once the policy is settled.
LEMMA PolicyPassed ==
    ASSUME ReaderInv, PolicySettled, NEW l \in locks, l.by \in Procs, l.mode \in WriteModes,
           l.on \in {<<"bucket", b0>>, <<"policyRow", b0>>}
    PROVE  FALSE
  <1>1. CASE l.on = <<"policyRow", b0>>
    BY <1>1, RowPassed DEF PolicySettled, AdvisoryKinds
  <1>2. CASE l.on = <<"bucket", b0>>
    <2>1. l.on[1] = "bucket"
      BY <1>2
    <2>2. l.mode = "exclusive"
      BY <2>1 DEF ReaderInv, ModesMatch, RightMode, WriteModes, AdvisoryModes, AdvisoryKinds
    <2>3. Conflicts(l.mode, "shared")
      BY <2>2 DEF Conflicts, Conflicting
    <2>4. l.by # "reader"
      BY ReadersAssumption
    <2>5. QED
      BY <1>2, <2>3, <2>4 DEF PolicySettled, CanLock
  <1>3. QED
    BY <1>1, <1>2

\* A session that goes on with its locks ahead, but for those it has waited for.
LEMMA StillAhead ==
    ASSUME ReaderInv, UNCHANGED vars, Same, reader.pc \in PolicyAhead,
           \A l \in locks : l.by \in Procs /\ l.mode \in WriteModes /\ Guards(l.on) => Guards(l.on)'
    PROVE  WritesAhead'
  <1>1. ASSUME NEW s \in reader'.pending
        PROVE  \E l \in locks' : l.by = s /\ l.mode \in WriteModes /\ Guards(l.on)'
    <2>1. s \in reader.pending /\ s \in Procs
      BY <1>1 DEF Same, ReaderInv, ReaderOK, Sessions
    <2>2. PICK l \in locks : l.by = s /\ l.mode \in WriteModes /\ Guards(l.on)
      BY <2>1 DEF ReaderInv, WritesAhead
    <2>3. Guards(l.on)' /\ l \in locks'
      BY <2>1, <2>2 DEF vars
    <2>4. QED
      BY <2>2, <2>3
  <1>2. QED
    BY <1>1 DEF WritesAhead

LEMMA ModesStay ==
    ASSUME ReaderInv, UNCHANGED vars
    PROVE  ModesMatch'
  BY DEF ReaderInv, ModesMatch, RightMode, vars

LEMMA AheadKeeps ==
    ASSUME ReaderInv, UNCHANGED vars, Same, reader' \in Sessions,
           reader.pc \in PolicyAhead, reader'.pc \in PolicyAhead, WritesAhead'
    PROVE  ReaderInv'
  <1>1. ReaderOK'
    BY LabelsApart DEF ReaderInv, ReaderOK, Same, Labelled, vars, k0, b0
  <1>2. GoodIsBacked'
    BY LabelsApart DEF ReaderInv, GoodIsBacked, Same, Labelled, Justified, vars, k0, b0
  <1>3. OneRevision'
    BY LabelsApart DEF ReaderInv, OneRevision, Same, Labelled
  <1>4. QED
    BY <1>1, <1>2, <1>3, ModesStay DEF ReaderInv

LEMMA GetKeyKeeps ==
    ASSUME ReaderInv, UNCHANGED vars, GetKey
    PROVE  ReaderInv'
  <1>1. CASE k0 \notin keyRow
    BY <1>1, EndSets, EndKeeps DEF GetKey, Ended
  <1>2. CASE k0 \in keyRow
    <2>1. reader.pc = "key" /\ To("signer") /\ ShareLocked(<<"keyRow", k0>>)
      BY <1>2 DEF GetKey, Reads
    <2>2. reader' \in Sessions /\ reader'.pc = "signer" /\ Same
      BY <2>1, ToSets DEF ReaderInv, ReaderLabels, PolicyAhead, PrincipalAhead, Ended
    <2>3. WritesAhead'
      <3>1. ASSUME NEW l \in locks, l.by \in Procs, l.mode \in WriteModes, Guards(l.on)
            PROVE  Guards(l.on)'
        <4>1. l.on # <<"keyRow", k0>>
          BY <2>1, <3>1, RowPassed DEF AdvisoryKinds
        <4>2. QED
          BY <2>2, <3>1, <4>1
             DEF Guards, PolicyAhead, PrincipalAhead, Same, k0, b0, p0, vars
      <3>2. QED
        BY <2>1, <2>2, <3>1, StillAhead DEF PolicyAhead, PrincipalAhead, KeyAhead
    <2>4. QED
      BY <2>1, <2>2, <2>3, AheadKeeps DEF PolicyAhead, PrincipalAhead, KeyAhead
  <1>3. QED
    BY <1>1, <1>2

LEMMA ReadSignerKeeps ==
    ASSUME ReaderInv, UNCHANGED vars, ReadSigner
    PROVE  ReaderInv'
  <1>1. CASE k0 \notin secrets
    BY <1>1, EndSets, EndKeeps DEF ReadSigner, Ended
  <1>2. CASE k0 \in secrets
    <2>1. reader.pc = "signer" /\ To("principal")
      BY <1>2 DEF ReadSigner, Reads
    <2>2. reader' \in Sessions /\ reader'.pc = "principal" /\ Same
      BY <2>1, ToSets DEF ReaderInv, ReaderLabels, PolicyAhead, PrincipalAhead, Ended
    <2>3. \A res : Guards(res) => Guards(res)'
      BY <2>1, <2>2 DEF Guards, PolicyAhead, PrincipalAhead, KeyAhead, Same, k0, b0, p0, vars
    <2>4. WritesAhead'
      BY <2>1, <2>2, <2>3, StillAhead DEF PolicyAhead, PrincipalAhead, KeyAhead
    <2>5. QED
      BY <2>1, <2>2, <2>4, AheadKeeps DEF PolicyAhead, PrincipalAhead, KeyAhead
  <1>3. QED
    BY <1>1, <1>2

LEMMA GetPrincipalKeeps ==
    ASSUME ReaderInv, UNCHANGED vars, GetPrincipal("principal", "bucket")
    PROVE  ReaderInv'
  <1>1. CASE principal[p0] # "live"
    BY <1>1, EndSets, EndKeeps DEF GetPrincipal, Ended
  <1>2. CASE principal[p0] = "live"
    <2>1. reader.pc = "principal" /\ To("bucket") /\ ShareLocked(<<"principal", p0>>)
      BY <1>2 DEF GetPrincipal, Reads
    <2>2. reader' \in Sessions /\ reader'.pc = "bucket" /\ Same
      BY <2>1, ToSets DEF ReaderInv, ReaderLabels, PolicyAhead, PrincipalAhead, Ended
    <2>3. WritesAhead'
      <3>1. ASSUME NEW l \in locks, l.by \in Procs, l.mode \in WriteModes, Guards(l.on)
            PROVE  Guards(l.on)'
        <4>1. l.on # <<"principal", p0>>
          BY <2>1, <3>1, RowPassed DEF AdvisoryKinds
        <4>2. QED
          BY <2>1, <2>2, <3>1, <4>1
             DEF Guards, PolicyAhead, PrincipalAhead, KeyAhead, Same, k0, b0, p0, vars
      <3>2. QED
        BY <2>1, <2>2, <3>1, StillAhead DEF PolicyAhead, PrincipalAhead, KeyAhead
    <2>4. QED
      BY <2>1, <2>2, <2>3, AheadKeeps DEF PolicyAhead, PrincipalAhead, KeyAhead
  <1>3. QED
    BY <1>1, <1>2

LEMMA ResolveBucketKeeps ==
    ASSUME ReaderInv, UNCHANGED vars, resolveBucket("bucket", "policy")
    PROVE  ReaderInv'
  <1>1. CASE b0 \notin buckets
    BY <1>1, EndSets, EndKeeps DEF resolveBucket, Ended
  <1>2. CASE b0 \in buckets
    <2>1. reader.pc = "bucket" /\ To("policy")
      BY <1>2 DEF resolveBucket, Reads
    <2>2. reader' \in Sessions /\ reader'.pc = "policy" /\ Same
      BY <2>1, ToSets DEF ReaderInv, ReaderLabels, PolicyAhead, PrincipalAhead, Ended
    <2>3. \A res : Guards(res) => Guards(res)'
      BY <2>1, <2>2 DEF Guards, PolicyAhead, PrincipalAhead, KeyAhead, Same, k0, b0, p0, vars
    <2>4. WritesAhead'
      BY <2>1, <2>2, <2>3, StillAhead DEF PolicyAhead, PrincipalAhead, KeyAhead
    <2>5. QED
      BY <2>1, <2>2, <2>4, AheadKeeps DEF PolicyAhead, PrincipalAhead, KeyAhead
  <1>3. QED
    BY <1>1, <1>2

\* The decision: whoever passes with a key that has a row has a live principal, too.
LEMMA GetPolicyKeeps ==
    ASSUME ReaderInv, UNCHANGED vars, KeysHaveLiveOwners, GetPolicy
    PROVE  ReaderInv'
  <1>. DEFINE next == IF reader.action \in Effective(policy[b0], p0) THEN "sign" ELSE "denied"
  <1>1. reader.pc = "policy" /\ PolicySettled /\ To(next)
    BY DEF GetPolicy, Reads
  <1>2. next \in ReaderLabels \ Ended
    BY DEF ReaderLabels, Ended
  <1>3. next = "sign" => reader.action \in Effective(policy[b0], p0)
    OBVIOUS
  <1>4. next \in {"sign", "denied"}
    OBVIOUS
  <1>. HIDE DEF next
  <1>5. reader' \in Sessions /\ reader'.pc = next /\ Same
    BY <1>1, <1>2, ToSets DEF ReaderInv
  <1>6. reader.pending = {}
    <2>1. SUFFICES ASSUME NEW s \in reader.pending PROVE FALSE
      OBVIOUS
    <2>2. s \in Procs
      BY DEF ReaderInv, ReaderOK, Sessions
    <2>3. PICK l \in locks : l.by = s /\ l.mode \in WriteModes /\ Guards(l.on)
      BY <1>1 DEF ReaderInv, WritesAhead, PolicyAhead
    <2>4. l.on \in {<<"bucket", b0>>, <<"policyRow", b0>>}
      BY <1>1, <2>3 DEF Guards, PrincipalAhead, KeyAhead
    <2>5. QED
      BY <1>1, <2>2, <2>3, <2>4, PolicyPassed
  <1>7. WritesAhead'
    BY <1>5, <1>6 DEF WritesAhead, Same
  <1>8. reader.pc \in PolicyAhead /\ reader.pc \notin Linked /\ reader.pc \notin Ended
    BY <1>1 DEF PolicyAhead, Linked, Ended
  <1>9. reader'.pc \notin PolicyAhead \cup Asking \cup Linked
    BY <1>4, <1>5, LabelsApart DEF Labelled
  <1>10. GoodIsBacked'
    <2>1. next = "sign" /\ k0 \in keyRow => reader.backed
      BY <1>3, <1>8 DEF ReaderInv, GoodIsBacked, Justified, KeysHaveLiveOwners, p0
    <2>2. ~reader.authorized
      BY <1>8, LabelsApart DEF ReaderInv, GoodIsBacked, Labelled
    <2>3. QED
      BY <1>5, <1>9, <2>1, <2>2 DEF GoodIsBacked, Same, k0, vars
  <1>11. ReaderOK'
    BY <1>5, <1>8 DEF ReaderInv, ReaderOK, Same, k0, b0, vars
  <1>12. OneRevision'
    BY <1>5, <1>8, <1>9 DEF ReaderInv, OneRevision, Same
  <1>13. QED
    BY <1>7, <1>10, <1>11, <1>12, ModesStay DEF ReaderInv

LEMMA SignKeeps ==
    ASSUME ReaderInv, UNCHANGED vars, SignDelegations
    PROVE  ReaderInv'
  <1>1. CASE k0 \notin secrets
    BY <1>1, EndSets, EndKeeps DEF SignDelegations, Ended
  <1>2. CASE k0 \in secrets
    <2>1. /\ reader.pc = "sign"
          /\ reader' = [reader EXCEPT !.pc = "cleanup", !.authorized = TRUE, !.pending = {}]
      BY <1>2 DEF SignDelegations, Reads
    <2>2. /\ reader' \in Sessions /\ reader'.pc = "cleanup"
          /\ reader'.key = reader.key /\ reader'.bucket = reader.bucket
          /\ reader'.torn = reader.torn /\ reader'.backed = reader.backed
      BY <2>1 DEF ReaderInv, ReaderOK, Sessions, ReaderLabels, Asking
    <2>3. /\ reader'.pc \notin PolicyAhead \cup {"sign", "denied"} \cup Linked
          /\ reader.pc \notin Linked /\ reader.pc \notin Ended
      BY <2>1, <2>2 DEF PolicyAhead, PrincipalAhead, KeyAhead, Linked, Ended
    <2>4. ReaderOK' /\ WritesAhead' /\ OneRevision'
      BY <2>2, <2>3 DEF ReaderInv, ReaderOK, WritesAhead, OneRevision, k0, b0, vars
    <2>5. GoodIsBacked'
      BY <2>1, <2>2, <2>3 DEF ReaderInv, GoodIsBacked, Asking, k0, vars
    <2>6. QED
      BY <2>4, <2>5, ModesStay DEF ReaderInv
  <1>3. QED
    BY <1>1, <1>2

-----------------------------------------------------------------------------
(***************************************************************************)
(* Arrival, and the reads of Info.                                         *)
(***************************************************************************)
LEMMA ArriveKeeps ==
    ASSUME TypeOK, ReaderInv, UNCHANGED vars, ArriveForAuthorize
    PROVE  ReaderInv'
  <1>1. PICK k \in returned, b \in Buckets, a \in Actions :
            reader' = [NoReader EXCEPT !.pc = "key", !.key = k, !.bucket = b, !.action = a,
                                       !.backed = Justified(k, b, a, keyRow, principal, policy),
                                       !.pending = InFlight(k, b)]
    BY DEF ArriveForAuthorize
  <1>2. k \in Keys /\ InFlight(k, b) \subseteq Procs
    BY ZenonT(60) DEF TypeOK, TablesOK, Locks, InFlight
  <1>3. Justified(k, b, a, keyRow, principal, policy) \in BOOLEAN
    BY DEF Justified
  <1>. DEFINE good == Justified(k, b, a, keyRow, principal, policy)
              met == InFlight(k, b)
  <1>4. good \in BOOLEAN /\ met \subseteq Procs
    BY <1>2, <1>3
  <1>5. reader' = [NoReader EXCEPT !.pc = "key", !.key = k, !.bucket = b, !.action = a,
                                   !.backed = good, !.pending = met]
    BY <1>1
  <1>. HIDE DEF good, met
  <1>6. /\ reader' \in Sessions /\ reader'.pc = "key" /\ reader'.key = k
        /\ reader'.bucket = b /\ reader'.action = a /\ reader'.backed = good
        /\ reader'.pending = met /\ ~reader'.torn /\ ~reader'.authorized
    <2>1. "key" \in ReaderLabels
      BY DEF ReaderLabels, PolicyAhead, PrincipalAhead, KeyAhead
    <2>2. QED
      BY <1>2, <1>4, <1>5, <2>1, NoReaderIsOne DEF Sessions, NoReader
  <1>7. /\ reader'.pc \in PolicyAhead
        /\ reader'.pc \notin Asking \cup Linked \cup {"sign", "denied"}
    BY <1>6 DEF PolicyAhead, PrincipalAhead, KeyAhead, Asking, Linked
  <1>8. WritesAhead'
    <2>1. SUFFICES ASSUME NEW s \in met
                   PROVE  \E l \in locks' : l.by = s /\ l.mode \in WriteModes /\ Guards(l.on)'
      BY <1>6 DEF WritesAhead
    <2>2. PICK l \in locks : /\ l.by = s
                             /\ l.mode \in WriteModes
                             /\ l.on \in {<<"keyRow", k>>, <<"principal", owner[k]>>,
                                          <<"bucket", b>>, <<"policyRow", b>>}
      BY DEF met, InFlight, WriteModes
    <2>3. l \in locks' /\ Guards(l.on)'
      BY <1>6, <2>2 DEF Guards, PolicyAhead, PrincipalAhead, KeyAhead, k0, b0, p0, vars
    <2>4. QED
      BY <2>2, <2>3
  <1>9. GoodIsBacked'
    <2>1. Justified(k0, b0, reader.action, keyRow, principal, policy)' => good
      BY <1>6 DEF good, Justified, k0, b0, vars
    <2>2. QED
      BY <1>6, <1>7, <2>1 DEF GoodIsBacked
  <1>10. ReaderOK' /\ OneRevision'
    BY <1>6, <1>7, LabelsApart DEF ReaderOK, OneRevision, k0, b0, vars
  <1>11. QED
    BY <1>8, <1>9, <1>10, ModesStay DEF ReaderInv

\* A session that asks for the chains, at its next question.
LEMMA AskingKeeps ==
    ASSUME ReaderInv, UNCHANGED vars, reader' \in Sessions, reader'.pc \in Asking,
           reader'.key \in returned, reader'.bucket \in Buckets, ~reader'.torn,
           reader'.authorized => reader'.backed \/ reader'.key \notin keyRow
    PROVE  ReaderInv'
  <1>1. reader'.pc \notin PolicyAhead \cup {"sign", "denied"} \cup Linked
    BY LabelsApart DEF Labelled
  <1>2. reader'.pc # "sign"
    BY <1>1
  <1>3. GoodIsBacked'
    BY <1>1, <1>2 DEF GoodIsBacked, k0, vars
  <1>4. ReaderOK' /\ WritesAhead' /\ OneRevision'
    BY <1>1 DEF ReaderOK, WritesAhead, OneRevision, k0, b0, vars
  <1>5. QED
    BY <1>3, <1>4, ModesStay DEF ReaderInv

\* The cleanup delegations are issued whatever became of the key.
LEMMA CleanupKeeps ==
    ASSUME ReaderInv, UNCHANGED vars, issueCleanupDelegations
    PROVE  ReaderInv'
  <1>1. PICK issued \in BOOLEAN :
            reader' = [reader EXCEPT !.pc = "infoBucket", !.cleanup = issued]
    BY DEF issueCleanupDelegations
  <1>2. reader.pc = "cleanup"
    BY DEF issueCleanupDelegations, Reads
  <1>3. reader.pc \in Asking /\ reader.pc \notin Ended \cup Linked /\ "infoBucket" \in Asking
    BY <1>2 DEF Asking, Ended, Linked
  <1>4. /\ reader' \in Sessions /\ reader'.pc = "infoBucket" /\ reader'.key = reader.key
        /\ reader'.bucket = reader.bucket /\ reader'.torn = reader.torn
        /\ reader'.authorized = reader.authorized /\ reader'.backed = reader.backed
    BY <1>1, <1>3 DEF ReaderInv, ReaderOK, Sessions, ReaderLabels
  <1>5. QED
    BY <1>3, <1>4, AskingKeeps DEF ReaderInv, ReaderOK, GoodIsBacked, OneRevision, k0, b0

LEMMA ArriveForInfoKeeps ==
    ASSUME TypeOK, ReaderInv, UNCHANGED vars, ArriveForInfo
    PROVE  ReaderInv'
  <1>1. PICK k \in returned, b \in Buckets :
            reader' = [NoReader EXCEPT !.pc = "infoBucket", !.key = k, !.bucket = b]
    BY DEF ArriveForInfo
  <1>2. k \in Keys /\ "infoBucket" \in ReaderLabels /\ "infoBucket" \in Asking
    BY DEF TypeOK, TablesOK, ReaderLabels, Asking
  <1>3. /\ reader' \in Sessions /\ reader'.pc = "infoBucket" /\ reader'.key = k
        /\ reader'.bucket = b /\ ~reader'.torn /\ ~reader'.authorized
    BY <1>1, <1>2, NoReaderIsOne DEF Sessions, NoReader
  <1>4. QED
    BY <1>2, <1>3, AskingKeeps

LEMMA GoOnAsking ==
    ASSUME ReaderInv, UNCHANGED vars, NEW next \in Asking, reader.pc \in Asking, To(next)
    PROVE  ReaderInv'
  <1>1. next \in ReaderLabels \ Ended /\ reader.pc \notin Ended /\ reader.pc \notin Linked
    BY LabelsApart DEF Labelled
  <1>2. reader' \in Sessions /\ reader'.pc = next /\ Same
    BY <1>1, ToSets DEF ReaderInv
  <1>3. QED
    BY <1>1, <1>2, AskingKeeps DEF ReaderInv, ReaderOK, GoodIsBacked, OneRevision, Same, k0, b0

LEMMA InfoQuestionsKeep ==
    ASSUME ReaderInv, UNCHANGED vars,
           \/ resolveBucket("infoBucket", "infoKey") \/ InfoKey
           \/ GetPrincipal("infoPrincipal", "infoPolicy")
    PROVE  ReaderInv'
  <1>1. reader.pc \in Asking
    BY DEF resolveBucket, InfoKey, GetPrincipal, Reads, Asking
  <1>2. \E next \in Asking \cup {"refused"} : To(next)
    BY DEF resolveBucket, InfoKey, GetPrincipal, Asking
  <1>3. QED
    BY <1>1, <1>2, GoOnAsking, EndSets, EndKeeps DEF Ended

LEMMA InfoPolicyKeeps ==
    ASSUME TypeOK, ReaderInv, UNCHANGED vars, InfoPolicy
    PROVE  ReaderInv'
  <1>1. CASE Effective(policy[b0], p0) = {}
    BY <1>1, EndSets, EndKeeps DEF InfoPolicy, Ended
  <1>2. CASE Effective(policy[b0], p0) # {}
    <2>1. reader.pc = "infoPolicy" /\ reader' = [reader EXCEPT !.pc = "list", !.doc = policy[b0]]
      BY <1>2 DEF InfoPolicy, Reads
    <2>2. reader.pc \in Asking /\ reader.pc \notin Ended \cup Linked /\ "list" \in Asking
      BY <2>1 DEF Asking, Ended, Linked
    <2>3. policy[b0] \in Documents
      BY <2>2 DEF TypeOK, TablesOK, ReaderInv, ReaderOK
    <2>4. /\ reader' \in Sessions /\ reader'.pc = "list" /\ reader'.key = reader.key
          /\ reader'.bucket = reader.bucket /\ reader'.torn = reader.torn
          /\ reader'.authorized = reader.authorized /\ reader'.backed = reader.backed
      BY <2>1, <2>2, <2>3 DEF ReaderInv, ReaderOK, Sessions, ReaderLabels
    <2>5. QED
      BY <2>2, <2>4, AskingKeeps DEF ReaderInv, ReaderOK, GoodIsBacked, OneRevision, k0, b0
  <1>3. QED
    BY <1>1, <1>2

\* A session that follows its links.
LEMMA LinkedKeeps ==
    ASSUME ReaderInv, UNCHANGED vars, reader' \in Sessions, reader'.pc \in Linked,
           reader'.key \in returned, reader'.bucket \in Buckets,
           reader'.authorized => reader'.empty \/ reader'.backed,
           reader'.authorized => reader'.backed \/ reader'.key \notin keyRow, OneRevision'
    PROVE  ReaderInv'
  <1>1. reader'.pc \notin PolicyAhead \cup {"sign", "denied"} \cup Asking
    BY LabelsApart DEF Labelled
  <1>2. ReaderOK' /\ WritesAhead' /\ GoodIsBacked'
    BY <1>1 DEF ReaderOK, WritesAhead, GoodIsBacked, k0, b0, vars
  <1>3. QED
    BY <1>2, ModesStay DEF ReaderInv

\* A key that has no row any more holds nothing: only a good credential finds links.
LEMMA ListGrantsKeeps ==
    ASSUME TypeOK, GoneHoldNothing, ReaderInv, UNCHANGED vars, listGrants
    PROVE  ReaderInv'
  <1>. DEFINE grants == held[k0][b0]
              none == grants = {}
              next == IF none THEN "reread" ELSE "chains"
              meets == policy[b0] = reader.doc
  <1>1. /\ reader.pc = "list"
        /\ reader' = [reader EXCEPT !.pc = next, !.todo = grants, !.empty = none,
                                    !.same = TRUE, !.met = meets]
    BY DEF listGrants, Reads
  <1>2. reader.pc \in Asking /\ reader.pc \notin Ended \cup Linked
    BY <1>1 DEF Asking, Ended, Linked
  <1>3. k0 \in returned /\ k0 \in Keys /\ b0 \in Buckets
    BY <1>2 DEF TypeOK, TablesOK, ReaderInv, ReaderOK
  <1>4. grants \subseteq Commands /\ none \in BOOLEAN /\ meets \in BOOLEAN
    BY <1>3 DEF TypeOK, TablesOK
  <1>5. next \in {"reread", "chains"}
    OBVIOUS
  <1>6. ~none => k0 \in keyRow
    BY <1>3 DEF GoneHoldNothing, Holds
  <1>. HIDE DEF grants, none, next
  <1>7. /\ reader' \in Sessions /\ reader'.pc = next /\ reader'.key = reader.key
        /\ reader'.bucket = reader.bucket /\ reader'.doc = reader.doc
        /\ reader'.authorized = reader.authorized /\ reader'.backed = reader.backed
        /\ reader'.torn = reader.torn /\ reader'.empty = none /\ reader'.met = meets
    <2>1. next \in ReaderLabels
      BY <1>5 DEF ReaderLabels, Linked
    <2>. HIDE DEF meets
    <2>2. QED
      BY <1>1, <1>4, <2>1 DEF ReaderInv, ReaderOK, Sessions
  <1>8. reader'.pc \in {"reread", "chains"} /\ reader'.pc \in Linked
    BY <1>5, <1>7 DEF Linked
  <1>9. reader'.authorized => reader'.empty \/ reader'.backed
    BY <1>2, <1>6, <1>7 DEF ReaderInv, GoodIsBacked
  <1>10. reader'.authorized => reader'.backed \/ reader'.key \notin keyRow
    BY <1>2, <1>7 DEF ReaderInv, GoodIsBacked, k0
  <1>11. OneRevision'
    <2>1. ~reader'.torn
      BY <1>2, <1>7 DEF ReaderInv, OneRevision
    <2>2. (policy[b0] = reader.doc)' <=> reader'.met
      BY <1>7 DEF meets, b0, vars
    <2>3. QED
      BY <1>8, <2>1, <2>2 DEF OneRevision
  <1>12. QED
    BY <1>3, <1>7, <1>8, <1>9, <1>10, <1>11, LinkedKeeps DEF k0, b0

LEMMA ProofChainKeeps ==
    ASSUME ReaderInv, UNCHANGED vars, ProofChain
    PROVE  ReaderInv'
  <1>1. PICK c \in reader.todo :
            reader' = [reader EXCEPT !.todo = @ \ {c}, !.torn = @ \/ ~reader.same,
                                     !.pc = IF reader.todo = {c} THEN "reread" ELSE "chains"]
    BY DEF ProofChain
  <1>2. reader.pc = "chains"
    BY DEF ProofChain, Reads
  <1>. DEFINE next == IF reader.todo = {c} THEN "reread" ELSE "chains"
  <1>3. next \in {"reread", "chains"}
    OBVIOUS
  <1>4. reader' = [reader EXCEPT !.todo = @ \ {c}, !.torn = @ \/ ~reader.same, !.pc = next]
    BY <1>1
  <1>. HIDE DEF next
  <1>5. /\ reader' \in Sessions /\ reader'.pc = next /\ reader'.key = reader.key
        /\ reader'.bucket = reader.bucket /\ reader'.doc = reader.doc
        /\ reader'.authorized = reader.authorized /\ reader'.backed = reader.backed
        /\ reader'.torn = (reader.torn \/ ~reader.same) /\ reader'.empty = reader.empty
        /\ reader'.same = reader.same /\ reader'.met = reader.met
    <2>1. next \in ReaderLabels
      BY <1>3 DEF ReaderLabels, Linked
    <2>2. QED
      BY <1>4, <2>1 DEF ReaderInv, ReaderOK, Sessions
  <1>6. /\ reader.pc \in Linked /\ reader.pc \notin Ended
        /\ reader'.pc \in {"reread", "chains"} /\ reader'.pc \in Linked
    BY <1>2, <1>3, <1>5 DEF Linked, Ended
  <1>7. OneRevision'
    BY <1>5, <1>6 DEF ReaderInv, OneRevision, b0, vars
  <1>8. QED
    BY <1>5, <1>6, <1>7, LinkedKeeps DEF ReaderInv, ReaderOK, GoodIsBacked, k0, b0

LEMMA PolicyETagKeeps ==
    ASSUME ReaderInv, UNCHANGED vars, policyETag
    PROVE  ReaderInv'
  <1>1. CASE ETag(policy[b0]) # ETag(reader.doc)
    BY <1>1, EndSets, EndKeeps DEF policyETag, Ended
  <1>2. CASE ETag(policy[b0]) = ETag(reader.doc)
    <2>1. reader.pc = "reread" /\ To("relist")
      BY <1>2 DEF policyETag, Reads
    <2>2. policy[b0] = reader.doc
      BY <1>2 DEF ETag
    <2>3. reader' \in Sessions /\ reader'.pc = "relist" /\ Same
      BY <2>1, ToSets DEF ReaderInv, ReaderLabels, Linked, Ended
    <2>4. reader.pc \in Linked /\ reader.pc \notin Ended /\ reader'.pc \in Linked
      BY <2>1, <2>3 DEF Linked, Ended
    <2>5. OneRevision'
      BY <2>2, <2>3, <2>4 DEF ReaderInv, OneRevision, Same, b0, vars
    <2>6. QED
      BY <2>3, <2>4, <2>5, LinkedKeeps DEF ReaderInv, ReaderOK, GoodIsBacked, Same, k0, b0
  <1>3. QED
    BY <1>1, <1>2

LEMMA RelistedKeeps ==
    ASSUME ReaderInv, UNCHANGED vars, Relisted
    PROVE  ReaderInv'
  <1>1. CASE ~reader.same
    BY <1>1, EndSets, EndKeeps DEF Relisted, Ended
  <1>2. CASE reader.same
    <2>1. reader.pc = "relist" /\ To("answered")
      BY <1>2 DEF Relisted, Reads
    <2>2. reader' \in Sessions /\ reader'.pc = "answered" /\ Same
      BY <2>1, ToSets DEF ReaderInv, ReaderLabels, Linked, Ended
    <2>3. reader.pc \in Linked /\ reader.pc \notin Ended /\ reader'.pc \in Linked
      BY <2>1, <2>2 DEF Linked, Ended
    <2>4. OneRevision'
      BY <1>2, <2>1, <2>2, <2>3 DEF ReaderInv, OneRevision, Same, b0, vars
    <2>5. QED
      BY <2>2, <2>3, <2>4, LinkedKeeps DEF ReaderInv, ReaderOK, GoodIsBacked, Same, k0, b0
  <1>3. QED
    BY <1>1, <1>2

LEMMA ReadKeeps ==
    ASSUME TypeOK, KeysHaveLiveOwners, GoneHoldNothing, ReaderInv, ReadStep, UNCHANGED vars
    PROVE  ReaderInv'
  <1>1. CASE ReadTimeout
    BY <1>1, EndSets, EndKeeps DEF ReadTimeout, Ended
  <1>2. CASE ~ReadTimeout
    BY <1>2, ArriveKeeps, ArriveForInfoKeeps, GetKeyKeeps, ReadSignerKeeps, GetPrincipalKeeps,
       ResolveBucketKeeps, GetPolicyKeeps, SignKeeps, CleanupKeeps, InfoQuestionsKeep, InfoPolicyKeeps,
       ListGrantsKeeps, ProofChainKeeps, PolicyETagKeeps, RelistedKeeps
       DEF ReadStep
  <1>3. QED
    BY <1>1, <1>2

-----------------------------------------------------------------------------
(***************************************************************************)
(* A handler's step, as the session finds it.                              *)
(***************************************************************************)
LEMMA StepMoves ==
    ASSUME AccessInv, WriteInv, GrantsInv, NEW s \in Procs, Step(s) \/ Fault(s)
    PROVE  HandlerMoves(s) /\ TableMoves(s)
  <1>1. HandlerMoves(s)
    BY PolicyMoves, PrincipalMoves, AccessKeyMoves, BucketMoves, FaultMoves DEF Step
  <1>2. GrantStep(s)
    BY PolicyGrants, PrincipalGrants, KeyGrants, BucketGrants, FaultGrants DEF Step
  <1>3. QED
    BY <1>1, <1>2 DEF GrantStep

LEMMA ModesKeep ==
    ASSUME ModesMatch, NEW s, LockMove(s)
    PROVE  ModesMatch'
  <1>1. ASSUME NEW l \in locks' PROVE RightMode(l)
    BY DEF ModesMatch, LockMove, Released
  <1>2. QED
    BY <1>1 DEF ModesMatch, RightMode

\* A key a caller was given gets no row again, and its principal is the same for ever.
LEMMA GivenKeys ==
    ASSUME TypeOK, GrantsInv, NEW s \in Procs, TableMoves(s), NEW k \in returned
    PROVE  /\ owner'[k] = owner[k]
           /\ k \in keyRow' => k \in keyRow
  <1>1. k \in Keys /\ owner[k] # None
    BY DEF TypeOK, TablesOK, GrantsInv, KeysAreBound
  <1>2. At(s, "ckAdd") => keyOf(s) \notin returned
    BY DEF GrantsInv, Creates, Creating, At
  <1>3. QED
    BY <1>1, <1>2 DEF TableMoves

LEMMA RestKeeps ==
    ASSUME ModesMatch', reader' = NoReader
    PROVE  ReaderInv'
  <1>1. reader' \in Sessions /\ reader'.pc = "none" /\ ~reader'.torn /\ ~reader'.authorized
    BY NoReaderIsOne DEF NoReader
  <1>2. /\ reader'.pc \in Ended
        /\ reader'.pc \notin PolicyAhead \cup {"sign", "denied"} \cup Asking \cup Linked
    BY <1>1 DEF Ended, PolicyAhead, PrincipalAhead, KeyAhead, Asking, Linked
  <1>3. QED
    BY <1>1, <1>2 DEF ReaderInv, ReaderOK, WritesAhead, GoodIsBacked, OneRevision

LEMMA WatchedKeeps ==
    ASSUME AccessInv, WriteInv, GrantsInv, ReaderInv,
           NEW s \in Procs, Step(s) \/ Fault(s), reader' = Watched
    PROVE  ReaderInv'
  <1>1. HandlerMoves(s) /\ TableMoves(s)
    BY StepMoves
  <1>2. ModesMatch'
    BY <1>1, ModesKeep DEF ReaderInv, HandlerMoves
  <1>3. CASE reader.pc \in {"none", "answered", "refused", "denied", "unavailable"}
    BY <1>2, <1>3, RestKeeps DEF Watched
  <1>4. CASE reader.pc \notin {"none", "answered", "refused", "denied", "unavailable"}
    <2>. DEFINE same == IF Relinked THEN reader.empty /\ held'[k0][b0] = {} ELSE reader.same
                meets == same /\ policy'[b0] = reader.doc
                good == Justified(k0, b0, reader.action, keyRow', principal', policy')
                left == {t \in reader.pending : \E l \in locks' : l.by = t}
    <2>1. reader' = [reader EXCEPT !.same = same, !.met = @ \/ meets, !.backed = @ \/ good,
                                   !.pending = left]
      BY <1>4 DEF Watched
    <2>2. same \in BOOLEAN /\ meets \in BOOLEAN /\ good \in BOOLEAN
      BY DEF ReaderInv, ReaderOK, Sessions, Justified
    <2>3. left \subseteq reader.pending
      OBVIOUS
    <2>4. ~reader.empty /\ same => reader.same
      OBVIOUS
    <2>5. meets <=> same /\ policy'[b0] = reader.doc
      OBVIOUS
    <2>6. \A t \in left : \E l \in locks' : l.by = t
      OBVIOUS
    <2>7. good <=> Justified(k0, b0, reader.action, keyRow', principal', policy')
      OBVIOUS
    <2>. HIDE DEF same, meets, good, left
    <2>8. /\ reader' \in Sessions /\ reader'.pc = reader.pc /\ reader'.key = reader.key
          /\ reader'.bucket = reader.bucket /\ reader'.action = reader.action
          /\ reader'.doc = reader.doc /\ reader'.authorized = reader.authorized
          /\ reader'.empty = reader.empty /\ reader'.torn = reader.torn
          /\ reader'.same = same /\ reader'.met = (reader.met \/ meets)
          /\ reader'.backed = (reader.backed \/ good) /\ reader'.pending = left
      <3>. DEFINE met == reader.met \/ meets
                  backed == reader.backed \/ good
      <3>1. met \in BOOLEAN /\ backed \in BOOLEAN /\ left \in SUBSET Procs /\ reader \in Sessions
        BY <2>2, <2>3 DEF ReaderInv, ReaderOK, Sessions
      <3>2. reader' = [reader EXCEPT !.same = same, !.met = met, !.backed = backed,
                                     !.pending = left]
        BY <2>1
      <3>. HIDE DEF met, backed
      <3>3. reader' \in Sessions
        BY <2>2, <3>1, <3>2 DEF Sessions
      <3>4. /\ reader'.pc = reader.pc /\ reader'.key = reader.key
            /\ reader'.bucket = reader.bucket /\ reader'.action = reader.action
            /\ reader'.doc = reader.doc /\ reader'.authorized = reader.authorized
            /\ reader'.empty = reader.empty /\ reader'.torn = reader.torn
            /\ reader'.same = same /\ reader'.met = met
            /\ reader'.backed = backed /\ reader'.pending = left
        BY <3>1, <3>2 DEF Sessions
      <3>5. QED
        BY <3>3, <3>4 DEF met, backed
    <2>9. reader.pc \notin Ended
      BY <1>4 DEF Ended
    <2>10. k0 \in returned /\ k0 \in Keys /\ b0 \in Buckets
      BY <2>9 DEF ReaderInv, ReaderOK, AccessInv, TypeOK, TablesOK
    <2>11. owner'[k0] = owner[k0] /\ (k0 \in keyRow' => k0 \in keyRow)
      BY <1>1, <2>10, GivenKeys DEF AccessInv
    <2>12. ReaderOK'
      BY <1>1, <2>8, <2>10 DEF ReaderOK, HandlerMoves, k0, b0
    <2>13. k0' = k0 /\ b0' = b0 /\ p0' = p0
      BY <2>8, <2>11 DEF k0, b0, p0
    <2>14. WritesAhead'
      <3>1. SUFFICES ASSUME reader.pc \in PolicyAhead \cup {"sign", "denied"}, NEW t \in left
                     PROVE  \E l \in locks' : l.by = t /\ l.mode \in WriteModes /\ Guards(l.on)'
        BY <2>8 DEF WritesAhead
      <3>2. t \in reader.pending
        BY <2>3
      <3>3. PICK l \in locks : l.by = t /\ l.mode \in WriteModes /\ Guards(l.on)
        BY <3>1, <3>2 DEF ReaderInv, WritesAhead
      <3>4. l \in locks'
        <4>1. CASE locks' = Released(locks, s)
          BY <2>6, <3>3, <4>1 DEF Released
        <4>2. QED
          BY <1>1, <4>1 DEF HandlerMoves, LockMove
      <3>5. Guards(l.on)'
        BY <2>8, <2>13, <3>3 DEF Guards
      <3>6. QED
        BY <3>3, <3>4, <3>5
    <2>15. GoodIsBacked'
      <3>1. Justified(k0, b0, reader.action, keyRow, principal, policy)' => good
        BY <2>7, <2>8, <2>11, <2>13 DEF Justified
      <3>2. QED
        BY <2>8, <2>11, <2>13, <3>1 DEF ReaderInv, GoodIsBacked
    <2>16. OneRevision'
      BY <1>4, <2>4, <2>5, <2>8, <2>13 DEF ReaderInv, OneRevision
    <2>17. QED
      BY <1>2, <2>12, <2>14, <2>15, <2>16 DEF ReaderInv
  <1>5. QED
    BY <1>3, <1>4

LEMMA InitReads ==
    ASSUME ReadersInit
    PROVE  ReaderInv
  <1>1. reader \in Sessions /\ reader.pc = "none" /\ ~reader.torn /\ ~reader.authorized
    BY NoReaderIsOne DEF ReadersInit, NoReader
  <1>2. /\ reader.pc \in Ended
        /\ reader.pc \notin PolicyAhead \cup {"sign", "denied"} \cup Asking \cup Linked
    BY <1>1 DEF Ended, PolicyAhead, PrincipalAhead, KeyAhead, Asking, Linked
  <1>3. locks = {}
    BY DEF ReadersInit, Init
  <1>4. QED
    BY <1>1, <1>2, <1>3
       DEF ReaderInv, ReaderOK, ModesMatch, WritesAhead, GoodIsBacked, OneRevision

LEMMA StutterReads ==
    ASSUME ReaderInv, UNCHANGED <<vars, reader>>
    PROVE  ReaderInv'
  <1>1. /\ UNCHANGED <<locks, keyRow, owner, principal, policy, returned, reader>>
        /\ k0' = k0 /\ b0' = b0 /\ p0' = p0
    BY DEF vars, k0, b0, p0
  <1>2. ReaderOK' /\ ModesMatch' /\ OneRevision'
    BY <1>1 DEF ReaderInv, ReaderOK, ModesMatch, RightMode, OneRevision
  <1>3. WritesAhead' /\ GoodIsBacked'
    BY <1>1 DEF ReaderInv, WritesAhead, GoodIsBacked, Guards, Justified
  <1>4. QED
    BY <1>2, <1>3 DEF ReaderInv

-----------------------------------------------------------------------------
(***************************************************************************)
(* The theorems.                                                           *)
(***************************************************************************)
\* Readers change nothing: whatever holds of Access holds of it with readers.
THEOREM ReadersOnlyRead == ReadersSpec => Spec
  <1>1. ReadersInit => Init
    BY DEF ReadersInit
  <1>2. [ReadersNext]_<<vars, reader>> => [Next]_vars
    BY DEF ReadersNext
  <1>3. QED
    BY <1>1, <1>2, PTL DEF ReadersSpec, Spec

\* What a session has concluded from its reads stays true under every handler and fault.
THEOREM SessionsAreSound == ReadersSpec => []ReaderInv
  <1>1. ReadersInit => ReaderInv
    BY InitReads
  <1>2. AccessInv /\ KeysHaveLiveOwners /\ WriteInv /\ GrantsInv /\ RevokeInv /\ ReaderInv
          /\ [ReadersNext]_<<vars, reader>> => ReaderInv'
    <2>. SUFFICES ASSUME AccessInv, KeysHaveLiveOwners, WriteInv, GrantsInv, RevokeInv,
                         ReaderInv, [ReadersNext]_<<vars, reader>>
                  PROVE  ReaderInv'
      OBVIOUS
    <2>1. CASE Next /\ reader' = Watched
      BY <2>1, WatchedKeeps DEF Next
    <2>2. CASE ReadStep /\ UNCHANGED vars
      BY <2>2, ReadKeeps DEF AccessInv, RevokeInv
    <2>3. CASE UNCHANGED <<vars, reader>>
      BY <2>3, StutterReads
    <2>4. QED
      BY <2>1, <2>2, <2>3 DEF ReadersNext
  <1>3. QED
    BY <1>1, <1>2, ReadersOnlyRead, LockDiscipline, KeysDieWithTheirPrincipal,
       PolicyRowsAreGuarded, NoKeyIsOverlooked, GoneKeysHoldNothing, PTL DEF ReadersSpec

\* Authorize decides (auth.go, with the share locks of the stores) only when every change
\* of the key, the principal or the policy it met in flight is over: any number of
\* handlers, and every fault.
THEOREM AlwaysAnsweredFromTheNewState == ReadersSpec => []AnsweredFromTheNewState
  <1>1. ReaderInv => AnsweredFromTheNewState
    <2>. SUFFICES ASSUME ReaderInv, reader.pc \in {"sign", "denied"}, NEW s \in reader.pending
                  PROVE  FALSE
      BY DEF AnsweredFromTheNewState
    <2>1. \E res : Guards(res)
      BY DEF ReaderInv, WritesAhead
    <2>2. QED
      BY <2>1 DEF Guards, PolicyAhead, PrincipalAhead, KeyAhead
  <1>2. QED
    BY <1>1, SessionsAreSound, PTL

\* Key-signed delegations that a session of Authorize and Info can use were issued for a
\* credential that was good for the request at one moment since it arrived; so were the
\* tenant's cleanup delegations, or the key's row is gone (auth.go, authorize.go).
THEOREM UsableIsAlwaysJustified == ReadersSpec => []UsableIsJustified
  <1>1. ReaderInv => UsableIsJustified
    BY DEF ReaderInv, GoodIsBacked, UsableIsJustified, Reads, Linked
  <1>2. QED
    BY <1>1, SessionsAreSound, PTL

\* The actions, the grants and the chains that Info pairs (bucket service, listGrants and
\* policyETag) were all true at one moment, whatever is written in between.
THEOREM InfoIsAlwaysOneRevision == ReadersSpec => []InfoIsOneRevision
  <1>1. ReaderInv => InfoIsOneRevision
    BY DEF ReaderInv, OneRevision, InfoIsOneRevision, Reads, Linked
  <1>2. QED
    BY <1>1, SessionsAreSound, PTL
=============================================================================
