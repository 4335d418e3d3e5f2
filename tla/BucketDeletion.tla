--------------------------- MODULE BucketDeletion ---------------------------
(***************************************************************************)
(* Deleting a bucket: the rpc bucket service's Delete from the point where *)
(* the caller is authorized and the space is known to be empty, over the   *)
(* policy store's DeleteByBucket, the delegation store's DeleteBySubject   *)
(* and the bucket store's Delete.                                          *)
(***************************************************************************)
EXTENDS AccessKeyService

BeginDeleteBucket(s) ==
    /\ Begin(s, "deleteBucket")
    /\ \E b \in buckets :
          call' = [call EXCEPT ![s] = [Idle("answered") EXCEPT
                     !.pc = "dbLock", !.kind = "deleteBucket", !.bucket = b]]
    /\ UNCHANGED <<tables, locks>>

DeleteByBucket(s) ==
    /\ At(s, "dbLock")
    /\ Take(s, <<"bucket", bucketOf(s)>>, "exclusive")
    /\ Goto(s, "dbRevoke")
    /\ UNCHANGED tables

\* revokeDelegations: list what is stored over the bucket and publish, without
\* a delegation lock.
RevokeSubject(s) ==
    /\ At(s, "dbRevoke")
    /\ PublishRevocations(s, Keys \X {bucketOf(s)}, Goto(s, "dbAudiences") /\ UNCHANGED locks)
    /\ UNCHANGED <<principal, buckets, policy, keyRow, owner, held, secrets, returned, excused>>

\* DeleteBySubject reads the audiences, locks them, and deletes every
\* delegation over the bucket it finds then.
HoldersOf(b) == {k \in Keys : held[k][b] # {}}

SubjectAudiences(s) ==
    /\ At(s, "dbAudiences")
    /\ LET ks == HoldersOf(bucketOf(s))
       IN  call' = [call EXCEPT ![s].want = ks,
                                ![s].pc = IF ks = {} THEN "dbDelete" ELSE "dbLockK"]
    /\ UNCHANGED <<tables, locks>>

SubjectLock(s) == LockAudiences(s, "dbLockK", "dbDelete")

DeleteBySubject(s) ==
    /\ At(s, "dbDelete")
    /\ call' = [call EXCEPT ![s].keys = HoldersOf(bucketOf(s)), ![s].pc = "dbCommit"]
    /\ UNCHANGED <<tables, locks>>

\* The bucket row's delete cascades to the policy row; it waits for a key
\* creation reading that row.
DeleteBucketRow(s) ==
    /\ At(s, "dbCommit")
    /\ CanLock(locks, s, <<"bucketRow", bucketOf(s)>>, "UPDATE")
    /\ CanLock(locks, s, <<"policyRow", bucketOf(s)>>, "UPDATE")
    /\ buckets' = buckets \ {bucketOf(s)}
    /\ policy' = [policy EXCEPT ![bucketOf(s)] = NoPolicy]
    /\ held' = [k \in Keys |-> IF k \in call[s].keys
                               THEN [held[k] EXCEPT ![bucketOf(s)] = {}] ELSE held[k]]
    /\ revoked' = revoked \ (call[s].keys \X {bucketOf(s)})
    /\ excused' = excused \ (call[s].keys \X {bucketOf(s)})
    /\ Release(s)
    /\ Finish(s, "answered")
    /\ UNCHANGED <<principal, keyRow, owner, secrets, returned>>

BucketStep(s) ==
    \/ BeginDeleteBucket(s) \/ DeleteByBucket(s) \/ RevokeSubject(s) \/ SubjectAudiences(s)
    \/ SubjectLock(s) \/ DeleteBySubject(s) \/ DeleteBucketRow(s)
=============================================================================
