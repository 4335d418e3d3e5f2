--------------------------- MODULE PolicyService ---------------------------
(***************************************************************************)
(* Policy writes: bucketpolicy.Service Write and Remove over the Postgres  *)
(* policy store's Put and Delete, with the rotation of the affected        *)
(* principals' keys that runs inside their transaction.                    *)
(*                                                                         *)
(* Put and Delete share their steps: a call whose doc is NoPolicy is a     *)
(* Delete.  A principal's removal uses them too, without a callback, and   *)
(* comes back to its own loop.                                             *)
(***************************************************************************)
EXTENDS AccessStore

bucketOf(s) == call[s].bucket
docOf(s) == call[s].doc

\* Service.Write: validate against the tenant's principals, then Put.
BeginWrite(s) ==
    /\ Begin(s, "writePolicy")
    /\ \E b \in buckets, d \in Docs, m \in Conds :
          IF Named(d) \subseteq ListIDsByTenant
          THEN call' = [call EXCEPT ![s] = [Idle("answered") EXCEPT
                          !.pc = "tenant", !.kind = "writePolicy",
                          !.bucket = b, !.doc = d, !.match = m]]
          ELSE Finish(s, "answered")
    /\ UNCHANGED <<tables, locks>>

\* Service.Remove: Delete, with or without an If-Match.
BeginRemove(s) ==
    /\ Begin(s, "removePolicy")
    /\ \E b \in buckets, m \in {c \in Conds : c.cond # "none"} :
          call' = [call EXCEPT ![s] = [Idle("answered") EXCEPT
                     !.pc = "bucket", !.kind = "removePolicy",
                     !.bucket = b, !.doc = NoPolicy, !.match = m]]
    /\ UNCHANGED <<tables, locks>>

\* Put takes the tenant's advisory lock shared: no principal is added meanwhile.
TakeTenant(s) ==
    /\ At(s, "tenant")
    /\ Take(s, <<"tenant", None>>, "shared")
    /\ call' = [call EXCEPT ![s].want = Named(docOf(s)),
                            ![s].pc = IF Named(docOf(s)) = {} THEN "bucket" ELSE "named"]
    /\ UNCHANGED tables

\* Mutant of RequireLive: the rows are read without a lock.
RequireLiveUnlocked(s) ==
    /\ At(s, "named")
    /\ \E p \in call[s].want :
          IF principal[p] = "live"
          THEN call' = Looped(s, p, "named", "bucket") /\ UNCHANGED locks
          ELSE Fail(s, "invalid")
    /\ UNCHANGED tables

\* requireLivePrincipals: key-share lock the named rows and refuse a missing or
\* a removed one.  The statement has no order of its own.
RequireLive(s) ==
    /\ At(s, "named")
    /\ \E p \in call[s].want :
          \/ principal[p] = "absent" /\ Fail(s, "invalid")
          \/ /\ principal[p] = "removed"
             /\ CanLock(locks, s, <<"principal", p>>, "KEY SHARE")
             /\ Fail(s, "invalid")
          \/ /\ principal[p] = "live"
             /\ Take(s, <<"principal", p>>, "KEY SHARE")
             /\ call' = Looped(s, p, "named", "bucket")
    /\ UNCHANGED tables

\* Mutant of TakeBucket: no advisory lock, the row's lock alone.
TakeNoBucket(s) ==
    /\ At(s, "bucket")
    /\ Goto(s, IF docOf(s) = NoPolicy THEN "row" ELSE "bucketRow")
    /\ UNCHANGED <<tables, locks>>

\* The bucket's advisory lock, exclusive, in Put and in Delete.
TakeBucket(s) ==
    /\ At(s, "bucket")
    /\ Take(s, <<"bucket", bucketOf(s)>>, "exclusive")
    /\ Goto(s, IF docOf(s) = NoPolicy THEN "row" ELSE "bucketRow")
    /\ UNCHANGED tables

\* Mutant of TakeBucketRow: nobody looks whether the bucket is still there.
TakeBucketRowUnchecked(s) ==
    /\ At(s, "bucketRow")
    /\ Take(s, <<"bucketRow", bucketOf(s)>>, "KEY SHARE")
    /\ Goto(s, "row")
    /\ UNCHANGED tables

\* Put key-share locks the bucket row, or fails when the bucket is gone.
TakeBucketRow(s) ==
    /\ At(s, "bucketRow")
    /\ IF bucketOf(s) \in buckets
       THEN Take(s, <<"bucketRow", bucketOf(s)>>, "KEY SHARE") /\ Goto(s, "row")
       ELSE Fail(s, "notfound")
    /\ UNCHANGED tables

\* The precondition of the write on the row it has locked.
Refusal(s, old) ==
    CASE docOf(s) = NoPolicy /\ old = NoPolicy -> "notfound"
      [] ~CheckPrecondition(old, call[s].match) -> "precondition"
      [] OTHER -> "none"

\* lockRow, then the precondition.  A strip that finds its policy already
\* deleted goes on with the next one.
LockRow(s) ==
    /\ At(s, "row")
    /\ LET old == policy[bucketOf(s)]
           row == <<"policyRow", bucketOf(s)>>
           err == Refusal(s, old)
       IN  /\ old # NoPolicy => CanLock(locks, s, row, "UPDATE")
           /\ IF err = "notfound" /\ call[s].kind = "removePrincipal"
              THEN Release(s) /\ Goto(s, "strip")
              ELSE IF err # "none"
              THEN Fail(s, err)
              ELSE /\ locks' = IF old = NoPolicy THEN locks
                               ELSE Granted(locks, s, row, "UPDATE")
                   /\ call' = [call EXCEPT ![s].old = old,
                                 ![s].pc = IF call[s].kind = "removePrincipal"
                                           THEN "commit" ELSE "relist"]
    /\ UNCHANGED tables

-----------------------------------------------------------------------------
(***************************************************************************)
(* The callback of Write and Remove, with the bucket locked.               *)
(***************************************************************************)

\* List the principals again and work out who the change affects.
Relist(s) ==
    /\ At(s, "relist")
    /\ LET aff == Changed(call[s].old, docOf(s), ListIDsByTenant)
       IN  IF Named(docOf(s)) \subseteq ListIDsByTenant
           THEN /\ call' = [call EXCEPT ![s].aff = aff, ![s].want = aff,
                                        ![s].pc = IF aff = {} THEN "commit" ELSE "lockP"]
                /\ UNCHANGED locks
           ELSE Fail(s, "invalid")
    /\ UNCHANGED tables

\* WithLock: the live rows of the affected principals, in order.
LockPrincipals(s) ==
    /\ At(s, "lockP")
    /\ \E p \in Principals :
          /\ Next1(s, p)
          /\ IF principal[p] = "live"
             THEN Take(s, <<"principal", p>>, "NO KEY UPDATE")
             ELSE UNCHANGED locks
          /\ call' = Looped(s, p, "lockP", "load")
    /\ UNCHANGED tables

\* Rotator.load: the keys of the affected principals.
Load(s) ==
    /\ At(s, "load")
    /\ LET ks == KeysOf(call[s].aff)
       IN  call' = [call EXCEPT ![s].keys = ks, ![s].want = ks,
                                ![s].pc = IF ks = {} THEN "commit" ELSE "lockK"]
    /\ UNCHANGED <<tables, locks>>

LockRotated(s) == LockAudiences(s, "lockK", "publish")

\* The callback of ReplaceOver: see which keys remain, revoke what those hold
\* over the bucket; they get fresh delegations at the commit.
Rotate(s) ==
    /\ At(s, "publish")
    /\ LET remaining == call[s].keys \cap keyRow
       IN  PublishRevocations(s, remaining \X {bucketOf(s)},
             /\ call' = [call EXCEPT ![s].fresh = remaining, ![s].pc = "commit"]
             /\ UNCHANGED locks)
    /\ UNCHANGED <<principal, buckets, policy, keyRow, owner, held, secrets, returned, excused>>

\* What a key holds over the bucket once the write commits.
Rotated(s, k) ==
    IF k \in call[s].fresh THEN Grants(docOf(s), owner[k]) ELSE {}

\* The pairs this commit lets go of: a rotation that leaves nothing on a key
\* whose creation has not answered yet, and a strip, which rotates nothing.
LetGo(s) ==
    IF call[s].kind = "removePrincipal"
    THEN {k \in Keys : owner[k] = call[s].principal}
    ELSE {k \in call[s].keys \ returned : Rotated(s, k) = {}}

\* Write the row and its index, and commit with the delegations.
Commit(s) ==
    /\ At(s, "commit")
    /\ policy' = [policy EXCEPT ![bucketOf(s)] = docOf(s)]
    /\ held' = [k \in Keys |-> IF k \in call[s].keys
                               THEN [held[k] EXCEPT ![bucketOf(s)] = Rotated(s, k)]
                               ELSE held[k]]
    /\ revoked' = revoked \ (call[s].keys \X {bucketOf(s)})
    /\ excused' = (excused \ (call[s].keys \X {bucketOf(s)}))
                  \cup (LetGo(s) \X {bucketOf(s)})
    /\ Release(s)
    /\ IF call[s].kind = "removePrincipal" THEN Goto(s, "strip") ELSE Finish(s, "answered")
    /\ UNCHANGED <<principal, buckets, keyRow, owner, secrets, returned>>

PolicyStep(s) ==
    \/ BeginWrite(s) \/ BeginRemove(s)
    \/ TakeTenant(s) \/ RequireLive(s) \/ TakeBucket(s) \/ TakeBucketRow(s) \/ LockRow(s)
    \/ Relist(s) \/ LockPrincipals(s) \/ Load(s) \/ LockRotated(s) \/ Rotate(s) \/ Commit(s)
=============================================================================
