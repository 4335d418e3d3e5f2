-------------------------- MODULE AccessKeyService --------------------------
(***************************************************************************)
(* Principal-bound access keys: accesskey.Service Create, with the         *)
(* rollback it runs on a failure, and Delete.                              *)
(***************************************************************************)
EXTENDS PrincipalService

keyOf(s) == call[s].key

\* Bound: as many creations at most as there are ids left to generate.
KeysLeft == Cardinality({k \in Keys : owner[k] = None})
            > Cardinality({t \in Procs : call[t].pc \in {"ckPrincipal", "ckSecret"}})

BeginCreateKey(s) ==
    /\ Begin(s, "createKey")
    /\ KeysLeft
    /\ \E p \in Principals :
          call' = [call EXCEPT ![s] = [Idle("answered") EXCEPT
                     !.pc = "ckPrincipal", !.kind = "createKey", !.principal = p]]
    /\ UNCHANGED <<tables, locks>>

\* The share-locked lookup waits for a removal or a rotation holding the row,
\* and the short transaction lets the row go at once.
FindPrincipal(s) ==
    /\ At(s, "ckPrincipal")
    /\ CanLock(locks, s, <<"principal", principalOf(s)>>, "SHARE")
    /\ IF principal[principalOf(s)] = "live"
       THEN Goto(s, "ckSecret") ELSE Finish(s, "answered")
    /\ UNCHANGED <<tables, locks>>

\* Generate the key and write its private half to the vault.
WriteSecret(s) ==
    /\ At(s, "ckSecret")
    /\ \E k \in Keys :
          /\ owner[k] = None
          /\ owner' = [owner EXCEPT ![k] = principalOf(s)]
          /\ secrets' = secrets \cup {k}
          /\ call' = [call EXCEPT ![s].key = k, ![s].pc = "ckAdd"]
    /\ UNCHANGED <<principal, buckets, policy, keyRow, held, revoked, returned, excused, locks>>

\* Mutant of AddKey: the principal is read without a lock.
AddKeyUnlocked(s) ==
    /\ At(s, "ckAdd")
    /\ IF principal[principalOf(s)] = "live"
       THEN keyRow' = keyRow \cup {keyOf(s)} /\ Goto(s, "ckSnap") /\ UNCHANGED locks
       ELSE Fail(s, "invalid") /\ UNCHANGED keyRow
    /\ UNCHANGED <<principal, buckets, policy, owner, held, revoked, secrets, returned, excused>>

\* accessKeys.Add: share-lock the principal, refuse a missing or removed one.
AddKey(s) ==
    /\ At(s, "ckAdd")
    /\ CanLock(locks, s, <<"principal", principalOf(s)>>, "SHARE")
    /\ IF principal[principalOf(s)] = "live"
       THEN keyRow' = keyRow \cup {keyOf(s)} /\ Goto(s, "ckSnap") /\ UNCHANGED locks
       ELSE Fail(s, "invalid") /\ UNCHANGED keyRow
    /\ UNCHANGED <<principal, buckets, policy, owner, held, revoked, secrets, returned, excused>>

\* What the policies read give the new key.
Derived(s, docs) == [b \in Buckets |-> Grants(docs[b], principalOf(s))]

\* With the listing done: store the delegations, if there are any.
AfterListing(s, docs) ==
    IF \E b \in Buckets : Derived(s, docs)[b] # {} THEN "ckStore" ELSE "ckGet"

\* ListByPrincipal FOR SHARE: its snapshot fixes which rows it visits; a policy
\* committed later has no row in it.
ListSnapshot(s) ==
    /\ At(s, "ckSnap")
    /\ LET bs == ListByPrincipal(principalOf(s))
       IN  call' = [call EXCEPT ![s].want = bs,
                      ![s].pc = IF bs = {} THEN AfterListing(s, NoDocs) ELSE "ckRows"]
    /\ UNCHANGED <<tables, locks>>

\* Each row is share-locked in bucket order, so it is read as last committed;
\* one deleted meanwhile is skipped.  The locks go when the last row is read.
ListRows(s) ==
    /\ At(s, "ckRows")
    /\ \E b \in Buckets :
          LET docs == [call[s].snap EXCEPT ![b] = policy[b]]
              row == <<"policyRow", b>>
              last == call[s].want = {b}
          IN  /\ Next1(s, b)
              /\ CanLock(locks, s, row, "SHARE")
              /\ locks' = CASE last -> Released(locks, s)
                            [] ~last /\ policy[b] = NoPolicy -> locks
                            [] OTHER -> Granted(locks, s, row, "SHARE")
              /\ call' = [call EXCEPT ![s].want = @ \ {b}, ![s].snap = docs,
                            ![s].pc = IF last THEN AfterListing(s, docs) ELSE "ckRows"]
    /\ UNCHANGED tables

\* Mutant of StoreGrants: the key's delegations are overwritten whatever they are.
StoreOverwrites(s) ==
    /\ At(s, "ckStore")
    /\ CanLock(locks, s, <<"audience", keyOf(s)>>, "exclusive")
    /\ held' = [held EXCEPT ![keyOf(s)] = Derived(s, call[s].snap)]
    /\ Goto(s, "ckGet")
    /\ UNCHANGED <<principal, buckets, policy, keyRow, owner, revoked, secrets, returned,
                   excused, locks>>

\* Replace under the key's delegation lock; a key that holds anything was
\* rotated meanwhile.
StoreGrants(s) ==
    /\ At(s, "ckStore")
    /\ CanLock(locks, s, <<"audience", keyOf(s)>>, "exclusive")
    /\ IF Holds(keyOf(s))
       THEN Fail(s, "refused") /\ UNCHANGED held
       ELSE /\ held' = [held EXCEPT ![keyOf(s)] = Derived(s, call[s].snap)]
            /\ Goto(s, "ckGet") /\ UNCHANGED locks
    /\ UNCHANGED <<principal, buckets, policy, keyRow, owner, revoked, secrets, returned, excused>>

\* Mutant of ReturnKey: the answer does not load the record.
ReturnUnread(s) ==
    /\ At(s, "ckGet")
    /\ returned' = returned \cup {keyOf(s)}
    /\ Finish(s, "answered")
    /\ UNCHANGED <<principal, buckets, policy, keyRow, owner, held, revoked, secrets, excused, locks>>

\* Load the record and answer with the secret.
ReturnKey(s) ==
    /\ At(s, "ckGet")
    /\ IF keyOf(s) \in keyRow
       THEN returned' = returned \cup {keyOf(s)} /\ Finish(s, "answered") /\ UNCHANGED locks
       ELSE Fail(s, "notfound") /\ UNCHANGED returned
    /\ UNCHANGED <<principal, buckets, policy, keyRow, owner, held, revoked, secrets, excused>>

-----------------------------------------------------------------------------
(***************************************************************************)
(* rollback: three best-effort deletes, each on its own, each of which may *)
(* fail and be logged.                                                     *)
(***************************************************************************)
\* Mutant of RollbackGrants: the vault entry goes first.
RollbackSecretFirst(s) ==
    /\ At(s, "rbGrants")
    /\ CanLock(locks, s, <<"audience", keyOf(s)>>, "exclusive")
    /\ ClearGrants({keyOf(s)})
    /\ secrets' = secrets \ {keyOf(s)}
    /\ Goto(s, "rbRow")
    /\ UNCHANGED <<principal, buckets, policy, keyRow, owner, returned, locks>>

RollbackGrants(s) ==
    /\ At(s, "rbGrants")
    /\ CanLock(locks, s, <<"audience", keyOf(s)>>, "exclusive")
    /\ ClearGrants({keyOf(s)})
    /\ Goto(s, "rbRow")
    /\ UNCHANGED <<principal, buckets, policy, keyRow, owner, secrets, returned, locks>>

RollbackRow(s) ==
    /\ At(s, "rbRow")
    /\ CanLock(locks, s, <<"keyRow", keyOf(s)>>, "UPDATE")
    /\ keyRow' = keyRow \ {keyOf(s)}
    /\ Goto(s, "rbSecret")
    /\ UNCHANGED <<principal, buckets, policy, owner, held, revoked, secrets, returned, excused, locks>>

RollbackSecret(s) ==
    /\ At(s, "rbSecret")
    /\ secrets' = secrets \ {keyOf(s)}
    /\ Finish(s, call[s].res)
    /\ UNCHANGED <<principal, buckets, policy, keyRow, owner, held, revoked, returned, excused, locks>>

\* A step of the rollback fails or gives up waiting: the next one runs.
RollbackSkip(s) ==
    /\ \/ "error" \in Faults
       \/ /\ "timeout" \in Faults /\ At(s, "rbGrants")
          /\ ~CanLock(locks, s, <<"audience", keyOf(s)>>, "exclusive")
       \/ /\ "timeout" \in Faults /\ At(s, "rbRow")
          /\ ~CanLock(locks, s, <<"keyRow", keyOf(s)>>, "UPDATE")
    /\ \/ At(s, "rbGrants") /\ Goto(s, "rbRow")
       \/ At(s, "rbRow") /\ Goto(s, "rbSecret")
       \/ At(s, "rbSecret") /\ Finish(s, call[s].res)
    /\ UNCHANGED <<tables, locks>>

-----------------------------------------------------------------------------
(***************************************************************************)
(* Delete: revoke, delete the row and the delegations under the key's      *)
(* delegation lock, then the vault entry.                                  *)
(***************************************************************************)
BeginDeleteKey(s) ==
    /\ Begin(s, "deleteKey")
    /\ \E k \in keyRow :
          call' = [call EXCEPT ![s] = [Idle("answered") EXCEPT
                     !.pc = "kdLock", !.kind = "deleteKey", !.key = k,
                     !.keys = {k}, !.want = {k}]]
    /\ UNCHANGED <<tables, locks>>

DeleteLock(s) == LockAudiences(s, "kdLock", "kdPublish")

DeletePublish(s) ==
    /\ At(s, "kdPublish")
    /\ CanLock(locks, s, <<"keyRow", keyOf(s)>>, "UPDATE")
    /\ PublishRevocations(s, {keyOf(s)} \X Buckets,
         /\ locks' = Granted(locks, s, <<"keyRow", keyOf(s)>>, "UPDATE")
         /\ Goto(s, "kdCommit"))
    /\ UNCHANGED <<principal, buckets, policy, keyRow, owner, held, secrets, returned, excused>>

DeleteCommit(s) ==
    /\ At(s, "kdCommit")
    /\ keyRow' = keyRow \ {keyOf(s)}
    /\ ClearGrants({keyOf(s)})
    /\ Release(s)
    /\ Goto(s, "kdSecret")
    /\ UNCHANGED <<principal, buckets, policy, owner, secrets, returned>>

DeleteSecret(s) ==
    /\ At(s, "kdSecret")
    /\ \/ secrets' = secrets \ {keyOf(s)}
       \/ "error" \in Faults /\ UNCHANGED secrets
    /\ Finish(s, "answered")
    /\ UNCHANGED <<principal, buckets, policy, keyRow, owner, held, revoked, returned, excused, locks>>

AccessKeyStep(s) ==
    \/ BeginCreateKey(s) \/ FindPrincipal(s) \/ WriteSecret(s) \/ AddKey(s)
    \/ ListSnapshot(s) \/ ListRows(s) \/ StoreGrants(s) \/ ReturnKey(s)
    \/ RollbackGrants(s) \/ RollbackRow(s) \/ RollbackSecret(s)
    \/ BeginDeleteKey(s) \/ DeleteLock(s) \/ DeletePublish(s) \/ DeleteCommit(s)
    \/ DeleteSecret(s)
=============================================================================
