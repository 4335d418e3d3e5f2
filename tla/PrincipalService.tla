-------------------------- MODULE PrincipalService --------------------------
(***************************************************************************)
(* The principal service: Create over the store's Add, and Delete, which   *)
(* revokes what the principal's keys hold, strips the principal from every *)
(* policy naming it and then tombstones its row with the keys.             *)
(***************************************************************************)
EXTENDS PolicyService

principalOf(s) == call[s].principal

BeginCreatePrincipal(s) ==
    /\ Begin(s, "createPrincipal")
    /\ \E p \in Principals :
          call' = [call EXCEPT ![s] = [Idle("answered") EXCEPT
                     !.pc = "addTenant", !.kind = "createPrincipal", !.principal = p]]
    /\ UNCHANGED <<tables, locks>>

AddTenant(s) ==
    /\ At(s, "addTenant")
    /\ Take(s, <<"tenant", None>>, "exclusive")
    /\ Goto(s, "addRow")
    /\ UNCHANGED tables

\* The upsert waits for a removal holding the row, revives a tombstone and
\* leaves a live row alone (ErrRecordExists).
AddRow(s) ==
    /\ At(s, "addRow")
    /\ CanLock(locks, s, <<"principal", principalOf(s)>>, "NO KEY UPDATE")
    /\ principal' = [principal EXCEPT ![principalOf(s)] = "live"]
    /\ Release(s)
    /\ Goto(s, "addGet")
    /\ UNCHANGED <<buckets, policy, keyRow, owner, held, revoked, secrets, returned, excused>>

\* The unlocked read back: a removal may have committed in between, and the
\* caller is then told to repeat the call (ErrConcurrentChange).
AddGet(s) ==
    /\ At(s, "addGet")
    /\ Finish(s, "answered")
    /\ UNCHANGED <<tables, locks>>

-----------------------------------------------------------------------------
(***************************************************************************)
(* Delete, first part: Rotator.Revoke in a transaction of its own.         *)
(***************************************************************************)
BeginDeletePrincipal(s) ==
    /\ Begin(s, "removePrincipal")
    /\ \E p \in Principals :
          call' = [call EXCEPT ![s] = [Idle("answered") EXCEPT
                     !.pc = "rvLoad", !.kind = "removePrincipal", !.principal = p]]
    /\ UNCHANGED <<tables, locks>>

RevokeLoad(s) ==
    /\ At(s, "rvLoad")
    /\ LET ks == KeysOf({principalOf(s)})
       IN  call' = [call EXCEPT ![s].keys = ks, ![s].want = ks,
                                ![s].pc = IF ks = {} THEN "stripList" ELSE "rvLock"]
    /\ UNCHANGED <<tables, locks>>

RevokeLock(s) == LockAudiences(s, "rvLock", "rvPublish")

RevokePublish(s) ==
    /\ At(s, "rvPublish")
    /\ PublishRevocations(s, call[s].keys \X Buckets, Goto(s, "rvCommit") /\ UNCHANGED locks)
    /\ UNCHANGED <<principal, buckets, policy, keyRow, owner, held, secrets, returned, excused>>

\* Mutant of RevokeCommit: one transaction for the revocation and the strip.
RevokeWithoutCommit(s) ==
    /\ At(s, "rvCommit")
    /\ held' = [k \in Keys |-> IF k \in call[s].keys THEN [b \in Buckets |-> {}] ELSE held[k]]
    /\ revoked' = revoked \ (call[s].keys \X Buckets)
    /\ excused' = excused \cup (call[s].keys \X Buckets)
    /\ call' = [call EXCEPT ![s].keys = {}, ![s].pc = "stripList"]
    /\ UNCHANGED <<principal, buckets, policy, keyRow, owner, secrets, returned, locks>>

\* The keys keep their rows with nothing, whatever the policies still say.
RevokeCommit(s) ==
    /\ At(s, "rvCommit")
    /\ held' = [k \in Keys |-> IF k \in call[s].keys THEN [b \in Buckets |-> {}] ELSE held[k]]
    /\ revoked' = revoked \ (call[s].keys \X Buckets)
    /\ excused' = excused \cup (call[s].keys \X Buckets)
    /\ Release(s)
    /\ call' = [call EXCEPT ![s].keys = {}, ![s].pc = "stripList"]
    /\ UNCHANGED <<principal, buckets, policy, keyRow, owner, secrets, returned>>

-----------------------------------------------------------------------------
(***************************************************************************)
(* Second part: stripFromPolicies, one conditional write per policy.       *)
(***************************************************************************)
StripList(s) ==
    /\ At(s, "stripList")
    /\ call' = [call EXCEPT ![s].todo = ListByPrincipal(principalOf(s)),
                            ![s].snap = policy, ![s].pc = "strip"]
    /\ UNCHANGED <<tables, locks>>

\* One that only the wildcard lists is left alone; one left with no statement is
\* deleted.
StripWrite(s, old, new) ==
    IF principalOf(s) \notin Named(old) THEN "strip"
    ELSE IF new = NoPolicy THEN "bucket" ELSE "tenant"

\* The next listed policy, in bucket order.
StripPolicy(s) ==
    /\ At(s, "strip") /\ call[s].todo # {}
    /\ \E b \in call[s].todo :
          LET old == call[s].snap[b]
              new == RemovePrincipal(old, principalOf(s))
          IN  /\ \A c \in call[s].todo : b <= c
              /\ call' = [call EXCEPT
                    ![s].todo = @ \ {b}, ![s].bucket = b, ![s].doc = new,
                    ![s].match = IfMatch(ETag(old)),
                    ![s].pc = StripWrite(s, old, new)]
    /\ UNCHANGED <<tables, locks>>

StripDone(s) ==
    /\ At(s, "strip") /\ call[s].todo = {}
    /\ Goto(s, "tomb")
    /\ UNCHANGED <<tables, locks>>

-----------------------------------------------------------------------------
(***************************************************************************)
(* Third part: Tombstone, with remove as its callback.                     *)
(***************************************************************************)
Tombstone(s) ==
    /\ At(s, "tomb")
    /\ IF principal[principalOf(s)] = "absent"
       THEN Finish(s, "answered") /\ UNCHANGED locks
       ELSE /\ CanLock(locks, s, <<"principal", principalOf(s)>>, "UPDATE")
            /\ IF principal[principalOf(s)] = "removed"
               THEN Finish(s, "answered") /\ UNCHANGED locks
               ELSE /\ locks' = Granted(locks, s, <<"principal", principalOf(s)>>, "UPDATE")
                    /\ Goto(s, "tombCheck")
    /\ UNCHANGED tables

\* remove: no policy may name the principal again.
NamedAgain(s) ==
    /\ At(s, "tombCheck")
    /\ IF \E b \in ListByPrincipal(principalOf(s)) : principalOf(s) \in Named(policy[b])
       THEN Fail(s, "concurrent")
       ELSE Goto(s, "tombKeys") /\ UNCHANGED locks
    /\ UNCHANGED tables

RemoveLoad(s) ==
    /\ At(s, "tombKeys")
    /\ LET ks == KeysOf({principalOf(s)})
       IN  call' = [call EXCEPT ![s].keys = ks, ![s].want = ks,
                                ![s].pc = IF ks = {} THEN "tombCommit" ELSE "tombLock"]
    /\ UNCHANGED <<tables, locks>>

RemoveLock(s) == LockAudiences(s, "tombLock", "tombPublish")

\* Revoke what the keys hold and delete their rows, inside the transaction.
RemovePublish(s) ==
    /\ At(s, "tombPublish")
    /\ \A k \in call[s].keys : CanLock(locks, s, <<"keyRow", k>>, "UPDATE")
    /\ PublishRevocations(s, call[s].keys \X Buckets,
         /\ Goto(s, "tombSecrets")
         /\ locks' = locks \cup {[by |-> s, on |-> <<"keyRow", k>>, mode |-> "UPDATE"] :
                                    k \in call[s].keys})
    /\ UNCHANGED <<principal, buckets, policy, keyRow, owner, held, secrets, returned, excused>>

\* The vault entries go before the outer transaction commits; a failed delete
\* is logged and left.
RemoveSecrets(s) ==
    /\ At(s, "tombSecrets")
    /\ \/ secrets' = secrets \ call[s].keys
       \/ "error" \in Faults /\ \E kept \in SUBSET call[s].keys :
                                   secrets' = secrets \ (call[s].keys \ kept)
    /\ Goto(s, "tombCommit")
    /\ UNCHANGED <<principal, buckets, policy, keyRow, owner, held, revoked, returned, excused, locks>>

\* The keys' delegations leave the table.
ClearGrants(ks) ==
    /\ held' = [k \in Keys |-> IF k \in ks THEN [b \in Buckets |-> {}] ELSE held[k]]
    /\ revoked' = revoked \ (ks \X Buckets)
    /\ excused' = excused \ (ks \X Buckets)

TombstoneCommit(s) ==
    /\ At(s, "tombCommit")
    /\ principal' = [principal EXCEPT ![principalOf(s)] = "removed"]
    /\ keyRow' = keyRow \ call[s].keys
    /\ ClearGrants(call[s].keys)
    /\ Release(s)
    /\ Finish(s, "answered")
    /\ UNCHANGED <<buckets, policy, owner, secrets, returned>>

PrincipalStep(s) ==
    \/ BeginCreatePrincipal(s) \/ AddTenant(s) \/ AddRow(s) \/ AddGet(s)
    \/ BeginDeletePrincipal(s) \/ RevokeLoad(s) \/ RevokeLock(s) \/ RevokePublish(s)
    \/ RevokeCommit(s) \/ StripList(s) \/ StripPolicy(s) \/ StripDone(s)
    \/ Tombstone(s) \/ NamedAgain(s) \/ RemoveLoad(s) \/ RemoveLock(s) \/ RemovePublish(s)
    \/ RemoveSecrets(s) \/ TombstoneCommit(s)
=============================================================================
