------------------------------- MODULE Access -------------------------------
(***************************************************************************)
(* hilt's access control of one tenant: policy writes, principals, access  *)
(* keys and bucket deletion running against each other, with the faults    *)
(* the code handles, and the properties that make it correct.              *)
(***************************************************************************)
EXTENDS BucketDeletion

(***************************************************************************)
(* The locks a handler is asking for where it stands.                      *)
(***************************************************************************)
Requests(s) ==
    LET c == call[s]
        next(class, mode) == {<<class, x>> : x \in {y \in c.want : Next1(s, y)}} \X {mode}
    IN  CASE c.pc = "tenant" -> {<<<<"tenant", None>>, "shared">>}
          [] c.pc = "addTenant" -> {<<<<"tenant", None>>, "exclusive">>}
          [] c.pc = "named" -> ({"principal"} \X {p \in c.want : principal[p] # "absent"})
                                 \X {"KEY SHARE"}
          [] c.pc \in {"bucket", "dbLock"} -> {<<<<"bucket", c.bucket>>, "exclusive">>}
          [] c.pc = "bucketRow" -> {<<<<"bucketRow", c.bucket>>, "KEY SHARE">>}
          [] c.pc = "row" -> {<<<<"policyRow", b>>, "UPDATE">> :
                                b \in {x \in {c.bucket} : policy[x] # NoPolicy}}
          [] c.pc = "lockP" -> {r \in next("principal", "NO KEY UPDATE") :
                                  principal[r[1][2]] = "live"}
          [] c.pc \in {"lockK", "rvLock", "tombLock", "kdLock", "dbLockK"} ->
                next("audience", "exclusive")
          [] c.pc \in {"ckStore", "rbGrants"} -> {<<<<"audience", c.key>>, "exclusive">>}
          [] c.pc = "addRow" -> {<<<<"principal", c.principal>>, "NO KEY UPDATE">>}
          [] c.pc = "tomb" -> {<<<<"principal", c.principal>>, "UPDATE">>}
          [] c.pc \in {"ckPrincipal", "ckAdd"} -> {<<<<"principal", c.principal>>, "SHARE">>}
          [] c.pc = "ckRows" -> next("policyRow", "SHARE")
          [] c.pc \in {"kdPublish", "rbRow"} -> {<<<<"keyRow", c.key>>, "UPDATE">>}
          [] c.pc = "tombPublish" -> ({"keyRow"} \X c.keys) \X {"UPDATE"}
          [] c.pc = "dbCommit" -> ({"bucketRow", "policyRow"} \X {c.bucket}) \X {"UPDATE"}
          [] OTHER -> {}

WaitsFor(s) == UNION {Blockers(locks, s, r[1], r[2]) : r \in Requests(s)}

\* Handlers each of which waits for another of them.
Circular(S) == S # {} /\ \A s \in S : WaitsFor(s) \cap S # {}

\* s is on a cycle of waits.
Deadlocked(s) ==
    \E S \in SUBSET Procs :
        s \in S /\ Circular(S) /\ \A R \in SUBSET S : Circular(R) => R = S

-----------------------------------------------------------------------------
(***************************************************************************)
(* Faults.  A wait ends with LockTimeout (or the shorter batch deadline),  *)
(* and Postgres aborts a transaction of a deadlock, which is no choice of  *)
(* an instance's; MapError makes one error of both.  A database, vault or  *)
(* context error fails the call wherever it is; a crash ends it with       *)
(* nothing undone.  In the last two the transaction in progress rolls      *)
(* back.                                                                   *)
(***************************************************************************)
RollingBack(s) == call[s].pc \in {"rbGrants", "rbRow", "rbSecret"}

Timeout(s) ==
    /\ WaitsFor(s) # {} /\ ~RollingBack(s)
    /\ "timeout" \in Faults \/ Deadlocked(s)
    /\ Fail(s, "concurrent")
    /\ UNCHANGED tables

Error(s) ==
    /\ "error" \in Faults
    /\ call[s].pc \notin {"idle", "tombSecrets", "kdSecret"} /\ ~RollingBack(s)
    /\ Fail(s, "error")
    /\ UNCHANGED tables

Crash(s) ==
    /\ "crash" \in Faults
    /\ ~At(s, "idle")
    /\ Release(s)
    /\ Finish(s, "internal")
    /\ UNCHANGED tables

-----------------------------------------------------------------------------
Step(s) == PolicyStep(s) \/ PrincipalStep(s) \/ AccessKeyStep(s) \/ BucketStep(s)

Fault(s) == Timeout(s) \/ Error(s) \/ Crash(s) \/ RollbackSkip(s)

Next == \E s \in Procs : Step(s) \/ Fault(s)

Spec == Init /\ [][Next]_vars

\* A handler goes on whenever it can, again and again: goroutines run, Postgres grants
\* a contended lock in the order it was asked for and breaks every deadlock.
GoesOn(s) == ~At(s, "idle") /\ (Step(s) \/ (Deadlocked(s) /\ Timeout(s)))

Fairness == \A s \in Procs : SF_vars(GoesOn(s))

-----------------------------------------------------------------------------
(***************************************************************************)
(* Properties.                                                             *)
(***************************************************************************)

\* A committed policy names only principals that exist and are not removed:
\* what requireLivePrincipals and the tombstone's re-check guard together.
NamedAreLive == \A b \in Buckets : \A p \in Named(policy[b]) : principal[p] = "live"

\* Every key row belongs to a principal that is not removed, so reviving a
\* tombstone under the same id gives its new owner no old key.
KeysHaveLiveOwners == \A k \in keyRow : principal[owner[k]] = "live"

\* A key holds no more over a bucket than the committed policy gives its
\* principal, and a key its caller was given holds exactly that, except where a
\* removal or a rotation during the key's creation let go of the pair.
GrantsMatchPolicy ==
    \A k \in keyRow, b \in buckets :
        <<k, b>> \notin excused =>
            /\ held[k][b] \subseteq Grants(policy[b], owner[k])
            /\ k \in returned => held[k][b] = Grants(policy[b], owner[k])

\* A delegation of a key in a caller's hands leaves the table only after its
\* revocation was published.
RevokedBeforeGone ==
    [][\A k \in returned, b \in Buckets :
          held[k][b] # {} /\ held'[k][b] # held[k][b] => <<k, b>> \in revoked]_vars

\* A conditional write that succeeds replaces exactly the document its condition was
\* about, however long its callback took; a strip never reverts an edit it has not seen.
CompareAndSet ==
    [][\A s \in Procs :
          At(s, "commit") /\ call'[s] # call[s] /\ call'[s].res = "answered" =>
              CheckPrecondition(policy[call[s].bucket], call[s].match)]_vars

\* A key with a row has its private key in the vault, but for the moment between
\* a removal's vault deletes and its commit.
RowsHaveSecrets ==
    \A k \in keyRow \ secrets :
        \E s \in Procs : At(s, "tombCommit") /\ k \in call[s].keys

\* No set of handlers wait on each other, unless one of them is deleting a bucket: policy
\* writes, key creations and removals take their locks in an order that breaks every
\* cycle.  A deletion breaks the order: it asks for the policy row while it holds the
\* delegation locks.
NoWaitCycle ==
    \A S \in (SUBSET Procs) \ {{}} :
        (\A s \in S : call[s].kind # "deleteBucket") => \E s \in S : WaitsFor(s) \cap S = {}

\* Every request ends, with no timeout to help it: no lock is left behind by a handler
\* that is done, no loop goes on for ever, and the one wait that nothing else ends is
\* the cycle a bucket deletion can close, where Postgres aborts one of the transactions.
RequestsEnd == \A s \in Procs : ~At(s, "idle") ~> At(s, "idle")

-----------------------------------------------------------------------------
(***************************************************************************)
(* Why the first two hold: the inductive invariant of AccessProofs.        *)
(***************************************************************************)

\* Postgres grants no lock that conflicts with one another transaction holds.
LocksCompatible ==
    \A l, m \in locks : l.on = m.on /\ l.by # m.by => ~Conflicts(l.mode, m.mode)

Locked(s, p, mode) == [by |-> s, on |-> <<"principal", p>>, mode |-> mode] \in locks

Writing == {"bucket", "bucketRow", "row", "relist", "lockP", "load", "lockK", "publish",
            "commit"}

\* The principals requireLivePrincipals has been through.
Vouched(s) ==
    CASE At(s, "named") -> Named(docOf(s)) \ call[s].want
      [] call[s].pc \in Writing -> Named(docOf(s))
      [] OTHER -> {}

\* A policy write keeps the principals it has found live from being removed.
HoldsNamed(s) ==
    \A p \in Vouched(s) : principal[p] = "live" /\ Locked(s, p, "KEY SHARE")

Removing == {"tombCheck", "tombKeys", "tombLock", "tombPublish", "tombSecrets", "tombCommit"}

\* A tombstone in progress has its live row to itself; past its re-check no policy
\* names the principal, and past the listing no key of it is missing.
HoldsRow(s) ==
    call[s].pc \in Removing =>
        /\ principal[principalOf(s)] = "live"
        /\ Locked(s, principalOf(s), "UPDATE")
        /\ ~At(s, "tombCheck") => \A b \in Buckets : principalOf(s) \notin Named(policy[b])
        /\ call[s].pc \notin {"tombCheck", "tombKeys"} =>
              KeysOf({principalOf(s)}) \subseteq call[s].keys

\* The key a creation is about to add is bound to the principal it names.
OwnsKey(s) == At(s, "ckAdd") => owner[keyOf(s)] = principalOf(s)

RowsHaveOwners == \A k \in keyRow : owner[k] \in Principals

AccessInv == /\ TypeOK /\ LocksCompatible
             /\ \A s \in Procs : HoldsNamed(s) /\ HoldsRow(s) /\ OwnsKey(s)
             /\ RowsHaveOwners /\ NamedAreLive /\ KeysHaveLiveOwners

-----------------------------------------------------------------------------
(***************************************************************************)
(* What all of this looks like from outside.                               *)
(***************************************************************************)
InHand == returned \cap keyRow

\* The tables, read as what access control promises: each operation takes effect in
\* one step, the commit of its transaction.
Promised == INSTANCE Entitlements WITH
    users <- ListIDsByTenant,
    keys <- InHand,
    gone <- returned \ keyRow,
    owner <- [k \in InHand |-> owner[k]],
    held <- [k \in InHand |-> [b \in buckets |-> held[k][b]]],
    adrift <- excused \cap (InHand \X buckets)

\* Whatever the handlers do step by step, in whatever order and whatever fails, a caller
\* sees whole operations: a policy is written together with every key it matters to, and
\* a step that fails, is undone or is only on the way shows nowhere.
OperationsAreAtomic == Promised!Spec

-----------------------------------------------------------------------------
(***************************************************************************)
(* What the code's comments say and the steps above do not do.             *)
(***************************************************************************)

\* accesskey Create: a key rotated during its creation is refused "rather than
\* store stale grants", so no key in a caller's hands exceeds its policy.
NoStaleGrants ==
    \A k \in returned \cap keyRow, b \in buckets :
        held[k][b] \subseteq Grants(policy[b], owner[k])
=============================================================================
