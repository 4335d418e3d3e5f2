------------------------------- MODULE PgLock -------------------------------
(***************************************************************************)
(* The locks hilt's Postgres stores take (pkg/store/pglock): transaction   *)
(* scoped advisory locks and row locks.  Which modes exclude each other is *)
(* Postgres's own table; a lock is held until its transaction ends, and a  *)
(* transaction never waits for itself.                                     *)
(***************************************************************************)
AdvisoryModes == {"shared", "exclusive"}
RowModes == {"KEY SHARE", "SHARE", "NO KEY UPDATE", "UPDATE"}
Modes == AdvisoryModes \cup RowModes

Conflicting == {<<"shared", "exclusive">>, <<"exclusive", "exclusive">>,
                <<"KEY SHARE", "UPDATE">>,
                <<"SHARE", "NO KEY UPDATE">>, <<"SHARE", "UPDATE">>,
                <<"NO KEY UPDATE", "NO KEY UPDATE">>,
                <<"NO KEY UPDATE", "UPDATE">>, <<"UPDATE", "UPDATE">>}

Conflicts(m, n) == <<m, n>> \in Conflicting \/ <<n, m>> \in Conflicting

\* The holders among held that keep tx waiting for mode on the resource res.
Blockers(held, tx, res, mode) ==
    {l.by : l \in {h \in held : h.on = res /\ h.by # tx /\ Conflicts(h.mode, mode)}}

CanLock(held, tx, res, mode) ==
    \A l \in held : l.on = res /\ l.by # tx => ~Conflicts(l.mode, mode)

Granted(held, tx, res, mode) == held \cup {[by |-> tx, on |-> res, mode |-> mode]}

\* Mutant of Released: the tenant's advisory lock belongs to the session, not to
\* the transaction.
SessionReleased(held, tx) == {l \in held : l.by # tx \/ l.on[1] = "tenant"}

\* Commit or rollback: the transaction's locks go.
Released(held, tx) == {l \in held : l.by # tx}
=============================================================================
