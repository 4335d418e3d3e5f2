----------------------------- MODULE MCTenants -----------------------------
(***************************************************************************)
(* Instances of Tenants for TLC.  A handler's name says what it serves.    *)
(***************************************************************************)
EXTENDS Tenants

MCNameOf == [b \in Buckets |-> "photos"]

MCServes ==
    [s \in Procs |->
        CASE s = "console" -> Kinds \ {"delete"}
          [] s = "retries" -> {"provision", "delete"}]
=============================================================================
