------------------------------ MODULE Tenants ------------------------------
(***************************************************************************)
(* The life of hilt's tenants: provisioning, status changes and deletion   *)
(* against the creation of keys, buckets and principals, with calls that   *)
(* fail and processes that stop, and the properties that make it correct.  *)
(***************************************************************************)
EXTENDS TenantContents

\* A read that fails ends the call, or takes a key creation or a bucket creation
\* to its rollback.
ReadFails(s) ==
    /\ "error" \in Faults /\ faults < MaxFaults /\ faults' = faults + 1
    /\ \/ /\ call[s].pc \in {"pvGet", "pvWinner", "dlKeys", "dlLast", "dlRevoke", "dlTomb",
                             "dlWrapping", "dlBuckets", "ckIssuer"}
          /\ Finish(s)
       \/ At(s, "ckGet") /\ Goto(s, "rbGrants")
       \/ call[s].pc \in {"cbIssuer", "cbReturn"} /\ Goto(s, "cbRollback")
    /\ UNCHANGED tables

\* The process stops: nothing is undone.
Crash(s) ==
    /\ "crash" \in Faults /\ faults < MaxFaults /\ faults' = faults + 1
    /\ ~At(s, "idle")
    /\ Finish(s)
    /\ UNCHANGED tables

Step(s) == TenantStep(s) \/ ContentsStep(s)

Next == \E s \in Procs : Step(s) \/ ReadFails(s) \/ Crash(s)

Spec == Init /\ [][Next]_vars

\* A handler that can go on does, and the console repeats a deletion that ended
\* in an error, as the API asks it to.
FairSpec ==
    /\ Spec
    /\ \A s \in Procs : WF_vars(~At(s, "idle") /\ Step(s))
    /\ \A s \in {t \in Procs : "delete" \in Serves[t]} : SF_vars(BeginDelete(s))

-----------------------------------------------------------------------------
\* Every tenant row, until its deletion has deactivated the DID, has all that
\* Provision made for it: a live DID, the customer, both keys and the wrap key's row.
LiveTenantIsWhole ==
    \A d \in DIDs :
        row[d] # "none" /\ plc[d] # "deactivated" =>
            /\ plc[d] = "live"
            /\ d \in upload /\ d \in wrapRow
            /\ {Signing(d), Wrapping(d)} \subseteq vault

\* The row goes last: once a deleted tenant has no row to repeat the deletion by,
\* nothing is left that would need it.
NothingOutlivesTheRow ==
    \A d \in DIDs :
        row[d] = "none" /\ plc[d] = "deactivated" =>
            d \notin wrapRow \cup principals /\ Of(d) = {}

\* A DID is deactivated only once every key its deletion found in a caller's hands
\* is revoked: no revocation can be verified against it afterwards.
RevokedWhileVerifiable ==
    [][\A s \in Procs :
          At(s, "dlTomb") /\ plc'[didOf(s)] # plc[didOf(s)] => call[s].shown \subseteq revoked]_vars

\* A bucket whose creation answered, of a tenant whose DID is live, has its root
\* delegation stored and its space provisioned.
CreatedBucketIsReachable ==
    \A b \in answered \cap rows \cap Buckets :
        plc[tenantOf[b]] = "live" => b \in delegated /\ b \in upload

\* A key, bucket or principal about to refer to a tenant's row.
Adding == \E s \in Procs : call[s].pc \in {"ckAdd", "cbAdd", "cpAdd"}

\* A deletion that has deactivated its DID and is repeated while the tenant stays
\* disabled gets through in the end, whatever has failed before, unless keys, buckets
\* or principals go on being added to the disabled tenant.
DeletionConverges ==
    <>[]~Adding => \A d \in DIDs : []<>~(row[d] = "disabled" /\ plc[d] = "deactivated")
=============================================================================
