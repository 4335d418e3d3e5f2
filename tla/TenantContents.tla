--------------------------- MODULE TenantContents ---------------------------
(***************************************************************************)
(* What refers to a tenant while it lives: a service key is created        *)
(* (accesskey.Service.Create without a principal), a bucket is created     *)
(* (the rpc bucket service's Create), a principal is added.                *)
(***************************************************************************)
EXTENDS TenantService

(***************************************************************************)
(* A service key.  The tenant's status is not looked at.                   *)
(***************************************************************************)
BeginCreateKey(s) ==
    /\ Begin(s, "createKey")
    /\ \E e \in ExtIDs : \E d \in GetByExternalID(e) :
          Start(s, [Idle EXCEPT !.pc = "ckIssuer", !.did = d])
    /\ UNCHANGED <<tables, faults>>

\* The tenant's signer is loaded before anything is written.
LoadIssuer(s) ==
    /\ At(s, "ckIssuer")
    /\ IF Signing(didOf(s)) \in vault THEN Goto(s, "ckSecret") ELSE Finish(s)
    /\ UNCHANGED <<tables, faults>>

SealKey(s) ==
    /\ At(s, "ckSecret")
    /\ \E k \in Keys :
          /\ tenantOf[k] = None
          /\ tenantOf' = [tenantOf EXCEPT ![k] = didOf(s)]
          /\ Attempt("remote", vault' = vault \cup {Secret(k)}, UNCHANGED vault,
                     call' = [call EXCEPT ![s].pc = "ckAdd", ![s].item = k], Finish(s))
    /\ UNCHANGED <<row, ext, plc, wrapRow, upload, principals, rows, delegated, revoked, answered>>

\* The row refers to the tenant's, and is refused once that is gone.
AddKey(s) ==
    /\ At(s, "ckAdd")
    /\ IF row[didOf(s)] = "none"
       THEN Goto(s, "rbGrants") /\ UNCHANGED <<rows, faults>>
       ELSE Attempt("sql", rows' = rows \cup {itemOf(s)}, UNCHANGED rows,
                    Goto(s, "ckStore"), Goto(s, "rbGrants"))
    /\ UNCHANGED <<row, ext, plc, vault, wrapRow, upload, principals, tenantOf, delegated,
                   revoked, answered>>

\* Replace: the key is fresh and no rotation reaches a service key, so it holds
\* nothing yet.
StoreGrants(s) ==
    /\ At(s, "ckStore")
    /\ Attempt("sql", delegated' = delegated \cup {itemOf(s)}, UNCHANGED delegated,
               Goto(s, "ckGet"), Goto(s, "rbGrants"))
    /\ UNCHANGED <<row, ext, plc, vault, wrapRow, upload, principals, rows, tenantOf, revoked,
                   answered>>

ReturnKey(s) ==
    /\ At(s, "ckGet")
    /\ IF itemOf(s) \in rows
       THEN answered' = answered \cup {itemOf(s)} /\ Finish(s)
       ELSE Goto(s, "rbGrants") /\ UNCHANGED answered
    /\ UNCHANGED <<row, ext, plc, vault, wrapRow, upload, principals, rows, tenantOf, delegated,
                   revoked, faults>>

\* rollback: three deletes, each logged and left when it fails.
RollbackGrants(s) ==
    /\ At(s, "rbGrants")
    /\ Attempt("sql", delegated' = delegated \ {itemOf(s)}, UNCHANGED delegated,
               Goto(s, "rbRow"), Goto(s, "rbRow"))
    /\ UNCHANGED <<row, ext, plc, vault, wrapRow, upload, principals, rows, tenantOf, revoked,
                   answered>>

RollbackRow(s) ==
    /\ At(s, "rbRow")
    /\ Attempt("sql", rows' = rows \ {itemOf(s)}, UNCHANGED rows,
               Goto(s, "rbSecret"), Goto(s, "rbSecret"))
    /\ UNCHANGED <<row, ext, plc, vault, wrapRow, upload, principals, tenantOf, delegated,
                   revoked, answered>>

RollbackSecret(s) == Unseal(s, "rbSecret", Secret(itemOf(s)), Finish(s))

-----------------------------------------------------------------------------
(***************************************************************************)
(* A bucket.  The request is signed with a key in its caller's hands and   *)
(* authorized while the tenant is not disabled; the name must be free.     *)
(***************************************************************************)
NameTaken(b) == \E x \in rows \cap Buckets : NameOf[x] = NameOf[b]

BeginCreateBucket(s) ==
    /\ Begin(s, "createBucket")
    /\ \E k \in answered \cap rows \cap Keys, b \in Buckets :
          /\ Secret(k) \in vault
          /\ row[tenantOf[k]] \in {"active", "write-locked"}
          /\ tenantOf[b] = None /\ ~NameTaken(b)
          /\ tenantOf' = [tenantOf EXCEPT ![b] = tenantOf[k]]
          /\ Start(s, [Idle EXCEPT !.pc = "cbAdd", !.did = tenantOf[k], !.item = b,
                                   !.shown = {k}])
    /\ UNCHANGED <<row, ext, plc, vault, wrapRow, upload, principals, rows, delegated, revoked,
                   answered, faults>>

\* A name taken meanwhile or a tenant gone fails the insert; nothing to undo.
AddBucket(s) ==
    /\ At(s, "cbAdd")
    /\ IF row[didOf(s)] = "none" \/ NameTaken(itemOf(s))
       THEN Finish(s) /\ UNCHANGED <<rows, faults>>
       ELSE Attempt("sql", rows' = rows \cup {itemOf(s)}, UNCHANGED rows,
                    Goto(s, "cbRoot"), Finish(s))
    /\ UNCHANGED <<row, ext, plc, vault, wrapRow, upload, principals, tenantOf, delegated,
                   revoked, answered>>

\* Mutant of PutRoot: a root that cannot be stored is left for later.
PutRootLater(s) ==
    /\ At(s, "cbRoot")
    /\ Attempt("sql", delegated' = delegated \cup {itemOf(s)}, UNCHANGED delegated,
               Goto(s, "cbIssuer"), Goto(s, "cbIssuer"))
    /\ UNCHANGED <<row, ext, plc, vault, wrapRow, upload, principals, rows, tenantOf, revoked,
                   answered>>

\* The root delegation from the bucket to the tenant.
PutRoot(s) ==
    /\ At(s, "cbRoot")
    /\ Attempt("sql", delegated' = delegated \cup {itemOf(s)}, UNCHANGED delegated,
               Goto(s, "cbIssuer"), Goto(s, "cbRollback"))
    /\ UNCHANGED <<row, ext, plc, vault, wrapRow, upload, principals, rows, tenantOf, revoked,
                   answered>>

LoadAccount(s) ==
    /\ At(s, "cbIssuer")
    /\ Goto(s, IF Signing(didOf(s)) \in vault THEN "cbSpace" ELSE "cbRollback")
    /\ UNCHANGED <<tables, faults>>

ProvisionSpace(s) ==
    /\ At(s, "cbSpace")
    /\ Attempt("remote", upload' = upload \cup {itemOf(s)}, UNCHANGED upload,
               Goto(s, "cbRoute"), Goto(s, "cbRollback"))
    /\ UNCHANGED <<row, ext, plc, vault, wrapRow, principals, rows, tenantOf, delegated,
                   revoked, answered>>

\* The routing policy, proven by the root, where the provider has one.
UseRoutingPolicy(s) ==
    /\ At(s, "cbRoute")
    /\ \/ /\ Attempt("remote", itemOf(s) \in delegated, TRUE,
                     Goto(s, "cbReturn"), Goto(s, "cbRollback"))
       \/ itemOf(s) \notin delegated /\ Goto(s, "cbRollback") /\ UNCHANGED faults
       \/ Goto(s, "cbReturn") /\ UNCHANGED faults
    /\ UNCHANGED tables

\* The caller's key and its proof chains are read again for the answer.
ReturnBucket(s) ==
    /\ At(s, "cbReturn")
    /\ IF \A k \in call[s].shown : Secret(k) \in vault
       THEN answered' = answered \cup {itemOf(s)} /\ Finish(s)
       ELSE Goto(s, "cbRollback") /\ UNCHANGED answered
    /\ UNCHANGED <<row, ext, plc, vault, wrapRow, upload, principals, rows, tenantOf, delegated,
                   revoked, faults>>

RollbackBucket(s) ==
    /\ At(s, "cbRollback")
    /\ Attempt("sql", rows' = rows \ {itemOf(s)}, UNCHANGED rows, Finish(s), Finish(s))
    /\ UNCHANGED <<row, ext, plc, vault, wrapRow, upload, principals, tenantOf, delegated,
                   revoked, answered>>

-----------------------------------------------------------------------------
(***************************************************************************)
(* A principal: look the tenant up, add the row if the tenant's is there.  *)
(***************************************************************************)
BeginCreatePrincipal(s) ==
    /\ Begin(s, "createPrincipal")
    /\ \E e \in ExtIDs : \E d \in GetByExternalID(e) :
          Start(s, [Idle EXCEPT !.pc = "cpAdd", !.did = d])
    /\ UNCHANGED <<tables, faults>>

AddPrincipal(s) ==
    /\ At(s, "cpAdd")
    /\ IF row[didOf(s)] = "none"
       THEN Finish(s) /\ UNCHANGED <<principals, faults>>
       ELSE Attempt("sql", principals' = principals \cup {didOf(s)}, UNCHANGED principals,
                    Finish(s), Finish(s))
    /\ UNCHANGED <<row, ext, plc, vault, wrapRow, upload, rows, tenantOf, delegated, revoked,
                   answered>>

ContentsStep(s) ==
    \/ BeginCreateKey(s) \/ LoadIssuer(s) \/ SealKey(s) \/ AddKey(s) \/ StoreGrants(s)
    \/ ReturnKey(s) \/ RollbackGrants(s) \/ RollbackRow(s) \/ RollbackSecret(s)
    \/ BeginCreateBucket(s) \/ AddBucket(s) \/ PutRoot(s) \/ LoadAccount(s)
    \/ ProvisionSpace(s) \/ UseRoutingPolicy(s) \/ ReturnBucket(s) \/ RollbackBucket(s)
    \/ BeginCreatePrincipal(s) \/ AddPrincipal(s)
=============================================================================
