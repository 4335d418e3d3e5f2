--------------------------- MODULE TenantService ---------------------------
(***************************************************************************)
(* tenant.Service: Provision with the rollback of what it has written,     *)
(* SetStatus, and Delete with its cascade.                                 *)
(***************************************************************************)
EXTENDS TenantStore

(***************************************************************************)
(* Provision.                                                              *)
(***************************************************************************)

\* Bound: as many attempts at most as there are ids left to generate.
FreshDIDs == {d \in DIDs : ext[d] = None}

\* An existing tenant is the answer; otherwise a fresh key makes a fresh DID.
BeginProvision(s) ==
    /\ Begin(s, "provision")
    /\ \E e \in ExtIDs :
          \/ GetByExternalID(e) # {} /\ Finish(s) /\ UNCHANGED ext
          \/ /\ GetByExternalID(e) = {} /\ FreshDIDs # {}
             /\ LET d == CHOOSE x \in FreshDIDs : TRUE
                IN  /\ ext' = [ext EXCEPT ![d] = e]
                    /\ Start(s, [Idle EXCEPT !.pc = "pvSigning", !.did = d, !.ext = e])
    /\ UNCHANGED <<row, plc, vault, wrapRow, upload, principals, rows, tenantOf, delegated,
                   revoked, answered, faults>>

\* A vault write or delete on behalf of s.
Seal(s, here, path, ok, err) ==
    /\ At(s, here)
    /\ Attempt("remote", vault' = vault \cup {path}, UNCHANGED vault, ok, err)
    /\ UNCHANGED <<row, ext, plc, wrapRow, upload, principals, rows, tenantOf, delegated,
                   revoked, answered>>

\* A failed delete is logged and left.
Unseal(s, here, path, goon) ==
    /\ At(s, here)
    /\ Attempt("remote", vault' = vault \ {path}, UNCHANGED vault, goon, goon)
    /\ UNCHANGED <<row, ext, plc, wrapRow, upload, principals, rows, tenantOf, delegated,
                   revoked, answered>>

SealSigning(s) == Seal(s, "pvSigning", Signing(didOf(s)), Goto(s, "pvWrapping"), Finish(s))

SealWrapping(s) ==
    Seal(s, "pvWrapping", Wrapping(didOf(s)), Goto(s, "pvGenesis"), Goto(s, "cuSigning"))

\* Mutant of PublishGenesis: a failed publish is logged and left.
PublishGenesisLogged(s) ==
    /\ At(s, "pvGenesis")
    /\ Attempt("remote", plc' = [plc EXCEPT ![didOf(s)] = "live"], UNCHANGED plc,
               Goto(s, "pvCustomer"), Goto(s, "pvCustomer"))
    /\ UNCHANGED <<row, ext, vault, wrapRow, upload, principals, rows, tenantOf, delegated,
                   revoked, answered>>

PublishGenesis(s) ==
    /\ At(s, "pvGenesis")
    /\ Attempt("remote", plc' = [plc EXCEPT ![didOf(s)] = "live"], UNCHANGED plc,
               Goto(s, "pvCustomer"), Goto(s, "cuWrapping"))
    /\ UNCHANGED <<row, ext, vault, wrapRow, upload, principals, rows, tenantOf, delegated,
                   revoked, answered>>

RegisterCustomer(s) ==
    /\ At(s, "pvCustomer")
    /\ Attempt("remote", upload' = upload \cup {didOf(s)}, UNCHANGED upload,
               Goto(s, "pvWrapRow"), Goto(s, "cuWrapping"))
    /\ UNCHANGED <<row, ext, plc, vault, wrapRow, principals, rows, tenantOf, delegated,
                   revoked, answered>>

\* The wrap key is recorded before the tenant row.
AddWrapKey(s) ==
    /\ At(s, "pvWrapRow")
    /\ Attempt("sql", wrapRow' = wrapRow \cup {didOf(s)}, UNCHANGED wrapRow,
               Goto(s, "pvRow"), Goto(s, "cuWrapping"))
    /\ UNCHANGED <<row, ext, plc, vault, upload, principals, rows, tenantOf, delegated,
                   revoked, answered>>

\* The tenant row, the last write; the unique console id makes one of two
\* concurrent calls lose.
AddTenant(s) ==
    /\ At(s, "pvRow")
    /\ IF GetByExternalID(call[s].ext) # {}
       THEN /\ call' = [call EXCEPT ![s].pc = "cuWrapRow", ![s].exists = TRUE]
            /\ UNCHANGED <<row, faults>>
       ELSE Attempt("sql", row' = [row EXCEPT ![didOf(s)] = "active"], UNCHANGED row,
                    Goto(s, "pvGet"), Goto(s, "cuWrapRow"))
    /\ UNCHANGED <<ext, plc, vault, wrapRow, upload, principals, rows, tenantOf, delegated,
                   revoked, answered>>

\* The cleanups, last first, each logged and left when it fails.
DropWrapKey(s, here, ok, err) ==
    /\ At(s, here)
    /\ Attempt("sql", wrapRow' = wrapRow \ {didOf(s)}, UNCHANGED wrapRow, ok, err)
    /\ UNCHANGED <<row, ext, plc, vault, upload, principals, rows, tenantOf, delegated,
                   revoked, answered>>

CleanWrapRow(s) == DropWrapKey(s, "cuWrapRow", Goto(s, "cuWrapping"), Goto(s, "cuWrapping"))

CleanWrapping(s) == Unseal(s, "cuWrapping", Wrapping(didOf(s)), Goto(s, "cuSigning"))

CleanSigning(s) ==
    Unseal(s, "cuSigning", Signing(didOf(s)),
           IF call[s].exists THEN Goto(s, "pvWinner") ELSE Finish(s))

\* The read back of the created row, or of the winner's.
ReadBack(s) ==
    /\ call[s].pc \in {"pvGet", "pvWinner"}
    /\ Finish(s)
    /\ UNCHANGED <<tables, faults>>

-----------------------------------------------------------------------------
(***************************************************************************)
(* SetStatus: look the tenant up, then update the row if it is still       *)
(* there.                                                                  *)
(***************************************************************************)
BeginSetStatus(s) ==
    /\ Begin(s, "setStatus")
    /\ \E e \in ExtIDs, st \in Asked : \E d \in GetByExternalID(e) :
          Start(s, [Idle EXCEPT !.pc = "status", !.did = d, !.status = st])
    /\ UNCHANGED <<tables, faults>>

SetStatus(s) ==
    /\ At(s, "status")
    /\ Attempt("sql",
               row' = [row EXCEPT ![didOf(s)] = IF @ = "none" THEN "none" ELSE call[s].status],
               UNCHANGED row, Finish(s), Finish(s))
    /\ UNCHANGED <<ext, plc, vault, wrapRow, upload, principals, rows, tenantOf, delegated,
                   revoked, answered>>

-----------------------------------------------------------------------------
(***************************************************************************)
(* Delete.  A tenant that is missing or not disabled is answered at once.  *)
(***************************************************************************)
BeginDelete(s) ==
    /\ Begin(s, "delete")
    /\ \E e \in ExtIDs :
          \/ (\A d \in GetByExternalID(e) : row[d] # "disabled") /\ Finish(s)
          \/ \E d \in GetByExternalID(e) :
                /\ row[d] = "disabled"
                /\ Start(s, [Idle EXCEPT !.pc = "dlKeys", !.did = d])
    /\ UNCHANGED <<tables, faults>>

DeleteListKeys(s) ==
    /\ At(s, "dlKeys")
    /\ LET ks == Of(didOf(s)) \cap Keys
       IN  call' = [call EXCEPT ![s].todo = ks, ![s].shown = ks \cap answered,
                                ![s].pc = "dlLast"]
    /\ UNCHANGED <<tables, faults>>

\* Mutant of DeleteLast: a repeated deletion starts over.
DeleteLastAnew(s) ==
    /\ At(s, "dlLast")
    /\ Goto(s, IF call[s].todo = {} THEN "dlTomb" ELSE "dlRevoke")
    /\ UNCHANGED <<tables, faults>>

\* A DID an earlier attempt deactivated skips the publish and the tombstone.
DeleteLast(s) ==
    /\ At(s, "dlLast")
    /\ Goto(s, CASE plc[didOf(s)] = "deactivated" -> "dlGrants"
                 [] call[s].todo = {} -> "dlTomb"
                 [] OTHER -> "dlRevoke")
    /\ UNCHANGED <<tables, faults>>

\* Mutant of RevokeKeyDelegations: a failed publish is logged and left.
RevokeLogged(s) ==
    /\ At(s, "dlRevoke")
    /\ LET ks == call[s].todo \cap delegated
       IN  Attempt("sql", revoked' = revoked \cup ks /\ delegated' = delegated \ ks,
                   UNCHANGED <<revoked, delegated>>, Goto(s, "dlTomb"), Goto(s, "dlTomb"))
    /\ UNCHANGED <<row, ext, plc, vault, wrapRow, upload, principals, rows, tenantOf, answered>>

\* revokeKeyDelegations, signed with the tenant's key: publish, and remove what the
\* keys hold in the same write.  The revocation service verifies against the DID.
RevokeKeyDelegations(s) ==
    /\ At(s, "dlRevoke")
    /\ LET ks == call[s].todo \cap delegated
       IN  IF Signing(didOf(s)) \in vault /\ (ks = {} \/ plc[didOf(s)] = "live")
           THEN \/ Attempt("sql",
                           revoked' = revoked \cup ks /\ delegated' = delegated \ ks,
                           UNCHANGED <<revoked, delegated>>,
                           Goto(s, "dlTomb"), Finish(s))
                \/ /\ "remote" \in Faults /\ faults < MaxFaults /\ faults' = faults + 1
                   /\ revoked' = revoked \cup ks /\ UNCHANGED delegated
                   /\ Finish(s)
           ELSE Finish(s) /\ UNCHANGED <<revoked, delegated, faults>>
    /\ UNCHANGED <<row, ext, plc, vault, wrapRow, upload, principals, rows, tenantOf, answered>>

\* deactivateTenantDID: the directory refuses a second tombstone.
DeactivateDID(s) ==
    /\ At(s, "dlTomb")
    /\ IF Signing(didOf(s)) \in vault /\ plc[didOf(s)] = "live"
       THEN Attempt("remote", plc' = [plc EXCEPT ![didOf(s)] = "deactivated"], UNCHANGED plc,
                    Goto(s, "dlGrants"), Finish(s))
       ELSE Finish(s) /\ UNCHANGED <<plc, faults>>
    /\ UNCHANGED <<row, ext, vault, wrapRow, upload, principals, rows, tenantOf, delegated,
                   revoked, answered>>

\* The cascade over the keys listed at the start: delegations, vault entry, row.
DeleteKeyGrants(s) ==
    /\ At(s, "dlGrants")
    /\ \/ /\ call[s].todo = {}
          /\ Goto(s, "dlPrincipals")
          /\ UNCHANGED <<delegated, faults>>
       \/ \E k \in call[s].todo :
             Attempt("sql", delegated' = delegated \ {k}, UNCHANGED delegated,
                     call' = [call EXCEPT ![s].pc = "dlSecret", ![s].item = k], Finish(s))
    /\ UNCHANGED <<row, ext, plc, vault, wrapRow, upload, principals, rows, tenantOf, revoked,
                   answered>>

DeleteKeySecret(s) == Unseal(s, "dlSecret", Secret(itemOf(s)), Goto(s, "dlKey"))

DeleteKeyRow(s) ==
    /\ At(s, "dlKey")
    /\ Attempt("sql", rows' = rows \ {itemOf(s)}, UNCHANGED rows,
               call' = [call EXCEPT ![s].pc = "dlGrants", ![s].todo = @ \ {itemOf(s)}],
               Finish(s))
    /\ UNCHANGED <<row, ext, plc, vault, wrapRow, upload, principals, tenantOf, delegated,
                   revoked, answered>>

DeletePrincipals(s) ==
    /\ At(s, "dlPrincipals")
    /\ Attempt("sql", principals' = principals \ {didOf(s)}, UNCHANGED principals,
               Goto(s, "dlWrapping"), Finish(s))
    /\ UNCHANGED <<row, ext, plc, vault, wrapRow, upload, rows, tenantOf, delegated, revoked,
                   answered>>

\* The private half of the wrap key is found through its row.
DeleteWrapping(s) ==
    \/ /\ At(s, "dlWrapping") /\ didOf(s) \in wrapRow
       /\ Unseal(s, "dlWrapping", Wrapping(didOf(s)), Goto(s, "dlWrapRow"))
    \/ /\ At(s, "dlWrapping") /\ didOf(s) \notin wrapRow
       /\ Goto(s, "dlWrapRow")
       /\ UNCHANGED <<tables, faults>>

\* Mutant of DeleteWrapRow: a failed delete is logged and left.
DeleteWrapRowLogged(s) == DropWrapKey(s, "dlWrapRow", Goto(s, "dlBuckets"), Goto(s, "dlBuckets"))

DeleteWrapRow(s) == DropWrapKey(s, "dlWrapRow", Goto(s, "dlBuckets"), Finish(s))

\* List the buckets, delete each row (its policy goes with it).
DeleteListBuckets(s) ==
    /\ At(s, "dlBuckets")
    /\ call' = [call EXCEPT ![s].todo = Of(didOf(s)) \cap Buckets, ![s].pc = "dlBucket"]
    /\ UNCHANGED <<tables, faults>>

DeleteNextBucket(s) ==
    /\ At(s, "dlBucket")
    /\ \/ /\ call[s].todo = {} /\ Goto(s, "dlRoots")
          /\ UNCHANGED <<rows, faults>>
       \/ \E b \in call[s].todo :
             Attempt("sql", rows' = rows \ {b}, UNCHANGED rows,
                     call' = [call EXCEPT ![s].todo = @ \ {b}], Finish(s))
    /\ UNCHANGED <<row, ext, plc, vault, wrapRow, upload, principals, tenantOf, delegated,
                   revoked, answered>>

\* The delegations addressed to the tenant: the roots of its buckets.
DeleteRoots(s) ==
    /\ At(s, "dlRoots")
    /\ Attempt("sql", delegated' = {i \in delegated : i \in Keys \/ tenantOf[i] # didOf(s)},
               UNCHANGED delegated, Goto(s, "dlRow"), Finish(s))
    /\ UNCHANGED <<row, ext, plc, vault, wrapRow, upload, principals, rows, tenantOf, revoked,
                   answered>>

\* Mutant of DeleteTenantRow: the row is marked, not deleted.
MarkTenantRow(s) ==
    /\ At(s, "dlRow")
    /\ row' = [row EXCEPT ![didOf(s)] = "deleted"]
    /\ Goto(s, "dlSigning")
    /\ UNCHANGED <<ext, plc, vault, wrapRow, upload, principals, rows, tenantOf, delegated,
                   revoked, answered, faults>>

\* The row goes unless something still refers to it (ON DELETE RESTRICT).
DeleteTenantRow(s) ==
    /\ At(s, "dlRow")
    /\ IF Of(didOf(s)) = {} /\ didOf(s) \notin principals
       THEN Attempt("sql", row' = [row EXCEPT ![didOf(s)] = "none"], UNCHANGED row,
                    Goto(s, "dlSigning"), Finish(s))
       ELSE Finish(s) /\ UNCHANGED <<row, faults>>
    /\ UNCHANGED <<ext, plc, vault, wrapRow, upload, principals, rows, tenantOf, delegated,
                   revoked, answered>>

DeleteSigning(s) == Unseal(s, "dlSigning", Signing(didOf(s)), Finish(s))

TenantStep(s) ==
    \/ BeginProvision(s) \/ SealSigning(s) \/ SealWrapping(s) \/ PublishGenesis(s)
    \/ RegisterCustomer(s) \/ AddWrapKey(s) \/ AddTenant(s) \/ ReadBack(s)
    \/ CleanWrapRow(s) \/ CleanWrapping(s) \/ CleanSigning(s)
    \/ BeginSetStatus(s) \/ SetStatus(s)
    \/ BeginDelete(s) \/ DeleteListKeys(s) \/ DeleteLast(s) \/ RevokeKeyDelegations(s)
    \/ DeactivateDID(s) \/ DeleteKeyGrants(s) \/ DeleteKeySecret(s) \/ DeleteKeyRow(s)
    \/ DeletePrincipals(s) \/ DeleteWrapping(s) \/ DeleteWrapRow(s)
    \/ DeleteListBuckets(s) \/ DeleteNextBucket(s) \/ DeleteRoots(s)
    \/ DeleteTenantRow(s) \/ DeleteSigning(s)
=============================================================================
