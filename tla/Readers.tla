------------------------------ MODULE Readers ------------------------------
(***************************************************************************)
(* The reads of the access-control tables a gateway causes while they are  *)
(* being written: Authorizer.Authorize for an authentic request with a     *)
(* principal-bound key, then bucket.Service.Info for the proof chains of   *)
(* that key, or Info alone.                                                *)
(*                                                                         *)
(* A share-locked read is a transaction of its own: it waits until nobody  *)
(* holds the row for a write, reads the committed row and lets it go.  The *)
(* other reads see committed rows without waiting.  Delegations are minted *)
(* with a fresh nonce, so rewriting a key's grants changes their links     *)
(* even where the commands stay the same.                                  *)
(*                                                                         *)
(* One session at a time is followed, from its arrival to its last answer: *)
(* sessions write nothing, so they do not meet each other.                 *)
(***************************************************************************)
EXTENDS Access

CONSTANT CleanupCommands   \* cleanupCommands: what a gateway does long after the request

VARIABLE reader

\* The transactions of reads are none of the handlers'.
ASSUME ReadersAssumption == "reader" \notin Procs
ASSUME CleanupAssumption == CleanupCommands \subseteq Commands

NoReader == [pc |-> "none", key |-> None, bucket |-> None, action |-> "none",
             doc |-> NoPolicy, todo |-> {},
             authorized |-> FALSE,  \* Authorize said yes and signed as the key
             cleanup |-> FALSE,     \* and the tenant signed cleanup delegations
             empty |-> FALSE,       \* the first listing found no grants
             same |-> FALSE,        \* listing again would find the same links
             torn |-> FALSE,        \* history: a chain was read after they changed
             met |-> FALSE,         \* history: see InfoIsOneRevision
             backed |-> FALSE,      \* history: see UsableIsJustified
             pending |-> {}]        \* history: see AnsweredFromTheNewState

ReadersInit == Init /\ reader = NoReader

\* What the reader's session is about.
k0 == reader.key
b0 == reader.bucket
p0 == owner[k0]

Reads(pc) == reader.pc = pc

\* Go on, or give up with an error and forget the session.
To(pc) ==
    reader' = IF pc \in {"refused", "unavailable"} THEN [NoReader EXCEPT !.pc = pc]
              ELSE [reader EXCEPT !.pc = pc]

\* Get with store.WithShareLock: the read goes through once nobody writes the row.
ShareLocked(row) == CanLock(locks, "reader", row, "SHARE")

\* Mutant of PolicySettled: the row alone is waited for.
RowSettled == ShareLocked(<<"policyRow", b0>>)

\* A policy is share-locked through its bucket's advisory lock, too: a policy being
\* created has no row to wait for.
PolicySettled ==
    /\ CanLock(locks, "reader", <<"bucket", b0>>, "shared")
    /\ ShareLocked(<<"policyRow", b0>>)

-----------------------------------------------------------------------------
(***************************************************************************)
(* Arrival.                                                                *)
(***************************************************************************)

\* The transactions with a write in flight on a row the request depends on.
InFlight(k, b) ==
    {l.by : l \in {m \in locks :
        /\ m.on \in {<<"keyRow", k>>, <<"principal", owner[k]>>, <<"bucket", b>>,
                     <<"policyRow", b>>}
        /\ m.mode \in {"exclusive", "UPDATE", "NO KEY UPDATE"}}}

\* Could the request be granted with these key rows, principals and policies?
Justified(k, b, a, rows, status, docs) ==
    k \in rows /\ status[owner[k]] = "live" /\ a \in Effective(docs[b], owner[k])

ArriveForAuthorize ==
    /\ Reads("none")
    /\ \E k \in returned, b \in Buckets, a \in Actions :
          reader' = [NoReader EXCEPT !.pc = "key", !.key = k, !.bucket = b, !.action = a,
                                     !.backed = Justified(k, b, a, keyRow, principal, policy),
                                     !.pending = InFlight(k, b)]

ArriveForInfo ==
    /\ Reads("none")
    /\ \E k \in returned, b \in Buckets :
          reader' = [NoReader EXCEPT !.pc = "infoBucket", !.key = k, !.bucket = b]

-----------------------------------------------------------------------------
(***************************************************************************)
(* Authorize, with the signature verified (see Authorization).             *)
(***************************************************************************)
GetKey ==
    /\ Reads("key") /\ ShareLocked(<<"keyRow", k0>>)
    /\ To(IF k0 \in keyRow THEN "signer" ELSE "refused")

\* AccessKeySigner, to verify the signature.
ReadSigner ==
    /\ Reads("signer")
    /\ To(IF k0 \in secrets THEN "principal" ELSE "refused")

\* The principal's row, in authorizeOperation and in EffectiveActions.
GetPrincipal(here, next) ==
    /\ Reads(here) /\ ShareLocked(<<"principal", p0>>)
    /\ To(IF principal[p0] = "live" THEN next ELSE "refused")

resolveBucket(here, next) ==
    /\ Reads(here)
    /\ To(IF b0 \in buckets THEN next ELSE "refused")

\* Mutant of GetPolicy: any action on the bucket will do.
GetPolicyReachable ==
    /\ Reads("policy") /\ PolicySettled
    /\ To(IF Effective(policy[b0], p0) # {} THEN "sign" ELSE "denied")

\* effectiveActions, and the permission of the operation.
GetPolicy ==
    /\ Reads("policy") /\ PolicySettled
    /\ To(IF reader.action \in Effective(policy[b0], p0) THEN "sign" ELSE "denied")

\* AuthorizeRequest reads the private key again, to sign the delegations as the key.
SignDelegations ==
    /\ Reads("sign")
    /\ IF k0 \in secrets
       THEN reader' = [reader EXCEPT !.pc = "cleanup", !.authorized = TRUE, !.pending = {}]
       ELSE To("refused")

\* The cleanup commands of the permission are delegated by the tenant as well, through
\* the bucket's root, which goes with the bucket: no chain to the key is needed to use
\* them.  The gateway asks for the key's chains next.
issueCleanupDelegations ==
    /\ Reads("cleanup")
    /\ LET cmds == CommandsOf[reader.action] \cap CleanupCommands
       IN  reader' = [reader EXCEPT !.pc = "infoBucket",
                                    !.cleanup = cmds # {} /\ b0 \in buckets]

-----------------------------------------------------------------------------
(***************************************************************************)
(* Info.                                                                   *)
(***************************************************************************)
InfoKey ==
    /\ Reads("infoKey")
    /\ To(IF k0 \in keyRow THEN "infoPrincipal" ELSE "refused")

\* The actions and the policy's ETag; no action hides the bucket.
InfoPolicy ==
    /\ Reads("infoPolicy") /\ PolicySettled
    /\ IF Effective(policy[b0], p0) = {}
       THEN To("refused")
       ELSE reader' = [reader EXCEPT !.pc = "list", !.doc = policy[b0]]

listGrants ==
    /\ Reads("list")
    /\ LET grants == held[k0][b0]
       IN  reader' = [reader EXCEPT !.pc = IF grants = {} THEN "reread" ELSE "chains",
                                    !.todo = grants, !.empty = grants = {}, !.same = TRUE,
                                    !.met = policy[b0] = reader.doc]

\* ProofChain of each grant's command, as the table is when it is asked for.
ProofChain ==
    /\ Reads("chains")
    /\ \E c \in reader.todo :
          reader' = [reader EXCEPT !.todo = @ \ {c},
                                   !.torn = @ \/ ~reader.same,
                                   !.pc = IF reader.todo = {c} THEN "reread" ELSE "chains"]

policyETag ==
    /\ Reads("reread") /\ PolicySettled
    /\ To(IF ETag(policy[b0]) = ETag(reader.doc) THEN "relist" ELSE "unavailable")

\* Mutant of Relisted: the ETag alone decides.
RelistedUnchecked == Reads("relist") /\ To("answered")

\* listGrants again, and sameLinks.
Relisted ==
    /\ Reads("relist")
    /\ To(IF reader.same THEN "answered" ELSE "unavailable")

-----------------------------------------------------------------------------
\* A share-locked read gives up behind a write: ErrTemporarilyUnavailable.
ReadTimeout ==
    /\ "timeout" \in Faults
    /\ \/ Reads("key") /\ ~ShareLocked(<<"keyRow", k0>>)
       \/ reader.pc \in {"principal", "infoPrincipal"} /\ ~ShareLocked(<<"principal", p0>>)
       \/ /\ reader.pc \in {"policy", "infoPolicy", "reread"}
          /\ ~PolicySettled
    /\ To("unavailable")

ReadStep ==
    \/ ArriveForAuthorize \/ ArriveForInfo
    \/ GetKey \/ ReadSigner \/ GetPrincipal("principal", "bucket")
    \/ resolveBucket("bucket", "policy") \/ GetPolicy \/ SignDelegations
    \/ issueCleanupDelegations
    \/ resolveBucket("infoBucket", "infoKey") \/ InfoKey
    \/ GetPrincipal("infoPrincipal", "infoPolicy")
    \/ InfoPolicy \/ listGrants \/ ProofChain \/ policyETag \/ Relisted
    \/ ReadTimeout

(***************************************************************************)
(* A step of a writer, as the reader's session will find it.               *)
(***************************************************************************)
Relinked ==
    \/ held'[k0][b0] # held[k0][b0]
    \/ /\ policy'[b0] # policy[b0]
       /\ \E s \in Procs : At(s, "commit") /\ call[s].bucket = b0 /\ k0 \in call[s].keys

Watched ==
    LET same == IF Relinked THEN reader.empty /\ held'[k0][b0] = {} ELSE reader.same
    IN  IF reader.pc \in {"none", "answered", "refused", "denied", "unavailable"}
        THEN NoReader
        ELSE [reader EXCEPT
                !.same = same,
                !.met = @ \/ (same /\ policy'[b0] = reader.doc),
                !.backed = @ \/ Justified(k0, b0, reader.action, keyRow', principal', policy'),
                !.pending = {s \in @ : \E l \in locks' : l.by = s}]

ReadersNext ==
    \/ Next /\ reader' = Watched
    \/ ReadStep /\ UNCHANGED vars

ReadersSpec == ReadersInit /\ [][ReadersNext]_<<vars, reader>>

-----------------------------------------------------------------------------
(***************************************************************************)
(* Properties.                                                             *)
(***************************************************************************)

\* What Info reports with a grant in it was true at one moment: the policy's actions,
\* the listed grants and every proof chain, though each is read on its own and
\* policies are written, and written back, in between.
InfoIsOneRevision == Reads("answered") /\ ~reader.empty => reader.met /\ ~reader.torn

\* Authorize does not decide on a policy, either way, while a change of the key, the
\* principal or the policy it met in flight on arrival is uncommitted: the request is
\* answered from the new state, even where the change is the bucket's first policy,
\* which has no row to lock.
AnsweredFromTheNewState ==
    reader.pc \in {"sign", "denied"} => reader.pending = {}

\* What Authorize signs for the gateway can be used only if the credential was good for
\* the request at one moment since it arrived: a key deleted, or its principal removed
\* and created again, between the reads of Authorize may be let through, but then there
\* is no chain from the bucket to the key.  The cleanup delegations need none: a key
\* whose row is deleted after Authorize has read it is the one case where they are
\* issued although no moment justified the request.
UsableIsJustified ==
    reader.authorized =>
        /\ Reads("answered") /\ ~reader.empty => reader.backed
        /\ reader.cleanup => reader.backed \/ k0 \notin keyRow
=============================================================================
