----------------------------- MODULE PolicyDoc -----------------------------
(***************************************************************************)
(* Bucket policy documents and what they give a principal: the pure part   *)
(* of hilt's pkg/bucketpolicy, the preconditions of pkg/store/bucketpolicy *)
(* and the permission table lookup of pkg/s3perm.                          *)
(*                                                                         *)
(* A document is its set of statements: every encoding writes the          *)
(* statements in one canonical order, so their order and repetition carry  *)
(* no meaning.  A stored document has at least one statement (libforge's   *)
(* WellFormed refuses an empty one), so the empty set stands for "the      *)
(* bucket has no policy", the nil document of the code.                    *)
(***************************************************************************)
EXTENDS Naturals

CONSTANTS
    Principals,   \* the ids a console may give a tenant's principals
    Actions,      \* the policy actions (s3bkt.PolicyActions)
    Commands,     \* the Forge commands a delegation can carry
    CommandsOf    \* the commands each action needs (s3perm.permissionCommands)

ASSUME PrincipalsAssumption == Principals \subseteq Nat \ {0}
ASSUME CommandsOfAssumption == CommandsOf \in [Actions -> SUBSET Commands]
ASSUME ActionsAssumption == "*" \notin Actions

Wildcard == 0            \* s3bkt.Wildcard, a name no principal may have
PolicyWildcard == "*"    \* s3bkt.PolicyWildcard, every policy action
NoPolicy == {}

Statements == [effect : {"Allow", "Deny"},
               principal : ((SUBSET Principals) \ {{}}) \cup {{Wildcard}},
               actions : (SUBSET (Actions \cup {PolicyWildcard})) \ {{}}]

Documents == SUBSET Statements

-----------------------------------------------------------------------------
All(st) == Wildcard \in st.principal

names(st, p) == /\ p # Wildcard
                /\ All(st) \/ p \in st.principal

expand(acts) ==
    IF PolicyWildcard \in acts
    THEN (acts \ {PolicyWildcard}) \cup Actions
    ELSE acts

Gathered(d, p, effect) ==
    UNION {expand(st.actions) : st \in {t \in d : names(t, p) /\ t.effect = effect}}

Effective(d, p) == Gathered(d, p, "Allow") \ Gathered(d, p, "Deny")

Named(d) == UNION {st.principal : st \in {t \in d : ~All(t)}}

NamesWildcard(d) == \E st \in d : All(st)

\* Does the principal index list the policy for p?  (bucket_policy_principal)
Listed(d, p) == p \in Named(d) \/ NamesWildcard(d)

Without(st, p) ==
    IF p \in st.principal /\ ~All(st)
    THEN [st EXCEPT !.principal = @ \ {p}]
    ELSE st

\* Mutant of RemovePrincipal: a statement nobody is left in stays.
RemoveKeepsEmpty(d, p) == {Without(t, p) : t \in d}

RemovePrincipal(d, p) == {st \in {Without(t, p) : t \in d} : st.principal # {}}

\* Mutant of Changed: only those the new document names, or anybody if it has a
\* wildcard.
ChangedByNew(old, new, tenantPrincipals) ==
    {p \in Named(new) \cup (IF NamesWildcard(new) THEN tenantPrincipals ELSE {}) :
        Effective(old, p) # Effective(new, p)}

Changed(old, new, tenantPrincipals) ==
    LET candidates == Named(old) \cup Named(new)
                        \cup (IF NamesWildcard(old) \/ NamesWildcard(new)
                              THEN tenantPrincipals ELSE {})
    IN  {p \in candidates : Effective(old, p) # Effective(new, p)}

CommandsFor(acts) == UNION {CommandsOf[a] : a \in acts \cap DOMAIN CommandsOf}

\* The delegations issued to a key of p over a bucket whose policy is d.
Grants(d, p) == CommandsFor(Effective(d, p))

-----------------------------------------------------------------------------
(***************************************************************************)
(* The strong ETag is a digest of the canonical encoding: equal for equal  *)
(* documents, taken to be collision free.  A precondition is unconditional,*)
(* If-None-Match: *, or If-Match with the tag the caller read.             *)
(***************************************************************************)
ETag(d) == [digest |-> d]
NoETag == [digest |-> NoPolicy]

Unconditional == [cond |-> "any", etag |-> NoETag]
IfNoneMatch == [cond |-> "none", etag |-> NoETag]
IfMatch(e) == [cond |-> "match", etag |-> e]

Conditions == [cond : {"any", "none", "match"}, etag : [digest : Documents]]

CheckPrecondition(old, m) ==
    CASE m.cond = "any" -> TRUE
      [] m.cond = "none" -> old = NoPolicy
      [] m.cond = "match" -> old # NoPolicy /\ ETag(old) = m.etag
=============================================================================
