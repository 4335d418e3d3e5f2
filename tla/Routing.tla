------------------------------ MODULE Routing ------------------------------
(***************************************************************************)
(* Regional providers and the routing of their buckets: the admin commands *)
(* AddProvider and SetProviderNodes (pkg/rpc/admin.go) over the provider   *)
(* store, the routing policies they issue and put on the upload service,   *)
(* and the part of a bucket's creation that routes its space.              *)
(*                                                                         *)
(* A policy is a fresh DID: its root delegation is stored in hilt and      *)
(* proves every later put; its candidates live on the upload service.  A   *)
(* write that fails may have taken effect, its answer lost.                *)
(***************************************************************************)
EXTENDS Naturals, FiniteSets

CONSTANTS
    Admins,      \* admin requests at work
    Creators,    \* bucket creations at work
    Providers, Regions, Nodes,
    Policies,    \* policy DIDs; each is generated once
    Buckets,     \* bucket DIDs; each is generated once
    NoPolicy, NoRegion,
    MaxFaults    \* bound on the failures of an instance

ASSUME RoutingAssumption == /\ NoPolicy \notin Policies /\ NoRegion \notin Regions
                            /\ MaxFaults \in Nat

Procs == Admins \cup Creators

VARIABLES
    provider,    \* provider table: region (NoRegion: no record) and policy
    superseded,  \* history: the policies of records that were replaced
    issued,      \* history: the policy DIDs generated
    roots,       \* delegation table: the policies whose root is stored
    candidates,  \* upload service: the nodes of each policy ({}: never put)
    served,      \* bucket table: the provider of each bucket that has a row
    route,       \* upload service: the policy each space references
    generated,   \* history: the bucket DIDs generated
    faults, call

tables == <<provider, superseded, issued, roots, candidates, served, route, generated>>
vars == <<provider, superseded, issued, roots, candidates, served, route, generated,
          faults, call>>

Labels == {"idle", "checkRegion", "issue", "put", "add", "setPolicy", "addBucket", "use",
           "rollback"}

Idle == [pc |-> "idle", kind |-> "none", provider |-> NoPolicy, region |-> NoRegion,
         nodes |-> {}, policy |-> NoPolicy, bucket |-> NoPolicy]

Registered == {p \in Providers : provider[p].region # NoRegion}

\* The provider table, the policies and the spaces refer only to what exists, and
\* every request is at a step of the code.
TypeOK ==
    /\ provider \in [Providers -> [region : Regions \cup {NoRegion},
                                   policy : issued \cup {NoPolicy}]]
    /\ issued \subseteq Policies /\ roots \subseteq issued /\ superseded \subseteq issued
    /\ candidates \in [Policies -> SUBSET Nodes]
    /\ \A P \in Policies \ roots : candidates[P] = {}
    /\ served \in [Buckets -> Registered \cup {NoPolicy}]
    /\ route \in [Buckets -> issued \cup {NoPolicy}]
    /\ generated \subseteq Buckets
    /\ faults \in 0..MaxFaults
    /\ \A s \in Procs : call[s].pc \in Labels

Init ==
    /\ provider = [p \in Providers |-> [region |-> NoRegion, policy |-> NoPolicy]]
    /\ issued = {} /\ roots = {} /\ generated = {} /\ superseded = {}
    /\ candidates = [P \in Policies |-> {}]
    /\ served = [b \in Buckets |-> NoPolicy]
    /\ route = [b \in Buckets |-> NoPolicy]
    /\ faults = 0
    /\ call = [s \in Procs |-> Idle]

-----------------------------------------------------------------------------
At(s, label) == call[s].pc = label
Goto(s, label) == call' = [call EXCEPT ![s].pc = label]
Finish(s) == call' = [call EXCEPT ![s] = Idle]

\* A write and its answer: it works and the handler goes on, or it fails, done or
\* not, and the handler gives up.
Attempt(done, undone, goon, giveup) ==
    \/ done /\ goon /\ UNCHANGED faults
    \/ faults < MaxFaults /\ faults' = faults + 1 /\ (done \/ undone) /\ giveup

-----------------------------------------------------------------------------
(***************************************************************************)
(* AddProvider.                                                            *)
(***************************************************************************)

\* Bound: no more policies are asked for than there are DIDs left to generate.
PolicyLeft ==
    Cardinality(Policies \ issued)
        > Cardinality({t \in Admins : At(t, "issue") \/ (At(t, "checkRegion") /\ call[t].nodes # {})})

\* The DID is looked up first; a registered one is refused.
BeginAdd(s) ==
    /\ s \in Admins /\ At(s, "idle")
    /\ \E p \in Providers, r \in Regions, ns \in SUBSET Nodes :
          IF p \in Registered
          THEN Finish(s)
          ELSE /\ ns # {} => PolicyLeft
               /\ call' = [call EXCEPT ![s] = [Idle EXCEPT !.pc = "checkRegion", !.kind = "add",
                             !.provider = p, !.region = r, !.nodes = ns]]
    /\ UNCHANGED <<tables, faults>>

CheckRegion(s) ==
    /\ At(s, "checkRegion")
    /\ IF \E p \in Registered : provider[p].region = call[s].region
       THEN Finish(s)
       ELSE Goto(s, IF call[s].nodes = {} THEN "add" ELSE "issue")
    /\ UNCHANGED <<tables, faults>>

\* issuePolicy: a fresh key signs the root, which is stored.
issuePolicy(s) ==
    /\ At(s, "issue")
    /\ \E P \in Policies \ issued :
          /\ issued' = issued \cup {P}
          /\ Attempt(roots' = roots \cup {P}, UNCHANGED roots,
                     call' = [call EXCEPT ![s].policy = P, ![s].pc = "put"], Finish(s))
    /\ UNCHANGED <<provider, superseded, candidates, served, route, generated>>

\* Mutant of afterPut: a policy is recorded whether or not its nodes were put.
afterPutLogged(s, ok) ==
    CASE call[s].kind = "add" -> Goto(s, "add")
      [] call[s].kind = "first" -> Goto(s, "setPolicy")
      [] OTHER -> Finish(s)

\* What follows the put: the record goes last, and only once the nodes are put.
afterPut(s, ok) ==
    CASE ok /\ call[s].kind = "add" -> Goto(s, "add")
      [] ok /\ call[s].kind = "first" -> Goto(s, "setPolicy")
      [] OTHER -> Finish(s)

\* The stored root proves the put, which replaces the policy's candidates.
PutRoutingPolicy(P, ns) == P \in roots /\ candidates' = [candidates EXCEPT ![P] = ns]

setPolicyNodes(s) ==
    /\ At(s, "put")
    /\ Attempt(PutRoutingPolicy(call[s].policy, call[s].nodes), UNCHANGED candidates,
               afterPut(s, TRUE), afterPut(s, FALSE))
    /\ UNCHANGED <<provider, superseded, issued, roots, served, route, generated>>

\* Mutant of AddRecord: the checks at the start are relied on.
AddRecordUnchecked(s) ==
    /\ At(s, "add")
    /\ Attempt(provider' = [provider EXCEPT ![call[s].provider] =
                              [region |-> call[s].region, policy |-> call[s].policy]],
               UNCHANGED provider, Finish(s), Finish(s))
    /\ UNCHANGED <<superseded, issued, roots, candidates, served, route, generated>>

\* providers.Add: the insert is refused when the DID or the region is taken.
AddRecord(s) ==
    /\ At(s, "add")
    /\ IF call[s].provider \in Registered
          \/ \E p \in Registered : provider[p].region = call[s].region
       THEN Finish(s) /\ UNCHANGED <<provider, superseded, faults>>
       ELSE Attempt(provider' = [provider EXCEPT ![call[s].provider] =
                                   [region |-> call[s].region, policy |-> call[s].policy]],
                    UNCHANGED provider, Finish(s), Finish(s))
    /\ UNCHANGED <<superseded, issued, roots, candidates, served, route, generated>>

-----------------------------------------------------------------------------
(***************************************************************************)
(* SetProviderNodes: a provider without a policy gets one, and its record  *)
(* is updated last, whatever it says by then.                              *)
(***************************************************************************)
BeginSet(s) ==
    /\ s \in Admins /\ At(s, "idle")
    /\ \E p \in Registered, ns \in (SUBSET Nodes) \ {{}} :
          \/ /\ provider[p].policy = NoPolicy /\ PolicyLeft
             /\ call' = [call EXCEPT ![s] = [Idle EXCEPT !.pc = "issue", !.kind = "first",
                            !.provider = p, !.nodes = ns]]
          \/ /\ provider[p].policy # NoPolicy
             /\ call' = [call EXCEPT ![s] = [Idle EXCEPT !.pc = "put", !.kind = "set",
                            !.provider = p, !.nodes = ns, !.policy = provider[p].policy]]
    /\ UNCHANGED <<tables, faults>>

SetPolicy(s) ==
    /\ At(s, "setPolicy")
    /\ LET p == call[s].provider
       IN  Attempt(/\ provider' = [provider EXCEPT ![p].policy = call[s].policy]
                   /\ superseded' = superseded \cup ({provider[p].policy} \ {NoPolicy}),
                   UNCHANGED <<provider, superseded>>, Finish(s), Finish(s))
    /\ UNCHANGED <<issued, roots, candidates, served, route, generated>>

-----------------------------------------------------------------------------
(***************************************************************************)
(* A bucket's creation, from the provider record Authorize read (the other *)
(* steps are in TenantContents).                                           *)
(***************************************************************************)
\* Mutant of BeginCreate: for a provider nobody has registered, too.
BeginCreateAnywhere(s) ==
    /\ s \in Creators /\ At(s, "idle")
    /\ \E p \in Providers, b \in Buckets :
          /\ b \notin generated /\ generated' = generated \cup {b}
          /\ call' = [call EXCEPT ![s] = [Idle EXCEPT
                        !.pc = "addBucket", !.kind = "create", !.provider = p,
                        !.bucket = b, !.policy = provider[p].policy]]
    /\ UNCHANGED <<provider, superseded, issued, roots, candidates, served, route, faults>>

\* Bound: as many buckets as there are DIDs.
BeginCreate(s) ==
    /\ s \in Creators /\ At(s, "idle")
    /\ \E p \in Registered, b \in Buckets :
          /\ b \notin generated /\ generated' = generated \cup {b}
          /\ call' = [call EXCEPT ![s] = [Idle EXCEPT
                        !.pc = "addBucket", !.kind = "create", !.provider = p,
                        !.bucket = b, !.policy = provider[p].policy]]
    /\ UNCHANGED <<provider, superseded, issued, roots, candidates, served, route, faults>>

AddBucket(s) ==
    /\ At(s, "addBucket")
    /\ Attempt(served' = [served EXCEPT ![call[s].bucket] = call[s].provider],
               UNCHANGED served, Goto(s, "use"), Finish(s))
    /\ UNCHANGED <<provider, superseded, issued, roots, candidates, route, generated>>

\* The space takes its placement from the policy.
UseRoutingPolicy(b, P) == route' = [route EXCEPT ![b] = P]

\* Route the space, unless the provider had no policy: default routing.  A failure
\* stands for one of any call from the row to here, each of which rolls back.
RouteSpace(s) ==
    /\ At(s, "use")
    /\ Attempt(UseRoutingPolicy(call[s].bucket, call[s].policy), UNCHANGED route,
               Finish(s), Goto(s, "rollback"))
    /\ UNCHANGED <<provider, superseded, issued, roots, candidates, served, generated>>

\* The row goes, if it can; the space stays behind.
Rollback(s) ==
    /\ At(s, "rollback")
    /\ Attempt(served' = [served EXCEPT ![call[s].bucket] = NoPolicy], UNCHANGED served,
               Finish(s), Finish(s))
    /\ UNCHANGED <<provider, superseded, issued, roots, candidates, route, generated>>

-----------------------------------------------------------------------------
Step(s) ==
    \/ BeginAdd(s) \/ CheckRegion(s) \/ issuePolicy(s) \/ setPolicyNodes(s) \/ AddRecord(s)
    \/ BeginSet(s) \/ SetPolicy(s)
    \/ BeginCreate(s) \/ AddBucket(s) \/ RouteSpace(s) \/ Rollback(s)

Next == \E s \in Procs : Step(s)

Spec == Init /\ [][Next]_vars

-----------------------------------------------------------------------------
(***************************************************************************)
(* Properties.                                                             *)
(***************************************************************************)

\* A policy a provider record or a bucket's space refers to leads to nodes, and
\* its root is there to change them, whichever step failed and whatever raced.
PoliciesInUseLead ==
    \A P \in {provider[p].policy : p \in Registered} \cup {route[b] : b \in Buckets} :
        P # NoPolicy => P \in roots /\ candidates[P] # {}

\* A bucket's space is placed by the policy its own provider's record names, so that
\* setting the provider's nodes moves it.  What may keep it elsewhere is one race: two
\* requests that both found the provider without a policy, where the second to record
\* its own leaves the buckets created in between on the first's (and a provider that
\* had no policy yet leaves them on default routing).
SpacesFollowTheirProvider ==
    \A b \in Buckets :
        served[b] # NoPolicy /\ route[b] # NoPolicy
            => route[b] \in superseded \cup {provider[served[b]].policy}

\* A region names one provider, though two registrations for it may both have
\* found it free.
RegionsResolve ==
    \A p, q \in Registered : provider[p].region = provider[q].region => p = q
=============================================================================
