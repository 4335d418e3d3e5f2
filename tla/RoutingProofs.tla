--------------------------- MODULE RoutingProofs ---------------------------
(***************************************************************************)
(* Routing for any number of administrators, creations, providers, regions *)
(* and nodes: its types, one provider to a region, no reference to a       *)
(* policy that leads nowhere, and every space where its provider's record  *)
(* puts it.                                                                *)
(*                                                                         *)
(* The third is not inductive: a record or a route is written from what a  *)
(* request carries, so the invariant says of every policy a request is     *)
(* about to record that it leads already.  It goes on leading because a    *)
(* put replaces its candidates by others, never by none.  Nor is the last: *)
(* no two creations are about the same bucket, and the policy one carries  *)
(* is still its provider's or has been superseded.                         *)
(***************************************************************************)
EXTENDS Routing, TLAPS

CallType ==
    [pc : Labels, kind : {"none", "add", "first", "set", "create"},
     provider : Providers \cup {NoPolicy}, region : Regions \cup {NoRegion},
     nodes : SUBSET Nodes, policy : issued \cup {NoPolicy},
     bucket : Buckets \cup {NoPolicy}]

\* Nothing is wrong with referring to P.
Leads(P) == P # NoPolicy => P \in roots /\ candidates[P] # {}

\* What a request at a step has made sure of.
CallLeads(s) ==
    /\ At(s, "checkRegion") => /\ call[s].kind = "add" /\ call[s].policy = NoPolicy
                               /\ call[s].provider \in Providers /\ call[s].region \in Regions
    /\ At(s, "issue") => /\ call[s].nodes # {} /\ call[s].provider \in Providers
                         /\ \/ call[s].kind = "add" /\ call[s].region \in Regions
                            \/ call[s].kind = "first" /\ call[s].provider \in Registered
    /\ At(s, "put") => /\ call[s].nodes # {} /\ call[s].policy \in roots
                       /\ call[s].provider \in Providers
                       /\ call[s].kind = "add" => call[s].region \in Regions
                       /\ call[s].kind = "first" => call[s].provider \in Registered
    /\ At(s, "add") => /\ Leads(call[s].policy)
                       /\ call[s].provider \in Providers /\ call[s].region \in Regions
    /\ At(s, "setPolicy") => Leads(call[s].policy) /\ call[s].provider \in Registered
    /\ At(s, "addBucket") => /\ Leads(call[s].policy) /\ call[s].provider \in Registered
                             /\ call[s].bucket \in Buckets
    /\ At(s, "use") => Leads(call[s].policy) /\ call[s].bucket \in Buckets
    /\ At(s, "rollback") => call[s].bucket \in Buckets

RecordsLead ==
    /\ \A p \in Registered : Leads(provider[p].policy)
    /\ \A b \in Buckets : Leads(route[b])

IInv ==
    /\ TypeOK /\ call \in [Procs -> CallType]
    /\ \A s \in Procs : CallLeads(s)
    /\ RecordsLead
    /\ RegionsResolve

LEMMA InitIInv == Init => IInv
BY RoutingAssumption
DEF Init, IInv, TypeOK, Labels, CallType, CallLeads, At, Idle, RecordsLead, Leads, Registered,
    RegionsResolve

-----------------------------------------------------------------------------
(***************************************************************************)
(* What a step may change: issued and roots grow, records stay registered, *)
(* and a policy that leads goes on leading.                                *)
(***************************************************************************)
Grows ==
    /\ issued \subseteq issued' /\ roots \subseteq roots'
    /\ Registered \subseteq Registered'
    /\ \A P \in issued \cup {NoPolicy} : Leads(P) => Leads(P)'

LEMMA OthersKeep ==
    ASSUME IInv, Grows, NEW s \in Procs, NEW t \in Procs, t # s,
           call' = [call EXCEPT ![s] = call'[s]]
    PROVE  call'[t] \in CallType' /\ CallLeads(t)'
<1>1. call'[t] = call[t] /\ call[t] \in CallType
  BY DEF IInv
<1>2. call'[t] \in CallType'
  BY <1>1 DEF Grows, CallType
<1>3. CallLeads(t)
  BY DEF IInv
<1>4. Leads(call[t].policy) => Leads(call[t].policy)'
  BY <1>1 DEF Grows, CallType
<1>5. CallLeads(t)'
  BY <1>1, <1>3, <1>4 DEF CallLeads, At, Grows, Leads
<1>6. QED
  BY <1>2, <1>5

\* The step of s keeps the invariant, as far as s and the tables go.
Keeps(s) ==
    /\ Grows /\ TypeOK'
    /\ call' = [call EXCEPT ![s] = call'[s]]
    /\ call'[s] \in CallType' /\ CallLeads(s)'
    /\ RecordsLead' /\ RegionsResolve'

LEMMA KeepsIInv ==
    ASSUME IInv, NEW s \in Procs, Keeps(s) PROVE IInv'
<1>1. \A t \in Procs : call'[t] \in CallType' /\ CallLeads(t)'
  BY OthersKeep DEF Keeps
<1>2. call' \in [Procs -> CallType']
  BY <1>1 DEF Keeps, IInv
<1>3. QED
  BY <1>1, <1>2 DEF IInv, Keeps

\* A step that only moves its own request.
LEMMA TablesStay ==
    ASSUME IInv, UNCHANGED tables
    PROVE  /\ Grows /\ RecordsLead' /\ RegionsResolve'
           /\ CallType' = CallType /\ Registered' = Registered
           /\ \A P \in issued \cup {NoPolicy} : Leads(P)' <=> Leads(P)
<1>1. Registered' = Registered /\ CallType' = CallType
  BY DEF tables, Registered, CallType
<1>2. \A P \in issued \cup {NoPolicy} : Leads(P)' <=> Leads(P)
  BY DEF tables, Leads
<1>3. RecordsLead' /\ RegionsResolve'
  BY <1>1 DEF IInv, RecordsLead, RegionsResolve, tables, Leads
<1>4. QED
  BY <1>1, <1>2, <1>3 DEF Grows, tables

LEMMA QuietTypes ==
    ASSUME IInv, UNCHANGED <<tables, faults>>, NEW s \in Procs,
           call' = [call EXCEPT ![s] = call'[s]], call'[s].pc \in Labels
    PROVE  TypeOK'
BY DEF IInv, TypeOK, tables, Registered

LEMMA BeginsKeep ==
    ASSUME IInv, NEW s \in Procs, BeginAdd(s) \/ CheckRegion(s) \/ BeginSet(s)
    PROVE  Keeps(s)
<1>0. UNCHANGED <<tables, faults>>
  BY DEF BeginAdd, CheckRegion, BeginSet
<1>1. call \in [Procs -> CallType] /\ CallLeads(s)
  BY DEF IInv
<1>2. Idle \in CallType
  BY DEF Idle, CallType, Labels
<1>3. /\ call' = [call EXCEPT ![s] = call'[s]]
      /\ call'[s] \in CallType /\ CallLeads(s)'
  <2>1. CASE BeginAdd(s)
    <3>1. PICK p \in Providers, r \in Regions, ns \in SUBSET Nodes :
            IF p \in Registered THEN Finish(s)
            ELSE call' = [call EXCEPT ![s] = [Idle EXCEPT !.pc = "checkRegion", !.kind = "add",
                             !.provider = p, !.region = r, !.nodes = ns]]
      BY <2>1 DEF BeginAdd
    <3>2. CASE p \in Registered
      BY <1>1, <1>2, <3>1, <3>2 DEF Finish, CallLeads, At, Idle
    <3>3. CASE p \notin Registered
      <4> DEFINE new == [pc |-> "checkRegion", kind |-> "add", provider |-> p, region |-> r,
                         nodes |-> ns, policy |-> NoPolicy, bucket |-> NoPolicy]
      <4>1. call' = [call EXCEPT ![s] = new]
        BY <3>1, <3>3 DEF Idle
      <4>2. new \in CallType
        BY DEF CallType, Labels
      <4> HIDE DEF new
      <4>3. call'[s] = new
        BY <1>1, <4>1
      <4>4. CallLeads(s)'
        BY <4>3 DEF new, CallLeads, At
      <4>5. QED
        BY <1>1, <4>1, <4>2, <4>3, <4>4
    <3>4. QED
      BY <3>2, <3>3
  <2>2. CASE CheckRegion(s)
    <3>1. CASE Finish(s)
      BY <1>1, <1>2, <3>1 DEF Finish, CallLeads, At, Idle
    <3>2. CASE Goto(s, IF call[s].nodes = {} THEN "add" ELSE "issue")
      BY <1>1, <2>2, <3>2 DEF CheckRegion, Goto, CallType, CallLeads, At, Labels, Leads
    <3>3. QED
      BY <2>2, <3>1, <3>2 DEF CheckRegion
  <2>3. CASE BeginSet(s)
    <3>1. PICK p \in Registered, ns \in (SUBSET Nodes) \ {{}} :
            \/ /\ provider[p].policy = NoPolicy
               /\ call' = [call EXCEPT ![s] = [Idle EXCEPT !.pc = "issue", !.kind = "first",
                              !.provider = p, !.nodes = ns]]
            \/ /\ provider[p].policy # NoPolicy
               /\ call' = [call EXCEPT ![s] = [Idle EXCEPT !.pc = "put", !.kind = "set",
                              !.provider = p, !.nodes = ns, !.policy = provider[p].policy]]
      BY <2>3 DEF BeginSet
    <3>2. p \in Providers /\ provider[p].policy \in issued \cup {NoPolicy}
      BY DEF IInv, TypeOK, Registered
    <3>3. Leads(provider[p].policy) /\ Registered' = Registered /\ roots' = roots
      BY <1>0, TablesStay DEF IInv, RecordsLead, tables
    <3>4. CASE provider[p].policy = NoPolicy
      <4> DEFINE new == [pc |-> "issue", kind |-> "first", provider |-> p, region |-> NoRegion,
                         nodes |-> ns, policy |-> NoPolicy, bucket |-> NoPolicy]
      <4>1. call' = [call EXCEPT ![s] = new]
        BY <3>1, <3>4 DEF Idle
      <4>2. new \in CallType
        BY <3>2 DEF CallType, Labels
      <4> HIDE DEF new
      <4>3. call'[s] = new
        BY <1>1, <4>1
      <4>4. CallLeads(s)'
        BY <3>2, <3>3, <4>3 DEF new, CallLeads, At
      <4>5. QED
        BY <1>1, <4>1, <4>2, <4>3, <4>4
    <3>5. CASE provider[p].policy # NoPolicy
      <4> DEFINE P == provider[p].policy
                 new == [pc |-> "put", kind |-> "set", provider |-> p, region |-> NoRegion,
                         nodes |-> ns, policy |-> P, bucket |-> NoPolicy]
      <4>0. P \in roots' /\ P \in issued
        BY <3>2, <3>3, <3>5 DEF Leads
      <4> HIDE DEF P
      <4>1. call' = [call EXCEPT ![s] = new]
        BY <3>1, <3>5 DEF Idle, P
      <4>2. new \in CallType
        BY <3>2, <4>0 DEF CallType, Labels
      <4> HIDE DEF new
      <4>3. call'[s] = new
        BY <1>1, <4>1
      <4>4. CallLeads(s)'
        BY <3>2, <4>0, <4>3 DEF new, CallLeads, At
      <4>5. QED
        BY <1>1, <4>1, <4>2, <4>3, <4>4
    <3>6. QED
      BY <3>4, <3>5
  <2>4. QED
    BY <2>1, <2>2, <2>3
<1>4. TypeOK'
  BY <1>0, <1>3, QuietTypes DEF CallType
<1>5. QED
  BY <1>0, <1>3, <1>4, TablesStay DEF Keeps

-----------------------------------------------------------------------------
(***************************************************************************)
(* The steps that write.                                                   *)
(***************************************************************************)

\* A request that ends or moves on has nothing new about it but its place.
LEMMA Moves ==
    ASSUME IInv, NEW s \in Procs
    PROVE  /\ Finish(s) => /\ call' = [call EXCEPT ![s] = call'[s]]
                           /\ call'[s] = Idle
           /\ \A l \in Labels : Goto(s, l) =>
                 /\ call' = [call EXCEPT ![s] = call'[s]]
                 /\ call'[s] = [call[s] EXCEPT !.pc = l]
<1>1. call \in [Procs -> CallType]
  BY DEF IInv
<1>2. QED
  BY <1>1 DEF Finish, Goto

LEMMA IdleIsSafe ==
    ASSUME NEW s \in Procs, call'[s] = Idle
    PROVE  call'[s] \in CallType' /\ CallLeads(s)'
BY DEF Idle, CallType, Labels, CallLeads, At

\* A failure is counted once.
LEMMA FaultsBounded ==
    ASSUME TypeOK, UNCHANGED faults \/ (faults < MaxFaults /\ faults' = faults + 1)
    PROVE  faults' \in 0..MaxFaults
<1>1. faults \in 0..MaxFaults
  BY DEF TypeOK
<1>2. QED
  BY <1>1, RoutingAssumption

LEMMA IssueKeeps == ASSUME IInv, NEW s \in Procs, issuePolicy(s) PROVE Keeps(s)
<1>1. call \in [Procs -> CallType] /\ CallLeads(s) /\ TypeOK
  BY DEF IInv
<1>2. PICK P \in Policies \ issued :
        /\ issued' = issued \cup {P}
        /\ roots' = roots \cup {P} \/ roots' = roots
        /\ \/ /\ roots' = roots \cup {P} /\ UNCHANGED faults
              /\ call' = [call EXCEPT ![s].policy = P, ![s].pc = "put"]
           \/ faults < MaxFaults /\ faults' = faults + 1 /\ Finish(s)
  BY DEF issuePolicy, Attempt
<1>3. UNCHANGED <<provider, superseded, candidates, served, route, generated>> /\ At(s, "issue")
  BY DEF issuePolicy
<1>4. Registered' = Registered
  BY <1>3 DEF Registered
<1>5. Grows
  BY <1>2, <1>3, <1>4 DEF Grows, Leads
<1>6. /\ call' = [call EXCEPT ![s] = call'[s]]
      /\ call'[s] \in CallType' /\ CallLeads(s)'
  <2>1. CASE call' = [call EXCEPT ![s].policy = P, ![s].pc = "put"] /\ roots' = roots \cup {P}
    <3>1. call'[s] = [call[s] EXCEPT !.policy = P, !.pc = "put"]
      BY <1>1, <2>1
    <3>2. call'[s] \in CallType'
      BY <1>1, <1>2, <3>1 DEF CallType, Labels
    <3>3. /\ call'[s].pc = "put" /\ call'[s].policy = P /\ call'[s].kind = call[s].kind
          /\ call'[s].nodes = call[s].nodes /\ call'[s].provider = call[s].provider
          /\ call'[s].region = call[s].region
      BY <1>1, <3>1 DEF CallType
    <3>4. CallLeads(s)'
      BY <1>1, <1>3, <1>4, <2>1, <3>3 DEF CallLeads, At
    <3>5. QED
      BY <1>1, <2>1, <3>2, <3>4
  <2>2. CASE Finish(s)
    BY <2>2, Moves, IdleIsSafe
  <2>3. QED
    BY <1>2, <2>1, <2>2
<1>7. TypeOK'
  <2>1. \A t \in Procs : call'[t].pc \in Labels
    BY <1>1, <1>6 DEF TypeOK, CallType
  <2>2. faults' \in 0..MaxFaults
    BY <1>1, <1>2, FaultsBounded
  <2>3. QED
    BY <1>1, <1>2, <1>3, <1>4, <2>1, <2>2 DEF TypeOK
<1>8. RecordsLead' /\ RegionsResolve'
  BY <1>2, <1>3, <1>4 DEF IInv, RecordsLead, RegionsResolve, Leads
<1>9. QED
  BY <1>5, <1>6, <1>7, <1>8 DEF Keeps

LEMMA PutKeeps == ASSUME IInv, NEW s \in Procs, setPolicyNodes(s) PROVE Keeps(s)
<1>1. call \in [Procs -> CallType] /\ CallLeads(s) /\ TypeOK
  BY DEF IInv
<1> DEFINE P == call[s].policy
<1>2. /\ At(s, "put") /\ UNCHANGED <<provider, superseded, issued, roots, served, route, generated>>
      /\ call[s].nodes # {} /\ call[s].nodes \in SUBSET Nodes /\ P \in roots
  BY <1>1 DEF setPolicyNodes, CallLeads, CallType
<1>3. /\ candidates' = [candidates EXCEPT ![P] = call[s].nodes] \/ candidates' = candidates
      /\ \/ /\ candidates' = [candidates EXCEPT ![P] = call[s].nodes] /\ UNCHANGED faults
            /\ afterPut(s, TRUE)
         \/ faults < MaxFaults /\ faults' = faults + 1 /\ afterPut(s, FALSE)
  BY DEF setPolicyNodes, Attempt, PutRoutingPolicy
<1>4. Registered' = Registered /\ CallType' = CallType
  BY <1>2 DEF Registered, CallType
<1>5. candidates' \in [Policies -> SUBSET Nodes] /\ P \in Policies
  BY <1>1, <1>2, <1>3 DEF TypeOK
<1>6. \A Q : Leads(Q) => Leads(Q)'
  BY <1>1, <1>2, <1>3 DEF TypeOK, Leads
<1>7. Grows
  BY <1>2, <1>4, <1>6 DEF Grows
<1>8. \/ Finish(s)
      \/ /\ candidates' = [candidates EXCEPT ![P] = call[s].nodes]
         /\ \/ call[s].kind = "add" /\ Goto(s, "add")
            \/ call[s].kind = "first" /\ Goto(s, "setPolicy")
  BY <1>3 DEF afterPut
<1>9. /\ call' = [call EXCEPT ![s] = call'[s]]
      /\ call'[s] \in CallType' /\ CallLeads(s)'
  <2>1. CASE Finish(s)
    BY <2>1, Moves, IdleIsSafe
  <2>2. ASSUME candidates' = [candidates EXCEPT ![P] = call[s].nodes],
               NEW l \in {"add", "setPolicy"}, Goto(s, l),
               l = "add" => call[s].kind = "add", l = "setPolicy" => call[s].kind = "first"
        PROVE  /\ call' = [call EXCEPT ![s] = call'[s]]
               /\ call'[s] \in CallType' /\ CallLeads(s)'
    <3>1. call' = [call EXCEPT ![s] = call'[s]] /\ call'[s] = [call[s] EXCEPT !.pc = l]
      BY <2>2, Moves DEF Labels
    <3>2. call'[s] \in CallType'
      <4>1. call[s] \in CallType /\ l \in Labels
        BY <1>1, <2>2 DEF Labels
      <4>2. [call[s] EXCEPT !.pc = l] \in CallType
        BY <4>1 DEF CallType
      <4>3. QED
        BY <1>4, <3>1, <4>2
    <3>3. /\ call'[s].pc = l /\ call'[s].policy = P /\ call'[s].provider = call[s].provider
          /\ call'[s].region = call[s].region
      BY <1>1, <3>1 DEF CallType
    <3>4. P \in roots' /\ candidates'[P] # {}
      BY <1>1, <1>2, <1>5, <2>2 DEF TypeOK
    <3>5. call[s].provider \in Providers
          /\ (l = "add" => call[s].region \in Regions)
          /\ (l = "setPolicy" => call[s].provider \in Registered)
      BY <1>1, <1>2, <2>2 DEF CallLeads
    <3>6. CallLeads(s)'
      BY <1>4, <3>3, <3>4, <3>5 DEF CallLeads, At, Leads
    <3>7. QED
      BY <3>1, <3>2, <3>6
  <2>3. QED
    BY <1>8, <2>1, <2>2
<1>10. TypeOK'
  <2>1. \A t \in Procs : call'[t].pc \in Labels
    BY <1>1, <1>9 DEF TypeOK, CallType
  <2>2. faults' \in 0..MaxFaults
    BY <1>1, <1>3, FaultsBounded
  <2>3. \A Q \in Policies \ roots : candidates'[Q] = {}
    BY <1>1, <1>2, <1>3 DEF TypeOK
  <2>4. QED
    BY <1>1, <1>2, <1>4, <1>5, <2>1, <2>2, <2>3 DEF TypeOK
<1>11. RecordsLead' /\ RegionsResolve'
  BY <1>2, <1>4, <1>6 DEF IInv, RecordsLead, RegionsResolve
<1>12. QED
  BY <1>7, <1>9, <1>10, <1>11 DEF Keeps

LEMMA RecordKeeps ==
    ASSUME IInv, NEW s \in Procs, AddRecord(s) \/ SetPolicy(s) PROVE Keeps(s)
<1>1. /\ call \in [Procs -> CallType] /\ CallLeads(s) /\ TypeOK /\ RegionsResolve
      /\ RecordsLead
  BY DEF IInv
<1>2. UNCHANGED <<issued, roots, candidates, served, route, generated>> /\ Finish(s)
  BY DEF AddRecord, SetPolicy, Attempt
<1>3. faults' \in 0..MaxFaults
  BY <1>1, FaultsBounded DEF AddRecord, SetPolicy, Attempt
<1>4. \A Q : Leads(Q)' <=> Leads(Q)
  BY <1>2 DEF Leads
<1>5. \/ provider' = provider
      \/ \E p \in Providers, new \in [region : Regions, policy : issued \cup {NoPolicy}] :
            /\ provider' = [provider EXCEPT ![p] = new] /\ Leads(new.policy)
            /\ \A q \in Registered : q # p => provider[q].region # new.region
  <2>1. CASE AddRecord(s) /\ provider' # provider
    <3> DEFINE new == [region |-> call[s].region, policy |-> call[s].policy]
    <3>1. /\ At(s, "add") /\ provider' = [provider EXCEPT ![call[s].provider] = new]
          /\ ~ \E p \in Registered : provider[p].region = call[s].region
      BY <2>1 DEF AddRecord, Attempt
    <3>2. /\ call[s].provider \in Providers /\ call[s].region \in Regions
          /\ Leads(call[s].policy) /\ call[s].policy \in issued \cup {NoPolicy}
      BY <1>1, <3>1 DEF CallLeads, CallType
    <3>3. /\ new \in [region : Regions, policy : issued \cup {NoPolicy}]
          /\ new.region = call[s].region /\ new.policy = call[s].policy
      BY <3>2
    <3>4. \A q \in Registered : q # call[s].provider => provider[q].region # new.region
      BY <3>1, <3>3
    <3>5. Leads(new.policy)
      BY <3>2, <3>3
    <3> HIDE DEF new
    <3>6. QED
      BY <3>1, <3>2, <3>3, <3>4, <3>5, Zenon
  <2>2. CASE SetPolicy(s) /\ provider' # provider
    <3> DEFINE p == call[s].provider
               new == [region |-> provider[p].region, policy |-> call[s].policy]
    <3>1. At(s, "setPolicy") /\ provider' = [provider EXCEPT ![p].policy = call[s].policy]
      BY <2>2 DEF SetPolicy, Attempt
    <3>2. p \in Registered /\ Leads(call[s].policy) /\ call[s].policy \in issued \cup {NoPolicy}
      BY <1>1, <3>1 DEF CallLeads, CallType
    <3>3. p \in Providers /\ provider[p].region \in Regions
      BY <1>1, <3>2 DEF Registered, TypeOK
    <3>4. provider' = [provider EXCEPT ![p] = new]
      <4>1. provider[p] \in [region : Regions \cup {NoRegion}, policy : issued \cup {NoPolicy}]
        BY <1>1, <3>3 DEF TypeOK
      <4>2. [provider[p] EXCEPT !.policy = call[s].policy] = new
        BY <4>1
      <4>3. provider' = [provider EXCEPT ![p] = [provider[p] EXCEPT !.policy = call[s].policy]]
        BY <3>1
      <4>4. QED
        BY <4>2, <4>3, Zenon
    <3>5. \A q \in Registered : q # p => provider[q].region # new.region
      BY <1>1, <3>2 DEF RegionsResolve
    <3>6. QED
      BY <3>2, <3>3, <3>4, <3>5, ZenonT(60)
  <2>3. QED
    BY <2>1, <2>2
<1>6. /\ provider' \in [Providers -> [region : Regions \cup {NoRegion},
                                     policy : issued \cup {NoPolicy}]]
      /\ Registered \subseteq Registered' /\ RecordsLead' /\ RegionsResolve'
  <2>1. CASE provider' = provider
    BY <1>1, <1>2, <1>4, <2>1 DEF TypeOK, Registered, RecordsLead, RegionsResolve
  <2>2. ASSUME NEW p \in Providers, NEW new \in [region : Regions, policy : issued \cup {NoPolicy}],
               provider' = [provider EXCEPT ![p] = new], Leads(new.policy),
               \A q \in Registered : q # p => provider[q].region # new.region
        PROVE  /\ provider' \in [Providers -> [region : Regions \cup {NoRegion},
                                              policy : issued \cup {NoPolicy}]]
               /\ Registered \subseteq Registered' /\ RecordsLead' /\ RegionsResolve'
    <3>1. provider \in [Providers -> [region : Regions \cup {NoRegion},
                                     policy : issued \cup {NoPolicy}]]
      BY <1>1 DEF TypeOK
    <3>2. Registered' = Registered \cup {p}
      BY <2>2, <3>1, RoutingAssumption DEF Registered
    <3>3. \A q \in Registered' : Leads(provider'[q].policy)
      BY <1>1, <2>2, <3>1, <3>2 DEF RecordsLead, Registered
    <3>4. RecordsLead'
      BY <1>1, <1>2, <1>4, <3>3 DEF RecordsLead
    <3>5. RegionsResolve'
      BY <1>1, <2>2, <3>1, <3>2 DEF RegionsResolve, Registered
    <3>6. QED
      BY <2>2, <3>1, <3>2, <3>4, <3>5
  <2>3. QED
    BY <1>5, <2>1, <2>2
<1>7. /\ call' = [call EXCEPT ![s] = call'[s]]
      /\ call'[s] \in CallType' /\ CallLeads(s)'
  BY <1>2, Moves, IdleIsSafe
<1>8. TypeOK'
  <2>1. \A t \in Procs : call'[t].pc \in Labels
    BY <1>1, <1>7 DEF TypeOK, CallType
  <2>2. served \in [Buckets -> Registered' \cup {NoPolicy}]
    BY <1>1, <1>6 DEF TypeOK
  <2>3. superseded' \subseteq issued
    <3>1. provider[call[s].provider].policy \in issued \cup {NoPolicy} \/ UNCHANGED superseded
      BY <1>1 DEF TypeOK, AddRecord, SetPolicy, CallLeads, Registered
    <3>2. QED
      BY <1>1, <3>1 DEF TypeOK, AddRecord, SetPolicy, Attempt
  <2>4. QED
    BY <1>1, <1>2, <1>3, <1>6, <2>1, <2>2, <2>3 DEF TypeOK
<1>9. QED
  BY <1>2, <1>4, <1>6, <1>7, <1>8 DEF Keeps, Grows

LEMMA CreateKeeps == ASSUME IInv, NEW s \in Procs, BeginCreate(s) PROVE Keeps(s)
<1>1. call \in [Procs -> CallType] /\ TypeOK /\ RecordsLead /\ RegionsResolve
  BY DEF IInv
<1>2. UNCHANGED <<provider, superseded, issued, roots, candidates, served, route, faults>>
  BY DEF BeginCreate
<1>3. PICK p \in Registered, b \in Buckets :
        /\ generated' = generated \cup {b}
        /\ call' = [call EXCEPT ![s] = [Idle EXCEPT
                      !.pc = "addBucket", !.kind = "create", !.provider = p,
                      !.bucket = b, !.policy = provider[p].policy]]
  BY DEF BeginCreate
<1> DEFINE P == provider[p].policy
           new == [Idle EXCEPT !.pc = "addBucket", !.kind = "create", !.provider = p,
                               !.bucket = b, !.policy = P]
<1>4. P \in issued \cup {NoPolicy} /\ p \in Providers /\ Leads(P)
  BY <1>1 DEF TypeOK, Registered, RecordsLead
<1>5. P' = P /\ Registered' = Registered /\ CallType' = CallType
  BY <1>2 DEF Registered, CallType
<1>6. \A Q : Leads(Q)' <=> Leads(Q)
  BY <1>2 DEF Leads
<1>7. call' = [call EXCEPT ![s] = new]
  BY <1>3
<1> HIDE DEF P
<1>8. /\ new \in CallType
      /\ new.pc = "addBucket" /\ new.provider = p /\ new.policy = P /\ new.bucket = b
  <2>1. Idle \in CallType
    BY DEF Idle, CallType, Labels
  <2>2. QED
    BY <1>4, <2>1 DEF CallType, Labels
<1> HIDE DEF new
<1>9. call'[s] = new
  BY <1>1, <1>7
<1>10. CallLeads(s)'
  BY <1>2, <1>4, <1>5, <1>8, <1>9 DEF CallLeads, At, Leads
<1>11. TypeOK'
  <2>1. \A t \in Procs : call'[t].pc \in Labels
    BY <1>1, <1>7, <1>8, <1>9 DEF TypeOK, CallType
  <2>2. QED
    BY <1>1, <1>2, <1>3, <1>5, <2>1 DEF TypeOK
<1>12. RecordsLead' /\ RegionsResolve'
  BY <1>1, <1>2, <1>5, <1>6 DEF RecordsLead, RegionsResolve
<1>13. QED
  BY <1>1, <1>2, <1>5, <1>6, <1>7, <1>8, <1>9, <1>10, <1>11, <1>12 DEF Keeps, Grows

LEMMA BucketKeeps ==
    ASSUME IInv, NEW s \in Procs, AddBucket(s) \/ RouteSpace(s) \/ Rollback(s)
    PROVE  Keeps(s)
<1>1. /\ call \in [Procs -> CallType] /\ CallLeads(s) /\ TypeOK /\ RecordsLead
      /\ RegionsResolve
  BY DEF IInv
<1>2. UNCHANGED <<provider, superseded, issued, roots, candidates, generated>>
  BY DEF AddBucket, RouteSpace, Rollback
<1>3. Registered' = Registered /\ CallType' = CallType /\ \A Q : Leads(Q)' <=> Leads(Q)
  BY <1>2 DEF Registered, CallType, Leads
<1>4. faults' \in 0..MaxFaults
  BY <1>1, FaultsBounded DEF AddBucket, RouteSpace, Rollback, Attempt
<1>5. served' \in [Buckets -> Registered \cup {NoPolicy}]
  <2>1. CASE UNCHANGED served
    BY <1>1, <2>1 DEF TypeOK
  <2>2. CASE AddBucket(s) /\ served' = [served EXCEPT ![call[s].bucket] = call[s].provider]
    BY <1>1, <2>2 DEF TypeOK, AddBucket, CallLeads
  <2>3. CASE served' = [served EXCEPT ![call[s].bucket] = NoPolicy]
    BY <1>1, <2>3 DEF TypeOK
  <2>4. QED
    BY <2>1, <2>2, <2>3 DEF AddBucket, RouteSpace, Rollback, Attempt
<1>6. /\ route' \in [Buckets -> issued \cup {NoPolicy}]
      /\ \A b \in Buckets : Leads(route'[b])
  <2>1. CASE UNCHANGED route
    BY <1>1, <2>1 DEF TypeOK, RecordsLead
  <2>2. CASE At(s, "use") /\ route' = [route EXCEPT ![call[s].bucket] = call[s].policy]
    <3>1. Leads(call[s].policy) /\ call[s].policy \in issued \cup {NoPolicy}
      BY <1>1, <2>2 DEF CallLeads, CallType
    <3>2. QED
      BY <1>1, <2>2, <3>1 DEF TypeOK, RecordsLead
  <2>3. QED
    BY <2>1, <2>2 DEF AddBucket, RouteSpace, Rollback, Attempt, UseRoutingPolicy
<1>7. RecordsLead' /\ RegionsResolve'
  BY <1>1, <1>2, <1>3, <1>6 DEF RecordsLead, RegionsResolve
<1>8. \/ Finish(s)
      \/ At(s, "addBucket") /\ Goto(s, "use")
      \/ At(s, "use") /\ Goto(s, "rollback")
  BY DEF AddBucket, RouteSpace, Rollback, Attempt
<1>9. /\ call' = [call EXCEPT ![s] = call'[s]]
      /\ call'[s] \in CallType' /\ CallLeads(s)'
  <2>1. CASE Finish(s)
    BY <2>1, Moves, IdleIsSafe
  <2>2. ASSUME NEW l \in {"use", "rollback"}, Goto(s, l),
               At(s, "addBucket") \/ (At(s, "use") /\ l = "rollback")
        PROVE  /\ call' = [call EXCEPT ![s] = call'[s]]
               /\ call'[s] \in CallType' /\ CallLeads(s)'
    <3>1. /\ call' = [call EXCEPT ![s] = call'[s]] /\ call'[s] = [call[s] EXCEPT !.pc = l]
          /\ call[s] \in CallType /\ l \in Labels
      BY <1>1, <2>2, Moves DEF Labels
    <3>2. [call[s] EXCEPT !.pc = l] \in CallType
      BY <3>1 DEF CallType
    <3>3. call'[s].pc = l /\ call'[s].policy = call[s].policy /\ call'[s].bucket = call[s].bucket
      BY <3>1 DEF CallType
    <3>4. call[s].bucket \in Buckets /\ Leads(call[s].policy)
      BY <1>1, <2>2 DEF CallLeads
    <3>5. CallLeads(s)'
      BY <1>2, <2>2, <3>3, <3>4 DEF CallLeads, At, Leads
    <3>6. QED
      BY <1>3, <3>1, <3>2, <3>5
  <2>3. QED
    BY <1>8, <2>1, <2>2
<1>10. TypeOK'
  <2>1. \A t \in Procs : call'[t].pc \in Labels
    BY <1>1, <1>9 DEF TypeOK, CallType
  <2>2. QED
    BY <1>1, <1>2, <1>3, <1>4, <1>5, <1>6, <2>1 DEF TypeOK
<1>11. QED
  BY <1>2, <1>3, <1>7, <1>9, <1>10 DEF Keeps, Grows

-----------------------------------------------------------------------------
(***************************************************************************)
(* The spaces and their providers' records.                                *)
(***************************************************************************)
HasBucket(s) == call[s].pc \in {"addBucket", "use", "rollback"}

\* P is, or was, what the record of p says.
Recorded(p, P) == P \in superseded \cup {NoPolicy, provider[p].policy}

\* What a creation carries, and what has been written of its bucket.
Follows(s) ==
    /\ HasBucket(s) => call[s].bucket \in generated
    /\ At(s, "addBucket") \/ At(s, "use") =>
          call[s].provider \in Registered /\ Recorded(call[s].provider, call[s].policy)
    /\ At(s, "addBucket") => route[call[s].bucket] = NoPolicy
    /\ At(s, "use") => served[call[s].bucket] = call[s].provider

FInv ==
    /\ SpacesFollowTheirProvider
    /\ \A b \in Buckets \ generated : served[b] = NoPolicy /\ route[b] = NoPolicy
    /\ \A s \in Procs : Follows(s)
    /\ \A s, t \in Procs : s # t /\ HasBucket(s) /\ HasBucket(t)
                               => call[s].bucket # call[t].bucket

\* A record that is replaced is remembered, and a new one is for a provider without.
LEMMA RecordsRemembered ==
    ASSUME IInv, NEW s \in Procs, Step(s), NEW p \in Registered, NEW P, Recorded(p, P)
    PROVE  Recorded(p, P)'
<1>1. CASE UNCHANGED <<provider, superseded>>
  BY <1>1 DEF Recorded
<1>2. CASE AddRecord(s)
  BY <1>2 DEF AddRecord, Attempt, Recorded, IInv, TypeOK, Registered
<1>3. CASE SetPolicy(s)
  <2> DEFINE q == call[s].provider
  <2>1. \/ UNCHANGED <<provider, superseded>>
        \/ /\ provider' = [provider EXCEPT ![q].policy = call[s].policy]
           /\ superseded' = superseded \cup ({provider[q].policy} \ {NoPolicy})
    BY <1>3 DEF SetPolicy, Attempt
  <2>2. p \in Providers /\ provider \in [Providers -> [region : Regions \cup {NoRegion},
                                                   policy : issued \cup {NoPolicy}]]
    BY DEF IInv, TypeOK, Registered
  <2>3. CASE /\ provider' = [provider EXCEPT ![q].policy = call[s].policy]
             /\ superseded' = superseded \cup ({provider[q].policy} \ {NoPolicy})
    <3>1. CASE p = q
      BY <2>3, <3>1 DEF Recorded
    <3>2. CASE p # q
      BY <2>2, <2>3, <3>2 DEF Recorded
    <3>3. QED
      BY <3>1, <3>2
  <2>4. QED
    BY <1>1, <2>1, <2>3
<1>4. QED
  BY <1>1, <1>2, <1>3
     DEF Step, BeginAdd, CheckRegion, issuePolicy, setPolicyNodes, BeginSet, BeginCreate,
         AddBucket, RouteSpace, Rollback, tables

\* The administrators' requests have no bucket and touch none.
LEMMA AdminsFollow ==
    ASSUME IInv, FInv, NEW s \in Procs, Keeps(s), Step(s),
           UNCHANGED <<served, route, generated>>, ~HasBucket(s)'
    PROVE  FInv'
<1>1. \A t \in Procs : HasBucket(t)' => t # s /\ call'[t] = call[t] /\ HasBucket(t)
  BY DEF Keeps, IInv, HasBucket
<1>2. \A p \in Registered : p \in Registered' /\ \A P : Recorded(p, P) => Recorded(p, P)'
  BY RecordsRemembered DEF Keeps, Grows
<1>3. SpacesFollowTheirProvider'
  <2>1. SUFFICES ASSUME NEW b \in Buckets, served[b] # NoPolicy, route[b] # NoPolicy
                 PROVE  Recorded(served[b], route[b])'
    BY DEF SpacesFollowTheirProvider, Recorded
  <2>2. served[b] \in Registered
    BY <2>1 DEF IInv, TypeOK
  <2>3. Recorded(served[b], route[b])
    BY <2>1 DEF FInv, SpacesFollowTheirProvider, Recorded
  <2>4. Recorded(served[b], route[b])'
    <3> DEFINE q == served[b]
               P == route[b]
    <3>1. q' = q /\ P' = P /\ q \in Registered /\ Recorded(q, P)
      BY <2>2, <2>3
    <3>2. Recorded(q, P)' <=> P \in superseded' \cup {NoPolicy, provider'[q].policy}
      BY <3>1 DEF Recorded
    <3> HIDE DEF q, P
    <3>3. P \in superseded' \cup {NoPolicy, provider'[q].policy}
      BY <1>2, <3>1 DEF Recorded
    <3>4. QED
      BY <3>2, <3>3 DEF q, P
  <2>5. QED
    BY <2>4
<1>4. \A t \in Procs : Follows(t)'
  <2>1. SUFFICES ASSUME NEW t \in Procs, HasBucket(t)' PROVE Follows(t)'
    BY DEF Follows, HasBucket, At
  <2>2. call'[t] = call[t] /\ Follows(t)
    BY <1>1, <2>1 DEF FInv
  <2>3. At(t, "addBucket") \/ At(t, "use") =>
          /\ call'[t].provider \in Registered'
          /\ call'[t].policy \in superseded' \cup {NoPolicy, provider'[call'[t].provider].policy}
    BY <1>2, <2>2 DEF Follows, Recorded
  <2>4. QED
    BY <2>2, <2>3 DEF Follows, HasBucket, At, Recorded
<1>5. \A t, u \in Procs : t # u /\ HasBucket(t)' /\ HasBucket(u)'
                             => call'[t].bucket # call'[u].bucket
  BY <1>1 DEF FInv
<1>6. \A b \in Buckets \ generated' : served'[b] = NoPolicy /\ route'[b] = NoPolicy
  BY DEF FInv
<1>7. QED
  BY <1>3, <1>4, <1>5, <1>6 DEF FInv, HasBucket

\* A creation has a bucket of its own, with nothing written of it.
LEMMA CreatesFollow ==
    ASSUME IInv, FInv, NEW s \in Procs, Keeps(s), BeginCreate(s)
    PROVE  FInv'
<1>1. PICK p \in Registered, b \in Buckets :
        /\ b \notin generated /\ generated' = generated \cup {b}
        /\ call' = [call EXCEPT ![s] = [Idle EXCEPT
                      !.pc = "addBucket", !.kind = "create", !.provider = p,
                      !.bucket = b, !.policy = provider[p].policy]]
  BY DEF BeginCreate
<1>2. UNCHANGED <<provider, superseded, served, route>> /\ Registered' = Registered
  BY DEF BeginCreate, Registered
<1>3. /\ call'[s].pc = "addBucket" /\ call'[s].provider = p /\ call'[s].bucket = b
      /\ call'[s].policy = provider[p].policy
  BY <1>1 DEF IInv, Idle
<1>4. \A t \in Procs : t # s => call'[t] = call[t]
  BY <1>1 DEF IInv
<1>5. route[b] = NoPolicy
  BY <1>1 DEF FInv
<1>6. Follows(s)'
  BY <1>1, <1>2, <1>3, <1>5 DEF Follows, HasBucket, At, Recorded
<1>7. \A t \in Procs : t # s => Follows(t)'
  BY <1>1, <1>2, <1>4 DEF FInv, Follows, HasBucket, At, Recorded
<1>8. \A t, u \in Procs : t # u /\ HasBucket(t)' /\ HasBucket(u)'
                             => call'[t].bucket # call'[u].bucket
  <2>1. \A t \in Procs : t # s /\ HasBucket(t)' => call'[t].bucket \in generated
    BY <1>4 DEF FInv, Follows, HasBucket
  <2>2. QED
    BY <1>1, <1>3, <1>4, <2>1 DEF FInv, HasBucket
<1>9. SpacesFollowTheirProvider'
  BY <1>2 DEF FInv, SpacesFollowTheirProvider
<1>10. \A c \in Buckets \ generated' : served'[c] = NoPolicy /\ route'[c] = NoPolicy
  BY <1>1, <1>2 DEF FInv
<1>11. QED
  BY <1>6, <1>7, <1>8, <1>9, <1>10 DEF FInv

\* Its row and its space are written by nobody else.
LEMMA BucketsFollow ==
    ASSUME IInv, FInv, NEW s \in Procs, Keeps(s), AddBucket(s) \/ RouteSpace(s) \/ Rollback(s)
    PROVE  FInv'
<1> DEFINE b == call[s].bucket
<1>1. UNCHANGED <<provider, superseded, generated>> /\ Registered' = Registered
  BY DEF AddBucket, RouteSpace, Rollback, Registered
<1>2. \A t \in Procs : t # s => call'[t] = call[t]
  BY DEF Keeps, IInv
<1>3. HasBucket(s) /\ b \in Buckets /\ b \in generated /\ Follows(s)
  BY DEF IInv, FInv, CallLeads, Follows, HasBucket, At, AddBucket, RouteSpace, Rollback
<1>4. \A t \in Procs : t # s /\ HasBucket(t) => call[t].bucket # b
  BY <1>3 DEF FInv
<1>5. \A c \in Buckets : c # b => served'[c] = served[c] /\ route'[c] = route[c]
  BY <1>3 DEF IInv, TypeOK, AddBucket, RouteSpace, Rollback, Attempt, UseRoutingPolicy
<1>6. \/ call'[s] = Idle
      \/ /\ At(s, "addBucket") /\ call'[s] = [call[s] EXCEPT !.pc = "use"]
         /\ served'[b] = call[s].provider
      \/ At(s, "use") /\ call'[s] = [call[s] EXCEPT !.pc = "rollback"]
  BY <1>3, Moves
     DEF IInv, TypeOK, Labels, AddBucket, RouteSpace, Rollback, Attempt
<1>7. Follows(s)'
  <2>0. call[s] \in CallType
    BY DEF IInv
  <2>1. CASE call'[s] = Idle
    BY <2>1 DEF Follows, HasBucket, At, Idle
  <2>2. CASE /\ At(s, "addBucket") /\ call'[s] = [call[s] EXCEPT !.pc = "use"]
             /\ served'[b] = call[s].provider
    <3>1. /\ call'[s].pc = "use" /\ call'[s].bucket = b
          /\ call'[s].provider = call[s].provider /\ call'[s].policy = call[s].policy
      BY <2>0, <2>2 DEF CallType
    <3>2. QED
      BY <1>1, <1>3, <2>2, <3>1 DEF Follows, HasBucket, At, Recorded
  <2>3. CASE call'[s] = [call[s] EXCEPT !.pc = "rollback"]
    <3>1. call'[s].pc = "rollback" /\ call'[s].bucket = b
      BY <2>0, <2>3 DEF CallType
    <3>2. QED
      BY <1>1, <1>3, <3>1 DEF Follows, HasBucket, At
  <2>4. QED
    BY <1>6, <2>1, <2>2, <2>3
<1>8. \A t \in Procs : t # s => Follows(t)'
  <2>1. SUFFICES ASSUME NEW t \in Procs, t # s PROVE Follows(t)'
    OBVIOUS
  <2>2. call'[t] = call[t] /\ Follows(t) /\ CallLeads(t)
    BY <1>2, <2>1 DEF FInv, IInv
  <2>3. HasBucket(t) => call[t].bucket # b /\ call[t].bucket \in Buckets
    BY <1>4, <2>1, <2>2 DEF HasBucket, CallLeads, At
  <2>4. QED
    BY <1>1, <1>5, <2>2, <2>3 DEF Follows, HasBucket, At, Recorded
<1>9. \A t, u \in Procs : t # u /\ HasBucket(t)' /\ HasBucket(u)'
                             => call'[t].bucket # call'[u].bucket
  <2>1. HasBucket(s)' => call'[s].bucket = b
    <3>1. call[s] \in CallType
      BY DEF IInv
    <3>2. QED
      BY <1>6, <3>1 DEF HasBucket, Idle, CallType
  <2>2. QED
    BY <1>2, <1>4, <2>1 DEF FInv, HasBucket
<1>10. SpacesFollowTheirProvider'
  <2>1. SUFFICES ASSUME NEW c \in Buckets, served'[c] # NoPolicy, route'[c] # NoPolicy
                 PROVE  route'[c] \in superseded \cup {provider[served'[c]].policy}
    BY <1>1 DEF SpacesFollowTheirProvider
  <2>2. CASE c # b
    BY <1>5, <2>1, <2>2 DEF FInv, SpacesFollowTheirProvider
  <2>3. CASE c = b
    <3>1. CASE AddBucket(s)
      BY <1>3, <2>1, <2>3, <3>1 DEF AddBucket, Follows
    <3>2. CASE RouteSpace(s)
      <4>1. /\ served'[b] = call[s].provider
            /\ Recorded(call[s].provider, call[s].policy)
            /\ route'[b] = call[s].policy \/ route'[b] = route[b]
        BY <1>3, <3>2 DEF RouteSpace, Follows, Attempt, UseRoutingPolicy, IInv, TypeOK
      <4>2. route'[b] = route[b] => route[b] \in superseded \cup {provider[served[b]].policy}
        BY <1>3, <2>1, <2>3, <3>2 DEF RouteSpace, FInv, SpacesFollowTheirProvider
      <4>3. served'[b] = served[b]
        BY <3>2 DEF RouteSpace
      <4>4. QED
        BY <2>1, <2>3, <4>1, <4>2, <4>3 DEF Recorded
    <3>3. CASE Rollback(s)
      <4>1. served'[b] = NoPolicy \/ (served'[b] = served[b] /\ route'[b] = route[b])
        BY <1>3, <3>3 DEF Rollback, Attempt, IInv, TypeOK
      <4>2. QED
        BY <1>3, <2>1, <2>3, <4>1, <3>3 DEF Rollback, FInv, SpacesFollowTheirProvider
    <3>4. QED
      BY <3>1, <3>2, <3>3
  <2>4. QED
    BY <2>2, <2>3
<1>11. \A c \in Buckets \ generated' : served'[c] = NoPolicy /\ route'[c] = NoPolicy
  BY <1>1, <1>3, <1>5 DEF FInv
<1>12. QED
  BY <1>7, <1>8, <1>9, <1>10, <1>11 DEF FInv

-----------------------------------------------------------------------------
LEMMA StepKeeps == ASSUME IInv, NEW s \in Procs, Step(s) PROVE Keeps(s)
BY BeginsKeep, IssueKeeps, PutKeeps, RecordKeeps, CreateKeeps, BucketKeeps DEF Step

LEMMA NextIInv == IInv /\ [Next]_vars => IInv'
<1> SUFFICES ASSUME IInv, [Next]_vars PROVE IInv'
  OBVIOUS
<1>1. CASE UNCHANGED vars
  BY <1>1 DEF IInv, TypeOK, vars, CallType, CallLeads, At, RecordsLead, Leads, Registered,
              RegionsResolve
<1>2. ASSUME NEW s \in Procs, Step(s) PROVE IInv'
  BY <1>2, StepKeeps, KeepsIInv
<1>3. QED
  BY <1>1, <1>2 DEF Next

LEMMA AlwaysIInv == Spec => []IInv
BY InitIInv, NextIInv, PTL DEF Spec

LEMMA NextFInv == IInv /\ FInv /\ [Next]_vars => FInv'
<1> SUFFICES ASSUME IInv, FInv, [Next]_vars PROVE FInv'
  OBVIOUS
<1>1. CASE UNCHANGED vars
  BY <1>1 DEF FInv, vars, SpacesFollowTheirProvider, Follows, HasBucket, At, Recorded, Registered
<1>2. ASSUME NEW s \in Procs, Step(s) PROVE FInv'
  <2>1. Keeps(s)
    BY <1>2, StepKeeps
  <2>2. CASE BeginCreate(s)
    BY <2>1, <2>2, CreatesFollow
  <2>3. CASE AddBucket(s) \/ RouteSpace(s) \/ Rollback(s)
    BY <2>1, <2>3, BucketsFollow
  <2>4. CASE ~BeginCreate(s) /\ ~AddBucket(s) /\ ~RouteSpace(s) /\ ~Rollback(s)
    <3>1. UNCHANGED <<served, route, generated>>
      BY <1>2, <2>4 DEF Step, BeginAdd, CheckRegion, issuePolicy, setPolicyNodes, AddRecord,
                        BeginSet, SetPolicy, tables
    <3>2. ~HasBucket(s)'
      <4>1. call \in [Procs -> CallType]
        BY DEF IInv
      <4>2. Finish(s) => ~HasBucket(s)'
        BY <4>1 DEF Finish, Idle, HasBucket
      <4>3. \A l \in {"issue", "add", "setPolicy"} : Goto(s, l) => ~HasBucket(s)'
        BY <4>1 DEF Goto, CallType, HasBucket
      <4>4. CASE BeginAdd(s) \/ BeginSet(s)
        BY <4>1, <4>2, <4>4 DEF BeginAdd, BeginSet, Idle, HasBucket
      <4>5. CASE CheckRegion(s)
        BY <4>2, <4>3, <4>5 DEF CheckRegion
      <4>6. CASE issuePolicy(s)
        BY <4>1, <4>2, <4>6 DEF issuePolicy, Attempt, CallType, HasBucket
      <4>7. CASE setPolicyNodes(s)
        BY <4>2, <4>3, <4>7 DEF setPolicyNodes, Attempt, afterPut
      <4>8. CASE AddRecord(s) \/ SetPolicy(s)
        BY <4>2, <4>8 DEF AddRecord, SetPolicy, Attempt
      <4>9. QED
        BY <1>2, <2>4, <4>4, <4>5, <4>6, <4>7, <4>8 DEF Step
    <3>3. QED
      BY <1>2, <2>1, <3>1, <3>2, AdminsFollow
  <2>5. QED
    BY <2>2, <2>3, <2>4
<1>3. QED
  BY <1>1, <1>2 DEF Next

LEMMA AlwaysFInv == Spec => []FInv
<1>1. Init => FInv
  BY DEF Init, FInv, SpacesFollowTheirProvider, Follows, HasBucket, At, Idle
<1>2. QED
  BY <1>1, NextFInv, AlwaysIInv, PTL DEF Spec

\* Records, policies and spaces refer only to what exists, in every instance.
THEOREM RoutingTypes == Spec => []TypeOK
<1>1. IInv => TypeOK
  BY DEF IInv
<1>2. QED
  BY AlwaysIInv, <1>1, PTL

\* However many registrations find a region free at once, one provider gets it.
THEOREM RegionsAlwaysResolve == Spec => []RegionsResolve
<1>1. IInv => RegionsResolve
  BY DEF IInv
<1>2. QED
  BY AlwaysIInv, <1>1, PTL

\* Whatever fails or races, no provider record and no space refers to a policy
\* without candidates or without its root.
THEOREM PoliciesInUseAlwaysLead == Spec => []PoliciesInUseLead
<1>1. IInv => PoliciesInUseLead
  BY DEF IInv, RecordsLead, Leads, PoliciesInUseLead
<1>2. QED
  BY AlwaysIInv, <1>1, PTL

\* However many requests give a provider its first policy and buckets at once, a
\* bucket is where its provider's record puts it, or on a policy that was replaced
\* there.
THEOREM SpacesAlwaysFollow == Spec => []SpacesFollowTheirProvider
<1>1. FInv => SpacesFollowTheirProvider
  BY DEF FInv
<1>2. QED
  BY AlwaysFInv, <1>1, PTL
=============================================================================
