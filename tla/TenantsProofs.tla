--------------------------- MODULE TenantsProofs ---------------------------
(***************************************************************************)
(* Proofs about Tenants.  Inv is inductive: what each handler may rely on  *)
(* at its label (Facts), that a tenant being provisioned and a key or      *)
(* bucket being created is in one handler's hands (Apart), and what the    *)
(* tables say together (Tables).                                           *)
(*                                                                         *)
(* A step of s keeps Facts of the other handlers and Tables because it is  *)
(* Gentle: its writes move forward, or touch what s alone holds.  So each  *)
(* action is shown Gentle, and to leave s itself with what it relies on.   *)
(***************************************************************************)
EXTENDS Tenants, TLAPS

Preparing == {"pvSigning", "pvWrapping", "pvGenesis", "pvCustomer", "pvWrapRow", "pvRow"}
Cleaning == {"cuWrapRow", "cuWrapping", "cuSigning"}
KeysListed == {"dlLast", "dlRevoke", "dlTomb", "dlGrants", "dlSecret", "dlKey"}
WrapRowGone == {"dlBuckets", "dlBucket", "dlRoots", "dlRow", "dlSigning"}
PastTombstone == {"dlGrants", "dlSecret", "dlKey", "dlPrincipals", "dlWrapping", "dlWrapRow"}
                     \cup WrapRowGone
CreatingKey == {"ckAdd", "ckStore", "ckGet", "rbGrants", "rbRow", "rbSecret"}
CreatingBucket == {"cbAdd", "cbRoot", "cbIssuer", "cbSpace", "cbRoute", "cbReturn", "cbRollback"}

Busy(s) == call[s].pc # "idle"
Gone(d) == plc[d] = "deactivated"

\* s alone holds the tenant it works on: it has no row yet.  A cleanup after an
\* insert whose answer was lost may face a row.
Exclusive(s) ==
    call[s].pc \in Preparing \/ ("sql" \notin Faults /\ call[s].pc \in Cleaning)

\* s alone holds the key or bucket it works on.
Creating(s) == call[s].pc \in CreatingKey \cup CreatingBucket

\* What Provision has made by the label it is at.
Prepared(s) ==
    /\ call[s].pc \in Preparing \ {"pvSigning"} => Signing(call[s].did) \in vault
    /\ call[s].pc \in {"pvGenesis", "pvCustomer", "pvWrapRow", "pvRow"}
          => Wrapping(call[s].did) \in vault
    /\ call[s].pc \in {"pvCustomer", "pvWrapRow", "pvRow"} => plc[call[s].did] = "live"
    /\ call[s].pc \in {"pvWrapRow", "pvRow"} => call[s].did \in upload
    /\ call[s].pc = "pvRow" => call[s].did \in wrapRow

Reserved(s) ==
    /\ Busy(s) => call[s].did \in DIDs /\ ext[call[s].did] # None
    /\ Exclusive(s) => row[call[s].did] = "none" /\ ~Gone(call[s].did)

\* What a deletion has found and done by the label it is at.
Deletion(s) ==
    /\ call[s].pc \in {"dlKeys", "dlLast", "dlRevoke", "dlTomb"}
          => row[call[s].did] # "none" \/ Gone(call[s].did)
    /\ call[s].pc \in PastTombstone => Gone(call[s].did)
    /\ call[s].pc \in WrapRowGone => call[s].did \notin wrapRow
    /\ call[s].pc \in KeysListed
          => \A k \in call[s].todo : k \in Keys /\ tenantOf[k] = call[s].did
    /\ call[s].pc \in {"dlLast", "dlRevoke"} => call[s].shown \subseteq answered \cap call[s].todo
    /\ call[s].pc = "dlTomb" => call[s].shown \subseteq revoked \/ Gone(call[s].did)
    /\ call[s].pc \in {"dlSecret", "dlKey"} => call[s].item \in Keys

\* What a creation has made by the label it is at.
Creation(s) ==
    /\ call[s].pc \in CreatingKey => call[s].item \in Keys
    /\ call[s].pc \in CreatingBucket => call[s].item \in Buckets
    /\ Creating(s) => tenantOf[call[s].item] = call[s].did /\ call[s].item \notin answered
    /\ call[s].pc = "ckGet" => call[s].item \in delegated \cup revoked \/ Gone(call[s].did)
    /\ call[s].pc \in {"cbIssuer", "cbSpace", "cbRoute", "cbReturn"}
          => call[s].item \in delegated \/ Gone(call[s].did)
    /\ call[s].pc \in {"cbRoute", "cbReturn"} => call[s].item \in upload

Facts(s) == Prepared(s) /\ Reserved(s) /\ Deletion(s) /\ Creation(s)

Apart ==
    \A s, t \in Procs : s # t =>
        /\ Exclusive(s) /\ Busy(t) => call[s].did # call[t].did
        /\ Creating(s) /\ Creating(t) => call[s].item # call[t].item

\* An answered key was given delegations, which stay until they are revoked or the
\* DID is gone; an answered bucket its root and its space.
Kept(i) ==
    IF i \in Keys THEN i \in delegated \cup revoked \/ Gone(tenantOf[i])
                  ELSE i \in upload /\ (i \in delegated \/ Gone(tenantOf[i]))

Tables ==
    /\ \A d \in DIDs : ext[d] = None => row[d] = "none" /\ plc[d] = "unborn"
    /\ \A i \in rows \cup answered : tenantOf[i] \in DIDs
    /\ \A i \in answered : Kept(i)
    /\ NothingOutlivesTheRow
    /\ "sql" \notin Faults => LiveTenantIsWhole

Inv == TypeOK /\ (\A s \in Procs : Facts(s)) /\ Apart /\ Tables

-----------------------------------------------------------------------------
(***************************************************************************)
(* What a step of s may do to the tables.                                  *)
(***************************************************************************)

\* s may take back what the tenant was given: in a cleanup, or past the tombstone.
Spends(s, d) == d = call[s].did /\ call[s].pc \in Cleaning \cup PastTombstone

GentleRow(s) ==
    \A d \in DIDs :
        \/ row'[d] = row[d]
        \/ row[d] # "none" /\ row'[d] # "none"
        \/ /\ row[d] # "none" /\ Gone(d)
           /\ d \notin wrapRow \cup principals /\ Of(d) = {}
        \/ At(s, "pvRow") /\ d = call[s].did

GentlePlc(s) ==
    \A d \in DIDs :
        \/ plc'[d] = plc[d]
        \/ row[d] # "none" /\ plc'[d] = "deactivated"
        \/ At(s, "pvGenesis") /\ d = call[s].did /\ plc'[d] = "live"

GentleVault(s) ==
    \A d \in DIDs :
        /\ Signing(d) \in vault => Signing(d) \in vault' \/ Spends(s, d)
        /\ Wrapping(d) \in vault => Wrapping(d) \in vault' \/ Spends(s, d)

GentleWrapRow(s) ==
    \A d \in DIDs :
        /\ d \in wrapRow => d \in wrapRow' \/ Spends(s, d)
        /\ d \in wrapRow' => d \in wrapRow \/ (d = call[s].did /\ call[s].pc \in Preparing)

\* What refers to a tenant's row is added while the row is there.
GentleReferences(s) ==
    /\ \A d \in principals' \ principals : row'[d] # "none"
    /\ \A i \in rows' \ rows : tenantOf[i] \in DIDs /\ row'[tenantOf[i]] # "none"

GentleGrants(s) ==
    \A i \in delegated \ delegated' :
        i \in revoked' \/ Gone(tenantOf[i]) \/ (Creating(s) /\ i = call[s].item)

GentleAnswers(s) ==
    /\ answered \subseteq answered'
    /\ \A i \in answered' \ answered : Creating(s) /\ i = call[s].item /\ Kept(i)'

GentleIds ==
    /\ \A d \in DIDs : ext[d] # None => ext'[d] # None
    /\ \A i \in Items : tenantOf[i] # None => tenantOf'[i] = tenantOf[i]
    /\ upload \subseteq upload' /\ revoked \subseteq revoked'

Gentle(s) ==
    /\ GentleRow(s) /\ GentlePlc(s) /\ GentleVault(s) /\ GentleWrapRow(s)
    /\ GentleReferences(s) /\ GentleGrants(s) /\ GentleAnswers(s) /\ GentleIds

\* s goes on with the tenant and item it has, or takes up ones nobody holds.
Admits(s) ==
    Busy(s)' =>
        /\ \/ Busy(s) /\ call'[s].did = call[s].did /\ (Exclusive(s)' => Exclusive(s))
           \/ ~Exclusive(s)' /\ row[call'[s].did] # "none"
           \/ ext[call'[s].did] = None
        /\ Creating(s)' =>
              \/ Creating(s) /\ call'[s].item = call[s].item
              \/ call'[s].item \in Items /\ tenantOf[call'[s].item] = None

OthersWait(s) == \A t \in Procs \ {s} : call'[t] = call[t]

Sound(s) == TypeOK' /\ OthersWait(s) /\ Gentle(s) /\ Facts(s)' /\ Admits(s)

-----------------------------------------------------------------------------
\* The DID of a tenant stays gone.
LEMMA GoneStays ==
    ASSUME Inv, NEW s \in Procs, Gentle(s), NEW d \in DIDs, Gone(d)
    PROVE  Gone(d)'
BY DEF Inv, Facts, Reserved, Exclusive, Preparing, Gentle, GentlePlc, Gone, At

LEMMA OthersKeep ==
    ASSUME Inv, NEW s \in Procs, Sound(s), NEW t \in Procs, t # s
    PROVE  Facts(t)'
<1>. DEFINE d == call[t].did
<1>. USE DEF Sound, OthersWait
<1>0. call'[t] = call[t] /\ Facts(t) /\ Facts(s) /\ Gentle(s)
  BY DEF Inv
<1>1. Busy(t) => d \in DIDs /\ ext'[d] # None
  BY <1>0 DEF Facts, Reserved, Gentle, GentleIds
<1>2. Exclusive(t) => d # call[s].did \/ ~Busy(s)
  BY DEF Inv, Apart
<1>3. Exclusive(t) => row'[d] = "none" /\ ~Gone(d)'
  BY <1>0, <1>1, <1>2
     DEF Facts, Reserved, Exclusive, Busy, Preparing, Cleaning, Gentle, GentleRow, GentlePlc,
         Gone, At
<1>4. Reserved(t)'
  BY <1>0, <1>1, <1>3 DEF Reserved, Exclusive, Busy, Gone
<1>5. Prepared(t)'
  <2>1. call[t].pc \in Preparing => ~Spends(s, d) /\ plc'[d] = plc[d] /\ d \in DIDs
    BY <1>0, <1>1, <1>2
       DEF Facts, Reserved, Exclusive, Busy, Spends, Preparing, Cleaning, PastTombstone,
           WrapRowGone, Gentle, GentlePlc, At
  <2>. QED BY <1>0, <2>1
       DEF Facts, Prepared, Preparing, Gentle, GentleVault, GentleWrapRow, GentleIds, Signing,
           Wrapping
<1>6. Deletion(t)'
  <2>1. Busy(t) /\ Gone(d) => Gone(d)'
    BY <1>0, <1>1, GoneStays
  <2>2. call[t].pc \in {"dlKeys", "dlLast", "dlRevoke", "dlTomb"}
           => row'[d] # "none" \/ Gone(d)'
    BY <1>0, <1>1, <2>1, GoneStays DEF Facts, Deletion, Busy, Gentle, GentleRow, At, Reserved, Exclusive, Preparing
  <2>3. call[t].pc \in WrapRowGone => d \notin wrapRow'
    <3>1. call[t].pc \in WrapRowGone => Busy(t) /\ d \notin wrapRow
      BY <1>0 DEF Facts, Deletion, Busy, WrapRowGone
    <3>2. call[s].pc \in Preparing /\ Busy(t) => d # call[s].did
      BY DEF Inv, Apart, Exclusive
    <3>. QED BY <1>0, <1>1, <3>1, <3>2 DEF Gentle, GentleWrapRow
  <2>4. call[t].pc \in KeysListed => \A k \in call[t].todo : k \in Keys /\ tenantOf'[k] = d
    <3>. SUFFICES ASSUME call[t].pc \in KeysListed, NEW k \in call[t].todo
                  PROVE  k \in Keys /\ tenantOf'[k] = d
      OBVIOUS
    <3>. k \in Keys /\ tenantOf[k] = d /\ d \in DIDs
      BY <1>0, <1>1 DEF Facts, Deletion, Busy, KeysListed
    <3>. QED BY <1>0, IdsDiffer DEF Gentle, GentleIds, Items
  <2>5. call[t].pc \in PastTombstone => Gone(d)'
    BY <1>0, <2>1 DEF Facts, Deletion, Busy, PastTombstone, WrapRowGone
  <2>6. call[t].pc = "dlTomb" => call[t].shown \subseteq revoked' \/ Gone(d)'
    BY <1>0, <2>1 DEF Facts, Deletion, Busy, Gentle, GentleIds
  <2>7. call[t].pc \in {"dlLast", "dlRevoke"}
           => call[t].shown \subseteq answered' \cap call[t].todo
    BY <1>0 DEF Facts, Deletion, Gentle, GentleAnswers
  <2>. QED BY <1>0, <2>2, <2>3, <2>4, <2>5, <2>6, <2>7 DEF Facts, Deletion, Gone
<1>7. Creation(t)'
  <2>. DEFINE i == call[t].item
  <2>1. Creating(t) => Busy(t)
    BY DEF Creating, CreatingKey, CreatingBucket, Busy
  <2>2. Creating(t) => i \in Items /\ tenantOf[i] = d /\ d \in DIDs /\ i \notin answered
    BY <1>0, <1>1, <2>1 DEF Facts, Creation, Creating, Items
  <2>3. Creating(t) => tenantOf'[i] = d
    BY <1>0, <2>2, IdsDiffer DEF Gentle, GentleIds
  <2>4. Creating(t) /\ Creating(s) => i # call[s].item
    BY DEF Inv, Apart
  <2>5. Creating(t) => i \notin answered'
    BY <1>0, <2>2, <2>4 DEF Gentle, GentleAnswers
  <2>6. Creating(t) /\ Gone(d) => Gone(d)'
    BY <1>0, <2>2, GoneStays
  <2>7. Creating(t) /\ i \in delegated => i \in delegated' \cup revoked' \/ Gone(d)'
    BY <1>0, <2>2, <2>4, <2>6 DEF Gentle, GentleGrants
  <2>8. call[t].pc = "ckGet" => i \in delegated' \cup revoked' \/ Gone(d)'
    BY <1>0, <2>6, <2>7 DEF Facts, Creation, Creating, CreatingKey, Gentle, GentleIds
  <2>9. call[t].pc \in {"cbIssuer", "cbSpace", "cbRoute", "cbReturn"}
           => i \in delegated' \/ Gone(d)'
    <3>1. i \in Buckets => i \notin revoked'
      BY IdsDiffer DEF TypeOK
    <3>. QED BY <1>0, <2>6, <2>7, <3>1 DEF Facts, Creation, Creating, CreatingBucket
  <2>10. call[t].pc \in {"cbRoute", "cbReturn"} => i \in upload'
    BY <1>0 DEF Facts, Creation, Gentle, GentleIds
  <2>. QED BY <1>0, <2>3, <2>5, <2>8, <2>9, <2>10 DEF Facts, Creation, Creating, Gone
<1>. QED BY <1>4, <1>5, <1>6, <1>7 DEF Facts

LEMMA ApartKeeps ==
    ASSUME Inv, NEW s \in Procs, Sound(s)
    PROVE  Apart'
<1>. USE DEF Sound, OthersWait
<1>1. ASSUME NEW t \in Procs, t # s, Exclusive(s)', Busy(t)'
      PROVE  call'[s].did # call'[t].did
  <2>1. call'[t] = call[t] /\ Busy(t) /\ Busy(s)'
    BY <1>1 DEF Busy, Exclusive, Preparing, Cleaning
  <2>2. ext[call[t].did] # None
    BY <2>1 DEF Inv, Facts, Reserved
  <2>. QED BY <1>1, <2>1, <2>2 DEF Inv, Apart, Admits
<1>2. ASSUME NEW t \in Procs, t # s, Exclusive(t)', Busy(s)'
      PROVE  call'[t].did # call'[s].did
  <2>1. call'[t] = call[t] /\ Exclusive(t) /\ Busy(t)
    BY <1>2 DEF Busy, Exclusive, Preparing, Cleaning
  <2>2. ext[call[t].did] # None /\ row[call[t].did] = "none"
    BY <2>1 DEF Inv, Facts, Reserved
  <2>. QED BY <1>2, <2>1, <2>2 DEF Inv, Apart, Admits
<1>3. ASSUME NEW t \in Procs, t # s, Creating(s)', Creating(t)'
      PROVE  call'[s].item # call'[t].item
  <2>1. call'[t] = call[t] /\ Creating(t) /\ Busy(t) /\ Busy(s)'
    BY <1>3 DEF Busy, Creating, CreatingKey, CreatingBucket
  <2>2. tenantOf[call[t].item] # None
    BY <2>1, IdsDiffer DEF Inv, Facts, Reserved, Creation
  <2>. QED BY <1>3, <2>1, <2>2 DEF Inv, Apart, Admits
<1>4. ASSUME NEW t \in Procs, NEW u \in Procs, t # u, t # s, u # s
      PROVE  /\ Exclusive(t)' /\ Busy(u)' => call'[t].did # call'[u].did
             /\ Creating(t)' /\ Creating(u)' => call'[t].item # call'[u].item
  BY <1>4 DEF Inv, Apart, Exclusive, Busy, Creating
<1>. QED BY <1>1, <1>2, <1>3, <1>4 DEF Apart

LEMMA TablesKeep ==
    ASSUME Inv, NEW s \in Procs, Sound(s)
    PROVE  Tables'
<1>. USE DEF Sound
<1>0. TypeOK /\ TypeOK' /\ Tables /\ Facts(s) /\ Gentle(s)
  BY DEF Inv
<1>1. \A d \in DIDs : ext'[d] = None => row'[d] = "none" /\ plc'[d] = "unborn"
  BY <1>0 DEF Tables, Gentle, GentleIds, GentleRow, GentlePlc, Facts, Reserved, Busy, At
<1>2. ASSUME NEW i \in rows' \cup answered'
      PROVE  i \in Items /\ tenantOf[i] \in DIDs /\ tenantOf'[i] = tenantOf[i]
  <2>1. i \in Items
    BY <1>0 DEF TypeOK
  <2>2. tenantOf[i] \in DIDs
    <3>1. Creating(s) => tenantOf[call[s].item] \in DIDs
      BY <1>0 DEF Facts, Creation, Reserved, Creating, CreatingKey, CreatingBucket, Busy
    <3>. QED BY <1>0, <3>1 DEF Tables, Gentle, GentleReferences, GentleAnswers
  <2>. QED BY <1>0, <2>1, <2>2, IdsDiffer DEF Gentle, GentleIds
<1>3. ASSUME NEW i \in answered'
      PROVE  Kept(i)'
  <2>1. CASE i \notin answered
    BY <1>0, <2>1 DEF Gentle, GentleAnswers
  <2>2. CASE i \in answered
    <3>1. Kept(i) /\ i \in Items /\ tenantOf[i] \in DIDs /\ tenantOf'[i] = tenantOf[i]
      BY <1>0, <1>2, <2>2 DEF Tables
    <3>2. Gone(tenantOf[i]) => Gone(tenantOf[i])'
      <4>1. ASSUME NEW d \in DIDs PROVE Gone(d) => Gone(d)'
        BY <1>0, GoneStays
      <4>. QED BY <3>1, <4>1 DEF Gone
    <3>3. ~(Creating(s) /\ i = call[s].item)
      BY <1>0, <2>2 DEF Facts, Creation
    <3>4. i \in delegated => i \in delegated' \cup revoked' \/ Gone(tenantOf[i])'
      BY <1>0, <3>2, <3>3 DEF Gentle, GentleGrants
    <3>5. i \notin Keys => i \notin revoked'
      BY <1>0 DEF TypeOK
    <3>6. i \in revoked => i \in revoked'
      BY <1>0 DEF Gentle, GentleIds
    <3>7. i \in upload => i \in upload'
      BY <1>0 DEF Gentle, GentleIds
    <3>. QED BY <3>1, <3>2, <3>4, <3>5, <3>6, <3>7 DEF Kept, Gone
  <2>. QED BY <2>1, <2>2
<1>4. ASSUME NEW d \in DIDs, row'[d] = "none", plc'[d] = "deactivated"
      PROVE  d \notin wrapRow' \cup principals' /\ Of(d)' = {}
  <2>1. d \notin wrapRow \cup principals /\ Of(d) = {}
    BY <1>0, <1>4 DEF Tables, NothingOutlivesTheRow, Gentle, GentleRow, GentlePlc, Facts,
                      Reserved, Exclusive, Preparing, Gone, At
  <2>2. d \notin wrapRow'
    <3>1. d = call[s].did /\ call[s].pc \in Preparing => row[d] = "none" /\ ~Gone(d)
      BY <1>0 DEF Facts, Reserved, Exclusive
    <3>. QED BY <1>0, <1>4, <2>1, <3>1 DEF Gentle, GentleWrapRow, GentlePlc, Gone
  <2>3. d \notin principals'
    BY <1>0, <1>4, <2>1 DEF Gentle, GentleReferences
  <2>4. ASSUME NEW i \in rows', tenantOf'[i] = d PROVE FALSE
    BY <1>0, <1>2, <1>4, <2>1, <2>4 DEF Gentle, GentleReferences, Of
  <2>. QED BY <2>2, <2>3, <2>4 DEF Of
<1>5. ASSUME "sql" \notin Faults, NEW d \in DIDs, row'[d] # "none", plc'[d] # "deactivated"
      PROVE  /\ plc'[d] = "live"
             /\ d \in upload' /\ d \in wrapRow'
             /\ {Signing(d), Wrapping(d)} \subseteq vault'
  <2>1. ~Gone(d)
    BY <1>0, <1>5, GoneStays DEF Gone
  <2>2. CASE At(s, "pvRow") /\ d = call[s].did
    BY <1>0, <1>5, <2>2
       DEF Facts, Prepared, Reserved, Preparing, At, Gentle, GentlePlc, GentleVault,
           GentleWrapRow, GentleIds, Spends, Cleaning, PastTombstone, WrapRowGone, Exclusive
  <2>3. CASE ~(At(s, "pvRow") /\ d = call[s].did)
    <3>1. row[d] # "none"
      BY <1>0, <1>5, <2>3 DEF Gentle, GentleRow
    <3>2. /\ plc[d] = "live"
          /\ d \in upload /\ d \in wrapRow
          /\ {Signing(d), Wrapping(d)} \subseteq vault
      BY <1>0, <1>5, <2>1, <3>1 DEF Tables, LiveTenantIsWhole, Gone
    <3>3. ~Spends(s, d)
      BY <1>0, <1>5, <2>1, <3>1 DEF Spends, Facts, Reserved, Deletion, Exclusive
    <3>. QED BY <1>0, <1>5, <3>1, <3>2, <3>3
             DEF Gentle, GentlePlc, GentleVault, GentleWrapRow, GentleIds
  <2>. QED BY <2>2, <2>3
<1>. QED BY <1>0, <1>1, <1>2, <1>3, <1>4, <1>5
         DEF Tables, NothingOutlivesTheRow, LiveTenantIsWhole

LEMMA SoundKeeps ==
    ASSUME Inv, NEW s \in Procs, Sound(s)
    PROVE  Inv'
<1>1. \A t \in Procs : Facts(t)'
  BY OthersKeep DEF Sound
<1>. QED BY <1>1, ApartKeeps, TablesKeep DEF Inv, Sound

-----------------------------------------------------------------------------
(***************************************************************************)
(* The ways a request moves on.                                            *)
(***************************************************************************)
Calls == [Procs -> CallRecords]

LEMMA IdleTyped == Idle \in CallRecords
BY DEF Idle, CallRecords, Labels, Statuses

LEMMA FaultsBounded ==
    ASSUME TypeOK, UNCHANGED faults \/ (faults < MaxFaults /\ faults' = faults + 1)
    PROVE  faults' \in 0..MaxFaults
BY MaxFaultsTyped DEF TypeOK

LEMMA FinishMoves ==
    ASSUME TypeOK, NEW s \in Procs, Finish(s)
    PROVE  call' \in Calls /\ OthersWait(s) /\ Facts(s)' /\ Admits(s)
<1>1. call' \in Calls /\ OthersWait(s) /\ call'[s] = Idle
  BY IdleTyped DEF TypeOK, Finish, Calls, OthersWait
<1>2. call'[s].pc = "idle"
  BY <1>1 DEF Idle
<1>3. Facts(s)'
  BY <1>2 DEF Facts, Prepared, Reserved, Deletion, Creation, Busy, Exclusive, Creating,
              Preparing, Cleaning, PastTombstone, WrapRowGone, KeysListed, CreatingKey,
              CreatingBucket
<1>. QED BY <1>1, <1>2, <1>3 DEF Admits, Busy

\* Going on at another label with the same tenant and item.
LEMMA GotoMoves ==
    ASSUME TypeOK, NEW s \in Procs, NEW l \in Labels, Goto(s, l), Busy(s),
           l \in Preparing => call[s].pc \in Preparing,
           l \in Cleaning => call[s].pc \in Preparing \cup Cleaning,
           l \in CreatingKey \cup CreatingBucket => Creating(s)
    PROVE  /\ call' \in Calls /\ OthersWait(s) /\ Admits(s)
           /\ call'[s].pc = l /\ call'[s].did = call[s].did /\ call'[s].item = call[s].item
           /\ call'[s].todo = call[s].todo /\ call'[s].shown = call[s].shown
<1>1. /\ call' \in Calls /\ OthersWait(s)
      /\ call'[s].pc = l /\ call'[s].did = call[s].did /\ call'[s].item = call[s].item
      /\ call'[s].todo = call[s].todo /\ call'[s].shown = call[s].shown
  BY DEF TypeOK, Goto, Calls, CallRecords, OthersWait
<1>2. Admits(s)
  BY <1>1 DEF Admits, Busy, Exclusive, Creating
<1>. QED BY <1>1, <1>2

\* Going on with another item, or with less or other things to do.
LEMMA TakeItemMoves ==
    ASSUME TypeOK, NEW s \in Procs, NEW l \in Labels, NEW i \in Items,
           call' = [call EXCEPT ![s].pc = l, ![s].item = i]
    PROVE  /\ call' \in Calls /\ OthersWait(s)
           /\ call'[s].pc = l /\ call'[s].did = call[s].did /\ call'[s].item = i
           /\ call'[s].todo = call[s].todo
BY ZenonT(60) DEF TypeOK, Calls, CallRecords, OthersWait

LEMMA SetTodoMoves ==
    ASSUME TypeOK, NEW s \in Procs, NEW l \in Labels, NEW todo \in SUBSET Items,
           \/ call' = [call EXCEPT ![s].pc = l, ![s].todo = todo]
           \/ call' = [call EXCEPT ![s].todo = todo, ![s].pc = l]
    PROVE  /\ call' \in Calls /\ OthersWait(s)
           /\ call'[s].pc = l /\ call'[s].did = call[s].did /\ call'[s].todo = todo
BY DEF TypeOK, Calls, CallRecords, OthersWait

LEMMA StartMoves ==
    ASSUME TypeOK, NEW s \in Procs, NEW c \in CallRecords, Start(s, c)
    PROVE  call' \in Calls /\ OthersWait(s) /\ call'[s] = c
BY DEF TypeOK, Start, Calls, OthersWait

\* A step that leaves the tables alone is gentle.
LEMMA TablesAlone ==
    ASSUME TypeOK, NEW s \in Procs, UNCHANGED tables, call' \in Calls, faults' \in 0..MaxFaults
    PROVE  TypeOK' /\ Gentle(s)
BY DEF TypeOK, tables, Calls, Gentle, GentleRow, GentlePlc, GentleVault, GentleWrapRow,
       GentleReferences, GentleGrants, GentleAnswers, GentleIds

\* A step that writes one table, gently.
LEMMA WritesVault ==
    ASSUME TypeOK, NEW s \in Procs, call' \in Calls, faults' \in 0..MaxFaults,
           vault' \subseteq Secrets, GentleVault(s),
           UNCHANGED <<row, ext, plc, wrapRow, upload, principals, rows, tenantOf, delegated,
                       revoked, answered>>
    PROVE  TypeOK' /\ Gentle(s)
BY DEF TypeOK, Calls, Gentle, GentleRow, GentlePlc, GentleWrapRow,
       GentleReferences, GentleGrants, GentleAnswers, GentleIds

LEMMA WritesPlc ==
    ASSUME TypeOK, NEW s \in Procs, call' \in Calls, faults' \in 0..MaxFaults,
           plc' \in [DIDs -> {"unborn", "live", "deactivated"}], GentlePlc(s),
           UNCHANGED <<row, ext, vault, wrapRow, upload, principals, rows, tenantOf, delegated,
                       revoked, answered>>
    PROVE  TypeOK' /\ Gentle(s)
BY DEF TypeOK, Calls, Gentle, GentleRow, GentleVault, GentleWrapRow,
       GentleReferences, GentleGrants, GentleAnswers, GentleIds

LEMMA WritesUpload ==
    ASSUME TypeOK, NEW s \in Procs, call' \in Calls, faults' \in 0..MaxFaults,
           upload \subseteq upload', upload' \subseteq DIDs \cup Buckets,
           UNCHANGED <<row, ext, plc, vault, wrapRow, principals, rows, tenantOf, delegated,
                       revoked, answered>>
    PROVE  TypeOK' /\ Gentle(s)
BY DEF TypeOK, Calls, Gentle, GentleRow, GentlePlc, GentleVault, GentleWrapRow,
       GentleReferences, GentleGrants, GentleAnswers, GentleIds

LEMMA WritesWrapRow ==
    ASSUME TypeOK, NEW s \in Procs, call' \in Calls, faults' \in 0..MaxFaults,
           wrapRow' \subseteq DIDs, GentleWrapRow(s),
           UNCHANGED <<row, ext, plc, vault, upload, principals, rows, tenantOf, delegated,
                       revoked, answered>>
    PROVE  TypeOK' /\ Gentle(s)
BY DEF TypeOK, Calls, Gentle, GentleRow, GentlePlc, GentleVault,
       GentleReferences, GentleGrants, GentleAnswers, GentleIds

LEMMA WritesRow ==
    ASSUME TypeOK, NEW s \in Procs, call' \in Calls, faults' \in 0..MaxFaults,
           row' \in [DIDs -> Statuses \cup {"none"}], GentleRow(s),
           UNCHANGED <<ext, plc, vault, wrapRow, upload, principals, rows, tenantOf, delegated,
                       revoked, answered>>
    PROVE  TypeOK' /\ Gentle(s)
BY DEF TypeOK, Calls, Gentle, GentlePlc, GentleVault, GentleWrapRow,
       GentleReferences, GentleGrants, GentleAnswers, GentleIds

LEMMA WritesReferences ==
    ASSUME TypeOK, NEW s \in Procs, call' \in Calls, faults' \in 0..MaxFaults,
           principals' \subseteq DIDs, rows' \subseteq Items, GentleReferences(s),
           UNCHANGED <<row, ext, plc, vault, wrapRow, upload, tenantOf, delegated,
                       revoked, answered>>
    PROVE  TypeOK' /\ Gentle(s)
BY DEF TypeOK, Calls, Gentle, GentleRow, GentlePlc, GentleVault, GentleWrapRow,
       GentleGrants, GentleAnswers, GentleIds

LEMMA WritesGrants ==
    ASSUME TypeOK, NEW s \in Procs, call' \in Calls, faults' \in 0..MaxFaults,
           delegated' \subseteq Items, revoked \subseteq revoked', revoked' \subseteq Keys,
           GentleGrants(s),
           UNCHANGED <<row, ext, plc, vault, wrapRow, upload, principals, rows, tenantOf,
                       answered>>
    PROVE  TypeOK' /\ Gentle(s)
BY DEF TypeOK, Calls, Gentle, GentleRow, GentlePlc, GentleVault, GentleWrapRow,
       GentleReferences, GentleAnswers, GentleIds

LEMMA WritesAnswer ==
    ASSUME TypeOK, NEW s \in Procs, call' \in Calls, faults' \in 0..MaxFaults,
           call[s].item \in Items, Creating(s), Kept(call[s].item),
           answered' = answered \cup {call[s].item},
           UNCHANGED <<row, ext, plc, vault, wrapRow, upload, principals, rows, tenantOf,
                       delegated, revoked>>
    PROVE  TypeOK' /\ Gentle(s)
BY DEF TypeOK, Calls, Gentle, GentleRow, GentlePlc, GentleVault, GentleWrapRow,
       GentleReferences, GentleGrants, GentleAnswers, GentleIds, Kept, Gone

\* Taking an entry of the vault, or a wrap key's row, out of what s may spend.
LEMMA SecretsDiffer ==
    ASSUME NEW d \in DIDs, NEW e, NEW k
    PROVE  /\ Signing(d) # Wrapping(e) /\ Wrapping(d) # Signing(e)
           /\ Signing(d) # Secret(k) /\ Wrapping(d) # Secret(k)
           /\ d # e => Signing(d) # Signing(e) /\ Wrapping(d) # Wrapping(e)
BY DEF Signing, Wrapping, Secret

\* Taking out what s may spend, or the secret of a key.
LEMMA Unsealing ==
    ASSUME TypeOK, NEW s \in Procs, NEW p,
           \/ /\ p \in {Signing(call[s].did), Wrapping(call[s].did)}
              /\ call[s].pc \in Cleaning \cup PastTombstone
           \/ \E k : p = Secret(k),
           vault' = vault \/ vault' = vault \ {p}
    PROVE  vault' \subseteq Secrets /\ GentleVault(s)
<1>1. vault' \subseteq Secrets
  BY DEF TypeOK
<1>2. ASSUME NEW d \in DIDs
      PROVE  /\ Signing(d) \in vault => Signing(d) \in vault' \/ Spends(s, d)
             /\ Wrapping(d) \in vault => Wrapping(d) \in vault' \/ Spends(s, d)
  BY DEF Signing, Wrapping, Secret, Spends
<1>. QED BY <1>1, <1>2 DEF GentleVault

\* What the proofs about a step of s start from.
LEMMA AtHand ==
    ASSUME Inv, NEW s \in Procs
    PROVE  /\ TypeOK /\ Facts(s) /\ call[s] \in CallRecords
           /\ Busy(s) => call[s].did \in DIDs
           /\ Creating(s) => call[s].item \in Items
BY DEF Inv, TypeOK, Facts, Reserved, Creation, Creating, Items

-----------------------------------------------------------------------------
(***************************************************************************)
(* Provision.                                                              *)
(***************************************************************************)
USE DEF At, didOf, itemOf, Attempt, Busy, Gone, Preparing, Cleaning, KeysListed, WrapRowGone,
        PastTombstone, CreatingKey, CreatingBucket

LEMMA BeginProvisionSound ==
    ASSUME Inv, NEW s \in Procs, BeginProvision(s)
    PROVE  Sound(s)
<1>. USE DEF BeginProvision
<1>1. TypeOK /\ Tables /\ faults' \in 0..MaxFaults
  BY MaxFaultsTyped DEF Inv, TypeOK
<1>2. CASE Finish(s) /\ UNCHANGED ext
  BY <1>1, <1>2, FinishMoves, TablesAlone DEF Sound, tables
<1>3. ASSUME NEW e \in ExtIDs, NEW d \in FreshDIDs, ext' = [ext EXCEPT ![d] = e],
             Start(s, [Idle EXCEPT !.pc = "pvSigning", !.did = d, !.ext = e])
      PROVE  Sound(s)
  <2>. DEFINE c == [Idle EXCEPT !.pc = "pvSigning", !.did = d, !.ext = e]
  <2>1. d \in DIDs /\ ext[d] = None /\ e # None
    BY IdsDiffer DEF FreshDIDs
  <2>2. c \in CallRecords /\ c.pc = "pvSigning" /\ c.did = d
    BY <2>1 DEF Idle, CallRecords, Labels, Statuses
  <2>. HIDE DEF c
  <2>3. call' \in Calls /\ OthersWait(s) /\ call'[s].pc = "pvSigning" /\ call'[s].did = d
    BY <1>1, <1>3, <2>2, StartMoves DEF c
  <2>4. TypeOK' /\ ext'[d] # None
    BY <1>1, <1>3, <2>1, <2>3 DEF TypeOK, Calls
  <2>5. Gentle(s)
    BY <1>1, <1>3, <2>1 DEF TypeOK, Gentle, GentleRow, GentlePlc, GentleVault, GentleWrapRow,
       GentleReferences, GentleGrants, GentleAnswers, GentleIds
  <2>6. Facts(s)'
    BY <1>1, <2>1, <2>3, <2>4
       DEF Tables, Facts, Prepared, Reserved, Deletion, Creation, Exclusive, Creating
  <2>7. Admits(s)
    BY <2>1, <2>3 DEF Admits, Creating
  <2>. QED BY <2>3, <2>4, <2>5, <2>6, <2>7 DEF Sound
<1>. QED
  <2>1. FreshDIDs # {} => (CHOOSE x \in FreshDIDs : TRUE) \in FreshDIDs
    OBVIOUS
  <2>. QED BY <1>2, <1>3, <2>1

LEMMA SealSigningSound ==
    ASSUME Inv, NEW s \in Procs, SealSigning(s)
    PROVE  Sound(s)
<1>. USE DEF SealSigning, Seal
<1>1. TypeOK /\ Facts(s) /\ call[s].pc = "pvSigning" /\ call[s].did \in DIDs
  BY AtHand
<1>2. faults' \in 0..MaxFaults
  BY <1>1, FaultsBounded
<1>3. vault \subseteq vault' /\ vault' \subseteq Secrets
  BY <1>1 DEF TypeOK, Secrets
<1>4. call' \in Calls => TypeOK' /\ Gentle(s)
  BY <1>1, <1>2, <1>3, WritesVault DEF GentleVault
<1>5. CASE Finish(s)
  BY <1>1, <1>4, <1>5, FinishMoves DEF Sound
<1>6. CASE Goto(s, "pvWrapping") /\ Signing(call[s].did) \in vault'
  <2>1. /\ call' \in Calls /\ OthersWait(s) /\ Admits(s)
        /\ call'[s].pc = "pvWrapping" /\ call'[s].did = call[s].did
    BY <1>1, <1>6, GotoMoves DEF Labels
  <2>2. Facts(s)'
    BY <1>1, <1>6, <2>1
       DEF Facts, Prepared, Reserved, Deletion, Creation, Exclusive, Creating
  <2>. QED BY <1>4, <2>1, <2>2 DEF Sound
<1>. QED BY <1>5, <1>6

LEMMA SealWrappingSound ==
    ASSUME Inv, NEW s \in Procs, SealWrapping(s)
    PROVE  Sound(s)
<1>. USE DEF SealWrapping, Seal
<1>1. TypeOK /\ Facts(s) /\ call[s].pc = "pvWrapping" /\ call[s].did \in DIDs
  BY AtHand
<1>2. faults' \in 0..MaxFaults
  BY <1>1, FaultsBounded
<1>3. vault \subseteq vault' /\ vault' \subseteq Secrets
  BY <1>1 DEF TypeOK, Secrets
<1>4. call' \in Calls => TypeOK' /\ Gentle(s)
  BY <1>1, <1>2, <1>3, WritesVault DEF GentleVault
<1>5. ASSUME NEW l \in {"pvGenesis", "cuSigning"}, Goto(s, l),
             l = "pvGenesis" => Wrapping(call[s].did) \in vault'
      PROVE  Sound(s)
  <2>1. /\ call' \in Calls /\ OthersWait(s) /\ Admits(s)
        /\ call'[s].pc = l /\ call'[s].did = call[s].did
    BY <1>1, <1>5, GotoMoves DEF Labels
  <2>2. Facts(s)'
    BY <1>1, <1>3, <1>5, <2>1
       DEF Facts, Prepared, Reserved, Deletion, Creation, Exclusive, Creating
  <2>. QED BY <1>4, <2>1, <2>2 DEF Sound
<1>. QED BY <1>5

LEMMA PublishGenesisSound ==
    ASSUME Inv, NEW s \in Procs, PublishGenesis(s)
    PROVE  Sound(s)
<1>. USE DEF PublishGenesis
<1>1. TypeOK /\ Facts(s) /\ call[s].pc = "pvGenesis" /\ call[s].did \in DIDs
  BY AtHand
<1>2. faults' \in 0..MaxFaults
  BY <1>1, FaultsBounded
<1>3. plc' = plc \/ plc' = [plc EXCEPT ![call[s].did] = "live"]
  OBVIOUS
<1>4. call' \in Calls => TypeOK' /\ Gentle(s)
  <2>1. plc' \in [DIDs -> {"unborn", "live", "deactivated"}] /\ GentlePlc(s)
    BY <1>1, <1>3 DEF TypeOK, GentlePlc
  <2>. QED BY <1>1, <1>2, <2>1, WritesPlc
<1>5. ASSUME NEW l \in {"pvCustomer", "cuWrapping"}, Goto(s, l),
             l = "pvCustomer" => plc'[call[s].did] = "live"
      PROVE  Sound(s)
  <2>1. /\ call' \in Calls /\ OthersWait(s) /\ Admits(s)
        /\ call'[s].pc = l /\ call'[s].did = call[s].did
    BY <1>1, <1>5, GotoMoves DEF Labels
  <2>2. plc'[call[s].did] # "deactivated"
    BY <1>1, <1>3 DEF TypeOK, Facts, Reserved, Exclusive
  <2>3. Facts(s)'
    BY <1>1, <1>5, <2>1, <2>2
       DEF Facts, Prepared, Reserved, Deletion, Creation, Exclusive, Creating
  <2>. QED BY <1>4, <2>1, <2>3 DEF Sound
<1>. QED BY <1>1, <1>5 DEF TypeOK

LEMMA RegisterCustomerSound ==
    ASSUME Inv, NEW s \in Procs, RegisterCustomer(s)
    PROVE  Sound(s)
<1>. USE DEF RegisterCustomer
<1>1. TypeOK /\ Facts(s) /\ call[s].pc = "pvCustomer" /\ call[s].did \in DIDs
  BY AtHand
<1>2. faults' \in 0..MaxFaults
  BY <1>1, FaultsBounded
<1>3. upload \subseteq upload' /\ upload' \subseteq DIDs \cup Buckets
  BY <1>1 DEF TypeOK
<1>4. call' \in Calls => TypeOK' /\ Gentle(s)
  BY <1>1, <1>2, <1>3, WritesUpload
<1>5. ASSUME NEW l \in {"pvWrapRow", "cuWrapping"}, Goto(s, l),
             l = "pvWrapRow" => call[s].did \in upload'
      PROVE  Sound(s)
  <2>1. /\ call' \in Calls /\ OthersWait(s) /\ Admits(s)
        /\ call'[s].pc = l /\ call'[s].did = call[s].did
    BY <1>1, <1>5, GotoMoves DEF Labels
  <2>2. Facts(s)'
    BY <1>1, <1>5, <2>1
       DEF Facts, Prepared, Reserved, Deletion, Creation, Exclusive, Creating
  <2>. QED BY <1>4, <2>1, <2>2 DEF Sound
<1>. QED BY <1>5

LEMMA AddWrapKeySound ==
    ASSUME Inv, NEW s \in Procs, AddWrapKey(s)
    PROVE  Sound(s)
<1>. USE DEF AddWrapKey
<1>1. TypeOK /\ Facts(s) /\ call[s].pc = "pvWrapRow" /\ call[s].did \in DIDs
  BY AtHand
<1>2. faults' \in 0..MaxFaults
  BY <1>1, FaultsBounded
<1>3. wrapRow' \subseteq DIDs /\ GentleWrapRow(s)
  BY <1>1 DEF TypeOK, GentleWrapRow
<1>4. call' \in Calls => TypeOK' /\ Gentle(s)
  BY <1>1, <1>2, <1>3, WritesWrapRow
<1>5. ASSUME NEW l \in {"pvRow", "cuWrapping"}, Goto(s, l),
             l = "pvRow" => call[s].did \in wrapRow'
      PROVE  Sound(s)
  <2>1. /\ call' \in Calls /\ OthersWait(s) /\ Admits(s)
        /\ call'[s].pc = l /\ call'[s].did = call[s].did
    BY <1>1, <1>5, GotoMoves DEF Labels
  <2>2. Facts(s)'
    BY <1>1, <1>5, <2>1
       DEF Facts, Prepared, Reserved, Deletion, Creation, Exclusive, Creating
  <2>. QED BY <1>4, <2>1, <2>2 DEF Sound
<1>. QED BY <1>5

LEMMA AddTenantSound ==
    ASSUME Inv, NEW s \in Procs, AddTenant(s)
    PROVE  Sound(s)
<1>. USE DEF AddTenant
<1>1. TypeOK /\ Facts(s) /\ call[s].pc = "pvRow" /\ call[s].did \in DIDs
  BY AtHand
<1>2. faults' \in 0..MaxFaults
  BY <1>1, FaultsBounded
<1>3. row' = row \/ row' = [row EXCEPT ![call[s].did] = "active"]
  OBVIOUS
<1>4. call' \in Calls => TypeOK' /\ Gentle(s)
  <2>1. row' \in [DIDs -> Statuses \cup {"none"}] /\ GentleRow(s)
    BY <1>1, <1>3 DEF TypeOK, GentleRow, Statuses
  <2>. QED BY <1>1, <1>2, <2>1, WritesRow
<1>5. CASE Goto(s, "pvGet")
  <2>1. /\ call' \in Calls /\ OthersWait(s) /\ Admits(s)
        /\ call'[s].pc = "pvGet" /\ call'[s].did = call[s].did
    BY <1>1, <1>5, GotoMoves DEF Labels
  <2>2. Facts(s)'
    BY <1>1, <1>5, <2>1
       DEF Facts, Prepared, Reserved, Deletion, Creation, Exclusive, Creating
  <2>. QED BY <1>4, <2>1, <2>2 DEF Sound
<1>6. CASE /\ \/ Goto(s, "cuWrapRow")
              \/ call' = [call EXCEPT ![s].pc = "cuWrapRow", ![s].exists = TRUE]
           /\ "sql" \in Faults \/ UNCHANGED row
  <2>1. /\ call' \in Calls /\ OthersWait(s)
        /\ call'[s].pc = "cuWrapRow" /\ call'[s].did = call[s].did
    BY <1>1, <1>6 DEF TypeOK, Goto, Calls, CallRecords, Labels, OthersWait
  <2>2. Facts(s)'
    BY <1>1, <1>6, <2>1
       DEF Facts, Prepared, Reserved, Deletion, Creation, Exclusive, Creating
  <2>3. Admits(s)
    BY <1>1, <2>1 DEF Admits, Exclusive, Creating
  <2>. QED BY <1>4, <2>1, <2>2, <2>3 DEF Sound
<1>. QED BY <1>5, <1>6

LEMMA ReadBackSound ==
    ASSUME Inv, NEW s \in Procs, ReadBack(s)
    PROVE  Sound(s)
<1>1. TypeOK /\ faults' \in 0..MaxFaults
  BY FaultsBounded, AtHand DEF ReadBack
<1>. QED BY <1>1, FinishMoves, TablesAlone DEF ReadBack, Sound

LEMMA CleanWrapRowSound ==
    ASSUME Inv, NEW s \in Procs, CleanWrapRow(s)
    PROVE  Sound(s)
<1>. USE DEF CleanWrapRow, DropWrapKey
<1>1. TypeOK /\ Facts(s) /\ call[s].pc = "cuWrapRow" /\ call[s].did \in DIDs
  BY AtHand
<1>2. faults' \in 0..MaxFaults
  BY <1>1, FaultsBounded
<1>3. wrapRow' \subseteq DIDs /\ GentleWrapRow(s)
  BY <1>1 DEF TypeOK, GentleWrapRow, Spends
<1>4. /\ call' \in Calls /\ OthersWait(s) /\ Admits(s)
      /\ call'[s].pc = "cuWrapping" /\ call'[s].did = call[s].did
  BY <1>1, GotoMoves DEF Labels
<1>5. Facts(s)'
  BY <1>1, <1>4
     DEF Facts, Prepared, Reserved, Deletion, Creation, Exclusive, Creating
<1>. QED BY <1>1, <1>2, <1>3, <1>4, <1>5, WritesWrapRow DEF Sound

LEMMA CleanWrappingSound ==
    ASSUME Inv, NEW s \in Procs, CleanWrapping(s)
    PROVE  Sound(s)
<1>. USE DEF CleanWrapping, Unseal
<1>1. TypeOK /\ Facts(s) /\ call[s].pc = "cuWrapping" /\ call[s].did \in DIDs
  BY AtHand
<1>2. faults' \in 0..MaxFaults
  BY <1>1, FaultsBounded
<1>3. vault' \subseteq Secrets /\ GentleVault(s)
  BY <1>1, Unsealing
<1>4. /\ call' \in Calls /\ OthersWait(s) /\ Admits(s)
      /\ call'[s].pc = "cuSigning" /\ call'[s].did = call[s].did
  BY <1>1, GotoMoves DEF Labels
<1>5. Facts(s)'
  BY <1>1, <1>4
     DEF Facts, Prepared, Reserved, Deletion, Creation, Exclusive, Creating
<1>. QED BY <1>1, <1>2, <1>3, <1>4, <1>5, WritesVault DEF Sound

LEMMA CleanSigningSound ==
    ASSUME Inv, NEW s \in Procs, CleanSigning(s)
    PROVE  Sound(s)
<1>. USE DEF CleanSigning, Unseal
<1>1. TypeOK /\ Facts(s) /\ call[s].pc = "cuSigning" /\ call[s].did \in DIDs
  BY AtHand
<1>2. faults' \in 0..MaxFaults
  BY <1>1, FaultsBounded
<1>3. vault' \subseteq Secrets /\ GentleVault(s)
  BY <1>1, Unsealing
<1>4. CASE Finish(s)
  BY <1>1, <1>2, <1>3, <1>4, FinishMoves, WritesVault DEF Sound
<1>5. CASE Goto(s, "pvWinner")
  <2>1. /\ call' \in Calls /\ OthersWait(s) /\ Admits(s)
        /\ call'[s].pc = "pvWinner" /\ call'[s].did = call[s].did
    BY <1>1, <1>5, GotoMoves DEF Labels
  <2>2. Facts(s)'
    BY <1>1, <2>1
       DEF Facts, Prepared, Reserved, Deletion, Creation, Exclusive, Creating
  <2>. QED BY <1>1, <1>2, <1>3, <2>1, <2>2, WritesVault DEF Sound
<1>. QED BY <1>4, <1>5

-----------------------------------------------------------------------------
(***************************************************************************)
(* SetStatus, and the beginnings that look a tenant up.                    *)
(***************************************************************************)
\* A request that starts on a tenant that has a row.
LEMMA Beginning ==
    ASSUME Inv, NEW s \in Procs, NEW e, NEW d \in GetByExternalID(e), NEW c \in CallRecords,
           c.pc \in {"status", "dlKeys", "ckIssuer", "cpAdd"}, c.did = d, Start(s, c),
           UNCHANGED <<tables, faults>>
    PROVE  Sound(s)
<1>1. d \in DIDs /\ row[d] # "none" /\ ext[d] # None
  BY DEF GetByExternalID, Inv, Tables
<1>2. TypeOK /\ faults' \in 0..MaxFaults
  BY AtHand, FaultsBounded
<1>3. call' \in Calls /\ OthersWait(s) /\ call'[s] = c
  BY <1>2, StartMoves
<1>4. Facts(s)'
  BY <1>1, <1>3 DEF Facts, Prepared, Reserved, Deletion, Creation, Exclusive, Creating, tables
<1>5. Admits(s)
  BY <1>1, <1>3 DEF Admits, Exclusive, Creating
<1>. QED BY <1>2, <1>3, <1>4, <1>5, TablesAlone DEF Sound

LEMMA IdleWith ==
    ASSUME NEW l \in Labels, NEW d \in DIDs
    PROVE  /\ [Idle EXCEPT !.pc = l, !.did = d] \in CallRecords
           /\ [Idle EXCEPT !.pc = l, !.did = d].pc = l
           /\ [Idle EXCEPT !.pc = l, !.did = d].did = d
BY ZenonT(60) DEF Idle, CallRecords, Labels, Statuses

LEMMA BeginSetStatusSound ==
    ASSUME Inv, NEW s \in Procs, BeginSetStatus(s)
    PROVE  Sound(s)
<1>1. PICK e \in ExtIDs, st \in Asked : \E d \in GetByExternalID(e) :
          Start(s, [Idle EXCEPT !.pc = "status", !.did = d, !.status = st])
  BY DEF BeginSetStatus
<1>2. PICK d \in GetByExternalID(e) :
          Start(s, [Idle EXCEPT !.pc = "status", !.did = d, !.status = st])
  BY <1>1
<1>. DEFINE c == [Idle EXCEPT !.pc = "status", !.did = d, !.status = st]
<1>3. d \in DIDs
  BY DEF GetByExternalID
<1>4. c \in CallRecords /\ c.pc = "status" /\ c.did = d
  BY <1>3, AskedTyped DEF Idle, CallRecords, Labels, Statuses
<1>. QED BY <1>2, <1>4, Beginning DEF BeginSetStatus

LEMMA SetStatusSound ==
    ASSUME Inv, NEW s \in Procs, SetStatus(s)
    PROVE  Sound(s)
<1>. USE DEF SetStatus
<1>1. /\ TypeOK /\ call[s] \in CallRecords /\ call[s].did \in DIDs
      /\ call[s].status \in Statuses /\ faults' \in 0..MaxFaults
  BY AtHand, FaultsBounded DEF CallRecords
<1>2. /\ row' \in [DIDs -> Statuses \cup {"none"}]
      /\ \A d \in DIDs : row'[d] = row[d] \/ (row[d] # "none" /\ row'[d] \in Statuses)
  BY <1>1 DEF TypeOK
<1>3. GentleRow(s)
  BY <1>2 DEF GentleRow, Statuses
<1>. QED BY <1>1, <1>2, <1>3, FinishMoves, WritesRow DEF Sound

LEMMA BeginDeleteSound ==
    ASSUME Inv, NEW s \in Procs, BeginDelete(s)
    PROVE  Sound(s)
<1>1. TypeOK /\ faults' \in 0..MaxFaults
  BY AtHand, FaultsBounded DEF BeginDelete
<1>2. CASE Finish(s)
  BY <1>1, <1>2, FinishMoves, TablesAlone DEF BeginDelete, Sound
<1>3. ASSUME NEW e \in ExtIDs, NEW d \in GetByExternalID(e),
             Start(s, [Idle EXCEPT !.pc = "dlKeys", !.did = d])
      PROVE  Sound(s)
  <2>. DEFINE c == [Idle EXCEPT !.pc = "dlKeys", !.did = d]
  <2>1. d \in DIDs /\ "dlKeys" \in Labels
    BY DEF GetByExternalID, Labels
  <2>2. c \in CallRecords /\ c.pc = "dlKeys" /\ c.did = d
    BY <2>1, IdleWith
  <2>3. Start(s, c) /\ UNCHANGED <<tables, faults>>
    BY <1>3 DEF BeginDelete
  <2>. HIDE DEF c
  <2>. QED BY <2>2, <2>3, Beginning
<1>. QED BY <1>2, <1>3 DEF BeginDelete

LEMMA BeginCreateKeySound ==
    ASSUME Inv, NEW s \in Procs, BeginCreateKey(s)
    PROVE  Sound(s)
<1>1. ASSUME NEW e \in ExtIDs, NEW d \in GetByExternalID(e),
             Start(s, [Idle EXCEPT !.pc = "ckIssuer", !.did = d])
      PROVE  Sound(s)
  <2>. DEFINE c == [Idle EXCEPT !.pc = "ckIssuer", !.did = d]
  <2>1. d \in DIDs /\ "ckIssuer" \in Labels
    BY DEF GetByExternalID, Labels
  <2>2. c \in CallRecords /\ c.pc = "ckIssuer" /\ c.did = d
    BY <2>1, IdleWith
  <2>3. Start(s, c) /\ UNCHANGED <<tables, faults>>
    BY <1>1 DEF BeginCreateKey
  <2>. HIDE DEF c
  <2>. QED BY <2>2, <2>3, Beginning
<1>. QED BY <1>1 DEF BeginCreateKey

LEMMA BeginCreatePrincipalSound ==
    ASSUME Inv, NEW s \in Procs, BeginCreatePrincipal(s)
    PROVE  Sound(s)
<1>1. ASSUME NEW e \in ExtIDs, NEW d \in GetByExternalID(e),
             Start(s, [Idle EXCEPT !.pc = "cpAdd", !.did = d])
      PROVE  Sound(s)
  <2>. DEFINE c == [Idle EXCEPT !.pc = "cpAdd", !.did = d]
  <2>1. d \in DIDs /\ "cpAdd" \in Labels
    BY DEF GetByExternalID, Labels
  <2>2. c \in CallRecords /\ c.pc = "cpAdd" /\ c.did = d
    BY <2>1, IdleWith
  <2>3. Start(s, c) /\ UNCHANGED <<tables, faults>>
    BY <1>1 DEF BeginCreatePrincipal
  <2>. HIDE DEF c
  <2>. QED BY <2>2, <2>3, Beginning
<1>. QED BY <1>1 DEF BeginCreatePrincipal

-----------------------------------------------------------------------------
(***************************************************************************)
(* Delete.                                                                 *)
(***************************************************************************)
LEMMA DeleteListKeysSound ==
    ASSUME Inv, NEW s \in Procs, DeleteListKeys(s)
    PROVE  Sound(s)
<1>. DEFINE ks == Of(call[s].did) \cap Keys
<1>. USE DEF DeleteListKeys
<1>1. /\ TypeOK /\ Facts(s) /\ call[s].pc = "dlKeys" /\ call[s].did \in DIDs
      /\ faults' \in 0..MaxFaults
  BY AtHand, FaultsBounded
<1>2. \A k \in ks : k \in Keys /\ tenantOf[k] = call[s].did
  BY DEF Of
<1>3. ks \subseteq Items /\ ks \cap answered \subseteq Keys
  BY DEF Items
<1>4. /\ call' \in Calls /\ OthersWait(s)
      /\ call'[s].pc = "dlLast" /\ call'[s].did = call[s].did /\ call'[s].item = call[s].item
      /\ call'[s].todo = ks /\ call'[s].shown = ks \cap answered
  <2>. HIDE DEF ks
  <2>1. call' = [call EXCEPT ![s].todo = ks, ![s].shown = ks \cap answered, ![s].pc = "dlLast"]
    BY DEF ks
  <2>. QED BY <1>1, <1>3, <2>1 DEF TypeOK, Calls, CallRecords, Labels, OthersWait
<1>. HIDE DEF ks
<1>5. Facts(s)'
  BY <1>1, <1>2, <1>4 DEF Facts, Prepared, Reserved, Deletion, Creation, Exclusive, Creating, tables
<1>6. Admits(s)
  BY <1>1, <1>4 DEF Admits, Exclusive, Creating
<1>. QED BY <1>1, <1>4, <1>5, <1>6, TablesAlone DEF Sound

LEMMA DeleteLastSound ==
    ASSUME Inv, NEW s \in Procs, DeleteLast(s)
    PROVE  Sound(s)
<1>. USE DEF DeleteLast
<1>1. /\ TypeOK /\ Facts(s) /\ call[s].pc = "dlLast" /\ call[s].did \in DIDs
      /\ faults' \in 0..MaxFaults
  BY AtHand, FaultsBounded
<1>2. ASSUME NEW l \in {"dlGrants", "dlTomb", "dlRevoke"}, Goto(s, l),
             l = "dlGrants" => Gone(call[s].did),
             l = "dlTomb" => call[s].todo = {}
      PROVE  Sound(s)
  <2>1. /\ call' \in Calls /\ OthersWait(s) /\ Admits(s)
        /\ call'[s].pc = l /\ call'[s].did = call[s].did
        /\ call'[s].todo = call[s].todo /\ call'[s].shown = call[s].shown
    BY <1>1, <1>2, GotoMoves DEF Labels
  <2>2. l = "dlTomb" => call[s].shown \subseteq revoked
    BY <1>1, <1>2 DEF Facts, Deletion
  <2>3. Facts(s)'
    BY <1>1, <1>2, <2>1, <2>2
       DEF Facts, Prepared, Reserved, Deletion, Creation, Exclusive, Creating, tables
  <2>. QED BY <1>1, <2>1, <2>3, TablesAlone DEF Sound
<1>. QED BY <1>2

\* The keys of the listing that are in callers' hands still hold their delegations, or
\* these are revoked, unless another deletion is past the tombstone.
LEMMA RevokeKeyDelegationsSound ==
    ASSUME Inv, NEW s \in Procs, RevokeKeyDelegations(s)
    PROVE  Sound(s)
<1>. DEFINE ks == call[s].todo \cap delegated
<1>. USE DEF RevokeKeyDelegations
<1>1. TypeOK /\ Facts(s) /\ call[s].pc = "dlRevoke" /\ call[s].did \in DIDs
  BY AtHand
<1>2. faults' \in 0..MaxFaults
  BY <1>1, FaultsBounded
<1>3. /\ ks \subseteq Keys /\ \A k \in call[s].shown : k \in answered /\ tenantOf[k] = call[s].did
      /\ call[s].shown \subseteq call[s].todo \cap Keys
  BY <1>1 DEF Facts, Deletion
<1>4. \/ delegated' = delegated /\ revoked' = revoked
      \/ delegated' = delegated \ ks /\ revoked' = revoked \cup ks
      \/ delegated' = delegated /\ revoked' = revoked \cup ks
  OBVIOUS
<1>5. call' \in Calls => TypeOK' /\ Gentle(s)
  <2>1. /\ delegated' \subseteq Items /\ revoked \subseteq revoked' /\ revoked' \subseteq Keys
        /\ GentleGrants(s)
    BY <1>1, <1>3, <1>4 DEF TypeOK, GentleGrants
  <2>. QED BY <1>1, <1>2, <2>1, WritesGrants
<1>6. CASE Finish(s)
  BY <1>1, <1>5, <1>6, FinishMoves DEF Sound
<1>7. CASE Goto(s, "dlTomb") /\ revoked' = revoked \cup ks
  <2>1. /\ call' \in Calls /\ OthersWait(s) /\ Admits(s)
        /\ call'[s].pc = "dlTomb" /\ call'[s].did = call[s].did
        /\ call'[s].todo = call[s].todo /\ call'[s].shown = call[s].shown
    BY <1>1, <1>7, GotoMoves DEF Labels
  <2>2. call[s].shown \subseteq revoked' \/ Gone(call[s].did)
    BY <1>3, <1>7 DEF Inv, Tables, Kept
  <2>3. Facts(s)'
    BY <1>1, <2>1, <2>2
       DEF Facts, Prepared, Reserved, Deletion, Creation, Exclusive, Creating
  <2>. QED BY <1>5, <2>1, <2>3 DEF Sound
<1>. QED BY <1>6, <1>7

LEMMA DeactivateDIDSound ==
    ASSUME Inv, NEW s \in Procs, DeactivateDID(s)
    PROVE  Sound(s)
<1>. USE DEF DeactivateDID
<1>1. TypeOK /\ Facts(s) /\ call[s].pc = "dlTomb" /\ call[s].did \in DIDs
  BY AtHand
<1>2. faults' \in 0..MaxFaults
  BY <1>1, FaultsBounded
<1>3. \/ plc' = plc
      \/ plc' = [plc EXCEPT ![call[s].did] = "deactivated"] /\ plc[call[s].did] = "live"
  OBVIOUS
<1>4. call' \in Calls => TypeOK' /\ Gentle(s)
  <2>1. plc' \in [DIDs -> {"unborn", "live", "deactivated"}] /\ GentlePlc(s)
    BY <1>1, <1>3 DEF TypeOK, GentlePlc, Facts, Deletion
  <2>. QED BY <1>1, <1>2, <2>1, WritesPlc
<1>5. CASE Finish(s)
  BY <1>1, <1>4, <1>5, FinishMoves DEF Sound
<1>6. CASE Goto(s, "dlGrants") /\ plc' = [plc EXCEPT ![call[s].did] = "deactivated"]
  <2>1. /\ call' \in Calls /\ OthersWait(s) /\ Admits(s)
        /\ call'[s].pc = "dlGrants" /\ call'[s].did = call[s].did
        /\ call'[s].todo = call[s].todo
    BY <1>1, <1>6, GotoMoves DEF Labels
  <2>2. plc'[call[s].did] = "deactivated"
    BY <1>1, <1>6 DEF TypeOK
  <2>3. Facts(s)'
    BY <1>1, <2>1, <2>2
       DEF Facts, Prepared, Reserved, Deletion, Creation, Exclusive, Creating
  <2>. QED BY <1>4, <2>1, <2>3 DEF Sound
<1>. QED BY <1>5, <1>6

LEMMA DeleteKeyGrantsSound ==
    ASSUME Inv, NEW s \in Procs, DeleteKeyGrants(s)
    PROVE  Sound(s)
<1>. USE DEF DeleteKeyGrants
<1>1. TypeOK /\ Facts(s) /\ call[s].pc = "dlGrants" /\ call[s].did \in DIDs
  BY AtHand
<1>2. faults' \in 0..MaxFaults
  BY <1>1, FaultsBounded
<1>3. \/ delegated' = delegated
      \/ \E k \in call[s].todo : delegated' = delegated \ {k}
  OBVIOUS
<1>4. call' \in Calls => TypeOK' /\ Gentle(s)
  <2>1. \A k \in call[s].todo : Gone(tenantOf[k])
    BY <1>1 DEF Facts, Deletion
  <2>2. delegated' \subseteq Items /\ GentleGrants(s)
    BY <1>1, <1>3, <2>1 DEF TypeOK, GentleGrants
  <2>3. revoked' = revoked /\ revoked \subseteq Keys
    BY <1>1 DEF TypeOK
  <2>. QED BY <1>1, <1>2, <2>2, <2>3, WritesGrants
<1>5. CASE Finish(s)
  BY <1>1, <1>4, <1>5, FinishMoves DEF Sound
<1>6. CASE Goto(s, "dlPrincipals")
  <2>1. /\ call' \in Calls /\ OthersWait(s) /\ Admits(s)
        /\ call'[s].pc = "dlPrincipals" /\ call'[s].did = call[s].did
    BY <1>1, <1>6, GotoMoves DEF Labels
  <2>2. Facts(s)'
    BY <1>1, <2>1
       DEF Facts, Prepared, Reserved, Deletion, Creation, Exclusive, Creating
  <2>. QED BY <1>4, <2>1, <2>2 DEF Sound
<1>7. ASSUME NEW k \in call[s].todo,
             call' = [call EXCEPT ![s].pc = "dlSecret", ![s].item = k]
      PROVE  Sound(s)
  <2>1. k \in Keys /\ k \in Items /\ "dlSecret" \in Labels
    BY <1>1 DEF Facts, Deletion, Items, Labels
  <2>2. /\ call' \in Calls /\ OthersWait(s)
        /\ call'[s].pc = "dlSecret" /\ call'[s].did = call[s].did
        /\ call'[s].todo = call[s].todo /\ call'[s].item = k
    BY <1>1, <1>7, <2>1, TakeItemMoves, ZenonT(60)
  <2>3. Facts(s)'
    BY <1>1, <2>1, <2>2
       DEF Facts, Prepared, Reserved, Deletion, Creation, Exclusive, Creating
  <2>4. Admits(s)
    BY <1>1, <2>2 DEF Admits, Exclusive, Creating
  <2>. QED BY <1>4, <2>2, <2>3, <2>4 DEF Sound
<1>. QED BY <1>5, <1>6, <1>7

LEMMA DeleteKeySecretSound ==
    ASSUME Inv, NEW s \in Procs, DeleteKeySecret(s)
    PROVE  Sound(s)
<1>. USE DEF DeleteKeySecret, Unseal
<1>1. TypeOK /\ Facts(s) /\ call[s].pc = "dlSecret" /\ call[s].did \in DIDs
  BY AtHand
<1>2. faults' \in 0..MaxFaults
  BY <1>1, FaultsBounded
<1>3. vault' \subseteq Secrets /\ GentleVault(s)
  BY <1>1, Unsealing
<1>4. /\ call' \in Calls /\ OthersWait(s) /\ Admits(s)
      /\ call'[s].pc = "dlKey" /\ call'[s].did = call[s].did
      /\ call'[s].todo = call[s].todo /\ call'[s].item = call[s].item
  BY <1>1, GotoMoves DEF Labels
<1>5. Facts(s)'
  BY <1>1, <1>4
     DEF Facts, Prepared, Reserved, Deletion, Creation, Exclusive, Creating
<1>. QED BY <1>1, <1>2, <1>3, <1>4, <1>5, WritesVault DEF Sound

LEMMA DeleteKeyRowSound ==
    ASSUME Inv, NEW s \in Procs, DeleteKeyRow(s)
    PROVE  Sound(s)
<1>. USE DEF DeleteKeyRow
<1>1. TypeOK /\ Facts(s) /\ call[s].pc = "dlKey" /\ call[s].did \in DIDs
  BY AtHand
<1>2. faults' \in 0..MaxFaults
  BY <1>1, FaultsBounded
<1>3. call' \in Calls => TypeOK' /\ Gentle(s)
  <2>1. rows' \subseteq Items /\ principals' \subseteq DIDs /\ GentleReferences(s)
    BY <1>1 DEF TypeOK, GentleReferences
  <2>. QED BY <1>1, <1>2, <2>1, WritesReferences
<1>4. CASE Finish(s)
  BY <1>1, <1>3, <1>4, FinishMoves DEF Sound
<1>5. CASE call' = [call EXCEPT ![s].pc = "dlGrants", ![s].todo = @ \ {call[s].item}]
  <2>. DEFINE left == call[s].todo \ {call[s].item}
  <2>1. left \in SUBSET Items /\ "dlGrants" \in Labels
    BY AtHand DEF CallRecords, Labels
  <2>2. call' = [call EXCEPT ![s].pc = "dlGrants", ![s].todo = left]
    BY <1>5
  <2>. HIDE DEF left
  <2>3. /\ call' \in Calls /\ OthersWait(s)
        /\ call'[s].pc = "dlGrants" /\ call'[s].did = call[s].did
        /\ call'[s].todo = left
    BY <1>1, <2>1, <2>2, SetTodoMoves
  <2>4. call'[s].todo \subseteq call[s].todo
    BY <2>3 DEF left
  <2>5. Facts(s)'
    BY <1>1, <2>3, <2>4
       DEF Facts, Prepared, Reserved, Deletion, Creation, Exclusive, Creating
  <2>6. Admits(s)
    BY <1>1, <2>3 DEF Admits, Exclusive, Creating
  <2>. QED BY <1>3, <2>3, <2>5, <2>6 DEF Sound
<1>. QED BY <1>4, <1>5

LEMMA DeletePrincipalsSound ==
    ASSUME Inv, NEW s \in Procs, DeletePrincipals(s)
    PROVE  Sound(s)
<1>. USE DEF DeletePrincipals
<1>1. TypeOK /\ Facts(s) /\ call[s].pc = "dlPrincipals" /\ call[s].did \in DIDs
  BY AtHand
<1>2. faults' \in 0..MaxFaults
  BY <1>1, FaultsBounded
<1>3. call' \in Calls => TypeOK' /\ Gentle(s)
  <2>1. rows' \subseteq Items /\ principals' \subseteq DIDs /\ GentleReferences(s)
    BY <1>1 DEF TypeOK, GentleReferences
  <2>. QED BY <1>1, <1>2, <2>1, WritesReferences
<1>4. CASE Finish(s)
  BY <1>1, <1>3, <1>4, FinishMoves DEF Sound
<1>5. CASE Goto(s, "dlWrapping")
  <2>1. /\ call' \in Calls /\ OthersWait(s) /\ Admits(s)
        /\ call'[s].pc = "dlWrapping" /\ call'[s].did = call[s].did
    BY <1>1, <1>5, GotoMoves DEF Labels
  <2>2. Facts(s)'
    BY <1>1, <2>1
       DEF Facts, Prepared, Reserved, Deletion, Creation, Exclusive, Creating
  <2>. QED BY <1>3, <2>1, <2>2 DEF Sound
<1>. QED BY <1>4, <1>5

LEMMA DeleteWrappingSound ==
    ASSUME Inv, NEW s \in Procs, DeleteWrapping(s)
    PROVE  Sound(s)
<1>. USE DEF DeleteWrapping, Unseal
<1>1. TypeOK /\ Facts(s) /\ call[s].pc = "dlWrapping" /\ call[s].did \in DIDs
  BY AtHand
<1>2. faults' \in 0..MaxFaults
  BY <1>1, FaultsBounded DEF tables
<1>3. vault' = vault \/ vault' = vault \ {Wrapping(call[s].did)}
  BY DEF tables
<1>4. vault' \subseteq Secrets /\ GentleVault(s)
  BY <1>1, <1>3, Unsealing
<1>5. /\ call' \in Calls /\ OthersWait(s) /\ Admits(s)
      /\ call'[s].pc = "dlWrapRow" /\ call'[s].did = call[s].did
  BY <1>1, GotoMoves DEF Labels
<1>6. UNCHANGED <<row, ext, plc, wrapRow, upload, principals, rows, tenantOf, delegated,
                  revoked, answered>>
  BY DEF tables
<1>7. Facts(s)'
  BY <1>1, <1>5, <1>6
     DEF Facts, Prepared, Reserved, Deletion, Creation, Exclusive, Creating
<1>. QED BY <1>1, <1>2, <1>4, <1>5, <1>6, <1>7, WritesVault DEF Sound

LEMMA DeleteWrapRowSound ==
    ASSUME Inv, NEW s \in Procs, DeleteWrapRow(s)
    PROVE  Sound(s)
<1>. USE DEF DeleteWrapRow, DropWrapKey
<1>1. TypeOK /\ Facts(s) /\ call[s].pc = "dlWrapRow" /\ call[s].did \in DIDs
  BY AtHand
<1>2. faults' \in 0..MaxFaults
  BY <1>1, FaultsBounded
<1>3. wrapRow' \subseteq DIDs /\ GentleWrapRow(s)
  BY <1>1 DEF TypeOK, GentleWrapRow, Spends
<1>4. call' \in Calls => TypeOK' /\ Gentle(s)
  BY <1>1, <1>2, <1>3, WritesWrapRow
<1>5. CASE Finish(s)
  BY <1>1, <1>4, <1>5, FinishMoves DEF Sound
<1>6. CASE Goto(s, "dlBuckets") /\ call[s].did \notin wrapRow'
  <2>1. /\ call' \in Calls /\ OthersWait(s) /\ Admits(s)
        /\ call'[s].pc = "dlBuckets" /\ call'[s].did = call[s].did
    BY <1>1, <1>6, GotoMoves DEF Labels
  <2>2. Facts(s)'
    BY <1>1, <1>6, <2>1
       DEF Facts, Prepared, Reserved, Deletion, Creation, Exclusive, Creating
  <2>. QED BY <1>4, <2>1, <2>2 DEF Sound
<1>. QED BY <1>5, <1>6

LEMMA DeleteListBucketsSound ==
    ASSUME Inv, NEW s \in Procs, DeleteListBuckets(s)
    PROVE  Sound(s)
<1>. DEFINE bs == Of(call[s].did) \cap Buckets
<1>1. /\ TypeOK /\ Facts(s) /\ call[s].pc = "dlBuckets" /\ call[s].did \in DIDs
      /\ faults' \in 0..MaxFaults
  BY AtHand, FaultsBounded DEF DeleteListBuckets
<1>2. bs \in SUBSET Items /\ "dlBucket" \in Labels
  BY DEF Items, Labels
<1>3. call' = [call EXCEPT ![s].todo = bs, ![s].pc = "dlBucket"]
  BY DEF DeleteListBuckets
<1>. HIDE DEF bs
<1>4. /\ call' \in Calls /\ OthersWait(s)
      /\ call'[s].pc = "dlBucket" /\ call'[s].did = call[s].did
  BY <1>1, <1>2, <1>3, SetTodoMoves
<1>5. UNCHANGED tables
  BY DEF DeleteListBuckets
<1>6. Facts(s)'
  BY <1>1, <1>4, <1>5
     DEF Facts, Prepared, Reserved, Deletion, Creation, Exclusive, Creating, tables
<1>7. Admits(s)
  BY <1>1, <1>4 DEF Admits, Exclusive, Creating
<1>. QED BY <1>1, <1>4, <1>5, <1>6, <1>7, TablesAlone DEF Sound

LEMMA DeleteNextBucketSound ==
    ASSUME Inv, NEW s \in Procs, DeleteNextBucket(s)
    PROVE  Sound(s)
<1>1. TypeOK /\ Facts(s) /\ call[s].pc = "dlBucket" /\ call[s].did \in DIDs
  BY AtHand DEF DeleteNextBucket
<1>2. faults' \in 0..MaxFaults
  BY <1>1, FaultsBounded DEF DeleteNextBucket
<1>3. call' \in Calls => TypeOK' /\ Gentle(s)
  <2>1. rows' \subseteq Items /\ principals' \subseteq DIDs /\ GentleReferences(s)
    BY <1>1 DEF DeleteNextBucket, TypeOK, GentleReferences
  <2>. QED BY <1>1, <1>2, <2>1, WritesReferences DEF DeleteNextBucket
<1>4. CASE Finish(s)
  BY <1>1, <1>3, <1>4, FinishMoves DEF Sound
<1>5. CASE Goto(s, "dlRoots")
  <2>1. /\ call' \in Calls /\ OthersWait(s) /\ Admits(s)
        /\ call'[s].pc = "dlRoots" /\ call'[s].did = call[s].did
    BY <1>1, <1>5, GotoMoves DEF Labels
  <2>2. Facts(s)'
    BY <1>1, <2>1
       DEF DeleteNextBucket, Facts, Prepared, Reserved, Deletion, Creation, Exclusive, Creating
  <2>. QED BY <1>3, <2>1, <2>2 DEF Sound
<1>6. ASSUME NEW b \in call[s].todo, call' = [call EXCEPT ![s].todo = @ \ {b}]
      PROVE  Sound(s)
  <2>. DEFINE left == call[s].todo \ {b}
  <2>1. left \in SUBSET Items /\ "dlBucket" \in Labels
    BY AtHand DEF CallRecords, Labels
  <2>2. call' = [call EXCEPT ![s].pc = "dlBucket", ![s].todo = left]
    BY <1>1, <1>6 DEF TypeOK, CallRecords
  <2>. HIDE DEF left
  <2>3. /\ call' \in Calls /\ OthersWait(s)
        /\ call'[s].pc = "dlBucket" /\ call'[s].did = call[s].did
    BY <1>1, <2>1, <2>2, SetTodoMoves
  <2>4. Facts(s)'
    BY <1>1, <2>3
       DEF DeleteNextBucket, Facts, Prepared, Reserved, Deletion, Creation, Exclusive, Creating
  <2>5. Admits(s)
    BY <1>1, <2>3 DEF Admits, Exclusive, Creating
  <2>. QED BY <1>3, <2>3, <2>4, <2>5 DEF Sound
<1>. QED BY <1>4, <1>5, <1>6 DEF DeleteNextBucket

LEMMA DeleteRootsSound ==
    ASSUME Inv, NEW s \in Procs, DeleteRoots(s)
    PROVE  Sound(s)
<1>. USE DEF DeleteRoots
<1>1. TypeOK /\ Facts(s) /\ call[s].pc = "dlRoots" /\ call[s].did \in DIDs
  BY AtHand
<1>2. faults' \in 0..MaxFaults
  BY <1>1, FaultsBounded
<1>3. call' \in Calls => TypeOK' /\ Gentle(s)
  <2>1. Gone(call[s].did)
    BY <1>1 DEF Facts, Deletion
  <2>2. delegated' \subseteq Items /\ GentleGrants(s)
    BY <1>1, <2>1 DEF TypeOK, GentleGrants
  <2>3. revoked' = revoked /\ revoked \subseteq Keys
    BY <1>1 DEF TypeOK
  <2>. QED BY <1>1, <1>2, <2>2, <2>3, WritesGrants
<1>4. CASE Finish(s)
  BY <1>1, <1>3, <1>4, FinishMoves DEF Sound
<1>5. CASE Goto(s, "dlRow")
  <2>1. /\ call' \in Calls /\ OthersWait(s) /\ Admits(s)
        /\ call'[s].pc = "dlRow" /\ call'[s].did = call[s].did
    BY <1>1, <1>5, GotoMoves DEF Labels
  <2>2. Facts(s)'
    BY <1>1, <2>1
       DEF Facts, Prepared, Reserved, Deletion, Creation, Exclusive, Creating
  <2>. QED BY <1>3, <2>1, <2>2 DEF Sound
<1>. QED BY <1>4, <1>5

\* The row goes when nothing refers to it; its wrap key's row went before.
LEMMA DeleteTenantRowSound ==
    ASSUME Inv, NEW s \in Procs, DeleteTenantRow(s)
    PROVE  Sound(s)
<1>. USE DEF DeleteTenantRow
<1>1. TypeOK /\ Facts(s) /\ call[s].pc = "dlRow" /\ call[s].did \in DIDs
  BY AtHand
<1>2. faults' \in 0..MaxFaults
  BY <1>1, FaultsBounded
<1>3. \/ row' = row
      \/ /\ row' = [row EXCEPT ![call[s].did] = "none"]
         /\ Of(call[s].did) = {} /\ call[s].did \notin principals
  OBVIOUS
<1>4. call' \in Calls => TypeOK' /\ Gentle(s)
  <2>1. Gone(call[s].did) /\ call[s].did \notin wrapRow
    BY <1>1 DEF Facts, Deletion
  <2>2. row' \in [DIDs -> Statuses \cup {"none"}]
    BY <1>1, <1>3 DEF TypeOK
  <2>3. GentleRow(s)
    BY <1>1, <1>3, <2>1 DEF TypeOK, GentleRow
  <2>. QED BY <1>1, <1>2, <2>2, <2>3, WritesRow
<1>5. CASE Finish(s)
  BY <1>1, <1>4, <1>5, FinishMoves DEF Sound
<1>6. CASE Goto(s, "dlSigning")
  <2>1. /\ call' \in Calls /\ OthersWait(s) /\ Admits(s)
        /\ call'[s].pc = "dlSigning" /\ call'[s].did = call[s].did
    BY <1>1, <1>6, GotoMoves DEF Labels
  <2>2. Facts(s)'
    BY <1>1, <2>1
       DEF Facts, Prepared, Reserved, Deletion, Creation, Exclusive, Creating
  <2>. QED BY <1>4, <2>1, <2>2 DEF Sound
<1>. QED BY <1>5, <1>6

LEMMA DeleteSigningSound ==
    ASSUME Inv, NEW s \in Procs, DeleteSigning(s)
    PROVE  Sound(s)
<1>. USE DEF DeleteSigning, Unseal
<1>1. TypeOK /\ Facts(s) /\ call[s].pc = "dlSigning" /\ call[s].did \in DIDs
  BY AtHand
<1>2. faults' \in 0..MaxFaults
  BY <1>1, FaultsBounded
<1>3. vault' \subseteq Secrets /\ GentleVault(s)
  BY <1>1, Unsealing
<1>. QED BY <1>1, <1>2, <1>3, FinishMoves, WritesVault DEF Sound

-----------------------------------------------------------------------------
(***************************************************************************)
(* A service key.                                                          *)
(***************************************************************************)
LEMMA LoadIssuerSound ==
    ASSUME Inv, NEW s \in Procs, LoadIssuer(s)
    PROVE  Sound(s)
<1>. USE DEF LoadIssuer
<1>1. /\ TypeOK /\ Facts(s) /\ call[s].pc = "ckIssuer" /\ call[s].did \in DIDs
      /\ faults' \in 0..MaxFaults
  BY AtHand, FaultsBounded
<1>2. CASE Finish(s)
  BY <1>1, <1>2, FinishMoves, TablesAlone DEF Sound
<1>3. CASE Goto(s, "ckSecret")
  <2>1. /\ call' \in Calls /\ OthersWait(s) /\ Admits(s)
        /\ call'[s].pc = "ckSecret" /\ call'[s].did = call[s].did
    BY <1>1, <1>3, GotoMoves DEF Labels
  <2>2. Facts(s)'
    BY <1>1, <2>1
       DEF Facts, Prepared, Reserved, Deletion, Creation, Exclusive, Creating, tables
  <2>. QED BY <1>1, <2>1, <2>2, TablesAlone DEF Sound
<1>. QED BY <1>2, <1>3

LEMMA SealKeySound ==
    ASSUME Inv, NEW s \in Procs, SealKey(s)
    PROVE  Sound(s)
<1>1. /\ TypeOK /\ Facts(s) /\ Tables /\ call[s].pc = "ckSecret" /\ call[s].did \in DIDs
      /\ ext[call[s].did] # None
  BY AtHand DEF SealKey, Inv, Facts, Reserved
<1>2. faults' \in 0..MaxFaults
  BY <1>1, FaultsBounded DEF SealKey
<1>3. PICK k \in Keys :
        /\ tenantOf[k] = None
        /\ tenantOf' = [tenantOf EXCEPT ![k] = call[s].did]
        /\ vault' = vault \cup {Secret(k)} \/ vault' = vault
        /\ call' = [call EXCEPT ![s].pc = "ckAdd", ![s].item = k] \/ Finish(s)
  BY DEF SealKey
<1>4. UNCHANGED <<row, ext, plc, wrapRow, upload, principals, rows, delegated, revoked, answered>>
  BY DEF SealKey
<1>5. k \in Items /\ "ckAdd" \in Labels /\ k \notin rows \cup answered
  BY <1>1, <1>3, IdsDiffer DEF Tables, Items, Labels
<1>6. /\ tenantOf' \in [Items -> DIDs \cup {None}]
      /\ tenantOf'[k] = call[s].did
      /\ \A i \in Items : tenantOf[i] # None => tenantOf'[i] = tenantOf[i]
  BY <1>1, <1>3, <1>5 DEF TypeOK
<1>7. call' \in Calls => TypeOK'
  BY <1>1, <1>2, <1>3, <1>4, <1>6 DEF TypeOK, Calls, Secrets
<1>8. Gentle(s)
  BY <1>1, <1>3, <1>4, <1>6
     DEF TypeOK, Gentle, GentleRow, GentlePlc, GentleVault, GentleWrapRow, GentleReferences,
         GentleGrants, GentleAnswers, GentleIds
<1>9. CASE Finish(s)
  BY <1>1, <1>7, <1>8, <1>9, FinishMoves DEF Sound
<1>10. CASE call' = [call EXCEPT ![s].pc = "ckAdd", ![s].item = k]
  <2>1. /\ call' \in Calls /\ OthersWait(s)
        /\ call'[s].pc = "ckAdd" /\ call'[s].did = call[s].did /\ call'[s].item = k
    BY <1>1, <1>5, <1>10, TakeItemMoves, ZenonT(60)
  <2>2. Facts(s)'
    BY <1>1, <1>4, <1>5, <1>6, <2>1
       DEF Facts, Prepared, Reserved, Deletion, Creation, Exclusive, Creating
  <2>3. Admits(s)
    BY <1>1, <1>3, <1>5, <2>1 DEF Admits, Exclusive
  <2>. QED BY <1>7, <1>8, <2>1, <2>2, <2>3 DEF Sound
<1>. QED BY <1>3, <1>9, <1>10

LEMMA AddKeySound ==
    ASSUME Inv, NEW s \in Procs, AddKey(s)
    PROVE  Sound(s)
<1>. USE DEF AddKey
<1>1. /\ TypeOK /\ Facts(s) /\ call[s].pc = "ckAdd" /\ call[s].did \in DIDs
      /\ call[s].item \in Items /\ tenantOf[call[s].item] = call[s].did
  BY AtHand DEF Facts, Creation, Creating
<1>2. faults' \in 0..MaxFaults
  BY <1>1, FaultsBounded
<1>3. rows' = rows \/ (rows' = rows \cup {call[s].item} /\ row[call[s].did] # "none")
  OBVIOUS
<1>4. call' \in Calls => TypeOK' /\ Gentle(s)
  <2>1. rows' \subseteq Items /\ principals' \subseteq DIDs /\ GentleReferences(s)
    BY <1>1, <1>3 DEF TypeOK, GentleReferences
  <2>. QED BY <1>1, <1>2, <2>1, WritesReferences
<1>5. ASSUME NEW l \in {"ckStore", "rbGrants"}, Goto(s, l)
      PROVE  Sound(s)
  <2>1. /\ call' \in Calls /\ OthersWait(s) /\ Admits(s)
        /\ call'[s].pc = l /\ call'[s].did = call[s].did /\ call'[s].item = call[s].item
    BY <1>1, <1>5, GotoMoves DEF Labels, Creating
  <2>2. Facts(s)'
    BY <1>1, <2>1
       DEF Facts, Prepared, Reserved, Deletion, Creation, Exclusive, Creating
  <2>. QED BY <1>4, <2>1, <2>2 DEF Sound
<1>. QED BY <1>5

LEMMA StoreGrantsSound ==
    ASSUME Inv, NEW s \in Procs, StoreGrants(s)
    PROVE  Sound(s)
<1>. USE DEF StoreGrants
<1>1. /\ TypeOK /\ Facts(s) /\ call[s].pc = "ckStore" /\ call[s].did \in DIDs
      /\ call[s].item \in Items
  BY AtHand DEF Creating
<1>2. faults' \in 0..MaxFaults
  BY <1>1, FaultsBounded
<1>3. call' \in Calls => TypeOK' /\ Gentle(s)
  <2>1. delegated' \subseteq Items /\ GentleGrants(s)
    BY <1>1 DEF TypeOK, GentleGrants
  <2>2. revoked' = revoked /\ revoked \subseteq Keys
    BY <1>1 DEF TypeOK
  <2>. QED BY <1>1, <1>2, <2>1, <2>2, WritesGrants
<1>4. ASSUME NEW l \in {"ckGet", "rbGrants"}, Goto(s, l),
             l = "ckGet" => call[s].item \in delegated'
      PROVE  Sound(s)
  <2>1. /\ call' \in Calls /\ OthersWait(s) /\ Admits(s)
        /\ call'[s].pc = l /\ call'[s].did = call[s].did /\ call'[s].item = call[s].item
    BY <1>1, <1>4, GotoMoves DEF Labels, Creating
  <2>2. Facts(s)'
    BY <1>1, <1>4, <2>1
       DEF Facts, Prepared, Reserved, Deletion, Creation, Exclusive, Creating
  <2>. QED BY <1>3, <2>1, <2>2 DEF Sound
<1>. QED BY <1>4

LEMMA ReturnKeySound ==
    ASSUME Inv, NEW s \in Procs, ReturnKey(s)
    PROVE  Sound(s)
<1>. USE DEF ReturnKey
<1>1. /\ TypeOK /\ Facts(s) /\ call[s].pc = "ckGet" /\ call[s].did \in DIDs
      /\ Creating(s) /\ call[s].item \in Items /\ faults' \in 0..MaxFaults
  BY AtHand, FaultsBounded DEF Creating
<1>2. CASE Finish(s) /\ answered' = answered \cup {call[s].item}
  <2>1. Kept(call[s].item)
    BY <1>1 DEF Facts, Creation, Kept
  <2>. QED BY <1>1, <1>2, <2>1, FinishMoves, WritesAnswer DEF Sound
<1>3. CASE Goto(s, "rbGrants") /\ UNCHANGED answered
  <2>1. /\ call' \in Calls /\ OthersWait(s) /\ Admits(s)
        /\ call'[s].pc = "rbGrants" /\ call'[s].did = call[s].did
        /\ call'[s].item = call[s].item
    BY <1>1, <1>3, GotoMoves DEF Labels
  <2>2. Facts(s)'
    BY <1>1, <1>3, <2>1
       DEF Facts, Prepared, Reserved, Deletion, Creation, Exclusive, Creating
  <2>. QED BY <1>1, <1>3, <2>1, <2>2, TablesAlone DEF Sound, tables
<1>. QED BY <1>2, <1>3

LEMMA RollbackGrantsSound ==
    ASSUME Inv, NEW s \in Procs, RollbackGrants(s)
    PROVE  Sound(s)
<1>. USE DEF RollbackGrants
<1>1. /\ TypeOK /\ Facts(s) /\ call[s].pc = "rbGrants" /\ call[s].did \in DIDs
      /\ Creating(s)
  BY AtHand DEF Creating
<1>2. faults' \in 0..MaxFaults
  BY <1>1, FaultsBounded
<1>3. delegated' \subseteq Items /\ GentleGrants(s)
  BY <1>1 DEF TypeOK, GentleGrants
<1>4. revoked' = revoked /\ revoked \subseteq Keys
  BY <1>1 DEF TypeOK
<1>5. /\ call' \in Calls /\ OthersWait(s) /\ Admits(s)
      /\ call'[s].pc = "rbRow" /\ call'[s].did = call[s].did /\ call'[s].item = call[s].item
  BY <1>1, GotoMoves DEF Labels
<1>6. Facts(s)'
  BY <1>1, <1>5
     DEF Facts, Prepared, Reserved, Deletion, Creation, Exclusive, Creating
<1>. QED BY <1>1, <1>2, <1>3, <1>4, <1>5, <1>6, WritesGrants DEF Sound

LEMMA RollbackRowSound ==
    ASSUME Inv, NEW s \in Procs, RollbackRow(s)
    PROVE  Sound(s)
<1>. USE DEF RollbackRow
<1>1. /\ TypeOK /\ Facts(s) /\ call[s].pc = "rbRow" /\ call[s].did \in DIDs
      /\ Creating(s)
  BY AtHand DEF Creating
<1>2. faults' \in 0..MaxFaults
  BY <1>1, FaultsBounded
<1>3. rows' \subseteq Items /\ principals' \subseteq DIDs /\ GentleReferences(s)
  BY <1>1 DEF TypeOK, GentleReferences
<1>4. /\ call' \in Calls /\ OthersWait(s) /\ Admits(s)
      /\ call'[s].pc = "rbSecret" /\ call'[s].did = call[s].did /\ call'[s].item = call[s].item
  BY <1>1, GotoMoves DEF Labels
<1>5. Facts(s)'
  BY <1>1, <1>4
     DEF Facts, Prepared, Reserved, Deletion, Creation, Exclusive, Creating
<1>. QED BY <1>1, <1>2, <1>3, <1>4, <1>5, WritesReferences DEF Sound

LEMMA RollbackSecretSound ==
    ASSUME Inv, NEW s \in Procs, RollbackSecret(s)
    PROVE  Sound(s)
<1>. USE DEF RollbackSecret, Unseal
<1>1. TypeOK /\ Facts(s) /\ call[s].pc = "rbSecret"
  BY AtHand
<1>2. faults' \in 0..MaxFaults
  BY <1>1, FaultsBounded
<1>3. vault' \subseteq Secrets /\ GentleVault(s)
  BY <1>1, Unsealing
<1>. QED BY <1>1, <1>2, <1>3, FinishMoves, WritesVault DEF Sound

-----------------------------------------------------------------------------
(***************************************************************************)
(* A bucket, and a principal.                                              *)
(***************************************************************************)
LEMMA BeginCreateBucketSound ==
    ASSUME Inv, NEW s \in Procs, BeginCreateBucket(s)
    PROVE  Sound(s)
<1>1. PICK k \in answered \cap rows \cap Keys, b \in Buckets :
        /\ row[tenantOf[k]] \in {"active", "write-locked"}
        /\ tenantOf[b] = None
        /\ tenantOf' = [tenantOf EXCEPT ![b] = tenantOf[k]]
        /\ Start(s, [Idle EXCEPT !.pc = "cbAdd", !.did = tenantOf[k], !.item = b, !.shown = {k}])
  BY DEF BeginCreateBucket
<1>. DEFINE d == tenantOf[k]
            c == [Idle EXCEPT !.pc = "cbAdd", !.did = d, !.item = b, !.shown = {k}]
<1>2. /\ UNCHANGED <<row, ext, plc, vault, wrapRow, upload, principals, rows, delegated,
                     revoked, answered>>
      /\ TypeOK /\ Tables /\ faults' \in 0..MaxFaults
  BY AtHand, FaultsBounded DEF BeginCreateBucket, Inv
<1>3. d \in DIDs /\ ext[d] # None /\ row[d] # "none"
  BY <1>1, <1>2 DEF Tables
<1>4. b \in Items /\ b \notin rows \cup answered
  BY <1>1, <1>2, IdsDiffer DEF Tables, Items
<1>5. c \in CallRecords /\ c.pc = "cbAdd" /\ c.did = d /\ c.item = b
  BY <1>3, <1>4 DEF Idle, CallRecords, Labels, Statuses
<1>6. /\ tenantOf' \in [Items -> DIDs \cup {None}]
      /\ tenantOf'[b] = d
      /\ \A i \in Items : tenantOf[i] # None => tenantOf'[i] = tenantOf[i]
  BY <1>1, <1>2, <1>3, <1>4 DEF TypeOK
<1>7. Start(s, c)
  BY <1>1
<1>. HIDE DEF c, d
<1>8. call' \in Calls /\ OthersWait(s) /\ call'[s] = c
  BY <1>2, <1>5, <1>7, StartMoves
<1>9. TypeOK'
  BY <1>2, <1>6, <1>8 DEF TypeOK, Calls
<1>10. Gentle(s)
  BY <1>2, <1>6
     DEF TypeOK, Gentle, GentleRow, GentlePlc, GentleVault, GentleWrapRow, GentleReferences,
         GentleGrants, GentleAnswers, GentleIds
<1>11. Facts(s)'
  BY <1>2, <1>3, <1>4, <1>5, <1>6, <1>8
     DEF Facts, Prepared, Reserved, Deletion, Creation, Exclusive, Creating
<1>12. Admits(s)
  BY <1>1, <1>3, <1>4, <1>5, <1>8 DEF Admits, Exclusive
<1>. QED BY <1>8, <1>9, <1>10, <1>11, <1>12 DEF Sound

LEMMA AddBucketSound ==
    ASSUME Inv, NEW s \in Procs, AddBucket(s)
    PROVE  Sound(s)
<1>. USE DEF AddBucket
<1>1. /\ TypeOK /\ Facts(s) /\ call[s].pc = "cbAdd" /\ call[s].did \in DIDs
      /\ call[s].item \in Items /\ tenantOf[call[s].item] = call[s].did
  BY AtHand DEF Facts, Creation, Creating
<1>2. faults' \in 0..MaxFaults
  BY <1>1, FaultsBounded
<1>3. rows' = rows \/ (rows' = rows \cup {call[s].item} /\ row[call[s].did] # "none")
  OBVIOUS
<1>4. call' \in Calls => TypeOK' /\ Gentle(s)
  <2>1. rows' \subseteq Items /\ principals' \subseteq DIDs /\ GentleReferences(s)
    BY <1>1, <1>3 DEF TypeOK, GentleReferences
  <2>. QED BY <1>1, <1>2, <2>1, WritesReferences
<1>5. CASE Finish(s)
  BY <1>1, <1>4, <1>5, FinishMoves DEF Sound
<1>6. CASE Goto(s, "cbRoot")
  <2>1. /\ call' \in Calls /\ OthersWait(s) /\ Admits(s)
        /\ call'[s].pc = "cbRoot" /\ call'[s].did = call[s].did /\ call'[s].item = call[s].item
    BY <1>1, <1>6, GotoMoves DEF Labels, Creating
  <2>2. Facts(s)'
    BY <1>1, <2>1
       DEF Facts, Prepared, Reserved, Deletion, Creation, Exclusive, Creating
  <2>. QED BY <1>4, <2>1, <2>2 DEF Sound
<1>. QED BY <1>5, <1>6

LEMMA PutRootSound ==
    ASSUME Inv, NEW s \in Procs, PutRoot(s)
    PROVE  Sound(s)
<1>. USE DEF PutRoot
<1>1. /\ TypeOK /\ Facts(s) /\ call[s].pc = "cbRoot" /\ call[s].did \in DIDs
      /\ call[s].item \in Items
  BY AtHand DEF Creating
<1>2. faults' \in 0..MaxFaults
  BY <1>1, FaultsBounded
<1>3. call' \in Calls => TypeOK' /\ Gentle(s)
  <2>1. delegated' \subseteq Items /\ GentleGrants(s)
    BY <1>1 DEF TypeOK, GentleGrants
  <2>2. revoked' = revoked /\ revoked \subseteq Keys
    BY <1>1 DEF TypeOK
  <2>. QED BY <1>1, <1>2, <2>1, <2>2, WritesGrants
<1>4. ASSUME NEW l \in {"cbIssuer", "cbRollback"}, Goto(s, l),
             l = "cbIssuer" => call[s].item \in delegated'
      PROVE  Sound(s)
  <2>1. /\ call' \in Calls /\ OthersWait(s) /\ Admits(s)
        /\ call'[s].pc = l /\ call'[s].did = call[s].did /\ call'[s].item = call[s].item
    BY <1>1, <1>4, GotoMoves DEF Labels, Creating
  <2>2. Facts(s)'
    BY <1>1, <1>4, <2>1
       DEF Facts, Prepared, Reserved, Deletion, Creation, Exclusive, Creating
  <2>. QED BY <1>3, <2>1, <2>2 DEF Sound
<1>. QED BY <1>4

\* Going on with a bucket and the tables as they are.
LEMMA BucketGoesOn ==
    ASSUME Inv, NEW s \in Procs, UNCHANGED tables, faults' \in 0..MaxFaults,
           \/ At(s, "cbIssuer") /\ (Goto(s, "cbSpace") \/ Goto(s, "cbRollback"))
           \/ At(s, "cbRoute") /\ (Goto(s, "cbReturn") \/ Goto(s, "cbRollback"))
           \/ At(s, "cbReturn") /\ Goto(s, "cbRollback")
    PROVE  Sound(s)
<1>1. /\ TypeOK /\ Facts(s) /\ call[s].did \in DIDs /\ Creating(s)
      /\ call[s].pc \in {"cbIssuer", "cbRoute", "cbReturn"}
  BY AtHand DEF Creating
<1>2. ASSUME NEW l \in {"cbSpace", "cbReturn", "cbRollback"}, Goto(s, l),
             l = "cbReturn" => call[s].pc = "cbRoute"
      PROVE  Sound(s)
  <2>1. /\ call' \in Calls /\ OthersWait(s) /\ Admits(s)
        /\ call'[s].pc = l /\ call'[s].did = call[s].did /\ call'[s].item = call[s].item
    BY <1>1, <1>2, GotoMoves DEF Labels
  <2>2. Facts(s)'
    BY <1>1, <1>2, <2>1
       DEF Facts, Prepared, Reserved, Deletion, Creation, Exclusive, Creating, tables
  <2>. QED BY <1>1, <2>1, <2>2, TablesAlone DEF Sound
<1>. QED BY <1>2

LEMMA LoadAccountSound ==
    ASSUME Inv, NEW s \in Procs, LoadAccount(s)
    PROVE  Sound(s)
<1>1. TypeOK /\ faults' \in 0..MaxFaults
  BY AtHand, FaultsBounded DEF LoadAccount
<1>. QED BY <1>1, BucketGoesOn DEF LoadAccount

LEMMA ProvisionSpaceSound ==
    ASSUME Inv, NEW s \in Procs, ProvisionSpace(s)
    PROVE  Sound(s)
<1>. USE DEF ProvisionSpace
<1>1. /\ TypeOK /\ Facts(s) /\ call[s].pc = "cbSpace" /\ call[s].did \in DIDs
      /\ Creating(s) /\ call[s].item \in Buckets
  BY AtHand DEF Creating, Facts, Creation
<1>2. faults' \in 0..MaxFaults
  BY <1>1, FaultsBounded
<1>3. upload \subseteq upload' /\ upload' \subseteq DIDs \cup Buckets
  BY <1>1 DEF TypeOK
<1>4. call' \in Calls => TypeOK' /\ Gentle(s)
  BY <1>1, <1>2, <1>3, WritesUpload
<1>5. ASSUME NEW l \in {"cbRoute", "cbRollback"}, Goto(s, l),
             l = "cbRoute" => call[s].item \in upload'
      PROVE  Sound(s)
  <2>1. /\ call' \in Calls /\ OthersWait(s) /\ Admits(s)
        /\ call'[s].pc = l /\ call'[s].did = call[s].did /\ call'[s].item = call[s].item
    BY <1>1, <1>5, GotoMoves DEF Labels
  <2>2. Facts(s)'
    BY <1>1, <1>5, <2>1
       DEF Facts, Prepared, Reserved, Deletion, Creation, Exclusive, Creating
  <2>. QED BY <1>4, <2>1, <2>2 DEF Sound
<1>. QED BY <1>5

LEMMA UseRoutingPolicySound ==
    ASSUME Inv, NEW s \in Procs, UseRoutingPolicy(s)
    PROVE  Sound(s)
<1>1. TypeOK /\ faults' \in 0..MaxFaults
  BY AtHand, FaultsBounded DEF UseRoutingPolicy
<1>. QED BY <1>1, BucketGoesOn DEF UseRoutingPolicy

LEMMA ReturnBucketSound ==
    ASSUME Inv, NEW s \in Procs, ReturnBucket(s)
    PROVE  Sound(s)
<1>. USE DEF ReturnBucket
<1>1. /\ TypeOK /\ Facts(s) /\ call[s].pc = "cbReturn" /\ call[s].did \in DIDs
      /\ Creating(s) /\ call[s].item \in Items /\ faults' \in 0..MaxFaults
  BY AtHand, FaultsBounded DEF Creating
<1>2. CASE Finish(s) /\ answered' = answered \cup {call[s].item}
  <2>1. Kept(call[s].item)
    BY <1>1, IdsDiffer DEF Facts, Creation, Creating, Kept
  <2>. QED BY <1>1, <1>2, <2>1, FinishMoves, WritesAnswer DEF Sound
<1>3. CASE Goto(s, "cbRollback") /\ UNCHANGED answered
  BY <1>1, <1>3, BucketGoesOn DEF tables
<1>. QED BY <1>2, <1>3

LEMMA RollbackBucketSound ==
    ASSUME Inv, NEW s \in Procs, RollbackBucket(s)
    PROVE  Sound(s)
<1>. USE DEF RollbackBucket
<1>1. TypeOK
  BY AtHand
<1>2. faults' \in 0..MaxFaults
  BY <1>1, FaultsBounded
<1>3. rows' \subseteq Items /\ principals' \subseteq DIDs /\ GentleReferences(s)
  BY <1>1 DEF TypeOK, GentleReferences
<1>. QED BY <1>1, <1>2, <1>3, FinishMoves, WritesReferences DEF Sound

LEMMA AddPrincipalSound ==
    ASSUME Inv, NEW s \in Procs, AddPrincipal(s)
    PROVE  Sound(s)
<1>. USE DEF AddPrincipal
<1>1. TypeOK /\ call[s].pc = "cpAdd" /\ call[s].did \in DIDs
  BY AtHand
<1>2. faults' \in 0..MaxFaults
  BY <1>1, FaultsBounded
<1>3. rows' \subseteq Items /\ principals' \subseteq DIDs /\ GentleReferences(s)
  BY <1>1 DEF TypeOK, GentleReferences
<1>. QED BY <1>1, <1>2, <1>3, FinishMoves, WritesReferences DEF Sound

-----------------------------------------------------------------------------
(***************************************************************************)
(* Reads that fail, and crashes.                                           *)
(***************************************************************************)
LEMMA ReadFailsSound ==
    ASSUME Inv, NEW s \in Procs, ReadFails(s)
    PROVE  Sound(s)
<1>1. TypeOK /\ Facts(s) /\ faults' \in 0..MaxFaults /\ UNCHANGED tables
  BY AtHand, FaultsBounded DEF ReadFails
<1>2. CASE Finish(s)
  BY <1>1, <1>2, FinishMoves, TablesAlone DEF Sound
<1>3. CASE At(s, "ckGet") /\ Goto(s, "rbGrants")
  <2>1. /\ call' \in Calls /\ OthersWait(s) /\ Admits(s)
        /\ call'[s].pc = "rbGrants" /\ call'[s].did = call[s].did
        /\ call'[s].item = call[s].item
    BY <1>1, <1>3, GotoMoves DEF Labels, Creating
  <2>2. Facts(s)'
    BY <1>1, <1>3, <2>1
       DEF Facts, Prepared, Reserved, Deletion, Creation, Exclusive, Creating, tables
  <2>. QED BY <1>1, <2>1, <2>2, TablesAlone DEF Sound
<1>4. CASE call[s].pc \in {"cbIssuer", "cbReturn"} /\ Goto(s, "cbRollback")
  BY <1>1, <1>4, BucketGoesOn
<1>. QED BY <1>2, <1>3, <1>4 DEF ReadFails

LEMMA CrashSound ==
    ASSUME Inv, NEW s \in Procs, Crash(s)
    PROVE  Sound(s)
<1>1. TypeOK /\ faults' \in 0..MaxFaults
  BY AtHand, FaultsBounded DEF Crash
<1>. QED BY <1>1, FinishMoves, TablesAlone DEF Crash, Sound

-----------------------------------------------------------------------------
(***************************************************************************)
(* The inductive invariant, and the theorems.                              *)
(***************************************************************************)
LEMMA StepSound ==
    ASSUME Inv, NEW s \in Procs, Step(s) \/ ReadFails(s) \/ Crash(s)
    PROVE  Sound(s)
<1>1. CASE TenantStep(s)
  BY <1>1, BeginProvisionSound, SealSigningSound, SealWrappingSound, PublishGenesisSound,
     RegisterCustomerSound, AddWrapKeySound, AddTenantSound, ReadBackSound, CleanWrapRowSound,
     CleanWrappingSound, CleanSigningSound, BeginSetStatusSound, SetStatusSound,
     BeginDeleteSound, DeleteListKeysSound, DeleteLastSound, RevokeKeyDelegationsSound,
     DeactivateDIDSound, DeleteKeyGrantsSound, DeleteKeySecretSound, DeleteKeyRowSound,
     DeletePrincipalsSound, DeleteWrappingSound, DeleteWrapRowSound, DeleteListBucketsSound,
     DeleteNextBucketSound, DeleteRootsSound, DeleteTenantRowSound, DeleteSigningSound, Zenon
     DEF TenantStep
<1>2. CASE ContentsStep(s)
  BY <1>2, BeginCreateKeySound, LoadIssuerSound, SealKeySound, AddKeySound, StoreGrantsSound,
     ReturnKeySound, RollbackGrantsSound, RollbackRowSound, RollbackSecretSound,
     BeginCreateBucketSound, AddBucketSound, PutRootSound, LoadAccountSound,
     ProvisionSpaceSound, UseRoutingPolicySound, ReturnBucketSound, RollbackBucketSound,
     BeginCreatePrincipalSound, AddPrincipalSound, Zenon
     DEF ContentsStep
<1>. QED BY <1>1, <1>2, ReadFailsSound, CrashSound DEF Step

LEMMA InitInv == Init => Inv
<1>. SUFFICES ASSUME Init PROVE Inv
  OBVIOUS
<1>1. TypeOK
  BY IdleTyped, MaxFaultsTyped DEF Init, TypeOK
<1>2. \A s \in Procs : call[s].pc = "idle"
  BY DEF Init, Idle
<1>3. ASSUME NEW s \in Procs PROVE Facts(s)
  BY <1>2 DEF Facts, Prepared, Reserved, Deletion, Creation, Exclusive, Creating
<1>4. Apart
  BY <1>2 DEF Apart, Exclusive, Creating
<1>5. Tables
  BY DEF Init, Tables, NothingOutlivesTheRow, LiveTenantIsWhole
<1>. QED BY <1>1, <1>3, <1>4, <1>5 DEF Inv

LEMMA StutterInv == Inv /\ UNCHANGED vars => Inv'
BY DEF Inv, TypeOK, Facts, Prepared, Reserved, Deletion, Creation, Exclusive, Creating, Apart,
       Tables, Kept, NothingOutlivesTheRow, LiveTenantIsWhole, Of, vars, tables

LEMMA NextInv == Inv /\ [Next]_vars => Inv'
BY StepSound, SoundKeeps, StutterInv DEF Next

THEOREM Invariance == Spec => []Inv
BY InitInv, NextInv, PTL DEF Spec

\* The tables, the outside services and the requests hold what they may hold.
THEOREM TypeCorrect == Spec => []TypeOK
<1>1. Inv => TypeOK
  BY DEF Inv
<1>. QED BY <1>1, Invariance, PTL

\* Where no answer of the database is lost, a tenant row stands for all that Provision
\* made before it, until its deletion has deactivated the DID: cleanups only take back
\* what no row stands for, and a deletion takes nothing before the tombstone.
THEOREM LiveTenantsAreWhole == "sql" \notin Faults => (Spec => []LiveTenantIsWhole)
<1>. SUFFICES ASSUME "sql" \notin Faults PROVE Spec => []LiveTenantIsWhole
  OBVIOUS
<1>1. Inv => LiveTenantIsWhole
  BY DEF Inv, Tables
<1>. QED BY <1>1, Invariance, PTL

\* Once a deletion has taken the row, no wrap key row, principal, key or bucket is left
\* or comes back.
THEOREM RowGoesLast == Spec => []NothingOutlivesTheRow
<1>1. Inv => NothingOutlivesTheRow
  BY DEF Inv, Tables
<1>. QED BY <1>1, Invariance, PTL

\* A bucket its creator was told of has its root stored and its space provisioned, as
\* long as the tenant's DID is live.
THEOREM CreatedBucketsAreReachable == Spec => []CreatedBucketIsReachable
<1>1. Inv => CreatedBucketIsReachable
  BY IdsDiffer DEF Inv, Tables, Kept, CreatedBucketIsReachable
<1>. QED BY <1>1, Invariance, PTL

\* The tombstone is published only after the keys the deletion found in callers' hands
\* are revoked: what a deletion at its tombstone knows is in its Facts.
THEOREM DeactivatedAfterRevoking == Spec => RevokedWhileVerifiable
<1>. DEFINE Verified == \A s \in Procs :
              At(s, "dlTomb") /\ plc'[didOf(s)] # plc[didOf(s)] => call[s].shown \subseteq revoked
<1>1. Inv /\ [Next]_vars => Verified
  <2>. SUFFICES ASSUME Inv, [Next]_vars, NEW s \in Procs, At(s, "dlTomb"),
                       plc'[call[s].did] # plc[call[s].did]
                PROVE  call[s].shown \subseteq revoked
    OBVIOUS
  <2>1. Facts(s) /\ call[s].did \in DIDs
    BY AtHand
  <2>. DEFINE d == call[s].did
  <2>2. plc' # plc /\ Next
    BY DEF vars, tables
  <2>3. PICK t \in Procs : Step(t) \/ ReadFails(t) \/ Crash(t)
    BY <2>2 DEF Next
  <2>4. Gentle(t)
    BY <2>3, StepSound DEF Sound
  <2>. HIDE DEF d
  <2>5. plc[d] = "deactivated" => plc'[d] = "deactivated"
    BY <2>1, <2>4, GoneStays DEF d
  <2>. QED BY <2>1, <2>5 DEF Facts, Deletion, d
<1>. QED BY <1>1, Invariance, PTL DEF RevokedWhileVerifiable, Spec
=====
