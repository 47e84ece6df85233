--------------------------- MODULE SnapshotProofs ---------------------------
(***************************************************************************)
(* Theorems about SnapshotReplication for any number of snapshots, inputs  *)
(* and baselines, and any entities and values.                             *)
(***************************************************************************)
EXTENDS SnapshotReplication, FiniteSetTheorems, WellFoundedInduction, TLAPS

-----------------------------------------------------------------------------
(* Deltas. *)

LEMMA ViewDomain ==
  ASSUME NEW v \in Views
  PROVE  /\ DOMAIN v \subseteq Entities
         /\ v \in [DOMAIN v -> Values]
BY DEF Views

LEMMA RestrictedView ==
  ASSUME NEW v \in Views, NEW S \in SUBSET DOMAIN v
  PROVE  Restrict(v, S) \in Views
<1>1. Restrict(v, S) \in [S -> Values]  BY ViewDomain DEF Restrict
<1>2. S \in SUBSET Entities  BY ViewDomain
<1> QED  BY <1>1, <1>2 DEF Views

LEMMA DeltaType ==
  ASSUME NEW base \in Views, NEW current \in Views
  PROVE  BuildDelta(base, current) \in Deltas
<1>1. DOMAIN base \ DOMAIN current \in SUBSET Entities  BY ViewDomain
<1>2. Restrict(current, DOMAIN current \ DOMAIN base) \in Views
  BY RestrictedView
<1>3. Restrict(current, {e \in DOMAIN current \cap DOMAIN base :
                           current[e] # base[e]}) \in Views
  <2> DEFINE S == {e \in DOMAIN current \cap DOMAIN base : current[e] # base[e]}
  <2>1. S \in SUBSET DOMAIN current  OBVIOUS
  <2> HIDE DEF S
  <2> QED  BY <2>1, RestrictedView DEF S
<1> QED  BY <1>1, <1>2, <1>3 DEF BuildDelta, Deltas

\* A delta applied to the view it was built against fits it and gives the view
\* it was built for.
LEMMA DeltaRoundTrip ==
  ASSUME NEW base \in Views, NEW current \in Views
  PROVE  /\ Fits(base, BuildDelta(base, current))
         /\ ApplyDelta(base, BuildDelta(base, current)) = current
<1> DEFINE delta == BuildDelta(base, current)
           result == ApplyDelta(base, delta)
<1>1. /\ delta.removed = DOMAIN base \ DOMAIN current
      /\ DOMAIN delta.entered = DOMAIN current \ DOMAIN base
      /\ DOMAIN delta.changed = {e \in DOMAIN current \cap DOMAIN base :
                                   current[e] # base[e]}
      /\ \A e \in DOMAIN delta.entered : delta.entered[e] = current[e]
      /\ \A e \in DOMAIN delta.changed : delta.changed[e] = current[e]
  BY DEF BuildDelta, Restrict
<1> HIDE DEF delta
<1>2. Fits(base, delta)  BY <1>1 DEF Fits
<1>3. DOMAIN result = DOMAIN current  BY <1>1 DEF ApplyDelta
<1>4. ASSUME NEW e \in DOMAIN current PROVE result[e] = current[e]
  BY <1>1, <1>4 DEF ApplyDelta
<1>5. result = [e \in DOMAIN result |-> result[e]]  BY DEF ApplyDelta
<1>6. current = [e \in DOMAIN current |-> current[e]]  BY ViewDomain
<1> QED  BY <1>2, <1>3, <1>4, <1>5, <1>6 DEF delta

-----------------------------------------------------------------------------
(* The inductive invariant. *)

\* TypeOK without the capacities of the two sides' baselines.
Types ==
  /\ recipient \in Recipients
  /\ acknowledgedInput \in 0..MaxInput
  /\ refused \in BOOLEAN
  /\ shown \in [1..recipient.issued -> Views]
  /\ sent \in [1..recipient.issued -> Payloads]
  /\ inputs \in SUBSET Inputs
  /\ assembly \in Assemblies
  /\ stream \in Streams
  /\ keyframeRequested \in BOOLEAN
  /\ remembered \in SUBSET Entities
  /\ state \in {"Synchronizing", "Running", "ProtocolError"}
  /\ inputSequence \in 0..MaxInput

\* Baselines are views that were shown.
Remembers(baselines) ==
  \A i \in DOMAIN baselines : i \in 1..recipient.issued /\ baselines[i] = shown[i]

\* A payload carries the view shown in its snapshot, a delta relative to an
\* earlier one.
Carries(payload, id) ==
  IF IsKeyframe(payload) THEN payload.view = shown[id]
  ELSE /\ payload.base \in 1..(id - 1)
       /\ payload.delta = BuildDelta(shown[payload.base], shown[id])

\* No account of what was sent, seen, applied or acknowledged runs ahead of
\* the one it is taken from.
InOrder ==
  /\ recipient.ordinal = recipient.issued
  /\ assembly.highest <= recipient.issued
  /\ stream.highestSeen <= assembly.highest
  /\ stream.acknowledged <= stream.highestSeen
  /\ \A i \in DOMAIN stream.baselines : i <= stream.acknowledged
  /\ \A input \in inputs : input.acknowledged <= stream.acknowledged
  /\ recipient.acknowledged <= stream.acknowledged
  /\ state = "Running" => stream.acknowledged # 0

ReplicaInv ==
  /\ Types
  /\ \A i \in 1..recipient.issued : Carries(sent[i], i)
  /\ Remembers(recipient.baselines)
  /\ Remembers(stream.baselines)
  /\ InOrder
  /\ AcknowledgedIsHeld
  /\ ~refused
  /\ DeltasFit

LEMMA Bounds ==
  /\ MaxSnapshot \in Nat /\ MaxInput \in Nat
  /\ ServerBaselines \in Nat \ {0} /\ ClientBaselines \in Nat \ {0}
BY ReplicationAssumption

LEMMA NothingIsEmpty == DOMAIN Nothing = {} /\ Nothing \in [{} -> Views]
BY DEF Nothing

LEMMA BaselineType ==
  ASSUME NEW b \in Baselines
  PROVE  /\ DOMAIN b \subseteq Snapshots
         /\ \A i \in DOMAIN b : b[i] \in Views
BY DEF Baselines

LEMMA BaselinesFrom ==
  ASSUME NEW S \in SUBSET Snapshots, NEW b \in [S -> Views]
  PROVE  b \in Baselines
BY DEF Baselines

\* Min of a set of snapshots is in it.
LEMMA LeastSnapshot ==
  ASSUME NEW S \in SUBSET Snapshots, S # {}
  PROVE  Min(S) \in S /\ \A y \in S : Min(S) <= y
<1>1. S \in SUBSET Nat  BY Bounds DEF Snapshots
<1> DEFINE R == OpToRel(<, Nat)
<1>2. PICK m \in S : \A y \in S : ~(<<y, m>> \in R)
  <2> HIDE DEF R
  <2> IsWellFoundedOn(R, Nat)  BY NatLessThanWellFounded DEF R
  <2> QED  BY <1>1, WFMin
<1>3. ASSUME NEW y \in S PROVE m <= y
  <2>1. ~(y < m)  BY <1>1, <1>2 DEF OpToRel
  <2> QED  BY <1>1, <2>1
<1> QED  BY <1>3 DEF Min

LEMMA InitInv == Init => ReplicaInv
<1> SUFFICES ASSUME Init PROVE ReplicaInv  OBVIOUS
<1>1. Nothing \in Baselines  BY NothingIsEmpty, BaselinesFrom
<1>2. Types
  <2>1. recipient \in Recipients  BY <1>1, Bounds DEF Init, Recipients
  <2>2. shown \in [1..recipient.issued -> Views] /\ sent \in [1..recipient.issued -> Payloads]
    <3>1. 1..recipient.issued = {}  BY DEF Init
    <3> QED  BY <3>1 DEF Init, Nothing
  <2>3. assembly \in Assemblies /\ stream \in Streams
    BY <1>1, Bounds DEF Init, Assemblies, Streams
  <2>4. acknowledgedInput \in 0..MaxInput /\ inputSequence \in 0..MaxInput
    BY Bounds DEF Init
  <2>5. /\ refused \in BOOLEAN /\ keyframeRequested \in BOOLEAN
        /\ inputs \in SUBSET Inputs /\ remembered \in SUBSET Entities
        /\ state \in {"Synchronizing", "Running", "ProtocolError"}
    BY DEF Init
  <2> QED  BY <2>1, <2>2, <2>3, <2>4, <2>5 DEF Types
<1>3. DOMAIN recipient.baselines = {} /\ DOMAIN stream.baselines = {}
  BY NothingIsEmpty DEF Init
<1>4. \A i \in 1..recipient.issued : FALSE  BY DEF Init
<1> QED  BY <1>2, <1>3, <1>4 DEF Init, ReplicaInv, Remembers, InOrder, AcknowledgedIsHeld, DeltasFit

\* Storing a shown view among shown views, whatever is dropped for it.
LEMMA StoreKeepsType ==
  ASSUME NEW b \in Baselines, NEW id \in Snapshots, NEW v \in Views,
         NEW kept \in SUBSET (DOMAIN b \cup {id})
  PROVE  [i \in kept |-> IF i = id THEN v ELSE b[i]] \in Baselines
<1>1. kept \in SUBSET Snapshots  BY BaselineType
<1>2. [i \in kept |-> IF i = id THEN v ELSE b[i]] \in [kept -> Views]  BY BaselineType
<1> QED  BY <1>1, <1>2, BaselinesFrom

\* What StoreBaseline and Store give: the new view and views stored before.
Stores(before, after, id, view) ==
  /\ after \in Baselines
  /\ DOMAIN after \subseteq DOMAIN before \cup {id}
  /\ \A i \in DOMAIN after : after[i] = IF i = id THEN view ELSE before[i]

LEMMA StoreBaselineStores ==
  ASSUME NEW b \in Baselines, NEW a, NEW id \in Snapshots, NEW v \in Views
  PROVE  Stores(b, StoreBaseline(b, a, id, v), id, v)
<1> DEFINE ids == DOMAIN b \cup {id}
           kept == IF Cardinality(ids) > ServerBaselines THEN ids \ {Dropped(ids, a)} ELSE ids
<1>1. kept \in SUBSET (DOMAIN b \cup {id})  OBVIOUS
<1>2. StoreBaseline(b, a, id, v) = [i \in kept |-> IF i = id THEN v ELSE b[i]]
  BY DEF StoreBaseline
<1> HIDE DEF kept
<1> QED  BY <1>1, <1>2, StoreKeepsType DEF Stores

LEMMA StoreStores ==
  ASSUME NEW b \in Baselines, NEW id \in Snapshots, NEW v \in Views
  PROVE  Stores(b, Store(b, id, v), id, v)
<1> DEFINE ids == DOMAIN b \cup {id}
           kept == IF Cardinality(ids) > ClientBaselines THEN ids \ {Min(ids)} ELSE ids
<1>1. kept \in SUBSET (DOMAIN b \cup {id})  OBVIOUS
<1>2. Store(b, id, v) = [i \in kept |-> IF i = id THEN v ELSE b[i]]  BY DEF Store
<1> HIDE DEF kept
<1> QED  BY <1>1, <1>2, StoreKeepsType DEF Stores

\* A snapshot newer than all that are kept is kept.
LEMMA NewestIsStored ==
  ASSUME NEW b \in Baselines, NEW id \in Snapshots, NEW v,
         \A i \in DOMAIN b : i < id
  PROVE  id \in DOMAIN Store(b, id, v)
<1> DEFINE ids == DOMAIN b \cup {id}
<1> SUFFICES ASSUME Cardinality(ids) > ClientBaselines, Min(ids) = id PROVE FALSE
  BY DEF Store
<1>1. ids \in SUBSET Snapshots  BY BaselineType
<1>2. \A y \in ids : Min(ids) <= y  BY <1>1, LeastSnapshot
<1>3. \A y \in ids : id <= y  BY <1>2
<1>4. DOMAIN b = {}
  <2> SUFFICES ASSUME NEW i \in DOMAIN b PROVE FALSE  OBVIOUS
  <2>1. i \in Int /\ id \in Int  BY <1>1, Bounds DEF Snapshots
  <2> QED  BY <1>3, <2>1
<1>5. Cardinality(ids) = 1  BY <1>4, FS_Singleton
<1> QED  BY <1>5, Bounds

-----------------------------------------------------------------------------
(* The server's steps. *)

LEMMA PayloadType ==
  ASSUME ReplicaInv, NEW view \in Views
  PROVE  /\ PayloadFor(recipient, view) \in Payloads
         /\ IF IsKeyframe(PayloadFor(recipient, view))
            THEN PayloadFor(recipient, view).view = view
            ELSE /\ PayloadFor(recipient, view).base \in 1..recipient.issued
                 /\ PayloadFor(recipient, view).delta =
                      BuildDelta(shown[PayloadFor(recipient, view).base], view)
<1> DEFINE payload == PayloadFor(recipient, view)
<1>1. CASE NeedsKeyframe(recipient)
  <2>1. payload = [base |-> 0, view |-> view]  BY <1>1 DEF PayloadFor
  <2> QED  BY <2>1 DEF Payloads, IsKeyframe
<1>2. CASE ~NeedsKeyframe(recipient)
  <2> DEFINE a == recipient.acknowledged
  <2>1. payload = [base |-> a, delta |-> BuildDelta(recipient.baselines[a], view)]
    BY <1>2 DEF PayloadFor
  <2>2. a \in DOMAIN recipient.baselines  BY <1>2 DEF NeedsKeyframe
  <2>3. a \in 1..recipient.issued /\ recipient.baselines[a] = shown[a]
    BY <2>2 DEF ReplicaInv, Remembers
  <2>4. a \in Snapshots /\ recipient.baselines[a] \in Views
    BY <2>2, BaselineType DEF ReplicaInv, Types, Recipients
  <2>5. BuildDelta(recipient.baselines[a], view) \in Deltas  BY <2>4, DeltaType
  <2>6. a # 0  BY <2>4, Bounds DEF Snapshots
  <2> QED  BY <2>1, <2>3, <2>4, <2>5, <2>6 DEF Payloads, IsKeyframe
<1> QED  BY <1>1, <1>2

LEMMA BuildInv ==
  ASSUME ReplicaInv, NEW view \in Views, Build(view)
  PROVE  ReplicaInv'
<1> DEFINE id == recipient.issued + 1
           payload == PayloadFor(recipient, view)
<1>1. /\ recipient.issued \in Nat /\ id \in Snapshots
      /\ recipient.baselines \in Baselines
  BY Bounds DEF Build, ReplicaInv, Types, Recipients, Snapshots
<1>2. /\ recipient' = [recipient EXCEPT
           !.issued = id, !.ordinal = @ + 1,
           !.lastKeyframe = IF IsKeyframe(payload) THEN recipient.ordinal + 1 ELSE @,
           !.keyframeRequested = FALSE,
           !.baselines = StoreBaseline(@, recipient.acknowledged, id, view)]
      /\ shown' = [i \in 1..id |-> IF i = id THEN view ELSE shown[i]]
      /\ sent' = [i \in 1..id |-> IF i = id THEN payload ELSE sent[i]]
      /\ UNCHANGED <<acknowledgedInput, refused, client, inputs, inputSequence>>
  BY DEF Build
<1>3. /\ recipient'.issued = id
      /\ recipient'.ordinal = recipient.ordinal + 1
      /\ recipient'.acknowledged = recipient.acknowledged
      /\ recipient'.baselines = StoreBaseline(recipient.baselines, recipient.acknowledged, id, view)
      /\ recipient'.keyframeRequested = FALSE
      /\ recipient'.lastKeyframe \in {recipient.ordinal + 1, recipient.lastKeyframe}
  BY <1>2 DEF ReplicaInv, Types, Recipients
<1>4. Stores(recipient.baselines, recipient'.baselines, id, view)
  BY <1>1, <1>3, StoreBaselineStores
<1>5. Types'
  <2>1. recipient' \in Recipients
    <3>1. recipient.ordinal + 1 \in 0..MaxSnapshot  BY <1>1, Bounds DEF ReplicaInv, InOrder, Snapshots
    <3>2. id \in 0..MaxSnapshot  BY <1>1, Bounds DEF Snapshots
    <3> QED  BY <1>2, <1>3, <1>4, <3>1, <3>2 DEF ReplicaInv, Types, Recipients, Stores
  <2>2. shown' \in [1..recipient'.issued -> Views]
    BY <1>1, <1>2, <1>3 DEF ReplicaInv, Types
  <2>3. sent' \in [1..recipient'.issued -> Payloads]
    BY <1>1, <1>2, <1>3, PayloadType DEF ReplicaInv, Types
  <2> QED  BY <1>2, <2>1, <2>2, <2>3 DEF ReplicaInv, Types, client
<1>6. ASSUME NEW i \in 1..recipient'.issued PROVE Carries(sent[i], i)'
  <2>1. CASE i = id
    <3>1. sent'[i] = payload /\ shown'[i] = view  BY <1>1, <1>2, <2>1, <1>3
    <3>2. \A j \in 1..recipient.issued : shown'[j] = shown[j]  BY <1>1, <1>2
    <3> HIDE DEF payload
    <3>3. IF IsKeyframe(payload) THEN payload.view = view
          ELSE /\ payload.base \in 1..recipient.issued
               /\ payload.delta = BuildDelta(shown[payload.base], view)
      BY PayloadType DEF payload
    <3>4. id - 1 = recipient.issued  BY <1>1
    <3> QED  BY <2>1, <3>1, <3>2, <3>3, <3>4 DEF Carries, IsKeyframe
  <2>2. CASE i # id
    <3>1. i \in 1..recipient.issued  BY <1>1, <1>3, <2>2
    <3>2. sent'[i] = sent[i] /\ shown'[i] = shown[i]  BY <1>1, <1>2, <2>2, <3>1
    <3>3. Carries(sent[i], i)  BY <3>1 DEF ReplicaInv
    <3>4. ASSUME NEW j \in 1..(i - 1) PROVE shown'[j] = shown[j]
      BY <1>1, <1>2, <3>1
    <3> QED  BY <3>2, <3>3, <3>4 DEF Carries, IsKeyframe
  <2> QED  BY <2>1, <2>2
<1>7. ASSUME NEW i \in 1..recipient.issued PROVE i \in 1..recipient'.issued /\ shown'[i] = shown[i]
  BY <1>1, <1>2, <1>3
<1>8. Remembers(recipient.baselines)'
  <2>1. id \in 1..recipient'.issued /\ shown'[id] = view  BY <1>1, <1>2, <1>3
  <2> QED  BY <1>4, <1>7, <2>1 DEF ReplicaInv, Remembers, Stores
<1>9. Remembers(stream.baselines)'
  BY <1>2, <1>7 DEF ReplicaInv, Remembers, client
<1>10. InOrder'
  <2>1. /\ assembly.highest \in Nat  BY Bounds DEF ReplicaInv, Types, Assemblies
  <2>2. assembly.highest <= id  BY <2>1, <1>1 DEF ReplicaInv, InOrder
  <2> QED  BY <1>1, <1>2, <1>3, <2>2 DEF ReplicaInv, InOrder, client
<1> QED  BY <1>2, <1>5, <1>6, <1>8, <1>9, <1>10
         DEF ReplicaInv, AcknowledgedIsHeld, DeltasFit, client

LEMMA ReceiveInputInv ==
  ASSUME ReplicaInv, NEW input \in inputs, ReceiveInput(input)
  PROVE  ReplicaInv'
<1> DEFINE a == input.acknowledged
           r == Acknowledge(recipient, a)
<1>1. /\ input \in Inputs /\ a \in Snapshots /\ a <= stream.acknowledged
      /\ recipient \in Recipients
  BY DEF ReplicaInv, Types, Inputs, InOrder
<1>2. /\ recipient.issued \in Nat /\ stream.acknowledged \in Nat /\ a \in Nat
      /\ assembly.highest \in Nat /\ stream.highestSeen \in Nat
  BY <1>1, Bounds DEF ReplicaInv, Types, Recipients, Streams, Assemblies, Snapshots
<1>3. a <= recipient.issued  BY <1>1, <1>2 DEF ReplicaInv, InOrder
<1>4. /\ recipient' = [r EXCEPT !.keyframeRequested = @ \/ input.requestKeyframe]
      /\ acknowledgedInput' = input.sequence
      /\ UNCHANGED <<refused, shown, sent, client, inputs, inputSequence>>
  BY <1>2, <1>3 DEF ReceiveInput
<1>5. /\ r \in Recipients
      /\ r.issued = recipient.issued /\ r.ordinal = recipient.ordinal
      /\ r.acknowledged \in {a, recipient.acknowledged}
      /\ DOMAIN r.baselines \subseteq DOMAIN recipient.baselines
      /\ \A i \in DOMAIN r.baselines : r.baselines[i] = recipient.baselines[i]
  <2>1. CASE a <= recipient.acknowledged
    BY <1>1, <2>1 DEF Acknowledge
  <2>2. CASE ~(a <= recipient.acknowledged)
    <3> DEFINE b == recipient.baselines
               S == {i \in DOMAIN b : i >= a}
    <3>1. r = [recipient EXCEPT !.acknowledged = a, !.baselines = Restrict(b, S)]
      BY <2>2 DEF Acknowledge
    <3>2. b \in Baselines  BY <1>1 DEF Recipients
    <3>3. S \in SUBSET DOMAIN b  OBVIOUS
    <3> HIDE DEF S
    <3>4. Restrict(b, S) \in [S -> Views]  BY <3>2, <3>3, BaselineType DEF Restrict
    <3>5. Restrict(b, S) \in Baselines  BY <3>2, <3>3, <3>4, BaselineType, BaselinesFrom
    <3>6. a \in 0..MaxSnapshot  BY <1>1, Bounds DEF Snapshots
    <3> QED  BY <1>1, <3>1, <3>3, <3>5, <3>6 DEF Recipients, Restrict
  <2> QED  BY <2>1, <2>2
<1> HIDE DEF r
<1>6. /\ recipient' \in Recipients
      /\ recipient'.issued = recipient.issued /\ recipient'.ordinal = recipient.ordinal
      /\ recipient'.acknowledged = r.acknowledged /\ recipient'.baselines = r.baselines
  BY <1>1, <1>4, <1>5 DEF Recipients, Inputs
<1>7. Types'
  BY <1>1, <1>4, <1>6 DEF ReplicaInv, Types, client, Inputs
<1>8. \A i \in 1..recipient'.issued : Carries(sent[i], i)'
  BY <1>4, <1>6 DEF ReplicaInv, Carries, IsKeyframe
<1>9. Remembers(recipient.baselines)' /\ Remembers(stream.baselines)'
  BY <1>4, <1>5, <1>6 DEF ReplicaInv, Remembers, client
<1>10. InOrder'
  BY <1>1, <1>4, <1>5, <1>6 DEF ReplicaInv, InOrder, client
<1> QED  BY <1>4, <1>7, <1>8, <1>9, <1>10 DEF ReplicaInv, AcknowledgedIsHeld, DeltasFit, client

-----------------------------------------------------------------------------
(* The client's steps. *)

\* The steps that leave the server alone keep what was sent and shown.
LEMMA ServerKept ==
  ASSUME ReplicaInv, UNCHANGED server
  PROVE  /\ \A i \in 1..recipient'.issued : Carries(sent[i], i)'
         /\ Remembers(recipient.baselines)'
BY DEF ReplicaInv, server, Carries, IsKeyframe, Remembers

\* A fragment is of a snapshot that was issued, and one that PushBytes takes is
\* of the newest seen or newer.
LEMMA FragmentTaken ==
  ASSUME ReplicaInv, NEW id \in DOMAIN sent, NEW part, Takes(id, part)
  PROVE  /\ id \in Snapshots /\ id <= recipient.issued
         /\ assembly.highest \in Nat /\ assembly.highest <= id
         /\ stream.highestSeen \in Nat /\ stream.acknowledged \in Nat
         /\ recipient.issued \in Nat
         /\ part \in 1..KeyframeParts \cup 1..DeltaParts
<1>1. DOMAIN sent = 1..recipient.issued  BY DEF ReplicaInv, Types
<1>2. recipient.issued \in 0..MaxSnapshot  BY DEF ReplicaInv, Types, Recipients
<1>3. assembly.highest \in 0..MaxSnapshot  BY DEF ReplicaInv, Types, Assemblies
<1>4. stream.highestSeen \in 0..MaxSnapshot /\ stream.acknowledged \in 0..MaxSnapshot
  BY DEF ReplicaInv, Types, Streams
<1>5. assembly.highest <= id  BY <1>1, <1>2, <1>3, Bounds DEF Takes, Opens
<1>6. part \in 1..KeyframeParts \cup 1..DeltaParts  BY DEF Takes, Parts
<1> QED  BY <1>1, <1>2, <1>3, <1>4, <1>5, <1>6, Bounds DEF Snapshots

LEMMA ReceivePartInv ==
  ASSUME ReplicaInv, NEW id \in DOMAIN sent, NEW part, ReceivePart(id, part)
  PROVE  ReplicaInv'
<1>1. Takes(id, part) /\ UNCHANGED <<server, stream, remembered, state, inputs, inputSequence>>
  BY DEF ReceivePart
<1>2. assembly' = [highest |-> id, open |-> TRUE, got |-> Got(id, part)]
  BY DEF ReceivePart
<1>3. assembly' \in Assemblies
  <2>1. Got(id, part) \subseteq 1..KeyframeParts \cup 1..DeltaParts
    BY <1>1, FragmentTaken DEF Got, ReplicaInv, Types, Assemblies
  <2>2. id \in 0..MaxSnapshot  BY <1>1, FragmentTaken, Bounds DEF Snapshots
  <2> QED  BY <1>2, <2>1, <2>2 DEF Assemblies
<1>4. keyframeRequested' \in BOOLEAN  BY DEF ReceivePart
<1>5. Types'  BY <1>1, <1>3, <1>4 DEF ReplicaInv, Types, server
<1>6. InOrder'
  BY <1>1, <1>2, FragmentTaken, Bounds DEF ReplicaInv, InOrder, server, Snapshots
<1> QED  BY <1>1, <1>5, <1>6, ServerKept
         DEF ReplicaInv, Remembers, AcknowledgedIsHeld, DeltasFit, server

\* Applying the view that was shown in a snapshot.
LEMMA AppliedInv ==
  ASSUME ReplicaInv, NEW id \in DOMAIN sent, NEW part, Completed(id, part),
         Applied(id, shown[id]), keyframeRequested' \in BOOLEAN,
         remembered' \in SUBSET Entities, UNCHANGED state
  PROVE  ReplicaInv'
<1>1. /\ Takes(id, part) /\ UNCHANGED <<server, inputs, inputSequence>>
      /\ assembly' = [highest |-> id, open |-> FALSE, got |-> {}]
      /\ id > stream.highestSeen
  BY DEF Completed
<1>2. /\ stream'.highestSeen = id /\ stream'.acknowledged = id
      /\ stream'.baselines = Store(stream.baselines, id, shown[id])
      /\ stream' = [highestSeen |-> id, acknowledged |-> id, requestKeyframe |-> FALSE,
                    baselines |-> stream'.baselines]
  BY DEF Applied
<1>3. id \in Snapshots /\ id \in Nat /\ id # 0 /\ id <= recipient.issued
  BY <1>1, FragmentTaken, Bounds DEF Snapshots
<1>4. stream.baselines \in Baselines /\ shown[id] \in Views
  BY DEF ReplicaInv, Types, Streams
<1>5. Stores(stream.baselines, stream'.baselines, id, shown[id])
  BY <1>2, <1>3, <1>4, StoreStores
<1>6. \A i \in DOMAIN stream.baselines : i < id
  <2> SUFFICES ASSUME NEW i \in DOMAIN stream.baselines PROVE i < id  OBVIOUS
  <2>1. i \in Snapshots /\ i \in Nat  BY <1>4, BaselineType, Bounds DEF Snapshots
  <2>2. i <= stream.acknowledged /\ stream.acknowledged <= stream.highestSeen
    BY DEF ReplicaInv, InOrder
  <2> QED  BY <1>1, <1>3, <2>1, <2>2, FragmentTaken
<1>7. id \in DOMAIN stream'.baselines  BY <1>2, <1>3, <1>4, <1>6, NewestIsStored
<1>8. Types'
  <2>1. assembly' \in Assemblies  BY <1>1, <1>3, Bounds DEF Assemblies, Snapshots
  <2>2. stream' \in Streams
    <3>1. id \in 0..MaxSnapshot  BY <1>3, Bounds DEF Snapshots
    <3>2. stream'.baselines \in Baselines  BY <1>5 DEF Stores
    <3> DEFINE b == stream'.baselines
    <3>3. stream' = [highestSeen |-> id, acknowledged |-> id, requestKeyframe |-> FALSE,
                     baselines |-> b]
      BY <1>2
    <3>4. b \in Baselines  BY <3>2
    <3> HIDE DEF b
    <3> QED  BY <3>1, <3>3, <3>4 DEF Streams
  <2> QED  BY <1>1, <2>1, <2>2 DEF ReplicaInv, Types, server
<1>9. Remembers(stream.baselines)'
  BY <1>1, <1>3, <1>5 DEF ReplicaInv, Remembers, Stores, server
<1>10. InOrder'
  <2>1. \A i \in DOMAIN stream'.baselines : i <= id
    <3> SUFFICES ASSUME NEW i \in DOMAIN stream'.baselines, i # id PROVE i <= id
      BY <1>3
    <3>1. i \in DOMAIN stream.baselines  BY <1>5 DEF Stores
    <3>2. i \in Nat  BY <3>1, <1>4, BaselineType, Bounds DEF Snapshots
    <3> QED  BY <1>3, <1>6, <3>1, <3>2
  <2>2. \A input \in inputs : input.acknowledged <= id
    <3> SUFFICES ASSUME NEW input \in inputs PROVE input.acknowledged <= id  OBVIOUS
    <3>1. input.acknowledged \in Nat  BY Bounds DEF ReplicaInv, Types, Inputs, Snapshots
    <3> QED  BY <1>1, <1>3, <3>1, FragmentTaken DEF ReplicaInv, InOrder
  <2>3. recipient.acknowledged <= id
    <3>1. recipient.acknowledged \in Nat  BY Bounds DEF ReplicaInv, Types, Recipients
    <3> QED  BY <1>1, <1>3, <3>1, FragmentTaken DEF ReplicaInv, InOrder
  <2>4. /\ recipient'.ordinal = recipient'.issued /\ id <= recipient'.issued
        /\ recipient'.acknowledged <= id /\ assembly'.highest = id
        /\ \A input \in inputs' : input.acknowledged <= id
    BY <1>1, <1>3, <2>2, <2>3 DEF ReplicaInv, InOrder, server
  <2>5. id <= id  BY <1>3
  <2> QED  BY <1>2, <1>3, <2>1, <2>4, <2>5 DEF InOrder
<1> QED  BY <1>1, <1>2, <1>7, <1>8, <1>9, <1>10, ServerKept
         DEF ReplicaInv, AcknowledgedIsHeld, DeltasFit, server

\* A keyframe carries the view that was shown.
LEMMA ApplyKeyframeInv ==
  ASSUME ReplicaInv, NEW id \in DOMAIN sent, NEW part, ApplyKeyframe(id, part)
  PROVE  ReplicaInv'
<1>1. id \in 1..recipient.issued  BY DEF ReplicaInv, Types
<1>2. sent[id].view = shown[id]
  BY <1>1 DEF ApplyKeyframe, ReplicaInv, Carries
<1>3. shown[id] \in Views  BY <1>1 DEF ReplicaInv, Types
<1>4. remembered' \in SUBSET Entities
  <2>1. DOMAIN LatestWorld \subseteq Entities
    <3>1. CASE stream.acknowledged = 0  BY <3>1, NothingIsEmpty DEF LatestWorld
    <3>2. CASE stream.acknowledged # 0
      BY <3>2, BaselineType, ViewDomain
      DEF LatestWorld, ReplicaInv, AcknowledgedIsHeld, Types, Streams
    <3> QED  BY <3>1, <3>2
  <2> QED  BY <2>1 DEF ApplyKeyframe, Forgets, ReplicaInv, Types
<1> QED  BY <1>2, <1>4, AppliedInv DEF ApplyKeyframe

\* A delta whose baseline the client has fits it and gives the view that was
\* shown, since that baseline is the view the server made the delta against.
LEMMA ApplyDeltaInv ==
  ASSUME ReplicaInv, NEW id \in DOMAIN sent, NEW part, ApplyDeltaSnapshot(id, part)
  PROVE  ReplicaInv'
<1> DEFINE base == stream.baselines[BaselineFor(id)]
           delta == sent[id].delta
<1>1. id \in 1..recipient.issued  BY DEF ReplicaInv, Types
<1>2. /\ sent[id].base \in DOMAIN stream.baselines
      /\ delta = BuildDelta(shown[sent[id].base], shown[id])
  BY <1>1 DEF ApplyDeltaSnapshot, HasBaseline, BaselineFor, ReplicaInv, Carries
<1>3. sent[id].base \in 1..recipient.issued /\ base = shown[sent[id].base]
  BY <1>2 DEF ReplicaInv, Remembers, BaselineFor
<1>4. shown[id] \in Views /\ base \in Views  BY <1>1, <1>3 DEF ReplicaInv, Types
<1> HIDE DEF base
<1>5. Fits(base, delta) /\ ApplyDelta(base, delta) = shown[id]
  BY <1>2, <1>3, <1>4, DeltaRoundTrip
<1>6. /\ Completed(id, part) /\ Applied(id, shown[id]) /\ UNCHANGED state
      /\ keyframeRequested' = (keyframeRequested \/ LosesSnapshot(id))
      /\ Forgets(delta.removed \cup DOMAIN delta.entered)
  BY <1>5 DEF ApplyDeltaSnapshot, base
<1>7. remembered' \in SUBSET Entities
  <2>1. DOMAIN LatestWorld \subseteq Entities
    <3>1. CASE stream.acknowledged = 0  BY <3>1, NothingIsEmpty DEF LatestWorld
    <3>2. CASE stream.acknowledged # 0
      BY <3>2, BaselineType, ViewDomain
      DEF LatestWorld, ReplicaInv, AcknowledgedIsHeld, Types, Streams
    <3> QED  BY <3>1, <3>2
  <2> QED  BY <1>6, <2>1 DEF Forgets, ReplicaInv, Types
<1> QED  BY <1>6, <1>7, AppliedInv

LEMMA RefuseDeltaInv ==
  ASSUME ReplicaInv, NEW id \in DOMAIN sent, NEW part, RefuseDelta(id, part)
  PROVE  ReplicaInv'
<1>1. /\ Takes(id, part) /\ UNCHANGED <<server, inputs, inputSequence>>
      /\ assembly' = [highest |-> id, open |-> FALSE, got |-> {}]
      /\ id > stream.highestSeen
      /\ stream' = [stream EXCEPT !.highestSeen = id, !.requestKeyframe = TRUE]
      /\ keyframeRequested' = TRUE /\ UNCHANGED <<remembered, state>>
  BY DEF RefuseDelta, Completed
<1>2. id \in Snapshots /\ id \in Nat /\ id <= recipient.issued /\ id \in 0..MaxSnapshot
  BY <1>1, FragmentTaken, Bounds DEF Snapshots
<1>3. /\ stream' \in Streams /\ stream'.highestSeen = id
      /\ stream'.acknowledged = stream.acknowledged
      /\ stream'.baselines = stream.baselines
  BY <1>1, <1>2 DEF ReplicaInv, Types, Streams
<1>4. Types'
  BY <1>1, <1>2, <1>3 DEF ReplicaInv, Types, Assemblies, server
<1>5. InOrder'
  <2>1. stream.acknowledged <= id  BY <1>1, <1>2, FragmentTaken DEF ReplicaInv, InOrder
  <2>2. id <= id  BY <1>2
  <2> QED  BY <1>1, <1>2, <1>3, <2>1, <2>2 DEF ReplicaInv, InOrder, server
<1> QED  BY <1>1, <1>3, <1>4, <1>5, ServerKept
         DEF ReplicaInv, Remembers, AcknowledgedIsHeld, DeltasFit, server

LEMMA BecomeRunningInv ==
  ASSUME ReplicaInv, BecomeRunning
  PROVE  ReplicaInv'
<1>1. UNCHANGED <<server, assembly, stream, keyframeRequested, remembered, inputs, inputSequence>>
  BY DEF BecomeRunning
<1>2. state' = "Running" /\ stream.acknowledged # 0  BY DEF BecomeRunning
<1>3. Types'  BY <1>1, <1>2 DEF ReplicaInv, Types, server
<1>4. InOrder'  BY <1>1, <1>2 DEF ReplicaInv, InOrder, server
<1> QED  BY <1>1, <1>2, <1>3, <1>4, ServerKept
         DEF ReplicaInv, Remembers, AcknowledgedIsHeld, DeltasFit, server

LEMMA PostInputInv ==
  ASSUME ReplicaInv, PostInput
  PROVE  ReplicaInv'
<1> DEFINE input == [sequence |-> inputSequence + 1, acknowledged |-> stream.acknowledged,
                     requestKeyframe |-> keyframeRequested]
<1>1. /\ state = "Running" /\ inputSequence < MaxInput
      /\ inputSequence' = inputSequence + 1 /\ inputs' = inputs \cup {input}
      /\ UNCHANGED <<server, client>>
  BY DEF PostInput, LastApplied
<1>2. inputSequence + 1 \in 1..MaxInput /\ inputSequence + 1 \in 0..MaxInput
  BY <1>1, Bounds DEF ReplicaInv, Types
<1>3. stream.acknowledged \in Snapshots /\ stream.acknowledged <= stream.acknowledged
  <2>1. stream.acknowledged \in 0..MaxSnapshot  BY DEF ReplicaInv, Types, Streams
  <2>2. stream.acknowledged # 0  BY <1>1 DEF ReplicaInv, InOrder
  <2> QED  BY <2>1, <2>2, Bounds DEF Snapshots
<1>4. input \in Inputs  BY <1>2, <1>3 DEF Inputs, ReplicaInv, Types
<1>5. Types'  BY <1>1, <1>2, <1>4 DEF ReplicaInv, Types, server, client
<1>6. InOrder'  BY <1>1, <1>3 DEF ReplicaInv, InOrder, server, client
<1> QED  BY <1>1, <1>5, <1>6, ServerKept
         DEF ReplicaInv, Remembers, AcknowledgedIsHeld, DeltasFit, server, client

LEMMA NextInv == ReplicaInv /\ [Next]_vars => ReplicaInv'
<1> SUFFICES ASSUME ReplicaInv, [Next]_vars PROVE ReplicaInv'  OBVIOUS
<1>1. ASSUME NEW view \in Views, Build(view) PROVE ReplicaInv'  BY <1>1, BuildInv
<1>2. ASSUME NEW input \in inputs, ReceiveInput(input) PROVE ReplicaInv'
  BY <1>2, ReceiveInputInv
<1>3. ASSUME NEW id \in DOMAIN sent, NEW part \in Parts(sent[id]), ReceiveFragment(id, part)
      PROVE  ReplicaInv'
  BY <1>3, ReceivePartInv, ApplyKeyframeInv, ApplyDeltaInv, RefuseDeltaInv DEF ReceiveFragment
<1>4. CASE BecomeRunning  BY <1>4, BecomeRunningInv
<1>5. CASE PostInput  BY <1>5, PostInputInv
<1>6. CASE UNCHANGED vars
  <2>1. Types'  BY <1>6 DEF ReplicaInv, Types, vars, server, client
  <2> QED  BY <1>6, <2>1, ServerKept
      DEF ReplicaInv, Remembers, InOrder, AcknowledgedIsHeld, DeltasFit, vars, server, client
<1> QED  BY <1>1, <1>2, <1>3, <1>4, <1>5, <1>6 DEF Next

-----------------------------------------------------------------------------
(* Theorems. *)

\* The inductive invariant of the replication holds in every reachable state.
THEOREM ReplicaInvHolds == Spec => []ReplicaInv
<1>1. Init => ReplicaInv  BY InitInv
<1>2. ReplicaInv /\ [Next]_vars => ReplicaInv'  BY NextInv
<1> QED  BY <1>1, <1>2, PTL DEF Spec

\* Every world the client keeps is the view the server showed it, however the
\* network loses, repeats and reorders fragments and inputs (Apply, Build).
THEOREM WorldsAreShown == Spec => []ClientSeesWhatWasShown
<1>1. ReplicaInv => ClientSeesWhatWasShown
  BY DEF ReplicaInv, Remembers, ClientSeesWhatWasShown
<1> QED  BY <1>1, ReplicaInvHolds, PTL

\* No delta the server sends makes ApplyDelta throw in the client,
\* AcceptAcknowledgement never refuses a client nor believes it further on than
\* it is, and the client keeps the world it acknowledges, whatever its capacity.
THEOREM AcknowledgementsAlwaysWork == Spec => []AcknowledgementsWork
<1>1. ReplicaInv => DeltasFit /\ AcknowledgedIsHeld  BY DEF ReplicaInv
<1>2. ReplicaInv => ServerNeverAhead  BY DEF ReplicaInv, InOrder, ServerNeverAhead
<1>3. ReplicaInv => AcknowledgementsWork  BY <1>1, <1>2 DEF AcknowledgementsWork
<1> QED  BY <1>3, ReplicaInvHolds, PTL

\* A refused delta (Apply's missing baseline) leaves the stream asking for a
\* keyframe, and the session asks with it: no lost fragment, later refusal or
\* delta that fits takes the request back before a snapshot is applied.
LEMMA RefusalsStayAsked ==
  ASSUME Types, RefusalsAreAsked, [Next]_vars
  PROVE  RefusalsAreAsked'
<1>1. CASE \/ \E view \in Views : Build(view)
           \/ \E input \in inputs : ReceiveInput(input)
           \/ BecomeRunning \/ PostInput \/ UNCHANGED vars
  <2>1. UNCHANGED <<stream, keyframeRequested>>
    BY <1>1 DEF Build, ReceiveInput, BecomeRunning, PostInput, vars, client
  <2> QED  BY <2>1 DEF RefusalsAreAsked
<1>2. ASSUME NEW id, NEW part, ReceiveFragment(id, part) PROVE RefusalsAreAsked'
  <2>1. CASE ReceivePart(id, part)  BY <2>1 DEF ReceivePart, RefusalsAreAsked
  <2>2. CASE ApplyKeyframe(id, part)
    BY <2>2 DEF ApplyKeyframe, Applied, RefusalsAreAsked
  <2>3. CASE ApplyDeltaSnapshot(id, part)
    <3>1. \/ ~stream'.requestKeyframe
          \/ stream' = [stream EXCEPT !.highestSeen = id]
      BY <2>3 DEF ApplyDeltaSnapshot, Applied
    <3>2. stream'.requestKeyframe => stream.requestKeyframe
      BY <3>1 DEF Types, Streams
    <3>3. keyframeRequested => keyframeRequested'  BY <2>3 DEF ApplyDeltaSnapshot
    <3> QED  BY <3>2, <3>3 DEF RefusalsAreAsked
  <2>4. CASE RefuseDelta(id, part)  BY <2>4 DEF RefuseDelta, RefusalsAreAsked
  <2> QED  BY <1>2, <2>1, <2>2, <2>3, <2>4 DEF ReceiveFragment
<1> QED  BY <1>1, <1>2 DEF Next

\* A client that refused a delta asks for a keyframe in every input until it has
\* applied a snapshot (GameSession's keyframeRequested).
THEOREM RefusalsAlwaysAsked == Spec => []RefusalsAreAsked
<1>1. Init => RefusalsAreAsked  BY DEF Init, RefusalsAreAsked
<1>2. ReplicaInv /\ RefusalsAreAsked /\ [Next]_vars => RefusalsAreAsked'
  BY RefusalsStayAsked DEF ReplicaInv
<1> QED  BY <1>1, <1>2, ReplicaInvHolds, PTL DEF Spec

-----------------------------------------------------------------------------
(* Capacities. *)

LEMMA FiniteBaselines ==
  ASSUME NEW S \in SUBSET Snapshots
  PROVE  IsFiniteSet(S) /\ Cardinality(S) \in Nat
<1>1. IsFiniteSet(1..MaxSnapshot)  BY FS_Interval, Bounds
<1>2. IsFiniteSet(S)  BY <1>1, FS_Subset DEF Snapshots
<1> QED  BY <1>2, FS_CardinalityType

\* One more view and, over the capacity, one dropped.
LEMMA OneDropped ==
  ASSUME NEW S \in SUBSET Snapshots, NEW id \in Snapshots, NEW cap \in Nat,
         Cardinality(S) <= cap, NEW d,
         Cardinality(S \cup {id}) > cap => d \in S \cup {id}
  PROVE  Cardinality(IF Cardinality(S \cup {id}) > cap
                     THEN (S \cup {id}) \ {d} ELSE S \cup {id}) <= cap
<1>1. /\ IsFiniteSet(S) /\ Cardinality(S) \in Nat
      /\ Cardinality(S \cup {id}) <= Cardinality(S) + 1
      /\ IsFiniteSet(S \cup {id}) /\ Cardinality(S \cup {id}) \in Nat
  BY FiniteBaselines, FS_AddElement
<1>2. CASE Cardinality(S \cup {id}) > cap
  <2>1. Cardinality((S \cup {id}) \ {d}) = Cardinality(S \cup {id}) - 1
    BY <1>1, <1>2, FS_RemoveElement
  <2> QED  BY <1>1, <1>2, <2>1
<1>3. CASE ~(Cardinality(S \cup {id}) > cap)  BY <1>1, <1>3
<1> QED  BY <1>2, <1>3

\* What StoreBaseline drops is stored, and is not the acknowledged baseline
\* when there is room for another.
LEMMA DroppedIsStored ==
  ASSUME NEW ids \in SUBSET Snapshots, NEW a, Cardinality(ids) > ServerBaselines
  PROVE  /\ Dropped(ids, a) \in ids
         /\ ServerBaselines > 1 => Dropped(ids, a) # a
<1>1. IsFiniteSet(ids) /\ Cardinality(ids) \in Nat /\ ids # {}
  BY FiniteBaselines, FS_EmptySet, Bounds
<1>2. Min(ids) \in ids  BY <1>1, LeastSnapshot
<1>3. CASE Min(ids) = a /\ ServerBaselines > 1
  <2>1. ids # {a}  BY <1>3, FS_Singleton, Bounds
  <2>2. ids \ {a} # {} /\ ids \ {a} \in SUBSET Snapshots  BY <1>1, <2>1
  <2>3. Min(ids \ {a}) \in ids \ {a}  BY <2>2, LeastSnapshot
  <2> QED  BY <1>3, <2>3 DEF Dropped
<1>4. CASE ~(Min(ids) = a /\ ServerBaselines > 1)
  BY <1>2, <1>4 DEF Dropped
<1> QED  BY <1>3, <1>4

Capacity ==
  /\ Cardinality(DOMAIN recipient.baselines) <= ServerBaselines
  /\ Cardinality(DOMAIN stream.baselines) <= ClientBaselines

LEMMA CapacityInit == Init => Capacity
BY NothingIsEmpty, FS_EmptySet, Bounds DEF Init, Capacity

LEMMA BuildCapacity ==
  ASSUME ReplicaInv, Capacity, NEW view \in Views, Build(view)
  PROVE  Cardinality(DOMAIN recipient'.baselines) <= ServerBaselines
<1> DEFINE id == recipient.issued + 1
           S == DOMAIN recipient.baselines
           ids == S \cup {id}
           d == Dropped(ids, recipient.acknowledged)
<1>1. id \in Snapshots /\ S \in SUBSET Snapshots
  BY Bounds, BaselineType DEF Build, ReplicaInv, Types, Recipients, Snapshots
<1>2. DOMAIN recipient'.baselines =
        IF Cardinality(ids) > ServerBaselines THEN ids \ {d} ELSE ids
  BY DEF Build, StoreBaseline, ReplicaInv, Types, Recipients
<1>3. Cardinality(ids) > ServerBaselines => d \in ids  BY <1>1, DroppedIsStored
<1>4. Cardinality(S) <= ServerBaselines  BY DEF Capacity
<1>5. ServerBaselines \in Nat  BY Bounds
<1> HIDE DEF S, d, id
<1> QED  BY <1>1, <1>2, <1>3, <1>4, <1>5, OneDropped

\* An acknowledgement drops baselines, and none unless it is newer.
LEMMA AcknowledgeDrops ==
  ASSUME ReplicaInv, NEW input \in inputs, ReceiveInput(input)
  PROVE  /\ DOMAIN recipient'.baselines \subseteq DOMAIN recipient.baselines
         /\ recipient'.acknowledged = recipient.acknowledged
            => recipient'.baselines = recipient.baselines
<1> DEFINE r == Acknowledge(recipient, input.acknowledged)
<1>1. /\ recipient \in Recipients
      /\ recipient.acknowledged \in Nat /\ input.acknowledged \in Nat
  BY Bounds DEF ReplicaInv, Types, Recipients, Inputs, Snapshots
<1>2. \/ recipient' = recipient
      \/ recipient' = [r EXCEPT !.keyframeRequested = @ \/ input.requestKeyframe]
  BY <1>1 DEF ReceiveInput, Recipients
<1>3. CASE input.acknowledged <= recipient.acknowledged
  <2>1. r = recipient  BY <1>3 DEF Acknowledge
  <2> HIDE DEF r
  <2> QED  BY <1>1, <1>2, <2>1 DEF Recipients
<1>4. CASE ~(input.acknowledged <= recipient.acknowledged)
  <2> DEFINE S == {i \in DOMAIN recipient.baselines : i >= input.acknowledged}
             kept == Restrict(recipient.baselines, S)
  <2>1. r = [recipient EXCEPT !.acknowledged = input.acknowledged, !.baselines = kept]
    BY <1>4 DEF Acknowledge
  <2>2. DOMAIN kept = S /\ S \subseteq DOMAIN recipient.baselines  BY DEF Restrict
  <2> HIDE DEF S, kept
  <2>3. /\ r = [issued |-> recipient.issued, acknowledged |-> input.acknowledged,
                ordinal |-> recipient.ordinal, lastKeyframe |-> recipient.lastKeyframe,
                keyframeRequested |-> recipient.keyframeRequested, baselines |-> kept]
    BY <1>1, <2>1 DEF Recipients
  <2> HIDE DEF r
  <2>4. \/ recipient' = recipient
        \/ /\ recipient'.acknowledged = input.acknowledged
           /\ recipient'.baselines = kept
    BY <1>2, <2>3
  <2>5. input.acknowledged # recipient.acknowledged  BY <1>1, <1>4
  <2> QED  BY <2>2, <2>4, <2>5
<1> QED  BY <1>3, <1>4

LEMMA AcknowledgeCapacity ==
  ASSUME ReplicaInv, Capacity, NEW input \in inputs, ReceiveInput(input)
  PROVE  Cardinality(DOMAIN recipient'.baselines) <= ServerBaselines
<1>1. DOMAIN recipient.baselines \in SUBSET Snapshots
  BY BaselineType DEF ReplicaInv, Types, Recipients
<1>2. DOMAIN recipient'.baselines \subseteq DOMAIN recipient.baselines
  BY AcknowledgeDrops
<1>3. /\ Cardinality(DOMAIN recipient'.baselines) <= Cardinality(DOMAIN recipient.baselines)
      /\ Cardinality(DOMAIN recipient'.baselines) \in Nat
      /\ Cardinality(DOMAIN recipient.baselines) \in Nat
  BY <1>1, <1>2, FiniteBaselines, FS_Subset
<1> QED  BY <1>3, Bounds DEF Capacity

LEMMA StoreCapacity ==
  ASSUME ReplicaInv, Capacity, NEW id \in DOMAIN sent, NEW view, Applied(id, view)
  PROVE  Cardinality(DOMAIN stream'.baselines) <= ClientBaselines
<1> DEFINE S == DOMAIN stream.baselines
           ids == S \cup {id}
<1>1. id \in Snapshots /\ S \in SUBSET Snapshots
  BY Bounds, BaselineType DEF ReplicaInv, Types, Recipients, Streams, Snapshots
<1>2. DOMAIN stream'.baselines =
        IF Cardinality(ids) > ClientBaselines THEN ids \ {Min(ids)} ELSE ids
  BY DEF Applied, Store
<1>3. Min(ids) \in ids  BY <1>1, LeastSnapshot
<1>4. Cardinality(S) <= ClientBaselines  BY DEF Capacity
<1> HIDE DEF S
<1> QED  BY <1>1, <1>2, <1>3, <1>4, OneDropped, Bounds

LEMMA CapacityNext == ReplicaInv /\ Capacity /\ [Next]_vars => Capacity'
<1> SUFFICES ASSUME ReplicaInv, Capacity, [Next]_vars PROVE Capacity'  OBVIOUS
<1>1. ASSUME NEW view \in Views, Build(view) PROVE Capacity'
  BY <1>1, BuildCapacity DEF Capacity, Build, client
<1>2. ASSUME NEW input \in inputs, ReceiveInput(input) PROVE Capacity'
  BY <1>2, AcknowledgeCapacity DEF Capacity, ReceiveInput, client
<1>3. ASSUME NEW id \in DOMAIN sent, NEW part \in Parts(sent[id]), ReceiveFragment(id, part)
      PROVE  Capacity'
  <2>1. UNCHANGED server
    BY <1>3 DEF ReceiveFragment, ReceivePart, ApplyKeyframe, ApplyDeltaSnapshot, RefuseDelta, Completed
  <2>2. \/ \E view : Applied(id, view)
        \/ stream'.baselines = stream.baselines
    BY <1>3 DEF ReceiveFragment, ReceivePart, ApplyKeyframe, ApplyDeltaSnapshot, RefuseDelta,
                ReplicaInv, Types, Streams
  <2> QED  BY <2>1, <2>2, StoreCapacity DEF Capacity, server
<1>4. CASE BecomeRunning \/ PostInput \/ UNCHANGED vars
  BY <1>4 DEF BecomeRunning, PostInput, vars, server, client, Capacity
<1> QED  BY <1>1, <1>2, <1>3, <1>4 DEF Next

\* Every variable keeps its type and neither side ever holds more baselines
\* than it has room for (StoreBaseline, Store).
THEOREM TypesHold == Spec => []TypeOK
<1>1. Init => Capacity  BY CapacityInit
<1>2. ReplicaInv /\ Capacity /\ [Next]_vars => Capacity'  BY CapacityNext
<1>3. ReplicaInv /\ Capacity => TypeOK  BY DEF ReplicaInv, Types, Capacity, TypeOK
<1> QED  BY <1>1, <1>2, <1>3, ReplicaInvHolds, PTL DEF Spec

\* StoreBaseline never gives up the baseline the client acknowledged.
THEOREM BaselineSurvives == Spec => AcknowledgedBaselineSurvives
<1> DEFINE a == recipient.acknowledged
           Kept == /\ a \in DOMAIN recipient.baselines
                   /\ recipient'.acknowledged = a
                   /\ ServerBaselines > 1
                   => a \in DOMAIN recipient'.baselines
<1>1. ASSUME ReplicaInv, [Next]_vars PROVE Kept
  <2> SUFFICES ASSUME a \in DOMAIN recipient.baselines, recipient'.acknowledged = a,
                      ServerBaselines > 1
               PROVE  a \in DOMAIN recipient'.baselines
    OBVIOUS
  <2>1. ASSUME NEW view \in Views, Build(view) PROVE a \in DOMAIN recipient'.baselines
    <3> DEFINE S == DOMAIN recipient.baselines
               ids == S \cup {recipient.issued + 1}
               d == Dropped(ids, a)
    <3>1. ids \in SUBSET Snapshots
      BY <1>1, <2>1, Bounds, BaselineType DEF Build, ReplicaInv, Types, Recipients, Snapshots
    <3>2. DOMAIN recipient'.baselines =
            IF Cardinality(ids) > ServerBaselines THEN ids \ {d} ELSE ids
      BY <1>1, <2>1 DEF Build, StoreBaseline, ReplicaInv, Types, Recipients
    <3>3. Cardinality(ids) > ServerBaselines => d # a  BY <3>1, DroppedIsStored
    <3> HIDE DEF d
    <3> QED  BY <3>2, <3>3
  <2>2. ASSUME NEW input \in inputs, ReceiveInput(input) PROVE a \in DOMAIN recipient'.baselines
    BY <1>1, <2>2, AcknowledgeDrops
  <2>3. CASE UNCHANGED recipient  BY <2>3
  <2>4. \/ \E view \in Views : Build(view)
        \/ \E input \in inputs : ReceiveInput(input)
        \/ UNCHANGED recipient
    BY <1>1 DEF Next, ReceiveFragment, ReceivePart, ApplyKeyframe, ApplyDeltaSnapshot, RefuseDelta,
                Completed, BecomeRunning, PostInput, vars, server
  <2> QED  BY <2>1, <2>2, <2>3, <2>4
<1> QED  BY <1>1, ReplicaInvHolds, PTL DEF Spec, AcknowledgedBaselineSurvives
=============================================================================
