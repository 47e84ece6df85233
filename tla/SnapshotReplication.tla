------------------------ MODULE SnapshotReplication ------------------------
(***************************************************************************)
(* What one player sees of a match: the server's SnapshotReplicator in its *)
(* InterestDelta mode, the UDP path in both directions, and the client's   *)
(* SnapshotReassembler, ClientSnapshotStream and the part of GameSession   *)
(* between them.                                                           *)
(*                                                                         *)
(* A view is what the server shows of the world: a function from the       *)
(* visible entities (actors, loot, the global group) to their values.      *)
(* Datagrams, once sent, may arrive never, late, repeatedly and in any     *)
(* order: a fragment is received from whatever snapshot was ever sent.     *)
(***************************************************************************)
EXTENDS Integers, FiniteSets, FiniteSetsExt, Functions

CONSTANTS
  Entities,         \* what can be seen
  Values,           \* what can be seen of it
  KeyframeParts,    \* UDP fragments of a keyframe
  DeltaParts,       \* UDP fragments of a delta
  KeyframeInterval, \* keyframeIntervalSnapshots (30 in the code)
  ServerBaselines,  \* maximumBaselinesPerRecipient (32 in the code)
  ClientBaselines,  \* MaxClientSnapshotBuffer (32 in the code)
  MaxSnapshot,      \* bound: snapshots the match emits
  MaxInput          \* bound: inputs the client posts

ASSUME ReplicationAssumption ==
  /\ KeyframeParts \in Nat \ {0} /\ DeltaParts \in Nat \ {0}
  /\ KeyframeInterval \in Nat \ {0}
  /\ ServerBaselines \in Nat \ {0} /\ ClientBaselines \in Nat \ {0}
  /\ MaxSnapshot \in Nat /\ MaxInput \in Nat

Snapshots == 1..MaxSnapshot
Views == UNION {[S -> Values] : S \in SUBSET Entities}
\* A deque of baselines, in the order of their ids: a function from the ids.
Baselines == UNION {[S -> Views] : S \in SUBSET Snapshots}

Deltas == [removed : SUBSET Entities, entered : Views, changed : Views]
Payloads == [base : {0}, view : Views] \cup [base : Snapshots, delta : Deltas]
IsKeyframe(payload) == payload.base = 0
Parts(payload) == 1..(IF IsKeyframe(payload) THEN KeyframeParts ELSE DeltaParts)

Recipients == [issued : 0..MaxSnapshot, acknowledged : 0..MaxSnapshot,
               ordinal : 0..MaxSnapshot, lastKeyframe : 0..MaxSnapshot,
               keyframeRequested : BOOLEAN, baselines : Baselines]
Inputs == [sequence : 1..MaxInput, acknowledged : Snapshots, requestKeyframe : BOOLEAN]
\* The assembly in progress: "highest" is 0 before the first fragment.
Assemblies == [highest : 0..MaxSnapshot, open : BOOLEAN,
               got : SUBSET (1..KeyframeParts \cup 1..DeltaParts)]
Streams == [highestSeen : 0..MaxSnapshot, acknowledged : 0..MaxSnapshot,
            requestKeyframe : BOOLEAN, baselines : Baselines]

VARIABLES
  recipient,         \* server: the Recipient of this player
  acknowledgedInput, \* server: the session's acknowledgedInput
  refused,           \* server: it answered an input with ProtocolViolation
  shown,             \* history: the view each snapshot was built from
  sent,              \* the payload of each snapshot, in fragments on the network
  inputs,            \* the inputs on the network
  assembly,          \* client: SnapshotReassembler
  stream,            \* client: ClientSnapshotStream
  keyframeRequested, \* client: GameSession::keyframeRequested
  remembered,        \* client: who has a position in RemoteInterpolator's older snapshots
  state,             \* client: Synchronizing, Running or ProtocolError
  inputSequence      \* client: the last input's sequence

server == <<recipient, acknowledgedInput, refused, shown, sent>>
client == <<assembly, stream, keyframeRequested, remembered, state>>
vars == <<server, client, inputs, inputSequence>>

TypeOK ==
  /\ recipient \in Recipients
  /\ Cardinality(DOMAIN recipient.baselines) <= ServerBaselines
  /\ acknowledgedInput \in 0..MaxInput
  /\ refused \in BOOLEAN
  /\ shown \in [1..recipient.issued -> Views]
  /\ sent \in [1..recipient.issued -> Payloads]
  /\ inputs \in SUBSET Inputs
  /\ assembly \in Assemblies
  /\ stream \in Streams
  /\ Cardinality(DOMAIN stream.baselines) <= ClientBaselines
  /\ keyframeRequested \in BOOLEAN
  /\ remembered \in SUBSET Entities
  /\ state \in {"Synchronizing", "Running", "ProtocolError"}
  /\ inputSequence \in 0..MaxInput

Nothing == [i \in {} |-> {}]

Init ==
  /\ recipient = [issued |-> 0, acknowledged |-> 0, ordinal |-> 0, lastKeyframe |-> 0,
                  keyframeRequested |-> FALSE, baselines |-> Nothing]
  /\ acknowledgedInput = 0 /\ refused = FALSE
  /\ shown = Nothing /\ sent = Nothing /\ inputs = {}
  /\ assembly = [highest |-> 0, open |-> FALSE, got |-> {}]
  /\ stream = [highestSeen |-> 0, acknowledged |-> 0, requestKeyframe |-> FALSE,
               baselines |-> Nothing]
  /\ keyframeRequested = FALSE /\ remembered = {}
  /\ state = "Synchronizing" /\ inputSequence = 0

-----------------------------------------------------------------------------
(* Deltas *)

BuildDelta(base, current) ==
  [removed |-> DOMAIN base \ DOMAIN current,
   entered |-> Restrict(current, DOMAIN current \ DOMAIN base),
   changed |-> Restrict(current, {e \in DOMAIN current \cap DOMAIN base :
                                    current[e] # base[e]})]

\* ApplyDelta throws on a target that is missing or already there.
Fits(base, delta) ==
  /\ delta.removed \subseteq DOMAIN base
  /\ DOMAIN delta.entered \cap (DOMAIN base \ delta.removed) = {}
  /\ DOMAIN delta.changed \subseteq (DOMAIN base \ delta.removed) \cup DOMAIN delta.entered

ApplyDelta(base, delta) ==
  [e \in (DOMAIN base \ delta.removed) \cup DOMAIN delta.entered |->
     IF e \in DOMAIN delta.changed THEN delta.changed[e]
     ELSE IF e \in DOMAIN delta.entered THEN delta.entered[e] ELSE base[e]]

-----------------------------------------------------------------------------
(* The server *)

\* The baseline dropped when one too many is kept: the oldest, unless that is
\* the acknowledged one and there is another.
DroppedOldest(ids, acknowledged) == Min(ids) \* mutant: forgets which one is acknowledged
Dropped(ids, acknowledged) ==
  IF Min(ids) = acknowledged /\ ServerBaselines > 1
  THEN Min(ids \ {acknowledged}) ELSE Min(ids)

StoreBaseline(baselines, acknowledged, id, view) ==
  LET ids == DOMAIN baselines \cup {id}
      kept == IF Cardinality(ids) > ServerBaselines
              THEN ids \ {Dropped(ids, acknowledged)} ELSE ids
  IN [i \in kept |-> IF i = id THEN view ELSE baselines[i]]

NeedsKeyframe(r) ==
  \/ r.keyframeRequested
  \/ r.lastKeyframe = 0
  \/ r.ordinal + 1 - r.lastKeyframe >= KeyframeInterval
  \/ r.acknowledged \notin DOMAIN r.baselines

PayloadAgainstNewest(r, view) == \* mutant: the delta's base is not the one it names
  IF NeedsKeyframe(r) THEN [base |-> 0, view |-> view]
  ELSE [base |-> r.acknowledged, delta |-> BuildDelta(shown[r.issued], view)]
PayloadFor(r, view) ==
  IF NeedsKeyframe(r) THEN [base |-> 0, view |-> view]
  ELSE [base |-> r.acknowledged,
        delta |-> BuildDelta(r.baselines[r.acknowledged], view)]

\* SnapshotReplicator::Build for the next snapshot, and its fragments sent.
Build(view) ==
  LET id == recipient.issued + 1
      payload == PayloadFor(recipient, view)
  IN /\ id <= MaxSnapshot
     /\ shown' = [i \in 1..id |-> IF i = id THEN view ELSE shown[i]]
     /\ sent' = [i \in 1..id |-> IF i = id THEN payload ELSE sent[i]]
     /\ recipient' =
          [recipient EXCEPT
             !.issued = id, !.ordinal = @ + 1,
             !.lastKeyframe = IF IsKeyframe(payload) THEN recipient.ordinal + 1 ELSE @,
             !.keyframeRequested = FALSE,
             !.baselines = StoreBaseline(@, recipient.acknowledged, id, view)]
     /\ UNCHANGED <<acknowledgedInput, refused, client, inputs, inputSequence>>

\* AcceptAcknowledgement of an id that was issued.
Acknowledge(r, id) ==
  IF id <= r.acknowledged THEN r
  ELSE [r EXCEPT !.acknowledged = id,
                 !.baselines = Restrict(@, {i \in DOMAIN @ : i >= id})]

IsNew(input) == input.sequence > acknowledgedInput

\* ReceiveClientDatagram of an input of this player.
ReceiveInput(input) ==
  /\ IsNew(input)
  /\ IF input.acknowledged > recipient.issued
     THEN refused' = TRUE /\ UNCHANGED <<recipient, acknowledgedInput>>
     ELSE /\ recipient' =
               [Acknowledge(recipient, input.acknowledged) EXCEPT
                  !.keyframeRequested = @ \/ input.requestKeyframe]
          /\ acknowledgedInput' = input.sequence
          /\ UNCHANGED refused
  /\ UNCHANGED <<shown, sent, client, inputs, inputSequence>>

-----------------------------------------------------------------------------
(* The client *)

\* A fragment opens the assembly of a newer snapshot; what it replaces, and
\* what was skipped, is lost.
Opens(id) == id > assembly.highest
LosesSnapshot(id) ==
  Opens(id) /\ assembly.highest # 0 /\ (assembly.open \/ id > assembly.highest + 1)

Got(id, part) == (IF Opens(id) THEN {} ELSE assembly.got) \cup {part}
Completes(id, part) == Parts(sent[id]) \subseteq Got(id, part)

\* PushBytes takes the fragments of the newest snapshot while it is incomplete.
Takes(id, part) ==
  /\ part \in Parts(sent[id])
  /\ Opens(id) \/ (id = assembly.highest /\ assembly.open /\ part \notin assembly.got)

\* A part of a snapshot that is still incomplete.
ReceivePart(id, part) ==
  /\ state # "ProtocolError"
  /\ Takes(id, part) /\ ~Completes(id, part)
  /\ assembly' = [highest |-> id, open |-> TRUE, got |-> Got(id, part)]
  /\ keyframeRequested' = (keyframeRequested \/ LosesSnapshot(id))
  /\ UNCHANGED <<server, stream, remembered, state, inputs, inputSequence>>

Completed(id, part) ==
  /\ state # "ProtocolError"
  /\ Takes(id, part) /\ Completes(id, part)
  /\ assembly' = [highest |-> id, open |-> FALSE, got |-> {}]
  /\ id > stream.highestSeen
  /\ UNCHANGED <<server, inputs, inputSequence>>

\* ClientSnapshotStream::Impl::Store.
Store(baselines, id, view) ==
  LET ids == DOMAIN baselines \cup {id}
      kept == IF Cardinality(ids) > ClientBaselines THEN ids \ {Min(ids)} ELSE ids
  IN [i \in kept |-> IF i = id THEN view ELSE baselines[i]]

Applied(id, view) ==
  stream' = [highestSeen |-> id, acknowledged |-> id, requestKeyframe |-> FALSE,
             baselines |-> Store(stream.baselines, id, view)]

LatestWorld ==
  IF stream.acknowledged = 0 THEN Nothing ELSE stream.baselines[stream.acknowledged]

\* The entities FindActorTransitions reports: gone, and new.
Transitions(before, after) ==
  (DOMAIN before \ DOMAIN after) \cup (DOMAIN after \ DOMAIN before)

\* ForgetActors(resetInterpolationActors), before the new snapshot is pushed.
Forgets(resetActors) ==
  remembered' = (remembered \cup DOMAIN LatestWorld) \ resetActors

ApplyKeyframe(id, part) ==
  /\ Completed(id, part)
  /\ IsKeyframe(sent[id])
  /\ Applied(id, sent[id].view)
  /\ Forgets(Transitions(LatestWorld, sent[id].view)
               \cup (IF stream.requestKeyframe THEN DOMAIN sent[id].view ELSE {}))
  /\ keyframeRequested' = FALSE
  /\ UNCHANGED state

\* Which of its baselines the client applies a delta to, if it has it.
NewestFor(id) == stream.acknowledged \* mutant: the delta is applied to the latest world
BaselineFor(id) == sent[id].base
HasBaseline(id) == BaselineFor(id) \in DOMAIN stream.baselines

ApplyDeltaSnapshot(id, part) ==
  /\ Completed(id, part)
  /\ ~IsKeyframe(sent[id]) /\ HasBaseline(id)
  /\ LET base == stream.baselines[BaselineFor(id)]
         delta == sent[id].delta
     IN IF Fits(base, delta)
        THEN /\ Applied(id, ApplyDelta(base, delta))
             /\ Forgets(delta.removed \cup DOMAIN delta.entered)
             /\ UNCHANGED state
        ELSE /\ state' = "ProtocolError"
             /\ stream' = [stream EXCEPT !.highestSeen = id]
             /\ UNCHANGED remembered
  /\ keyframeRequested' = (keyframeRequested \/ LosesSnapshot(id))

RefuseSilently(id, part) == \* mutant: the session is not told
  /\ Completed(id, part)
  /\ ~IsKeyframe(sent[id]) /\ ~HasBaseline(id)
  /\ stream' = [stream EXCEPT !.highestSeen = id, !.requestKeyframe = TRUE]
  /\ UNCHANGED <<keyframeRequested, remembered, state>>

RefuseDelta(id, part) ==
  /\ Completed(id, part)
  /\ ~IsKeyframe(sent[id]) /\ ~HasBaseline(id)
  /\ stream' = [stream EXCEPT !.highestSeen = id, !.requestKeyframe = TRUE]
  /\ keyframeRequested' = TRUE
  /\ UNCHANGED <<remembered, state>>

\* GameSession::FixedUpdate takes the first world.
BecomeRunning ==
  /\ state = "Synchronizing" /\ stream.acknowledged # 0
  /\ state' = "Running"
  /\ UNCHANGED <<server, assembly, stream, keyframeRequested, remembered, inputs, inputSequence>>

\* What an input acknowledges (lastAppliedSnapshotId).
LastApplied(s) == s.acknowledged

PostInput ==
  /\ state = "Running"
  /\ inputSequence < MaxInput
  /\ inputSequence' = inputSequence + 1
  /\ inputs' = inputs \cup {[sequence |-> inputSequence + 1,
                             acknowledged |-> LastApplied(stream),
                             requestKeyframe |-> keyframeRequested]}
  /\ UNCHANGED <<server, client>>

ReceiveFragment(id, part) ==
  \/ ReceivePart(id, part)
  \/ ApplyKeyframe(id, part)
  \/ ApplyDeltaSnapshot(id, part)
  \/ RefuseDelta(id, part)

Next ==
  \/ \E view \in Views : Build(view)
  \/ \E input \in inputs : ReceiveInput(input)
  \/ \E id \in DOMAIN sent : \E part \in Parts(sent[id]) : ReceiveFragment(id, part)
  \/ BecomeRunning
  \/ PostInput

Spec == Init /\ [][Next]_vars
-----------------------------------------------------------------------------
(* Properties *)

\* Whatever was lost, repeated, reordered or replaced on the way, a world the
\* client keeps is the view the server showed it in that snapshot.
ClientSeesWhatWasShown ==
  \A i \in DOMAIN stream.baselines : stream.baselines[i] = shown[i]

\* A delta the client has the baseline of always fits it: ApplyDelta never
\* throws, which would end the session with a protocol error.
DeltasFit == state # "ProtocolError"

\* The server never believes that the client holds a snapshot it has not
\* applied, and never takes an acknowledgement of it for a violation.
ServerNeverAhead == ~refused /\ recipient.acknowledged <= stream.acknowledged

\* What the client acknowledges it can still apply a delta to.
AcknowledgedIsHeld ==
  stream.acknowledged # 0 => stream.acknowledged \in DOMAIN stream.baselines

\* The acknowledgements do what they are for: the client can apply the deltas
\* built against what it acknowledged, the server takes no honest acknowledgement
\* for a violation (it closes the session for one), and the client still holds
\* the world that it will be asked to apply the next delta to.
AcknowledgementsWork == DeltasFit /\ ServerNeverAhead /\ AcknowledgedIsHeld

\* A client that had to refuse a delta keeps asking for a keyframe, in every
\* input, until it has applied a snapshot.
RefusalsAreAsked == stream.requestKeyframe => keyframeRequested

\* While the client acknowledges nothing newer, the server keeps the baseline
\* it acknowledged, however many snapshots it builds.
AcknowledgedBaselineSurvives ==
  [][/\ recipient.acknowledged \in DOMAIN recipient.baselines
     /\ recipient'.acknowledged = recipient.acknowledged
     /\ ServerBaselines > 1
     => recipient.acknowledged \in DOMAIN recipient'.baselines]_vars

\* An actor that comes back to the client's world has a new identity for the
\* interpolation: its leaving or its return was reported in SnapshotApplyResult, and
\* the positions it had before are forgotten.  (What is shown does not depend on
\* it: ClientSession's SceneIsCurrent lets any snapshot reset or not.)
ReenteringIsReset ==
  [][stream'.acknowledged # stream.acknowledged
     => \A e \in DOMAIN stream'.baselines[stream'.acknowledged] \ DOMAIN LatestWorld :
          e \notin remembered']_vars
=============================================================================
