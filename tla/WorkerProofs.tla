---------------------------- MODULE WorkerProofs ----------------------------
(***************************************************************************)
(* The lobby's registry of game servers against servers that answer        *)
(* anything (AnyWorker): its maps, its timers and what it tells            *)
(* LobbyService, for every number of servers, connections and matches.     *)
(***************************************************************************)
EXTENDS AnyWorker, WellFoundedInduction, TLAPS

-----------------------------------------------------------------------------
(* The inductive invariant. *)

Fate == {"New", "Waiting", "Active", "Over"}

OpenTypeOK ==
    /\ ControlTypeOK
    /\ speaker \in [ControlId -> Worker \cup {Nobody}]
    /\ fate \in [Match -> Fate]
    /\ disowned \in SUBSET Match

\* A session is spoken on by the server that opened it, which names itself when
\* it registers, and is the session of no other server.
SpokenBy(k) ==
    /\ session[k] # "None" => k < nextControl /\ speaker[k] \in Worker
    /\ session[k] # "Open" => toLobby[k] = <<>>
    /\ \A i \in 1..Len(toLobby[k]) : toLobby[k][i] \in Frames(speaker[k])

ConnectedOn(w) ==
    wconn[w] # Nobody =>
        session[wconn[w]] \in {"Open", "Closing"} /\ speaker[wconn[w]] = w

SessionInv == /\ \A k \in ControlId : SpokenBy(k)
              /\ \A w \in Worker : ConnectedOn(w)

Owing == {"Reserved", "Cancelling"}
Holding == {"Reserved", "Cancelling", "Active"}

\* A worker's record; it holds nothing the lobby has not asked for.
RecordAgrees(w) ==
    /\ wstate[w] = "Absent" <=> wconn[w] = Nobody
    /\ wmatch[w] # Nobody <=> wstate[w] \in Holding
    /\ wmatch[w] # Nobody => fate[wmatch[w]] # "New"

Tracks(m, w) == tracked[m] = w <=> wmatch[w] = m /\ wstate[w] \in Owing

RegistryInv ==
    /\ \A w \in Worker : RecordAgrees(w)
    /\ \A m \in Match, w \in Worker : Tracks(m, w)
    /\ \A v, w \in Worker : wmatch[v] = wmatch[w] /\ wmatch[v] # Nobody => v = w

\* Another server's Cancelled takes the timer away; nothing else does.
TimerOf(w) == IF wmatch[w] \in disowned THEN Nobody ELSE wconn[w]

TimerInv ==
    /\ \A w \in Worker : wstate[w] \in Owing => timer[wmatch[w]] = TimerOf(w)
    /\ \A m \in Match : timer[m] # Nobody /\ tracked[m] = Nobody =>
           session[timer[m]] = "Closing"

\* What LobbyService will believe of a match once it has taken the event that
\* waits for it, and what the registry's records say of it.
Outcome(e) == IF e.type = "Ready" THEN "Active" ELSE "Over"
Pending(m) == inbox # <<>> /\ inbox[1].match = m
Believed(m) == IF Pending(m) THEN Outcome(inbox[1]) ELSE fate[m]

StateOf(belief) ==
    IF belief = "Waiting" THEN "Reserved"
    ELSE IF belief = "Active" THEN "Active" ELSE "Cancelling"

FateInv ==
    /\ Len(inbox) <= 1
    /\ inbox # <<>> =>
           fate[inbox[1].match] =
               IF inbox[1].type \in {"Failed", "Ready"} THEN "Waiting" ELSE "Active"
    /\ \A w \in Worker : wmatch[w] # Nobody => wstate[w] = StateOf(Believed(wmatch[w]))
    /\ \A m \in Match : Believed(m) \in {"Waiting", "Active"} =>
           \E w \in Worker : wmatch[w] = m

OpenInv ==
    /\ OpenTypeOK
    /\ SessionInv
    /\ RegistryInv
    /\ TimerInv
    /\ FateInv

-----------------------------------------------------------------------------
(* What it says. *)

LEMMA WorkerTypes ==
    /\ \A w \in Worker : w # Nobody
    /\ Nobody \notin Match /\ Nobody \notin ControlId
BY WorkerAssumption DEF Nobody, Match, ControlId

LEMMA OneHolder ==
    ASSUME RegistryInv, NEW v \in Worker, NEW w \in Worker,
           wmatch[v] = wmatch[w], wmatch[v] # Nobody
    PROVE  v = w
BY DEF RegistryInv

LEMMA OneConnection ==
    ASSUME SessionInv, NEW v \in Worker, NEW w \in Worker,
           wconn[v] = wconn[w], wconn[v] # Nobody
    PROVE  v = w
BY DEF SessionInv, ConnectedOn

LEMMA OpenInvSays ==
    ASSUME OpenInv
    PROVE  RegistryAgrees /\ OwedAnswersAreTimed /\ EventsInOrder /\ NothingForgotten
<1>1. RegistryAgrees
  BY OneHolder, OneConnection
  DEF OpenInv, OpenTypeOK, RegistryInv, RecordAgrees, Tracks, Owing, Holding,
      RegistryAgrees
<1>2. OwedAnswersAreTimed
  BY DEF OpenInv, TimerInv, TimerOf, Owing, OwedAnswersAreTimed
<1>3. EventsInOrder
  BY DEF OpenInv, OpenTypeOK, ControlTypeOK, FateInv, EventsInOrder
<1>4. NothingForgotten
  <2> SUFFICES ASSUME NEW m \in Match, fate[m] \in {"Waiting", "Active"}, ~ Pending(m)
               PROVE  \E w \in Worker :
                          /\ wmatch[w] = m
                          /\ wstate[w] = IF fate[m] = "Waiting" THEN "Reserved" ELSE "Active"
    <3>1. ASSUME NEW m \in Match, Pending(m)
          PROVE  \E i \in 1..Len(inbox) : inbox[i].match = m
      <4>1. 1 \in 1..Len(inbox)
        BY <3>1 DEF Pending, OpenInv, OpenTypeOK, ControlTypeOK
      <4> QED  BY <3>1, <4>1 DEF Pending
    <3> QED  BY <3>1 DEF NothingForgotten
  <2>1. PICK w \in Worker : wmatch[w] = m
    BY DEF OpenInv, FateInv, Believed
  <2>2. wstate[w] = StateOf(fate[m])
    BY <2>1, WorkerTypes DEF OpenInv, FateInv, Believed
  <2> QED  BY <2>1, <2>2 DEF StateOf
<1> QED  BY <1>1, <1>2, <1>3, <1>4

LEMMA InitOpenInv == OpenInit => OpenInv
<1> SUFFICES ASSUME OpenInit PROVE OpenInv  OBVIOUS
<1> USE WorkerAssumption, WorkerTypes DEF OpenInit, Init
<1>1. OpenTypeOK
  BY DEF OpenTypeOK, ControlTypeOK, WorkerState, ControlId, Fate
<1>2. SessionInv
  BY DEF SessionInv, SpokenBy, ConnectedOn
<1>3. RegistryInv
  BY DEF RegistryInv, RecordAgrees, Tracks, Holding, Owing
<1>4. TimerInv  BY DEF TimerInv, Owing
<1>5. FateInv  BY DEF FateInv, Believed, Pending
<1> QED  BY <1>1, <1>2, <1>3, <1>4, <1>5 DEF OpenInv

-----------------------------------------------------------------------------
(* Sessions. *)

AllIn(s, S) == \A i \in 1..Len(s) : s[i] \in S

LEMMA TailAllIn ==
    ASSUME NEW M, NEW s \in Seq(M), s # <<>>, NEW S, AllIn(s, S)
    PROVE  AllIn(Tail(s), S)
<1> SUFFICES ASSUME NEW i \in 1..Len(Tail(s)) PROVE Tail(s)[i] \in S  BY DEF AllIn
<1>1. Len(Tail(s)) = Len(s) - 1 /\ Len(s) \in Nat  OBVIOUS
<1>2. i + 1 \in 1..Len(s) /\ Tail(s)[i] = s[i + 1]  BY <1>1
<1> QED  BY <1>2 DEF AllIn

LEMMA AppendAllIn ==
    ASSUME NEW M, NEW s \in Seq(M), NEW e \in M, NEW S, AllIn(s, S), e \in S
    PROVE  AllIn(Append(s, e), S)
<1> SUFFICES ASSUME NEW i \in 1..Len(Append(s, e)) PROVE Append(s, e)[i] \in S
  BY DEF AllIn
<1>1. CASE i = Len(s) + 1  BY <1>1
<1>2. CASE i # Len(s) + 1
  <2>1. i \in 1..Len(s) /\ Append(s, e)[i] = s[i]  BY <1>2
  <2> QED  BY <2>1 DEF AllIn
<1> QED  BY <1>1, <1>2

LEMMA FrameTypes ==
    ASSUME NEW w \in Worker
    PROVE  Frames(w) \subseteq Message
BY DEF Frames, About, For, Message

LEMMA SpokenSays ==
    ASSUME OpenInv, NEW k \in ControlId
    PROVE  /\ toLobby[k] \in Seq(Message)
           /\ AllIn(toLobby[k], Frames(speaker[k]))
           /\ session[k] # "None" => k < nextControl /\ speaker[k] \in Worker
           /\ session[k] # "Open" => toLobby[k] = <<>>
BY DEF OpenInv, OpenTypeOK, ControlTypeOK, SessionInv, SpokenBy, AllIn

\* The frame a session is about to read is its speaker's.
LEMMA FrameRead ==
    ASSUME OpenInv, NEW k \in ControlId, HasFrame(k)
    PROVE  /\ speaker[k] \in Worker
           /\ Head(toLobby[k]) \in Frames(speaker[k])
           /\ Head(toLobby[k]) \in Message
<1>1. speaker[k] \in Worker /\ toLobby[k] # <<>>  BY SpokenSays DEF HasFrame
<1>2. Head(toLobby[k]) = toLobby[k][1] /\ 1 \in 1..Len(toLobby[k])
  BY <1>1, SpokenSays
<1>3. Head(toLobby[k]) \in Frames(speaker[k])  BY <1>2, SpokenSays DEF AllIn
<1> QED  BY <1>1, <1>3, FrameTypes

\* A session as the step leaves it.
LEMMA SpokenAfter ==
    ASSUME NEW k, AllIn(toLobby'[k], Frames(speaker[k])'),
           session'[k] # "None" => k < nextControl' /\ speaker'[k] \in Worker,
           session'[k] # "Open" => toLobby'[k] = <<>>
    PROVE  SpokenBy(k)'
BY DEF SpokenBy, AllIn

LEMMA SameSpoken ==
    ASSUME OpenInv, NEW k \in ControlId, session'[k] = session[k],
           toLobby'[k] = toLobby[k], speaker'[k] = speaker[k],
           nextControl' \in {nextControl, nextControl + 1}
    PROVE  SpokenBy(k)'
<1>1. nextControl \in Nat /\ k \in Nat
  BY DEF OpenInv, OpenTypeOK, ControlTypeOK, ControlId
<1>2. session[k] # "None" => k < nextControl' /\ speaker'[k] \in Worker
  BY <1>1, SpokenSays
<1>3. Frames(speaker[k])' = Frames(speaker[k])  BY DEF Frames
<1> QED  BY <1>2, <1>3, SpokenAfter, SpokenSays

LEMMA ConsumedSpoken ==
    ASSUME OpenInv, NEW k \in ControlId, HasFrame(k), Consumed(k),
           UNCHANGED <<nextControl, session, speaker>>
    PROVE  \A j \in ControlId : SpokenBy(j)'
<1> TAKE j \in ControlId
<1>1. toLobby' = [toLobby EXCEPT ![k] = Tail(@)]  BY DEF Consumed
<1>2. CASE j = k
  <2>1. toLobby'[k] = Tail(toLobby[k])
    BY <1>1 DEF OpenInv, OpenTypeOK, ControlTypeOK
  <2>2. toLobby[k] # <<>> /\ session[k] = "Open"  BY DEF HasFrame
  <2>3. AllIn(Tail(toLobby[k]), Frames(speaker[k]))
    BY <2>2, SpokenSays, TailAllIn
  <2>4. Frames(speaker[k])' = Frames(speaker[k])  BY DEF Frames
  <2>5. AllIn(toLobby'[k], Frames(speaker[k])')  BY <2>1, <2>3, <2>4
  <2> QED  BY <1>2, <2>2, <2>5, SpokenAfter, SpokenSays
<1>3. CASE j # k
  <2>1. toLobby'[j] = toLobby[j]  BY <1>1, <1>3 DEF OpenInv, OpenTypeOK, ControlTypeOK
  <2> QED  BY <2>1, SameSpoken
<1> QED  BY <1>2, <1>3

LEMMA ClosedSpoken ==
    ASSUME OpenInv, NEW k \in ControlId, session[k] # "None",
           session' = [session EXCEPT ![k] = "Closing"] \/
               session' = [session EXCEPT ![k] = "Gone"],
           toLobby' = [toLobby EXCEPT ![k] = <<>>],
           UNCHANGED <<nextControl, speaker>>
    PROVE  \A j \in ControlId : SpokenBy(j)'
<1> TAKE j \in ControlId
<1>1. CASE j = k
  <2>1. toLobby'[k] = <<>>  BY DEF OpenInv, OpenTypeOK, ControlTypeOK
  <2>2. AllIn(toLobby'[k], Frames(speaker[k])')  BY <2>1 DEF AllIn
  <2> QED  BY <1>1, <2>1, <2>2, SpokenAfter, SpokenSays
<1>2. CASE j # k
  <2>1. toLobby'[j] = toLobby[j] /\ session'[j] = session[j]
    BY <1>2 DEF OpenInv, OpenTypeOK, ControlTypeOK
  <2> QED  BY <2>1, SameSpoken
<1> QED  BY <1>1, <1>2

\* A worker keeps its connection or loses it.
LEMMA ConnectedAfter ==
    ASSUME OpenInv, UNCHANGED speaker,
           \A w \in Worker : wconn'[w] \in {wconn[w], Nobody},
           \A k \in ControlId : session[k] \in {"Open", "Closing"} =>
               \/ session'[k] \in {"Open", "Closing"}
               \/ \A w \in Worker : wconn'[w] # k
    PROVE  \A w \in Worker : ConnectedOn(w)'
<1> SUFFICES ASSUME NEW w \in Worker, wconn'[w] # Nobody
             PROVE  session'[wconn'[w]] \in {"Open", "Closing"} /\ speaker'[wconn'[w]] = w
  BY DEF ConnectedOn
<1>1. wconn'[w] = wconn[w] /\ wconn[w] \in ControlId
  BY DEF OpenInv, OpenTypeOK, ControlTypeOK
<1>2. session[wconn[w]] \in {"Open", "Closing"} /\ speaker[wconn[w]] = w
  BY <1>1 DEF OpenInv, SessionInv, ConnectedOn
<1> QED  BY <1>1, <1>2

\* A worker is known by the connection its server speaks on.
LEMMA ConnectionSays ==
    ASSUME OpenInv, NEW w \in Worker, NEW k \in ControlId, wconn[w] = k
    PROVE  /\ session[k] \in {"Open", "Closing"} /\ speaker[k] = w
           /\ wstate[w] # "Absent" /\ k # Nobody
BY WorkerTypes
DEF OpenInv, SessionInv, ConnectedOn, RegistryInv, RecordAgrees

-----------------------------------------------------------------------------
(* Steps of the registry: each changes one worker's record. *)

OthersKept(w) ==
    \A v \in Worker : v # w =>
        wstate'[v] = wstate[v] /\ wconn'[v] = wconn[v] /\ wmatch'[v] = wmatch[v]

TrackedAfter(w) ==
    \A m \in Match :
        tracked'[m] = IF m = wmatch'[w] /\ wstate'[w] \in Owing THEN w
                      ELSE IF m = wmatch[w] THEN Nobody ELSE tracked[m]

\* The worker keeps its match, loses it, or is given a new one.
MatchAfter(w) ==
    \/ wmatch'[w] \in {wmatch[w], Nobody}
    \/ wmatch'[w] \in Match /\ fate[wmatch'[w]] = "New"

LEMMA TrackedSays ==
    ASSUME OpenInv, NEW m \in Match
    PROVE  /\ tracked[m] # Nobody =>
                  /\ tracked[m] \in Worker /\ wmatch[tracked[m]] = m
                  /\ wstate[tracked[m]] \in Owing
           /\ tracked[m] = Nobody => \A w \in Worker :
                  wmatch[w] = m => wstate[w] \notin Owing
BY WorkerTypes DEF OpenInv, OpenTypeOK, ControlTypeOK, RegistryInv, Tracks

LEMMA NewIsFree ==
    ASSUME OpenInv, NEW m \in Match, fate[m] = "New"
    PROVE  /\ \A w \in Worker : wmatch[w] # m
           /\ tracked[m] = Nobody
<1>1. \A w \in Worker : wmatch[w] # m
  BY WorkerTypes DEF OpenInv, RegistryInv, RecordAgrees
<1>2. tracked[m] = Nobody  BY <1>1, TrackedSays
<1> QED  BY <1>1, <1>2

\* A step that leaves the registry's maps alone, and un-asks for nothing.
LEMMA RegistryKept ==
    ASSUME OpenInv, UNCHANGED registryVars,
           \A n \in Match : fate[n] # "New" => fate'[n] # "New"
    PROVE  RegistryInv'
<1>1. ASSUME NEW v \in Worker PROVE RecordAgrees(v)'
  <2>1. RecordAgrees(v) /\ wmatch[v] \in Match \cup {Nobody}
    BY DEF OpenInv, RegistryInv, OpenTypeOK, ControlTypeOK
  <2> QED  BY <2>1 DEF RecordAgrees, registryVars
<1> QED  BY <1>1 DEF OpenInv, RegistryInv, Tracks, registryVars

LEMMA RegistryAfter ==
    ASSUME OpenInv, NEW w \in Worker, OthersKept(w), TrackedAfter(w), MatchAfter(w),
           RecordAgrees(w)', \A n \in Match : fate[n] # "New" => fate'[n] # "New"
    PROVE  RegistryInv'
<1>1. ASSUME NEW v \in Worker, v # w PROVE RecordAgrees(v)'
  <2>1. RecordAgrees(v) /\ wmatch[v] \in Match \cup {Nobody}
    BY DEF OpenInv, RegistryInv, OpenTypeOK, ControlTypeOK
  <2> QED  BY <1>1, <2>1 DEF RecordAgrees, OthersKept
<1>2. ASSUME NEW m \in Match, NEW v \in Worker, v # w PROVE Tracks(m, v)'
  <2>1. wmatch'[v] = wmatch[v] /\ wstate'[v] = wstate[v]  BY <1>2 DEF OthersKept
  <2>2. Tracks(m, v)  BY DEF OpenInv, RegistryInv
  <2>3. CASE m = wmatch'[w] \/ m = wmatch[w]
    <3>1. wmatch[v] # m
      BY <1>2, <2>3, OneHolder, NewIsFree, WorkerTypes DEF MatchAfter, OpenInv
    <3>2. tracked[m] # v  BY <2>2, <3>1 DEF Tracks
    <3>3. tracked'[m] # v  BY <1>2, <3>2, WorkerTypes DEF TrackedAfter
    <3> QED  BY <2>1, <3>1, <3>3 DEF Tracks
  <2>4. CASE m # wmatch'[w] /\ m # wmatch[w]
    <3>1. tracked'[m] = tracked[m]  BY <2>4 DEF TrackedAfter
    <3> QED  BY <2>1, <2>2, <3>1 DEF Tracks
  <2> QED  BY <2>3, <2>4
<1>3. ASSUME NEW m \in Match PROVE Tracks(m, w)'
  <2>1. CASE m = wmatch'[w] /\ wstate'[w] \in Owing
    <3>1. tracked'[m] = w  BY <2>1 DEF TrackedAfter
    <3> QED  BY <2>1, <3>1 DEF Tracks
  <2>2. CASE ~ (m = wmatch'[w] /\ wstate'[w] \in Owing)
    <3>1. CASE m = wmatch[w]
      <4>1. tracked'[m] = Nobody  BY <2>2, <3>1 DEF TrackedAfter
      <4> QED  BY <2>2, <4>1, WorkerTypes DEF Tracks
    <3>2. CASE m # wmatch[w]
      <4>1. tracked[m] # w  BY <3>2 DEF OpenInv, RegistryInv, Tracks
      <4>2. tracked'[m] # w
        <5>1. tracked'[m] = tracked[m]  BY <2>2, <3>2 DEF TrackedAfter
        <5> QED  BY <4>1, <5>1
      <4> QED  BY <2>2, <4>2 DEF Tracks
    <3> QED  BY <3>1, <3>2
  <2> QED  BY <2>1, <2>2
<1>4. \A v \in Worker : RecordAgrees(v)'  BY <1>1
<1>5. \A m \in Match, v \in Worker : Tracks(m, v)'  BY <1>2, <1>3
<1>6. ASSUME NEW u \in Worker, NEW v \in Worker, wmatch'[u] = wmatch'[v],
             wmatch'[u] # Nobody, u # w
      PROVE  u = v
  <2>1. wmatch'[u] = wmatch[u] /\ wmatch[u] # Nobody  BY <1>6 DEF OthersKept
  <2>2. CASE v = w
    <3>1. wmatch[w] # wmatch[u]  BY <1>6, <2>1, OneHolder DEF OpenInv
    <3>2. wmatch'[w] # wmatch[u]  BY <2>1, <3>1, NewIsFree DEF MatchAfter
    <3> QED  BY <1>6, <2>1, <2>2, <3>2
  <2>3. CASE v # w  BY <1>6, <2>1, <2>3, OneHolder DEF OthersKept, OpenInv
  <2> QED  BY <2>2, <2>3
<1>7. \A u, v \in Worker : wmatch'[u] = wmatch'[v] /\ wmatch'[u] # Nobody => u = v
  BY <1>6
<1> QED  BY <1>4, <1>5, <1>7 DEF RegistryInv

LEMMA TimerAfter ==
    ASSUME OpenInv, NEW w \in Worker, OthersKept(w), MatchAfter(w),
           \A m \in Match : \/ timer'[m] = timer[m] \/ tracked[m] = Nobody
                            \/ m \in {wmatch[w], wmatch'[w]}
                            \/ wconn[w] # Nobody /\ timer[m] = wconn[w],
           wstate'[w] \in Owing => timer'[wmatch'[w]] = TimerOf(w)',
           \A m \in Match : (m \in disowned') # (m \in disowned) => m = wmatch'[w],
           \A k \in ControlId : session[k] = "Closing" =>
               session'[k] = "Closing" \/ \A m \in Match : timer'[m] # k,
           \A m \in Match : tracked[m] # Nobody /\ tracked'[m] = Nobody =>
               timer'[m] = Nobody \/ session'[timer'[m]] = "Closing",
           \A m \in Match : timer'[m] \in {timer[m], Nobody} \/ tracked'[m] # Nobody
    PROVE  TimerInv'
<1>1. ASSUME NEW v \in Worker, wstate'[v] \in Owing
      PROVE  timer'[wmatch'[v]] = TimerOf(v)'
  <2>1. CASE v = w  BY <1>1, <2>1
  <2>2. CASE v # w
    <3> DEFINE m == wmatch[v]
    <3>1. wmatch'[v] = m /\ wconn'[v] = wconn[v] /\ wstate[v] \in Owing
      BY <1>1, <2>2 DEF OthersKept
    <3>2. m \in Match /\ m # Nobody
      BY <3>1, WorkerTypes
      DEF OpenInv, OpenTypeOK, ControlTypeOK, RegistryInv, RecordAgrees, Owing, Holding
    <3>3. timer[m] \in {Nobody, wconn[v]} /\ timer[m] = TimerOf(v) /\ wconn[v] # Nobody
      BY <3>1 DEF OpenInv, TimerInv, TimerOf, RegistryInv, RecordAgrees, Owing
    <3>4. tracked[m] # Nobody  BY <3>1, <3>2, TrackedSays
    <3>5. m # wmatch[w]  BY <2>2, <3>2, OneHolder DEF OpenInv
    <3>6. m # wmatch'[w]  BY <3>2, <3>5, NewIsFree DEF MatchAfter
    <3>7. wconn[v] # wconn[w]  BY <2>2, <3>3, OneConnection DEF OpenInv
    <3>8. timer'[m] = timer[m]  BY <3>2, <3>3, <3>4, <3>5, <3>6, <3>7
    <3>9. TimerOf(v)' = TimerOf(v)  BY <3>1, <3>2, <3>6 DEF TimerOf
    <3> QED  BY <3>1, <3>3, <3>8, <3>9
  <2> QED  BY <2>1, <2>2
<1>2. ASSUME NEW m \in Match, timer'[m] # Nobody, tracked'[m] = Nobody
      PROVE  session'[timer'[m]] = "Closing"
  <2>1. timer'[m] = timer[m] /\ timer[m] \in ControlId
    BY <1>2 DEF OpenInv, OpenTypeOK, ControlTypeOK
  <2>2. CASE tracked[m] # Nobody  BY <1>2, <2>2
  <2>3. CASE tracked[m] = Nobody
    <3>1. session[timer[m]] = "Closing"  BY <1>2, <2>1, <2>3 DEF OpenInv, TimerInv
    <3> QED  BY <2>1, <3>1
  <2> QED  BY <2>2, <2>3
<1> QED  BY <1>1, <1>2 DEF TimerInv


\* What the step tells LobbyService of match m.
Told(m) ==
    \/ inbox' = <<>>
    \/ \E e \in Event : /\ inbox' = <<e>> /\ e.match = m
                        /\ fate[m] = IF e.type \in {"Failed", "Ready"} THEN "Waiting"
                                     ELSE "Active"

\* The lobby's belief of a match follows the record of the worker that holds it.
LEMMA FateAfter ==
    ASSUME OpenInv, inbox = <<>>, NEW w \in Worker, NEW m \in Match, wmatch[w] = m,
           OthersKept(w), UNCHANGED fate, Told(m),
           \/ wmatch'[w] = m /\ wstate'[w] = StateOf(Believed(m)')
           \/ wmatch'[w] = Nobody /\ Believed(m)' \notin {"Waiting", "Active"}
    PROVE  FateInv'
<1>1. \A n \in Match : Believed(n) = fate[n]  BY DEF Believed, Pending
<1>2. \A n \in Match : n # m => Believed(n)' = fate[n]
  BY DEF Told, Believed, Pending
<1>3. Len(inbox') <= 1
  <2>1. CASE inbox' = <<>>
    <3>1. Len(inbox') = 0  BY <2>1
    <3> QED  BY <3>1
  <2>2. ASSUME NEW e, inbox' = <<e>> PROVE Len(inbox') <= 1
    <3>1. Len(inbox') = 1  BY <2>2
    <3> QED  BY <3>1
  <2> QED  BY <2>1, <2>2 DEF Told
<1>4. inbox' # <<>> => fate'[inbox'[1].match] =
          IF inbox'[1].type \in {"Failed", "Ready"} THEN "Waiting" ELSE "Active"
  BY DEF Told
<1>5. ASSUME NEW v \in Worker, wmatch'[v] # Nobody, NEW n \in Match, n = wmatch'[v]
      PROVE  wstate'[v] = StateOf(Believed(n)')
  <2>1. CASE v = w
    <3>1. wmatch'[w] = m /\ wstate'[w] = StateOf(Believed(m)')
      BY <1>5, <2>1
    <3>2. n = m  BY <1>5, <2>1, <3>1
    <3>3. Believed(n)' = Believed(m)'  BY <3>2 DEF Believed, Pending
    <3> QED  BY <2>1, <3>1, <3>3
  <2>2. CASE v # w
    <3>1. wmatch[v] = n /\ wstate'[v] = wstate[v]  BY <1>5, <2>2 DEF OthersKept
    <3>2. n # m  BY <1>5, <2>2, <3>1, OneHolder DEF OpenInv
    <3>3. wstate[v] = StateOf(fate[n])
      BY <1>1, <1>5, <3>1 DEF OpenInv, FateInv
    <3> QED  BY <1>2, <3>1, <3>2, <3>3
  <2> QED  BY <2>1, <2>2
<1>6. ASSUME NEW n \in Match, Believed(n)' \in {"Waiting", "Active"}
      PROVE  \E v \in Worker : wmatch'[v] = n
  <2>1. CASE n = m  BY <1>6, <2>1
  <2>2. CASE n # m
    <3>1. PICK v \in Worker : wmatch[v] = n
      BY <1>1, <1>2, <1>6, <2>2 DEF OpenInv, FateInv
    <3>2. v # w  BY <2>2, <3>1
    <3> QED  BY <3>1, <3>2 DEF OthersKept
  <2> QED  BY <2>1, <2>2
<1>7. ASSUME NEW v \in Worker, wmatch'[v] # Nobody
      PROVE  wstate'[v] = StateOf(Believed(wmatch[v]))'
  <2>1. PICK n : n = wmatch'[v]  OBVIOUS
  <2>2. n \in Match
    BY <1>7, <2>1 DEF OthersKept, OpenInv, OpenTypeOK, ControlTypeOK
  <2>3. wstate'[v] = StateOf(Believed(n)')  BY <1>5, <1>7, <2>1, <2>2
  <2> QED  BY <2>1, <2>3 DEF StateOf, Believed, Pending
<1> QED  BY <1>3, <1>4, <1>6, <1>7 DEF FateInv

LEMMA FateKept ==
    ASSUME OpenInv, UNCHANGED <<inbox, fate, wmatch>>,
           \A w \in Worker : wmatch[w] # Nobody => wstate'[w] = wstate[w]
    PROVE  FateInv'
BY DEF OpenInv, FateInv, StateOf, Believed, Pending, Outcome

\* A record's state tells what the lobby believes.
LEMMA HolderSays ==
    ASSUME OpenInv, inbox = <<>>, NEW w \in Worker, wstate[w] \in Holding
    PROVE  /\ wmatch[w] \in Match /\ wmatch[w] # Nobody
           /\ wstate[w] = StateOf(fate[wmatch[w]])
<1>1. wmatch[w] \in Match /\ wmatch[w] # Nobody
  BY DEF OpenInv, OpenTypeOK, ControlTypeOK, RegistryInv, RecordAgrees
<1> QED  BY <1>1 DEF OpenInv, FateInv, Believed, Pending

LEMMA VerdictSays ==
    ASSUME NEW w, NEW msg
    PROVE  /\ Verdict(w, msg) = "Activate" =>
                  msg.type = "Ready" /\ wstate[w] = "Reserved" /\ wmatch[w] = msg.match
           /\ Verdict(w, msg) = "Fail" => wstate[w] = "Reserved" /\ wmatch[w] = msg.match
           /\ Verdict(w, msg) = "Release" => wstate[w] = "Cancelling" /\ wmatch[w] = msg.match
           /\ Verdict(w, msg) = "Finish" => wstate[w] = "Active" /\ wmatch[w] = msg.match
           /\ Verdict(w, msg) = "Ignore" /\ msg.type = "Cancelled" =>
                  wstate[w] \in {"Idle", "Active"}
BY DEF Verdict

\* The unchanged part of a step on the channel.
LEMMA OpenTypesAfter ==
    ASSUME OpenTypeOK, ControlTypeOK', UNCHANGED <<speaker, fate, disowned>>
    PROVE  OpenTypeOK'
BY DEF OpenTypeOK

-----------------------------------------------------------------------------
(* The ways out of a reservation. *)

LEMMA DroppedKeeps ==
    ASSUME OpenInv, inbox = <<>>, NEW w \in Worker, Dropped(w),
           UNCHANGED fate
    PROVE  /\ OthersKept(w) /\ MatchAfter(w) /\ RegistryInv' /\ FateInv'
           /\ wstate' \in [Worker -> WorkerState]
           /\ wconn' \in [Worker -> ControlId \cup {Nobody}]
           /\ wmatch' \in [Worker -> Match \cup {Nobody}]
           /\ tracked' \in [Match -> Worker \cup {Nobody}]
           /\ inbox' \in Seq(Event)
           /\ wstate'[w] = "Absent" /\ wconn'[w] = Nobody
           /\ \A v \in Worker : wconn'[v] \in {wconn[v], Nobody}
           /\ \A m \in Match : tracked[m] # Nobody /\ tracked'[m] = Nobody => m = wmatch[w]
<1> USE DEF OpenInv, OpenTypeOK, ControlTypeOK
<1>1. /\ wstate' = [wstate EXCEPT ![w] = "Absent"]
      /\ wmatch' = [wmatch EXCEPT ![w] = Nobody]
      /\ wconn' = [wconn EXCEPT ![w] = Nobody]
      /\ tracked' = [m \in Match |-> IF m = wmatch[w] THEN Nobody ELSE tracked[m]]
      /\ inbox' = inbox \o LossEvents(w)
  BY DEF Dropped
<1>2. /\ wstate'[w] = "Absent" /\ wmatch'[w] = Nobody /\ wconn'[w] = Nobody
      /\ OthersKept(w) /\ MatchAfter(w)
  BY <1>1 DEF OthersKept, MatchAfter
<1>3. /\ wstate' \in [Worker -> WorkerState]
      /\ wconn' \in [Worker -> ControlId \cup {Nobody}]
      /\ wmatch' \in [Worker -> Match \cup {Nobody}]
      /\ tracked' \in [Match -> Worker \cup {Nobody}]
  BY <1>1 DEF WorkerState
<1>4. RegistryInv'
  <2>1. TrackedAfter(w)  BY <1>1, <1>2 DEF TrackedAfter, Owing
  <2>2. RecordAgrees(w)'  BY <1>2 DEF RecordAgrees, Holding
  <2> QED  BY <1>2, <2>1, <2>2, RegistryAfter
<1>5. CASE wstate[w] \notin Holding
  <2>1. wmatch[w] = Nobody  BY <1>5 DEF RegistryInv, RecordAgrees
  <2>2. LossEvents(w) = <<>>  BY <1>5 DEF LossEvents, Holding
  <2>3. inbox' = inbox  BY <1>1, <2>2
  <2>4. wmatch' = wmatch  BY <1>1, <2>1
  <2>5. FateInv'
    BY <1>2, <2>1, <2>3, <2>4, FateKept DEF OthersKept
  <2> QED  BY <1>1, <1>2, <1>3, <1>4, <2>3, <2>5
<1>6. CASE wstate[w] \in Holding
  <2>1. PICK m \in Match : m = wmatch[w]  BY <1>6, HolderSays
  <2>2. wstate[w] = StateOf(fate[m])  BY <1>6, <2>1, HolderSays
  <2>3. inbox' \in Seq(Event) /\ Told(m) /\ Believed(m)' \notin {"Waiting", "Active"}
    <3>1. CASE wstate[w] = "Cancelling"
      <4>1. LossEvents(w) = <<>>  BY <3>1 DEF LossEvents
      <4>2. inbox' = <<>>  BY <1>1, <4>1
      <4>3. fate[m] \notin {"Waiting", "Active"}  BY <2>2, <3>1 DEF StateOf
      <4> QED  BY <4>2, <4>3 DEF Told, Believed, Pending
    <3>2. ASSUME NEW e, inbox' = <<e>>, e \in Event, e.match = m, e.type # "Ready",
                 fate[m] = IF e.type \in {"Failed", "Ready"} THEN "Waiting" ELSE "Active"
          PROVE  inbox' \in Seq(Event) /\ Told(m) /\ Believed(m)' \notin {"Waiting", "Active"}
      <4>1. inbox' # <<>> /\ inbox'[1] = e  BY <3>2
      <4>2. Believed(m)' = "Over"  BY <3>2, <4>1 DEF Believed, Pending, Outcome
      <4> QED  BY <3>2, <4>2 DEF Told
    <3>3. CASE wstate[w] = "Reserved"
      <4> DEFINE e == [type |-> "Failed", worker |-> Nobody, match |-> m]
      <4>1. inbox' = <<e>>  BY <1>1, <2>1, <3>3 DEF LossEvents
      <4>2. e \in Event /\ e.match = m /\ e.type = "Failed"  BY DEF Event
      <4>3. fate[m] = "Waiting"  BY <2>2, <3>3 DEF StateOf
      <4> QED  BY <3>2, <4>1, <4>2, <4>3
    <3>4. CASE wstate[w] = "Active"
      <4> DEFINE e == [type |-> "Unavailable", worker |-> w, match |-> m]
      <4>1. inbox' = <<e>>  BY <1>1, <2>1, <3>4 DEF LossEvents
      <4>2. e \in Event /\ e.match = m /\ e.type = "Unavailable"  BY DEF Event
      <4>3. fate[m] = "Active"  BY <2>2, <3>4 DEF StateOf
      <4> QED  BY <3>2, <4>1, <4>2, <4>3
    <3> QED  BY <1>6, <3>1, <3>3, <3>4 DEF Holding
  <2>4. FateInv'  BY <1>2, <2>1, <2>3, FateAfter
  <2> QED  BY <1>1, <1>2, <1>3, <1>4, <2>3, <2>4
<1> QED  BY <1>5, <1>6

LEMMA ClearedKeeps ==
    ASSUME OpenInv, inbox = <<>>, NEW w \in Worker, wstate[w] \in Holding, Cleared(w),
           UNCHANGED fate
    PROVE  /\ OthersKept(w) /\ MatchAfter(w) /\ RegistryInv'
           /\ wstate' \in [Worker -> WorkerState]
           /\ wconn' = wconn
           /\ wmatch' \in [Worker -> Match \cup {Nobody}]
           /\ tracked' \in [Match -> Worker \cup {Nobody}]
           /\ wstate'[w] = "Idle" /\ wmatch'[w] = Nobody
           /\ \A m \in Match : tracked[m] # Nobody /\ tracked'[m] = Nobody => m = wmatch[w]
<1> USE DEF OpenInv, OpenTypeOK, ControlTypeOK
<1>1. /\ wstate' = [wstate EXCEPT ![w] = "Idle"]
      /\ wmatch' = [wmatch EXCEPT ![w] = Nobody]
      /\ wconn' = wconn
      /\ tracked' = [m \in Match |-> IF m = wmatch[w] THEN Nobody ELSE tracked[m]]
  BY DEF Cleared
<1>2. /\ wstate'[w] = "Idle" /\ wmatch'[w] = Nobody
      /\ OthersKept(w) /\ MatchAfter(w)
  BY <1>1 DEF OthersKept, MatchAfter
<1>3. /\ wstate' \in [Worker -> WorkerState]
      /\ wmatch' \in [Worker -> Match \cup {Nobody}]
      /\ tracked' \in [Match -> Worker \cup {Nobody}]
  BY <1>1 DEF WorkerState
<1>4. TrackedAfter(w)  BY <1>1, <1>2 DEF TrackedAfter, Owing
<1>5. RecordAgrees(w)'
  <2>1. wconn[w] # Nobody  BY DEF RegistryInv, RecordAgrees, Holding
  <2> QED  BY <1>1, <1>2, <2>1 DEF RecordAgrees, Holding
<1>6. RegistryInv'  BY <1>2, <1>4, <1>5, RegistryAfter
<1> QED  BY <1>1, <1>2, <1>3, <1>6

-----------------------------------------------------------------------------
(* The channel's steps. *)

\* What the steps of the channel leave alone.
ChannelStep == Quiet /\ UNCHANGED <<speaker, fate, disowned>>

LEMMA ConsumedType ==
    ASSUME OpenInv, NEW k \in ControlId, HasFrame(k), Consumed(k)
    PROVE  toLobby' \in [ControlId -> Seq(Message)]
<1>1. toLobby[k] \in Seq(Message) /\ toLobby[k] # <<>>
  BY SpokenSays DEF HasFrame
<1>2. Tail(toLobby[k]) \in Seq(Message)  BY <1>1
<1> QED  BY <1>2 DEF Consumed, OpenInv, OpenTypeOK, ControlTypeOK

LEMMA ClosedType ==
    ASSUME OpenInv, NEW k \in ControlId, Closed(k)
    PROVE  /\ toLobby' \in [ControlId -> Seq(Message)]
           /\ session' \in [ControlId -> {"None", "Open", "Closing", "Gone"}]
           /\ session'[k] = "Closing"
           /\ \A j \in ControlId : session'[j] \in {session[j], "Closing"}
BY DEF Closed, OpenInv, OpenTypeOK, ControlTypeOK

LEMMA SentType ==
    ASSUME OpenInv, NEW k \in ControlId, NEW msg \in Message, toServer' = Sent(k, msg)
    PROVE  toServer' \in [ControlId -> Seq(Message)]
BY DEF Sent, OpenInv, OpenTypeOK, ControlTypeOK

\* A session closes on its own: no record changes.
LEMMA CloseKeeps ==
    ASSUME OpenInv, ChannelStep, NEW k \in ControlId, session[k] = "Open", Closed(k),
           UNCHANGED <<nextControl, registryVars, timer, toServer, inbox>>
    PROVE  OpenInv'
<1>1. ControlTypeOK'
  BY ClosedType DEF OpenInv, OpenTypeOK, ControlTypeOK, registryVars
<1>2. OpenTypeOK'  BY <1>1, OpenTypesAfter DEF ChannelStep, OpenInv
<1>3. SessionInv'
  <2>1. \A j \in ControlId : SpokenBy(j)'
    BY ClosedSpoken DEF Closed, ChannelStep
  <2>2. \A w \in Worker : ConnectedOn(w)'
    BY ConnectedAfter, ClosedType DEF ChannelStep, registryVars
  <2> QED  BY <2>1, <2>2 DEF SessionInv
<1>4. RegistryInv'
  BY RegistryKept DEF ChannelStep
<1>6. TimerInv'
  <2>1. \A j \in ControlId : session[j] = "Closing" => session'[j] = "Closing"
    BY ClosedType
  <2>2. \A m \in Match : timer[m] \in ControlId \cup {Nobody}
    BY DEF OpenInv, OpenTypeOK, ControlTypeOK
  <2> QED  BY <2>1, <2>2 DEF ChannelStep, registryVars, OpenInv, TimerInv, TimerOf
<1>7. FateInv'  BY FateKept DEF ChannelStep, registryVars
<1> QED  BY <1>2, <1>3, <1>4, <1>6, <1>7 DEF OpenInv

LEMMA RegisterKeeps ==
    ASSUME OpenInv, ChannelStep, NEW k \in ControlId, ReceiveRegister(k)
    PROVE  OpenInv'
<1>1. HasFrame(k) /\ Unregistered(k) /\ Head(toLobby[k]).type = "Register"
  BY DEF ReceiveRegister
<1>2. speaker[k] \in Worker /\ Head(toLobby[k]) \in Frames(speaker[k])
  BY <1>1, FrameRead
<1>3. PICK w \in Worker : w = speaker[k] /\ w = Head(toLobby[k]).worker
  BY <1>1, <1>2 DEF Frames, About, For
<1>4. session[k] = "Open"  BY <1>1 DEF HasFrame
<1>5. CASE wstate[w] # "Absent"
  BY <1>3, <1>4, <1>5, CloseKeeps DEF ReceiveRegister
<1>6. CASE wstate[w] = "Absent"
  <2>1. /\ wstate' = [wstate EXCEPT ![w] = "Idle"]
        /\ wconn' = [wconn EXCEPT ![w] = k]
        /\ toServer' = Sent(k, About("Registered", w))
        /\ Consumed(k)
        /\ UNCHANGED <<nextControl, session, wmatch, tracked, timer, inbox>>
    BY <1>3, <1>6 DEF ReceiveRegister
  <2>2. w \in Worker /\ wmatch[w] = Nobody
    BY <1>2, <1>3, <1>6 DEF OpenInv, RegistryInv, RecordAgrees, Holding
  <2>3. About("Registered", w) \in Message  BY <2>2 DEF About, Message
  <2>4. ControlTypeOK'
    <3>1. toServer' \in [ControlId -> Seq(Message)]  BY <2>1, <2>3, SentType
    <3>2. toLobby' \in [ControlId -> Seq(Message)]  BY <1>1, <2>1, ConsumedType
    <3> QED
      BY <2>1, <2>2, <3>1, <3>2 DEF OpenInv, OpenTypeOK, ControlTypeOK, WorkerState
  <2>5. OpenTypeOK'  BY <2>4, OpenTypesAfter DEF ChannelStep, OpenInv
  <2>6. wstate'[w] = "Idle" /\ wconn'[w] = k /\ wmatch'[w] = Nobody
        /\ OthersKept(w) /\ MatchAfter(w)
    BY <2>1, <2>2 DEF OpenInv, OpenTypeOK, ControlTypeOK, OthersKept, MatchAfter
  <2>7. SessionInv'
    <3>1. \A j \in ControlId : SpokenBy(j)'
      BY <1>1, <2>1, ConsumedSpoken DEF ChannelStep
    <3>2. ASSUME NEW v \in Worker PROVE ConnectedOn(v)'
      <4>1. CASE v = w
        BY <1>3, <1>4, <2>1, <2>6, <4>1 DEF ConnectedOn, ChannelStep
      <4>2. CASE v # w
        <5>1. ConnectedOn(v)  BY DEF OpenInv, SessionInv
        <5> QED  BY <2>1, <2>6, <4>2, <5>1 DEF ConnectedOn, ChannelStep, OthersKept
      <4> QED  BY <4>1, <4>2
    <3> QED  BY <3>1, <3>2 DEF SessionInv
  <2>8. RegistryInv'
    <3>1. TrackedAfter(w)
      BY <2>1, <2>2, <2>6, WorkerTypes DEF TrackedAfter, Owing
    <3>2. RecordAgrees(w)'  BY <2>6, WorkerTypes DEF RecordAgrees, Holding
    <3> QED  BY <2>2, <2>6, <3>1, <3>2, RegistryAfter DEF ChannelStep
  <2>9. TimerInv'
    BY <2>1, <2>2, <2>6, TimerAfter DEF Owing, ChannelStep
  <2>10. FateInv'
    BY <2>1, <2>2, <2>6, FateKept DEF ChannelStep, OthersKept
  <2> QED  BY <2>5, <2>7, <2>8, <2>9, <2>10 DEF OpenInv
<1> QED  BY <1>5, <1>6

\* A frame of a registered worker names that worker or some reservation.
LEMMA ReceivedSays ==
    ASSUME OpenInv, NEW k \in ControlId, NEW w \in Worker, NEW v, Received(k, w, v)
    PROVE  /\ HasFrame(k) /\ session[k] = "Open" /\ wconn[w] = k /\ speaker[k] = w
           /\ k # Nobody /\ Head(toLobby[k]) \in Message
           /\ Head(toLobby[k]).type # "Register" =>
                  /\ Head(toLobby[k]).match \in Match
                  /\ Head(toLobby[k]) = For(Head(toLobby[k]).type, Head(toLobby[k]).match)
<1>1. HasFrame(k) /\ wconn[w] = k /\ session[k] = "Open"
  BY DEF Received, HasFrame
<1>2. speaker[k] = w /\ k # Nobody  BY <1>1, ConnectionSays
<1>3. Head(toLobby[k]) \in Frames(w) /\ Head(toLobby[k]) \in Message
  BY <1>1, <1>2, FrameRead
<1>4. Head(toLobby[k]).type # "Register" =>
          /\ Head(toLobby[k]).match \in Match
          /\ Head(toLobby[k]) = For(Head(toLobby[k]).type, Head(toLobby[k]).match)
  BY <1>3 DEF Frames, About, For
<1> QED  BY <1>1, <1>2, <1>3, <1>4

\* What a step that reads a frame of worker w leaves of the sessions.
LEMMA ReadSessions ==
    ASSUME OpenInv, UNCHANGED speaker, NEW k \in ControlId, HasFrame(k), Consumed(k),
           UNCHANGED <<nextControl, session, wconn>>
    PROVE  SessionInv' /\ toLobby' \in [ControlId -> Seq(Message)]
<1>1. \A j \in ControlId : SpokenBy(j)'  BY ConsumedSpoken
<1>2. \A w \in Worker : ConnectedOn(w)'  BY ConnectedAfter
<1> QED  BY <1>1, <1>2, ConsumedType DEF SessionInv

LEMMA ReadyKeeps ==
    ASSUME OpenInv, ChannelStep, NEW k \in ControlId, NEW w \in Worker,
           ReceiveReady(k, w)
    PROVE  OpenInv'
<1> DEFINE h == Head(toLobby[k]).match
           e == [type |-> "Ready", worker |-> w, match |-> h]
<1>1. /\ HasFrame(k) /\ wconn[w] = k /\ k # Nobody /\ wstate[w] = "Reserved"
      /\ wmatch[w] = h
  BY ReceivedSays, VerdictSays DEF ReceiveReady, Received
<1>2. PICK m \in Match : m = h /\ m # Nobody
  BY <1>1, HolderSays DEF ChannelStep, Quiet, Holding
<1>3. fate[m] = "Waiting"
  BY <1>1, <1>2, HolderSays DEF ChannelStep, Quiet, Holding, StateOf
<1>4. /\ wstate' = [wstate EXCEPT ![w] = "Active"]
      /\ tracked' = [tracked EXCEPT ![m] = Nobody]
      /\ timer' = [timer EXCEPT ![m] = Nobody]
      /\ inbox' = Append(inbox, e)
      /\ Consumed(k)
      /\ UNCHANGED <<nextControl, session, wconn, wmatch, toServer>>
  BY <1>2 DEF ReceiveReady, Disarmed
<1>5. e \in Event /\ e.match = m /\ e.type = "Ready"  BY <1>2 DEF Event
<1> HIDE DEF h, e
<1>6. inbox' = <<e>>  BY <1>4 DEF ChannelStep, Quiet
<1>7. SessionInv' /\ toLobby' \in [ControlId -> Seq(Message)]
  BY <1>1, <1>4, ReadSessions DEF ChannelStep
<1>8. OpenTypeOK'
  <2>1. inbox' \in Seq(Event)  BY <1>5, <1>6
  <2>2. ControlTypeOK'
    BY <1>4, <1>7, <2>1 DEF OpenInv, OpenTypeOK, ControlTypeOK, WorkerState
  <2> QED  BY <2>2, OpenTypesAfter DEF ChannelStep, OpenInv
<1>9. /\ wstate'[w] = "Active" /\ wmatch'[w] = m
      /\ OthersKept(w) /\ MatchAfter(w)
  BY <1>1, <1>2, <1>4 DEF OpenInv, OpenTypeOK, ControlTypeOK, OthersKept, MatchAfter
<1>10. RegistryInv'
  <2>1. TrackedAfter(w)
    BY <1>1, <1>2, <1>4, <1>9
    DEF OpenInv, OpenTypeOK, ControlTypeOK, TrackedAfter, Owing
  <2>2. RecordAgrees(w)'
    BY <1>1, <1>2, <1>4, <1>9
    DEF OpenInv, RegistryInv, RecordAgrees, Holding, ChannelStep
  <2> QED  BY <1>9, <2>1, <2>2, RegistryAfter DEF ChannelStep
<1>11. TimerInv'
  <2>1. timer'[m] = Nobody /\ \A n \in Match : n # m => timer'[n] = timer[n]
        /\ tracked'[n] = tracked[n]
    BY <1>4 DEF OpenInv, OpenTypeOK, ControlTypeOK
  <2>2. wstate'[w] \notin Owing  BY <1>9 DEF Owing
  <2> QED  BY <1>4, <1>9, <2>1, <2>2, TimerAfter DEF ChannelStep
<1>12. FateInv'
  <2>1. Told(m)  BY <1>3, <1>5, <1>6 DEF Told
  <2>2. Believed(m)' = "Active"
    BY <1>5, <1>6 DEF Believed, Pending, Outcome
  <2>3. wstate'[w] = StateOf(Believed(m)')  BY <1>9, <2>2 DEF StateOf
  <2> QED
    BY <1>1, <1>2, <1>9, <2>1, <2>3, FateAfter DEF ChannelStep, Quiet
<1> QED
  BY <1>7, <1>8, <1>10, <1>11, <1>12 DEF OpenInv


LEMMA RejectedKeeps ==
    ASSUME OpenInv, ChannelStep, NEW k \in ControlId, NEW w \in Worker,
           ReceiveRejected(k, w)
    PROVE  OpenInv'
<1>1. /\ HasFrame(k) /\ wconn[w] = k /\ k # Nobody /\ wstate[w] = "Reserved"
      /\ wmatch[w] = Head(toLobby[k]).match
  BY ReceivedSays, VerdictSays DEF ReceiveRejected, Received
<1>2. PICK m \in Match : m = Head(toLobby[k]).match /\ m # Nobody
  BY <1>1, HolderSays DEF ChannelStep, Quiet, Holding
<1>3. fate[m] = "Waiting"
  BY <1>1, <1>2, HolderSays DEF ChannelStep, Quiet, Holding, StateOf
<1>4. PICK e : e = [type |-> "Failed", worker |-> Nobody, match |-> m]  OBVIOUS
<1>5. /\ Cleared(w)
      /\ timer' = [timer EXCEPT ![m] = Nobody]
      /\ inbox' = Append(inbox, e)
      /\ Consumed(k)
      /\ UNCHANGED <<nextControl, session, toServer>>
  BY <1>2, <1>4 DEF ReceiveRejected, Disarmed
<1>6. e \in Event /\ e.match = m /\ e.type = "Failed"  BY <1>4 DEF Event
<1>7. inbox' = <<e>>  BY <1>5 DEF ChannelStep, Quiet
<1>8. /\ OthersKept(w) /\ MatchAfter(w) /\ RegistryInv'
      /\ wstate' \in [Worker -> WorkerState]
      /\ wconn' = wconn
      /\ wmatch' \in [Worker -> Match \cup {Nobody}]
      /\ tracked' \in [Match -> Worker \cup {Nobody}]
      /\ wstate'[w] = "Idle" /\ wmatch'[w] = Nobody
      /\ \A n \in Match : tracked[n] # Nobody /\ tracked'[n] = Nobody => n = m
  BY <1>1, <1>2, <1>5, ClearedKeeps DEF ChannelStep, Quiet, Holding
<1>9. SessionInv' /\ toLobby' \in [ControlId -> Seq(Message)]
  BY <1>1, <1>5, <1>8, ReadSessions DEF ChannelStep
<1>10. OpenTypeOK'
  <2>1. inbox' \in Seq(Event)  BY <1>6, <1>7
  <2>2. ControlTypeOK'
    BY <1>5, <1>8, <1>9, <2>1 DEF OpenInv, OpenTypeOK, ControlTypeOK
  <2> QED  BY <2>2, OpenTypesAfter DEF ChannelStep, OpenInv
<1>11. TimerInv'
  <2>1. timer'[m] = Nobody /\ \A n \in Match : n # m => timer'[n] = timer[n]
    BY <1>5 DEF OpenInv, OpenTypeOK, ControlTypeOK
  <2>2. wstate'[w] \notin Owing  BY <1>8 DEF Owing
  <2> QED  BY <1>1, <1>2, <1>5, <1>8, <2>1, <2>2, TimerAfter DEF ChannelStep
<1>12. FateInv'
  <2>1. Told(m)  BY <1>3, <1>6, <1>7 DEF Told
  <2>2. Believed(m)' = "Over"
    BY <1>6, <1>7 DEF Believed, Pending, Outcome
  <2> QED
    BY <1>1, <1>2, <1>8, <2>1, <2>2, FateAfter DEF ChannelStep, Quiet
<1> QED
  BY <1>8, <1>9, <1>10, <1>11, <1>12 DEF OpenInv

LEMMA CancelledKeeps ==
    ASSUME OpenInv, ChannelStep, NEW k \in ControlId, NEW w \in Worker,
           ReceiveCancelled(k, w)
    PROVE  OpenInv'
<1>1. /\ HasFrame(k) /\ wconn[w] = k /\ k # Nobody /\ wstate[w] = "Cancelling"
      /\ wmatch[w] = Head(toLobby[k]).match
  BY ReceivedSays, VerdictSays DEF ReceiveCancelled, Received
<1>2. PICK m \in Match : m = Head(toLobby[k]).match /\ m # Nobody
  BY <1>1, HolderSays DEF ChannelStep, Quiet, Holding
<1>3. fate[m] \notin {"Waiting", "Active"}
  BY <1>1, <1>2, HolderSays DEF ChannelStep, Quiet, Holding, StateOf
<1>5. /\ Cleared(w)
      /\ timer' = [timer EXCEPT ![m] = Nobody]
      /\ Consumed(k)
      /\ UNCHANGED <<nextControl, session, toServer, inbox>>
  BY <1>2 DEF ReceiveCancelled, Disarmed
<1>7. inbox' = <<>>  BY <1>5 DEF ChannelStep, Quiet
<1>8. /\ OthersKept(w) /\ MatchAfter(w) /\ RegistryInv'
      /\ wstate' \in [Worker -> WorkerState]
      /\ wconn' = wconn
      /\ wmatch' \in [Worker -> Match \cup {Nobody}]
      /\ tracked' \in [Match -> Worker \cup {Nobody}]
      /\ wstate'[w] = "Idle" /\ wmatch'[w] = Nobody
      /\ \A n \in Match : tracked[n] # Nobody /\ tracked'[n] = Nobody => n = m
  BY <1>1, <1>2, <1>5, ClearedKeeps DEF ChannelStep, Quiet, Holding
<1>9. SessionInv' /\ toLobby' \in [ControlId -> Seq(Message)]
  BY <1>1, <1>5, <1>8, ReadSessions DEF ChannelStep
<1>10. OpenTypeOK'
  <2>2. ControlTypeOK'
    BY <1>5, <1>8, <1>9 DEF OpenInv, OpenTypeOK, ControlTypeOK
  <2> QED  BY <2>2, OpenTypesAfter DEF ChannelStep, OpenInv
<1>11. TimerInv'
  <2>1. timer'[m] = Nobody /\ \A n \in Match : n # m => timer'[n] = timer[n]
    BY <1>5 DEF OpenInv, OpenTypeOK, ControlTypeOK
  <2>2. wstate'[w] \notin Owing  BY <1>8 DEF Owing
  <2> QED  BY <1>1, <1>2, <1>5, <1>8, <2>1, <2>2, TimerAfter DEF ChannelStep
<1>12. FateInv'
  <2>1. Told(m)  BY <1>7 DEF Told
  <2>2. Believed(m)' = fate[m]
    BY <1>7 DEF Believed, Pending, ChannelStep
  <2> QED
    BY <1>1, <1>2, <1>3, <1>8, <2>1, <2>2, FateAfter DEF ChannelStep, Quiet
<1> QED
  BY <1>8, <1>9, <1>10, <1>11, <1>12 DEF OpenInv

LEMMA FinishedKeeps ==
    ASSUME OpenInv, ChannelStep, NEW k \in ControlId, NEW w \in Worker,
           ReceiveFinished(k, w)
    PROVE  OpenInv'
<1>1. /\ HasFrame(k) /\ wconn[w] = k /\ k # Nobody /\ wstate[w] = "Active"
      /\ wmatch[w] = Head(toLobby[k]).match
  BY ReceivedSays, VerdictSays DEF ReceiveFinished, Received
<1>2. PICK m \in Match : m = Head(toLobby[k]).match /\ m # Nobody
  BY <1>1, HolderSays DEF ChannelStep, Quiet, Holding
<1>3. fate[m] = "Active"
  BY <1>1, <1>2, HolderSays DEF ChannelStep, Quiet, Holding, StateOf
<1>4. PICK e : e = [type |-> "Finished", worker |-> w, match |-> m]  OBVIOUS
<1>5. /\ Cleared(w)
      /\ inbox' = Append(inbox, e)
      /\ Consumed(k)
      /\ UNCHANGED <<nextControl, session, timer, toServer>>
  BY <1>2, <1>4 DEF ReceiveFinished
<1>6. e \in Event /\ e.match = m /\ e.type = "Finished"  BY <1>4 DEF Event
<1>7. inbox' = <<e>>  BY <1>5 DEF ChannelStep, Quiet
<1>8. /\ OthersKept(w) /\ MatchAfter(w) /\ RegistryInv'
      /\ wstate' \in [Worker -> WorkerState]
      /\ wconn' = wconn
      /\ wmatch' \in [Worker -> Match \cup {Nobody}]
      /\ tracked' \in [Match -> Worker \cup {Nobody}]
      /\ wstate'[w] = "Idle" /\ wmatch'[w] = Nobody
      /\ \A n \in Match : tracked[n] # Nobody /\ tracked'[n] = Nobody => n = m
  BY <1>1, <1>2, <1>5, ClearedKeeps DEF ChannelStep, Quiet, Holding
<1>9. SessionInv' /\ toLobby' \in [ControlId -> Seq(Message)]
  BY <1>1, <1>5, <1>8, ReadSessions DEF ChannelStep
<1>10. OpenTypeOK'
  <2>1. inbox' \in Seq(Event)  BY <1>6, <1>7
  <2>2. ControlTypeOK'
    BY <1>5, <1>8, <1>9, <2>1 DEF OpenInv, OpenTypeOK, ControlTypeOK
  <2> QED  BY <2>2, OpenTypesAfter DEF ChannelStep, OpenInv
<1>11. TimerInv'
  <2>1. tracked[m] = Nobody
    BY <1>1, <1>2, OneHolder, TrackedSays DEF OpenInv, Owing
  <2>2. wstate'[w] \notin Owing  BY <1>8 DEF Owing
  <2> QED  BY <1>1, <1>2, <1>5, <1>8, <2>1, <2>2, TimerAfter DEF ChannelStep
<1>12. FateInv'
  <2>1. Told(m)  BY <1>3, <1>6, <1>7 DEF Told
  <2>2. Believed(m)' = "Over"
    BY <1>6, <1>7 DEF Believed, Pending, Outcome
  <2> QED
    BY <1>1, <1>2, <1>8, <2>1, <2>2, FateAfter DEF ChannelStep, Quiet
<1> QED
  BY <1>8, <1>9, <1>10, <1>11, <1>12 DEF OpenInv

\* Only an ignored Cancelled disowns a reservation.
LEMMA NothingDisowned ==
    ASSUME OpenInv, NEW k \in ControlId, ControlStep(k),
           \A w \in Worker : ~ ReceiveLate(k, w)
    PROVE  Disowned(k) = {}
<1> SUFFICES ASSUME NEW w \in Worker, Received(k, w, "Ignore") PROVE FALSE
  BY DEF Disowned
<1>1. HasFrame(k) /\ wconn[w] = k /\ k # Nobody
  BY ReceivedSays
<1>2. ASSUME NEW v \in Worker, NEW verdict, Received(k, v, verdict)
      PROVE  verdict = "Ignore"
  <2>1. v = w  BY <1>1, <1>2, OneConnection DEF OpenInv, Received
  <2> QED  BY <1>2, <2>1 DEF Received
<1>3. ~ Unregistered(k) /\ session[k] = "Open"
  BY <1>1 DEF Unregistered, HasFrame
<1>4. ASSUME NEW v \in Worker, ReceiveReady(k, v) PROVE FALSE
  BY <1>2, <1>4 DEF ReceiveReady
<1>5. ASSUME NEW v \in Worker, ReceiveRejected(k, v) PROVE FALSE
  BY <1>2, <1>5 DEF ReceiveRejected
<1>6. ASSUME NEW v \in Worker, ReceiveCancelled(k, v) PROVE FALSE
  BY <1>2, <1>6 DEF ReceiveCancelled
<1>7. ASSUME NEW v \in Worker, ReceiveFinished(k, v) PROVE FALSE
  BY <1>2, <1>7 DEF ReceiveFinished
<1>8. ASSUME NEW v \in Worker, ReceiveViolation(k, v) PROVE FALSE
  BY <1>2, <1>8 DEF ReceiveViolation
<1>9. ~ ReceiveRegister(k) /\ ~ ReceiveUnregistered(k) /\ ~ SessionClosed(k)
  BY <1>3 DEF ReceiveRegister, ReceiveUnregistered, SessionClosed
<1> QED  BY <1>4, <1>5, <1>6, <1>7, <1>8, <1>9 DEF ControlStep

\* A late answer takes the timer of a worker that owes one only by disowning it.
LEMMA LateTimer ==
    ASSUME OpenInv, NEW k \in ControlId, NEW w \in Worker, ReceiveLate(k, w),
           NEW n \in Match
    PROVE  \/ n \in Disowned(k) /\ timer'[n] = Nobody
           \/ /\ n \notin Disowned(k)
              /\ timer'[n] = timer[n] \/ (timer'[n] = Nobody /\ tracked[n] = Nobody)
<1>1. PICK msg : msg = Head(toLobby[k])  OBVIOUS
<1>2. /\ Received(k, w, "Ignore")
      /\ timer' = IF msg.type = "Cancelled" THEN [timer EXCEPT ![msg.match] = Nobody]
                  ELSE timer
  BY <1>1 DEF ReceiveLate, Disarmed
<1>3. msg.type # "Register" => msg = For(msg.type, msg.match)
  BY <1>1, <1>2, ReceivedSays
<1>4. timer \in [Match -> ControlId \cup {Nobody}]
  BY DEF OpenInv, OpenTypeOK, ControlTypeOK
<1>5. CASE msg.type = "Cancelled" /\ n = msg.match
  <2>1. timer'[n] = Nobody  BY <1>2, <1>4, <1>5
  <2>2. msg = For("Cancelled", n)  BY <1>3, <1>5
  <2>3. CASE wmatch[w] # n
    <3>1. n \in Disowned(k)  BY <1>1, <1>2, <2>2, <2>3 DEF Disowned
    <3> QED  BY <2>1, <3>1
  <2>4. CASE wmatch[w] = n
    <3>1. wstate[w] \in {"Idle", "Active"}
      BY <1>1, <1>2, <1>5, VerdictSays DEF Received
    <3>2. ASSUME tracked[n] # Nobody PROVE FALSE
      <4>1. PICK v \in Worker : wmatch[v] = n /\ wstate[v] \in Owing
        BY <3>2, TrackedSays
      <4>2. v = w  BY <2>4, <4>1, WorkerTypes, OneHolder DEF OpenInv
      <4> QED  BY <3>1, <4>1, <4>2 DEF Owing
    <3>3. n \notin Disowned(k)
      <4> SUFFICES ASSUME NEW u \in Worker, Received(k, u, "Ignore"), wmatch[u] # n
                   PROVE  FALSE
        BY DEF Disowned
      <4>1. wconn[u] = k /\ wconn[w] = k /\ k # Nobody  BY <1>2, ReceivedSays
      <4>2. u = w  BY <4>1, OneConnection DEF OpenInv
      <4> QED  BY <2>4, <4>2
    <3> QED  BY <2>1, <3>2, <3>3
  <2> QED  BY <2>3, <2>4
<1>6. CASE ~ (msg.type = "Cancelled" /\ n = msg.match)
  <2>1. timer'[n] = timer[n]  BY <1>2, <1>4, <1>6
  <2>2. n \notin Disowned(k)
    <3>1. msg # For("Cancelled", n)  BY <1>6 DEF For
    <3> QED  BY <1>1, <3>1 DEF Disowned
  <2> QED  BY <2>1, <2>2
<1> QED  BY <1>5, <1>6

LEMMA LateKeeps ==
    ASSUME OpenInv, Quiet, UNCHANGED <<speaker, fate>>, NEW k \in ControlId,
           disowned' = disowned \cup Disowned(k), NEW w \in Worker, ReceiveLate(k, w)
    PROVE  OpenInv'
<1>1. HasFrame(k) /\ Received(k, w, "Ignore")
  BY DEF ReceiveLate, Received
<1>2. PICK msg : msg = Head(toLobby[k])  OBVIOUS
<1>3. /\ timer' = IF msg.type = "Cancelled" THEN [timer EXCEPT ![msg.match] = Nobody]
                  ELSE timer
      /\ Consumed(k)
      /\ UNCHANGED <<nextControl, session, registryVars, toServer, inbox>>
  BY <1>2 DEF ReceiveLate, Disarmed
<1>4. SessionInv' /\ toLobby' \in [ControlId -> Seq(Message)]
  BY <1>1, <1>3, ReadSessions DEF registryVars
<1>6. OpenTypeOK'
  <2>1. timer' \in [Match -> ControlId \cup {Nobody}]
    BY <1>3 DEF OpenInv, OpenTypeOK, ControlTypeOK
  <2>2. ControlTypeOK'
    BY <1>3, <1>4, <2>1 DEF OpenInv, OpenTypeOK, ControlTypeOK, registryVars
  <2>3. Disowned(k) \subseteq Match  BY DEF Disowned
  <2> QED  BY <2>2, <2>3 DEF OpenInv, OpenTypeOK
<1>7. RegistryInv'  BY <1>3, RegistryKept
<1>8. TimerInv'
  <2>1. ASSUME NEW v \in Worker, wstate[v] \in Owing
        PROVE  timer'[wmatch[v]] = TimerOf(v)'
    <3>1. wmatch[v] \in Match
      BY <2>1, HolderSays DEF Quiet, Owing, Holding
    <3>2. tracked[wmatch[v]] # Nobody  BY <2>1, <3>1, TrackedSays
    <3>3. timer[wmatch[v]] = TimerOf(v)  BY <2>1 DEF OpenInv, TimerInv
    <3>4. wmatch'[v] = wmatch[v] /\ wconn'[v] = wconn[v]  BY <1>3 DEF registryVars
    <3>5. CASE wmatch[v] \in Disowned(k)
      <4>1. timer'[wmatch[v]] = Nobody  BY <3>1, <3>5, LateTimer
      <4> QED  BY <3>4, <3>5, <4>1 DEF TimerOf
    <3>6. CASE wmatch[v] \notin Disowned(k)
      <4>1. timer'[wmatch[v]] = timer[wmatch[v]]  BY <3>1, <3>2, <3>6, LateTimer
      <4> QED  BY <3>3, <3>4, <3>6, <4>1 DEF TimerOf
    <3> QED  BY <3>5, <3>6
  <2>2. ASSUME NEW n \in Match, timer'[n] # Nobody, tracked[n] = Nobody
        PROVE  session[timer'[n]] = "Closing"
    <3>1. timer'[n] = timer[n]  BY <2>2, LateTimer
    <3> QED  BY <2>2, <3>1 DEF OpenInv, TimerInv
  <2> QED  BY <1>3, <2>1, <2>2 DEF TimerInv, registryVars
<1>9. FateInv'  BY <1>3, FateKept DEF registryVars
<1> QED  BY <1>4, <1>6, <1>7, <1>8, <1>9 DEF OpenInv


-----------------------------------------------------------------------------
(* A worker is lost. *)

\* Its session closes with it: a violation, or an answer that came too late.
LEMMA LossKeeps ==
    ASSUME OpenInv, ChannelStep, NEW k \in ControlId, NEW w \in Worker, wconn[w] = k,
           Dropped(w), Closed(k), UNCHANGED <<nextControl, toServer>>,
           timer' \in [Match -> ControlId \cup {Nobody}],
           \A n \in Match : \/ timer'[n] = timer[n]
                            \/ n = wmatch[w] /\ timer'[n] = Nobody
    PROVE  OpenInv'
<1>1. /\ OthersKept(w) /\ MatchAfter(w) /\ RegistryInv' /\ FateInv'
      /\ wstate' \in [Worker -> WorkerState]
      /\ wconn' \in [Worker -> ControlId \cup {Nobody}]
      /\ wmatch' \in [Worker -> Match \cup {Nobody}]
      /\ tracked' \in [Match -> Worker \cup {Nobody}]
      /\ inbox' \in Seq(Event)
      /\ wstate'[w] = "Absent" /\ wconn'[w] = Nobody
      /\ \A v \in Worker : wconn'[v] \in {wconn[v], Nobody}
      /\ \A m \in Match : tracked[m] # Nobody /\ tracked'[m] = Nobody => m = wmatch[w]
  BY DroppedKeeps DEF ChannelStep, Quiet
<1>2. /\ toLobby' \in [ControlId -> Seq(Message)]
      /\ session' \in [ControlId -> {"None", "Open", "Closing", "Gone"}]
      /\ session'[k] = "Closing"
      /\ \A j \in ControlId : session'[j] \in {session[j], "Closing"}
  BY ClosedType
<1>3. session[k] \in {"Open", "Closing"} /\ k # Nobody  BY ConnectionSays
<1>4. OpenTypeOK'
  <2>1. ControlTypeOK'
    BY <1>1, <1>2 DEF OpenInv, OpenTypeOK, ControlTypeOK
  <2> QED  BY <2>1, OpenTypesAfter DEF ChannelStep, OpenInv
<1>5. SessionInv'
  <2>1. \A j \in ControlId : SpokenBy(j)'
    BY <1>3, ClosedSpoken DEF Closed, ChannelStep
  <2>2. \A v \in Worker : ConnectedOn(v)'
    BY <1>1, <1>2, ConnectedAfter DEF ChannelStep
  <2> QED  BY <2>1, <2>2 DEF SessionInv
<1>6. TimerInv'
  <2>1. \A n \in Match : tracked[n] # Nobody /\ tracked'[n] = Nobody =>
            timer'[n] = Nobody \/ session'[timer'[n]] = "Closing"
    <3> SUFFICES ASSUME NEW n \in Match, tracked[n] # Nobody, tracked'[n] = Nobody,
                        timer'[n] = timer[n]
                 PROVE  timer'[n] = Nobody \/ session'[timer'[n]] = "Closing"
      OBVIOUS
    <3>1. n = wmatch[w]  BY <1>1
    <3>2. PICK v \in Worker : wmatch[v] = n /\ wstate[v] \in Owing
      BY TrackedSays
    <3>3. v = w  BY <3>1, <3>2, WorkerTypes, OneHolder DEF OpenInv
    <3>4. timer[n] \in {k, Nobody}  BY <3>2, <3>3 DEF OpenInv, TimerInv, TimerOf
    <3> QED  BY <1>2, <3>4
  <2>2. \A j \in ControlId : session[j] = "Closing" => session'[j] = "Closing"
    BY <1>2
  <2>3. wstate'[w] \notin Owing  BY <1>1 DEF Owing
  <2> QED  BY <1>1, <2>1, <2>2, <2>3, TimerAfter DEF ChannelStep
<1> QED  BY <1>1, <1>4, <1>5, <1>6 DEF OpenInv

LEMMA ViolationKeeps ==
    ASSUME OpenInv, ChannelStep, NEW k \in ControlId, NEW w \in Worker,
           ReceiveViolation(k, w)
    PROVE  OpenInv'
<1>1. /\ wconn[w] = k /\ Dropped(w) /\ Closed(k)
      /\ timer' = TimersAfterLoss(w)
      /\ UNCHANGED <<nextControl, toServer>>
  BY DEF ReceiveViolation, Received
<1>2. /\ timer' \in [Match -> ControlId \cup {Nobody}]
      /\ \A n \in Match : \/ timer'[n] = timer[n]
                          \/ n = wmatch[w] /\ timer'[n] = Nobody
  BY <1>1 DEF TimersAfterLoss, OpenInv, OpenTypeOK, ControlTypeOK
<1> QED  BY <1>1, <1>2, LossKeeps

LEMMA TimeoutKeeps ==
    ASSUME OpenInv, ChannelStep, NEW m \in Match, TimerFires(m)
    PROVE  OpenInv'
<1>1. timer[m] # Nobody /\ timer' = [timer EXCEPT ![m] = Nobody]
  BY DEF TimerFires, Disarmed
<1>2. /\ timer' \in [Match -> ControlId \cup {Nobody}] /\ timer'[m] = Nobody
      /\ \A n \in Match : n # m => timer'[n] = timer[n]
  BY <1>1 DEF OpenInv, OpenTypeOK, ControlTypeOK
<1>3. CASE tracked[m] = Nobody
  <2>1. UNCHANGED <<nextControl, session, registryVars, toServer, toLobby, inbox>>
    BY <1>3 DEF TimerFires
  <2>2. OpenTypeOK'
    <3>1. ControlTypeOK'
      BY <1>2, <2>1 DEF OpenInv, OpenTypeOK, ControlTypeOK, registryVars
    <3> QED  BY <3>1, OpenTypesAfter DEF ChannelStep, OpenInv
  <2>3. SessionInv'
    <3>1. \A j \in ControlId : SpokenBy(j)'
      BY <2>1, SameSpoken DEF ChannelStep
    <3>2. \A w \in Worker : ConnectedOn(w)'
      BY <2>1, ConnectedAfter DEF ChannelStep, registryVars
    <3> QED  BY <3>1, <3>2 DEF SessionInv
  <2>4. RegistryInv'
    BY <2>1, RegistryKept DEF ChannelStep
  <2>5. TimerInv'
    <3>1. ASSUME NEW v \in Worker, wstate[v] \in Owing
          PROVE  timer'[wmatch[v]] = TimerOf(v)'
      <4>1. wmatch[v] \in Match
        BY <3>1, HolderSays DEF ChannelStep, Quiet, Owing, Holding
      <4>2. wmatch[v] # m  BY <1>3, <3>1, TrackedSays
      <4>3. TimerOf(v)' = TimerOf(v)  BY <2>1 DEF TimerOf, ChannelStep, registryVars
      <4> QED  BY <1>2, <3>1, <4>1, <4>2, <4>3 DEF OpenInv, TimerInv
    <3>2. ASSUME NEW n \in Match, timer'[n] # Nobody, tracked[n] = Nobody
          PROVE  session[timer'[n]] = "Closing"
      BY <1>2, <3>2 DEF OpenInv, TimerInv
    <3> QED  BY <2>1, <3>1, <3>2 DEF TimerInv, registryVars
  <2>6. FateInv'  BY <2>1, FateKept DEF ChannelStep, registryVars
  <2> QED  BY <2>2, <2>3, <2>4, <2>5, <2>6 DEF OpenInv
<1>4. CASE tracked[m] # Nobody
  <2>1. PICK w \in Worker : w = tracked[m] /\ wmatch[w] = m /\ wstate[w] \in Owing
    BY <1>4, TrackedSays
  <2>2. PICK k \in ControlId : k = wconn[w]
    BY <2>1 DEF OpenInv, OpenTypeOK, ControlTypeOK, RegistryInv, RecordAgrees, Owing
  <2>3. Dropped(w) /\ Closed(k) /\ UNCHANGED <<nextControl, toServer>>
    BY <1>4, <2>1, <2>2 DEF TimerFires
  <2> QED  BY <1>2, <2>1, <2>2, <2>3, LossKeeps
<1> QED  BY <1>3, <1>4

\* The posted SessionClosed: what is left of the session goes.
LEMMA GoneKeeps ==
    ASSUME OpenInv, ChannelStep, NEW k \in ControlId, SessionClosed(k)
    PROVE  OpenInv'
<1>1. /\ session[k] = "Closing"
      /\ session' = [session EXCEPT ![k] = "Gone"]
      /\ timer' = [m \in Match |-> IF timer[m] = k THEN Nobody ELSE timer[m]]
      /\ UNCHANGED <<nextControl, toServer, toLobby>>
  BY DEF SessionClosed
<1>2. k # Nobody  BY WorkerTypes
<1>3. /\ timer' \in [Match -> ControlId \cup {Nobody}]
      /\ \A n \in Match : timer'[n] # k
      /\ \A n \in Match : \/ timer'[n] = timer[n] /\ timer[n] # k
                          \/ timer'[n] = Nobody /\ timer[n] = k
  BY <1>1, <1>2 DEF OpenInv, OpenTypeOK, ControlTypeOK
<1>4. /\ session' \in [ControlId -> {"None", "Open", "Closing", "Gone"}]
      /\ session'[k] = "Gone"
      /\ \A j \in ControlId : j # k => session'[j] = session[j]
  BY <1>1 DEF OpenInv, OpenTypeOK, ControlTypeOK
<1>5. \A j \in ControlId : SpokenBy(j)'
  <2>1. toLobby[k] = <<>>  BY <1>1, SpokenSays
  <2>2. toLobby' = [toLobby EXCEPT ![k] = <<>>]
    BY <1>1, <2>1 DEF OpenInv, OpenTypeOK, ControlTypeOK
  <2> QED  BY <1>1, <2>2, ClosedSpoken DEF ChannelStep
<1>6. ASSUME NEW w \in Worker, wconn[w] = k, Dropped(w) PROVE OpenInv'
  <2>1. /\ OthersKept(w) /\ MatchAfter(w) /\ RegistryInv' /\ FateInv'
        /\ wstate' \in [Worker -> WorkerState]
        /\ wconn' \in [Worker -> ControlId \cup {Nobody}]
        /\ wmatch' \in [Worker -> Match \cup {Nobody}]
        /\ tracked' \in [Match -> Worker \cup {Nobody}]
        /\ inbox' \in Seq(Event)
        /\ wstate'[w] = "Absent" /\ wconn'[w] = Nobody
        /\ \A v \in Worker : wconn'[v] \in {wconn[v], Nobody}
        /\ \A m \in Match : tracked[m] # Nobody /\ tracked'[m] = Nobody => m = wmatch[w]
    BY <1>6, DroppedKeeps DEF ChannelStep, Quiet
  <2>2. OpenTypeOK'
    <3>1. ControlTypeOK'
      BY <1>1, <1>3, <1>4, <2>1 DEF OpenInv, OpenTypeOK, ControlTypeOK
    <3> QED  BY <3>1, OpenTypesAfter DEF ChannelStep, OpenInv
  <2>3. SessionInv'
    <3>1. \A v \in Worker : wconn'[v] # k
      BY <1>2, <1>6, <2>1, OneConnection DEF OpenInv
    <3>2. \A v \in Worker : ConnectedOn(v)'
      BY <1>4, <2>1, <3>1, ConnectedAfter DEF ChannelStep
    <3> QED  BY <1>5, <3>2 DEF SessionInv
  <2>4. TimerInv'
    <3>1. \A n \in Match : tracked[n] # Nobody /\ tracked'[n] = Nobody =>
              timer'[n] = Nobody \/ session'[timer'[n]] = "Closing"
      <4> SUFFICES ASSUME NEW n \in Match, tracked[n] # Nobody, tracked'[n] = Nobody
                   PROVE  timer'[n] = Nobody
        OBVIOUS
      <4>1. n = wmatch[w]  BY <2>1
      <4>2. PICK v \in Worker : wmatch[v] = n /\ wstate[v] \in Owing
        BY TrackedSays
      <4>3. v = w  BY <4>1, <4>2, WorkerTypes, OneHolder DEF OpenInv
      <4>4. timer[n] \in {k, Nobody}  BY <1>6, <4>2, <4>3 DEF OpenInv, TimerInv, TimerOf
      <4> QED  BY <1>3, <4>4
    <3>2. \A j \in ControlId : session[j] = "Closing" =>
              session'[j] = "Closing" \/ \A n \in Match : timer'[n] # j
      BY <1>3, <1>4
    <3>3. wstate'[w] \notin Owing  BY <2>1 DEF Owing
    <3> QED  BY <1>2, <1>3, <1>6, <2>1, <3>1, <3>2, <3>3, TimerAfter
      DEF ChannelStep
  <2> QED  BY <2>1, <2>2, <2>3, <2>4 DEF OpenInv
<1>7. ASSUME Unregistered(k), UNCHANGED <<registryVars, inbox>> PROVE OpenInv'
  <2>1. OpenTypeOK'
    <3>1. ControlTypeOK'
      BY <1>1, <1>3, <1>4, <1>7 DEF OpenInv, OpenTypeOK, ControlTypeOK, registryVars
    <3> QED  BY <3>1, OpenTypesAfter DEF ChannelStep, OpenInv
  <2>2. SessionInv'
    <3>1. \A v \in Worker : wconn'[v] # k  BY <1>7 DEF Unregistered, registryVars
    <3>2. \A v \in Worker : ConnectedOn(v)'
      BY <1>4, <1>7, <3>1, ConnectedAfter DEF ChannelStep, registryVars
    <3> QED  BY <1>5, <3>2 DEF SessionInv
  <2>3. RegistryInv'
    BY <1>7, RegistryKept DEF ChannelStep
  <2>4. TimerInv'
    <3>1. ASSUME NEW v \in Worker, wstate[v] \in Owing
          PROVE  timer'[wmatch[v]] = TimerOf(v)'
      <4>1. wmatch[v] \in Match
        BY <3>1, HolderSays DEF ChannelStep, Quiet, Owing, Holding
      <4>2. timer[wmatch[v]] = TimerOf(v)  BY <3>1 DEF OpenInv, TimerInv
      <4>3. wconn[v] # k  BY <1>7 DEF Unregistered
      <4>4. TimerOf(v)' = TimerOf(v)  BY <1>7 DEF TimerOf, ChannelStep, registryVars
      <4>5. TimerOf(v) # k  BY <1>2, <4>3 DEF TimerOf
      <4> QED  BY <1>3, <4>1, <4>2, <4>4, <4>5
    <3>2. ASSUME NEW n \in Match, timer'[n] # Nobody, tracked[n] = Nobody
          PROVE  session'[timer'[n]] = "Closing"
      <4>1. timer'[n] = timer[n] /\ timer[n] # k /\ timer[n] \in ControlId
        BY <1>3, <3>2 DEF OpenInv, OpenTypeOK, ControlTypeOK
      <4>2. session[timer[n]] = "Closing"
        BY <3>2, <4>1 DEF OpenInv, TimerInv
      <4> QED  BY <1>4, <4>1, <4>2
    <3> QED  BY <1>7, <3>1, <3>2 DEF TimerInv, registryVars
  <2>5. FateInv'  BY <1>7, FateKept DEF ChannelStep, registryVars
  <2> QED  BY <2>1, <2>2, <2>3, <2>4, <2>5 DEF OpenInv
<1> QED  BY <1>6, <1>7 DEF SessionClosed


-----------------------------------------------------------------------------
(* The steps of the servers and of LobbyService. *)

LEMMA ConnectKeeps ==
    ASSUME OpenInv, NEW w \in Worker, WorkerConnects(w)
    PROVE  OpenInv'
<1>1. PICK k \in ControlId : Accept(k) /\ speaker' = [speaker EXCEPT ![k] = w]
  BY DEF WorkerConnects
<1>2. /\ k = nextControl /\ nextControl' = k + 1
      /\ session' = [session EXCEPT ![k] = "Open"]
      /\ UNCHANGED <<registryVars, timer, toServer, inbox, toLobby, fate, disowned>>
  BY <1>1 DEF Accept, WorkerConnects
<1>3. k \in Nat /\ MaxControl \in Nat /\ k <= MaxControl
  BY WorkerAssumption DEF ControlId
<1>4. session[k] = "None" /\ toLobby[k] = <<>>
  <2>1. session[k] \in {"None", "Open", "Closing", "Gone"}
    BY DEF OpenInv, OpenTypeOK, ControlTypeOK
  <2>2. ~ (k < nextControl)  BY <1>2, <1>3
  <2> QED  BY <2>1, <2>2, SpokenSays
<1>5. /\ session' \in [ControlId -> {"None", "Open", "Closing", "Gone"}]
      /\ session'[k] = "Open" /\ speaker'[k] = w
      /\ speaker' \in [ControlId -> Worker \cup {Nobody}]
      /\ \A j \in ControlId : j # k => session'[j] = session[j] /\ speaker'[j] = speaker[j]
  BY <1>1, <1>2 DEF OpenInv, OpenTypeOK, ControlTypeOK
<1>6. OpenTypeOK'
  <2>1. nextControl' \in 1..(MaxControl + 1)  BY <1>2, <1>3 DEF ControlId
  <2>2. ControlTypeOK'
    BY <1>2, <1>5, <2>1 DEF OpenInv, OpenTypeOK, ControlTypeOK, registryVars
  <2> QED  BY <1>2, <1>5, <2>2 DEF OpenInv, OpenTypeOK
<1>7. SessionInv'
  <2>1. ASSUME NEW j \in ControlId PROVE SpokenBy(j)'
    <3>1. CASE j = k
      <4>1. AllIn(toLobby'[k], Frames(speaker[k])')  BY <1>2, <1>4 DEF AllIn
      <4>2. k < nextControl'  BY <1>2, <1>3
      <4> QED  BY <1>5, <3>1, <4>1, <4>2, SpokenAfter
    <3>2. CASE j # k
      <4>1. nextControl' \in {nextControl, nextControl + 1}  BY <1>2
      <4> QED  BY <1>2, <1>5, <3>2, <4>1, SameSpoken
    <3> QED  BY <3>1, <3>2
  <2>2. ASSUME NEW v \in Worker PROVE ConnectedOn(v)'
    <3>1. ConnectedOn(v)  BY DEF OpenInv, SessionInv
    <3>2. wconn'[v] = wconn[v] /\ wconn[v] \in ControlId \cup {Nobody}
      BY <1>2 DEF registryVars, OpenInv, OpenTypeOK, ControlTypeOK
    <3>3. wconn[v] # k \/ wconn[v] = Nobody  BY <1>4, <3>1 DEF ConnectedOn
    <3> QED  BY <1>5, <3>1, <3>2, <3>3 DEF ConnectedOn
  <2> QED  BY <2>1, <2>2 DEF SessionInv
<1>8. RegistryInv'
  BY <1>2, RegistryKept
<1>9. TimerInv'
  <2>1. ASSUME NEW n \in Match, timer[n] # Nobody, tracked[n] = Nobody
        PROVE  session'[timer[n]] = "Closing"
    <3>1. timer[n] \in ControlId /\ session[timer[n]] = "Closing"
      BY <2>1 DEF OpenInv, OpenTypeOK, ControlTypeOK, TimerInv
    <3> QED  BY <1>4, <1>5, <3>1
  <2> QED  BY <1>2, <2>1 DEF registryVars, OpenInv, TimerInv, TimerOf
<1>10. FateInv'  BY <1>2, FateKept DEF registryVars
<1> QED  BY <1>2, <1>6, <1>7, <1>8, <1>9, <1>10 DEF OpenInv

LEMMA SendKeeps ==
    ASSUME OpenInv, NEW k \in ControlId, WorkerSends(k)
    PROVE  OpenInv'
<1>1. PICK msg \in Frames(speaker[k]) :
          toLobby' = [toLobby EXCEPT ![k] = Append(@, msg)]
  BY DEF WorkerSends
<1>2. /\ session[k] = "Open"
      /\ UNCHANGED <<nextControl, session, registryVars, timer, toServer, inbox,
                     speaker, fate, disowned>>
  BY DEF WorkerSends
<1>3. speaker[k] \in Worker  BY <1>2, SpokenSays
<1>4. msg \in Message  BY <1>3, FrameTypes DEF OpenInv
<1>5. /\ toLobby' \in [ControlId -> Seq(Message)]
      /\ toLobby'[k] = Append(toLobby[k], msg)
      /\ \A j \in ControlId : j # k => toLobby'[j] = toLobby[j]
  BY <1>1, <1>4 DEF OpenInv, OpenTypeOK, ControlTypeOK
<1>6. OpenTypeOK'
  BY <1>2, <1>5 DEF OpenInv, OpenTypeOK, ControlTypeOK, registryVars
<1>7. SessionInv'
  <2>1. ASSUME NEW j \in ControlId PROVE SpokenBy(j)'
    <3>1. CASE j = k
      <4>1. AllIn(Append(toLobby[k], msg), Frames(speaker[k]))
        BY <1>1, <1>4, SpokenSays, AppendAllIn
      <4>2. Frames(speaker[k])' = Frames(speaker[k])  BY <1>2 DEF Frames
      <4>3. AllIn(toLobby'[k], Frames(speaker[k])')  BY <1>5, <4>1, <4>2
      <4> QED  BY <1>2, <3>1, <4>3, SpokenAfter, SpokenSays
    <3>2. CASE j # k  BY <1>2, <1>5, <3>2, SameSpoken
    <3> QED  BY <3>1, <3>2
  <2>2. \A v \in Worker : ConnectedOn(v)'
    BY <1>2, ConnectedAfter DEF registryVars
  <2> QED  BY <2>1, <2>2 DEF SessionInv
<1>8. RegistryInv'
  BY <1>2, RegistryKept
<1>9. TimerInv'  BY <1>2 DEF registryVars, OpenInv, TimerInv, TimerOf
<1>10. FateInv'  BY <1>2, FateKept DEF registryVars
<1> QED  BY <1>2, <1>6, <1>7, <1>8, <1>9, <1>10 DEF OpenInv

LEMMA LeastNumber ==
    ASSUME NEW S, S \subseteq Nat, S # {}
    PROVE  \E x \in S : \A y \in S : x <= y
<1> DEFINE R == OpToRel(<, Nat)
<1>1. \E x \in S : \A y \in S : ~ (<<y, x>> \in R)
  <2> IsWellFoundedOn(R, Nat)  BY NatLessThanWellFounded DEF R
  <2> QED  BY WFMin
<1>2. PICK x \in S : \A y \in S : ~ (<<y, x>> \in R)  BY <1>1
<1>3. \A y \in S : x <= y
  <2> TAKE y \in S
  <2>1. ~ (<<y, x>> \in R)  BY <1>2
  <2>2. ~ (y < x)  BY <2>1 DEF R, OpToRel
  <2> QED  BY <2>2
<1> QED  BY <1>3

LEMMA FirstIsIdle ==
    ASSUME IdleWorkers # {}
    PROVE  First(IdleWorkers) \in Worker /\ wstate[First(IdleWorkers)] = "Idle"
<1>1. IdleWorkers \subseteq Nat  BY WorkerAssumption DEF IdleWorkers
<1>2. \E x \in IdleWorkers : \A y \in IdleWorkers : x <= y  BY <1>1, LeastNumber
<1>3. First(IdleWorkers) \in IdleWorkers  BY <1>2 DEF First
<1> QED  BY <1>3 DEF IdleWorkers

\* What LobbyService's steps leave of the sessions.
LEMMA SameSessions ==
    ASSUME OpenInv, UNCHANGED <<nextControl, session, toLobby, speaker, wconn>>
    PROVE  SessionInv'
<1>1. \A j \in ControlId : SpokenBy(j)'  BY SameSpoken
<1>2. \A v \in Worker : ConnectedOn(v)'  BY ConnectedAfter
<1> QED  BY <1>1, <1>2 DEF SessionInv


\* An idle game server is given the reservation.
LEMMA GrantKeeps ==
    ASSUME OpenInv, NEW m \in Match, LobbyReserves(m), IdleWorkers # {}
    PROVE  OpenInv'
<1>1. PICK w \in Worker : w = First(IdleWorkers) /\ wstate[w] = "Idle"
  BY FirstIsIdle
<1>2. /\ wstate' = [wstate EXCEPT ![w] = "Reserved"]
      /\ wmatch' = [wmatch EXCEPT ![w] = m]
      /\ tracked' = [tracked EXCEPT ![m] = w]
      /\ timer' = [timer EXCEPT ![m] = wconn[w]]
      /\ toServer' = Sent(wconn[w], For("Reserve", m))
      /\ UNCHANGED <<nextControl, session, wconn, toLobby, inbox>>
  BY <1>1 DEF LobbyReserves, Reserve
<1>3. /\ inbox = <<>> /\ fate[m] = "New"
      /\ fate' = [fate EXCEPT ![m] = "Waiting"]
      /\ disowned' = disowned \ {m}
      /\ UNCHANGED speaker
  BY DEF LobbyReserves, Quiet
<1>4. /\ \A v \in Worker : wmatch[v] # m
      /\ tracked[m] = Nobody
  BY <1>3, NewIsFree
<1>5. wmatch[w] = Nobody /\ wconn[w] # Nobody /\ wconn[w] \in ControlId
  BY <1>1
  DEF OpenInv, OpenTypeOK, ControlTypeOK, RegistryInv, RecordAgrees, Holding
<1>6. /\ wstate'[w] = "Reserved" /\ wmatch'[w] = m /\ tracked'[m] = w
      /\ timer'[m] = wconn[w] /\ fate'[m] = "Waiting"
      /\ OthersKept(w) /\ MatchAfter(w)
      /\ \A n \in Match : n # m => /\ tracked'[n] = tracked[n] /\ timer'[n] = timer[n]
                                   /\ fate'[n] = fate[n]
  BY <1>2, <1>3 DEF OpenInv, OpenTypeOK, ControlTypeOK, OthersKept, MatchAfter
<1>8. OpenTypeOK'
  <2>1. For("Reserve", m) \in Message  BY DEF For, Message
  <2>2. toServer' \in [ControlId -> Seq(Message)]  BY <1>2, <1>5, <2>1, SentType
  <2>3. ControlTypeOK'
    BY <1>2, <1>5, <2>2 DEF OpenInv, OpenTypeOK, ControlTypeOK, WorkerState
  <2>4. fate' \in [Match -> Fate]  BY <1>3 DEF OpenInv, OpenTypeOK, Fate
  <2> QED  BY <1>3, <2>3, <2>4 DEF OpenInv, OpenTypeOK
<1>9. \A n \in Match : fate[n] # "New" => fate'[n] # "New"  BY <1>6
<1>10. SessionInv'  BY <1>2, <1>3, SameSessions
<1>11. RegistryInv'
  <2>1. TrackedAfter(w)
    BY <1>5, <1>6, WorkerTypes DEF TrackedAfter, Owing
  <2>2. RecordAgrees(w)'
    BY <1>2, <1>5, <1>6, WorkerTypes DEF RecordAgrees, Holding
  <2> QED  BY <1>6, <1>9, <2>1, <2>2, RegistryAfter
<1>13. TimerInv'
  <2>1. \A n \in Match : timer'[n] = timer[n] \/ n \in {wmatch[w], wmatch'[w]}
    BY <1>6
  <2>2. wstate'[w] \in Owing => timer'[wmatch'[w]] = TimerOf(w)'
    BY <1>2, <1>3, <1>6 DEF TimerOf
  <2>3. \A n \in Match : tracked[n] # Nobody /\ tracked'[n] = Nobody => FALSE
    BY <1>4, <1>6
  <2>4. \A n \in Match : timer'[n] = timer[n] \/ tracked'[n] # Nobody
    BY <1>6, WorkerTypes
  <2> QED  BY <1>2, <1>3, <1>6, <2>1, <2>2, <2>3, <2>4, TimerAfter
<1>14. FateInv'
  <2>1. inbox' = <<>>  BY <1>2, <1>3
  <2>2. \A n \in Match : Believed(n) = fate[n] /\ Believed(n)' = fate'[n]
    BY <1>3, <2>1 DEF Believed, Pending
  <2>3. ASSUME NEW v \in Worker, wmatch'[v] # Nobody, NEW n \in Match, n = wmatch'[v]
        PROVE  wstate'[v] = StateOf(fate'[n])
    <3>1. CASE v = w  BY <1>6, <2>3, <3>1 DEF StateOf
    <3>2. CASE v # w
      <4>1. wmatch[v] = n /\ wstate'[v] = wstate[v]  BY <1>6, <2>3, <3>2 DEF OthersKept
      <4>2. n # m  BY <1>4, <4>1
      <4>3. wstate[v] = StateOf(fate[n])
        BY <2>2, <2>3, <4>1 DEF OpenInv, FateInv
      <4> QED  BY <1>6, <4>1, <4>2, <4>3
    <3> QED  BY <3>1, <3>2
  <2>4. ASSUME NEW n \in Match, fate'[n] \in {"Waiting", "Active"}
        PROVE  \E v \in Worker : wmatch'[v] = n
    <3>1. CASE n = m  BY <1>6, <3>1
    <3>2. CASE n # m
      <4>1. fate[n] \in {"Waiting", "Active"}  BY <1>6, <2>4, <3>2
      <4>2. PICK v \in Worker : wmatch[v] = n  BY <2>2, <4>1 DEF OpenInv, FateInv
      <4>3. v # w  BY <1>5, <4>2, WorkerTypes
      <4> QED  BY <1>6, <4>2, <4>3 DEF OthersKept
    <3> QED  BY <3>1, <3>2
  <2>5. ASSUME NEW v \in Worker, wmatch'[v] # Nobody
        PROVE  wstate'[v] = StateOf(Believed(wmatch[v]))'
    <3>1. PICK n : n = wmatch'[v]  OBVIOUS
    <3>2. n \in Match  BY <1>2, <2>5, <3>1 DEF OpenInv, OpenTypeOK, ControlTypeOK
    <3>3. wstate'[v] = StateOf(fate'[n])  BY <2>3, <2>5, <3>1, <3>2
    <3> QED  BY <2>1, <3>1, <3>3 DEF StateOf, Believed, Pending
  <2>6. Len(inbox') <= 1
    <3>1. Len(inbox') = 0  BY <2>1
    <3> QED  BY <3>1
  <2> QED  BY <2>1, <2>2, <2>4, <2>5, <2>6 DEF FateInv
<1> QED  BY <1>8, <1>10, <1>11, <1>13, <1>14 DEF OpenInv

\* No game server is idle: the reservation fails in the same call.
LEMMA RefuseKeeps ==
    ASSUME OpenInv, NEW m \in Match, LobbyReserves(m), IdleWorkers = {}
    PROVE  OpenInv'
<1>1. PICK e : e = [type |-> "Failed", worker |-> Nobody, match |-> m]  OBVIOUS
<1>2. /\ inbox' = Append(inbox, e)
      /\ UNCHANGED <<nextControl, session, registryVars, timer, toServer, toLobby>>
  BY <1>1 DEF LobbyReserves, Reserve
<1>3. /\ inbox = <<>> /\ fate[m] = "New"
      /\ fate' = [fate EXCEPT ![m] = "Waiting"]
      /\ disowned' = disowned \ {m}
      /\ UNCHANGED speaker
  BY DEF LobbyReserves, Quiet
<1>4. /\ \A v \in Worker : wmatch[v] # m
      /\ tracked[m] = Nobody
  BY <1>3, NewIsFree
<1>5. inbox' = <<e>> /\ e \in Event /\ e.type = "Failed" /\ e.match = m
  BY <1>1, <1>2, <1>3 DEF Event
<1>7. /\ fate' \in [Match -> Fate] /\ fate'[m] = "Waiting"
      /\ \A n \in Match : n # m => fate'[n] = fate[n]
  BY <1>3 DEF OpenInv, OpenTypeOK, Fate
<1>8. OpenTypeOK'
  <2>1. inbox' \in Seq(Event)  BY <1>5
  <2> QED
    BY <1>2, <1>3, <1>7, <2>1 DEF OpenInv, OpenTypeOK, ControlTypeOK, registryVars
<1>9. SessionInv'  BY <1>2, <1>3, SameSessions DEF registryVars
<1>10. RegistryInv'
  <2>1. \A n \in Match : fate[n] # "New" => fate'[n] # "New"  BY <1>7
  <2> QED  BY <1>2, <2>1, RegistryKept
<1>12. TimerInv'
  <2>1. \A v \in Worker : TimerOf(v)' = TimerOf(v)
    BY <1>2, <1>3, <1>4 DEF TimerOf, registryVars
  <2> QED  BY <1>2, <2>1 DEF registryVars, OpenInv, TimerInv
<1>13. FateInv'
  <2>1. \A n \in Match : Believed(n) = fate[n]  BY <1>3 DEF Believed, Pending
  <2>2. \A n \in Match : n # m => Believed(n)' = fate[n]
    BY <1>5, <1>7 DEF Believed, Pending
  <2>3. Believed(m)' = "Over"  BY <1>5 DEF Believed, Pending, Outcome
  <2>4. ASSUME NEW v \in Worker, wmatch'[v] # Nobody
        PROVE  wstate'[v] = StateOf(Believed(wmatch[v]))'
    <3>1. PICK n : n = wmatch[v] /\ n = wmatch'[v]  BY <1>2 DEF registryVars
    <3>2. n \in Match /\ n # m
      BY <1>4, <2>4, <3>1 DEF OpenInv, OpenTypeOK, ControlTypeOK
    <3>3. wstate[v] = StateOf(fate[n])
      <4>1. wmatch[v] # Nobody  BY <2>4, <3>1
      <4>2. wstate[v] = StateOf(Believed(wmatch[v]))  BY <4>1 DEF OpenInv, FateInv
      <4>3. Believed(wmatch[v]) = fate[n]  BY <1>3, <3>1 DEF Believed, Pending
      <4> QED  BY <4>2, <4>3
    <3>4. wstate'[v] = StateOf(Believed(n)')
      <4>1. wstate'[v] = wstate[v]  BY <1>2 DEF registryVars
      <4>2. Believed(n)' = fate[n]  BY <2>2, <3>2
      <4> QED  BY <3>3, <4>1, <4>2 DEF StateOf
    <3> QED  BY <3>1, <3>4 DEF StateOf, Believed, Pending
  <2>5. ASSUME NEW n \in Match, Believed(n)' \in {"Waiting", "Active"}
        PROVE  \E v \in Worker : wmatch'[v] = n
    <3>1. n # m  BY <2>3, <2>5
    <3> QED  BY <1>2, <2>1, <2>2, <2>5, <3>1 DEF registryVars, OpenInv, FateInv
  <2>6. Len(inbox') <= 1
    <3>1. Len(inbox') = 1  BY <1>5
    <3> QED  BY <3>1
  <2>7. inbox' # <<>> => fate'[inbox'[1].match] =
            IF inbox'[1].type \in {"Failed", "Ready"} THEN "Waiting" ELSE "Active"
    BY <1>5, <1>7
  <2> QED  BY <2>4, <2>5, <2>6, <2>7 DEF FateInv
<1> QED  BY <1>8, <1>9, <1>10, <1>12, <1>13 DEF OpenInv

LEMMA ReserveKeeps ==
    ASSUME OpenInv, NEW m \in Match, LobbyReserves(m)
    PROVE  OpenInv'
BY GrantKeeps, RefuseKeeps


LEMMA CancelKeeps ==
    ASSUME OpenInv, NEW m \in Match, LobbyCancels(m)
    PROVE  OpenInv'
<1>1. PICK w \in Worker : w = tracked[m] /\ wmatch[w] = m /\ wstate[w] = "Reserved"
  BY TrackedSays DEF LobbyCancels, Cancel
<1>2. /\ wstate' = [wstate EXCEPT ![w] = "Cancelling"]
      /\ timer' = [timer EXCEPT ![m] = wconn[w]]
      /\ toServer' = Sent(wconn[w], For("Cancel", m))
      /\ UNCHANGED <<nextControl, session, wconn, wmatch, tracked, toLobby, inbox>>
  BY <1>1 DEF LobbyCancels, Cancel, Rearmed
<1>3. /\ inbox = <<>> /\ fate[m] = "Waiting"
      /\ fate' = [fate EXCEPT ![m] = "Over"]
      /\ disowned' = disowned \ {m}
      /\ UNCHANGED speaker
  BY DEF LobbyCancels, Quiet
<1>4. wconn[w] \in ControlId /\ m # Nobody
  BY <1>1, WorkerTypes DEF OpenInv, OpenTypeOK, ControlTypeOK, RegistryInv, RecordAgrees
<1>5. /\ wstate'[w] = "Cancelling" /\ wmatch'[w] = m /\ timer'[m] = wconn[w]
      /\ fate'[m] = "Over" /\ tracked'[m] = w
      /\ OthersKept(w) /\ MatchAfter(w)
      /\ \A n \in Match : n # m => timer'[n] = timer[n] /\ fate'[n] = fate[n]
  BY <1>1, <1>2, <1>3 DEF OpenInv, OpenTypeOK, ControlTypeOK, OthersKept, MatchAfter
<1>6. OpenTypeOK'
  <2>1. For("Cancel", m) \in Message  BY DEF For, Message
  <2>2. toServer' \in [ControlId -> Seq(Message)]  BY <1>2, <1>4, <2>1, SentType
  <2>3. ControlTypeOK'
    BY <1>2, <1>4, <2>2 DEF OpenInv, OpenTypeOK, ControlTypeOK, WorkerState
  <2>4. fate' \in [Match -> Fate]  BY <1>3 DEF OpenInv, OpenTypeOK, Fate
  <2> QED  BY <1>3, <2>3, <2>4 DEF OpenInv, OpenTypeOK
<1>7. SessionInv'  BY <1>2, <1>3, SameSessions
<1>8. RegistryInv'
  <2>1. TrackedAfter(w)
    BY <1>1, <1>2, <1>5, WorkerTypes DEF TrackedAfter, Owing
  <2>2. RecordAgrees(w)'
    BY <1>1, <1>2, <1>3, <1>4, <1>5
    DEF OpenInv, RegistryInv, RecordAgrees, Holding
  <2>3. \A n \in Match : fate[n] # "New" => fate'[n] # "New"  BY <1>5
  <2> QED  BY <1>5, <2>1, <2>2, <2>3, RegistryAfter
<1>10. TimerInv'
  <2>1. \A n \in Match : timer'[n] = timer[n] \/ n \in {wmatch[w], wmatch'[w]}
    BY <1>5
  <2>2. wstate'[w] \in Owing => timer'[wmatch'[w]] = TimerOf(w)'
    BY <1>2, <1>3, <1>5 DEF TimerOf
  <2>3. \A n \in Match : timer'[n] = timer[n] \/ tracked'[n] # Nobody
    BY <1>5, WorkerTypes
  <2> QED  BY <1>2, <1>3, <1>5, <2>1, <2>2, <2>3, TimerAfter
<1>11. FateInv'
  <2>1. inbox' = <<>>  BY <1>2, <1>3
  <2>2. \A n \in Match : Believed(n) = fate[n] /\ Believed(n)' = fate'[n]
    BY <1>3, <2>1 DEF Believed, Pending
  <2>3. ASSUME NEW v \in Worker, wmatch'[v] # Nobody, NEW n \in Match, n = wmatch'[v]
        PROVE  wstate'[v] = StateOf(fate'[n])
    <3>1. CASE v = w  BY <1>5, <2>3, <3>1 DEF StateOf
    <3>2. CASE v # w
      <4>1. wmatch[v] = n /\ wstate'[v] = wstate[v]  BY <1>5, <2>3, <3>2 DEF OthersKept
      <4>2. n # m  BY <1>1, <1>4, <3>2, <4>1, OneHolder DEF OpenInv
      <4>3. wstate[v] = StateOf(Believed(wmatch[v]))
        BY <2>3, <4>1 DEF OpenInv, FateInv
      <4>4. Believed(wmatch[v]) = fate'[n]
        BY <1>3, <1>5, <4>1, <4>2 DEF Believed, Pending
      <4> QED  BY <4>1, <4>3, <4>4
    <3> QED  BY <3>1, <3>2
  <2>4. ASSUME NEW n \in Match, fate'[n] \in {"Waiting", "Active"}
        PROVE  \E v \in Worker : wmatch'[v] = n
    <3>1. n # m  BY <1>5, <2>4
    <3>2. fate[n] \in {"Waiting", "Active"}  BY <1>5, <2>4, <3>1
    <3> QED  BY <1>2, <2>2, <3>2 DEF OpenInv, FateInv
  <2>5. ASSUME NEW v \in Worker, wmatch'[v] # Nobody
        PROVE  wstate'[v] = StateOf(Believed(wmatch[v]))'
    <3>1. PICK n : n = wmatch'[v]  OBVIOUS
    <3>2. n \in Match  BY <1>2, <2>5, <3>1 DEF OpenInv, OpenTypeOK, ControlTypeOK
    <3>3. wstate'[v] = StateOf(fate'[n])  BY <2>3, <2>5, <3>1, <3>2
    <3> QED  BY <2>1, <3>1, <3>3 DEF StateOf, Believed, Pending
  <2>6. Len(inbox') <= 1
    <3>1. Len(inbox') = 0  BY <2>1
    <3> QED  BY <3>1
  <2> QED  BY <2>1, <2>2, <2>4, <2>5, <2>6 DEF FateInv
<1> QED  BY <1>6, <1>7, <1>8, <1>10, <1>11 DEF OpenInv

\* LobbyService takes the event that waits for it: it now believes what it will.
LEMMA TakeKeeps ==
    ASSUME OpenInv, LobbyTakes
    PROVE  OpenInv'
<1>1. PICK e \in Event : inbox = <<e>>
  <2>1. inbox \in Seq(Event) /\ inbox # <<>> /\ Len(inbox) <= 1
    BY DEF LobbyTakes, OpenInv, OpenTypeOK, ControlTypeOK, FateInv
  <2>2. Len(inbox) = 1 /\ inbox[1] \in Event  BY <2>1
  <2>3. inbox = <<inbox[1]>>  BY <2>1, <2>2
  <2> QED  BY <2>2, <2>3
<1>2. PICK m \in Match : m = e.match  BY DEF Event
<1>3. /\ fate' = [fate EXCEPT ![m] = Outcome(e)]
      /\ inbox' = <<>>
      /\ UNCHANGED <<nextControl, session, registryVars, timer, toServer, toLobby,
                     speaker, disowned>>
  <2>1. Head(inbox) = e /\ Tail(inbox) = <<>>  BY <1>1
  <2> QED  BY <1>2, <2>1 DEF LobbyTakes, Outcome
<1>4. /\ fate'[m] = Outcome(e) /\ Outcome(e) \in {"Active", "Over"}
      /\ fate' \in [Match -> Fate]
      /\ \A n \in Match : n # m => fate'[n] = fate[n]
  BY <1>3 DEF OpenInv, OpenTypeOK, Fate, Outcome
<1>5. \A n \in Match : Believed(n)' = fate'[n] /\ Believed(n) = fate'[n]
  BY <1>1, <1>2, <1>3, <1>4 DEF Believed, Pending
<1>6. OpenTypeOK'
  <2>1. inbox' \in Seq(Event)  BY <1>3
  <2> QED
    BY <1>3, <1>4, <2>1 DEF OpenInv, OpenTypeOK, ControlTypeOK, registryVars
<1>7. SessionInv'  BY <1>3, SameSessions DEF registryVars
<1>8. RegistryInv'
  <2>1. \A n \in Match : fate[n] # "New" => fate'[n] # "New"  BY <1>4
  <2> QED  BY <1>3, <2>1, RegistryKept
<1>10. TimerInv'  BY <1>3 DEF registryVars, OpenInv, TimerInv, TimerOf
<1>11. FateInv'
  <2>1. ASSUME NEW v \in Worker, wmatch'[v] # Nobody
        PROVE  wstate'[v] = StateOf(Believed(wmatch[v]))'
    <3>1. PICK n : n = wmatch[v] /\ n = wmatch'[v]  BY <1>3 DEF registryVars
    <3>2. n \in Match
      BY <2>1, <3>1 DEF OpenInv, OpenTypeOK, ControlTypeOK
    <3>3. wstate[v] = StateOf(Believed(wmatch[v]))
      BY <2>1, <3>1 DEF OpenInv, FateInv
    <3>4. Believed(wmatch[v]) = fate'[n]
      BY <1>1, <1>2, <1>4, <3>1, <3>2 DEF Believed, Pending
    <3>5. wstate'[v] = StateOf(fate'[n])
      <4>1. wstate'[v] = wstate[v]  BY <1>3 DEF registryVars
      <4> QED  BY <3>3, <3>4, <4>1
    <3> QED  BY <1>3, <3>1, <3>5 DEF StateOf, Believed, Pending
  <2>2. ASSUME NEW n \in Match, Believed(n)' \in {"Waiting", "Active"}
        PROVE  \E v \in Worker : wmatch'[v] = n
    <3>1. Believed(n) \in {"Waiting", "Active"}  BY <1>5, <2>2
    <3> QED  BY <1>3, <3>1 DEF registryVars, OpenInv, FateInv
  <2>3. Len(inbox') <= 1
    <3>1. Len(inbox') = 0  BY <1>3
    <3> QED  BY <3>1
  <2> QED  BY <1>3, <2>1, <2>2, <2>3 DEF FateInv
<1> QED  BY <1>6, <1>7, <1>8, <1>10, <1>11 DEF OpenInv

-----------------------------------------------------------------------------
(* Every step, and the theorems. *)

LEMMA ChannelKeeps ==
    ASSUME OpenInv, Channel
    PROVE  OpenInv'
<1>1. Quiet /\ UNCHANGED <<speaker, fate>>  BY DEF Channel
<1>2. ASSUME NEW k \in ControlId, ControlStep(k), disowned' = disowned \cup Disowned(k)
      PROVE  OpenInv'
  <2>1. ASSUME NEW w \in Worker, ReceiveLate(k, w) PROVE OpenInv'
    BY <1>1, <1>2, <2>1, LateKeeps
  <2>2. CASE \A w \in Worker : ~ ReceiveLate(k, w)
    <3>1. ChannelStep  BY <1>1, <1>2, <2>2, NothingDisowned DEF ChannelStep
    <3>2. CASE ReceiveRegister(k)  BY <3>1, <3>2, RegisterKeeps
    <3>3. CASE ReceiveUnregistered(k)
      <4>1. session[k] = "Open"  BY <3>3 DEF ReceiveUnregistered, HasFrame
      <4> QED  BY <3>1, <3>3, <4>1, CloseKeeps DEF ReceiveUnregistered
    <3>4. ASSUME NEW w \in Worker, ReceiveReady(k, w) PROVE OpenInv'
      BY <3>1, <3>4, ReadyKeeps
    <3>5. ASSUME NEW w \in Worker, ReceiveRejected(k, w) PROVE OpenInv'
      BY <3>1, <3>5, RejectedKeeps
    <3>6. ASSUME NEW w \in Worker, ReceiveCancelled(k, w) PROVE OpenInv'
      BY <3>1, <3>6, CancelledKeeps
    <3>7. ASSUME NEW w \in Worker, ReceiveFinished(k, w) PROVE OpenInv'
      BY <3>1, <3>7, FinishedKeeps
    <3>8. ASSUME NEW w \in Worker, ReceiveViolation(k, w) PROVE OpenInv'
      BY <3>1, <3>8, ViolationKeeps
    <3>9. CASE SessionClosed(k)  BY <3>1, <3>9, GoneKeeps
    <3> QED
      BY <1>2, <2>2, <3>2, <3>3, <3>4, <3>5, <3>6, <3>7, <3>8, <3>9 DEF ControlStep
  <2> QED  BY <2>1, <2>2
<1>3. ASSUME NEW k \in ControlId, SessionFails(k), UNCHANGED disowned PROVE OpenInv'
  BY <1>1, <1>3, CloseKeeps DEF SessionFails, ChannelStep
<1>4. ASSUME NEW m \in Match, TimerFires(m), UNCHANGED disowned PROVE OpenInv'
  BY <1>1, <1>4, TimeoutKeeps DEF ChannelStep
<1> QED  BY <1>2, <1>3, <1>4 DEF Channel

LEMMA OpenStep == OpenInv /\ [OpenNext]_openVars => OpenInv'
<1> SUFFICES ASSUME OpenInv, [OpenNext]_openVars PROVE OpenInv'  OBVIOUS
<1>1. ASSUME NEW w \in Worker, WorkerConnects(w) PROVE OpenInv'
  BY <1>1, ConnectKeeps
<1>2. ASSUME NEW k \in ControlId, WorkerSends(k) PROVE OpenInv'
  BY <1>2, SendKeeps
<1>3. ASSUME NEW m \in Match, LobbyReserves(m) PROVE OpenInv'
  BY <1>3, ReserveKeeps
<1>4. ASSUME NEW m \in Match, LobbyCancels(m) PROVE OpenInv'
  BY <1>4, CancelKeeps
<1>5. CASE LobbyTakes  BY <1>5, TakeKeeps
<1>6. CASE Channel  BY <1>6, ChannelKeeps
<1>7. CASE UNCHANGED openVars
  <2> USE <1>7 DEF openVars, controlVars, registryVars
  <2>1. OpenTypeOK'  BY DEF OpenInv, OpenTypeOK, ControlTypeOK
  <2>2. SessionInv'  BY SameSessions
  <2>3. RegistryInv'  BY RegistryKept
  <2>4. TimerInv'  BY DEF OpenInv, TimerInv, TimerOf
  <2>5. FateInv'  BY FateKept
  <2> QED  BY <2>1, <2>2, <2>3, <2>4, <2>5 DEF OpenInv
<1> QED  BY <1>1, <1>2, <1>3, <1>4, <1>5, <1>6, <1>7 DEF OpenNext

LEMMA OpenInvariant == OpenSpec => []OpenInv
BY InitOpenInv, OpenStep, PTL DEF OpenSpec

\* However many game servers there are and whatever they answer, the registry's
\* records, reservations and connections agree (WorkerRegistry's three maps).
THEOREM RegistryAlwaysAgrees == OpenSpec => []RegistryAgrees
<1>1. OpenInv => RegistryAgrees  BY OpenInvSays
<1> QED  BY <1>1, OpenInvariant, PTL

\* Whatever the game servers send, about whichever reservation, every answer one
\* owes is covered by a timer of its own connection until another server calls the
\* reservation cancelled, which HandleFrame believes; and no timer outlives its
\* reservation but on a session that is closing.
THEOREM AnswersAlwaysTimed == OpenSpec => []OwedAnswersAreTimed
<1>1. OpenInv => OwedAnswersAreTimed  BY OpenInvSays
<1> QED  BY <1>1, OpenInvariant, PTL

\* WorkerRegistry::Receive never makes an event of a late, repeated or crossed
\* answer: what Route hands LobbyService is always about what it waits for.
THEOREM EventsStayInOrder == OpenSpec => []EventsInOrder
<1>1. OpenInv => EventsInOrder  BY OpenInvSays
<1> QED  BY <1>1, OpenInvariant, PTL

\* A match LobbyService waits for or runs is held by a game server in that state
\* until the event that ends it is in its hands: the registry loses none.
THEOREM MatchesAlwaysHeld == OpenSpec => []NothingForgotten
<1>1. OpenInv => NothingForgotten  BY OpenInvSays
<1> QED  BY <1>1, OpenInvariant, PTL

=============================================================================
