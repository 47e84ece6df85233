---------------------------- MODULE ControlProofs ----------------------------
(***************************************************************************)
(* Theorems about MatchControl, for every number of clients, rooms, game   *)
(* servers, connections and matches: the lobby, its worker registry and    *)
(* the game servers have the same matches in mind, and together they       *)
(* implement MatchLifecycle.                                               *)
(***************************************************************************)
EXTENDS MatchControl, LobbyProofs, SequenceTheorems

-----------------------------------------------------------------------------
(* Conversations.                                                          *)
(*                                                                         *)
(* What may be under way between the registry's record of a game server    *)
(* and the server itself, on the connection the server holds.  "ts" and    *)
(* "tl" are the frames in flight to the server and to the lobby, "reg" and *)
(* "h" are the server's registered_ and match, "st" and "m" the state and  *)
(* the match of the record.                                                *)

One(a)         == <<a>>
Two(a, b)      == <<a, b>>
Three(a, b, c) == <<a, b, c>>

Hi(w)        == C!About("Register", w)
Welcome(w)   == C!About("Registered", w)
Ask(m)       == C!For("Reserve", m)
Stop(m)      == C!For("Cancel", m)
Yes(m)       == C!For("Ready", m)
No(m)        == C!For("Rejected", m)
Stopped(m)   == C!For("Cancelled", m)
Over(m)      == C!For("Finished", m)

\* The registration is on its way and the lobby has not seen it.
Fresh(w, reg, ts, tl, h) ==
    ~reg /\ h = None /\ ts = <<>> /\ tl = One(Hi(w))

\* The lobby has registered the server, whose Registered frame is in flight.
Greeted(w, st, m, ts, tl, h) ==
    /\ h = None /\ tl = <<>>
    /\ \/ st = "Idle" /\ ts = One(Welcome(w))
       \/ st = "Reserved" /\ ts = Two(Welcome(w), Ask(m))
       \/ st = "Cancelling" /\ ts = Three(Welcome(w), Ask(m), Stop(m))

\* A reservation the server has still to answer, or whose answer is in flight.
AskedFor(m, ts, tl, h) ==
    \/ ts = One(Ask(m)) /\ tl = <<>> /\ h = None
    \/ ts = <<>> /\ tl = One(Yes(m)) /\ h = m
    \/ ts = <<>> /\ tl = One(No(m)) /\ h = None
    \/ ts = <<>> /\ tl = Two(Yes(m), Over(m)) /\ h = None

RunningOn(m, ts, tl, h) ==
    /\ ts = <<>>
    /\ \/ tl = <<>> /\ h = m
       \/ tl = One(Over(m)) /\ h = None

\* A cancellation in flight crosses any answer, which the lobby may have read;
\* one the server carried out is acknowledged last.
StoppedFor(m, ts, tl, h) ==
    \/ ts = Two(Ask(m), Stop(m)) /\ tl = <<>> /\ h = None
    \/ ts = One(Stop(m)) /\ tl \in {One(Yes(m)), <<>>} /\ h = m
    \/ ts = One(Stop(m)) /\ h = None
       /\ tl \in {One(No(m)), <<>>, Two(Yes(m), Over(m)), One(Over(m))}
    \/ ts = <<>> /\ tl \in {Two(Yes(m), Stopped(m)), One(Stopped(m))} /\ h = None

Talk(w, reg, st, m, ts, tl, h) ==
    \/ ~reg /\ Greeted(w, st, m, ts, tl, h)
    \/ reg /\ st = "Idle" /\ ts = <<>> /\ tl = <<>> /\ h = None
    \/ reg /\ st = "Reserved" /\ AskedFor(m, ts, tl, h)
    \/ reg /\ st = "Active" /\ RunningOn(m, ts, tl, h)
    \/ reg /\ st = "Cancelling" /\ StoppedFor(m, ts, tl, h)

\* The lobby has closed its end: what it sent may still be read.
Leftover(w, reg, ts, h) ==
    \/ ~reg /\ h = None
       /\ \/ ts \in {<<>>, One(Welcome(w))}
          \/ \E m \in MatchId : ts \in {Two(Welcome(w), Ask(m)),
                                        Three(Welcome(w), Ask(m), Stop(m))}
    \/ reg /\ ts = <<>>
    \/ reg /\ \E m \in MatchId : ts = One(Stop(m))
    \/ reg /\ h = None /\ \E m \in MatchId : ts \in {One(Ask(m)), Two(Ask(m), Stop(m))}

Conversation(w) ==
    IF session[link[w]] # "Open"
    THEN Leftover(w, registered[w], toServer[link[w]], hosted[w])
    ELSE IF wconn[w] = link[w]
    THEN Talk(w, registered[w], wstate[w], wmatch[w], toServer[link[w]],
              toLobby[link[w]], hosted[w])
    ELSE Fresh(w, registered[w], toServer[link[w]], toLobby[link[w]], hosted[w])

Conversations == \A w \in Worker : linkState[w] = "Up" => Conversation(w)

-----------------------------------------------------------------------------
(* The inductive invariant. *)

WorkerStates == {"Absent", "Idle", "Reserved", "Cancelling", "Active"}

ControlTypes ==
    /\ nextControl \in 1..(MaxControl + 1)
    /\ session \in [ControlId -> {"None", "Open", "Closing", "Gone"}]
    /\ wstate \in [Worker -> WorkerStates]
    /\ wconn \in [Worker -> ControlId \cup {None}]
    /\ wmatch \in [Worker -> MatchId \cup {None}]
    /\ tracked \in [MatchId -> Worker \cup {None}]
    /\ link \in [Worker -> ControlId \cup {None}]
    /\ linkState \in [Worker -> {"Up", "Down", "Closing"}]
    /\ registered \in [Worker -> BOOLEAN]
    /\ hosted \in [Worker -> MatchId \cup {None}]
    /\ DOMAIN toServer = ControlId
    /\ DOMAIN toLobby = ControlId

\* WorkerRegistry's records are well formed and no two share a connection or a
\* match.
Busy == {"Reserved", "Cancelling", "Active"}

Records ==
    /\ \A w \in Worker :
          /\ wstate[w] = "Absent" <=> wconn[w] = None
          /\ wmatch[w] # None <=> wstate[w] \in Busy
          /\ wconn[w] < nextControl
          /\ wmatch[w] < nextMatch
    /\ \A v, w \in Worker : v # w =>
          /\ wconn[v] = wconn[w] => wconn[v] = None
          /\ wmatch[v] = wmatch[w] => wmatch[v] = None

\* A connection has one server at its other end, whose registration it carries.
Links ==
    /\ \A k \in ControlId :
          k >= nextControl => session[k] = "None" /\ toServer[k] = <<>>
    /\ \A w \in Worker :
          /\ linkState[w] = "Down" <=> link[w] = None
          /\ linkState[w] = "Down" => hosted[w] = None
          /\ link[w] < nextControl
    /\ \A v, w \in Worker :
          /\ link[v] = link[w] /\ link[v] # None => v = w
          /\ linkState[w] = "Up" /\ wconn[v] = link[w] => v = w

Telling(type, m) ==
    inbox # <<>> /\ Head(inbox).type = type /\ Head(inbox).match = m
TellingOf(type, m, w) == Telling(type, m) /\ Head(inbox).worker = w

\* An event is handled before the next step of the lobby, and it accounts for
\* what the registry knows and the lobby does not yet.
OneEvent ==
    \/ inbox = <<>>
    \/ \E e \in C!Event : inbox = <<e>>

EventsTrue ==
    /\ \A m \in MatchId, w \in Worker :
          /\ Telling("Failed", m) => ~(wstate[w] = "Reserved" /\ wmatch[w] = m)
          /\ TellingOf("Ready", m, w) => wstate[w] = "Active" /\ wmatch[w] = m
          /\ TellingOf("Finished", m, w) \/ TellingOf("Unavailable", m, w)
             => wstate[w] \in {"Idle", "Absent"}
    /\ inbox # <<>> /\ Head(inbox).type # "Failed" => Head(inbox).worker \in Worker

Agreement ==
    /\ \A m \in MatchId :
          pending[m].room # None <=>
              \/ \E w \in Worker : wstate[w] = "Reserved" /\ wmatch[w] = m
              \/ Telling("Failed", m) \/ Telling("Ready", m)
    /\ \A m \in MatchId, w \in Worker :
          active[m].worker = w =>
              \/ wstate[w] = "Active" /\ wmatch[w] = m
              \/ TellingOf("Finished", m, w) \/ TellingOf("Unavailable", m, w)
    /\ \A w \in Worker : wstate[w] = "Active" =>
          \/ active[wmatch[w]].worker = w
          \/ wmatch[w] <= closing
          \/ TellingOf("Ready", wmatch[w], w)
    /\ \A m \in MatchId : active[m].room = None <=> active[m].worker = None

ControlInv ==
    /\ LobbyInv
    /\ ControlTypes
    /\ Records
    /\ Links
    /\ OneEvent
    /\ EventsTrue
    /\ Agreement
    /\ Conversations

-----------------------------------------------------------------------------
(* What a step of either end makes of a conversation.  These lemmas are    *)
(* about values: the steps of the system are instances of them.            *)

\* Sequences of at most three frames.
LEMMA AppendSecond ==
    ASSUME NEW a, NEW b
    PROVE  Append(<<a>>, b) = <<a, b>>
<1> DEFINE M == {a, b}
<1>1. <<a>> \in Seq(M) /\ <<a, b>> \in Seq(M) /\ b \in M  OBVIOUS
<1>2. Append(<<a>>, b) \in Seq(M) /\ Len(Append(<<a>>, b)) = 2  OBVIOUS
<1>3. Append(<<a>>, b)[1] = a /\ Append(<<a>>, b)[2] = b  OBVIOUS
<1>4. Len(<<a, b>>) = 2 /\ <<a, b>>[1] = a /\ <<a, b>>[2] = b  OBVIOUS
<1>5. \A i \in 1..2 : i = 1 \/ i = 2  OBVIOUS
<1> HIDE DEF M
<1> QED  BY <1>1, <1>2, <1>3, <1>4, <1>5, SeqEqual

LEMMA AppendThird ==
    ASSUME NEW a, NEW b, NEW c
    PROVE  Append(<<a, b>>, c) = <<a, b, c>>
<1> DEFINE M == {a, b, c}
           s == Append(<<a, b>>, c)
           t == <<a, b, c>>
<1>1. <<a, b>> \in Seq(M) /\ t \in Seq(M) /\ c \in M  OBVIOUS
<1>2. s \in Seq(M) /\ Len(s) = 3  OBVIOUS
<1>3. s[1] = a /\ s[2] = b /\ s[3] = c  OBVIOUS
<1>4. Len(t) = 3 /\ t[1] = a /\ t[2] = b /\ t[3] = c  OBVIOUS
<1>5. \A i \in 1..3 : i = 1 \/ i = 2 \/ i = 3  OBVIOUS
<1> HIDE DEF M, s, t
<1>6. s = t  BY <1>1, <1>2, <1>3, <1>4, <1>5, SeqEqual
<1> QED  BY <1>6 DEF s, t

LEMMA Singles ==
    ASSUME NEW a
    PROVE  /\ Append(<<>>, a) = One(a) /\ One(a) # <<>>
           /\ Head(One(a)) = a /\ Tail(One(a)) = <<>>
BY DEF One

LEMMA Pairs ==
    ASSUME NEW a, NEW b
    PROVE  /\ Append(One(a), b) = Two(a, b) /\ Two(a, b) # <<>>
           /\ Head(Two(a, b)) = a /\ Tail(Two(a, b)) = One(b)
<1>1. Append(One(a), b) = Two(a, b)  BY AppendSecond, Zenon DEF One, Two
<1>2. Two(a, b) # <<>> /\ Head(Two(a, b)) = a  BY DEF Two
<1>3. Tail(Two(a, b)) = One(b)  BY DEF One, Two
<1> QED  BY <1>1, <1>2, <1>3, Zenon

LEMMA Triples ==
    ASSUME NEW a, NEW b, NEW c
    PROVE  /\ Append(Two(a, b), c) = Three(a, b, c) /\ Three(a, b, c) # <<>>
           /\ Head(Three(a, b, c)) = a /\ Tail(Three(a, b, c)) = Two(b, c)
<1>1. Append(Two(a, b), c) = Three(a, b, c)
  BY AppendThird, Zenon DEF Two, Three
<1>2. Three(a, b, c) # <<>> /\ Head(Three(a, b, c)) = a  BY DEF Three
<1>3. Tail(Three(a, b, c)) = Two(b, c)  BY DEF Two, Three
<1> QED  BY <1>1, <1>2, <1>3, Zenon

\* The fields of the frames, as either end writes them.
LEMMA FrameFields ==
    /\ \A w : /\ Hi(w).type = "Register" /\ Hi(w).worker = w
              /\ Welcome(w).type = "Registered" /\ Welcome(w).worker = w
    /\ \A m : /\ Ask(m).type = "Reserve" /\ Ask(m).match = m
              /\ Stop(m).type = "Cancel" /\ Stop(m).match = m
              /\ Yes(m).type = "Ready" /\ Yes(m).match = m
              /\ No(m).type = "Rejected" /\ No(m).match = m
              /\ Stopped(m).type = "Cancelled" /\ Stopped(m).match = m
              /\ Over(m).type = "Finished" /\ Over(m).match = m
BY DEF Hi, Welcome, Ask, Stop, Yes, No, Stopped, Over, C!About, C!For

LEMMA SameFrames ==
    /\ \A w : S!About("Register", w) = Hi(w)
    /\ \A m : /\ S!For("Ready", m) = Yes(m) /\ S!For("Rejected", m) = No(m)
              /\ S!For("Cancelled", m) = Stopped(m) /\ S!For("Finished", m) = Over(m)
BY DEF Hi, Yes, No, Stopped, Over, C!About, C!For, S!About, S!For, C!Nobody, S!Nobody

LEMMA FreshRegisters ==
    ASSUME NEW w, NEW reg, NEW ts, NEW tl, NEW h, Fresh(w, reg, ts, tl, h)
    PROVE  /\ tl # <<>> /\ Head(tl) = Hi(w)
           /\ Talk(w, reg, "Idle", None, Append(ts, Welcome(w)), Tail(tl), h)
BY Singles, Pairs, Triples DEF Fresh, Talk, Greeted

LEMMA FreshCloses ==
    ASSUME NEW w, NEW reg, NEW ts, NEW tl, NEW h, Fresh(w, reg, ts, tl, h)
    PROVE  Leftover(w, reg, ts, h)
BY DEF Fresh, Leftover

LEMMA TalkCloses ==
    ASSUME NEW w, NEW reg, NEW st, NEW m, NEW ts, NEW tl, NEW h,
           st \in Busy => m \in MatchId,
           Talk(w, reg, st, m, ts, tl, h)
    PROVE  Leftover(w, reg, ts, h)
BY DEF Talk, Leftover, Greeted, AskedFor, RunningOn, StoppedFor, Busy

LEMMA TalkReserves ==
    ASSUME NEW w, NEW reg, NEW n, NEW m, NEW ts, NEW tl, NEW h,
           Talk(w, reg, "Idle", n, ts, tl, h)
    PROVE  Talk(w, reg, "Reserved", m, Append(ts, Ask(m)), tl, h)
BY Singles, Pairs, Triples DEF Talk, Greeted, AskedFor

LEMMA TalkCancels ==
    ASSUME NEW w, NEW reg, NEW m, NEW ts, NEW tl, NEW h,
           Talk(w, reg, "Reserved", m, ts, tl, h)
    PROVE  Talk(w, reg, "Cancelling", m, Append(ts, Stop(m)), tl, h)
<1>1. CASE ~reg
  BY <1>1, Singles, Pairs, Triples DEF Talk, Greeted
<1>2. CASE reg
  <2>1. AskedFor(m, ts, tl, h)  BY <1>2 DEF Talk
  <2>2. StoppedFor(m, Append(ts, Stop(m)), tl, h)
    <3>1. CASE ts = One(Ask(m)) /\ tl = <<>> /\ h = None
      <4>1. Append(ts, Stop(m)) = Two(Ask(m), Stop(m))  BY <3>1, Singles, Pairs
      <4> QED  BY <4>1, <3>1 DEF StoppedFor
    <3>2. CASE ts = <<>>
      <4>1. Append(ts, Stop(m)) = One(Stop(m))  BY <3>2, Singles, Pairs
      <4> QED  BY <4>1, <3>2, <2>1, Singles, Pairs, Triples DEF AskedFor, StoppedFor
    <3> QED  BY <3>1, <3>2, <2>1 DEF AskedFor
  <2> QED  BY <1>2, <2>2 DEF Talk
<1> QED  BY <1>1, <1>2

\* The lobby reads the frame at the head of "tl".
LEMMA TalkAnswered ==
    ASSUME NEW w, NEW reg, NEW st, NEW m, NEW ts, NEW tl, NEW h,
           Talk(w, reg, st, m, ts, tl, h), tl # <<>>
    PROVE  /\ Head(tl).type = "Ready" /\ st = "Reserved" =>
                  Talk(w, reg, "Active", m, ts, Tail(tl), h)
           /\ Head(tl).type = "Rejected" /\ st = "Reserved" =>
                  Talk(w, reg, "Idle", None, ts, Tail(tl), h)
           /\ Head(tl).type = "Cancelled" /\ st = "Cancelling" =>
                  Talk(w, reg, "Idle", None, ts, Tail(tl), h)
           /\ Head(tl).type = "Finished" /\ st = "Active" =>
                  Talk(w, reg, "Idle", None, ts, Tail(tl), h)
           /\ Head(tl).type \in {"Ready", "Rejected"} /\ st = "Cancelling" =>
                  Talk(w, reg, st, m, ts, Tail(tl), h)
<1>1. CASE reg /\ st = "Reserved" /\ AskedFor(m, ts, tl, h)
  BY <1>1, Singles, Pairs, Triples, FrameFields DEF Talk, AskedFor, RunningOn, Busy
<1>2. CASE reg /\ st = "Active" /\ RunningOn(m, ts, tl, h)
  BY <1>2, Singles, Pairs, Triples, FrameFields DEF Talk, RunningOn, Busy
<1>3. CASE reg /\ st = "Cancelling" /\ StoppedFor(m, ts, tl, h)
  <2>1. Head(tl).type # "Finished" =>
            \/ Head(tl).type = "Cancelled" /\ ts = <<>> /\ h = None /\ Tail(tl) = <<>>
            \/ /\ Head(tl).type \in {"Ready", "Rejected"}
               /\ StoppedFor(m, ts, Tail(tl), h)
    BY <1>3, Singles, Pairs, Triples, FrameFields DEF StoppedFor
  <2> QED  BY <1>3, <2>1 DEF Talk, Busy
<1> QED  BY <1>1, <1>2, <1>3 DEF Talk, Greeted

LEMMA TalkAnswers ==
    ASSUME NEW w, NEW reg, NEW st, NEW m, NEW ts, NEW tl, NEW h,
           Talk(w, reg, st, m, ts, tl, h), tl # <<>>
    PROVE  st \in Busy /\ (st = "Active" => Head(tl).type = "Finished")
<1>1. CASE reg /\ st = "Reserved" /\ AskedFor(m, ts, tl, h)
  BY <1>1 DEF Busy
<1>2. CASE reg /\ st = "Active" /\ RunningOn(m, ts, tl, h)
  BY <1>2, Singles, FrameFields DEF RunningOn, Busy
<1>3. CASE reg /\ st = "Cancelling" /\ StoppedFor(m, ts, tl, h)
  BY <1>3 DEF Busy
<1> QED  BY <1>1, <1>2, <1>3 DEF Talk, Greeted

\* The server reads the frame at the head of "ts".
LEMMA TalkHeard ==
    ASSUME NEW w, NEW reg, NEW st, NEW m, NEW ts, NEW tl, NEW h,
           st \in Busy => m # None,
           Talk(w, reg, st, m, ts, tl, h), ts # <<>>
    PROVE  /\ Head(ts).type = "Registered" <=> ~reg
           /\ Head(ts).type = "Reserve" => h = None
           /\ reg => Head(ts).match = m /\ st \in Busy
           /\ Head(ts).type = "Registered" => Talk(w, TRUE, st, m, Tail(ts), tl, h)
           /\ Head(ts).type = "Reserve" =>
                  /\ Talk(w, reg, st, m, Tail(ts), Append(tl, Yes(m)), m)
                  /\ Talk(w, reg, st, m, Tail(ts), Append(tl, No(m)), h)
           /\ Head(ts).type = "Cancel" /\ h = m =>
                  Talk(w, reg, st, m, Tail(ts), Append(tl, Stopped(m)), None)
<1>1. CASE ~reg /\ Greeted(w, st, m, ts, tl, h)
  BY <1>1, Singles, Pairs, Triples, FrameFields DEF Talk, Greeted, AskedFor, StoppedFor, Busy
<1>2. CASE reg /\ st = "Reserved" /\ AskedFor(m, ts, tl, h)
  <2>1. ts = One(Ask(m)) /\ tl = <<>> /\ h = None
    BY <1>2 DEF AskedFor
  <2> QED  BY <1>2, <2>1, Singles, FrameFields DEF Talk, AskedFor, Busy
<1>3. CASE reg /\ st = "Cancelling" /\ StoppedFor(m, ts, tl, h)
  <2>1. m # None  BY <1>3 DEF Busy
  <2>2. CASE ts = Two(Ask(m), Stop(m)) /\ tl = <<>> /\ h = None
    BY <1>3, <2>2, Singles, Pairs, Triples, FrameFields DEF Talk, StoppedFor, Busy
  <2>3. CASE ts = One(Stop(m)) /\ h = m
    BY <1>3, <2>1, <2>3, Singles, Pairs, Triples, FrameFields DEF Talk, StoppedFor, Busy
  <2>4. CASE ts = One(Stop(m)) /\ h = None
    BY <1>3, <2>1, <2>4, Singles, Pairs, Triples, FrameFields DEF Talk, StoppedFor, Busy
  <2> QED  BY <1>3, <2>2, <2>3, <2>4 DEF StoppedFor
<1> QED  BY <1>1, <1>2, <1>3 DEF Talk, RunningOn

\* The server's match ends.
LEMMA TalkEnds ==
    ASSUME NEW w, NEW reg, NEW st, NEW m, NEW ts, NEW tl, NEW h,
           Talk(w, reg, st, m, ts, tl, h), h # None
    PROVE  /\ h = m
           /\ Talk(w, reg, st, m, ts, Append(tl, Over(m)), None)
<1>1. reg  BY DEF Talk, Greeted
<1>2. CASE st = "Reserved" /\ AskedFor(m, ts, tl, h)
  BY <1>1, <1>2, Singles, Pairs, Triples DEF Talk, AskedFor
<1>3. CASE st = "Active" /\ RunningOn(m, ts, tl, h)
  BY <1>1, <1>3, Singles, Pairs, Triples DEF Talk, RunningOn
<1>4. CASE st = "Cancelling" /\ StoppedFor(m, ts, tl, h)
  BY <1>1, <1>4, Singles, Pairs, Triples DEF Talk, StoppedFor
<1> QED  BY <1>1, <1>2, <1>3, <1>4 DEF Talk

LEMMA LeftoverHeard ==
    ASSUME NEW w, NEW reg, NEW ts, NEW h, Leftover(w, reg, ts, h), ts # <<>>
    PROVE  /\ Head(ts).type = "Registered" <=> ~reg
           /\ Head(ts).type = "Reserve" => h = None
           /\ reg => Head(ts).match \in MatchId
           /\ Head(ts).type = "Registered" => Leftover(w, TRUE, Tail(ts), h)
           /\ Head(ts).type = "Reserve" =>
                  /\ Leftover(w, reg, Tail(ts), Head(ts).match)
                  /\ Leftover(w, reg, Tail(ts), h)
           /\ Head(ts).type = "Cancel" => Leftover(w, reg, Tail(ts), None)
<1>1. CASE ~reg
  BY <1>1, Singles, Pairs, Triples, FrameFields DEF Leftover
<1>2. CASE reg
  BY <1>2, Singles, Pairs, Triples, FrameFields DEF Leftover
<1> QED  BY <1>1, <1>2

LEMMA LeftoverEnds ==
    ASSUME NEW w, NEW reg, NEW ts, NEW h, Leftover(w, reg, ts, h)
    PROVE  Leftover(w, reg, ts, None)
BY DEF Leftover

-----------------------------------------------------------------------------
(* Conversations: what a step leaves alone.                                *)

LEMMA Constants ==
    /\ MaxControl \in Nat /\ MaxMatch \in Nat
    /\ Worker \subseteq Nat /\ None \notin Worker
    /\ C!ControlId = ControlId /\ S!ControlId = ControlId
    /\ C!Match = MatchId /\ S!Match = MatchId
    /\ C!Nobody = None /\ S!Nobody = None /\ None = 0
    /\ None \notin ControlId /\ None \notin MatchId
BY LobbyAssumption, ControlAssumption
DEF C!ControlId, S!ControlId, C!Match, S!Match, C!Nobody, S!Nobody, None,
    ControlId, MatchId

LEMMA LinkType ==
    ASSUME ControlTypes, Links, NEW w \in Worker, linkState[w] = "Up"
    PROVE  link[w] \in ControlId /\ link[w] # None
BY DEF ControlTypes, Links

\* The record of w.
SameRecord(w) ==
    wstate'[w] = wstate[w] /\ wconn'[w] = wconn[w] /\ wmatch'[w] = wmatch[w]

SameServer(w) ==
    /\ link'[w] = link[w] /\ linkState'[w] = linkState[w]
    /\ registered'[w] = registered[w] /\ hosted'[w] = hosted[w]

SameChannel(k) ==
    toServer'[k] = toServer[k] /\ toLobby'[k] = toLobby[k]

\* A conversation that no step touches.
LEMMA ConversationStays ==
    ASSUME Conversations, NEW w \in Worker, SameRecord(w), SameServer(w),
           session'[link[w]] = session[link[w]], SameChannel(link[w])
    PROVE  linkState'[w] = "Up" => Conversation(w)'
<1> SUFFICES ASSUME linkState'[w] = "Up" PROVE Conversation(w)'  OBVIOUS
<1>1. Conversation(w)  BY DEF Conversations, SameServer
<1>2. /\ link'[w] = link[w] /\ registered'[w] = registered[w]
      /\ hosted'[w] = hosted[w]
      /\ session'[link'[w]] = session[link[w]]
      /\ toServer'[link'[w]] = toServer[link[w]]
      /\ toLobby'[link'[w]] = toLobby[link[w]]
      /\ wstate'[w] = wstate[w] /\ wconn'[w] = wconn[w] /\ wmatch'[w] = wmatch[w]
  BY DEF SameRecord, SameServer, SameChannel
<1> QED  BY <1>1, <1>2 DEF Conversation

\* A server that is registered on no other connection than k, when the step is
\* on k and the server is linked elsewhere: the lobby has not read its
\* registration yet, or closed its end.
LEMMA ConversationElsewhere ==
    ASSUME Conversations, NEW w \in Worker, SameServer(w),
           session'[link[w]] = session[link[w]], SameChannel(link[w]),
           wconn[w] # link[w], wconn'[w] # link[w]
    PROVE  linkState'[w] = "Up" => Conversation(w)'
<1> SUFFICES ASSUME linkState'[w] = "Up" PROVE Conversation(w)'  OBVIOUS
<1>1. Conversation(w)  BY DEF Conversations, SameServer
<1>2. /\ link'[w] = link[w] /\ registered'[w] = registered[w]
      /\ hosted'[w] = hosted[w]
      /\ session'[link'[w]] = session[link[w]]
      /\ toServer'[link'[w]] = toServer[link[w]]
      /\ toLobby'[link'[w]] = toLobby[link[w]]
      /\ wconn[w] # link[w] /\ wconn'[w] # link'[w]
  BY DEF SameServer, SameChannel
<1> QED  BY <1>1, <1>2 DEF Conversation

\* The lobby, registry and server w talk on connection k, which w is registered
\* on after the step.
LEMMA LobbySpeaks ==
    ASSUME ControlTypes, Records, Links, Conversations,
           NEW w \in Worker, NEW k \in ControlId,
           UNCHANGED <<session, serverVars>>,
           wconn'[w] = k, wconn[w] \in {k, None},
           \A v \in Worker : v # w => SameRecord(v),
           \A v \in Worker : linkState[v] = "Up" /\ link[v] = k => v = w,
           \A j \in ControlId : j # k => SameChannel(j),
           session[k] # "Open" => toServer'[k] = toServer[k],
           linkState[w] = "Up" /\ link[w] = k /\ session[k] = "Open" =>
               Talk(w, registered[w], wstate'[w], wmatch'[w], toServer'[k],
                    toLobby'[k], hosted[w])
    PROVE  Conversations'
<1> SUFFICES ASSUME NEW v \in Worker, linkState'[v] = "Up"
             PROVE  Conversation(v)'
  BY DEF Conversations
<1>1. SameServer(v)  BY DEF serverVars, SameServer
<1>2. linkState[v] = "Up" /\ link[v] \in ControlId /\ link[v] # None
  BY <1>1, LinkType DEF SameServer
<1>3. session'[link[v]] = session[link[v]]  OBVIOUS
<1>4. CASE link[v] # k
  <2>1. SameChannel(link[v])  BY <1>2, <1>4
  <2>2. CASE v # w  BY <1>1, <1>3, <2>1, <2>2, ConversationStays
  <2>3. CASE v = w
    <3>1. wconn[w] # link[w] /\ wconn'[w] # link[w]  BY <1>2, <1>4, <2>3
    <3> QED  BY <1>1, <1>3, <2>1, <2>3, <3>1, ConversationElsewhere
  <2> QED  BY <2>2, <2>3
<1>5. CASE link[v] = k
  <2>1. v = w  BY <1>2, <1>5
  <2>2. /\ link'[v] = k /\ registered'[v] = registered[w] /\ hosted'[v] = hosted[w]
        /\ wconn'[v] = k /\ session'[k] = session[k]
    BY <1>1, <1>5, <2>1 DEF SameServer
  <2>3. CASE session[k] = "Open"
    <3>1. Talk(w, registered[w], wstate'[w], wmatch'[w], toServer'[k],
               toLobby'[k], hosted[w])
      BY <1>2, <1>5, <2>1, <2>3
    <3> QED  BY <2>1, <2>2, <2>3, <3>1 DEF Conversation
  <2>4. CASE session[k] # "Open"
    <3>1. toServer'[k] = toServer[k]  BY <2>4
    <3>2. Leftover(w, registered[w], toServer[k], hosted[w])
      BY <1>2, <1>5, <2>1, <2>4 DEF Conversations, Conversation
    <3> QED  BY <2>1, <2>2, <2>4, <3>1, <3>2 DEF Conversation
  <2> QED  BY <2>3, <2>4
<1> QED  BY <1>4, <1>5

\* The lobby's end of connection k is closed after the step, and the registry
\* drops nobody who is registered elsewhere.
LEMMA LobbyCloses ==
    ASSUME ControlTypes, Records, Links, Conversations, NEW k,
           UNCHANGED <<toServer, serverVars>>,
           \A v \in Worker : wconn[v] # k => SameRecord(v),
           \A v \in Worker : wconn[v] = k => wconn'[v] \in {k, None},
           \A j \in ControlId : j # k => toLobby'[j] = toLobby[j],
           \A j \in ControlId : j # k => session'[j] = session[j],
           k \in ControlId => session'[k] # "Open"
    PROVE  Conversations'
<1> SUFFICES ASSUME NEW v \in Worker, linkState'[v] = "Up"
             PROVE  Conversation(v)'
  BY DEF Conversations
<1>1. SameServer(v)  BY DEF serverVars, SameServer
<1>2. linkState[v] = "Up" /\ link[v] \in ControlId /\ link[v] # None
  BY <1>1, LinkType DEF SameServer
<1>3. Conversation(v)  BY <1>2 DEF Conversations
<1>4. CASE link[v] # k
  <2>1. SameChannel(link[v]) /\ session'[link[v]] = session[link[v]]
    BY <1>2, <1>4 DEF SameChannel
  <2>2. CASE wconn[v] # k
    <3>1. SameRecord(v)  BY <2>2
    <3> QED  BY <1>1, <2>1, <3>1, ConversationStays
  <2>3. CASE wconn[v] = k
    <3>1. wconn[v] # link[v] /\ wconn'[v] # link[v]  BY <1>2, <1>4, <2>3
    <3> QED  BY <1>1, <2>1, <3>1, ConversationElsewhere
  <2> QED  BY <2>2, <2>3
<1>5. CASE link[v] = k
  <2>1. /\ link'[v] = k /\ registered'[v] = registered[v] /\ hosted'[v] = hosted[v]
        /\ session'[k] # "Open" /\ toServer'[k] = toServer[k]
    BY <1>1, <1>2, <1>5 DEF SameServer
  <2>2. Leftover(v, registered[v], toServer[k], hosted[v])
    <3>1. CASE session[k] # "Open"  BY <1>3, <1>5, <3>1 DEF Conversation
    <3>2. CASE session[k] = "Open" /\ wconn[v] = k
      <4>1. Talk(v, registered[v], wstate[v], wmatch[v], toServer[k], toLobby[k],
                 hosted[v])
        BY <1>3, <1>5, <3>2 DEF Conversation
      <4>2. wstate[v] \in Busy => wmatch[v] \in MatchId
        BY DEF Records, ControlTypes
      <4> QED  BY <4>1, <4>2, TalkCloses
    <3>3. CASE session[k] = "Open" /\ wconn[v] # k
      <4>1. Fresh(v, registered[v], toServer[k], toLobby[k], hosted[v])
        BY <1>3, <1>5, <3>3 DEF Conversation
      <4> QED  BY <4>1, FreshCloses
    <3> QED  BY <3>1, <3>2, <3>3
  <2> QED  BY <2>1, <2>2 DEF Conversation
<1> QED  BY <1>4, <1>5

\* A step of game server w, on the connection it holds.
LEMMA ServerSpeaks ==
    ASSUME ControlTypes, Links, Conversations, NEW w \in Worker,
           UNCHANGED lobbySide,
           \A v \in Worker : v # w => SameServer(v),
           \A k \in ControlId : k # link[w] => SameChannel(k),
           linkState'[w] = "Up" => Conversation(w)'
    PROVE  Conversations'
<1> SUFFICES ASSUME NEW v \in Worker, linkState'[v] = "Up", v # w
             PROVE  Conversation(v)'
  BY DEF Conversations
<1>1. SameServer(v) /\ SameRecord(v)  BY DEF lobbySide, SameRecord
<1>2. linkState[v] = "Up" /\ link[v] \in ControlId /\ link[v] # None
  BY <1>1, LinkType DEF SameServer
<1>3. link[v] # link[w]  BY <1>2 DEF Links
<1>4. SameChannel(link[v]) /\ session'[link[v]] = session[link[v]]
  BY <1>2, <1>3 DEF lobbySide
<1> QED  BY <1>1, <1>4, ConversationStays

-----------------------------------------------------------------------------
(* The registry's records: a step changes the record of one worker.        *)

RecordBecomes(w, st, k, m) ==
    /\ wstate' = [wstate EXCEPT ![w] = st]
    /\ wconn' = [wconn EXCEPT ![w] = k]
    /\ wmatch' = [wmatch EXCEPT ![w] = m]

LEMMA NewRecord ==
    ASSUME ControlTypes, NEW w \in Worker, NEW st, NEW k, NEW m,
           RecordBecomes(w, st, k, m)
    PROVE  /\ wstate'[w] = st /\ wconn'[w] = k /\ wmatch'[w] = m
           /\ \A v \in Worker : v # w => SameRecord(v)
BY DEF ControlTypes, RecordBecomes, SameRecord

LEMMA RecordsChange ==
    ASSUME ControlTypes, Records, NEW w \in Worker, NEW st,
           NEW k \in ControlId \cup {None}, NEW m \in MatchId \cup {None},
           RecordBecomes(w, st, k, m),
           st = "Absent" <=> k = None,
           m # None <=> st \in Busy,
           nextControl' = nextControl, nextMatch' \in Nat, nextMatch' >= nextMatch,
           nextMatch \in Nat, k < nextControl, m < nextMatch',
           \A v \in Worker : v # w /\ wconn[v] = k => k = None,
           \A v \in Worker : v # w /\ wmatch[v] = m => m = None
    PROVE  Records'
<1>1. /\ wstate'[w] = st /\ wconn'[w] = k /\ wmatch'[w] = m
      /\ \A v \in Worker : v # w => SameRecord(v)
  BY NewRecord
<1>2. ASSUME NEW v \in Worker
      PROVE  /\ wstate'[v] = "Absent" <=> wconn'[v] = None
             /\ wmatch'[v] # None <=> wstate'[v] \in Busy
             /\ wconn'[v] < nextControl'
             /\ wmatch'[v] < nextMatch'
  <2>1. CASE v = w  BY <1>1, <2>1
  <2>2. CASE v # w
    <3>1. wstate'[v] = wstate[v] /\ wconn'[v] = wconn[v] /\ wmatch'[v] = wmatch[v]
      BY <1>1, <2>2 DEF SameRecord
    <3>2. wmatch[v] < nextMatch /\ wmatch[v] \in Nat
      BY Constants DEF Records, ControlTypes, MatchId
    <3> QED  BY <3>1, <3>2 DEF Records
  <2> QED  BY <2>1, <2>2
<1>3. ASSUME NEW u \in Worker, NEW v \in Worker, u # v
      PROVE  /\ wconn'[u] = wconn'[v] => wconn'[u] = None
             /\ wmatch'[u] = wmatch'[v] => wmatch'[u] = None
  <2>1. CASE u # w /\ v # w
    BY <1>1, <1>3, <2>1 DEF SameRecord, Records
  <2>2. CASE u = w  BY <1>1, <1>3, <2>2 DEF SameRecord
  <2>3. CASE v = w  BY <1>1, <1>3, <2>3 DEF SameRecord
  <2> QED  BY <2>1, <2>2, <2>3
<1> QED  BY <1>2, <1>3 DEF Records

\* The record of a worker keeps its match and its connection, or gives up the
\* match, or both.
LEMMA RecordYields ==
    ASSUME ControlTypes, Records, NEW w \in Worker, NEW st, NEW k, NEW m,
           RecordBecomes(w, st, k, m),
           k \in {wconn[w], None}, m \in {wmatch[w], None},
           st = "Absent" <=> k = None,
           m # None <=> st \in Busy,
           UNCHANGED <<nextControl, nextMatch>>,
           nextMatch \in Nat \ {0}, nextControl \in Nat \ {0}
    PROVE  Records'
<1>1. k \in ControlId \cup {None} /\ m \in MatchId \cup {None}
  BY DEF ControlTypes
<1>2. k < nextControl /\ m < nextMatch'
  BY Constants DEF Records
<1>3. \A v \in Worker : /\ v # w /\ wconn[v] = k => k = None
                        /\ v # w /\ wmatch[v] = m => m = None
  BY DEF Records
<1> QED  BY <1>1, <1>2, <1>3, RecordsChange

LEMMA RecordsStay ==
    ASSUME ControlTypes, Records, UNCHANGED <<wstate, wconn, wmatch>>,
           nextControl' \in Nat, nextControl' >= nextControl,
           nextMatch \in Nat, nextMatch' \in Nat, nextMatch' >= nextMatch
    PROVE  Records'
<1>1. \A w \in Worker : /\ wconn[w] \in Nat /\ wmatch[w] \in Nat
                        /\ wconn[w] < nextControl' /\ wmatch[w] < nextMatch'
  BY Constants DEF Records, ControlTypes, ControlId, MatchId
<1> QED  BY <1>1 DEF Records

-----------------------------------------------------------------------------
(* Links. *)

LEMMA LinksStay ==
    ASSUME ControlTypes, Links, UNCHANGED <<nextControl, serverVars>>,
           \A w \in Worker : wconn'[w] \in {wconn[w], None},
           \A k \in ControlId : k >= nextControl =>
               session'[k] = session[k] /\ toServer'[k] = toServer[k]
    PROVE  Links'
<1>1. /\ link' = link /\ linkState' = linkState /\ hosted' = hosted
      /\ nextControl' = nextControl
  BY DEF serverVars
<1>2. ASSUME NEW v \in Worker, NEW w \in Worker, linkState[w] = "Up",
             wconn'[v] = link[w]
      PROVE  v = w
  <2>1. link[w] # None  BY <1>2, LinkType
  <2> QED  BY <1>2, <2>1 DEF Links
<1> QED  BY <1>1, <1>2 DEF Links

-----------------------------------------------------------------------------
(* Events: what the registry tells the lobby accounts for the change of    *)
(* its records.                                                            *)

LEMMA TellsNothing ==
    /\ inbox = <<>> => \A t, m, w : ~Telling(t, m) /\ ~TellingOf(t, m, w)
    /\ inbox' = <<>> => \A t, m, w : ~Telling(t, m)' /\ ~TellingOf(t, m, w)'
BY DEF Telling, TellingOf

Accord == OneEvent /\ EventsTrue /\ Agreement

\* Between two calls of the lobby.
LEMMA QuietAccord ==
    ASSUME Accord, Quiet
    PROVE  /\ \A m \in MatchId :
                 pending[m].room # None <=>
                     \E w \in Worker : wstate[w] = "Reserved" /\ wmatch[w] = m
           /\ \A m \in MatchId, w \in Worker :
                 active[m].worker = w => wstate[w] = "Active" /\ wmatch[w] = m
           /\ \A w \in Worker : wstate[w] = "Active" =>
                 active[wmatch[w]].worker = w \/ wmatch[w] <= closing
           /\ \A m \in MatchId : active[m].room = None <=> active[m].worker = None
BY TellsNothing DEF Accord, Agreement, Quiet

EventType == {"Failed", "Ready", "Finished", "Unavailable"}
Says(t, w, m) == [type |-> t, worker |-> w, match |-> m]

LEMMA SaysType ==
    ASSUME NEW t \in EventType,
           NEW w \in Worker \cup {None}, NEW m \in MatchId
    PROVE  /\ Says(t, w, m) \in C!Event
           /\ Says(t, w, m).type = t /\ Says(t, w, m).worker = w
           /\ Says(t, w, m).match = m
           /\ Append(<<>>, Says(t, w, m)) = <<Says(t, w, m)>>
           /\ <<>> \o <<Says(t, w, m)>> = <<Says(t, w, m)>>
<1>1. Says(t, w, m) \in C!Event  BY Constants DEF Says, C!Event, EventType
<1>2. /\ Says(t, w, m).type = t /\ Says(t, w, m).worker = w
      /\ Says(t, w, m).match = m
  BY DEF Says
<1>3. PICK e : e = Says(t, w, m)  OBVIOUS
<1>4. Append(<<>>, e) = <<e>>  OBVIOUS
<1>5. <<>> \o <<e>> = <<e>>  OBVIOUS
<1> QED  BY <1>1, <1>2, <1>3, <1>4, <1>5

LEMMA Tells ==
    ASSUME NEW t \in EventType,
           NEW w \in Worker \cup {None}, NEW m \in MatchId,
           inbox' = <<Says(t, w, m)>>
    PROVE  /\ OneEvent'
           /\ inbox' # <<>> /\ Head(inbox').type = t /\ Head(inbox').worker = w
           /\ \A s, n : /\ Telling(s, n)' <=> s = t /\ n = m
                        /\ \A v : TellingOf(s, n, v)' <=> s = t /\ n = m /\ v = w
<1>1. PICK e : e = Says(t, w, m)  OBVIOUS
<1>2. e \in C!Event /\ e.type = t /\ e.worker = w /\ e.match = m
  BY <1>1, SaysType
<1>3. inbox' = <<e>>  BY <1>1
<1>4. inbox' # <<>> /\ Head(inbox') = e  BY <1>3
<1>5. OneEvent'  BY <1>2, <1>3 DEF OneEvent
<1> QED  BY <1>2, <1>4, <1>5 DEF Telling, TellingOf

\* What the lobby knows of matches.
SameMatches ==
    pending' = pending /\ active' = active /\ closing' = closing

\* The worker owed the lobby nothing and still does not.
LEMMA NothingToTell ==
    ASSUME ControlTypes, Records, Accord, Quiet, SameMatches,
           NEW w \in Worker, NEW st, NEW k, NEW m, RecordBecomes(w, st, k, m),
           wstate[w] \notin {"Reserved", "Active"}, st \notin {"Reserved", "Active"},
           inbox' = inbox
    PROVE  Accord'
<1>1. /\ wstate'[w] = st /\ wconn'[w] = k /\ wmatch'[w] = m
      /\ \A v \in Worker : v # w => SameRecord(v)
  BY NewRecord
<1>2. ASSUME NEW v \in Worker, NEW s \in {"Reserved", "Active"}
      PROVE  /\ wstate'[v] = s <=> wstate[v] = s
             /\ wstate[v] = s => wmatch'[v] = wmatch[v]
  BY <1>1, <1>2 DEF SameRecord
<1>3. inbox' = <<>>  BY DEF Quiet
<1>4. OneEvent' /\ EventsTrue'  BY <1>3, TellsNothing DEF OneEvent, EventsTrue
<1>5. Agreement'
  <2>1. ASSUME NEW n \in MatchId
        PROVE  pending'[n].room # None <=>
                   \E v \in Worker : wstate'[v] = "Reserved" /\ wmatch'[v] = n
    BY <1>2, QuietAccord DEF SameMatches
  <2>2. ASSUME NEW n \in MatchId, NEW v \in Worker, active'[n].worker = v
        PROVE  wstate'[v] = "Active" /\ wmatch'[v] = n
    BY <1>2, <2>2, QuietAccord DEF SameMatches
  <2>3. ASSUME NEW v \in Worker, wstate'[v] = "Active"
        PROVE  active'[wmatch'[v]].worker = v \/ wmatch'[v] <= closing'
    <3>1. wstate[v] = "Active" /\ wmatch'[v] = wmatch[v]  BY <1>2, <2>3
    <3> QED  BY <3>1, QuietAccord DEF SameMatches
  <2>4. \A n \in MatchId : active'[n].room = None <=> active'[n].worker = None
    BY QuietAccord DEF SameMatches
  <2> QED  BY <1>3, <2>1, <2>2, <2>3, <2>4, TellsNothing DEF Agreement
<1> QED  BY <1>4, <1>5 DEF Accord

\* A Reserved worker answers in time.
LEMMA ReadyIsTold ==
    ASSUME ControlTypes, Records, Accord, Quiet, SameMatches,
           NEW w \in Worker, NEW k, NEW m, RecordBecomes(w, "Active", k, m),
           wstate[w] = "Reserved", m = wmatch[w], m \in MatchId,
           inbox' = <<Says("Ready", w, m)>>
    PROVE  Accord'
<1>1. /\ wstate'[w] = "Active" /\ wconn'[w] = k /\ wmatch'[w] = m
      /\ \A v \in Worker : v # w => SameRecord(v)
  BY NewRecord
<1>2. /\ OneEvent' /\ inbox' # <<>> /\ Head(inbox').worker = w
      /\ \A t, n : /\ Telling(t, n)' <=> t = "Ready" /\ n = m
                   /\ \A v : TellingOf(t, n, v)' <=> t = "Ready" /\ n = m /\ v = w
  <2>1. "Ready" \in EventType  BY DEF EventType
  <2>2. w \in Worker \cup {None}  OBVIOUS
  <2> QED  BY <2>1, <2>2, Tells, Zenon
<1>4. EventsTrue'
  BY <1>1, <1>2 DEF EventsTrue
<1>5. Agreement'
  <2>1. ASSUME NEW n \in MatchId
        PROVE  pending'[n].room # None <=>
                   \/ \E v \in Worker : wstate'[v] = "Reserved" /\ wmatch'[v] = n
                   \/ Telling("Failed", n)' \/ Telling("Ready", n)'
    <3>1. CASE n = m
      <4>1. pending[n].room # None  BY <3>1, QuietAccord
      <4> QED  BY <3>1, <4>1, <1>2 DEF SameMatches
    <3>2. CASE n # m
      <4>1. \A v \in Worker : wstate'[v] = "Reserved" /\ wmatch'[v] = n
                              <=> wstate[v] = "Reserved" /\ wmatch[v] = n
        BY <1>1, <3>2 DEF SameRecord
      <4> QED  BY <3>2, <4>1, <1>2, QuietAccord DEF SameMatches
    <3> QED  BY <3>1, <3>2
  <2>2. ASSUME NEW n \in MatchId, NEW v \in Worker, active'[n].worker = v
        PROVE  wstate'[v] = "Active" /\ wmatch'[v] = n
    <3>1. wstate[v] = "Active" /\ wmatch[v] = n  BY <2>2, QuietAccord DEF SameMatches
    <3> QED  BY <1>1, <3>1 DEF SameRecord
  <2>3. ASSUME NEW v \in Worker, wstate'[v] = "Active"
        PROVE  \/ active'[wmatch'[v]].worker = v
               \/ wmatch'[v] <= closing'
               \/ TellingOf("Ready", wmatch[v], v)'
    <3>1. CASE v = w
      <4>1. wmatch'[v] = m  BY <1>1, <3>1
      <4> QED  BY <3>1, <4>1, <1>2
    <3>2. CASE v # w
      <4>1. wstate[v] = "Active" /\ wmatch'[v] = wmatch[v]
        BY <1>1, <2>3, <3>2 DEF SameRecord
      <4> QED  BY <4>1, QuietAccord DEF SameMatches
    <3> QED  BY <3>1, <3>2
  <2>4. \A n \in MatchId : active'[n].room = None <=> active'[n].worker = None
    BY QuietAccord DEF SameMatches
  <2> QED  BY <2>1, <2>2, <2>3, <2>4 DEF Agreement
<1> QED  BY <1>2, <1>4, <1>5 DEF Accord

\* A Reserved worker is rejected, times out or goes away.
LEMMA FailureIsTold ==
    ASSUME ControlTypes, Records, Accord, Quiet, SameMatches,
           NEW w \in Worker, NEW st \in {"Idle", "Absent"}, NEW k, NEW n,
           RecordBecomes(w, st, k, n),
           NEW m \in MatchId, wstate[w] = "Reserved", wmatch[w] = m,
           inbox' = <<Says("Failed", None, m)>>
    PROVE  Accord'
<1>1. /\ wstate'[w] = st /\ wconn'[w] = k /\ wmatch'[w] = n
      /\ \A v \in Worker : v # w => SameRecord(v)
  BY NewRecord
<1>2. /\ OneEvent' /\ Head(inbox').type = "Failed"
      /\ \A t, i : /\ Telling(t, i)' <=> t = "Failed" /\ i = m
                   /\ \A v : TellingOf(t, i, v)' <=> t = "Failed" /\ i = m /\ v = None
  <2>1. "Failed" \in EventType  BY DEF EventType
  <2>2. None \in Worker \cup {None}  OBVIOUS
  <2> QED  BY <2>1, <2>2, Tells, Zenon
<1>4. EventsTrue'
  <2>1. \A v \in Worker : ~(wstate'[v] = "Reserved" /\ wmatch'[v] = m)
    BY <1>1, Constants DEF SameRecord, Records
  <2> QED  BY <1>2, <2>1 DEF EventsTrue
<1>5. Agreement'
  <2>1. ASSUME NEW i \in MatchId
        PROVE  pending'[i].room # None <=>
                   \/ \E v \in Worker : wstate'[v] = "Reserved" /\ wmatch'[v] = i
                   \/ Telling("Failed", i)' \/ Telling("Ready", i)'
    <3>1. CASE i = m
      <4>1. pending[i].room # None  BY <3>1, QuietAccord
      <4> QED  BY <3>1, <4>1, <1>2 DEF SameMatches
    <3>2. CASE i # m
      <4>1. \A v \in Worker : wstate'[v] = "Reserved" /\ wmatch'[v] = i
                              <=> wstate[v] = "Reserved" /\ wmatch[v] = i
        BY <1>1, <3>2 DEF SameRecord
      <4> QED  BY <3>2, <4>1, <1>2, QuietAccord DEF SameMatches
    <3> QED  BY <3>1, <3>2
  <2>2. ASSUME NEW i \in MatchId, NEW v \in Worker, active'[i].worker = v
        PROVE  wstate'[v] = "Active" /\ wmatch'[v] = i
    <3>1. wstate[v] = "Active" /\ wmatch[v] = i  BY <2>2, QuietAccord DEF SameMatches
    <3> QED  BY <1>1, <3>1 DEF SameRecord
  <2>3. ASSUME NEW v \in Worker, wstate'[v] = "Active"
        PROVE  active'[wmatch'[v]].worker = v \/ wmatch'[v] <= closing'
    <3>1. wstate[v] = "Active" /\ wmatch'[v] = wmatch[v]
      BY <1>1, <2>3 DEF SameRecord
    <3> QED  BY <3>1, QuietAccord DEF SameMatches
  <2>4. \A i \in MatchId : active'[i].room = None <=> active'[i].worker = None
    BY QuietAccord DEF SameMatches
  <2> QED  BY <2>1, <2>2, <2>3, <2>4 DEF Agreement
<1> QED  BY <1>2, <1>4, <1>5 DEF Accord

\* An Active worker's match ends, or is lost with the worker.
LEMMA EndIsTold ==
    ASSUME ControlTypes, Records, Accord, Quiet, SameMatches,
           NEW w \in Worker, NEW st \in {"Idle", "Absent"}, NEW k, NEW n,
           RecordBecomes(w, st, k, n),
           NEW m \in MatchId, wstate[w] = "Active", wmatch[w] = m,
           NEW t \in {"Finished", "Unavailable"},
           inbox' = <<Says(t, w, m)>>
    PROVE  Accord'
<1>1. /\ wstate'[w] = st /\ wconn'[w] = k /\ wmatch'[w] = n
      /\ \A v \in Worker : v # w => SameRecord(v)
  BY NewRecord
<1>2. /\ OneEvent' /\ Head(inbox').worker = w
      /\ \A s, i : /\ Telling(s, i)' <=> s = t /\ i = m
                   /\ \A v : TellingOf(s, i, v)' <=> s = t /\ i = m /\ v = w
  <2>1. t \in EventType  BY DEF EventType
  <2>2. w \in Worker \cup {None}  OBVIOUS
  <2> QED  BY <2>1, <2>2, Tells, Zenon
<1>4. EventsTrue'
  BY <1>1, <1>2 DEF EventsTrue
<1>5. Agreement'
  <2>1. ASSUME NEW i \in MatchId
        PROVE  pending'[i].room # None <=>
                   \/ \E v \in Worker : wstate'[v] = "Reserved" /\ wmatch'[v] = i
                   \/ Telling("Failed", i)' \/ Telling("Ready", i)'
    <3>1. \A v \in Worker : wstate'[v] = "Reserved" /\ wmatch'[v] = i
                            <=> wstate[v] = "Reserved" /\ wmatch[v] = i
      BY <1>1 DEF SameRecord
    <3> QED  BY <3>1, <1>2, QuietAccord DEF SameMatches
  <2>2. ASSUME NEW i \in MatchId, NEW v \in Worker, active'[i].worker = v
        PROVE  \/ wstate'[v] = "Active" /\ wmatch'[v] = i
               \/ TellingOf("Finished", i, v)' \/ TellingOf("Unavailable", i, v)'
    <3>1. wstate[v] = "Active" /\ wmatch[v] = i  BY <2>2, QuietAccord DEF SameMatches
    <3>2. CASE v = w
      <4>1. TellingOf(t, i, v)'  BY <1>2, <3>1, <3>2
      <4> QED  BY <4>1
    <3>3. CASE v # w  BY <1>1, <3>1, <3>3 DEF SameRecord
    <3> QED  BY <3>2, <3>3
  <2>3. ASSUME NEW v \in Worker, wstate'[v] = "Active"
        PROVE  active'[wmatch'[v]].worker = v \/ wmatch'[v] <= closing'
    <3>1. wstate[v] = "Active" /\ wmatch'[v] = wmatch[v]
      BY <1>1, <2>3 DEF SameRecord
    <3> QED  BY <3>1, QuietAccord DEF SameMatches
  <2>4. \A i \in MatchId : active'[i].room = None <=> active'[i].worker = None
    BY QuietAccord DEF SameMatches
  <2> QED  BY <2>1, <2>2, <2>3, <2>4 DEF Agreement
<1> QED  BY <1>2, <1>4, <1>5 DEF Accord

-----------------------------------------------------------------------------
(* The lobby's steps on the control channel.                               *)

SystemInv ==
    ControlTypes /\ Records /\ Links /\ Accord /\ Conversations

\* What a step of the registry and its sessions leaves to the other parts.
RegistryStep == Quiet /\ UNCHANGED <<lobbyVars, serverVars>>

LEMMA LobbyKept ==
    UNCHANGED lobbyVars => SameMatches /\ nextMatch' = nextMatch
BY DEF lobbyVars, counters, matchVars, timeVars, SameMatches

LEMMA RecordTypes ==
    ASSUME ControlTypes, NEW w \in Worker, NEW st \in WorkerStates,
           NEW k \in ControlId \cup {None}, NEW m \in MatchId \cup {None},
           RecordBecomes(w, st, k, m)
    PROVE  /\ wstate' \in [Worker -> WorkerStates]
           /\ wconn' \in [Worker -> ControlId \cup {None}]
           /\ wmatch' \in [Worker -> MatchId \cup {None}]
BY DEF ControlTypes, RecordBecomes, WorkerStates

LEMMA Numbers ==
    ASSUME TypeOK, ControlTypes
    PROVE  nextMatch \in Nat \ {0} /\ nextControl \in Nat \ {0}
BY Constants DEF TypeOK, ControlTypes

\* A frame of a registered worker w is taken from connection k.
LEMMA ReceiveKeeps ==
    ASSUME TypeOK, SystemInv, RegistryStep, NEW w \in Worker, NEW k \in ControlId,
           NEW st \in Busy \cup {"Idle"}, NEW m \in {wmatch[w], None},
           wconn[w] = k, session[k] = "Open",
           RecordBecomes(w, st, k, m), m # None <=> st \in Busy,
           tracked' \in [MatchId -> Worker \cup {None}],
           UNCHANGED <<nextControl, session, toServer>>,
           toLobby' = [toLobby EXCEPT ![k] = Tail(@)],
           linkState[w] = "Up" /\ link[w] = k =>
               Talk(w, registered[w], st, m, toServer[k], Tail(toLobby[k]), hosted[w])
    PROVE  ControlTypes' /\ Records' /\ Links' /\ Conversations'
<1>1. nextMatch' = nextMatch /\ k # None
  BY LobbyKept, Constants DEF RegistryStep
<1>2. ControlTypes'
  <2>1. /\ link' = link /\ linkState' = linkState /\ registered' = registered
        /\ hosted' = hosted
    BY DEF RegistryStep, serverVars
  <2>2. /\ wstate' \in [Worker -> WorkerStates]
        /\ wconn' \in [Worker -> ControlId \cup {None}]
        /\ wmatch' \in [Worker -> MatchId \cup {None}]
    <3>1. st \in WorkerStates  BY DEF WorkerStates, Busy
    <3>2. m \in MatchId \cup {None}  BY DEF SystemInv, ControlTypes
    <3> QED  BY <3>1, <3>2, RecordTypes DEF SystemInv
  <2>3. DOMAIN toServer' = ControlId /\ DOMAIN toLobby' = ControlId
    BY DEF SystemInv, ControlTypes
  <2>4. nextControl' = nextControl /\ session' = session  OBVIOUS
  <2>5. ControlTypes  BY DEF SystemInv
  <2> QED
    BY <2>1, <2>2, <2>3, <2>4, <2>5 DEF ControlTypes
<1>3. Records'
  BY <1>1, Numbers, RecordYields DEF SystemInv, Busy
<1>4. /\ wstate'[w] = st /\ wconn'[w] = k /\ wmatch'[w] = m
      /\ \A v \in Worker : v # w => SameRecord(v)
  BY NewRecord DEF SystemInv
<1>5. Links'
  <2>1. \A v \in Worker : wconn'[v] \in {wconn[v], None}
    BY <1>4 DEF SameRecord
  <2> QED  BY <2>1, LinksStay DEF SystemInv, RegistryStep
<1>6. Conversations'
  <2>1. \A v \in Worker : linkState[v] = "Up" /\ link[v] = k => v = w
    BY DEF SystemInv, Links
  <2>2. toLobby'[k] = Tail(toLobby[k]) /\ \A j \in ControlId : j # k => SameChannel(j)
    BY DEF SystemInv, ControlTypes, SameChannel
  <2>3. UNCHANGED <<session, serverVars>>  BY DEF RegistryStep
  <2> QED  BY <1>4, <2>1, <2>2, <2>3, LobbySpeaks DEF SystemInv
<1> QED  BY <1>2, <1>3, <1>5, <1>6

LEMMA VerdictMeans ==
    ASSUME NEW w, NEW msg
    PROVE  /\ C!Verdict(w, msg) = "Activate" =>
                  msg.type = "Ready" /\ wstate[w] = "Reserved" /\ wmatch[w] = msg.match
           /\ C!Verdict(w, msg) = "Fail" =>
                  msg.type = "Rejected" /\ wstate[w] = "Reserved" /\ wmatch[w] = msg.match
           /\ C!Verdict(w, msg) = "Release" =>
                  msg.type = "Cancelled" /\ wstate[w] = "Cancelling"
           /\ C!Verdict(w, msg) = "Finish" =>
                  msg.type = "Finished" /\ wstate[w] = "Active" /\ wmatch[w] = msg.match
           /\ C!Verdict(w, msg) = "Ignore" =>
                  \/ wstate[w] = "Idle"
                  \/ msg.type = "Cancelled" /\ wstate[w] = "Active"
                  \/ /\ msg.type \in {"Ready", "Rejected"}
                     /\ wstate[w] \in {"Cancelling", "Active"}
BY DEF C!Verdict

\* Where the frame was read, the two ends were in conversation.
LEMMA ReceivedTalk ==
    ASSUME SystemInv, NEW w \in Worker, NEW k \in ControlId, NEW verdict,
           C!Received(k, w, verdict)
    PROVE  /\ wconn[w] = k /\ session[k] = "Open" /\ toLobby[k] # <<>>
           /\ C!Verdict(w, Head(toLobby[k])) = verdict
           /\ linkState[w] = "Up" /\ link[w] = k =>
                  Talk(w, registered[w], wstate[w], wmatch[w], toServer[k],
                       toLobby[k], hosted[w])
<1>1. /\ wconn[w] = k /\ session[k] = "Open" /\ toLobby[k] # <<>>
      /\ C!Verdict(w, Head(toLobby[k])) = verdict
  BY DEF C!Received, C!HasFrame
<1>2. linkState[w] = "Up" /\ link[w] = k =>
          Talk(w, registered[w], wstate[w], wmatch[w], toServer[k], toLobby[k], hosted[w])
  BY <1>1 DEF SystemInv, Conversations, Conversation
<1> QED  BY <1>1, <1>2

LEMMA MatchOfBusy ==
    ASSUME ControlTypes, Records, NEW w \in Worker, wstate[w] \in Busy
    PROVE  wmatch[w] \in MatchId
BY DEF ControlTypes, Records

LEMMA ReceiveReadyKeeps ==
    ASSUME TypeOK, SystemInv, RegistryStep, NEW w \in Worker, NEW k \in ControlId,
           C!ReceiveReady(k, w)
    PROVE  SystemInv'
<1>1. /\ C!Received(k, w, "Activate")
      /\ wstate' = [wstate EXCEPT ![w] = "Active"]
      /\ tracked' = [tracked EXCEPT ![Head(toLobby[k]).match] = None]
      /\ inbox' = Append(inbox, Says("Ready", w, Head(toLobby[k]).match))
      /\ toLobby' = [toLobby EXCEPT ![k] = Tail(@)]
      /\ UNCHANGED <<nextControl, session, wconn, wmatch, toServer>>
  BY Constants DEF C!ReceiveReady, C!Consumed, Says
<1>2. /\ wconn[w] = k /\ session[k] = "Open" /\ toLobby[k] # <<>>
      /\ Head(toLobby[k]).type = "Ready" /\ wstate[w] = "Reserved"
      /\ wmatch[w] = Head(toLobby[k]).match
  BY <1>1, ReceivedTalk, VerdictMeans
<1>3. wmatch[w] \in MatchId  BY <1>2, MatchOfBusy DEF SystemInv, Busy
<1>4. RecordBecomes(w, "Active", k, wmatch[w])
  BY <1>1, <1>2 DEF RecordBecomes, SystemInv, ControlTypes
<1>5. linkState[w] = "Up" /\ link[w] = k =>
          Talk(w, registered[w], "Active", wmatch[w], toServer[k], Tail(toLobby[k]),
               hosted[w])
  <2> SUFFICES ASSUME linkState[w] = "Up", link[w] = k
               PROVE  Talk(w, registered[w], "Active", wmatch[w], toServer[k],
                           Tail(toLobby[k]), hosted[w])
    OBVIOUS
  <2>1. Talk(w, registered[w], wstate[w], wmatch[w], toServer[k], toLobby[k], hosted[w])
    BY <1>1, ReceivedTalk
  <2> QED  BY <1>2, <2>1, TalkAnswered
<1>6. tracked' \in [MatchId -> Worker \cup {None}]
  BY <1>1 DEF SystemInv, ControlTypes
<1>7. ControlTypes' /\ Records' /\ Links' /\ Conversations'
  <2>1. "Active" \in Busy \cup {"Idle"} /\ (wmatch[w] # None <=> "Active" \in Busy)
    BY <1>3, Constants DEF Busy
  <2> QED  BY <1>1, <1>2, <1>4, <1>5, <1>6, <2>1, ReceiveKeeps
<1>8. Accord'
  <2>1. inbox' = <<Says("Ready", w, wmatch[w])>>
    <3>1. PICK e : e = Says("Ready", w, wmatch[w])  OBVIOUS
    <3>2. inbox' = Append(<<>>, e)  BY <1>1, <1>2, <3>1 DEF RegistryStep, Quiet
    <3> QED  BY <3>1, <3>2
  <2> QED
    BY <1>2, <1>3, <1>4, <2>1, LobbyKept, ReadyIsTold DEF SystemInv, RegistryStep
<1> QED  BY <1>7, <1>8 DEF SystemInv

LEMMA ReceiveRejectedKeeps ==
    ASSUME TypeOK, SystemInv, RegistryStep, NEW w \in Worker, NEW k \in ControlId,
           C!ReceiveRejected(k, w)
    PROVE  SystemInv'
<1>1. /\ C!Received(k, w, "Fail")
      /\ wstate' = [wstate EXCEPT ![w] = "Idle"]
      /\ wmatch' = [wmatch EXCEPT ![w] = None]
      /\ tracked' = [m \in MatchId |-> IF m = wmatch[w] THEN None ELSE tracked[m]]
      /\ inbox' = Append(inbox, Says("Failed", None, Head(toLobby[k]).match))
      /\ toLobby' = [toLobby EXCEPT ![k] = Tail(@)]
      /\ UNCHANGED <<nextControl, session, wconn, toServer>>
  BY Constants DEF C!ReceiveRejected, C!Cleared, C!Consumed, Says
<1>2. /\ wconn[w] = k /\ session[k] = "Open" /\ toLobby[k] # <<>>
      /\ Head(toLobby[k]).type = "Rejected" /\ wstate[w] = "Reserved"
      /\ wmatch[w] = Head(toLobby[k]).match
  BY <1>1, ReceivedTalk, VerdictMeans
<1>3. wmatch[w] \in MatchId  BY <1>2, MatchOfBusy DEF SystemInv, Busy
<1>4. RecordBecomes(w, "Idle", k, None)
  BY <1>1, <1>2 DEF RecordBecomes, SystemInv, ControlTypes
<1>5. linkState[w] = "Up" /\ link[w] = k =>
          Talk(w, registered[w], "Idle", None, toServer[k], Tail(toLobby[k]), hosted[w])
  <2> SUFFICES ASSUME linkState[w] = "Up", link[w] = k
               PROVE  Talk(w, registered[w], "Idle", None, toServer[k],
                           Tail(toLobby[k]), hosted[w])
    OBVIOUS
  <2>1. Talk(w, registered[w], wstate[w], wmatch[w], toServer[k], toLobby[k], hosted[w])
    BY <1>1, ReceivedTalk
  <2> QED  BY <1>2, <2>1, TalkAnswered
<1>6. tracked' \in [MatchId -> Worker \cup {None}]
  BY <1>1 DEF SystemInv, ControlTypes
<1>7. ControlTypes' /\ Records' /\ Links' /\ Conversations'
  <2>1. "Idle" \in Busy \cup {"Idle"} /\ (None # None <=> "Idle" \in Busy)
    BY DEF Busy
  <2> QED  BY <1>1, <1>2, <1>4, <1>5, <1>6, <2>1, ReceiveKeeps
<1>8. Accord'
  <2>1. inbox' = <<Says("Failed", None, wmatch[w])>>
    <3>1. PICK e : e = Says("Failed", None, wmatch[w])  OBVIOUS
    <3>2. inbox' = Append(<<>>, e)  BY <1>1, <1>2, <3>1 DEF RegistryStep, Quiet
    <3> QED  BY <3>1, <3>2
  <2>2. ControlTypes /\ Records /\ Accord /\ Quiet /\ SameMatches
    BY LobbyKept DEF SystemInv, RegistryStep
  <2>3. "Idle" \in {"Idle", "Absent"}  OBVIOUS
  <2> QED  BY <1>2, <1>3, <1>4, <2>1, <2>2, <2>3, FailureIsTold
<1> QED  BY <1>7, <1>8 DEF SystemInv

LEMMA ReceiveCancelledKeeps ==
    ASSUME TypeOK, SystemInv, RegistryStep, NEW w \in Worker, NEW k \in ControlId,
           C!ReceiveCancelled(k, w)
    PROVE  SystemInv'
<1>1. /\ C!Received(k, w, "Release")
      /\ wstate' = [wstate EXCEPT ![w] = "Idle"]
      /\ wmatch' = [wmatch EXCEPT ![w] = None]
      /\ tracked' = [m \in MatchId |-> IF m = wmatch[w] THEN None ELSE tracked[m]]
      /\ inbox' = inbox
      /\ toLobby' = [toLobby EXCEPT ![k] = Tail(@)]
      /\ UNCHANGED <<nextControl, session, wconn, toServer>>
  BY Constants DEF C!ReceiveCancelled, C!Cleared, C!Consumed
<1>2. /\ wconn[w] = k /\ session[k] = "Open" /\ toLobby[k] # <<>>
      /\ Head(toLobby[k]).type = "Cancelled" /\ wstate[w] = "Cancelling"
  BY <1>1, ReceivedTalk, VerdictMeans
<1>4. RecordBecomes(w, "Idle", k, None)
  BY <1>1, <1>2 DEF RecordBecomes, SystemInv, ControlTypes
<1>5. linkState[w] = "Up" /\ link[w] = k =>
          Talk(w, registered[w], "Idle", None, toServer[k], Tail(toLobby[k]), hosted[w])
  <2> SUFFICES ASSUME linkState[w] = "Up", link[w] = k
               PROVE  Talk(w, registered[w], "Idle", None, toServer[k],
                           Tail(toLobby[k]), hosted[w])
    OBVIOUS
  <2>1. Talk(w, registered[w], wstate[w], wmatch[w], toServer[k], toLobby[k], hosted[w])
    BY <1>1, ReceivedTalk
  <2> QED  BY <1>2, <2>1, TalkAnswered
<1>6. tracked' \in [MatchId -> Worker \cup {None}]
  BY <1>1 DEF SystemInv, ControlTypes
<1>7. ControlTypes' /\ Records' /\ Links' /\ Conversations'
  <2>1. "Idle" \in Busy \cup {"Idle"} /\ (None # None <=> "Idle" \in Busy)
    BY DEF Busy
  <2> QED  BY <1>1, <1>2, <1>4, <1>5, <1>6, <2>1, ReceiveKeeps
<1>8. Accord'
  BY <1>1, <1>2, <1>4, LobbyKept, NothingToTell DEF SystemInv, RegistryStep
<1> QED  BY <1>7, <1>8 DEF SystemInv

LEMMA ReceiveFinishedKeeps ==
    ASSUME TypeOK, SystemInv, RegistryStep, NEW w \in Worker, NEW k \in ControlId,
           C!ReceiveFinished(k, w)
    PROVE  SystemInv'
<1>1. /\ C!Received(k, w, "Finish")
      /\ wstate' = [wstate EXCEPT ![w] = "Idle"]
      /\ wmatch' = [wmatch EXCEPT ![w] = None]
      /\ tracked' = [m \in MatchId |-> IF m = wmatch[w] THEN None ELSE tracked[m]]
      /\ inbox' = Append(inbox, Says("Finished", w, Head(toLobby[k]).match))
      /\ toLobby' = [toLobby EXCEPT ![k] = Tail(@)]
      /\ UNCHANGED <<nextControl, session, wconn, toServer>>
  BY Constants DEF C!ReceiveFinished, C!Cleared, C!Consumed, Says
<1>2. /\ wconn[w] = k /\ session[k] = "Open" /\ toLobby[k] # <<>>
      /\ Head(toLobby[k]).type = "Finished" /\ wstate[w] = "Active"
      /\ wmatch[w] = Head(toLobby[k]).match
  BY <1>1, ReceivedTalk, VerdictMeans
<1>3. wmatch[w] \in MatchId  BY <1>2, MatchOfBusy DEF SystemInv, Busy
<1>4. RecordBecomes(w, "Idle", k, None)
  BY <1>1, <1>2 DEF RecordBecomes, SystemInv, ControlTypes
<1>5. linkState[w] = "Up" /\ link[w] = k =>
          Talk(w, registered[w], "Idle", None, toServer[k], Tail(toLobby[k]), hosted[w])
  <2> SUFFICES ASSUME linkState[w] = "Up", link[w] = k
               PROVE  Talk(w, registered[w], "Idle", None, toServer[k],
                           Tail(toLobby[k]), hosted[w])
    OBVIOUS
  <2>1. Talk(w, registered[w], wstate[w], wmatch[w], toServer[k], toLobby[k], hosted[w])
    BY <1>1, ReceivedTalk
  <2> QED  BY <1>2, <2>1, TalkAnswered
<1>6. tracked' \in [MatchId -> Worker \cup {None}]
  BY <1>1 DEF SystemInv, ControlTypes
<1>7. ControlTypes' /\ Records' /\ Links' /\ Conversations'
  <2>1. "Idle" \in Busy \cup {"Idle"} /\ (None # None <=> "Idle" \in Busy)
    BY DEF Busy
  <2> QED  BY <1>1, <1>2, <1>4, <1>5, <1>6, <2>1, ReceiveKeeps
<1>8. Accord'
  <2>1. inbox' = <<Says("Finished", w, wmatch[w])>>
    <3>1. PICK e : e = Says("Finished", w, wmatch[w])  OBVIOUS
    <3>2. inbox' = Append(<<>>, e)  BY <1>1, <1>2, <3>1 DEF RegistryStep, Quiet
    <3> QED  BY <3>1, <3>2
  <2>2. ControlTypes /\ Records /\ Accord /\ Quiet /\ SameMatches
    BY LobbyKept DEF SystemInv, RegistryStep
  <2>3. "Idle" \in {"Idle", "Absent"} /\ "Finished" \in {"Finished", "Unavailable"}
    OBVIOUS
  <2> QED  BY <1>2, <1>3, <1>4, <2>1, <2>2, <2>3, EndIsTold
<1> QED  BY <1>7, <1>8 DEF SystemInv

\* A late answer changes nothing but the queue.
LEMMA ReceiveLateKeeps ==
    ASSUME TypeOK, SystemInv, RegistryStep, NEW w \in Worker, NEW k \in ControlId,
           C!ReceiveLate(k, w)
    PROVE  SystemInv'
<1>1. /\ C!Received(k, w, "Ignore")
      /\ inbox' = inbox
      /\ toLobby' = [toLobby EXCEPT ![k] = Tail(@)]
      /\ UNCHANGED <<nextControl, session, wstate, wconn, wmatch, tracked, toServer>>
  BY DEF C!ReceiveLate, C!Consumed, C!registryVars
<1>2. /\ wconn[w] = k /\ session[k] = "Open" /\ toLobby[k] # <<>>
      /\ C!Verdict(w, Head(toLobby[k])) = "Ignore"
  BY <1>1, ReceivedTalk
<1>3. /\ Records' /\ Links' /\ ControlTypes'
  <2>1. nextMatch' = nextMatch  BY LobbyKept DEF RegistryStep
  <2>2. Records'  BY <1>1, <2>1, Numbers, RecordsStay DEF SystemInv
  <2>3. Links'  BY <1>1, LinksStay DEF SystemInv, RegistryStep
  <2>4. ControlTypes'
    BY <1>1 DEF SystemInv, ControlTypes, RegistryStep, serverVars
  <2> QED  BY <2>2, <2>3, <2>4
<1>4. linkState[w] = "Up" /\ link[w] = k /\ session[k] = "Open" =>
          Talk(w, registered[w], wstate[w], wmatch[w], toServer[k], Tail(toLobby[k]),
               hosted[w])
  <2> SUFFICES ASSUME linkState[w] = "Up", link[w] = k
               PROVE  Talk(w, registered[w], wstate[w], wmatch[w], toServer[k],
                           Tail(toLobby[k]), hosted[w])
    OBVIOUS
  <2>1. Talk(w, registered[w], wstate[w], wmatch[w], toServer[k], toLobby[k], hosted[w])
    BY <1>1, ReceivedTalk
  <2>2. /\ wstate[w] \in Busy
        /\ wstate[w] = "Active" => Head(toLobby[k]).type = "Finished"
    <3>1. Talk(w, registered[w], wstate[w], wmatch[w], toServer[k], toLobby[k],
               hosted[w]) /\ toLobby[k] # <<>>
      BY <1>2, <2>1
    <3> QED  BY <3>1, TalkAnswers
  <2>3. wstate[w] = "Cancelling" /\ Head(toLobby[k]).type \in {"Ready", "Rejected"}
    <3>1. PICK msg : msg = Head(toLobby[k])  OBVIOUS
    <3>2. \/ wstate[w] = "Idle"
          \/ msg.type = "Cancelled" /\ wstate[w] = "Active"
          \/ msg.type \in {"Ready", "Rejected"} /\ wstate[w] \in {"Cancelling", "Active"}
      BY <1>2, <3>1, VerdictMeans
    <3> QED  BY <2>2, <3>1, <3>2 DEF Busy
  <2> QED  BY <1>2, <2>1, <2>3, TalkAnswered
<1>5. Conversations'
  <2>1. \A v \in Worker : linkState[v] = "Up" /\ link[v] = k => v = w
    BY <1>2 DEF SystemInv, Links
  <2>2. toLobby'[k] = Tail(toLobby[k]) /\ \A j \in ControlId : j # k => SameChannel(j)
    BY <1>1 DEF SystemInv, ControlTypes, SameChannel
  <2>3. UNCHANGED <<session, serverVars>>  BY <1>1 DEF RegistryStep
  <2>4. \A v \in Worker : SameRecord(v)  BY <1>1 DEF SameRecord
  <2>5. wstate'[w] = wstate[w] /\ wmatch'[w] = wmatch[w] /\ wconn'[w] = k
        /\ toServer'[k] = toServer[k]
    BY <1>1, <1>2
  <2> QED
    BY <1>1, <1>2, <1>4, <2>1, <2>2, <2>3, <2>4, <2>5, LobbySpeaks DEF SystemInv
<1>6. Accord'
  BY <1>1, LobbyKept
  DEF SystemInv, RegistryStep, SameMatches, Accord, OneEvent, EventsTrue, Agreement,
      Telling, TellingOf
<1> QED  BY <1>3, <1>5, <1>6 DEF SystemInv

\* The registry and what it has told the lobby stay as they are.
LEMMA AccordStays ==
    ASSUME Accord, SameMatches, UNCHANGED <<wstate, wmatch, inbox>>
    PROVE  Accord'
BY DEF SameMatches, Accord, OneEvent, EventsTrue, Agreement, Telling, TellingOf

LEMMA FreshConnection ==
    ASSUME SystemInv, NEW k \in ControlId, session[k] # "None"
    PROVE  k < nextControl /\ nextControl \in Nat
BY Constants DEF SystemInv, ControlTypes, Links, ControlId

\* The lobby closes its end of a connection.
LEMMA CloseKeeps ==
    ASSUME TypeOK, SystemInv, RegistryStep, NEW k \in ControlId, session[k] = "Open",
           C!Closed(k),
           UNCHANGED <<nextControl, wstate, wconn, wmatch, tracked, toServer, inbox>>
    PROVE  SystemInv'
<1>1. /\ session' = [session EXCEPT ![k] = "Closing"]
      /\ toLobby' = [toLobby EXCEPT ![k] = <<>>]
  BY DEF C!Closed
<1>2. UNCHANGED serverVars /\ nextMatch' = nextMatch /\ SameMatches
  BY LobbyKept DEF RegistryStep
<1>3. ControlTypes'
  BY <1>1, <1>2 DEF SystemInv, ControlTypes, serverVars
<1>4. Records'  BY <1>2, Numbers, RecordsStay DEF SystemInv
<1>5. Links'
  <2>1. k < nextControl  BY FreshConnection
  <2>2. \A j \in ControlId : j >= nextControl => session'[j] = session[j]
    BY <1>1, <2>1, FreshConnection, Constants DEF SystemInv, ControlTypes, ControlId
  <2> QED  BY <1>2, <2>2, LinksStay DEF SystemInv
<1>6. Accord'  BY <1>2, AccordStays DEF SystemInv
<1>7. Conversations'
  <2>1. \A j \in ControlId : j # k =>
            toLobby'[j] = toLobby[j] /\ session'[j] = session[j]
    BY <1>1 DEF SystemInv, ControlTypes
  <2>2. session'[k] # "Open"  BY <1>1 DEF SystemInv, ControlTypes
  <2>3. \A v \in Worker : SameRecord(v)  BY DEF SameRecord
  <2> QED  BY <1>2, <2>1, <2>2, <2>3, LobbyCloses DEF SystemInv
<1> QED  BY <1>3, <1>4, <1>5, <1>6, <1>7 DEF SystemInv

\* The registry drops a worker and closes its session, which is Closing when it
\* was the session that failed.
LEMMA DropKeeps ==
    ASSUME TypeOK, SystemInv, RegistryStep, NEW w \in Worker, C!Dropped(w),
           UNCHANGED <<nextControl, toServer>>,
           NEW s \in {"Closing", "Gone"},
           session' = [session EXCEPT ![wconn[w]] = s],
           toLobby' \in {toLobby, [toLobby EXCEPT ![wconn[w]] = <<>>]}
    PROVE  SystemInv'
<1>1. /\ RecordBecomes(w, "Absent", None, None)
      /\ tracked' = [m \in MatchId |-> IF m = wmatch[w] THEN None ELSE tracked[m]]
      /\ inbox' = inbox \o C!LossEvents(w)
  BY Constants DEF C!Dropped, RecordBecomes
<1>2. UNCHANGED serverVars /\ nextMatch' = nextMatch /\ SameMatches
  BY LobbyKept DEF RegistryStep
<1>3. /\ wstate'[w] = "Absent" /\ wconn'[w] = None /\ wmatch'[w] = None
      /\ \A v \in Worker : v # w => SameRecord(v)
  BY <1>1, NewRecord DEF SystemInv
<1>4. ControlTypes'
  <2>1. /\ wstate' \in [Worker -> WorkerStates]
        /\ wconn' \in [Worker -> ControlId \cup {None}]
        /\ wmatch' \in [Worker -> MatchId \cup {None}]
    BY <1>1, RecordTypes DEF SystemInv, WorkerStates
  <2>2. /\ DOMAIN toServer' = ControlId /\ DOMAIN toLobby' = ControlId
        /\ session' \in [ControlId -> {"None", "Open", "Closing", "Gone"}]
        /\ tracked' \in [MatchId -> Worker \cup {None}]
    BY <1>1 DEF SystemInv, ControlTypes
  <2>3. ControlTypes  BY DEF SystemInv
  <2> QED  BY <1>2, <2>1, <2>2, <2>3 DEF ControlTypes, serverVars
<1>5. Records'
  <2>1. "Absent" \notin Busy  BY DEF Busy
  <2> QED  BY <1>1, <1>2, <2>1, Numbers, RecordYields DEF SystemInv
<1>6. Links'
  <2>1. \A v \in Worker : wconn'[v] \in {wconn[v], None}  BY <1>3 DEF SameRecord
  <2>2. ASSUME NEW j \in ControlId, j >= nextControl PROVE session'[j] = session[j]
    <3>1. j # wconn[w]
      BY <2>2, Constants DEF SystemInv, ControlTypes, Records, ControlId
    <3> QED  BY <3>1 DEF SystemInv, ControlTypes
  <2> QED  BY <1>2, <2>1, <2>2, LinksStay DEF SystemInv
<1>7. Conversations'
  <2> DEFINE k == wconn[w]
  <2>1. \A j \in ControlId : j # k =>
            toLobby'[j] = toLobby[j] /\ session'[j] = session[j]
    BY DEF SystemInv, ControlTypes
  <2>2. k \in ControlId => session'[k] # "Open"  BY DEF SystemInv, ControlTypes
  <2>3. \A v \in Worker : wconn[v] # k => SameRecord(v)  BY <1>3
  <2>4. \A v \in Worker : wconn[v] = k => wconn'[v] \in {k, None}
    BY <1>3 DEF SameRecord
  <2> HIDE DEF k
  <2> QED  BY <1>2, <2>1, <2>2, <2>3, <2>4, LobbyCloses DEF SystemInv
<1>8. Accord'
  <2>1. ControlTypes /\ Records /\ Accord /\ Quiet /\ SameMatches
    BY <1>2 DEF SystemInv, RegistryStep
  <2>2. PICK m : m = wmatch[w]  OBVIOUS
  <2>3. CASE wstate[w] = "Reserved"
    <3>1. m \in MatchId  BY <2>1, <2>2, <2>3, MatchOfBusy DEF Busy
    <3>2. inbox' = <<Says("Failed", None, m)>>
      <4>1. PICK e : e = Says("Failed", None, m)  OBVIOUS
      <4>2. C!LossEvents(w) = <<e>>
        BY <2>2, <2>3, <4>1, Constants DEF C!LossEvents, Says
      <4>3. inbox' = <<>> \o <<e>>  BY <1>1, <2>1, <4>2 DEF Quiet
      <4> QED  BY <4>1, <4>3
    <3>3. "Absent" \in {"Idle", "Absent"}  OBVIOUS
    <3> QED  BY <1>1, <2>1, <2>2, <2>3, <3>1, <3>2, <3>3, FailureIsTold
  <2>4. CASE wstate[w] = "Active"
    <3>1. m \in MatchId  BY <2>1, <2>2, <2>4, MatchOfBusy DEF Busy
    <3>2. inbox' = <<Says("Unavailable", w, m)>>
      <4>1. PICK e : e = Says("Unavailable", w, m)  OBVIOUS
      <4>2. C!LossEvents(w) = <<e>>
        BY <2>2, <2>4, <4>1, Constants DEF C!LossEvents, Says
      <4>3. inbox' = <<>> \o <<e>>  BY <1>1, <2>1, <4>2 DEF Quiet
      <4> QED  BY <4>1, <4>3
    <3>3. "Absent" \in {"Idle", "Absent"} /\ "Unavailable" \in {"Finished", "Unavailable"}
      OBVIOUS
    <3> QED  BY <1>1, <2>1, <2>2, <2>4, <3>1, <3>2, <3>3, EndIsTold
  <2>5. CASE wstate[w] \notin {"Reserved", "Active"}
    <3>1. C!LossEvents(w) = <<>>  BY <2>5 DEF C!LossEvents
    <3>2. inbox' = inbox  BY <1>1, <2>1, <3>1 DEF Quiet
    <3>3. "Absent" \notin {"Reserved", "Active"}  OBVIOUS
    <3> QED  BY <1>1, <2>1, <2>5, <3>2, <3>3, NothingToTell
  <2> QED  BY <2>3, <2>4, <2>5
<1> QED  BY <1>4, <1>5, <1>6, <1>7, <1>8 DEF SystemInv

\* A server registers on connection k.  On a connection that a server still
\* holds, the registration is that server's.
LEMMA RegisterKeeps ==
    ASSUME TypeOK, SystemInv, RegistryStep, NEW k \in ControlId, C!ReceiveRegister(k)
    PROVE  SystemInv'
<1>1. PICK w : w = Head(toLobby[k]).worker  OBVIOUS
<1>2. session[k] = "Open" /\ \A v \in Worker : wconn[v] # k
  BY DEF C!ReceiveRegister, C!HasFrame, C!Unregistered
<1>3. CASE wstate[w] # "Absent"
  <2>1. C!Closed(k) /\ UNCHANGED <<nextControl, wstate, wconn, wmatch, tracked, toServer, inbox>>
    BY <1>1, <1>3 DEF C!ReceiveRegister, C!registryVars
  <2> QED  BY <1>2, <2>1, CloseKeeps
<1>4. CASE wstate[w] = "Absent"
  <2>1. /\ wstate' = [wstate EXCEPT ![w] = "Idle"]
        /\ wconn' = [wconn EXCEPT ![w] = k]
        /\ toServer' = [toServer EXCEPT ![k] = Append(@, Welcome(w))]
        /\ toLobby' = [toLobby EXCEPT ![k] = Tail(@)]
        /\ UNCHANGED <<nextControl, session, wmatch, tracked, inbox>>
    BY <1>1, <1>2, <1>4 DEF C!ReceiveRegister, C!Sent, C!Consumed, Welcome
  <2>2. UNCHANGED serverVars /\ nextMatch' = nextMatch /\ SameMatches
    BY LobbyKept DEF RegistryStep
  <2>3. \A v \in Worker : linkState[v] = "Up" /\ link[v] = k =>
            /\ v = w
            /\ Fresh(v, registered[v], toServer[k], toLobby[k], hosted[v])
    <3> SUFFICES ASSUME NEW v \in Worker, linkState[v] = "Up", link[v] = k
                 PROVE  /\ v = w
                        /\ Fresh(v, registered[v], toServer[k], toLobby[k], hosted[v])
      OBVIOUS
    <3>1. Fresh(v, registered[v], toServer[k], toLobby[k], hosted[v])
      BY <1>2 DEF SystemInv, Conversations, Conversation
    <3>2. Head(toLobby[k]) = Hi(v)  BY <3>1, FreshRegisters
    <3>3. Hi(v).worker = v  BY FrameFields
    <3> QED  BY <1>1, <3>1, <3>2, <3>3
  <2>4. k < nextControl /\ nextControl \in Nat  BY <1>2, FreshConnection
  <2>5. \A j \in ControlId : j # k => SameChannel(j) /\ session'[j] = session[j]
    BY <2>1 DEF SystemInv, ControlTypes, SameChannel
  <2>6. CASE w \notin Worker
    <3>1. wstate' = wstate /\ wconn' = wconn
      BY <2>1, <2>6 DEF SystemInv, ControlTypes
    <3>2. ControlTypes'
      BY <2>1, <2>2, <3>1 DEF SystemInv, ControlTypes, serverVars
    <3>3. Records'  BY <2>1, <2>2, <3>1, Numbers, RecordsStay DEF SystemInv
    <3>4. Links'
      <4>1. \A j \in ControlId : j >= nextControl =>
                session'[j] = session[j] /\ toServer'[j] = toServer[j]
        BY <2>4, <2>5, Constants DEF SameChannel, ControlId
      <4> QED  BY <2>1, <2>2, <3>1, <4>1, LinksStay DEF SystemInv
    <3>5. Accord'  BY <2>1, <2>2, <3>1, AccordStays DEF SystemInv
    <3>6. Conversations'
      <4> SUFFICES ASSUME NEW v \in Worker PROVE linkState'[v] = "Up" => Conversation(v)'
        BY DEF Conversations
      <4>1. SameServer(v) /\ SameRecord(v)
        BY <2>1, <2>2, <3>1 DEF serverVars, SameServer, SameRecord
      <4>2. CASE linkState[v] = "Up"
        <5>1. link[v] \in ControlId /\ link[v] # k
          BY <2>3, <2>6, <4>2, LinkType DEF SystemInv
        <5>2. SameChannel(link[v]) /\ session'[link[v]] = session[link[v]]
          BY <2>5, <5>1
        <5> QED  BY <4>1, <5>2, ConversationStays DEF SystemInv
      <4>3. CASE linkState[v] # "Up"  BY <4>1, <4>3 DEF SameServer
      <4> QED  BY <4>2, <4>3
    <3> QED  BY <3>2, <3>3, <3>4, <3>5, <3>6 DEF SystemInv
  <2>7. CASE w \in Worker
    <3>1. wmatch[w] = None /\ wconn[w] = None
      BY <1>4, <2>7 DEF SystemInv, Records, Busy
    <3>2. RecordBecomes(w, "Idle", k, None)
      BY <2>1, <2>7, <3>1 DEF SystemInv, ControlTypes, RecordBecomes
    <3>3. /\ wstate'[w] = "Idle" /\ wconn'[w] = k /\ wmatch'[w] = None
          /\ \A v \in Worker : v # w => SameRecord(v)
      BY <2>7, <3>2, NewRecord DEF SystemInv
    <3>4. ControlTypes'
      <4>1. /\ wstate' \in [Worker -> WorkerStates]
            /\ wconn' \in [Worker -> ControlId \cup {None}]
            /\ wmatch' \in [Worker -> MatchId \cup {None}]
        BY <2>7, <3>2, RecordTypes DEF SystemInv, WorkerStates
      <4>2. ControlTypes  BY DEF SystemInv
      <4> QED  BY <2>1, <2>2, <4>1, <4>2 DEF ControlTypes, serverVars
    <3>5. Records'
      <4>1. "Idle" # "Absent" /\ "Idle" \notin Busy /\ k # None
        BY Constants DEF Busy
      <4>2. nextMatch' \in Nat /\ nextMatch \in Nat /\ nextMatch' >= nextMatch
            /\ None < nextMatch'
        BY <2>2, Numbers, Constants DEF SystemInv
      <4> QED
        BY <1>2, <2>1, <2>4, <2>7, <3>2, <4>1, <4>2, RecordsChange DEF SystemInv
    <3>6. Links'
      <4>1. ASSUME NEW u \in Worker, NEW v \in Worker, linkState'[v] = "Up",
                   wconn'[u] = link'[v]
            PROVE  u = v
        <5>1. linkState[v] = "Up" /\ link'[v] = link[v]
          BY <2>2, <4>1 DEF serverVars
        <5>2. CASE u = w  BY <2>3, <3>3, <4>1, <5>1, <5>2
        <5>3. CASE u # w
          BY <3>3, <4>1, <5>1, <5>3 DEF SystemInv, Links, SameRecord
        <5> QED  BY <5>2, <5>3
      <4>2. \A j \in ControlId : j >= nextControl' =>
                session'[j] = "None" /\ toServer'[j] = <<>>
        BY <2>1, <2>4, <2>5, Constants DEF SameChannel, ControlId, SystemInv, Links
      <4> QED  BY <2>1, <2>2, <4>1, <4>2 DEF SystemInv, Links, serverVars
    <3>7. Accord'
      <4>1. Quiet  BY DEF RegistryStep
      <4> QED
        BY <1>4, <2>1, <2>2, <2>7, <3>2, <4>1, NothingToTell DEF SystemInv
    <3>8. Conversations'
      <4>1. linkState[w] = "Up" /\ link[w] = k /\ session[k] = "Open" =>
                Talk(w, registered[w], wstate'[w], wmatch'[w], toServer'[k],
                     toLobby'[k], hosted[w])
        <5> SUFFICES ASSUME linkState[w] = "Up", link[w] = k
                     PROVE  Talk(w, registered[w], wstate'[w], wmatch'[w], toServer'[k],
                                 toLobby'[k], hosted[w])
          OBVIOUS
        <5>1. Fresh(w, registered[w], toServer[k], toLobby[k], hosted[w])
          BY <2>3, <2>7
        <5>2. Talk(w, registered[w], "Idle", None, Append(toServer[k], Welcome(w)),
                   Tail(toLobby[k]), hosted[w])
          BY <5>1, FreshRegisters
        <5>3. toServer'[k] = Append(toServer[k], Welcome(w))
              /\ toLobby'[k] = Tail(toLobby[k])
          BY <2>1 DEF SystemInv, ControlTypes
        <5> QED  BY <3>3, <5>2, <5>3
      <4>2. UNCHANGED <<session, serverVars>>  BY <2>1, <2>2
      <4>3. \A v \in Worker : linkState[v] = "Up" /\ link[v] = k => v = w  BY <2>3
      <4> QED
        BY <1>2, <2>5, <2>7, <3>1, <3>3, <4>1, <4>2, <4>3, LobbySpeaks DEF SystemInv
    <3> QED  BY <3>4, <3>5, <3>6, <3>7, <3>8 DEF SystemInv
  <2> QED  BY <2>6, <2>7
<1> QED  BY <1>3, <1>4

\* A frame no registered worker could mean, or a first frame that is no
\* registration.
LEMMA ViolationKeeps ==
    ASSUME TypeOK, SystemInv, RegistryStep, NEW w \in Worker, NEW k \in ControlId,
           C!ReceiveViolation(k, w)
    PROVE  SystemInv'
<1>1. /\ C!Dropped(w) /\ UNCHANGED <<nextControl, toServer>>
      /\ wconn[w] = k
      /\ session' = [session EXCEPT ![k] = "Closing"]
      /\ toLobby' = [toLobby EXCEPT ![k] = <<>>]
  BY DEF C!ReceiveViolation, C!Received, C!Closed
<1>2. "Closing" \in {"Closing", "Gone"}  OBVIOUS
<1> QED  BY <1>1, <1>2, DropKeeps

LEMMA SessionClosedKeeps ==
    ASSUME TypeOK, SystemInv, RegistryStep, NEW k \in ControlId, C!SessionClosed(k)
    PROVE  SystemInv'
<1>1. /\ session[k] = "Closing"
      /\ session' = [session EXCEPT ![k] = "Gone"]
      /\ \/ \E w \in Worker : wconn[w] = k /\ C!Dropped(w)
         \/ C!Unregistered(k) /\ UNCHANGED <<wstate, wconn, wmatch, tracked, inbox>>
      /\ UNCHANGED <<nextControl, toServer, toLobby>>
  BY DEF C!SessionClosed, C!registryVars
<1>2. CASE \E w \in Worker : wconn[w] = k /\ C!Dropped(w)
  <2>1. PICK w \in Worker : wconn[w] = k /\ C!Dropped(w)  BY <1>2
  <2>2. "Gone" \in {"Closing", "Gone"}  OBVIOUS
  <2> QED  BY <1>1, <2>1, <2>2, DropKeeps
<1>3. CASE UNCHANGED <<wstate, wconn, wmatch, tracked, inbox>>
  <2>1. UNCHANGED serverVars /\ nextMatch' = nextMatch /\ SameMatches
    BY LobbyKept DEF RegistryStep
  <2>2. ControlTypes'
    BY <1>1, <1>3, <2>1 DEF SystemInv, ControlTypes, serverVars
  <2>3. Records'  BY <1>1, <1>3, <2>1, Numbers, RecordsStay DEF SystemInv
  <2>4. Links'
    <3>1. k < nextControl  BY <1>1, FreshConnection
    <3>2. \A j \in ControlId : j >= nextControl => session'[j] = session[j]
      BY <1>1, <3>1, FreshConnection, Constants DEF SystemInv, ControlTypes, ControlId
    <3> QED  BY <1>1, <1>3, <2>1, <3>2, LinksStay DEF SystemInv
  <2>5. Accord'  BY <1>3, <2>1, AccordStays DEF SystemInv
  <2>6. Conversations'
    <3>1. \A j \in ControlId : j # k =>
              toLobby'[j] = toLobby[j] /\ session'[j] = session[j]
      BY <1>1 DEF SystemInv, ControlTypes
    <3>2. session'[k] # "Open"  BY <1>1 DEF SystemInv, ControlTypes
    <3>3. \A v \in Worker : SameRecord(v)  BY <1>3 DEF SameRecord
    <3>4. \A v \in Worker : wconn[v] = k => wconn'[v] \in {k, None}  BY <1>3
    <3> QED  BY <1>1, <2>1, <3>1, <3>2, <3>3, <3>4, LobbyCloses DEF SystemInv
  <2> QED  BY <2>2, <2>3, <2>4, <2>5, <2>6 DEF SystemInv
<1> QED  BY <1>1, <1>2, <1>3

LEMMA TimerKeeps ==
    ASSUME TypeOK, SystemInv, RegistryStep, NEW m \in MatchId, C!TimerFires(m)
    PROVE  SystemInv'
<1>1. PICK w : w = tracked[m]  OBVIOUS
<1>2. CASE w = None
  <2>1. UNCHANGED <<session, wstate, wconn, wmatch, tracked, toLobby, inbox,
                    nextControl, toServer>>
    BY <1>1, <1>2, Constants DEF C!TimerFires, C!registryVars
  <2>2. UNCHANGED serverVars /\ nextMatch' = nextMatch /\ SameMatches
    BY LobbyKept DEF RegistryStep
  <2>3. ControlTypes'  BY <2>1, <2>2 DEF SystemInv, ControlTypes, serverVars
  <2>4. Records'  BY <2>1, <2>2, Numbers, RecordsStay DEF SystemInv
  <2>5. Links'  BY <2>1, <2>2, LinksStay DEF SystemInv
  <2>6. Accord'  BY <2>1, <2>2, AccordStays DEF SystemInv
  <2>7. Conversations'
    <3> SUFFICES ASSUME NEW v \in Worker PROVE linkState'[v] = "Up" => Conversation(v)'
      BY DEF Conversations
    <3>1. SameServer(v) /\ SameRecord(v) /\ SameChannel(link[v])
      BY <2>1, <2>2 DEF serverVars, SameServer, SameRecord, SameChannel
    <3> QED  BY <2>1, <3>1, ConversationStays DEF SystemInv
  <2> QED  BY <2>3, <2>4, <2>5, <2>6, <2>7 DEF SystemInv
<1>3. CASE w # None
  <2>1. w \in Worker  BY <1>1, <1>3 DEF SystemInv, ControlTypes
  <2>2. C!Dropped(w) /\ C!Closed(wconn[w]) /\ UNCHANGED <<nextControl, toServer>>
    BY <1>1, <1>3, Constants DEF C!TimerFires
  <2>3. /\ session' = [session EXCEPT ![wconn[w]] = "Closing"]
        /\ toLobby' = [toLobby EXCEPT ![wconn[w]] = <<>>]
    BY <2>2 DEF C!Closed
  <2>4. "Closing" \in {"Closing", "Gone"}  OBVIOUS
  <2> QED  BY <2>1, <2>2, <2>3, <2>4, DropKeeps
<1> QED  BY <1>2, <1>3

LEMMA LobbyReceivesKeeps ==
    ASSUME TypeOK, SystemInv, NEW k \in ControlId, LobbyReceives(k)
    PROVE  SystemInv'
<1>1. RegistryStep /\ C!ControlStep(k)  BY DEF LobbyReceives, RegistryStep
<1>2. CASE C!ReceiveRegister(k)  BY <1>1, <1>2, RegisterKeeps
<1>3. CASE C!ReceiveUnregistered(k)
  <2>1. /\ session[k] = "Open" /\ C!Closed(k)
        /\ UNCHANGED <<nextControl, wstate, wconn, wmatch, tracked, toServer, inbox>>
    BY <1>3 DEF C!ReceiveUnregistered, C!HasFrame, C!registryVars
  <2> QED  BY <1>1, <2>1, CloseKeeps
<1>4. CASE C!SessionClosed(k)  BY <1>1, <1>4, SessionClosedKeeps
<1>5. ASSUME NEW w \in Worker,
             \/ C!ReceiveReady(k, w) \/ C!ReceiveRejected(k, w)
             \/ C!ReceiveCancelled(k, w) \/ C!ReceiveFinished(k, w)
             \/ C!ReceiveLate(k, w) \/ C!ReceiveViolation(k, w)
      PROVE  SystemInv'
  BY <1>1, <1>5, ReceiveReadyKeeps, ReceiveRejectedKeeps, ReceiveCancelledKeeps,
     ReceiveFinishedKeeps, ReceiveLateKeeps, ViolationKeeps
<1> QED  BY <1>1, <1>2, <1>3, <1>4, <1>5 DEF C!ControlStep

LEMMA SessionFailsKeeps ==
    ASSUME TypeOK, SystemInv, NEW k \in ControlId, SessionFails(k)
    PROVE  SystemInv'
<1>1. /\ RegistryStep /\ session[k] = "Open" /\ C!Closed(k)
      /\ UNCHANGED <<nextControl, wstate, wconn, wmatch, tracked, toServer, inbox>>
  BY DEF SessionFails, RegistryStep, C!SessionFails, C!registryVars
<1> QED  BY <1>1, CloseKeeps

-----------------------------------------------------------------------------
(* The game servers' steps. *)

\* A server connects again: its registration is all there is on the connection.
LEMMA ConnectKeeps ==
    ASSUME TypeOK, SystemInv, NEW w \in Worker, ServerConnects(w)
    PROVE  SystemInv'
<1>1. PICK k \in ControlId :
        /\ linkState[w] = "Down" /\ k = nextControl
        /\ link' = [link EXCEPT ![w] = k]
        /\ linkState' = [linkState EXCEPT ![w] = "Up"]
        /\ registered' = [registered EXCEPT ![w] = FALSE]
        /\ toLobby' = [toLobby EXCEPT ![k] = <<S!About("Register", w)>>]
        /\ nextControl' = k + 1
        /\ session' = [session EXCEPT ![k] = "Open"]
        /\ UNCHANGED <<hosted, wstate, wconn, wmatch, tracked, toServer, inbox>>
        /\ UNCHANGED lobbyVars /\ Quiet
  BY DEF ServerConnects, S!Connect, C!Accept, C!registryVars
<1>2. nextMatch' = nextMatch /\ SameMatches /\ nextMatch \in Nat
  BY <1>1, LobbyKept, Numbers DEF SystemInv
<1>3. /\ link'[w] = k /\ linkState'[w] = "Up" /\ ~registered'[w] /\ hosted'[w] = None
      /\ session'[k] = "Open" /\ toServer'[k] = <<>> /\ toLobby'[k] = One(Hi(w))
  BY <1>1, SameFrames DEF SystemInv, ControlTypes, Links, One
<1>4. /\ \A v \in Worker : v # w => SameServer(v)
      /\ \A v \in Worker : SameRecord(v)
      /\ \A j \in ControlId : j # k => SameChannel(j) /\ session'[j] = session[j]
  BY <1>1 DEF SystemInv, ControlTypes, SameServer, SameRecord, SameChannel
<1>5. ControlTypes'
  BY <1>1, Constants DEF SystemInv, ControlTypes, ControlId
<1>6. Records'
  <2>1. nextControl' \in Nat /\ nextControl' >= nextControl
    BY <1>1, Constants DEF ControlId
  <2> QED  BY <1>1, <1>2, <2>1, RecordsStay DEF SystemInv
<1>7. k # None /\ \A v \in Worker : wconn[v] # k /\ link[v] # k
  <2>1. k \in Nat /\ \A v \in Worker : wconn[v] < k /\ link[v] < k
    BY <1>1 DEF ControlId, SystemInv, Records, Links
  <2> QED  BY <2>1, Constants
<1>8. Links'
  <2>1. \A j \in ControlId : j >= nextControl' => session'[j] = "None" /\ toServer'[j] = <<>>
    BY <1>1, <1>4, Constants DEF ControlId, SystemInv, Links, SameChannel
  <2>2. ASSUME NEW v \in Worker
        PROVE  /\ linkState'[v] = "Down" <=> link'[v] = None
               /\ linkState'[v] = "Down" => hosted'[v] = None
               /\ link'[v] < nextControl'
    <3>1. CASE v = w  BY <1>1, <1>3, <1>7, <3>1 DEF ControlId
    <3>2. CASE v # w
      <4>1. link[v] < nextControl /\ nextControl' = nextControl + 1
            /\ nextControl \in Nat /\ link[v] \in Nat
        BY <1>1, Constants DEF SystemInv, Links, ControlTypes, ControlId
      <4> QED  BY <1>4, <3>2, <4>1 DEF SystemInv, Links, SameServer
    <3> QED  BY <3>1, <3>2
  <2>3. ASSUME NEW u \in Worker, NEW v \in Worker
        PROVE  /\ link'[u] = link'[v] /\ link'[u] # None => u = v
               /\ linkState'[v] = "Up" /\ wconn'[u] = link'[v] => u = v
    <3>1. CASE v = w  BY <1>1, <1>3, <1>4, <1>7, <3>1 DEF SameServer
    <3>2. CASE v # w /\ u = w  BY <1>1, <1>3, <1>4, <1>7, <3>2 DEF SameServer, SystemInv, Links
    <3>3. CASE v # w /\ u # w  BY <1>1, <1>4, <3>3 DEF SameServer, SystemInv, Links
    <3> QED  BY <3>1, <3>2, <3>3
  <2> QED  BY <2>1, <2>2, <2>3 DEF Links
<1>9. Accord'  BY <1>1, <1>2, AccordStays DEF SystemInv
<1>10. Conversations'
  <2> SUFFICES ASSUME NEW v \in Worker PROVE linkState'[v] = "Up" => Conversation(v)'
    BY DEF Conversations
  <2>1. CASE v = w
    <3>1. Fresh(w, registered'[w], toServer'[k], toLobby'[k], hosted'[w])
      BY <1>3 DEF Fresh
    <3>2. wconn'[w] # link'[w]  BY <1>1, <1>3, <1>7
    <3> QED  BY <1>3, <2>1, <3>1, <3>2 DEF Conversation
  <2>2. CASE v # w
    <3>1. CASE linkState[v] = "Up"
      <4>1. link[v] \in ControlId /\ link[v] # k
        BY <1>7, <3>1, LinkType DEF SystemInv
      <4>2. SameChannel(link[v]) /\ session'[link[v]] = session[link[v]]
        BY <1>4, <4>1
      <4> QED  BY <1>4, <2>2, <4>2, ConversationStays DEF SystemInv
    <3>2. CASE linkState[v] # "Up"  BY <1>4, <2>2, <3>2 DEF SameServer
    <3> QED  BY <3>1, <3>2
  <2> QED  BY <2>1, <2>2
<1> QED  BY <1>5, <1>6, <1>8, <1>9, <1>10 DEF SystemInv

ServerBecomes(w, lk, ls, reg, h) ==
    /\ link' = [link EXCEPT ![w] = lk]
    /\ linkState' = [linkState EXCEPT ![w] = ls]
    /\ registered' = [registered EXCEPT ![w] = reg]
    /\ hosted' = [hosted EXCEPT ![w] = h]

ChannelBecomes(k, ts, tl) ==
    /\ DOMAIN toServer' = ControlId /\ DOMAIN toLobby' = ControlId
    /\ k \in ControlId => toServer'[k] = ts /\ toLobby'[k] = tl
    /\ \A j \in ControlId : j # k => SameChannel(j)

\* The conversation of server w on connection lk, for the values after its step.
ServerSays(w, lk, reg, ts, tl, h) ==
    IF session[lk] # "Open" THEN Leftover(w, reg, ts, h)
    ELSE IF wconn[w] = lk THEN Talk(w, reg, wstate[w], wmatch[w], ts, tl, h)
    ELSE Fresh(w, reg, ts, tl, h)

\* What the steps of a game server have in common: they are on the connection
\* it holds, and leave the lobby alone.
LEMMA ServerKeeps ==
    ASSUME TypeOK, SystemInv, UNCHANGED <<lobbyVars, lobbySide>>,
           NEW w \in Worker, NEW lk \in {link[w], None},
           NEW ls \in {"Up", "Down", "Closing"}, NEW reg \in BOOLEAN,
           NEW h \in MatchId \cup {None}, NEW ts, NEW tl,
           ServerBecomes(w, lk, ls, reg, h),
           ChannelBecomes(link[w], ts, tl),
           ls = "Down" <=> lk = None,
           ls = "Down" => h = None,
           ls = "Up" => linkState[w] = "Up" /\ ServerSays(w, lk, reg, ts, tl, h)
    PROVE  SystemInv'
<1>1. /\ nextMatch' = nextMatch /\ SameMatches
      /\ UNCHANGED <<nextControl, session, wstate, wconn, wmatch, tracked, inbox>>
  BY LobbyKept DEF lobbySide
<1>2. /\ link'[w] = lk /\ linkState'[w] = ls /\ registered'[w] = reg /\ hosted'[w] = h
      /\ \A v \in Worker : v # w => SameServer(v)
  BY DEF SystemInv, ControlTypes, ServerBecomes, SameServer
<1>3. ControlTypes'
  <2>1. /\ link' \in [Worker -> ControlId \cup {None}]
        /\ linkState' \in [Worker -> {"Up", "Down", "Closing"}]
        /\ registered' \in [Worker -> BOOLEAN]
        /\ hosted' \in [Worker -> MatchId \cup {None}]
    <3>1. lk \in ControlId \cup {None}  BY DEF SystemInv, ControlTypes
    <3> QED  BY <3>1 DEF SystemInv, ControlTypes, ServerBecomes
  <2>2. DOMAIN toServer' = ControlId /\ DOMAIN toLobby' = ControlId
    BY DEF ChannelBecomes
  <2> QED  BY <1>1, <2>1, <2>2 DEF SystemInv, ControlTypes
<1>4. Records'  BY <1>1, Numbers, RecordsStay DEF SystemInv
<1>5. \A k \in ControlId : k # link[w] => SameChannel(k)
  BY DEF ChannelBecomes
<1>6. Links'
  <2>1. \A k \in ControlId : k >= nextControl' => session'[k] = "None" /\ toServer'[k] = <<>>
    <3>1. \A k \in ControlId : k >= nextControl => k # link[w]
      BY Constants DEF SystemInv, Links, ControlTypes, ControlId
    <3> QED  BY <1>1, <1>5, <3>1 DEF SystemInv, Links, SameChannel
  <2>2. ASSUME NEW v \in Worker
        PROVE  /\ linkState'[v] = "Down" <=> link'[v] = None
               /\ linkState'[v] = "Down" => hosted'[v] = None
               /\ link'[v] < nextControl'
    <3>1. CASE v = w
      <4>1. link[w] < nextControl /\ None < nextControl
        BY Numbers, Constants DEF SystemInv, Links
      <4> QED  BY <1>1, <1>2, <3>1, <4>1
    <3>2. CASE v # w  BY <1>1, <1>2, <3>2 DEF SystemInv, Links, SameServer
    <3> QED  BY <3>1, <3>2
  <2>3. \A v \in Worker : /\ link'[v] \in {link[v], None}
                          /\ linkState'[v] = "Up" => /\ linkState[v] = "Up"
                                                     /\ link'[v] = link[v]
    BY <1>2 DEF SameServer, SystemInv, Links
  <2>4. ASSUME NEW u \in Worker, NEW v \in Worker
        PROVE  /\ link'[u] = link'[v] /\ link'[u] # None => u = v
               /\ linkState'[v] = "Up" /\ wconn'[u] = link'[v] => u = v
    BY <1>1, <2>3 DEF SystemInv, Links
  <2> QED  BY <2>1, <2>2, <2>4 DEF Links
<1>7. Accord'  BY <1>1, AccordStays DEF SystemInv
<1>8. Conversations'
  <2>1. linkState'[w] = "Up" => Conversation(w)'
    <3> SUFFICES ASSUME ls = "Up" PROVE Conversation(w)'  BY <1>2
    <3>1. lk = link[w] /\ link[w] \in ControlId
      BY LinkType DEF SystemInv
    <3>2. toServer'[lk] = ts /\ toLobby'[lk] = tl
      BY <3>1 DEF ChannelBecomes
    <3>3. /\ session'[link'[w]] = session[lk] /\ wconn'[w] = wconn[w] /\ link'[w] = lk
          /\ wstate'[w] = wstate[w] /\ wmatch'[w] = wmatch[w]
      BY <1>1, <1>2
    <3> QED  BY <1>2, <3>2, <3>3 DEF Conversation, ServerSays
  <2>2. UNCHANGED lobbySide  OBVIOUS
  <2> QED  BY <1>2, <1>5, <2>1, <2>2, ServerSpeaks DEF SystemInv
<1> QED  BY <1>3, <1>4, <1>6, <1>7, <1>8 DEF SystemInv

\* A server whose transport closes keeps nothing of the conversation.
LEMMA CloseLinkKeeps ==
    ASSUME TypeOK, SystemInv, UNCHANGED <<lobbyVars, lobbySide>>,
           NEW w \in Worker, linkState[w] = "Up", S!CloseLink(w),
           UNCHANGED <<link, registered, hosted, toLobby>>
    PROVE  SystemInv'
<1>1. /\ ServerBecomes(w, link[w], "Closing", registered[w], hosted[w])
      /\ registered[w] \in BOOLEAN /\ hosted[w] \in MatchId \cup {None}
  BY DEF S!CloseLink, ServerBecomes, SystemInv, ControlTypes
<1>2. ChannelBecomes(link[w], <<>>, toLobby[link[w]])
  BY DEF S!CloseLink, ChannelBecomes, SameChannel, SystemInv, ControlTypes
<1>3. link[w] # None  BY LinkType DEF SystemInv
<1>4. /\ "Closing" \in {"Up", "Down", "Closing"} /\ "Closing" # "Down" /\ "Closing" # "Up"
      /\ link[w] \in {link[w], None}
  OBVIOUS
<1> QED  BY <1>1, <1>2, <1>3, <1>4, ServerKeeps, Zenon

\* ControlClosed, or the process dies.
LEMMA ServerGoneKeeps ==
    ASSUME TypeOK, SystemInv, UNCHANGED <<lobbyVars, lobbySide>>,
           NEW w \in Worker, S!ControlClosed(w) \/ S!Crash(w)
    PROVE  SystemInv'
<1>1. ServerBecomes(w, None, "Down", FALSE, None)
  BY Constants
  DEF S!ControlClosed, S!Crash, S!MatchAfterClose, S!DiscardMatch, ServerBecomes
<1>2. PICK ts : ts = toServer'[link[w]]  OBVIOUS
<1>3. ChannelBecomes(link[w], ts, toLobby[link[w]])
  BY <1>2
  DEF S!ControlClosed, S!Crash, ChannelBecomes, SameChannel, SystemInv, ControlTypes
<1>4. /\ "Down" \in {"Up", "Down", "Closing"} /\ "Down" # "Up" /\ FALSE \in BOOLEAN
      /\ None \in {link[w], None} /\ None \in MatchId \cup {None}
  OBVIOUS
<1> QED  BY <1>1, <1>3, <1>4, ServerKeeps, Zenon

LEMMA ServerTalks ==
    ASSUME SystemInv, NEW w \in Worker, linkState[w] = "Up"
    PROVE  /\ link[w] \in ControlId
           /\ ServerSays(w, link[w], registered[w], toServer[link[w]], toLobby[link[w]],
                         hosted[w])
<1>1. Conversation(w)  BY DEF SystemInv, Conversations
<1> QED  BY <1>1, LinkType DEF Conversation, ServerSays, SystemInv

LEMMA ServerHears ==
    ASSUME NEW w, NEW lk, NEW reg, NEW ts, NEW tl, NEW h,
           wstate[w] \in Busy => wmatch[w] \in MatchId,
           ServerSays(w, lk, reg, ts, tl, h), ts # <<>>
    PROVE  /\ Head(ts).type = "Registered" <=> ~reg
           /\ Head(ts).type = "Reserve" => h = None
           /\ reg => Head(ts).match \in MatchId
           /\ Head(ts).type = "Registered" => ServerSays(w, lk, TRUE, Tail(ts), tl, h)
           /\ Head(ts).type = "Reserve" =>
                  /\ ServerSays(w, lk, reg, Tail(ts), Append(tl, Yes(Head(ts).match)),
                                Head(ts).match)
                  /\ ServerSays(w, lk, reg, Tail(ts), Append(tl, No(Head(ts).match)), h)
           /\ Head(ts).type = "Cancel" /\ reg /\ h = Head(ts).match =>
                  ServerSays(w, lk, reg, Tail(ts), Append(tl, Stopped(Head(ts).match)), None)
<1>1. CASE session[lk] # "Open"
  <2>1. Leftover(w, reg, ts, h)  BY <1>1 DEF ServerSays
  <2>2. /\ Head(ts).type = "Registered" <=> ~reg
        /\ Head(ts).type = "Reserve" => h = None
        /\ reg => Head(ts).match \in MatchId
        /\ Head(ts).type = "Registered" => Leftover(w, TRUE, Tail(ts), h)
        /\ Head(ts).type = "Reserve" =>
               /\ Leftover(w, reg, Tail(ts), Head(ts).match)
               /\ Leftover(w, reg, Tail(ts), h)
        /\ Head(ts).type = "Cancel" => Leftover(w, reg, Tail(ts), None)
    BY <2>1, LeftoverHeard
  <2> QED  BY <1>1, <2>2 DEF ServerSays
<1>2. CASE session[lk] = "Open" /\ wconn[w] = lk
  <2>1. Talk(w, reg, wstate[w], wmatch[w], ts, tl, h)  BY <1>2 DEF ServerSays
  <2>2. wstate[w] \in Busy => wmatch[w] # None  BY Constants
  <2>3. /\ Head(ts).type = "Registered" <=> ~reg
        /\ Head(ts).type = "Reserve" => h = None
        /\ reg => Head(ts).match = wmatch[w] /\ wstate[w] \in Busy
        /\ Head(ts).type = "Registered" =>
               Talk(w, TRUE, wstate[w], wmatch[w], Tail(ts), tl, h)
        /\ Head(ts).type = "Reserve" =>
               /\ Talk(w, reg, wstate[w], wmatch[w], Tail(ts), Append(tl, Yes(wmatch[w])),
                       wmatch[w])
               /\ Talk(w, reg, wstate[w], wmatch[w], Tail(ts), Append(tl, No(wmatch[w])), h)
        /\ Head(ts).type = "Cancel" /\ h = wmatch[w] =>
               Talk(w, reg, wstate[w], wmatch[w], Tail(ts), Append(tl, Stopped(wmatch[w])),
                    None)
    BY <2>1, <2>2, TalkHeard
  <2> QED  BY <1>2, <2>3 DEF ServerSays
<1>3. CASE session[lk] = "Open" /\ wconn[w] # lk
  BY <1>3 DEF ServerSays, Fresh
<1> QED  BY <1>1, <1>2, <1>3

LEMMA ServerEnds ==
    ASSUME NEW w, NEW lk, NEW reg, NEW ts, NEW tl, NEW h,
           ServerSays(w, lk, reg, ts, tl, h), h # None
    PROVE  ServerSays(w, lk, reg, ts, Append(tl, Over(h)), None)
<1>1. CASE session[lk] # "Open"
  BY <1>1, LeftoverEnds DEF ServerSays
<1>2. CASE session[lk] = "Open" /\ wconn[w] = lk
  <2>1. Talk(w, reg, wstate[w], wmatch[w], ts, tl, h)  BY <1>2 DEF ServerSays
  <2>2. /\ h = wmatch[w]
        /\ Talk(w, reg, wstate[w], wmatch[w], ts, Append(tl, Over(wmatch[w])), None)
    BY <2>1, TalkEnds
  <2> QED  BY <1>2, <2>2 DEF ServerSays
<1>3. CASE session[lk] = "Open" /\ wconn[w] # lk
  BY <1>3 DEF ServerSays, Fresh
<1> QED  BY <1>1, <1>2, <1>3

\* The server takes a frame and answers it.
LEMMA AnswerKeeps ==
    ASSUME TypeOK, SystemInv, UNCHANGED <<lobbyVars, lobbySide>>,
           NEW w \in Worker, linkState[w] = "Up",
           NEW reg \in BOOLEAN, NEW h \in MatchId \cup {None}, NEW ts, NEW tl,
           ServerBecomes(w, link[w], "Up", reg, h),
           ChannelBecomes(link[w], ts, tl),
           ServerSays(w, link[w], reg, ts, tl, h)
    PROVE  SystemInv'
<1>1. link[w] # None  BY LinkType DEF SystemInv
<1>2. /\ "Up" \in {"Up", "Down", "Closing"} /\ "Up" # "Down"
      /\ link[w] \in {link[w], None}
  OBVIOUS
<1> QED  BY <1>1, <1>2, ServerKeeps, Zenon

LEMMA ServerStepKeeps ==
    ASSUME TypeOK, SystemInv, NEW w \in Worker, ServerStep(w) \/ ServerFails(w)
    PROVE  SystemInv'
<1>1. UNCHANGED <<lobbyVars, lobbySide>>  BY DEF ServerStep, ServerFails
<1>2. /\ registered[w] \in BOOLEAN /\ hosted[w] \in MatchId \cup {None}
      /\ wstate[w] \in Busy => wmatch[w] \in MatchId
  BY MatchOfBusy DEF SystemInv, ControlTypes
<1>3. PICK k : k = link[w]  OBVIOUS
<1>4. PICK f : f = Head(toServer[k])  OBVIOUS
<1>5. linkState[w] = "Up" /\ toServer[k] # <<>> =>
        /\ k \in ControlId
        /\ f.type = "Reserve" => hosted[w] = None
        /\ registered[w] => f.match \in MatchId
        /\ f.type = "Registered" =>
               ServerSays(w, k, TRUE, Tail(toServer[k]), toLobby[k], hosted[w])
        /\ f.type = "Reserve" =>
               /\ ServerSays(w, k, registered[w], Tail(toServer[k]),
                             Append(toLobby[k], Yes(f.match)), f.match)
               /\ ServerSays(w, k, registered[w], Tail(toServer[k]),
                             Append(toLobby[k], No(f.match)), hosted[w])
        /\ f.type = "Cancel" /\ registered[w] /\ hosted[w] = f.match =>
               ServerSays(w, k, registered[w], Tail(toServer[k]),
                          Append(toLobby[k], Stopped(f.match)), None)
  <2> SUFFICES ASSUME linkState[w] = "Up", toServer[k] # <<>>
               PROVE  /\ k \in ControlId
                      /\ f.type = "Reserve" => hosted[w] = None
                      /\ registered[w] => f.match \in MatchId
                      /\ f.type = "Registered" =>
                             ServerSays(w, k, TRUE, Tail(toServer[k]), toLobby[k], hosted[w])
                      /\ f.type = "Reserve" =>
                             /\ ServerSays(w, k, registered[w], Tail(toServer[k]),
                                           Append(toLobby[k], Yes(f.match)), f.match)
                             /\ ServerSays(w, k, registered[w], Tail(toServer[k]),
                                           Append(toLobby[k], No(f.match)), hosted[w])
                      /\ f.type = "Cancel" /\ registered[w] /\ hosted[w] = f.match =>
                             ServerSays(w, k, registered[w], Tail(toServer[k]),
                                        Append(toLobby[k], Stopped(f.match)), None)
    OBVIOUS
  <2>1. /\ k \in ControlId
        /\ ServerSays(w, k, registered[w], toServer[k], toLobby[k], hosted[w])
    BY <1>3, ServerTalks
  <2>2. PICK ts : ts = toServer[k]  OBVIOUS
  <2>3. ServerSays(w, k, registered[w], ts, toLobby[k], hosted[w]) /\ ts # <<>>
    BY <2>1, <2>2
  <2>4. /\ Head(ts).type = "Registered" <=> ~registered[w]
        /\ Head(ts).type = "Reserve" => hosted[w] = None
        /\ registered[w] => Head(ts).match \in MatchId
        /\ Head(ts).type = "Registered" =>
               ServerSays(w, k, TRUE, Tail(ts), toLobby[k], hosted[w])
        /\ Head(ts).type = "Reserve" =>
               /\ ServerSays(w, k, registered[w], Tail(ts),
                             Append(toLobby[k], Yes(Head(ts).match)), Head(ts).match)
               /\ ServerSays(w, k, registered[w], Tail(ts),
                             Append(toLobby[k], No(Head(ts).match)), hosted[w])
        /\ Head(ts).type = "Cancel" /\ registered[w] /\ hosted[w] = Head(ts).match =>
               ServerSays(w, k, registered[w], Tail(ts),
                          Append(toLobby[k], Stopped(Head(ts).match)), None)
    BY <1>2, <2>3, ServerHears, Zenon
  <2>5. Head(ts) = f  BY <1>4, <2>2
  <2> QED  BY <2>1, <2>2, <2>4, <2>5
<1>6. CASE \E t \in {"Registered", "Cancel"} : S!Arrives(w, t) /\ S!CloseLink(w)
             /\ UNCHANGED <<link, registered, hosted, toLobby>>
  BY <1>1, <1>6, CloseLinkKeeps DEF S!Arrives
<1>7. CASE S!LinkFails(w)  BY <1>1, <1>7, CloseLinkKeeps DEF S!LinkFails
<1>8. CASE S!ControlClosed(w) \/ S!Crash(w)  BY <1>1, <1>8, ServerGoneKeeps
<1>9. CASE S!Arrives(w, "Registered") /\ S!Taken(w)
           /\ registered' = [registered EXCEPT ![w] = TRUE]
           /\ UNCHANGED <<link, linkState, hosted, toLobby>>
  <2>1. linkState[w] = "Up" /\ toServer[k] # <<>> /\ f.type = "Registered"
    BY <1>3, <1>4, <1>9 DEF S!Arrives, S!Frame
  <2>2. ServerBecomes(w, k, "Up", TRUE, hosted[w])
    BY <1>3, <1>9, <2>1 DEF ServerBecomes, SystemInv, ControlTypes
  <2>3. ChannelBecomes(k, Tail(toServer[k]), toLobby[k])
    BY <1>3, <1>9 DEF S!Taken, ChannelBecomes, SameChannel, SystemInv, ControlTypes
  <2>4. ServerSays(w, k, TRUE, Tail(toServer[k]), toLobby[k], hosted[w])
    BY <1>5, <2>1
  <2>5. TRUE \in BOOLEAN  OBVIOUS
  <2> QED  BY <1>1, <1>2, <1>3, <2>1, <2>2, <2>3, <2>4, <2>5, AnswerKeeps, Zenon
<1>10. CASE S!AcceptReservation(w)
  <2>1. /\ linkState[w] = "Up" /\ toServer[k] # <<>> /\ f.type = "Reserve" /\ registered[w]
        /\ S!Taken(w) /\ hosted' = [hosted EXCEPT ![w] = f.match]
        /\ toLobby' = [toLobby EXCEPT ![k] = Append(@, Yes(f.match))]
        /\ UNCHANGED <<link, linkState, registered>>
    BY <1>3, <1>4, <1>10, SameFrames
    DEF S!AcceptReservation, S!Arrives, S!Frame, S!Answered
  <2>2. ServerBecomes(w, k, "Up", registered[w], f.match)
    BY <1>3, <2>1 DEF ServerBecomes, SystemInv, ControlTypes
  <2>3. ChannelBecomes(k, Tail(toServer[k]), Append(toLobby[k], Yes(f.match)))
    BY <1>3, <2>1 DEF S!Taken, ChannelBecomes, SameChannel, SystemInv, ControlTypes
  <2>4. /\ f.match \in MatchId \cup {None}
        /\ ServerSays(w, k, registered[w], Tail(toServer[k]),
                      Append(toLobby[k], Yes(f.match)), f.match)
    BY <1>5, <2>1
  <2> QED  BY <1>1, <1>2, <1>3, <2>1, <2>2, <2>3, <2>4, AnswerKeeps, Zenon
<1>11. CASE S!RejectReservation(w)
  <2>1. /\ linkState[w] = "Up" /\ toServer[k] # <<>> /\ f.type = "Reserve" /\ registered[w]
        /\ S!Taken(w)
        /\ toLobby' = [toLobby EXCEPT ![k] = Append(@, No(f.match))]
        /\ UNCHANGED <<link, linkState, registered, hosted>>
    BY <1>3, <1>4, <1>11, SameFrames
    DEF S!RejectReservation, S!Arrives, S!Frame, S!Answered, S!serverVars
  <2>2. ServerBecomes(w, k, "Up", registered[w], hosted[w])
    BY <1>3, <2>1 DEF ServerBecomes, SystemInv, ControlTypes
  <2>3. ChannelBecomes(k, Tail(toServer[k]), Append(toLobby[k], No(f.match)))
    BY <1>3, <2>1 DEF S!Taken, ChannelBecomes, SameChannel, SystemInv, ControlTypes
  <2>4. ServerSays(w, k, registered[w], Tail(toServer[k]),
                   Append(toLobby[k], No(f.match)), hosted[w])
    BY <1>5, <2>1
  <2> QED  BY <1>1, <1>2, <1>3, <2>1, <2>2, <2>3, <2>4, AnswerKeeps, Zenon
<1>12. CASE /\ S!Arrives(w, "Cancel") /\ registered[w] /\ hosted[w] = S!Frame(w).match
            /\ S!Taken(w) /\ hosted' = S!DiscardMatch(w)
            /\ toLobby' = S!Answered(w, S!For("Cancelled", S!Frame(w).match))
            /\ UNCHANGED <<link, linkState, registered>>
  <2>1. /\ linkState[w] = "Up" /\ toServer[k] # <<>> /\ f.type = "Cancel" /\ registered[w]
        /\ hosted[w] = f.match
        /\ S!Taken(w) /\ hosted' = [hosted EXCEPT ![w] = None]
        /\ toLobby' = [toLobby EXCEPT ![k] = Append(@, Stopped(f.match))]
        /\ UNCHANGED <<link, linkState, registered>>
    BY <1>3, <1>4, <1>12, SameFrames, Constants
    DEF S!Arrives, S!Frame, S!Answered, S!DiscardMatch
  <2>2. ServerBecomes(w, k, "Up", registered[w], None)
    BY <1>3, <2>1 DEF ServerBecomes, SystemInv, ControlTypes
  <2>3. ChannelBecomes(k, Tail(toServer[k]), Append(toLobby[k], Stopped(f.match)))
    BY <1>3, <2>1 DEF S!Taken, ChannelBecomes, SameChannel, SystemInv, ControlTypes
  <2>4. ServerSays(w, k, registered[w], Tail(toServer[k]),
                   Append(toLobby[k], Stopped(f.match)), None)
    BY <1>5, <2>1
  <2>5. None \in MatchId \cup {None}  OBVIOUS
  <2> QED  BY <1>1, <1>2, <1>3, <2>1, <2>2, <2>3, <2>4, <2>5, AnswerKeeps, Zenon
<1>13. CASE S!MatchEnds(w)
  <2>1. /\ hosted[w] # None /\ hosted' = [hosted EXCEPT ![w] = None]
        /\ toLobby' = S!Answered(w, S!For("Finished", hosted[w]))
        /\ UNCHANGED <<link, linkState, registered, toServer>>
    BY <1>13, Constants DEF S!MatchEnds, S!DiscardMatch
  <2>2. None \in MatchId \cup {None} /\ k \in {link[w], None}  BY <1>3
  <2>3. CASE linkState[w] = "Up"
    <3>1. toLobby' = [toLobby EXCEPT ![k] = Append(@, Over(hosted[w]))]
      BY <1>3, <2>1, <2>3, SameFrames DEF S!Answered
    <3>2. ServerBecomes(w, k, "Up", registered[w], None)
      BY <1>3, <2>1, <2>3 DEF ServerBecomes, SystemInv, ControlTypes
    <3>3. ChannelBecomes(k, toServer[k], Append(toLobby[k], Over(hosted[w])))
      BY <1>3, <2>1, <3>1 DEF ChannelBecomes, SameChannel, SystemInv, ControlTypes
    <3>4. ServerSays(w, k, registered[w], toServer[k], toLobby[k], hosted[w])
      BY <1>3, <2>3, ServerTalks
    <3>5. ServerSays(w, k, registered[w], toServer[k],
                     Append(toLobby[k], Over(hosted[w])), None)
      BY <2>1, <3>4, ServerEnds
    <3> QED  BY <1>1, <1>2, <1>3, <2>2, <2>3, <3>2, <3>3, <3>5, AnswerKeeps, Zenon
  <2>4. CASE linkState[w] = "Closing"
    <3>1. ServerBecomes(w, k, "Closing", registered[w], None)
      BY <1>3, <2>1, <2>4 DEF ServerBecomes, SystemInv, ControlTypes
    <3>2. ChannelBecomes(k, toServer[k], toLobby[k])
      BY <1>3, <2>1, <2>4
      DEF S!Answered, ChannelBecomes, SameChannel, SystemInv, ControlTypes
    <3>3. /\ "Closing" \in {"Up", "Down", "Closing"} /\ "Closing" # "Down"
          /\ "Closing" # "Up"
      OBVIOUS
    <3>4. k # None  BY <1>3, <2>4 DEF SystemInv, Links
    <3> QED  BY <1>1, <1>2, <1>3, <2>2, <3>1, <3>2, <3>3, <3>4, ServerKeeps, Zenon
  <2>5. linkState[w] # "Down"  BY <2>1 DEF SystemInv, Links
  <2> QED  BY <2>3, <2>4, <2>5 DEF SystemInv, ControlTypes
<1> QED
  BY <1>6, <1>7, <1>8, <1>9, <1>10, <1>11, <1>12, <1>13
  DEF ServerStep, ServerFails, S!HandleFrame, S!ReceiveRegistered, S!ReceiveCancel

-----------------------------------------------------------------------------
(* The lobby's steps. *)

\* The control channel rests: what it keeps stays true, whatever the lobby does.
LEMMA ChannelRests ==
    ASSUME TypeOK, TypeOK', SystemInv, nextMatch' >= nextMatch,
           UNCHANGED <<nextControl, session, wstate, wconn, wmatch, tracked>>,
           UNCHANGED <<channels, serverVars>>
    PROVE  ControlTypes' /\ Records' /\ Links' /\ Conversations'
<1>1. UNCHANGED <<toServer, toLobby>>  BY DEF channels
<1>2. ControlTypes'  BY <1>1 DEF SystemInv, ControlTypes, serverVars
<1>3. Records'
  <2>1. nextMatch \in Nat /\ nextMatch' \in Nat  BY Constants DEF TypeOK
  <2>2. nextControl \in Nat  BY Numbers DEF SystemInv
  <2> QED  BY <2>1, <2>2, RecordsStay DEF SystemInv
<1>4. Links'  BY <1>1, LinksStay DEF SystemInv
<1>5. Conversations'
  <2> SUFFICES ASSUME NEW v \in Worker PROVE linkState'[v] = "Up" => Conversation(v)'
    BY DEF Conversations
  <2>1. SameServer(v) /\ SameRecord(v) /\ SameChannel(link[v])
    BY <1>1 DEF serverVars, SameServer, SameRecord, SameChannel
  <2> QED  BY <2>1, ConversationStays DEF SystemInv
<1> QED  BY <1>2, <1>3, <1>4, <1>5

\* A step of the lobby's clients or of its clock that is no business of the
\* game servers.
LEMMA LobbyAloneKeeps ==
    ASSUME TypeOK, TypeOK', SystemInv, Quiet,
           UNCHANGED <<lobbySide, channels, serverVars, pending, active>>,
           nextMatch' >= nextMatch, closing' >= closing
    PROVE  SystemInv'
<1>1. ControlTypes' /\ Records' /\ Links' /\ Conversations'
  BY ChannelRests DEF lobbySide
<1>2. inbox = <<>> /\ inbox' = <<>> /\ UNCHANGED <<wstate, wmatch>>
  BY DEF Quiet, lobbySide
<1>3. OneEvent' /\ EventsTrue'  BY <1>2, TellsNothing DEF OneEvent, EventsTrue
<1>4. \A w \in Worker : wmatch[w] <= closing => wmatch[w] <= closing'
  <2>1. closing \in Nat /\ closing' \in Nat  BY DEF TypeOK
  <2>2. \A w \in Worker : wmatch[w] \in Nat
    BY Constants DEF SystemInv, ControlTypes, MatchId
  <2> QED  BY <2>1, <2>2
<1>5. Agreement'
  <2>1. ASSUME NEW w \in Worker, wstate'[w] = "Active"
        PROVE  active'[wmatch'[w]].worker = w \/ wmatch'[w] <= closing'
    BY <1>2, <1>4, <2>1, QuietAccord DEF SystemInv
  <2> QED  BY <1>2, <2>1, QuietAccord, TellsNothing DEF SystemInv, Agreement
<1> QED  BY <1>1, <1>3, <1>5 DEF SystemInv, Accord

LEMMA ClientStepKeeps ==
    ASSUME TypeOK, TypeOK', SystemInv,
           (\E c \in ConnectionId : ClientStep(c)) \/ ClientConnects \/ Clock
    PROVE  SystemInv'
<1>1. Quiet /\ UNCHANGED <<lobbySide, channels, serverVars>>
  BY DEF ClientStep, ClientConnects, Clock
<1>2. nextMatch \in Nat /\ closing \in Nat  BY Constants DEF TypeOK
<1>3. /\ pending' = pending /\ active' = active
      /\ nextMatch' \in {nextMatch, nextMatch + 1} /\ closing' \in {closing, closing + 1}
  <2>1. CASE ClientConnects
    BY <2>1 DEF ClientConnects, OpenConnection, matchVars, timeVars
  <2>2. CASE Clock
    BY <2>2 DEF Clock, LastSecond, TicketsExpire, matchVars, counters
  <2>3. ASSUME NEW c \in ConnectionId, ClientStep(c)
        PROVE  /\ pending' = pending /\ active' = active
               /\ nextMatch' \in {nextMatch, nextMatch + 1}
               /\ closing' \in {closing, closing + 1}
    BY <2>3
    DEF ClientStep, Hello, CreateRoom, JoinRoom, LeaveRoom, SetReady,
        StartMatchRollback, DisconnectOutside, DisconnectWaiting, matchVars,
        timeVars, counters
  <2> QED  BY <2>1, <2>2, <2>3
<1> QED  BY <1>1, <1>2, <1>3, LobbyAloneKeeps

\* The lobby hears that a reservation failed, a match is ready or over.
LEMMA LobbyHandlesKeeps ==
    ASSUME TypeOK, TypeOK', SystemInv, LobbyHandles
    PROVE  SystemInv'
<1>1. PICK e \in C!Event : inbox = <<e>>
  BY DEF LobbyHandles, SystemInv, Accord, OneEvent
<1>2. PICK m : m = e.match  OBVIOUS
<1>3. PICK w : w = e.worker  OBVIOUS
<1>4. /\ inbox' = <<>> /\ m \in MatchId
      /\ inbox # <<>> /\ Head(inbox) = e
      /\ \A t, n : /\ Telling(t, n) <=> t = e.type /\ n = m
                   /\ \A v : TellingOf(t, n, v) <=> t = e.type /\ n = m /\ v = w
  <2>1. inbox # <<>> /\ Head(inbox) = e /\ Tail(inbox) = <<>>  BY <1>1
  <2>2. m \in MatchId  BY <1>1, <1>2, Constants DEF C!Event
  <2> QED  BY <1>2, <1>3, <2>1, <2>2 DEF LobbyHandles, Telling, TellingOf
<1>5. /\ UNCHANGED <<nextControl, session, wstate, wconn, wmatch, tracked>>
      /\ UNCHANGED <<channels, serverVars>>
  BY DEF LobbyHandles
<1>6. \/ e.type = "Failed" /\ ReservationFailed(m)
      \/ e.type = "Ready" /\ ReservationTooLate(m)
      \/ e.type = "Ready" /\ ReservationReady(m, w)
      \/ e.type \in {"Finished", "Unavailable"} /\ FinishMatch(m, w)
      \/ Ignored(e)
  <2>1. Head(inbox) = e  BY <1>1
  <2> QED  BY <1>2, <1>3, <2>1 DEF LobbyHandles
<1>7. nextMatch' = nextMatch /\ closing' = closing
  BY <1>6
  DEF ReservationFailed, ReservationTooLate, FailPending, ReservationReady,
      FinishMatch, Ignored, lobbyVars, counters, timeVars
<1>8. ControlTypes' /\ Records' /\ Links' /\ Conversations'
  <2>1. nextMatch' >= nextMatch  BY <1>7, Constants DEF TypeOK
  <2> QED  BY <1>5, <2>1, ChannelRests
<1>9. OneEvent' /\ EventsTrue'  BY <1>4, TellsNothing DEF OneEvent, EventsTrue
<1>10. /\ e.type = "Failed" => ~ \E v \in Worker : wstate[v] = "Reserved" /\ wmatch[v] = m
       /\ e.type = "Ready" => w \in Worker /\ wstate[w] = "Active" /\ wmatch[w] = m
       /\ e.type \in {"Finished", "Unavailable"} =>
              w \in Worker /\ wstate[w] \in {"Idle", "Absent"}
  <2>1. e.type # "Failed" => w \in Worker
    BY <1>1, <1>3 DEF SystemInv, Accord, EventsTrue
  <2> QED  BY <1>4, <2>1 DEF SystemInv, Accord, EventsTrue
<1>11. \A v \in Worker : wmatch[v] = m /\ wmatch[w] = m /\ w \in Worker => v = w
  BY <1>4, Constants DEF SystemInv, Records
\* What Agreement says with this one event.
<1>12. /\ \A n \in MatchId :
             pending[n].room # None <=>
                 \/ \E v \in Worker : wstate[v] = "Reserved" /\ wmatch[v] = n
                 \/ n = m /\ e.type \in {"Failed", "Ready"}
       /\ \A n \in MatchId, v \in Worker :
             active[n].worker = v =>
                 \/ wstate[v] = "Active" /\ wmatch[v] = n
                 \/ n = m /\ v = w /\ e.type \in {"Finished", "Unavailable"}
       /\ \A v \in Worker : wstate[v] = "Active" =>
             \/ active[wmatch[v]].worker = v
             \/ wmatch[v] <= closing
             \/ wmatch[v] = m /\ v = w /\ e.type = "Ready"
       /\ \A n \in MatchId : active[n].room = None <=> active[n].worker = None
  <2>1. ASSUME NEW n \in MatchId
        PROVE  pending[n].room # None <=>
                 \/ \E v \in Worker : wstate[v] = "Reserved" /\ wmatch[v] = n
                 \/ n = m /\ e.type \in {"Failed", "Ready"}
    <3>1. Telling("Failed", n) \/ Telling("Ready", n)
          <=> n = m /\ e.type \in {"Failed", "Ready"}
      BY <1>2, <1>4 DEF Telling
    <3> QED  BY <3>1 DEF SystemInv, Accord, Agreement
  <2>2. ASSUME NEW n \in MatchId, NEW v \in Worker, active[n].worker = v
        PROVE  \/ wstate[v] = "Active" /\ wmatch[v] = n
               \/ n = m /\ v = w /\ e.type \in {"Finished", "Unavailable"}
    <3>1. TellingOf("Finished", n, v) \/ TellingOf("Unavailable", n, v)
          <=> n = m /\ v = w /\ e.type \in {"Finished", "Unavailable"}
      BY <1>2, <1>3, <1>4 DEF TellingOf, Telling
    <3> QED  BY <2>2, <3>1 DEF SystemInv, Accord, Agreement
  <2>3. ASSUME NEW v \in Worker, wstate[v] = "Active"
        PROVE  \/ active[wmatch[v]].worker = v
               \/ wmatch[v] <= closing
               \/ wmatch[v] = m /\ v = w /\ e.type = "Ready"
    <3>1. TellingOf("Ready", wmatch[v], v) => wmatch[v] = m /\ v = w /\ e.type = "Ready"
      BY <1>2, <1>3, <1>4 DEF TellingOf, Telling
    <3>2. Agreement  BY DEF SystemInv, Accord
    <3>3. \/ active[wmatch[v]].worker = v
          \/ wmatch[v] <= closing
          \/ TellingOf("Ready", wmatch[v], v)
      BY <2>3, <3>2, Zenon DEF Agreement
    <3> QED  BY <3>1, <3>3
  <2>4. \A n \in MatchId : active[n].room = None <=> active[n].worker = None
    BY DEF SystemInv, Accord, Agreement
  <2> QED  BY <2>1, <2>2, <2>3, <2>4
\* What it says when there is none.
<1>13. /\ \A n \in MatchId :
             pending'[n].room # None <=>
                 \E v \in Worker : wstate[v] = "Reserved" /\ wmatch[v] = n
       /\ \A n \in MatchId, v \in Worker :
             active'[n].worker = v => wstate[v] = "Active" /\ wmatch[v] = n
       /\ \A v \in Worker : wstate[v] = "Active" =>
             active'[wmatch[v]].worker = v \/ wmatch[v] <= closing
       /\ \A n \in MatchId : active'[n].room = None <=> active'[n].worker = None
  <2>1. CASE \/ e.type = "Failed" /\ ReservationFailed(m)
             \/ e.type = "Ready" /\ ReservationTooLate(m)
    <3>1. /\ pending' = [pending EXCEPT ![m] = NoReservation] /\ active' = active
          /\ e.type = "Ready" => m <= closing
      BY <2>1 DEF ReservationFailed, ReservationTooLate, FailPending, DropReservation
    <3>2. ~ \E v \in Worker : wstate[v] = "Reserved" /\ wmatch[v] = m
      BY <1>10, <1>11, <2>1
    <3>3. /\ pending'[m].room = None
          /\ \A n \in MatchId : n # m => pending'[n] = pending[n]
      BY <1>4, <3>1 DEF NoReservation, TypeOK
    <3> QED  BY <1>12, <2>1, <3>1, <3>2, <3>3
  <2>2. CASE e.type = "Ready" /\ ReservationReady(m, w)
    <3>1. PICK r : r = pending[m].room  OBVIOUS
    <3>2. /\ pending' = [pending EXCEPT ![m] = NoReservation]
          /\ active' = [active EXCEPT ![m] =
                           [room |-> r, worker |-> w, players |-> pending[m].players]]
          /\ r # None
      BY <2>2, <3>1 DEF ReservationReady, DropReservation
    <3>3. ~ \E v \in Worker : wstate[v] = "Reserved" /\ wmatch[v] = m
      BY <1>10, <1>11, <2>2
    <3>4. /\ pending'[m].room = None
          /\ active'[m].room = r /\ active'[m].worker = w /\ w # None
          /\ \A n \in MatchId : n # m => pending'[n] = pending[n] /\ active'[n] = active[n]
      BY <1>4, <1>10, <2>2, <3>2, Constants DEF NoReservation, TypeOK
    <3>5. \A v \in Worker : wstate[v] = "Active" => wmatch[v] \in MatchId
      BY MatchOfBusy DEF SystemInv, Busy
    <3> QED  BY <1>4, <1>10, <1>11, <1>12, <2>2, <3>2, <3>3, <3>4, <3>5
  <2>3. CASE e.type \in {"Finished", "Unavailable"} /\ FinishMatch(m, w)
    <3>1. /\ active' = [active EXCEPT ![m] = NoMatch] /\ pending' = pending
          /\ active[m].worker = w
      BY <2>3 DEF FinishMatch
    <3>2. /\ active'[m].room = None /\ active'[m].worker = None
          /\ \A n \in MatchId : n # m => active'[n] = active[n]
      BY <1>4, <3>1 DEF NoMatch, TypeOK
    <3>3. \A v \in Worker : wstate[v] = "Active" => wmatch[v] \in MatchId
      BY MatchOfBusy DEF SystemInv, Busy
    <3> QED  BY <1>10, <1>12, <2>3, <3>1, <3>2, <3>3, Constants
  <2>4. CASE Ignored(e)
    <3>1. /\ e.type \in {"Failed", "Ready"} => pending[m].room = None
          /\ e.type \in {"Finished", "Unavailable"} => active[m].worker # w
          /\ pending' = pending /\ active' = active
      BY <1>2, <1>3, <2>4 DEF Ignored, lobbyVars, matchVars
    <3>2. e.type \notin {"Failed", "Ready"}  BY <1>4, <1>12, <3>1
    <3> QED  BY <1>12, <3>1, <3>2
  <2> QED  BY <1>6, <2>1, <2>2, <2>3, <2>4
<1>14. Agreement'
  <2>1. \A t, n, v : ~Telling(t, n)' /\ ~TellingOf(t, n, v)'  BY <1>4, TellsNothing
  <2> QED  BY <1>5, <1>7, <1>13, <2>1 DEF Agreement
<1> QED  BY <1>8, <1>9, <1>14 DEF SystemInv, Accord

\* The registry gives a record a frame to send: the worker's connection carries it.
LEMMA RecordSends ==
    ASSUME TypeOK, TypeOK', SystemInv, NEW w \in Worker, wstate[w] \notin {"Absent"},
           NEW st \in Busy, NEW m \in MatchId, NEW f,
           RecordBecomes(w, st, wconn[w], m),
           toServer' = C!Sent(wconn[w], f),
           tracked' \in [MatchId -> Worker \cup {None}],
           UNCHANGED <<nextControl, session, toLobby, serverVars>>,
           nextMatch' >= nextMatch, m < nextMatch',
           \A v \in Worker : v # w => wmatch[v] # m,
           \A ts, tl, reg, h : Talk(w, reg, wstate[w], wmatch[w], ts, tl, h) =>
               Talk(w, reg, st, m, Append(ts, f), tl, h)
    PROVE  ControlTypes' /\ Records' /\ Links' /\ Conversations'
<1>1. PICK k : k = wconn[w]  OBVIOUS
<1>2. k \in ControlId /\ k # None /\ k < nextControl
  BY <1>1 DEF SystemInv, Records, ControlTypes
<1>3. RecordBecomes(w, st, k, m)  BY <1>1
<1>4. /\ wstate'[w] = st /\ wconn'[w] = k /\ wmatch'[w] = m
      /\ \A v \in Worker : v # w => SameRecord(v)
  BY <1>3, NewRecord DEF SystemInv
<1>5. toServer' = [toServer EXCEPT ![k] = IF session[k] = "Open" THEN Append(@, f) ELSE @]
  BY <1>1 DEF C!Sent
<1>6. ControlTypes'
  <2>1. /\ wstate' \in [Worker -> WorkerStates]
        /\ wconn' \in [Worker -> ControlId \cup {None}]
        /\ wmatch' \in [Worker -> MatchId \cup {None}]
    <3>1. st \in WorkerStates  BY DEF Busy, WorkerStates
    <3>2. k \in ControlId \cup {None} /\ m \in MatchId \cup {None}  BY <1>2
    <3> QED  BY <1>3, <3>1, <3>2, RecordTypes DEF SystemInv
  <2>2. DOMAIN toServer' = ControlId /\ DOMAIN toLobby' = ControlId
    BY <1>5 DEF SystemInv, ControlTypes
  <2>3. ControlTypes  BY DEF SystemInv
  <2> QED  BY <2>1, <2>2, <2>3 DEF ControlTypes, serverVars
<1>7. Records'
  <2>1. nextMatch \in Nat /\ nextMatch' \in Nat  BY Constants DEF TypeOK
  <2>2. st # "Absent" /\ m # None  BY Constants DEF Busy
  <2>3. \A v \in Worker : v # w => wconn[v] # k
    BY <1>1, <1>2 DEF SystemInv, Records
  <2>4. ControlTypes /\ Records /\ k \in ControlId \cup {None} /\ m \in MatchId \cup {None}
    BY <1>2 DEF SystemInv
  <2> QED  BY <1>2, <1>3, <2>1, <2>2, <2>3, <2>4, RecordsChange
<1>8. Links'
  <2>1. \A v \in Worker : wconn'[v] \in {wconn[v], None}
    BY <1>1, <1>4 DEF SameRecord
  <2>2. \A j \in ControlId : j >= nextControl =>
            session'[j] = session[j] /\ toServer'[j] = toServer[j]
    BY <1>2, <1>5, Numbers, Constants DEF SystemInv, ControlTypes, ControlId
  <2> QED  BY <2>1, <2>2, LinksStay DEF SystemInv
<1>9. Conversations'
  <2>1. \A v \in Worker : linkState[v] = "Up" /\ link[v] = k => v = w
    BY <1>1 DEF SystemInv, Links
  <2>2. \A j \in ControlId : j # k => SameChannel(j)
    BY <1>5 DEF SystemInv, ControlTypes, SameChannel
  <2>3. session[k] # "Open" => toServer'[k] = toServer[k]
    BY <1>2, <1>5 DEF SystemInv, ControlTypes
  <2>4. linkState[w] = "Up" /\ link[w] = k /\ session[k] = "Open" =>
            Talk(w, registered[w], wstate'[w], wmatch'[w], toServer'[k],
                 toLobby'[k], hosted[w])
    <3> SUFFICES ASSUME linkState[w] = "Up", link[w] = k, session[k] = "Open"
                 PROVE  Talk(w, registered[w], wstate'[w], wmatch'[w], toServer'[k],
                             toLobby'[k], hosted[w])
      OBVIOUS
    <3>1. Talk(w, registered[w], wstate[w], wmatch[w], toServer[k], toLobby[k], hosted[w])
      BY <1>1 DEF SystemInv, Conversations, Conversation
    <3>2. Talk(w, registered[w], st, m, Append(toServer[k], f), toLobby[k], hosted[w])
      BY <3>1, Zenon
    <3>3. toServer'[k] = Append(toServer[k], f) /\ toLobby'[k] = toLobby[k]
      BY <1>2, <1>5 DEF SystemInv, ControlTypes
    <3> QED  BY <1>4, <3>2, <3>3
  <2>5. wconn'[w] = k /\ wconn[w] \in {k, None}  BY <1>1, <1>4
  <2>6. UNCHANGED <<session, serverVars>>  OBVIOUS
  <2> QED
    BY <1>2, <1>4, <2>1, <2>2, <2>3, <2>4, <2>5, <2>6, LobbySpeaks DEF SystemInv
<1> QED  BY <1>6, <1>7, <1>8, <1>9

LEMMA StartKeeps ==
    ASSUME LobbyInv, TypeOK', SystemInv, NEW c \in ConnectionId, ClientStarts(c)
    PROVE  SystemInv'
<1>1. PICK m : m = nextMatch  OBVIOUS
<1>2. PICK r : r = RoomOf(c)  OBVIOUS
<1>3. PICK p : p = PlayerOf(c)  OBVIOUS
<1>4. /\ m \in MatchId /\ r # None
      /\ nextMatch' = m + 1 /\ active' = active /\ closing' = closing
      /\ pending' = [pending EXCEPT ![m] =
                        [room |-> r, requester |-> p, players |-> members[r]]]
      /\ C!Reserve(m) /\ Quiet /\ UNCHANGED serverVars
  BY <1>1, <1>2, <1>3 DEF ClientStarts, StartMatch, CanStart, timeVars
<1>5. TypeOK /\ m \in Nat /\ nextMatch' >= nextMatch /\ m < nextMatch'
  BY <1>1, <1>4, Constants DEF LobbyInv, MatchId
<1>6. pending[m].room = None /\ active[m].room = None
  BY <1>1, <1>4, <1>5 DEF LobbyInv, IdsAreFresh
<1>7. /\ pending'[m].room = r
      /\ \A n \in MatchId : n # m => pending'[n] = pending[n]
  BY <1>4, <1>5 DEF TypeOK
<1>8. \A v \in Worker : wmatch[v] # m
  BY <1>1, <1>5, Constants DEF SystemInv, Records
<1>9. inbox = <<>>  BY <1>4 DEF Quiet
<1>10. CASE C!IdleWorkers # {}
  <2>1. PICK w : w = C!First(C!IdleWorkers)  OBVIOUS
  <2>2. w \in Worker /\ wstate[w] = "Idle"
    <3>1. C!IdleWorkers \subseteq Nat  BY Constants DEF C!IdleWorkers
    <3>2. \E x \in C!IdleWorkers : \A y \in C!IdleWorkers : x <= y
      BY <1>10, <3>1, LeastNumber
    <3>3. w \in C!IdleWorkers  BY <2>1, <3>2 DEF C!First
    <3> QED  BY <3>3 DEF C!IdleWorkers
  <2>3. /\ wstate' = [wstate EXCEPT ![w] = "Reserved"]
        /\ wmatch' = [wmatch EXCEPT ![w] = m]
        /\ tracked' = [tracked EXCEPT ![m] = w]
        /\ toServer' = C!Sent(wconn[w], Ask(m))
        /\ UNCHANGED <<nextControl, session, wconn, toLobby, inbox>>
    BY <1>4, <1>10, <2>1 DEF C!Reserve, Ask
  <2>4. RecordBecomes(w, "Reserved", wconn[w], m)
    BY <2>2, <2>3 DEF RecordBecomes, SystemInv, ControlTypes
  <2>5. ControlTypes' /\ Records' /\ Links' /\ Conversations'
    <3>1. \A ts, tl, reg, h : Talk(w, reg, wstate[w], wmatch[w], ts, tl, h) =>
              Talk(w, reg, "Reserved", m, Append(ts, Ask(m)), tl, h)
      <4> SUFFICES ASSUME NEW ts, NEW tl, NEW reg, NEW h,
                          Talk(w, reg, wstate[w], wmatch[w], ts, tl, h)
                   PROVE  Talk(w, reg, "Reserved", m, Append(ts, Ask(m)), tl, h)
        OBVIOUS
      <4>1. Talk(w, reg, "Idle", wmatch[w], ts, tl, h)  BY <2>2
      <4> QED  BY <4>1, TalkReserves, Zenon
    <3>2. tracked' \in [MatchId -> Worker \cup {None}]
      BY <1>4, <2>2, <2>3 DEF SystemInv, ControlTypes
    <3>3. "Reserved" \in Busy  BY DEF Busy
    <3>4. wstate[w] \notin {"Absent"}  BY <2>2
    <3> QED
      BY <1>4, <1>5, <1>8, <2>2, <2>3, <2>4, <3>1, <3>2, <3>3, <3>4, RecordSends
  <2>6. /\ wstate'[w] = "Reserved" /\ wmatch'[w] = m
        /\ \A v \in Worker : v # w => SameRecord(v)
    BY <2>2, <2>4, NewRecord DEF SystemInv
  <2>7. inbox' = <<>>  BY <1>9, <2>3
  <2>8. OneEvent' /\ EventsTrue'  BY <2>7, TellsNothing DEF OneEvent, EventsTrue
  <2>9. Agreement'
    <3>1. ASSUME NEW n \in MatchId
          PROVE  pending'[n].room # None <=>
                     \E v \in Worker : wstate'[v] = "Reserved" /\ wmatch'[v] = n
      <4>1. CASE n = m  BY <1>4, <1>7, <2>2, <2>6, <4>1
      <4>2. CASE n # m
        <5>1. \A v \in Worker : wstate'[v] = "Reserved" /\ wmatch'[v] = n
                                <=> wstate[v] = "Reserved" /\ wmatch[v] = n
          BY <2>2, <2>6, <4>2 DEF SameRecord
        <5>2. pending'[n] = pending[n]  BY <1>7, <4>2
        <5> QED  BY <1>4, <5>1, <5>2, QuietAccord DEF SystemInv
      <4> QED  BY <4>1, <4>2
    <3>2. \A v \in Worker : wstate'[v] = "Active" <=> wstate[v] = "Active"
      BY <2>2, <2>6 DEF SameRecord
    <3>3. \A v \in Worker : wstate[v] = "Active" => wmatch'[v] = wmatch[v]
      BY <2>2, <2>6 DEF SameRecord
    <3>4. /\ \A n \in MatchId, v \in Worker :
                active[n].worker = v => wstate[v] = "Active" /\ wmatch[v] = n
          /\ \A v \in Worker : wstate[v] = "Active" =>
                active[wmatch[v]].worker = v \/ wmatch[v] <= closing
          /\ \A n \in MatchId : active[n].room = None <=> active[n].worker = None
      BY <1>4, QuietAccord DEF SystemInv
    <3> QED  BY <1>4, <2>7, <3>1, <3>2, <3>3, <3>4, TellsNothing DEF Agreement
  <2> QED  BY <2>5, <2>8, <2>9 DEF SystemInv, Accord
<1>11. CASE C!IdleWorkers = {}
  <2>1. /\ inbox' = Append(inbox, Says("Failed", None, m))
        /\ UNCHANGED <<nextControl, session, wstate, wconn, wmatch, tracked, toServer,
                       toLobby>>
    BY <1>4, <1>11, Constants DEF C!Reserve, C!registryVars, Says
  <2>2. inbox' = <<Says("Failed", None, m)>>
    <3>1. PICK e : e = Says("Failed", None, m)  OBVIOUS
    <3>2. inbox' = Append(<<>>, e)  BY <1>9, <2>1, <3>1
    <3> QED  BY <3>1, <3>2
  <2>3. ControlTypes' /\ Records' /\ Links' /\ Conversations'
    BY <1>4, <1>5, <2>1, ChannelRests DEF channels
  <2>4. /\ OneEvent' /\ Head(inbox').type = "Failed"
        /\ \A t, i : /\ Telling(t, i)' <=> t = "Failed" /\ i = m
                     /\ \A v : TellingOf(t, i, v)' <=> t = "Failed" /\ i = m /\ v = None
    <3>1. "Failed" \in EventType  BY DEF EventType
    <3>2. None \in Worker \cup {None}  OBVIOUS
    <3> QED  BY <1>4, <2>2, <3>1, <3>2, Tells, Zenon
  <2>5. EventsTrue'  BY <1>8, <2>1, <2>4 DEF EventsTrue
  <2>6. Agreement'
    <3>1. ASSUME NEW n \in MatchId
          PROVE  pending'[n].room # None <=>
                     \/ \E v \in Worker : wstate'[v] = "Reserved" /\ wmatch'[v] = n
                     \/ Telling("Failed", n)' \/ Telling("Ready", n)'
      <4>1. CASE n = m
        <5>1. Telling("Failed", n)'  BY <2>4, <4>1
        <5> QED  BY <1>4, <1>7, <4>1, <5>1
      <4>2. CASE n # m
        <5>1. ~Telling("Failed", n)' /\ ~Telling("Ready", n)'  BY <2>4, <4>2
        <5>2. pending'[n] = pending[n]  BY <1>7, <4>2
        <5> QED  BY <1>4, <2>1, <5>1, <5>2, QuietAccord DEF SystemInv
      <4> QED  BY <4>1, <4>2
    <3>2. /\ \A n \in MatchId, v \in Worker :
                active[n].worker = v => wstate[v] = "Active" /\ wmatch[v] = n
          /\ \A v \in Worker : wstate[v] = "Active" =>
                active[wmatch[v]].worker = v \/ wmatch[v] <= closing
          /\ \A n \in MatchId : active[n].room = None <=> active[n].worker = None
      BY <1>4, QuietAccord DEF SystemInv
    <3> QED  BY <1>4, <2>1, <3>1, <3>2 DEF Agreement
  <2> QED  BY <2>3, <2>4, <2>5, <2>6 DEF SystemInv, Accord
<1> QED  BY <1>10, <1>11

\* A member of a Starting room goes away, and the registry cancels.
LEMMA LeaveStartKeeps ==
    ASSUME LobbyInv, TypeOK', SystemInv, NEW c \in ConnectionId, ClientLeavesStart(c)
    PROVE  SystemInv'
<1>1. PICK m : m = roomRes[RoomOf(c)]  OBVIOUS
<1>2. /\ m # None /\ m \in MatchId
      /\ pending' = [pending EXCEPT ![m] = NoReservation]
      /\ active' = active /\ closing' = closing /\ nextMatch' = nextMatch
      /\ C!Cancel(m) /\ Quiet /\ UNCHANGED serverVars
  <2>1. /\ m # None
        /\ pending' = [pending EXCEPT ![m] = NoReservation]
        /\ active' = active /\ closing' = closing /\ nextMatch' = nextMatch
        /\ C!Cancel(m) /\ Quiet /\ UNCHANGED serverVars
        /\ Welcomed(c) /\ RoomOf(c) # None
    BY <1>1
    DEF ClientLeavesStart, DisconnectStarting, DropReservation, counters, timeVars
  <2>2. RoomOf(c) \in RoomId
    BY <2>1 DEF LobbyInv, TypeOK, RoomOf, Welcomed
  <2>3. m \in MatchId  BY <1>1, <2>1, <2>2 DEF LobbyInv, TypeOK
  <2> QED  BY <2>1, <2>3
<1>3. TypeOK  BY DEF LobbyInv
<1>4. PICK w : w = tracked[m]  OBVIOUS
<1>5. /\ w \in Worker /\ wstate[w] = "Reserved" /\ wmatch[w] = m
      /\ wstate' = [wstate EXCEPT ![w] = "Cancelling"]
      /\ toServer' = C!Sent(wconn[w], Stop(m))
      /\ UNCHANGED <<nextControl, session, wconn, wmatch, tracked, toLobby, inbox>>
  BY <1>2, <1>4, Constants DEF C!Cancel, Stop, SystemInv, ControlTypes
<1>6. RecordBecomes(w, "Cancelling", wconn[w], m)
  BY <1>5 DEF RecordBecomes, SystemInv, ControlTypes
<1>7. nextMatch \in Nat /\ m < nextMatch' /\ nextMatch' >= nextMatch
  BY <1>2, <1>3, <1>5, Numbers DEF SystemInv, Records
<1>8. \A v \in Worker : v # w => wmatch[v] # m
  BY <1>2, <1>5 DEF SystemInv, Records
<1>9. ControlTypes' /\ Records' /\ Links' /\ Conversations'
  <2>1. \A ts, tl, reg, h : Talk(w, reg, wstate[w], wmatch[w], ts, tl, h) =>
            Talk(w, reg, "Cancelling", m, Append(ts, Stop(m)), tl, h)
    <3> SUFFICES ASSUME NEW ts, NEW tl, NEW reg, NEW h,
                        Talk(w, reg, wstate[w], wmatch[w], ts, tl, h)
                 PROVE  Talk(w, reg, "Cancelling", m, Append(ts, Stop(m)), tl, h)
      OBVIOUS
    <3>1. Talk(w, reg, "Reserved", m, ts, tl, h)  BY <1>5
    <3> QED  BY <3>1, TalkCancels, Zenon
  <2>2. tracked' \in [MatchId -> Worker \cup {None}]
    BY <1>5 DEF SystemInv, ControlTypes
  <2>3. "Cancelling" \in Busy  BY DEF Busy
  <2>4. wstate[w] \notin {"Absent"}  BY <1>5
  <2> QED
    BY <1>2, <1>3, <1>5, <1>6, <1>7, <1>8, <2>1, <2>2, <2>3, <2>4, RecordSends
<1>10. /\ wstate'[w] = "Cancelling" /\ wmatch'[w] = m
       /\ \A v \in Worker : v # w => SameRecord(v)
  BY <1>5, <1>6, NewRecord DEF SystemInv
<1>11. inbox' = <<>>  BY <1>2, <1>5 DEF Quiet
<1>12. OneEvent' /\ EventsTrue'  BY <1>11, TellsNothing DEF OneEvent, EventsTrue
<1>13. Agreement'
  <2>1. ASSUME NEW n \in MatchId
        PROVE  pending'[n].room # None <=>
                   \E v \in Worker : wstate'[v] = "Reserved" /\ wmatch'[v] = n
    <3>1. CASE n = m
      <4>1. pending'[n].room = None  BY <1>2, <1>3, <3>1 DEF TypeOK, NoReservation
      <4>2. ASSUME NEW v \in Worker, wstate'[v] = "Reserved", wmatch'[v] = n PROVE FALSE
        BY <1>8, <1>10, <3>1, <4>2 DEF SameRecord
      <4> QED  BY <4>1, <4>2
    <3>2. CASE n # m
      <4>1. \A v \in Worker : wstate'[v] = "Reserved" /\ wmatch'[v] = n
                              <=> wstate[v] = "Reserved" /\ wmatch[v] = n
        BY <1>5, <1>10, <3>2 DEF SameRecord
      <4>2. pending'[n] = pending[n]  BY <1>2, <1>3, <3>2 DEF TypeOK
      <4> QED  BY <1>2, <4>1, <4>2, QuietAccord DEF SystemInv
    <3> QED  BY <3>1, <3>2
  <2>2. \A v \in Worker : wstate'[v] = "Active" <=> wstate[v] = "Active"
    BY <1>5, <1>10 DEF SameRecord
  <2>3. /\ \A n \in MatchId, v \in Worker :
              active[n].worker = v => wstate[v] = "Active" /\ wmatch[v] = n
        /\ \A v \in Worker : wstate[v] = "Active" =>
              active[wmatch[v]].worker = v \/ wmatch[v] <= closing
        /\ \A n \in MatchId : active[n].room = None <=> active[n].worker = None
    BY <1>2, QuietAccord DEF SystemInv
  <2> QED  BY <1>2, <1>5, <1>11, <2>1, <2>2, <2>3, TellsNothing DEF Agreement
<1> QED  BY <1>9, <1>12, <1>13 DEF SystemInv, Accord

-----------------------------------------------------------------------------
(* Together. *)

\* What the system does is, to the lobby, one of its own steps or nothing.
LEMMA LobbyStep ==
    ASSUME TypeOK, SystemInv, [SystemNext]_vars
    PROVE  [Next]_lobbyVars
<1>1. CASE UNCHANGED vars  BY <1>1 DEF vars
<1>2. CASE SystemNext
  <2>1. ASSUME NEW c \in ConnectionId, ClientStarts(c) \/ ClientLeavesStart(c) \/ ClientStep(c)
        PROVE  Next
    BY <2>1
    DEF ClientStarts, ClientLeavesStart, ClientStep, Next, Request, Disconnect
  <2>2. CASE ClientConnects \/ Clock
    BY <2>2 DEF ClientConnects, Clock, Next
  <2>3. CASE LobbyHandles
    <3>1. PICK e \in C!Event : inbox = <<e>>
      BY <2>3 DEF LobbyHandles, SystemInv, Accord, OneEvent
    <3>2. e.match \in MatchId /\ Head(inbox) = e
      BY <3>1, Constants DEF C!Event
    <3>3. e.type # "Failed" => e.worker \in Worker
      BY <3>1, <3>2 DEF SystemInv, Accord, EventsTrue
    <3>4. \/ e.type = "Failed" /\ ReservationFailed(e.match)
          \/ e.type = "Ready" /\ ReservationTooLate(e.match)
          \/ e.type = "Ready" /\ ReservationReady(e.match, e.worker)
          \/ e.type \in {"Finished", "Unavailable"} /\ FinishMatch(e.match, e.worker)
          \/ Ignored(e)
      BY <2>3, <3>2 DEF LobbyHandles
    <3>5. CASE Ignored(e)  BY <3>5 DEF Ignored
    <3>6. CASE ~Ignored(e)
      <4>1. WorkerEvent(e.match)  BY <3>3, <3>4, <3>6 DEF WorkerEvent
      <4> QED  BY <3>2, <4>1 DEF Next
    <3> QED  BY <3>5, <3>6
  <2>4. CASE \/ \E k \in ControlId : LobbyReceives(k) \/ SessionFails(k)
             \/ \E m \in MatchId : TimerFires(m)
             \/ \E w \in Worker : ServerConnects(w) \/ ServerStep(w) \/ ServerFails(w)
    BY <2>4
    DEF LobbyReceives, SessionFails, TimerFires, ServerConnects, ServerStep, ServerFails
  <2> QED  BY <1>2, <2>1, <2>2, <2>3, <2>4 DEF SystemNext
<1> QED  BY <1>1, <1>2

LEMMA LobbyInvStep ==
    ASSUME LobbyInv, [Next]_lobbyVars
    PROVE  LobbyInv'
BY NextTypeOK, IdsStep, ConnectionsStep, MembershipStep, MatchesStep
DEF LobbyInv, MatchesAgree

LEMMA SystemStep ==
    ASSUME LobbyInv, SystemInv, [SystemNext]_vars
    PROVE  LobbyInv' /\ SystemInv'
<1>1. TypeOK  BY DEF LobbyInv
<1>2. LobbyInv'  BY <1>1, LobbyStep, LobbyInvStep
<1>3. TypeOK'  BY <1>2 DEF LobbyInv
<1>4. SystemInv'
  <2>1. CASE UNCHANGED vars
    <3>1. UNCHANGED <<lobbyVars, lobbySide, channels, serverVars>>  BY <2>1 DEF vars
    <3>2. UNCHANGED <<nextControl, session, wstate, wconn, wmatch, tracked, inbox>>
      BY <3>1 DEF lobbySide
    <3>3. SameMatches /\ nextMatch' = nextMatch /\ nextMatch' >= nextMatch
      BY <1>1, <3>1, LobbyKept, Constants DEF TypeOK
    <3>4. ControlTypes' /\ Records' /\ Links' /\ Conversations'
      BY <1>1, <1>3, <3>1, <3>2, <3>3, ChannelRests
    <3>5. Accord'  BY <3>2, <3>3, AccordStays DEF SystemInv
    <3> QED  BY <3>4, <3>5 DEF SystemInv
  <2>2. ASSUME NEW c \in ConnectionId, ClientStarts(c) PROVE SystemInv'
    BY <1>3, <2>2, StartKeeps
  <2>3. ASSUME NEW c \in ConnectionId, ClientLeavesStart(c) PROVE SystemInv'
    BY <1>3, <2>3, LeaveStartKeeps
  <2>4. CASE (\E c \in ConnectionId : ClientStep(c)) \/ ClientConnects \/ Clock
    BY <1>1, <1>3, <2>4, ClientStepKeeps
  <2>5. CASE LobbyHandles  BY <1>1, <1>3, <2>5, LobbyHandlesKeeps
  <2>6. ASSUME NEW k \in ControlId, LobbyReceives(k) \/ SessionFails(k) PROVE SystemInv'
    BY <1>1, <2>6, LobbyReceivesKeeps, SessionFailsKeeps
  <2>7. ASSUME NEW m \in MatchId, TimerFires(m) PROVE SystemInv'
    <3>1. RegistryStep /\ C!TimerFires(m)  BY <2>7 DEF TimerFires, RegistryStep
    <3> QED  BY <1>1, <3>1, TimerKeeps
  <2>8. ASSUME NEW w \in Worker, ServerConnects(w) PROVE SystemInv'
    BY <1>1, <2>8, ConnectKeeps
  <2>9. ASSUME NEW w \in Worker, ServerStep(w) \/ ServerFails(w) PROVE SystemInv'
    BY <1>1, <2>9, ServerStepKeeps
  <2> QED
    BY <2>1, <2>2, <2>3, <2>4, <2>5, <2>6, <2>7, <2>8, <2>9 DEF SystemNext
<1> QED  BY <1>2, <1>4

LEMMA InitSystemInv == SystemInit => LobbyInv /\ SystemInv
<1> SUFFICES ASSUME SystemInit PROVE LobbyInv /\ SystemInv  OBVIOUS
<1>1. Init /\ C!Init /\ S!Init  BY DEF SystemInit
<1>2. LobbyInv  BY <1>1, InitLobbyInv
<1>3. /\ nextControl = 1 /\ nextMatch = 1 /\ inbox = <<>>
      /\ session = [k \in ControlId |-> "None"]
      /\ wstate = [w \in Worker |-> "Absent"]
      /\ wconn = [w \in Worker |-> None] /\ wmatch = [w \in Worker |-> None]
      /\ tracked = [m \in MatchId |-> None]
      /\ toServer = [k \in ControlId |-> <<>>] /\ toLobby = [k \in ControlId |-> <<>>]
      /\ link = [w \in Worker |-> None] /\ linkState = [w \in Worker |-> "Down"]
      /\ registered = [w \in Worker |-> FALSE] /\ hosted = [w \in Worker |-> None]
      /\ pending = [m \in MatchId |-> NoReservation]
      /\ active = [m \in MatchId |-> NoMatch]
  BY <1>1, Constants DEF Init, C!Init, S!Init
<1>4. ControlTypes  BY <1>3, Constants DEF ControlTypes, WorkerStates
<1>5. Records  BY <1>3 DEF Records, Busy, None
<1>6. Links  BY <1>3 DEF Links, None
<1>7. Accord
  <2>1. \A t, n, v : ~Telling(t, n) /\ ~TellingOf(t, n, v)  BY <1>3, TellsNothing
  <2>2. \A m \in MatchId : /\ pending[m].room = None
                           /\ active[m].room = None /\ active[m].worker = None
    BY <1>3 DEF NoReservation, NoMatch
  <2>3. \A w \in Worker : wstate[w] = "Absent" /\ w # None  BY <1>3, Constants
  <2> QED  BY <1>3, <2>1, <2>2, <2>3 DEF Accord, OneEvent, EventsTrue, Agreement
<1>8. Conversations  BY <1>3 DEF Conversations
<1> QED  BY <1>2, <1>4, <1>5, <1>6, <1>7, <1>8 DEF SystemInv

LEMMA ControlInvIs == ControlInv <=> LobbyInv /\ SystemInv
BY DEF ControlInv, SystemInv, Accord

\* The inductive invariant holds in every state of the lobby with its game
\* servers, whatever connections fail and whichever server crashes.
THEOREM ControlInvHolds == SystemSpec => []ControlInv
<1>1. SystemInit => ControlInv  BY InitSystemInv, ControlInvIs
<1>2. ControlInv /\ [SystemNext]_vars => ControlInv'
  <2> SUFFICES ASSUME ControlInv, [SystemNext]_vars PROVE ControlInv'  OBVIOUS
  <2>1. LobbyInv' /\ SystemInv'  BY ControlInvIs, SystemStep
  <2> QED  BY <2>1 DEF ControlInv, SystemInv, Accord
<1> QED  BY <1>1, <1>2, PTL DEF SystemSpec

LEMMA FrameExpected ==
    ASSUME NEW w, NEW lk, NEW reg, NEW ts, NEW tl, NEW h,
           wstate[w] \in Busy => wmatch[w] \in MatchId,
           ServerSays(w, lk, reg, ts, tl, h), ts # <<>>
    PROVE  /\ Head(ts).type = "Registered" <=> ~reg
           /\ Head(ts).type = "Reserve" => h = None
<1>1. /\ Head(ts).type = "Registered" <=> ~reg
      /\ Head(ts).type = "Reserve" => h = None
      /\ reg => Head(ts).match \in MatchId
      /\ Head(ts).type = "Registered" => ServerSays(w, lk, TRUE, Tail(ts), tl, h)
      /\ Head(ts).type = "Reserve" =>
             /\ ServerSays(w, lk, reg, Tail(ts), Append(tl, Yes(Head(ts).match)),
                           Head(ts).match)
             /\ ServerSays(w, lk, reg, Tail(ts), Append(tl, No(Head(ts).match)), h)
      /\ Head(ts).type = "Cancel" /\ reg /\ h = Head(ts).match =>
             ServerSays(w, lk, reg, Tail(ts), Append(tl, Stopped(Head(ts).match)), None)
  BY ServerHears, Zenon
<1> QED  BY <1>1

LEMMA InvGivesServersMatch == LobbyInv /\ SystemInv => ServersMatchRegistry
<1> SUFFICES ASSUME LobbyInv, SystemInv PROVE ServersMatchRegistry  OBVIOUS
<1>1. S!ServerTypeOK  BY Constants DEF S!ServerTypeOK, SystemInv, ControlTypes
<1>2. LobbyAndRegistryAgree  BY QuietAccord DEF LobbyAndRegistryAgree, SystemInv
<1>3. RunningMatchesAreKnown
  <2> SUFFICES ASSUME NEW w \in Worker, hosted[w] # None, linkState[w] = "Up",
                      session[link[w]] = "Open"
               PROVE  wconn[w] = link[w] /\ wmatch[w] = hosted[w]
    BY DEF RunningMatchesAreKnown
  <2>1. Conversation(w)  BY DEF SystemInv, Conversations
  <2>2. wconn[w] = link[w]  BY <2>1 DEF Conversation, Fresh
  <2>3. Talk(w, registered[w], wstate[w], wmatch[w], toServer[link[w]],
             toLobby[link[w]], hosted[w])
    BY <2>1, <2>2 DEF Conversation
  <2>4. hosted[w] = wmatch[w]  BY <2>3, TalkEnds
  <2> QED  BY <2>2, <2>4
<1>4. FramesExpected
  <2> SUFFICES ASSUME NEW w \in Worker, linkState[w] = "Up", toServer[link[w]] # <<>>
               PROVE  /\ Head(toServer[link[w]]).type = "Registered" <=> ~registered[w]
                      /\ Head(toServer[link[w]]).type = "Reserve" => hosted[w] = None
    BY DEF FramesExpected
  <2>1. PICK ts : ts = toServer[link[w]]  OBVIOUS
  <2>2. ServerSays(w, link[w], registered[w], ts, toLobby[link[w]], hosted[w])
        /\ ts # <<>>
    BY <2>1, ServerTalks
  <2>3. wstate[w] \in Busy => wmatch[w] \in MatchId
    BY MatchOfBusy DEF SystemInv
  <2>4. /\ Head(ts).type = "Registered" <=> ~registered[w]
        /\ Head(ts).type = "Reserve" => hosted[w] = None
    BY <2>2, <2>3, FrameExpected, Zenon
  <2> QED  BY <2>1, <2>4
<1> QED  BY <1>1, <1>2, <1>3, <1>4 DEF ServersMatchRegistry

\* The lobby, the worker registry and the game servers always have the same
\* matches in mind, on every frame that crosses another one (LobbyService,
\* WorkerRegistry and GameServer::HandleControlFrame): a Starting room has one
\* worker that must answer, an active match runs on the worker the lobby has for
\* it, a running match on an open connection is the registry's match, and no
\* frame finds a server in a state that its defensive branches are written for.
THEOREM ServersAlwaysMatch == SystemSpec => []ServersMatchRegistry
<1>1. ControlInv => ServersMatchRegistry  BY ControlInvIs, InvGivesServersMatch
<1> QED  BY <1>1, ControlInvHolds, PTL

-----------------------------------------------------------------------------
(* The refinement of MatchLifecycle. *)

Stages   == [m \in MatchId |-> Stage(m)]
ServerOf == [m \in MatchId |-> active[m].worker]

LEMMA AsksMatch ==
    ASSUME NEW m \in MatchId, Stages[m] = "Unused",
           Stages' = [Stages EXCEPT ![m] = "Asked"], ServerOf' = ServerOf
    PROVE  Lifecycle!Next
<1>1. Lifecycle!Ask(m)  BY DEF Lifecycle!Ask, Stages, ServerOf
<1> QED  BY <1>1 DEF Lifecycle!Next

LEMMA GivesMatchUp ==
    ASSUME NEW m \in MatchId, Stages[m] \in {"Unused", "Asked"},
           Stages' = [Stages EXCEPT ![m] = "Over"], ServerOf' = ServerOf
    PROVE  Lifecycle!Next
<1>1. Lifecycle!GiveUp(m)  BY DEF Lifecycle!GiveUp, Stages, ServerOf
<1> QED  BY <1>1 DEF Lifecycle!Next

LEMMA RunsMatch ==
    ASSUME NEW m \in MatchId, NEW w \in Worker, Stages[m] = "Asked",
           \A n \in MatchId : ServerOf[n] # w,
           Stages' = [Stages EXCEPT ![m] = "Running"],
           ServerOf' = [ServerOf EXCEPT ![m] = w]
    PROVE  Lifecycle!Next
<1>1. Lifecycle!Run(m, w)  BY DEF Lifecycle!Run, Stages, ServerOf
<1> QED  BY <1>1 DEF Lifecycle!Next

LEMMA EndsMatch ==
    ASSUME NEW m \in MatchId, Stages[m] = "Running",
           Stages' = [Stages EXCEPT ![m] = "Over"],
           ServerOf' = [ServerOf EXCEPT ![m] = None]
    PROVE  Lifecycle!Next
<1>1. Lifecycle!End(m)  BY DEF Lifecycle!End, Stages, ServerOf
<1> QED  BY <1>1 DEF Lifecycle!Next

LEMMA StageChanges ==
    ASSUME NEW m \in MatchId, NEW s, Stage(m)' = s,
           \A n \in MatchId : n # m => Stage(n)' = Stage(n)
    PROVE  Stages' = [Stages EXCEPT ![m] = s]
BY DEF Stages

LEMMA StageIs ==
    ASSUME NEW n
    PROVE  /\ pending[n].room # None => Stage(n) = "Asked"
           /\ pending[n].room = None /\ active[n].room # None => Stage(n) = "Running"
           /\ pending[n].room = None /\ active[n].room = None /\ n < nextMatch =>
                  Stage(n) = "Over"
           /\ pending[n].room = None /\ active[n].room = None /\ ~(n < nextMatch) =>
                  Stage(n) = "Unused"
BY DEF Stage

LEMMA StageStays ==
    ASSUME NEW n, pending'[n] = pending[n], active'[n] = active[n],
           n < nextMatch' <=> n < nextMatch
    PROVE  Stage(n)' = Stage(n)
BY DEF Stage

\* A new match: its id was never used.
LEMMA NewMatch ==
    ASSUME LobbyInv, nextMatch \in MatchId
    PROVE  /\ Stage(nextMatch) = "Unused"
           /\ pending[nextMatch].room = None /\ active[nextMatch].room = None
<1>1. ~(nextMatch < nextMatch)  BY DEF MatchId
<1>2. pending[nextMatch].room = None /\ active[nextMatch].room = None
  BY <1>1 DEF LobbyInv, IdsAreFresh
<1> QED  BY <1>1, <1>2, StageIs

\* A reservation is given up.
LEMMA ReservationGoes ==
    ASSUME LobbyInv, NEW m \in MatchId, pending[m].room # None,
           pending' = [pending EXCEPT ![m] = NoReservation],
           active' = active, nextMatch' = nextMatch
    PROVE  Lifecycle!Next
<1>1. active[m].room = None /\ m < nextMatch
  BY DEF LobbyInv, InMatchIffActive, IdsAreFresh
<1>2. pending'[m].room = None /\ \A n \in MatchId : n # m => pending'[n] = pending[n]
  BY DEF LobbyInv, TypeOK, NoReservation
<1>3. Stages[m] = "Asked"  BY StageIs DEF Stages
<1>4. Stage(m)' = "Over"  BY <1>1, <1>2 DEF Stage
<1>5. \A n \in MatchId : n # m => Stage(n)' = Stage(n)  BY <1>2, StageStays
<1>6. ServerOf' = ServerOf  BY DEF ServerOf
<1> QED  BY <1>3, <1>4, <1>5, <1>6, StageChanges, GivesMatchUp

LEMMA StartRefines ==
    ASSUME LobbyInv, NEW c \in ConnectionId, ClientStarts(c)
    PROVE  Lifecycle!Next
<1>1. PICK m : m = nextMatch  OBVIOUS
<1>2. /\ m \in MatchId /\ RoomOf(c) # None
      /\ nextMatch' = m + 1 /\ active' = active
      /\ pending' = [pending EXCEPT ![m] =
             [room |-> RoomOf(c), requester |-> PlayerOf(c), players |-> members[RoomOf(c)]]]
  BY <1>1 DEF ClientStarts, StartMatch, CanStart
<1>3. /\ pending'[m].room # None
      /\ \A n \in MatchId : n # m => pending'[n] = pending[n]
  BY <1>2 DEF LobbyInv, TypeOK
<1>4. Stages[m] = "Unused"  BY <1>1, <1>2, NewMatch DEF Stages
<1>5. Stage(m)' = "Asked"  BY <1>3 DEF Stage
<1>6. ASSUME NEW n \in MatchId, n # m PROVE Stage(n)' = Stage(n)
  <2>1. n < nextMatch' <=> n < nextMatch  BY <1>1, <1>2, <1>6 DEF MatchId
  <2> QED  BY <1>2, <1>3, <1>6, <2>1, StageStays
<1>7. ServerOf' = ServerOf  BY <1>2 DEF ServerOf
<1> QED  BY <1>2, <1>4, <1>5, <1>6, <1>7, StageChanges, AsksMatch

LEMMA RollbackRefines ==
    ASSUME LobbyInv, NEW c \in ConnectionId, StartMatchRollback(c)
    PROVE  Lifecycle!Next
<1>1. PICK m : m = nextMatch  OBVIOUS
<1>2. m \in MatchId /\ nextMatch' = m + 1 /\ active' = active /\ pending' = pending
  BY <1>1 DEF StartMatchRollback, CanStart
<1>3. Stages[m] = "Unused" /\ pending[m].room = None /\ active[m].room = None
  BY <1>1, <1>2, NewMatch DEF Stages
<1>4. Stage(m)' = "Over"
  <2>1. m < nextMatch'  BY <1>2 DEF MatchId
  <2> QED  BY <1>2, <1>3, <2>1 DEF Stage
<1>5. ASSUME NEW n \in MatchId, n # m PROVE Stage(n)' = Stage(n)
  <2>1. n < nextMatch' <=> n < nextMatch  BY <1>1, <1>2, <1>5 DEF MatchId
  <2> QED  BY <1>2, <2>1, StageStays
<1>6. ServerOf' = ServerOf  BY <1>2 DEF ServerOf
<1> QED  BY <1>2, <1>3, <1>4, <1>5, <1>6, StageChanges, GivesMatchUp

LEMMA LeaveRefines ==
    ASSUME LobbyInv, NEW c \in ConnectionId, ClientLeavesStart(c)
    PROVE  Lifecycle!Next
<1>1. PICK r : r = RoomOf(c)  OBVIOUS
<1>2. PICK m : m = roomRes[r]  OBVIOUS
<1>3. /\ m # None /\ r # None /\ Welcomed(c)
      /\ pending' = [pending EXCEPT ![m] = NoReservation]
      /\ active' = active /\ nextMatch' = nextMatch
  BY <1>1, <1>2
  DEF ClientLeavesStart, DisconnectStarting, DropReservation, counters
<1>4. r \in RoomId  BY <1>1, <1>3 DEF LobbyInv, TypeOK, RoomOf, Welcomed
<1>5. m \in MatchId  BY <1>2, <1>3, <1>4 DEF LobbyInv, TypeOK
<1>6. pending[m].room # None
  BY <1>2, <1>3, <1>4 DEF LobbyInv, StartingIffPending
<1> QED  BY <1>3, <1>5, <1>6, ReservationGoes

LEMMA SameStages ==
    ASSUME UNCHANGED <<pending, active, nextMatch>>
    PROVE  UNCHANGED Lifecycle!vars
BY DEF Lifecycle!vars, Stage

LEMMA HandlesRefines ==
    ASSUME LobbyInv, SystemInv, LobbyHandles
    PROVE  [Lifecycle!Next]_Lifecycle!vars
<1>1. PICK e \in C!Event : inbox = <<e>>
  BY DEF LobbyHandles, SystemInv, Accord, OneEvent
<1>2. PICK m : m = e.match  OBVIOUS
<1>3. PICK w : w = e.worker  OBVIOUS
<1>4. inbox # <<>> /\ Head(inbox) = e /\ m \in MatchId
  BY <1>1, <1>2, Constants DEF C!Event
<1>5. CASE \/ e.type = "Failed" /\ ReservationFailed(m)
           \/ e.type = "Ready" /\ ReservationTooLate(m)
  <2>1. /\ pending[m].room # None
        /\ pending' = [pending EXCEPT ![m] = NoReservation]
        /\ active' = active /\ nextMatch' = nextMatch
    BY <1>5
    DEF ReservationFailed, ReservationTooLate, FailPending, DropReservation, counters
  <2> QED  BY <1>4, <2>1, ReservationGoes
<1>6. CASE e.type = "Ready" /\ ReservationReady(m, w)
  <2>1. PICK r : r = pending[m].room  OBVIOUS
  <2>2. /\ r # None /\ pending' = [pending EXCEPT ![m] = NoReservation]
        /\ active' = [active EXCEPT ![m] =
                         [room |-> r, worker |-> w, players |-> pending[m].players]]
        /\ nextMatch' = nextMatch
    BY <1>6, <2>1 DEF ReservationReady, DropReservation, counters
  <2>3. w \in Worker /\ wmatch[w] = m
    <3>1. w \in Worker
      BY <1>3, <1>4, <1>6 DEF SystemInv, Accord, EventsTrue
    <3>2. TellingOf("Ready", m, w)
      BY <1>2, <1>3, <1>4, <1>6 DEF TellingOf, Telling
    <3> QED  BY <1>4, <3>1, <3>2 DEF SystemInv, Accord, EventsTrue
  <2>4. active[m].room = None
    BY <1>4, <2>1, <2>2 DEF LobbyInv, InMatchIffActive
  <2>5. \A n \in MatchId : active[n].worker # w
    <3> SUFFICES ASSUME NEW n \in MatchId, active[n].worker = w PROVE FALSE
      OBVIOUS
    <3>1. ~TellingOf("Finished", n, w) /\ ~TellingOf("Unavailable", n, w)
      BY <1>4, <1>6 DEF TellingOf, Telling
    <3>2. wmatch[w] = n
      BY <2>3, <3>1 DEF SystemInv, Accord, Agreement
    <3>3. active[m].worker = None
      BY <1>4, <2>4 DEF SystemInv, Accord, Agreement
    <3> QED  BY <2>3, <3>2, <3>3, Constants
  <2>6. /\ pending'[m].room = None /\ active'[m].room # None /\ active'[m].worker = w
        /\ \A n \in MatchId : n # m => pending'[n] = pending[n] /\ active'[n] = active[n]
    BY <1>4, <2>2 DEF LobbyInv, TypeOK, NoReservation
  <2>7. Stages[m] = "Asked"  BY <1>4, <2>1, <2>2, StageIs DEF Stages
  <2>8. Stage(m)' = "Running"  BY <2>6 DEF Stage
  <2>9. \A n \in MatchId : n # m => Stage(n)' = Stage(n)
    BY <2>2, <2>6, StageStays
  <2>10. ServerOf' = [ServerOf EXCEPT ![m] = w]  BY <1>4, <2>6 DEF ServerOf
  <2>11. \A n \in MatchId : ServerOf[n] # w  BY <2>5 DEF ServerOf
  <2> QED
    BY <1>4, <2>3, <2>7, <2>8, <2>9, <2>10, <2>11, StageChanges, RunsMatch
<1>7. CASE e.type \in {"Finished", "Unavailable"} /\ FinishMatch(m, w)
  <2>1. /\ active[m].room # None /\ active' = [active EXCEPT ![m] = NoMatch]
        /\ pending' = pending /\ nextMatch' = nextMatch
    BY <1>7 DEF FinishMatch, counters
  <2>2. pending[m].room = None /\ m < nextMatch
    BY <1>4, <2>1 DEF LobbyInv, InMatchIffActive, IdsAreFresh
  <2>3. /\ active'[m].room = None /\ active'[m].worker = None
        /\ \A n \in MatchId : n # m => active'[n] = active[n]
    BY <1>4, <2>1 DEF LobbyInv, TypeOK, NoMatch
  <2>4. Stages[m] = "Running"  BY <1>4, <2>1, <2>2, StageIs DEF Stages
  <2>5. Stage(m)' = "Over"  BY <2>1, <2>2, <2>3 DEF Stage
  <2>6. \A n \in MatchId : n # m => Stage(n)' = Stage(n)
    BY <2>1, <2>3, StageStays
  <2>7. ServerOf' = [ServerOf EXCEPT ![m] = None]  BY <1>4, <2>3 DEF ServerOf
  <2> QED  BY <1>4, <2>4, <2>5, <2>6, <2>7, StageChanges, EndsMatch
<1>8. CASE Ignored(e)
  BY <1>8, SameStages DEF Ignored, lobbyVars, matchVars, counters
<1> QED
  BY <1>2, <1>3, <1>4, <1>5, <1>6, <1>7, <1>8 DEF LobbyHandles

LEMMA LifecycleStep ==
    ASSUME LobbyInv, SystemInv, [SystemNext]_vars
    PROVE  [Lifecycle!Next]_Lifecycle!vars
<1>1. CASE UNCHANGED lobbyVars
  BY <1>1, SameStages DEF lobbyVars, matchVars, counters
<1>2. ASSUME NEW c \in ConnectionId, ClientStarts(c)
      PROVE  [Lifecycle!Next]_Lifecycle!vars
  BY <1>2, StartRefines
<1>3. ASSUME NEW c \in ConnectionId, ClientLeavesStart(c)
      PROVE  [Lifecycle!Next]_Lifecycle!vars
  BY <1>3, LeaveRefines
<1>4. ASSUME NEW c \in ConnectionId, ClientStep(c)
      PROVE  [Lifecycle!Next]_Lifecycle!vars
  <2>1. CASE StartMatchRollback(c)  BY <2>1, RollbackRefines
  <2>2. CASE ~StartMatchRollback(c)
    <3>1. UNCHANGED <<pending, active, nextMatch>>
      BY <1>4, <2>2
      DEF ClientStep, Hello, CreateRoom, JoinRoom, LeaveRoom, SetReady,
          DisconnectOutside, DisconnectWaiting, matchVars, counters
    <3> QED  BY <3>1, SameStages
  <2> QED  BY <2>1, <2>2
<1>5. CASE ClientConnects \/ Clock
  <2>1. UNCHANGED <<pending, active, nextMatch>>
    BY <1>5
    DEF ClientConnects, Clock, OpenConnection, LastSecond, TicketsExpire, matchVars,
        counters
  <2> QED  BY <2>1, SameStages
<1>6. CASE LobbyHandles  BY <1>6, HandlesRefines
<1>7. CASE \/ \E k \in ControlId : LobbyReceives(k) \/ SessionFails(k)
           \/ \E m \in MatchId : TimerFires(m)
           \/ \E w \in Worker : ServerConnects(w) \/ ServerStep(w) \/ ServerFails(w)
  <2>1. UNCHANGED lobbyVars
    BY <1>7
    DEF LobbyReceives, SessionFails, TimerFires, ServerConnects, ServerStep, ServerFails
  <2> QED  BY <1>1, <2>1
<1>8. CASE UNCHANGED vars
  <2>1. UNCHANGED lobbyVars  BY <1>8 DEF vars
  <2> QED  BY <1>1, <2>1
<1> QED
  BY <1>2, <1>3, <1>4, <1>5, <1>6, <1>7, <1>8 DEF SystemNext

\* The lobby with its registry and game servers implements MatchLifecycle: what
\* HandleStartMatch, the worker events and the disconnects of a Starting room do
\* together is to ask for each match once, to run it on one game server that
\* runs no other or to give it up, and to end it for good.
THEOREM LifecycleHolds == SystemSpec => LifecycleSafe
<1>1. SystemInit => Lifecycle!Init
  <2> SUFFICES ASSUME SystemInit PROVE Lifecycle!Init  OBVIOUS
  <2>1. /\ nextMatch = 1 /\ pending = [m \in MatchId |-> NoReservation]
        /\ active = [m \in MatchId |-> NoMatch]
    BY DEF SystemInit, Init
  <2>2. ASSUME NEW m \in MatchId
        PROVE  Stage(m) = "Unused" /\ active[m].worker = None
    <3>1. /\ pending[m].room = None /\ active[m].room = None /\ active[m].worker = None
          /\ ~(m < nextMatch)
      BY <2>1 DEF NoReservation, NoMatch, MatchId
    <3> QED  BY <3>1, StageIs
  <2> QED  BY <2>2 DEF Lifecycle!Init
<1>2. ControlInv /\ [SystemNext]_vars => [Lifecycle!Next]_Lifecycle!vars
  BY ControlInvIs, LifecycleStep
<1> QED  BY <1>1, <1>2, ControlInvHolds, PTL DEF SystemSpec, LifecycleSafe, Lifecycle!SafeSpec
=============================================================================
