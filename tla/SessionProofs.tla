---------------------------- MODULE SessionProofs ----------------------------
(***************************************************************************)
(* The client's game session (ClientSession): whichever of its two threads *)
(* ends it, the other does not bring it back; and what the game thread     *)
(* shows of an actor is one stay, though the queue overflows.  Proved for  *)
(* any capacity of the queue and the buffer (of three or more) and of the  *)
(* history, any number of snapshots and of inputs.                         *)
(* Then the framed connection under it (FramedConnection), which           *)
(* implements FrameStream for every set of frames, whatever their sizes,   *)
(* the limit and the number of frames sent.                                *)
(***************************************************************************)
EXTENDS ClientSession, ClientTransport, SequenceTheorems, WellFoundedInduction, TLAPS

-----------------------------------------------------------------------------
(* The invariant: what each thread may rely on while the other runs. *)

\* A handler that is about to store one of these moves the session on.
Progress == {"Authenticating", "BindingUdp", "Synchronizing"}
Early == {"Idle", "Connecting", "Authenticating", "BindingUdp"}

\* What may be posted to a session that connected, before Stop posts its own.
Ordinary == [run : {"closed", "close"}] \cup [run : {"input"}, sequence : Nat]
Untold == Ordinary \cup {Handler("resolve")}

\* No snapshot has come, and no datagram can.
Nothing == queue = <<>> /\ batch = <<>> /\ ~predictor.live
NoDatagrams == ~receiving /\ udp \notin {"resolving", "open"}

SessionTypes ==
    /\ state \in States /\ about \in Progress \cup Ended \cup {None}
    /\ stopRequested \in BOOLEAN /\ receiving \in BOOLEAN
    /\ game \in {"frame", "applying", "advancing", "failing", "stopping", "waiting"}
    /\ predictor = [live |-> predictor.live, issued |-> predictor.issued,
                    acked |-> predictor.acked]
    /\ predictor.live \in BOOLEAN /\ predictor.issued \in Nat

\* Until somebody stops it a session starts once, one thing after the other.
Starts ==
    /\ state = "Idle" =>
          /\ posted = <<>> /\ tcp = None /\ about = None
          /\ ~stopRequested /\ game = "frame"
    /\ ~stopRequested =>
        IF state = "Connecting"
          THEN \/ posted = <<Handler("resolve")>> /\ tcp = None /\ about = None
               \/ posted = <<>> /\ tcp \in {"resolving", "connecting"} /\ about = None
               \/ posted = <<>> /\ tcp = None /\ about = "Closed"
               \/ posted = <<>> /\ tcp = "open" /\ about = "Authenticating"
          ELSE posted \in Seq(Ordinary) /\ tcp \notin {"resolving", "connecting"}

\* The session is moved on only from where it has not begun to play: the game
\* thread has then nothing to end it for.
Advances ==
    /\ about \in Progress /\ ~stopRequested => state \in Early \ {"Idle"}
    /\ state \in Early \/ about \in Progress => Nothing

\* The socket is opened once the session binds it, and read again only when the
\* handler of the bind's answer has stored Synchronizing.
Hears ==
    /\ state \in {"Idle", "Connecting", "Authenticating"}
         \/ about \in {"Authenticating", "BindingUdp"} => NoDatagrams
    /\ about = "Synchronizing" => ~receiving

\* Where the game thread is.
Frame ==
    /\ game \in {"advancing", "failing"} => predictor.live
    /\ batch # <<>> => game = "applying"
    /\ game \in {"stopping", "waiting"} => stopRequested
    /\ game = "stopping" => posted \in Seq(Untold)

\* A late handler may store what it decided before the stop: the session then
\* looks alive, but has no snapshot and hears none.
Stopped ==
    stopRequested =>
        /\ batch = <<>>
        /\ game # "stopping" /\ state \notin Ended =>
             /\ state # "Running" /\ Nothing
             /\ state = "Synchronizing" => ~receiving

SessionInv == SessionTypes /\ Starts /\ Advances /\ Hears /\ Frame /\ Stopped

\* What EndedIsFinal says of a step, and what is shown of each.
StaysEnded ==
    /\ ~stopRequested /\ state \in Ended => state' \in Ended
    /\ stopRequested /\ state # "Running" => state' # "Running"

Keeps == SessionInv' /\ StaysEnded

-----------------------------------------------------------------------------
LEMMA PostedSequences ==
    ASSUME NEW S, NEW p \in Seq(S)
    PROVE  /\ p # <<>> => Tail(p) \in Seq(S) /\ Head(p) \in S
           /\ \A x \in S : Append(p, x) \in Seq(S)
BY HeadTailProperties, AppendProperties

LEMMA LargerSequences ==
    ASSUME NEW S, NEW T, S \subseteq T, NEW p \in Seq(S)
    PROVE  p \in Seq(T)
OBVIOUS

LEMMA ShortSequences ==
    ASSUME NEW S, NEW x \in S
    PROVE  <<>> \in Seq(S) /\ <<x>> \in Seq(S)
OBVIOUS

USE DEF Ended, States, None, Early, Progress, Ordinary, Untold, Handler, Nothing,
        NoDatagrams, gameVars, netVars, shared, vars, Idle, TimerCancelled

LEMMA InitInv == Init => SessionInv
<1> SUFFICES ASSUME Init PROVE SessionInv  OBVIOUS
<1>1. posted \in Seq(Ordinary)  BY DEF Init
<1>2. SessionTypes  BY DEF Init, SessionTypes
<1>3. Starts  BY <1>1 DEF Init, Starts
<1>4. Advances /\ Hears /\ Frame /\ Stopped
  BY DEF Init, Advances, Hears, Frame, Stopped
<1> QED  BY <1>2, <1>3, <1>4 DEF SessionInv

-----------------------------------------------------------------------------
(* The network thread stores what it decided. *)

LEMMA StoreKeeps ==
    ASSUME SessionInv, Store
    PROVE  Keeps
<1> SUFFICES ASSUME SessionTypes, Starts, Advances, Hears, Frame, Stopped
             PROVE  Keeps
  BY DEF SessionInv
<1>1. Starts'
  <2>1. ~stopRequested' => about # None /\ state' = about /\ ~stopRequested
    BY DEF Store, CloseNetwork
  <2>2. ~stopRequested => posted \in Seq(Ordinary)
    <3>1. <<>> \in Seq(Ordinary)  OBVIOUS
    <3> QED  BY <3>1 DEF Starts, Store
  <2>3. ~stopRequested => posted' \in Seq(Ordinary)
    <3>1. posted' \in {posted, Append(posted, Handler("closed"))}
      BY DEF Store, CloseNetwork
    <3>2. Handler("closed") \in Ordinary  OBVIOUS
    <3> QED  BY <2>2, <3>1, <3>2, PostedSequences
  <2>4. ~stopRequested => tcp' \notin {"resolving", "connecting"}
    BY DEF Starts, Store, CloseNetwork
  <2>5. about \notin {"Idle", "Connecting"}  BY DEF SessionTypes
  <2> QED  BY <2>1, <2>3, <2>4, <2>5 DEF Store, Starts
<1>2. Frame'  BY PostedSequences DEF Store, CloseNetwork, ReceivesAgain, Frame
<1>3. Stopped'
  BY DEF Store, CloseNetwork, ReceivesAgain, SessionTypes, Advances, Stopped
<1>4. StaysEnded
  BY DEF Store, CloseNetwork, ReceivesAgain, SessionTypes, Advances, StaysEnded
<1>5. (SessionTypes /\ Advances /\ Hears)'
  BY DEF Store, CloseNetwork, ReceivesAgain, SessionTypes, Advances, Hears
<1> QED  BY <1>1, <1>2, <1>3, <1>4, <1>5 DEF SessionInv, Keeps

-----------------------------------------------------------------------------
(* The network thread: the connection. *)

LEMMA HandleResolveKeeps ==
    ASSUME SessionInv, HandleResolve
    PROVE  Keeps
<1> SUFFICES ASSUME SessionTypes, Starts, Advances, Hears, Frame, Stopped
             PROVE  Keeps
  BY DEF SessionInv
<1>1. Starts'  BY PostedSequences DEF HandleResolve, Starts
<1>2. Frame'  BY PostedSequences DEF HandleResolve, Frame
<1>3. (SessionTypes /\ Advances /\ Hears /\ Stopped)' /\ StaysEnded
  BY DEF HandleResolve, SessionTypes, Advances, Hears, Stopped, StaysEnded
<1> QED  BY <1>1, <1>2, <1>3 DEF SessionInv, Keeps

LEMMA HandleClosedKeeps ==
    ASSUME SessionInv, HandleClosed
    PROVE  Keeps
<1> SUFFICES ASSUME SessionTypes, Starts, Advances, Hears, Frame, Stopped
             PROVE  Keeps
  BY DEF SessionInv
<1>1. Starts'  BY PostedSequences DEF HandleClosed, Starts
<1>2. Frame'  BY PostedSequences DEF HandleClosed, Frame
<1>3. (SessionTypes /\ Advances /\ Hears /\ Stopped)' /\ StaysEnded
  BY DEF HandleClosed, SessionTypes, Advances, Hears, Stopped, StaysEnded
<1> QED  BY <1>1, <1>2, <1>3 DEF SessionInv, Keeps

LEMMA HandleCloseKeeps ==
    ASSUME SessionInv, HandleClose
    PROVE  Keeps
<1> SUFFICES ASSUME SessionTypes, Starts, Advances, Hears, Frame, Stopped
             PROVE  Keeps
  BY DEF SessionInv
<1>1. Starts'  BY PostedSequences DEF HandleClose, CloseNetwork, Starts
<1>2. Frame'
  BY PostedSequences DEF HandleClose, CloseNetwork, SessionTypes, Starts, Frame,
                         Stopped
<1>3. Stopped'  BY DEF HandleClose, CloseNetwork, SessionTypes, Frame, Stopped
<1>4. (SessionTypes /\ Advances /\ Hears)' /\ StaysEnded
  BY DEF HandleClose, CloseNetwork, SessionTypes, Advances, Hears, StaysEnded
<1> QED  BY <1>1, <1>2, <1>3, <1>4 DEF SessionInv, Keeps

LEMMA HandleInputKeeps ==
    ASSUME SessionInv, NEW outcome, HandleInput(outcome)
    PROVE  Keeps
<1> SUFFICES ASSUME SessionTypes, Starts, Advances, Hears, Frame, Stopped
             PROVE  Keeps
  BY DEF SessionInv
<1>1. Starts'  BY PostedSequences DEF HandleInput, Starts
<1>2. Frame'  BY PostedSequences DEF HandleInput, Frame
<1>3. (SessionTypes /\ Advances /\ Hears /\ Stopped)' /\ StaysEnded
  BY DEF HandleInput, SessionTypes, Advances, Hears, Stopped, StaysEnded
<1> QED  BY <1>1, <1>2, <1>3 DEF SessionInv, Keeps

LEMMA TcpResolvedKeeps ==
    ASSUME SessionInv, NEW ok, TcpResolved(ok)
    PROVE  Keeps
BY DEF TcpResolved, SessionTypes, Starts, Advances, Hears, Frame, Stopped,
       StaysEnded, SessionInv, Keeps

LEMMA TcpConnectedKeeps ==
    ASSUME SessionInv, NEW ok, TcpConnected(ok)
    PROVE  Keeps
<1> SUFFICES ASSUME SessionTypes, Starts, Advances, Hears, Frame, Stopped
             PROVE  Keeps
  BY DEF SessionInv
<1>1. Advances'  BY DEF TcpConnected, SessionTypes, Starts, Advances
<1>2. Hears'  BY DEF TcpConnected, SessionTypes, Starts, Hears
<1>3. (SessionTypes /\ Starts /\ Frame /\ Stopped)' /\ StaysEnded
  BY DEF TcpConnected, SessionTypes, Starts, Frame, Stopped, StaysEnded
<1> QED  BY <1>1, <1>2, <1>3 DEF SessionInv, Keeps

LEMMA UdpResolvedKeeps ==
    ASSUME SessionInv, NEW ok, UdpResolved(ok)
    PROVE  Keeps
<1> SUFFICES ASSUME SessionTypes, Starts, Advances, Hears, Frame, Stopped
             PROVE  Keeps
  BY DEF SessionInv
<1>1. Starts'  BY DEF UdpResolved, SendBind, Binds, SessionTypes, Starts, Hears
<1>2. (SessionTypes /\ Advances /\ Hears /\ Frame /\ Stopped)' /\ StaysEnded
  BY DEF UdpResolved, SendBind, Binds, SessionTypes, Advances, Hears, Frame,
         Stopped, StaysEnded
<1> QED  BY <1>1, <1>2 DEF SessionInv, Keeps

-----------------------------------------------------------------------------
(* The network thread: frames, datagrams and the timer. *)

LEMMA HandleWelcomeKeeps ==
    ASSUME SessionInv, HandleWelcome
    PROVE  Keeps
BY DEF HandleWelcome, SessionTypes, Starts, Advances, Hears, Frame, Stopped,
       StaysEnded, SessionInv, Keeps

LEMMA HandleErrorKeeps ==
    ASSUME SessionInv, HandleError
    PROVE  Keeps
BY DEF HandleError, SessionTypes, Starts, Advances, Hears, Frame, Stopped,
       StaysEnded, SessionInv, Keeps

LEMMA HandleResultKeeps ==
    ASSUME SessionInv, HandleResult
    PROVE  Keeps
BY DEF HandleResult, SessionTypes, Starts, Advances, Hears, Frame, Stopped,
       StaysEnded, SessionInv, Keeps

LEMMA ReadEofKeeps ==
    ASSUME SessionInv, ReadEof
    PROVE  Keeps
<1> SUFFICES ASSUME SessionTypes, Starts, Advances, Hears, Frame, Stopped
             PROVE  Keeps
  BY DEF SessionInv
<1>1. Starts'  BY PostedSequences DEF ReadEof, Starts
<1>2. Frame'  BY PostedSequences DEF ReadEof, Frame
<1>3. (SessionTypes /\ Advances /\ Hears /\ Stopped)' /\ StaysEnded
  BY DEF ReadEof, SessionTypes, Advances, Hears, Stopped, StaysEnded
<1> QED  BY <1>1, <1>2, <1>3 DEF SessionInv, Keeps

LEMMA BindTimerFiresKeeps ==
    ASSUME SessionInv, BindTimerFires
    PROVE  Keeps
BY DEF BindTimerFires, SendBind, Binds, SessionTypes, Starts, Advances, Hears,
       Frame, Stopped, StaysEnded, SessionInv, Keeps

LEMMA ReceiveBindAcceptedKeeps ==
    ASSUME SessionInv, ReceiveBindAccepted
    PROVE  Keeps
BY DEF ReceiveBindAccepted, ReceivesAgain, SessionTypes, Starts, Advances,
       Hears, Frame, Stopped, StaysEnded, SessionInv, Keeps

LEMMA ReceiveSnapshotKeeps ==
    ASSUME SessionInv, NEW id, NEW ack, NEW present, NEW reset,
           ReceiveSnapshot(id, ack, present, reset)
    PROVE  Keeps
BY DEF ReceiveSnapshot, ReceivesAgain, Enqueue, SessionTypes, Starts,
       Advances, Hears, Frame, Stopped, StaysEnded, SessionInv, Keeps

-----------------------------------------------------------------------------
(* The server: nothing the session decides on. *)

ServerStep ==
    UNCHANGED <<gameVars, shared, posted, about, tcp, udp, receiving, bindTimer,
                stream, serverInput>>

LEMMA ServerStepKeeps ==
    ASSUME SessionInv, ServerStep
    PROVE  Keeps
BY DEF ServerStep, SessionTypes, Starts, Advances, Hears, Frame, Stopped,
       StaysEnded, SessionInv, Keeps

-----------------------------------------------------------------------------
(* The game thread. *)

LEMMA StartKeeps ==
    ASSUME SessionInv, Start
    PROVE  Keeps
<1> SUFFICES ASSUME SessionTypes, Starts, Advances, Hears, Frame, Stopped
             PROVE  Keeps
  BY DEF SessionInv
<1>1. Starts'  BY PostedSequences DEF Start, Starts
<1>2. Frame'  BY PostedSequences DEF Start, Frame
<1>3. (SessionTypes /\ Advances /\ Hears /\ Stopped)' /\ StaysEnded
  BY DEF Start, SessionTypes, Advances, Hears, Stopped, StaysEnded
<1> QED  BY <1>1, <1>2, <1>3 DEF SessionInv, Keeps

LEMMA FixedUpdateKeeps ==
    ASSUME SessionInv, FixedUpdate
    PROVE  Keeps
BY DEF FixedUpdate, SessionTypes, Starts, Advances, Hears, Frame, Stopped,
       StaysEnded, SessionInv, Keeps

LEMMA ApplyBatchKeeps ==
    ASSUME SessionInv, ApplyBatch
    PROVE  Keeps
<1> SUFFICES ASSUME SessionTypes, Starts, Advances, Hears, Frame, Stopped
             PROVE  Keeps
  BY DEF SessionInv
<1>1. SessionTypes'
  <2>1. \E acked : predictor' = [live |-> predictor'.live, issued |-> predictor.issued,
                                acked |-> acked]
    BY DEF ApplyBatch, SessionTypes
  <2>2. predictor'.live \in BOOLEAN
    BY DEF ApplyBatch, SessionTypes
  <2> QED  BY <2>1, <2>2 DEF ApplyBatch, MayRun, SessionTypes
<1>2. StaysEnded  BY DEF ApplyBatch, MayRun, SessionTypes, Stopped, StaysEnded
<1>3. (Starts /\ Advances /\ Hears /\ Frame /\ Stopped)'
  BY DEF ApplyBatch, MayRun, SessionTypes, Starts, Advances, Hears, Frame,
         Stopped
<1> QED  BY <1>1, <1>2, <1>3 DEF SessionInv, Keeps

LEMMA AdvanceTickKeeps ==
    ASSUME SessionInv, AdvanceTick
    PROVE  Keeps
<1> SUFFICES ASSUME SessionTypes, Starts, Advances, Hears, Frame, Stopped
             PROVE  Keeps
  BY DEF SessionInv
<1>1. Starts'
  BY PostedSequences DEF AdvanceTick, InputHandler, SessionTypes, Starts,
                         Advances, Frame
<1>2. Frame'  BY PostedSequences DEF AdvanceTick, InputHandler, Frame
<1>3. (SessionTypes /\ Advances /\ Hears /\ Stopped)' /\ StaysEnded
  BY DEF AdvanceTick, InputHandler, SessionTypes, Advances, Hears, Stopped,
         StaysEnded
<1> QED  BY <1>1, <1>2, <1>3 DEF SessionInv, Keeps

LEMMA FailFromCallerKeeps ==
    ASSUME SessionInv, FailFromCaller
    PROVE  Keeps
<1> SUFFICES ASSUME SessionTypes, Starts, Advances, Hears, Frame, Stopped
             PROVE  Keeps
  BY DEF SessionInv
<1>1. Starts'
  BY PostedSequences DEF FailFromCaller, SessionTypes, Starts, Advances, Frame
<1>2. Advances'  BY DEF FailFromCaller, SessionTypes, Advances, Frame
<1>3. Frame'  BY PostedSequences DEF FailFromCaller, Frame
<1>4. (SessionTypes /\ Hears /\ Stopped)' /\ StaysEnded
  BY DEF FailFromCaller, SessionTypes, Hears, Stopped, StaysEnded
<1> QED  BY <1>1, <1>2, <1>3, <1>4 DEF SessionInv, Keeps

LEMMA RequestStopKeeps ==
    ASSUME SessionInv, RequestStop
    PROVE  Keeps
<1> SUFFICES ASSUME SessionTypes, Starts, Advances, Hears, Frame, Stopped
             PROVE  Keeps
  BY DEF SessionInv
<1>1. Starts'  BY PostedSequences DEF RequestStop, Starts
<1>2. Frame'
  <2>1. posted \in Seq(Untold)
    <3>1. CASE posted \in Seq(Ordinary)  BY <3>1, LargerSequences
    <3>2. CASE posted = <<Handler("resolve")>> \/ posted = <<>>
      <4>1. Handler("resolve") \in Untold  OBVIOUS
      <4> HIDE DEF Handler, Untold
      <4> QED  BY <3>2, <4>1, ShortSequences
    <3> QED  BY <3>1, <3>2 DEF RequestStop, Starts
  <2> QED  BY <2>1 DEF RequestStop, Frame
<1>3. Stopped'  BY DEF RequestStop, SessionTypes, Frame, Stopped
<1>4. (SessionTypes /\ Advances /\ Hears)' /\ StaysEnded
  BY DEF RequestStop, SessionTypes, Advances, Hears, StaysEnded
<1> QED  BY <1>1, <1>2, <1>3, <1>4 DEF SessionInv, Keeps

LEMMA StoreClosedKeeps ==
    ASSUME SessionInv, StoreClosed
    PROVE  Keeps
<1> SUFFICES ASSUME SessionTypes, Starts, Advances, Hears, Frame, Stopped
             PROVE  Keeps
  BY DEF SessionInv
<1>1. Starts'  BY PostedSequences DEF StoreClosed, SessionTypes, Starts, Frame
<1>2. Advances'  BY DEF StoreClosed, SessionTypes, Advances, Frame
<1>3. Frame'  BY PostedSequences DEF StoreClosed, Frame
<1>4. (SessionTypes /\ Hears /\ Stopped)' /\ StaysEnded
  BY DEF StoreClosed, SessionTypes, Hears, Stopped, StaysEnded
<1> QED  BY <1>1, <1>2, <1>3, <1>4 DEF SessionInv, Keeps

-----------------------------------------------------------------------------
(* The session. *)

LEMMA SessionSteps ==
    ASSUME SessionInv, [Next]_vars
    PROVE  Keeps
<1>1. CASE NetworkThread
  <2>1. CASE HandlePosted
    BY <2>1, HandleResolveKeeps, HandleClosedKeeps, HandleCloseKeeps, HandleInputKeeps
       DEF HandlePosted
  <2>2. CASE Resolves
    BY <2>2, TcpResolvedKeeps, TcpConnectedKeeps, UdpResolvedKeeps DEF Resolves
  <2>3. CASE HandleTcpFrame
    BY <2>3, HandleWelcomeKeeps, HandleErrorKeeps, HandleResultKeeps, ReadEofKeeps
       DEF HandleTcpFrame
  <2>4. CASE ReceiveUdp
    BY <2>4, ReceiveBindAcceptedKeeps, ReceiveSnapshotKeeps DEF ReceiveUdp
  <2> QED
    BY <1>1, <2>1, <2>2, <2>3, <2>4, StoreKeeps, BindTimerFiresKeeps DEF NetworkThread
<1>2. CASE Server
  <2>1. ServerStep
    BY <1>2 DEF Server, ServerSends, ServerWelcomes, ServerRefuses, ServerEnds,
                ServerIsLost, ServerBinds, LoseBind, ServerStep
  <2> QED  BY <2>1, ServerStepKeeps
<1>3. CASE GameThread
  BY <1>3, StartKeeps, FixedUpdateKeeps, ApplyBatchKeeps, AdvanceTickKeeps,
     FailFromCallerKeeps, RequestStopKeeps, StoreClosedKeeps DEF GameThread
<1>4. CASE UNCHANGED vars
  <2>1. ServerStep  BY <1>4 DEF ServerStep
  <2> QED  BY <2>1, ServerStepKeeps
<1> QED  BY <1>1, <1>2, <1>3, <1>4 DEF Next

\* Whatever the two threads are in the middle of, the session is where the other
\* one may find it (GameSession.cpp: every store of state that follows a check).
THEOREM SessionInvHolds == Spec => []SessionInv
<1>1. SessionInv /\ [Next]_vars => SessionInv'  BY SessionSteps DEF Keeps
<1> QED  BY <1>1, InitInv, PTL DEF Spec

\* A session that has ended is not brought back, neither by the exchange of the
\* first snapshot (GameSession.cpp:632) nor by a handler that was about to store
\* (GameSession.cpp:737), and after a Stop no snapshot makes it Running.
THEOREM EndedStaysFinal == Spec => EndedIsFinal
<1>1. SessionInv /\ [Next]_vars => StaysEnded  BY SessionSteps DEF Keeps
<1> QED  BY <1>1, SessionInvHolds, PTL DEF Spec, EndedIsFinal, StaysEnded

-----------------------------------------------------------------------------
(* What the game thread shows (SceneIsCurrent).  FoldLeft presents a batch;   *)
(* the library's induction takes an operator, so what it computes is shown by *)
(* the least number of elements for which it would not be so.                 *)

LEMMA LeastNatural ==
    ASSUME NEW T, T \subseteq Nat, T # {}
    PROVE  \E x \in T : \A y \in T : x <= y
<1> DEFINE R == OpToRel(<, Nat)
<1>1. PICK x \in T : \A y \in T : ~ (<<y, x>> \in R)
  <2> HIDE DEF R
  <2> IsWellFoundedOn(R, Nat)  BY NatLessThanWellFounded DEF R
  <2> QED  BY WFMin
<1>2. ASSUME NEW y \in T PROVE x <= y
  <2>1. ~ (y < x)  BY <1>1 DEF OpToRel
  <2> QED  BY <2>1
<1> QED  BY <1>2

\* A recursion along a sequence has a solution: f[1..k] is what folding makes of
\* the first k elements.
Folds(f, g, base, s, n) ==
    \A S \in SUBSET (1 .. n) :
        f[S] = IF S = {} THEN base ELSE g[f[S \ {Max(S)}]][s[Max(S)]]

LEMMA MaxIn ==
    ASSUME NEW n \in Nat, NEW S \in SUBSET (1 .. n), S # {}
    PROVE  Max(S) \in S /\ \A y \in S : Max(S) >= y
<1> DEFINE T == {i \in Nat : \A y \in S : i >= y}
<1>1. n \in T  OBVIOUS
<1>2. PICK m \in T : \A y \in T : m <= y  BY <1>1, LeastNatural
<1>3. m \in S
  <2> SUFFICES ASSUME m \notin S PROVE FALSE  OBVIOUS
  <2>1. PICK y \in S : TRUE  OBVIOUS
  <2>2. m >= y /\ m # y /\ y >= 1  BY <2>1, <1>2
  <2>3. m - 1 \in T  BY <2>2, <1>2
  <2> QED  BY <2>3, <1>2
<1> QED  BY <1>2, <1>3 DEF Max

LEMMA FoldExists ==
    ASSUME NEW T, NEW V, NEW g \in [T -> [V -> T]], NEW base \in T,
           NEW n \in Nat, NEW s \in [1 .. n -> V]
    PROVE  \E f \in [SUBSET (1 .. n) -> T] : Folds(f, g, base, s, n)
<1> DEFINE Good(k) == \E f \in [SUBSET (1 .. k) -> T] : Folds(f, g, base, s, k)
           Bad == {k \in 0 .. n : ~Good(k)}
<1>1. Good(0)
  <2> DEFINE f == [S \in SUBSET (1 .. 0) |-> base]
  <2>1. \A S \in SUBSET (1 .. 0) : S = {}  OBVIOUS
  <2>2. Folds(f, g, base, s, 0)  BY <2>1 DEF Folds
  <2> QED  BY <2>2
<1>2. ASSUME NEW k \in 0 .. n, k + 1 <= n, Good(k)
      PROVE  Good(k + 1)
  <2>1. PICK f \in [SUBSET (1 .. k) -> T] : Folds(f, g, base, s, k)  BY <1>2
  <2> DEFINE h == [S \in SUBSET (1 .. k + 1) |->
                      IF k + 1 \in S THEN g[f[S \ {k + 1}]][s[k + 1]] ELSE f[S]]
  <2>2. \A S \in SUBSET (1 .. k + 1) : S \ {k + 1} \in SUBSET (1 .. k)
    OBVIOUS
  <2>3. s[k + 1] \in V  BY <1>2
  <2>4. \A S \in SUBSET (1 .. k + 1) : h[S] \in T
    <3> SUFFICES ASSUME NEW S \in SUBSET (1 .. k + 1) PROVE h[S] \in T  OBVIOUS
    <3>1. CASE k + 1 \in S
      <4>1. f[S \ {k + 1}] \in T  BY <2>2
      <4>2. g[f[S \ {k + 1}]][s[k + 1]] \in T
        <5> DEFINE a == f[S \ {k + 1}]  b == s[k + 1]
        <5>1. a \in T /\ b \in V  BY <4>1, <2>3
        <5> HIDE DEF a, b
        <5>2. g[a][b] \in T  BY <5>1
        <5> QED  BY <5>2 DEF a, b
      <4> QED  BY <3>1, <4>2
    <3>2. CASE k + 1 \notin S
      <4>1. \A x \in S : x \in 1 .. k  BY <3>2
      <4> QED  BY <3>2, <4>1
    <3> QED  BY <3>1, <3>2
  <2>5. ASSUME NEW S \in SUBSET (1 .. k + 1)
        PROVE  h[S] = IF S = {} THEN base ELSE g[h[S \ {Max(S)}]][s[Max(S)]]
    <3>1. CASE S = {}  BY <3>1, <2>1 DEF Folds
    <3>2. CASE k + 1 \in S
      <4>1. Max(S) = k + 1
        <5>1. Max(S) \in S /\ Max(S) >= k + 1  BY <3>2, MaxIn, k + 1 \in Nat
        <5>2. Max(S) \in 1 .. k + 1  BY <5>1
        <5> QED  BY <5>1, <5>2
      <4>2. h[S \ {k + 1}] = f[S \ {k + 1}]
        <5>1. S \ {k + 1} \in SUBSET (1 .. k + 1) /\ k + 1 \notin S \ {k + 1}  OBVIOUS
        <5> QED  BY <5>1
      <4> QED  BY <3>2, <4>1, <4>2
    <3>3. CASE S # {} /\ k + 1 \notin S
      <4>1. S \in SUBSET (1 .. k)  BY <3>3, <2>2
      <4>3. S \ {Max(S)} \in SUBSET (1 .. k + 1) /\ k + 1 \notin S \ {Max(S)}  BY <3>3
      <4>4. h[S] = f[S] /\ h[S \ {Max(S)}] = f[S \ {Max(S)}]  BY <3>3, <4>3
      <4> QED  BY <2>1, <3>3, <4>1, <4>4 DEF Folds
    <3> QED  BY <3>1, <3>2, <3>3
  <2>6. h \in [SUBSET (1 .. k + 1) -> T]  BY <2>4
  <2>7. Folds(h, g, base, s, k + 1)  BY <2>5 DEF Folds
  <2> QED  BY <2>6, <2>7
<1> HIDE DEF Good
<1>3. Bad = {}
  <2> SUFFICES ASSUME Bad # {} PROVE FALSE  OBVIOUS
  <2> DEFINE B == Bad
  <2>0. B \subseteq Nat /\ B # {}  OBVIOUS
  <2>1. PICK k \in B : \A y \in B : k <= y
    <3> HIDE DEF B
    <3> QED  BY <2>0, LeastNatural
  <2>2. k # 0  BY <1>1, <2>1
  <2>3. k - 1 \in 0 .. n /\ k - 1 \notin Bad /\ (k - 1) + 1 = k /\ k <= n
    BY <2>1, <2>2
  <2>4. Good(k - 1)  BY <2>3
  <2>5. Good(k)  BY <1>2, <2>3, <2>4
  <2> QED  BY <2>1, <2>5
<1>4. Good(n)
  <2> n \in 0 .. n  OBVIOUS
  <2> QED  BY <1>3
<1> QED  BY <1>4 DEF Good

Unfolds(e, g, base, s, n, T) ==
    /\ e[{}] = base
    /\ \A S \in SUBSET (1 .. n) : S # {} /\ e[S \ {Max(S)}] \in T =>
           e[S] = g[e[S \ {Max(S)}]][s[Max(S)]]

Chain(r, g, base, s, n, last) ==
    /\ r[0] = base /\ r[n] = last
    /\ \A i \in 1 .. n : r[i] = g[r[i - 1]][s[i]]

\* And what every solution is on the first elements, one after the other.
LEMMA FoldChain ==
    ASSUME NEW T, NEW V, NEW g \in [T -> [V -> T]], NEW base \in T,
           NEW n \in Nat, NEW s \in [1 .. n -> V], NEW e, Unfolds(e, g, base, s, n, T)
    PROVE  \E r \in [0 .. n -> T] : Chain(r, g, base, s, n, e[1 .. n])
<1> DEFINE Bad == {k \in 0 .. n : e[1 .. k] \notin T}
           r == [k \in 0 .. n |-> e[1 .. k]]
<1>1. 1 .. 0 = {} /\ e[1 .. 0] = base
  <2> 1 .. 0 = {}  OBVIOUS
  <2> QED  BY DEF Unfolds
<1>2. ASSUME NEW i \in 1 .. n, e[1 .. i - 1] \in T
      PROVE  e[1 .. i] = g[e[1 .. i - 1]][s[i]] /\ e[1 .. i] \in T
  <2> DEFINE S == 1 .. i
  <2>1. \A x \in S : x \in 1 .. n  OBVIOUS
  <2>2. i \in S /\ S \in SUBSET (1 .. n) /\ S # {}
    <3>1. i \in S  OBVIOUS
    <3> HIDE DEF S
    <3> QED  BY <2>1, <3>1
  <2>3. Max(S) = i
    <3>1. Max(S) \in S /\ Max(S) >= i  BY <2>2, MaxIn
    <3> QED  BY <3>1
  <2>4. S \ {i} = 1 .. i - 1  OBVIOUS
  <2> HIDE DEF S
  <2>5. e[S] = g[e[1 .. i - 1]][s[i]]  BY <1>2, <2>2, <2>3, <2>4 DEF Unfolds
  <2>6. s[i] \in V  OBVIOUS
  <2>7. g[e[1 .. i - 1]][s[i]] \in T
    <3> DEFINE a == e[1 .. i - 1]  b == s[i]
    <3>1. a \in T /\ b \in V  BY <1>2, <2>6
    <3> HIDE DEF a, b
    <3>2. g[a][b] \in T  BY <3>1
    <3> QED  BY <3>2 DEF a, b
  <2> QED  BY <2>5, <2>7 DEF S
<1>3. Bad = {}
  <2> SUFFICES ASSUME Bad # {} PROVE FALSE  OBVIOUS
  <2> DEFINE B == Bad
  <2>1. B \subseteq Nat /\ B # {}  OBVIOUS
  <2>2. PICK k \in B : \A y \in B : k <= y
    <3> HIDE DEF B
    <3> QED  BY <2>1, LeastNatural
  <2>3. k # 0  BY <1>1
  <2>4. k \in 1 .. n /\ k - 1 \in 0 .. n /\ k - 1 \notin B  BY <2>2, <2>3
  <2>5. e[1 .. k - 1] \in T  BY <2>4
  <2> QED  BY <1>2, <2>4, <2>5
<1>4. r \in [0 .. n -> T]  BY <1>3
<1>5. r[0] = base /\ r[n] = e[1 .. n]
  <2>1. 0 \in 0 .. n /\ n \in 0 .. n  OBVIOUS
  <2> QED  BY <1>1, <2>1
<1>6. ASSUME NEW i \in 1 .. n PROVE r[i] = g[r[i - 1]][s[i]]
  <2>1. i \in 0 .. n /\ i - 1 \in 0 .. n  OBVIOUS
  <2>2. i - 1 \notin Bad  BY <1>3
  <2>3. e[1 .. i - 1] \in T  BY <2>1, <2>2
  <2> QED  BY <1>2, <2>1, <2>3
<1> HIDE DEF r
<1> QED  BY <1>4, <1>5, <1>6 DEF Chain

\* What FoldLeft computes, for an operator that has a graph g.
Presents(r, kept, s) ==
    /\ r[0] = kept /\ r[Len(s)] = FoldLeft(Present, kept, s)
    /\ \A i \in 1 .. Len(s) : r[i] = Present(r[i - 1], s[i])

LEMMA PresentFolds ==
    ASSUME NEW T, NEW V, NEW base \in T, NEW s \in Seq(V),
           \A x \in T, v \in V : Present(x, v) \in T
    PROVE  \E r \in [0 .. Len(s) -> T] : Presents(r, base, s)
<1> DEFINE n == Len(s)
           D == SUBSET (1 .. n)
           g == [t \in T |-> [v \in V |-> Present(t, v)]]
           Solves(f) == f = [S \in D |-> IF S = {} THEN base
                                ELSE Present(f[S \ {Max(S)}], s[Max(S)])]
<1>1. n \in Nat /\ s \in [1 .. n -> V] /\ DOMAIN s = 1 .. n  OBVIOUS
<1>2. g \in [T -> [V -> T]]  OBVIOUS
<1>3. PICK f \in [D -> T] : Folds(f, g, base, s, n)
  <2> HIDE DEF g
  <2> QED  BY <1>1, <1>2, FoldExists
<1>4. ASSUME NEW S \in D, S # {} PROVE Max(S) \in S /\ s[Max(S)] \in V
  BY <1>1, <1>4, MaxIn
<1>5. Solves(f)
  <2>1. ASSUME NEW S \in D
        PROVE  f[S] = IF S = {} THEN base ELSE Present(f[S \ {Max(S)}], s[Max(S)])
    <3>1. S # {} => f[S \ {Max(S)}] \in T /\ s[Max(S)] \in V  BY <1>1, <1>4
    <3> QED  BY <1>3, <3>1 DEF Folds
  <2> QED  BY <2>1
<1> DEFINE e == CHOOSE h : Solves(h)
<1>6. Solves(e)  BY <1>5
<1>7. FoldLeft(Present, base, s) = e[1 .. n]
  BY <1>1 DEF FoldLeft, MapThenFoldSet
<1>8. e[{}] = base /\ \A S \in D : S # {} => e[S] = Present(e[S \ {Max(S)}], s[Max(S)])
  <2> HIDE DEF e
  <2> QED  BY <1>6
<1>9. PICK r \in [0 .. n -> T] : Chain(r, g, base, s, n, e[1 .. n])
  <2>1. ASSUME NEW S \in D, S # {}, e[S \ {Max(S)}] \in T
        PROVE  e[S] = g[e[S \ {Max(S)}]][s[Max(S)]]
    <3> HIDE DEF e
    <3> QED  BY <1>4, <1>8, <2>1
  <2>2. e[{}] = base  BY <1>8
  <2>3. \A S \in SUBSET (1 .. n) : S # {} /\ e[S \ {Max(S)}] \in T =>
            e[S] = g[e[S \ {Max(S)}]][s[Max(S)]]
    <3> HIDE DEF g, e
    <3> QED  BY <2>1
  <2> HIDE DEF g, e, n
  <2>4. Unfolds(e, g, base, s, n, T)  BY <2>2, <2>3 DEF Unfolds
  <2> QED  BY <1>1, <1>2, <2>4, FoldChain
<1>10. \A i \in 1 .. n : r[i] = Present(r[i - 1], s[i])
  <2>1. ASSUME NEW i \in 1 .. n PROVE r[i - 1] \in T /\ s[i] \in V  BY <1>1
  <2> QED  BY <1>9, <2>1 DEF Chain
<1> HIDE DEF e, g
<1> QED  BY <1>7, <1>9, <1>10 DEF Chain, Presents

-----------------------------------------------------------------------------
(* The snapshots on their way to the screen. *)

Kept == [id : Nat, stay : Nat]
Taken == [id : Nat, ack : Nat, stay : Nat, reset : BOOLEAN]

\* Two places an actor can be shown between: a single stay, or it is absent from
\* one of the two snapshots.
Together(x, y) == x = y \/ x = 0 \/ y = 0

\* y is a snapshot that can come right after x: nobody comes back without having
\* been absent from a snapshot between the two, whatever is reported as reset.
Follows(x, y) == x.id < y.id /\ Together(x.stay, y.stay)

\* Nothing is missing inside a sequence, nor between s and t: unless the queue
\* overflowed (GameSession.cpp:526), and then it is still full behind the gap.
Runs(s) == \A i \in 1 .. Len(s) - 1 : Follows(s[i], s[i + 1])
Joins(s, t) ==
    s # <<>> /\ t # <<>> =>
        /\ s[Len(s)].id < t[1].id
        /\ Follows(s[Len(s)], t[1]) \/ Len(t) >= 3

\* The last k + 1 of what is kept can be shown between, two by two: Sample looks
\* at no more than the last three.
Ordered(s) == \A i, j \in 1 .. Len(s) : i < j => s[i].id < s[j].id
Close(s, k) ==
    \A j \in 1 .. k : j < Len(s) => Together(s[Len(s) - j].stay, s[Len(s) - j + 1].stay)

\* The last snapshot of a sequence is the last one stored, as far as it was.
Newest(x) == x.id <= stream.id /\ x.stay = stream.stay

\* What the next queue will be presented after.
Drained == IF batch # <<>> THEN batch ELSE buffer

\* No snapshot is missing unnoticed on the way from the datagram to the screen.
SceneTypes ==
    /\ stream.id \in Nat /\ stream.stays \in Nat /\ stream.stay \in {0, stream.stays}
    /\ queue \in Seq(Taken) /\ batch \in Seq(Taken) /\ buffer \in Seq(Kept)

Latest ==
    IF queue # <<>> THEN Newest(queue[Len(queue)])
    ELSE Drained # <<>> => Newest(Drained[Len(Drained)])

SceneInv ==
    /\ SceneTypes
    /\ ~predictor.live => buffer = <<>>
    /\ Runs(queue) /\ Runs(batch)
    /\ Joins(buffer, batch) /\ Joins(Drained, queue)
    /\ Latest
    /\ Ordered(buffer) /\ Close(buffer, 2)
    /\ SceneIsCurrent

LEMMA KeptNumbers ==
    ASSUME NEW s \in Seq(Kept)
    PROVE  \A k \in 1 .. Len(s) : s[k].id \in Nat /\ s[k].stay \in Nat
<1>1. \A k \in 1 .. Len(s) : s[k] \in Kept  OBVIOUS
<1> QED  BY <1>1 DEF Kept

\* What Forget leaves of what was kept.
LEMMA ForgetKeeps ==
    ASSUME NEW s \in Seq(Kept), NEW v \in Taken
    PROVE  /\ Forget(s, v) \in Seq(Kept) /\ Len(Forget(s, v)) = Len(s)
           /\ \A i \in 1 .. Len(s) :
                 /\ Forget(s, v)[i].id = s[i].id
                 /\ Forget(s, v)[i].stay = IF v.reset THEN 0 ELSE s[i].stay
<1> DEFINE f == [i \in DOMAIN s |-> [s[i] EXCEPT !.stay = 0]]
<1>1. \A i \in 1 .. Len(s) : s[i] \in Kept  OBVIOUS
<1>2. \A i \in 1 .. Len(s) : f[i] = [id |-> s[i].id, stay |-> 0]
  BY <1>1 DEF Kept
<1>3. \A i \in 1 .. Len(s) : f[i] \in Kept  BY <1>1, <1>2 DEF Kept
<1>4. f \in [1 .. Len(s) -> Kept]
  <2>1. DOMAIN s = 1 .. Len(s)  OBVIOUS
  <2> QED  BY <1>3, <2>1
<1>5. f \in Seq(Kept) /\ Len(f) = Len(s)
  <2> HIDE DEF f
  <2>1. Len(s) \in Nat  OBVIOUS
  <2> QED  BY <1>4, <2>1
<1> HIDE DEF f
<1>6. CASE v.reset
  <2>1. Forget(s, v) = f  BY <1>6 DEF Forget, f
  <2>2. ASSUME NEW i \in 1 .. Len(s) PROVE f[i].id = s[i].id /\ f[i].stay = 0
    <3>1. f[i] = [id |-> s[i].id, stay |-> 0]  BY <1>2
    <3> QED  BY <3>1
  <2> QED  BY <1>5, <1>6, <2>1, <2>2
<1>7. CASE ~v.reset
  <2>1. Forget(s, v) = s  BY <1>7 DEF Forget
  <2> QED  BY <1>7, <2>1
<1> QED  BY <1>6, <1>7

\* What is kept when a snapshot is presented: counted from the end, it is what
\* was kept before, or what Forget has left of it, and the snapshot.
LEMMA PresentKeeps ==
    ASSUME NEW s \in Seq(Kept), NEW v \in Taken
    PROVE  LET p == Present(s, v)
               n == Len(p)
           IN  /\ p \in Seq(Kept) /\ n \in 1 .. Len(s) + 1
               /\ p[n].id = v.id /\ p[n].stay = v.stay
               /\ \A i \in 1 .. n - 1 :
                     LET j == Len(s) + 1 - (n - i)
                     IN  /\ j \in 1 .. Len(s)
                         /\ p[i].id = s[j].id
                         /\ p[i].stay = IF v.reset THEN 0 ELSE s[j].stay
<1> DEFINE f == Forget(s, v)
           x == [id |-> v.id, stay |-> v.stay]
           all == Append(f, x)
           p == Present(s, v)
<1>1. f \in Seq(Kept) /\ Len(f) = Len(s) /\ Len(s) \in Nat  BY ForgetKeeps
<1>2. x \in Kept  BY DEF Kept, Taken
<1> HIDE DEF f, x
<1>3. /\ all \in Seq(Kept) /\ Len(all) = Len(s) + 1 /\ all[Len(s) + 1] = x
      /\ \A i \in 1 .. Len(s) : all[i] = f[i]
  BY <1>1, <1>2
<1>4. p = IF Len(all) > BufferCapacity THEN Tail(all) ELSE all
  BY DEF Present, Push, f, x
<1> HIDE DEF all, p
<1>5. /\ \A i \in 1 .. Len(s) : f[i].id = s[i].id
      /\ \A i \in 1 .. Len(s) : f[i].stay = IF v.reset THEN 0 ELSE s[i].stay
  BY ForgetKeeps DEF f
<1>6. x.id = v.id /\ x.stay = v.stay  BY DEF x
<1>7. CASE Len(all) > BufferCapacity
  <2>1. p = Tail(all)  BY <1>4, <1>7
  <2>2. Len(s) >= 3  BY <1>1, <1>3, <1>7, SessionAssumption
  <2>3. /\ p \in Seq(Kept) /\ Len(p) = Len(s)
        /\ \A i \in 1 .. Len(s) : p[i] = all[i + 1]
    BY <2>1, <2>2, <1>1, <1>3
  <2>4. p[Len(s)] = x  BY <2>2, <2>3, <1>1, <1>3
  <2>5. \A i \in 1 .. Len(s) - 1 : p[i] = f[i + 1] /\ i + 1 \in 1 .. Len(s)
    BY <2>3, <1>1, <1>3
  <2>6. \A i \in 1 .. Len(p) - 1 : Len(s) + 1 - (Len(p) - i) = i + 1  BY <2>3, <1>1
  <2>7. ASSUME NEW i \in 1 .. Len(p) - 1
        PROVE  LET j == Len(s) + 1 - (Len(p) - i)
               IN  /\ j \in 1 .. Len(s) /\ p[i].id = s[j].id
                   /\ p[i].stay = IF v.reset THEN 0 ELSE s[j].stay
    <3>1. i \in 1 .. Len(s) - 1  BY <2>3
    <3>2. p[i] = f[i + 1] /\ i + 1 \in 1 .. Len(s)  BY <3>1, <2>5
    <3>3. f[i + 1].id = s[i + 1].id
          /\ f[i + 1].stay = IF v.reset THEN 0 ELSE s[i + 1].stay
      BY <3>2, <1>5
    <3>4. Len(s) + 1 - (Len(p) - i) = i + 1  BY <2>6
    <3> QED  BY <3>2, <3>3, <3>4
  <2>8. p[Len(p)].id = v.id /\ p[Len(p)].stay = v.stay  BY <2>3, <2>4, <1>6
  <2>9. Len(p) \in 1 .. Len(s) + 1  BY <2>2, <2>3, <1>1
  <2> QED  BY <2>3, <2>7, <2>8, <2>9 DEF p
<1>8. CASE ~(Len(all) > BufferCapacity)
  <2>1. p = all  BY <1>4, <1>8
  <2>2. /\ p \in Seq(Kept) /\ Len(p) = Len(s) + 1 /\ p[Len(p)] = x
        /\ \A i \in 1 .. Len(s) : p[i] = f[i]
    BY <2>1, <1>3
  <2>3. \A i \in 1 .. Len(p) - 1 : Len(s) + 1 - (Len(p) - i) = i  BY <2>2, <1>1
  <2> QED  BY <2>2, <2>3, <1>1, <1>5, <1>6 DEF p
<1> QED  BY <1>7, <1>8

\* The buffer p ends with the snapshot v.
EndsWith(p, v) ==
  /\ p \in Seq(Kept) /\ p # <<>>
  /\ p[Len(p)].id = v.id /\ p[Len(p)].stay = v.stay

LEMMA PresentEnds ==
    ASSUME NEW s \in Seq(Kept), NEW v \in Taken
    PROVE  EndsWith(Present(s, v), v)
<1> DEFINE p == Present(s, v)
<1>1. p \in Seq(Kept) /\ Len(p) # 0  BY PresentKeeps
<1>2. p[Len(p)].id = v.id /\ p[Len(p)].stay = v.stay  BY PresentKeeps
<1> HIDE DEF p
<1>3. EndsWith(p, v)  BY <1>1, <1>2 DEF EndsWith
<1> QED  BY <1>3 DEF p

LEMMA PresentOrdered ==
    ASSUME NEW s \in Seq(Kept), NEW v \in Taken, Ordered(s),
           s # <<>> => s[Len(s)].id < v.id
    PROVE  Ordered(Present(s, v))
<1> DEFINE p == Present(s, v)
           n == Len(p)
           b(i) == Len(s) + 1 - (n - i)
<1>1. /\ n \in 1 .. Len(s) + 1 /\ Len(s) \in Nat
      /\ p[n].id = v.id
      /\ \A i \in 1 .. n - 1 : b(i) \in 1 .. Len(s) /\ p[i].id = s[b(i)].id
  BY PresentKeeps
<1> HIDE DEF p, n
<1>2. ASSUME NEW i \in 1 .. n, NEW j \in 1 .. n, i < j
      PROVE  p[i].id < p[j].id
  <2>1. i \in 1 .. n - 1  BY <1>2, <1>1
  <2>2. b(i) \in 1 .. Len(s) /\ p[i].id = s[b(i)].id  BY <2>1, <1>1
  <2>3. CASE j = n
    <3>1. s # <<>>  BY <2>2
    <3>2. s[b(i)].id <= s[Len(s)].id
      <4>1. b(i) = Len(s) \/ b(i) < Len(s)
        <5> HIDE DEF b
        <5> QED  BY <2>2, <1>1
      <4>2. Len(s) \in 1 .. Len(s)  BY <2>2, <1>1
      <4>3. \A k \in 1 .. Len(s) : s[k].id \in Nat  BY KeptNumbers
      <4> HIDE DEF b
      <4> QED  BY <4>1, <4>2, <4>3, <2>2 DEF Ordered
    <3>3. s[b(i)].id \in Nat /\ s[Len(s)].id \in Nat /\ v.id \in Nat
      <4>1. \A k \in 1 .. Len(s) : s[k].id \in Nat  BY KeptNumbers
      <4>2. Len(s) \in 1 .. Len(s)  BY <2>2, <1>1
      <4> HIDE DEF b
      <4> QED  BY <4>1, <4>2, <2>2 DEF Taken
    <3> HIDE DEF b
    <3> QED  BY <2>2, <2>3, <3>1, <3>2, <3>3, <1>1
  <2>4. CASE j # n
    <3>1. j \in 1 .. n - 1  BY <2>4, <1>1
    <3>2. b(j) \in 1 .. Len(s) /\ p[j].id = s[b(j)].id  BY <3>1, <1>1
    <3>3. b(i) < b(j)  BY <1>1, <1>2
    <3> HIDE DEF b
    <3> QED  BY <2>2, <3>2, <3>3 DEF Ordered
  <2> QED  BY <2>3, <2>4
<1> QED  BY <1>2 DEF Ordered, n, p

LEMMA PresentClose ==
    ASSUME NEW s \in Seq(Kept), NEW v \in Taken, NEW k \in Nat, Close(s, k),
           s # <<>> => Follows(s[Len(s)], v)
    PROVE  Close(Present(s, v), k + 1)
<1> DEFINE p == Present(s, v)
           n == Len(p)
           b(i) == Len(s) + 1 - (n - i)
           Was(i) == IF v.reset THEN 0 ELSE s[b(i)].stay
<1>1. /\ n \in 1 .. Len(s) + 1 /\ Len(s) \in Nat
      /\ p[n].stay = v.stay
      /\ \A i \in 1 .. n - 1 : b(i) \in 1 .. Len(s) /\ p[i].stay = Was(i)
  BY PresentKeeps
<1> HIDE DEF p, n
<1>2. ASSUME NEW j \in 1 .. k + 1, j < n
      PROVE  Together(p[n - j].stay, p[n - j + 1].stay)
  <2>1. n - j \in 1 .. n - 1  BY <1>1, <1>2
  <2>2. b(n - j) \in 1 .. Len(s) /\ p[n - j].stay = Was(n - j)  BY <2>1, <1>1
  <2>3. b(n - j) = Len(s) + 1 - j  BY <1>1, <1>2
  <2>4. CASE j = 1
    <3>1. p[n - j + 1].stay = v.stay  BY <2>4, <1>1
    <3>2. s # <<>> /\ b(n - j) = Len(s)  BY <2>2, <2>3, <2>4, <1>1
    <3> HIDE DEF b
    <3> QED  BY <2>2, <3>1, <3>2 DEF Together, Follows
  <2>5. CASE j # 1
    <3>1. n - j + 1 \in 1 .. n - 1 /\ j - 1 \in 1 .. k /\ j - 1 < Len(s)
      BY <2>5, <1>1, <1>2
    <3>2. p[n - j + 1].stay = Was(n - j + 1)  BY <3>1, <1>1
    <3>3. b(n - j + 1) = Len(s) - (j - 1) + 1 /\ b(n - j) = Len(s) - (j - 1)
      BY <1>1, <1>2
    <3>4. Together(s[Len(s) - (j - 1)].stay, s[Len(s) - (j - 1) + 1].stay)
      BY <3>1 DEF Close
    <3> HIDE DEF b
    <3> QED  BY <2>2, <3>2, <3>3, <3>4 DEF Together
  <2> QED  BY <2>4, <2>5
<1> QED  BY <1>2 DEF Close, n, p
-----------------------------------------------------------------------------
\* What a whole batch makes of what was kept.
LEMMA TakenTypes ==
    ASSUME NEW s \in Seq(Taken)
    PROVE  \A k \in 1 .. Len(s) : s[k] \in Taken /\ s[k].id \in Nat /\ s[k].stay \in Nat
<1>1. \A k \in 1 .. Len(s) : s[k] \in Taken  OBVIOUS
<1> QED  BY <1>1 DEF Taken

LEMMA BatchPresented ==
    ASSUME NEW kept \in Seq(Kept), NEW s \in Seq(Taken), s # <<>>,
           Ordered(kept), Close(kept, 2), Runs(s), Joins(kept, s)
    PROVE  LET p == FoldLeft(Present, kept, s)
           IN  /\ p \in Seq(Kept) /\ p # <<>> /\ Ordered(p) /\ Close(p, 2)
               /\ p[Len(p)].id = s[Len(s)].id /\ p[Len(p)].stay = s[Len(s)].stay
<1> DEFINE n == Len(s)
           linked == kept # <<>> => Follows(kept[Len(kept)], s[1])
<1>1. n \in Nat /\ n # 0  OBVIOUS
<1>2. \A x \in Seq(Kept), v \in Taken : Present(x, v) \in Seq(Kept)  BY PresentKeeps
<1>3. PICK r \in [0 .. n -> Seq(Kept)] : Presents(r, kept, s)
  BY <1>2, PresentFolds
<1>8. /\ r[0] = kept /\ r[n] = FoldLeft(Present, kept, s)
      /\ \A i \in 1 .. n : r[i] = Present(r[i - 1], s[i])
  BY <1>3 DEF Presents
<1> DEFINE Good(k) ==
              /\ r[k] # <<>> /\ Ordered(r[k]) /\ Close(r[k], k - 1)
              /\ linked => Close(r[k], 2)
              /\ r[k][Len(r[k])].id = s[k].id /\ r[k][Len(r[k])].stay = s[k].stay
<1>4. Good(1)
  <2>1. r[1] = Present(kept, s[1]) /\ s[1] \in Taken  BY <1>1, <1>8
  <2>2. r[1] \in Seq(Kept) /\ r[1] # <<>>
        /\ r[1][Len(r[1])].id = s[1].id /\ r[1][Len(r[1])].stay = s[1].stay
    <3>1. EndsWith(r[1], s[1])  BY <2>1, PresentEnds
    <3> QED  BY <3>1 DEF EndsWith
  <2>3. Ordered(r[1])  BY <2>1, PresentOrdered DEF Joins
  <2>4. Close(r[1], 1 - 1)  BY DEF Close
  <2>5. linked => Close(r[1], 2)
    <3>1. linked => Close(r[1], 2 + 1)  BY <2>1, PresentClose
    <3> QED  BY <3>1 DEF Close
  <2> HIDE DEF linked
  <2> QED  BY <2>2, <2>3, <2>4, <2>5
<1>5. ASSUME NEW k \in 1 .. n, k + 1 <= n, Good(k) PROVE Good(k + 1)
  <2>1. k + 1 \in 1 .. n /\ (k + 1) - 1 = k  BY <1>5
  <2>2. r[k + 1] = Present(r[k], s[k + 1])  BY <1>8, <2>1
  <2>3. r[k] \in Seq(Kept) /\ s[k + 1] \in Taken /\ s[k] \in Taken
    BY <1>3, <2>1
  <2>4. Follows(s[k], s[k + 1])
    <3>1. k \in 1 .. n - 1  BY <1>5
    <3> QED  BY <3>1 DEF Runs
  <2>5. Follows(r[k][Len(r[k])], s[k + 1]) /\ r[k][Len(r[k])].id < s[k + 1].id
    BY <1>5, <2>4 DEF Follows
  <2>6. r[k + 1] \in Seq(Kept) /\ r[k + 1] # <<>>
        /\ r[k + 1][Len(r[k + 1])].id = s[k + 1].id
        /\ r[k + 1][Len(r[k + 1])].stay = s[k + 1].stay
    <3>1. EndsWith(r[k + 1], s[k + 1])  BY <2>2, <2>3, PresentEnds
    <3> QED  BY <3>1 DEF EndsWith
  <2>7. Ordered(r[k + 1])  BY <1>5, <2>2, <2>3, <2>5, PresentOrdered
  <2>8. Close(r[k + 1], (k - 1) + 1)  BY <1>5, <2>2, <2>3, <2>5, PresentClose
  <2>9. linked => Close(r[k + 1], 2)
    <3>1. linked => Close(r[k + 1], 2 + 1)  BY <1>5, <2>2, <2>3, <2>5, PresentClose
    <3> QED  BY <3>1 DEF Close
  <2>10. (k - 1) + 1 = (k + 1) - 1  OBVIOUS
  <2> HIDE DEF linked
  <2> QED  BY <2>6, <2>7, <2>8, <2>9, <2>10
<1> HIDE DEF Good
<1>6. Good(n)
  <2> DEFINE B == {k \in 1 .. n : ~Good(k)}
  <2>1. B = {}
    <3> SUFFICES ASSUME B # {} PROVE FALSE  OBVIOUS
    <3>1. B \subseteq Nat  OBVIOUS
    <3>2. PICK k \in B : \A y \in B : k <= y
      <4> HIDE DEF B
      <4> QED  BY <3>1, LeastNatural
    <3>3. k # 1  BY <1>4
    <3>4. k - 1 \in 1 .. n /\ (k - 1) + 1 = k /\ k <= n  BY <3>3
    <3>5. k - 1 \notin B  BY <3>2, <3>4
    <3>6. Good(k - 1)  BY <3>4, <3>5
    <3>7. Good(k)  BY <1>5, <3>4, <3>6
    <3> QED  BY <3>7
  <2>2. n \in 1 .. n  BY <1>1
  <2> QED  BY <2>1, <2>2
<1>7. Close(r[n], 2)
  <2>1. CASE linked  BY <2>1, <1>6 DEF Good
  <2>2. CASE ~linked
    <3>1. n >= 3  BY <2>2 DEF Joins
    <3>2. Close(r[n], n - 1)  BY <1>6 DEF Good
    <3> QED  BY <3>1, <3>2, <1>1 DEF Close
  <2> QED  BY <2>1, <2>2
<1> QED  BY <1>1, <1>3, <1>8, <1>6, <1>7 DEF Good

\* What Sample looks at.
LEMMA SampleTogether ==
    ASSUME NEW s \in Seq(Kept), s # <<>>, Ordered(s), Close(s, 2)
    PROVE  Together(Sample(s)[1], Sample(s)[2])
<1> DEFINE n == Len(s)
           Late(i) == 2 * s[i].id + 3 >= 2 * Last(s).id
           First(i) == Late(i) /\ \A j \in 1 .. i - 1 : ~Late(j)
           newer == CHOOSE i \in DOMAIN s : First(i)
<1>1. n \in Nat /\ n # 0 /\ DOMAIN s = 1 .. n /\ n \in 1 .. n  OBVIOUS
<1>2. Last(s) = s[n]  BY DEF Last
<1>3. \A k \in 1 .. n : s[k].id \in Nat  BY KeptNumbers
<1>4. \A j \in 1 .. n : j < n - 1 => ~Late(j)
  <2> SUFFICES ASSUME NEW j \in 1 .. n, j < n - 1 PROVE ~Late(j)  OBVIOUS
  <2>1. n - 1 \in 1 .. n /\ n - 1 < n  BY <1>1
  <2>2. s[j].id < s[n - 1].id /\ s[n - 1].id < s[n].id
    BY <2>1, <1>1 DEF Ordered
  <2>3. s[j].id \in Nat /\ s[n - 1].id \in Nat /\ s[n].id \in Nat
    BY <1>3, <2>1, <1>1
  <2> QED  BY <2>2, <2>3, <1>2
<1>5. Late(n)
  <2>1. s[n].id \in Nat  BY <1>1, <1>3
  <2> QED  BY <1>2, <2>1
<1> HIDE DEF Late
<1>6. \E i \in DOMAIN s : First(i)
  <2>1. CASE n >= 2 /\ Late(n - 1)
    <3>1. n - 1 \in DOMAIN s  BY <2>1, <1>1
    <3>2. First(n - 1)  BY <2>1, <1>1, <1>4
    <3> QED  BY <3>1, <3>2
  <2>2. CASE ~(n >= 2 /\ Late(n - 1))
    <3>1. \A j \in 1 .. n - 1 : ~Late(j)
      <4> SUFFICES ASSUME NEW j \in 1 .. n - 1 PROVE ~Late(j)  OBVIOUS
      <4>1. j \in 1 .. n /\ (j = n - 1 \/ j < n - 1) /\ n >= 2
        <5> HIDE DEF n
        <5> QED  BY <1>1
      <4> QED  BY <4>1, <1>4, <2>2
    <3>2. First(n)  BY <1>5, <3>1
    <3> QED  BY <3>2, <1>1
  <2> QED  BY <2>1, <2>2
<1>7. newer \in 1 .. n /\ First(newer)
  <2> HIDE DEF First
  <2> QED  BY <1>1, <1>6
<1>8. newer = n \/ newer = n - 1
  <2>1. ~(newer < n - 1)  BY <1>4, <1>7
  <2> QED  BY <1>1, <1>7, <2>1
<1>9. Sample(s) = IF newer = 1 THEN <<s[1].stay, s[1].stay>>
                               ELSE <<s[newer - 1].stay, s[newer].stay>>
  BY DEF Sample, Late
<1> HIDE DEF newer, n
<1>10. CASE newer = 1  BY <1>9, <1>10 DEF Together
<1>11. CASE newer # 1
  <2>1. Sample(s)[1] = s[newer - 1].stay /\ Sample(s)[2] = s[newer].stay
    BY <1>9, <1>11
  <2> DEFINE j == n - (newer - 1)
  <2>2. j \in 1 .. 2 /\ j < n /\ n - j = newer - 1 /\ n - j + 1 = newer
    BY <1>1, <1>7, <1>8, <1>11
  <2> HIDE DEF j
  <2>3. Together(s[n - j].stay, s[n - j + 1].stay)  BY <2>2 DEF Close, n
  <2> QED  BY <2>1, <2>2, <2>3
<1> QED  BY <1>10, <1>11

\* The queue takes a snapshot, and loses its oldest one when it is full: what is
\* left has no gap, and is full behind the gap it now has in front of it.
LEMMA Enqueued ==
    ASSUME NEW q \in Seq(Taken), NEW v \in Taken, NEW d, NEW p,
           p = Append(IF Len(q) >= QueueCapacity THEN Tail(q) ELSE q, v),
           Runs(q), Joins(d, q),
           q # <<>> => Follows(q[Len(q)], v),
           q = <<>> /\ d # <<>> => Follows(d[Len(d)], v),
           d # <<>> => d[Len(d)].id \in Nat
    PROVE  /\ p \in Seq(Taken) /\ p # <<>> /\ p[Len(p)] = v
           /\ Runs(p) /\ Joins(d, p)
<1>0. QueueCapacity \in Nat /\ QueueCapacity >= 3  BY SessionAssumption
<1>1. CASE Len(q) >= QueueCapacity
  <2>1. Len(q) \in Nat /\ Len(q) >= 3  BY <1>0, <1>1
  <2>2. /\ p \in Seq(Taken) /\ Len(p) = Len(q) /\ p[Len(q)] = v
        /\ \A i \in 1 .. Len(q) - 1 : p[i] = q[i + 1]
    <3>1. p = Append(Tail(q), v)  BY <1>1
    <3>2. /\ Tail(q) \in Seq(Taken) /\ Len(Tail(q)) = Len(q) - 1
          /\ \A i \in 1 .. Len(q) - 1 : Tail(q)[i] = q[i + 1]
      BY <2>1
    <3> DEFINE t == Tail(q)
    <3> HIDE DEF t
    <3>3. p = Append(t, v) /\ t \in Seq(Taken) /\ Len(t) = Len(q) - 1
          /\ \A i \in 1 .. Len(q) - 1 : t[i] = q[i + 1]
      BY <3>1, <3>2 DEF t
    <3> QED  BY <3>3, <2>1
  <2>3. p # <<>>  BY <2>1, <2>2
  <2>4. Runs(p)
    <3> SUFFICES ASSUME NEW i \in 1 .. Len(p) - 1 PROVE Follows(p[i], p[i + 1])
      BY DEF Runs
    <3>1. p[i] = q[i + 1]  BY <2>2
    <3>2. CASE i = Len(q) - 1
      <4>1. i + 1 = Len(q) /\ q # <<>>  BY <3>2, <2>1
      <4> QED  BY <3>1, <4>1, <2>2
    <3>3. CASE i # Len(q) - 1
      <4>1. i + 1 \in 1 .. Len(q) - 1  BY <3>3, <2>1, <2>2
      <4>2. p[i + 1] = q[(i + 1) + 1]  BY <2>2, <4>1
      <4> QED  BY <3>1, <4>1, <4>2 DEF Runs
    <3> QED  BY <3>2, <3>3
  <2>5. d # <<>> => d[Len(d)].id < p[1].id
    <3>1. 1 \in 1 .. Len(q) - 1 /\ p[1] = q[1 + 1]  BY <2>1, <2>2
    <3>2. Follows(q[1], q[1 + 1])  BY <3>1 DEF Runs
    <3>3. q[1].id \in Nat /\ q[1 + 1].id \in Nat  BY <2>1, TakenTypes
    <3>4. d # <<>> => d[Len(d)].id < q[1].id  BY <2>1 DEF Joins
    <3> QED  BY <3>1, <3>2, <3>3, <3>4 DEF Follows
  <2> QED  BY <2>1, <2>2, <2>3, <2>4, <2>5 DEF Joins
<1>2. CASE ~(Len(q) >= QueueCapacity)
  <2>0. Len(q) \in Nat  OBVIOUS
  <2>2. /\ p \in Seq(Taken) /\ Len(p) = Len(q) + 1 /\ p[Len(q) + 1] = v
        /\ \A i \in 1 .. Len(q) : p[i] = q[i]
    BY <1>2
  <2>3. p # <<>>  BY <2>0, <2>2
  <2>4. Runs(p)
    <3> SUFFICES ASSUME NEW i \in 1 .. Len(p) - 1 PROVE Follows(p[i], p[i + 1])
      BY DEF Runs
    <3>1. p[i] = q[i] /\ i \in 1 .. Len(q)  BY <2>0, <2>2
    <3>2. CASE i = Len(q)
      <4>1. q # <<>>  BY <3>1
      <4> QED  BY <3>1, <3>2, <4>1, <2>2
    <3>3. CASE i # Len(q)
      <4>1. i \in 1 .. Len(q) - 1 /\ i + 1 \in 1 .. Len(q)  BY <3>1, <3>3, <2>0
      <4>2. p[i + 1] = q[i + 1]  BY <2>2, <4>1
      <4> QED  BY <3>1, <4>1, <4>2 DEF Runs
    <3> QED  BY <3>2, <3>3
  <2>5. Joins(d, p)
    <3>1. CASE q = <<>>
      <4>1. p[1] = v  BY <3>1, <2>2
      <4> QED  BY <3>1, <4>1 DEF Joins, Follows
    <3>2. CASE q # <<>>
      <4>1. p[1] = q[1] /\ Len(p) >= Len(q)  BY <3>2, <2>0, <2>2
      <4> QED  BY <3>2, <4>1, <2>0, <2>2 DEF Joins
    <3> QED  BY <3>1, <3>2
  <2> QED  BY <2>2, <2>3, <2>4, <2>5
<1> QED  BY <1>1, <1>2

-----------------------------------------------------------------------------
(* The steps. *)

LEMMA SceneInit == Init => SceneInv
<1> SUFFICES ASSUME Init PROVE SceneInv  OBVIOUS
<1>1. SceneTypes  BY DEF Init, SceneTypes
<1>2. Runs(queue) /\ Runs(batch) /\ Joins(buffer, batch) /\ Joins(Drained, queue)
  BY DEF Init, Runs, Joins, Drained
<1>3. Latest /\ Ordered(buffer) /\ Close(buffer, 2) /\ SceneIsCurrent
  BY DEF Init, Latest, Drained, Ordered, Close, SceneIsCurrent
<1> QED  BY <1>1, <1>2, <1>3 DEF SceneInv, Init

\* A step that touches none of it.
SceneStill ==
    UNCHANGED <<queue, batch, stream, buffer, scene>> /\ predictor'.live = predictor.live

LEMMA StillKeeps ==
    ASSUME SceneInv, SceneStill
    PROVE  SceneInv'
<1>1. SceneTypes' /\ Latest' /\ SceneIsCurrent'
  BY DEF SceneInv, SceneTypes, Latest, Newest, Drained, SceneIsCurrent, SceneStill
<1>2. (Runs(queue) /\ Runs(batch))'  BY DEF SceneInv, SceneStill, Runs
<1>3. (Joins(buffer, batch) /\ Joins(Drained, queue))'
  BY DEF SceneInv, SceneStill, Joins, Drained
<1>4. (Ordered(buffer) /\ Close(buffer, 2))'
  BY DEF SceneInv, SceneStill, Ordered, Close
<1>5. (~predictor.live => buffer = <<>>)'  BY DEF SceneInv, SceneStill
<1> QED  BY <1>1, <1>2, <1>3, <1>4, <1>5 DEF SceneInv

\* What is drained is numbered.
LEMMA DrainedIs ==
    ASSUME SceneInv
    PROVE  Drained # <<>> => Drained[Len(Drained)].id \in Nat
<1>1. CASE batch # <<>>
  <2>1. Len(batch) \in 1 .. Len(batch)  BY <1>1 DEF SceneInv, SceneTypes
  <2> QED  BY <1>1, <2>1, TakenTypes DEF SceneInv, SceneTypes, Drained
<1>2. CASE batch = <<>> /\ buffer # <<>>
  <2>1. Len(buffer) \in 1 .. Len(buffer)  BY <1>2 DEF SceneInv, SceneTypes
  <2> QED  BY <1>2, <2>1, KeptNumbers DEF SceneInv, SceneTypes, Drained
<1> QED  BY <1>1, <1>2 DEF Drained

\* A snapshot of either kind is queued (GameSession.cpp:506-534).
LEMMA ReceiveSnapshotScene ==
    ASSUME SceneInv, NEW id \in 1 .. MaxSnapshot, NEW ack \in 0 .. MaxInput,
           NEW present \in BOOLEAN, NEW reset \in BOOLEAN,
           ReceiveSnapshot(id, ack, present, reset)
    PROVE  SceneInv'
<1>1. CASE state \notin {"Synchronizing", "Running"}
  BY <1>1, StillKeeps DEF ReceiveSnapshot, SceneStill, gameVars
<1>2. CASE state \in {"Synchronizing", "Running"}
  <2> DEFINE back == present /\ stream.stay = 0
             stays == IF back THEN stream.stays + 1 ELSE stream.stays
             stay == IF present THEN stays ELSE 0
             v == [id |-> id, ack |-> ack, stay |-> stay, reset |-> reset]
  <2>1. /\ stream' = [id |-> id, ack |-> ack, stay |-> stay, stays |-> stays]
        /\ queue' = Append(IF Len(queue) >= QueueCapacity THEN Tail(queue) ELSE queue, v)
        /\ UNCHANGED <<batch, buffer, scene, predictor>> /\ id > stream.id
    BY <1>2 DEF ReceiveSnapshot, Enqueue, gameVars
  <2>2. stays \in Nat /\ stay \in Nat /\ id \in Nat /\ ack \in Nat /\ stream.id \in Nat
    BY SessionAssumption DEF SceneInv, SceneTypes
  <2>12. Together(stream.stay, stay) /\ stay \in {0, stays}
    BY DEF SceneInv, SceneTypes, Together
  <2> HIDE DEF stay, stays
  <2>3. v \in Taken /\ v.id = id /\ v.stay = stay
    BY <2>2 DEF Taken
  <2>4. ASSUME NEW x, Newest(x), x.id \in Nat PROVE Follows(x, v)
    <3>1. x.id <= stream.id /\ x.stay = stream.stay /\ stream.id < id
      BY <2>1, <2>2, <2>4 DEF Newest
    <3>2. x.id < id  BY <2>2, <2>4, <3>1
    <3> HIDE DEF v
    <3> QED  BY <2>3, <2>12, <3>1, <3>2 DEF Follows
  <2> HIDE DEF v
  <2>5. queue # <<>> => Follows(queue[Len(queue)], v)
    <3>1. queue # <<>> => Len(queue) \in 1 .. Len(queue)  BY DEF SceneInv, SceneTypes
    <3>2. queue # <<>> => queue[Len(queue)].id \in Nat
      BY <3>1, TakenTypes DEF SceneInv, SceneTypes
    <3> QED  BY <2>4, <3>2 DEF SceneInv, Latest
  <2>6. queue = <<>> /\ Drained # <<>> => Follows(Drained[Len(Drained)], v)
    BY <2>4, DrainedIs DEF SceneInv, Latest
  <2>7. /\ queue' \in Seq(Taken) /\ queue' # <<>> /\ queue'[Len(queue')] = v
        /\ Runs(queue') /\ Joins(Drained, queue')
    BY <2>1, <2>3, <2>5, <2>6, DrainedIs, Enqueued DEF SceneInv, SceneTypes
  <2>8. Drained' = Drained  BY <2>1 DEF Drained
  <2>9. SceneTypes'  BY <2>1, <2>2, <2>7, <2>12 DEF SceneInv, SceneTypes
  <2>10. Latest'  BY <2>1, <2>2, <2>3, <2>7 DEF Latest, Newest
  <2>11. Joins(Drained', queue')  BY <2>7, <2>8
  <2> QED  BY <2>1, <2>7, <2>9, <2>10, <2>11 DEF SceneInv, SceneIsCurrent
<1> QED  BY <1>1, <1>2

\* The queue is drained into a batch (GameSession.cpp:592-604).
LEMMA FixedUpdateScene ==
    ASSUME SessionInv, SceneInv, FixedUpdate
    PROVE  SceneInv'
<1>1. batch = <<>>  BY DEF SessionInv, Frame, FixedUpdate
<1>2. /\ batch' = queue /\ queue' = <<>>
      /\ UNCHANGED <<buffer, scene, predictor, stream>>
  BY DEF FixedUpdate
<1>3. Drained = buffer /\ Drained' = IF queue # <<>> THEN queue ELSE buffer
  BY <1>1, <1>2 DEF Drained
<1>4. SceneTypes'  BY <1>2 DEF SceneInv, SceneTypes
<1>5. Latest'  BY <1>2, <1>3 DEF SceneInv, Latest, Newest
<1>6. Runs(queue') /\ Joins(Drained', queue')  BY <1>2 DEF Runs, Joins
<1>7. Joins(buffer', batch')  BY <1>2, <1>3 DEF SceneInv
<1> QED  BY <1>2, <1>4, <1>5, <1>6, <1>7 DEF SceneInv, SceneIsCurrent

\* The batch is presented and sampled, or dropped with the session.
LEMMA ApplyBatchScene ==
    ASSUME SessionInv, SceneInv, ApplyBatch
    PROVE  SceneInv'
<1>0. predictor = [live |-> predictor.live, issued |-> predictor.issued,
                   acked |-> predictor.acked] /\ predictor.live \in BOOLEAN
  BY DEF SessionInv, SessionTypes
<1>1. CASE batch # <<>> /\ ~predictor.live /\ ~MayRun
  <2>1. /\ batch' = <<>> /\ buffer' = <<>> /\ buffer = <<>>
        /\ UNCHANGED <<buffer, scene, queue, stream>>
    BY <1>1 DEF ApplyBatch, SceneInv
  <2>2. Drained' = <<>>  BY <2>1 DEF Drained
  <2>3. SceneTypes'  BY <2>1 DEF SceneInv, SceneTypes
  <2>4. Latest'  BY <2>1, <2>2 DEF SceneInv, Latest, Newest
  <2>5. (Runs(queue) /\ Runs(batch) /\ Joins(buffer, batch) /\ Joins(Drained, queue))'
    BY <2>1, <2>2 DEF SceneInv, Runs, Joins
  <2> QED  BY <2>1, <2>3, <2>4, <2>5 DEF SceneInv, SceneIsCurrent
<1>2. CASE ~(batch # <<>> /\ ~predictor.live /\ ~MayRun)
  <2>1. /\ batch' = <<>> /\ UNCHANGED <<queue, stream>>
        /\ buffer' = FoldLeft(Present, buffer, batch)
        /\ scene' = IF batch = <<>> THEN scene ELSE Sample(buffer')
        /\ predictor'.live = (predictor.live \/ batch # <<>>)
    BY <1>0, <1>2 DEF ApplyBatch
  <2>2. Drained' = buffer'  BY <2>1 DEF Drained
  <2>3. CASE batch = <<>>
    <3>1. buffer' = buffer
      <4>1. \A x \in Seq(Kept), v \in Taken : Present(x, v) \in Seq(Kept)
        BY PresentEnds DEF EndsWith
      <4>2. PICK r \in [0 .. Len(batch) -> Seq(Kept)] : Presents(r, buffer, batch)
        BY <4>1, PresentFolds DEF SceneInv, SceneTypes
      <4> QED  BY <2>1, <2>3, <4>2 DEF Presents
    <3>2. predictor'.live = predictor.live
      <4>1. ~(batch # <<>>)  BY <2>3
      <4>2. (predictor.live \/ batch # <<>>) = predictor.live  BY ONLY <1>0, <4>1, Zenon
      <4> QED  BY ONLY <2>1, <4>2
    <3>3. batch' = batch /\ scene' = scene  BY <2>1, <2>3
    <3>4. SceneStill  BY <2>1, <3>1, <3>2, <3>3 DEF SceneStill
    <3> QED  BY <3>4, StillKeeps
  <2>4. CASE batch # <<>>
    <3>1. /\ buffer \in Seq(Kept) /\ batch \in Seq(Taken) /\ Ordered(buffer)
          /\ Close(buffer, 2) /\ Runs(batch) /\ Joins(buffer, batch)
      BY DEF SceneInv, SceneTypes
    <3>2. /\ buffer' \in Seq(Kept) /\ buffer' # <<>>
          /\ Ordered(buffer') /\ Close(buffer', 2)
          /\ buffer'[Len(buffer')].id = batch[Len(batch)].id
          /\ buffer'[Len(buffer')].stay = batch[Len(batch)].stay
      BY <2>1, <2>4, <3>1, BatchPresented
    <3>3. SceneIsCurrent'
      <4>1. scene' = Sample(buffer')  BY <2>1, <2>4
      <4>2. Together(Sample(buffer')[1], Sample(buffer')[2])  BY <3>2, SampleTogether
      <4> QED  BY <4>1, <4>2 DEF SceneIsCurrent, Together
    <3>4. Drained = batch  BY <2>4 DEF Drained
    <3>5. Joins(Drained', queue')
      BY <2>1, <2>2, <2>4, <3>2, <3>4 DEF SceneInv, Joins, Follows
    <3>6. Latest'
      BY <2>1, <2>2, <2>4, <3>2, <3>4 DEF SceneInv, Latest, Newest
    <3>7. SceneTypes'  BY <2>1, <3>2 DEF SceneInv, SceneTypes
    <3>8. Runs(queue') /\ Runs(batch') /\ Joins(buffer', batch')
      BY <2>1 DEF SceneInv, Runs, Joins
    <3>9. predictor'.live  BY <2>1, <2>4
    <3> QED  BY <3>2, <3>3, <3>5, <3>6, <3>7, <3>8, <3>9 DEF SceneInv
  <2> QED  BY <2>3, <2>4
<1> QED  BY <1>1, <1>2

\* Three steps touch the scene or what it comes from.
LEMMA SceneTouched ==
    ASSUME SessionInv, [Next]_vars
    PROVE  \/ SceneStill \/ FixedUpdate \/ ApplyBatch
           \/ \E id \in 1 .. MaxSnapshot, ack \in 0 .. MaxInput,
                 present, reset \in BOOLEAN : ReceiveSnapshot(id, ack, present, reset)
<1>1. CASE NetworkThread
  <2>1. CASE ReceiveUdp
    BY <2>1 DEF ReceiveUdp, ReceiveBindAccepted, SceneStill
  <2>2. CASE Store \/ BindTimerFires
    BY <2>2 DEF Store, BindTimerFires, SceneStill
  <2>3. CASE HandlePosted
    BY <2>3 DEF HandlePosted, HandleResolve, HandleClosed, HandleClose, HandleInput,
                SceneStill
  <2>4. CASE Resolves
    BY <2>4 DEF Resolves, TcpResolved, TcpConnected, UdpResolved, SceneStill
  <2>5. CASE HandleTcpFrame
    BY <2>5 DEF HandleTcpFrame, HandleWelcome, HandleError, HandleResult, ReadEof,
                SceneStill
  <2> QED  BY <1>1, <2>1, <2>2, <2>3, <2>4, <2>5 DEF NetworkThread
<1>2. CASE Server
  BY <1>2 DEF Server, ServerSends, ServerWelcomes, ServerRefuses, ServerEnds,
              ServerIsLost, ServerBinds, LoseBind, SceneStill
<1>3. CASE GameThread
  <2>1. CASE Start \/ FailFromCaller \/ RequestStop \/ StoreClosed
    BY <2>1 DEF Start, FailFromCaller, RequestStop, StoreClosed, SceneStill
  <2>2. CASE AdvanceTick
    BY <2>2 DEF AdvanceTick, SessionInv, SessionTypes, SceneStill
  <2> QED  BY <1>3, <2>1, <2>2 DEF GameThread
<1>4. CASE UNCHANGED vars  BY <1>4 DEF SceneStill
<1> QED  BY <1>1, <1>2, <1>3, <1>4 DEF Next

LEMMA SceneSteps ==
    ASSUME SessionInv, SceneInv, [Next]_vars
    PROVE  SceneInv'
BY SceneTouched, StillKeeps, FixedUpdateScene, ApplyBatchScene, ReceiveSnapshotScene

\* From the datagram to the screen no absence is missing but in front of a full
\* queue (GameSession.cpp:526), whatever its capacity of three or more, whatever
\* the snapshots report as reset, and what is kept is in order and close at its
\* end, however the two threads take turns.
THEOREM SceneInvHolds == Spec => []SceneInv
<1>1. SessionInv /\ SceneInv /\ [Next]_vars => SceneInv'  BY SceneSteps
<1> QED  BY <1>1, SceneInit, SessionInvHolds, PTL DEF Spec

\* So the game thread never slides an actor from where it was before it left to
\* where it came back, although an overflow of the queue (GameSession.cpp:526)
\* drops the snapshots it was absent from, and its return may not be reported as a
\* reset (ClientSnapshotStream.cpp:466).
THEOREM SceneAlwaysCurrent == Spec => []SceneIsCurrent
<1>1. SceneInv => SceneIsCurrent  BY DEF SceneInv
<1> QED  BY <1>1, SceneInvHolds, PTL

-----------------------------------------------------------------------------
(* The framed connection: its invariant. *)

ConnectionTypes ==
    /\ closed \in BOOLEAN /\ closeAfterFlush \in BOOLEAN /\ writeInProgress \in BOOLEAN
    /\ writeQueue \in Seq(Frames) /\ accepted \in Seq(Frames) /\ written \in Seq(Frames)
    /\ operation \in Frames \cup {F!None}
    /\ closeHandler \in {"kept", "posted", "called"}
    /\ why \in {"open", "flushed", "cut"}

\* The end is remembered once, with its reason, and takes the flush with it.
EndIsFinal ==
    /\ closed <=> why # "open"
    /\ closed <=> closeHandler # "kept"
    /\ closed => ~closeAfterFlush

ConnectionInv == ConnectionTypes /\ EndIsFinal /\ F!QueueIsWritten

\* The mapping's phase and notice, as state functions of their own.
Phase == IF closed THEN why ELSE IF closeAfterFlush THEN "draining" ELSE "open"
Told == closeHandler = "called"

-----------------------------------------------------------------------------
(* Lemmas about the sequences of frames. *)

LEMMA AppendToQueue ==
    ASSUME NEW w \in Seq(Frames), NEW q \in Seq(Frames), NEW f \in Frames
    PROVE  Append(w \o q, f) = w \o Append(q, f)
OBVIOUS

LEMMA WriteTheFirst ==
    ASSUME NEW w \in Seq(Frames), NEW q \in Seq(Frames), q # <<>>
    PROVE  /\ Append(w, Head(q)) \o Tail(q) = w \o q
           /\ Append(w, Head(q)) = SubSeq(w \o q, 1, Len(w) + 1)
           /\ Len(w) < Len(w \o q)
OBVIOUS

\* Everything written: a flush has at most one frame left to write.
LEMMA NothingLeft ==
    ASSUME NEW w \in Seq(Frames), NEW q \in Seq(Frames)
    PROVE  /\ q = <<>> => w \o q = w /\ Len(w \o q) - Len(w) <= 1
           /\ q # <<>> /\ Tail(q) = <<>> =>
                Append(w, Head(q)) = w \o q /\ Len(w \o q) - Len(w) <= 1
<1>1. w \o <<>> = w  BY ConcatEmptySeq
<1>2. Len(w) \in Nat  BY LenProperties
<1>3. ASSUME q # <<>>, Tail(q) = <<>>
      PROVE  Append(w, Head(q)) = w \o q /\ Len(w \o q) - Len(w) <= 1
  <2>1. Append(w, Head(q)) \in Seq(Frames) /\ Len(Append(w, Head(q))) = Len(w) + 1
    BY <1>3, HeadTailProperties, AppendProperties
  <2>2. Append(w, Head(q)) \o <<>> = w \o q  BY <1>3, WriteTheFirst
  <2>3. Append(w, Head(q)) = w \o q  BY <2>1, <2>2, ConcatEmptySeq
  <2> QED  BY <1>2, <2>1, <2>3
<1> QED  BY <1>1, <1>2, <1>3

-----------------------------------------------------------------------------
(* FrameStream's actions, in the connection's own variables. *)

AcceptStep == /\ Phase = "open"
              /\ \E f \in Frames : accepted' = Append(accepted, f)
              /\ UNCHANGED written /\ Phase' = Phase /\ Told' = Told
WriteStep == /\ Phase \in {"open", "draining"} /\ Len(written) < Len(accepted)
             /\ written' = SubSeq(accepted, 1, Len(written) + 1)
             /\ UNCHANGED accepted /\ Phase' = Phase /\ Told' = Told
DrainStep == /\ Phase = "open" /\ Phase' = "draining"
             /\ UNCHANGED <<accepted, written>> /\ Told' = Told
FlushedStep == /\ Phase \in {"open", "draining"} /\ Len(accepted) - Len(written) <= 1
               /\ written' = accepted /\ Phase' = "flushed"
               /\ UNCHANGED accepted /\ Told' = Told
CutStep == /\ Phase \in {"open", "draining"} /\ Phase' = "cut"
           /\ UNCHANGED <<accepted, written>> /\ Told' = Told
TellStep == /\ Phase \in {"flushed", "cut"} /\ ~Told /\ Told'
            /\ UNCHANGED <<accepted, written>> /\ Phase' = Phase
Stutters == UNCHANGED <<accepted, written>> /\ Phase' = Phase /\ Told' = Told

StreamStep == \/ AcceptStep \/ WriteStep \/ DrainStep \/ FlushedStep \/ CutStep
              \/ TellStep \/ Stutters

\* There is a write exactly while there is something to write.
LEMMA WritesWhileQueued ==
    ASSUME ConnectionInv, ~closed
    PROVE  writeInProgress <=> writeQueue # <<>>
<1>1. CASE writeQueue = <<>>  BY <1>1 DEF ConnectionInv, F!QueueIsWritten
<1>2. CASE writeQueue # <<>>
  <2>1. operation \in Frames  BY <1>2 DEF ConnectionInv, F!QueueIsWritten, ConnectionTypes
  <2> QED  BY <1>2, <2>1, ConnectionAssumption DEF ConnectionInv, F!QueueIsWritten, F!None
<1> QED  BY <1>1, <1>2

LEMMA SendStep ==
    ASSUME ConnectionInv, NEW f \in Frames, F!Send(f)
    PROVE  ConnectionInv' /\ StreamStep
<1>1. ~closed /\ ~closeAfterFlush /\ ConnectionTypes /\ EndIsFinal /\ F!QueueIsWritten
  BY DEF ConnectionInv, F!Send, F!MaySend
<1>2. /\ accepted' = Append(accepted, f) /\ writeQueue' = Append(writeQueue, f)
      /\ UNCHANGED <<closed, closeAfterFlush, closeHandler, why, written>>
  BY DEF F!Send
<1>3. writeInProgress <=> writeQueue # <<>>  BY <1>1, WritesWhileQueued
<1>4. writeInProgress' = TRUE /\ operation' = Head(writeQueue')
  <2>1. CASE writeInProgress
    <3>1. operation = Head(writeQueue) /\ writeQueue # <<>>
      BY <1>1, <1>3, <2>1 DEF F!QueueIsWritten
    <3>2. Head(Append(writeQueue, f)) = Head(writeQueue)
      BY <1>1, <3>1 DEF ConnectionTypes
    <3> QED  BY <1>2, <2>1, <3>1, <3>2 DEF F!Send
  <2>2. CASE ~writeInProgress  BY <2>2 DEF F!Send
  <2> QED  BY <2>1, <2>2 DEF ConnectionTypes
<1>5. /\ writeQueue' \in Seq(Frames) /\ accepted' \in Seq(Frames)
      /\ writeQueue' # <<>> /\ Head(writeQueue') \in Frames
  BY <1>1, <1>2 DEF ConnectionTypes
<1>6. ConnectionTypes'  BY <1>1, <1>2, <1>4, <1>5 DEF ConnectionTypes
<1>7. F!QueueIsWritten'
  <2>1. accepted' = written' \o writeQueue'
    BY <1>1, <1>2, AppendToQueue DEF ConnectionTypes, F!QueueIsWritten
  <2>2. operation' # F!None
    BY <1>4, <1>5, ConnectionAssumption DEF F!None
  <2> QED  BY <1>1, <1>2, <1>4, <1>5, <2>1, <2>2 DEF F!QueueIsWritten
<1>8. EndIsFinal'  BY <1>1, <1>2 DEF EndIsFinal
<1>9. AcceptStep  BY <1>1, <1>2 DEF AcceptStep, Phase, Told
<1> QED  BY <1>6, <1>7, <1>8, <1>9 DEF ConnectionInv, StreamStep

\* What FinishClose leaves, whoever calls it: nothing that was written changes.
LEMMA FinishCloseStep ==
    ASSUME ConnectionInv, NEW reason \in {"flushed", "cut"}, F!FinishClose(reason),
           writeQueue' \in Seq(Frames), operation' \in Frames \cup {F!None},
           accepted' = accepted, written' \in Seq(Frames),
           closed => written' = written,
           ~closed /\ reason = "cut" => written' = written,
           ~closed /\ reason = "flushed" =>
               written' = accepted /\ Len(accepted) - Len(written) <= 1
    PROVE  ConnectionInv' /\ StreamStep
<1>1. ConnectionTypes /\ EndIsFinal  BY DEF ConnectionInv
<1>2. /\ closed' = TRUE /\ writeInProgress' = FALSE /\ closeAfterFlush' = FALSE
      /\ closeHandler' = IF closed THEN closeHandler ELSE "posted"
      /\ why' = IF closed THEN why ELSE reason
  BY DEF F!FinishClose
<1>3. ConnectionTypes'  BY <1>1, <1>2 DEF ConnectionTypes
<1>4. EndIsFinal'  BY <1>1, <1>2 DEF EndIsFinal
<1>5. F!QueueIsWritten'  BY <1>2 DEF F!QueueIsWritten
<1>6. StreamStep
  <2>1. CASE closed
    <3>1. Stutters  BY <1>1, <1>2, <2>1 DEF Stutters, Phase, Told, EndIsFinal
    <3> QED  BY <3>1 DEF StreamStep
  <2>2. CASE ~closed /\ reason = "cut"
    <3>1. CutStep
      BY <1>1, <1>2, <2>2 DEF CutStep, Phase, Told, EndIsFinal, ConnectionTypes
    <3> QED  BY <3>1 DEF StreamStep
  <2>3. CASE ~closed /\ reason = "flushed"
    <3>1. FlushedStep
      BY <1>1, <1>2, <2>3 DEF FlushedStep, Phase, Told, EndIsFinal, ConnectionTypes
    <3> QED  BY <3>1 DEF StreamStep
  <2> QED  BY <2>1, <2>2, <2>3 DEF ConnectionTypes
<1> QED  BY <1>3, <1>4, <1>5, <1>6 DEF ConnectionInv

\* A close, a send that does not fit and an operation that fails cut it.
LEMMA CutsStep ==
    ASSUME ConnectionInv, F!FinishClose("cut"),
           UNCHANGED <<writeQueue, accepted, written>>,
           operation' \in {operation, F!None}
    PROVE  ConnectionInv' /\ StreamStep
<1>1. ConnectionTypes  BY DEF ConnectionInv
<1>2. operation' \in Frames \cup {F!None} /\ writeQueue' \in Seq(Frames)
      /\ written' \in Seq(Frames) /\ written' = written /\ accepted' = accepted
  BY <1>1 DEF ConnectionTypes
<1>3. "cut" \in {"flushed", "cut"} /\ "cut" # "flushed"  OBVIOUS
<1> QED  BY <1>2, <1>3, FinishCloseStep

LEMMA CloseAfterFlushStep ==
    ASSUME ConnectionInv, F!CloseAfterFlush
    PROVE  ConnectionInv' /\ StreamStep
<1>1. /\ ConnectionTypes /\ EndIsFinal /\ F!QueueIsWritten /\ ~closed /\ ~closeAfterFlush
      /\ UNCHANGED <<writeQueue, operation, reading, accepted, written>>
  BY DEF ConnectionInv, F!CloseAfterFlush, F!history
<1>2. CASE writeQueue = <<>> /\ F!FinishClose("flushed")
  <2>1. accepted = written \o writeQueue  BY <1>1 DEF F!QueueIsWritten
  <2>2. written' = accepted /\ Len(accepted) - Len(written) <= 1
    BY <1>1, <1>2, <2>1, NothingLeft DEF ConnectionTypes
  <2>3. operation' \in Frames \cup {F!None} /\ writeQueue' \in Seq(Frames)
        /\ written' \in Seq(Frames) /\ accepted' = accepted
    BY <1>1 DEF ConnectionTypes
  <2>4. "flushed" \in {"flushed", "cut"} /\ "cut" # "flushed"  OBVIOUS
  <2> QED  BY <1>1, <1>2, <2>2, <2>3, <2>4, FinishCloseStep
<1>3. CASE /\ writeQueue # <<>> /\ closeAfterFlush' = TRUE
           /\ UNCHANGED <<closed, pendingWriteBytes, writeInProgress, closeHandler, why>>
  <2>1. ConnectionTypes'  BY <1>1, <1>3 DEF ConnectionTypes
  <2>2. EndIsFinal'  BY <1>1, <1>3 DEF EndIsFinal
  <2>3. F!QueueIsWritten'  BY <1>1, <1>3 DEF F!QueueIsWritten
  <2>4. DrainStep  BY <1>1, <1>3 DEF DrainStep, Phase, Told
  <2> QED  BY <2>1, <2>2, <2>3, <2>4 DEF ConnectionInv, StreamStep
<1>4. writeInProgress <=> writeQueue # <<>>  BY <1>1, WritesWhileQueued
<1> QED  BY <1>2, <1>3, <1>4 DEF F!CloseAfterFlush

LEMMA WriteCompletesStep ==
    ASSUME ConnectionInv, F!WriteCompletes
    PROVE  ConnectionInv' /\ StreamStep
<1>1. /\ ConnectionTypes /\ EndIsFinal /\ F!QueueIsWritten
      /\ operation # F!None /\ accepted' = accepted
  BY DEF ConnectionInv, F!WriteCompletes
<1>2. CASE closed
  <2>1. /\ operation' = F!None
        /\ UNCHANGED <<closed, closeAfterFlush, writeQueue, writeInProgress,
                       closeHandler, why, accepted, written>>
    BY <1>2 DEF F!WriteCompletes
  <2>2. ConnectionTypes'  BY <1>1, <2>1 DEF ConnectionTypes
  <2>3. EndIsFinal' /\ F!QueueIsWritten'
    BY <1>1, <1>2, <2>1 DEF EndIsFinal, F!QueueIsWritten
  <2>4. Stutters  BY <2>1 DEF Stutters, Phase, Told
  <2> QED  BY <2>2, <2>3, <2>4 DEF ConnectionInv, StreamStep
<1>3. CASE ~closed
  <2>1. /\ written' = Append(written, operation) /\ writeQueue' = Tail(writeQueue)
        /\ F!WriteNext(Tail(writeQueue))
    BY <1>3 DEF F!WriteCompletes
  <2>2. /\ writeQueue # <<>> /\ operation = Head(writeQueue)
        /\ accepted = written \o writeQueue
    BY <1>1, <1>3 DEF F!QueueIsWritten
  <2>3. /\ Tail(writeQueue) \in Seq(Frames) /\ operation \in Frames
        /\ written' \in Seq(Frames)
    <3>1. writeQueue \in Seq(Frames) /\ written \in Seq(Frames)
      BY <1>1 DEF ConnectionTypes
    <3>2. Tail(writeQueue) \in Seq(Frames) /\ Head(writeQueue) \in Frames
      BY <2>2, <3>1, HeadTailProperties
    <3> QED  BY <2>1, <2>2, <3>1, <3>2, AppendProperties
  <2>4. /\ written' \o Tail(writeQueue) = accepted
        /\ written' = SubSeq(accepted, 1, Len(written) + 1)
        /\ Len(written) < Len(accepted)
    BY <1>1, <2>1, <2>2, WriteTheFirst DEF ConnectionTypes
  <2>5. CASE Tail(writeQueue) # <<>>
    <3>1. /\ writeInProgress' = TRUE /\ operation' = Head(Tail(writeQueue))
          /\ UNCHANGED <<closed, closeAfterFlush, closeHandler, why>>
      BY <2>1, <2>5 DEF F!WriteNext
    <3>2. operation' \in Frames  BY <2>3, <2>5, <3>1, HeadTailProperties
    <3>3. ConnectionTypes'  BY <1>1, <2>1, <2>3, <3>1, <3>2 DEF ConnectionTypes
    <3>4. operation' # F!None  BY <3>2, ConnectionAssumption DEF F!None
    <3>5. F!QueueIsWritten'
      BY <1>1, <2>1, <2>4, <2>5, <3>1, <3>4 DEF F!QueueIsWritten
    <3>6. EndIsFinal'  BY <1>1, <3>1 DEF EndIsFinal
    <3>7. Phase \in {"open", "draining"}  BY <1>3 DEF Phase
    <3>8. WriteStep  BY <1>1, <2>4, <3>1, <3>7 DEF WriteStep, Phase, Told
    <3> QED  BY <3>3, <3>5, <3>6, <3>8 DEF ConnectionInv, StreamStep
  <2>6. CASE Tail(writeQueue) = <<>> /\ closeAfterFlush
    <3>1. operation' = F!None /\ F!FinishClose("flushed")  BY <2>1, <2>6 DEF F!WriteNext
    <3>2. written' = accepted /\ Len(accepted) - Len(written) <= 1
      BY <1>1, <2>1, <2>2, <2>6, NothingLeft DEF ConnectionTypes
    <3>3. writeQueue' \in Seq(Frames) /\ operation' \in Frames \cup {F!None}
      BY <2>1, <2>3, <3>1
    <3>4. "flushed" \in {"flushed", "cut"} /\ "cut" # "flushed"  OBVIOUS
    <3> QED  BY <1>1, <1>3, <2>3, <3>1, <3>2, <3>3, <3>4, FinishCloseStep
  <2>7. CASE Tail(writeQueue) = <<>> /\ ~closeAfterFlush
    <3>1. /\ writeInProgress' = FALSE /\ operation' = F!None
          /\ UNCHANGED <<closed, closeAfterFlush, closeHandler, why>>
      BY <2>1, <2>7 DEF F!WriteNext
    <3>2. ConnectionTypes'  BY <1>1, <2>1, <2>3, <3>1 DEF ConnectionTypes
    <3>3. F!QueueIsWritten'
      BY <1>1, <2>1, <2>4, <2>7, <3>1 DEF F!QueueIsWritten
    <3>4. EndIsFinal'  BY <1>1, <3>1 DEF EndIsFinal
    <3>5. Phase \in {"open", "draining"}  BY <1>3 DEF Phase
    <3>6. WriteStep  BY <1>1, <2>4, <3>1, <3>5 DEF WriteStep, Phase, Told
    <3> QED  BY <3>2, <3>3, <3>4, <3>6 DEF ConnectionInv, StreamStep
  <2> QED  BY <2>5, <2>6, <2>7
<1> QED  BY <1>2, <1>3

\* Reads, and the handler that tells the owner.
LEMMA RestStep ==
    ASSUME ConnectionInv, F!ReadFrame \/ F!Notify \/ UNCHANGED F!vars
    PROVE  ConnectionInv' /\ StreamStep
<1>1. ConnectionTypes /\ EndIsFinal /\ F!QueueIsWritten  BY DEF ConnectionInv
<1>2. CASE F!ReadFrame \/ UNCHANGED F!vars
  <2>1. UNCHANGED <<closed, closeAfterFlush, writeQueue, writeInProgress, operation,
                    closeHandler, why, accepted, written>>
    BY <1>2 DEF F!ReadFrame, F!vars, F!queueVars, F!history
  <2>2. ConnectionTypes' /\ EndIsFinal' /\ F!QueueIsWritten'
    BY <1>1, <2>1 DEF ConnectionTypes, EndIsFinal, F!QueueIsWritten
  <2>3. Stutters  BY <2>1 DEF Stutters, Phase, Told
  <2> QED  BY <2>2, <2>3 DEF ConnectionInv, StreamStep
<1>3. CASE F!Notify
  <2>1. /\ closeHandler = "posted" /\ closeHandler' = "called"
        /\ UNCHANGED <<closed, closeAfterFlush, writeQueue, writeInProgress, operation,
                       why, accepted, written>>
    BY <1>3 DEF F!Notify, F!queueVars, F!history
  <2>2. ConnectionTypes' /\ EndIsFinal' /\ F!QueueIsWritten'
    BY <1>1, <2>1 DEF ConnectionTypes, EndIsFinal, F!QueueIsWritten
  <2>3. closed /\ why \in {"flushed", "cut"}
    BY <1>1, <2>1 DEF EndIsFinal, ConnectionTypes
  <2>4. TellStep  BY <2>1, <2>3 DEF TellStep, Phase, Told
  <2> QED  BY <2>2, <2>4 DEF ConnectionInv, StreamStep
<1> QED  BY <1>2, <1>3

LEMMA NextStep ==
    ASSUME ConnectionInv, [F!Next]_(F!vars)
    PROVE  ConnectionInv' /\ StreamStep
<1>1. ASSUME NEW f \in Frames, F!Send(f)  PROVE ConnectionInv' /\ StreamStep
  BY <1>1, SendStep
<1>2. ASSUME NEW f \in Frames, F!SendTooMuch(f)  PROVE ConnectionInv' /\ StreamStep
  BY <1>2, CutsStep DEF F!SendTooMuch, F!history
<1>3. CASE F!Close  BY <1>3, CutsStep DEF F!Close, F!history
<1>4. CASE F!CloseAfterFlush  BY <1>4, CloseAfterFlushStep
<1>5. CASE F!WriteCompletes  BY <1>5, WriteCompletesStep
<1>6. CASE F!WriteFails  BY <1>6, CutsStep DEF F!WriteFails, F!history
<1>7. CASE F!ReadFails  BY <1>7, CutsStep DEF F!ReadFails, F!history
<1>8. CASE F!ReadFrame \/ F!Notify \/ UNCHANGED F!vars  BY <1>8, RestStep
<1> QED  BY <1>1, <1>2, <1>3, <1>4, <1>5, <1>6, <1>7, <1>8 DEF F!Next

LEMMA ConnectionInit ==
    ASSUME F!Init
    PROVE  ConnectionInv
<1>1. ConnectionTypes
  <2>1. <<>> \in Seq(Frames)  BY EmptySeq
  <2> QED  BY <2>1 DEF F!Init, ConnectionTypes
<1>2. EndIsFinal  BY DEF F!Init, EndIsFinal
<1>3. F!QueueIsWritten
  <2>1. <<>> \o <<>> = <<>>  BY EmptySeq, ConcatEmptySeq
  <2> QED  BY <2>1 DEF F!Init, F!QueueIsWritten
<1> QED  BY <1>1, <1>2, <1>3 DEF ConnectionInv

-----------------------------------------------------------------------------
\* The write under way is of the first frame of the queue, and a connection that
\* is to flush has something to write (AsioFramedConnection.cpp:75-145), for any
\* frames, sizes and limit.
THEOREM QueueAlwaysWritten == F!Spec => []F!QueueIsWritten
<1>1. F!Init => ConnectionInv  BY ConnectionInit
<1>2. ConnectionInv /\ [F!Next]_(F!vars) => ConnectionInv'  BY NextStep
<1>3. ConnectionInv => F!QueueIsWritten  BY DEF ConnectionInv
<1> QED  BY <1>1, <1>2, <1>3, PTL DEF F!Spec

\* The connection is a stream: frames leave it whole, once and in order, a flush
\* has written them all, and the owner hears of the end once.
THEOREM ConnectionIsAStream == F!Spec => F!Stream!StreamSpec
<1>1. F!Init => ConnectionInv /\ F!Stream!StreamInit
  <2>1. F!Init => F!Stream!StreamInit  BY DEF F!Init, F!Stream!StreamInit
  <2> QED  BY <2>1, ConnectionInit
<1>2. ConnectionInv /\ [F!Next]_(F!vars)
        => ConnectionInv' /\ [F!Stream!StreamNext]_(F!Stream!streamVars)
  <2> SUFFICES ASSUME ConnectionInv, [F!Next]_(F!vars)
               PROVE  ConnectionInv' /\ [F!Stream!StreamNext]_(F!Stream!streamVars)
    OBVIOUS
  <2>1. ConnectionInv' /\ StreamStep  BY NextStep
  <2>2. CASE AcceptStep
    BY <2>1, <2>2 DEF AcceptStep, Phase, Told, F!Stream!StreamNext, F!Stream!Accept
  <2>3. CASE WriteStep
    BY <2>1, <2>3 DEF WriteStep, Phase, Told, F!Stream!StreamNext, F!Stream!Write
  <2>4. CASE DrainStep
    BY <2>1, <2>4 DEF DrainStep, Phase, Told, F!Stream!StreamNext, F!Stream!Drain
  <2>5. CASE FlushedStep
    BY <2>1, <2>5 DEF FlushedStep, Phase, Told, F!Stream!StreamNext, F!Stream!Flushed
  <2>6. CASE CutStep
    BY <2>1, <2>6 DEF CutStep, Phase, Told, F!Stream!StreamNext, F!Stream!Cut
  <2>7. CASE TellStep
    BY <2>1, <2>7 DEF TellStep, Phase, Told, F!Stream!StreamNext, F!Stream!Tell
  <2>8. CASE Stutters
    BY <2>1, <2>8 DEF Stutters, Phase, Told, F!Stream!streamVars
  <2>9. [F!Stream!StreamNext]_(F!Stream!streamVars)
    BY <2>1, <2>2, <2>3, <2>4, <2>5, <2>6, <2>7, <2>8 DEF StreamStep
  <2> QED  BY <2>1, <2>9
<1> QED  BY <1>1, <1>2, PTL DEF F!Spec, F!Stream!StreamSpec

-----------------------------------------------------------------------------
(* The bytes of a queue: they add up frame by frame, from either end. *)

Bytes(q) == F!FoldLeft(LAMBDA sum, f : sum + Size[f], 0, q)

Sums(r, q) ==
    /\ r \in [0 .. Len(q) -> Nat] /\ r[0] = 0 /\ r[Len(q)] = Bytes(q)
    /\ \A i \in 1 .. Len(q) : r[i] = r[i - 1] + Size[q[i]]

\* The fold adds the frames' bytes up, from the first one on.
LEMMA BytesFold ==
    ASSUME NEW q \in Seq(Frames)
    PROVE  \E r : Sums(r, q)
<1> DEFINE n == Len(q)
           D == SUBSET (1 .. n)
           g == [t \in Nat |-> [v \in Frames |-> t + Size[v]]]
           Solves(f) == f = [S \in D |-> IF S = {} THEN 0
                                ELSE f[S \ {F!Max(S)}] + Size[q[F!Max(S)]]]
<1>0. \A S : F!Max(S) = Max(S)  BY DEF F!Max, Max
<1>1. n \in Nat /\ q \in [1 .. n -> Frames] /\ DOMAIN q = 1 .. n  OBVIOUS
<1>2. g \in [Nat -> [Frames -> Nat]]  BY ConnectionAssumption
<1>3. PICK f \in [D -> Nat] : Folds(f, g, 0, q, n)
  <2> HIDE DEF g
  <2> QED  BY <1>1, <1>2, FoldExists
<1>4. ASSUME NEW S \in D, S # {} PROVE Max(S) \in S /\ q[Max(S)] \in Frames
  BY <1>1, <1>4, MaxIn
<1>5. Solves(f)
  <2>1. ASSUME NEW S \in D
        PROVE  f[S] = IF S = {} THEN 0 ELSE f[S \ {F!Max(S)}] + Size[q[F!Max(S)]]
    <3>1. S # {} => f[S \ {Max(S)}] \in Nat /\ q[Max(S)] \in Frames  BY <1>1, <1>4
    <3> QED  BY <1>0, <1>3, <3>1 DEF Folds
  <2> QED  BY <2>1
<1> DEFINE e == CHOOSE h : Solves(h)
<1>6. Solves(e)  BY <1>5
<1>7. Bytes(q) = e[1 .. n]
  BY <1>1 DEF Bytes, F!FoldLeft, F!MapThenFoldSet
<1>8. e[{}] = 0 /\ \A S \in D : S # {} => e[S] = e[S \ {Max(S)}] + Size[q[Max(S)]]
  <2> HIDE DEF e
  <2> QED  BY <1>0, <1>6
<1>9. PICK r \in [0 .. n -> Nat] : Chain(r, g, 0, q, n, e[1 .. n])
  <2>1. ASSUME NEW S \in D, S # {}, e[S \ {Max(S)}] \in Nat
        PROVE  e[S] = g[e[S \ {Max(S)}]][q[Max(S)]]
    <3> HIDE DEF e
    <3> QED  BY <1>4, <1>8, <2>1
  <2>2. e[{}] = 0  BY <1>8
  <2>3. \A S \in SUBSET (1 .. n) : S # {} /\ e[S \ {Max(S)}] \in Nat =>
            e[S] = g[e[S \ {Max(S)}]][q[Max(S)]]
    <3> HIDE DEF g, e
    <3> QED  BY <2>1
  <2> HIDE DEF g, e, n
  <2>4. Unfolds(e, g, 0, q, n, Nat)  BY <2>2, <2>3 DEF Unfolds
  <2> QED  BY <1>1, <1>2, <2>4, FoldChain
<1>10. \A i \in 1 .. n : r[i] = r[i - 1] + Size[q[i]]
  <2>1. ASSUME NEW i \in 1 .. n PROVE r[i - 1] \in Nat /\ q[i] \in Frames  BY <1>1
  <2> QED  BY <1>9, <2>1 DEF Chain
<1> HIDE DEF e, g
<1> QED  BY <1>7, <1>9, <1>10 DEF Chain, Sums

LEMMA BytesEmpty == Bytes(<<>>) = 0
<1>1. <<>> \in Seq(Frames) /\ Len(<<>>) = 0  OBVIOUS
<1> DEFINE q == <<>>
<1> HIDE DEF q
<1>2. PICK r : Sums(r, q)  BY <1>1, BytesFold DEF q
<1>3. Len(q) = 0  BY DEF q
<1> QED  BY <1>2, <1>3 DEF Sums, q

\* Two sums of the same frames, the second of which starts where k frames of the
\* first are summed.
Overlaps(p, q, k, n) ==
    n <= Len(q) /\ k + n <= Len(p) /\ \A i \in 1 .. n : q[i] = p[k + i]

LEMMA SumsAgree ==
    ASSUME NEW p \in Seq(Frames), NEW q \in Seq(Frames), NEW k \in Nat, NEW n \in Nat,
           Overlaps(p, q, k, n), NEW a, Sums(a, p), NEW b, Sums(b, q)
    PROVE  a[k + n] = a[k] + b[n]
<1>0. /\ n <= Len(q) /\ k + n <= Len(p) /\ \A i \in 1 .. n : q[i] = p[k + i]
      /\ a \in [0 .. Len(p) -> Nat] /\ b \in [0 .. Len(q) -> Nat] /\ b[0] = 0
  BY DEF Overlaps, Sums
<1> DEFINE B == {i \in 0 .. n : a[k + i] # a[k] + b[i]}
<1>1. B = {}
  <2> SUFFICES ASSUME B # {} PROVE FALSE  OBVIOUS
  <2>1. B \subseteq Nat  OBVIOUS
  <2>2. PICK i \in B : \A j \in B : i <= j
    <3> HIDE DEF B
    <3> QED  BY <2>1, LeastNatural
  <2>3. i # 0
    <3>1. k \in 0 .. Len(p)  BY <1>0
    <3>2. a[k] \in Nat  BY <1>0, <3>1
    <3>3. a[k + 0] = a[k] + b[0]  BY <1>0, <3>2
    <3> QED  BY <2>2, <3>3
  <2>4. i \in 1 .. n /\ i - 1 \in 0 .. n /\ i - 1 \notin B  BY <2>2, <2>3
  <2>5. a[k + (i - 1)] = a[k] + b[i - 1]  BY <2>4
  <2>6. i \in 1 .. Len(q) /\ b[i] = b[i - 1] + Size[q[i]]
    <3>1. i \in 1 .. Len(q)  BY <1>0, <2>4
    <3> HIDE DEF B
    <3> QED  BY <3>1 DEF Sums
  <2>7. k + i \in 1 .. Len(p) /\ a[k + i] = a[(k + i) - 1] + Size[p[k + i]]
    BY <1>0, <2>4 DEF Sums
  <2>8. (k + i) - 1 = k + (i - 1)  BY <2>4
  <2>9. q[i] = p[k + i] /\ q[i] \in Frames /\ Size[q[i]] \in Nat
    BY <1>0, <2>4, <2>6, ConnectionAssumption
  <2>10. a[k] \in Nat /\ b[i - 1] \in Nat
    <3> k \in 0 .. Len(p) /\ i - 1 \in 0 .. Len(q)  BY <1>0, <2>4
    <3> QED  BY <1>0
  <2>11. a[k + i] = a[k] + b[i]  BY <2>5, <2>6, <2>7, <2>8, <2>9, <2>10
  <2> QED  BY <2>2, <2>11
<1>2. n \in 0 .. n  OBVIOUS
<1> QED  BY <1>1, <1>2

\* One frame more at the end, and one less at the front.
LEMMA BytesAppend ==
    ASSUME NEW q \in Seq(Frames), NEW f \in Frames
    PROVE  Bytes(Append(q, f)) = Bytes(q) + Size[f] /\ Bytes(q) \in Nat
<1> DEFINE p == Append(q, f)
           n == Len(q)
<1>1. /\ n \in Nat /\ p \in Seq(Frames) /\ Len(p) = n + 1 /\ p[n + 1] = f
      /\ \A i \in 1 .. n : p[i] = q[i]
  OBVIOUS
<1> HIDE DEF p
<1>2. PICK a : Sums(a, p)  BY <1>1, BytesFold
<1>3. PICK b : Sums(b, q)  BY BytesFold
<1>4. a[0 + n] = a[0] + b[n]
  <2>1. Overlaps(p, q, 0, n)  BY <1>1 DEF Overlaps
  <2> QED  BY <1>1, <1>2, <1>3, <2>1, SumsAgree
<1>5. a[n + 1] = a[n] + Size[f]
  <2>1. n + 1 \in 1 .. Len(p) /\ (n + 1) - 1 = n  BY <1>1
  <2> QED  BY <1>1, <1>2, <2>1 DEF Sums
<1>6. a[0] = 0 /\ b[n] = Bytes(q) /\ a[n + 1] = Bytes(p)  BY <1>1, <1>2, <1>3 DEF Sums
<1>7. b[n] \in Nat  BY <1>1, <1>3 DEF Sums
<1> QED  BY <1>1, <1>4, <1>5, <1>6, <1>7 DEF p

LEMMA BytesTail ==
    ASSUME NEW q \in Seq(Frames), q # <<>>
    PROVE  /\ Bytes(q) = Size[Head(q)] + Bytes(Tail(q))
           /\ Bytes(Tail(q)) \in Nat /\ Size[Head(q)] \in Nat
<1> DEFINE p == Tail(q)
           n == Len(q) - 1
<1>1. /\ n \in Nat /\ p \in Seq(Frames) /\ Len(p) = n /\ Len(q) = 1 + n
      /\ \A i \in 1 .. n : p[i] = q[1 + i]
      /\ Head(q) = q[1] /\ q[1] \in Frames
  OBVIOUS
<1> HIDE DEF p, n
<1>2. PICK a : Sums(a, q)  BY BytesFold
<1>3. PICK b : Sums(b, p)  BY <1>1, BytesFold
<1>4. a[1 + n] = a[1] + b[n]
  <2>1. Overlaps(q, p, 1, n)  BY <1>1 DEF Overlaps
  <2> QED  BY <1>1, <1>2, <1>3, <2>1, SumsAgree
<1>5. a[1] = a[0] + Size[q[1]]
  <2>1. 1 \in 1 .. Len(q) /\ 1 - 1 = 0  BY <1>1
  <2> QED  BY <1>2, <2>1 DEF Sums
<1>6. a[0] = 0 /\ b[n] = Bytes(p) /\ a[1 + n] = Bytes(q)  BY <1>1, <1>2, <1>3 DEF Sums
<1>7. b[n] \in Nat /\ Size[q[1]] \in Nat  BY <1>1, <1>3, ConnectionAssumption DEF Sums
<1> QED  BY <1>1, <1>4, <1>5, <1>6, <1>7 DEF p

\* What is counted, with the connection's own fold written as Bytes.
BytesInv ==
    ~closed => pendingWriteBytes = Bytes(writeQueue) /\ pendingWriteBytes <= MaxPending

LEMMA BytesStep ==
    ASSUME ConnectionInv, BytesInv, [F!Next]_(F!vars)
    PROVE  BytesInv'
<1>1. CASE closed'  BY <1>1 DEF BytesInv
<1>2. CASE ~closed' /\ \E f \in Frames : F!Send(f)
  <2>1. PICK f \in Frames : F!Send(f)  BY <1>2
  <2>2. /\ ~closed /\ Size[f] <= MaxPending - pendingWriteBytes
        /\ writeQueue' = Append(writeQueue, f)
        /\ pendingWriteBytes' = pendingWriteBytes + Size[f]
    BY <2>1 DEF F!Send, F!MaySend, F!Fits
  <2>3. writeQueue \in Seq(Frames)  BY DEF ConnectionInv, ConnectionTypes
  <2>4. Bytes(writeQueue') = Bytes(writeQueue) + Size[f] /\ Bytes(writeQueue) \in Nat
    BY <2>2, <2>3, BytesAppend
  <2>5. Size[f] \in Nat /\ MaxPending \in Nat  BY ConnectionAssumption
  <2> QED  BY <2>2, <2>4, <2>5 DEF BytesInv
<1>3. CASE ~closed' /\ F!WriteCompletes
  <2>1. ~closed /\ operation # F!None  BY <1>3 DEF F!WriteCompletes
  <2>2. writeQueue # <<>> /\ writeQueue \in Seq(Frames)
    BY <2>1 DEF ConnectionInv, ConnectionTypes, F!QueueIsWritten
  <2>3. /\ writeQueue' = Tail(writeQueue)
        /\ pendingWriteBytes' = pendingWriteBytes - Size[Head(writeQueue)]
    BY <1>3, <2>1 DEF F!WriteCompletes
  <2>4. /\ Bytes(writeQueue) = Size[Head(writeQueue)] + Bytes(writeQueue')
        /\ Bytes(writeQueue') \in Nat /\ Size[Head(writeQueue)] \in Nat
    BY <2>2, <2>3, BytesTail
  <2>5. MaxPending \in Nat  BY ConnectionAssumption
  <2> QED  BY <2>1, <2>3, <2>4, <2>5 DEF BytesInv
<1>4. CASE ~closed' /\ UNCHANGED <<closed, writeQueue, pendingWriteBytes>>
  BY <1>4 DEF BytesInv
<1>5. \/ closed' \/ F!WriteCompletes \/ (\E f \in Frames : F!Send(f))
      \/ UNCHANGED <<closed, writeQueue, pendingWriteBytes>>
  <2>1. CASE \E f \in Frames : F!SendTooMuch(f)
    BY <2>1 DEF F!SendTooMuch, F!FinishClose
  <2>2. CASE F!Close \/ F!WriteFails \/ F!ReadFails
    BY <2>2 DEF F!Close, F!WriteFails, F!ReadFails, F!FinishClose
  <2>3. CASE F!CloseAfterFlush  BY <2>3 DEF F!CloseAfterFlush, F!FinishClose
  <2>4. CASE F!ReadFrame \/ F!Notify
    BY <2>4 DEF F!ReadFrame, F!Notify, F!queueVars
  <2>5. CASE UNCHANGED F!vars  BY <2>5 DEF F!vars
  <2> QED  BY <2>1, <2>2, <2>3, <2>4, <2>5 DEF F!Next
<1> QED  BY <1>1, <1>2, <1>3, <1>4, <1>5

\* The bytes counted against the limit are those of the frames that are queued, so
\* that a frame is refused when it would exceed the limit and only then
\* (AsioFramedConnection.cpp:82), for any frames, sizes and limit.
THEOREM BytesAlwaysCounted == F!Spec => []F!BytesAreCounted
<1>1. F!Init => BytesInv
  BY BytesEmpty, ConnectionAssumption DEF F!Init, BytesInv
<1>2. ConnectionInv /\ BytesInv /\ [F!Next]_(F!vars) => ConnectionInv' /\ BytesInv'
  BY BytesStep, NextStep
<1>3. BytesInv => F!BytesAreCounted  BY DEF BytesInv, Bytes, F!BytesAreCounted
<1> QED  BY <1>1, <1>2, <1>3, ConnectionInit, PTL DEF F!Spec

\* All that is checked of the connection's safety: it is a stream, and all the while
\* its queue is being written and counted (AsioFramedConnection.cpp).
THEOREM StreamIsSafe == F!Spec => StreamSafe
BY ConnectionIsAStream, QueueAlwaysWritten, BytesAlwaysCounted, PTL DEF StreamSafe, F!StreamSafe
=============================================================================
