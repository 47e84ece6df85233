--------------------------- MODULE DatagramQueue ---------------------------
(***************************************************************************)
(* The delayed datagrams of one peer (UdpDatagramQueue.cpp): what the       *)
(* shaper (DatagramShaper.cpp) decides to drop, to pass on at once or to    *)
(* hold back is kept in the order of its delivery time, under one timer     *)
(* that is cancelled and armed again whenever the front changes.  A         *)
(* cancelled timer still runs its handler, and an expired one may be        *)
(* cancelled too late; each handler carries the generation it was armed in. *)
(* Everything runs on one io_context; peers do not share anything.          *)
(***************************************************************************)
EXTENDS TransportParameters, FiniteSets, SequencesExt

VARIABLES
    now,
    nextOrdinal,
    items,          \* peer.items, in the order they will be delivered
    timer,          \* what the timer waits for: an expiry and its generation
    timerArmed, timerGeneration,
    handlers,       \* wait handlers that are ready to run
    stopped,
    delivered       \* the delayed datagrams passed on, with the time it was

vars == <<now, nextOrdinal, items, timer, timerArmed, timerGeneration, handlers,
          stopped, delivered>>
timerVars == <<timer, timerArmed, timerGeneration, handlers>>

NotWaiting == [at |-> 0, generation |-> 0]
Item == [time : Nat, ordinal : Nat \ {0}]

Init ==
    /\ now = 0 /\ nextOrdinal = 1 /\ items = <<>>
    /\ timer = NotWaiting /\ timerArmed = FALSE /\ timerGeneration = 0
    /\ handlers = {} /\ stopped = FALSE /\ delivered = <<>>

-----------------------------------------------------------------------------
\* Cancelling a waiting timer makes its handler ready, with an error.
Cancelled ==
    IF timer = NotWaiting THEN handlers
    ELSE handlers \cup {[generation |-> timer.generation, failed |-> TRUE]}

\* Arm, for the items that are left, with the handlers that are ready so far.
Arm(left, ready) ==
    IF left = <<>> \/ stopped
      THEN /\ timerArmed' = FALSE
           /\ handlers' = ready
           /\ UNCHANGED <<timer, timerGeneration>>
      ELSE /\ timerGeneration' = timerGeneration + 1
           /\ timer' = [at |-> left[1].time, generation |-> timerGeneration + 1]
           /\ timerArmed' = TRUE
           /\ handlers' = ready \cup (Cancelled \ handlers)

\* The order of delivery, and std::upper_bound in it.  (Insert's mutant appends.)
Before(left, right) ==
    \/ left.time < right.time
    \/ left.time = right.time /\ left.ordinal < right.ordinal
Place(item) == Cardinality({i \in DOMAIN items : ~Before(item, items[i])}) + 1
InsertLast(item) == Append(items, item)
Insert(item) == InsertAt(items, Place(item), item)

\* Enqueue, with what the shaper decides for the datagram: it is dropped, passed
\* on at once, refused because the queue is full, or held back.
Enqueue(drop, delay) ==
    /\ ~stopped /\ nextOrdinal <= MaxDatagram /\ now + delay <= MaxTime
    /\ nextOrdinal' = nextOrdinal + 1
    /\ IF drop \/ delay = 0 \/ Len(items) >= Capacity
         THEN UNCHANGED <<items, timerVars>>
         ELSE LET item == [time |-> now + delay, ordinal |-> nextOrdinal]
              IN  /\ items' = Insert(item)
                  /\ IF items'[1] = item \/ ~timerArmed
                       THEN Arm(items', handlers)
                       ELSE UNCHANGED timerVars
    /\ UNCHANGED <<now, stopped, delivered>>

Tick ==
    /\ now < MaxTime
    /\ now' = now + 1
    /\ UNCHANGED <<nextOrdinal, items, timerVars, stopped, delivered>>

\* The timer's expiry makes its handler ready.
Expire ==
    /\ timer # NotWaiting /\ timer.at <= now
    /\ handlers' = handlers \cup {[generation |-> timer.generation, failed |-> FALSE]}
    /\ timer' = NotWaiting
    /\ UNCHANGED <<now, nextOrdinal, items, timerArmed, timerGeneration, stopped, delivered>>

\* A handler of an earlier generation does nothing; neither does one that was
\* cancelled, or that finds the queue stopped.
Ignore(h) ==
    /\ h.generation # timerGeneration \/ h.failed \/ stopped
    /\ handlers' = handlers \ {h}
    /\ timerArmed' = IF h.generation = timerGeneration THEN FALSE ELSE timerArmed
    /\ UNCHANGED <<now, nextOrdinal, items, timer, timerGeneration, stopped, delivered>>

\* Stop, from outside or from a delivery: the timer is cancelled and the items
\* are let go of, with the peer itself.
StopWith(ready) ==
    /\ stopped' = TRUE
    /\ items' = <<>>
    /\ timer' = NotWaiting
    /\ timerArmed' = FALSE
    /\ handlers' = ready \cup (Cancelled \ handlers)
    /\ UNCHANGED timerGeneration

Stop == ~stopped /\ StopWith(handlers) /\ UNCHANGED <<now, nextOrdinal, delivered>>

\* DeliverDue: what is due leaves the queue, the timer is armed for the rest, and
\* then the datagrams are passed on, until one of their deliveries stops the
\* queue.  (Rearm's mutant leaves it to the next datagram to arm the timer.)
Due == {i \in DOMAIN items : items[i].time <= now}
DueItems == SubSeq(items, 1, Cardinality(Due))
RestItems == SubSeq(items, Cardinality(Due) + 1, Len(items))
RearmLater(ready) ==
    /\ timerArmed' = FALSE /\ handlers' = ready
    /\ UNCHANGED <<timer, timerGeneration>>
Rearm(ready) == Arm(RestItems, ready)
PassedOn(n) == [i \in 1 .. n |-> [item |-> DueItems[i], at |-> now]]

DeliverDue(h) ==
    /\ h.generation = timerGeneration /\ ~h.failed /\ ~stopped
    /\ items' = RestItems
    /\ Rearm(handlers \ {h})
    /\ delivered' = delivered \o PassedOn(Cardinality(Due))
    /\ UNCHANGED <<now, nextOrdinal, stopped>>

\* The same, when the n-th delivery stops the queue.
DeliverAndStop(h, n) ==
    /\ h.generation = timerGeneration /\ ~h.failed /\ ~stopped
    /\ n \in 1 .. Cardinality(Due)
    /\ StopWith(handlers \ {h})
    /\ delivered' = delivered \o PassedOn(n)
    /\ UNCHANGED <<now, nextOrdinal>>

RunHandler(h) ==
    \/ Ignore(h)
    \/ DeliverDue(h)
    \/ \E n \in 1 .. Capacity : DeliverAndStop(h, n)

Next ==
    \/ \E drop \in BOOLEAN, delay \in Delays : Enqueue(drop, delay)
    \/ Tick
    \/ Expire
    \/ \E h \in handlers : RunHandler(h)
    \/ Stop

Spec == Init /\ [][Next]_vars

\* Time passes, and the io_context runs the handlers that are ready.
FairSpec == Spec /\ WF_vars(Tick) /\ WF_vars(Expire)
                 /\ WF_vars(\E h \in handlers : RunHandler(h))

-----------------------------------------------------------------------------
(* Correctness. *)

\* Whatever is held back has a timer: it waits for the datagram to deliver next,
\* or has expired for it and its handler, of the present generation, is about to
\* run.  A handler of an earlier generation never takes that away
\* (UdpDatagramQueue.cpp:190-197).
TimerCoversFront ==
    items # <<>> =>
      /\ timerArmed
      /\ \/ timer = [at |-> items[1].time, generation |-> timerGeneration]
         \/ /\ timer = NotWaiting /\ items[1].time <= now
            /\ [generation |-> timerGeneration, failed |-> FALSE] \in handlers

\* Datagrams held back are passed on once each, never before their time, and in
\* the order of their times and numbers, however enqueueing, expiries, late
\* handlers and the stop of the queue come between each other.
DeliveriesInOrder ==
    /\ \A i \in DOMAIN delivered : delivered[i].item.time <= delivered[i].at
    /\ \A i, j \in DOMAIN delivered :
          i < j => Before(delivered[i].item, delivered[j].item)

\* Nothing is early, late or out of order for good.
DatagramsKeepTime == TimerCoversFront /\ DeliveriesInOrder

\* A datagram that is held back is passed on in the end, or the queue stops.
HeldBackIsDelivered ==
    \A n \in 1 .. MaxDatagram :
        (\E i \in DOMAIN items : items[i].ordinal = n) ~>
            \/ \E i \in DOMAIN delivered : delivered[i].item.ordinal = n
            \/ stopped
=============================================================================
