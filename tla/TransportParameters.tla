------------------------ MODULE TransportParameters ------------------------
(* What the client's two transports are built with: the queue of delayed      *)
(* datagrams and the framed connection.                                       *)
EXTENDS Naturals

CONSTANTS
    Delays,         \* the delays the shaper decides on, in ticks of the clock
    Capacity,       \* maximumQueuedPerPeer, 256
    MaxDatagram,    \* bound: the datagrams that are enqueued
    MaxTime         \* bound: the clock

CONSTANTS
    Frames,         \* names of frames
    Size,           \* the bytes of each
    MaxPending,     \* MaxPendingWriteBytes, 262144
    MaxFrames       \* bound: the frames that are accepted

ASSUME QueueAssumption ==
    /\ Delays \subseteq Nat
    /\ Capacity \in Nat \ {0} /\ MaxDatagram \in Nat \ {0} /\ MaxTime \in Nat

ASSUME ConnectionAssumption ==
    /\ "none" \notin Frames
    /\ Size \in [Frames -> Nat \ {0}]
    /\ MaxPending \in Nat \ {0} /\ MaxFrames \in Nat
=============================================================================
