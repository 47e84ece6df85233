--------------------------- MODULE ControlChannel ---------------------------
(***************************************************************************)
(* What the two ends of the worker control channel share: the messages of  *)
(* WorkerControlMessages.hpp, of which the models keep the type and the    *)
(* reservation, and the ids.  A reservation and its match have one id (see *)
(* Lobby), and 0 is never a valid id.                                      *)
(***************************************************************************)
EXTENDS Naturals, Sequences

CONSTANTS
    Worker,      \* WorkerId of the game servers
    MaxControl,  \* greatest WorkerConnectionId
    MaxMatch     \* greatest MatchId and ReservationId

ASSUME WorkerAssumption ==
    /\ Worker \subseteq Nat \ {0}
    /\ MaxControl \in Nat /\ MaxMatch \in Nat

Nobody    == 0
ControlId == 1..MaxControl
Match     == 1..MaxMatch

Message == [type : {"Register", "Registered", "Reserve", "Ready", "Rejected",
                    "Cancel", "Cancelled", "Finished"},
            worker : Worker \cup {Nobody}, match : Match \cup {Nobody}]

About(t, w) == [type |-> t, worker |-> w, match |-> Nobody]
For(t, m)   == [type |-> t, worker |-> Nobody, match |-> m]

=============================================================================
