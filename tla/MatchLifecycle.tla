--------------------------- MODULE MatchLifecycle ---------------------------
(***************************************************************************)
(* What the lobby promises its players about matches, without rooms,       *)
(* reservations or messages: a match is asked for once, is then either     *)
(* given up or run on one game server, and ends for good; a game server    *)
(* runs one match at a time; and no request stays unanswered.              *)
(***************************************************************************)
EXTENDS Naturals

CONSTANTS MatchIds, Servers, NoServer

VARIABLES stage, server

vars == <<stage, server>>

Init ==
    /\ stage = [m \in MatchIds |-> "Unused"]
    /\ server = [m \in MatchIds |-> NoServer]

Ask(m) ==
    /\ stage[m] = "Unused"
    /\ stage' = [stage EXCEPT ![m] = "Asked"]
    /\ UNCHANGED server

\* The lobby gives up, whether or not it ever asked a game server.
GiveUp(m) ==
    /\ stage[m] \in {"Unused", "Asked"}
    /\ stage' = [stage EXCEPT ![m] = "Over"]
    /\ UNCHANGED server

Run(m, s) ==
    /\ stage[m] = "Asked"
    /\ \A n \in MatchIds : server[n] # s
    /\ stage' = [stage EXCEPT ![m] = "Running"]
    /\ server' = [server EXCEPT ![m] = s]

End(m) ==
    /\ stage[m] = "Running"
    /\ stage' = [stage EXCEPT ![m] = "Over"]
    /\ server' = [server EXCEPT ![m] = NoServer]

Next ==
    \E m \in MatchIds :
        \/ Ask(m)
        \/ GiveUp(m)
        \/ \E s \in Servers : Run(m, s)
        \/ End(m)

\* Safety part, and the promise that every request is answered.
SafeSpec == Init /\ [][Next]_vars
Answered == \A m \in MatchIds : stage[m] = "Asked" ~> stage[m] # "Asked"
Spec == SafeSpec /\ Answered

=============================================================================
