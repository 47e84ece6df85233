---------------------------- MODULE FrameStream ----------------------------
(***************************************************************************)
(* What a framed connection promises whoever sends on it: frames are        *)
(* written whole, once and in the order they were accepted; nothing is      *)
(* accepted once the end was asked for; a connection that is closed after a *)
(* flush has written everything, unless it was cut; and whoever owns it is  *)
(* told that it is over, once.                                              *)
(***************************************************************************)
EXTENDS Naturals, Sequences

CONSTANT Frames

VARIABLES accepted, written, phase, told

streamVars == <<accepted, written, phase, told>>

StreamInit ==
    /\ accepted = <<>> /\ written = <<>> /\ phase = "open" /\ told = FALSE

Accept(f) ==
    /\ phase = "open"
    /\ accepted' = Append(accepted, f)
    /\ UNCHANGED <<written, phase, told>>

Write ==
    /\ phase \in {"open", "draining"}
    /\ Len(written) < Len(accepted)
    /\ written' = SubSeq(accepted, 1, Len(written) + 1)
    /\ UNCHANGED <<accepted, phase, told>>

Drain ==
    /\ phase = "open"
    /\ phase' = "draining"
    /\ UNCHANGED <<accepted, written, told>>

\* The last frame may be written in the same step.
Flushed ==
    /\ phase \in {"open", "draining"}
    /\ Len(accepted) - Len(written) <= 1
    /\ written' = accepted
    /\ phase' = "flushed"
    /\ UNCHANGED <<accepted, told>>

Cut ==
    /\ phase \in {"open", "draining"}
    /\ phase' = "cut"
    /\ UNCHANGED <<accepted, written, told>>

Tell ==
    /\ phase \in {"flushed", "cut"} /\ ~told
    /\ told' = TRUE
    /\ UNCHANGED <<accepted, written, phase>>

StreamNext == (\E f \in Frames : Accept(f)) \/ Write \/ Drain \/ Flushed \/ Cut \/ Tell
StreamSpec == StreamInit /\ [][StreamNext]_streamVars
=============================================================================
