---------------------------- MODULE MCAnyWorker ----------------------------
(* Instances of AnyWorker for TLC: the constants' values are in the .cfg.   *)
EXTENDS AnyWorker

\* The frames to the servers do not matter here, and of the history only what
\* concerns an answer that is still owed: a reservation is not tracked again.
View == <<nextControl, session, registryVars, timer, toLobby, inbox, speaker,
          fate, {m \in disowned : tracked[m] # Nobody}>>
=============================================================================
