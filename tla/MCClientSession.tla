-------------------------- MODULE MCClientSession --------------------------
(* The client session with small queues; the constants are in the cfgs. *)
EXTENDS ClientSession

\* Two states that differ in what View leaves out can do the same.  Acknowledgements
\* never go back, so that Reconcile takes the last one of a batch, which for the
\* queue is the stream's; and once the server is bound and the session past binding,
\* a handler of the bind timer that still comes does nothing.
WithoutAck(s) == [i \in DOMAIN s |-> <<s[i].id, s[i].stay, s[i].reset>>]
View ==
    <<state, stopRequested, result, about, tcp, frames, server, udp, receiving,
      bindAnswer, game, predictor, buffer, scene, posted, stream, serverInput,
      WithoutAck(queue), WithoutAck(batch),
      IF batch = <<>> THEN 0 ELSE Last(batch).ack,
      IF server = "bound" /\ state # "BindingUdp" THEN "off" ELSE bindTimer>>
=============================================================================
