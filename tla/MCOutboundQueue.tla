-------------------------- MODULE MCOutboundQueue --------------------------
(* A single frame, and a batch like the one a RESUME enqueues.             *)
EXTENDS OutboundQueue

MCBatches == {<<"live">>, <<"welcome", "event", "event">>}

=============================================================================
