-------------------------- MODULE BatchPublisherMC --------------------------
(* One publisher and one call of PublishMsgBatch that share their messages. *)
EXTENDS BatchPublisher

MCSlices == {<<"m1", "m2">>, <<"m2">>, <<"m2", "m1", "m2">>}
=============================================================================
