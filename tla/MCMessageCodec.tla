-------------------------- MODULE MCMessageCodec --------------------------
(* MessageCodec with two channels: two inbound messages of different sizes  *)
(* on one, one inbound and one outbound message on the other.              *)
EXTENDS MessageCodec

CONSTANTS l1, l2, m1, m2, m3

MCInbound    == (l1 :> <<m1, m2>>) @@ (l2 :> <<m3>>)
MCOutbound   == (l1 :> <<>>) @@ (l2 :> <<m1>>)
MCBodyLength == (m1 :> 1) @@ (m2 :> 3) @@ (m3 :> 1)
=============================================================================
