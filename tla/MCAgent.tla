------------------------------- MODULE MCAgent -------------------------------
(* Three calls over a channel of two: a running tool and a full channel.   *)
EXTENDS Agent

CONSTANTS c1, c2, c3

MCCalls == {c1, c2, c3}

MCCapacity == 2

=============================================================================
