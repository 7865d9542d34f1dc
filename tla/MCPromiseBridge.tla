--------------------------- MODULE MCPromiseBridge ---------------------------
(* Three promises: enough for a push between a drain and its deliveries    *)
(* while a third task sits between its push and its counter update.        *)
EXTENDS PromiseBridge

CONSTANTS p1, p2, p3

MCPromises == {p1, p2, p3}

=============================================================================
