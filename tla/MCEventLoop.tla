------------------------------ MODULE MCEventLoop ------------------------------
(* Two timers of different delays and one I/O task beside the wake-up and  *)
(* the shutdown.  A channel of Roomy holds every task of a run in which    *)
(* each timer fires once; one of Tight does not.                           *)
EXTENDS EventLoop

CONSTANTS io

MCDelay == <<1, 2>>

MCPosts == {io, Wake, Shutdown}

Roomy == 5
Tight == 2

=============================================================================
