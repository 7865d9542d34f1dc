----------------------------- MODULE MCScheduler -----------------------------
(* Three agents for two slots and two overlapping shutdown_all() calls.    *)
EXTENDS Scheduler

CONSTANTS a1, a2, a3, k1, k2

MCAgents == {a1, a2, a3}

MCClosers == {k1, k2}

MCSlots == 2

=============================================================================
