---------------------------- MODULE MCSnapshotStore ----------------------------
(* One writer and one eviction, with numbers that outgrow the width of the *)
(* names.                                                                  *)
EXTENDS SnapshotStore

CONSTANTS w1, e1

MCWriters == {w1}

MCEvictors == {e1}

=============================================================================
