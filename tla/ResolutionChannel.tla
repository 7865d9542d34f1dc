-------------------------- MODULE ResolutionChannel --------------------------
(***************************************************************************)
(* What the promise pipeline promises its users, and nothing of how: the   *)
(* outcome of every completed task is accepted at most once and handed to  *)
(* the JS engine exactly once, in the order of acceptance.                 *)
(*                                                                         *)
(* PromiseBridge implements this specification.                            *)
(***************************************************************************)
EXTENDS Naturals, Sequences

CONSTANT Promises    \* the promises whose tasks may complete

VARIABLES
    accepted,        \* outcomes posted by tasks, in order
    delivered        \* outcomes handed to the JS engine, in order

chanVars == <<accepted, delivered>>

Resolution == [handle : Promises, result : {"resolve", "reject"}]

Init ==
    /\ accepted = <<>>
    /\ delivered = <<>>

(* A task posts its outcome, unless an outcome of its promise was posted.  *)
Accept(r) ==
    /\ \A i \in DOMAIN accepted : accepted[i].handle # r.handle
    /\ accepted' = Append(accepted, r)
    /\ UNCHANGED delivered

(* The oldest outcome not yet handed over reaches the engine.              *)
Deliver ==
    /\ Len(delivered) < Len(accepted)
    /\ delivered' = Append(delivered, accepted[Len(delivered) + 1])
    /\ UNCHANGED accepted

Next == Deliver \/ \E r \in Resolution : Accept(r)

SafeSpec == Init /\ [][Next]_chanVars

Spec == SafeSpec /\ WF_chanVars(Deliver)

=============================================================================
