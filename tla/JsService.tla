------------------------------ MODULE JsService ------------------------------
(***************************************************************************)
(* What JscEngine promises to its callers: calls are executed one at a     *)
(* time and at most once, in the order in which they were accepted; a call *)
(* that is answered with a result was executed, and a call that is refused *)
(* was not and never will be.                                              *)
(*                                                                         *)
(* JsThread implements this specification.                                 *)
(***************************************************************************)
EXTENDS Naturals, Sequences

CONSTANT Calls

VARIABLES
    accepted,        \* calls taken over by the engine, in order
    ran,             \* calls executed, in order
    answer           \* answer[c]: what the caller of c was told

svcVars == <<accepted, ran, answer>>

OccursIn(c, s) == \E i \in DOMAIN s : s[i] = c

Init ==
    /\ accepted = <<>>
    /\ ran = <<>>
    /\ answer = [c \in Calls |-> "none"]

Accept(c) ==
    /\ answer[c] = "none"
    /\ ~OccursIn(c, accepted)
    /\ accepted' = Append(accepted, c)
    /\ UNCHANGED <<ran, answer>>

Execute ==
    /\ Len(ran) < Len(accepted)
    /\ ran' = Append(ran, accepted[Len(ran) + 1])
    /\ UNCHANGED <<accepted, answer>>

(* A result, only for a call that ran.                                     *)
Return(c) ==
    /\ answer[c] = "none"
    /\ OccursIn(c, ran)
    /\ answer' = [answer EXCEPT ![c] = "result"]
    /\ UNCHANGED <<accepted, ran>>

(* A refusal, only for a call that was not accepted; Accept is disabled    *)
(* for it from then on.                                                    *)
Refuse(c) ==
    /\ answer[c] = "none"
    /\ ~OccursIn(c, accepted)
    /\ answer' = [answer EXCEPT ![c] = "channel closed"]
    /\ UNCHANGED <<accepted, ran>>

(* The engine went away with the call: it may have run.                    *)
Lose(c) ==
    /\ answer[c] = "none"
    /\ OccursIn(c, accepted)
    /\ answer' = [answer EXCEPT ![c] = "reply dropped"]
    /\ UNCHANGED <<accepted, ran>>

Next ==
    \/ Execute
    \/ \E c \in Calls : Accept(c) \/ Return(c) \/ Refuse(c) \/ Lose(c)

Spec == Init /\ [][Next]_svcVars

=============================================================================
