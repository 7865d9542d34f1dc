------------------------------- MODULE MCEngine -------------------------------
(* The three parts of the engine's glue, each in behaviours of its own     *)
(* while the others rest in an initial state: the JS thread (part          *)
(* "thread": four calls over a channel of two - one at hand, two buffered, *)
(* one waiting), a JsPromiseFuture (two clones of the resolver racing, a   *)
(* future that changes hands twice), and the values of a JscContext (four  *)
(* boxes, two clones of a handle).                                         *)
EXTENDS JsThread, JsPromise, JsValues

CONSTANTS c1, c2, c3, c4, r1, r2, b1, b2, b3, b4

VARIABLE part

MCCalls == {c1, c2, c3, c4}

MCCapacity == 2

MCResolvers == {r1, r2}

MCBoxes == {b1, b2, b3, b4}

EngineInit ==
    /\ part \in {"thread", "promise", "values"}
    /\ Init /\ PromiseInit /\ ValuesInit

EngineNext ==
    /\ UNCHANGED part
    /\ \/ /\ part = "thread" /\ Next
          /\ UNCHANGED <<promiseVars, valueVars>>
       \/ /\ part = "promise" /\ PromiseNext
          /\ UNCHANGED <<vars, valueVars>>
       \/ /\ part = "values" /\ ValuesNext
          /\ UNCHANGED <<vars, promiseVars>>

(* The fairness of each part, as its module has it.                        *)
EngineFairness ==
    /\ WF_vars(part = "thread" /\ ThreadStep)
    /\ WF_vars(part = "thread" /\ SendResumes)
    /\ \A c \in Calls :
          /\ WF_vars(part = "thread" /\ SendFails(c))
          /\ WF_vars(part = "thread" /\ ReplyArrives(c))
    /\ \A t \in Tasks : WF_promiseVars(part = "promise" /\ Poll(t))

EngineSpec ==
    /\ EngineInit
    /\ [][EngineNext]_<<part, vars, promiseVars, valueVars>>
    /\ EngineFairness

=============================================================================
