-------------------------------- MODULE MCHost --------------------------------
(* The host side of an execution, each part in behaviours of its own while *)
(* the others rest in an initial state: the event loop (part "loop"), one  *)
(* run of the run command under every combination of timeout, snapshot and *)
(* cancellation ("run"), the checkpoints of an execution ("store": two     *)
(* writers, two evictions, three numbers that keep their order) and the    *)
(* format of a checkpoint ("file": three known strata and an unknown one;  *)
(* a payload is empty, a tag, or an empty stratum and a tag).              *)
EXTENDS MCEventLoop, RuntimeRun, SnapshotStore, SnapshotFile

CONSTANTS w1, w2, e1, e2

VARIABLE part

MCWriters == {w1, w2}

MCEvictors == {e1, e2}

MCTags == <<1, 2, 3>>

MCPayloads == {<<>>, <<2>>, <<7, 0, 1>>}

loopVars == <<intervals, state>>

HostInit ==
    /\ part \in {"loop", "run", "store", "file"}
    /\ Init /\ (part # "loop" => intervals = {} /\ cleared = {})
    /\ RunInit /\ (part # "run" => options \in [{"timeout", "snapshot",
                                             "cancellable"} -> {FALSE}])
    /\ StoreInit
    /\ FileInit /\ (part # "file" => strata[0] = <<<<>>>>)

HostNext ==
    /\ UNCHANGED part
    /\ \/ part = "loop"  /\ Next        /\ UNCHANGED <<runVars, storeVars, fileVars>>
       \/ part = "run"   /\ RunNext     /\ UNCHANGED <<loopVars, storeVars, fileVars>>
       \/ part = "store" /\ StoreNext   /\ UNCHANGED <<loopVars, runVars, fileVars>>
       \/ part = "file"  /\ FileNext    /\ UNCHANGED <<loopVars, runVars, storeVars>>

(* The fairness of each part, as its module has it.                        *)
HostFairness ==
    /\ WF_state(part = "loop" /\ LoopStep)
    /\ WF_runState(part = "run" /\ RunStep)
    /\ WF_runState(part = "run" /\ TimeoutFires)
    /\ WF_runState(part = "run" /\ MainStep)
    /\ WF_runState(part = "run" /\ (ThreadStarts \/ ThreadTakes))
    /\ WF_runState(part = "run" /\ HeapReturns)

HostSpec ==
    /\ HostInit
    /\ [][HostNext]_<<part, loopVars, runVars, storeVars, fileVars>>
    /\ HostFairness

=============================================================================
