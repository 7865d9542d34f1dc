-------------------------------- MODULE MCTools --------------------------------
(* What an agent calls and what is counted of it, each part in behaviours  *)
(* of its own while the others rest in an initial state.                   *)
(*                                                                         *)
(* Part "calls" (ToolCalls): two calls in progress at once - one that      *)
(* needs two permissions, covered by two capabilities, and one of a tool   *)
(* that is not registered - and one revocation, so that a capability can   *)
(* go and another come between two checks.                                 *)
(*                                                                         *)
(* Part "replay" (Replay): two tasks with up to two calls each - two reads *)
(* of the same tool with different arguments, a write, a time query and a  *)
(* pure computation - against every recording of up to two reads.          *)
(*                                                                         *)
(* Part "metrics" (Metrics): two calls, on the same thread or not, with a  *)
(* duration that is the bound of a bucket.                                 *)
EXTENDS ToolCalls, Replay, Metrics, TLC

CONSTANTS fetch, other, fsRead, netConnect, spawn, fs, net, t1, t2

VARIABLE part

MCCalls == {fetch, other}

MCPermissions == {fsRead, netConnect, spawn}

MCCovers ==
    [k \in {fs, net, Unrestricted, AgentSpawn} |->
        CASE k = fs -> {fsRead}
          [] k = net -> {netConnect}
          [] k = AgentSpawn -> {spawn}
          [] OTHER -> {}]

MCRequired == [c \in MCCalls |-> <<fsRead, netConnect>>]

MCRegistered == {fetch}

MCMaxRevocations == 1

MCTasks == {t1, t2}

TaskSymmetry == Permutations(MCTasks)

MCClass ==
    [readA |-> "read", readB |-> "read", write |-> "write", now |-> "time",
     parse |-> "pure"]

MCTool ==
    [readA |-> "read_file", readB |-> "read_file", write |-> "write_file",
     now |-> "time_now", parse |-> "json_parse"]

UpTo(n, S) == UNION {[1 .. k -> S] : k \in 0 .. n}

MCPrograms == UpTo(2, DOMAIN MCClass)

MCRecordings == UpTo(2, {"readA", "readB"})

MCDurations == {100}

MCMaxCalls == 2

ToolsInit ==
    /\ part \in {"calls", "replay", "metrics"}
    /\ Init /\ (part # "calls" => caps = {})
    /\ IF part = "replay" THEN ReplayInit
       ELSE /\ program = [t \in Tasks |-> <<>>] /\ recording = <<>>
            /\ Ready
    /\ MetricsInit

ToolsNext ==
    /\ UNCHANGED part
    /\ \/ part = "calls"   /\ Next         /\ UNCHANGED <<replayVars, metricsVars>>
       \/ part = "replay"  /\ ReplayNext   /\ UNCHANGED <<vars, metricsVars>>
       \/ part = "metrics" /\ MetricsNext  /\ UNCHANGED <<vars, replayVars>>

ToolsSpec ==
    ToolsInit /\ [][ToolsNext]_<<part, vars, replayVars, metricsVars>>

=============================================================================
