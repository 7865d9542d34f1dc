------------------------------ MODULE Scheduler ------------------------------
(***************************************************************************)
(* runtime/src/scheduler.rs: AgentScheduler.  spawn() takes a permit of a  *)
(* semaphore, starts the agent's tasks and records its handle in a shared  *)
(* map; shutdown_all() takes the records out one by one and shuts each     *)
(* agent down.  An agent is reduced to whether its tasks run: Agent models *)
(* what happens inside.                                                    *)
(***************************************************************************)
EXTENDS Naturals, Sequences, FiniteSets

CONSTANTS
    Agents,          \* the agents spawned in a run
    Closers,         \* the shutdown_all() calls made in a run
    Slots,           \* config.max_concurrent_agents
    NoAgent          \* no agent

ASSUME AgentsFinite == IsFiniteSet(Agents)
ASSUME SlotsPositive == Slots \in Nat \ {0}
ASSUME NoAgentIsNone == NoAgent \notin Agents

VARIABLES
    permits,         \* permits left in the semaphore
    line,            \* spawn() calls waiting for a permit, in order
    spawner,         \* spawner[a]: where spawn() of a is
    task,            \* task[a]: the tasks of a
    agents,          \* AgentScheduler.agents, as the set of its keys
    total_spawned,   \* AgentScheduler.total_spawned
    unseen,          \* unseen[k]: keys call k has not come by in the map
    keys,            \* keys[k]: what shutdown_all() call k has left to do
    closing,         \* closing[k]: the agent whose end it awaits, or NoAgent
    closer,          \* closer[k]: where it is
    removedBy        \* history: removedBy[k]: records it took

spawnVars == <<permits, line, spawner, total_spawned>>
closeVars == <<unseen, keys, closing, closer, removedBy>>
vars      == <<spawnVars, closeVars, task, agents>>

Occupants(s) == {s[i] : i \in DOMAIN s}

Init ==
    /\ permits = Slots
    /\ line = <<>>
    /\ spawner = [a \in Agents |-> "idle"]
    /\ task = [a \in Agents |-> "none"]
    /\ agents = {}
    /\ total_spawned = 0
    /\ unseen = [k \in Closers |-> {}]
    /\ keys = [k \in Closers |-> {}]
    /\ closing = [k \in Closers |-> NoAgent]
    /\ closer = [k \in Closers |-> "idle"]
    /\ removedBy = [k \in Closers |-> {}]

-----------------------------------------------------------------------------
(* spawn().                                                                *)

(* acquire_owned(): the semaphore is fair, a newcomer queues.              *)
Spawn(a) ==
    /\ spawner[a] = "idle"
    /\ spawner' = [spawner EXCEPT ![a] = "waiting"]
    /\ line' = Append(line, a)
    /\ UNCHANGED <<permits, total_spawned, closeVars, task, agents>>

Acquire ==
    /\ line # <<>> /\ permits > 0
    /\ permits' = permits - 1
    /\ line' = Tail(line)
    /\ spawner' = [spawner EXCEPT ![Head(line)] = "permitted"]
    /\ UNCHANGED <<total_spawned, closeVars, task, agents>>

(* Agent::spawn, which always succeeds, and total_spawned.                 *)
StartAgent(a) ==
    /\ spawner[a] = "permitted"
    /\ task' = [task EXCEPT ![a] = "running"]
    /\ total_spawned' = total_spawned + 1
    /\ spawner' = [spawner EXCEPT ![a] = "started"]
    /\ UNCHANGED <<permits, line, closeVars, agents>>

(* The permit given back when the function's local goes out of scope.      *)
KeepsPermit   == permits                     \* faulty: moved and forgotten
PermitBack    == permits + 1

(* agents.insert; the function returns and drops its permit.               *)
Record(a) ==
    /\ spawner[a] = "started"
    /\ agents' = agents \union {a}
    /\ permits' = PermitBack
    /\ spawner' = [spawner EXCEPT ![a] = "returned"]
    /\ UNCHANGED <<line, total_spawned, closeVars, task>>

(* The agent's tasks end, by themselves or because they were told to.      *)
Finish(a) ==
    /\ task[a] = "running"
    /\ task' = [task EXCEPT ![a] = "finished"]
    /\ UNCHANGED <<spawnVars, closeVars, agents>>

-----------------------------------------------------------------------------
(* shutdown_all().                                                         *)

(* The keys are collected by one iteration over the map, which locks it    *)
(* shard by shard: a record is seen if it is there when its shard is.      *)
BeginShutdown(k) ==
    /\ closer[k] = "idle"
    /\ unseen' = [unseen EXCEPT ![k] = Agents]
    /\ closer' = [closer EXCEPT ![k] = "closing"]
    /\ UNCHANGED <<spawnVars, keys, closing, removedBy, task, agents>>

CollectKey(k, a) ==
    /\ a \in unseen[k]
    /\ unseen' = [unseen EXCEPT ![k] = @ \ {a}]
    /\ keys' = [keys EXCEPT ![k] = @ \union ({a} \intersect agents)]
    /\ UNCHANGED <<spawnVars, closing, closer, removedBy, task, agents>>

(* Whether the loop skips a key whose record is gone.                      *)
StillRecorded(a) == a \in agents

(* agents.remove(&key): the record, or nothing when it is gone.            *)
TakeRecord(k, a) ==
    /\ unseen[k] = {} /\ closing[k] = NoAgent
    /\ a \in keys[k]
    /\ keys' = [keys EXCEPT ![k] = @ \ {a}]
    /\ agents' = agents \ {a}
    /\ IF StillRecorded(a)
       THEN /\ closing' = [closing EXCEPT ![k] = a]
            /\ removedBy' = [removedBy EXCEPT ![k] = @ \union {a}]
       ELSE UNCHANGED <<closing, removedBy>>
    /\ UNCHANGED <<spawnVars, unseen, closer, task>>

(* How long the loop stays with an agent.                                  *)
NoWait(a)   == TRUE                          \* faulty: status not awaited
WaitsAll(a) == \A b \in Agents : task[b] # "running"  \* faulty: for all agents
Joined(a)   == task[a] = "finished"

(* handle.shutdown().await returns.                                        *)
AgentClosed(k) ==
    /\ closing[k] # NoAgent
    /\ Joined(closing[k])
    /\ closing' = [closing EXCEPT ![k] = NoAgent]
    /\ UNCHANGED <<spawnVars, unseen, keys, closer, removedBy, task, agents>>

CloserReturns(k) ==
    /\ closer[k] = "closing"
    /\ unseen[k] = {} /\ keys[k] = {} /\ closing[k] = NoAgent
    /\ closer' = [closer EXCEPT ![k] = "returned"]
    /\ UNCHANGED <<spawnVars, unseen, keys, closing, removedBy, task, agents>>

-----------------------------------------------------------------------------
SpawnStep == Acquire \/ \E a \in Agents : StartAgent(a) \/ Record(a)

CloseStep(k) ==
    \/ \E a \in Agents : CollectKey(k, a) \/ TakeRecord(k, a)
    \/ AgentClosed(k)
    \/ CloserReturns(k)

Next ==
    \/ SpawnStep
    \/ \E a \in Agents : Spawn(a) \/ Finish(a)
    \/ \E k \in Closers : BeginShutdown(k) \/ CloseStep(k)

(* An agent that was told to stop does so: Agent!ShutdownCompletes.        *)
ToldToStop(a) == \E k \in Closers : closing[k] = a

Fairness ==
    /\ WF_vars(Acquire)
    /\ \A a \in Agents : WF_vars(StartAgent(a)) /\ WF_vars(Record(a))
    /\ \A a \in Agents : WF_vars(ToldToStop(a) /\ Finish(a))
    /\ \A k \in Closers : WF_vars(CloseStep(k))

SafeSpec == Init /\ [][Next]_vars

Spec == SafeSpec /\ Fairness

-----------------------------------------------------------------------------
(* Type correctness of the semaphore, the map and the calls.               *)
TypeOK ==
    /\ permits \in 0 .. Slots
    /\ line \in Seq(Agents)
    /\ spawner \in [Agents -> {"idle", "waiting", "permitted", "started",
                              "returned"}]
    /\ task \in [Agents -> {"none", "running", "finished"}]
    /\ agents \subseteq Agents
    /\ total_spawned \in Nat
    /\ unseen \in [Closers -> SUBSET Agents]
    /\ keys \in [Closers -> SUBSET Agents]
    /\ closing \in [Closers -> Agents \union {NoAgent}]
    /\ closer \in [Closers -> {"idle", "closing", "returned"}]
    /\ removedBy \in [Closers -> SUBSET Agents]

(* No permit is lost or forged on any path through spawn(): those not in   *)
(* the semaphore are held by the calls between acquire and return.         *)
Spawning == {a \in Agents : spawner[a] \in {"permitted", "started"}}

PermitsAccount == permits + Cardinality(Spawning) = Slots

(* Concurrent shutdown_all() calls share the agents out: no agent is shut  *)
(* down twice, although both may have collected its key, one that was      *)
(* taken is not in the map, and when a call returns, those it took have    *)
(* ended.                                                                  *)
CloserWaited ==
    /\ \A j, k \in Closers : j # k => removedBy[j] \intersect removedBy[k] = {}
    /\ \A k \in Closers :
          /\ removedBy[k] \intersect agents = {}
          /\ closer[k] = "returned" =>
                \A a \in removedBy[k] : task[a] = "finished"

(* shutdown_all() returns, also while other calls and spawns interfere.    *)
CloserReturnsAtLast ==
    \A k \in Closers : closer[k] = "closing" ~> closer[k] = "returned"

(* scheduler.rs:20, "Maximum number of agents running concurrently".       *)
ConcurrencyBounded ==
    Cardinality({a \in Agents : task[a] = "running"}) <= Slots

=============================================================================
