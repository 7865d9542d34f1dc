--------------------------- MODULE Scheduler_proofs ---------------------------
(***************************************************************************)
(* Proofs about Scheduler for every finite set of agents, any number of    *)
(* shutdown_all() calls and every number of slots.                         *)
(*                                                                         *)
(* The permits account because a call is in the semaphore's line once, and *)
(* only while it waits.  Concurrent shutdown_all() calls share the agents  *)
(* out because an agent is recorded once, before it can be taken, and a    *)
(* record that was taken is not made again.                                *)
(***************************************************************************)
EXTENDS Scheduler, FiniteSetTheorems, TLAPS

(* A call waits in the line exactly while it waits, and once.              *)
LineWaits ==
    /\ \A i \in DOMAIN line : spawner[line[i]] = "waiting"
    /\ \A i, j \in DOMAIN line : line[i] = line[j] => i = j

(* An agent in the map, or taken from it, was recorded: spawn() is over.   *)
RecordedOnce ==
    /\ \A a \in agents : spawner[a] = "returned"
    /\ \A k \in Closers : \A a \in removedBy[k] : spawner[a] = "returned"

(* An agent whose record was taken has ended or is being waited for.       *)
TakenEnds ==
    \A k \in Closers : \A a \in removedBy[k] :
        task[a] = "finished" \/ closing[k] = a

(* A call that returned has nothing left to do.                            *)
ReturnedIsDone ==
    \A k \in Closers : closer[k] = "returned" =>
        unseen[k] = {} /\ keys[k] = {} /\ closing[k] = NoAgent

IInv ==
    /\ TypeOK /\ LineWaits /\ PermitsAccount
    /\ RecordedOnce /\ TakenEnds /\ ReturnedIsDone /\ CloserWaited

(* The calls that hold a permit are finitely many.                         *)
LEMMA SpawningFinite ==
  /\ IsFiniteSet(Spawning)
  /\ Cardinality(Spawning) \in Nat
  /\ Spawning \subseteq Agents
  <1>1. Spawning \subseteq Agents
    BY DEF Spawning
  <1>2. IsFiniteSet(Spawning)
    BY <1>1, AgentsFinite, FS_Subset
  <1> QED BY <1>1, <1>2, FS_CardinalityType

(* Nothing has been spawned or shut down.                                  *)
LEMMA InitShares == Init => IInv
  <1> SUFFICES ASSUME Init
               PROVE  IInv
    OBVIOUS
  <1> USE DEF Init
  <1>1. TypeOK
    BY SlotsPositive DEF TypeOK
  <1>2. Spawning = {}
    BY DEF Spawning
  <1>3. PermitsAccount
    BY <1>2, FS_EmptySet, SlotsPositive DEF PermitsAccount
  <1>4. LineWaits
    BY DEF LineWaits
  <1>5. RecordedOnce /\ TakenEnds /\ ReturnedIsDone /\ CloserWaited
    BY DEF RecordedOnce, TakenEnds, ReturnedIsDone, CloserWaited
  <1> QED BY <1>1, <1>3, <1>4, <1>5 DEF IInv

(* What shutdown_all() does leaves the spawn() calls alone.                *)
LEMMA CloseKeepsSpawn ==
  ASSUME LineWaits, PermitsAccount, UNCHANGED spawnVars
  PROVE  LineWaits' /\ PermitsAccount'
  <1>1. permits' = permits /\ line' = line /\ spawner' = spawner
    BY DEF spawnVars
  <1>2. Spawning' = Spawning
    BY <1>1 DEF Spawning
  <1> QED BY <1>1, <1>2 DEF LineWaits, PermitsAccount

(* spawn(), step by step.                                                  *)
LEMMA SpawnShares ==
  ASSUME IInv, NEW a \in Agents, Spawn(a)
  PROVE  IInv'
  <1> USE DEF IInv, TypeOK, closeVars
  <1>1. /\ spawner[a] = "idle"
        /\ spawner' = [spawner EXCEPT ![a] = "waiting"]
        /\ line' = Append(line, a)
        /\ permits' = permits /\ total_spawned' = total_spawned
        /\ UNCHANGED <<unseen, keys, closing, closer, removedBy, task, agents>>
    BY DEF Spawn
  <1>2. TypeOK'
    BY <1>1
  <1>3. Spawning' = Spawning
    BY <1>1 DEF Spawning
  <1>4. PermitsAccount'
    BY <1>1, <1>3 DEF PermitsAccount
  <1>5. LineWaits'
    <2>1. \A i \in DOMAIN line : line[i] # a /\ line[i] \in Agents
      BY <1>1 DEF LineWaits
    <2>2. /\ DOMAIN line' = 1 .. Len(line) + 1 /\ DOMAIN line = 1 .. Len(line)
          /\ \A i \in 1 .. Len(line) : line'[i] = line[i]
          /\ line'[Len(line) + 1] = a
          /\ Len(line) \in Nat
      BY <1>1
    <2> QED BY <1>1, <2>1, <2>2 DEF LineWaits
  <1>6. RecordedOnce' /\ TakenEnds' /\ ReturnedIsDone' /\ CloserWaited'
    BY <1>1 DEF RecordedOnce, TakenEnds, ReturnedIsDone, CloserWaited
  <1> QED BY <1>2, <1>4, <1>5, <1>6

LEMMA AcquireShares ==
  ASSUME IInv, Acquire
  PROVE  IInv'
  <1> USE DEF IInv, TypeOK, closeVars
  <1>1. /\ line # <<>> /\ permits > 0 /\ permits' = permits - 1
        /\ line' = Tail(line)
        /\ spawner' = [spawner EXCEPT ![Head(line)] = "permitted"]
        /\ total_spawned' = total_spawned
        /\ UNCHANGED <<unseen, keys, closing, closer, removedBy, task, agents>>
    BY DEF Acquire
  <1>2. /\ Head(line) = line[1] /\ 1 \in DOMAIN line /\ line[1] \in Agents
        /\ DOMAIN line = 1 .. Len(line) /\ Len(line) \in Nat
        /\ DOMAIN line' = 1 .. Len(line) - 1
        /\ \A i \in DOMAIN line' : line'[i] = line[i + 1]
    BY <1>1
  <1>3. spawner[line[1]] = "waiting"
    BY <1>2 DEF LineWaits
  <1>4. TypeOK'
    BY <1>1, <1>2, SlotsPositive
  <1>5. PermitsAccount'
    <2>1. Spawning' = Spawning \union {line[1]}
      BY <1>1, <1>2 DEF Spawning
    <2>2. line[1] \notin Spawning
      BY <1>3 DEF Spawning
    <2>3. Cardinality(Spawning') = Cardinality(Spawning) + 1
      BY <2>1, <2>2, SpawningFinite, FS_AddElement
    <2> QED BY <1>1, <2>3, SpawningFinite, SlotsPositive DEF PermitsAccount
  <1>6. LineWaits'
    <2>1. \A i \in DOMAIN line' : i + 1 \in DOMAIN line /\ i + 1 # 1
      BY <1>2
    <2>2. \A i \in DOMAIN line' : line'[i] # line[1] /\ line'[i] \in Agents
      BY <1>2, <2>1 DEF LineWaits
    <2>3. \A i \in DOMAIN line' : spawner'[line'[i]] = "waiting"
      BY <1>1, <1>2, <2>1, <2>2 DEF LineWaits
    <2>4. \A i, j \in DOMAIN line' : line'[i] = line'[j] => i = j
      BY <1>2, <2>1 DEF LineWaits
    <2> QED BY <2>3, <2>4 DEF LineWaits
  <1>7. RecordedOnce' /\ TakenEnds' /\ ReturnedIsDone' /\ CloserWaited'
    BY <1>1, <1>2, <1>3
    DEF RecordedOnce, TakenEnds, ReturnedIsDone, CloserWaited
  <1> QED BY <1>4, <1>5, <1>6, <1>7

LEMMA StartShares ==
  ASSUME IInv, NEW a \in Agents, StartAgent(a)
  PROVE  IInv'
  <1> USE DEF IInv, TypeOK, closeVars
  <1>1. /\ spawner[a] = "permitted"
        /\ task' = [task EXCEPT ![a] = "running"]
        /\ total_spawned' = total_spawned + 1
        /\ spawner' = [spawner EXCEPT ![a] = "started"]
        /\ permits' = permits /\ line' = line
        /\ UNCHANGED <<unseen, keys, closing, closer, removedBy, agents>>
    BY DEF StartAgent
  <1>2. TypeOK'
    BY <1>1
  <1>3. Spawning' = Spawning
    BY <1>1 DEF Spawning
  <1>4. PermitsAccount'
    BY <1>1, <1>3 DEF PermitsAccount
  <1>5. LineWaits'
    BY <1>1 DEF LineWaits
  <1>6. RecordedOnce' /\ TakenEnds' /\ ReturnedIsDone' /\ CloserWaited'
    BY <1>1 DEF RecordedOnce, TakenEnds, ReturnedIsDone, CloserWaited
  <1> QED BY <1>2, <1>4, <1>5, <1>6

LEMMA RecordShares ==
  ASSUME IInv, NEW a \in Agents, Record(a)
  PROVE  IInv'
  <1> USE DEF IInv, TypeOK, closeVars
  <1>1. /\ spawner[a] = "started"
        /\ agents' = agents \union {a}
        /\ permits' = permits + 1
        /\ spawner' = [spawner EXCEPT ![a] = "returned"]
        /\ line' = line /\ total_spawned' = total_spawned
        /\ UNCHANGED <<unseen, keys, closing, closer, removedBy, task>>
    BY DEF Record, PermitBack
  <1>2. PermitsAccount' /\ permits' \in 0 .. Slots
    <2>1. Spawning' = Spawning \ {a} /\ a \in Spawning
      BY <1>1 DEF Spawning
    <2>2. Cardinality(Spawning') = Cardinality(Spawning) - 1
      BY <2>1, SpawningFinite, FS_RemoveElement
    <2>3. Cardinality(Spawning') \in Nat
      BY <2>1, SpawningFinite, FS_RemoveElement, FS_CardinalityType
    <2>4. permits + Cardinality(Spawning) = Slots
      BY DEF PermitsAccount
    <2>5. permits' + Cardinality(Spawning') = Slots
      BY <1>1, <2>2, <2>4, SpawningFinite, SlotsPositive
    <2> QED BY <1>1, <2>3, <2>5, SlotsPositive DEF PermitsAccount
  <1>4. TypeOK'
    BY <1>1, <1>2
  <1>5. LineWaits'
    BY <1>1 DEF LineWaits
  <1>6. RecordedOnce' /\ TakenEnds' /\ ReturnedIsDone'
    BY <1>1 DEF RecordedOnce, TakenEnds, ReturnedIsDone
  <1>7. \A k \in Closers : a \notin removedBy[k]
    BY <1>1 DEF RecordedOnce
  <1>8. CloserWaited'
    BY <1>1, <1>7 DEF CloserWaited
  <1> QED BY <1>2, <1>4, <1>5, <1>6, <1>8

(* shutdown_all(), step by step, and the end of an agent.                  *)
LEMMA CloseShares ==
  ASSUME IInv, NEW k \in Closers,
         BeginShutdown(k) \/ CloseStep(k)
  PROVE  IInv'
  <1> USE DEF IInv, TypeOK
  <1>1. UNCHANGED spawnVars /\ UNCHANGED task
    BY DEF BeginShutdown, CloseStep, CollectKey, TakeRecord, AgentClosed,
           CloserReturns
  <1>2. /\ permits' = permits /\ line' = line /\ spawner' = spawner
        /\ total_spawned' = total_spawned /\ task' = task
    BY <1>1 DEF spawnVars
  <1>3. LineWaits' /\ PermitsAccount'
    BY <1>1, CloseKeepsSpawn
  <1>4. CASE BeginShutdown(k)
    <2>1. /\ closer[k] = "idle"
          /\ unseen' = [unseen EXCEPT ![k] = Agents]
          /\ closer' = [closer EXCEPT ![k] = "closing"]
          /\ UNCHANGED <<keys, closing, removedBy, agents>>
      BY <1>4 DEF BeginShutdown
    <2>2. TypeOK'
      BY <1>2, <2>1
    <2>3. RecordedOnce' /\ TakenEnds' /\ ReturnedIsDone' /\ CloserWaited'
      BY <1>2, <2>1 DEF RecordedOnce, TakenEnds, ReturnedIsDone, CloserWaited
    <2> QED BY <1>3, <2>2, <2>3
  <1>5. ASSUME NEW a \in Agents, CollectKey(k, a)
        PROVE  IInv'
    <2>1. /\ a \in unseen[k]
          /\ unseen' = [unseen EXCEPT ![k] = @ \ {a}]
          /\ keys' = [keys EXCEPT ![k] = @ \union ({a} \intersect agents)]
          /\ UNCHANGED <<closing, closer, removedBy, agents>>
      BY <1>5 DEF CollectKey
    <2>2. TypeOK'
      BY <1>2, <2>1
    <2>3. closer[k] # "returned"
      BY <2>1 DEF ReturnedIsDone
    <2>4. RecordedOnce' /\ TakenEnds' /\ ReturnedIsDone' /\ CloserWaited'
      BY <1>2, <2>1, <2>3
      DEF RecordedOnce, TakenEnds, ReturnedIsDone, CloserWaited
    <2> QED BY <1>3, <2>2, <2>4
  <1>6. ASSUME NEW a \in Agents, TakeRecord(k, a)
        PROVE  IInv'
    <2>1. /\ closing[k] = NoAgent /\ a \in keys[k]
          /\ keys' = [keys EXCEPT ![k] = @ \ {a}]
          /\ agents' = agents \ {a}
          /\ unseen' = unseen /\ closer' = closer
      BY <1>6 DEF TakeRecord
    <2>2. closer[k] # "returned"
      BY <2>1 DEF ReturnedIsDone
    <2>3. CASE a \in agents
      <3>1. /\ closing' = [closing EXCEPT ![k] = a]
            /\ removedBy' = [removedBy EXCEPT ![k] = @ \union {a}]
        BY <1>6, <2>3 DEF TakeRecord, StillRecorded
      <3>2. TypeOK'
        BY <1>2, <2>1, <3>1
      <3>3. \A j \in Closers : a \notin removedBy[j]
        BY <2>3 DEF CloserWaited
      <3>4. RecordedOnce' /\ ReturnedIsDone'
        BY <1>2, <2>1, <2>2, <2>3, <3>1 DEF RecordedOnce, ReturnedIsDone
      <3>5. TakenEnds'
        BY <1>2, <2>1, <3>1, NoAgentIsNone DEF TakenEnds
      <3>6. CloserWaited'
        BY <1>2, <2>1, <2>2, <3>1, <3>3 DEF CloserWaited
      <3> QED BY <1>3, <3>2, <3>4, <3>5, <3>6
    <2>4. CASE a \notin agents
      <3>1. closing' = closing /\ removedBy' = removedBy /\ agents' = agents
        BY <1>6, <2>1, <2>4 DEF TakeRecord, StillRecorded
      <3>2. TypeOK'
        BY <1>2, <2>1, <3>1
      <3>3. RecordedOnce' /\ TakenEnds' /\ ReturnedIsDone' /\ CloserWaited'
        BY <1>2, <2>1, <2>2, <3>1
        DEF RecordedOnce, TakenEnds, ReturnedIsDone, CloserWaited
      <3> QED BY <1>3, <3>2, <3>3
    <2> QED BY <2>3, <2>4
  <1>7. CASE AgentClosed(k)
    <2>1. /\ closing[k] # NoAgent /\ task[closing[k]] = "finished"
          /\ closing' = [closing EXCEPT ![k] = NoAgent]
          /\ UNCHANGED <<unseen, keys, closer, removedBy, agents>>
      BY <1>7 DEF AgentClosed, Joined
    <2>2. TypeOK'
      BY <1>2, <2>1
    <2>3. RecordedOnce' /\ TakenEnds' /\ ReturnedIsDone' /\ CloserWaited'
      BY <1>2, <2>1 DEF RecordedOnce, TakenEnds, ReturnedIsDone, CloserWaited
    <2> QED BY <1>3, <2>2, <2>3
  <1>8. CASE CloserReturns(k)
    <2>1. /\ unseen[k] = {} /\ keys[k] = {} /\ closing[k] = NoAgent
          /\ closer' = [closer EXCEPT ![k] = "returned"]
          /\ UNCHANGED <<unseen, keys, closing, removedBy, agents>>
      BY <1>8 DEF CloserReturns
    <2>2. TypeOK'
      BY <1>2, <2>1
    <2>3. RecordedOnce' /\ TakenEnds' /\ ReturnedIsDone'
      BY <1>2, <2>1 DEF RecordedOnce, TakenEnds, ReturnedIsDone
    <2>4. \A a \in removedBy[k] : task[a] = "finished"
      BY <2>1, NoAgentIsNone DEF TakenEnds
    <2>5. CloserWaited'
      BY <1>2, <2>1, <2>4 DEF CloserWaited
    <2> QED BY <1>3, <2>2, <2>3, <2>5
  <1> QED BY <1>4, <1>5, <1>6, <1>7, <1>8 DEF CloseStep

LEMMA FinishShares ==
  ASSUME IInv, NEW a \in Agents, Finish(a)
  PROVE  IInv'
  <1> USE DEF IInv, TypeOK
  <1>1. /\ task' = [task EXCEPT ![a] = "finished"]
        /\ UNCHANGED spawnVars /\ UNCHANGED closeVars /\ agents' = agents
    BY DEF Finish
  <1>2. LineWaits' /\ PermitsAccount'
    BY <1>1, CloseKeepsSpawn
  <1>3. TypeOK'
    BY <1>1 DEF spawnVars, closeVars
  <1>4. RecordedOnce' /\ TakenEnds' /\ ReturnedIsDone' /\ CloserWaited'
    BY <1>1 DEF spawnVars, closeVars, RecordedOnce, TakenEnds, ReturnedIsDone,
               CloserWaited
  <1> QED BY <1>2, <1>3, <1>4

(* Every step of the scheduler.                                            *)
LEMMA StepShares == IInv /\ [Next]_vars => IInv'
  <1> SUFFICES ASSUME IInv, [Next]_vars
               PROVE  IInv'
    OBVIOUS
  <1>1. CASE UNCHANGED vars
    <2>1. UNCHANGED spawnVars /\ UNCHANGED closeVars
          /\ task' = task /\ agents' = agents
      BY <1>1 DEF vars
    <2>2. LineWaits' /\ PermitsAccount'
      BY <2>1, CloseKeepsSpawn DEF IInv
    <2> QED BY <2>1, <2>2 DEF IInv, TypeOK, spawnVars, closeVars, RecordedOnce,
                              TakenEnds, ReturnedIsDone, CloserWaited
  <1> QED
    BY <1>1, SpawnShares, AcquireShares, StartShares, RecordShares,
       CloseShares, FinishShares DEF Next, SpawnStep

(* The inductive invariant of the scheduler.                               *)
THEOREM SchedulerInvariant == Spec => []IInv
  <1> QED BY InitShares, StepShares, PTL DEF Spec, SafeSpec

(* spawn(): the permits in the semaphore and those of the calls between    *)
(* acquire and return are together as many as there are slots.             *)
THEOREM PermitsAlwaysAccount == Spec => []PermitsAccount
  <1>1. IInv => PermitsAccount
    BY DEF IInv
  <1> QED BY <1>1, SchedulerInvariant, PTL

(* shutdown_all(): concurrent calls share the agents out, and a call that  *)
(* returned has seen all those it took end.                                *)
THEOREM ClosersShareOut == Spec => []CloserWaited
  <1>1. IInv => CloserWaited
    BY DEF IInv
  <1> QED BY <1>1, SchedulerInvariant, PTL

=============================================================================
