------------------------------ MODULE Host_proofs ------------------------------
(***************************************************************************)
(* Proofs about the host side of an execution: the event loop for any      *)
(* timers, posts and capacity; one run of the run command; the checkpoints *)
(* of an execution for any number of writers, evictions and checkpoints;   *)
(* their format for any strata, payloads and unknown strata.               *)
(***************************************************************************)
EXTENDS EventLoop, RuntimeRun, SnapshotStore, SnapshotFile, SequenceFacts,
        FiniteSetTheorems, TLAPS

-----------------------------------------------------------------------------
(* The event loop.                                                         *)

(* What is being fired was due and still is: nothing is received, so that  *)
(* no timer is armed again or done with, until all of it has been sent.    *)
FiringDue ==
    /\ expired # {} => loop = "firing"
    /\ \A t \in expired : t \in active /\ due[t] = 0

(* A timer that is armed was not cleared, and a timeout has not fired.     *)
ArmedIsFresh ==
    \A t \in active : t \notin cleared /\ (t \notin intervals => fired[t] = 0)

LoopInv == TypeOK /\ FiringDue /\ ArmedIsFresh

LEMMA LoopInit == Init => LoopInv
<1> SUFFICES ASSUME Init PROVE LoopInv
  OBVIOUS
<1>1. due \in [Timers -> 0 .. Longest]
  BY DelaysAreTicks, LongestBounds DEF Init
<1>2. elapsed \in 0 .. Longest /\ fired \in [Timers -> 0 .. 2]
  BY LongestBounds DEF Init
<1>3. TypeOK
  BY <1>1, <1>2, CapacityPositive DEF Init, TypeOK
<1>4. FiringDue /\ ArmedIsFresh
  BY DEF Init, FiringDue, ArmedIsFresh
<1> QED BY <1>3, <1>4 DEF LoopInv

LEMMA LoopStepKeeps ==
    ASSUME LoopInv, [Next]_vars
    PROVE  LoopInv'
<1> USE DEF LoopInv
<1>0. /\ due \in [Timers -> 0 .. Longest] /\ Longest \in Nat
      /\ \A t \in Timers : due[t] \in Nat /\ due[t] <= Longest
      /\ \A t \in Timers : Delay[t] \in 0 .. Longest
  BY DelaysAreTicks, LongestBounds DEF TypeOK
<1>1. CASE Tick /\ UNCHANGED intervals
  <2>1. due' \in [Timers -> 0 .. Longest] /\ \A t \in Timers : due[t] = 0 => due'[t] = 0
    BY <1>0, <1>1 DEF Tick
  <2>2. elapsed' \in 0 .. Longest
    BY <1>0, <1>1 DEF Tick, TypeOK
  <2>3. TypeOK'
    BY <1>1, <2>1, <2>2 DEF Tick, TypeOK
  <2>4. FiringDue' /\ ArmedIsFresh'
    BY <1>1, <2>1 DEF Tick, TypeOK, FiringDue, ArmedIsFresh
  <2> QED BY <2>3, <2>4
<1>2. ASSUME NEW m \in Posts, Post(m), UNCHANGED intervals
      PROVE  LoopInv'
  <2>1. /\ channel' \in Seq(Timers \union Posts)
        /\ Len(channel') = Len(channel) + 1 /\ Len(channel) < Capacity
    BY <1>2 DEF Post, HasRoom, TypeOK
  <2>2. Len(channel') <= Capacity
    BY <2>1, CapacityPositive DEF TypeOK
  <2>3. TypeOK'
    BY <1>2, <2>1, <2>2 DEF Post, timerVars, TypeOK
  <2> QED BY <1>2, <2>3 DEF Post, timerVars, FiringDue, ArmedIsFresh
<1>3. CASE (TopExpired \/ TopWaits \/ SleepOver) /\ UNCHANGED intervals
  <2>1. /\ loop' \in {"waiting", "microtask"} /\ loop \in {"top", "waiting"}
        /\ UNCHANGED <<timerVars, channel, posted, cleared, intervals>>
    BY <1>3 DEF TopExpired, TopWaits, SleepOver
  <2>2. TypeOK'
    BY <2>1 DEF timerVars, TypeOK
  <2> QED BY <2>1, <2>2 DEF timerVars, FiringDue, ArmedIsFresh
<1>4. CASE Receive /\ UNCHANGED intervals
  <2> DEFINE m == Head(channel)
  <2>1. /\ m \in Timers \union Posts /\ Tail(channel) \in Seq(Timers \union Posts)
        /\ Len(Tail(channel)) <= Capacity
    BY <1>4, CapacityPositive DEF Receive, TypeOK
  <2>2. /\ due' \in [Timers -> 0 .. Longest] /\ active' \subseteq active
    BY <1>0, <1>4 DEF Receive, HandleTimer
  <2>3. loop = "waiting" /\ loop' \in {"top", "microtask", "stopped"}
    BY <1>4 DEF Receive
  <2>4. TypeOK'
    BY <1>4, <2>1, <2>2, <2>3 DEF Receive, TypeOK
  <2>5. FiringDue' /\ ArmedIsFresh'
    BY <1>4, <2>2, <2>3 DEF Receive, FiringDue, ArmedIsFresh
  <2> QED BY <2>4, <2>5
<1>5. CASE CollectExpired /\ UNCHANGED intervals
  <2>1. TypeOK'
    BY <1>0, <1>5 DEF CollectExpired, TypeOK, Expired
  <2> QED BY <1>5, <2>1 DEF CollectExpired, Expired, FiringDue, ArmedIsFresh
<1>6. CASE FiredAll /\ UNCHANGED intervals
  <2>1. TypeOK'
    BY <1>6 DEF FiredAll, timerVars, TypeOK
  <2> QED BY <1>6, <2>1 DEF FiredAll, timerVars, FiringDue, ArmedIsFresh
<1>7. ASSUME NEW t \in Timers, Fire(t), UNCHANGED intervals
      PROVE  LoopInv'
  <2>1. /\ channel' \in Seq(Timers \union Posts)
        /\ Len(channel') = Len(channel) + 1 /\ Len(channel) < Capacity
    BY <1>7 DEF Fire, HasRoom, TypeOK
  <2>2. Len(channel') <= Capacity
    BY <2>1, CapacityPositive DEF TypeOK
  <2>3. /\ fired' \in [Timers -> 0 .. 2]
        /\ \A u \in Timers \ {t} : fired'[u] = fired[u]
    BY <1>7 DEF Fire, TypeOK
  <2>4. /\ due' \in [Timers -> 0 .. Longest]
        /\ \A u \in Timers \ {t} : due'[u] = due[u]
    <3>1. elapsed \in Nat
      BY DEF TypeOK
    <3> QED BY <1>0, <1>7, <3>1 DEF Fire
  <2>5. active' \subseteq active /\ (t \notin intervals => t \notin active')
        /\ \A u \in active \ {t} : u \in active'
    BY <1>7 DEF Fire, DoneWith
  <2>6. TypeOK'
    BY <1>7, <2>1, <2>2, <2>3, <2>4, <2>5 DEF Fire, TypeOK
  <2>7. FiringDue'
    BY <1>7, <2>4, <2>5 DEF Fire, FiringDue, TypeOK
  <2>8. ArmedIsFresh'
    BY <1>7, <2>3, <2>5 DEF Fire, ArmedIsFresh, TypeOK
  <2> QED BY <2>6, <2>7, <2>8
<1>8. CASE UNCHANGED vars
  <2>1. TypeOK'
    BY <1>8 DEF vars, state, timerVars, TypeOK
  <2> QED BY <1>8, <2>1 DEF vars, state, timerVars, FiringDue, ArmedIsFresh
<1> QED BY <1>1, <1>2, <1>3, <1>4, <1>5, <1>6, <1>7, <1>8 DEF Next, LoopStep

(* EventLoop: the loop, its timers and its channel are well typed.         *)
THEOREM LoopTypes == Spec => []TypeOK
<1>1. Init => LoopInv
  BY LoopInit
<1>2. LoopInv /\ [Next]_vars => LoopInv'
  BY LoopStepKeeps
<1>3. LoopInv => TypeOK
  BY DEF LoopInv
<1> QED BY <1>1, <1>2, <1>3, PTL DEF Spec

(* fire_expired_timers and the Timer task: a timer fires when its deadline *)
(* has passed, a timeout once, a timer that was cleared never.             *)
THEOREM TimersFireWhenDue == Spec => FiresWhenDue
<1>1. Init => LoopInv
  BY LoopInit
<1>2. LoopInv /\ [Next]_vars => LoopInv'
  BY LoopStepKeeps
<1>3. ASSUME LoopInv, [Next]_vars
      PROVE  [\A t \in Timers : fired'[t] # fired[t] =>
                 /\ due[t] = 0
                 /\ t \notin cleared
                 /\ t \in intervals \/ fired[t] = 0]_vars
  <2> SUFFICES ASSUME NEW t \in Timers, fired'[t] # fired[t]
               PROVE  due[t] = 0 /\ t \notin cleared
                      /\ (t \in intervals \/ fired[t] = 0)
    OBVIOUS
  <2>1. PICK u \in Timers : Fire(u)
    BY <1>3 DEF Next, LoopStep, Tick, Post, TopExpired, TopWaits, SleepOver,
                Receive, CollectExpired, FiredAll, timerVars, vars, state
  <2>2. t = u /\ t \in expired
    BY <1>3, <2>1 DEF Fire, LoopInv, TypeOK
  <2> QED BY <1>3, <2>2 DEF LoopInv, FiringDue, ArmedIsFresh
<1> QED BY <1>1, <1>2, <1>3, PTL DEF Spec, FiresWhenDue

-----------------------------------------------------------------------------
(* One run of the run command.                                             *)

(* What the lifecycle says of a result.                                    *)
Verdict == [ok |-> "completed", error |-> "failed", timeout |-> "timed_out"]

(* As long as nobody else touches the lifecycle, it goes along with the    *)
(* steps of run(), and a script that failed is not one that timed out.     *)
LifecycleFollows ==
    ~options.cancellable =>
        /\ run \in {"new", "traced"} => lifecycle = "pending"
        /\ run \in {"loading", "evaluating"} => lifecycle = "running"
        /\ run = "ending" =>
              \/ result \in {"ok", "error"} /\ lifecycle = "running"
              \/ result = "timeout" /\ lifecycle = "timed_out"
        /\ run = "failing" => result = "error"
        /\ run \in {"closing", "returned"} =>
              /\ result \in {"ok", "error", "timeout"}
              /\ lifecycle = Verdict[result]

(* The trace is opened first and closed last.                              *)
TraceFollows ==
    /\ run = "new" => trace = <<>>
    /\ run \in {"traced", "loading", "evaluating", "ending", "failing", "closing"} =>
          trace = <<"execution_start">>
    /\ run \in {"ending", "failing", "closing", "returned"} =>
          result \in {"ok", "error", "timeout"}
    /\ run = "failing" => result # "ok"
    /\ run = "returned" =>
          trace = IF result = "ok"
                  THEN <<"execution_start", "execution_end 0">>
                  ELSE <<"execution_start", "js_exception", "execution_end 1">>

Queued(j) == \E i \in DOMAIN jobs : jobs[i] = j

(* The heap is asked for once, after run() is over, behind the module: when *)
(* the JS thread comes to it, and from then on, no module is unfinished.   *)
HeapComesLast ==
    /\ main # "running" => run \in {"returned", "panicked"}
    /\ main = "running" =>
          thread # "heap" /\ ~Queued("heap") /\ replies["heap"] = "none"
    /\ \A i, j \in DOMAIN jobs : jobs[i] = "heap" /\ jobs[j] = "module" => j < i
    /\ thread = "heap" => ~Queued("module")
    /\ replies["heap"] = "ok" => ~ModuleUnfinished
    /\ main # "exited" => heap = "none"

RunInv ==
    /\ RunTypeOK /\ LifecycleFollows /\ TraceFollows /\ HeapComesLast
    /\ HeapAfterModule

LEMMA RunInitHolds == RunInit => RunInv
<1> SUFFICES ASSUME RunInit PROVE RunInv
  OBVIOUS
<1>1. RunTypeOK
  BY DEF RunInit, RunTypeOK, Options, Jobs, Terminal
<1>2. LifecycleFollows /\ TraceFollows /\ HeapComesLast /\ HeapAfterModule
  BY DEF RunInit, LifecycleFollows, TraceFollows, HeapComesLast, Queued,
         HeapAfterModule, Jobs
<1> QED BY <1>1, <1>2 DEF RunInv

(* dispatch() puts a job behind the others, or fails.                      *)
LEMMA DispatchQueues ==
    ASSUME RunTypeOK, NEW j \in Jobs, Dispatch(j)
    PROVE  /\ jobs' \in Seq(Jobs) /\ replies' \in [Jobs -> {"none", "ok", "error"}]
           /\ \A k \in Jobs \ {j} : replies'[k] = replies[k]
           /\ replies'[j] \in {replies[j], "error"}
           /\ \/ jobs' = jobs
              \/ /\ DOMAIN jobs' = DOMAIN jobs \union {Len(jobs) + 1}
                 /\ jobs'[Len(jobs) + 1] = j
                 /\ \A i \in DOMAIN jobs : jobs'[i] = jobs[i] /\ i < Len(jobs) + 1
<1>0. jobs \in Seq(Jobs)
  BY DEF RunTypeOK
<1>1. CASE thread = "dead"
  BY <1>0, <1>1 DEF Dispatch, RunTypeOK
<1>2. CASE thread # "dead"
  <2>1. jobs' = Append(jobs, j) /\ replies' = replies
    BY <1>2 DEF Dispatch
  <2>2. /\ Append(jobs, j) \in Seq(Jobs) /\ Len(jobs) \in Nat
        /\ DOMAIN jobs = 1 .. Len(jobs)
        /\ DOMAIN Append(jobs, j) = 1 .. Len(jobs) + 1
        /\ Append(jobs, j)[Len(jobs) + 1] = j
        /\ \A i \in 1 .. Len(jobs) : Append(jobs, j)[i] = jobs[i]
    BY <1>0
  <2>3. 1 .. Len(jobs) + 1 = (1 .. Len(jobs)) \union {Len(jobs) + 1}
    BY <2>2
  <2>4. replies \in [Jobs -> {"none", "ok", "error"}]
    BY DEF RunTypeOK
  <2>5. \A i \in 1 .. Len(jobs) : i < Len(jobs) + 1
    BY <2>2
  <2> HIDE DEF Jobs
  <2> QED BY <2>1, <2>2, <2>3, <2>4, <2>5
<1> QED BY <1>1, <1>2

(* The steps that leave the JS thread and its queue alone.                 *)
LEMMA ThreadRests ==
    ASSUME HeapComesLast, HeapAfterModule, UNCHANGED <<threadVars, heap>>,
           main' = main, main # "running" => run' = run
    PROVE  HeapComesLast' /\ HeapAfterModule'
BY DEF threadVars, HeapComesLast, HeapAfterModule, ModuleUnfinished, Queued

(* The steps that leave run() alone.                                       *)
LEMMA RunRests ==
    ASSUME LifecycleFollows, TraceFollows, UNCHANGED <<options, callVars, lifecycle>>
    PROVE  LifecycleFollows' /\ TraceFollows'
BY DEF callVars, LifecycleFollows, TraceFollows

(* The JS thread takes the job at the head of its queue.                   *)
LEMMA TakeKeepsOrder ==
    ASSUME RunTypeOK, HeapComesLast, HeapAfterModule, main # "exited", ThreadTakes
    PROVE  /\ jobs' \in Seq(Jobs) /\ thread' \in Jobs
           /\ HeapComesLast' /\ HeapAfterModule'
<1> USE DEF ThreadTakes, NextJob, callVars
<1>1. /\ jobs \in Seq(Jobs) /\ 1 \in 1 .. Len(jobs) /\ Len(jobs) \in Nat
      /\ DOMAIN jobs = 1 .. Len(jobs) /\ jobs[1] \in Jobs
  <2>1. jobs \in Seq(Jobs) /\ jobs # <<>>
    BY DEF RunTypeOK
  <2> QED BY <2>1
<1> DEFINE rest == RemoveAt(jobs, 1)
<1>2. /\ rest \in Seq(Jobs) /\ Len(rest) = Len(jobs) - 1
      /\ \A i \in 1 .. Len(jobs) - 1 : rest[i] = IF i < 1 THEN jobs[i] ELSE jobs[i + 1]
  BY <1>1, RemoveAtProperties
<1>3. jobs' = rest /\ thread' = jobs[1]
  OBVIOUS
<1> HIDE DEF rest
<1>4. DOMAIN rest = 1 .. Len(jobs) - 1
  BY <1>2
<1>5. \A i \in DOMAIN rest : /\ rest[i] = jobs[i + 1] /\ i + 1 \in DOMAIN jobs
                             /\ ~ (i + 1 < 1)
  BY <1>1, <1>2, <1>4
<1>6. \A j \in Jobs : Queued(j)' => Queued(j)
  BY <1>3, <1>5 DEF Queued
<1>7. thread' = "heap" => ~Queued("module")'
  <2> SUFFICES ASSUME jobs[1] = "heap", NEW i \in DOMAIN rest, rest[i] = "module"
               PROVE  FALSE
    BY <1>3 DEF Queued
  <2>1. i + 1 < 1
    BY <1>1, <1>5 DEF HeapComesLast
  <2> QED BY <1>5, <2>1
<1>8. \A i, j \in DOMAIN jobs' : jobs'[i] = "heap" /\ jobs'[j] = "module" => j < i
  <2> SUFFICES ASSUME NEW i \in DOMAIN rest, NEW j \in DOMAIN rest,
                      rest[i] = "heap", rest[j] = "module"
               PROVE  j < i
    BY <1>3
  <2>1. j + 1 < i + 1
    BY <1>5 DEF HeapComesLast
  <2> QED BY <1>4, <2>1
<1>9. ModuleUnfinished' => ModuleUnfinished
  <2>1. ModuleUnfinished' => thread' = "module" \/ Queued("module")'
    BY DEF ModuleUnfinished, Queued
  <2>2. thread' = "module" \/ Queued("module") => ModuleUnfinished
    BY <1>1, <1>3 DEF ModuleUnfinished, Queued
  <2> QED BY <1>6, <2>1, <2>2 DEF Jobs
<1>10. main = "running" => thread' # "heap" /\ ~Queued("heap")'
  BY <1>1, <1>3, <1>6 DEF HeapComesLast, Queued, Jobs
<1> QED
  BY <1>1, <1>2, <1>3, <1>7, <1>8, <1>9, <1>10 DEF HeapComesLast, HeapAfterModule, RunTypeOK

(* A job returns, or the thread dies with what it had.                     *)
LEMMA ThreadEndsJob ==
    ASSUME RunTypeOK, HeapComesLast, HeapAfterModule, main # "exited",
           UNCHANGED options,
           \/ ThreadStarts
           \/ ThreadDies
           \/ \E how \in {"ok", "error"} : ThreadReturns(how)
    PROVE  /\ RunTypeOK'
           /\ HeapComesLast' /\ HeapAfterModule'
<1> USE DEF callVars
<1>1. CASE ThreadStarts
  BY <1>1 DEF ThreadStarts, RunTypeOK, HeapComesLast, HeapAfterModule,
              ModuleUnfinished, Queued
<1>2. CASE ThreadDies
  <2>1. /\ replies' \in [Jobs -> {"none", "ok", "error"}] /\ jobs' = <<>>
        /\ thread' = "dead"
    BY <1>2 DEF ThreadDies, Lost, RunTypeOK
  <2>2. main = "running" => replies'["heap"] = "none"
    BY <1>2 DEF ThreadDies, Lost, HeapComesLast, Queued, Jobs
  <2>3. ~ModuleUnfinished'
    BY <2>1 DEF ModuleUnfinished
  <2>4. \A j : ~Queued(j)'
    BY <2>1 DEF Queued
  <2>5. HeapComesLast' /\ HeapAfterModule'
    BY <1>2, <2>1, <2>2, <2>3, <2>4 DEF ThreadDies, HeapComesLast, HeapAfterModule
  <2>6. RunTypeOK'
    <3>1. jobs' \in Seq(Jobs)
      BY <2>1
    <3> QED BY <1>2, <2>1, <3>1 DEF ThreadDies, RunTypeOK
  <2> QED BY <2>5, <2>6
<1>3. ASSUME NEW how \in {"ok", "error"}, ThreadReturns(how)
      PROVE  /\ RunTypeOK'
             /\ HeapComesLast' /\ HeapAfterModule'
  <2>1. /\ replies' \in [Jobs -> {"none", "ok", "error"}] /\ jobs' = jobs
        /\ thread' = "idle" /\ heap' = heap /\ main' = main /\ run' = run
    BY <1>3 DEF ThreadReturns, RunTypeOK
  <2>2. RunTypeOK'
    BY <1>3, <2>1 DEF ThreadReturns, RunTypeOK
  <2>3. thread # "heap" => replies'["heap"] = replies["heap"]
    BY <1>3 DEF ThreadReturns, RunTypeOK, Jobs
  <2>4. ModuleUnfinished' <=> Queued("module")
    BY <2>1 DEF ModuleUnfinished, Queued
  <2>5. replies'["heap"] = "ok" => ~ModuleUnfinished'
    BY <2>3, <2>4 DEF HeapComesLast, ModuleUnfinished, Queued
  <2> QED BY <2>1, <2>2, <2>3, <2>5 DEF HeapComesLast, HeapAfterModule, Queued
<1> QED BY <1>1, <1>2, <1>3

(* Load sends the module, AskHeap the heap's capture.                      *)
LEMMA LoadKeepsOrder ==
    ASSUME RunTypeOK, HeapComesLast, HeapAfterModule, main = "running", Load,
           UNCHANGED options
    PROVE  RunTypeOK' /\ HeapComesLast' /\ HeapAfterModule'
<1> USE DEF Load
<1>1. CASE UNCHANGED <<jobs, replies>>
  <2>1. RunTypeOK'
    BY <1>1 DEF RunTypeOK
  <2> QED BY <1>1, <2>1 DEF HeapComesLast, HeapAfterModule, ModuleUnfinished, Queued
<1>2. CASE Dispatch("module") /\ result' = result /\ run' = "evaluating"
  <2>1. /\ jobs' \in Seq(Jobs) /\ replies' \in [Jobs -> {"none", "ok", "error"}]
        /\ replies'["heap"] = replies["heap"]
        /\ \/ jobs' = jobs
           \/ /\ DOMAIN jobs' = DOMAIN jobs \union {Len(jobs) + 1}
              /\ jobs'[Len(jobs) + 1] = "module"
              /\ \A i \in DOMAIN jobs : jobs'[i] = jobs[i]
    BY <1>2, DispatchQueues DEF Jobs
  <2>2. RunTypeOK'
    BY <1>2, <2>1 DEF RunTypeOK
  <2>3. \A i \in DOMAIN jobs : jobs[i] # "heap"
    BY DEF HeapComesLast, Queued
  <2>4. \A i \in DOMAIN jobs' : jobs'[i] # "heap"
    BY <2>1, <2>3
  <2>5. /\ replies["heap"] = "none" /\ thread # "heap" /\ heap = "none"
        /\ UNCHANGED <<thread, heap, main>>
    BY DEF HeapComesLast
  <2>6. HeapComesLast'
    BY <2>1, <2>4, <2>5 DEF HeapComesLast, Queued
  <2>7. HeapAfterModule'
    BY <2>5 DEF HeapAfterModule
  <2> QED BY <2>2, <2>6, <2>7
<1> QED BY <1>1, <1>2

LEMMA AskKeepsOrder ==
    ASSUME RunTypeOK, HeapComesLast, HeapAfterModule, AskHeap, UNCHANGED options
    PROVE  RunTypeOK' /\ HeapComesLast' /\ HeapAfterModule'
<1> USE DEF AskHeap, callVars
<1>0. /\ main = "running" /\ run' = run /\ run = "returned" /\ thread' = thread
      /\ heap' = heap /\ heap = "none" /\ thread # "heap" /\ replies["heap"] = "none"
      /\ \A i \in DOMAIN jobs : jobs[i] # "heap"
  BY DEF HeapComesLast, Queued
<1>1. CASE UNCHANGED <<jobs, replies>> /\ main' = "exited"
  <2>1. RunTypeOK'
    BY <1>1 DEF RunTypeOK
  <2> QED BY <1>0, <1>1, <2>1 DEF HeapComesLast, HeapAfterModule, Queued
<1>2. CASE Dispatch("heap") /\ main' = "awaiting heap"
  <2>1. /\ jobs' \in Seq(Jobs) /\ replies' \in [Jobs -> {"none", "ok", "error"}]
        /\ replies'["heap"] \in {replies["heap"], "error"}
        /\ \/ jobs' = jobs
           \/ /\ DOMAIN jobs' = DOMAIN jobs \union {Len(jobs) + 1}
              /\ jobs'[Len(jobs) + 1] = "heap"
              /\ \A i \in DOMAIN jobs : jobs'[i] = jobs[i] /\ i < Len(jobs) + 1
    BY <1>2, DispatchQueues DEF Jobs
  <2>2. RunTypeOK'
    BY <1>2, <2>1 DEF RunTypeOK
  <2>3. \A i, j \in DOMAIN jobs' : jobs'[i] = "heap" /\ jobs'[j] = "module" => j < i
    BY <1>0, <2>1
  <2>4. replies'["heap"] # "ok"
    BY <1>0, <2>1
  <2>5. HeapComesLast'
    BY <1>0, <1>2, <2>3, <2>4 DEF HeapComesLast
  <2>6. HeapAfterModule'
    BY <1>0 DEF HeapAfterModule
  <2> QED BY <2>2, <2>5, <2>6
<1> QED BY <1>1, <1>2

(* The trace of a run, put together event by event.                        *)
LEMMA EventSequences ==
    /\ <<"execution_start">> \in Seq(EventKinds)
    /\ <<"execution_start", "execution_end 0">> \in Seq(EventKinds)
    /\ <<"execution_start", "js_exception", "execution_end 1">> \in Seq(EventKinds)
    /\ <<>> \o <<"execution_start">> = <<"execution_start">>
    /\ <<"execution_start">> \o <<"execution_end 0">> =
          <<"execution_start", "execution_end 0">>
    /\ <<"execution_start">> \o <<"js_exception", "execution_end 1">> =
          <<"execution_start", "js_exception", "execution_end 1">>
<1>1. /\ "execution_start" \in EventKinds /\ "js_exception" \in EventKinds
      /\ "execution_end 0" \in EventKinds /\ "execution_end 1" \in EventKinds
  BY DEF EventKinds
<1>2. /\ <<"execution_start">> \in Seq(EventKinds)
      /\ <<"execution_start", "execution_end 0">> \in Seq(EventKinds)
      /\ <<"execution_start", "js_exception", "execution_end 1">> \in Seq(EventKinds)
  BY <1>1, ShortSequences, Zenon
<1>3. <<>> \o <<"execution_start">> = <<"execution_start">>
  BY <1>1, NothingThenSingle, Zenon
<1>4. <<"execution_start">> \o <<"execution_end 0">> =
         <<"execution_start", "execution_end 0">>
  BY <1>1, PairOfSingles, Zenon
<1>5. <<"execution_start">> \o <<"js_exception", "execution_end 1">> =
         <<"execution_start", "js_exception", "execution_end 1">>
  BY <1>1, SingleThenPair, Zenon
<1> QED BY <1>2, <1>3, <1>4, <1>5

(* run() goes on.                                                          *)
LEMMA RunStepFollows ==
    ASSUME RunTypeOK, LifecycleFollows, TraceFollows,
           RunStep \/ TimeoutFires, UNCHANGED options
    PROVE  LifecycleFollows' /\ TraceFollows' /\ lifecycle' \in {"pending", "running"} \union Terminal
           /\ trace' \in Seq(EventKinds)
<1> USE DEF RunTypeOK, Terminal
<1>v. /\ Verdict["ok"] = "completed" /\ Verdict["error"] = "failed"
      /\ Verdict["timeout"] = "timed_out"
  BY DEF Verdict
<1>0. /\ <<"execution_start">> \in Seq(EventKinds)
      /\ <<"execution_start", "execution_end 0">> \in Seq(EventKinds)
      /\ <<"execution_start", "js_exception", "execution_end 1">> \in Seq(EventKinds)
      /\ <<>> \o <<"execution_start">> = <<"execution_start">>
      /\ <<"execution_start">> \o <<"execution_end 0">> =
            <<"execution_start", "execution_end 0">>
      /\ <<"execution_start">> \o <<"js_exception", "execution_end 1">> =
            <<"execution_start", "js_exception", "execution_end 1">>
  BY EventSequences
<1>1. CASE TraceStart
  <2>1. trace' = <<>> \o <<"execution_start">>
    BY <1>1 DEF TraceStart, Emit, TraceFollows
  <2>2. trace' = <<"execution_start">>
    BY <1>0, <2>1
  <2> QED BY <1>0, <1>1, <2>2 DEF TraceStart, LifecycleFollows, TraceFollows
<1>2. CASE Start
  BY <1>2 DEF Start, LifecycleFollows, TraceFollows
<1>3. CASE Load
  BY <1>3 DEF Load, LifecycleFollows, TraceFollows
<1>4. CASE EvalReturns
  <2>1. result' \in {"ok", "error"}
    BY <1>4 DEF EvalReturns, Jobs
  <2> QED BY <1>4, <2>1 DEF EvalReturns, LifecycleFollows, TraceFollows
<1>5. CASE EndOk
  BY <1>5 DEF EndOk, LifecycleFollows, TraceFollows, Verdict
<1>6. CASE EndError
  <2>1. /\ run = "ending" /\ result \in {"error", "timeout"}
        /\ run' = IF KeepsLifecycle THEN "closing" ELSE "failing"
        /\ UNCHANGED <<options, result, lifecycle, trace>>
    BY <1>6 DEF EndError
  <2>2. TraceFollows'
    BY <2>1 DEF TraceFollows
  <2>3. ASSUME ~options.cancellable
        PROVE  IF result = "error" THEN run' = "failing"
               ELSE run' = "closing" /\ lifecycle = "timed_out"
    BY <2>1, <2>3 DEF KeepsLifecycle, LifecycleFollows
  <2>4. LifecycleFollows'
    BY <1>v, <2>1, <2>3 DEF LifecycleFollows
  <2> QED BY <2>1, <2>2, <2>4
<1>7. CASE Fail
  <2>1. /\ run = "failing" /\ lifecycle' = "failed" /\ run' = "closing"
        /\ UNCHANGED <<options, result, trace>>
    BY <1>7 DEF Fail
  <2>2. TraceFollows'
    BY <2>1 DEF TraceFollows
  <2>3. LifecycleFollows'
    BY <1>v, <2>1 DEF LifecycleFollows
  <2> QED BY <2>1, <2>2, <2>3
<1>8. CASE TraceEnd
  <2>1. /\ trace' = <<"execution_start">> \o ClosingEvents /\ run' = "returned"
        /\ UNCHANGED <<options, result, lifecycle>>
    BY <1>8 DEF TraceEnd, Emit, TraceFollows
  <2>2. LifecycleFollows'
    BY <1>8, <2>1 DEF TraceEnd, LifecycleFollows
  <2>3. result \in {"ok", "error", "timeout"}
    BY <1>8 DEF TraceEnd, TraceFollows
  <2>4. trace' = IF result = "ok"
                 THEN <<"execution_start", "execution_end 0">>
                 ELSE <<"execution_start", "js_exception", "execution_end 1">>
    BY <1>0, <2>1 DEF ClosingEvents
  <2>5. TraceFollows' /\ trace' \in Seq(EventKinds)
    BY <1>0, <2>1, <2>3, <2>4 DEF TraceFollows
  <2> QED BY <2>1, <2>2, <2>5
<1>9. CASE TimeoutFires
  BY <1>9 DEF TimeoutFires, TimedAwaits, LifecycleFollows, TraceFollows
<1> QED BY <1>1, <1>2, <1>3, <1>4, <1>5, <1>6, <1>7, <1>8, <1>9 DEF RunStep

LEMMA RunStepKeeps ==
    ASSUME RunInv, [RunNext]_runVars
    PROVE  RunInv'
<1> USE DEF RunInv
<1>1. CASE UNCHANGED runVars
  <2> USE <1>1 DEF runVars, runState, callVars
  <2>1. RunTypeOK'
    BY ZenonT(40) DEF RunTypeOK, threadVars
  <2>2. LifecycleFollows' /\ TraceFollows'
    BY RunRests
  <2>3. HeapComesLast' /\ HeapAfterModule'
    BY ThreadRests
  <2> QED BY <2>1, <2>2, <2>3
<1> SUFFICES ASSUME RunNext PROVE RunInv'
  BY <1>1
<1>2. main # "exited" /\ UNCHANGED options
  BY DEF RunNext
<1>3. CASE RunStep \/ TimeoutFires
  <2>1. /\ LifecycleFollows' /\ TraceFollows'
        /\ lifecycle' \in {"pending", "running"} \union Terminal
        /\ trace' \in Seq(EventKinds)
    BY <1>2, <1>3, RunStepFollows
  <2>2. main = "running"
    BY <1>3 DEF RunStep, TimeoutFires, TimedAwaits, HeapComesLast, RunTypeOK,
                TraceStart, Start, Load, EvalReturns, EndOk, EndError, Fail, TraceEnd
  <2>3. CASE Load
    BY <1>2, <2>1, <2>2, <2>3, LoadKeepsOrder
  <2>4. CASE ~Load
    <3>1. /\ UNCHANGED <<threadVars, heap>> /\ main' = main
          /\ run' \in {"traced", "loading", "ending", "failing", "closing", "returned",
                       "panicked"}
          /\ result' \in {"none", "ok", "error", "timeout"}
      BY <1>3, <2>4 DEF RunStep, TimeoutFires, TraceStart, Start, EvalReturns, EndOk,
                        EndError, Fail, TraceEnd, RunTypeOK, Jobs
    <3>2. HeapComesLast' /\ HeapAfterModule'
      BY <2>2, <3>1, ThreadRests
    <3>3. RunTypeOK'
      BY <1>2, <2>1, <3>1 DEF RunTypeOK, threadVars
    <3> QED BY <2>1, <3>2, <3>3
  <2> QED BY <2>3, <2>4
<1>4. CASE Cancel
  <2>1. /\ options.cancellable /\ lifecycle' = "cancelled"
        /\ UNCHANGED <<callVars, main, threadVars, heap>>
    BY <1>4 DEF Cancel
  <2>2. HeapComesLast' /\ HeapAfterModule'
    BY <2>1, ThreadRests DEF callVars
  <2>3. RunTypeOK'
    BY <1>2, <2>1 DEF RunTypeOK, callVars, threadVars, Terminal
  <2>4. LifecycleFollows' /\ TraceFollows'
    BY <1>2, <2>1 DEF LifecycleFollows, TraceFollows, callVars
  <2> QED BY <2>2, <2>3, <2>4
<1>5. CASE AskHeap
  <2>1. LifecycleFollows' /\ TraceFollows'
    BY <1>2, <1>5, RunRests DEF AskHeap
  <2> QED BY <1>2, <1>5, <2>1, AskKeepsOrder
<1>6. CASE WriteSnapshot
  <2>1. LifecycleFollows' /\ TraceFollows'
    BY <1>2, <1>6, RunRests DEF WriteSnapshot
  <2>2. RunTypeOK'
    BY <1>2, <1>6 DEF WriteSnapshot, RunTypeOK, callVars, threadVars
  <2>3. HeapComesLast' /\ HeapAfterModule'
    BY <1>6 DEF WriteSnapshot, callVars, threadVars, HeapComesLast, HeapAfterModule,
                ModuleUnfinished, Queued
  <2> QED BY <2>1, <2>2, <2>3
<1>7. CASE ExitOnPanic
  <2>1. LifecycleFollows' /\ TraceFollows'
    BY <1>2, <1>7, RunRests DEF ExitOnPanic
  <2>2. RunTypeOK'
    BY <1>2, <1>7 DEF ExitOnPanic, RunTypeOK, callVars, threadVars
  <2>3. HeapComesLast' /\ HeapAfterModule'
    BY <1>7 DEF ExitOnPanic, callVars, threadVars, HeapComesLast, HeapAfterModule,
                ModuleUnfinished, Queued
  <2> QED BY <2>1, <2>2, <2>3
<1>8. CASE ThreadTakes
  <2>1. LifecycleFollows' /\ TraceFollows'
    BY <1>2, <1>8, RunRests DEF ThreadTakes
  <2>2. /\ jobs' \in Seq(Jobs) /\ thread' \in Jobs
        /\ HeapComesLast' /\ HeapAfterModule'
    BY <1>2, <1>8, TakeKeepsOrder
  <2>3. RunTypeOK'
    BY <1>2, <1>8, <2>2 DEF ThreadTakes, RunTypeOK, callVars
  <2> QED BY <2>1, <2>2, <2>3
<1>9. CASE \/ ThreadStarts \/ ThreadDies
           \/ \E how \in {"ok", "error"} : ThreadReturns(how)
  <2>1. UNCHANGED <<callVars, lifecycle>>
    BY <1>9 DEF ThreadStarts, ThreadDies, ThreadReturns
  <2>2. LifecycleFollows' /\ TraceFollows'
    BY <1>2, <2>1, RunRests
  <2>3. RunTypeOK' /\ HeapComesLast' /\ HeapAfterModule'
    BY <1>2, <1>9, ThreadEndsJob
  <2> QED BY <2>2, <2>3
<1> QED BY <1>3, <1>4, <1>5, <1>6, <1>7, <1>8, <1>9 DEF RunNext, MainStep

(* `bua run`: the run, the JS thread and the snapshot are well typed.      *)
THEOREM RunTypes == RunSpec => []RunTypeOK
<1>1. RunInit => RunInv
  BY RunInitHolds
<1>2. RunInv /\ [RunNext]_runVars => RunInv'
  BY RunStepKeeps
<1>3. RunInv => RunTypeOK
  BY DEF RunInv
<1> QED BY <1>1, <1>2, <1>3, PTL DEF RunSpec

(* Runtime::run: exit code, lifecycle and trace tell one story.            *)
THEOREM RecordsAgree == RunSpec => []RunRecordsAgree
<1>1. RunInit => RunInv
  BY RunInitHolds
<1>2. RunInv /\ [RunNext]_runVars => RunInv'
  BY RunStepKeeps
<1>3. RunInv => RunRecordsAgree
  <2> SUFFICES ASSUME RunInv, run = "returned", ~options.cancellable
               PROVE  /\ lifecycle = Verdict[result]
                      /\ trace = IF lifecycle = "completed"
                                 THEN <<"execution_start", "execution_end 0">>
                                 ELSE <<"execution_start", "js_exception", "execution_end 1">>
    BY DEF RunRecordsAgree, Verdict
  <2>1. result \in {"ok", "error", "timeout"} /\ lifecycle = Verdict[result]
    BY DEF RunInv, LifecycleFollows
  <2>2. lifecycle = "completed" <=> result = "ok"
    BY <2>1 DEF Verdict
  <2> QED BY <2>1, <2>2 DEF RunInv, TraceFollows
<1> QED BY <1>1, <1>2, <1>3, PTL DEF RunSpec

(* cmd_run and the JS thread's queue: a heap in the snapshot file is one   *)
(* captured when no module was running or waiting, be it that the module   *)
(* had ended or that it was never handed over.                             *)
THEOREM HeapIsCapturedAfterModule == RunSpec => []HeapAfterModule
<1>1. RunInit => RunInv
  BY RunInitHolds
<1>2. RunInv /\ [RunNext]_runVars => RunInv'
  BY RunStepKeeps
<1>3. RunInv => HeapAfterModule
  BY DEF RunInv
<1> QED BY <1>1, <1>2, <1>3, PTL DEF RunSpec

-----------------------------------------------------------------------------
(* The checkpoints of an execution.                                        *)

Newer(n) == {m \in Listed : m > n}

(* What is going to be evicted has enough newer files, also when the list  *)
(* it was chosen from is stale: who removes one of those found as many     *)
(* newer still.                                                            *)
EvictedHaveNewer ==
    \A e \in Evictors : \A n \in evictor[e] : Cardinality(Newer(n)) >= MaxSnapshots

(* A file that is being written, and one that was, may be evicted, but     *)
(* only in favour of a newer one.                                          *)
WrittenIsCovered ==
    /\ \A n \in completed : \E m \in Listed : n <= m
    /\ \A w \in Writers :
          writer[w].pc = "writing" => \E m \in Listed : writer[w].number <= m

(* A number is given to one checkpoint, and no file of that number was     *)
(* there before: a file that is gone stays away.                           *)
NumbersAreFresh ==
    /\ \A n \in Listed \union reader.unseen : n < count
    /\ \A w \in Writers : writer[w].pc = "numbered" =>
          /\ writer[w].number < count
          /\ writer[w].number \notin Listed \union reader.unseen
          /\ \A v \in Writers \ {w} : writer[v].pc = "numbered" =>
                                        writer[v].number # writer[w].number

(* What was completed before the call is covered by what the reader has    *)
(* seen and what it has not come to, and then by what it has taken and     *)
(* what was evicted before it came to it.                                  *)
ReaderIsUpToDate ==
    /\ reader.pc = "listing" => \A n \in reader.before :
          \E m \in reader.seen \union reader.unseen : n <= m
    /\ reader.pc \in {"found", "ok", "none"} /\ ~reader.cut =>
          \A n \in reader.before :
             \/ reader.pc \in {"found", "ok"} /\ n <= reader.latest
             \/ \E m \in EvictedUnseen : n <= m

EvictInv == StoreTypeOK /\ EvictedHaveNewer

(* As long as the numbers in the names have one width.                     *)
LEMMA NamesAreOrdered ==
    ASSUME MaxNumber < Wrap, NEW m \in Numbers, NEW n \in Numbers
    PROVE  Before(m, n) <=> m < n
<1>1. m \in Nat /\ n \in Nat /\ m <= MaxNumber /\ n <= MaxNumber
      /\ MaxNumber \in Nat /\ Wrap \in Nat
  BY BoundsAreNumbers DEF Numbers
<1>2. m < Wrap /\ n < Wrap
  BY <1>1
<1>3. ~ (n >= Wrap) /\ ~ (m >= Wrap)
  BY <1>1, <1>2
<1> QED BY <1>3 DEF Before

(* Every set of files is finite, and to have more files is not to have     *)
(* fewer newer ones.                                                       *)
LEMMA NewerAreFinite ==
    \A S : S \subseteq Numbers =>
        /\ IsFiniteSet(S) /\ Cardinality(S) \in Nat
        /\ \A T : T \subseteq S => Cardinality(T) <= Cardinality(S)
<1>1. IsFiniteSet(Numbers)
  <2>1. 0 \in Int /\ MaxNumber \in Int
    BY BoundsAreNumbers
  <2>2. IsFiniteSet(0 .. MaxNumber)
    BY <2>1, FS_Interval, Zenon
  <2> QED BY <2>2 DEF Numbers
<1> QED BY <1>1, FS_Subset, FS_CardinalityType

LEMMA StoreInitTypes == StoreInit => EvictInv
<1> SUFFICES ASSUME StoreInit PROVE EvictInv
  OBVIOUS
<1>1. 0 \in Numbers /\ 0 \in 0 .. MaxNumber + 1
  BY BoundsAreNumbers DEF Numbers
<1> QED BY <1>1 DEF StoreInit, Idle, EvictInv, StoreTypeOK, EvictedHaveNewer

LEMMA StoreTypesKeep ==
    ASSUME StoreTypeOK, [StoreNext]_storeVars
    PROVE  StoreTypeOK'
<1> USE DEF StoreTypeOK
<1>0. /\ Numbers = 0 .. MaxNumber /\ MaxNumber \in Nat
      /\ \A n : n \in Numbers <=> n \in Nat /\ n <= MaxNumber
  BY BoundsAreNumbers DEF Numbers
<1>1. ASSUME NEW w \in Writers, Checkpoint(w) PROVE StoreTypeOK'
  <2>1. count \in Numbers /\ count' \in 0 .. MaxNumber + 1
    BY <1>0, <1>1 DEF Checkpoint
  <2>2. writer' \in [Writers -> [pc : {"idle", "numbered", "writing"}, number : Numbers]]
    BY <1>1, <2>1 DEF Checkpoint
  <2> QED BY <1>1, <2>1, <2>2 DEF Checkpoint
<1>2. ASSUME NEW w \in Writers, OpenFile(w) \/ WriteAll(w) \/ WriteFails(w)
      PROVE  StoreTypeOK'
  <2>1. writer' \in [Writers -> [pc : {"idle", "numbered", "writing"}, number : Numbers]]
    BY <1>0, <1>2 DEF OpenFile, WriteAll, WriteFails, Idle
  <2>2. writer[w].number \in Numbers
    OBVIOUS
  <2>3. files' \in [Numbers -> {"absent", "partial", "whole"}]
    BY <1>2 DEF OpenFile, WriteAll, WriteFails
  <2>4. completed' \subseteq Numbers
    BY <1>2, <2>2 DEF OpenFile, WriteAll, WriteFails, Newest
  <2>5. count' = count /\ evictor' = evictor /\ reader' = reader
    BY <1>2 DEF OpenFile, WriteAll, WriteFails
  <2> QED BY <2>1, <2>3, <2>4, <2>5
<1>3. ASSUME NEW e \in Evictors, ListOld(e) PROVE StoreTypeOK'
  BY <1>3 DEF ListOld, Listed
<1>4. ASSUME NEW e \in Evictors, NEW n \in Numbers, RemoveOld(e, n)
      PROVE  StoreTypeOK'
  BY <1>4 DEF RemoveOld
<1>5. CASE ReadDir
  BY <1>0, <1>5 DEF ReadDir, Listed
<1>6. ASSUME NEW n \in Numbers, NextEntry(n) PROVE StoreTypeOK'
  BY <1>6 DEF NextEntry
<1>7. CASE Find
  <2>1. /\ UNCHANGED <<count, files, writer, evictor, completed>>
        /\ reader.seen \subseteq Numbers
    BY <1>7 DEF Find
  <2>2. PICK cut \in BOOLEAN :
            \/ reader' = [reader EXCEPT !.pc = "none", !.cut = cut]
            \/ \E n \in reader.seen :
                 reader' = [reader EXCEPT !.pc = "found", !.latest = n,
                                          !.seen = {}, !.cut = cut]
    BY <1>7 DEF Find
  <2>3. CASE reader' = [reader EXCEPT !.pc = "none", !.cut = cut]
    BY <2>1, <2>3
  <2>4. CASE \E n \in reader.seen :
               reader' = [reader EXCEPT !.pc = "found", !.latest = n,
                                        !.seen = {}, !.cut = cut]
    BY <2>1, <2>4
  <2> QED BY <2>2, <2>3, <2>4
<1>8. CASE Parse
  BY <1>8 DEF Parse
<1>9. CASE UNCHANGED storeVars
  BY <1>9 DEF storeVars
<1> QED BY <1>1, <1>2, <1>3, <1>4, <1>5, <1>6, <1>7, <1>8, <1>9 DEF StoreNext

(* A step removes one listed file or none, and only one that an eviction   *)
(* had chosen.                                                             *)
LEMMA OneFileGoes ==
    ASSUME StoreTypeOK, [StoreNext]_storeVars
    PROVE  \/ Listed \subseteq Listed'
           \/ \E e \in Evictors : \E n \in evictor[e] :
                 /\ RemoveOld(e, n)
                 /\ Listed' = Listed \ {n}
<1> USE DEF StoreTypeOK
<1>1. ASSUME NEW w \in Writers, OpenFile(w) PROVE Listed \subseteq Listed'
  BY <1>1 DEF OpenFile, Listed
<1>2. ASSUME NEW w \in Writers, WriteAll(w) PROVE Listed \subseteq Listed'
  BY <1>2 DEF WriteAll, Listed
<1>3. ASSUME NEW e \in Evictors, NEW n \in Numbers, RemoveOld(e, n)
      PROVE  \/ Listed \subseteq Listed'
             \/ n \in evictor[e] /\ RemoveOld(e, n) /\ Listed' = Listed \ {n}
  <2>1. n \in evictor[e]
    BY <1>3 DEF RemoveOld
  <2>2. CASE UNCHANGED files
    BY <2>2 DEF Listed
  <2>3. CASE files' = [files EXCEPT ![n] = "absent"]
    <3>1. Listed' = Listed \ {n}
      BY <2>3 DEF Listed
    <3> QED BY <1>3, <2>1, <3>1
  <2> QED BY <1>3, <2>2, <2>3 DEF RemoveOld
<1>4. CASE UNCHANGED files
  BY <1>4 DEF Listed
<1>5. \/ UNCHANGED files
      \/ \E w \in Writers : OpenFile(w) \/ WriteAll(w)
      \/ \E e \in Evictors, n \in Numbers : RemoveOld(e, n)
  BY DEF StoreNext, Checkpoint, WriteFails, ListOld, ReadDir, NextEntry, Find,
         Parse, storeVars
<1> HIDE DEF StoreTypeOK
<1>6. CASE \E w \in Writers : OpenFile(w) \/ WriteAll(w)
  BY <1>1, <1>2, <1>6
<1>7. CASE \E e \in Evictors, n \in Numbers : RemoveOld(e, n)
  BY <1>3, <1>7
<1> QED BY <1>4, <1>5, <1>6, <1>7

(* No file that has fewer than MaxSnapshots newer ones goes, and none of   *)
(* the newer ones goes with it.                                            *)
LEMMA NewerStay ==
    ASSUME EvictInv, [StoreNext]_storeVars, MaxNumber < Wrap,
           NEW n \in Numbers, Cardinality(Newer(n)) >= MaxSnapshots
    PROVE  Cardinality(Newer(n)') >= MaxSnapshots
<1> USE DEF EvictInv
<1>0. /\ Listed \subseteq Numbers /\ Listed' \subseteq Numbers
      /\ Newer(n) \subseteq Numbers /\ Newer(n)' \subseteq Numbers
      /\ Numbers \subseteq Nat /\ MaxSnapshots \in Nat
  BY BoundsAreNumbers DEF Listed, Newer, Numbers
<1>1. CASE Listed \subseteq Listed'
  <2>1. Newer(n) \subseteq Newer(n)'
    BY <1>1 DEF Newer
  <2>2. Cardinality(Newer(n)) <= Cardinality(Newer(n)')
    BY <1>0, <2>1, NewerAreFinite
  <2>3. Cardinality(Newer(n)) \in Nat /\ Cardinality(Newer(n)') \in Nat
    BY <1>0, NewerAreFinite
  <2> QED BY <1>0, <2>2, <2>3
<1>2. ASSUME NEW e \in Evictors, NEW k \in evictor[e], Listed' = Listed \ {k}
      PROVE  Cardinality(Newer(n)') >= MaxSnapshots
  <2>0. k \in Numbers
    BY DEF StoreTypeOK
  <2>1. CASE k > n
    <3>1. Newer(k) \subseteq Newer(n)'
      <4> SUFFICES ASSUME NEW m \in Newer(k) PROVE m \in Newer(n)'
        OBVIOUS
      <4>1. m \in Listed /\ m > k /\ m \in Nat /\ k \in Nat /\ n \in Nat
        BY <1>0, <2>0 DEF Newer
      <4>2. m > n /\ m # k
        BY <2>1, <4>1
      <4> QED BY <1>2, <4>1, <4>2 DEF Newer
    <3>2. Cardinality(Newer(k)) >= MaxSnapshots
      BY DEF EvictedHaveNewer
    <3>3. Newer(k) \subseteq Numbers
      BY <1>0 DEF Newer
    <3>4. Cardinality(Newer(k)) <= Cardinality(Newer(n)')
      BY <1>0, <3>1, NewerAreFinite
    <3>5. Cardinality(Newer(k)) \in Nat /\ Cardinality(Newer(n)') \in Nat
      BY <1>0, <3>3, NewerAreFinite
    <3> QED BY <1>0, <3>2, <3>4, <3>5
  <2>2. CASE ~ (k > n)
    <3>1. Newer(n)' = Newer(n)
      BY <1>2, <2>2 DEF Newer
    <3> QED BY <3>1
  <2> QED BY <2>1, <2>2
<1> QED BY <1>1, <1>2, OneFileGoes

LEMMA EvictKeeps ==
    ASSUME EvictInv, [StoreNext]_storeVars, MaxNumber < Wrap
    PROVE  EvictInv'
<1> USE DEF EvictInv
<1>1. StoreTypeOK'
  BY StoreTypesKeep
<1> SUFFICES ASSUME NEW e \in Evictors, NEW n \in evictor'[e]
             PROVE  Cardinality(Newer(n)') >= MaxSnapshots
  BY <1>1 DEF EvictedHaveNewer
<1>2. n \in Numbers
  BY <1>1 DEF StoreTypeOK
<1>3. CASE n \in evictor[e]
  BY <1>2, <1>3, NewerStay DEF EvictedHaveNewer
<1>4. CASE n \notin evictor[e]
  <2>1. PICK d \in Evictors : ListOld(d)
    <3>1. ASSUME NEW d \in Evictors, NEW k \in Numbers, RemoveOld(d, k)
          PROVE  n \in evictor[e]
      BY <1>4, <3>1 DEF RemoveOld, StoreTypeOK
    <3>2. ASSUME NEW w \in Writers,
                 Checkpoint(w) \/ OpenFile(w) \/ WriteAll(w) \/ WriteFails(w)
          PROVE  evictor' = evictor
      BY <3>2 DEF Checkpoint, OpenFile, WriteAll, WriteFails
    <3>3. ASSUME ReadDir \/ (\E k \in Numbers : NextEntry(k)) \/ Find \/ Parse
          PROVE  evictor' = evictor
      BY <3>3 DEF ReadDir, NextEntry, Find, Parse
    <3>4. UNCHANGED storeVars => evictor' = evictor
      BY DEF storeVars
    <3> QED BY <1>4, <3>1, <3>2, <3>3, <3>4 DEF StoreNext
  <2>2. PICK list \in SUBSET Listed :
            evictor' = [evictor EXCEPT ![d] = {k \in list : Excess(list, k)}]
    BY <2>1 DEF ListOld
  <2>3. Excess(list, n) /\ files' = files
    BY <1>4, <2>1, <2>2 DEF ListOld, StoreTypeOK
  <2>4. {m \in list : Before(n, m)} \subseteq Newer(n)
    BY <1>2, NamesAreOrdered DEF Newer, Listed, Numbers
  <2>5. Newer(n)' = Newer(n)
    BY <2>3 DEF Newer, Listed
  <2>6. Newer(n) \subseteq Numbers /\ MaxSnapshots \in Nat
    BY BoundsAreNumbers DEF Newer, Listed
  <2>7. /\ Cardinality({m \in list : Before(n, m)}) <= Cardinality(Newer(n))
        /\ Cardinality({m \in list : Before(n, m)}) \in Nat
        /\ Cardinality(Newer(n)) \in Nat
    BY <2>4, <2>6, NewerAreFinite
  <2> QED BY <2>3, <2>5, <2>6, <2>7 DEF Excess
<1> QED BY <1>3, <1>4

(* A file below which something is covered goes only if a newer one stays. *)
LEMMA CoverStays ==
    ASSUME EvictInv, [StoreNext]_storeVars, MaxSnapshots # 0,
           NEW n \in Numbers, \E m \in Listed : n <= m
    PROVE  \E m \in Listed' : n <= m
<1> USE DEF EvictInv
<1>0. MaxSnapshots \in Nat /\ Listed \subseteq Numbers /\ Numbers \subseteq Nat
  BY BoundsAreNumbers DEF Listed, Numbers
<1>1. CASE Listed \subseteq Listed'
  BY <1>1
<1>2. ASSUME NEW e \in Evictors, NEW k \in evictor[e], Listed' = Listed \ {k}
      PROVE  \E m \in Listed' : n <= m
  <2>1. PICK m \in Listed : n <= m
    OBVIOUS
  <2>2. CASE m # k
    BY <1>2, <2>1, <2>2
  <2>3. CASE m = k
    <3>1. Cardinality(Newer(k)) >= MaxSnapshots
      BY DEF EvictedHaveNewer
    <3>2. Newer(k) # {}
      <4>1. Cardinality({}) = 0
        BY FS_EmptySet
      <4> QED BY <1>0, <3>1, <4>1
    <3>3. PICK l \in Listed : l > k
      BY <3>2 DEF Newer
    <3>4. l # k /\ n <= l
      BY <1>0, <2>1, <2>3, <3>3
    <3> QED BY <1>2, <3>3, <3>4
  <2> QED BY <2>2, <2>3
<1> QED BY <1>1, <1>2, OneFileGoes

StoreInv == EvictInv /\ NumbersAreFresh /\ WrittenIsCovered /\ ReaderIsUpToDate

LEMMA StoreInitHolds == StoreInit => StoreInv
<1> SUFFICES ASSUME StoreInit PROVE StoreInv
  OBVIOUS
<1>1. EvictInv
  BY StoreInitTypes
<1>2. WrittenIsCovered /\ ReaderIsUpToDate
  BY DEF StoreInit, Idle, WrittenIsCovered, ReaderIsUpToDate
<1>3. NumbersAreFresh
  BY DEF StoreInit, Idle, NumbersAreFresh, Listed
<1> QED BY <1>1, <1>2, <1>3 DEF StoreInv

(* What a step does to the numbers that are in use.                        *)
LEMMA NumbersStayFresh ==
    ASSUME StoreTypeOK, NumbersAreFresh, [StoreNext]_storeVars
    PROVE  NumbersAreFresh'
<1> USE DEF StoreTypeOK, NumbersAreFresh
<1>0. count \in Nat /\ Numbers \subseteq Nat
  BY BoundsAreNumbers DEF Numbers
<1>1. ASSUME NEW w \in Writers, Checkpoint(w) PROVE NumbersAreFresh'
  <2>1. /\ count' = count + 1 /\ Listed' = Listed /\ reader' = reader
        /\ writer'[w].number = count
        /\ \A v \in Writers \ {w} : writer'[v] = writer[v]
    BY <1>1 DEF Checkpoint, Listed
  <2>2. Listed \subseteq Nat /\ reader.unseen \subseteq Nat
        /\ \A v \in Writers : writer[v].number \in Nat
    BY <1>0 DEF Listed
  <2> HIDE DEF StoreTypeOK
  <2> QED BY <1>0, <2>1, <2>2
<1>2. ASSUME NEW w \in Writers, OpenFile(w) PROVE NumbersAreFresh'
  <2>1. /\ count' = count /\ Listed' = Listed \union {writer[w].number}
        /\ reader' = reader /\ writer[w].pc = "numbered"
        /\ writer'[w].pc = "writing"
        /\ \A v \in Writers \ {w} : writer'[v] = writer[v]
    BY <1>2 DEF OpenFile, Listed
  <2> HIDE DEF StoreTypeOK
  <2> QED BY <2>1
<1>3. ASSUME NEW w \in Writers, WriteAll(w) \/ WriteFails(w) PROVE NumbersAreFresh'
  <2>1. /\ count' = count /\ Listed' = Listed /\ reader' = reader
        /\ writer'[w].pc = "idle"
        /\ \A v \in Writers \ {w} : writer'[v] = writer[v]
    BY <1>3 DEF WriteAll, WriteFails, Listed, Idle
  <2> HIDE DEF StoreTypeOK
  <2> QED BY <2>1
<1>4. ASSUME NEW e \in Evictors, NEW n \in Numbers, RemoveOld(e, n)
      PROVE  NumbersAreFresh'
  <2>1. count' = count /\ Listed' \subseteq Listed /\ reader' = reader
        /\ writer' = writer
    BY <1>4 DEF RemoveOld, Listed
  <2> HIDE DEF StoreTypeOK
  <2> QED BY <2>1
<1>5. CASE ReadDir \/ (\E n \in Numbers : NextEntry(n)) \/ Find \/ Parse
  <2>1. /\ UNCHANGED <<count, files, writer>>
        /\ reader'.unseen \subseteq Listed \union reader.unseen
    <3>1. CASE ReadDir
      BY <3>1 DEF ReadDir
    <3>2. ASSUME NEW n \in Numbers, NextEntry(n)
          PROVE  /\ UNCHANGED <<count, files, writer>>
                 /\ reader'.unseen = reader.unseen \ {n}
      BY <3>2 DEF NextEntry
    <3>3. CASE Find \/ Parse
      BY <3>3 DEF Find, Parse
    <3> QED BY <1>5, <3>1, <3>2, <3>3
  <2>2. Listed' = Listed
    BY <2>1 DEF Listed
  <2> HIDE DEF StoreTypeOK
  <2> QED BY <2>1, <2>2
<1>6. CASE UNCHANGED <<count, files, writer, reader>>
  BY <1>6 DEF Listed
<1> HIDE DEF StoreTypeOK, NumbersAreFresh
<1>7. ASSUME NEW e \in Evictors, ListOld(e) PROVE NumbersAreFresh'
  BY <1>6, <1>7 DEF ListOld
<1> QED
  BY <1>1, <1>2, <1>3, <1>4, <1>5, <1>6, <1>7 DEF StoreNext, storeVars

(* A file evicted before the reader came to it stays away.                 *)
LEMMA EvictedStayAway ==
    ASSUME StoreTypeOK, NumbersAreFresh, [StoreNext]_storeVars,
           reader'.unseen = reader.unseen
    PROVE  EvictedUnseen \subseteq EvictedUnseen'
<1> SUFFICES ASSUME NEW m \in EvictedUnseen PROVE files'[m] = "absent"
  BY DEF EvictedUnseen
<1>1. m \in reader.unseen /\ files[m] = "absent" /\ m \in Numbers
  BY DEF EvictedUnseen, StoreTypeOK
<1>2. ASSUME NEW w \in Writers, OpenFile(w) PROVE files'[m] = "absent"
  <2>1. writer[w].number # m
    BY <1>1, <1>2 DEF OpenFile, NumbersAreFresh
  <2> QED BY <1>1, <1>2, <2>1 DEF OpenFile, StoreTypeOK
<1>3. ASSUME NEW w \in Writers, WriteAll(w) PROVE files'[m] = "absent"
  BY <1>1, <1>3 DEF WriteAll, StoreTypeOK
<1>4. ASSUME NEW e \in Evictors, NEW n \in Numbers, RemoveOld(e, n)
      PROVE  files'[m] = "absent"
  BY <1>1, <1>4 DEF RemoveOld, StoreTypeOK
<1>5. \/ files' = files
      \/ \E w \in Writers : OpenFile(w) \/ WriteAll(w)
      \/ \E e \in Evictors, n \in Numbers : RemoveOld(e, n)
  BY DEF StoreNext, Checkpoint, WriteFails, ListOld, ReadDir, NextEntry, Find,
         Parse, storeVars
<1> QED BY <1>1, <1>2, <1>3, <1>4, <1>5

(* What latest_snapshot() does with the files it sees.                     *)
LEMMA ReaderStays ==
    ASSUME StoreTypeOK, NumbersAreFresh, WrittenIsCovered, ReaderIsUpToDate,
           [StoreNext]_storeVars, MaxNumber < Wrap
    PROVE  ReaderIsUpToDate'
<1>0. Numbers \subseteq Nat
  BY BoundsAreNumbers DEF Numbers
<1>1. CASE ReadDir
  <2>1. /\ reader'.pc = "listing" \/ reader'.cut
        /\ reader'.pc \in {"listing", "none"}
        /\ reader'.before = completed /\ reader'.unseen = Listed
    <3>1. PICK readable \in BOOLEAN :
              reader' = [pc |-> IF readable THEN "listing" ELSE "none",
                         latest |-> 0, seen |-> {}, before |-> completed,
                         unseen |-> Listed, cut |-> ~readable]
      BY <1>1 DEF ReadDir
    <3> QED BY <3>1
  <2> QED BY <2>1 DEF ReaderIsUpToDate, WrittenIsCovered
<1>2. ASSUME NEW k \in Numbers, NextEntry(k) PROVE ReaderIsUpToDate'
  <2>1. /\ reader.pc = "listing" /\ reader'.pc = "listing"
        /\ reader'.before = reader.before
        /\ reader'.seen \union reader'.unseen
              = reader.seen \union reader.unseen \union {k}
    BY <1>2 DEF NextEntry, StoreTypeOK
  <2> QED BY <2>1 DEF ReaderIsUpToDate
<1>3. CASE Find
  <2>1. /\ reader.pc = "listing" /\ reader'.pc \in {"none", "found"}
        /\ reader'.before = reader.before /\ reader'.unseen = reader.unseen
        /\ reader'.pc = "none" => reader.seen = {}
        /\ reader'.pc = "found" => /\ reader'.latest \in reader.seen
                                   /\ LastName(reader.seen, reader'.latest)
        /\ ~reader'.cut => reader.unseen \cap Listed = {}
    BY <1>3 DEF Find, StoreTypeOK
  <2> SUFFICES ASSUME ~reader'.cut, NEW n \in reader.before
               PROVE  \/ reader'.pc = "found" /\ n <= reader'.latest
                      \/ \E m \in EvictedUnseen' : n <= m
    BY <2>1 DEF ReaderIsUpToDate
  <2>2. PICK m \in reader.seen \union reader.unseen : n <= m
    BY <2>1 DEF ReaderIsUpToDate
  <2>3. n \in Numbers /\ m \in Numbers /\ reader.seen \subseteq Numbers
    BY DEF StoreTypeOK
  <2>4. CASE m \in reader.unseen
    <3>1. m \in EvictedUnseen
      BY <2>1, <2>3, <2>4 DEF EvictedUnseen, Listed
    <3>2. m \in EvictedUnseen'
      BY <2>1, <3>1, EvictedStayAway
    <3> QED BY <2>2, <3>2
  <2>5. CASE m \in reader.seen
    <3>1. reader'.latest \in Numbers
      BY <2>1, <2>3, <2>5
    <3>2. m = reader'.latest \/ m < reader'.latest
      BY <2>1, <2>3, <2>5, <3>1, NamesAreOrdered DEF LastName
    <3>3. n \in Nat /\ m \in Nat /\ reader'.latest \in Nat
      BY <1>0, <2>3, <3>1
    <3>4. n <= reader'.latest
      BY <2>2, <3>2, <3>3
    <3> QED BY <2>1, <2>5, <3>4
  <2> QED BY <2>4, <2>5
<1>4. CASE Parse
  <2>1. /\ reader.pc = "found" /\ reader'.pc \in {"ok", "error"}
        /\ reader'.before = reader.before /\ reader'.unseen = reader.unseen
        /\ reader'.latest = reader.latest /\ reader'.cut = reader.cut
    BY <1>4 DEF Parse, StoreTypeOK
  <2> QED BY <2>1, EvictedStayAway DEF ReaderIsUpToDate
<1>5. CASE UNCHANGED reader
  BY <1>5, EvictedStayAway DEF ReaderIsUpToDate
<1> QED
  BY <1>1, <1>2, <1>3, <1>4, <1>5
  DEF StoreNext, Checkpoint, OpenFile, WriteAll, WriteFails, ListOld, RemoveOld,
      storeVars

LEMMA StoreKeeps ==
    ASSUME StoreInv, [StoreNext]_storeVars, MaxNumber < Wrap, MaxSnapshots # 0
    PROVE  StoreInv'
<1> USE DEF StoreInv
<1>0. EvictInv'
  BY EvictKeeps
<1>1. StoreTypeOK /\ StoreTypeOK'
  BY <1>0 DEF EvictInv
<1>2. \A n \in Numbers : (\E m \in Listed : n <= m) => \E m \in Listed' : n <= m
  BY CoverStays
<1>3. Numbers \subseteq Nat
  BY BoundsAreNumbers DEF Numbers
<1>4. WrittenIsCovered'
  <2>1. \A n \in completed' : \E m \in Listed' : n <= m
    <3> SUFFICES ASSUME NEW n \in completed' PROVE \E m \in Listed' : n <= m
      OBVIOUS
    <3>1. n \in Numbers
      BY <1>1 DEF StoreTypeOK
    <3>2. CASE n \in completed
      BY <1>2, <3>1, <3>2 DEF WrittenIsCovered
    <3>3. CASE n \notin completed
      <4>1. PICK w \in Writers : WriteAll(w) /\ n = writer[w].number
        BY <3>3 DEF StoreNext, storeVars, Checkpoint, OpenFile, WriteAll, WriteFails,
                    ListOld, RemoveOld, ReadDir, NextEntry, Find, Parse, Newest
      <4>2. \E m \in Listed : n <= m
        BY <4>1 DEF WriteAll, WrittenIsCovered
      <4> QED BY <1>2, <3>1, <4>2
    <3> QED BY <3>2, <3>3
  <2>2. \A w \in Writers :
           writer'[w].pc = "writing" => \E m \in Listed' : writer'[w].number <= m
    <3> SUFFICES ASSUME NEW w \in Writers, writer'[w].pc = "writing"
                 PROVE  \E m \in Listed' : writer'[w].number <= m
      OBVIOUS
    <3>1. writer[w].number \in Numbers
      BY <1>1 DEF StoreTypeOK
    <3>2. CASE writer[w].pc = "writing" /\ writer'[w] = writer[w]
      BY <1>2, <3>1, <3>2 DEF WrittenIsCovered
    <3>3. CASE ~ (writer[w].pc = "writing" /\ writer'[w] = writer[w])
      <4>1. OpenFile(w)
        <5>1. ASSUME NEW v \in Writers, Checkpoint(v)
              PROVE  writer'[w].pc = "numbered" \/ writer'[w] = writer[w]
          BY <1>1, <5>1 DEF Checkpoint, StoreTypeOK
        <5>2. ASSUME NEW v \in Writers, WriteAll(v) \/ WriteFails(v)
              PROVE  writer'[w].pc = "idle" \/ writer'[w] = writer[w]
          BY <1>1, <5>2 DEF WriteAll, WriteFails, StoreTypeOK, Idle
        <5>3. ASSUME NEW v \in Writers, OpenFile(v), v # w
              PROVE  writer'[w] = writer[w]
          BY <1>1, <5>3 DEF OpenFile, StoreTypeOK
        <5>4. \/ writer' = writer
              \/ \E v \in Writers : Checkpoint(v) \/ WriteAll(v) \/ WriteFails(v)
                                    \/ OpenFile(v)
          BY DEF StoreNext, storeVars, ListOld, RemoveOld, ReadDir, NextEntry,
                 Find, Parse
        <5> QED BY <3>3, <5>1, <5>2, <5>3, <5>4
      <4>2. writer'[w].number = writer[w].number /\ writer[w].number \in Listed'
        BY <1>1, <3>1, <4>1 DEF OpenFile, StoreTypeOK, Listed
      <4>3. PICK k \in Listed' : writer'[w].number = k /\ k \in Numbers
        BY <3>1, <4>2
      <4>4. k <= k
        BY <1>3, <4>3
      <4> QED BY <4>3, <4>4
    <3> QED BY <3>2, <3>3
  <2> QED BY <2>1, <2>2 DEF WrittenIsCovered
<1>5. NumbersAreFresh' /\ ReaderIsUpToDate'
  BY <1>1, NumbersStayFresh, ReaderStays
<1> QED BY <1>0, <1>4, <1>5

(* SnapshotContext: the directory and the calls in progress are well typed. *)
THEOREM StoreTypes == StoreSpec => []StoreTypeOK
<1>1. StoreInit => StoreTypeOK
  BY StoreInitTypes DEF EvictInv
<1>2. StoreTypeOK /\ [StoreNext]_storeVars => StoreTypeOK'
  BY StoreTypesKeep
<1> QED BY <1>1, <1>2, PTL DEF StoreSpec

(* evict_old(), as long as the numbers in the file names have one width:   *)
(* evictions side by side remove no file that is among the newest.         *)
THEOREM EvictionSparesTheNewest ==
    ASSUME MaxNumber < Wrap
    PROVE  StoreSpec => EvictsOnlyOld
<1>1. StoreInit => EvictInv
  BY StoreInitTypes
<1>2. EvictInv /\ [StoreNext]_storeVars => EvictInv'
  BY EvictKeeps
<1>3. ASSUME EvictInv, [StoreNext]_storeVars
      PROVE  [\A n \in Listed \ Listed' :
                 Cardinality({m \in Listed' : m > n}) >= MaxSnapshots]_storeVars
  <2> SUFFICES ASSUME NEW n \in Listed \ Listed'
               PROVE  Cardinality(Newer(n)') >= MaxSnapshots
    BY DEF Newer
  <2>1. n \in Numbers
    BY DEF Listed
  <2>2. PICK e \in Evictors : n \in evictor[e]
    BY <1>3, OneFileGoes DEF EvictInv
  <2> QED BY <1>3, <2>1, <2>2, NewerStay DEF EvictInv, EvictedHaveNewer
<1> QED BY <1>1, <1>2, <1>3, PTL DEF StoreSpec, EvictsOnlyOld

(* latest_snapshot(), as long as the numbers in the file names have one    *)
(* width and evict_old() is to keep a file at all: nothing newer had been  *)
(* completed when it was called, unless an error cut the list of files     *)
(* short or a file as new was evicted before the list came to it.          *)
THEOREM LatestSnapshotIsNewest ==
    ASSUME MaxNumber < Wrap, MaxSnapshots # 0
    PROVE  StoreSpec => []LatestIsNewest
<1>1. StoreInit => StoreInv
  BY StoreInitHolds
<1>2. StoreInv /\ [StoreNext]_storeVars => StoreInv'
  BY StoreKeeps
<1>3. StoreInv => LatestIsNewest
  BY DEF StoreInv, ReaderIsUpToDate, LatestIsNewest
<1> QED BY <1>1, <1>2, <1>3, PTL DEF StoreSpec

-----------------------------------------------------------------------------
(* SnapshotFile: an undamaged body is laid out in segments, each with what *)
(* the snapshot has under its tag, or with an unknown tag; the reader      *)
(* stands at the first unit of one, or at the end.                         *)
Segment == [pos : Nat \ {0}, tag : Nat, payload : Seq(Nat)]

EndOf(s) == s.pos + 2 + Len(s.payload)

Holds(units, s) ==
    /\ EndOf(s) <= Len(units) + 1
    /\ units[s.pos] = s.tag /\ units[s.pos + 1] = Len(s.payload)
    /\ \A k \in 1 .. Len(s.payload) : units[s.pos + 1 + k] = s.payload[k]

StartOf(segs, units, r) ==
    IF r \in DOMAIN segs THEN segs[r].pos ELSE Len(units) + 1

Lays(segs, units) ==
    /\ StartOf(segs, units, 1) = 1
    /\ \A i \in DOMAIN segs : /\ Holds(units, segs[i])
                              /\ EndOf(segs[i]) = StartOf(segs, units, i + 1)

(* Nothing is missing of what the writer has come to.                      *)
WrittenUpTo == IF stage = "writing" THEN cursor ELSE Len(Layout) + 1

Truthful(segs) ==
    /\ \A i \in DOMAIN segs : segs[i].tag # Unknown =>
           segs[i].tag \in Known /\ strata[segs[i].tag] = <<segs[i].payload>>
    /\ \A j \in DOMAIN Layout : j < WrittenUpTo /\ strata[Layout[j]] # Absent =>
           \E i \in DOMAIN segs : segs[i].tag = Layout[j]

ReadTo(segs, r) ==
    /\ cursor = StartOf(segs, document.body, r)
    /\ snap \in [Known -> Fields]
    /\ \A t \in Known :
           snap[t] = IF \E i \in DOMAIN segs : i < r /\ segs[i].tag = t
                     THEN strata[t] ELSE Absent

WellWritten ==
    \E segs \in Seq(Segment) :
        /\ Lays(segs, document.body) /\ Truthful(segs)
        /\ stage = "reading" => \E r \in 1 .. Len(segs) + 1 : ReadTo(segs, r)

FileInv ==
    /\ FileTypeOK
    /\ stage # "filling" => document.version >= FormatVersion
    /\ stage # "filling" /\ document.intact => WellWritten
    /\ stage = "reading" => ~ Refused
    /\ stage = "writing" => document.intact
    /\ ReadsWhatWasWritten

LEMMA LayoutOfKnown ==
    /\ Layout \in Seq(Nat) /\ Len(Layout) \in Nat
    /\ \A j \in DOMAIN Layout : Layout[j] \in Known
    /\ \A t \in Known : \E j \in DOMAIN Layout : Layout[j] = t
    /\ Known \subseteq Nat /\ Unknown \notin Known
  <1>1. Tags \in Seq(Nat) /\ Unknown \notin Known
    BY TagsDiffer DEF Known, Header
  <1>2. ToSet(Tags) = {Tags[i] : i \in 1 .. Len(Tags)} /\ Len(Tags) \in Nat
        /\ \A i \in 1 .. Len(Tags) : Tags[i] \in Nat
    BY <1>1 DEF ToSet
  <1>3. /\ Layout \in Seq(Nat) /\ Len(Layout) = Len(Tags) + 1
        /\ DOMAIN Layout = 1 .. Len(Tags) + 1
        /\ Layout[1] = 0 /\ \A i \in 1 .. Len(Tags) : Layout[i + 1] = Tags[i]
    BY <1>1 DEF Layout, Header
  <1>4. ASSUME NEW j \in 1 .. Len(Tags) + 1
        PROVE  Layout[j] = 0 \/ \E i \in 1 .. Len(Tags) : Layout[j] = Tags[i]
    <2>1. CASE j = 1
      BY <1>3, <2>1
    <2>2. CASE j # 1
      <3>1. j - 1 \in 1 .. Len(Tags) /\ j = (j - 1) + 1
        BY <1>2, <2>2
      <3> QED BY <1>3, <3>1
    <2> QED BY <2>1, <2>2
  <1>5. \A j \in DOMAIN Layout : Layout[j] \in Known
    BY <1>2, <1>3, <1>4 DEF Known, Header
  <1>6. ASSUME NEW t \in Known
        PROVE  \E j \in DOMAIN Layout : Layout[j] = t
    <2>1. CASE t = 0
      <3>1. 1 \in DOMAIN Layout
        BY <1>2, <1>3
      <3> QED BY <1>3, <2>1, <3>1
    <2>2. CASE t # 0
      <3>1. PICK i \in 1 .. Len(Tags) : t = Tags[i]
        BY <1>2, <2>2 DEF Known, Header
      <3>2. i + 1 \in DOMAIN Layout
        BY <1>2, <1>3
      <3> QED BY <1>3, <3>1, <3>2
    <2> QED BY <2>1, <2>2
  <1>7. Known \subseteq Nat
    BY <1>2 DEF Known, Header
  <1> QED BY <1>1, <1>2, <1>3, <1>5, <1>6, <1>7

(* A stratum is a segment of the body it is added to; those before it stay *)
(* where they are.                                                         *)
LEMMA UnitsOfStratum ==
  ASSUME NEW t \in Nat, NEW p \in Seq(Nat)
  PROVE  /\ Stratum(t, p) \in Seq(Nat)
         /\ Len(Stratum(t, p)) = Len(p) + 2
         /\ Stratum(t, p)[1] = t /\ Stratum(t, p)[2] = Len(p)
         /\ \A k \in 1 .. Len(p) : Stratum(t, p)[k + 2] = p[k]
  <1>1. Len(p) \in Nat
    OBVIOUS
  <1> DEFINE head == <<t, Len(p)>>
  <1>2. Stratum(t, p) = head \o p
    BY DEF Stratum
  <1>3. /\ head \in Seq(Nat) /\ Len(head) = 2 /\ head[1] = t /\ head[2] = Len(p)
    BY <1>1
  <1> HIDE DEF head
  <1>8. head \in Seq(Nat)
    BY <1>3
  <1>4. head \o p \in Seq(Nat) /\ Len(head \o p) = Len(head) + Len(p)
    BY <1>8, JoinedSequences
  <1>6. \A k \in 1 .. Len(head) : (head \o p)[k] = head[k]
    BY <1>8, JoinedSequences
  <1>7. \A k \in 1 .. Len(p) : (head \o p)[Len(head) + k] = p[k]
    BY <1>8, JoinedSequences
  <1>5. 1 \in 1 .. 2 /\ 2 \in 1 .. 2 /\ \A k \in 1 .. Len(p) : 2 + k = k + 2
    BY <1>1
  <1> QED BY <1>1, <1>2, <1>3, <1>4, <1>5, <1>6, <1>7

LEMMA StratumIsSegment ==
  ASSUME NEW units \in Seq(Nat), NEW segs \in Seq(Segment), Lays(segs, units),
         NEW t \in Nat, NEW p \in Seq(Nat)
  PROVE  \E more \in Seq(Segment) :
           /\ more = Append(segs, [pos |-> Len(units) + 1, tag |-> t, payload |-> p])
           /\ Lays(more, units \o Stratum(t, p))
  <1> DEFINE s    == [pos |-> Len(units) + 1, tag |-> t, payload |-> p]
             more == Append(segs, s)
             all  == units \o Stratum(t, p)
             n    == Len(segs)
  <1>1. Len(units) \in Nat /\ Len(p) \in Nat /\ n \in Nat
        /\ DOMAIN segs = 1 .. n
    OBVIOUS
  <1>2. /\ all \in Seq(Nat) /\ Len(all) = Len(units) + Len(p) + 2
        /\ \A k \in 1 .. Len(units) : all[k] = units[k]
        /\ \A k \in 1 .. Len(p) + 2 : all[Len(units) + k] = Stratum(t, p)[k]
    <2> DEFINE u == Stratum(t, p)
    <2>1. u \in Seq(Nat) /\ Len(u) = Len(p) + 2
      BY UnitsOfStratum
    <2> HIDE DEF u
    <2>2. units \o u \in Seq(Nat) /\ Len(units \o u) = Len(units) + Len(u)
      BY <2>1, JoinedSequences
    <2>3. \A k \in 1 .. Len(units) : (units \o u)[k] = units[k]
      BY <2>1, JoinedSequences
    <2>4. \A k \in 1 .. Len(u) : (units \o u)[Len(units) + k] = u[k]
      BY <2>1, JoinedSequences
    <2> QED BY <1>1, <2>1, <2>2, <2>3, <2>4 DEF u
  <1>3. s \in Segment /\ s.pos = Len(units) + 1 /\ s.tag = t /\ s.payload = p
    BY <1>1 DEF Segment
  <1> HIDE DEF s
  <1>4. /\ more \in Seq(Segment) /\ Len(more) = n + 1
        /\ DOMAIN more = 1 .. n + 1
        /\ \A i \in 1 .. n : more[i] = segs[i]
        /\ more[n + 1] = s
    BY <1>3
  <1> HIDE DEF all, more
  <1>5. Holds(all, s)
    <2>1. EndOf(s) = Len(all) + 1
      BY <1>1, <1>2, <1>3 DEF EndOf
    <2>2. all[s.pos] = t /\ all[s.pos + 1] = Len(p)
      <3>1. 1 \in 1 .. Len(p) + 2 /\ 2 \in 1 .. Len(p) + 2
            /\ (Len(units) + 1) + 1 = Len(units) + 2
        BY <1>1
      <3>2. all[Len(units) + 1] = t /\ all[Len(units) + 2] = Len(p)
        BY <1>2, <3>1, UnitsOfStratum
      <3> QED BY <1>3, <3>1, <3>2
    <2>3. \A k \in 1 .. Len(p) : all[s.pos + 1 + k] = p[k]
      <3> SUFFICES ASSUME NEW k \in 1 .. Len(p)
                   PROVE  all[s.pos + 1 + k] = p[k]
        OBVIOUS
      <3>1. k + 2 \in 1 .. Len(p) + 2
            /\ (Len(units) + 1) + 1 + k = Len(units) + (k + 2)
        BY <1>1
      <3>2. all[Len(units) + (k + 2)] = Stratum(t, p)[k + 2]
        BY <1>2, <3>1
      <3> QED BY <1>3, <3>1, <3>2, UnitsOfStratum
    <2>4. Len(all) + 1 <= Len(all) + 1
      BY <1>1, <1>2
    <2> QED BY <1>3, <2>1, <2>2, <2>3, <2>4 DEF Holds
  <1>6. ASSUME NEW i \in 1 .. n
        PROVE  Holds(all, segs[i])
    <2>1. segs[i] \in Segment /\ Holds(units, segs[i])
      BY <1>1 DEF Lays
    <2> DEFINE q == segs[i].pos
               m == Len(segs[i].payload)
    <2>2. q \in Nat \ {0} /\ m \in Nat /\ q + 2 + m <= Len(units) + 1
          /\ units[q] = segs[i].tag /\ units[q + 1] = m
          /\ \A k \in 1 .. m : units[q + 1 + k] = segs[i].payload[k]
      <3>1. q \in Nat \ {0} /\ segs[i].payload \in Seq(Nat)
        BY SMTT(30), <2>1 DEF Segment
      <3>2. q + 2 + m <= Len(units) + 1
        BY <2>1 DEF Holds, EndOf
      <3>3. units[q] = segs[i].tag /\ units[q + 1] = m
            /\ \A k \in 1 .. m : units[q + 1 + k] = segs[i].payload[k]
        BY <2>1 DEF Holds
      <3>4. m \in Nat
        BY <3>1
      <3> HIDE DEF q, m
      <3> QED BY <3>1, <3>2, <3>3, <3>4
    <2>3. q \in 1 .. Len(units) /\ q + 1 \in 1 .. Len(units)
          /\ \A k \in 1 .. m : q + 1 + k \in 1 .. Len(units)
      <3>1. q \in Nat \ {0} /\ m \in Nat /\ q + 2 + m <= Len(units) + 1
        BY <2>2
      <3> HIDE DEF q, m
      <3> QED BY <1>1, <3>1
    <2>4. q + 2 + m <= Len(all) + 1
      <3> HIDE DEF q, m
      <3> QED BY <1>1, <1>2, <2>2
    <2>5. all[q] = segs[i].tag /\ all[q + 1] = m
          /\ \A k \in 1 .. m : all[q + 1 + k] = segs[i].payload[k]
      <3> HIDE DEF q, m
      <3> QED BY <1>2, <2>2, <2>3
    <2> QED BY <2>4, <2>5 DEF Holds, EndOf
  <1>7. ASSUME NEW i \in 1 .. n + 1
        PROVE  StartOf(more, all, i) = StartOf(segs, units, i)
    <2>1. CASE i = n + 1
      <3>1. i \notin DOMAIN segs /\ i \in DOMAIN more
        BY <1>1, <1>4, <2>1
      <3> QED BY <1>3, <1>4, <2>1, <3>1 DEF StartOf
    <2>2. CASE i # n + 1
      <3>1. i \in DOMAIN segs /\ i \in DOMAIN more /\ i \in 1 .. n
        BY <1>1, <1>4, <2>2
      <3> QED BY <1>4, <3>1 DEF StartOf
    <2> QED BY <2>1, <2>2
  <1>8. StartOf(more, all, 1) = 1
    <2>1. 1 \in 1 .. n + 1
      BY <1>1
    <2> QED BY <1>7, <2>1 DEF Lays
  <1>9. ASSUME NEW i \in DOMAIN more
        PROVE  /\ Holds(all, more[i])
               /\ EndOf(more[i]) = StartOf(more, all, i + 1)
    <2>1. CASE i = n + 1
      <3>1. i + 1 \notin DOMAIN more
        BY <1>1, <1>4, <2>1
      <3>2. EndOf(s) = Len(all) + 1
        BY <1>1, <1>2, <1>3 DEF EndOf
      <3> QED BY <1>4, <1>5, <2>1, <3>1, <3>2 DEF StartOf
    <2>2. CASE i # n + 1
      <3>1. i \in 1 .. n /\ i + 1 \in 1 .. n + 1 /\ i \in DOMAIN segs
        BY <1>1, <1>4, <2>2
      <3>2. EndOf(segs[i]) = StartOf(segs, units, i + 1)
        BY <3>1 DEF Lays
      <3> QED BY <1>4, <1>6, <1>7, <3>1, <3>2
    <2> QED BY <2>1, <2>2
  <1>10. Lays(more, all)
    BY <1>8, <1>9 DEF Lays
  <1> QED BY <1>4, <1>10 DEF all, more, s

(* A step of the writer.                                                   *)
LEMMA WriteStratumKeeps ==
  ASSUME FileInv, WriteStratum
  PROVE  FileInv'
  <1> DEFINE t == Layout[cursor]
             units == IF strata[t] = Absent THEN <<>>
                      ELSE Stratum(t, strata[t][1])
  <1>1. /\ stage = "writing" /\ cursor \in DOMAIN Layout
        /\ document' = [document EXCEPT !.body = @ \o units]
        /\ cursor' = cursor + 1
        /\ strata' = strata /\ stage' = stage /\ snap' = snap
    BY DEF WriteStratum, AddToBody
  <1>2. FileTypeOK /\ document.intact /\ document.version >= FormatVersion
    BY <1>1 DEF FileInv
  <1>3. PICK segs \in Seq(Segment) : Lays(segs, document.body) /\ Truthful(segs)
    BY <1>1, <1>2 DEF FileInv, WellWritten
  <1>4. /\ t \in Known /\ t \in Nat /\ t # Unknown
        /\ Len(Layout) \in Nat /\ DOMAIN Layout = 1 .. Len(Layout)
    BY <1>1, LayoutOfKnown
  <1>5. document.body \in Seq(Nat) /\ cursor \in Nat \ {0}
    BY <1>2 DEF FileTypeOK
  <1>6. CASE strata[t] = Absent
    <2>1. document' = document
      <3>1. document.body \o <<>> = document.body
        BY <1>5
      <3> QED BY <1>1, <1>2, <1>6, <3>1 DEF FileTypeOK
    <2>2. FileTypeOK'
      <3>1. cursor' \in Nat \ {0}
        BY <1>1, <1>5
      <3>2. /\ strata' = strata /\ stage' = stage /\ snap' = snap
            /\ document' = document
        BY <1>1, <2>1
      <3> QED BY <1>2, <3>1, <3>2 DEF FileTypeOK
    <2>3. Truthful(segs)'
      <3>1. \A j \in DOMAIN Layout : j < cursor + 1 => j < cursor \/ j = cursor
        BY <1>1, <1>4
      <3> QED BY <1>1, <1>3, <1>6, <3>1 DEF Truthful, WrittenUpTo
    <2>4. WellWritten'
      BY <1>1, <1>3, <2>1, <2>3 DEF WellWritten
    <2> QED BY <1>1, <1>2, <2>1, <2>2, <2>4 DEF FileInv, ReadsWhatWasWritten
  <1>7. CASE strata[t] # Absent
    <2> DEFINE p    == strata[t][1]
               s    == [pos |-> Len(document.body) + 1, tag |-> t, payload |-> p]
    <2>1. p \in Seq(Nat) /\ strata[t] = <<p>>
      BY <1>2, <1>4, <1>7 DEF FileTypeOK, Fields
    <2> HIDE DEF p
    <2>2. document'.body = document.body \o Stratum(t, p)
          /\ document'.version = document.version
          /\ document'.intact = document.intact
          /\ document' \in [version : Nat, body : Seq(Nat), intact : BOOLEAN]
      <3>1. document.body \o Stratum(t, p) \in Seq(Nat)
        <4>1. Stratum(t, p) \in Seq(Nat)
          BY <1>4, <2>1, UnitsOfStratum
        <4> QED BY <1>5, <4>1, JoinedSequences
      <3>2. document' = [document EXCEPT !.body = document.body \o Stratum(t, p)]
        BY <1>1, <1>7 DEF p
      <3> QED BY <1>2, <3>1, <3>2 DEF FileTypeOK
    <2>3. FileTypeOK'
      BY <1>1, <1>2, <1>5, <2>2 DEF FileTypeOK
    <2>4. PICK more \in Seq(Segment) :
              more = Append(segs, s) /\ Lays(more, document'.body)
      <3> HIDE DEF t
      <3>1. \E more \in Seq(Segment) :
               more = Append(segs, s) /\ Lays(more, document.body \o Stratum(t, p))
        BY <1>3, <1>4, <1>5, <2>1, StratumIsSegment
      <3> QED BY <2>2, <3>1
    <2>5. /\ DOMAIN more = DOMAIN segs \union {Len(segs) + 1}
          /\ \A i \in DOMAIN segs : more[i] = segs[i]
          /\ more[Len(segs) + 1].tag = t /\ more[Len(segs) + 1].payload = p
      BY <2>4
    <2>6. Truthful(more)'
      <3>1. \A j \in DOMAIN Layout : j < cursor + 1 => j < cursor \/ j = cursor
        BY <1>1, <1>4
      <3>2. \A i \in DOMAIN more : more[i].tag # Unknown =>
               more[i].tag \in Known /\ strata[more[i].tag] = <<more[i].payload>>
        BY <1>3, <1>4, <2>1, <2>5 DEF Truthful
      <3>3. \A j \in DOMAIN Layout : j < cursor + 1 /\ strata[Layout[j]] # Absent =>
               \E i \in DOMAIN more : more[i].tag = Layout[j]
        BY <1>1, <1>3, <2>5, <3>1 DEF Truthful, WrittenUpTo
      <3> QED BY <1>1, <3>2, <3>3 DEF Truthful, WrittenUpTo
    <2>7. WellWritten'
      BY <1>1, <2>4, <2>6 DEF WellWritten
    <2> QED BY <1>1, <1>2, <2>2, <2>3, <2>7 DEF FileInv, ReadsWhatWasWritten
  <1> QED BY <1>6, <1>7

LEMMA WriteUnknownKeeps ==
  ASSUME FileInv, NEW p \in Payloads, WriteUnknown(p)
  PROVE  FileInv'
  <1> DEFINE t == Unknown
             s    == [pos |-> Len(document.body) + 1, tag |-> t, payload |-> p]
  <1>1. /\ stage = "writing" /\ cursor > Len(Layout)
        /\ document' = [document EXCEPT !.body = @ \o Stratum(t, p)]
        /\ cursor' = cursor + 1
        /\ strata' = strata /\ stage' = stage /\ snap' = snap
    <2>1. Len(Layout) \in Nat
      BY LayoutOfKnown
    <2> QED BY <2>1 DEF WriteUnknown, AddToBody
  <1>2. FileTypeOK /\ document.intact /\ document.version >= FormatVersion
    BY <1>1 DEF FileInv
  <1>3. PICK segs \in Seq(Segment) : Lays(segs, document.body) /\ Truthful(segs)
    BY <1>1, <1>2 DEF FileInv, WellWritten
  <1>4. /\ t \in Nat /\ Len(Layout) \in Nat /\ DOMAIN Layout = 1 .. Len(Layout)
        /\ p \in Seq(Nat)
    BY TagsDiffer, PayloadsAreUnits, LayoutOfKnown
  <1>5. document.body \in Seq(Nat) /\ cursor \in Nat \ {0}
    BY <1>2 DEF FileTypeOK
  <1>6. document'.body = document.body \o Stratum(t, p)
        /\ document'.version = document.version
        /\ document'.intact = document.intact
        /\ document' \in [version : Nat, body : Seq(Nat), intact : BOOLEAN]
    <2>1. document.body \o Stratum(t, p) \in Seq(Nat)
      <3>1. Stratum(t, p) \in Seq(Nat)
        BY <1>4, UnitsOfStratum
      <3> QED BY <1>5, <3>1, JoinedSequences
    <2> QED BY <1>1, <1>2, <2>1 DEF FileTypeOK
  <1>7. FileTypeOK'
    BY <1>1, <1>2, <1>5, <1>6 DEF FileTypeOK
  <1>8. PICK more \in Seq(Segment) :
            more = Append(segs, s) /\ Lays(more, document'.body)
    BY <1>3, <1>4, <1>5, <1>6, StratumIsSegment
  <1>9. /\ DOMAIN more = DOMAIN segs \union {Len(segs) + 1}
        /\ \A i \in DOMAIN segs : more[i] = segs[i]
        /\ more[Len(segs) + 1].tag = Unknown
    BY <1>8
  <1>10. Truthful(more)'
    <2>1. \A j \in DOMAIN Layout : j < cursor
      BY <1>1, <1>4, <1>5
    <2>2. \A i \in DOMAIN more : more[i].tag # Unknown =>
             more[i].tag \in Known /\ strata[more[i].tag] = <<more[i].payload>>
      BY <1>3, <1>9 DEF Truthful
    <2>3. \A j \in DOMAIN Layout : strata[Layout[j]] # Absent =>
             \E i \in DOMAIN more : more[i].tag = Layout[j]
      BY <1>1, <1>3, <1>9, <2>1 DEF Truthful, WrittenUpTo
    <2> QED BY <1>1, <2>2, <2>3 DEF Truthful
  <1>11. WellWritten'
    BY <1>1, <1>8, <1>10 DEF WellWritten
  <1> QED BY <1>1, <1>2, <1>6, <1>7, <1>11 DEF FileInv, ReadsWhatWasWritten

(* What has no part in reading keeps what the body holds.                  *)
LEMMA FileBegins == FileInit => FileInv
  <1> SUFFICES ASSUME FileInit PROVE FileInv
    OBVIOUS
  <1>1. PICK p \in Payloads : strata = [Empty EXCEPT ![Header] = <<p>>]
    BY DEF FileInit
  <1>2. p \in Seq(Nat) /\ Header \in Known
    BY PayloadsAreUnits DEF Known
  <1>3. strata \in [Known -> Fields]
    BY <1>1, <1>2 DEF Empty, Fields
  <1>4. <<>> \in Seq(Nat)
    OBVIOUS
  <1> QED BY <1>3, <1>4 DEF FileInit, FileInv, FileTypeOK, ReadsWhatWasWritten

LEMMA FillingKeeps ==
  ASSUME FileInv,
         \/ \E t \in ToSet(Tags), p \in Payloads : With(t, p)
         \/ \E v \in {FormatVersion, FormatVersion + 1} : Serialize(v)
  PROVE  FileInv'
  <1>1. FileTypeOK
    BY DEF FileInv
  <1>2. ASSUME NEW t \in ToSet(Tags), NEW p \in Payloads, With(t, p)
        PROVE  FileInv'
    <2>1. /\ stage = "filling" /\ strata' = [strata EXCEPT ![t] = <<p>>]
          /\ UNCHANGED <<stage, document, cursor, snap>>
      BY <1>2 DEF With
    <2>2. p \in Seq(Nat)
      BY PayloadsAreUnits
    <2>3. strata' \in [Known -> Fields]
      BY <1>1, <2>1, <2>2 DEF FileTypeOK, Fields
    <2> QED BY <1>1, <2>1, <2>3 DEF FileInv, FileTypeOK, ReadsWhatWasWritten
  <1>3. ASSUME NEW v \in {FormatVersion, FormatVersion + 1}, Serialize(v)
        PROVE  FileInv'
    <2>1. /\ stage' = "writing" /\ cursor' = 1
          /\ document' = [version |-> v, body |-> <<>>, intact |-> TRUE]
          /\ UNCHANGED <<strata, snap>>
      BY <1>3 DEF Serialize
    <2>2. /\ v \in Nat /\ v >= FormatVersion /\ <<>> \in Seq(Nat)
          /\ <<>> \in Seq(Segment)
      BY DEF FormatVersion
    <2>3. FileTypeOK'
      BY <1>1, <2>1, <2>2 DEF FileTypeOK
    <2>4. Lays(<<>>, <<>>)
      <3>1. DOMAIN <<>> = {} /\ Len(<<>>) + 1 = 1
        OBVIOUS
      <3> QED BY <3>1 DEF Lays, StartOf
    <2>5. Truthful(<<>>)'
      <3>1. \A j \in DOMAIN Layout : ~ (j < 1)
        <4>1. Layout \in Seq(Nat)
          BY LayoutOfKnown
        <4> QED BY <4>1
      <3>2. DOMAIN <<>> = {}
        OBVIOUS
      <3> QED BY <2>1, <3>1, <3>2 DEF Truthful, WrittenUpTo
    <2>6. WellWritten'
      BY <2>1, <2>2, <2>4, <2>5 DEF WellWritten
    <2> QED BY <2>1, <2>2, <2>3, <2>6 DEF FileInv, ReadsWhatWasWritten
  <1> QED BY <1>2, <1>3

LEMMA HandOverKeeps ==
  ASSUME FileInv,
         \/ WriteToFile \/ TakeSnapshot \/ \E n \in 0 .. 2 : Damage(n)
         \/ UNCHANGED fileVars
  PROVE  FileInv'
  <1>1. FileTypeOK
    BY DEF FileInv
  <1>2. CASE WriteToFile
    <2>1. /\ stage = "writing" /\ cursor > Len(Layout) /\ stage' = "written"
          /\ UNCHANGED <<strata, document, cursor, snap>>
      BY <1>2 DEF WriteToFile
    <2>2. PICK segs \in Seq(Segment) : Lays(segs, document.body) /\ Truthful(segs)
      BY <2>1 DEF FileInv, WellWritten
    <2>3. \A j \in DOMAIN Layout : j < cursor
      <3>1. DOMAIN Layout = 1 .. Len(Layout) /\ Len(Layout) \in Nat
        BY LayoutOfKnown
      <3>2. cursor \in Nat
        BY <1>1 DEF FileTypeOK
      <3> QED BY <2>1, <3>1, <3>2
    <2>4. Truthful(segs)'
      BY <2>1, <2>2, <2>3 DEF Truthful, WrittenUpTo
    <2>5. WellWritten'
      BY <2>1, <2>2, <2>4 DEF WellWritten
    <2> QED BY <1>1, <2>1, <2>5 DEF FileInv, FileTypeOK, ReadsWhatWasWritten
  <1>3. CASE TakeSnapshot
    <2>1. /\ stage = "read" /\ stage' = "written"
          /\ UNCHANGED <<strata, document, cursor, snap>>
      BY <1>3 DEF TakeSnapshot
    <2>2. WellWritten => WellWritten'
      BY <2>1 DEF WellWritten, Truthful, WrittenUpTo
    <2> QED BY <1>1, <2>1, <2>2 DEF FileInv, FileTypeOK, ReadsWhatWasWritten
  <1>5. ASSUME NEW n \in 0 .. 2, Damage(n)
        PROVE  FileInv'
    <2> DEFINE rest == SubSeq(document.body, 1, n)
    <2>1. /\ stage = "written" /\ n <= Len(document.body)
          /\ document' = [document EXCEPT !.body = rest, !.intact = FALSE]
          /\ UNCHANGED <<strata, stage, cursor, snap>>
      BY <1>5 DEF Damage
    <2>2. rest \in Seq(Nat)
      <3>1. document.body \in Seq(Nat)
        BY <1>1 DEF FileTypeOK
      <3> QED BY <2>1, <3>1
    <2> HIDE DEF rest
    <2>3. /\ document' \in [version : Nat, body : Seq(Nat), intact : BOOLEAN]
          /\ document'.version = document.version /\ ~ document'.intact
      BY <1>1, <2>1, <2>2 DEF FileTypeOK
    <2> QED BY <1>1, <2>1, <2>3 DEF FileInv, FileTypeOK, ReadsWhatWasWritten
  <1>6. CASE UNCHANGED fileVars
    <2>1. UNCHANGED <<strata, stage, document, cursor, snap>>
      BY <1>6 DEF fileVars
    <2>2. WellWritten => WellWritten'
      BY <2>1 DEF WellWritten, Truthful, WrittenUpTo, ReadTo
    <2> QED BY <1>1, <2>1, <2>2 DEF FileInv, FileTypeOK, ReadsWhatWasWritten, Refused
  <1> QED BY <1>2, <1>3, <1>5, <1>6

(* The reader begins at the first segment ...                              *)
LEMMA ReadHeaderKeeps ==
  ASSUME FileInv, ReadHeader
  PROVE  FileInv'
  <1>1. FileTypeOK /\ stage = "written" /\ document.version >= FormatVersion
        /\ UNCHANGED <<strata, document>> /\ cursor' = 1
    BY DEF FileInv, ReadHeader
  <1>2. document.version \in Nat
    BY <1>1 DEF FileTypeOK
  <1>3. CASE Refused
    <2>1. stage' = "read" /\ snap' = Error
      BY <1>3 DEF ReadHeader
    <2>2. ReadsWhatWasWritten'
      BY <1>1, <1>2, <1>3, <2>1 DEF ReadsWhatWasWritten, Refused, FormatVersion
    <2>3. document.intact => WellWritten'
      <3> SUFFICES ASSUME document.intact PROVE WellWritten'
        OBVIOUS
      <3>1. WellWritten
        BY <1>1 DEF FileInv
      <3> QED BY <1>1, <2>1, <3>1 DEF WellWritten, Truthful, WrittenUpTo
    <2>4. FileTypeOK'
      BY <1>1, <2>1 DEF FileTypeOK
    <2> QED BY <1>1, <2>1, <2>2, <2>3, <2>4 DEF FileInv
  <1>4. CASE ~ Refused
    <2>1. stage' = "reading" /\ snap' = Empty
      BY <1>4 DEF ReadHeader
    <2>2. document.intact
      BY <1>4 DEF Refused
    <2>3. PICK segs \in Seq(Segment) : Lays(segs, document.body) /\ Truthful(segs)
      BY <1>1, <2>2 DEF FileInv, WellWritten
    <2>4. Empty \in [Known -> Fields] /\ \A t \in Known : Empty[t] = Absent
      BY DEF Empty, Fields
    <2>5. ReadTo(segs, 1)'
      <3>1. \A i \in DOMAIN segs : ~ (i < 1)
        OBVIOUS
      <3>2. StartOf(segs, document.body, 1) = 1
        BY <2>3 DEF Lays
      <3> QED BY <1>1, <2>1, <2>4, <3>1, <3>2 DEF ReadTo
    <2>6. 1 \in 1 .. Len(segs) + 1
      OBVIOUS
    <2>7. Truthful(segs)'
      BY <1>1, <2>1, <2>3 DEF Truthful, WrittenUpTo
    <2>8. WellWritten'
      BY <1>1, <2>1, <2>3, <2>5, <2>6, <2>7 DEF WellWritten
    <2>9. FileTypeOK'
      BY <1>1, <2>1, <2>4 DEF FileTypeOK
    <2> QED BY <1>1, <1>4, <2>1, <2>2, <2>8, <2>9
            DEF FileInv, ReadsWhatWasWritten, Refused
  <1> QED BY <1>3, <1>4

(* The units of a payload, cut out of the body.                            *)
LEMMA PayloadIsCutOut ==
  ASSUME NEW units \in Seq(Nat), NEW p \in Seq(Nat), NEW c \in Nat \ {0},
         c + 2 + Len(p) <= Len(units) + 1,
         \A k \in 1 .. Len(p) : units[c + 1 + k] = p[k]
  PROVE  SubSeq(units, c + 2, c + 1 + Len(p)) = p
  <1> DEFINE cut == SubSeq(units, c + 2, c + 1 + Len(p))
             m   == Len(p)
  <1>1. m \in Nat /\ Len(units) \in Nat
    OBVIOUS
  <1>2. cut \in Seq(Nat) /\ Len(cut) = m
    <2> DEFINE i == c + 2
               j == c + 1 + m
    <2>1. /\ i \in 1 .. Len(units) + 1 /\ j \in i - 1 .. Len(units)
          /\ IF i <= j THEN j - i + 1 = m ELSE m = 0
      BY <1>1
    <2> HIDE DEF i, j, m
    <2>2. i \in Int /\ j \in Int /\ \A k \in i .. j : units[k] \in Nat
      BY <1>1, <2>1
    <2>3. SubSeq(units, i, j) \in Seq(Nat)
      BY <2>2, SubSeqProperties
    <2>4. Len(SubSeq(units, i, j)) = IF i <= j THEN j - i + 1 ELSE 0
      BY <2>2, SubSeqProperties
    <2> QED BY <2>1, <2>3, <2>4 DEF i, j, m
  <1>3. ASSUME NEW k \in 1 .. m PROVE cut[k] = p[k]
    <2>1. cut[k] = units[c + 2 + k - 1]
      <3> DEFINE i == c + 2
                 j == c + 1 + m
      <3>1. /\ i \in 1 .. Len(units) + 1 /\ j \in i - 1 .. Len(units)
            /\ k \in 1 .. j - i + 1
        BY <1>1
      <3> HIDE DEF i, j
      <3>2. SubSeq(units, i, j)[k] = units[i + k - 1]
        BY <3>1, SubSeqProperties
      <3> QED BY <3>2 DEF i, j
    <2>2. c + 2 + k - 1 = c + 1 + k
      BY <1>1
    <2> QED BY <2>1, <2>2
  <1> HIDE DEF cut
  <1>4. cut = p
    BY <1>2, <1>3, SeqEqual
  <1> QED BY <1>4 DEF cut

(* ... and goes from one to the next.                                      *)
LEMMA ReadStratumKeeps ==
  ASSUME FileInv, ReadStratum
  PROVE  FileInv'
  <1> DEFINE body == document.body
             tag  == body[cursor]
             len  == body[cursor + 1]
             next == NextStratum(cursor, len)
  <1>1. /\ FileTypeOK /\ stage = "reading" /\ ~ Refused
        /\ cursor + 1 <= Len(body)
        /\ UNCHANGED <<strata, document>>
    BY DEF FileInv, ReadStratum
  <1>2. document.intact /\ body \in Seq(Nat) /\ cursor \in Nat \ {0}
        /\ Len(body) \in Nat
    BY <1>1 DEF Refused, FileTypeOK
  <1>3. PICK segs \in Seq(Segment) :
            /\ Lays(segs, body) /\ Truthful(segs)
            /\ \E r \in 1 .. Len(segs) + 1 : ReadTo(segs, r)
    BY <1>1, <1>2 DEF FileInv, WellWritten
  <1>4. PICK r \in 1 .. Len(segs) + 1 : ReadTo(segs, r)
    BY <1>3
  <1>5. DOMAIN segs = 1 .. Len(segs) /\ Len(segs) \in Nat
    OBVIOUS
  <1>6. r \in DOMAIN segs
    <2> SUFFICES ASSUME r \notin DOMAIN segs PROVE FALSE
      OBVIOUS
    <2>1. cursor = Len(body) + 1
      BY <1>4 DEF ReadTo, StartOf
    <2> HIDE DEF body
    <2> QED BY <1>1, <1>2, <2>1
  <1> DEFINE s == segs[r]
             p == segs[r].payload
  <1>7. /\ s \in Segment /\ p \in Seq(Nat) /\ Len(p) \in Nat
        /\ cursor = s.pos /\ Holds(body, s)
        /\ EndOf(s) = StartOf(segs, body, r + 1)
    <2>1. s \in Segment
      BY <1>6
    <2>2. p \in Seq(Nat) /\ Len(p) \in Nat
      BY <2>1 DEF Segment
    <2>3. cursor = s.pos
      BY <1>4, <1>6 DEF ReadTo, StartOf
    <2>4. Holds(body, s) /\ EndOf(s) = StartOf(segs, body, r + 1)
      BY <1>3, <1>6 DEF Lays
    <2> QED BY <2>1, <2>2, <2>3, <2>4
  <1>8. tag = s.tag /\ len = Len(p) /\ next = EndOf(s)
        /\ next <= Len(body) + 1
    BY <1>7 DEF Holds, EndOf, NextStratum
  <1>9. next \in Nat \ {0} /\ ~ (next > Len(body) + 1)
    <2> DEFINE m == Len(p)
               l == Len(body)
    <2>1. /\ next = cursor + 2 + m /\ m \in Nat /\ l \in Nat
          /\ cursor \in Nat \ {0} /\ next <= l + 1
      BY <1>2, <1>7, <1>8 DEF NextStratum
    <2> HIDE DEF next, m, l
    <2>2. next \in Nat \ {0} /\ ~ (next > l + 1)
      BY <2>1
    <2> QED BY <2>2 DEF l
  <1>10. SubSeq(body, cursor + 2, cursor + 1 + len) = p
    <2>1. cursor + 2 + Len(p) <= Len(body) + 1
      BY <1>8 DEF NextStratum
    <2>2. \A k \in 1 .. Len(p) : body[cursor + 1 + k] = p[k]
      BY <1>7 DEF Holds
    <2>3. len = Len(p)
      BY <1>8
    <2> HIDE DEF body, len, p
    <2> QED BY <1>2, <1>7, <2>1, <2>2, <2>3, PayloadIsCutOut
  <1>11. /\ cursor' = next /\ stage' = stage
         /\ snap' = IF tag \notin Known THEN snap
                    ELSE [snap EXCEPT ![tag] = <<p>>]
    BY <1>9, <1>10 DEF ReadStratum
  <1>12. snap \in [Known -> Fields]
    BY <1>4 DEF ReadTo
  <1>13. snap' \in [Known -> Fields]
    BY <1>7, <1>11, <1>12 DEF Fields
  <1>14. FileTypeOK'
    BY <1>1, <1>9, <1>11, <1>13 DEF FileTypeOK
  <1>15. r + 1 \in 1 .. Len(segs) + 1
    BY <1>5, <1>6
  <1>16. ReadTo(segs, r + 1)'
    <2>1. cursor' = StartOf(segs, body, r + 1)
      BY <1>7, <1>8, <1>11
    <2>2. ASSUME NEW t \in Known
          PROVE  snap'[t] = IF \E i \in DOMAIN segs : i < r + 1 /\ segs[i].tag = t
                            THEN strata[t] ELSE Absent
      <3>0. \A i \in DOMAIN segs : i < r + 1 <=> i < r \/ i = r
        BY <1>5, <1>6
      <3>1. CASE tag = t
        <4>1. snap'[t] = <<p>>
          BY <1>11, <1>12, <3>1
        <4>2. strata[t] = <<p>>
          <5>1. s.tag = t /\ s.tag # Unknown
            BY <1>8, <3>1, LayoutOfKnown
          <5> QED BY <1>3, <1>6, <5>1 DEF Truthful
        <4>3. r < r + 1 /\ segs[r].tag = t
          BY <1>8, <3>0, <3>1, <1>6
        <4> QED BY <1>6, <4>1, <4>2, <4>3
      <3>2. CASE tag # t
        <4>1. snap'[t] = snap[t]
          BY <1>11, <1>12, <3>2
        <4>2. segs[r].tag # t
          BY <1>8, <3>2
        <4>3. (\E i \in DOMAIN segs : i < r + 1 /\ segs[i].tag = t)
                 <=> \E i \in DOMAIN segs : i < r /\ segs[i].tag = t
          BY <3>0, <4>2
        <4> QED BY <1>4, <4>1, <4>3 DEF ReadTo
      <3> QED BY <3>1, <3>2
    <2> QED BY <1>1, <1>13, <2>1, <2>2 DEF ReadTo
  <1>17. Truthful(segs)'
    BY <1>1, <1>3, <1>11 DEF Truthful, WrittenUpTo
  <1>18. WellWritten'
    BY <1>1, <1>3, <1>15, <1>16, <1>17 DEF WellWritten
  <1> QED BY <1>1, <1>11, <1>14, <1>18
          DEF FileInv, ReadsWhatWasWritten, Refused

(* Where no whole stratum is left, all segments were read.                 *)
LEMMA EndIsTheEnd ==
  ASSUME FileInv, EndOfBody
  PROVE  ReadsWhatWasWritten'
  <1> DEFINE body == document.body
  <1>1. /\ FileTypeOK /\ stage = "reading" /\ ~ Refused
        /\ cursor + 1 > Len(body) /\ document.version >= FormatVersion
        /\ UNCHANGED <<strata, document, cursor, snap>>
    BY DEF FileInv, EndOfBody
  <1>2. document.intact /\ document.version = FormatVersion
        /\ body \in Seq(Nat) /\ Len(body) \in Nat /\ cursor \in Nat
        /\ strata \in [Known -> Fields]
    BY <1>1 DEF Refused, FileTypeOK, FormatVersion
  <1>3. PICK segs \in Seq(Segment) :
            /\ Lays(segs, body) /\ Truthful(segs)
            /\ \E r \in 1 .. Len(segs) + 1 : ReadTo(segs, r)
    BY <1>1, <1>2 DEF FileInv, WellWritten
  <1>4. PICK r \in 1 .. Len(segs) + 1 : ReadTo(segs, r)
    BY <1>3
  <1>5. DOMAIN segs = 1 .. Len(segs) /\ Len(segs) \in Nat
    OBVIOUS
  <1>6. r \notin DOMAIN segs
    <2> SUFFICES ASSUME r \in DOMAIN segs PROVE FALSE
      OBVIOUS
    <2>1. /\ segs[r] \in Segment /\ cursor = segs[r].pos
          /\ Holds(body, segs[r])
      BY <1>3, <1>4 DEF ReadTo, StartOf, Lays
    <2>2. /\ Len(segs[r].payload) \in Nat
          /\ cursor + 2 + Len(segs[r].payload) <= Len(body) + 1
      BY <2>1 DEF Segment, Holds, EndOf
    <2> DEFINE m == Len(segs[r].payload)
               l == Len(body)
    <2>3. /\ m \in Nat /\ l \in Nat /\ cursor \in Nat
          /\ cursor + 1 > l /\ cursor + 2 + m <= l + 1
      BY <1>1, <1>2, <2>2
    <2> HIDE DEF m, l
    <2> QED BY <2>3
  <1>7. \A i \in DOMAIN segs : i < r
    BY <1>5, <1>6
  <1>8. snap \in [Known -> Fields]
    BY <1>4 DEF ReadTo
  <1>9. ASSUME NEW t \in Known PROVE snap[t] = strata[t]
    <2>1. snap[t] = IF \E i \in DOMAIN segs : segs[i].tag = t
                    THEN strata[t] ELSE Absent
      BY <1>4, <1>7 DEF ReadTo
    <2>2. strata[t] # Absent => \E i \in DOMAIN segs : segs[i].tag = t
      <3>1. PICK j \in DOMAIN Layout : Layout[j] = t
        BY LayoutOfKnown
      <3>2. j < Len(Layout) + 1
        <4>1. DOMAIN Layout = 1 .. Len(Layout) /\ Len(Layout) \in Nat
          BY LayoutOfKnown
        <4> QED BY <4>1
      <3> QED BY <1>1, <1>3, <3>1, <3>2 DEF Truthful, WrittenUpTo
    <2> QED BY <2>1, <2>2
  <1>10. snap = strata
    BY <1>2, <1>8, <1>9
  <1> QED BY <1>1, <1>2, <1>10 DEF ReadsWhatWasWritten

LEMMA EndOfBodyKeeps ==
  ASSUME FileInv, EndOfBody
  PROVE  FileInv'
  <1>1. /\ stage = "reading" /\ stage' = "read"
        /\ UNCHANGED <<strata, document, cursor, snap>>
    BY DEF EndOfBody
  <1>2. FileTypeOK'
    BY <1>1 DEF FileInv, FileTypeOK
  <1>3. WellWritten => WellWritten'
    BY <1>1 DEF WellWritten, Truthful, WrittenUpTo
  <1> QED BY <1>1, <1>2, <1>3, EndIsTheEnd DEF FileInv

LEMMA FileKeepsInv == FileInv /\ [FileNext]_fileVars => FileInv'
  <1> SUFFICES ASSUME FileInv, [FileNext]_fileVars PROVE FileInv'
    OBVIOUS
  <1>1. CASE EndOfBody
    BY <1>1, EndOfBodyKeeps
  <1> QED BY <1>1, FillingKeeps, WriteStratumKeeps, WriteUnknownKeeps,
             HandOverKeeps, ReadHeaderKeeps, ReadStratumKeeps DEF FileNext

(* LayeredSnapshot: a file reads as what was written into it, less the     *)
(* strata this reader does not know, whatever their payloads look like;    *)
(* damaged files and those of a later version are refused.                 *)
THEOREM FileReadsBack == FileSpec => []ReadsWhatWasWritten
  <1>1. FileInv => ReadsWhatWasWritten
    BY DEF FileInv
  <1> QED BY <1>1, FileBegins, FileKeepsInv, PTL DEF FileSpec

(* The snapshot, the file and the reader stay well typed.                  *)
THEOREM FileStaysTyped == FileSpec => []FileTypeOK
  <1>1. FileInv => FileTypeOK
    BY DEF FileInv
  <1> QED BY <1>1, FileBegins, FileKeepsInv, PTL DEF FileSpec

=============================================================================
