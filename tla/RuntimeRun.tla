------------------------------ MODULE RuntimeRun ------------------------------
(***************************************************************************)
(* `bua run`: cmd_run (cli/src/main.rs) calls Runtime::run                 *)
(* (runtime/src/runtime/runtime.rs), which drives the lifecycle of         *)
(* AgentContext, frames the trace and awaits VmContext::run_module under a *)
(* timeout; afterwards cmd_run asks the JS thread for a heap snapshot.     *)
(* The module itself runs on the JS thread (module JsThread), which only   *)
(* knows closures: dropping the future that awaits one does not stop it.   *)
(*                                                                         *)
(* Other holders of the AgentContext may cancel the agent at any time.     *)
(***************************************************************************)
EXTENDS Naturals, Sequences, SequencesExt

VARIABLES
    options,         \* the command's options, and whether others may cancel
    run,             \* where Runtime::run is
    result,          \* what run_module and the timeout yielded
    lifecycle,       \* AgentContextInner.lifecycle
    trace,           \* the kinds of the events run() appended, in order
    main,            \* where cmd_run is
    thread,          \* the JS thread: starting, idle, the job at hand, or dead
    jobs,            \* closures sent to the JS thread
    replies,         \* replies[j]: the one-shot reply of job j
    heap             \* the heap stratum of the snapshot file

callVars   == <<run, result, trace>>
threadVars == <<thread, jobs, replies>>
runState   == <<callVars, lifecycle, main, threadVars, heap>>
runVars    == <<options, runState>>

Jobs == {"module", "heap"}

Terminal == {"completed", "failed", "timed_out", "cancelled"}

EventKinds == {"execution_start", "js_exception", "execution_end 0",
               "execution_end 1"}

(* Is a timeout configured, was --snapshot given, and does somebody else   *)
(* call transition_cancelled()?                                            *)
Options == [timeout : BOOLEAN, snapshot : BOOLEAN, cancellable : BOOLEAN]

RunInit ==
    /\ options \in Options
    /\ run = "new" /\ result = "none" /\ trace = <<>>
    /\ lifecycle = "pending"
    /\ main = "running"
    /\ thread = "starting" /\ jobs = <<>>
    /\ replies = [j \in Jobs |-> "none"]
    /\ heap = "none"

Emit(events) == trace' = trace \o events

-----------------------------------------------------------------------------
(* The JS thread (engine.rs).                                              *)

Lost == [j \in Jobs |-> IF j = thread \/ \E i \in DOMAIN jobs : jobs[i] = j
                        THEN "error" ELSE replies[j]]

(* JscContext::new succeeds.                                               *)
ThreadStarts ==
    /\ thread = "starting"
    /\ thread' = "idle"
    /\ UNCHANGED <<callVars, lifecycle, main, jobs, replies, heap>>

NewestJob == Len(jobs)                       \* faulty: a stack of closures
NextJob   == 1

ThreadTakes ==
    /\ thread = "idle" /\ jobs # <<>>
    /\ thread' = jobs[NextJob]
    /\ jobs' = RemoveAt(jobs, NextJob)
    /\ UNCHANGED <<callVars, lifecycle, main, replies, heap>>

ThreadReturns(how) ==
    /\ thread \in Jobs
    /\ replies' = [replies EXCEPT ![thread] = how]
    /\ thread' = "idle"
    /\ UNCHANGED <<callVars, lifecycle, main, jobs, heap>>

(* The context cannot be created, or a closure panics.                     *)
ThreadDies ==
    /\ thread \in {"starting"} \union Jobs
    /\ thread' = "dead"
    /\ jobs' = <<>>
    /\ replies' = Lost
    /\ UNCHANGED <<callVars, lifecycle, main, heap>>

(* dispatch(): a dead thread fails the call at once.                       *)
Dispatch(j) ==
    IF thread = "dead"
    THEN replies' = [replies EXCEPT ![j] = "error"] /\ UNCHANGED jobs
    ELSE jobs' = Append(jobs, j) /\ UNCHANGED replies

-----------------------------------------------------------------------------
(* Runtime::run.                                                           *)

TraceStart ==
    /\ run = "new"
    /\ Emit(<<"execution_start">>)
    /\ run' = "traced"
    /\ UNCHANGED <<result, lifecycle, main, threadVars, heap>>

(* transition_running asserts that the agent is pending.                   *)
Start ==
    /\ run = "traced"
    /\ IF lifecycle = "pending"
       THEN lifecycle' = "running" /\ run' = "loading"
       ELSE run' = "panicked" /\ UNCHANGED lifecycle
    /\ UNCHANGED <<result, trace, main, threadVars, heap>>

(* run_module: loader.load(..).await, then eval_module on the JS thread.   *)
Load ==
    /\ run = "loading"
    /\ \/ /\ run' = "evaluating"
          /\ Dispatch("module")
          /\ UNCHANGED result
       \/ /\ run' = "ending" /\ result' = "error"
          /\ UNCHANGED <<jobs, replies>>
    /\ UNCHANGED <<lifecycle, trace, main, thread, heap>>

EvalReturns ==
    /\ run = "evaluating" /\ replies["module"] # "none"
    /\ result' = replies["module"]
    /\ run' = "ending"
    /\ UNCHANGED <<lifecycle, trace, main, threadVars, heap>>

TimesLoadOnly == {"loading"}                 \* faulty: wraps load() only
TimedAwaits   == {"loading", "evaluating"}

(* The timeout elapses before the reply is there (timeout() polls the      *)
(* inner future first); run_module is dropped, its closure is not.         *)
TimeoutFires ==
    /\ options.timeout
    /\ run \in TimedAwaits
    /\ replies["module"] = "none"
    /\ lifecycle' = "timed_out"
    /\ result' = "timeout"
    /\ run' = "ending"
    /\ UNCHANGED <<trace, main, threadVars, heap>>

EndOk ==
    /\ run = "ending" /\ result = "ok"
    /\ lifecycle' = "completed"
    /\ run' = "closing"
    /\ UNCHANGED <<result, trace, main, threadVars, heap>>

(* if !self.agent.is_terminal() ...                                        *)
NeverKeeps     == FALSE                      \* faulty: no test
KeepsLifecycle == lifecycle \in Terminal

EndError ==
    /\ run = "ending" /\ result \in {"error", "timeout"}
    /\ run' = IF KeepsLifecycle THEN "closing" ELSE "failing"
    /\ UNCHANGED <<result, lifecycle, trace, main, threadVars, heap>>

(* ... { transition_failed }, under a lock of its own.                     *)
Fail ==
    /\ run = "failing"
    /\ lifecycle' = "failed"
    /\ run' = "closing"
    /\ UNCHANGED <<result, trace, main, threadVars, heap>>

ClosingEvents ==
    IF result = "ok" THEN <<"execution_end 0">>
    ELSE <<"js_exception", "execution_end 1">>

TraceEnd ==
    /\ run = "closing"
    /\ Emit(ClosingEvents)
    /\ run' = "returned"
    /\ UNCHANGED <<result, lifecycle, main, threadVars, heap>>

(* Somebody else's transition_cancelled().                                 *)
Cancel ==
    /\ options.cancellable
    /\ lifecycle' = "cancelled"
    /\ UNCHANGED <<callVars, main, threadVars, heap>>

-----------------------------------------------------------------------------
(* cmd_run, after run() returned.                                          *)

AskHeap ==
    /\ main = "running" /\ run = "returned"
    /\ IF options.snapshot
       THEN main' = "awaiting heap" /\ Dispatch("heap")
       ELSE main' = "exited" /\ UNCHANGED <<jobs, replies>>
    /\ UNCHANGED <<callVars, lifecycle, thread, heap>>

(* snapshot_heap().await.unwrap_or_default(), write_to_file, exit.         *)
WriteSnapshot ==
    /\ main = "awaiting heap" /\ replies["heap"] # "none"
    /\ heap' = IF replies["heap"] = "ok" THEN "captured" ELSE "empty"
    /\ main' = "exited"
    /\ UNCHANGED <<callVars, lifecycle, threadVars>>

ExitOnPanic ==
    /\ main = "running" /\ run = "panicked"
    /\ main' = "exited"
    /\ UNCHANGED <<callVars, lifecycle, threadVars, heap>>

-----------------------------------------------------------------------------
RunStep ==
    \/ TraceStart \/ Start \/ Load \/ EvalReturns
    \/ EndOk \/ EndError \/ Fail \/ TraceEnd

MainStep == AskHeap \/ WriteSnapshot \/ ExitOnPanic

(* std::process::exit ends the JS thread, too.                             *)
RunNext ==
    /\ main # "exited"
    /\ UNCHANGED options
    /\ \/ RunStep \/ TimeoutFires \/ Cancel \/ MainStep
       \/ ThreadStarts \/ ThreadTakes \/ ThreadDies
       \/ \E how \in {"ok", "error"} : ThreadReturns(how)

(* The timer fires; closures are picked up; a heap capture ends.  Nothing  *)
(* makes the evaluation of a module end.                                   *)
HeapReturns ==
    thread = "heap" /\ \E how \in {"ok", "error"} : ThreadReturns(how)

RunFairness ==
    /\ WF_runState(RunStep) /\ WF_runState(TimeoutFires) /\ WF_runState(MainStep)
    /\ WF_runState(ThreadStarts \/ ThreadTakes) /\ WF_runState(HeapReturns)

RunSpec == RunInit /\ [][RunNext]_runVars /\ RunFairness

-----------------------------------------------------------------------------
(* Type correctness of the run, the JS thread and the snapshot.            *)
RunTypeOK ==
    /\ options \in Options
    /\ run \in {"new", "traced", "loading", "evaluating", "ending", "failing",
               "closing", "returned", "panicked"}
    /\ result \in {"none", "ok", "error", "timeout"}
    /\ lifecycle \in {"pending", "running"} \union Terminal
    /\ trace \in Seq(EventKinds)
    /\ main \in {"running", "awaiting heap", "exited"}
    /\ thread \in {"starting", "idle", "dead"} \union Jobs
    /\ jobs \in Seq(Jobs)
    /\ replies \in [Jobs -> {"none", "ok", "error"}]
    /\ heap \in {"none", "empty", "captured"}

(* What a run that nobody else cancels leaves behind agrees: the exit code *)
(* (result), the lifecycle and the trace tell one story, in which a        *)
(* timeout is not a failure of the script.                                 *)
RunRecordsAgree ==
    run = "returned" /\ ~options.cancellable =>
        /\ lifecycle = [ok |-> "completed", error |-> "failed",
                        timeout |-> "timed_out"][result]
        /\ trace = IF lifecycle = "completed"
                   THEN <<"execution_start", "execution_end 0">>
                   ELSE <<"execution_start", "js_exception", "execution_end 1">>

(* Runtime::run returns although the module never does, if a timeout is    *)
(* configured.                                                             *)
TimeoutBoundsRun ==
    options.timeout /\ run = "loading" ~> run \in {"returned", "panicked"}

(* The heap in the snapshot file is never that of a module caught in the   *)
(* middle, or captured ahead of a module that still waits for the JS       *)
(* thread, not even when a timeout left it behind there: the capture waits *)
(* for its turn.  (A module that could not be loaded, or not in time, was  *)
(* never handed to the JS thread, and the heap is one without it.)         *)
ModuleUnfinished == thread = "module" \/ \E i \in DOMAIN jobs : jobs[i] = "module"

HeapAfterModule == heap = "captured" => ~ModuleUnfinished

=============================================================================
