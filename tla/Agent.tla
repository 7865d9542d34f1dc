-------------------------------- MODULE Agent --------------------------------
(***************************************************************************)
(* runtime/src/agent.rs: one agent.  Agent::spawn starts a task that runs  *)
(* the JS evaluation in a task of its own and pumps messages meanwhile,    *)
(* and a wrapper task that bounds the first one by a timeout.  The         *)
(* AgentHandle sends tool calls to the pump (dispatch_tool) and finally    *)
(* shuts the agent down or is dropped.                                     *)
(***************************************************************************)
EXTENDS Naturals, Sequences, SequencesExt

CONSTANTS
    Calls,           \* the dispatch_tool() calls made in a run
    Capacity,        \* capacity of the message channel (64)
    NoCall,          \* no call
    Shutdown         \* the message AgentMessage::Shutdown

ASSUME CapacityPositive == Capacity \in Nat \ {0}
ASSUME DistinctMessages ==
    NoCall \notin Calls /\ Shutdown \notin Calls /\ NoCall # Shutdown

VARIABLES
    pump,            \* the message pump: where its loop is
    eval,            \* the evaluation task
    channel,         \* messages sent to the pump
    current,         \* the call whose tool is running, or NoCall
    status,          \* the status the inner task returned
    final,           \* the status the wrapper task returned
    caller,          \* caller[c]: where the dispatch_tool() of c is
    reply,           \* reply[c]: the one-shot reply channel of c
    answer,          \* answer[c]: what dispatch_tool() returned
    timeout,         \* config.timeout: is one set?
    super,           \* what the owner of the AgentHandle does
    reported,        \* what shutdown() returned
    accepted,        \* history: calls put in the channel, in order
    started          \* history: calls whose tool was started, in order

taskVars   == <<pump, eval, channel, current, status, final>>
callVars   == <<caller, reply, answer>>
superVars  == <<timeout, super, reported>>
history    == <<accepted, started>>
vars       == <<taskVars, callVars, superVars, history>>

Statuses == {"completed", "failed", "timed_out"}

Init ==
    /\ pump = "starting" /\ eval = "none"
    /\ channel = <<>> /\ current = NoCall
    /\ status = "none" /\ final = "none"
    /\ caller = [c \in Calls |-> "idle"]
    /\ reply = [c \in Calls |-> "empty"]
    /\ answer = [c \in Calls |-> "none"]
    /\ timeout \in BOOLEAN
    /\ super = "holding" /\ reported = "none"
    /\ accepted = <<>> /\ started = <<>>

InFlight == {c \in Calls : caller[c] \in {"sending", "awaiting"}}

-----------------------------------------------------------------------------
(* The inner task.                                                         *)

(* The task returns s or unwinds: the receiver goes away with the messages *)
(* it holds and with their reply senders.                                  *)
KeepsReplies == reply                        \* faulty: senders leak
DroppedReplies ==
    [c \in Calls |-> IF c \in ToSet(channel) \union {current}
                     THEN "dropped" ELSE reply[c]]

End(s) ==
    /\ pump' = "ended"
    /\ status' = s
    /\ channel' = <<>>
    /\ current' = NoCall
    /\ reply' = DroppedReplies

(* JsEngine::new: failure ends the task, success starts the evaluation.    *)
StartEngine ==
    /\ pump = "starting"
    /\ \/ /\ pump' = "select" /\ eval' = "running"
          /\ UNCHANGED <<channel, current, status, reply>>
       \/ /\ End("failed")
          /\ UNCHANGED eval
    /\ UNCHANGED <<final, caller, answer, superVars, history>>

(* engine.eval_module(..).await in its own task, to success or to an error *)
(* or a panic; it goes on when nobody awaits it any more.                  *)
EvalReturns ==
    /\ eval = "running"
    /\ eval' \in {"ok", "error"}
    /\ UNCHANGED <<pump, channel, current, status, final, callVars, superVars,
                   history>>

(* select!, first branch: a tool call.  The pump awaits the tool and polls *)
(* nothing else until it is done.                                          *)
NextMessage == Head(channel)

PumpToolCall ==
    /\ pump = "select" /\ channel # <<>>
    /\ NextMessage \in Calls
    /\ current' = NextMessage
    /\ channel' = Tail(channel)
    /\ started' = Append(started, NextMessage)
    /\ pump' = "dispatching"
    /\ UNCHANGED <<eval, status, final, callVars, superVars, accepted>>

ToolReturns ==
    /\ pump = "dispatching"
    /\ reply' = [reply EXCEPT ![current] = "filled"]
    /\ current' = NoCall
    /\ pump' = "select"
    /\ UNCHANGED <<eval, channel, status, final, caller, answer, superVars,
                   history>>

(* The tool panics and takes the inner task with it.                       *)
ToolPanics ==
    /\ pump = "dispatching"
    /\ End("failed")
    /\ UNCHANGED <<eval, final, caller, answer, superVars, history>>

(* select!, first branch: Shutdown, or None once every sender is gone.     *)
OvertakesCalls  == Shutdown \in ToSet(channel)    \* faulty: out of order
IgnoresShutdown == channel = <<>> /\ super \in {"dropped", "joined"}  \* faulty
StopRequested ==
    \/ channel # <<>> /\ Head(channel) = Shutdown
    \/ channel = <<>> /\ super \in {"dropped", "joined"}

PumpStop ==
    /\ pump = "select"
    /\ StopRequested
    /\ End("completed")
    /\ UNCHANGED <<eval, final, caller, answer, superVars, history>>

(* select!, second branch: the evaluation is over.  Which branch runs when *)
(* both are ready is random.                                               *)
PumpEvalDone ==
    /\ pump = "select" /\ eval \in {"ok", "error"}
    /\ End(IF eval = "ok" THEN "completed" ELSE "failed")
    /\ UNCHANGED <<eval, final, caller, answer, superVars, history>>

-----------------------------------------------------------------------------
(* The wrapper task.                                                       *)

InnerFinished ==
    /\ final = "none" /\ status # "none"
    /\ final' = status
    /\ UNCHANGED <<pump, eval, channel, current, status, callVars, superVars,
                   history>>

Armed == timeout

(* tokio::time::timeout elapses: the JoinHandle is dropped, which detaches *)
(* the inner task and does not stop it.                                    *)
Timeout ==
    /\ Armed /\ final = "none"
    /\ final' = "timed_out"
    /\ UNCHANGED <<pump, eval, channel, current, status, callVars, superVars,
                   history>>

-----------------------------------------------------------------------------
(* The owner of the AgentHandle.                                           *)

Call(c) ==
    /\ super = "holding" /\ caller[c] = "idle"
    /\ caller' = [caller EXCEPT ![c] = "sending"]
    /\ UNCHANGED <<taskVars, reply, answer, superVars, history>>

HasRoom == Len(channel) < Capacity

Send(c) ==
    /\ caller[c] = "sending"
    /\ pump # "ended" /\ HasRoom
    /\ channel' = Append(channel, c)
    /\ accepted' = Append(accepted, c)
    /\ caller' = [caller EXCEPT ![c] = "awaiting"]
    /\ UNCHANGED <<pump, eval, current, status, final, reply, answer,
                   superVars, started>>

Return(c, a) ==
    /\ answer' = [answer EXCEPT ![c] = a]
    /\ caller' = [caller EXCEPT ![c] = "returned"]

SendFails(c) ==
    /\ caller[c] = "sending" /\ pump = "ended"
    /\ Return(c, "agent channel closed")
    /\ UNCHANGED <<taskVars, reply, superVars, history>>

ReplyArrives(c) ==
    /\ caller[c] = "awaiting"
    /\ \/ reply[c] = "filled" /\ Return(c, "result")
       \/ reply[c] = "dropped" /\ Return(c, "agent reply channel closed")
    /\ UNCHANGED <<taskVars, reply, superVars, history>>

(* The caller's future is dropped.                                         *)
Abandon(c) ==
    /\ c \in InFlight
    /\ caller' = [caller EXCEPT ![c] = "abandoned"]
    /\ UNCHANGED <<taskVars, reply, answer, superVars, history>>

(* shutdown(self): consumes the handle dispatch_tool(&self) borrows.       *)
BeginShutdown ==
    /\ super = "holding" /\ InFlight = {}
    /\ super' = "stopping"
    /\ UNCHANGED <<taskVars, callVars, timeout, reported, history>>

(* tx.send(Shutdown).await, whose error is ignored.                        *)
SendShutdown ==
    /\ super = "stopping"
    /\ \/ /\ pump # "ended" /\ HasRoom
          /\ channel' = Append(channel, Shutdown)
       \/ pump = "ended" /\ UNCHANGED channel
    /\ super' = "joining"
    /\ UNCHANGED <<pump, eval, current, status, final, callVars, timeout,
                   reported, history>>

Join ==
    /\ super = "joining" /\ final # "none"
    /\ super' = "joined"
    /\ reported' = final
    /\ UNCHANGED <<taskVars, callVars, timeout, history>>

(* The handle is dropped without shutdown(): both tasks are detached.      *)
DropHandle ==
    /\ super = "holding" /\ InFlight = {}
    /\ super' = "dropped"
    /\ UNCHANGED <<taskVars, callVars, timeout, reported, history>>

-----------------------------------------------------------------------------
PumpStep == StartEngine \/ PumpToolCall \/ PumpStop \/ PumpEvalDone

CallStep(c) == Send(c) \/ SendFails(c) \/ ReplyArrives(c)

Next ==
    \/ PumpStep
    \/ EvalReturns \/ ToolReturns \/ ToolPanics
    \/ InnerFinished \/ Timeout
    \/ \E c \in Calls : Call(c) \/ CallStep(c) \/ Abandon(c)
    \/ BeginShutdown \/ SendShutdown \/ Join \/ DropHandle

(* Tokio polls every task that can go on; a timer that is set fires.       *)
Scheduling ==
    /\ WF_vars(PumpStep)
    /\ WF_vars(InnerFinished)
    /\ WF_vars(InnerFinished \/ Timeout)
    /\ WF_vars(SendShutdown) /\ WF_vars(Join)
    /\ \A c \in Calls : WF_vars(CallStep(c))

Spec == Init /\ [][Next]_vars /\ Scheduling

-----------------------------------------------------------------------------
(* Type correctness of the agent's tasks, its channel and its callers.     *)
TypeOK ==
    /\ pump \in {"starting", "select", "dispatching", "ended"}
    /\ eval \in {"none", "running", "ok", "error"}
    /\ channel \in Seq(Calls \union {Shutdown}) /\ Len(channel) <= Capacity
    /\ current \in Calls \union {NoCall}
    /\ status \in Statuses \union {"none"}
    /\ final \in Statuses \union {"none"}
    /\ caller \in [Calls -> {"idle", "sending", "awaiting", "returned",
                             "abandoned"}]
    /\ reply \in [Calls -> {"empty", "filled", "dropped"}]
    /\ answer \in [Calls -> {"none", "result", "agent channel closed",
                             "agent reply channel closed"}]
    /\ timeout \in BOOLEAN
    /\ super \in {"holding", "stopping", "joining", "joined", "dropped"}
    /\ reported \in Statuses \union {"none"}
    /\ accepted \in Seq(Calls)
    /\ started \in Seq(Calls)

(* What waits in the channel ahead of the Shutdown that may end it.        *)
Waiting ==
    IF channel # <<>> /\ Last(channel) = Shutdown THEN Front(channel) ELSE channel

(* Tool calls start in the order in which they entered the channel, each   *)
(* once: while the pump lives, the calls not yet started are those in the  *)
(* channel, and no call is behind a Shutdown.  And a shutdown is graceful: *)
(* the pump that stops because it was told to (and not because its         *)
(* evaluation ended, its engine failed or a tool panicked) has first run   *)
(* every call accepted before, abandoned calls included.                   *)
CallsStartInOrder == pump # "ended" => accepted = started \o Waiting

GracefulStop ==
    []CallsStartInOrder /\ [][PumpStop => started = accepted]_vars

(* A status other than timed_out that shutdown() reports is final: the     *)
(* inner task ended with it, nothing is left in the channel, and every     *)
(* call it had accepted has a reply or knows that none will come.          *)
ReportedIsFinal ==
    reported \in {"completed", "failed"} =>
        /\ pump = "ended" /\ status = reported
        /\ \A c \in ToSet(accepted) : reply[c] # "empty"

(* What the code does not enforce: a tool returns, or panics.              *)
ToolsReturn == WF_vars(ToolReturns \/ ToolPanics)

(* If tools return, so does every dispatch_tool(), also when the agent     *)
(* ends under it.                                                          *)
EveryCallReturns ==
    ToolsReturn =>
        \A c \in Calls :
            caller[c] = "sending" ~> caller[c] \in {"returned", "abandoned"}

(* If tools return, so does shutdown(), also when the channel is full.  If *)
(* a tool hangs, a timeout still ends a shutdown whose message was sent.   *)
ShutdownCompletes ==
    /\ ToolsReturn => (super = "stopping" ~> super = "joined")
    /\ timeout /\ super = "joining" ~> super = "joined"

=============================================================================
