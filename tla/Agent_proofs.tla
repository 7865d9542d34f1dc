----------------------------- MODULE Agent_proofs -----------------------------
(***************************************************************************)
(* Proofs about one agent, for any number of tool calls and any capacity   *)
(* of its channel.                                                         *)
(*                                                                         *)
(* Neither CallsStartInOrder nor ReportedIsFinal is inductive.  The first  *)
(* needs that a Shutdown is sent last, hence that nobody calls a handle    *)
(* that is being shut down (ShutdownLast, CallsBorrow); the second that    *)
(* the wrapper task repeats the inner task's status (TasksAgree) and that  *)
(* the pump owns the reply sender of every call it accepted                *)
(* (RepliesOwed).                                                          *)
(***************************************************************************)
EXTENDS Agent, SequenceFacts, TLAPS

(* dispatch_tool() borrows the handle that shutdown() consumes.            *)
CallsBorrow == super # "holding" => InFlight = {}

(* Nothing is sent after a Shutdown.                                       *)
ShutdownLast ==
    \A i \in DOMAIN channel :
        channel[i] = Shutdown =>
            i = Len(channel) /\ super \in {"joining", "joined"}

(* The pump has a call at hand exactly while it runs its tool, and an      *)
(* empty channel and a status exactly once it has ended.                   *)
PumpHolds ==
    /\ current # NoCall <=> pump = "dispatching"
    /\ status # "none" <=> pump = "ended"
    /\ pump = "ended" => channel = <<>>

(* What the wrapper task returns, and what shutdown() does with it.        *)
TasksAgree ==
    /\ status # "timed_out"
    /\ final \notin {"none", "timed_out"} => final = status
    /\ reported # "none" => reported = final

(* A call that was accepted and has no reply is at hand or in the channel. *)
RepliesOwed ==
    \A c \in ToSet(accepted) :
        reply[c] = "empty" => c = current \/ c \in ToSet(channel)

AgentInv ==
    /\ TypeOK /\ CallsBorrow /\ ShutdownLast /\ PumpHolds /\ TasksAgree
    /\ RepliesOwed /\ CallsStartInOrder

LEMMA AgentInit == Init => AgentInv
<1> SUFFICES ASSUME Init PROVE AgentInv
  OBVIOUS
<1>1. TypeOK
  BY CapacityPositive DEF Init, TypeOK, Statuses
<1>2. CallsBorrow /\ ShutdownLast /\ PumpHolds /\ TasksAgree /\ CallsStartInOrder
  BY DEF Init, CallsBorrow, ShutdownLast, PumpHolds, TasksAgree,
         CallsStartInOrder, Waiting
<1>3. RepliesOwed
  BY DEF Init, RepliesOwed, ToSet
<1> QED BY <1>1, <1>2, <1>3 DEF AgentInv

(* The inner task ends: nothing is owed any more.                          *)
LEMMA EndKeeps ==
    ASSUME AgentInv, pump # "ended", NEW s \in {"completed", "failed"}, End(s),
           UNCHANGED <<final, caller, answer, superVars, history>>,
           eval' = eval
    PROVE  AgentInv'
<1> USE DEF AgentInv, End, superVars, history
<1>1. TypeOK'
  <2>1. reply' \in [Calls -> {"empty", "filled", "dropped"}]
    BY DEF TypeOK, DroppedReplies
  <2>2. channel' \in Seq(Calls \union {Shutdown}) /\ Len(channel') <= Capacity
    BY CapacityPositive
  <2> QED BY ZenonT(40), <2>1, <2>2 DEF TypeOK, Statuses
<1>2. CallsBorrow' /\ ShutdownLast' /\ PumpHolds' /\ CallsStartInOrder'
  BY DEF CallsBorrow, InFlight, ShutdownLast, PumpHolds, CallsStartInOrder
<1>3. TasksAgree'
  BY DEF TasksAgree, PumpHolds, TypeOK, Statuses
<1>4. RepliesOwed'
  <2>1. ToSet(accepted) \subseteq Calls
    BY ItemsOfSeq DEF TypeOK
  <2> QED BY <2>1 DEF RepliesOwed, DroppedReplies, TypeOK
<1> QED BY <1>1, <1>2, <1>3, <1>4

(* The pump takes the first message of the channel, a call.                *)
LEMMA PumpToolCallKeeps ==
    ASSUME AgentInv, PumpToolCall
    PROVE  AgentInv'
<1> USE DEF AgentInv, PumpToolCall, NextMessage, superVars, callVars
<1> DEFINE M == Calls \union {Shutdown}
           h == Head(channel)
           t == Tail(channel)
<1>1. /\ h \in Calls /\ t \in Seq(M) /\ channel \in Seq(M) /\ channel # <<>>
      /\ channel = <<h>> \o t /\ ToSet(channel) = {h} \union ToSet(t)
      /\ started \in Seq(Calls) /\ Append(started, h) \in Seq(Calls)
      /\ started \in Seq(M)
  <2>1. channel \in Seq(M) /\ channel # <<>> /\ h \in Calls /\ started \in Seq(Calls)
    BY DEF TypeOK
  <2>2. t \in Seq(M) /\ channel = <<h>> \o t /\ ToSet(channel) = {h} \union ToSet(t)
    BY <2>1, HeadThenTail
  <2>3. Append(started, h) \in Seq(Calls)
    BY <2>1
  <2>4. Seq(Calls) \subseteq Seq(M)
    BY SeqIsMonotonic
  <2> QED BY <2>1, <2>2, <2>3, <2>4
<1>2. /\ Len(t) = Len(channel) - 1 /\ Len(channel) \in Nat /\ Len(channel) >= 1
      /\ \A i \in 1 .. Len(t) : t[i] = channel[i + 1]
      /\ DOMAIN t = 1 .. Len(t) /\ DOMAIN channel = 1 .. Len(channel)
  BY <1>1
<1> HIDE DEF t, h
<1>a. channel' = t /\ current' = h /\ started' = Append(started, h)
  BY DEF t, h
<1>3. TypeOK'
  <2>1. Len(channel) <= Capacity
    BY DEF TypeOK
  <2>2. Len(t) <= Capacity
    BY ONLY <1>2, <2>1, CapacityPositive
  <2> QED BY <1>1, <1>a, <2>2 DEF TypeOK
<1>4. CallsBorrow' /\ PumpHolds' /\ TasksAgree'
  BY <1>1, <1>a, DistinctMessages DEF CallsBorrow, InFlight, PumpHolds, TasksAgree
<1>5. ShutdownLast'
  <2>1. \A i \in 1 .. Len(t) : i + 1 \in 1 .. Len(channel)
    BY <1>2
  <2> QED BY <1>2, <1>a, <2>1 DEF ShutdownLast
<1>6. RepliesOwed'
  <2>1. current = NoCall /\ \A c \in Calls : c # NoCall
    BY DistinctMessages DEF PumpHolds
  <2>2. ToSet(accepted) \subseteq Calls
    BY ItemsOfSeq DEF TypeOK
  <2> QED BY <1>1, <1>a, <2>1, <2>2 DEF RepliesOwed
<1>7. CallsStartInOrder'
  <2>1. CASE Last(channel) = Shutdown
    <3>1. Len(channel) > 1
      <4>1. Len(channel) # 1
        BY <2>1, <1>1, DistinctMessages DEF Last, h
      <4> QED BY <4>1, <1>2
    <3>2. /\ t # <<>> /\ Last(t) = Last(channel)
          /\ Front(channel) = <<h>> \o Front(t) /\ Front(t) \in Seq(M)
      BY <1>1, <3>1, HeadThenTailOfFront DEF t, h
    <3>3. accepted = started \o (<<h>> \o Front(t))
      BY <1>1, <2>1, <3>2 DEF CallsStartInOrder, Waiting
    <3>4. started \in Seq(M) /\ h \in M
      BY <1>1
    <3>5. started \o (<<h>> \o Front(t)) = Append(started, h) \o Front(t)
      BY ONLY <3>2, <3>4
    <3> QED BY <1>a, <2>1, <3>2, <3>3, <3>5 DEF CallsStartInOrder, Waiting
  <2>2. CASE Last(channel) # Shutdown
    <3>1. t # <<>> => Last(t) # Shutdown
      <4> SUFFICES ASSUME t # <<>> PROVE Last(t) # Shutdown
        OBVIOUS
      <4>1. Len(t) \in 1 .. Len(t) /\ Len(t) + 1 = Len(channel)
        BY <1>1, <1>2
      <4> QED BY <2>2, <4>1, <1>2 DEF Last
    <3>2. accepted = started \o (<<h>> \o t)
      BY <1>1, <2>2 DEF CallsStartInOrder, Waiting
    <3>3. started \in Seq(M) /\ h \in M
      BY <1>1
    <3>4. started \o (<<h>> \o t) = Append(started, h) \o t
      BY ONLY <1>1, <3>3
    <3> QED BY <1>a, <3>1, <3>2, <3>4 DEF CallsStartInOrder, Waiting
  <2> QED BY <2>1, <2>2
<1> QED BY <1>3, <1>4, <1>5, <1>6, <1>7

(* A call enters the channel; nobody has sent a Shutdown yet.              *)
LEMMA SendKeeps ==
    ASSUME AgentInv, NEW c \in Calls, Send(c)
    PROVE  AgentInv'
<1> USE DEF AgentInv, Send, superVars
<1> DEFINE M == Calls \union {Shutdown}
<1>1. super = "holding"
  BY DEF CallsBorrow, InFlight
<1>2. \A i \in DOMAIN channel : channel[i] # Shutdown
  BY <1>1 DEF ShutdownLast
<1>3. /\ channel \in Seq(M) /\ c \in M /\ started \in Seq(M) /\ accepted \in Seq(Calls)
      /\ c # Shutdown
  <2>1. Seq(Calls) \subseteq Seq(M)
    BY SeqIsMonotonic
  <2> QED BY <2>1, DistinctMessages DEF TypeOK
<1>4. /\ Append(channel, c) \in Seq(M) /\ Append(accepted, c) \in Seq(Calls)
      /\ Len(Append(channel, c)) = Len(channel) + 1 /\ Len(channel) \in Nat
      /\ DOMAIN channel = 1 .. Len(channel)
      /\ DOMAIN Append(channel, c) = 1 .. Len(channel) + 1
      /\ Append(channel, c)[Len(channel) + 1] = c
      /\ \A i \in 1 .. Len(channel) : Append(channel, c)[i] = channel[i]
  BY <1>3
<1>5. ToSet(channel') = ToSet(channel) \union {c} /\ ToSet(accepted') = ToSet(accepted) \union {c}
  BY <1>3, SetOfAppend
<1>6. TypeOK'
  <2>1. Len(channel') <= Capacity
    BY <1>4, CapacityPositive DEF HasRoom
  <2> QED BY ZenonT(40), <1>4, <2>1 DEF TypeOK
<1>7. CallsBorrow' /\ PumpHolds' /\ TasksAgree'
  BY <1>1 DEF CallsBorrow, PumpHolds, TasksAgree
<1>8. \A i \in DOMAIN channel' : channel'[i] # Shutdown
  BY <1>2, <1>3, <1>4
<1>9. ShutdownLast'
  BY <1>8 DEF ShutdownLast
<1>10. RepliesOwed'
  BY <1>5 DEF RepliesOwed
<1>11. CallsStartInOrder'
  <2>1. Waiting = channel
    <3>1. channel # <<>> => Len(channel) \in DOMAIN channel
      BY <1>3
    <3> QED BY <1>2, <3>1 DEF Waiting, Last
  <2>2. Waiting' = channel'
    BY <1>3, <1>4 DEF Waiting, Last
  <2>3. Append(started \o channel, c) = started \o Append(channel, c)
    BY ONLY <1>3, SMTT(30)
  <2> QED BY <2>1, <2>2, <2>3 DEF CallsStartInOrder
<1> QED BY <1>6, <1>7, <1>9, <1>10, <1>11

(* shutdown() sends its message, or finds that the task is gone.           *)
LEMMA SendShutdownKeeps ==
    ASSUME AgentInv, SendShutdown
    PROVE  AgentInv'
<1> USE DEF AgentInv, SendShutdown, callVars, history
<1> DEFINE M == Calls \union {Shutdown}
<1>1. CallsBorrow' /\ PumpHolds' /\ TasksAgree'
  BY DEF CallsBorrow, InFlight, PumpHolds, TasksAgree
<1>2. CASE pump = "ended" /\ UNCHANGED channel
  BY <1>1, <1>2 DEF TypeOK, ShutdownLast, RepliesOwed, CallsStartInOrder
<1>3. CASE pump # "ended" /\ HasRoom /\ channel' = Append(channel, Shutdown)
  <2>1. \A i \in DOMAIN channel : channel[i] # Shutdown
    BY DEF ShutdownLast
  <2>2. channel \in Seq(M) /\ Shutdown \in M
    BY DEF TypeOK
  <2>3. /\ Append(channel, Shutdown) \in Seq(M)
        /\ Len(Append(channel, Shutdown)) = Len(channel) + 1 /\ Len(channel) \in Nat
        /\ DOMAIN channel = 1 .. Len(channel)
        /\ DOMAIN Append(channel, Shutdown) = 1 .. Len(channel) + 1
        /\ \A i \in 1 .. Len(channel) : Append(channel, Shutdown)[i] = channel[i]
    BY <2>2
  <2>4. TypeOK'
    <3>1. Len(channel') = Len(channel) + 1 /\ Len(channel) < Capacity
      BY <1>3, <2>3 DEF HasRoom
    <3>2. Len(channel') <= Capacity
      BY <2>3, <3>1, CapacityPositive
    <3> QED BY <1>3, <2>3, <3>2 DEF TypeOK
  <2>5. ShutdownLast'
    <3>1. \A i \in 1 .. Len(channel) + 1 : i \in 1 .. Len(channel) \/ i = Len(channel) + 1
      BY <2>3
    <3> QED BY <1>3, <2>1, <2>3, <3>1 DEF ShutdownLast
  <2>6. RepliesOwed'
    <3>1. ToSet(channel') = ToSet(channel) \union {Shutdown}
      BY <1>3, <2>2, SetOfAppend
    <3> QED BY <3>1 DEF RepliesOwed
  <2>7. CallsStartInOrder'
    <3>1. Waiting = channel
      <4>1. channel # <<>> => Len(channel) \in DOMAIN channel
        BY <2>2
      <4> QED BY <2>1, <4>1 DEF Waiting, Last
    <3>2. /\ Append(channel, Shutdown) # <<>>
          /\ Last(Append(channel, Shutdown)) = Shutdown
          /\ Front(Append(channel, Shutdown)) = channel
      BY <2>2, FrontOfAppend
    <3>3. Waiting' = channel
      BY <1>3, <3>2 DEF Waiting
    <3> QED BY <1>3, <3>1, <3>3 DEF CallsStartInOrder
  <2> QED BY <1>1, <2>4, <2>5, <2>6, <2>7
<1> QED BY <1>2, <1>3

(* A step that leaves the channel, the pump and the histories alone.       *)
LEMMA QuietKeeps ==
    ASSUME AgentInv, TypeOK', CallsBorrow', TasksAgree',
           UNCHANGED <<pump, channel, current, status, reply, history>>,
           super \in {"joining", "joined"} => super' \in {"joining", "joined"}
    PROVE  AgentInv'
BY DEF AgentInv, history, ShutdownLast, PumpHolds, RepliesOwed,
       CallsStartInOrder, Waiting

LEMMA AgentStepKeeps ==
    ASSUME AgentInv, [Next]_vars
    PROVE  AgentInv'
<1> USE DEF callVars, superVars, taskVars, history
<1>1. CASE StartEngine
  <2>1. CASE End("failed") /\ UNCHANGED eval
    BY <1>1, <2>1, EndKeeps DEF StartEngine
  <2>2. CASE /\ pump' = "select" /\ eval' = "running"
             /\ UNCHANGED <<channel, current, status, reply>>
    BY <1>1, <2>2
    DEF StartEngine, history, AgentInv, TypeOK, CallsBorrow, InFlight,
        ShutdownLast, PumpHolds, TasksAgree, RepliesOwed, CallsStartInOrder,
        Waiting
  <2> QED BY <1>1, <2>1, <2>2 DEF StartEngine
<1>2. CASE PumpToolCall
  BY <1>2, PumpToolCallKeeps
<1>3. CASE PumpStop
  BY <1>3, EndKeeps DEF PumpStop
<1>4. CASE PumpEvalDone
  BY <1>4, EndKeeps DEF PumpEvalDone
<1>5. CASE EvalReturns
  <2>1. /\ eval' \in {"ok", "error"}
        /\ UNCHANGED <<pump, channel, current, status, final, callVars, superVars,
                       history>>
    BY <1>5 DEF EvalReturns
  <2>2. TypeOK'
    BY ZenonT(40), <2>1 DEF callVars, superVars, history, AgentInv, TypeOK
  <2>3. CallsBorrow' /\ TasksAgree'
    BY <2>1 DEF callVars, superVars, AgentInv, CallsBorrow, InFlight, TasksAgree
  <2> QED BY <1>5, <2>2, <2>3, QuietKeeps DEF EvalReturns
<1>6. CASE ToolReturns
  <2>1. TypeOK'
    BY <1>6 DEF ToolReturns, AgentInv, TypeOK
  <2>2. CallsBorrow' /\ ShutdownLast' /\ PumpHolds' /\ TasksAgree' /\ CallsStartInOrder'
    BY <1>6 DEF ToolReturns, AgentInv, CallsBorrow, InFlight, ShutdownLast,
                PumpHolds, TasksAgree, CallsStartInOrder, Waiting
  <2>3. RepliesOwed'
    <3>1. ToSet(accepted) \subseteq Calls
      BY ItemsOfSeq DEF AgentInv, TypeOK
    <3> QED BY <1>6, <3>1 DEF ToolReturns, AgentInv, TypeOK, RepliesOwed
  <2> QED BY <2>1, <2>2, <2>3 DEF AgentInv
<1>7. CASE ToolPanics
  BY <1>7, EndKeeps DEF ToolPanics
<1>8. CASE InnerFinished
  <2>1. TypeOK' /\ CallsBorrow' /\ TasksAgree'
    BY <1>8 DEF InnerFinished, AgentInv, TypeOK, CallsBorrow, InFlight, TasksAgree
  <2> QED BY <1>8, <2>1, QuietKeeps DEF InnerFinished
<1>9. CASE Timeout
  <2>1. TypeOK' /\ CallsBorrow' /\ TasksAgree'
    BY ZenonT(40), <1>9 DEF Timeout, AgentInv, TypeOK, Statuses, CallsBorrow, InFlight, TasksAgree
  <2> QED BY <1>9, <2>1, QuietKeeps DEF Timeout
<1>10. ASSUME NEW c \in Calls, Call(c) PROVE AgentInv'
  <2>1. TypeOK' /\ CallsBorrow' /\ TasksAgree'
    BY ZenonT(40), <1>10 DEF Call, AgentInv, TypeOK, CallsBorrow, TasksAgree
  <2> QED BY <1>10, <2>1, QuietKeeps DEF Call
<1>11. ASSUME NEW c \in Calls, Send(c) PROVE AgentInv'
  BY <1>11, SendKeeps
<1>12. ASSUME NEW c \in Calls, SendFails(c) \/ ReplyArrives(c) PROVE AgentInv'
  <2>1. PICK a \in {"result", "agent channel closed", "agent reply channel closed"} :
          Return(c, a)
    BY <1>12 DEF SendFails, ReplyArrives
  <2>2. UNCHANGED <<taskVars, reply, superVars, history>>
    BY <1>12 DEF SendFails, ReplyArrives
  <2>3. TypeOK'
    <3>1. /\ answer' = [answer EXCEPT ![c] = a]
          /\ caller' = [caller EXCEPT ![c] = "returned"]
      BY <2>1 DEF Return
    <3>2. answer' \in [Calls -> {"none", "result", "agent channel closed",
                                "agent reply channel closed"}]
      BY <3>1 DEF AgentInv, TypeOK
    <3>3. caller' \in [Calls -> {"idle", "sending", "awaiting", "returned",
                                "abandoned"}]
      BY <3>1 DEF AgentInv, TypeOK
    <3> QED BY ZenonT(40), <2>2, <3>2, <3>3 DEF AgentInv, TypeOK
  <2>4. CallsBorrow' /\ TasksAgree'
    BY <2>1, <2>2 DEF Return, AgentInv, TypeOK, CallsBorrow, InFlight, TasksAgree
  <2> QED BY <2>2, <2>3, <2>4, QuietKeeps
<1>13. ASSUME NEW c \in Calls, Abandon(c) PROVE AgentInv'
  <2>1. TypeOK' /\ CallsBorrow' /\ TasksAgree'
    BY ZenonT(40), <1>13 DEF Abandon, history, AgentInv, TypeOK, CallsBorrow, InFlight,
                 TasksAgree
  <2> QED BY <1>13, <2>1, QuietKeeps DEF Abandon
<1>14. CASE BeginShutdown \/ DropHandle
  <2>1. /\ super = "holding" /\ InFlight = {} /\ super' \in {"stopping", "dropped"}
        /\ UNCHANGED <<taskVars, callVars, timeout, reported, history>>
    BY <1>14 DEF BeginShutdown, DropHandle
  <2>2. TypeOK' /\ CallsBorrow' /\ TasksAgree'
    BY ZenonT(40), <2>1 DEF history, AgentInv, TypeOK, CallsBorrow, InFlight, TasksAgree
  <2> QED BY <2>1, <2>2, QuietKeeps
<1>15. CASE SendShutdown
  BY <1>15, SendShutdownKeeps
<1>16. CASE Join
  <2>1. TypeOK' /\ CallsBorrow' /\ TasksAgree'
    BY <1>16 DEF Join, history, AgentInv, TypeOK, CallsBorrow, InFlight, TasksAgree
  <2> QED BY <1>16, <2>1, QuietKeeps DEF Join
<1>17. CASE UNCHANGED vars
  <2>1. TypeOK'
    BY ZenonT(40), <1>17 DEF vars, AgentInv, TypeOK
  <2>2. CallsBorrow' /\ TasksAgree'
    BY <1>17 DEF vars, AgentInv, CallsBorrow, InFlight, TasksAgree
  <2> QED BY <1>17, <2>1, <2>2, QuietKeeps DEF vars
<1> QED
  BY <1>1, <1>2, <1>3, <1>4, <1>5, <1>6, <1>7, <1>8, <1>9, <1>10, <1>11, <1>12,
     <1>13, <1>14, <1>15, <1>16, <1>17 DEF Next, PumpStep, CallStep

(* Agent::spawn: the two tasks, the channel and the callers are well typed. *)
THEOREM AgentTypes == Spec => []TypeOK
<1>1. Init => AgentInv
  BY AgentInit
<1>2. AgentInv /\ [Next]_vars => AgentInv'
  BY AgentStepKeeps
<1>3. AgentInv => TypeOK
  BY DEF AgentInv
<1> QED BY <1>1, <1>2, <1>3, PTL DEF Spec

(* A pump told to stop - by a Shutdown, or by the last sender going away - *)
(* has nothing left to run.                                                *)
LEMMA StopsWithNothingLeft ==
    ASSUME AgentInv, PumpStop
    PROVE  started = accepted
<1> USE DEF AgentInv, PumpStop, StopRequested
<1>1. accepted = started \o Waiting
  BY DEF CallsStartInOrder
<1>2. started \in Seq(Calls) /\ channel \in Seq(Calls \union {Shutdown})
  BY DEF TypeOK
<1>3. Waiting = <<>>
  <2>1. CASE channel = <<>>
    BY <2>1 DEF Waiting
  <2>2. CASE channel # <<>> /\ Head(channel) = Shutdown
    <3>1. 1 \in DOMAIN channel /\ channel[1] = Shutdown
      BY <1>2, <2>2
    <3>2. Len(channel) = 1
      BY <3>1 DEF ShutdownLast
    <3>3. Front(channel) = <<>> /\ Last(channel) = Shutdown
      BY <1>2, <3>1, <3>2 DEF Front, Last
    <3> QED BY <2>2, <3>3 DEF Waiting
  <2> QED BY <2>1, <2>2
<1> QED BY <1>1, <1>2, <1>3, ConcatEmptySeq

(* The message pump starts calls in the order of the channel, each once,   *)
(* and a shutdown runs every call that was accepted before it.             *)
THEOREM ShutdownIsGraceful == Spec => GracefulStop
<1>1. Init => AgentInv
  BY AgentInit
<1>2. AgentInv /\ [Next]_vars => AgentInv'
  BY AgentStepKeeps
<1>3. AgentInv => CallsStartInOrder
  BY DEF AgentInv
<1>4. AgentInv /\ [Next]_vars => [PumpStop => started = accepted]_vars
  BY StopsWithNothingLeft
<1> QED BY <1>1, <1>2, <1>3, <1>4, PTL DEF Spec, GracefulStop

(* A status other than timed_out that shutdown() reports is the status the *)
(* inner task ended with; no call it accepted is owed a reply.             *)
THEOREM ReportsAreFinal == Spec => []ReportedIsFinal
<1>1. Init => AgentInv
  BY AgentInit
<1>2. AgentInv /\ [Next]_vars => AgentInv'
  BY AgentStepKeeps
<1>3. AgentInv => ReportedIsFinal
  <2> SUFFICES ASSUME AgentInv, reported \in {"completed", "failed"}
               PROVE  /\ pump = "ended" /\ status = reported
                      /\ \A c \in ToSet(accepted) : reply[c] # "empty"
    BY DEF ReportedIsFinal
  <2>1. status = reported
    BY DEF AgentInv, TasksAgree
  <2>2. pump = "ended" /\ channel = <<>> /\ current = NoCall
    BY <2>1 DEF AgentInv, PumpHolds
  <2>3. ToSet(channel) = {}
    BY <2>2 DEF ToSet
  <2>4. ToSet(accepted) \subseteq Calls
    BY ItemsOfSeq DEF AgentInv, TypeOK
  <2> QED BY <2>1, <2>2, <2>3, <2>4, DistinctMessages DEF AgentInv, RepliesOwed
<1> QED BY <1>1, <1>2, <1>3, PTL DEF Spec

=============================================================================
