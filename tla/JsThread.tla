------------------------------- MODULE JsThread -------------------------------
(***************************************************************************)
(* runtime/src/ffi/engine.rs: JscEngine.  One OS thread owns the           *)
(* JscContext and runs closures it receives over a bounded channel;        *)
(* dispatch() sends a closure with a one-shot reply channel and awaits the *)
(* reply.  eval, eval_module, register_native, call_function,              *)
(* resolve_promise, reject_promise and snapshot_heap are all dispatch()    *)
(* with a closure of their own.                                            *)
(*                                                                         *)
(* The channel is Tokio's mpsc: senders that find it full wait in FIFO     *)
(* order, and dropping the receiver drops what is queued.                  *)
(***************************************************************************)
EXTENDS Naturals, Sequences, SequencesExt

CONSTANTS
    Calls,           \* the dispatch() calls made in a run
    Capacity,        \* capacity of the channel (256)
    NoCall           \* no call

ASSUME CapacityPositive == Capacity \in Nat \ {0}
ASSUME NoCallIsNone == NoCall \notin Calls

VARIABLES
    thread,          \* what the JS thread is doing
    current,         \* the call whose closure it holds, or NoCall
    queue,           \* the channel's buffer
    waiters,         \* callers waiting in send(), in order
    caller,          \* caller[c]: where the dispatch() of c is
    reply,           \* reply[c]: the one-shot channel of c
    answer,          \* answer[c]: what dispatch() returned
    handles,         \* is some clone of the JscEngine left?
    accepted,        \* history: calls put in the channel, in order
    ran              \* history: calls whose closure returned, in order

vars == <<thread, current, queue, waiters, caller, reply, answer, handles,
          accepted, ran>>

Threads == {"starting", "receiving", "working", "replying", "exited", "crashed"}

Answers == {"result", "channel closed", "reply dropped"}

Gone == {"exited", "crashed"}

Init ==
    /\ thread = "starting"
    /\ current = NoCall
    /\ queue = <<>> /\ waiters = <<>>
    /\ caller = [c \in Calls |-> "idle"]
    /\ reply = [c \in Calls |-> "empty"]
    /\ answer = [c \in Calls |-> "none"]
    /\ handles = TRUE
    /\ accepted = <<>> /\ ran = <<>>

-----------------------------------------------------------------------------
(* dispatch(), on a Tokio worker.                                          *)

(* When send() puts an item in the buffer without waiting.                 *)
Room == waiters = <<>> /\ Len(queue) < Capacity

Accept(c) ==
    /\ queue' = Append(queue, c)
    /\ accepted' = Append(accepted, c)
    /\ caller' = [caller EXCEPT ![c] = "awaiting"]

(* send() returns at once.                                                 *)
Send(c) ==
    /\ caller[c] = "idle" /\ handles
    /\ thread \notin Gone
    /\ Room
    /\ Accept(c)
    /\ UNCHANGED <<thread, current, waiters, reply, answer, handles, ran>>

(* send() finds the channel full: backpressure.                            *)
SendWaits(c) ==
    /\ caller[c] = "idle" /\ handles
    /\ thread \notin Gone
    /\ ~Room
    /\ waiters' = Append(waiters, c)
    /\ caller' = [caller EXCEPT ![c] = "sending"]
    /\ UNCHANGED <<thread, current, queue, reply, answer, handles, accepted, ran>>

(* The first waiter gets the slot the thread freed.                        *)
SendResumes ==
    /\ waiters # <<>> /\ Len(queue) < Capacity
    /\ thread \notin Gone
    /\ Accept(Head(waiters))
    /\ waiters' = Tail(waiters)
    /\ UNCHANGED <<thread, current, reply, answer, handles, ran>>

Answered(c, a) ==
    /\ answer' = [answer EXCEPT ![c] = a]
    /\ caller' = [caller EXCEPT ![c] = "returned"]

(* send() fails because the receiver is gone.                              *)
SendFails(c) ==
    /\ caller[c] \in {"idle", "sending"} /\ handles
    /\ thread \in Gone
    /\ Answered(c, "channel closed")
    /\ waiters' = RemoveFirst(waiters, c)
    /\ UNCHANGED <<thread, current, queue, reply, handles, accepted, ran>>

(* reply_rx yields what the thread sent, or that its sender was dropped.   *)
ReplyArrives(c) ==
    /\ caller[c] = "awaiting"
    /\ \/ reply[c] = "filled" /\ Answered(c, "result")
       \/ reply[c] = "dropped" /\ Answered(c, "reply dropped")
    /\ UNCHANGED <<thread, current, queue, waiters, reply, handles, accepted, ran>>

(* The caller's future is dropped (a timeout, a lost select!): a call still *)
(* in send() is withdrawn, a call already in the channel is not.           *)
WithdrawsNothing(c) == waiters               \* faulty: leaves the waiter
Withdraw(c) == RemoveFirst(waiters, c)

Abandon(c) ==
    /\ caller[c] \in {"sending", "awaiting"}
    /\ caller' = [caller EXCEPT ![c] = "abandoned"]
    /\ waiters' = Withdraw(c)
    /\ UNCHANGED <<thread, current, queue, reply, answer, handles, accepted, ran>>

(* The last JscEngine clone is dropped; dispatch(&self) borrows one.       *)
DropHandles ==
    /\ handles
    /\ \A c \in Calls : caller[c] \notin {"sending", "awaiting"}
    /\ handles' = FALSE
    /\ UNCHANGED <<thread, current, queue, waiters, caller, reply, answer,
                   accepted, ran>>

-----------------------------------------------------------------------------
(* The JS thread.                                                          *)

(* The thread returns or unwinds: the receiver is dropped, with the items  *)
(* in the buffer and the item at hand, and so are their reply senders.     *)
DropNone == {}                               \* faulty: items are leaked
DropHeld == ToSet(queue) \union (IF current = NoCall THEN {} ELSE {current})

GoAway(how) ==
    /\ thread' = how
    /\ reply' = [c \in Calls |-> IF c \in DropHeld THEN "dropped" ELSE reply[c]]
    /\ queue' = <<>>
    /\ current' = NoCall

(* JscContext::new, which may fail.                                        *)
StartContext ==
    /\ thread = "starting"
    /\ \/ thread' = "receiving" /\ UNCHANGED <<current, queue, reply>>
       \/ GoAway("crashed")
    /\ UNCHANGED <<waiters, caller, answer, handles, accepted, ran>>

(* blocking_recv returns an item.                                          *)
LastOf(q) == Len(q)                          \* faulty: a stack
Taken(q)  == 1

Receive ==
    /\ thread = "receiving"
    /\ queue # <<>>
    /\ current' = queue[Taken(queue)]
    /\ queue' = RemoveAt(queue, Taken(queue))
    /\ thread' = "working"
    /\ UNCHANGED <<waiters, caller, reply, answer, handles, accepted, ran>>

(* blocking_recv returns None: no sender is left and the buffer is empty.  *)
ExitsEagerly == ~handles                     \* faulty: leaves the buffer
Disconnected == ~handles /\ queue = <<>>

Exit ==
    /\ thread = "receiving"
    /\ Disconnected
    /\ GoAway("exited")
    /\ UNCHANGED <<waiters, caller, answer, handles, accepted, ran>>

(* (item.work)(&mut ctx) returns; the microtasks it queued are drained.    *)
Work ==
    /\ thread = "working"
    /\ ran' = Append(ran, current)
    /\ thread' = "replying"
    /\ UNCHANGED <<current, queue, waiters, caller, reply, answer, handles,
                   accepted>>

(* The closure panics and unwinds the thread.                              *)
WorkPanics ==
    /\ thread = "working"
    /\ GoAway("crashed")
    /\ UNCHANGED <<waiters, caller, answer, handles, accepted, ran>>

(* item.reply.send(result); the error of a caller that left is ignored.    *)
Reply ==
    /\ thread = "replying"
    /\ reply' = [reply EXCEPT ![current] = "filled"]
    /\ current' = NoCall
    /\ thread' = "receiving"
    /\ UNCHANGED <<queue, waiters, caller, answer, handles, accepted, ran>>

-----------------------------------------------------------------------------
ThreadStep == StartContext \/ Receive \/ Exit \/ Work \/ WorkPanics \/ Reply

CallerStep(c) == Send(c) \/ SendWaits(c) \/ SendFails(c) \/ ReplyArrives(c)

Next ==
    \/ ThreadStep
    \/ SendResumes
    \/ DropHandles
    \/ \E c \in Calls : CallerStep(c) \/ Abandon(c)

(* The OS runs the thread (closures are assumed to return or to panic) and *)
(* Tokio polls every dispatch() that can go on.                            *)
Fairness ==
    /\ WF_vars(ThreadStep)
    /\ WF_vars(SendResumes)
    /\ \A c \in Calls : WF_vars(SendFails(c)) /\ WF_vars(ReplyArrives(c))

SafeSpec == Init /\ [][Next]_vars

Spec == SafeSpec /\ Fairness

-----------------------------------------------------------------------------
(* Type correctness of the thread, the channel and the calls.              *)
TypeOK ==
    /\ thread \in Threads
    /\ current \in Calls \union {NoCall}
    /\ queue \in Seq(Calls) /\ Len(queue) <= Capacity
    /\ waiters \in Seq(Calls)
    /\ caller \in [Calls -> {"idle", "sending", "awaiting", "returned",
                             "abandoned"}]
    /\ reply \in [Calls -> {"empty", "filled", "dropped"}]
    /\ answer \in [Calls -> Answers \union {"none"}]
    /\ handles \in BOOLEAN
    /\ accepted \in Seq(Calls)
    /\ ran \in Seq(Calls)

(* A caller that gave up while it waited for room leaves nothing behind:   *)
(* its closure never runs, then or later, so that it may safely retry.     *)
WithdrawnNeverRuns ==
    [][\A c \in Calls :
          caller[c] = "abandoned" /\ c \notin ToSet(accepted) =>
              c \notin ToSet(accepted')]_vars

(* Until the thread is gone, what was accepted is what ran, the item at    *)
(* hand and the buffer, in this order: no call is lost, run twice or       *)
(* overtaken.  When the last handle is dropped the thread first runs       *)
(* everything that is still there, calls whose caller gave up included.    *)
InHand == IF thread = "working" THEN <<current>> ELSE <<>>

GracefulExit ==
    /\ thread \notin Gone => accepted = ran \o InHand \o queue
    /\ thread = "exited" => ran = accepted

(* A caller that does not give up gets an answer, whatever the thread does *)
(* - fail to create its context, panic in another caller's closure, exit.  *)
EveryCallAnswered ==
    \A c \in Calls :
        caller[c] \in {"sending", "awaiting"} ~>
            caller[c] \in {"returned", "abandoned"}

(* JscEngine implements the service of JsService.                          *)
Service == INSTANCE JsService

ImplementsService == Service!Spec

=============================================================================
