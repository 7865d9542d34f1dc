---------------------------- MODULE PromiseBridge ----------------------------
(***************************************************************************)
(* runtime/src/promise/{bridge,queue}.rs: PromiseBridge::spawn_task starts *)
(* one Tokio task per JS promise; the task posts its outcome to the        *)
(* ResolutionQueue, and the JS side is to drain the queue between evals    *)
(* and to settle each promise through resolve_promise, which may fail.     *)
(* Nothing in the repository drains the queue: Drain and Deliver are what  *)
(* the documentation of drain_resolutions asks of its caller.              *)
(*                                                                         *)
(* Every statement another thread can observe is a step of its own: the    *)
(* queue push (under its lock), the counter update made after the unlock,  *)
(* and the removal of the pending entry.  The futures' values are reduced  *)
(* to which of resolve and reject they lead to.                            *)
(***************************************************************************)
EXTENDS Naturals, Sequences, FiniteSets

CONSTANT Promises    \* the promises created in a run

ASSUME PromisesFinite == IsFiniteSet(Promises)

VARIABLES
    stage,           \* stage[p]: how far spawn_task and the task of p are
    future,          \* future[p]: what the future of p returned
    pending,         \* PromiseBridge.pending
    promise_count,   \* PromiseBridge.promise_count
    queue,           \* QueueInner.queue
    total_enqueued,  \* QueueInner.total_enqueued
    total_drained,   \* QueueInner.total_drained
    batch,           \* resolutions drained and not yet delivered
    settled,         \* settled[p]: the state of the JS promise
    failed,          \* history: the promises whose delivery returned an error
    released,        \* released[p]: the thread that dropped the last handle
    pushed,          \* history: every resolution pushed, in order
    delivered        \* history: every resolution delivered, in order

queueVars == <<queue, total_enqueued, total_drained, pushed>>
jsVars    == <<batch, settled, delivered, failed>>
vars      == <<stage, future, pending, promise_count, queueVars, jsVars,
               released>>

Results == {"resolve", "reject"}

Resolution == [handle : Promises, result : Results]

Stages == {"new", "counted", "tracked", "running", "ready", "queued",
           "tallied", "done", "panicked"}

InStage(s) == {p \in Promises : stage[p] = s}

HandlesIn(s) == {s[i].handle : i \in DOMAIN s}

Init ==
    /\ stage = [p \in Promises |-> "new"]
    /\ future = [p \in Promises |-> "none"]
    /\ pending = {}
    /\ promise_count = 0
    /\ queue = <<>> /\ total_enqueued = 0 /\ total_drained = 0
    /\ batch = <<>> /\ pushed = <<>> /\ delivered = <<>>
    /\ settled = [p \in Promises |-> "pending"] /\ failed = {}
    /\ released = [p \in Promises |-> "no"]

Advance(p, from, to) ==
    /\ stage[p] = from
    /\ stage' = [stage EXCEPT ![p] = to]

-----------------------------------------------------------------------------
(* spawn_task, on the thread that created the promise.                     *)

Register(p) ==
    /\ Advance(p, "new", "counted")
    /\ promise_count' = promise_count + 1
    /\ UNCHANGED <<future, pending, queueVars, jsVars, released>>

Track(p) ==
    /\ Advance(p, "counted", "tracked")
    /\ pending' = pending \union {p}
    /\ UNCHANGED <<future, promise_count, queueVars, jsVars, released>>

Start(p) ==
    /\ Advance(p, "tracked", "running")
    /\ UNCHANGED <<future, pending, promise_count, queueVars, jsVars, released>>

-----------------------------------------------------------------------------
(* The spawned task, on a Tokio worker.                                    *)

(* The future returns and its outcome is wrapped with the promise's handle. *)
Complete(p, result) ==
    /\ Advance(p, "running", "ready")
    /\ future' = [future EXCEPT ![p] = result]
    /\ UNCHANGED <<pending, promise_count, queueVars, jsVars, released>>

(* The future panics: Tokio ends the task, nothing below it runs.  The     *)
(* entry of the pending map still holds the handle.                        *)
Panic(p) ==
    /\ Advance(p, "running", "panicked")
    /\ UNCHANGED <<future, pending, promise_count, queueVars, jsVars, released>>

(* Where push_back puts a resolution.                                      *)
EnqueueFront(q, r) == <<r>> \o q     \* faulty: push_front
Enqueue(q, r) == Append(q, r)

(* A task that stops at an error result.                                   *)
PushesOnlyOk(p) == future[p] = "resolve"     \* faulty: the Err arm returns
Pushes(p) == future[p] \in Results

(* Ok(value) becomes a resolve, Err(error) a reject.                       *)
OutcomeOf(p) == future[p]

(* ResolutionQueue::push, the part under the lock.                         *)
Push(p) ==
    LET r == [handle |-> p, result |-> OutcomeOf(p)]
    IN  /\ Advance(p, "ready", "queued")
        /\ Pushes(p)
        /\ queue' = Enqueue(queue, r)
        /\ pushed' = Append(pushed, r)
        /\ UNCHANGED <<future, pending, promise_count, total_enqueued,
                       total_drained, jsVars, released>>

(* ResolutionQueue::push, after the lock was released.                     *)
Tally(p) ==
    /\ Advance(p, "queued", "tallied")
    /\ total_enqueued' = total_enqueued + 1
    /\ UNCHANGED <<future, pending, promise_count, queue, total_drained,
                   pushed, jsVars, released>>

(* The stage a task must have reached to drop its entry.                   *)
RemovableEarly(p) == stage[p] = "ready"   \* faulty: remove, then push
Removable(p) == stage[p] = "tallied"

(* Who still holds a clone of the handle of p, the pending map apart.      *)
ResolutionHolds(p) == p \in HandlesIn(queue) \union HandlesIn(batch)

(* pending_map.remove; drops the last handle when p was already delivered. *)
RemovePending(p) ==
    /\ Removable(p)
    /\ stage' = [stage EXCEPT ![p] = "done"]
    /\ pending' = pending \ {p}
    /\ released' = [released EXCEPT ![p] =
                       IF ResolutionHolds(p) THEN @ ELSE "tokio"]
    /\ UNCHANGED <<future, promise_count, queueVars, jsVars>>

-----------------------------------------------------------------------------
(* The JS side.                                                            *)

(* drain(..) leaves nothing in the queue.                                  *)
Remaining(q) == <<>>

CountOne(q) == 1                     \* faulty: counts drains
CountOf(q) == Len(q)

(* ResolutionQueue::drain: all of it under the lock.  The JS side delivers *)
(* one batch before it drains the next.                                    *)
Drain ==
    /\ batch = <<>>
    /\ queue # <<>>
    /\ batch' = queue
    /\ queue' = Remaining(queue)
    /\ total_drained' = total_drained + CountOf(queue)
    /\ UNCHANGED <<stage, future, pending, promise_count, total_enqueued,
                   pushed, settled, failed, delivered, released>>

(* What resolve_promise / reject_promise answers: "error" when the context *)
(* is poisoned or the call throws, "gone" when dispatch() finds no JS      *)
(* thread.                                                                 *)
Answers == {"ok", "error", "gone"}

Settle(p, result, answer) ==
    /\ settled' = [settled EXCEPT ![p] =
                      IF answer = "ok" /\ @ = "pending" THEN result ELSE @]
    /\ failed' = IF answer = "ok" THEN failed ELSE failed \union {p}

(* The oldest resolution of the batch is handed over and its handle is     *)
(* dropped, by the JS thread or, without one, by who drains.  A promise    *)
(* that is settled ignores a second call (ECMAScript); one whose call      *)
(* failed stays as it is, and its resolution is gone.                      *)
HandOver(answer) ==
    /\ batch # <<>>
    /\ LET r == Head(batch)
           p == r.handle
       IN  /\ batch' = Tail(batch)
           /\ delivered' = Append(delivered, r)
           /\ Settle(p, r.result, answer)
           /\ released' = [released EXCEPT ![p] =
                              IF p \in pending \/ p \in HandlesIn(queue) THEN @
                              ELSE IF answer = "gone" THEN "drainer" ELSE "js"]
    /\ UNCHANGED <<stage, future, pending, promise_count, queueVars>>

Deliver == \E answer \in Answers : HandOver(answer)

-----------------------------------------------------------------------------
TaskStep(p) ==
    \/ Push(p)
    \/ Tally(p)
    \/ RemovePending(p)

Next ==
    \/ \E p \in Promises :
          \/ Register(p)
          \/ Track(p)
          \/ Start(p)
          \/ \E result \in Results : Complete(p, result)
          \/ Panic(p)
          \/ TaskStep(p)
    \/ Drain
    \/ Deliver

SafeSpec == Init /\ [][Next]_vars

(* Tokio runs a task whose future is ready.  Nothing makes a future        *)
(* complete.                                                               *)
Fairness == \A p \in Promises : WF_vars(TaskStep(p))

(* What is asked of the caller of drain_resolutions(), which the           *)
(* repository does not have: to come back, and to deliver what it took.    *)
DrainerComesBack == WF_vars(Drain) /\ WF_vars(Deliver)

Spec == SafeSpec /\ Fairness /\ DrainerComesBack

-----------------------------------------------------------------------------
(* Type correctness of the bridge, the queue and the JS side.              *)
TypeOK ==
    /\ stage \in [Promises -> Stages]
    /\ future \in [Promises -> Results \union {"none"}]
    /\ pending \subseteq Promises
    /\ promise_count \in Nat
    /\ queue \in Seq(Resolution)
    /\ total_enqueued \in Nat
    /\ total_drained \in Nat
    /\ batch \in Seq(Resolution)
    /\ pushed \in Seq(Resolution)
    /\ delivered \in Seq(Resolution)
    /\ settled \in [Promises -> Results \union {"pending"}]
    /\ failed \subseteq Promises
    /\ released \in [Promises -> {"no", "js", "drainer", "tokio"}]

(* Nothing pushed is lost, duplicated or overtaken: what was pushed is what *)
(* was delivered, then what a drain took, then what the queue holds,       *)
(* whatever pushes fall between a drain and its deliveries.                *)
Conservation == pushed = delivered \o batch \o queue

(* A resolution leaves the queue for one delivery only: no promise occurs  *)
(* twice among all resolutions ever delivered, drained or queued.          *)
NoDuplicate ==
    LET all == delivered \o batch \o queue
    IN  \A i, j \in DOMAIN all : all[i].handle = all[j].handle => i = j

(* The two queue counters account for the queue at every instant, although *)
(* push bumps total_enqueued after it released the lock: they differ from  *)
(* the length by exactly the pushes caught between the two statements.     *)
CountersAccount ==
    total_enqueued + Cardinality(InStage("queued")) = total_drained + Len(queue)

(* An idle test that reads pending_count() and then has_ready_resolutions() *)
(* is sound: once spawn_task inserted the entry of p, the entry disappears *)
(* only when the outcome of p is in the queue or beyond it.                *)
IdleTestSound ==
    \A p \in Promises :
        p \notin pending /\ stage[p] \notin {"new", "counted"} =>
            p \in HandlesIn(queue) \union HandlesIn(batch)
                  \union HandlesIn(delivered)

(* A promise settles the way its own future ended, and never changes after. *)
SettledAsComputed ==
    [][\A p \in Promises :
          settled'[p] # settled[p] =>
              settled[p] = "pending" /\ settled'[p] = future[p]]_vars

(* A future that returned settles its promise the way it ended, or the one *)
(* delivery of its outcome failed, if someone keeps draining.  (A future   *)
(* that panics leaves its promise pending for ever, and so does a delivery *)
(* that fails: nobody tries it again.)                                     *)
OutcomeReachesJs ==
    \A p \in Promises :
        stage[p] = "ready" ~> settled[p] = future[p] \/ p \in failed

(* The bridge implements the channel of ResolutionChannel.                 *)
Channel == INSTANCE ResolutionChannel WITH accepted <- pushed

ImplementsChannel == Channel!Spec

(* docs/ARCHITECTURE.md, "JSC contexts are not thread-safe. Each agent     *)
(* runs JSC on a dedicated thread": the last handle of a promise, whose    *)
(* drop unprotects JS values, goes away on the JS thread.  (Once there is  *)
(* no such thread, whoever drains drops it; that is not counted.)          *)
ReleasedOnJsThread == \A p \in Promises : released[p] # "tokio"

=============================================================================
