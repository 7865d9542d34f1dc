------------------------------ MODULE JsPromise ------------------------------
(***************************************************************************)
(* runtime/src/promise/future.rs: a JsPromiseFuture awaited by a Tokio     *)
(* task, and the clones of its JsPromiseResolver, through which the JS     *)
(* side settles it.  Every operation holds the mutex of FutureState, so    *)
(* each is one step.  The future may be handed to another task, which then *)
(* polls it with a waker of its own.                                       *)
(***************************************************************************)
EXTENDS Naturals

CONSTANTS
    Resolvers,       \* clones of the resolver; each settles at most once
    Owners,          \* how many tasks come to own the future, one after another
    None             \* no result, no waker

Tasks == 1 .. Owners

ASSUME OwnersPositive == Owners \in Nat \ {0}
ASSUME NoneIsNone == None \notin Resolvers \union Tasks

VARIABLES
    result,          \* FutureState.result: the resolver whose outcome it is
    waker,           \* FutureState.waker: the task it wakes
    owner,           \* the task that awaits the future
    scheduled,       \* tasks the executor is going to poll
    settled,         \* history: resolvers that called complete() or fail()
    output           \* what poll() returned: a resolver's outcome

promiseVars == <<result, waker, owner, scheduled, settled, output>>

PromiseInit ==
    /\ result = None
    /\ waker = None
    /\ owner = 1
    /\ scheduled = {1}
    /\ settled = {}
    /\ output = None

(* The tasks woken by taking the stored waker.                             *)
WakesNobody    == {}                         \* faulty: the waker is not used
Woken == IF waker = None THEN {} ELSE {waker}

(* complete(value) or fail(ex): which of the two is the outcome's content. *)
Settle(r) ==
    /\ r \notin settled
    /\ settled' = settled \union {r}
    /\ result' = r
    /\ waker' = None
    /\ scheduled' = scheduled \union Woken
    /\ UNCHANGED <<owner, output>>

(* The waker a pending poll leaves behind.                                 *)
KeepsFirst(t) == IF waker = None THEN t ELSE waker  \* faulty: not replaced
Registered(t) == t

(* poll(), by the task that owns the future.                               *)
Poll(t) ==
    /\ t = owner /\ t \in scheduled /\ output = None
    /\ scheduled' = scheduled \ {t}
    /\ \/ /\ result # None
          /\ output' = result
          /\ result' = None
          /\ UNCHANGED waker
       \/ /\ result = None
          /\ waker' = Registered(t)
          /\ UNCHANGED <<result, output>>
    /\ UNCHANGED <<owner, settled>>

(* A task that no longer owns the future is polled for nothing, and the    *)
(* executor may poll a task without a wake-up (the other arm of a select). *)
PollElsewhere(t) ==
    /\ t # owner /\ t \in scheduled
    /\ scheduled' = scheduled \ {t}
    /\ UNCHANGED <<result, waker, owner, settled, output>>

WakeSpuriously(t) ==
    /\ t \notin scheduled
    /\ scheduled' = scheduled \union {t}
    /\ UNCHANGED <<result, waker, owner, settled, output>>

(* The future is moved into another task, which starts by polling it.      *)
Move ==
    /\ owner < Owners /\ output = None
    /\ owner' = owner + 1
    /\ scheduled' = scheduled \union {owner + 1}
    /\ UNCHANGED <<result, waker, settled, output>>

PromiseNext ==
    \/ \E r \in Resolvers : Settle(r)
    \/ \E t \in Tasks : Poll(t) \/ PollElsewhere(t) \/ WakeSpuriously(t)
    \/ Move

(* Tokio polls a task that is scheduled.                                   *)
PromiseFairness == \A t \in Tasks : WF_promiseVars(Poll(t))

PromiseSpec == PromiseInit /\ [][PromiseNext]_promiseVars /\ PromiseFairness

-----------------------------------------------------------------------------
(* No wake-up is lost, even when the future moved to another task between  *)
(* two polls: an owner that waits unscheduled has its own waker stored and *)
(* nothing is ready for it.                                                *)
NoLostWakeup ==
    output = None /\ owner \notin scheduled => result = None /\ waker = owner

(* Once some resolver settled it, the future yields, whatever owns it.     *)
SettledYields == settled # {} ~> output # None

=============================================================================
