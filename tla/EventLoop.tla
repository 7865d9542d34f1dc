------------------------------- MODULE EventLoop -------------------------------
(***************************************************************************)
(* runtime/src/event_loop.rs: the loop that multiplexes timers and a       *)
(* bounded channel of tasks.  The loop owns a sender of the channel it     *)
(* receives from, and fires a timer by sending itself a Timer task; run()  *)
(* borrows the loop exclusively, so timers are set and cleared before it.  *)
(*                                                                         *)
(* A deadline is the number of ticks until it; a passed one stays at 0.    *)
(***************************************************************************)
EXTENDS Naturals, Sequences

CONSTANTS
    Delay,           \* Delay[t]: the delay, or the period, of timer t
    Posts,           \* the tasks other threads send, each once
    Wake, Shutdown,  \* those of them that are Microtask and Shutdown
    Capacity,        \* capacity of the channel (1024)
    Longest          \* bound: no delay is longer; elapsed stops there

Timers == DOMAIN Delay

ASSUME DelaysAreTicks ==
    Timers \subseteq Nat /\ Delay \in [Timers -> Nat]
ASSUME LongestBounds ==
    Longest \in Nat /\ \A t \in Timers : Delay[t] <= Longest
ASSUME PostsAreNoTimers ==
    {Wake, Shutdown} \subseteq Posts /\ Posts \intersect Timers = {}
ASSUME CapacityPositive == Capacity \in Nat \ {0}

VARIABLES
    loop,            \* where run() is
    intervals,       \* the timers made by set_interval
    due,             \* due[t]: ticks until the deadline of t
    active,          \* timers not cleared and not done
    channel,         \* the tasks sent and not received
    expired,         \* what fire_expired_timers() has still to fire
    elapsed,         \* ticks since it looked at the clock
    posted,          \* history: tasks sent by other threads
    cleared,         \* history: timers cleared before run()
    fired            \* history: fired[t]: Timer tasks sent for t, up to 2

timerVars == <<due, active, expired, elapsed, fired>>
state     == <<loop, timerVars, channel, posted, cleared>>
vars      == <<intervals, state>>

(* set_timeout, set_interval and clear_timer, before run().                *)
Init ==
    /\ loop = "top"
    /\ intervals \in SUBSET Timers
    /\ due = Delay
    /\ cleared \in SUBSET Timers
    /\ active = Timers \ cleared
    /\ channel = <<>>
    /\ expired = {} /\ elapsed = 0
    /\ posted = {}
    /\ fired = [t \in Timers |-> 0]

Expired == {t \in active : due[t] = 0}

HasRoom == Len(channel) < Capacity

-----------------------------------------------------------------------------
(* The world.                                                              *)

Tick ==
    /\ due' = [t \in Timers |-> IF due[t] = 0 THEN 0 ELSE due[t] - 1]
    /\ elapsed' = IF loop = "firing" /\ elapsed < Longest THEN elapsed + 1
                  ELSE elapsed
    /\ UNCHANGED <<loop, active, expired, fired, channel, posted, cleared>>

Post(m) ==
    /\ m \notin posted
    /\ loop # "stopped" /\ HasRoom
    /\ posted' = posted \union {m}
    /\ channel' = Append(channel, m)
    /\ UNCHANGED <<loop, timerVars, cleared>>

-----------------------------------------------------------------------------
(* run().                                                                  *)

(* A deadline has passed: the loop fires timers without looking at rx.     *)
TopExpired ==
    /\ loop = "top" /\ Expired # {}
    /\ loop' = "microtask"
    /\ UNCHANGED <<timerVars, channel, posted, cleared>>

TopWaits ==
    /\ loop = "top" /\ Expired = {}
    /\ loop' = "waiting"
    /\ UNCHANGED <<timerVars, channel, posted, cleared>>

NoSleepArm == {}                             \* faulty: rx.recv() only
SleepsFor  == Expired

(* select!: sleep_until(deadline).                                         *)
SleepOver ==
    /\ loop = "waiting" /\ SleepsFor # {}
    /\ loop' = "microtask"
    /\ UNCHANGED <<timerVars, channel, posted, cleared>>

(* Which task ends the loop.                                               *)
StopsWhenIdle(m) == m = Shutdown /\ active = {}    \* faulty: waits for timers
Stops(m) == m = Shutdown

(* LoopTask::Timer: an interval is armed again, a timeout is done.         *)
HandleTimer(t) ==
    IF t \in active
    THEN IF t \in intervals
         THEN due' = [due EXCEPT ![t] = Delay[t]] /\ UNCHANGED active
         ELSE active' = active \ {t} /\ UNCHANGED due
    ELSE UNCHANGED <<due, active>>

(* rx.recv(), in select! or alone.  The loop's own sender keeps the        *)
(* channel open, so that recv() never returns None.                        *)
Receive ==
    /\ loop = "waiting" /\ channel # <<>>
    /\ channel' = Tail(channel)
    /\ LET m == Head(channel)
       IN  /\ IF m \in Timers THEN HandleTimer(m) ELSE UNCHANGED <<due, active>>
           /\ loop' = IF Stops(m) THEN "stopped"
                      ELSE IF m = Wake THEN "microtask" ELSE "top"
    /\ UNCHANGED <<expired, elapsed, fired, posted, cleared>>

(* fire_expired_timers: the clock is read once and the ids are collected.  *)
CollectExpired ==
    /\ loop = "microtask"
    /\ expired' = Expired
    /\ elapsed' = 0
    /\ loop' = "firing"
    /\ UNCHANGED <<due, active, fired, channel, posted, cleared>>

KeepsActive(t) == active                     \* faulty: stays armed
DoneWith(t)    == active \ {t}

(* For each id in its order: tx.send(Timer).await, which waits for room,   *)
(* then the next deadline, counted from the time read at the start.        *)
Fire(t) ==
    /\ loop = "firing" /\ HasRoom
    /\ t \in expired /\ \A u \in expired : t <= u
    /\ channel' = Append(channel, t)
    /\ fired' = [fired EXCEPT ![t] = IF @ < 2 THEN @ + 1 ELSE @]
    /\ IF t \in intervals
       THEN /\ due' = [due EXCEPT ![t] = IF elapsed < Delay[t]
                                         THEN Delay[t] - elapsed ELSE 0]
            /\ UNCHANGED active
       ELSE active' = DoneWith(t) /\ UNCHANGED due
    /\ expired' = expired \ {t}
    /\ UNCHANGED <<loop, elapsed, posted, cleared>>

FiredAll ==
    /\ loop = "firing" /\ expired = {}
    /\ loop' = "top"
    /\ UNCHANGED <<timerVars, channel, posted, cleared>>

-----------------------------------------------------------------------------
LoopStep ==
    \/ TopExpired \/ TopWaits
    \/ SleepOver \/ Receive
    \/ CollectExpired \/ FiredAll
    \/ \E t \in Timers : Fire(t)

Next ==
    /\ UNCHANGED intervals
    /\ Tick \/ LoopStep \/ \E m \in Posts : Post(m)

(* The executor polls the loop.  Nothing makes other threads send.         *)
Spec == Init /\ [][Next]_vars /\ WF_state(LoopStep)

-----------------------------------------------------------------------------
(* Type correctness of the loop, its timers and its channel.               *)
TypeOK ==
    /\ loop \in {"top", "waiting", "microtask", "firing", "stopped"}
    /\ intervals \subseteq Timers
    /\ due \in [Timers -> 0 .. Longest]
    /\ active \subseteq Timers
    /\ channel \in Seq(Timers \union Posts) /\ Len(channel) <= Capacity
    /\ expired \subseteq Timers
    /\ elapsed \in 0 .. Longest
    /\ posted \subseteq Posts
    /\ cleared \subseteq Timers
    /\ fired \in [Timers -> 0 .. 2]

(* A timer fires when its deadline has passed, whatever fired or was       *)
(* received in between: a timeout once, although the loop may pass the     *)
(* deadline several times before it comes to receive the Timer task, and a *)
(* timer that was cleared never.                                           *)
FiresWhenDue ==
    [][\A t \in Timers : fired'[t] # fired[t] =>
          /\ due[t] = 0
          /\ t \notin cleared
          /\ t \in intervals \/ fired[t] = 0]_vars

(* A timeout that is due fires, unless the loop is told to stop before.    *)
(* (An interval shorter than a turn of the loop is due for ever, and the   *)
(* loop never comes to receive anything.)                                  *)
DueTimerFires ==
    \A t \in Timers :
        intervals = {} /\ t \in active /\ due[t] = 0
            ~> fired[t] = 1 \/ loop = "stopped"

(* runtime/src/event_loop.rs:100, "Drive the event loop until shutdown":   *)
(* a Shutdown task that was sent ends a loop without intervals.            *)
ShutdownStops ==
    intervals = {} /\ Shutdown \in posted ~> loop = "stopped"

=============================================================================
