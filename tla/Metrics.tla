-------------------------------- MODULE Metrics --------------------------------
(***************************************************************************)
(* RuntimeMetrics and its histograms (runtime/src/metrics/mod.rs): every   *)
(* counter is an atomic of its own, incremented with Ordering::Relaxed, so *)
(* the increments of a call reach the counters one by one, in any order    *)
(* and mixed with those of other calls, whatever thread makes them.  One   *)
(* order is certain: if a call happens before another, its increment of a  *)
(* counter comes first in the modification order of that counter.          *)
(*                                                                         *)
(* An agent or a promise may begin on one thread and end on another, and   *)
(* no method checks what it ends.  That every end is of something begun,   *)
(* once, and happens after the beginning is what the callers owe: the      *)
(* command line, the only one in the repository, awaits the run between    *)
(* the two (cli/src/main.rs:214-221).                                      *)
(*                                                                         *)
(* The counters that no method increments (microtask_drains and those of   *)
(* the snapshots) are left out.                                            *)
(***************************************************************************)
EXTENDS Integers, Sequences, SequencesExt, FiniteSets

CONSTANTS
    Durations,    \* in microseconds
    MaxCalls      \* bound: calls of all threads together

ASSUME DurationsAreNat == Durations \subseteq Nat

VARIABLES
    landed,       \* landed[c]: what has reached counter c
    calls,        \* what each call adds, and the call that began what it
                  \* ends, 0 if it ends nothing
    due           \* <<n, c>>: the increment of c by call n is on its way

metricsVars == <<landed, calls, due>>

-----------------------------------------------------------------------------
(* BUCKET_BOUNDS_US; a duration goes to the first bound that is greater.   *)
Bounds  == <<100, 1000, 10000, 100000, 1000000>>
Buckets == <<"<100us", "<1ms", "<10ms", "<100ms", "<1s", ">=1s">>

Below(d, bound) == d < bound

Bucket(d) == CHOOSE k \in DOMAIN Buckets :
                 /\ k = Len(Buckets) \/ Below(d, Bounds[k])
                 /\ \A j \in 1 .. k - 1 : ~Below(d, Bounds[j])

Histograms == {"tool_latency", "module_load_latency", "eval_latency"}

CounterNames ==
    ({"agents"} \X {"started", "completed", "failed", "timed_out", "active"})
    \union ({"tools"} \X {"total", "failed"})
    \union ({"promises"} \X {"created", "resolved", "rejected", "pending"})
    \union ({"modules"} \X {"loaded", "cache_hits", "transpiled"})
    \union ({"eval"} \X {"calls"})
    \union ({"permissions"} \X {"allowed", "denied"})
    \union (Histograms \X ({"sum_us", "count"} \union ToSet(Buckets)))

(* The counters that go down again when what they count ends.              *)
Gauge == [agents |-> <<"agents", "active">>, promises |-> <<"promises", "pending">>]

(* RuntimeMetrics::new().                                                  *)
MetricsInit ==
    /\ landed = [c \in CounterNames |-> 0]
    /\ calls = <<>>
    /\ due = {}

-----------------------------------------------------------------------------
(* What each method adds to the counters; it adds to a counter once, so    *)
(* that the order of its statements is lost with that of the counters.     *)
Add(group, name, by) ==
    [c \in CounterNames |-> IF c = <<group, name>> THEN by ELSE 0]

Inc(group, name) == Add(group, name, 1)
Dec(group, name) == Add(group, name, -1)

f ++ g == [c \in CounterNames |-> f[c] + g[c]]

Nothing == [c \in CounterNames |-> 0]

Record(h, d) ==
    Add(h, "sum_us", d) ++ Inc(h, "count") ++ Inc(h, Buckets[Bucket(d)])

AgentStarted == Inc("agents", "started") ++ Inc("agents", "active")

(* faulty: agent_timed_out() leaves the agent active                       *)
StaysActive(how) ==
    Inc("agents", how)
        ++ (IF how = "timed_out" THEN Nothing ELSE Dec("agents", "active"))
AgentEnded(how)  == Inc("agents", how) ++ Dec("agents", "active")

PromiseCreated      == Inc("promises", "created") ++ Inc("promises", "pending")
PromiseSettled(how) == Inc("promises", how) ++ Dec("promises", "pending")

ToolCallCompleted(d) == Inc("tools", "total") ++ Record("tool_latency", d)

ModuleLoaded(hit, transpiled, d) ==
    Inc("modules", "loaded")
        ++ (IF hit THEN Inc("modules", "cache_hits") ELSE Nothing)
        ++ (IF transpiled THEN Inc("modules", "transpiled") ELSE Nothing)
        ++ Record("module_load_latency", d)

EvalCompleted(d) == Inc("eval", "calls") ++ Record("eval_latency", d)

PermissionChecked(result) == Inc("permissions", result)

-----------------------------------------------------------------------------
(* A call's increments set out; to add 0 to a counter changes nothing.     *)
Issue(gain, ends) ==
    /\ Len(calls) < MaxCalls
    /\ calls' = Append(calls, [gain |-> gain, ends |-> ends])
    /\ due' = due \union {<<Len(calls) + 1, c>> : c \in
                               {d \in CounterNames : gain[d] # 0}}
    /\ UNCHANGED landed

Counts(gain) == Issue(gain, 0)

(* On any thread, something that has begun and not ended ends.             *)
Ends(kind, gain) ==
    \E m \in DOMAIN calls :
        /\ calls[m].gain[Gauge[kind]] = 1
        /\ \A n \in DOMAIN calls : calls[n].ends # m
        /\ Issue(gain, m)

Method ==
    \/ Counts(AgentStarted)
    \/ \E how \in {"completed", "failed", "timed_out"} :
         Ends("agents", AgentEnded(how))
    \/ Counts(PromiseCreated)
    \/ \E how \in {"resolved", "rejected"} :
         Ends("promises", PromiseSettled(how))
    \/ \E d \in Durations :
         \/ Counts(ToolCallCompleted(d)) \/ Counts(EvalCompleted(d))
         \/ \E hit, transpiled \in BOOLEAN :
              Counts(ModuleLoaded(hit, transpiled, d))
    \/ Counts(Inc("tools", "failed"))
    \/ \E result \in {"allowed", "denied"} : Counts(PermissionChecked(result))

(* An increment reaches its counter: that of an end after that of its      *)
(* beginning, the others in any order (calls of one thread happen in       *)
(* order, but what they add commutes).                                     *)
Land(n, c) ==
    /\ <<n, c>> \in due /\ <<calls[n].ends, c>> \notin due
    /\ landed' = [landed EXCEPT ![c] = @ + calls[n].gain[c]]
    /\ due' = due \ {<<n, c>>}
    /\ UNCHANGED calls

MetricsNext ==
    Method \/ \E n \in DOMAIN calls, c \in CounterNames : Land(n, c)

MetricsSpec == MetricsInit /\ [][MetricsNext]_metricsVars

-----------------------------------------------------------------------------
(* to_json(): what is reported, the mean as the sum it is computed from.   *)
HistogramJson(h) ==
    [count |-> landed[<<h, "count">>], sum |-> landed[<<h, "sum_us">>],
     buckets |-> [k \in DOMAIN Buckets |-> landed[<<h, Buckets[k]>>]]]

ToJson ==
    [agents   |-> [n \in {"started", "completed", "failed", "timed_out",
                          "active"} |-> landed[<<"agents", n>>]],
     promises |-> [n \in {"created", "resolved", "rejected", "pending"} |->
                     landed[<<"promises", n>>]],
     loaded   |-> landed[<<"modules", "loaded">>],
     hits     |-> landed[<<"modules", "cache_hits">>],
     calls    |-> <<landed[<<"tools", "total">>], landed[<<"modules", "loaded">>],
                    landed[<<"eval", "calls">>]>>,
     latency  |-> <<HistogramJson("tool_latency"),
                    HistogramJson("module_load_latency"),
                    HistogramJson("eval_latency")>>]

(* The sum a histogram reports is one that its buckets allow.              *)
Least(b) == b[2] * Bounds[1] + b[3] * Bounds[2] + b[4] * Bounds[3]
                + b[5] * Bounds[4] + b[6] * Bounds[5]
Most(b)  == b[1] * (Bounds[1] - 1) + b[2] * (Bounds[2] - 1)
                + b[3] * (Bounds[3] - 1) + b[4] * (Bounds[4] - 1)
                + b[5] * (Bounds[5] - 1)

LatencyAddsUp(h, number) ==
    LET b == h.buckets
    IN  /\ h.count = number
        /\ b[1] + b[2] + b[3] + b[4] + b[5] + b[6] = h.count
        /\ Least(b) <= h.sum
        /\ b[6] = 0 => h.sum <= Most(b)

(* At no time are fewer than no agents active or promises pending, on      *)
(* whatever threads they begin and end and in whatever order the           *)
(* increments arrive.  Whenever none is on its way, a report adds up:      *)
(* active agents and pending promises are those begun and not ended, each  *)
(* histogram has every call it is about, once, and where its duration      *)
(* belongs.                                                                *)
ReportAddsUp ==
    LET r == ToJson
    IN  /\ r.agents.active >= 0 /\ r.promises.pending >= 0
        /\ due = {} =>
            /\ r.agents.active = r.agents.started - r.agents.completed
                                    - r.agents.failed - r.agents.timed_out
            /\ r.promises.pending = r.promises.created - r.promises.resolved
                                        - r.promises.rejected
            /\ r.hits <= r.loaded
            /\ \A k \in 1 .. 3 : LatencyAddsUp(r.latency[k], r.calls[k])

=============================================================================
