-------------------------------- MODULE Globals --------------------------------
(***************************************************************************)
(* What a program sees of the runtime: the native functions and the Bua    *)
(* object that GlobalInjector::inject puts into a context                  *)
(* (runtime/src/globals/injector.rs), the built-in modules over them       *)
(* (runtime/src/modules/builtins.rs) and the DeterministicClock            *)
(* (runtime/src/deterministic/clock.rs), which Rust threads share with it. *)
(*                                                                         *)
(* The bridge is taken to carry the calls, as the code here expects it to. *)
(* A function of a module is the last function of the Bua object it needs; *)
(* what it makes of the result is left out.  The modules are taken to be   *)
(* evaluated after the script: bua:trace keeps what it finds then.         *)
(***************************************************************************)
EXTENDS Naturals, Sequences

CONSTANTS
    Word,         \* 2^64: virtual time is an u64, in microseconds
    Scale,        \* microseconds to the millisecond: 1000
    Step          \* of a clock in stepping mode

ASSUME WordPositive == Word \in Nat \ {0}
ASSUME ClockParameters == Scale \in Nat /\ Step \in Nat

VARIABLES
    natives,      \* the native functions that are registered
    bua,          \* is there a Bua object
    records,      \* kinds of records made: trace events, audit entries
    mode,         \* ClockMode
    virtual,      \* virtual_us
    wall,         \* the real time, which is taken to go forwards
    last,         \* history: the time last read
    disturbed     \* history: was the time set, or did it overflow

clockVars == <<mode, virtual, wall, last, disturbed>>
apiVars   == <<natives, bua, records>>
globalsVars      == <<apiVars, clockVars>>

Instants == 0 .. Word - 1

(* live(), frozen(), freeze_now(), stepping().                             *)
GlobalsInit ==
    /\ natives = {} /\ bua = FALSE /\ records = {}
    /\ mode \in {"live", "frozen", "stepping"}
    /\ virtual \in IF mode = "live" THEN {0} ELSE Instants
    /\ wall = 0 /\ last = 0 /\ disturbed = FALSE

-----------------------------------------------------------------------------
(* inject(): six groups of natives ...                                     *)
ToolNatives   == {"tools_call", "tools_list"}
TraceNatives  == {"trace_log"}
TimeNatives   == {"time_now", "time_freeze", "time_advance"}
EnvNatives    == {"env_get"}
MemoryNatives == {"memory_put", "memory_get", "memory_del", "memory_list"}
RandomNatives == {"random_seed", "random_next"}

Groups == <<ToolNatives, TraceNatives, TimeNatives, EnvNatives,
            MemoryNatives, RandomNatives>>

(* ... and the script that makes the Bua object.  Under each function is   *)
(* the native it calls, "own" if it needs none, "throw" if that is all it  *)
(* does, or "crypto": a global object that nobody here provides.           *)
Bua ==
    [tools  |-> [call |-> "tools_call", list |-> "tools_list"],
     trace  |-> [log |-> "trace_log", info |-> "trace_log",
                 warn |-> "trace_log", error |-> "trace_log",
                 debug |-> "trace_log"],
     time   |-> [now |-> "time_now", freeze |-> "time_freeze",
                 advance |-> "time_advance"],
     env    |-> [get |-> "env_get", all |-> "own"],
     memory |-> [put |-> "memory_put", get |-> "memory_get",
                 del |-> "memory_del", list |-> "memory_list"],
     random |-> [seed |-> "random_seed", random |-> "random_next",
                 randInt |-> "random_next", uuid |-> "crypto"],
     agent  |-> [id |-> "own", parentId |-> "own", spawn |-> "throw"]]

(* A registration or the script may fail; what was done before stays.  A   *)
(* Bua object that is there already is kept.                               *)
ScriptFirst(done, script) == bua \/ script                    \* faulty
ScriptLast(done, script)  == bua \/ (done = Len(Groups) /\ script)

Inject(done, script) ==
    /\ natives' = natives \union UNION {Groups[i] : i \in 1 .. done}
    /\ bua' = ScriptLast(done, script)
    /\ UNCHANGED <<records, clockVars>>

-----------------------------------------------------------------------------
(* The built-in modules: the functions of the Bua object they need.        *)
FsModule ==
    [readFile |-> <<"tools", "call">>, writeFile |-> <<"tools", "call">>,
     exists |-> <<"tools", "call">>, readDir |-> <<"tools", "call">>]
EnvModule ==
    [get |-> <<"env", "get">>, require |-> <<"env", "get">>,
     all |-> <<"env", "all">>]
TraceModule ==
    [log |-> <<"trace", "log">>, info |-> <<"trace", "log">>,
     warn |-> <<"trace", "log">>, error |-> <<"trace", "log">>,
     debug |-> <<"trace", "log">>, exportNdjson |-> <<"trace", "exportNdjson">>,
     checkpoint |-> <<"trace", "checkpoint">>]
AgentModule ==
    [spawn |-> <<"agent", "spawn">>, spawnAll |-> <<"agent", "spawn">>,
     id |-> <<"agent", "id">>, parentId |-> <<"agent", "parentId">>]
ToolsModule ==
    [call |-> <<"tools", "call">>, list |-> <<"tools", "list">>,
     has |-> <<"tools", "list">>]
TimeModule ==
    [now |-> <<"time", "now">>, freeze |-> <<"time", "freeze">>,
     advance |-> <<"time", "advance">>, set |-> <<"time", "set">>]
MemoryModule ==
    [put |-> <<"memory", "put">>, get |-> <<"memory", "get">>,
     del |-> <<"memory", "del">>, list |-> <<"memory", "list">>]
RandomModule ==
    [seed |-> <<"random", "seed">>, random |-> <<"random", "random">>,
     randInt |-> <<"random", "random">>, uuid |-> <<"random", "uuid">>]

BuiltinRegistry ==
    [fs |-> FsModule, env |-> EnvModule, trace |-> TraceModule,
     agent |-> AgentModule, tools |-> ToolsModule, time |-> TimeModule,
     memory |-> MemoryModule, random |-> RandomModule]

(* What a function of the Bua object runs.  One that is missing, or is     *)
(* over something missing, throws; but bua:trace asks first, and does      *)
(* nothing without a Bua object or without the functions it looks up.      *)
Runs(at) ==
    LET there == bua /\ at[2] \in DOMAIN Bua[at[1]]
    IN  IF there /\ Bua[at[1]][at[2]] \in natives \union {"own"}
        THEN Bua[at[1]][at[2]]
        ELSE IF at[1] = "trace" /\ ~there THEN "nothing" ELSE "throw"

-----------------------------------------------------------------------------
(* The clock, each under its lock.                                         *)
Current == IF mode = "live" THEN wall ELSE virtual

Add(delta) ==
    /\ virtual' = (virtual + delta) % Word
    /\ disturbed' = (disturbed \/ virtual + delta >= Word)

Now ==
    /\ last' = Current
    /\ IF mode = "stepping" THEN Add(Step) ELSE UNCHANGED <<virtual, disturbed>>
    /\ UNCHANGED <<mode, wall>>

(* Milliseconds become microseconds before they are cut to a word.         *)
Advance(ms) ==
    /\ IF mode = "live" THEN UNCHANGED <<virtual, disturbed>>
       ELSE /\ virtual' = (virtual + ((ms * Scale) % Word)) % Word
            /\ disturbed' = (disturbed \/ virtual + ms * Scale >= Word)
    /\ UNCHANGED <<mode, wall, last>>

KeptTime == virtual                         \* faulty: whatever the mode
TimeNow  == Current

Freeze ==
    /\ mode' = "frozen" /\ virtual' = TimeNow
    /\ UNCHANGED <<wall, last, disturbed>>

SetTime(t) ==
    /\ virtual' = t /\ disturbed' = TRUE
    /\ UNCHANGED <<mode, wall, last>>

Tick ==
    /\ wall < Word - 1 /\ wall' = wall + 1
    /\ UNCHANGED <<mode, virtual, last, disturbed>>

-----------------------------------------------------------------------------
(* What the natives do.  tools_call, those of memory and of random keep    *)
(* nothing.  env_get asks for a permission, which leaves an audit entry.   *)
Record(kinds) ==
    /\ \E k \in kinds : records' = records \union {k}
    /\ UNCHANGED clockVars

Native(n) ==
    CASE n = "trace_log"    -> Record({"log"})
      [] n = "env_get"      -> Record({"granted", "denied"})
      [] n = "time_now"     -> Now /\ UNCHANGED records
      [] n = "time_freeze"  -> Freeze /\ UNCHANGED records
      [] n = "time_advance" -> (\E ms \in Instants : Advance(ms))
                                   /\ UNCHANGED records
      [] OTHER              -> UNCHANGED <<records, clockVars>>

(* A program calls a function of a module.                                 *)
CallBuiltin(m, f) ==
    /\ Native(Runs(BuiltinRegistry[m][f]))
    /\ UNCHANGED <<natives, bua>>

ClockStep ==
    /\ Now \/ Freeze \/ Tick
       \/ (\E ms \in Instants : Advance(ms)) \/ (\E t \in Instants : SetTime(t))
    /\ UNCHANGED apiVars

GlobalsNext ==
    \/ \E done \in 0 .. Len(Groups), script \in BOOLEAN : Inject(done, script)
    \/ \E m \in DOMAIN BuiltinRegistry :
         \E f \in DOMAIN BuiltinRegistry[m] : CallBuiltin(m, f)
    \/ ClockStep

GlobalsSpec == GlobalsInit /\ [][GlobalsNext]_globalsVars

-----------------------------------------------------------------------------
(* The time a program reads never goes back, through changes of the mode,  *)
(* unless it was set or went beyond a word.                                *)
TimeNeverGoesBack == ~disturbed => last <= Current

(* As soon as there is a Bua object, whatever failed before, every         *)
(* function of the built-in modules finds what it needs, but for five that *)
(* nothing implements: setting the time, spawning an agent and making a    *)
(* UUID throw, exporting the trace and marking a checkpoint in it do       *)
(* nothing.                                                                *)
Throwing == {<<"time", "set">>, <<"agent", "spawn">>, <<"random", "uuid">>}
Silent   == {<<"trace", "exportNdjson">>, <<"trace", "checkpoint">>}

ModulesFindNatives ==
    bua => \A m \in DOMAIN BuiltinRegistry :
             \A f \in DOMAIN BuiltinRegistry[m] :
               LET at == BuiltinRegistry[m][f]
               IN  /\ Runs(at) = "throw" <=> at \in Throwing
                   /\ Runs(at) = "nothing" <=> at \in Silent

=============================================================================
