-------------------------------- MODULE Replay --------------------------------
(***************************************************************************)
(* runtime/src/deterministic/{interceptor,replay,clock}.rs: the tool calls *)
(* of a replayed program go through IoInterceptor::intercept, which serves *)
(* reads and network calls from a recording (ReplayEngine), drops writes,  *)
(* answers time queries from a stepping DeterministicClock and lets the    *)
(* rest through.  Several tasks of the program may call at the same time:  *)
(* the engine numbers a call before it takes the lock under which it pops  *)
(* and compares a recorded call.                                           *)
(*                                                                         *)
(* A call is an operation: a tool with its arguments, which json_equivalent *)
(* compares up to the order of keys, that is, as values.                   *)
(***************************************************************************)
EXTENDS Naturals, Sequences, FiniteSets

CONSTANTS
    Tasks,           \* the tasks of the replayed program
    Programs,        \* the sequences of operations a task may perform
    Recordings,      \* the recordings: sequences of operations
    Class,           \* Class[op]: classify_tool(op)
    Tool,            \* Tool[op]: the tool of op
    Strict,          \* is a divergence an error?
    SilentWrites     \* are writes dropped silently?

Ops == DOMAIN Class

ASSUME OperationsAreClassified ==
    /\ \A p \in Programs : p \in Seq(Ops)
    /\ \A r \in Recordings : r \in Seq(Ops)

VARIABLES
    program,         \* program[t]: the calls of task t
    recording,       \* the recording replayed
    begun,           \* begun[t]: calls that t began
    phase,              \* phase[t]: where the current call of t is
    number,          \* number[t]: the engine's number for it
    sequence,        \* ReplayEngine.sequence
    popped,          \* recorded calls popped from the front
    divergences,     \* the numbers of the calls that diverged, in order
    clock,           \* queries answered by the clock: its virtual time
    is_active,       \* IoInterceptor.active
    reached,         \* history: operations that reached the recording
    results          \* history: results[t]: what intercept() returned to t

inputs     == <<program, recording>>
engineVars == <<number, sequence, popped, divergences, reached>>
replayVars == <<inputs, begun, phase, engineVars, clock, is_active, results>>

(* A new engine, before the first call.                                    *)
Ready ==
    /\ begun = [t \in Tasks |-> 0]
    /\ phase = [t \in Tasks |-> "between"]
    /\ number = [t \in Tasks |-> 0]
    /\ sequence = 0 /\ popped = 0 /\ divergences = <<>>
    /\ clock = 0
    /\ is_active = TRUE
    /\ reached = <<>>
    /\ results = [t \in Tasks |-> <<>>]

ReplayInit == program \in [Tasks -> Programs] /\ recording \in Recordings /\ Ready

(* The operation of the current call of t.                                 *)
Op(t) == program[t][begun[t]]

Return(t, kind, value) ==
    /\ results' = [results EXCEPT ![t] =
                       Append(@, [kind |-> kind, value |-> value])]
    /\ phase' = [phase EXCEPT ![t] = "between"]

-----------------------------------------------------------------------------
(* The program and the clock.                                              *)

Call(t) ==
    /\ phase[t] = "between" /\ begun[t] < Len(program[t])
    /\ begun' = [begun EXCEPT ![t] = @ + 1]
    /\ phase' = [phase EXCEPT ![t] = "calling"]
    /\ UNCHANGED <<inputs, engineVars, clock, is_active, results>>

Deactivate ==
    /\ is_active
    /\ is_active' = FALSE
    /\ UNCHANGED <<inputs, begun, phase, engineVars, clock, results>>

-----------------------------------------------------------------------------
(* intercept().                                                            *)

PassThrough(t) ==
    /\ phase[t] = "calling"
    /\ ~is_active \/ Class[Op(t)] = "pure"
    /\ Return(t, "passthrough", 0)
    /\ UNCHANGED <<inputs, begun, engineVars, clock, is_active>>

InjectTime(t) ==
    /\ phase[t] = "calling" /\ is_active /\ Class[Op(t)] = "time"
    /\ Return(t, "time", clock)
    /\ clock' = clock + 1
    /\ UNCHANGED <<inputs, begun, engineVars, is_active>>

SuppressWrite(t) ==
    /\ phase[t] = "calling" /\ is_active /\ Class[Op(t)] = "write"
    /\ Return(t, IF SilentWrites THEN "suppressed" ELSE "error", 0)
    /\ UNCHANGED <<inputs, begun, engineVars, clock, is_active>>

(* intercept_tool_call: self.sequence.fetch_add(1), before the lock.       *)
Number(t) ==
    /\ phase[t] = "calling" /\ is_active /\ Class[Op(t)] \in {"read", "network"}
    /\ number' = [number EXCEPT ![t] = sequence]
    /\ sequence' = sequence + 1
    /\ phase' = [phase EXCEPT ![t] = "numbered"]
    /\ UNCHANGED <<inputs, begun, popped, divergences, reached, clock,
                   is_active, results>>

SameTool(a, b) == Tool[a] = Tool[b]          \* faulty: arguments not compared
SameCall(a, b) == a = b

Peeked    == popped                          \* faulty: front() for pop_front()
Popped    == popped + 1

(* The recorded call a lock holder finds at the front.                     *)
NextRecord == recording[popped + 1]

(* None: more calls than recorded.                                         *)
ExtraCall(t) ==
    /\ phase[t] = "numbered" /\ popped = Len(recording)
    /\ divergences' = Append(divergences, number[t])
    /\ reached' = Append(reached, Op(t))
    /\ Return(t, "error", 0)
    /\ UNCHANGED <<inputs, begun, number, sequence, popped, clock, is_active>>

(* Some(record): compared and served.  (A recorded call that failed is     *)
(* served like any other: its success flag is not looked at.)              *)
Serve(t) ==
    /\ phase[t] = "numbered" /\ popped < Len(recording)
    /\ popped' = Popped
    /\ reached' = Append(reached, Op(t))
    /\ IF SameCall(NextRecord, Op(t))
       THEN Return(t, "replayed", popped + 1) /\ UNCHANGED divergences
       ELSE /\ divergences' = Append(divergences, number[t])
            /\ IF Strict THEN Return(t, "error", 0)
               ELSE Return(t, "replayed", popped + 1)
    /\ UNCHANGED <<inputs, begun, number, sequence, clock, is_active>>

-----------------------------------------------------------------------------
ReplayNext ==
    \/ Deactivate
    \/ \E t \in Tasks :
          \/ Call(t)
          \/ PassThrough(t) \/ InjectTime(t) \/ SuppressWrite(t)
          \/ Number(t) \/ ExtraCall(t) \/ Serve(t)

ReplaySpec == ReplayInit /\ [][ReplayNext]_replayVars

-----------------------------------------------------------------------------
(* The labels are those of intercept(); a task that is in a call began it,  *)
(* and has the results of those it began before.                           *)
Outcomes == [kind : {"passthrough", "time", "suppressed", "error", "replayed"},
             value : Nat]

ReplayTypeOK ==
    /\ program \in [Tasks -> Seq(Ops)] /\ recording \in Seq(Ops)
    /\ begun \in [Tasks -> Nat]
    /\ phase \in [Tasks -> {"between", "calling", "numbered"}]
    /\ number \in [Tasks -> Nat] /\ sequence \in Nat
    /\ popped \in 0 .. Len(recording)
    /\ divergences \in Seq(Nat) /\ reached \in Seq(Ops)
    /\ clock \in Nat /\ is_active \in BOOLEAN
    /\ results \in [Tasks -> Seq(Outcomes)]
    /\ \A t \in Tasks :
          /\ begun[t] <= Len(program[t])
          /\ begun[t] = Len(results[t]) + (IF phase[t] = "between" THEN 0 ELSE 1)

Served(t) == {i \in DOMAIN results[t] : results[t][i].kind = "replayed"}

(* However the tasks interleave, no recorded result is served to two       *)
(* calls.  As long as no divergence was recorded, the calls that reached   *)
(* the recording, of all tasks together, are the recording's, call for     *)
(* call and in its order, whichever task each of them came from.           *)
CleanIsPrefix ==
    /\ \A s, t \in Tasks : \A i \in Served(s), j \in Served(t) :
          results[s][i].value = results[t][j].value => s = t /\ i = j
    /\ divergences = <<>> =>
          /\ Len(reached) = popped
          /\ \A i \in DOMAIN reached : reached[i] = recording[i]

(* A program of one task that makes the recorded calls replays cleanly,    *)
(* whatever it computes, writes or asks the clock in between: it gets the  *)
(* recorded results, each at the call it was recorded for.                 *)
Replayable(ops) == {i \in DOMAIN ops : Class[ops[i]] \in {"read", "network"}}

(* The calls of ops that are replayable are, in order, those of recording: *)
(* the k-th of them is the f[k]-th call of ops.                            *)
Aligns(f, ops) ==
    /\ f \in [DOMAIN recording -> DOMAIN ops]
    /\ \A j, k \in DOMAIN recording : j < k => f[j] < f[k]
    /\ Replayable(ops) = {f[k] : k \in DOMAIN recording}
    /\ \A k \in DOMAIN recording : ops[f[k]] = recording[k]

Alone(t) == \A u \in Tasks \ {t} : program[u] = <<>>

SameProgramReplays ==
    \A t \in Tasks : \A f \in [DOMAIN recording -> DOMAIN program[t]] :
        Alone(t) /\ Aligns(f, program[t])
        => /\ divergences = <<>>
           /\ Served(t) = {f[k] : k \in 1 .. popped}
           /\ \A k \in 1 .. popped : results[t][f[k]].value = k

=============================================================================
