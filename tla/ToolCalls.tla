------------------------------- MODULE ToolCalls -------------------------------
(***************************************************************************)
(* runtime/src/runtime/{tool_ctx,capability_ctx,trace_ctx}.rs with         *)
(* runtime/src/tools.rs and core/src/{capabilities,trace}.rs: the tool     *)
(* calls of one agent.  ToolContext::call traces the call, clones the      *)
(* capabilities, lets the registry check the tool's permissions one by one *)
(* against the clone, awaits the tool and traces the result; meanwhile     *)
(* others grant and revoke capabilities.                                   *)
(*                                                                         *)
(* What a capability covers - roots, hosts, executables, keys - is the     *)
(* relation Covers; a path or a host is a permission.                      *)
(***************************************************************************)
EXTENDS Naturals, Sequences, FiniteSets

CONSTANTS
    Calls,                     \* the ToolContext::call()s of a run
    Permissions,               \* requests, SpawnPermission among them
    Covers,                    \* Covers[k]: the permissions k is enough for
    Unrestricted, AgentSpawn,  \* the capabilities of these names
    SpawnPermission,           \* Permission::AgentSpawn
    Required,                  \* Required[c]: required_permissions() of c's tool
    Registered,                \* the calls whose tool is registered
    MaxRevocations             \* bound: revocations in a run

Capabilities == DOMAIN Covers

ASSUME CoversPermissions == Covers \in [Capabilities -> SUBSET Permissions]
ASSUME NamedCapabilities ==
    /\ {Unrestricted, AgentSpawn} \subseteq Capabilities
    /\ SpawnPermission \in Permissions
    /\ \A k \in Capabilities : SpawnPermission \in Covers[k] <=> k = AgentSpawn
ASSUME RequiredPermissions == Required \in [Calls -> Seq(Permissions)]
ASSUME RegisteredCalls == Registered \subseteq Calls
ASSUME BoundIsNat == MaxRevocations \in Nat

VARIABLES
    caps,            \* CapabilitySet.caps of the agent's context
    generation,      \* CapabilitySet.generation
    at,              \* at[c]: where call() is
    snapshot,        \* snapshot[c]: its clone of the capability set
    checked,         \* checked[c]: permissions that were granted
    ok,              \* ok[c]: did dispatch() succeed?
    trace,           \* ExecutionTrace.events, as [call, kind]
    allowed          \* history: did the capabilities allow c at some instant
                     \* since it began?

capVars  == <<caps, generation, allowed>>
callVars == <<at, snapshot, checked, ok>>
vars     == <<capVars, callVars, trace>>

(* CapabilitySet::check.                                                   *)
Check(set, p) == Unrestricted \in set \/ \E k \in set : p \in Covers[k]

(* derive_child: of what is requested for a child, what the parent has     *)
(* itself, or all of it if the parent may spawn agents.                    *)
Derived(parent, requested) ==
    {k \in requested : k \in parent \/ Check(parent, SpawnPermission)}

Allows(set, c) == \A i \in DOMAIN Required[c] : Check(set, Required[c][i])

InProgress(c) == at[c] \notin {"idle", "returned"}

Init ==
    /\ caps \in SUBSET Capabilities
    /\ generation = 0
    /\ at = [c \in Calls |-> "idle"]
    /\ snapshot = [c \in Calls |-> [caps |-> {}, generation |-> 0]]
    /\ checked = [c \in Calls |-> 0]
    /\ ok = [c \in Calls |-> FALSE]
    /\ trace = <<>>
    /\ allowed = [c \in Calls |-> FALSE]

-----------------------------------------------------------------------------
(* CapabilityContext, each under its write lock.                           *)

(* The capabilities become set; calls in progress live through it.         *)
Become(set) ==
    /\ caps' = set
    /\ allowed' = [c \in Calls |->
                      allowed[c] \/ (InProgress(c) /\ Allows(set, c))]

Grant(k) ==
    /\ k \notin caps
    /\ Become(caps \union {k})
    /\ UNCHANGED <<generation, callVars, trace>>

(* The generation after a revocation.                                      *)
Unmarked   == generation                     \* faulty: not incremented
Advanced   == generation + 1

(* revoke() of a capability that is not there changes nothing.             *)
Revoke(k) ==
    /\ k \in caps /\ generation < MaxRevocations
    /\ Become(caps \ {k})
    /\ generation' = Advanced
    /\ UNCHANGED <<callVars, trace>>

RevokeAll ==
    /\ generation < MaxRevocations
    /\ Become({})
    /\ generation' = Advanced
    /\ UNCHANGED <<callVars, trace>>

-----------------------------------------------------------------------------
(* ToolContext::call.                                                      *)

(* TraceContext::emit.  event_count is the length of the trace, but for    *)
(* the instant until its own increment; no step here reads it.             *)
Emit(c, kind) == trace' = Append(trace, [call |-> c, kind |-> kind])

Goto(c, label) == at' = [at EXCEPT ![c] = label]

Begin(c) ==
    /\ at[c] = "idle"
    /\ Goto(c, "counted")
    /\ allowed' = [allowed EXCEPT ![c] = Allows(caps, c)]
    /\ UNCHANGED <<caps, generation, snapshot, checked, ok, trace>>

TraceCall(c) ==
    /\ at[c] = "counted"
    /\ Emit(c, "call")
    /\ Goto(c, "traced")
    /\ UNCHANGED <<capVars, snapshot, checked, ok>>

TakeSnapshot(c) ==
    /\ at[c] = "traced"
    /\ snapshot' = [snapshot EXCEPT ![c] =
                       [caps |-> caps, generation |-> generation]]
    /\ Goto(c, "checking")
    /\ UNCHANGED <<capVars, checked, ok, trace>>

(* dispatch(): the tool is looked up, its permissions are checked in order. *)
NotRegistered(c) ==
    /\ at[c] = "checking" /\ c \notin Registered
    /\ Goto(c, "dispatched")
    /\ UNCHANGED <<capVars, snapshot, checked, ok, trace>>

(* The set the next permission is looked up in.                            *)
LiveCaps(c)  == caps                         \* faulty: the shared context
Consulted(c) == snapshot[c].caps

CheckNext(c) ==
    /\ at[c] = "checking" /\ c \in Registered
    /\ checked[c] < Len(Required[c])
    /\ IF Check(Consulted(c), Required[c][checked[c] + 1])
       THEN checked' = [checked EXCEPT ![c] = @ + 1] /\ UNCHANGED at
       ELSE Goto(c, "dispatched") /\ UNCHANGED checked
    /\ UNCHANGED <<capVars, snapshot, ok, trace>>

StartTool(c) ==
    /\ at[c] = "checking" /\ c \in Registered
    /\ checked[c] = Len(Required[c])
    /\ Goto(c, "running")
    /\ UNCHANGED <<capVars, snapshot, checked, ok, trace>>

ToolReturns(c) ==
    /\ at[c] = "running"
    /\ \E success \in BOOLEAN : ok' = [ok EXCEPT ![c] = success]
    /\ Goto(c, "dispatched")
    /\ UNCHANGED <<capVars, snapshot, checked, trace>>

(* Whether the result of c is traced.                                      *)
OnlySuccess(c) == ok[c]                      \* faulty: returns Err before
Reported(c)    == TRUE

TraceResult(c) ==
    /\ at[c] = "dispatched"
    /\ IF Reported(c) THEN Emit(c, "result") ELSE UNCHANGED trace
    /\ Goto(c, "returned")
    /\ UNCHANGED <<capVars, snapshot, checked, ok>>

-----------------------------------------------------------------------------
CallStep(c) ==
    \/ Begin(c) \/ TraceCall(c) \/ TakeSnapshot(c)
    \/ NotRegistered(c) \/ CheckNext(c) \/ StartTool(c) \/ ToolReturns(c)
    \/ TraceResult(c)

Next ==
    \/ \E c \in Calls : CallStep(c)
    \/ \E k \in Capabilities : Grant(k) \/ Revoke(k)
    \/ RevokeAll

Spec == Init /\ [][Next]_vars

-----------------------------------------------------------------------------
(* The labels are those of call(); a clone is a set of capabilities with   *)
(* a generation the context has reached.                                   *)
TypeOK ==
    /\ caps \subseteq Capabilities
    /\ generation \in Nat
    /\ at \in [Calls -> {"idle", "counted", "traced", "checking", "running",
                        "dispatched", "returned"}]
    /\ snapshot \in [Calls -> [caps : SUBSET Capabilities, generation : Nat]]
    /\ checked \in [Calls -> Nat]
    /\ ok \in [Calls -> BOOLEAN]
    /\ trace \in Seq([call : Calls, kind : {"call", "result"}])
    /\ allowed \in [Calls -> BOOLEAN]
    /\ \A c \in Calls : /\ snapshot[c].generation <= generation
                        /\ checked[c] <= Len(Required[c])

(* A tool runs only if there was an instant since its call began at which  *)
(* the agent held everything the tool requires, although its permissions   *)
(* are checked one after another while capabilities come and go.           *)
RunsIfAllowedAtOnce == \A c \in Calls : at[c] = "running" => allowed[c]

(* A call may trust a generation that has not moved: nothing its clone     *)
(* grants was revoked since it was taken.                                  *)
SameGenerationStillGranted ==
    \A c \in Calls :
        InProgress(c) /\ at[c] \notin {"counted", "traced"}
            /\ snapshot[c].generation = generation
        => snapshot[c].caps \subseteq caps

(* The trace tells the calls: whoever else writes to it, a call is in it   *)
(* before its tool runs, and one that returned - denied, unknown, failed   *)
(* or not - left its call and then its result, once each.                  *)
Told(c, kind) == {i \in DOMAIN trace : trace[i] = [call |-> c, kind |-> kind]}

TraceTellsCalls ==
    \A c \in Calls :
        /\ at[c] = "running" =>
              \E i \in DOMAIN trace : Told(c, "call") = {i} /\ Told(c, "result") = {}
        /\ at[c] = "returned" =>
              \E i, j \in DOMAIN trace :
                  Told(c, "call") = {i} /\ Told(c, "result") = {j} /\ i < j

=============================================================================
