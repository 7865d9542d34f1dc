---------------------------- MODULE Tools_proofs ----------------------------
(***************************************************************************)
(* Theorems about ToolCalls, for every set of calls, capabilities and      *)
(* permissions, and about Replay, for any tasks, programs and recordings:  *)
(* a tool runs only if the agent held all it requires at one instant, an   *)
(* unchanged generation vouches for a clone, the trace tells every call,   *)
(* and a parent that may spawn agents passes on all that is requested; a   *)
(* clean replay follows its recording, and the program that was recorded   *)
(* replays cleanly; and about Metrics, for any calls, threads and          *)
(* durations: a report adds up.                                            *)
(***************************************************************************)
EXTENDS ToolCalls, Replay, Metrics, SequenceFacts, FiniteSetTheorems,
        WellFoundedInduction

(* A call that is being checked or runs has a clone whose grants it owes   *)
(* to an instant it lived through, and its tool runs after all checks.     *)
ClonedSince(c) == at[c] \in {"checking", "running", "dispatched"}

WitnessInv ==
    \A c \in Calls :
        /\ InProgress(c) /\ Allows(caps, c) => allowed[c]
        /\ ClonedSince(c) /\ Allows(snapshot[c].caps, c) => allowed[c]
        /\ ClonedSince(c) =>
              \A i \in 1..checked[c] : Check(snapshot[c].caps, Required[c][i])
        /\ at[c] = "running" => checked[c] = Len(Required[c])
        /\ at[c] \in {"idle", "counted", "traced"} => checked[c] = 0

GenerationInv ==
    \A c \in Calls :
        ClonedSince(c) /\ snapshot[c].generation = generation
        => snapshot[c].caps \subseteq caps

(* What the trace has of a call, by where the call is.                     *)
TraceInv ==
    \A c \in Calls :
        /\ at[c] \in {"idle", "counted"} =>
              Told(c, "call") = {} /\ Told(c, "result") = {}
        /\ at[c] \in {"traced", "checking", "running", "dispatched"} =>
              \E i \in DOMAIN trace :
                  Told(c, "call") = {i} /\ Told(c, "result") = {}
        /\ at[c] = "returned" =>
              \E i, j \in DOMAIN trace :
                  Told(c, "call") = {i} /\ Told(c, "result") = {j} /\ i < j

CallInv == TypeOK /\ WitnessInv /\ GenerationInv /\ TraceInv

-----------------------------------------------------------------------------
(* With AgentSpawn, or Unrestricted, the parent passes on all that is      *)
(* requested, what it does not have included.                              *)
THEOREM SpawnerPassesAll ==
    ASSUME NEW parent \in SUBSET Capabilities,
           NEW requested \in SUBSET Capabilities,
           AgentSpawn \in parent \/ Unrestricted \in parent
    PROVE  Derived(parent, requested) = requested
<1>1. Check(parent, SpawnPermission)
  BY NamedCapabilities DEF Check
<1> QED BY <1>1 DEF Derived
-----------------------------------------------------------------------------
(* The types hold initially and through every step.                        *)
LEMMA InitTypes == Init => TypeOK
  BY CoversPermissions, RequiredPermissions DEF Init, TypeOK, Capabilities

(* A step that touches neither the calls nor the trace keeps the types if  *)
(* the capabilities stay capabilities and the generation does not fall.    *)
LEMMA ContextTypes ==
    ASSUME TypeOK, NEW set \in SUBSET Capabilities, Become(set),
           generation' \in Nat, generation' >= generation,
           UNCHANGED <<callVars, trace>>
    PROVE  TypeOK'
<1>1. allowed' \in [Calls -> BOOLEAN]
  BY DEF Become, TypeOK
<1>2. \A c \in Calls : snapshot'[c].generation <= generation'
  BY DEF TypeOK, callVars
<1> QED BY <1>1, <1>2 DEF TypeOK, Become, callVars

(* A step of a call keeps the types.                                       *)
LEMMA CallTypes ==
    ASSUME TypeOK, NEW c \in Calls, CallStep(c)
    PROVE  TypeOK'
<1>a. \A d \in Calls : Len(Required[d]) \in Nat
  BY RequiredPermissions
<1>1. CASE Begin(c)
  <2>1. (Allows(caps, c)) \in BOOLEAN
    BY DEF Allows
  <2> QED BY <1>1, <2>1 DEF Begin, Goto, TypeOK
<1>2. CASE TraceCall(c)
  BY <1>2 DEF TraceCall, Emit, Goto, TypeOK, capVars
<1>3. CASE TakeSnapshot(c)
  BY <1>3 DEF TakeSnapshot, Goto, TypeOK, capVars
<1>4. CASE NotRegistered(c)
  BY <1>4 DEF NotRegistered, Goto, TypeOK, capVars
<1>5. CASE CheckNext(c)
  <2>1. /\ UNCHANGED <<caps, generation, allowed, snapshot, ok, trace>>
        /\ checked[c] < Len(Required[c])
        /\ \/ checked' = [checked EXCEPT ![c] = @ + 1] /\ at' = at
           \/ at' = [at EXCEPT ![c] = "dispatched"] /\ checked' = checked
    BY <1>5 DEF CheckNext, Goto, capVars
  <2>a. checked \in [Calls -> Nat] /\ at \in [Calls -> {"idle", "counted",
            "traced", "checking", "running", "dispatched", "returned"}]
    BY DEF TypeOK
  <2>b. \A d \in Calls : checked[d] <= Len(Required[d])
    BY DEF TypeOK
  <2>2. checked' \in [Calls -> Nat]
    BY <2>1, <2>a
  <2>3. \A d \in Calls : checked'[d] <= Len(Required[d])
    BY <2>1, <2>a, <2>b, <1>a
  <2>4. at' \in [Calls -> {"idle", "counted", "traced", "checking",
                          "running", "dispatched", "returned"}]
    BY <2>1, <2>a
  <2> QED BY <2>1, <2>2, <2>3, <2>4 DEF TypeOK
<1>6. CASE StartTool(c)
  BY <1>6 DEF StartTool, Goto, TypeOK, capVars
<1>7. CASE ToolReturns(c)
  BY <1>7 DEF ToolReturns, Goto, TypeOK, capVars
<1>8. CASE TraceResult(c)
  <2>1. /\ UNCHANGED <<caps, generation, allowed, snapshot, checked, ok>>
        /\ at' = [at EXCEPT ![c] = "returned"]
    BY <1>8 DEF TraceResult, Goto, capVars
  <2>2. trace' \in Seq([call : Calls, kind : {"call", "result"}])
    <3>1. trace' = Append(trace, [call |-> c, kind |-> "result"])
      BY <1>8 DEF TraceResult, Reported, Emit
    <3>2. trace \in Seq([call : Calls, kind : {"call", "result"}])
      BY DEF TypeOK
    <3> QED BY <3>1, <3>2
  <2> QED BY <2>1, <2>2 DEF TypeOK
<1> QED
  BY <1>1, <1>2, <1>3, <1>4, <1>5, <1>6, <1>7, <1>8 DEF CallStep

(* The conjuncts hold initially: no call has begun.                  *)
LEMMA InitInvariant == Init => CallInv
<1> SUFFICES ASSUME Init PROVE CallInv
  OBVIOUS
<1>1. TypeOK
  BY InitTypes
<1>2. \A c \in Calls : at[c] = "idle" /\ checked[c] = 0
  BY DEF Init
<1>3. TraceInv
  BY <1>2 DEF Init, TraceInv, Told
<1> QED BY <1>1, <1>2, <1>3
  DEF CallInv, WitnessInv, GenerationInv, InProgress, ClonedSince

(* Granting and revoking keep the invariant: a call they allow is recorded *)
(* as allowed, and a revocation moves the generation beyond every clone.   *)
LEMMA ContextKeeps ==
    ASSUME CallInv, NEW set \in SUBSET Capabilities, Become(set),
           \/ generation' = generation /\ caps \subseteq set
           \/ generation' = generation + 1,
           UNCHANGED <<callVars, trace>>
    PROVE  CallInv'
<1>1. TypeOK'
  <2>1. generation' \in Nat /\ generation' >= generation
    BY DEF CallInv, TypeOK
  <2> QED BY <2>1, ContextTypes DEF CallInv
<1>2. WitnessInv'
  <2> SUFFICES ASSUME NEW c \in Calls
               PROVE  /\ InProgress(c)' /\ Allows(set, c) => allowed'[c]
                      /\ ClonedSince(c) /\ Allows(snapshot[c].caps, c)
                            => allowed'[c]
                      /\ ClonedSince(c) =>
                            \A i \in 1..checked[c] :
                                Check(snapshot[c].caps, Required[c][i])
                      /\ at[c] = "running" => checked[c] = Len(Required[c])
                      /\ at[c] \in {"idle", "counted", "traced"}
                            => checked[c] = 0
    BY DEF WitnessInv, Become, callVars, ClonedSince, Allows, Check
  <2>1. allowed'[c] = (allowed[c] \/ (InProgress(c) /\ Allows(set, c)))
    BY DEF Become
  <2>2. InProgress(c)' = InProgress(c)
    BY DEF InProgress, callVars
  <2> QED BY <2>1, <2>2 DEF CallInv, WitnessInv
<1>3. GenerationInv'
  <2> SUFFICES ASSUME NEW c \in Calls, ClonedSince(c),
                      snapshot[c].generation = generation'
               PROVE  snapshot[c].caps \subseteq set
    BY DEF GenerationInv, Become, callVars, ClonedSince
  <2>1. snapshot[c].generation <= generation /\ generation \in Nat
    BY DEF CallInv, TypeOK
  <2>2. generation' = generation /\ caps \subseteq set
    BY <2>1 DEF CallInv, TypeOK
  <2> QED BY <2>2 DEF CallInv, GenerationInv
<1>4. TraceInv'
  BY ZenonT(40) DEF CallInv, TraceInv, Told, callVars
<1> QED BY <1>1, <1>2, <1>3, <1>4 DEF CallInv

(* An event at the end of the trace is told of its call alone.             *)
LEMMA EmitTells ==
    ASSUME TypeOK, NEW c \in Calls, NEW kind \in {"call", "result"},
           Emit(c, kind), NEW d \in Calls, NEW k \in {"call", "result"}
    PROVE  /\ DOMAIN trace' = DOMAIN trace \union {Len(trace) + 1}
           /\ \A i \in DOMAIN trace : i < Len(trace) + 1
           /\ Told(d, k)' = IF d = c /\ k = kind
                            THEN Told(d, k) \union {Len(trace) + 1}
                            ELSE Told(d, k)
<1> DEFINE E == [call : Calls, kind : {"call", "result"}]
           e == [call |-> c, kind |-> kind]
           n == Len(trace) + 1
<1>1. trace \in Seq(E) /\ e \in E /\ trace' = Append(trace, e)
  BY DEF TypeOK, Emit
<1>2. e.call = c /\ e.kind = kind
  OBVIOUS
<1>3. e = [call |-> d, kind |-> k] <=> d = c /\ k = kind
  OBVIOUS
<1> HIDE DEF E, e
<1>4. /\ DOMAIN trace = 1 .. Len(trace) /\ DOMAIN trace' = 1 .. n
      /\ \A i \in 1 .. Len(trace) : trace'[i] = trace[i]
      /\ trace'[n] = e /\ Len(trace) \in Nat
  BY <1>1
<1>5. 1 .. n = (1 .. Len(trace)) \union {n} /\ \A i \in 1 .. Len(trace) : i < n
  BY <1>4
<1> HIDE DEF n
<1>6. Told(d, k)' = {i \in DOMAIN trace' : trace'[i] = [call |-> d, kind |-> k]}
  BY DEF Told
<1>7. \A i \in DOMAIN trace : i \in Told(d, k)' <=> i \in Told(d, k)
  BY <1>4, <1>5, <1>6 DEF Told
<1>8. n \in Told(d, k)' <=> d = c /\ k = kind
  BY <1>3, <1>4, <1>5, <1>6
<1>9. Told(d, k)' \subseteq DOMAIN trace \union {n} /\ Told(d, k) \subseteq DOMAIN trace
  BY <1>4, <1>5, <1>6 DEF Told
<1>10. n \notin DOMAIN trace
  BY <1>4, <1>5
<1>11. DOMAIN trace' = DOMAIN trace \union {n} /\ \A i \in DOMAIN trace : i < n
  BY <1>4, <1>5
<1> HIDE DEF n
<1>12. CASE d = c /\ k = kind
  <2>1. Told(d, k)' = Told(d, k) \union {n}
    BY <1>7, <1>8, <1>9, <1>10, <1>12
  <2> QED BY <1>11, <1>12, <2>1 DEF n
<1>13. CASE ~ (d = c /\ k = kind)
  <2>1. Told(d, k)' = Told(d, k)
    BY <1>7, <1>8, <1>9, <1>10, <1>13
  <2> QED BY <1>11, <1>13, <2>1 DEF n
<1> QED BY <1>12, <1>13

(* A call is traced once before it is checked, its result once after.      *)
LEMMA TraceKeeps ==
    ASSUME TypeOK, TraceInv, NEW c \in Calls, CallStep(c)
    PROVE  TraceInv'
<1>1. at \in [Calls -> {"idle", "counted", "traced", "checking", "running",
                        "dispatched", "returned"}]
  BY DEF TypeOK
<1> DEFINE Traced(d) ==
      /\ at[d] \in {"idle", "counted"} =>
            Told(d, "call") = {} /\ Told(d, "result") = {}
      /\ at[d] \in {"traced", "checking", "running", "dispatched"} =>
            \E i \in DOMAIN trace :
                Told(d, "call") = {i} /\ Told(d, "result") = {}
      /\ at[d] = "returned" =>
            \E i, j \in DOMAIN trace :
                Told(d, "call") = {i} /\ Told(d, "result") = {j} /\ i < j
<1>2. \A d \in Calls : Traced(d)
  BY DEF TraceInv
<1>3. CASE TraceCall(c)
  <2>1. Emit(c, "call") /\ at' = [at EXCEPT ![c] = "traced"] /\ at[c] = "counted"
    BY <1>3 DEF TraceCall, Goto
  <2> SUFFICES ASSUME NEW d \in Calls PROVE Traced(d)'
    BY DEF TraceInv
  <2>2. /\ DOMAIN trace' = DOMAIN trace \union {Len(trace) + 1}
        /\ Told(d, "call")' = IF d = c THEN Told(d, "call") \union {Len(trace) + 1}
                              ELSE Told(d, "call")
        /\ Told(d, "result")' = Told(d, "result")
    BY <2>1, EmitTells
  <2>3. CASE d = c
    <3>1. Told(d, "call") = {} /\ Told(d, "result") = {}
      BY <1>2, <2>1, <2>3
    <3> QED BY <1>1, <2>1, <2>2, <2>3, <3>1
  <2>4. CASE d # c
    <3>1. at'[d] = at[d]
      BY <1>1, <2>1, <2>4
    <3> QED BY <1>2, <2>2, <2>4, <3>1
  <2> QED BY <2>3, <2>4
<1>4. CASE TraceResult(c)
  <2>1. Emit(c, "result") /\ at' = [at EXCEPT ![c] = "returned"] /\ at[c] = "dispatched"
    BY <1>4 DEF TraceResult, Goto, Reported
  <2> SUFFICES ASSUME NEW d \in Calls PROVE Traced(d)'
    BY DEF TraceInv
  <2>2. /\ DOMAIN trace' = DOMAIN trace \union {Len(trace) + 1}
        /\ \A i \in DOMAIN trace : i < Len(trace) + 1
        /\ Told(d, "result")' = IF d = c THEN Told(d, "result") \union {Len(trace) + 1}
                                ELSE Told(d, "result")
        /\ Told(d, "call")' = Told(d, "call")
    BY <2>1, EmitTells
  <2>3. CASE d = c
    <3>1. PICK i \in DOMAIN trace : Told(d, "call") = {i} /\ Told(d, "result") = {}
      BY <1>2, <2>1, <2>3
    <3>2. i < Len(trace) + 1 /\ i \in DOMAIN trace'
          /\ Len(trace) + 1 \in DOMAIN trace'
      BY <2>2
    <3>3. Told(d, "call")' = {i} /\ Told(d, "result")' = {Len(trace) + 1}
      BY <2>2, <2>3, <3>1
    <3>4. at'[d] = "returned"
      BY <1>1, <2>1, <2>3
    <3> QED BY <3>2, <3>3, <3>4
  <2>4. CASE d # c
    <3>1. at'[d] = at[d]
      BY <1>1, <2>1, <2>4
    <3> QED BY <1>2, <2>2, <2>4, <3>1
  <2> QED BY <2>3, <2>4
<1>5. CASE ~ TraceCall(c) /\ ~ TraceResult(c)
  <2>1. trace' = trace
    BY <1>5 DEF CallStep, Begin, TakeSnapshot, NotRegistered, CheckNext,
                StartTool, ToolReturns
  <2>2. \/ at' = at
        \/ at[c] = "idle" /\ at' = [at EXCEPT ![c] = "counted"]
        \/ \E l \in {"checking", "running", "dispatched"} :
               /\ at[c] \in {"traced", "checking", "running"}
               /\ at' = [at EXCEPT ![c] = l]
    BY <1>5 DEF CallStep, Begin, TakeSnapshot, NotRegistered, CheckNext,
                StartTool, ToolReturns, Goto
  <2> SUFFICES ASSUME NEW d \in Calls PROVE Traced(d)'
    BY DEF TraceInv
  <2>3. Told(d, "call")' = Told(d, "call") /\ Told(d, "result")' = Told(d, "result")
    BY <2>1 DEF Told
  <2> QED BY <1>1, <1>2, <2>1, <2>2, <2>3
<1> QED BY <1>3, <1>4, <1>5

(* A step of a call keeps the invariant: beginning it records what is      *)
(* allowed now, cloning makes an allowed clone of an allowed moment, and   *)
(* each check adds the permission it found covered by the clone.           *)
LEMMA CallKeeps ==
    ASSUME CallInv, NEW c \in Calls, CallStep(c)
    PROVE  CallInv'
<1>1. TypeOK'
  BY CallTypes DEF CallInv
<1>2. UNCHANGED <<caps, generation>>
  BY DEF CallStep, Begin, TraceCall, TakeSnapshot, NotRegistered, CheckNext,
         StartTool, ToolReturns, TraceResult, capVars
<1>3. \A d \in Calls : d # c =>
          UNCHANGED <<at[d], snapshot[d], checked[d], allowed[d]>>
  <2>1. /\ at' = at \/ \E l : at' = [at EXCEPT ![c] = l]
        /\ snapshot' = snapshot \/ \E x : snapshot' = [snapshot EXCEPT ![c] = x]
        /\ checked' = checked \/ \E n : checked' = [checked EXCEPT ![c] = n]
        /\ allowed' = allowed \/ \E b : allowed' = [allowed EXCEPT ![c] = b]
    BY DEF CallStep, Begin, TraceCall, TakeSnapshot, NotRegistered,
           CheckNext, StartTool, ToolReturns, TraceResult, capVars, Goto
  <2> QED BY <2>1 DEF CallInv, TypeOK
<1>4. at \in [Calls -> {"idle", "counted", "traced", "checking", "running",
                       "dispatched", "returned"}]
      /\ checked \in [Calls -> Nat] /\ allowed \in [Calls -> BOOLEAN]
      /\ snapshot \in [Calls -> [caps : SUBSET Capabilities, generation : Nat]]
  BY DEF CallInv, TypeOK
<1>5. WitnessInv'
  <2> DEFINE Witnessed(d) ==
        /\ InProgress(d) /\ Allows(caps, d) => allowed[d]
        /\ ClonedSince(d) /\ Allows(snapshot[d].caps, d) => allowed[d]
        /\ ClonedSince(d) =>
              \A i \in 1..checked[d] : Check(snapshot[d].caps, Required[d][i])
        /\ at[d] = "running" => checked[d] = Len(Required[d])
        /\ at[d] \in {"idle", "counted", "traced"} => checked[d] = 0
  <2>1. \A d \in Calls : Witnessed(d)
    BY DEF CallInv, WitnessInv
  <2>2. ASSUME NEW d \in Calls, d # c PROVE Witnessed(d)'
    <3>1. UNCHANGED <<at[d], snapshot[d], checked[d], allowed[d], caps>>
      BY <1>2, <1>3, <2>2
    <3> QED BY <2>1, <3>1 DEF InProgress, ClonedSince, Allows, Check
  <2>3. Witnessed(c)'
    <3> USE DEF InProgress, ClonedSince, Goto
    <3>w. Witnessed(c)
      BY <2>1
    <3>1. CASE Begin(c)
      BY <3>1, <3>w, <1>2, <1>4 DEF Begin, Allows, Check
    <3>2. CASE TraceCall(c)
      BY <3>2, <3>w, <1>2, <1>4 DEF TraceCall, capVars, Allows, Check
    <3>3. CASE TakeSnapshot(c)
      <4>1. /\ at'[c] = "checking" /\ snapshot'[c].caps = caps
            /\ UNCHANGED <<caps, allowed[c], checked[c]>>
        BY <3>3, <1>4 DEF TakeSnapshot, capVars
      <4>2. InProgress(c)
        BY <3>3 DEF TakeSnapshot
      <4>3. checked[c] = 0
        BY <3>3, <3>w DEF TakeSnapshot
      <4> QED BY <4>1, <4>2, <4>3, <3>w DEF Allows, Check
    <3>4. CASE NotRegistered(c)
      BY <3>4, <3>w, <1>2, <1>4 DEF NotRegistered, capVars, Allows, Check
    <3>5. CASE CheckNext(c)
      <4>1. CASE Check(snapshot[c].caps, Required[c][checked[c] + 1])
        <5>1. /\ at'[c] = "checking" /\ checked'[c] = checked[c] + 1
              /\ UNCHANGED <<caps, allowed[c], snapshot[c]>>
          BY <3>5, <4>1, <1>4 DEF CheckNext, Consulted, capVars
        <5>2. ClonedSince(c) /\ InProgress(c)
          BY <3>5 DEF CheckNext
        <5>3. \A i \in 1..(checked[c] + 1) :
                  i \in 1..checked[c] \/ i = checked[c] + 1
          <6>1. checked[c] \in Nat
            BY <1>4
          <6> QED BY <6>1
        <5> QED BY <5>1, <5>2, <5>3, <4>1, <3>w DEF Allows, Check
      <4>2. CASE ~ Check(snapshot[c].caps, Required[c][checked[c] + 1])
        <5>1. /\ at'[c] = "dispatched"
              /\ UNCHANGED <<caps, allowed[c], snapshot[c], checked[c]>>
          BY <3>5, <4>2, <1>4 DEF CheckNext, Consulted, capVars
        <5>2. ClonedSince(c) /\ InProgress(c)
          BY <3>5 DEF CheckNext
        <5> QED BY <5>1, <5>2, <3>w DEF Allows, Check
      <4> QED BY <4>1, <4>2
    <3>6. CASE StartTool(c)
      BY <3>6, <3>w, <1>2, <1>4 DEF StartTool, capVars, Allows, Check
    <3>7. CASE ToolReturns(c)
      BY <3>7, <3>w, <1>2, <1>4 DEF ToolReturns, capVars, Allows, Check
    <3>8. CASE TraceResult(c)
      BY <3>8, <3>w, <1>2, <1>4 DEF TraceResult, capVars, Allows, Check
    <3> QED
      BY <3>1, <3>2, <3>3, <3>4, <3>5, <3>6, <3>7, <3>8 DEF CallStep
  <2> QED BY <2>2, <2>3 DEF WitnessInv
<1>6. GenerationInv'
  <2> SUFFICES ASSUME NEW d \in Calls, ClonedSince(d)',
                      snapshot'[d].generation = generation
               PROVE  snapshot'[d].caps \subseteq caps
    BY <1>2 DEF GenerationInv
  <2>1. CASE d # c
    <3>1. UNCHANGED <<at[d], snapshot[d]>>
      BY <1>3, <2>1
    <3> QED BY <3>1 DEF CallInv, GenerationInv, ClonedSince
  <2>2. CASE d = c /\ TakeSnapshot(c)
    BY <2>2, <1>4 DEF TakeSnapshot
  <2>3. CASE d = c /\ ~ TakeSnapshot(c)
    <3>1. snapshot' = snapshot
      BY <2>3 DEF CallStep, Begin, TraceCall, NotRegistered, CheckNext,
                  StartTool, ToolReturns, TraceResult
    <3>2. ClonedSince(c)
      BY <2>3, <1>4 DEF ClonedSince, CallStep, Begin, TraceCall, NotRegistered,
                        CheckNext, StartTool, ToolReturns, TraceResult, Goto
    <3> QED BY <2>3, <3>1, <3>2 DEF CallInv, GenerationInv
  <2> QED BY <2>1, <2>2, <2>3
<1>7. TraceInv'
  BY TraceKeeps DEF CallInv
<1> QED BY <1>1, <1>5, <1>6, <1>7 DEF CallInv

-----------------------------------------------------------------------------
(* Every step keeps the invariant.                                         *)
LEMMA StepKeeps ==
    ASSUME CallInv, [Next]_vars
    PROVE  CallInv'
<1>1. CASE \E c \in Calls : CallStep(c)
  BY <1>1, CallKeeps
<1>2. ASSUME NEW k \in Capabilities, Grant(k) PROVE CallInv'
  <2>1. caps \union {k} \in SUBSET Capabilities
    BY DEF CallInv, TypeOK
  <2> QED BY <1>2, <2>1, ContextKeeps DEF Grant
<1>3. ASSUME NEW k \in Capabilities, Revoke(k) PROVE CallInv'
  <2>1. caps \ {k} \in SUBSET Capabilities
    BY DEF CallInv, TypeOK
  <2> QED BY <1>3, <2>1, ContextKeeps DEF Revoke, Advanced
<1>4. CASE RevokeAll
  BY <1>4, ContextKeeps DEF RevokeAll, Advanced
<1>5. CASE UNCHANGED vars
  <2>1. TypeOK'
    BY <1>5 DEF vars, capVars, callVars, CallInv, TypeOK
  <2>2. WitnessInv'
    BY <1>5 DEF vars, capVars, callVars, CallInv, WitnessInv, InProgress,
                ClonedSince, Allows, Check
  <2>3. GenerationInv'
    BY <1>5 DEF vars, capVars, callVars, CallInv, GenerationInv, ClonedSince
  <2>4. TraceInv'
    BY ZenonT(40), <1>5 DEF vars, callVars, CallInv, TraceInv, Told
  <2> QED BY <2>1, <2>2, <2>3, <2>4 DEF CallInv
<1> QED BY <1>1, <1>2, <1>3, <1>4, <1>5 DEF Next

(* The inductive invariant holds in every reachable state.                 *)
THEOREM ToolCallInvariant == Spec => []CallInv
  BY InitInvariant, StepKeeps, PTL DEF Spec

(* The state of a context and its calls is well typed.                     *)
THEOREM ToolCallTypes == Spec => []TypeOK
<1>1. CallInv => TypeOK
  BY DEF CallInv
<1> QED BY ToolCallInvariant, <1>1, PTL

(* A tool runs only if the agent held everything it requires at one        *)
(* instant since the call began, however capabilities come and go while    *)
(* the permissions are checked one by one.                                 *)
THEOREM ToolRunsIfAllowedAtOnce == Spec => []RunsIfAllowedAtOnce
<1>1. CallInv => RunsIfAllowedAtOnce
  <2> SUFFICES ASSUME CallInv, NEW c \in Calls, at[c] = "running"
               PROVE  allowed[c]
    BY DEF RunsIfAllowedAtOnce
  <2>1. /\ ClonedSince(c) /\ checked[c] = Len(Required[c])
        /\ \A i \in 1..checked[c] : Check(snapshot[c].caps, Required[c][i])
    BY DEF CallInv, WitnessInv, ClonedSince
  <2>2. DOMAIN Required[c] = 1..Len(Required[c])
    BY RequiredPermissions
  <2>3. Allows(snapshot[c].caps, c)
    BY <2>1, <2>2 DEF Allows
  <2> QED BY <2>1, <2>3 DEF CallInv, WitnessInv
<1> QED BY ToolCallInvariant, <1>1, PTL

(* Whoever else writes to the trace, a call is in it once before its tool  *)
(* runs, and one that returned - denied, unknown, failed or not - has left *)
(* its call and, later in the trace, its result, once each.                *)
THEOREM TraceTellsEveryCall == Spec => []TraceTellsCalls
<1>1. CallInv => TraceTellsCalls
  BY DEF CallInv, TraceInv, TraceTellsCalls
<1> QED BY ToolCallInvariant, <1>1, PTL

(* While the generation of the context is that of a call's clone, nothing  *)
(* the clone grants has been revoked.                                      *)
THEOREM SameGenerationVouches == Spec => []SameGenerationStillGranted
<1>1. CallInv => SameGenerationStillGranted
  BY DEF CallInv, TypeOK, GenerationInv, SameGenerationStillGranted, InProgress,
         ClonedSince
<1> QED BY ToolCallInvariant, <1>1, PTL

-----------------------------------------------------------------------------
(* Replay: the state of the engine, of its clock and of the tasks.         *)

(* The operation of a call in progress is one of the program's.            *)
LEMMA OpIsOp ==
    ASSUME ReplayTypeOK, NEW t \in Tasks, phase[t] # "between"
    PROVE  /\ Op(t) \in Ops /\ begun[t] \in DOMAIN program[t]
           /\ begun[t] = Len(results[t]) + 1 /\ begun[t] \in Nat
<1>1. /\ program[t] \in Seq(Ops) /\ results[t] \in Seq(Outcomes)
      /\ begun[t] \in Nat /\ begun[t] <= Len(program[t])
      /\ begun[t] = Len(results[t]) + 1
  BY DEF ReplayTypeOK
<1>2. Len(results[t]) \in Nat
  BY <1>1
<1>3. begun[t] \in 1 .. Len(program[t])
  BY <1>1, <1>2
<1> QED BY <1>1, <1>3 DEF Op

(* What intercept() returns is the result of the call in progress.         *)
LEMMA Returned ==
    ASSUME ReplayTypeOK, NEW t \in Tasks, phase[t] # "between",
           NEW kind \in {"passthrough", "time", "suppressed", "error", "replayed"},
           NEW value \in Nat, Return(t, kind, value)
    PROVE  /\ results' \in [Tasks -> Seq(Outcomes)]
           /\ phase' \in [Tasks -> {"between", "calling", "numbered"}]
           /\ phase'[t] = "between" /\ Len(results'[t]) = begun[t]
           /\ begun[t] \in DOMAIN results'[t]
           /\ results'[t][begun[t]] = [kind |-> kind, value |-> value]
           /\ \A i \in DOMAIN results[t] :
                 /\ i \in DOMAIN results'[t] /\ i # begun[t]
                 /\ results'[t][i] = results[t][i]
           /\ \A u \in Tasks \ {t} :
                 results'[u] = results[u] /\ phase'[u] = phase[u]
           /\ Served(t)' = Served(t) \union
                  (IF kind = "replayed" THEN {begun[t]} ELSE {})
<1> DEFINE r == [kind |-> kind, value |-> value]
           s == results[t]
<1>1. /\ results \in [Tasks -> Seq(Outcomes)] /\ s \in Seq(Outcomes)
      /\ phase \in [Tasks -> {"between", "calling", "numbered"}]
  BY DEF ReplayTypeOK
<1>2. r \in Outcomes /\ r.kind = kind
  BY DEF Outcomes
<1>3. /\ results' = [results EXCEPT ![t] = Append(s, r)]
      /\ phase' = [phase EXCEPT ![t] = "between"]
  BY DEF Return
<1>4. begun[t] = Len(s) + 1
  BY OpIsOp
<1> HIDE DEF r, s
<1>5. /\ Append(s, r) \in Seq(Outcomes) /\ Len(s) \in Nat
      /\ DOMAIN s = 1 .. Len(s) /\ Len(Append(s, r)) = Len(s) + 1
      /\ DOMAIN Append(s, r) = 1 .. Len(s) + 1
      /\ Append(s, r)[Len(s) + 1] = r
      /\ \A i \in 1 .. Len(s) : Append(s, r)[i] = s[i]
  BY <1>1, <1>2
<1>6. /\ Len(s) + 1 \in 1 .. Len(s) + 1
      /\ \A i \in 1 .. Len(s) : i \in 1 .. Len(s) + 1 /\ i # Len(s) + 1
      /\ \A i \in 1 .. Len(s) + 1 : i \in 1 .. Len(s) \/ i = Len(s) + 1
  BY <1>5
<1>7. results'[t] = Append(s, r) /\ results[t] = s
  BY <1>1, <1>3 DEF s
<1>8. Served(t)' = {i \in DOMAIN Append(s, r) : Append(s, r)[i].kind = "replayed"}
  BY <1>7 DEF Served
<1>9. Served(t) = {i \in DOMAIN s : s[i].kind = "replayed"}
  BY <1>7 DEF Served
<1>10. Served(t)' = Served(t) \union
                       (IF kind = "replayed" THEN {Len(s) + 1} ELSE {})
  BY <1>2, <1>5, <1>6, <1>8, <1>9
<1>11. /\ results' \in [Tasks -> Seq(Outcomes)]
       /\ phase' \in [Tasks -> {"between", "calling", "numbered"}]
       /\ phase'[t] = "between"
       /\ \A u \in Tasks \ {t} : results'[u] = results[u] /\ phase'[u] = phase[u]
  BY <1>1, <1>3, <1>5
<1> QED BY <1>4, <1>5, <1>6, <1>7, <1>10, <1>11 DEF r

LEMMA ReplayTypesBegin == ReplayInit => ReplayTypeOK
<1> SUFFICES ASSUME ReplayInit PROVE ReplayTypeOK
  OBVIOUS
<1>1. program \in [Tasks -> Seq(Ops)] /\ recording \in Seq(Ops)
  BY OperationsAreClassified DEF ReplayInit
<1>2. \A t \in Tasks : Len(program[t]) \in Nat
  BY <1>1
<1>3. <<>> \in Seq(Ops) /\ <<>> \in Seq(Nat) /\ <<>> \in Seq(Outcomes)
      /\ Len(<<>>) = 0 /\ 0 \in 0 .. Len(recording)
  BY <1>1
<1> QED BY <1>1, <1>2, <1>3 DEF ReplayInit, Ready, ReplayTypeOK

(* The steps of one task, by what they return to it.                       *)
Intercepts(t) ==
    PassThrough(t) \/ InjectTime(t) \/ SuppressWrite(t) \/ ExtraCall(t) \/ Serve(t)

LEMMA ReplayTypesKeep ==
    ASSUME ReplayTypeOK, [ReplayNext]_replayVars
    PROVE  ReplayTypeOK'
<1>0. \A u \in Tasks :
        /\ begun[u] \in Nat /\ begun[u] <= Len(program[u])
        /\ begun[u] = Len(results[u]) + (IF phase[u] = "between" THEN 0 ELSE 1)
        /\ Len(program[u]) \in Nat /\ Len(results[u]) \in Nat
  BY DEF ReplayTypeOK
<1>1. ASSUME NEW t \in Tasks, Call(t) PROVE ReplayTypeOK'
  <2>1. /\ begun' \in [Tasks -> Nat]
        /\ phase' \in [Tasks -> {"between", "calling", "numbered"}]
        /\ begun'[t] = begun[t] + 1 /\ phase'[t] = "calling"
        /\ \A u \in Tasks \ {t} : begun'[u] = begun[u] /\ phase'[u] = phase[u]
    BY <1>1 DEF Call, ReplayTypeOK
  <2>2. begun[t] < Len(program[t]) /\ phase[t] = "between"
    BY <1>1 DEF Call
  <2>3. \A u \in Tasks :
          /\ begun'[u] <= Len(program[u])
          /\ begun'[u] = Len(results[u]) + (IF phase'[u] = "between" THEN 0 ELSE 1)
    <3> TAKE u \in Tasks
    <3>1. CASE u = t
      <4>1. begun[t] = Len(results[t]) /\ begun[t] \in Nat /\ Len(program[t]) \in Nat
        <5>1. begun[t] = Len(results[t]) + 0
          BY <1>0, <2>2
        <5> QED BY <1>0, <5>1
      <4>2. begun'[t] = Len(results[t]) + 1 /\ begun'[t] <= Len(program[t])
        BY <2>1, <2>2, <4>1
      <4> QED BY <2>1, <3>1, <4>2
    <3>2. CASE u # t
      <4>1. begun'[u] = begun[u] /\ phase'[u] = phase[u]
        BY <2>1, <3>2
      <4> QED BY <1>0, <4>1
    <3> QED BY <3>1, <3>2
  <2> QED BY <1>1, <2>1, <2>3 DEF Call, ReplayTypeOK, inputs, engineVars
<1>2. ASSUME NEW t \in Tasks,
             NEW kind \in {"passthrough", "time", "suppressed", "error", "replayed"},
             NEW value \in Nat, Return(t, kind, value), phase[t] # "between",
             UNCHANGED <<inputs, begun, number, sequence, is_active>>,
             popped' \in 0 .. Len(recording), clock' \in Nat,
             divergences' \in Seq(Nat), reached' \in Seq(Ops)
      PROVE  ReplayTypeOK'
  <2>1. /\ results' \in [Tasks -> Seq(Outcomes)]
        /\ phase' \in [Tasks -> {"between", "calling", "numbered"}]
        /\ phase'[t] = "between" /\ Len(results'[t]) = begun[t]
        /\ \A u \in Tasks \ {t} : results'[u] = results[u] /\ phase'[u] = phase[u]
    BY ZenonT(40), <1>2, Returned
  <2>2. \A u \in Tasks :
          /\ begun[u] <= Len(program[u])
          /\ begun[u] = Len(results'[u]) + (IF phase'[u] = "between" THEN 0 ELSE 1)
    <3> TAKE u \in Tasks
    <3>1. CASE u = t
      <4>1. begun[t] <= Len(program[t]) /\ begun[t] \in Nat
        BY <1>0
      <4>2. begun[t] = Len(results'[t]) + 0
        BY <2>1, <4>1
      <4> QED BY <2>1, <3>1, <4>1, <4>2
    <3>2. CASE u # t
      <4>1. results'[u] = results[u] /\ phase'[u] = phase[u]
        BY <2>1, <3>2
      <4> QED BY <1>0, <4>1
    <3> QED BY <3>1, <3>2
  <2> QED BY <1>2, <2>1, <2>2 DEF ReplayTypeOK, inputs
<1>a. /\ popped \in 0 .. Len(recording) /\ clock \in Nat /\ sequence \in Nat
      /\ divergences \in Seq(Nat) /\ reached \in Seq(Ops) /\ clock + 1 \in Nat
  BY DEF ReplayTypeOK
<1>3. ASSUME NEW t \in Tasks, PassThrough(t) PROVE ReplayTypeOK'
  BY <1>2, <1>3, <1>a DEF PassThrough, engineVars
<1>4. ASSUME NEW t \in Tasks, InjectTime(t) PROVE ReplayTypeOK'
  BY <1>2, <1>4, <1>a DEF InjectTime, engineVars
<1>5. ASSUME NEW t \in Tasks, SuppressWrite(t) PROVE ReplayTypeOK'
  BY <1>2, <1>5, <1>a DEF SuppressWrite, engineVars
<1>6. ASSUME NEW t \in Tasks, Number(t) PROVE ReplayTypeOK'
  <2>1. /\ number' \in [Tasks -> Nat] /\ sequence' \in Nat
        /\ phase' \in [Tasks -> {"between", "calling", "numbered"}]
        /\ phase'[t] = "numbered" /\ phase[t] = "calling"
        /\ \A u \in Tasks \ {t} : phase'[u] = phase[u]
    BY <1>6 DEF Number, ReplayTypeOK
  <2>2. \A u \in Tasks : phase'[u] = "between" <=> phase[u] = "between"
    BY <2>1
  <2> QED BY <1>6, <2>1, <2>2 DEF Number, ReplayTypeOK, inputs
<1>7. ASSUME NEW t \in Tasks, ExtraCall(t) \/ Serve(t) PROVE ReplayTypeOK'
  <2>1. phase[t] = "numbered" /\ Op(t) \in Ops /\ number[t] \in Nat
    BY <1>7, OpIsOp DEF ExtraCall, Serve, ReplayTypeOK
  <2>2. Append(reached, Op(t)) \in Seq(Ops) /\ Append(divergences, number[t]) \in Seq(Nat)
    BY <1>a, <2>1
  <2>3. CASE ExtraCall(t)
    BY <1>2, <1>a, <2>1, <2>2, <2>3 DEF ExtraCall
  <2>4. CASE Serve(t)
    <3>1. popped' \in 0 .. Len(recording) /\ popped + 1 \in Nat
      <4>1. Len(recording) \in Nat
        BY DEF ReplayTypeOK
      <4> QED BY <1>a, <2>4, <4>1 DEF Serve, Popped
    <3>2. /\ Return(t, "replayed", popped + 1) \/ Return(t, "error", 0)
          /\ divergences' \in {divergences, Append(divergences, number[t])}
          /\ reached' = Append(reached, Op(t))
          /\ UNCHANGED <<inputs, begun, number, sequence, clock, is_active>>
      BY <2>4 DEF Serve
    <3> QED BY <1>2, <1>a, <2>1, <2>2, <3>1, <3>2
  <2> QED BY <1>7, <2>3, <2>4
<1>8. CASE Deactivate
  BY <1>8 DEF Deactivate, ReplayTypeOK, inputs, engineVars
<1>9. CASE UNCHANGED replayVars
  BY <1>9 DEF replayVars, ReplayTypeOK, inputs, engineVars
<1> QED BY <1>1, <1>3, <1>4, <1>5, <1>6, <1>7, <1>8, <1>9 DEF ReplayNext

(* Served results are of recorded calls that were popped, of each one only *)
(* one; without a divergence the calls were compared one by one.           *)
ServedOnce ==
    /\ \A t \in Tasks : \A i \in Served(t) : results[t][i].value \in 1 .. popped
    /\ \A s, t \in Tasks : \A i \in Served(s), j \in Served(t) :
          results[s][i].value = results[t][j].value => s = t /\ i = j

FollowsRecording ==
    divergences = <<>> =>
        /\ Len(reached) = popped
        /\ \A i \in DOMAIN reached : reached[i] = recording[i]

(* Only a call that is replayable is numbered.                             *)
OnlyReplayable ==
    \A t \in Tasks :
        phase[t] = "numbered" => begun[t] \in Replayable(program[t])

(* The recorded calls that t was served are those it made so far, as long  *)
(* as the interceptor is active.                                           *)
Aligned(t, f) ==
    /\ divergences = <<>>
    /\ \A k \in DOMAIN recording : k <= popped => f[k] <= Len(results[t])
    /\ is_active \/ phase[t] = "numbered" =>
          \A k \in DOMAIN recording : f[k] <= Len(results[t]) => k <= popped
    /\ Served(t) = {f[k] : k \in 1 .. popped}
    /\ \A k \in 1 .. popped : results[t][f[k]].value = k

AlignedInv ==
    \A t \in Tasks : \A f \in [DOMAIN recording -> DOMAIN program[t]] :
        Alone(t) /\ Aligns(f, program[t]) => Aligned(t, f)

ReplayInv ==
    /\ ReplayTypeOK /\ ServedOnce /\ FollowsRecording
    /\ OnlyReplayable /\ AlignedInv

(* Facts of the types that the steps below share.                          *)
LEMMA Counters ==
    ASSUME ReplayTypeOK
    PROVE  /\ popped \in Nat /\ Len(recording) \in Nat /\ popped <= Len(recording)
           /\ DOMAIN recording = 1 .. Len(recording)
           /\ Len(reached) \in Nat /\ DOMAIN reached = 1 .. Len(reached)
           /\ \A t \in Tasks :
                 /\ results[t] \in Seq(Outcomes)
                 /\ Len(results[t]) \in Nat
                 /\ DOMAIN results[t] = 1 .. Len(results[t])
BY DEF ReplayTypeOK

(* A call that was compared, or came too late, has left the engine.        *)
LEMMA ServeReturns ==
    ASSUME NEW t \in Tasks, Serve(t)
    PROVE  \/ Return(t, "error", 0)
           \/ Return(t, "replayed", popped + 1)
BY DEF Serve

(* The other steps serve nothing and leave the engine alone.               *)
LEMMA OtherSteps ==
    ASSUME ReplayTypeOK, NEW t \in Tasks,
           PassThrough(t) \/ InjectTime(t) \/ SuppressWrite(t) \/ ExtraCall(t)
    PROVE  /\ phase[t] # "between" /\ popped' = popped
           /\ UNCHANGED <<inputs, begun, is_active>>
           /\ \E kind \in {"passthrough", "time", "suppressed", "error"} :
                 \E value \in Nat : Return(t, kind, value)
<1>1. clock \in Nat
  BY DEF ReplayTypeOK
<1>2. CASE PassThrough(t)
  BY <1>2 DEF PassThrough, engineVars
<1>3. CASE InjectTime(t)
  BY <1>1, <1>3 DEF InjectTime, engineVars
<1>4. CASE SuppressWrite(t)
  BY <1>4 DEF SuppressWrite, engineVars
<1>5. CASE ExtraCall(t)
  BY <1>5 DEF ExtraCall
<1> QED BY <1>2, <1>3, <1>4, <1>5

(* Every step is one of these.                                             *)
LEMMA ReplaySteps ==
    ASSUME ReplayTypeOK, [ReplayNext]_replayVars
    PROVE  \/ /\ UNCHANGED <<inputs, popped, divergences, reached, results>>
              /\ \/ \E t \in Tasks : Call(t) \/ Number(t)
                 \/ Deactivate
                 \/ UNCHANGED replayVars
           \/ \E t \in Tasks : \/ PassThrough(t) \/ InjectTime(t)
                               \/ SuppressWrite(t) \/ ExtraCall(t)
           \/ \E t \in Tasks : Serve(t)
<1>1. ASSUME NEW t \in Tasks, Call(t) \/ Number(t)
      PROVE  UNCHANGED <<inputs, popped, divergences, reached, results>>
  BY <1>1 DEF Call, Number, inputs, engineVars
<1>2. ASSUME Deactivate \/ UNCHANGED replayVars
      PROVE  UNCHANGED <<inputs, popped, divergences, reached, results>>
  BY <1>2 DEF Deactivate, replayVars, inputs, engineVars
<1> QED BY <1>1, <1>2 DEF ReplayNext

LEMMA ServedOnceKeeps ==
    ASSUME ReplayTypeOK, ServedOnce, [ReplayNext]_replayVars
    PROVE  ServedOnce'
<1>0. popped \in Nat
  BY Counters
<1>1. CASE UNCHANGED <<popped, results>>
  BY <1>1 DEF ServedOnce, Served
<1>2. ASSUME NEW t \in Tasks, phase[t] # "between", popped' = popped,
             NEW kind \in {"passthrough", "time", "suppressed", "error"},
             NEW value \in Nat, Return(t, kind, value)
      PROVE  ServedOnce'
  <2>1. /\ \A i \in DOMAIN results[t] : results'[t][i] = results[t][i]
        /\ \A u \in Tasks \ {t} : results'[u] = results[u]
        /\ Served(t)' = Served(t)
    <3>1. /\ \A i \in DOMAIN results[t] : results'[t][i] = results[t][i]
          /\ \A u \in Tasks \ {t} : results'[u] = results[u]
          /\ Served(t)' = Served(t) \union
                (IF kind = "replayed" THEN {begun[t]} ELSE {})
      <4>1. kind \in {"passthrough", "time", "suppressed", "error", "replayed"}
        OBVIOUS
      <4> QED BY ZenonT(40), <1>2, <4>1, Returned
    <3>2. kind # "replayed"
      OBVIOUS
    <3> QED BY <3>1, <3>2
  <2>2. \A u \in Tasks : Served(u)' = Served(u)
    BY <2>1 DEF Served
  <2>3. \A u \in Tasks : \A i \in Served(u) : results'[u][i] = results[u][i]
    BY <2>1 DEF Served
  <2> QED BY <1>2, <2>2, <2>3 DEF ServedOnce
<1>3. ASSUME NEW t \in Tasks, Serve(t)
      PROVE  ServedOnce'
  <2>0. phase[t] # "between" /\ popped' = popped + 1 /\ popped + 1 \in Nat
    BY <1>0, <1>3 DEF Serve, Popped
  <2>1. CASE Return(t, "error", 0)
    <3>1. /\ \A i \in DOMAIN results[t] : results'[t][i] = results[t][i]
          /\ \A u \in Tasks \ {t} : results'[u] = results[u]
          /\ Served(t)' = Served(t)
      BY ZenonT(40), <2>0, <2>1, Returned
    <3>2. \A u \in Tasks : Served(u)' = Served(u)
      BY <3>1 DEF Served
    <3>3. \A u \in Tasks : \A i \in Served(u) : results'[u][i] = results[u][i]
      BY <3>1 DEF Served
    <3>4. \A k \in 1 .. popped : k \in 1 .. popped'
      BY <1>0, <2>0
    <3> QED BY <3>2, <3>3, <3>4 DEF ServedOnce
  <2>2. CASE Return(t, "replayed", popped + 1)
    <3> DEFINE n == begun[t]
    <3>1. /\ \A i \in DOMAIN results[t] : results'[t][i] = results[t][i] /\ i # n
          /\ \A u \in Tasks \ {t} : results'[u] = results[u]
          /\ Served(t)' = Served(t) \union {n}
          /\ results'[t][n].value = popped + 1
      <4>1. /\ results'[t][n] = [kind |-> "replayed", value |-> popped + 1]
            /\ \A i \in DOMAIN results[t] : results'[t][i] = results[t][i] /\ i # n
            /\ \A u \in Tasks \ {t} : results'[u] = results[u]
            /\ Served(t)' = Served(t) \union
                  (IF "replayed" = "replayed" THEN {n} ELSE {})
        BY <2>0, <2>2, Returned
      <4> HIDE DEF n
      <4> QED BY <4>1
    <3> HIDE DEF n
    <3>2. \A u \in Tasks : \A i \in Served(u)' :
            \/ /\ i \in Served(u) /\ (u = t => i # n)
               /\ results'[u][i].value = results[u][i].value
               /\ results'[u][i].value \in 1 .. popped
            \/ u = t /\ i = n /\ results'[u][i].value = popped + 1
      <4> SUFFICES ASSUME NEW u \in Tasks, NEW i \in Served(u)'
                   PROVE  \/ /\ i \in Served(u) /\ (u = t => i # n)
                             /\ results'[u][i].value = results[u][i].value
                             /\ results'[u][i].value \in 1 .. popped
                          \/ u = t /\ i = n /\ results'[u][i].value = popped + 1
        OBVIOUS
      <4>1. CASE u # t
        <5>1. results'[u] = results[u]
          BY <3>1, <4>1
        <5>2. i \in Served(u)
          BY <5>1 DEF Served
        <5> QED BY <4>1, <5>1, <5>2 DEF ServedOnce
      <4>2. CASE u = t /\ i = n
        BY <3>1, <4>2
      <4>3. CASE u = t /\ i # n
        <5>1. i \in Served(t) /\ i \in DOMAIN results[t]
          BY <3>1, <4>3 DEF Served
        <5>2. results'[t][i] = results[t][i]
          BY <3>1, <5>1
        <5> QED BY <4>3, <5>1, <5>2 DEF ServedOnce
      <4> QED BY <4>1, <4>2, <4>3
    <3>3. \A k \in 1 .. popped : k \in 1 .. popped' /\ k # popped + 1
      BY <1>0, <2>0
    <3>4. popped + 1 \in 1 .. popped'
      BY <1>0, <2>0
    <3>5. \A u \in Tasks : \A i \in Served(u)' : results'[u][i].value \in 1 .. popped'
      BY <3>2, <3>3, <3>4
    <3>6. ASSUME NEW s \in Tasks, NEW u \in Tasks,
                 NEW i \in Served(s)', NEW j \in Served(u)',
                 results'[s][i].value = results'[u][j].value
          PROVE  s = u /\ i = j
      <4>1. CASE i \in Served(s) /\ j \in Served(u)
                 /\ results'[s][i].value = results[s][i].value
                 /\ results'[u][j].value = results[u][j].value
        <5>1. results[s][i].value = results[u][j].value
          BY <3>6, <4>1
        <5> QED BY <4>1, <5>1 DEF ServedOnce
      <4>2. CASE s = t /\ i = n /\ u = t /\ j = n
        BY <4>2
      <4> QED BY <3>2, <3>3, <3>6, <4>1, <4>2
    <3> QED BY <3>5, <3>6 DEF ServedOnce
  <2> QED BY <1>3, <2>1, <2>2, ServeReturns
<1>4. ASSUME NEW t \in Tasks,
             PassThrough(t) \/ InjectTime(t) \/ SuppressWrite(t) \/ ExtraCall(t)
      PROVE  ServedOnce'
  BY <1>2, <1>4, OtherSteps
<1> QED BY <1>1, <1>3, <1>4, ReplaySteps

LEMMA FollowsKeeps ==
    ASSUME ReplayTypeOK, FollowsRecording, [ReplayNext]_replayVars
    PROVE  FollowsRecording'
<1>1. CASE UNCHANGED <<inputs, popped, divergences, reached>>
  BY <1>1 DEF FollowsRecording, inputs
<1>2. ASSUME NEW t \in Tasks, ExtraCall(t)
      PROVE  FollowsRecording'
  <2>1. divergences \in Seq(Nat) /\ number[t] \in Nat
    BY DEF ReplayTypeOK
  <2>2. divergences' # <<>>
    BY <1>2, <2>1 DEF ExtraCall
  <2> QED BY <2>2 DEF FollowsRecording
<1>3. ASSUME NEW t \in Tasks, Serve(t)
      PROVE  FollowsRecording'
  <2>1. divergences \in Seq(Nat) /\ number[t] \in Nat /\ reached \in Seq(Ops)
        /\ Op(t) \in Ops
    BY <1>3, OpIsOp DEF ReplayTypeOK, Serve
  <2>2. CASE ~ SameCall(NextRecord, Op(t))
    <3>1. divergences' # <<>>
      BY <1>3, <2>1, <2>2 DEF Serve
    <3> QED BY <3>1 DEF FollowsRecording
  <2>3. CASE SameCall(NextRecord, Op(t))
    <3>1. /\ recording' = recording /\ reached' = Append(reached, Op(t))
          /\ divergences' = divergences /\ popped' = popped + 1
          /\ Op(t) = recording[popped + 1]
      BY <1>3, <2>3 DEF Serve, Popped, SameCall, NextRecord, inputs
    <3> SUFFICES ASSUME divergences = <<>>
                 PROVE  /\ Len(reached') = popped + 1
                        /\ \A i \in DOMAIN reached' : reached'[i] = recording[i]
      BY <3>1 DEF FollowsRecording
    <3>2. Len(reached) = popped /\ \A i \in DOMAIN reached : reached[i] = recording[i]
      BY DEF FollowsRecording
    <3>3. /\ Len(reached') = Len(reached) + 1
          /\ DOMAIN reached' = 1 .. Len(reached) + 1
          /\ DOMAIN reached = 1 .. Len(reached) /\ Len(reached) \in Nat
          /\ reached'[Len(reached) + 1] = Op(t)
          /\ \A i \in 1 .. Len(reached) : reached'[i] = reached[i]
      BY <2>1, <3>1
    <3>4. \A i \in 1 .. Len(reached) + 1 : i \in 1 .. Len(reached) \/ i = Len(reached) + 1
      BY <3>3
    <3> QED BY <3>1, <3>2, <3>3, <3>4
  <2> QED BY <2>2, <2>3
<1>4. ASSUME NEW t \in Tasks, PassThrough(t) \/ InjectTime(t) \/ SuppressWrite(t)
      PROVE  UNCHANGED <<inputs, popped, divergences, reached>>
  BY <1>4 DEF PassThrough, InjectTime, SuppressWrite, engineVars
<1> QED BY <1>1, <1>2, <1>3, <1>4, ReplaySteps

LEMMA OnlyReplayableKeeps ==
    ASSUME ReplayTypeOK, OnlyReplayable, [ReplayNext]_replayVars
    PROVE  OnlyReplayable'
<1>1. ASSUME NEW t \in Tasks, Call(t) PROVE OnlyReplayable'
  <2>1. /\ phase'[t] = "calling" /\ program' = program
        /\ \A u \in Tasks \ {t} : begun'[u] = begun[u] /\ phase'[u] = phase[u]
    BY <1>1 DEF Call, ReplayTypeOK, inputs
  <2> QED BY <2>1 DEF OnlyReplayable, Replayable
<1>2. ASSUME NEW t \in Tasks, Number(t) PROVE OnlyReplayable'
  <2>1. /\ program' = program /\ begun' = begun
        /\ \A u \in Tasks \ {t} : phase'[u] = phase[u]
    BY <1>2 DEF Number, ReplayTypeOK, inputs
  <2>2. begun[t] \in Replayable(program[t])
    <3>1. begun[t] \in DOMAIN program[t]
      BY <1>2, OpIsOp DEF Number
    <3> QED BY <1>2, <3>1 DEF Number, Op, Replayable
  <2> QED BY <2>1, <2>2 DEF OnlyReplayable, Replayable
<1>3. CASE Deactivate \/ UNCHANGED replayVars
  BY <1>3 DEF Deactivate, replayVars, inputs, OnlyReplayable, Replayable
<1>4. ASSUME NEW t \in Tasks, Intercepts(t) PROVE OnlyReplayable'
  <2>1. /\ program' = program /\ begun' = begun
        /\ \E kind, value : Return(t, kind, value)
    BY <1>4 DEF Intercepts, PassThrough, InjectTime, SuppressWrite, ExtraCall,
                Serve, inputs
  <2>2. phase' = [phase EXCEPT ![t] = "between"]
    BY <2>1 DEF Return
  <2>3. phase'[t] = "between" /\ \A u \in Tasks \ {t} : phase'[u] = phase[u]
    BY <2>2 DEF ReplayTypeOK
  <2> QED BY <2>1, <2>3 DEF OnlyReplayable, Replayable
<1> QED BY <1>1, <1>2, <1>3, <1>4, ReplaySteps DEF Intercepts

(* Nobody else is in a call while t is alone.                              *)
LEMMA OnlyCaller ==
    ASSUME ReplayTypeOK, NEW t \in Tasks, Alone(t),
           NEW u \in Tasks, phase[u] # "between"
    PROVE  u = t
<1> SUFFICES ASSUME u # t PROVE FALSE
  OBVIOUS
<1>1. program[u] = <<>>
  BY DEF Alone
<1>2. begun[u] \in DOMAIN program[u]
  BY OpIsOp
<1> QED BY <1>1, <1>2

(* A step that returns nothing keeps what has been served aligned.         *)
LEMMA AlignedBetween ==
    ASSUME ReplayTypeOK, NEW t \in Tasks, NEW f, Aligned(t, f),
           [ReplayNext]_replayVars,
           UNCHANGED <<inputs, popped, divergences, reached, results>>,
           \/ \E u \in Tasks : Call(u) \/ Number(u)
           \/ Deactivate
           \/ UNCHANGED replayVars
    PROVE  Aligned(t, f)'
<1>1. recording' = recording /\ Served(t)' = Served(t)
  BY DEF inputs, Served
<1>2. is_active' \/ phase'[t] = "numbered" => is_active \/ phase[t] = "numbered"
  <2>1. ASSUME NEW u \in Tasks, Call(u)
        PROVE  is_active' = is_active /\ (phase'[t] = "numbered" => phase[t] = "numbered")
    BY <2>1 DEF Call, ReplayTypeOK
  <2>2. ASSUME NEW u \in Tasks, Number(u) PROVE is_active
    BY <2>2 DEF Number
  <2>3. CASE Deactivate
    BY <2>3 DEF Deactivate
  <2>4. CASE UNCHANGED replayVars
    BY <2>4 DEF replayVars
  <2> QED BY <2>1, <2>2, <2>3, <2>4
<1> QED BY <1>1, <1>2 DEF Aligned

(* The calls that follow the recording, up to the present one.             *)
LEMMA PresentCall ==
    ASSUME ReplayTypeOK, OnlyReplayable, NEW t \in Tasks, phase[t] # "between",
           NEW f \in [DOMAIN recording -> DOMAIN program[t]],
           Aligns(f, program[t]), Aligned(t, f)
    PROVE  /\ \A k \in DOMAIN recording :
                 k \in Nat /\ f[k] \in Nat
                 /\ (k <= popped => f[k] < begun[t])
           /\ phase[t] = "numbered" =>
                 /\ popped + 1 \in DOMAIN recording
                 /\ f[popped + 1] = begun[t]
                 /\ \A k \in DOMAIN recording :
                       f[k] <= begun[t] <=> k <= popped + 1
<1> DEFINE n == begun[t]
           m == Len(results[t])
<1>1. /\ n \in Nat /\ m \in Nat /\ n = m + 1 /\ popped \in Nat
      /\ DOMAIN recording = 1 .. Len(recording) /\ Len(recording) \in Nat
  BY OpIsOp, Counters
<1>2. \A k \in DOMAIN recording : f[k] \in Nat
  <2>1. DOMAIN program[t] \subseteq Nat
    <3>1. program[t] \in Seq(Ops)
      BY DEF ReplayTypeOK
    <3> QED BY <3>1
  <2> QED BY <2>1
<1>3. \A k \in DOMAIN recording : k <= popped => f[k] <= m
  BY DEF Aligned
<1> HIDE DEF m, n
<1>4. \A k \in DOMAIN recording :
        k \in Nat /\ f[k] \in Nat /\ (k <= popped => f[k] < n)
  BY <1>1, <1>2, <1>3
<1>5. ASSUME phase[t] = "numbered"
      PROVE  /\ popped + 1 \in DOMAIN recording /\ f[popped + 1] = n
             /\ \A k \in DOMAIN recording : f[k] <= n <=> k <= popped + 1
  <2>1. \A j, k \in DOMAIN recording : j < k => f[j] < f[k]
    BY DEF Aligns
  <2>2. PICK k \in DOMAIN recording : f[k] = n
    BY <1>5 DEF OnlyReplayable, Aligns, n
  <2>3. \A j \in DOMAIN recording : f[j] <= m => j <= popped
    BY <1>5 DEF Aligned, m
  <2>4. ~ (k <= popped)
    BY <1>1, <1>3, <2>2
  <2>5. k \in Nat /\ popped + 1 <= k /\ popped + 1 \in DOMAIN recording
    BY <1>1, <2>4
  <2>6. k = popped + 1
    <3> SUFFICES ASSUME popped + 1 < k PROVE FALSE
      BY <1>1, <2>5
    <3>1. f[popped + 1] < n /\ f[popped + 1] \in Nat
      BY <1>2, <2>1, <2>2, <2>5
    <3>2. f[popped + 1] <= m
      BY <1>1, <3>1
    <3>3. popped + 1 <= popped
      BY <2>3, <2>5, <3>2
    <3> QED BY <1>1, <3>3
  <2>7. ASSUME NEW j \in DOMAIN recording PROVE f[j] <= n <=> j <= k
    <3>0. j \in Nat /\ k \in Nat /\ f[j] \in Nat
      BY <1>4
    <3>1. j < k => f[j] < n
      BY <2>1, <2>2
    <3>2. k < j => n < f[j]
      BY <2>1, <2>2
    <3>3. j = k => f[j] = n
      BY <2>2
    <3> QED BY <1>1, <3>0, <3>1, <3>2, <3>3
  <2> QED BY <2>2, <2>5, <2>6, <2>7
<1> QED BY <1>4, <1>5 DEF n

(* A call that is not compared is none of the recorded ones, as long as    *)
(* the interceptor is active.                                              *)
LEMMA AlignedWithout ==
    ASSUME ReplayTypeOK, OnlyReplayable, NEW t \in Tasks,
           NEW f \in [DOMAIN recording -> DOMAIN program[t]],
           Aligns(f, program[t]), Aligned(t, f),
           PassThrough(t) \/ InjectTime(t) \/ SuppressWrite(t)
    PROVE  Aligned(t, f)'
<1> DEFINE n == begun[t]
           m == Len(results[t])
<1>1. /\ phase[t] = "calling" /\ popped' = popped /\ divergences' = divergences
      /\ recording' = recording /\ is_active' = is_active
      /\ is_active => Class[Op(t)] \in {"pure", "time", "write"}
  BY DEF PassThrough, InjectTime, SuppressWrite, engineVars, inputs
<1>2. PICK kind \in {"passthrough", "time", "suppressed", "error"}, value \in Nat :
         Return(t, kind, value)
  BY OtherSteps
<1>3. /\ Len(results'[t]) = n /\ phase'[t] = "between"
      /\ \A i \in DOMAIN results[t] : results'[t][i] = results[t][i]
      /\ Served(t)' = Served(t)
  <2>1. kind \in {"passthrough", "time", "suppressed", "error", "replayed"}
        /\ kind # "replayed" /\ phase[t] # "between"
    BY <1>1
  <2>2. /\ Len(results'[t]) = n /\ phase'[t] = "between"
        /\ \A i \in DOMAIN results[t] : results'[t][i] = results[t][i]
        /\ Served(t)' = Served(t) \union
              (IF kind = "replayed" THEN {n} ELSE {})
    BY ZenonT(40), <1>2, <2>1, Returned
  <2> QED BY <2>1, <2>2
<1>4. /\ n \in Nat /\ m \in Nat /\ n = m + 1
      /\ n \in DOMAIN program[t]
  BY <1>1, OpIsOp, Counters
<1>5. \A k \in DOMAIN recording :
         k \in Nat /\ f[k] \in Nat /\ (k <= popped => f[k] < n)
  BY <1>1, PresentCall
<1>6. is_active => n \notin Replayable(program[t])
  BY <1>1 DEF Replayable, Op
<1> HIDE DEF n
<1>7. \A k \in DOMAIN recording : k <= popped => f[k] <= n
  BY <1>4, <1>5
<1>8. is_active => \A k \in DOMAIN recording : f[k] <= n => k <= popped
  <2> SUFFICES ASSUME is_active, NEW k \in DOMAIN recording, f[k] <= n
               PROVE  k <= popped
    OBVIOUS
  <2>1. f[k] # n
    BY <1>6 DEF Aligns
  <2>2. f[k] <= m
    BY <1>4, <1>5, <2>1
  <2> QED BY <2>2 DEF Aligned
<1>9. \A k \in 1 .. popped : results'[t][f[k]].value = k
  <2> SUFFICES ASSUME NEW k \in 1 .. popped PROVE results'[t][f[k]].value = k
    OBVIOUS
  <2>1. f[k] \in Served(t) /\ results[t][f[k]].value = k
    BY DEF Aligned
  <2> QED BY <1>3, <2>1 DEF Served
<1> QED BY <1>1, <1>3, <1>7, <1>8, <1>9 DEF Aligned

(* A call that is compared is the next recorded one.                       *)
LEMMA AlignedServed ==
    ASSUME ReplayTypeOK, OnlyReplayable, NEW t \in Tasks,
           NEW f \in [DOMAIN recording -> DOMAIN program[t]],
           Aligns(f, program[t]), Aligned(t, f), Serve(t)
    PROVE  Aligned(t, f)'
<1> DEFINE n == begun[t]
           next == popped + 1
<1>1. phase[t] = "numbered" /\ popped' = next /\ recording' = recording
  BY DEF Serve, Popped, inputs
<1>2. /\ next \in DOMAIN recording /\ f[next] = n
      /\ \A k \in DOMAIN recording : f[k] <= n <=> k <= next
  BY <1>1, PresentCall
<1>3. SameCall(NextRecord, Op(t))
  BY <1>2 DEF Aligns, SameCall, NextRecord, Op
<1>4. divergences' = divergences /\ Return(t, "replayed", next)
  BY <1>3 DEF Serve
<1>5. /\ Len(results'[t]) = n
      /\ \A i \in DOMAIN results[t] : results'[t][i] = results[t][i]
      /\ Served(t)' = Served(t) \union {n}
      /\ results'[t][n].value = next
  <2>1. next \in Nat
    BY Counters
  <2>2. /\ Len(results'[t]) = n
        /\ \A i \in DOMAIN results[t] : results'[t][i] = results[t][i]
        /\ Served(t)' = Served(t) \union
              (IF "replayed" = "replayed" THEN {n} ELSE {})
        /\ results'[t][n] = [kind |-> "replayed", value |-> next]
    BY <1>1, <1>4, <2>1, Returned
  <2> HIDE DEF n, next
  <2> QED BY <2>2
<1>6. \A k \in 1 .. next : k \in 1 .. popped \/ k = next
  BY Counters
<1>7. \A k \in 1 .. popped : k \in 1 .. next
  BY Counters
<1>8. next \in 1 .. next
  BY Counters
<1> HIDE DEF n, next
<1>9. Served(t)' = {f[k] : k \in 1 .. next}
  <2>1. Served(t) = {f[k] : k \in 1 .. popped}
    BY DEF Aligned
  <2> QED BY <1>2, <1>5, <1>6, <1>7, <1>8, <2>1
<1>10. \A k \in 1 .. next : results'[t][f[k]].value = k
  <2> SUFFICES ASSUME NEW k \in 1 .. next PROVE results'[t][f[k]].value = k
    OBVIOUS
  <2>1. CASE k = next
    BY <1>2, <1>5, <2>1
  <2>2. CASE k \in 1 .. popped
    <3>1. f[k] \in Served(t) /\ results[t][f[k]].value = k
      BY <2>2 DEF Aligned
    <3> QED BY <1>5, <3>1 DEF Served
  <2> QED BY <1>6, <2>1, <2>2
<1> QED BY <1>1, <1>2, <1>4, <1>5, <1>9, <1>10 DEF Aligned

LEMMA AlignedKeeps ==
    ASSUME ReplayTypeOK, OnlyReplayable, AlignedInv, [ReplayNext]_replayVars
    PROVE  AlignedInv'
<1>1. program' = program /\ recording' = recording
  BY DEF ReplayNext, Call, PassThrough, InjectTime, SuppressWrite, Number,
         ExtraCall, Serve, Deactivate, replayVars, inputs
<1> SUFFICES ASSUME NEW t \in Tasks, Alone(t),
                    NEW f \in [DOMAIN recording -> DOMAIN program[t]],
                    Aligns(f, program[t])
             PROVE  Aligned(t, f)'
  BY <1>1 DEF AlignedInv, Alone, Aligns, Replayable
<1>2. Aligned(t, f)
  BY DEF AlignedInv
<1>3. ASSUME NEW u \in Tasks, ExtraCall(u) PROVE FALSE
  <2>1. phase[u] = "numbered" /\ popped = Len(recording)
    BY <1>3 DEF ExtraCall
  <2>2. u = t
    BY <2>1, OnlyCaller
  <2>3. popped + 1 \in DOMAIN recording
    BY <1>2, <2>1, <2>2, PresentCall
  <2> QED BY <2>1, <2>3, Counters
<1>4. ASSUME NEW u \in Tasks, PassThrough(u) \/ InjectTime(u) \/ SuppressWrite(u)
      PROVE  Aligned(t, f)'
  <2>1. phase[u] # "between"
    BY <1>4 DEF PassThrough, InjectTime, SuppressWrite
  <2>2. u = t
    BY <2>1, OnlyCaller
  <2> QED BY <1>2, <1>4, <2>2, AlignedWithout
<1>5. ASSUME NEW u \in Tasks, Serve(u) PROVE Aligned(t, f)'
  <2>1. phase[u] # "between"
    BY <1>5 DEF Serve
  <2>2. u = t
    BY <2>1, OnlyCaller
  <2> QED BY <1>2, <1>5, <2>2, AlignedServed
<1> QED BY <1>2, <1>3, <1>4, <1>5, AlignedBetween, ReplaySteps

(* All of it holds before the first call, and through every step.          *)
LEMMA ReplayBegins == ReplayInit => ReplayInv
<1> SUFFICES ASSUME ReplayInit PROVE ReplayInv
  OBVIOUS
<1>1. ReplayTypeOK
  BY ReplayTypesBegin
<1>2. /\ popped = 0 /\ divergences = <<>> /\ reached = <<>>
      /\ \A t \in Tasks : results[t] = <<>> /\ phase[t] = "between"
  BY DEF ReplayInit, Ready
<1>3. \A t \in Tasks : Served(t) = {} /\ Len(results[t]) = 0
  BY <1>2 DEF Served
<1>4. ServedOnce /\ FollowsRecording /\ OnlyReplayable
  BY <1>2, <1>3 DEF ServedOnce, FollowsRecording, OnlyReplayable
<1>5. ASSUME NEW t \in Tasks,
             NEW f \in [DOMAIN recording -> DOMAIN program[t]]
      PROVE  Aligned(t, f)
  <2>1. DOMAIN recording \subseteq Nat \ {0} /\ DOMAIN program[t] \subseteq Nat \ {0}
    BY <1>1 DEF ReplayTypeOK
  <2>2. \A k \in DOMAIN recording : ~ (k <= 0) /\ ~ (f[k] <= 0)
    BY <2>1
  <2>3. 1 .. 0 = {}
    OBVIOUS
  <2> QED BY <1>2, <1>3, <2>2, <2>3 DEF Aligned
<1> QED BY <1>1, <1>4, <1>5 DEF ReplayInv, AlignedInv

LEMMA ReplayKeeps == ReplayInv /\ [ReplayNext]_replayVars => ReplayInv'
<1> SUFFICES ASSUME ReplayInv, [ReplayNext]_replayVars PROVE ReplayInv'
  OBVIOUS
<1>1. ReplayTypeOK /\ ServedOnce /\ FollowsRecording /\ OnlyReplayable /\ AlignedInv
  BY DEF ReplayInv
<1>2. ReplayTypeOK' /\ ServedOnce' /\ FollowsRecording'
  BY <1>1, ReplayTypesKeep, ServedOnceKeeps, FollowsKeeps
<1>3. OnlyReplayable' /\ AlignedInv'
  BY <1>1, OnlyReplayableKeeps, AlignedKeeps
<1> QED BY <1>2, <1>3 DEF ReplayInv

(* The inductive invariant of a replay, over any tasks, programs and        *)
(* recordings: types, every record served to at most one call, the calls    *)
(* compared one by one while nothing diverged, only calls that can be       *)
(* replayed numbered, and a task that replays alone in step with its        *)
(* recording.                                                               *)
THEOREM ReplayInvariant == ReplaySpec => []ReplayInv
  BY ReplayBegins, ReplayKeeps, PTL DEF ReplaySpec

(* The engine, the clock and the results of the tasks are well typed; a    *)
(* task has a result for each of its calls but the one in progress.        *)
THEOREM ReplayTypes == ReplaySpec => []ReplayTypeOK
<1>1. ReplayInv => ReplayTypeOK
  BY DEF ReplayInv
<1> QED BY ReplayInvariant, <1>1, PTL

(* However the tasks interleave between the number and the lock, no        *)
(* recorded result is served twice; and without a divergence the calls     *)
(* that reached the recording are its first ones, call for call.           *)
THEOREM CleanReplayIsPrefix == ReplaySpec => []CleanIsPrefix
<1>1. ReplayInv => CleanIsPrefix
  BY DEF ReplayInv, ServedOnce, FollowsRecording, CleanIsPrefix
<1> QED BY ReplayInvariant, <1>1, PTL

(* A program of one task that makes the recorded calls replays without a   *)
(* divergence and is served each recorded result at the call it belongs    *)
(* to, wherever the interceptor is deactivated.                            *)
THEOREM SameProgramReplaysCleanly == ReplaySpec => []SameProgramReplays
<1>1. ReplayInv => SameProgramReplays
  BY DEF ReplayInv, AlignedInv, Aligned, SameProgramReplays
<1> QED BY ReplayInvariant, <1>1, PTL

-----------------------------------------------------------------------------
(* Metrics: what the increments on their way make of a report. A gain is   *)
(* what a call or all of them add to the counters.                         *)
Gains == [CounterNames -> Int]

(* The first n values of w add up to total.                                *)
Tally(w, n, total) ==
    \E sum \in [0 .. n -> Int] :
        /\ sum[0] = 0 /\ sum[n] = total
        /\ \A k \in 1 .. n : sum[k] = sum[k - 1] + w[k]

-----------------------------------------------------------------------------
(* Of nothing the sum is 0.                                                *)
LEMMA TallyBegins == ASSUME NEW w PROVE Tally(w, 0, 0)
<1>1. PICK sum : sum = [k \in 0 .. 0 |-> 0]
  OBVIOUS
<1>2. sum \in [0 .. 0 -> Int] /\ sum[0] = 0
  BY <1>1
<1> QED BY <1>2 DEF Tally

(* One more value is added to the sum.                                     *)
LEMMA TallyGoesOn ==
    ASSUME NEW n \in Nat, NEW w, NEW total \in Int, Tally(w, n, total),
           NEW v, \A k \in 1 .. n : v[k] = w[k], v[n + 1] \in Int
    PROVE  Tally(v, n + 1, total + v[n + 1])
<1>1. PICK sum \in [0 .. n -> Int] :
          /\ sum[0] = 0 /\ sum[n] = total
          /\ \A k \in 1 .. n : sum[k] = sum[k - 1] + w[k]
  BY DEF Tally
<1>2. PICK x \in Int : x = v[n + 1]
  OBVIOUS
<1>3. PICK new : new = [k \in 0 .. n + 1 |-> IF k <= n THEN sum[k] ELSE total + x]
  OBVIOUS
<1>4. new \in [0 .. n + 1 -> Int]
  BY <1>1, <1>3
<1>5. new[0] = 0 /\ new[n + 1] = total + x
  BY <1>1, <1>3
<1>6. ASSUME NEW k \in 1 .. n + 1 PROVE new[k] = new[k - 1] + v[k]
  <2>1. CASE k <= n
    BY <1>1, <1>3, <2>1
  <2>2. CASE k = n + 1
    <3>1. new[k] = total + x /\ new[k - 1] = total
      BY <1>1, <1>3, <2>2
    <3> QED BY <1>2, <2>2, <3>1
  <2> QED BY <2>1, <2>2
<1> QED BY <1>2, <1>4, <1>5, <1>6 DEF Tally

(* If one value changes, so does the sum.                                  *)
LEMMA TallyChanges ==
    ASSUME NEW n \in Nat, NEW w, NEW total \in Int, Tally(w, n, total),
           NEW v, NEW i \in 1 .. n, NEW by \in Int,
           \A k \in 1 .. n : w[k] \in Int, v[i] = w[i] + by,
           \A k \in 1 .. n : k # i => v[k] = w[k]
    PROVE  Tally(v, n, total + by)
<1>1. PICK sum \in [0 .. n -> Int] :
          /\ sum[0] = 0 /\ sum[n] = total
          /\ \A k \in 1 .. n : sum[k] = sum[k - 1] + w[k]
  BY DEF Tally
<1>2. PICK new : new = [k \in 0 .. n |-> IF k < i THEN sum[k] ELSE sum[k] + by]
  OBVIOUS
<1>3. new \in [0 .. n -> Int]
  <2>1. ASSUME NEW k \in 0 .. n
        PROVE  (IF k < i THEN sum[k] ELSE sum[k] + by) \in Int
    <3>1. sum[k] \in Int
      BY <1>1
    <3> QED BY <3>1
  <2> QED BY <1>2, <2>1
<1>4. new[0] = 0 /\ new[n] = total + by
  <2>1. i \in Int /\ 0 < i /\ ~ (n < i) /\ 0 \in 0 .. n /\ n \in 0 .. n
    OBVIOUS
  <2> QED BY <1>1, <1>2, <2>1
<1>5. ASSUME NEW k \in 1 .. n PROVE new[k] = new[k - 1] + v[k]
  <2>1. /\ sum[k] = sum[k - 1] + w[k]
        /\ sum[k] \in Int /\ sum[k - 1] \in Int
        /\ new[k] = IF k < i THEN sum[k] ELSE sum[k] + by
        /\ new[k - 1] = IF k - 1 < i THEN sum[k - 1] ELSE sum[k - 1] + by
    <3>1. k \in 0 .. n /\ k - 1 \in 0 .. n
      OBVIOUS
    <3>2. sum[k] = sum[k - 1] + w[k]
      BY <1>1
    <3>3. sum[k] \in Int /\ sum[k - 1] \in Int
      BY <1>1, <3>1
    <3> QED BY <1>2, <3>1, <3>2, <3>3
  <2>2. CASE k = i
    <3>1. new[k] = sum[k] + by /\ new[k - 1] = sum[k - 1]
      BY <2>1, <2>2
    <3> QED BY <2>1, <2>2, <3>1
  <2>3. CASE k < i
    <3>1. v[k] = w[k] /\ new[k] = sum[k] /\ new[k - 1] = sum[k - 1]
      BY <2>1, <2>3
    <3> QED BY <2>1, <3>1
  <2>4. CASE k > i
    <3>1. k # i /\ v[k] = w[k] /\ w[k] \in Int
      BY <2>4
    <3>2. new[k] = sum[k] + by /\ new[k - 1] = sum[k - 1] + by
      <4>1. ~ (k < i) /\ ~ (k - 1 < i)
        BY <2>4
      <4> QED BY <2>1, <4>1
    <3>3. /\ sum[k] = sum[k - 1] + v[k] /\ v[k] \in Int
          /\ sum[k - 1] \in Int
      BY <2>1, <3>1
    <3> QED BY <3>2, <3>3
  <2> QED BY <2>2, <2>3, <2>4
<1> QED BY <1>3, <1>4, <1>5 DEF Tally

(* No negative value, no negative sum; of zeros the sum is 0.              *)
LEMMA TallyOfNats ==
    ASSUME NEW n \in Nat, NEW w, NEW total, Tally(w, n, total)
    PROVE  /\ (\A k \in 1 .. n : w[k] \in Nat) => total \in Nat
           /\ (\A k \in 1 .. n : w[k] = 0) => total = 0
<1>1. PICK sum \in [0 .. n -> Int] :
          /\ sum[0] = 0 /\ sum[n] = total
          /\ \A k \in 1 .. n : sum[k] = sum[k - 1] + w[k]
  BY DEF Tally
<1>2. ASSUME NEW Good \in SUBSET Nat, 0 \in Good,
             \A k \in 1 .. n : sum[k - 1] \in Good => sum[k] \in Good
      PROVE  total \in Good
  <2>1. SUFFICES ASSUME total \notin Good PROVE FALSE
    OBVIOUS
  <2>2. PICK bad : bad = {k \in 0 .. n : sum[k] \notin Good}
    OBVIOUS
  <2>3. n \in bad /\ bad \subseteq Nat
    BY <1>1, <2>1, <2>2
  <2>4. PICK k \in bad : \A j \in bad : <<j, k>> \notin OpToRel(<, Nat)
    BY <2>3, NatLessThanWellFounded, WFMin
  <2>5. \A j \in bad : ~ (j < k)
    BY <2>3, <2>4 DEF OpToRel
  <2>6. k \in 1 .. n
    BY <1>1, <1>2, <2>2, <2>3
  <2>7. sum[k - 1] \in Good
    BY <2>2, <2>5, <2>6
  <2> QED BY <1>2, <2>2, <2>6, <2>7
<1>3. ASSUME \A k \in 1 .. n : w[k] \in Nat PROVE total \in Nat
  <2>1. ASSUME NEW k \in 1 .. n, sum[k - 1] \in Nat PROVE sum[k] \in Nat
    <3>1. sum[k] = sum[k - 1] + w[k] /\ w[k] \in Nat
      BY <1>1, <1>3
    <3> QED BY <2>1, <3>1
  <2> QED BY <1>2, <2>1
<1>4. ASSUME \A k \in 1 .. n : w[k] = 0 PROVE total = 0
  <2>1. \A k \in 1 .. n : sum[k - 1] \in {0} => sum[k] \in {0}
    BY <1>1, <1>4
  <2>2. {0} \in SUBSET Nat /\ 0 \in {0}
    OBVIOUS
  <2>3. total \in {0}
    BY <1>2, <2>1, <2>2
  <2> QED BY <2>3
<1> QED BY <1>3, <1>4

-----------------------------------------------------------------------------
(* A sum of gains, counter by counter.                                     *)
LEMMA Sums ==
    ASSUME NEW f \in Gains, NEW g \in Gains
    PROVE  /\ f ++ g \in Gains
           /\ \A c \in CounterNames : (f ++ g)[c] = f[c] + g[c]
  BY DEF Gains, ++

(* The gain of a method that adds nothing.                                 *)
LEMMA NothingIsGain ==
    Nothing \in Gains /\ \A c \in CounterNames : Nothing[c] = 0
  BY DEF Gains, Nothing

-----------------------------------------------------------------------------
(* What a report says of gains v, if no increment is on its way.           *)
AgentsFit(v) ==
    v[<<"agents", "active">>] =
        v[<<"agents", "started">>] - v[<<"agents", "completed">>]
            - v[<<"agents", "failed">>] - v[<<"agents", "timed_out">>]

PromisesFit(v) ==
    v[<<"promises", "pending">>] =
        v[<<"promises", "created">>] - v[<<"promises", "resolved">>]
            - v[<<"promises", "rejected">>]

HitsFit(v) == v[<<"modules", "cache_hits">>] <= v[<<"modules", "loaded">>]

(* A sum of durations that these buckets allow.                            *)
Allowed(sum, b1, b2, b3, b4, b5, b6) ==
    /\ 100 * b2 + 1000 * b3 + 10000 * b4 + 100000 * b5 + 1000000 * b6 <= sum
    /\ b6 >= 0
    /\ b6 = 0 =>
         sum <= 99 * b1 + 999 * b2 + 9999 * b3 + 99999 * b4 + 999999 * b5

LatencyFits(v, h, tally) ==
    LET b(k) == v[<<h, Buckets[k]>>]
    IN  /\ v[<<h, "count">>] = v[tally]
        /\ b(1) + b(2) + b(3) + b(4) + b(5) + b(6) = v[<<h, "count">>]
        /\ Allowed(v[<<h, "sum_us">>], b(1), b(2), b(3), b(4), b(5), b(6))

Fits(v) ==
    /\ AgentsFit(v) /\ PromisesFit(v) /\ HitsFit(v)
    /\ LatencyFits(v, "tool_latency", <<"tools", "total">>)
    /\ LatencyFits(v, "module_load_latency", <<"modules", "loaded">>)
    /\ LatencyFits(v, "eval_latency", <<"eval", "calls">>)

(* The buckets have six names, none of them of another counter.            *)
LEMMA BucketNames ==
    /\ Buckets[1] = "<100us" /\ Buckets[2] = "<1ms" /\ Buckets[3] = "<10ms"
    /\ Buckets[4] = "<100ms" /\ Buckets[5] = "<1s" /\ Buckets[6] = ">=1s"
    /\ DOMAIN Buckets = 1 .. 6 /\ Len(Buckets) = 6
    /\ \A j, k \in 1 .. 6 : Buckets[j] = Buckets[k] => j = k
    /\ \A k \in 1 .. 6 : Buckets[k] \notin {"sum_us", "count"}
<1>1. /\ Buckets[1] = "<100us" /\ Buckets[2] = "<1ms" /\ Buckets[3] = "<10ms"
      /\ Buckets[4] = "<100ms" /\ Buckets[5] = "<1s" /\ Buckets[6] = ">=1s"
      /\ DOMAIN Buckets = 1 .. 6 /\ Len(Buckets) = 6
  BY DEF Buckets
<1>2. \A k \in 1 .. 6 : k \in {1, 2, 3, 4, 5, 6}
  OBVIOUS
<1>3. \A j, k \in 1 .. 6 : Buckets[j] = Buckets[k] => j = k
  BY <1>1, <1>2
<1>4. \A k \in 1 .. 6 : Buckets[k] \notin {"sum_us", "count"}
  BY <1>1, <1>2
<1> QED BY <1>1, <1>3, <1>4

(* The counters of a histogram.                                            *)
LEMMA LatencyNames ==
    ASSUME NEW h \in Histograms
    PROVE  /\ <<h, "sum_us">> \in CounterNames
           /\ <<h, "count">> \in CounterNames
           /\ \A k \in 1 .. 6 : <<h, Buckets[k]>> \in CounterNames
<1>1. \A k \in 1 .. 6 : Buckets[k] \in ToSet(Buckets)
  BY BucketNames DEF ToSet
<1> QED BY <1>1 DEF CounterNames

(* The counters outside the histograms.                                    *)
LEMMA OtherNames ==
    /\ \A n \in {"started", "completed", "failed", "timed_out", "active"} :
         <<"agents", n>> \in CounterNames
    /\ \A n \in {"created", "resolved", "rejected", "pending"} :
         <<"promises", n>> \in CounterNames
    /\ \A n \in {"loaded", "cache_hits", "transpiled"} :
         <<"modules", n>> \in CounterNames
    /\ {<<"tools", "total">>, <<"tools", "failed">>, <<"eval", "calls">>,
        <<"permissions", "allowed">>, <<"permissions", "denied">>}
           \subseteq CounterNames
  BY DEF CounterNames

-----------------------------------------------------------------------------
(* What the buckets allow of two sums they allow of the sum of both.       *)
LEMMA AllowedSums ==
    ASSUME NEW s \in Int, NEW s1 \in Int, NEW s2 \in Int, NEW s3 \in Int,
           NEW s4 \in Int, NEW s5 \in Int, NEW s6 \in Int,
           NEW r \in Int, NEW r1 \in Int, NEW r2 \in Int, NEW r3 \in Int,
           NEW r4 \in Int, NEW r5 \in Int, NEW r6 \in Int,
           Allowed(s, s1, s2, s3, s4, s5, s6), Allowed(r, r1, r2, r3, r4, r5, r6)
    PROVE  Allowed(s + r, s1 + r1, s2 + r2, s3 + r3, s4 + r4, s5 + r5, s6 + r6)
  BY DEF Allowed

(* Two histograms that fit add up to one that fits: if no duration is in   *)
(* the last bucket of the sum, none is in that of either.                  *)
LEMMA LatencySums ==
    ASSUME NEW f \in Gains, NEW g \in Gains,
           NEW h \in Histograms, NEW tally \in CounterNames,
           LatencyFits(f, h, tally), LatencyFits(g, h, tally)
    PROVE  LatencyFits(f ++ g, h, tally)
<1>1. \A c \in CounterNames : f[c] \in Int /\ g[c] \in Int
  BY DEF Gains
<1>2. \A c \in CounterNames : (f ++ g)[c] = f[c] + g[c]
  BY Sums
<1>3. \A k \in 1 .. 6 :
          /\ f[<<h, Buckets[k]>>] \in Int /\ g[<<h, Buckets[k]>>] \in Int
          /\ (f ++ g)[<<h, Buckets[k]>>] =
                 f[<<h, Buckets[k]>>] + g[<<h, Buckets[k]>>]
  BY <1>1, <1>2, LatencyNames
<1>4. /\ f[<<h, "count">>] \in Int /\ g[<<h, "count">>] \in Int
      /\ f[<<h, "sum_us">>] \in Int /\ g[<<h, "sum_us">>] \in Int
      /\ (f ++ g)[<<h, "count">>] = f[<<h, "count">>] + g[<<h, "count">>]
      /\ (f ++ g)[<<h, "sum_us">>] = f[<<h, "sum_us">>] + g[<<h, "sum_us">>]
      /\ (f ++ g)[tally] = f[tally] + g[tally]
  BY <1>1, <1>2, LatencyNames
<1>5. 1 \in 1 .. 6 /\ 2 \in 1 .. 6 /\ 3 \in 1 .. 6 /\ 4 \in 1 .. 6
      /\ 5 \in 1 .. 6 /\ 6 \in 1 .. 6
  OBVIOUS
<1> DEFINE F(k) == f[<<h, Buckets[k]>>]
           G(k) == g[<<h, Buckets[k]>>]
           S(k) == (f ++ g)[<<h, Buckets[k]>>]
<1>6. /\ F(1) \in Int /\ F(2) \in Int /\ F(3) \in Int
      /\ F(4) \in Int /\ F(5) \in Int /\ F(6) \in Int
      /\ G(1) \in Int /\ G(2) \in Int /\ G(3) \in Int
      /\ G(4) \in Int /\ G(5) \in Int /\ G(6) \in Int
  BY <1>3, <1>5
<1>7. /\ S(1) = F(1) + G(1) /\ S(2) = F(2) + G(2) /\ S(3) = F(3) + G(3)
      /\ S(4) = F(4) + G(4) /\ S(5) = F(5) + G(5) /\ S(6) = F(6) + G(6)
  BY <1>3, <1>5
<1>8. /\ f[<<h, "count">>] = f[tally] /\ g[<<h, "count">>] = g[tally]
      /\ F(1) + F(2) + F(3) + F(4) + F(5) + F(6) = f[<<h, "count">>]
      /\ G(1) + G(2) + G(3) + G(4) + G(5) + G(6) = g[<<h, "count">>]
  BY DEF LatencyFits
<1>9. /\ Allowed(f[<<h, "sum_us">>], F(1), F(2), F(3), F(4), F(5), F(6))
      /\ Allowed(g[<<h, "sum_us">>], G(1), G(2), G(3), G(4), G(5), G(6))
  BY DEF LatencyFits
<1> HIDE DEF F, G, S
<1>10. Allowed((f ++ g)[<<h, "sum_us">>], S(1), S(2), S(3), S(4), S(5), S(6))
  <2>1. f[<<h, "sum_us">>] \in Int /\ g[<<h, "sum_us">>] \in Int
    BY <1>4
  <2>2. Allowed(f[<<h, "sum_us">>] + g[<<h, "sum_us">>], F(1) + G(1),
            F(2) + G(2), F(3) + G(3), F(4) + G(4), F(5) + G(5), F(6) + G(6))
    BY <1>6, <1>9, <2>1, AllowedSums
  <2>3. (f ++ g)[<<h, "sum_us">>] = f[<<h, "sum_us">>] + g[<<h, "sum_us">>]
    BY <1>4
  <2> QED BY <1>7, <2>2, <2>3
<1>11. S(1) + S(2) + S(3) + S(4) + S(5) + S(6) = (f ++ g)[<<h, "count">>]
  BY <1>4, <1>6, <1>7, <1>8
<1>12. (f ++ g)[<<h, "count">>] = (f ++ g)[tally]
  BY <1>4, <1>8
<1> QED BY <1>10, <1>11, <1>12 DEF LatencyFits, S

(* Gains that fit add up to gains that fit.                                *)
LEMMA FitSums ==
    ASSUME NEW f \in Gains, NEW g \in Gains, Fits(f), Fits(g)
    PROVE  Fits(f ++ g)
<1>1. \A c \in CounterNames :
          f[c] \in Int /\ g[c] \in Int /\ (f ++ g)[c] = f[c] + g[c]
  BY Sums DEF Gains
<1>2. AgentsFit(f ++ g)
  BY <1>1, OtherNames DEF AgentsFit, Fits
<1>3. PromisesFit(f ++ g)
  BY <1>1, OtherNames DEF PromisesFit, Fits
<1>4. HitsFit(f ++ g)
  BY <1>1, OtherNames DEF HitsFit, Fits
<1>5. {"tool_latency", "module_load_latency", "eval_latency"} \subseteq Histograms
  BY DEF Histograms
<1>6. /\ LatencyFits(f ++ g, "tool_latency", <<"tools", "total">>)
      /\ LatencyFits(f ++ g, "module_load_latency", <<"modules", "loaded">>)
      /\ LatencyFits(f ++ g, "eval_latency", <<"eval", "calls">>)
  BY <1>5, LatencySums, OtherNames DEF Fits
<1> QED BY <1>2, <1>3, <1>4, <1>6 DEF Fits

(* A report in which all is zero fits.                                     *)
LEMMA NothingFits == Fits(Nothing)
<1>1. \A c \in CounterNames : Nothing[c] = 0
  BY NothingIsGain
<1>2. AgentsFit(Nothing) /\ PromisesFit(Nothing) /\ HitsFit(Nothing)
  BY <1>1, OtherNames DEF AgentsFit, PromisesFit, HitsFit
<1>3. ASSUME NEW h \in Histograms, NEW tally \in CounterNames
      PROVE  LatencyFits(Nothing, h, tally)
  <2>1. /\ Nothing[<<h, "count">>] = 0 /\ Nothing[tally] = 0
        /\ Nothing[<<h, "sum_us">>] = 0
    BY <1>1, LatencyNames
  <2>2. \A k \in 1 .. 6 : Nothing[<<h, Buckets[k]>>] = 0
    BY <1>1, LatencyNames
  <2>3. /\ Nothing[<<h, Buckets[1]>>] = 0 /\ Nothing[<<h, Buckets[2]>>] = 0
        /\ Nothing[<<h, Buckets[3]>>] = 0 /\ Nothing[<<h, Buckets[4]>>] = 0
        /\ Nothing[<<h, Buckets[5]>>] = 0 /\ Nothing[<<h, Buckets[6]>>] = 0
    BY <2>2
  <2>4. Allowed(0, 0, 0, 0, 0, 0, 0)
    BY DEF Allowed
  <2> QED BY <2>1, <2>3, <2>4 DEF LatencyFits
<1> QED BY <1>2, <1>3, OtherNames DEF Fits, Histograms

(* A duration goes to the bucket whose bounds enclose it.                  *)
LEMMA BucketEncloses ==
    ASSUME NEW d \in Nat
    PROVE  \/ Bucket(d) = 1 /\ d <= 99
           \/ Bucket(d) = 2 /\ 100 <= d /\ d <= 999
           \/ Bucket(d) = 3 /\ 1000 <= d /\ d <= 9999
           \/ Bucket(d) = 4 /\ 10000 <= d /\ d <= 99999
           \/ Bucket(d) = 5 /\ 100000 <= d /\ d <= 999999
           \/ Bucket(d) = 6 /\ 1000000 <= d
<1>1. /\ Bounds[1] = 100 /\ Bounds[2] = 1000 /\ Bounds[3] = 10000
      /\ Bounds[4] = 100000 /\ Bounds[5] = 1000000
  BY DEF Bounds
<1> DEFINE Fit(k) == /\ k = Len(Buckets) \/ Below(d, Bounds[k])
                     /\ \A j \in 1 .. k - 1 : ~ Below(d, Bounds[j])
<1>2. \E k \in 1 .. 6 : Fit(k)
  <2>1. /\ Below(d, Bounds[1]) <=> d < 100
        /\ Below(d, Bounds[2]) <=> d < 1000
        /\ Below(d, Bounds[3]) <=> d < 10000
        /\ Below(d, Bounds[4]) <=> d < 100000
        /\ Below(d, Bounds[5]) <=> d < 1000000
    BY <1>1 DEF Below
  <2>2. CASE d < 100
    BY <2>1, <2>2
  <2>3. CASE 100 <= d /\ d < 1000
    <3>1. Fit(2)
      BY <2>1, <2>3
    <3> QED BY <3>1
  <2>4. CASE 1000 <= d /\ d < 10000
    <3>1. Fit(3)
      BY <2>1, <2>4
    <3> QED BY <3>1
  <2>5. CASE 10000 <= d /\ d < 100000
    <3>1. Fit(4)
      BY <2>1, <2>5
    <3> QED BY <3>1
  <2>6. CASE 100000 <= d /\ d < 1000000
    <3>1. Fit(5)
      BY <2>1, <2>6
    <3> QED BY <3>1
  <2>7. CASE 1000000 <= d
    <3>1. Fit(6)
      BY <2>1, <2>7, BucketNames
    <3> QED BY <3>1
  <2> QED BY <2>2, <2>3, <2>4, <2>5, <2>6, <2>7
<1>3. Bucket(d) \in 1 .. 6 /\ Fit(Bucket(d))
  BY <1>2, BucketNames DEF Bucket
<1>4. PICK k \in 1 .. 6 : k = Bucket(d)
  BY <1>3
<1>5. /\ k = 6 \/ d < Bounds[k]
      /\ \A j \in 1 .. k - 1 : ~ (d < Bounds[j])
  BY <1>3, <1>4, BucketNames DEF Below
<1>6. k \in {1, 2, 3, 4, 5, 6}
  OBVIOUS
<1>7. /\ k = 1 => d <= 99
      /\ k = 2 => 100 <= d /\ d <= 999
      /\ k = 3 => 1000 <= d /\ d <= 9999
      /\ k = 4 => 10000 <= d /\ d <= 99999
      /\ k = 5 => 100000 <= d /\ d <= 999999
      /\ k = 6 => 1000000 <= d
  BY <1>1, <1>5
<1> QED BY <1>4, <1>6, <1>7

-----------------------------------------------------------------------------
Gauges == {<<"agents", "active">>, <<"promises", "pending">>}

(* What a method may add: a to the active agents, p to the pending         *)
(* promises, nothing negative to the other counters, and all of it fits.   *)
Adds(g, a, p) ==
    /\ g \in Gains /\ Fits(g)
    /\ \A c \in CounterNames \ Gauges : g[c] >= 0
    /\ g[<<"agents", "active">>] = a /\ g[<<"promises", "pending">>] = p

(* What Add adds, and to which counter.                                    *)
LEMMA AddIsGain ==
    ASSUME NEW group, NEW name, NEW by \in Int
    PROVE  /\ Add(group, name, by) \in Gains
           /\ \A c \in CounterNames :
                  Add(group, name, by)[c] = IF c = <<group, name>> THEN by ELSE 0
  BY DEF Add, Gains

(* What Inc and Dec add, and to which counter.                             *)
LEMMA IncIsGain ==
    ASSUME NEW group, NEW name
    PROVE  /\ Inc(group, name) \in Gains
           /\ \A c \in CounterNames :
                  Inc(group, name)[c] = IF c = <<group, name>> THEN 1 ELSE 0
           /\ Dec(group, name) \in Gains
           /\ \A c \in CounterNames :
                  Dec(group, name)[c] = IF c = <<group, name>> THEN -1 ELSE 0
  BY AddIsGain DEF Inc, Dec

(* A histogram that a method leaves alone.                                 *)
LEMMA UntouchedFits ==
    ASSUME NEW g \in Gains, NEW h \in Histograms, NEW tally \in CounterNames,
           g[tally] = 0,
           \A n : <<h, n>> \in CounterNames => g[<<h, n>>] = 0
    PROVE  LatencyFits(g, h, tally)
<1>1. g[<<h, "count">>] = 0 /\ g[<<h, "sum_us">>] = 0
  BY LatencyNames
<1>2. \A k \in 1 .. 6 : g[<<h, Buckets[k]>>] = 0
  BY LatencyNames
<1>3. /\ g[<<h, Buckets[1]>>] = 0 /\ g[<<h, Buckets[2]>>] = 0
      /\ g[<<h, Buckets[3]>>] = 0 /\ g[<<h, Buckets[4]>>] = 0
      /\ g[<<h, Buckets[5]>>] = 0 /\ g[<<h, Buckets[6]>>] = 0
  BY <1>2
<1>4. Allowed(0, 0, 0, 0, 0, 0, 0)
  BY DEF Allowed
<1> QED BY <1>1, <1>3, <1>4 DEF LatencyFits

(* Record adds the duration to the sum, and one to the count and to its    *)
(* bucket.                                                                 *)
LEMMA RecordIsGain ==
    ASSUME NEW h \in Histograms, NEW d \in Nat
    PROVE  /\ Record(h, d) \in Gains
           /\ Record(h, d)[<<h, "sum_us">>] = d
           /\ Record(h, d)[<<h, "count">>] = 1
           /\ \A k \in 1 .. 6 : Record(h, d)[<<h, Buckets[k]>>] =
                                    IF k = Bucket(d) THEN 1 ELSE 0
           /\ \A c \in CounterNames : Record(h, d)[c] >= 0
           /\ \A group, name : <<group, name>> \in CounterNames /\ group # h
                  => Record(h, d)[<<group, name>>] = 0
<1>1. PICK bucket : bucket = Buckets[Bucket(d)]
  OBVIOUS
<1>2. /\ Add(h, "sum_us", d) \in Gains /\ Inc(h, "count") \in Gains
      /\ Inc(h, bucket) \in Gains
  BY AddIsGain, IncIsGain
<1>3. Add(h, "sum_us", d) ++ Inc(h, "count") \in Gains
  BY <1>2, Sums
<1>4. Record(h, d) \in Gains
  BY <1>1, <1>2, <1>3, Sums DEF Record
<1>5. ASSUME NEW c \in CounterNames
      PROVE  Record(h, d)[c] = (IF c = <<h, "sum_us">> THEN d ELSE 0)
                                 + (IF c = <<h, "count">> THEN 1 ELSE 0)
                                 + (IF c = <<h, bucket>> THEN 1 ELSE 0)
  <2>1. Record(h, d)[c] =
          (Add(h, "sum_us", d) ++ Inc(h, "count"))[c] + Inc(h, bucket)[c]
    BY <1>1, <1>2, <1>3, Sums DEF Record
  <2>2. (Add(h, "sum_us", d) ++ Inc(h, "count"))[c] =
            Add(h, "sum_us", d)[c] + Inc(h, "count")[c]
    BY <1>2, Sums
  <2>3. /\ Add(h, "sum_us", d)[c] = IF c = <<h, "sum_us">> THEN d ELSE 0
        /\ Inc(h, "count")[c] = IF c = <<h, "count">> THEN 1 ELSE 0
        /\ Inc(h, bucket)[c] = IF c = <<h, bucket>> THEN 1 ELSE 0
    BY AddIsGain, IncIsGain
  <2> QED BY <2>1, <2>2, <2>3
<1>6. Bucket(d) \in 1 .. 6
  BY BucketEncloses
<1>7. bucket # "sum_us" /\ bucket # "count"
  BY <1>1, <1>6, BucketNames
<1>8. Record(h, d)[<<h, "sum_us">>] = d
  <2>1. PICK c \in CounterNames : c = <<h, "sum_us">>
    BY LatencyNames
  <2>2. c # <<h, "count">> /\ c # <<h, bucket>>
    BY <1>7, <2>1
  <2>3. Record(h, d)[c] = d + 0 + 0
    BY <1>5, <2>1, <2>2
  <2> QED BY <2>1, <2>3
<1>9. Record(h, d)[<<h, "count">>] = 1
  <2>1. PICK c \in CounterNames : c = <<h, "count">>
    BY LatencyNames
  <2>2. c # <<h, "sum_us">> /\ c # <<h, bucket>>
    BY <1>7, <2>1
  <2>3. Record(h, d)[c] = 0 + 1 + 0
    BY <1>5, <2>1, <2>2
  <2> QED BY <2>1, <2>3
<1>10. ASSUME NEW k \in 1 .. 6
       PROVE  Record(h, d)[<<h, Buckets[k]>>] = IF k = Bucket(d) THEN 1 ELSE 0
  <2>1. /\ Buckets[k] # "sum_us" /\ Buckets[k] # "count"
        /\ Buckets[k] = bucket <=> k = Bucket(d)
    BY <1>1, <1>6, BucketNames
  <2>2. PICK c \in CounterNames : c = <<h, Buckets[k]>>
    BY LatencyNames
  <2>3. /\ c # <<h, "sum_us">> /\ c # <<h, "count">>
        /\ c = <<h, bucket>> <=> k = Bucket(d)
    BY <2>1, <2>2
  <2>4. Record(h, d)[c] = 0 + 0 + (IF k = Bucket(d) THEN 1 ELSE 0)
    BY <1>5, <2>3
  <2> QED BY <2>2, <2>4
<1>11. \A c \in CounterNames : Record(h, d)[c] >= 0
  BY <1>5
<1>12. \A group, name : <<group, name>> \in CounterNames /\ group # h
           => Record(h, d)[<<group, name>>] = 0
  BY <1>5
<1> QED BY <1>4, <1>8, <1>9, <1>10, <1>11, <1>12

(* Record in one bucket.                                                   *)
LEMMA RecordBucket ==
    ASSUME NEW h \in Histograms, NEW d \in Nat, NEW k \in 1 .. 6
    PROVE  Record(h, d)[<<h, Buckets[k]>>] = IF k = Bucket(d) THEN 1 ELSE 0
<1>1. \A j \in 1 .. 6 : Record(h, d)[<<h, Buckets[j]>>] =
                             IF j = Bucket(d) THEN 1 ELSE 0
  BY RecordIsGain
<1> QED BY <1>1

(* A histogram to which a method adds one duration.                        *)
LEMMA RecordedFits ==
    ASSUME NEW g \in Gains, NEW h \in Histograms, NEW tally \in CounterNames,
           NEW d \in Nat, g[tally] = 1,
           \A n : <<h, n>> \in CounterNames =>
                      g[<<h, n>>] = Record(h, d)[<<h, n>>]
    PROVE  LatencyFits(g, h, tally)
<1>1. g[<<h, "count">>] = 1 /\ g[<<h, "sum_us">>] = d
  <2>1. /\ g[<<h, "count">>] = Record(h, d)[<<h, "count">>]
        /\ g[<<h, "sum_us">>] = Record(h, d)[<<h, "sum_us">>]
    BY LatencyNames
  <2>2. /\ Record(h, d)[<<h, "count">>] = 1
        /\ Record(h, d)[<<h, "sum_us">>] = d
    BY RecordIsGain
  <2> QED BY <2>1, <2>2
<1>2. ASSUME NEW k \in 1 .. 6
      PROVE  g[<<h, Buckets[k]>>] = IF k = Bucket(d) THEN 1 ELSE 0
  <2>1. g[<<h, Buckets[k]>>] = Record(h, d)[<<h, Buckets[k]>>]
    BY LatencyNames
  <2> QED BY <2>1, RecordBucket
<1>3. PICK slot : slot = Bucket(d)
  OBVIOUS
<1>4. /\ g[<<h, Buckets[1]>>] = IF slot = 1 THEN 1 ELSE 0
      /\ g[<<h, Buckets[2]>>] = IF slot = 2 THEN 1 ELSE 0
      /\ g[<<h, Buckets[3]>>] = IF slot = 3 THEN 1 ELSE 0
      /\ g[<<h, Buckets[4]>>] = IF slot = 4 THEN 1 ELSE 0
      /\ g[<<h, Buckets[5]>>] = IF slot = 5 THEN 1 ELSE 0
      /\ g[<<h, Buckets[6]>>] = IF slot = 6 THEN 1 ELSE 0
  BY <1>2, <1>3
<1>5. \/ slot = 1 /\ d <= 99
      \/ slot = 2 /\ 100 <= d /\ d <= 999
      \/ slot = 3 /\ 1000 <= d /\ d <= 9999
      \/ slot = 4 /\ 10000 <= d /\ d <= 99999
      \/ slot = 5 /\ 100000 <= d /\ d <= 999999
      \/ slot = 6 /\ 1000000 <= d
  BY <1>3, BucketEncloses
<1> DEFINE b(k) == g[<<h, Buckets[k]>>]
<1>6. b(1) + b(2) + b(3) + b(4) + b(5) + b(6) = 1
  BY <1>4, <1>5
<1>7. Allowed(d, b(1), b(2), b(3), b(4), b(5), b(6))
  BY <1>4, <1>5 DEF Allowed
<1> QED BY <1>1, <1>6, <1>7 DEF LatencyFits

(* No histogram has the name of a group of counters.                       *)
LEMMA ThreeHistograms ==
    /\ Histograms = {"tool_latency", "module_load_latency", "eval_latency"}
    /\ \A h \in Histograms : h \notin {"agents", "tools", "promises", "modules",
                                       "eval", "permissions"}
  BY DEF Histograms

(* A method that records no duration.                                      *)
LEMMA PlainFits ==
    ASSUME NEW g \in Gains, AgentsFit(g), PromisesFit(g),
           g[<<"tools", "total">>] = 0, g[<<"modules", "loaded">>] = 0,
           g[<<"modules", "cache_hits">>] = 0, g[<<"eval", "calls">>] = 0,
           \A h \in Histograms : \A n : <<h, n>> \in CounterNames
               => g[<<h, n>>] = 0
    PROVE  Fits(g)
<1>1. \A h \in Histograms :
          /\ LatencyFits(g, h, <<"tools", "total">>)
          /\ LatencyFits(g, h, <<"modules", "loaded">>)
          /\ LatencyFits(g, h, <<"eval", "calls">>)
  BY UntouchedFits, OtherNames
<1>2. HitsFit(g)
  BY DEF HitsFit
<1> QED BY <1>1, <1>2, ThreeHistograms DEF Fits

(* A method that increments one counter and moves another of its group.    *)
LEMMA TwoIncrements ==
    ASSUME NEW group, NEW a, NEW b, a # b
    PROVE  /\ Inc(group, a) ++ Inc(group, b) \in Gains
           /\ Inc(group, a) ++ Dec(group, b) \in Gains
           /\ \A c \in CounterNames :
                  (Inc(group, a) ++ Inc(group, b))[c] =
                      IF c = <<group, a>> THEN 1
                      ELSE IF c = <<group, b>> THEN 1 ELSE 0
           /\ \A c \in CounterNames :
                  (Inc(group, a) ++ Dec(group, b))[c] =
                      IF c = <<group, a>> THEN 1
                      ELSE IF c = <<group, b>> THEN -1 ELSE 0
<1>1. PICK f \in Gains : f = Inc(group, a)
  BY IncIsGain
<1>2. PICK g \in Gains : g = Inc(group, b)
  BY IncIsGain
<1>3. PICK h \in Gains : h = Dec(group, b)
  BY IncIsGain
<1>4. /\ \A c \in CounterNames : f[c] = IF c = <<group, a>> THEN 1 ELSE 0
      /\ \A c \in CounterNames : g[c] = IF c = <<group, b>> THEN 1 ELSE 0
      /\ \A c \in CounterNames : h[c] = IF c = <<group, b>> THEN -1 ELSE 0
  BY <1>1, <1>2, <1>3, IncIsGain
<1>5. /\ f ++ g \in Gains /\ f ++ h \in Gains
      /\ \A c \in CounterNames : (f ++ g)[c] = f[c] + g[c]
      /\ \A c \in CounterNames : (f ++ h)[c] = f[c] + h[c]
  BY Sums
<1>6. <<group, a>> # <<group, b>>
  OBVIOUS
<1>7. ASSUME NEW c \in CounterNames
      PROVE  /\ (f ++ g)[c] = IF c = <<group, a>> THEN 1
                               ELSE IF c = <<group, b>> THEN 1 ELSE 0
             /\ (f ++ h)[c] = IF c = <<group, a>> THEN 1
                               ELSE IF c = <<group, b>> THEN -1 ELSE 0
  BY <1>4, <1>5, <1>6
<1> QED BY <1>1, <1>2, <1>3, <1>5, <1>7

(* What the methods about agents add.                                      *)
LEMMA AgentGains ==
    /\ Adds(AgentStarted, 1, 0)
    /\ \A how \in {"completed", "failed", "timed_out"} :
           Adds(AgentEnded(how), -1, 0)
<1>1. /\ AgentStarted \in Gains
      /\ \A c \in CounterNames :
             AgentStarted[c] = IF c = <<"agents", "started">> THEN 1
                               ELSE IF c = <<"agents", "active">> THEN 1 ELSE 0
  BY TwoIncrements DEF AgentStarted
<1>2. Fits(AgentStarted)
  <2>1. AgentsFit(AgentStarted)
    BY <1>1, OtherNames DEF AgentsFit
  <2>2. PromisesFit(AgentStarted)
    BY <1>1, OtherNames DEF PromisesFit
  <2> QED BY <1>1, <2>1, <2>2, OtherNames, PlainFits, ThreeHistograms
<1>3. Adds(AgentStarted, 1, 0)
  BY <1>1, <1>2, OtherNames DEF Adds
<1>4. ASSUME NEW how \in {"completed", "failed", "timed_out"}
      PROVE  Adds(AgentEnded(how), -1, 0)
  <2>1. /\ AgentEnded(how) \in Gains
        /\ \A c \in CounterNames :
               AgentEnded(how)[c] = IF c = <<"agents", how>> THEN 1
                                    ELSE IF c = <<"agents", "active">> THEN -1
                                    ELSE 0
    BY TwoIncrements DEF AgentEnded
  <2>2. AgentsFit(AgentEnded(how))
    BY <2>1, OtherNames DEF AgentsFit
  <2>3. PromisesFit(AgentEnded(how))
    BY <2>1, OtherNames DEF PromisesFit
  <2>4. Fits(AgentEnded(how))
    BY <2>1, <2>2, <2>3, OtherNames, PlainFits, ThreeHistograms
  <2> QED BY <2>1, <2>4, OtherNames DEF Adds, Gauges
<1> QED BY <1>3, <1>4

(* What the methods about promises add.                                    *)
LEMMA PromiseGains ==
    /\ Adds(PromiseCreated, 0, 1)
    /\ \A how \in {"resolved", "rejected"} : Adds(PromiseSettled(how), 0, -1)
<1>1. /\ PromiseCreated \in Gains
      /\ \A c \in CounterNames :
             PromiseCreated[c] =
                 IF c = <<"promises", "created">> THEN 1
                 ELSE IF c = <<"promises", "pending">> THEN 1 ELSE 0
  BY TwoIncrements DEF PromiseCreated
<1>2. Fits(PromiseCreated)
  <2>1. AgentsFit(PromiseCreated)
    BY <1>1, OtherNames DEF AgentsFit
  <2>2. PromisesFit(PromiseCreated)
    BY <1>1, OtherNames DEF PromisesFit
  <2> QED BY <1>1, <2>1, <2>2, OtherNames, PlainFits, ThreeHistograms
<1>3. Adds(PromiseCreated, 0, 1)
  BY <1>1, <1>2, OtherNames DEF Adds
<1>4. ASSUME NEW how \in {"resolved", "rejected"}
      PROVE  Adds(PromiseSettled(how), 0, -1)
  <2>1. /\ PromiseSettled(how) \in Gains
        /\ \A c \in CounterNames :
               PromiseSettled(how)[c] =
                   IF c = <<"promises", how>> THEN 1
                   ELSE IF c = <<"promises", "pending">> THEN -1 ELSE 0
    BY TwoIncrements DEF PromiseSettled
  <2>2. AgentsFit(PromiseSettled(how))
    BY <2>1, OtherNames DEF AgentsFit
  <2>3. PromisesFit(PromiseSettled(how))
    BY <2>1, OtherNames DEF PromisesFit
  <2>4. Fits(PromiseSettled(how))
    BY <2>1, <2>2, <2>3, OtherNames, PlainFits, ThreeHistograms
  <2> QED BY <2>1, <2>4, OtherNames DEF Adds, Gauges
<1> QED BY <1>3, <1>4

(* What the methods add that increment one counter.                        *)
LEMMA PlainGains ==
    /\ Adds(Inc("tools", "failed"), 0, 0)
    /\ \A result \in {"allowed", "denied"} :
           Adds(PermissionChecked(result), 0, 0)
<1>1. ASSUME NEW group \in {"tools", "permissions"},
             NEW name \in {"failed", "allowed", "denied"}
      PROVE  Adds(Inc(group, name), 0, 0)
  <2>1. /\ Inc(group, name) \in Gains
        /\ \A c \in CounterNames :
               Inc(group, name)[c] = IF c = <<group, name>> THEN 1 ELSE 0
    BY IncIsGain
  <2>2. AgentsFit(Inc(group, name))
    BY <2>1, OtherNames DEF AgentsFit
  <2>3. PromisesFit(Inc(group, name))
    BY <2>1, OtherNames DEF PromisesFit
  <2>4. Fits(Inc(group, name))
    BY <2>1, <2>2, <2>3, OtherNames, PlainFits, ThreeHistograms
  <2> QED BY <2>1, <2>4, OtherNames DEF Adds
<1> QED BY <1>1 DEF PermissionChecked

(* A method that counts itself in its group and records a duration.        *)
LEMMA RecordingFits ==
    ASSUME NEW f \in Gains, NEW h \in Histograms, NEW d \in Nat,
           NEW own \in {<<"tools", "total">>, <<"modules", "loaded">>,
                        <<"eval", "calls">>},
           \A c \in CounterNames : f[c] >= 0,
           \A c \in {<<"tools", "total">>, <<"modules", "loaded">>,
                     <<"eval", "calls">>} :
               f[c] = IF c = own THEN 1 ELSE 0,
           f[<<"modules", "cache_hits">>] <= f[<<"modules", "loaded">>],
           \A n : <<"agents", n>> \in CounterNames => f[<<"agents", n>>] = 0,
           \A n : <<"promises", n>> \in CounterNames => f[<<"promises", n>>] = 0,
           \A k \in Histograms : \A n : <<k, n>> \in CounterNames
               => f[<<k, n>>] = 0,
           <<h, own>> \in {<<"tool_latency", <<"tools", "total">> >>,
                           <<"module_load_latency", <<"modules", "loaded">> >>,
                           <<"eval_latency", <<"eval", "calls">> >>}
    PROVE  Adds(f ++ Record(h, d), 0, 0)
<1>1. Record(h, d) \in Gains
  BY RecordIsGain
<1>2. PICK g : g = f ++ Record(h, d)
  OBVIOUS
<1>3. g \in Gains /\ \A c \in CounterNames : g[c] = f[c] + Record(h, d)[c]
  BY <1>1, <1>2, Sums
<1>4. \A group, name : <<group, name>> \in CounterNames /\ group # h
          => Record(h, d)[<<group, name>>] = 0
  BY RecordIsGain
<1>5. \A group, name : <<group, name>> \in CounterNames /\ group # h
          => g[<<group, name>>] = f[<<group, name>>]
  <2> SUFFICES ASSUME NEW group, NEW name,
                      <<group, name>> \in CounterNames, group # h
               PROVE  g[<<group, name>>] = f[<<group, name>>]
    OBVIOUS
  <2>1. f[<<group, name>>] \in Int
    BY DEF Gains
  <2> QED BY <1>3, <1>4, <2>1
<1>6. \A n : <<h, n>> \in CounterNames => g[<<h, n>>] = Record(h, d)[<<h, n>>]
  <2> SUFFICES ASSUME NEW n, <<h, n>> \in CounterNames
               PROVE  g[<<h, n>>] = Record(h, d)[<<h, n>>]
    OBVIOUS
  <2>1. Record(h, d)[<<h, n>>] \in Int
    BY <1>1 DEF Gains
  <2> QED BY <1>3, <2>1
<1>7. AgentsFit(g) /\ g[<<"agents", "active">>] = 0
  BY <1>5, OtherNames, ThreeHistograms DEF AgentsFit
<1>8. PromisesFit(g) /\ g[<<"promises", "pending">>] = 0
  BY <1>5, OtherNames, ThreeHistograms DEF PromisesFit
<1>9. HitsFit(g)
  BY <1>5, OtherNames, ThreeHistograms DEF HitsFit
<1>10. \A c \in {<<"tools", "total">>, <<"modules", "loaded">>,
                 <<"eval", "calls">>} : g[c] = IF c = own THEN 1 ELSE 0
  BY <1>5, OtherNames, ThreeHistograms
<1>11. LatencyFits(g, h, own)
  BY <1>3, <1>6, <1>10, OtherNames, RecordedFits
<1>12. ASSUME NEW k \in Histograms \ {h},
              NEW tally \in {<<"tools", "total">>, <<"modules", "loaded">>,
                              <<"eval", "calls">>} \ {own}
       PROVE  LatencyFits(g, k, tally)
  <2>1. \A n : <<k, n>> \in CounterNames => g[<<k, n>>] = 0
    BY <1>5
  <2> QED BY <1>3, <1>10, <2>1, OtherNames, UntouchedFits
<1>13. /\ LatencyFits(g, "tool_latency", <<"tools", "total">>)
       /\ LatencyFits(g, "module_load_latency", <<"modules", "loaded">>)
       /\ LatencyFits(g, "eval_latency", <<"eval", "calls">>)
  BY <1>11, <1>12, ThreeHistograms
<1>14. \A c \in CounterNames : g[c] >= 0
  <2>1. \A c \in CounterNames :
            Record(h, d)[c] >= 0 /\ Record(h, d)[c] \in Int /\ f[c] \in Int
    BY <1>1, RecordIsGain DEF Gains
  <2> QED BY <1>3, <2>1
<1> QED BY <1>2, <1>3, <1>7, <1>8, <1>9, <1>13, <1>14 DEF Adds, Fits

(* What the methods add that record a duration.                            *)
LEMMA LatencyGains ==
    ASSUME NEW d \in Nat
    PROVE  /\ Adds(ToolCallCompleted(d), 0, 0)
           /\ Adds(EvalCompleted(d), 0, 0)
           /\ \A hit, transpiled \in BOOLEAN :
                  Adds(ModuleLoaded(hit, transpiled, d), 0, 0)
<1>1. Adds(ToolCallCompleted(d), 0, 0)
  <2>1. PICK f : f = Inc("tools", "total")
    OBVIOUS
  <2>2. /\ f \in Gains
        /\ \A c \in CounterNames : f[c] = IF c = <<"tools", "total">> THEN 1 ELSE 0
    BY <2>1, IncIsGain
  <2>3. Adds(f ++ Record("tool_latency", d), 0, 0)
    BY <2>2, OtherNames, ThreeHistograms, RecordingFits
  <2> QED BY <2>1, <2>3 DEF ToolCallCompleted
<1>2. Adds(EvalCompleted(d), 0, 0)
  <2>1. PICK f : f = Inc("eval", "calls")
    OBVIOUS
  <2>2. /\ f \in Gains
        /\ \A c \in CounterNames : f[c] = IF c = <<"eval", "calls">> THEN 1 ELSE 0
    BY <2>1, IncIsGain
  <2>3. Adds(f ++ Record("eval_latency", d), 0, 0)
    BY <2>2, OtherNames, ThreeHistograms, RecordingFits
  <2> QED BY <2>1, <2>3 DEF EvalCompleted
<1>3. ASSUME NEW hit \in BOOLEAN, NEW transpiled \in BOOLEAN
      PROVE  Adds(ModuleLoaded(hit, transpiled, d), 0, 0)
  <2>1. PICK f : f = Inc("modules", "loaded")
    OBVIOUS
  <2>2. PICK g : g = IF hit THEN Inc("modules", "cache_hits") ELSE Nothing
    OBVIOUS
  <2>3. PICK h : h = IF transpiled THEN Inc("modules", "transpiled") ELSE Nothing
    OBVIOUS
  <2>4. /\ f \in Gains
        /\ \A c \in CounterNames :
               f[c] = IF c = <<"modules", "loaded">> THEN 1 ELSE 0
    BY <2>1, IncIsGain
  <2>5. /\ g \in Gains
        /\ \A c \in CounterNames :
               g[c] = IF hit /\ c = <<"modules", "cache_hits">> THEN 1 ELSE 0
    BY <2>2, IncIsGain, NothingIsGain
  <2>6. /\ h \in Gains
        /\ \A c \in CounterNames :
               h[c] = IF transpiled /\ c = <<"modules", "transpiled">> THEN 1 ELSE 0
    BY <2>3, IncIsGain, NothingIsGain
  <2>7. f ++ g \in Gains /\ (f ++ g) ++ h \in Gains
    BY <2>4, <2>5, <2>6, Sums
  <2>8. PICK s : s = (f ++ g) ++ h
    OBVIOUS
  <2>9. \A c \in CounterNames :
            s[c] = IF c = <<"modules", "loaded">> THEN 1
                   ELSE IF hit /\ c = <<"modules", "cache_hits">> THEN 1
                   ELSE IF transpiled /\ c = <<"modules", "transpiled">> THEN 1
                   ELSE 0
    <3>1. \A c \in CounterNames : s[c] = (f ++ g)[c] + h[c]
      BY <2>6, <2>7, <2>8, Sums
    <3>2. \A c \in CounterNames : (f ++ g)[c] = f[c] + g[c]
      BY <2>4, <2>5, Sums
    <3> QED BY <2>4, <2>5, <2>6, <3>1, <3>2
  <2>10. Adds(s ++ Record("module_load_latency", d), 0, 0)
    BY <2>7, <2>8, <2>9, OtherNames, ThreeHistograms, RecordingFits
  <2> QED BY <2>1, <2>2, <2>3, <2>8, <2>10 DEF ModuleLoaded
<1> QED BY <1>1, <1>2, <1>3

-----------------------------------------------------------------------------
(* Counters, calls, and increments on their way.                           *)
MetricsTypeOK ==
    /\ landed \in [CounterNames -> Nat]
    /\ calls \in Seq([gain : Gains, ends : Nat])
    /\ due \in SUBSET ((DOMAIN calls) \X CounterNames)

(* What each call has still to add to counter c.                           *)
Outstanding(c) ==
    [n \in DOMAIN calls |-> IF <<n, c>> \in due THEN calls[n].gain[c] ELSE 0]

(* The calls together add up, and what of it has not landed is on its way. *)
IssuedInv ==
    \E total \in Gains :
        /\ Fits(total)
        /\ \A c \in CounterNames :
               Tally(Outstanding(c), Len(calls), total[c] - landed[c])

(* A call moves at most one gauge, by one; downward if and only if it ends *)
(* an earlier call, which moved it upward and which no other call ends.    *)
PairsInv ==
    \A n \in DOMAIN calls :
        /\ \A c \in CounterNames \ Gauges : calls[n].gain[c] >= 0
        /\ calls[n].ends < n
        /\ \A k \in DOMAIN calls : calls[k].ends = calls[n].ends
               => k = n \/ calls[n].ends = 0
        /\ \A g \in Gauges :
               /\ calls[n].gain[g] \in {-1, 0, 1}
               /\ calls[n].gain[g] = -1 =>
                     /\ calls[n].ends \in DOMAIN calls
                     /\ calls[calls[n].ends].gain[g] = 1
               /\ \A m \in DOMAIN calls :
                     calls[n].ends = m /\ calls[m].gain[g] = 1
                     => calls[n].gain[g] = -1
               /\ \A h \in Gauges :
                     calls[n].gain[g] # 0 /\ calls[n].gain[h] # 0 => g = h

(* No gauge goes down for an end before it went up for the beginning.      *)
OrderInv ==
    \A n \in DOMAIN calls, g \in Gauges :
        calls[n].gain[g] = -1 /\ <<n, g>> \notin due
        => <<calls[n].ends, g>> \notin due

(* What gauge g holds of each call: one for what has begun, until it ends. *)
Held(g) ==
    [m \in DOMAIN calls |->
        IF /\ calls[m].gain[g] = 1 /\ <<m, g>> \notin due
           /\ \A n \in DOMAIN calls : calls[n].ends = m => <<n, g>> \in due
        THEN 1 ELSE 0]

GaugeInv == \A g \in Gauges : Tally(Held(g), Len(calls), landed[g])

MetricsInv ==
    MetricsTypeOK /\ IssuedInv /\ PairsInv /\ OrderInv /\ GaugeInv

(* The parts of the invariant, at one call and one counter.                *)
LEMMA MetricsTypes ==
    ASSUME MetricsTypeOK
    PROVE  /\ Len(calls) \in Nat /\ DOMAIN calls = 1 .. Len(calls)
           /\ \A n \in DOMAIN calls :
                  /\ calls[n].gain \in Gains /\ calls[n].ends \in Nat
                  /\ \A c \in CounterNames : calls[n].gain[c] \in Int
           /\ \A c \in CounterNames : landed[c] \in Nat
<1>1. calls \in Seq([gain : Gains, ends : Nat])
  BY DEF MetricsTypeOK
<1>2. Len(calls) \in Nat /\ DOMAIN calls = 1 .. Len(calls)
  BY <1>1
<1>3. \A n \in DOMAIN calls : calls[n].gain \in Gains /\ calls[n].ends \in Nat
  <2>1. ASSUME NEW S, calls \in Seq(S), NEW n \in DOMAIN calls
        PROVE  calls[n] \in S
    BY <2>1
  <2>2. ASSUME NEW n \in DOMAIN calls
        PROVE  calls[n] \in [gain : Gains, ends : Nat]
    BY <1>1, <2>1
  <2> QED BY <2>2
<1>4. \A c \in CounterNames : landed[c] \in Nat
  BY DEF MetricsTypeOK
<1> QED BY <1>2, <1>3, <1>4 DEF Gains

(* The gauges are counters.                                                *)
LEMMA GaugesCount ==
    /\ Gauges \subseteq CounterNames
    /\ Gauge["agents"] = <<"agents", "active">>
    /\ Gauge["promises"] = <<"promises", "pending">>
    /\ <<"agents", "active">> # <<"promises", "pending">>
  BY OtherNames DEF Gauges, Gauge

(* A new RuntimeMetrics has the invariant.                                 *)
LEMMA MetricsBegin == MetricsInit => MetricsInv
<1> SUFFICES ASSUME MetricsInit PROVE MetricsInv
  OBVIOUS
<1>1. /\ landed = Nothing /\ calls = <<>> /\ due = {}
      /\ DOMAIN calls = {} /\ Len(calls) = 0
  BY DEF MetricsInit, Nothing
<1>2. MetricsTypeOK
  BY <1>1 DEF MetricsTypeOK, Nothing
<1>3. PairsInv /\ OrderInv
  BY <1>1 DEF PairsInv, OrderInv
<1>4. IssuedInv
  <2>1. \A c \in CounterNames : Nothing[c] - landed[c] = 0
    BY <1>1, NothingIsGain
  <2>2. \A c \in CounterNames : Tally(Outstanding(c), Len(calls), 0)
    BY <1>1, TallyBegins
  <2> QED BY <2>1, <2>2, NothingFits, NothingIsGain DEF IssuedInv
<1>5. GaugeInv
  <2>1. \A g \in Gauges : landed[g] = 0
    BY <1>1, GaugesCount, NothingIsGain
  <2>2. \A g \in Gauges : Tally(Held(g), Len(calls), 0)
    BY <1>1, TallyBegins
  <2> QED BY <2>1, <2>2 DEF GaugeInv
<1> QED BY <1>2, <1>3, <1>4, <1>5 DEF MetricsInv

-----------------------------------------------------------------------------
(* What call n + 1 leaves behind: itself, and its increments on their way. *)
Called(n, g, e) ==
    /\ n \in Nat /\ DOMAIN calls = 1 .. n
    /\ DOMAIN calls' = 1 .. n + 1 /\ Len(calls)' = n + 1
    /\ \A k \in 1 .. n : calls'[k] = calls[k]
    /\ calls'[n + 1].gain = g /\ calls'[n + 1].ends = e
    /\ landed' = landed
    /\ \A k \in 1 .. n : \A c : <<k, c>> \in due' <=> <<k, c>> \in due
    /\ \A c \in CounterNames : <<n + 1, c>> \in due' <=> g[c] # 0

(* That is what a method does.                                             *)
LEMMA CallIssued ==
    ASSUME MetricsTypeOK, NEW g \in Gains, NEW e \in Nat, Issue(g, e),
           NEW n, n = Len(calls)
    PROVE  Called(n, g, e) /\ MetricsTypeOK'
<1>1. PICK r : r = [gain |-> g, ends |-> e]
  OBVIOUS
<1>2. r \in [gain : Gains, ends : Nat] /\ r.gain = g /\ r.ends = e
  BY <1>1
<1>3. calls \in Seq([gain : Gains, ends : Nat]) /\ calls' = Append(calls, r)
  BY <1>1 DEF Issue, MetricsTypeOK
<1>4. n \in Nat /\ DOMAIN calls = 1 .. n
  BY <1>3
<1>5. /\ calls' \in Seq([gain : Gains, ends : Nat])
      /\ Len(calls') = n + 1 /\ DOMAIN calls' = 1 .. n + 1
      /\ \A k \in 1 .. n : calls'[k] = calls[k]
      /\ calls'[n + 1] = r
  BY <1>2, <1>3, <1>4, AppendProperties
<1>6. due' = due \union {<<n + 1, c>> : c \in {d \in CounterNames : g[d] # 0}}
  BY DEF Issue
<1>7. due \subseteq (1 .. n) \X CounterNames
  BY <1>4 DEF MetricsTypeOK
<1>8. \A k \in 1 .. n : \A c : <<k, c>> \in due' <=> <<k, c>> \in due
  BY <1>4, <1>6
<1>9. \A c \in CounterNames : <<n + 1, c>> \in due' <=> g[c] # 0
  BY <1>4, <1>6, <1>7
<1>10. due' \in SUBSET ((1 .. n + 1) \X CounterNames)
  BY <1>4, <1>6, <1>7
<1>11. landed' = landed
  BY DEF Issue
<1>12. MetricsTypeOK'
  BY <1>5, <1>10, <1>11 DEF MetricsTypeOK
<1> QED BY <1>2, <1>4, <1>5, <1>8, <1>9, <1>11, <1>12 DEF Called

(* What an increment that lands leaves behind.                             *)
LEMMA IncrementLanded ==
    ASSUME MetricsTypeOK, NEW i \in DOMAIN calls, NEW c \in CounterNames,
           Land(i, c)
    PROVE  /\ calls' = calls
           /\ <<i, c>> \in due /\ <<calls[i].ends, c>> \notin due
           /\ \A k, d : <<k, d>> \in due' <=> <<k, d>> \in due /\ <<k, d>> # <<i, c>>
           /\ landed'[c] = landed[c] + calls[i].gain[c]
           /\ \A d \in CounterNames : d # c => landed'[d] = landed[d]
           /\ landed' \in Gains
<1>1. landed \in [CounterNames -> Nat] /\ calls[i].gain[c] \in Int
  BY MetricsTypes DEF MetricsTypeOK
<1>2. landed' = [landed EXCEPT ![c] = @ + calls[i].gain[c]]
  BY DEF Land
<1>3. landed' \in Gains
  BY <1>1, <1>2 DEF Gains
<1>4. /\ landed'[c] = landed[c] + calls[i].gain[c]
      /\ \A d \in CounterNames : d # c => landed'[d] = landed[d]
  BY <1>1, <1>2
<1> QED BY <1>3, <1>4 DEF Land

(* What the calls add up to, with one more of them.                        *)
LEMMA IssueKeepsSum ==
    ASSUME MetricsTypeOK, IssuedInv, NEW g \in Gains, Fits(g),
           NEW e \in Nat, Issue(g, e)
    PROVE  IssuedInv'
<1>1. PICK n : n = Len(calls)
  OBVIOUS
<1>2. /\ n \in Nat /\ DOMAIN calls = 1 .. n
      /\ DOMAIN calls' = 1 .. n + 1 /\ Len(calls)' = n + 1
      /\ \A k \in 1 .. n : calls'[k] = calls[k]
      /\ calls'[n + 1].gain = g /\ calls'[n + 1].ends = e
      /\ landed' = landed
      /\ \A k \in 1 .. n : \A c : <<k, c>> \in due' <=> <<k, c>> \in due
      /\ \A c \in CounterNames : <<n + 1, c>> \in due' <=> g[c] # 0
  <2>1. Called(n, g, e)
    BY <1>1, CallIssued
  <2> QED BY <2>1 DEF Called
<1>3. PICK total \in Gains :
          /\ Fits(total)
          /\ \A c \in CounterNames : Tally(Outstanding(c), n, total[c] - landed[c])
  BY <1>1 DEF IssuedInv
<1>4. PICK more : more = total ++ g
  OBVIOUS
<1>5. more \in Gains /\ Fits(more)
  BY <1>3, <1>4, FitSums, Sums
<1>6. ASSUME NEW c \in CounterNames
      PROVE  Tally(Outstanding(c)', n + 1, more[c] - landed'[c])
  <2>1. total[c] \in Int /\ g[c] \in Int /\ landed[c] \in Int
    BY <1>3, MetricsTypes DEF Gains
  <2>2. more[c] - landed'[c] = (total[c] - landed[c]) + g[c]
    <3>1. more[c] = total[c] + g[c]
      BY <1>3, <1>4, Sums
    <3> QED BY <1>2, <2>1, <3>1
  <2>3. PICK v : v = Outstanding(c)'
    OBVIOUS
  <2>4. v[n + 1] = g[c]
    <3>1. n + 1 \in DOMAIN calls'
      BY <1>2
    <3>2. v[n + 1] = IF <<n + 1, c>> \in due' THEN calls'[n + 1].gain[c] ELSE 0
      BY <2>3, <3>1 DEF Outstanding
    <3> QED BY <1>2, <2>1, <3>2
  <2>5. ASSUME NEW k \in 1 .. n PROVE v[k] = Outstanding(c)[k]
    <3>1. k \in DOMAIN calls' /\ k \in DOMAIN calls
      BY <1>2
    <3>2. v[k] = IF <<k, c>> \in due' THEN calls'[k].gain[c] ELSE 0
      BY <2>3, <3>1 DEF Outstanding
    <3> QED BY <1>2, <3>1, <3>2 DEF Outstanding
  <2>6. PICK w : w = Outstanding(c)
    OBVIOUS
  <2>7. /\ Tally(w, n, total[c] - landed[c]) /\ total[c] - landed[c] \in Int
        /\ \A k \in 1 .. n : v[k] = w[k]
        /\ v[n + 1] \in Int
    BY <1>3, <2>1, <2>4, <2>5, <2>6
  <2>8. Tally(v, n + 1, (total[c] - landed[c]) + v[n + 1])
    BY <1>2, <2>7, TallyGoesOn
  <2> QED BY <2>2, <2>3, <2>4, <2>8
<1> QED BY <1>2, <1>5, <1>6 DEF IssuedInv

(* What lands is no longer on its way.                                     *)
LEMMA LandKeepsSum ==
    ASSUME MetricsTypeOK, IssuedInv, NEW i \in DOMAIN calls,
           NEW c \in CounterNames, Land(i, c)
    PROVE  IssuedInv'
<1>1. PICK n : n = Len(calls)
  OBVIOUS
<1>2. /\ n \in Nat /\ DOMAIN calls = 1 .. n
      /\ \A k \in 1 .. n : \A d \in CounterNames : calls[k].gain[d] \in Int
      /\ \A d \in CounterNames : landed[d] \in Int
  BY <1>1, MetricsTypes
<1>3. /\ calls' = calls /\ <<i, c>> \in due
      /\ \A k, d : <<k, d>> \in due' <=> <<k, d>> \in due /\ <<k, d>> # <<i, c>>
      /\ landed'[c] = landed[c] + calls[i].gain[c]
      /\ \A d \in CounterNames : d # c => landed'[d] = landed[d]
  BY IncrementLanded
<1>4. PICK total \in Gains :
          /\ Fits(total)
          /\ \A d \in CounterNames : Tally(Outstanding(d), n, total[d] - landed[d])
  BY <1>1 DEF IssuedInv
<1>5. ASSUME NEW d \in CounterNames
      PROVE  Tally(Outstanding(d)', n, total[d] - landed'[d])
  <2>1. total[d] \in Int /\ landed[d] \in Int
    BY <1>2, <1>4 DEF Gains
  <2>2. CASE d # c
    <3>1. Outstanding(d)' = Outstanding(d)
      BY <1>3, <2>2 DEF Outstanding
    <3>2. landed'[d] = landed[d]
      BY <1>3, <2>2
    <3> QED BY <1>4, <3>1, <3>2
  <2>3. CASE d = c
    <3>1. PICK w : w = Outstanding(c)
      OBVIOUS
    <3>2. PICK v : v = Outstanding(c)'
      OBVIOUS
    <3>3. PICK x \in Int : x = calls[i].gain[c]
      BY <1>2
    <3>4. \A k \in 1 .. n : w[k] \in Int
      BY <1>2, <3>1 DEF Outstanding
    <3>5. v[i] = 0 /\ w[i] = x
      BY <1>3, <3>1, <3>2, <3>3 DEF Outstanding
    <3>6. \A k \in 1 .. n : k # i => v[k] = w[k]
      BY <1>2, <1>3, <3>1, <3>2 DEF Outstanding
    <3>7. v[i] = w[i] + (-x) /\ -x \in Int
      BY <3>3, <3>5
    <3>8. Tally(w, n, total[c] - landed[c]) /\ total[c] - landed[c] \in Int
      BY <1>4, <2>1, <2>3, <3>1
    <3>9. i \in 1 .. n
      BY <1>2
    <3>10. Tally(v, n, (total[c] - landed[c]) + (-x))
      BY <1>2, <3>4, <3>6, <3>7, <3>8, <3>9, TallyChanges
    <3>11. total[c] - landed'[c] = (total[c] - landed[c]) + (-x)
      BY <1>3, <2>1, <2>3, <3>3
    <3> QED BY <2>3, <3>2, <3>10, <3>11
  <2> QED BY <2>2, <2>3
<1>6. Len(calls)' = n
  BY <1>1, <1>3
<1> QED BY <1>4, <1>5, <1>6 DEF IssuedInv

-----------------------------------------------------------------------------
(* What a method may add, and what it may end.                             *)
Proper(g, e) ==
    /\ g \in Gains
    /\ \A c \in CounterNames \ Gauges : g[c] >= 0
    /\ e \in Nat
    /\ e = 0 \/ (e \in DOMAIN calls /\ \A k \in DOMAIN calls : calls[k].ends # e)
    /\ \A x \in Gauges :
           /\ g[x] \in {-1, 0, 1}
           /\ g[x] = -1 => e \in DOMAIN calls /\ calls[e].gain[x] = 1
           /\ e \in DOMAIN calls /\ calls[e].gain[x] = 1 => g[x] = -1
           /\ \A y \in Gauges : g[x] # 0 /\ g[y] # 0 => x = y

(* A method begins something, ends what has begun, or does neither.        *)
LEMMA IssueKeepsPairs ==
    ASSUME MetricsTypeOK, PairsInv, NEW g, NEW e, Proper(g, e), Issue(g, e)
    PROVE  PairsInv'
<1>1. PICK n : n = Len(calls)
  OBVIOUS
<1>2. g \in Gains /\ e \in Nat
  BY DEF Proper
<1>3. /\ n \in Nat /\ DOMAIN calls = 1 .. n
      /\ DOMAIN calls' = 1 .. n + 1 /\ Len(calls)' = n + 1
      /\ \A k \in 1 .. n : calls'[k] = calls[k]
      /\ calls'[n + 1].gain = g /\ calls'[n + 1].ends = e
      /\ landed' = landed
      /\ \A k \in 1 .. n : \A c : <<k, c>> \in due' <=> <<k, c>> \in due
      /\ \A c \in CounterNames : <<n + 1, c>> \in due' <=> g[c] # 0
  <2>1. Called(n, g, e)
    BY <1>1, <1>2, CallIssued
  <2> QED BY <2>1 DEF Called
<1>4. e < n + 1
  BY <1>2, <1>3 DEF Proper
<1>5. \A k \in 1 .. n : calls[k].ends \in Nat /\ calls[k].ends < k
  BY <1>3, MetricsTypes DEF PairsInv
<1>6. ASSUME NEW k \in 1 .. n + 1
      PROVE  /\ calls'[k].ends \in Nat /\ calls'[k].ends < k
             /\ \A c \in CounterNames \ Gauges : calls'[k].gain[c] >= 0
  <2>1. CASE k \in 1 .. n
    BY <1>3, <1>5, <2>1 DEF PairsInv
  <2>2. CASE k = n + 1
    BY <1>2, <1>3, <1>4, <2>2 DEF Proper
  <2> QED BY <1>3, <2>1, <2>2
<1>7. ASSUME NEW k \in 1 .. n + 1, NEW j \in 1 .. n + 1,
             calls'[j].ends = calls'[k].ends
      PROVE  j = k \/ calls'[k].ends = 0
  <2>1. CASE k \in 1 .. n /\ j \in 1 .. n
    BY <1>3, <1>7, <2>1 DEF PairsInv
  <2>2. CASE k = n + 1 /\ j \in 1 .. n
    BY <1>3, <1>7, <2>2 DEF Proper
  <2>3. CASE k \in 1 .. n /\ j = n + 1
    BY <1>3, <1>7, <2>3 DEF Proper
  <2> QED BY <1>3, <2>1, <2>2, <2>3
<1>8. ASSUME NEW k \in 1 .. n + 1, NEW x \in Gauges
      PROVE  /\ calls'[k].gain[x] \in {-1, 0, 1}
             /\ calls'[k].gain[x] = -1 =>
                   /\ calls'[k].ends \in 1 .. n + 1
                   /\ calls'[calls'[k].ends].gain[x] = 1
             /\ \A m \in 1 .. n + 1 :
                   calls'[k].ends = m /\ calls'[m].gain[x] = 1
                   => calls'[k].gain[x] = -1
             /\ \A y \in Gauges :
                   calls'[k].gain[x] # 0 /\ calls'[k].gain[y] # 0 => x = y
  <2>1. CASE k \in 1 .. n
    <3>1. calls'[k] = calls[k] /\ calls[k].ends \in Nat /\ calls[k].ends < k
      BY <1>3, <1>5, <2>1
    <3>2. /\ calls[k].gain[x] \in {-1, 0, 1}
          /\ calls[k].gain[x] = -1 =>
                /\ calls[k].ends \in 1 .. n
                /\ calls[calls[k].ends].gain[x] = 1
          /\ \A m \in 1 .. n : calls[k].ends = m /\ calls[m].gain[x] = 1
                => calls[k].gain[x] = -1
          /\ \A y \in Gauges :
                calls[k].gain[x] # 0 /\ calls[k].gain[y] # 0 => x = y
      BY <1>3, <2>1 DEF PairsInv
    <3>3. \A m \in 1 .. n + 1 : calls[k].ends = m => m \in 1 .. n
      BY <1>3, <2>1, <3>1
    <3> QED BY <1>3, <3>1, <3>2, <3>3
  <2>2. CASE k = n + 1
    <3>1. /\ g[x] \in {-1, 0, 1}
          /\ g[x] = -1 => e \in 1 .. n /\ calls[e].gain[x] = 1
          /\ e \in 1 .. n /\ calls[e].gain[x] = 1 => g[x] = -1
          /\ \A y \in Gauges : g[x] # 0 /\ g[y] # 0 => x = y
      BY <1>3 DEF Proper
    <3>2. \A m \in 1 .. n + 1 : e = m => m \in 1 .. n
      BY <1>2, <1>3, <1>4
    <3> QED BY <1>3, <2>2, <3>1, <3>2
  <2> QED BY <1>3, <2>1, <2>2
<1> QED BY <1>3, <1>6, <1>7, <1>8 DEF PairsInv

(* The increments of a new call are all on their way.                      *)
LEMMA IssueKeepsOrder ==
    ASSUME MetricsTypeOK, PairsInv, OrderInv, NEW g, NEW e, Proper(g, e),
           Issue(g, e)
    PROVE  OrderInv'
<1>1. PICK n : n = Len(calls)
  OBVIOUS
<1>2. g \in Gains /\ e \in Nat
  BY DEF Proper
<1>3. /\ n \in Nat /\ DOMAIN calls = 1 .. n
      /\ DOMAIN calls' = 1 .. n + 1 /\ Len(calls)' = n + 1
      /\ \A k \in 1 .. n : calls'[k] = calls[k]
      /\ calls'[n + 1].gain = g /\ calls'[n + 1].ends = e
      /\ landed' = landed
      /\ \A k \in 1 .. n : \A c : <<k, c>> \in due' <=> <<k, c>> \in due
      /\ \A c \in CounterNames : <<n + 1, c>> \in due' <=> g[c] # 0
  <2>1. Called(n, g, e)
    BY <1>1, <1>2, CallIssued
  <2> QED BY <2>1 DEF Called
<1>4. ASSUME NEW k \in 1 .. n + 1, NEW x \in Gauges,
             calls'[k].gain[x] = -1, <<k, x>> \notin due'
      PROVE  <<calls'[k].ends, x>> \notin due'
  <2>1. CASE k \in 1 .. n
    <3>1. calls[k].gain[x] = -1 /\ <<k, x>> \notin due
      BY <1>3, <1>4, <2>1
    <3>2. calls[k].ends \in 1 .. n /\ <<calls[k].ends, x>> \notin due
      BY <1>3, <2>1, <3>1 DEF PairsInv, OrderInv
    <3> QED BY <1>3, <2>1, <3>2
  <2>2. CASE k = n + 1
    <3>1. g[x] = 0 /\ g[x] = -1
      BY <1>3, <1>4, <2>2, GaugesCount
    <3> QED BY <3>1
  <2> QED BY <1>3, <2>1, <2>2
<1> QED BY <1>3, <1>4 DEF OrderInv

(* Until a call's increment has landed, a gauge holds what it held.        *)
LEMMA IssueKeepsGauges ==
    ASSUME MetricsTypeOK, GaugeInv, NEW g, NEW e, Proper(g, e), Issue(g, e)
    PROVE  GaugeInv'
<1>1. PICK n : n = Len(calls)
  OBVIOUS
<1>2. g \in Gains /\ e \in Nat
  BY DEF Proper
<1>3. /\ n \in Nat /\ DOMAIN calls = 1 .. n
      /\ DOMAIN calls' = 1 .. n + 1 /\ Len(calls)' = n + 1
      /\ \A k \in 1 .. n : calls'[k] = calls[k]
      /\ calls'[n + 1].gain = g /\ calls'[n + 1].ends = e
      /\ landed' = landed
      /\ \A k \in 1 .. n : \A c : <<k, c>> \in due' <=> <<k, c>> \in due
      /\ \A c \in CounterNames : <<n + 1, c>> \in due' <=> g[c] # 0
  <2>1. Called(n, g, e)
    BY <1>1, <1>2, CallIssued
  <2> QED BY <2>1 DEF Called
<1>4. ASSUME NEW x \in Gauges
      PROVE  Tally(Held(x)', n + 1, landed'[x])
  <2>1. PICK w : w = Held(x)
    OBVIOUS
  <2>2. PICK v : v = Held(x)'
    OBVIOUS
  <2>3. x \in CounterNames /\ landed[x] \in Int
    BY GaugesCount, MetricsTypes
  <2>4. v[n + 1] = 0
    <3>1. n + 1 \in DOMAIN calls'
      BY <1>3
    <3>2. calls'[n + 1].gain[x] = 1 => <<n + 1, x>> \in due'
      BY <1>3, <2>3
    <3> QED BY <2>2, <3>1, <3>2 DEF Held
  <2>5. ASSUME NEW k \in 1 .. n PROVE v[k] = w[k]
    <3>1. k \in DOMAIN calls /\ k \in DOMAIN calls' /\ calls'[k] = calls[k]
      BY <1>3
    <3>2. CASE calls[k].gain[x] # 1
      BY <2>1, <2>2, <3>1, <3>2 DEF Held
    <3>3. CASE calls[k].gain[x] = 1
      <4>1. calls'[n + 1].ends = k => <<n + 1, x>> \in due'
        <5>1. e = k => g[x] = -1
          BY <3>1, <3>3 DEF Proper
        <5> QED BY <1>3, <2>3, <5>1
      <4>2. (\A j \in DOMAIN calls' : calls'[j].ends = k => <<j, x>> \in due')
              <=> \A j \in DOMAIN calls : calls[j].ends = k => <<j, x>> \in due
        <5>1. \A j \in 1 .. n + 1 : j \in 1 .. n \/ j = n + 1
          BY <1>3
        <5>2. \A j \in 1 .. n : j \in 1 .. n + 1
          BY <1>3
        <5> QED BY <1>3, <4>1, <5>1, <5>2
      <4>3. <<k, x>> \in due' <=> <<k, x>> \in due
        BY <1>3
      <4> QED BY <2>1, <2>2, <3>1, <3>3, <4>2, <4>3 DEF Held
    <3> QED BY <3>2, <3>3
  <2>6. Tally(w, n, landed[x])
    BY <1>1, <2>1 DEF GaugeInv
  <2>7. Tally(v, n + 1, landed[x] + v[n + 1])
    BY <1>3, <2>3, <2>4, <2>5, <2>6, TallyGoesOn
  <2> QED BY <1>3, <2>2, <2>3, <2>4, <2>7
<1> QED BY <1>3, <1>4 DEF GaugeInv

(* A method keeps the invariant.                                           *)
LEMMA IssueKeeps ==
    ASSUME MetricsInv, NEW g, NEW e, Fits(g), Proper(g, e), Issue(g, e)
    PROVE  MetricsInv'
<1>1. g \in Gains /\ e \in Nat
  BY DEF Proper
<1>2. MetricsTypeOK /\ IssuedInv /\ PairsInv /\ OrderInv /\ GaugeInv
  BY DEF MetricsInv
<1>3. MetricsTypeOK'
  BY <1>1, <1>2, CallIssued
<1>4. IssuedInv'
  BY <1>1, <1>2, IssueKeepsSum
<1>5. PairsInv' /\ OrderInv' /\ GaugeInv'
  BY <1>2, IssueKeepsPairs, IssueKeepsOrder, IssueKeepsGauges
<1> QED BY <1>3, <1>4, <1>5 DEF MetricsInv

-----------------------------------------------------------------------------
(* A gauge goes up by one for a beginning, and down again for its end.     *)
LEMMA LandKeepsGauges ==
    ASSUME MetricsTypeOK, PairsInv, OrderInv, GaugeInv,
           NEW i \in DOMAIN calls, NEW c \in CounterNames, Land(i, c)
    PROVE  GaugeInv'
<1>1. PICK n : n = Len(calls)
  OBVIOUS
<1>2. n \in Nat /\ DOMAIN calls = 1 .. n /\ i \in 1 .. n
  BY <1>1, MetricsTypes
<1>3. /\ calls' = calls
      /\ <<i, c>> \in due /\ <<calls[i].ends, c>> \notin due
      /\ \A k, d : <<k, d>> \in due' <=> <<k, d>> \in due /\ <<k, d>> # <<i, c>>
      /\ landed'[c] = landed[c] + calls[i].gain[c]
      /\ \A d \in CounterNames : d # c => landed'[d] = landed[d]
  BY IncrementLanded
<1>4. ASSUME NEW x \in Gauges
      PROVE  Tally(Held(x)', n, landed'[x])
  <2>1. PICK w : w = Held(x)
    OBVIOUS
  <2>2. PICK v : v = Held(x)'
    OBVIOUS
  <2>3. /\ \A k \in 1 .. n : w[k] =
              IF /\ calls[k].gain[x] = 1 /\ <<k, x>> \notin due
                 /\ \A j \in 1 .. n : calls[j].ends = k => <<j, x>> \in due
              THEN 1 ELSE 0
        /\ \A k \in 1 .. n : v[k] =
              IF /\ calls[k].gain[x] = 1 /\ <<k, x>> \notin due'
                 /\ \A j \in 1 .. n : calls[j].ends = k => <<j, x>> \in due'
              THEN 1 ELSE 0
    BY <1>2, <1>3, <2>1, <2>2 DEF Held
  <2>4. Tally(w, n, landed[x]) /\ landed[x] \in Int /\ x \in CounterNames
    BY <1>1, <2>1, GaugesCount, MetricsTypes DEF GaugeInv
  <2>5. ASSUME NEW k \in 1 .. n PROVE w[k] \in Int
    <3>1. w[k] = 1 \/ w[k] = 0
      BY <2>3
    <3> QED BY <3>1
  <2>6. CASE x # c
    <3>1. \A k : <<k, x>> \in due' <=> <<k, x>> \in due
      BY <1>3, <2>6
    <3>2. v = w
      BY <1>3, <2>1, <2>2, <3>1 DEF Held
    <3> QED BY <1>3, <2>2, <2>4, <2>6, <3>2
  <2>7. CASE x = c
    <3>1. \A k : <<k, x>> \in due' <=> <<k, x>> \in due /\ k # i
      BY <1>3, <2>7
    <3>2. /\ calls[i].gain[x] \in {-1, 0, 1}
          /\ \A j \in 1 .. n : \A m \in 1 .. n :
                calls[j].ends = m /\ calls[m].gain[x] = 1
                => calls[j].gain[x] = -1
          /\ \A j \in 1 .. n : calls[j].ends < j
      BY <1>2 DEF PairsInv
    <3>3. ASSUME NEW k \in 1 .. n,
                 calls[k].gain[x] = 1 => k # i /\ calls[i].ends # k
          PROVE  v[k] = w[k]
      <4>1. CASE calls[k].gain[x] # 1
        BY <2>3, <4>1
      <4>2. CASE calls[k].gain[x] = 1
        <5>1. <<k, x>> \in due' <=> <<k, x>> \in due
          BY <3>1, <3>3, <4>2
        <5>2. \A j \in 1 .. n : calls[j].ends = k =>
                  (<<j, x>> \in due' <=> <<j, x>> \in due)
          BY <3>1, <3>3, <4>2
        <5>3. w[k] = IF /\ <<k, x>> \notin due
                        /\ \A j \in 1 .. n : calls[j].ends = k => <<j, x>> \in due
                     THEN 1 ELSE 0
          BY <2>3, <4>2
        <5>4. v[k] = IF /\ <<k, x>> \notin due'
                        /\ \A j \in 1 .. n : calls[j].ends = k => <<j, x>> \in due'
                     THEN 1 ELSE 0
          BY <2>3, <4>2
        <5> QED BY <5>1, <5>2, <5>3, <5>4
      <4> QED BY <4>1, <4>2
    <3>4. CASE calls[i].gain[x] = 1
      <4>1. ASSUME NEW j \in 1 .. n, calls[j].ends = i
            PROVE  <<j, x>> \in due'
        <5>1. calls[j].gain[x] = -1 /\ j # i
          BY <1>2, <3>2, <3>4, <4>1
        <5>2. <<j, x>> \in due
          BY <1>2, <1>3, <2>7, <4>1, <5>1 DEF OrderInv
        <5> QED BY <3>1, <5>1, <5>2
      <4>2. v[i] = 1 /\ w[i] = 0
        BY <1>2, <1>3, <2>3, <2>7, <3>1, <3>4, <4>1
      <4>3. ASSUME NEW k \in 1 .. n, k # i PROVE v[k] = w[k]
        <5>1. calls[k].gain[x] = 1 => calls[i].ends # k
          BY <1>2, <3>2, <3>4
        <5> QED BY <3>3, <4>3, <5>1
      <4>4. v[i] = w[i] + 1
        BY <4>2
      <4>5. Tally(v, n, landed[x] + 1)
        BY <1>2, <2>4, <2>5, <4>3, <4>4, TallyChanges
      <4> QED BY <1>3, <2>2, <2>7, <3>4, <4>5
    <3>5. CASE calls[i].gain[x] = -1
      <4>1. PICK m \in 1 .. n : calls[i].ends = m /\ calls[m].gain[x] = 1
        BY <1>2, <3>5 DEF PairsInv
      <4>2. m # i /\ <<m, x>> \notin due /\ <<i, x>> \in due
        BY <1>2, <1>3, <2>7, <3>2, <4>1
      <4>3. \A j \in 1 .. n : calls[j].ends = m => j = i
        BY <1>2, <4>1 DEF PairsInv
      <4>4. w[m] = 1
        BY <2>3, <4>1, <4>2, <4>3
      <4>5. v[m] = 0
        BY <1>2, <2>3, <3>1, <4>1
      <4>6. ASSUME NEW k \in 1 .. n, k # m PROVE v[k] = w[k]
        <5>1. calls[k].gain[x] = 1 => k # i /\ calls[i].ends # k
          BY <3>5, <4>1, <4>6
        <5> QED BY <3>3, <5>1
      <4>7. v[m] = w[m] + (-1) /\ -1 \in Int
        BY <4>4, <4>5
      <4>8. Tally(v, n, landed[x] + (-1))
        BY <1>2, <2>4, <2>5, <4>6, <4>7, TallyChanges
      <4> QED BY <1>3, <2>2, <2>7, <3>5, <4>8
    <3>6. CASE calls[i].gain[x] = 0
      <4>1. ASSUME NEW k \in 1 .. n PROVE v[k] = w[k]
        <5>1. calls[k].gain[x] = 1 => k # i /\ calls[i].ends # k
          BY <1>2, <3>2, <3>6
        <5> QED BY <3>3, <5>1
      <4>2. v[i] = w[i] + 0
        BY <1>2, <2>5, <4>1
      <4>3. Tally(v, n, landed[x] + 0)
        BY <1>2, <2>4, <2>5, <4>1, <4>2, TallyChanges
      <4> QED BY <1>3, <2>2, <2>7, <3>6, <4>3
    <3> QED BY <3>2, <3>4, <3>5, <3>6
  <2> QED BY <2>6, <2>7
<1>5. Len(calls)' = n
  BY <1>1, <1>3
<1> QED BY <1>4, <1>5 DEF GaugeInv

(* No counter goes below zero: a gauge holds what it holds of each call,   *)
(* and nothing is ever taken from the others.                              *)
LEMMA LandKeepsTypes ==
    ASSUME MetricsTypeOK, PairsInv, GaugeInv',
           NEW i \in DOMAIN calls, NEW c \in CounterNames, Land(i, c)
    PROVE  MetricsTypeOK'
<1>1. PICK n : n = Len(calls)
  OBVIOUS
<1>2. n \in Nat /\ DOMAIN calls = 1 .. n
  BY <1>1, MetricsTypes
<1>3. /\ calls' = calls /\ landed' \in Gains
      /\ landed'[c] = landed[c] + calls[i].gain[c]
      /\ \A d \in CounterNames : d # c => landed'[d] = landed[d]
  BY IncrementLanded
<1>4. ASSUME NEW d \in CounterNames PROVE landed'[d] \in Nat
  <2>1. CASE d \in Gauges
    <3>1. PICK v : v = Held(d)'
      OBVIOUS
    <3>2. Tally(v, n, landed'[d])
      BY <1>1, <1>3, <2>1, <3>1 DEF GaugeInv
    <3>3. \A k \in 1 .. n : v[k] \in Nat
      BY <1>2, <1>3, <3>1 DEF Held
    <3> QED BY <1>2, <3>2, <3>3, TallyOfNats
  <2>2. CASE d \notin Gauges
    <3>1. landed[d] \in Nat /\ calls[i].gain[d] \in Int
      BY MetricsTypes
    <3>2. calls[i].gain[d] >= 0
      BY <2>2 DEF PairsInv
    <3> QED BY <1>3, <3>1, <3>2
  <2> QED BY <2>1, <2>2
<1>5. landed' \in [CounterNames -> Nat]
  BY <1>3, <1>4 DEF Gains
<1>6. due' \subseteq due
  BY DEF Land
<1> QED BY <1>3, <1>5, <1>6 DEF MetricsTypeOK

(* An increment that lands keeps the invariant.                            *)
LEMMA LandKeeps ==
    ASSUME MetricsInv, NEW i \in DOMAIN calls, NEW c \in CounterNames, Land(i, c)
    PROVE  MetricsInv'
<1>1. MetricsTypeOK /\ IssuedInv /\ PairsInv /\ OrderInv /\ GaugeInv
  BY DEF MetricsInv
<1>2. /\ calls' = calls
      /\ <<i, c>> \in due /\ <<calls[i].ends, c>> \notin due
      /\ \A k, d : <<k, d>> \in due' <=> <<k, d>> \in due /\ <<k, d>> # <<i, c>>
  BY <1>1, IncrementLanded
<1>3. PairsInv'
  BY <1>1, <1>2 DEF PairsInv
<1>4. OrderInv'
  BY <1>1, <1>2 DEF OrderInv
<1>5. GaugeInv'
  BY <1>1, LandKeepsGauges
<1>6. MetricsTypeOK' /\ IssuedInv'
  BY <1>1, <1>5, LandKeepsTypes, LandKeepsSum
<1> QED BY <1>3, <1>4, <1>5, <1>6 DEF MetricsInv

-----------------------------------------------------------------------------
(* What begins, or counts without ending anything.                         *)
LEMMA CountsIsProper ==
    ASSUME NEW g, NEW a \in {0, 1}, NEW p \in {0, 1}, a = 0 \/ p = 0,
           Adds(g, a, p), DOMAIN calls \subseteq Nat \ {0}
    PROVE  Fits(g) /\ Proper(g, 0)
<1>1. /\ g \in Gains /\ Fits(g)
      /\ \A c \in CounterNames \ Gauges : g[c] >= 0
      /\ g[<<"agents", "active">>] = a /\ g[<<"promises", "pending">>] = p
  BY DEF Adds
<1>2. \A x \in Gauges : g[x] \in {0, 1}
  BY <1>1 DEF Gauges
<1>3. \A x, y \in Gauges : g[x] # 0 /\ g[y] # 0 => x = y
  BY <1>1 DEF Gauges
<1>4. 0 \notin DOMAIN calls
  OBVIOUS
<1> QED BY <1>1, <1>2, <1>3, <1>4 DEF Proper

(* What ends something of its own kind.                                    *)
LEMMA EndIsProper ==
    ASSUME MetricsTypeOK, PairsInv, NEW kind \in {"agents", "promises"},
           NEW g, NEW m \in DOMAIN calls, calls[m].gain[Gauge[kind]] = 1,
           \A k \in DOMAIN calls : calls[k].ends # m,
           Adds(g, IF kind = "agents" THEN -1 ELSE 0,
                   IF kind = "promises" THEN -1 ELSE 0)
    PROVE  Fits(g) /\ Proper(g, m)
<1>1. PICK own \in Gauges : own = Gauge[kind]
  BY GaugesCount DEF Gauges
<1>2. /\ g \in Gains /\ Fits(g)
      /\ \A c \in CounterNames \ Gauges : g[c] >= 0
  BY DEF Adds
<1>3. g[own] = -1 /\ \A x \in Gauges : x # own => g[x] = 0
  <2>1. CASE kind = "agents"
    BY <1>1, <2>1, GaugesCount DEF Adds, Gauges
  <2>2. CASE kind = "promises"
    BY <1>1, <2>2, GaugesCount DEF Adds, Gauges
  <2> QED BY <2>1, <2>2
<1>4. calls[m].gain[own] = 1 /\ m \in Nat
  BY <1>1, MetricsTypes
<1>5. \A x \in Gauges : calls[m].gain[x] = 1 => x = own
  BY <1>4 DEF PairsInv
<1> QED BY <1>2, <1>3, <1>4, <1>5 DEF Proper

(* Every step keeps the invariant.                                         *)
LEMMA MetricsSteps == MetricsInv /\ [MetricsNext]_metricsVars => MetricsInv'
<1> SUFFICES ASSUME MetricsInv, [MetricsNext]_metricsVars PROVE MetricsInv'
  OBVIOUS
<1>1. MetricsTypeOK /\ PairsInv /\ DOMAIN calls \subseteq Nat \ {0}
  BY MetricsTypes DEF MetricsInv
<1>2. ASSUME NEW g, NEW a \in {0, 1}, NEW p \in {0, 1}, a = 0 \/ p = 0,
             Adds(g, a, p), Counts(g)
      PROVE  MetricsInv'
  <2>1. Fits(g) /\ Proper(g, 0)
    BY <1>1, <1>2, CountsIsProper
  <2> QED BY <1>2, <2>1, IssueKeeps DEF Counts
<1>3. ASSUME NEW kind \in {"agents", "promises"}, NEW g, Ends(kind, g),
             Adds(g, IF kind = "agents" THEN -1 ELSE 0,
                     IF kind = "promises" THEN -1 ELSE 0)
      PROVE  MetricsInv'
  <2>1. PICK m \in DOMAIN calls :
            /\ calls[m].gain[Gauge[kind]] = 1
            /\ \A k \in DOMAIN calls : calls[k].ends # m
            /\ Issue(g, m)
    BY <1>3 DEF Ends
  <2>2. Fits(g) /\ Proper(g, m)
    BY <1>1, <1>3, <2>1, EndIsProper
  <2> QED BY <2>1, <2>2, IssueKeeps
<1>4. ASSUME Method PROVE MetricsInv'
  <2>1. CASE Counts(AgentStarted)
    BY <1>2, <2>1, AgentGains
  <2>2. CASE Counts(PromiseCreated)
    BY <1>2, <2>2, PromiseGains
  <2>3. CASE \E how \in {"completed", "failed", "timed_out"} :
               Ends("agents", AgentEnded(how))
    BY <1>3, <2>3, AgentGains
  <2>4. CASE \E how \in {"resolved", "rejected"} :
               Ends("promises", PromiseSettled(how))
    BY <1>3, <2>4, PromiseGains
  <2>5. CASE \E d \in Durations :
               \/ Counts(ToolCallCompleted(d)) \/ Counts(EvalCompleted(d))
               \/ \E hit, transpiled \in BOOLEAN :
                    Counts(ModuleLoaded(hit, transpiled, d))
    <3>1. PICK d \in Nat :
               \/ Counts(ToolCallCompleted(d)) \/ Counts(EvalCompleted(d))
               \/ \E hit, transpiled \in BOOLEAN :
                    Counts(ModuleLoaded(hit, transpiled, d))
      BY <2>5, DurationsAreNat
    <3> QED BY <1>2, <3>1, LatencyGains
  <2>6. CASE Counts(Inc("tools", "failed"))
    BY <1>2, <2>6, PlainGains
  <2>7. CASE \E result \in {"allowed", "denied"} :
               Counts(PermissionChecked(result))
    BY <1>2, <2>7, PlainGains
  <2> QED BY <1>4, <2>1, <2>2, <2>3, <2>4, <2>5, <2>6, <2>7 DEF Method
<1>5. CASE UNCHANGED metricsVars
  <2>1. landed' = landed /\ calls' = calls /\ due' = due
    BY <1>5 DEF metricsVars
  <2>2. MetricsTypeOK'
    BY <2>1 DEF MetricsInv, MetricsTypeOK
  <2>3. IssuedInv'
    BY <2>1 DEF MetricsInv, IssuedInv, Outstanding
  <2>4. PairsInv' /\ OrderInv'
    BY <2>1 DEF MetricsInv, PairsInv, OrderInv
  <2>5. GaugeInv'
    BY <2>1 DEF MetricsInv, GaugeInv, Held
  <2> QED BY <2>2, <2>3, <2>4, <2>5 DEF MetricsInv
<1> QED BY <1>4, <1>5, LandKeeps DEF MetricsNext

(* With no increment on its way, what has landed is what was issued.       *)
LEMMA QuietFits ==
    ASSUME MetricsInv, due = {}
    PROVE  Fits(landed)
<1>1. PICK total \in Gains :
          /\ Fits(total)
          /\ \A c \in CounterNames :
                 Tally(Outstanding(c), Len(calls), total[c] - landed[c])
  BY DEF MetricsInv, IssuedInv
<1>2. /\ Len(calls) \in Nat /\ DOMAIN calls = 1 .. Len(calls)
      /\ \A c \in CounterNames : landed[c] \in Nat
      /\ landed \in [CounterNames -> Nat]
  BY MetricsTypes DEF MetricsInv, MetricsTypeOK
<1>3. ASSUME NEW c \in CounterNames PROVE landed[c] = total[c]
  <2>1. \A k \in 1 .. Len(calls) : Outstanding(c)[k] = 0
    BY <1>2 DEF Outstanding
  <2>2. total[c] - landed[c] = 0
    BY <1>1, <1>2, <2>1, TallyOfNats
  <2>3. total[c] \in Int /\ landed[c] \in Int
    BY <1>2 DEF Gains
  <2> QED BY <2>2, <2>3
<1>4. landed = total
  BY <1>2, <1>3 DEF Gains
<1> QED BY <1>1, <1>4

(* A histogram of gains that fit is one that to_json() reports rightly.    *)
LEMMA FitReports ==
    ASSUME MetricsTypeOK,
           NEW h \in Histograms, NEW tally \in CounterNames,
           LatencyFits(landed, h, tally)
    PROVE  LatencyAddsUp(HistogramJson(h), landed[tally])
<1>1. PICK b : b = [k \in 1 .. 6 |-> landed[<<h, Buckets[k]>>]]
  OBVIOUS
<1>2. /\ HistogramJson(h).count = landed[<<h, "count">>]
      /\ HistogramJson(h).sum = landed[<<h, "sum_us">>]
      /\ HistogramJson(h).buckets = b
  BY <1>1, BucketNames DEF HistogramJson
<1>3. /\ landed[<<h, "count">>] = landed[tally]
      /\ b[1] + b[2] + b[3] + b[4] + b[5] + b[6] = landed[<<h, "count">>]
      /\ Allowed(landed[<<h, "sum_us">>], b[1], b[2], b[3], b[4], b[5], b[6])
  BY <1>1 DEF LatencyFits
<1>4. /\ b[1] \in Nat /\ b[2] \in Nat /\ b[3] \in Nat
      /\ b[4] \in Nat /\ b[5] \in Nat /\ b[6] \in Nat
      /\ landed[<<h, "sum_us">>] \in Nat
  <2>1. \A c \in CounterNames : landed[c] \in Nat
    BY DEF MetricsTypeOK
  <2>2. \A k \in 1 .. 6 : b[k] \in Nat
    BY <1>1, <2>1, LatencyNames
  <2>3. landed[<<h, "sum_us">>] \in Nat
    BY <2>1, LatencyNames
  <2>4. {1, 2, 3, 4, 5, 6} \subseteq 1 .. 6
    OBVIOUS
  <2> QED BY <2>2, <2>3, <2>4
<1>5. /\ Bounds[1] = 100 /\ Bounds[2] = 1000 /\ Bounds[3] = 10000
      /\ Bounds[4] = 100000 /\ Bounds[5] = 1000000
  BY DEF Bounds
<1>6. /\ Least(b) <= landed[<<h, "sum_us">>]
      /\ b[6] = 0 => landed[<<h, "sum_us">>] <= Most(b)
  BY <1>3, <1>4, <1>5 DEF Allowed, Least, Most
<1> QED BY <1>2, <1>3, <1>6 DEF LatencyAddsUp

(* The invariant implies what is said of a report.                         *)
LEMMA MetricsReport == MetricsInv => ReportAddsUp
<1> SUFFICES ASSUME MetricsInv PROVE ReportAddsUp
  OBVIOUS
<1>1. MetricsTypeOK
  BY DEF MetricsInv
<1>2. /\ landed[<<"agents", "active">>] >= 0
      /\ landed[<<"promises", "pending">>] >= 0
  BY <1>1, OtherNames DEF MetricsTypeOK
<1>3. PICK r : r = ToJson
  OBVIOUS
<1>4. /\ \A n \in {"started", "completed", "failed", "timed_out", "active"} :
             r.agents[n] = landed[<<"agents", n>>]
      /\ \A n \in {"created", "resolved", "rejected", "pending"} :
             r.promises[n] = landed[<<"promises", n>>]
      /\ r.loaded = landed[<<"modules", "loaded">>]
      /\ r.hits = landed[<<"modules", "cache_hits">>]
  BY <1>3 DEF ToJson
<1>5. /\ r.agents.active >= 0 /\ r.promises.pending >= 0
  BY <1>2, <1>4
<1>6. ASSUME due = {}
      PROVE  /\ r.agents.active = r.agents.started - r.agents.completed
                                      - r.agents.failed - r.agents.timed_out
             /\ r.promises.pending = r.promises.created - r.promises.resolved
                                         - r.promises.rejected
             /\ r.hits <= r.loaded
             /\ \A k \in 1 .. 3 : LatencyAddsUp(r.latency[k], r.calls[k])
  <2>1. Fits(landed)
    BY <1>6, QuietFits
  <2>2. /\ LatencyAddsUp(HistogramJson("tool_latency"),
                         landed[<<"tools", "total">>])
        /\ LatencyAddsUp(HistogramJson("module_load_latency"),
                         landed[<<"modules", "loaded">>])
        /\ LatencyAddsUp(HistogramJson("eval_latency"),
                         landed[<<"eval", "calls">>])
    BY <1>1, <2>1, FitReports, OtherNames, ThreeHistograms DEF Fits
  <2>3. /\ r.latency[1] = HistogramJson("tool_latency")
        /\ r.latency[2] = HistogramJson("module_load_latency")
        /\ r.latency[3] = HistogramJson("eval_latency")
        /\ r.calls[1] = landed[<<"tools", "total">>]
        /\ r.calls[2] = landed[<<"modules", "loaded">>]
        /\ r.calls[3] = landed[<<"eval", "calls">>]
    BY <1>3 DEF ToJson
  <2>4. \A k \in 1 .. 3 : LatencyAddsUp(r.latency[k], r.calls[k])
    <3>1. \A k \in 1 .. 3 : k \in {1, 2, 3}
      OBVIOUS
    <3> QED BY <2>2, <2>3, <3>1
  <2>5. r.agents.active = r.agents.started - r.agents.completed
                              - r.agents.failed - r.agents.timed_out
    BY <1>4, <2>1 DEF Fits, AgentsFit
  <2>6. r.promises.pending = r.promises.created - r.promises.resolved
                                 - r.promises.rejected
    BY <1>4, <2>1 DEF Fits, PromisesFit
  <2>7. r.hits <= r.loaded
    BY <1>4, <2>1 DEF Fits, HitsFit
  <2> QED BY <2>4, <2>5, <2>6, <2>7
<1> QED BY <1>3, <1>5, <1>6 DEF ReportAddsUp

(* No report has fewer than no agents active or promises pending, and one  *)
(* that is taken with no increment on its way adds up, for any number of   *)
(* calls on any threads and for any durations: all that was issued adds    *)
(* up, and what has not landed of it is on its way; a gauge holds one for  *)
(* each beginning whose end has not landed.                                *)
THEOREM ReportsAddUp == MetricsSpec => []ReportAddsUp
<1>1. MetricsInv => ReportAddsUp
  BY MetricsReport
<1> QED BY <1>1, MetricsBegin, MetricsSteps, PTL DEF MetricsSpec

(* The counters are naturals, whatever is on its way to them: no atomic    *)
(* ever wraps below zero.                                                  *)
THEOREM MetricsStayTyped == MetricsSpec => []MetricsTypeOK
<1>1. MetricsInv => MetricsTypeOK
  BY DEF MetricsInv
<1> QED BY <1>1, MetricsBegin, MetricsSteps, PTL DEF MetricsSpec
=============================================================================
