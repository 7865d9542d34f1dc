------------------------- MODULE PromiseBridge_proofs -------------------------
(***************************************************************************)
(* What PromiseBridge guarantees for any finite set of promises: its type  *)
(* correctness, the conservation and uniqueness of resolutions, the queue  *)
(* counters, the soundness of the idle test, that a promise settles as its *)
(* future ended, and that every step is one of ResolutionChannel.          *)
(***************************************************************************)
EXTENDS PromiseBridge, FiniteSetTheorems, SequenceTheorems, TLAPS

-----------------------------------------------------------------------------
(* The inductive invariant.                                                *)

(* The tasks whose outcome was pushed.                                     *)
PostPush == {"queued", "tallied", "done"}

(* The pending map holds exactly the tasks between insert and remove.      *)
EntryTracksTask ==
    \A p \in Promises :
        p \in pending <=>
            stage[p] \in {"tracked", "running", "ready", "queued", "tallied",
                          "panicked"}

(* Whatever was pushed was pushed by its own task, with its own outcome.   *)
PushedByItsTask ==
    \A i \in 1 .. Len(pushed) :
        /\ stage[pushed[i].handle] \in PostPush
        /\ pushed[i].result = future[pushed[i].handle]

(* Every task past its push did push.                                      *)
TaskDidPush ==
    \A p \in Promises :
        stage[p] \in PostPush =>
            \E i \in 1 .. Len(pushed) : pushed[i].handle = p

(* No task pushed twice.                                                   *)
PushedOnce ==
    \A i, j \in 1 .. Len(pushed) :
        pushed[i].handle = pushed[j].handle => i = j

PushInv == PushedByItsTask /\ TaskDidPush /\ PushedOnce

IInv ==
    /\ TypeOK
    /\ Conservation
    /\ CountersAccount
    /\ EntryTracksTask
    /\ PushInv

-----------------------------------------------------------------------------
(* Sequences and stages.                                                   *)

(* Moving the head of b to the end of d leaves their concatenation alone.  *)
LEMMA MoveHead ==
    ASSUME NEW S, NEW d \in Seq(S), NEW b \in Seq(S), b # <<>>
    PROVE  Append(d, Head(b)) \o Tail(b) = d \o b
<1> DEFINE l == Append(d, Head(b)) \o Tail(b)
           r == d \o b
<1>1. /\ Head(b) \in S /\ Tail(b) \in Seq(S)
      /\ Len(Tail(b)) = Len(b) - 1
      /\ \A i \in 1 .. Len(Tail(b)) : Tail(b)[i] = b[i + 1]
  BY HeadTailProperties
<1>2. /\ Append(d, Head(b)) \in Seq(S)
      /\ Len(Append(d, Head(b))) = Len(d) + 1
      /\ \A i \in 1 .. Len(d) : Append(d, Head(b))[i] = d[i]
      /\ Append(d, Head(b))[Len(d) + 1] = Head(b)
  BY <1>1, AppendProperties
<1>3. Len(d) \in Nat /\ Len(b) \in Nat /\ Head(b) = b[1]
  BY LenProperties
<1>4. /\ l \in Seq(S) /\ Len(l) = Len(d) + Len(b)
      /\ \A i \in 1 .. Len(d) + Len(b) :
            l[i] = IF i <= Len(d) + 1 THEN Append(d, Head(b))[i]
                   ELSE Tail(b)[i - (Len(d) + 1)]
  <2>1. Len(Append(d, Head(b))) + Len(Tail(b)) = Len(d) + Len(b)
    BY <1>1, <1>2, <1>3
  <2>2. QED
    BY <2>1, <1>1, <1>2, ConcatProperties
<1>5. /\ r \in Seq(S) /\ Len(r) = Len(d) + Len(b)
      /\ \A i \in 1 .. Len(d) + Len(b) :
            r[i] = IF i <= Len(d) THEN d[i] ELSE b[i - Len(d)]
  BY ConcatProperties
<1>6. ASSUME NEW i \in 1 .. Len(l) PROVE l[i] = r[i]
  <2> HIDE DEF l, r
  <2>0. i \in 1 .. Len(d) + Len(b)  BY <1>4
  <2>1. CASE i <= Len(d)
    BY <2>0, <2>1, <1>2, <1>3, <1>4, <1>5
  <2>2. CASE i = Len(d) + 1
    BY <2>0, <2>2, <1>2, <1>3, <1>4, <1>5
  <2>3. CASE i > Len(d) + 1
    <3>1. i - (Len(d) + 1) \in 1 .. Len(Tail(b))
      BY <2>0, <2>3, <1>1, <1>3
    <3>2. Tail(b)[i - (Len(d) + 1)] = b[(i - (Len(d) + 1)) + 1]
      BY <3>1, <1>1
    <3>3. (i - (Len(d) + 1)) + 1 = i - Len(d)
      BY <2>0, <1>3
    <3>4. QED
      BY <2>0, <2>3, <3>2, <3>3, <1>3, <1>4, <1>5
  <2>4. QED
    BY <2>0, <2>1, <2>2, <2>3, <1>3
<1>7. QED
  <2> HIDE DEF l, r
  <2>1. l = r
    BY <1>4, <1>5, <1>6, SeqEqual, Zenon
  <2>2. QED
    BY <2>1 DEF l, r

(* The handles of a concatenation are those of its parts.                  *)
LEMMA HandlesOfConcat ==
    ASSUME NEW s \in Seq(Resolution), NEW t \in Seq(Resolution)
    PROVE  HandlesIn(s \o t) = HandlesIn(s) \union HandlesIn(t)
<1>1. /\ Len(s) \in Nat /\ Len(t) \in Nat
      /\ DOMAIN s = 1 .. Len(s) /\ DOMAIN t = 1 .. Len(t)
  BY LenProperties
<1>2. /\ s \o t \in Seq(Resolution)
      /\ Len(s \o t) = Len(s) + Len(t)
      /\ \A i \in 1 .. Len(s) + Len(t) :
            (s \o t)[i] = IF i <= Len(s) THEN s[i] ELSE t[i - Len(s)]
  BY ConcatProperties
<1>3. DOMAIN (s \o t) = 1 .. Len(s) + Len(t)
  BY <1>2, LenProperties
<1>4. HandlesIn(s \o t) \subseteq HandlesIn(s) \union HandlesIn(t)
  <2>1. ASSUME NEW i \in 1 .. Len(s) + Len(t)
        PROVE  (s \o t)[i].handle \in HandlesIn(s) \union HandlesIn(t)
    <3>1. CASE i <= Len(s)
      BY <3>1, <1>1, <1>2 DEF HandlesIn
    <3>2. CASE i > Len(s)
      <4>1. i - Len(s) \in DOMAIN t  BY <3>2, <1>1
      <4>2. (s \o t)[i] = t[i - Len(s)]  BY <3>2, <1>1, <1>2
      <4>3. QED  BY <4>1, <4>2 DEF HandlesIn
    <3>3. QED  BY <3>1, <3>2, <1>1
  <2>2. QED  BY <2>1, <1>3 DEF HandlesIn
<1>5. HandlesIn(s) \subseteq HandlesIn(s \o t)
  <2>1. ASSUME NEW i \in DOMAIN s PROVE s[i].handle \in HandlesIn(s \o t)
    <3>1. i \in DOMAIN (s \o t) /\ (s \o t)[i] = s[i]
      BY <1>1, <1>2, <1>3
    <3>2. QED  BY <3>1 DEF HandlesIn
  <2>2. QED  BY <2>1 DEF HandlesIn
<1>6. HandlesIn(t) \subseteq HandlesIn(s \o t)
  <2>1. ASSUME NEW i \in DOMAIN t PROVE t[i].handle \in HandlesIn(s \o t)
    <3>1. Len(s) + i \in DOMAIN (s \o t) /\ (Len(s) + i) - Len(s) = i
      BY <1>1, <1>3
    <3>2. (s \o t)[Len(s) + i] = t[i]
      BY <3>1, <1>1, <1>2, <1>3
    <3>3. QED  BY <3>1, <3>2 DEF HandlesIn
  <2>2. QED  BY <2>1 DEF HandlesIn
<1>7. QED  BY <1>4, <1>5, <1>6

(* The tasks at a stage are finitely many.                                 *)
LEMMA InStageFinite ==
    ASSUME NEW s
    PROVE  IsFiniteSet(InStage(s)) /\ Cardinality(InStage(s)) \in Nat
<1>1. InStage(s) \in SUBSET Promises  BY DEF InStage
<1>2. IsFiniteSet(InStage(s))  BY <1>1, PromisesFinite, FS_Subset
<1>3. QED  BY <1>2, FS_CardinalityType

-----------------------------------------------------------------------------
(* Type correctness.                                                       *)

(* The types hold initially.                                               *)
LEMMA InitType == Init => TypeOK
BY DEF Init, TypeOK, Resolution, Results, Stages

(* Every step keeps the types.                                             *)
LEMMA StepType == TypeOK /\ [Next]_vars => TypeOK'
<1> SUFFICES ASSUME TypeOK, [Next]_vars PROVE TypeOK'
  OBVIOUS
<1> USE DEF TypeOK, Results, Stages
<1>1. ASSUME NEW p \in Promises, Register(p) PROVE TypeOK'
  BY <1>1 DEF Register, Advance, queueVars, jsVars
<1>2. ASSUME NEW p \in Promises, Track(p) PROVE TypeOK'
  BY <1>2 DEF Track, Advance, queueVars, jsVars
<1>3. ASSUME NEW p \in Promises, Start(p) PROVE TypeOK'
  BY <1>3 DEF Start, Advance, queueVars, jsVars
<1>4. ASSUME NEW p \in Promises, NEW result \in Results, Complete(p, result)
      PROVE  TypeOK'
  BY <1>4 DEF Complete, Advance, queueVars, jsVars
<1>5. ASSUME NEW p \in Promises, Panic(p) PROVE TypeOK'
  BY <1>5 DEF Panic, Advance, queueVars, jsVars
<1>6. ASSUME NEW p \in Promises, Push(p) PROVE TypeOK'
  <2> DEFINE r == [handle |-> p, result |-> future[p]]
  <2>1. r \in Resolution
    BY <1>6 DEF Push, OutcomeOf, Pushes, Resolution
  <2>2. Append(queue, r) \in Seq(Resolution)
    BY <2>1, AppendProperties
  <2>3. Append(pushed, r) \in Seq(Resolution)
    BY <2>1, AppendProperties
  <2>4. /\ stage' = [stage EXCEPT ![p] = "queued"]
        /\ queue' = Append(queue, r) /\ pushed' = Append(pushed, r)
        /\ UNCHANGED <<future, pending, promise_count, total_enqueued,
                       total_drained, jsVars, released>>
    BY <1>6 DEF Push, OutcomeOf, Advance, Enqueue
  <2>5. QED
    BY <2>2, <2>3, <2>4 DEF jsVars
<1>7. ASSUME NEW p \in Promises, Tally(p) PROVE TypeOK'
  BY <1>7 DEF Tally, Advance, jsVars
<1>8. ASSUME NEW p \in Promises, RemovePending(p) PROVE TypeOK'
  BY <1>8 DEF RemovePending, Removable, queueVars, jsVars
<1>9. CASE Drain
  <2>1. Len(queue) \in Nat /\ total_drained + Len(queue) \in Nat
    BY LenProperties
  <2>2. <<>> \in Seq(Resolution)
    BY EmptySeq
  <2>3. QED
    BY <1>9, <2>1, <2>2 DEF Drain, Remaining, CountOf
<1>10. ASSUME NEW answer \in Answers, HandOver(answer) PROVE TypeOK'
  <2> DEFINE r == Head(batch)
  <2>1. r \in Resolution /\ Tail(batch) \in Seq(Resolution)
    BY <1>10, HeadTailProperties DEF HandOver
  <2>2. Append(delivered, r) \in Seq(Resolution)
    BY <2>1, AppendProperties
  <2>3. r.handle \in Promises /\ r.result \in Results
    BY <2>1 DEF Resolution
  <2>4. /\ batch' = Tail(batch) /\ delivered' = Append(delivered, r)
        /\ Settle(r.handle, r.result, answer)
        /\ UNCHANGED <<stage, future, pending, promise_count, queueVars>>
    BY <1>10 DEF HandOver
  <2>5. /\ settled' \in [Promises -> Results \union {"pending"}]
        /\ failed' \subseteq Promises
    <3> HIDE DEF r
    <3>1. QED
      BY <2>3, <2>4 DEF Settle
  <2>6. released' \in [Promises -> {"no", "js", "drainer", "tokio"}]
    <3>1. \/ released' = [released EXCEPT ![r.handle] = released[r.handle]]
          \/ released' = [released EXCEPT ![r.handle] = "js"]
          \/ released' = [released EXCEPT ![r.handle] = "drainer"]
      BY <1>10 DEF HandOver
    <3>2. QED
      BY <2>3, <3>1
  <2> HIDE DEF r
  <2>7. QED
    BY <2>1, <2>2, <2>4, <2>5, <2>6 DEF queueVars
<1>11. CASE UNCHANGED vars
  BY <1>11 DEF vars, queueVars, jsVars
<1>12. QED
  BY <1>1, <1>2, <1>3, <1>4, <1>5, <1>6, <1>7, <1>8, <1>9, <1>10, <1>11
     DEF Next, TaskStep, Deliver

(* The bridge, the queue and the JS side keep their types.                 *)
THEOREM BridgeTypes == SafeSpec => []TypeOK
BY InitType, StepType, PTL DEF SafeSpec

-----------------------------------------------------------------------------
(* Conservation.                                                           *)

(* Only a push, a drain and a delivery touch the resolutions.              *)
LEMMA ResolutionSteps ==
    ASSUME [Next]_vars
    PROVE  \/ \E p \in Promises : Push(p)
           \/ Drain
           \/ Deliver
           \/ UNCHANGED <<pushed, delivered, batch, queue>>
BY DEF Next, TaskStep, Register, Track, Start, Complete, Panic, Tally,
       RemovePending, vars, queueVars, jsVars

(* A push goes behind what was taken before.                               *)
LEMMA AppendAfterConcat ==
    ASSUME NEW s \in Seq(Resolution), NEW t \in Seq(Resolution),
           NEW e \in Resolution
    PROVE  Append(s \o t, e) = s \o Append(t, e)
<1>1. <<e>> \in Seq(Resolution) /\ s \o t \in Seq(Resolution)
  BY ConcatProperties
<1>2. Append(s \o t, e) = (s \o t) \o <<e>> /\ Append(t, e) = t \o <<e>>
  BY <1>1, AppendIsConcat
<1>3. (s \o t) \o <<e>> = s \o (t \o <<e>>)
  BY <1>1, ConcatAssociative
<1>4. QED
  BY <1>2, <1>3

(* A push appends to the history what it appends to the queue; a drain and *)
(* a delivery only move resolutions along.                                 *)
LEMMA StepConservation ==
    TypeOK /\ Conservation /\ [Next]_vars => Conservation'
<1> SUFFICES ASSUME TypeOK, Conservation, [Next]_vars PROVE Conservation'
  OBVIOUS
<1>0. /\ queue \in Seq(Resolution) /\ batch \in Seq(Resolution)
      /\ delivered \in Seq(Resolution) /\ pushed \in Seq(Resolution)
      /\ delivered \o batch \in Seq(Resolution)
  BY ConcatProperties DEF TypeOK
<1>1. ASSUME NEW p \in Promises, Push(p) PROVE Conservation'
  <2>1. PICK r \in Resolution :
            /\ pushed' = Append(pushed, r) /\ queue' = Append(queue, r)
            /\ batch' = batch /\ delivered' = delivered
    BY <1>1 DEF Push, OutcomeOf, Enqueue, Pushes, Resolution, jsVars
  <2>2. Append((delivered \o batch) \o queue, r)
            = (delivered \o batch) \o Append(queue, r)
    BY <1>0, AppendAfterConcat
  <2>3. QED
    BY <2>1, <2>2 DEF Conservation
<1>2. CASE Drain
  <2>1. /\ pushed' = pushed /\ delivered' = delivered
        /\ batch = <<>> /\ batch' = queue /\ queue' = <<>>
    BY <1>2 DEF Drain, Remaining
  <2>2. delivered \o <<>> = delivered
    BY <1>0, ConcatEmptySeq
  <2>3. delivered \o queue \in Seq(Resolution)
    BY <1>0, ConcatProperties
  <2>4. (delivered \o queue) \o <<>> = delivered \o queue
    BY <2>3, ConcatEmptySeq
  <2>5. QED
    BY <2>1, <2>2, <2>4 DEF Conservation
<1>3. CASE Deliver
  <2>1. /\ batch # <<>> /\ batch' = Tail(batch)
        /\ delivered' = Append(delivered, Head(batch))
        /\ queue' = queue /\ pushed' = pushed
    BY <1>3 DEF Deliver, HandOver, queueVars
  <2>2. Append(delivered, Head(batch)) \o Tail(batch) = delivered \o batch
    BY <1>0, <2>1, MoveHead
  <2>3. QED
    BY <2>1, <2>2 DEF Conservation
<1>4. CASE UNCHANGED <<pushed, delivered, batch, queue>>
  BY <1>4 DEF Conservation
<1>5. QED
  BY <1>1, <1>2, <1>3, <1>4, ResolutionSteps

(* Nothing was pushed initially.                                           *)
LEMMA InitConservation == Init => Conservation
<1>1. /\ <<>> \in Seq(Resolution)
  BY EmptySeq
<1>2. <<>> \o <<>> = <<>>
  BY <1>1, ConcatEmptySeq
<1>3. QED
  BY <1>2 DEF Init, Conservation

(* No resolution is lost, duplicated or overtaken between push and         *)
(* delivery.                                                               *)
THEOREM BridgeConserves == SafeSpec => []Conservation
<1>1. TypeOK /\ Conservation /\ [Next]_vars => (TypeOK /\ Conservation)'
  BY StepType, StepConservation
<1>2. QED
  BY <1>1, InitType, InitConservation, PTL DEF SafeSpec

-----------------------------------------------------------------------------
(* The queue counters.                                                     *)

(* Whatever does not move a task into or out of "queued" leaves the number *)
(* of tasks there alone.                                                   *)
LEMMA SameQueued ==
    ASSUME NEW p \in Promises, NEW to \in Stages, TypeOK,
           stage[p] # "queued", to # "queued",
           stage' = [stage EXCEPT ![p] = to]
    PROVE  InStage("queued")' = InStage("queued")
BY DEF InStage, TypeOK

(* Initially no task is between its push and its counter update.           *)
LEMMA InitCounters == Init => CountersAccount
<1> SUFFICES ASSUME Init PROVE CountersAccount
  OBVIOUS
<1>1. InStage("queued") = {}
  BY DEF Init, InStage
<1>2. Cardinality({}) = 0
  BY FS_EmptySet
<1>3. Len(<<>>) = 0
  BY EmptySeq
<1>4. QED
  BY <1>1, <1>2, <1>3 DEF Init, CountersAccount

(* A push adds one to the queue and one task to those not yet counted; the *)
(* counter update and the drain restore the balance.                       *)
LEMMA StepCounters ==
    TypeOK /\ CountersAccount /\ [Next]_vars => CountersAccount'
<1> SUFFICES ASSUME TypeOK, CountersAccount, [Next]_vars PROVE CountersAccount'
  OBVIOUS
<1> DEFINE counted == <<total_enqueued, total_drained, queue>>
<1>0. /\ IsFiniteSet(InStage("queued"))
      /\ Cardinality(InStage("queued")) \in Nat
      /\ total_enqueued \in Nat /\ total_drained \in Nat /\ Len(queue) \in Nat
  BY InStageFinite, LenProperties DEF TypeOK
<1>1. ASSUME NEW p \in Promises, Push(p) PROVE CountersAccount'
  <2> DEFINE r == [handle |-> p, result |-> future[p]]
  <2>1. /\ stage[p] = "ready" /\ stage' = [stage EXCEPT ![p] = "queued"]
        /\ queue' = Append(queue, r) /\ r \in Resolution
        /\ total_enqueued' = total_enqueued /\ total_drained' = total_drained
    BY <1>1 DEF Push, OutcomeOf, Advance, Enqueue, Pushes, Resolution
  <2>2. Len(queue') = Len(queue) + 1
    BY <2>1, AppendProperties DEF TypeOK
  <2>3. InStage("queued")' = InStage("queued") \union {p}
    BY <2>1 DEF InStage, TypeOK
  <2>4. p \notin InStage("queued")
    BY <2>1 DEF InStage
  <2>5. Cardinality(InStage("queued") \union {p})
            = Cardinality(InStage("queued")) + 1
    BY <1>0, <2>4, FS_AddElement
  <2>6. Cardinality(InStage("queued")') = Cardinality(InStage("queued")) + 1
    BY <2>3, <2>5
  <2> HIDE DEF r
  <2>7. total_enqueued + (Cardinality(InStage("queued")) + 1)
             = total_drained + (Len(queue) + 1)
    BY <1>0 DEF CountersAccount
  <2>8. QED
    BY <2>1, <2>2, <2>6, <2>7 DEF CountersAccount
<1>2. ASSUME NEW p \in Promises, Tally(p) PROVE CountersAccount'
  <2>1. /\ stage[p] = "queued" /\ stage' = [stage EXCEPT ![p] = "tallied"]
        /\ total_enqueued' = total_enqueued + 1
        /\ total_drained' = total_drained /\ queue' = queue
    BY <1>2 DEF Tally, Advance
  <2>2. InStage("queued")' = InStage("queued") \ {p} /\ p \in InStage("queued")
    BY <2>1 DEF InStage, TypeOK
  <2>3. Cardinality(InStage("queued") \ {p})
            = Cardinality(InStage("queued")) - 1
    BY <1>0, <2>2, FS_RemoveElement
  <2>4. Cardinality(InStage("queued")') = Cardinality(InStage("queued")) - 1
    BY <2>2, <2>3
  <2>5. QED
    BY <1>0, <2>1, <2>4 DEF CountersAccount
<1>3. CASE Drain
  <2>1. /\ stage' = stage /\ total_enqueued' = total_enqueued
        /\ total_drained' = total_drained + Len(queue) /\ queue' = <<>>
    BY <1>3 DEF Drain, Remaining, CountOf
  <2>2. Len(<<>>) = 0
    BY EmptySeq
  <2>3. InStage("queued")' = InStage("queued")
    BY <2>1 DEF InStage
  <2>4. QED
    BY <1>0, <2>1, <2>2, <2>3 DEF CountersAccount
<1>4. ASSUME InStage("queued")' = InStage("queued"), UNCHANGED counted
      PROVE  CountersAccount'
  BY <1>4 DEF CountersAccount
<1>5. ASSUME NEW p \in Promises,
             \/ Register(p) \/ Track(p) \/ Start(p) \/ Panic(p)
             \/ RemovePending(p) \/ \E result \in Results : Complete(p, result)
      PROVE  CountersAccount'
  <2>1. \E to \in Stages \ {"queued"} :
            stage[p] # "queued" /\ stage' = [stage EXCEPT ![p] = to]
    BY <1>5 DEF Register, Track, Start, Panic, RemovePending, Removable,
                Complete, Advance, Stages
  <2>2. InStage("queued")' = InStage("queued")
    BY <2>1, SameQueued
  <2>3. UNCHANGED counted
    BY <1>5 DEF Register, Track, Start, Panic, RemovePending, Complete,
                queueVars
  <2>4. QED
    BY <1>4, <2>2, <2>3
<1>6. CASE Deliver \/ UNCHANGED vars
  <2>1. stage' = stage /\ UNCHANGED counted
    BY <1>6 DEF Deliver, HandOver, vars, queueVars
  <2>2. InStage("queued")' = InStage("queued")
    BY <2>1 DEF InStage
  <2>3. QED
    BY <1>4, <2>1, <2>2
<1>7. QED
  BY <1>1, <1>2, <1>3, <1>5, <1>6 DEF Next, TaskStep

(* The counters account for the queue at every instant, for any number of  *)
(* tasks caught between their push and their counter update.               *)
THEOREM BridgeCounts == SafeSpec => []CountersAccount
<1>1. TypeOK /\ CountersAccount /\ [Next]_vars => (TypeOK /\ CountersAccount)'
  BY StepType, StepCounters
<1>2. QED
  BY <1>1, InitType, InitCounters, PTL DEF SafeSpec

-----------------------------------------------------------------------------
(* The pending map and the tasks.                                          *)

(* A task keeps its pending entry until it removes it, after its push.     *)
LEMMA StepEntries ==
    TypeOK /\ EntryTracksTask /\ [Next]_vars => EntryTracksTask'
<1> SUFFICES ASSUME TypeOK, EntryTracksTask, [Next]_vars PROVE EntryTracksTask'
  OBVIOUS
<1> USE DEF TypeOK, EntryTracksTask
<1>1. ASSUME NEW p \in Promises, Track(p) PROVE EntryTracksTask'
  BY <1>1 DEF Track, Advance
<1>2. ASSUME NEW p \in Promises, RemovePending(p) PROVE EntryTracksTask'
  BY <1>2 DEF RemovePending, Removable
<1>3. ASSUME NEW p \in Promises,
             \/ Register(p) \/ Start(p) \/ Panic(p) \/ Push(p) \/ Tally(p)
             \/ \E result \in Results : Complete(p, result)
      PROVE  EntryTracksTask'
  BY ZenonT(40), <1>3 DEF Register, Start, Panic, Push, Tally, Complete, Advance
<1>4. CASE Drain \/ Deliver \/ UNCHANGED vars
  BY <1>4 DEF Drain, Deliver, HandOver, vars
<1>5. QED
  BY <1>1, <1>2, <1>3, <1>4 DEF Next, TaskStep

(* Only the push moves a task past its push; nothing moves it back, and    *)
(* nothing changes a future that returned.                                 *)
LEMMA PastPush ==
    ASSUME TypeOK, [Next]_vars, NEW p \in Promises
    PROVE  /\ stage[p] \in PostPush =>
                  stage'[p] \in PostPush /\ future'[p] = future[p]
           /\ stage[p] \notin PostPush /\ stage'[p] \in PostPush => Push(p)
<1> USE DEF TypeOK, PostPush
<1>1. ASSUME NEW q \in Promises,
             \/ Register(q) \/ Track(q) \/ Start(q) \/ Panic(q)
             \/ \E result \in Results : Complete(q, result)
      PROVE  /\ stage[p] \in PostPush =>
                    stage'[p] \in PostPush /\ future'[p] = future[p]
             /\ stage[p] \notin PostPush /\ stage'[p] \in PostPush => Push(p)
  BY <1>1 DEF Register, Track, Start, Panic, Complete, Advance
<1>2. ASSUME NEW q \in Promises, Push(q) \/ Tally(q) \/ RemovePending(q)
      PROVE  /\ stage[p] \in PostPush =>
                    stage'[p] \in PostPush /\ future'[p] = future[p]
             /\ stage[p] \notin PostPush /\ stage'[p] \in PostPush => Push(p)
  BY <1>2 DEF Push, OutcomeOf, Tally, RemovePending, Removable, Advance
<1>3. CASE Drain \/ Deliver \/ UNCHANGED vars
  BY <1>3 DEF Drain, Deliver, HandOver, vars
<1>4. QED
  BY <1>1, <1>2, <1>3 DEF Next, TaskStep

(* What a push adds to the history.                                        *)
LEMMA PushAdds ==
    ASSUME TypeOK, NEW p \in Promises, Push(p)
    PROVE  /\ stage[p] = "ready" /\ stage' = [stage EXCEPT ![p] = "queued"]
           /\ future' = future
           /\ Len(pushed) \in Nat
           /\ Len(pushed') = Len(pushed) + 1
           /\ \A i \in 1 .. Len(pushed) : pushed'[i] = pushed[i]
           /\ pushed'[Len(pushed) + 1].handle = p
           /\ pushed'[Len(pushed) + 1].result = future[p]
<1> DEFINE r == [handle |-> p, result |-> future[p]]
<1>1. /\ stage[p] = "ready" /\ stage' = [stage EXCEPT ![p] = "queued"]
      /\ future' = future /\ pushed' = Append(pushed, r) /\ r \in Resolution
      /\ r.handle = p /\ r.result = future[p]
  BY DEF Push, OutcomeOf, Advance, Pushes, Resolution
<1> HIDE DEF r
<1>2. pushed \in Seq(Resolution) /\ Len(pushed) \in Nat
  BY LenProperties DEF TypeOK
<1>3. /\ Len(Append(pushed, r)) = Len(pushed) + 1
      /\ \A i \in 1 .. Len(pushed) : Append(pushed, r)[i] = pushed[i]
      /\ Append(pushed, r)[Len(pushed) + 1] = r
  BY <1>1, <1>2, AppendProperties
<1>4. QED
  BY <1>1, <1>2, <1>3

(* Every resolution pushed stems from the one push of its task.            *)
LEMMA StepPushes == TypeOK /\ PushInv /\ [Next]_vars => PushInv'
<1> SUFFICES ASSUME TypeOK, PushInv, [Next]_vars PROVE PushInv'
  OBVIOUS
<1>0. /\ Len(pushed) \in Nat
      /\ \A i \in 1 .. Len(pushed) : pushed[i].handle \in Promises
  <2>1. pushed \in Seq(Resolution) /\ Len(pushed) \in Nat
    BY LenProperties DEF TypeOK
  <2>2. \A i \in 1 .. Len(pushed) : pushed[i] \in Resolution
    BY <2>1, ElementOfSeq
  <2>3. QED
    BY <2>1, <2>2 DEF Resolution
<1>1. ASSUME NEW p \in Promises, Push(p) PROVE PushInv'
  <2>1. /\ stage[p] = "ready" /\ stage' = [stage EXCEPT ![p] = "queued"]
        /\ future' = future
        /\ Len(pushed') = Len(pushed) + 1
        /\ \A i \in 1 .. Len(pushed) : pushed'[i] = pushed[i]
        /\ pushed'[Len(pushed) + 1].handle = p
        /\ pushed'[Len(pushed) + 1].result = future[p]
    BY <1>1, PushAdds
  <2>2. \A i \in 1 .. Len(pushed) : pushed[i].handle # p
    BY <2>1 DEF PushInv, PushedByItsTask, PostPush
  <2>3. PushedByItsTask'
    <3> SUFFICES ASSUME NEW i \in 1 .. Len(pushed')
                 PROVE  /\ stage'[pushed'[i].handle] \in PostPush
                        /\ pushed'[i].result = future'[pushed'[i].handle]
      BY DEF PushedByItsTask
    <3>1. CASE i \in 1 .. Len(pushed)
      BY SMTT(30), <3>1, <2>1, <2>2, <1>0 DEF PushInv, PushedByItsTask, TypeOK
    <3>2. CASE i = Len(pushed) + 1
      BY <3>2, <2>1 DEF PostPush, TypeOK
    <3>3. QED
      BY <3>1, <3>2, <2>1, <1>0
  <2>4. TaskDidPush'
    <3> SUFFICES ASSUME NEW q \in Promises, stage'[q] \in PostPush
                 PROVE  \E i \in 1 .. Len(pushed') : pushed'[i].handle = q
      BY DEF TaskDidPush
    <3>1. CASE q = p
      BY <3>1, <2>1, <1>0
    <3>2. CASE q # p
      <4>1. stage[q] \in PostPush
        BY <3>2, <2>1 DEF TypeOK
      <4>2. PICK i \in 1 .. Len(pushed) : pushed[i].handle = q
        BY <4>1 DEF PushInv, TaskDidPush
      <4>3. QED
        BY <4>2, <2>1, <1>0
    <3>3. QED
      BY <3>1, <3>2
  <2>5. PushedOnce'
    <3> SUFFICES ASSUME NEW i \in 1 .. Len(pushed'), NEW j \in 1 .. Len(pushed'),
                        pushed'[i].handle = pushed'[j].handle
                 PROVE  i = j
      BY DEF PushedOnce
    <3>1. /\ i \in 1 .. Len(pushed) \/ i = Len(pushed) + 1
          /\ j \in 1 .. Len(pushed) \/ j = Len(pushed) + 1
      BY <2>1, <1>0
    <3>2. QED
      BY <3>1, <2>1, <2>2 DEF PushInv, PushedOnce
  <2>6. QED
    BY <2>3, <2>4, <2>5 DEF PushInv
<1>2. CASE ~ \E p \in Promises : Push(p)
  <2>1. pushed' = pushed
    BY <1>2, ResolutionSteps DEF Drain, Deliver, HandOver, queueVars
  <2>2. \A p \in Promises :
            /\ stage[p] \in PostPush <=> stage'[p] \in PostPush
            /\ stage[p] \in PostPush => future'[p] = future[p]
    BY <1>2, PastPush
  <2>3. PushedByItsTask'
    BY <2>1, <2>2, <1>0 DEF PushInv, PushedByItsTask
  <2>4. TaskDidPush'
    BY <2>1, <2>2 DEF PushInv, TaskDidPush
  <2>5. PushedOnce'
    BY <2>1 DEF PushInv, PushedOnce
  <2>6. QED
    BY <2>3, <2>4, <2>5 DEF PushInv
<1>3. QED
  BY <1>1, <1>2

-----------------------------------------------------------------------------
(* The invariant holds.                                                    *)

(* The inductive invariant holds initially.                                *)
LEMMA InitIInv == Init => IInv
<1> SUFFICES ASSUME Init PROVE IInv
  OBVIOUS
<1>1. EntryTracksTask
  BY DEF Init, EntryTracksTask
<1>2. Len(pushed) = 0
  BY EmptySeq DEF Init
<1>3. PushedByItsTask /\ PushedOnce
  BY <1>2 DEF PushedByItsTask, PushedOnce
<1>4. TaskDidPush
  BY DEF Init, TaskDidPush, PostPush
<1>5. QED
  BY <1>1, <1>3, <1>4, InitType, InitConservation, InitCounters
     DEF IInv, PushInv

(* Every step keeps the inductive invariant.                               *)
LEMMA StepIInv == IInv /\ [Next]_vars => IInv'
BY StepType, StepConservation, StepCounters, StepEntries, StepPushes
   DEF IInv

(* The inductive invariant holds in every reachable state.                 *)
THEOREM BridgeInvariant == SafeSpec => []IInv
BY InitIInv, StepIInv, PTL DEF SafeSpec

(* No promise is handed to the JS engine, or waits to be, twice.           *)
THEOREM BridgeNoDuplicate == SafeSpec => []NoDuplicate
<1>1. IInv => NoDuplicate
  <2> SUFFICES ASSUME IInv PROVE NoDuplicate
    OBVIOUS
  <2>1. DOMAIN pushed = 1 .. Len(pushed)
    BY LenProperties DEF IInv, TypeOK
  <2>2. QED
    BY <2>1 DEF IInv, PushInv, Conservation, PushedOnce, NoDuplicate
<1>2. QED
  BY <1>1, BridgeInvariant, PTL

(* Reading the pending count, then the queue, never misses work in flight. *)
THEOREM BridgeIdleTestSound == SafeSpec => []IdleTestSound
<1>1. IInv => IdleTestSound
  <2> SUFFICES ASSUME IInv, NEW p \in Promises,
                      p \notin pending, stage[p] \notin {"new", "counted"}
               PROVE  p \in HandlesIn(queue) \union HandlesIn(batch)
                              \union HandlesIn(delivered)
    BY DEF IdleTestSound
  <2>1. stage[p] \in PostPush
    BY DEF IInv, TypeOK, Stages, EntryTracksTask, PostPush
  <2>2. p \in HandlesIn(pushed)
    <3>1. PICK i \in 1 .. Len(pushed) : pushed[i].handle = p
      BY <2>1 DEF IInv, PushInv, TaskDidPush
    <3>2. i \in DOMAIN pushed
      BY LenProperties DEF IInv, TypeOK
    <3>3. QED
      BY <3>1, <3>2 DEF HandlesIn
  <2>3. /\ delivered \in Seq(Resolution) /\ batch \in Seq(Resolution)
        /\ queue \in Seq(Resolution) /\ delivered \o batch \in Seq(Resolution)
    BY ConcatProperties DEF IInv, TypeOK
  <2>4. HandlesIn(pushed) = HandlesIn(delivered \o batch) \union HandlesIn(queue)
    BY <2>3, HandlesOfConcat DEF IInv, Conservation
  <2>5. HandlesIn(delivered \o batch) = HandlesIn(delivered) \union HandlesIn(batch)
    BY <2>3, HandlesOfConcat
  <2>6. QED
    BY <2>2, <2>4, <2>5
<1>2. QED
  BY <1>1, BridgeInvariant, PTL

-----------------------------------------------------------------------------
(* Delivery.                                                               *)

(* The resolution a delivery takes is the oldest pushed and undelivered.   *)
LEMMA NextIsHead ==
    ASSUME TypeOK, Conservation, batch # <<>>
    PROVE  /\ Len(delivered) \in Nat
           /\ Len(delivered) + 1 \in 1 .. Len(pushed)
           /\ pushed[Len(delivered) + 1] = Head(batch)
<1>1. /\ delivered \in Seq(Resolution) /\ batch \in Seq(Resolution)
      /\ queue \in Seq(Resolution) /\ pushed \in Seq(Resolution)
      /\ Len(delivered) \in Nat /\ Len(batch) \in Nat \ {0}
      /\ Len(queue) \in Nat
  BY LenProperties, EmptySeq DEF TypeOK
<1> DEFINE taken == delivered \o batch
<1>2. /\ taken \in Seq(Resolution) /\ Len(taken) = Len(delivered) + Len(batch)
      /\ \A i \in 1 .. Len(delivered) + Len(batch) :
            taken[i] = IF i <= Len(delivered) THEN delivered[i]
                       ELSE batch[i - Len(delivered)]
  BY <1>1, ConcatProperties
<1>3. pushed = taken \o queue
  BY DEF Conservation
<1> HIDE DEF taken
<1>4. /\ Len(pushed) = Len(taken) + Len(queue)
      /\ \A i \in 1 .. Len(taken) + Len(queue) :
            pushed[i] = IF i <= Len(taken) THEN taken[i]
                        ELSE queue[i - Len(taken)]
  BY <1>1, <1>2, <1>3, ConcatProperties
<1>5. taken[Len(delivered) + 1] = batch[1] /\ Head(batch) = batch[1]
  <2>1. Len(delivered) + 1 \in 1 .. Len(delivered) + Len(batch)
    BY <1>1
  <2>2. (Len(delivered) + 1) - Len(delivered) = 1
    BY <1>1
  <2>3. QED
    BY <1>1, <1>2, <2>1, <2>2
<1>6. QED
  BY <1>1, <1>2, <1>4, <1>5

(* A promise settles at most once, and as its own future ended, whichever  *)
(* deliveries fail.                                                        *)
THEOREM BridgeSettles == SafeSpec => SettledAsComputed
<1> DEFINE SettleStep ==
        \A p \in Promises :
            settled'[p] # settled[p] =>
                settled[p] = "pending" /\ settled'[p] = future[p]
<1>1. IInv /\ [Next]_vars => [SettleStep]_vars
  <2> SUFFICES ASSUME IInv, [Next]_vars PROVE SettleStep
    OBVIOUS
  <2>1. CASE Deliver
    <3> DEFINE r == Head(batch)
    <3>1. /\ batch # <<>>
          /\ \E answer \in Answers : Settle(r.handle, r.result, answer)
      BY <2>1 DEF Deliver, HandOver
    <3>2. PICK i \in 1 .. Len(pushed) : pushed[i] = r
      BY <3>1, NextIsHead DEF IInv
    <3>3. r.result = future[r.handle]
      BY <3>2 DEF IInv, PushInv, PushedByItsTask
    <3> HIDE DEF r
    <3>4. QED
      BY <3>1, <3>3 DEF Settle, IInv, TypeOK
  <2>2. CASE ~Deliver
    <3>1. settled' = settled
      BY <2>2 DEF Next, TaskStep, Register, Track, Start, Complete, Panic,
                  Push, Tally, RemovePending, Drain, vars, jsVars
    <3>2. QED
      BY <3>1
  <2>3. QED
    BY <2>1, <2>2
<1>2. QED
  BY <1>1, BridgeInvariant, PTL DEF SafeSpec, SettledAsComputed

(* The bridge implements the FIFO, exactly-once channel, liveness apart.   *)
THEOREM BridgeImplementsChannel == SafeSpec => Channel!SafeSpec
<1>1. Init => Channel!Init
  BY DEF Init, Channel!Init
<1>2. IInv /\ [Next]_vars => [Channel!Next]_(Channel!chanVars)
  <2> SUFFICES ASSUME IInv, [Next]_vars
               PROVE  Channel!Next \/ UNCHANGED Channel!chanVars
    OBVIOUS
  <2>1. ASSUME NEW p \in Promises, Push(p) PROVE Channel!Next
    <3> DEFINE r == [handle |-> p, result |-> future[p]]
    <3>1. r \in Channel!Resolution
      BY <2>1 DEF Push, OutcomeOf, Pushes, Results, Channel!Resolution
    <3>2. pushed' = Append(pushed, r) /\ delivered' = delivered
      BY <2>1 DEF Push, OutcomeOf, jsVars
    <3>3. \A i \in DOMAIN pushed : pushed[i].handle # r.handle
      <4>1. stage[p] = "ready"
        BY <2>1 DEF Push, OutcomeOf, Advance
      <4>2. DOMAIN pushed = 1 .. Len(pushed)
        BY LenProperties DEF IInv, TypeOK
      <4>3. QED
        BY <4>1, <4>2 DEF IInv, PushInv, PushedByItsTask, PostPush
    <3>4. Channel!Accept(r)
      BY <3>2, <3>3 DEF Channel!Accept
    <3>5. QED
      BY <3>1, <3>4 DEF Channel!Next
  <2>2. CASE Deliver
    <3>1. /\ batch # <<>>
          /\ delivered' = Append(delivered, Head(batch)) /\ pushed' = pushed
      BY <2>2 DEF Deliver, HandOver, queueVars
    <3>2. /\ Len(delivered) \in Nat
          /\ Len(delivered) + 1 \in 1 .. Len(pushed)
          /\ pushed[Len(delivered) + 1] = Head(batch)
      BY <3>1, NextIsHead DEF IInv
    <3>3. Len(pushed) \in Nat
      BY LenProperties DEF IInv, TypeOK
    <3>4. Len(delivered) < Len(pushed)
      BY <3>2, <3>3
    <3>5. Channel!Deliver
      BY <3>1, <3>2, <3>4 DEF Channel!Deliver
    <3>6. QED
      BY <3>5 DEF Channel!Next
  <2>3. CASE Drain \/ UNCHANGED <<pushed, delivered, batch, queue>>
    BY <2>3 DEF Drain, Channel!chanVars
  <2>4. QED
    BY <2>1, <2>2, <2>3, ResolutionSteps
<1>3. QED
  BY <1>1, <1>2, BridgeInvariant, PTL DEF SafeSpec, Channel!SafeSpec

=============================================================================
