----------------------------- MODULE Engine_proofs -----------------------------
(***************************************************************************)
(* Proofs about the engine's glue (runtime/src/ffi, runtime/src/promise):  *)
(* JsThread, JsPromise and JsValues, for every set of calls, resolvers and *)
(* boxes, every capacity of the channel and every bound on clones.         *)
(*                                                                         *)
(* GracefulExit is not inductive: it says nothing of who waits and who is  *)
(* answered.  ThreadInv adds where each call is (CallsAccounted), who      *)
(* waits for room (WaitersWait) and what the thread holds (HandHolds); the *)
(* same invariant gives the action property and the refinement of          *)
(* JsService.                                                              *)
(***************************************************************************)
EXTENDS JsThread, JsPromise, JsValues, SequenceFacts, TLAPS

-----------------------------------------------------------------------------
(* The JS thread.                                                          *)

(* A call is in the channel's history from when its send() succeeded, and  *)
(* only then; it has no answer while it is in progress, and a result only  *)
(* if its closure ran.                                                     *)
CallsAccounted ==
    \A c \in Calls :
        /\ caller[c] \in {"idle", "sending"} => c \notin ToSet(accepted)
        /\ caller[c] = "awaiting" => c \in ToSet(accepted)
        /\ caller[c] \in {"idle", "sending", "awaiting"} => answer[c] = "none"
        /\ reply[c] = "filled" => c \in ToSet(ran)

(* Only calls still in send() wait for room, each once.                    *)
WaitersWait ==
    /\ \A i \in DOMAIN waiters : caller[waiters[i]] = "sending"
    /\ \A i, j \in DOMAIN waiters : waiters[i] = waiters[j] => i = j

(* What the thread holds while it works and replies; it replies when the   *)
(* closure has run.                                                        *)
HandHolds ==
    /\ current \in Calls <=> thread \in {"working", "replying"}
    /\ thread = "replying" => current \in ToSet(ran)

ThreadInv ==
    TypeOK /\ CallsAccounted /\ WaitersWait /\ HandHolds /\ GracefulExit

LEMMA ThreadInit == Init => ThreadInv
<1> SUFFICES ASSUME Init PROVE ThreadInv
  OBVIOUS
<1>1. TypeOK
  BY CapacityPositive DEF Init, TypeOK, Threads, Answers
<1>2. ToSet(<<>>) = {}
  BY DEF ToSet
<1>3. CallsAccounted /\ WaitersWait
  BY <1>2 DEF Init, CallsAccounted, WaitersWait
<1>4. HandHolds
  BY NoCallIsNone DEF Init, HandHolds
<1>5. GracefulExit
  BY DEF Init, GracefulExit, InHand, Gone
<1> QED BY <1>1, <1>3, <1>4, <1>5 DEF ThreadInv

(* A caller in send() gets its item into the buffer.                       *)
LEMMA AcceptKeeps ==
    ASSUME ThreadInv, NEW c \in Calls, caller[c] \in {"idle", "sending"},
           thread \notin Gone, Len(queue) < Capacity, Accept(c),
           waiters' \in Seq(Calls),
           \A i \in DOMAIN waiters' :
              waiters'[i] # c /\ caller[waiters'[i]] = "sending",
           \A i, j \in DOMAIN waiters' : waiters'[i] = waiters'[j] => i = j,
           UNCHANGED <<thread, current, reply, answer, handles, ran>>
    PROVE  ThreadInv'
<1> USE DEF ThreadInv, Accept
<1>1. TypeOK'
  <2>1. queue' \in Seq(Calls) /\ Len(queue') = Len(queue) + 1
    BY DEF TypeOK
  <2>2. accepted' \in Seq(Calls)
    BY DEF TypeOK
  <2>3. Len(queue') <= Capacity
    BY <2>1, CapacityPositive DEF TypeOK
  <2>4. caller' \in [Calls -> {"idle", "sending", "awaiting", "returned",
                               "abandoned"}]
    BY DEF TypeOK
  <2> QED BY <2>1, <2>2, <2>3, <2>4 DEF TypeOK
<1>2. caller'[c] = "awaiting" /\ \A d \in Calls \ {c} : caller'[d] = caller[d]
  BY DEF TypeOK
<1>3. ToSet(accepted') = ToSet(accepted) \union {c}
  BY SetOfAppend DEF TypeOK
<1>4. CallsAccounted'
  BY <1>2, <1>3 DEF CallsAccounted
<1>5. WaitersWait'
  <2>1. \A i \in DOMAIN waiters' : waiters'[i] \in Calls
    OBVIOUS
  <2> QED BY <1>2, <2>1 DEF WaitersWait
<1>6. GracefulExit'
  <2>1. /\ ran \in Seq(Calls) /\ InHand \in Seq(Calls) /\ queue \in Seq(Calls)
        /\ ran \o InHand \in Seq(Calls)
    <3>1. InHand \in Seq(Calls)
      BY DEF InHand, HandHolds
    <3> QED BY <3>1, ConcatProperties DEF TypeOK
  <2>2. InHand' = InHand
    BY DEF InHand
  <2>3. Append(accepted, c) = ran \o InHand \o Append(queue, c)
    <3>1. accepted = (ran \o InHand) \o queue
      BY DEF GracefulExit
    <3> DEFINE x == ran \o InHand
    <3>2. x \in Seq(Calls) /\ queue \in Seq(Calls)
      BY <2>1
    <3> HIDE DEF x, ThreadInv, Accept
    <3>3. c \in Calls
      OBVIOUS
    <3>4. Append(x \o queue, c) = x \o Append(queue, c)
      BY ONLY <3>2, <3>3
    <3> QED BY <3>1, <3>4 DEF x
  <2> QED BY <2>2, <2>3 DEF GracefulExit, Gone
<1> QED BY <1>1, <1>4, <1>5, <1>6 DEF HandHolds

(* The thread ends: what it had is dropped.                                *)
LEMMA GoAwayKeeps ==
    ASSUME ThreadInv, NEW how \in Gone, GoAway(how),
           how = "exited" => thread = "receiving" /\ queue = <<>>,
           UNCHANGED <<waiters, caller, answer, handles, accepted, ran>>
    PROVE  ThreadInv'
<1> USE DEF ThreadInv, GoAway, Gone
<1>1. TypeOK'
  BY CapacityPositive DEF TypeOK, Threads
<1>2. CallsAccounted' /\ WaitersWait'
  BY DEF CallsAccounted, WaitersWait
<1>3. HandHolds'
  BY NoCallIsNone DEF HandHolds
<1>4. GracefulExit'
  <2>1. ASSUME how = "exited" PROVE ran = accepted
    <3>1. accepted = ran \o <<>> \o <<>>
      BY <2>1 DEF GracefulExit, InHand
    <3> QED BY <3>1, ConcatEmptySeq DEF TypeOK
  <2> QED BY <2>1 DEF GracefulExit
<1> QED BY <1>1, <1>2, <1>3, <1>4

(* A call that leaves send() or its reply channel, with an answer or not.  *)
LEMMA LeavingKeeps ==
    ASSUME ThreadInv, NEW c \in Calls,
           NEW to \in {"returned", "abandoned"},
           caller' = [caller EXCEPT ![c] = to],
           NEW a \in Answers \union {"none"},
           answer' = [answer EXCEPT ![c] = a],
           waiters' \in Seq(Calls),
           \A i \in DOMAIN waiters' :
              waiters'[i] # c /\ \E j \in DOMAIN waiters : waiters'[i] = waiters[j],
           \A i, j \in DOMAIN waiters' : waiters'[i] = waiters'[j] => i = j,
           UNCHANGED <<thread, current, queue, reply, handles, accepted, ran>>
    PROVE  ThreadInv'
<1> USE DEF ThreadInv
<1>1. TypeOK'
  BY DEF TypeOK
<1>2. /\ caller'[c] = to /\ answer'[c] = a
      /\ \A d \in Calls \ {c} : caller'[d] = caller[d] /\ answer'[d] = answer[d]
  BY DEF TypeOK
<1>3. CallsAccounted'
  BY <1>2 DEF CallsAccounted
<1>4. WaitersWait'
  <2>1. \A j \in DOMAIN waiters : waiters[j] \in Calls
    BY DEF TypeOK
  <2> QED BY <2>1, <1>2 DEF WaitersWait
<1>5. HandHolds' /\ GracefulExit'
  BY DEF HandHolds, GracefulExit, InHand
<1> QED BY <1>1, <1>3, <1>4, <1>5

(* The thread takes the first item of the buffer.                          *)
LEMMA ReceiveKeeps ==
    ASSUME ThreadInv, Receive
    PROVE  ThreadInv'
<1> USE DEF ThreadInv, Receive, Taken
<1> DEFINE rest == RemoveAt(queue, 1)
<1>0. /\ queue[1] \in Calls /\ rest \in Seq(Calls)
      /\ Len(rest) = Len(queue) - 1 /\ queue = <<queue[1]>> \o rest
  BY FirstAndRest DEF TypeOK
<1>1. TypeOK'
  <2>1. Len(rest) <= Capacity
    BY <1>0, CapacityPositive DEF TypeOK
  <2> QED BY <1>0, <2>1 DEF TypeOK, Threads
<1>2. CallsAccounted' /\ WaitersWait'
  BY DEF CallsAccounted, WaitersWait
<1>3. HandHolds'
  BY <1>0 DEF HandHolds
<1>4. GracefulExit'
  <2>1. accepted = ran \o queue
    BY ConcatEmptySeq DEF GracefulExit, Gone, InHand, TypeOK
  <2>2. InHand' = <<queue[1]>> /\ queue' = rest
    BY DEF InHand
  <2>3. <<queue[1]>> \in Seq(Calls)
    BY <1>0
  <2>4. ran \o (<<queue[1]>> \o rest) = (ran \o <<queue[1]>>) \o rest
    <3>1. \A s, t, u \in Seq(Calls) : (s \o t) \o u = s \o (t \o u)
      BY ConcatAssociative
    <3>2. ran \in Seq(Calls)
      BY DEF TypeOK
    <3> QED BY <1>0, <2>3, <3>1, <3>2, Zenon
  <2> QED BY <1>0, <2>1, <2>2, <2>4 DEF GracefulExit, Gone
<1> QED BY <1>1, <1>2, <1>3, <1>4

(* The closure at hand runs.                                               *)
LEMMA WorkKeeps ==
    ASSUME ThreadInv, Work
    PROVE  ThreadInv'
<1> USE DEF ThreadInv, Work
<1>0. current \in Calls
  BY DEF HandHolds
<1>1. TypeOK'
  BY <1>0 DEF TypeOK, Threads
<1>2. ToSet(ran') = ToSet(ran) \union {current}
  BY <1>0, SetOfAppend DEF TypeOK
<1>3. CallsAccounted' /\ WaitersWait'
  BY <1>2 DEF CallsAccounted, WaitersWait
<1>4. HandHolds'
  BY <1>0, <1>2 DEF HandHolds
<1>5. GracefulExit'
  <2>1. accepted = (ran \o <<current>>) \o queue
    BY DEF GracefulExit, Gone, InHand
  <2>2. Append(ran, current) = ran \o <<current>>
    BY <1>0, AppendIsConcat DEF TypeOK
  <2>3. InHand' = <<>> /\ Append(ran, current) \o <<>> = Append(ran, current)
    BY <1>0, <1>1, ConcatEmptySeq DEF InHand, TypeOK
  <2> QED BY <2>1, <2>2, <2>3 DEF GracefulExit, Gone
<1> QED BY <1>1, <1>3, <1>4, <1>5

(* The caller is told.                                                     *)
LEMMA ReplyKeeps ==
    ASSUME ThreadInv, Reply
    PROVE  ThreadInv'
<1> USE DEF ThreadInv, Reply
<1>1. TypeOK'
  BY DEF TypeOK, Threads
<1>2. CallsAccounted' /\ WaitersWait'
  BY DEF CallsAccounted, WaitersWait, HandHolds, TypeOK
<1>3. HandHolds' /\ GracefulExit'
  BY NoCallIsNone DEF HandHolds, GracefulExit, InHand, Gone
<1> QED BY <1>1, <1>2, <1>3

(* Every step keeps the invariant.                                         *)
LEMMA ThreadStepKeeps ==
    ASSUME ThreadInv, [Next]_vars
    PROVE  ThreadInv'
<1>1. CASE StartContext
  <2>1. CASE GoAway("crashed")
    BY <1>1, <2>1, GoAwayKeeps DEF StartContext, Gone
  <2>2. CASE thread' = "receiving" /\ UNCHANGED <<current, queue, reply>>
    BY <1>1, <2>2, NoCallIsNone
    DEF StartContext, ThreadInv, TypeOK, Threads, CallsAccounted, WaitersWait,
        HandHolds, GracefulExit, InHand, Gone
  <2> QED BY <1>1, <2>1, <2>2 DEF StartContext
<1>2. CASE Receive
  BY <1>2, ReceiveKeeps
<1>3. CASE Exit
  BY <1>3, GoAwayKeeps DEF Exit, Disconnected, Gone
<1>4. CASE Work
  BY <1>4, WorkKeeps
<1>5. CASE WorkPanics
  BY <1>5, GoAwayKeeps DEF WorkPanics, Gone
<1>6. CASE Reply
  BY <1>6, ReplyKeeps
<1>7. CASE SendResumes
  <2> DEFINE c == Head(waiters)
  <2>1. /\ c \in Calls /\ c = waiters[1] /\ Tail(waiters) \in Seq(Calls)
        /\ \A i \in DOMAIN Tail(waiters) :
              /\ Tail(waiters)[i] = waiters[i + 1]
              /\ 1 \in DOMAIN waiters /\ i + 1 \in DOMAIN waiters /\ i + 1 # 1
        /\ \A i, j \in DOMAIN Tail(waiters) : i + 1 = j + 1 => i = j
    BY <1>7 DEF SendResumes, ThreadInv, TypeOK
  <2>2. caller[c] = "sending"
    BY <1>7, <2>1 DEF SendResumes, ThreadInv, TypeOK, WaitersWait
  <2> HIDE DEF c
  <2>3. \A i \in DOMAIN Tail(waiters) :
            Tail(waiters)[i] # c /\ caller[Tail(waiters)[i]] = "sending"
    BY <2>1 DEF ThreadInv, WaitersWait
  <2>4. \A i, j \in DOMAIN Tail(waiters) :
            Tail(waiters)[i] = Tail(waiters)[j] => i = j
    BY <2>1 DEF ThreadInv, WaitersWait
  <2> QED BY <1>7, <2>1, <2>2, <2>3, <2>4, AcceptKeeps DEF SendResumes, c
<1>8. CASE DropHandles
  BY <1>8 DEF DropHandles, ThreadInv, TypeOK, CallsAccounted, WaitersWait,
              HandHolds, GracefulExit, InHand, Gone
<1>9. ASSUME NEW c \in Calls, Send(c) PROVE ThreadInv'
  <2>1. waiters = <<>> /\ Len(queue) < Capacity /\ DOMAIN waiters = {}
    BY <1>9 DEF Send, Room
  <2> QED BY <1>9, <2>1, AcceptKeeps DEF Send, ThreadInv, TypeOK
<1>10. ASSUME NEW c \in Calls, SendWaits(c) PROVE ThreadInv'
  <2> USE <1>10 DEF SendWaits, ThreadInv
  <2>1. TypeOK'
    BY DEF TypeOK
  <2>2. CallsAccounted' /\ HandHolds' /\ GracefulExit'
    BY DEF TypeOK, CallsAccounted, HandHolds, GracefulExit, InHand
  <2>3. WaitersWait'
    <3>1. /\ DOMAIN waiters' = 1 .. Len(waiters) + 1
          /\ DOMAIN waiters = 1 .. Len(waiters) /\ Len(waiters) \in Nat
          /\ waiters'[Len(waiters) + 1] = c
          /\ \A i \in DOMAIN waiters : waiters'[i] = waiters[i] /\ waiters[i] \in Calls
      BY DEF TypeOK
    <3>2. /\ caller'[c] = "sending"
          /\ \A d \in Calls \ {c} : caller'[d] = caller[d]
      BY DEF TypeOK
    <3>3. \A i \in DOMAIN waiters : waiters[i] # c
      BY DEF WaitersWait
    <3>4. \A i \in DOMAIN waiters' : i \in DOMAIN waiters \/ i = Len(waiters) + 1
      BY <3>1
    <3> QED BY <3>1, <3>2, <3>3, <3>4 DEF WaitersWait
  <2> QED BY <2>1, <2>2, <2>3
<1>11. ASSUME NEW c \in Calls, SendFails(c) PROVE ThreadInv'
  <2>1. /\ RemoveFirst(waiters, c) \in Seq(Calls)
        /\ \A i \in DOMAIN RemoveFirst(waiters, c) :
              /\ RemoveFirst(waiters, c)[i] # c
              /\ \E j \in DOMAIN waiters : RemoveFirst(waiters, c)[i] = waiters[j]
        /\ \A i, j \in DOMAIN RemoveFirst(waiters, c) :
              RemoveFirst(waiters, c)[i] = RemoveFirst(waiters, c)[j] => i = j
    BY RemovedOnce DEF ThreadInv, TypeOK, WaitersWait
  <2>2. waiters' = RemoveFirst(waiters, c)
    BY <1>11 DEF SendFails
  <2> QED BY <1>11, <2>1, <2>2, LeavingKeeps DEF SendFails, Answered, Answers
<1>12. ASSUME NEW c \in Calls, ReplyArrives(c) PROVE ThreadInv'
  <2>1. waiters' = waiters /\ \A i \in DOMAIN waiters : waiters[i] # c
    BY <1>12 DEF ReplyArrives, ThreadInv, WaitersWait
  <2>2. /\ waiters' \in Seq(Calls)
        /\ \A i \in DOMAIN waiters' :
              waiters'[i] # c /\ \E j \in DOMAIN waiters : waiters'[i] = waiters[j]
        /\ \A i, j \in DOMAIN waiters' : waiters'[i] = waiters'[j] => i = j
    BY <2>1 DEF ThreadInv, TypeOK, WaitersWait
  <2>3. PICK a \in Answers : Answered(c, a)
    BY <1>12 DEF ReplyArrives, Answers
  <2>4. UNCHANGED <<thread, current, queue, reply, handles, accepted, ran>>
    BY <1>12 DEF ReplyArrives
  <2> QED BY <2>2, <2>3, <2>4, LeavingKeeps DEF Answered
<1>13. ASSUME NEW c \in Calls, Abandon(c) PROVE ThreadInv'
  <2>1. answer' = [answer EXCEPT ![c] = answer[c]]
        /\ answer[c] \in Answers \union {"none"}
    BY <1>13 DEF Abandon, ThreadInv, TypeOK
  <2>2. /\ RemoveFirst(waiters, c) \in Seq(Calls)
        /\ \A i \in DOMAIN RemoveFirst(waiters, c) :
              /\ RemoveFirst(waiters, c)[i] # c
              /\ \E j \in DOMAIN waiters : RemoveFirst(waiters, c)[i] = waiters[j]
        /\ \A i, j \in DOMAIN RemoveFirst(waiters, c) :
              RemoveFirst(waiters, c)[i] = RemoveFirst(waiters, c)[j] => i = j
    BY RemovedOnce DEF ThreadInv, TypeOK, WaitersWait
  <2>3. waiters' = RemoveFirst(waiters, c)
    BY <1>13 DEF Abandon, Withdraw
  <2>4. /\ caller' = [caller EXCEPT ![c] = "abandoned"]
        /\ "abandoned" \in {"returned", "abandoned"}
        /\ UNCHANGED <<thread, current, queue, reply, handles, accepted, ran>>
    BY <1>13 DEF Abandon
  <2> HIDE DEF ThreadInv
  <2> QED BY <2>1, <2>2, <2>3, <2>4, LeavingKeeps
<1>14. CASE UNCHANGED vars
  BY <1>14 DEF vars, ThreadInv, TypeOK, CallsAccounted, WaitersWait, HandHolds,
               GracefulExit, InHand
<1> QED
  BY <1>1, <1>2, <1>3, <1>4, <1>5, <1>6, <1>7, <1>8, <1>9, <1>10, <1>11, <1>12,
     <1>13, <1>14 DEF Next, ThreadStep, CallerStep

(* JscEngine: the thread, the channel and the calls are well typed.        *)
THEOREM ThreadTypes == Spec => []TypeOK
<1>1. Init => ThreadInv
  BY ThreadInit
<1>2. ThreadInv /\ [Next]_vars => ThreadInv'
  BY ThreadStepKeeps
<1>3. ThreadInv => TypeOK
  BY DEF ThreadInv
<1> QED BY <1>1, <1>2, <1>3, PTL DEF Spec, SafeSpec

(* The channel and the thread's loop: until the thread is gone, what was   *)
(* accepted is what ran, the item at hand and the buffer, in this order;   *)
(* a thread that exits has run all of it.                                  *)
THEOREM ExitIsGraceful == Spec => []GracefulExit
<1>1. Init => ThreadInv
  BY ThreadInit
<1>2. ThreadInv /\ [Next]_vars => ThreadInv'
  BY ThreadStepKeeps
<1>3. ThreadInv => GracefulExit
  BY DEF ThreadInv
<1> QED BY <1>1, <1>2, <1>3, PTL DEF Spec, SafeSpec

(* Only a call that is still in send() enters the channel.                 *)
LEMMA OnlySendersEnter ==
    ASSUME ThreadInv, [Next]_vars
    PROVE  \/ UNCHANGED accepted
           \/ \E d \in Calls : /\ caller[d] \in {"idle", "sending"}
                               /\ accepted' = Append(accepted, d)
<1>1. CASE SendResumes
  <2>1. Head(waiters) \in Calls /\ caller[Head(waiters)] = "sending"
    <3>1. 1 \in DOMAIN waiters /\ Head(waiters) = waiters[1] /\ waiters[1] \in Calls
      BY <1>1 DEF SendResumes, ThreadInv, TypeOK
    <3> QED BY <3>1 DEF ThreadInv, WaitersWait
  <2> QED BY <1>1, <2>1 DEF SendResumes, Accept
<1>2. ASSUME NEW c \in Calls, Send(c) PROVE caller[c] = "idle" /\ Accept(c)
  BY <1>2 DEF Send
<1>3. CASE UNCHANGED accepted
  BY <1>3
<1> QED
  BY <1>1, <1>2, <1>3
  DEF Next, ThreadStep, CallerStep, StartContext, Receive, Exit, Work, WorkPanics,
      Reply, DropHandles, SendWaits, SendFails, ReplyArrives, Abandon, Accept, vars

(* Sender::send: the closure of a caller that gave up while it waited for  *)
(* room never runs.                                                        *)
THEOREM WithdrawnStaysOut == Spec => WithdrawnNeverRuns
<1>1. Init => ThreadInv
  BY ThreadInit
<1>2. ThreadInv /\ [Next]_vars => ThreadInv'
  BY ThreadStepKeeps
<1>3. ASSUME ThreadInv, [Next]_vars
      PROVE  [\A c \in Calls :
                 caller[c] = "abandoned" /\ c \notin ToSet(accepted) =>
                     c \notin ToSet(accepted')]_vars
  <2> SUFFICES ASSUME NEW c \in Calls,
                      caller[c] = "abandoned", c \notin ToSet(accepted)
               PROVE  c \notin ToSet(accepted')
    OBVIOUS
  <2>1. CASE UNCHANGED accepted
    BY <2>1
  <2>2. ASSUME NEW d \in Calls, caller[d] \in {"idle", "sending"},
               accepted' = Append(accepted, d)
        PROVE  c \notin ToSet(accepted')
    <3>1. accepted \in Seq(Calls)
      BY <1>3 DEF ThreadInv, TypeOK
    <3>2. ToSet(Append(accepted, d)) = ToSet(accepted) \union {d}
      BY <2>2, <3>1, SetOfAppend
    <3>3. d # c
      BY <2>2
    <3> QED BY <2>2, <3>2, <3>3
  <2> QED BY <1>3, <2>1, <2>2, OnlySendersEnter
<1> QED BY <1>1, <1>2, <1>3, PTL DEF Spec, SafeSpec, WithdrawnNeverRuns

(* The service's view of a step: a call that enters the channel is         *)
(* accepted, a closure that returns is executed, a dispatch() that returns *)
(* is answered; nothing else is visible.                                   *)
LEMMA StepServes ==
    ASSUME ThreadInv, [Next]_vars
    PROVE  [Service!Next]_(Service!svcVars)
<1> USE DEF ThreadInv
<1>1. \A c, s : Service!OccursIn(c, s) <=> c \in ToSet(s)
  BY DEF Service!OccursIn, ToSet
<1>2. ASSUME NEW c \in Calls, caller[c] \in {"idle", "sending"}, Accept(c),
             UNCHANGED <<ran, answer>>
      PROVE  Service!Next
  <2>1. Service!Accept(c)
    BY <1>1, <1>2 DEF CallsAccounted, Accept, Service!Accept
  <2> QED BY <2>1 DEF Service!Next
<1>3. CASE Work
  <2>1. /\ thread = "working" /\ UNCHANGED <<accepted, answer>>
        /\ ran' = Append(ran, current) /\ current \in Calls
    BY <1>3 DEF Work, HandHolds
  <2>2. accepted = (ran \o <<current>>) \o queue
    BY <2>1 DEF GracefulExit, Gone, InHand
  <2>3. /\ ran \in Seq(Calls) /\ queue \in Seq(Calls)
    BY DEF TypeOK
  <2>4. Len(ran) < Len(accepted) /\ accepted[Len(ran) + 1] = current
    BY ONLY <2>1, <2>2, <2>3
  <2> QED BY <2>1, <2>4 DEF Service!Next, Service!Execute
<1>4. ASSUME NEW c \in Calls, SendFails(c) PROVE Service!Next
  <2>1. Service!Refuse(c)
    BY <1>1, <1>4 DEF SendFails, Answered, CallsAccounted, Service!Refuse
  <2> QED BY <2>1 DEF Service!Next
<1>5. ASSUME NEW c \in Calls, ReplyArrives(c) PROVE Service!Next
  <2>1. Service!Return(c) \/ Service!Lose(c)
    BY <1>1, <1>5 DEF ReplyArrives, Answered, CallsAccounted, Service!Return,
                      Service!Lose
  <2> QED BY <2>1 DEF Service!Next
<1>6. CASE SendResumes
  <2>1. 1 \in DOMAIN waiters /\ Head(waiters) = waiters[1] /\ waiters[1] \in Calls
    BY <1>6 DEF SendResumes, TypeOK
  <2>2. caller[Head(waiters)] = "sending"
    BY <2>1 DEF WaitersWait
  <2>3. Accept(Head(waiters)) /\ UNCHANGED <<ran, answer>>
    BY <1>6 DEF SendResumes
  <2> QED BY <1>2, <2>1, <2>2, <2>3
<1>7. ASSUME NEW c \in Calls, Send(c) PROVE Service!Next
  BY <1>2, <1>7 DEF Send
<1>8. CASE UNCHANGED <<accepted, ran, answer>>
  BY <1>8 DEF Service!svcVars
<1> QED
  BY <1>3, <1>4, <1>5, <1>6, <1>7, <1>8
  DEF Next, ThreadStep, CallerStep, StartContext, Receive, Exit, WorkPanics,
      Reply, DropHandles, SendWaits, Abandon, vars

(* JscEngine implements what JsService promises its callers: calls run one *)
(* at a time, once and in order; a result means that the call ran, a       *)
(* refusal that it never will.                                             *)
THEOREM EngineImplementsService == Spec => ImplementsService
<1>1. Init => ThreadInv /\ Service!Init
  BY ThreadInit DEF Init, Service!Init
<1>2. ThreadInv /\ [Next]_vars => ThreadInv'
  BY ThreadStepKeeps
<1>3. ThreadInv /\ [Next]_vars => [Service!Next]_(Service!svcVars)
  BY StepServes
<1> QED BY <1>1, <1>2, <1>3, PTL DEF Spec, SafeSpec, ImplementsService, Service!Spec

-----------------------------------------------------------------------------
(* JsPromiseFuture, for any number of resolvers and of tasks that come to  *)
(* own the future.  NoLostWakeup needs one fact more: the owner is a task, *)
(* which "no waker" is not.                                                *)

PromiseInv == owner \in Tasks /\ NoLostWakeup

(* A settle wakes the owner that waits; a pending poll leaves its waker.   *)
LEMMA StepWakes ==
  ASSUME PromiseInv, [PromiseNext]_promiseVars
  PROVE  PromiseInv'
  <1> USE NoneIsNone, OwnersPositive DEF PromiseInv, Tasks
  <1>1. ASSUME NEW r \in Resolvers, Settle(r)
        PROVE  PromiseInv'
    <2>1. owner' = owner /\ output' = output
      BY <1>1 DEF Settle
    <2>2. ASSUME output = None
          PROVE  owner \in scheduled'
      <3>1. scheduled' = scheduled \union Woken
        BY <1>1 DEF Settle
      <3>2. CASE owner \notin scheduled
        <4>1. waker = owner
          BY <2>2, <3>2 DEF NoLostWakeup
        <4> QED BY <3>1, <4>1 DEF Woken
      <3> QED BY <3>1, <3>2
    <2> QED BY <2>1, <2>2 DEF NoLostWakeup
  <1>2. ASSUME NEW t \in Tasks, Poll(t)
        PROVE  PromiseInv'
    <2>1. t = owner /\ owner' = owner
      BY <1>2 DEF Poll
    <2>2. CASE result # None
      <3>1. output' # None
        BY <1>2, <2>2 DEF Poll
      <3> QED BY <2>1, <3>1 DEF NoLostWakeup
    <2>3. CASE result = None
      <3>1. waker' = owner /\ result' = None
        BY <1>2, <2>1, <2>3 DEF Poll, Registered
      <3> QED BY <2>1, <3>1 DEF NoLostWakeup
    <2> QED BY <2>2, <2>3
  <1>3. ASSUME NEW t \in Tasks, PollElsewhere(t)
        PROVE  PromiseInv'
    BY <1>3 DEF PollElsewhere, NoLostWakeup
  <1>4. ASSUME NEW t \in Tasks, WakeSpuriously(t)
        PROVE  PromiseInv'
    BY <1>4 DEF WakeSpuriously, NoLostWakeup
  <1>5. CASE Move
    <2>1. owner' \in Tasks /\ owner' \in scheduled'
      BY <1>5 DEF Move
    <2> QED BY <2>1 DEF NoLostWakeup
  <1>6. CASE UNCHANGED promiseVars
    BY <1>6 DEF promiseVars, NoLostWakeup
  <1> QED BY <1>1, <1>2, <1>3, <1>4, <1>5, <1>6 DEF PromiseNext

(* JsPromiseFuture::poll and settle: an owner that waits without being     *)
(* scheduled has its own waker stored, and nothing is ready for it.        *)
THEOREM WakeupsReachTheOwner == PromiseSpec => []NoLostWakeup
  <1>1. PromiseInit => PromiseInv
    BY OwnersPositive DEF PromiseInit, PromiseInv, NoLostWakeup, Tasks
  <1>2. PromiseInv /\ [PromiseNext]_promiseVars => PromiseInv'
    BY StepWakes
  <1>3. PromiseInv => NoLostWakeup
    BY DEF PromiseInv
  <1> QED BY <1>1, <1>2, <1>3, PTL DEF PromiseSpec

-----------------------------------------------------------------------------
(* The values of a JscContext, for every set of boxes and every bound on   *)
(* clones.  HandlesOwnBoxes with the types is inductive: that a box nobody *)
(* used, was copied from or has been freed has no clone of a handle is its *)
(* "if" half.                                                              *)

ValuesInv == ValuesTypeOK /\ HandlesOwnBoxes

(* No box is in use and no handle exists when a context is made.           *)
LEMMA InitOwns == ValuesInit => ValuesInv
  <1> SUFFICES ASSUME ValuesInit
               PROVE  ValuesInv
    OBVIOUS
  <1>1. /\ context = "alive" /\ natives = FALSE /\ passed = {}
        /\ box = [b \in Boxes |-> "unused"]
        /\ clones = [b \in Boxes |-> 0]
    BY DEF ValuesInit
  <1>2. ValuesTypeOK
    BY <1>1 DEF ValuesTypeOK
  <1>3. HandlesOwnBoxes
    <2>1. "unused" \notin Handled
      BY DEF Handled
    <2>2. \A b \in Boxes : box[b] = "unused"
      BY <1>1
    <2>3. \A b \in Boxes : clones[b] = 0
      BY <1>1
    <2>4. ~ (0 > 0)
      OBVIOUS
    <2>5. \A b \in Boxes : ~ (clones[b] > 0)
      BY <2>3, <2>4, Zenon
    <2> QED BY <2>1, <2>2, <2>5 DEF HandlesOwnBoxes
  <1> QED BY <1>2, <1>3 DEF ValuesInv

(* A value that is wrapped gets a handle exactly if it stays in its box.   *)
LEMMA WrapOwns ==
  ASSUME ValuesInv, NEW b \in Boxes, NEW kind \in Kinds, Wrap(b, kind)
  PROVE  /\ box' \in [Boxes -> Kinds \union {"function", "unused", "freed"}]
         /\ clones' \in [Boxes -> Nat]
         /\ HandlesOwnBoxes'
  <1> USE DEF ValuesInv, ValuesTypeOK, HandlesOwnBoxes, Handled, Kinds
  <1>1. box[b] = "unused" /\ box' = [box EXCEPT ![b] = kind]
    BY DEF Wrap, MakeBuaValue, Unused
  <1>2. clones[b] = 0
    BY <1>1
  <1>3. CASE kind = "opaque"
    <2>1. clones' = [clones EXCEPT ![b] = 1]
      BY <1>3 DEF Wrap, Handle
    <2> QED BY <1>1, <1>3, <2>1
  <1>4. CASE kind # "opaque"
    <2>1. clones' = clones
      BY <1>4 DEF Wrap, Handle
    <2> QED BY <1>1, <1>2, <1>4, <2>1
  <1> QED BY <1>3, <1>4

(* Every step leaves each handle with its box and each kept box with its   *)
(* handle.                                                                 *)
LEMMA StepOwns == ValuesInv /\ [ValuesNext]_valueVars => ValuesInv'
  <1> SUFFICES ASSUME ValuesInv, [ValuesNext]_valueVars
               PROVE  ValuesInv'
    OBVIOUS
  <1> USE DEF ValuesInv
  <1>1. ASSUME NEW ptrs \in SUBSET (Boxes \union Nulls), Call(ptrs)
        PROVE  /\ context' \in {"alive", "poisoned", "destroyed", "crashed"}
               /\ natives' \in BOOLEAN
               /\ passed' \subseteq Boxes \union Nulls
    BY <1>1 DEF Call, ValuesTypeOK
  <1>2. ASSUME UNCHANGED <<box, clones>>
        PROVE  /\ box' \in [Boxes -> Kinds \union {"function", "unused", "freed"}]
               /\ clones' \in [Boxes -> Nat]
               /\ HandlesOwnBoxes'
    BY <1>2 DEF ValuesTypeOK, HandlesOwnBoxes
  <1>3. CASE EvalModule
    <2>1. Call({})
      BY <1>3 DEF EvalModule, Eval
    <2>2. \/ UNCHANGED <<box, clones>>
          \/ \E b \in Boxes, kind \in Kinds : Wrap(b, kind)
      BY <1>3 DEF EvalModule, Eval, MakeException
    <2> QED BY <2>1, <2>2, <1>1, <1>2, WrapOwns DEF ValuesTypeOK
  <1>4. CASE JsonToValue
    <2>1. Call({})
      BY <1>4 DEF JsonToValue
    <2>2. \/ UNCHANGED <<box, clones>>
          \/ \E b \in Boxes, kind \in Kinds : Wrap(b, kind)
      BY <1>4 DEF JsonToValue, MakeException, Kinds
    <2> QED BY <2>1, <2>2, <1>1, <1>2, WrapOwns DEF ValuesTypeOK
  <1>5. CASE ValueToJson
    <2>1. PICK p \in Passable : Call({p})
      BY <1>5 DEF ValueToJson
    <2>2. UNCHANGED <<box, clones>>
      BY <1>5 DEF ValueToJson
    <2>3. {p} \in SUBSET (Boxes \union Nulls)
      BY DEF Passable, Held, Nulls
    <2> QED BY <2>1, <2>2, <2>3, <1>1, <1>2 DEF ValuesTypeOK
  <1>6. CASE CreatePromise
    <2>1. Call({})
      BY <1>6 DEF CreatePromise
    <2>2. CASE UNCHANGED <<box, clones>>
      BY <2>1, <2>2, <1>1, <1>2 DEF ValuesTypeOK
    <2>3. CASE ~ UNCHANGED <<box, clones>>
      <3>1. PICK resolve \in Boxes, reject \in Boxes, promise \in Boxes :
              /\ BuaMakePromise(resolve, reject, promise)
              /\ clones' = [clones EXCEPT ![resolve] = 1, ![reject] = 1,
                                          ![promise] = 2]
        BY <1>6, <2>3 DEF CreatePromise, MakeException
      <3>2. /\ resolve # reject /\ resolve # promise /\ reject # promise
            /\ box' = [box EXCEPT ![resolve] = "function",
                                  ![reject] = "function",
                                  ![promise] = "opaque"]
        BY <3>1 DEF BuaMakePromise
      <3>3. /\ box' \in [Boxes -> Kinds \union {"function", "unused", "freed"}]
            /\ clones' \in [Boxes -> Nat]
        BY <3>1, <3>2 DEF ValuesTypeOK, Kinds
      <3>4. HandlesOwnBoxes'
        BY <3>1, <3>2 DEF ValuesTypeOK, HandlesOwnBoxes, Handled
      <3> QED BY <2>1, <3>3, <3>4, <1>1 DEF ValuesTypeOK
    <2> QED BY <2>2, <2>3
  <1>7. CASE CallWithPrimitive
    <2>1. PICK func \in Functions, arg \in Unused :
            /\ Call({func, arg})
            /\ \/ box' = [box EXCEPT ![arg] = "primitive"] /\ UNCHANGED clones
               \/ \E b \in Unused \ {arg}, kind \in Kinds :
                    /\ box' = [box EXCEPT ![arg] = "primitive", ![b] = kind]
                    /\ Handle(b, kind)
      BY <1>7 DEF CallWithPrimitive
    <2>2. func \in Boxes /\ arg \in Boxes /\ box[arg] = "unused" /\ clones[arg] = 0
      BY DEF Functions, Held, Unused, ValuesTypeOK, HandlesOwnBoxes, Handled
    <2>3. {func, arg} \in SUBSET (Boxes \union Nulls)
      BY <2>2
    <2>4. CASE box' = [box EXCEPT ![arg] = "primitive"] /\ UNCHANGED clones
      <3>1. /\ box' \in [Boxes -> Kinds \union {"function", "unused", "freed"}]
            /\ clones' \in [Boxes -> Nat]
            /\ HandlesOwnBoxes'
        BY <2>2, <2>4 DEF ValuesTypeOK, HandlesOwnBoxes, Handled, Kinds
      <3> QED BY <2>1, <2>3, <3>1, <1>1 DEF ValuesTypeOK
    <2>5. CASE \E b \in Unused \ {arg}, kind \in Kinds :
                 /\ box' = [box EXCEPT ![arg] = "primitive", ![b] = kind]
                 /\ Handle(b, kind)
      <3>1. PICK b \in Unused \ {arg}, kind \in Kinds :
                 /\ box' = [box EXCEPT ![arg] = "primitive", ![b] = kind]
                 /\ Handle(b, kind)
        BY <2>5
      <3>2. b \in Boxes /\ b # arg /\ box[b] = "unused" /\ clones[b] = 0
        BY DEF Unused, ValuesTypeOK, HandlesOwnBoxes, Handled
      <3>3. /\ box' \in [Boxes -> Kinds \union {"function", "unused", "freed"}]
            /\ clones' \in [Boxes -> Nat]
        BY <3>1, <3>2, <2>2 DEF Handle, ValuesTypeOK, Kinds
      <3>4. ASSUME kind = "opaque"
            PROVE  HandlesOwnBoxes'
        <4>1. clones' = [clones EXCEPT ![b] = 1]
          BY <3>1, <3>4 DEF Handle
        <4>2. box'[arg] = "primitive" /\ box'[b] = "opaque"
          BY <3>1, <3>2, <3>4, <2>2 DEF ValuesTypeOK
        <4>3. \A c \in Boxes \ {arg, b} : box'[c] = box[c]
          BY <3>1 DEF ValuesTypeOK
        <4> QED BY <4>1, <4>2, <4>3, <3>2, <2>2
                DEF ValuesTypeOK, HandlesOwnBoxes, Handled
      <3>5. ASSUME kind # "opaque"
            PROVE  HandlesOwnBoxes'
        <4>1. clones' = clones
          BY <3>1, <3>5 DEF Handle
        <4>2. box'[arg] = "primitive" /\ box'[b] \in {"primitive", "plain"}
          BY <3>1, <3>2, <3>5, <2>2 DEF ValuesTypeOK, Kinds
        <4>3. \A c \in Boxes \ {arg, b} : box'[c] = box[c]
          BY <3>1 DEF ValuesTypeOK
        <4> QED BY <4>1, <4>2, <4>3, <3>2, <2>2
                DEF ValuesTypeOK, HandlesOwnBoxes, Handled
      <3>6. HandlesOwnBoxes'
        BY <3>4, <3>5
      <3> QED BY <2>1, <2>3, <3>3, <3>6, <1>1 DEF ValuesTypeOK
    <2> QED BY <2>1, <2>4, <2>5
  <1>8. CASE CallWithHandle
    <2>1. PICK func \in Functions, arg \in Passable :
            /\ Call({func, arg})
            /\ \/ MakeException
               \/ \E b \in Boxes, kind \in Kinds : Wrap(b, kind)
      BY <1>8 DEF CallWithHandle
    <2>2. {func, arg} \in SUBSET (Boxes \union Nulls)
      BY DEF Functions, Passable, Held, Nulls
    <2>3. \/ UNCHANGED <<box, clones>>
          \/ \E b \in Boxes, kind \in Kinds : Wrap(b, kind)
      BY <2>1 DEF MakeException
    <2> QED BY <2>1, <2>2, <2>3, <1>1, <1>2, WrapOwns DEF ValuesTypeOK
  <1>9. CASE RegisterNative
    BY <1>9, <1>2 DEF RegisterNative, ValuesTypeOK
  <1>10. CASE CallNative
    <2>1. Call({NullContext}) /\ UNCHANGED <<box, clones>>
      BY <1>10 DEF CallNative, CallbackContext
    <2>2. {NullContext} \in SUBSET (Boxes \union Nulls)
      BY DEF Nulls
    <2> QED BY <2>1, <2>2, <1>1, <1>2 DEF ValuesTypeOK
  <1>11. CASE Poison
    BY <1>11, <1>2 DEF Poison, ValuesTypeOK
  <1>12. CASE Destroy
    BY <1>12, <1>2 DEF Destroy, ValuesTypeOK
  <1>13. ASSUME NEW b \in Boxes, Clone(b)
         PROVE  ValuesInv'
    BY <1>13 DEF Clone, ValuesTypeOK, HandlesOwnBoxes
  <1>14. ASSUME NEW b \in Boxes, Drop(b)
         PROVE  ValuesInv'
    <2>1. clones[b] > 0 /\ clones' = [clones EXCEPT ![b] = @ - 1]
      BY <1>14 DEF Drop
    <2>2. CASE clones[b] = 1
      <3>1. box' = [box EXCEPT ![b] = "freed"] /\ passed' = {b}
        BY <1>14, <2>2 DEF Drop, LastClone, BuaValueFree
      <3>2. UNCHANGED <<context, natives>>
        BY <1>14 DEF Drop
      <3> QED BY <2>1, <2>2, <3>1, <3>2 DEF ValuesTypeOK, HandlesOwnBoxes, Handled
    <2>3. CASE clones[b] # 1
      <3>1. UNCHANGED <<context, natives, box>> /\ passed' = {}
        BY <1>14, <2>3 DEF Drop, LastClone
      <3> QED BY <2>1, <2>3, <3>1 DEF ValuesTypeOK, HandlesOwnBoxes
    <2> QED BY <2>2, <2>3
  <1>15. CASE UNCHANGED valueVars
    BY <1>15, <1>2 DEF valueVars, ValuesTypeOK
  <1> QED
    BY <1>3, <1>4, <1>5, <1>6, <1>7, <1>8, <1>9, <1>10, <1>11, <1>12, <1>13,
       <1>14, <1>15 DEF ValuesNext, CallFunction

(* The context, its boxes and the handles are well typed.                  *)
THEOREM BoxTypes == ValuesSpec => []ValuesTypeOK
  <1>1. ValuesInit => ValuesInv
    BY InitOwns
  <1>2. ValuesInv /\ [ValuesNext]_valueVars => ValuesInv'
    BY StepOwns
  <1>3. ValuesInv => ValuesTypeOK
    BY DEF ValuesInv
  <1> QED BY <1>1, <1>2, <1>3, PTL DEF ValuesSpec

(* HandleInner::drop frees a box exactly when its last handle goes: no     *)
(* handle outlives its box and no value is kept that Rust has dropped.     *)
THEOREM HandlesOwnTheirBoxes == ValuesSpec => []HandlesOwnBoxes
  <1>1. ValuesInit => ValuesInv
    BY InitOwns
  <1>2. ValuesInv /\ [ValuesNext]_valueVars => ValuesInv'
    BY StepOwns
  <1>3. ValuesInv => HandlesOwnBoxes
    BY DEF ValuesInv
  <1> QED BY <1>1, <1>2, <1>3, PTL DEF ValuesSpec

=============================================================================
