----------------------------- MODULE Modules_proofs -----------------------------
(***************************************************************************)
(* What is proved of the modules a program imports and of what they find:  *)
(* for ModuleLoader, any number of calls, threads and edits; for           *)
(* ModuleGraph, any modules and any imports; for ModuleResolver, any list  *)
(* of extensions and index files and any directory; for Globals, words of  *)
(* any width, any scale and any step.                                      *)
(***************************************************************************)
EXTENDS ModuleLoader, ModuleResolver, Globals, ModuleGraph, SequenceFacts,
        WellFoundedInduction, TLAPS

-----------------------------------------------------------------------------
(* ModuleLoader: a load that is in progress has seen the version on disk,  *)
(* and makes its entry of a version it saw.  The entry is either marked as *)
(* changed or has the time of its version; so a hit on it compares the     *)
(* time of a version the load saw with that of the version it returns.     *)
(* Only because the shard is held is the entry still there when they are   *)
(* compared.                                                               *)

(* An entry is of a version that was written, and has its time unless the  *)
(* file had changed between the two reads.                                 *)
Genuine(entry) ==
    /\ entry.version \in Versions
    /\ entry.changed \/ entry.mtime = mtimes[entry.version]

Active == {"checking", "reading", "stating", "inserting"}

(* What a call has seen and holds, wherever it is.                         *)
LoadInv(l) ==
    /\ load[l].seen \subseteq Versions
    /\ At(l, Active) /\ file # 0 => file \in load[l].seen
    /\ At(l, {"checking"}) => cache # NoEntry
    /\ At(l, {"stating", "inserting"}) => load[l].entry.version \in load[l].seen
    /\ At(l, {"inserting"}) => Genuine(load[l].entry)
    /\ At(l, {"done"}) =>
          /\ load[l].entry.version \in Versions
          /\ \/ load[l].entry.version \in load[l].seen
             \/ load[l].entry.changed
             \/ WentBack(l)

LoaderInv ==
    /\ TypeOK
    /\ cache # NoEntry => Genuine(cache)
    /\ \A l \in Loads : LoadInv(l)

(* No call has begun, and what is cached is what is on disk.               *)
LEMMA InitGenuine == Init => LoaderInv
  <1> SUFFICES ASSUME Init
               PROVE  LoaderInv
    OBVIOUS
  <1> USE DEF Init
  <1>1. mtimes \in Seq(Times) /\ file \in Versions
    <2>1. mtimes \in [1 .. 1 -> Times]
      <3>1. 1 .. 1 = {1}
        OBVIOUS
      <3> QED BY <3>1
    <2>2. mtimes \in Seq(Times)
      BY <2>1, SeqDef
    <2> QED BY <2>2 DEF Versions
  <1>2. NoEntry \in Entries
    BY MaxTimeIsTime DEF NoEntry, Entries, Times
  <1>5. cache # NoEntry => cache \in Entries /\ Genuine(cache)
    <2>1. 1 \in Versions /\ mtimes[1] \in Times
      BY DEF Versions
    <2>2. CASE cache = [version |-> 1, mtime |-> mtimes[1], changed |-> FALSE]
      <3>1. cache.version = 1 /\ cache.mtime = mtimes[1]
        BY <2>2
      <3>2. cache \in Entries
        BY <2>1, <2>2 DEF Entries
      <3> QED BY <2>1, <3>1, <3>2 DEF Genuine
    <2> QED BY <2>2
  <1>3. TypeOK
    BY <1>1, <1>2, <1>5 DEF TypeOK, LoadStates
  <1>4. ASSUME NEW l \in Loads
        PROVE  LoadInv(l)
    BY DEF LoadInv, At, Active
  <1> QED BY <1>3, <1>4, <1>5 DEF LoaderInv

(* A call that a step leaves alone, and that has the entry it checks, is   *)
(* as before.                                                              *)
LEMMA UntouchedLoad ==
  ASSUME NEW l \in Loads, LoadInv(l), load'[l] = load[l],
         UNCHANGED <<mtimes, file>>,
         cache' = cache \/ ~At(l, {"checking"})
  PROVE  LoadInv(l)'
  BY DEF LoadInv, At, Active, Genuine, WentBack, Versions

(* The versions that a write leaves alone keep their times.                *)
LEMMA WriteKeepsTimes ==
  ASSUME TypeOK, NEW t \in Times, Write(t)
  PROVE  /\ mtimes' \in Seq(Times)
         /\ Versions' = Versions \union {Len(mtimes) + 1}
         /\ file' = Len(mtimes) + 1
         /\ \A v \in Versions : mtimes'[v] = mtimes[v]
         /\ Len(mtimes) + 1 \in Nat \ {0}
  BY DEF TypeOK, Write, Versions

(* Each step of a call.                                                    *)
LEMMA BeginGenuine ==
  ASSUME LoaderInv, NEW l \in Loads, Begin(l)
  PROVE  LoaderInv'
  <1>1. /\ load' = [load EXCEPT ![l].seen = {file} \ {0},
                                ![l].pc = IF file = 0 THEN "failed"
                                          ELSE IF cache = NoEntry THEN "reading"
                                          ELSE "checking"]
        /\ mtimes' = mtimes /\ file' = file /\ cache' = cache
    BY DEF Begin
  <1>2. load \in [Loads -> LoadStates] /\ file \in {0} \union Versions
    BY DEF LoaderInv, TypeOK
  <1>3. /\ load'[l].seen = {file} \ {0}
        /\ load'[l].pc = IF file = 0 THEN "failed"
                         ELSE IF cache = NoEntry THEN "reading" ELSE "checking"
        /\ load'[l].entry = load[l].entry
        /\ \A m \in Loads \ {l} : load'[m] = load[m]
    BY <1>1, <1>2 DEF LoadStates
  <1>4. TypeOK'
    <2>1. {file} \ {0} \in SUBSET Nat
      BY <1>2 DEF Versions, LoaderInv, TypeOK
    <2>2. load' \in [Loads -> LoadStates]
      BY ZenonT(40), <1>1, <1>2, <2>1 DEF LoadStates
    <2> QED BY <1>1, <2>2 DEF LoaderInv, TypeOK, Versions
  <1>5. LoadInv(l)'
    BY <1>1, <1>2, <1>3 DEF LoadInv, At, Active, Versions
  <1>6. ASSUME NEW m \in Loads \ {l}
        PROVE  LoadInv(m)'
    BY <1>1, <1>3, UntouchedLoad DEF LoaderInv
  <1>7. (cache # NoEntry => Genuine(cache))'
    BY <1>1 DEF LoaderInv, Genuine, Versions
  <1> QED BY <1>4, <1>5, <1>6, <1>7 DEF LoaderInv

LEMMA CheckGenuine ==
  ASSUME LoaderInv, NEW l \in Loads, Check(l)
  PROVE  LoaderInv'
  <1>1. /\ At(l, {"checking"})
        /\ mtimes' = mtimes /\ file' = file /\ cache' = cache
    BY DEF Check
  <1>2. /\ load \in [Loads -> LoadStates] /\ cache \in Entries
        /\ LoadInv(l) /\ cache # NoEntry /\ Genuine(cache)
    BY <1>1 DEF LoaderInv, TypeOK, LoadInv
  <1>3. (cache # NoEntry => Genuine(cache))'
    BY <1>1, <1>2 DEF Genuine, Versions
  <1>4. CASE Fresh
    <2>1. load' = [load EXCEPT ![l].pc = "done", ![l].entry = cache]
      BY <1>4 DEF Check
    <2>2. /\ load'[l].pc = "done" /\ load'[l].entry = cache
          /\ load'[l].seen = load[l].seen
          /\ \A m \in Loads \ {l} : load'[m] = load[m]
      BY <1>2, <2>1 DEF LoadStates
    <2>3. TypeOK'
      <3>1. load' \in [Loads -> LoadStates]
        BY <1>2, <2>1 DEF LoadStates
      <3> QED BY <1>1, <3>1 DEF LoaderInv, TypeOK, Versions
    <2>4. file \in load[l].seen /\ mtimes[file] <= cache.mtime
      BY <1>1, <1>2, <1>4 DEF LoadInv, Fresh, At, Active
    <2>5. cache.changed \/ \E v \in load[l].seen :
                               mtimes[v] <= mtimes[cache.version]
      BY <1>2, <2>4 DEF Genuine
    <2>6. LoadInv(l)'
      BY <1>1, <1>2, <2>2, <2>5
      DEF LoadInv, At, Active, Genuine, Versions, WentBack
    <2>7. ASSUME NEW m \in Loads \ {l}
          PROVE  LoadInv(m)'
      BY <1>1, <2>2, UntouchedLoad DEF LoaderInv
    <2> QED BY <1>3, <2>3, <2>6, <2>7 DEF LoaderInv
  <1>5. CASE ~Fresh
    <2>1. load' = [load EXCEPT ![l].pc = "reading"]
      BY <1>5 DEF Check, Goto
    <2>2. /\ load'[l].pc = "reading" /\ load'[l].seen = load[l].seen
          /\ \A m \in Loads \ {l} : load'[m] = load[m]
      BY <1>2, <2>1 DEF LoadStates
    <2>3. TypeOK'
      <3>1. load' \in [Loads -> LoadStates]
        BY <1>2, <2>1 DEF LoadStates
      <3> QED BY <1>1, <3>1 DEF LoaderInv, TypeOK, Versions
    <2>4. LoadInv(l)'
      BY <1>1, <1>2, <2>2 DEF LoadInv, At, Active, Versions
    <2>5. ASSUME NEW m \in Loads \ {l}
          PROVE  LoadInv(m)'
      BY <1>1, <2>2, UntouchedLoad DEF LoaderInv
    <2> QED BY <1>3, <2>3, <2>4, <2>5 DEF LoaderInv
  <1> QED BY <1>4, <1>5

LEMMA ReadGenuine ==
  ASSUME LoaderInv, NEW l \in Loads, Read(l)
  PROVE  LoaderInv'
  <1>1. /\ At(l, {"reading"})
        /\ mtimes' = mtimes /\ file' = file /\ cache' = cache
    BY DEF Read
  <1>2. /\ load \in [Loads -> LoadStates] /\ LoadInv(l)
        /\ file \in Nat
    BY DEF LoaderInv, TypeOK, Versions
  <1>3. (cache # NoEntry => Genuine(cache))'
    BY <1>1 DEF LoaderInv, Genuine, Versions
  <1>4. CASE file = 0
    <2>1. load' = [load EXCEPT ![l].pc = "failed"]
      BY <1>4 DEF Read, Goto
    <2>2. /\ load'[l].pc = "failed" /\ load'[l].seen = load[l].seen
          /\ \A m \in Loads \ {l} : load'[m] = load[m]
      BY <1>2, <2>1 DEF LoadStates
    <2>3. TypeOK'
      <3>1. load' \in [Loads -> LoadStates]
        BY <1>2, <2>1 DEF LoadStates
      <3> QED BY <1>1, <3>1 DEF LoaderInv, TypeOK, Versions
    <2>4. LoadInv(l)'
      BY <1>1, <1>2, <2>2 DEF LoadInv, At, Active, Versions
    <2>5. ASSUME NEW m \in Loads \ {l}
          PROVE  LoadInv(m)'
      BY <1>1, <2>2, UntouchedLoad DEF LoaderInv
    <2> QED BY <1>3, <2>3, <2>4, <2>5 DEF LoaderInv
  <1>5. CASE file # 0
    <2>1. load' = [load EXCEPT ![l].pc = "stating", ![l].entry.version = file]
      BY <1>5 DEF Read
    <2>2. /\ load'[l].pc = "stating" /\ load'[l].seen = load[l].seen
          /\ load'[l].entry.version = file
          /\ \A m \in Loads \ {l} : load'[m] = load[m]
      BY <1>2, <2>1 DEF LoadStates, Entries
    <2>3. TypeOK'
      <3>1. [load[l].entry EXCEPT !.version = file] \in Entries
        BY <1>2 DEF LoadStates, Entries
      <3>2. load' = [load EXCEPT ![l] = [load[l] EXCEPT !.pc = "stating",
              !.entry = [load[l].entry EXCEPT !.version = file]]]
        BY <2>1
      <3>3. load' \in [Loads -> LoadStates]
        BY <1>2, <3>1, <3>2 DEF LoadStates
      <3> QED BY <1>1, <3>3 DEF LoaderInv, TypeOK, Versions
    <2>4. file \in load[l].seen
      BY <1>1, <1>2, <1>5 DEF LoadInv, At, Active
    <2>5. LoadInv(l)'
      BY <1>1, <1>2, <2>2, <2>4 DEF LoadInv, At, Active, Versions
    <2>6. ASSUME NEW m \in Loads \ {l}
          PROVE  LoadInv(m)'
      BY <1>1, <2>2, UntouchedLoad DEF LoaderInv
    <2> QED BY <1>3, <2>3, <2>5, <2>6 DEF LoaderInv
  <1> QED BY <1>4, <1>5

LEMMA StatGenuine ==
  ASSUME LoaderInv, NEW l \in Loads, Stat(l)
  PROVE  LoaderInv'
  <1>1. /\ At(l, {"stating"})
        /\ mtimes' = mtimes /\ file' = file /\ cache' = cache
    BY DEF Stat
  <1>2. /\ load \in [Loads -> LoadStates] /\ LoadInv(l)
        /\ mtimes \in Seq(Times) /\ file \in {0} \union Versions
    BY DEF LoaderInv, TypeOK
  <1>3. PICK t \in EntryTimes :
          load' = [load EXCEPT
            ![l].pc = "inserting", ![l].entry.mtime = t,
            ![l].entry.changed = (file # load[l].entry.version)]
    BY DEF Stat
  <1>4. t \in Times /\ (file # 0 => t = mtimes[file])
    BY <1>2 DEF EntryTimes, Versions
  <1>5. /\ load'[l].pc = "inserting" /\ load'[l].seen = load[l].seen
        /\ load'[l].entry.version = load[l].entry.version
        /\ load'[l].entry.mtime = t
        /\ load'[l].entry.changed = (file # load[l].entry.version)
        /\ \A m \in Loads \ {l} : load'[m] = load[m]
    BY <1>2, <1>3 DEF LoadStates, Entries
  <1>6. TypeOK'
    <2> DEFINE entry == [load[l].entry EXCEPT !.mtime = t,
                           !.changed = (file # load[l].entry.version)]
    <2>1. entry \in Entries
      BY <1>2, <1>4 DEF LoadStates, Entries
    <2>2. load' = [load EXCEPT ![l] = [load[l] EXCEPT !.pc = "inserting",
                                                      !.entry = entry]]
      BY <1>3
    <2> HIDE DEF entry
    <2>3. load' \in [Loads -> LoadStates]
      BY <1>2, <2>1, <2>2 DEF LoadStates
    <2> QED BY <1>1, <2>3 DEF LoaderInv, TypeOK, Versions
  <1>7. /\ load[l].entry.version \in load[l].seen
        /\ load[l].entry.version \in Versions
        /\ load[l].entry.version # 0
    BY <1>1, <1>2 DEF LoadInv, At, Versions
  <1>8. \/ file # load[l].entry.version
        \/ t = mtimes[load[l].entry.version]
    BY <1>4, <1>7
  <1>9. LoadInv(l)'
    BY <1>1, <1>2, <1>5, <1>7, <1>8
    DEF LoadInv, At, Active, Genuine, Versions
  <1>10. ASSUME NEW m \in Loads \ {l}
         PROVE  LoadInv(m)'
    BY <1>1, <1>5, UntouchedLoad DEF LoaderInv
  <1>11. (cache # NoEntry => Genuine(cache))'
    BY <1>1 DEF LoaderInv, Genuine, Versions
  <1> QED BY <1>6, <1>9, <1>10, <1>11 DEF LoaderInv

LEMMA InsertGenuine ==
  ASSUME LoaderInv, NEW l \in Loads, Insert(l)
  PROVE  LoaderInv'
  <1>1. /\ At(l, {"inserting"}) /\ ShardFree
        /\ cache' = load[l].entry
        /\ load' = [load EXCEPT ![l].pc = "done"]
        /\ mtimes' = mtimes /\ file' = file
    BY DEF Insert, Goto
  <1>2. load \in [Loads -> LoadStates] /\ LoadInv(l)
    BY DEF LoaderInv, TypeOK
  <1>3. /\ load'[l].pc = "done" /\ load'[l].seen = load[l].seen
        /\ load'[l].entry = load[l].entry
        /\ \A m \in Loads \ {l} : load'[m] = load[m]
    BY <1>1, <1>2 DEF LoadStates
  <1>4. TypeOK'
    <2>1. load' \in [Loads -> LoadStates] /\ cache' \in Entries
      BY <1>1, <1>2 DEF LoadStates
    <2> QED BY <1>1, <2>1 DEF LoaderInv, TypeOK, Versions
  <1>5. Genuine(load[l].entry) /\ load[l].entry.version \in load[l].seen
    BY <1>1, <1>2 DEF LoadInv, At
  <1>6. (cache # NoEntry => Genuine(cache))'
    BY <1>1, <1>5 DEF Genuine, Versions
  <1>7. LoadInv(l)'
    BY <1>1, <1>2, <1>3, <1>5 DEF LoadInv, At, Active, Genuine, Versions
  <1>8. ASSUME NEW m \in Loads \ {l}
        PROVE  LoadInv(m)'
    <2>1. ~At(m, {"checking"})
      BY <1>1 DEF ShardFree, HoldsShard
    <2> QED BY <1>1, <1>3, <2>1, UntouchedLoad DEF LoaderInv
  <1> QED BY <1>4, <1>6, <1>7, <1>8 DEF LoaderInv

(* invalidate_all() waits for the shard, so that no call checks an entry   *)
(* that is gone.                                                           *)
LEMMA InvalidateGenuine ==
  ASSUME LoaderInv, InvalidateAll
  PROVE  LoaderInv'
  <1>1. /\ ShardFree /\ cache' = NoEntry
        /\ mtimes' = mtimes /\ file' = file /\ load' = load
    BY DEF InvalidateAll
  <1>2. TypeOK'
    BY <1>1, MaxTimeIsTime
    DEF LoaderInv, TypeOK, Versions, NoEntry, Entries, Times
  <1>3. ASSUME NEW m \in Loads
        PROVE  LoadInv(m)'
    <2>1. ~At(m, {"checking"})
      BY <1>1 DEF ShardFree, HoldsShard
    <2> QED BY <1>1, <2>1, UntouchedLoad DEF LoaderInv
  <1> QED BY <1>1, <1>2, <1>3 DEF LoaderInv

(* The file is written, and those that are in progress see it.             *)
LEMMA WriteGenuine ==
  ASSUME LoaderInv, NEW t \in Times, Write(t)
  PROVE  LoaderInv'
  <1> DEFINE new == Len(mtimes) + 1
  <1>1. /\ mtimes' \in Seq(Times) /\ Versions' = Versions \union {new}
        /\ file' = new /\ new \in Nat \ {0}
        /\ \A v \in Versions : mtimes'[v] = mtimes[v]
    BY WriteKeepsTimes DEF LoaderInv
  <1>2. /\ load' = [l \in Loads |->
                     IF At(l, {"new", "done", "failed"}) THEN load[l]
                     ELSE [load[l] EXCEPT !.seen = @ \union {new}]]
        /\ cache' = cache
    BY DEF Write
  <1>3. load \in [Loads -> LoadStates]
    BY DEF LoaderInv, TypeOK
  <1> HIDE DEF new
  <1>4. TypeOK'
    <2>1. load' \in [Loads -> LoadStates]
      BY <1>1, <1>2, <1>3 DEF LoadStates
    <2> QED BY <1>1, <1>2, <2>1 DEF LoaderInv, TypeOK
  <1>5. (cache # NoEntry => Genuine(cache))'
    BY <1>1, <1>2 DEF LoaderInv, Genuine
  <1>6. ASSUME NEW l \in Loads
        PROVE  LoadInv(l)'
    <2>1. LoadInv(l)
      BY DEF LoaderInv
    <2>2. CASE At(l, {"new", "done", "failed"})
      <3>1. load'[l] = load[l] /\ ~At(l, Active)
        BY <1>2, <2>2 DEF At, Active
      <3>2. WentBack(l) /\ load[l].entry.version \in Versions => WentBack(l)'
        BY <1>1, <2>1, <3>1 DEF WentBack, LoadInv
      <3> QED BY <1>1, <2>1, <3>1, <3>2 DEF LoadInv, At, Active
    <2>3. CASE ~At(l, {"new", "done", "failed"})
      <3>1. /\ load'[l].pc = load[l].pc /\ load'[l].entry = load[l].entry
            /\ load'[l].seen = load[l].seen \union {new}
        BY <1>2, <1>3, <2>3 DEF LoadStates
      <3>2. load[l].pc # "done"
        BY <2>3 DEF At
      <3>3. Genuine(load[l].entry) => Genuine(load[l].entry)'
        BY <1>1, <3>1 DEF Genuine
      <3> QED BY <1>1, <1>2, <2>1, <3>1, <3>2, <3>3
              DEF LoadInv, At, Active, Genuine
    <2> QED BY <2>2, <2>3
  <1> QED BY <1>4, <1>5, <1>6 DEF LoaderInv

LEMMA RemoveGenuine ==
  ASSUME LoaderInv, RemoveFile
  PROVE  LoaderInv'
  <1>1. /\ file' = 0 /\ mtimes' = mtimes /\ cache' = cache /\ load' = load
    BY DEF RemoveFile
  <1>2. TypeOK'
    BY <1>1 DEF LoaderInv, TypeOK, Versions
  <1>3. ASSUME NEW m \in Loads
        PROVE  LoadInv(m)'
    BY <1>1 DEF LoaderInv, LoadInv, At, Active, Genuine, WentBack, Versions
  <1>4. (cache # NoEntry => Genuine(cache))'
    BY <1>1 DEF LoaderInv, Genuine, Versions
  <1> QED BY <1>2, <1>3, <1>4 DEF LoaderInv

(* Every step of the loads and of those who edit the file.                 *)
LEMMA StepGenuine == LoaderInv /\ [Next]_vars => LoaderInv'
  <1> SUFFICES ASSUME LoaderInv, [Next]_vars
               PROVE  LoaderInv'
    OBVIOUS
  <1>1. CASE UNCHANGED vars
    <2>1. mtimes' = mtimes /\ file' = file /\ cache' = cache /\ load' = load
      BY <1>1 DEF vars
    <2>2. ASSUME NEW m \in Loads
          PROVE  LoadInv(m)'
      BY <2>1, UntouchedLoad DEF LoaderInv
    <2> QED BY <2>1, <2>2 DEF LoaderInv, TypeOK, Genuine, Versions
  <1> QED
    BY <1>1, BeginGenuine, CheckGenuine, ReadGenuine, StatGenuine,
       InsertGenuine, InvalidateGenuine, WriteGenuine, RemoveGenuine
    DEF Next, LoadStep

(* The file, the cache entry and the calls are well typed.                 *)
THEOREM LoaderTypes == Spec => []TypeOK
  <1>1. LoaderInv => TypeOK
    BY DEF LoaderInv
  <1> QED BY <1>1, InitGenuine, StepGenuine, PTL DEF Spec

(* ModuleLoader::load(): what it returns was on disk during the call, with *)
(* the two exceptions that the modification times make.                    *)
THEOREM LoadsReturnWhatIsThere == Spec => []LoadsWhatIsThere
  <1>1. LoaderInv => LoadsWhatIsThere
    BY DEF LoaderInv, LoadsWhatIsThere, LoadInv
  <1> QED BY <1>1, InitGenuine, StepGenuine, PTL DEF Spec

-----------------------------------------------------------------------------
(* ModuleResolver: both functions take the first of the candidates they    *)
(* accept.  What the loader accepts beyond the other are directories; so   *)
(* if the first it accepts is a file, that is the first for both.          *)

LEMMA PlacesAreOrdered ==
    ASSUME NEW p \in Places, NEW q \in Places
    PROVE  /\ p = q \/ Precedes(p, q) \/ Precedes(q, p)
           /\ Precedes(p, q) => p # q /\ ~ Precedes(q, p)
<1>1. /\ Len(Extensions) \in Nat /\ DOMAIN Extensions = 1 .. Len(Extensions)
      /\ Len(Indexes) \in Nat
  BY ExactPathFirst, IndexesAreListed
<1>2. /\ p = <<p[1], p[2]>> /\ q = <<q[1], q[2]>>
      /\ p[1] \in Nat /\ p[2] \in Nat /\ q[1] \in Nat /\ q[2] \in Nat
  BY <1>1 DEF Places
<1> QED BY <1>2 DEF Precedes

(* Some candidate is the first, as no descent in the order is endless.     *)
LEMMA SomeIsFirst ==
    ASSUME NEW good \in SUBSET Places, good # {}
    PROVE  \E p \in good : \A q \in good \ {p} : Precedes(p, q)
<1> DEFINE Less == OpToRel(<, Nat)
           Order == LexPairOrdering(Less, Less, Nat, Nat)
<1>1. IsWellFoundedOn(Order, Nat \X Nat)
  BY NatLessThanWellFounded, WFLexPairOrdering
<1>2. Places \subseteq Nat \X Nat
  <2>1. /\ Len(Extensions) \in Nat /\ DOMAIN Extensions = 1 .. Len(Extensions)
        /\ Len(Indexes) \in Nat
    BY ExactPathFirst, IndexesAreListed
  <2> QED BY <2>1 DEF Places
<1>3. PICK p \in good : \A q \in good : <<q, p>> \notin Order
  <2> HIDE DEF Order
  <2> QED BY <1>1, <1>2, WFMin
<1>4. ASSUME NEW q \in good \ {p} PROVE Precedes(p, q)
  <2>1. p \in Nat \X Nat /\ q \in Nat \X Nat
    BY <1>2
  <2>2. Precedes(q, p) => <<q, p>> \in Order
    BY <2>1 DEF Precedes, LexPairOrdering, OpToRel
  <2>3. ~ Precedes(q, p)
    BY <1>3, <2>2
  <2> QED BY <2>3, PlacesAreOrdered
<1> QED BY <1>4

(* FirstOf returns the candidate at the first place that is accepted.      *)
LEMMA FirstIsFirst ==
    ASSUME NEW accepted, NEW p \in Places, Candidate(p) \in accepted,
           \A q \in Places \ {p} : Candidate(q) \in accepted => Precedes(p, q)
    PROVE  FirstOf(accepted) = Candidate(p)
<1> DEFINE good == {q \in Places : Candidate(q) \in accepted}
           best == CHOOSE q \in good : \A r \in good \ {q} : Precedes(q, r)
<1>1. p \in good /\ \A r \in good \ {p} : Precedes(p, r)
  OBVIOUS
<1>2. best \in good /\ \A r \in good \ {best} : Precedes(best, r)
  BY <1>1
<1>3. best \in Places
  BY <1>2
<1> HIDE DEF best
<1>4. best = p
  BY <1>1, <1>2, <1>3, PlacesAreOrdered
<1>5. FirstOf(accepted) = Candidate(best)
  BY <1>1 DEF FirstOf, best
<1> QED BY <1>4, <1>5

LEMMA FirstIsAccepted ==
    ASSUME NEW accepted, NEW q \in Places, Candidate(q) \in accepted
    PROVE  \E p \in Places :
              /\ Candidate(p) \in accepted /\ FirstOf(accepted) = Candidate(p)
              /\ \A r \in Places \ {p} : Candidate(r) \in accepted => Precedes(p, r)
<1> DEFINE good == {p \in Places : Candidate(p) \in accepted}
<1>1. PICK p \in good : \A r \in good \ {p} : Precedes(p, r)
  BY SomeIsFirst
<1>2. FirstOf(accepted) = Candidate(p)
  BY <1>1, FirstIsFirst
<1> QED BY <1>1, <1>2

(* A candidate is a path and no error; a built-in's path is no candidate.  *)
LEMMA PathsAreNotEmpty == \A p \in Paths : p # NotFound
BY DEF Paths, NotFound

LEMMA BuiltinsAreNotFiles ==
    ASSUME NEW name
    PROVE  <<BuiltinDir, name>> \notin Paths
<1>1. ASSUME NEW p \in Paths PROVE p[1] # BuiltinDir
  <2>1. p[1] \in Names
    BY DEF Paths
  <2> QED BY <2>1, NoSuchCandidate DEF Names
<1> QED BY <1>1

(* On every directory, whatever lies under the candidates and wherever     *)
(* links lead, the exported resolver has the canonical path of the file    *)
(* that the loader finds, the built-in whose path the loader makes up, or  *)
(* an error like the loader's, for every kind of specifier, unless the     *)
(* loader settles for a directory named like an index file.                *)
THEOREM ResolversFindTheSame == ResolversAgree
<1>1. /\ ProbeAccepts \subseteq LoaderAccepts /\ LoaderAccepts \subseteq Paths
      /\ \A c \in LoaderAccepts : c \in ProbeAccepts \/ layout[c] = "directory"
  BY DEF ProbeAccepts, LoaderAccepts, IsFile
<1>2. ASSUME NEW p \in Places, Candidate(p) \in LoaderAccepts,
             \A q \in Places \ {p} :
                 Candidate(q) \in LoaderAccepts => Precedes(p, q),
             ProbeExtensions = Candidate(p)
      PROVE  \/ Probe = AsResolved(ProbeExtensions)
             \/ ProbeExtensions \in Paths /\ layout[ProbeExtensions] = "directory"
  <2>1. CASE Candidate(p) \in ProbeAccepts
    <3>1. FirstOf(ProbeAccepts) = Candidate(p)
      BY <1>1, <1>2, <2>1, FirstIsFirst
    <3>2. Candidate(p) \in Paths /\ Candidate(p) # NotFound
      BY <1>1, <1>2, PathsAreNotEmpty
    <3> QED BY <1>2, <3>1, <3>2 DEF Probe, AsResolved
  <2>2. CASE Candidate(p) \notin ProbeAccepts
    BY <1>1, <1>2, <2>2
  <2> QED BY <2>1, <2>2
<1>3. \/ Probe = AsResolved(ProbeExtensions)
      \/ ProbeExtensions \in Paths /\ layout[ProbeExtensions] = "directory"
  <2>1. CASE <<Extensions[1]>> \in LoaderAccepts
    <3> DEFINE p == <<1, 0>>
    <3>1. /\ 1 \in DOMAIN Extensions /\ 0 \in 0 .. Len(Indexes)
          /\ DOMAIN Extensions = 1 .. Len(Extensions)
          /\ Len(Extensions) \in Nat /\ Len(Indexes) \in Nat
      BY ExactPathFirst, IndexesAreListed
    <3>2. p \in Places /\ Candidate(p) = <<Extensions[1]>>
      BY <3>1 DEF Places, Candidate
    <3>3. \A q \in Places \ {p} : Precedes(p, q)
      <4> SUFFICES ASSUME NEW q \in Places, q # p PROVE Precedes(p, q)
        OBVIOUS
      <4>1. /\ q = <<q[1], q[2]>> /\ q[1] \in Nat /\ q[1] >= 1
            /\ q[2] \in Nat
        BY <3>1 DEF Places
      <4>2. p[1] = 1 /\ p[2] = 0
        OBVIOUS
      <4>3. q[1] # 1 \/ q[2] # 0
        BY <4>1
      <4> HIDE DEF p
      <4> QED BY <4>1, <4>2, <4>3 DEF Precedes
    <3>4. ProbeExtensions = Candidate(p)
      BY <2>1, <3>2 DEF ProbeExtensions
    <3> QED BY <1>2, <2>1, <3>2, <3>3, <3>4
  <2>2. CASE <<Extensions[1]>> \notin LoaderAccepts
    <3>1. ProbeExtensions = FirstOf(LoaderAccepts)
      BY <2>2 DEF ProbeExtensions
    <3>2. CASE \E q \in Places : Candidate(q) \in LoaderAccepts
      <4>1. PICK p \in Places :
              /\ Candidate(p) \in LoaderAccepts
              /\ FirstOf(LoaderAccepts) = Candidate(p)
              /\ \A r \in Places \ {p} :
                    Candidate(r) \in LoaderAccepts => Precedes(p, r)
        BY <3>2, FirstIsAccepted
      <4> QED BY <1>2, <3>1, <4>1
    <3>3. CASE ~ \E q \in Places : Candidate(q) \in LoaderAccepts
      <4>1. {q \in Places : Candidate(q) \in LoaderAccepts} = {}
        BY <3>3
      <4>2. {q \in Places : Candidate(q) \in ProbeAccepts} = {}
        BY <1>1, <3>3
      <4>3. FirstOf(LoaderAccepts) = NotFound /\ FirstOf(ProbeAccepts) = NotFound
        BY <4>1, <4>2 DEF FirstOf
      <4> QED BY <3>1, <4>3, PathsAreNotEmpty DEF Probe, AsResolved
    <3> QED BY <3>2, <3>3
  <2> QED BY <2>1, <2>2
<1>4. CASE specifier.kind \in {"absolute", "relative"}
  <2>1. Resolve = Probe /\ LoaderResolve = ProbeExtensions
    BY <1>4 DEF Resolve, LoaderResolve
  <2> QED BY <1>3, <2>1 DEF ResolversAgree, TakesDirectory
<1>5. CASE specifier.kind = "builtin"
  <2>1. /\ Resolve = Builtin(specifier.name)
        /\ LoaderResolve = <<BuiltinDir, specifier.name>>
    BY <1>5 DEF Resolve, LoaderResolve
  <2>2. LoaderResolve # NotFound /\ LoaderResolve \notin Paths
    BY <2>1, BuiltinsAreNotFiles DEF NotFound
  <2> QED BY <2>1, <2>2 DEF ResolversAgree, AsResolved
<1>6. CASE specifier.kind \notin {"absolute", "relative", "builtin"}
  <2>1. Resolve = Error /\ LoaderResolve = NotFound
    BY <1>6 DEF Resolve, LoaderResolve
  <2> QED BY <2>1, PathsAreNotEmpty DEF ResolversAgree, AsResolved
<1> QED BY <1>4, <1>5, <1>6

-----------------------------------------------------------------------------
(* Globals, the clock: the invariant is inductive with types alone.        *)
(* Whatever has been read is at most what the clock shows, and only a set  *)
(* time or an overflow, which "disturbed" remembers, takes it back.        *)

USE WordPositive, ClockParameters


ClockInv ==
    /\ mode \in {"live", "frozen", "stepping"}
    /\ virtual \in Nat /\ wall \in Nat /\ last \in Nat
    /\ disturbed \in BOOLEAN
    /\ TimeNeverGoesBack

(* A sum that fits into a word is not cut.                                 *)
LEMMA FitsIsKept ==
  ASSUME NEW n \in Nat
  PROVE  n % Word \in Nat /\ (n < Word => n % Word = n)
  <1>1. n % Word \in Nat
    OBVIOUS
  <1>2. n < Word => n % Word = n
    OBVIOUS
  <1> QED BY <1>1, <1>2

(* Add: the stepping clock's step, and the advance after its conversion.   *)
LEMMA AddGoesForward ==
  ASSUME NEW delta \in Nat, virtual \in Nat,
         disturbed \in BOOLEAN, Add(delta)
  PROVE  /\ virtual' \in Nat /\ disturbed' \in BOOLEAN
         /\ ~disturbed' => ~disturbed /\ virtual <= virtual'
  <1>1. virtual' = (virtual + delta) % Word
    BY DEF Add
  <1>2. disturbed' = (disturbed \/ virtual + delta >= Word)
    BY DEF Add
  <1>3. virtual + delta \in Nat
    OBVIOUS
  <1>4. virtual' \in Nat /\ (virtual + delta < Word => virtual' = virtual + delta)
    BY <1>1, <1>3, FitsIsKept
  <1>5. ~disturbed' => ~disturbed /\ ~(virtual + delta >= Word)
    BY <1>2, Zenon
  <1>6. ~(virtual + delta >= Word) => virtual + delta < Word
    BY <1>3
  <1>7. virtual <= virtual + delta
    OBVIOUS
  <1>8. disturbed' \in BOOLEAN
    BY <1>2, Zenon
  <1> QED BY <1>4, <1>5, <1>6, <1>7, <1>8

LEMMA AdvanceGoesForward ==
  ASSUME NEW ms \in Nat, ClockInv, Advance(ms)
  PROVE  ClockInv'
  <1> DEFINE delta == ms * Scale
  <1>1. delta \in Nat
    OBVIOUS
  <1>2. mode' = mode /\ wall' = wall /\ last' = last
    BY DEF Advance
  <1>3. CASE mode = "live"
    <2>1. virtual' = virtual /\ disturbed' = disturbed
      BY <1>3 DEF Advance
    <2> QED BY <1>2, <2>1 DEF ClockInv, TimeNeverGoesBack, Current
  <1>4. CASE mode # "live"
    <2>1. /\ virtual' = (virtual + (delta % Word)) % Word
          /\ disturbed' = (disturbed \/ virtual + delta >= Word)
      BY <1>4 DEF Advance
    <2> HIDE DEF delta
    <2>2. virtual \in Nat /\ disturbed \in BOOLEAN
      BY DEF ClockInv
    <2>3. delta % Word \in Nat /\ (delta < Word => delta % Word = delta)
      BY <1>1, FitsIsKept
    <2>4. virtual + (delta % Word) \in Nat
      BY <2>2, <2>3
    <2>5. virtual' \in Nat
      BY <2>1, <2>4, FitsIsKept
    <2>6. ASSUME ~disturbed'
          PROVE  ~disturbed /\ virtual <= virtual'
      <3>1. ~disturbed /\ virtual + delta < Word
        <4>1. ~disturbed /\ ~(virtual + delta >= Word)
          BY <2>1, <2>6, Zenon
        <4>2. ~(virtual + delta >= Word) => virtual + delta < Word
          BY <1>1, <2>2
        <4> QED BY <4>1, <4>2
      <3>2. delta % Word = delta
        BY <1>1, <2>2, <2>3, <3>1
      <3>3. virtual + delta \in Nat
        BY <1>1, <2>2
      <3>4. virtual' = virtual + delta
        BY <2>1, <3>1, <3>2, <3>3, FitsIsKept
      <3> QED BY <1>1, <2>2, <3>1, <3>4
    <2>7. disturbed' \in BOOLEAN
      BY <2>1
    <2>8. TimeNeverGoesBack'
      BY <1>2, <1>4, <2>5, <2>6 DEF ClockInv, TimeNeverGoesBack, Current
    <2> QED BY <1>2, <2>5, <2>7, <2>8 DEF ClockInv
  <1> QED BY <1>3, <1>4

LEMMA NowGoesForward ==
  ASSUME ClockInv, Now
  PROVE  ClockInv'
  <1>1. last' = Current /\ mode' = mode /\ wall' = wall
    BY DEF Now
  <1>2. CASE mode = "stepping"
    <2>1. Add(Step)
      BY <1>2 DEF Now
    <2>2. /\ virtual' \in Nat /\ disturbed' \in BOOLEAN
          /\ ~disturbed' => virtual <= virtual'
      BY <2>1, AddGoesForward DEF ClockInv
    <2>3. last' = virtual
      BY <1>1, <1>2 DEF Current
    <2> QED BY <1>1, <1>2, <2>2, <2>3 DEF ClockInv, TimeNeverGoesBack, Current
  <1>3. CASE mode # "stepping"
    <2>1. virtual' = virtual /\ disturbed' = disturbed
      BY <1>3 DEF Now
    <2>2. last' \in Nat /\ last' <= Current /\ Current' = Current
      BY <1>1, <2>1 DEF ClockInv, Current
    <2> QED BY <1>1, <2>1, <2>2 DEF ClockInv, TimeNeverGoesBack
  <1> QED BY <1>2, <1>3

(* Freezing keeps the time that is shown, whatever the mode was.           *)
LEMMA FreezeKeepsTime ==
  ASSUME ClockInv, Freeze
  PROVE  ClockInv'
  <1>1. /\ mode' = "frozen" /\ virtual' = Current
        /\ wall' = wall /\ last' = last /\ disturbed' = disturbed
    BY DEF Freeze, TimeNow
  <1>2. Current \in Nat
    BY DEF ClockInv, Current
  <1>3. Current' = Current
    BY <1>1 DEF Current
  <1> QED BY <1>1, <1>2, <1>3 DEF ClockInv, TimeNeverGoesBack

(* Every step of the clock and of the programs that read it.               *)
LEMMA StepGoesForward ==
  ASSUME ClockInv, [GlobalsNext]_globalsVars
  PROVE  ClockInv'
  <1>1. ASSUME UNCHANGED clockVars
        PROVE  ClockInv'
    BY <1>1 DEF clockVars, ClockInv, TimeNeverGoesBack, Current
  <1>2. \A ms \in Instants : Advance(ms) => ClockInv'
    BY AdvanceGoesForward DEF Instants
  <1>3. ASSUME NEW done \in 0 .. Len(Groups), NEW script \in BOOLEAN,
               Inject(done, script)
        PROVE  ClockInv'
    BY <1>3, <1>1 DEF Inject
  <1>4. ASSUME NEW n, Native(n)
        PROVE  ClockInv'
    <2>1. CASE n = "trace_log"
      BY <1>1, <1>4, <2>1 DEF Native, Record
    <2>2. CASE n = "env_get"
      BY <1>1, <1>4, <2>2 DEF Native, Record
    <2>3. CASE n = "time_now"
      BY <1>4, <2>3, NowGoesForward DEF Native
    <2>4. CASE n = "time_freeze"
      BY <1>4, <2>4, FreezeKeepsTime DEF Native
    <2>5. CASE n = "time_advance"
      BY <1>2, <1>4, <2>5 DEF Native
    <2>6. CASE n \notin {"trace_log", "env_get", "time_now", "time_freeze",
                         "time_advance"}
      BY <1>1, <1>4, <2>6 DEF Native
    <2> QED BY <2>1, <2>2, <2>3, <2>4, <2>5, <2>6
  <1>5. ASSUME NEW m \in DOMAIN BuiltinRegistry,
               NEW f \in DOMAIN BuiltinRegistry[m], CallBuiltin(m, f)
        PROVE  ClockInv'
    BY <1>5, <1>4 DEF CallBuiltin
  <1>6. CASE Tick
    BY <1>6 DEF Tick, ClockInv, TimeNeverGoesBack, Current
  <1>7. ASSUME NEW t \in Instants, SetTime(t)
        PROVE  ClockInv'
    BY <1>7 DEF SetTime, ClockInv, TimeNeverGoesBack, Instants
  <1>8. CASE ClockStep
    BY <1>2, <1>6, <1>7, <1>8, NowGoesForward, FreezeKeepsTime DEF ClockStep
  <1>9. CASE UNCHANGED globalsVars
    BY <1>1, <1>9 DEF globalsVars
  <1> QED BY <1>3, <1>5, <1>8, <1>9 DEF GlobalsNext

(* DeterministicClock: the time a program reads never goes back, unless    *)
(* it was set or went beyond a word.                                       *)
THEOREM TimeGoesForward == GlobalsSpec => []TimeNeverGoesBack
  <1>1. GlobalsInit => ClockInv
    <2> SUFFICES ASSUME GlobalsInit
                 PROVE  ClockInv
      OBVIOUS
    <2>1. /\ mode \in {"live", "frozen", "stepping"}
          /\ wall = 0 /\ last = 0 /\ disturbed = FALSE
      BY DEF GlobalsInit
    <2>2. virtual \in Nat
      BY DEF GlobalsInit, Instants
    <2>3. Current \in Nat
      BY <2>1, <2>2 DEF Current
    <2>4. last <= Current
      BY <2>1, <2>3
    <2>5. disturbed \in BOOLEAN
      BY <2>1
    <2> QED BY <2>1, <2>2, <2>4, <2>5 DEF ClockInv, TimeNeverGoesBack
  <1>2. ClockInv /\ [GlobalsNext]_globalsVars => ClockInv'
    BY StepGoesForward
  <1>3. ClockInv => TimeNeverGoesBack
    BY DEF ClockInv
  <1> QED BY <1>1, <1>2, <1>3, PTL DEF GlobalsSpec

-----------------------------------------------------------------------------
(* Globals, the natives: a Bua object is made after all of them.           *)
AllNatives == UNION {Groups[i] : i \in 1 .. Len(Groups)}

NativesInv == natives \subseteq AllNatives /\ (bua => natives = AllNatives)

LEMMA NativesNamed ==
    AllNatives = {"tools_call", "tools_list", "trace_log", "time_now",
                  "time_freeze", "time_advance", "env_get", "memory_put",
                  "memory_get", "memory_del", "memory_list", "random_seed",
                  "random_next"}
<1>1. Len(Groups) = 6 /\ 1 .. 6 = {1, 2, 3, 4, 5, 6}
  BY DEF Groups
<1>2. {Groups[i] : i \in {1, 2, 3, 4, 5, 6}} =
          {ToolNatives, TraceNatives, TimeNatives, EnvNatives, MemoryNatives,
           RandomNatives}
  BY DEF Groups
<1>3. AllNatives = UNION {ToolNatives, TraceNatives, TimeNatives, EnvNatives,
                          MemoryNatives, RandomNatives}
  BY <1>1, <1>2 DEF AllNatives
<1> QED BY <1>3 DEF ToolNatives, TraceNatives, TimeNatives, EnvNatives,
                    MemoryNatives, RandomNatives

LEMMA NativesKeep ==
    ASSUME NativesInv, [GlobalsNext]_globalsVars
    PROVE  NativesInv'
<1>1. CASE UNCHANGED <<natives, bua>>
  BY <1>1 DEF NativesInv
<1>2. ASSUME NEW done \in 0 .. Len(Groups), NEW script \in BOOLEAN,
             Inject(done, script)
      PROVE  NativesInv'
  <2>0. Len(Groups) \in Nat
    BY DEF Groups
  <2> DEFINE some == UNION {Groups[i] : i \in 1 .. done}
  <2>1. some \subseteq AllNatives /\ (done = Len(Groups) => some = AllNatives)
    BY <2>0 DEF AllNatives
  <2>2. natives' = natives \union some
        /\ bua' = (bua \/ (done = Len(Groups) /\ script))
    BY <1>2 DEF Inject, ScriptLast
  <2> HIDE DEF some
  <2> QED BY <2>1, <2>2 DEF NativesInv
<1>3. CASE \E m \in DOMAIN BuiltinRegistry :
             \E f \in DOMAIN BuiltinRegistry[m] : CallBuiltin(m, f)
  BY <1>1, <1>3 DEF CallBuiltin
<1>4. CASE ClockStep
  BY <1>1, <1>4 DEF ClockStep, apiVars
<1>5. CASE UNCHANGED globalsVars
  BY <1>1, <1>5 DEF globalsVars, apiVars
<1> QED BY <1>2, <1>3, <1>4, <1>5 DEF GlobalsNext

(* What a function of the Bua object runs when there is one.               *)
LEMMA BuaRuns ==
    ASSUME bua, natives = AllNatives
    PROVE  \A m \in DOMAIN BuiltinRegistry :
             \A f \in DOMAIN BuiltinRegistry[m] :
               LET at == BuiltinRegistry[m][f]
               IN  /\ Runs(at) = "throw" <=> at \in Throwing
                   /\ Runs(at) = "nothing" <=> at \in Silent
<1>n. natives = {"tools_call", "tools_list", "trace_log", "time_now",
                  "time_freeze", "time_advance", "env_get", "memory_put",
                  "memory_get", "memory_del", "memory_list", "random_seed",
                  "random_next"}
  BY NativesNamed
<1> DEFINE Finds(at) == /\ Runs(at) = "throw" <=> at \in Throwing
                        /\ Runs(at) = "nothing" <=> at \in Silent
<1> USE <1>n DEF Runs, Bua, Throwing, Silent
<1>1. Finds(<<"tools", "call">>) /\ Finds(<<"tools", "list">>)
  OBVIOUS
<1>2. Finds(<<"env", "get">>) /\ Finds(<<"env", "all">>)
  OBVIOUS
<1>3. Finds(<<"trace", "log">>) /\ Finds(<<"trace", "exportNdjson">>)
      /\ Finds(<<"trace", "checkpoint">>)
  OBVIOUS
<1>4. Finds(<<"agent", "spawn">>) /\ Finds(<<"agent", "id">>)
      /\ Finds(<<"agent", "parentId">>)
  OBVIOUS
<1>5. Finds(<<"time", "now">>) /\ Finds(<<"time", "freeze">>)
      /\ Finds(<<"time", "advance">>) /\ Finds(<<"time", "set">>)
  OBVIOUS
<1>6. Finds(<<"memory", "put">>) /\ Finds(<<"memory", "get">>)
      /\ Finds(<<"memory", "del">>) /\ Finds(<<"memory", "list">>)
  OBVIOUS
<1>7. Finds(<<"random", "seed">>) /\ Finds(<<"random", "random">>)
      /\ Finds(<<"random", "uuid">>)
  OBVIOUS
<1> HIDE DEF Runs, Bua, Throwing, Silent, Finds
<1>8. \A m \in DOMAIN BuiltinRegistry :
          \A f \in DOMAIN BuiltinRegistry[m] : Finds(BuiltinRegistry[m][f])
  <2>1. \A f \in DOMAIN FsModule : Finds(FsModule[f])
    BY <1>1 DEF FsModule
  <2>2. \A f \in DOMAIN EnvModule : Finds(EnvModule[f])
    BY <1>2 DEF EnvModule
  <2>3. \A f \in DOMAIN TraceModule : Finds(TraceModule[f])
    BY <1>3 DEF TraceModule
  <2>4. \A f \in DOMAIN AgentModule : Finds(AgentModule[f])
    BY <1>4 DEF AgentModule
  <2>5. \A f \in DOMAIN ToolsModule : Finds(ToolsModule[f])
    BY <1>1 DEF ToolsModule
  <2>6. \A f \in DOMAIN TimeModule : Finds(TimeModule[f])
    BY <1>5 DEF TimeModule
  <2>7. \A f \in DOMAIN MemoryModule : Finds(MemoryModule[f])
    BY <1>6 DEF MemoryModule
  <2>8. \A f \in DOMAIN RandomModule : Finds(RandomModule[f])
    BY <1>7 DEF RandomModule
  <2> QED BY <2>1, <2>2, <2>3, <2>4, <2>5, <2>6, <2>7, <2>8 DEF BuiltinRegistry
<1> QED BY <1>8 DEF Finds

(* As soon as there is a Bua object, whatever failed before, every         *)
(* function of the built-in modules finds what it needs, but for setting   *)
(* the time, spawning an agent and making a UUID, which throw, and for     *)
(* exporting the trace and marking a checkpoint in it, which do nothing.   *)
THEOREM BuiltinsFindNatives == GlobalsSpec => []ModulesFindNatives
<1>1. GlobalsInit => NativesInv
  BY DEF GlobalsInit, NativesInv
<1>2. NativesInv /\ [GlobalsNext]_globalsVars => NativesInv'
  BY NativesKeep
<1>3. NativesInv => ModulesFindNatives
  BY BuaRuns DEF NativesInv, ModulesFindNatives
<1> QED BY <1>1, <1>2, <1>3, PTL DEF GlobalsSpec

-----------------------------------------------------------------------------
(* ModuleGraph: while a search is on, the calls that are not over lead     *)
(* from the entry down to the latest, and what the search has turned to    *)
(* was visited or is on the stack.                                         *)
CallType == [key : Modules, next : Nat \ {0}]

Held == {frames[i].key : i \in DOMAIN frames}

(* The stack of the calls: its keys are those in_stack has, each once.     *)
CallsNest ==
    /\ search = "visiting" <=> frames # <<>>
    /\ frames # <<>> => frames[1].key = start
    /\ found.in_stack = Held /\ Held \cap found.visited = {}
    /\ \A i, j \in DOMAIN frames : frames[i].key = frames[j].key => i = j
    /\ \A i, j \in DOMAIN frames :
           i <= j => Reaches(frames[i].key, frames[j].key)

(* What was visited is reached; all imports of it were met, and of a call  *)
(* those before the next.                                                  *)
Frontier ==
    /\ \A m \in found.visited : /\ Reaches(start, m)
                                /\ Imports(m) \subseteq found.visited \union Held
    /\ \A i \in DOMAIN frames : \A k \in DOMAIN edges[frames[i].key] :
           k < frames[i].next
               => edges[frames[i].key][k] \in found.visited \union Held
    /\ search = "returned" => start \in found.visited

(* The order has what was visited, and respects the imports.               *)
Listed ==
    /\ \A i, j \in DOMAIN found.order :
           found.order[i] = found.order[j] => i = j
    /\ ToSet(found.order) = found.visited \intersect nodes
    /\ \A i \in DOMAIN found.order : \A n \in Imports(found.order[i]) :
           n \in nodes =>
               \/ \E j \in DOMAIN found.order : j < i /\ found.order[j] = n
               \/ Reaches(n, found.order[i])
    /\ search = "returned" =>
           found.order # <<>> /\ Last(found.order) = start

(* As long as no cycle was met, what was visited imports nothing that is   *)
(* still on the stack, and a call has met nothing but the call it made.    *)
CycleMet ==
    \E m \in Modules : Reaches(start, m) /\ OnCycle(m)

NoCycleYet ==
    /\ \A m \in found.visited : /\ Imports(m) \subseteq found.visited
                                /\ ~ OnCycle(m)
    /\ \A i \in DOMAIN frames : \A k \in DOMAIN edges[frames[i].key] :
           k < frames[i].next =>
               \/ edges[frames[i].key][k] \in found.visited
               \/ /\ i < Len(frames)
                  /\ edges[frames[i].key][k] = frames[i + 1].key

Warned ==
    /\ found.cycles # <<>> => CycleMet
    /\ found.cycles = <<>> => NoCycleYet

GraphInv ==
    /\ GraphTypeOK
    /\ search = "none" => frames = <<>>
    /\ search # "none" => CallsNest /\ Frontier /\ Listed /\ Warned

(* A module reaches itself and its imports, and what these reach.          *)
LEMMA ReachesAlong ==
    /\ \A m : Reaches(m, m)
    /\ \A m, n, o : Reaches(m, n) /\ Reaches(n, o) => Reaches(m, o)
    /\ \A m, n : n \in Imports(m) => Reaches(m, n)
  BY DEF Reaches, Closed

(* What lies in a closed set reaches nothing outside of it.                *)
LEMMA ClosedHoldsAll ==
  ASSUME NEW S \in SUBSET Modules, Closed(S), NEW m \in S, NEW n,
         Reaches(m, n)
  PROVE  n \in S
  BY DEF Reaches

LEMMA ImportsAreModules ==
  ASSUME GraphTypeOK, NEW m \in Modules
  PROVE  /\ edges[m] \in Seq(Modules) /\ Imports(m) \subseteq Modules
         /\ Imports(m) = {edges[m][k] : k \in DOMAIN edges[m]}
  <1>1. edges[m] \in Seq(Modules)
    BY DEF GraphTypeOK
  <1> QED BY <1>1, ItemsOfSeq DEF Imports, ToSet

(* The latest call.                                                        *)
LEMMA LatestCall ==
  ASSUME GraphTypeOK, CallsNest, search = "visiting"
  PROVE  /\ frames \in Seq(CallType) /\ frames # <<>>
         /\ Len(frames) \in DOMAIN frames /\ Len(frames) \in Nat
         /\ DOMAIN frames = 1 .. Len(frames)
         /\ Top = frames[Len(frames)] /\ Top.key \in Modules
         /\ Top.next \in Nat \ {0}
         /\ Top.key \in found.in_stack /\ Reaches(start, Top.key)
         /\ \A i \in DOMAIN frames : /\ frames[i].key \in Modules
                                     /\ frames[i].next \in Nat \ {0}
                                     /\ Reaches(start, frames[i].key)
                                     /\ Reaches(frames[i].key, Top.key)
  <1>1. frames \in Seq(CallType) /\ frames # <<>>
    BY DEF GraphTypeOK, CallsNest, CallType
  <1>2. /\ DOMAIN frames = 1 .. Len(frames) /\ Len(frames) \in Nat
        /\ Len(frames) \in DOMAIN frames /\ 1 \in DOMAIN frames
        /\ \A i \in DOMAIN frames : frames[i] \in CallType /\ 1 <= i
                                    /\ i <= Len(frames)
    BY <1>1
  <1>3. Top = frames[Len(frames)]
    BY <1>1 DEF Top, Last
  <1>4. \A i \in DOMAIN frames : /\ frames[i].key \in Modules
                                 /\ frames[i].next \in Nat \ {0}
    BY <1>2 DEF CallType
  <1>5. \A i \in DOMAIN frames : /\ Reaches(frames[1].key, frames[i].key)
                                 /\ Reaches(frames[i].key, frames[Len(frames)].key)
    BY <1>2 DEF CallsNest
  <1>6. frames[1].key = start
    BY <1>1 DEF CallsNest
  <1>7. Top.key \in found.in_stack
    BY <1>2, <1>3 DEF CallsNest, Held
  <1> QED BY <1>1, <1>2, <1>3, <1>4, <1>5, <1>6, <1>7

(* The import it turns to.                                                 *)
LEMMA TurnOf ==
  ASSUME GraphTypeOK, CallsNest, HasDep
  PROVE  /\ search = "visiting"
         /\ Top.next \in DOMAIN edges[Top.key]
         /\ Dep \in Modules /\ Dep \in Imports(Top.key)
         /\ NextTurn \in Seq(CallType)
         /\ Len(NextTurn) = Len(frames) /\ DOMAIN NextTurn = DOMAIN frames
         /\ \A i \in DOMAIN frames :
               /\ NextTurn[i].key = frames[i].key
               /\ i < Len(frames) => NextTurn[i].next = frames[i].next
         /\ \A i \in DOMAIN frames : \A k \in DOMAIN edges[frames[i].key] :
               k < NextTurn[i].next =>
                   \/ k < frames[i].next
                   \/ i = Len(frames) /\ edges[frames[i].key][k] = Dep
  <1>1. search = "visiting" /\ Top.next \in DOMAIN edges[Top.key]
    BY DEF HasDep
  <1>2. /\ frames \in Seq(CallType) /\ Len(frames) \in Nat
        /\ DOMAIN frames = 1 .. Len(frames) /\ Len(frames) \in DOMAIN frames
        /\ Top = frames[Len(frames)] /\ Top.key \in Modules
        /\ Top.next \in Nat \ {0}
    BY <1>1, LatestCall
  <1>3. Dep \in Modules /\ Dep \in Imports(Top.key)
    BY <1>1, <1>2, ImportsAreModules DEF Dep
  <1> DEFINE l == Len(frames)
             call == [frames[l] EXCEPT !.next = frames[l].next + 1]
  <1>4. NextTurn = [frames EXCEPT ![l] = call]
    BY DEF NextTurn
  <1>5. /\ call \in CallType /\ call.key = frames[l].key
        /\ call.next = Top.next + 1
    <2>1. frames[l] \in CallType
      BY <1>2
    <2> QED BY <1>2, <2>1 DEF CallType
  <1> HIDE DEF call
  <1>6. /\ NextTurn \in Seq(CallType) /\ Len(NextTurn) = l
        /\ DOMAIN NextTurn = DOMAIN frames
        /\ NextTurn[l] = call
        /\ \A i \in DOMAIN frames : i # l => NextTurn[i] = frames[i]
    BY <1>2, <1>4, <1>5
  <1>7. ASSUME NEW i \in DOMAIN frames, NEW k \in DOMAIN edges[frames[i].key],
               k < NextTurn[i].next, ~ (k < frames[i].next)
        PROVE  i = l /\ edges[frames[i].key][k] = Dep
    <2>1. k \in Nat
      <3>1. frames[i].key \in Modules
        BY <1>1, LatestCall
      <3>2. edges[frames[i].key] \in Seq(Modules)
        BY <3>1, ImportsAreModules
      <3> QED BY <3>2
    <2>2. i = l
      BY <1>6, <1>7
    <2>3. k = Top.next
      BY <1>2, <1>5, <1>6, <1>7, <2>1, <2>2
    <2> QED BY <1>2, <2>2, <2>3 DEF Dep
  <1> QED BY <1>1, <1>2, <1>3, <1>5, <1>6, <1>7

(* During a search the graph rests, and so does what reaches what.         *)
LEMMA GraphRests ==
  ASSUME UNCHANGED recordVars
  PROVE  /\ nodes' = nodes /\ edges' = edges
         /\ \A m : Imports(m)' = Imports(m) /\ OnCycle(m)' = OnCycle(m)
         /\ \A m, n : Reaches(m, n)' = Reaches(m, n)
  BY DEF recordVars, Imports, OnCycle, Reaches, Closed

LEMMA RestTypeOK ==
  ASSUME GraphTypeOK, UNCHANGED <<recordVars, start>>, search # "none",
         search' \in {"visiting", "returned"},
         frames' \in Seq(CallType),
         found' \in [visited : SUBSET Modules, in_stack : SUBSET Modules,
                     order : Seq(Modules), cycles : Seq(Modules)]
  PROVE  GraphTypeOK'
  BY DEF GraphTypeOK, recordVars, CallType

LEMMA MeetsCycleKeeps ==
  ASSUME GraphInv, MeetsCycle
  PROVE  GraphInv'
  <1>1. /\ HasDep /\ Dep \in found.in_stack /\ frames' = NextTurn
        /\ found' = [found EXCEPT !.cycles = Append(@, Dep)]
        /\ UNCHANGED recordVars /\ search' = search /\ start' = start
    BY DEF MeetsCycle
  <1>2. search = "visiting" /\ GraphTypeOK
        /\ CallsNest /\ Frontier /\ Listed /\ Warned
    BY <1>1 DEF HasDep, GraphInv
  <1>3. /\ Top.key \in Modules /\ 1 \in DOMAIN frames
        /\ Reaches(start, Top.key)
        /\ \A i \in DOMAIN frames : /\ Reaches(start, frames[i].key)
                                    /\ Reaches(frames[i].key, Top.key)
    BY <1>2, LatestCall
  <1>4. /\ Dep \in Modules /\ Dep \in Imports(Top.key)
        /\ frames' \in Seq(CallType) /\ DOMAIN frames' = DOMAIN frames
        /\ \A i \in DOMAIN frames : frames'[i].key = frames[i].key
        /\ \A i \in DOMAIN frames : \A k \in DOMAIN edges[frames[i].key] :
              k < frames'[i].next =>
                   \/ k < frames[i].next
                   \/ i = Len(frames) /\ edges[frames[i].key][k] = Dep
    BY <1>1, <1>2, TurnOf
  <1>5. /\ found'.visited = found.visited /\ found'.in_stack = found.in_stack
        /\ found'.order = found.order
        /\ found'.cycles # <<>>
        /\ found' \in [visited : SUBSET Modules, in_stack : SUBSET Modules,
                       order : Seq(Modules), cycles : Seq(Modules)]
    <2> DEFINE more == Append(found.cycles, Dep)
    <2>1. found \in [visited : SUBSET Modules, in_stack : SUBSET Modules,
                     order : Seq(Modules), cycles : Seq(Modules)]
      BY <1>2 DEF GraphTypeOK
    <2>2. more \in Seq(Modules) /\ more # <<>>
      <3>1. found.cycles \in Seq(Modules)
        BY <2>1
      <3> QED BY <1>4, <3>1, AppendProperties
    <2>3. found' = [found EXCEPT !.cycles = more]
      BY <1>1
    <2> HIDE DEF more
    <2> QED BY <2>1, <2>2, <2>3
  <1>6. /\ nodes' = nodes /\ edges' = edges
        /\ \A m : Imports(m)' = Imports(m) /\ OnCycle(m)' = OnCycle(m)
        /\ \A m, n : Reaches(m, n)' = Reaches(m, n)
    BY <1>1, GraphRests
  <1>7. GraphTypeOK'
    BY <1>1, <1>2, <1>4, <1>5, RestTypeOK
  <1>8. Held' = Held
    BY <1>4 DEF Held
  <1>9. CallsNest'
    <2>1. frames # <<>> /\ frames' # <<>>
      BY <1>3, <1>4
    <2>2. (search = "visiting" <=> frames # <<>>)'
      BY <1>1, <1>2, <2>1
    <2>3. (frames # <<>> => frames[1].key = start)'
      BY <1>1, <1>2, <1>3, <1>4, <2>1 DEF CallsNest
    <2>4. (found.in_stack = Held /\ Held \cap found.visited = {})'
      BY <1>2, <1>5, <1>8 DEF CallsNest
    <2> QED BY <1>2, <1>4, <1>6, <2>2, <2>3, <2>4 DEF CallsNest
  <1>10. Dep \in Held
    BY <1>1, <1>2 DEF CallsNest
  <1>11. Frontier'
    <2>1. \A m \in found'.visited :
             /\ Reaches(start, m)'
             /\ Imports(m)' \subseteq found'.visited \union Held'
      BY <1>1, <1>2, <1>5, <1>6, <1>8 DEF Frontier
    <2>2. \A i \in DOMAIN frames' : \A k \in DOMAIN edges'[frames'[i].key] :
             k < frames'[i].next
                 => edges'[frames'[i].key][k] \in found'.visited \union Held'
      BY <1>2, <1>4, <1>5, <1>6, <1>8, <1>10 DEF Frontier
    <2> QED BY <1>1, <1>2, <1>6, <2>1, <2>2 DEF Frontier
  <1>12. Listed'
    BY <1>1, <1>2, <1>5, <1>6 DEF Listed
  <1>13. CycleMet'
    <2>1. PICK i \in DOMAIN frames : Dep = frames[i].key
      BY <1>10 DEF Held
    <2>2. Reaches(Dep, Top.key) /\ Reaches(start, Top.key)
      BY <1>3, <2>1
    <2>3. OnCycle(Top.key)
      BY <1>4, <2>2 DEF OnCycle
    <2> QED BY <1>1, <1>3, <1>6, <2>2, <2>3 DEF CycleMet
  <1> QED BY <1>1, <1>2, <1>5, <1>7, <1>9, <1>11, <1>12, <1>13
          DEF GraphInv, Warned

LEMMA MeetsVisitedKeeps ==
  ASSUME GraphInv, MeetsVisited
  PROVE  GraphInv'
  <1>1. /\ HasDep /\ Dep \in found.visited /\ frames' = NextTurn
        /\ UNCHANGED recordVars /\ search' = search /\ start' = start
        /\ found' = found
    BY DEF MeetsVisited
  <1>2. search = "visiting" /\ GraphTypeOK
        /\ CallsNest /\ Frontier /\ Listed /\ Warned
    BY <1>1 DEF HasDep, GraphInv
  <1>3. 1 \in DOMAIN frames
    BY <1>2, LatestCall
  <1>4. /\ frames' \in Seq(CallType) /\ DOMAIN frames' = DOMAIN frames
        /\ Len(frames') = Len(frames)
        /\ \A i \in DOMAIN frames : frames'[i].key = frames[i].key
        /\ \A i \in DOMAIN frames : \A k \in DOMAIN edges[frames[i].key] :
              k < frames'[i].next =>
                   \/ k < frames[i].next
                   \/ i = Len(frames) /\ edges[frames[i].key][k] = Dep
    BY <1>1, <1>2, TurnOf
  <1>6. /\ nodes' = nodes /\ edges' = edges
        /\ \A m : Imports(m)' = Imports(m) /\ OnCycle(m)' = OnCycle(m)
        /\ \A m, n : Reaches(m, n)' = Reaches(m, n)
    BY <1>1, GraphRests
  <1>7. GraphTypeOK'
    BY <1>1, <1>2, <1>4, RestTypeOK DEF GraphTypeOK
  <1>8. Held' = Held
    BY <1>4 DEF Held
  <1>9. CallsNest'
    <2>1. frames # <<>> /\ frames' # <<>>
      BY <1>3, <1>4
    <2>2. (search = "visiting" <=> frames # <<>>)'
      BY <1>1, <1>2, <2>1
    <2>3. (frames # <<>> => frames[1].key = start)'
      BY <1>1, <1>2, <1>3, <1>4, <2>1 DEF CallsNest
    <2>4. (found.in_stack = Held /\ Held \cap found.visited = {})'
      BY <1>1, <1>2, <1>8 DEF CallsNest
    <2> QED BY <1>2, <1>4, <1>6, <2>2, <2>3, <2>4 DEF CallsNest
  <1>10. Frontier'
    BY <1>1, <1>2, <1>4, <1>6, <1>8 DEF Frontier
  <1>11. Listed'
    BY <1>1, <1>2, <1>6 DEF Listed
  <1>12. Warned'
    <2>1. NoCycleYet => NoCycleYet'
      <3> SUFFICES ASSUME NoCycleYet PROVE NoCycleYet'
        OBVIOUS
      <3>1. \A i \in DOMAIN frames' : \A k \in DOMAIN edges[frames'[i].key] :
               k < frames'[i].next =>
                   \/ edges[frames'[i].key][k] \in found.visited
                   \/ /\ i < Len(frames')
                      /\ edges[frames'[i].key][k] = frames'[i + 1].key
        <4> SUFFICES ASSUME NEW i \in DOMAIN frames,
                            NEW k \in DOMAIN edges[frames[i].key],
                            k < frames'[i].next
                     PROVE  \/ edges[frames[i].key][k] \in found.visited
                            \/ /\ i < Len(frames)
                               /\ edges[frames[i].key][k] = frames'[i + 1].key
          BY <1>4
        <4>1. CASE k < frames[i].next
          <5>1. \/ edges[frames[i].key][k] \in found.visited
                \/ /\ i < Len(frames)
                   /\ edges[frames[i].key][k] = frames[i + 1].key
            BY <4>1 DEF NoCycleYet
          <5>2. i < Len(frames) => i + 1 \in DOMAIN frames
            BY <1>2, LatestCall
          <5> QED BY <1>4, <5>1, <5>2
        <4>2. CASE i = Len(frames) /\ edges[frames[i].key][k] = Dep
          BY <1>1, <4>2
        <4> QED BY <1>4, <4>1, <4>2
      <3> QED BY <1>1, <1>6, <3>1 DEF NoCycleYet
    <2>2. CycleMet => CycleMet'
      BY <1>1, <1>6 DEF CycleMet
    <2> QED BY <1>1, <1>2, <2>1, <2>2 DEF Warned
  <1> QED BY <1>1, <1>2, <1>7, <1>9, <1>10, <1>11, <1>12 DEF GraphInv

LEMMA DescendKeeps ==
  ASSUME GraphInv, Descend
  PROVE  GraphInv'
  <1>1. /\ HasDep /\ Dep \notin found.in_stack /\ Dep \notin found.visited
        /\ frames' = Append(NextTurn, Frame(Dep))
        /\ found' = [found EXCEPT !.in_stack = @ \union {Dep}]
        /\ UNCHANGED recordVars /\ search' = search /\ start' = start
    BY DEF Descend, Enter
  <1>2. search = "visiting" /\ GraphTypeOK
        /\ CallsNest /\ Frontier /\ Listed /\ Warned
    BY <1>1 DEF HasDep, GraphInv
  <1>3. /\ Top.key \in Modules /\ Len(frames) \in DOMAIN frames
        /\ DOMAIN frames = 1 .. Len(frames) /\ Len(frames) \in Nat
        /\ \A i \in DOMAIN frames : /\ Reaches(frames[i].key, Top.key)
                                    /\ frames[i].key \in Modules
    BY <1>2, LatestCall
  <1> DEFINE l == Len(frames)
  <1>4. /\ Dep \in Modules /\ Dep \in Imports(Top.key)
        /\ NextTurn \in Seq(CallType) /\ Len(NextTurn) = l
        /\ \A i \in DOMAIN frames : NextTurn[i].key = frames[i].key
        /\ \A i \in DOMAIN frames : \A k \in DOMAIN edges[frames[i].key] :
              k < NextTurn[i].next =>
                   \/ k < frames[i].next
                   \/ i = Len(frames) /\ edges[frames[i].key][k] = Dep
    BY <1>1, <1>2, TurnOf
  <1>5. /\ found'.visited = found.visited
        /\ found'.in_stack = found.in_stack \union {Dep}
        /\ found'.order = found.order /\ found'.cycles = found.cycles
        /\ found' \in [visited : SUBSET Modules, in_stack : SUBSET Modules,
                       order : Seq(Modules), cycles : Seq(Modules)]
    <2>1. found \in [visited : SUBSET Modules, in_stack : SUBSET Modules,
                     order : Seq(Modules), cycles : Seq(Modules)]
      BY <1>2 DEF GraphTypeOK
    <2> QED BY <1>1, <1>4, <2>1
  <1>6. /\ nodes' = nodes /\ edges' = edges
        /\ \A m : Imports(m)' = Imports(m) /\ OnCycle(m)' = OnCycle(m)
        /\ \A m, n : Reaches(m, n)' = Reaches(m, n)
    BY <1>1, GraphRests
  <1>7. /\ frames' \in Seq(CallType) /\ Len(frames') = l + 1
        /\ DOMAIN frames' = 1 .. l + 1
        /\ \A i \in 1 .. l : frames'[i] = NextTurn[i]
        /\ frames'[l + 1].key = Dep /\ frames'[l + 1].next = 1
    <2>1. Frame(Dep) \in CallType /\ Frame(Dep).key = Dep /\ Frame(Dep).next = 1
      BY <1>4 DEF Frame, CallType
    <2> QED BY <1>1, <1>3, <1>4, <2>1
  <1>8. \A i \in 1 .. l + 1 : i = l + 1 \/ (i \in 1 .. l /\ i \in DOMAIN frames
                                          /\ frames'[i].key = frames[i].key
                                          /\ i < l + 1)
    BY <1>3, <1>4, <1>7
  <1>9. Held' = Held \union {Dep}
    <2>1. ASSUME NEW m \in Held PROVE m \in Held'
      <3>1. PICK i \in DOMAIN frames : m = frames[i].key
        BY <2>1 DEF Held
      <3>2. i \in DOMAIN frames' /\ frames'[i].key = m
        BY <1>3, <1>4, <1>7, <3>1
      <3> QED BY <3>2 DEF Held
    <2>2. l + 1 \in DOMAIN frames'
      BY <1>3, <1>7
    <2>3. Dep \in Held'
      BY <1>7, <2>2 DEF Held
    <2>4. ASSUME NEW m \in Held' PROVE m \in Held \/ m = Dep
      BY <1>7, <1>8 DEF Held
    <2> QED BY <2>1, <2>3, <2>4
  <1>10. GraphTypeOK'
    BY <1>1, <1>2, <1>5, <1>7, RestTypeOK
  <1>11. Dep \notin Held
    BY <1>1, <1>2 DEF CallsNest
  <1>12. CallsNest'
    <2>1. frames # <<>> /\ frames' # <<>> /\ 1 \in DOMAIN frames
          /\ frames'[1].key = frames[1].key
      BY <1>3, <1>4, <1>7
    <2>2. (search = "visiting" <=> frames # <<>>)'
      BY <1>1, <1>2, <2>1
    <2>3. (frames # <<>> => frames[1].key = start)'
      BY <1>1, <1>2, <2>1 DEF CallsNest
    <2>4. (found.in_stack = Held /\ Held \cap found.visited = {})'
      BY <1>1, <1>2, <1>5, <1>9 DEF CallsNest
    <2>5. \A i, j \in DOMAIN frames' : frames'[i].key = frames'[j].key => i = j
      <3>1. \A i \in DOMAIN frames : frames[i].key # Dep
        BY <1>11 DEF Held
      <3> QED BY <1>2, <1>7, <1>8, <3>1 DEF CallsNest
    <2>6. \A i, j \in DOMAIN frames' :
             i <= j => Reaches(frames'[i].key, frames'[j].key)
      <3>1. Reaches(Dep, Dep) /\ \A i \in DOMAIN frames : Reaches(frames[i].key, Dep)
        BY <1>3, <1>4, ReachesAlong
      <3>2. \A i \in 1 .. l : ~ (l + 1 <= i)
        BY <1>3
      <3> SUFFICES ASSUME NEW i \in 1 .. l + 1, NEW j \in 1 .. l + 1, i <= j
                   PROVE  Reaches(frames'[i].key, frames'[j].key)
        BY <1>7
      <3>3. CASE j = l + 1
        BY <1>7, <1>8, <3>1, <3>3
      <3>4. CASE j # l + 1
        BY <1>2, <1>8, <3>2, <3>4 DEF CallsNest
      <3> QED BY <3>3, <3>4
    <2> QED BY <1>6, <2>2, <2>3, <2>4, <2>5, <2>6 DEF CallsNest
  <1>13. \A k \in DOMAIN edges[Dep] : ~ (k < 1)
    <2>1. edges[Dep] \in Seq(Modules)
      BY <1>2, <1>4, ImportsAreModules
    <2> QED BY <2>1
  <1>14. Frontier'
    <2>1. \A m \in found'.visited :
             /\ Reaches(start, m)'
             /\ Imports(m)' \subseteq found'.visited \union Held'
      BY <1>1, <1>2, <1>5, <1>6, <1>9 DEF Frontier
    <2>2. \A i \in DOMAIN frames' : \A k \in DOMAIN edges'[frames'[i].key] :
             k < frames'[i].next
                 => edges'[frames'[i].key][k] \in found'.visited \union Held'
      <3>1. \A i \in DOMAIN frames : \A k \in DOMAIN edges[frames[i].key] :
               k < NextTurn[i].next
                   => edges[frames[i].key][k] \in found.visited \union Held'
        BY <1>2, <1>4, <1>9 DEF Frontier
      <3> SUFFICES ASSUME NEW i \in 1 .. l + 1, NEW k \in DOMAIN edges[frames'[i].key],
                          k < frames'[i].next
                   PROVE  edges[frames'[i].key][k] \in found.visited \union Held'
        BY <1>5, <1>6, <1>7
      <3>2. CASE i = l + 1
        BY <1>7, <1>13, <3>2
      <3>3. CASE i # l + 1
        BY <1>7, <1>8, <3>1, <3>3
      <3> QED BY <3>2, <3>3
    <2> QED BY <1>1, <1>2, <1>6, <2>1, <2>2 DEF Frontier
  <1>15. Listed'
    BY <1>1, <1>2, <1>5, <1>6 DEF Listed
  <1>16. Warned'
    <2>1. NoCycleYet => NoCycleYet'
      <3> SUFFICES ASSUME NoCycleYet PROVE NoCycleYet'
        OBVIOUS
      <3>1. \A i \in DOMAIN frames' : \A k \in DOMAIN edges[frames'[i].key] :
               k < frames'[i].next =>
                   \/ edges[frames'[i].key][k] \in found.visited
                   \/ /\ i < Len(frames')
                      /\ edges[frames'[i].key][k] = frames'[i + 1].key
        <4> SUFFICES ASSUME NEW i \in 1 .. l + 1,
                            NEW k \in DOMAIN edges[frames'[i].key],
                            k < frames'[i].next
                     PROVE  \/ edges[frames'[i].key][k] \in found.visited
                            \/ /\ i < l + 1
                               /\ edges[frames'[i].key][k] = frames'[i + 1].key
          BY <1>7
        <4>1. CASE i = l + 1
          BY <1>7, <1>13, <4>1
        <4>2. CASE i # l + 1
          <5>1. /\ i \in DOMAIN frames /\ frames'[i].key = frames[i].key
                /\ i < l + 1 /\ k < NextTurn[i].next
            BY <1>7, <1>8, <4>2
          <5>2. CASE k < frames[i].next
            <6>1. i < l => i + 1 \in DOMAIN frames
                           /\ frames'[i + 1].key = frames[i + 1].key
              BY <1>3, <1>4, <1>7, <5>1
            <6> QED BY <5>1, <5>2, <6>1 DEF NoCycleYet
          <5>3. CASE i = l /\ edges[frames[i].key][k] = Dep
            BY <1>7, <5>1, <5>3
          <5> QED BY <1>4, <5>1, <5>2, <5>3
        <4> QED BY <4>1, <4>2
      <3> QED BY <1>5, <1>6, <3>1 DEF NoCycleYet
    <2>2. CycleMet => CycleMet'
      BY <1>1, <1>6 DEF CycleMet
    <2> QED BY <1>2, <1>5, <2>1, <2>2 DEF Warned
  <1> QED BY <1>1, <1>2, <1>10, <1>12, <1>14, <1>15, <1>16 DEF GraphInv

(* A call ends: it had met all its imports, and none of them is later on   *)
(* the stack.                                                              *)
LEMMA EndKeeps ==
  ASSUME GraphInv, EndOfImports
  PROVE  GraphInv'
  <1> DEFINE l   == Len(frames)
             key == Top.key
  <1>1. /\ search = "visiting" /\ Top.next \notin DOMAIN edges[key]
        /\ frames' = Front(frames)
        /\ found' = List(Leave(found, key), key)
        /\ search' = IF l = 1 THEN "returned" ELSE search
        /\ UNCHANGED recordVars /\ start' = start
    BY DEF EndOfImports
  <1>2. GraphTypeOK /\ CallsNest /\ Frontier /\ Listed /\ Warned
    BY <1>1 DEF GraphInv
  <1>3. /\ frames \in Seq(CallType) /\ frames # <<>>
        /\ key \in Modules /\ l \in DOMAIN frames
        /\ DOMAIN frames = 1 .. l /\ l \in Nat
        /\ key = frames[l].key /\ key \in found.in_stack
        /\ Top.next = frames[l].next /\ Top.next \in Nat \ {0}
        /\ Reaches(start, key)
        /\ \A i \in DOMAIN frames : /\ Reaches(frames[i].key, key)
                                    /\ frames[i].key \in Modules
    BY <1>1, <1>2, LatestCall
  <1>4. /\ frames' \in Seq(CallType) /\ Len(frames') = l - 1
        /\ DOMAIN frames' = 1 .. l - 1
        /\ \A i \in 1 .. l - 1 : frames'[i] = frames[i]
    BY <1>1, <1>3 DEF Front
  <1>5. /\ found'.visited = found.visited \union {key}
        /\ found'.in_stack = found.in_stack \ {key}
        /\ found'.order = IF key \in nodes THEN Append(found.order, key)
                          ELSE found.order
        /\ found'.cycles = found.cycles
        /\ found' \in [visited : SUBSET Modules, in_stack : SUBSET Modules,
                       order : Seq(Modules), cycles : Seq(Modules)]
    <2> DEFINE more == Append(found.order, key)
    <2>1. found \in [visited : SUBSET Modules, in_stack : SUBSET Modules,
                     order : Seq(Modules), cycles : Seq(Modules)]
      BY <1>2 DEF GraphTypeOK
    <2>2. more \in Seq(Modules)
      <3>1. found.order \in Seq(Modules)
        BY <2>1
      <3> QED BY <1>3, <3>1
    <2> DEFINE left == Leave(found, key)
    <2>3. /\ left.visited = found.visited \union {key}
          /\ left.in_stack = found.in_stack \ {key}
          /\ left.order = found.order /\ left.cycles = found.cycles
          /\ left \in [visited : SUBSET Modules, in_stack : SUBSET Modules,
                       order : Seq(Modules), cycles : Seq(Modules)]
      BY <1>3, <2>1 DEF Leave
    <2>4. found' = IF key \in nodes THEN [left EXCEPT !.order = more] ELSE left
      BY <1>1, <2>3 DEF List
    <2> HIDE DEF more, left
    <2>5. CASE key \in nodes
      BY <2>2, <2>3, <2>4, <2>5 DEF more
    <2>6. CASE key \notin nodes
      BY <2>3, <2>4, <2>6
    <2> QED BY <2>5, <2>6
  <1>6. /\ nodes' = nodes /\ edges' = edges
        /\ \A m : Imports(m)' = Imports(m) /\ OnCycle(m)' = OnCycle(m)
        /\ \A m, n : Reaches(m, n)' = Reaches(m, n)
    BY <1>1, GraphRests
  <1> HIDE DEF key
  <1>7. GraphTypeOK'
    <2>1. search' \in {"visiting", "returned"}
      BY <1>1
    <2> QED BY <1>1, <1>2, <1>4, <1>5, <2>1, RestTypeOK
  <1>10. /\ l \in Nat
         /\ \A i \in 1 .. l - 1 : /\ i \in DOMAIN frames /\ i < l
                                  /\ i + 1 \in DOMAIN frames
                                  /\ i < l - 1 \/ i + 1 = l
    <2>1. DOMAIN frames = 1 .. l /\ l \in Nat
      BY <1>3
    <2> HIDE DEF l
    <2> QED BY <2>1
  <1>8. Held' = Held \ {key}
    <2>1. ASSUME NEW m \in Held, m # key PROVE m \in Held'
      <3>1. PICK i \in DOMAIN frames : m = frames[i].key
        BY <2>1 DEF Held
      <3>2. i \in 1 .. l - 1
        BY <1>3, <2>1, <3>1
      <3> QED BY <1>4, <3>1, <3>2 DEF Held
    <2>2. ASSUME NEW m \in Held' PROVE m \in Held /\ m # key
      <3>1. PICK i \in 1 .. l - 1 : m = frames[i].key
        BY <1>4, <2>2 DEF Held
      <3>2. i \in DOMAIN frames /\ i # l
        BY <1>10
      <3>3. frames[i].key # frames[l].key
        BY <1>2, <1>3, <3>2 DEF CallsNest
      <3> QED BY <1>3, <3>1, <3>2, <3>3 DEF Held
    <2> QED BY <2>1, <2>2
  <1>9. key \in Held /\ key \notin found.visited
    BY <1>2, <1>3 DEF CallsNest
  <1>11. CallsNest'
    <2>1. (search = "visiting" <=> frames # <<>>)'
      <3>1. CASE l = 1
        BY <1>1, <1>4, <3>1
      <3>2. CASE l # 1
        <4>1. l - 1 # 0
          BY <1>3, <3>2
        <4> QED BY <1>1, <1>4, <3>2, <4>1
      <3> QED BY <3>1, <3>2
    <2>2. (frames # <<>> => frames[1].key = start)'
      <3> SUFFICES ASSUME frames' # <<>> PROVE frames'[1].key = start'
        OBVIOUS
      <3>1. 1 \in 1 .. l - 1
        BY <1>3, <1>4
      <3> QED BY <1>1, <1>2, <1>3, <1>4, <3>1 DEF CallsNest
    <2>3. (found.in_stack = Held /\ Held \cap found.visited = {})'
      BY <1>2, <1>5, <1>8 DEF CallsNest
    <2>4. \A i, j \in DOMAIN frames' : frames'[i].key = frames'[j].key => i = j
      BY <1>2, <1>4, <1>10 DEF CallsNest
    <2>5. \A i, j \in DOMAIN frames' :
             i <= j => Reaches(frames'[i].key, frames'[j].key)
      BY <1>2, <1>4, <1>10 DEF CallsNest
    <2> QED BY <1>6, <2>1, <2>2, <2>3, <2>4, <2>5 DEF CallsNest
  <1>12. \A k \in DOMAIN edges[key] : k < frames[l].next
    <2>1. edges[key] \in Seq(Modules)
      BY <1>2, <1>3, ImportsAreModules
    <2>2. DOMAIN edges[key] = 1 .. Len(edges[key]) /\ Len(edges[key]) \in Nat
      BY <2>1
    <2> QED BY <1>1, <1>3, <2>2
  <1>13. \A n \in Imports(key) : \E k \in DOMAIN edges[key] :
            n = edges[key][k] /\ k < frames[l].next
    BY <1>2, <1>3, <1>12, ImportsAreModules
  <1>14. found'.visited \union Held' = found.visited \union Held
    BY <1>5, <1>8, <1>9
  <1>15. Frontier'
    <2>1. \A m \in found'.visited :
             /\ Reaches(start, m)'
             /\ Imports(m)' \subseteq found'.visited \union Held'
      <3>1. Imports(key) \subseteq found.visited \union Held
        BY <1>2, <1>3, <1>13 DEF Frontier
      <3>2. \A m \in found.visited \union {key} :
               Reaches(start, m) /\ Imports(m) \subseteq found.visited \union Held
        BY <1>2, <1>3, <3>1 DEF Frontier
      <3> QED BY <1>1, <1>5, <1>6, <1>14, <3>2
    <2>2. \A i \in DOMAIN frames' : \A k \in DOMAIN edges'[frames'[i].key] :
             k < frames'[i].next
                 => edges'[frames'[i].key][k] \in found'.visited \union Held'
      BY <1>2, <1>4, <1>6, <1>10, <1>14 DEF Frontier
    <2>3. search' = "returned" => start \in found'.visited
      <3>1. CASE l = 1
        BY <1>2, <1>3, <1>5, <3>1 DEF CallsNest
      <3>2. CASE l # 1
        BY <1>1, <3>2
      <3> QED BY <3>1, <3>2
    <2> QED BY <1>1, <1>6, <2>1, <2>2, <2>3 DEF Frontier
  <1>16. Listed'
    <2>0. /\ found.order \in Seq(Modules)
          /\ DOMAIN found.order = 1 .. Len(found.order)
          /\ Len(found.order) \in Nat
      <3>1. found.order \in Seq(Modules)
        BY <1>2 DEF GraphTypeOK
      <3> QED BY <3>1
    <2>1. CASE key \notin nodes
      <3>1. l # 1
        <4>1. start \in nodes
          BY <1>1, <1>2 DEF GraphTypeOK
        <4> QED BY <1>2, <1>3, <2>1, <4>1 DEF CallsNest
      <3>2. search' # "returned"
        BY <1>1, <3>1
      <3>3. found'.order = found.order
            /\ found'.visited \intersect nodes = found.visited \intersect nodes
        BY <1>5, <2>1
      <3> QED BY <1>2, <1>6, <3>2, <3>3 DEF Listed
    <2>2. CASE key \in nodes
      <3> DEFINE lastPlace == Len(found.order) + 1
      <3>1. /\ found'.order \in Seq(Modules)
            /\ DOMAIN found'.order = DOMAIN found.order \union {lastPlace}
            /\ Len(found'.order) = lastPlace
            /\ lastPlace \in Nat \ {0}
            /\ \A i \in DOMAIN found.order :
                  i < lastPlace /\ found'.order[i] = found.order[i]
            /\ found'.order[lastPlace] = key
        <4>1. found'.order = Append(found.order, key)
          BY <1>5, <2>2
        <4> QED BY <1>3, <2>0, <4>1
      <3> HIDE DEF lastPlace
      <3>2. ToSet(found'.order) = found'.visited \intersect nodes'
        <4>1. ToSet(found'.order) = ToSet(found.order) \union {key}
          BY <1>5, <2>0, <2>2, SetOfAppend
        <4> QED BY <1>2, <1>5, <1>6, <2>2, <4>1 DEF Listed
      <3>3. \A i \in DOMAIN found.order : found.order[i] # key
        <4>1. \A i \in DOMAIN found.order : found.order[i] \in found.visited
          BY <1>2 DEF Listed, ToSet
        <4> QED BY <1>9, <4>1
      <3>4. \A i, j \in DOMAIN found'.order :
               found'.order[i] = found'.order[j] => i = j
        BY <1>2, <3>1, <3>3 DEF Listed
      <3>5. \A n \in Imports(key) : n \in nodes =>
               \/ \E j \in DOMAIN found'.order : j < lastPlace /\ found'.order[j] = n
               \/ Reaches(n, key)
        <4> SUFFICES ASSUME NEW n \in Imports(key), n \in nodes
                     PROVE  \/ \E j \in DOMAIN found'.order :
                                  j < lastPlace /\ found'.order[j] = n
                            \/ Reaches(n, key)
          OBVIOUS
        <4>1. n \in found.visited \union Held
          BY <1>2, <1>3, <1>13 DEF Frontier
        <4>2. CASE n \in Held
          BY <1>3, <4>2 DEF Held
        <4>3. CASE n \in found.visited
          <5>1. n \in ToSet(found.order)
            BY <1>2, <4>3 DEF Listed
          <5>2. \E j \in DOMAIN found.order : found.order[j] = n
            BY <5>1 DEF ToSet
          <5> QED BY <3>1, <5>2
        <4> QED BY <4>1, <4>2, <4>3
      <3>6. \A i \in DOMAIN found'.order : \A n \in Imports(found'.order[i]) :
               n \in nodes =>
                 \/ \E j \in DOMAIN found'.order : j < i /\ found'.order[j] = n
                 \/ Reaches(n, found'.order[i])
        <4> SUFFICES ASSUME NEW i \in DOMAIN found'.order,
                            NEW n \in Imports(found'.order[i]), n \in nodes
                     PROVE  \/ \E j \in DOMAIN found'.order :
                                  j < i /\ found'.order[j] = n
                            \/ Reaches(n, found'.order[i])
          OBVIOUS
        <4>1. CASE i = lastPlace
          BY <3>1, <3>5, <4>1
        <4>2. CASE i # lastPlace
          <5>1. i \in DOMAIN found.order /\ found'.order[i] = found.order[i]
            BY <3>1, <4>2
          <5>2. \/ \E j \in DOMAIN found.order : j < i /\ found.order[j] = n
                \/ Reaches(n, found.order[i])
            BY <1>2, <5>1 DEF Listed
          <5> QED BY <3>1, <5>1, <5>2
        <4> QED BY <4>1, <4>2
      <3>7. search' = "returned" =>
               found'.order # <<>> /\ Last(found'.order) = start
        <4> SUFFICES ASSUME search' = "returned"
                     PROVE  found'.order # <<>> /\ Last(found'.order) = start
          OBVIOUS
        <4>1. l = 1
          BY <1>1
        <4>2. key = start
          BY <1>2, <1>3, <4>1 DEF CallsNest
        <4> QED BY <3>1, <4>2 DEF Last
      <3> QED BY <1>1, <1>6, <3>2, <3>4, <3>6, <3>7 DEF Listed
    <2> QED BY <2>1, <2>2
  <1>17. Warned'
    <2>1. NoCycleYet => NoCycleYet'
      <3> SUFFICES ASSUME NoCycleYet PROVE NoCycleYet'
        OBVIOUS
      <3>1. Imports(key) \subseteq found.visited
        <4>1. \A k \in DOMAIN edges[frames[l].key] :
                 k < frames[l].next => edges[frames[l].key][k] \in found.visited
          BY <1>3 DEF NoCycleYet
        <4> QED BY <1>3, <1>13, <4>1
      <3>2. ~ OnCycle(key)
        <4>1. Closed(found.visited) /\ found.visited \in SUBSET Modules
          BY <1>2 DEF NoCycleYet, Closed, GraphTypeOK
        <4> QED BY <1>9, <3>1, <4>1, ClosedHoldsAll DEF OnCycle
      <3>3. \A m \in found'.visited : Imports(m) \subseteq found'.visited
                                      /\ ~ OnCycle(m)
        BY <1>5, <3>1, <3>2 DEF NoCycleYet
      <3>4. \A i \in DOMAIN frames' : \A k \in DOMAIN edges[frames'[i].key] :
               k < frames'[i].next =>
                   \/ edges[frames'[i].key][k] \in found'.visited
                   \/ /\ i < Len(frames')
                      /\ edges[frames'[i].key][k] = frames'[i + 1].key
        <4> SUFFICES ASSUME NEW i \in 1 .. l - 1,
                            NEW k \in DOMAIN edges[frames[i].key],
                            k < frames[i].next
                     PROVE  \/ edges[frames[i].key][k] \in found'.visited
                            \/ /\ i < l - 1
                               /\ edges[frames[i].key][k] = frames'[i + 1].key
          BY <1>4
        <4>1. \/ edges[frames[i].key][k] \in found.visited
              \/ edges[frames[i].key][k] = frames[i + 1].key
          BY <1>10 DEF NoCycleYet
        <4>2. i < l - 1 \/ i + 1 = l
          BY <1>10
        <4>3. i < l - 1 => frames'[i + 1] = frames[i + 1]
          BY <1>3, <1>4
        <4> QED BY <1>3, <1>5, <4>1, <4>2, <4>3
      <3> QED BY <1>6, <3>3, <3>4 DEF NoCycleYet
    <2>2. CycleMet => CycleMet'
      BY <1>1, <1>6 DEF CycleMet
    <2> QED BY <1>2, <1>5, <2>1, <2>2 DEF Warned
  <1> QED BY <1>1, <1>2, <1>7, <1>11, <1>15, <1>16, <1>17 DEF GraphInv

LEMMA EvalOrderBegins ==
  ASSUME GraphInv, NEW m \in Modules, EvalOrder(m)
  PROVE  GraphInv'
  <1>1. /\ search = "none" /\ m \in nodes
        /\ search' = "visiting" /\ start' = m
        /\ frames' = <<Frame(m)>>
        /\ found' = [visited |-> {}, in_stack |-> {m}, order |-> <<>>,
                     cycles |-> <<>>]
        /\ UNCHANGED recordVars /\ nodes' = nodes /\ edges' = edges
    BY DEF EvalOrder, Enter, Nothing, recordVars
  <1>2. GraphTypeOK
    BY DEF GraphInv
  <1>3. Frame(m) \in CallType /\ Frame(m).key = m /\ Frame(m).next = 1
    BY DEF Frame, CallType
  <1>4. /\ frames' \in Seq(CallType) /\ frames' # <<>>
        /\ DOMAIN frames' = {1} /\ Len(frames') = 1
        /\ frames'[1].key = m /\ frames'[1].next = 1
    BY <1>1, <1>3
  <1>5. GraphTypeOK'
    <2>1. <<>> \in Seq(Modules)
      OBVIOUS
    <2> QED BY <1>1, <1>2, <1>4, <2>1 DEF GraphTypeOK, CallType
  <1>6. Held' = {m}
    BY <1>4 DEF Held
  <1>7. \A k \in DOMAIN edges[m] : ~ (k < 1)
    <2>1. edges[m] \in Seq(Modules)
      BY <1>2, ImportsAreModules
    <2> QED BY <2>1
  <1>8. CallsNest'
    <2>1. Reaches(m, m)'
      BY DEF Reaches
    <2> QED BY <1>1, <1>4, <1>6, <2>1 DEF CallsNest
  <1>9. Frontier'
    BY <1>1, <1>4, <1>7 DEF Frontier
  <1>10. Listed'
    <2>1. DOMAIN <<>> = {} /\ ToSet(<<>>) = {}
      BY DEF ToSet
    <2> QED BY <1>1, <2>1 DEF Listed
  <1>11. Warned'
    BY <1>1, <1>4, <1>7 DEF Warned, NoCycleYet
  <1> QED BY <1>1, <1>5, <1>8, <1>9, <1>10, <1>11 DEF GraphInv

LEMMA GraphChanges ==
  ASSUME GraphInv,
         \/ \E m \in Modules : InsertModule(m)
         \/ \E from, to \in Modules : AddEdge(from, to)
         \/ TakeOrder
  PROVE  GraphInv'
  <1>1. GraphTypeOK /\ (search = "none" => frames = <<>>)
    BY DEF GraphInv
  <1>2. ASSUME NEW m \in Modules, InsertModule(m)
        PROVE  GraphInv'
    <2>1. /\ search = "none" /\ UNCHANGED <<search, start, frames, found>>
          /\ edges' = [edges EXCEPT ![m] = <<>>] /\ nodes' = nodes \union {m}
      BY <1>2 DEF InsertModule, searchVars
    <2>2. edges' \in [Modules -> Seq(Modules)]
      <3>1. <<>> \in Seq(Modules)
        OBVIOUS
      <3> QED BY <1>1, <2>1, <3>1 DEF GraphTypeOK
    <2> QED BY <1>1, <2>1, <2>2 DEF GraphInv, GraphTypeOK
  <1>3. ASSUME NEW from \in Modules, NEW to \in Modules, AddEdge(from, to)
        PROVE  GraphInv'
    <2> DEFINE more == Append(edges[from], to)
    <2>1. /\ search = "none" /\ UNCHANGED <<nodes, search, start, frames, found>>
          /\ edges' = [edges EXCEPT ![from] = more]
      BY <1>3 DEF AddEdge, searchVars
    <2>2. more \in Seq(Modules)
      <3>1. edges[from] \in Seq(Modules)
        BY <1>1 DEF GraphTypeOK
      <3> QED BY <3>1
    <2> HIDE DEF more
    <2>3. edges' \in [Modules -> Seq(Modules)]
      BY <1>1, <2>1, <2>2 DEF GraphTypeOK
    <2> QED BY <1>1, <2>1, <2>3 DEF GraphInv, GraphTypeOK
  <1>4. CASE TakeOrder
    <2>1. /\ search = "returned" /\ search' = "none" /\ found' = Nothing
          /\ nodes' = nodes /\ edges' = edges /\ frames' = frames
      BY <1>4 DEF TakeOrder, recordVars
    <2>2. frames = <<>>
      BY <2>1 DEF GraphInv, CallsNest
    <2>3. Nothing \in [visited : SUBSET Modules, in_stack : SUBSET Modules,
                       order : Seq(Modules), cycles : Seq(Modules)]
      <3>1. <<>> \in Seq(Modules)
        OBVIOUS
      <3> QED BY <3>1 DEF Nothing
    <2> QED BY <1>1, <2>1, <2>2, <2>3 DEF GraphInv, GraphTypeOK
  <1> QED BY <1>2, <1>3, <1>4

LEMMA GraphInvBegins == GraphInit => GraphInv
  <1> SUFFICES ASSUME GraphInit PROVE GraphInv
    OBVIOUS
  <1>1. <<>> \in Seq(Modules) /\ <<>> \in Seq([key : Modules, next : Nat \ {0}])
    OBVIOUS
  <1>2. Nothing \in [visited : SUBSET Modules, in_stack : SUBSET Modules,
                     order : Seq(Modules), cycles : Seq(Modules)]
    BY <1>1 DEF Nothing
  <1> QED BY <1>1, <1>2 DEF GraphInit, GraphInv, GraphTypeOK

LEMMA GraphKeepsInv == GraphInv /\ [GraphNext]_graphVars => GraphInv'
  <1> SUFFICES ASSUME GraphInv, [GraphNext]_graphVars PROVE GraphInv'
    OBVIOUS
  <1>1. CASE GraphNext
    BY <1>1, GraphChanges, EvalOrderBegins, MeetsCycleKeeps, MeetsVisitedKeeps,
       DescendKeeps, EndKeeps DEF GraphNext
  <1>2. CASE UNCHANGED graphVars
    <2>1. UNCHANGED <<nodes, edges, search, start, frames, found>>
      BY <1>2 DEF graphVars, recordVars, searchVars
    <2>2. /\ \A m : Imports(m)' = Imports(m) /\ OnCycle(m)' = OnCycle(m)
          /\ \A m, n : Reaches(m, n)' = Reaches(m, n)
          /\ Held' = Held
      BY <2>1, GraphRests DEF recordVars, Held
    <2>3. GraphTypeOK => GraphTypeOK'
      BY <2>1 DEF GraphTypeOK
    <2>4. CallsNest => CallsNest'
      BY <2>1, <2>2 DEF CallsNest
    <2>5. Frontier => Frontier'
      BY <2>1, <2>2 DEF Frontier
    <2>6. Listed => Listed'
      BY <2>1, <2>2 DEF Listed
    <2>7. Warned => Warned'
      BY <2>1, <2>2 DEF Warned, NoCycleYet, CycleMet
    <2> QED BY <2>1, <2>3, <2>4, <2>5, <2>6, <2>7 DEF GraphInv
  <1> QED BY <1>1, <1>2

(* ModuleGraph::eval_order(): its stack, its sets and its vectors.         *)
THEOREM GraphStaysTyped == GraphSpec => []GraphTypeOK
  <1>1. GraphInv => GraphTypeOK
    BY DEF GraphInv
  <1> QED BY <1>1, GraphInvBegins, GraphKeepsInv, PTL DEF GraphSpec

(* When the search has returned, nothing is on the stack, so what was      *)
(* visited is closed: it is all that the entry reaches.                    *)
LEMMA VisitedIsReached ==
  ASSUME GraphInv, search = "returned"
  PROVE  \A m : m \in found.visited <=> Reaches(start, m)
  <1>1. /\ GraphTypeOK /\ CallsNest /\ Frontier
    BY DEF GraphInv
  <1>2. frames = <<>>
    BY <1>1 DEF CallsNest
  <1>3. Held = {}
    BY <1>2 DEF Held
  <1>4. Closed(found.visited) /\ start \in found.visited
        /\ found.visited \in SUBSET Modules
    BY <1>1, <1>3 DEF Closed, Frontier, GraphTypeOK
  <1>5. \A m \in found.visited : Reaches(start, m)
    BY <1>1 DEF Frontier
  <1> QED BY <1>4, <1>5, ClosedHoldsAll

(* eval_order() lists the known modules that the entry reaches, each once; *)
(* a module comes after each one it imports, unless that one leads back to *)
(* it; the entry comes last.                                               *)
THEOREM OrderIsSound == GraphSpec => []OrderRespectsImports
  <1>1. GraphInv => OrderRespectsImports
    <2> SUFFICES ASSUME GraphInv, search = "returned"
                 PROVE  OrderRespectsImports
      BY DEF OrderRespectsImports
    <2>1. GraphTypeOK /\ Listed
      BY DEF GraphInv
    <2>2. \A i, j \in DOMAIN found.order :
             i # j => found.order[i] # found.order[j]
      BY <2>1 DEF Listed
    <2>3. ToSet(found.order) = {m \in nodes : Reaches(start, m)}
      BY <2>1, VisitedIsReached DEF Listed
    <2>4. found.order # <<>> /\ Last(found.order) = start
      BY <2>1 DEF Listed
    <2>5. ASSUME NEW i \in DOMAIN found.order, NEW j \in DOMAIN found.order,
                 found.order[j] \in Imports(found.order[i])
          PROVE  j < i \/ Reaches(found.order[j], found.order[i])
      <3>1. found.order[j] \in nodes
        BY <2>3 DEF ToSet
      <3> QED BY <2>1, <2>5, <3>1 DEF Listed
    <2> QED BY <2>2, <2>3, <2>4, <2>5 DEF OrderRespectsImports
  <1> QED BY <1>1, GraphInvBegins, GraphKeepsInv, PTL DEF GraphSpec

(* It warns of a cycle if, and only if, the entry reaches one, be it       *)
(* through modules that have no record.                                    *)
THEOREM WarnsOfAnyCycle == GraphSpec => []WarnsOfCycles
  <1>1. GraphInv => WarnsOfCycles
    <2> SUFFICES ASSUME GraphInv, search = "returned"
                 PROVE  WarnsOfCycles
      BY DEF WarnsOfCycles
    <2>1. Warned
      BY DEF GraphInv
    <2>2. found.cycles = <<>> => ~ CycleMet
      BY <2>1, VisitedIsReached DEF Warned, NoCycleYet, CycleMet
    <2> QED BY <2>1, <2>2 DEF Warned, WarnsOfCycles, CycleMet
  <1> QED BY <1>1, GraphInvBegins, GraphKeepsInv, PTL DEF GraphSpec

=============================================================================
