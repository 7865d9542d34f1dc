----------------------------- MODULE ModuleLoader -----------------------------
(***************************************************************************)
(* The module cache of one agent (runtime/src/loader.rs): concurrent       *)
(* ModuleLoader::load() calls for one path, on the worker threads of the   *)
(* Tokio runtime, while the file is edited, removed and put back.          *)
(*                                                                         *)
(* load() holds the reference that DashMap::get() returned - a read lock   *)
(* on the shard of the path - while it awaits the file's metadata.  Those  *)
(* who need the shard for writing block the thread they run on.  When all  *)
(* threads are blocked in this way, the metadata cannot be attended to.    *)
(*                                                                         *)
(* A version stands for the file's contents and for what the transpiler    *)
(* makes of them: it sees one path and one text, and never fails.          *)
(***************************************************************************)
EXTENDS Naturals, Sequences, FiniteSets

CONSTANTS
    Loads,        \* the calls of load()
    Workers,      \* the worker threads of the runtime
    MaxTime,      \* bound: modification times
    MaxEdits      \* bound: versions of the file

ASSUME MaxTimeIsTime == MaxTime \in Nat

VARIABLES
    mtimes,       \* mtimes[v]: when version v was written, says the file system
    file,         \* the version on disk, 0 if there is no such file
    cache,        \* the cache entry of the path
    load          \* load[l]: where the call is and what it holds

vars == <<mtimes, file, cache, load>>

Times    == 0 .. MaxTime
Versions == DOMAIN mtimes

(* No entry.  An entry has the version of its module and the time it was   *)
(* taken to be from; changed: the file had changed between the two reads.  *)
NoEntry == [version |-> 0, mtime |-> 0, changed |-> FALSE]

Entries == [version : Nat, mtime : Times, changed : BOOLEAN]

(* A load has the entry it makes or returns; seen are the versions that    *)
(* were on disk while it was in progress.                                  *)
LoadStates ==
    [pc : {"new", "checking", "reading", "stating", "inserting", "done",
           "failed"},
     entry : Entries, seen : SUBSET Nat]

TypeOK ==
    /\ mtimes \in Seq(Times)
    /\ file \in {0} \union Versions
    /\ cache \in Entries
    /\ load \in [Loads -> LoadStates]

(* The file may have been loaded before.                                   *)
Init ==
    /\ mtimes \in [{1} -> Times] /\ file = 1
    /\ cache \in {NoEntry, [version |-> 1, mtime |-> mtimes[1], changed |-> FALSE]}
    /\ load = [l \in Loads |-> [pc |-> "new", entry |-> NoEntry, seen |-> {}]]

At(l, pcs) == load[l].pc \in pcs

(* faulty: the reference lives to the end of the call                      *)
HoldsToTheEnd(l) == At(l, {"checking"}) \/ (At(l, {"reading", "stating",
                        "inserting"}) /\ cache # NoEntry)
HoldsShard(l)    == At(l, {"checking"})

(* A thread waits in insert() until nobody holds the shard.                *)
ShardFree == \A l \in Loads : ~HoldsShard(l)

Blocked == {l \in Loads : At(l, {"inserting"})}

(* A file operation ended; its task needs a thread to go on.               *)
Resumable == ~ShardFree => Cardinality(Blocked) < Workers

Goto(l, pc) == load' = [load EXCEPT ![l].pc = pc]

(* resolve() probes for the file, get() looks for an entry.                *)
Begin(l) ==
    /\ At(l, {"new"}) /\ Resumable
    /\ load' = [load EXCEPT ![l].seen = {file} \ {0},
                            ![l].pc = IF file = 0 THEN "failed"
                                      ELSE IF cache = NoEntry THEN "reading"
                                      ELSE "checking"]
    /\ UNCHANGED <<mtimes, file, cache>>

AnyFresh == file # 0                          \* faulty: does not compare
Fresh    == file # 0 /\ mtimes[file] <= cache.mtime

(* metadata() returns: a hit or a miss; the shard is let go.               *)
Check(l) ==
    /\ At(l, {"checking"}) /\ Resumable
    /\ IF Fresh
       THEN load' = [load EXCEPT ![l].pc = "done", ![l].entry = cache]
       ELSE Goto(l, "reading")
    /\ UNCHANGED <<mtimes, file, cache>>

(* read_to_string() and the transpiler.                                    *)
Read(l) ==
    /\ At(l, {"reading"}) /\ Resumable
    /\ IF file = 0
       THEN Goto(l, "failed")
       ELSE load' = [load EXCEPT ![l].pc = "stating",
                                 ![l].entry.version = file]
    /\ UNCHANGED <<mtimes, file, cache>>

(* The time of the entry: the file's now, or the present if it is gone.    *)
EntryTimes == IF file = 0 THEN Times ELSE {mtimes[file]}

Stat(l) ==
    /\ At(l, {"stating"}) /\ Resumable
    /\ \E t \in EntryTimes :
         load' = [load EXCEPT
           ![l].pc = "inserting", ![l].entry.mtime = t,
           ![l].entry.changed = (file # load[l].entry.version)]
    /\ UNCHANGED <<mtimes, file, cache>>

Insert(l) ==
    /\ At(l, {"inserting"}) /\ ShardFree
    /\ cache' = load[l].entry
    /\ Goto(l, "done")
    /\ UNCHANGED <<mtimes, file>>

InvalidateAll ==
    /\ ShardFree /\ cache # NoEntry
    /\ cache' = NoEntry
    /\ UNCHANGED <<mtimes, file, load>>

(* The file is written, with any modification time: editors, checkouts and *)
(* copies that preserve times.                                             *)
Write(t) ==
    /\ Len(mtimes) < MaxEdits
    /\ mtimes' = Append(mtimes, t)
    /\ file' = Len(mtimes) + 1
    /\ load' = [l \in Loads |->
         IF At(l, {"new", "done", "failed"}) THEN load[l]
         ELSE [load[l] EXCEPT !.seen = @ \union {Len(mtimes) + 1}]]
    /\ UNCHANGED cache

RemoveFile ==
    /\ file # 0
    /\ file' = 0
    /\ UNCHANGED <<mtimes, cache, load>>

LoadStep(l) == Begin(l) \/ Check(l) \/ Read(l) \/ Stat(l) \/ Insert(l)

Next ==
    \/ \E l \in Loads : LoadStep(l)
    \/ \E t \in Times : Write(t)
    \/ RemoveFile \/ InvalidateAll

(* File operations end, runnable tasks run and locks are granted.          *)
Fairness == \A l \in Loads : WF_vars(LoadStep(l))

Spec == Init /\ [][Next]_vars /\ Fairness

-----------------------------------------------------------------------------
(* What load() returns was on disk while it was in progress.  The cache    *)
(* may break this in two cases only: the file had changed between the two  *)
(* reads of the load that made the entry, or it was written since with a   *)
(* modification time that is not later.                                    *)
WentBack(l) ==
    \E v \in load[l].seen : mtimes[v] <= mtimes[load[l].entry.version]

LoadsWhatIsThere ==
    \A l \in Loads : At(l, {"done"}) =>
        \/ load[l].entry.version \in load[l].seen
        \/ load[l].entry.changed
        \/ WentBack(l)

(* Every call of load() returns, but for one case: all worker threads are  *)
(* taken by loads that wait in insert() for a shard which one more load    *)
(* holds, across its metadata(), and no thread is left to resume that one. *)
(* So they all return if no more are under way than there are workers.     *)
Deadlocked ==
    /\ \E l \in Loads : At(l, {"checking"})
    /\ Cardinality(Blocked) >= Workers

LoadsReturn ==
    \A l \in Loads : ~At(l, {"new"}) ~> At(l, {"done", "failed"}) \/ Deadlocked

=============================================================================
