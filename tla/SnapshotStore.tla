----------------------------- MODULE SnapshotStore -----------------------------
(***************************************************************************)
(* The checkpoints of one execution in a directory (SnapshotContext,       *)
(* runtime/src/runtime/snapshot_ctx.rs, over Snapshot::write_to_file and   *)
(* read_from_file, runtime/src/snapshot.rs): clones of the context take    *)
(* checkpoints, evict old ones and read the latest, all at the same time.  *)
(*                                                                         *)
(* A file is written in place: it is there, truncated, from when it is     *)
(* created until all of it is written, and stays so if the write fails.    *)
(* Files are ordered by name, where a number has at least four digits.     *)
(***************************************************************************)
EXTENDS Naturals, FiniteSets

CONSTANTS
    Writers,         \* who calls checkpoint()
    Evictors,        \* who calls evict_old()
    MaxSnapshots,    \* SnapshotConfig.max_snapshots
    Base,            \* the base of the numbers in file names: 10
    Wrap,            \* the first number wider than those before: 10^4
    MaxNumber        \* bound: checkpoints; at most a digit more than Wrap - 1

VARIABLES
    count,           \* snapshot_count
    files,           \* files[n]: what there is of the file of checkpoint n
    writer,          \* writer[w]: the call in progress
    evictor,         \* evictor[e]: the files still to remove
    reader,          \* a call of latest_snapshot(): its list so far, what was
                     \* completed before it, the files of its start it has
                     \* not come to, and whether an error cut its list short
    completed        \* history: the newest checkpoint that returned Ok, if any

storeVars == <<count, files, writer, evictor, reader, completed>>

ASSUME BoundsAreNumbers ==
    {MaxSnapshots, Base, Wrap, MaxNumber} \subseteq Nat /\ Base > 1

Numbers == 0 .. MaxNumber

Idle == [pc |-> "idle", number |-> 0]

Newest(numbers) == {n \in numbers : \A m \in numbers : m <= n}

StoreInit ==
    /\ count = 0
    /\ files = [n \in Numbers |-> "absent"]
    /\ writer = [w \in Writers |-> Idle]
    /\ evictor = [e \in Evictors |-> {}]
    /\ reader = [pc |-> "idle", latest |-> 0, seen |-> {},
                 before |-> {}, unseen |-> {}, cut |-> FALSE]
    /\ completed = {}

(* The order of the names of m and n: the wider number is compared without *)
(* its last digit, and a name that is a prefix of the other comes first.   *)
Before(m, n) ==
    CASE m < Wrap /\ n >= Wrap -> m <= n \div Base
      [] m >= Wrap /\ n < Wrap -> m \div Base < n
      [] OTHER -> m < n

Listed == {n \in Numbers : files[n] # "absent"}

-----------------------------------------------------------------------------
(* checkpoint(): a number of its own, ...                                  *)
Checkpoint(w) ==
    /\ writer[w].pc = "idle" /\ count <= MaxNumber
    /\ count' = count + 1
    /\ writer' = [writer EXCEPT ![w] = [pc |-> "numbered", number |-> count]]
    /\ UNCHANGED <<files, evictor, reader, completed>>

(* ... the file created, ...                                               *)
OpenFile(w) ==
    /\ writer[w].pc = "numbered"
    /\ files' = [files EXCEPT ![writer[w].number] = "partial"]
    /\ writer' = [writer EXCEPT ![w].pc = "writing"]
    /\ UNCHANGED <<count, evictor, reader, completed>>

(* ... and written, though it may have lost its name in the meantime.      *)
WriteAll(w) ==
    /\ writer[w].pc = "writing"
    /\ files' = [files EXCEPT ![writer[w].number] =
                    IF @ = "absent" THEN @ ELSE "whole"]
    /\ completed' = Newest(completed \union {writer[w].number})
    /\ writer' = [writer EXCEPT ![w] = Idle]
    /\ UNCHANGED <<count, evictor, reader>>

(* The file cannot be created, or not be written to its end.               *)
WriteFails(w) ==
    /\ writer[w].pc \in {"numbered", "writing"}
    /\ writer' = [writer EXCEPT ![w] = Idle]
    /\ UNCHANGED <<count, files, evictor, reader, completed>>

-----------------------------------------------------------------------------
(* evict_old(): all but the last MaxSnapshots names are to go, of those in *)
(* its list, which an error may have cut short.                            *)
CountsItself(list, n) ==                    \* faulty: keeps one too few
    Cardinality({m \in list : m = n \/ Before(n, m)}) >= MaxSnapshots
Excess(list, n) == Cardinality({m \in list : Before(n, m)}) >= MaxSnapshots

ListOld(e) ==
    /\ evictor[e] = {}
    /\ \E list \in SUBSET Listed :
         evictor' = [evictor EXCEPT ![e] = {n \in list : Excess(list, n)}]
    /\ UNCHANGED <<count, files, writer, reader, completed>>

(* In the order of the names; a removal that fails is passed over.         *)
RemoveOld(e, n) ==
    /\ n \in evictor[e]
    /\ \A m \in evictor[e] \ {n} : Before(n, m)
    /\ evictor' = [evictor EXCEPT ![e] = @ \ {n}]
    /\ \/ files' = [files EXCEPT ![n] = "absent"]
       \/ UNCHANGED files
    /\ UNCHANGED <<count, writer, reader, completed>>

-----------------------------------------------------------------------------
(* latest_snapshot(): the directory is opened, or cannot be read, which is *)
(* reported as if there were no snapshot.                                  *)
ReadDir ==
    /\ reader.pc \notin {"listing", "found"}
    /\ \E readable \in BOOLEAN :
         reader' = [pc |-> IF readable THEN "listing" ELSE "none",
                    latest |-> 0, seen |-> {},
                    before |-> completed, unseen |-> Listed, cut |-> ~readable]
    /\ UNCHANGED <<count, files, writer, evictor, completed>>

(* next_entry(): a file that is there.  Those that come or go while the    *)
(* list is made may be missed.                                             *)
NextEntry(n) ==
    /\ reader.pc = "listing"
    /\ n \in Listed \ reader.seen
    /\ reader' = [reader EXCEPT !.seen = @ \union {n}, !.unseen = @ \ {n}]
    /\ UNCHANGED <<count, files, writer, evictor, completed>>

FirstName(list, n) == \A m \in list \ {n} : Before(n, m)  \* faulty: first()
LastName(list, n)  == \A m \in list \ {n} : Before(m, n)

(* The list ends when it has all files that were there from the start, or  *)
(* silently with an error; the last name is taken, ...                     *)
Find ==
    /\ reader.pc = "listing"
    /\ \E cut \in BOOLEAN :
         /\ cut \/ reader.unseen \cap Listed = {}
         /\ \/ /\ reader.seen = {}
               /\ reader' = [reader EXCEPT !.pc = "none", !.cut = cut]
            \/ \E n \in reader.seen :
                 /\ LastName(reader.seen, n)
                 /\ reader' = [reader EXCEPT !.pc = "found", !.latest = n,
                                             !.seen = {}, !.cut = cut]
    /\ UNCHANGED <<count, files, writer, evictor, completed>>

(* ... and what is in that file by now.                                    *)
Parse ==
    /\ reader.pc = "found"
    /\ reader' = [reader EXCEPT
         !.pc = IF files[reader.latest] = "whole" THEN "ok" ELSE "error"]
    /\ UNCHANGED <<count, files, writer, evictor, completed>>

StoreNext ==
    \/ \E w \in Writers :
         Checkpoint(w) \/ OpenFile(w) \/ WriteAll(w) \/ WriteFails(w)
    \/ \E e \in Evictors : ListOld(e) \/ \E n \in Numbers : RemoveOld(e, n)
    \/ ReadDir \/ (\E n \in Numbers : NextEntry(n)) \/ Find \/ Parse

StoreSpec == StoreInit /\ [][StoreNext]_storeVars

-----------------------------------------------------------------------------
(* Type correctness of the directory and of the calls in progress.         *)
StoreTypeOK ==
    /\ count \in 0 .. MaxNumber + 1
    /\ files \in [Numbers -> {"absent", "partial", "whole"}]
    /\ writer \in [Writers -> [pc : {"idle", "numbered", "writing"},
                              number : Numbers]]
    /\ evictor \in [Evictors -> SUBSET Numbers]
    /\ reader \in [pc : {"idle", "listing", "none", "found", "ok", "error"},
                   latest : Numbers, seen : SUBSET Numbers,
                   before : SUBSET Numbers, unseen : SUBSET Numbers,
                   cut : BOOLEAN]
    /\ completed \subseteq Numbers

(* latest_snapshot() returns no checkpoint older than one that had been    *)
(* completed when it was called, nor that there is none, whatever is being *)
(* written, has failed or is being evicted, but for two cases: an error    *)
(* cut its list short, or a file it had not come to yet, which is as new,  *)
(* was evicted while it went through the directory (and the one which that *)
(* made room for was missed).                                              *)
EvictedUnseen == {m \in reader.unseen : files[m] = "absent"}

LatestIsNewest ==
    reader.pc \in {"ok", "none"} /\ ~reader.cut =>
        \A n \in reader.before :
            \/ reader.pc = "ok" /\ n <= reader.latest
            \/ \E m \in EvictedUnseen : n <= m

(* Evictions running side by side with stale lists never remove one of the *)
(* newest MaxSnapshots files.                                              *)
EvictsOnlyOld ==
    [][\A n \in Listed \ Listed' :
          Cardinality({m \in Listed' : m > n}) >= MaxSnapshots]_storeVars

=============================================================================
