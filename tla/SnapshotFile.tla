----------------------------- MODULE SnapshotFile -----------------------------
(***************************************************************************)
(* The layered snapshot format (LayeredSnapshot, runtime/src/snapshot.rs): *)
(* a version and a sequence of strata - a tag, a length and that many      *)
(* units of payload - under a checksum.  A snapshot is put together,       *)
(* serialized one stratum after the other, and read back in turns of the   *)
(* loop of deserialize(): perhaps from a writer that knows more strata     *)
(* than this reader does, perhaps after damage.                            *)
(*                                                                         *)
(* Bytes are grouped into units: a tag, a length, a piece of payload, each *)
(* a number.  The checksum is taken to tell any damage from none, and a    *)
(* length to fit its field.                                                *)
(***************************************************************************)
EXTENDS Naturals, Sequences, SequencesExt

CONSTANTS
    Tags,         \* the strata this reader knows, in the order of writing
    Unknown,      \* a tag that it does not know
    Payloads,     \* sequences of units, as JSON makes them
    MaxUnknown    \* bound: the strata of its own a later writer has

ASSUME TagsDiffer ==
    /\ Tags \in Seq(Nat) /\ Unknown \in Nat
    /\ Unknown \notin {0} \union ToSet(Tags)
ASSUME PayloadsAreUnits == Payloads \subseteq Seq(Nat)

VARIABLES
    strata,       \* the fields of the snapshot, the header under tag 0
    stage,        \* "filling", "writing", "written", "reading" or "read"
    document,     \* the file: version, body, is the checksum right
    cursor,       \* the stratum to write next, the unit to read next
    snap          \* the fields deserialize() has filled, or an error

fileVars == <<strata, stage, document, cursor, snap>>

FormatVersion == 2
Header        == 0
Layout        == <<Header>> \o Tags
Known         == {Header} \union ToSet(Tags)
Absent        == <<>>                       \* None; Some(p) is <<p>>
Empty         == [t \in Known |-> Absent]
Error         == <<>>                       \* not a snapshot

(* LayeredSnapshot::new() makes a header, default() none.                  *)
FileInit ==
    /\ strata \in {[Empty EXCEPT ![Header] = <<p>>] : p \in Payloads}
    /\ stage = "filling" /\ cursor = 1 /\ snap = Error
    /\ document = [version |-> 0, body |-> <<>>, intact |-> FALSE]

(* with_vm(), with_capability(), ...: each sets its field.                 *)
With(t, p) ==
    /\ stage = "filling"
    /\ strata' = [strata EXCEPT ![t] = <<p>>]
    /\ UNCHANGED <<stage, document, cursor, snap>>

(* serialize(), or that of a later release of this code, with a version of *)
(* its own where readers have to be kept away.                             *)
Serialize(v) ==
    /\ stage = "filling" /\ stage' = "writing" /\ cursor' = 1
    /\ document' = [version |-> v, body |-> <<>>, intact |-> TRUE]
    /\ UNCHANGED <<strata, snap>>

(* write_stratum_raw().                                                    *)
Stratum(t, p) == <<t, Len(p)>> \o p

AddToBody(units) ==
    /\ document' = [document EXCEPT !.body = @ \o units]
    /\ cursor' = cursor + 1
    /\ UNCHANGED <<strata, stage, snap>>

WriteStratum ==
    /\ stage = "writing" /\ cursor \in DOMAIN Layout
    /\ LET t == Layout[cursor]
       IN  AddToBody(IF strata[t] = Absent THEN <<>>
                     ELSE Stratum(t, strata[t][1]))

(* The later release has strata of its own at the end.                     *)
WriteUnknown(p) ==
    /\ stage = "writing"
    /\ cursor \in Len(Layout) + 1 .. Len(Layout) + MaxUnknown
    /\ AddToBody(Stratum(Unknown, p))

WriteToFile ==
    /\ stage = "writing" /\ cursor > Len(Layout)
    /\ stage' = "written"
    /\ UNCHANGED <<strata, document, cursor, snap>>

(* The file is cut short or changed.                                       *)
Damage(n) ==
    /\ stage = "written" /\ n <= Len(document.body)
    /\ document' = [document EXCEPT !.body = SubSeq(@, 1, n), !.intact = FALSE]
    /\ UNCHANGED <<strata, stage, cursor, snap>>

-----------------------------------------------------------------------------
(* deserialize().                                                          *)
Refused == ~document.intact \/ document.version > FormatVersion

ReadHeader ==
    /\ stage = "written" /\ cursor' = 1
    /\ IF Refused THEN stage' = "read" /\ snap' = Error
       ELSE stage' = "reading" /\ snap' = Empty
    /\ UNCHANGED <<strata, document>>

OneTooFar(pos, len)   == pos + 3 + len       \* faulty: skips a unit
NextStratum(pos, len) == pos + 2 + len

(* A stratum that reaches beyond the end is an error; of two with one tag  *)
(* the later counts.                                                       *)
ReadStratum ==
    /\ stage = "reading" /\ cursor + 1 <= Len(document.body)
    /\ LET body == document.body
           tag  == body[cursor]
           len  == body[cursor + 1]
           next == NextStratum(cursor, len)
       IN  IF next > Len(body) + 1
           THEN /\ stage' = "read" /\ snap' = Error
                /\ UNCHANGED cursor
           ELSE /\ cursor' = next
                /\ snap' = IF tag \notin Known THEN snap
                           ELSE [snap EXCEPT ![tag] =
                                   <<SubSeq(body, cursor + 2, cursor + 1 + len)>>]
                /\ UNCHANGED stage
    /\ UNCHANGED <<strata, document>>

EndOfBody ==
    /\ stage = "reading" /\ cursor + 1 > Len(document.body)
    /\ stage' = "read"
    /\ UNCHANGED <<strata, document, cursor, snap>>

(* The file may be read again, or be damaged first.                        *)
TakeSnapshot ==
    /\ stage = "read" /\ stage' = "written"
    /\ UNCHANGED <<strata, document, cursor, snap>>

FileNext ==
    \/ \E t \in ToSet(Tags), p \in Payloads : With(t, p)
    \/ \E v \in {FormatVersion, FormatVersion + 1} : Serialize(v)
    \/ WriteStratum \/ WriteToFile
    \/ \E p \in Payloads : WriteUnknown(p)
    \/ \E n \in 0 .. 2 : Damage(n)
    \/ ReadHeader \/ ReadStratum \/ EndOfBody \/ TakeSnapshot

FileSpec == FileInit /\ [][FileNext]_fileVars

-----------------------------------------------------------------------------
Fields == {Absent} \union {<<p>> : p \in Seq(Nat)}

(* Type correctness of the snapshot, the file and the reader.              *)
FileTypeOK ==
    /\ strata \in [Known -> Fields]
    /\ stage \in {"filling", "writing", "written", "reading", "read"}
    /\ document \in [version : Nat, body : Seq(Nat), intact : BOOLEAN]
    /\ cursor \in Nat \ {0}
    /\ snap \in {Error} \union [Known -> Fields]

(* A file reads as what was written into it, less the strata this reader   *)
(* does not know, whatever their payloads look like; damaged files and     *)
(* those of a later version are refused.                                   *)
ReadsWhatWasWritten ==
    stage = "read" =>
        snap = IF document.intact /\ document.version = FormatVersion
               THEN strata ELSE Error

=============================================================================
