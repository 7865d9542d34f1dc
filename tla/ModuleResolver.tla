---------------------------- MODULE ModuleResolver ----------------------------
(***************************************************************************)
(* How a specifier becomes a file, twice: ModuleLoader::resolve            *)
(* (runtime/src/loader.rs), which the runtime uses, and                    *)
(* ModuleResolver::resolve (runtime/src/modules/resolver.rs), which the    *)
(* crate exports.  Both probe the candidate path with a list of extensions *)
(* and, where that is a directory, a list of index files in it.  They are  *)
(* compared on every directory that has something under those names.  The  *)
(* loader returns the path it found; the resolver gives a file its         *)
(* canonical path, where links are followed, and a built-in its name.      *)
(***************************************************************************)
EXTENDS Naturals, Sequences

CONSTANTS
    Extensions,   \* the extensions to try, the first of them empty
    Indexes,      \* the index files to try
    BuiltinDir,   \* the directory the loader has for built-ins
    Builtins,     \* the names that follow "bua:"
    Targets       \* the canonical paths of files

ASSUME ExactPathFirst == Extensions \in Seq(STRING) /\ Extensions # <<>>
ASSUME IndexesAreListed == Indexes \in Seq(STRING)
ASSUME NoSuchCandidate == \A i \in DOMAIN Extensions : Extensions[i] # BuiltinDir

VARIABLES
    specifier,    \* the kind of specifier
    layout        \* layout[p]: what is there under path p

resolverVars == <<specifier, layout>>

Specifiers ==
    [kind : {"absolute", "relative", "bare"}, name : {""}]
        \union [kind : {"builtin"}, name : Builtins]

(* A path is a name, or an index file under it.                            *)
Names == {Extensions[i] : i \in DOMAIN Extensions}
Paths == {<<e>> : e \in Names}
             \union {<<e, Indexes[i]>> : e \in Names, i \in DOMAIN Indexes}

(* A file is known by its canonical path, or cannot be canonicalized: then *)
(* something on the way to it cannot be read, or it is gone by then.       *)
Layouts ==
    {f \in [Paths -> {"nothing", "directory", "nameless"} \union Targets] :
        \A p \in Paths : Len(p) = 2 /\ f[<<p[1]>>] # "directory"
                            => f[p] = "nothing"}

IsFile(p) == layout[p] \notin {"nothing", "directory"}

ResolverInit == specifier \in Specifiers /\ layout \in Layouts

NotFound == <<>>                       \* BuaError::ModuleNotFound

(* Each name is tried as the path itself, place 0, and then with each of   *)
(* its index files, before the next name is.                               *)
Places == (DOMAIN Extensions) \X (0 .. Len(Indexes))

Candidate(p) ==
    IF p[2] = 0 THEN <<Extensions[p[1]]>>
    ELSE <<Extensions[p[1]], Indexes[p[2]]>>

Precedes(p, q) == p[1] < q[1] \/ (p[1] = q[1] /\ p[2] < q[2])

(* The first candidate that is accepted, or an error.                      *)
FirstOf(accepted) ==
    LET good == {p \in Places : Candidate(p) \in accepted}
    IN  IF good = {} THEN NotFound
        ELSE Candidate(CHOOSE p \in good :
                          \A q \in good \ {p} : Precedes(p, q))

-----------------------------------------------------------------------------
(* loader.rs: an index may be anything that exists.                        *)
LoaderAccepts ==
    {p \in Paths : IsFile(p) \/ (Len(p) = 2 /\ layout[p] = "directory")}

(* faulty: no index file is tried before all the names were                *)
ProbesFilesFirst ==
    LET files == {i \in DOMAIN Extensions : <<Extensions[i]>> \in LoaderAccepts}
    IN  IF files = {} THEN FirstOf(LoaderAccepts)
        ELSE <<Extensions[CHOOSE i \in files : \A j \in files : i <= j]>>

(* The exact path is looked at once more, before all others.               *)
ProbeExtensions ==
    IF <<Extensions[1]>> \in LoaderAccepts THEN <<Extensions[1]>>
    ELSE FirstOf(LoaderAccepts)

(* A built-in gets a path as if there were a directory of them.            *)
LoaderResolve ==
    CASE specifier.kind \in {"absolute", "relative"} -> ProbeExtensions
      [] specifier.kind = "builtin" -> <<BuiltinDir, specifier.name>>
      [] OTHER -> NotFound

(* resolver.rs: it has to be a file.                                       *)
ProbeAccepts == {p \in Paths : IsFile(p)}

(* canonicalize(), or the path itself where that fails.                    *)
Canonical(p) == IF layout[p] = "nameless" THEN p ELSE <<layout[p]>>

File(path)    == [kind |-> "file", of |-> path]
Builtin(name) == [kind |-> "builtin", of |-> <<name>>]
Error         == [kind |-> "error", of |-> <<>>]

Probe ==
    LET found == FirstOf(ProbeAccepts)
    IN  IF found = NotFound THEN Error ELSE File(Canonical(found))

Resolve ==
    CASE specifier.kind = "builtin" -> Builtin(specifier.name)
      [] specifier.kind \in {"absolute", "relative"} -> Probe
      [] OTHER -> Error

-----------------------------------------------------------------------------
(* The two agree on every directory: for a file the resolver has the       *)
(* canonical path of the one the loader found, though that may not be the  *)
(* file's only path, and they have the same built-ins and the same errors. *)
(* There is one exception: where the loader takes a directory that has the *)
(* name of an index file, which it then cannot read.                       *)
AsResolved(path) ==
    CASE path = NotFound -> Error
      [] path \in Paths -> File(Canonical(path))
      [] OTHER -> Builtin(path[2])

TakesDirectory ==
    LoaderResolve \in Paths /\ layout[LoaderResolve] = "directory"

ResolversAgree == Resolve = AsResolved(LoaderResolve) \/ TakesDirectory

=============================================================================
