------------------------------- MODULE MCModules -------------------------------
(* Modules and what they find around them, each part in behaviours of its  *)
(* own while the others rest in an initial state: the loader (part         *)
(* "loader": two loads on one worker thread, so that one more may be under *)
(* way than there are threads, and a file that is edited up to three       *)
(* times, with modification times that repeat and go back), the dependency *)
(* graph ("graph": three modules with up to two imports each), the two     *)
(* resolvers ("resolver": every layout of a name, an extension and two     *)
(* index files, with links to two files and files that cannot be           *)
(* canonicalized), and the globals with their clock ("globals": a word of  *)
(* six microseconds).                                                      *)
EXTENDS ModuleLoader, Globals, ModuleResolver, ModuleGraph

CONSTANTS l1, l2, m1, m2, m3

VARIABLE part

MCLoads == {l1, l2}

MCModuleNames == {m1, m2, m3}

MCExtensions == <<"", ".ts">>

MCIndexes == <<".ts", ".js">>

MCBuiltins == {"fs", "unknown"}

MCTargets == {"here", "elsewhere"}

ModulesInit ==
    /\ part \in {"loader", "graph", "resolver", "globals"}
    /\ Init
    /\ GraphInit
    /\ IF part = "resolver" THEN ResolverInit
       ELSE /\ specifier = [kind |-> "bare", name |-> ""]
            /\ layout = [p \in Paths |-> "nothing"]
    /\ GlobalsInit /\ (part # "globals" => mode = "live")

ModulesNext ==
    /\ UNCHANGED <<part, resolverVars>>
    /\ \/ part = "loader"  /\ Next         /\ UNCHANGED <<graphVars, globalsVars>>
       \/ part = "graph"   /\ GraphNext    /\ UNCHANGED <<vars, globalsVars>>
       \/ part = "globals" /\ GlobalsNext /\ UNCHANGED <<vars, graphVars>>

(* The fairness of the loader, as its module has it.                       *)
ModulesFairness == \A l \in Loads : WF_vars(part = "loader" /\ LoadStep(l))

ModulesSpec ==
    /\ ModulesInit
    /\ [][ModulesNext]_<<part, vars, graphVars, resolverVars, globalsVars>>
    /\ ModulesFairness

=============================================================================
