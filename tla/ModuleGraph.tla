------------------------------ MODULE ModuleGraph ------------------------------
(***************************************************************************)
(* The graph of ES modules (runtime/src/modules/graph.rs): insert() and    *)
(* add_edge() in any order, and the evaluation order eval_order() finds by *)
(* a depth-first search, with the cyclic imports it warns of.              *)
(*                                                                         *)
(* A step of the search is one turn of the loop of dfs_post_order(), or    *)
(* its end; the calls that are not over are the frames of a stack.  The    *)
(* search borrows the graph, which therefore rests meanwhile.              *)
(***************************************************************************)
EXTENDS Naturals, Sequences, SequencesExt

CONSTANTS
    Modules,      \* resolved paths
    MaxImports    \* bound: edges from one module

VARIABLES
    nodes,        \* the modules that have a record
    edges,        \* edges[m]: the imports of m, in order
    search,       \* eval_order(): "none", "visiting" or "returned"
    start,        \* the entry it was called for
    frames,       \* the calls of dfs_post_order(), the latest last
    found         \* their sets and vectors

recordVars == <<nodes, edges>>
searchVars == <<search, start, frames, found>>
graphVars  == <<recordVars, searchVars>>

Nothing == [visited |-> {}, in_stack |-> {}, order |-> <<>>, cycles |-> <<>>]

GraphInit ==
    /\ nodes = {} /\ edges = [m \in Modules |-> <<>>]
    /\ search = "none" /\ start = "none" /\ frames = <<>> /\ found = Nothing

(* A record that is there already is replaced, and its imports forgotten.  *)
InsertModule(m) ==
    /\ search = "none"
    /\ edges' = [edges EXCEPT ![m] = <<>>]
    /\ nodes' = nodes \union {m}
    /\ UNCHANGED searchVars

(* Neither end needs a record.                                             *)
AddEdge(from, to) ==
    /\ search = "none"
    /\ Len(edges[from]) < MaxImports
    /\ edges' = [edges EXCEPT ![from] = Append(@, to)]
    /\ UNCHANGED <<nodes, searchVars>>

-----------------------------------------------------------------------------
(* A call that is neither on the stack nor was made before has a frame.    *)
Frame(key)    == [key |-> key, next |-> 1]
Enter(f, key) == [f EXCEPT !.in_stack = @ \union {key}]

(* For an entry that has a record; otherwise it is an error.               *)
EvalOrder(m) ==
    /\ search = "none" /\ m \in nodes
    /\ search' = "visiting" /\ start' = m
    /\ frames' = <<Frame(m)>>
    /\ found' = Enter(Nothing, m)
    /\ UNCHANGED recordVars

Top      == Last(frames)
Dep      == edges[Top.key][Top.next]
NextTurn == [frames EXCEPT ![Len(frames)].next = @ + 1]

HasDep == search = "visiting" /\ Top.next \in DOMAIN edges[Top.key]

MeetsCycle ==
    /\ HasDep /\ Dep \in found.in_stack
    /\ frames' = NextTurn
    /\ found' = [found EXCEPT !.cycles = Append(@, Dep)]
    /\ UNCHANGED <<recordVars, search, start>>

MeetsVisited ==
    /\ HasDep /\ Dep \notin found.in_stack /\ Dep \in found.visited
    /\ frames' = NextTurn
    /\ UNCHANGED <<recordVars, search, start, found>>

Descend ==
    /\ HasDep /\ Dep \notin found.in_stack /\ Dep \notin found.visited
    /\ frames' = Append(NextTurn, Frame(Dep))
    /\ found' = Enter(found, Dep)
    /\ UNCHANGED <<recordVars, search, start>>

KeepsStack(f, key) == [f EXCEPT !.visited = @ \union {key}]  \* faulty: stays in
Leave(f, key)      == [f EXCEPT !.visited = @ \union {key},
                                !.in_stack = @ \ {key}]

(* A module that has no record is passed through but not listed.           *)
ListsAll(f, key) == [f EXCEPT !.order = Append(@, key)]      \* faulty: no test
List(f, key)     == IF key \in nodes THEN [f EXCEPT !.order = Append(@, key)]
                    ELSE f

EndOfImports ==
    /\ search = "visiting" /\ Top.next \notin DOMAIN edges[Top.key]
    /\ frames' = Front(frames)
    /\ found' = List(Leave(found, Top.key), Top.key)
    /\ search' = IF Len(frames) = 1 THEN "returned" ELSE search
    /\ UNCHANGED <<recordVars, start>>

(* The caller has the order, and the graph is free again.                  *)
TakeOrder ==
    /\ search = "returned"
    /\ search' = "none" /\ start' = "none" /\ found' = Nothing
    /\ UNCHANGED <<recordVars, frames>>

GraphNext ==
    \/ \E m \in Modules : InsertModule(m) \/ EvalOrder(m)
    \/ \E from, to \in Modules : AddEdge(from, to)
    \/ MeetsCycle \/ MeetsVisited \/ Descend \/ EndOfImports \/ TakeOrder

GraphSpec == GraphInit /\ [][GraphNext]_graphVars

-----------------------------------------------------------------------------
(* Type correctness of the graph and of a search in it.                    *)
GraphTypeOK ==
    /\ nodes \subseteq Modules
    /\ edges \in [Modules -> Seq(Modules)]
    /\ search \in {"none", "visiting", "returned"}
    /\ search # "none" => start \in nodes
    /\ frames \in Seq([key : Modules, next : Nat \ {0}])
    /\ found \in [visited : SUBSET Modules, in_stack : SUBSET Modules,
                  order : Seq(Modules), cycles : Seq(Modules)]

(* What a module reaches is in every set that holds it and, with a module, *)
(* its imports.                                                            *)
Imports(m)    == ToSet(edges[m])
Closed(S)     == \A m \in S : Imports(m) \subseteq S
Reaches(m, n) == \A S \in SUBSET Modules : m \in S /\ Closed(S) => n \in S
OnCycle(m)    == \E n \in Imports(m) : Reaches(n, m)

(* eval_order() lists the known modules that the entry reaches, each once; *)
(* a module comes after each one it imports, unless that one leads back to *)
(* it; the entry comes last.                                               *)
OrderRespectsImports ==
    search = "returned" =>
        LET order == found.order
        IN  /\ \A i, j \in DOMAIN order : i # j => order[i] # order[j]
            /\ ToSet(order) = {m \in nodes : Reaches(start, m)}
            /\ order # <<>> /\ Last(order) = start
            /\ \A i, j \in DOMAIN order :
                   order[j] \in Imports(order[i])
                       => j < i \/ Reaches(order[j], order[i])

(* It warns of a cycle if, and only if, the entry reaches one, be it       *)
(* through modules that have no record.                                    *)
WarnsOfCycles ==
    search = "returned" =>
        (found.cycles # <<>> <=>
            \E m \in Modules : Reaches(start, m) /\ OnCycle(m))

=============================================================================
