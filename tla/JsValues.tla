------------------------------- MODULE JsValues -------------------------------
(***************************************************************************)
(* JS values between Rust and JavaScriptCore: JscContext                   *)
(* (runtime/src/ffi/context.rs), the handles of runtime/src/ffi/value.rs   *)
(* and the C bridge under them (jsc/src/bua_jsc.cpp).                      *)
(*                                                                         *)
(* The bridge returns a value in a box, a BuaValue that protects it from   *)
(* the garbage collector until bua_value_free().  A handle counts its      *)
(* clones; the last one to go, on whatever thread, frees the box.  What    *)
(* can be told as JSON is copied, and the handle is a stub without a box.  *)
(*                                                                         *)
(* The calls run one after the other on the JS thread; each is a step.     *)
(* The bridge follows every pointer it is given: a null ends the process.  *)
(***************************************************************************)
EXTENDS Naturals

CONSTANTS
    Boxes,        \* bound: addresses of boxes, none used twice
    MaxClones     \* bound: clones of one handle

VARIABLES
    context,      \* the JscContext, "crashed" if the process has ended
    natives,      \* is a native function registered in it
    box,          \* box[b]: unused, the kind of value in it, or freed
    clones,       \* clones[b]: how many clones the handle of box b has
    passed        \* the pointers given to the bridge by the last call

valueVars == <<context, natives, box, clones, passed>>

(* Undefined, null, Booleans, numbers and strings; objects and arrays that *)
(* JSON can tell; others.                                                  *)
Kinds == {"primitive", "plain", "opaque"}

(* Those that stay in their box; functions are known as such only if they  *)
(* come from create_promise().                                             *)
Handled == {"opaque", "function"}

NullValue   == "null value"
NullContext == "null context"
Nulls       == {NullValue, NullContext}

ValuesTypeOK ==
    /\ context \in {"alive", "poisoned", "destroyed", "crashed"}
    /\ natives \in BOOLEAN
    /\ box \in [Boxes -> Kinds \union {"function", "unused", "freed"}]
    /\ clones \in [Boxes -> Nat]
    /\ passed \subseteq Boxes \union Nulls

(* JscContext::new().                                                      *)
ValuesInit ==
    /\ context = "alive" /\ natives = FALSE
    /\ box = [b \in Boxes |-> "unused"]
    /\ clones = [b \in Boxes |-> 0]
    /\ passed = {}

Unused == {b \in Boxes : box[b] = "unused"}
Held   == {b \in Boxes : clones[b] > 0}
Functions == {b \in Held : box[b] = "function"}

-----------------------------------------------------------------------------
(* The bridge.                                                             *)
MakeBuaValue(b, kind) == b \in Unused /\ box' = [box EXCEPT ![b] = kind]

(* An exception is copied and leaves no box behind.                        *)
MakeException == UNCHANGED <<box, clones>>

BuaValueFree(b) == box' = [box EXCEPT ![b] = "freed"]

(* A call of the bridge with these pointers.                               *)
Call(ptrs) ==
    /\ passed' = ptrs
    /\ context' = IF ptrs \intersect Nulls # {} THEN "crashed" ELSE context
    /\ UNCHANGED natives

-----------------------------------------------------------------------------
(* check_not_poisoned(): all but value_to_json() and register_native().    *)
NotPoisoned == context = "alive"
Alive       == context \in {"alive", "poisoned"}

Poison ==
    /\ NotPoisoned
    /\ context' = "poisoned" /\ passed' = {}
    /\ UNCHANGED <<natives, box, clones>>

(* wrap_jsc_value(): only a value that is kept in its box has a handle; a  *)
(* box whose value was copied is left.                                     *)
Handle(b, kind) ==
    clones' = IF kind = "opaque" THEN [clones EXCEPT ![b] = 1] ELSE clones

Wrap(b, kind) == MakeBuaValue(b, kind) /\ Handle(b, kind)

Eval ==
    /\ NotPoisoned /\ Call({})
    /\ \/ MakeException
       \/ \E b \in Boxes, kind \in Kinds : Wrap(b, kind)

EvalModule == Eval                   \* bua_eval_module() is bua_eval()

JsonToValue ==
    /\ NotPoisoned /\ Call({})
    /\ \/ MakeException
       \/ \E b \in Boxes, kind \in {"primitive", "plain"} : Wrap(b, kind)

(* raw_ptr(): the box of a handle, or the null of a stub.                  *)
Passable == Held \union {NullValue}

(* value_to_json() of something that is not a primitive.                   *)
ValueToJson ==
    /\ Alive
    /\ \E p \in Passable : Call({p})
    /\ UNCHANGED <<box, clones>>

(* create_promise(): three boxes; the object's handle is cloned for the    *)
(* value that JavaScript sees.                                             *)
BuaMakePromise(resolve, reject, promise) ==
    /\ {resolve, reject, promise} \subseteq Unused
    /\ resolve # reject /\ resolve # promise /\ reject # promise
    /\ box' = [box EXCEPT ![resolve] = "function", ![reject] = "function",
                          ![promise] = "opaque"]

CreatePromise ==
    /\ NotPoisoned /\ Call({})
    /\ \/ MakeException
       \/ \E resolve, reject, promise \in Boxes :
            /\ BuaMakePromise(resolve, reject, promise)
            /\ clones' = [clones EXCEPT ![resolve] = 1, ![reject] = 1,
                                        ![promise] = 2]

(* to_jsc_arg(): a primitive has a box of its own, which is left.          *)
CallWithPrimitive ==
    /\ NotPoisoned
    /\ \E func \in Functions, arg \in Unused :
         /\ Call({func, arg})
         /\ \/ box' = [box EXCEPT ![arg] = "primitive"] /\ UNCHANGED clones
            \/ \E b \in Unused \ {arg}, kind \in Kinds :
                 /\ box' = [box EXCEPT ![arg] = "primitive", ![b] = kind]
                 /\ Handle(b, kind)

CallWithHandle ==
    /\ NotPoisoned
    /\ \E func \in Functions, arg \in Passable :
         /\ Call({func, arg})
         /\ \/ MakeException
            \/ arg # NullValue /\ \E b \in Boxes, kind \in Kinds : Wrap(b, kind)

(* call_function(): resolve_promise() and reject_promise(), which passes a *)
(* string, go through it.                                                  *)
CallFunction == CallWithPrimitive \/ CallWithHandle

-----------------------------------------------------------------------------
(* bua_set_native().                                                       *)
RegisterNative ==
    /\ Alive /\ ~natives
    /\ natives' = TRUE /\ passed' = {}
    /\ UNCHANGED <<context, box, clones>>

(* native_callback(): boxes for the arguments, until the call has ended,   *)
(* and no context.                                                         *)
CallbackContext == NullContext

(* native_trampoline(): the arguments are wrapped, and the result is made, *)
(* in the context it is given.                                             *)
CallNative ==
    /\ NotPoisoned /\ natives
    /\ Call({CallbackContext})
    /\ UNCHANGED <<box, clones>>

-----------------------------------------------------------------------------
(* A handle is cloned or dropped, on any thread.                           *)
Clone(b) ==
    /\ context # "crashed"
    /\ clones[b] > 0 /\ clones[b] < MaxClones
    /\ clones' = [clones EXCEPT ![b] = @ + 1]
    /\ passed' = {}
    /\ UNCHANGED <<context, natives, box>>

AnyClone(b)  == TRUE                 \* faulty: each clone frees the box
LastClone(b) == clones[b] = 1

Drop(b) ==
    /\ context # "crashed"
    /\ clones[b] > 0
    /\ clones' = [clones EXCEPT ![b] = @ - 1]
    /\ IF LastClone(b)
       THEN BuaValueFree(b) /\ passed' = {b}
       ELSE UNCHANGED box /\ passed' = {}
    /\ UNCHANGED <<context, natives>>

(* The JS thread ends and drops its JscContext.                            *)
Destroy ==
    /\ Alive
    /\ context' = "destroyed"
    /\ passed' = {}
    /\ UNCHANGED <<natives, box, clones>>

ValuesNext ==
    \/ EvalModule \/ JsonToValue \/ ValueToJson \/ CreatePromise
    \/ CallFunction \/ RegisterNative \/ CallNative \/ Poison \/ Destroy
    \/ \E b \in Boxes : Clone(b) \/ Drop(b)

ValuesSpec == ValuesInit /\ [][ValuesNext]_valueVars

-----------------------------------------------------------------------------
(* A value that was not copied is protected exactly as long as there is a  *)
(* clone of its handle: no handle outlives its box, and no function or     *)
(* object is kept for good once Rust has dropped it.                       *)
HandlesOwnBoxes == \A b \in Boxes : box[b] \in Handled <=> clones[b] > 0

(* A native function needs no context of the bridge's: the bridge gives it *)
(* none, and is never called without one.                                  *)
ContextNotNeeded == NullContext \notin passed

=============================================================================
