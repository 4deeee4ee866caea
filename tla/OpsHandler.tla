----------------------------- MODULE OpsHandler -----------------------------
(***************************************************************************)
(* Replaying one inner_fn against _LogicalOpsHandler (loop_ir.py).         *)
(*                                                                         *)
(* Inductor's inner_fn calls one handler method per operation.  With       *)
(* use_temporaries a method appends a declaration to bindings and hands    *)
(* back the temporary; without, it hands back the expression itself.       *)
(* masked switches temporaries off while it replays its body, so that the  *)
(* body's loads end up inside the select that guards them; but             *)
(* indirect_indexing always appends a declaration.                         *)
(*                                                                         *)
(* The calls are the environment, one action per method.  Next to what the *)
(* handler hands back, a value carries what inner_fn means by it at every  *)
(* point of the iteration space (mean), and its type (type).               *)
(***************************************************************************)
EXTENDS Naturals, Sequences, FiniteSets, SequencesExt

CONSTANTS
    Points,       \* points of the iteration space, natural numbers
    BufferType,   \* buffer -> its type; types are ranked by promotion
    OtherTypes,   \* types of the number that masked takes as other
    CastTypes,    \* types that inner_fn names
    DefaultType,  \* type of an index that has none
    Sizes,        \* sizes of indirectly indexed dimensions
    Mix(_, _),    \* what an operation, with a tag, gives for its operands
    Less, Plus,   \* the tags of lt and add
    Ids,          \* ids of expression objects, natural numbers
    None,         \* no type
    MaxOf,        \* bound: calls of each kind, a record
    MaxSteps      \* bound: calls in all

(* Types are numbers, in the order of promotion; None is none of them. *)
Types == {BufferType[b] : b \in DOMAIN BufferType} \cup OtherTypes \cup CastTypes
            \cup {DefaultType}

ASSUME TypesAssumption == Types \subseteq Nat /\ None \notin Types

VARIABLES
    temporaries,  \* use_temporaries
    bindings,     \* declarations, in order
    dtypes,       \* _expression_dtypes
    frames,       \* masked calls in progress, outermost first
    held,         \* values that inner_fn can still use
    symbols,      \* indirect index variables it can still use
    ranges,       \* var_ranges, of the indirect index variables
    within,       \* points at which the code now replayed is meant to run
    count         \* _temporary_count, _indirect_var_count, and calls so far

vars == <<temporaries, bindings, dtypes, frames, held, symbols, ranges, within, count>>

-----------------------------------------------------------------------------
(* Expressions, with all the expressions they are built of (parts) and how *)
(* deep these are nested (height).  Numbers are truth values by parity.    *)

Truth(v) == v % 2 = 1

Expr(op, tag, id, args, legal) ==
    [op |-> op, tag |-> tag, id |-> id, args |-> args, legal |-> legal,
     parts |-> UNION {{args[i]} \cup args[i].parts : i \in DOMAIN args},
     height |-> IF args = <<>> THEN 0 ELSE 1 + Max({args[i].height : i \in DOMAIN args})]
Variable(name) == Expr(name[1], name[2], 0, <<>>, {})
IsVariable(e) == e.op \in {"tmp", "indirect"}
LoopIndex(id) == Expr("index", 0, id, <<>>, {})
Number(n) == Expr("number", n, 0, <<>>, {})
Other == Number(4)
Select(id, c, a, b) == Expr("select", 0, id, <<c, a, b>>, {})

(* The ids of the objects that an expression keeps alive. *)
Objects(e) == {x.id : x \in {e} \cup e.parts}

(* Objects that are still referenced; the ids of all others are free. *)
Live == (UNION {Objects(v.e) : v \in held})
        \cup (UNION {Objects(bindings[i].init) : i \in DOMAIN bindings})
        \cup (UNION {Objects(frames[i].mask.e) \cup (UNION {Objects(v.e) : v \in frames[i].held}) :
                      i \in DOMAIN frames})

(* A new object: an id that was never used, or that of a dead one. *)
NewIds ==
    LET used == DOMAIN dtypes
    IN (used \ Live) \cup
       {id \in Ids \ used : \A other \in Ids \ used : id <= other}

-----------------------------------------------------------------------------
(* Types.                                                                  *)

\* mutant: keeps the type of the object that had the id before
RecordDtypeOnce(id, t) ==
    [i \in DOMAIN dtypes \cup {id} |-> IF i \in DOMAIN dtypes THEN dtypes[i] ELSE t]

(* _record_dtype *)
RecordDtype(id, t) ==
    [i \in DOMAIN dtypes \cup {id} |-> IF i = id THEN t ELSE dtypes[i]]

(* _dtype_of: a variable knows its type; other expressions by their id; a  *)
(* sympy index expression has none.                                        *)
DtypeOf(e) ==
    CASE IsVariable(e) ->
            LET at == {i \in DOMAIN bindings : bindings[i].name = <<e.op, e.tag>>}
            IN IF at = {} THEN None ELSE bindings[CHOOSE i \in at : TRUE].type
      [] e.op = "index" -> None
      [] OTHER -> dtypes[e.id]

\* mutant: an operand without a type leaves the result without one
PromoteAll(types) == IF None \in types THEN None
                     ELSE CHOOSE t \in types : \A u \in types : u <= t

(* _promote_args; operands without a type are left out. *)
Promote(types) ==
    LET known == types \ {None}
    IN IF known = {} THEN None ELSE CHOOSE t \in known : \A u \in known : u <= t

-----------------------------------------------------------------------------
(* Handler methods.                                                        *)

(* The bounds: calls of one kind, and of all kinds. *)
Allowed(kind) ==
    /\ count[kind] < MaxOf[kind]
    /\ FoldFunctionOnSet(+, 0, count, DOMAIN MaxOf) < MaxSteps

(* _bind: hand back e of type t, or a temporary that holds it, among the   *)
(* values that stay in use. *)
Bind(e, t, mean, type, flag, base) ==
    LET name == <<"tmp", count.tmp>>
        Value(x) == [e |-> x, mean |-> mean, type |-> type]
    IN /\ dtypes' = RecordDtype(e.id, t)
       /\ bindings' = IF flag THEN Append(bindings, [name |-> name, init |-> e, type |-> t])
                      ELSE bindings
       /\ held' = base \cup {Value(IF flag THEN Variable(name) ELSE e)}

Counted(kind) ==
    count' = [count EXCEPT ![kind] = @ + 1, !.tmp = @ + IF temporaries THEN 1 ELSE 0]

(* A method that only binds an expression. *)
Method(kind, e, t, mean, type) ==
    /\ Bind(e, t, mean, type, temporaries, held)
    /\ Counted(kind)
    /\ UNCHANGED <<temporaries, frames, symbols, ranges, within>>

Index == [e |-> LoopIndex(0), mean |-> [p \in Points |-> p], type |-> None]

(* load: inner_fn only asks for addresses that are in bounds wherever its  *)
(* code is meant to run.                                                   *)
Load == \E b \in DOMAIN BufferType, at \in symbols \cup {Index}, id \in NewIds :
    /\ Allowed("load")
    /\ Method("load", Expr("load", b, id, <<at.e>>, within), BufferType[b],
              [p \in within |-> Mix(b, <<at.mean[p]>>)], BufferType[b])

(* _default and where: the result has the type of its operands, for where  *)
(* of the last two.                                                        *)
Call == \E a, b \in held, id \in NewIds :
    /\ Allowed("call")
    /\ Method("call", Expr("call", 0, id, <<a.e, b.e>>, {}),
              Promote({DtypeOf(a.e), DtypeOf(b.e)}),
              [p \in within |-> Mix(0, <<a.mean[p], b.mean[p]>>)],
              Promote({a.type, b.type}))

Where == \E c, a, b \in held, id \in NewIds :
    /\ Allowed("call")
    /\ Method("call", Select(id, c.e, a.e, b.e),
              Promote({DtypeOf(a.e), DtypeOf(b.e)}),
              [p \in within |-> IF Truth(c.mean[p]) THEN a.mean[p] ELSE b.mean[p]],
              Promote({a.type, b.type}))

(* to_dtype, value_expr: a cast of a value, or of an index. *)
Cast == \E a \in held \cup {Index}, t \in CastTypes, id \in NewIds :
    /\ Allowed("call")
    /\ Method("call", Expr("call", t, id, <<a.e>>, {}), t,
              [p \in within |-> Mix(t, <<a.mean[p]>>)], t)

(* index_expr: without temporaries, hands back the sympy expression. *)
IndexExpr == \E t \in CastTypes, id \in NewIds :
    /\ Allowed("call")
    /\ Method("call", LoopIndex(id), t, Index.mean, IF temporaries THEN t ELSE None)

(* masked, up to the call of body: it runs where the mask holds. *)
BeginMasked == \E mask \in held :
    /\ Allowed("masked")
    /\ frames' = Append(frames, [mask |-> mask, saved |-> temporaries, held |-> held,
                                 symbols |-> symbols, within |-> within])
    /\ temporaries' = FALSE
    /\ within' = {p \in within : Truth(mask.mean[p])}
    /\ count' = [count EXCEPT !.masked = @ + 1]
    /\ UNCHANGED <<bindings, dtypes, held, symbols, ranges>>

\* mutant: the end of a mask switches temporaries on
RestoredOn(frame) == TRUE

(* The finally clause. *)
Restored(frame) == frame.saved

(* masked, once body has returned value; nothing else of body is in use. *)
EndMasked == \E value \in held, type \in OtherTypes, id \in NewIds :
    LET frame == Last(frames)
        flag  == Restored(frame)
    IN /\ frames # <<>>
       /\ temporaries' = flag
       /\ Bind(Select(id, frame.mask.e, value.e, Other), Promote({DtypeOf(value.e), type}),
               [p \in frame.within |-> IF p \in within THEN value.mean[p] ELSE Other.tag],
               Promote({value.type, type}), flag, frame.held)
       /\ frames' = Front(frames)
       /\ within' = frame.within
       /\ symbols' = frame.symbols
       /\ count' = [count EXCEPT !.tmp = @ + IF flag THEN 1 ELSE 0]
       /\ UNCHANGED ranges

\* mutant: declares an index variable only where temporaries are wanted
DeclaredIfTemporaries(d) == IF temporaries THEN Append(bindings, d) ELSE bindings

(* indirect_indexing declares its variable with temporaries off, too. *)
Declared(d) == Append(bindings, d)

(* wrap_neg: a negative index counts from the end.  The objects of the     *)
(* expression have no recorded type, and none is asked for: they are given *)
(* no id of their own. *)
WrapNegative(e, size) ==
    Select(0, Expr("call", Less, 0, <<e, Number(0)>>, {}),
              Expr("call", Plus, 0, <<e, Number(size)>>, {}), e)
Wrapped(v, size) ==
    IF Truth(Mix(Less, <<v, 0>>)) THEN Mix(Plus, <<v, size>>) ELSE v

IndirectIndexing == \E index \in held, size \in Sizes, wrap_neg \in BOOLEAN :
    LET name == <<"indirect", count.indirect>>
        t    == IF DtypeOf(index.e) = None THEN DefaultType ELSE DtypeOf(index.e)
        init == IF wrap_neg THEN WrapNegative(index.e, size) ELSE index.e
        mean == [p \in within |-> IF wrap_neg THEN Wrapped(index.mean[p], size)
                                  ELSE index.mean[p]]
    IN /\ Allowed("indirect")
       /\ bindings' = Declared([name |-> name, init |-> init, type |-> t])
       /\ symbols' = symbols \cup {[e |-> Variable(name), mean |-> mean,
                                    type |-> IF index.type = None THEN DefaultType ELSE index.type]}
       /\ ranges' = [n \in DOMAIN ranges \cup {name} |-> IF n = name THEN size ELSE ranges[n]]
       /\ count' = [count EXCEPT !.indirect = @ + 1]
       /\ UNCHANGED <<temporaries, dtypes, frames, held, within>>

(* inner_fn drops a value; its expression may be collected. *)
Forget == \E v \in held :
    /\ Allowed("forget")
    /\ held # {v}
    /\ held' = held \ {v}
    /\ count' = [count EXCEPT !.forget = @ + 1]
    /\ UNCHANGED <<temporaries, bindings, dtypes, frames, symbols, ranges, within>>

(* inner_fn returns. *)
Return == frames = <<>> /\ UNCHANGED vars

Init ==
    /\ temporaries \in BOOLEAN
    /\ bindings = <<>> /\ frames = <<>> /\ dtypes = <<>> /\ ranges = <<>>
    /\ held = {} /\ symbols = {} /\ within = Points
    /\ count = [tmp |-> 0, indirect |-> 0, load |-> 0, call |-> 0, masked |-> 0,
              forget |-> 0]

Next ==
    \/ Load \/ Call \/ Where \/ Cast \/ IndexExpr
    \/ BeginMasked \/ EndMasked \/ IndirectIndexing
    \/ Forget \/ Return

Spec == Init /\ [][Next]_vars

-----------------------------------------------------------------------------
(* Properties.                                                             *)

(* TypesKept: a value's type is the one its operands gave it, although     *)
(* types are kept under ids that collected expressions leave to others.    *)
TypesKept ==
    \A v \in held \cup symbols : DtypeOf(v.e) = v.type

(* DeclarationsTyped: no temporary is declared without a type, where _bind *)
(* would raise: an index that index_expr hands back as it is, which has    *)
(* none, is gone when temporaries are on again.                            *)
DeclarationsTyped ==
    \A i \in DOMAIN bindings : bindings[i].type # None

=============================================================================
