---------------------------- MODULE OpsHandlerText ----------------------------
(***************************************************************************)
(* What the declarations and expressions that OpsHandler hands out         *)
(* compute, and the properties that are about it.                          *)
(***************************************************************************)
EXTENDS OpsHandler

CONSTANTS
    Numbers,      \* the values of expressions
    Fault         \* the value of an access out of bounds

ASSUME ArithmeticAssumption ==
    /\ Points \cup Sizes \cup {0, Other.tag} \subseteq Numbers /\ Fault \notin Numbers
    /\ \A tag \in DOMAIN BufferType \cup CastTypes \cup {0}, a \in Numbers :
          Mix(tag, <<a>>) \in Numbers
    /\ \A tag \in {0, Less, Plus}, a, b \in Numbers : Mix(tag, <<a, b>>) \in Numbers

-----------------------------------------------------------------------------
(* What the text of x gives at p, where its operands give args and the     *)
(* variables declared so far are worth env: a select only takes one        *)
(* branch, and a load faults where its address is out of bounds.           *)
Gives(x, args, p, env) ==
    CASE IsVariable(x)   -> IF <<x.op, x.tag>> \in DOMAIN env THEN env[<<x.op, x.tag>>] ELSE Fault
      [] x.op = "index"  -> p
      [] x.op = "number" -> x.tag
      [] x.op = "select" -> IF args[1] = Fault THEN Fault
                            ELSE IF Truth(args[1]) THEN args[2] ELSE args[3]
      [] OTHER ->
            IF (x.op = "load" /\ p \notin x.legal) \/ \E i \in DOMAIN args : args[i] = Fault
            THEN Fault ELSE Mix(x.tag, args)

Value(e, p, env) ==
    LET value[x \in {e} \cup e.parts] ==
          Gives(x, [i \in DOMAIN x.args |-> value[x.args[i]]], p, env)
    IN value[e]

(* A declaration runs at every point. *)
Declare(env, d, p) ==
    [name \in DOMAIN env \cup {d.name} |->
        IF name = d.name THEN Value(d.init, p, env) ELSE env[name]]

(* What the variables are worth at p after the declarations ds. *)
After(ds, p) ==
    LET env[n \in 0..Len(ds)] ==
          IF n = 0 THEN <<>> ELSE LET before == env[n - 1] IN Declare(before, ds[n], p)
    IN env[Len(ds)]

-----------------------------------------------------------------------------
(* Properties.                                                             *)

(* ValuesKept: whatever inner_fn holds, the text it was handed for it      *)
(* evaluates, after the declarations made so far, to what inner_fn means   *)
(* by it, at every point where the code now replayed is meant to run.      *)
ValuesKept ==
    \A p \in within :
        LET env == After(bindings, p)
        IN \A v \in held \cup symbols : Value(v.e, p, env) = v.mean[p]

(* LoadsStayMasked: a declaration that runs into an access out of bounds,  *)
(* one that only a mask allows, is that of an indirect index: masked       *)
(* never hoists any other load of its body.                                *)
LoadsStayMasked ==
    \A p \in Points :
        LET env == After(bindings, p)
        IN \A i \in DOMAIN bindings :
              env[bindings[i].name] = Fault => bindings[i].name[1] = "indirect"

=============================================================================
