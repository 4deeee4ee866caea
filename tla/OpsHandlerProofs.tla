-------------------------- MODULE OpsHandlerProofs --------------------------
(***************************************************************************)
(* Proofs about OpsHandler and OpsHandlerText: values keep their types,    *)
(* what inner_fn is handed computes what it means, and only declarations   *)
(* of index variables fault.                                               *)
(*                                                                         *)
(* The values of a text are a recursive function of the expressions it is  *)
(* built of.  That there is one such function, and only one, is shown by   *)
(* induction on the height of expressions.                                 *)
(***************************************************************************)
EXTENDS OpsHandlerText, WellFoundedInduction, SequenceTheorems, TLAPS

-----------------------------------------------------------------------------
(* Induction. *)

(* A set of natural numbers has a least element. *)
LEMMA LeastNumber ==
    ASSUME NEW T \in SUBSET Nat, T # {}
    PROVE  \E m \in T : \A k \in T : ~(k < m)
  <1>1. \E m \in T : \A k \in T : ~ (<<k, m>> \in OpToRel(<, Nat))
    BY NatLessThanWellFounded, WFMin, Zenon
  <1>2. \A x, y \in Nat : x < y => <<x, y>> \in OpToRel(<, Nat)
    BY Zenon DEF OpToRel
  <1> QED
    BY <1>1, <1>2, Zenon

(* Sequences with the same indices are equally long. *)
LEMMA SameLength ==
    ASSUME NEW k \in Nat, NEW n \in Nat, 1..k = 1..n
    PROVE  k = n
  <1>1. (k # 0 => k \in 1..n) /\ (n # 0 => n \in 1..k)
    OBVIOUS
  <1> QED
    BY <1>1

-----------------------------------------------------------------------------
(* Types: the inductive invariant. *)

Listed(s) == s \in Seq({s[i] : i \in DOMAIN s})

Counts == [tmp : Nat, indirect : Nat, load : Nat, call : Nat, masked : Nat, forget : Nat]

(* A local is declared once, under a number that was counted. *)
NamesCounted ==
    /\ \A i, j \in DOMAIN bindings : i # j => bindings[i].name # bindings[j].name
    /\ \A i \in DOMAIN bindings :
          \/ \E n \in 0..(count.tmp - 1) : bindings[i].name = <<"tmp", n>>
          \/ \E n \in 0..(count.indirect - 1) : bindings[i].name = <<"indirect", n>>

(* A value has the type that its declaration or the id of its object has,  *)
(* in the declarations bs and the types ds; a bare index has none.         *)
DeclaredAs(v, bs) ==
    /\ IsVariable(v.e)
    /\ \E i \in DOMAIN bs : bs[i].name = <<v.e.op, v.e.tag>> /\ bs[i].type = v.type

RecordedAs(v, ds) ==
    /\ ~IsVariable(v.e) /\ v.e.op # "index"
    /\ v.e.id \in DOMAIN ds /\ ds[v.e.id] = v.type

Known(v, bs, ds) ==
    /\ v.type \in Types \cup {None}
    /\ \/ DeclaredAs(v, bs)
       \/ RecordedAs(v, ds)
       \/ v.e.op = "index" /\ v.type = None

(* The values and the index variables that inner_fn, or the caller of a    *)
(* body it replays, can still use.                                         *)
Values == held \cup UNION {{frames[i].mask} \cup frames[i].held : i \in DOMAIN frames}
Variables == symbols \cup UNION {frames[i].symbols : i \in DOMAIN frames}

ValuesKnown ==
    /\ \A v \in Values : Known(v, bindings, dtypes)
    /\ \A v \in Variables : IsVariable(v.e) /\ Known(v, bindings, dtypes)

(* Where temporaries are on, or will be again, no value lacks a type. *)
TypedForTemporaries ==
    /\ temporaries => \A v \in held : v.type # None
    /\ \A i \in DOMAIN frames : frames[i].saved => \A v \in frames[i].held : v.type # None

HandlerInv ==
    /\ temporaries \in BOOLEAN /\ \A i \in DOMAIN frames : frames[i].saved \in BOOLEAN
    /\ count \in Counts /\ Listed(bindings) /\ Listed(frames)
    /\ NamesCounted
    /\ DeclarationsTyped
    /\ ValuesKnown
    /\ TypedForTemporaries

-----------------------------------------------------------------------------
(* Sequences. *)

(* Appending keeps what a list holds, and adds one. *)
LEMMA AppendListed ==
    ASSUME NEW s, NEW x, Listed(s)
    PROVE  /\ Listed(Append(s, x))
           /\ Len(s) \in Nat /\ DOMAIN s = 1..Len(s)
           /\ DOMAIN Append(s, x) = 1..(Len(s) + 1)
           /\ \A i \in DOMAIN s : Append(s, x)[i] = s[i]
           /\ Append(s, x)[Len(s) + 1] = x
  <1> DEFINE R == {s[i] : i \in DOMAIN s} \cup {x}
  <1>1. s \in Seq(R)
    <2>1. s \in Seq({s[i] : i \in DOMAIN s})
      BY DEF Listed
    <2>2. Len(s) \in Nat /\ DOMAIN s = 1..Len(s)
      BY <2>1, LenProperties
    <2>3. \A i \in 1..Len(s) : s[i] \in R
      BY <2>2
    <2>4. s = [i \in 1..Len(s) |-> s[i]]
      BY <2>1, LenProperties
    <2> HIDE DEF R
    <2> QED
      BY <2>2, <2>3, <2>4, IsASeq
  <1>2. x \in R
    OBVIOUS
  <1>3. \A y \in R : y = x \/ \E i \in DOMAIN s : y = s[i]
    OBVIOUS
  <1> HIDE DEF R
  <1>4. /\ Append(s, x) \in Seq(R)
        /\ Len(s) \in Nat /\ DOMAIN s = 1..Len(s)
        /\ DOMAIN Append(s, x) = 1..(Len(s) + 1)
        /\ Len(Append(s, x)) = Len(s) + 1
        /\ \A i \in DOMAIN s : Append(s, x)[i] = s[i]
        /\ Append(s, x)[Len(s) + 1] = x
    BY <1>1, <1>2
  <1> DEFINE t == Append(s, x)
             T == {t[i] : i \in DOMAIN t}
  <1>5. t \in Seq(R) /\ DOMAIN t = 1..(Len(s) + 1) /\ Len(t) = Len(s) + 1
    BY <1>4
  <1> HIDE DEF t
  <1>6. t \in Seq(T)
    <2>1. Len(t) \in Nat /\ DOMAIN t = 1..Len(t) /\ t = [i \in 1..Len(t) |-> t[i]]
      BY <1>5, LenProperties
    <2>2. \A i \in 1..Len(t) : t[i] \in T
      BY <2>1
    <2> HIDE DEF T
    <2> QED
      BY <2>1, <2>2, IsASeq
  <1> QED
    BY <1>4, <1>6 DEF t, Listed

(* Front drops the last element. *)
LEMMA FrontListed ==
    ASSUME NEW s, Listed(s), s # <<>>
    PROVE  /\ Listed(Front(s))
           /\ Len(s) \in DOMAIN s
           /\ \A i \in DOMAIN Front(s) : i \in DOMAIN s /\ Front(s)[i] = s[i]
  <1>1. s \in Seq({s[i] : i \in DOMAIN s})
    BY DEF Listed
  <1>2. Len(s) \in Nat \ {0} /\ DOMAIN s = 1..Len(s)
    BY <1>1, LenProperties, EmptySeq
  <1>3. Front(s) = [i \in 1..(Len(s) - 1) |-> s[i]]
    BY <1>1, <1>2 DEF Front
  <1> DEFINE t == Front(s)
             T == {t[i] : i \in DOMAIN t}
             n == Len(s) - 1
  <1>4. n \in Nat /\ t = [i \in 1..n |-> s[i]]
    BY <1>2, <1>3
  <1> HIDE DEF t, n
  <1>5. DOMAIN t = 1..n /\ \A i \in 1..n : t[i] = s[i]
    BY <1>4
  <1>6. \A i \in 1..n : t[i] \in T
    BY <1>5
  <1>7. t = [i \in 1..n |-> t[i]]
    BY <1>4, <1>5
  <1> HIDE DEF T
  <1>8. t \in Seq(T)
    BY <1>4, <1>6, <1>7, IsASeq
  <1> QED
    BY <1>2, <1>5, <1>8 DEF t, T, n, Listed

-----------------------------------------------------------------------------
(* Values. *)

(* A value stays known when declarations are only added, and no type of an *)
(* object it refers to changes.                                            *)
LEMMA KnownPersists ==
    ASSUME NEW v, NEW bs, NEW ds, NEW bs2, NEW ds2, Known(v, bs, ds),
           \A i \in DOMAIN bs : i \in DOMAIN bs2 /\ bs2[i] = bs[i],
           \A id \in DOMAIN ds \cap Objects(v.e) : id \in DOMAIN ds2 /\ ds2[id] = ds[id]
    PROVE  Known(v, bs2, ds2)
  <1>1. CASE DeclaredAs(v, bs)
    BY <1>1 DEF Known, DeclaredAs
  <1>2. CASE RecordedAs(v, ds)
    BY <1>2 DEF Known, RecordedAs, Objects
  <1>3. CASE v.e.op = "index" /\ v.type = None
    BY <1>3 DEF Known
  <1> QED
    BY <1>1, <1>2, <1>3 DEF Known

(* The type that is looked up for a known value is its own. *)
LEMMA DtypeOfKnown ==
    ASSUME HandlerInv, NEW v, Known(v, bindings, dtypes)
    PROVE  DtypeOf(v.e) = v.type
  <1> DEFINE at == {i \in DOMAIN bindings : bindings[i].name = <<v.e.op, v.e.tag>>}
  <1>1. CASE DeclaredAs(v, bindings)
    <2>1. PICK i \in at : bindings[i].type = v.type
      BY <1>1 DEF DeclaredAs
    <2>2. \A j \in at : j = i
      BY <2>1 DEF HandlerInv, NamesCounted
    <2>3. at # {} /\ (CHOOSE j \in at : TRUE) = i
      BY <2>1, <2>2
    <2>4. DtypeOf(v.e) = bindings[CHOOSE j \in at : TRUE].type
      BY <1>1, <2>3 DEF DtypeOf, DeclaredAs, IsVariable
    <2> QED
      BY <2>1, <2>3, <2>4
  <1>2. CASE RecordedAs(v, dtypes)
    BY <1>2 DEF RecordedAs, DtypeOf
  <1>3. CASE v.e.op = "index" /\ v.type = None
    BY <1>3 DEF DtypeOf, IsVariable
  <1> QED
    BY <1>1, <1>2, <1>3 DEF Known

(* The id of a new object is none that a value in use refers to. *)
LEMMA NewIdFree ==
    ASSUME NEW id \in NewIds, NEW v \in Values
    PROVE  \A i \in DOMAIN dtypes \cap Objects(v.e) : i # id
  <1>1. Objects(v.e) \subseteq Live
    <2>1. CASE v \in held
      BY <2>1 DEF Live
    <2>2. ASSUME NEW i \in DOMAIN frames, v = frames[i].mask \/ v \in frames[i].held
          PROVE  Objects(v.e) \subseteq Live
      <3> DEFINE K(n) == Objects(frames[n].mask.e)
                            \cup UNION {Objects(w.e) : w \in frames[n].held}
      <3>1. Objects(v.e) \subseteq K(i)
        BY <2>2
      <3>2. UNION {K(n) : n \in DOMAIN frames} \subseteq Live
        BY DEF Live
      <3> HIDE DEF K
      <3>3. K(i) \subseteq UNION {K(n) : n \in DOMAIN frames}
        BY <2>2
      <3> QED
        BY <3>1, <3>2, <3>3
    <2> QED
      BY <2>1, <2>2 DEF Values
  <1> QED
    BY <1>1 DEF NewIds

(* A type among two is one of them, unless neither has one. *)
LEMMA PromoteTwo ==
    ASSUME NEW t \in Types \cup {None}, NEW u \in Types \cup {None}
    PROVE  /\ Promote({t, u}) \in Types \cup {None}
           /\ t # None \/ u # None => Promote({t, u}) # None
  <1> DEFINE known == {t, u} \ {None}
  <1>1. CASE known = {}
    BY <1>1 DEF Promote
  <1>2. CASE known # {}
    <2>1. known \subseteq Nat
      BY TypesAssumption
    <2>2. \E m \in known : \A n \in known : n <= m
      BY <1>2, <2>1
    <2>3. (CHOOSE m \in known : \A n \in known : n <= m) \in known
      BY <2>2
    <2> QED
      BY <1>2, <2>3 DEF Promote
  <1> QED
    BY <1>1, <1>2

-----------------------------------------------------------------------------
(* Declarations and _bind. *)

(* A declaration under a new number, with a type, leaves what is known as  *)
(* it was.                                                                 *)
LEMMA DeclarePreserves ==
    ASSUME HandlerInv, NEW name, NEW e, NEW t, t # None,
           bindings' = Append(bindings, [name |-> name, init |-> e, type |-> t]),
           count' \in Counts, count.tmp <= count'.tmp, count.indirect <= count'.indirect,
           \/ name = <<"tmp", count.tmp>> /\ count.tmp < count'.tmp
           \/ name = <<"indirect", count.indirect>> /\ count.indirect < count'.indirect
    PROVE  /\ Listed(bindings') /\ NamesCounted' /\ DeclarationsTyped'
           /\ \A i \in DOMAIN bindings : i \in DOMAIN bindings' /\ bindings'[i] = bindings[i]
           /\ \E i \in DOMAIN bindings' : bindings'[i].name = name /\ bindings'[i].type = t
  <1> DEFINE d == [name |-> name, init |-> e, type |-> t]
             n == Len(bindings) + 1
  <1>1. d.name = name /\ d.type = t
    OBVIOUS
  <1> HIDE DEF d
  <1>2. /\ Listed(bindings')
        /\ Len(bindings) \in Nat /\ DOMAIN bindings = 1..Len(bindings)
        /\ DOMAIN bindings' = 1..n
        /\ \A i \in DOMAIN bindings : bindings'[i] = bindings[i]
        /\ bindings'[n] = d
    BY AppendListed DEF HandlerInv, d
  <1>3. /\ n \in DOMAIN bindings'
        /\ \A i \in DOMAIN bindings : i \in DOMAIN bindings'
        /\ \A i \in DOMAIN bindings' : i \in DOMAIN bindings \/ i = n
    BY <1>2
  <1> HIDE DEF n
  <1>4. /\ count.tmp \in Nat /\ count'.tmp \in Nat
        /\ count.indirect \in Nat /\ count'.indirect \in Nat
    BY DEF HandlerInv, Counts
  <1>5. \A i \in DOMAIN bindings : bindings[i].name # name
    <2>1. \A i \in DOMAIN bindings : bindings[i].name # <<"tmp", count.tmp>>
      BY <1>4 DEF HandlerInv, NamesCounted
    <2>2. \A i \in DOMAIN bindings : bindings[i].name # <<"indirect", count.indirect>>
      BY <1>4 DEF HandlerInv, NamesCounted
    <2> QED
      BY <2>1, <2>2
  <1>6. \A i, j \in DOMAIN bindings' : i # j => bindings'[i].name # bindings'[j].name
    BY <1>1, <1>2, <1>3, <1>5 DEF HandlerInv, NamesCounted
  <1>7. \A i \in DOMAIN bindings' :
           \/ \E m \in 0..(count'.tmp - 1) : bindings'[i].name = <<"tmp", m>>
           \/ \E m \in 0..(count'.indirect - 1) : bindings'[i].name = <<"indirect", m>>
    <2>1. ASSUME NEW i \in DOMAIN bindings
          PROVE  \/ \E m \in 0..(count'.tmp - 1) : bindings[i].name = <<"tmp", m>>
                 \/ \E m \in 0..(count'.indirect - 1) : bindings[i].name = <<"indirect", m>>
      BY <1>4 DEF HandlerInv, NamesCounted
    <2>2. \/ \E m \in 0..(count'.tmp - 1) : d.name = <<"tmp", m>>
          \/ \E m \in 0..(count'.indirect - 1) : d.name = <<"indirect", m>>
      BY <1>1, <1>4
    <2> QED
      BY <1>2, <1>3, <2>1, <2>2
  <1>8. DeclarationsTyped'
    BY <1>1, <1>2, <1>3 DEF HandlerInv, DeclarationsTyped
  <1> QED
    BY <1>1, <1>2, <1>3, <1>6, <1>7, <1>8 DEF NamesCounted

(* _bind: what it hands back is known with the type that inner_fn means,   *)
(* and everything in use stays known.                                      *)
LEMMA BindPreserves ==
    ASSUME HandlerInv, NEW e, NEW t, NEW mean, NEW type \in Types \cup {None},
           NEW flag \in BOOLEAN, NEW base \in SUBSET Values,
           Bind(e, t, mean, type, flag, base),
           e.id \in NewIds, ~IsVariable(e),
           flag => t = type /\ t # None,
           ~flag => \/ e.op = "index" /\ type = None
                    \/ e.op # "index" /\ t = type,
           count' \in Counts, count'.tmp = count.tmp + (IF flag THEN 1 ELSE 0),
           count'.indirect = count.indirect
    PROVE  /\ Listed(bindings') /\ NamesCounted' /\ DeclarationsTyped'
           /\ \A v \in Values \cup Variables : Known(v, bindings', dtypes')
           /\ \A v \in held' : /\ Known(v, bindings', dtypes')
                               /\ v \in base \/ v.type = type
  <1> DEFINE name == <<"tmp", count.tmp>>
             new == [e |-> IF flag THEN Variable(name) ELSE e, mean |-> mean, type |-> type]
  <1>1. /\ dtypes' = RecordDtype(e.id, t)
        /\ bindings' = IF flag THEN Append(bindings, [name |-> name, init |-> e, type |-> t])
                       ELSE bindings
        /\ held' = base \cup {new}
    BY DEF Bind
  <1>2. new.type = type /\ new.e = IF flag THEN Variable(name) ELSE e
    OBVIOUS
  <1>3. name[1] = "tmp" /\ name[2] = count.tmp /\ name = <<name[1], name[2]>>
    OBVIOUS
  <1>4. count.tmp \in Nat /\ count.indirect \in Nat
    BY DEF HandlerInv, Counts
  <1> HIDE DEF new
  <1>5. /\ Listed(bindings') /\ NamesCounted' /\ DeclarationsTyped'
        /\ \A i \in DOMAIN bindings : i \in DOMAIN bindings' /\ bindings'[i] = bindings[i]
        /\ flag => \E i \in DOMAIN bindings' : bindings'[i].name = name /\ bindings'[i].type = t
    <2>1. CASE flag
      <3>1. /\ bindings' = Append(bindings, [name |-> name, init |-> e, type |-> t])
            /\ t # None /\ count.tmp <= count'.tmp /\ count.indirect <= count'.indirect
            /\ name = <<"tmp", count.tmp>> /\ count.tmp < count'.tmp
        BY <1>1, <1>4, <2>1
      <3> QED
        BY <3>1, DeclarePreserves
    <2>2. CASE ~flag
      <3>1. bindings' = bindings /\ count'.tmp = count.tmp
        BY <1>1, <1>4, <2>2
      <3> QED
        BY <2>2, <3>1 DEF HandlerInv, NamesCounted, DeclarationsTyped
    <2> QED
      BY <2>1, <2>2
  <1> HIDE DEF name
  <1>6. /\ e.id \in DOMAIN dtypes' /\ dtypes'[e.id] = t
        /\ \A i \in DOMAIN dtypes : i # e.id => i \in DOMAIN dtypes' /\ dtypes'[i] = dtypes[i]
    BY <1>1 DEF RecordDtype
  <1>7. ASSUME NEW v \in Values PROVE Known(v, bindings', dtypes')
    <2>1. \A i \in DOMAIN dtypes \cap Objects(v.e) : i # e.id
      BY NewIdFree
    <2>2. Known(v, bindings, dtypes)
      BY DEF HandlerInv, ValuesKnown
    <2> QED
      BY <1>5, <1>6, <2>1, <2>2, KnownPersists
  <1>8. ASSUME NEW v \in Variables PROVE Known(v, bindings', dtypes')
    <2>1. IsVariable(v.e) /\ Known(v, bindings, dtypes)
      BY DEF HandlerInv, ValuesKnown
    <2> QED
      BY <1>5, <2>1 DEF Known, DeclaredAs, RecordedAs, IsVariable
  <1>9. Known(new, bindings', dtypes')
    <2>1. CASE flag
      <3>1. /\ Variable(name).op = name[1] /\ Variable(name).tag = name[2]
            /\ IsVariable(Variable(name))
        BY <1>3 DEF Variable, Expr, IsVariable
      <3>2. DeclaredAs(new, bindings')
        BY <1>2, <1>3, <1>5, <2>1, <3>1 DEF DeclaredAs
      <3> QED
        BY <1>2, <3>2 DEF Known
    <2>2. CASE ~flag /\ e.op = "index" /\ type = None
      BY <1>2, <2>2 DEF Known
    <2>3. CASE ~flag /\ e.op # "index" /\ t = type
      BY <1>2, <1>6, <2>3 DEF Known, RecordedAs
    <2> QED
      BY <2>1, <2>2, <2>3
  <1> QED
    BY <1>1, <1>2, <1>5, <1>7, <1>8, <1>9

-----------------------------------------------------------------------------
(* Steps. *)

(* The handler starts with nothing in use.                                 *)
LEMMA InitInv == Init => HandlerInv
  <1> SUFFICES ASSUME Init PROVE HandlerInv
    OBVIOUS
  <1>1. /\ bindings = <<>> /\ frames = <<>> /\ held = {} /\ symbols = {}
        /\ temporaries \in BOOLEAN
    BY DEF Init
  <1>2. DOMAIN bindings = {} /\ DOMAIN frames = {}
    BY <1>1
  <1>3. Listed(bindings) /\ Listed(frames)
    BY <1>1, EmptySeq DEF Listed
  <1>4. count \in Counts
    BY DEF Init, Counts
  <1>5. Values = {} /\ Variables = {}
    BY <1>1, <1>2 DEF Values, Variables
  <1> QED
    BY <1>1, <1>2, <1>3, <1>4, <1>5
    DEF HandlerInv, NamesCounted, DeclarationsTyped, ValuesKnown, TypedForTemporaries

(* A method that only binds. *)
LEMMA MethodPreserves ==
    ASSUME HandlerInv, NEW kind \in {"load", "call"}, NEW e, NEW t, NEW mean,
           NEW type \in Types \cup {None},
           Method(kind, e, t, mean, type),
           e.id \in NewIds, ~IsVariable(e),
           temporaries => t = type /\ t # None,
           ~temporaries => \/ e.op = "index" /\ type = None
                           \/ e.op # "index" /\ t = type
    PROVE  HandlerInv'
  <1>1. /\ Bind(e, t, mean, type, temporaries, held)
        /\ count' = [count EXCEPT ![kind] = @ + 1, !.tmp = @ + IF temporaries THEN 1 ELSE 0]
        /\ UNCHANGED <<temporaries, frames, symbols, within>>
    BY DEF Method, Counted
  <1>2. temporaries \in BOOLEAN /\ held \in SUBSET Values
    BY DEF HandlerInv, Values
  <1>3. /\ count' \in Counts /\ count'.tmp = count.tmp + (IF temporaries THEN 1 ELSE 0)
        /\ count'.indirect = count.indirect
    <2>1. PICK k \in Nat : k = IF temporaries THEN 1 ELSE 0
      OBVIOUS
    <2>2. count \in Counts
      BY DEF HandlerInv
    <2>3. count' = [count EXCEPT ![kind] = @ + 1, !.tmp = @ + k]
      BY <1>1, <2>1
    <2>4. count' \in Counts /\ count'.tmp = count.tmp + k /\ count'.indirect = count.indirect
      <3> DEFINE c == [count EXCEPT ![kind] = @ + 1]
      <3>1. c \in Counts /\ c.tmp = count.tmp /\ c.indirect = count.indirect
        BY <2>2 DEF Counts
      <3>2. count' = [c EXCEPT !.tmp = @ + k]
        BY <2>3
      <3> HIDE DEF c
      <3> QED
        BY <3>1, <3>2 DEF Counts
    <2> QED
      BY <2>1, <2>4
  <1>4. /\ Listed(bindings') /\ NamesCounted' /\ DeclarationsTyped'
        /\ \A v \in Values \cup Variables : Known(v, bindings', dtypes')
        /\ \A v \in held' : /\ Known(v, bindings', dtypes')
                            /\ v \in held \/ v.type = type
    <2>1. PICK flag \in BOOLEAN : flag = temporaries
      BY <1>2
    <2>2. Bind(e, t, mean, type, flag, held)
      BY <1>1, <2>1
    <2>3. count'.tmp = count.tmp + (IF flag THEN 1 ELSE 0)
      BY <1>3, <2>1
    <2>4. /\ flag => t = type /\ t # None
          /\ ~flag => \/ e.op = "index" /\ type = None
                      \/ e.op # "index" /\ t = type
      BY <2>1
    <2> QED
      BY <1>2, <1>3, <2>2, <2>3, <2>4, BindPreserves
  <1>5. /\ \A v \in Values' : v \in held' \/ v \in Values
        /\ Variables' = Variables
    BY <1>1 DEF Values, Variables
  <1>6. ValuesKnown'
    BY <1>4, <1>5 DEF HandlerInv, ValuesKnown
  <1>7. TypedForTemporaries'
    BY <1>1, <1>4 DEF HandlerInv, TypedForTemporaries
  <1> QED
    BY <1>1, <1>3, <1>4, <1>6, <1>7 DEF HandlerInv

(* What is read off a new expression. *)
LEMMA ExprFields ==
    ASSUME NEW op, NEW tag, NEW id, NEW args, NEW legal
    PROVE  /\ Expr(op, tag, id, args, legal).op = op
           /\ Expr(op, tag, id, args, legal).id = id
  BY DEF Expr

(* The types that inner_fn's values have are those that are looked up. *)
LEMMA HeldTypes ==
    ASSUME HandlerInv, NEW v \in held
    PROVE  /\ DtypeOf(v.e) = v.type /\ v.type \in Types \cup {None}
           /\ temporaries => v.type # None
  <1>1. Known(v, bindings, dtypes)
    BY DEF HandlerInv, ValuesKnown, Values
  <1>2. DtypeOf(v.e) = v.type
    BY <1>1, DtypeOfKnown
  <1> QED
    BY <1>1, <1>2 DEF Known, HandlerInv, TypedForTemporaries

(* A load has the type of its buffer.                                      *)
LEMMA LoadPreserves == HandlerInv /\ Load => HandlerInv'
  <1> SUFFICES ASSUME HandlerInv, Load PROVE HandlerInv'
    OBVIOUS
  <1>1. PICK b \in DOMAIN BufferType, at \in symbols \cup {Index}, id \in NewIds :
           Method("load", Expr("load", b, id, <<at.e>>, within), BufferType[b],
                  [p \in within |-> Mix(b, <<at.mean[p]>>)], BufferType[b])
    BY DEF Load
  <1>2. BufferType[b] \in Types /\ BufferType[b] # None
    BY TypesAssumption DEF Types
  <1> DEFINE e == Expr("load", b, id, <<at.e>>, within)
  <1>3. e.op = "load" /\ e.id = id
    BY ExprFields
  <1>4. ~IsVariable(e)
    BY <1>3 DEF IsVariable
  <1> HIDE DEF e
  <1>5. Method("load", e, BufferType[b], [p \in within |-> Mix(b, <<at.mean[p]>>)],
               BufferType[b])
    BY <1>1 DEF e
  <1> QED
    BY <1>2, <1>3, <1>4, <1>5, MethodPreserves

(* An operation has the type its operands promote to.                      *)
LEMMA CallPreserves == HandlerInv /\ Call => HandlerInv'
  <1> SUFFICES ASSUME HandlerInv, Call PROVE HandlerInv'
    OBVIOUS
  <1>1. PICK a \in held, b \in held, id \in NewIds :
           Method("call", Expr("call", 0, id, <<a.e, b.e>>, {}),
                  Promote({DtypeOf(a.e), DtypeOf(b.e)}),
                  [p \in within |-> Mix(0, <<a.mean[p], b.mean[p]>>)],
                  Promote({a.type, b.type}))
    BY DEF Call
  <1> DEFINE e == Expr("call", 0, id, <<a.e, b.e>>, {})
             t == Promote({a.type, b.type})
  <1>2. e.op = "call" /\ e.id = id
    BY ExprFields
  <1>3. ~IsVariable(e)
    BY <1>2 DEF IsVariable
  <1>4. t \in Types \cup {None} /\ (temporaries => t # None)
    BY HeldTypes, PromoteTwo
  <1>5. Promote({DtypeOf(a.e), DtypeOf(b.e)}) = t
    BY HeldTypes
  <1> HIDE DEF e, t
  <1>6. Method("call", e, t, [p \in within |-> Mix(0, <<a.mean[p], b.mean[p]>>)], t)
    BY <1>1, <1>5 DEF e, t
  <1> QED
    BY <1>2, <1>3, <1>4, <1>6, MethodPreserves

(* A select has the type its branches promote to.                          *)
LEMMA WherePreserves == HandlerInv /\ Where => HandlerInv'
  <1> SUFFICES ASSUME HandlerInv, Where PROVE HandlerInv'
    OBVIOUS
  <1>1. PICK c \in held, a \in held, b \in held, id \in NewIds :
           Method("call", Select(id, c.e, a.e, b.e),
                  Promote({DtypeOf(a.e), DtypeOf(b.e)}),
                  [p \in within |-> IF Truth(c.mean[p]) THEN a.mean[p] ELSE b.mean[p]],
                  Promote({a.type, b.type}))
    BY DEF Where
  <1> DEFINE e == Select(id, c.e, a.e, b.e)
             t == Promote({a.type, b.type})
  <1>2. e.op = "select" /\ e.id = id
    BY ExprFields DEF Select
  <1>3. ~IsVariable(e)
    BY <1>2 DEF IsVariable
  <1>4. t \in Types \cup {None} /\ (temporaries => t # None)
    BY HeldTypes, PromoteTwo
  <1>5. Promote({DtypeOf(a.e), DtypeOf(b.e)}) = t
    BY HeldTypes
  <1> HIDE DEF e, t
  <1>6. Method("call", e, t,
               [p \in within |-> IF Truth(c.mean[p]) THEN a.mean[p] ELSE b.mean[p]], t)
    BY <1>1, <1>5 DEF e, t
  <1> QED
    BY <1>2, <1>3, <1>4, <1>6, MethodPreserves

(* A cast has the type it names.                                           *)
LEMMA CastPreserves == HandlerInv /\ Cast => HandlerInv'
  <1> SUFFICES ASSUME HandlerInv, Cast PROVE HandlerInv'
    OBVIOUS
  <1>1. PICK a \in held \cup {Index}, t \in CastTypes, id \in NewIds :
           Method("call", Expr("call", t, id, <<a.e>>, {}), t,
                  [p \in within |-> Mix(t, <<a.mean[p]>>)], t)
    BY DEF Cast
  <1> DEFINE e == Expr("call", t, id, <<a.e>>, {})
  <1>2. e.op = "call" /\ e.id = id
    BY ExprFields
  <1>3. ~IsVariable(e)
    BY <1>2 DEF IsVariable
  <1>4. t \in Types /\ t # None
    BY TypesAssumption DEF Types
  <1> HIDE DEF e
  <1>5. Method("call", e, t, [p \in within |-> Mix(t, <<a.mean[p]>>)], t)
    BY <1>1 DEF e
  <1> QED
    BY <1>2, <1>3, <1>4, <1>5, MethodPreserves

(* A bare index has no type, unless a temporary holds it.                  *)
LEMMA IndexExprPreserves == HandlerInv /\ IndexExpr => HandlerInv'
  <1> SUFFICES ASSUME HandlerInv, IndexExpr PROVE HandlerInv'
    OBVIOUS
  <1>1. PICK t \in CastTypes, id \in NewIds :
           Method("call", LoopIndex(id), t, Index.mean, IF temporaries THEN t ELSE None)
    BY DEF IndexExpr
  <1> DEFINE e == LoopIndex(id)
             type == IF temporaries THEN t ELSE None
  <1>2. e.op = "index" /\ e.id = id
    BY ExprFields DEF LoopIndex
  <1>3. ~IsVariable(e)
    BY <1>2 DEF IsVariable
  <1>4. t \in Types /\ t # None
    BY TypesAssumption DEF Types
  <1>5. /\ type \in Types \cup {None}
        /\ temporaries => t = type /\ t # None
        /\ ~temporaries => type = None
    BY <1>4
  <1> HIDE DEF e, type
  <1>6. Method("call", e, t, Index.mean, type)
    BY <1>1 DEF e, type
  <1> QED
    BY <1>2, <1>3, <1>5, <1>6, MethodPreserves

(* The values that masked puts aside are in use as before. *)
LEMMA BeginMaskedPreserves == HandlerInv /\ BeginMasked => HandlerInv'
  <1> SUFFICES ASSUME HandlerInv, BeginMasked PROVE HandlerInv'
    OBVIOUS
  <1>1. PICK mask \in held :
           frames' = Append(frames, [mask |-> mask, saved |-> temporaries, held |-> held,
                                     symbols |-> symbols, within |-> within])
    BY DEF BeginMasked
  <1>2. /\ temporaries' = FALSE /\ count' = [count EXCEPT !.masked = @ + 1]
        /\ UNCHANGED <<bindings, dtypes, held, symbols>>
    BY DEF BeginMasked
  <1> DEFINE f == [mask |-> mask, saved |-> temporaries, held |-> held,
                   symbols |-> symbols, within |-> within]
             n == Len(frames) + 1
  <1>3. f.mask = mask /\ f.saved = temporaries /\ f.held = held /\ f.symbols = symbols
    OBVIOUS
  <1> HIDE DEF f
  <1>4. /\ Listed(frames') /\ frames'[n] = f
        /\ \A i \in DOMAIN frames : frames'[i] = frames[i]
        /\ \A i \in DOMAIN frames' : i \in DOMAIN frames \/ i = n
    BY <1>1, AppendListed DEF HandlerInv, f
  <1> HIDE DEF n
  <1>5. count' \in Counts /\ count'.tmp = count.tmp /\ count'.indirect = count.indirect
    BY <1>2 DEF HandlerInv, Counts
  <1>6. \A v \in Values' : v \in Values
    <2>1. \A i \in DOMAIN frames' : ({frames'[i].mask} \cup frames'[i].held) \subseteq Values
      <3>1. ASSUME NEW i \in DOMAIN frames
            PROVE  ({frames[i].mask} \cup frames[i].held) \subseteq Values
        BY DEF Values
      <3>2. ({f.mask} \cup f.held) \subseteq Values
        BY <1>3 DEF Values
      <3> QED
        BY <1>4, <3>1, <3>2
    <2> QED
      BY <1>2, <2>1 DEF Values
  <1>7. \A v \in Variables' : v \in Variables
    <2>1. \A i \in DOMAIN frames' : frames'[i].symbols \subseteq Variables
      BY <1>3, <1>4 DEF Variables
    <2> QED
      BY <1>2, <2>1 DEF Variables
  <1>8. ValuesKnown'
    BY <1>2, <1>6, <1>7 DEF HandlerInv, ValuesKnown
  <1>9. TypedForTemporaries'
    BY <1>2, <1>3, <1>4 DEF HandlerInv, TypedForTemporaries
  <1>10. \A i \in DOMAIN frames' : frames'[i].saved \in BOOLEAN
    BY <1>3, <1>4 DEF HandlerInv
  <1>11. NamesCounted' /\ DeclarationsTyped' /\ Listed(bindings')
    BY <1>2, <1>5 DEF HandlerInv, NamesCounted, DeclarationsTyped
  <1> QED
    BY <1>2, <1>4, <1>5, <1>8, <1>9, <1>10, <1>11 DEF HandlerInv

(* Where temporaries are on again, only the value of body is left of it,   *)
(* and masked gives it the type of other if it has none.                   *)
LEMMA EndMaskedPreserves == HandlerInv /\ EndMasked => HandlerInv'
  <1> SUFFICES ASSUME HandlerInv, EndMasked PROVE HandlerInv'
    OBVIOUS
  <1> DEFINE frame == Last(frames)
             n == Len(frames)
  <1>1. PICK value \in held, other \in OtherTypes, id \in NewIds :
           /\ frames # <<>>
           /\ temporaries' = Restored(frame)
           /\ Bind(Select(id, frame.mask.e, value.e, Other), Promote({DtypeOf(value.e), other}),
                   [p \in frame.within |-> IF p \in within THEN value.mean[p] ELSE Other.tag],
                   Promote({value.type, other}), Restored(frame), frame.held)
           /\ frames' = Front(frames)
           /\ symbols' = frame.symbols
           /\ count' = [count EXCEPT !.tmp = @ + IF Restored(frame) THEN 1 ELSE 0]
    BY DEF EndMasked
  <1>2. /\ Listed(frames') /\ n \in DOMAIN frames /\ frame = frames[n]
        /\ \A i \in DOMAIN frames' : i \in DOMAIN frames /\ frames'[i] = frames[i]
    BY <1>1, FrontListed DEF HandlerInv, Last
  <1> HIDE DEF frame, n
  <1>3. PICK flag \in BOOLEAN : flag = Restored(frame) /\ flag = frame.saved
    BY <1>2 DEF HandlerInv, Restored
  <1>4. count' \in Counts /\ count'.tmp = count.tmp + (IF flag THEN 1 ELSE 0)
        /\ count'.indirect = count.indirect
    <2>1. PICK k \in Nat : k = IF flag THEN 1 ELSE 0
      OBVIOUS
    <2>2. count' = [count EXCEPT !.tmp = @ + k]
      BY <1>1, <1>3, <2>1
    <2> QED
      BY <2>1, <2>2 DEF HandlerInv, Counts
  <1> DEFINE e == Select(id, frame.mask.e, value.e, Other)
             t == Promote({value.type, other})
  <1>5. e.op = "select" /\ e.id = id
    BY ExprFields DEF Select
  <1>6. ~IsVariable(e)
    BY <1>5 DEF IsVariable
  <1>7. t \in Types \cup {None} /\ t # None
    <2>1. other \in Types /\ other # None
      BY TypesAssumption DEF Types
    <2> QED
      BY <2>1, HeldTypes, PromoteTwo
  <1>8. Promote({DtypeOf(value.e), other}) = t
    BY HeldTypes
  <1>9. /\ frame.held \in SUBSET Values
        /\ frame.symbols \subseteq Variables
    BY <1>2 DEF Values, Variables
  <1> HIDE DEF e, t
  <1> DEFINE mean == [p \in frame.within |-> IF p \in within THEN value.mean[p] ELSE Other.tag]
  <1>10. Bind(e, t, mean, t, flag, frame.held)
    BY <1>1, <1>3, <1>8 DEF e, t
  <1> HIDE DEF mean
  <1>11. /\ Listed(bindings') /\ NamesCounted' /\ DeclarationsTyped'
         /\ \A v \in Values \cup Variables : Known(v, bindings', dtypes')
         /\ \A v \in held' : /\ Known(v, bindings', dtypes')
                             /\ v \in frame.held \/ v.type = t
    BY <1>4, <1>5, <1>6, <1>7, <1>9, <1>10, BindPreserves
  <1>12. \A v \in Values' : v \in held' \/ v \in Values
    <2>1. \A i \in DOMAIN frames' : ({frames'[i].mask} \cup frames'[i].held) \subseteq Values
      BY <1>2 DEF Values
    <2> QED
      BY <2>1 DEF Values
  <1>13. \A v \in Variables' : v \in Variables
    <2>1. \A i \in DOMAIN frames' : frames'[i].symbols \subseteq Variables
      BY <1>2 DEF Variables
    <2> QED
      BY <1>1, <1>9, <2>1 DEF Variables
  <1>14. ValuesKnown'
    BY <1>11, <1>12, <1>13 DEF HandlerInv, ValuesKnown
  <1>15. TypedForTemporaries'
    <2>1. temporaries' = frame.saved
      BY <1>1, <1>3
    <2>2. frame.saved => \A v \in frame.held : v.type # None
      BY <1>2 DEF HandlerInv, TypedForTemporaries
    <2>3. temporaries' => \A v \in held' : v.type # None
      BY <1>7, <1>11, <2>1, <2>2
    <2> QED
      BY <1>2, <2>3 DEF HandlerInv, TypedForTemporaries
  <1>16. /\ temporaries' \in BOOLEAN
         /\ \A i \in DOMAIN frames' : frames'[i].saved \in BOOLEAN
    BY <1>1, <1>2, <1>3 DEF HandlerInv
  <1> QED
    BY <1>2, <1>4, <1>11, <1>14, <1>15, <1>16 DEF HandlerInv

(* An index variable is declared with the type of the index, or the        *)
(* default.                                                                *)
LEMMA IndirectPreserves == HandlerInv /\ IndirectIndexing => HandlerInv'
  <1> SUFFICES ASSUME HandlerInv, IndirectIndexing PROVE HandlerInv'
    OBVIOUS
  <1> DEFINE name == <<"indirect", count.indirect>>
  <1>1. PICK index \in held : \E init, mean :
           LET t == IF DtypeOf(index.e) = None THEN DefaultType ELSE DtypeOf(index.e) IN
           /\ bindings' = Declared([name |-> name, init |-> init, type |-> t])
           /\ symbols' = symbols \cup
                 {[e |-> Variable(name), mean |-> mean,
                   type |-> IF index.type = None THEN DefaultType ELSE index.type]}
           /\ count' = [count EXCEPT !.indirect = @ + 1]
           /\ UNCHANGED <<temporaries, dtypes, frames, held, within>>
    BY DEF IndirectIndexing
  <1>1a. PICK init, mean :
           LET t == IF DtypeOf(index.e) = None THEN DefaultType ELSE DtypeOf(index.e) IN
           /\ bindings' = Declared([name |-> name, init |-> init, type |-> t])
           /\ symbols' = symbols \cup
                 {[e |-> Variable(name), mean |-> mean,
                   type |-> IF index.type = None THEN DefaultType ELSE index.type]}
           /\ count' = [count EXCEPT !.indirect = @ + 1]
           /\ UNCHANGED <<temporaries, dtypes, frames, held, within>>
    BY <1>1
  <1> DEFINE t == IF index.type = None THEN DefaultType ELSE index.type
             new == [e |-> Variable(name), mean |-> mean, type |-> t]
  <1>2. /\ bindings' = Append(bindings, [name |-> name, init |-> init, type |-> t])
        /\ symbols' = symbols \cup {new}
        /\ count' = [count EXCEPT !.indirect = @ + 1]
        /\ UNCHANGED <<temporaries, dtypes, frames, held, within>>
    BY <1>1a, HeldTypes DEF Declared
  <1>3. t \in Types \cup {None} /\ t # None
    BY HeldTypes, TypesAssumption DEF Types
  <1>4. /\ count' \in Counts /\ count'.tmp = count.tmp
        /\ count.tmp \in Nat /\ count.indirect \in Nat
        /\ count'.indirect = count.indirect + 1
    <2>1. count' = [count EXCEPT !.indirect = @ + 1] /\ count \in Counts
      BY <1>2 DEF HandlerInv
    <2> QED
      BY <2>1 DEF Counts
  <1>5. new.e = Variable(name) /\ new.type = t
    OBVIOUS
  <1>6. name[1] = "indirect" /\ name = <<name[1], name[2]>>
    OBVIOUS
  <1>7. name = <<"indirect", count.indirect>>
    OBVIOUS
  <1> HIDE DEF new, t, name
  <1>8. /\ Listed(bindings') /\ NamesCounted' /\ DeclarationsTyped'
        /\ \A i \in DOMAIN bindings : i \in DOMAIN bindings' /\ bindings'[i] = bindings[i]
        /\ \E i \in DOMAIN bindings' : bindings'[i].name = name /\ bindings'[i].type = t
    <2>1. count.tmp <= count'.tmp /\ count.indirect < count'.indirect
          /\ count.indirect <= count'.indirect
      BY <1>4
    <2>2. bindings' = Append(bindings, [name |-> name, init |-> init, type |-> t])
      BY <1>2
    <2>3. \/ name = <<"tmp", count.tmp>> /\ count.tmp < count'.tmp
          \/ name = <<"indirect", count.indirect>> /\ count.indirect < count'.indirect
      BY <1>7, <2>1
    <2>4. t # None /\ count' \in Counts
      BY <1>3, <1>4
    <2> QED
      BY <2>1, <2>2, <2>3, <2>4, DeclarePreserves
  <1>9. IsVariable(new.e) /\ Known(new, bindings', dtypes')
    <2>1. /\ Variable(name).op = name[1] /\ Variable(name).tag = name[2]
          /\ IsVariable(Variable(name))
      BY <1>6 DEF Variable, Expr, IsVariable
    <2>2. DeclaredAs(new, bindings')
      BY <1>5, <1>6, <1>8, <2>1 DEF DeclaredAs
    <2> QED
      BY <1>3, <1>5, <2>1, <2>2 DEF Known
  <1>10. \A v : Known(v, bindings, dtypes) => Known(v, bindings', dtypes')
    <2> TAKE v
    <2>1. dtypes' = dtypes
      BY <1>2
    <2> QED
      BY <1>8, <2>1, KnownPersists
  <1>11. /\ Values' = Values
         /\ \A v \in Variables' : v = new \/ v \in Variables
    BY <1>2 DEF Values, Variables
  <1>12. ValuesKnown'
    BY <1>9, <1>10, <1>11 DEF HandlerInv, ValuesKnown
  <1>13. TypedForTemporaries'
    BY <1>2 DEF HandlerInv, TypedForTemporaries
  <1> QED
    BY <1>2, <1>4, <1>8, <1>12, <1>13 DEF HandlerInv

(* A value that is forgotten leaves the others as they are.                *)
LEMMA ForgetPreserves == HandlerInv /\ Forget => HandlerInv'
  <1> SUFFICES ASSUME HandlerInv, Forget PROVE HandlerInv'
    OBVIOUS
  <1>1. /\ held' \subseteq held /\ count' = [count EXCEPT !.forget = @ + 1]
        /\ UNCHANGED <<temporaries, bindings, dtypes, frames, symbols, within>>
    BY DEF Forget
  <1>2. count' \in Counts /\ count'.tmp = count.tmp /\ count'.indirect = count.indirect
    BY <1>1 DEF HandlerInv, Counts
  <1>3. (\A v \in Values' : v \in Values) /\ Variables' = Variables
    BY <1>1 DEF Values, Variables
  <1>4. ValuesKnown'
    BY <1>1, <1>3 DEF HandlerInv, ValuesKnown
  <1>5. TypedForTemporaries' /\ NamesCounted' /\ DeclarationsTyped'
    BY <1>1, <1>2 DEF HandlerInv, TypedForTemporaries, NamesCounted, DeclarationsTyped
  <1> QED
    BY <1>1, <1>2, <1>4, <1>5 DEF HandlerInv

(* Nothing happens.                                                        *)
LEMMA StutterPreserves == HandlerInv /\ UNCHANGED vars => HandlerInv'
  BY DEF vars, HandlerInv, NamesCounted, DeclarationsTyped, ValuesKnown, Values, Variables,
         TypedForTemporaries

(* HandlerInv is an invariant: every call of a handler method keeps it. *)
THEOREM HandlerInvariant == Spec => []HandlerInv
  <1>1. HandlerInv /\ [Next]_vars => HandlerInv'
    BY LoadPreserves, CallPreserves, WherePreserves, CastPreserves, IndexExprPreserves,
       BeginMaskedPreserves, EndMaskedPreserves, IndirectPreserves, ForgetPreserves,
       StutterPreserves
    DEF Next, Return
  <1> QED
    BY InitInv, <1>1, PTL DEF Spec

-----------------------------------------------------------------------------
(* A value's type is the one its operands gave it, although the ids of     *)
(* collected expressions are used again (_record_dtype, _dtype_of).        *)
THEOREM TypesAreKept == Spec => []TypesKept
  <1>1. HandlerInv => TypesKept
    <2> SUFFICES ASSUME HandlerInv, NEW v \in held \cup symbols PROVE DtypeOf(v.e) = v.type
      BY DEF TypesKept
    <2>1. Known(v, bindings, dtypes)
      BY DEF HandlerInv, ValuesKnown, Values, Variables
    <2> QED
      BY <2>1, DtypeOfKnown
  <1> QED
    BY HandlerInvariant, <1>1, PTL

(* _bind never raises for want of a type, whatever inner_fn calls.         *)
THEOREM TemporariesHaveTypes == Spec => []DeclarationsTyped
  <1>1. HandlerInv => DeclarationsTyped
    BY DEF HandlerInv
  <1> QED
    BY HandlerInvariant, <1>1, PTL

-----------------------------------------------------------------------------
(* The value of a text. *)

Text(e) == {e} \cup e.parts

(* Operands are parts of a text, and nested less deeply. *)
WellFormed(e) ==
    \A x \in Text(e) :
        /\ x.height \in 0..e.height /\ e.height \in Nat
        /\ x.op = "select" => DOMAIN x.args = 1..3
        /\ \A i \in DOMAIN x.args : x.args[i] \in e.parts /\ x.args[i].height < x.height

(* g gives the values of the expressions D. *)
Evaluates(g, D, p, env) ==
    g = [x \in D |-> Gives(x, [i \in DOMAIN x.args |-> g[x.args[i]]], p, env)]

(* Declarations were added, and none changed. *)
Extends(env2, env) == \A n \in DOMAIN env : n \in DOMAIN env2 /\ env2[n] = env[n]

(* If x does not fault, it gives the same with more declarations. *)
LEMMA GivesAgree ==
    ASSUME NEW x, NEW D, NEW a, NEW b, NEW p, NEW env, NEW env2, Extends(env2, env),
           a = [i \in D |-> a[i]], b = [i \in D |-> b[i]],
           x.op = "select" => D = 1..3,
           \A i \in D : a[i] # Fault => b[i] = a[i],
           Gives(x, a, p, env) # Fault
    PROVE  Gives(x, b, p, env2) = Gives(x, a, p, env)
  <1>1. CASE IsVariable(x)
    BY <1>1 DEF Gives, Extends
  <1>2. CASE ~IsVariable(x) /\ x.op \in {"index", "number"}
    BY <1>2 DEF Gives
  <1>3. CASE ~IsVariable(x) /\ x.op = "select"
    <2>1. 1 \in D /\ 2 \in D /\ 3 \in D
      BY <1>3
    <2>2. /\ Gives(x, a, p, env) = IF a[1] = Fault THEN Fault
                                   ELSE IF Truth(a[1]) THEN a[2] ELSE a[3]
          /\ Gives(x, b, p, env2) = IF b[1] = Fault THEN Fault
                                    ELSE IF Truth(b[1]) THEN b[2] ELSE b[3]
      BY <1>3 DEF Gives
    <2> QED
      BY <2>1, <2>2
  <1>4. CASE ~IsVariable(x) /\ x.op \notin {"index", "number", "select"}
    <2>1. DOMAIN a = D /\ DOMAIN b = D
      OBVIOUS
    <2>2. ~(x.op = "load" /\ p \notin x.legal) /\ \A i \in D : a[i] # Fault
      BY <1>4, <2>1 DEF Gives
    <2>3. a = b
      BY <2>2
    <2> QED
      BY <1>4, <2>1, <2>2, <2>3 DEF Gives
  <1> QED
    BY <1>1, <1>2, <1>3, <1>4

(* Where two functions give the values of expressions, the one with more   *)
(* declarations agrees with the other on all that does not fault.          *)
LEMMA EvaluatesAgree ==
    ASSUME NEW d, WellFormed(d), NEW e, WellFormed(e), NEW p, NEW env, NEW env2,
           Extends(env2, env), NEW f, Evaluates(f, Text(d), p, env),
           NEW g, Evaluates(g, Text(e), p, env2)
    PROVE  \A x \in Text(d) \cap Text(e) : f[x] # Fault => g[x] = f[x]
  <1> DEFINE Bad(x) == f[x] # Fault /\ g[x] # f[x]
             T == {h \in Nat : \E x \in Text(d) \cap Text(e) : x.height = h /\ Bad(x)}
  <1>1. SUFFICES ASSUME NEW y \in Text(d) \cap Text(e), Bad(y) PROVE FALSE
    OBVIOUS
  <1>2. y.height \in T
    BY <1>1 DEF WellFormed
  <1>3. PICK m \in T : \A k \in T : ~(k < m)
    BY <1>2, LeastNumber
  <1>4. PICK x \in Text(d) \cap Text(e) : x.height = m /\ Bad(x)
    BY <1>3
  <1> DEFINE D == DOMAIN x.args
             a == [i \in D |-> f[x.args[i]]]
             b == [i \in D |-> g[x.args[i]]]
  <1>5. f[x] = Gives(x, a, p, env) /\ g[x] = Gives(x, b, p, env2)
    BY DEF Evaluates
  <1>6. \A i \in D : a[i] # Fault => b[i] = a[i]
    <2> SUFFICES ASSUME NEW i \in D, f[x.args[i]] # Fault PROVE g[x.args[i]] = f[x.args[i]]
      OBVIOUS
    <2>1. /\ x.args[i] \in Text(d) \cap Text(e)
          /\ x.args[i].height \in Nat /\ x.args[i].height < m
      BY <1>4 DEF WellFormed, Text
    <2>2. x.args[i].height \notin T
      BY <1>3, <2>1
    <2> QED
      BY <2>1, <2>2
  <1>7. x.op = "select" => D = 1..3
    BY DEF WellFormed
  <1>8. a = [i \in D |-> a[i]] /\ b = [i \in D |-> b[i]]
    OBVIOUS
  <1> HIDE DEF D, a, b, T
  <1>9. Gives(x, a, p, env) # Fault => Gives(x, b, p, env2) = Gives(x, a, p, env)
    BY <1>6, <1>7, <1>8, GivesAgree
  <1> QED
    BY <1>4, <1>5, <1>9

(* There is a function that gives the values of a text. *)
LEMMA EvaluatesExists ==
    ASSUME NEW e, WellFormed(e), NEW p, NEW env
    PROVE  \E g : Evaluates(g, Text(e), p, env)
  <1> DEFINE Below(h) == {x \in Text(e) : x.height < h}
             T == {h \in Nat : ~ \E g : Evaluates(g, Below(h), p, env)}
  <1>1. SUFFICES T = {}
    <2>1. Below(e.height + 1) = Text(e) /\ e.height + 1 \in Nat
      BY DEF WellFormed, Text
    <2> QED
      BY <2>1
  <1>2. SUFFICES ASSUME T # {} PROVE FALSE
    OBVIOUS
  <1>3. PICK m \in T : \A k \in T : ~(k < m)
    BY <1>2, LeastNumber
  <1>4. m # 0
    <2> SUFFICES ASSUME m = 0 PROVE FALSE
      OBVIOUS
    <2>1. Below(m) = {}
      BY DEF WellFormed
    <2> DEFINE g == [x \in {} |-> x]
    <2>2. Evaluates(g, {}, p, env)
      BY DEF Evaluates
    <2> QED
      BY <1>3, <2>1, <2>2
  <1>5. PICK f : Evaluates(f, Below(m - 1), p, env)
    <2>1. m - 1 \in Nat /\ m - 1 < m
      BY <1>4
    <2> QED
      BY <1>3, <2>1
  <1> DEFINE g == [x \in Below(m) |-> Gives(x, [i \in DOMAIN x.args |-> f[x.args[i]]], p, env)]
  <1>6. ASSUME NEW x \in Below(m)
        PROVE  [i \in DOMAIN x.args |-> g[x.args[i]]] = [i \in DOMAIN x.args |-> f[x.args[i]]]
    <2> SUFFICES ASSUME NEW i \in DOMAIN x.args PROVE g[x.args[i]] = f[x.args[i]]
      OBVIOUS
    <2>1. x.args[i] \in Below(m - 1) /\ x.args[i] \in Below(m)
      BY <1>4 DEF WellFormed, Text
    <2>2. f[x.args[i]] = Gives(x.args[i], [j \in DOMAIN x.args[i].args |-> f[x.args[i].args[j]]],
                               p, env)
      BY <1>5, <2>1 DEF Evaluates
    <2> QED
      BY <2>1, <2>2
  <1>7. Evaluates(g, Below(m), p, env)
    <2>1. \A x \in Below(m) :
             g[x] = Gives(x, [i \in DOMAIN x.args |-> g[x.args[i]]], p, env)
      BY <1>6
    <2>2. g = [x \in Below(m) |-> g[x]]
      OBVIOUS
    <2> HIDE DEF g, Below
    <2> QED
      BY <2>1, <2>2 DEF Evaluates
  <1> QED
    BY <1>3, <1>7

(* So a text has a value, by that function. *)
LEMMA ValueOfText ==
    ASSUME NEW e, WellFormed(e), NEW p, NEW env
    PROVE  \E g : Evaluates(g, Text(e), p, env) /\ Value(e, p, env) = g[e]
  <1> DEFINE g == CHOOSE h : Evaluates(h, Text(e), p, env)
  <1>1. Evaluates(g, Text(e), p, env)
    BY EvaluatesExists
  <1>2. Value(e, p, env) = g[e]
    BY DEF Value, Evaluates, Text
  <1> QED
    BY <1>1, <1>2

(* What does not fault does not change with more declarations. *)
LEMMA ValuePersists ==
    ASSUME NEW e, WellFormed(e), NEW p, NEW env, NEW env2, Extends(env2, env),
           Value(e, p, env) # Fault
    PROVE  Value(e, p, env2) = Value(e, p, env)
  <1>1. PICK f : Evaluates(f, Text(e), p, env) /\ Value(e, p, env) = f[e]
    BY ValueOfText
  <1>2. PICK g : Evaluates(g, Text(e), p, env2) /\ Value(e, p, env2) = g[e]
    BY ValueOfText
  <1>3. e \in Text(e) \cap Text(e)
    BY DEF Text
  <1> QED
    BY <1>1, <1>2, <1>3, EvaluatesAgree

(* The value of a text is what it gives for the values of its operands. *)
LEMMA ValueUnfolds ==
    ASSUME NEW e, WellFormed(e), NEW p, NEW env, \A i \in DOMAIN e.args : WellFormed(e.args[i])
    PROVE  Value(e, p, env) =
             Gives(e, [i \in DOMAIN e.args |-> Value(e.args[i], p, env)], p, env)
  <1>1. PICK f : Evaluates(f, Text(e), p, env) /\ Value(e, p, env) = f[e]
    BY ValueOfText
  <1>2. f[e] = Gives(e, [i \in DOMAIN e.args |-> f[e.args[i]]], p, env)
    BY <1>1 DEF Evaluates, Text
  <1>3. ASSUME NEW i \in DOMAIN e.args PROVE f[e.args[i]] = Value(e.args[i], p, env)
    <2>1. WellFormed(e.args[i]) /\ Extends(env, env)
      BY DEF Extends
    <2>2. PICK g : Evaluates(g, Text(e.args[i]), p, env) /\ Value(e.args[i], p, env) = g[e.args[i]]
      BY <2>1, ValueOfText
    <2>3. e.args[i] \in Text(e) /\ e.args[i] \in Text(e.args[i])
      BY DEF WellFormed, Text
    <2>4. f[e.args[i]] # Fault => g[e.args[i]] = f[e.args[i]]
      BY <1>1, <2>1, <2>2, <2>3, EvaluatesAgree
    <2>5. g[e.args[i]] # Fault => f[e.args[i]] = g[e.args[i]]
      BY <1>1, <2>1, <2>2, <2>3, EvaluatesAgree
    <2> QED
      BY <2>2, <2>4, <2>5
  <1>4. [i \in DOMAIN e.args |-> f[e.args[i]]] = [i \in DOMAIN e.args |-> Value(e.args[i], p, env)]
    BY <1>3
  <1> QED
    BY <1>1, <1>2, <1>4

-----------------------------------------------------------------------------
(* The variables after declarations. *)

(* f gives what the variables are worth after 0, 1, ..., k declarations. *)
Runs(f, ds, k, p) ==
    f = [n \in 0..k |-> IF n = 0 THEN <<>> ELSE Declare(f[n - 1], ds[n], p)]

(* There is such a function. *)
LEMMA RunsExists ==
    ASSUME NEW ds, NEW p, NEW k \in Nat
    PROVE  \E f : Runs(f, ds, k, p)
  <1> DEFINE T == {h \in Nat : ~ \E f : Runs(f, ds, h, p)}
  <1>1. SUFFICES ASSUME T # {} PROVE FALSE
    OBVIOUS
  <1>2. PICK m \in T : \A h \in T : ~(h < m)
    BY <1>1, LeastNumber
  <1>3. m # 0
    <2> SUFFICES ASSUME m = 0 PROVE FALSE
      OBVIOUS
    <2> DEFINE g == [n \in 0..0 |-> <<>>]
    <2>1. g = [n \in 0..0 |-> IF n = 0 THEN <<>> ELSE Declare(g[n - 1], ds[n], p)]
      OBVIOUS
    <2> HIDE DEF g
    <2>2. Runs(g, ds, 0, p)
      BY <2>1 DEF Runs
    <2> QED
      BY <1>2, <2>2
  <1>4. PICK f : Runs(f, ds, m - 1, p)
    <2>1. m - 1 \in Nat /\ m - 1 < m
      BY <1>3
    <2> QED
      BY <1>2, <2>1
  <1> DEFINE g == [n \in 0..m |-> IF n = 0 THEN <<>> ELSE Declare(f[n - 1], ds[n], p)]
  <1>5. \A n \in 0..(m - 1) : g[n] = f[n]
    <2> SUFFICES ASSUME NEW n \in 0..(m - 1) PROVE g[n] = f[n]
      OBVIOUS
    <2>1. f[n] = IF n = 0 THEN <<>> ELSE Declare(f[n - 1], ds[n], p)
      BY <1>4 DEF Runs
    <2>2. n \in 0..m
      BY <1>3
    <2> QED
      BY <2>1, <2>2
  <1>6. \A n \in 0..m : g[n] = IF n = 0 THEN <<>> ELSE Declare(g[n - 1], ds[n], p)
    <2> SUFFICES ASSUME NEW n \in 0..m
                 PROVE  g[n] = IF n = 0 THEN <<>> ELSE Declare(g[n - 1], ds[n], p)
      OBVIOUS
    <2>1. n # 0 => n - 1 \in 0..(m - 1)
      BY <1>3
    <2> QED
      BY <1>5, <2>1
  <1>7. g = [n \in 0..m |-> g[n]]
    OBVIOUS
  <1> HIDE DEF g
  <1>8. Runs(g, ds, m, p)
    BY <1>6, <1>7 DEF Runs
  <1> QED
    BY <1>2, <1>8

(* It only depends on the declarations made so far. *)
LEMMA RunsAgree ==
    ASSUME NEW cs, NEW ds, NEW p, NEW j \in Nat, NEW k \in Nat, j <= k,
           \A i \in 1..j : cs[i] = ds[i],
           NEW f, Runs(f, cs, j, p), NEW g, Runs(g, ds, k, p)
    PROVE  \A n \in 0..j : f[n] = g[n]
  <1> DEFINE T == {n \in 0..j : f[n] # g[n]}
  <1>1. SUFFICES ASSUME T # {} PROVE FALSE
    OBVIOUS
  <1>2. PICK m \in T : \A h \in T : ~(h < m)
    <2>1. T \in SUBSET Nat
      OBVIOUS
    <2> HIDE DEF T
    <2> QED
      BY <1>1, <2>1, LeastNumber
  <1>3. /\ f[m] = IF m = 0 THEN <<>> ELSE Declare(f[m - 1], cs[m], p)
        /\ g[m] = IF m = 0 THEN <<>> ELSE Declare(g[m - 1], ds[m], p)
    BY DEF Runs
  <1>4. m # 0 /\ m - 1 \in 0..j /\ m - 1 < m /\ cs[m] = ds[m]
    BY <1>3
  <1>5. f[m - 1] = g[m - 1]
    BY <1>2, <1>4
  <1> QED
    BY <1>3, <1>4, <1>5

(* What the variables are worth is what that function gives at last. *)
LEMMA AfterRuns ==
    ASSUME NEW ds, NEW p, Len(ds) \in Nat
    PROVE  \E f : Runs(f, ds, Len(ds), p) /\ After(ds, p) = f[Len(ds)]
  <1> DEFINE f == CHOOSE g : Runs(g, ds, Len(ds), p)
  <1>1. Runs(f, ds, Len(ds), p)
    BY RunsExists
  <1>2. After(ds, p) = f[Len(ds)]
    BY DEF After, Runs
  <1> QED
    BY <1>1, <1>2

(* Before any declaration there is no variable. *)
LEMMA AfterNone ==
    ASSUME NEW p
    PROVE  After(<<>>, p) = <<>>
  <1>1. Len(<<>>) = 0
    OBVIOUS
  <1>2. PICK f : Runs(f, <<>>, Len(<<>>), p) /\ After(<<>>, p) = f[Len(<<>>)]
    BY <1>1, AfterRuns
  <1> QED
    BY <1>1, <1>2 DEF Runs

(* A declaration that is added runs after the others. *)
LEMMA AfterAppend ==
    ASSUME NEW ds, Listed(ds), NEW d, NEW p
    PROVE  After(Append(ds, d), p) = Declare(After(ds, p), d, p)
  <1> DEFINE es == Append(ds, d)
             k == Len(ds)
  <1>1. /\ k \in Nat /\ Len(es) = k + 1 /\ es[k + 1] = d
        /\ \A i \in 1..k : ds[i] = es[i]
    <2>1. /\ k \in Nat /\ DOMAIN ds = 1..k /\ \A i \in DOMAIN ds : es[i] = ds[i]
          /\ es[k + 1] = d /\ Listed(es) /\ DOMAIN es = 1..(k + 1)
      BY AppendListed
    <2>2. Len(es) \in Nat /\ DOMAIN es = 1..Len(es)
      BY <2>1, LenProperties DEF Listed
    <2>3. Len(es) = k + 1
      <3>1. Len(es) \in Nat /\ k + 1 \in Nat /\ 1..Len(es) = 1..(k + 1)
        BY <2>1, <2>2
      <3> QED
        BY <3>1, SameLength
    <2> QED
      BY <2>1, <2>3
  <1> HIDE DEF es, k
  <1>2. PICK f : Runs(f, ds, k, p) /\ After(ds, p) = f[k]
    BY <1>1, AfterRuns DEF k
  <1>3. PICK g : Runs(g, es, k + 1, p) /\ After(es, p) = g[k + 1]
    BY <1>1, AfterRuns
  <1>4. f[k] = g[k]
    <2>1. PICK m \in Nat, n \in Nat : m = k /\ n = k + 1
      BY <1>1
    <2>2. PICK cs : cs = es
      OBVIOUS
    <2>3. /\ m <= n /\ m \in 0..m /\ \A i \in 1..m : ds[i] = cs[i]
          /\ Runs(f, ds, m, p) /\ Runs(g, cs, n, p)
      BY <1>1, <1>2, <1>3, <2>1, <2>2
    <2>4. \A i \in 0..m : f[i] = g[i]
      BY <2>3, RunsAgree
    <2> QED
      BY <2>1, <2>3, <2>4
  <1>5. g[k + 1] = Declare(g[k], es[k + 1], p)
    BY <1>1, <1>3 DEF Runs
  <1> QED
    BY <1>1, <1>2, <1>3, <1>4, <1>5 DEF es

-----------------------------------------------------------------------------
(* Expressions are well formed. *)

(* One that is made of well-formed operands is; the deepest operand sets   *)
(* its height.                                                             *)
LEMMA ExprWellFormed ==
    ASSUME NEW op, NEW tag, NEW id, NEW args, NEW legal,
           op = "select" => DOMAIN args = 1..3,
           args # <<>>, \A i \in DOMAIN args : WellFormed(args[i]),
           NEW deepest \in DOMAIN args,
           \A i \in DOMAIN args : args[i].height <= args[deepest].height
    PROVE  WellFormed(Expr(op, tag, id, args, legal))
  <1> DEFINE e == Expr(op, tag, id, args, legal)
             S == {args[i].height : i \in DOMAIN args}
             k == args[deepest].height
  <1>1. \A i \in DOMAIN args : args[i].height \in Nat /\ args[i].height <= k
    BY DEF WellFormed, Text
  <1>2. k \in S /\ k \in Nat /\ \A h \in S : h \in Nat /\ h <= k
    BY <1>1
  <1> HIDE DEF S, k
  <1>3. Max(S) = k
    <2>1. \A x \in S : (\A y \in S : x >= y) <=> x = k
      BY <1>2
    <2> QED
      BY <1>2, <2>1 DEF Max
  <1>4. /\ e.op = op /\ e.args = args /\ e.height = 1 + k
        /\ e.parts = UNION {{args[i]} \cup args[i].parts : i \in DOMAIN args}
    BY <1>3 DEF Expr, S
  <1> HIDE DEF e
  <1>5. \A i \in DOMAIN args : Text(args[i]) \subseteq e.parts
    BY <1>4 DEF Text
  <1>6. \A i \in DOMAIN args : args[i] \in e.parts
    BY <1>5 DEF Text
  <1>7. ASSUME NEW x \in e.parts
        PROVE  \E i \in DOMAIN args : x \in Text(args[i])
    BY <1>4 DEF Text
  <1>8. ASSUME NEW x \in e.parts
        PROVE  /\ x.height \in 0..e.height
               /\ x.op = "select" => DOMAIN x.args = 1..3
               /\ \A i \in DOMAIN x.args : x.args[i] \in e.parts /\ x.args[i].height < x.height
    <2>1. PICK i \in DOMAIN args : x \in Text(args[i])
      BY <1>7
    <2>2. /\ x.height \in 0..args[i].height
          /\ x.op = "select" => DOMAIN x.args = 1..3
          /\ \A j \in DOMAIN x.args : x.args[j] \in args[i].parts /\ x.args[j].height < x.height
      BY <2>1 DEF WellFormed
    <2>3. args[i].parts \subseteq e.parts
      BY <1>5 DEF Text
    <2> QED
      BY <1>1, <1>2, <1>4, <2>2, <2>3
  <1>9. e.height \in Nat
    BY <1>2, <1>4
  <1>10. /\ e.height \in 0..e.height
         /\ e.op = "select" => DOMAIN e.args = 1..3
         /\ \A i \in DOMAIN e.args : e.args[i] \in e.parts /\ e.args[i].height < e.height
    BY <1>1, <1>2, <1>4, <1>6, <1>9
  <1>11. WellFormed(e)
    BY <1>8, <1>9, <1>10 DEF WellFormed, Text
  <1> QED
    BY <1>11 DEF e

(* One without operands is. *)
LEMMA LeafWellFormed ==
    ASSUME NEW op, NEW tag, NEW id, op # "select"
    PROVE  WellFormed(Expr(op, tag, id, <<>>, {}))
  <1> DEFINE e == Expr(op, tag, id, <<>>, {})
  <1>1. e.op = op /\ e.args = <<>> /\ e.height = 0 /\ e.parts = {}
    BY DEF Expr
  <1> HIDE DEF e
  <1>2. WellFormed(e)
    BY <1>1 DEF WellFormed, Text
  <1> QED
    BY <1>2 DEF e

(* Expressions of one, two and three operands.                             *)
LEMMA UnaryWellFormed ==
    ASSUME NEW op, NEW tag, NEW id, NEW a, NEW legal, op # "select", WellFormed(a)
    PROVE  WellFormed(Expr(op, tag, id, <<a>>, legal))
  <1> DEFINE args == <<a>>
  <1>1. args # <<>> /\ DOMAIN args = {1} /\ args[1] = a
    OBVIOUS
  <1> HIDE DEF args
  <1>2. a.height \in Nat
    BY DEF WellFormed, Text
  <1>3. WellFormed(Expr(op, tag, id, args, legal))
    BY <1>1, <1>2, ExprWellFormed
  <1> QED
    BY <1>3 DEF args

(* An operation on two well-formed expressions is well formed. *)
LEMMA BinaryWellFormed ==
    ASSUME NEW op, NEW tag, NEW id, NEW a, NEW b, NEW legal, op # "select",
           WellFormed(a), WellFormed(b)
    PROVE  WellFormed(Expr(op, tag, id, <<a, b>>, legal))
  <1> DEFINE args == <<a, b>>
  <1>1. args # <<>> /\ DOMAIN args = {1, 2} /\ args[1] = a /\ args[2] = b
    OBVIOUS
  <1> HIDE DEF args
  <1>2. a.height \in Nat /\ b.height \in Nat
    BY DEF WellFormed, Text
  <1>3. PICK k \in DOMAIN args : \A i \in DOMAIN args : args[i].height <= args[k].height
    BY <1>1, <1>2
  <1>4. WellFormed(Expr(op, tag, id, args, legal))
    BY <1>1, <1>3, ExprWellFormed
  <1> QED
    BY <1>4 DEF args

(* So is a selection. *)
LEMMA SelectWellFormed ==
    ASSUME NEW id, NEW c, NEW a, NEW b, WellFormed(c), WellFormed(a), WellFormed(b)
    PROVE  WellFormed(Select(id, c, a, b))
  <1> DEFINE args == <<c, a, b>>
  <1>1. /\ args # <<>> /\ DOMAIN args = 1..3 /\ DOMAIN args = {1, 2, 3}
        /\ args[1] = c /\ args[2] = a /\ args[3] = b
    OBVIOUS
  <1> HIDE DEF args
  <1>2. a.height \in Nat /\ b.height \in Nat /\ c.height \in Nat
    BY DEF WellFormed, Text
  <1>3. PICK k \in DOMAIN args : \A i \in DOMAIN args : args[i].height <= args[k].height
    BY <1>1, <1>2
  <1>4. WellFormed(Expr("select", 0, id, args, {}))
    BY <1>1, <1>3, ExprWellFormed
  <1> QED
    BY <1>4 DEF args, Select

-----------------------------------------------------------------------------
(* The values of expressions. *)

(* An expression without operands is worth what it gives. *)
LEMMA LeafValue ==
    ASSUME NEW e, NEW op, NEW tag, NEW id, op # "select", e = Expr(op, tag, id, <<>>, {}),
           NEW p, NEW env
    PROVE  /\ WellFormed(e) /\ e.op = op /\ e.tag = tag
           /\ \E args : Value(e, p, env) = Gives(e, args, p, env)
  <1>1. e.op = op /\ e.tag = tag /\ e.args = <<>>
    BY DEF Expr
  <1>2. WellFormed(e)
    BY LeafWellFormed
  <1>3. \A i \in DOMAIN e.args : WellFormed(e.args[i])
    BY <1>1
  <1> DEFINE args == [i \in DOMAIN e.args |-> Value(e.args[i], p, env)]
  <1>4. Value(e, p, env) = Gives(e, args, p, env)
    BY <1>2, <1>3, ValueUnfolds
  <1> QED
    BY <1>1, <1>2, <1>4

(* An index, a number and a variable. *)
LEMMA IndexValue ==
    ASSUME NEW e, NEW id, e = LoopIndex(id), NEW p, NEW env
    PROVE  WellFormed(e) /\ Value(e, p, env) = p
  <1>1. PICK op : op = "index"
    OBVIOUS
  <1>2. op # "select" /\ e = Expr(op, 0, id, <<>>, {})
    BY <1>1 DEF LoopIndex
  <1>3. WellFormed(e) /\ e.op = op /\ \E args : Value(e, p, env) = Gives(e, args, p, env)
    BY <1>2, LeafValue
  <1> QED
    BY <1>1, <1>3 DEF Gives, IsVariable

(* A number means itself, in every environment. *)
LEMMA NumberValue ==
    ASSUME NEW n, NEW e, e = Number(n), NEW p, NEW env
    PROVE  WellFormed(e) /\ Value(e, p, env) = n
  <1>1. PICK op : op = "number"
    OBVIOUS
  <1>2. op # "select" /\ e = Expr(op, n, 0, <<>>, {})
    BY <1>1 DEF Number
  <1>3. WellFormed(e) /\ e.op = op /\ e.tag = n /\ \E args : Value(e, p, env) = Gives(e, args, p, env)
    BY <1>2, LeafValue
  <1> QED
    BY <1>1, <1>3 DEF Gives, IsVariable

(* The number that masked takes as other. *)
LEMMA OtherValue ==
    ASSUME NEW e, e = Other, NEW p, NEW env
    PROVE  WellFormed(e) /\ Value(e, p, env) = Other.tag
  <1>1. Other.tag = 4
    BY DEF Other, Number, Expr
  <1> QED
    BY <1>1, NumberValue DEF Other

(* A variable is worth what the environment holds of it. *)
LEMMA VariableValue ==
    ASSUME NEW e, NEW op \in {"tmp", "indirect"}, NEW n, e = Variable(<<op, n>>),
           NEW p, NEW env, <<op, n>> \in DOMAIN env
    PROVE  WellFormed(e) /\ Value(e, p, env) = env[<<op, n>>]
  <1>1. PICK id : op # "select" /\ e = Expr(op, n, id, <<>>, {})
    BY DEF Variable
  <1>2. WellFormed(e) /\ e.op = op /\ e.tag = n
    BY <1>1, LeafWellFormed DEF Expr
  <1>3. PICK args : Value(e, p, env) = Gives(e, args, p, env)
    BY <1>1, LeafValue
  <1> QED
    BY <1>2, <1>3 DEF Gives, IsVariable

(* An operation, or a load within bounds, of operands that do not fault.   *)
LEMMA UnaryValue ==
    ASSUME NEW op \in {"load", "call"}, NEW tag, NEW id, NEW a, NEW legal, WellFormed(a),
           NEW p, NEW env, op = "load" => p \in legal, Value(a, p, env) # Fault
    PROVE  Value(Expr(op, tag, id, <<a>>, legal), p, env) = Mix(tag, <<Value(a, p, env)>>)
  <1> DEFINE e == Expr(op, tag, id, <<a>>, legal)
  <1>1. e.op = op /\ e.tag = tag /\ e.args = <<a>> /\ e.legal = legal
    BY DEF Expr
  <1>2. WellFormed(e)
    BY UnaryWellFormed
  <1> HIDE DEF e
  <1>3. \A i \in DOMAIN e.args : WellFormed(e.args[i])
    BY <1>1
  <1> DEFINE args == [i \in DOMAIN e.args |-> Value(e.args[i], p, env)]
  <1>4. Value(e, p, env) = Gives(e, args, p, env)
    BY <1>2, <1>3, ValueUnfolds
  <1>5. args = <<Value(a, p, env)>>
    BY <1>1
  <1>6. DOMAIN args = {1} /\ args[1] = Value(a, p, env)
    BY <1>5
  <1> HIDE DEF args
  <1>7. Value(e, p, env) = Mix(tag, args)
    BY <1>1, <1>4, <1>6 DEF Gives, IsVariable
  <1> QED
    BY <1>5, <1>7 DEF e

(* A call is worth the mix of its operands. *)
LEMMA BinaryValue ==
    ASSUME NEW tag, NEW id, NEW a, NEW b, WellFormed(a), WellFormed(b),
           NEW p, NEW env, Value(a, p, env) # Fault, Value(b, p, env) # Fault
    PROVE  Value(Expr("call", tag, id, <<a, b>>, {}), p, env)
             = Mix(tag, <<Value(a, p, env), Value(b, p, env)>>)
  <1> DEFINE e == Expr("call", tag, id, <<a, b>>, {})
  <1>1. e.op = "call" /\ e.tag = tag /\ e.args = <<a, b>>
    BY DEF Expr
  <1>2. WellFormed(e)
    BY BinaryWellFormed
  <1> HIDE DEF e
  <1>3. \A i \in DOMAIN e.args : WellFormed(e.args[i])
    BY <1>1
  <1> DEFINE args == [i \in DOMAIN e.args |-> Value(e.args[i], p, env)]
  <1>4. Value(e, p, env) = Gives(e, args, p, env)
    BY <1>2, <1>3, ValueUnfolds
  <1>5. args = <<Value(a, p, env), Value(b, p, env)>>
    BY <1>1
  <1>6. DOMAIN args = {1, 2} /\ args[1] = Value(a, p, env) /\ args[2] = Value(b, p, env)
    BY <1>5
  <1> HIDE DEF args
  <1>7. Value(e, p, env) = Mix(tag, args)
    BY <1>1, <1>4, <1>6 DEF Gives, IsVariable
  <1> QED
    BY <1>5, <1>7 DEF e

(* A select is the branch that its condition names. *)
LEMMA SelectValue ==
    ASSUME NEW id, NEW c, NEW a, NEW b, WellFormed(c), WellFormed(a), WellFormed(b),
           NEW p, NEW env, Value(c, p, env) # Fault
    PROVE  Value(Select(id, c, a, b), p, env)
             = IF Truth(Value(c, p, env)) THEN Value(a, p, env) ELSE Value(b, p, env)
  <1> DEFINE e == Select(id, c, a, b)
  <1>1. e.op = "select" /\ e.args = <<c, a, b>>
    BY DEF Select, Expr
  <1>2. WellFormed(e)
    BY SelectWellFormed
  <1> HIDE DEF e
  <1>3. \A i \in DOMAIN e.args : WellFormed(e.args[i])
    BY <1>1
  <1> DEFINE args == [i \in DOMAIN e.args |-> Value(e.args[i], p, env)]
  <1>4. Value(e, p, env) = Gives(e, args, p, env)
    BY <1>2, <1>3, ValueUnfolds
  <1>5. args = <<Value(c, p, env), Value(a, p, env), Value(b, p, env)>>
    BY <1>1
  <1>6. args[1] = Value(c, p, env) /\ args[2] = Value(a, p, env) /\ args[3] = Value(b, p, env)
    BY <1>5
  <1> HIDE DEF args
  <1>7. Value(e, p, env) = IF Truth(args[1]) THEN args[2] ELSE args[3]
    BY <1>1, <1>4, <1>6 DEF Gives, IsVariable
  <1> QED
    BY <1>6, <1>7 DEF e

-----------------------------------------------------------------------------
(* Texts: the inductive invariant. *)

(* After the declarations ds, v is what inner_fn means by it, at S. *)
Means(v, S, ds) ==
    /\ WellFormed(v.e)
    /\ \A p \in S : v.mean[p] \in Numbers /\ Value(v.e, p, After(ds, p)) = v.mean[p]

(* Code that is replayed with temporaries runs everywhere; a body runs     *)
(* where the code around it does and its mask holds.                       *)
Inside(i) == IF i = Len(frames) THEN within ELSE frames[i + 1].within
Nested ==
    /\ within \subseteq Points /\ (temporaries => within = Points)
    /\ \A i \in DOMAIN frames :
          /\ frames[i].within \subseteq Points
          /\ frames[i].saved => frames[i].within = Points
          /\ Inside(i) = {p \in frames[i].within : Truth(frames[i].mask.mean[p])}

(* The variables are those that were declared. *)
Environment ==
    \A p \in Points : DOMAIN After(bindings, p) = {bindings[i].name : i \in DOMAIN bindings}

(* What is in use, here or in the code around a body, means what it should. *)
Meant ==
    /\ \A v \in held \cup symbols : Means(v, within, bindings)
    /\ \A i \in DOMAIN frames :
          \A v \in {frames[i].mask} \cup frames[i].held \cup frames[i].symbols :
             Means(v, frames[i].within, bindings)

TextInv == Nested /\ Environment /\ LoadsStayMasked /\ Meant

-----------------------------------------------------------------------------
(* Declarations and _bind. *)

(* A name under a new number is none that was declared. *)
LEMMA NameIsNew ==
    ASSUME HandlerInv, NEW i \in DOMAIN bindings
    PROVE  /\ bindings[i].name # <<"tmp", count.tmp>>
           /\ bindings[i].name # <<"indirect", count.indirect>>
  <1>1. count.tmp \in Nat /\ count.indirect \in Nat
    BY DEF HandlerInv, Counts
  <1>2. \/ \E n \in 0..(count.tmp - 1) : bindings[i].name = <<"tmp", n>>
        \/ \E n \in 0..(count.indirect - 1) : bindings[i].name = <<"indirect", n>>
    BY DEF HandlerInv, NamesCounted
  <1>3. bindings[i].name # <<"tmp", count.tmp>>
    BY <1>1, <1>2
  <1>4. bindings[i].name # <<"indirect", count.indirect>>
    BY <1>1, <1>2
  <1> QED
    BY <1>3, <1>4

(* A new declaration leaves the others as they are. *)
LEMMA DeclareKeeps ==
    ASSUME HandlerInv, TextInv, NEW name, NEW e, NEW t,
           \A i \in DOMAIN bindings : bindings[i].name # name,
           bindings' = Append(bindings, [name |-> name, init |-> e, type |-> t]),
           \/ name[1] = "indirect"
           \/ \A p \in Points : Value(e, p, After(bindings, p)) # Fault
    PROVE  /\ Environment' /\ LoadsStayMasked'
           /\ \A p \in Points : /\ Extends(After(bindings', p), After(bindings, p))
                                /\ name \in DOMAIN After(bindings', p)
                                /\ After(bindings', p)[name] = Value(e, p, After(bindings, p))
  <1> DEFINE d == [name |-> name, init |-> e, type |-> t]
             n == Len(bindings) + 1
  <1>1. d.name = name /\ d.init = e
    OBVIOUS
  <1>2. /\ DOMAIN bindings' = DOMAIN bindings \cup {n} /\ bindings'[n] = d
        /\ \A i \in DOMAIN bindings : bindings'[i] = bindings[i]
    <2>1. /\ Len(bindings) \in Nat /\ DOMAIN bindings = 1..Len(bindings)
          /\ DOMAIN bindings' = 1..(Len(bindings) + 1)
          /\ \A i \in DOMAIN bindings : bindings'[i] = bindings[i]
          /\ bindings'[n] = d
      BY AppendListed DEF HandlerInv
    <2> QED
      BY <2>1
  <1>3. ASSUME NEW p \in Points
        PROVE  After(bindings', p) = Declare(After(bindings, p), d, p)
    BY AfterAppend DEF HandlerInv
  <1> HIDE DEF d, n
  <1>4. ASSUME NEW p \in Points
        PROVE  /\ DOMAIN After(bindings', p) = DOMAIN After(bindings, p) \cup {name}
               /\ After(bindings', p)[name] = Value(e, p, After(bindings, p))
               /\ \A x \in DOMAIN After(bindings, p) :
                     x # name => After(bindings', p)[x] = After(bindings, p)[x]
    BY <1>1, <1>3 DEF Declare
  <1>5. ASSUME NEW p \in Points
        PROVE  DOMAIN After(bindings, p) = {bindings[i].name : i \in DOMAIN bindings}
    BY DEF TextInv, Environment
  <1>6. ASSUME NEW p \in Points
        PROVE  Extends(After(bindings', p), After(bindings, p))
    BY <1>4, <1>5, ZenonT(60) DEF Extends
  <1>7. {bindings'[i].name : i \in DOMAIN bindings'}
          = {bindings[i].name : i \in DOMAIN bindings} \cup {name}
    BY <1>1, <1>2
  <1>8. Environment'
    BY <1>4, <1>5, <1>7 DEF Environment
  <1>9. LoadsStayMasked'
    <2>1. ASSUME NEW p \in Points, NEW i \in DOMAIN bindings',
                 After(bindings', p)[bindings'[i].name] = Fault
          PROVE  bindings'[i].name[1] = "indirect"
      <3>1. CASE i = n
        BY <1>1, <1>2, <1>4, <2>1, <3>1, ZenonT(60)
      <3>2. CASE i \in DOMAIN bindings
        <4>1. /\ bindings'[i].name = bindings[i].name
              /\ bindings[i].name \in DOMAIN After(bindings, p)
          BY <1>2, <1>5, <3>2
        <4>2. After(bindings, p)[bindings[i].name] = Fault
          BY <1>6, <2>1, <4>1 DEF Extends
        <4> QED
          BY <3>2, <4>1, <4>2 DEF TextInv, LoadsStayMasked
      <3> QED
        BY <1>2, <3>1, <3>2
    <2> QED
      BY <2>1 DEF LoadsStayMasked
  <1> QED
    BY <1>4, <1>6, <1>8, <1>9

(* So what is meant by a value stays. *)
LEMMA MeansPersists ==
    ASSUME NEW v, NEW S, NEW R, R \subseteq S, NEW ds, NEW es, Means(v, S, ds),
           \A p \in R : Extends(After(es, p), After(ds, p))
    PROVE  Means(v, R, es)
  <1>1. ASSUME NEW p \in R
        PROVE  v.mean[p] \in Numbers /\ Value(v.e, p, After(es, p)) = v.mean[p]
    <2>1. /\ WellFormed(v.e) /\ v.mean[p] \in Numbers
          /\ Value(v.e, p, After(ds, p)) = v.mean[p] /\ v.mean[p] # Fault
      BY ArithmeticAssumption DEF Means
    <2>2. Value(v.e, p, After(es, p)) = Value(v.e, p, After(ds, p))
      BY <2>1, ValuePersists
    <2> QED
      BY <2>1, <2>2
  <1> QED
    BY <1>1 DEF Means

(* A local that was declared means what its declaration does. *)
LEMMA VariableMeans ==
    ASSUME NEW name, NEW n, name = <<"tmp", n>> \/ name = <<"indirect", n>>,
           NEW v, v.e = Variable(name), NEW S, NEW ds,
           \A p \in S : /\ name \in DOMAIN After(ds, p) /\ After(ds, p)[name] = v.mean[p]
                        /\ v.mean[p] \in Numbers
    PROVE  Means(v, S, ds)
  <1>1. PICK op \in {"tmp", "indirect"} : name = <<op, n>>
    OBVIOUS
  <1>2. v.e = Expr(op, n, 0, <<>>, {}) /\ op # "select"
    BY <1>1 DEF Variable
  <1>3. WellFormed(v.e)
    BY <1>2, LeafWellFormed
  <1>4. ASSUME NEW p \in S PROVE Value(v.e, p, After(ds, p)) = v.mean[p]
    BY <1>1, VariableValue
  <1> QED
    BY <1>3, <1>4 DEF Means

(* _bind: what it hands back means what inner_fn does, and everything else *)
(* that is in use still does.                                              *)
LEMMA BindMeans ==
    ASSUME HandlerInv, TextInv, NEW e, WellFormed(e), NEW t, NEW mean, NEW type,
           NEW flag \in BOOLEAN, NEW base, NEW S \in SUBSET Points, flag => S = Points,
           \A p \in S : mean[p] \in Numbers /\ Value(e, p, After(bindings, p)) = mean[p],
           Bind(e, t, mean, type, flag, base)
    PROVE  /\ Environment' /\ LoadsStayMasked'
           /\ \A p \in Points : Extends(After(bindings', p), After(bindings, p))
           /\ \A v \in held' : v \in base \/ Means(v, S, bindings')
  <1> DEFINE name == <<"tmp", count.tmp>>
             new == [e |-> IF flag THEN Variable(name) ELSE e, mean |-> mean, type |-> type]
  <1>1. /\ bindings' = IF flag THEN Append(bindings, [name |-> name, init |-> e, type |-> t])
                       ELSE bindings
        /\ held' = base \cup {new}
    BY DEF Bind
  <1>2. new.mean = mean /\ new.e = IF flag THEN Variable(name) ELSE e
    OBVIOUS
  <1>3. \A i \in DOMAIN bindings : bindings[i].name # name
    BY NameIsNew
  <1>4. name = <<"tmp", count.tmp>>
    OBVIOUS
  <1> HIDE DEF new, name
  <1>5. CASE flag
    <2>1. /\ bindings' = Append(bindings, [name |-> name, init |-> e, type |-> t])
          /\ new.e = Variable(name) /\ S = Points
      BY <1>1, <1>2, <1>5
    <2>2. \A p \in Points : Value(e, p, After(bindings, p)) # Fault
      BY <2>1, ArithmeticAssumption
    <2>3. /\ Environment' /\ LoadsStayMasked'
          /\ \A p \in Points : /\ Extends(After(bindings', p), After(bindings, p))
                               /\ name \in DOMAIN After(bindings', p)
                               /\ After(bindings', p)[name] = Value(e, p, After(bindings, p))
      BY <1>3, <2>1, <2>2, DeclareKeeps
    <2>4. \A p \in S : /\ name \in DOMAIN After(bindings', p)
                       /\ After(bindings', p)[name] = new.mean[p] /\ new.mean[p] \in Numbers
      BY <1>2, <2>1, <2>3
    <2>5. Means(new, S, bindings')
      BY <1>4, <2>1, <2>4, VariableMeans
    <2> QED
      BY <1>1, <2>3, <2>5
  <1>6. CASE ~flag
    <2>1. bindings' = bindings /\ new.e = e
      BY <1>1, <1>2, <1>6
    <2>2. Means(new, S, bindings')
      BY <1>2, <2>1 DEF Means
    <2>3. Environment' /\ LoadsStayMasked'
      BY <2>1 DEF TextInv, Environment, LoadsStayMasked
    <2>4. \A p \in Points : Extends(After(bindings', p), After(bindings, p))
      BY <2>1 DEF Extends
    <2> QED
      BY <1>1, <2>2, <2>3, <2>4
  <1> QED
    BY <1>5, <1>6

-----------------------------------------------------------------------------
(* Steps. *)

(* At first nothing is in use. *)
LEMMA TextInit == Init => TextInv
  <1> SUFFICES ASSUME Init PROVE TextInv
    OBVIOUS
  <1>1. /\ bindings = <<>> /\ frames = <<>> /\ held = {} /\ symbols = {} /\ within = Points
    BY DEF Init
  <1>2. DOMAIN bindings = {} /\ DOMAIN frames = {}
    BY <1>1
  <1>3. Nested /\ Meant
    BY <1>1, <1>2 DEF Nested, Meant
  <1>4. Environment
    <2>1. \A p \in Points : After(bindings, p) = <<>>
      BY <1>1, AfterNone
    <2>2. \A p \in Points : DOMAIN After(bindings, p) = {}
      BY <2>1
    <2>3. {bindings[i].name : i \in DOMAIN bindings} = {}
      BY <1>2
    <2> QED
      BY <2>2, <2>3 DEF Environment
  <1>5. LoadsStayMasked
    BY <1>2 DEF LoadsStayMasked
  <1> QED
    BY <1>3, <1>4, <1>5 DEF TextInv

(* A method that only binds. *)
LEMMA MethodMeans ==
    ASSUME HandlerInv, TextInv, NEW kind, NEW e, WellFormed(e), NEW t, NEW mean, NEW type,
           \A p \in within : mean[p] \in Numbers /\ Value(e, p, After(bindings, p)) = mean[p],
           Method(kind, e, t, mean, type)
    PROVE  TextInv'
  <1>1. /\ Bind(e, t, mean, type, temporaries, held)
        /\ UNCHANGED <<temporaries, frames, symbols, within>>
    BY DEF Method
  <1>2. within \in SUBSET Points /\ (temporaries => within = Points)
    BY DEF TextInv, Nested
  <1>3. /\ Environment' /\ LoadsStayMasked'
        /\ \A p \in Points : Extends(After(bindings', p), After(bindings, p))
        /\ \A v \in held' : v \in held \/ Means(v, within, bindings')
    <2>1. PICK S \in SUBSET Points : S = within
      BY <1>2
    <2>2. \A p \in S : mean[p] \in Numbers /\ Value(e, p, After(bindings, p)) = mean[p]
      BY <2>1
    <2>3. CASE temporaries
      <3>1. S = Points /\ Bind(e, t, mean, type, TRUE, held)
        BY <1>1, <1>2, <2>1, <2>3 DEF HandlerInv
      <3> QED
        BY <2>1, <2>2, <3>1, BindMeans
    <2>4. CASE ~temporaries
      <3>1. Bind(e, t, mean, type, FALSE, held)
        BY <1>1, <2>4 DEF HandlerInv
      <3> QED
        BY <2>1, <2>2, <3>1, BindMeans
    <2> QED
      BY <2>3, <2>4
  <1>4. Nested'
    BY <1>1 DEF TextInv, Nested, Inside
  <1>5. \A v \in held' \cup symbols' : Means(v, within, bindings')
    <2>1. ASSUME NEW v \in held \cup symbols PROVE Means(v, within, bindings')
      <3>1. Means(v, within, bindings)
        BY DEF TextInv, Meant
      <3> QED
        BY <1>2, <1>3, <3>1, MeansPersists
    <2> QED
      BY <1>1, <1>3, <2>1
  <1>6. ASSUME NEW i \in DOMAIN frames,
               NEW v \in {frames[i].mask} \cup frames[i].held \cup frames[i].symbols
        PROVE  Means(v, frames[i].within, bindings')
    <2>1. Means(v, frames[i].within, bindings) /\ frames[i].within \subseteq Points
      BY DEF TextInv, Nested, Meant
    <2> QED
      BY <1>3, <2>1, MeansPersists
  <1>7. Meant'
    BY <1>1, <1>5, <1>6 DEF Meant
  <1> QED
    BY <1>3, <1>4, <1>7 DEF TextInv

(* What is in use does not fault here. *)
LEMMA HeldMeans ==
    ASSUME TextInv, NEW v \in held \cup symbols \cup {Index}, NEW p \in within
    PROVE  /\ WellFormed(v.e) /\ v.mean[p] \in Numbers
           /\ Value(v.e, p, After(bindings, p)) = v.mean[p] /\ v.mean[p] # Fault
  <1>1. CASE v \in held \cup symbols
    BY <1>1, ArithmeticAssumption DEF TextInv, Meant, Means
  <1>2. CASE v = Index
    <2>1. v.e = LoopIndex(0) /\ p \in Points /\ v.mean[p] = p
      BY <1>2 DEF Index, TextInv, Nested
    <2>2. WellFormed(v.e) /\ Value(v.e, p, After(bindings, p)) = p
      BY <2>1, IndexValue
    <2> QED
      BY <2>1, <2>2, ArithmeticAssumption
  <1> QED
    BY <1>1, <1>2

(* A load within bounds is what its buffer holds at the address.           *)
LEMMA LoadMeans == HandlerInv /\ TextInv /\ Load => TextInv'
  <1> SUFFICES ASSUME HandlerInv, TextInv, Load PROVE TextInv'
    OBVIOUS
  <1>1. PICK b \in DOMAIN BufferType, at \in symbols \cup {Index}, id \in NewIds :
           Method("load", Expr("load", b, id, <<at.e>>, within), BufferType[b],
                  [p \in within |-> Mix(b, <<at.mean[p]>>)], BufferType[b])
    BY DEF Load
  <1> DEFINE e == Expr("load", b, id, <<at.e>>, within)
             mean == [p \in within |-> Mix(b, <<at.mean[p]>>)]
  <1>2. WellFormed(at.e)
    BY IndexValue DEF TextInv, Meant, Means, Index
  <1>3. WellFormed(e)
    BY <1>2, UnaryWellFormed
  <1>4. ASSUME NEW p \in within
        PROVE  mean[p] \in Numbers /\ Value(e, p, After(bindings, p)) = mean[p]
    <2>1. /\ at.mean[p] \in Numbers /\ Value(at.e, p, After(bindings, p)) = at.mean[p]
          /\ at.mean[p] # Fault
      BY HeldMeans
    <2>2. Value(e, p, After(bindings, p)) = Mix(b, <<Value(at.e, p, After(bindings, p))>>)
      BY <1>2, <2>1, UnaryValue
    <2>3. Mix(b, <<at.mean[p]>>) \in Numbers
      BY <2>1, ArithmeticAssumption
    <2> QED
      BY <2>1, <2>2, <2>3
  <1>5. Method("load", e, BufferType[b], mean, BufferType[b])
    BY <1>1
  <1> HIDE DEF e, mean
  <1> QED
    BY <1>3, <1>4, <1>5, MethodMeans

(* An operation is what it makes of its operands.                          *)
LEMMA CallMeans == HandlerInv /\ TextInv /\ Call => TextInv'
  <1> SUFFICES ASSUME HandlerInv, TextInv, Call PROVE TextInv'
    OBVIOUS
  <1>1. PICK a \in held, b \in held, id \in NewIds :
           Method("call", Expr("call", 0, id, <<a.e, b.e>>, {}),
                  Promote({DtypeOf(a.e), DtypeOf(b.e)}),
                  [p \in within |-> Mix(0, <<a.mean[p], b.mean[p]>>)],
                  Promote({a.type, b.type}))
    BY DEF Call
  <1> DEFINE e == Expr("call", 0, id, <<a.e, b.e>>, {})
             mean == [p \in within |-> Mix(0, <<a.mean[p], b.mean[p]>>)]
             t == Promote({DtypeOf(a.e), DtypeOf(b.e)})
             type == Promote({a.type, b.type})
  <1>2. WellFormed(a.e) /\ WellFormed(b.e)
    BY DEF TextInv, Meant, Means
  <1>3. WellFormed(e)
    BY <1>2, BinaryWellFormed
  <1>4. ASSUME NEW p \in within
        PROVE  mean[p] \in Numbers /\ Value(e, p, After(bindings, p)) = mean[p]
    <2>1. /\ a.mean[p] \in Numbers /\ Value(a.e, p, After(bindings, p)) = a.mean[p]
          /\ b.mean[p] \in Numbers /\ Value(b.e, p, After(bindings, p)) = b.mean[p]
          /\ a.mean[p] # Fault /\ b.mean[p] # Fault
      BY HeldMeans
    <2>2. Value(e, p, After(bindings, p))
            = Mix(0, <<Value(a.e, p, After(bindings, p)), Value(b.e, p, After(bindings, p))>>)
      BY <1>2, <2>1, BinaryValue
    <2>3. Mix(0, <<a.mean[p], b.mean[p]>>) \in Numbers
      BY <2>1, ArithmeticAssumption
    <2> QED
      BY <2>1, <2>2, <2>3
  <1>5. Method("call", e, t, mean, type)
    BY <1>1
  <1> HIDE DEF e, mean, t, type
  <1> QED
    BY <1>3, <1>4, <1>5, MethodMeans

(* A select is the branch that its condition names.                        *)
LEMMA WhereMeans == HandlerInv /\ TextInv /\ Where => TextInv'
  <1> SUFFICES ASSUME HandlerInv, TextInv, Where PROVE TextInv'
    OBVIOUS
  <1>1. PICK c \in held, a \in held, b \in held, id \in NewIds :
           Method("call", Select(id, c.e, a.e, b.e),
                  Promote({DtypeOf(a.e), DtypeOf(b.e)}),
                  [p \in within |-> IF Truth(c.mean[p]) THEN a.mean[p] ELSE b.mean[p]],
                  Promote({a.type, b.type}))
    BY DEF Where
  <1> DEFINE e == Select(id, c.e, a.e, b.e)
             mean == [p \in within |-> IF Truth(c.mean[p]) THEN a.mean[p] ELSE b.mean[p]]
             t == Promote({DtypeOf(a.e), DtypeOf(b.e)})
             type == Promote({a.type, b.type})
  <1>2. WellFormed(a.e) /\ WellFormed(b.e) /\ WellFormed(c.e)
    BY DEF TextInv, Meant, Means
  <1>3. WellFormed(e)
    BY <1>2, SelectWellFormed
  <1>4. ASSUME NEW p \in within
        PROVE  mean[p] \in Numbers /\ Value(e, p, After(bindings, p)) = mean[p]
    <2>1. /\ a.mean[p] \in Numbers /\ Value(a.e, p, After(bindings, p)) = a.mean[p]
          /\ b.mean[p] \in Numbers /\ Value(b.e, p, After(bindings, p)) = b.mean[p]
          /\ Value(c.e, p, After(bindings, p)) = c.mean[p] /\ c.mean[p] # Fault
      BY HeldMeans
    <2>2. Value(e, p, After(bindings, p))
            = IF Truth(Value(c.e, p, After(bindings, p)))
              THEN Value(a.e, p, After(bindings, p)) ELSE Value(b.e, p, After(bindings, p))
      BY <1>2, <2>1, SelectValue
    <2> QED
      BY <2>1, <2>2
  <1>5. Method("call", e, t, mean, type)
    BY <1>1
  <1> HIDE DEF e, mean, t, type
  <1> QED
    BY <1>3, <1>4, <1>5, MethodMeans

(* A cast is what it makes of the value or index.                          *)
LEMMA CastMeans == HandlerInv /\ TextInv /\ Cast => TextInv'
  <1> SUFFICES ASSUME HandlerInv, TextInv, Cast PROVE TextInv'
    OBVIOUS
  <1>1. PICK a \in held \cup {Index}, t \in CastTypes, id \in NewIds :
           Method("call", Expr("call", t, id, <<a.e>>, {}), t,
                  [p \in within |-> Mix(t, <<a.mean[p]>>)], t)
    BY DEF Cast
  <1> DEFINE e == Expr("call", t, id, <<a.e>>, {})
             mean == [p \in within |-> Mix(t, <<a.mean[p]>>)]
  <1>2. WellFormed(a.e)
    BY IndexValue DEF TextInv, Meant, Means, Index
  <1>3. WellFormed(e)
    BY <1>2, UnaryWellFormed
  <1>4. ASSUME NEW p \in within
        PROVE  mean[p] \in Numbers /\ Value(e, p, After(bindings, p)) = mean[p]
    <2>1. /\ a.mean[p] \in Numbers /\ Value(a.e, p, After(bindings, p)) = a.mean[p]
          /\ a.mean[p] # Fault
      BY HeldMeans
    <2>2. Value(e, p, After(bindings, p)) = Mix(t, <<Value(a.e, p, After(bindings, p))>>)
      BY <1>2, <2>1, UnaryValue
    <2>3. Mix(t, <<a.mean[p]>>) \in Numbers
      BY <2>1, ArithmeticAssumption
    <2> QED
      BY <2>1, <2>2, <2>3
  <1>5. Method("call", e, t, mean, t)
    BY <1>1
  <1> HIDE DEF e, mean
  <1> QED
    BY <1>3, <1>4, <1>5, MethodMeans

(* An index is what it is everywhere.                                      *)
LEMMA IndexExprMeans == HandlerInv /\ TextInv /\ IndexExpr => TextInv'
  <1> SUFFICES ASSUME HandlerInv, TextInv, IndexExpr PROVE TextInv'
    OBVIOUS
  <1>1. PICK t \in CastTypes, id \in NewIds :
           Method("call", LoopIndex(id), t, Index.mean, IF temporaries THEN t ELSE None)
    BY DEF IndexExpr
  <1> DEFINE e == LoopIndex(id)
             type == IF temporaries THEN t ELSE None
  <1>2. WellFormed(e)
    BY IndexValue
  <1>3. ASSUME NEW p \in within
        PROVE  Index.mean[p] \in Numbers /\ Value(e, p, After(bindings, p)) = Index.mean[p]
    <2>1. Index.mean[p] = p /\ p \in Numbers
      BY ArithmeticAssumption DEF Index, TextInv, Nested
    <2>2. Value(e, p, After(bindings, p)) = p
      BY IndexValue
    <2> QED
      BY <2>1, <2>2
  <1>4. Method("call", e, t, Index.mean, type)
    BY <1>1
  <1> HIDE DEF e, type
  <1> QED
    BY <1>2, <1>3, <1>4, MethodMeans

(* A body starts with what is in use around it.                            *)
LEMMA BeginMaskedMeans == HandlerInv /\ TextInv /\ BeginMasked => TextInv'
  <1> SUFFICES ASSUME HandlerInv, TextInv, BeginMasked PROVE TextInv'
    OBVIOUS
  <1>1. PICK mask \in held :
           /\ frames' = Append(frames, [mask |-> mask, saved |-> temporaries, held |-> held,
                                        symbols |-> symbols, within |-> within])
           /\ within' = {p \in within : Truth(mask.mean[p])}
    BY DEF BeginMasked
  <1>2. temporaries' = FALSE /\ UNCHANGED <<bindings, dtypes, held, symbols>>
    BY DEF BeginMasked
  <1> DEFINE f == [mask |-> mask, saved |-> temporaries, held |-> held,
                   symbols |-> symbols, within |-> within]
             n == Len(frames)
  <1>3. /\ f.mask = mask /\ f.saved = temporaries /\ f.held = held /\ f.symbols = symbols
        /\ f.within = within
    OBVIOUS
  <1> HIDE DEF f
  <1>4. /\ n \in Nat /\ DOMAIN frames = 1..n /\ DOMAIN frames' = 1..(n + 1)
        /\ frames'[n + 1] = f /\ \A i \in DOMAIN frames : frames'[i] = frames[i]
        /\ Len(frames') = n + 1
    <2>1. /\ n \in Nat /\ DOMAIN frames = 1..n /\ DOMAIN frames' = 1..(n + 1)
          /\ frames'[n + 1] = f /\ \A i \in DOMAIN frames : frames'[i] = frames[i]
          /\ Listed(frames')
      BY <1>1, AppendListed DEF HandlerInv, f
    <2>2. Len(frames') \in Nat /\ DOMAIN frames' = 1..Len(frames')
      BY <2>1, LenProperties DEF Listed
    <2> QED
      BY <2>1, <2>2, SameLength
  <1> HIDE DEF n
  <1>5. Nested'
    <2>1. within' \subseteq Points /\ (temporaries' => within' = Points)
      BY <1>1, <1>2 DEF TextInv, Nested
    <2>2. ASSUME NEW i \in DOMAIN frames
          PROVE  /\ frames'[i].within \subseteq Points
                 /\ frames'[i].saved => frames'[i].within = Points
                 /\ Inside(i)' = {p \in frames'[i].within : Truth(frames'[i].mask.mean[p])}
      <3>1. Inside(i)' = Inside(i)
        <4>1. i # n + 1 /\ (i # n => i + 1 \in DOMAIN frames)
          BY <1>4
        <4>2. CASE i = n
          BY <1>3, <1>4, <4>1, <4>2, ZenonT(60) DEF Inside, n
        <4>3. CASE i # n
          BY <1>4, <4>1, <4>3 DEF Inside, n
        <4> QED
          BY <4>2, <4>3
      <3> QED
        BY <1>4, <3>1 DEF TextInv, Nested
    <2>3. ASSUME NEW i \in {n + 1}
          PROVE  /\ frames'[i].within \subseteq Points
                 /\ frames'[i].saved => frames'[i].within = Points
                 /\ Inside(i)' = {p \in frames'[i].within : Truth(frames'[i].mask.mean[p])}
      <3>1. frames'[i] = f /\ Inside(i)' = within'
        BY <1>4 DEF Inside
      <3> QED
        BY <1>1, <1>3, <3>1 DEF TextInv, Nested
    <2>4. \A i \in DOMAIN frames' : i \in DOMAIN frames \/ i \in {n + 1}
      BY <1>4
    <2> QED
      BY <2>1, <2>2, <2>3, <2>4 DEF Nested
  <1>6. Meant'
    <2>1. \A v \in held \cup symbols : Means(v, within, bindings) /\ Means(v, within', bindings)
      BY <1>1 DEF TextInv, Meant, Means
    <2>2. \A v \in {f.mask} \cup f.held \cup f.symbols : Means(v, f.within, bindings)
      BY <1>3, <2>1
    <2>3. \A i \in DOMAIN frames : \A v \in {frames[i].mask} \cup frames[i].held \cup frames[i].symbols :
             Means(v, frames[i].within, bindings)
      BY DEF TextInv, Meant
    <2>4. \A i \in DOMAIN frames' : i \in DOMAIN frames \/ i = n + 1
      BY <1>4
    <2> QED
      BY <1>2, <1>4, <2>1, <2>2, <2>3, <2>4 DEF Meant
  <1>7. Environment' /\ LoadsStayMasked'
    BY <1>2 DEF TextInv, Environment, LoadsStayMasked
  <1> QED
    BY <1>5, <1>6, <1>7 DEF TextInv

(* The value of a body is masked: elsewhere it is the number other. Where  *)
(* temporaries are on again, the code around it runs everywhere.           *)
LEMMA EndMaskedMeans == HandlerInv /\ TextInv /\ EndMasked => TextInv'
  <1> SUFFICES ASSUME HandlerInv, TextInv, EndMasked PROVE TextInv'
    OBVIOUS
  <1> DEFINE frame == Last(frames)
             n == Len(frames)
  <1>1. PICK value \in held, other \in OtherTypes, id \in NewIds :
           /\ frames # <<>>
           /\ temporaries' = Restored(frame)
           /\ Bind(Select(id, frame.mask.e, value.e, Other), Promote({DtypeOf(value.e), other}),
                   [p \in frame.within |-> IF p \in within THEN value.mean[p] ELSE Other.tag],
                   Promote({value.type, other}), Restored(frame), frame.held)
           /\ frames' = Front(frames)
           /\ within' = frame.within
           /\ symbols' = frame.symbols
    BY DEF EndMasked
  <1>2. /\ n \in DOMAIN frames /\ frame = frames[n]
        /\ n \in Nat /\ DOMAIN frames = 1..n /\ DOMAIN frames' = 1..(n - 1)
        /\ Len(frames') = n - 1
        /\ \A i \in DOMAIN frames' : frames'[i] = frames[i]
    <2>1. frames \in Seq({frames[i] : i \in DOMAIN frames}) /\ n \in Nat /\ DOMAIN frames = 1..n
      BY LenProperties DEF HandlerInv, Listed
    <2>2. /\ Listed(frames') /\ n \in DOMAIN frames /\ frame = frames[n]
          /\ \A i \in DOMAIN frames' : i \in DOMAIN frames /\ frames'[i] = frames[i]
      BY <1>1, FrontListed DEF HandlerInv, Last
    <2>3. frames' = [i \in 1..(n - 1) |-> frames[i]]
      BY <1>1, <2>1, <2>2 DEF Front
    <2>4. DOMAIN frames' = 1..(n - 1) /\ n - 1 \in Nat
      BY <2>1, <2>2, <2>3
    <2>5. Len(frames') \in Nat /\ DOMAIN frames' = 1..Len(frames')
      BY <2>2, LenProperties DEF Listed
    <2>6. Len(frames') = n - 1
      BY <2>4, <2>5, SameLength
    <2> QED
      BY <2>1, <2>2, <2>4, <2>6
  <1> HIDE DEF frame, n
  <1> DEFINE e == Select(id, frame.mask.e, value.e, Other)
             mean == [p \in frame.within |-> IF p \in within THEN value.mean[p] ELSE Other.tag]
             t == Promote({DtypeOf(value.e), other})
             type == Promote({value.type, other})
  <1>3. /\ frame.within \subseteq Points
        /\ Restored(frame) => frame.within = Points
        /\ within = {p \in frame.within : Truth(frame.mask.mean[p])}
    BY <1>2 DEF TextInv, Nested, Inside, n, Restored
  <1>4. /\ Means(value, within, bindings)
        /\ \A v \in {frame.mask} \cup frame.held \cup frame.symbols :
              Means(v, frame.within, bindings)
    BY <1>2 DEF TextInv, Meant
  <1>5. WellFormed(value.e) /\ WellFormed(frame.mask.e) /\ WellFormed(Other)
    BY <1>4, OtherValue DEF Means
  <1>6. WellFormed(e)
    BY <1>5, SelectWellFormed
  <1>7. ASSUME NEW p \in frame.within
        PROVE  mean[p] \in Numbers /\ Value(e, p, After(bindings, p)) = mean[p]
    <2>1. /\ Value(frame.mask.e, p, After(bindings, p)) = frame.mask.mean[p]
          /\ frame.mask.mean[p] # Fault
      BY <1>4, ArithmeticAssumption DEF Means
    <2>2. Value(e, p, After(bindings, p))
            = IF Truth(Value(frame.mask.e, p, After(bindings, p)))
              THEN Value(value.e, p, After(bindings, p)) ELSE Value(Other, p, After(bindings, p))
      BY <1>5, <2>1, SelectValue
    <2>3. Value(Other, p, After(bindings, p)) = Other.tag
      BY OtherValue
    <2>4. p \in within => /\ value.mean[p] \in Numbers
                          /\ Value(value.e, p, After(bindings, p)) = value.mean[p]
      BY <1>4 DEF Means
    <2>5. mean[p] = IF p \in within THEN value.mean[p] ELSE Other.tag
      OBVIOUS
    <2>6. p \in within <=> Truth(frame.mask.mean[p])
      BY <1>3
    <2> QED
      BY <2>1, <2>2, <2>3, <2>4, <2>5, <2>6, ArithmeticAssumption
  <1>8. Bind(e, t, mean, type, Restored(frame), frame.held)
    BY <1>1
  <1> HIDE DEF e, mean, t, type
  <1>9. /\ Environment' /\ LoadsStayMasked'
        /\ \A p \in Points : Extends(After(bindings', p), After(bindings, p))
        /\ \A v \in held' : v \in frame.held \/ Means(v, frame.within, bindings')
    <2>1. PICK S \in SUBSET Points : S = frame.within
      BY <1>3
    <2>2. \A p \in S : mean[p] \in Numbers /\ Value(e, p, After(bindings, p)) = mean[p]
      BY <1>7, <2>1
    <2>3. CASE Restored(frame)
      <3>1. S = Points /\ Bind(e, t, mean, type, TRUE, frame.held)
        BY <1>2, <1>3, <1>8, <2>1, <2>3 DEF HandlerInv, Restored
      <3> QED
        BY <1>6, <2>1, <2>2, <3>1, BindMeans
    <2>4. CASE ~Restored(frame)
      <3>1. Bind(e, t, mean, type, FALSE, frame.held)
        BY <1>2, <1>8, <2>4 DEF HandlerInv, Restored
      <3> QED
        BY <1>6, <2>1, <2>2, <3>1, BindMeans
    <2> QED
      BY <2>3, <2>4
  <1>10. Nested'
    <2>1. within' \subseteq Points /\ (temporaries' => within' = Points)
      BY <1>1, <1>3
    <2>2. ASSUME NEW i \in DOMAIN frames'
          PROVE  i \in DOMAIN frames /\ Inside(i)' = Inside(i)
      <3>1. i \in DOMAIN frames /\ i # n /\ (i # n - 1 => i + 1 \in DOMAIN frames')
            /\ (i = n - 1 => i + 1 = n)
        BY <1>2
      <3>2. CASE i = n - 1
        BY <1>1, <1>2, <3>1, <3>2, ZenonT(60) DEF Inside, n
      <3>3. CASE i # n - 1
        BY <1>2, <3>1, <3>3 DEF Inside, n
      <3> QED
        BY <3>1, <3>2, <3>3
    <2> QED
      BY <1>2, <2>1, <2>2 DEF TextInv, Nested
  <1>11. Meant'
    <2>1. ASSUME NEW v \in frame.held \cup frame.symbols
          PROVE  Means(v, frame.within, bindings')
      BY <1>3, <1>4, <1>9, MeansPersists
    <2>2. ASSUME NEW i \in DOMAIN frames,
                 NEW v \in {frames[i].mask} \cup frames[i].held \cup frames[i].symbols
          PROVE  Means(v, frames[i].within, bindings')
      <3>1. Means(v, frames[i].within, bindings) /\ frames[i].within \subseteq Points
        BY DEF TextInv, Nested, Meant
      <3> QED
        BY <1>9, <3>1, MeansPersists
    <2>3. \A v \in held' \cup symbols' : Means(v, within', bindings')
      BY <1>1, <1>9, <2>1
    <2>4. \A i \in DOMAIN frames' : i \in DOMAIN frames
      BY <1>2
    <2> QED
      BY <1>2, <2>2, <2>3, <2>4 DEF Meant
  <1> QED
    BY <1>9, <1>10, <1>11 DEF TextInv

(* What wrap_neg makes of an index is the index, counted from the start.   *)
LEMMA WrappedValue ==
    ASSUME NEW e, WellFormed(e), NEW size \in Sizes, NEW p, NEW env, NEW v \in Numbers,
           Value(e, p, env) = v
    PROVE  /\ Value(WrapNegative(e, size), p, env) = Wrapped(v, size)
           /\ Wrapped(v, size) \in Numbers
  <1> DEFINE negative == Expr("call", Less, 0, <<e, Number(0)>>, {})
             fromEnd  == Expr("call", Plus, 0, <<e, Number(size)>>, {})
  <1>1. /\ WellFormed(Number(0)) /\ Value(Number(0), p, env) = 0
        /\ WellFormed(Number(size)) /\ Value(Number(size), p, env) = size
    BY NumberValue
  <1>2. /\ {0, size} \subseteq Numbers /\ v # Fault /\ 0 # Fault /\ size # Fault
        /\ Mix(Less, <<v, 0>>) \in Numbers /\ Mix(Plus, <<v, size>>) \in Numbers
        /\ Mix(Less, <<v, 0>>) # Fault
    BY ArithmeticAssumption
  <1>3. WellFormed(negative) /\ WellFormed(fromEnd)
    BY <1>1, BinaryWellFormed
  <1>4. /\ Value(negative, p, env) = Mix(Less, <<v, 0>>)
        /\ Value(fromEnd, p, env) = Mix(Plus, <<v, size>>)
    BY <1>1, <1>2, BinaryValue
  <1>5. WrapNegative(e, size) = Select(0, negative, fromEnd, e)
    BY DEF WrapNegative
  <1> HIDE DEF negative, fromEnd
  <1>6. Value(WrapNegative(e, size), p, env)
          = IF Truth(Value(negative, p, env)) THEN Value(fromEnd, p, env) ELSE Value(e, p, env)
    BY <1>2, <1>3, <1>4, <1>5, SelectValue
  <1> QED
    BY <1>2, <1>4, <1>6 DEF Wrapped

(* An index variable means what the index does; its declaration may fault. *)
LEMMA IndirectMeans == HandlerInv /\ TextInv /\ IndirectIndexing => TextInv'
  <1> SUFFICES ASSUME HandlerInv, TextInv, IndirectIndexing PROVE TextInv'
    OBVIOUS
  <1> DEFINE name == <<"indirect", count.indirect>>
  <1>0. PICK index \in held, size \in Sizes, wrap \in BOOLEAN :
           LET t    == IF DtypeOf(index.e) = None THEN DefaultType ELSE DtypeOf(index.e)
               init == IF wrap THEN WrapNegative(index.e, size) ELSE index.e
               mean == [p \in within |-> IF wrap THEN Wrapped(index.mean[p], size)
                                         ELSE index.mean[p]]
           IN /\ bindings' = Declared([name |-> name, init |-> init, type |-> t])
              /\ symbols' = symbols \cup
                    {[e |-> Variable(name), mean |-> mean,
                      type |-> IF index.type = None THEN DefaultType ELSE index.type]}
              /\ UNCHANGED <<temporaries, dtypes, frames, held, within>>
    BY Zenon DEF IndirectIndexing
  <1> DEFINE init == IF wrap THEN WrapNegative(index.e, size) ELSE index.e
             mean == [p \in within |-> IF wrap THEN Wrapped(index.mean[p], size)
                                       ELSE index.mean[p]]
             t    == IF DtypeOf(index.e) = None THEN DefaultType ELSE DtypeOf(index.e)
             type == IF index.type = None THEN DefaultType ELSE index.type
  <1>1. /\ bindings' = Append(bindings, [name |-> name, init |-> init, type |-> t])
        /\ symbols' = symbols \cup {[e |-> Variable(name), mean |-> mean, type |-> type]}
        /\ UNCHANGED <<temporaries, dtypes, frames, held, within>>
    BY <1>0 DEF Declared
  <1> DEFINE new == [e |-> Variable(name), mean |-> mean, type |-> type]
  <1>2. new.e = Variable(name) /\ new.mean = mean /\ name[1] = "indirect"
    OBVIOUS
  <1>3. \A i \in DOMAIN bindings : bindings[i].name # name
    BY NameIsNew
  <1>4. name = <<"indirect", count.indirect>> /\ symbols' = symbols \cup {new}
    BY <1>1
  <1>4a. \A p \in within : mean[p] = IF wrap THEN Wrapped(index.mean[p], size)
                                    ELSE index.mean[p]
    OBVIOUS
  <1>4b. init = IF wrap THEN WrapNegative(index.e, size) ELSE index.e
    OBVIOUS
  <1> HIDE DEF name, new, init, mean, t, type
  <1>5. /\ Environment' /\ LoadsStayMasked'
        /\ \A p \in Points : /\ Extends(After(bindings', p), After(bindings, p))
                             /\ name \in DOMAIN After(bindings', p)
                             /\ After(bindings', p)[name] = Value(init, p, After(bindings, p))
    BY <1>1, <1>2, <1>3, DeclareKeeps
  <1>6. within \subseteq Points
    BY DEF TextInv, Nested
  <1>7. Means(index, within, bindings)
    BY DEF TextInv, Meant
  <1>7a. \A p \in within : /\ Value(init, p, After(bindings, p)) = mean[p]
                           /\ mean[p] \in Numbers
    <2> TAKE p \in within
    <2>1. /\ WellFormed(index.e) /\ index.mean[p] \in Numbers
          /\ Value(index.e, p, After(bindings, p)) = index.mean[p]
      BY <1>7 DEF Means
    <2> QED
      BY <1>4a, <1>4b, <2>1, WrappedValue
  <1>8. \A p \in within : /\ name \in DOMAIN After(bindings', p)
                          /\ After(bindings', p)[name] = new.mean[p] /\ new.mean[p] \in Numbers
    BY <1>2, <1>5, <1>6, <1>7a
  <1>9. Means(new, within, bindings')
    BY <1>2, <1>4, <1>8, VariableMeans
  <1>10. Nested'
    BY <1>1 DEF TextInv, Nested, Inside
  <1>11. Meant'
    <2>1. ASSUME NEW v \in held \cup symbols PROVE Means(v, within, bindings')
      <3>1. Means(v, within, bindings)
        BY DEF TextInv, Meant
      <3> QED
        BY <1>5, <1>6, <3>1, MeansPersists
    <2>2. ASSUME NEW i \in DOMAIN frames,
                 NEW v \in {frames[i].mask} \cup frames[i].held \cup frames[i].symbols
          PROVE  Means(v, frames[i].within, bindings')
      <3>1. Means(v, frames[i].within, bindings) /\ frames[i].within \subseteq Points
        BY DEF TextInv, Nested, Meant
      <3> QED
        BY <1>5, <3>1, MeansPersists
    <2> QED
      BY <1>1, <1>4, <1>9, <2>1, <2>2 DEF Meant
  <1> QED
    BY <1>5, <1>10, <1>11 DEF TextInv

(* A value that is forgotten leaves the others as they are.                *)
LEMMA ForgetMeans == TextInv /\ Forget => TextInv'
  <1> SUFFICES ASSUME TextInv, Forget PROVE TextInv'
    OBVIOUS
  <1>1. /\ held' \subseteq held
        /\ UNCHANGED <<temporaries, bindings, dtypes, frames, symbols, within>>
    BY DEF Forget
  <1>2. Meant'
    BY <1>1 DEF TextInv, Meant
  <1> QED
    BY <1>1, <1>2 DEF TextInv, Nested, Inside, Environment, LoadsStayMasked

(* Nothing happens.                                                        *)
LEMMA StutterMeans == TextInv /\ UNCHANGED vars => TextInv'
  <1> SUFFICES ASSUME TextInv, UNCHANGED vars PROVE TextInv'
    OBVIOUS
  <1>1. UNCHANGED <<temporaries, bindings, dtypes, frames, held, symbols, within>>
    BY DEF vars
  <1>2. Meant'
    BY <1>1 DEF TextInv, Meant
  <1> QED
    BY <1>1, <1>2 DEF TextInv, Nested, Inside, Environment, LoadsStayMasked

(* TextInv is an invariant: every call keeps what the values in use mean.  *)
THEOREM TextInvariant == Spec => []TextInv
  <1>1. HandlerInv /\ TextInv /\ [Next]_vars => TextInv'
    BY LoadMeans, CallMeans, WhereMeans, CastMeans, IndexExprMeans, BeginMaskedMeans,
       EndMaskedMeans, IndirectMeans, ForgetMeans, StutterMeans
    DEF Next, Return
  <1> QED
    BY TextInit, HandlerInvariant, <1>1, PTL DEF Spec

-----------------------------------------------------------------------------
(* For any number of calls, declarations and nested masks, any buffers and *)
(* any arithmetic, the text that inner_fn was handed computes what it      *)
(* means, wherever the code now replayed is meant to run (_bind, masked,   *)
(* indirect_indexing).                                                     *)
THEOREM ValuesAreKept == Spec => []ValuesKept
  <1>1. TextInv => ValuesKept
    BY DEF TextInv, Meant, Means, ValuesKept
  <1> QED
    BY TextInvariant, <1>1, PTL

(* A load that a mask guards is never hoisted out of it, but for an index  *)
(* variable that masked code declares (masked, _bind).                     *)
THEOREM MaskedLoadsStay == Spec => []LoadsStayMasked
  <1>1. TextInv => LoadsStayMasked
    BY DEF TextInv
  <1> QED
    BY TextInvariant, <1>1, PTL
=============================================================================
