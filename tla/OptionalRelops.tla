---------------------------- MODULE OptionalRelops ----------------------------
(***************************************************************************)
(* Comparisons and hashes of optional<T>: optional_relops.hpp and          *)
(* optional_hash.hpp.  The six operators come in five forms: an optional   *)
(* with an optional, with a T on either side, and with none on either      *)
(* side.  None stands for none and for an optional without a value, and an *)
(* engaged optional for its value.                                         *)
(*                                                                         *)
(* T's own operators are unknown, so they are part of the state: a         *)
(* behaviour fixes them, and then the program evaluates expressions.       *)
(***************************************************************************)
CONSTANTS
    Values,  \* the values of T
    None,    \* no value
    Hashes,  \* what T's hash function may yield
    NoHash,  \* a value-initialized result_type
    Lawful   \* TRUE when T's operators obey the usual axioms

Operands == Values \cup {None}

ASSUME RelopsAssumption ==
    /\ None \notin Values
    /\ NoHash \in Hashes
    /\ Lawful \in BOOLEAN

VARIABLES
    lt,     \* T's operator<
    eq,     \* T's operator==
    hash,   \* T's std::hash
    junk,   \* what comes of an operator of T applied to storage without a T
    asked,  \* the expression that the program evaluates, None if it does not
    answer  \* its value

theT == <<lt, eq, hash, junk>>
vars == <<lt, eq, hash, junk, asked, answer>>

------------------------------------------------------------------------------
(* Laws, of a relation R given as a Boolean function on S \X S. *)

IsEquivalence(R, S) ==
    /\ \A a \in S : R[a, a]
    /\ \A a, b \in S : R[a, b] => R[b, a]
    /\ \A a, b, c \in S : (R[a, b] /\ R[b, c]) => R[a, c]

Unordered(R, a, b) == ~R[a, b] /\ ~R[b, a]

IsStrictWeakOrder(R, S) ==
    /\ \A a \in S : ~R[a, a]
    /\ \A a, b, c \in S : (R[a, b] /\ R[b, c]) => R[a, c]
    /\ \A a, b, c \in S :
          (Unordered(R, a, b) /\ Unordered(R, b, c)) => Unordered(R, a, c)

(* a == b exactly when neither is less.                                    *)
Agree(L, E, S) == \A a, b \in S : E[a, b] <=> Unordered(L, a, b)

------------------------------------------------------------------------------
(* Equality and order in each form.  LessT and EqualT are what *x < *y and *)
(* *x == *y yield: anything at all, if there is no T to compare.           *)

EqualT(x, y) == IF {x, y} \subseteq Values THEN eq[x, y] ELSE junk
LessT(x, y) == IF {x, y} \subseteq Values THEN lt[x, y] ELSE junk

Engaged(x) == x # None

(* slip: the flags are compared first, and then the values in any case.    *)
EqualOptionalsDeep(x, y) == Engaged(x) = Engaged(y) /\ EqualT(x, y)

EqualOptionals(x, y) ==
    IF Engaged(x) /\ Engaged(y) THEN EqualT(x, y) ELSE Engaged(x) = Engaged(y)

(* slip: the tests for a value in the other order.                         *)
LessOptionalsSwapped(x, y) ==
    IF ~Engaged(x) THEN TRUE ELSE IF ~Engaged(y) THEN FALSE ELSE LessT(x, y)

LessOptionals(x, y) ==
    IF ~Engaged(y) THEN FALSE ELSE IF ~Engaged(x) THEN TRUE ELSE LessT(x, y)

Equal(form, x, y) ==
    CASE form = <<"optional", "optional">> -> EqualOptionals(x, y)
      [] form = <<"optional", "T">> -> Engaged(x) /\ EqualT(x, y)
      [] form = <<"T", "optional">> -> Engaged(y) /\ EqualT(x, y)
      [] form = <<"optional", "none">> -> ~Engaged(x)
      [] form = <<"none", "optional">> -> ~Engaged(y)

(* slip: x < v is false when x has no value, as y && (x < *y) is.          *)
LessMirrored(form, x, y) ==
    CASE form = <<"optional", "optional">> -> LessOptionals(x, y)
      [] form = <<"optional", "T">> -> Engaged(x) /\ LessT(x, y)
      [] form = <<"T", "optional">> -> Engaged(y) /\ LessT(x, y)
      [] form = <<"optional", "none">> -> FALSE
      [] form = <<"none", "optional">> -> Engaged(y)

Less(form, x, y) ==
    CASE form = <<"optional", "optional">> -> LessOptionals(x, y)
      [] form = <<"optional", "T">> -> ~Engaged(x) \/ LessT(x, y)
      [] form = <<"T", "optional">> -> Engaged(y) /\ LessT(x, y)
      [] form = <<"optional", "none">> -> FALSE
      [] form = <<"none", "optional">> -> Engaged(y)

(* != of an optional and none looks at the flag itself.                    *)
NotEqual(form, x, y) ==
    CASE form = <<"optional", "none">> -> Engaged(x)
      [] form = <<"none", "optional">> -> Engaged(y)
      [] OTHER -> ~Equal(form, x, y)

(* The other three operators exchange or negate <; exchanged, x and y take *)
(* the overload for the mirrored form.                                     *)
Mirror(form) == <<form[2], form[1]>>

Evaluate(op, form, x, y) ==
    CASE op = "==" -> Equal(form, x, y)
      [] op = "!=" -> NotEqual(form, x, y)
      [] op = "<" -> Less(form, x, y)
      [] op = ">" -> Less(Mirror(form), y, x)
      [] op = "<=" -> ~Less(Mirror(form), y, x)
      [] op = ">=" -> ~Less(form, x, y)

(* The hash of an optional that is x, if `left' is what an earlier value    *)
(* left in its storage when it has none now.                               *)

(* slip: the hash of the storage, with no look at the flag.                *)
HashStorage(x, left) == hash[IF Engaged(x) THEN x ELSE left]

Hash(x, left) == IF Engaged(x) THEN hash[x] ELSE NoHash

------------------------------------------------------------------------------
Operators == {"==", "!=", "<", ">", "<=", ">="}

Of(kind) == CASE kind = "optional" -> Operands
              [] kind = "T" -> Values
              [] kind = "none" -> {None}

Forms == {form \in {"optional", "T", "none"} \X {"optional", "T", "none"} :
             "optional" \in {form[1], form[2]}}

Expressions == UNION {[op : Operators, form : {form},
                       x : Of(form[1]), y : Of(form[2])] : form \in Forms}

Init ==
    /\ lt \in [Values \X Values -> BOOLEAN]
    /\ eq \in [Values \X Values -> BOOLEAN]
    /\ hash \in [Values -> Hashes]
    /\ Lawful => /\ IsStrictWeakOrder(lt, Values)
                 /\ IsEquivalence(eq, Values)
    /\ junk \in BOOLEAN
    /\ asked = None
    /\ answer = FALSE

(* The program evaluates an expression, and goes on to the next. *)
Ask ==
    /\ asked = None
    /\ \E e \in Expressions :
          /\ asked' = e
          /\ answer' = Evaluate(e.op, e.form, e.x, e.y)
    /\ UNCHANGED theT

GoOn ==
    /\ asked # None
    /\ asked' = None
    /\ answer' = FALSE
    /\ UNCHANGED theT

Next == Ask \/ GoOn

Spec == Init /\ [][Next]_vars

------------------------------------------------------------------------------
(* The types of the variables: every expression has a value.  Code: all of *)
(* optional_relops.hpp and optional_hash.hpp.                              *)
TypeOK ==
    /\ lt \in [Values \X Values -> BOOLEAN]
    /\ eq \in [Values \X Values -> BOOLEAN]
    /\ hash \in [Values -> Hashes]
    /\ junk \in BOOLEAN
    /\ asked \in Expressions \cup {None}
    /\ answer \in BOOLEAN

(* < and == of two optionals as relations. *)
OptionalLess == [p \in Operands \X Operands |->
                    Less(<<"optional", "optional">>, p[1], p[2])]
OptionalEqual == [p \in Operands \X Operands |->
                    Equal(<<"optional", "optional">>, p[1], p[2])]

(* A comparison with a T or with none yields what the same comparison of   *)
(* two optionals would, had the T or none been converted to one first: the *)
(* five overloads of every operator describe one relation.  Code: all of   *)
(* optional_relops.hpp (doc/12_relational_operators.qbk says that the      *)
(* converting constructor implies the semantics of mixed comparisons).     *)
MixedFormsAgree ==
    asked # None =>
        answer = Evaluate(asked.op, <<"optional", "optional">>,
                          asked.x, asked.y)

(* If T's < is a strict weak order then so is optional<T>'s, and an        *)
(* optional without a value comes before all others: optionals can be the  *)
(* keys of ordered containers when T can.  Code: operator< on optionals.   *)
OrderLifts ==
    IsStrictWeakOrder(lt, Values) =>
        /\ IsStrictWeakOrder(OptionalLess, Operands)
        /\ \A v \in Values : OptionalLess[None, v]

(* If T's == is an equivalence then so is optional<T>'s, and if T's == and *)
(* < agree on which values are equal then so do optional<T>'s.  Code:      *)
(* operator== and operator< on optionals.                                  *)
EqualityLifts ==
    /\ IsEquivalence(eq, Values) => IsEquivalence(OptionalEqual, Operands)
    /\ Agree(lt, eq, Values) => Agree(OptionalLess, OptionalEqual, Operands)

(* If equal values of T hash alike then so do equal optionals, whatever is *)
(* left in the storage of those without a value.  Code: std::hash of       *)
(* optional<T> and of optional<T&>.                                        *)
EqualHashAlike ==
    (\A a, b \in Values : eq[a, b] => hash[a] = hash[b]) =>
        \A a, b \in Operands : OptionalEqual[a, b] =>
            \A l, m \in Values : Hash(a, l) = Hash(b, m)
==============================================================================
