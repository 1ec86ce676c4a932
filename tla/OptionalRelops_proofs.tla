------------------------ MODULE OptionalRelops_proofs ------------------------
(***************************************************************************)
(* Proofs about OptionalRelops, for every set of values and all operators  *)
(* of T.  What optional<T>'s < and == are worth follows from T's own, by   *)
(* cases on which operands have a value.                                   *)
(***************************************************************************)
EXTENDS OptionalRelops, TLAPS

LEMMA NoneIsNoValue == None \notin Values /\ Operands = Values \cup {None}
  BY RelopsAssumption DEF Operands

(* < and == of two optionals, as relations, by cases. *)
LEMMA OptionalLessIs ==
  ASSUME NEW a \in Operands, NEW b \in Operands
  PROVE  OptionalLess[a, b] <=> (b # None /\ (a = None \/ lt[a, b]))
<1>1. <<a, b>> \in Operands \X Operands
  OBVIOUS
<1>2. OptionalLess[a, b] <=> LessOptionals(a, b)
  BY <1>1 DEF OptionalLess, Less
<1>3. (a # None /\ b # None) => {a, b} \subseteq Values
  BY NoneIsNoValue
<1> QED
  BY <1>2, <1>3 DEF LessOptionals, LessT, Engaged

LEMMA OptionalEqualIs ==
  ASSUME NEW a \in Operands, NEW b \in Operands
  PROVE  /\ (a # None /\ b # None) => (OptionalEqual[a, b] <=> eq[a, b])
         /\ (a = None \/ b = None) =>
               (OptionalEqual[a, b] <=> (a = None <=> b = None))
<1>1. <<a, b>> \in Operands \X Operands
  OBVIOUS
<1>2. OptionalEqual[a, b] <=> EqualOptionals(a, b)
  BY <1>1 DEF OptionalEqual, Equal
<1>3. (a # None /\ b # None) => {a, b} \subseteq Values
  BY NoneIsNoValue
<1> QED
  BY <1>2, <1>3 DEF EqualOptionals, EqualT, Engaged

------------------------------------------------------------------------------
(* The laws lift, whatever T's operators are. *)

LEMMA WeakOrderLifts ==
  ASSUME IsStrictWeakOrder(lt, Values)
  PROVE  IsStrictWeakOrder(OptionalLess, Operands)
<1>1. ASSUME NEW a \in Operands  PROVE ~OptionalLess[a, a]
  BY <1>1, OptionalLessIs, NoneIsNoValue DEF IsStrictWeakOrder
<1>2. ASSUME NEW a \in Operands, NEW b \in Operands, NEW c \in Operands,
             OptionalLess[a, b], OptionalLess[b, c]
      PROVE  OptionalLess[a, c]
  <2>1. b # None /\ c # None
    BY <1>2, OptionalLessIs
  <2>2. CASE a = None
    BY <2>1, <2>2, OptionalLessIs
  <2>3. CASE a # None
    <3>1. lt[a, b] /\ lt[b, c]
      BY <1>2, <2>1, <2>3, OptionalLessIs
    <3>2. lt[a, c]
      BY <2>1, <2>3, <3>1, NoneIsNoValue DEF IsStrictWeakOrder
    <3> QED
      BY <2>1, <2>3, <3>2, OptionalLessIs
  <2> QED
    BY <2>2, <2>3
<1>3. ASSUME NEW a \in Operands, NEW b \in Operands, NEW c \in Operands,
             Unordered(OptionalLess, a, b), Unordered(OptionalLess, b, c)
      PROVE  Unordered(OptionalLess, a, c)
  <2>1. (a = None) <=> (b = None)
    BY <1>3, OptionalLessIs DEF Unordered
  <2>2. (b = None) <=> (c = None)
    BY <1>3, OptionalLessIs DEF Unordered
  <2>3. CASE a = None
    BY <2>1, <2>2, <2>3, OptionalLessIs DEF Unordered
  <2>4. CASE a # None
    <3>1. Unordered(lt, a, b) /\ Unordered(lt, b, c)
      BY <1>3, <2>1, <2>2, <2>4, OptionalLessIs DEF Unordered
    <3>2. Unordered(lt, a, c)
      BY <2>1, <2>2, <2>4, <3>1, NoneIsNoValue DEF IsStrictWeakOrder
    <3> QED
      BY <2>1, <2>2, <2>4, <3>2, OptionalLessIs DEF Unordered
  <2> QED
    BY <2>3, <2>4
<1> QED
  BY <1>1, <1>2, <1>3 DEF IsStrictWeakOrder

LEMMA EquivalenceLifts ==
  ASSUME IsEquivalence(eq, Values)
  PROVE  IsEquivalence(OptionalEqual, Operands)
<1>1. ASSUME NEW a \in Operands  PROVE OptionalEqual[a, a]
  BY <1>1, OptionalEqualIs, NoneIsNoValue DEF IsEquivalence
<1>2. ASSUME NEW a \in Operands, NEW b \in Operands, OptionalEqual[a, b]
      PROVE  OptionalEqual[b, a]
  BY <1>2, OptionalEqualIs, NoneIsNoValue DEF IsEquivalence
<1>3. ASSUME NEW a \in Operands, NEW b \in Operands, NEW c \in Operands,
             OptionalEqual[a, b], OptionalEqual[b, c]
      PROVE  OptionalEqual[a, c]
  <2>1. ((a = None) <=> (b = None)) /\ ((b = None) <=> (c = None))
    BY <1>3, OptionalEqualIs
  <2>2. CASE a = None
    BY <2>1, <2>2, OptionalEqualIs
  <2>3. CASE a # None
    <3>1. eq[a, b] /\ eq[b, c]
      BY <1>3, <2>1, <2>3, OptionalEqualIs
    <3>2. eq[a, c]
      BY <2>1, <2>3, <3>1, NoneIsNoValue DEF IsEquivalence
    <3> QED
      BY <2>1, <2>3, <3>2, OptionalEqualIs
  <2> QED
    BY <2>2, <2>3
<1> QED
  BY <1>1, <1>2, <1>3 DEF IsEquivalence

LEMMA AgreementLifts ==
  ASSUME Agree(lt, eq, Values)
  PROVE  Agree(OptionalLess, OptionalEqual, Operands)
<1> SUFFICES ASSUME NEW a \in Operands, NEW b \in Operands
             PROVE  OptionalEqual[a, b] <=> Unordered(OptionalLess, a, b)
  BY DEF Agree
<1>1. CASE a # None /\ b # None
  <2>1. eq[a, b] <=> Unordered(lt, a, b)
    BY <1>1, NoneIsNoValue DEF Agree
  <2> QED
    BY <1>1, <2>1, OptionalLessIs, OptionalEqualIs DEF Unordered
<1>2. CASE ~(a # None /\ b # None)
  BY <1>2, OptionalLessIs, OptionalEqualIs DEF Unordered
<1> QED
  BY <1>1, <1>2

(* Without any assumption on T's operators: what holds of them lifts.      *)
(* Code: operator< on optionals.                                           *)
THEOREM OrderAlwaysLifts == OrderLifts
<1> SUFFICES ASSUME IsStrictWeakOrder(lt, Values)
             PROVE  /\ IsStrictWeakOrder(OptionalLess, Operands)
                    /\ \A v \in Values : OptionalLess[None, v]
  BY DEF OrderLifts
<1>1. \A v \in Values : OptionalLess[None, v]
  BY OptionalLessIs, NoneIsNoValue
<1> QED
  BY <1>1, WeakOrderLifts

(* The same of equality, and of its agreement with <.  Code: operator== on *)
(* optionals.                                                              *)
THEOREM EqualityAlwaysLifts == EqualityLifts
  BY EquivalenceLifts, AgreementLifts DEF EqualityLifts

(* The same of hashes.  Code: std::hash of optional<T>.                    *)
THEOREM HashAlwaysLifts == EqualHashAlike
<1> SUFFICES ASSUME \A a, b \in Values : eq[a, b] => hash[a] = hash[b],
                    NEW a \in Operands, NEW b \in Operands,
                    OptionalEqual[a, b],
                    NEW l \in Values, NEW m \in Values
             PROVE  Hash(a, l) = Hash(b, m)
  BY DEF EqualHashAlike
<1>1. (a = None) <=> (b = None)
  BY OptionalEqualIs
<1>2. CASE a # None
  BY <1>1, <1>2, OptionalEqualIs, NoneIsNoValue DEF Hash, Engaged
<1>3. CASE a = None
  BY <1>1, <1>3 DEF Hash, Engaged
<1> QED
  BY <1>2, <1>3

------------------------------------------------------------------------------
(* Every mixed form is the form for two optionals. *)

LEMMA FormsAre ==
  Forms = {<<"optional", "optional">>, <<"optional", "T">>,
           <<"T", "optional">>, <<"optional", "none">>,
           <<"none", "optional">>}
  BY DEF Forms

LEMMA OperandsOfForms ==
  ASSUME NEW form \in Forms, NEW x \in Of(form[1]), NEW y \in Of(form[2])
  PROVE  /\ x \in Operands /\ y \in Operands
         /\ form[1] = "T" => x \in Values
         /\ form[2] = "T" => y \in Values
         /\ form[1] = "none" => x = None
         /\ form[2] = "none" => y = None
  BY FormsAre, NoneIsNoValue DEF Of

(* The operators of T yield Booleans. *)
TypesOfT ==
    /\ lt \in [Values \X Values -> BOOLEAN]
    /\ eq \in [Values \X Values -> BOOLEAN]
    /\ junk \in BOOLEAN

LEMMA TOperatorsAreBoolean ==
  ASSUME TypesOfT, NEW x, NEW y
  PROVE  EqualT(x, y) \in BOOLEAN /\ LessT(x, y) \in BOOLEAN
<1>1. {x, y} \subseteq Values => <<x, y>> \in Values \X Values
  OBVIOUS
<1> QED
  BY <1>1 DEF TypesOfT, EqualT, LessT

LEMMA EqualIsOne ==
  ASSUME TypesOfT,
         NEW form \in Forms, NEW x \in Of(form[1]), NEW y \in Of(form[2])
  PROVE  /\ Equal(form, x, y) = Equal(<<"optional", "optional">>, x, y)
         /\ Equal(form, x, y) \in BOOLEAN
<1> USE OperandsOfForms, NoneIsNoValue, TOperatorsAreBoolean
    DEF Equal, EqualOptionals, Engaged
<1>1. CASE form = <<"optional", "optional">>
  BY <1>1
<1>2. CASE form = <<"optional", "T">>
  BY <1>2
<1>3. CASE form = <<"T", "optional">>
  BY <1>3
<1>4. CASE form = <<"optional", "none">>
  BY <1>4
<1>5. CASE form = <<"none", "optional">>
  BY <1>5
<1> QED
  BY <1>1, <1>2, <1>3, <1>4, <1>5, FormsAre

LEMMA LessIsOne ==
  ASSUME TypesOfT,
         NEW form \in Forms, NEW x \in Of(form[1]), NEW y \in Of(form[2])
  PROVE  /\ Less(form, x, y) = Less(<<"optional", "optional">>, x, y)
         /\ Less(form, x, y) \in BOOLEAN
<1> USE OperandsOfForms, NoneIsNoValue, TOperatorsAreBoolean
    DEF Less, LessOptionals, Engaged
<1>1. CASE form = <<"optional", "optional">>
  BY <1>1
<1>2. CASE form = <<"optional", "T">>
  <2>1. Less(form, x, y) = (~Engaged(x) \/ LessT(x, y))
    BY <1>2
  <2>2. Engaged(y) /\ LessT(x, y) \in BOOLEAN
    BY <1>2
  <2>3. Less(<<"optional", "optional">>, x, y)
          = IF ~Engaged(x) THEN TRUE ELSE LessT(x, y)
    BY <2>2
  <2> HIDE DEF Less, LessOptionals, Engaged
  <2>4. CASE Engaged(x)
    BY <2>1, <2>2, <2>3, <2>4
  <2>5. CASE ~Engaged(x)
    BY <2>1, <2>3, <2>5
  <2> QED
    BY <2>4, <2>5
<1>3. CASE form = <<"T", "optional">>
  <2>1. Less(form, x, y) = (Engaged(y) /\ LessT(x, y))
    BY <1>3
  <2>2. Engaged(x) /\ LessT(x, y) \in BOOLEAN
    BY <1>3
  <2>3. Less(<<"optional", "optional">>, x, y)
          = IF ~Engaged(y) THEN FALSE ELSE LessT(x, y)
    BY <2>2
  <2> HIDE DEF Less, LessOptionals
  <2> QED
    BY <2>1, <2>2, <2>3
<1>4. CASE form = <<"optional", "none">>
  BY <1>4
<1>5. CASE form = <<"none", "optional">>
  BY <1>5
<1> QED
  BY <1>1, <1>2, <1>3, <1>4, <1>5, FormsAre

LEMMA NotEqualIsOne ==
  ASSUME TypesOfT,
         NEW form \in Forms, NEW x \in Of(form[1]), NEW y \in Of(form[2])
  PROVE  /\ NotEqual(form, x, y) = NotEqual(<<"optional", "optional">>, x, y)
         /\ NotEqual(form, x, y) \in BOOLEAN
<1>1. /\ NotEqual(form, x, y) = ~Equal(form, x, y)
      /\ NotEqual(form, x, y) \in BOOLEAN
  <2>1. CASE form = <<"optional", "none">>
    BY <2>1 DEF NotEqual, Equal, Engaged
  <2>2. CASE form = <<"none", "optional">>
    BY <2>2 DEF NotEqual, Equal, Engaged
  <2>3. CASE form \notin {<<"optional", "none">>, <<"none", "optional">>}
    BY <2>3, EqualIsOne DEF NotEqual
  <2> QED
    BY <2>1, <2>2, <2>3
<1>2. NotEqual(<<"optional", "optional">>, x, y)
        = ~Equal(<<"optional", "optional">>, x, y)
  BY DEF NotEqual
<1> QED
  BY <1>1, <1>2, EqualIsOne

LEMMA MirrorIsForm ==
  ASSUME NEW form \in Forms
  PROVE  /\ Mirror(form) \in Forms
         /\ Mirror(form)[1] = form[2] /\ Mirror(form)[2] = form[1]
  BY FormsAre DEF Mirror

LEMMA EvaluateIsOne ==
  ASSUME TypesOfT, NEW op \in Operators, NEW form \in Forms,
         NEW x \in Of(form[1]), NEW y \in Of(form[2])
  PROVE  /\ Evaluate(op, form, x, y)
              = Evaluate(op, <<"optional", "optional">>, x, y)
         /\ Evaluate(op, form, x, y) \in BOOLEAN
<1> DEFINE both == <<"optional", "optional">>
<1>1. Mirror(both) = both
  BY DEF Mirror
<1>2. /\ Less(Mirror(form), y, x) = Less(both, y, x)
      /\ Less(Mirror(form), y, x) \in BOOLEAN
  BY MirrorIsForm, LessIsOne
<1>3. /\ Less(form, x, y) = Less(both, x, y)
      /\ Equal(form, x, y) = Equal(both, x, y)
      /\ NotEqual(form, x, y) = NotEqual(both, x, y)
      /\ {Less(form, x, y), Equal(form, x, y), NotEqual(form, x, y)}
            \subseteq BOOLEAN
  BY LessIsOne, EqualIsOne, NotEqualIsOne
<1> HIDE DEF both
<1>4. /\ Evaluate(op, form, x, y) = Evaluate(op, both, x, y)
      /\ Evaluate(op, form, x, y) \in BOOLEAN
  BY <1>1, <1>2, <1>3 DEF Evaluate, Operators
<1> QED
  BY <1>4 DEF both

(* T's operators stay as they are, and every expression has a truth value. *)
(* Code: all of optional_relops.hpp and optional_hash.hpp.                 *)
THEOREM TypeCorrect == Spec => []TypeOK
<1>1. Init => TypeOK
  BY DEF Init, TypeOK
<1>2. TypeOK /\ [Next]_vars => TypeOK'
  <2> SUFFICES ASSUME TypeOK, [Next]_vars
               PROVE  TypeOK'
    OBVIOUS
  <2>1. CASE Ask
    <3>1. PICK e \in Expressions :
             /\ asked' = e
             /\ answer' = Evaluate(e.op, e.form, e.x, e.y)
      BY <2>1 DEF Ask
    <3>2. /\ e.op \in Operators /\ e.form \in Forms
          /\ e.x \in Of(e.form[1]) /\ e.y \in Of(e.form[2])
      BY <3>1 DEF Expressions
    <3>3. answer' \in BOOLEAN
      BY <3>1, <3>2, EvaluateIsOne DEF TypeOK, TypesOfT
    <3> QED
      BY <2>1, <3>1, <3>3 DEF Ask, theT, TypeOK
  <2>2. CASE GoOn
    BY <2>2 DEF GoOn, theT, TypeOK
  <2>3. CASE UNCHANGED vars
    BY <2>3 DEF vars, TypeOK
  <2> QED
    BY <2>1, <2>2, <2>3 DEF Next
<1> QED
  BY <1>1, <1>2, PTL DEF Spec

(* The evaluated expression gets the value that its wrapped form would.    *)
(* Code: all overloads of the six operators.                               *)
THEOREM MixedFormsAlwaysAgree == Spec => []MixedFormsAgree
<1>1. Init => MixedFormsAgree
  BY DEF Init, MixedFormsAgree
<1>2. TypeOK /\ MixedFormsAgree /\ [Next]_vars => MixedFormsAgree'
  <2> SUFFICES ASSUME TypeOK, MixedFormsAgree, [Next]_vars
               PROVE  MixedFormsAgree'
    OBVIOUS
  <2>1. CASE Ask
    <3>1. PICK e \in Expressions :
             /\ asked' = e
             /\ answer' = Evaluate(e.op, e.form, e.x, e.y)
      BY <2>1 DEF Ask
    <3>2. /\ e.op \in Operators /\ e.form \in Forms
          /\ e.x \in Of(e.form[1]) /\ e.y \in Of(e.form[2])
      BY <3>1 DEF Expressions
    <3>3. answer' = Evaluate(e.op, <<"optional", "optional">>, e.x, e.y)
      BY <3>1, <3>2, EvaluateIsOne DEF TypeOK, TypesOfT
    <3>4. Evaluate(e.op, <<"optional", "optional">>, e.x, e.y)'
            = Evaluate(e.op, <<"optional", "optional">>, e.x, e.y)
      BY <2>1 DEF Ask, theT, Evaluate, Equal, NotEqual, Less, Mirror,
                  EqualOptionals, LessOptionals, EqualT, LessT, Engaged
    <3> QED
      BY <3>1, <3>3, <3>4 DEF MixedFormsAgree
  <2>2. CASE GoOn
    BY <2>2 DEF GoOn, MixedFormsAgree
  <2>3. CASE UNCHANGED vars
    BY <2>3 DEF vars, theT, MixedFormsAgree, Evaluate, Equal, NotEqual, Less,
                Mirror, EqualOptionals, LessOptionals, EqualT, LessT, Engaged
  <2> QED
    BY <2>1, <2>2, <2>3 DEF Next
<1> QED
  BY <1>1, <1>2, TypeCorrect, PTL DEF Spec
==============================================================================
