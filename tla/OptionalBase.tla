----------------------------- MODULE OptionalBase -----------------------------
(***************************************************************************)
(* optional<T> as boost/optional/optional.hpp implements it for compilers  *)
(* without the union implementation: optional_base<T> keeps m_initialized  *)
(* and aligned storage, optional<T> derives from it, and swap is the free  *)
(* function of optional_swap.hpp (swap_selector<false>).                   *)
(*                                                                         *)
(* A value of another type U reaches T's assignment, and in some calls T's *)
(* constructor, through a parameter of type T: the call first converts it  *)
(* to a temporary, and then moves from that.  Definitions marked "slip"    *)
(* are plausible bugs, as in UnionOptional.                                *)
(***************************************************************************)
EXTENDS Guarantees

------------------------------------------------------------------------------
(* optional_base: the private and protected helpers. *)

(* slip: m_initialized is set before T's constructor runs.                 *)
ConstructFlagFirst(o, s, how) == <<Engage(o), Construct(o, s, how)>>

ConstructIn(o, s, how) == <<Construct(o, s, how), Engage(o)>>

(* slip: m_initialized is cleared before T's destructor runs.              *)
DestroyFlagFirst(o) == IF init[o] THEN <<Disengage(o), Destroy(o)>> ELSE <<>>

DestroyIn(o) == IF init[o] THEN <<Destroy(o), Disengage(o)>> ELSE <<>>

Converted(s, how, program) == <<Construct(Tmp, s, how)>> \o program

------------------------------------------------------------------------------
(* Constructors and the destructor.  What throws in a constructor of       *)
(* optional_base leaves nothing to unwind; optional's own converting       *)
(* constructors construct in their body, when optional_base is complete.   *)

DefaultCtor(o) == BeginCtor("storage", "default_ctor", o, o, "copy", <<>>)

ValueCtor(o, s, how) ==
    BeginCtor("storage", "value_ctor", o, s, how, ConstructIn(o, s, how))

ConditionalCtor(o, cond, s, how) ==
    IF cond
    THEN BeginCtor("storage", "ctor_if_true", o, s, how,
                   ConstructIn(o, s, how))
    ELSE BeginCtor("storage", "ctor_if_false", o, s, how, <<>>)

CopyCtor(o, p, how) ==
    /\ Alive(p)
    /\ BeginCtor("storage", "copy_ctor", o, p, how,
                 IF init[p] THEN ConstructIn(o, p, how) ELSE <<>>)

ConvertingCtor(o, p, how) ==
    /\ Alive(p)
    /\ BeginCtor("body", "convert_ctor", o, p, how,
                 IF init[p]
                 THEN Converted(p, how, ConstructIn(o, Tmp, "move"))
                 ELSE <<>>)

FactoryCtor(o, s, how) ==
    BeginCtor("storage", "factory_ctor", o, s, how, ConstructIn(o, s, how))

(* slip: the destructor of optional_base is defaulted.                     *)
DtorDefaulted(o) ==
    /\ Alive(o)
    /\ Begin("dtor", o, o, "copy", <<>>)
    /\ life' = [life EXCEPT ![o] = "dying"]

Dtor(o) ==
    /\ Alive(o)
    /\ Begin("dtor", o, o, "copy", DestroyIn(o))
    /\ life' = [life EXCEPT ![o] = "dying"]

------------------------------------------------------------------------------
(* Modifiers. *)

Reset(o) == BeginOn("reset", o, o, "copy", DestroyIn(o))

(* slip: the old value is destroyed before the new one is made.            *)
AssignOptionalByRebuild(o, p, how) ==
    /\ Alive(p)
    /\ BeginOn("assign_optional", o, p, how,
               DestroyIn(o) \o
                  (IF init[p] /\ p # o THEN ConstructIn(o, p, how) ELSE <<>>))

AssignOptional(o, p, how) ==
    /\ Alive(p)
    /\ BeginOn("assign_optional", o, p, how,
               CASE init[o] /\ init[p] -> <<AssignT(o, p, how)>>
                 [] init[o] /\ ~init[p] -> DestroyIn(o)
                 [] ~init[o] /\ init[p] -> ConstructIn(o, p, how)
                 [] OTHER -> <<>>)

(* slip: the assignment that the comments describe, by construct() only.   *)
AssignConvertingByRebuild(o, p, how) ==
    /\ Alive(p) /\ p # o
    /\ BeginOn("assign_converting", o, p, how,
               IF init[p]
               THEN DestroyIn(o) \o
                       Converted(p, how, ConstructIn(o, Tmp, "move"))
               ELSE DestroyIn(o))

AssignConverting(o, p, how) ==
    /\ Alive(p) /\ p # o
    /\ BeginOn("assign_converting", o, p, how,
               CASE init[o] /\ init[p] ->
                       Converted(p, how, <<AssignT(o, Tmp, "move")>>)
                 [] init[o] /\ ~init[p] -> DestroyIn(o)
                 [] ~init[o] /\ init[p] ->
                       Converted(p, how, ConstructIn(o, Tmp, "move"))
                 [] OTHER -> <<>>)

(* slip: a value is constructed also where there is one.                   *)
AssignValueConstructs(o, s, how) ==
    BeginOn("assign_value", o, s, how, ConstructIn(o, s, how))

AssignValue(o, s, how) ==
    BeginOn("assign_value", o, s, how,
            IF init[o] THEN <<AssignT(o, s, how)>> ELSE ConstructIn(o, s, how))

(* slip: the value of another type is emplaced.                            *)
AssignExprByRebuild(o, how) ==
    BeginOn("assign_expr", o, Arg, how,
            DestroyIn(o) \o ConstructIn(o, Arg, how))

(* A value of another type: assign_value takes a T, construct does not.    *)
AssignExpr(o, how) ==
    BeginOn("assign_expr", o, Arg, how,
            IF init[o] THEN Converted(Arg, how, <<AssignT(o, Tmp, "move")>>)
                       ELSE ConstructIn(o, Arg, how))

Emplace(o, s, how) ==
    BeginOn("emplace", o, s, how, DestroyIn(o) \o ConstructIn(o, s, how))

AssignFactory(o, s, how) ==
    BeginOn("assign_factory", o, s, how, DestroyIn(o) \o ConstructIn(o, s, how))

(* slip: the optional whose value moved away stays engaged.                *)
SwapWithoutReset(o, p) ==
    /\ Alive(p)
    /\ BeginOn("swap", o, p, "move",
               CASE init[o] /\ init[p] -> <<SwapT(o, p)>>
                 [] init[o] /\ ~init[p] -> ConstructIn(p, o, "move")
                 [] ~init[o] /\ init[p] -> ConstructIn(o, p, "move")
                 [] OTHER -> <<>>)

(* The optional without a value is assigned the other's value as an rvalue *)
(* and the other is assigned none.                                         *)
Swap(o, p) ==
    /\ Alive(p)
    /\ BeginOn("swap", o, p, "move",
               CASE init[o] /\ init[p] -> <<SwapT(o, p)>>
                 [] init[o] /\ ~init[p] ->
                       ConstructIn(p, o, "move") \o DestroyIn(o)
                 [] ~init[o] /\ init[p] ->
                       ConstructIn(o, p, "move") \o DestroyIn(p)
                 [] OTHER -> <<>>)

------------------------------------------------------------------------------
(* Observers that can throw or move the value out. *)

Value(o) ==
    /\ Alive(o)
    /\ BeginWith(IF init[o] THEN "pending" ELSE "bad_access",
                 "value", o, o, "copy", <<>>)
    /\ UNCHANGED life

(* `how' is that of the object the result is made from.                    *)
ValueOr(o, s, how) ==
    BeginOn("value_or", o, s, how,
            <<Construct(Ret, IF init[o] THEN o ELSE s, how)>>)

------------------------------------------------------------------------------
Unwinding == IF life[call.o] = "body" THEN DestroyIn(call.o) ELSE <<>>

Throw == ThrowT(Unwinding)

Construction ==
    \E o \in Opts, how \in Hows :
        \/ DefaultCtor(o)
        \/ \E s \in Sources : \/ ValueCtor(o, s, how)
                              \/ FactoryCtor(o, s, how)
                              \/ \E b \in BOOLEAN :
                                    ConditionalCtor(o, b, s, how)
        \/ \E p \in Opts : CopyCtor(o, p, how) \/ ConvertingCtor(o, p, how)

Modification ==
    \E o \in Opts, how \in Hows :
        \/ Reset(o)
        \/ \E p \in Opts : \/ AssignOptional(o, p, how)
                           \/ AssignConverting(o, p, how)
                           \/ Swap(o, p)
        \/ \E s \in Sources : \/ AssignValue(o, s, how)
                              \/ Emplace(o, s, how)
                              \/ AssignFactory(o, s, how)
        \/ AssignExpr(o, how)
        \/ Dtor(o)

Observation ==
    \E o \in Opts, how \in Hows :
        \/ Value(o)
        \/ \E s \in Sources : ValueOr(o, s, how)

Next == \/ Construction \/ Modification \/ Observation
        \/ RunT \/ RunFlag \/ Throw \/ Return

Spec == InitObjects /\ [][Next]_vars

==============================================================================
