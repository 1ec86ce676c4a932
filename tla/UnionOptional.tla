---------------------------- MODULE UnionOptional ----------------------------
(***************************************************************************)
(* optional<T> as boost/optional/detail/union_optional.hpp implements it:  *)
(* a flag init_ and a union that may hold a T (guarded_storage).           *)
(*                                                                         *)
(* Each public operation is an action that starts a call: its guard is the *)
(* precondition of the call, and the program it leaves in todo holds what  *)
(* the code does with the T objects and the flags on the branch it takes.  *)
(* All branch conditions are read before the first operation of T runs, so *)
(* the branch is settled when the call starts.  The definitions marked     *)
(* "slip" are wrong on purpose: each is a plausible bug in the definition  *)
(* that follows it, for showing that a property notices.                   *)
(***************************************************************************)
EXTENDS Guarantees

CONSTANT ConstexprCopy  \* BOOST_OPTIONAL_CONSTEXPR_COPY is defined

ASSUME UnionOptionalAssumption == ConstexprCopy \in BOOLEAN

------------------------------------------------------------------------------
(* guarded_storage and the private helpers. *)

(* guarded_storage(v): the flag is initialized before the union is.        *)
StorageFrom(o, s, how) == <<Engage(o), Construct(o, s, how)>>

(* slip: reset() destroys the T and forgets the flag.                      *)
ResetKeepsFlag(o) == IF ~Trivial /\ init[o] THEN <<Destroy(o)>> ELSE <<>>

(* slip: only the fallback storage gets a reset().                         *)
ResetOnlyFallback(o) ==
    IF ~Trivial /\ init[o] THEN <<Destroy(o), Disengage(o)>> ELSE <<>>

StorageReset(o) ==
    CASE Trivial -> <<Disengage(o)>>
      [] ~Trivial /\ init[o] -> <<Destroy(o), Disengage(o)>>
      [] OTHER -> <<>>

(* slip: ~fallback_guarded_storage() is defaulted too.                     *)
DtorDefaulted(o) == <<>>

StorageDtor(o) == IF ~Trivial /\ init[o] THEN <<Destroy(o)>> ELSE <<>>

(* slip: the flag is set before the T is there.                            *)
InitializeFlagFirst(o, s, how) == <<Engage(o), Construct(o, s, how)>>

Initialize(o, s, how) == <<Construct(o, s, how), Engage(o)>>

(* Constructors that take a condition or another optional: the storage is  *)
(* built by a factory function, or built empty and then initialized.       *)
ConditionalStorage(o, s, how) ==
    IF ConstexprCopy THEN StorageFrom(o, s, how) ELSE Initialize(o, s, how)

------------------------------------------------------------------------------
(* Constructors and the destructor. *)

(* The constructors that build the storage from a conditional value run    *)
(* T's constructor in the storage's initializer or in their own body.      *)
ConditionalStage == IF ConstexprCopy THEN "storage" ELSE "body"

DefaultCtor(o) == BeginCtor("storage", "default_ctor", o, o, "copy", <<>>)

ValueCtor(o, s, how) ==
    BeginCtor("storage", "value_ctor", o, s, how, StorageFrom(o, s, how))

ConditionalCtor(o, cond, s, how) ==
    IF cond
    THEN BeginCtor(ConditionalStage, "ctor_if_true", o, s, how,
                   ConditionalStorage(o, s, how))
    ELSE BeginCtor(ConditionalStage, "ctor_if_false", o, s, how, <<>>)

(* slip: the storage of rhs is copied without a look at its flag.          *)
CopyCtorUnchecked(o, p, how) ==
    /\ Alive(p)
    /\ BeginCtor(ConditionalStage, "copy_ctor", o, p, how,
                 ConditionalStorage(o, p, how))

CopyCtor(o, p, how) ==
    /\ Alive(p)
    /\ BeginCtor(ConditionalStage, "copy_ctor", o, p, how,
                 IF init[p] THEN ConditionalStorage(o, p, how) ELSE <<>>)

FactoryCtor(o, s, how) ==
    BeginCtor("body", "factory_ctor", o, s, how, Initialize(o, s, how))

Dtor(o) ==
    /\ Alive(o)
    /\ Begin("dtor", o, o, "copy", StorageDtor(o))
    /\ life' = [life EXCEPT ![o] = "dying"]

------------------------------------------------------------------------------
(* Modifiers. *)

Reset(o) == BeginOn("reset", o, o, "copy", StorageReset(o))

(* slip: the old value is destroyed before the new one is made.            *)
AssignOptionalByRebuild(o, p, how) ==
    /\ Alive(p)
    /\ BeginOn("assign_optional", o, p, how,
               StorageReset(o) \o
                  (IF init[p] /\ p # o THEN Initialize(o, p, how) ELSE <<>>))

AssignOptional(o, p, how) ==
    /\ Alive(p)
    /\ BeginOn("assign_optional", o, p, how,
               CASE init[o] /\ init[p] -> <<AssignT(o, p, how)>>
                 [] init[o] /\ ~init[p] -> StorageReset(o)
                 [] ~init[o] /\ init[p] -> Initialize(o, p, how)
                 [] OTHER -> <<>>)

(* slip: assignment of a value is emplacement.                             *)
AssignValueByRebuild(o, s, how) ==
    BeginOn("assign_value", o, s, how, StorageReset(o) \o Initialize(o, s, how))

AssignValue(o, s, how) ==
    BeginOn("assign_value", o, s, how,
            IF init[o] THEN <<AssignT(o, s, how)>> ELSE Initialize(o, s, how))

(* slip: emplace constructs without a reset.                               *)
EmplaceOver(o, s, how) == BeginOn("emplace", o, s, how, Initialize(o, s, how))

Emplace(o, s, how) ==
    BeginOn("emplace", o, s, how, StorageReset(o) \o Initialize(o, s, how))

AssignFactory(o, s, how) ==
    BeginOn("assign_factory", o, s, how,
            StorageReset(o) \o Initialize(o, s, how))

(* slip: the optional whose value moved away stays engaged.                *)
SwapWithoutReset(o, p) ==
    /\ Alive(p)
    /\ BeginOn("swap", o, p, "move",
               CASE init[o] /\ init[p] -> <<SwapT(o, p)>>
                 [] init[o] /\ ~init[p] -> Initialize(p, o, "move")
                 [] ~init[o] /\ init[p] -> Initialize(o, p, "move")
                 [] OTHER -> <<>>)

Swap(o, p) ==
    /\ Alive(p)
    /\ BeginOn("swap", o, p, "move",
               CASE init[o] /\ init[p] -> <<SwapT(o, p)>>
                 [] init[o] /\ ~init[p] ->
                       Initialize(p, o, "move") \o StorageReset(o)
                 [] ~init[o] /\ init[p] ->
                       Initialize(o, p, "move") \o StorageReset(p)
                 [] OTHER -> <<>>)

------------------------------------------------------------------------------
(* Observers that can throw or move the value out. *)

(* value() throws bad_optional_access instead of touching the storage.     *)
Value(o) ==
    /\ Alive(o)
    /\ BeginWith(IF init[o] THEN "pending" ELSE "bad_access",
                 "value", o, o, "copy", <<>>)
    /\ UNCHANGED life

(* value_or(v), and value_or_eval(f) with what f() returned as argument.   *)
(* `how' is that of the object the result is made from: the optional's own *)
(* value (moved when *this is an rvalue) or else the argument.             *)
ValueOr(o, s, how) ==
    BeginOn("value_or", o, s, how,
            <<Construct(Ret, IF init[o] THEN o ELSE s, how)>>)

------------------------------------------------------------------------------
(* Exceptions: a constructor that threw in its body destroys the storage,  *)
(* which was complete by then; storage that threw in its own constructor   *)
(* never came into being.                                                  *)
Unwinding == IF life[call.o] = "body" THEN StorageDtor(call.o) ELSE <<>>

Throw == ThrowT(Unwinding)

------------------------------------------------------------------------------
Construction ==
    \E o \in Opts, how \in Hows :
        \/ DefaultCtor(o)
        \/ \E s \in Sources : \/ ValueCtor(o, s, how)
                              \/ FactoryCtor(o, s, how)
                              \/ \E b \in BOOLEAN :
                                    ConditionalCtor(o, b, s, how)
        \/ \E p \in Opts : CopyCtor(o, p, how)

Modification ==
    \E o \in Opts, how \in Hows :
        \/ Reset(o)
        \/ \E p \in Opts : AssignOptional(o, p, how) \/ Swap(o, p)
        \/ \E s \in Sources : \/ AssignValue(o, s, how)
                              \/ Emplace(o, s, how)
                              \/ AssignFactory(o, s, how)
        \/ Dtor(o)

Observation ==
    \E o \in Opts, how \in Hows :
        \/ Value(o)
        \/ \E s \in Sources : ValueOr(o, s, how)

Next == \/ Construction \/ Modification \/ Observation
        \/ RunT \/ RunFlag \/ Throw \/ Return

Spec == InitObjects /\ [][Next]_vars

------------------------------------------------------------------------------
(* doc/19_exception_safety.qbk lists the assignments from in-place         *)
(* factories among those that give the strong guarantee when T does, and   *)
(* says that a throw during assignment never changes the initialization    *)
(* state of an optional.  operator=(F&& factory) resets the optional first.*)
AssignmentsAreStrong ==
    (/\ Strong /\ ~busy /\ outcome = "threw"
     /\ call.op \in {"assign_optional", "assign_value", "assign_factory"})
    => Seen = before
==============================================================================
