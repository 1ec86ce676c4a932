---------------------------- MODULE TcOptionalBase ----------------------------
(***************************************************************************)
(* optional<T> of the fallback implementation for a scalar T, on top of    *)
(* tc_optional_base: m_storage is a T that exists as long as the optional  *)
(* does, and whatever the flag says it is copied along.                    *)
(*                                                                         *)
(* No operation of a scalar throws.  What may throw, and may consume its   *)
(* source, is the conversion of something else to a T: of a call's         *)
(* arguments, or of the value in an optional<U> (here one of Opts, of      *)
(* which such a call reads only the flag and the value).  A call is made,  *)
(* the conversion runs if there is one, and everything after it is one     *)
(* step, for no code of the user runs there.                               *)
(***************************************************************************)
CONSTANTS
    Opts,    \* the optional<T> variables of the program
    Values,  \* the values that a caller passes in
    Unspec,  \* a value that no caller passed in
    Garbage, \* what is in memory that nobody has written
    None,    \* what a caller sees in an optional without a value
    Absent,  \* what a caller sees of an optional outside its lifetime
    Arg,     \* the caller's argument
    Strong   \* TRUE when a conversion that throws has no effect

Objects == Values \cup {Unspec}
Hows == {"copy", "move"}

ASSUME TcOptionalBaseAssumption ==
    /\ Opts # {}
    /\ Unspec \notin Values
    /\ \A x \in {Garbage, None, Absent} : x \notin Objects
    /\ Garbage # None /\ Garbage # Absent /\ None # Absent
    /\ Arg \notin Opts
    /\ Strong \in BOOLEAN

VARIABLES
    alive,          \* which optionals are in their lifetime
    m_initialized,  \* the flag of each optional
    m_storage,      \* the T of each optional, and the argument at Arg
    busy,           \* TRUE while a call is in progress
    call,           \* the latest call
    outcome,        \* how the latest call ended
    result          \* what it returned, if it did

tcvars == <<alive, m_initialized, m_storage, busy, call, outcome, result>>

Ctors == {"default_ctor", "value_ctor", "ctor_if_true", "ctor_if_false",
          "copy_ctor", "convert_ctor", "factory_ctor"}
FromOptional == {"copy_ctor", "convert_ctor", "assign_optional",
                 "assign_converting", "swap"}
FromNothing == {"default_ctor", "ctor_if_false", "reset", "dtor", "value"}
FromValue == {"value_ctor", "ctor_if_true", "factory_ctor", "assign_expr",
              "assign_value", "emplace", "assign_factory", "value_or"}
Ops == FromNothing \cup FromOptional \cup FromValue

(* The calls that convert their source to a T, if there is a source.       *)
Converters == {"value_ctor", "ctor_if_true", "factory_ctor", "convert_ctor",
               "assign_converting", "assign_expr", "emplace",
               "assign_factory", "value_or"}

Engaged(o) == o \in alive /\ m_initialized[o]

Init ==
    /\ alive = {}
    /\ m_initialized = [o \in Opts |-> FALSE]
    /\ m_storage = [p \in Opts \cup {Arg} |-> IF p = Arg THEN Unspec ELSE Garbage]
    /\ busy = FALSE
    /\ call = [op |-> "none", o |-> CHOOSE o \in Opts : TRUE,
               from |-> Arg, how |-> "copy"]
    /\ outcome = "none"
    /\ result = Garbage

(* A call is made: a constructor on an optional that is not there, any     *)
(* other on one that is; *p as an argument needs p engaged, and optional<U>*)
(* is another type than that of the optional it is converted to.           *)
Make(op, o, from, how) ==
    /\ ~busy /\ busy' = TRUE
    /\ o \in alive <=> op \notin Ctors
    /\ op \in FromNothing => from = o
    /\ op \in FromOptional => from \in alive
    /\ op \in {"convert_ctor", "assign_converting"} => from # o
    /\ op \in FromValue => from = Arg \/ Engaged(from)
    /\ call' = [op |-> op, o |-> o, from |-> from, how |-> how]
    /\ \E x \in (IF from = Arg THEN Values ELSE {Unspec}) :
          m_storage' = [m_storage EXCEPT ![Arg] = x]
    /\ outcome' = "pending" /\ result' = Garbage
    /\ UNCHANGED <<alive, m_initialized>>

------------------------------------------------------------------------------
(* How a call ends. *)

Ends(op, x) ==
    /\ busy /\ call.op = op
    /\ busy' = FALSE /\ outcome' = "returned" /\ result' = x
    /\ UNCHANGED call

(* The source of a conversion, afterwards.                                 *)
Consumed == IF call.how = "move" /\ call.op \in Converters
            THEN {m_storage[call.from], Unspec} ELSE {m_storage[call.from]}

(* m_storage = T(source); m_initialized = true                             *)
Construct ==
    /\ \E x \in Consumed :
          m_storage' = [[m_storage EXCEPT ![call.from] = x]
                           EXCEPT ![call.o] = m_storage[call.from]]
    /\ m_initialized' = [m_initialized EXCEPT ![call.o] = TRUE]

Destroy(o) == /\ m_initialized' = [m_initialized EXCEPT ![o] = FALSE]
              /\ UNCHANGED m_storage

Constructed == alive' = alive \cup {call.o}

(* The defaulted copy of the base: the storage goes along with the flag.   *)
CopyBase ==
    /\ m_initialized' = [m_initialized EXCEPT ![call.o] =
                            m_initialized[call.from]]
    /\ m_storage' = [m_storage EXCEPT ![call.o] = m_storage[call.from]]

------------------------------------------------------------------------------
(* Constructors and the destructor. *)

(* m_storage() gives the T some value.                                     *)
DefaultCtor ==
    /\ Ends("default_ctor", Garbage) /\ Constructed
    /\ m_initialized' = [m_initialized EXCEPT ![call.o] = FALSE]
    /\ m_storage' = [m_storage EXCEPT ![call.o] = Unspec]

ValueCtor == Ends("value_ctor", Garbage) /\ Construct /\ Constructed

FactoryCtor == Ends("factory_ctor", Garbage) /\ Construct /\ Constructed

CtorIfTrue == Ends("ctor_if_true", Garbage) /\ Construct /\ Constructed

(* With a false condition the constructor from a T writes it all the same, *)
(* and the in-place constructor writes nothing.                            *)
CtorIfFalse ==
    /\ Ends("ctor_if_false", Garbage) /\ Constructed
    /\ m_initialized' = [m_initialized EXCEPT ![call.o] = FALSE]
    /\ \E x \in Objects \cup {Garbage} :
          m_storage' = [m_storage EXCEPT ![call.o] = x]

CopyCtor == Ends("copy_ctor", Garbage) /\ CopyBase /\ Constructed

ConvertingCtor ==
    /\ Ends("convert_ctor", Garbage) /\ Constructed
    /\ IF m_initialized[call.from] THEN Construct
       ELSE /\ m_initialized' = [m_initialized EXCEPT ![call.o] = FALSE]
            /\ m_storage' = [m_storage EXCEPT ![call.o] = Unspec]

(* The storage goes with the optional.                                     *)
Dtor ==
    /\ Ends("dtor", Garbage)
    /\ alive' = alive \ {call.o}
    /\ m_initialized' = [m_initialized EXCEPT ![call.o] = FALSE]
    /\ m_storage' = [m_storage EXCEPT ![call.o] = Garbage]

------------------------------------------------------------------------------
(* Modifiers. *)

Reset == Ends("reset", Garbage) /\ Destroy(call.o) /\ UNCHANGED alive

AssignOptional == Ends("assign_optional", Garbage) /\ CopyBase /\ UNCHANGED alive

(* slip: the flag is set before the source's is looked at.                 *)
AssignConvertingEngages ==
    /\ Ends("assign_converting", Garbage) /\ UNCHANGED alive
    /\ IF m_initialized[call.from] THEN Construct
       ELSE /\ m_initialized' = [m_initialized EXCEPT ![call.o] = TRUE]
            /\ UNCHANGED m_storage

AssignConverting ==
    /\ Ends("assign_converting", Garbage) /\ UNCHANGED alive
    /\ IF m_initialized[call.from] THEN Construct ELSE Destroy(call.o)

AssignValue == Ends("assign_value", Garbage) /\ Construct /\ UNCHANGED alive

AssignExpr == Ends("assign_expr", Garbage) /\ Construct /\ UNCHANGED alive

Emplace == Ends("emplace", Garbage) /\ Construct /\ UNCHANGED alive

AssignFactory ==
    Ends("assign_factory", Garbage) /\ Construct /\ UNCHANGED alive

Assign(p, q) ==
    /\ m_initialized' = [m_initialized EXCEPT ![p] = TRUE, ![q] = FALSE]
    /\ m_storage' = [m_storage EXCEPT ![p] = m_storage[q]]

(* slip: the optional whose value moved away keeps it.                     *)
SwapWithoutReset ==
    LET o == call.o
        p == call.from
    IN  /\ Ends("swap", Garbage) /\ UNCHANGED alive
        /\ CASE m_initialized[o] /\ m_initialized[p] ->
                  /\ m_storage' = [m_storage EXCEPT ![o] = m_storage[p],
                                                    ![p] = m_storage[o]]
                  /\ UNCHANGED m_initialized
             [] m_initialized[o] /\ ~m_initialized[p] ->
                  /\ m_initialized' = [m_initialized EXCEPT ![p] = TRUE]
                  /\ m_storage' = [m_storage EXCEPT ![p] = m_storage[o]]
             [] ~m_initialized[o] /\ m_initialized[p] -> Assign(o, p)
             [] OTHER -> UNCHANGED <<m_initialized, m_storage>>

(* The free swap, through the assignment operators of optional.            *)
Swap ==
    LET o == call.o
        p == call.from
    IN  /\ Ends("swap", Garbage) /\ UNCHANGED alive
        /\ CASE m_initialized[o] /\ m_initialized[p] ->
                  /\ m_storage' = [m_storage EXCEPT ![o] = m_storage[p],
                                                    ![p] = m_storage[o]]
                  /\ UNCHANGED m_initialized
             [] m_initialized[o] /\ ~m_initialized[p] -> Assign(p, o)
             [] ~m_initialized[o] /\ m_initialized[p] -> Assign(o, p)
             [] OTHER -> UNCHANGED <<m_initialized, m_storage>>

------------------------------------------------------------------------------
(* Observers. *)

Value ==
    /\ busy /\ call.op = "value" /\ busy' = FALSE
    /\ outcome' = IF m_initialized[call.o] THEN "returned" ELSE "bad_access"
    /\ UNCHANGED <<alive, m_initialized, m_storage, call, result>>

(* value_or(v), and value_or_eval(f) with what f() returned.               *)
ValueOr ==
    /\ UNCHANGED <<alive, m_initialized>>
    /\ IF m_initialized[call.o]
       THEN Ends("value_or", m_storage[call.o]) /\ UNCHANGED m_storage
       ELSE /\ Ends("value_or", m_storage[call.from])
            /\ \E x \in Consumed :
                  m_storage' = [m_storage EXCEPT ![call.from] = x]

------------------------------------------------------------------------------
(* slip: the flag is set before the conversion runs.                       *)
ThrowAfterFlag ==
    /\ busy /\ call.op \in Converters
    /\ call.op \in FromOptional => m_initialized[call.from]
    /\ call.op = "value_or" => ~m_initialized[call.o]
    /\ m_initialized' = [m_initialized EXCEPT ![call.o] = call.op # "value_or"]
    /\ busy' = FALSE /\ outcome' = "threw"
    /\ UNCHANGED <<alive, m_storage, call, result>>

(* The conversion runs before anything is written; when it throws, a       *)
(* constructor leaves no optional and any other call leaves its own alone. *)
Throw ==
    /\ busy /\ call.op \in Converters
    /\ call.op \in FromOptional => m_initialized[call.from]
    /\ call.op = "value_or" => ~m_initialized[call.o]
    /\ \E x \in (IF Strong THEN {m_storage[call.from]} ELSE Consumed) :
          m_storage' = [m_storage EXCEPT ![call.from] = x]
    /\ busy' = FALSE /\ outcome' = "threw"
    /\ UNCHANGED <<alive, m_initialized, call, result>>

End == \/ DefaultCtor \/ ValueCtor \/ FactoryCtor \/ CtorIfTrue \/ CtorIfFalse
       \/ CopyCtor \/ ConvertingCtor \/ Dtor
       \/ Reset \/ AssignOptional \/ AssignConverting \/ AssignValue
       \/ AssignExpr \/ Emplace \/ AssignFactory \/ Swap
       \/ Value \/ ValueOr

Next == \/ \E op \in Ops, o \in Opts, from \in Opts \cup {Arg}, how \in Hows :
              Make(op, o, from, how)
        \/ End \/ Throw

Spec == Init /\ [][Next]_tcvars

------------------------------------------------------------------------------
(* The types of the variables.  Code: tc_optional_base's members and the   *)
(* call in progress.                                                       *)
TypeOK ==
    /\ alive \subseteq Opts
    /\ m_initialized \in [Opts -> BOOLEAN]
    /\ m_storage \in [Opts \cup {Arg} -> Objects \cup {Garbage}]
    /\ busy \in BOOLEAN
    /\ call \in [op : Ops \cup {"none"}, o : Opts, from : Opts \cup {Arg}, how : Hows]
    /\ outcome \in {"none", "pending", "returned", "threw", "bad_access"}
    /\ result \in Objects \cup {Garbage}

(* What a caller sees.                                                     *)
View(a, i, s) == [p \in Opts \cup {Arg} |->
                    IF p = Arg THEN s[p]
                    ELSE IF p \notin a THEN Absent
                    ELSE IF i[p] THEN s[p] ELSE None]

Seen == View(alive, m_initialized, m_storage)

(* The value of an engaged optional has been written: m_storage may be     *)
(* left unwritten by a constructor, is copied along unwritten, and keeps   *)
(* old values of disengaged optionals, but none of these comes to light.   *)
EngagedIsWritten == \A o \in Opts : Engaged(o) => m_storage[o] # Garbage

Written ==
    /\ m_storage[Arg] # Garbage
    /\ \A o \in Opts : m_initialized[o] => o \in alive /\ m_storage[o] # Garbage

Called ==
    /\ outcome = "pending" /\ result = Garbage
    /\ call.op \in Ops
    /\ call.o \in alive <=> call.op \notin Ctors
    /\ call.op \in FromNothing => call.from = call.o
    /\ call.op \in FromOptional => call.from \in alive
    /\ call.op \in {"convert_ctor", "assign_converting"} => call.from # call.o
    /\ call.op \in FromValue => call.from = Arg \/ m_initialized[call.from]

(* The inductive invariant: flags are set of live optionals with a written *)
(* value only, and the preconditions of the call in progress still hold.   *)
(* Code: every function of tc_optional_base.                               *)
TcInv == TypeOK /\ Written /\ (busy => Called)

(* Every call does what the contract of optional promises, with the        *)
(* difference that no call ends the old value first: also emplace and      *)
(* assignment from a factory leave the optional as it was when they throw, *)
(* and may be given the optional's own value.                              *)
Contract == INSTANCE OptionalContract WITH
    val <- Seen, NoResult <- Garbage, Rebuilders <- {}

ImplementsContract == Contract!Spec

(* A call whose conversion or factory throws leaves the optional           *)
(* uninitialized: so say of assignments from an expression, a factory and  *)
(* an optional<U>, and of emplace(), the comments in optional.hpp (740,    *)
(* 754, 764 and 837), and of emplace() and factories                       *)
(* doc/28_ref_optional_semantics.qbk (505, 529-531).  construct() and      *)
(* assign() touch flag and storage only when the new value is made.        *)
ThrowLeavesUninitialized ==
    (/\ ~busy /\ outcome = "threw"
     /\ call.op \in {"assign_expr", "assign_converting", "emplace",
                     "assign_factory"}) => Seen[call.o] = None
==============================================================================
