------------------------------ MODULE Guarantees ------------------------------
(***************************************************************************)
(* What every implementation of optional<T> over the object model has to   *)
(* guarantee: the properties that the runs check and the proofs are about. *)
(***************************************************************************)
EXTENDS ObjectModel

CallOps == {"none", "default_ctor", "value_ctor", "ctor_if_true",
            "ctor_if_false", "copy_ctor", "convert_ctor", "factory_ctor",
            "dtor", "reset", "assign_optional", "assign_converting",
            "assign_expr", "assign_value", "emplace", "assign_factory", "swap",
            "value", "value_or"}

(* The calls that are to end the old value before they make the new one.   *)
Rebuilders == {"emplace", "assign_factory"}

(* The calls that may convert their source to a T before they use it.      *)
Converting == {"convert_ctor", "assign_converting", "assign_expr"}

(* The types of the variables; between its destructions a T is a value the *)
(* caller passed in or an unspecified one, and the argument is always      *)
(* live.  Code: the object model.                                          *)
TypeOK ==
    /\ life \in [Opts -> Lives]
    /\ init \in [Opts -> BOOLEAN]
    /\ slot \in [Places -> Objects \cup {Raw}] /\ slot[Arg] # Raw
    /\ todo \in Seq(Stmts)
    /\ busy \in BOOLEAN
    /\ call \in [op : CallOps, o : Opts, from : Opts \cup {Arg}, how : Hows]
    /\ outcome \in Outcomes
    /\ before \in [Opts \cup {Arg} -> Objects \cup {None, Absent}]

Pending(dos, o) == todo # <<>> /\ Head(todo) \in [do : dos, at : {o},
                                                  from : Places, how : Hows]

(* Whenever code of T runs, and whenever no call is in progress, the flag  *)
(* of every optional in its lifetime tells whether a T lives in its        *)
(* storage: code of T that looks at an optional sees has_value() agree     *)
(* with the storage, also while the T is being destroyed.  (With a trivial *)
(* destructor a T that was reset may linger in the storage.)  Code:        *)
(* initialize(), guarded_storage::reset() and all their callers.           *)
FlagTellsTheTruth ==
    \A o \in Opts : life[o] \in {"alive", "dying"} =>
        /\ init[o] => \/ slot[o] # Raw
                      \/ Pending({"disengage"}, o)
                      \/ life[o] = "dying" /\ todo = <<>>
        /\ ~Trivial /\ slot[o] # Raw => init[o] \/ Pending({"engage"}, o)

(* No T outlives the optional that held it: storage outside the lifetime   *)
(* of its optional holds no T, whatever threw while it was being built.    *)
(* Code: the constructors, their unwinding and ~guarded_storage().         *)
NothingLeaks == \A o \in Opts : life[o] = "absent" => slot[o] = Raw

(* A T is constructed only in storage that holds none, which is what the   *)
(* BOOST_ASSERT in initialize() says, and only a live T is destroyed,      *)
(* assigned or swapped.  The one way to read a T after its end is to       *)
(* emplace an optional (or assign a factory to it) from its own value.     *)
LifetimesRespected ==
    (busy /\ todo # <<>>) =>
        LET s == Head(todo)
        IN  /\ s.do = "construct" =>
                 /\ Trivial \/ slot[s.at] = Raw
                 /\ (s.at \in Opts /\ Alive(s.at)) => ~init[s.at]
                 /\ ReadsDead(s) =>
                      /\ call.op \in Rebuilders
                      /\ call.from = call.o
            /\ s.do \in {"destroy", "assign", "swap"} =>
                 slot[s.at] # Raw /\ slot[s.from] # Raw

(* A call that throws leaves every optional as engaged or disengaged as it *)
(* was, except that emplace and assignment from a factory leave theirs     *)
(* disengaged.  Code: every modifier and constructor (doc "Exception       *)
(* Safety Guarantees").                                                    *)
EngagementSurvivesThrow ==
    (~busy /\ outcome = "threw") =>
        \A o \in Opts :
            IF o = call.o /\ call.op \in Rebuilders
            THEN Seen[o] = None
            ELSE /\ Seen[o] \in Objects <=> before[o] \in Objects
                 /\ Seen[o] = Absent <=> before[o] = Absent

(* If the operations of T give the strong guarantee, so does every call    *)
(* that does not first destroy the old value and does not convert an       *)
(* rvalue: when it throws, all the optionals and the argument are as they  *)
(* were.  (A conversion may have consumed the rvalue that it was given     *)
(* before the move from the temporary threw.)                              *)
StrongGuaranteeLifts ==
    (/\ Strong /\ ~busy /\ outcome \in {"threw", "bad_access"}
     /\ call.op \notin Rebuilders
     /\ call.how = "move" => call.op \notin Converting)
    => Seen = before

(* The T in an optional ends only in a call that is to disengage, rebuild  *)
(* or destroy that optional: assignment to a value, value_or, and a swap   *)
(* of two engaged optionals keep every T, and every pointer to one, alive. *)
EndsValue(o) ==
    \/ call.o = o /\ call.op \in Rebuilders \cup {"reset", "dtor"}
    \/ /\ call.o = o /\ call.op \in {"assign_optional", "assign_converting"}
       /\ before[call.from] = None
    \/ call.op = "swap" /\ o \in {call.o, call.from}
         /\ None \in {before[call.o], before[call.from]}

PointersStayValid ==
    [][\A o \in Opts : slot[o] # Raw /\ slot'[o] = Raw /\ before[o] # None
          => EndsValue(o)]_vars

(* The call in progress is over for the caller only when it returns or     *)
(* throws; until then the caller's state is the one the call started from. *)
Contract == INSTANCE OptionalContract WITH
    val <- IF busy THEN before ELSE Seen,
    outcome <- IF busy THEN "pending" ELSE outcome,
    result <- IF ~busy /\ outcome = "returned" THEN slot[Ret] ELSE Raw,
    NoResult <- Raw

(* Every call does what the reference documentation of optional promises:  *)
(* its postcondition when it returns, its exception guarantee when it      *)
(* throws, for aliased arguments and self-assignment too.                  *)
ImplementsContract == Contract!Spec
==============================================================================
