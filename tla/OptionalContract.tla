--------------------------- MODULE OptionalContract ---------------------------
(***************************************************************************)
(* What optional<T> promises its callers, whatever implements it.  A call  *)
(* is two steps: it is made, and it ends by returning or by throwing.  The *)
(* state is what callers see: for each optional None, its value, or Absent *)
(* outside its lifetime.  Nothing here knows of flags, storage or the T    *)
(* operations that a call is made of.                                      *)
(***************************************************************************)
CONSTANTS Opts, Values, Unspec, None, Absent, Arg, NoResult, Strong,
          Rebuilders  \* the calls that end the old value before they make
                      \* the new one

Objects == Values \cup {Unspec}
Hows == {"copy", "move"}

VARIABLES
    val,      \* [Opts \cup {Arg} -> Objects \cup {None, Absent}]
    busy,     \* a call has been made and has not ended
    call,     \* the latest call
    outcome,  \* how it ended
    result    \* the T it returned, if it did

cvars == <<val, busy, call, outcome, result>>

Constructors == {"default_ctor", "value_ctor", "ctor_if_true",
                 "ctor_if_false", "copy_ctor", "convert_ctor",
                 "factory_ctor"}
Emptying == {"default_ctor", "ctor_if_false", "reset"}
Converting == {"convert_ctor", "assign_converting", "assign_expr"}
Transfers == {"value_ctor", "ctor_if_true", "factory_ctor", "copy_ctor",
              "assign_optional", "assign_value", "emplace",
              "assign_factory"} \cup Converting
FromOptional == {"copy_ctor", "convert_ctor", "assign_optional",
                 "assign_converting", "swap"}
Ops == Emptying \cup Transfers \cup {"dtor", "swap", "value", "value_or"}

Calls == [op : Ops, o : Opts, from : Opts \cup {Arg}, how : Hows]

InLife(v) == {o \in Opts : v[o] # Absent}

(* The preconditions: constructors build an optional that does not exist,  *)
(* all else needs one that does, and *p needs p engaged.                   *)
Allowed(c, v) ==
    /\ c.o \in InLife(v) <=> c.op \notin Constructors
    /\ c.op \in FromOptional => c.from \in InLife(v)
    /\ c.op \notin FromOptional \cup Emptying \cup {"dtor", "value"} =>
          v[c.from] \in Objects

(* What a move may leave in its source: still a T, never a disengaged one. *)
Left(c, v, p) == IF c.how = "move" /\ v[p] \in Objects
                 THEN {v[p], Unspec} ELSE {v[p]}

(* Where the value that a call hands on comes from.                        *)
Giver(c, v) == IF c.op = "value_or" /\ v[c.o] # None THEN c.o ELSE c.from

(* The states in which a call may return, and the result it may return.    *)
Returns(c, v, w) ==
    \/ c.op \in Emptying /\ w = [v EXCEPT ![c.o] = None]
    \/ c.op = "dtor" /\ w = [v EXCEPT ![c.o] = Absent]
    \/ c.op = "swap" /\ w = [v EXCEPT ![c.o] = v[c.from], ![c.from] = v[c.o]]
    \/ c.op = "value" /\ v[c.o] # None /\ w = v
    \/ /\ c.op \in Transfers
       /\ c.op \in Rebuilders => c.from # c.o
       /\ \E x \in Left(c, v, c.from) :
             w = [v EXCEPT ![c.o] = v[c.from], ![c.from] = x]
    \/ /\ c.op \in Rebuilders /\ c.from = c.o
       /\ \E x \in Objects : w = [v EXCEPT ![c.o] = x]
    \/ /\ c.op = "value_or"
       /\ LET p == Giver(c, v)
          IN  \E x \in Left(c, v, p) : w = [v EXCEPT ![p] = x]

Result(c, v) == IF c.op = "value_or" THEN v[Giver(c, v)] ELSE NoResult

(* The states in which a call may throw what an operation of T threw.  A   *)
(* copy leaves its source alone; no optional changes between engaged and   *)
(* disengaged, but for the one that was to be rebuilt.  If T gives the     *)
(* strong guarantee so does the call, except that a conversion may have    *)
(* consumed the source that it moved from.                                 *)
Emptied(c, v) == IF c.op \in Rebuilders THEN [v EXCEPT ![c.o] = None] ELSE v

ThrowsT(c, v, w) ==
    /\ c.op \notin Emptying \cup {"dtor", "value"}
    /\ c.op = "swap" => v[c.o] \in Objects \/ v[c.from] \in Objects
    /\ c.op \in FromOptional \ {"swap"} => v[c.from] \in Objects
    /\ LET u == Emptied(c, v)
           Touched == (IF c.how = "move" THEN {Giver(c, v)} ELSE {})
                        \cup (IF c.op = "value_or" THEN {} ELSE {c.o})
       IN  IF Strong /\ ~(c.op \in Converting /\ c.how = "move") THEN w = u
           ELSE /\ \A p \in (Opts \cup {Arg}) \ Touched : w[p] = u[p]
                /\ \A p \in Touched : IF u[p] \in Objects THEN w[p] \in Objects
                                      ELSE w[p] = u[p]

------------------------------------------------------------------------------
Init ==
    /\ val = [p \in Opts \cup {Arg} |-> IF p = Arg THEN Unspec ELSE Absent]
    /\ busy = FALSE
    /\ call = [op |-> "none", o |-> CHOOSE o \in Opts : TRUE,
               from |-> Arg, how |-> "copy"]
    /\ outcome = "none"
    /\ result = NoResult

Make ==
    /\ ~busy /\ busy' = TRUE
    /\ call' \in Calls
    /\ \E x \in (IF call'.from = Arg THEN Values ELSE {Unspec}) :
          val' = [val EXCEPT ![Arg] = x]
    /\ Allowed(call', val')
    /\ outcome' = "pending" /\ result' = NoResult

EndByReturning ==
    /\ busy /\ busy' = FALSE /\ UNCHANGED call
    /\ Returns(call, val, val')
    /\ outcome' = "returned" /\ result' = Result(call, val)

EndByThrowing ==
    /\ busy /\ busy' = FALSE /\ UNCHANGED call
    /\ ThrowsT(call, val, val')
    /\ outcome' = "threw" /\ result' = NoResult

EndByBadAccess ==
    /\ busy /\ busy' = FALSE /\ UNCHANGED <<call, val>>
    /\ call.op = "value" /\ val[call.o] = None
    /\ outcome' = "bad_access" /\ result' = NoResult

Next == \/ Make
        \/ EndByReturning \/ EndByThrowing \/ EndByBadAccess

Spec == Init /\ [][Next]_cvars
==============================================================================
