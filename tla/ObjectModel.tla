----------------------------- MODULE ObjectModel -----------------------------
(***************************************************************************)
(* The C++ objects that an implementation of optional<T> handles, and the  *)
(* one call in progress.                                                   *)
(*                                                                         *)
(* A place is a piece of memory that may hold a T: the storage of each     *)
(* optional, the caller's argument (Arg), the result of a call (Ret) and a *)
(* temporary (Tmp); the compiler destroys the last three.                  *)
(* The statements of the call in progress that touch a T or the flag of an *)
(* optional wait in `todo', in program order.  Every statement that runs   *)
(* code of T (a constructor, an assignment, a swap, a destructor) is a     *)
(* step of its own: that code may throw, and it may look at the optionals. *)
(***************************************************************************)
EXTENDS Naturals, Sequences

CONSTANTS
    Opts,    \* the optional<T> variables of the program
    Values,  \* the values of T that a caller passes in
    Unspec,  \* the valid but unspecified value of a moved-from or broken T
    Raw,     \* a place that holds no T
    None,    \* what a caller sees in an optional without a value
    Absent,  \* what a caller sees of an optional outside its lifetime
    Arg,     \* the caller's argument, a T
    Ret,     \* the object that a call returns
    Tmp,     \* a temporary T that the call converts its argument to
    Strong,  \* TRUE when a throwing operation of T has no effect
    Trivial  \* TRUE when T is trivially destructible

Objects == Values \cup {Unspec}
Places == Opts \cup {Arg, Ret, Tmp}
Hows == {"copy", "move"}

ASSUME ObjectModelAssumption ==
    /\ Opts # {}
    /\ Unspec \notin Values
    /\ \A x \in {Raw, None, Absent} : x \notin Objects
    /\ Raw # None /\ Raw # Absent /\ None # Absent
    /\ \A p \in {Arg, Ret, Tmp} : p \notin Opts
    /\ Arg # Ret /\ Arg # Tmp /\ Ret # Tmp
    /\ Strong \in BOOLEAN /\ Trivial \in BOOLEAN

VARIABLES
    life,     \* where each optional is in its lifetime
    init,     \* the flag of each optional (init_, m_initialized)
    slot,     \* the T in each place, or Raw
    todo,     \* the statements the call in progress has still to run
    busy,     \* TRUE while a call is in progress
    call,     \* the latest call
    outcome,  \* how the latest call ended
    before    \* what the caller saw when the latest call was made

vars == <<life, init, slot, todo, busy, call, outcome, before>>

------------------------------------------------------------------------------
(* Statements and calls. *)

(* "storage": a constructor runs and has not completed the object's        *)
(* subobjects; "body": it has, so unwinding destroys them.                 *)
Building == {"storage", "body"}
Lives == Building \cup {"absent", "alive", "dying"}
TOps == {"construct", "destroy", "assign", "swap"}
Outcomes == {"none", "pending", "returned", "threw", "bad_access"}

Stmts == [do : TOps \cup {"engage", "disengage"},
          at : Places, from : Places, how : Hows]

Stmt(do, p, q, how) == [do |-> do, at |-> p, from |-> q, how |-> how]

Construct(p, q, how) == Stmt("construct", p, q, how)   \* new (p) T(q)
AssignT(p, q, how) == Stmt("assign", p, q, how)        \* p = q
SwapT(p, q) == Stmt("swap", p, q, "copy")              \* swap(p, q)
Destroy(p) == Stmt("destroy", p, p, "copy")            \* p.~T()
Engage(p) == Stmt("engage", p, p, "copy")              \* p's flag = true
Disengage(p) == Stmt("disengage", p, p, "copy")        \* p's flag = false

(* What a caller sees: for an optional None, Absent or its value, for the  *)
(* argument its value.                                                     *)
Seen == [p \in Opts \cup {Arg} |->
           CASE p = Arg -> slot[p]
             [] p # Arg /\ life[p] = "absent" -> Absent
             [] p # Arg /\ life[p] # "absent" /\ init[p] -> slot[p]
             [] OTHER -> None]

Alive(o) == life[o] = "alive"
Engaged(o) == Alive(o) /\ init[o]

(* The expressions a caller may pass as a T: the argument object, or *p.   *)
Sources == {Arg} \cup {p \in Opts : Engaged(p)}

InitObjects ==
    /\ life = [o \in Opts |-> "absent"]
    /\ init = [o \in Opts |-> FALSE]
    /\ slot = [p \in Places |-> IF p = Arg THEN Unspec ELSE Raw]
    /\ todo = <<>>
    /\ busy = FALSE
    /\ call = [op |-> "none", o |-> CHOOSE o \in Opts : TRUE,
               from |-> Arg, how |-> "copy"]
    /\ outcome = "none"
    /\ before = Seen

(* A call starts; an argument that the call does not name is unspecified.  *)
BeginWith(result, op, o, from, how, program) ==
    /\ ~busy
    /\ busy' = TRUE
    /\ call' = [op |-> op, o |-> o, from |-> from, how |-> how]
    /\ todo' = program
    /\ outcome' = result
    /\ \E x \in (IF from = Arg THEN Values ELSE {Unspec}) :
          /\ slot' = [slot EXCEPT ![Arg] = x, ![Ret] = Raw, ![Tmp] = Raw]
          /\ before' = [Seen EXCEPT ![Arg] = x]
    /\ UNCHANGED init

Begin(op, o, from, how, program) ==
    BeginWith("pending", op, o, from, how, program)

(* A constructor of o; `stage' is the one its program runs in.             *)
BeginCtor(stage, op, o, s, how, program) ==
    /\ life[o] = "absent"
    /\ Begin(op, o, s, how, program)
    /\ life' = [life EXCEPT ![o] = stage]

(* A call on an optional in its lifetime.                                  *)
BeginOn(op, o, s, how, program) ==
    /\ Alive(o)
    /\ Begin(op, o, s, how, program)
    /\ UNCHANGED life

------------------------------------------------------------------------------
(* The operations of T.  Each yields the set of the states that the places *)
(* may be left in.                                                         *)

Leftover(s) == IF s.how = "move" THEN {slot[s.from], Unspec}
                                 ELSE {slot[s.from]}

(* A statement reads its source after the lifetime of the object there has *)
(* ended: what it then reads is anything.                                  *)
ReadsDead(s) == \/ slot[s.from] = Raw
                \/ s.do = "construct" /\ s.from = s.at

Transferred(s) == {[slot EXCEPT ![s.at] = slot[s.from], ![s.from] = x] :
                      x \in Leftover(s)}

Succeeds(s) ==
    CASE s.do = "construct" /\ ReadsDead(s) ->
            {[slot EXCEPT ![s.at] = x] : x \in Objects}
      [] s.do \in {"construct", "assign"} /\ ~ReadsDead(s) -> Transferred(s)
      [] s.do = "swap" ->
            {[slot EXCEPT ![s.at] = slot[s.from], ![s.from] = slot[s.at]]}
      [] s.do = "destroy" -> {[slot EXCEPT ![s.at] = Raw]}
      [] OTHER -> {slot}

(* A T with the basic guarantee may break the objects it worked on.        *)
Throws(s) ==
    CASE s.do = "construct" ->
            {[slot EXCEPT ![s.from] = x, ![s.at] = Raw] :
                x \in IF Strong THEN {slot[s.from]} ELSE Leftover(s)}
      [] s.do = "assign" /\ ~Strong ->
            {[slot EXCEPT ![s.from] = x, ![s.at] = y] :
                x \in Leftover(s), y \in {slot[s.at], Unspec}}
      [] s.do = "swap" /\ ~Strong ->
            {[slot EXCEPT ![s.from] = x, ![s.at] = y] :
                x, y \in {slot[s.at], slot[s.from], Unspec}}
      [] s.do \in {"assign", "swap"} /\ Strong -> {slot}
      [] OTHER -> {}

------------------------------------------------------------------------------
(* The steps of the call in progress. *)

Running(dos) == busy /\ todo # <<>> /\ Head(todo).do \in dos

(* An operation of T runs to its end. *)
RunT ==
    /\ Running(TOps)
    /\ slot' \in Succeeds(Head(todo))
    /\ todo' = Tail(todo)
    /\ UNCHANGED <<life, init, busy, call, outcome, before>>

(* The call sets or clears the flag of an optional. *)
RunFlag ==
    /\ Running({"engage", "disengage"})
    /\ init' = [init EXCEPT ![Head(todo).at] = (Head(todo).do = "engage")]
    /\ todo' = Tail(todo)
    /\ UNCHANGED <<life, slot, busy, call, outcome, before>>

(* An operation of T throws: the rest of the call is abandoned, and only   *)
(* the destructors that unwinding runs are left to do.                     *)
ThrowT(unwinding) ==
    /\ Running({"construct", "assign", "swap"})
    /\ outcome = "pending"
    /\ slot' \in Throws(Head(todo))
    /\ todo' = unwinding
    /\ outcome' = "threw"
    /\ UNCHANGED <<life, init, busy, call, before>>

(* Control goes back to the caller.  An optional whose constructor threw   *)
(* or whose destructor ran is gone, its flag with it; a T that needs no    *)
(* destructor goes with the storage, any other is left behind as a leak.   *)
Gone(o) == \/ life[o] \in Building /\ outcome = "threw"
           \/ life[o] = "dying"

Return ==
    /\ busy /\ todo = <<>>
    /\ busy' = FALSE
    /\ outcome' = IF outcome = "pending" THEN "returned" ELSE outcome
    /\ life' = [o \in Opts |-> IF Gone(o) THEN "absent"
                               ELSE IF life[o] \in Building THEN "alive"
                               ELSE life[o]]
    /\ init' = [o \in Opts |-> init[o] /\ ~Gone(o)]
    /\ slot' = [p \in Places |-> IF p \in Opts /\ Trivial /\ Gone(p)
                                 THEN Raw ELSE slot[p]]
    /\ UNCHANGED <<todo, call, before>>
==============================================================================
