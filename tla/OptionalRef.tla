----------------------------- MODULE OptionalRef -----------------------------
(***************************************************************************)
(* optional<T&> (boost/optional/detail/optional_reference_spec.hpp)        *)
(* together with the optional<T> objects it is converted from.             *)
(*                                                                         *)
(* An optional<T&> is a pointer: it owns nothing, and nothing tells it     *)
(* when the optional<T> it points into is reset, assigned or destroyed.    *)
(* Each of its operations is one noexcept step.  The program can make it   *)
(* between calls on the owners, and so can the code of T that such a call  *)
(* runs.  A reference whose T is gone may be rebound, reset and copied,    *)
(* but not dereferenced.  Through any other the program may assign to the  *)
(* T, or move it away, past the optional that it lives in; here it does so *)
(* between calls on the owners.                                            *)
(***************************************************************************)
EXTENDS UnionOptional

CONSTANTS
    Refs,  \* the optional<T&> variables of the program
    Null   \* no address

ASSUME OptionalRefAssumption == Null \notin Places /\ Raw \notin Objects

VARIABLES
    ref,   \* ptr_: the place of the T that each optional<T&> refers to
    same   \* whether that T has lived on since the reference was bound

rvars == <<vars, ref, same>>

------------------------------------------------------------------------------
(* Who can run: the program between two calls, or code of T within one.    *)
UserCode == ~busy \/ Running(TOps)

Rebind(r, place, lives) ==
    /\ UserCode
    /\ ref' = [ref EXCEPT ![r] = place]
    /\ same' = [same EXCEPT ![r] = lives]
    /\ UNCHANGED vars

(* optional(), optional(none), operator=(none), reset() *)
RefNone(r) == Rebind(r, Null, FALSE)

(* slip: assignment to an engaged reference goes through to its T.         *)
RefBindAssigns(r, s) ==
    /\ UserCode
    /\ IF ref[r] = Null
       THEN /\ ref' = [ref EXCEPT ![r] = s]
            /\ same' = [same EXCEPT ![r] = TRUE]
            /\ UNCHANGED vars
       ELSE /\ same[r]
            /\ slot' = [slot EXCEPT ![ref[r]] = slot[s]]
            /\ UNCHANGED <<life, init, todo, busy, call, outcome, before,
                           ref, same>>

(* optional(x), operator=(x), emplace(x), reset(x) of an lvalue x: the     *)
(* reference takes the address of x, bound or not before.                  *)
RefBind(r, s) == Rebind(r, s, TRUE)

(* optional(cond, x) *)
RefBindIf(r, cond, s) == IF cond THEN RefBind(r, s) ELSE RefNone(r)

(* The copy constructor and assignment, also from an optional<U&>. *)
RefCopy(r, q) == Rebind(r, ref[q], same[q])

RefSwap(r, q) ==
    /\ UserCode
    /\ ref' = [ref EXCEPT ![r] = ref[q], ![q] = ref[r]]
    /\ same' = [same EXCEPT ![r] = same[q], ![q] = same[r]]
    /\ UNCHANGED vars

(* A reference bound to what value_or(x), get_value_or(x) or               *)
(* value_or_eval(f) of another one returned.                               *)
RefFromValueOr(r, q, s) ==
    IF ref[q] # Null THEN same[q] /\ Rebind(r, ref[q], TRUE)
                     ELSE RefBind(r, s)

(* slip: the conversion does not look at the flag.                         *)
RefFromOwnerUnchecked(r, o) == Alive(o) /\ Rebind(r, o, TRUE)

(* operator optional<T&>() of optional<T>: binds to the T inside, if any;  *)
(* assignment of an optional<T> to an optional<T&> converts it first.      *)
RefFromOwner(r, o) ==
    /\ Alive(o)
    /\ IF init[o] THEN RefBind(r, o) ELSE RefNone(r)

(* get_ptr(), get(&o), get_pointer(o): a T* is as good a reference. *)
PtrFromOwner(r, o) ==
    /\ Alive(o)
    /\ IF init[o] THEN RefBind(r, o) ELSE RefNone(r)

(* get_optional_value_or(o, x), o.get_value_or(x): a reference to the T    *)
(* inside, if any, and else to x.                                          *)
RefFromOwnerOr(r, o, s) == Alive(o) /\ RefBind(r, IF init[o] THEN o ELSE s)

(* What the program does with references: to those in rs, to themselves.   *)
RefStepOf(rs) ==
    \E r \in rs :
        \/ RefNone(r)
        \/ \E q \in rs : RefCopy(r, q) \/ RefSwap(r, q)
        \/ \E s \in Sources : \/ RefBind(r, s)
                              \/ \E b \in BOOLEAN : RefBindIf(r, b, s)
                              \/ \E q \in rs : RefFromValueOr(r, q, s)
                              \/ \E o \in Opts : RefFromOwnerOr(r, o, s)
        \/ \E o \in Opts : RefFromOwner(r, o) \/ PtrFromOwner(r, o)

RefStep == RefStepOf(Refs)

------------------------------------------------------------------------------
(* The owners go on without a look at the references. *)
Ends == {o \in Opts : slot[o] # Raw /\ slot'[o] = Raw}

Untold == /\ same' = [r \in Refs |-> same[r] /\ ref[r] \notin Ends]
          /\ UNCHANGED ref

OwnerStep == Next /\ Untold

(* *r, r->, r.get(), r.value(): the T that r refers to, in an optional,    *)
(* used by its address.  No flag is looked at.  (Storage may still hold a  *)
(* T without destructor that its optional has lost; nobody uses that.)     *)
Usable(r) == same[r] /\ ref[r] \in Opts /\ (Trivial => Engaged(ref[r]))

(* *r = x, for an object x or x = *p: T's assignment.  As a call it counts *)
(* as one on the optional, of which this is to be a part.                  *)
RefAssign(r, s, how) ==
    /\ Usable(r)
    /\ BeginOn("assign_value", ref[r], s, how, <<AssignT(ref[r], s, how)>>)
    /\ Untold

(* T x = std::move( *r ): T's move constructor.                            *)
RefTake(r) ==
    /\ Usable(r)
    /\ BeginOn("value_or", ref[r], ref[r], "move",
               <<Construct(Ret, ref[r], "move")>>)
    /\ Untold

RefUse(r) == \/ RefTake(r)
             \/ \E s \in Sources, how \in Hows : RefAssign(r, s, how)

------------------------------------------------------------------------------
RefInit == /\ InitObjects
           /\ ref = [r \in Refs |-> Null]
           /\ same = [r \in Refs |-> FALSE]

RefNext == OwnerStep \/ RefStep \/ \E r \in Refs : RefUse(r)

RefSpec == RefInit /\ [][RefNext]_rvars

------------------------------------------------------------------------------
(* The types of the references' own variables; those of the owners have    *)
(* theirs in TypeOK.  Code: ptr_.                                          *)
RefTypeOK ==
    /\ ref \in [Refs -> Opts \cup {Arg, Null}]
    /\ same \in [Refs -> BOOLEAN]

(* A reference never refers to storage where no T has lived since it was   *)
(* bound, also when code of T binds it in the middle of a call on its      *)
(* owner; and between calls the owner of a T that it refers to is engaged, *)
(* so that *r is the T that *o is.  Code: operator optional<T&>() and      *)
(* get_ptr(), which trust the flag, and everything that sets the flag.     *)
RefSeesOwner ==
    \A r \in Refs : same[r] =>
        /\ ref[r] # Null /\ slot[ref[r]] # Raw
        /\ (~busy /\ ref[r] \in Opts /\ ~Trivial) => Engaged(ref[r])

(* The call is to end the T at p; or T has no destructor, and has only     *)
(* lingered there since the optional lost its value in an earlier call.    *)
MayDangle(p) == EndsValue(p) \/ (Trivial /\ before[p] = None)

(* A reference into an optional dangles only because that optional was     *)
(* reset, rebuilt, destroyed, or lost its value to the other side of a     *)
(* swap or in an assignment from an optional without one: assignment of a  *)
(* value, a swap of two engaged optionals and a call that throws keep it.  *)
(* Code: assign(), swap() and reset() of the owner.                        *)
DanglesOnlyWhenOwnerEnds ==
    [][\A r \in Refs : (same[r] /\ slot'[ref[r]] = Raw)
          => MayDangle(ref[r])]_rvars
==============================================================================
