--------------------------- MODULE OptionalMonadic ---------------------------
(***************************************************************************)
(* map, flat_map and value_or_eval of optional<T> and map, flat_map of     *)
(* optional<T&>: they call a function f of the program's while they are    *)
(* themselves in progress.                                                 *)
(*                                                                         *)
(* f is given a reference to the T in the optional.  It may assign to that *)
(* T, move it away or return a reference to it, unless it is const, and do *)
(* anything to the optional meanwhile: assign to it, reset it, destroy it, *)
(* or call map on it again.  The callback at depth n of the stack holds    *)
(* its argument in the reference n.  f runs between calls on the owners,   *)
(* so that what it does with the optionals are the calls of UnionOptional. *)
(***************************************************************************)
EXTENDS OptionalRef

CONSTANT Depth  \* bound on the callbacks that are active at a time

ASSUME OptionalMonadicAssumption == Depth \in Nat /\ 1..Depth \subseteq Refs

VARIABLES
    frames,  \* the callbacks that are active, the innermost last
    answer   \* how the latest step answered a call, if it did

mvars == <<rvars, frames, answer>>

(* The optional<T&> variables of the program, next to the arguments of the *)
(* callbacks.                                                              *)
Variables == Refs \ 1..Depth

Callers == {"map", "flat_map", "value_or_eval"}
NoAnswer == [fn |-> "none", found |-> FALSE, result |-> None]

(* found: whether the optional held a value when it was called; writable:  *)
(* whether f was given a T& or T&&, and no const T&.                       *)
Frame(fn, on, found, writable) ==
    [fn |-> fn, on |-> on, found |-> found, writable |-> writable]
Top == frames[Len(frames)]
Pop == SubSeq(frames, 1, Len(frames) - 1)

------------------------------------------------------------------------------
(* f is called with a reference to the T at `place', if with any.          *)
CallBack(fn, place, found, writable) ==
    LET n == Len(frames) + 1
    IN  /\ ~busy /\ n <= Depth
        /\ frames' = Append(frames, Frame(fn, place, found, writable))
        /\ Rebind(n, place, place # Null)
        /\ answer' = NoAnswer

(* The call returns without a callback. *)
AnswerNone(fn, found) ==
    /\ ~busy
    /\ answer' = [fn |-> fn, found |-> found, result |-> None]
    /\ UNCHANGED <<rvars, frames>>

(* slip: get() is called for an optional without a value, too.             *)
MapUnchecked(o, fn, overload) ==
    /\ Alive(o)
    /\ CallBack(fn, o, init[o], overload # "const&")

(* o.map(f), o.flat_map(f): f(get()) in the overload for an lvalue and the *)
(* one for a const optional, f(move(get())) in that for an rvalue.         *)
Map(o, fn, overload) ==
    /\ Alive(o)
    /\ IF init[o] THEN CallBack(fn, o, init[o], overload # "const&")
                  ELSE AnswerNone(fn, init[o])

(* r.map(f), r.flat_map(f) of an optional<T&>, whose T has to be alive *)
MapRef(r, fn) ==
    LET found == ref[r] # Null
    IN  /\ same[r] \/ ~found
        /\ IF found THEN CallBack(fn, ref[r], found, TRUE)
                    ELSE AnswerNone(fn, found)

(* o.value_or_eval(f) calls f only if there is no value; ValueOr has the   *)
(* other case.                                                             *)
ValueOrEval(o) ==
    /\ Alive(o) /\ ~init[o]
    /\ CallBack("value_or_eval", Null, init[o], FALSE)

(* What f does with its argument itself.  (If it takes a T by value, from  *)
(* an rvalue, the first thing that it does is to move it.)                 *)
UseArgument(n) == frames[n].writable /\ RefUse(n)

(* f returns its argument, or keeps it otherwise: r refers to it.          *)
KeepArgument(r, n) == frames[n].writable /\ RefCopy(r, n)

------------------------------------------------------------------------------
(* What f may return: a T, or an optional<T> if flat_map called it. *)
Returnable(fn) == IF fn = "flat_map" THEN Values \cup {None} ELSE Values

(* slip: the optional is looked at again once f has returned.              *)
AnsweredLate(frame, x) ==
    IF frame.on \in Opts /\ ~Engaged(frame.on) THEN None ELSE x

(* What the call makes of x, which f returned. *)
Answered(frame, x) == x

Leave(result) ==
    /\ ~busy /\ frames # <<>>
    /\ frames' = Pop
    /\ Rebind(Len(frames), Null, FALSE)
    /\ answer' = [fn |-> Top.fn, found |-> Top.found, result |-> result]

FReturns(x) == /\ frames # <<>> /\ x \in Returnable(Top.fn)
               /\ Leave(Answered(Top, x))

(* f, or the conversion of its result, throws; map has nothing to undo.    *)
FThrows == Leave(Absent)

------------------------------------------------------------------------------
Callback == \/ \E fn \in {"map", "flat_map"} :
                  \/ \E o \in Opts, overload \in {"&", "const&", "&&"} :
                        Map(o, fn, overload)
                  \/ \E r \in Variables : MapRef(r, fn)
            \/ \E o \in Opts : ValueOrEval(o)
            \/ \E x \in Values \cup {None} : FReturns(x)
            \/ FThrows

(* What the program does next, or f for it. *)
Proceed == \/ OwnerStep \/ RefStepOf(Variables)
           \/ \E r \in Variables : RefUse(r)
           \/ \E n \in 1..Len(frames) :
                 \/ UseArgument(n)
                 \/ \E r \in Variables : KeepArgument(r, n)

MonadicInit == RefInit /\ frames = <<>> /\ answer = NoAnswer

MonadicNext ==
    \/ Callback
    \/ Proceed /\ answer' = NoAnswer /\ UNCHANGED frames

MonadicSpec == MonadicInit /\ [][MonadicNext]_mvars

------------------------------------------------------------------------------
(* The types of the stack of callbacks.  Code: none, it is the program's.  *)
MonadicTypeOK ==
    /\ frames \in Seq([fn : Callers, on : Opts \cup {Arg, Null},
                       found : BOOLEAN, writable : BOOLEAN])
    /\ Len(frames) <= Depth

(* map, flat_map and value_or_eval answer for the moment they were called: *)
(* map has a value to return exactly if the optional held one then, and    *)
(* value_or_eval always has, whatever f did to the optional since.  Code:  *)
(* no overload touches *this after f has run.                              *)
AnswersForTheCall ==
    answer.result # Absent =>
        /\ answer.fn = "map" => (answer.found <=> answer.result # None)
        /\ (answer.fn = "flat_map" /\ ~answer.found) => answer.result = None
        /\ answer.fn = "value_or_eval" => answer.result # None
==============================================================================
