----------------------------- MODULE OptionalSwap -----------------------------
(***************************************************************************)
(* How the fallback swaps two optionals: optional_swap.hpp and the member  *)
(* swap of optional.hpp.  The member calls swap unqualified, which finds   *)
(* the free function; that one picks an implementation by a trait, and the *)
(* implementation calls T's swap, T's constructors and operations of       *)
(* optional, but never swap on optionals again.                            *)
(*                                                                         *)
(* A call of swap on optionals is a statement of its own here, so that the *)
(* dispatch is part of the model; the rest is OptionalBase.                *)
(***************************************************************************)
EXTENDS OptionalBase

VARIABLES
    useDefaultCtor,  \* optional_swap_should_use_default_constructor<T>
    throwing,        \* which operations of T that swap may use may throw:
                     \* "default", "move", "swap"
    nothrowMove,     \* T's move constructor and assignment are noexcept
    sealed           \* a noexcept function is on the stack

(* What T is like, for the whole program.                                  *)
traits == <<useDefaultCtor, throwing, nothrowMove>>
svars == <<vars, traits, sealed>>

------------------------------------------------------------------------------
(* The two implementations. *)

(* A default T.  The argument of a swap call is not used for anything      *)
(* else, so that its unspecified value stands for that of a default T.     *)
DefaultT(o) == Construct(o, Arg, "copy")

(* slip: the flags are read again after emplace() has set them.            *)
SwapByDefaultRereads(o, p) ==
    CASE init[o] /\ init[p] -> <<SwapT(o, p)>>
      [] init[o] /\ ~init[p] -> <<DefaultT(p), Engage(p), SwapT(o, p)>>
      [] ~init[o] /\ init[p] -> <<DefaultT(o), Engage(o), SwapT(o, p)>>
      [] OTHER -> <<>>

(* swap_selector<true>: a default T in the optional without a value, T's   *)
(* swap, and none to the one that had the value.  Both flags are saved     *)
(* before the first of these steps.                                        *)
SwapByDefault(o, p) ==
    CASE init[o] /\ init[p] -> <<SwapT(o, p)>>
      [] init[o] /\ ~init[p] ->
            <<DefaultT(p), Engage(p), SwapT(o, p)>> \o DestroyIn(o)
      [] ~init[o] /\ init[p] ->
            <<DefaultT(o), Engage(o), SwapT(o, p)>> \o DestroyIn(p)
      [] OTHER -> <<>>

(* slip: the value is disengaged before it is moved from.                  *)
SwapByMoveTooLate(o, p) ==
    CASE init[o] /\ init[p] -> <<SwapT(o, p)>>
      [] init[o] /\ ~init[p] -> DestroyIn(o) \o ConstructIn(p, o, "move")
      [] ~init[o] /\ init[p] -> DestroyIn(p) \o ConstructIn(o, p, "move")
      [] OTHER -> <<>>

(* swap_selector<false> *)
SwapByMove(o, p) ==
    CASE init[o] /\ init[p] -> <<SwapT(o, p)>>
      [] init[o] /\ ~init[p] -> ConstructIn(p, o, "move") \o DestroyIn(o)
      [] ~init[o] /\ init[p] -> ConstructIn(o, p, "move") \o DestroyIn(p)
      [] OTHER -> <<>>

------------------------------------------------------------------------------
(* The dispatch. *)

InvokeSwap(o, p) == Stmt("invoke_swap", o, p, "move")

(* slip: the free function forwards to the member, as that of              *)
(* union_optional.hpp does, where the member swaps by itself.              *)
FreeSwapByMember(o, p) == <<InvokeSwap(o, p)>>

(* slip: the trait is not consulted.                                       *)
FreeSwapByMoves(o, p) == SwapByMove(o, p)

FreeSwap(o, p) == IF useDefaultCtor THEN SwapByDefault(o, p)
                                    ELSE SwapByMove(o, p)

(* swap(x, y) *)
CallFreeSwap(o, p) ==
    /\ Alive(p)
    /\ BeginOn("swap", o, p, "move", <<InvokeSwap(o, p)>>)
    /\ sealed' = FALSE /\ UNCHANGED traits

(* x.swap(y): noexcept if T's move operations are, whatever T's swap is.   *)
CallMemberSwap(o, p) ==
    /\ Alive(p)
    /\ BeginOn("swap", o, p, "move", <<InvokeSwap(o, p)>>)
    /\ sealed' = nothrowMove /\ UNCHANGED traits

RunInvokeSwap ==
    /\ Running({"invoke_swap"})
    /\ todo' = FreeSwap(Head(todo).at, Head(todo).from) \o Tail(todo)
    /\ UNCHANGED <<life, init, slot, busy, call, outcome, before, sealed,
                   traits>>

(* What a statement of a swap call asks of T. *)
Asks(s) == CASE s.do = "swap" -> "swap"
             [] s.do # "swap" /\ s.from = Arg -> "default"
             [] OTHER -> "move"

MayThrow == call.op = "swap" => Asks(Head(todo)) \in throwing

(* An exception leaves a noexcept function: the program is over. *)
Terminate ==
    /\ Running({"construct", "assign", "swap"})
    /\ outcome = "pending" /\ MayThrow /\ sealed
    /\ outcome' = "terminated"
    /\ UNCHANGED <<life, init, slot, todo, busy, call, before, sealed,
                   traits>>

ThrowOut == /\ ~sealed
            /\ todo # <<>> /\ MayThrow
            /\ Throw
            /\ UNCHANGED <<sealed, traits>>

(* The calls of OptionalBase, but for its swap: here one goes through the  *)
(* dispatch.                                                               *)
OtherCall ==
    /\ Construction \/ Modification \/ Observation
    /\ call'.op # "swap"
    /\ sealed' = FALSE /\ UNCHANGED traits

Swapping == \E o, p \in Opts : CallFreeSwap(o, p) \/ CallMemberSwap(o, p)

(* The steps of a call in progress. *)
SwapSteps == \/ (RunT \/ RunFlag \/ Return) /\ UNCHANGED <<sealed, traits>>
             \/ RunInvokeSwap \/ ThrowOut \/ Terminate

SwapNext == /\ outcome # "terminated"
            /\ OtherCall \/ Swapping \/ SwapSteps

SwapInit ==
    /\ InitObjects
    /\ useDefaultCtor \in BOOLEAN
    /\ throwing \in SUBSET {"default", "move", "swap"}
    /\ nothrowMove \in BOOLEAN
    /\ nothrowMove => "move" \notin throwing
    /\ sealed = FALSE

SwapSpec == SwapInit /\ [][SwapNext]_svars

(* A program that has made a call goes on with it. *)
FairSwapSpec ==
    SwapSpec /\ WF_svars(outcome # "terminated" /\ SwapSteps)
------------------------------------------------------------------------------
SwapEnded(how) == ~busy /\ outcome = how /\ call.op = "swap"

(* When swap returns, the optionals have exchanged what they held, whether *)
(* a value or none, by either implementation and also with themselves.     *)
(* Code: swap_selector, and its use of operations that change the flags.   *)
SwapExchanges ==
    SwapEnded("returned") =>
        Seen = [before EXCEPT ![call.o] = before[call.from],
                              ![call.from] = before[call.o]]

(* Swap throws only what the operations of T throw that it is documented   *)
(* to use: T's swap for two values, T's move constructor for one, or T's   *)
(* default constructor and swap by the implementation for old compilers.   *)
(* Code: swap_selector (doc/19_exception_safety.qbk, "Swap").              *)
SwapThrowsOnlyWhatItUses ==
    SwapEnded("threw") =>
        LET n == {p \in {call.o, call.from} : before[p] # None}
        IN  throwing \cap (CASE n = {call.o, call.from} -> {"swap"}
                             [] n # {call.o, call.from} /\ useDefaultCtor ->
                                   {"default", "swap"}
                             [] OTHER -> {"move"}) # {}

(* No value is lost when swap throws, if T's own operations lose none:     *)
(* every optional that held a value holds it still.  An optional that held *)
(* none may be left with a default T, when T's swap throws after emplace() *)
(* and only by the implementation for old compilers.  Code: the order of   *)
(* the steps in swap_selector<true> and swap_selector<false>.              *)
ThrowingSwapLosesNothing ==
    (SwapEnded("threw") /\ Strong) =>
        \A o \in Opts : \/ Seen[o] = before[o]
                        \/ /\ useDefaultCtor /\ "swap" \in throwing
                           /\ o \in {call.o, call.from}
                           /\ before[o] = None /\ Seen[o] = Unspec

(* If the operations of T give the strong guarantee, so does every call of *)
(* the fallback, its swaps included, but for those swaps that emplace a    *)
(* default T first, and for what StrongGuaranteeLifts exempts.  Code: all  *)
(* of optional.hpp's modifiers, with the dispatch of swap.                 *)
StrongButForOldSwap ==
    (call.op = "swap" /\ useDefaultCtor) \/ StrongGuaranteeLifts

(* Every call comes to its end, or to the end of the program: the member   *)
(* swap and the free swap do not call each other for ever.  Code: the      *)
(* member swap, the free swap and what swap_selector calls.                *)
SwapEnds == busy ~> (~busy \/ outcome = "terminated")

------------------------------------------------------------------------------
(* doc/19_exception_safety.qbk says that swap on optional offers the       *)
(* strong guarantee if T's swap and move constructor do, and               *)
(* doc/28_ref_optional_semantics.qbk that it throws whatever T's swap      *)
(* throws.  The member swap is noexcept when T's move operations are, and  *)
(* calls T's swap, which need not be.                                      *)
SwapThrowsWhatTThrows == outcome # "terminated"
==============================================================================
