-------------------------------- MODULE SwapInv --------------------------------
(***************************************************************************)
(* The inductive invariant of OptionalSwap.  A swap in progress stands at  *)
(* one of the points below; each says what the two optionals hold there,   *)
(* in terms of what they held when swap was called.  All other calls have  *)
(* the invariant of ProgramInv.                                            *)
(***************************************************************************)
EXTENDS OptionalSwap, ProgramInv

AsBefore(p) == /\ Shown(p) = before[p]
               /\ p # Arg => Calm(p)
OthersAsBefore(P) == \A p \in (Opts \cup {Arg}) \ P : AsBefore(p)

Holds(p, x) == Alive(p) /\ init[p] /\ slot[p] = x
HoldsSome(p) == Alive(p) /\ init[p] /\ slot[p] \in Objects
HoldsNone(p) == Alive(p) /\ Empty(p)
Unflagged(p, x) == Alive(p) /\ ~init[p] /\ slot[p] = x

(* g had a value when swap was called, t had none.                         *)
OneValue(t, g) == /\ {t, g} = {call.o, call.from}
                  /\ before[t] = None /\ before[g] \in Objects
TwoValues == {before[call.o], before[call.from]} \subseteq Objects

------------------------------------------------------------------------------
(* While swap may still return.                                            *)

Starting ==
    /\ todo \in {<<InvokeSwap(call.o, call.from)>>,
                 FreeSwap(call.o, call.from)}
    /\ OthersAsBefore({})

Exchanged ==
    /\ todo = <<>> /\ TwoValues
    /\ Holds(call.o, before[call.from]) /\ Holds(call.from, before[call.o])

(* swap_selector<true>, up to T's swap.                                    *)
AtDefaultEngage(t, g) ==
    /\ todo = <<Engage(t), SwapT(call.o, call.from), Destroy(g), Disengage(g)>>
    /\ Unflagged(t, Unspec) /\ Holds(g, before[g])

AtDefaultSwap(t, g) ==
    /\ todo = <<SwapT(call.o, call.from), Destroy(g), Disengage(g)>>
    /\ Holds(t, Unspec) /\ Holds(g, before[g])

(* swap_selector<false>, up to the flag; and what both do at the end.      *)
AtMoveEngage(t, g) ==
    /\ todo = <<Engage(t), Destroy(g), Disengage(g)>>
    /\ Unflagged(t, before[g]) /\ HoldsSome(g)

AtGiverDestroy(t, g) ==
    /\ todo = <<Destroy(g), Disengage(g)>>
    /\ Holds(t, before[g]) /\ HoldsSome(g)

AtGiverDisengage(t, g) ==
    /\ todo = <<Disengage(g)>>
    /\ Holds(t, before[g]) /\ Holds(g, Raw)

HandedOver(t, g) ==
    /\ todo = <<>>
    /\ Holds(t, before[g]) /\ HoldsNone(g)

Handing(t, g) ==
    \/ useDefaultCtor /\ (AtDefaultEngage(t, g) \/ AtDefaultSwap(t, g))
    \/ ~useDefaultCtor /\ AtMoveEngage(t, g)
    \/ AtGiverDestroy(t, g) \/ AtGiverDisengage(t, g) \/ HandedOver(t, g)

------------------------------------------------------------------------------
(* When an operation of T has thrown.                                      *)

Kept(p) == HoldsSome(p) /\ (Strong => slot[p] = before[p])

SwapFailed ==
    /\ todo = <<>>
    /\ \/ TwoValues /\ Kept(call.o) /\ Kept(call.from) /\ "swap" \in throwing
       \/ \E t, g \in Opts :
            /\ OneValue(t, g) /\ Kept(g)
            /\ \/ /\ HoldsNone(t)
                  /\ (IF useDefaultCtor THEN "default" ELSE "move") \in throwing
               \/ /\ HoldsSome(t) /\ (Strong => slot[t] = Unspec)
                  /\ useDefaultCtor /\ "swap" \in throwing

------------------------------------------------------------------------------
SwapTypeOK ==
    /\ life \in [Opts -> Lives] /\ init \in [Opts -> BOOLEAN]
    /\ slot \in [Places -> Objects \cup {Raw}] /\ slot[Arg] # Raw
    /\ call \in [op : {"swap"}, o : Opts, from : Opts, how : {"move"}]
    /\ before \in [Opts \cup {Arg} -> Objects \cup {None, Absent}]

Swaps ==
    /\ busy = TRUE /\ SwapTypeOK
    /\ Alive(call.o) /\ Alive(call.from) /\ before[Arg] = Unspec
    /\ OthersAsBefore({call.o, call.from})
    /\ \/ /\ outcome = "pending"
          /\ \/ Starting \/ Exchanged
             \/ \E t, g \in Opts : OneValue(t, g) /\ Handing(t, g)
       \/ outcome = "threw" /\ SwapFailed

(* Swap is over; what it has done to the flags is in order, as after any   *)
(* other call, and what it has done to the values is what it promises.     *)
Swapped == /\ busy = FALSE /\ StageInv
           /\ SwapExchanges /\ SwapThrowsOnlyWhatItUses
           /\ ThrowingSwapLosesNothing /\ StrongButForOldSwap

(* The inductive invariant.  Code: every step of both implementations, and *)
(* of all the other calls of optional.hpp between them.                    *)
SwapInv ==
    \/ outcome = "terminated"
    \/ call.op # "swap" /\ IInv
    \/ call.op = "swap" /\ (Swaps \/ Swapped)
==============================================================================
