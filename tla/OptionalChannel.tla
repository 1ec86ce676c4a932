--------------------------- MODULE OptionalChannel ---------------------------
(***************************************************************************)
(* What a program that streams optionals out and back in relies on: the    *)
(* stream is a channel that delivers optionals, those without a value too, *)
(* in the order in which they were written.                                *)
(***************************************************************************)
EXTENDS Sequences

CONSTANTS Opts, Values, None

VARIABLES
    val,   \* what each optional variable of the program holds
    items  \* the optionals written and not yet read

Holds == Values \cup {None}

Init ==
    /\ val = [o \in Opts |-> None]
    /\ items = <<>>

Assign(o) ==
    /\ \E x \in Holds : val' = [val EXCEPT ![o] = x]
    /\ UNCHANGED items

Send(x) ==
    /\ items' = Append(items, x)
    /\ UNCHANGED val

Receive(o) ==
    /\ items # <<>>
    /\ val' = [val EXCEPT ![o] = Head(items)]
    /\ items' = Tail(items)

Next == \/ \E o \in Opts : Assign(o) \/ Send(val[o]) \/ Receive(o)
        \/ Send(None)

Spec == Init /\ [][Next]_<<val, items>>
==============================================================================
