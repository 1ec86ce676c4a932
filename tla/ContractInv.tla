------------------------------ MODULE ContractInv ------------------------------
(***************************************************************************)
(* The invariant that relates a call in progress to the contract: what its *)
(* statements are for, what it has changed so far, and, once nothing in it *)
(* can throw any more, that it is going to return what it promised.        *)
(***************************************************************************)
EXTENDS ProgramInv

(* A statement that may throw does the work of the call: it hands on the   *)
(* value that the call was given, or that swap exchanges, directly or by a *)
(* temporary.                                                              *)
Given == before[call.from] \in Objects
Giver == Contract!Giver(call, before)

Transfers(st) ==
    /\ call.op \in Contract!Transfers /\ Given
    /\ \/ st = Construct(call.o, call.from, call.how)
       \/ /\ st = AssignT(call.o, call.from, call.how)
          /\ call.op \notin Rebuilders
       \/ /\ call.op \in Converting
          /\ st \in {Construct(Tmp, call.from, call.how),
                     Construct(call.o, Tmp, "move"),
                     AssignT(call.o, Tmp, "move")}

MakesResult(st) ==
    /\ call.op = "value_or" /\ before[Giver] \in Objects
    /\ st = Construct(Ret, Giver, call.how)

Exchanges(st) ==
    /\ call.op = "swap" /\ call.from \in Opts /\ call.how = "move"
    /\ \/ /\ st = SwapT(call.o, call.from)
          /\ before[call.o] \in Objects /\ Given
       \/ /\ st \in {Construct(call.o, call.from, "move"),
                     Construct(call.from, call.o, "move")}
          /\ before[st.from] \in Objects /\ before[st.at] = None

(* The others set flags and destroy values of the optionals called on.     *)
KeepsHouse(st) ==
    /\ st.do \notin Throwers
    /\ st.at = call.o \/ (call.op = "swap" /\ st.at = call.from)

Planned(st) ==
    Transfers(st) \/ MakesResult(st) \/ Exchanges(st) \/ KeepsHouse(st)

PlanInv ==
    busy => /\ outcome \in {"pending", "threw", "bad_access"}
            /\ call \in Contract!Calls
            /\ Contract!Allowed(call, before)
            /\ \A i \in DOMAIN todo : Planned(todo[i])

------------------------------------------------------------------------------
(* While an operation of T is still to come, all the optionals are as they *)
(* were, but the one that is being rebuilt, and the source of a conversion *)
(* whose temporary is there.                                               *)
Consumed == todo # <<>> /\ Head(todo).from = Tmp

WorkInv ==
    (busy /\ outcome = "pending" /\ MayYetThrow) =>
        /\ slot[Ret] = Raw
        /\ Consumed => slot[Tmp] = before[call.from]
        /\ \A p \in Opts \cup {Arg} :
             \/ Shown(p) = before[p]
             \/ Rebuilt(p)
             \/ /\ Consumed /\ p = call.from
                /\ Shown(p) \in Contract!Left(call, before, p)

(* What the caller will see once the statements left, none of which may    *)
(* throw, have run.                                                        *)
Remains(st) == \E i \in DOMAIN todo : todo[i] = st
WillBeSet(p) == Remains(Engage(p)) \/ (init[p] /\ ~Remains(Disengage(p)))

Coming(p) ==
    CASE p = Arg -> slot[p]
      [] p # Arg /\ life[p] \in {"absent", "dying"} -> Absent
      [] p # Arg /\ life[p] \notin {"absent", "dying"} /\ WillBeSet(p) -> slot[p]
      [] OTHER -> None

SettledInv ==
    (busy /\ outcome = "pending" /\ ~MayYetThrow) =>
        /\ Contract!Returns(call, before, [p \in Opts \cup {Arg} |-> Coming(p)])
        /\ slot[Ret] = Contract!Result(call, before)

(* A call that failed leaves what its exception guarantee allows.          *)
FailedInv ==
    /\ (busy /\ outcome = "threw") =>
         Contract!ThrowsT(call, before, [p \in Opts \cup {Arg} |-> Shown(p)])
    /\ (busy /\ outcome = "bad_access") =>
         /\ call.op = "value" /\ before[call.o] = None
         /\ \A p \in Opts \cup {Arg} : Shown(p) = before[p]

(* Code: every call of every implementation, against what the reference    *)
(* documentation says of it.                                               *)
ContractInv == PlanInv /\ WorkInv /\ SettledInv /\ FailedInv
==============================================================================
