------------------------------ MODULE ProgramInv ------------------------------
(***************************************************************************)
(* The inductive invariant of the object model, for every implementation   *)
(* whose calls leave one of the programs below in todo.  Flag and storage  *)
(* agree only between calls; within one they disagree in ways that depend  *)
(* on what the call has still to do.  So the invariant lists the programs  *)
(* that todo may hold, and for each of them the state that its first       *)
(* statement runs in.  The optionals a program does not name are calm.     *)
(***************************************************************************)
EXTENDS Guarantees

Empty(p) == ~init[p] /\ (Trivial \/ slot[p] = Raw)
Full(p) == init[p] /\ slot[p] # Raw

(* About to be disengaged: its T has been destroyed if it needs to be.     *)
Gutted(p) == \/ init[p] /\ slot[p] = Raw
             \/ Trivial /\ (Empty(p) \/ Full(p))

Calm(p) == \/ life[p] = "absent" /\ ~init[p] /\ slot[p] = Raw
           \/ life[p] = "alive" /\ (Empty(p) \/ Full(p))

CalmBut(P) == \A p \in Opts \ P : Calm(p)

InLifetime(p) == life[p] \in Building \cup {"alive"}
InReach(p) == life[p] \in {"alive", "dying"}

(* The source of a construction is live, or is the value just destroyed.   *)
Readable(p, s) ==
    IF s = p THEN /\ call.op \in Rebuilders
                  /\ call.o = p /\ call.from = p
             ELSE slot[s] # Raw

------------------------------------------------------------------------------
(* The programs.  swap constructs only to hand over.                       *)

AtEnd ==
    /\ todo = <<>>
    /\ CalmBut({call.o})
    /\ \/ Calm(call.o)
       \/ /\ busy /\ life[call.o] \in Building
          /\ outcome = "pending" => Empty(call.o) \/ Full(call.o)
          /\ outcome = "threw" => slot[call.o] = Raw
          /\ outcome \in {"pending", "threw"}
       \/ busy /\ life[call.o] = "dying" /\ (Trivial \/ slot[call.o] = Raw)

AtInit(p, s, how) ==
    /\ todo = <<Construct(p, s, how), Engage(p)>>
    /\ InLifetime(p) /\ Empty(p) /\ (life[p] \in Building => slot[p] = Raw)
    /\ Readable(p, s) /\ CalmBut({p}) /\ call.op # "swap"

AtEngage(p) ==
    /\ todo = <<Engage(p)>>
    /\ InLifetime(p) /\ ~init[p] /\ slot[p] # Raw /\ CalmBut({p})

AtReset(p) ==
    /\ todo = <<Destroy(p), Disengage(p)>>
    /\ InReach(p) /\ Full(p) /\ CalmBut({p})

AtDisengage(p) ==
    /\ todo = <<Disengage(p)>>
    /\ InReach(p) /\ Gutted(p) /\ CalmBut({p})

AtRebuild(p, s, how) ==
    /\ todo = <<Destroy(p), Disengage(p), Construct(p, s, how), Engage(p)>>
    /\ Alive(p) /\ Full(p) /\ Readable(p, s) /\ CalmBut({p})
    /\ call.op \in Rebuilders

AtRebuildGutted(p, s, how) ==
    /\ todo = <<Disengage(p), Construct(p, s, how), Engage(p)>>
    /\ Alive(p) /\ Gutted(p) /\ Readable(p, s) /\ CalmBut({p})
    /\ call.op \in Rebuilders

AtHandOver(p, q) ==
    /\ todo = <<Construct(p, q, "move"), Engage(p), Destroy(q), Disengage(q)>>
    /\ p # q /\ Alive(p) /\ Empty(p) /\ Alive(q) /\ Full(q)
    /\ CalmBut({p, q})

AtHandedOver(p, q) ==
    /\ todo = <<Engage(p), Destroy(q), Disengage(q)>>
    /\ p # q /\ Alive(p) /\ ~init[p] /\ slot[p] # Raw
    /\ Alive(q) /\ Full(q) /\ CalmBut({p, q})

AtTrivialHandOver(p, q) ==
    /\ todo = <<Construct(p, q, "move"), Engage(p), Disengage(q)>>
    /\ p # q /\ Alive(p) /\ Empty(p) /\ Alive(q) /\ Full(q) /\ Trivial
    /\ CalmBut({p, q})

AtTrivialHandedOver(p, q) ==
    /\ todo = <<Engage(p), Disengage(q)>>
    /\ p # q /\ Alive(p) /\ ~init[p] /\ slot[p] # Raw
    /\ Alive(q) /\ Full(q) /\ Trivial /\ CalmBut({p, q})

AtAssign(p, s, how) ==
    /\ todo = <<AssignT(p, s, how)>>
    /\ Alive(p) /\ Full(p) /\ slot[s] # Raw /\ CalmBut({p})

AtConvertAssign(p, s, how) ==
    /\ todo = <<Construct(Tmp, s, how), AssignT(p, Tmp, "move")>>
    /\ Alive(p) /\ Full(p) /\ slot[s] # Raw /\ slot[Tmp] = Raw
    /\ CalmBut({p}) /\ call.op \in Converting /\ call.how = how

AtConvertInit(p, s, how) ==
    /\ todo = <<Construct(Tmp, s, how), Construct(p, Tmp, "move"), Engage(p)>>
    /\ InLifetime(p) /\ Empty(p) /\ (life[p] \in Building => slot[p] = Raw)
    /\ slot[s] # Raw /\ slot[Tmp] = Raw /\ CalmBut({p})
    /\ call.op \in Converting /\ call.how = how

AtSwap(p, q) ==
    /\ todo = <<SwapT(p, q)>>
    /\ Alive(p) /\ Full(p) /\ Alive(q) /\ Full(q) /\ CalmBut({p, q})

AtResult(s, how) ==
    /\ todo = <<Construct(Ret, s, how)>>
    /\ slot[s] # Raw /\ slot[Ret] = Raw /\ CalmBut({})

AtDirect(p, s, how) ==
    /\ todo = <<Engage(p), Construct(p, s, how)>>
    /\ life[p] = "storage" /\ call.o = p
    /\ slot[p] = Raw /\ s \notin {p, Tmp} /\ slot[s] # Raw /\ CalmBut({p})

AtDirectConstruct(p, s, how) ==
    /\ todo = <<Construct(p, s, how)>>
    /\ life[p] = "storage" /\ call.o = p
    /\ init[p] /\ slot[p] = Raw /\ s \notin {p, Tmp} /\ slot[s] # Raw
    /\ CalmBut({p})

AtDtor(p) ==
    /\ todo = <<Destroy(p)>>
    /\ life[p] = "dying" /\ call.o = p /\ Full(p) /\ CalmBut({p})

------------------------------------------------------------------------------
Stage(p, q, s, how) ==
    \/ AtInit(p, s, how) \/ AtEngage(p)
    \/ AtReset(p) \/ AtDisengage(p)
    \/ AtRebuild(p, s, how) \/ AtRebuildGutted(p, s, how)
    \/ AtHandOver(p, q) \/ AtHandedOver(p, q)
    \/ AtTrivialHandOver(p, q) \/ AtTrivialHandedOver(p, q)
    \/ AtConvertAssign(p, s, how) \/ AtConvertInit(p, s, how)
    \/ AtAssign(p, s, how) \/ AtSwap(p, q) \/ AtResult(s, how)
    \/ AtDirect(p, s, how) \/ AtDirectConstruct(p, s, how)
    \/ AtDtor(p)

InProgress ==
    /\ busy /\ outcome = "pending"
    /\ \E p \in Opts, q \in Opts, s \in Opts \cup {Arg, Tmp}, how \in Hows :
         Stage(p, q, s, how)

(* Only the optional that the call is made on is being built or destroyed. *)
OneAtATime == \A p \in Opts : life[p] \in Building \cup {"dying"}
                                 => busy /\ p = call.o

(* The call in progress stands at one of the programs, in the state that   *)
(* program needs, or at its end.                                           *)
StageInv == TypeOK /\ OneAtATime /\ (AtEnd \/ InProgress)

------------------------------------------------------------------------------
(* What a call owes its caller.  While an operation of T may still throw,  *)
(* the call has changed nothing that it would have to take back.           *)

Throwers == {"construct", "assign", "swap"}
MayYetThrow == \E i \in DOMAIN todo : todo[i].do \in Throwers
Failed == outcome \in {"threw", "bad_access"}

(* Whether p would be seen as engaged as when the call was made.           *)
KeepsEngagement(p) ==
    /\ life[p] # "dying"
    /\ before[p] = Absent <=> life[p] \in Building \cup {"absent"}
    /\ before[p] \in Objects <=> Engaged(p)

Rebuilt(p) == call.op \in Rebuilders /\ p = call.o

EngagementInv ==
    /\ (busy /\ MayYetThrow) =>
         \A p \in Opts : Rebuilt(p) \/ KeepsEngagement(p)
    /\ (busy /\ Failed) =>
         \A p \in Opts : IF Rebuilt(p) THEN Alive(p) /\ ~init[p]
                                       ELSE KeepsEngagement(p)

(* A call that rebuilds an optional works on no other.                     *)
RebuildInv ==
    (busy /\ outcome = "pending" /\ call.op \in Rebuilders) =>
        /\ Alive(call.o)
        /\ \A i \in DOMAIN todo : /\ todo[i].at = call.o
                                  /\ todo[i].do \notin {"assign", "swap"}

(* What the caller would see in p, were the call to fail here.             *)
Shown(p) ==
    CASE p = Arg -> slot[p]
      [] p # Arg /\ life[p] \in Building \cup {"absent"} -> Absent
      [] p # Arg /\ Engaged(p) -> slot[p]
      [] OTHER -> None

(* The calls that have to be strong if T is. *)
Gentle == /\ Strong /\ call.op \notin Rebuilders
          /\ call.how = "move" => call.op \notin Converting

ValuesInv ==
    (busy /\ Gentle /\ (MayYetThrow \/ Failed)) =>
        \A p \in Opts \cup {Arg} : Shown(p) = before[p]

(* The call destroys only what it is to end.                               *)
EndingInv ==
    /\ busy => \A i \in DOMAIN todo :
                  todo[i].do = "destroy" => EndsValue(todo[i].at)
    /\ \A p \in Opts : life[p] = "dying" => call.op = "dtor"

PromiseInv == /\ EngagementInv /\ RebuildInv /\ ValuesInv /\ EndingInv
              /\ EngagementSurvivesThrow /\ StrongGuaranteeLifts

(* The inductive invariant.  Code: every call of every implementation,     *)
(* statement by statement.                                                 *)
IInv == StageInv /\ PromiseInv
==============================================================================
