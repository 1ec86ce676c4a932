--------------------------- MODULE ContractInv_proofs ---------------------------
(***************************************************************************)
(* The calls of every implementation keep the contract of optional: the    *)
(* statements of a call do what it promised, step by step, and so do the   *)
(* calls that start with one of the programs.                              *)
(***************************************************************************)
EXTENDS ContractInv, ProgramInv_proofs

(* What a program of up to four statements holds, of those one asks for.   *)
LEMMA RemainsIn ==
    ASSUME NEW a, NEW b, NEW c, NEW d, NEW st
    PROVE  /\ todo = <<>> => ~Remains(st)
           /\ todo = <<a>> => (Remains(st) <=> st = a)
           /\ todo = <<a, b>> => (Remains(st) <=> st \in {a, b})
           /\ todo = <<a, b, c>> => (Remains(st) <=> st \in {a, b, c})
           /\ todo = <<a, b, c, d>> => (Remains(st) <=> st \in {a, b, c, d})
  BY DEF Remains

(* The same of the statements that are left after a step.                  *)
LEMMA RemainsAfter ==
    ASSUME NEW a, NEW b, NEW c, NEW d, NEW st
    PROVE  /\ todo' = <<>> => ~Remains(st)'
           /\ todo' = <<a>> => (Remains(st)' <=> st = a)
           /\ todo' = <<a, b>> => (Remains(st)' <=> st \in {a, b})
           /\ todo' = <<a, b, c>> => (Remains(st)' <=> st \in {a, b, c})
           /\ todo' = <<a, b, c, d>> => (Remains(st)' <=> st \in {a, b, c, d})
  BY DEF Remains

(* Flags are set and cleared by different statements for each optional.    *)
LEMMA FlagStmtsDiffer ==
    ASSUME NEW p, NEW q
    PROVE  /\ Engage(p) = Engage(q) <=> p = q
           /\ Disengage(p) = Disengage(q) <=> p = q
           /\ Engage(p) # Disengage(q)
           /\ Engage(p) # Destroy(q) /\ Disengage(p) # Destroy(q)
  BY DEF Engage, Disengage, Destroy, Stmt

(* What a statement that may throw works on.                               *)
LEMMA StmtReads ==
    ASSUME NEW p, NEW s, NEW how
    PROVE  /\ Construct(p, s, how).at = p /\ Construct(p, s, how).from = s
           /\ Construct(p, s, how).how = how
           /\ Construct(p, s, how).do = "construct"
           /\ AssignT(p, s, how).at = p /\ AssignT(p, s, how).from = s
           /\ AssignT(p, s, how).how = how
           /\ AssignT(p, s, how).do = "assign"
           /\ SwapT(p, s).at = p /\ SwapT(p, s).from = s
           /\ SwapT(p, s).do = "swap" /\ SwapT(p, s).how = "copy"
           /\ Destroy(p).from = p /\ Engage(p).from = p
           /\ Disengage(p).from = p
  BY DEF Construct, AssignT, SwapT, Destroy, Engage, Disengage, Stmt

(* What a planned statement is for depends on the call alone.              *)
LEMMA PlanStays ==
    ASSUME call' = call, before' = before
    PROVE  /\ \A st : Planned(st)' <=> Planned(st)
           /\ Given' <=> Given
  BY DEF Planned, Transfers, MakesResult, Exchanges, KeepsHouse, Given,
         Giver, Contract!Giver

(* The plan of a call holds of what is left of it.                         *)
LEMMA PlanKept ==
    ASSUME TypeOK, PlanInv, todo' = <<>> \/ (todo # <<>> /\ todo' = Tail(todo)),
           outcome' \in {outcome, "threw"}, busy' => busy,
           UNCHANGED <<call, before>>
    PROVE  PlanInv'
<1> SUFFICES ASSUME busy' PROVE PlanInv'
  BY DEF PlanInv
<1>1. /\ busy /\ call' = call /\ before' = before
      /\ outcome' \in {"pending", "threw", "bad_access"}
      /\ call \in Contract!Calls /\ Contract!Allowed(call, before)
      /\ \A i \in DOMAIN todo : Planned(todo[i])
  BY DEF PlanInv
<1>2. ASSUME NEW i \in DOMAIN todo' PROVE Planned(todo'[i])
  BY <1>1, <1>2, TodoParts
<1>3. ASSUME NEW i \in DOMAIN todo' PROVE Planned(todo[i])'
  <2>1. \A st : Planned(st)' <=> Planned(st)
    BY <1>1, PlanStays
  <2> QED BY <1>2, <2>1
<1>4. (call \in Contract!Calls)' /\ Contract!Allowed(call, before)'
  BY <1>1 DEF Contract!Allowed, Contract!Calls, Contract!InLife
<1> QED BY <1>1, <1>3, <1>4 DEF PlanInv

------------------------------------------------------------------------------
(* While the call may yet throw.                                           *)

(* A planned statement that makes the temporary makes it from the value    *)
(* that the call was given.                                                *)
LEMMA TemporaryIsGiven ==
    ASSUME TypeOK, NEW s, NEW how, Planned(Construct(Tmp, s, how))
    PROVE  /\ s = call.from /\ how = call.how /\ Given
           /\ call.op \in Converting
<1> DEFINE st == Construct(Tmp, s, how)
<1>1. /\ st.do = "construct" /\ st.at = Tmp /\ st.from = s /\ st.how = how
      /\ call.o \in Opts
  BY StmtReads DEF TypeOK
<1> HIDE DEF st
<1>2. ~KeepsHouse(st) /\ ~Exchanges(st) /\ ~MakesResult(st)
  BY <1>1, PlacesDiffer, StmtReads
     DEF KeepsHouse, Exchanges, MakesResult, Throwers
<1>3. Transfers(st)
  BY <1>2 DEF Planned, st
<1> QED BY <1>1, <1>3, PlacesDiffer, StmtReads DEF Transfers

(* An optional that shows a T is engaged with it.                          *)
LEMMA ShownObject ==
    ASSUME NEW p \in Opts \cup {Arg}, Shown(p) \in Objects
    PROVE  Shown(p) = slot[p] /\ (p # Arg => Engaged(p))
  BY ObjectModelAssumption DEF Shown, Objects

(* An operation of T after which another may throw leaves what a caller    *)
(* would see, but for the source of a conversion and what is rebuilt.      *)
LEMMA RunTKeepsWork == IInv /\ ContractInv /\ RunT => WorkInv'
<1> SUFFICES ASSUME IInv, ContractInv, RunT, MayYetThrow' PROVE WorkInv'
  BY DEF WorkInv
<1>1. /\ TypeOK /\ StageInv /\ todo # <<>> /\ busy /\ outcome = "pending"
      /\ slot' \in Succeeds(Head(todo)) /\ todo' = Tail(todo)
      /\ UNCHANGED <<life, init, busy, call, outcome, before>>
  BY WhileRunning DEF RunT, Running, IInv, StageInv
<1>t. todo' = Tail(todo)
  BY <1>1
<1>2. MayYetThrow
  BY <1>1, TailThrows
<1>3. /\ slot[Ret] = Raw
      /\ Consumed => slot[Tmp] = before[call.from]
      /\ \A r \in Opts \cup {Arg} :
            \/ Shown(r) = before[r] \/ Rebuilt(r)
            \/ /\ Consumed /\ r = call.from
               /\ Shown(r) \in Contract!Left(call, before, r)
      /\ Planned(Head(todo))
  BY <1>1, <1>2, TodoParts DEF ContractInv, WorkInv, PlanInv
<1>4. PICK p \in Opts, s \in Opts \cup {Arg, Tmp}, how \in Hows :
        \/ AtConvertAssign(p, s, how) \/ AtConvertInit(p, s, how)
        \/ AtRebuild(p, s, how)
  BY <1>1, RunTThenThrows
<1>5. slot \in [Places -> Objects \cup {Raw}]
  BY <1>1 DEF TypeOK
<1>6. \A r : r \in Opts \cup {Arg} => r \in Places /\ r # Tmp /\ r # Ret
  BY PlacesDiffer
<1>7. ASSUME NEW r \in Opts \cup {Arg}
      PROVE  Shown(r)' = IF r = Arg \/ Engaged(r) THEN slot'[r] ELSE Shown(r)
  BY <1>1, ObjectModelAssumption DEF Shown, Engaged, Alive, Building
<1>a. CASE AtConvertAssign(p, s, how) \/ AtConvertInit(p, s, how)
  <2>1. /\ Head(todo) = Construct(Tmp, s, how) /\ slot[s] # Raw
        /\ slot[Tmp] = Raw /\ Consumed'
        /\ call.op \in Converting /\ call.op \notin Rebuilders
    <3>1. CASE AtConvertAssign(p, s, how)
      <4>1. /\ Head(todo) = Construct(Tmp, s, how)
            /\ todo' = <<AssignT(p, Tmp, "move")>>
        BY <1>t, <3>1, HeadsAndTails DEF AtConvertAssign
      <4> QED BY <3>1, <4>1, HeadsAndTails, StmtReads
              DEF AtConvertAssign, Consumed, Converting, Rebuilders
    <3>2. CASE AtConvertInit(p, s, how)
      <4>1. /\ Head(todo) = Construct(Tmp, s, how)
            /\ todo' = <<Construct(p, Tmp, "move"), Engage(p)>>
        BY <1>t, <3>2, HeadsAndTails DEF AtConvertInit
      <4> QED BY <3>2, <4>1, HeadsAndTails, StmtReads
              DEF AtConvertInit, Consumed, Converting, Rebuilders
    <3> QED BY <1>a, <3>1, <3>2
  <2>2. s = call.from /\ how = call.how /\ before[s] \in Objects
    BY <1>1, <1>3, <2>1, TemporaryIsGiven DEF Given
  <2>3. s \in Opts \cup {Arg} /\ s # Tmp /\ ~Consumed
    BY <1>6, <2>1, StmtReads DEF Consumed
  <2>4. \A r \in Opts \cup {Arg} : Shown(r) = before[r]
    BY <1>3, <2>1, <2>3 DEF Rebuilt
  <2>5. slot[s] = before[s] /\ (s # Arg => Engaged(s))
    BY <2>2, <2>3, <2>4, ShownObject
  <2> DEFINE st == Construct(Tmp, s, how)
  <2>6. ~ReadsDead(st)
    BY <2>1, <2>3, StmtReads DEF ReadsDead
  <2>7. PICK x \in IF how = "move" THEN {slot[s], Unspec} ELSE {slot[s]} :
          slot' = [slot EXCEPT ![Tmp] = slot[s], ![s] = x]
    <3>1. slot' \in Transferred(st)
      BY <1>1, <2>1, <2>6, StmtReads DEF Succeeds
    <3> QED BY <3>1, StmtReads DEF Transferred, Leftover
  <2>8. /\ slot'[Tmp] = before[s] /\ slot'[s] = x /\ slot'[Ret] = Raw
        /\ \A r \in Opts \cup {Arg} : r # s => slot'[r] = slot[r]
    BY <1>3, <1>5, <1>6, <2>3, <2>5, <2>7, PlacesDiffer
  <2>9. x \in Contract!Left(call, before, s)
    BY <2>2, <2>5, <2>7 DEF Contract!Left, Contract!Objects, Objects
  <2>10. ASSUME NEW r \in Opts \cup {Arg}
         PROVE  \/ Shown(r)' = before'[r]
                \/ r = call.from /\ Shown(r)' \in Contract!Left(call', before', r)
    <3>1. CASE r = s
      BY <1>1, <1>7, <2>2, <2>5, <2>8, <2>9, <3>1
    <3>2. CASE r # s
      <4>1. Shown(r)' = Shown(r)
        BY <1>7, <2>8, <3>2 DEF Shown
      <4> QED BY <1>1, <2>4, <4>1
    <3> QED BY <3>1, <3>2
  <2> QED BY <1>1, <2>1, <2>2, <2>8, <2>10 DEF WorkInv, Contract!Left
<1>b. CASE AtRebuild(p, s, how)
  <2>1. /\ Head(todo) = Destroy(p) /\ call.op \in Rebuilders
        /\ Head(Tail(todo)) = Disengage(p)
    BY <1>b, HeadsAndTails DEF AtRebuild
  <2>2. p = call.o
    <3>1. ~Transfers(Destroy(p)) /\ ~MakesResult(Destroy(p))
      BY StmtFields, StmtReads DEF Transfers, MakesResult
    <3>2. call.op # "swap"
      BY <2>1 DEF Rebuilders
    <3> QED BY <1>3, <2>1, <3>1, <3>2, StmtFields
            DEF Planned, Exchanges, KeepsHouse
  <2>3. ~Consumed /\ ~Consumed'
    BY <1>1, <1>6, <2>1, StmtReads DEF Consumed
  <2>4. slot' = [slot EXCEPT ![p] = Raw]
    BY <1>1, <2>1 DEF Succeeds, Destroy, Stmt
  <2>5. \A r \in Places : r # p => slot'[r] = slot[r]
    BY <1>5, <2>4
  <2>6. ASSUME NEW r \in Opts \cup {Arg}, r # p
        PROVE  Shown(r)' = before'[r]
    <3>1. Shown(r)' = Shown(r)
      BY <1>6, <1>7, <2>5, <2>6 DEF Shown
    <3> QED BY <1>1, <1>3, <2>2, <2>3, <2>6, <3>1 DEF Rebuilt
  <2>7. Rebuilt(p)'
    BY <1>1, <2>1, <2>2 DEF Rebuilt
  <2> QED BY <1>3, <2>3, <2>5, <2>6, <2>7, PlacesDiffer DEF WorkInv
<1> QED BY <1>4, <1>a, <1>b

(* Nor does a flag that is set or cleared before one.                      *)
LEMMA RunFlagKeepsWork == IInv /\ ContractInv /\ RunFlag => WorkInv'
<1> SUFFICES ASSUME IInv, ContractInv, RunFlag, MayYetThrow' PROVE WorkInv'
  BY DEF WorkInv
<1>1. /\ TypeOK /\ StageInv /\ todo # <<>> /\ busy /\ outcome = "pending"
      /\ UNCHANGED <<life, slot, busy, call, outcome, before>>
  BY WhileRunning DEF RunFlag, Running, IInv, StageInv
<1>t. todo' = Tail(todo)
  BY DEF RunFlag
<1>2. MayYetThrow
  BY <1>1, <1>t, TailThrows
<1>3. PICK p \in Opts, s \in Opts \cup {Arg, Tmp}, how \in Hows :
        AtRebuildGutted(p, s, how) \/ AtDirect(p, s, how)
  BY <1>1, RunFlagThenThrows
<1>4. ~Consumed /\ ~Consumed'
  <2>1. CASE AtRebuildGutted(p, s, how)
    <3>1. /\ Head(todo) = Disengage(p)
          /\ todo' = <<Construct(p, s, how), Engage(p)>>
      BY <1>t, <2>1, HeadsAndTails DEF AtRebuildGutted
    <3>2. Construct(p, s, how) = todo[2] /\ 2 \in DOMAIN todo
      BY <2>1 DEF AtRebuildGutted
    <3>3. Planned(Construct(p, s, how)) /\ call.op \in Rebuilders
      BY <1>1, <2>1, <3>2 DEF AtRebuildGutted, ContractInv, PlanInv
    <3>4. Transfers(Construct(p, s, how))
      BY <3>3, StmtReads
         DEF Planned, MakesResult, Exchanges, KeepsHouse, Throwers, Rebuilders
    <3>5. s = call.from
      BY <3>3, <3>4, StmtReads DEF Transfers, Rebuilders, Converting
    <3> QED BY <1>1, <3>1, <3>5, HeadsAndTails, StmtReads, PlacesDiffer
            DEF Consumed, TypeOK
  <2>2. CASE AtDirect(p, s, how)
    <3>1. Head(todo) = Engage(p) /\ todo' = <<Construct(p, s, how)>> /\ s # Tmp
      BY <1>t, <2>2, HeadsAndTails DEF AtDirect
    <3> QED BY <3>1, HeadsAndTails, StmtReads, PlacesDiffer DEF Consumed
  <2> QED BY <1>3, <2>1, <2>2
<1>5. \A r \in Opts : Rebuilt(r) \/ (Engaged(r)' <=> Engaged(r))
  BY RunFlagHides
<1>6. /\ slot[Ret] = Raw
      /\ \A r \in Opts \cup {Arg} : Shown(r) = before[r] \/ Rebuilt(r)
  BY <1>1, <1>2, <1>4 DEF ContractInv, WorkInv
<1>7. ASSUME NEW r \in Opts \cup {Arg}
      PROVE  Shown(r)' = before'[r] \/ Rebuilt(r)'
  <2>1. Rebuilt(r)' <=> Rebuilt(r)
    BY <1>1 DEF Rebuilt
  <2>2. Rebuilt(r) \/ Shown(r)' = Shown(r)
    BY <1>1, <1>5 DEF Shown
  <2> QED BY <1>1, <1>6, <2>1, <2>2
<1> QED BY <1>1, <1>4, <1>6, <1>7 DEF WorkInv

------------------------------------------------------------------------------
(* When nothing may throw any more.                                        *)

(* The last operation of T that may throw is the one that runs.            *)
LEMMA LastThrower ==
    ASSUME TypeOK, todo # <<>>, todo' = Tail(todo), MayYetThrow, ~MayYetThrow'
    PROVE  Head(todo).do \in Throwers
<1>1. PICK i \in DOMAIN todo : todo[i].do \in Throwers
  BY DEF MayYetThrow
<1>2. CASE i = 1
  BY <1>1, <1>2, TodoParts
<1>3. CASE i # 1
  <2>1. todo \in Seq(Stmts)
    BY DEF TypeOK
  <2>2. i - 1 \in DOMAIN Tail(todo) /\ Tail(todo)[i - 1] = todo[i]
    BY <1>3, <2>1
  <2>3. MayYetThrow'
    BY <1>1, <2>2 DEF MayYetThrow
  <2> QED BY <2>3
<1> QED BY <1>2, <1>3

(* What the caller will see in an optional, from the flags it has and the  *)
(* flags that are still to be set.                                         *)
LEMMA ComingIs ==
    ASSUME UNCHANGED life, NEW r \in Opts \cup {Arg}
    PROVE  /\ r = Arg => Coming(r)' = slot'[r]
           /\ r \in Opts /\ life[r] \in Building \cup {"alive"}
                => /\ WillBeSet(r)' => Coming(r)' = slot'[r]
                   /\ ~WillBeSet(r)' => Coming(r)' = None
           /\ (/\ r \in Opts /\ life[r] \in {"absent", "alive"}
               /\ init'[r] = init[r] /\ slot'[r] = slot[r]
               /\ ~Remains(Engage(r))' /\ ~Remains(Disengage(r))')
                => Coming(r)' = Shown(r)
<1>1. life'[r] = life[r] /\ (r \in Opts => r # Arg)
  BY PlacesDiffer
<1>2. WillBeSet(r)' <=> \/ Remains(Engage(r))'
                        \/ init'[r] /\ ~Remains(Disengage(r))'
  BY DEF WillBeSet
<1>3. r = Arg => Coming(r)' = slot'[r]
  BY DEF Coming
<1>4. ASSUME r \in Opts, life[r] \in Building \cup {"alive"}
      PROVE  /\ WillBeSet(r)' => Coming(r)' = slot'[r]
             /\ ~WillBeSet(r)' => Coming(r)' = None
  BY <1>1, <1>4 DEF Coming, Building
<1>5. ASSUME r \in Opts, life[r] \in {"absent", "alive"},
             init'[r] = init[r], slot'[r] = slot[r],
             ~Remains(Engage(r))', ~Remains(Disengage(r))'
      PROVE  Coming(r)' = Shown(r)
  <2>1. r # Arg /\ (WillBeSet(r)' <=> init[r])
    BY <1>1, <1>2, <1>5
  <2>2. CASE life[r] = "absent"
    <3>1. Coming(r)' = Absent
      BY <1>1, <2>1, <2>2 DEF Coming
    <3>2. Shown(r) = Absent
      BY <2>1, <2>2 DEF Shown, Engaged, Alive, Building
    <3> QED BY <3>1, <3>2
  <2>3. CASE life[r] = "alive"
    <3>1. Coming(r)' = IF init[r] THEN slot[r] ELSE None
      BY <1>1, <1>5, <2>1, <2>3 DEF Coming
    <3>2. Shown(r) = IF init[r] THEN slot[r] ELSE None
      BY <2>1, <2>3 DEF Shown, Engaged, Alive, Building
    <3> QED BY <3>1, <3>2
  <2> QED BY <1>5, <2>2, <2>3
<1> QED BY <1>3, <1>4, <1>5

(* A call that hands on a value returns with that value in its optional,   *)
(* and in the source what the copy or the move left of it.                 *)
LEMMA TransferReturns ==
    ASSUME TypeOK, NEW w, w = [r \in Opts \cup {Arg} |-> w[r]],
           call.op \in Contract!Transfers,
           call.op \in Rebuilders => call.from # call.o,
           w[call.from] \in Contract!Left(call, before, call.from),
           call.from # call.o => w[call.o] = before[call.from],
           \A r \in (Opts \cup {Arg}) \ {call.o, call.from} : w[r] = before[r]
    PROVE  Contract!Returns(call, before, w)
<1>1. /\ before = [r \in Opts \cup {Arg} |-> before[r]]
      /\ call.o \in Opts \cup {Arg} /\ call.from \in Opts \cup {Arg}
  BY DEF TypeOK
<1>2. w = [before EXCEPT ![call.o] = before[call.from],
                         ![call.from] = w[call.from]]
  BY <1>1
<1> QED BY <1>2 DEF Contract!Returns

(* The T that a statement of a transfer makes or assigns to is the one in  *)
(* the optional called on, and its source the one the call was given.      *)
LEMMA TransferIs ==
    ASSUME TypeOK, NEW p \in Opts, NEW s, NEW how, NEW st,
           st \in {Construct(p, s, how), AssignT(p, s, how)}, Transfers(st)
    PROVE  /\ p = call.o /\ Given /\ call.op \in Contract!Transfers
           /\ st = AssignT(p, s, how) => call.op \notin Rebuilders
           /\ \/ s = call.from /\ how = call.how
              \/ s = Tmp /\ how = "move" /\ call.op \in Converting
<1>1. st.at = p /\ st.from = s /\ st.how = how /\ p # Tmp /\ p # Ret
  BY StmtReads, PlacesDiffer
<1>2. st.do = "assign" <=> st = AssignT(p, s, how)
  BY StmtReads
<1>3. st # Construct(Tmp, call.from, call.how)
  BY <1>1, StmtReads
<1>4. CASE st = Construct(call.o, call.from, call.how)
  BY <1>1, <1>2, <1>4, StmtReads DEF Transfers
<1>5. CASE st = AssignT(call.o, call.from, call.how) /\ call.op \notin Rebuilders
  BY <1>1, <1>5, StmtReads DEF Transfers
<1>6. CASE /\ call.op \in Converting
           /\ st \in {Construct(call.o, Tmp, "move"), AssignT(call.o, Tmp, "move")}
  <2>1. p = call.o /\ s = Tmp /\ how = "move" /\ call.op \notin Rebuilders
    BY <1>1, <1>6, StmtReads DEF Converting, Rebuilders
  <2> QED BY <1>6, <2>1 DEF Transfers
<1> QED BY <1>3, <1>4, <1>5, <1>6 DEF Transfers

(* The last operation of T of a call that hands on a value: when it        *)
(* returns, the call is about to return what it promised.                  *)
LEMMA TransferSettles ==
    ASSUME IInv, ContractInv, RunT, MayYetThrow,
           NEW p \in Opts, NEW s \in Opts \cup {Arg, Tmp}, NEW how \in Hows,
           Head(todo) \in {Construct(p, s, how), AssignT(p, s, how)},
           Transfers(Head(todo)),
           life[p] \in Building \cup {"alive"}, WillBeSet(p)', CalmBut({p}),
           \A r \in Opts \ {p} : /\ ~Remains(Engage(r))'
                                 /\ ~Remains(Disengage(r))',
           IF s = p THEN \/ call.op \in Rebuilders
                         \/ Head(todo) = AssignT(p, s, how) /\ slot[s] # Raw
                    ELSE slot[s] # Raw
    PROVE  SettledInv'
<1> DEFINE st == Head(todo)
           w == [r \in Opts \cup {Arg} |-> Coming(r)']
<1>1. /\ TypeOK /\ todo # <<>> /\ busy /\ outcome = "pending"
      /\ slot' \in Succeeds(st)
      /\ UNCHANGED <<life, init, busy, call, outcome, before>>
  BY WhileRunning DEF RunT, Running, IInv, StageInv
<1>2. /\ p = call.o /\ Given /\ call.op \in Contract!Transfers
      /\ st = AssignT(p, s, how) => call.op \notin Rebuilders
      /\ \/ s = call.from /\ how = call.how
         \/ s = Tmp /\ how = "move" /\ call.op \in Converting
  BY <1>1, TransferIs
<1>3. /\ st.at = p /\ st.from = s /\ st.how = how
      /\ st.do \in {"construct", "assign"}
      /\ st.do = "construct" <=> st = Construct(p, s, how)
  BY StmtReads
<1>4. /\ p # Tmp /\ p # Ret /\ p # Arg /\ call.from \in Opts \cup {Arg}
      /\ call.from # Tmp /\ call.from # Ret /\ s # Ret
      /\ \A r \in Opts \cup {Arg} : r \in Places /\ r # Tmp /\ r # Ret
  BY <1>1, PlacesDiffer DEF TypeOK
<1>5. slot \in [Places -> Objects \cup {Raw}]
  BY <1>1 DEF TypeOK
<1> HIDE DEF st
<1>6. /\ slot[Ret] = Raw
      /\ s = Tmp => slot[Tmp] = before[call.from]
      /\ \A r \in Opts \cup {Arg} :
           \/ Shown(r) = before[r] \/ Rebuilt(r)
           \/ /\ s = Tmp /\ r = call.from
              /\ Shown(r) \in Contract!Left(call, before, r)
  BY <1>1, <1>3 DEF ContractInv, WorkInv, Consumed, st
<1>7. Contract!Result(call, before) = Raw
  BY <1>2 DEF Contract!Result, Contract!Transfers, Contract!Converting
<1>8. ASSUME NEW r \in (Opts \cup {Arg}) \ {p}, slot'[r] = slot[r]
      PROVE  Coming(r)' = Shown(r)
  <2>1. r \in Opts => life[r] \in {"absent", "alive"}
    BY <1>8 DEF CalmBut, Calm
  <2> QED BY <1>1, <1>8, <2>1, ComingIs DEF Shown
<1>9. Coming(p)' = slot'[p]
  BY <1>1, ComingIs
<1>10. ASSUME NEW r \in (Opts \cup {Arg}) \ {p}, Shown(r) \in Objects
       PROVE  Coming(r)' = slot'[r]
  <2>1. r \in Opts => Engaged(r)
    BY <1>10, PlacesDiffer, ShownObject
  <2>2. r \in Opts => life[r] = "alive" /\ WillBeSet(r)'
    BY <1>1, <1>10, <2>1 DEF WillBeSet, Engaged, Alive
  <2> QED BY <1>1, <1>10, <2>2, ComingIs
<1>11. w = [r \in Opts \cup {Arg} |-> w[r]]
       /\ \A r \in Opts \cup {Arg} : w[r] = Coming(r)'
  OBVIOUS
<1> HIDE DEF w
<1>a. CASE s = p /\ call.op \in Rebuilders
  <2>1. st = Construct(p, s, how) /\ ReadsDead(st) /\ call.from = call.o
    BY <1>2, <1>3, <1>4, <1>a DEF ReadsDead, st
  <2>2. PICK x \in Objects : slot' = [slot EXCEPT ![p] = x]
    BY <1>1, <1>3, <2>1 DEF Succeeds
  <2>3. /\ slot'[p] = x /\ slot'[Ret] = Raw
        /\ \A r \in (Opts \cup {Arg}) \ {p} : slot'[r] = slot[r]
    BY <1>4, <1>5, <1>6, <2>2, PlacesDiffer
  <2>4. \A r \in (Opts \cup {Arg}) \ {p} : w[r] = before[r]
    BY <1>2, <1>4, <1>6, <1>8, <1>11, <1>a, <2>3 DEF Rebuilt
  <2>5. w[p] = x
    BY <1>9, <1>11, <2>3
  <2>6. w = [before EXCEPT ![call.o] = x]
    BY <1>1, <1>2, <1>11, <2>4, <2>5 DEF TypeOK
  <2>7. Contract!Returns(call, before, w)
    BY <1>a, <2>1, <2>6 DEF Contract!Returns, Contract!Objects, Objects
  <2> QED BY <1>1, <1>7, <2>3, <2>7 DEF SettledInv, w
<1>b. CASE ~(s = p /\ call.op \in Rebuilders)
  <2>1. slot[s] # Raw /\ ~(st.do = "construct" /\ s = p) /\ ~ReadsDead(st)
    BY <1>3, <1>b, StmtReads DEF ReadsDead, st
  <2>2. s = Tmp \/ (s = call.from /\ ~Rebuilt(s))
    BY <1>2, <1>b DEF Rebuilt
  <2>3. slot[s] = before[call.from]
    BY <1>2, <1>4, <1>6, <2>2, ShownObject DEF Given
  <2>4. PICK x \in IF how = "move" THEN {slot[s], Unspec} ELSE {slot[s]} :
          slot' = [slot EXCEPT ![p] = slot[s], ![s] = x]
    <3>1. slot' \in Transferred(st)
      BY <1>1, <1>3, <2>1 DEF Succeeds
    <3> QED BY <1>3, <3>1 DEF Transferred, Leftover
  <2>5. /\ slot'[s] = x /\ slot'[Ret] = Raw
        /\ s # p => slot'[p] = slot[s]
        /\ \A r \in (Opts \cup {Arg}) \ {p, s} : slot'[r] = slot[r]
    BY <1>4, <1>5, <1>6, <2>4, PlacesDiffer
  <2>6. call.op \in Rebuilders => call.from # call.o
    BY <1>2, <1>b DEF Converting, Rebuilders
  <2>7. call.from # call.o => w[call.o] = before[call.from]
    BY <1>2, <1>4, <1>9, <1>11, <2>3, <2>5
  <2>8. ASSUME NEW r \in (Opts \cup {Arg}) \ {call.o, call.from}
        PROVE  w[r] = before[r]
    BY <1>2, <1>4, <1>6, <1>8, <1>11, <2>5, <2>8 DEF Rebuilt
  <2>9. w[call.from] \in Contract!Left(call, before, call.from)
    <3>1. CASE s = call.from
      <4>1. x \in Contract!Left(call, before, call.from)
        BY <1>2, <1>4, <2>3, <2>4, <3>1
           DEF Contract!Left, Contract!Objects, Objects, Given
      <4>2. w[s] = slot'[s]
        BY <1>2, <1>4, <1>6, <1>9, <1>10, <1>11, <2>2, <3>1 DEF Given
      <4> QED BY <2>5, <3>1, <4>1, <4>2
    <3>2. CASE s = Tmp /\ call.from = p
      <4>1. w[p] = before[call.from]
        BY <1>4, <1>9, <1>11, <2>3, <2>5, <3>2
      <4> QED BY <3>2, <4>1 DEF Contract!Left
    <3>3. CASE s = Tmp /\ call.from # p
      <4>1. slot'[call.from] = slot[call.from]
        BY <1>4, <2>5, <3>3
      <4>2. w[call.from] = Shown(call.from)
        BY <1>4, <1>8, <1>11, <3>3, <4>1
      <4>3. ~Rebuilt(call.from)
        BY <1>2, <3>3 DEF Rebuilt
      <4> QED BY <1>4, <1>6, <4>2, <4>3 DEF Contract!Left
    <3> QED BY <2>2, <3>1, <3>2, <3>3
  <2>10. Contract!Returns(call, before, w)
    BY <1>1, <1>2, <1>11, <2>6, <2>7, <2>8, <2>9, TransferReturns
  <2> QED BY <1>1, <1>7, <2>5, <2>10 DEF SettledInv, w
<1> QED BY <1>a, <1>b

(* What is known when the last operation of T that may throw runs in a     *)
(* call that neither rebuilds nor converts.                                *)
LEMMA BeforeSettling ==
    ASSUME IInv, ContractInv, RunT, MayYetThrow, Head(todo).from # Tmp,
           call.op \notin Rebuilders
    PROVE  /\ TypeOK /\ OneAtATime /\ todo # <<>> /\ busy
           /\ outcome = "pending"
           /\ slot' \in Succeeds(Head(todo)) /\ todo' = Tail(todo)
           /\ UNCHANGED <<life, init, busy, call, outcome, before>>
           /\ slot[Ret] = Raw /\ slot \in [Places -> Objects \cup {Raw}]
           /\ \A r \in Opts \cup {Arg} : Shown(r) = before[r]
           /\ \A i \in DOMAIN todo : Planned(todo[i])
           /\ Planned(Head(todo))
           /\ \A r \in Opts : KeepsEngagement(r)
<1>1. /\ TypeOK /\ OneAtATime /\ todo # <<>> /\ busy /\ outcome = "pending"
      /\ slot' \in Succeeds(Head(todo)) /\ todo' = Tail(todo)
      /\ UNCHANGED <<life, init, busy, call, outcome, before>>
      /\ EngagementInv
  BY WhileRunning DEF RunT, Running, IInv, StageInv, PromiseInv
<1>2. ~Consumed /\ \A r \in Opts \cup {Arg} : ~Rebuilt(r)
  BY DEF Consumed, Rebuilt
<1>3. slot[Ret] = Raw /\ \A r \in Opts \cup {Arg} : Shown(r) = before[r]
  BY <1>1, <1>2 DEF ContractInv, WorkInv
<1>4. \A i \in DOMAIN todo : Planned(todo[i])
  BY <1>1 DEF ContractInv, PlanInv
<1>5. Planned(Head(todo))
  BY <1>1, <1>4, TodoParts
<1>6. \A r \in Opts : KeepsEngagement(r)
  BY <1>1, <1>2 DEF EngagementInv
<1> QED BY <1>1, <1>3, <1>4, <1>5, <1>6 DEF TypeOK

(* swap with one value: the value is handed over, and its old place is     *)
(* going to be cleared.                                                    *)
LEMMA HandOverSettles ==
    ASSUME IInv, ContractInv, RunT, MayYetThrow, NEW p \in Opts, NEW q \in Opts,
           AtHandOver(p, q) \/ AtTrivialHandOver(p, q)
    PROVE  SettledInv'
<1> DEFINE st == Construct(p, q, "move")
           w == [r \in Opts \cup {Arg} |-> Coming(r)']
<1>1. /\ p # q /\ Alive(p) /\ Empty(p) /\ Alive(q) /\ Full(q)
      /\ CalmBut({p, q})
      /\ todo = <<st, Engage(p), Destroy(q), Disengage(q)>>
           \/ todo = <<st, Engage(p), Disengage(q)>>
  BY DEF AtHandOver, AtTrivialHandOver
<1>2. /\ st.at = p /\ st.from = q /\ st.how = "move" /\ st.do = "construct"
      /\ p # Tmp /\ q # Tmp /\ p # Ret /\ q # Ret /\ p # Arg /\ q # Arg
  BY StmtReads, PlacesDiffer
<1>3. Head(todo) = st /\ Disengage(q) \in {todo[i] : i \in DOMAIN todo}
  <2>1. CASE todo = <<st, Engage(p), Destroy(q), Disengage(q)>>
    <3>1. 4 \in DOMAIN todo /\ todo[4] = Disengage(q) /\ Head(todo) = st
      BY <2>1
    <3> QED BY <3>1
  <2>2. CASE todo = <<st, Engage(p), Disengage(q)>>
    <3>1. 3 \in DOMAIN todo /\ todo[3] = Disengage(q) /\ Head(todo) = st
      BY <2>2
    <3> QED BY <3>1
  <2> QED BY <1>1, <2>1, <2>2
<1>4. \/ todo' = <<Engage(p), Destroy(q), Disengage(q)>>
      \/ todo' = <<Engage(p), Disengage(q)>>
  <2>1. todo' = Tail(todo)
    BY DEF RunT
  <2>2. CASE todo = <<st, Engage(p), Destroy(q), Disengage(q)>>
    BY <2>1, <2>2, HeadsAndTails
  <2>3. CASE todo = <<st, Engage(p), Disengage(q)>>
    BY <2>1, <2>3, HeadsAndTails
  <2> QED BY <1>1, <2>2, <2>3
<1> HIDE DEF st
<1>5. \A i \in DOMAIN todo : Planned(todo[i])
  BY WhileRunning DEF ContractInv, PlanInv, RunT, Running
<1>6. q = call.o \/ (call.op = "swap" /\ q = call.from)
  <2>1. Planned(Disengage(q))
    BY <1>3, <1>5
  <2>2. /\ Disengage(q).do \notin Throwers /\ Disengage(q).at = q
    BY StmtFields DEF Throwers
  <2>3. ~Transfers(Disengage(q)) /\ ~MakesResult(Disengage(q))
        /\ ~Exchanges(Disengage(q))
    BY StmtFields, StmtReads DEF Transfers, MakesResult, Exchanges
  <2> QED BY <2>1, <2>2, <2>3 DEF Planned, KeepsHouse
<1>7. Exchanges(st)
  <2>1. Planned(st)
    BY <1>3, <1>5, WhileRunning, TodoParts DEF IInv, RunT, Running
  <2>2. ~KeepsHouse(st)
    BY <1>2 DEF KeepsHouse, Throwers
  <2>3. ~MakesResult(st)
    BY <1>2, StmtReads DEF MakesResult
  <2>4. ~Transfers(st)
    <3>1. SUFFICES ASSUME Transfers(st) PROVE FALSE
      OBVIOUS
    <3>2. TypeOK
      BY DEF IInv, StageInv
    <3>3. p = call.o /\ call.op \in Contract!Transfers
      BY <3>1, <3>2, TransferIs DEF st
    <3> QED BY <1>1, <1>6, <3>3 DEF Contract!Transfers, Contract!Converting
  <2> QED BY <2>1, <2>2, <2>3, <2>4 DEF Planned
<1>8. /\ call.op = "swap" /\ before[q] \in Objects /\ before[p] = None
      /\ \/ p = call.o /\ q = call.from
         \/ p = call.from /\ q = call.o
  BY <1>2, <1>7, StmtReads DEF Exchanges
<1>9. /\ TypeOK /\ busy /\ outcome = "pending"
      /\ slot' \in Succeeds(st)
      /\ UNCHANGED <<life, init, busy, call, outcome, before>>
      /\ slot[Ret] = Raw /\ slot \in [Places -> Objects \cup {Raw}]
      /\ \A r \in Opts \cup {Arg} : Shown(r) = before[r]
  BY <1>2, <1>3, <1>8, BeforeSettling DEF Rebuilders
<1>10. slot[q] = before[q]
  BY <1>8, <1>9, ShownObject
<1>11. PICK x : slot' = [slot EXCEPT ![p] = slot[q], ![q] = x]
  <2>1. slot' \in Transferred(st)
    <3>1. ~ReadsDead(st)
      BY <1>1, <1>2 DEF ReadsDead, Full
    <3> QED BY <1>2, <1>9, <3>1 DEF Succeeds
  <2> QED BY <1>2, <2>1 DEF Transferred
<1>12. /\ slot'[p] = slot[q] /\ slot'[Ret] = Raw
       /\ \A r \in (Opts \cup {Arg}) \ {p, q} : slot'[r] = slot[r]
  BY <1>1, <1>2, <1>9, <1>11, PlacesDiffer
<1>13. /\ \A r : Remains(Engage(r))' <=> r = p
       /\ \A r : Remains(Disengage(r))' <=> r = q
  <2>1. ASSUME NEW r PROVE /\ Remains(Engage(r))' <=> r = p
                           /\ Remains(Disengage(r))' <=> r = q
    BY <1>4, RemainsAfter, FlagStmtsDiffer
  <2> QED BY <2>1
<1>14. Coming(p)' = before[q] /\ Coming(q)' = before[p]
  <2>1. life[p] \in Building \cup {"alive"} /\ life[q] \in Building \cup {"alive"}
        /\ UNCHANGED life
    BY <1>1, <1>9 DEF Alive
  <2>2. WillBeSet(p)' /\ ~WillBeSet(q)'
    BY <1>1, <1>13 DEF WillBeSet
  <2> QED BY <1>8, <1>10, <1>12, <2>1, <2>2, ComingIs
<1>15. ASSUME NEW r \in (Opts \cup {Arg}) \ {p, q} PROVE Coming(r)' = before[r]
  <2>1. r \in Opts => life[r] \in {"absent", "alive"}
    BY <1>1 DEF CalmBut, Calm
  <2> QED BY <1>9, <1>12, <1>13, <2>1, ComingIs DEF Shown
<1>16. w = [before EXCEPT ![call.o] = before[call.from],
                          ![call.from] = before[call.o]]
  <2>1. before = [r \in Opts \cup {Arg} |-> before[r]]
    BY <1>9 DEF TypeOK
  <2> QED BY <1>1, <1>8, <1>14, <1>15, <2>1
<1>17. Contract!Returns(call, before, w) /\ Contract!Result(call, before) = Raw
  BY <1>8, <1>16 DEF Contract!Returns, Contract!Result
<1> QED BY <1>9, <1>12, <1>17 DEF SettledInv

(* swap with two values.                                                   *)
LEMMA SwapSettles ==
    ASSUME IInv, ContractInv, RunT, MayYetThrow, NEW p \in Opts, NEW q \in Opts,
           AtSwap(p, q)
    PROVE  SettledInv'
<1> DEFINE st == SwapT(p, q)
           w == [r \in Opts \cup {Arg} |-> Coming(r)']
<1>1. /\ Alive(p) /\ Full(p) /\ Alive(q) /\ Full(q) /\ CalmBut({p, q})
      /\ Head(todo) = st /\ Tail(todo) = <<>>
  BY HeadsAndTails DEF AtSwap
<1>2. /\ st.at = p /\ st.from = q /\ st.do = "swap"
      /\ p # Tmp /\ q # Tmp /\ p # Ret /\ q # Ret /\ p # Arg /\ q # Arg
  BY StmtReads, PlacesDiffer
<1> HIDE DEF st
<1>3. Exchanges(st)
  <2>1. Planned(st)
    BY <1>1, WhileRunning, TodoParts DEF ContractInv, PlanInv, IInv, RunT, Running
  <2> QED BY <1>2, <2>1, StmtReads
          DEF Planned, KeepsHouse, Throwers, MakesResult, Transfers
<1>4. /\ call.op = "swap" /\ p = call.o /\ q = call.from
      /\ before[p] \in Objects /\ before[q] \in Objects
  BY <1>2, <1>3, StmtReads DEF Exchanges, Given, st
<1>5. /\ TypeOK /\ busy /\ outcome = "pending"
      /\ slot' \in Succeeds(st) /\ todo' = Tail(todo)
      /\ UNCHANGED <<life, init, busy, call, outcome, before>>
      /\ slot[Ret] = Raw /\ slot \in [Places -> Objects \cup {Raw}]
      /\ \A r \in Opts \cup {Arg} : Shown(r) = before[r]
  BY <1>1, <1>2, <1>4, BeforeSettling DEF Rebuilders
<1>6. slot[p] = before[p] /\ slot[q] = before[q]
  BY <1>4, <1>5, ShownObject
<1>7. slot' = [slot EXCEPT ![p] = slot[q], ![q] = slot[p]]
  BY <1>2, <1>5 DEF Succeeds
<1>8. /\ slot'[p] = slot[q] /\ slot'[q] = slot[p] /\ slot'[Ret] = Raw
      /\ \A r \in (Opts \cup {Arg}) \ {p, q} : slot'[r] = slot[r]
  BY <1>2, <1>5, <1>7, PlacesDiffer
<1>9. \A r : ~Remains(Engage(r))' /\ ~Remains(Disengage(r))'
  BY <1>1, <1>5, RemainsAfter
<1>10. Coming(p)' = before[q] /\ Coming(q)' = before[p]
  <2>1. life[p] \in Building \cup {"alive"} /\ life[q] \in Building \cup {"alive"}
        /\ UNCHANGED life
    BY <1>1, <1>5 DEF Alive
  <2>2. WillBeSet(p)' /\ WillBeSet(q)'
    BY <1>1, <1>5, <1>9 DEF WillBeSet, Full
  <2> QED BY <1>6, <1>8, <2>1, <2>2, ComingIs
<1>11. ASSUME NEW r \in (Opts \cup {Arg}) \ {p, q} PROVE Coming(r)' = before[r]
  <2>1. r \in Opts => life[r] \in {"absent", "alive"}
    BY <1>1 DEF CalmBut, Calm
  <2> QED BY <1>5, <1>8, <1>9, <2>1, ComingIs DEF Shown
<1>12. w = [before EXCEPT ![call.o] = before[call.from],
                          ![call.from] = before[call.o]]
  <2>1. before = [r \in Opts \cup {Arg} |-> before[r]]
    BY <1>5 DEF TypeOK
  <2> QED BY <1>4, <1>10, <1>11, <2>1
<1>13. Contract!Returns(call, before, w) /\ Contract!Result(call, before) = Raw
  BY <1>4, <1>12 DEF Contract!Returns, Contract!Result
<1> QED BY <1>5, <1>8, <1>13 DEF SettledInv

(* value_or, once its result is made.                                      *)
LEMMA ResultSettles ==
    ASSUME IInv, ContractInv, RunT, MayYetThrow,
           NEW s \in Opts \cup {Arg, Tmp}, NEW how \in Hows, AtResult(s, how)
    PROVE  SettledInv'
<1> DEFINE st == Construct(Ret, s, how)
           w == [r \in Opts \cup {Arg} |-> Coming(r)']
<1>1. /\ slot[s] # Raw /\ CalmBut({})
      /\ Head(todo) = st /\ Tail(todo) = <<>>
  BY HeadsAndTails DEF AtResult
<1>2. /\ st.at = Ret /\ st.from = s /\ st.how = how /\ st.do = "construct"
      /\ s # Ret
  BY StmtReads, PlacesDiffer
<1> HIDE DEF st
<1>3. MakesResult(st)
  <2>1. Planned(st) /\ TypeOK
    BY <1>1, WhileRunning, TodoParts DEF ContractInv, PlanInv, IInv, RunT, Running
  <2>2. call.o \in Opts /\ call.o # Ret
    BY <2>1, PlacesDiffer DEF TypeOK
  <2>3. ~Transfers(st)
    BY <1>2, <2>2, PlacesDiffer, StmtReads DEF Transfers
  <2>4. ~Exchanges(st)
    BY <1>2, <2>2, PlacesDiffer, StmtReads DEF Exchanges
  <2> QED BY <1>2, <2>1, <2>3, <2>4 DEF Planned, KeepsHouse, Throwers
<1>4. /\ call.op = "value_or" /\ s = Giver /\ how = call.how
      /\ before[s] \in Objects
  BY <1>2, <1>3, StmtReads DEF MakesResult
<1>5. call.o \in Opts /\ call.from \in Opts \cup {Arg}
  BY DEF IInv, StageInv, TypeOK
<1>6. s \in Opts \cup {Arg} /\ s # Tmp
  BY <1>4, <1>5, PlacesDiffer DEF Giver, Contract!Giver
<1>7. /\ TypeOK /\ busy /\ outcome = "pending"
      /\ slot' \in Succeeds(st) /\ todo' = Tail(todo)
      /\ UNCHANGED <<life, init, busy, call, outcome, before>>
      /\ slot[Ret] = Raw /\ slot \in [Places -> Objects \cup {Raw}]
      /\ \A r \in Opts \cup {Arg} : Shown(r) = before[r]
  BY <1>1, <1>2, <1>4, <1>6, BeforeSettling DEF Rebuilders
<1>8. slot[s] = before[s] /\ (s # Arg => Engaged(s))
  BY <1>4, <1>6, <1>7, ShownObject
<1>9. PICK x \in IF how = "move" THEN {slot[s], Unspec} ELSE {slot[s]} :
        slot' = [slot EXCEPT ![Ret] = slot[s], ![s] = x]
  <2>1. slot' \in Transferred(st)
    <3>1. ~ReadsDead(st)
      BY <1>1, <1>2 DEF ReadsDead
    <3> QED BY <1>2, <1>7, <3>1 DEF Succeeds
  <2> QED BY <1>2, <2>1 DEF Transferred, Leftover
<1>10. /\ slot'[Ret] = slot[s] /\ slot'[s] = x
       /\ \A r \in (Opts \cup {Arg}) \ {s} : slot'[r] = slot[r]
  BY <1>2, <1>6, <1>7, <1>9, PlacesDiffer
<1>11. \A r : ~Remains(Engage(r))' /\ ~Remains(Disengage(r))'
  BY <1>1, <1>7, RemainsAfter
<1>12. Coming(s)' = x
  <2>1. s \in Opts => WillBeSet(s)' /\ life[s] \in Building \cup {"alive"}
    BY <1>7, <1>8, <1>11, PlacesDiffer DEF WillBeSet, Engaged, Alive
  <2> QED BY <1>6, <1>7, <1>10, <2>1, ComingIs
<1>13. ASSUME NEW r \in (Opts \cup {Arg}) \ {s} PROVE Coming(r)' = before[r]
  <2>1. r \in Opts => life[r] \in {"absent", "alive"}
    BY <1>1 DEF CalmBut, Calm
  <2> QED BY <1>7, <1>10, <1>11, <2>1, ComingIs DEF Shown
<1>14. w = [before EXCEPT ![s] = x]
  <2>1. before = [r \in Opts \cup {Arg} |-> before[r]]
    BY <1>7 DEF TypeOK
  <2> QED BY <1>6, <1>12, <1>13, <2>1
<1>15. x \in Contract!Left(call, before, s)
  BY <1>4, <1>8, <1>9 DEF Contract!Left, Contract!Objects, Objects
<1>16. /\ Contract!Returns(call, before, w)
       /\ Contract!Result(call, before) = before[s]
  BY <1>4, <1>14, <1>15 DEF Contract!Returns, Contract!Result, Giver
<1> QED BY <1>7, <1>8, <1>10, <1>16 DEF SettledInv

(* A value that is constructed in an optional: initialize(), construct(),  *)
(* and the storage that is built with its value.                           *)
LEMMA InitSettles ==
    ASSUME IInv, ContractInv, RunT, MayYetThrow, NEW p \in Opts,
           NEW s \in Opts \cup {Arg, Tmp}, NEW how \in Hows,
           AtInit(p, s, how) \/ AtDirectConstruct(p, s, how)
    PROVE  SettledInv'
<1> DEFINE st == Construct(p, s, how)
<1>1. /\ TypeOK /\ todo # <<>> /\ todo' = Tail(todo)
      /\ EngagementInv /\ MayYetThrow /\ busy
      /\ UNCHANGED <<life, init, busy, call, outcome, before>>
      /\ Head(todo) = todo[1] /\ 1 \in DOMAIN todo
      /\ \A i \in DOMAIN todo : Planned(todo[i])
      /\ call \in Contract!Calls /\ Contract!Allowed(call, before)
  BY WhileRunning, TodoParts
     DEF RunT, Running, IInv, StageInv, PromiseInv, ContractInv, PlanInv
<1>t. todo' = Tail(todo)
  BY <1>1
<1>2. /\ st.at = p /\ st.do = "construct" /\ p # Ret /\ p # Tmp
  BY StmtReads, PlacesDiffer
<1>a. CASE AtInit(p, s, how)
  <2>1. Head(todo) = st /\ todo' = <<Engage(p)>> /\ call.op # "swap"
    BY <1>t, <1>a, HeadsAndTails DEF AtInit
  <2>2. /\ InLifetime(p) /\ Readable(p, s) /\ CalmBut({p})
    BY <1>a DEF AtInit
  <2> HIDE DEF st
  <2>3. Transfers(st)
    BY <1>1, <1>2, <2>1, StmtReads
       DEF Planned, MakesResult, Exchanges, KeepsHouse, Throwers
  <2>4. /\ Remains(Engage(p))'
        /\ \A r \in Opts \ {p} : /\ ~Remains(Engage(r))'
                                 /\ ~Remains(Disengage(r))'
    BY <2>1, RemainsAfter, FlagStmtsDiffer
  <2>5. WillBeSet(p)' /\ life[p] \in Building \cup {"alive"}
    BY <2>2, <2>4 DEF WillBeSet, InLifetime
  <2>6. Transfers(Head(todo))
        /\ Head(todo) \in {Construct(p, s, how), AssignT(p, s, how)}
    BY <2>1, <2>3 DEF st
  <2> QED BY <2>2, <2>4, <2>5, <2>6, TransferSettles DEF Readable
<1>b. CASE AtDirectConstruct(p, s, how)
  <2>1. /\ Head(todo) = st /\ todo' = <<>>
        /\ life[p] = "storage" /\ call.o = p /\ init[p]
        /\ s \notin {p, Tmp} /\ slot[s] # Raw /\ CalmBut({p})
    BY <1>t, <1>b, HeadsAndTails DEF AtDirectConstruct
  <2> HIDE DEF st
  <2>2. call.op # "swap"
    <3>1. SUFFICES ASSUME call.op = "swap" PROVE FALSE
      OBVIOUS
    <3>2. KeepsEngagement(p)
      BY <1>1, <3>1 DEF EngagementInv, Rebuilt, Rebuilders
    <3>3. before[p] = Absent
      BY <2>1, <3>2 DEF KeepsEngagement, Building
    <3> QED BY <1>1, <2>1, <3>1, <3>3
            DEF Contract!Allowed, Contract!InLife, Contract!Constructors
  <2>3. Transfers(st)
    BY <1>1, <1>2, <2>1, <2>2, StmtReads
       DEF Planned, MakesResult, Exchanges, KeepsHouse, Throwers
  <2>4. \A r : ~Remains(Engage(r))' /\ ~Remains(Disengage(r))'
    BY <2>1, RemainsAfter
  <2>5. WillBeSet(p)' /\ life[p] \in Building \cup {"alive"}
    BY <1>1, <2>1, <2>4 DEF WillBeSet, Building
  <2>6. Transfers(Head(todo))
        /\ Head(todo) \in {Construct(p, s, how), AssignT(p, s, how)}
    BY <2>1, <2>3 DEF st
  <2> QED BY <2>1, <2>4, <2>5, <2>6, TransferSettles
<1> QED BY <1>a, <1>b

(* A value that is assigned.                                               *)
LEMMA AssignSettles ==
    ASSUME IInv, ContractInv, RunT, MayYetThrow, NEW p \in Opts,
           NEW s \in Opts \cup {Arg, Tmp}, NEW how \in Hows,
           AtAssign(p, s, how)
    PROVE  SettledInv'
<1> DEFINE st == AssignT(p, s, how)
<1>1. /\ TypeOK /\ todo # <<>> /\ Planned(Head(todo)) /\ init' = init
  BY WhileRunning, TodoParts
     DEF RunT, Running, IInv, StageInv, ContractInv, PlanInv
<1>2. /\ st.at = p /\ st.do = "assign" /\ p # Ret /\ p # Tmp
  BY StmtReads, PlacesDiffer
<1>t. todo' = Tail(todo)
  BY DEF RunT
<1>3. /\ Head(todo) = st /\ todo' = <<>>
      /\ Alive(p) /\ Full(p) /\ slot[s] # Raw /\ CalmBut({p})
  BY <1>t, HeadsAndTails DEF AtAssign
<1> HIDE DEF st
<1>4. Transfers(st)
  <2>1. ~MakesResult(st)
    BY <1>2, StmtReads DEF MakesResult
  <2>2. ~Exchanges(st)
    BY <1>2, StmtReads DEF Exchanges
  <2> QED BY <1>1, <1>2, <1>3, <2>1, <2>2 DEF Planned, KeepsHouse, Throwers
<1>5. \A r : ~Remains(Engage(r))' /\ ~Remains(Disengage(r))'
  BY <1>3, RemainsAfter
<1>6. WillBeSet(p)' /\ life[p] \in Building \cup {"alive"}
  BY <1>1, <1>3, <1>5 DEF WillBeSet, Alive, Full
<1>7. Transfers(Head(todo))
      /\ Head(todo) \in {Construct(p, s, how), AssignT(p, s, how)}
  BY <1>3, <1>4 DEF st
<1>8. Head(todo) = AssignT(p, s, how)
  BY <1>3 DEF st
<1> QED BY <1>3, <1>5, <1>6, <1>7, <1>8, TransferSettles

(* So whatever the call is, when the last operation of T that may throw    *)
(* has returned, the call is going to return what it promised.             *)
LEMMA RunTSettles ==
    ASSUME IInv, ContractInv, RunT, MayYetThrow, ~MayYetThrow'
    PROVE  SettledInv'
<1>1. /\ StageInv /\ TypeOK /\ todo # <<>> /\ todo' = Tail(todo)
      /\ Head(todo).do \in Throwers
  BY LastThrower DEF RunT, Running, IInv, StageInv
<1>t. todo' = Tail(todo)
  BY <1>1
<1>2. PICK p \in Opts, q \in Opts, s \in Opts \cup {Arg, Tmp}, how \in Hows :
        Stage(p, q, s, how)
  BY <1>1, WhileRunning
<1>3. \/ AtInit(p, s, how) \/ AtDirectConstruct(p, s, how)
      \/ AtAssign(p, s, how) \/ AtResult(s, how) \/ AtSwap(p, q)
      \/ AtHandOver(p, q) \/ AtTrivialHandOver(p, q)
  <2>1. ~AtConvertAssign(p, s, how)
    <3>1. SUFFICES ASSUME AtConvertAssign(p, s, how) PROVE FALSE
      OBVIOUS
    <3>2. todo' = <<AssignT(p, Tmp, "move")>>
      BY <1>t, <3>1, HeadsAndTails DEF AtConvertAssign
    <3>3. MayYetThrow'
      <4>1. 1 \in DOMAIN todo' /\ todo'[1] = AssignT(p, Tmp, "move")
        BY <3>2
      <4> QED BY <4>1, StmtReads DEF MayYetThrow, Throwers
    <3> QED BY <3>3
  <2>2. ~AtConvertInit(p, s, how)
    <3>1. SUFFICES ASSUME AtConvertInit(p, s, how) PROVE FALSE
      OBVIOUS
    <3>2. todo' = <<Construct(p, Tmp, "move"), Engage(p)>>
      BY <1>t, <3>1, HeadsAndTails DEF AtConvertInit
    <3>3. MayYetThrow'
      <4>1. 1 \in DOMAIN todo' /\ todo'[1] = Construct(p, Tmp, "move")
        BY <3>2
      <4> QED BY <4>1, StmtReads DEF MayYetThrow, Throwers
    <3> QED BY <3>3
  <2>3. ~AtEngage(p) /\ ~AtHandedOver(p, q) /\ ~AtTrivialHandedOver(p, q)
        /\ ~AtDirect(p, s, how)
    <3>1. Head(todo) # Engage(p)
      BY <1>1, StmtFields DEF Throwers
    <3> QED BY <3>1, HeadsAndTails
            DEF AtEngage, AtHandedOver, AtTrivialHandedOver, AtDirect
  <2>4. ~AtDisengage(p) /\ ~AtRebuildGutted(p, s, how)
    <3>1. Head(todo) # Disengage(p)
      BY <1>1, StmtFields DEF Throwers
    <3> QED BY <3>1, HeadsAndTails DEF AtDisengage, AtRebuildGutted
  <2>5. ~AtReset(p) /\ ~AtRebuild(p, s, how) /\ ~AtDtor(p)
    <3>1. Head(todo) # Destroy(p)
      BY <1>1, StmtFields DEF Throwers
    <3> QED BY <3>1, HeadsAndTails DEF AtReset, AtRebuild, AtDtor
  <2> QED BY <1>2, <2>1, <2>2, <2>3, <2>4, <2>5 DEF Stage
<1> QED BY <1>3, InitSettles, AssignSettles, ResultSettles, SwapSettles,
           HandOverSettles

(* A call in which nothing may throw any more has only flags to set and    *)
(* values to destroy.                                                      *)
LEMMA OnlyHousekeeping ==
    ASSUME StageInv, todo # <<>>, ~MayYetThrow
    PROVE  \E p \in Opts, q \in Opts :
              \/ AtEngage(p) \/ AtReset(p) \/ AtDisengage(p) \/ AtDtor(p)
              \/ AtHandedOver(p, q) \/ AtTrivialHandedOver(p, q)
<1>1. PICK p \in Opts, q \in Opts, s \in Opts \cup {Arg, Tmp}, how \in Hows :
        Stage(p, q, s, how)
  BY WhileRunning
<1>2. ASSUME NEW i \in DOMAIN todo PROVE todo[i].do \notin Throwers
  BY <1>2 DEF MayYetThrow
<1>3. ~AtInit(p, s, how) /\ ~AtDirectConstruct(p, s, how) /\ ~AtResult(s, how)
      /\ ~AtHandOver(p, q) /\ ~AtTrivialHandOver(p, q)
      /\ ~AtConvertInit(p, s, how) /\ ~AtConvertAssign(p, s, how)
      /\ ~AtAssign(p, s, how) /\ ~AtSwap(p, q)
  <2>1. SUFFICES ASSUME todo # <<>>, 1 \in DOMAIN todo => Head(todo) = todo[1],
                        \/ AtInit(p, s, how) \/ AtDirectConstruct(p, s, how)
                        \/ AtResult(s, how) \/ AtHandOver(p, q)
                        \/ AtTrivialHandOver(p, q) \/ AtConvertInit(p, s, how)
                        \/ AtConvertAssign(p, s, how)
                        \/ AtAssign(p, s, how) \/ AtSwap(p, q)
                 PROVE  FALSE
    BY TodoParts DEF StageInv
  <2>2. 1 \in DOMAIN todo /\ todo[1].do \in Throwers
    <3>1. \A a, b : Construct(a, b, how).do \in Throwers
                    /\ Construct(a, b, "move").do \in Throwers
                    /\ AssignT(a, b, how).do \in Throwers
                    /\ SwapT(a, b).do \in Throwers
      BY StmtReads DEF Throwers
    <3>2. CASE AtInit(p, s, how) \/ AtDirectConstruct(p, s, how)
               \/ AtResult(s, how)
      BY <3>1, <3>2 DEF AtInit, AtDirectConstruct, AtResult
    <3>3. CASE AtHandOver(p, q) \/ AtTrivialHandOver(p, q)
      BY <3>1, <3>3 DEF AtHandOver, AtTrivialHandOver
    <3>4. CASE AtConvertInit(p, s, how) \/ AtConvertAssign(p, s, how)
      BY <3>1, <3>4 DEF AtConvertInit, AtConvertAssign
    <3>5. CASE AtAssign(p, s, how) \/ AtSwap(p, q)
      BY <3>1, <3>5 DEF AtAssign, AtSwap
    <3> QED BY <2>1, <3>2, <3>3, <3>4, <3>5
  <2> QED BY <1>2, <2>2
<1>4. ~AtRebuild(p, s, how) /\ ~AtRebuildGutted(p, s, how)
      /\ ~AtDirect(p, s, how)
  <2>1. Construct(p, s, how).do \in Throwers
    BY StmtReads DEF Throwers
  <2>2. ~AtRebuild(p, s, how)
    BY <1>2, <2>1 DEF AtRebuild
  <2>3. ~AtRebuildGutted(p, s, how)
    BY <1>2, <2>1 DEF AtRebuildGutted
  <2>4. ~AtDirect(p, s, how)
    BY <1>2, <2>1 DEF AtDirect
  <2> QED BY <2>2, <2>3, <2>4
<1> QED BY <1>1, <1>3, <1>4 DEF Stage

(* What such a step does to a flag and to storage, the caller expects.     *)
LEMMA ComingStays ==
    ASSUME UNCHANGED life, NEW r \in Opts \cup {Arg},
           r = Arg => slot'[r] = slot[r],
           (r # Arg /\ life[r] \notin {"absent", "dying"})
              => /\ WillBeSet(r)' <=> WillBeSet(r)
                 /\ WillBeSet(r) => slot'[r] = slot[r]
    PROVE  Coming(r)' = Coming(r)
<1>1. CASE r = Arg
  BY <1>1 DEF Coming
<1>2. CASE r # Arg /\ life[r] \in {"absent", "dying"}
  <2>1. Coming(r) = Absent /\ Coming(r)' = Absent
    BY <1>2 DEF Coming
  <2> QED BY <2>1
<1>3. CASE r # Arg /\ life[r] \notin {"absent", "dying"}
  BY <1>3 DEF Coming
<1> QED BY <1>1, <1>2, <1>3

(* The housekeeping at the end of a call is what its caller expects.       *)
LEMMA HousekeepingSettles ==
    ASSUME IInv, ContractInv, RunT \/ RunFlag, ~MayYetThrow
    PROVE  SettledInv'
<1>1. /\ StageInv /\ TypeOK /\ todo # <<>> /\ busy /\ outcome = "pending"
      /\ todo' = Tail(todo)
      /\ UNCHANGED <<life, busy, call, outcome, before>>
      /\ slot \in [Places -> Objects \cup {Raw}] /\ init \in [Opts -> BOOLEAN]
  BY WhileRunning DEF RunT, RunFlag, Running, IInv, StageInv, TypeOK
<1>t. todo' = Tail(todo)
  BY <1>1
<1>2. PICK p \in Opts, q \in Opts :
        \/ AtEngage(p) \/ AtReset(p) \/ AtDisengage(p) \/ AtDtor(p)
        \/ AtHandedOver(p, q) \/ AtTrivialHandedOver(p, q)
  BY <1>1, OnlyHousekeeping
<1>3. p # Arg /\ q # Arg /\ p # Ret /\ q # Ret
  BY PlacesDiffer
<1>4. /\ slot'[Ret] = slot[Ret]
      /\ \A r \in Opts \cup {Arg} : Coming(r)' = Coming(r)
  <2>1. CASE RunT
    <3>1. AtReset(p) \/ AtDtor(p)
      <4>1. Head(todo).do \notin {"engage", "disengage"}
        BY <2>1 DEF RunT, Running, TOps
      <4>2. Head(todo) # Engage(p) /\ Head(todo) # Disengage(p)
        BY <4>1, StmtFields
      <4> QED BY <1>2, <4>2, HeadsAndTails
              DEF AtEngage, AtDisengage, AtHandedOver, AtTrivialHandedOver
    <3>2. Head(todo) = Destroy(p) /\ slot' = [slot EXCEPT ![p] = Raw]
          /\ init' = init
      <4>1. Head(todo) = Destroy(p)
        BY <3>1, HeadsAndTails DEF AtReset, AtDtor
      <4>2. Destroy(p).do = "destroy" /\ Destroy(p).at = p
        BY StmtFields
      <4>3. slot' \in Succeeds(Head(todo)) /\ init' = init
        BY <2>1 DEF RunT
      <4> QED BY <4>1, <4>2, <4>3 DEF Succeeds
    <3>3. \A r \in Places \ {p} : slot'[r] = slot[r]
      BY <1>1, <3>2
    <3>4. CASE AtReset(p)
      <4>1. todo = <<Destroy(p), Disengage(p)>> /\ todo' = <<Disengage(p)>>
        BY <1>t, <3>4, HeadsAndTails DEF AtReset
      <4>2. ASSUME NEW r \in Opts
            PROVE  /\ WillBeSet(r)' <=> WillBeSet(r)
                   /\ WillBeSet(r) => slot'[r] = slot[r]
        <5>1. /\ ~Remains(Engage(r)) /\ ~Remains(Engage(r))'
              /\ Remains(Disengage(r)) <=> r = p
              /\ Remains(Disengage(r))' <=> r = p
          BY <4>1, RemainsIn, RemainsAfter, FlagStmtsDiffer
        <5> QED BY <3>2, <3>3, <5>1, PlacesDiffer DEF WillBeSet
      <4> QED BY <1>1, <1>3, <3>3, <4>2, ComingStays, PlacesDiffer
    <3>5. CASE AtDtor(p)
      <4>1. /\ todo = <<Destroy(p)>> /\ todo' = <<>> /\ life[p] = "dying"
        BY <1>t, <3>5, HeadsAndTails DEF AtDtor
      <4>2. ASSUME NEW r \in Opts, r # p
            PROVE  /\ WillBeSet(r)' <=> WillBeSet(r)
                   /\ slot'[r] = slot[r]
        <5>1. /\ ~Remains(Engage(r)) /\ ~Remains(Engage(r))'
              /\ ~Remains(Disengage(r)) /\ ~Remains(Disengage(r))'
          BY <4>1, RemainsIn, RemainsAfter, FlagStmtsDiffer
        <5> QED BY <3>2, <3>3, <4>2, <5>1, PlacesDiffer DEF WillBeSet
      <4> QED BY <1>1, <1>3, <3>3, <4>1, <4>2, ComingStays, PlacesDiffer
    <3> QED BY <1>3, <3>1, <3>3, <3>4, <3>5, PlacesDiffer
  <2>2. CASE RunFlag
    <3>1. /\ slot' = slot
          /\ init' = [init EXCEPT ![Head(todo).at] = (Head(todo).do = "engage")]
          /\ Head(todo).do # "destroy"
      BY <2>2 DEF RunFlag, Running
    <3>2. Head(todo) # Destroy(p)
      BY <3>1, StmtFields
    <3>3. ~AtReset(p) /\ ~AtDtor(p)
      BY <3>2, HeadsAndTails DEF AtReset, AtDtor
    <3>4. CASE AtEngage(p) \/ AtHandedOver(p, q) \/ AtTrivialHandedOver(p, q)
      <4>1. Head(todo) = Engage(p)
        BY <3>4, HeadsAndTails DEF AtEngage, AtHandedOver, AtTrivialHandedOver
      <4>2. Engage(p).do = "engage" /\ Engage(p).at = p
        BY StmtFields
      <4>3. init'[p] /\ \A r \in Opts \ {p} : init'[r] = init[r]
        BY <1>1, <3>1, <4>1, <4>2
      <4>4. ASSUME NEW r \in Opts
            PROVE  /\ Remains(Engage(r)) <=> r = p
                   /\ ~Remains(Engage(r))'
                   /\ Remains(Disengage(r))' <=> Remains(Disengage(r))
                   /\ ~Remains(Disengage(p)) /\ ~Remains(Disengage(p))'
        <5>1. CASE AtEngage(p)
          <6>1. todo = <<Engage(p)>> /\ todo' = <<>>
            BY <1>t, <5>1, HeadsAndTails DEF AtEngage
          <6> QED BY <6>1, RemainsIn, RemainsAfter, FlagStmtsDiffer
        <5>2. CASE AtHandedOver(p, q)
          <6>1. /\ todo = <<Engage(p), Destroy(q), Disengage(q)>>
                /\ todo' = <<Destroy(q), Disengage(q)>> /\ p # q
            BY <1>t, <5>2, HeadsAndTails DEF AtHandedOver
          <6> QED BY <6>1, RemainsIn, RemainsAfter, FlagStmtsDiffer
        <5>3. CASE AtTrivialHandedOver(p, q)
          <6>1. /\ todo = <<Engage(p), Disengage(q)>>
                /\ todo' = <<Disengage(q)>> /\ p # q
            BY <1>t, <5>3, HeadsAndTails DEF AtTrivialHandedOver
          <6> QED BY <6>1, RemainsIn, RemainsAfter, FlagStmtsDiffer
        <5> QED BY <3>4, <5>1, <5>2, <5>3
      <4>5. ASSUME NEW r \in Opts PROVE WillBeSet(r)' <=> WillBeSet(r)
        BY <4>3, <4>4 DEF WillBeSet
      <4> QED BY <1>1, <3>1, <4>5, ComingStays
    <3>5. CASE AtDisengage(p)
      <4>1. todo = <<Disengage(p)>> /\ Head(todo) = Disengage(p) /\ todo' = <<>>
        BY <1>t, <3>5, HeadsAndTails DEF AtDisengage
      <4>2. Disengage(p).do = "disengage" /\ Disengage(p).at = p
        BY StmtFields
      <4>3. ~init'[p] /\ \A r \in Opts \ {p} : init'[r] = init[r]
        BY <1>1, <3>1, <4>1, <4>2
      <4>4. ASSUME NEW r \in Opts
            PROVE  /\ ~Remains(Engage(r)) /\ ~Remains(Engage(r))'
                   /\ Remains(Disengage(r)) <=> r = p
                   /\ ~Remains(Disengage(r))'
        BY <4>1, RemainsIn, RemainsAfter, FlagStmtsDiffer
      <4>5. ASSUME NEW r \in Opts PROVE WillBeSet(r)' <=> WillBeSet(r)
        BY <4>3, <4>4 DEF WillBeSet
      <4> QED BY <1>1, <3>1, <4>5, ComingStays
    <3> QED BY <1>2, <3>1, <3>3, <3>4, <3>5
  <2> QED BY <2>1, <2>2
<1>5. /\ Contract!Returns(call, before, [r \in Opts \cup {Arg} |-> Coming(r)])
      /\ slot[Ret] = Contract!Result(call, before)
  BY <1>1 DEF ContractInv, SettledInv
<1>6. [r \in Opts \cup {Arg} |-> Coming(r)'] = [r \in Opts \cup {Arg} |-> Coming(r)]
  BY <1>4
<1>7. Contract!Returns(call', before', [r \in Opts \cup {Arg} |-> Coming(r)'])
      /\ slot'[Ret] = Contract!Result(call', before')
  BY <1>1, <1>4, <1>5, <1>6
<1> QED BY <1>7 DEF SettledInv

(* The steps of a call that runs keep what relates it to the contract.     *)
LEMMA RunKeepsContract == IInv /\ ContractInv /\ (RunT \/ RunFlag) => ContractInv'
<1> SUFFICES ASSUME IInv, ContractInv, RunT \/ RunFlag PROVE ContractInv'
  OBVIOUS
<1>1. /\ TypeOK /\ todo # <<>> /\ todo' = Tail(todo) /\ outcome = "pending"
      /\ UNCHANGED <<busy, call, outcome, before>>
  BY WhileRunning DEF RunT, RunFlag, Running, IInv, StageInv
<1>2. PlanInv'
  BY <1>1, PlanKept DEF ContractInv
<1>3. WorkInv'
  BY RunTKeepsWork, RunFlagKeepsWork
<1>4. SettledInv'
  <2>1. CASE ~MayYetThrow
    BY <2>1, HousekeepingSettles
  <2>2. CASE MayYetThrow /\ ~MayYetThrow'
    <3>1. Head(todo).do \in Throwers
      BY <1>1, <2>2, LastThrower
    <3>2. RunT
      BY <3>1 DEF RunFlag, Running, Throwers
    <3> QED BY <2>2, <3>2, RunTSettles
  <2>3. CASE MayYetThrow'
    BY <2>3 DEF SettledInv
  <2> QED BY <2>1, <2>2, <2>3
<1>5. FailedInv'
  BY <1>1 DEF FailedInv
<1> QED BY <1>2, <1>3, <1>4, <1>5 DEF ContractInv

------------------------------------------------------------------------------
(* When an operation of T throws.                                          *)

(* What a call that has thrown shows of an optional it did not rebuild:    *)
(* what the call found there, or another T where there was one.            *)
LEMMA ThrownShape ==
    ASSUME IInv, ThrowT(<<>>), NEW r \in Opts \cup {Arg}, ~Rebuilt(r)
    PROVE  IF r = Arg \/ before[r] \in Objects THEN Shown(r)' \in Objects
                                               ELSE Shown(r)' = before[r]
<1>1. /\ StageInv' /\ EngagementInv' /\ busy' /\ outcome' = "threw"
      /\ todo' = <<>> /\ UNCHANGED <<life, init, call, before>>
  BY ThrowKeeps DEF IInv, PromiseInv, ThrowT, Running
<1>2. slot' \in [Places -> Objects \cup {Raw}] /\ slot'[Arg] # Raw
      /\ before \in [Opts \cup {Arg} -> Objects \cup {None, Absent}]
  BY <1>1 DEF StageInv, TypeOK
<1>3. CASE r = Arg
  BY <1>2, <1>3, PlacesDiffer DEF Shown
<1>4. CASE r # Arg
  <2>1. r \in Opts /\ r \in Places
    BY <1>4, PlacesDiffer
  <2>2. /\ life[r] # "dying"
        /\ before[r] = Absent <=> life[r] \in Building \cup {"absent"}
        /\ before[r] \in Objects <=> Engaged(r)
    <3>1. KeepsEngagement(r)'
      BY <1>1, <2>1 DEF EngagementInv, Failed, Rebuilt
    <3> QED BY <1>1, <3>1 DEF KeepsEngagement, Engaged, Alive
  <2>3. Engaged(r) => slot'[r] # Raw
    <3>1. AtEnd'
      BY <1>1, WhileRunning DEF StageInv, InProgress
    <3>2. Alive(r)' => Calm(r)'
      BY <1>1, <2>1, <3>1 DEF AtEnd, CalmBut, Alive, Building
    <3> QED BY <1>1, <3>2 DEF Engaged, Alive, Calm, Full, Empty
  <2>4. Shown(r)' = CASE life[r] \in Building \cup {"absent"} -> Absent
                      [] Engaged(r) -> slot'[r]
                      [] OTHER -> None
    BY <1>1, <1>4 DEF Shown, Engaged, Alive, Building
  <2>5. CASE life[r] \in Building \cup {"absent"}
    <3>1. ~Engaged(r) /\ before[r] = Absent
      BY <2>2, <2>5 DEF Engaged, Alive, Building
    <3> QED BY <1>4, <2>2, <2>4, <2>5, <3>1
  <2>6. CASE Engaged(r)
    BY <1>2, <2>1, <2>2, <2>3, <2>4, <2>6 DEF Engaged, Alive, Building
  <2>7. CASE life[r] \notin Building \cup {"absent"} /\ ~Engaged(r)
    BY <1>2, <1>4, <2>1, <2>2, <2>4, <2>7
  <2> QED BY <2>5, <2>6, <2>7
<1> QED BY <1>3, <1>4

(* The objects a call that throws may have touched: the one it gives from, *)
(* if it moves, and the optional it is made on.                            *)
MayTouch == (IF call.how = "move" THEN {Contract!Giver(call, before)} ELSE {})
              \cup (IF call.op = "value_or" THEN {} ELSE {call.o})

(* What a call has not touched is as it was.                               *)
LEMMA ThrownRest ==
    ASSUME IInv, ContractInv, ThrowT(<<>>),
           NEW r \in (Opts \cup {Arg}) \ MayTouch
    PROVE  Shown(r)' = before[r] /\ ~Rebuilt(r)
<1> DEFINE st == Head(todo)
<1>1. /\ TypeOK /\ todo # <<>> /\ busy /\ outcome = "pending"
      /\ st \in Stmts /\ st.do \in Throwers /\ slot' \in Throws(st)
      /\ Planned(st) /\ MayYetThrow
      /\ UNCHANGED <<life, init, call, before>>
  BY TodoParts DEF ThrowT, Running, Throwers, MayYetThrow, IInv, StageInv,
                   ContractInv, PlanInv
<1>2. /\ slot \in [Places -> Objects \cup {Raw}] /\ st.at \in Places
      /\ st.from \in Places /\ call.o \in Opts /\ call.from \in Opts \cup {Arg}
      /\ r \in Places /\ r # Tmp /\ r # Ret
  BY <1>1, PlacesDiffer DEF TypeOK, Stmts
<1> HIDE DEF st
<1>3. \/ Transfers(st) \/ MakesResult(st) \/ Exchanges(st)
  BY <1>1 DEF Planned, KeepsHouse
<1>4. /\ call.op # "value_or" => r # call.o
      /\ call.how = "move" => r # Contract!Giver(call, before)
  BY DEF MayTouch
<1>5. ~Rebuilt(r)
  BY <1>4 DEF Rebuilt, Rebuilders
<1>6. Consumed => call.op \in Converting
  <2>1. SUFFICES ASSUME Consumed PROVE call.op \in Converting
    OBVIOUS
  <2>2. st.from = Tmp
    BY <2>1 DEF Consumed, st
  <2>3. ~Exchanges(st)
    BY <1>2, <2>2, PlacesDiffer, StmtReads DEF Exchanges
  <2>4. ~MakesResult(st)
    BY <1>2, <2>2, PlacesDiffer, StmtReads
       DEF MakesResult, Giver, Contract!Giver
  <2>5. Transfers(st)
    BY <1>3, <2>3, <2>4
  <2> QED BY <1>2, <2>2, <2>5, PlacesDiffer, StmtReads DEF Transfers
<1>7. Shown(r) = before[r]
  <2>1. CASE Consumed /\ r = call.from
    <3>1. call.op # "value_or" /\ call.how # "move"
      BY <1>4, <1>6, <2>1 DEF Converting, Contract!Giver
    <3>2. Contract!Left(call, before, r) = {before[r]}
      BY <3>1 DEF Contract!Left
    <3> QED BY <1>1, <1>5, <3>2 DEF ContractInv, WorkInv
  <2>2. CASE ~(Consumed /\ r = call.from)
    BY <1>1, <1>5, <2>2 DEF ContractInv, WorkInv
  <2> QED BY <2>1, <2>2
<1>8. slot'[r] = slot[r]
  <2>1. r # st.at /\ (r = st.from => st.do \in {"construct", "assign"}
                                     /\ st.how # "move")
    <3>1. CASE Transfers(st)
      <4>1. /\ call.op \in Contract!Transfers /\ call.op # "value_or"
            /\ call.op # "swap"
        BY <3>1 DEF Transfers, Contract!Transfers, Contract!Converting
      <4>2. st.at \in {call.o, Tmp}
        BY <3>1, StmtReads DEF Transfers
      <4>3. \/ st.from = Tmp
            \/ /\ st.from = call.from /\ st.how = call.how
        BY <3>1, StmtReads DEF Transfers
      <4>4. st.do \in {"construct", "assign"}
        BY <3>1, StmtReads DEF Transfers
      <4> QED BY <1>2, <1>4, <4>1, <4>2, <4>3, <4>4 DEF Contract!Giver
    <3>2. CASE MakesResult(st)
      <4>1. st.at = Ret /\ st.from = Contract!Giver(call, before)
            /\ st.how = call.how /\ st.do = "construct"
        BY <3>2, StmtReads DEF MakesResult, Giver
      <4> QED BY <1>2, <1>4, <4>1
    <3>3. CASE Exchanges(st)
      <4>1. st.at \in {call.o, call.from} /\ st.from \in {call.o, call.from}
        BY <3>3, StmtReads DEF Exchanges
      <4>2. call.op = "swap" /\ call.how = "move"
        BY <3>3 DEF Exchanges
      <4> QED BY <1>4, <4>1, <4>2 DEF Contract!Giver
    <3> QED BY <1>3, <3>1, <3>2, <3>3
  <2>2. CASE st.do = "construct"
    <3>1. PICK x \in IF Strong THEN {slot[st.from]} ELSE Leftover(st) :
            slot' = [slot EXCEPT ![st.from] = x, ![st.at] = Raw]
      BY <1>1, <2>2 DEF Throws
    <3>2. st.how # "move" => x = slot[st.from]
      BY <3>1 DEF Leftover
    <3> QED BY <1>2, <2>1, <3>1, <3>2
  <2>3. CASE st.do = "assign" /\ ~Strong
    <3>1. PICK x \in Leftover(st), y \in {slot[st.at], Unspec} :
            slot' = [slot EXCEPT ![st.from] = x, ![st.at] = y]
      BY <1>1, <2>3 DEF Throws
    <3>2. st.how # "move" => x = slot[st.from]
      BY <3>1 DEF Leftover
    <3> QED BY <1>2, <2>1, <3>1, <3>2
  <2>4. CASE st.do = "swap" /\ ~Strong
    <3>1. PICK x, y : slot' = [slot EXCEPT ![st.from] = x, ![st.at] = y]
      BY <1>1, <2>4 DEF Throws
    <3> QED BY <1>2, <2>1, <2>4, <3>1
  <2>5. CASE st.do \in {"assign", "swap"} /\ Strong
    BY <1>1, <2>5 DEF Throws
  <2> QED BY <1>1, <2>2, <2>3, <2>4, <2>5 DEF Throwers
<1>9. Shown(r)' = Shown(r)
  BY <1>1, <1>8 DEF Shown, Engaged, Alive
<1> QED BY <1>5, <1>7, <1>9

(* A call may throw only if there is a value for it to work on.            *)
LEMMA ThrowingPieces ==
    ASSUME IInv, ContractInv, ThrowT(<<>>)
    PROVE  /\ call.op \notin Contract!Emptying \cup {"dtor", "value"}
           /\ call.op = "swap" => \/ before[call.o] \in Objects
                                  \/ before[call.from] \in Objects
           /\ call.op \in Contract!FromOptional \ {"swap"}
                => before[call.from] \in Objects
           /\ Contract!Giver(call, before) = Arg => before[Arg] \in Objects
           /\ Consumed => call.op \notin Rebuilders
<1> DEFINE st == Head(todo)
<1>1. TypeOK /\ todo # <<>> /\ Planned(st) /\ st.do \in Throwers
  BY TodoParts DEF ThrowT, Running, Throwers, IInv, StageInv,
                   ContractInv, PlanInv
<1>2. call.o \in Opts /\ call.from \in Opts \cup {Arg}
  BY <1>1 DEF TypeOK
<1>3. Consumed <=> st.from = Tmp
  BY <1>1 DEF Consumed
<1> HIDE DEF st
<1>4. CASE Transfers(st)
  <2>1. call.op \in Contract!Transfers /\ before[call.from] \in Objects
        /\ (st.from = Tmp => call.op \in Converting)
    BY <1>2, <1>4, PlacesDiffer, StmtReads DEF Transfers, Given
  <2>2. /\ call.op \notin Contract!Emptying \cup {"dtor", "value"}
        /\ call.op # "swap" /\ call.op # "value_or"
        /\ st.from = Tmp => call.op \notin Rebuilders
    BY <2>1 DEF Contract!Transfers, Contract!Converting, Contract!Emptying,
                Converting, Rebuilders
  <2> QED BY <1>3, <2>1, <2>2 DEF Contract!Giver
<1>5. CASE MakesResult(st)
  <2>1. /\ call.op = "value_or"
        /\ before[Contract!Giver(call, before)] \in Objects
    BY <1>5 DEF MakesResult, Giver
  <2>2. call.op \notin Rebuilders
    BY <2>1 DEF Rebuilders
  <2> QED BY <2>1, <2>2 DEF Contract!FromOptional, Contract!Emptying
<1>6. CASE Exchanges(st)
  <2>1. /\ call.op = "swap" /\ call.from \in Opts
        /\ \/ before[call.o] \in Objects
           \/ before[call.from] \in Objects
    BY <1>6, StmtReads DEF Exchanges
  <2>2. call.op \notin Rebuilders /\ Contract!Giver(call, before) # Arg
    BY <2>1, PlacesDiffer DEF Rebuilders, Contract!Giver
  <2> QED BY <2>1, <2>2 DEF Contract!Emptying
<1> QED BY <1>1, <1>4, <1>5, <1>6 DEF Planned, KeepsHouse

(* An operation of T that throws leaves the call with what its exception   *)
(* guarantee allows.                                                       *)
LEMMA ThrowKeepsContract == IInv /\ ContractInv /\ ThrowT(<<>>) => ContractInv'
<1> SUFFICES ASSUME IInv, ContractInv, ThrowT(<<>>) PROVE ContractInv'
  OBVIOUS
<1> DEFINE w == [r \in Opts \cup {Arg} |-> Shown(r)']
           u == Contract!Emptied(call, before)
<1>1. /\ TypeOK /\ StageInv /\ todo # <<>> /\ busy /\ outcome = "pending"
      /\ todo' = <<>> /\ outcome' = "threw" /\ MayYetThrow
      /\ UNCHANGED <<life, init, busy, call, before>>
  BY TodoParts DEF ThrowT, Running, Throwers, MayYetThrow, IInv, StageInv
<1>2. /\ before = [r \in Opts \cup {Arg} |-> before[r]] /\ call.o \in Opts
      /\ call.o # Arg
  BY <1>1, PlacesDiffer DEF TypeOK
<1>3. /\ u = [r \in Opts \cup {Arg} |-> u[r]]
      /\ \A r \in Opts \cup {Arg} :
            u[r] = IF Rebuilt(r) THEN None ELSE before[r]
  BY <1>2 DEF Contract!Emptied, Rebuilt
<1>4. EngagementInv' /\ ValuesInv'
  BY ThrowKeeps DEF IInv, PromiseInv
<1>5. ASSUME NEW r \in Opts \cup {Arg}, Rebuilt(r)
      PROVE  w[r] = None /\ None \notin Objects
  <2>1. r = call.o /\ r \in Opts /\ r # Arg
    BY <1>2, <1>5 DEF Rebuilt
  <2>2. Alive(r)' /\ ~init'[r]
    BY <1>1, <1>4, <1>5, <2>1 DEF EngagementInv, Failed, Rebuilt
  <2>3. Shown(r)' = None
    BY <2>1, <2>2 DEF Shown, Engaged, Alive, Building
  <2> QED BY <2>3, ObjectModelAssumption
<1>6. ASSUME Strong, ~(call.op \in Converting /\ call.how = "move")
      PROVE  w = u
  <2>1. CASE call.op \notin Rebuilders
    <3>1. \A r \in Opts \cup {Arg} : Shown(r)' = before'[r]
      BY <1>1, <1>4, <1>6, <2>1 DEF ValuesInv, Gentle, Failed
    <3> QED BY <1>1, <1>3, <2>1, <3>1 DEF Rebuilt
  <2>2. CASE call.op \in Rebuilders
    <3>1. ~Consumed
      BY <2>2, ThrowingPieces
    <3>2. \A r \in Opts \cup {Arg} : Rebuilt(r) \/ Shown(r) = before[r]
      BY <1>1, <3>1 DEF ContractInv, WorkInv
    <3>3. \A r \in Opts \cup {Arg} : Shown(r)' = Shown(r)
      BY <1>1, <1>6, ThrowHides
    <3>4. \A r \in Opts \cup {Arg} : w[r] = u[r]
      BY <1>3, <1>5, <3>2, <3>3
    <3> QED BY <1>3, <3>4
  <2> QED BY <2>1, <2>2
<1>7. ASSUME NEW r \in (Opts \cup {Arg}) \ MayTouch PROVE w[r] = u[r]
  BY <1>3, <1>7, ThrownRest
<1>8. ASSUME NEW r \in MayTouch
      PROVE  IF u[r] \in Objects THEN w[r] \in Objects ELSE w[r] = u[r]
  <2>1. r \in Opts \cup {Arg}
    BY <1>1, <1>8 DEF MayTouch, Contract!Giver, TypeOK
  <2>2. CASE Rebuilt(r)
    BY <1>3, <1>5, <2>1, <2>2
  <2>3. CASE ~Rebuilt(r)
    <3>1. r = Arg => before[r] \in Objects
      BY <1>2, <1>8, ThrowingPieces DEF MayTouch
    <3> QED BY <1>3, <2>1, <2>3, <3>1, ThrownShape
  <2> QED BY <2>2, <2>3
<1>9. Contract!ThrowsT(call, before, w)
  <2>1. Contract!Objects = Objects /\ Contract!Converting = Converting
    BY DEF Contract!Objects, Objects, Contract!Converting, Converting
  <2> HIDE DEF w, u
  <2> QED BY <1>6, <1>7, <1>8, <2>1, ThrowingPieces
          DEF Contract!ThrowsT, MayTouch, u
<1>10. FailedInv'
  BY <1>1, <1>9 DEF FailedInv
<1>11. PlanInv'
  BY <1>1, PlanKept DEF ContractInv
<1>12. WorkInv' /\ SettledInv'
  BY <1>1 DEF WorkInv, SettledInv
<1> QED BY <1>10, <1>11, <1>12 DEF ContractInv

(* Between calls there is nothing to keep.                                 *)
LEMMA IdleKeepsContract ==
    /\ InitObjects => ContractInv
    /\ IInv /\ Return => ContractInv'
<1>1. ~busy => ContractInv
  BY DEF ContractInv, PlanInv, WorkInv, SettledInv, FailedInv
<1>2. ~busy' => ContractInv'
  BY DEF ContractInv, PlanInv, WorkInv, SettledInv, FailedInv
<1> QED BY <1>1, <1>2 DEF InitObjects, Return

(* The invariant depends on the variables of the object model only.        *)
LEMMA StutterKeepsContract == ContractInv /\ UNCHANGED vars => ContractInv'
<1> SUFFICES ASSUME ContractInv, UNCHANGED vars PROVE ContractInv'
  OBVIOUS
<1>1. /\ life' = life /\ init' = init /\ slot' = slot /\ todo' = todo
      /\ busy' = busy /\ call' = call /\ outcome' = outcome
      /\ before' = before
  BY DEF vars
<1>2. /\ MayYetThrow' <=> MayYetThrow
      /\ Consumed' <=> Consumed
      /\ \A st : Planned(st)' <=> Planned(st)
  BY <1>1, PlanStays DEF MayYetThrow, Consumed
<1>3. \A r : /\ Rebuilt(r)' <=> Rebuilt(r)
             /\ Shown(r)' = Shown(r)
             /\ Coming(r)' = Coming(r)
  BY <1>1 DEF Rebuilt, Shown, Engaged, Alive, Coming, WillBeSet, Remains
<1>4. PlanInv'
  BY <1>1, <1>2 DEF ContractInv, PlanInv
<1>5. WorkInv'
  BY <1>1, <1>2, <1>3 DEF ContractInv, WorkInv
<1>6. SettledInv'
  BY <1>1, <1>2, <1>3 DEF ContractInv, SettledInv
<1>7. FailedInv'
  BY <1>1, <1>3 DEF ContractInv, FailedInv
<1> QED BY <1>4, <1>5, <1>6, <1>7 DEF ContractInv

------------------------------------------------------------------------------
(* When a call is made.                                                    *)

(* The preconditions that the calls of every implementation have.          *)
MayCall(op, o, from) ==
    /\ op \in Contract!Ops
    /\ op \in Contract!Constructors <=> life[o] = "absent"
    /\ op \in Contract!FromOptional => from \in Opts /\ Alive(from)
    /\ op \notin Contract!FromOptional \cup Contract!Emptying
                  \cup {"dtor", "value"} => from = Arg \/ Engaged(from)

(* The call leaves the optional in its lifetime, or starts to build it.    *)
Begins(o) == life'[o] = life[o] \/ (life'[o] \in Building /\ life[o] = "absent")

(* What the caller saw when the call was made.                             *)
LEMMA SeenAtStart ==
    ASSUME NEW op, NEW o \in Opts, NEW from \in Opts \cup {Arg},
           NEW how \in Hows, NEW program \in Seq(Stmts), NEW result,
           Opens(result, op, o, from, how, program)
    PROVE  /\ before'[Arg] = slot'[Arg] /\ before'[Arg] \in Objects
           /\ \A r \in Opts : /\ before'[r] = Absent <=> life[r] = "absent"
                              /\ before'[r] \in Objects <=> Engaged(r)
                              /\ before'[r] = None <=> Alive(r) /\ ~init[r]
                              /\ Engaged(r) => before'[r] = slot'[r]
           /\ Begins(o) => \A r \in Opts \cup {Arg} : Shown(r)' = before'[r]
<1>1. /\ \A r \in Opts : Calm(r)
      /\ init' = init /\ TypeOK'
      /\ before'[Arg] = slot'[Arg] /\ slot'[Arg] # Raw
      /\ \A r \in Opts : slot'[r] = slot[r] /\ before'[r] = Seen[r]
      /\ \A r \in Opts : init[r] => slot[r] \in Objects
      /\ \A r \in Opts \ {o} : life'[r] = life[r]
  BY CallStarts
<1>2. ASSUME NEW r \in Opts
      PROVE  /\ life[r] \in {"absent", "alive"} /\ r # Arg
             /\ life[r] = "absent" => ~init[r]
             /\ before'[r] = IF life[r] = "absent" THEN Absent
                             ELSE IF init[r] THEN slot[r] ELSE None
  <2>1. life[r] \in {"absent", "alive"} /\ r # Arg
        /\ (life[r] = "absent" => ~init[r])
    BY <1>1, PlacesDiffer DEF Calm
  <2> QED BY <1>1, <2>1 DEF Seen
<1>3. before'[Arg] \in Objects
  BY <1>1, PlacesDiffer DEF TypeOK
<1>4. ASSUME NEW r \in Opts
      PROVE  /\ before'[r] = Absent <=> life[r] = "absent"
             /\ before'[r] \in Objects <=> Engaged(r)
             /\ before'[r] = None <=> Alive(r) /\ ~init[r]
             /\ Engaged(r) => before'[r] = slot'[r]
  BY <1>1, <1>2, ObjectModelAssumption DEF Engaged, Alive
<1>5. ASSUME Begins(o), NEW r \in Opts \cup {Arg}
      PROVE  Shown(r)' = before'[r]
  <2>1. CASE r = Arg
    BY <1>1, <2>1 DEF Shown
  <2>2. CASE r # Arg
    <3>1. /\ life'[r] # "dying"
          /\ life[r] = "absent" <=> life'[r] \in Building \cup {"absent"}
          /\ life[r] = "alive" <=> life'[r] = "alive"
        BY <1>1, <1>2, <1>5, <2>2 DEF Begins, Building
    <3> QED BY <1>1, <1>2, <2>2, <3>1 DEF Shown, Engaged, Alive
  <2> QED BY <2>1, <2>2
<1> QED BY <1>1, <1>3, <1>4, <1>5

(* A call that its caller may make, and whose statements do its work, goes *)
(* by the plan.                                                            *)
LEMMA PlanStarts ==
    ASSUME NEW op, NEW o \in Opts, NEW from \in Opts \cup {Arg},
           NEW how \in Hows, NEW program \in Seq(Stmts), NEW result, NEW S,
           Opens(result, op, o, from, how, program), MayCall(op, o, from),
           Within(program, S), \A st \in S : Planned(st)'
    PROVE  PlanInv'
<1>1. /\ todo' = program /\ outcome' = result
      /\ call' = [op |-> op, o |-> o, from |-> from, how |-> how]
      /\ result \in {"pending", "bad_access"}
  BY DEF Opens, BeginWith
<1>2. call' \in Contract!Calls
  BY <1>1 DEF MayCall, Contract!Calls, Contract!Hows, Hows
<1>3. Contract!Allowed(call', before')
  <2>1. \A r \in Opts : r \in Contract!InLife(before') <=> life[r] # "absent"
    BY SeenAtStart DEF Contract!InLife
  <2>2. from = Arg \/ (from \in Opts /\ Engaged(from)) => before'[from] \in Objects
    BY SeenAtStart
  <2>3. /\ call'.op = op /\ call'.o = o /\ call'.from = from
    BY <1>1
  <2>4. op \in Contract!FromOptional => from \in Contract!InLife(before')
    BY <2>1 DEF MayCall, Alive
  <2>5. op \notin Contract!FromOptional \cup Contract!Emptying
                 \cup {"dtor", "value"} => before'[from] \in Contract!Objects
    BY <2>2 DEF MayCall, Contract!Objects, Objects
  <2>6. o \in Contract!InLife(before') <=> op \notin Contract!Constructors
    BY <2>1 DEF MayCall
  <2> QED BY <2>3, <2>4, <2>5, <2>6 DEF Contract!Allowed
<1>4. \A i \in DOMAIN program : Planned(program[i])'
  BY DEF Within
<1>5. (\A i \in DOMAIN todo : Planned(todo[i]))'
  BY <1>1, <1>4
<1> QED BY <1>1, <1>2, <1>3, <1>5 DEF PlanInv

(* If one of the statements may throw, the call satisfies the whole        *)
(* invariant: nothing that the caller can see has changed.                 *)
LEMMA WorkPromised ==
    ASSUME NEW op, NEW o \in Opts, NEW from \in Opts \cup {Arg},
           NEW how \in Hows, NEW program \in Seq(Stmts), NEW S,
           Opens("pending", op, o, from, how, program), MayCall(op, o, from),
           Within(program, S), \A st \in S : Planned(st)', Begins(o),
           \E i \in DOMAIN program : program[i].do \in Throwers,
           Head(program).from # Tmp
    PROVE  ContractInv'
<1>1. PlanInv'
  BY PlanStarts
<1>2. /\ todo' = program /\ outcome' = "pending" /\ slot'[Ret] = Raw
  BY CallStarts
<1>3. MayYetThrow' /\ ~Consumed'
  BY <1>2 DEF MayYetThrow, Consumed
<1>4. \A r \in Opts \cup {Arg} : Shown(r)' = before'[r]
  BY SeenAtStart
<1>5. WorkInv'
  BY <1>2, <1>3, <1>4 DEF WorkInv
<1> QED BY <1>1, <1>2, <1>3, <1>5 DEF ContractInv, SettledInv, FailedInv

(* The calls that hand on a value without a temporary.                     *)
LEMMA TransferPromised ==
    ASSUME NEW op \in Contract!Transfers, NEW o \in Opts,
           NEW s \in Opts \cup {Arg}, NEW how \in Hows,
           NEW program \in Seq(Stmts),
           Opens("pending", op, o, s, how, program), MayCall(op, o, s),
           s = Arg \/ Engaged(s), Begins(o),
           \/ Within(program, {Construct(o, s, how), Engage(o), Destroy(o),
                               Disengage(o)})
           \/ program = <<AssignT(o, s, how)>> /\ op \notin Rebuilders,
           \E i \in DOMAIN program : program[i].do \in Throwers
    PROVE  ContractInv'
<1>1. /\ call'.op = op /\ call'.o = o /\ call'.from = s /\ call'.how = how
  BY CallStarts
<1>2. Given'
  <2>1. before'[s] \in Objects
    BY SeenAtStart
  <2> QED BY <1>1, <2>1 DEF Given
<1>3. s # Tmp /\ o # Tmp
  BY PlacesDiffer
<1>4. Planned(Construct(o, s, how))'
  BY <1>1, <1>2 DEF Planned, Transfers
<1>5. op \notin Rebuilders => Planned(AssignT(o, s, how))'
  BY <1>1, <1>2 DEF Planned, Transfers
<1>6. Planned(Engage(o))' /\ Planned(Destroy(o))' /\ Planned(Disengage(o))'
  BY <1>1, StmtFields DEF Planned, KeepsHouse, Throwers
<1>7. /\ Construct(o, s, how).from = s /\ AssignT(o, s, how).from = s
      /\ Engage(o).from = o /\ Destroy(o).from = o /\ Disengage(o).from = o
  BY StmtReads
<1>8. program # <<>> /\ Head(program) = program[1] /\ 1 \in DOMAIN program
  OBVIOUS
<1>9. CASE Within(program, {Construct(o, s, how), Engage(o), Destroy(o),
                            Disengage(o)})
  <2>1. Head(program).from # Tmp
    BY <1>3, <1>7, <1>8, <1>9 DEF Within
  <2> QED BY <1>4, <1>6, <1>9, <2>1, WorkPromised
<1>10. CASE program = <<AssignT(o, s, how)>> /\ op \notin Rebuilders
  <2>1. Within(program, {AssignT(o, s, how)})
    BY <1>10, WithinTuple
  <2>2. Head(program).from # Tmp
    BY <1>3, <1>7, <1>10, HeadsAndTails
  <2> QED BY <1>5, <1>10, <2>1, <2>2, WorkPromised
<1> QED BY <1>9, <1>10

(* The calls that convert the value to a temporary first.                  *)
LEMMA ConversionPromised ==
    ASSUME NEW op \in Converting, NEW o \in Opts, NEW s \in Opts \cup {Arg},
           NEW how \in Hows, NEW program \in Seq(Stmts),
           Opens("pending", op, o, s, how, program), MayCall(op, o, s),
           s = Arg \/ Engaged(s), Begins(o),
           \/ program = <<Construct(Tmp, s, how), AssignT(o, Tmp, "move")>>
           \/ program = <<Construct(Tmp, s, how), Construct(o, Tmp, "move"),
                          Engage(o)>>
    PROVE  ContractInv'
<1>1. /\ call'.op = op /\ call'.o = o /\ call'.from = s /\ call'.how = how
  BY CallStarts
<1>2. Given'
  <2>1. before'[s] \in Objects
    BY SeenAtStart
  <2> QED BY <1>1, <2>1 DEF Given
<1>3. s # Tmp /\ op \in Contract!Transfers
  BY PlacesDiffer DEF Converting, Contract!Transfers, Contract!Converting
<1>4. Planned(Construct(Tmp, s, how))' /\ Planned(Construct(o, Tmp, "move"))'
      /\ Planned(AssignT(o, Tmp, "move"))'
  BY <1>1, <1>2, <1>3 DEF Planned, Transfers
<1>5. Planned(Engage(o))'
  BY <1>1, StmtFields DEF Planned, KeepsHouse, Throwers
<1>6. /\ Construct(Tmp, s, how).from = s
      /\ Construct(Tmp, s, how).do \in Throwers
  BY StmtReads DEF Throwers
<1>7. CASE program = <<Construct(Tmp, s, how), AssignT(o, Tmp, "move")>>
  <2>1. Within(program, {Construct(Tmp, s, how), AssignT(o, Tmp, "move")})
    BY <1>7, WithinTuple
  <2>2. Head(program) = Construct(Tmp, s, how)
    BY <1>7, HeadsAndTails
  <2>3. 1 \in DOMAIN program /\ program[1] = Construct(Tmp, s, how)
    BY <1>7
  <2> QED BY <1>3, <1>4, <1>6, <2>1, <2>2, <2>3, WorkPromised
<1>8. CASE program = <<Construct(Tmp, s, how), Construct(o, Tmp, "move"),
                       Engage(o)>>
  <2>1. Within(program, {Construct(Tmp, s, how), Construct(o, Tmp, "move"),
                         Engage(o)})
    BY <1>8, WithinTuple
  <2>2. Head(program) = Construct(Tmp, s, how)
    BY <1>8, HeadsAndTails
  <2>3. 1 \in DOMAIN program /\ program[1] = Construct(Tmp, s, how)
    BY <1>8
  <2> QED BY <1>3, <1>4, <1>5, <1>6, <2>1, <2>2, <2>3, WorkPromised
<1> QED BY <1>7, <1>8

(* swap, of two optionals with a value, and of one that hands it over.     *)
LEMMA ExchangePromised ==
    ASSUME NEW o \in Opts, NEW q \in Opts, NEW program \in Seq(Stmts),
           Opens("pending", "swap", o, q, "move", program),
           MayCall("swap", o, q), life'[o] = life[o],
           NEW taker \in {o, q}, NEW giver \in {o, q}, Engaged(giver),
           \/ program = <<SwapT(o, q)>> /\ Engaged(o) /\ Engaged(q)
           \/ /\ Alive(taker) /\ ~init[taker]
              /\ program = <<Construct(taker, giver, "move"), Engage(taker),
                             Destroy(giver), Disengage(giver)>>
           \/ /\ Alive(taker) /\ ~init[taker]
              /\ program = <<Construct(taker, giver, "move"), Engage(taker),
                             Disengage(giver)>>
    PROVE  ContractInv'
<1>1. /\ call'.op = "swap" /\ call'.o = o /\ call'.from = q
      /\ call'.how = "move" /\ "move" \in Hows
  BY CallStarts DEF Hows
<1>2. o # Tmp /\ q # Tmp /\ Begins(o)
  BY PlacesDiffer DEF Begins
<1>3. ASSUME NEW p \in {o, q}
      PROVE  Planned(Engage(p))' /\ Planned(Destroy(p))' /\ Planned(Disengage(p))'
  <2>1. \A st \in {Engage(p), Destroy(p), Disengage(p)} :
           st.at = p /\ st.do \notin Throwers
    <3>1. /\ Engage(p).at = p /\ Engage(p).do = "engage"
          /\ Destroy(p).at = p /\ Destroy(p).do = "destroy"
          /\ Disengage(p).at = p /\ Disengage(p).do = "disengage"
      BY StmtFields
    <3> QED BY <3>1 DEF Throwers
  <2>2. ASSUME NEW st \in {Engage(p), Destroy(p), Disengage(p)}
        PROVE  Planned(st)'
    BY <1>1, <2>1 DEF Planned, KeepsHouse
  <2> QED BY <2>2
<1>a. CASE program = <<SwapT(o, q)>> /\ Engaged(o) /\ Engaged(q)
  <2>1. before'[o] \in Objects /\ before'[q] \in Objects
    BY <1>1, <1>a, SeenAtStart
  <2>2. Planned(SwapT(o, q))'
    BY <1>1, <2>1 DEF Planned, Exchanges, Given
  <2>3. Within(program, {SwapT(o, q)})
    BY <1>a, WithinTuple
  <2>4. /\ Head(program).from # Tmp
        /\ 1 \in DOMAIN program /\ program[1].do \in Throwers
    BY <1>2, <1>a, StmtReads DEF Throwers
  <2> QED BY <1>1, <1>2, <2>2, <2>3, <2>4, WorkPromised
<1>b. CASE /\ Alive(taker) /\ ~init[taker]
           /\ program = <<Construct(taker, giver, "move"), Engage(taker),
                          Destroy(giver), Disengage(giver)>>
               \/ program = <<Construct(taker, giver, "move"), Engage(taker),
                              Disengage(giver)>>
  <2> DEFINE st == Construct(taker, giver, "move")
  <2>1. /\ before'[giver] \in Objects /\ before'[taker] = None
        /\ taker # giver
    BY <1>1, <1>b, SeenAtStart DEF Engaged
  <2>2. /\ st.at = taker /\ st.from = giver /\ st.do \in Throwers
    BY StmtReads DEF Throwers
  <2>3. Planned(st)'
    <3>1. st \in {Construct(o, q, "move"), Construct(q, o, "move")}
      BY <2>1
    <3> HIDE DEF st
    <3> QED BY <1>1, <2>1, <2>2, <3>1 DEF Planned, Exchanges
  <2> HIDE DEF st
  <2>4. /\ Head(program).from # Tmp
        /\ 1 \in DOMAIN program /\ program[1].do \in Throwers
    BY <1>2, <1>b, <2>2 DEF st
  <2>5. Within(program, {st, Engage(taker), Destroy(giver), Disengage(giver)})
    <3>1. CASE program = <<st, Engage(taker), Destroy(giver), Disengage(giver)>>
      BY <3>1, WithinTuple
    <3>2. CASE program = <<st, Engage(taker), Disengage(giver)>>
      <4>1. Within(program, {st, Engage(taker), Disengage(giver)})
        BY <3>2, WithinTuple
      <4> QED BY <4>1 DEF Within
    <3> QED BY <1>b, <3>1, <3>2 DEF st
  <2> QED BY <1>1, <1>2, <1>3, <2>3, <2>4, <2>5, WorkPromised
<1> QED BY <1>a, <1>b

(* value_or, of its own value or of the one it is given.                   *)
LEMMA ResultPromised ==
    ASSUME NEW o \in Opts, NEW s \in Opts \cup {Arg}, NEW how \in Hows,
           NEW t \in Opts \cup {Arg}, t = IF init[o] THEN o ELSE s,
           Opens("pending", "value_or", o, s, how, <<Construct(Ret, t, how)>>),
           MayCall("value_or", o, s), Alive(o), life'[o] = life[o],
           s = Arg \/ Engaged(s)
    PROVE  ContractInv'
<1> DEFINE program == <<Construct(Ret, t, how)>>
<1>1. program \in Seq(Stmts) /\ Opens("pending", "value_or", o, s, how, program)
  BY StmtTypes, TuplesAreSeqs, PlacesDiffer
<1>2. Within(program, {Construct(Ret, t, how)}) /\ Begins(o)
  BY WithinTuple DEF Begins
<1>3. /\ Head(program).from # Tmp
      /\ 1 \in DOMAIN program /\ program[1].do \in Throwers
  BY StmtReads, PlacesDiffer DEF Throwers
<1> HIDE DEF program
<1>4. /\ call'.op = "value_or" /\ call'.o = o /\ call'.from = s
      /\ call'.how = how
  BY <1>1 DEF Opens, BeginWith
<1>5. /\ before'[o] = None <=> ~init[o]
      /\ before'[t] \in Objects
  BY <1>1, SeenAtStart DEF Engaged
<1>6. t = Contract!Giver(call', before')
  BY <1>4, <1>5 DEF Contract!Giver
<1>7. Planned(Construct(Ret, t, how))'
  BY <1>4, <1>5, <1>6 DEF Planned, MakesResult, Giver
<1> QED BY <1>1, <1>7, <1>2, <1>3, WorkPromised

(* The calls that only take values away, or do nothing.                    *)
LEMMA QuietPromised ==
    ASSUME NEW op, NEW o \in Opts, NEW from \in Opts \cup {Arg},
           NEW how \in Hows, NEW program \in Seq(Stmts),
           Opens("pending", op, o, from, how, program), MayCall(op, o, from),
           Within(program, {Destroy(o), Disengage(o)}),
           \/ Begins(o) /\ life'[o] # "absent" /\ op # "dtor"
           \/ life'[o] = "dying" /\ op = "dtor",
           \/ op \in Contract!Emptying
           \/ op \in Contract!FromOptional \ {"swap"} /\ ~init[from]
           \/ op = "dtor"
           \/ op = "swap" /\ ~init[o] /\ ~init[from]
           \/ op = "value" /\ init[o] /\ program = <<>>,
           (op \notin {"dtor", "value"} /\ init[o])
              => \E i \in DOMAIN program : program[i] = Disengage(o)
    PROVE  ContractInv'
<1> DEFINE w == [r \in Opts \cup {Arg} |-> Coming(r)']
<1>1. /\ call'.op = op /\ call'.o = o /\ call'.from = from
      /\ todo' = program /\ outcome' = "pending" /\ slot'[Ret] = Raw
      /\ init' = init /\ TypeOK'
      /\ \A r \in Opts : Calm(r)
      /\ \A r \in Opts : slot'[r] = slot[r]
      /\ \A r \in Opts \ {o} : life'[r] = life[r]
  BY CallStarts
<1>2. /\ before'[Arg] = slot'[Arg] /\ before'[Arg] \in Objects
      /\ \A r \in Opts : /\ before'[r] = Absent <=> life[r] = "absent"
                         /\ before'[r] \in Objects <=> Engaged(r)
                         /\ before'[r] = None <=> Alive(r) /\ ~init[r]
                         /\ Engaged(r) => before'[r] = slot'[r]
  BY SeenAtStart
<1>3. PlanInv'
  <2>1. Planned(Destroy(o))' /\ Planned(Disengage(o))'
    BY <1>1, StmtFields DEF Planned, KeepsHouse, Throwers
  <2> QED BY <2>1, PlanStarts
<1>4. ~MayYetThrow'
  <2>1. Destroy(o).do \notin Throwers /\ Disengage(o).do \notin Throwers
    BY StmtFields DEF Throwers
  <2> QED BY <1>1, <2>1 DEF MayYetThrow, Within
<1>5. /\ \A r \in Opts : ~Remains(Engage(r))'
      /\ \A r \in Opts \ {o} : ~Remains(Disengage(r))'
      /\ Remains(Disengage(o))' <=>
            \E i \in DOMAIN program : program[i] = Disengage(o)
  <2>1. \A r \in Opts : /\ Engage(r) \notin {Destroy(o), Disengage(o)}
                        /\ r # o => Disengage(r) \notin {Destroy(o), Disengage(o)}
    BY FlagStmtsDiffer
  <2> QED BY <1>1, <2>1 DEF Remains, Within
<1>6. ASSUME NEW r \in (Opts \cup {Arg}) \ {o} PROVE w[r] = before'[r]
  <2>1. CASE r = Arg
    BY <1>2, <2>1 DEF Coming
  <2>2. CASE r \in Opts /\ life[r] = "absent"
    BY <1>1, <1>2, <1>6, <2>2, PlacesDiffer DEF Coming
  <2>3. CASE r \in Opts /\ life[r] = "alive"
    <3>1. WillBeSet(r)' <=> init[r]
      BY <1>1, <1>5, <1>6, <2>3 DEF WillBeSet
    <3>2. Coming(r)' = IF init[r] THEN slot'[r] ELSE None
      BY <1>1, <1>6, <2>3, <3>1, PlacesDiffer DEF Coming
    <3> QED BY <1>2, <2>3, <3>2 DEF Engaged, Alive
  <2>4. r \in Opts => life[r] \in {"absent", "alive"}
    BY <1>1 DEF Calm
  <2> QED BY <2>1, <2>2, <2>3, <2>4
<1>7. ASSUME op \notin {"dtor", "value"} PROVE w[o] = None
  <2>1. o # Arg /\ life'[o] \notin {"absent", "dying"}
    <3>1. life[o] \in {"absent", "alive"}
      BY <1>1 DEF Calm
    <3> QED BY <1>7, <3>1, PlacesDiffer DEF Begins, Building
  <2>2. ~WillBeSet(o)'
    BY <1>1, <1>5, <1>7 DEF WillBeSet
  <2> QED BY <2>1, <2>2 DEF Coming
<1>8. op = "dtor" => w[o] = Absent
  BY PlacesDiffer DEF Coming
<1>9. op = "value" => w[o] = before'[o] /\ before'[o] # None
  <2>1. SUFFICES ASSUME op = "value"
                 PROVE  w[o] = before'[o] /\ before'[o] # None
    OBVIOUS
  <2>2. init[o] /\ program = <<>>
    BY <2>1 DEF Contract!Emptying, Contract!FromOptional
  <2>3. life[o] = "alive" /\ life'[o] = "alive"
    BY <1>1, <2>1, <2>2 DEF Calm, Begins
  <2>4. WillBeSet(o)'
    BY <1>1, <1>5, <2>2 DEF WillBeSet
  <2>5. Coming(o)' = slot'[o]
    BY <2>3, <2>4, PlacesDiffer DEF Coming
  <2> QED BY <1>2, <2>2, <2>3, <2>5 DEF Engaged, Alive
<1>10. /\ w = [r \in Opts \cup {Arg} |-> w[r]]
       /\ before' = [r \in Opts \cup {Arg} |-> before'[r]]
  BY <1>1 DEF TypeOK
<1> HIDE DEF w
<1>11. Contract!Returns(call', before', w) /\ op # "value_or"
  <2>1. CASE op \in Contract!Emptying
    <3>1. w = [before' EXCEPT ![o] = None] /\ op \notin {"dtor", "value"}
          /\ op # "value_or"
      BY <1>6, <1>7, <1>10, <2>1 DEF Contract!Emptying
    <3> QED BY <1>1, <2>1, <3>1 DEF Contract!Returns
  <2>2. CASE op \in Contract!FromOptional \ {"swap"} /\ ~init[from]
    <3>1. /\ from \in Opts /\ before'[from] = None
      BY <1>2, <2>2 DEF MayCall
    <3>2. /\ op \in Contract!Transfers /\ op \notin Rebuilders
          /\ op \notin {"dtor", "value"} /\ op # "value_or"
      BY <2>2 DEF Contract!FromOptional, Contract!Transfers,
                  Contract!Converting, Rebuilders
    <3>3. w = [before' EXCEPT ![o] = before'[from], ![from] = None]
      BY <1>6, <1>7, <1>10, <3>1, <3>2
    <3>4. None \in Contract!Left(call', before', from)
      <4>1. None \notin Contract!Objects
        BY ObjectModelAssumption DEF Contract!Objects, Objects
      <4> QED BY <3>1, <4>1 DEF Contract!Left
    <3> QED BY <1>1, <3>2, <3>3, <3>4 DEF Contract!Returns
  <2>3. CASE op = "dtor"
    <3>1. w = [before' EXCEPT ![o] = Absent]
      BY <1>6, <1>8, <1>10, <2>3
    <3> QED BY <1>1, <2>3, <3>1 DEF Contract!Returns
  <2>4. CASE op = "swap" /\ ~init[o] /\ ~init[from]
    <3>1. /\ from \in Opts /\ before'[from] = None
      BY <1>2, <2>4 DEF MayCall, Contract!FromOptional
    <3>2. before'[o] = None
      <4>1. life[o] = "alive"
        BY <1>1, <2>4 DEF MayCall, Calm, Contract!Constructors
      <4> QED BY <1>2, <2>4, <4>1 DEF Alive
    <3>3. w = [before' EXCEPT ![o] = before'[from], ![from] = before'[o]]
      BY <1>6, <1>7, <1>10, <2>4, <3>1, <3>2
    <3> QED BY <1>1, <2>4, <3>3 DEF Contract!Returns
  <2>5. CASE op = "value" /\ init[o] /\ program = <<>>
    <3>1. w = before'
      BY <1>6, <1>9, <1>10, <2>5
    <3> QED BY <1>1, <1>9, <2>5, <3>1 DEF Contract!Returns
  <2> QED BY <2>1, <2>2, <2>3, <2>4, <2>5
<1>12. Contract!Result(call', before') = Raw
  BY <1>1, <1>11 DEF Contract!Result
<1>13. SettledInv'
  <2>1. Contract!Returns(call', before', [r \in Opts \cup {Arg} |-> Coming(r)'])
    BY <1>11 DEF w
  <2> QED BY <1>1, <1>12, <2>1 DEF SettledInv
<1>14. WorkInv' /\ FailedInv'
  BY <1>1, <1>4 DEF WorkInv, FailedInv
<1> QED BY <1>3, <1>13, <1>14 DEF ContractInv

(* value() of an optional without a value.                                 *)
LEMMA BadAccessPromised ==
    ASSUME NEW o \in Opts, Opens("bad_access", "value", o, o, "copy", <<>>),
           MayCall("value", o, o), Alive(o), ~init[o], life'[o] = life[o]
    PROVE  ContractInv'
<1> DEFINE program == <<>>
<1>1. /\ "copy" \in Hows /\ program \in Seq(Stmts) /\ o \in Opts \cup {Arg}
      /\ Opens("bad_access", "value", o, o, "copy", program)
      /\ Within(program, {}) /\ Begins(o)
  BY DEF Hows, Begins, Within
<1> HIDE DEF program
<1>2. /\ call'.op = "value" /\ call'.o = o /\ outcome' = "bad_access"
      /\ before'[o] = None
      /\ \A r \in Opts \cup {Arg} : Shown(r)' = before'[r]
  <2>1. /\ before'[o] = None
        /\ \A r \in Opts \cup {Arg} : Shown(r)' = before'[r]
    BY <1>1, SeenAtStart
  <2> QED BY <1>1, <2>1, CallStarts
<1>3. PlanInv'
  BY <1>1, PlanStarts
<1> QED BY <1>2, <1>3 DEF ContractInv, WorkInv, SettledInv, FailedInv

------------------------------------------------------------------------------
(* The calls that may be made on an optional, in its lifetime or to build  *)
(* it.                                                                     *)
LEMMA MayBeMade ==
    ASSUME NEW o \in Opts, Alive(o)
    PROVE  /\ MayCall("reset", o, o) /\ MayCall("dtor", o, o)
           /\ MayCall("value", o, o)
           /\ \A p \in Opts : Alive(p) =>
                 /\ MayCall("assign_optional", o, p)
                 /\ MayCall("assign_converting", o, p)
                 /\ MayCall("swap", o, p)
           /\ \A s \in Sources :
                 /\ MayCall("assign_value", o, s) /\ MayCall("assign_expr", o, s)
                 /\ MayCall("value_or", o, s)
                 /\ \A op \in Rebuilders : MayCall(op, o, s)
<1>1. \A s \in Sources : s = Arg \/ Engaged(s)
  BY SourceIs
<1> QED BY <1>1 DEF MayCall, Alive, Rebuilders, Contract!Ops,
           Contract!Constructors, Contract!FromOptional, Contract!Emptying,
           Contract!Transfers, Contract!Converting

LEMMA MayBeBuilt ==
    ASSUME NEW o \in Opts, life[o] = "absent"
    PROVE  /\ MayCall("default_ctor", o, o)
           /\ \A p \in Opts : Alive(p) => /\ MayCall("copy_ctor", o, p)
                                          /\ MayCall("convert_ctor", o, p)
           /\ \A s \in Sources : /\ MayCall("value_ctor", o, s)
                                 /\ MayCall("factory_ctor", o, s)
                                 /\ MayCall("ctor_if_true", o, s)
                                 /\ MayCall("ctor_if_false", o, s)
<1>1. \A s \in Sources : s = Arg \/ Engaged(s)
  BY SourceIs
<1> QED BY <1>1 DEF MayCall, Contract!Ops, Contract!Constructors,
           Contract!FromOptional, Contract!Emptying, Contract!Transfers,
           Contract!Converting

(* The calls that hand on a value may be any but these.                    *)
LEMMA TransfersAre ==
    /\ Contract!Transfers \subseteq CallOps \ {"swap"}
    /\ Rebuilders \subseteq Contract!Transfers
    /\ Converting \subseteq Contract!Transfers \ Rebuilders
    /\ {"value_ctor", "ctor_if_true", "factory_ctor", "copy_ctor",
        "assign_optional", "assign_value"}
         \subseteq Contract!Transfers \ Rebuilders
  BY DEF Contract!Transfers, Contract!Converting, Converting, CallOps,
         Rebuilders

(* The starts of calls that ProgramInv_proofs lists satisfy both           *)
(* invariants, when the call is one that the contract knows.  First, a     *)
(* call that only has to construct and engage its optional.                *)
LEMMA InitBegins ==
    ASSUME NEW op \in Contract!Transfers, NEW o \in Opts,
           NEW s \in Opts \cup {Arg}, NEW how \in Hows,
           Opens("pending", op, o, s, how, <<Construct(o, s, how), Engage(o)>>),
           MayCall(op, o, s), s = Arg \/ Engaged(s),
           \/ life'[o] = life[o] /\ Alive(o) /\ ~init[o]
           \/ /\ life'[o] \in Building /\ life[o] = "absent"
              /\ op \notin Rebuilders
    PROVE  IInv' /\ ContractInv'
<1> DEFINE program == <<Construct(o, s, how), Engage(o)>>
<1>1. program \in Seq(Stmts) /\ Begins(o) /\ op # "swap"
  BY StmtTypes, TuplesAreSeqs, PlacesDiffer, TransfersAre DEF Begins
<1>2. IInv'
  BY <1>1, InitStarts
<1>3. Within(program, {Construct(o, s, how), Engage(o)})
  BY WithinTuple
<1>4. Within(program, {Construct(o, s, how), Engage(o), Destroy(o),
                       Disengage(o)})
  BY <1>3 DEF Within
<1>5. \E i \in DOMAIN program : program[i].do \in Throwers
  <2>1. 1 \in DOMAIN program /\ program[1].do \in Throwers
    BY StmtReads DEF Throwers
  <2> QED BY <2>1
<1> HIDE DEF program
<1>6. Opens("pending", op, o, s, how, program)
  BY DEF program
<1>7. ContractInv'
  BY <1>1, <1>4, <1>5, <1>6, TransferPromised
<1> QED BY <1>2, <1>7

(* A constructor whose storage is initialized from a value.                *)
LEMMA DirectBegins ==
    ASSUME NEW op \in Contract!Transfers, NEW o \in Opts,
           NEW s \in Opts \cup {Arg}, NEW how \in Hows,
           Opens("pending", op, o, s, how, <<Engage(o), Construct(o, s, how)>>),
           MayCall(op, o, s), op \notin Rebuilders, s = Arg \/ Engaged(s),
           life[o] = "absent", life'[o] = "storage"
    PROVE  IInv' /\ ContractInv'
<1> DEFINE program == <<Engage(o), Construct(o, s, how)>>
<1>1. program \in Seq(Stmts) /\ Begins(o)
  BY StmtTypes, TuplesAreSeqs, PlacesDiffer DEF Begins, Building
<1>2. IInv'
  BY DirectStarts
<1>3. Within(program, {Engage(o), Construct(o, s, how)})
  BY WithinTuple
<1>4. Within(program, {Construct(o, s, how), Engage(o), Destroy(o),
                       Disengage(o)})
  BY <1>3 DEF Within
<1>5. 2 \in DOMAIN program /\ program[2].do \in Throwers
  BY StmtReads DEF Throwers
<1> HIDE DEF program
<1>6. Opens("pending", op, o, s, how, program)
  BY DEF program
<1> QED BY <1>1, <1>2, <1>4, <1>5, <1>6, TransferPromised

(* A call that has to disengage its optional and then engage it anew.      *)
LEMMA RebuildBegins ==
    ASSUME NEW op \in Rebuilders, NEW o \in Opts, NEW s \in Opts \cup {Arg},
           NEW how \in Hows, NEW program \in Seq(Stmts),
           Opens("pending", op, o, s, how, program), MayCall(op, o, s),
           Alive(o), life'[o] = life[o], s = Arg \/ Engaged(s),
           \/ /\ init[o]
              /\ program = <<Destroy(o), Disengage(o),
                             Construct(o, s, how), Engage(o)>>
           \/ /\ Trivial
              /\ program = <<Disengage(o), Construct(o, s, how), Engage(o)>>
    PROVE  IInv' /\ ContractInv'
<1>1. op \in Contract!Transfers /\ Begins(o)
  BY TransfersAre DEF Begins
<1>2. IInv'
  BY RebuildStarts
<1>3. Within(program, {Construct(o, s, how), Engage(o), Destroy(o),
                       Disengage(o)})
  <2>1. CASE program = <<Destroy(o), Disengage(o), Construct(o, s, how),
                         Engage(o)>>
    <3>1. Within(program, {Destroy(o), Disengage(o), Construct(o, s, how),
                           Engage(o)})
      BY <2>1, WithinTuple
    <3> QED BY <3>1 DEF Within
  <2>2. CASE program = <<Disengage(o), Construct(o, s, how), Engage(o)>>
    <3>1. Within(program, {Disengage(o), Construct(o, s, how), Engage(o)})
      BY <2>2, WithinTuple
    <3> QED BY <3>1 DEF Within
  <2> QED BY <2>1, <2>2
<1>4. \E i \in DOMAIN program : program[i].do \in Throwers
  <2>1. Construct(o, s, how).do \in Throwers
    BY StmtReads DEF Throwers
  <2>2. CASE program = <<Destroy(o), Disengage(o), Construct(o, s, how),
                         Engage(o)>>
    <3>1. 3 \in DOMAIN program /\ program[3] = Construct(o, s, how)
      BY <2>2
    <3> QED BY <2>1, <3>1
  <2>3. CASE program = <<Disengage(o), Construct(o, s, how), Engage(o)>>
    <3>1. 2 \in DOMAIN program /\ program[2] = Construct(o, s, how)
      BY <2>3
    <3> QED BY <2>1, <3>1
  <2> QED BY <2>2, <2>3
<1>5. ContractInv'
  BY <1>1, <1>3, <1>4, TransferPromised
<1> QED BY <1>2, <1>5

(* An assignment between two Ts, and a swap of two Ts.                     *)
LEMMA AssignBegins ==
    ASSUME NEW op \in Contract!Transfers, NEW o \in Opts,
           NEW s \in Opts \cup {Arg}, NEW how \in Hows,
           Opens("pending", op, o, s, how, <<AssignT(o, s, how)>>),
           MayCall(op, o, s), op \notin Rebuilders,
           Alive(o), init[o], life'[o] = life[o], s = Arg \/ Engaged(s)
    PROVE  IInv' /\ ContractInv'
<1> DEFINE program == <<AssignT(o, s, how)>>
<1>1. program \in Seq(Stmts) /\ Begins(o)
  BY StmtTypes, TuplesAreSeqs, PlacesDiffer DEF Begins
<1>2. 1 \in DOMAIN program /\ program[1].do \in Throwers
  BY StmtReads DEF Throwers
<1>3. IInv'
  BY <1>1, AssignStarts
<1>4. program = <<AssignT(o, s, how)>>
      /\ Opens("pending", op, o, s, how, program)
  OBVIOUS
<1> HIDE DEF program
<1> QED BY <1>1, <1>2, <1>3, <1>4, TransferPromised

LEMMA SwapBegins ==
    ASSUME NEW o \in Opts, NEW p \in Opts,
           Opens("pending", "swap", o, p, "move", <<SwapT(o, p)>>),
           MayCall("swap", o, p), Engaged(o), Engaged(p), life'[o] = life[o]
    PROVE  IInv' /\ ContractInv'
<1> DEFINE program == <<SwapT(o, p)>>
<1>1. program \in Seq(Stmts) /\ "move" \in Hows
  BY StmtTypes, TuplesAreSeqs, PlacesDiffer DEF Hows
<1>2. program = <<SwapT(o, p)>> /\ Opens("pending", "swap", o, p, "move", program)
  OBVIOUS
<1> HIDE DEF program
<1>3. IInv'
  <2>1. "swap" \notin Rebuilders /\ Alive(o) /\ init[o] /\ p \in Opts \cup {Arg}
    BY DEF Rebuilders, Engaged
  <2> QED BY <1>1, <1>2, <2>1, AssignStarts
<1> QED BY <1>1, <1>2, <1>3, ExchangePromised

(* A swap that moves the value of one optional, giver, to the other.       *)
LEMMA HandOverBegins ==
    ASSUME NEW o \in Opts, NEW p \in Opts, NEW program \in Seq(Stmts),
           NEW taker \in {o, p}, NEW giver \in {o, p},
           Opens("pending", "swap", o, p, "move", program),
           MayCall("swap", o, p),
           life'[o] = life[o], Alive(taker), ~init[taker],
           Alive(giver), init[giver],
           \/ program = <<Construct(taker, giver, "move"), Engage(taker),
                          Destroy(giver), Disengage(giver)>>
           \/ /\ Trivial
              /\ program = <<Construct(taker, giver, "move"), Engage(taker),
                             Disengage(giver)>>
    PROVE  IInv' /\ ContractInv'
<1>1. "move" \in Hows /\ Engaged(giver)
  BY DEF Hows, Engaged
<1>2. IInv'
  BY <1>1, HandOverStarts
<1> QED BY <1>1, <1>2, ExchangePromised

(* A call that first converts its argument to a temporary T.               *)
LEMMA ConvertBegins ==
    ASSUME NEW op \in Converting, NEW o \in Opts, NEW s \in Opts \cup {Arg},
           NEW how \in Hows, NEW program \in Seq(Stmts),
           Opens("pending", op, o, s, how, program), MayCall(op, o, s),
           s = Arg \/ Engaged(s),
           \/ /\ program = <<Construct(Tmp, s, how), AssignT(o, Tmp, "move")>>
              /\ life'[o] = life[o] /\ Alive(o) /\ init[o]
           \/ /\ program = <<Construct(Tmp, s, how),
                             Construct(o, Tmp, "move"), Engage(o)>>
              /\ \/ life'[o] = life[o] /\ Alive(o) /\ ~init[o]
                 \/ life'[o] \in Building /\ life[o] = "absent"
    PROVE  IInv' /\ ContractInv'
<1>1. Begins(o)
  BY DEF Begins
<1> QED BY <1>1, ConvertStarts, ConversionPromised

(* value_or.                                                               *)
LEMMA ResultBegins ==
    ASSUME NEW o \in Opts, NEW s \in Opts \cup {Arg}, NEW how \in Hows,
           NEW t \in Opts \cup {Arg}, t = IF init[o] THEN o ELSE s,
           Opens("pending", "value_or", o, s, how, <<Construct(Ret, t, how)>>),
           MayCall("value_or", o, s), Alive(o), life'[o] = life[o],
           s = Arg \/ Engaged(s)
    PROVE  IInv' /\ ContractInv'
<1>1. "value_or" \notin Rebuilders
  BY DEF Rebuilders
<1>2. t = Arg \/ Engaged(t)
  BY DEF Engaged
<1> QED BY <1>1, <1>2, ResultStarts, ResultPromised

(* A call that has to disengage its optional, or only to destroy its value *)
(* because the optional goes too.                                          *)
LEMMA ResetBegins ==
    ASSUME NEW op, NEW o \in Opts, NEW from \in Opts \cup {Arg},
           NEW how \in Hows, NEW program \in Seq(Stmts),
           Opens("pending", op, o, from, how, program), MayCall(op, o, from),
           Alive(o), MayEnd(op, o, from, o),
           \/ op = "reset" /\ life'[o] = life[o]
           \/ /\ op \in {"assign_optional", "assign_converting"}
              /\ life'[o] = life[o] /\ ~init[from]
           \/ op = "dtor" /\ life'[o] = "dying",
           \/ program = <<Destroy(o), Disengage(o)>> /\ init[o]
           \/ program = <<Disengage(o)>> /\ Trivial
           \/ program = <<Destroy(o)>> /\ init[o] /\ life'[o] = "dying"
    PROVE  IInv' /\ ContractInv'
<1>1. op \notin Rebuilders
  BY DEF Rebuilders
<1>2. IInv'
  BY <1>1, ResetStarts
<1>3. Within(program, {Destroy(o), Disengage(o)})
  BY WithinTuple DEF Within
<1>4. (op \notin {"dtor", "value"} /\ init[o])
         => \E i \in DOMAIN program : program[i] = Disengage(o)
  <2>1. CASE program = <<Destroy(o), Disengage(o)>>
    <3>1. 2 \in DOMAIN program /\ program[2] = Disengage(o)
      BY <2>1
    <3> QED BY <3>1
  <2>2. CASE program = <<Disengage(o)>>
    <3>1. 1 \in DOMAIN program /\ program[1] = Disengage(o)
      BY <2>2
    <3> QED BY <3>1
  <2>3. CASE life'[o] = "dying"
    BY <2>3 DEF Alive
  <2> QED BY <2>1, <2>2, <2>3
<1>5. \/ Begins(o) /\ life'[o] # "absent" /\ op # "dtor"
      \/ life'[o] = "dying" /\ op = "dtor"
  BY DEF Begins, Alive
<1>6. \/ op \in Contract!Emptying
      \/ op \in Contract!FromOptional \ {"swap"} /\ ~init[from]
      \/ op = "dtor"
  BY DEF Contract!Emptying, Contract!FromOptional
<1> QED BY <1>2, <1>3, <1>4, <1>5, <1>6, QuietPromised

(* A call without statements: what it promises is there already.           *)
LEMMA NothingBegins ==
    ASSUME NEW op, NEW o \in Opts, NEW from \in Opts \cup {Arg},
           NEW how \in Hows,
           Opens("pending", op, o, from, how, <<>>), MayCall(op, o, from),
           \/ life'[o] = life[o] /\ Alive(o) /\ op # "dtor"
           \/ life'[o] \in Building /\ life[o] = "absent" /\ op # "dtor"
           \/ /\ life'[o] = "dying" /\ Alive(o) /\ (Trivial \/ ~init[o])
              /\ op = "dtor",
           op \in {"dtor", "value"} \/ ~init[o],
           \/ op \in Contract!Emptying
           \/ op \in Contract!FromOptional \ {"swap"} /\ ~init[from]
           \/ op = "dtor"
           \/ op = "swap" /\ ~init[o] /\ ~init[from]
           \/ op = "value" /\ init[o]
    PROVE  IInv' /\ ContractInv'
<1> DEFINE program == <<>>
<1>1. op \notin Rebuilders
  BY DEF Rebuilders, Contract!Emptying, Contract!FromOptional
<1>2. IInv'
  BY <1>1, NothingToDo
<1>3. program \in Seq(Stmts) /\ Within(program, {Destroy(o), Disengage(o)})
      /\ program = <<>> /\ Opens("pending", op, o, from, how, program)
  BY DEF Within
<1> HIDE DEF program
<1>4. \/ Begins(o) /\ life'[o] # "absent" /\ op # "dtor"
      \/ life'[o] = "dying" /\ op = "dtor"
  BY DEF Begins, Alive, Building
<1> QED BY <1>2, <1>3, <1>4, QuietPromised

(* A constructor that leaves the optional without a value.                 *)
LEMMA EmptyCtorBegins ==
    ASSUME StageInv, NEW op, NEW o \in Opts, NEW from \in Opts \cup {Arg},
           NEW how \in Hows, NEW stage \in Building,
           BeginCtor(stage, op, o, from, how, <<>>), MayCall(op, o, from),
           \/ op \in Contract!Emptying \ {"reset"}
           \/ op \in {"copy_ctor", "convert_ctor"} /\ ~init[from]
    PROVE  IInv' /\ ContractInv'
<1>1. op \in CallOps \ {"dtor"}
  BY DEF Contract!Emptying, CallOps
<1>2. /\ Opens("pending", op, o, from, how, <<>>)
      /\ life[o] = "absent" /\ life'[o] \in Building
  BY <1>1, CtorOpens
<1>3. ~init[o]
  <2>1. <<>> \in Seq(Stmts)
    OBVIOUS
  <2>2. Calm(o)
    BY <1>2, <2>1, CallStarts
  <2> QED BY <1>2, <2>2 DEF Calm
<1> QED BY <1>1, <1>2, <1>3, NothingBegins DEF Contract!FromOptional

(* value() returns, or refuses access to a value that is not there.        *)
LEMMA AccessBegins ==
    ASSUME StageInv, NEW o \in Opts, Alive(o),
           BeginWith(IF init[o] THEN "pending" ELSE "bad_access",
                     "value", o, o, "copy", <<>>),
           life' = life
    PROVE  IInv' /\ ContractInv'
<1>1. "value" \in CallOps \ Rebuilders /\ "copy" \in Hows
      /\ MayCall("value", o, o)
  BY MayBeMade DEF CallOps, Rebuilders, Hows
<1>2. Opens(IF init[o] THEN "pending" ELSE "bad_access",
            "value", o, o, "copy", <<>>)
  BY <1>1 DEF Opens, StageInv, TypeOK
<1>3. CASE init[o]
  BY <1>1, <1>2, <1>3, NothingBegins
<1>4. CASE ~init[o]
  <2>1. Opens("bad_access", "value", o, o, "copy", <<>>)
    BY <1>2, <1>4
  <2>2. IInv'
    BY <1>1, <2>1, NothingToDo
  <2> QED BY <1>1, <1>4, <2>1, <2>2, BadAccessPromised
<1> QED BY <1>3, <1>4

------------------------------------------------------------------------------
(* The steps of an implementation are steps of the contract.               *)

(* Before the first call there are no optionals.                           *)
LEMMA InitImplements == InitObjects => Contract!Init
<1> SUFFICES ASSUME InitObjects PROVE Contract!Init
  OBVIOUS
<1>1. /\ life = [o \in Opts |-> "absent"]
      /\ slot = [p \in Places |-> IF p = Arg THEN Unspec ELSE Raw]
      /\ ~busy /\ outcome = "none"
      /\ call = [op |-> "none", o |-> CHOOSE o \in Opts : TRUE,
                 from |-> Arg, how |-> "copy"]
  BY DEF InitObjects
<1>2. ASSUME NEW p \in Opts \cup {Arg}
      PROVE  Seen[p] = IF p = Arg THEN Unspec ELSE Absent
  <2>1. CASE p = Arg
    BY <1>1, <2>1, PlacesDiffer DEF Seen
  <2>2. CASE p # Arg
    BY <1>1, <2>2 DEF Seen
  <2> QED BY <2>1, <2>2
<1>3. Seen = [p \in Opts \cup {Arg} |-> IF p = Arg THEN Unspec ELSE Absent]
  BY <1>2 DEF Seen
<1> QED BY <1>1, <1>3 DEF Contract!Init

(* The start of a call makes one that the contract allows.                 *)
LEMMA StartImplements ==
    \A result, op, o, from, how, program :
       ContractInv' /\ BeginWith(result, op, o, from, how, program)
         => Contract!Make
<1> SUFFICES ASSUME NEW result, NEW op, NEW o, NEW from, NEW how, NEW program,
                    ContractInv', BeginWith(result, op, o, from, how, program)
             PROVE  Contract!Make
  OBVIOUS
<1>1. ~busy /\ busy' = TRUE /\ call'.from = from
  BY DEF BeginWith
<1>2. PICK x \in IF from = Arg THEN Values ELSE {Unspec} :
        before' = [Seen EXCEPT ![Arg] = x]
  BY DEF BeginWith
<1>3. call' \in Contract!Calls /\ Contract!Allowed(call', before')
  BY <1>1 DEF ContractInv, PlanInv
<1> QED BY <1>1, <1>2, <1>3 DEF Contract!Make

(* Until a call ends, its caller sees what it saw before.                  *)
LEMMA RunImplements ==
    RunT \/ RunFlag \/ (\E unwinding : ThrowT(unwinding)) \/ UNCHANGED vars
      => UNCHANGED Contract!cvars
<1>1. CASE RunT \/ RunFlag \/ \E unwinding : ThrowT(unwinding)
  <2>1. busy /\ busy' /\ call' = call /\ before' = before
    BY <1>1 DEF RunT, RunFlag, ThrowT, Running
  <2> QED BY <2>1 DEF Contract!cvars
<1>2. CASE UNCHANGED vars
  BY <1>2 DEF vars, Contract!cvars, Seen
<1> QED BY <1>1, <1>2

(* At the end of a call that returns, the caller sees what was to come.    *)
LEMMA SeenAfterReturn ==
    ASSUME StageInv, Return, outcome = "pending", NEW r \in Opts \cup {Arg}
    PROVE  Seen'[r] = Coming(r) /\ slot'[Ret] = slot[Ret]
<1>1. /\ life' = [o \in Opts |-> IF Gone(o) THEN "absent"
                                 ELSE IF life[o] \in Building THEN "alive"
                                 ELSE life[o]]
      /\ init' = [o \in Opts |-> init[o] /\ ~Gone(o)]
      /\ slot' = [p \in Places |-> IF p \in Opts /\ Trivial /\ Gone(p)
                                   THEN Raw ELSE slot[p]]
      /\ todo = <<>> /\ TypeOK
  BY DEF Return, StageInv
<1>2. \A p : Gone(p) <=> life[p] = "dying"
  BY DEF Gone
<1>3. slot'[Ret] = slot[Ret] /\ slot'[Arg] = slot[Arg]
  BY <1>1, PlacesDiffer
<1>4. CASE r = Arg
  <2>1. Seen'[r] = slot'[r]
    BY <1>4 DEF Seen
  <2> QED BY <1>3, <1>4, <2>1 DEF Coming
<1>5. CASE r # Arg
  <2>1. r \in Opts /\ r \in Places
    BY <1>5, PlacesDiffer
  <2>2. CASE life[r] \in {"absent", "dying"}
    <3>1. life'[r] = "absent"
      BY <1>1, <1>2, <2>1, <2>2 DEF Building
    <3>2. Seen'[r] = Absent
      BY <1>5, <2>1, <3>1 DEF Seen
    <3> QED BY <1>3, <1>5, <2>2, <3>2 DEF Coming
  <2>3. CASE life[r] \notin {"absent", "dying"}
    <3>1. life'[r] # "absent" /\ (init'[r] <=> init[r]) /\ slot'[r] = slot[r]
      BY <1>1, <1>2, <2>1, <2>3 DEF Building
    <3>2. Seen'[r] = IF init[r] THEN slot[r] ELSE None
      BY <1>5, <2>1, <3>1 DEF Seen
    <3>3. WillBeSet(r) <=> init[r]
      BY <1>1 DEF WillBeSet, Remains
    <3>4. Coming(r) = IF init[r] THEN slot[r] ELSE None
      BY <1>5, <2>3, <3>3 DEF Coming
    <3> QED BY <1>3, <3>2, <3>4
  <2> QED BY <2>2, <2>3
<1> QED BY <1>3, <1>4, <1>5

(* A call ends as the contract says: it returns what it promised, throws   *)
(* with what its guarantee allows, or refuses access to a missing value.   *)
LEMMA EndImplements == IInv /\ ContractInv /\ Return => Contract!Next
<1> SUFFICES ASSUME IInv, ContractInv, Return PROVE Contract!Next
  OBVIOUS
<1>1. /\ StageInv /\ busy /\ todo = <<>> /\ busy' = FALSE
      /\ outcome' = IF outcome = "pending" THEN "returned" ELSE outcome
      /\ call' = call /\ outcome \in {"pending", "threw", "bad_access"}
      /\ EngagementInv
  BY DEF Return, IInv, StageInv, PromiseInv, ContractInv, PlanInv
<1>2. /\ Seen' = [r \in Opts \cup {Arg} |-> Seen'[r]]
      /\ before = [r \in Opts \cup {Arg} |-> before[r]]
  BY <1>1 DEF Seen, StageInv, TypeOK
<1>3. CASE outcome = "pending"
  <2>1. ~MayYetThrow
    BY <1>1 DEF MayYetThrow
  <2>2. /\ Contract!Returns(call, before, [r \in Opts \cup {Arg} |-> Coming(r)])
        /\ slot[Ret] = Contract!Result(call, before)
    BY <1>1, <1>3, <2>1 DEF ContractInv, SettledInv
  <2>3. \A r \in Opts \cup {Arg} : Seen'[r] = Coming(r)
    BY <1>1, <1>3, SeenAfterReturn
  <2>4. Seen' = [r \in Opts \cup {Arg} |-> Coming(r)]
    BY <1>2, <2>3
  <2>5. slot'[Ret] = slot[Ret]
    BY <1>1, <1>3, SeenAfterReturn
  <2>6. Contract!EndByReturning
    BY <1>1, <1>3, <2>2, <2>4, <2>5 DEF Contract!EndByReturning
  <2> QED BY <2>6 DEF Contract!Next
<1>4. CASE outcome \in {"threw", "bad_access"}
  <2>1. \A r \in Opts : life[r] # "dying"
    BY <1>1, <1>4 DEF EngagementInv, Failed, KeepsEngagement, Alive
  <2>2. \A r \in Opts \cup {Arg} : Seen'[r] = Shown(r)
    BY <1>1, <1>4, <2>1, SeenAfterFailure, PlacesDiffer DEF Failed
  <2>3. Seen' = [r \in Opts \cup {Arg} |-> Shown(r)]
    BY <1>2, <2>2
  <2>4. CASE outcome = "threw"
    <3>1. Contract!ThrowsT(call, before, Seen')
      BY <1>1, <2>3, <2>4 DEF ContractInv, FailedInv
    <3>2. Contract!EndByThrowing
      BY <1>1, <2>4, <3>1 DEF Contract!EndByThrowing
    <3> QED BY <3>2 DEF Contract!Next
  <2>5. CASE outcome = "bad_access"
    <3>1. /\ call.op = "value" /\ before[call.o] = None
          /\ \A r \in Opts \cup {Arg} : Shown(r) = before[r]
      BY <1>1, <2>5 DEF ContractInv, FailedInv
    <3>2. Seen' = before
      BY <1>2, <2>2, <3>1
    <3>3. Contract!EndByBadAccess
      BY <1>1, <2>5, <3>1, <3>2 DEF Contract!EndByBadAccess
    <3> QED BY <3>3 DEF Contract!Next
  <2> QED BY <1>4, <2>4, <2>5
<1> QED BY <1>1, <1>3, <1>4
================================================================================
