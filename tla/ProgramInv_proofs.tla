--------------------------- MODULE ProgramInv_proofs ---------------------------
(***************************************************************************)
(* The inductive invariant of ProgramInv: the statements of a call lead    *)
(* from each stage to another and keep what the call owes its caller, and  *)
(* so do the calls that start with one of the programs.  An implementation *)
(* has only to show that its actions start one of them.                    *)
(*                                                                         *)
(* First the stages.  They depend on the slots only through which of them  *)
(* are Raw, so each operation of T is first reduced to what it does to     *)
(* that.                                                                   *)
(***************************************************************************)
EXTENDS ProgramInv, SequenceTheorems, TLAPS

------------------------------------------------------------------------------
(* Facts about short tuples, which is what the programs are.               *)

(* A tuple of members of S is a sequence over S.                           *)
LEMMA TuplesAreSeqs ==
    ASSUME NEW S, NEW a \in S, NEW b \in S, NEW c \in S, NEW d \in S
    PROVE  /\ <<>> \in Seq(S) /\ <<a>> \in Seq(S) /\ <<a, b>> \in Seq(S)
           /\ <<a, b, c>> \in Seq(S) /\ <<a, b, c, d>> \in Seq(S)
  OBVIOUS

(* What a program starts with, and what is left when that has run.         *)
LEMMA HeadsAndTails ==
    ASSUME NEW a, NEW b, NEW c, NEW d
    PROVE  /\ <<a>> # <<>> /\ Head(<<a>>) = a /\ Tail(<<a>>) = <<>>
           /\ <<a, b>> # <<>> /\ Head(<<a, b>>) = a /\ Tail(<<a, b>>) = <<b>>
           /\ <<a, b, c>> # <<>> /\ Head(<<a, b, c>>) = a
           /\ Tail(<<a, b, c>>) = <<b, c>>
           /\ <<a, b, c, d>> # <<>> /\ Head(<<a, b, c, d>>) = a
           /\ Tail(<<a, b, c, d>>) = <<b, c, d>>
  OBVIOUS

(* A sequence that agrees with s and then with t is their concatenation.   *)
LEMMA ConcatAt ==
    ASSUME NEW S, NEW s \in Seq(S), NEW t \in Seq(S), NEW u \in Seq(S),
           Len(u) = Len(s) + Len(t),
           \A i \in 1 .. Len(s) : u[i] = s[i],
           \A i \in 1 .. Len(t) : u[Len(s) + i] = t[i]
    PROVE  s \o t = u
<1>1. /\ s \o t \in Seq(S)
      /\ Len(s \o t) = Len(s) + Len(t)
      /\ \A i \in 1 .. Len(s) + Len(t) :
            (s \o t)[i] = IF i <= Len(s) THEN s[i] ELSE t[i - Len(s)]
  BY ConcatProperties
<1>2. ASSUME NEW i \in 1 .. Len(s) + Len(t) PROVE (s \o t)[i] = u[i]
  <2>1. Len(s) \in Nat /\ Len(t) \in Nat
    OBVIOUS
  <2>2. CASE i <= Len(s)
    BY <1>1, <2>1, <2>2
  <2>3. CASE ~(i <= Len(s))
    <3> DEFINE j == i - Len(s)
    <3>1. j \in 1 .. Len(t) /\ i = Len(s) + j
      BY <2>1, <2>3
    <3>2. u[Len(s) + j] = t[j]
      BY <3>1
    <3> QED BY <1>1, <2>3, <3>1, <3>2
  <2> QED BY <2>2, <2>3
<1> QED BY <1>1, <1>2, SeqEqual

(* The concatenations that the programs are made of.                       *)
LEMMA ConcatEmpty ==
    ASSUME NEW a, NEW b
    PROVE  <<>> \o <<a, b>> = <<a, b>> /\ <<a, b>> \o <<>> = <<a, b>>
<1>1. <<a, b>> \in Seq({a, b})
  BY TuplesAreSeqs
<1> QED BY <1>1, ConcatEmptySeq

(* One statement followed by one.                                          *)
LEMMA Concat11 ==
    ASSUME NEW a, NEW b
    PROVE  <<a>> \o <<b>> = <<a, b>>
<1> DEFINE S == {a, b}
           s == <<a>>
           t == <<b>>
           u == <<a, b>>
<1>1. s \in Seq(S) /\ t \in Seq(S) /\ u \in Seq(S)
  BY TuplesAreSeqs
<1>2. Len(s) = 1 /\ Len(t) = 1 /\ Len(u) = 2
  OBVIOUS
<1>3. /\ \A i \in 1 .. 1 : u[i] = s[i]
      /\ \A i \in 1 .. 1 : u[1 + i] = t[i]
  OBVIOUS
<1> HIDE DEF S, s, t, u
<1>4. /\ Len(u) = Len(s) + Len(t)
      /\ \A i \in 1 .. Len(s) : u[i] = s[i]
      /\ \A i \in 1 .. Len(t) : u[Len(s) + i] = t[i]
  BY <1>2, <1>3
<1>5. s \o t = u
  BY <1>1, <1>4, ConcatAt
<1> QED BY <1>5 DEF s, t, u

(* One statement followed by two.                                          *)
LEMMA Concat12 ==
    ASSUME NEW a, NEW b, NEW c
    PROVE  <<a>> \o <<b, c>> = <<a, b, c>>
<1> DEFINE S == {a, b, c}
           s == <<a>>
           t == <<b, c>>
           u == <<a, b, c>>
<1>1. s \in Seq(S) /\ t \in Seq(S) /\ u \in Seq(S)
  BY TuplesAreSeqs
<1>2. Len(s) = 1 /\ Len(t) = 2 /\ Len(u) = 3
  OBVIOUS
<1>3. /\ \A i \in 1 .. 1 : u[i] = s[i]
      /\ \A i \in 1 .. 2 : u[1 + i] = t[i]
  OBVIOUS
<1> HIDE DEF S, s, t, u
<1>4. /\ Len(u) = Len(s) + Len(t)
      /\ \A i \in 1 .. Len(s) : u[i] = s[i]
      /\ \A i \in 1 .. Len(t) : u[Len(s) + i] = t[i]
  BY <1>2, <1>3
<1>5. s \o t = u
  BY <1>1, <1>4, ConcatAt
<1> QED BY <1>5 DEF s, t, u

(* Two statements followed by one.                                         *)
LEMMA Concat21 ==
    ASSUME NEW a, NEW b, NEW c
    PROVE  <<a, b>> \o <<c>> = <<a, b, c>>
<1> DEFINE S == {a, b, c}
           s == <<a, b>>
           t == <<c>>
           u == <<a, b, c>>
<1>1. s \in Seq(S) /\ t \in Seq(S) /\ u \in Seq(S)
  BY TuplesAreSeqs
<1>2. Len(s) = 2 /\ Len(t) = 1 /\ Len(u) = 3
  OBVIOUS
<1>3. /\ \A i \in 1 .. 2 : u[i] = s[i]
      /\ \A i \in 1 .. 1 : u[2 + i] = t[i]
  OBVIOUS
<1> HIDE DEF S, s, t, u
<1>4. /\ Len(u) = Len(s) + Len(t)
      /\ \A i \in 1 .. Len(s) : u[i] = s[i]
      /\ \A i \in 1 .. Len(t) : u[Len(s) + i] = t[i]
  BY <1>2, <1>3
<1>5. s \o t = u
  BY <1>1, <1>4, ConcatAt
<1> QED BY <1>5 DEF s, t, u

(* Two statements followed by two.                                         *)
LEMMA Concat22 ==
    ASSUME NEW a, NEW b, NEW c, NEW d
    PROVE  <<a, b>> \o <<c, d>> = <<a, b, c, d>>
<1> DEFINE S == {a, b, c, d}
           s == <<a, b>>
           t == <<c, d>>
           u == <<a, b, c, d>>
<1>1. s \in Seq(S) /\ t \in Seq(S) /\ u \in Seq(S)
  BY TuplesAreSeqs
<1>2. Len(s) = 2 /\ Len(t) = 2 /\ Len(u) = 4
  OBVIOUS
<1>3. /\ \A i \in 1 .. 2 : u[i] = s[i]
      /\ \A i \in 1 .. 2 : u[2 + i] = t[i]
  OBVIOUS
<1> HIDE DEF S, s, t, u
<1>4. /\ Len(u) = Len(s) + Len(t)
      /\ \A i \in 1 .. Len(s) : u[i] = s[i]
      /\ \A i \in 1 .. Len(t) : u[Len(s) + i] = t[i]
  BY <1>2, <1>3
<1>5. s \o t = u
  BY <1>1, <1>4, ConcatAt
<1> QED BY <1>5 DEF s, t, u

------------------------------------------------------------------------------

(* The places at which an operation of T leaves a T or none, as before.    *)
Unaffected(P) == \A r \in Places \ P : slot'[r] = Raw <=> slot[r] = Raw

SlotType == slot \in [Places -> Objects \cup {Raw}] /\ slot[Arg] # Raw

(* Raw stands for no T, and the unspecified value is one.                  *)
LEMMA RawIsNoObject == Raw \notin Objects /\ Unspec \in Objects
  BY ObjectModelAssumption DEF Objects

(* The argument, the result and the temporary are places of their own,     *)
(* apart from each other and from the storage of every optional.           *)
LEMMA PlacesDiffer ==
    /\ Arg \in Places /\ Ret \in Places /\ Tmp \in Places
    /\ Opts \subseteq Places
    /\ Arg \notin Opts /\ Ret \notin Opts /\ Tmp \notin Opts
    /\ Arg # Ret /\ Arg # Tmp /\ Ret # Tmp
  BY ObjectModelAssumption DEF Places

(* A constructor that returns leaves a T where there was none and takes    *)
(* none away, also when it moves, and also when it reads a dead object.    *)
LEMMA ConstructRuns ==
    ASSUME SlotType, NEW p \in Places \ {Arg}, NEW s \in Places,
           NEW how \in Hows, slot[s] # Raw \/ s = p,
           slot' \in Succeeds(Construct(p, s, how))
    PROVE  SlotType' /\ slot'[p] # Raw /\ Unaffected({p})
<1> DEFINE st == Construct(p, s, how)
<1>1. st.do = "construct" /\ st.at = p /\ st.from = s /\ st.how = how
  BY DEF Construct, Stmt
<1>2. CASE ReadsDead(st)
  <2>1. PICK x \in Objects : slot' = [slot EXCEPT ![p] = x]
    BY <1>1, <1>2 DEF Succeeds
  <2> QED BY <2>1, RawIsNoObject, PlacesDiffer DEF SlotType, Unaffected
<1>3. CASE ~ReadsDead(st)
  <2>1. slot[s] # Raw /\ s # p
    BY <1>1, <1>3 DEF ReadsDead
  <2>2. PICK x \in Leftover(st) :
          slot' = [slot EXCEPT ![p] = slot[s], ![s] = x]
    BY <1>1, <1>3 DEF Succeeds, Transferred
  <2>3. x \in Objects
    BY <1>1, <2>1, RawIsNoObject DEF Leftover, SlotType
  <2> QED BY <2>1, <2>2, <2>3, RawIsNoObject, PlacesDiffer
          DEF SlotType, Unaffected
<1> QED BY <1>2, <1>3

(* A constructor that throws leaves no T at its place.                     *)
LEMMA ConstructThrows ==
    ASSUME SlotType, NEW p \in Places \ {Arg}, NEW s \in Places,
           NEW how \in Hows, slot[s] # Raw \/ s = p,
           slot' \in Throws(Construct(p, s, how))
    PROVE  SlotType' /\ slot'[p] = Raw /\ Unaffected({p})
<1> DEFINE st == Construct(p, s, how)
<1>1. st.do = "construct" /\ st.at = p /\ st.from = s /\ st.how = how
  BY DEF Construct, Stmt
<1>2. PICK x \in Leftover(st) \cup {slot[s]} :
        slot' = [slot EXCEPT ![s] = x, ![p] = Raw]
  BY <1>1 DEF Throws
<1>3. x \in {slot[s], Unspec}
  BY <1>1, <1>2 DEF Leftover
<1> QED BY <1>2, <1>3, RawIsNoObject, PlacesDiffer DEF SlotType, Unaffected

(* Assignment, returning or throwing, neither makes nor ends a T.          *)
LEMMA AssignKeeps ==
    ASSUME SlotType, NEW p \in Places, NEW s \in Places, NEW how \in Hows,
           slot[p] # Raw, slot[s] # Raw,
           slot' \in Succeeds(AssignT(p, s, how)) \cup
                     Throws(AssignT(p, s, how))
    PROVE  SlotType' /\ Unaffected({})
<1> DEFINE st == AssignT(p, s, how)
<1>1. st.do = "assign" /\ st.at = p /\ st.from = s /\ st.how = how
  BY DEF AssignT, Stmt
<1>2. ~ReadsDead(st)
  BY <1>1 DEF ReadsDead
<1>3. PICK x \in {slot[s], Unspec}, y \in {slot[s], slot[p], Unspec} :
        \/ slot' = [slot EXCEPT ![p] = y, ![s] = x]
        \/ slot' = [slot EXCEPT ![s] = x, ![p] = y]
        \/ slot' = slot
  BY <1>1, <1>2 DEF Succeeds, Throws, Transferred, Leftover
<1> QED BY <1>3, RawIsNoObject, PlacesDiffer DEF SlotType, Unaffected

(* So does T's swap.                                                       *)
LEMMA SwapKeeps ==
    ASSUME SlotType, NEW p \in Places, NEW s \in Places,
           slot[p] # Raw, slot[s] # Raw,
           slot' \in Succeeds(SwapT(p, s)) \cup Throws(SwapT(p, s))
    PROVE  SlotType' /\ Unaffected({})
<1> DEFINE st == SwapT(p, s)
<1>1. st.do = "swap" /\ st.at = p /\ st.from = s
  BY DEF SwapT, Stmt
<1>2. PICK x, y \in {slot[s], slot[p], Unspec} :
        \/ slot' = [slot EXCEPT ![p] = y, ![s] = x]
        \/ slot' = [slot EXCEPT ![s] = x, ![p] = y]
        \/ slot' = slot
  BY <1>1 DEF Succeeds, Throws
<1> QED BY <1>2, RawIsNoObject, PlacesDiffer DEF SlotType, Unaffected

(* A destructor ends the T in its place and touches no other.              *)
LEMMA DestroyRuns ==
    ASSUME SlotType, NEW p \in Places \ {Arg},
           slot' \in Succeeds(Destroy(p))
    PROVE  SlotType' /\ slot'[p] = Raw /\ Unaffected({p})
<1>1. slot' = [slot EXCEPT ![p] = Raw]
  BY DEF Destroy, Stmt, Succeeds
<1> QED BY <1>1, PlacesDiffer DEF SlotType, Unaffected

(* The optionals outside P stay calm if a step leaves them alone.          *)
LEMMA CalmKept ==
    ASSUME NEW P, CalmBut(P), life' = life,
           \A r \in Opts \ P : /\ init'[r] = init[r]
                               /\ slot'[r] = Raw <=> slot[r] = Raw
    PROVE  CalmBut(P)'
  BY DEF CalmBut, Calm, Empty, Full

------------------------------------------------------------------------------
(* What the programs start with and what is left of them.                  *)
LEMMA StmtFields ==
    ASSUME NEW p, NEW s, NEW how
    PROVE  /\ Construct(p, s, how).do = "construct"
           /\ Construct(p, s, how).at = p
           /\ AssignT(p, s, how).do = "assign" /\ SwapT(p, s).do = "swap"
           /\ Destroy(p).do = "destroy" /\ Destroy(p).at = p
           /\ Engage(p).do = "engage" /\ Engage(p).at = p
           /\ Disengage(p).do = "disengage" /\ Disengage(p).at = p
  BY DEF Construct, AssignT, SwapT, Destroy, Engage, Disengage, Stmt

(* What the programs are made of are statements.                           *)
LEMMA StmtTypes ==
    ASSUME NEW p \in Places, NEW s \in Places, NEW how \in Hows
    PROVE  /\ Construct(p, s, how) \in Stmts /\ AssignT(p, s, how) \in Stmts
           /\ SwapT(p, s) \in Stmts /\ Destroy(p) \in Stmts
           /\ Engage(p) \in Stmts /\ Disengage(p) \in Stmts
  BY DEF Construct, AssignT, SwapT, Destroy, Engage, Disengage, Stmt, Stmts,
         TOps, Hows

(* The parts of TypeOK that a step on the slots, the flags and todo needs. *)
LEMMA TypeKept ==
    ASSUME TypeOK, SlotType', init' \in [Opts -> BOOLEAN],
           todo' \in Seq(Stmts), outcome' \in Outcomes,
           UNCHANGED <<life, busy, call, before>>
    PROVE  TypeOK'
  BY DEF TypeOK, SlotType

(* A call that has nothing left to do and leaves every optional calm is at *)
(* its end.                                                                *)
LEMMA EndsCalm ==
    ASSUME TypeOK', todo' = <<>>, \A r \in Opts : Calm(r)'
    PROVE  AtEnd'
  BY DEF AtEnd, CalmBut, TypeOK

------------------------------------------------------------------------------
(* An operation of T that returns leads from each program to its rest.     *)
LEMMA RunTKeepsStage == StageInv /\ RunT => StageInv'
<1> SUFFICES ASSUME StageInv, RunT PROVE StageInv'
  OBVIOUS
<1> DEFINE T == Opts \cup {Arg, Tmp}
<1>1. /\ TypeOK /\ OneAtATime /\ InProgress /\ SlotType
      /\ busy /\ outcome = "pending" /\ todo # <<>>
      /\ Head(todo).do \in TOps
  BY DEF StageInv, RunT, Running, AtEnd, InProgress, TypeOK, SlotType
<1>2. /\ slot' \in Succeeds(Head(todo)) /\ todo' = Tail(todo)
      /\ UNCHANGED <<life, init, busy, call, outcome, before>>
  BY DEF RunT
<1>3. todo' \in Seq(Stmts) /\ init' \in [Opts -> BOOLEAN]
  BY <1>1, <1>2 DEF TypeOK
<1>4. OneAtATime'
  BY <1>1, <1>2 DEF OneAtATime
<1>5. SUFFICES SlotType' /\ (AtEnd' \/ InProgress')
  BY <1>1, <1>2, <1>3, <1>4, TypeKept DEF StageInv, TypeOK
<1>6. PICK p \in Opts, q \in Opts, s \in T, how \in Hows :
        Stage(p, q, s, how)
  BY <1>1 DEF InProgress
<1>7. /\ p \in Places \ {Arg} /\ q \in Places \ {Arg} /\ s \in Places
      /\ Ret \in Places \ {Arg} /\ Tmp \in Places \ {Arg}
      /\ "move" \in Hows /\ Tmp \in T /\ Tmp # p /\ Arg \in T
  BY PlacesDiffer DEF Hows
<1>8. busy' /\ outcome' = "pending"
  BY <1>1, <1>2
<1>9. SUFFICES SlotType' /\ (AtEnd' \/ \E p1 \in Opts, q1 \in Opts,
                           s1 \in T, how1 \in Hows : Stage(p1, q1, s1, how1)')
  BY <1>8 DEF InProgress
<1> HIDE DEF T
<1>a. CASE AtInit(p, s, how)
  <2>1. Head(todo) = Construct(p, s, how) /\ todo' = <<Engage(p)>>
    BY <1>2, <1>a, HeadsAndTails DEF AtInit
  <2>2. SlotType' /\ slot'[p] # Raw /\ Unaffected({p})
    BY <1>1, <1>2, <1>7, <1>a, <2>1, ConstructRuns DEF AtInit, Readable
  <2>3. CalmBut({p})'
    BY <1>2, <1>a, <2>2, PlacesDiffer, CalmKept DEF AtInit, Unaffected
  <2>4. AtEngage(p)'
    BY <1>2, <1>a, <2>1, <2>2, <2>3 DEF AtInit, AtEngage, InLifetime, Empty
  <2> QED BY <2>2, <2>4 DEF Stage
<1>b. CASE AtReset(p)
  <2>1. Head(todo) = Destroy(p) /\ todo' = <<Disengage(p)>>
    BY <1>2, <1>b, HeadsAndTails DEF AtReset
  <2>2. SlotType' /\ slot'[p] = Raw /\ Unaffected({p})
    BY <1>1, <1>2, <1>7, <2>1, DestroyRuns
  <2>3. CalmBut({p})'
    BY <1>2, <1>b, <2>2, PlacesDiffer, CalmKept DEF AtReset, Unaffected
  <2>4. AtDisengage(p)'
    BY <1>2, <1>b, <2>1, <2>2, <2>3
       DEF AtReset, AtDisengage, InReach, Gutted, Full
  <2> QED BY <2>2, <2>4 DEF Stage
<1>c. CASE AtRebuild(p, s, how)
  <2>1. /\ Head(todo) = Destroy(p)
        /\ todo' = <<Disengage(p), Construct(p, s, how), Engage(p)>>
    BY <1>2, <1>c, HeadsAndTails DEF AtRebuild
  <2>2. SlotType' /\ slot'[p] = Raw /\ Unaffected({p})
    BY <1>1, <1>2, <1>7, <2>1, DestroyRuns
  <2>3. CalmBut({p})'
    BY <1>2, <1>c, <2>2, PlacesDiffer, CalmKept DEF AtRebuild, Unaffected
  <2>4. Readable(p, s)'
    BY <1>2, <1>7, <1>c, <2>2 DEF AtRebuild, Readable, Unaffected
  <2>5. AtRebuildGutted(p, s, how)'
    BY <1>2, <1>c, <2>1, <2>2, <2>3, <2>4
       DEF AtRebuild, AtRebuildGutted, Alive, Gutted, Full
  <2> QED BY <2>2, <2>5 DEF Stage
<1>d. CASE AtHandOver(p, q)
  <2>1. /\ Head(todo) = Construct(p, q, "move")
        /\ todo' = <<Engage(p), Destroy(q), Disengage(q)>>
    BY <1>2, <1>d, HeadsAndTails DEF AtHandOver
  <2>2. SlotType' /\ slot'[p] # Raw /\ Unaffected({p})
    BY <1>1, <1>2, <1>7, <1>d, <2>1, ConstructRuns DEF AtHandOver, Full
  <2>3. CalmBut({p, q})'
    BY <1>2, <1>d, <2>2, PlacesDiffer, CalmKept DEF AtHandOver, Unaffected
  <2>4. AtHandedOver(p, q)'
    BY <1>2, <1>7, <1>d, <2>1, <2>2, <2>3
       DEF AtHandOver, AtHandedOver, Alive, Empty, Full, Unaffected
  <2> QED BY <2>2, <2>4 DEF Stage
<1>e. CASE AtTrivialHandOver(p, q)
  <2>1. /\ Head(todo) = Construct(p, q, "move")
        /\ todo' = <<Engage(p), Disengage(q)>>
    BY <1>2, <1>e, HeadsAndTails DEF AtTrivialHandOver
  <2>2. SlotType' /\ slot'[p] # Raw /\ Unaffected({p})
    BY <1>1, <1>2, <1>7, <1>e, <2>1, ConstructRuns DEF AtTrivialHandOver, Full
  <2>3. CalmBut({p, q})'
    BY <1>2, <1>e, <2>2, PlacesDiffer, CalmKept
       DEF AtTrivialHandOver, Unaffected
  <2>4. AtTrivialHandedOver(p, q)'
    BY <1>2, <1>7, <1>e, <2>1, <2>2, <2>3
       DEF AtTrivialHandOver, AtTrivialHandedOver, Alive, Empty, Full,
           Unaffected
  <2> QED BY <2>2, <2>4 DEF Stage
<1>f. CASE AtConvertAssign(p, s, how)
  <2>1. /\ Head(todo) = Construct(Tmp, s, how)
        /\ todo' = <<AssignT(p, Tmp, "move")>>
    BY <1>2, <1>f, HeadsAndTails DEF AtConvertAssign
  <2>2. SlotType' /\ slot'[Tmp] # Raw /\ Unaffected({Tmp})
    BY <1>1, <1>2, <1>7, <1>f, <2>1, ConstructRuns DEF AtConvertAssign
  <2>3. CalmBut({p})'
    BY <1>2, <1>f, <2>2, PlacesDiffer, CalmKept
       DEF AtConvertAssign, Unaffected
  <2>4. AtAssign(p, Tmp, "move")'
    BY <1>2, <1>7, <1>f, <2>1, <2>2, <2>3
       DEF AtConvertAssign, AtAssign, Alive, Full, Unaffected
  <2> QED BY <1>7, <2>2, <2>4 DEF Stage
<1>g. CASE AtConvertInit(p, s, how)
  <2>1. /\ Head(todo) = Construct(Tmp, s, how)
        /\ todo' = <<Construct(p, Tmp, "move"), Engage(p)>>
    BY <1>2, <1>g, HeadsAndTails DEF AtConvertInit
  <2>2. SlotType' /\ slot'[Tmp] # Raw /\ Unaffected({Tmp})
    BY <1>1, <1>2, <1>7, <1>g, <2>1, ConstructRuns DEF AtConvertInit
  <2>3. CalmBut({p})'
    BY <1>2, <1>g, <2>2, PlacesDiffer, CalmKept DEF AtConvertInit, Unaffected
  <2>4. AtInit(p, Tmp, "move")'
    BY <1>2, <1>7, <1>g, <2>1, <2>2, <2>3
       DEF AtConvertInit, AtInit, InLifetime, Empty, Readable, Unaffected,
           Converting
  <2> QED BY <1>7, <2>2, <2>4 DEF Stage
<1>h. CASE AtAssign(p, s, how)
  <2>1. Head(todo) = AssignT(p, s, how) /\ todo' = <<>>
    BY <1>2, <1>h, HeadsAndTails DEF AtAssign
  <2>2. SlotType' /\ Unaffected({})
    BY <1>1, <1>2, <1>7, <1>h, <2>1, AssignKeeps DEF AtAssign, Full
  <2>3. \A r \in Opts : Calm(r)'
    BY <1>2, <1>7, <1>h, <2>2, PlacesDiffer
       DEF AtAssign, CalmBut, Calm, Alive, Empty, Full, Unaffected
  <2>4. TypeOK'
    BY <1>1, <1>2, <1>3, <2>2, TypeKept DEF TypeOK
  <2> QED BY <2>1, <2>2, <2>3, <2>4, EndsCalm
<1>i. CASE AtSwap(p, q)
  <2>1. Head(todo) = SwapT(p, q) /\ todo' = <<>>
    BY <1>2, <1>i, HeadsAndTails DEF AtSwap
  <2>2. SlotType' /\ Unaffected({})
    BY <1>1, <1>2, <1>7, <1>i, <2>1, SwapKeeps DEF AtSwap, Full
  <2>3. \A r \in Opts : Calm(r)'
    BY <1>2, <1>7, <1>i, <2>2, PlacesDiffer
       DEF AtSwap, CalmBut, Calm, Alive, Empty, Full, Unaffected
  <2>4. TypeOK'
    BY <1>1, <1>2, <1>3, <2>2, TypeKept DEF TypeOK
  <2> QED BY <2>1, <2>2, <2>3, <2>4, EndsCalm
<1>j. CASE AtResult(s, how)
  <2>1. Head(todo) = Construct(Ret, s, how) /\ todo' = <<>>
    BY <1>2, <1>j, HeadsAndTails DEF AtResult
  <2>2. SlotType' /\ Unaffected({Ret})
    BY <1>1, <1>2, <1>7, <1>j, <2>1, ConstructRuns DEF AtResult
  <2>3. \A r \in Opts : Calm(r)'
    BY <1>2, <1>7, <1>j, <2>2, PlacesDiffer
       DEF AtResult, CalmBut, Calm, Empty, Full, Unaffected
  <2>4. TypeOK'
    BY <1>1, <1>2, <1>3, <2>2, TypeKept DEF TypeOK
  <2> QED BY <2>1, <2>2, <2>3, <2>4, EndsCalm
<1>k. CASE AtDirectConstruct(p, s, how)
  <2>1. Head(todo) = Construct(p, s, how) /\ todo' = <<>>
    BY <1>2, <1>k, HeadsAndTails DEF AtDirectConstruct
  <2>2. SlotType' /\ slot'[p] # Raw /\ Unaffected({p})
    BY <1>1, <1>2, <1>7, <1>k, <2>1, ConstructRuns DEF AtDirectConstruct
  <2>3. CalmBut({p})'
    BY <1>2, <1>k, <2>2, PlacesDiffer, CalmKept
       DEF AtDirectConstruct, Unaffected
  <2>4. AtEnd'
    BY <1>2, <1>8, <1>k, <2>1, <2>2, <2>3
       DEF AtDirectConstruct, AtEnd, Full, Building
  <2> QED BY <2>2, <2>4
<1>l. CASE AtDtor(p)
  <2>1. Head(todo) = Destroy(p) /\ todo' = <<>>
    BY <1>2, <1>l, HeadsAndTails DEF AtDtor
  <2>2. SlotType' /\ slot'[p] = Raw /\ Unaffected({p})
    BY <1>1, <1>2, <1>7, <2>1, DestroyRuns
  <2>3. CalmBut({p})'
    BY <1>2, <1>l, <2>2, PlacesDiffer, CalmKept DEF AtDtor, Unaffected
  <2>4. AtEnd'
    BY <1>2, <1>8, <1>l, <2>1, <2>2, <2>3 DEF AtDtor, AtEnd
  <2> QED BY <2>2, <2>4
<1>m. CASE \/ AtEngage(p) \/ AtDisengage(p) \/ AtRebuildGutted(p, s, how)
           \/ AtHandedOver(p, q) \/ AtTrivialHandedOver(p, q)
           \/ AtDirect(p, s, how)
  <2>1. Head(todo) \in {Engage(p), Disengage(p)}
    BY <1>m, HeadsAndTails DEF AtEngage, AtDisengage, AtRebuildGutted,
       AtHandedOver, AtTrivialHandedOver, AtDirect
  <2>2. FALSE
    BY <1>1, <2>1, StmtFields DEF TOps
  <2> QED BY <2>2
<1> QED BY <1>6, <1>a, <1>b, <1>c, <1>d, <1>e, <1>f, <1>g, <1>h, <1>i, <1>j,
           <1>k, <1>l, <1>m DEF Stage

(* So does setting or clearing a flag.                                     *)
LEMMA RunFlagKeepsStage == StageInv /\ RunFlag => StageInv'
<1> SUFFICES ASSUME StageInv, RunFlag PROVE StageInv'
  OBVIOUS
<1> DEFINE T == Opts \cup {Arg, Tmp}
<1>1. /\ TypeOK /\ OneAtATime /\ InProgress
      /\ busy /\ outcome = "pending" /\ todo # <<>>
      /\ Head(todo).do \in {"engage", "disengage"}
      /\ init \in [Opts -> BOOLEAN]
  BY DEF StageInv, RunFlag, Running, AtEnd, InProgress, TypeOK
<1>2. /\ init' = [init EXCEPT ![Head(todo).at] = (Head(todo).do = "engage")]
      /\ todo' = Tail(todo)
      /\ UNCHANGED <<life, slot, busy, call, outcome, before>>
  BY DEF RunFlag
<1> DEFINE flag == Head(todo).do = "engage"
<1>8. flag \in BOOLEAN /\ init' = [init EXCEPT ![Head(todo).at] = flag]
  BY <1>2
<1>9. /\ \A r : Head(todo) = Engage(r) => flag = TRUE /\ Head(todo).at = r
      /\ \A r : Head(todo) = Disengage(r)
               => flag = FALSE /\ Head(todo).at = r
  <2>1. ASSUME NEW r, Head(todo) = Engage(r)
        PROVE  flag = TRUE /\ Head(todo).at = r
    <3>1. Head(todo).do = "engage" /\ Head(todo).at = r
      BY <2>1, StmtFields
    <3> QED BY <3>1, Zenon
  <2>2. ASSUME NEW r, Head(todo) = Disengage(r)
        PROVE  flag = FALSE /\ Head(todo).at = r
    <3>1. Head(todo).do # "engage" /\ Head(todo).at = r
      BY <2>2, StmtFields
    <3> QED BY <3>1, Zenon
  <2> QED BY <2>1, <2>2
<1> HIDE DEF flag
<1>3. todo' \in Seq(Stmts) /\ init' \in [Opts -> BOOLEAN]
  <2>1. todo' \in Seq(Stmts)
    BY <1>1, <1>2 DEF TypeOK
  <2>2. init' \in [Opts -> BOOLEAN]
    BY <1>1, <1>8
  <2> QED BY <2>1, <2>2
<1>4. OneAtATime'
  BY <1>1, <1>2 DEF OneAtATime
<1>5. TypeOK' /\ busy' /\ outcome' = "pending"
  BY <1>1, <1>2, <1>3, TypeKept DEF TypeOK, SlotType
<1>6. PICK p \in Opts, q \in Opts, s \in T, how \in Hows :
        Stage(p, q, s, how)
  BY <1>1 DEF InProgress
<1>7. SUFFICES AtEnd' \/ \E p1 \in Opts, q1 \in Opts,
                           s1 \in T, how1 \in Hows : Stage(p1, q1, s1, how1)'
  BY <1>4, <1>5 DEF StageInv, InProgress
<1> HIDE DEF T
<1>a. CASE AtEngage(p)
  <2>1. Head(todo) = Engage(p) /\ todo' = <<>>
    BY <1>2, <1>a, HeadsAndTails DEF AtEngage
  <2>2. init' = [init EXCEPT ![p] = TRUE]
    BY <1>8, <1>9, <2>1
  <2>3. CalmBut({p})'
    BY <1>1, <1>2, <1>a, <2>2, CalmKept DEF AtEngage
  <2>4. CASE life[p] = "alive"
    <3>1. Calm(p)'
      BY <1>1, <1>2, <1>a, <2>2, <2>4 DEF AtEngage, Calm, Full
    <3> QED BY <1>5, <2>1, <2>3, <3>1, EndsCalm DEF CalmBut
  <2>5. CASE life[p] \in Building
    <3>1. p = call.o
      BY <1>1, <2>5 DEF OneAtATime
    <3> QED BY <1>1, <1>2, <1>5, <1>a, <2>1, <2>2, <2>3, <2>5, <3>1
            DEF AtEngage, AtEnd, Full
  <2> QED BY <1>a, <2>4, <2>5 DEF AtEngage, InLifetime
<1>b. CASE AtDisengage(p)
  <2>1. Head(todo) = Disengage(p) /\ todo' = <<>>
    BY <1>2, <1>b, HeadsAndTails DEF AtDisengage
  <2>2. init' = [init EXCEPT ![p] = FALSE]
    BY <1>8, <1>9, <2>1
  <2>3. CalmBut({p})'
    BY <1>1, <1>2, <1>b, <2>2, CalmKept DEF AtDisengage
  <2>4. CASE life[p] = "alive"
    <3>1. Calm(p)'
      BY <1>1, <1>2, <1>b, <2>2, <2>4 DEF AtDisengage, Gutted, Calm, Empty
    <3> QED BY <1>5, <2>1, <2>3, <3>1, EndsCalm DEF CalmBut
  <2>5. CASE life[p] = "dying"
    <3>1. p = call.o
      BY <1>1, <2>5 DEF OneAtATime
    <3> QED BY <1>1, <1>2, <1>5, <1>b, <2>1, <2>3, <2>5, <3>1
            DEF AtDisengage, AtEnd, Gutted
  <2> QED BY <1>b, <2>4, <2>5 DEF AtDisengage, InReach
<1>c. CASE AtRebuildGutted(p, s, how)
  <2>1. /\ Head(todo) = Disengage(p)
        /\ todo' = <<Construct(p, s, how), Engage(p)>>
    BY <1>2, <1>c, HeadsAndTails DEF AtRebuildGutted
  <2>2. init' = [init EXCEPT ![p] = FALSE]
    BY <1>8, <1>9, <2>1
  <2>3. CalmBut({p})'
    BY <1>1, <1>2, <1>c, <2>2, CalmKept DEF AtRebuildGutted
  <2>4. Readable(p, s)'
    BY <1>2, <1>c DEF AtRebuildGutted, Readable
  <2>5. AtInit(p, s, how)'
    BY <1>1, <1>2, <1>c, <2>1, <2>2, <2>3, <2>4
       DEF AtRebuildGutted, AtInit, Rebuilders, Alive, InLifetime, Gutted, Empty, Full,
           Building
  <2> QED BY <2>5 DEF Stage
<1>d. CASE AtHandedOver(p, q)
  <2>1. /\ Head(todo) = Engage(p)
        /\ todo' = <<Destroy(q), Disengage(q)>>
    BY <1>2, <1>d, HeadsAndTails DEF AtHandedOver
  <2>2. init' = [init EXCEPT ![p] = TRUE]
    BY <1>8, <1>9, <2>1
  <2>3. CalmBut({q})'
    BY <1>1, <1>2, <1>d, <2>2
       DEF AtHandedOver, CalmBut, Calm, Alive, Empty, Full
  <2>4. AtReset(q)'
    BY <1>1, <1>2, <1>d, <2>1, <2>2, <2>3
       DEF AtHandedOver, AtReset, Alive, InReach, Full
  <2> QED BY <2>4 DEF Stage
<1>e. CASE AtTrivialHandedOver(p, q)
  <2>1. Head(todo) = Engage(p) /\ todo' = <<Disengage(q)>>
    BY <1>2, <1>e, HeadsAndTails DEF AtTrivialHandedOver
  <2>2. init' = [init EXCEPT ![p] = TRUE]
    BY <1>8, <1>9, <2>1
  <2>3. CalmBut({q})'
    BY <1>1, <1>2, <1>e, <2>2
       DEF AtTrivialHandedOver, CalmBut, Calm, Alive, Empty, Full
  <2>4. AtDisengage(q)'
    BY <1>1, <1>2, <1>e, <2>1, <2>2, <2>3
       DEF AtTrivialHandedOver, AtDisengage, Alive, InReach, Gutted, Full
  <2> QED BY <2>4 DEF Stage
<1>f. CASE AtDirect(p, s, how)
  <2>1. Head(todo) = Engage(p) /\ todo' = <<Construct(p, s, how)>>
    BY <1>2, <1>f, HeadsAndTails DEF AtDirect
  <2>2. init' = [init EXCEPT ![p] = TRUE]
    BY <1>8, <1>9, <2>1
  <2>3. CalmBut({p})'
    BY <1>1, <1>2, <1>f, <2>2, CalmKept DEF AtDirect
  <2>4. AtDirectConstruct(p, s, how)'
    BY <1>1, <1>2, <1>f, <2>1, <2>2, <2>3 DEF AtDirect, AtDirectConstruct
  <2> QED BY <2>4 DEF Stage
<1>g. CASE \/ AtInit(p, s, how) \/ AtReset(p) \/ AtRebuild(p, s, how)
           \/ AtHandOver(p, q) \/ AtTrivialHandOver(p, q)
           \/ AtConvertAssign(p, s, how) \/ AtConvertInit(p, s, how)
           \/ AtAssign(p, s, how) \/ AtSwap(p, q) \/ AtResult(s, how)
           \/ AtDirectConstruct(p, s, how) \/ AtDtor(p)
  <2>1. \/ \E r \in {p, Tmp, Ret} : \/ Head(todo) = Construct(r, s, how)
                                    \/ Head(todo) = Construct(r, q, "move")
        \/ Head(todo) \in {Destroy(p), AssignT(p, s, how), SwapT(p, q)}
    BY <1>g, HeadsAndTails DEF AtInit, AtReset, AtRebuild, AtHandOver,
       AtTrivialHandOver, AtConvertAssign, AtConvertInit, AtAssign, AtSwap,
       AtResult, AtDirectConstruct, AtDtor
  <2>2. FALSE
    BY <1>1, <2>1, StmtFields
  <2> QED BY <2>2
<1> QED BY <1>6, <1>a, <1>b, <1>c, <1>d, <1>e, <1>f, <1>g DEF Stage

(* Only a constructor that was about to engage its optional can throw in   *)
(* its body, so the storage that unwinding destroys holds no T.            *)
LEMMA NothingToUnwind ==
    ASSUME StageInv, Running({"construct", "assign", "swap"}),
           life[call.o] = "body"
    PROVE  ~init[call.o]
<1> DEFINE T == Opts \cup {Arg, Tmp}
<1>1. /\ InProgress /\ call.o \in Opts
      /\ Head(todo).do \in {"construct", "assign", "swap"}
  BY DEF StageInv, Running, AtEnd, TypeOK
<1>2. PICK p \in Opts, q \in Opts, s \in T, how \in Hows :
        Stage(p, q, s, how)
  BY <1>1 DEF InProgress
<1>3. ~Calm(call.o) /\ ~Alive(call.o) /\ life[call.o] # "storage"
  BY DEF Calm, Alive
<1>4. CASE AtReset(p) \/ AtRebuild(p, s, how) \/ AtDtor(p) \/ AtEngage(p)
           \/ AtDisengage(p) \/ AtRebuildGutted(p, s, how)
           \/ AtHandedOver(p, q) \/ AtTrivialHandedOver(p, q)
           \/ AtDirect(p, s, how)
  <2>1. Head(todo) \in {Destroy(p), Engage(p), Disengage(p)}
    BY <1>4, HeadsAndTails DEF AtReset, AtRebuild, AtDtor, AtEngage,
       AtDisengage, AtRebuildGutted, AtHandedOver, AtTrivialHandedOver, AtDirect
  <2> QED BY <1>1, <2>1, StmtFields
<1>5. CASE AtInit(p, s, how) \/ AtConvertInit(p, s, how)
  BY <1>1, <1>3, <1>5 DEF AtInit, AtConvertInit, CalmBut, Empty
<1>6. CASE AtHandOver(p, q) \/ AtTrivialHandOver(p, q) \/ AtSwap(p, q)
  BY <1>1, <1>3, <1>6 DEF AtHandOver, AtTrivialHandOver, AtSwap, CalmBut
<1>7. CASE AtConvertAssign(p, s, how) \/ AtAssign(p, s, how)
           \/ AtResult(s, how) \/ AtDirectConstruct(p, s, how)
  BY <1>1, <1>3, <1>7 DEF AtConvertAssign, AtAssign, AtResult,
     AtDirectConstruct, CalmBut
<1> QED BY <1>2, <1>4, <1>5, <1>6, <1>7 DEF Stage

(* An operation of T that throws, with nothing to unwind, leaves a state   *)
(* in which every optional is calm but the one under construction.         *)
LEMMA ThrowKeepsStage == StageInv /\ ThrowT(<<>>) => StageInv'
<1> SUFFICES ASSUME StageInv, ThrowT(<<>>) PROVE StageInv'
  OBVIOUS
<1> DEFINE T == Opts \cup {Arg, Tmp}
<1>1. /\ TypeOK /\ OneAtATime /\ InProgress /\ SlotType /\ busy
      /\ Head(todo).do \in {"construct", "assign", "swap"}
      /\ init \in [Opts -> BOOLEAN]
  BY DEF StageInv, ThrowT, Running, AtEnd, InProgress, TypeOK, SlotType
<1>2. /\ slot' \in Throws(Head(todo)) /\ todo' = <<>> /\ outcome' = "threw"
      /\ UNCHANGED <<life, init, busy, call, before>>
  BY DEF ThrowT
<1>3. todo' \in Seq(Stmts) /\ outcome' \in Outcomes
  BY <1>2 DEF Outcomes
<1>4. OneAtATime'
  BY <1>1, <1>2 DEF OneAtATime
<1>5. SlotType' => TypeOK'
  BY <1>1, <1>2, <1>3, TypeKept
<1>6. SUFFICES SlotType' /\ AtEnd'
  BY <1>4, <1>5 DEF StageInv
<1>7. PICK p \in Opts, q \in Opts, s \in T, how \in Hows :
        Stage(p, q, s, how)
  BY <1>1 DEF InProgress
<1>8. /\ p \in Places \ {Arg} /\ q \in Places \ {Arg} /\ s \in Places
      /\ Ret \in Places \ {Arg} /\ Tmp \in Places \ {Arg}
      /\ "move" \in Hows /\ Tmp # p /\ Tmp # q /\ Ret # p
  BY PlacesDiffer DEF Hows
<1> HIDE DEF T
<1>9. ASSUME SlotType', CalmBut({p})', slot'[p] = Raw,
             life[p] = "storage" \/ Calm(p)' \/ life[p] \in Building
      PROVE  AtEnd'
  <2>1. TypeOK'
    BY <1>5, <1>9
  <2>2. CASE Calm(p)'
    BY <1>2, <1>9, <2>1, <2>2, EndsCalm DEF CalmBut
  <2>3. CASE life[p] \in Building
    <3>1. p = call.o
      BY <1>1, <2>3 DEF OneAtATime
    <3> QED BY <1>1, <1>2, <1>9, <2>1, <2>3, <3>1 DEF AtEnd
  <2> QED BY <1>9, <2>2, <2>3 DEF Building
<1>a. CASE AtInit(p, s, how)
  <2>1. Head(todo) = Construct(p, s, how)
    BY <1>a, HeadsAndTails DEF AtInit
  <2>2. SlotType' /\ slot'[p] = Raw /\ Unaffected({p})
    BY <1>1, <1>2, <1>8, <1>a, <2>1, ConstructThrows DEF AtInit, Readable
  <2>3. CalmBut({p})'
    BY <1>2, <1>a, <2>2, PlacesDiffer, CalmKept DEF AtInit, Unaffected
  <2>4. Calm(p)' \/ life[p] \in Building
    BY <1>2, <1>a, <2>2 DEF AtInit, InLifetime, Calm, Empty
  <2> QED BY <1>9, <2>2, <2>3, <2>4
<1>b. CASE AtHandOver(p, q) \/ AtTrivialHandOver(p, q)
  <2>1. Head(todo) = Construct(p, q, "move")
    BY <1>b, HeadsAndTails DEF AtHandOver, AtTrivialHandOver
  <2>2. SlotType' /\ slot'[p] = Raw /\ Unaffected({p})
    BY <1>1, <1>2, <1>8, <1>b, <2>1, ConstructThrows
       DEF AtHandOver, AtTrivialHandOver, Full
  <2>3. \A r \in Opts : Calm(r)'
    BY <1>2, <1>b, <2>2, PlacesDiffer DEF AtHandOver, AtTrivialHandOver,
       Unaffected, CalmBut, Calm, Alive, Empty, Full
  <2> QED BY <1>2, <1>5, <2>2, <2>3, EndsCalm
<1>c. CASE AtConvertAssign(p, s, how)
  <2>1. Head(todo) = Construct(Tmp, s, how)
    BY <1>c, HeadsAndTails DEF AtConvertAssign
  <2>2. SlotType' /\ Unaffected({Tmp})
    BY <1>1, <1>2, <1>8, <1>c, <2>1, ConstructThrows DEF AtConvertAssign
  <2>3. \A r \in Opts : Calm(r)'
    BY <1>2, <1>c, <2>2, PlacesDiffer DEF AtConvertAssign,
       Unaffected, CalmBut, Calm, Alive, Empty, Full
  <2> QED BY <1>2, <1>5, <2>2, <2>3, EndsCalm
<1>d. CASE AtConvertInit(p, s, how)
  <2>1. Head(todo) = Construct(Tmp, s, how)
    BY <1>d, HeadsAndTails DEF AtConvertInit
  <2>2. SlotType' /\ Unaffected({Tmp})
    BY <1>1, <1>2, <1>8, <1>d, <2>1, ConstructThrows DEF AtConvertInit
  <2>3. CalmBut({p})'
    BY <1>2, <1>d, <2>2, PlacesDiffer, CalmKept DEF AtConvertInit, Unaffected
  <2>4. slot'[p] = Raw <=> slot[p] = Raw
    BY <1>8, <2>2 DEF Unaffected
  <2>5. CASE life[p] = "alive"
    <3>1. Calm(p)'
      BY <1>2, <1>d, <2>4, <2>5 DEF AtConvertInit, Calm, Empty
    <3> QED BY <1>2, <1>5, <2>2, <2>3, <3>1, EndsCalm DEF CalmBut
  <2>6. CASE life[p] \in Building
    BY <1>9, <1>d, <2>2, <2>3, <2>4, <2>6 DEF AtConvertInit
  <2> QED BY <1>d, <2>5, <2>6 DEF AtConvertInit, InLifetime
<1>e. CASE AtAssign(p, s, how)
  <2>1. Head(todo) = AssignT(p, s, how)
    BY <1>e, HeadsAndTails DEF AtAssign
  <2>2. SlotType' /\ Unaffected({})
    BY <1>1, <1>2, <1>8, <1>e, <2>1, AssignKeeps DEF AtAssign, Full
  <2>3. \A r \in Opts : Calm(r)'
    BY <1>2, <1>8, <1>e, <2>2, PlacesDiffer
       DEF AtAssign, CalmBut, Calm, Alive, Empty, Full, Unaffected
  <2> QED BY <1>2, <1>5, <2>2, <2>3, EndsCalm
<1>f. CASE AtSwap(p, q)
  <2>1. Head(todo) = SwapT(p, q)
    BY <1>f, HeadsAndTails DEF AtSwap
  <2>2. SlotType' /\ Unaffected({})
    BY <1>1, <1>2, <1>8, <1>f, <2>1, SwapKeeps DEF AtSwap, Full
  <2>3. \A r \in Opts : Calm(r)'
    BY <1>2, <1>8, <1>f, <2>2, PlacesDiffer
       DEF AtSwap, CalmBut, Calm, Alive, Empty, Full, Unaffected
  <2> QED BY <1>2, <1>5, <2>2, <2>3, EndsCalm
<1>g. CASE AtResult(s, how)
  <2>1. Head(todo) = Construct(Ret, s, how)
    BY <1>g, HeadsAndTails DEF AtResult
  <2>2. SlotType' /\ Unaffected({Ret})
    BY <1>1, <1>2, <1>8, <1>g, <2>1, ConstructThrows DEF AtResult
  <2>3. \A r \in Opts : Calm(r)'
    BY <1>2, <1>g, <2>2, PlacesDiffer
       DEF AtResult, CalmBut, Calm, Empty, Full, Unaffected
  <2> QED BY <1>2, <1>5, <2>2, <2>3, EndsCalm
<1>h. CASE AtDirectConstruct(p, s, how)
  <2>1. Head(todo) = Construct(p, s, how)
    BY <1>h, HeadsAndTails DEF AtDirectConstruct
  <2>2. SlotType' /\ slot'[p] = Raw /\ Unaffected({p})
    BY <1>1, <1>2, <1>8, <1>h, <2>1, ConstructThrows DEF AtDirectConstruct
  <2>3. CalmBut({p})'
    BY <1>2, <1>h, <2>2, PlacesDiffer, CalmKept
       DEF AtDirectConstruct, Unaffected
  <2> QED BY <1>9, <1>h, <2>2, <2>3 DEF AtDirectConstruct
<1>i. CASE AtReset(p) \/ AtRebuild(p, s, how) \/ AtDtor(p) \/ AtEngage(p)
           \/ AtDisengage(p) \/ AtRebuildGutted(p, s, how)
           \/ AtHandedOver(p, q) \/ AtTrivialHandedOver(p, q)
           \/ AtDirect(p, s, how)
  <2>1. Head(todo) \in {Destroy(p), Engage(p), Disengage(p)}
    BY <1>i, HeadsAndTails DEF AtReset, AtRebuild, AtDtor, AtEngage,
       AtDisengage, AtRebuildGutted, AtHandedOver, AtTrivialHandedOver, AtDirect
  <2>2. FALSE
    BY <1>1, <2>1, StmtFields
  <2> QED BY <2>2
<1> QED BY <1>7, <1>a, <1>b, <1>c, <1>d, <1>e, <1>f, <1>g, <1>h, <1>i
        DEF Stage

(* A call that has nothing left to do is at its end.                       *)
LEMMA EndReached == StageInv /\ todo = <<>> => AtEnd
<1>1. ASSUME NEW p, NEW q, NEW s, NEW how, Stage(p, q, s, how)
      PROVE  todo # <<>>
  BY <1>1, HeadsAndTails DEF Stage, AtInit, AtEngage, AtReset, AtDisengage,
     AtRebuild, AtRebuildGutted, AtHandOver, AtHandedOver,
     AtTrivialHandOver, AtTrivialHandedOver, AtConvertAssign,
     AtConvertInit, AtAssign, AtSwap, AtResult, AtDirect,
     AtDirectConstruct, AtDtor
<1> QED BY <1>1 DEF StageInv, InProgress

(* A call that is over leaves every optional calm.                         *)
LEMMA ReturnKeepsStage == StageInv /\ Return => StageInv'
<1> SUFFICES ASSUME StageInv, Return PROVE StageInv'
  OBVIOUS
<1>1. /\ TypeOK /\ OneAtATime /\ busy /\ todo = <<>>
      /\ call.o \in Opts /\ Trivial \in BOOLEAN
  BY ObjectModelAssumption DEF StageInv, Return, TypeOK
<1>2. AtEnd
  BY <1>1, EndReached
<1>3. /\ todo' = <<>> /\ call' = call /\ before' = before
      /\ busy' = FALSE
      /\ outcome' = IF outcome = "pending" THEN "returned" ELSE outcome
  BY <1>1 DEF Return
<1>4. /\ life' = [o \in Opts |-> IF Gone(o) THEN "absent"
                                 ELSE IF life[o] \in Building THEN "alive"
                                 ELSE life[o]]
      /\ init' = [o \in Opts |-> init[o] /\ ~Gone(o)]
      /\ slot' = [p \in Places |-> IF p \in Opts /\ Trivial /\ Gone(p)
                                   THEN Raw ELSE slot[p]]
  BY DEF Return
<1>5. TypeOK'
  <2>1. life' \in [Opts -> Lives] /\ init' \in [Opts -> BOOLEAN]
    BY <1>1, <1>4 DEF TypeOK, Lives
  <2>2. slot' \in [Places -> Objects \cup {Raw}] /\ slot'[Arg] # Raw
    BY <1>1, <1>4, PlacesDiffer DEF TypeOK
  <2>3. outcome' \in Outcomes /\ todo' \in Seq(Stmts)
    BY <1>1, <1>3 DEF TypeOK, Outcomes
  <2> QED BY <1>1, <1>3, <2>1, <2>2, <2>3 DEF TypeOK
<1>6. ASSUME NEW r \in Opts
      PROVE  Calm(r)' /\ life'[r] \notin Building \cup {"dying"}
  <2>1. /\ life'[r] = IF Gone(r) THEN "absent"
                      ELSE IF life[r] \in Building THEN "alive" ELSE life[r]
        /\ init'[r] = (init[r] /\ ~Gone(r))
        /\ slot'[r] = IF Trivial /\ Gone(r) THEN Raw ELSE slot[r]
        /\ init[r] \in BOOLEAN
    BY <1>1, <1>4, PlacesDiffer DEF TypeOK
  <2>2. CASE Calm(r)
    <3>1. life[r] \in {"absent", "alive"}
      BY <2>2 DEF Calm
    <3>2. ~Gone(r)
      BY <3>1 DEF Gone, Building
    <3>3. life'[r] = life[r] /\ slot'[r] = slot[r] /\ init'[r] = init[r]
      BY <2>1, <3>1, <3>2 DEF Building
    <3> QED BY <2>2, <3>1, <3>3 DEF Calm, Empty, Full, Building
  <2>3. CASE ~Calm(r)
    <3>1. r = call.o
      BY <1>2, <2>3 DEF AtEnd, CalmBut
    <3>2. CASE life[r] \in Building /\ outcome = "threw"
      <4>1. Gone(r) /\ slot[r] = Raw
        BY <1>2, <2>3, <3>1, <3>2 DEF AtEnd, Gone, Building
      <4> QED BY <2>1, <4>1 DEF Calm, Building
    <3>3. CASE life[r] \in Building /\ outcome = "pending"
      <4>1. ~Gone(r) /\ (Empty(r) \/ Full(r))
        BY <1>2, <2>3, <3>1, <3>3 DEF AtEnd, Gone, Building
      <4>2. life'[r] = "alive" /\ slot'[r] = slot[r] /\ init'[r] = init[r]
        BY <2>1, <3>3, <4>1
      <4> QED BY <4>1, <4>2 DEF Calm, Empty, Full, Building
    <3>4. CASE life[r] = "dying"
      <4>1. Gone(r) /\ (Trivial \/ slot[r] = Raw)
        BY <1>2, <2>3, <3>1, <3>4 DEF AtEnd, Gone, Building
      <4> QED BY <2>1, <4>1 DEF Calm, Building
    <3> QED BY <1>2, <2>3, <3>1, <3>2, <3>3, <3>4 DEF AtEnd
  <2> QED BY <2>2, <2>3
<1> QED BY <1>3, <1>5, <1>6, EndsCalm DEF StageInv, OneAtATime

(* The program starts with no optional in its lifetime and no call in      *)
(* progress, which satisfies the invariant.                                *)
LEMMA InitKeepsStage == InitObjects => StageInv
<1> SUFFICES ASSUME InitObjects PROVE StageInv
  OBVIOUS
<1>1. /\ life = [o \in Opts |-> "absent"] /\ init = [o \in Opts |-> FALSE]
      /\ slot = [p \in Places |-> IF p = Arg THEN Unspec ELSE Raw]
      /\ todo = <<>> /\ busy = FALSE /\ outcome = "none"
  BY DEF InitObjects
<1>2. \A r \in Opts : Calm(r) /\ life[r] = "absent"
  BY <1>1, PlacesDiffer DEF Calm
<1>3. call.o \in Opts
      /\ call \in [op : CallOps, o : Opts, from : Opts \cup {Arg}, how : Hows]
  <2> DEFINE d == CHOOSE o \in Opts : TRUE
  <2>1. d \in Opts
    BY ObjectModelAssumption
  <2>2. call = [op |-> "none", o |-> d, from |-> Arg, how |-> "copy"]
    BY DEF InitObjects
  <2> HIDE DEF d
  <2>3. call.o \in Opts
    BY <2>1, <2>2
  <2>4. "none" \in CallOps /\ "copy" \in Hows
    BY DEF CallOps, Hows
  <2>5. call \in [op : CallOps, o : Opts, from : Opts \cup {Arg}, how : Hows]
    BY <2>1, <2>2, <2>4
  <2> QED BY <2>3, <2>5
<1>4. before \in [Opts \cup {Arg} -> Objects \cup {None, Absent}]
  <2>1. before = Seen
    BY DEF InitObjects
  <2> QED BY <1>1, <1>2, <2>1, RawIsNoObject, PlacesDiffer DEF Seen
<1>5. TypeOK
  <2>1. life \in [Opts -> Lives] /\ init \in [Opts -> BOOLEAN]
    BY <1>1 DEF Lives
  <2>2. slot \in [Places -> Objects \cup {Raw}] /\ slot[Arg] # Raw
    BY <1>1, RawIsNoObject, PlacesDiffer
  <2>3. todo \in Seq(Stmts) /\ busy \in BOOLEAN
    <3>1. <<>> \in Seq(Stmts)
      OBVIOUS
    <3>2. busy \in BOOLEAN
      BY <1>1
    <3> QED BY <1>1, <3>1, <3>2
  <2>4. outcome \in Outcomes
    BY <1>1 DEF Outcomes
  <2> QED BY <1>3, <1>4, <2>1, <2>2, <2>3, <2>4 DEF TypeOK
<1> QED BY <1>1, <1>2, <1>3, <1>5
        DEF StageInv, OneAtATime, AtEnd, CalmBut, Building

(* The invariant depends on the variables of the object model only.        *)
LEMMA StutterKeepsStage == StageInv /\ UNCHANGED vars => StageInv'
<1> SUFFICES ASSUME StageInv, UNCHANGED vars PROVE StageInv'
  OBVIOUS
<1>1. /\ life' = life /\ init' = init /\ slot' = slot /\ todo' = todo
      /\ busy' = busy /\ call' = call /\ outcome' = outcome
      /\ before' = before
  BY DEF vars
<1>2. TypeOK' /\ OneAtATime'
  BY <1>1 DEF StageInv, TypeOK, OneAtATime
<1>3. ASSUME NEW r PROVE Calm(r)' <=> Calm(r)
  BY <1>1 DEF Calm, Empty, Full
<1>4. ASSUME NEW P PROVE CalmBut(P)' <=> CalmBut(P)
  BY <1>3 DEF CalmBut
<1>5. AtEnd => AtEnd'
  BY <1>1, <1>3, <1>4 DEF AtEnd, Empty, Full
<1>6. ASSUME NEW p, NEW q, NEW s, NEW how, Stage(p, q, s, how)
      PROVE  Stage(p, q, s, how)'
  <2>1. Readable(p, s)' <=> Readable(p, s)
    BY <1>1 DEF Readable
  <2> QED BY <1>1, <1>4, <1>6, <2>1 DEF Stage, AtInit, AtEngage, AtReset,
          AtDisengage, AtRebuild, AtRebuildGutted, AtHandOver, AtHandedOver,
          AtTrivialHandOver, AtTrivialHandedOver, AtConvertAssign,
          AtConvertInit, AtAssign, AtSwap, AtResult, AtDirect,
          AtDirectConstruct, AtDtor, Empty, Full, Gutted, InLifetime,
          InReach, Alive
<1> QED BY <1>1, <1>2, <1>5, <1>6 DEF StageInv, InProgress

------------------------------------------------------------------------------
(* What the invariant says of the properties.                              *)
LEMMA NextFlag ==
    ASSUME NEW p \in Opts, todo # <<>>
    PROVE  /\ Head(todo) = Engage(p) => Pending({"engage"}, p)
           /\ Head(todo) = Disengage(p) => Pending({"disengage"}, p)
  BY PlacesDiffer DEF Pending, Engage, Disengage, Stmt, Hows

(* In every state that the invariant allows, has_value() agrees with the   *)
(* storage: each program keeps the flag and the T in step, but for the one *)
(* statement that is about to bring them together again.                   *)
LEMMA FlagFollows == StageInv => FlagTellsTheTruth
<1> SUFFICES ASSUME StageInv, NEW o \in Opts, life[o] \in {"alive", "dying"}
             PROVE  /\ init[o] => \/ slot[o] # Raw
                                  \/ Pending({"disengage"}, o)
                                  \/ life[o] = "dying" /\ todo = <<>>
                    /\ ~Trivial /\ slot[o] # Raw
                         => init[o] \/ Pending({"engage"}, o)
  BY DEF FlagTellsTheTruth
<1>1. CASE Calm(o)
  BY <1>1 DEF Calm, Empty, Full
<1>2. CASE AtEnd
  BY <1>1, <1>2 DEF AtEnd, CalmBut, Building
<1>3. CASE InProgress
  <2>1. PICK p \in Opts, q \in Opts, s \in Opts \cup {Arg, Tmp}, how \in Hows :
          Stage(p, q, s, how)
    BY <1>3 DEF InProgress
  <2>2. CASE AtInit(p, s, how) \/ AtConvertInit(p, s, how)
    BY <1>1, <2>2 DEF AtInit, AtConvertInit, CalmBut, Empty
  <2>3. CASE \/ AtReset(p) \/ AtRebuild(p, s, how) \/ AtDtor(p)
             \/ AtConvertAssign(p, s, how) \/ AtAssign(p, s, how)
    BY <1>1, <2>3 DEF AtReset, AtRebuild, AtDtor, AtConvertAssign, AtAssign,
       CalmBut, Full
  <2>4. CASE \/ AtHandOver(p, q) \/ AtTrivialHandOver(p, q) \/ AtSwap(p, q)
    BY <1>1, <2>4 DEF AtHandOver, AtTrivialHandOver, AtSwap, CalmBut, Empty,
       Full
  <2>5. CASE \/ AtResult(s, how) \/ AtDirect(p, s, how)
             \/ AtDirectConstruct(p, s, how)
    BY <1>1, <2>5 DEF AtResult, AtDirect, AtDirectConstruct, CalmBut
  <2>6. CASE \/ AtEngage(p) \/ AtHandedOver(p, q) \/ AtTrivialHandedOver(p, q)
    <3>1. Pending({"engage"}, p)
      BY <2>6, HeadsAndTails, NextFlag
         DEF AtEngage, AtHandedOver, AtTrivialHandedOver
    <3>2. ~init[p] /\ (o \notin {p, q} => Calm(o))
      BY <2>6 DEF AtEngage, AtHandedOver, AtTrivialHandedOver, CalmBut
    <3>3. ~AtEngage(p) => Full(q)
      BY <2>6 DEF AtHandedOver, AtTrivialHandedOver
    <3>4. AtEngage(p) => o = p \/ Calm(o)
      BY DEF AtEngage, CalmBut
    <3> QED BY <1>1, <3>1, <3>2, <3>3, <3>4 DEF Full
  <2>7. CASE AtDisengage(p) \/ AtRebuildGutted(p, s, how)
    <3>1. Pending({"disengage"}, p)
      BY <2>7, HeadsAndTails, NextFlag DEF AtDisengage, AtRebuildGutted
    <3>2. Gutted(p) /\ (o # p => Calm(o))
      BY <2>7 DEF AtDisengage, AtRebuildGutted, CalmBut
    <3> QED BY <1>1, <3>1, <3>2 DEF Gutted
  <2> QED BY <2>1, <2>2, <2>3, <2>4, <2>5, <2>6, <2>7 DEF Stage
<1> QED BY <1>2, <1>3 DEF StageInv

(* In every state that the invariant allows, storage outside the lifetime  *)
(* of its optional holds no T.                                             *)
LEMMA LeaksFollow == StageInv => NothingLeaks
<1> SUFFICES ASSUME StageInv, NEW o \in Opts, life[o] = "absent"
             PROVE  slot[o] = Raw
  BY DEF NothingLeaks
<1>1. CASE Calm(o)
  BY <1>1 DEF Calm
<1>2. CASE AtEnd
  BY <1>1, <1>2 DEF AtEnd, CalmBut, Building
<1>3. CASE InProgress
  <2>1. PICK p \in Opts, q \in Opts, s \in Opts \cup {Arg, Tmp}, how \in Hows :
          Stage(p, q, s, how)
    BY <1>3 DEF InProgress
  <2>2. Calm(o)
    BY <2>1 DEF Stage, AtInit,
       AtEngage, AtReset, AtDisengage, AtRebuild, AtRebuildGutted, AtHandOver,
       AtHandedOver, AtTrivialHandOver, AtTrivialHandedOver, AtConvertAssign,
       AtConvertInit, AtAssign, AtSwap, AtResult, AtDirect, AtDirectConstruct,
       AtDtor, CalmBut, InLifetime, InReach, Alive, Building
  <2> QED BY <1>1, <2>2
<1> QED BY <1>2, <1>3 DEF StageInv

(* In every state that the invariant allows, the next statement of the     *)
(* call respects the lifetimes of the objects it works on.                 *)
LEMMA LifetimesFollow == StageInv => LifetimesRespected
<1> DEFINE OK(st) ==
      /\ st.do = "construct" =>
           /\ Trivial \/ slot[st.at] = Raw
           /\ (st.at \in Opts /\ Alive(st.at)) => ~init[st.at]
           /\ ReadsDead(st) => call.op \in Rebuilders /\ call.from = call.o
      /\ st.do \in {"destroy", "assign", "swap"} =>
           slot[st.at] # Raw /\ slot[st.from] # Raw
<1> SUFFICES ASSUME StageInv, busy, todo # <<>> PROVE OK(Head(todo))
  BY DEF LifetimesRespected
<1>1. PICK p \in Opts, q \in Opts, s \in Opts \cup {Arg, Tmp}, how \in Hows :
        Stage(p, q, s, how)
  BY DEF StageInv, AtEnd, InProgress
<1>2. CASE AtInit(p, s, how)
  <2>1. Head(todo) = Construct(p, s, how)
    BY <1>2, HeadsAndTails DEF AtInit
  <2>2. s = p => call.op \in Rebuilders /\ call.from = call.o
    BY <1>2 DEF AtInit, Readable
  <2>3. /\ Trivial \/ slot[p] = Raw
        /\ ~init[p]
        /\ s # p => slot[s] # Raw
    BY <1>2 DEF AtInit, Readable, Empty
  <2> QED BY <2>1, <2>2, <2>3 DEF Construct, Stmt, ReadsDead
<1>3. CASE AtHandOver(p, q) \/ AtTrivialHandOver(p, q)
  <2>1. Head(todo) = Construct(p, q, "move")
    BY <1>3, HeadsAndTails DEF AtHandOver, AtTrivialHandOver
  <2>2. Empty(p) /\ slot[q] # Raw /\ p # q
    BY <1>3 DEF AtHandOver, AtTrivialHandOver, Full
  <2> QED BY <2>1, <2>2 DEF Construct, Stmt, ReadsDead, Empty
<1>4. CASE AtConvertAssign(p, s, how) \/ AtConvertInit(p, s, how)
  <2>1. Head(todo) = Construct(Tmp, s, how)
    BY <1>4, HeadsAndTails DEF AtConvertAssign, AtConvertInit
  <2>2. slot[Tmp] = Raw /\ slot[s] # Raw
    BY <1>4 DEF AtConvertAssign, AtConvertInit
  <2> QED BY <2>1, <2>2, PlacesDiffer DEF Construct, Stmt, ReadsDead
<1>5. CASE AtResult(s, how)
  <2>1. Head(todo) = Construct(Ret, s, how) /\ slot[Ret] = Raw /\ slot[s] # Raw
    BY <1>5, HeadsAndTails DEF AtResult
  <2> QED BY <2>1, PlacesDiffer DEF Construct, Stmt, ReadsDead
<1>6. CASE AtDirectConstruct(p, s, how)
  <2>1. /\ Head(todo) = Construct(p, s, how) /\ slot[p] = Raw
        /\ slot[s] # Raw /\ p # s /\ ~Alive(p)
    BY <1>6, HeadsAndTails DEF AtDirectConstruct, Alive
  <2> QED BY <2>1 DEF Construct, Stmt, ReadsDead
<1>7. CASE AtAssign(p, s, how)
  <2>1. Head(todo) = AssignT(p, s, how) /\ slot[p] # Raw /\ slot[s] # Raw
    BY <1>7, HeadsAndTails DEF AtAssign, Full
  <2> QED BY <2>1 DEF AssignT, Stmt
<1>8. CASE AtSwap(p, q)
  <2>1. Head(todo) = SwapT(p, q) /\ slot[p] # Raw /\ slot[q] # Raw
    BY <1>8, HeadsAndTails DEF AtSwap, Full
  <2> QED BY <2>1 DEF SwapT, Stmt
<1>9. CASE AtReset(p) \/ AtRebuild(p, s, how) \/ AtDtor(p)
  <2>1. Head(todo) = Destroy(p) /\ slot[p] # Raw
    BY <1>9, HeadsAndTails DEF AtReset, AtRebuild, AtDtor, Full
  <2> QED BY <2>1 DEF Destroy, Stmt
<1>10. CASE \/ AtEngage(p) \/ AtDisengage(p) \/ AtRebuildGutted(p, s, how)
            \/ AtHandedOver(p, q) \/ AtTrivialHandedOver(p, q)
            \/ AtDirect(p, s, how)
  <2>1. Head(todo) \in {Engage(p), Disengage(p)}
    BY <1>10, HeadsAndTails DEF AtEngage, AtDisengage, AtRebuildGutted,
       AtHandedOver, AtTrivialHandedOver, AtDirect
  <2> QED BY <2>1, StmtFields
<1> QED BY <1>1, <1>2, <1>3, <1>4, <1>5, <1>6, <1>7, <1>8, <1>9, <1>10
        DEF Stage

------------------------------------------------------------------------------
(* What a call owes its caller, step by step. *)

(* The statement that is next, and what is left in todo after it.          *)
LEMMA TodoParts ==
    ASSUME TypeOK, todo # <<>>
    PROVE  /\ Head(todo) \in Stmts /\ Head(todo) = todo[1]
           /\ 1 \in DOMAIN todo
           /\ \A i \in DOMAIN Tail(todo) : /\ i + 1 \in DOMAIN todo
                                           /\ Tail(todo)[i] = todo[i + 1]
<1>1. todo \in Seq(Stmts)
  BY DEF TypeOK
<1> QED BY <1>1

(* Statements that are left were there before.                             *)
LEMMA TailThrows ==
    ASSUME TypeOK, todo # <<>>, todo' = Tail(todo), MayYetThrow'
    PROVE  MayYetThrow
  BY TodoParts DEF MayYetThrow

(* What is left of a program when only flags and destructors remain.       *)
LEMMA NothingThrows ==
    ASSUME NEW p, NEW q,
           \/ todo' = <<>>
           \/ todo' = <<Engage(p)>>
           \/ todo' = <<Disengage(p)>>
           \/ todo' = <<Destroy(q), Disengage(q)>>
           \/ todo' = <<Engage(p), Disengage(q)>>
           \/ todo' = <<Engage(p), Destroy(q), Disengage(q)>>
    PROVE  ~MayYetThrow'
<1>1. /\ Engage(p).do \notin Throwers /\ Disengage(p).do \notin Throwers
      /\ Destroy(q).do \notin Throwers /\ Disengage(q).do \notin Throwers
  BY DEF Engage, Disengage, Destroy, Stmt, Throwers
<1> QED BY <1>1 DEF MayYetThrow

(* At every stage of a call in progress its outcome is open.               *)
LEMMA WhileRunning ==
    ASSUME StageInv, todo # <<>>
    PROVE  /\ TypeOK /\ busy /\ outcome = "pending" /\ ~Failed
           /\ \E p \in Opts, q \in Opts, s \in Opts \cup {Arg, Tmp},
                 how \in Hows : Stage(p, q, s, how)
  BY DEF StageInv, AtEnd, InProgress, Failed

------------------------------------------------------------------------------
(* The parts of the promise that only look at what is left in todo: they   *)
(* hold of the rest of a program if they hold of all of it.                *)
LEMMA RestKeeps ==
    ASSUME TypeOK, RebuildInv, EndingInv, todo # <<>>, todo' = Tail(todo),
           outcome' = outcome, UNCHANGED <<life, busy, call, before>>
    PROVE  RebuildInv' /\ EndingInv'
<1>1. /\ life' = life /\ busy' = busy /\ call' = call /\ before' = before
      /\ outcome' = outcome
  OBVIOUS
<1>2. \A i \in DOMAIN todo' : i + 1 \in DOMAIN todo /\ todo'[i] = todo[i + 1]
  BY TodoParts
<1>3. RebuildInv'
  BY <1>1, <1>2 DEF RebuildInv, Alive
<1>4. \A r : EndsValue(r)' <=> EndsValue(r)
  BY <1>1 DEF EndsValue
<1>5. EndingInv'
  BY <1>1, <1>2, <1>4 DEF EndingInv
<1> QED BY <1>3, <1>5

(* While the call is in progress the properties of its end say nothing.    *)
LEMMA NotYetOver ==
    busy' => EngagementSurvivesThrow' /\ StrongGuaranteeLifts'
  BY DEF EngagementSurvivesThrow, StrongGuaranteeLifts

(* Before an operation of T that may throw, only two others run: the one   *)
(* that makes the temporary of a conversion, and the destructor that ends  *)
(* the value of an optional that is rebuilt.                               *)
LEMMA RunTThenThrows ==
    ASSUME StageInv, RunT, MayYetThrow'
    PROVE  \E p \in Opts, s \in Opts \cup {Arg, Tmp}, how \in Hows :
              \/ AtConvertAssign(p, s, how) \/ AtConvertInit(p, s, how)
              \/ AtRebuild(p, s, how)
<1>1. todo # <<>> /\ Head(todo).do \in TOps
  BY DEF RunT, Running
<1>t. todo' = Tail(todo)
  BY DEF RunT
<1>2. PICK p \in Opts, q \in Opts, s \in Opts \cup {Arg, Tmp}, how \in Hows :
        Stage(p, q, s, how)
  BY <1>1, WhileRunning
<1>5. CASE \/ AtInit(p, s, how) \/ AtReset(p) \/ AtHandOver(p, q)
           \/ AtTrivialHandOver(p, q) \/ AtAssign(p, s, how) \/ AtSwap(p, q)
           \/ AtResult(s, how) \/ AtDirectConstruct(p, s, how) \/ AtDtor(p)
  <2>1. AtInit(p, s, how) => todo' = <<Engage(p)>>
    BY <1>t, HeadsAndTails DEF AtInit
  <2>2. AtReset(p) => todo' = <<Disengage(p)>>
    BY <1>t, HeadsAndTails DEF AtReset
  <2>3. AtHandOver(p, q) => todo' = <<Engage(p), Destroy(q), Disengage(q)>>
    BY <1>t, HeadsAndTails DEF AtHandOver
  <2>4. AtTrivialHandOver(p, q) => todo' = <<Engage(p), Disengage(q)>>
    BY <1>t, HeadsAndTails DEF AtTrivialHandOver
  <2>5. (\/ AtAssign(p, s, how) \/ AtSwap(p, q) \/ AtResult(s, how)
         \/ AtDirectConstruct(p, s, how) \/ AtDtor(p)) => todo' = <<>>
    BY <1>t, HeadsAndTails
       DEF AtAssign, AtSwap, AtResult, AtDirectConstruct, AtDtor
  <2>6. ~MayYetThrow'
    BY <1>5, <2>1, <2>2, <2>3, <2>4, <2>5, NothingThrows
  <2> QED BY <2>6
<1>6. CASE \/ AtEngage(p) \/ AtDisengage(p) \/ AtRebuildGutted(p, s, how)
           \/ AtHandedOver(p, q) \/ AtTrivialHandedOver(p, q)
           \/ AtDirect(p, s, how)
  <2>1. Head(todo) \in {Engage(p), Disengage(p)}
    BY <1>6, HeadsAndTails DEF AtEngage, AtDisengage, AtRebuildGutted,
       AtHandedOver, AtTrivialHandedOver, AtDirect
  <2> QED BY <1>1, <2>1, StmtFields DEF TOps
<1> QED BY <1>2, <1>5, <1>6 DEF Stage

(* A conversion that has to be gentle copies its source to the temporary,  *)
(* which no caller sees.                                                   *)
LEMMA RunTHides ==
    ASSUME IInv, RunT, Gentle, MayYetThrow'
    PROVE  \A r \in Opts \cup {Arg} : slot'[r] = slot[r]
<1>1. TypeOK /\ StageInv /\ slot' \in Succeeds(Head(todo))
  BY DEF RunT, IInv, StageInv
<1>2. PICK p \in Opts, s \in Opts \cup {Arg, Tmp}, how \in Hows :
        \/ AtConvertAssign(p, s, how) \/ AtConvertInit(p, s, how)
        \/ AtRebuild(p, s, how)
  BY <1>1, RunTThenThrows
<1>3. CASE AtConvertAssign(p, s, how) \/ AtConvertInit(p, s, how)
  <2>1. /\ Head(todo) = Construct(Tmp, s, how) /\ slot[s] # Raw
        /\ slot[Tmp] = Raw /\ how # "move"
    BY <1>3, HeadsAndTails DEF AtConvertAssign, AtConvertInit, Gentle
  <2> DEFINE st == Construct(Tmp, s, how)
  <2>2. /\ st.do = "construct" /\ st.at = Tmp /\ st.from = s /\ st.how = how
    BY DEF Construct, Stmt
  <2>3. s # Tmp /\ ~ReadsDead(st)
    BY <2>1, <2>2 DEF ReadsDead
  <2>4. slot' = [slot EXCEPT ![Tmp] = slot[s], ![s] = slot[s]]
    BY <1>1, <2>1, <2>2, <2>3 DEF Succeeds, Transferred, Leftover
  <2>5. slot \in [Places -> Objects \cup {Raw}]
    BY <1>1 DEF TypeOK
  <2> HIDE DEF st
  <2>6. \A r \in Opts \cup {Arg} : r # Tmp /\ r \in Places
    BY PlacesDiffer
  <2> QED BY <2>4, <2>5, <2>6
<1>4. CASE AtRebuild(p, s, how)
  BY <1>4 DEF AtRebuild, Gentle
<1> QED BY <1>2, <1>3, <1>4

(* An operation of T that returns breaks no promise. *)
LEMMA RunTKeepsPromise == IInv /\ RunT => PromiseInv'
<1> SUFFICES ASSUME IInv, RunT PROVE PromiseInv'
  OBVIOUS
<1>1. /\ TypeOK /\ todo # <<>> /\ busy /\ outcome = "pending" /\ ~Failed
      /\ todo' = Tail(todo)
      /\ UNCHANGED <<life, init, busy, call, outcome, before>>
  BY WhileRunning DEF RunT, Running, IInv
<1>2. ~Failed'
  BY <1>1 DEF Failed
<1>3. RebuildInv' /\ EndingInv'
  BY <1>1, RestKeeps DEF IInv, PromiseInv
<1>4. EngagementInv'
  <2>1. ASSUME MayYetThrow', NEW p \in Opts
        PROVE  Rebuilt(p)' \/ KeepsEngagement(p)'
    <3>1. Rebuilt(p) \/ KeepsEngagement(p)
      BY <1>1, <2>1, TailThrows DEF IInv, PromiseInv, EngagementInv
    <3> QED BY <1>1, <3>1 DEF Rebuilt, KeepsEngagement, Engaged, Alive
  <2> QED BY <1>2, <2>1 DEF EngagementInv
<1>5. ValuesInv'
  <2>1. ASSUME Gentle', MayYetThrow', NEW p \in Opts \cup {Arg}
        PROVE  Shown(p)' = before'[p]
    <3>1. Gentle
      BY <1>1, <2>1 DEF Gentle
    <3>2. Shown(p) = before[p]
      BY <1>1, <2>1, <3>1, TailThrows DEF IInv, PromiseInv, ValuesInv
    <3>3. slot'[p] = slot[p]
      BY <2>1, <3>1, RunTHides
    <3> QED BY <1>1, <3>2, <3>3 DEF Shown, Engaged, Alive
  <2> QED BY <1>2, <2>1 DEF ValuesInv
<1> QED BY <1>1, <1>3, <1>4, <1>5, NotYetOver DEF PromiseInv

(* Before an operation of T that may throw, a flag is changed only by what *)
(* rebuilds an optional and by the initializer of its storage.             *)
LEMMA RunFlagThenThrows ==
    ASSUME StageInv, RunFlag, MayYetThrow'
    PROVE  \E p \in Opts, s \in Opts \cup {Arg, Tmp}, how \in Hows :
              AtRebuildGutted(p, s, how) \/ AtDirect(p, s, how)
<1>1. todo # <<>> /\ Head(todo).do \in {"engage", "disengage"}
  BY DEF RunFlag, Running
<1>t. todo' = Tail(todo)
  BY DEF RunFlag
<1>2. PICK p \in Opts, q \in Opts, s \in Opts \cup {Arg, Tmp}, how \in Hows :
        Stage(p, q, s, how)
  BY <1>1, WhileRunning
<1>c. CASE \/ AtEngage(p) \/ AtDisengage(p)
           \/ AtHandedOver(p, q) \/ AtTrivialHandedOver(p, q)
  <2>1. AtEngage(p) \/ AtDisengage(p) => todo' = <<>>
    BY <1>t, HeadsAndTails DEF AtEngage, AtDisengage
  <2>2. AtHandedOver(p, q) => todo' = <<Destroy(q), Disengage(q)>>
    BY <1>t, HeadsAndTails DEF AtHandedOver
  <2>3. AtTrivialHandedOver(p, q) => todo' = <<Disengage(q)>>
    BY <1>t, HeadsAndTails DEF AtTrivialHandedOver
  <2>4. ~MayYetThrow'
    BY <1>c, <2>1, <2>2, <2>3, NothingThrows
  <2> QED BY <2>4
<1>d. CASE \/ AtInit(p, s, how) \/ AtReset(p) \/ AtRebuild(p, s, how)
           \/ AtHandOver(p, q) \/ AtTrivialHandOver(p, q)
           \/ AtConvertAssign(p, s, how) \/ AtConvertInit(p, s, how)
           \/ AtAssign(p, s, how) \/ AtSwap(p, q) \/ AtResult(s, how)
           \/ AtDirectConstruct(p, s, how) \/ AtDtor(p)
  <2>1. \/ \E x \in {p, Tmp, Ret} : \/ Head(todo) = Construct(x, s, how)
                                    \/ Head(todo) = Construct(x, q, "move")
        \/ Head(todo) \in {Destroy(p), AssignT(p, s, how), SwapT(p, q)}
    BY <1>d, HeadsAndTails DEF AtInit, AtReset, AtRebuild, AtHandOver,
       AtTrivialHandOver, AtConvertAssign, AtConvertInit, AtAssign, AtSwap,
       AtResult, AtDirectConstruct, AtDtor
  <2>2. Head(todo).do \in {"engage", "disengage"}
    BY <1>1
  <2>3. FALSE
    BY <2>1, <2>2, StmtFields
  <2> QED BY <2>3
<1> QED BY <1>2, <1>c, <1>d DEF Stage

(* While a T may yet throw, a call sets no flag that a caller could see    *)
(* but that of the optional it rebuilds.                                   *)
LEMMA RunFlagHides ==
    ASSUME IInv, RunFlag, MayYetThrow', NEW r \in Opts
    PROVE  Rebuilt(r) \/ (Engaged(r)' <=> Engaged(r))
<1>1. /\ TypeOK /\ todo # <<>> /\ Head(todo).do \in {"engage", "disengage"}
      /\ StageInv /\ RebuildInv /\ busy /\ outcome = "pending"
  BY WhileRunning DEF RunFlag, Running, IInv, StageInv, PromiseInv
<1>2. /\ todo' = Tail(todo) /\ life' = life
      /\ init' = [init EXCEPT ![Head(todo).at] = (Head(todo).do = "engage")]
  BY DEF RunFlag
<1>4. Head(todo).at # r => (Engaged(r)' <=> Engaged(r))
  <2>1. Head(todo).at # r => init'[r] = init[r]
    BY <1>1, <1>2 DEF TypeOK
  <2> QED BY <1>2, <2>1 DEF Engaged, Alive
<1>5. ~Alive(r) => (Engaged(r)' <=> Engaged(r))
  BY <1>2 DEF Engaged, Alive
<1>6. PICK p \in Opts, s \in Opts \cup {Arg, Tmp}, how \in Hows :
        AtRebuildGutted(p, s, how) \/ AtDirect(p, s, how)
  BY <1>1, RunFlagThenThrows
<1>a. CASE AtRebuildGutted(p, s, how)
  <2>1. call.op \in Rebuilders /\ Head(todo).at = call.o
    BY <1>1, <1>a, TodoParts DEF RebuildInv, AtRebuildGutted
  <2> QED BY <1>4, <2>1 DEF Rebuilt
<1>b. CASE AtDirect(p, s, how)
  <2>1. Head(todo) = Engage(p) /\ ~Alive(p)
    BY <1>b, HeadsAndTails DEF AtDirect, Alive
  <2>2. Head(todo).at = p
    BY <2>1, StmtFields
  <2> QED BY <1>4, <1>5, <2>1, <2>2
<1> QED BY <1>6, <1>a, <1>b

(* Setting or clearing a flag breaks no promise. *)
LEMMA RunFlagKeepsPromise == IInv /\ RunFlag => PromiseInv'
<1> SUFFICES ASSUME IInv, RunFlag PROVE PromiseInv'
  OBVIOUS
<1>1. /\ TypeOK /\ todo # <<>> /\ busy /\ outcome = "pending" /\ ~Failed
      /\ todo' = Tail(todo)
      /\ UNCHANGED <<life, slot, busy, call, outcome, before>>
  BY WhileRunning DEF RunFlag, Running, IInv
<1>2. ~Failed'
  BY <1>1 DEF Failed
<1>3. RebuildInv' /\ EndingInv'
  BY <1>1, RestKeeps DEF IInv, PromiseInv
<1>4. EngagementInv'
  <2>1. ASSUME MayYetThrow', NEW p \in Opts
        PROVE  Rebuilt(p)' \/ KeepsEngagement(p)'
    <3>1. Rebuilt(p) \/ KeepsEngagement(p)
      BY <1>1, <2>1, TailThrows DEF IInv, PromiseInv, EngagementInv
    <3>2. Rebuilt(p) \/ (Engaged(p)' <=> Engaged(p))
      BY <2>1, RunFlagHides
    <3> QED BY <1>1, <3>1, <3>2 DEF Rebuilt, KeepsEngagement
  <2> QED BY <1>2, <2>1 DEF EngagementInv
<1>5. ValuesInv'
  <2>1. ASSUME Gentle', MayYetThrow', NEW p \in Opts \cup {Arg}
        PROVE  Shown(p)' = before'[p]
    <3>1. Gentle
      BY <1>1, <2>1 DEF Gentle
    <3>2. Shown(p) = before[p]
      BY <1>1, <2>1, <3>1, TailThrows DEF IInv, PromiseInv, ValuesInv
    <3>3. p # Arg => (Engaged(p)' <=> Engaged(p))
      BY <2>1, <3>1, RunFlagHides DEF Gentle, Rebuilt
    <3> QED BY <1>1, <3>2, <3>3 DEF Shown
  <2> QED BY <1>2, <2>1 DEF ValuesInv
<1> QED BY <1>1, <1>3, <1>4, <1>5, NotYetOver DEF PromiseInv

(* A T with the strong guarantee that throws changes nothing that a caller *)
(* would see: at most it leaves no T in the storage of an optional that is *)
(* not engaged.                                                            *)
LEMMA ThrowHides ==
    ASSUME StageInv, ThrowT(<<>>), Strong, NEW r \in Opts \cup {Arg}
    PROVE  Shown(r)' = Shown(r)
<1> DEFINE st == Head(todo)
<1>1. /\ busy /\ todo # <<>> /\ TypeOK /\ LifetimesRespected
      /\ st.do \in {"construct", "assign", "swap"}
      /\ slot' \in Throws(st) /\ UNCHANGED <<life, init>>
  BY LifetimesFollow DEF ThrowT, Running, StageInv
<1>2. slot'[Arg] # Raw
  BY ThrowKeepsStage DEF StageInv, TypeOK
<1>3. r \in Places /\ slot \in [Places -> Objects \cup {Raw}]
  BY <1>1, PlacesDiffer DEF TypeOK
<1>4. CASE st.do \in {"assign", "swap"}
  <2>1. slot' = slot
    BY <1>1, <1>4 DEF Throws
  <2> QED BY <1>1, <2>1 DEF Shown, Engaged, Alive
<1>5. CASE st.do = "construct"
  <2>1. slot' = [slot EXCEPT ![st.from] = slot[st.from], ![st.at] = Raw]
    BY <1>1, <1>5 DEF Throws
  <2>2. (st.at \in Opts /\ Alive(st.at)) => ~init[st.at]
    BY <1>1, <1>5 DEF LifetimesRespected
  <2> HIDE DEF st
  <2>3. r # st.at => slot'[r] = slot[r]
    BY <1>3, <2>1
  <2>4. r = st.at => r # Arg /\ ~Engaged(r)
    BY <1>2, <1>3, <2>1, <2>2, PlacesDiffer DEF Engaged
  <2> QED BY <1>1, <2>3, <2>4 DEF Shown, Engaged, Alive
<1> QED BY <1>1, <1>4, <1>5

(* An operation of T that throws, with nothing to unwind, breaks no        *)
(* promise: as it could throw, the call had changed nothing but what it    *)
(* rebuilds, and that has not been engaged again.                          *)
LEMMA ThrowKeepsPromise == IInv /\ ThrowT(<<>>) => PromiseInv'
<1> SUFFICES ASSUME IInv, ThrowT(<<>>) PROVE PromiseInv'
  OBVIOUS
<1> DEFINE st == Head(todo)
<1>1. /\ TypeOK /\ StageInv /\ LifetimesRespected
      /\ EngagementInv /\ RebuildInv /\ ValuesInv /\ EndingInv
      /\ busy /\ todo # <<>> /\ st.do \in {"construct", "assign", "swap"}
  BY LifetimesFollow DEF IInv, StageInv, PromiseInv, ThrowT, Running
<1>2. /\ outcome = "pending" /\ todo' = <<>> /\ outcome' = "threw"
      /\ UNCHANGED <<life, init, busy, call, before>>
  BY DEF ThrowT
<1>3. MayYetThrow
  BY <1>1, TodoParts DEF MayYetThrow, Throwers
<1>4. ~MayYetThrow'
  BY <1>2, NothingThrows
<1>5. EngagementInv'
  <2>1. ASSUME NEW p \in Opts, ~Rebuilt(p)
        PROVE  KeepsEngagement(p)'
    <3>1. KeepsEngagement(p)
      BY <1>1, <1>3, <2>1 DEF EngagementInv
    <3> QED BY <1>2, <3>1 DEF KeepsEngagement, Engaged, Alive
  <2>2. ASSUME NEW p \in Opts, Rebuilt(p)
        PROVE  Alive(p) /\ ~init[p]
    <3>1. Alive(p) /\ st.at = p /\ st.do = "construct"
      BY <1>1, <1>2, <2>2, TodoParts DEF RebuildInv, Rebuilt
    <3> QED BY <1>1, <3>1 DEF LifetimesRespected
  <2> QED BY <1>2, <1>4, <2>1, <2>2 DEF EngagementInv, Rebuilt, Alive
<1>6. RebuildInv' /\ EndingInv'
  BY <1>1, <1>2 DEF RebuildInv, EndingInv
<1>7. ValuesInv'
  <2>1. ASSUME Gentle', NEW p \in Opts \cup {Arg}
        PROVE  Shown(p)' = before'[p]
    <3>1. Gentle
      BY <1>2, <2>1 DEF Gentle
    <3>2. Shown(p) = before[p]
      BY <1>1, <1>3, <3>1 DEF ValuesInv
    <3>3. Shown(p)' = Shown(p)
      BY <1>1, <3>1, ThrowHides DEF Gentle
    <3> QED BY <1>2, <3>2, <3>3
  <2> QED BY <2>1 DEF ValuesInv
<1> QED BY <1>1, <1>2, <1>5, <1>6, <1>7, NotYetOver DEF PromiseInv

(* What the caller sees after a call that failed is what it would have     *)
(* seen just before.                                                       *)
LEMMA SeenAfterFailure ==
    ASSUME StageInv, Return, Failed, NEW r \in Opts \cup {Arg},
           r # Arg => life[r] # "dying"
    PROVE  Seen'[r] = Shown(r)
<1>1. /\ TypeOK /\ todo = <<>> /\ busy /\ outcome \in {"threw", "bad_access"}
  BY DEF StageInv, Return, Failed
<1>2. AtEnd
  BY <1>1, EndReached
<1>3. /\ life' = [o \in Opts |-> IF Gone(o) THEN "absent"
                                 ELSE IF life[o] \in Building THEN "alive"
                                 ELSE life[o]]
      /\ init' = [o \in Opts |-> init[o] /\ ~Gone(o)]
      /\ slot' = [p \in Places |-> IF p \in Opts /\ Trivial /\ Gone(p)
                                   THEN Raw ELSE slot[p]]
  BY DEF Return
<1>4. CASE r = Arg
  <2>1. slot'[r] = slot[r]
    BY <1>3, <1>4, PlacesDiffer
  <2> QED BY <1>4, <2>1 DEF Seen, Shown
<1>5. CASE r # Arg
  <2>1. /\ r \in Opts /\ r \in Places
        /\ life[r] \in {"storage", "body", "absent", "alive"}
        /\ init[r] \in BOOLEAN
    BY <1>1, <1>5, PlacesDiffer DEF TypeOK, Lives, Building
  <2>2. CASE life[r] \in Building
    <3>1. ~Calm(r)
      BY <2>2 DEF Calm, Building
    <3>2. r = call.o
      BY <1>2, <2>1, <3>1 DEF AtEnd, CalmBut
    <3>3. outcome = "threw"
      BY <1>1, <1>2, <2>2, <3>1, <3>2 DEF AtEnd, Building
    <3>4. life'[r] = "absent"
      BY <1>3, <2>1, <2>2, <3>3 DEF Gone
    <3>5. Shown(r) = Absent
      BY <1>5, <2>2 DEF Shown, Engaged, Alive, Building
    <3>6. Seen'[r] = Absent
      BY <1>5, <2>1, <3>4 DEF Seen
    <3> QED BY <3>5, <3>6
  <2>3. CASE life[r] = "absent"
    <3>1. life'[r] = "absent"
      BY <1>3, <2>1, <2>3 DEF Building
    <3>2. Shown(r) = Absent
      BY <1>5, <2>3 DEF Shown, Engaged, Alive, Building
    <3>3. Seen'[r] = Absent
      BY <1>5, <2>1, <3>1 DEF Seen
    <3> QED BY <3>2, <3>3
  <2>4. CASE life[r] = "alive"
    <3>1. ~Gone(r) /\ life[r] \notin Building \cup {"absent"}
      BY <2>4 DEF Gone, Building
    <3>2. life'[r] = "alive" /\ slot'[r] = slot[r] /\ init'[r] = init[r]
      BY <1>3, <2>1, <2>4, <3>1
    <3>3. Seen'[r] = IF init[r] THEN slot[r] ELSE None
      BY <1>5, <2>1, <3>2 DEF Seen
    <3>4. Shown(r) = IF init[r] THEN slot[r] ELSE None
      BY <1>5, <2>4, <3>1 DEF Shown, Engaged, Alive
    <3> QED BY <3>3, <3>4
  <2> QED BY <2>1, <2>2, <2>3, <2>4 DEF Building
<1> QED BY <1>4, <1>5

(* A call that returns or throws has kept its promise.                     *)
LEMMA ReturnKeepsPromise == IInv /\ Return => PromiseInv'
<1> SUFFICES ASSUME IInv, Return PROVE PromiseInv'
  OBVIOUS
<1>1. /\ StageInv /\ EngagementInv /\ ValuesInv /\ TypeOK
      /\ busy /\ todo = <<>>
  BY DEF IInv, StageInv, PromiseInv, Return
<1>2. /\ busy' = FALSE /\ call' = call /\ before' = before
      /\ Failed' => Failed /\ outcome' = outcome
  BY DEF Return, Failed
<1>3. AtEnd /\ StageInv'
  BY <1>1, EndReached, ReturnKeepsStage
<1>4. EngagementInv' /\ RebuildInv' /\ ValuesInv'
  BY <1>2 DEF EngagementInv, RebuildInv, ValuesInv
<1>5. EndingInv'
  BY <1>2, <1>3 DEF EndingInv, StageInv, OneAtATime
<1>6. ASSUME Failed, NEW o \in Opts
      PROVE  Seen'[o] = Shown(o)
  <2>1. life[o] # "dying"
    BY <1>1, <1>6 DEF EngagementInv, KeepsEngagement, Alive
  <2> QED BY <1>1, <1>6, <2>1, SeenAfterFailure
<1>7. EngagementSurvivesThrow'
  <2>1. ASSUME outcome' = "threw", NEW o \in Opts
        PROVE  IF o = call.o /\ call.op \in Rebuilders
               THEN Seen'[o] = None
               ELSE /\ Seen'[o] \in Objects <=> before[o] \in Objects
                    /\ Seen'[o] = Absent <=> before[o] = Absent
    <3>1. Failed /\ Seen'[o] = Shown(o) /\ o # Arg
      BY <1>2, <1>6, <2>1, PlacesDiffer DEF Failed
    <3>2. CASE Rebuilt(o)
      <4>1. Alive(o) /\ ~init[o]
        BY <1>1, <3>1, <3>2 DEF EngagementInv
      <4> QED BY <3>1, <3>2, <4>1
              DEF Rebuilt, Shown, Alive, Engaged, Building
    <3>3. CASE ~Rebuilt(o)
      <4>1. KeepsEngagement(o)
        BY <1>1, <3>1, <3>3 DEF EngagementInv
      <4>2. Engaged(o) => slot[o] \in Objects
        <5>1. Engaged(o) => Calm(o)
          BY <1>3 DEF AtEnd, CalmBut, Engaged, Alive, Building
        <5> QED BY <1>1, <5>1, PlacesDiffer
                DEF Calm, Full, Empty, Engaged, TypeOK
      <4>3. /\ Shown(o) \in Objects <=> Engaged(o)
            /\ Shown(o) = Absent <=> life[o] \in Building \cup {"absent"}
        BY <3>1, <4>2, ObjectModelAssumption
           DEF Shown, Engaged, Alive, Building
      <4> QED BY <3>1, <3>3, <4>1, <4>3 DEF KeepsEngagement, Rebuilt
    <3> QED BY <3>2, <3>3
  <2> QED BY <1>2, <2>1 DEF EngagementSurvivesThrow
<1>8. StrongGuaranteeLifts'
  <2>1. ASSUME Strong, outcome' \in {"threw", "bad_access"},
               call.op \notin Rebuilders,
               call.how = "move" => call.op \notin Converting
        PROVE  Seen' = before
    <3>1. Failed /\ Gentle
      BY <1>2, <2>1 DEF Failed, Gentle
    <3>2. ASSUME NEW r \in Opts \cup {Arg}
          PROVE  Seen'[r] = before[r]
      <4>1. Shown(r) = before[r]
        BY <1>1, <3>1 DEF ValuesInv
      <4>2. Seen'[r] = Shown(r)
        BY <1>1, <1>6, <3>1, SeenAfterFailure
      <4> QED BY <4>1, <4>2
    <3>3. before \in [Opts \cup {Arg} -> Objects \cup {None, Absent}]
      BY <1>1 DEF TypeOK
    <3> QED BY <3>2, <3>3 DEF Seen
  <2> QED BY <1>2, <2>1 DEF StrongGuaranteeLifts
<1> QED BY <1>4, <1>5, <1>7, <1>8 DEF PromiseInv

(* Before the first call nothing is promised. *)
LEMMA InitKeepsPromise == InitObjects => PromiseInv
<1> SUFFICES ASSUME InitObjects PROVE PromiseInv
  OBVIOUS
<1>1. /\ busy = FALSE /\ outcome = "none"
      /\ life = [o \in Opts |-> "absent"]
  BY DEF InitObjects
<1> QED BY <1>1 DEF PromiseInv, EngagementInv, RebuildInv, ValuesInv,
        EndingInv, EngagementSurvivesThrow, StrongGuaranteeLifts

(* The promise depends on the variables of the object model only.          *)
LEMMA StutterKeepsPromise == PromiseInv /\ UNCHANGED vars => PromiseInv'
<1> SUFFICES ASSUME PromiseInv, UNCHANGED vars PROVE PromiseInv'
  OBVIOUS
<1>1. /\ life' = life /\ init' = init /\ slot' = slot /\ todo' = todo
      /\ busy' = busy /\ call' = call /\ outcome' = outcome
      /\ before' = before
  BY DEF vars
<1>2. /\ MayYetThrow' <=> MayYetThrow
      /\ Failed' <=> Failed
      /\ Gentle' <=> Gentle
  BY <1>1 DEF MayYetThrow, Failed, Gentle
<1>3. \A r : /\ Rebuilt(r)' <=> Rebuilt(r)
             /\ KeepsEngagement(r)' <=> KeepsEngagement(r)
             /\ Shown(r)' = Shown(r)
             /\ EndsValue(r)' <=> EndsValue(r)
  BY <1>1 DEF Rebuilt, KeepsEngagement, Shown, Engaged, Alive, EndsValue
<1>4. Seen' = Seen
  BY <1>1 DEF Seen
<1>5. EngagementInv'
  BY <1>1, <1>2, <1>3 DEF PromiseInv, EngagementInv, Alive
<1>6. RebuildInv' /\ ValuesInv' /\ EndingInv'
  <2>1. RebuildInv'
    BY <1>1 DEF PromiseInv, RebuildInv, Alive
  <2>2. ValuesInv'
    BY <1>1, <1>2, <1>3 DEF PromiseInv, ValuesInv
  <2>3. EndingInv'
    BY <1>1, <1>3 DEF PromiseInv, EndingInv
  <2> QED BY <2>1, <2>2, <2>3
<1>7. EngagementSurvivesThrow' /\ StrongGuaranteeLifts'
  BY <1>1, <1>4 DEF PromiseInv, EngagementSurvivesThrow, StrongGuaranteeLifts
<1> QED BY <1>5, <1>6, <1>7 DEF PromiseInv

------------------------------------------------------------------------------
(* Every step of a call in progress keeps the invariant.                   *)
LEMMA RunTKeeps == IInv /\ RunT => IInv'
  BY RunTKeepsStage, RunTKeepsPromise DEF IInv

(* So does setting or clearing a flag.                                     *)
LEMMA RunFlagKeeps == IInv /\ RunFlag => IInv'
  BY RunFlagKeepsStage, RunFlagKeepsPromise DEF IInv

(* So does an operation of T that throws, with nothing to unwind.          *)
LEMMA ThrowKeeps == IInv /\ ThrowT(<<>>) => IInv'
  BY ThrowKeepsStage, ThrowKeepsPromise DEF IInv

(* And so does the end of the call.                                        *)
LEMMA ReturnKeeps == IInv /\ Return => IInv'
  BY ReturnKeepsStage, ReturnKeepsPromise DEF IInv

(* The program starts with the invariant.                                  *)
LEMMA InitKeeps == InitObjects => IInv
  BY InitKeepsStage, InitKeepsPromise DEF IInv

(* A step that changes nothing of the object model keeps it.               *)
LEMMA StutterKeeps == IInv /\ UNCHANGED vars => IInv'
  BY StutterKeepsStage, StutterKeepsPromise DEF IInv

------------------------------------------------------------------------------
(* A call is made on o; no other optional's lifetime changes.              *)
Opens(result, op, o, from, how, program) ==
    /\ StageInv /\ op \in CallOps /\ result \in {"pending", "bad_access"}
    /\ BeginWith(result, op, o, from, how, program)
    /\ life' \in [Opts -> Lives]
    /\ \A r \in Opts \ {o} : life'[r] = life[r]

(* A new call finds every optional calm, and changes only the lifetime of  *)
(* the optional it is made on.                                             *)
LEMMA CallStarts ==
    ASSUME NEW op, NEW o \in Opts, NEW from \in Opts \cup {Arg},
           NEW how \in Hows, NEW program \in Seq(Stmts), NEW result,
           Opens(result, op, o, from, how, program)
    PROVE  /\ TypeOK' /\ OneAtATime' /\ \A r \in Opts : Calm(r)
           /\ CalmBut({o})' /\ (life'[o] = life[o] => Calm(o)')
           /\ busy' /\ todo' = program /\ outcome' = result
           /\ call'.op = op /\ call'.o = o /\ call'.from = from
           /\ call'.how = how /\ init' = init
           /\ slot'[Arg] # Raw /\ slot'[Tmp] = Raw /\ slot'[Ret] = Raw
           /\ before'[Arg] = slot'[Arg]
           /\ \A r \in Opts : slot'[r] = slot[r] /\ before'[r] = Seen[r]
           /\ \A r \in Opts : init[r] => slot[r] \in Objects
           /\ life' \in [Opts -> Lives]
           /\ \A r \in Opts \ {o} : life'[r] = life[r]
<1>1. TypeOK /\ OneAtATime /\ AtEnd /\ busy = FALSE
  BY DEF Opens, StageInv, InProgress, BeginWith, TypeOK
<1> USE DEF Opens
<1>2. \A r \in Opts : Calm(r)
  BY <1>1 DEF AtEnd, CalmBut
<1>3. /\ busy' = TRUE /\ todo' = program /\ outcome' = result
      /\ call' = [op |-> op, o |-> o, from |-> from, how |-> how]
      /\ init' = init
  BY DEF BeginWith
<1>4. PICK x \in IF from = Arg THEN Values ELSE {Unspec} :
        /\ slot' = [slot EXCEPT ![Arg] = x, ![Ret] = Raw, ![Tmp] = Raw]
        /\ before' = [Seen EXCEPT ![Arg] = x]
  BY DEF BeginWith
<1>5. x \in Objects
  BY <1>4, RawIsNoObject DEF Objects
<1>6. /\ slot' \in [Places -> Objects \cup {Raw}]
      /\ slot'[Arg] # Raw /\ slot'[Tmp] = Raw /\ slot'[Ret] = Raw
      /\ \A r \in Opts : slot'[r] = slot[r]
  BY <1>1, <1>4, <1>5, RawIsNoObject, PlacesDiffer DEF TypeOK
<1>7. /\ before' \in [Opts \cup {Arg} -> Objects \cup {None, Absent}]
      /\ before'[Arg] = slot'[Arg]
      /\ \A r \in Opts : before'[r] = Seen[r]
      /\ \A r \in Opts : init[r] => slot[r] \in Objects
  <2>1. \A r \in Opts : init[r] => slot[r] \in Objects
    BY <1>1, <1>2, PlacesDiffer DEF Calm, Empty, Full, TypeOK
  <2>2. slot[Arg] \in Objects /\ slot'[Arg] = x
    BY <1>1, <1>4, PlacesDiffer DEF TypeOK
  <2>3. Seen \in [Opts \cup {Arg} -> Objects \cup {None, Absent}]
    BY <2>1, <2>2, PlacesDiffer DEF Seen
  <2> QED BY <1>4, <1>5, <2>1, <2>2, <2>3, PlacesDiffer
<1>8. TypeOK'
  <2>1. call' \in [op : CallOps, o : Opts, from : Opts \cup {Arg}, how : Hows]
    BY <1>3
  <2>2. init' \in [Opts -> BOOLEAN] /\ todo' \in Seq(Stmts)
        /\ busy' \in BOOLEAN /\ outcome' \in Outcomes
    BY <1>1, <1>3 DEF TypeOK, Outcomes
  <2> QED BY <1>6, <1>7, <2>1, <2>2 DEF TypeOK
<1>9. OneAtATime'
  BY <1>2, <1>3 DEF OneAtATime, Calm, Building
<1>10. \A r \in Opts : life'[r] = life[r] => Calm(r)'
  BY <1>2, <1>3, <1>6 DEF Calm, Empty, Full
<1> QED BY <1>2, <1>3, <1>6, <1>7, <1>8, <1>9, <1>10 DEF CalmBut

(* Every statement of the program is in S. *)
Within(program, S) == \A i \in DOMAIN program : program[i] \in S

(* A program has the statements it is written with.                        *)
LEMMA WithinTuple ==
    ASSUME NEW a, NEW b, NEW c, NEW d
    PROVE  /\ Within(<<>>, {}) /\ Within(<<a>>, {a})
           /\ Within(<<a, b>>, {a, b}) /\ Within(<<a, b, c>>, {a, b, c})
           /\ Within(<<a, b, c, d>>, {a, b, c, d})
  BY DEF Within

(* The call that is made on o may end the value of p.                      *)
MayEnd(op, o, from, p) ==
    \/ p = o /\ op \in Rebuilders \cup {"reset", "dtor"}
    \/ /\ p = o /\ op \in {"assign_optional", "assign_converting"}
       /\ from \in Opts /\ Alive(from) /\ ~init[from]
    \/ /\ op = "swap" /\ from \in Opts /\ p \in {o, from}
       /\ \E r \in {o, from} : Alive(r) /\ ~init[r]

(* A new call has changed nothing a caller can see, and destroys only what *)
(* it is to end.                                                           *)
LEMMA PromiseStarts ==
    ASSUME NEW op, NEW o \in Opts, NEW from \in Opts \cup {Arg},
           NEW how \in Hows, NEW program \in Seq(Stmts), NEW result, NEW S,
           Opens(result, op, o, from, how, program), Within(program, S),
           \/ life'[o] = life[o]
           \/ /\ life'[o] \in Building /\ life[o] = "absent"
              /\ op \notin Rebuilders
           \/ /\ life'[o] = "dying" /\ op = "dtor" /\ result = "pending"
              /\ \A st \in S : st.do \notin Throwers,
           op \in Rebuilders =>
              /\ Alive(o) /\ result = "pending"
              /\ \A st \in S : st.at = o /\ st.do \notin {"assign", "swap"},
           \A st \in S : st.do = "destroy" => MayEnd(op, o, from, st.at)
    PROVE  PromiseInv'
<1>1. /\ \A r \in Opts : Calm(r)
      /\ busy' /\ todo' = program /\ outcome' = result /\ init' = init
      /\ call'.op = op /\ call'.o = o /\ call'.from = from
      /\ before'[Arg] = slot'[Arg]
      /\ \A r \in Opts : slot'[r] = slot[r] /\ before'[r] = Seen[r]
      /\ \A r \in Opts : init[r] => slot[r] \in Objects
      /\ \A r \in Opts \ {o} : life'[r] = life[r]
  BY CallStarts
<1>2. ASSUME NEW r \in Opts
      PROVE  /\ life[r] \in {"absent", "alive"} /\ r # Arg
             /\ before'[r] = IF life[r] = "absent" THEN Absent
                             ELSE IF init[r] THEN slot[r] ELSE None
  <2>1. life[r] \in {"absent", "alive"} /\ r # Arg
    BY <1>1, PlacesDiffer DEF Calm
  <2> QED BY <1>1, <2>1 DEF Seen
<1>3. ASSUME life'[o] # "dying"
      PROVE  EngagementInv' /\ ValuesInv'
  <2>1. ASSUME NEW r \in Opts
        PROVE  /\ life'[r] # "dying"
               /\ life[r] = "absent" <=> life'[r] \in Building \cup {"absent"}
               /\ life[r] = "alive" <=> life'[r] = "alive"
    BY <1>1, <1>2, <1>3 DEF Building
  <2>2. ASSUME NEW r \in Opts
        PROVE  KeepsEngagement(r)'
    <3>1. before'[r] = Absent <=> life[r] = "absent"
      BY <1>1, <1>2, ObjectModelAssumption
    <3>2. before'[r] \in Objects <=> life[r] = "alive" /\ init[r]
      BY <1>1, <1>2, ObjectModelAssumption
    <3> QED BY <1>1, <2>1, <3>1, <3>2 DEF KeepsEngagement, Engaged, Alive
  <2>3. \A r : Failed' => ~Rebuilt(r)'
    BY <1>1 DEF Failed, Rebuilt
  <2>4. EngagementInv'
    BY <2>2, <2>3 DEF EngagementInv
  <2>5. ASSUME NEW r \in Opts \cup {Arg}
        PROVE  Shown(r)' = before'[r]
    <3>1. CASE r = Arg
      BY <1>1, <3>1 DEF Shown
    <3>2. CASE r # Arg
      BY <1>1, <1>2, <2>1, <3>2 DEF Shown, Engaged, Alive
    <3> QED BY <3>1, <3>2
  <2> QED BY <1>1, <2>4, <2>5 DEF ValuesInv
<1>4. ASSUME life'[o] = "dying"
      PROVE  EngagementInv' /\ ValuesInv'
  <2>1. /\ op = "dtor" /\ result = "pending"
        /\ \A st \in S : st.do \notin Throwers
    BY <1>2, <1>4 DEF Building
  <2>2. ~MayYetThrow' /\ ~Failed'
    BY <1>1, <2>1 DEF MayYetThrow, Failed, Within
  <2> QED BY <2>2 DEF EngagementInv, ValuesInv
<1>5. RebuildInv'
  <2>1. ASSUME op \in Rebuilders
        PROVE  /\ Alive(o)'
               /\ \A i \in DOMAIN program :
                     program[i].at = o /\ program[i].do \notin {"assign", "swap"}
    <3>1. /\ Alive(o) /\ op # "dtor"
          /\ \A st \in S : st.at = o /\ st.do \notin {"assign", "swap"}
      BY <2>1 DEF Rebuilders
    <3> QED BY <2>1, <3>1 DEF Alive, Within
  <2> QED BY <1>1, <2>1 DEF RebuildInv
<1>6. EndingInv'
  <2>1. ASSUME NEW p, MayEnd(op, o, from, p)
        PROVE  EndsValue(p)'
    <3>1. \A r \in Opts : Alive(r) /\ ~init[r] => before'[r] = None
      BY <1>2 DEF Alive
    <3> QED BY <1>1, <2>1, <3>1 DEF MayEnd, EndsValue
  <2>2. \A r \in Opts : life'[r] = "dying" => call'.op = "dtor"
    BY <1>1, <1>2 DEF Building
  <2> QED BY <1>1, <2>1, <2>2 DEF EndingInv, Within
<1> QED BY <1>1, <1>3, <1>4, <1>5, <1>6, NotYetOver DEF PromiseInv

(* The simplest case: the program destroys nothing, and the call neither   *)
(* rebuilds an optional nor destroys one.                                  *)
LEMMA QuietStarts ==
    ASSUME NEW op, NEW o \in Opts, NEW from \in Opts \cup {Arg},
           NEW how \in Hows, NEW program \in Seq(Stmts), NEW result, NEW S,
           Opens(result, op, o, from, how, program), Within(program, S),
           op \notin Rebuilders, \A st \in S : st.do # "destroy",
           \/ life'[o] = life[o]
           \/ life'[o] \in Building /\ life[o] = "absent"
    PROVE  PromiseInv'
<1>1. \/ life'[o] = life[o]
      \/ life'[o] \in Building /\ life[o] = "absent" /\ op \notin Rebuilders
  OBVIOUS
<1>2. \A st \in S : st.do = "destroy" => MayEnd(op, o, from, st.at)
  OBVIOUS
<1> QED BY <1>1, <1>2, PromiseStarts

(* The stages that a call may start in.  First, one without statements.    *)
LEMMA NothingToDo ==
    ASSUME NEW op, NEW o \in Opts, NEW from \in Opts \cup {Arg},
           NEW how \in Hows, NEW result,
           Opens(result, op, o, from, how, <<>>), op \notin Rebuilders,
           \/ life'[o] = life[o]
           \/ life'[o] \in Building /\ result = "pending" /\ life[o] = "absent"
           \/ /\ life'[o] = "dying" /\ Alive(o) /\ (Trivial \/ ~init[o])
              /\ op = "dtor" /\ result = "pending"
    PROVE  IInv'
<1>1. <<>> \in Seq(Stmts)
  OBVIOUS
<1>2. /\ TypeOK' /\ OneAtATime' /\ \A r \in Opts : Calm(r)
      /\ CalmBut({o})' /\ (life'[o] = life[o] => Calm(o)')
      /\ busy' /\ todo' = <<>> /\ outcome' = result /\ call'.o = o
      /\ init' = init /\ slot'[o] = slot[o]
  BY <1>1, CallStarts
<1>p. PromiseInv'
  <2> DEFINE S == {}
  <2>1. Within(<<>>, S)
    BY WithinTuple
  <2>2. /\ \A st \in S : st.do \notin Throwers
        /\ \A st \in S : st.do = "destroy" => MayEnd(op, o, from, st.at)
    OBVIOUS
  <2>3. \/ life'[o] = life[o]
        \/ life'[o] \in Building /\ life[o] = "absent" /\ op \notin Rebuilders
        \/ life'[o] = "dying" /\ op = "dtor" /\ result = "pending"
    OBVIOUS
  <2> HIDE DEF S
  <2> QED BY <1>1, <2>1, <2>2, <2>3, PromiseStarts
<1> SUFFICES StageInv'
  BY <1>p DEF IInv
<1>3. CASE life'[o] = life[o]
  BY <1>2, <1>3 DEF StageInv, AtEnd
<1>4. CASE life'[o] \in Building /\ result = "pending" /\ life[o] = "absent"
  <2>1. ~init[o] /\ slot[o] = Raw
    BY <1>2, <1>4 DEF Calm
  <2> QED BY <1>2, <1>4, <2>1 DEF StageInv, AtEnd, Empty
<1>5. CASE life'[o] = "dying" /\ Alive(o) /\ (Trivial \/ ~init[o])
  <2>1. Trivial \/ slot[o] = Raw
    BY <1>2, <1>5 DEF Calm, Alive, Empty, Full
  <2> QED BY <1>2, <1>5, <2>1 DEF StageInv, AtEnd
<1> QED BY <1>3, <1>4, <1>5

(* A call that only has to construct and engage its optional, in its       *)
(* lifetime or in a constructor.                                           *)
LEMMA InitStarts ==
    ASSUME NEW op, NEW o \in Opts, NEW s \in Opts \cup {Arg}, NEW how \in Hows,
           Opens("pending", op, o, s, how, <<Construct(o, s, how), Engage(o)>>),
           s = Arg \/ Engaged(s), op # "swap",
           \/ life'[o] = life[o] /\ Alive(o) /\ ~init[o]
           \/ /\ life'[o] \in Building /\ life[o] = "absent"
              /\ op \notin Rebuilders
    PROVE  IInv'
<1> DEFINE program == <<Construct(o, s, how), Engage(o)>>
<1>1. program \in Seq(Stmts)
  BY StmtTypes, TuplesAreSeqs, PlacesDiffer
<1>2. /\ TypeOK' /\ OneAtATime' /\ \A r \in Opts : Calm(r)
      /\ CalmBut({o})' /\ busy' /\ todo' = program /\ outcome' = "pending"
      /\ init' = init /\ slot'[Arg] # Raw /\ call'.op # "swap"
      /\ \A r \in Opts : slot'[r] = slot[r]
  BY <1>1, CallStarts
<1>3. ~init[o] /\ s # o /\ slot'[s] # Raw
  BY <1>2, PlacesDiffer DEF Engaged, Alive, Calm, Empty, Full
<1>4. InLifetime(o)' /\ Empty(o)'
  BY <1>2, <1>3 DEF InLifetime, Alive, Calm, Empty, Full
<1>5. life'[o] \in Building => slot'[o] = Raw
  BY <1>2 DEF Alive, Calm, Building
<1>6. AtInit(o, s, how)'
  BY <1>2, <1>3, <1>4, <1>5 DEF AtInit, Readable
<1>7. PromiseInv'
  <2> DEFINE S == {Construct(o, s, how), Engage(o)}
  <2>1. Within(program, S)
    BY WithinTuple
  <2>2. \A st \in S : st.at = o /\ st.do \notin {"destroy", "assign", "swap"}
    BY StmtFields
  <2> HIDE DEF S
  <2>3. CASE op \in Rebuilders
    <3>1. Alive(o) /\ life'[o] = life[o]
      BY <2>3
    <3>2. /\ \A st \in S : st.at = o /\ st.do \notin {"assign", "swap"}
          /\ \A st \in S : st.do = "destroy" => MayEnd(op, o, s, st.at)
      BY <2>2
    <3> QED BY <1>1, <2>1, <3>1, <3>2, PromiseStarts
  <2>4. CASE op \notin Rebuilders
    BY <1>1, <2>1, <2>2, <2>4, QuietStarts
  <2> QED BY <2>3, <2>4
<1> QED BY <1>2, <1>6, <1>7 DEF IInv, StageInv, InProgress, Stage

(* A call that has to disengage its optional.                              *)
LEMMA ResetStarts ==
    ASSUME NEW op, NEW o \in Opts, NEW from \in Opts \cup {Arg},
           NEW how \in Hows, NEW program \in Seq(Stmts), NEW p \in Opts,
           Opens("pending", op, o, from, how, program), Alive(o),
           op \notin Rebuilders, MayEnd(op, o, from, o),
           life'[o] = life[o] \/ (life'[o] = "dying" /\ op = "dtor"),
           \/ program = <<Destroy(o), Disengage(o)>> /\ init[o]
           \/ program = <<Disengage(o)>> /\ Trivial
           \/ program = <<Destroy(o)>> /\ init[o] /\ life'[o] = "dying"
    PROVE  IInv'
<1>1. /\ TypeOK' /\ OneAtATime' /\ Calm(o)
      /\ CalmBut({o})' /\ busy' /\ todo' = program /\ outcome' = "pending"
      /\ call'.o = o /\ init' = init /\ slot'[o] = slot[o]
  BY CallStarts
<1>p. PromiseInv'
  <2> DEFINE S == {Destroy(o), Disengage(o)}
  <2>1. Within(program, S)
    BY WithinTuple DEF Within
  <2>2. \A st \in S : st.at = o /\ st.do \notin Throwers
    BY StmtFields DEF Throwers
  <2> HIDE DEF S
  <2> QED BY <2>1, <2>2, PromiseStarts DEF Throwers
<1>2. SUFFICES AtReset(o)' \/ AtDisengage(o)' \/ AtDtor(o)'
  <2>1. \E r \in Opts \cup {Arg, Tmp}, h \in Hows : TRUE
    BY DEF Hows
  <2> QED BY <1>1, <1>2, <1>p, <2>1 DEF IInv, StageInv, InProgress, Stage
<1>3. InReach(o)' /\ (init[o] => Full(o)') /\ (Empty(o)' \/ Full(o)')
  BY <1>1 DEF InReach, Alive, Calm, Empty, Full
<1>4. CASE program = <<Destroy(o), Disengage(o)>> /\ init[o]
  BY <1>1, <1>3, <1>4 DEF AtReset
<1>5. CASE program = <<Disengage(o)>> /\ Trivial
  BY <1>1, <1>3, <1>5 DEF AtDisengage, Gutted
<1>6. CASE program = <<Destroy(o)>> /\ init[o] /\ life'[o] = "dying"
  BY <1>1, <1>3, <1>6 DEF AtDtor
<1> QED BY <1>4, <1>5, <1>6

(* A call that has to disengage its optional and then engage it anew.      *)
LEMMA RebuildStarts ==
    ASSUME NEW op \in Rebuilders, NEW o \in Opts, NEW s \in Opts \cup {Arg},
           NEW how \in Hows, NEW program \in Seq(Stmts),
           Opens("pending", op, o, s, how, program),
           Alive(o), life'[o] = life[o], s = Arg \/ Engaged(s),
           \/ /\ init[o]
              /\ program = <<Destroy(o), Disengage(o),
                             Construct(o, s, how), Engage(o)>>
           \/ /\ Trivial
              /\ program = <<Disengage(o), Construct(o, s, how), Engage(o)>>
    PROVE  IInv'
<1>1. /\ TypeOK' /\ OneAtATime' /\ \A r \in Opts : Calm(r)
      /\ CalmBut({o})' /\ busy' /\ todo' = program /\ outcome' = "pending"
      /\ call'.op = op /\ call'.o = o /\ call'.from = s
      /\ init' = init /\ slot'[Arg] # Raw
      /\ \A r \in Opts : slot'[r] = slot[r]
  BY CallStarts
<1>p. PromiseInv'
  <2> DEFINE S == {Destroy(o), Disengage(o), Construct(o, s, how), Engage(o)}
  <2>1. Within(program, S)
    BY WithinTuple DEF Within
  <2>2. MayEnd(op, o, s, o)
    BY DEF MayEnd
  <2>3. \A st \in S : st.at = o /\ st.do \notin {"assign", "swap"}
    BY StmtFields
  <2>4. \A st \in S : st.do = "destroy" => MayEnd(op, o, s, st.at)
    BY <2>2, <2>3
  <2> HIDE DEF S
  <2> QED BY <2>1, <2>3, <2>4, PromiseStarts
<1>2. SUFFICES AtRebuild(o, s, how)' \/ AtRebuildGutted(o, s, how)'
  BY <1>1, <1>2, <1>p DEF IInv, StageInv, InProgress, Stage
<1>3. Readable(o, s)'
  BY <1>1, PlacesDiffer DEF Readable, Engaged, Alive, Calm, Empty, Full
<1>4. Alive(o)' /\ (init[o] => Full(o)') /\ (Empty(o)' \/ Full(o)')
  BY <1>1 DEF Alive, Calm, Empty, Full
<1> QED BY <1>1, <1>3, <1>4 DEF AtRebuild, AtRebuildGutted, Gutted

(* An assignment between two Ts, a swap of two Ts.                         *)
LEMMA AssignStarts ==
    ASSUME NEW op, NEW o \in Opts, NEW s \in Opts \cup {Arg}, NEW how \in Hows,
           NEW program \in Seq(Stmts),
           Opens("pending", op, o, s, how, program),
           op \notin Rebuilders,
           Alive(o), init[o], life'[o] = life[o], s = Arg \/ Engaged(s),
           \/ program = <<AssignT(o, s, how)>>
           \/ program = <<SwapT(o, s)>> /\ s \in Opts
    PROVE  IInv'
<1>1. /\ TypeOK' /\ OneAtATime' /\ \A r \in Opts : Calm(r)
      /\ CalmBut({o})' /\ busy' /\ todo' = program /\ outcome' = "pending"
      /\ init' = init /\ slot'[Arg] # Raw
      /\ \A r \in Opts : slot'[r] = slot[r]
  BY CallStarts
<1>p. PromiseInv'
  <2>1. Within(program, {AssignT(o, s, how), SwapT(o, s)})
    BY WithinTuple DEF Within
  <2> QED BY <2>1, StmtFields, QuietStarts
<1>2. SUFFICES AtAssign(o, s, how)' \/ (s \in Opts /\ AtSwap(o, s)')
  BY <1>1, <1>2, <1>p DEF IInv, StageInv, InProgress, Stage
<1>3. slot'[s] # Raw /\ Alive(o)' /\ Full(o)'
  BY <1>1 DEF Engaged, Alive, Calm, Empty, Full
<1>4. CASE program = <<AssignT(o, s, how)>>
  BY <1>1, <1>3, <1>4 DEF AtAssign
<1>5. CASE program = <<SwapT(o, s)>> /\ s \in Opts
  <2>1. s # o => life'[s] = life[s]
    BY <1>5 DEF Opens
  <2>2. Alive(s)' /\ Full(s)' /\ CalmBut({o, s})'
    BY <1>1, <1>3, <1>5, <2>1, PlacesDiffer
       DEF Engaged, Alive, Full, CalmBut
  <2> QED BY <1>1, <1>3, <1>5, <2>2 DEF AtSwap
<1> QED BY <1>4, <1>5

(* A swap that moves the value of one optional, giver, to the other.       *)
LEMMA HandOverStarts ==
    ASSUME NEW o \in Opts, NEW from \in Opts, NEW how \in Hows,
           NEW program \in Seq(Stmts), NEW taker \in {o, from},
           NEW giver \in {o, from},
           Opens("pending", "swap", o, from, how, program),
           life'[o] = life[o], Alive(taker), ~init[taker],
           Alive(giver), init[giver],
           \/ program = <<Construct(taker, giver, "move"), Engage(taker),
                          Destroy(giver), Disengage(giver)>>
           \/ /\ Trivial
              /\ program = <<Construct(taker, giver, "move"), Engage(taker),
                             Disengage(giver)>>
    PROVE  IInv'
<1>1. /\ TypeOK' /\ OneAtATime' /\ \A r \in Opts : Calm(r)
      /\ CalmBut({o})' /\ Calm(o)'
      /\ busy' /\ todo' = program /\ outcome' = "pending"
      /\ init' = init /\ \A r \in Opts : slot'[r] = slot[r]
  BY CallStarts
<1>p. PromiseInv'
  <2> DEFINE S == {Construct(taker, giver, "move"), Engage(taker),
                   Destroy(giver), Disengage(giver)}
  <2>1. Within(program, S)
    BY WithinTuple DEF Within
  <2>2. MayEnd("swap", o, from, giver)
    BY DEF MayEnd
  <2>3. \A st \in S : st.do = "destroy" => st.at = giver
    BY StmtFields
  <2> HIDE DEF S
  <2> QED BY <2>1, <2>2, <2>3, PromiseStarts DEF Rebuilders
<1>2. SUFFICES AtHandOver(taker, giver)' \/ AtTrivialHandOver(taker, giver)'
  <2>1. \E s \in Opts \cup {Arg, Tmp}, h \in Hows : TRUE
    BY DEF Hows
  <2> QED BY <1>1, <1>2, <1>p, <2>1 DEF IInv, StageInv, InProgress, Stage
<1>3. taker # giver /\ Alive(taker)' /\ Alive(giver)'
  BY DEF Opens, Alive
<1>4. Empty(taker)' /\ Full(giver)' /\ CalmBut({taker, giver})'
  BY <1>1 DEF Calm, Alive, Empty, Full, CalmBut
<1> QED BY <1>1, <1>3, <1>4 DEF AtHandOver, AtTrivialHandOver

(* A call that makes its result from a live T.                             *)
LEMMA ResultStarts ==
    ASSUME NEW op, NEW o \in Opts, NEW from \in Opts \cup {Arg},
           NEW how \in Hows, NEW s \in Opts \cup {Arg},
           Opens("pending", op, o, from, how, <<Construct(Ret, s, how)>>),
           op \notin Rebuilders, life'[o] = life[o], s = Arg \/ Engaged(s)
    PROVE  IInv'
<1> DEFINE program == <<Construct(Ret, s, how)>>
<1>1. program \in Seq(Stmts)
  BY StmtTypes, TuplesAreSeqs, PlacesDiffer
<1>2. /\ TypeOK' /\ OneAtATime' /\ \A r \in Opts : Calm(r)
      /\ CalmBut({o})' /\ Calm(o)'
      /\ busy' /\ todo' = program /\ outcome' = "pending"
      /\ slot'[Arg] # Raw /\ slot'[Ret] = Raw
      /\ \A r \in Opts : slot'[r] = slot[r]
  BY <1>1, CallStarts
<1>3. slot'[s] # Raw
  BY <1>2 DEF Engaged, Alive, Calm, Empty, Full
<1>4. AtResult(s, how)'
  BY <1>2, <1>3 DEF AtResult, CalmBut
<1>5. PromiseInv'
  <2> DEFINE S == {Construct(Ret, s, how)}
  <2>1. Within(program, S)
    BY WithinTuple
  <2>2. \A st \in S : st.do # "destroy"
    BY StmtFields
  <2> HIDE DEF S
  <2> QED BY <1>1, <2>1, <2>2, QuietStarts
<1> QED BY <1>2, <1>4, <1>5 DEF IInv, StageInv, InProgress, Stage

(* A constructor whose storage is initialized from a value.                *)
LEMMA DirectStarts ==
    ASSUME NEW op, NEW o \in Opts, NEW s \in Opts \cup {Arg}, NEW how \in Hows,
           Opens("pending", op, o, s, how, <<Engage(o), Construct(o, s, how)>>),
           op \notin Rebuilders, s = Arg \/ Engaged(s),
           life[o] = "absent", life'[o] = "storage"
    PROVE  IInv'
<1> DEFINE program == <<Engage(o), Construct(o, s, how)>>
<1>1. program \in Seq(Stmts)
  BY StmtTypes, TuplesAreSeqs, PlacesDiffer
<1>2. /\ TypeOK' /\ OneAtATime' /\ \A r \in Opts : Calm(r)
      /\ CalmBut({o})' /\ busy' /\ todo' = program /\ outcome' = "pending"
      /\ call'.o = o /\ slot'[Arg] # Raw
      /\ \A r \in Opts : slot'[r] = slot[r]
  BY <1>1, CallStarts
<1>3. s # o /\ slot'[s] # Raw /\ slot'[o] = Raw
  BY <1>2, PlacesDiffer DEF Engaged, Alive, Calm, Empty, Full
<1>4. AtDirect(o, s, how)'
  BY <1>2, <1>3, PlacesDiffer DEF AtDirect
<1>5. PromiseInv'
  <2> DEFINE S == {Engage(o), Construct(o, s, how)}
  <2>1. Within(program, S)
    BY WithinTuple
  <2>2. life'[o] \in Building
    BY DEF Building
  <2>3. \A st \in S : st.do # "destroy"
    BY StmtFields
  <2> HIDE DEF S
  <2> QED BY <1>1, <2>1, <2>2, <2>3, QuietStarts
<1> QED BY <1>2, <1>4, <1>5 DEF IInv, StageInv, InProgress, Stage

(* A call that first converts its argument to a temporary T.               *)
LEMMA ConvertStarts ==
    ASSUME NEW op \in Converting, NEW o \in Opts, NEW s \in Opts \cup {Arg},
           NEW how \in Hows, NEW program \in Seq(Stmts),
           Opens("pending", op, o, s, how, program),
           s = Arg \/ Engaged(s),
           \/ /\ program = <<Construct(Tmp, s, how), AssignT(o, Tmp, "move")>>
              /\ life'[o] = life[o] /\ Alive(o) /\ init[o]
           \/ /\ program = <<Construct(Tmp, s, how),
                             Construct(o, Tmp, "move"), Engage(o)>>
              /\ \/ life'[o] = life[o] /\ Alive(o) /\ ~init[o]
                 \/ life'[o] \in Building /\ life[o] = "absent"
    PROVE  IInv'
<1>1. /\ TypeOK' /\ OneAtATime' /\ \A r \in Opts : Calm(r)
      /\ CalmBut({o})' /\ busy' /\ todo' = program /\ outcome' = "pending"
      /\ call'.op = op /\ call'.how = how /\ init' = init
      /\ slot'[Arg] # Raw /\ slot'[Tmp] = Raw
      /\ \A r \in Opts : slot'[r] = slot[r]
  BY CallStarts
<1>p. PromiseInv'
  <2> DEFINE S == {Construct(Tmp, s, how), AssignT(o, Tmp, "move"),
                   Construct(o, Tmp, "move"), Engage(o)}
  <2>1. Within(program, S)
    BY WithinTuple DEF Within
  <2>2. op \notin Rebuilders
    BY DEF Converting, Rebuilders
  <2>3. \A st \in S : st.do # "destroy"
    BY StmtFields
  <2> HIDE DEF S
  <2> QED BY <2>1, <2>2, <2>3, QuietStarts
<1>2. SUFFICES AtConvertAssign(o, s, how)' \/ AtConvertInit(o, s, how)'
  BY <1>1, <1>2, <1>p DEF IInv, StageInv, InProgress, Stage
<1>3. slot'[s] # Raw
  BY <1>1 DEF Engaged, Alive, Calm, Empty, Full
<1>4. CASE life'[o] = life[o] /\ Alive(o)
  BY <1>1, <1>3, <1>4 DEF AtConvertAssign, AtConvertInit, InLifetime, Alive,
     Calm, Empty, Full, Building
<1>5. CASE life'[o] \in Building /\ life[o] = "absent"
  <2>1. life'[o] # life[o]
    BY <1>5 DEF Building
  <2> QED BY <1>1, <1>3, <1>5, <2>1 DEF AtConvertInit, InLifetime, Calm, Empty
<1> QED BY <1>4, <1>5
------------------------------------------------------------------------------
(* A source that a caller may name is the argument or an engaged optional. *)
LEMMA SourceIs ==
    ASSUME NEW s \in Sources
    PROVE  s \in Opts \cup {Arg} /\ (s = Arg \/ Engaged(s))
  BY DEF Sources

(* The actions that make calls open them.                                  *)
LEMMA ModifierOpens ==
    ASSUME StageInv, NEW op \in CallOps, NEW o \in Opts, NEW from, NEW how,
           NEW program, BeginOn(op, o, from, how, program)
    PROVE  /\ Opens("pending", op, o, from, how, program)
           /\ Alive(o) /\ life'[o] = life[o]
  BY DEF BeginOn, Begin, Opens, StageInv, TypeOK

(* A constructor opens a call on an optional that is not yet there, and    *)
(* puts it into the stage of construction that its program runs in.        *)
LEMMA CtorOpens ==
    ASSUME StageInv, NEW op \in CallOps, NEW o \in Opts, NEW from, NEW how,
           NEW program, NEW stage \in Building,
           BeginCtor(stage, op, o, from, how, program)
    PROVE  /\ Opens("pending", op, o, from, how, program)
           /\ life[o] = "absent" /\ life'[o] = stage
<1>1. life \in [Opts -> Lives] /\ life' = [life EXCEPT ![o] = stage]
  BY DEF BeginCtor, StageInv, TypeOK
<1>2. stage \in Lives
  BY DEF Lives
<1> QED BY <1>1, <1>2 DEF BeginCtor, Begin, Opens

------------------------------------------------------------------------------
(* What the invariant says of the other properties.                        *)
LEMMA PropertiesFollow ==
    IInv => /\ TypeOK /\ FlagTellsTheTruth /\ NothingLeaks
            /\ LifetimesRespected
            /\ EngagementSurvivesThrow /\ StrongGuaranteeLifts
  BY FlagFollows, LeaksFollow, LifetimesFollow DEF IInv, StageInv, PromiseInv

(* The step ends no T but those that the call is to end, and those that    *)
(* need no destructor and lingered in the storage.                         *)
EndsOnlyItsOwn ==
    \A o \in Opts : slot[o] # Raw /\ slot'[o] = Raw
                      => EndsValue(o) \/ (Trivial /\ before[o] = None)

(* An operation of T that returns ends a T only if it is a destructor.     *)
LEMMA RunTEnds == IInv /\ RunT => EndsOnlyItsOwn
<1> SUFFICES ASSUME IInv, RunT, NEW o \in Opts, slot[o] # Raw, slot'[o] = Raw
             PROVE  EndsValue(o)
  BY DEF EndsOnlyItsOwn
<1> DEFINE st == Head(todo)
<1>1. /\ TypeOK /\ todo # <<>> /\ busy /\ LifetimesRespected /\ EndingInv
      /\ st \in Stmts /\ st.do \in TOps /\ slot' \in Succeeds(st)
  BY TodoParts, PropertiesFollow DEF RunT, Running, IInv, PromiseInv
<1>2. /\ slot \in [Places -> Objects \cup {Raw}] /\ o \in Places
      /\ st.at \in Places /\ st.from \in Places
  BY <1>1, PlacesDiffer DEF TypeOK, Stmts
<1>3. CASE st.do = "destroy"
  <2>1. slot' = [slot EXCEPT ![st.at] = Raw]
    BY <1>1, <1>3 DEF Succeeds
  <2>2. o = st.at
    BY <1>2, <2>1
  <2> QED BY <1>1, <1>3, <2>2, TodoParts DEF EndingInv
<1>4. CASE st.do \in {"construct", "assign"} /\ ~ReadsDead(st)
  <2>1. PICK x \in {slot[st.from], Unspec} :
          slot' = [slot EXCEPT ![st.at] = slot[st.from], ![st.from] = x]
    BY <1>1, <1>4 DEF Succeeds, Transferred, Leftover
  <2>2. slot[st.from] # Raw
    BY <1>4 DEF ReadsDead
  <2> HIDE DEF st
  <2> QED BY <1>2, <2>1, <2>2, RawIsNoObject
<1>5. CASE st.do = "construct" /\ ReadsDead(st)
  <2>1. PICK x \in Objects : slot' = [slot EXCEPT ![st.at] = x]
    BY <1>1, <1>5 DEF Succeeds
  <2> HIDE DEF st
  <2> QED BY <1>2, <2>1, RawIsNoObject
<1>6. CASE st.do \in {"assign", "swap"}
  <2>1. slot[st.at] # Raw /\ slot[st.from] # Raw
    BY <1>1, <1>6 DEF LifetimesRespected
  <2>2. CASE st.do = "swap"
    <3>1. slot' = [slot EXCEPT ![st.at] = slot[st.from],
                               ![st.from] = slot[st.at]]
      BY <1>1, <2>2 DEF Succeeds
    <3> HIDE DEF st
    <3> QED BY <1>2, <2>1, <3>1
  <2>3. CASE st.do = "assign"
    BY <1>4, <2>1, <2>3 DEF ReadsDead
  <2> QED BY <1>6, <2>2, <2>3
<1> QED BY <1>1, <1>3, <1>4, <1>5, <1>6 DEF TOps

(* The storage of an optional under construction holds no T before the     *)
(* constructor of T runs, not even one that lingers.                       *)
LEMMA BuildsInRawStorage ==
    ASSUME StageInv, todo # <<>>, Head(todo).do = "construct",
           Head(todo).at \in Opts, life[Head(todo).at] \in Building
    PROVE  slot[Head(todo).at] = Raw
<1>1. PICK p \in Opts, q \in Opts, s \in Opts \cup {Arg, Tmp}, how \in Hows :
        Stage(p, q, s, how)
  BY WhileRunning
<1>2. CASE AtInit(p, s, how)
  <2>1. Head(todo) = Construct(p, s, how)
    BY <1>2, HeadsAndTails DEF AtInit
  <2> QED BY <1>2, <2>1, StmtFields DEF AtInit
<1>3. CASE AtDirectConstruct(p, s, how)
  <2>1. Head(todo) = Construct(p, s, how)
    BY <1>3, HeadsAndTails DEF AtDirectConstruct
  <2> QED BY <1>3, <2>1, StmtFields DEF AtDirectConstruct
<1>4. CASE AtHandOver(p, q) \/ AtTrivialHandOver(p, q)
  <2>1. Head(todo) = Construct(p, q, "move") /\ Alive(p)
    BY <1>4, HeadsAndTails DEF AtHandOver, AtTrivialHandOver
  <2> QED BY <2>1, StmtFields DEF Alive, Building
<1>5. CASE \/ AtConvertAssign(p, s, how) \/ AtConvertInit(p, s, how)
           \/ AtResult(s, how)
  <2>1. \/ Head(todo) = Construct(Tmp, s, how)
        \/ Head(todo) = Construct(Ret, s, how)
    BY <1>5, HeadsAndTails DEF AtConvertAssign, AtConvertInit, AtResult
  <2> QED BY <2>1, StmtFields, PlacesDiffer
<1>6. CASE \/ AtAssign(p, s, how) \/ AtSwap(p, q) \/ AtReset(p)
           \/ AtRebuild(p, s, how) \/ AtDtor(p) \/ AtEngage(p)
           \/ AtDisengage(p) \/ AtRebuildGutted(p, s, how)
           \/ AtHandedOver(p, q) \/ AtTrivialHandedOver(p, q)
           \/ AtDirect(p, s, how)
  <2>1. Head(todo) \in {Destroy(p), Engage(p), Disengage(p), SwapT(p, q),
                        AssignT(p, s, how)}
    BY <1>6, HeadsAndTails DEF AtAssign, AtSwap, AtReset, AtRebuild, AtDtor,
       AtEngage, AtDisengage, AtRebuildGutted, AtHandedOver,
       AtTrivialHandedOver, AtDirect
  <2>2. Head(todo).do # "construct"
    BY <2>1, StmtFields
  <2> QED BY <2>2
<1> QED BY <1>1, <1>2, <1>3, <1>4, <1>5, <1>6 DEF Stage

(* An operation of T that throws ends no T that a caller knows of: a       *)
(* constructor leaves its storage raw, but only lingering or rebuilt Ts    *)
(* were there before.                                                      *)
LEMMA ThrowEnds == IInv /\ ThrowT(<<>>) => EndsOnlyItsOwn
<1> SUFFICES ASSUME IInv, ThrowT(<<>>), NEW o \in Opts, slot[o] # Raw,
                    slot'[o] = Raw, ~Trivial \/ before[o] # None
             PROVE  EndsValue(o)
  BY DEF EndsOnlyItsOwn
<1> DEFINE st == Head(todo)
<1>1. /\ TypeOK /\ StageInv /\ todo # <<>> /\ busy
      /\ LifetimesRespected /\ NothingLeaks /\ EngagementInv
      /\ st \in Stmts /\ st.do \in {"construct", "assign", "swap"}
      /\ slot' \in Throws(st)
  BY TodoParts, PropertiesFollow DEF ThrowT, Running, IInv, StageInv, PromiseInv
<1>2. /\ slot \in [Places -> Objects \cup {Raw}] /\ o \in Places
      /\ st.at \in Places /\ st.from \in Places
  BY <1>1, PlacesDiffer DEF TypeOK, Stmts
<1>3. CASE st.do = "construct"
  <2>1. PICK x \in {slot[st.from], Unspec} :
          slot' = [slot EXCEPT ![st.from] = x, ![st.at] = Raw]
    BY <1>1, <1>3 DEF Throws, Leftover
  <2>2. o = st.at
    <3> HIDE DEF st
    <3> QED BY <1>2, <2>1, RawIsNoObject
  <2>3. before[o] # None
    BY <1>1, <1>3, <2>2 DEF LifetimesRespected
  <2>4. Rebuilt(o) \/ KeepsEngagement(o)
    BY <1>1, TodoParts DEF EngagementInv, MayYetThrow, Throwers
  <2>5. CASE Rebuilt(o)
    BY <2>5 DEF Rebuilt, EndsValue
  <2>6. CASE KeepsEngagement(o)
    <3>1. life[o] \in {"storage", "body", "absent", "alive"}
      BY <1>1, <2>6 DEF KeepsEngagement, TypeOK, Lives, Building
    <3>2. life[o] \notin Building
      BY <1>1, <1>3, <2>2, BuildsInRawStorage
    <3>3. life[o] # "absent"
      BY <1>1 DEF NothingLeaks
    <3>4. Alive(o) /\ ~Engaged(o)
      BY <1>1, <1>3, <2>2, <3>1, <3>2, <3>3
         DEF Building, Alive, Engaged, LifetimesRespected
    <3>5. before[o] \notin Objects /\ before[o] # Absent
      BY <2>6, <3>2, <3>3, <3>4 DEF KeepsEngagement
    <3> QED BY <1>1, <2>3, <3>5 DEF TypeOK
  <2> QED BY <2>4, <2>5, <2>6
<1>4. CASE st.do \in {"assign", "swap"}
  <2>1. slot[st.at] # Raw /\ slot[st.from] # Raw
    BY <1>1, <1>4 DEF LifetimesRespected
  <2>2. PICK x, y \in {slot[st.from], slot[st.at], Unspec} :
          slot' \in {slot, [slot EXCEPT ![st.from] = x, ![st.at] = y]}
    BY <1>1, <1>4 DEF Throws, Leftover
  <2> HIDE DEF st
  <2> QED BY <1>2, <2>1, <2>2, RawIsNoObject
<1> QED BY <1>1, <1>3, <1>4

(* The end of a call takes a T away only with the optional that the call   *)
(* was to destroy.                                                         *)
LEMMA ReturnEnds == IInv /\ Return => EndsOnlyItsOwn
<1> SUFFICES ASSUME IInv, Return, NEW o \in Opts, slot[o] # Raw, slot'[o] = Raw
             PROVE  EndsValue(o)
  BY DEF EndsOnlyItsOwn
<1>1. AtEnd /\ OneAtATime /\ EndingInv
  BY EndReached DEF IInv, StageInv, PromiseInv, Return
<1>2. Gone(o)
  BY PlacesDiffer DEF Return
<1>3. life[o] = "dying"
  <2>1. CASE life[o] \in Building /\ outcome = "threw"
    BY <1>1, <2>1 DEF AtEnd, CalmBut, Calm, Building
  <2> QED BY <1>2, <2>1 DEF Gone
<1> QED BY <1>1, <1>3 DEF OneAtATime, EndingInv, EndsValue

(* A new call, a flag that is set or cleared, and a step outside the       *)
(* object model end nothing.                                               *)
LEMMA OthersEndNothing ==
    /\ \A result, op, o, from, how, program :
          IInv /\ BeginWith(result, op, o, from, how, program) => EndsOnlyItsOwn
    /\ RunFlag => EndsOnlyItsOwn
    /\ UNCHANGED vars => EndsOnlyItsOwn
<1>1. ASSUME NEW result, NEW op, NEW o, NEW from, NEW how, NEW program, IInv,
             BeginWith(result, op, o, from, how, program)
      PROVE  EndsOnlyItsOwn
  <2>1. slot \in [Places -> Objects \cup {Raw}]
    BY <1>1, PropertiesFollow DEF TypeOK
  <2>2. PICK x : slot' = [slot EXCEPT ![Arg] = x, ![Ret] = Raw, ![Tmp] = Raw]
    BY <1>1 DEF BeginWith
  <2> QED BY <2>1, <2>2, PlacesDiffer DEF EndsOnlyItsOwn
<1>2. RunFlag \/ UNCHANGED vars => EndsOnlyItsOwn
  BY DEF RunFlag, vars, EndsOnlyItsOwn
<1> QED BY <1>1, <1>2
==============================================================================
