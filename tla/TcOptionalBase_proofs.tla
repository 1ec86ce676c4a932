------------------------- MODULE TcOptionalBase_proofs -------------------------
(***************************************************************************)
(* Proofs about TcOptionalBase: the inductive invariant, what follows from *)
(* it, and that every step does what OptionalContract allows.              *)
(***************************************************************************)
EXTENDS TcOptionalBase, TLAPS

Places == Opts \cup {Arg}

(* The part of the invariant that is about the storage, in one piece.      *)
Sound == /\ alive \subseteq Opts
         /\ m_initialized \in [Opts -> BOOLEAN]
         /\ m_storage \in [Opts \cup {Arg} -> Objects \cup {Garbage}]
         /\ Written

(* Garbage is no object and the unspecified value is one.                  *)
LEMMA GarbageIsNoObject == Garbage \notin Objects /\ Unspec \in Objects
  BY TcOptionalBaseAssumption DEF Objects

(* A step that ends the call and leaves sound storage keeps the invariant. *)
LEMMA EndKeeps ==
    ASSUME TcInv, Sound', busy' = FALSE, call' = call,
           outcome' \in {"returned", "threw", "bad_access"},
           result' \in Objects \cup {Garbage}
    PROVE  TcInv'
  BY DEF TcInv, TypeOK, Sound

(* Writing the converted source into the optional of the call.             *)
LEMMA ConstructSound ==
    ASSUME TcInv, busy, Construct, call.from = Arg \/ m_initialized[call.from],
           \/ alive' = alive /\ call.o \in alive
           \/ alive' = alive \cup {call.o}
    PROVE  Sound'
<1> DEFINE o == call.o
           s == call.from
<1>1. /\ o \in Opts /\ o \in Places
      /\ s \in Places /\ m_storage[s] \in Objects
      /\ m_storage \in [Places -> Objects \cup {Garbage}]
  BY DEF TcInv, TypeOK, Written, Places
<1>2. PICK x \in Consumed : m_storage' = [[m_storage EXCEPT ![s] = x]
                                            EXCEPT ![o] = m_storage[s]]
  BY DEF Construct
<1>3. x \in Objects
  BY <1>1, GarbageIsNoObject DEF Consumed
<1>4. m_initialized' = [m_initialized EXCEPT ![o] = TRUE]
  BY DEF Construct
<1>5. /\ m_storage' \in [Places -> Objects \cup {Garbage}]
      /\ m_storage'[o] \in Objects
      /\ \A p \in Places \ {o} : m_storage'[p] = m_storage[p]
                                   \/ m_storage'[p] \in Objects
  BY <1>1, <1>2, <1>3
<1>6. o # Arg
  BY <1>1, TcOptionalBaseAssumption
<1>7. /\ alive' \subseteq Opts /\ o \in alive' /\ alive \subseteq alive'
      /\ m_initialized' \in [Opts -> BOOLEAN]
  BY <1>1, <1>4 DEF TcInv, TypeOK
<1>8. m_storage'[Arg] # Garbage
  BY <1>1, <1>5, <1>6, GarbageIsNoObject DEF TcInv, Written, Places
<1>9. ASSUME NEW q \in Opts, m_initialized'[q]
      PROVE  q \in alive' /\ m_storage'[q] # Garbage
  <2>1. CASE q = o
    BY <1>5, <1>7, <2>1, GarbageIsNoObject
  <2>2. CASE q # o
    <3>1. m_initialized[q]
      BY <1>4, <1>9, <2>2 DEF TcInv, TypeOK
    <3> QED BY <1>5, <1>7, <2>2, <3>1, GarbageIsNoObject
            DEF TcInv, Written, Places
  <2> QED BY <2>1, <2>2
<1> QED BY <1>5, <1>7, <1>8, <1>9 DEF Sound, Written, Places

(* A step that changes only the flag of one optional, to FALSE.            *)
LEMMA DestroySound ==
    ASSUME TcInv, NEW o \in Opts, Destroy(o), alive' = alive
    PROVE  Sound'
  BY DEF TcInv, TypeOK, Written, Sound, Destroy

(* Writing anything into an optional that is left disengaged.              *)
LEMMA DisengagedSound ==
    ASSUME TcInv, NEW o \in Opts, NEW x \in Objects \cup {Garbage},
           m_initialized' = [m_initialized EXCEPT ![o] = FALSE],
           m_storage' = [m_storage EXCEPT ![o] = x],
           alive' \subseteq Opts, alive \ {o} \subseteq alive'
    PROVE  Sound'
  BY TcOptionalBaseAssumption DEF TcInv, TypeOK, Written, Sound

(* The defaulted copy of one optional to another.                          *)
LEMMA CopySound ==
    ASSUME TcInv, CopyBase, call.from \in alive,
           \/ alive' = alive /\ call.o \in alive
           \/ alive' = alive \cup {call.o}
    PROVE  Sound'
<1> DEFINE o == call.o
           s == call.from
<1>1. o \in Opts /\ s \in Opts
  BY DEF TcInv, TypeOK
<1>2. /\ m_initialized' = [m_initialized EXCEPT ![o] = m_initialized[s]]
      /\ m_storage' = [m_storage EXCEPT ![o] = m_storage[s]]
  BY DEF CopyBase
<1>3. /\ m_initialized' \in [Opts -> BOOLEAN]
      /\ m_storage' \in [Opts \cup {Arg} -> Objects \cup {Garbage}]
      /\ alive' \subseteq Opts /\ o \in alive' /\ alive \subseteq alive'
  BY <1>1, <1>2 DEF TcInv, TypeOK
<1>4. m_storage'[Arg] # Garbage
  BY <1>1, <1>2, TcOptionalBaseAssumption DEF TcInv, TypeOK, Written
<1>5. ASSUME NEW q \in Opts, m_initialized'[q]
      PROVE  q \in alive' /\ m_storage'[q] # Garbage
  BY <1>1, <1>2, <1>3, <1>5 DEF TcInv, TypeOK, Written
<1> QED BY <1>3, <1>4, <1>5 DEF Sound, Written

------------------------------------------------------------------------------
(* A conversion changes at most its source, which then still is a T.       *)
LEMMA SourceSound ==
    ASSUME TcInv, NEW s \in Opts \cup {Arg}, m_storage[s] # Garbage,
           NEW x \in Objects, m_storage' = [m_storage EXCEPT ![s] = x],
           UNCHANGED <<alive, m_initialized>>
    PROVE  Sound'
  BY GarbageIsNoObject DEF TcInv, TypeOK, Written, Sound

(* What the call in progress works on: the optional of a constructor is    *)
(* new, every other is there, and a source that is read is written.        *)
LEMMA CallFacts ==
    ASSUME TcInv, busy
    PROVE  /\ call.o \in Opts /\ call.from \in Opts \cup {Arg}
           /\ alive \subseteq Opts /\ result = Garbage
           /\ call.op \notin Ctors => call.o \in alive
           /\ call.op \in FromOptional => call.from \in alive /\ call.from \in Opts
           /\ call.op \in FromValue => call.from = Arg \/ m_initialized[call.from]
           /\ \A q \in Opts \cup {Arg} :
                 q = Arg \/ m_initialized[q] => m_storage[q] \in Objects
  BY TcOptionalBaseAssumption DEF TcInv, TypeOK, Called, Written

(* Whatever is consumed of a written source leaves a T there.              *)
LEMMA ConsumedIsObject ==
    ASSUME TcInv, busy, call.from = Arg \/ m_initialized[call.from]
    PROVE  /\ m_storage[call.from] \in Objects
           /\ Consumed \subseteq Objects
           /\ m_storage[call.from] # Garbage
  BY CallFacts, GarbageIsNoObject DEF Consumed

(* The calls that write a T given by the caller.                           *)
LEMMA WritersKeep ==
    ASSUME TcInv,
           \/ ValueCtor \/ FactoryCtor \/ CtorIfTrue
           \/ AssignValue \/ AssignExpr \/ Emplace \/ AssignFactory
    PROVE  TcInv'
<1>1. /\ busy /\ busy' = FALSE /\ call' = call /\ outcome' = "returned"
      /\ result' = Garbage /\ Construct /\ call.op \in FromValue
      /\ ((call.op \in Ctors /\ Constructed) \/ (call.op \notin Ctors /\ alive' = alive))
  <2>1. CASE ValueCtor
    BY <2>1 DEF ValueCtor, Ends, FromValue, Ctors
  <2>2. CASE FactoryCtor
    BY <2>2 DEF FactoryCtor, Ends, FromValue, Ctors
  <2>3. CASE CtorIfTrue
    BY <2>3 DEF CtorIfTrue, Ends, FromValue, Ctors
  <2>4. CASE AssignValue
    BY <2>4 DEF AssignValue, Ends, FromValue, Ctors
  <2>5. CASE AssignExpr
    BY <2>5 DEF AssignExpr, Ends, FromValue, Ctors
  <2>6. CASE Emplace
    BY <2>6 DEF Emplace, Ends, FromValue, Ctors
  <2>7. CASE AssignFactory
    BY <2>7 DEF AssignFactory, Ends, FromValue, Ctors
  <2> QED BY <2>1, <2>2, <2>3, <2>4, <2>5, <2>6, <2>7
<1>2. /\ call.from = Arg \/ m_initialized[call.from]
      /\ ((alive' = alive /\ call.o \in alive) \/ alive' = alive \cup {call.o})
  BY <1>1, CallFacts DEF Constructed
<1> QED BY <1>1, <1>2, ConstructSound, EndKeeps

(* The calls that leave the optional without a value.                      *)
LEMMA EmptyingKeeps ==
    ASSUME TcInv, DefaultCtor \/ CtorIfFalse \/ Dtor \/ Reset
    PROVE  TcInv'
<1>1. /\ busy /\ busy' = FALSE /\ call' = call /\ outcome' = "returned"
      /\ result' = Garbage
  BY DEF DefaultCtor, CtorIfFalse, Dtor, Reset, Ends
<1>2. PICK x \in Objects \cup {Garbage} :
         /\ m_initialized' = [m_initialized EXCEPT ![call.o] = FALSE]
         /\ m_storage' = [m_storage EXCEPT ![call.o] = x]
         /\ alive' \subseteq alive \cup {call.o}
         /\ alive \ {call.o} \subseteq alive'
  <2>1. CASE DefaultCtor
    BY <2>1, GarbageIsNoObject DEF DefaultCtor, Constructed
  <2>2. CASE CtorIfFalse
    BY <2>2 DEF CtorIfFalse, Constructed, Objects
  <2>3. CASE Dtor
    BY <2>3 DEF Dtor
  <2>4. CASE Reset
    <3>1. /\ m_storage = [m_storage EXCEPT ![call.o] = m_storage[call.o]]
          /\ m_storage[call.o] \in Objects \cup {Garbage}
      BY DEF TcInv, TypeOK
    <3> QED BY <2>4, <3>1 DEF Reset, Destroy
  <2> QED BY <2>1, <2>2, <2>3, <2>4
<1>3. call.o \in Opts /\ alive' \subseteq Opts
  BY <1>1, <1>2, CallFacts
<1> QED BY <1>1, <1>2, <1>3, DisengagedSound, EndKeeps

(* The calls whose source is an optional, with or without a value.         *)
LEMMA CopyingKeeps == ASSUME TcInv, CopyCtor \/ AssignOptional PROVE TcInv'
<1>1. /\ busy /\ busy' = FALSE /\ call' = call /\ outcome' = "returned"
      /\ result' = Garbage /\ CopyBase /\ call.op \in FromOptional
      /\ (Constructed \/ (call.op \notin Ctors /\ alive' = alive))
  <2>1. CASE CopyCtor
    BY <2>1 DEF CopyCtor, Ends, FromOptional
  <2>2. CASE AssignOptional
    BY <2>2 DEF AssignOptional, Ends, FromOptional, Ctors
  <2> QED BY <2>1, <2>2
<1>2. /\ call.from \in alive
      /\ ((alive' = alive /\ call.o \in alive) \/ alive' = alive \cup {call.o})
  BY <1>1, CallFacts DEF Constructed
<1> QED BY <1>1, <1>2, CopySound, EndKeeps

(* The calls that convert the value of an optional<U>, if it has one.      *)
LEMMA ConvertingKeeps ==
    ASSUME TcInv, ConvertingCtor \/ AssignConverting
    PROVE  TcInv'
<1>1. /\ busy /\ busy' = FALSE /\ call' = call /\ outcome' = "returned"
      /\ result' = Garbage
      /\ (Constructed \/ (call.op \notin Ctors /\ alive' = alive))
  <2>1. CASE ConvertingCtor
    BY <2>1 DEF ConvertingCtor, Ends
  <2>2. CASE AssignConverting
    BY <2>2 DEF AssignConverting, Ends, Ctors
  <2> QED BY <2>1, <2>2
<1>2. /\ call.o \in Opts
      /\ ((alive' = alive /\ call.o \in alive) \/ alive' = alive \cup {call.o})
  BY <1>1, CallFacts DEF Constructed
<1>3. CASE m_initialized[call.from]
  <2>1. Construct
    BY <1>3 DEF ConvertingCtor, AssignConverting
  <2> QED BY <1>1, <1>2, <1>3, <2>1, ConstructSound, EndKeeps
<1>4. CASE ~m_initialized[call.from]
  <2>1. CASE ConvertingCtor
    <3>1. /\ m_initialized' = [m_initialized EXCEPT ![call.o] = FALSE]
          /\ m_storage' = [m_storage EXCEPT ![call.o] = Unspec]
      BY <1>4, <2>1 DEF ConvertingCtor
    <3>2. /\ alive' \subseteq Opts /\ alive \ {call.o} \subseteq alive'
          /\ Unspec \in Objects \cup {Garbage}
      BY <1>1, <1>2, CallFacts, GarbageIsNoObject
    <3> QED BY <1>1, <1>2, <3>1, <3>2, DisengagedSound, EndKeeps
  <2>2. CASE AssignConverting
    BY <1>1, <1>2, <1>4, <2>2, DestroySound, EndKeeps DEF AssignConverting
  <2> QED BY <2>1, <2>2
<1> QED BY <1>3, <1>4

(* The free swap, in which one optional may be given twice.                *)
LEMMA SwapKeeps == ASSUME TcInv, Swap PROVE TcInv'
<1> DEFINE o == call.o
           p == call.from
<1>1. /\ busy /\ busy' = FALSE /\ call' = call /\ outcome' = "returned"
      /\ result' = Garbage /\ alive' = alive
      /\ call.op = "swap"
  BY DEF Swap, Ends
<1>2. o \in alive /\ p \in alive /\ o \in Opts /\ p \in Opts
  BY <1>1, CallFacts DEF FromOptional, Ctors
<1>3. Sound'
  <2>1. CASE m_initialized[o] /\ m_initialized[p]
    <3>1. /\ m_storage' = [m_storage EXCEPT ![o] = m_storage[p],
                                            ![p] = m_storage[o]]
          /\ m_initialized' = m_initialized
      BY <2>1 DEF Swap
    <3> QED BY <1>1, <1>2, <2>1, <3>1, TcOptionalBaseAssumption
            DEF TcInv, TypeOK, Written, Sound
  <2>2. ASSUME NEW q \in {o, p}, NEW r \in {o, p}, q # r, m_initialized[r],
               Assign(q, r)
        PROVE  Sound'
    BY <1>1, <1>2, <2>2, TcOptionalBaseAssumption
       DEF TcInv, TypeOK, Written, Sound, Assign
  <2>3. CASE m_initialized[o] /\ ~m_initialized[p]
    BY <2>2, <2>3 DEF Swap
  <2>4. CASE ~m_initialized[o] /\ m_initialized[p]
    BY <2>2, <2>4 DEF Swap
  <2>5. CASE ~m_initialized[o] /\ ~m_initialized[p]
    <3>1. UNCHANGED <<m_initialized, m_storage>>
      BY <2>5 DEF Swap
    <3> QED BY <1>1, <3>1 DEF TcInv, TypeOK, Written, Sound
  <2> QED BY <2>1, <2>3, <2>4, <2>5
<1> QED BY <1>1, <1>3, EndKeeps

(* The observers change at most what value_or() moves from.                *)
LEMMA ObserversKeep == ASSUME TcInv, Value \/ ValueOr PROVE TcInv'
<1>1. CASE Value
  <2>1. Sound'
    BY <1>1 DEF Value, TcInv, TypeOK, Written, Sound
  <2>2. /\ busy' = FALSE /\ call' = call
        /\ outcome' \in {"returned", "bad_access"}
        /\ result' \in Objects \cup {Garbage}
    BY <1>1 DEF Value, TcInv, TypeOK
  <2> QED BY <2>1, <2>2, EndKeeps
<1>2. CASE ValueOr
  <2>1. /\ busy /\ busy' = FALSE /\ call' = call /\ outcome' = "returned"
        /\ call.op = "value_or" /\ UNCHANGED <<alive, m_initialized>>
    BY <1>2 DEF ValueOr, Ends
  <2>2. call.from = Arg \/ m_initialized[call.from]
    BY <2>1, CallFacts DEF FromValue
  <2>3. CASE m_initialized[call.o]
    <3>1. result' = m_storage[call.o] /\ m_storage' = m_storage
      BY <1>2, <2>3 DEF ValueOr, Ends
    <3>2. Sound' /\ result' \in Objects
      BY <2>1, <2>3, <3>1, CallFacts DEF TcInv, TypeOK, Written, Sound
    <3> QED BY <2>1, <3>2, EndKeeps
  <2>4. CASE ~m_initialized[call.o]
    <3>1. PICK x \in Consumed : m_storage' = [m_storage EXCEPT ![call.from] = x]
      BY <1>2, <2>4 DEF ValueOr
    <3>2. result' = m_storage[call.from]
      BY <1>2, <2>4 DEF ValueOr, Ends
    <3>3. result' \in Objects /\ x \in Objects /\ m_storage[call.from] # Garbage
      BY <2>1, <2>2, <3>2, ConsumedIsObject
    <3>4. Sound'
      BY <2>1, <3>1, <3>3, SourceSound, CallFacts
    <3> QED BY <2>1, <3>3, <3>4, EndKeeps
  <2> QED BY <2>3, <2>4
<1> QED BY <1>1, <1>2

(* A conversion that throws leaves every flag as it was.                   *)
LEMMA ThrowingKeeps == ASSUME TcInv, Throw PROVE TcInv'
<1>1. /\ busy /\ busy' = FALSE /\ call' = call /\ outcome' = "threw"
      /\ result' = result /\ UNCHANGED <<alive, m_initialized>>
      /\ call.op \in Converters
      /\ call.op \in FromOptional => m_initialized[call.from]
  BY DEF Throw
<1>2. call.op \in FromOptional \cup FromValue
  BY <1>1 DEF Converters, FromOptional, FromValue
<1>3. call.from = Arg \/ m_initialized[call.from]
  BY <1>1, <1>2, CallFacts
<1>4. m_storage[call.from] \in Consumed
  BY DEF Consumed
<1>5. PICK x \in Consumed : m_storage' = [m_storage EXCEPT ![call.from] = x]
  BY <1>4 DEF Throw
<1>6. Sound'
  BY <1>1, <1>3, <1>5, ConsumedIsObject, CallFacts, SourceSound
<1> QED BY <1>1, <1>6, EndKeeps, CallFacts

(* A call that is made has its preconditions, and brings a written T.      *)
LEMMA MakeKeeps ==
    ASSUME TcInv, NEW op \in Ops, NEW o \in Opts, NEW from \in Opts \cup {Arg},
           NEW how \in Hows, Make(op, o, from, how)
    PROVE  TcInv'
<1>1. PICK x \in (IF from = Arg THEN Values ELSE {Unspec}) :
         m_storage' = [m_storage EXCEPT ![Arg] = x]
  BY DEF Make
<1>2. x \in Objects
  BY DEF Objects
<1>3. UNCHANGED <<alive, m_initialized>>
  BY DEF Make
<1>4. Written'
  BY <1>1, <1>2, <1>3, GarbageIsNoObject, TcOptionalBaseAssumption
     DEF TcInv, TypeOK, Written
<1>5. /\ call' = [op |-> op, o |-> o, from |-> from, how |-> how]
      /\ outcome' = "pending" /\ result' = Garbage /\ busy' = TRUE
  BY DEF Make
<1>6. Called'
  BY <1>3, <1>5 DEF Make, Called, Engaged
<1>7. TypeOK'
  BY <1>1, <1>2, <1>3, <1>5 DEF TcInv, TypeOK
<1> QED BY <1>4, <1>6, <1>7 DEF TcInv

------------------------------------------------------------------------------
(* The invariant holds at the start and is kept by every step.             *)
LEMMA InitKeeps == Init => TcInv
<1> SUFFICES ASSUME Init PROVE TcInv
  OBVIOUS
<1>1. (CHOOSE o \in Opts : TRUE) \in Opts
  BY TcOptionalBaseAssumption
<1>2. TypeOK
  BY <1>1, GarbageIsNoObject DEF Init, TypeOK, Hows
<1>3. Written
  BY GarbageIsNoObject DEF Init, Written
<1> QED BY <1>2, <1>3 DEF Init, TcInv

(* No step breaks the invariant.                                           *)
LEMMA StepKeeps == TcInv /\ [Next]_tcvars => TcInv'
<1> SUFFICES ASSUME TcInv, [Next]_tcvars PROVE TcInv'
  OBVIOUS
<1>1. CASE UNCHANGED tcvars
  BY <1>1 DEF tcvars, TcInv, TypeOK, Written, Called
<1>2. CASE End
  BY <1>2, WritersKeep, EmptyingKeeps, CopyingKeeps, ConvertingKeeps,
     SwapKeeps, ObserversKeep DEF End
<1> QED BY <1>1, <1>2, MakeKeeps, ThrowingKeeps DEF Next

(* The flags, the storage and the call in progress stay in step, for any   *)
(* number of optionals and values.                                         *)
THEOREM InductiveInvariant == Spec => []TcInv
<1> QED BY InitKeeps, StepKeeps, PTL DEF Spec

(* An operation of tc_optional_base never engages an optional whose        *)
(* storage nobody has written, whatever it copies along.                   *)
THEOREM NoGarbageSeen == Spec => []EngagedIsWritten
<1>1. TcInv => EngagedIsWritten
  BY DEF TcInv, Written, Engaged, EngagedIsWritten
<1> QED BY <1>1, InductiveInvariant, PTL

------------------------------------------------------------------------------
(* What a caller sees, place by place.                                     *)
LEMMA SeenIs ==
    TcInv => /\ Seen = [p \in Opts \cup {Arg} |-> Seen[p]]
             /\ Seen[Arg] = m_storage[Arg]
             /\ \A p \in Opts :
                   /\ p \notin alive => Seen[p] = Absent
                   /\ m_initialized[p] => Seen[p] = m_storage[p] /\ p \in alive
                   /\ p \in alive /\ ~m_initialized[p] => Seen[p] = None
  BY TcOptionalBaseAssumption DEF Seen, View, TcInv, Written

(* So what a caller sees tells the three states of an optional apart.      *)
LEMMA SeenTells ==
    ASSUME TcInv
    PROVE  /\ Contract!InLife(Seen) = alive
           /\ \A p \in Opts \cup {Arg} :
                 /\ p = Arg \/ m_initialized[p] <=> Seen[p] \in Objects
                 /\ p = Arg \/ m_initialized[p] => Seen[p] = m_storage[p]
           /\ \A p \in alive : p \in Opts /\ (m_initialized[p] <=> Seen[p] # None)
<1>1. /\ alive \subseteq Opts /\ m_initialized \in [Opts -> BOOLEAN]
      /\ m_storage[Arg] \in Objects
      /\ \A p \in Opts : m_initialized[p] => m_storage[p] \in Objects
  BY DEF TcInv, TypeOK, Written
<1>2. None \notin Objects /\ Absent \notin Objects /\ None # Absent
  BY TcOptionalBaseAssumption
<1>3. ASSUME NEW p \in Opts PROVE p \in alive <=> Seen[p] # Absent
  BY <1>1, <1>2, SeenIs
<1>4. Contract!InLife(Seen) = alive
  BY <1>1, <1>3 DEF Contract!InLife
<1>5. ASSUME NEW p \in Opts \cup {Arg}
      PROVE  /\ p = Arg \/ m_initialized[p] <=> Seen[p] \in Objects
             /\ p = Arg \/ m_initialized[p] => Seen[p] = m_storage[p]
  BY <1>1, <1>2, SeenIs
<1>6. ASSUME NEW p \in alive
      PROVE  p \in Opts /\ (m_initialized[p] <=> Seen[p] # None)
  BY <1>1, <1>2, SeenIs
<1> QED BY <1>4, <1>5, <1>6

(* A step that hands a value on and then leaves x in its source is one     *)
(* that the contract allows to return.                                     *)
LEMMA TransferReturns ==
    ASSUME busy, busy' = FALSE, UNCHANGED call, outcome' = "returned",
           result' = Garbage, call.op \in Contract!Transfers,
           NEW x \in Contract!Left(call, Seen, call.from),
           Seen' = [Seen EXCEPT ![call.o] = Seen[call.from], ![call.from] = x]
    PROVE  Contract!EndByReturning
<1>1. Contract!Returns(call, Seen, Seen')
  BY DEF Contract!Returns
<1>2. Contract!Result(call, Seen) = Garbage
  BY DEF Contract!Result, Contract!Transfers, Contract!Converting
<1> QED BY <1>1, <1>2 DEF Contract!EndByReturning

(* Construct() hands the source's value on; given the optional's own       *)
(* value, it leaves it where it was.                                       *)
LEMMA ConstructReturns ==
    ASSUME TcInv, TcInv', busy, busy' = FALSE, UNCHANGED call,
           outcome' = "returned", result' = Garbage,
           call.op \in Contract!Transfers, Construct,
           call.from = Arg \/ m_initialized[call.from],
           alive' = alive \cup {call.o}
    PROVE  Contract!EndByReturning
<1> DEFINE o == call.o
           s == call.from
<1>1. PICK x \in Consumed : m_storage' = [[m_storage EXCEPT ![s] = x]
                                            EXCEPT ![o] = m_storage[s]]
  BY DEF Construct
<1>2. /\ o \in Opts /\ s \in Opts \cup {Arg} /\ o # Arg
      /\ m_initialized \in [Opts -> BOOLEAN] /\ alive \subseteq Opts
      /\ m_storage \in [Opts \cup {Arg} -> Objects \cup {Garbage}]
      /\ m_initialized' = [m_initialized EXCEPT ![o] = TRUE]
      /\ \A q \in Opts : m_initialized[q] => q \in alive
  BY TcOptionalBaseAssumption DEF TcInv, TypeOK, Construct, Written
<1>3. m_storage[s] \in Objects /\ Seen[s] = m_storage[s]
  BY <1>2, ConsumedIsObject, SeenTells
<1> DEFINE y == IF o = s THEN Seen[s] ELSE x
<1>4. y \in Contract!Left(call, Seen, s)
  BY <1>1, <1>3 DEF Contract!Left, Contract!Objects, Objects, Consumed
<1>5. Seen' = [Seen EXCEPT ![o] = Seen[s], ![s] = y]
  <2>1. Seen = [p \in Opts \cup {Arg} |-> Seen[p]]
    BY SeenIs
  <2>2. ASSUME NEW p \in Opts \cup {Arg}
        PROVE  Seen'[p] = IF p = s THEN y ELSE IF p = o THEN Seen[s] ELSE Seen[p]
    BY <1>1, <1>2, <1>3 DEF Seen, View
  <2>3. Seen' = [p \in Opts \cup {Arg} |-> Seen'[p]]
    BY DEF Seen, View
  <2> QED BY <1>2, <2>1, <2>2, <2>3
<1> HIDE DEF y
<1> QED BY <1>4, <1>5, TransferReturns

(* A step that empties the optional of the call, or copies an empty one.   *)
LEMMA EmptiedSeen ==
    ASSUME TcInv, NEW o \in Opts,
           ~m_initialized'[o], o \in alive', alive' = alive \cup {o},
           \A q \in Opts \ {o} : /\ m_initialized'[q] = m_initialized[q]
                                 /\ m_storage'[q] = m_storage[q],
           m_storage'[Arg] = m_storage[Arg]
    PROVE  Seen' = [Seen EXCEPT ![o] = None]
<1>1. o # Arg
  BY TcOptionalBaseAssumption
<1>2. Seen = [p \in Opts \cup {Arg} |-> Seen[p]]
  BY SeenIs
<1>3. ASSUME NEW p \in Opts \cup {Arg}
      PROVE  Seen'[p] = IF p = o THEN None ELSE Seen[p]
  BY <1>1, <1>3 DEF Seen, View
<1>4. Seen' = [p \in Opts \cup {Arg} |-> Seen'[p]]
  BY DEF Seen, View
<1> QED BY <1>2, <1>3, <1>4

(* A call for which the contract wants an empty optional.                  *)
LEMMA EmptyReturns ==
    ASSUME busy, busy' = FALSE, UNCHANGED call, outcome' = "returned",
           result' = Garbage, call.op \in Contract!Emptying,
           Seen' = [Seen EXCEPT ![call.o] = None]
    PROVE  Contract!EndByReturning
  BY DEF Contract!EndByReturning, Contract!Returns, Contract!Result,
         Contract!Emptying

(* A call that hands on no value, because its source has none.             *)
LEMMA NothingReturns ==
    ASSUME TcInv, busy, busy' = FALSE, UNCHANGED call, outcome' = "returned",
           result' = Garbage, call.op \in Contract!Transfers,
           call.from \in alive, ~m_initialized[call.from],
           Seen' = [Seen EXCEPT ![call.o] = None]
    PROVE  Contract!EndByReturning
<1>1. Seen[call.from] = None /\ call.from \in Opts
  BY SeenIs DEF TcInv, TypeOK
<1>2. Seen[call.from] \in Contract!Left(call, Seen, call.from)
  BY DEF Contract!Left
<1>3. [Seen EXCEPT ![call.o] = None]
        = [Seen EXCEPT ![call.o] = Seen[call.from],
                       ![call.from] = Seen[call.from]]
  BY <1>1, SeenIs DEF TcInv, TypeOK
<1> QED BY <1>2, <1>3, TransferReturns

(* The calls that write a value of the caller return as they promise.      *)
LEMMA WritersReturn ==
    ASSUME TcInv, TcInv',
           \/ ValueCtor \/ FactoryCtor \/ CtorIfTrue
           \/ AssignValue \/ AssignExpr \/ Emplace \/ AssignFactory
    PROVE  Contract!EndByReturning
<1>1. /\ busy /\ busy' = FALSE /\ UNCHANGED call /\ outcome' = "returned"
      /\ result' = Garbage /\ Construct /\ call.op \in FromValue
      /\ call.op \in Contract!Transfers
      /\ (Constructed \/ (call.op \notin Ctors /\ alive' = alive))
  <2> USE DEF Ends, FromValue, Ctors, Contract!Transfers, Contract!Converting
  <2>1. CASE ValueCtor
    BY <2>1 DEF ValueCtor
  <2>2. CASE FactoryCtor
    BY <2>2 DEF FactoryCtor
  <2>3. CASE CtorIfTrue
    BY <2>3 DEF CtorIfTrue
  <2>4. CASE AssignValue
    BY <2>4 DEF AssignValue
  <2>5. CASE AssignExpr
    BY <2>5 DEF AssignExpr
  <2>6. CASE Emplace
    BY <2>6 DEF Emplace
  <2>7. CASE AssignFactory
    BY <2>7 DEF AssignFactory
  <2> QED BY <2>1, <2>2, <2>3, <2>4, <2>5, <2>6, <2>7
<1>2. /\ call.from = Arg \/ m_initialized[call.from]
      /\ alive' = alive \cup {call.o}
  BY <1>1, CallFacts DEF Constructed
<1> QED BY <1>1, <1>2, ConstructReturns

(* The calls that leave an optional empty, whatever was in it.             *)
LEMMA EmptyingReturns ==
    ASSUME TcInv, DefaultCtor \/ CtorIfFalse \/ Reset
    PROVE  Contract!EndByReturning
<1>1. /\ busy /\ busy' = FALSE /\ UNCHANGED call /\ outcome' = "returned"
      /\ result' = Garbage /\ call.op \in Contract!Emptying
      /\ (Constructed \/ (call.op \notin Ctors /\ alive' = alive))
      /\ m_initialized' = [m_initialized EXCEPT ![call.o] = FALSE]
      /\ (m_storage' = m_storage \/ \E x \in Objects \cup {Garbage} :
                        m_storage' = [m_storage EXCEPT ![call.o] = x])
  <2> USE DEF Ends, Ctors, Contract!Emptying
  <2>1. CASE DefaultCtor
    BY <2>1, GarbageIsNoObject DEF DefaultCtor
  <2>2. CASE CtorIfFalse
    BY <2>2 DEF CtorIfFalse
  <2>3. CASE Reset
    BY <2>3 DEF Reset, Destroy
  <2> QED BY <2>1, <2>2, <2>3
<1>2. call.o \in Opts /\ alive' = alive \cup {call.o}
  BY <1>1, CallFacts DEF Constructed
<1>3. Seen' = [Seen EXCEPT ![call.o] = None]
  <2>1. /\ ~m_initialized'[call.o] /\ call.o # Arg
        /\ \A q \in Opts \ {call.o} : /\ m_initialized'[q] = m_initialized[q]
                                      /\ m_storage'[q] = m_storage[q]
        /\ m_storage'[Arg] = m_storage[Arg]
    BY <1>1, <1>2, TcOptionalBaseAssumption DEF TcInv, TypeOK
  <2> QED BY <1>2, <2>1, EmptiedSeen
<1> QED BY <1>1, <1>3, EmptyReturns

(* The destructor takes the optional out of sight.                         *)
LEMMA DtorReturns == ASSUME TcInv, Dtor PROVE Contract!EndByReturning
<1>1. /\ busy /\ busy' = FALSE /\ UNCHANGED call /\ outcome' = "returned"
      /\ result' = Garbage /\ call.op = "dtor"
      /\ alive' = alive \ {call.o}
      /\ m_initialized' = [m_initialized EXCEPT ![call.o] = FALSE]
      /\ m_storage' = [m_storage EXCEPT ![call.o] = Garbage]
  BY DEF Dtor, Ends
<1>2. call.o \in Opts /\ call.o # Arg
  BY <1>1, CallFacts, TcOptionalBaseAssumption
<1>3. ASSUME NEW p \in Opts \cup {Arg}
      PROVE  Seen'[p] = IF p = call.o THEN Absent ELSE Seen[p]
  BY <1>1, <1>2 DEF Seen, View, TcInv, TypeOK
<1>4. /\ Seen = [p \in Opts \cup {Arg} |-> Seen[p]]
      /\ Seen' = [p \in Opts \cup {Arg} |-> Seen'[p]]
  BY SeenIs DEF Seen, View
<1>5. Seen' = [Seen EXCEPT ![call.o] = Absent]
  BY <1>2, <1>3, <1>4
<1> QED BY <1>1, <1>5 DEF Contract!EndByReturning, Contract!Returns, Contract!Result

(* The defaulted copies return with what the source has, a value or none.  *)
LEMMA CopyingReturns ==
    ASSUME TcInv, CopyCtor \/ AssignOptional PROVE Contract!EndByReturning
<1> DEFINE o == call.o
           s == call.from
<1>1. /\ busy /\ busy' = FALSE /\ UNCHANGED call /\ outcome' = "returned"
      /\ result' = Garbage /\ CopyBase /\ call.op \in FromOptional
      /\ call.op \in Contract!Transfers
      /\ (Constructed \/ (call.op \notin Ctors /\ alive' = alive))
  <2> USE DEF Ends, FromOptional, Ctors, Contract!Transfers
  <2>1. CASE CopyCtor
    BY <2>1 DEF CopyCtor
  <2>2. CASE AssignOptional
    BY <2>2 DEF AssignOptional
  <2> QED BY <2>1, <2>2
<1>2. /\ o \in Opts /\ s \in Opts /\ s \in alive /\ o # Arg
      /\ alive' = alive \cup {o}
  BY <1>1, CallFacts, TcOptionalBaseAssumption DEF Constructed
<1>3. Seen' = [Seen EXCEPT ![o] = Seen[s], ![s] = Seen[s]]
  <2>1. ASSUME NEW p \in Opts \cup {Arg}
        PROVE  Seen'[p] = IF p = o THEN Seen[s] ELSE Seen[p]
    <3>1. /\ m_initialized'
              = [m_initialized EXCEPT ![o] = m_initialized[s]]
          /\ m_storage' = [m_storage EXCEPT ![o] = m_storage[s]]
          /\ m_initialized \in [Opts -> BOOLEAN]
          /\ m_storage \in [Opts \cup {Arg} -> Objects \cup {Garbage}]
      BY <1>1 DEF CopyBase, TcInv, TypeOK
    <3> HIDE DEF o, s
    <3>2. CASE p = o
      <4>1. m_initialized'[o] <=> m_initialized[s]
        BY <1>2, <3>1
      <4>2. m_storage'[o] = m_storage[s] /\ o \in alive' /\ s # Arg
        BY <1>2, <3>1, TcOptionalBaseAssumption
      <4> QED BY <1>2, <3>2, <4>1, <4>2 DEF Seen, View
    <3>3. CASE p # o
      BY <1>2, <3>1, <3>3 DEF Seen, View
    <3> QED BY <3>2, <3>3
  <2>2. /\ Seen = [p \in Opts \cup {Arg} |-> Seen[p]]
        /\ Seen' = [p \in Opts \cup {Arg} |-> Seen'[p]]
    BY SeenIs DEF Seen, View
  <2> QED BY <1>2, <2>1, <2>2
<1>4. Seen[s] \in Contract!Left(call, Seen, s)
  BY DEF Contract!Left
<1> QED BY <1>1, <1>3, <1>4, TransferReturns

(* The conversions of an optional return with its value, or with none.     *)
LEMMA ConvertingReturns ==
    ASSUME TcInv, TcInv', ConvertingCtor \/ AssignConverting
    PROVE  Contract!EndByReturning
<1>1. /\ busy /\ busy' = FALSE /\ UNCHANGED call /\ outcome' = "returned"
      /\ result' = Garbage /\ call.op \in FromOptional
      /\ call.op \in Contract!Transfers
      /\ (Constructed \/ (call.op \notin Ctors /\ alive' = alive))
  <2> USE DEF Ends, FromOptional, Ctors, Contract!Transfers, Contract!Converting
  <2>1. CASE ConvertingCtor
    BY <2>1 DEF ConvertingCtor
  <2>2. CASE AssignConverting
    BY <2>2 DEF AssignConverting
  <2> QED BY <2>1, <2>2
<1>2. /\ call.o \in Opts /\ call.from \in alive /\ call.o # Arg
      /\ alive' = alive \cup {call.o}
  BY <1>1, CallFacts, TcOptionalBaseAssumption DEF Constructed
<1>3. CASE m_initialized[call.from]
  <2>1. Construct
    BY <1>3 DEF ConvertingCtor, AssignConverting
  <2> QED BY <1>1, <1>2, <1>3, <2>1, ConstructReturns
<1>4. CASE ~m_initialized[call.from]
  <2>1. /\ m_initialized' = [m_initialized EXCEPT ![call.o] = FALSE]
        /\ (m_storage' = m_storage
              \/ m_storage' = [m_storage EXCEPT ![call.o] = Unspec])
    BY <1>4 DEF ConvertingCtor, AssignConverting, Destroy
  <2>2. /\ ~m_initialized'[call.o]
        /\ \A q \in Opts \ {call.o} : /\ m_initialized'[q] = m_initialized[q]
                                      /\ m_storage'[q] = m_storage[q]
        /\ m_storage'[Arg] = m_storage[Arg]
    BY <1>2, <2>1, TcOptionalBaseAssumption DEF TcInv, TypeOK
  <2>3. Seen' = [Seen EXCEPT ![call.o] = None]
    BY <1>2, <2>2, EmptiedSeen
  <2> QED BY <1>1, <1>2, <1>4, <2>3, NothingReturns
<1> QED BY <1>3, <1>4

(* Swap exchanges what a caller sees in the two, a value or none.          *)
LEMMA SwapReturns == ASSUME TcInv, Swap PROVE Contract!EndByReturning
<1> DEFINE o == call.o
           r == call.from
<1>1. /\ busy /\ busy' = FALSE /\ UNCHANGED call /\ outcome' = "returned"
      /\ result' = Garbage /\ alive' = alive
      /\ call.op = "swap"
  BY DEF Swap, Ends
<1>2. o \in alive /\ r \in alive /\ o \in Opts /\ r \in Opts /\ Arg \notin Opts
  BY <1>1, CallFacts, TcOptionalBaseAssumption DEF FromOptional, Ctors
<1>3. /\ m_initialized \in [Opts -> BOOLEAN]
      /\ m_storage \in [Opts \cup {Arg} -> Objects \cup {Garbage}]
  BY DEF TcInv, TypeOK
<1>4. ASSUME NEW p \in Opts \cup {Arg}
      PROVE  Seen'[p] = IF p = r THEN Seen[o] ELSE IF p = o THEN Seen[r] ELSE Seen[p]
  <2>1. CASE m_initialized[o] /\ m_initialized[r]
    <3>1. /\ m_storage' = [m_storage EXCEPT ![o] = m_storage[r],
                                            ![r] = m_storage[o]]
          /\ m_initialized' = m_initialized
      BY <2>1 DEF Swap
    <3> QED BY <1>1, <1>2, <1>3, <2>1, <3>1 DEF Seen, View
  <2>2. CASE m_initialized[o] /\ ~m_initialized[r]
    <3>1. Assign(r, o)
      BY <2>2 DEF Swap
    <3> QED BY <1>1, <1>2, <1>3, <2>2, <3>1 DEF Seen, View, Assign
  <2>3. CASE ~m_initialized[o] /\ m_initialized[r]
    <3>1. Assign(o, r)
      BY <2>3 DEF Swap
    <3> QED BY <1>1, <1>2, <1>3, <2>3, <3>1 DEF Seen, View, Assign
  <2>4. CASE ~m_initialized[o] /\ ~m_initialized[r]
    <3>1. UNCHANGED <<m_initialized, m_storage>>
      BY <2>4 DEF Swap
    <3> QED BY <1>1, <1>2, <1>3, <2>4, <3>1 DEF Seen, View
  <2> QED BY <2>1, <2>2, <2>3, <2>4
<1>5. /\ Seen = [p \in Opts \cup {Arg} |-> Seen[p]]
      /\ Seen' = [p \in Opts \cup {Arg} |-> Seen'[p]]
  BY SeenIs DEF Seen, View
<1>6. Seen' = [Seen EXCEPT ![o] = Seen[r], ![r] = Seen[o]]
  BY <1>2, <1>4, <1>5
<1> QED BY <1>1, <1>6 DEF Contract!EndByReturning, Contract!Returns, Contract!Result

(* value() returns when there is one and throws bad_optional_access if not.*)
LEMMA ValueEnds ==
    ASSUME TcInv, Value
    PROVE  Contract!EndByReturning \/ Contract!EndByBadAccess
<1>1. /\ busy /\ busy' = FALSE /\ UNCHANGED call /\ call.op = "value"
      /\ UNCHANGED <<alive, m_initialized, m_storage>>
      /\ result' = Garbage /\ call.o \in alive
      /\ outcome' = IF m_initialized[call.o] THEN "returned" ELSE "bad_access"
  BY CallFacts DEF Value, Ctors
<1>2. Seen' = Seen
  BY <1>1 DEF Seen, View
<1>3. m_initialized[call.o] <=> Seen[call.o] # None
  BY <1>1, SeenTells
<1> QED BY <1>1, <1>2, <1>3
        DEF Contract!EndByReturning, Contract!EndByBadAccess,
            Contract!Returns, Contract!Result

(* value_or() returns the value, or what stands in for it.                 *)
LEMMA ValueOrReturns == ASSUME TcInv, ValueOr PROVE Contract!EndByReturning
<1> DEFINE o == call.o
           s == call.from
<1>1. /\ busy /\ busy' = FALSE /\ UNCHANGED call /\ outcome' = "returned"
      /\ call.op = "value_or" /\ UNCHANGED <<alive, m_initialized>>
  BY DEF ValueOr, Ends
<1>2. /\ s \in Opts \cup {Arg} /\ (s = Arg \/ m_initialized[s])
      /\ o \in Opts /\ o \in alive /\ o # Arg
      /\ (m_initialized[o] <=> Seen[o] # None)
  BY <1>1, CallFacts, SeenTells, TcOptionalBaseAssumption DEF FromValue, Ctors
<1>3. Contract!Giver(call, Seen) = IF m_initialized[o] THEN o ELSE s
  BY <1>1, <1>2 DEF Contract!Giver
<1>4. CASE m_initialized[o]
  <2>1. m_storage' = m_storage /\ result' = m_storage[o]
    BY <1>4 DEF ValueOr, Ends
  <2>2. /\ Seen' = [Seen EXCEPT ![o] = Seen[o]]
        /\ Seen[o] = m_storage[o]
    BY <1>1, <1>2, <1>4, <2>1, SeenIs DEF Seen, View
  <2>3. Seen[o] \in Contract!Left(call, Seen, o)
    BY DEF Contract!Left
  <2> QED BY <1>1, <1>3, <1>4, <2>1, <2>2, <2>3
          DEF Contract!EndByReturning, Contract!Returns, Contract!Result
<1>5. CASE ~m_initialized[o]
  <2>1. PICK x \in Consumed : m_storage' = [m_storage EXCEPT ![s] = x]
    BY <1>5 DEF ValueOr
  <2>2. result' = m_storage[s]
    BY <1>5 DEF ValueOr, Ends
  <2>3. /\ Seen[s] = m_storage[s] /\ m_storage[s] \in Objects
        /\ x \in Contract!Left(call, Seen, s)
    BY <1>1, <1>2, <2>1, ConsumedIsObject, SeenTells
       DEF Contract!Left, Contract!Objects, Objects, Consumed
  <2>4. Seen' = [Seen EXCEPT ![s] = x]
    <3>1. ASSUME NEW p \in Opts \cup {Arg}
          PROVE  Seen'[p] = IF p = s THEN x ELSE Seen[p]
      BY <1>1, <1>2, <2>1 DEF Seen, View, TcInv, TypeOK, Written
    <3>2. /\ Seen = [p \in Opts \cup {Arg} |-> Seen[p]]
          /\ Seen' = [p \in Opts \cup {Arg} |-> Seen'[p]]
      BY SeenIs DEF Seen, View
    <3> QED BY <1>2, <3>1, <3>2
  <2> QED BY <1>1, <1>3, <1>5, <2>2, <2>3, <2>4
          DEF Contract!EndByReturning, Contract!Returns, Contract!Result
<1> QED BY <1>4, <1>5

(* A conversion that throws changes at most the source it consumes.        *)
LEMMA ThrowEnds == ASSUME TcInv, Throw PROVE Contract!EndByThrowing
<1> DEFINE o == call.o
           s == call.from
<1>1. /\ busy /\ busy' = FALSE /\ UNCHANGED call /\ outcome' = "threw"
      /\ result' = Garbage /\ UNCHANGED <<alive, m_initialized>>
      /\ call.op \in Converters
      /\ call.op \in FromOptional => m_initialized[s]
      /\ call.op = "value_or" => ~m_initialized[o]
  BY CallFacts DEF Throw
<1>2. call.op \in FromOptional \cup FromValue
  BY <1>1 DEF Converters, FromOptional, FromValue
<1>3. s = Arg \/ m_initialized[s]
  BY <1>1, <1>2, CallFacts
<1>4. s \in Opts \cup {Arg} /\ Seen[s] = m_storage[s] /\ m_storage[s] \in Objects
  BY <1>1, <1>3, CallFacts, SeenTells
<1>5. PICK x \in (IF Strong THEN {m_storage[s]} ELSE Consumed) :
         m_storage' = [m_storage EXCEPT ![s] = x]
  BY DEF Throw
<1>6. /\ x \in Objects /\ (Strong => x = Seen[s])
      /\ (call.how # "move" => x = Seen[s])
  BY <1>1, <1>3, <1>4, <1>5, ConsumedIsObject DEF Consumed
<1>7. ASSUME NEW p \in Opts \cup {Arg}
      PROVE  Seen'[p] = IF p = s THEN x ELSE Seen[p]
  <2>1. m_storage \in [Opts \cup {Arg} -> Objects \cup {Garbage}]
    BY DEF TcInv, TypeOK
  <2>2. s = Arg \/ (s \in Opts /\ s \in alive /\ m_initialized[s])
    BY <1>3, <1>4 DEF TcInv, Written
  <2> QED BY <1>1, <1>4, <1>5, <2>1, <2>2 DEF Seen, View
<1>8. /\ Seen = [p \in Opts \cup {Arg} |-> Seen[p]]
      /\ Seen' = [p \in Opts \cup {Arg} |-> Seen'[p]]
  BY SeenIs DEF Seen, View
<1>9. x = Seen[s] => Seen' = Seen
  BY <1>7, <1>8
<1>10. call.op = "value_or" => Contract!Giver(call, Seen) = s
  <2>1. ASSUME call.op = "value_or" PROVE Seen[o] = None
    BY <1>1, <2>1, CallFacts, SeenIs DEF Ctors
  <2> QED BY <2>1 DEF Contract!Giver
<1>11. call.op # "value_or" => Contract!Giver(call, Seen) = s
  BY DEF Contract!Giver
<1>12. Contract!Emptied(call, Seen) = Seen
  BY DEF Contract!Emptied
<1>13. /\ call.op \notin Contract!Emptying \cup {"dtor", "value"}
       /\ call.op # "swap"
       /\ call.op \in Contract!FromOptional => Seen[s] \in Objects
  BY <1>1, <1>4 DEF Contract!Emptying, Contract!FromOptional, Converters
<1>14. Contract!ThrowsT(call, Seen, Seen')
  <2> DEFINE Touched ==
         (IF call.how = "move" THEN {Contract!Giver(call, Seen)} ELSE {})
            \cup (IF call.op = "value_or" THEN {} ELSE {o})
  <2>1. CASE x = Seen[s]
    <3>1. Seen' = Seen
      BY <1>9, <2>1
    <3> QED BY <1>12, <1>13, <3>1
            DEF Contract!ThrowsT, Contract!Objects, Objects
  <2>2. CASE x # Seen[s]
    <3>1. call.how = "move" /\ ~Strong /\ s \in Touched
      BY <1>6, <1>10, <1>11, <2>2
    <3>2. \A p \in (Opts \cup {Arg}) \ Touched : Seen'[p] = Seen[p]
      BY <1>7, <3>1
    <3>3. \A p \in Touched : IF Seen[p] \in Objects THEN Seen'[p] \in Objects
                             ELSE Seen'[p] = Seen[p]
      BY <1>1, <1>4, <1>6, <1>7, <1>10, <1>11, CallFacts
    <3> QED BY <1>12, <1>13, <3>1, <3>2, <3>3
            DEF Contract!ThrowsT, Contract!Objects, Objects
  <2> QED BY <2>1, <2>2
<1> QED BY <1>1, <1>14 DEF Contract!EndByThrowing

(* A call is made as the contract allows it.                               *)
LEMMA MakeMakes ==
    ASSUME TcInv, TcInv', NEW op \in Ops, NEW o \in Opts,
           NEW from \in Opts \cup {Arg}, NEW how \in Hows,
           Make(op, o, from, how)
    PROVE  Contract!Make
<1>1. /\ ~busy /\ busy' = TRUE /\ outcome' = "pending" /\ result' = Garbage
      /\ call' = [op |-> op, o |-> o, from |-> from, how |-> how]
      /\ UNCHANGED <<alive, m_initialized>>
  BY DEF Make
<1>2. PICK x \in (IF from = Arg THEN Values ELSE {Unspec}) :
         m_storage' = [m_storage EXCEPT ![Arg] = x]
  BY DEF Make
<1>3. Seen' = [Seen EXCEPT ![Arg] = x]
  <2>1. ASSUME NEW p \in Opts \cup {Arg}
        PROVE  Seen'[p] = IF p = Arg THEN x ELSE Seen[p]
    BY <1>1, <1>2 DEF Seen, View, TcInv, TypeOK
  <2>2. /\ Seen = [p \in Opts \cup {Arg} |-> Seen[p]]
        /\ Seen' = [p \in Opts \cup {Arg} |-> Seen'[p]]
    BY SeenIs DEF Seen, View
  <2> QED BY <2>1, <2>2
<1>4. /\ call' \in Contract!Calls
      /\ op \in Contract!Constructors <=> op \in Ctors
      /\ op \in Contract!FromOptional <=> op \in FromOptional
      /\ op \notin Contract!FromOptional \cup Contract!Emptying
                     \cup {"dtor", "value"} => op \in FromValue
  BY <1>1 DEF Contract!Calls, Contract!Ops, Contract!Hows, Hows, Ops, Ctors,
              FromNothing, FromOptional, FromValue, Contract!Constructors,
              Contract!FromOptional, Contract!Emptying, Contract!Transfers,
              Contract!Converting
<1>5. /\ Contract!InLife(Seen') = alive /\ alive \subseteq Opts
      /\ \A p \in Opts \cup {Arg} :
            (p = Arg \/ m_initialized[p]) => Seen'[p] \in Contract!Objects
  <2>1. Seen = [p \in Opts \cup {Arg} |-> Seen[p]] /\ x \in Objects
    BY SeenIs DEF Objects
  <2>2. \A p \in Opts : Seen'[p] = Seen[p]
    BY <1>3, <2>1, TcOptionalBaseAssumption
  <2>3. Seen'[Arg] \in Objects
    BY <1>3, <2>1
  <2> QED BY <2>2, <2>3, SeenTells
          DEF Contract!InLife, Contract!Objects, Objects, TcInv, TypeOK
<1>6. Contract!Allowed(call', Seen')
  <2>1. o \in alive <=> op \notin Ctors
    BY DEF Make
  <2>2. op \in FromOptional => from \in alive
    BY DEF Make
  <2>3. op \in FromValue => from = Arg \/ m_initialized[from]
    BY DEF Make, Engaged
  <2> QED BY <1>1, <1>4, <1>5, <2>1, <2>2, <2>3 DEF Contract!Allowed
<1> QED BY <1>1, <1>2, <1>3, <1>4, <1>6 DEF Contract!Make

(* The program before its first optional is one before its first call.     *)
LEMMA InitImplements == Init => Contract!Init
<1> SUFFICES ASSUME Init PROVE Contract!Init
  OBVIOUS
<1>1. Seen = [p \in Opts \cup {Arg} |-> IF p = Arg THEN Unspec ELSE Absent]
  BY DEF Init, Seen, View
<1> QED BY <1>1 DEF Init, Contract!Init

(* Every step is one of the contract's.                                    *)
LEMMA StepImplements ==
    TcInv /\ TcInv' /\ [Next]_tcvars => [Contract!Next]_(Contract!cvars)
<1> SUFFICES ASSUME TcInv, TcInv', [Next]_tcvars
             PROVE  [Contract!Next]_(Contract!cvars)
  OBVIOUS
<1>1. CASE UNCHANGED tcvars
  BY <1>1 DEF tcvars, Contract!cvars, Seen, View
<1>2. CASE End
  BY <1>2, WritersReturn, EmptyingReturns, DtorReturns, CopyingReturns,
     ConvertingReturns, SwapReturns, ValueEnds, ValueOrReturns
     DEF End, Contract!Next
<1>3. CASE Throw
  BY <1>3, ThrowEnds DEF Contract!Next
<1>4. ASSUME NEW op \in Ops, NEW o \in Opts, NEW from \in Opts \cup {Arg},
             NEW how \in Hows, Make(op, o, from, how)
      PROVE  Contract!Make
  BY <1>4, MakeMakes
<1> QED BY <1>1, <1>2, <1>3, <1>4 DEF Next, Contract!Next

(* The scalar implementation keeps the contract of optional: every call    *)
(* returns, throws or refuses with exactly the effects that are promised,  *)
(* whatever the number of optionals and values, and whether or not a       *)
(* conversion that throws consumes its source.                             *)
THEOREM Implements == Spec => ImplementsContract
<1> QED BY InductiveInvariant, InitImplements, StepImplements, PTL
        DEF Spec, ImplementsContract, Contract!Spec
===============================================================================
