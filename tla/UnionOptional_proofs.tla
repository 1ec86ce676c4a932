------------------------- MODULE UnionOptional_proofs -------------------------
(***************************************************************************)
(* optional<T> as union_optional.hpp implements it: every call leaves one  *)
(* of the programs of ProgramInv, whose statements do what the call has    *)
(* promised.  So the invariants of ProgramInv and ContractInv hold of it,  *)
(* and with them the properties of Guarantees and the contract.            *)
(***************************************************************************)
EXTENDS UnionOptional, ContractInv_proofs

(* The programs of the private helpers, in all their branches.             *)
LEMMA ResetPrograms ==
    ASSUME NEW o \in Opts
    PROVE  /\ StorageReset(o) \in Seq(Stmts)
           /\ Trivial => StorageReset(o) = <<Disengage(o)>>
           /\ ~Trivial /\ init[o]
                => StorageReset(o) = <<Destroy(o), Disengage(o)>>
           /\ ~Trivial /\ ~init[o] => StorageReset(o) = <<>>
<1>1. /\ <<Disengage(o)>> \in Seq(Stmts)
      /\ <<Destroy(o), Disengage(o)>> \in Seq(Stmts)
      /\ <<>> \in Seq(Stmts)
  BY StmtTypes, TuplesAreSeqs, PlacesDiffer DEF Hows
<1> QED BY <1>1, ObjectModelAssumption DEF StorageReset

(* What initialize() runs, alone and after a reset, written out.           *)
LEMMA InitializePrograms ==
    ASSUME NEW o \in Opts, NEW s \in Opts \cup {Arg}, NEW how \in Hows
    PROVE  /\ Initialize(o, s, how) = <<Construct(o, s, how), Engage(o)>>
           /\ StorageFrom(o, s, how) = <<Engage(o), Construct(o, s, how)>>
           /\ Initialize(o, s, how) \in Seq(Stmts)
           /\ StorageFrom(o, s, how) \in Seq(Stmts)
  BY StmtTypes, TuplesAreSeqs, PlacesDiffer DEF Initialize, StorageFrom

------------------------------------------------------------------------------
(* The constructors and the destructor.                                    *)
LEMMA ConditionalBegins ==
    ASSUME StageInv, NEW op \in Contract!Transfers \ Rebuilders, NEW o \in Opts,
           NEW s \in Opts \cup {Arg}, NEW how \in Hows,
           MayCall(op, o, s), s = Arg \/ Engaged(s),
           BeginCtor(ConditionalStage, op, o, s, how,
                     ConditionalStorage(o, s, how))
    PROVE  IInv' /\ ContractInv'
<1> op \in CallOps
  BY TransfersAre
<1>1. CASE ConstexprCopy
  <2>1. BeginCtor("storage", op, o, s, how,
                  <<Engage(o), Construct(o, s, how)>>)
    BY <1>1, InitializePrograms DEF ConditionalStage, ConditionalStorage
  <2> QED BY <2>1, CtorOpens, DirectBegins DEF Building
<1>2. CASE ~ConstexprCopy
  <2>1. BeginCtor("body", op, o, s, how, <<Construct(o, s, how), Engage(o)>>)
    BY <1>2, InitializePrograms DEF ConditionalStage, ConditionalStorage
  <2> QED BY <2>1, CtorOpens, InitBegins DEF Building
<1> QED BY <1>1, <1>2

(* Every constructor, called in a state that satisfies the invariant,      *)
(* leads to one that does.                                                 *)
LEMMA ConstructionKeeps == StageInv /\ Construction => IInv' /\ ContractInv'
<1> SUFFICES ASSUME StageInv, NEW o \in Opts, NEW how \in Hows,
               \/ DefaultCtor(o)
               \/ \E s \in Sources : \/ ValueCtor(o, s, how)
                                     \/ FactoryCtor(o, s, how)
                                     \/ \E b \in BOOLEAN :
                                           ConditionalCtor(o, b, s, how)
               \/ \E p \in Opts : CopyCtor(o, p, how)
             PROVE IInv' /\ ContractInv'
  BY DEF Construction
<1>1. /\ ConditionalStage \in Building /\ "storage" \in Building
      /\ "body" \in Building /\ "copy" \in Hows
      /\ {"default_ctor", "ctor_if_false"} \subseteq Contract!Emptying \ {"reset"}
  BY DEF ConditionalStage, Building, Hows, Contract!Emptying
<1>2. life[o] = "absent"
  BY DEF DefaultCtor, ValueCtor, FactoryCtor, ConditionalCtor, CopyCtor, BeginCtor
<1>3. CASE DefaultCtor(o)
  BY <1>1, <1>2, <1>3, MayBeBuilt, EmptyCtorBegins DEF DefaultCtor
<1>4. ASSUME NEW s \in Sources, ValueCtor(o, s, how)
      PROVE  IInv' /\ ContractInv'
  <2>1. BeginCtor("storage", "value_ctor", o, s, how,
                  <<Engage(o), Construct(o, s, how)>>)
    BY <1>4, SourceIs, InitializePrograms DEF ValueCtor
  <2> QED BY <1>1, <1>2, <2>1, SourceIs, CtorOpens, MayBeBuilt, TransfersAre,
             DirectBegins
<1>5. ASSUME NEW s \in Sources, FactoryCtor(o, s, how)
      PROVE  IInv' /\ ContractInv'
  <2>1. BeginCtor("body", "factory_ctor", o, s, how,
                  <<Construct(o, s, how), Engage(o)>>)
    BY <1>5, SourceIs, InitializePrograms DEF FactoryCtor
  <2> QED BY <1>1, <1>2, <2>1, SourceIs, CtorOpens, MayBeBuilt, TransfersAre,
             InitBegins
<1>6. ASSUME NEW s \in Sources, NEW b \in BOOLEAN, ConditionalCtor(o, b, s, how)
      PROVE  IInv' /\ ContractInv'
  <2>1. CASE b
    BY <1>2, <1>6, <2>1, SourceIs, MayBeBuilt, TransfersAre, ConditionalBegins
       DEF ConditionalCtor
  <2>2. CASE ~b
    BY <1>1, <1>2, <1>6, <2>2, SourceIs, MayBeBuilt, EmptyCtorBegins
       DEF ConditionalCtor
  <2> QED BY <2>1, <2>2
<1>7. ASSUME NEW p \in Opts, CopyCtor(o, p, how)
      PROVE  IInv' /\ ContractInv'
  <2>1. Alive(p) /\ MayCall("copy_ctor", o, p)
    BY <1>2, <1>7, MayBeBuilt DEF CopyCtor
  <2>2. CASE init[p]
    BY <1>7, <2>1, <2>2, TransfersAre, ConditionalBegins DEF CopyCtor, Engaged
  <2>3. CASE ~init[p]
    BY <1>1, <1>7, <2>1, <2>3, EmptyCtorBegins DEF CopyCtor
  <2> QED BY <2>2, <2>3
<1> QED BY <1>3, <1>4, <1>5, <1>6, <1>7

(* So does the destructor.                                                 *)
LEMMA DtorKeeps == ASSUME StageInv, NEW o \in Opts, Dtor(o)
                   PROVE  IInv' /\ ContractInv'
<1>1. /\ life \in [Opts -> Lives] /\ life' = [life EXCEPT ![o] = "dying"]
      /\ Alive(o) /\ BeginWith("pending", "dtor", o, o, "copy", StorageDtor(o))
  BY DEF Dtor, Begin, StageInv, TypeOK
<1>2. life' \in [Opts -> Lives] /\ life'[o] = "dying" /\ "copy" \in Hows
      /\ \A r \in Opts \ {o} : life'[r] = life[r]
  BY <1>1 DEF Lives, Hows
<1>3. /\ Opens("pending", "dtor", o, o, "copy", StorageDtor(o))
      /\ MayCall("dtor", o, o) /\ MayEnd("dtor", o, o, o)
  BY <1>1, <1>2, MayBeMade DEF Opens, CallOps, MayEnd
<1>4. CASE ~Trivial /\ init[o]
  <2>1. StorageDtor(o) = <<Destroy(o)>> /\ <<Destroy(o)>> \in Seq(Stmts)
    BY <1>2, <1>4, StmtTypes, TuplesAreSeqs, PlacesDiffer DEF StorageDtor
  <2> QED BY <1>1, <1>2, <1>3, <1>4, <2>1, ResetBegins
<1>5. CASE Trivial \/ ~init[o]
  <2>1. StorageDtor(o) = <<>>
    BY <1>5 DEF StorageDtor
  <2> QED BY <1>1, <1>2, <1>3, <1>5, <2>1, NothingBegins
<1> QED BY <1>4, <1>5

------------------------------------------------------------------------------
(* The modifiers.                                                          *)
LEMMA ResetKeeps ==
    ASSUME StageInv, NEW op, NEW o \in Opts, NEW from \in Opts \cup {Arg},
           NEW how \in Hows, MayEnd(op, o, from, o), MayCall(op, o, from),
           \/ op = "reset"
           \/ /\ op \in {"assign_optional", "assign_converting"}
              /\ ~init[from],
           BeginOn(op, o, from, how, StorageReset(o))
    PROVE  IInv' /\ ContractInv'
<1>1. /\ Opens("pending", op, o, from, how, StorageReset(o))
      /\ Alive(o) /\ life'[o] = life[o]
  BY ModifierOpens DEF CallOps
<1>2. CASE ~Trivial /\ ~init[o]
  <2>1. /\ op # "dtor"
        /\ \/ op \in Contract!Emptying
           \/ op \in Contract!FromOptional \ {"swap"} /\ ~init[from]
    BY DEF Contract!Emptying, Contract!FromOptional
  <2> QED BY <1>1, <1>2, <2>1, ResetPrograms, NothingBegins
<1>3. CASE Trivial \/ init[o]
  BY <1>1, <1>3, ResetPrograms, ResetBegins, ObjectModelAssumption
<1> QED BY <1>2, <1>3, ObjectModelAssumption

(* An optional without a value that initializes one keeps the invariant.   *)
LEMMA InitializeKeeps ==
    ASSUME StageInv, NEW op \in Contract!Transfers, NEW o \in Opts,
           NEW s \in Opts \cup {Arg}, NEW how \in Hows, MayCall(op, o, s),
           s = Arg \/ Engaged(s), ~init[o],
           BeginOn(op, o, s, how, Initialize(o, s, how))
    PROVE  IInv' /\ ContractInv'
<1>1. /\ Opens("pending", op, o, s, how, Initialize(o, s, how))
      /\ Alive(o) /\ life'[o] = life[o]
  BY ModifierOpens, TransfersAre
<1>2. Initialize(o, s, how) = <<Construct(o, s, how), Engage(o)>>
  BY InitializePrograms
<1> QED BY <1>1, <1>2, InitBegins

(* Assignment from another optional, itself included, keeps the invariant  *)
(* on each of its four branches.                                           *)
LEMMA AssignOptionalKeeps ==
    ASSUME StageInv, NEW o \in Opts, NEW p \in Opts, NEW how \in Hows,
           AssignOptional(o, p, how)
    PROVE  IInv' /\ ContractInv'
<1>1. /\ "assign_optional" \in Contract!Transfers \ Rebuilders
      /\ "assign_optional" \in CallOps /\ (init[p] => Engaged(p)) /\ Alive(p)
      /\ MayCall("assign_optional", o, p)
  BY TransfersAre, MayBeMade DEF AssignOptional, BeginOn, Engaged
<1>2. CASE init[o] /\ init[p]
  <2>1. BeginOn("assign_optional", o, p, how, <<AssignT(o, p, how)>>)
    BY <1>2 DEF AssignOptional
  <2> QED BY <1>1, <1>2, <2>1, ModifierOpens, AssignBegins
<1>3. CASE init[o] /\ ~init[p]
  <2>1. BeginOn("assign_optional", o, p, how, StorageReset(o))
    BY <1>3 DEF AssignOptional
  <2>2. MayEnd("assign_optional", o, p, o)
    BY <1>1, <1>3 DEF MayEnd
  <2> QED BY <1>1, <1>3, <2>1, <2>2, ResetKeeps
<1>4. CASE ~init[o] /\ init[p]
  <2>1. BeginOn("assign_optional", o, p, how, Initialize(o, p, how))
    BY <1>4 DEF AssignOptional
  <2> QED BY <1>1, <1>4, <2>1, InitializeKeeps
<1>5. CASE ~init[o] /\ ~init[p]
  <2>1. BeginOn("assign_optional", o, p, how, <<>>)
    BY <1>5 DEF AssignOptional
  <2>2. "assign_optional" \in Contract!FromOptional \ {"swap"}
    BY DEF Contract!FromOptional
  <2> QED BY <1>1, <1>5, <2>1, <2>2, ModifierOpens, NothingBegins
<1> QED BY <1>2, <1>3, <1>4, <1>5

(* Assignment of a value keeps the invariant, also when the value is the   *)
(* one inside the optional.                                                *)
LEMMA AssignValueKeeps ==
    ASSUME StageInv, NEW o \in Opts, NEW s \in Sources, NEW how \in Hows,
           AssignValue(o, s, how)
    PROVE  IInv' /\ ContractInv'
<1>1. /\ "assign_value" \in Contract!Transfers \ Rebuilders
      /\ "assign_value" \in CallOps /\ MayCall("assign_value", o, s)
  BY TransfersAre, MayBeMade DEF AssignValue, BeginOn
<1>2. CASE init[o]
  <2>1. BeginOn("assign_value", o, s, how, <<AssignT(o, s, how)>>)
    BY <1>2 DEF AssignValue
  <2> QED BY <1>1, <1>2, <2>1, SourceIs, ModifierOpens, AssignBegins
<1>3. CASE ~init[o]
  BY <1>1, <1>3, SourceIs, InitializeKeeps DEF AssignValue
<1> QED BY <1>2, <1>3

(* emplace and the assignment from a factory.                              *)
LEMMA RebuildKeeps ==
    ASSUME StageInv, NEW op \in Rebuilders, NEW o \in Opts, NEW s \in Sources,
           NEW how \in Hows,
           BeginOn(op, o, s, how, StorageReset(o) \o Initialize(o, s, how))
    PROVE  IInv' /\ ContractInv'
<1> DEFINE program == StorageReset(o) \o Initialize(o, s, how)
<1>1. /\ op \in Contract!Transfers /\ op \in CallOps /\ MayCall(op, o, s)
      /\ s \in Opts \cup {Arg} /\ (s = Arg \/ Engaged(s))
  BY SourceIs, TransfersAre, MayBeMade DEF BeginOn
<1>2. /\ Destroy(o) \in Stmts /\ Disengage(o) \in Stmts
      /\ Construct(o, s, how) \in Stmts /\ Engage(o) \in Stmts
  BY <1>1, StmtTypes, PlacesDiffer
<1>3. /\ Opens("pending", op, o, s, how, program)
      /\ Alive(o) /\ life'[o] = life[o]
  BY <1>1, ModifierOpens
<1>4. CASE Trivial
  <2>1. program = <<Disengage(o), Construct(o, s, how), Engage(o)>>
    <3>1. program = <<Disengage(o)>> \o <<Construct(o, s, how), Engage(o)>>
      BY <1>1, <1>4, ResetPrograms, InitializePrograms
    <3> HIDE DEF program
    <3> QED BY <3>1, Concat12
  <2>2. program \in Seq(Stmts)
    BY <1>2, <2>1, TuplesAreSeqs
  <2> HIDE DEF program
  <2> QED BY <1>1, <1>3, <1>4, <2>1, <2>2, RebuildBegins
<1>5. CASE ~Trivial /\ init[o]
  <2>1. program = <<Destroy(o), Disengage(o), Construct(o, s, how), Engage(o)>>
    <3>1. program = <<Destroy(o), Disengage(o)>>
                      \o <<Construct(o, s, how), Engage(o)>>
      BY <1>1, <1>5, ResetPrograms, InitializePrograms
    <3> HIDE DEF program
    <3> QED BY <3>1, Concat22
  <2>2. program \in Seq(Stmts)
    BY <1>2, <2>1, TuplesAreSeqs
  <2> HIDE DEF program
  <2> QED BY <1>1, <1>3, <1>5, <2>1, <2>2, RebuildBegins
<1>6. CASE ~Trivial /\ ~init[o]
  <2>1. program = <<Construct(o, s, how), Engage(o)>>
    <3>1. program = <<>> \o <<Construct(o, s, how), Engage(o)>>
      BY <1>1, <1>6, ResetPrograms, InitializePrograms
    <3> HIDE DEF program
    <3> QED BY <3>1, ConcatEmpty
  <2> QED BY <1>1, <1>3, <1>6, <2>1, InitBegins
<1> QED BY <1>4, <1>5, <1>6, ObjectModelAssumption

(* The branches of swap that move the one value there is.                  *)
LEMMA HandOverKeeps ==
    ASSUME StageInv, NEW o \in Opts, NEW p \in Opts, NEW taker \in {o, p},
           NEW giver \in {o, p}, Alive(taker), ~init[taker],
           Alive(giver), init[giver],
           BeginOn("swap", o, p, "move",
                   Initialize(taker, giver, "move") \o StorageReset(giver))
    PROVE  IInv' /\ ContractInv'
<1> DEFINE program == Initialize(taker, giver, "move") \o StorageReset(giver)
<1>1. "swap" \in CallOps /\ "move" \in Hows /\ taker \in Opts /\ giver \in Opts
      /\ (Alive(o) /\ Alive(p) => MayCall("swap", o, p))
  BY MayBeMade DEF CallOps, Hows
<1>2. /\ Construct(taker, giver, "move") \in Stmts /\ Engage(taker) \in Stmts
      /\ Destroy(giver) \in Stmts /\ Disengage(giver) \in Stmts
  BY <1>1, StmtTypes, PlacesDiffer
<1>3. Opens("pending", "swap", o, p, "move", program) /\ life'[o] = life[o]
      /\ MayCall("swap", o, p)
  <2>1. Alive(o) /\ Alive(p)
    BY DEF BeginOn
  <2> QED BY <1>1, <2>1, ModifierOpens
<1>4. CASE Trivial
  <2>1. program = <<Construct(taker, giver, "move"), Engage(taker),
                    Disengage(giver)>>
    <3>1. program = <<Construct(taker, giver, "move"), Engage(taker)>>
                      \o <<Disengage(giver)>>
      BY <1>1, <1>4, ResetPrograms, InitializePrograms
    <3> HIDE DEF program
    <3> QED BY <3>1, Concat21
  <2>2. program \in Seq(Stmts)
    BY <1>2, <2>1, TuplesAreSeqs
  <2> HIDE DEF program
  <2> QED BY <1>1, <1>3, <1>4, <2>1, <2>2, HandOverBegins
<1>5. CASE ~Trivial
  <2>1. program = <<Construct(taker, giver, "move"), Engage(taker),
                    Destroy(giver), Disengage(giver)>>
    <3>1. program = <<Construct(taker, giver, "move"), Engage(taker)>>
                      \o <<Destroy(giver), Disengage(giver)>>
      BY <1>1, <1>5, ResetPrograms, InitializePrograms
    <3> HIDE DEF program
    <3> QED BY <3>1, Concat22
  <2>2. program \in Seq(Stmts)
    BY <1>2, <2>1, TuplesAreSeqs
  <2> HIDE DEF program
  <2> QED BY <1>1, <1>3, <1>5, <2>1, <2>2, HandOverBegins
<1> QED BY <1>4, <1>5

(* Swap keeps the invariant, also when an optional is swapped with itself  *)
(* or only one of the two has a value.                                     *)
LEMMA SwapOptionalsKeeps ==
    ASSUME StageInv, NEW o \in Opts, NEW p \in Opts, Swap(o, p)
    PROVE  IInv' /\ ContractInv'
<1>1. /\ Alive(p) /\ Alive(o) /\ MayCall("swap", o, p)
      /\ "swap" \in CallOps /\ "move" \in Hows
  BY MayBeMade DEF Swap, BeginOn, CallOps, Hows
<1>2. CASE init[o] /\ init[p]
  <2>1. BeginOn("swap", o, p, "move", <<SwapT(o, p)>>)
    BY <1>2 DEF Swap
  <2> QED BY <1>1, <1>2, <2>1, ModifierOpens, SwapBegins DEF Engaged
<1>3. CASE init[o] /\ ~init[p]
  <2>1. BeginOn("swap", o, p, "move",
                Initialize(p, o, "move") \o StorageReset(o))
    BY <1>3 DEF Swap
  <2> QED BY <1>1, <1>3, <2>1, HandOverKeeps
<1>4. CASE ~init[o] /\ init[p]
  <2>1. BeginOn("swap", o, p, "move",
                Initialize(o, p, "move") \o StorageReset(p))
    BY <1>4 DEF Swap
  <2> QED BY <1>1, <1>4, <2>1, HandOverKeeps
<1>5. CASE ~init[o] /\ ~init[p]
  <2>1. BeginOn("swap", o, p, "move", <<>>)
    BY <1>5 DEF Swap
  <2> QED BY <1>1, <1>5, <2>1, ModifierOpens, NothingBegins
<1> QED BY <1>2, <1>3, <1>4, <1>5

(* Every modifier keeps the invariant.                                     *)
LEMMA ModificationKeeps == StageInv /\ Modification => IInv' /\ ContractInv'
<1> SUFFICES ASSUME StageInv, NEW o \in Opts, NEW how \in Hows,
               \/ Reset(o)
               \/ \E p \in Opts : AssignOptional(o, p, how) \/ Swap(o, p)
               \/ \E s \in Sources : \/ AssignValue(o, s, how)
                                     \/ Emplace(o, s, how)
                                     \/ AssignFactory(o, s, how)
               \/ Dtor(o)
             PROVE IInv' /\ ContractInv'
  BY DEF Modification
<1>1. CASE Reset(o)
  <2>1. /\ BeginOn("reset", o, o, "copy", StorageReset(o)) /\ "copy" \in Hows
        /\ MayCall("reset", o, o) /\ MayEnd("reset", o, o, o)
    BY <1>1, MayBeMade DEF Reset, BeginOn, MayEnd, Hows
  <2> QED BY <2>1, ResetKeeps
<1>2. ASSUME NEW s \in Sources, Emplace(o, s, how) \/ AssignFactory(o, s, how)
      PROVE  IInv' /\ ContractInv'
  BY <1>2, RebuildKeeps DEF Emplace, AssignFactory, Rebuilders
<1> QED BY <1>1, <1>2, AssignOptionalKeeps, SwapOptionalsKeeps,
           AssignValueKeeps, DtorKeeps

------------------------------------------------------------------------------
(* The observers.                                                          *)
LEMMA ObservationKeeps == StageInv /\ Observation => IInv' /\ ContractInv'
<1> SUFFICES ASSUME StageInv, NEW o \in Opts, NEW how \in Hows,
               Value(o) \/ \E s \in Sources : ValueOr(o, s, how)
             PROVE IInv' /\ ContractInv'
  BY DEF Observation
<1>1. CASE Value(o)
  BY <1>1, AccessBegins DEF Value
<1>2. ASSUME NEW s \in Sources, ValueOr(o, s, how)
      PROVE  IInv' /\ ContractInv'
  <2> DEFINE t == IF init[o] THEN o ELSE s
  <2>1. /\ Opens("pending", "value_or", o, s, how, <<Construct(Ret, t, how)>>)
        /\ Alive(o) /\ life'[o] = life[o]
    BY <1>2, ModifierOpens DEF ValueOr, CallOps
  <2>2. /\ t = IF init[o] THEN o ELSE s
        /\ t \in Opts \cup {Arg} /\ s \in Opts \cup {Arg}
        /\ s = Arg \/ Engaged(s)
        /\ MayCall("value_or", o, s)
    BY <2>1, SourceIs, MayBeMade
  <2> HIDE DEF t
  <2> QED BY <2>1, <2>2, ResultBegins
<1> QED BY <1>1, <1>2

------------------------------------------------------------------------------
(* When an operation of T throws inside a constructor, the optional under  *)
(* construction is not engaged, so unwinding has no T to destroy.          *)
LEMMA ThrowUnwindsNothing == IInv /\ Throw => ThrowT(<<>>)
<1> SUFFICES ASSUME IInv, ThrowT(Unwinding) PROVE Unwinding = <<>>
  BY DEF Throw
<1>1. life[call.o] = "body" => ~init[call.o]
  BY NothingToUnwind DEF IInv, ThrowT
<1> QED BY <1>1 DEF Unwinding, StorageDtor

(* The invariant is inductive: every step of every call, the throwing ones *)
(* too, leads from it to itself.                                           *)
LEMMA StepKeeps == IInv /\ [Next]_vars => IInv'
  BY ConstructionKeeps, ModificationKeeps, ObservationKeeps, RunTKeeps,
     RunFlagKeeps, ThrowUnwindsNothing, ThrowKeeps, ReturnKeeps, StutterKeeps
     DEF Next, IInv

(* So is what relates a call in progress to the contract.                  *)
LEMMA StepKeepsContract == IInv /\ ContractInv /\ [Next]_vars => ContractInv'
  BY ConstructionKeeps, ModificationKeeps, ObservationKeeps, RunKeepsContract,
     ThrowUnwindsNothing, ThrowKeepsContract, IdleKeepsContract,
     StutterKeepsContract DEF Next, IInv

(* No step ends a T that its call is not to end.                           *)
LEMMA StepEnds == IInv /\ [Next]_vars => EndsOnlyItsOwn
<1> SUFFICES ASSUME IInv, [Next]_vars PROVE EndsOnlyItsOwn
  OBVIOUS
<1>1. CASE Construction
  BY <1>1, OthersEndNothing
     DEF Construction, DefaultCtor, ValueCtor, FactoryCtor, ConditionalCtor,
         CopyCtor, BeginCtor, Begin
<1>2. CASE Modification
  <2>1. ASSUME NEW o \in Opts, NEW p \in Opts, NEW how \in Hows,
               AssignOptional(o, p, how) \/ Swap(o, p) \/ Reset(o) \/ Dtor(o)
        PROVE  EndsOnlyItsOwn
    BY <2>1, OthersEndNothing
       DEF Reset, AssignOptional, Swap, Dtor, BeginOn, Begin
  <2>2. ASSUME NEW o \in Opts, NEW s \in Sources, NEW how \in Hows,
               \/ AssignValue(o, s, how) \/ Emplace(o, s, how)
               \/ AssignFactory(o, s, how)
        PROVE  EndsOnlyItsOwn
    BY <2>2, OthersEndNothing
       DEF AssignValue, Emplace, AssignFactory, BeginOn, Begin
  <2> QED BY <1>2, <2>1, <2>2 DEF Modification
<1>3. CASE Observation
  BY <1>3, OthersEndNothing DEF Observation, Value, ValueOr, BeginOn, Begin
<1>4. CASE RunT \/ RunFlag \/ Return \/ UNCHANGED vars
  BY <1>4, RunTEnds, ReturnEnds, OthersEndNothing
<1>5. CASE Throw
  BY <1>5, ThrowUnwindsNothing, ThrowEnds
<1> QED BY <1>1, <1>2, <1>3, <1>4, <1>5 DEF Next

(* The invariants of ProgramInv and ContractInv hold of optional<T>, for   *)
(* any number of optionals and values, whether or not T is trivially       *)
(* destructible, gives the strong guarantee, or the optional is copied in  *)
(* constant expressions.                                                   *)
THEOREM InductiveInvariant == Spec => [](IInv /\ ContractInv)
<1>1. InitObjects => IInv /\ ContractInv
  BY InitKeeps, IdleKeepsContract
<1>2. (IInv /\ ContractInv) /\ [Next]_vars => (IInv /\ ContractInv)'
  BY StepKeeps, StepKeepsContract
<1> QED BY <1>1, <1>2, PTL DEF Spec

(* A call in progress is on its way to what the contract says of it: what  *)
(* it has left to do is for that alone, what it has changed so far may be  *)
(* left if T throws, and once nothing can throw, what it leaves is what it *)
(* promised.                                                               *)
THEOREM CallsKeepToThePlan == Spec => []ContractInv
<1>1. IInv /\ ContractInv => ContractInv
  OBVIOUS
<1> QED BY <1>1, InductiveInvariant, PTL

(* The state keeps its types: in particular a caller never sees an engaged *)
(* optional without a value, which would be neither None nor an object in  *)
(* `before'.                                                               *)
THEOREM TypeCorrect == Spec => []TypeOK
  BY InductiveInvariant, PropertiesFollow, PTL

(* Code of T never sees a flag that contradicts the storage: initialize(), *)
(* guarded_storage::reset() and their callers change the two in an order   *)
(* that hides the difference, also when T throws.                          *)
THEOREM FlagsAreRight == Spec => []FlagTellsTheTruth
  BY InductiveInvariant, PropertiesFollow, PTL

(* No constructor that throws and no destructor leaves a T behind.         *)
THEOREM NoLeak == Spec => []NothingLeaks
  BY InductiveInvariant, PropertiesFollow, PTL

(* The assertion of initialize() holds at every call of it, and only live  *)
(* objects are destroyed, assigned, swapped, and (but for an optional that *)
(* is rebuilt from its own value) read.                                    *)
THEOREM LifetimesAreRight == Spec => []LifetimesRespected
  BY InductiveInvariant, PropertiesFollow, PTL

(* When an operation of T throws, has_value() of every optional is what it *)
(* was before the call; only emplace and the assignment from a factory     *)
(* leave theirs disengaged, for they have destroyed the old value by then. *)
THEOREM EngagementIsKept == Spec => []EngagementSurvivesThrow
  BY InductiveInvariant, PropertiesFollow, PTL

(* If the operations of T give the strong guarantee, so does every call of *)
(* optional<T> but emplace and the assignment from a factory: no other     *)
(* changes anything before the last operation of T that may throw.         *)
THEOREM StrengthIsKept == Spec => []StrongGuaranteeLifts
  BY InductiveInvariant, PropertiesFollow, PTL

(* A pointer to the value of an optional stays valid until a call that is  *)
(* to disengage, rebuild or destroy that optional.                         *)
THEOREM PointersAreKept == Spec => PointersStayValid
<1>1. IInv /\ [Next]_vars => [EndsOnlyItsOwn]_vars
  BY StepEnds
<1>2. [EndsOnlyItsOwn]_vars =>
        [\A o \in Opts : slot[o] # Raw /\ slot'[o] = Raw /\ before[o] # None
           => EndsValue(o)]_vars
  BY DEF EndsOnlyItsOwn
<1> QED BY <1>1, <1>2, InductiveInvariant, PTL DEF Spec, PointersStayValid

------------------------------------------------------------------------------
(* Every step is a step of the contract, or one that no caller sees.       *)
LEMMA StepImplements ==
    IInv /\ ContractInv /\ ContractInv' /\ [Next]_vars
      => [Contract!Next]_(Contract!cvars)
<1> SUFFICES ASSUME IInv, ContractInv, ContractInv', [Next]_vars
             PROVE  Contract!Next \/ UNCHANGED Contract!cvars
  OBVIOUS
<1>1. CASE Construction
  <2>1. PICK o, from, how, op, program :
          BeginWith("pending", op, o, from, how, program)
    BY <1>1 DEF Construction, DefaultCtor, ValueCtor, FactoryCtor,
                ConditionalCtor, CopyCtor, BeginCtor, Begin
  <2> QED BY <2>1, StartImplements DEF Contract!Next
<1>2. CASE Modification
  <2>1. \A op, o, from, how, program :
          \/ BeginOn(op, o, from, how, program)
          \/ Begin(op, o, from, how, program)
          => Contract!Make
    BY StartImplements DEF BeginOn, Begin
  <2>2. ASSUME NEW o \in Opts, NEW p \in Opts, NEW how \in Hows,
               AssignOptional(o, p, how) \/ Swap(o, p) \/ Reset(o) \/ Dtor(o)
        PROVE  Contract!Make
    BY <2>1, <2>2 DEF Reset, AssignOptional, Swap, Dtor
  <2>3. ASSUME NEW o \in Opts, NEW s \in Sources, NEW how \in Hows,
               \/ AssignValue(o, s, how) \/ Emplace(o, s, how)
               \/ AssignFactory(o, s, how)
        PROVE  Contract!Make
    BY <2>1, <2>3 DEF AssignValue, Emplace, AssignFactory
  <2>4. \E p \in Opts : TRUE
    BY ObjectModelAssumption
  <2> QED BY <1>2, <2>2, <2>3, <2>4 DEF Modification, Contract!Next
<1>3. CASE Observation
  <2>1. PICK result, o, from, how, op, program :
          BeginWith(result, op, o, from, how, program)
    BY <1>3 DEF Observation, Value, ValueOr, BeginOn, Begin
  <2> QED BY <2>1, StartImplements DEF Contract!Next
<1>4. CASE RunT \/ RunFlag \/ Throw \/ UNCHANGED vars
  BY <1>4, RunImplements DEF Throw
<1>5. CASE Return
  BY <1>5, EndImplements
<1> QED BY <1>1, <1>2, <1>3, <1>4, <1>5 DEF Next

(* optional<T> does in every call what the contract says of it: the value  *)
(* that it promises when it returns, the exception guarantee when T        *)
(* throws, bad_optional_access for a value that is not there; for aliased  *)
(* arguments, self-assignment and self-swap too.                           *)
THEOREM Implements == Spec => ImplementsContract
<1>1. InitObjects => Contract!Init
  BY InitImplements
<1>2. (IInv /\ ContractInv) /\ (IInv /\ ContractInv)' /\ [Next]_vars
        => [Contract!Next]_(Contract!cvars)
  BY StepImplements
<1> QED BY <1>1, <1>2, InductiveInvariant, PTL
        DEF Spec, ImplementsContract, Contract!Spec
==============================================================================
