------------------------- MODULE OptionalBase_proofs -------------------------
(***************************************************************************)
(* optional<T> as optional.hpp implements it without the union: its calls  *)
(* too leave the programs of ProgramInv, so that it has the invariants and *)
(* the properties of the union implementation, and keeps the contract.     *)
(* Then its swap, as OptionalSwap models it, with the dispatch and both    *)
(* implementations of optional_swap.hpp, by the invariant of SwapInv.      *)
(***************************************************************************)
EXTENDS SwapInv, ContractInv_proofs

(* The programs of the private helpers, in all their branches.             *)
LEMMA HelperPrograms ==
    ASSUME NEW o \in Opts, NEW s \in Opts \cup {Arg}, NEW how \in Hows
    PROVE  /\ ConstructIn(o, s, how) = <<Construct(o, s, how), Engage(o)>>
           /\ init[o] => DestroyIn(o) = <<Destroy(o), Disengage(o)>>
           /\ ~init[o] => DestroyIn(o) = <<>>
           /\ <<Destroy(o), Disengage(o)>> \in Seq(Stmts)
  BY StmtTypes, TuplesAreSeqs, PlacesDiffer DEF ConstructIn, DestroyIn

(* The programs of the converting operations, written out.                 *)
LEMMA ConvertedPrograms ==
    ASSUME NEW o \in Opts, NEW s \in Opts \cup {Arg}, NEW how \in Hows
    PROVE  /\ Converted(s, how, ConstructIn(o, Tmp, "move")) =
                <<Construct(Tmp, s, how), Construct(o, Tmp, "move"), Engage(o)>>
           /\ Converted(s, how, <<AssignT(o, Tmp, "move")>>) =
                <<Construct(Tmp, s, how), AssignT(o, Tmp, "move")>>
           /\ Converted(s, how, ConstructIn(o, Tmp, "move")) \in Seq(Stmts)
           /\ Converted(s, how, <<AssignT(o, Tmp, "move")>>) \in Seq(Stmts)
<1>1. Converted(s, how, ConstructIn(o, Tmp, "move")) =
        <<Construct(Tmp, s, how), Construct(o, Tmp, "move"), Engage(o)>>
  BY Concat12 DEF Converted, ConstructIn
<1>2. Converted(s, how, <<AssignT(o, Tmp, "move")>>) =
        <<Construct(Tmp, s, how), AssignT(o, Tmp, "move")>>
  BY Concat11 DEF Converted
<1>3. "move" \in Hows
  BY DEF Hows
<1>4. /\ Construct(Tmp, s, how) \in Stmts /\ Engage(o) \in Stmts
      /\ Construct(o, Tmp, "move") \in Stmts
      /\ AssignT(o, Tmp, "move") \in Stmts
  BY <1>3, StmtTypes, PlacesDiffer
<1>5. /\ <<Construct(Tmp, s, how), AssignT(o, Tmp, "move")>> \in Seq(Stmts)
      /\ <<Construct(Tmp, s, how), Construct(o, Tmp, "move"), Engage(o)>>
            \in Seq(Stmts)
  BY <1>4, TuplesAreSeqs
<1> QED BY <1>1, <1>2, <1>5

------------------------------------------------------------------------------
(* The constructors and the destructor.                                    *)
LEMMA ConstructingCtorKeeps ==
    ASSUME StageInv, NEW op \in Contract!Transfers \ Rebuilders, NEW o \in Opts,
           NEW s \in Opts \cup {Arg}, NEW how \in Hows,
           MayCall(op, o, s), s = Arg \/ Engaged(s),
           BeginCtor("storage", op, o, s, how, ConstructIn(o, s, how))
    PROVE  IInv' /\ ContractInv'
<1>1. /\ Opens("pending", op, o, s, how, ConstructIn(o, s, how))
      /\ life[o] = "absent" /\ life'[o] = "storage" /\ "storage" \in Building
  BY CtorOpens, TransfersAre DEF Building
<1>2. ConstructIn(o, s, how) = <<Construct(o, s, how), Engage(o)>>
  BY HelperPrograms
<1> QED BY <1>1, <1>2, InitBegins

(* Construction from an optional<U> keeps the invariant, with the          *)
(* temporary that the U is converted to.                                   *)
LEMMA ConvertingCtorKeeps ==
    ASSUME StageInv, NEW o \in Opts, NEW p \in Opts, NEW how \in Hows,
           ConvertingCtor(o, p, how)
    PROVE  IInv' /\ ContractInv'
<1>1. /\ "convert_ctor" \in CallOps /\ "convert_ctor" \in Converting
      /\ "body" \in Building /\ Alive(p) /\ life[o] = "absent"
  BY DEF CallOps, Converting, Building, ConvertingCtor, BeginCtor
<1>2. MayCall("convert_ctor", o, p)
  BY <1>1, MayBeBuilt
<1>3. CASE init[p]
  <2> DEFINE program == Converted(p, how, ConstructIn(o, Tmp, "move"))
  <2>1. BeginCtor("body", "convert_ctor", o, p, how, program)
    BY <1>3 DEF ConvertingCtor
  <2>2. /\ program = <<Construct(Tmp, p, how), Construct(o, Tmp, "move"),
                       Engage(o)>>
        /\ program \in Seq(Stmts)
    BY ConvertedPrograms
  <2> HIDE DEF program
  <2>3. /\ Opens("pending", "convert_ctor", o, p, how, program)
        /\ life[o] = "absent" /\ life'[o] = "body"
    BY <1>1, <2>1, CtorOpens
  <2> QED BY <1>1, <1>2, <1>3, <2>2, <2>3, ConvertBegins DEF Engaged
<1>4. CASE ~init[p]
  BY <1>1, <1>2, <1>4, EmptyCtorBegins DEF ConvertingCtor
<1> QED BY <1>3, <1>4

(* Every constructor, called in a state that satisfies the invariant,      *)
(* leads to one that does.                                                 *)
LEMMA ConstructionKeeps == StageInv /\ Construction => IInv' /\ ContractInv'
<1> SUFFICES ASSUME StageInv, NEW o \in Opts, NEW how \in Hows,
               \/ DefaultCtor(o)
               \/ \E s \in Sources : \/ ValueCtor(o, s, how)
                                     \/ FactoryCtor(o, s, how)
                                     \/ \E b \in BOOLEAN :
                                           ConditionalCtor(o, b, s, how)
               \/ \E p \in Opts : CopyCtor(o, p, how) \/ ConvertingCtor(o, p, how)
             PROVE IInv' /\ ContractInv'
  BY DEF Construction
<1>1. /\ "storage" \in Building /\ "copy" \in Hows
      /\ {"default_ctor", "ctor_if_false"} \subseteq Contract!Emptying \ {"reset"}
  BY DEF Building, Hows, Contract!Emptying
<1>2. life[o] = "absent"
  BY DEF DefaultCtor, ValueCtor, FactoryCtor, ConditionalCtor, CopyCtor,
         ConvertingCtor, BeginCtor
<1>3. CASE DefaultCtor(o)
  BY <1>1, <1>2, <1>3, MayBeBuilt, EmptyCtorBegins DEF DefaultCtor
<1>4. ASSUME NEW s \in Sources, ValueCtor(o, s, how) \/ FactoryCtor(o, s, how)
      PROVE  IInv' /\ ContractInv'
  BY <1>2, <1>4, SourceIs, MayBeBuilt, TransfersAre, ConstructingCtorKeeps
     DEF ValueCtor, FactoryCtor
<1>5. ASSUME NEW s \in Sources, NEW b \in BOOLEAN, ConditionalCtor(o, b, s, how)
      PROVE  IInv' /\ ContractInv'
  <2>1. CASE b
    BY <1>2, <1>5, <2>1, SourceIs, MayBeBuilt, TransfersAre,
       ConstructingCtorKeeps DEF ConditionalCtor
  <2>2. CASE ~b
    BY <1>1, <1>2, <1>5, <2>2, SourceIs, MayBeBuilt, EmptyCtorBegins
       DEF ConditionalCtor
  <2> QED BY <2>1, <2>2
<1>6. ASSUME NEW p \in Opts, CopyCtor(o, p, how)
      PROVE  IInv' /\ ContractInv'
  <2>1. Alive(p) /\ MayCall("copy_ctor", o, p)
    BY <1>2, <1>6, MayBeBuilt DEF CopyCtor
  <2>2. CASE init[p]
    BY <1>6, <2>1, <2>2, TransfersAre, ConstructingCtorKeeps
       DEF CopyCtor, Engaged
  <2>3. CASE ~init[p]
    BY <1>1, <1>6, <2>1, <2>3, EmptyCtorBegins DEF CopyCtor
  <2> QED BY <2>2, <2>3
<1> QED BY <1>3, <1>4, <1>5, <1>6, ConvertingCtorKeeps

(* So does the destructor.                                                 *)
LEMMA DtorKeeps == ASSUME StageInv, NEW o \in Opts, Dtor(o)
                   PROVE  IInv' /\ ContractInv'
<1>1. /\ life \in [Opts -> Lives] /\ life' = [life EXCEPT ![o] = "dying"]
      /\ Alive(o) /\ BeginWith("pending", "dtor", o, o, "copy", DestroyIn(o))
  BY DEF Dtor, Begin, StageInv, TypeOK
<1>2. life' \in [Opts -> Lives] /\ life'[o] = "dying" /\ "copy" \in Hows
      /\ \A r \in Opts \ {o} : life'[r] = life[r]
  BY <1>1 DEF Lives, Hows
<1>3. /\ Opens("pending", "dtor", o, o, "copy", DestroyIn(o))
      /\ MayCall("dtor", o, o) /\ MayEnd("dtor", o, o, o)
  BY <1>1, <1>2, MayBeMade DEF Opens, CallOps, MayEnd
<1>4. CASE init[o]
  BY <1>1, <1>2, <1>3, <1>4, HelperPrograms, ResetBegins
<1>5. CASE ~init[o]
  BY <1>1, <1>2, <1>3, <1>5, HelperPrograms, NothingBegins
<1> QED BY <1>4, <1>5

------------------------------------------------------------------------------
(* The modifiers.                                                          *)
LEMMA DestroyInKeeps ==
    ASSUME StageInv, NEW op, NEW o \in Opts, NEW from \in Opts \cup {Arg},
           NEW how \in Hows, MayEnd(op, o, from, o), MayCall(op, o, from),
           \/ op = "reset"
           \/ /\ op \in {"assign_optional", "assign_converting"}
              /\ ~init[from],
           BeginOn(op, o, from, how, DestroyIn(o))
    PROVE  IInv' /\ ContractInv'
<1>1. /\ Opens("pending", op, o, from, how, DestroyIn(o))
      /\ Alive(o) /\ life'[o] = life[o]
  BY ModifierOpens DEF CallOps
<1>2. CASE init[o]
  BY <1>1, <1>2, HelperPrograms, ResetBegins
<1>3. CASE ~init[o]
  <2>1. /\ op # "dtor"
        /\ \/ op \in Contract!Emptying
           \/ op \in Contract!FromOptional \ {"swap"} /\ ~init[from]
    BY DEF Contract!Emptying, Contract!FromOptional
  <2> QED BY <1>1, <1>3, <2>1, HelperPrograms, NothingBegins
<1> QED BY <1>2, <1>3

(* An optional without a value that constructs one keeps the invariant.    *)
LEMMA ConstructInKeeps ==
    ASSUME StageInv, NEW op \in Contract!Transfers, NEW o \in Opts,
           NEW s \in Opts \cup {Arg}, NEW how \in Hows, MayCall(op, o, s),
           s = Arg \/ Engaged(s), ~init[o],
           BeginOn(op, o, s, how, ConstructIn(o, s, how))
    PROVE  IInv' /\ ContractInv'
<1>1. /\ Opens("pending", op, o, s, how, ConstructIn(o, s, how))
      /\ Alive(o) /\ life'[o] = life[o]
  BY ModifierOpens, TransfersAre
<1>2. ConstructIn(o, s, how) = <<Construct(o, s, how), Engage(o)>>
  BY HelperPrograms
<1> QED BY <1>1, <1>2, InitBegins

(* Assignment and construction from a converted temporary keep the         *)
(* invariant.                                                              *)
LEMMA ConvertedKeeps ==
    ASSUME StageInv, NEW op \in Converting, NEW o \in Opts,
           NEW s \in Opts \cup {Arg}, NEW how \in Hows, NEW program,
           MayCall(op, o, s), s = Arg \/ Engaged(s),
           BeginOn(op, o, s, how, program),
           \/ /\ init[o]
              /\ program = Converted(s, how, <<AssignT(o, Tmp, "move")>>)
           \/ /\ ~init[o]
              /\ program = Converted(s, how, ConstructIn(o, Tmp, "move"))
    PROVE  IInv' /\ ContractInv'
<1>1. /\ Opens("pending", op, o, s, how, program)
      /\ Alive(o) /\ life'[o] = life[o]
  BY ModifierOpens, TransfersAre
<1>2. CASE init[o]
  <2>1. /\ program = <<Construct(Tmp, s, how), AssignT(o, Tmp, "move")>>
        /\ program \in Seq(Stmts)
    BY <1>2, ConvertedPrograms
  <2> QED BY <1>1, <1>2, <2>1, ConvertBegins
<1>3. CASE ~init[o]
  <2>1. /\ program = <<Construct(Tmp, s, how), Construct(o, Tmp, "move"),
                       Engage(o)>>
        /\ program \in Seq(Stmts)
    BY <1>3, ConvertedPrograms
  <2> QED BY <1>1, <1>3, <2>1, ConvertBegins
<1> QED BY <1>2, <1>3

(* Assignment from another optional, itself included, keeps the invariant  *)
(* on each of its four branches.                                           *)
LEMMA AssignOptionalKeeps ==
    ASSUME StageInv, NEW o \in Opts, NEW p \in Opts, NEW how \in Hows,
           AssignOptional(o, p, how) \/ AssignConverting(o, p, how)
    PROVE  IInv' /\ ContractInv'
<1>1. /\ "assign_optional" \in Contract!Transfers \ Rebuilders
      /\ "assign_converting" \in Converting
      /\ {"assign_optional", "assign_converting"}
           \subseteq CallOps \cap Contract!FromOptional
      /\ (init[p] => Engaged(p)) /\ Alive(o) /\ Alive(p)
  BY TransfersAre DEF AssignOptional, AssignConverting, BeginOn, CallOps,
     Contract!FromOptional, Converting, Engaged
<1>2. /\ MayCall("assign_optional", o, p)
      /\ MayCall("assign_converting", o, p)
  BY <1>1, MayBeMade
<1>3. CASE init[o] /\ init[p]
  <2>1. \/ BeginOn("assign_optional", o, p, how, <<AssignT(o, p, how)>>)
        \/ BeginOn("assign_converting", o, p, how,
                   Converted(p, how, <<AssignT(o, Tmp, "move")>>))
    BY <1>3 DEF AssignOptional, AssignConverting
  <2> QED BY <1>1, <1>2, <1>3, <2>1, ModifierOpens, AssignBegins, ConvertedKeeps
<1>4. CASE init[o] /\ ~init[p]
  <2>1. \/ BeginOn("assign_optional", o, p, how, DestroyIn(o))
        \/ BeginOn("assign_converting", o, p, how, DestroyIn(o))
    BY <1>4 DEF AssignOptional, AssignConverting
  <2>2. /\ MayEnd("assign_optional", o, p, o)
        /\ MayEnd("assign_converting", o, p, o)
    BY <1>1, <1>4 DEF MayEnd
  <2> QED BY <1>1, <1>2, <1>4, <2>1, <2>2, DestroyInKeeps
<1>5. CASE ~init[o] /\ init[p]
  <2>1. \/ BeginOn("assign_optional", o, p, how, ConstructIn(o, p, how))
        \/ BeginOn("assign_converting", o, p, how,
                   Converted(p, how, ConstructIn(o, Tmp, "move")))
    BY <1>5 DEF AssignOptional, AssignConverting
  <2> QED BY <1>1, <1>2, <1>5, <2>1, ConstructInKeeps, ConvertedKeeps
<1>6. CASE ~init[o] /\ ~init[p]
  <2>1. PICK op \in {"assign_optional", "assign_converting"} :
          BeginOn(op, o, p, how, <<>>)
    BY <1>6 DEF AssignOptional, AssignConverting
  <2>2. op \in CallOps /\ op \in Contract!FromOptional \ {"swap"} /\ op # "dtor"
        /\ MayCall(op, o, p)
    BY <1>1, <1>2
  <2> QED BY <1>1, <1>6, <2>1, <2>2, ModifierOpens, NothingBegins
<1> QED BY <1>3, <1>4, <1>5, <1>6

(* Assignment of a value keeps the invariant, also when the value is the   *)
(* one inside the optional.                                                *)
LEMMA AssignValueKeeps ==
    ASSUME StageInv, NEW o \in Opts, NEW s \in Sources, NEW how \in Hows,
           AssignValue(o, s, how) \/ AssignExpr(o, how)
    PROVE  IInv' /\ ContractInv'
<1>1. /\ "assign_value" \in Contract!Transfers \ Rebuilders
      /\ "assign_value" \in CallOps /\ Arg \in Sources
      /\ "assign_expr" \in Converting /\ "assign_expr" \in Contract!Transfers
      /\ Alive(o)
  BY TransfersAre
     DEF AssignValue, AssignExpr, BeginOn, CallOps, Converting, Sources
<1>2. MayCall("assign_value", o, s) /\ MayCall("assign_expr", o, Arg)
  BY <1>1, MayBeMade
<1>3. CASE init[o]
  <2>1. \/ BeginOn("assign_value", o, s, how, <<AssignT(o, s, how)>>)
        \/ BeginOn("assign_expr", o, Arg, how,
                   Converted(Arg, how, <<AssignT(o, Tmp, "move")>>))
    BY <1>3 DEF AssignValue, AssignExpr
  <2> QED BY <1>1, <1>2, <1>3, <2>1, SourceIs, ModifierOpens, AssignBegins,
             ConvertedKeeps
<1>4. CASE ~init[o]
  <2>1. \/ BeginOn("assign_value", o, s, how, ConstructIn(o, s, how))
        \/ BeginOn("assign_expr", o, Arg, how, ConstructIn(o, Arg, how))
    BY <1>4 DEF AssignValue, AssignExpr
  <2> QED BY <1>1, <1>2, <1>4, <2>1, SourceIs, ConstructInKeeps
<1> QED BY <1>3, <1>4

(* emplace and the assignment from a factory.                              *)
LEMMA RebuildKeeps ==
    ASSUME StageInv, NEW op \in Rebuilders, NEW o \in Opts, NEW s \in Sources,
           NEW how \in Hows,
           BeginOn(op, o, s, how, DestroyIn(o) \o ConstructIn(o, s, how))
    PROVE  IInv' /\ ContractInv'
<1> DEFINE program == DestroyIn(o) \o ConstructIn(o, s, how)
<1>1. /\ op \in Contract!Transfers /\ op \in CallOps /\ MayCall(op, o, s)
      /\ s \in Opts \cup {Arg} /\ (s = Arg \/ Engaged(s))
  BY SourceIs, TransfersAre, MayBeMade DEF BeginOn
<1>2. /\ Destroy(o) \in Stmts /\ Disengage(o) \in Stmts
      /\ Construct(o, s, how) \in Stmts /\ Engage(o) \in Stmts
  BY <1>1, StmtTypes, PlacesDiffer
<1>3. /\ Opens("pending", op, o, s, how, program)
      /\ Alive(o) /\ life'[o] = life[o]
  BY <1>1, ModifierOpens
<1>4. CASE init[o]
  <2>1. program = <<Destroy(o), Disengage(o), Construct(o, s, how), Engage(o)>>
    <3>1. program = <<Destroy(o), Disengage(o)>>
                      \o <<Construct(o, s, how), Engage(o)>>
      BY <1>1, <1>4, HelperPrograms
    <3> HIDE DEF program
    <3> QED BY <3>1, Concat22
  <2>2. program \in Seq(Stmts)
    BY <1>2, <2>1, TuplesAreSeqs
  <2> HIDE DEF program
  <2> QED BY <1>1, <1>3, <1>4, <2>1, <2>2, RebuildBegins
<1>5. CASE ~init[o]
  <2>1. program = <<Construct(o, s, how), Engage(o)>>
    <3>1. program = <<>> \o <<Construct(o, s, how), Engage(o)>>
      BY <1>1, <1>5, HelperPrograms
    <3> HIDE DEF program
    <3> QED BY <3>1, ConcatEmpty
  <2> QED BY <1>1, <1>3, <1>5, <2>1, InitBegins
<1> QED BY <1>4, <1>5

(* The branches of swap that move the one value there is.                  *)
LEMMA HandOverKeeps ==
    ASSUME StageInv, NEW o \in Opts, NEW p \in Opts, NEW taker \in {o, p},
           NEW giver \in {o, p}, Alive(taker), ~init[taker],
           Alive(giver), init[giver],
           BeginOn("swap", o, p, "move",
                   ConstructIn(taker, giver, "move") \o DestroyIn(giver))
    PROVE  IInv' /\ ContractInv'
<1> DEFINE program == ConstructIn(taker, giver, "move") \o DestroyIn(giver)
<1>1. "swap" \in CallOps /\ "move" \in Hows /\ taker \in Opts /\ giver \in Opts
      /\ (Alive(o) /\ Alive(p) => MayCall("swap", o, p))
  BY MayBeMade DEF CallOps, Hows
<1>2. /\ Construct(taker, giver, "move") \in Stmts /\ Engage(taker) \in Stmts
      /\ Destroy(giver) \in Stmts /\ Disengage(giver) \in Stmts
  BY <1>1, StmtTypes, PlacesDiffer
<1>3. Opens("pending", "swap", o, p, "move", program) /\ life'[o] = life[o]
      /\ MayCall("swap", o, p)
  <2>1. Alive(o) /\ Alive(p)
    BY DEF BeginOn
  <2> QED BY <1>1, <2>1, ModifierOpens
<1>4. program = <<Construct(taker, giver, "move"), Engage(taker),
                  Destroy(giver), Disengage(giver)>>
  <2>1. program = <<Construct(taker, giver, "move"), Engage(taker)>>
                    \o <<Destroy(giver), Disengage(giver)>>
    BY <1>1, HelperPrograms
  <2> HIDE DEF program
  <2> QED BY <2>1, Concat22
<1>5. program \in Seq(Stmts)
  BY <1>2, <1>4, TuplesAreSeqs
<1> HIDE DEF program
<1> QED BY <1>1, <1>3, <1>4, <1>5, HandOverBegins

(* Swap keeps the invariant, also when an optional is swapped with itself  *)
(* or only one of the two has a value.                                     *)
LEMMA SwapOptionalsKeeps ==
    ASSUME StageInv, NEW o \in Opts, NEW p \in Opts, Swap(o, p)
    PROVE  IInv' /\ ContractInv'
<1>1. /\ Alive(p) /\ Alive(o) /\ MayCall("swap", o, p)
      /\ "swap" \in CallOps /\ "move" \in Hows
  BY MayBeMade DEF Swap, BeginOn, CallOps, Hows
<1>2. CASE init[o] /\ init[p]
  <2>1. BeginOn("swap", o, p, "move", <<SwapT(o, p)>>)
    BY <1>2 DEF Swap
  <2> QED BY <1>1, <1>2, <2>1, ModifierOpens, SwapBegins DEF Engaged
<1>3. CASE init[o] /\ ~init[p]
  <2>1. BeginOn("swap", o, p, "move",
                ConstructIn(p, o, "move") \o DestroyIn(o))
    BY <1>3 DEF Swap
  <2> QED BY <1>1, <1>3, <2>1, HandOverKeeps
<1>4. CASE ~init[o] /\ init[p]
  <2>1. BeginOn("swap", o, p, "move",
                ConstructIn(o, p, "move") \o DestroyIn(p))
    BY <1>4 DEF Swap
  <2> QED BY <1>1, <1>4, <2>1, HandOverKeeps
<1>5. CASE ~init[o] /\ ~init[p]
  <2>1. BeginOn("swap", o, p, "move", <<>>)
    BY <1>5 DEF Swap
  <2> QED BY <1>1, <1>5, <2>1, ModifierOpens, NothingBegins
<1> QED BY <1>2, <1>3, <1>4, <1>5

(* Every modifier keeps the invariant.                                     *)
LEMMA ModificationKeeps == StageInv /\ Modification => IInv' /\ ContractInv'
<1> SUFFICES ASSUME StageInv, NEW o \in Opts, NEW how \in Hows,
               \/ Reset(o)
               \/ \E p \in Opts : \/ AssignOptional(o, p, how)
                                  \/ AssignConverting(o, p, how)
                                  \/ Swap(o, p)
               \/ \E s \in Sources : \/ AssignValue(o, s, how)
                                     \/ Emplace(o, s, how)
                                     \/ AssignFactory(o, s, how)
               \/ AssignExpr(o, how)
               \/ Dtor(o)
             PROVE IInv' /\ ContractInv'
  BY DEF Modification
<1>1. CASE Reset(o)
  <2>1. /\ BeginOn("reset", o, o, "copy", DestroyIn(o)) /\ "copy" \in Hows
        /\ MayCall("reset", o, o) /\ MayEnd("reset", o, o, o)
    BY <1>1, MayBeMade DEF Reset, BeginOn, MayEnd, Hows
  <2> QED BY <2>1, DestroyInKeeps
<1>2. ASSUME NEW s \in Sources, Emplace(o, s, how) \/ AssignFactory(o, s, how)
      PROVE  IInv' /\ ContractInv'
  BY <1>2, RebuildKeeps DEF Emplace, AssignFactory, Rebuilders
<1>3. Arg \in Sources
  BY DEF Sources
<1> QED BY <1>1, <1>2, <1>3, AssignOptionalKeeps, SwapOptionalsKeeps,
           AssignValueKeeps, DtorKeeps

------------------------------------------------------------------------------
(* The observers.                                                          *)
LEMMA ObservationKeeps == StageInv /\ Observation => IInv' /\ ContractInv'
<1> SUFFICES ASSUME StageInv, NEW o \in Opts, NEW how \in Hows,
               Value(o) \/ \E s \in Sources : ValueOr(o, s, how)
             PROVE IInv' /\ ContractInv'
  BY DEF Observation
<1>1. CASE Value(o)
  BY <1>1, AccessBegins DEF Value
<1>2. ASSUME NEW s \in Sources, ValueOr(o, s, how)
      PROVE  IInv' /\ ContractInv'
  <2> DEFINE t == IF init[o] THEN o ELSE s
  <2>1. /\ Opens("pending", "value_or", o, s, how, <<Construct(Ret, t, how)>>)
        /\ Alive(o) /\ life'[o] = life[o]
    BY <1>2, ModifierOpens DEF ValueOr, CallOps
  <2>2. /\ t = IF init[o] THEN o ELSE s
        /\ t \in Opts \cup {Arg} /\ s \in Opts \cup {Arg}
        /\ s = Arg \/ Engaged(s)
        /\ MayCall("value_or", o, s)
    BY <2>1, SourceIs, MayBeMade
  <2> HIDE DEF t
  <2> QED BY <2>1, <2>2, ResultBegins
<1> QED BY <1>1, <1>2

------------------------------------------------------------------------------
(* When an operation of T throws inside a constructor, the optional under  *)
(* construction is not engaged, so unwinding has no T to destroy.          *)
LEMMA ThrowUnwindsNothing == IInv /\ Throw => ThrowT(<<>>)
<1> SUFFICES ASSUME IInv, ThrowT(Unwinding) PROVE Unwinding = <<>>
  BY DEF Throw
<1>1. life[call.o] = "body" => ~init[call.o]
  BY NothingToUnwind DEF IInv, ThrowT
<1> QED BY <1>1 DEF Unwinding, DestroyIn

(* The invariant is inductive: every step of every call, the throwing ones *)
(* too, leads from it to itself.                                           *)
LEMMA StepKeeps == IInv /\ [Next]_vars => IInv'
  BY ConstructionKeeps, ModificationKeeps, ObservationKeeps, RunTKeeps,
     RunFlagKeeps, ThrowUnwindsNothing, ThrowKeeps, ReturnKeeps, StutterKeeps
     DEF Next, IInv

(* So is what relates a call in progress to the contract.                  *)
LEMMA StepKeepsContract == IInv /\ ContractInv /\ [Next]_vars => ContractInv'
  BY ConstructionKeeps, ModificationKeeps, ObservationKeeps, RunKeepsContract,
     ThrowUnwindsNothing, ThrowKeepsContract, IdleKeepsContract,
     StutterKeepsContract DEF Next, IInv

(* No step ends a T that its call is not to end.                           *)
LEMMA StepEnds == IInv /\ [Next]_vars => EndsOnlyItsOwn
<1> SUFFICES ASSUME IInv, [Next]_vars PROVE EndsOnlyItsOwn
  OBVIOUS
<1>1. CASE Construction
  BY <1>1, OthersEndNothing
     DEF Construction, DefaultCtor, ValueCtor, FactoryCtor, ConditionalCtor,
         CopyCtor, ConvertingCtor, BeginCtor, Begin
<1>2. CASE Modification
  <2>1. ASSUME NEW o \in Opts, NEW p \in Opts, NEW how \in Hows,
               \/ AssignOptional(o, p, how) \/ AssignConverting(o, p, how)
               \/ AssignExpr(o, how) \/ Swap(o, p) \/ Reset(o) \/ Dtor(o)
        PROVE  EndsOnlyItsOwn
    BY <2>1, OthersEndNothing
       DEF Reset, AssignOptional, AssignConverting, AssignExpr, Swap, Dtor,
           BeginOn, Begin
  <2>2. ASSUME NEW o \in Opts, NEW s \in Sources, NEW how \in Hows,
               \/ AssignValue(o, s, how) \/ Emplace(o, s, how)
               \/ AssignFactory(o, s, how)
        PROVE  EndsOnlyItsOwn
    BY <2>2, OthersEndNothing
       DEF AssignValue, Emplace, AssignFactory, BeginOn, Begin
  <2> QED BY <1>2, <2>1, <2>2 DEF Modification
<1>3. CASE Observation
  BY <1>3, OthersEndNothing DEF Observation, Value, ValueOr, BeginOn, Begin
<1>4. CASE RunT \/ RunFlag \/ Return \/ UNCHANGED vars
  BY <1>4, RunTEnds, ReturnEnds, OthersEndNothing
<1>5. CASE Throw
  BY <1>5, ThrowUnwindsNothing, ThrowEnds
<1> QED BY <1>1, <1>2, <1>3, <1>4, <1>5 DEF Next

(* The invariants of ProgramInv and ContractInv hold of optional_base<T>   *)
(* too, for any number of optionals and values, whatever T guarantees.     *)
THEOREM InductiveInvariant == Spec => [](IInv /\ ContractInv)
<1>1. InitObjects => IInv /\ ContractInv
  BY InitKeeps, IdleKeepsContract
<1>2. (IInv /\ ContractInv) /\ [Next]_vars => (IInv /\ ContractInv)'
  BY StepKeeps, StepKeepsContract
<1> QED BY <1>1, <1>2, PTL DEF Spec

(* A call in progress is on its way to what the contract says of it: what  *)
(* it has left to do is for that alone, what it has changed so far may be  *)
(* left if T throws, and once nothing can throw, what it leaves is what it *)
(* promised.                                                               *)
THEOREM CallsKeepToThePlan == Spec => []ContractInv
<1>1. IInv /\ ContractInv => ContractInv
  OBVIOUS
<1> QED BY <1>1, InductiveInvariant, PTL

(* The state keeps its types, so no caller sees an engaged optional that   *)
(* has no value.                                                           *)
THEOREM TypeCorrect == Spec => []TypeOK
  BY InductiveInvariant, PropertiesFollow, PTL

(* m_initialized never contradicts the storage when code of T can look:    *)
(* construct() sets it after T's constructor, destroy_impl() clears it     *)
(* after the destructor, and no throw comes in between.                    *)
THEOREM FlagsAreRight == Spec => []FlagTellsTheTruth
  BY InductiveInvariant, PropertiesFollow, PTL

(* No constructor that throws and no destructor leaves a T behind.         *)
THEOREM NoLeak == Spec => []NothingLeaks
  BY InductiveInvariant, PropertiesFollow, PTL

(* construct() only ever runs on empty storage, destroy(), assign_value()  *)
(* and swap only on a live T, also through a converted temporary.          *)
THEOREM LifetimesAreRight == Spec => []LifetimesRespected
  BY InductiveInvariant, PropertiesFollow, PTL

(* When an operation of T throws, has_value() of every optional is what it *)
(* was before the call, also when it is the conversion to the temporary    *)
(* that throws; only emplace and the assignment from a factory leave       *)
(* theirs disengaged.                                                      *)
THEOREM EngagementIsKept == Spec => []EngagementSurvivesThrow
  BY InductiveInvariant, PropertiesFollow, PTL

(* If the operations of T give the strong guarantee, so does every call    *)
(* but emplace and the assignment from a factory, which destroy the old    *)
(* value first, and but the conversion of an rvalue, whose source may have *)
(* been consumed by the temporary when the move from that throws.          *)
THEOREM StrengthIsKept == Spec => []StrongGuaranteeLifts
  BY InductiveInvariant, PropertiesFollow, PTL

(* A pointer to the value of an optional stays valid until a call that is  *)
(* to disengage, rebuild or destroy that optional.                         *)
THEOREM PointersAreKept == Spec => PointersStayValid
<1>1. IInv /\ [Next]_vars => [EndsOnlyItsOwn]_vars
  BY StepEnds
<1>2. [EndsOnlyItsOwn]_vars =>
        [\A o \in Opts : slot[o] # Raw /\ slot'[o] = Raw /\ before[o] # None
           => EndsValue(o)]_vars
  BY DEF EndsOnlyItsOwn
<1> QED BY <1>1, <1>2, InductiveInvariant, PTL DEF Spec, PointersStayValid

------------------------------------------------------------------------------
(* Every step is a step of the contract, or one that no caller sees.       *)
LEMMA StepImplements ==
    IInv /\ ContractInv /\ ContractInv' /\ [Next]_vars
      => [Contract!Next]_(Contract!cvars)
<1> SUFFICES ASSUME IInv, ContractInv, ContractInv', [Next]_vars
             PROVE  Contract!Next \/ UNCHANGED Contract!cvars
  OBVIOUS
<1>1. CASE Construction
  <2>1. PICK o, from, how, op, program :
          BeginWith("pending", op, o, from, how, program)
    BY <1>1 DEF Construction, DefaultCtor, ValueCtor, FactoryCtor,
                ConditionalCtor, CopyCtor, ConvertingCtor, BeginCtor, Begin
  <2> QED BY <2>1, StartImplements DEF Contract!Next
<1>2. CASE Modification
  <2>1. \A op, o, from, how, program :
          \/ BeginOn(op, o, from, how, program)
          \/ Begin(op, o, from, how, program)
          => Contract!Make
    BY StartImplements DEF BeginOn, Begin
  <2>2. ASSUME NEW o \in Opts, NEW p \in Opts, NEW how \in Hows,
               \/ AssignOptional(o, p, how) \/ AssignConverting(o, p, how)
               \/ AssignExpr(o, how) \/ Swap(o, p) \/ Reset(o) \/ Dtor(o)
        PROVE  Contract!Make
    BY <2>1, <2>2 DEF Reset, AssignOptional, AssignConverting, AssignExpr,
                      Swap, Dtor
  <2>3. ASSUME NEW o \in Opts, NEW s \in Sources, NEW how \in Hows,
               \/ AssignValue(o, s, how) \/ Emplace(o, s, how)
               \/ AssignFactory(o, s, how)
        PROVE  Contract!Make
    BY <2>1, <2>3 DEF AssignValue, Emplace, AssignFactory
  <2>4. \E p \in Opts : TRUE
    BY ObjectModelAssumption
  <2> QED BY <1>2, <2>2, <2>3, <2>4 DEF Modification, Contract!Next
<1>3. CASE Observation
  <2>1. PICK result, o, from, how, op, program :
          BeginWith(result, op, o, from, how, program)
    BY <1>3 DEF Observation, Value, ValueOr, BeginOn, Begin
  <2> QED BY <2>1, StartImplements DEF Contract!Next
<1>4. CASE RunT \/ RunFlag \/ Throw \/ UNCHANGED vars
  BY <1>4, RunImplements DEF Throw
<1>5. CASE Return
  BY <1>5, EndImplements
<1> QED BY <1>1, <1>2, <1>3, <1>4, <1>5 DEF Next

(* The implementation without the union keeps the same contract: a caller  *)
(* cannot tell the two apart by what a call may return, throw or leave     *)
(* behind, the temporaries of its conversions included.                    *)
THEOREM Implements == Spec => ImplementsContract
<1>1. InitObjects => Contract!Init
  BY InitImplements
<1>2. (IInv /\ ContractInv) /\ (IInv /\ ContractInv)' /\ [Next]_vars
        => [Contract!Next]_(Contract!cvars)
  BY StepImplements
<1> QED BY <1>1, <1>2, InductiveInvariant, PTL
        DEF Spec, ImplementsContract, Contract!Spec
------------------------------------------------------------------------------
(* Swap, with its dispatch and both its implementations: OptionalSwap.     *)

(* Three statements followed by two, and what five start with.             *)
LEMMA Concat32 ==
    ASSUME NEW a, NEW b, NEW c, NEW d, NEW e
    PROVE  <<a, b, c>> \o <<d, e>> = <<a, b, c, d, e>>
<1> DEFINE S == {a, b, c, d, e}
           s == <<a, b, c>>
           t == <<d, e>>
           u == <<a, b, c, d, e>>
<1>1. s \in Seq(S) /\ t \in Seq(S) /\ u \in Seq(S)
  OBVIOUS
<1>2. Len(s) = 3 /\ Len(t) = 2 /\ Len(u) = 5
  OBVIOUS
<1>3. /\ \A i \in 1 .. 3 : u[i] = s[i]
      /\ \A i \in 1 .. 2 : u[3 + i] = t[i]
  OBVIOUS
<1> HIDE DEF S, s, t, u
<1>4. /\ Len(u) = Len(s) + Len(t)
      /\ \A i \in 1 .. Len(s) : u[i] = s[i]
      /\ \A i \in 1 .. Len(t) : u[Len(s) + i] = t[i]
  BY <1>2, <1>3
<1>5. s \o t = u
  BY <1>1, <1>4, ConcatAt
<1> QED BY <1>5 DEF s, t, u

LEMMA FiveStatements ==
    ASSUME NEW a, NEW b, NEW c, NEW d, NEW e
    PROVE  /\ <<a, b, c, d, e>> # <<>> /\ Head(<<a, b, c, d, e>>) = a
           /\ Tail(<<a, b, c, d, e>>) = <<b, c, d, e>>
  OBVIOUS

(* A call of swap. *)
IsSwapOf(o, p) == /\ call.op = "swap" /\ call.how = "move"
                  /\ call.o = o /\ call.from = p

BothHeld(o, p) == /\ TwoValues
                  /\ Holds(o, before[o]) /\ Holds(p, before[p])
NoneHeld(o, p) == /\ before[o] = None /\ before[p] = None
                  /\ HoldsNone(o) /\ HoldsNone(p)
OneHeld(t, g) == /\ OneValue(t, g)
                 /\ HoldsNone(t) /\ Holds(g, before[g])

ByDefault(o, p, t, g) ==
    <<DefaultT(t), Engage(t), SwapT(o, p), Destroy(g), Disengage(g)>>
ByMove(t, g) ==
    <<Construct(t, g, "move"), Engage(t), Destroy(g), Disengage(g)>>

(* The one of two optionals that held a value is not the other one.        *)
LEMMA OneIsNotTheOther ==
    ASSUME NEW o, NEW p, IsSwapOf(o, p), NEW t, NEW g, OneValue(t, g)
    PROVE  t # g /\ ((t = o /\ g = p) \/ (t = p /\ g = o))
<1>1. None \notin Objects
  BY ObjectModelAssumption
<1> QED BY <1>1 DEF IsSwapOf, OneValue

(* What swap finds, and the program that it runs on that.                  *)
LEMMA SwapPrograms ==
    ASSUME NEW o \in Opts, NEW p \in Opts, IsSwapOf(o, p), Swaps,
           OthersAsBefore({})
    PROVE  \/ BothHeld(o, p) /\ FreeSwap(o, p) = <<SwapT(o, p)>>
           \/ NoneHeld(o, p) /\ FreeSwap(o, p) = <<>>
           \/ \E t, g \in Opts :
                /\ OneHeld(t, g)
                /\ FreeSwap(o, p) = IF useDefaultCtor THEN ByDefault(o, p, t, g)
                                                      ELSE ByMove(t, g)
<1>1. /\ Alive(o) /\ Alive(p) /\ o # Arg /\ p # Arg
      /\ call.o = o /\ call.from = p /\ init \in [Opts -> BOOLEAN]
      /\ slot \in [Places -> Objects \cup {Raw}]
  BY PlacesDiffer DEF Swaps, SwapTypeOK, IsSwapOf
<1>2. ASSUME NEW r \in {o, p}
      PROVE  /\ init[r] => Holds(r, before[r]) /\ before[r] \in Objects
             /\ ~init[r] => HoldsNone(r) /\ before[r] = None
  <2>1. Shown(r) = before[r] /\ Calm(r) /\ life[r] = "alive" /\ r \in Places
    BY <1>1, PlacesDiffer DEF OthersAsBefore, AsBefore, Alive
  <2>2. Shown(r) = IF init[r] THEN slot[r] ELSE None
    BY <1>1, <2>1 DEF Shown, Engaged, Alive, Building
  <2>3. init[r] => slot[r] \in Objects
    BY <1>1, <2>1 DEF Calm, Empty, Full
  <2> QED BY <2>1, <2>2, <2>3
          DEF Holds, HoldsNone, Calm, Empty, Full, Alive
<1>3. CASE init[o] /\ init[p]
  <2>1. FreeSwap(o, p) = <<SwapT(o, p)>>
    BY <1>3 DEF FreeSwap, SwapByDefault, SwapByMove
  <2> QED BY <1>1, <1>2, <1>3, <2>1 DEF BothHeld, TwoValues
<1>4. CASE ~init[o] /\ ~init[p]
  <2>1. FreeSwap(o, p) = <<>>
    BY <1>4 DEF FreeSwap, SwapByDefault, SwapByMove
  <2> QED BY <1>2, <1>4, <2>1 DEF NoneHeld
<1>5. ASSUME NEW t \in {o, p}, NEW g \in {o, p}, init[g], ~init[t]
      PROVE  /\ OneHeld(t, g)
             /\ FreeSwap(o, p) = IF useDefaultCtor THEN ByDefault(o, p, t, g)
                                                   ELSE ByMove(t, g)
  <2>1. OneHeld(t, g)
    BY <1>1, <1>2, <1>5 DEF OneHeld, OneValue
  <2>2. DestroyIn(g) = <<Destroy(g), Disengage(g)>>
    BY <1>5 DEF DestroyIn
  <2>3. /\ SwapByDefault(o, p) = <<DefaultT(t), Engage(t), SwapT(o, p)>>
                                   \o DestroyIn(g)
        /\ SwapByMove(o, p) = ConstructIn(t, g, "move") \o DestroyIn(g)
    BY <1>5 DEF SwapByDefault, SwapByMove
  <2>4. SwapByDefault(o, p) = ByDefault(o, p, t, g)
    BY <2>2, <2>3, Concat32 DEF ByDefault
  <2>5. SwapByMove(o, p) = ByMove(t, g)
    BY <2>2, <2>3, Concat22 DEF ByMove, ConstructIn
  <2> QED BY <2>1, <2>4, <2>5 DEF FreeSwap
<1> QED BY <1>1, <1>3, <1>4, <1>5

(* A step of swap touches the two optionals alone, so that all that has to *)
(* be shown is what it does to them.                                       *)
LEMMA SwapFrame ==
    ASSUME Swaps, NEW o \in Opts, NEW p \in Opts, IsSwapOf(o, p),
           UNCHANGED <<life, busy, call, before, traits>>,
           slot' \in [Places -> Objects \cup {Raw}],
           init' \in [Opts -> BOOLEAN],
           \A r \in Opts \ {o, p} : slot'[r] = slot[r] /\ init'[r] = init[r],
           slot'[Arg] = slot[Arg],
           \/ /\ outcome' = "pending"
              /\ \/ Starting' \/ Exchanged'
                 \/ \E t, g \in Opts : OneValue(t, g)' /\ Handing(t, g)'
           \/ outcome' = "threw" /\ SwapFailed'
    PROVE  Swaps'
<1>1. /\ call' = call /\ life' = life /\ before' = before
      /\ call.o = o /\ call.from = p
  BY DEF IsSwapOf
<1>2. SwapTypeOK' /\ Alive(call.o)' /\ Alive(call.from)'
      /\ before'[Arg] = Unspec /\ busy' = TRUE
  BY <1>1 DEF Swaps, SwapTypeOK, Alive
<1>3. ASSUME NEW r \in (Opts \cup {Arg}) \ {o, p}
      PROVE  AsBefore(r)'
  <2>1. AsBefore(r) /\ slot'[r] = slot[r] /\ (r # Arg => init'[r] = init[r])
    BY <1>1, <1>3, PlacesDiffer DEF Swaps, OthersAsBefore
  <2> QED BY <1>1, <2>1
          DEF AsBefore, Shown, Engaged, Alive, Calm, Empty, Full
<1>4. OthersAsBefore({call.o, call.from})'
  BY <1>1, <1>3 DEF OthersAsBefore
<1> QED BY <1>2, <1>4 DEF Swaps

(* Where a swap may stand when its next statement is not the dispatch.     *)
LEMMA SwapPoints ==
    ASSUME Swaps, outcome = "pending", ~Running({"invoke_swap"}),
           NEW o \in Opts, NEW p \in Opts, IsSwapOf(o, p)
    PROVE  \/ BothHeld(o, p) /\ todo = <<SwapT(o, p)>>
           \/ todo = <<>> /\ (NoneHeld(o, p) \/ Exchanged)
           \/ \E t, g \in Opts :
                /\ OneValue(t, g)
                /\ \/ /\ OneHeld(t, g)
                      /\ todo = IF useDefaultCtor THEN ByDefault(o, p, t, g)
                                                  ELSE ByMove(t, g)
                   \/ Handing(t, g)
<1>1. CASE Starting
  <2>1. todo # <<InvokeSwap(o, p)>>
    <3> DEFINE st == InvokeSwap(o, p)
    <3>1. st.do = "invoke_swap"
      BY DEF InvokeSwap, Stmt
    <3>2. <<st>> # <<>> /\ Head(<<st>>) = st
      BY HeadsAndTails
    <3> HIDE DEF st
    <3>3. todo # <<st>>
      BY <3>1, <3>2 DEF Running, Swaps
    <3> QED BY <3>3 DEF st
  <2>2. todo = FreeSwap(o, p) /\ OthersAsBefore({})
    BY <1>1, <2>1 DEF Starting, IsSwapOf
  <2> QED BY <2>2, SwapPrograms DEF OneHeld
<1> QED BY <1>1 DEF Swaps, Exchanged

(* The dispatch leaves the optionals alone and picks the program.          *)
LEMMA DispatchKeeps ==
    ASSUME Swaps, RunInvokeSwap
    PROVE  Swaps'
<1>1. PICK o \in Opts, p \in Opts : IsSwapOf(o, p)
  BY DEF Swaps, SwapTypeOK, IsSwapOf
<1>2. /\ todo # <<>> /\ Head(todo).do = "invoke_swap"
      /\ todo' = FreeSwap(Head(todo).at, Head(todo).from) \o Tail(todo)
      /\ UNCHANGED <<life, init, slot, busy, call, outcome, before, traits>>
  BY DEF RunInvokeSwap, Running
<1>3. outcome = "pending" /\ Starting /\ todo # FreeSwap(o, p)
  <2>1. outcome = "pending" /\ (Starting \/ \E t, g \in Opts : Handing(t, g))
    BY <1>2 DEF Swaps, Exchanged, SwapFailed
  <2>2. ASSUME NEW t \in Opts, NEW g \in Opts, Handing(t, g) PROVE FALSE
    <3>1. Head(todo).do \in {"engage", "swap", "destroy", "disengage"}
      <4>1. CASE AtDefaultEngage(t, g)
        BY <4>1, HeadsAndTails, StmtFields DEF AtDefaultEngage
      <4>2. CASE AtDefaultSwap(t, g)
        BY <4>2, HeadsAndTails, StmtFields DEF AtDefaultSwap
      <4>3. CASE AtMoveEngage(t, g)
        BY <4>3, HeadsAndTails, StmtFields DEF AtMoveEngage
      <4>4. CASE AtGiverDestroy(t, g)
        BY <4>4, HeadsAndTails, StmtFields DEF AtGiverDestroy
      <4>5. CASE AtGiverDisengage(t, g)
        BY <4>5, HeadsAndTails, StmtFields DEF AtGiverDisengage
      <4> QED BY <1>2, <2>2, <4>1, <4>2, <4>3, <4>4, <4>5
              DEF Handing, HandedOver
    <3> QED BY <1>2, <3>1
  <2>3. ASSUME Starting, todo = FreeSwap(o, p) PROVE FALSE
    <3>1. Head(todo).do \in {"swap", "construct"}
      <4>1. OthersAsBefore({})
        BY <2>3 DEF Starting
      <4>2. ASSUME NEW t \in Opts, NEW g \in Opts
            PROVE  /\ Head(ByDefault(o, p, t, g)).do = "construct"
                   /\ Head(ByMove(t, g)).do = "construct"
        BY FiveStatements, HeadsAndTails, StmtReads
           DEF ByDefault, ByMove, DefaultT
      <4>3. <<SwapT(o, p)>> # <<>> /\ Head(<<SwapT(o, p)>>).do = "swap"
        BY HeadsAndTails, StmtReads
      <4> QED BY <1>1, <1>2, <2>3, <4>1, <4>2, <4>3, SwapPrograms
    <3> QED BY <1>2, <3>1
  <2> QED BY <2>1, <2>2, <2>3
<1>4. todo' = FreeSwap(o, p)
  <2> DEFINE st == InvokeSwap(o, p)
  <2>1. todo = <<st>>
    BY <1>1, <1>3 DEF Starting, IsSwapOf
  <2>2. st.at = o /\ st.from = p
    BY DEF InvokeSwap, Stmt
  <2> HIDE DEF st
  <2>3. todo' = FreeSwap(o, p) \o <<>>
    BY <1>2, <2>1, <2>2, HeadsAndTails
  <2>4. \E S : FreeSwap(o, p) \in Seq(S)
    <3>1. OthersAsBefore({})
      BY <1>3 DEF Starting
    <3>2. \E S : <<SwapT(o, p)>> \in Seq(S) /\ <<>> \in Seq(S)
      <4>1. \A a : <<a>> \in Seq({a}) /\ <<>> \in Seq({a})
        OBVIOUS
      <4> QED BY <4>1
    <3>3. ASSUME NEW a, NEW b, NEW c, NEW d, NEW e
          PROVE  /\ <<a, b, c, d, e>> \in Seq({a, b, c, d, e})
                 /\ <<a, b, c, d>> \in Seq({a, b, c, d})
      OBVIOUS
    <3>4. ASSUME NEW t \in Opts, NEW g \in Opts
          PROVE  /\ \E S : ByDefault(o, p, t, g) \in Seq(S)
                 /\ \E S : ByMove(t, g) \in Seq(S)
      BY <3>3 DEF ByDefault, ByMove
    <3>5. \/ FreeSwap(o, p) \in {<<SwapT(o, p)>>, <<>>}
          \/ \E t, g \in Opts : FreeSwap(o, p) \in {ByDefault(o, p, t, g),
                                                    ByMove(t, g)}
      BY <1>1, <3>1, SwapPrograms
    <3>6. CASE FreeSwap(o, p) \in {<<SwapT(o, p)>>, <<>>}
      BY <3>2, <3>6
    <3>7. CASE \E t, g \in Opts : FreeSwap(o, p) \in {ByDefault(o, p, t, g),
                                                      ByMove(t, g)}
      BY <3>4, <3>7
    <3> QED BY <3>5, <3>6, <3>7
  <2> QED BY <2>3, <2>4, ConcatEmptySeq
<1>5. Starting'
  <2>1. FreeSwap(o, p)' = FreeSwap(o, p)
    BY <1>2 DEF FreeSwap, SwapByDefault, SwapByMove, DestroyIn, traits
  <2>2. FreeSwap(call.o, call.from)' = FreeSwap(o, p)
    BY <1>1, <1>2, <2>1 DEF IsSwapOf
  <2>3. OthersAsBefore({})'
    BY <1>2, <1>3 DEF Starting, OthersAsBefore, AsBefore, Shown, Engaged,
                      Alive, Calm, Empty, Full
  <2> QED BY <1>4, <2>2, <2>3 DEF Starting
<1>6. /\ slot' \in [Places -> Objects \cup {Raw}] /\ init' \in [Opts -> BOOLEAN]
      /\ outcome' = "pending"
  BY <1>2, <1>3 DEF Swaps, SwapTypeOK
<1> QED BY <1>1, <1>2, <1>5, <1>6, SwapFrame

(* What T's constructor makes of the optional without a value.             *)
LEMMA SwapConstructs ==
    ASSUME Swaps, NEW o \in Opts, NEW p \in Opts, IsSwapOf(o, p),
           NEW t \in Opts, NEW g \in Opts, OneHeld(t, g), NEW s, NEW how,
           \/ s = Arg /\ how = "copy"
           \/ s = g /\ how = "move",
           slot' \in Succeeds(Construct(t, s, how)) \cup
                     Throws(Construct(t, s, how))
    PROVE  /\ slot' \in [Places -> Objects \cup {Raw}]
           /\ \A r \in Places \ {t, g} : slot'[r] = slot[r]
           /\ slot'[g] \in Objects /\ (s = Arg => slot'[g] = slot[g])
           /\ slot' \in Throws(Construct(t, s, how)) =>
                slot'[t] = Raw /\ (Strong => slot'[g] = slot[g])
           /\ slot' \in Succeeds(Construct(t, s, how)) =>
                slot'[t] = IF s = Arg THEN Unspec ELSE before[g]
<1> DEFINE st == Construct(t, s, how)
<1>1. st.do = "construct" /\ st.at = t /\ st.from = s /\ st.how = how
  BY StmtReads
<1>2. /\ slot \in [Places -> Objects \cup {Raw}] /\ t # g
      /\ slot[g] = before[g] /\ before[g] \in Objects
      /\ t \in Places /\ g \in Places /\ Arg \in Places
      /\ t # Arg /\ g # Arg /\ Raw \notin Objects /\ Unspec \in Objects
      /\ Strong \in BOOLEAN
  BY OneIsNotTheOther, PlacesDiffer, RawIsNoObject, ObjectModelAssumption
     DEF Swaps, SwapTypeOK, OneHeld, OneValue, Holds
<1>3. slot[Arg] = Unspec
  <2>1. Arg \in (Opts \cup {Arg}) \ {call.o, call.from}
    BY PlacesDiffer DEF IsSwapOf
  <2>2. Shown(Arg) = before[Arg]
    BY <2>1 DEF Swaps, OthersAsBefore, AsBefore
  <2> QED BY <2>2 DEF Shown, Swaps
<1>4. ~ReadsDead(st) /\ s \in Places /\ s # t
  BY <1>1, <1>2, <1>3 DEF ReadsDead
<1>5. ASSUME slot' \in Succeeds(st)
      PROVE  \E x \in Leftover(st) :
                slot' = [slot EXCEPT ![t] = slot[s], ![s] = x]
  BY <1>1, <1>4, <1>5 DEF Succeeds, Transferred
<1>6. ASSUME slot' \in Throws(st)
      PROVE  \E x \in (IF Strong THEN {slot[s]} ELSE Leftover(st)) :
                slot' = [slot EXCEPT ![s] = x, ![t] = Raw]
  BY <1>1, <1>6 DEF Throws
<1>7. Leftover(st) = IF s = Arg THEN {slot[Arg]} ELSE {slot[g], Unspec}
  BY <1>1, <1>2 DEF Leftover
<1> HIDE DEF st
<1>8. CASE slot' \in Succeeds(st)
  <2>1. PICK x \in Leftover(st) :
          slot' = [slot EXCEPT ![t] = slot[s], ![s] = x]
    BY <1>5, <1>8
  <2>2. /\ slot' \in [Places -> Objects \cup {Raw}]
        /\ \A r \in Places \ {t, g} : slot'[r] = slot[r]
        /\ slot'[g] \in Objects /\ (s = Arg => slot'[g] = slot[g])
        /\ slot'[t] = IF s = Arg THEN Unspec ELSE before[g]
    BY <1>2, <1>3, <1>4, <1>7, <2>1
  <2>3. ~(slot' \in Throws(st))
    BY <1>2, <1>6, <2>2
  <2> QED BY <2>2, <2>3 DEF st
<1>9. CASE slot' \in Throws(st)
  <2>1. PICK x \in (IF Strong THEN {slot[s]} ELSE Leftover(st)) :
          slot' = [slot EXCEPT ![s] = x, ![t] = Raw]
    BY <1>6, <1>9
  <2>2. /\ slot' \in [Places -> Objects \cup {Raw}]
        /\ \A r \in Places \ {t, g} : slot'[r] = slot[r]
        /\ slot'[g] \in Objects /\ (s = Arg => slot'[g] = slot[g])
        /\ slot'[t] = Raw /\ (Strong => slot'[g] = slot[g])
    BY <1>2, <1>3, <1>4, <1>7, <2>1
  <2>3. ~(slot' \in Succeeds(st))
    BY <1>2, <1>3, <1>4, <1>5, <2>2
  <2> QED BY <2>2, <2>3 DEF st
<1> QED BY <1>8, <1>9 DEF st

(* What T's swap makes of two values.                                      *)
LEMMA SwapSwaps ==
    ASSUME Swaps, NEW o \in Opts, NEW p \in Opts,
           slot[o] \in Objects, slot[p] \in Objects,
           slot' \in Succeeds(SwapT(o, p)) \cup Throws(SwapT(o, p))
    PROVE  /\ slot' \in [Places -> Objects \cup {Raw}]
           /\ \A r \in Places \ {o, p} : slot'[r] = slot[r]
           /\ slot'[o] \in Objects /\ slot'[p] \in Objects
           /\ slot' \in Succeeds(SwapT(o, p)) =>
                slot'[o] = slot[p] /\ slot'[p] = slot[o]
           /\ slot' \in Throws(SwapT(o, p)) /\ Strong => slot' = slot
<1> DEFINE st == SwapT(o, p)
<1>1. st.do = "swap" /\ st.at = o /\ st.from = p
  BY StmtReads
<1>2. /\ slot \in [Places -> Objects \cup {Raw}]
      /\ o \in Places /\ p \in Places /\ Unspec \in Objects
      /\ Strong \in BOOLEAN
  BY PlacesDiffer, RawIsNoObject, ObjectModelAssumption
     DEF Swaps, SwapTypeOK
<1>3. Succeeds(st) = {[slot EXCEPT ![o] = slot[p], ![p] = slot[o]]}
  BY <1>1 DEF Succeeds
<1>4. Throws(st) = IF Strong THEN {slot}
                   ELSE {[slot EXCEPT ![p] = x, ![o] = y] :
                            x, y \in {slot[o], slot[p], Unspec}}
  BY <1>1, <1>2 DEF Throws
<1> HIDE DEF st
<1>5. /\ slot' \in Succeeds(st) =>
           slot' = [slot EXCEPT ![o] = slot[p], ![p] = slot[o]]
      /\ slot' \in Throws(st) /\ Strong => slot' = slot
      /\ slot' \in Throws(st) => \E x, y \in {slot[o], slot[p], Unspec} :
           slot' = [slot EXCEPT ![p] = x, ![o] = y] \/ slot' = slot
  BY <1>2, <1>3, <1>4
<1>6. CASE slot' \in Succeeds(st)
  BY <1>2, <1>5, <1>6 DEF st
<1>7. CASE slot' \in Throws(st)
  <2>1. PICK x \in {slot[o], slot[p], Unspec}, y \in {slot[o], slot[p], Unspec} :
          slot' = [slot EXCEPT ![p] = x, ![o] = y] \/ slot' = slot
    BY <1>5, <1>7
  <2>2. /\ slot' \in [Places -> Objects \cup {Raw}]
        /\ \A r \in Places \ {o, p} : slot'[r] = slot[r]
        /\ slot'[o] \in Objects /\ slot'[p] \in Objects
    BY <1>2, <2>1
  <2>3. slot' \in Succeeds(st) => slot'[o] = slot[p] /\ slot'[p] = slot[o]
    BY <1>2, <1>5
  <2> QED BY <1>5, <2>2, <2>3 DEF st
<1> QED BY <1>6, <1>7 DEF st

(* An operation of T that returns leads each point of a swap to the next.  *)
LEMMA RunTKeepsSwap ==
    ASSUME Swaps, RunT, UNCHANGED traits
    PROVE  Swaps'
<1>1. PICK o \in Opts, p \in Opts : IsSwapOf(o, p)
  BY DEF Swaps, SwapTypeOK, IsSwapOf
<1>2. /\ todo # <<>> /\ Head(todo).do \in TOps
      /\ slot' \in Succeeds(Head(todo)) /\ todo' = Tail(todo)
      /\ UNCHANGED <<life, init, busy, call, outcome, before>>
  BY DEF RunT, Running
<1>3. outcome = "pending" /\ ~Running({"invoke_swap"})
  BY <1>2 DEF Swaps, SwapFailed, Running, TOps
<1>4. /\ slot \in [Places -> Objects \cup {Raw}] /\ init \in [Opts -> BOOLEAN]
      /\ o \in Places /\ p \in Places /\ Arg \in Places
      /\ o # Arg /\ p # Arg /\ call.o = o /\ call.from = p
  BY <1>1, PlacesDiffer DEF Swaps, SwapTypeOK, IsSwapOf
<1>5. SUFFICES /\ slot' \in [Places -> Objects \cup {Raw}]
               /\ \A r \in Places \ {o, p} : slot'[r] = slot[r]
               /\ \/ Exchanged'
                  \/ \E t, g \in Opts : OneValue(t, g)' /\ Handing(t, g)'
  BY <1>1, <1>2, <1>3, <1>4, <1>5, PlacesDiffer, SwapFrame
<1>6. \A t, g : OneValue(t, g)' <=> OneValue(t, g)
  BY <1>2 DEF OneValue
<1>7. CASE BothHeld(o, p) /\ todo = <<SwapT(o, p)>>
  <2>1. Head(todo) = SwapT(o, p) /\ todo' = <<>>
    BY <1>2, <1>7, HeadsAndTails
  <2>2. /\ slot[o] = before[o] /\ slot[p] = before[p] /\ TwoValues
        /\ slot[o] \in Objects /\ slot[p] \in Objects
        /\ Alive(o) /\ Alive(p) /\ init[o] /\ init[p]
    BY <1>4, <1>7 DEF BothHeld, Holds, TwoValues
  <2>3. /\ slot' \in [Places -> Objects \cup {Raw}]
        /\ \A r \in Places \ {o, p} : slot'[r] = slot[r]
        /\ slot'[o] = slot[p] /\ slot'[p] = slot[o]
    BY <1>2, <2>1, <2>2, SwapSwaps
  <2>4. Exchanged'
    BY <1>2, <1>4, <2>1, <2>2, <2>3 DEF Exchanged, Holds, Alive, TwoValues
  <2> QED BY <2>3, <2>4
<1>8. ASSUME NEW t \in Opts, NEW g \in Opts, OneValue(t, g), OneHeld(t, g),
             todo = IF useDefaultCtor THEN ByDefault(o, p, t, g)
                                      ELSE ByMove(t, g)
      PROVE  /\ slot' \in [Places -> Objects \cup {Raw}]
             /\ \A r \in Places \ {o, p} : slot'[r] = slot[r]
             /\ OneValue(t, g)' /\ Handing(t, g)'
  <2>1. /\ t # g /\ {t, g} = {o, p} /\ t \in Places /\ g \in Places
        /\ Alive(t) /\ Alive(g) /\ ~init[t] /\ init[g]
        /\ slot[g] = before[g]
    BY <1>1, <1>4, <1>8, OneIsNotTheOther
       DEF OneHeld, HoldsNone, Holds, Empty
  <2>2. CASE useDefaultCtor
    <3>1. /\ Head(todo) = Construct(t, Arg, "copy")
          /\ todo' = <<Engage(t), SwapT(o, p), Destroy(g), Disengage(g)>>
      BY <1>2, <1>8, <2>2, FiveStatements DEF ByDefault, DefaultT
    <3>2. /\ slot' \in [Places -> Objects \cup {Raw}]
          /\ \A r \in Places \ {t, g} : slot'[r] = slot[r]
          /\ slot'[g] = slot[g] /\ slot'[t] = Unspec
      BY <1>1, <1>2, <1>8, <3>1, SwapConstructs
    <3>3. AtDefaultEngage(t, g)'
      BY <1>2, <1>4, <2>1, <3>1, <3>2
         DEF AtDefaultEngage, Unflagged, Holds, Alive
    <3>4. useDefaultCtor'
      BY <2>2 DEF traits
    <3> QED BY <1>6, <1>8, <2>1, <3>2, <3>3, <3>4 DEF Handing
  <2>3. CASE ~useDefaultCtor
    <3>1. /\ Head(todo) = Construct(t, g, "move")
          /\ todo' = <<Engage(t), Destroy(g), Disengage(g)>>
      BY <1>2, <1>8, <2>3, HeadsAndTails DEF ByMove
    <3>2. /\ slot' \in [Places -> Objects \cup {Raw}]
          /\ \A r \in Places \ {t, g} : slot'[r] = slot[r]
          /\ slot'[g] \in Objects /\ slot'[t] = before[g]
      <4>1. g # Arg
        BY PlacesDiffer
      <4> QED BY <1>1, <1>2, <1>8, <3>1, <4>1, SwapConstructs
    <3>3. AtMoveEngage(t, g)'
      BY <1>2, <1>4, <2>1, <3>1, <3>2
         DEF AtMoveEngage, Unflagged, HoldsSome, Alive
    <3>4. ~useDefaultCtor'
      BY <2>3 DEF traits
    <3> QED BY <1>6, <1>8, <2>1, <3>2, <3>3, <3>4 DEF Handing
  <2> QED BY <2>2, <2>3
<1>9. ASSUME NEW t \in Opts, NEW g \in Opts, OneValue(t, g), Handing(t, g)
      PROVE  /\ slot' \in [Places -> Objects \cup {Raw}]
             /\ \A r \in Places \ {o, p} : slot'[r] = slot[r]
             /\ OneValue(t, g)' /\ Handing(t, g)'
  <2>1. /\ t # g /\ {t, g} = {o, p} /\ t \in Places /\ g \in Places
        /\ (t = o /\ g = p) \/ (t = p /\ g = o)
        /\ before[g] \in Objects /\ Unspec \in Objects
    BY <1>1, <1>4, <1>9, OneIsNotTheOther, RawIsNoObject DEF OneValue
  <2>2. CASE useDefaultCtor /\ AtDefaultSwap(t, g)
    <3>1. /\ Head(todo) = SwapT(o, p) /\ todo' = <<Destroy(g), Disengage(g)>>
      BY <1>2, <1>4, <2>2, HeadsAndTails DEF AtDefaultSwap
    <3>2. /\ Alive(t) /\ Alive(g) /\ init[t] /\ init[g]
          /\ slot[t] = Unspec /\ slot[g] = before[g]
      BY <2>2 DEF AtDefaultSwap, Holds
    <3>3. /\ slot' \in [Places -> Objects \cup {Raw}]
          /\ \A r \in Places \ {o, p} : slot'[r] = slot[r]
          /\ slot'[o] = slot[p] /\ slot'[p] = slot[o]
      BY <1>2, <2>1, <3>1, <3>2, SwapSwaps
    <3>4. AtGiverDestroy(t, g)'
      BY <1>2, <2>1, <3>1, <3>2, <3>3
         DEF AtGiverDestroy, Holds, HoldsSome, Alive
    <3> QED BY <1>6, <1>9, <3>3, <3>4 DEF Handing
  <2>3. CASE AtGiverDestroy(t, g)
    <3>1. /\ Head(todo) = Destroy(g) /\ todo' = <<Disengage(g)>>
      BY <1>2, <2>3, HeadsAndTails DEF AtGiverDestroy
    <3>2. slot' = [slot EXCEPT ![g] = Raw]
      BY <1>2, <3>1 DEF Succeeds, Destroy, Stmt
    <3>3. /\ slot' \in [Places -> Objects \cup {Raw}]
          /\ \A r \in Places \ {o, p} : slot'[r] = slot[r]
          /\ slot'[g] = Raw /\ slot'[t] = slot[t]
      BY <1>4, <2>1, <3>2
    <3>4. AtGiverDisengage(t, g)'
      BY <1>2, <2>3, <3>1, <3>3
         DEF AtGiverDestroy, AtGiverDisengage, Holds, HoldsSome, Alive
    <3> QED BY <1>6, <1>9, <3>3, <3>4 DEF Handing
  <2>4. CASE AtDefaultEngage(t, g)
    BY <1>2, <2>4, HeadsAndTails, StmtFields DEF AtDefaultEngage, TOps
  <2>5. CASE AtMoveEngage(t, g)
    BY <1>2, <2>5, HeadsAndTails, StmtFields DEF AtMoveEngage, TOps
  <2>6. CASE AtGiverDisengage(t, g)
    BY <1>2, <2>6, HeadsAndTails, StmtFields DEF AtGiverDisengage, TOps
  <2> QED BY <1>2, <1>9, <2>2, <2>3, <2>4, <2>5, <2>6 DEF Handing, HandedOver
<1> QED BY <1>1, <1>2, <1>3, <1>7, <1>8, <1>9, SwapPoints

(* What the statements on a flag do to it.                                 *)
LEMMA FlagIsSet ==
    ASSUME RunFlag, NEW r
    PROVE  /\ Head(todo) = Engage(r) => init' = [init EXCEPT ![r] = TRUE]
           /\ Head(todo) = Disengage(r) => init' = [init EXCEPT ![r] = FALSE]
<1> DEFINE flag == Head(todo).do = "engage"
<1>1. init' = [init EXCEPT ![Head(todo).at] = flag]
  BY DEF RunFlag
<1>2. ASSUME Head(todo) = Engage(r)
      PROVE  flag = TRUE /\ Head(todo).at = r
  <2>1. Head(todo).do = "engage" /\ Head(todo).at = r
    BY <1>2, StmtFields
  <2> QED BY <2>1, Zenon
<1>3. ASSUME Head(todo) = Disengage(r)
      PROVE  flag = FALSE /\ Head(todo).at = r
  <2>1. Head(todo).do # "engage" /\ Head(todo).at = r
    BY <1>3, StmtFields
  <2> QED BY <2>1, Zenon
<1> HIDE DEF flag
<1> QED BY <1>1, <1>2, <1>3

(* So does the setting or clearing of a flag.                              *)
LEMMA RunFlagKeepsSwap ==
    ASSUME Swaps, RunFlag, UNCHANGED traits
    PROVE  Swaps'
<1>1. PICK o \in Opts, p \in Opts : IsSwapOf(o, p)
  BY DEF Swaps, SwapTypeOK, IsSwapOf
<1>2. /\ todo # <<>> /\ Head(todo).do \in {"engage", "disengage"}
      /\ init' = [init EXCEPT ![Head(todo).at] = (Head(todo).do = "engage")]
      /\ todo' = Tail(todo)
      /\ UNCHANGED <<life, slot, busy, call, outcome, before>>
  BY DEF RunFlag, Running
<1>3. outcome = "pending" /\ ~Running({"invoke_swap"})
  BY <1>2 DEF Swaps, SwapFailed, Running
<1>4. /\ slot \in [Places -> Objects \cup {Raw}] /\ init \in [Opts -> BOOLEAN]
      /\ call.o = o /\ call.from = p
  BY <1>1 DEF Swaps, SwapTypeOK, IsSwapOf
<1>5. PICK t \in Opts, g \in Opts : OneValue(t, g) /\ Handing(t, g)
  <2>1. <<SwapT(o, p)>> # <<>> /\ Head(<<SwapT(o, p)>>).do = "swap"
    BY HeadsAndTails, StmtReads
  <2>2. ASSUME NEW t \in Opts, NEW g \in Opts
        PROVE  /\ Head(ByDefault(o, p, t, g)).do = "construct"
               /\ Head(ByMove(t, g)).do = "construct"
    BY FiveStatements, HeadsAndTails, StmtReads DEF ByDefault, ByMove, DefaultT
  <2> QED BY <1>1, <1>2, <1>3, <2>1, <2>2, SwapPoints
<1>6. /\ OneValue(t, g)' /\ t # g /\ t \in {o, p} /\ g \in {o, p}
  BY <1>1, <1>2, <1>5, OneIsNotTheOther DEF OneValue
<1>7. SUFFICES /\ init' \in [Opts -> BOOLEAN] /\ Handing(t, g)'
               /\ \A r \in Opts \ {o, p} : init'[r] = init[r]
  BY <1>1, <1>2, <1>3, <1>4, <1>6, <1>7, PlacesDiffer, SwapFrame
<1>8. CASE useDefaultCtor /\ AtDefaultEngage(t, g)
  <2>1. /\ Head(todo) = Engage(t)
        /\ todo' = <<SwapT(o, p), Destroy(g), Disengage(g)>>
    BY <1>2, <1>4, <1>8, HeadsAndTails DEF AtDefaultEngage
  <2>2. init' = [init EXCEPT ![t] = TRUE]
    BY <2>1, FlagIsSet
  <2>3. AtDefaultSwap(t, g)'
    BY <1>2, <1>4, <1>6, <1>8, <2>1, <2>2
       DEF AtDefaultEngage, AtDefaultSwap, Unflagged, Holds, Alive
  <2> QED BY <1>4, <1>6, <1>8, <2>2, <2>3 DEF Handing, traits
<1>9. CASE ~useDefaultCtor /\ AtMoveEngage(t, g)
  <2>1. /\ Head(todo) = Engage(t)
        /\ todo' = <<Destroy(g), Disengage(g)>>
    BY <1>2, <1>9, HeadsAndTails DEF AtMoveEngage
  <2>2. init' = [init EXCEPT ![t] = TRUE]
    BY <2>1, FlagIsSet
  <2>3. AtGiverDestroy(t, g)'
    BY <1>2, <1>4, <1>6, <1>9, <2>1, <2>2
       DEF AtMoveEngage, AtGiverDestroy, Unflagged, Holds, HoldsSome, Alive
  <2> QED BY <1>4, <1>6, <2>2, <2>3 DEF Handing
<1>10. CASE AtGiverDisengage(t, g)
  <2>1. Head(todo) = Disengage(g) /\ todo' = <<>>
    BY <1>2, <1>10, HeadsAndTails DEF AtGiverDisengage
  <2>2. init' = [init EXCEPT ![g] = FALSE]
    BY <2>1, FlagIsSet
  <2>3. HandedOver(t, g)'
    BY <1>2, <1>4, <1>6, <1>10, <2>1, <2>2
       DEF AtGiverDisengage, HandedOver, Holds, HoldsNone, Empty, Alive
  <2> QED BY <1>4, <1>6, <2>2, <2>3 DEF Handing
<1>11. CASE AtDefaultSwap(t, g)
  BY <1>2, <1>11, HeadsAndTails, StmtFields DEF AtDefaultSwap
<1>12. CASE AtGiverDestroy(t, g)
  BY <1>2, <1>12, HeadsAndTails, StmtFields DEF AtGiverDestroy
<1> QED BY <1>2, <1>5, <1>8, <1>9, <1>10, <1>11, <1>12 DEF Handing, HandedOver

(* An operation of T that throws leaves what it worked on, if T is strong, *)
(* as it was, and the call has nothing left to do.                         *)
LEMMA ThrowKeepsSwap ==
    ASSUME Swaps, ThrowOut
    PROVE  Swaps'
<1>1. PICK o \in Opts, p \in Opts : IsSwapOf(o, p)
  BY DEF Swaps, SwapTypeOK, IsSwapOf
<1>2. /\ slot \in [Places -> Objects \cup {Raw}] /\ init \in [Opts -> BOOLEAN]
      /\ o \in Places /\ p \in Places /\ Arg \in Places
      /\ o # Arg /\ p # Arg /\ call.o = o /\ call.from = p
      /\ call.op = "swap" /\ Alive(o) /\ Alive(p)
  BY <1>1, PlacesDiffer DEF Swaps, SwapTypeOK, IsSwapOf
<1>3. Unwinding = <<>>
  BY <1>2 DEF Unwinding, Alive
<1>4. /\ todo # <<>> /\ Head(todo).do \in {"construct", "assign", "swap"}
      /\ outcome = "pending" /\ outcome' = "threw" /\ todo' = <<>>
      /\ slot' \in Throws(Head(todo)) /\ Asks(Head(todo)) \in throwing
      /\ UNCHANGED <<life, init, busy, call, before, traits>>
  BY <1>2, <1>3 DEF ThrowOut, Throw, ThrowT, Running, MayThrow
<1>5. ~Running({"invoke_swap"})
  BY <1>4 DEF Running
<1>6. SUFFICES /\ slot' \in [Places -> Objects \cup {Raw}]
               /\ \A r \in Places \ {o, p} : slot'[r] = slot[r]
               /\ SwapFailed'
  BY <1>1, <1>2, <1>4, <1>6, PlacesDiffer, SwapFrame
<1>7. /\ throwing' = throwing /\ useDefaultCtor' = useDefaultCtor
      /\ \A t, g : OneValue(t, g)' <=> OneValue(t, g)
      /\ Unspec \in Objects
  BY <1>4, RawIsNoObject DEF traits, OneValue
<1>8. CASE BothHeld(o, p) /\ todo = <<SwapT(o, p)>>
  <2>1. Head(todo) = SwapT(o, p)
    BY <1>8, HeadsAndTails
  <2>2. "swap" \in throwing
    BY <1>4, <2>1, StmtReads DEF Asks
  <2>3. /\ slot[o] = before[o] /\ slot[p] = before[p] /\ TwoValues
        /\ slot[o] \in Objects /\ slot[p] \in Objects
        /\ init[o] /\ init[p]
    BY <1>2, <1>8 DEF BothHeld, Holds, TwoValues
  <2>4. /\ slot' \in [Places -> Objects \cup {Raw}]
        /\ \A r \in Places \ {o, p} : slot'[r] = slot[r]
        /\ slot'[o] \in Objects /\ slot'[p] \in Objects
        /\ Strong => slot' = slot
    BY <1>4, <2>1, <2>3, SwapSwaps
  <2>5. /\ Kept(call.o)' /\ Kept(call.from)' /\ TwoValues'
    BY <1>2, <1>4, <2>3, <2>4 DEF Kept, HoldsSome, Alive, TwoValues
  <2> QED BY <1>4, <1>7, <2>2, <2>4, <2>5 DEF SwapFailed
<1>9. ASSUME NEW t \in Opts, NEW g \in Opts, OneValue(t, g), OneHeld(t, g),
             todo = IF useDefaultCtor THEN ByDefault(o, p, t, g)
                                      ELSE ByMove(t, g)
      PROVE  /\ slot' \in [Places -> Objects \cup {Raw}]
             /\ \A r \in Places \ {o, p} : slot'[r] = slot[r]
             /\ SwapFailed'
  <2>1. /\ t # g /\ {t, g} = {o, p} /\ t \in Places /\ g \in Places
        /\ Alive(t) /\ Alive(g) /\ ~init[t] /\ init[g]
        /\ slot[g] = before[g] /\ g # Arg
    BY <1>1, <1>2, <1>9, OneIsNotTheOther DEF OneHeld, HoldsNone, Holds, Empty
  <2>2. PICK s, how : /\ Head(todo) = Construct(t, s, how)
                      /\ \/ s = Arg /\ how = "copy" /\ useDefaultCtor
                         \/ s = g /\ how = "move" /\ ~useDefaultCtor
    BY <1>9, FiveStatements, HeadsAndTails DEF ByDefault, ByMove, DefaultT
  <2>3. /\ slot' \in [Places -> Objects \cup {Raw}]
        /\ \A r \in Places \ {t, g} : slot'[r] = slot[r]
        /\ slot'[g] \in Objects /\ slot'[t] = Raw
        /\ Strong => slot'[g] = slot[g]
    BY <1>1, <1>4, <1>9, <2>2, SwapConstructs
  <2>4. (IF useDefaultCtor THEN "default" ELSE "move") \in throwing
    BY <1>4, <2>1, <2>2, StmtReads DEF Asks
  <2>5. Kept(g)' /\ HoldsNone(t)'
    BY <1>4, <2>1, <2>3 DEF Kept, HoldsSome, HoldsNone, Empty, Alive
  <2> QED BY <1>4, <1>7, <1>9, <2>1, <2>3, <2>4, <2>5 DEF SwapFailed
<1>10. ASSUME NEW t \in Opts, NEW g \in Opts, OneValue(t, g), Handing(t, g)
       PROVE  /\ slot' \in [Places -> Objects \cup {Raw}]
              /\ \A r \in Places \ {o, p} : slot'[r] = slot[r]
              /\ SwapFailed'
  <2>1. CASE useDefaultCtor /\ AtDefaultSwap(t, g)
    <3>1. Head(todo) = SwapT(o, p)
      BY <1>2, <2>1, HeadsAndTails DEF AtDefaultSwap
    <3>2. /\ Alive(t) /\ Alive(g) /\ init[t] /\ init[g]
          /\ slot[t] = Unspec /\ slot[g] = before[g] /\ before[g] \in Objects
          /\ t \in Places /\ g \in Places
          /\ (t = o /\ g = p) \/ (t = p /\ g = o)
      BY <1>1, <1>2, <1>10, <2>1, OneIsNotTheOther
         DEF AtDefaultSwap, Holds, OneValue
    <3>3. /\ slot' \in [Places -> Objects \cup {Raw}]
          /\ \A r \in Places \ {o, p} : slot'[r] = slot[r]
          /\ slot'[o] \in Objects /\ slot'[p] \in Objects
          /\ Strong => slot' = slot
      BY <1>4, <1>7, <3>1, <3>2, SwapSwaps
    <3>4. "swap" \in throwing
      BY <1>4, <3>1, StmtReads DEF Asks
    <3>5. Kept(g)' /\ HoldsSome(t)' /\ (Strong => slot'[t] = Unspec)
      BY <1>4, <3>2, <3>3 DEF Kept, HoldsSome, Alive
    <3> QED BY <1>4, <1>7, <1>10, <2>1, <3>3, <3>4, <3>5 DEF SwapFailed
  <2>2. CASE AtGiverDestroy(t, g)
    BY <1>4, <2>2, HeadsAndTails, StmtFields DEF AtGiverDestroy
  <2>3. CASE AtDefaultEngage(t, g)
    BY <1>4, <2>3, HeadsAndTails, StmtFields DEF AtDefaultEngage
  <2>4. CASE AtMoveEngage(t, g)
    BY <1>4, <2>4, HeadsAndTails, StmtFields DEF AtMoveEngage
  <2>5. CASE AtGiverDisengage(t, g)
    BY <1>4, <2>5, HeadsAndTails, StmtFields DEF AtGiverDisengage
  <2> QED BY <1>4, <1>10, <2>1, <2>2, <2>3, <2>4, <2>5 DEF Handing, HandedOver
<1> QED BY <1>1, <1>4, <1>5, <1>8, <1>9, <1>10, SwapPoints

(* What a swap that is at its end leaves, and what its caller will see.    *)
LEMMA SwapAtEnd ==
    ASSUME Swaps, todo = <<>>, NEW o \in Opts, NEW p \in Opts, IsSwapOf(o, p)
    PROVE  \/ /\ outcome = "pending"
              /\ NoneHeld(o, p) \/ Exchanged
                 \/ \E t, g \in Opts : OneValue(t, g) /\ HandedOver(t, g)
           \/ outcome = "threw" /\ SwapFailed
<1>1. ~Running({"invoke_swap"})
  BY DEF Running
<1>2. CASE outcome = "pending"
  <2>1. <<SwapT(o, p)>> # <<>>
    BY HeadsAndTails
  <2>2. ASSUME NEW t \in Opts, NEW g \in Opts
        PROVE  /\ ByDefault(o, p, t, g) # <<>> /\ ByMove(t, g) # <<>>
               /\ Handing(t, g) => HandedOver(t, g)
    <3>1. ByDefault(o, p, t, g) # <<>> /\ ByMove(t, g) # <<>>
      BY FiveStatements, HeadsAndTails DEF ByDefault, ByMove
    <3>2. /\ ~AtDefaultEngage(t, g) /\ ~AtDefaultSwap(t, g)
          /\ ~AtMoveEngage(t, g)
          /\ ~AtGiverDestroy(t, g) /\ ~AtGiverDisengage(t, g)
      BY HeadsAndTails DEF AtDefaultEngage, AtDefaultSwap, AtMoveEngage,
                           AtGiverDestroy, AtGiverDisengage
    <3> QED BY <3>1, <3>2 DEF Handing
  <2> QED BY <1>1, <1>2, <2>1, <2>2, SwapPoints
<1> QED BY <1>2 DEF Swaps

(* Every optional is then calm, so that the call ends like any other.      *)
LEMMA SwapEndsCalm ==
    ASSUME Swaps, todo = <<>>
    PROVE  StageInv /\ \A r \in Opts : Calm(r)
<1>1. PICK o \in Opts, p \in Opts : IsSwapOf(o, p)
  BY DEF Swaps, SwapTypeOK, IsSwapOf
<1>2. /\ call.o = o /\ call.from = p /\ Raw \notin Objects
      /\ Alive(o) /\ Alive(p)
  BY <1>1, RawIsNoObject DEF IsSwapOf, Swaps
<1>3. \A r \in Opts \ {o, p} : Calm(r)
  BY <1>2, PlacesDiffer DEF Swaps, OthersAsBefore, AsBefore
<1>4. Calm(o) /\ Calm(p)
  <2>1. \A r : HoldsSome(r) \/ HoldsNone(r) => Calm(r)
    BY <1>2 DEF HoldsSome, HoldsNone, Calm, Full, Alive
  <2>2. \A r, x : Holds(r, x) /\ x \in Objects => Calm(r)
    BY <1>2 DEF Holds, Calm, Full, Alive
  <2>3. CASE NoneHeld(o, p)
    BY <2>1, <2>3 DEF NoneHeld
  <2>4. CASE Exchanged
    BY <1>2, <2>2, <2>4 DEF Exchanged, TwoValues
  <2>5. ASSUME NEW t \in Opts, NEW g \in Opts, OneValue(t, g), HandedOver(t, g)
        PROVE  Calm(o) /\ Calm(p)
    <3>1. before[g] \in Objects /\ Holds(t, before[g]) /\ HoldsNone(g)
      BY <2>5 DEF OneValue, HandedOver
    <3>2. Calm(t) /\ Calm(g)
      BY <2>1, <2>2, <3>1
    <3>3. (t = o /\ g = p) \/ (t = p /\ g = o)
      BY <1>1, <2>5, OneIsNotTheOther
    <3> QED BY <3>2, <3>3
  <2>6. CASE SwapFailed
    BY <1>1, <1>2, <2>1, <2>6, OneIsNotTheOther DEF SwapFailed, Kept
  <2> QED BY <1>1, <2>3, <2>4, <2>5, <2>6, SwapAtEnd
<1>5. \A r \in Opts : Calm(r)
  BY <1>3, <1>4
<1>6. outcome \in Outcomes /\ "swap" \in CallOps /\ "move" \in Hows
      /\ <<>> \in Seq(Stmts)
  BY DEF Swaps, Outcomes, CallOps, Hows
<1>7. TypeOK
  BY <1>6 DEF TypeOK, Swaps, SwapTypeOK
<1>8. OneAtATime
  BY <1>5 DEF OneAtATime, Calm, Building
<1>9. AtEnd
  BY <1>5, <1>7 DEF AtEnd, CalmBut, TypeOK
<1> QED BY <1>5, <1>7, <1>8, <1>9 DEF StageInv

(* What a caller sees of an optional that is alive.                        *)
LEMMA SeenAlive ==
    ASSUME NEW r \in Opts, Alive(r)
    PROVE  /\ Seen[r] = Shown(r)
           /\ init[r] => Seen[r] = slot[r]
           /\ ~init[r] => Seen[r] = None
<1>1. r # Arg /\ r \in Opts \cup {Arg} /\ life[r] = "alive"
  BY PlacesDiffer DEF Alive
<1>2. Seen[r] = CASE r = Arg -> slot[r]
                  [] r # Arg /\ life[r] = "absent" -> Absent
                  [] r # Arg /\ life[r] # "absent" /\ init[r] -> slot[r]
                  [] OTHER -> None
  BY <1>1 DEF Seen
<1>3. Shown(r) = IF init[r] THEN slot[r] ELSE None
  BY <1>1 DEF Shown, Engaged, Alive, Building
<1> QED BY <1>1, <1>2, <1>3

(* What the caller of swap sees of all else is what it saw before.         *)
LEMMA OthersSeen ==
    ASSUME NEW P, OthersAsBefore(P),
           \A r \in Opts : Calm(r)
    PROVE  \A r \in (Opts \cup {Arg}) \ P : Seen[r] = before[r]
<1> SUFFICES ASSUME NEW r \in (Opts \cup {Arg}) \ P PROVE Seen[r] = before[r]
  OBVIOUS
<1>1. Shown(r) = before[r]
  BY DEF OthersAsBefore, AsBefore
<1>2. CASE r = Arg
  BY <1>1, <1>2 DEF Seen, Shown
<1>3. CASE r # Arg /\ life[r] = "absent"
  <2>1. Shown(r) = Absent
    BY <1>3 DEF Shown, Building, Engaged, Alive
  <2>2. Seen[r] = Absent
    BY <1>3 DEF Seen
  <2> QED BY <1>1, <2>1, <2>2
<1>4. CASE r # Arg /\ life[r] = "alive"
  BY <1>1, <1>4, SeenAlive DEF Alive
<1> QED BY <1>2, <1>3, <1>4 DEF Calm

(* A function on the optionals and the argument is known by its values.    *)
LEMMA SeenIs ==
    ASSUME NEW f, f = [r \in Opts \cup {Arg} |-> f[r]],
           \A r \in Opts \cup {Arg} : Seen[r] = f[r]
    PROVE  Seen = f
  BY DEF Seen

(* What swap promises, of the state that it leaves to its caller.          *)
LEMMA SwapDelivers ==
    ASSUME Swaps, todo = <<>>
    PROVE  /\ outcome = "pending" =>
                Seen = [before EXCEPT ![call.o] = before[call.from],
                                      ![call.from] = before[call.o]]
           /\ outcome = "threw" =>
                /\ LET n == {p \in {call.o, call.from} : before[p] # None}
                   IN  throwing \cap
                          (CASE n = {call.o, call.from} -> {"swap"}
                             [] n # {call.o, call.from} /\ useDefaultCtor ->
                                   {"default", "swap"}
                             [] OTHER -> {"move"}) # {}
                /\ Strong =>
                     /\ \A r \in Opts :
                          \/ Seen[r] = before[r]
                          \/ /\ useDefaultCtor /\ "swap" \in throwing
                             /\ r \in {call.o, call.from}
                             /\ before[r] = None /\ Seen[r] = Unspec
                     /\ ~useDefaultCtor => Seen = before
<1>1. PICK o \in Opts, p \in Opts : IsSwapOf(o, p)
  BY DEF Swaps, SwapTypeOK, IsSwapOf
<1>2. /\ call.o = o /\ call.from = p /\ Alive(o) /\ Alive(p)
      /\ before = [r \in Opts \cup {Arg} |-> before[r]]
      /\ None \notin Objects
  BY <1>1, ObjectModelAssumption DEF IsSwapOf, Swaps, SwapTypeOK
<1>3. \A r \in (Opts \cup {Arg}) \ {o, p} : Seen[r] = before[r]
  BY <1>2, SwapEndsCalm, OthersSeen DEF Swaps
<1>4. ASSUME NEW r \in {o, p}
      PROVE  /\ \A x : Holds(r, x) => Seen[r] = x
             /\ HoldsNone(r) => Seen[r] = None
             /\ Kept(r) /\ Strong => Seen[r] = before[r]
             /\ HoldsSome(r) => Seen[r] = slot[r]
  BY <1>2, SeenAlive DEF Holds, HoldsNone, HoldsSome, Kept, Empty
<1>5. ASSUME outcome = "pending"
      PROVE  Seen = [before EXCEPT ![o] = before[p], ![p] = before[o]]
  <2> DEFINE f == [before EXCEPT ![o] = before[p], ![p] = before[o]]
  <2>1. /\ f = [r \in Opts \cup {Arg} |-> f[r]]
        /\ f[o] = before[p] /\ f[p] = before[o]
        /\ \A r \in (Opts \cup {Arg}) \ {o, p} : f[r] = before[r]
    BY <1>2
  <2>2. Seen[o] = before[p] /\ Seen[p] = before[o]
    <3>1. CASE NoneHeld(o, p)
      BY <1>4, <3>1 DEF NoneHeld
    <3>2. CASE Exchanged
      BY <1>2, <1>4, <3>2 DEF Exchanged
    <3>3. ASSUME NEW t \in Opts, NEW g \in Opts, OneValue(t, g),
                 HandedOver(t, g)
          PROVE  Seen[o] = before[p] /\ Seen[p] = before[o]
      <4>1. (t = o /\ g = p) \/ (t = p /\ g = o)
        BY <1>1, <3>3, OneIsNotTheOther
      <4>2. /\ Holds(t, before[g]) /\ HoldsNone(g) /\ before[t] = None
        BY <3>3 DEF HandedOver, OneValue
      <4>3. Seen[t] = before[g] /\ Seen[g] = before[t]
        BY <1>4, <4>1, <4>2
      <4> QED BY <4>1, <4>3
    <3> QED BY <1>1, <1>5, <3>1, <3>2, <3>3, SwapAtEnd
  <2> HIDE DEF f
  <2>3. \A r \in Opts \cup {Arg} : Seen[r] = f[r]
    BY <1>3, <2>1, <2>2
  <2>4. Seen = f
    BY <2>1, <2>3, SeenIs
  <2> QED BY <2>4 DEF f
<1>6. ASSUME outcome = "threw"
      PROVE  /\ LET n == {r \in {o, p} : before[r] # None}
                IN  throwing \cap
                       (CASE n = {o, p} -> {"swap"}
                          [] n # {o, p} /\ useDefaultCtor ->
                                {"default", "swap"}
                          [] OTHER -> {"move"}) # {}
             /\ Strong =>
                  /\ \A r \in Opts :
                       \/ Seen[r] = before[r]
                       \/ /\ useDefaultCtor /\ "swap" \in throwing
                          /\ r \in {o, p}
                          /\ before[r] = None /\ Seen[r] = Unspec
                  /\ ~useDefaultCtor => Seen = before
  <2> DEFINE n == {r \in {o, p} : before[r] # None}
  <2>1. SwapFailed
    BY <1>6 DEF Swaps
  <2>2. CASE TwoValues /\ Kept(o) /\ Kept(p) /\ "swap" \in throwing
    <3>1. n = {o, p}
      BY <1>2, <2>2 DEF TwoValues
    <3>2. ASSUME Strong PROVE \A r \in Opts \cup {Arg} : Seen[r] = before[r]
      BY <1>3, <1>4, <2>2, <3>2
    <3> HIDE DEF n
    <3>3. ASSUME Strong PROVE Seen = before
      BY <1>2, <3>2, <3>3, SeenIs
    <3>4. throwing \cap
                       (CASE n = {o, p} -> {"swap"}
                          [] n # {o, p} /\ useDefaultCtor ->
                                {"default", "swap"}
                          [] OTHER -> {"move"}) # {}
      BY <2>2, <3>1
    <3> QED BY <3>2, <3>3, <3>4 DEF n
  <2>3. ASSUME NEW t \in Opts, NEW g \in Opts, OneValue(t, g), Kept(g),
               \/ /\ HoldsNone(t)
                  /\ (IF useDefaultCtor THEN "default" ELSE "move") \in throwing
               \/ /\ HoldsSome(t) /\ (Strong => slot[t] = Unspec)
                  /\ useDefaultCtor /\ "swap" \in throwing
        PROVE  /\ throwing \cap
                       (CASE n = {o, p} -> {"swap"}
                          [] n # {o, p} /\ useDefaultCtor ->
                                {"default", "swap"}
                          [] OTHER -> {"move"}) # {}
               /\ Strong =>
                  /\ \A r \in Opts :
                       \/ Seen[r] = before[r]
                       \/ /\ useDefaultCtor /\ "swap" \in throwing
                          /\ r \in {o, p}
                          /\ before[r] = None /\ Seen[r] = Unspec
                  /\ ~useDefaultCtor => Seen = before
    <3>1. (t = o /\ g = p) \/ (t = p /\ g = o)
      BY <1>1, <2>3, OneIsNotTheOther
    <3>2. before[t] = None
      BY <2>3 DEF OneValue
    <3>3. n # {o, p}
      <4>1. t \notin n /\ t \in {o, p}
        BY <3>1, <3>2
      <4> QED BY <4>1
    <3> HIDE DEF n
    <3>4. throwing \cap
                       (CASE n = {o, p} -> {"swap"}
                          [] n # {o, p} /\ useDefaultCtor ->
                                {"default", "swap"}
                          [] OTHER -> {"move"}) # {}
      <4>1. CASE useDefaultCtor
        BY <2>3, <3>3, <4>1
      <4>2. CASE ~useDefaultCtor
        BY <2>3, <3>3, <4>2
      <4> QED BY <4>1, <4>2
    <3>5. ASSUME Strong
          PROVE  /\ Seen[g] = before[g]
                 /\ \/ Seen[t] = before[t]
                    \/ useDefaultCtor /\ "swap" \in throwing /\ Seen[t] = Unspec
      BY <1>4, <2>3, <3>1, <3>2, <3>5
    <3>6. ASSUME Strong
          PROVE  \A r \in Opts :
                       \/ Seen[r] = before[r]
                       \/ /\ useDefaultCtor /\ "swap" \in throwing
                          /\ r \in {o, p}
                          /\ before[r] = None /\ Seen[r] = Unspec
      BY <1>3, <3>1, <3>2, <3>5, <3>6
    <3>7. ASSUME Strong, ~useDefaultCtor PROVE Seen = before
      <4>1. \A r \in Opts \cup {Arg} : Seen[r] = before[r]
        BY <1>3, <3>1, <3>5, <3>7
      <4> QED BY <1>2, <4>1, SeenIs
    <3> QED BY <3>4, <3>6, <3>7
  <2> HIDE DEF n
  <2>4. QED BY <1>2, <2>1, <2>2, <2>3 DEF SwapFailed, n
<1> QED BY <1>2, <1>5, <1>6

(* The end of a swap: the caller sees what the last statement left.        *)
LEMMA ReturnKeepsSwap ==
    ASSUME Swaps, Return, UNCHANGED <<sealed, traits>>
    PROVE  Swapped'
<1>1. /\ todo = <<>> /\ busy' = FALSE /\ call' = call /\ before' = before
      /\ outcome' = IF outcome = "pending" THEN "returned" ELSE outcome
      /\ outcome \in {"pending", "threw"}
      /\ life' = [o \in Opts |-> IF Gone(o) THEN "absent"
                                 ELSE IF life[o] \in Building THEN "alive"
                                 ELSE life[o]]
      /\ init' = [o \in Opts |-> init[o] /\ ~Gone(o)]
      /\ slot' = [p \in Places |-> IF p \in Opts /\ Trivial /\ Gone(p)
                                   THEN Raw ELSE slot[p]]
      /\ UNCHANGED traits
  BY DEF Return, Swaps
<1>2. StageInv /\ \A r \in Opts : Calm(r)
  BY <1>1, SwapEndsCalm
<1>3. \A r \in Opts : ~Gone(r) /\ life[r] \notin Building
  BY <1>2 DEF Calm, Gone, Building
<1>4. /\ life \in [Opts -> Lives] /\ init \in [Opts -> BOOLEAN]
      /\ slot \in [Places -> Objects \cup {Raw}]
      /\ call.op = "swap"
  BY DEF Swaps, SwapTypeOK
<1>5. life' = life
  <2>1. life' = [o \in Opts |-> life[o]]
    BY <1>1, <1>3
  <2> QED BY <1>4, <2>1
<1>6. slot' = slot
  <2>1. slot' = [p \in Places |-> slot[p]]
    BY <1>1, <1>3
  <2> QED BY <1>4, <2>1
<1>7. init' = init
  <2>1. init' \in [Opts -> BOOLEAN] /\ \A r \in Opts : init'[r] = init[r]
    BY <1>1, <1>3, <1>4, Zenon
  <2> QED BY <1>4, <2>1
<1>8. Seen' = Seen
  BY <1>5, <1>6, <1>7 DEF Seen
<1>9. StageInv'
  BY <1>2, ReturnKeepsStage
<1>10. CASE outcome = "pending"
  <2>1. SwapExchanges'
    BY <1>1, <1>8, <1>10, SwapDelivers DEF SwapExchanges, SwapEnded
  <2>2. outcome' = "returned"
    BY <1>1, <1>10
  <2> QED BY <1>1, <1>9, <2>1, <2>2
          DEF Swapped, SwapThrowsOnlyWhatItUses, ThrowingSwapLosesNothing,
              StrongButForOldSwap, StrongGuaranteeLifts, SwapEnded
<1>11. CASE outcome = "threw"
  <2>1. outcome' = "threw" /\ throwing' = throwing
        /\ useDefaultCtor' = useDefaultCtor
    BY <1>1, <1>11 DEF traits
  <2>2. SwapThrowsOnlyWhatItUses'
    BY <1>1, <1>11, <2>1, SwapDelivers DEF SwapThrowsOnlyWhatItUses, SwapEnded
  <2>3. ThrowingSwapLosesNothing'
    BY <1>1, <1>8, <1>11, <2>1, SwapDelivers
       DEF ThrowingSwapLosesNothing, SwapEnded
  <2>4. StrongButForOldSwap'
    BY <1>1, <1>4, <1>8, <1>11, <2>1, SwapDelivers
       DEF StrongButForOldSwap, StrongGuaranteeLifts
  <2>5. SwapExchanges'
    BY <2>1 DEF SwapExchanges, SwapEnded
  <2> QED BY <1>1, <1>9, <2>2, <2>3, <2>4, <2>5 DEF Swapped
<1> QED BY <1>1, <1>10, <1>11

(* A call of swap starts with the dispatch, and with all optionals calm.   *)
LEMMA SwapStarts ==
    ASSUME StageInv, Swapping
    PROVE  Swaps' /\ call'.op = "swap"
<1>1. PICK o \in Opts, p \in Opts :
        /\ Alive(p)
        /\ BeginOn("swap", o, p, "move", <<InvokeSwap(o, p)>>)
  BY DEF Swapping, CallFreeSwap, CallMemberSwap
<1>2. /\ Alive(o) /\ Alive(p) /\ ~busy /\ busy' = TRUE
      /\ call' = [op |-> "swap", o |-> o, from |-> p, how |-> "move"]
      /\ todo' = <<InvokeSwap(o, p)>> /\ outcome' = "pending"
      /\ UNCHANGED <<life, init>>
      /\ \E x \in (IF p = Arg THEN Values ELSE {Unspec}) :
            /\ slot' = [slot EXCEPT ![Arg] = x, ![Ret] = Raw, ![Tmp] = Raw]
            /\ before' = [Seen EXCEPT ![Arg] = x]
  BY <1>1 DEF BeginOn, Begin, BeginWith
<1>3. /\ slot' = [slot EXCEPT ![Arg] = Unspec, ![Ret] = Raw, ![Tmp] = Raw]
      /\ before' = [Seen EXCEPT ![Arg] = Unspec]
  BY <1>2, PlacesDiffer
<1>4. /\ life \in [Opts -> Lives] /\ init \in [Opts -> BOOLEAN]
      /\ slot \in [Places -> Objects \cup {Raw}] /\ slot[Arg] # Raw
      /\ outcome \in Outcomes
  BY DEF StageInv, TypeOK
<1>5. \A r \in Opts : Calm(r)
  <2>1. AtEnd
    BY <1>2 DEF StageInv, InProgress
  <2> QED BY <1>2, <2>1 DEF AtEnd, CalmBut
<1>6. /\ slot' \in [Places -> Objects \cup {Raw}] /\ slot'[Arg] = Unspec
      /\ \A r \in Opts : slot'[r] = slot[r]
      /\ Unspec \in Objects
  BY <1>3, <1>4, PlacesDiffer, RawIsNoObject
<1>7. Seen \in [Opts \cup {Arg} -> Objects \cup {None, Absent}]
  <2>1. ASSUME NEW r \in Opts \cup {Arg}
        PROVE  Seen[r] \in Objects \cup {None, Absent}
    <3>1. CASE r = Arg
      BY <1>4, <3>1, PlacesDiffer DEF Seen
    <3>2. CASE r \in Opts /\ life[r] = "absent"
      BY <3>2, PlacesDiffer DEF Seen
    <3>3. CASE r \in Opts /\ life[r] = "alive"
      <4>1. init[r] => slot[r] \in Objects
        BY <1>4, <1>5, <3>3, PlacesDiffer DEF Calm, Empty, Full
      <4> QED BY <3>3, <4>1, SeenAlive DEF Alive
    <3> QED BY <1>5, <2>1, <3>1, <3>2, <3>3 DEF Calm
  <2> QED BY <2>1 DEF Seen
<1>8. /\ before' \in [Opts \cup {Arg} -> Objects \cup {None, Absent}]
      /\ before'[Arg] = Unspec /\ \A r \in Opts : before'[r] = Seen[r]
  BY <1>3, <1>6, <1>7, PlacesDiffer
<1>9. SwapTypeOK'
  BY <1>2, <1>4, <1>6, <1>8, RawIsNoObject DEF SwapTypeOK
<1>10. OthersAsBefore({})'
  <2>1. ASSUME NEW r \in Opts
        PROVE  Shown(r)' = before'[r] /\ Calm(r)'
    <3>1. Calm(r)'
      BY <1>2, <1>5, <1>6 DEF Calm, Empty, Full
    <3>2. r # Arg /\ life'[r] = life[r] /\ init'[r] = init[r]
          /\ slot'[r] = slot[r] /\ before'[r] = Seen[r]
      BY <1>2, <1>6, <1>8, PlacesDiffer
    <3>3. Shown(r)' = Shown(r)
      BY <3>2 DEF Shown, Engaged, Alive
    <3>4. CASE life[r] = "alive"
      BY <3>1, <3>2, <3>3, <3>4, SeenAlive DEF Alive
    <3>5. CASE life[r] = "absent"
      <4>1. Shown(r) = Absent
        BY <3>2, <3>5 DEF Shown, Building, Engaged, Alive
      <4>2. Seen[r] = Absent
        BY <3>2, <3>5 DEF Seen
      <4> QED BY <3>1, <3>2, <3>3, <4>1, <4>2
    <3> QED BY <1>5, <3>4, <3>5 DEF Calm
  <2>2. Shown(Arg)' = before'[Arg]
    BY <1>6, <1>8 DEF Shown
  <2> QED BY <2>1, <2>2 DEF OthersAsBefore, AsBefore
<1>11. Starting'
  BY <1>2, <1>10 DEF Starting
<1>12. OthersAsBefore({call.o, call.from})'
  BY <1>10 DEF OthersAsBefore
<1> QED BY <1>2, <1>8, <1>9, <1>11, <1>12 DEF Swaps, Alive

------------------------------------------------------------------------------
(* A call starts only where none is in progress.                           *)
LEMMA CallsStartIdle ==
    ASSUME OtherCall \/ Swapping
    PROVE  ~busy
<1>1. CASE Construction
  BY <1>1 DEF Construction, DefaultCtor, ValueCtor, FactoryCtor,
     ConditionalCtor, CopyCtor, ConvertingCtor, BeginCtor, Begin, BeginWith
<1>2. CASE Modification
  <2>1. ASSUME NEW o \in Opts, NEW p \in Opts, NEW how \in Hows,
               \/ AssignOptional(o, p, how) \/ AssignConverting(o, p, how)
               \/ AssignExpr(o, how) \/ Swap(o, p) \/ Reset(o) \/ Dtor(o)
        PROVE  ~busy
    BY <2>1 DEF Reset, AssignOptional, AssignConverting, AssignExpr, Swap,
                Dtor, BeginOn, Begin, BeginWith
  <2>2. ASSUME NEW o \in Opts, NEW s \in Sources, NEW how \in Hows,
               \/ AssignValue(o, s, how) \/ Emplace(o, s, how)
               \/ AssignFactory(o, s, how)
        PROVE  ~busy
    BY <2>2 DEF AssignValue, Emplace, AssignFactory, BeginOn, Begin, BeginWith
  <2>3. \E p \in Opts : TRUE
    BY ObjectModelAssumption
  <2> QED BY <1>2, <2>1, <2>2, <2>3 DEF Modification
<1>3. CASE Observation
  BY <1>3 DEF Observation, Value, ValueOr, BeginOn, Begin, BeginWith
<1>4. CASE Swapping
  BY <1>4 DEF Swapping, CallFreeSwap, CallMemberSwap, BeginOn, Begin, BeginWith
<1> QED BY <1>1, <1>2, <1>3, <1>4 DEF OtherCall

(* Between calls the optionals are as every call needs them.               *)
LEMMA IdleIsStaged ==
    ASSUME SwapInv, outcome # "terminated", ~busy
    PROVE  StageInv
  BY DEF SwapInv, Swaps, Swapped, IInv

(* The invariant across each kind of step.                                 *)
LEMMA OtherCallKeepsSwapInv ==
    ASSUME SwapInv, outcome # "terminated", OtherCall
    PROVE  SwapInv'
<1>1. StageInv
  BY CallsStartIdle, IdleIsStaged
<1>2. IInv' /\ call'.op # "swap"
  BY <1>1, ConstructionKeeps, ModificationKeeps, ObservationKeeps DEF OtherCall
<1> QED BY <1>2 DEF SwapInv

LEMMA SwappingKeepsSwapInv ==
    ASSUME SwapInv, outcome # "terminated", Swapping
    PROVE  SwapInv'
<1>1. StageInv
  BY CallsStartIdle, IdleIsStaged
<1> QED BY <1>1, SwapStarts DEF SwapInv

(* The steps of a call other than swap are those of OptionalBase.          *)
LEMMA OtherStepsKeepSwapInv ==
    ASSUME call.op # "swap", IInv, SwapSteps, outcome # "terminated"
    PROVE  SwapInv'
<1>1. CASE RunT \/ RunFlag \/ Return
  <2>1. IInv' /\ call' = call
    BY <1>1, RunTKeeps, RunFlagKeeps, ReturnKeeps DEF RunT, RunFlag, Return
  <2> QED BY <2>1 DEF SwapInv
<1>2. CASE RunInvokeSwap
  <2>1. todo # <<>> /\ Head(todo).do = "invoke_swap" /\ TypeOK
    BY <1>2 DEF RunInvokeSwap, Running, IInv, StageInv
  <2>2. Head(todo) \in Stmts
    BY <2>1, TodoParts
  <2> QED BY <2>1, <2>2 DEF Stmts, TOps
<1>3. CASE ThrowOut
  <2>1. Throw
    BY <1>3 DEF ThrowOut
  <2>2. IInv' /\ call' = call
    BY <2>1, ThrowUnwindsNothing, ThrowKeeps DEF Throw, ThrowT
  <2> QED BY <2>2 DEF SwapInv
<1>4. CASE Terminate
  BY <1>4 DEF Terminate, SwapInv
<1> QED BY <1>1, <1>2, <1>3, <1>4 DEF SwapSteps

(* Those of swap lead from one of its points to the next, or to its end.   *)
LEMMA SwapStepsKeepSwapInv ==
    ASSUME call.op = "swap", Swaps, SwapSteps
    PROVE  SwapInv'
<1>1. CASE (RunT \/ RunFlag) /\ UNCHANGED <<sealed, traits>>
  <2>1. Swaps' /\ call' = call
    BY <1>1, RunTKeepsSwap, RunFlagKeepsSwap DEF RunT, RunFlag
  <2> QED BY <2>1 DEF SwapInv
<1>2. CASE Return /\ UNCHANGED <<sealed, traits>>
  <2>1. Swapped' /\ call' = call
    BY <1>2, ReturnKeepsSwap DEF Return
  <2> QED BY <2>1 DEF SwapInv
<1>3. CASE RunInvokeSwap
  <2>1. Swaps' /\ call' = call
    BY <1>3, DispatchKeeps DEF RunInvokeSwap
  <2> QED BY <2>1 DEF SwapInv
<1>4. CASE ThrowOut
  <2>1. Swaps' /\ call' = call
    BY <1>4, ThrowKeepsSwap DEF ThrowOut, Throw, ThrowT
  <2> QED BY <2>1 DEF SwapInv
<1>5. CASE Terminate
  BY <1>5 DEF Terminate, SwapInv
<1> QED BY <1>1, <1>2, <1>3, <1>4, <1>5 DEF SwapSteps

(* A program that does nothing stays where it is.                          *)
LEMMA StutterKeepsSwaps ==
    ASSUME Swaps, UNCHANGED svars
    PROVE  Swaps'
<1>1. UNCHANGED <<life, init, slot, todo, busy, call, outcome, before, traits,
                  useDefaultCtor, throwing>>
  BY DEF svars, vars, traits
<1>2. PICK o \in Opts, p \in Opts : IsSwapOf(o, p)
  BY DEF Swaps, SwapTypeOK, IsSwapOf
<1>3. /\ slot' \in [Places -> Objects \cup {Raw}] /\ init' \in [Opts -> BOOLEAN]
  BY <1>1 DEF Swaps, SwapTypeOK
<1>4. Starting => Starting'
  BY <1>1 DEF Starting, FreeSwap, SwapByDefault, SwapByMove, DestroyIn,
     OthersAsBefore, AsBefore, Shown, Engaged, Alive, Calm, Empty, Full
<1>5. Exchanged => Exchanged'
  BY <1>1 DEF Exchanged, TwoValues, Holds, Alive
<1>6. ASSUME NEW t \in Opts, NEW g \in Opts, OneValue(t, g), Handing(t, g)
      PROVE  OneValue(t, g)' /\ Handing(t, g)'
  <2>1. OneValue(t, g)'
    BY <1>1, <1>6 DEF OneValue
  <2>2. /\ AtDefaultEngage(t, g) => AtDefaultEngage(t, g)'
        /\ AtDefaultSwap(t, g) => AtDefaultSwap(t, g)'
        /\ AtMoveEngage(t, g) => AtMoveEngage(t, g)'
        /\ AtGiverDestroy(t, g) => AtGiverDestroy(t, g)'
        /\ AtGiverDisengage(t, g) => AtGiverDisengage(t, g)'
        /\ HandedOver(t, g) => HandedOver(t, g)'
    BY <1>1 DEF AtDefaultEngage, AtDefaultSwap, AtMoveEngage, AtGiverDestroy,
                AtGiverDisengage, HandedOver, Holds, HoldsSome, HoldsNone,
                Unflagged, Empty, Alive
  <2> QED BY <1>1, <1>6, <2>1, <2>2 DEF Handing
<1>7. SwapFailed => SwapFailed'
  BY <1>1 DEF SwapFailed, TwoValues, OneValue, Kept, HoldsSome, HoldsNone,
     Empty, Alive
<1>8. \/ /\ outcome' = "pending"
         /\ \/ Starting' \/ Exchanged'
            \/ \E t, g \in Opts : OneValue(t, g)' /\ Handing(t, g)'
      \/ outcome' = "threw" /\ SwapFailed'
  BY <1>1, <1>4, <1>5, <1>6, <1>7 DEF Swaps
<1> QED BY <1>1, <1>2, <1>3, <1>8, PlacesDiffer, SwapFrame

LEMMA StutterKeepsSwapInv ==
    ASSUME SwapInv, UNCHANGED svars
    PROVE  SwapInv'
<1>1. /\ UNCHANGED vars /\ call' = call /\ outcome' = outcome
      /\ UNCHANGED <<life, init, slot, busy, before, useDefaultCtor, throwing>>
  BY DEF svars, vars, traits
<1>2. CASE call.op # "swap" /\ IInv
  BY <1>1, <1>2, StutterKeeps DEF SwapInv
<1>3. CASE call.op = "swap" /\ Swaps
  BY <1>1, <1>3, StutterKeepsSwaps DEF SwapInv
<1>4. ASSUME Swapped PROVE Swapped'
  <2>1. StageInv'
    BY <1>1, <1>4, StutterKeepsStage DEF Swapped
  <2>2. Seen' = Seen
    BY <1>1 DEF Seen
  <2>3. SwapExchanges' /\ SwapThrowsOnlyWhatItUses'
    BY <1>1, <1>4, <2>2
       DEF Swapped, SwapExchanges, SwapThrowsOnlyWhatItUses, SwapEnded
  <2>4. ThrowingSwapLosesNothing' /\ StrongButForOldSwap'
    BY <1>1, <1>4, <2>2
       DEF Swapped, ThrowingSwapLosesNothing, StrongButForOldSwap,
           StrongGuaranteeLifts, SwapEnded
  <2> QED BY <1>1, <1>4, <2>1, <2>3, <2>4 DEF Swapped
<1> QED BY <1>1, <1>2, <1>3, <1>4 DEF SwapInv

LEMMA StepKeepsSwapInv == SwapInv /\ [SwapNext]_svars => SwapInv'
<1> SUFFICES ASSUME SwapInv, [SwapNext]_svars PROVE SwapInv'
  OBVIOUS
<1>1. CASE UNCHANGED svars
  BY <1>1, StutterKeepsSwapInv
<1>2. CASE outcome # "terminated" /\ (OtherCall \/ Swapping)
  BY <1>2, OtherCallKeepsSwapInv, SwappingKeepsSwapInv
<1>3. CASE outcome # "terminated" /\ SwapSteps
  <2>1. busy
    BY <1>3 DEF SwapSteps, RunT, RunFlag, Return, RunInvokeSwap, ThrowOut,
                Throw, ThrowT, Terminate, Running
  <2> QED BY <1>3, <2>1, OtherStepsKeepSwapInv, SwapStepsKeepSwapInv
          DEF SwapInv, Swapped
<1> QED BY <1>1, <1>2, <1>3 DEF SwapNext

(* What the fallback has about its calls, with the dispatch of swap and    *)
(* both its implementations, and what swap has promised when it is over.   *)
THEOREM SwapInvariant == SwapSpec => []SwapInv
<1>1. SwapInit => SwapInv
  <2>1. ASSUME SwapInit PROVE IInv /\ call.op = "none"
    BY <2>1, InitKeeps DEF SwapInit, InitObjects
  <2> QED BY <2>1 DEF SwapInv
<1> QED BY <1>1, StepKeepsSwapInv, PTL DEF SwapSpec

LEMMA SwapPropertiesFollow ==
    SwapInv => /\ SwapExchanges /\ SwapThrowsOnlyWhatItUses
               /\ ThrowingSwapLosesNothing /\ StrongButForOldSwap
<1> SUFFICES ASSUME SwapInv
             PROVE  /\ SwapExchanges /\ SwapThrowsOnlyWhatItUses
                    /\ ThrowingSwapLosesNothing /\ StrongButForOldSwap
  OBVIOUS
<1>1. CASE outcome = "terminated"
  BY <1>1 DEF SwapExchanges, SwapThrowsOnlyWhatItUses, SwapEnded,
              ThrowingSwapLosesNothing, StrongButForOldSwap,
              StrongGuaranteeLifts
<1>2. CASE call.op # "swap" /\ IInv
  BY <1>2 DEF SwapExchanges, SwapThrowsOnlyWhatItUses, SwapEnded,
              ThrowingSwapLosesNothing, StrongButForOldSwap, IInv, PromiseInv
<1>3. CASE busy
  BY <1>3 DEF SwapExchanges, SwapThrowsOnlyWhatItUses, SwapEnded,
              ThrowingSwapLosesNothing, StrongButForOldSwap,
              StrongGuaranteeLifts
<1> QED BY <1>1, <1>2, <1>3 DEF SwapInv, Swaps, Swapped

(* A swap that returns has exchanged what the two optionals held, with or  *)
(* without values, by either implementation and also of one with itself;   *)
(* swap_selector never leaves a value in both or in neither.               *)
THEOREM SwapIsAnExchange == SwapSpec => []SwapExchanges
  BY SwapInvariant, SwapPropertiesFollow, PTL

(* Swap throws only where an operation of T throws that it is documented   *)
(* to use; which one depends on what was held and on the implementation.   *)
THEOREM SwapThrowsOnlyThat == SwapSpec => []SwapThrowsOnlyWhatItUses
  BY SwapInvariant, SwapPropertiesFollow, PTL

(* A swap that throws loses no value if the operations of T that throw     *)
(* lose none, at whichever step of swap_selector that happens.             *)
THEOREM SwapLosesNothing == SwapSpec => []ThrowingSwapLosesNothing
  BY SwapInvariant, SwapPropertiesFollow, PTL

(* If the operations of T are strong, so is swap by moves, like all calls  *)
(* of the fallback but those that StrengthIsKept excepts; the swap for old *)
(* compilers, which emplaces a default T first, is not.                    *)
THEOREM StrongButForOneSwap == SwapSpec => []StrongButForOldSwap
  BY SwapInvariant, SwapPropertiesFollow, PTL
==============================================================================
