-------------------------- MODULE OptionalRef_proofs --------------------------
(***************************************************************************)
(* Proofs about OptionalRef and OptionalMonadic, for any number of         *)
(* optionals, of references to their values and of nested callbacks.  What *)
(* is done to a T through a reference is what a call on its optional may   *)
(* do, so the invariant of the owners holds next to the references; and it *)
(* makes the flag that a reference is bound by tell the truth whenever     *)
(* code can bind one.  The argument of a callback is one more reference.   *)
(***************************************************************************)
EXTENDS OptionalMonadic, UnionOptional_proofs

(* What the program can name as a T holds one, when the program, or code   *)
(* of T, runs.                                                             *)
LEMMA NamedLives ==
  ASSUME IInv, UserCode, NEW s \in Sources
  PROVE  s \in Opts \cup {Arg} /\ slot[s] # Raw
<1>1. s \in Opts \cup {Arg} /\ (s = Arg \/ Engaged(s))
  BY DEF Sources
<1>2. CASE s = Arg
  BY <1>2 DEF IInv, StageInv, TypeOK
<1>3. CASE s # Arg
  <2>1. s \in Opts /\ Alive(s) /\ init[s]
    BY <1>1, <1>3 DEF Engaged
  <2>2. slot[s] # Raw \/ Pending({"disengage"}, s)
    BY <2>1, PropertiesFollow DEF FlagTellsTheTruth, Alive
  <2>3. CASE Running(TOps)
    <3>1. Head(todo).do # "disengage"
      BY <2>3 DEF Running, TOps
    <3>2. ~Pending({"disengage"}, s)
      BY <3>1 DEF Pending
    <3> QED BY <1>1, <2>2, <3>2
  <2>4. CASE ~busy
    <3>1. todo = <<>>
      BY <2>4 DEF IInv, StageInv, AtEnd, InProgress
    <3> QED BY <1>1, <2>2, <3>1 DEF Pending
  <2> QED BY <2>3, <2>4 DEF UserCode
<1> QED BY <1>2, <1>3

(* Between calls storage that holds a T belongs to an engaged optional.    *)
LEMMA LiveIsEngaged ==
  ASSUME IInv, ~busy, ~Trivial, NEW o \in Opts, slot[o] # Raw
  PROVE  Engaged(o)
<1>1. todo = <<>> /\ life[o] \in Lives
  BY DEF IInv, StageInv, AtEnd, InProgress, TypeOK
<1>2. life[o] # "absent"
  BY PropertiesFollow DEF NothingLeaks
<1>3. life[o] \notin Building \cup {"dying"}
  BY DEF IInv, StageInv, OneAtATime
<1>4. life[o] = "alive"
  BY <1>1, <1>2, <1>3 DEF Lives
<1> QED BY <1>1, <1>4, PropertiesFollow
        DEF FlagTellsTheTruth, Pending, Engaged, Alive

------------------------------------------------------------------------------
(* The references' part of the invariant: a reference to a T that lives    *)
(* refers to storage that holds one.                                       *)
RefLive(r) == same[r] => ref[r] # Null /\ slot[ref[r]] # Raw

RInv == IInv /\ RefTypeOK /\ \A r \in Refs : RefLive(r)

LEMMA NullIsNoPlace == Null \notin Opts \cup {Arg}
  BY OptionalRefAssumption DEF Places

LEMMA RefStart == RefInit => RInv
<1> SUFFICES ASSUME RefInit PROVE RInv
  OBVIOUS
<1>1. IInv
  BY InitKeeps DEF RefInit
<1> QED BY <1>1 DEF RefInit, RInv, RefTypeOK, RefLive

(* Binding keeps the invariant, if what the reference is bound to lives.   *)
LEMMA RebindKeeps ==
  ASSUME RInv, NEW r \in Refs, NEW place \in Opts \cup {Arg, Null},
         NEW lives \in BOOLEAN, lives => place # Null /\ slot[place] # Raw,
         Rebind(r, place, lives)
  PROVE  RInv'
<1>1. IInv'
  BY StutterKeeps DEF RInv, Rebind
<1>2. /\ ref' = [ref EXCEPT ![r] = place]
      /\ same' = [same EXCEPT ![r] = lives]
      /\ slot' = slot
  BY DEF Rebind, vars
<1>3. RefTypeOK'
  BY <1>2 DEF RInv, RefTypeOK
<1>4. ASSUME NEW q \in Refs PROVE RefLive(q)'
  <2>1. CASE q = r
    BY <1>2, <2>1 DEF RefLive, RInv, RefTypeOK
  <2>2. CASE q # r
    BY <1>2, <2>2 DEF RefLive, RInv, RefTypeOK
  <2> QED BY <2>1, <2>2
<1> QED BY <1>1, <1>3, <1>4 DEF RInv

LEMMA RefSwapKeeps ==
  ASSUME RInv, NEW r \in Refs, NEW q \in Refs, RefSwap(r, q)
  PROVE  RInv'
<1>1. IInv'
  BY StutterKeeps DEF RInv, RefSwap
<1>2. /\ ref' = [ref EXCEPT ![r] = ref[q], ![q] = ref[r]]
      /\ same' = [same EXCEPT ![r] = same[q], ![q] = same[r]]
      /\ slot' = slot
  BY DEF RefSwap, vars
<1>3. RefTypeOK'
  BY <1>2 DEF RInv, RefTypeOK
<1>4. ASSUME NEW x \in Refs PROVE RefLive(x)'
  <2> DEFINE y == IF x = q THEN r ELSE IF x = r THEN q ELSE x
  <2>1. ref'[x] = ref[y] /\ same'[x] = same[y] /\ y \in Refs
    BY <1>2 DEF RInv, RefTypeOK
  <2>2. RefLive(y)
    BY <2>1 DEF RInv
  <2> HIDE DEF y
  <2> QED BY <1>2, <2>1, <2>2 DEF RefLive
<1> QED BY <1>1, <1>3, <1>4 DEF RInv

(* Every operation of optional<T&> keeps the invariant. *)
LEMMA RefStepKeeps == RInv /\ RefStep => RInv'
<1> SUFFICES ASSUME RInv, NEW r \in Refs,
               \/ RefNone(r)
               \/ \E q \in Refs : RefCopy(r, q) \/ RefSwap(r, q)
               \/ \E s \in Sources : \/ RefBind(r, s)
                                     \/ \E b \in BOOLEAN : RefBindIf(r, b, s)
                                     \/ \E q \in Refs : RefFromValueOr(r, q, s)
                                     \/ \E o \in Opts : RefFromOwnerOr(r, o, s)
               \/ \E o \in Opts : RefFromOwner(r, o) \/ PtrFromOwner(r, o)
             PROVE RInv'
  BY DEF RefStep, RefStepOf
<1>1. ASSUME RefNone(r) PROVE RInv'
  BY <1>1, RebindKeeps DEF RefNone
<1>2. ASSUME NEW s \in Sources, RefBind(r, s) PROVE RInv'
  <2>1. UserCode
    BY <1>2 DEF RefBind, Rebind
  <2> QED BY <1>2, <2>1, NamedLives, NullIsNoPlace, RebindKeeps
          DEF RefBind, RInv
<1>3. ASSUME NEW s \in Sources, NEW b \in BOOLEAN, RefBindIf(r, b, s)
      PROVE  RInv'
  BY <1>1, <1>2, <1>3 DEF RefBindIf
<1>4. ASSUME NEW q \in Refs, RefCopy(r, q) PROVE RInv'
  <2>1. RefLive(q) /\ ref[q] \in Opts \cup {Arg, Null} /\ same[q] \in BOOLEAN
    BY DEF RInv, RefTypeOK
  <2> QED BY <1>4, <2>1, RebindKeeps DEF RefCopy, RefLive
<1>5. ASSUME NEW s \in Sources, NEW q \in Refs, RefFromValueOr(r, q, s)
      PROVE  RInv'
  <2>1. CASE ref[q] = Null
    BY <1>2, <1>5, <2>1 DEF RefFromValueOr
  <2>2. CASE ref[q] # Null
    <3>1. same[q] /\ Rebind(r, ref[q], TRUE)
      BY <1>5, <2>2 DEF RefFromValueOr
    <3>2. RefLive(q) /\ ref[q] \in Opts \cup {Arg, Null}
      BY DEF RInv, RefTypeOK
    <3> QED BY <3>1, <3>2, RebindKeeps DEF RefLive
  <2> QED BY <2>1, <2>2
<1>6. ASSUME NEW o \in Opts, RefFromOwner(r, o) \/ PtrFromOwner(r, o)
      PROVE  RInv'
  <2>1. CASE init[o]
    <3>1. o \in Sources /\ RefBind(r, o)
      BY <1>6, <2>1 DEF RefFromOwner, PtrFromOwner, Sources, Engaged
    <3> QED BY <1>2, <3>1
  <2>2. CASE ~init[o]
    BY <1>1, <1>6, <2>2 DEF RefFromOwner, PtrFromOwner
  <2> QED BY <2>1, <2>2
<1>7. ASSUME NEW s \in Sources, NEW o \in Opts, RefFromOwnerOr(r, o, s)
      PROVE  RInv'
  <2>1. Alive(o) /\ RefBind(r, IF init[o] THEN o ELSE s)
    BY <1>7 DEF RefFromOwnerOr
  <2>2. (IF init[o] THEN o ELSE s) \in Sources
    BY <2>1 DEF Sources, Engaged
  <2> QED BY <1>2, <2>1, <2>2
<1> QED BY <1>1, <1>2, <1>3, <1>4, <1>5, <1>6, <1>7, RefSwapKeeps

(* Every step of the owners does: the references are not told, but a T     *)
(* that ends is one that a reference no longer counts on.                  *)
LEMMA OwnerStepKeeps == RInv /\ OwnerStep => RInv'
<1> SUFFICES ASSUME RInv, OwnerStep PROVE RInv'
  OBVIOUS
<1>1. IInv'
  BY StepKeeps DEF RInv, OwnerStep
<1>2. ref' = ref /\ same' = [r \in Refs |-> same[r] /\ ref[r] \notin Ends]
  BY DEF OwnerStep, Untold
<1>3. RefTypeOK'
  BY <1>2 DEF RInv, RefTypeOK
<1>4. ASSUME NEW r \in Refs PROVE RefLive(r)'
  <2>1. SUFFICES ASSUME same'[r] PROVE ref[r] # Null /\ slot'[ref[r]] # Raw
    BY <1>2 DEF RefLive
  <2>2. same[r] /\ ref[r] \notin Ends
    BY <1>2, <2>1
  <2>3. /\ ref[r] # Null /\ slot[ref[r]] # Raw
        /\ ref[r] \in Opts \cup {Arg, Null}
    BY <2>2 DEF RInv, RefLive, RefTypeOK
  <2>4. CASE ref[r] = Arg
    BY <1>1, <2>3, <2>4 DEF IInv, StageInv, TypeOK
  <2>5. CASE ref[r] \in Opts
    BY <2>2, <2>3, <2>5 DEF Ends
  <2> QED BY <2>3, <2>4, <2>5
<1> QED BY <1>1, <1>3, <1>4 DEF RInv

(* The T that the program uses through a reference is the value of an      *)
(* engaged optional, although no flag is looked at.                        *)
LEMMA UsedIsEngaged ==
  ASSUME RInv, ~busy, NEW r \in Refs, Usable(r)
  PROVE  ref[r] \in Opts /\ Engaged(ref[r])
<1>1. same[r] /\ ref[r] \in Opts /\ (Trivial => Engaged(ref[r]))
  BY DEF Usable
<1>2. slot[ref[r]] # Raw
  BY <1>1 DEF RInv, RefLive
<1>3. IInv
  BY DEF RInv
<1> QED BY <1>1, <1>2, <1>3, LiveIsEngaged

(* So what is done to it is what assignment of a value to that optional,   *)
(* or value_or of it as an rvalue, does.                                   *)
LEMMA UseIsACall == RInv /\ (\E r \in Refs : RefUse(r)) => OwnerStep
<1> SUFFICES ASSUME RInv, NEW r \in Refs, RefUse(r) PROVE OwnerStep
  OBVIOUS
<1>1. ASSUME NEW s \in Sources, NEW how \in Hows, RefAssign(r, s, how)
      PROVE  OwnerStep
  <2>1. /\ Usable(r) /\ Untold
        /\ BeginOn("assign_value", ref[r], s, how, <<AssignT(ref[r], s, how)>>)
    BY <1>1 DEF RefAssign
  <2>2. ~busy
    BY <2>1 DEF BeginOn, Begin, BeginWith
  <2>3. ref[r] \in Opts /\ init[ref[r]]
    BY <2>1, <2>2, UsedIsEngaged DEF Engaged
  <2>4. AssignValue(ref[r], s, how)
    BY <2>1, <2>3 DEF AssignValue
  <2> QED BY <2>1, <2>3, <2>4 DEF OwnerStep, Next, Modification
<1>2. ASSUME RefTake(r) PROVE OwnerStep
  <2>1. /\ Usable(r) /\ Untold
        /\ BeginOn("value_or", ref[r], ref[r], "move",
                   <<Construct(Ret, ref[r], "move")>>)
    BY <1>2 DEF RefTake
  <2>2. ~busy
    BY <2>1 DEF BeginOn, Begin, BeginWith
  <2>3. ref[r] \in Opts /\ Engaged(ref[r]) /\ init[ref[r]]
    BY <2>1, <2>2, UsedIsEngaged DEF Engaged
  <2>4. ValueOr(ref[r], ref[r], "move") /\ ref[r] \in Sources /\ "move" \in Hows
    BY <2>1, <2>3 DEF ValueOr, Sources, Hows
  <2> QED BY <2>1, <2>3, <2>4 DEF OwnerStep, Next, Observation
<1> QED BY <1>1, <1>2 DEF RefUse

LEMMA RefNextKeeps == RInv /\ [RefNext]_rvars => RInv'
<1> SUFFICES ASSUME RInv, [RefNext]_rvars PROVE RInv'
  OBVIOUS
<1>1. CASE UNCHANGED rvars
  <2>1. IInv'
    BY <1>1, StutterKeeps DEF RInv, rvars
  <2> QED BY <1>1, <2>1 DEF RInv, RefTypeOK, RefLive, rvars, vars
<1> QED BY <1>1, RefStepKeeps, OwnerStepKeeps, UseIsACall DEF RefNext

LEMMA RefInvariant == RefSpec => []RInv
  BY RefStart, RefNextKeeps, PTL DEF RefSpec

------------------------------------------------------------------------------
(* The owners do what they do without references: every behaviour of the   *)
(* system with references, what is done through them included, is one of   *)
(* UnionOptional, so that each theorem about it holds here too.  Code: an  *)
(* optional<T> does not know of the optional<T&> objects made from it, and *)
(* need not, as these never lead to storage that holds no value.           *)
THEOREM OwnersAreUnaware == RefSpec => Spec
<1>1. RefInit => InitObjects
  BY DEF RefInit
<1>2. RefStep => UNCHANGED vars
  BY DEF RefStep, RefStepOf, RefNone, RefBind, RefBindIf, RefCopy, RefSwap,
     RefFromValueOr, RefFromOwner, PtrFromOwner, RefFromOwnerOr, Rebind
<1>3. RInv /\ [RefNext]_rvars => [Next]_vars
  BY <1>2, UseIsACall DEF RefNext, OwnerStep, rvars
<1> QED BY <1>1, <1>3, RefInvariant, PTL DEF RefSpec, Spec

(* ptr_ is null or the address of an optional's storage or of an object of *)
(* the program's.                                                          *)
THEOREM RefTypesAreRight == RefSpec => []RefTypeOK
<1>1. RInv => RefTypeOK
  BY DEF RInv
<1> QED BY <1>1, RefInvariant, PTL

(* No conversion binds a reference to storage without a T, for code of T   *)
(* that runs within a call either; and between calls a reference to a T    *)
(* that lives on refers to the value of an engaged optional.               *)
THEOREM RefsSeeTheirOwners == RefSpec => []RefSeesOwner
<1>1. RInv => RefSeesOwner
  BY LiveIsEngaged DEF RInv, RefLive, RefSeesOwner
<1> QED BY <1>1, RefInvariant, PTL

(* A T that a reference counts on ends only in a call that is to end it,   *)
(* or where it has lingered.                                               *)
LEMMA RefDangles ==
  ASSUME RInv, [RefNext]_rvars, NEW r \in Refs, same[r], slot'[ref[r]] = Raw
  PROVE  MayDangle(ref[r])
<1>1. /\ ref[r] # Null /\ slot[ref[r]] # Raw
      /\ ref[r] \in Opts \cup {Arg, Null}
  BY DEF RInv, RefLive, RefTypeOK
<1>2. ref[r] # Arg
  BY RefNextKeeps DEF RInv, IInv, StageInv, TypeOK
<1>3. CASE RefStep \/ UNCHANGED rvars
  <2>1. slot' = slot
    BY <1>3 DEF RefStep, RefStepOf, RefNone, RefBind, RefBindIf, RefCopy,
       RefSwap, RefFromValueOr, RefFromOwner, PtrFromOwner, RefFromOwnerOr,
       Rebind, rvars, vars
  <2> QED BY <1>1, <2>1
<1>4. CASE OwnerStep
  <2>1. EndsOnlyItsOwn
    BY <1>4, StepEnds DEF OwnerStep, RInv
  <2> QED BY <1>1, <1>2, <2>1 DEF EndsOnlyItsOwn, MayDangle
<1> QED BY <1>3, <1>4, UseIsACall DEF RefNext

(* A reference dangles only after a call on the owner that had to end the  *)
(* T: assignment of a value, a swap of two engaged optionals, and a call   *)
(* that throws halfway keep every reference good.                          *)
THEOREM RefsDangleOnlyThen == RefSpec => DanglesOnlyWhenOwnerEnds
<1>1. RInv /\ [RefNext]_rvars =>
        [\A r \in Refs : (same[r] /\ slot'[ref[r]] = Raw)
           => MayDangle(ref[r])]_rvars
  BY RefDangles
<1> QED BY <1>1, RefInvariant, PTL DEF RefSpec, DanglesOnlyWhenOwnerEnds

------------------------------------------------------------------------------
(* The frame at n of the stack is that of a call which found a value if it *)
(* is of map or flat_map, and whose callback has reference n.              *)
FrameInv ==
    \A n \in 1..Len(frames) :
        /\ ref[n] = frames[n].on
        /\ frames[n].found <=> frames[n].fn \in {"map", "flat_map"}

MInv == RInv /\ MonadicTypeOK /\ FrameInv /\ AnswersForTheCall

LEMMA MonadicStart == MonadicInit => MInv
  BY RefStart, OptionalMonadicAssumption DEF MonadicInit, MInv, MonadicTypeOK, FrameInv,
     AnswersForTheCall, NoAnswer

(* The argument of a callback is bound as the program binds a reference:   *)
(* to a T that is alive, or to nothing.                                    *)
LEMMA CallBackBinds ==
  ASSUME MInv, NEW fn \in Callers, NEW place \in Opts \cup {Arg, Null},
         NEW found \in BOOLEAN, NEW writable \in BOOLEAN,
         CallBack(fn, place, found, writable),
         \/ place = Null
         \/ place \in Sources
         \/ \E r \in Variables : place = ref[r] /\ same[r]
  PROVE  RefStep
<1> DEFINE n == Len(frames) + 1
<1>1. n \in Refs /\ Rebind(n, place, place # Null)
  BY OptionalMonadicAssumption DEF CallBack, MInv, MonadicTypeOK
<1> HIDE DEF n
<1>2. CASE place = Null
  BY <1>1, <1>2 DEF RefStep, RefStepOf, RefNone
<1>3. CASE place # Null /\ place \in Sources
  BY <1>1, <1>3 DEF RefStep, RefStepOf, RefBind
<1>4. ASSUME place # Null, NEW r \in Variables, place = ref[r] /\ same[r]
      PROVE  RefStep
  <2>1. r \in Refs /\ same[r] = TRUE
    BY <1>4 DEF Variables, MInv, RInv, RefTypeOK
  <2> QED BY <1>1, <1>4, <2>1 DEF RefStep, RefStepOf, RefCopy
<1> QED BY <1>2, <1>3, <1>4

(* It is the argument of a new frame. *)
LEMMA CallBackKeeps ==
  ASSUME MInv, NEW fn \in Callers, NEW place \in Opts \cup {Arg, Null},
         NEW found \in BOOLEAN, NEW writable \in BOOLEAN,
         CallBack(fn, place, found, writable),
         found <=> fn \in {"map", "flat_map"}
  PROVE  (MonadicTypeOK /\ FrameInv /\ AnswersForTheCall)'
<1> DEFINE n == Len(frames) + 1
           f == Frame(fn, place, found, writable)
           F == [fn : Callers, on : Opts \cup {Arg, Null},
                 found : BOOLEAN, writable : BOOLEAN]
<1>1. /\ n <= Depth /\ frames' = Append(frames, f)
      /\ ref' = [ref EXCEPT ![n] = place] /\ answer' = NoAnswer
  BY DEF CallBack, Rebind
<1>2. /\ frames \in Seq(F)
      /\ Len(frames) <= Depth /\ n \in Nat /\ Depth \in Nat
  BY OptionalMonadicAssumption DEF MInv, MonadicTypeOK
<1>3. /\ f \in F
      /\ f.on = place /\ f.found = found /\ f.fn = fn
  BY DEF Frame
<1>4. n \in Refs /\ ref \in [Refs -> Opts \cup {Arg, Null}]
  BY <1>1, <1>2, OptionalMonadicAssumption DEF MInv, RInv, RefTypeOK
<1> HIDE DEF f
<1>5. MonadicTypeOK'
  BY <1>1, <1>2, <1>3 DEF MonadicTypeOK
<1>6. ASSUME NEW k \in 1..Len(frames')
      PROVE  /\ ref'[k] = frames'[k].on
             /\ frames'[k].found <=> frames'[k].fn \in {"map", "flat_map"}
  <2>1. CASE k = n
    BY <1>1, <1>2, <1>3, <1>4, <2>1
  <2>2. CASE k # n
    <3>1. k \in 1..Len(frames) /\ frames'[k] = frames[k]
      BY <1>1, <1>2, <1>6, <2>2
    <3>2. ref'[k] = ref[k]
      BY <1>1, <1>4, <2>2
    <3> QED BY <3>1, <3>2 DEF MInv, FrameInv
  <2> QED BY <2>1, <2>2
<1>7. AnswersForTheCall'
  BY <1>1 DEF AnswersForTheCall, NoAnswer
<1> QED BY <1>5, <1>6, <1>7 DEF FrameInv

(* A call that returns without a callback has found nothing. *)
LEMMA AnswerNoneKeeps ==
  ASSUME MInv, NEW fn \in {"map", "flat_map"}, AnswerNone(fn, FALSE)
  PROVE  (MonadicTypeOK /\ FrameInv /\ AnswersForTheCall)'
<1>1. frames' = frames /\ ref' = ref
  BY DEF AnswerNone, rvars
<1>2. /\ answer'.fn = fn /\ answer'.found = FALSE /\ answer'.result = None
  BY DEF AnswerNone
<1> QED BY <1>1, <1>2 DEF MInv, MonadicTypeOK, FrameInv, AnswersForTheCall

(* f returns to the call that is the innermost, or throws through it. *)
LEMMA LeaveKeeps ==
  ASSUME MInv, NEW result, Leave(result),
         result # Absent => result \in Returnable(Top.fn)
  PROVE  RefStep /\ (MonadicTypeOK /\ FrameInv /\ AnswersForTheCall)'
<1> DEFINE n == Len(frames)
           F == [fn : Callers, on : Opts \cup {Arg, Null},
                 found : BOOLEAN, writable : BOOLEAN]
<1>1. frames \in Seq(F) /\ n \in 1..Depth /\ n <= Depth /\ Depth \in Nat
  BY OptionalMonadicAssumption DEF MInv, MonadicTypeOK, Leave
<1>2. /\ frames' = SubSeq(frames, 1, n - 1) /\ Rebind(n, Null, FALSE)
      /\ ref' = [ref EXCEPT ![n] = Null]
      /\ answer' = [fn |-> Top.fn, found |-> Top.found, result |-> result]
  BY DEF Leave, Pop, Rebind
<1>3. n \in Refs
  BY <1>1, OptionalMonadicAssumption
<1>4. RefStep
  BY <1>2, <1>3 DEF RefStep, RefStepOf, RefNone
<1>5. \A f \in F : f.fn \in Callers
  OBVIOUS
<1> HIDE DEF F
<1>6. /\ frames' \in Seq(F) /\ Len(frames') = n - 1
      /\ \A k \in 1..(n - 1) : frames'[k] = frames[k]
  <2>1. Len(frames) = n /\ n \in Nat /\ 1 <= n
    BY <1>1
  <2> HIDE DEF n
  <2>2. \A k \in 1..(n - 1) : frames[k] \in F
    BY <1>1, <2>1
  <2>3. /\ SubSeq(frames, 1, n - 1) \in Seq(F)
        /\ Len(SubSeq(frames, 1, n - 1)) = IF 1 <= n - 1 THEN n - 1 - 1 + 1 ELSE 0
        /\ \A k \in 1..(n - 1 - 1 + 1) :
              SubSeq(frames, 1, n - 1)[k] = frames[1 + k - 1]
    <3> n - 1 \in Int
      BY <2>1
    <3> QED BY <2>2, SubSeqProperties
  <2>4. \A k \in 1..(n - 1) : k \in 1..(n - 1 - 1 + 1) /\ 1 + k - 1 = k
    BY <2>1
  <2> QED BY <1>2, <2>1, <2>3, <2>4
<1>7. MonadicTypeOK'
  BY <1>1, <1>6 DEF MonadicTypeOK, F
<1>8. FrameInv'
  <2>1. \A k \in 1..(n - 1) : k \in 1..n /\ ref'[k] = ref[k]
    BY <1>1, <1>2, <1>3 DEF MInv, RInv, RefTypeOK
  <2> QED BY <1>6, <2>1 DEF MInv, FrameInv
<1>9. AnswersForTheCall'
  <2>1. /\ Top.fn \in Callers
        /\ Top.found <=> Top.fn \in {"map", "flat_map"}
    <3>1. Top = frames[n] /\ n \in 1..Len(frames)
      BY <1>1 DEF Top
    <3>2. Top.fn \in Callers
      BY <1>1, <1>5, <3>1
    <3> QED BY <3>1, <3>2 DEF MInv, FrameInv
  <2>2. /\ answer'.fn = Top.fn /\ answer'.found = Top.found
        /\ answer'.result = result
    BY <1>2
  <2>3. (result # Absent /\ Top.fn # "flat_map") => result # None
    BY ObjectModelAssumption DEF Returnable, Objects
  <2> QED BY <2>1, <2>2, <2>3 DEF AnswersForTheCall, Callers
<1> QED BY <1>4, <1>7, <1>8, <1>9

LEMMA InitIsBoolean ==
  ASSUME MInv, NEW o \in Opts
  PROVE  init[o] \in BOOLEAN
  BY DEF MInv, RInv, IInv, StageInv, TypeOK

(* What f does with its argument is what the program does with any         *)
(* reference, and what f keeps of it is one.                               *)
LEMMA ProceedIsAStep ==
  ASSUME MInv, Proceed
  PROVE  RefNext /\ \A k \in 1..Depth : ref'[k] = ref[k]
<1>1. /\ ref \in [Refs -> Opts \cup {Arg, Null}] /\ 1..Depth \subseteq Refs
      /\ Variables \subseteq Refs
      /\ \A n \in 1..Len(frames) : n \in Refs
  BY OptionalMonadicAssumption
     DEF MInv, RInv, RefTypeOK, MonadicTypeOK, Variables
<1>2. \A r \in Variables, k \in 1..Depth : k # r
  BY DEF Variables
<1>3. CASE OwnerStep
  BY <1>3 DEF RefNext, OwnerStep, Untold
<1>4. CASE RefStepOf(Variables)
  <2>1. RefStep
    BY <1>1, <1>4 DEF RefStep, RefStepOf
  <2>2. \A k \in 1..Depth : ref'[k] = ref[k]
    BY <1>1, <1>2, <1>4
       DEF RefStepOf, RefNone, RefBind, RefBindIf, RefCopy, RefSwap,
           RefFromValueOr, RefFromOwner, PtrFromOwner, RefFromOwnerOr, Rebind
  <2> QED BY <2>1, <2>2 DEF RefNext
<1>5. ASSUME NEW r \in Refs, RefUse(r)
      PROVE  RefNext /\ \A k \in 1..Depth : ref'[k] = ref[k]
  BY <1>5 DEF RefNext, RefUse, RefAssign, RefTake, Untold
<1>6. ASSUME NEW n \in 1..Len(frames), NEW r \in Variables, KeepArgument(r, n)
      PROVE  RefNext /\ \A k \in 1..Depth : ref'[k] = ref[k]
  <2>1. RefCopy(r, n) /\ r \in Refs /\ n \in Refs
    BY <1>1, <1>6 DEF KeepArgument
  <2>2. RefStep
    BY <2>1 DEF RefStep, RefStepOf
  <2>3. ref' = [ref EXCEPT ![r] = ref[n]]
    BY <2>1 DEF RefCopy, Rebind
  <2> QED BY <1>1, <1>2, <2>2, <2>3 DEF RefNext
<1> QED BY <1>1, <1>3, <1>4, <1>5, <1>6 DEF Proceed, UseArgument

(* Every step is one of the program's on the references and the owners, or *)
(* one that they do not see; and it keeps the stack in order.              *)
LEMMA MonadicStep ==
  ASSUME MInv, MonadicNext
  PROVE  [RefNext]_rvars /\ (MonadicTypeOK /\ FrameInv /\ AnswersForTheCall)'
<1>1. /\ Arg \notin Opts
      /\ \A o \in Opts : o \in Opts \cup {Arg, Null} /\ o # Null
      /\ \A r \in Variables : r \in Refs /\ ref[r] \in Opts \cup {Arg, Null}
      /\ None \notin Values /\ Absent \notin Values
  BY NullIsNoPlace, ObjectModelAssumption
     DEF Variables, MInv, RInv, RefTypeOK, Objects
<1>2. ASSUME NEW fn \in {"map", "flat_map"}, NEW o \in Opts, NEW overload,
             Map(o, fn, overload)
      PROVE  [RefNext]_rvars /\ (MonadicTypeOK /\ FrameInv /\ AnswersForTheCall)'
  <2>1. CASE init[o]
    <3>1. /\ o \in Sources /\ fn \in Callers
          /\ CallBack(fn, o, TRUE, overload # "const&")
      BY <1>2, <2>1, InitIsBoolean DEF Map, Sources, Engaged, Callers
    <3> QED BY <1>1, <3>1, CallBackBinds, CallBackKeeps DEF RefNext
  <2>2. CASE ~init[o]
    <3>1. AnswerNone(fn, FALSE)
      BY <1>2, <2>2, InitIsBoolean DEF Map
    <3> QED BY <3>1, AnswerNoneKeeps DEF AnswerNone
  <2> QED BY <2>1, <2>2
<1>3. ASSUME NEW fn \in {"map", "flat_map"}, NEW r \in Variables, MapRef(r, fn)
      PROVE  [RefNext]_rvars /\ (MonadicTypeOK /\ FrameInv /\ AnswersForTheCall)'
  <2>1. CASE ref[r] # Null
    <3>1. same[r] /\ CallBack(fn, ref[r], TRUE, TRUE) /\ fn \in Callers
      BY <1>3, <2>1 DEF MapRef, Callers
    <3> QED BY <1>1, <3>1, CallBackBinds, CallBackKeeps DEF RefNext
  <2>2. CASE ref[r] = Null
    <3>1. AnswerNone(fn, FALSE)
      BY <1>3, <2>2 DEF MapRef
    <3> QED BY <3>1, AnswerNoneKeeps DEF AnswerNone
  <2> QED BY <2>1, <2>2
<1>4. ASSUME NEW o \in Opts, ValueOrEval(o)
      PROVE  [RefNext]_rvars /\ (MonadicTypeOK /\ FrameInv /\ AnswersForTheCall)'
  <2>1. /\ CallBack("value_or_eval", Null, FALSE, FALSE)
        /\ "value_or_eval" \in Callers
    BY <1>4, InitIsBoolean DEF ValueOrEval, Callers
  <2> QED BY <2>1, CallBackBinds, CallBackKeeps DEF RefNext
<1>5. ASSUME NEW x \in Values \cup {None}, FReturns(x)
      PROVE  [RefNext]_rvars /\ (MonadicTypeOK /\ FrameInv /\ AnswersForTheCall)'
  BY <1>5, LeaveKeeps DEF FReturns, Answered, RefNext
<1>6. ASSUME FThrows
      PROVE  [RefNext]_rvars /\ (MonadicTypeOK /\ FrameInv /\ AnswersForTheCall)'
  BY <1>6, LeaveKeeps DEF FThrows, RefNext
<1>7. ASSUME Proceed, answer' = NoAnswer, UNCHANGED frames
      PROVE  [RefNext]_rvars /\ (MonadicTypeOK /\ FrameInv /\ AnswersForTheCall)'
  <2>1. RefNext /\ \A k \in 1..Depth : ref'[k] = ref[k]
    BY <1>7, ProceedIsAStep
  <2>2. \A n \in 1..Len(frames) : n \in 1..Depth
    BY OptionalMonadicAssumption DEF MInv, MonadicTypeOK
  <2>3. AnswersForTheCall'
    BY <1>7 DEF AnswersForTheCall, NoAnswer
  <2> QED BY <1>7, <2>1, <2>2, <2>3 DEF MInv, MonadicTypeOK, FrameInv
<1> QED BY <1>2, <1>3, <1>4, <1>5, <1>6, <1>7 DEF MonadicNext, Callback

LEMMA MonadicNextKeeps == MInv /\ [MonadicNext]_mvars => MInv'
<1> SUFFICES ASSUME MInv, [MonadicNext]_mvars PROVE MInv'
  OBVIOUS
<1>1. CASE MonadicNext
  BY <1>1, MonadicStep, RefNextKeeps DEF MInv
<1>2. CASE UNCHANGED mvars
  <2>1. RInv'
    BY <1>2, RefNextKeeps DEF MInv, mvars
  <2> QED BY <1>2, <2>1
          DEF MInv, MonadicTypeOK, FrameInv, AnswersForTheCall, mvars, rvars
<1> QED BY <1>1, <1>2

LEMMA MonadicInvariant == MonadicSpec => []MInv
  BY MonadicStart, MonadicNextKeeps, PTL DEF MonadicSpec

(* A callback is no more to the optionals and the references than code of  *)
(* the program that holds one more reference, which may assign to the T or *)
(* move it away, too: map, flat_map and value_or_eval, in every overload,  *)
(* add nothing to what RefSpec allows, so that each theorem about the      *)
(* references, and about the owners, holds with callbacks too.             *)
THEOREM CallbacksAreReferences == MonadicSpec => RefSpec
<1>1. MonadicInit => RefInit
  BY DEF MonadicInit
<1>2. MInv /\ [MonadicNext]_mvars => [RefNext]_rvars
  BY MonadicStep DEF mvars
<1> QED BY <1>1, <1>2, MonadicInvariant, PTL DEF MonadicSpec, RefSpec

(* The answer of map, flat_map and value_or_eval is that of the moment of  *)
(* the call, whatever the callback did to the optional.                    *)
THEOREM AnswersAreForTheCall == MonadicSpec => []AnswersForTheCall
<1>1. MInv => AnswersForTheCall
  BY DEF MInv
<1> QED BY <1>1, MonadicInvariant, PTL

(* Whatever the program and its callbacks do to a T by its address, they   *)
(* find one there: no T is assigned, swapped, destroyed or (but for an     *)
(* optional that is rebuilt from its own value) read outside its lifetime. *)
THEOREM CallbacksFindLiveObjects == MonadicSpec => []LifetimesRespected
  BY CallbacksAreReferences, OwnersAreUnaware, LifetimesAreRight, PTL

(* And the optionals do in every call what the contract says of it, with   *)
(* references to their values about and callbacks under way; what is done  *)
(* through a reference shows as a call on the optional.                    *)
THEOREM CallbacksKeepContract == MonadicSpec => ImplementsContract
  BY CallbacksAreReferences, OwnersAreUnaware, Implements, PTL
==============================================================================
