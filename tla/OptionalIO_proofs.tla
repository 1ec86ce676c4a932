-------------------------- MODULE OptionalIO_proofs --------------------------
(***************************************************************************)
(* Proofs about OptionalIO, for any values and texts of T, any junk in the *)
(* stream, and buffers of any length.                                      *)
(***************************************************************************)
EXTENDS OptionalIO, WellFoundedInduction, SequenceTheorems, TLAPS

------------------------------------------------------------------------------
(* Numbers and short sequences. *)

(* A set of natural numbers has a least member. *)
LEMMA LeastMember ==
    ASSUME NEW T, T \subseteq Nat, T # {}
    PROVE  \E n \in T : \A m \in T : n <= m
<1> DEFINE R == OpToRel(<, Nat)
<1>1. \E n \in T : \A m \in T : <<m, n>> \notin R
  BY NatLessThanWellFounded, WFMin
<1>2. \A m, n \in Nat : m < n => <<m, n>> \in R
  BY DEF OpToRel
<1> HIDE DEF R
<1>3. PICK n \in T : \A m \in T : <<m, n>> \notin R
  BY <1>1
<1>4. ASSUME NEW m \in T PROVE n <= m
  <2>1. n \in Nat /\ m \in Nat /\ ~(m < n)
    BY <1>2, <1>3
  <2> QED BY <2>1
<1> QED BY <1>4

(* And a bounded one a greatest. *)
LEMMA GreatestMember ==
    ASSUME NEW k \in Nat, NEW T, T \subseteq 0..k, T # {}
    PROVE  \E n \in T : \A m \in T : m <= n
<1> DEFINE U == {i \in 0..k : k - i \in T}
<1>1. \A n \in T : n \in 0..k /\ k - n \in 0..k /\ k - (k - n) = n
  OBVIOUS
<1>2. U \subseteq Nat /\ \A n \in T : k - n \in U
  BY <1>1
<1> HIDE DEF U
<1>3. PICK u \in U : \A i \in U : u <= i
  <2>1. U # {}
    BY <1>2
  <2> QED BY <1>2, <2>1, LeastMember
<1>4. ASSUME NEW n \in T PROVE n <= k - u
  <2>1. u <= k - n /\ u \in Nat
    BY <1>2, <1>3
  <2> QED BY <1>1, <2>1
<1>5. k - u \in T
  BY <1>3 DEF U
<1> QED BY <1>4, <1>5

------------------------------------------------------------------------------
(* What the operators find in a buffer. *)

(* The blanks that are skipped are all those at the front. *)
LEMMA SkippedSpaces ==
    ASSUME NEW S, NEW b \in Seq(S)
    PROVE  \E n \in Spaces(b) :
              /\ \A i \in Spaces(b) : i <= n
              /\ SkipSpaces(b) = SubSeq(b, n + 1, Len(b))
<1>1. /\ Spaces(b) \subseteq 0..Len(b) /\ Spaces(b) # {}
      /\ Len(b) \in Nat
  <2>1. 0 \in Spaces(b)
    BY DEF Spaces
  <2> QED BY <2>1 DEF Spaces
<1>2. \E n \in Spaces(b) : \A i \in Spaces(b) : i <= n
  BY <1>1, GreatestMember
<1> QED BY <1>2 DEF SkipSpaces

(* The members of a suffix. *)
LEMMA SuffixIs ==
    ASSUME NEW S, NEW b \in Seq(S), NEW n \in 0..Len(b)
    PROVE  /\ SubSeq(b, n + 1, Len(b)) \in Seq(S)
           /\ Len(SubSeq(b, n + 1, Len(b))) = Len(b) - n
           /\ \A i \in 1..(Len(b) - n) :
                 SubSeq(b, n + 1, Len(b))[i] = b[n + i]
<1>1. n + 1 \in Int /\ Len(b) \in Int
  OBVIOUS
<1>2. \A i \in (n + 1)..Len(b) : b[i] \in S
  OBVIOUS
<1>3. /\ SubSeq(b, n + 1, Len(b)) \in Seq(S)
      /\ Len(SubSeq(b, n + 1, Len(b)))
            = IF n + 1 <= Len(b) THEN Len(b) - (n + 1) + 1 ELSE 0
      /\ \A i \in 1..(Len(b) - (n + 1) + 1) :
            SubSeq(b, n + 1, Len(b))[i] = b[n + 1 + i - 1]
  BY <1>1, <1>2, SubSeqProperties
<1>4. /\ (IF n + 1 <= Len(b) THEN Len(b) - (n + 1) + 1 ELSE 0) = Len(b) - n
      /\ Len(b) - (n + 1) + 1 = Len(b) - n
      /\ \A i \in Nat : n + 1 + i - 1 = n + i
  BY <1>1
<1>5. \A i \in 1..(Len(b) - n) : i \in Nat
  OBVIOUS
<1> DEFINE c == SubSeq(b, n + 1, Len(b))
<1> HIDE DEF c
<1>6. \A i \in 1..(Len(b) - n) : c[i] = b[n + i]
  BY <1>3, <1>4, <1>5 DEF c
<1> QED BY <1>3, <1>4, <1>6 DEF c

(* A word ends before the first blank. *)
LEMMA WordsEnd ==
    ASSUME NEW S, NEW c \in Seq(S)
    PROVE  LET n == CHOOSE i \in Solids(c) : \A j \in Solids(c) : j <= i
           IN  n \in Solids(c) /\ n \in 0..Len(c)
<1>1. /\ Solids(c) \subseteq 0..Len(c) /\ Solids(c) # {}
      /\ Len(c) \in Nat
  <2>1. 0 \in Solids(c)
    BY DEF Solids
  <2> QED BY <2>1 DEF Solids
<1>2. \E n \in Solids(c) : \A i \in Solids(c) : i <= n
  BY <1>1, GreatestMember
<1> QED BY <1>1, <1>2

(* A prefix is told by its members. *)
LEMMA FrontIs ==
    ASSUME NEW S, NEW b \in Seq(S), NEW n \in 0..Len(b)
    PROVE  /\ SubSeq(b, 1, n) \in Seq(S) /\ Len(SubSeq(b, 1, n)) = n
           /\ \A i \in 1..n : SubSeq(b, 1, n)[i] = b[i]
<1>1. n \in Int /\ 1 \in Int /\ \A i \in 1..n : b[i] \in S
  OBVIOUS
<1> DEFINE c == SubSeq(b, 1, n)
<1>2. /\ c \in Seq(S) /\ Len(c) = IF 1 <= n THEN n - 1 + 1 ELSE 0
      /\ \A i \in 1..(n - 1 + 1) : c[i] = b[1 + i - 1]
  BY <1>1, SubSeqProperties
<1> HIDE DEF c
<1>3. \A i \in 1..n : i \in 1..(n - 1 + 1) /\ 1 + i - 1 = i
  OBVIOUS
<1>4. Len(c) = n
  BY <1>2
<1> QED BY <1>2, <1>3, <1>4 DEF c

LEMMA PrefixesAre ==
    ASSUME NEW S, NEW p \in Seq(S), NEW b \in Seq(S)
    PROVE  IsPrefix(p, b) <=> /\ Len(p) <= Len(b)
                              /\ \A i \in 1..Len(p) : b[i] = p[i]
<1>1. Len(p) \in 0..Len(p) /\ (Len(p) <= Len(b) => Len(p) \in 0..Len(b))
  OBVIOUS
<1>2. /\ SubSeq(p, 1, Len(p)) \in Seq(S) /\ Len(SubSeq(p, 1, Len(p))) = Len(p)
      /\ \A i \in 1..Len(p) : SubSeq(p, 1, Len(p))[i] = p[i]
  BY <1>1, FrontIs
<1> SUFFICES ASSUME Len(p) <= Len(b)
             PROVE  SubSeq(p, 1, Len(p)) = SubSeq(b, 1, Len(p))
                      <=> \A i \in 1..Len(p) : b[i] = p[i]
  BY DEF IsPrefix
<1>3. /\ SubSeq(b, 1, Len(p)) \in Seq(S) /\ Len(SubSeq(b, 1, Len(p))) = Len(p)
      /\ \A i \in 1..Len(p) : SubSeq(b, 1, Len(p))[i] = b[i]
  BY <1>1, FrontIs
<1> DEFINE q == SubSeq(p, 1, Len(p))
           c == SubSeq(b, 1, Len(p))
<1> HIDE DEF q, c
<1>4. (\A i \in 1..Len(p) : b[i] = p[i]) => q = c
  BY <1>2, <1>3, SeqEqual DEF q, c
<1>5. q = c => \A i \in 1..Len(p) : b[i] = p[i]
  BY <1>2, <1>3 DEF q, c
<1> QED BY <1>4, <1>5 DEF q, c

(* A blank at the front is skipped. *)
LEMMA SkipsTheBlank ==
    ASSUME NEW S, NEW b \in Seq(S), b # <<>>, Head(b) = "blank"
    PROVE  SkipSpaces(b) = SkipSpaces(Tail(b))
<1>1. /\ Tail(b) \in Seq(S) /\ Len(b) \in Nat /\ Len(Tail(b)) = Len(b) - 1
      /\ Len(b) >= 1 /\ b[1] = "blank"
      /\ \A i \in 1..Len(Tail(b)) : Tail(b)[i] = b[i + 1]
  OBVIOUS
<1>2. PICK n \in Spaces(b) :
         /\ \A i \in Spaces(b) : i <= n
         /\ SkipSpaces(b) = SubSeq(b, n + 1, Len(b))
  BY SkippedSpaces
<1>3. PICK m \in Spaces(Tail(b)) :
         /\ \A i \in Spaces(Tail(b)) : i <= m
         /\ SkipSpaces(Tail(b)) = SubSeq(Tail(b), m + 1, Len(Tail(b)))
  BY <1>1, SkippedSpaces
<1>4. n \in 0..Len(b) /\ m \in 0..Len(Tail(b)) /\ n \in Nat /\ m \in Nat
  BY <1>1 DEF Spaces
<1>5. m + 1 <= n
  <2>1. m + 1 \in 0..Len(b)
    BY <1>1, <1>4
  <2>2. ASSUME NEW i \in 1..(m + 1) PROVE b[i] = "blank"
    <3>1. CASE i = 1
      BY <1>1, <3>1
    <3>2. CASE i # 1
      <4>1. i - 1 \in 1..m /\ i - 1 \in 1..Len(Tail(b)) /\ (i - 1) + 1 = i
        BY <1>4, <3>2
      <4>2. Tail(b)[i - 1] = "blank"
        BY <4>1 DEF Spaces
      <4> QED BY <1>1, <4>1, <4>2
    <3> QED BY <3>1, <3>2
  <2>3. m + 1 \in Spaces(b)
    BY <2>1, <2>2 DEF Spaces
  <2> QED BY <1>2, <2>3
<1>6. n - 1 <= m
  <2>1. n >= 1
    BY <1>4, <1>5
  <2>2. n - 1 \in 0..Len(Tail(b))
    BY <1>1, <1>4, <2>1
  <2>3. ASSUME NEW i \in 1..(n - 1) PROVE Tail(b)[i] = "blank"
    <3>1. i + 1 \in 1..n /\ i \in 1..Len(Tail(b))
      BY <1>4, <2>2
    <3>2. b[i + 1] = "blank"
      BY <3>1 DEF Spaces
    <3> QED BY <1>1, <3>1, <3>2
  <2>4. n - 1 \in Spaces(Tail(b))
    BY <2>2, <2>3 DEF Spaces
  <2> QED BY <1>3, <2>4
<1>7. n = m + 1
  BY <1>4, <1>5, <1>6
<1> DEFINE s == SubSeq(b, n + 1, Len(b))
           t == SubSeq(Tail(b), m + 1, Len(Tail(b)))
<1>8. /\ s \in Seq(S) /\ Len(s) = Len(b) - n
      /\ \A i \in 1..(Len(b) - n) : s[i] = b[n + i]
  BY <1>4, SuffixIs
<1>9. /\ t \in Seq(S) /\ Len(t) = Len(Tail(b)) - m
      /\ \A i \in 1..(Len(Tail(b)) - m) : t[i] = Tail(b)[m + i]
  BY <1>1, <1>4, SuffixIs
<1> HIDE DEF s, t
<1>10. Len(s) = Len(t) /\ \A i \in 1..Len(s) : s[i] = t[i]
  <2>1. Len(Tail(b)) - m = Len(b) - n
    BY <1>1, <1>4, <1>7
  <2>2. ASSUME NEW i \in 1..(Len(b) - n) PROVE Tail(b)[m + i] = b[n + i]
    <3>1. m + i \in 1..Len(Tail(b)) /\ m + i + 1 = n + i
      BY <1>1, <1>4, <1>7
    <3> QED BY <1>1, <3>1
  <2> QED BY <1>8, <1>9, <2>1, <2>2
<1> QED BY <1>2, <1>3, <1>8, <1>9, <1>10, SeqEqual DEF s, t

------------------------------------------------------------------------------
(* The types. *)

Chars == Values \cup Marks \cup Junk

LEMMA TextTypes ==
    /\ \A v \in Values : Text(v) \in Seq(Chars) /\ Len(Text(v)) \in 1..2
    /\ \A x \in Values \cup {None} :
          Output(x) \in Seq(Chars) /\ Len(Output(x)) <= 3
<1>1. ASSUME NEW v \in Values
      PROVE  Text(v) \in Seq(Chars) /\ Len(Text(v)) \in 1..2
  <2>1. /\ <<v>> \in Seq(Chars) /\ <<"dash", v>> \in Seq(Chars)
        /\ Len(<<v>>) = 1 /\ Len(<<"dash", v>>) = 2
    BY DEF Chars, Marks
  <2> QED BY <2>1 DEF Text
<1>2. <<"blank">> \in Seq(Chars) /\ <<"dash", "dash">> \in Seq(Chars)
  BY DEF Chars, Marks
<1>3. ASSUME NEW x \in Values \cup {None}
      PROVE  Output(x) \in Seq(Chars) /\ Len(Output(x)) <= 3
  <2>1. CASE x = None
    BY <1>2, <2>1 DEF Output
  <2>2. CASE x # None
    <3>1. Output(x) = <<"blank">> \o Text(x) /\ x \in Values
      BY <2>2 DEF Output
    <3>2. Len(<<"blank">>) = 1
      OBVIOUS
    <3> QED BY <1>1, <1>2, <3>1, <3>2
  <2> QED BY <2>1, <2>2
<1> QED BY <1>1, <1>3

(* What T's operator>> makes of any text: it fails and leaves a default T, *)
(* or has found a value whose text comes first, or a word that is none.    *)
ExtractionOK(b, e) ==
    /\ e.rest \in Seq(Chars) /\ Len(e.rest) <= Len(b)
    /\ e.eof \in BOOLEAN /\ e.fail \in BOOLEAN
    /\ e.x \in Values \cup {DefaultT, Other}
    /\ e.fail => e.x = DefaultT
    /\ ~e.fail => \/ e.x \in Values /\ IsPrefix(Text(e.x), SkipSpaces(b))
                  \/ e.x = Other /\ reads = "word"

LEMMA Extraction ==
    ASSUME NEW b \in Seq(Chars)
    PROVE  ExtractionOK(b, ExtractT(b))
<1> DEFINE c == SkipSpaces(b)
           begun == {v \in Values : IsPrefix(Text(v), c)}
           w == CHOOSE v \in begun : TRUE
           after == SubSeq(c, Len(Text(w)) + 1, Len(c))
           minus == IsPrefix(<<"dash">>, c)
           rest == IF minus THEN Tail(c) ELSE c
<1>1. c \in Seq(Chars) /\ Len(c) <= Len(b) /\ Len(c) \in Nat /\ Len(b) \in Nat
  <2>1. PICK n \in Spaces(b) : c = SubSeq(b, n + 1, Len(b))
    BY SkippedSpaces
  <2>2. n \in 0..Len(b)
    BY DEF Spaces
  <2> HIDE DEF c
  <2> QED BY <2>1, <2>2, SuffixIs
<1> HIDE DEF c
<1>2. CASE reads # "word" /\ begun # {}
  <2>1. w \in Values /\ IsPrefix(Text(w), c)
    BY <1>2
  <2>2. ExtractT(b) =
          Extracted(w, after, reads = "number" /\ after = <<>>, FALSE)
    BY <1>2 DEF ExtractT, ExtractValue, c
  <2> HIDE DEF w
  <2>3. Len(Text(w)) \in 0..Len(c)
    BY <2>1, <1>1, TextTypes DEF IsPrefix
  <2>4. after \in Seq(Chars) /\ Len(after) <= Len(b)
    BY <1>1, <2>3, SuffixIs
  <2> HIDE DEF after
  <2> QED BY <2>1, <2>2, <2>4 DEF Extracted, ExtractionOK, c
<1>3. CASE reads # "word" /\ begun = {}
  <2>1. ExtractT(b) = Extracted(DefaultT, rest, rest = <<>>, TRUE)
    BY <1>3 DEF ExtractT, ExtractValue, c
  <2>2. rest \in Seq(Chars) /\ Len(rest) <= Len(b)
    <3>1. minus => c # <<>>
      BY DEF IsPrefix
    <3> HIDE DEF minus
    <3> QED BY <1>1, <3>1
  <2> HIDE DEF rest
  <2> QED BY <2>1, <2>2 DEF Extracted, ExtractionOK
<1>4. CASE reads = "word" /\ c = <<>>
  <2>1. ExtractT(b) = Extracted(DefaultT, <<>>, TRUE, TRUE)
    BY <1>4 DEF ExtractT, ExtractWord, c
  <2>2. <<>> \in Seq(Chars) /\ Len(<<>>) = 0
    OBVIOUS
  <2> QED BY <1>1, <2>1, <2>2 DEF Extracted, ExtractionOK
<1>5. CASE reads = "word" /\ c # <<>>
  <2> DEFINE n == CHOOSE i \in Solids(c) : \A j \in Solids(c) : j <= i
             spelt == {v \in Values : Text(v) = SubSeq(c, 1, n)}
             x == IF spelt = {} THEN Other ELSE CHOOSE v \in spelt : TRUE
             tail == SubSeq(c, n + 1, Len(c))
  <2>1. ExtractT(b) = Extracted(x, tail, tail = <<>>, FALSE)
    BY <1>5 DEF ExtractT, ExtractWord, c
  <2>2. n \in 0..Len(c)
    BY <1>1, WordsEnd
  <2> HIDE DEF n
  <2>3. tail \in Seq(Chars) /\ Len(tail) <= Len(b)
    BY <1>1, <2>2, SuffixIs
  <2>4. x = Other \/ (x \in Values /\ Text(x) = SubSeq(c, 1, n))
    OBVIOUS
  <2>5. ASSUME NEW v \in Values, Text(v) = SubSeq(c, 1, n)
        PROVE  IsPrefix(Text(v), c)
    <3>1. Len(SubSeq(c, 1, n)) = n /\ n <= Len(c)
      BY <1>1, <2>2, FrontIs
    <3>2. Text(v) \in Seq(Chars) /\ Len(Text(v)) = n
      BY <2>5, <3>1, TextTypes
    <3>3. \A p \in Seq(Chars) : SubSeq(p, 1, Len(p)) = p
      OBVIOUS
    <3>4. SubSeq(Text(v), 1, n) = Text(v)
      BY <3>2, <3>3
    <3> QED BY <2>5, <3>1, <3>2, <3>4 DEF IsPrefix
  <2> HIDE DEF x, tail
  <2> QED BY <1>5, <2>1, <2>3, <2>4, <2>5 DEF Extracted, ExtractionOK, c
<1> QED BY <1>2, <1>3, <1>4, <1>5

------------------------------------------------------------------------------
(* The invariant: the types, those of `last' too, and that a read that     *)
(* reports success has stored what it found.                               *)
LastTypeOK ==
    last \in [op : {"write", "assign", "clear", "read"}, o : Opts, threw : BOOLEAN,
              found : Seq(Chars), good : BOOLEAN]

IOInv == TypeOK /\ LastTypeOK /\ StoresWhatItFound

LEMMA IOStart == Init => IOInv
<1> SUFFICES ASSUME Init PROVE IOInv
  OBVIOUS
<1>1. last.o \in Opts /\ last.op = "clear"
  BY OptionalIOAssumption DEF Init, NoRead
<1>2. BufferBound \in Nat
  BY OptionalIOAssumption DEF BufferBound
<1>3. TypeOK
  <2>1. buf \in Seq(Values \cup Marks \cup Junk) /\ Len(buf) <= BufferBound
    BY <1>2 DEF Init
  <2>2. {eof, fail, throwing, mask, tidy} \subseteq BOOLEAN
    BY DEF Init
  <2>3. val \in [Opts -> Values \cup {DefaultT, Other, None}]
    BY DEF Init
  <2>4. reads \in Readings
    BY DEF Init
  <2> QED BY <1>1, <2>1, <2>2, <2>3, <2>4 DEF TypeOK
<1>4. LastTypeOK
  BY <1>1 DEF Init, NoRead, LastTypeOK
<1> QED BY <1>1, <1>3, <1>4 DEF IOInv, StoresWhatItFound

(* A statement that is no read of a good stream has nothing to have found. *)
LEMMA OthersKeep ==
    ASSUME IOInv, UNCHANGED traits,
           buf' \in Seq(Chars), Len(buf') <= BufferBound,
           eof' \in BOOLEAN, fail' \in BOOLEAN,
           val' \in [Opts -> Values \cup {DefaultT, Other, None}],
           \/ \E op \in {"write", "assign", "clear"} : Did(op)
           \/ ~Good /\ \E o \in Opts : DidRead(o, FALSE)
    PROVE  IOInv'
<1>1. TypeOK' /\ LastTypeOK'
  <2>1. LastTypeOK'
    <3>1. ASSUME NEW op \in {"write", "assign", "clear"}, Did(op)
          PROVE  LastTypeOK'
      <4>1. (CHOOSE o \in Opts : TRUE) \in Opts
        BY OptionalIOAssumption
      <4> QED BY <3>1, <4>1 DEF Did, NoRead, LastTypeOK
    <3>2. buf \in Seq(Chars) /\ Good \in BOOLEAN
      BY DEF IOInv, TypeOK, Good, Chars
    <3>3. ASSUME NEW o \in Opts, DidRead(o, FALSE)
          PROVE  LastTypeOK'
      BY <3>2, <3>3 DEF DidRead, LastTypeOK
    <3> QED BY <3>1, <3>3
  <2>2. {eof, fail, throwing, mask, tidy}' \subseteq BOOLEAN
    BY DEF IOInv, TypeOK, traits
  <2>3. BufferBound' = BufferBound /\ reads' \in Readings
    BY DEF BufferBound, Calm, traits, IOInv, TypeOK
  <2> QED BY <2>1, <2>2, <2>3 DEF LastTypeOK, TypeOK, Chars
<1>2. ~(last'.op = "read" /\ last'.good)
  BY DEF Did, NoRead, DidRead
<1> QED BY <1>1, <1>2 DEF IOInv, StoresWhatItFound

(* A read of a good stream keeps the invariant, if it has stored what it   *)
(* reports.                                                                *)
LEMMA ReadsKeep ==
    ASSUME IOInv, UNCHANGED traits, NEW o \in Opts, NEW threw \in BOOLEAN,
           buf' \in Seq(Chars), Len(buf') <= Len(buf),
           eof' \in BOOLEAN, fail' \in BOOLEAN,
           val' \in [Opts -> Values \cup {DefaultT, Other, None}],
           DidRead(o, threw),
           ~fail' /\ ~threw => \E x \in Values \cup {Other, None} :
                                  val'[o] = x /\ BeginsWith(x, buf)
    PROVE  IOInv'
<1>1. TypeOK' /\ LastTypeOK'
  <2>1. LastTypeOK'
    BY DEF IOInv, LastTypeOK, TypeOK, DidRead, Good, Chars
  <2>2. {eof, fail, throwing, mask, tidy}' \subseteq BOOLEAN
    BY DEF IOInv, TypeOK, traits
  <2>3. BufferBound' = BufferBound /\ BufferBound \in Nat
    BY OptionalIOAssumption DEF BufferBound, Calm, traits
  <2>4. Len(buf') <= BufferBound /\ reads' \in Readings
    BY <2>3 DEF IOInv, TypeOK, Chars, traits
  <2> QED BY <2>1, <2>2, <2>3, <2>4 DEF LastTypeOK, TypeOK, Chars
<1>2. last'.o = o /\ last'.threw = threw /\ last'.found = buf
  BY DEF DidRead
<1>3. ASSUME NEW x PROVE BeginsWith(x, buf) <=> BeginsWith(x, last.found)'
  BY <1>2 DEF BeginsWith, traits
<1> QED BY <1>1, <1>2, <1>3 DEF IOInv, StoresWhatItFound, BeginsWith

(* A buffer that begins with a blank, and what comes after it.             *)
LEMMA AfterBlank ==
    ASSUME buf \in Seq(Chars), Next1(buf) = "blank"
    PROVE  /\ buf # <<>> /\ Head(buf) = "blank"
           /\ Tail(buf) \in Seq(Chars) /\ Len(Tail(buf)) <= Len(buf)
           /\ IsPrefix(<<"blank">>, buf)
           /\ SkipSpaces(buf) = SkipSpaces(Tail(buf))
<1>1. buf # <<>> /\ Head(buf) = "blank"
  BY DEF Next1
<1>2. Tail(buf) \in Seq(Chars) /\ Len(Tail(buf)) <= Len(buf)
  BY <1>1
<1>3. IsPrefix(<<"blank">>, buf)
  <2> DEFINE p == <<"blank">>
  <2>1. p \in Seq(Chars) /\ Len(p) = 1 /\ p[1] = "blank"
    BY DEF Chars, Marks
  <2>2. Len(buf) >= 1 /\ buf[1] = "blank"
    BY <1>1
  <2> HIDE DEF p
  <2>3. IsPrefix(p, buf) <=> /\ Len(p) <= Len(buf)
                             /\ \A i \in 1..Len(p) : buf[i] = p[i]
    BY <2>1, PrefixesAre
  <2>4. Len(p) <= Len(buf) /\ \A i \in 1..Len(p) : buf[i] = p[i]
    BY <2>1, <2>2
  <2> QED BY <2>3, <2>4 DEF p
<1> QED BY <1>1, <1>2, <1>3, SkipsTheBlank

LEMMA ExtractsBehindBlank ==
    ASSUME buf \in Seq(Chars), Next1(buf) = "blank"
    PROVE  ExtractionOK(buf, ExtractT(Tail(buf)))
<1> DEFINE e == ExtractT(Tail(buf))
<1>1. /\ Tail(buf) \in Seq(Chars) /\ Len(Tail(buf)) <= Len(buf)
      /\ SkipSpaces(buf) = SkipSpaces(Tail(buf))
      /\ Len(buf) \in Nat /\ Len(Tail(buf)) \in Nat
  BY AfterBlank
<1>2. ExtractionOK(Tail(buf), e)
  BY <1>1, Extraction
<1> HIDE DEF e
<1>3. e.rest \in Seq(Chars) /\ Len(e.rest) <= Len(buf)
  BY <1>1, <1>2 DEF ExtractionOK
<1>4. ExtractionOK(buf, e)
  BY <1>1, <1>2, <1>3 DEF ExtractionOK
<1> QED BY <1>4 DEF e

LEMMA ReadKeeps == ASSUME IOInv, UNCHANGED traits, NEW o \in Opts, Read(o)
                   PROVE  IOInv'
<1> DEFINE e == ExtractT(Tail(buf))
<1>1. /\ buf \in Seq(Chars) /\ Len(buf) \in Nat /\ Len(buf) <= BufferBound
      /\ eof \in BOOLEAN /\ fail \in BOOLEAN /\ mask \in BOOLEAN
      /\ val \in [Opts -> Values \cup {DefaultT, Other, None}]
  BY DEF IOInv, TypeOK, Chars
<1>2. Next1(buf) = "blank" => ExtractionOK(buf, e)
  BY <1>1, ExtractsBehindBlank
<1>3. CASE ReadNothing(o)
  BY <1>1, <1>3, OthersKeep DEF ReadNothing
<1>4. CASE ReadValue(o)
  <2>1. /\ Next1(buf) = "blank" /\ buf' = e.rest /\ eof' = e.eof
        /\ fail' = e.fail
        /\ val' = IF mask /\ e.fail THEN val ELSE [val EXCEPT ![o] = e.x]
        /\ DidRead(o, mask /\ e.fail)
    BY <1>4 DEF ReadValue
  <2> HIDE DEF e
  <2>2. ExtractionOK(buf, e) /\ IsPrefix(<<"blank">>, buf)
    BY <1>1, <1>2, <2>1, AfterBlank
  <2>3. val' \in [Opts -> Values \cup {DefaultT, Other, None}]
    BY <1>1, <2>1, <2>2 DEF ExtractionOK
  <2>4. ~e.fail => /\ val'[o] = e.x /\ e.x \in Values \cup {Other}
                   /\ BeginsWith(e.x, buf)
    BY <1>1, <2>1, <2>2, OptionalIOAssumption DEF ExtractionOK, BeginsWith
  <2>5. /\ e.rest \in Seq(Chars) /\ Len(e.rest) <= Len(buf)
        /\ e.eof \in BOOLEAN /\ e.fail \in BOOLEAN
    BY <2>2 DEF ExtractionOK
  <2> QED BY <1>1, <2>1, <2>3, <2>4, <2>5, ReadsKeep
<1>5. CASE ReadThrows(o)
  <2>1. /\ Next1(buf) = "blank" /\ DidRead(o, TRUE)
        /\ \/ buf' = Tail(buf) /\ UNCHANGED <<eof, fail, val>>
           \/ /\ buf' = e.rest /\ eof' = e.eof /\ fail' = e.fail
              /\ \E x \in IF val[o] = None THEN {None}
                                           ELSE {val[o], DefaultT} :
                    val' = [val EXCEPT ![o] = x]
    BY <1>5 DEF ReadThrows
  <2> HIDE DEF e
  <2>2. val' \in [Opts -> Values \cup {DefaultT, Other, None}]
    BY <1>1, <2>1
  <2>3. /\ buf' \in Seq(Chars) /\ Len(buf') <= Len(buf)
        /\ eof' \in BOOLEAN /\ fail' \in BOOLEAN
    BY <1>1, <1>2, <2>1, AfterBlank DEF ExtractionOK
  <2> QED BY <2>1, <2>2, <2>3, ReadsKeep
<1>6. CASE ReadNone(o)
  <2>1. /\ IsPrefix(<<"dash", "dash">>, buf) /\ buf' = SubSeq(buf, 3, Len(buf))
        /\ val' = [val EXCEPT ![o] = None] /\ DidRead(o, FALSE)
        /\ eof' = eof /\ fail' = fail
    BY <1>6 DEF ReadNone
  <2>2. 2 \in 0..Len(buf)
    BY <1>1, <2>1 DEF IsPrefix
  <2>3. buf' \in Seq(Chars) /\ Len(buf') <= Len(buf)
    <3>1. /\ SubSeq(buf, 2 + 1, Len(buf)) \in Seq(Chars)
          /\ Len(SubSeq(buf, 2 + 1, Len(buf))) = Len(buf) - 2
      BY <1>1, <2>2, SuffixIs
    <3> QED BY <1>1, <2>1, <3>1
  <2>4. val'[o] = None /\ val' \in [Opts -> Values \cup {DefaultT, Other, None}]
    BY <1>1, <2>1
  <2>5. BeginsWith(None, buf)
    BY <2>1, OptionalIOAssumption DEF BeginsWith
  <2> QED BY <1>1, <2>1, <2>3, <2>4, <2>5, ReadsKeep
<1>7. CASE ReadMalformed(o)
  <2>1. /\ fail' = TRUE /\ val' = val /\ DidRead(o, mask)
        /\ eof' \in BOOLEAN
        /\ buf' \in {Drop1(buf), Drop1(Drop1(buf))}
    BY <1>7 DEF ReadMalformed
  <2>2. \A b \in Seq(Chars) : Drop1(b) \in Seq(Chars) /\ Len(Drop1(b)) <= Len(b)
    BY DEF Drop1
  <2>3. buf' \in Seq(Chars) /\ Len(buf') <= Len(buf)
    BY <1>1, <2>1, <2>2
  <2> QED BY <1>1, <2>1, <2>3, ReadsKeep
<1> QED BY <1>3, <1>4, <1>5, <1>6, <1>7 DEF Read

LEMMA StepKeepsIO == IOInv /\ [Next]_vars => IOInv'
<1> SUFFICES ASSUME IOInv, [Next]_vars PROVE IOInv'
  OBVIOUS
<1>1. /\ buf \in Seq(Chars) /\ Len(buf) \in Nat /\ Len(buf) <= BufferBound
      /\ eof \in BOOLEAN /\ fail \in BOOLEAN /\ BufferBound \in Nat
      /\ val \in [Opts -> Values \cup {DefaultT, Other, None}]
  BY OptionalIOAssumption DEF IOInv, TypeOK, Chars, BufferBound
<1>2. ASSUME NEW text \in Seq(Chars), Len(text) + Len(buf) <= BufferBound,
             Put(text)
      PROVE  buf' \in Seq(Chars) /\ Len(buf') <= BufferBound
  <2>1. buf' = buf \o text \/ buf' = buf
    BY <1>2 DEF Put
  <2>2. Len(text) \in Nat /\ Len(buf \o text) = Len(buf) + Len(text)
    BY <1>1, <1>2
  <2>3. buf \o text \in Seq(Chars)
    BY <1>1, <1>2
  <2>4. Len(buf) + Len(text) <= BufferBound
    BY <1>1, <1>2, <2>2
  <2> QED BY <1>1, <2>1, <2>2, <2>3, <2>4
<1>3. ASSUME NEW o \in Opts, Write(o), UNCHANGED traits PROVE IOInv'
  <2>1. val[o] \in Values \cup {None} /\ Len(buf) + 3 <= BufferBound
    BY <1>1, <1>3 DEF Write
  <2>2. Output(val[o]) \in Seq(Chars) /\ Len(Output(val[o])) <= 3
    BY <2>1, TextTypes
  <2>3. buf' \in Seq(Chars) /\ Len(buf') <= BufferBound
    BY <1>1, <1>2, <1>3, <2>1, <2>2 DEF Write
  <2> QED BY <1>1, <1>3, <2>3, OthersKeep DEF Write
<1>4. ASSUME WriteNone, UNCHANGED traits PROVE IOInv'
  <2> DEFINE tag == <<"dash", "dash">>
  <2>1. tag \in Seq(Chars) /\ Len(tag) = 2
    BY DEF Chars, Marks
  <2>2. Put(tag) /\ Len(buf) + 3 <= BufferBound
    BY <1>4 DEF WriteNone
  <2> HIDE DEF tag
  <2>3. Len(tag) + Len(buf) <= BufferBound
    BY <1>1, <2>1, <2>2
  <2>4. buf' \in Seq(Chars) /\ Len(buf') <= BufferBound
    BY <1>2, <2>1, <2>2, <2>3
  <2> QED BY <1>1, <1>4, <2>4, OthersKeep DEF WriteNone
<1>5. ASSUME NEW o \in Opts, Assign(o), UNCHANGED traits PROVE IOInv'
  <2>1. val' \in [Opts -> Values \cup {DefaultT, Other, None}]
    BY <1>1, <1>5 DEF Assign
  <2> QED BY <1>1, <1>5, <2>1, OthersKeep DEF Assign
<1>6. ASSUME WriteJunk, UNCHANGED traits PROVE IOInv'
  <2>1. PICK t \in Junk : Put(<<t>>)
    BY <1>6 DEF WriteJunk
  <2>2. /\ <<t>> \in Seq(Chars) /\ Len(<<t>>) = 1
        /\ 1 + Len(buf) <= BufferBound
    BY <1>1, <1>6 DEF WriteJunk, Chars
  <2>3. buf' \in Seq(Chars) /\ Len(buf') <= BufferBound
    BY <1>2, <2>1, <2>2
  <2> QED BY <1>1, <1>6, <2>3, OthersKeep DEF WriteJunk
<1>7. ASSUME Clear, UNCHANGED traits PROVE IOInv'
  BY <1>1, <1>7, OthersKeep DEF Clear
<1>8. CASE UNCHANGED vars
  <2>1. TypeOK'
    BY <1>8 DEF IOInv, TypeOK, vars, traits, BufferBound, Calm
  <2>2. \A x, b : BeginsWith(x, b)' <=> BeginsWith(x, b)
    BY <1>8 DEF BeginsWith, vars, traits
  <2>3. StoresWhatItFound'
    BY <1>8, <2>2 DEF IOInv, StoresWhatItFound, BeginsWith, vars, traits
  <2>4. LastTypeOK'
    BY <1>8 DEF IOInv, LastTypeOK, vars
  <2> QED BY <2>1, <2>3, <2>4 DEF IOInv
<1> QED BY <1>3, <1>4, <1>5, <1>6, <1>7, <1>8, ReadKeeps DEF Next

LEMMA IOInvariant == Spec => []IOInv
  BY IOStart, StepKeepsIO, PTL DEF Spec

(* The stream's text, its bits and the optionals keep their types: an      *)
(* optional holds a value of T, nothing, or what T's default constructor   *)
(* left when its extraction failed.                                        *)
THEOREM TypeCorrect == Spec => []TypeOK
<1>1. IOInv => TypeOK
  BY DEF IOInv
<1> QED BY <1>1, IOInvariant, PTL

(* What a read reports to have read comes first in the stream: none if the *)
(* whole tag does, a value if a blank and then its text do.                *)
THEOREM ReadsAreTruthful == Spec => []StoresWhatItFound
<1>1. IOInv => StoresWhatItFound
  BY DEF IOInv
<1> QED BY <1>1, IOInvariant, PTL

(* A read changes no optional but its own; that loses its value only to    *)
(* the whole tag and gets one only behind a blank, keeps its old value or  *)
(* gets a broken one where T throws, and where the read fails it keeps its *)
(* value, or gets the default T that the failed extraction left, if the    *)
(* stream does not throw.                                                  *)
THEOREM ReadsChangeLittle == Spec => ReadsChangeOnlyAsFound
<1> DEFINE Found(o) ==
             /\ o = last'.o /\ last'.op = "read" /\ Good
             /\ IsPrefix(IF val'[o] = None THEN <<"dash", "dash">>
                                           ELSE <<"blank">>, buf)
             /\ last'.threw => val[o] # None /\ val'[o] = DefaultT
             /\ fail' /\ ~last'.threw => val'[o] = DefaultT /\ ~mask
<1>1. IOInv /\ [Next]_vars =>
        [last'.op # "assign" =>
           \A o \in Opts : val'[o] # val[o] => Found(o)]_vars
  <2> SUFFICES ASSUME IOInv, Next, last'.op # "assign", NEW o \in Opts,
                      val'[o] # val[o]
               PROVE  Found(o)
    OBVIOUS
  <2>1. /\ buf \in Seq(Chars) /\ mask \in BOOLEAN /\ fail \in BOOLEAN
        /\ val \in [Opts -> Values \cup {DefaultT, Other, None}]
    BY DEF IOInv, TypeOK, Chars
  <2>2. val' # val
    OBVIOUS
  <2>3. ~(\E x \in Opts : Write(x) \/ Assign(x))
    <3>1. \A x \in Opts : Assign(x) => last'.op = "assign"
      BY DEF Assign, Did, NoRead
    <3> QED BY <2>2, <3>1 DEF Write
  <2>4. ~WriteNone /\ ~WriteJunk /\ ~Clear
    BY <2>2 DEF WriteNone, WriteJunk, Clear
  <2>5. PICK p \in Opts : Read(p)
    BY <2>3, <2>4 DEF Next
  <2> HIDE DEF Found
  <2>6. CASE ReadValue(p)
    <3> DEFINE e == ExtractT(Tail(buf))
    <3>1. /\ val' = IF mask /\ e.fail THEN val ELSE [val EXCEPT ![p] = e.x]
          /\ DidRead(p, mask /\ e.fail) /\ fail' = e.fail /\ Good
          /\ Next1(buf) = "blank"
      BY <2>6 DEF ReadValue
    <3>2. ExtractionOK(buf, e) /\ IsPrefix(<<"blank">>, buf)
      BY <2>1, <3>1, AfterBlank, ExtractsBehindBlank
    <3> HIDE DEF e
    <3>3. ~(mask /\ e.fail) /\ val' = [val EXCEPT ![p] = e.x]
      BY <2>2, <3>1
    <3>4. o = p /\ val'[o] = e.x /\ e.x # None
      BY <2>1, <3>2, <3>3, OptionalIOAssumption DEF ExtractionOK
    <3>5. last'.o = p /\ last'.op = "read" /\ last'.threw = FALSE
      BY <3>1, <3>3 DEF DidRead
    <3>6. fail' => val'[o] = DefaultT /\ ~mask
      BY <3>1, <3>2, <3>3, <3>4 DEF ExtractionOK
    <3> QED BY <3>1, <3>2, <3>4, <3>5, <3>6 DEF Found
  <2>7. CASE ReadThrows(p)
    <3>1. /\ DidRead(p, TRUE) /\ Good /\ Next1(buf) = "blank"
          /\ \/ val' = val
             \/ \E x \in IF val[p] = None THEN {None} ELSE {val[p], DefaultT} :
                   val' = [val EXCEPT ![p] = x]
      BY <2>7 DEF ReadThrows
    <3>2. IsPrefix(<<"blank">>, buf)
      BY <2>1, <3>1, AfterBlank
    <3>3. o = p /\ val[p] # None /\ val'[o] = DefaultT
      BY <2>1, <2>2, <3>1
    <3>4. last'.o = p /\ last'.op = "read" /\ last'.threw = TRUE
      BY <3>1 DEF DidRead
    <3> QED BY <3>1, <3>2, <3>3, <3>4, OptionalIOAssumption DEF Found
  <2>8. CASE ReadNone(p)
    <3>1. /\ DidRead(p, FALSE) /\ Good /\ IsPrefix(<<"dash", "dash">>, buf)
          /\ val' = [val EXCEPT ![p] = None] /\ fail' = fail
      BY <2>8 DEF ReadNone
    <3>2. o = p /\ val'[o] = None /\ ~fail'
      BY <2>1, <3>1 DEF Good
    <3>3. last'.o = p /\ last'.op = "read" /\ last'.threw = FALSE
      BY <3>1 DEF DidRead
    <3> QED BY <3>1, <3>2, <3>3 DEF Found
  <2>9. ~ReadNothing(p) /\ ~ReadMalformed(p)
    BY <2>2 DEF ReadNothing, ReadMalformed
  <2> QED BY <2>5, <2>6, <2>7, <2>8, <2>9 DEF Read
<1> QED BY <1>1, IOInvariant, PTL DEF Spec, ReadsChangeOnlyAsFound

------------------------------------------------------------------------------
(* What a buffer decodes to. *)

(* What stands at a position, given what stands behind it.                 *)
Reads(b, f, i) ==
    CASE i > Len(b) -> <<>>
      [] i <= Len(b) /\ At(b, i) = "dash" -> <<None>> \o f[i + 2]
      [] i <= Len(b) /\ At(b, i) # "dash" /\ At(b, i + 1) = "dash" ->
            <<At(b, i + 2)>> \o f[i + 3]
      [] OTHER -> <<At(b, i + 1)>> \o f[i + 2]

LEMMA DecodeIs ==
    ASSUME NEW b
    PROVE  Decode(b) =
             CHOOSE f : f = [i \in 1..(Len(b) + 3) |-> Reads(b, f, i)]
  BY Zenon DEF Decode, Reads

(* What stands at a position depends on what stands behind it alone.       *)
LEMMA ReadsBehind ==
    ASSUME NEW S, NEW b \in Seq(S), NEW f, NEW g, NEW i \in 1..(Len(b) + 3),
           \A j \in (i + 1)..(Len(b) + 3) : f[j] = g[j]
    PROVE  Reads(b, f, i) = Reads(b, g, i)
<1>1. Len(b) \in Nat
  OBVIOUS
<1>2. i <= Len(b) => /\ i + 2 \in (i + 1)..(Len(b) + 3)
                     /\ i + 3 \in (i + 1)..(Len(b) + 3)
  BY <1>1
<1>3. i <= Len(b) => f[i + 2] = g[i + 2] /\ f[i + 3] = g[i + 3]
  BY <1>2
<1>4. i > Len(b) \/ i <= Len(b)
  BY <1>1
<1> QED BY <1>3, <1>4 DEF Reads

(* The recursion ends: some function has what Decode is to have, first for *)
(* the last positions, and then for one more.                              *)
LEMMA DecodeExists ==
    ASSUME NEW S, NEW b \in Seq(S)
    PROVE  \E f : f = [i \in 1..(Len(b) + 3) |-> Reads(b, f, i)]
<1> DEFINE n == Len(b) + 3
           Good1(f, k) == /\ f = [i \in 1..n |-> f[i]]
                          /\ \A i \in 1..n : i > n - k => f[i] = Reads(b, f, i)
           Bad == {k \in 0..n : ~\E f : Good1(f, k)}
<1>1. n \in Nat
  OBVIOUS
<1>2. 0 \notin Bad
  <2> DEFINE z == [i \in 1..n |-> <<>>]
  <2>1. z = [i \in 1..n |-> z[i]]
    OBVIOUS
  <2>2. \A i \in 1..n : ~(i > n - 0)
    BY <1>1
  <2>3. Good1(z, 0)
    BY <2>1, <2>2
  <2> HIDE DEF z
  <2> QED BY <2>3
<1>3. ASSUME NEW k \in 0..n, k + 1 \in 0..n, k \notin Bad PROVE k + 1 \notin Bad
  <2>1. PICK f : Good1(f, k)
    BY <1>3
  <2> DEFINE j == n - k
             g == [i \in 1..n |-> IF i = j THEN Reads(b, f, j) ELSE f[i]]
  <2>2. j \in 1..n /\ n - (k + 1) = j - 1 /\ j \in Nat
    BY <1>1, <1>3
  <2>3. g = [i \in 1..n |-> g[i]]
    OBVIOUS
  <2>4. \A i \in 1..n : i > j => g[i] = f[i]
    BY <2>2
  <2>5. g[j] = Reads(b, f, j)
    BY <2>2
  <2> HIDE DEF g, j
  <2>6. \A i \in 1..n : i > j - 1 => g[i] = Reads(b, g, i)
    <3> SUFFICES ASSUME NEW i \in 1..n, i > j - 1 PROVE g[i] = Reads(b, g, i)
      OBVIOUS
    <3>1. i >= j
      BY <2>2
    <3>2. \A m \in (i + 1)..n : m \in 1..n /\ m > j
      BY <1>1, <2>2, <3>1
    <3>3. \A m \in (i + 1)..n : f[m] = g[m]
      BY <2>4, <3>2
    <3>4. Reads(b, f, i) = Reads(b, g, i)
      BY <3>3, ReadsBehind
    <3>5. CASE i = j
      BY <2>5, <3>4, <3>5
    <3>6. CASE i # j
      <4>1. i > j
        BY <2>2, <3>1, <3>6
      <4>2. f[i] = Reads(b, f, i)
        BY <2>1, <4>1 DEF j
      <4> QED BY <2>4, <3>4, <4>1, <4>2
    <3> QED BY <3>5, <3>6
  <2>7. Good1(g, k + 1)
    BY <2>2, <2>3, <2>6
  <2> HIDE DEF Good1
  <2> QED BY <2>7
<1>4. Bad = {}
  <2> SUFFICES ASSUME Bad # {} PROVE FALSE
    OBVIOUS
  <2>1. Bad \subseteq Nat
    BY <1>1
  <2>2. PICK m \in Bad : \A k \in Bad : m <= k
    BY <2>1, LeastMember
  <2>3. m \in 0..n /\ m # 0
    BY <1>2, <2>2
  <2>4. m - 1 \in 0..n /\ (m - 1) + 1 = m
    BY <1>1, <2>3
  <2> HIDE DEF Bad
  <2>5. m - 1 \notin Bad
    BY <2>2, <2>4
  <2> QED BY <1>3, <2>2, <2>3, <2>4, <2>5
<1>5. PICK f : Good1(f, n)
  <2>1. n \in 0..n
    BY <1>1
  <2> QED BY <1>4, <2>1
<1>6. \A i \in 1..n : i > n - n
  BY <1>1
<1>7. f = [i \in 1..n |-> Reads(b, f, i)]
  BY <1>5, <1>6
<1> QED BY <1>7

LEMMA DecodeAt ==
    ASSUME NEW S, NEW b \in Seq(S), NEW i \in 1..(Len(b) + 3)
    PROVE  Decode(b)[i] = Reads(b, Decode(b), i)
<1> DEFINE D == CHOOSE f : f = [j \in 1..(Len(b) + 3) |-> Reads(b, f, j)]
<1>1. Decode(b) = D
  BY DecodeIs
<1>2. D = [j \in 1..(Len(b) + 3) |-> Reads(b, D, j)]
  BY DecodeExists
<1> HIDE DEF D
<1>3. D[i] = Reads(b, D, i)
  BY <1>2
<1> QED BY <1>1, <1>3

(* What stands in the rest of a buffer is what stood there in the buffer.  *)
LEMMA RestDecodes ==
    ASSUME NEW S, NEW b \in Seq(S), NEW k \in 0..Len(b)
    PROVE  \A i \in 1..(Len(b) - k + 3) :
              Decode(SubSeq(b, k + 1, Len(b)))[i] = Decode(b)[i + k]
<1> DEFINE r == SubSeq(b, k + 1, Len(b))
           P(i) == Decode(r)[i] = Decode(b)[i + k]
           n == Len(b) - k + 3
           Bad == {i \in 1..n : ~P(i)}
<1>1. /\ r \in Seq(S) /\ Len(r) = Len(b) - k
      /\ \A i \in 1..(Len(b) - k) : r[i] = b[k + i]
  BY SuffixIs
<1>2. Len(b) \in Nat /\ Len(r) \in Nat /\ n \in Nat /\ k \in Nat
      /\ n = Len(r) + 3
  BY <1>1
<1> HIDE DEF r
<1>3. \A i \in Nat : i > 0 => At(r, i) = At(b, i + k)
  <2> SUFFICES ASSUME NEW i \in Nat, i > 0 PROVE At(r, i) = At(b, i + k)
    OBVIOUS
  <2>1. DOMAIN r = 1..Len(r) /\ DOMAIN b = 1..Len(b)
    BY <1>1
  <2>2. i \in 1..Len(r) <=> i + k \in 1..Len(b)
    BY <1>1, <1>2
  <2>3. i \in 1..Len(r) => r[i] = b[i + k]
    <3>1. k + i = i + k
      BY <1>2
    <3> QED BY <1>1, <3>1
  <2> QED BY <2>1, <2>2, <2>3 DEF At
<1>4. ASSUME NEW i \in 1..n, \A j \in (i + 1)..n : P(j) PROVE P(i)
  <2>1. /\ i \in 1..(Len(r) + 3) /\ i + k \in 1..(Len(b) + 3)
        /\ i \in Nat /\ i > 0
        /\ i > Len(r) <=> i + k > Len(b)
        /\ i <= Len(r) <=> i + k <= Len(b)
        /\ i <= Len(r) => /\ i + 2 \in (i + 1)..n /\ i + 3 \in (i + 1)..n
    BY <1>1, <1>2
  <2>2. /\ (i + 1) + k = (i + k) + 1 /\ (i + 2) + k = (i + k) + 2
        /\ (i + 3) + k = (i + k) + 3
    BY <1>2
  <2>3. /\ At(r, i) = At(b, i + k)
        /\ At(r, i + 1) = At(b, (i + k) + 1)
        /\ At(r, i + 2) = At(b, (i + k) + 2)
    BY <1>3, <2>1, <2>2
  <2>4. i <= Len(r) => /\ Decode(r)[i + 2] = Decode(b)[(i + k) + 2]
                       /\ Decode(r)[i + 3] = Decode(b)[(i + k) + 3]
    BY <1>4, <2>1, <2>2
  <2>5. Reads(r, Decode(r), i) = Reads(b, Decode(b), i + k)
    <3>1. i > Len(r) \/ i <= Len(r)
      BY <1>2, <2>1
    <3> QED BY <2>1, <2>3, <2>4, <3>1 DEF Reads
  <2>6. Decode(r)[i] = Reads(r, Decode(r), i)
    BY <1>1, <2>1, DecodeAt
  <2>7. Decode(b)[i + k] = Reads(b, Decode(b), i + k)
    BY <2>1, DecodeAt
  <2> QED BY <2>5, <2>6, <2>7
<1> HIDE DEF P, n
<1>5. Bad = {}
  <2> SUFFICES ASSUME Bad # {} PROVE FALSE
    OBVIOUS
  <2>1. Bad \subseteq 0..n
    BY <1>2
  <2>2. PICK m \in Bad : \A i \in Bad : i <= m
    BY <1>2, <2>1, GreatestMember
  <2>3. m \in 1..n /\ ~P(m)
    BY <2>2
  <2>4. \A j \in (m + 1)..n : j \in 1..n /\ ~(j <= m)
    BY <1>2, <2>3
  <2>5. \A j \in (m + 1)..n : P(j)
    BY <2>2, <2>4
  <2> QED BY <1>4, <2>3, <2>5
<1> QED BY <1>5 DEF P, n, r

(* The text of one optional: at i, up to but not including j.              *)
Held == Values \cup {None}
Piece(b, i, j, x) ==
    /\ i \in 1..Len(b) /\ j \in 1..(Len(b) + 1)
    /\ \/ /\ x = None /\ j = i + 2
          /\ At(b, i) = "dash" /\ At(b, i + 1) = "dash"
       \/ /\ x \in Values \ Signed /\ j = i + 2
          /\ At(b, i) = "blank" /\ At(b, i + 1) = x
       \/ /\ x \in Signed /\ j = i + 3
          /\ At(b, i) = "blank" /\ At(b, i + 1) = "dash" /\ At(b, i + 2) = x

(* A buffer that holds nothing but optionals, one after the other: the     *)
(* positions where they begin, and that of the end.                        *)
Cuts(b, C) ==
    /\ C \subseteq 1..(Len(b) + 1) /\ 1 \in C
    /\ \A i \in C : i = Len(b) + 1 \/ \E j \in C, x \in Held : Piece(b, i, j, x)

WellFormed(b) == \E C : Cuts(b, C)

LEMMA PieceDecodes ==
    ASSUME NEW S, NEW b \in Seq(S), NEW i, NEW j, NEW x, Piece(b, i, j, x)
    PROVE  Decode(b)[i] = <<x>> \o Decode(b)[j]
<1>1. Len(b) \in Nat /\ i \in 1..(Len(b) + 3) /\ i <= Len(b) /\ ~(i > Len(b))
  BY DEF Piece
<1>2. Decode(b)[i] = Reads(b, Decode(b), i)
  BY <1>1, DecodeAt
<1>3. "dash" \notin Values
  BY OptionalIOAssumption
<1>4. CASE x = None /\ j = i + 2 /\ At(b, i) = "dash"
  BY <1>1, <1>2, <1>4 DEF Reads
<1>5. CASE /\ x \in Values /\ j = i + 2
           /\ At(b, i) = "blank" /\ At(b, i + 1) = x
  <2>1. At(b, i) # "dash" /\ At(b, i + 1) # "dash"
    BY <1>3, <1>5
  <2>2. Reads(b, Decode(b), i) = <<At(b, i + 1)>> \o Decode(b)[i + 2]
    BY <1>1, <2>1 DEF Reads
  <2> QED BY <1>2, <1>5, <2>2
<1>6. CASE /\ j = i + 3 /\ At(b, i) = "blank" /\ At(b, i + 1) = "dash"
           /\ At(b, i + 2) = x
  <2>1. At(b, i) # "dash"
    BY <1>6
  <2>2. Reads(b, Decode(b), i) = <<At(b, i + 2)>> \o Decode(b)[i + 3]
    BY <1>1, <1>6, <2>1 DEF Reads
  <2> QED BY <1>2, <1>6, <2>2
<1> QED BY <1>4, <1>5, <1>6 DEF Piece

LEMMA EndDecodes ==
    ASSUME NEW S, NEW b \in Seq(S) PROVE Decode(b)[Len(b) + 1] = <<>>
<1>1. /\ Len(b) + 1 \in 1..(Len(b) + 3) /\ Len(b) + 1 > Len(b)
      /\ ~(Len(b) + 1 <= Len(b))
  OBVIOUS
<1>2. Decode(b)[Len(b) + 1] = Reads(b, Decode(b), Len(b) + 1)
  BY <1>1, DecodeAt
<1>3. Reads(b, Decode(b), Len(b) + 1) = <<>>
  BY <1>1 DEF Reads
<1> QED BY <1>2, <1>3

(* Downward from the end of the buffer, from optional to optional.         *)
LEMMA FromTheEnd ==
    ASSUME NEW S, NEW b \in Seq(S), NEW C, Cuts(b, C), NEW T, T \subseteq C,
           Len(b) + 1 \in C => Len(b) + 1 \in T,
           \A i \in C, j \in T, x \in Held : Piece(b, i, j, x) => i \in T
    PROVE  T = C
<1> DEFINE Bad == C \ T
<1> SUFFICES ASSUME Bad # {} PROVE FALSE
  OBVIOUS
<1>1. Bad \subseteq 0..(Len(b) + 1) /\ Len(b) + 1 \in Nat
  BY DEF Cuts
<1>2. PICK i \in Bad : \A j \in Bad : j <= i
  BY <1>1, GreatestMember
<1>3. PICK j \in C, x \in Held : Piece(b, i, j, x)
  BY <1>2 DEF Cuts
<1>4. ~(j <= i)
  BY <1>3 DEF Piece
<1>5. j \in T
  BY <1>2, <1>3, <1>4
<1> QED BY <1>2, <1>3, <1>5

LEMMA DecodedTypes ==
    ASSUME NEW S, NEW b \in Seq(S), NEW C, Cuts(b, C)
    PROVE  \A i \in C : Decode(b)[i] \in Seq(Held)
<1> DEFINE T == {i \in C : Decode(b)[i] \in Seq(Held)}
<1>1. Decode(b)[Len(b) + 1] \in Seq(Held)
  <2>1. <<>> \in Seq(Held)
    OBVIOUS
  <2> QED BY <2>1, EndDecodes
<1>2. ASSUME NEW i \in C, NEW j \in T, NEW x \in Held, Piece(b, i, j, x)
      PROVE  i \in T
  <2>1. Decode(b)[i] = <<x>> \o Decode(b)[j]
    BY <1>2, PieceDecodes
  <2>2. <<x>> \in Seq(Held) /\ Decode(b)[j] \in Seq(Held)
    OBVIOUS
  <2>3. \A s, t \in Seq(Held) : s \o t \in Seq(Held)
    OBVIOUS
  <2>4. Decode(b)[i] \in Seq(Held)
    BY <2>1, <2>2, <2>3
  <2> QED BY <2>4
<1>3. T \subseteq C /\ (Len(b) + 1 \in C => Len(b) + 1 \in T)
  BY <1>1
<1> HIDE DEF T
<1>4. T = C
  BY <1>2, <1>3, FromTheEnd
<1> QED BY <1>4 DEF T

------------------------------------------------------------------------------
(* Writing and reading. *)

(* What is written decodes to what was written before and then to x.       *)
LEMMA WriteDecodes ==
    ASSUME NEW b \in Seq(Chars), WellFormed(b), NEW x \in Held
    PROVE  LET c == b \o Output(x)
           IN  /\ WellFormed(c)
               /\ Decode(b)[1] \in Seq(Held)
               /\ Decode(c)[1] = Append(Decode(b)[1], x)
<1> DEFINE c == b \o Output(x)
           w == Output(x)
           n == Len(b)
           end == n + Len(w) + 1
<1>1. PICK C : Cuts(b, C)
  BY DEF WellFormed
<1>2. w \in Seq(Chars) /\ Len(w) \in Nat /\ n \in Nat
  BY TextTypes DEF Held
<1>3. /\ \/ x = None /\ Len(w) = 2 /\ w[1] = "dash" /\ w[2] = "dash"
         \/ /\ x \in Values \ Signed
            /\ Len(w) = 2 /\ w[1] = "blank" /\ w[2] = x
         \/ /\ x \in Signed
            /\ Len(w) = 3 /\ w[1] = "blank" /\ w[2] = "dash" /\ w[3] = x
  <2>1. CASE x = None
    <3>1. w = <<"dash", "dash">>
      BY <2>1 DEF Output
    <3> HIDE DEF w
    <3> QED BY <2>1, <3>1
  <2>2. CASE x # None /\ x \in Signed
    <3>1. w = <<"blank">> \o <<"dash", x>>
      BY <2>2 DEF Output, Text
    <3> DEFINE p == <<"blank">>
               q == <<"dash", x>>
    <3>2. /\ p \in Seq(Chars) /\ Len(p) = 1 /\ p[1] = "blank"
          /\ q \in Seq(Chars) /\ Len(q) = 2 /\ q[1] = "dash" /\ q[2] = x
      BY <2>2, OptionalIOAssumption DEF Chars, Marks
    <3> HIDE DEF w, p, q
    <3>3. /\ Len(p \o q) = 3 /\ (p \o q)[1] = p[1]
          /\ (p \o q)[2] = q[1] /\ (p \o q)[3] = q[2]
      <4>1. /\ Len(p \o q) = Len(p) + Len(q)
            /\ \A i \in 1..(Len(p) + Len(q)) :
                  (p \o q)[i] = IF i <= Len(p) THEN p[i] ELSE q[i - Len(p)]
        BY <3>2, ConcatProperties
      <4>2. Len(p) + Len(q) = 3 /\ \A i \in 1..3 : i <= Len(p) <=> i = 1
        BY <3>2
      <4>3. 1 \in 1..3 /\ 2 \in 1..3 /\ 3 \in 1..3
            /\ 2 - 1 = 1 /\ 3 - 1 = 2
        OBVIOUS
      <4> QED BY <3>2, <4>1, <4>2, <4>3
    <3>4. w = p \o q
      BY <3>1 DEF p, q
    <3> QED BY <2>2, <3>2, <3>3, <3>4
  <2>3. CASE x # None /\ x \notin Signed
    <3>1. w = <<"blank">> \o <<x>> /\ x \in Values \ Signed
      BY <2>3 DEF Output, Text, Held
    <3> DEFINE p == <<"blank">>
               q == <<x>>
    <3>2. /\ p \in Seq(Chars) /\ Len(p) = 1 /\ p[1] = "blank"
          /\ q \in Seq(Chars) /\ Len(q) = 1 /\ q[1] = x
      BY <3>1 DEF Chars, Marks
    <3> HIDE DEF w, p, q
    <3>3. /\ Len(p \o q) = 2 /\ (p \o q)[1] = p[1]
          /\ (p \o q)[2] = q[1]
      <4>1. /\ Len(p \o q) = Len(p) + Len(q)
            /\ \A i \in 1..(Len(p) + Len(q)) :
                  (p \o q)[i] = IF i <= Len(p) THEN p[i] ELSE q[i - Len(p)]
        BY <3>2, ConcatProperties
      <4>2. Len(p) + Len(q) = 2 /\ \A i \in 1..2 : i <= Len(p) <=> i = 1
        BY <3>2
      <4>3. 1 \in 1..2 /\ 2 \in 1..2 /\ 2 - 1 = 1
        OBVIOUS
      <4> QED BY <3>2, <4>1, <4>2, <4>3
    <3>4. w = p \o q
      BY <3>1 DEF p, q
    <3> QED BY <2>3, <3>1, <3>2, <3>3, <3>4
  <2> QED BY <2>1, <2>2, <2>3
<1>4. /\ c \in Seq(Chars) /\ Len(c) = n + Len(w)
      /\ \A i \in 1..n : c[i] = b[i]
      /\ \A i \in 1..Len(w) : c[n + i] = w[i]
  <2> HIDE DEF w
  <2>1. c = b \o w
    BY DEF w
  <2>2. /\ b \o w \in Seq(Chars) /\ Len(b \o w) = n + Len(w)
        /\ \A i \in 1..n : (b \o w)[i] = b[i]
        /\ \A i \in 1..Len(w) : (b \o w)[n + i] = w[i]
    BY <1>2
  <2> QED BY <2>1, <2>2
<1> HIDE DEF c, w
<1>5. /\ \A i \in 1..n : At(c, i) = At(b, i)
      /\ \A i \in 1..Len(w) : At(c, n + i) = w[i]
  <2>1. DOMAIN c = 1..(n + Len(w)) /\ DOMAIN b = 1..n
    BY <1>2, <1>4
  <2>2. \A i \in 1..n : i \in 1..(n + Len(w))
    BY <1>2
  <2>3. \A i \in 1..Len(w) : n + i \in 1..(n + Len(w))
    BY <1>2
  <2> QED BY <1>4, <2>1, <2>2, <2>3 DEF At
<1>6. ASSUME NEW i, NEW j, NEW y \in Held, Piece(b, i, j, y)
      PROVE  Piece(c, i, j, y)
  <2>1. i \in 1..Len(c) /\ j \in 1..(Len(c) + 1)
    BY <1>2, <1>4, <1>6 DEF Piece
  <2>2. i \in 1..n /\ j \in 1..(n + 1)
    BY <1>6 DEF Piece
  <2>3. /\ i + 1 \in 1..n \/ j < i + 2
        /\ i + 2 \in 1..n \/ j < i + 3
    BY <1>2, <2>2
  <2>4. CASE /\ y = None /\ j = i + 2
             /\ At(b, i) = "dash" /\ At(b, i + 1) = "dash"
    <3>1. i + 1 \in 1..n
      BY <2>2, <2>3, <2>4
    <3> QED BY <1>5, <2>1, <2>2, <2>4, <3>1 DEF Piece
  <2>5. CASE /\ y \in Values \ Signed /\ j = i + 2
             /\ At(b, i) = "blank" /\ At(b, i + 1) = y
    <3>1. i + 1 \in 1..n
      BY <2>2, <2>3, <2>5
    <3> QED BY <1>5, <2>1, <2>2, <2>5, <3>1 DEF Piece
  <2>6. CASE /\ y \in Signed /\ j = i + 3 /\ At(b, i) = "blank"
             /\ At(b, i + 1) = "dash" /\ At(b, i + 2) = y
    <3>1. i + 1 \in 1..n /\ i + 2 \in 1..n
      BY <1>2, <2>2, <2>6
    <3> QED BY <1>5, <2>1, <2>2, <2>6, <3>1 DEF Piece
  <2> QED BY <1>6, <2>4, <2>5, <2>6 DEF Piece
<1>7. Piece(c, n + 1, end, x) /\ end = Len(c) + 1
  <2>1. end = Len(c) + 1 /\ Len(c) \in Nat
    BY <1>2, <1>4
  <2>2. n + 1 + 1 = n + 2 /\ n + 1 + 2 = n + 3
    BY <1>2
  <2>3. CASE x = None /\ Len(w) = 2 /\ w[1] = "dash" /\ w[2] = "dash"
    <3>1. n + 1 \in 1..Len(c) /\ end \in 1..(Len(c) + 1) /\ end = n + 1 + 2
      BY <1>2, <1>4, <2>3
    <3>2. At(c, n + 1) = "dash" /\ At(c, n + 1 + 1) = "dash"
      BY <1>5, <2>2, <2>3
    <3> HIDE DEF end
    <3> QED BY <2>1, <2>3, <3>1, <3>2 DEF Piece
  <2>4. CASE /\ x \in Values \ Signed
             /\ Len(w) = 2 /\ w[1] = "blank" /\ w[2] = x
    <3>1. n + 1 \in 1..Len(c) /\ end \in 1..(Len(c) + 1) /\ end = n + 1 + 2
      BY <1>2, <1>4, <2>4
    <3>2. At(c, n + 1) = "blank" /\ At(c, n + 1 + 1) = x
      BY <1>5, <2>2, <2>4
    <3> HIDE DEF end
    <3> QED BY <2>1, <2>4, <3>1, <3>2 DEF Piece
  <2>5. CASE /\ x \in Signed
             /\ Len(w) = 3 /\ w[1] = "blank" /\ w[2] = "dash" /\ w[3] = x
    <3>1. n + 1 \in 1..Len(c) /\ end \in 1..(Len(c) + 1) /\ end = n + 1 + 3
      BY <1>2, <1>4, <2>5
    <3>2. /\ At(c, n + 1) = "blank" /\ At(c, n + 1 + 1) = "dash"
          /\ At(c, n + 1 + 2) = x
      BY <1>5, <2>2, <2>5
    <3> HIDE DEF end
    <3> QED BY <2>1, <2>5, <3>1, <3>2 DEF Piece
  <2> QED BY <1>3, <2>1, <2>3, <2>4, <2>5
<1> HIDE DEF end
<1>8. WellFormed(c)
  <2> DEFINE D == C \cup {n + 1, end}
  <2>1. D \subseteq 1..(Len(c) + 1) /\ 1 \in D
    <3>1. \A i \in 1..(n + 1) : i \in 1..(Len(c) + 1)
      BY <1>2, <1>4
    <3>2. n + 1 \in 1..(n + 1) /\ end \in 1..(Len(c) + 1)
      BY <1>2, <1>4, <1>7
    <3> QED BY <1>1, <3>1, <3>2 DEF Cuts
  <2>2. ASSUME NEW i \in D
        PROVE  i = Len(c) + 1 \/ \E j \in D, y \in Held : Piece(c, i, j, y)
    <3>1. CASE i = end
      BY <1>7, <3>1
    <3>2. CASE i = n + 1
      BY <1>7, <3>2
    <3>3. CASE i \in C /\ i # n + 1
      BY <1>1, <1>6, <3>3 DEF Cuts
    <3> QED BY <3>1, <3>2, <3>3
  <2> HIDE DEF D
  <2>3. Cuts(c, D)
    BY <2>1, <2>2 DEF Cuts
  <2> QED BY <2>3 DEF WellFormed
<1>9. \A i \in C : Decode(b)[i] \in Seq(Held)
  BY <1>1, DecodedTypes
<1>10. \A i \in C : Decode(c)[i] = Decode(b)[i] \o <<x>>
  <2> DEFINE T == {i \in C : Decode(c)[i] = Decode(b)[i] \o <<x>>}
  <2>1. n + 1 \in C => n + 1 \in T
    <3>1. Decode(b)[n + 1] = <<>> /\ Decode(c)[end] = <<>>
      BY <1>4, <1>7, EndDecodes
    <3>2. Decode(c)[n + 1] = <<x>> \o Decode(c)[end]
      <4> HIDE DEF T
      <4>1. c \in Seq(Chars) /\ Piece(c, n + 1, end, x)
        BY <1>4, <1>7
      <4> QED BY ONLY <4>1, PieceDecodes
    <3>3. <<x>> \o <<>> = <<>> \o <<x>>
      OBVIOUS
    <3>4. Decode(c)[n + 1] = Decode(b)[n + 1] \o <<x>>
      BY <3>1, <3>2, <3>3
    <3> QED BY <3>4
  <2>2. ASSUME NEW i \in C, NEW j \in T, NEW y \in Held, Piece(b, i, j, y)
        PROVE  i \in T
    <3>1. Decode(b)[i] = <<y>> \o Decode(b)[j]
      BY <2>2, PieceDecodes
    <3>2. Decode(c)[i] = <<y>> \o Decode(c)[j]
      BY <1>4, <1>6, <2>2, PieceDecodes
    <3>3. /\ Decode(c)[j] = Decode(b)[j] \o <<x>>
          /\ Decode(b)[j] \in Seq(Held)
      BY <1>9
    <3>4. /\ <<y>> \in Seq(Held) /\ <<x>> \in Seq(Held)
      OBVIOUS
    <3>5. \A r, s, t \in Seq(Held) : r \o (s \o t) = (r \o s) \o t
      BY ConcatAssociative
    <3>6. <<y>> \o (Decode(b)[j] \o <<x>>) = (<<y>> \o Decode(b)[j]) \o <<x>>
      BY <3>3, <3>4, <3>5
    <3>7. Decode(c)[i] = Decode(b)[i] \o <<x>>
      BY <3>1, <3>2, <3>3, <3>6
    <3> QED BY <3>7
  <2>3. T \subseteq C
    OBVIOUS
  <2> HIDE DEF T
  <2>4. T = C
    BY <1>1, <2>1, <2>2, <2>3, FromTheEnd
  <2> QED BY <2>4 DEF T
<1>11. Decode(b)[1] \in Seq(Held) /\ Decode(c)[1] = Decode(b)[1] \o <<x>>
  BY <1>1, <1>9, <1>10 DEF Cuts
<1>12. Decode(b)[1] \o <<x>> = Append(Decode(b)[1], x)
  <2>1. \A s \in Seq(Held) : s \o <<x>> = Append(s, x)
    OBVIOUS
  <2> QED BY <1>11, <2>1
<1> QED BY <1>8, <1>11, <1>12 DEF c

(* What is read off the front is the first optional, and the rest decodes  *)
(* to the others.                                                          *)
LEMMA ReadDecodes ==
    ASSUME NEW b \in Seq(Chars), NEW C, Cuts(b, C), NEW j \in C, NEW x \in Held,
           Piece(b, 1, j, x)
    PROVE  LET r == SubSeq(b, j, Len(b))
           IN  /\ WellFormed(r)
               /\ Decode(r)[1] \in Seq(Held)
               /\ Decode(b)[1] = <<x>> \o Decode(r)[1]
<1> DEFINE k == j - 1
           r == SubSeq(b, k + 1, Len(b))
<1>1. /\ Len(b) \in Nat /\ j \in 3..(Len(b) + 1) /\ k \in 2..Len(b)
      /\ k \in 0..Len(b) /\ k + 1 = j
  BY DEF Piece
<1>2. /\ r \in Seq(Chars) /\ Len(r) = Len(b) - k
      /\ \A i \in 1..(Len(b) - k) : r[i] = b[k + i]
  BY <1>1, SuffixIs
<1>3. \A i \in 1..(Len(b) - k + 3) : Decode(r)[i] = Decode(b)[i + k]
  BY <1>1, RestDecodes
<1>4. r = SubSeq(b, j, Len(b))
  BY <1>1
<1> HIDE DEF k, r
<1>5. \A i \in Nat : i > k => At(r, i - k) = At(b, i)
  <2> SUFFICES ASSUME NEW i \in Nat, i > k PROVE At(r, i - k) = At(b, i)
    OBVIOUS
  <2>1. DOMAIN r = 1..(Len(b) - k) /\ DOMAIN b = 1..Len(b)
    BY <1>2
  <2>2. /\ i - k \in 1..(Len(b) - k) <=> i \in 1..Len(b)
        /\ k + (i - k) = i
    BY <1>1
  <2> QED BY <1>2, <2>1, <2>2 DEF At
<1>6. ASSUME NEW i \in C, i >= j, NEW m \in C, NEW y \in Held, Piece(b, i, m, y)
      PROVE  Piece(r, i - k, m - k, y) /\ m >= j
  <2>1. /\ i \in 1..Len(b) /\ m \in 1..(Len(b) + 1) /\ i < m
        /\ i \in Nat /\ i > k
    BY <1>1, <1>6 DEF Piece
  <2>2. /\ i - k \in 1..Len(r) /\ m - k \in 1..(Len(r) + 1) /\ m >= j
        /\ i + 1 > k /\ i + 2 > k /\ i + 1 \in Nat /\ i + 2 \in Nat
        /\ (i + 1) - k = (i - k) + 1 /\ (i + 2) - k = (i - k) + 2
        /\ m = i + 2 => m - k = (i - k) + 2
        /\ m = i + 3 => m - k = (i - k) + 3
    BY <1>1, <1>2, <1>6, <2>1
  <2>3. /\ At(r, i - k) = At(b, i)
        /\ At(r, (i - k) + 1) = At(b, i + 1)
        /\ At(r, (i - k) + 2) = At(b, i + 2)
    BY <1>5, <2>1, <2>2
  <2> QED BY <1>6, <2>2, <2>3 DEF Piece
<1> DEFINE D == {i - k : i \in {n \in C : n >= j}}
<1>7. Cuts(r, D)
  <2>1. ASSUME NEW i \in C, i >= j PROVE i - k \in 1..(Len(r) + 1)
    BY <1>1, <1>2, <2>1 DEF Cuts
  <2>2. j - k \in D /\ j - k = 1
    BY <1>1
  <2>3. ASSUME NEW i \in C, i >= j, i - k # Len(r) + 1
        PROVE  \E d \in D, y \in Held : Piece(r, i - k, d, y)
    <3>1. i # Len(b) + 1
      BY <1>1, <1>2, <2>3
    <3>2. PICK m \in C, y \in Held : Piece(b, i, m, y)
      BY <3>1 DEF Cuts
    <3>3. Piece(r, i - k, m - k, y) /\ m >= j
      BY <1>6, <2>3, <3>2
    <3> QED BY <3>3
  <2>4. \A d \in D : d \in 1..(Len(r) + 1)
    BY <2>1
  <2>5. \A d \in D : d = Len(r) + 1 \/ \E e \in D, y \in Held : Piece(r, d, e, y)
    BY <2>3
  <2> HIDE DEF D
  <2> QED BY <2>2, <2>4, <2>5 DEF Cuts
<1>8. Decode(r)[1] \in Seq(Held)
  BY <1>2, <1>7, DecodedTypes DEF Cuts
<1>9. Decode(b)[1] = <<x>> \o Decode(b)[j]
  BY PieceDecodes
<1>10. Decode(r)[1] = Decode(b)[j]
  <2>1. 1 \in 1..(Len(b) - k + 3) /\ 1 + k = j
    BY <1>1
  <2> QED BY <1>3, <2>1
<1> QED BY <1>4, <1>7, <1>8, <1>9, <1>10 DEF WellFormed

(* T's operator>> finds the value whose text comes first, and that one     *)
(* only, and leaves what comes after its text, unless it reads words.      *)
LEMMA ExtractsValue ==
    ASSUME NEW b \in Seq(Chars), NEW j, NEW x \in Values, Piece(b, 1, j, x),
           reads # "word"
    PROVE  /\ ExtractT(Tail(b)).x = x /\ ExtractT(Tail(b)).fail = FALSE
           /\ ExtractT(Tail(b)).rest = SubSeq(b, j, Len(b))
<1> DEFINE c == Tail(b)
           begun == {v \in Values : IsPrefix(Text(v), c)}
<1>1. /\ c \in Seq(Chars) /\ Len(b) \in Nat /\ Len(b) >= 1
      /\ Len(c) = Len(b) - 1 /\ Len(c) \in Nat
      /\ \A i \in 1..Len(c) : c[i] = b[i + 1]
  BY DEF Piece
<1>2. x # None /\ "dash" \notin Values /\ "blank" \notin Values
      /\ Signed \subseteq Values
  BY OptionalIOAssumption
<1>3. \/ /\ x \in Values \ Signed /\ j = 3 /\ Len(c) >= 1 /\ c[1] = x
      \/ /\ x \in Signed /\ j = 4 /\ Len(c) >= 2
         /\ c[1] = "dash" /\ c[2] = x
  <2>1. \A i \in 1..2 : i <= Len(c) => At(b, i + 1) = c[i]
    <3>1. \A i \in 1..2 : i <= Len(c) => i \in 1..Len(c) /\ i + 1 \in 1..Len(b)
      BY <1>1
    <3>2. DOMAIN b = 1..Len(b)
      OBVIOUS
    <3> QED BY <1>1, <3>1, <3>2 DEF At
  <2>2. 1 \in 1..2 /\ 2 \in 1..2 /\ 1 + 1 = 2 /\ 2 + 1 = 3 /\ 1 + 2 = 3 /\ 1 + 3 = 4
    OBVIOUS
  <2>3. At(b, 2) = c[1] \/ ~(1 <= Len(c))
    BY <2>1, <2>2
  <2>4. At(b, 3) = c[2] \/ ~(2 <= Len(c))
    BY <2>1, <2>2
  <2> HIDE DEF c
  <2>5. CASE x \in Values \ Signed /\ j = 1 + 2 /\ At(b, 1 + 1) = x
    <3>1. Len(c) >= 1
      BY <1>1, <2>5 DEF Piece
    <3> QED BY <1>1, <2>2, <2>3, <2>5, <3>1
  <2>6. CASE /\ x \in Signed /\ j = 1 + 3
             /\ At(b, 1 + 1) = "dash" /\ At(b, 1 + 2) = x
    <3>1. Len(c) >= 2
      BY <1>1, <2>6 DEF Piece
    <3> QED BY <1>1, <2>2, <2>3, <2>4, <2>6, <3>1
  <2> QED BY <1>2, <2>5, <2>6 DEF Piece
<1> HIDE DEF c
<1>4. c[1] # "blank" /\ Len(c) >= 1
  BY <1>1, <1>2, <1>3
<1>5. SkipSpaces(c) = c
  <2>1. PICK n \in Spaces(c) : SkipSpaces(c) = SubSeq(c, n + 1, Len(c))
    BY <1>1, SkippedSpaces
  <2>2. n = 0
    <3>1. n \in 0..Len(c) /\ \A i \in 1..n : c[i] = "blank"
      BY DEF Spaces
    <3>2. n >= 1 => 1 \in 1..n
      BY <3>1
    <3> QED BY <1>1, <1>4, <3>1, <3>2
  <2>3. SubSeq(c, 1, Len(c)) = c
    BY <1>1
  <2> QED BY <2>1, <2>2, <2>3
<1>6. ASSUME NEW v \in Values
      PROVE  /\ v \in Signed =>
                  (IsPrefix(Text(v), c) <=>
                     Len(c) >= 2 /\ c[1] = "dash" /\ c[2] = v)
             /\ v \notin Signed =>
                  (IsPrefix(Text(v), c) <=> c[1] = v)
             /\ Len(Text(v)) = IF v \in Signed THEN 2 ELSE 1
  <2> DEFINE p == Text(v)
  <2>1. p \in Seq(Chars)
    BY TextTypes
  <2>2. CASE v \in Signed
    <3>1. p = <<"dash", v>>
      BY <2>2 DEF Text
    <3> HIDE DEF p
    <3>2. Len(p) = 2 /\ p[1] = "dash" /\ p[2] = v
      BY <3>1
    <3>3. IsPrefix(p, c) <=> /\ Len(p) <= Len(c)
                             /\ \A i \in 1..Len(p) : c[i] = p[i]
      BY <1>1, <2>1, PrefixesAre
    <3>4. \A i : i \in 1..2 <=> i = 1 \/ i = 2
      OBVIOUS
    <3>5. (\A i \in 1..Len(p) : c[i] = p[i]) <=> c[1] = "dash" /\ c[2] = v
      BY <3>2, <3>4
    <3>6. Len(p) <= Len(c) <=> Len(c) >= 2
      BY <1>1, <3>2
    <3> QED BY <2>2, <3>2, <3>3, <3>5, <3>6 DEF p
  <2>3. CASE v \notin Signed
    <3>1. p = <<v>>
      BY <2>3 DEF Text
    <3> HIDE DEF p
    <3>2. Len(p) = 1 /\ p[1] = v
      BY <3>1
    <3>3. IsPrefix(p, c) <=> /\ Len(p) <= Len(c)
                             /\ \A i \in 1..Len(p) : c[i] = p[i]
      BY <1>1, <2>1, PrefixesAre
    <3>4. \A i : i \in 1..1 <=> i = 1
      OBVIOUS
    <3>5. (\A i \in 1..Len(p) : c[i] = p[i]) <=> c[1] = v
      BY <3>2, <3>4
    <3>6. Len(p) <= Len(c)
      BY <1>1, <1>4, <3>2
    <3> QED BY <2>3, <3>2, <3>3, <3>5, <3>6 DEF p
  <2> QED BY <2>2, <2>3
<1>7. begun = {x}
  <2>1. ASSUME NEW v \in Values PROVE IsPrefix(Text(v), c) <=> v = x
    <3>1. CASE x \in Values \ Signed /\ c[1] = x
      BY <1>2, <1>6, <3>1
    <3>2. CASE x \in Signed /\ Len(c) >= 2 /\ c[1] = "dash" /\ c[2] = x
      BY <1>2, <1>6, <3>2
    <3> QED BY <1>3, <3>1, <3>2
  <2> QED BY <2>1
<1> DEFINE after == SubSeq(c, Len(Text(x)) + 1, Len(c))
<1>8. ExtractT(c) =
        Extracted(x, after, reads = "number" /\ after = <<>>, FALSE)
  <2>1. (CHOOSE v \in begun : TRUE) = x /\ begun # {}
    BY <1>7
  <2> HIDE DEF begun
  <2>2. ExtractT(c) =
          IF begun # {}
          THEN LET v == CHOOSE v \in begun : TRUE
                   a == SubSeq(c, Len(Text(v)) + 1, Len(c))
               IN  Extracted(v, a, reads = "number" /\ a = <<>>, FALSE)
          ELSE ExtractT(c)
    BY <1>5 DEF ExtractT, ExtractValue, begun
  <2> QED BY <2>1, <2>2
<1>9. after = SubSeq(b, j, Len(b))
  <2> DEFINE t == Len(Text(x))
             u == SubSeq(c, t + 1, Len(c))
             w == SubSeq(b, (t + 1) + 1, Len(b))
  <2>1. t \in Nat /\ t + 2 = j /\ t <= Len(c) /\ t + 1 <= Len(b)
    <3>1. t = IF x \in Signed THEN 2 ELSE 1
      BY <1>6
    <3> HIDE DEF t
    <3>2. CASE x \in Values \ Signed /\ j = 3 /\ Len(c) >= 1
      BY <1>1, <3>1, <3>2
    <3>3. CASE x \in Signed /\ j = 4 /\ Len(c) >= 2
      BY <1>1, <3>1, <3>3
    <3> QED BY <1>3, <3>2, <3>3
  <2> HIDE DEF t
  <2>2. /\ u \in Seq(Chars) /\ Len(u) = Len(c) - t
        /\ \A i \in 1..(Len(c) - t) : u[i] = c[t + i]
    <3>1. t \in 0..Len(c)
      BY <1>1, <2>1
    <3> QED BY <1>1, <3>1, SuffixIs
  <2>3. /\ w \in Seq(Chars) /\ Len(w) = Len(b) - (t + 1)
        /\ \A i \in 1..(Len(b) - (t + 1)) : w[i] = b[(t + 1) + i]
    <3>1. t + 1 \in 0..Len(b)
      BY <1>1, <2>1
    <3> QED BY <1>1, <3>1, SuffixIs
  <2> HIDE DEF u, w
  <2>4. Len(u) = Len(w)
    BY <1>1, <2>1, <2>2, <2>3
  <2>5. \A i \in 1..Len(u) : u[i] = w[i]
    <3> SUFFICES ASSUME NEW i \in 1..Len(u) PROVE u[i] = w[i]
      OBVIOUS
    <3>1. /\ i \in 1..(Len(c) - t) /\ i \in 1..(Len(b) - (t + 1))
          /\ t + i \in 1..Len(c) /\ (t + i) + 1 = (t + 1) + i
      BY <1>1, <2>1, <2>2
    <3> QED BY <1>1, <2>2, <2>3, <3>1
  <2>6. u = w
    BY <2>2, <2>3, <2>4, <2>5, SeqEqual
  <2>7. (t + 1) + 1 = j
    BY <2>1
  <2> QED BY <2>6, <2>7 DEF t, u, w
<1> HIDE DEF after
<1> QED BY <1>8, <1>9 DEF Extracted, c

------------------------------------------------------------------------------
(* The channel.  While nothing but optionals is written, T does not throw  *)
(* and is not read as a word, the buffer is well formed, and no failed     *)
(* extraction has left a default T in an optional.                         *)
ChannelInv == Lossless => WellFormed(buf) /\ val \in [Opts -> Held]

Items == IF Lossless THEN Decoded ELSE <<>>
Vals == IF Lossless THEN val ELSE [o \in Opts |-> None]

LEMMA ChannelStart == Init => ChannelInv /\ Channel!Init
<1> SUFFICES ASSUME Init PROVE ChannelInv /\ Channel!Init
  OBVIOUS
<1>1. buf = <<>> /\ buf \in Seq(Chars) /\ Len(buf) = 0
  BY DEF Init
<1>2. val = [o \in Opts |-> None] /\ val \in [Opts -> Held]
  BY DEF Init, Held
<1>3. WellFormed(buf)
  <2>1. Cuts(buf, {1})
    BY <1>1 DEF Cuts
  <2> QED BY <2>1 DEF WellFormed
<1>4. Decoded = <<>>
  <2>1. Decode(buf)[Len(buf) + 1] = <<>>
    BY <1>1, EndDecodes
  <2> QED BY <1>1, <2>1 DEF Decoded
<1> QED BY <1>2, <1>3, <1>4 DEF ChannelInv, Channel!Init

(* A write: the channel is sent x, or the stream has failed and the step   *)
(* is none.                                                                *)
LEMMA WriteSends ==
    ASSUME IOInv, ChannelInv, Lossless, Lossless', NEW x \in Held, Put(Output(x)),
           val' = val
    PROVE  /\ ChannelInv'
           /\ Vals' = Vals
           /\ Items' = Append(Items, x) \/ Items' = Items
<1>1. buf \in Seq(Chars) /\ WellFormed(buf) /\ val \in [Opts -> Held]
  BY DEF IOInv, TypeOK, ChannelInv, Chars
<1>2. Vals' = Vals
  BY DEF Vals
<1>3. CASE Good
  <2>1. buf' = buf \o Output(x)
    BY <1>3 DEF Put
  <2>2. WellFormed(buf') /\ Decode(buf')[1] = Append(Decode(buf)[1], x)
    BY <1>1, <2>1, WriteDecodes
  <2> QED BY <1>1, <1>2, <2>2 DEF ChannelInv, Items, Decoded
<1>4. CASE ~Good
  <2>1. buf' = buf
    BY <1>4 DEF Put
  <2> QED BY <1>1, <1>2, <2>1 DEF ChannelInv, Items, Decoded
<1> QED BY <1>3, <1>4

(* A read of a stream that is good: of an optional that comes first, which *)
(* is received, or of nothing.                                             *)
LEMMA ReadReceives ==
    ASSUME IOInv, ChannelInv, Lossless, Lossless', NEW o \in Opts, Read(o)
    PROVE  /\ ChannelInv'
           /\ \/ Channel!Receive(o)
              \/ UNCHANGED <<Vals, Items>>
<1>1. /\ buf \in Seq(Chars) /\ WellFormed(buf) /\ val \in [Opts -> Held]
      /\ Len(buf) \in Nat
  BY DEF IOInv, TypeOK, ChannelInv, Chars
<1>2. PICK C : Cuts(buf, C)
  BY <1>1 DEF WellFormed
<1>3. ASSUME NEW j \in C, NEW x \in Held, Piece(buf, 1, j, x),
             buf' = SubSeq(buf, j, Len(buf)), val' = [val EXCEPT ![o] = x]
      PROVE  ChannelInv' /\ Channel!Receive(o)
  <2>1. /\ WellFormed(buf') /\ Decode(buf')[1] \in Seq(Held)
        /\ Decode(buf)[1] = <<x>> \o Decode(buf')[1]
    BY <1>1, <1>2, <1>3, ReadDecodes
  <2>2. \A s \in Seq(Held) : /\ <<x>> \o s # <<>> /\ Head(<<x>> \o s) = x
                             /\ Tail(<<x>> \o s) = s
    OBVIOUS
  <2>3. /\ Items # <<>> /\ Head(Items) = x /\ Items' = Tail(Items)
    BY <2>1, <2>2 DEF Items, Decoded
  <2>4. val' \in [Opts -> Held] /\ Vals = val /\ Vals' = [Vals EXCEPT ![o] = x]
    BY <1>1, <1>3 DEF Vals
  <2> QED BY <2>1, <2>3, <2>4 DEF ChannelInv, Channel!Receive, Items, Vals
<1>4. ASSUME UNCHANGED <<buf, val>>
      PROVE  ChannelInv' /\ UNCHANGED <<Vals, Items>>
  BY <1>1, <1>4 DEF ChannelInv, Vals, Items, Decoded
<1>5. buf # <<>> =>
        \E j \in C, x \in Held :
           /\ Piece(buf, 1, j, x)
           /\ At(buf, 1) = Head(buf)
           /\ At(buf, 1) = "dash" =>
                j = 3 /\ x = None /\ IsPrefix(<<"dash", "dash">>, buf)
           /\ At(buf, 1) = "blank" => x \in Values
           /\ At(buf, 1) \in {"dash", "blank"}
  <2> SUFFICES ASSUME buf # <<>>
               PROVE  \E j \in C, x \in Held :
                        /\ Piece(buf, 1, j, x)
                        /\ At(buf, 1) = Head(buf)
                        /\ At(buf, 1) = "dash" =>
                             /\ j = 3 /\ x = None
                             /\ IsPrefix(<<"dash", "dash">>, buf)
                        /\ At(buf, 1) = "blank" => x \in Values
                        /\ At(buf, 1) \in {"dash", "blank"}
    OBVIOUS
  <2>1. 1 # Len(buf) + 1 /\ 1 \in C
    BY <1>1, <1>2 DEF Cuts
  <2>2. PICK j \in C, x \in Held : Piece(buf, 1, j, x)
    BY <1>2, <2>1 DEF Cuts
  <2>3. At(buf, 1) = Head(buf)
    BY <1>1 DEF At
  <2>4. ASSUME At(buf, 1) = "dash"
        PROVE  j = 3 /\ x = None /\ IsPrefix(<<"dash", "dash">>, buf)
    <3> DEFINE p == <<"dash", "dash">>
    <3>1. x = None /\ j = 3 /\ At(buf, 1 + 1) = "dash" /\ j \in 1..(Len(buf) + 1)
      BY <2>2, <2>4 DEF Piece
    <3>2. Len(buf) >= 2 /\ 1 \in 1..Len(buf) /\ 2 \in 1..Len(buf)
      BY <1>1, <3>1
    <3>3. buf[1] = "dash" /\ buf[2] = "dash"
      BY <1>1, <2>4, <3>1, <3>2 DEF At
    <3>4. /\ p \in Seq(Chars) /\ Len(p) = 2
          /\ p[1] = "dash" /\ p[2] = "dash"
      BY DEF Chars, Marks
    <3> HIDE DEF p
    <3>5. IsPrefix(p, buf) <=> /\ Len(p) <= Len(buf)
                               /\ \A i \in 1..Len(p) : buf[i] = p[i]
      BY <1>1, <3>4, PrefixesAre
    <3>6. \A i : i \in 1..2 <=> i = 1 \/ i = 2
      OBVIOUS
    <3>7. Len(p) <= Len(buf) /\ \A i \in 1..Len(p) : buf[i] = p[i]
      BY <3>2, <3>3, <3>4, <3>6
    <3> QED BY <3>1, <3>5, <3>7 DEF p
  <2>5. /\ At(buf, 1) = "blank" => x \in Values
        /\ At(buf, 1) \in {"dash", "blank"}
    BY <2>2, OptionalIOAssumption DEF Piece
  <2> QED BY <2>2, <2>3, <2>4, <2>5
<1>6. CASE ReadNothing(o)
  BY <1>4, <1>6 DEF ReadNothing
<1>7. CASE ReadValue(o)
  <2> DEFINE e == ExtractT(Tail(buf))
  <2>1. /\ Next1(buf) = "blank" /\ buf' = e.rest
        /\ val' = IF mask /\ e.fail THEN val ELSE [val EXCEPT ![o] = e.x]
    BY <1>7 DEF ReadValue
  <2>2. buf # <<>> /\ Head(buf) = "blank"
    BY <2>1 DEF Next1
  <2>3. PICK j \in C, x \in Values : Piece(buf, 1, j, x)
    BY <1>5, <2>2
  <2>4. /\ e.x = x /\ e.fail = FALSE
        /\ e.rest = SubSeq(buf, j, Len(buf))
    BY <1>1, <2>3, ExtractsValue DEF Lossless
  <2> HIDE DEF e
  <2>5. x \in Held /\ val' = [val EXCEPT ![o] = x]
        /\ buf' = SubSeq(buf, j, Len(buf))
    BY <2>1, <2>4 DEF Held
  <2> QED BY <1>3, <2>3, <2>5
<1>8. CASE ReadThrows(o)
  BY <1>8 DEF ReadThrows, Lossless, Calm
<1>9. CASE ReadNone(o)
  <2>1. /\ IsPrefix(<<"dash", "dash">>, buf) /\ buf' = SubSeq(buf, 3, Len(buf))
        /\ val' = [val EXCEPT ![o] = None]
    BY <1>9 DEF ReadNone
  <2>2. buf # <<>> /\ Head(buf) = "dash"
    <3> DEFINE p == <<"dash", "dash">>
    <3>1. p \in Seq(Chars) /\ Len(p) = 2 /\ p[1] = "dash"
      BY DEF Chars, Marks
    <3>2. IsPrefix(p, buf)
      BY <2>1
    <3> HIDE DEF p
    <3>3. Len(p) <= Len(buf) /\ \A i \in 1..Len(p) : buf[i] = p[i]
      BY <1>1, <3>1, <3>2, PrefixesAre
    <3> QED BY <1>1, <3>1, <3>3
  <2>3. PICK j \in C, x \in Held : Piece(buf, 1, j, x) /\ j = 3 /\ x = None
    BY <1>5, <2>2
  <2> QED BY <1>3, <2>1, <2>3
<1>10. CASE ReadMalformed(o)
  <2>1. /\ Next1(buf) # "blank" /\ ~IsPrefix(<<"dash", "dash">>, buf)
        /\ val' = val
    BY <1>10 DEF ReadMalformed
  <2>2. buf = <<>>
    BY <1>5, <2>1 DEF Next1
  <2>3. buf' = buf
    BY <1>10, <2>2 DEF ReadMalformed, Drop1, Next1
  <2> QED BY <1>4, <2>1, <2>3
<1> QED BY <1>6, <1>7, <1>8, <1>9, <1>10 DEF Read

LEMMA StepImplementsChannel ==
    ASSUME IOInv, ChannelInv, [Next]_vars
    PROVE  ChannelInv' /\ [Channel!Next]_<<Vals, Items>>
<1>1. Lossless' = Lossless
  BY DEF Next, vars, traits, Lossless, Calm
<1>2. CASE ~Lossless
  BY <1>1, <1>2 DEF ChannelInv, Vals, Items
<1>3. ASSUME Lossless, UNCHANGED <<buf, val>>
      PROVE  ChannelInv' /\ UNCHANGED <<Vals, Items>>
  BY <1>1, <1>3 DEF ChannelInv, Vals, Items, Decoded
<1>4. ASSUME Lossless, NEW o \in Opts, Write(o)
      PROVE  ChannelInv' /\ (Channel!Send(val[o]) \/ UNCHANGED <<Vals, Items>>)
  <2>1. val[o] \in Held /\ Put(Output(val[o])) /\ val' = val
    BY <1>4 DEF Write, ChannelInv
  <2>2. /\ ChannelInv' /\ Vals' = Vals
        /\ Items' = Append(Items, val[o]) \/ Items' = Items
    BY <1>1, <1>4, <2>1, WriteSends
  <2> QED BY <2>2 DEF Channel!Send, Items, Vals
<1>5. ASSUME Lossless, WriteNone
      PROVE  ChannelInv' /\ (Channel!Send(None) \/ UNCHANGED <<Vals, Items>>)
  <2>1. None \in Held /\ Put(Output(None)) /\ val' = val
    BY <1>5 DEF WriteNone, Output, Held
  <2>2. /\ ChannelInv' /\ Vals' = Vals
        /\ Items' = Append(Items, None) \/ Items' = Items
    BY <1>1, <1>5, <2>1, WriteSends
  <2> QED BY <2>2 DEF Channel!Send, Items, Vals
<1>6. ASSUME Lossless, NEW o \in Opts, Assign(o)
      PROVE  ChannelInv' /\ Channel!Assign(o)
  <2>1. PICK x \in Held : val' = [val EXCEPT ![o] = x]
    BY <1>6 DEF Assign, Held
  <2>2. buf' = buf /\ val' \in [Opts -> Held]
    BY <1>6, <2>1 DEF Assign, ChannelInv
  <2>3. Vals = val /\ Vals' = val' /\ Items' = Items
    BY <1>1, <1>6, <2>2 DEF Vals, Items, Decoded
  <2>4. Channel!Assign(o)
    BY <2>1, <2>3 DEF Channel!Assign, Channel!Holds, Held, Vals, Items
  <2> QED BY <1>6, <2>2, <2>4 DEF ChannelInv
<1>7. ASSUME Lossless, NEW o \in Opts, Read(o)
      PROVE  ChannelInv' /\ (Channel!Receive(o) \/ UNCHANGED <<Vals, Items>>)
  BY <1>1, <1>7, ReadReceives
<1>8. Lossless => ~WriteJunk
  BY DEF WriteJunk, Lossless, Calm
<1>9. CASE Lossless /\ Clear
  BY <1>3, <1>9 DEF Clear
<1>10. CASE Lossless /\ UNCHANGED vars
  BY <1>3, <1>10 DEF vars
<1>11. CASE Lossless /\ Next
  BY <1>4, <1>5, <1>6, <1>7, <1>8, <1>9, <1>11 DEF Next, Channel!Next
<1> QED BY <1>2, <1>10, <1>11

(* For every T whose operator>> stops where its text ends, the stream is a *)
(* channel of optionals: what operator<< writes operator>> reads back, one *)
(* after the other, none and values alike, whatever the text of T begins   *)
(* with and however many optionals are in the stream.                      *)
THEOREM StreamIsAChannel == Spec => ImplementsChannel
<1>1. IOInv /\ ChannelInv /\ [Next]_vars
        => ChannelInv' /\ [Channel!Next]_<<Vals, Items>>
  BY StepImplementsChannel
<1>2. Init => ChannelInv /\ Channel!Init
  BY ChannelStart
<1> QED BY <1>1, <1>2, IOInvariant, PTL
        DEF Spec, ImplementsChannel, Channel!Spec, Vals, Items

==============================================================================
