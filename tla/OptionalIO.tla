------------------------------ MODULE OptionalIO ------------------------------
(***************************************************************************)
(* Output and input of optionals: boost/optional/optional_io.hpp, on one   *)
(* stringstream that the program writes to and reads from.                 *)
(*                                                                         *)
(* The buffer is a sequence of tokens: "blank" and "dash" are the          *)
(* characters ' ' and '-' that the operators themselves write and look     *)
(* for; a value of T is a token that stands for the text T's own           *)
(* operator<< writes, and the text of a value in Signed begins with a      *)
(* dash.  T's operators are external.                                      *)
(***************************************************************************)
EXTENDS Naturals, Sequences, SequencesExt

CONSTANTS
    Opts,       \* the optional<T> variables of the program
    Values,     \* the values of T
    Signed,     \* those whose text begins with a dash
    DefaultT,   \* what a T holds when its extraction failed
    Other,      \* a T whose text is none of those of Values
    None,       \* no value
    Junk,       \* what else a program may write to the stream
    TidyBound,  \* bound on the length of the buffer of a tidy program
    JunkBound   \* and of the buffer of any other

ASSUME OptionalIOAssumption ==
    /\ Opts # {} /\ Signed \subseteq Values
    /\ None \notin Values /\ DefaultT \notin Values \cup {None}
    /\ Other \notin Values \cup {None, DefaultT}
    /\ Junk \cap Values = {} /\ {"blank", "dash"} \cap Values = {}
    /\ TidyBound \in Nat /\ JunkBound \in Nat

VARIABLES
    reads,     \* where T's operator>> stops
    throwing,  \* T's constructors and operator>> may throw
    mask,      \* in.exceptions() has failbit and badbit
    tidy,      \* the program writes nothing but optionals to the stream
    buf,       \* what is in the stream
    eof,       \* its eofbit
    fail,      \* its failbit
    val,       \* what each optional holds
    last       \* the last statement, and what it found if it was a read

(* What T, the stream and the program are like, which does not change.     *)
traits == <<reads, throwing, mask, tidy>>
vars == <<traits, buf, eof, fail, val, last>>

(* "exact": behind its text, without a look at what follows (a character); *)
(* "number": the same, but it looks, and so may meet the end of the stream;*)
(* "word": at the next white space, whatever else follows (a std::string). *)
Readings == {"exact", "number", "word"}

(* Nothing but optionals is written, and T does not throw.                 *)
Calm == tidy /\ ~throwing

BufferBound == IF Calm THEN TidyBound ELSE JunkBound

Good == ~eof /\ ~fail
Marks == {"blank", "dash"}

------------------------------------------------------------------------------
(* External: T's operators, std::basic_istream.                            *)

Text(v) == IF v \in Signed THEN <<"dash", v>> ELSE <<v>>

(* The state of a stream after an extraction, and what it extracted.       *)
Extracted(x, rest, end, failure) ==
    [x |-> x, rest |-> rest, eof |-> end, fail |-> failure]

(* in >> x, for an x of type T and a stream that is good: skips white      *)
(* space, and fails when no T begins there.  A word is anything but the    *)
(* end of the stream.                                                      *)
Spaces(b) == {i \in 0..Len(b) : \A j \in 1..i : b[j] = "blank"}
SkipSpaces(b) ==
    LET n == CHOOSE i \in Spaces(b) : \A j \in Spaces(b) : j <= i
    IN  SubSeq(b, n + 1, Len(b))

Solids(b) == {i \in 0..Len(b) : \A j \in 1..i : b[j] # "blank"}
ExtractWord(c) ==
    LET n == CHOOSE i \in Solids(c) : \A j \in Solids(c) : j <= i
        spelt == {v \in Values : Text(v) = SubSeq(c, 1, n)}
        rest == SubSeq(c, n + 1, Len(c))
    IN  IF c = <<>> THEN Extracted(DefaultT, <<>>, TRUE, TRUE)
        ELSE Extracted(IF spelt = {} THEN Other ELSE CHOOSE v \in spelt : TRUE,
                       rest, rest = <<>>, FALSE)

ExtractValue(c) ==
    LET begun == {v \in Values : IsPrefix(Text(v), c)}
        rest == IF IsPrefix(<<"dash">>, c) THEN Tail(c) ELSE c
    IN  IF begun # {}
        THEN LET v == CHOOSE v \in begun : TRUE
                 after == SubSeq(c, Len(Text(v)) + 1, Len(c))
             IN  Extracted(v, after, reads = "number" /\ after = <<>>, FALSE)
        ELSE Extracted(DefaultT, rest, rest = <<>>, TRUE)

ExtractT(b) == IF reads = "word" THEN ExtractWord(SkipSpaces(b))
                                 ELSE ExtractValue(SkipSpaces(b))

(* in.get(): a character, or the end of the stream, which sets both bits.  *)
Next1(b) == IF b = <<>> THEN "end" ELSE Head(b)
Drop1(b) == IF b = <<>> THEN <<>> ELSE Tail(b)

------------------------------------------------------------------------------
(* Output. *)

(* slip: no blank before the value.                                        *)
OutputUnmarked(x) == IF x = None THEN <<"dash", "dash">> ELSE Text(x)

Output(x) == IF x = None THEN <<"dash", "dash">> ELSE <<"blank">> \o Text(x)

NoRead(op) == [op |-> op, o |-> CHOOSE o \in Opts : TRUE, threw |-> FALSE,
               found |-> <<>>, good |-> TRUE]
Did(op) == last' = NoRead(op)

DidRead(o, threw) ==
    last' = [op |-> "read", o |-> o, threw |-> threw,
             found |-> buf, good |-> Good]

Put(text) == IF Good THEN buf' = buf \o text ELSE UNCHANGED buf

(* out << v, where v holds what the program can name.                      *)
Write(o) ==
    /\ Len(buf) + 3 <= BufferBound
    /\ val[o] \in Values \cup {None}
    /\ Put(Output(val[o]))
    /\ Did("write")
    /\ UNCHANGED <<eof, fail, val>>

(* slip: the tag is written as a single character.                         *)
WriteNoneShort ==
    /\ Len(buf) + 3 <= BufferBound
    /\ Put(<<"dash">>)
    /\ Did("write")
    /\ UNCHANGED <<eof, fail, val>>

(* out << none *)
WriteNone ==
    /\ Len(buf) + 3 <= BufferBound
    /\ Put(<<"dash", "dash">>)
    /\ Did("write")
    /\ UNCHANGED <<eof, fail, val>>

------------------------------------------------------------------------------
(* Input: in >> v.  What the operator does depends on the two characters   *)
(* that it gets.                                                           *)

(* The stream is not good: nothing at all happens. *)
ReadNothing(o) ==
    /\ ~Good
    /\ DidRead(o, FALSE)
    /\ UNCHANGED <<buf, eof, fail, val>>

(* The first character is a blank: T x; in >> x; v = move(x).  A failed    *)
(* extraction is an exception if the mask says so, and else goes unseen.   *)
ReadValue(o) ==
    LET e == ExtractT(Tail(buf))
    IN  /\ Good /\ Next1(buf) = "blank"
        /\ buf' = e.rest /\ eof' = e.eof /\ fail' = e.fail
        /\ val' = IF mask /\ e.fail THEN val ELSE [val EXCEPT ![o] = e.x]
        /\ DidRead(o, mask /\ e.fail)

(* slip: v is emptied before the T is read.                                *)
ReadThrowsEmptied(o) ==
    /\ throwing /\ Good /\ Next1(buf) = "blank"
    /\ buf' \in {Tail(buf), ExtractT(Tail(buf)).rest}
    /\ val' = [val EXCEPT ![o] = None]
    /\ DidRead(o, TRUE)
    /\ UNCHANGED <<eof, fail>>

(* The default constructor or operator>> of T throws, or, when x has been  *)
(* read, the move: v stays as engaged as it was, but its T may be broken.  *)
ReadThrows(o) ==
    LET e == ExtractT(Tail(buf))
    IN  /\ throwing /\ Good /\ Next1(buf) = "blank"
        /\ \/ buf' = Tail(buf) /\ UNCHANGED <<eof, fail, val>>
           \/ /\ ~(mask /\ e.fail)
              /\ buf' = e.rest /\ eof' = e.eof /\ fail' = e.fail
              /\ \E x \in IF val[o] = None THEN {None}
                                           ELSE {val[o], DefaultT} :
                    val' = [val EXCEPT ![o] = x]
        /\ DidRead(o, TRUE)

(* slip: one dash is enough.                                               *)
ReadNoneShort(o) ==
    /\ Good /\ Next1(buf) = "dash"
    /\ buf' = Tail(buf)
    /\ val' = [val EXCEPT ![o] = None]
    /\ DidRead(o, FALSE)
    /\ UNCHANGED <<eof, fail>>

(* slip: the tag is looked at, and left in the stream.                     *)
ReadNonePeeks(o) ==
    /\ Good /\ IsPrefix(<<"dash", "dash">>, buf)
    /\ val' = [val EXCEPT ![o] = None]
    /\ DidRead(o, FALSE)
    /\ UNCHANGED <<buf, eof, fail>>

(* Both are dashes: v = none. *)
ReadNone(o) ==
    /\ Good /\ IsPrefix(<<"dash", "dash">>, buf)
    /\ buf' = SubSeq(buf, 3, Len(buf))
    /\ val' = [val EXCEPT ![o] = None]
    /\ DidRead(o, FALSE)
    /\ UNCHANGED <<eof, fail>>

(* Anything else sets failbit and leaves v as it was. *)
ReadMalformed(o) ==
    /\ Good /\ Next1(buf) # "blank" /\ ~IsPrefix(<<"dash", "dash">>, buf)
    /\ LET rest == Drop1(buf)
           second == Next1(buf) = "dash"
       IN  /\ buf' = IF second THEN Drop1(rest) ELSE rest
           /\ eof' = (buf = <<>> \/ (second /\ rest = <<>>))
    /\ fail' = TRUE
    /\ DidRead(o, mask)
    /\ UNCHANGED val

Read(o) == \/ ReadNothing(o) \/ ReadValue(o) \/ ReadThrows(o)
           \/ ReadNone(o) \/ ReadMalformed(o)
------------------------------------------------------------------------------
(* The rest of the program. *)

Assign(o) ==
    /\ \E x \in Values \cup {None} : val' = [val EXCEPT ![o] = x]
    /\ Did("assign")
    /\ UNCHANGED <<buf, eof, fail>>

WriteJunk ==
    /\ ~tidy
    /\ Len(buf) < BufferBound
    /\ \E t \in Junk : Put(<<t>>)
    /\ Did("write")
    /\ UNCHANGED <<eof, fail, val>>

Clear ==
    /\ ~Good
    /\ eof' = FALSE /\ fail' = FALSE
    /\ Did("clear")
    /\ UNCHANGED <<buf, val>>

Init ==
    /\ reads \in Readings /\ throwing \in BOOLEAN
    /\ mask \in BOOLEAN /\ tidy \in BOOLEAN
    /\ buf = <<>> /\ eof = FALSE /\ fail = FALSE
    /\ val = [o \in Opts |-> None]
    /\ last = NoRead("clear")

Next ==
    /\ \/ \E o \in Opts : Write(o) \/ Read(o) \/ Assign(o)
       \/ WriteNone
       \/ WriteJunk
       \/ Clear
    /\ UNCHANGED traits

Spec == Init /\ [][Next]_vars

(* The program goes on as long as there is something for it to read. *)
ReadStep == (\E o \in Opts : Read(o)) /\ UNCHANGED traits

FairSpec == Spec /\ WF_vars(ReadStep)

------------------------------------------------------------------------------
(* The types of the variables.  Code: optional_io.hpp.                     *)
TypeOK ==
    /\ buf \in Seq(Values \cup Marks \cup Junk) /\ Len(buf) <= BufferBound
    /\ {eof, fail, throwing, mask, tidy} \subseteq BOOLEAN
    /\ reads \in Readings
    /\ val \in [Opts -> Values \cup {DefaultT, Other, None}]
    /\ last.o \in Opts

(* The optionals in a buffer, in order, from each position on: each stands *)
(* for the text that was written of it.                                    *)
At(b, i) == IF i \in DOMAIN b THEN b[i] ELSE "end"
Decode(b) ==
    LET from[i \in 1..(Len(b) + 3)] ==
          CASE i > Len(b) -> <<>>
            [] i <= Len(b) /\ At(b, i) = "dash" -> <<None>> \o from[i + 2]
            [] i <= Len(b) /\ At(b, i) # "dash" /\ At(b, i + 1) = "dash" ->
                  <<At(b, i + 2)>> \o from[i + 3]
            [] OTHER -> <<At(b, i + 1)>> \o from[i + 2]
    IN  from
Decoded == Decode(buf)[1]

(* The optionals written to the stream come back: the program is calm, and *)
(* T's operator>> leaves what is not part of its text.                     *)
Lossless == Calm /\ reads # "word"

Channel == INSTANCE OptionalChannel WITH
    items <- IF Lossless THEN Decoded ELSE <<>>,
    val <- IF Lossless THEN val ELSE [o \in Opts |-> None]

(* While nothing else writes to the stream and no T throws, it is a        *)
(* channel of optionals of any T whose operator>> stops where its text     *)
(* ends: they are read back in order, one after the other, whatever        *)
(* follows them and whatever their text begins with.  (A T that is read    *)
(* up to the next white space takes the dashes of a none behind it for its *)
(* own.)  Code: operator<< and operator>>, which have to agree on how an   *)
(* optional is marked (doc/15_io.qbk).                                     *)
ImplementsChannel == Channel!Spec

(* A read that reports success, of a stream that was good, has stored the  *)
(* optional whose text comes first, whatever was in the stream; of a word, *)
(* if not that, then one that begins there.  Code: operator>>, which has   *)
(* to report everything else with failbit.                                 *)
BeginsWith(x, b) ==
    CASE x = None -> IsPrefix(<<"dash", "dash">>, b)
      [] x = Other -> reads = "word" /\ IsPrefix(<<"blank">>, b)
      [] OTHER -> IsPrefix(<<"blank">>, b) /\ IsPrefix(Text(x), SkipSpaces(b))

StoresWhatItFound ==
    (last.op = "read" /\ last.good /\ ~fail /\ ~last.threw) =>
        \E x \in Values \cup {Other, None} :
           val[last.o] = x /\ BeginsWith(x, last.found)

(* What a read may change: the optional it is given, and no other.  That   *)
(* loses its value only to the whole tag of an empty one, and gets one     *)
(* only behind a blank.  What a throw leaves in it is the old value or a   *)
(* broken one.  A failed read leaves the old value, unless a T was to be   *)
(* read and the stream does not throw on failure: then the T that the      *)
(* failed extraction left has taken its place, and only failbit tells.     *)
(* Code: the paths of operator>>, which does not look at the stream        *)
(* between in >> x and v = x.                                              *)
ReadsChangeOnlyAsFound ==
    [][last'.op # "assign" =>
         \A o \in Opts : val'[o] # val[o] =>
            /\ o = last'.o /\ last'.op = "read" /\ Good
            /\ IsPrefix(IF val'[o] = None THEN <<"dash", "dash">>
                                          ELSE <<"blank">>, buf)
            /\ last'.threw => val[o] # None /\ val'[o] = DefaultT
            /\ fail' /\ ~last'.threw => val'[o] = DefaultT /\ ~mask]_vars

(* Once a program does nothing but read, its reads come to an end: they    *)
(* leave the stream failed, as the next read will find it, or, with a T    *)
(* whose operator>> looks beyond its text, at its end with eofbit alone.   *)
(* (In that state a read does nothing and sets nothing, so that a loop     *)
(* which tests only for failure goes on for ever.)  Code: operator>>,      *)
(* which has to consume or to fail, whatever T throws meanwhile.           *)
ReadLoopEnds ==
    <>[][ReadStep]_vars => <>[](fail \/ (eof /\ reads # "exact"))

------------------------------------------------------------------------------
(* doc/15_io.qbk guarantees that if streaming out and then back in T gives *)
(* the same value, so does streaming out and then back in optional<T>.  It *)
(* does so for a T that is read as a word, and not for its optionals: none *)
(* is written without a blank before it, as if it went on with the word.   *)
StreamsBack ==
    (Calm /\ last.op = "read" /\ last.good /\ last.found # <<>>)
    => val[last.o] = Decode(last.found)[1][1]
==============================================================================
