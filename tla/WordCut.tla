------------------------------- MODULE WordCut -------------------------------
(***************************************************************************)
(* wordcut: the word segmentation that the documentation's search uses for *)
(* Thai.  It reads a text character by character with a set of acceptors   *)
(* (rules and a dictionary), keeps for every prefix the best way to cut it *)
(* (buildPath), and then walks back from the end to the ranges of the      *)
(* words (pathToRanges).                                                   *)
(*                                                                         *)
(* Characters are code points.  The text is chosen while it is read: a     *)
(* step never looks ahead.                                                 *)
(***************************************************************************)
EXTENDS Integers, Sequences, FiniteSets, SequencesExt

CONSTANTS Scripts,    \* BOUND on texts: the sets of characters that a text may mix
          Builtin,    \* the built-in word list, in any order
          Additional, \* the lists of words that an application may add
          MaxLen      \* BOUND on the length of a text

Chars == UNION Scripts

ASSUME CharsAssumption == Chars \subseteq Nat
ASSUME WordsAssumption == /\ Builtin \in Seq(Seq(Nat))
                          /\ Additional \subseteq Seq(Seq(Nat))
ASSUME BoundAssumption == MaxLen \in Nat

VARIABLES dict,         \* the words, sorted
          text,         \* what is read of the text
          current,      \* Acceptors.current: the acceptors that are alive
          path,         \* path[k]: how the first k characters are cut best
          leftBoundary,
          pc,           \* "build": in buildPath; "ranges": in pathToRanges
          e, ranges     \* of pathToRanges

vars == <<dict, text, current, path, leftBoundary, pc, e, ranges>>

Null == -1              \* null, or undefined, in the place of an index

-----------------------------------------------------------------------------
(***************************************************************************)
(* latin_rules and thai_rules                                              *)
(***************************************************************************)
\* Two signs beyond Latin begin with one of a to z in lower case: the dotted capital
\* I and the Kelvin sign.
Letter(ch) == ch \in 97..122 \cup 65..90 \cup {304, 8490}
Digit(ch)  == ch \in 48..57
Space(ch)  == ch \in {9, 10, 13, 32, 160, 8195}
Symbol(ch) == ch \in {64, 40, 41, 47, 44, 45, 46, 34, 96}     \* @ ( ) / , - . " `

Consonant(ch) == ch \in 3585..3630
ToneMark(ch)  == ch \in 3656..3662

\* In a pattern four consonants stand for any, and one tone mark for four.
isMatch(pat, offset, ch) ==
    /\ offset < Len(pat)
    /\ LET _ch == pat[offset + 1]
       IN  \/ _ch = ch
           \/ _ch \in {3585, 3586, 3617, 3610} /\ Consonant(ch)
           \/ _ch = 3657 /\ ch \in 3656..3659

Rule0    == <<3648, 3627, 3585, 3655, 3617>>
Patterns == {<<3649, 3585>>, <<3648, 3585>>, <<3585, 3657>>, <<3585, 3585, 3660>>,
             <<3585, 3634>>, <<3585, 3637>>, <<3585, 3636>>, <<3585, 3639, 3585>>}

\* The creators, in their order: of two equally good ways the first wins.
Creators == <<"WORD_RULE", "SPACE_RULE", "SINSYM", "NUMBER_RULE", "THAI_RULE", "PART", "DICT">>
Types    == Range(Creators)
Rank(type) == IF type \in Types THEN CHOOSE k \in DOMAIN Creators : Creators[k] = type ELSE 0
OneAtATime == {"WORD_RULE", "SPACE_RULE", "NUMBER_RULE"}

-----------------------------------------------------------------------------
(***************************************************************************)
(* dict                                                                    *)
(***************************************************************************)
\* The order of JavaScript's sort, and of < between characters.
Before(v, w) == \/ Len(v) < Len(w) /\ SubSeq(w, 1, Len(v)) = v
                \/ \E k \in 1..Len(v) : /\ k <= Len(w) /\ v[k] < w[k]
                                        /\ SubSeq(v, 1, k - 1) = SubSeq(w, 1, k - 1)

\* The k-th word is the one that has k - 1 before it.
sortuniq(S) ==
    LET at(w) == 1 + Cardinality({v \in S : Before(v, w)})
    IN  [k \in 1..Cardinality(S) |-> CHOOSE w \in S : at(w) = k]

\* The list is built in, without its shortest words; the files are not read.  As
\* it is sorted in the end, without duplicates, it is a set until then.
addFiles(d) == d \cup {w \in Range(Builtin) : Len(w) > 1}
addWords(d, words) == d \cup Range(words)
initDict(words) == sortuniq(addWords(addFiles({}), words))

\* The variables of the loop of dictSeek, and its body.
Searches == [l : Nat, r : Int, ans : Int]
narrow(s, ch, strOffset, pos) ==
    LET m == (s.l + s.r) \div 2
        w == dict[m + 1]
    IN  IF Len(w) <= strOffset \/ w[strOffset + 1] < ch THEN [s EXCEPT !.l = m + 1]
        ELSE IF w[strOffset + 1] > ch THEN [s EXCEPT !.r = m - 1]
        ELSE IF pos = "LEFT" THEN [l |-> s.l, r |-> m - 1, ans |-> m]
        ELSE [l |-> m + 1, r |-> s.r, ans |-> m]

\* Faulty variant of dictSeek: an interval of one word is not looked at.
dictSeekOpen(l, r, ch, strOffset, pos) ==
    LET seek[s \in Searches] ==
            IF s.l >= s.r THEN s.ans ELSE seek[narrow(s, ch, strOffset, pos)]
    IN  seek[[l |-> l, r |-> r, ans |-> Null]]

\* The first (pos = "LEFT") or last word of l..r with ch at strOffset, or Null.
dictSeek(l, r, ch, strOffset, pos) ==
    LET seek[s \in Searches] ==
            IF s.l > s.r THEN s.ans ELSE seek[narrow(s, ch, strOffset, pos)]
    IN  seek[[l |-> l, r |-> r, ans |-> Null]]

-----------------------------------------------------------------------------
(***************************************************************************)
(* Acceptors.  All of them see every character, so that their order, by    *)
(* age and then by creator, need not be kept: strOffset is the age.        *)
(***************************************************************************)
Acceptor(type) == [type |-> type, strOffset |-> 0, isFinal |-> FALSE,
                   patterns |-> IF type = "PART" THEN Patterns ELSE {},
                   l |-> 0, r |-> IF type = "DICT" THEN Len(dict) - 1 ELSE Null]

tag == {a.type : a \in current}

\* A rule that is one at a time has an acceptor already: createAcceptor is null.
created == {Acceptor(type) : type \in Types \ (tag \cap OneAtATime)}

\* The acceptor after ch, in a set that is empty when it is in error.
Accepts(a, ok, final) ==
    IF ok THEN {[a EXCEPT !.strOffset = @ + 1, !.isFinal = final]} ELSE {}

transitDict(a, ch) ==
    LET l == dictSeek(a.l, a.r, ch, a.strOffset, "LEFT")
        r == dictSeek(l, a.r, ch, a.strOffset, "RIGHT")
    IN  IF l = Null THEN {}
        ELSE Accepts([a EXCEPT !.l = l, !.r = r], TRUE, Len(dict[l + 1]) = a.strOffset + 1)

transitPart(a, ch) ==
    LET rest == {pat \in a.patterns : isMatch(pat, a.strOffset, ch)}
    IN  Accepts([a EXCEPT !.patterns = rest], rest # {},
                \E pat \in rest : Len(pat) = a.strOffset + 1)

transit(a, ch) ==
    CASE a.type = "WORD_RULE"   -> Accepts(a, Letter(ch), TRUE)
      [] a.type = "SPACE_RULE"  -> Accepts(a, Space(ch), TRUE)
      [] a.type = "NUMBER_RULE" -> Accepts(a, Digit(ch), TRUE)
      [] a.type = "SINSYM"      -> Accepts(a, a.strOffset = 0 /\ Symbol(ch), TRUE)
      [] a.type = "THAI_RULE"   -> Accepts(a, isMatch(Rule0, a.strOffset, ch),
                                           a.strOffset + 1 = Len(Rule0))
      [] a.type = "PART"        -> transitPart(a, ch)
      [] a.type = "DICT"        -> transitDict(a, ch)

alive(ch) == UNION {transit(a, ch) : a \in current \cup created}

-----------------------------------------------------------------------------
(***************************************************************************)
(* path_info_builder and path_selector.  mw is left out: it is 0 always.   *)
(***************************************************************************)
initPath == [k \in {0} |-> [p |-> Null, w |-> 0, unk |-> 0, type |-> "INIT", merge |-> Null]]

\* The way to end with the characters that the acceptor a has read, the last of
\* which is i.
pathInfo(a, i) ==
    LET p == i - a.strOffset + 1
    IN  [p |-> p, w |-> 1 + path[p].w,
         unk |-> (IF a.type = "PART" THEN 1 ELSE 0) + path[p].unk,
         type |-> a.type,
         merge |-> IF a.type = "PART" THEN p ELSE Null]

\* Faulty variant of fallback: a tone mark at the very beginning looks before it.
fallbackBefore(i, ch) ==
    [p |-> IF ToneMark(ch) THEN path[leftBoundary].p ELSE leftBoundary,
     w |-> 1 + path[leftBoundary].w, unk |-> 1 + path[leftBoundary].unk,
     type |-> "UNK", merge |-> Null]

\* No acceptor ends here: all since leftBoundary is unknown. A tone mark does not
\* begin a word.
fallback(i, ch) ==
    [p |-> IF ToneMark(ch) /\ leftBoundary # 0 THEN path[leftBoundary].p ELSE leftBoundary,
     w |-> 1 + path[leftBoundary].w, unk |-> 1 + path[leftBoundary].unk,
     type |-> "UNK", merge |-> Null]

\* The members of S with the least key.
Least(S, Key(_)) == {x \in S : \A y \in S : Key(x) <= Key(y)}
\* Faulty variant of selectPath: the first is good enough.
selectFirst(infos) ==
    LET age(x)  == x.p
        rank(x) == Rank(x.type)
    IN  CHOOSE x \in Least(Least(infos, age), rank) : TRUE

\* The fewest unknown, then the fewest words, then the first.
selectPath(infos) ==
    LET unk(x)  == x.unk
        w(x)    == x.w
        age(x)  == x.p
        rank(x) == Rank(x.type)
    IN  CHOOSE x \in Least(Least(Least(Least(infos, unk), w), age), rank) : TRUE

build(finals, i, ch) ==
    IF finals = {} THEN {fallback(i, ch)} ELSE {pathInfo(a, i) : a \in finals}

\* Faulty variant of Covering: the place where the part begins is marked, too.
CoveringStart(finals, i, k) ==
    {p \in 0..k : \E a \in finals : a.type = "PART" /\ p = i - a.strOffset + 1}

\* Each part that ends here, selected or not, marks the places that it covers;
\* the later ones last.
Covering(finals, i, k) == {p \in 0..k - 1 : \E a \in finals : a.type = "PART" /\ p = i - a.strOffset + 1}
merged(finals, i, k) ==
    IF Covering(finals, i, k) = {} THEN path[k].merge
    ELSE CHOOSE p \in Covering(finals, i, k) : \A q \in Covering(finals, i, k) : q <= p

-----------------------------------------------------------------------------
(***************************************************************************)
(* wordcut and wordcut_core                                                *)
(***************************************************************************)
Init == /\ \E words \in Additional : dict = initDict(words)
        /\ text = <<>> /\ current = {} /\ path = initPath /\ leftBoundary = 0
        /\ pc = "build" /\ e = 0 /\ ranges = <<>>

\* The loop body of buildPath, for the character at i.
ReadChar(ch) ==
    /\ pc = "build" /\ Len(text) < MaxLen
    /\ \E script \in Scripts : Range(text) \cup {ch} \subseteq script
    /\ LET i      == Len(text)
           finals == {a \in alive(ch) : a.isFinal}
           info   == selectPath(build(finals, i, ch))
       IN  /\ text' = Append(text, ch)
           /\ current' = alive(ch)
           /\ path' = [k \in 0..i + 1 |->
                         IF k = i + 1 THEN info
                         ELSE [path[k] EXCEPT !.merge = merged(finals, i, k)]]
           /\ leftBoundary' = IF info.type # "UNK" THEN i ELSE leftBoundary
    /\ UNCHANGED <<dict, pc, e, ranges>>

TextEnds == /\ pc = "build"
            /\ pc' = "ranges" /\ e' = Len(text) /\ ranges' = <<>>
            /\ UNCHANGED <<dict, text, current, path, leftBoundary>>

\* Faulty variant of CutBack: the walk goes on from where the joined piece began.
CutBackUnjoined ==
    /\ pc = "ranges" /\ e > 0
    /\ LET info == path[e]
           joins == info.merge # Null /\ ranges # <<>>
           s    == IF joins THEN info.merge ELSE info.p
       IN  /\ ranges' = IF joins THEN <<[s |-> s, e |-> Head(ranges).e]>> \o Tail(ranges)
                                 ELSE <<[s |-> s, e |-> e]>> \o ranges
           /\ e' = info.p
    /\ UNCHANGED <<dict, text, current, path, leftBoundary, pc>>

\* The loop body of pathToRanges; the list is kept in the order of the text.
CutBack == /\ pc = "ranges" /\ e > 0
           /\ LET info == path[e]
                  joins == info.merge # Null /\ ranges # <<>>
                  s    == IF joins THEN info.merge ELSE info.p
              IN  /\ ranges' = IF joins THEN <<[s |-> s, e |-> Head(ranges).e]>> \o Tail(ranges)
                                        ELSE <<[s |-> s, e |-> e]>> \o ranges
                  /\ e' = s
           /\ UNCHANGED <<dict, text, current, path, leftBoundary, pc>>

\* The next text: Acceptors.reset() and createPath().
NextText == /\ pc = "ranges" /\ e = 0
            /\ text' = <<>> /\ current' = {} /\ path' = initPath /\ leftBoundary' = 0
            /\ pc' = "build" /\ ranges' = <<>>
            /\ UNCHANGED <<dict, e>>

Next == \/ \E ch \in Chars : ReadChar(ch)
        \/ TextEnds \/ CutBack \/ NextText

Spec == Init /\ [][Next]_vars /\ WF_vars(TextEnds) /\ WF_vars(CutBack)

\* cutIntoArray, and the pieces that cut joins.
cutIntoArray == [k \in DOMAIN ranges |-> SubSeq(text, ranges[k].s + 1, ranges[k].e)]

-----------------------------------------------------------------------------
(* The path has one entry per prefix of the text, which leads to a shorter *)
(* prefix; acceptors have read one to all of the characters.               *)
Infos == [p : Int, w : Nat, unk : Nat, type : Types \cup {"UNK", "INIT"}, merge : Int]
TypeOK == /\ text \in Seq(Chars) /\ pc \in {"build", "ranges"}
          /\ path \in [0..Len(text) -> Infos]
          /\ \A k \in 1..Len(text) : path[k].p \in 0..k - 1 /\ path[k].merge \in -1..k - 1
          /\ \A a \in current : a.strOffset \in 1..Len(text)
          /\ leftBoundary \in 0..Len(text) /\ e \in 0..Len(text)

(* The pieces are the text: none overlaps the next, nothing is lost or     *)
(* empty, although merges move ranges after they were made.                *)
Tiles == LET n == Len(ranges)
         IN  pc = "ranges" =>
               /\ IF n = 0 THEN e = Len(text) ELSE ranges[1].s = e /\ ranges[n].e = Len(text)
               /\ \A k \in 1..n : ranges[k].s < ranges[k].e
               /\ \A k \in 1..n - 1 : ranges[k].e = ranges[k + 1].s

(* The interval of words that a dictionary acceptor keeps is exactly the   *)
(* words that begin with what it has read, it is final when one of them is *)
(* just that, and it lives as long as there are such words.                *)
Since(k) == SubSeq(text, Len(text) - k + 1, Len(text))
DictExact == pc = "build" => \A k \in 1..Len(text) :
    LET begin == {m \in DOMAIN dict : IsPrefix(Since(k), dict[m])}
        live  == {a \in current : a.type = "DICT" /\ a.strOffset = k}
    IN  /\ begin = {} => live = {}
        /\ begin # {} => \E a \in live : /\ live = {a} /\ begin = a.l + 1..a.r + 1
                                         /\ a.isFinal <=> Since(k) \in Range(dict)

(* buildPath finds a way without unknown parts whenever there is one, and  *)
(* then one with the fewest words: words of the dictionary or of the Thai  *)
(* rule, single symbols, and runs of letters, digits or spaces from their  *)
(* beginning, up to their end or before it.                                *)
Run(Class(_), a, b) == /\ \A k \in a + 1..b : Class(text[k])
                       /\ a > 0 => ~Class(text[a])
Known(a, b) ==
    \/ SubSeq(text, a + 1, b) \in Range(dict)
    \/ b = a + 1 /\ Symbol(text[b])
    \/ Run(Letter, a, b) \/ Run(Digit, a, b) \/ Run(Space, a, b)
    \/ b - a = Len(Rule0) /\ \A k \in 1..Len(Rule0) : isMatch(Rule0, k - 1, text[a + k])
Cuts == {B \in SUBSET (0..Len(text)) :
           /\ {0, Len(text)} \subseteq B
           /\ \A a, b \in B : a < b /\ (\A k \in a + 1..b - 1 : k \notin B) => Known(a, b)}
FewestWords == pc = "build" =>
    LET last == path[Len(text)]
    IN  IF Cuts = {} THEN last.unk > 0
        ELSE /\ last.unk = 0
             /\ \E B \in Cuts : last.w = Cardinality(B) - 1
             /\ \A B \in Cuts : last.w <= Cardinality(B) - 1

(* Every text is cut in the end: each range begins before it ends.         *)
CutEnds == (pc = "ranges") ~> (pc = "ranges" /\ e = 0)
=============================================================================
