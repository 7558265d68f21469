----------------------------- MODULE WordCutProof -----------------------------
(***************************************************************************)
(* Proofs about WordCut, for any characters, any dictionary and texts of   *)
(* any length.  First the pieces: those that a text is cut into are the    *)
(* whole text, in order and without overlap.  Then the dictionary: how it  *)
(* is sorted and searched, and that every dictionary acceptor keeps        *)
(* exactly the words that begin with what it has read.  Then the path:     *)
(* buildPath finds a way to cut the text without unknown pieces whenever   *)
(* there is one, and of these one with the fewest words.                   *)
(***************************************************************************)
EXTENDS WordCut, TLAPS, WellFoundedInduction, FiniteSetTheorems

(* An acceptor knows its rule, and how much it has read.                   *)
IsAcceptor(a, n) == /\ {"strOffset", "isFinal"} \subseteq DOMAIN a
                    /\ a.type \in Types
                    /\ a.strOffset \in 1..n

Ranges == [s : Nat, e : Nat]

IInv == /\ TypeOK /\ Tiles /\ ranges \in Seq(Ranges)
        /\ \A a \in current : IsAcceptor(a, Len(text))

-----------------------------------------------------------------------------
(* Every set of natural numbers that is not empty has a least member.      *)
LEMMA LeastNat ==
    ASSUME NEW S, S \subseteq Nat, S # {}
    PROVE  \E n \in S : \A m \in S : n <= m
<1>1. PICK n \in S : \A m \in S : ~(<<m, n>> \in OpToRel(<, Nat))
  BY NatLessThanWellFounded, WFMin
<1>2. ASSUME NEW m \in S PROVE n <= m
  <2>1. ~(m < n)
    BY <1>1 DEF OpToRel
  <2>2. QED
    BY <2>1
<1>3. QED
  BY <1>2

(* So has every set of natural numbers with a bound a greatest one.        *)
LEMMA GreatestNat ==
    ASSUME NEW n \in Nat, NEW S, S \subseteq 0..n, S # {}
    PROVE  \E p \in S : \A q \in S : q <= p
<1> DEFINE D == {n - p : p \in S}
<1>1. D \subseteq Nat /\ D # {}
  <2>1. \A p \in S : n - p \in Nat
    OBVIOUS
  <2>2. PICK p \in S : TRUE
    OBVIOUS
  <2>3. n - p \in D
    OBVIOUS
  <2>4. QED
    BY <2>1, <2>3
<1>2. PICK d \in D : \A c \in D : d <= c
  BY <1>1, LeastNat
<1>3. PICK p \in S : d = n - p
  OBVIOUS
<1>4. \A q \in S : d <= n - q
  BY <1>2
<1>5. QED
  BY <1>3, <1>4

LEMMA RankNat == \A type : Rank(type) \in Nat
BY DEF Rank, Types, Creators, Range

(* Of any ways to end a prefix, selectPath takes one with the least        *)
(* unknown, and of these one with the fewest words.                        *)
LEMMA SelectOne ==
    ASSUME NEW infos, infos # {},
           \A x \in infos : x.unk \in Nat /\ x.w \in Nat /\ x.p \in Nat
    PROVE  /\ selectPath(infos) \in infos
           /\ \A y \in infos :
                /\ selectPath(infos).unk <= y.unk
                /\ selectPath(infos).unk = y.unk => selectPath(infos).w <= y.w
<1> DEFINE A == {x \in infos : \A y \in infos : x.unk <= y.unk}
           B == {x \in A : \A y \in A : x.w <= y.w}
           C == {x \in B : \A y \in B : x.p <= y.p}
           D == {x \in C : \A y \in C : Rank(x.type) <= Rank(y.type)}
<1>1. A # {}
  <2>1. PICK n \in {x.unk : x \in infos} : \A m \in {x.unk : x \in infos} : n <= m
    <3>1. {x.unk : x \in infos} \subseteq Nat /\ {x.unk : x \in infos} # {}
      OBVIOUS
    <3>2. QED
      BY <3>1, LeastNat
  <2>2. QED
    BY <2>1
<1>2. B # {}
  <2>1. PICK n \in {x.w : x \in A} : \A m \in {x.w : x \in A} : n <= m
    <3>1. {x.w : x \in A} \subseteq Nat /\ {x.w : x \in A} # {}
      BY <1>1
    <3>2. QED
      BY <3>1, LeastNat
  <2>2. QED
    BY <2>1
<1>3. C # {}
  <2>1. PICK n \in {x.p : x \in B} : \A m \in {x.p : x \in B} : n <= m
    <3>1. {x.p : x \in B} \subseteq Nat /\ {x.p : x \in B} # {}
      BY <1>2
    <3>2. QED
      BY <3>1, LeastNat
  <2>2. QED
    BY <2>1
<1>4. D # {}
  <2>1. PICK n \in {Rank(x.type) : x \in C} : \A m \in {Rank(x.type) : x \in C} : n <= m
    <3>1. {Rank(x.type) : x \in C} \subseteq Nat /\ {Rank(x.type) : x \in C} # {}
      BY <1>3, RankNat
    <3>2. QED
      BY <3>1, LeastNat
  <2>2. QED
    BY <2>1
<1>5. selectPath(infos) = CHOOSE x \in D : TRUE
  BY DEF selectPath, Least
<1>6. selectPath(infos) \in D
  BY <1>4, <1>5
<1>7. \A x, y \in infos : x \in D /\ x.unk = y.unk => y \in A
  OBVIOUS
<1>8. QED
  BY <1>6, <1>7

(* An acceptor that has read at most n of the characters, maybe none.      *)
Reader(a, n) == /\ {"strOffset", "isFinal"} \subseteq DOMAIN a
                /\ a.type \in Types
                /\ a.strOffset \in 0..n

(* What is left of an acceptor after a character is of its kind, and has   *)
(* read one more.                                                          *)
LEMMA TransitReads ==
    ASSUME NEW n \in Nat, NEW a, Reader(a, n), NEW ch, NEW b \in transit(a, ch)
    PROVE  /\ IsAcceptor(b, n + 1)
           /\ b.type = a.type /\ b.strOffset = a.strOffset + 1
<1>1. ASSUME NEW c, Reader(c, n), NEW ok, NEW final, NEW d \in Accepts(c, ok, final)
      PROVE  IsAcceptor(d, n + 1) /\ d.type = c.type /\ d.strOffset = c.strOffset + 1
  <2>1. d = [c EXCEPT !.strOffset = @ + 1, !.isFinal = final]
    BY <1>1 DEF Accepts
  <2>2. d.strOffset = c.strOffset + 1 /\ d.type = c.type /\ DOMAIN d = DOMAIN c
    BY <1>1, <2>1 DEF Reader
  <2>3. QED
    BY <1>1, <2>2 DEF IsAcceptor, Reader
<1>2. CASE a.type = "DICT"
  <2>1. b \in transitDict(a, ch)
    BY <1>2 DEF transit
  <2>2. PICK l, r, ok, final : b \in Accepts([a EXCEPT !.l = l, !.r = r], ok, final)
    BY <2>1, Zenon DEF transitDict
  <2> DEFINE c == [a EXCEPT !.l = l, !.r = r]
  <2>3. Reader(c, n) /\ c.type = a.type /\ c.strOffset = a.strOffset
    BY DEF Reader
  <2>4. b \in Accepts(c, ok, final)
    BY <2>2
  <2> HIDE DEF c
  <2>5. QED
    BY <1>1, <2>3, <2>4
<1>3. CASE a.type = "PART"
  <2>1. b \in transitPart(a, ch)
    BY <1>3 DEF transit
  <2>2. PICK rest, ok, final : b \in Accepts([a EXCEPT !.patterns = rest], ok, final)
    BY <2>1, Zenon DEF transitPart
  <2> DEFINE c == [a EXCEPT !.patterns = rest]
  <2>3. Reader(c, n) /\ c.type = a.type /\ c.strOffset = a.strOffset
    BY DEF Reader
  <2>4. b \in Accepts(c, ok, final)
    BY <2>2
  <2> HIDE DEF c
  <2>5. QED
    BY <1>1, <2>3, <2>4
<1>4. CASE a.type \notin {"DICT", "PART"}
  <2>1. a.type \in {"WORD_RULE", "SPACE_RULE", "SINSYM", "NUMBER_RULE", "THAI_RULE"}
    BY <1>4 DEF Reader, Types, Creators, Range
  <2>2. \E ok, final : b \in Accepts(a, ok, final)
    BY <2>1 DEF transit
  <2>3. QED
    BY <1>1, <2>2
<1>5. QED
  BY <1>2, <1>3, <1>4

LEMMA AllRead ==
    ASSUME IInv
    PROVE  Len(text) \in Nat /\ \A a \in current \cup created : Reader(a, Len(text))
<1>1. Len(text) \in Nat
  BY DEF IInv, TypeOK
<1>2. QED
  BY <1>1 DEF IInv, IsAcceptor, Reader, created, Acceptor

(* An acceptor that is alive after a character has read one more, at most  *)
(* all of them.                                                            *)
LEMMA AliveAcceptors ==
    ASSUME IInv, NEW ch
    PROVE  \A a \in alive(ch) : IsAcceptor(a, Len(text) + 1)
BY AllRead, TransitReads DEF alive

(* The ways to end a prefix all lead to shorter ones.                      *)
LEMMA BuildInfos ==
    ASSUME IInv, NEW ch, NEW finals, \A a \in finals : IsAcceptor(a, Len(text) + 1)
    PROVE  LET infos == build(finals, Len(text), ch)
           IN  /\ infos # {}
               /\ \A x \in infos : x \in Infos /\ x.p \in 0..Len(text)
                                   /\ x.merge \in -1..Len(text)
<1>1. Len(text) \in Nat /\ leftBoundary \in 0..Len(text)
  BY DEF IInv, TypeOK
<1>a. \A k \in 0..Len(text) : path[k] \in Infos
  BY DEF IInv, TypeOK
<1>b. \A k \in 1..Len(text) : path[k].p \in 0..k - 1
  BY DEF IInv, TypeOK
<1>2. ASSUME NEW a \in finals
      PROVE  LET x == pathInfo(a, Len(text))
             IN  x \in Infos /\ x.p \in 0..Len(text) /\ x.merge \in -1..Len(text)
  <2>1. Len(text) - a.strOffset + 1 \in 0..Len(text) /\ a.type \in Types
    BY <1>1 DEF IsAcceptor
  <2>2. path[Len(text) - a.strOffset + 1].w \in Nat /\ path[Len(text) - a.strOffset + 1].unk \in Nat
    BY <1>1, <1>a, <2>1 DEF Infos
  <2> DEFINE p == Len(text) - a.strOffset + 1
             w == 1 + path[p].w
             u == (IF a.type = "PART" THEN 1 ELSE 0) + path[p].unk
             m == IF a.type = "PART" THEN p ELSE Null
  <2>3. w \in Nat /\ u \in Nat
    <3>1. CASE a.type = "PART"
      BY <2>2, <3>1
    <3>2. CASE a.type # "PART"
      BY <2>2, <3>2
    <3>3. QED
      BY <3>1, <3>2
  <2>4. m \in -1..Len(text)
    <3>1. p \in -1..Len(text) /\ Null \in -1..Len(text)
      BY <1>1, <2>1 DEF Null
    <3> HIDE DEF p
    <3>2. QED
      BY <3>1
  <2>5. p \in 0..Len(text)
    BY <2>1
  <2>6. pathInfo(a, Len(text)) = [p |-> p, w |-> w, unk |-> u, type |-> a.type, merge |-> m]
    BY DEF pathInfo
  <2> HIDE DEF p, w, u, m
  <2>7. QED
    BY <1>1, <2>1, <2>3, <2>4, <2>5, <2>6 DEF Infos
<1>3. LET x == fallback(Len(text), ch)
      IN  x \in Infos /\ x.p \in 0..Len(text) /\ x.merge \in -1..Len(text)
  <2>1. leftBoundary # 0 => path[leftBoundary].p \in 0..Len(text)
    BY <1>1, <1>b
  <2>2. QED
    BY <1>1, <1>a, <2>1 DEF fallback, Infos, Null
<1>4. QED
  BY <1>2, <1>3 DEF build

(* A mark that a part leaves at a place lies before that place.            *)
LEMMA MergedBefore ==
    ASSUME IInv, NEW finals, NEW k \in 0..Len(text)
    PROVE  /\ merged(finals, Len(text), k) \in Int
           /\ k > 0 => merged(finals, Len(text), k) \in -1..k - 1
<1>1. Len(text) \in Nat /\ path[k].merge \in Int /\ (k > 0 => path[k].merge \in -1..k - 1)
  BY DEF IInv, TypeOK, Infos
<1>2. CASE Covering(finals, Len(text), k) = {}
  BY <1>1, <1>2 DEF merged
<1>3. CASE Covering(finals, Len(text), k) # {}
  <2>1. Covering(finals, Len(text), k) \subseteq 0..k - 1
    BY DEF Covering
  <2>2. k > 0 /\ Covering(finals, Len(text), k) \subseteq 0..k
    BY <1>1, <1>3, <2>1
  <2>3. \E p \in Covering(finals, Len(text), k) : \A q \in Covering(finals, Len(text), k) : q <= p
    BY <1>1, <1>3, <2>2, GreatestNat
  <2>4. merged(finals, Len(text), k) \in Covering(finals, Len(text), k)
    BY <1>3, <2>3 DEF merged
  <2>5. QED
    BY <2>1, <2>2, <2>4
<1>4. QED
  BY <1>2, <1>3

-----------------------------------------------------------------------------
LEMMA InitInvariant == Init => IInv
BY DEF Init, IInv, TypeOK, Tiles, initPath, Infos, Null, IsAcceptor

LEMMA ReadCharInvariant ==
    ASSUME IInv, NEW ch \in Chars, ReadChar(ch)
    PROVE  IInv'
<1> DEFINE i      == Len(text)
           finals == {a \in alive(ch) : a.isFinal}
           info   == selectPath(build(finals, i, ch))
<1>1. i \in Nat /\ text' \in Seq(Chars) /\ Len(text') = i + 1
  BY DEF ReadChar, IInv, TypeOK
<1>2. \A a \in current' : IsAcceptor(a, i + 1)
  BY AliveAcceptors DEF ReadChar
<1>3. info \in Infos /\ info.p \in 0..i /\ info.merge \in -1..i
  <2>1. \A a \in finals : IsAcceptor(a, i + 1)
    BY AliveAcceptors
  <2>2. /\ build(finals, i, ch) # {}
        /\ \A x \in build(finals, i, ch) : x \in Infos /\ x.p \in 0..i /\ x.merge \in -1..i
    BY <2>1, BuildInfos
  <2>3. \A x \in build(finals, i, ch) : x.unk \in Nat /\ x.w \in Nat /\ x.p \in Nat
    BY <1>1, <2>2 DEF Infos
  <2>4. info \in build(finals, i, ch)
    BY <2>2, <2>3, SelectOne
  <2>5. QED
    BY <2>2, <2>4
<1>4. path' = [k \in 0..i + 1 |-> IF k = i + 1 THEN info
                                   ELSE [path[k] EXCEPT !.merge = merged(finals, i, k)]]
  BY DEF ReadChar
<1>5. \A k \in 0..i : /\ path[k] \in Infos
                      /\ merged(finals, i, k) \in Int
                      /\ k > 0 => merged(finals, i, k) \in -1..k - 1 /\ path[k].p \in 0..k - 1
  <2>1. \A k \in 0..i : path[k] \in Infos
    BY <1>1 DEF IInv, TypeOK
  <2>a. \A k \in 0..i : k > 0 => path[k].p \in 0..k - 1
    BY <1>1 DEF IInv, TypeOK
  <2>2. \A k \in 0..i : /\ merged(finals, i, k) \in Int
                        /\ k > 0 => merged(finals, i, k) \in -1..k - 1
    BY MergedBefore
  <2>3. QED
    BY <2>1, <2>a, <2>2
<1> HIDE DEF finals, info
<1>6. \A k \in 0..i : LET x == [path[k] EXCEPT !.merge = merged(finals, i, k)]
                      IN  /\ x \in Infos
                          /\ k > 0 => x.p \in 0..k - 1 /\ x.merge \in -1..k - 1
  BY <1>5 DEF Infos
<1> DEFINE entry(k) == IF k = i + 1 THEN info
                       ELSE [path[k] EXCEPT !.merge = merged(finals, i, k)]
<1>a. \A k \in 0..i + 1 : /\ entry(k) \in Infos
                          /\ k > 0 => entry(k).p \in 0..k - 1 /\ entry(k).merge \in -1..k - 1
  <2> SUFFICES ASSUME NEW k \in 0..i + 1
               PROVE  /\ entry(k) \in Infos
                      /\ k > 0 => entry(k).p \in 0..k - 1 /\ entry(k).merge \in -1..k - 1
    OBVIOUS
  <2>1. CASE k = i + 1
    BY <1>1, <1>3, <2>1
  <2>2. CASE k # i + 1
    <3>1. k \in 0..i
      BY <1>1, <2>2
    <3>2. QED
      BY <1>6, <2>2, <3>1
  <2>3. QED
    BY <2>1, <2>2
<1>b. path' = [k \in 0..i + 1 |-> entry(k)]
  BY <1>4
<1> HIDE DEF entry
<1>7. path' \in [0..i + 1 -> Infos]
  BY <1>a, <1>b
<1>8. \A k \in 1..i + 1 : path'[k].p \in 0..k - 1 /\ path'[k].merge \in -1..k - 1
  BY <1>1, <1>a, <1>b
<1>9. leftBoundary' \in 0..i + 1 /\ e' \in 0..i + 1 /\ pc = "build" /\ pc' = "build"
  BY <1>1 DEF ReadChar, IInv, TypeOK
<1>10. TypeOK'
  BY <1>1, <1>2, <1>7, <1>8, <1>9 DEF TypeOK, IsAcceptor
<1>11. QED
  BY <1>1, <1>2, <1>9, <1>10 DEF ReadChar, IInv, Tiles

(* One more range, or the first one longer: it begins where the rest of   *)
(* the text ends.                                                          *)
LEMMA CutBackInvariant ==
    ASSUME IInv, CutBack
    PROVE  IInv'
<1> DEFINE info  == path[e]
           joins == info.merge # Null /\ ranges # <<>>
           s     == IF joins THEN info.merge ELSE info.p
<1>1. s \in 0..e - 1 /\ e' = s /\ e \in 1..Len(text) /\ Len(text) \in Nat /\ pc = "ranges"
  BY DEF CutBack, IInv, TypeOK, Null
<1>2. TypeOK'
  BY <1>1 DEF CutBack, IInv, TypeOK
<1>3. ranges' \in Seq(Ranges) /\ Tiles'
  <2>1. CASE joins
    <3>1. ranges' = <<[s |-> s, e |-> Head(ranges).e]>> \o Tail(ranges)
      BY <2>1 DEF CutBack
    <3>2. ranges # <<>> /\ Len(ranges) \in Nat \ {0} /\ Head(ranges) = ranges[1]
          /\ ranges[1] \in Ranges
      BY <2>1 DEF IInv
    <3>3. /\ ranges' \in Seq(Ranges) /\ Len(ranges') = Len(ranges)
          /\ \A k \in 1..Len(ranges) :
                ranges'[k] = IF k = 1 THEN [s |-> s, e |-> ranges[1].e] ELSE ranges[k]
      BY <1>1, <3>1, <3>2 DEF IInv, Ranges
    <3>4. /\ ranges[1].s = e /\ ranges[Len(ranges)].e = Len(text)
          /\ \A k \in 1..Len(ranges) : ranges[k].s < ranges[k].e /\ ranges[k] \in Ranges
          /\ \A k \in 1..Len(ranges) - 1 : ranges[k].e = ranges[k + 1].s
      BY <1>1, <3>2 DEF IInv, Tiles
    <3>5. /\ ranges'[1].s = s /\ ranges'[Len(ranges)].e = Len(text)
          /\ \A k \in 1..Len(ranges) : ranges'[k].e = ranges[k].e
          /\ \A k \in 2..Len(ranges) : ranges'[k].s = ranges[k].s
          /\ s < ranges[1].e
      <4>1. ranges'[1] = [s |-> s, e |-> ranges[1].e]
        BY <3>2, <3>3
      <4>2. \A k \in 2..Len(ranges) : ranges'[k] = ranges[k]
        BY <3>2, <3>3
      <4>3. \A k \in 1..Len(ranges) : ranges'[k].e = ranges[k].e
        BY <4>1, <4>2, <3>2
      <4>4. s < ranges[1].e
        BY <1>1, <3>2, <3>4 DEF Ranges
      <4>5. QED
        BY <4>1, <4>2, <4>3, <4>4, <3>2, <3>4
    <3>6. \A k \in 1..Len(ranges) : ranges'[k].s < ranges'[k].e
      <4>1. ASSUME NEW k \in 1..Len(ranges), k # 1 PROVE ranges'[k].s < ranges'[k].e
        <5>1. k \in 2..Len(ranges)
          BY <4>1, <3>2
        <5>2. QED
          BY <3>4, <3>5, <5>1
      <4>2. 1 \in 1..Len(ranges) => ranges'[1].s < ranges'[1].e
        BY <3>5
      <4>3. QED
        BY <4>1, <4>2
    <3>7. \A k \in 1..Len(ranges) - 1 : ranges'[k].e = ranges'[k + 1].s
      <4>1. ASSUME NEW k \in 1..Len(ranges) - 1 PROVE ranges'[k].e = ranges'[k + 1].s
        <5>1. k \in 1..Len(ranges) /\ k + 1 \in 2..Len(ranges)
          BY <4>1, <3>2
        <5>2. QED
          BY <3>4, <3>5, <4>1, <5>1
      <4>2. QED
        BY <4>1
    <3>8. e' = s /\ text' = text
      BY <1>1 DEF CutBack
    <3>9. QED
      BY <3>2, <3>3, <3>5, <3>6, <3>7, <3>8 DEF Tiles
  <2>2. CASE ~joins
    <3>1. ranges' = <<[s |-> s, e |-> e]>> \o ranges
      BY <2>2 DEF CutBack
    <3>2. /\ ranges' \in Seq(Ranges) /\ Len(ranges') = Len(ranges) + 1
          /\ \A k \in 1..Len(ranges) + 1 :
                ranges'[k] = IF k = 1 THEN [s |-> s, e |-> e] ELSE ranges[k - 1]
          /\ Len(ranges) \in Nat
      BY <1>1, <3>1 DEF IInv, Ranges
    <3>3. /\ \A k \in 1..Len(ranges) : ranges[k].s < ranges[k].e
          /\ \A k \in 1..Len(ranges) - 1 : ranges[k].e = ranges[k + 1].s
          /\ IF Len(ranges) = 0 THEN e = Len(text)
                                ELSE ranges[1].s = e /\ ranges[Len(ranges)].e = Len(text)
      BY <1>1 DEF IInv, Tiles
    <3>4. ranges'[1].s = s /\ ranges'[1].e = e /\ ranges'[Len(ranges) + 1].e = Len(text)
      BY <1>1, <3>2, <3>3
    <3>a. \A k \in 1..Len(ranges) : ranges'[k + 1] = ranges[k]
      BY <3>2
    <3>5. \A k \in 1..Len(ranges) + 1 : ranges'[k].s < ranges'[k].e
      <4>1. ASSUME NEW k \in 1..Len(ranges) + 1, k # 1 PROVE ranges'[k].s < ranges'[k].e
        <5>1. k - 1 \in 1..Len(ranges) /\ ranges'[k] = ranges[k - 1]
          BY <3>2, <4>1
        <5>2. QED
          BY <3>3, <5>1
      <4>2. QED
        BY <1>1, <3>4, <4>1
    <3>6. \A k \in 1..Len(ranges) : ranges'[k].e = ranges'[k + 1].s
      <4>1. ASSUME NEW k \in 1..Len(ranges), k # 1 PROVE ranges'[k].e = ranges'[k + 1].s
        <5>1. k - 1 \in 1..Len(ranges) - 1 /\ ranges'[k] = ranges[k - 1] /\ k - 1 + 1 = k
          BY <3>2, <4>1
        <5>2. QED
          BY <3>3, <3>a, <5>1
      <4>2. ASSUME 1 \in 1..Len(ranges) PROVE ranges'[1].e = ranges'[2].s
        <5>1. ranges'[2] = ranges[1] /\ Len(ranges) # 0
          BY <3>2, <3>a, <4>2
        <5>2. QED
          BY <3>3, <3>4, <5>1
      <4>3. QED
        BY <4>1, <4>2
    <3>7. e' = s /\ text' = text
      BY <1>1 DEF CutBack
    <3>8. QED
      BY <3>2, <3>4, <3>5, <3>6, <3>7 DEF Tiles
  <2>3. QED
    BY <2>1, <2>2
<1>4. QED
  BY <1>1, <1>2, <1>3 DEF CutBack, IInv, IsAcceptor

LEMMA NextInvariant == IInv /\ [Next]_vars => IInv'
<1> SUFFICES ASSUME IInv, [Next]_vars PROVE IInv'
  OBVIOUS
<1>1. CASE TextEnds
  BY <1>1 DEF TextEnds, IInv, TypeOK, Tiles, IsAcceptor
<1>2. CASE NextText
  BY <1>2 DEF NextText, IInv, TypeOK, Tiles, IsAcceptor, initPath, Infos, Null
<1>3. CASE UNCHANGED vars
  BY <1>3 DEF vars, IInv, TypeOK, Tiles, IsAcceptor
<1>4. QED
  BY <1>1, <1>2, <1>3, ReadCharInvariant, CutBackInvariant DEF Next

LEMMA Invariance == Spec => []IInv
BY InitInvariant, NextInvariant, PTL DEF Spec

-----------------------------------------------------------------------------
(* Paths lead to shorter prefixes, acceptors have read what there is.      *)
THEOREM TypeCorrect == Spec => []TypeOK
<1>1. IInv => TypeOK
  BY DEF IInv
<1>2. QED
  BY <1>1, Invariance, PTL

(* The pieces are the text, whatever the dictionary and the merges.        *)
THEOREM PiecesTile == Spec => []Tiles
<1>1. IInv => Tiles
  BY DEF IInv
<1>2. QED
  BY <1>1, Invariance, PTL

-----------------------------------------------------------------------------
(***************************************************************************)
(* Loops.  A function that is defined by a tail recursion exists when the  *)
(* recursion ends: when each call has a smaller rank.                      *)
(***************************************************************************)
IsLoop(f, D, Done, out, next) ==
    /\ f = [x \in D |-> f[x]]
    /\ \A x \in D : f[x] = IF x \in Done THEN out[x] ELSE f[next[x]]

LEMMA TailRecursion ==
    ASSUME NEW D, NEW V, NEW Done \in SUBSET D, NEW out \in [D -> V],
           NEW next \in [D -> D], NEW rank \in [D -> Nat], \A x \in D \ Done : rank[next[x]] < rank[x]
    PROVE  \E f : IsLoop(f, D, Done, out, next)
<1> DEFINE Below(n)  == {x \in D : rank[x] < n}
           Step(g)   == [x \in D |-> IF x \in Done THEN out[x] ELSE g[next[x]]]
           Sol(n, g) == \A x \in Below(n) : g[x] = IF x \in Done THEN out[x] ELSE g[next[x]]
           None      == {n \in Nat : ~\E g : Sol(n, g)}
<1>1. \A n \in Nat : \E g : Sol(n, g)
  <2>1. SUFFICES ASSUME None # {} PROVE FALSE
    OBVIOUS
  <2>2. PICK n \in None : \A m \in None : n <= m
    <3>1. None \subseteq Nat
      OBVIOUS
    <3> HIDE DEF None
    <3>2. QED
      BY <2>1, <3>1, LeastNat
  <2>3. n # 0
    <3>1. Below(0) = {}
      OBVIOUS
    <3>2. QED
      BY <3>1
  <2>4. PICK g : Sol(n - 1, g)
    <3>1. n - 1 \in Nat /\ n - 1 \notin None
      BY <2>2, <2>3
    <3>2. QED
      BY <3>1
  <2>5. Sol(n, Step(g))
    <3> SUFFICES ASSUME NEW x \in Below(n), x \notin Done
                 PROVE  Step(g)[x] = Step(g)[next[x]]
      OBVIOUS
    <3>1. next[x] \in Below(n - 1)
      BY <2>2
    <3>2. Step(g)[next[x]] = g[next[x]]
      BY <2>4, <3>1
    <3>3. QED
      BY <3>2
  <2>6. QED
    BY <2>2, <2>5
<1>2. ASSUME NEW n \in Nat, NEW m \in Nat, NEW g, NEW h, Sol(n, g), Sol(m, h),
             NEW x \in Below(n) \cap Below(m)
      PROVE  g[x] = h[x]
  <2> DEFINE Differ == {k \in Nat : \E y \in Below(n) \cap Below(m) :
                                       rank[y] = k /\ g[y] # h[y]}
  <2>1. SUFFICES ASSUME Differ # {} PROVE FALSE
    OBVIOUS
  <2>2. PICK k \in Differ : \A j \in Differ : k <= j
    <3>1. Differ \subseteq Nat
      OBVIOUS
    <3> HIDE DEF Differ
    <3>2. QED
      BY <2>1, <3>1, LeastNat
  <2>3. PICK y \in Below(n) \cap Below(m) : rank[y] = k /\ g[y] # h[y]
    BY <2>2
  <2>4. y \notin Done
    BY <1>2, <2>3
  <2>5. next[y] \in Below(n) \cap Below(m) /\ rank[next[y]] < k
    BY <2>3, <2>4
  <2>6. g[next[y]] # h[next[y]]
    BY <1>2, <2>3, <2>4
  <2>7. rank[next[y]] \in Differ
    BY <2>5, <2>6
  <2>8. QED
    BY <2>2, <2>5, <2>7
<1> DEFINE sol(n) == CHOOSE g : Sol(n, g)
           f == [x \in D |-> sol(rank[x] + 1)[x]]
<1>3. \A n \in Nat : Sol(n, sol(n))
  BY <1>1
<1> HIDE DEF sol
<1>4. ASSUME NEW x \in D \ Done PROVE f[x] = f[next[x]]
  <2>1. sol(rank[x] + 1)[x] = sol(rank[x] + 1)[next[x]]
    BY <1>3
  <2>2. next[x] \in Below(rank[x] + 1) \cap Below(rank[next[x]] + 1)
    OBVIOUS
  <2>3. sol(rank[x] + 1)[next[x]] = sol(rank[next[x]] + 1)[next[x]]
    <3>1. rank[x] + 1 \in Nat /\ rank[next[x]] + 1 \in Nat
      OBVIOUS
    <3> HIDE DEF Sol, Below
    <3>2. QED
      BY <1>2, <1>3, <2>2, <3>1
  <2>4. QED
    BY <2>1, <2>3
<1>5. ASSUME NEW x \in Done PROVE f[x] = out[x]
  <2>1. x \in Below(rank[x] + 1)
    OBVIOUS
  <2>2. QED
    BY <1>3, <2>1
<1>6. f = [x \in D |-> f[x]]
  OBVIOUS
<1> HIDE DEF f
<1>7. QED
  BY <1>4, <1>5, <1>6 DEF IsLoop

LEMMA Updated ==
    ASSUME NEW s \in Searches, NEW u
    PROVE  /\ [s EXCEPT !.l = u] = [l |-> u, r |-> s.r, ans |-> s.ans]
           /\ [s EXCEPT !.r = u] = [l |-> s.l, r |-> u, ans |-> s.ans]
BY DEF Searches

(* The variables of dictSeek's loop narrow down: it ends.                  *)
LEMMA Narrows ==
    ASSUME NEW s \in Searches, s.l <= s.r, NEW ch, NEW off, NEW pos
    PROVE  LET t == narrow(s, ch, off, pos)
               m == (s.l + s.r) \div 2
           IN  /\ m \in s.l..s.r
               /\ t \in Searches
               /\ t.r - t.l < s.r - s.l
               /\ s.l <= t.l /\ t.r <= s.r
<1> DEFINE m == (s.l + s.r) \div 2
<1>1. s.l \in Nat /\ s.r \in Int /\ s.ans \in Int
  BY DEF Searches
<1>2. m \in s.l..s.r /\ m \in Nat
  BY <1>1
<1> HIDE DEF m
<1>3. narrow(s, ch, off, pos) \in {[s EXCEPT !.l = m + 1], [s EXCEPT !.r = m - 1],
                                  [l |-> s.l, r |-> m - 1, ans |-> m],
                                  [l |-> m + 1, r |-> s.r, ans |-> m]}
  BY Zenon DEF narrow, m
<1>4. /\ [s EXCEPT !.l = m + 1] = [l |-> m + 1, r |-> s.r, ans |-> s.ans]
      /\ [s EXCEPT !.r = m - 1] = [l |-> s.l, r |-> m - 1, ans |-> s.ans]
  BY Updated
<1>5. \E a, b, c : /\ narrow(s, ch, off, pos) = [l |-> a, r |-> b, ans |-> c]
                   /\ a \in Nat /\ b \in Int /\ c \in Int
                   /\ b - a < s.r - s.l /\ s.l <= a /\ b <= s.r
  <2>1. /\ m + 1 \in Nat /\ m - 1 \in Int /\ m \in Int
        /\ s.r - (m + 1) < s.r - s.l /\ s.l <= m + 1
        /\ m - 1 - s.l < s.r - s.l /\ m - 1 <= s.r
    BY <1>1, <1>2
  <2>2. s.l <= s.l /\ s.r <= s.r
    BY <1>1
  <2>3. QED
    BY <1>1, <1>3, <1>4, <2>1, <2>2, Zenon
<1>6. QED
  BY <1>2, <1>5 DEF Searches, m

LEMMA SeekLoop ==
    ASSUME NEW l \in Nat, NEW r \in Int, NEW ch, NEW off, NEW pos
    PROVE  \E f : /\ dictSeek(l, r, ch, off, pos) = f[[l |-> l, r |-> r, ans |-> Null]]
                  /\ \A s \in Searches :
                        f[s] = IF s.l > s.r THEN s.ans ELSE f[narrow(s, ch, off, pos)]
<1> DEFINE Done == {s \in Searches : s.l > s.r}
           out  == [s \in Searches |-> s.ans]
           next == [s \in Searches |-> IF s.l > s.r THEN s ELSE narrow(s, ch, off, pos)]
           rank == [s \in Searches |-> IF s.l > s.r THEN 0 ELSE s.r - s.l + 1]
           Eq(g) == g = [s \in Searches |->
                            IF s.l > s.r THEN s.ans ELSE g[narrow(s, ch, off, pos)]]
<1>1. \A s \in Searches : s.l \in Nat /\ s.r \in Int /\ s.ans \in Int
  BY DEF Searches
<1>2. \A s \in Searches : s.l <= s.r =>
         LET t == narrow(s, ch, off, pos)
         IN  t \in Searches /\ t.r - t.l < s.r - s.l
  BY Narrows
<1>3. /\ Done \in SUBSET Searches /\ next \in [Searches -> Searches]
      /\ out \in [Searches -> Int] /\ rank \in [Searches -> Nat]
  BY <1>1, <1>2
<1>4. \A s \in Searches \ Done : rank[next[s]] < rank[s]
  BY <1>1, <1>2
<1>5. PICK f : IsLoop(f, Searches, Done, out, next)
  <2> HIDE DEF Done, out, next, rank
  <2>1. QED
    BY <1>3, <1>4, TailRecursion
<1>6. \A s \in Searches : f[s] = IF s.l > s.r THEN s.ans ELSE f[narrow(s, ch, off, pos)]
  BY <1>5 DEF IsLoop
<1>8. Eq(f)
  BY <1>5, <1>6 DEF IsLoop
<1> DEFINE g == CHOOSE g : Eq(g)
<1>9. Eq(g)
  <2> HIDE DEF Eq
  <2>1. QED
    BY <1>8
<1>10. dictSeek(l, r, ch, off, pos) = g[[l |-> l, r |-> r, ans |-> Null]]
  BY DEF dictSeek
<1> HIDE DEF g
<1>11. QED
  BY <1>9, <1>10

-----------------------------------------------------------------------------
(***************************************************************************)
(* What dictSeek finds.  Of the words at l..r some come before those that  *)
(* have ch at the offset, then those that have it, then the others.        *)
(***************************************************************************)
Short(m, ch, off) == Len(dict[m + 1]) <= off \/ dict[m + 1][off + 1] < ch
Hit(m, ch, off)   == ~Short(m, ch, off) /\ dict[m + 1][off + 1] = ch
Past(m, ch, off)  == ~Short(m, ch, off) /\ dict[m + 1][off + 1] > ch
Ordered(l, r, ch, off) ==
    \A i, j \in l..r : i < j => /\ Short(j, ch, off) => Short(i, ch, off)
                                /\ Past(i, ch, off) => Past(j, ch, off)
Hits(l, r, ch, off) == {m \in l..r : Hit(m, ch, off)}

\* What the loop returns that is at s.
Returns(x, s, ch, off, pos) ==
    LET hits == Hits(s.l, s.r, ch, off)
    IN  IF hits = {} THEN x = s.ans
        ELSE x \in hits /\ \A m \in hits : IF pos = "LEFT" THEN x <= m ELSE m <= x

(* The hits on either side of a line that the loop has just read.          *)
LEMMA HitsSides ==
    ASSUME NEW l \in Nat, NEW r \in Int, NEW m \in l..r, NEW ch, NEW off
    PROVE  /\ Hits(l, r, ch, off) \subseteq Int
           /\ Hit(m, ch, off) => m \in Hits(l, r, ch, off)
           /\ Hits(l, m - 1, ch, off) \subseteq Hits(l, r, ch, off)
           /\ \A i \in Hits(l, m - 1, ch, off) : i <= m
           /\ \A i \in Hits(l, r, ch, off) : i \in Hits(l, m - 1, ch, off) \/ m <= i
           /\ Hits(m + 1, r, ch, off) \subseteq Hits(l, r, ch, off)
           /\ \A i \in Hits(m + 1, r, ch, off) : m <= i
           /\ \A i \in Hits(l, r, ch, off) : i \in Hits(m + 1, r, ch, off) \/ i <= m
<1>1. m \in Nat /\ l <= m /\ m <= r
  OBVIOUS
<1>2. /\ \A i \in l..r : i \in Int /\ (i \in l..m - 1 \/ m <= i) /\ (i \in m + 1..r \/ i <= m)
      /\ \A i \in l..m - 1 : i \in l..r /\ i <= m
      /\ \A i \in m + 1..r : i \in l..r /\ m <= i
  BY <1>1
<1>3. QED
  BY <1>2, Zenon DEF Hits

(* One turn of the loop does not change what it will return.               *)
LEMMA NarrowReturns ==
    ASSUME NEW s \in Searches, s.l <= s.r, s.r < Len(dict), dict \in Seq(Seq(Nat)),
           NEW ch \in Nat, NEW off \in Nat, NEW pos \in {"LEFT", "RIGHT"},
           Ordered(s.l, s.r, ch, off), NEW x,
           Returns(x, narrow(s, ch, off, pos), ch, off, pos)
    PROVE  Returns(x, s, ch, off, pos)
<1> DEFINE m == (s.l + s.r) \div 2
           w == dict[m + 1]
           t == narrow(s, ch, off, pos)
<1>1. s.l \in Nat /\ s.r \in Int /\ s.ans \in Int
  BY DEF Searches
<1>2. m \in s.l..s.r /\ m \in Nat
  BY <1>1
<1>b. w \in Seq(Nat)
  <2> HIDE DEF m
  <2>1. m + 1 \in 1..Len(dict)
    BY <1>1, <1>2
  <2>2. QED
    BY <2>1
<1>3. Len(w) \in Nat /\ (Len(w) > off => w[off + 1] \in Nat)
  <2> HIDE DEF w
  <2>1. Len(w) > off => off + 1 \in 1..Len(w)
    BY <1>b
  <2>2. QED
    BY <1>b, <2>1
<1>4. t = IF Short(m, ch, off) THEN [s EXCEPT !.l = m + 1]
          ELSE IF w[off + 1] > ch THEN [s EXCEPT !.r = m - 1]
          ELSE IF pos = "LEFT" THEN [l |-> s.l, r |-> m - 1, ans |-> m]
          ELSE [l |-> m + 1, r |-> s.r, ans |-> m]
  BY Zenon DEF narrow, Short
<1>5. /\ [s EXCEPT !.l = m + 1] = [l |-> m + 1, r |-> s.r, ans |-> s.ans]
      /\ [s EXCEPT !.r = m - 1] = [l |-> s.l, r |-> m - 1, ans |-> s.ans]
  BY Updated
<1> DEFINE hits(a, b) == Hits(a, b, ch, off)
<1>a. Returns(x, t, ch, off, pos)
  OBVIOUS
<1> HIDE DEF t, m
<1>6. CASE Short(m, ch, off)
  <2>1. t = [l |-> m + 1, r |-> s.r, ans |-> s.ans]
    BY <1>4, <1>5, <1>6
  <2>2. \A i \in s.l..m : Short(i, ch, off)
    <3>1. ASSUME NEW i \in s.l..m PROVE Short(i, ch, off)
      <4>1. i \in s.l..s.r /\ (i < m \/ i = m)
        BY <1>1, <1>2
      <4>2. QED
        BY <1>2, <1>6, <4>1 DEF Ordered
    <3>2. QED
      BY <3>1
  <2>3. hits(m + 1, s.r) = hits(s.l, s.r)
    BY <1>1, <1>2, <2>2 DEF Hits, Hit
  <2>4. QED
    BY <1>a, <2>1, <2>3 DEF Returns
<1>7. CASE ~Short(m, ch, off) /\ w[off + 1] > ch
  <2>1. t = [l |-> s.l, r |-> m - 1, ans |-> s.ans]
    BY <1>4, <1>5, <1>7
  <2>2. \A i \in m..s.r : Past(i, ch, off)
    <3>1. Past(m, ch, off)
      BY <1>7 DEF Past
    <3>2. ASSUME NEW i \in m..s.r PROVE Past(i, ch, off)
      <4>1. i \in s.l..s.r /\ (m < i \/ i = m)
        BY <1>1, <1>2
      <4>2. QED
        BY <1>2, <3>1, <4>1 DEF Ordered
    <3>3. QED
      BY <3>2
  <2>3. \A i \in m..s.r : ~Hit(i, ch, off)
    <3>1. SUFFICES ASSUME NEW i \in m..s.r, Hit(i, ch, off), Past(i, ch, off) PROVE FALSE
      BY <2>2
    <3>2. dict[i + 1][off + 1] > ch /\ dict[i + 1][off + 1] = ch
      BY <3>1 DEF Hit, Past
    <3>3. QED
      BY <3>2
  <2>4. hits(s.l, m - 1) = hits(s.l, s.r)
    BY <1>1, <1>2, <2>3 DEF Hits
  <2>5. QED
    BY <1>a, <2>1, <2>4 DEF Returns
<1>8. CASE ~Short(m, ch, off) /\ ~(w[off + 1] > ch)
  <2>1. Hit(m, ch, off)
    <3>1. Len(w) > off /\ ~(w[off + 1] < ch)
      BY <1>3, <1>8 DEF Short
    <3>2. PICK v \in Nat : v = w[off + 1]
      BY <1>3, <3>1
    <3>3. v = ch
      BY <1>8, <3>1, <3>2
    <3>4. QED
      BY <1>8, <3>2, <3>3 DEF Hit
  <2>2. m \in hits(s.l, s.r)
    BY <1>1, <1>2, <2>1, HitsSides
  <2>3. CASE pos = "LEFT"
    <3>1. t = [l |-> s.l, r |-> m - 1, ans |-> m]
      BY <1>4, <1>8, <2>3
    <3>2. \A i \in hits(s.l, s.r) : i \in hits(s.l, m - 1) \/ m <= i
      BY <1>1, <1>2, HitsSides
    <3>3. hits(s.l, m - 1) \subseteq hits(s.l, s.r) /\ \A i \in hits(s.l, m - 1) : i <= m
      BY <1>1, <1>2, HitsSides
    <3>4. hits(s.l, s.r) \subseteq Int
      BY <1>1, <1>2, HitsSides
    <3>5. IF hits(s.l, m - 1) = {} THEN x = m
          ELSE x \in hits(s.l, m - 1) /\ \A i \in hits(s.l, m - 1) : x <= i
      BY <1>a, <2>3, <3>1 DEF Returns
    <3> HIDE DEF hits
    <3>6. x \in hits(s.l, s.r) /\ \A i \in hits(s.l, s.r) : x <= i
      BY <1>2, <2>2, <3>2, <3>3, <3>4, <3>5
    <3>7. QED
      BY <2>3, <3>6 DEF Returns, hits
  <2>4. CASE pos = "RIGHT"
    <3>1. t = [l |-> m + 1, r |-> s.r, ans |-> m]
      BY <1>4, <1>8, <2>4
    <3>2. \A i \in hits(s.l, s.r) : i \in hits(m + 1, s.r) \/ i <= m
      BY <1>1, <1>2, HitsSides
    <3>3. hits(m + 1, s.r) \subseteq hits(s.l, s.r) /\ \A i \in hits(m + 1, s.r) : m <= i
      BY <1>1, <1>2, HitsSides
    <3>4. hits(s.l, s.r) \subseteq Int
      BY <1>1, <1>2, HitsSides
    <3>5. IF hits(m + 1, s.r) = {} THEN x = m
          ELSE x \in hits(m + 1, s.r) /\ \A i \in hits(m + 1, s.r) : i <= x
      BY <1>a, <2>4, <3>1 DEF Returns
    <3> HIDE DEF hits
    <3>6. x \in hits(s.l, s.r) /\ \A i \in hits(s.l, s.r) : i <= x
      BY <1>2, <2>2, <3>2, <3>3, <3>4, <3>5
    <3>7. QED
      BY <2>4, <3>6 DEF Returns, hits
  <2>5. QED
    BY <2>3, <2>4
<1>9. QED
  BY <1>6, <1>7, <1>8

(* dictSeek returns the first, or the last, of the words with ch at the    *)
(* offset, and Null when there is none.                                    *)
THEOREM SeekFinds ==
    ASSUME NEW l \in Nat, NEW r \in Int, r < Len(dict), dict \in Seq(Seq(Nat)),
           NEW ch \in Nat, NEW off \in Nat, NEW pos \in {"LEFT", "RIGHT"},
           Ordered(l, r, ch, off)
    PROVE  LET hits == Hits(l, r, ch, off)
               x    == dictSeek(l, r, ch, off, pos)
           IN  IF hits = {} THEN x = Null
               ELSE x \in hits /\ \A m \in hits : IF pos = "LEFT" THEN x <= m ELSE m <= x
<1>1. PICK f : /\ dictSeek(l, r, ch, off, pos) = f[[l |-> l, r |-> r, ans |-> Null]]
               /\ \A s \in Searches :
                     f[s] = IF s.l > s.r THEN s.ans ELSE f[narrow(s, ch, off, pos)]
  BY SeekLoop
<1> DEFINE Within(s) == l <= s.l /\ s.r <= r
           size(s)   == IF s.l > s.r THEN 0 ELSE s.r - s.l + 1
           Wrong     == {n \in Nat : \E s \in Searches : /\ Within(s) /\ size(s) = n
                                                         /\ ~Returns(f[s], s, ch, off, pos)}
<1>2. Wrong = {}
  <2>1. SUFFICES ASSUME Wrong # {} PROVE FALSE
    OBVIOUS
  <2>2. PICK n \in Wrong : \A k \in Wrong : n <= k
    <3>1. Wrong \subseteq Nat
      OBVIOUS
    <3> HIDE DEF Wrong
    <3>2. QED
      BY <2>1, <3>1, LeastNat
  <2>3. PICK s \in Searches : /\ Within(s) /\ size(s) = n
                              /\ ~Returns(f[s], s, ch, off, pos)
    BY <2>2
  <2>4. s.l \in Nat /\ s.r \in Int
    BY DEF Searches
  <2>5. s.l <= s.r
    <3>1. SUFFICES ASSUME s.l > s.r PROVE Returns(f[s], s, ch, off, pos)
      BY <2>3, <2>4
    <3>2. f[s] = s.ans
      BY <1>1, <3>1
    <3>3. Hits(s.l, s.r, ch, off) = {}
      BY <2>4, <3>1 DEF Hits
    <3>4. QED
      BY <3>2, <3>3 DEF Returns
  <2> DEFINE t == narrow(s, ch, off, pos)
  <2>6. t \in Searches /\ t.r - t.l < s.r - s.l /\ s.l <= t.l /\ t.r <= s.r
    BY <2>5, Narrows
  <2>7. f[s] = f[t]
    BY <1>1, <2>4, <2>5
  <2> HIDE DEF t
  <2>8. Within(t) /\ size(t) \in Nat /\ size(t) < n
    <3>1. t.l \in Nat /\ t.r \in Int
      BY <2>6 DEF Searches
    <3>2. Within(t)
      BY <2>3, <2>4, <2>6, <3>1
    <3>3. n = s.r - s.l + 1
      BY <2>3, <2>4, <2>5
    <3>4. size(t) \in {0, t.r - t.l + 1}
      OBVIOUS
    <3>5. size(t) \in Nat
      BY <3>1
    <3> HIDE DEF size, Within
    <3>6. 0 < n /\ t.r - t.l + 1 < n
      <4>1. PICK a \in Nat, b \in Int, c \in Nat, d \in Int :
               a = s.l /\ b = s.r /\ c = t.l /\ d = t.r
        BY <2>4, <3>1
      <4>2. a <= b /\ d - c < b - a /\ n = b - a + 1
        BY <2>5, <2>6, <3>3, <4>1
      <4>3. 0 < n /\ d - c + 1 < n
        BY <4>2
      <4>4. QED
        BY <4>1, <4>3
    <3>7. size(t) < n
      BY <3>4, <3>6
    <3>8. QED
      BY <3>2, <3>5, <3>7
  <2>9. n \in Nat /\ ~(n <= size(t))
    BY <2>2, <2>8
  <2>10. Returns(f[t], t, ch, off, pos)
    BY <2>2, <2>6, <2>8, <2>9
  <2>11. Ordered(s.l, s.r, ch, off) /\ s.r < Len(dict)
    <3>1. \A i \in s.l..s.r : i \in l..r
      BY <2>3, <2>4
    <3>2. s.r < Len(dict)
      BY <2>3, <2>4
    <3>3. QED
      BY <3>1, <3>2 DEF Ordered
  <2>12. Returns(f[s], s, ch, off, pos)
    BY <2>5, <2>7, <2>10, <2>11, NarrowReturns DEF t
  <2>13. QED
    BY <2>3, <2>12
<1> DEFINE s == [l |-> l, r |-> r, ans |-> Null]
<1>3. s \in Searches /\ Within(s) /\ size(s) \in Nat
  BY DEF Searches, Null
<1>4. Returns(f[s], s, ch, off, pos)
  BY <1>2, <1>3
<1>5. QED
  BY <1>1, <1>4 DEF Returns

-----------------------------------------------------------------------------
(***************************************************************************)
(* The order of words.                                                     *)
(***************************************************************************)
(* Prefixes and the order, character by character.                         *)
LEMMA PrefixPoints ==
    ASSUME NEW v \in Seq(Nat), NEW w \in Seq(Nat)
    PROVE  IsPrefix(v, w) <=> Len(v) <= Len(w) /\ \A k \in 1..Len(v) : v[k] = w[k]
<1>1. Len(v) \in Nat /\ Len(w) \in Nat
  OBVIOUS
<1>2. SubSeq(v, 1, Len(v)) = v
  OBVIOUS
<1>3. ASSUME Len(v) <= Len(w)
      PROVE  SubSeq(w, 1, Len(v)) = v <=> \A k \in 1..Len(v) : v[k] = w[k]
  BY <1>1, <1>3
<1>4. QED
  BY <1>2, <1>3 DEF IsPrefix

(* The order, of a word with characters v[1] to v[m] and one with w[1] to  *)
(* w[n].                                                                   *)
IsWord(m, v) == m \in Nat /\ \A k \in 1..m : v[k] \in Nat
Alike(v, w, k) == \A j \in 1..k : v[j] = w[j]
Precedes(m, v, n, w) == \/ m < n /\ Alike(v, w, m)
                        \/ \E k \in 1..m : k <= n /\ v[k] < w[k] /\ Alike(v, w, k - 1)

LEMMA IsWordSeq ==
    ASSUME NEW v \in Seq(Nat)
    PROVE  IsWord(Len(v), v)
BY DEF IsWord

LEMMA BeforePoints ==
    ASSUME NEW v \in Seq(Nat), NEW w \in Seq(Nat)
    PROVE  Before(v, w) <=> Precedes(Len(v), v, Len(w), w)
<1>1. Len(v) \in Nat /\ Len(w) \in Nat
  OBVIOUS
<1>2. ASSUME Len(v) < Len(w)
      PROVE  SubSeq(w, 1, Len(v)) = v <=> Alike(v, w, Len(v))
  BY <1>1, <1>2 DEF Alike
<1>3. ASSUME NEW k \in 1..Len(v), k <= Len(w)
      PROVE  SubSeq(v, 1, k - 1) = SubSeq(w, 1, k - 1) <=> Alike(v, w, k - 1)
  BY <1>1, <1>3 DEF Alike
<1>4. QED
  BY <1>2, <1>3 DEF Before, Precedes

LEMMA PrecedesSelf ==
    ASSUME NEW m, NEW v, IsWord(m, v)
    PROVE  ~Precedes(m, v, m, v)
BY DEF IsWord, Precedes

LEMMA PrecedesTransitive ==
    ASSUME NEW l, NEW u, IsWord(l, u), NEW m, NEW v, IsWord(m, v), NEW n, NEW w, IsWord(n, w),
           Precedes(l, u, m, v), Precedes(m, v, n, w)
    PROVE  Precedes(l, u, n, w)
<1>1. l \in Nat /\ m \in Nat /\ n \in Nat
  BY DEF IsWord
<1>2. \A k \in 1..l : u[k] \in Nat
  BY DEF IsWord
<1>3. \A k \in 1..m : v[k] \in Nat
  BY DEF IsWord
<1>4. \A k \in 1..n : w[k] \in Nat
  BY DEF IsWord
<1>5. ASSUME NEW k \in Nat, Alike(u, v, k), Alike(v, w, k)
      PROVE  Alike(u, w, k)
  BY <1>5 DEF Alike
<1>6. ASSUME NEW j \in Nat, NEW k \in 0..j, NEW x, NEW y, Alike(x, y, j)
      PROVE  Alike(x, y, k) /\ (k < j => x[k + 1] = y[k + 1])
  BY <1>6 DEF Alike
<1>7. CASE l < m /\ Alike(u, v, l)
  <2>1. CASE m < n /\ Alike(v, w, m)
    <3>1. Alike(v, w, l)
      BY <1>1, <1>6, <1>7, <2>1
    <3>2. QED
      BY <1>1, <1>5, <1>7, <2>1, <3>1 DEF Precedes
  <2>2. ASSUME NEW k \in 1..m, k <= n, v[k] < w[k], Alike(v, w, k - 1)
        PROVE  Precedes(l, u, n, w)
    <3>1. CASE k <= l
      <4>1. k - 1 \in 0..l /\ k - 1 < l /\ (k - 1) + 1 = k /\ k - 1 \in Nat
        BY <1>1, <3>1
      <4>2. Alike(u, v, k - 1) /\ u[k] = v[k]
        BY <1>1, <1>6, <1>7, <4>1
      <4>3. Alike(u, w, k - 1)
        BY <1>5, <2>2, <4>1, <4>2
      <4>4. QED
        BY <1>1, <2>2, <3>1, <4>2, <4>3 DEF Precedes
    <3>2. CASE l < k
      <4>1. l \in 0..k - 1 /\ k - 1 \in Nat
        BY <1>1, <3>2
      <4>2. Alike(v, w, l)
        BY <1>6, <2>2, <4>1
      <4>3. QED
        BY <1>1, <1>5, <1>7, <2>2, <3>2, <4>2 DEF Precedes
    <3>3. QED
      BY <1>1, <3>1, <3>2
  <2>3. QED
    BY <2>1, <2>2 DEF Precedes
<1>8. ASSUME NEW i \in 1..l, i <= m, u[i] < v[i], Alike(u, v, i - 1)
      PROVE  Precedes(l, u, n, w)
  <2>1. i - 1 \in Nat /\ (i - 1) + 1 = i /\ i \in 1..m
    BY <1>1, <1>8
  <2>2. CASE m < n /\ Alike(v, w, m)
    <3>1. i - 1 \in 0..m /\ i - 1 < m
      BY <1>1, <1>8
    <3>2. Alike(v, w, i - 1) /\ v[i] = w[i]
      BY <1>1, <1>6, <2>1, <2>2, <3>1
    <3>3. Alike(u, w, i - 1)
      BY <1>5, <1>8, <2>1, <3>2
    <3>4. i <= n
      BY <1>1, <2>1, <2>2
    <3>5. QED
      BY <1>8, <3>2, <3>3, <3>4 DEF Precedes
  <2>3. ASSUME NEW k \in 1..m, k <= n, v[k] < w[k], Alike(v, w, k - 1)
        PROVE  Precedes(l, u, n, w)
    <3>1. k - 1 \in Nat /\ (k - 1) + 1 = k
      BY <1>1
    <3>2. CASE k < i
      <4>1. k - 1 \in 0..i - 1 /\ k - 1 < i - 1 /\ k \in 1..l
        BY <1>1, <3>2
      <4>2. Alike(u, v, k - 1) /\ u[k] = v[k]
        BY <1>6, <1>8, <2>1, <3>1, <4>1
      <4>3. Alike(u, w, k - 1)
        BY <1>5, <2>3, <3>1, <4>2
      <4>4. QED
        BY <2>3, <4>1, <4>2, <4>3 DEF Precedes
    <3>3. CASE k >= i
      <4>1. i - 1 \in 0..k - 1 /\ (i - 1 < k - 1 \/ i = k)
        BY <1>1, <2>1, <3>1, <3>3
      <4>2. Alike(v, w, i - 1) /\ (i - 1 < k - 1 => v[i] = w[i])
        BY <1>6, <2>1, <2>3, <3>1, <4>1
      <4>3. Alike(u, w, i - 1)
        BY <1>5, <1>8, <2>1, <4>2
      <4>4. i <= n /\ i \in 1..n
        BY <1>1, <2>3, <3>3
      <4>5. u[i] \in Nat /\ v[i] \in Nat /\ w[i] \in Nat
        BY <1>2, <1>3, <1>4, <2>1, <4>4
      <4>6. v[i] = w[i] \/ v[i] < w[i]
        BY <2>3, <4>1, <4>2
      <4>7. u[i] < w[i]
        BY <1>8, <4>5, <4>6
      <4>8. QED
        BY <4>3, <4>4, <4>7 DEF Precedes
    <3>4. QED
      BY <1>1, <3>2, <3>3
  <2>4. QED
    BY <2>2, <2>3 DEF Precedes
<1>9. QED
  BY <1>7, <1>8 DEF Precedes

LEMMA PrecedesTotal ==
    ASSUME NEW m, NEW v, IsWord(m, v), NEW n, NEW w, IsWord(n, w), ~(m = n /\ Alike(v, w, m))
    PROVE  Precedes(m, v, n, w) \/ Precedes(n, w, m, v)
<1>1. m \in Nat /\ n \in Nat
  BY DEF IsWord
<1>2. \A k \in 1..m : v[k] \in Nat
  BY DEF IsWord
<1>3. \A k \in 1..n : w[k] \in Nat
  BY DEF IsWord
<1> DEFINE Differ == {k \in Nat : k \in 1..m /\ k \in 1..n /\ v[k] # w[k]}
<1>4. CASE Differ = {}
  <2>1. \A k : k \in 1..m /\ k \in 1..n => v[k] = w[k]
    BY <1>4
  <2>2. m # n
    BY <2>1 DEF Alike
  <2>3. CASE m < n
    <3>1. \A k \in 1..m : k \in 1..n
      BY <1>1, <2>3
    <3>2. QED
      BY <2>1, <2>3, <3>1 DEF Alike, Precedes
  <2>4. CASE n < m
    <3>1. \A k \in 1..n : k \in 1..m
      BY <1>1, <2>4
    <3>2. QED
      BY <2>1, <2>4, <3>1 DEF Alike, Precedes
  <2>5. QED
    BY <1>1, <2>2, <2>3, <2>4
<1>5. CASE Differ # {}
  <2>1. PICK k \in Differ : \A j \in Differ : k <= j
    <3>1. Differ \subseteq Nat
      OBVIOUS
    <3> HIDE DEF Differ
    <3>2. QED
      BY <1>5, <3>1, LeastNat
  <2>2. k \in 1..m /\ k \in 1..n /\ v[k] # w[k]
    OBVIOUS
  <2>3. v[k] \in Nat /\ w[k] \in Nat
    BY <1>2, <1>3, <2>2
  <2>4. \A j \in 1..k - 1 : v[j] = w[j]
    <3>1. SUFFICES ASSUME NEW j \in 1..k - 1, v[j] # w[j] PROVE FALSE
      OBVIOUS
    <3>2. j \in Nat /\ j \in 1..m /\ j \in 1..n /\ ~(k <= j)
      BY <1>1, <2>2
    <3>3. j \in Differ
      BY <3>1, <3>2
    <3>4. QED
      BY <2>1, <3>2, <3>3
  <2>5. v[k] < w[k] \/ w[k] < v[k]
    BY <2>2, <2>3
  <2>6. k <= m /\ k <= n
    BY <1>1, <2>2
  <2> HIDE DEF Differ
  <2>7. QED
    BY <2>2, <2>4, <2>5, <2>6 DEF Alike, Precedes
<1>6. QED
  BY <1>4, <1>5

(* Before is a strict order of all words.                                  *)
LEMMA BeforeIrreflexive ==
    ASSUME NEW v \in Seq(Nat)
    PROVE  ~Before(v, v)
BY IsWordSeq, BeforePoints, PrecedesSelf

LEMMA BeforeTransitive ==
    ASSUME NEW u \in Seq(Nat), NEW v \in Seq(Nat), NEW w \in Seq(Nat),
           Before(u, v), Before(v, w)
    PROVE  Before(u, w)
<1>1. IsWord(Len(u), u) /\ IsWord(Len(v), v) /\ IsWord(Len(w), w)
  BY IsWordSeq
<1>2. Precedes(Len(u), u, Len(v), v) /\ Precedes(Len(v), v, Len(w), w)
  BY BeforePoints
<1>3. Precedes(Len(u), u, Len(w), w)
  BY <1>1, <1>2, PrecedesTransitive
<1>4. QED
  BY <1>3, BeforePoints

LEMMA BeforeTotal ==
    ASSUME NEW v \in Seq(Nat), NEW w \in Seq(Nat), v # w
    PROVE  Before(v, w) \/ Before(w, v)
<1>1. IsWord(Len(v), v) /\ IsWord(Len(w), w)
  BY IsWordSeq
<1>2. ~(Len(v) = Len(w) /\ Alike(v, w, Len(v)))
  BY DEF Alike
<1>3. Precedes(Len(v), v, Len(w), w) \/ Precedes(Len(w), w, Len(v), v)
  BY <1>1, <1>2, PrecedesTotal
<1>4. QED
  BY <1>3, BeforePoints

(* Of words that begin alike, the next character orders.                   *)
LEMMA NextOrders ==
    ASSUME NEW m, NEW v, IsWord(m, v), NEW n, NEW w, IsWord(n, w), Precedes(m, v, n, w),
           NEW off \in Nat, off <= m, off <= n, Alike(v, w, off)
    PROVE  m = off \/ (off < m /\ off < n /\ v[off + 1] <= w[off + 1])
<1>1. m \in Nat /\ n \in Nat
  BY DEF IsWord
<1>2. \A k \in 1..m : v[k] \in Nat
  BY DEF IsWord
<1>3. \A k \in 1..n : w[k] \in Nat
  BY DEF IsWord
<1>4. SUFFICES ASSUME off < m
               PROVE  off < n /\ v[off + 1] <= w[off + 1]
  BY <1>1
<1>5. off + 1 \in 1..m /\ v[off + 1] \in Nat
  BY <1>1, <1>2, <1>4
<1>6. CASE m < n /\ Alike(v, w, m)
  <2>1. v[off + 1] = w[off + 1]
    BY <1>5, <1>6 DEF Alike
  <2>2. QED
    BY <1>1, <1>4, <1>5, <1>6, <2>1
<1>7. ASSUME NEW k \in 1..m, k <= n, v[k] < w[k], Alike(v, w, k - 1)
      PROVE  off < n /\ v[off + 1] <= w[off + 1]
  <2>1. ~(k <= off)
    <3>1. SUFFICES ASSUME k \in 1..off PROVE FALSE
      BY <1>1
    <3>2. v[k] = w[k] /\ v[k] \in Nat
      BY <1>2, <3>1 DEF Alike
    <3>3. QED
      BY <1>7, <3>2
  <2>2. off < n /\ (off + 1 = k \/ off + 1 \in 1..k - 1)
    BY <1>1, <1>7, <2>1
  <2>3. off + 1 \in 1..n /\ w[off + 1] \in Nat
    BY <1>1, <1>3, <2>2
  <2>4. v[off + 1] = w[off + 1] \/ v[off + 1] < w[off + 1]
    BY <1>7, <2>2 DEF Alike
  <2>5. QED
    BY <1>5, <2>2, <2>3, <2>4
<1>8. QED
  BY <1>6, <1>7 DEF Precedes

(* Words are sorted, with no duplicates, when each comes before the next.  *)
Sorted(d) == \A i, j \in DOMAIN d : i < j => Before(d[i], d[j])

(* sortuniq lists the words of a finite set, each once, in their order.    *)
THEOREM SortUniq ==
    ASSUME NEW S, S \subseteq Seq(Nat), IsFiniteSet(S)
    PROVE  /\ sortuniq(S) \in Seq(Seq(Nat))
           /\ Range(sortuniq(S)) = S
           /\ Sorted(sortuniq(S))
<1> DEFINE n     == Cardinality(S)
           B(w)  == {v \in S : Before(v, w)}
           at(w) == 1 + Cardinality(B(w))
           f     == [w \in S |-> at(w)]
           d     == sortuniq(S)
<1>1. n \in Nat
  BY FS_CardinalityType
<1>2. ASSUME NEW w \in S
      PROVE  /\ IsFiniteSet(B(w)) /\ Cardinality(B(w)) \in Nat
             /\ Cardinality(B(w)) <= n - 1
  <2>1. IsFiniteSet(B(w)) /\ Cardinality(B(w)) \in Nat
    BY FS_Subset, FS_CardinalityType
  <2>2. w \notin B(w)
    BY BeforeIrreflexive
  <2>3. IsFiniteSet(S \ {w}) /\ Cardinality(S \ {w}) = n - 1
    BY FS_RemoveElement
  <2>4. B(w) \in SUBSET (S \ {w})
    BY <2>2
  <2> HIDE DEF B
  <2>5. Cardinality(B(w)) <= Cardinality(S \ {w})
    BY <2>3, <2>4, FS_Subset
  <2>6. QED
    BY <2>1, <2>3, <2>5
<1>3. ASSUME NEW v \in S, NEW w \in S, Before(v, w)
      PROVE  at(v) < at(w)
  <2>1. B(v) \subseteq B(w) /\ v \in B(w) /\ v \notin B(v)
    BY <1>3, BeforeTransitive, BeforeIrreflexive
  <2> HIDE DEF B
  <2>2. IsFiniteSet(B(w) \ {v}) /\ Cardinality(B(w) \ {v}) = Cardinality(B(w)) - 1
    BY <1>2, <2>1, FS_RemoveElement
  <2>3. B(v) \in SUBSET (B(w) \ {v})
    BY <2>1
  <2>4. Cardinality(B(v)) <= Cardinality(B(w) \ {v})
    BY <2>2, <2>3, FS_Subset
  <2>5. QED
    BY <1>2, <2>2, <2>4
<1>4. \A w \in S : at(w) \in 1..n
  <2>1. ASSUME NEW w \in S PROVE at(w) \in 1..n
    <3> HIDE DEF B, n
    <3>1. QED
      BY <1>1, <1>2
  <2> HIDE DEF at
  <2>2. QED
    BY <2>1
<1>5. \A v, w \in S : at(v) = at(w) => v = w
  <2>1. SUFFICES ASSUME NEW v \in S, NEW w \in S, at(v) = at(w), v # w PROVE FALSE
    OBVIOUS
  <2>2. Before(v, w) \/ Before(w, v)
    BY <2>1, BeforeTotal
  <2>3. at(v) \in 1..n /\ at(w) \in 1..n
    BY <1>4
  <2> HIDE DEF at
  <2>4. QED
    BY <1>1, <1>3, <2>1, <2>2, <2>3
<1>6. \A k \in 1..n : \E w \in S : at(w) = k
  <2> HIDE DEF at
  <2>1. f \in [S -> 1..n]
    BY <1>4
  <2>2. \A v, w \in S : f[v] = f[w] => v = w
    BY <1>5
  <2>3. f \in Injection(S, 1..n)
    BY <2>1, <2>2 DEF Injection, IsInjective
  <2>4. IsFiniteSet(1..n) /\ Cardinality(1..n) = n
    BY <1>1, FS_Interval
  <2>5. f \in Surjection(S, 1..n)
    BY <2>3, <2>4, FS_Injection
  <2>6. QED
    BY <2>5 DEF Surjection
<1>7. d = [k \in 1..n |-> CHOOSE w \in S : at(w) = k]
  BY DEF sortuniq
<1>8. \A k \in 1..n : d[k] \in S /\ at(d[k]) = k
  <2> HIDE DEF at, d, n
  <2>1. QED
    BY <1>6, <1>7
<1>9. \A w \in S : d[at(w)] = w
  <2> HIDE DEF d, at
  <2>1. QED
    BY <1>4, <1>5, <1>8
<1> HIDE DEF d, at, n
<1>10. DOMAIN d = 1..n /\ d \in [1..n -> S]
  BY <1>7, <1>8
<1>11. d \in Seq(Seq(Nat))
  BY <1>1, <1>10
<1>12. Range(d) = S
  BY <1>4, <1>8, <1>9, <1>10 DEF Range
<1>13. Sorted(d)
  <2>1. SUFFICES ASSUME NEW i \in 1..n, NEW j \in 1..n, i < j, ~Before(d[i], d[j]) PROVE FALSE
    BY <1>10 DEF Sorted
  <2>2. d[i] \in S /\ d[j] \in S /\ at(d[i]) = i /\ at(d[j]) = j
    BY <1>8
  <2>3. d[i] # d[j]
    BY <2>1, <2>2
  <2>4. Before(d[j], d[i])
    BY <2>1, <2>2, <2>3, BeforeTotal
  <2>5. j < i
    BY <1>3, <2>2, <2>4
  <2>6. QED
    BY <1>1, <2>1, <2>5
<1>14. QED
  BY <1>11, <1>12, <1>13 DEF d

LEMMA RangeFinite ==
    ASSUME NEW T, NEW s \in Seq(T)
    PROVE  Range(s) \subseteq T /\ IsFiniteSet(Range(s))
<1>1. DOMAIN s = 1..Len(s) /\ Len(s) \in Nat /\ \A k \in DOMAIN s : s[k] \in T
  OBVIOUS
<1>2. Range(s) \subseteq T
  BY <1>1 DEF Range
<1>3. s \in Surjection(DOMAIN s, Range(s))
  <2>1. s \in [DOMAIN s -> Range(s)]
    BY <1>1 DEF Range
  <2>2. QED
    BY <2>1 DEF Surjection, Range
<1>4. IsFiniteSet(DOMAIN s)
  BY <1>1, FS_Interval
<1>5. QED
  BY <1>2, <1>3, <1>4, FS_Surjection

(* The dictionary that a text is read with.                                *)
DictOK == dict \in Seq(Seq(Nat)) /\ Sorted(dict)

(* initDict: the words of the file with more than one character and those  *)
(* of addWords, sorted, each once.                                         *)
THEOREM InitDict ==
    ASSUME NEW words \in Additional
    PROVE  /\ initDict(words) \in Seq(Seq(Nat)) /\ Sorted(initDict(words))
           /\ Range(initDict(words)) = {w \in Range(Builtin) : Len(w) > 1} \cup Range(words)
<1> DEFINE S == {w \in Range(Builtin) : Len(w) > 1} \cup Range(words)
<1>1. words \in Seq(Seq(Nat)) /\ Builtin \in Seq(Seq(Nat))
  BY WordsAssumption
<1>2. /\ Range(Builtin) \subseteq Seq(Nat) /\ IsFiniteSet(Range(Builtin))
      /\ Range(words) \subseteq Seq(Nat) /\ IsFiniteSet(Range(words))
  BY <1>1, RangeFinite
<1>3. IsFiniteSet({w \in Range(Builtin) : Len(w) > 1})
  BY <1>2, FS_Subset
<1>4. S \subseteq Seq(Nat) /\ IsFiniteSet(S)
  BY <1>2, <1>3, FS_Union
<1>5. initDict(words) = sortuniq(S)
  BY DEF initDict, addWords, addFiles
<1> HIDE DEF S
<1>6. QED
  BY <1>4, <1>5, SortUniq DEF S

-----------------------------------------------------------------------------
(***************************************************************************)
(* One step of a dictionary acceptor.                                      *)
(***************************************************************************)
(* Words that begin alike are in the order of their next character, and    *)
(* dictSeek hits those that go on with ch.                                 *)
LEMMA OrderedWords ==
    ASSUME DictOK, NEW q \in Seq(Nat), NEW ch \in Nat, NEW l \in Nat, NEW r \in Int,
           \A m \in l..r : m + 1 \in DOMAIN dict /\ IsPrefix(q, dict[m + 1])
    PROVE  /\ Ordered(l, r, ch, Len(q))
           /\ \A m \in l..r : Hit(m, ch, Len(q)) <=> IsPrefix(Append(q, ch), dict[m + 1])
<1> DEFINE off == Len(q)
<1>1. off \in Nat
  OBVIOUS
<1>2. \A m \in l..r : /\ dict[m + 1] \in Seq(Nat) /\ Len(dict[m + 1]) >= off
                      /\ Len(dict[m + 1]) \in Nat
                      /\ \A k \in 1..off : dict[m + 1][k] = q[k]
  <2>1. SUFFICES ASSUME NEW m \in l..r
                 PROVE  /\ dict[m + 1] \in Seq(Nat) /\ Len(dict[m + 1]) >= off
                        /\ Len(dict[m + 1]) \in Nat
                        /\ \A k \in 1..off : dict[m + 1][k] = q[k]
    OBVIOUS
  <2>2. dict[m + 1] \in Seq(Nat) /\ IsPrefix(q, dict[m + 1])
    BY DEF DictOK
  <2>3. PICK w \in Seq(Nat) : w = dict[m + 1]
    BY <2>2
  <2>4. Len(q) <= Len(w) /\ \A k \in 1..Len(q) : q[k] = w[k]
    BY <2>2, <2>3, PrefixPoints
  <2>5. Len(w) \in Nat
    OBVIOUS
  <2>6. QED
    BY <1>1, <2>3, <2>4, <2>5
<1>3. ASSUME NEW i \in l..r, NEW j \in l..r, i < j
      PROVE  /\ Short(j, ch, off) => Short(i, ch, off)
             /\ Past(i, ch, off) => Past(j, ch, off)
  <2>1. Before(dict[i + 1], dict[j + 1])
    BY <1>3 DEF DictOK, Sorted
  <2>2. PICK v \in Seq(Nat), w \in Seq(Nat) : v = dict[i + 1] /\ w = dict[j + 1]
    BY <1>2
  <2>3. PICK m, n : m = Len(v) /\ n = Len(w)
    OBVIOUS
  <2>4. IsWord(m, v) /\ IsWord(n, w) /\ Precedes(m, v, n, w)
    BY <2>1, <2>2, <2>3, IsWordSeq, BeforePoints
  <2>5. off <= m /\ off <= n /\ Alike(v, w, off)
    BY <1>2, <2>2, <2>3 DEF Alike
  <2>6. m = off \/ (off < m /\ off < n /\ v[off + 1] <= w[off + 1])
    BY <1>1, <2>4, <2>5, NextOrders
  <2>7. m \in Nat /\ n \in Nat /\ (off < m => v[off + 1] \in Nat) /\ (off < n => w[off + 1] \in Nat)
    BY <1>1, <2>4 DEF IsWord
  <2>8. /\ Short(i, ch, off) <=> (m <= off \/ v[off + 1] < ch)
        /\ Short(j, ch, off) <=> (n <= off \/ w[off + 1] < ch)
        /\ Past(i, ch, off) <=> (~Short(i, ch, off) /\ v[off + 1] > ch)
        /\ Past(j, ch, off) <=> (~Short(j, ch, off) /\ w[off + 1] > ch)
    BY <2>2, <2>3 DEF Short, Past
  <2> HIDE DEF off
  <2>9. CASE m = off
    BY <1>1, <2>8, <2>9
  <2>10. CASE off < m /\ off < n /\ v[off + 1] <= w[off + 1]
    <3>1. PICK a \in Nat, b \in Nat : a = v[off + 1] /\ b = w[off + 1]
      BY <2>7, <2>10
    <3>2. ~(m <= off) /\ ~(n <= off) /\ a <= b
      BY <1>1, <2>7, <2>10, <3>1
    <3>3. /\ Short(i, ch, off) <=> a < ch
          /\ Short(j, ch, off) <=> b < ch
          /\ Past(i, ch, off) <=> (~Short(i, ch, off) /\ a > ch)
          /\ Past(j, ch, off) <=> (~Short(j, ch, off) /\ b > ch)
      BY <2>8, <3>1, <3>2
    <3>4. QED
      BY <3>2, <3>3
  <2>11. QED
    BY <2>6, <2>9, <2>10
<1>4. ASSUME NEW m \in l..r
      PROVE  Hit(m, ch, off) <=> IsPrefix(Append(q, ch), dict[m + 1])
  <2> DEFINE w == dict[m + 1]
             p == Append(q, ch)
  <2>1. w \in Seq(Nat) /\ Len(w) >= off /\ Len(w) \in Nat /\ \A k \in 1..off : w[k] = q[k]
    BY <1>2
  <2>2. /\ p \in Seq(Nat) /\ Len(p) = off + 1 /\ p[off + 1] = ch
        /\ \A k \in 1..off : p[k] = q[k]
    OBVIOUS
  <2>3. Hit(m, ch, off) <=> off + 1 <= Len(w) /\ w[off + 1] = ch
    <3>1. off + 1 <= Len(w) => w[off + 1] \in Nat
      BY <1>1, <2>1
    <3>2. Hit(m, ch, off) <=> ~(Len(w) <= off \/ w[off + 1] < ch) /\ w[off + 1] = ch
      BY DEF Hit, Short
    <3> HIDE DEF w, off
    <3>3. QED
      BY <1>1, <2>1, <3>1, <3>2
  <2> HIDE DEF w, p, off
  <2>4. IsPrefix(p, w) <=> Len(p) <= Len(w) /\ \A k \in 1..Len(p) : p[k] = w[k]
    BY <2>1, <2>2, PrefixPoints
  <2>5. (\A k \in 1..Len(p) : p[k] = w[k]) <=> w[off + 1] = ch
    <3>1. \A k \in 1..off + 1 : k \in 1..off \/ k = off + 1
      BY <1>1
    <3>2. off + 1 \in 1..off + 1 /\ \A k \in 1..off : k \in 1..off + 1
      BY <1>1
    <3>3. \A k \in 1..off : p[k] = w[k]
      BY <2>1, <2>2
    <3>4. Len(p) = off + 1 /\ p[off + 1] = ch
      BY <2>2
    <3>5. QED
      BY <3>1, <3>2, <3>3, <3>4, Zenon
  <2>6. QED
    BY <2>2, <2>3, <2>4, <2>5 DEF w, p
<1>5. QED
  BY <1>3, <1>4 DEF Ordered

DictAcceptors == [type : {"DICT"}, strOffset : Nat, isFinal : BOOLEAN, patterns : {{}},
                  l : Nat, r : Int]

(* The words that begin with q, and an acceptor that keeps just them.      *)
Begin(q) == {m \in DOMAIN dict : IsPrefix(q, dict[m])}
Keeps(a, q) == /\ a \in DictAcceptors /\ a.strOffset = Len(q)
               /\ a.r < Len(dict) /\ Begin(q) = a.l + 1..a.r + 1

(* The hits are an interval: dictSeek finds its ends.                      *)
LEMMA HitsInterval ==
    ASSUME DictOK, NEW l \in Nat, NEW r \in Int, r < Len(dict), NEW ch \in Nat, NEW off \in Nat,
           Ordered(l, r, ch, off), NEW x \in Hits(l, r, ch, off), NEW y \in Hits(l, r, ch, off)
    PROVE  x..y \subseteq Hits(l, r, ch, off)
<1>1. x \in l..r /\ y \in l..r /\ Hit(x, ch, off) /\ Hit(y, ch, off)
  BY DEF Hits
<1>2. ASSUME NEW m \in x..y, m # x, m # y PROVE m \in Hits(l, r, ch, off)
  <2>1. m \in l..r /\ x < m /\ m < y
    BY <1>1, <1>2
  <2>2. ~Short(x, ch, off) /\ ~Past(y, ch, off)
    BY <1>1 DEF Hit, Past
  <2>3. ~Short(m, ch, off) /\ ~Past(m, ch, off)
    BY <1>1, <2>1, <2>2 DEF Ordered
  <2>4. dict[m + 1] \in Seq(Nat)
    <3>1. m + 1 \in 1..Len(dict)
      BY <2>1 DEF DictOK
    <3>2. QED
      BY <3>1 DEF DictOK
  <2>5. off + 1 \in 1..Len(dict[m + 1])
    BY <2>3, <2>4 DEF Short
  <2>6. dict[m + 1][off + 1] \in Nat
    <3>1. PICK w \in Seq(Nat) : w = dict[m + 1]
      BY <2>4
    <3>2. PICK k \in 1..Len(w) : k = off + 1
      BY <2>5, <3>1
    <3>3. w[k] \in Nat
      OBVIOUS
    <3>4. QED
      BY <3>1, <3>2, <3>3
  <2>7. Hit(m, ch, off)
    BY <2>3, <2>6 DEF Hit, Past, Short
  <2>8. QED
    BY <2>1, <2>7 DEF Hits
<1>3. QED
  BY <1>1, <1>2

(* The acceptor after one more character: Moved is what transitDict makes. *)
Moved(a, l, r, final) == Accepts([a EXCEPT !.l = l, !.r = r], TRUE, final)
IsMoved(S, off, l, r, final) ==
    \E b \in DictAcceptors : S = {b} /\ b.strOffset = off /\ b.l = l /\ b.r = r /\ b.isFinal = final

LEMMA DictUpdate ==
    ASSUME NEW a \in DictAcceptors, NEW x \in Nat, NEW y \in Int, NEW final \in BOOLEAN
    PROVE  IsMoved(Moved(a, x, y, final), a.strOffset + 1, x, y, final)
<1> DEFINE b == [a EXCEPT !.l = x, !.r = y]
           c == [b EXCEPT !.strOffset = b.strOffset + 1]
           d == [c EXCEPT !.isFinal = final]
<1>1. b \in DictAcceptors /\ b.strOffset = a.strOffset /\ b.l = x /\ b.r = y
  BY DEF DictAcceptors
<1> HIDE DEF b
<1>2. b.strOffset + 1 \in Nat
  BY <1>1 DEF DictAcceptors
<1>3. c \in DictAcceptors /\ c.strOffset = b.strOffset + 1 /\ c.l = x /\ c.r = y
  <2> HIDE DEF c
  <2>1. c \in DictAcceptors
    BY <1>1, <1>2 DEF DictAcceptors, c
  <2>2. QED
    BY <1>1, <2>1 DEF DictAcceptors, c
<1>4. [b EXCEPT !.strOffset = @ + 1, !.isFinal = final] = d
  BY <1>1
<1> HIDE DEF c
<1>5. d \in DictAcceptors
  BY <1>3 DEF DictAcceptors
<1>6. d.strOffset = c.strOffset /\ d.l = c.l /\ d.r = c.r /\ d.isFinal = final
  BY <1>3 DEF DictAcceptors
<1>7. Accepts(b, TRUE, final) = {d}
  BY <1>4 DEF Accepts
<1> HIDE DEF d
<1>8. Moved(a, x, y, final) = {d}
  BY <1>7 DEF Moved, b
<1>9. QED
  BY <1>1, <1>3, <1>5, <1>6, <1>8 DEF IsMoved

(* Fewer words begin with q and ch than with q.                            *)
LEMMA BeginShrinks ==
    ASSUME DictOK, NEW q \in Seq(Nat), NEW ch \in Nat
    PROVE  Begin(Append(q, ch)) \subseteq Begin(q)
<1> DEFINE p   == Append(q, ch)
           off == Len(q)
<1>1. p \in Seq(Nat) /\ off \in Nat /\ Len(p) = off + 1 /\ \A k \in 1..off : p[k] = q[k]
  OBVIOUS
<1> HIDE DEF p, off
<1>2. ASSUME NEW m \in DOMAIN dict, IsPrefix(p, dict[m]) PROVE IsPrefix(q, dict[m])
  <2>1. dict[m] \in Seq(Nat) /\ Len(dict[m]) \in Nat
    BY DEF DictOK
  <2>2. Len(p) <= Len(dict[m]) /\ \A k \in 1..Len(p) : p[k] = dict[m][k]
    BY <1>1, <1>2, <2>1, PrefixPoints
  <2>3. Len(q) = off /\ \A k \in 1..off : p[k] = q[k] /\ k \in 1..Len(p)
    BY <1>1 DEF off
  <2>4. \A k \in 1..Len(q) : q[k] = dict[m][k]
    BY <2>2, <2>3
  <2>5. Len(q) <= Len(dict[m])
    BY <1>1, <2>1, <2>2, <2>3
  <2>6. QED
    BY <2>1, <2>4, <2>5, PrefixPoints
<1>3. QED
  BY <1>2 DEF Begin, p

(* An acceptor that keeps the words that begin with q keeps, after ch,     *)
(* those that begin with q and ch; it is in error if there are none.       *)
LEMMA DictStep ==
    ASSUME DictOK, NEW q \in Seq(Nat), NEW a, Keeps(a, q), NEW ch \in Nat
    PROVE  LET p == Append(q, ch)
           IN  IF Begin(p) = {} THEN transitDict(a, ch) = {}
               ELSE \E b : /\ transitDict(a, ch) = {b} /\ Keeps(b, p)
                           /\ b.isFinal <=> p \in Range(dict)
<1> DEFINE p    == Append(q, ch)
           off  == Len(q)
           hits == Hits(a.l, a.r, ch, off)
           x    == dictSeek(a.l, a.r, ch, a.strOffset, "LEFT")
           y    == dictSeek(x, a.r, ch, a.strOffset, "RIGHT")
<1>1. /\ a.l \in Nat /\ a.r \in Int /\ a.strOffset = off /\ off \in Nat /\ a.r < Len(dict)
      /\ a \in DictAcceptors
  BY DEF Keeps, DictAcceptors
<1>2. \A m \in a.l..a.r : m + 1 \in DOMAIN dict /\ IsPrefix(q, dict[m + 1])
  <2>1. \A m \in a.l..a.r : m + 1 \in Begin(q)
    BY <1>1 DEF Keeps
  <2>2. QED
    BY <2>1 DEF Begin
<1>3. /\ Ordered(a.l, a.r, ch, off)
      /\ \A m \in a.l..a.r : Hit(m, ch, off) <=> IsPrefix(p, dict[m + 1])
  BY <1>1, <1>2, OrderedWords
<1>4. p \in Seq(Nat) /\ Len(p) = off + 1 /\ \A k \in 1..off : p[k] = q[k]
  OBVIOUS
<1>5. Begin(p) \subseteq Begin(q)
  BY BeginShrinks
<1> HIDE DEF p
<1>6. \A m \in Int : m \in hits <=> m + 1 \in Begin(p)
  <2>1. ASSUME NEW m \in hits PROVE m + 1 \in Begin(p)
    BY <1>2, <1>3 DEF Hits, Begin
  <2>2. ASSUME NEW m \in Int, m + 1 \in Begin(p) PROVE m \in hits
    <3>1. m + 1 \in a.l + 1..a.r + 1
      BY <1>5, <2>2 DEF Keeps
    <3>2. m \in a.l..a.r
      BY <1>1, <3>1
    <3>3. QED
      BY <1>3, <2>2, <3>2 DEF Hits, Begin
  <2>3. QED
    BY <2>1, <2>2
<1>7. hits \subseteq Int /\ Begin(p) \subseteq Int
  BY <1>1 DEF Hits, Begin, DictOK
<1>8. dict \in Seq(Seq(Nat))
  BY DEF DictOK
<1>9. IF hits = {} THEN x = Null ELSE x \in hits /\ \A m \in hits : x <= m
  BY <1>1, <1>3, <1>8, SeekFinds
<1>10. CASE hits = {}
  <2>1. Begin(p) = {}
    <3>1. SUFFICES ASSUME NEW m \in Begin(p) PROVE FALSE
      OBVIOUS
    <3>2. m - 1 \in Int /\ m - 1 + 1 = m
      BY <1>7
    <3>3. QED
      BY <1>6, <1>10, <3>2
  <2>2. transitDict(a, ch) = {}
    BY <1>9, <1>10, Zenon DEF transitDict
  <2>3. QED
    BY <2>1, <2>2 DEF p
<1>11. CASE hits # {}
  <2>1. x \in hits /\ (\A m \in hits : x <= m) /\ x \in Nat /\ x <= a.r /\ a.l <= x
    BY <1>1, <1>9, <1>11 DEF Hits
  <2> HIDE DEF x
  <2>2. Ordered(x, a.r, ch, off)
    <3>1. \A m \in x..a.r : m \in a.l..a.r
      BY <1>1, <2>1
    <3>2. QED
      BY <1>3, <3>1 DEF Ordered
  <2>3. Hits(x, a.r, ch, off) = hits
    BY <1>1, <2>1 DEF Hits
  <2>4. y \in hits /\ \A m \in hits : m <= y
    <3>1. IF Hits(x, a.r, ch, off) = {} THEN y = Null
          ELSE y \in Hits(x, a.r, ch, off) /\ \A m \in Hits(x, a.r, ch, off) : m <= y
      BY <1>1, <1>8, <2>1, <2>2, SeekFinds
    <3> HIDE DEF y
    <3>2. QED
      BY <1>11, <2>3, <3>1
  <2>5. y \in Int /\ y <= a.r /\ x <= y
    <3> HIDE DEF y
    <3>1. QED
      BY <1>1, <2>1, <2>4 DEF Hits
  <2> DEFINE final == Len(dict[x + 1]) = a.strOffset + 1
  <2>6. PICK b \in DictAcceptors : /\ transitDict(a, ch) = {b}
                                   /\ b.strOffset = off + 1 /\ b.l = x /\ b.r = y
                                   /\ b.isFinal = final
    <3>1. x # Null
      BY <2>1 DEF Null
    <3>2. transitDict(a, ch) = Moved(a, x, y, final)
      BY <3>1, Zenon DEF transitDict, Moved, x
    <3> HIDE DEF y, final
    <3>3. final \in BOOLEAN /\ x \in Nat /\ y \in Int
      BY <2>1, <2>5 DEF final
    <3>4. IsMoved(Moved(a, x, y, final), a.strOffset + 1, x, y, final)
      BY <1>1, <3>3, DictUpdate
    <3>5. QED
      BY <1>1, <3>2, <3>4 DEF IsMoved
  <2> HIDE DEF y
  <2>7. Begin(p) = x + 1..y + 1
    <3>1. x..y \subseteq hits
      BY <1>1, <1>3, <2>1, <2>4, HitsInterval
    <3>2. ASSUME NEW m \in Begin(p) PROVE m \in x + 1..y + 1
      <4>1. m \in Int /\ m - 1 \in Int /\ m - 1 + 1 = m
        BY <1>7
      <4>2. m - 1 \in hits
        BY <1>6, <4>1
      <4>3. QED
        BY <2>1, <2>4, <2>5, <4>1, <4>2
    <3>3. ASSUME NEW m \in x + 1..y + 1 PROVE m \in Begin(p)
      <4>1. m \in Int /\ m - 1 \in x..y /\ m - 1 + 1 = m
        BY <2>1, <2>5
      <4>2. QED
        BY <1>6, <3>1, <4>1
    <3>4. QED
      BY <3>2, <3>3
  <2>8. Keeps(b, p)
    BY <1>1, <1>4, <2>1, <2>5, <2>6, <2>7 DEF Keeps
  <2>9. final <=> p \in Range(dict)
    <3>1. x + 1 \in Begin(p)
      BY <1>6, <2>1
    <3>2. x + 1 \in DOMAIN dict /\ dict[x + 1] \in Seq(Nat) /\ IsPrefix(p, dict[x + 1])
      BY <1>8, <3>1 DEF Begin
    <3>3. Len(p) <= Len(dict[x + 1]) /\ \A k \in 1..Len(p) : p[k] = dict[x + 1][k]
      BY <1>4, <3>2, PrefixPoints
    <3>4. ASSUME final PROVE p \in Range(dict)
      <4>1. p = dict[x + 1]
        BY <1>1, <1>4, <3>2, <3>3, <3>4
      <4>2. QED
        BY <3>2, <4>1 DEF Range
    <3>5. ASSUME p \in Range(dict) PROVE final
      <4>1. PICK m \in DOMAIN dict : dict[m] = p
        BY <3>5 DEF Range
      <4>2. IsPrefix(p, p)
        BY <1>4, PrefixPoints
      <4>3. m \in Begin(p)
        BY <4>1, <4>2 DEF Begin
      <4>4. x + 1 <= m /\ m \in Int
        BY <2>1, <2>5, <2>7, <4>3
      <4>5. CASE m = x + 1
        BY <1>1, <1>4, <4>1, <4>5
      <4>6. CASE x + 1 < m
        <5>1. Before(dict[x + 1], p)
          BY <3>2, <4>1, <4>6 DEF DictOK, Sorted
        <5>2. ~(Len(dict[x + 1]) < Len(p))
          BY <1>1, <1>4, <3>2, <3>3
        <5>3. PICK k \in 1..Len(dict[x + 1]) : k <= Len(p) /\ dict[x + 1][k] < p[k]
          BY <1>4, <3>2, <5>1, <5>2, BeforePoints DEF Precedes
        <5>4. k \in 1..Len(p) /\ p[k] \in Nat /\ dict[x + 1][k] = p[k]
          BY <1>1, <1>4, <3>2, <3>3, <5>3
        <5>5. QED
          BY <5>3, <5>4
      <4>7. QED
        BY <1>1, <2>1, <4>4, <4>5, <4>6
    <3>6. QED
      BY <3>4, <3>5
  <2>10. b.isFinal <=> p \in Range(dict)
    BY <2>6, <2>9
  <2>11. Begin(p) # {}
    BY <1>6, <2>1
  <2>12. QED
    BY <2>6, <2>8, <2>10, <2>11 DEF p
<1>12. QED
  BY <1>10, <1>11

-----------------------------------------------------------------------------
(***************************************************************************)
(* DictExact                                                               *)
(***************************************************************************)
(* Of the acceptors of S, which have read q: the one that keeps the words  *)
(* that begin with q, if there are any.                                    *)
Exact(S, q) == IF Begin(q) = {} THEN S = {}
               ELSE \E a \in S : S = {a} /\ Keeps(a, q) /\ (a.isFinal <=> q \in Range(dict))

Live(k) == {a \in current : a.type = "DICT" /\ a.strOffset = k}
DictInv == DictOK /\ \A k \in 1..Len(text) : Exact(Live(k), Since(k))

LEMMA TextNat ==
    ASSUME IInv
    PROVE  text \in Seq(Nat) /\ Len(text) \in Nat
<1>1. text \in Seq(Chars) /\ Len(text) \in Nat /\ DOMAIN text = 1..Len(text)
  BY DEF IInv, TypeOK
<1>2. \A k \in 1..Len(text) : text[k] \in Nat
  <2>1. \A k \in 1..Len(text) : text[k] \in Chars
    BY <1>1
  <2>2. QED
    BY <2>1, CharsAssumption
<1>3. QED
  BY <1>1, <1>2

LEMMA SubSeqPoints ==
    ASSUME NEW T, NEW s \in Seq(T), NEW n \in 0..Len(s), NEW m \in 1..n + 1
    PROVE  /\ SubSeq(s, m, n) \in Seq(T) /\ Len(SubSeq(s, m, n)) = n - m + 1
           /\ \A j \in 1..n - m + 1 : SubSeq(s, m, n)[j] = s[m + j - 1]
OBVIOUS

LEMMA SinceRead ==
    ASSUME text \in Seq(Nat), NEW k \in 0..Len(text)
    PROVE  /\ Since(k) \in Seq(Nat) /\ Len(Since(k)) = k
           /\ \A j \in 1..k : Since(k)[j] = text[Len(text) - k + j]
<1>1. Len(text) \in Nat
  OBVIOUS
<1> DEFINE m == Len(text) - k + 1
           n == Len(text)
<1>2. m \in 1..n + 1 /\ n - m + 1 = k /\ n \in Nat
  BY <1>1
<1>3. SubSeq(text, m, n) \in Seq(Nat) /\ Len(SubSeq(text, m, n)) = n - m + 1
  BY <1>2
<1>4. \A j \in 1..n - m + 1 : SubSeq(text, m, n)[j] = text[m + j - 1]
  BY <1>2
<1>5. \A j \in 1..k : m + j - 1 = n - k + j
  BY <1>2
<1> HIDE DEF m
<1>6. QED
  BY <1>2, <1>3, <1>4, <1>5 DEF Since, m

(* After one more character, the last k + 1 are the last k and that one.   *)
LEMMA SinceNext ==
    ASSUME text \in Seq(Nat), NEW ch \in Nat, text' = Append(text, ch), NEW k \in 0..Len(text)
    PROVE  Since(k + 1)' = Append(Since(k), ch)
<1> DEFINE n == Len(text)
           m == n - k + 1
           t == Append(text, ch)
<1>1. n \in Nat /\ m \in 1..n + 1 /\ t \in Seq(Nat) /\ Len(t) = n + 1 /\ t[n + 1] = ch
      /\ \A j \in 1..n : t[j] = text[j]
  OBVIOUS
<1>a. PICK o \in Nat : o = n + 1
  BY <1>1
<1>2. Since(k + 1)' = SubSeq(t, m, o)
  <2>1. Since(k + 1)' = SubSeq(t, Len(t) - (k + 1) + 1, Len(t))
    BY DEF Since
  <2>2. Len(t) - (k + 1) + 1 = m /\ Len(t) = o
    BY <1>1, <1>a
  <2> HIDE DEF t, m
  <2>3. QED
    BY <2>1, <2>2
<1> HIDE DEF t, n
<1>3. /\ SubSeq(t, m, o) \in Seq(Nat) /\ Len(SubSeq(t, m, o)) = k + 1
      /\ \A j \in 1..k + 1 : SubSeq(t, m, o)[j] = t[n - k + j]
  <2>1. /\ SubSeq(t, m, o) \in Seq(Nat)
        /\ Len(SubSeq(t, m, o)) = o - m + 1
        /\ \A j \in 1..o - m + 1 : SubSeq(t, m, o)[j] = t[m + j - 1]
    <3>1. m \in 1..o + 1 /\ o \in 0..Len(t) /\ t \in Seq(Nat)
      BY <1>1, <1>a
    <3> HIDE DEF m
    <3>2. QED
      BY <3>1, SubSeqPoints
  <2>2. o - m + 1 = k + 1 /\ \A j \in 1..k + 1 : m + j - 1 = n - k + j
    BY <1>1, <1>a
  <2> HIDE DEF m
  <2>3. QED
    BY <2>1, <2>2
<1>4. /\ Since(k) \in Seq(Nat) /\ Len(Since(k)) = k
      /\ \A j \in 1..k : Since(k)[j] = text[n - k + j]
  BY SinceRead DEF n
<1>5. /\ Append(Since(k), ch) \in Seq(Nat) /\ Len(Append(Since(k), ch)) = k + 1
      /\ Append(Since(k), ch)[k + 1] = ch
      /\ \A j \in 1..k : Append(Since(k), ch)[j] = Since(k)[j]
  BY <1>4
<1>6. k \in 0..n
  BY DEF n
<1>7. \A j \in 1..k : n - k + j \in 1..n
  BY <1>1, <1>6
<1>8. \A j \in 1..k + 1 : SubSeq(t, m, o)[j] = Append(Since(k), ch)[j]
  <2>1. SUFFICES ASSUME NEW j \in 1..k + 1
                 PROVE  t[n - k + j] = Append(Since(k), ch)[j]
    BY <1>3
  <2>2. CASE j = k + 1
    <3>1. n - k + j = n + 1
      BY <1>1, <1>6, <2>2
    <3>2. QED
      BY <1>1, <1>5, <2>2, <3>1
  <2>3. CASE j # k + 1
    <3>1. j \in 1..k
      BY <1>6, <2>3
    <3>2. QED
      BY <1>1, <1>4, <1>5, <1>7, <3>1
  <2>4. QED
    BY <2>2, <2>3
<1>9. SubSeq(t, m, o) = Append(Since(k), ch)
  <2> DEFINE u == SubSeq(t, m, o)
             v == Append(Since(k), ch)
  <2>1. u \in Seq(Nat) /\ v \in Seq(Nat) /\ Len(u) = k + 1 /\ Len(v) = k + 1
        /\ \A j \in 1..k + 1 : u[j] = v[j]
    BY <1>3, <1>5, <1>8
  <2> HIDE DEF u, v
  <2>2. u = v
    BY <2>1
  <2>3. QED
    BY <2>2 DEF u, v
<1>10. QED
  BY <1>2, <1>9

(* The acceptors after a character, by what they have read.                *)
LEMMA DictRead ==
    ASSUME IInv, DictInv, text \in Seq(Nat), NEW ch \in Nat, NEW k \in 0..Len(text)
    PROVE  Exact({b \in alive(ch) : b.type = "DICT" /\ b.strOffset = k + 1}, Append(Since(k), ch))
<1> DEFINE q    == Since(k)
           p    == Append(q, ch)
           pool == {a \in current \cup created : a.type = "DICT" /\ a.strOffset = k}
           next == {b \in alive(ch) : b.type = "DICT" /\ b.strOffset = k + 1}
<1>1. q \in Seq(Nat) /\ Len(q) = k
  BY SinceRead
<1>2. Len(text) \in Nat /\ k \in Nat
  BY AllRead
<1>3. next = UNION {transitDict(a, ch) : a \in pool}
  <2>1. \A a \in current \cup created : a.type = "DICT" => transit(a, ch) = transitDict(a, ch)
    BY DEF transit
  <2>2. ASSUME NEW a \in current \cup created, NEW b \in transit(a, ch)
        PROVE  b.type = a.type /\ b.strOffset = a.strOffset + 1 /\ a.strOffset \in Nat
    BY AllRead, TransitReads DEF Reader
  <2>3. ASSUME NEW b \in next PROVE \E a \in pool : b \in transitDict(a, ch)
    <3>1. PICK a \in current \cup created : b \in transit(a, ch)
      BY DEF alive
    <3>2. a.type = "DICT" /\ a.strOffset = k
      BY <1>2, <2>2, <2>3, <3>1
    <3>3. QED
      BY <2>1, <3>1, <3>2
  <2>4. ASSUME NEW a \in pool, NEW b \in transitDict(a, ch) PROVE b \in next
    <3>1. b \in transit(a, ch)
      BY <2>1, <2>4
    <3>2. QED
      BY <2>2, <3>1 DEF alive
  <2>5. QED
    BY <2>3, <2>4
<1>4. (pool = {} /\ Begin(q) = {}) \/ \E a : pool = {a} /\ Keeps(a, q)
  <2>1. CASE k = 0
    <3> DEFINE a == Acceptor("DICT")
    <3>1. a = [type |-> "DICT", strOffset |-> 0, isFinal |-> FALSE, patterns |-> {},
               l |-> 0, r |-> Len(dict) - 1]
      BY DEF Acceptor
    <3>2. "DICT" \in Types \ OneAtATime
      BY DEF Types, Creators, Range, OneAtATime
    <3>3. a \in created
      BY <3>2 DEF created
    <3>4. \A c \in created : c.type = "DICT" => c = a
      BY DEF created, Acceptor
    <3>5. \A c \in current : c.strOffset # 0
      BY <1>2 DEF IInv, IsAcceptor
    <3>6. a.type = "DICT" /\ a.strOffset = 0
      BY <3>1
    <3> HIDE DEF a
    <3>7. pool = {a}
      BY <2>1, <3>3, <3>4, <3>5, <3>6
    <3>8. dict \in Seq(Seq(Nat)) /\ Len(dict) \in Nat /\ DOMAIN dict = 1..Len(dict)
      BY DEF DictInv, DictOK
    <3>9. Begin(q) = DOMAIN dict
      <4>1. \A m \in DOMAIN dict : dict[m] \in Seq(Nat) /\ Len(dict[m]) \in Nat
        BY <3>8
      <4>2. \A m \in DOMAIN dict : IsPrefix(q, dict[m])
        BY <1>1, <2>1, <4>1, PrefixPoints
      <4>3. QED
        BY <4>2 DEF Begin
    <3>10. a \in DictAcceptors /\ a.l = 0 /\ a.r = Len(dict) - 1
      BY <3>1, <3>8 DEF DictAcceptors
    <3>11. a.l + 1..a.r + 1 = 1..Len(dict)
      BY <3>8, <3>10
    <3>12. Keeps(a, q)
      BY <1>1, <2>1, <3>6, <3>8, <3>9, <3>10, <3>11 DEF Keeps
    <3>13. QED
      BY <3>7, <3>12
  <2>2. CASE k # 0
    <3>1. \A c \in created : c.strOffset = 0
      BY DEF created, Acceptor
    <3>2. pool = Live(k)
      BY <2>2, <3>1 DEF Live
    <3>3. k \in 1..Len(text)
      BY <1>2, <2>2
    <3>4. Exact(Live(k), q)
      BY <3>3 DEF DictInv
    <3> HIDE DEF pool, q
    <3>5. QED
      BY <3>2, <3>4 DEF Exact
  <2>3. QED
    BY <2>1, <2>2
<1>5. DictOK
  BY DEF DictInv
<1>6. Begin(p) \subseteq Begin(q)
  BY <1>1, <1>5, BeginShrinks
<1> HIDE DEF q, pool, next
<1>7. CASE pool = {} /\ Begin(q) = {}
  <2>1. next = {} /\ Begin(p) = {}
    BY <1>3, <1>6, <1>7
  <2>2. Exact(next, p)
    BY <2>1 DEF Exact
  <2>3. QED
    BY <2>2 DEF next, q
<1>8. ASSUME NEW a, pool = {a}, Keeps(a, q) PROVE Exact(next, p)
  <2>1. next = transitDict(a, ch)
    BY <1>3, <1>8
  <2>2. IF Begin(p) = {} THEN transitDict(a, ch) = {}
        ELSE \E b : /\ transitDict(a, ch) = {b} /\ Keeps(b, p)
                    /\ b.isFinal <=> p \in Range(dict)
    BY <1>1, <1>5, <1>8, DictStep
  <2> HIDE DEF p
  <2>3. QED
    BY <2>1, <2>2 DEF Exact
<1>9. QED
  BY <1>4, <1>7, <1>8 DEF next, q

LEMMA DictInit ==
    ASSUME Init
    PROVE  DictInv
<1>1. dict \in Seq(Seq(Nat)) /\ Sorted(dict)
  BY InitDict DEF Init
<1>2. Len(text) = 0
  BY DEF Init
<1>3. QED
  BY <1>1, <1>2 DEF DictInv, DictOK

LEMMA DictNext ==
    ASSUME IInv, DictInv, [Next]_vars
    PROVE  DictInv'
<1>1. DictOK'
  <2>1. dict' = dict
    BY DEF Next, ReadChar, TextEnds, CutBack, NextText, vars
  <2>2. QED
    BY <2>1 DEF DictInv, DictOK, Sorted
<1>2. ASSUME NEW ch \in Chars, ReadChar(ch)
      PROVE  DictInv'
  <2>1. text \in Seq(Nat) /\ ch \in Nat /\ Len(text) \in Nat
    BY CharsAssumption, TextNat
  <2>2. /\ text' = Append(text, ch) /\ current' = alive(ch) /\ dict' = dict
        /\ Len(text') = Len(text) + 1
    BY <1>2, <2>1 DEF ReadChar
  <2>3. ASSUME NEW j \in 1..Len(text) + 1
        PROVE  Exact(Live(j), Since(j))'
    <3>1. PICK k \in 0..Len(text) : j = k + 1
      <4>1. j - 1 \in 0..Len(text) /\ j = (j - 1) + 1
        BY <2>1
      <4>2. QED
        BY <4>1
    <3>2. Since(j)' = Append(Since(k), ch)
      BY <2>1, <2>2, <3>1, SinceNext
    <3>3. Exact({b \in alive(ch) : b.type = "DICT" /\ b.strOffset = k + 1}, Append(Since(k), ch))
      BY <2>1, DictRead
    <3>4. Live(j)' = {b \in alive(ch) : b.type = "DICT" /\ b.strOffset = k + 1}
      BY <2>2, <3>1 DEF Live
    <3>5. QED
      BY <2>2, <3>2, <3>3, <3>4 DEF Exact, Begin, Keeps
  <2>4. QED
    BY <1>1, <2>2, <2>3 DEF DictInv
<1>3. CASE NextText
  <2>1. Len(text') = 0
    BY <1>3 DEF NextText
  <2>2. QED
    BY <1>1, <2>1 DEF DictInv
<1>4. CASE TextEnds \/ CutBack \/ UNCHANGED vars
  <2>1. dict' = dict /\ text' = text /\ current' = current
    BY <1>4 DEF TextEnds, CutBack, vars
  <2>2. QED
    BY <1>1, <2>1 DEF DictInv, Exact, Live, Since, Begin, Keeps
<1>5. QED
  BY <1>2, <1>3, <1>4 DEF Next

(* The dictionary acceptors, while a text is read, know just the words     *)
(* that begin with what they have read: the binary searches of dictSeek    *)
(* neither lose a word nor keep one too many, for any sorted dictionary.   *)
THEOREM DictExactAlways == Spec => []DictExact
<1>1. DictInv => DictExact
  <2>1. SUFFICES ASSUME DictInv, NEW k \in 1..Len(text)
                 PROVE  LET begin == {m \in DOMAIN dict : IsPrefix(Since(k), dict[m])}
                            live  == {a \in current : a.type = "DICT" /\ a.strOffset = k}
                        IN  /\ begin = {} => live = {}
                            /\ begin # {} => \E a \in live :
                                   /\ live = {a} /\ begin = a.l + 1..a.r + 1
                                   /\ a.isFinal <=> Since(k) \in Range(dict)
    BY DEF DictExact
  <2>2. Exact(Live(k), Since(k))
    BY <2>1 DEF DictInv
  <2> HIDE DEF Since
  <2>3. QED
    BY <2>2 DEF Exact, Live, Begin, Keeps
<1>2. QED
  BY <1>1, InitInvariant, NextInvariant, DictInit, DictNext, PTL DEF Spec

-----------------------------------------------------------------------------
(***************************************************************************)
(* The acceptors of the rules.                                             *)
(***************************************************************************)
InClass(type, ch) == \/ type = "WORD_RULE" /\ Letter(ch)
                     \/ type = "SPACE_RULE" /\ Space(ch)
                     \/ type = "NUMBER_RULE" /\ Digit(ch)
RunIn(t, type, a, b) == /\ \A k \in a + 1..b : InClass(type, t[k])
                        /\ a > 0 => ~InClass(type, t[a])

(* A rule that is one at a time has read the whole run that the text ends  *)
(* with.                                                                   *)
RunInv(type) ==
    /\ \A a \in current :
         a.type = type => a.isFinal = TRUE /\ RunIn(text, type, Len(text) - a.strOffset, Len(text))
    /\ Len(text) > 0 /\ InClass(type, text[Len(text)]) => \E a \in current : a.type = type

(* A single symbol is read at once.                                        *)
SymbolInv ==
    /\ \A a \in current :
         a.type = "SINSYM" => /\ a.isFinal = TRUE /\ a.strOffset = 1
                              /\ Symbol(text[Len(text)])
    /\ Len(text) > 0 /\ Symbol(text[Len(text)]) =>
         \E a \in current : a.type = "SINSYM" /\ a.strOffset = 1

(* The last k characters are the first k of the Thai rule.                 *)
Matched(t, k) == \A j \in 1..k : isMatch(Rule0, j - 1, t[Len(t) - k + j])
ThaiInv ==
    /\ \A a \in current :
         a.type = "THAI_RULE" => /\ Matched(text, a.strOffset)
                                 /\ a.isFinal = (a.strOffset = Len(Rule0))
    /\ \A k \in 1..Len(text) :
         Matched(text, k) => \E a \in current : a.type = "THAI_RULE" /\ a.strOffset = k

RuleInv == (\A type \in OneAtATime : RunInv(type)) /\ SymbolInv /\ ThaiInv

LEMMA RunTransit ==
    ASSUME NEW n, NEW a, Reader(a, n), a.type \in OneAtATime, NEW ch
    PROVE  /\ \A b \in transit(a, ch) : InClass(a.type, ch) /\ b.isFinal = TRUE
           /\ InClass(a.type, ch) => \E b : b \in transit(a, ch)
<1>1. CASE a.type = "WORD_RULE"
  <2>1. transit(a, ch) = Accepts(a, Letter(ch), TRUE)
    BY <1>1 DEF transit
  <2>2. InClass(a.type, ch) <=> Letter(ch)
    BY <1>1 DEF InClass
  <2>3. QED
    BY <2>1, <2>2 DEF Accepts, Reader
<1>2. CASE a.type = "SPACE_RULE"
  <2>1. transit(a, ch) = Accepts(a, Space(ch), TRUE)
    BY <1>2 DEF transit
  <2>2. InClass(a.type, ch) <=> Space(ch)
    BY <1>2 DEF InClass
  <2>3. QED
    BY <2>1, <2>2 DEF Accepts, Reader
<1>3. CASE a.type = "NUMBER_RULE"
  <2>1. transit(a, ch) = Accepts(a, Digit(ch), TRUE)
    BY <1>3 DEF transit
  <2>2. InClass(a.type, ch) <=> Digit(ch)
    BY <1>3 DEF InClass
  <2>3. QED
    BY <2>1, <2>2 DEF Accepts, Reader
<1>4. QED
  BY <1>1, <1>2, <1>3 DEF OneAtATime

LEMMA SymbolTransit ==
    ASSUME NEW n, NEW a, Reader(a, n), a.type = "SINSYM", NEW ch
    PROVE  /\ \A b \in transit(a, ch) : a.strOffset = 0 /\ Symbol(ch) /\ b.isFinal = TRUE
           /\ a.strOffset = 0 /\ Symbol(ch) => \E b : b \in transit(a, ch)
<1>1. transit(a, ch) = Accepts(a, a.strOffset = 0 /\ Symbol(ch), TRUE)
  BY DEF transit
<1>2. QED
  BY <1>1 DEF Accepts, Reader

LEMMA ThaiTransit ==
    ASSUME NEW n, NEW a, Reader(a, n), a.type = "THAI_RULE", NEW ch
    PROVE  /\ \A b \in transit(a, ch) : /\ isMatch(Rule0, a.strOffset, ch)
                                        /\ b.isFinal = (a.strOffset + 1 = Len(Rule0))
           /\ isMatch(Rule0, a.strOffset, ch) => \E b : b \in transit(a, ch)
<1>1. transit(a, ch) = Accepts(a, isMatch(Rule0, a.strOffset, ch), a.strOffset + 1 = Len(Rule0))
  BY DEF transit
<1>2. QED
  BY <1>1 DEF Accepts, Reader

(* The text after one more character.                                      *)
Longer(ch) == /\ IInv /\ text \in Seq(Nat) /\ Len(text) \in Nat
              /\ text' = Append(text, ch) /\ current' = alive(ch)

LEMMA LongerText ==
    ASSUME NEW ch, Longer(ch)
    PROVE  /\ Len(text) \in Nat /\ Len(text') = Len(text) + 1 /\ text'[Len(text) + 1] = ch
           /\ \A k \in 1..Len(text) : text'[k] = text[k]
BY DEF Longer

LEMMA RunStep ==
    ASSUME NEW ch, Longer(ch), NEW type \in OneAtATime, RunInv(type)
    PROVE  RunInv(type)'
<1> DEFINE n == Len(text)
<1>1. /\ n \in Nat /\ Len(text') = n + 1 /\ text'[n + 1] = ch
      /\ \A k \in 1..n : text'[k] = text[k]
  BY LongerText
<1>2. IInv /\ current' = alive(ch)
  BY DEF Longer
<1>3. type \in Types
  BY DEF Types, Creators, Range, OneAtATime
<1>4. ASSUME NEW b \in alive(ch), b.type = type
      PROVE  b.isFinal = TRUE /\ RunIn(text', type, n + 1 - b.strOffset, n + 1)
  <2>1. PICK a \in current \cup created : b \in transit(a, ch)
    BY DEF alive
  <2>2. Reader(a, n) /\ a.type = type /\ b.strOffset = a.strOffset + 1
    BY <1>1, <1>2, <1>4, <2>1, AllRead, TransitReads
  <2>3. InClass(type, ch) /\ b.isFinal = TRUE
    BY <2>1, <2>2, RunTransit
  <2> DEFINE s == n - a.strOffset
  <2>4. s \in 0..n /\ n + 1 - b.strOffset = s
    BY <1>1, <2>2 DEF Reader
  <2>5. RunIn(text, type, s, n)
    <3>1. CASE a \in current
      BY <2>2, <3>1 DEF RunInv
    <3>2. CASE a \in created
      <4>1. a.strOffset = 0 /\ type \notin tag
        BY <2>2, <3>2 DEF created, Acceptor
      <4>2. s = n /\ ~(n > 0 /\ InClass(type, text[n]))
        BY <1>1, <4>1 DEF RunInv, tag
      <4>3. QED
        BY <1>1, <4>2 DEF RunIn
    <3>3. QED
      BY <3>1, <3>2
  <2> HIDE DEF s, n
  <2>6. ASSUME NEW k \in s + 1..n + 1 PROVE InClass(type, text'[k])
    <3>1. CASE k = n + 1
      BY <1>1, <2>3, <3>1
    <3>2. CASE k # n + 1
      <4>1. k \in s + 1..n /\ k \in 1..n
        BY <1>1, <2>4, <3>2
      <4>2. QED
        BY <1>1, <2>5, <4>1 DEF RunIn
    <3>3. QED
      BY <3>1, <3>2
  <2>7. s > 0 => ~InClass(type, text'[s])
    <3>1. s > 0 => s \in 1..n
      BY <1>1, <2>4
    <3>2. QED
      BY <1>1, <2>5, <3>1 DEF RunIn
  <2>8. RunIn(text', type, s, n + 1)
    BY <2>6, <2>7 DEF RunIn
  <2>9. QED
    BY <2>3, <2>4, <2>8
<1>5. ASSUME InClass(type, ch) PROVE \E b \in alive(ch) : b.type = type
  <2>1. \E a \in current \cup created : a.type = type
    <3>1. CASE type \in tag
      BY <3>1 DEF tag
    <3>2. CASE type \notin tag
      <4>1. Acceptor(type) \in created /\ Acceptor(type).type = type
        BY <1>3, <3>2 DEF created, Acceptor
      <4>2. QED
        BY <4>1
    <3>3. QED
      BY <3>1, <3>2
  <2>2. PICK a \in current \cup created : a.type = type
    BY <2>1
  <2>3. Reader(a, n)
    BY <1>2, AllRead
  <2>4. PICK b : b \in transit(a, ch)
    BY <1>5, <2>2, <2>3, RunTransit
  <2>5. b.type = type
    BY <1>1, <2>2, <2>3, <2>4, TransitReads
  <2>6. QED
    BY <2>4, <2>5 DEF alive
<1> HIDE DEF n
<1>6. \A b \in current' : b.type = type =>
        b.isFinal = TRUE /\ RunIn(text', type, Len(text') - b.strOffset, Len(text'))
  <2>1. SUFFICES ASSUME NEW b \in alive(ch), b.type = type
                 PROVE  /\ b.isFinal = TRUE
                        /\ RunIn(text', type, Len(text') - b.strOffset, Len(text'))
    BY <1>2, Zenon
  <2>2. b.isFinal = TRUE /\ RunIn(text', type, n + 1 - b.strOffset, n + 1)
    BY <1>4, <2>1
  <2>3. b.strOffset \in Nat
    BY <1>1, <1>2, AliveAcceptors DEF IsAcceptor, n
  <2>4. QED
    BY <1>1, <2>2, <2>3
<1>7. InClass(type, text'[Len(text')]) => \E b \in current' : b.type = type
  BY <1>1, <1>2, <1>5
<1>8. QED
  BY <1>6, <1>7 DEF RunInv

LEMMA SymbolStep ==
    ASSUME NEW ch, Longer(ch)
    PROVE  SymbolInv'
<1> DEFINE n == Len(text)
<1>1. n \in Nat /\ Len(text') = n + 1 /\ text'[n + 1] = ch
  BY LongerText
<1>2. IInv /\ current' = alive(ch)
  BY DEF Longer
<1>3. ASSUME NEW b \in alive(ch), b.type = "SINSYM"
      PROVE  b.isFinal = TRUE /\ b.strOffset = 1 /\ Symbol(ch)
  <2>1. PICK a \in current \cup created : b \in transit(a, ch)
    BY DEF alive
  <2>2. Reader(a, n) /\ a.type = "SINSYM" /\ b.strOffset = a.strOffset + 1
    BY <1>1, <1>2, <1>3, <2>1, AllRead, TransitReads
  <2>3. a.strOffset = 0 /\ Symbol(ch) /\ b.isFinal = TRUE
    BY <2>1, <2>2, SymbolTransit
  <2>4. QED
    BY <2>2, <2>3
<1>4. ASSUME Symbol(ch) PROVE \E b \in alive(ch) : b.type = "SINSYM" /\ b.strOffset = 1
  <2> DEFINE a == Acceptor("SINSYM")
  <2>1. "SINSYM" \in Types \ OneAtATime
    BY DEF Types, Creators, Range, OneAtATime
  <2>2. a \in created /\ a.type = "SINSYM" /\ a.strOffset = 0
    BY <2>1 DEF created, Acceptor
  <2> HIDE DEF a
  <2>3. Reader(a, n)
    BY <1>2, <2>2, AllRead
  <2>4. PICK b : b \in transit(a, ch)
    BY <1>4, <2>2, <2>3, SymbolTransit
  <2>5. b.type = "SINSYM" /\ b.strOffset = 1
    BY <1>1, <2>2, <2>3, <2>4, TransitReads
  <2>6. QED
    BY <2>2, <2>4, <2>5 DEF alive
<1> HIDE DEF n
<1>5. QED
  BY <1>1, <1>2, <1>3, <1>4 DEF SymbolInv

(* One more character matches the rule when it matches at its place.       *)
LEMMA MatchedNext ==
    ASSUME NEW ch, Longer(ch), NEW k \in 0..Len(text)
    PROVE  Matched(text', k + 1) <=> Matched(text, k) /\ isMatch(Rule0, k, ch)
<1> DEFINE n == Len(text)
<1>1. /\ n \in Nat /\ Len(text') = n + 1 /\ text'[n + 1] = ch
      /\ \A j \in 1..n : text'[j] = text[j]
  BY LongerText
<1>2. k \in 0..n
  OBVIOUS
<1> HIDE DEF n
<1>3. \A j \in 1..k + 1 : /\ Len(text') - (k + 1) + j = n - k + j
                          /\ j - 1 \in Int
  BY <1>1, <1>2
<1>4. \A j \in 1..k : n - k + j \in 1..n
  BY <1>1, <1>2
<1>5. \A j \in 1..k : text'[Len(text') - (k + 1) + j] = text[n - k + j]
  BY <1>1, <1>2, <1>3, <1>4
<1>6. text'[Len(text') - (k + 1) + (k + 1)] = ch /\ (k + 1) - 1 = k
  BY <1>1, <1>2
<1> DEFINE P(j) == isMatch(Rule0, j - 1, text'[Len(text') - (k + 1) + j])
           Q(j) == isMatch(Rule0, j - 1, text[n - k + j])
<1>7. Matched(text', k + 1) <=> \A j \in 1..k + 1 : P(j)
  BY DEF Matched
<1>8. Matched(text, k) <=> \A j \in 1..k : Q(j)
  BY DEF Matched, n
<1>9. P(k + 1) <=> isMatch(Rule0, k, ch)
  BY <1>6
<1>10. \A j \in 1..k : P(j) <=> Q(j)
  BY <1>5
<1>11. (\A j \in 1..k + 1 : P(j)) <=> (\A j \in 1..k : P(j)) /\ P(k + 1)
  <2> HIDE DEF P
  <2>1. \A j : j \in 1..k + 1 <=> j \in 1..k \/ j = k + 1
    BY <1>2
  <2>2. QED
    BY <2>1, Zenon
<1> HIDE DEF P, Q
<1>12. QED
  BY <1>7, <1>8, <1>9, <1>10, <1>11

LEMMA ThaiStep ==
    ASSUME NEW ch, Longer(ch), ThaiInv
    PROVE  ThaiInv'
<1> DEFINE n == Len(text)
<1>1. n \in Nat /\ Len(text') = n + 1
  BY LongerText
<1>2. IInv /\ current' = alive(ch)
  BY DEF Longer
<1>3. Matched(text, 0)
  BY DEF Matched
<1>4. "THAI_RULE" \in Types \ OneAtATime
  BY DEF Types, Creators, Range, OneAtATime
<1>5. ASSUME NEW b \in alive(ch), b.type = "THAI_RULE"
      PROVE  Matched(text', b.strOffset) /\ b.isFinal = (b.strOffset = Len(Rule0))
  <2>1. PICK a \in current \cup created : b \in transit(a, ch)
    BY DEF alive
  <2>2. Reader(a, n) /\ a.type = "THAI_RULE" /\ b.strOffset = a.strOffset + 1
    BY <1>1, <1>2, <1>5, <2>1, AllRead, TransitReads
  <2>3. isMatch(Rule0, a.strOffset, ch) /\ b.isFinal = (a.strOffset + 1 = Len(Rule0))
    BY <2>1, <2>2, ThaiTransit
  <2>4. Matched(text, a.strOffset)
    <3>1. CASE a \in current
      BY <2>2, <3>1 DEF ThaiInv
    <3>2. CASE a \in created
      BY <1>3, <3>2 DEF created, Acceptor
    <3>3. QED
      BY <3>1, <3>2
  <2>5. a.strOffset \in 0..n
    BY <2>2 DEF Reader
  <2>6. Matched(text', a.strOffset + 1)
    BY <2>3, <2>4, <2>5, MatchedNext
  <2>7. QED
    BY <2>2, <2>3, <2>6
<1>6. ASSUME NEW j \in 1..n + 1, Matched(text', j)
      PROVE  \E b \in alive(ch) : b.type = "THAI_RULE" /\ b.strOffset = j
  <2>1. PICK k \in 0..n : j = k + 1
    <3>1. j - 1 \in 0..n /\ j = (j - 1) + 1
      BY <1>1
    <3>2. QED
      BY <3>1
  <2>2. Matched(text, k) /\ isMatch(Rule0, k, ch)
    BY <1>6, <2>1, MatchedNext
  <2>3. \E a \in current \cup created : a.type = "THAI_RULE" /\ a.strOffset = k
    <3>1. CASE k = 0
      <4>1. Acceptor("THAI_RULE") \in created
        BY <1>4 DEF created
      <4>2. Acceptor("THAI_RULE").type = "THAI_RULE" /\ Acceptor("THAI_RULE").strOffset = 0
        BY DEF Acceptor
      <4>3. QED
        BY <3>1, <4>1, <4>2
    <3>2. CASE k # 0
      <4>1. k \in 1..Len(text)
        BY <1>1, <3>2
      <4>2. QED
        BY <2>2, <4>1 DEF ThaiInv
    <3>3. QED
      BY <3>1, <3>2
  <2>4. PICK a \in current \cup created : a.type = "THAI_RULE" /\ a.strOffset = k
    BY <2>3
  <2>5. Reader(a, n)
    BY <1>2, AllRead
  <2>6. PICK b : b \in transit(a, ch)
    BY <2>2, <2>4, <2>5, ThaiTransit
  <2>7. b.type = "THAI_RULE" /\ b.strOffset = j
    BY <1>1, <2>1, <2>4, <2>5, <2>6, TransitReads
  <2>8. QED
    BY <2>6, <2>7 DEF alive
<1> HIDE DEF n
<1>7. QED
  BY <1>1, <1>2, <1>5, <1>6 DEF ThaiInv

-----------------------------------------------------------------------------
(***************************************************************************)
(* What the acceptors know.                                                *)
(***************************************************************************)
(* An acceptor is final, and not a part, that has read k characters.       *)
Ends(type, k) == \E a \in current : a.type = type /\ a.strOffset = k /\ a.isFinal

LEMMA DictKnown ==
    ASSUME IInv, DictInv, NEW k \in 1..Len(text)
    PROVE  Ends("DICT", k) <=> SubSeq(text, Len(text) - k + 1, Len(text)) \in Range(dict)
<1> DEFINE q == Since(k)
<1>1. text \in Seq(Nat) /\ Len(text) \in Nat
  BY TextNat
<1>2. q \in Seq(Nat)
  BY <1>1, SinceRead
<1>3. Exact(Live(k), q)
  BY DEF DictInv
<1> HIDE DEF q
<1>4. ASSUME q \in Range(dict) PROVE Begin(q) # {}
  <2>1. PICK m \in DOMAIN dict : dict[m] = q
    BY <1>4 DEF Range
  <2>2. IsPrefix(q, q)
    BY <1>2, PrefixPoints
  <2>3. QED
    BY <2>1, <2>2 DEF Begin
<1>5. ASSUME q \in Range(dict) PROVE Ends("DICT", k)
  <2>1. PICK a \in Live(k) : a.isFinal <=> q \in Range(dict)
    BY <1>3, <1>4, <1>5 DEF Exact
  <2>2. QED
    BY <1>5, <2>1 DEF Live, Ends
<1>6. ASSUME Ends("DICT", k) PROVE q \in Range(dict)
  <2>1. PICK a \in Live(k) : a.isFinal
    BY <1>6 DEF Live, Ends
  <2>2. PICK b \in Live(k) : Live(k) = {b} /\ (b.isFinal <=> q \in Range(dict))
    BY <1>3, <2>1 DEF Exact
  <2>3. a = b
    BY <2>1, <2>2
  <2>4. QED
    BY <2>1, <2>2, <2>3
<1>7. QED
  BY <1>5, <1>6 DEF q, Since

LEMMA SymbolKnown ==
    ASSUME IInv, SymbolInv, NEW k \in 1..Len(text)
    PROVE  Ends("SINSYM", k) <=> k = 1 /\ Symbol(text[Len(text)])
<1>1. Len(text) \in Nat /\ Len(text) > 0
  BY TextNat
<1>2. ASSUME Ends("SINSYM", k) PROVE k = 1 /\ Symbol(text[Len(text)])
  BY <1>2 DEF Ends, SymbolInv
<1>3. ASSUME k = 1, Symbol(text[Len(text)]) PROVE Ends("SINSYM", k)
  <2>1. PICK a \in current : a.type = "SINSYM" /\ a.strOffset = 1
    BY <1>1, <1>3 DEF SymbolInv
  <2>2. a.isFinal = TRUE
    BY <2>1 DEF SymbolInv
  <2>3. QED
    BY <1>3, <2>1, <2>2 DEF Ends
<1>4. QED
  BY <1>2, <1>3

LEMMA RunKnown ==
    ASSUME IInv, NEW type \in OneAtATime, RunInv(type), NEW k \in 1..Len(text)
    PROVE  Ends(type, k) <=> RunIn(text, type, Len(text) - k, Len(text))
<1> DEFINE n == Len(text)
<1>1. n \in Nat /\ k \in 1..n
  BY TextNat
<1>2. ASSUME Ends(type, k) PROVE RunIn(text, type, n - k, n)
  BY <1>2 DEF Ends, RunInv
<1>3. ASSUME RunIn(text, type, n - k, n) PROVE Ends(type, k)
  <2>1. n \in n - k + 1..n
    BY <1>1
  <2>2. InClass(type, text[n])
    BY <1>3, <2>1 DEF RunIn
  <2>3. PICK a \in current : a.type = type
    BY <1>1, <2>2 DEF RunInv
  <2>4. a.isFinal = TRUE /\ RunIn(text, type, n - a.strOffset, n)
    BY <2>3 DEF RunInv
  <2>5. a.strOffset \in 1..n
    BY DEF IInv, IsAcceptor
  <2> DEFINE x == n - k
             y == n - a.strOffset
  <2>6. x \in 0..n - 1 /\ y \in 0..n - 1
    BY <1>1, <2>5
  <2>7. ~(x < y)
    <3>1. SUFFICES ASSUME x < y PROVE FALSE
      OBVIOUS
    <3>2. y \in x + 1..n /\ y > 0
      BY <1>1, <2>6, <3>1
    <3> HIDE DEF x, n
    <3>3. InClass(type, text[y])
      BY <1>3, <3>2 DEF RunIn, x
    <3>4. QED
      BY <2>4, <3>2, <3>3 DEF RunIn
  <2>8. ~(y < x)
    <3>1. SUFFICES ASSUME y < x PROVE FALSE
      OBVIOUS
    <3>2. x \in y + 1..n /\ x > 0
      BY <1>1, <2>6, <3>1
    <3> HIDE DEF y, n
    <3>3. InClass(type, text[x])
      BY <2>4, <3>2 DEF RunIn, y
    <3>4. QED
      BY <1>3, <3>2, <3>3 DEF RunIn
  <2>9. a.strOffset = k
    BY <1>1, <2>5, <2>6, <2>7, <2>8
  <2>10. QED
    BY <2>3, <2>4, <2>9 DEF Ends
<1>4. QED
  BY <1>2, <1>3

LEMMA ThaiKnown ==
    ASSUME IInv, ThaiInv, NEW k \in 1..Len(text)
    PROVE  Ends("THAI_RULE", k) <=>
             /\ k = Len(Rule0)
             /\ \A j \in 1..Len(Rule0) : isMatch(Rule0, j - 1, text[Len(text) - k + j])
<1>1. Ends("THAI_RULE", k) <=> k = Len(Rule0) /\ Matched(text, k)
  <2>1. ASSUME Ends("THAI_RULE", k) PROVE k = Len(Rule0) /\ Matched(text, k)
    BY <2>1 DEF Ends, ThaiInv
  <2>2. ASSUME k = Len(Rule0), Matched(text, k) PROVE Ends("THAI_RULE", k)
    <3>1. PICK a \in current : a.type = "THAI_RULE" /\ a.strOffset = k
      BY <2>2 DEF ThaiInv
    <3>2. a.isFinal = (a.strOffset = Len(Rule0))
      BY <3>1 DEF ThaiInv
    <3>3. QED
      BY <2>2, <3>1, <3>2 DEF Ends
  <2>3. QED
    BY <2>1, <2>2
<1>2. QED
  BY <1>1 DEF Matched

(* An acceptor that is not a part ends with a piece that is known, and for *)
(* each such piece there is one.                                           *)
LEMMA KnownExact ==
    ASSUME IInv, DictInv, RuleInv, NEW k \in 1..Len(text)
    PROVE  Known(Len(text) - k, Len(text)) <=>
             \E a \in current : a.strOffset = k /\ a.type # "PART" /\ a.isFinal
<1> DEFINE n == Len(text)
           x == n - k
<1>1. n \in Nat /\ x \in Nat /\ x + 1 = n - k + 1 /\ (n = x + 1 <=> k = 1) /\ n - x = k
  BY TextNat
<1>2. Ends("DICT", k) <=> SubSeq(text, x + 1, n) \in Range(dict)
  BY DictKnown
<1>3. Ends("SINSYM", k) <=> n = x + 1 /\ Symbol(text[n])
  BY <1>1, SymbolKnown DEF RuleInv
<1>4. /\ Ends("WORD_RULE", k) <=> RunIn(text, "WORD_RULE", x, n)
      /\ Ends("SPACE_RULE", k) <=> RunIn(text, "SPACE_RULE", x, n)
      /\ Ends("NUMBER_RULE", k) <=> RunIn(text, "NUMBER_RULE", x, n)
  BY RunKnown DEF RuleInv, OneAtATime
<1>5. /\ RunIn(text, "WORD_RULE", x, n) <=> Run(Letter, x, n)
      /\ RunIn(text, "SPACE_RULE", x, n) <=> Run(Space, x, n)
      /\ RunIn(text, "NUMBER_RULE", x, n) <=> Run(Digit, x, n)
  BY DEF RunIn, Run, InClass
<1>6. Ends("THAI_RULE", k) <=>
        n - x = Len(Rule0) /\ \A j \in 1..Len(Rule0) : isMatch(Rule0, j - 1, text[x + j])
  BY <1>1, ThaiKnown DEF RuleInv
<1>7. \A a \in current : a.type \in {"WORD_RULE", "SPACE_RULE", "SINSYM", "NUMBER_RULE",
                                     "THAI_RULE", "PART", "DICT"}
  BY DEF IInv, IsAcceptor, Types, Creators, Range
<1>8. (\E a \in current : a.strOffset = k /\ a.type # "PART" /\ a.isFinal) <=>
        \/ Ends("DICT", k) \/ Ends("SINSYM", k) \/ Ends("WORD_RULE", k)
        \/ Ends("SPACE_RULE", k) \/ Ends("NUMBER_RULE", k) \/ Ends("THAI_RULE", k)
  BY <1>7 DEF Ends
<1> HIDE DEF x, n
<1>9. Known(x, n) <=>
        \/ SubSeq(text, x + 1, n) \in Range(dict)
        \/ n = x + 1 /\ Symbol(text[n])
        \/ Run(Letter, x, n) \/ Run(Digit, x, n) \/ Run(Space, x, n)
        \/ n - x = Len(Rule0) /\ \A j \in 1..Len(Rule0) : isMatch(Rule0, j - 1, text[x + j])
  BY DEF Known
<1>10. QED
  BY <1>2, <1>3, <1>4, <1>5, <1>6, <1>8, <1>9 DEF x, n

LEMMA RuleNext ==
    ASSUME IInv, RuleInv, [Next]_vars
    PROVE  RuleInv'
<1>1. ASSUME NEW ch \in Chars, ReadChar(ch) PROVE RuleInv'
  <2>1. Longer(ch)
    BY <1>1, TextNat DEF Longer, ReadChar
  <2>2. QED
    BY <2>1, RunStep, SymbolStep, ThaiStep DEF RuleInv
<1>2. CASE NextText
  <2>1. current' = {} /\ Len(text') = 0
    BY <1>2 DEF NextText
  <2>2. QED
    BY <2>1 DEF RuleInv, RunInv, SymbolInv, ThaiInv
<1>3. CASE TextEnds \/ CutBack \/ UNCHANGED vars
  <2>1. text' = text /\ current' = current
    BY <1>3 DEF TextEnds, CutBack, vars
  <2>2. QED
    BY <2>1 DEF RuleInv, RunInv, SymbolInv, ThaiInv
<1>4. QED
  BY <1>1, <1>2, <1>3 DEF Next

LEMMA RuleInit == Init => RuleInv
BY DEF Init, RuleInv, RunInv, SymbolInv, ThaiInv

(* KnownExact, for the state after a step, too.                            *)
KnownInv == \A k \in 1..Len(text) :
    Known(Len(text) - k, Len(text)) <=>
      \E a \in current : a.strOffset = k /\ a.type # "PART" /\ a.isFinal

LEMMA KnownNow == IInv /\ DictInv /\ RuleInv => KnownInv
BY KnownExact DEF KnownInv

LEMMA KnownNext == IInv' /\ DictInv' /\ RuleInv' => KnownInv'
BY KnownNow, PTL

-----------------------------------------------------------------------------
(***************************************************************************)
(* Ways to cut a prefix.                                                   *)
(***************************************************************************)
CutsOf(n) == {B \in SUBSET (0..n) :
                /\ {0, n} \subseteq B
                /\ \A a, b \in B : a < b /\ (\A k \in a + 1..b - 1 : k \notin B) => Known(a, b)}

LEMMA CutsSize ==
    ASSUME NEW n \in Nat, NEW B \in CutsOf(n)
    PROVE  IsFiniteSet(B) /\ Cardinality(B) \in Nat /\ B \subseteq 0..n /\ n \in B /\ 0 \in B
<1>1. B \in SUBSET (0..n) /\ n \in B /\ 0 \in B
  BY DEF CutsOf
<1>2. IsFiniteSet(0..n)
  BY FS_Interval
<1>3. QED
  BY <1>1, <1>2, FS_Subset, FS_CardinalityType

(* There is one way to cut nothing.                                        *)
OneEmptyCut == /\ CutsOf(0) # {}
               /\ \A B \in CutsOf(0) : Cardinality(B) = 1

LEMMA CutNothing == OneEmptyCut
<1>1. 0..0 = {0}
  OBVIOUS
<1>2. \A a, b \in {0} : ~(a < b)
  OBVIOUS
<1>3. CutsOf(0) = {{0}}
  BY <1>1, <1>2 DEF CutsOf
<1>4. Cardinality({0}) = 1
  BY FS_Singleton
<1>5. QED
  BY <1>3, <1>4 DEF OneEmptyCut

LEMMA CutNothingNext == OneEmptyCut'
BY CutNothing, PTL

LEMMA CutsFinite ==
    ASSUME NEW n \in Nat, NEW B \in CutsOf(n)'
    PROVE  Cardinality(B) \in Nat
<1>1. B \in SUBSET (0..n)
  BY DEF CutsOf
<1>2. IsFiniteSet(0..n)
  BY FS_Interval
<1>3. QED
  BY <1>1, <1>2, FS_Subset, FS_CardinalityType

(* A known piece after a way to cut what is before it.                     *)
LEMMA AddPiece ==
    ASSUME NEW q \in Nat, NEW p \in 0..q - 1, Known(p, q), NEW B \in CutsOf(p)
    PROVE  B \cup {q} \in CutsOf(q) /\ Cardinality(B \cup {q}) = Cardinality(B) + 1
<1> DEFINE C == B \cup {q}
<1>1. p \in Nat /\ p < q
  OBVIOUS
<1>2. IsFiniteSet(B) /\ B \subseteq 0..p /\ p \in B /\ 0 \in B /\ Cardinality(B) \in Nat
  BY <1>1, CutsSize
<1>3. q \notin B
  BY <1>1, <1>2
<1>4. Cardinality(C) = Cardinality(B) + 1
  BY <1>2, <1>3, FS_AddElement
<1>5. C \in SUBSET (0..q) /\ 0 \in C /\ q \in C
  BY <1>1, <1>2
<1>6. ASSUME NEW a \in C, NEW b \in C, a < b, \A k \in a + 1..b - 1 : k \notin C
      PROVE  Known(a, b)
  <2>1. a \in B
    BY <1>1, <1>2, <1>6
  <2>2. CASE b = q
    <3>1. a = p
      <4>1. SUFFICES ASSUME a # p PROVE FALSE
        OBVIOUS
      <4>2. p \in a + 1..b - 1
        BY <1>1, <1>2, <2>1, <2>2, <4>1
      <4>3. QED
        BY <1>2, <1>6, <4>2
    <3>2. QED
      BY <2>2, <3>1
  <2>3. CASE b # q
    <3>1. b \in B /\ \A k \in a + 1..b - 1 : k \notin B
      BY <1>6, <2>3
    <3>2. QED
      BY <1>6, <2>1, <3>1 DEF CutsOf
  <2>4. QED
    BY <2>2, <2>3
<1> HIDE DEF C
<1>7. C \in CutsOf(q)
  BY <1>5, <1>6 DEF CutsOf
<1>8. QED
  BY <1>4, <1>7 DEF C

(* Each way ends with a known piece, after a way to cut what is before it. *)
LEMMA LastPiece ==
    ASSUME NEW q \in Nat, q > 0, NEW B \in CutsOf(q)
    PROVE  \E p \in 0..q - 1 : /\ Known(p, q) /\ B \ {q} \in CutsOf(p)
                               /\ Cardinality(B \ {q}) = Cardinality(B) - 1
<1> DEFINE C == B \ {q}
<1>1. /\ IsFiniteSet(B) /\ B \subseteq 0..q /\ q \in B /\ 0 \in B
  BY CutsSize
<1>2. C \subseteq 0..q - 1 /\ 0 \in C /\ q - 1 \in Nat
  BY <1>1
<1>3. PICK p \in C : \A c \in C : c <= p
  BY <1>2, GreatestNat
<1>4. p \in 0..q - 1 /\ p < q
  BY <1>2, <1>3
<1>5. Cardinality(C) = Cardinality(B) - 1
  BY <1>1, FS_RemoveElement
<1>6. Known(p, q)
  <2>1. \A k \in p + 1..q - 1 : k \notin B
    <3>1. SUFFICES ASSUME NEW k \in p + 1..q - 1, k \in B PROVE FALSE
      OBVIOUS
    <3>2. k \in C /\ ~(k <= p)
      BY <1>4, <3>1
    <3>3. QED
      BY <1>3, <3>2
  <2>2. p \in B
    BY <1>3
  <2>3. QED
    BY <1>1, <1>4, <2>1, <2>2 DEF CutsOf
<1>7. C \in CutsOf(p)
  <2>1. C \in SUBSET (0..p) /\ {0, p} \subseteq C
    BY <1>2, <1>3
  <2>2. ASSUME NEW a \in C, NEW b \in C, a < b, \A k \in a + 1..b - 1 : k \notin C
        PROVE  Known(a, b)
    <3>1. a \in B /\ b \in B
      OBVIOUS
    <3>2. \A k \in a + 1..b - 1 : k \notin B
      <4>1. SUFFICES ASSUME NEW k \in a + 1..b - 1, k \in B PROVE FALSE
        OBVIOUS
      <4>2. k # q
        BY <1>2, <2>2, <4>1
      <4>3. QED
        BY <2>2, <4>1, <4>2
    <3>3. QED
      BY <2>2, <3>1, <3>2 DEF CutsOf
  <2> HIDE DEF C
  <2>3. QED
    BY <2>1, <2>2 DEF CutsOf
<1>8. QED
  BY <1>4, <1>5, <1>6, <1>7

(* What is known of the text does not change when it goes on.              *)
LEMMA KnownSame ==
    ASSUME NEW ch, Longer(ch), dict' = dict, NEW b \in 0..Len(text), NEW a \in 0..b - 1
    PROVE  Known(a, b)' <=> Known(a, b)
<1> DEFINE n == Len(text)
           t == text'
<1>1. n \in Nat /\ \A k \in 1..n : t[k] = text[k]
  BY LongerText
<1>2. b \in 0..n /\ a \in 0..b - 1 /\ a \in Nat
  OBVIOUS
<1> HIDE DEF n, t
<1>3. \A k \in a + 1..b : k \in 1..n /\ t[k] = text[k]
  BY <1>1, <1>2
<1>4. t[b] = text[b] /\ (a > 0 => t[a] = text[a])
  <2>1. b \in 1..n /\ (a > 0 => a \in 1..n)
    BY <1>1, <1>2
  <2>2. QED
    BY <1>1, <2>1
<1>5. SubSeq(t, a + 1, b) = SubSeq(text, a + 1, b)
  <2>1. /\ text \in Seq(Nat) /\ t = Append(text, ch) /\ n = Len(text)
    BY DEF Longer, t, n
  <2>2. SubSeq(t, a + 1, b) = [k \in 1..b - (a + 1) + 1 |-> t[k + (a + 1) - 1]]
    BY <1>2
  <2>3. SubSeq(text, a + 1, b) = [k \in 1..b - (a + 1) + 1 |-> text[k + (a + 1) - 1]]
    BY <1>2
  <2>4. \A k \in 1..b - (a + 1) + 1 : k + (a + 1) - 1 \in a + 1..b
    BY <1>2
  <2>5. \A k \in 1..b - (a + 1) + 1 : t[k + (a + 1) - 1] = text[k + (a + 1) - 1]
    BY <1>3, <2>4
  <2>6. QED
    BY <2>2, <2>3, <2>5
<1>6. /\ (\A k \in a + 1..b : Letter(t[k])) <=> (\A k \in a + 1..b : Letter(text[k]))
      /\ (\A k \in a + 1..b : Digit(t[k])) <=> (\A k \in a + 1..b : Digit(text[k]))
      /\ (\A k \in a + 1..b : Space(t[k])) <=> (\A k \in a + 1..b : Space(text[k]))
  BY <1>3
<1>7. b - a = Len(Rule0) =>
        ((\A k \in 1..Len(Rule0) : isMatch(Rule0, k - 1, t[a + k])) <=>
         (\A k \in 1..Len(Rule0) : isMatch(Rule0, k - 1, text[a + k])))
  <2>1. SUFFICES ASSUME b - a = Len(Rule0)
                 PROVE  \A k \in 1..Len(Rule0) : t[a + k] = text[a + k]
    OBVIOUS
  <2>2. \A k \in 1..b - a : a + k \in a + 1..b
    BY <1>2
  <2>3. QED
    BY <1>3, <2>1, <2>2
<1>8. Known(a, b)' <=>
        \/ SubSeq(t, a + 1, b) \in Range(dict)
        \/ b = a + 1 /\ Symbol(t[b])
        \/ (\A k \in a + 1..b : Letter(t[k])) /\ (a > 0 => ~Letter(t[a]))
        \/ (\A k \in a + 1..b : Digit(t[k])) /\ (a > 0 => ~Digit(t[a]))
        \/ (\A k \in a + 1..b : Space(t[k])) /\ (a > 0 => ~Space(t[a]))
        \/ b - a = Len(Rule0) /\ \A k \in 1..Len(Rule0) : isMatch(Rule0, k - 1, t[a + k])
  BY DEF Known, Run, t
<1>9. Known(a, b) <=>
        \/ SubSeq(text, a + 1, b) \in Range(dict)
        \/ b = a + 1 /\ Symbol(text[b])
        \/ (\A k \in a + 1..b : Letter(text[k])) /\ (a > 0 => ~Letter(text[a]))
        \/ (\A k \in a + 1..b : Digit(text[k])) /\ (a > 0 => ~Digit(text[a]))
        \/ (\A k \in a + 1..b : Space(text[k])) /\ (a > 0 => ~Space(text[a]))
        \/ b - a = Len(Rule0) /\ \A k \in 1..Len(Rule0) : isMatch(Rule0, k - 1, text[a + k])
  BY DEF Known, Run
<1>10. QED
  BY <1>4, <1>5, <1>6, <1>7, <1>8, <1>9

LEMMA CutsSame ==
    ASSUME NEW ch, Longer(ch), dict' = dict, NEW n \in 0..Len(text)
    PROVE  CutsOf(n)' = CutsOf(n)
<1>1. ASSUME NEW B \in SUBSET (0..n), NEW a \in B, NEW b \in B, a < b
      PROVE  Known(a, b)' <=> Known(a, b)
  <2>1. a \in 0..n /\ b \in 0..n /\ Len(text) \in Nat
    BY LongerText
  <2>a. b \in 0..Len(text) /\ a \in 0..b - 1
    BY <1>1, <2>1
  <2>2. QED
    BY <2>a, KnownSame
<1>2. QED
  BY <1>1 DEF CutsOf

(* AddPiece and LastPiece, for the state after a step, too.                *)
Pieces ==
    \A q \in Nat :
      /\ \A p \in 0..q - 1 : Known(p, q) =>
           \A B \in CutsOf(p) :
             B \cup {q} \in CutsOf(q) /\ Cardinality(B \cup {q}) = Cardinality(B) + 1
      /\ q > 0 =>
           \A B \in CutsOf(q) : \E p \in 0..q - 1 :
             /\ Known(p, q) /\ B \ {q} \in CutsOf(p)
             /\ Cardinality(B \ {q}) = Cardinality(B) - 1

LEMMA PiecesNow == Pieces
BY AddPiece, LastPiece DEF Pieces

LEMMA PiecesNext == Pieces'
BY PiecesNow, PTL

-----------------------------------------------------------------------------
(***************************************************************************)
(* FewestWords                                                             *)
(***************************************************************************)
(* Each prefix is cut best, not only the whole text.                       *)
Best(k) == IF CutsOf(k) = {} THEN path[k].unk > 0
           ELSE /\ path[k].unk = 0
                /\ \E B \in CutsOf(k) : path[k].w = Cardinality(B) - 1
                /\ \A B \in CutsOf(k) : path[k].w <= Cardinality(B) - 1

BestInv == \A k \in 0..Len(text) : Best(k)

(* Where nothing ends, something is unknown.                               *)
LEMMA FallbackUnknown ==
    ASSUME IInv, NEW ch
    PROVE  fallback(Len(text), ch).unk > 0
<1>1. path[leftBoundary].unk \in Nat
  BY DEF IInv, TypeOK, Infos
<1>2. QED
  BY <1>1 DEF fallback

(* One more piece, on what is before the acceptor.                         *)
GoesOn(x, a, n) ==
    \E p \in 0..n : /\ p = n + 1 - a.strOffset
                    /\ x.w = 1 + path[p].w
                    /\ a.type # "PART" => x.unk = path[p].unk
                    /\ a.type = "PART" => x.unk > 0

LEMMA InfoOf ==
    ASSUME IInv, NEW n \in Nat, n = Len(text), NEW a, IsAcceptor(a, n + 1)
    PROVE  GoesOn(pathInfo(a, n), a, n)
<1> DEFINE p == n - a.strOffset + 1
<1>1. p \in 0..n /\ n + 1 - a.strOffset = p
  BY DEF IsAcceptor
<1>2. path[p].unk \in Nat /\ path[p].w \in Nat
  BY <1>1 DEF IInv, TypeOK, Infos
<1>3. /\ pathInfo(a, n).w = 1 + path[p].w
      /\ pathInfo(a, n).unk = (IF a.type = "PART" THEN 1 ELSE 0) + path[p].unk
  BY DEF pathInfo
<1> HIDE DEF p
<1>4. QED
  BY <1>1, <1>2, <1>3 DEF GoesOn

LEMMA BestStep ==
    ASSUME IInv, DictInv, RuleInv, BestInv, NEW ch \in Chars, ReadChar(ch)
    PROVE  BestInv'
<1>1. PICK n \in Nat : n = Len(text)
  BY TextNat
<1> DEFINE q      == n + 1
           finals == {a \in alive(ch) : a.isFinal}
           infos  == build(finals, n, ch)
           info   == selectPath(infos)
<1>2. Longer(ch) /\ Len(text') = q /\ dict' = dict /\ current' = alive(ch) /\ q \in Nat /\ q > 0
  <2>1. Longer(ch)
    BY TextNat DEF Longer, ReadChar
  <2>2. QED
    BY <1>1, <2>1, LongerText DEF ReadChar
<1>3. path' = [k \in 0..q |-> IF k = q THEN info
                              ELSE [path[k] EXCEPT !.merge = merged(finals, n, k)]]
  BY <1>1 DEF ReadChar
<1>4. \A a \in finals : IsAcceptor(a, q) /\ a \in alive(ch) /\ a.isFinal
  BY <1>1, AliveAcceptors
<1>5. infos # {} /\ \A x \in infos : x.unk \in Nat /\ x.w \in Nat /\ x.p \in Nat
  <2>1. infos # {} /\ \A x \in infos : x \in Infos /\ x.p \in 0..n
    BY <1>1, <1>4, BuildInfos
  <2> HIDE DEF infos
  <2>2. ASSUME NEW x \in infos PROVE x.unk \in Nat /\ x.w \in Nat /\ x.p \in Nat
    <3>1. x \in Infos /\ x.p \in 0..n
      BY <2>1
    <3>2. x.unk \in Nat /\ x.w \in Nat
      BY <3>1 DEF Infos
    <3>3. x.p \in Nat
      BY <1>1, <3>1
    <3>4. QED
      BY <3>2, <3>3
  <2>3. QED
    BY <2>1, <2>2
<1>6. /\ finals = {} => infos = {fallback(n, ch)}
      /\ finals # {} => infos = {pathInfo(a, n) : a \in finals}
  BY DEF build
<1>7. \A p \in 0..n : Known(p, q)' <=>
        \E a \in alive(ch) : a.strOffset = q - p /\ a.type # "PART" /\ a.isFinal
  <2>1. KnownInv'
    BY NextInvariant, DictNext, RuleNext, KnownNext DEF Next
  <2>2. SUFFICES ASSUME NEW p \in 0..n
                 PROVE  Known(p, q)' <=>
                          \E a \in alive(ch) : /\ a.strOffset = q - p
                                               /\ a.type # "PART" /\ a.isFinal
    OBVIOUS
  <2>3. PICK k \in 1..q : k = q - p
    <3>1. q - p \in 1..q
      BY <1>1
    <3> HIDE DEF q
    <3>2. QED
      BY <3>1
  <2>4. q - k = p
    BY <1>1, <2>3
  <2> HIDE DEF q
  <2>5. Known(q - k, q)' <=> \E a \in alive(ch) : a.strOffset = k /\ a.type # "PART" /\ a.isFinal
    BY <1>2, <2>1 DEF KnownInv
  <2>6. QED
    BY <2>3, <2>4, <2>5
<1>8. /\ info \in infos
      /\ \A y \in infos : info.unk <= y.unk /\ (info.unk = y.unk => info.w <= y.w)
  BY <1>5, SelectOne
<1>9. \A p \in 0..n : /\ path'[p].unk = path[p].unk /\ path'[p].w = path[p].w
                      /\ path[p].unk \in Nat /\ path[p].w \in Nat
                      /\ CutsOf(p)' = CutsOf(p) /\ Best(p)
  <2>1. SUFFICES ASSUME NEW p \in 0..n
                 PROVE  /\ path'[p].unk = path[p].unk /\ path'[p].w = path[p].w
                        /\ path[p].unk \in Nat /\ path[p].w \in Nat
                        /\ CutsOf(p)' = CutsOf(p) /\ Best(p)
    OBVIOUS
  <2>2. path[p] \in Infos
    BY <1>1 DEF IInv, TypeOK
  <2>3. p \in 0..q /\ p # q
    BY <1>1
  <2> HIDE DEF q
  <2>4. path'[p] = [path[p] EXCEPT !.merge = merged(finals, n, p)]
    BY <1>3, <2>3
  <2>5. path'[p].unk = path[p].unk /\ path'[p].w = path[p].w
    BY <2>2, <2>4 DEF Infos
  <2>6. CutsOf(p)' = CutsOf(p)
    BY <1>1, <1>2, CutsSame
  <2>7. QED
    BY <1>1, <2>2, <2>5, <2>6 DEF BestInv, Infos
<1>10. path'[q] = info
  <2>1. q \in 0..q
    BY <1>2
  <2>2. QED
    BY <1>3, <2>1
<1>11. \A a \in finals :
         /\ pathInfo(a, n) \in infos
         /\ a.type = "PART" => pathInfo(a, n).unk > 0
         /\ a.type # "PART" =>
              \E p \in 0..n : /\ p = q - a.strOffset /\ Known(p, q)'
                              /\ pathInfo(a, n).unk = path[p].unk
                              /\ pathInfo(a, n).w = 1 + path[p].w
  <2>1. SUFFICES ASSUME NEW a \in finals
                 PROVE  /\ pathInfo(a, n) \in infos
                        /\ a.type = "PART" => pathInfo(a, n).unk > 0
                        /\ a.type # "PART" =>
                             \E p \in 0..n : /\ p = q - a.strOffset /\ Known(p, q)'
                                             /\ pathInfo(a, n).unk = path[p].unk
                                             /\ pathInfo(a, n).w = 1 + path[p].w
    OBVIOUS
  <2> HIDE DEF finals, infos
  <2>2. pathInfo(a, n) \in infos
    BY <1>6
  <2>3. IsAcceptor(a, q) /\ a \in alive(ch) /\ a.isFinal
    BY <1>4
  <2>4. GoesOn(pathInfo(a, n), a, n)
    BY <1>1, <2>3, InfoOf
  <2>5. PICK p \in 0..n : /\ p = n + 1 - a.strOffset
                          /\ pathInfo(a, n).w = 1 + path[p].w
                          /\ a.type # "PART" => pathInfo(a, n).unk = path[p].unk
                          /\ a.type = "PART" => pathInfo(a, n).unk > 0
    BY <2>4 DEF GoesOn
  <2>6. a.strOffset = q - p /\ p = q - a.strOffset
    BY <1>1, <2>3, <2>5 DEF IsAcceptor
  <2> HIDE DEF q
  <2>7. a.type # "PART" => Known(p, q)'
    BY <1>7, <2>3, <2>5, <2>6
  <2>8. QED
    BY <2>2, <2>5, <2>6, <2>7
<1>12. \A p \in 0..n : Known(p, q)' =>
         \E a \in finals : a.type # "PART" /\ q - a.strOffset = p
  <2>1. SUFFICES ASSUME NEW p \in 0..n, Known(p, q)'
                 PROVE  \E a \in finals : a.type # "PART" /\ q - a.strOffset = p
    OBVIOUS
  <2>2. PICK a \in alive(ch) : a.strOffset = q - p /\ a.type # "PART" /\ a.isFinal
    BY <1>7, <2>1
  <2>3. a \in finals /\ q - a.strOffset = p
    BY <1>1, <2>2
  <2>4. QED
    BY <2>2, <2>3
<1> HIDE DEF finals, infos, info, q
<1>13. info.unk = 0 => \E p \in 0..n : Known(p, q)' /\ path[p].unk = 0 /\ info.w = 1 + path[p].w
  <2>1. SUFFICES ASSUME info.unk = 0
                 PROVE  \E p \in 0..n : /\ Known(p, q)' /\ path[p].unk = 0
                                        /\ info.w = 1 + path[p].w
    OBVIOUS
  <2>2. finals # {}
    BY <1>1, <1>6, <1>8, <2>1, FallbackUnknown
  <2>3. PICK a \in finals : info = pathInfo(a, n)
    BY <1>6, <1>8, <2>2
  <2>4. QED
    BY <1>11, <2>1, <2>3
<1>14. \A p \in 0..n : Known(p, q)' /\ path[p].unk = 0 => info.unk = 0 /\ info.w <= 1 + path[p].w
  <2>1. SUFFICES ASSUME NEW p \in 0..n, Known(p, q)', path[p].unk = 0
                 PROVE  info.unk = 0 /\ info.w <= 1 + path[p].w
    OBVIOUS
  <2>2. PICK a \in finals : a.type # "PART" /\ q - a.strOffset = p
    BY <1>12, <2>1
  <2>3. pathInfo(a, n) \in infos /\ pathInfo(a, n).unk = 0 /\ pathInfo(a, n).w = 1 + path[p].w
    BY <1>11, <2>1, <2>2
  <2>4. info.unk \in Nat /\ info.unk <= 0
    BY <1>5, <1>8, <2>3
  <2>5. QED
    BY <1>8, <2>3, <2>4
<1>15. /\ \A p \in 0..n : Known(p, q)' =>
            \A B \in CutsOf(p) :
              B \cup {q} \in CutsOf(q)' /\ Cardinality(B \cup {q}) = Cardinality(B) + 1
       /\ \A B \in CutsOf(q)' : \E p \in 0..n :
            /\ Known(p, q)' /\ B \ {q} \in CutsOf(p)
            /\ Cardinality(B \ {q}) = Cardinality(B) - 1
  <2>1. q - 1 = n
    BY <1>1 DEF q
  <2>2. /\ \A p \in 0..q - 1 : Known(p, q)' =>
             \A B \in CutsOf(p)' :
               B \cup {q} \in CutsOf(q)' /\ Cardinality(B \cup {q}) = Cardinality(B) + 1
        /\ q > 0 =>
             \A B \in CutsOf(q)' : \E p \in 0..q - 1 :
               /\ Known(p, q)' /\ B \ {q} \in CutsOf(p)'
               /\ Cardinality(B \ {q}) = Cardinality(B) - 1
    BY <1>2, PiecesNext DEF Pieces
  <2>3. ASSUME NEW p \in 0..n, Known(p, q)', NEW B \in CutsOf(p)
        PROVE  B \cup {q} \in CutsOf(q)' /\ Cardinality(B \cup {q}) = Cardinality(B) + 1
    BY <1>9, <2>1, <2>2, <2>3
  <2>4. ASSUME NEW B \in CutsOf(q)'
        PROVE  \E p \in 0..n : /\ Known(p, q)' /\ B \ {q} \in CutsOf(p)
                               /\ Cardinality(B \ {q}) = Cardinality(B) - 1
    BY <1>2, <1>9, <2>1, <2>2
  <2>5. QED
    BY <2>3, <2>4
<1>16. \A p \in 0..n : \A B \in CutsOf(p) : Cardinality(B) \in Nat
  BY <1>1, CutsSize
<1>17. info.unk \in Nat /\ info.w \in Nat
  BY <1>5, <1>8
<1>18. path'[q].unk = 0 => CutsOf(q)' # {}
  <2>1. SUFFICES ASSUME info.unk = 0 PROVE CutsOf(q)' # {}
    BY <1>10
  <2>2. PICK p \in 0..n : Known(p, q)' /\ path[p].unk = 0
    BY <1>13, <2>1
  <2>3. PICK B \in CutsOf(p) : TRUE
    BY <1>9, <2>2 DEF Best
  <2>4. QED
    BY <1>15, <2>2, <2>3
<1>19. \A B \in CutsOf(q)' : path'[q].unk = 0 /\ path'[q].w <= Cardinality(B) - 1
  <2>1. SUFFICES ASSUME NEW B \in CutsOf(q)'
                 PROVE  info.unk = 0 /\ info.w <= Cardinality(B) - 1
    BY <1>10
  <2>2. PICK p \in 0..n : /\ Known(p, q)' /\ B \ {q} \in CutsOf(p)
                          /\ Cardinality(B \ {q}) = Cardinality(B) - 1
    BY <1>15
  <2>3. path[p].unk = 0 /\ path[p].w <= Cardinality(B \ {q}) - 1 /\ path[p].w \in Nat
    BY <1>9, <2>2 DEF Best
  <2>4. info.unk = 0 /\ info.w <= 1 + path[p].w
    BY <1>14, <2>2, <2>3
  <2>5. Cardinality(B \ {q}) \in Nat
    BY <1>16, <2>2
  <2>6. Cardinality(B) \in Nat
    BY <1>2, <2>1, CutsFinite
  <2>7. QED
    BY <1>17, <2>2, <2>3, <2>4, <2>5, <2>6
<1>20. CutsOf(q)' # {} => \E B \in CutsOf(q)' : path'[q].w = Cardinality(B) - 1
  <2>1. SUFFICES ASSUME CutsOf(q)' # {}
                 PROVE  \E B \in CutsOf(q)' : info.w = Cardinality(B) - 1
    BY <1>10
  <2>2. info.unk = 0
    BY <1>10, <1>19, <2>1
  <2>3. PICK p \in 0..n : Known(p, q)' /\ path[p].unk = 0 /\ info.w = 1 + path[p].w
    BY <1>13, <2>2
  <2>4. PICK B \in CutsOf(p) : path[p].w = Cardinality(B) - 1
    BY <1>9, <2>3 DEF Best
  <2>5. B \cup {q} \in CutsOf(q)' /\ Cardinality(B \cup {q}) = Cardinality(B) + 1
    BY <1>15, <2>3
  <2>6. Cardinality(B) \in Nat
    BY <1>16
  <2>7. info.w = Cardinality(B \cup {q}) - 1
    BY <2>3, <2>4, <2>5, <2>6
  <2>8. QED
    BY <2>5, <2>7
<1>21. Best(q)'
  <2>1. path'[q].unk \in Nat
    BY <1>10, <1>17
  <2>2. QED
    BY <1>18, <1>19, <1>20, <2>1 DEF Best
<1>22. ASSUME NEW p \in 0..n PROVE Best(p)'
  BY <1>9 DEF Best
<1>23. \A p \in 0..q : p \in 0..n \/ p = q
  BY <1>1 DEF q
<1>24. QED
  BY <1>2, <1>21, <1>22, <1>23 DEF BestInv

LEMMA BestInit == Init => BestInv
<1> SUFFICES ASSUME Init PROVE BestInv
  OBVIOUS
<1>1. Len(text) = 0 /\ path[0].w = 0 /\ path[0].unk = 0
  BY DEF Init, initPath
<1>2. CutsOf(0) # {} /\ \A B \in CutsOf(0) : Cardinality(B) = 1
  BY CutNothing DEF OneEmptyCut
<1>3. Best(0)
  BY <1>1, <1>2 DEF Best
<1>4. QED
  BY <1>1, <1>3 DEF BestInv

LEMMA BestNext ==
    ASSUME IInv, DictInv, RuleInv, BestInv, [Next]_vars
    PROVE  BestInv'
<1>1. CASE NextText
  <2>1. Len(text') = 0 /\ path'[0].w = 0 /\ path'[0].unk = 0
    BY <1>1 DEF NextText, initPath
  <2>2. CutsOf(0)' # {} /\ \A B \in CutsOf(0)' : Cardinality(B) = 1
    BY CutNothingNext DEF OneEmptyCut
  <2>3. Best(0)'
    BY <2>1, <2>2 DEF Best
  <2>4. QED
    BY <2>1, <2>3 DEF BestInv
<1>2. CASE TextEnds \/ CutBack \/ UNCHANGED vars
  <2>1. text' = text /\ path' = path /\ dict' = dict
    BY <1>2 DEF TextEnds, CutBack, vars
  <2>2. QED
    <3>1. ASSUME NEW a, NEW b PROVE Known(a, b)' <=> Known(a, b)
      BY <2>1 DEF Known, Run
    <3>2. ASSUME NEW k PROVE CutsOf(k)' = CutsOf(k)
      BY <3>1 DEF CutsOf
    <3>3. ASSUME NEW k PROVE Best(k)' <=> Best(k)
      BY <2>1, <3>2 DEF Best
    <3>4. QED
      BY <2>1, <3>3 DEF BestInv
<1>3. QED
  BY <1>1, <1>2, BestStep DEF Next

(* The path to the end of what is read has an unknown piece only if there  *)
(* is no way without one, and else as few words as any way has.            *)
THEOREM FewestWordsAlways == Spec => []FewestWords
<1>1. IInv /\ BestInv => FewestWords
  <2>1. SUFFICES ASSUME IInv, BestInv PROVE FewestWords
    OBVIOUS
  <2>2. Best(Len(text))
    BY <2>1, TextNat DEF BestInv
  <2>3. Cuts = CutsOf(Len(text))
    BY DEF Cuts, CutsOf
  <2>4. QED
    BY <2>2, <2>3 DEF FewestWords, Best
<1>2. QED
  BY <1>1, InitInvariant, NextInvariant, DictInit, DictNext, RuleInit, RuleNext, BestInit,
     BestNext, PTL DEF Spec
=============================================================================
