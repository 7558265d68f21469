-------------------------------- MODULE Braces --------------------------------
(***************************************************************************)
(* brace-expansion and balanced-match: "a{b,c}d" to <<"abd", "acd">>.      *)
(* Strings are sequences of characters, counted from 1; 0 is "not found".  *)
(* Left out: backslashes, ranges with a step of 0, which never end, and    *)
(* ranges from a small letter to a capital or back.                        *)
(***************************************************************************)
EXTENDS Integers, Sequences, SequencesExt

At(str, k)    == SubSeq(str, k, k)
From(str, k)  == SubSeq(str, k, Len(str))
Upto(str, k)  == SubSeq(str, 1, k)
Signs(str)    == {At(str, k) : k \in 1..Len(str)}

\* The first place of c in str from k on.
indexOf(str, c, k) ==
    LET first(at) == IF at = {} THEN 0 ELSE CHOOSE j \in at : \A i \in at : j <= i
    IN  first({j \in k..Len(str) : At(str, j) = c})

split(str, sep) ==
    LET pieces[s \in STRING] ==
          LET cut(k) == <<Upto(s, k - 1)>> \o pieces[From(s, k + Len(sep))]
              cutFirst(at) == IF at = {} THEN <<s>> ELSE cut(CHOOSE j \in at : \A i \in at : j <= i)
          IN  cutFirst({j \in 1..Len(s) - Len(sep) + 1 : SubSeq(s, j, j + Len(sep) - 1) = sep})
    IN  pieces[str]

-----------------------------------------------------------------------------
(***************************************************************************)
(* balanced: the first pair of braces that is not inside another one.      *)
(***************************************************************************)
\* The loop of range(): the next brace is at i, the next "{" after it at ai, the
\* next "}" at bi; begs are the open ones, and <<left, right>> is the leftmost pair
\* that was closed inside an open one.
walk(str, start, end) ==
    LET next(a, b) == IF a < b /\ a > 0 THEN a ELSE b
        loop[i, ai, bi \in Nat, begs \in Seq(Nat), left, right \in Nat] ==
          LET ai2   == indexOf(str, "{", i + 1)
              bi2   == indexOf(str, "}", i + 1)
              wider == Last(begs) < left
          IN  IF i = 0 THEN <<left, right>>
              ELSE IF i = ai THEN loop[next(ai2, bi), ai2, bi, Append(begs, i), left, right]
              ELSE IF Len(begs) = 1 THEN <<begs[1], bi>>
              ELSE loop[next(ai, bi2), ai, bi2, Front(begs),
                        IF wider THEN Last(begs) ELSE left, IF wider THEN bi ELSE right]
    IN  loop[start, start, end, <<>>, Len(str) + 1, 0]

range(str) ==
    LET from(ai, bi) == IF ai = 0 \/ bi = 0 THEN <<>> ELSE walk(str, ai, bi)
        after(ai) == from(ai, indexOf(str, "}", ai + 1))
    IN  after(indexOf(str, "{", 1))

\* Faulty variant of balanced: the first "}" closes the first "{".
balancedFirst(str) ==
    LET ai == indexOf(str, "{", 1)
        bi == indexOf(str, "}", ai + 1)
    IN  [found |-> ai > 0 /\ bi > 0,
         pre   |-> Upto(str, ai - 1),
         body  |-> SubSeq(str, ai + 1, bi - 1),
         post  |-> From(str, bi + 1)]

balanced(str) ==
    LET parts(r) == IF r = <<>> THEN [found |-> FALSE]
                    ELSE [found |-> TRUE,
                          pre   |-> Upto(str, r[1] - 1),
                          body  |-> SubSeq(str, r[1] + 1, r[2] - 1),
                          post  |-> From(str, r[2] + 1)]
    IN  parts(range(str))

-----------------------------------------------------------------------------
escOpen  == "\t"        \* the private signs for a brace that is none
escClose == "\n"
escapes   == [c \in {escOpen, escClose} |-> IF c = escOpen THEN "{" ELSE "}"]

unescapeBraces(str) ==
    LET text[s \in STRING] ==
          LET c == At(s, 1)
          IN  IF s = "" THEN ""
              ELSE (IF c \in DOMAIN escapes THEN escapes[c] ELSE c) \o text[From(s, 2)]
    IN  text[str]

\* str.split(","), but a nested pair of braces is one member.
glue(p, nested, post) == Append(Front(p), Last(p) \o nested \o post[1]) \o Tail(post)

parseCommaParts(str) ==
    LET parts[s \in STRING] ==
          LET cut(m) ==
                  IF m.found THEN glue(split(m.pre, ","), "{" \o m.body \o "}", parts[m.post])
                  ELSE split(s, ",")
          IN  cut(balanced(s))
    IN  parts[str]

-----------------------------------------------------------------------------
Digits == "0123456789"
Letters == "ABCDEFGHIJKLMNOPQRSTUVWXYZabcdefghijklmnopqrstuvwxyz"
Place(kind, c) == indexOf(kind, c, 1)

unsigned(str) == IF str # "" /\ At(str, 1) = "-" THEN From(str, 2) ELSE str
isNumber(str) == unsigned(str) # "" /\ Signs(unsigned(str)) \subseteq Signs(Digits)
isLetter(str) == Len(str) = 1 /\ str \in Signs(Letters)
isPadded(str) == Len(unsigned(str)) > 1 /\ At(unsigned(str), 1) = "0"

magnitude(i) == IF i < 0 THEN -i ELSE i
numeric(str) ==
    LET value[s \in STRING] ==
          IF s = "" THEN 0
          ELSE 10 * value[Upto(s, Len(s) - 1)] + Place(Digits, At(s, Len(s))) - 1
    IN  IF isLetter(str) THEN Place(Letters, str)
        ELSE IF At(str, 1) = "-" THEN -value[unsigned(str)] ELSE value[str]

\* String(i), with zeros up to a width.
written(i, width) ==
    LET text[n \in Nat] == IF n < 10 THEN At(Digits, n + 1)
                           ELSE text[n \div 10] \o At(Digits, (n % 10) + 1)
        sign == IF i < 0 THEN "-" ELSE ""
        wide[str \in STRING] ==
          IF Len(sign) + Len(str) < width THEN wide["0" \o str] ELSE sign \o str
    IN  wide[text[magnitude(i)]]

\* (A step of 0 would never end.)
isSequence(body) ==
    LET ends(n) == /\ Len(n) \in {2, 3}
                   /\ \/ isNumber(n[1]) /\ isNumber(n[2])
                      \/ isLetter(n[1]) /\ isLetter(n[2])
                   /\ Len(n) = 3 => isNumber(n[3]) /\ numeric(n[3]) # 0
    IN  ends(split(body, ".."))

\* x..y, up or down, in steps of incr: to y, or to the last before it.
sequence(body) ==
    LET steps(x, y, incr) == [k \in 1..magnitude(y - x) \div incr + 1 |->
                                IF x <= y THEN x + (k - 1) * incr ELSE x - (k - 1) * incr]
        incr(n)  == IF Len(n) = 3 THEN magnitude(numeric(n[3])) ELSE 1
        longer(n) == IF Len(n[1]) > Len(n[2]) THEN Len(n[1]) ELSE Len(n[2])
        width(n) == IF \E k \in 1..Len(n) : isPadded(n[k]) THEN longer(n) ELSE 0
        words(n, at) == IF isLetter(n[1]) THEN [k \in DOMAIN at |-> At(Letters, at[k])]
                        ELSE [k \in DOMAIN at |-> written(at[k], width(n))]
        of(n) == words(n, steps(numeric(n[1]), numeric(n[2]), incr(n)))
    IN  of(split(body, ".."))

Join(pre, N, post) ==
    FlattenSeq([j \in 1..Len(N) |-> [k \in 1..Len(post) |-> pre \o N[j] \o post[k]]])

\* "{a},b}": a comma, and a "}" somewhere after it.
closesLater(post) == \E j, k \in 1..Len(post) : j < k /\ At(post, j) = "," /\ At(post, k) = "}"

embrace(n) == [k \in DOMAIN n |-> "{" \o n[k] \o "}"]
nonempty(N, isTop) == SelectSeq(N, LAMBDA w : ~isTop \/ w # "")

\* options: x{{a,b}}y is x{a}y x{b}y. A single one is not looked at again.
expand(str, isTop) ==
    LET words[s \in STRING, top \in BOOLEAN] ==
          LET options(p) == IF Len(p) = 1 THEN embrace(words[p[1], FALSE]) ELSE p
              wordsOf(n) == IF Len(n) = 1 THEN n
                            ELSE FlattenSeq([k \in DOMAIN n |-> words[n[k], FALSE]])
              after(p)   == IF p = "" THEN <<"">> ELSE words[p, FALSE]
              among(m)   ==
                  IF ~m.found \/ (m.pre # "" /\ At(m.pre, Len(m.pre)) = "$") THEN <<s>>
                  ELSE IF isSequence(m.body) THEN Join(m.pre, sequence(m.body), after(m.post))
                  ELSE IF "," \in Signs(m.body)
                       THEN nonempty(Join(m.pre, wordsOf(options(parseCommaParts(m.body))),
                                          after(m.post)), top)
                  ELSE IF closesLater(m.post)
                       THEN words[m.pre \o "{" \o m.body \o escClose \o m.post, FALSE]
                  ELSE <<s>>
          IN  among(balanced(s))
    IN  words[str, isTop]

expandTop(str) ==
    LET safe == IF Len(str) > 1 /\ Upto(str, 2) = "{}"
                THEN escOpen \o escClose \o From(str, 3) ELSE str
        unescape(N) == [k \in 1..Len(N) |-> unescapeBraces(N[k])]
    IN  IF str = "" THEN <<>> ELSE unescape(expand(safe, TRUE))

\* Minimatch.braceExpand: what has no braces is not looked at.
braceExpand(pattern) == IF range(pattern) = <<>> THEN <<pattern>> ELSE expandTop(pattern)
=============================================================================
