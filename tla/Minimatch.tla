------------------------------ MODULE Minimatch ------------------------------
(***************************************************************************)
(* minimatch: a pattern is a set of alternatives, each a sequence of parts *)
(* that match one name of a path; a "**" matches any number of them.  A    *)
(* path is the sequence of its names, with an empty last one when it ends  *)
(* in a slash.                                                             *)
(*                                                                         *)
(* Left out: negation and comments (glob turns both off), character        *)
(* classes and extended globs, backslashes, and the options nocase, nobrace,*)
(* noglobstar, matchBase and flipNegate.                                   *)
(***************************************************************************)
EXTENDS Braces

\* A part: a literal name, an expression, or GLOBSTAR.
Magic == {"*", "?"}
GLOBSTAR == [kind |-> "globstar", glob |-> "**"]
Literal(name) == [kind |-> "literal", glob |-> name]
Expression(glob) == [kind |-> "magic", glob |-> glob]

parse(pattern) == IF pattern = "**" THEN GLOBSTAR
                  ELSE IF Signs(pattern) \cap Magic # {} THEN Expression(pattern)
                  ELSE Literal(pattern)

\* The members of a sequence at these places, in their order.
only(seq, places) == [k \in 1..Cardinality(places) |->
                        seq[CHOOSE j \in places : Cardinality({i \in places : i <= j}) = k]]

\* Several slashes are one.
slashSplit(str) ==
    LET inside(names)  == {k \in 2..Len(names) - 1 : names[k] = ""}
        squeeze(names) == only(names, DOMAIN names \ inside(names))
    IN  squeeze(split(str, "/"))

\* The fields set and globSet; make: the set alone.
compile(globs) ==
    LET parts(names) == [j \in DOMAIN names |-> parse(names[j])]
    IN  [globSet |-> globs, set |-> [k \in DOMAIN globs |-> parts(slashSplit(globs[k]))]]
make(pattern) == compile(braceExpand(pattern)).set

-----------------------------------------------------------------------------
hidden(name) == name # "" /\ At(name, 1) = "."

wild(glob, name) ==
    LET rest[gi \in 1..Len(glob) + 1, ni \in 1..Len(name) + 1] ==
          IF gi > Len(glob) THEN ni > Len(name)
          ELSE IF At(glob, gi) = "*"
               THEN rest[gi + 1, ni] \/ (ni <= Len(name) /\ rest[gi, ni + 1])
          ELSE /\ ni <= Len(name) /\ At(glob, gi) \in {"?", At(name, ni)}
               /\ rest[gi + 1, ni + 1]
    IN  rest[1, 1]

\* The expression of a part: it never matches the empty name, and one that begins
\* with a wild sign matches no hidden name, or with dot none of "." and "..".
nameMatches(part, name, dot) ==
    IF part.kind = "literal" THEN name = part.glob
    ELSE /\ name # ""
         /\ At(part.glob, 1) \in Magic =>
              IF dot THEN name \notin {".", ".."} ELSE ~hidden(name)
         /\ wild(part.glob, name)

swallows(name, dot) == name \notin {".", ".."} /\ (dot \/ ~hidden(name))

\* Faulty variant of matchOne: "**" stands for one name or more.
matchOneMore(file, pattern, dot) ==
    LET rest[fi \in 1..Len(file) + 1, pi \in 1..Len(pattern) + 1] ==
          IF pi > Len(pattern) THEN fi > Len(file) \/ (fi = Len(file) /\ file[fi] = "")
          ELSE IF fi > Len(file) THEN FALSE
          ELSE IF pattern[pi] = GLOBSTAR
               THEN \/ pi = Len(pattern) /\ \A k \in fi..Len(file) : swallows(file[k], dot)
                    \/ pi < Len(pattern) /\ \E fr \in fi + 1..Len(file) :
                          rest[fr, pi + 1] /\ \A k \in fi..fr - 1 : swallows(file[k], dot)
          ELSE nameMatches(pattern[pi], file[fi], dot) /\ rest[fi + 1, pi + 1]
    IN  rest[1, 1]

\* fi and pi: the names and the parts from these on.
matchOne(file, pattern, dot) ==
    LET rest[fi \in 1..Len(file) + 1, pi \in 1..Len(pattern) + 1] ==
          IF pi > Len(pattern) THEN fi > Len(file) \/ (fi = Len(file) /\ file[fi] = "")
          ELSE IF fi > Len(file) THEN FALSE
          ELSE IF pattern[pi] = GLOBSTAR
               THEN \/ pi = Len(pattern) /\ \A k \in fi..Len(file) : swallows(file[k], dot)
                    \/ pi < Len(pattern) /\ \E fr \in fi..Len(file) :
                          rest[fr, pi + 1] /\ \A k \in fi..fr - 1 : swallows(file[k], dot)
          ELSE nameMatches(pattern[pi], file[fi], dot) /\ rest[fi + 1, pi + 1]
    IN  rest[1, 1]

match(file, set, dot) == \E k \in DOMAIN set : matchOne(file, set[k], dot)
=============================================================================
