------------------------------ MODULE GlobCommon ------------------------------
(***************************************************************************)
(* What glob and its synchronous form share.  A glob is run with options   *)
(*   o = [pattern, ignore, dot, follow, nonull, strict]                    *)
(* where ignore is a sequence of patterns. Its fields are s = [minimatch,  *)
(* ignore, cache, statCache, symlinks, matches, ...]: the next three map   *)
(* absolute paths to what is known of them, and matches[k] is what the     *)
(* k-th alternative of the pattern has found.                              *)
(*                                                                         *)
(* Left out: the options mark, nodir, stat, realpath, nounique, nosort and *)
(* nomount, absolute patterns, and the order of the result.                *)
(***************************************************************************)
EXTENDS Files, Minimatch

CONSTANT Cwd            \* the working directory

Part == [kind : {"literal", "magic", "globstar"}, glob : Name]  \* of a pattern

None == <<>>            \* no paths are known
put(f, p, v) == [q \in DOMAIN f \cup {p} |-> IF q = p THEN v ELSE f[q]]

\* pattern.join("/"): the empty string has one, empty, name.
Text == <<"">>
join(pattern) == IF pattern = <<>> THEN Text ELSE [k \in DOMAIN pattern |-> pattern[k].glob]
needDir(f) == Len(f) > 1 /\ Last(f) = ""

\* The empty string has no absolute path: nothing is found there.
makeAbs(f) == IF f = Text THEN Text ELSE resolve(Cwd, f)

\* The first items of a pattern that are literal, and the rest.
prefixLength(pattern) ==
    LET magic == {k \in DOMAIN pattern : pattern[k].kind # "literal"}
    IN  IF magic = {} THEN Len(pattern) ELSE CHOOSE k \in 0..Len(pattern) :
            k + 1 \in magic /\ \A j \in magic : k < j
prefix(pattern) == SubSeq(pattern, 1, prefixLength(pattern))
remain(pattern) == SubSeq(pattern, prefixLength(pattern) + 1, Len(pattern))

\* What is read for a prefix: without one, the working directory.
read(pre) == IF pre = <<>> THEN <<".">> ELSE join(pre)

-----------------------------------------------------------------------------
\* "a/**" ignores a, and that nothing below a is looked at.
gpattern(pattern) ==
    LET cuts == {n \in 0..Len(pattern) \div 3 : \A k \in 1..n :
                   SubSeq(pattern, Len(pattern) - 3 * k + 1, Len(pattern) - 3 * k + 3) = "/**"}
    IN  Upto(pattern, Len(pattern) - 3 * Max(cuts))

\* gmatcher matches the directories whose children are ignored, if any.
ignoreMap(pattern) ==
    [matcher  |-> make(pattern),
     gmatcher |-> IF gpattern(pattern) = pattern THEN <<>> ELSE make(gpattern(pattern))]

\* What both start with.
setopts(o) ==
    LET fields(minimatch) == [minimatch |-> minimatch,
                              ignore    |-> [k \in DOMAIN o.ignore |-> ignoreMap(o.ignore[k])],
                              matches   |-> [k \in DOMAIN minimatch.set |-> {}],
                              cache |-> None, statCache |-> None, symlinks |-> None]
    IN  fields(compile(braceExpand(o.pattern)))

childrenIgnored(s, path) == \E k \in DOMAIN s.ignore : match(path, s.ignore[k].gmatcher, FALSE)
isIgnored(s, path) == \/ \E k \in DOMAIN s.ignore : match(path, s.ignore[k].matcher, FALSE)
                      \/ childrenIgnored(s, path)

\* finish: the matches, or with nonull the pattern itself where there are none.
found(o, s) ==
    LET literal(k) == IF o.nonull /\ s.matches[k] = {}
                      THEN {slashSplit(s.minimatch.globSet[k])} ELSE {}
    IN  {m \in UNION {s.matches[k] \cup literal(k) : k \in DOMAIN s.matches} : ~isIgnored(s, m)}

-----------------------------------------------------------------------------
(***************************************************************************)
(* What both remember of the answers                                       *)
(***************************************************************************)
\* With the entries of a directory, each of them is known to exist.
_readdirEntries(s, abs, es) ==
    LET known == {Append(abs, es[k]) : k \in DOMAIN es}
    IN  [s EXCEPT !.cache = [q \in DOMAIN @ \cup known \cup {abs} |->
                               IF q = abs THEN Entries(es)
                               ELSE IF q \in known THEN Kind("true") ELSE @[q]]]

\* Faulty variant of _readdirError: what has no entries is not there.
_readdirErrorGone(s, abs, er) == [s EXCEPT !.cache = put(@, abs, Kind("false"))]

\* ENOTDIR means that it exists.
_readdirError(s, abs, er) ==
    [s EXCEPT !.cache = put(@, abs, Kind(IF er = "ENOTDIR" THEN "FILE" ELSE "false"))]

\* What _readdir answers from the cache: nothing, or the entries.
cachedEntries(s, abs) ==
    LET c == IF abs \in DOMAIN s.cache THEN s.cache[abs] ELSE Kind("unknown")
    IN  IF c.kind \in {"false", "FILE"} THEN {Nothing}
        ELSE IF c.kind = "entries" THEN {c} ELSE {}

\* What _stat answers from the cache, if anything; "true" is not enough to know
\* that it is a directory.
cachedStat(s, f) ==
    LET abs == makeAbs(f)
        c   == IF abs \notin DOMAIN s.cache THEN "unknown"
               ELSE IF s.cache[abs].kind = "entries" THEN "DIR" ELSE s.cache[abs].kind
    IN  IF c = "unknown" THEN {}
        ELSE IF ~needDir(f) \/ c = "DIR" THEN {Kind(c)}
        ELSE IF c = "FILE" THEN {Nothing} ELSE {}

\* isDirectory() of the file or of the link's target.
type(kind) == IF kind = "dir" THEN "DIR" ELSE "FILE"
typeAnswer(f, kind) == IF needDir(f) /\ kind # "dir" THEN Nothing ELSE Kind(type(kind))

\* The names that one part of a pattern stands for.
dotOk(o, part) == o.dot \/ At(part.glob, 1) = "."
matchedEntries(o, part, es) ==
    only(es, {k \in DOMAIN es : /\ ~hidden(es[k]) \/ dotOk(o, part)
                               /\ nameMatches(part, es[k], o.dot)})
visible(o, es) == only(es, {k \in DOMAIN es : ~hidden(es[k]) \/ o.dot})

add(s, index, paths) == [s EXCEPT !.matches[index] = @ \cup paths]

\* The entries that a "**" goes on with: none below a link.
below(s, abs, inGlobStar, es) ==
    IF inGlobStar /\ abs \in DOMAIN s.symlinks /\ s.symlinks[abs] THEN <<>> ELSE es

\* What is to be processed with the entries of a directory, in order: pairs of a
\* pattern and whether it comes from a "**".
globStarWork(o, s, pattern, inGlobStar, es) ==
    LET pre  == prefix(pattern)
        rest == Tail(remain(pattern))
        name(e) == Append(pre, Literal(e))
        instead(e) == <<name(e) \o rest, TRUE>>
        deeper(e) == <<name(e) \o <<GLOBSTAR>> \o rest, TRUE>>
        goOn(deep) == [k \in 1..2 * Len(deep) |->
                         IF k % 2 = 1 THEN instead(deep[(k + 1) \div 2]) ELSE deeper(deep[k \div 2])]
    IN  << <<pre \o rest, FALSE>> >>
        \o goOn(below(s, makeAbs(read(pre)), inGlobStar, visible(o, es)))

readdirWork(o, pattern, inGlobStar, es) ==
    LET rest == remain(pattern)
        goOn(ms) == [k \in DOMAIN ms |->
                       <<Append(prefix(pattern), Literal(ms[k])) \o Tail(rest), inGlobStar>>]
    IN  goOn(matchedEntries(o, rest[1], es))

\* The last part of the pattern: its entries are matches.
readdirMatches(o, pattern, es) ==
    LET goOn(ms) == [k \in DOMAIN ms |-> join(Append(prefix(pattern), Literal(ms[k])))]
    IN  goOn(matchedEntries(o, Last(pattern), es))
=============================================================================
