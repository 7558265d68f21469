------------------------------- MODULE GlobSync -------------------------------
(***************************************************************************)
(* The synchronous glob: every call of fs is answered at once.  Each       *)
(* operator is a function of the code, for the options o and the files t;  *)
(* it returns what self has become, as s, and its result, as v.  What is   *)
(* thrown ends the search: s.thrown.                                       *)
(***************************************************************************)
EXTENDS GlobCommon, TLC

Returns(s, v) == [s |-> s, v |-> v]

\* What a directory has answered.
readdirAnswered(o, s, abs, a) ==
    IF a.er = "" THEN Returns(_readdirEntries(s, abs, a.entries), a)
    ELSE Returns([_readdirError(s, abs, a.er) EXCEPT !.thrown = @ \/ (a.er = "EACCES" /\ o.strict)],
                 Nothing)
_readdirSync(o, t, s, abs) ==
    LET cached == cachedEntries(s, abs)
    IN  IF cached # {} THEN Returns(s, CHOOSE c \in cached : TRUE)
        ELSE readdirAnswered(o, s, abs, readdir(t, abs))

lstatAnswered(o, t, s, abs, a) ==
    LET noted == [s EXCEPT !.symlinks = put(@, abs, a.kind = "link")]
    IN  IF a.er # "" THEN Returns(s, Nothing)
        ELSE IF a.kind = "file"
             THEN Returns([noted EXCEPT !.cache = put(@, abs, Kind("FILE"))], Nothing)
        ELSE _readdirSync(o, t, noted, abs)
_readdirInGlobStarSync(o, t, s, abs) ==
    IF o.follow THEN _readdirSync(o, t, s, abs) ELSE lstatAnswered(o, t, s, abs, lstat(t, abs))

entriesSync(o, t, s, abs, inGlobStar) ==
    IF inGlobStar /\ abs \notin DOMAIN s.symlinks
    THEN _readdirInGlobStarSync(o, t, s, abs) ELSE _readdirSync(o, t, s, abs)

\* A link is what it leads to, unless that is not there.
kindSync(t, s, abs) ==
    IF abs \in DOMAIN s.statCache THEN s.statCache[abs].kind
    ELSE IF lstat(t, abs).kind = "link" /\ stat(t, abs).er = "" THEN stat(t, abs).kind
    ELSE lstat(t, abs).kind
statKnown(s, f, abs, kind) ==
    LET known == abs \in DOMAIN s.cache /\ s.cache[abs].kind # "false"
    IN  Returns([s EXCEPT !.statCache = put(@, abs, Kind(kind)),
                          !.cache = IF known THEN @ ELSE put(@, abs, Kind(type(kind)))],
                typeAnswer(f, kind))
_statSync(t, s, f) ==
    LET abs    == makeAbs(f)
        cached == cachedStat(s, f)
    IN  IF cached # {} THEN Returns(s, CHOOSE c \in cached : TRUE)
        ELSE IF abs \notin DOMAIN s.statCache /\ lstat(t, abs).er # "" THEN Returns(s, Nothing)
        ELSE statKnown(s, f, abs, kindSync(t, s, abs))

simpleAnswered(r, f, index) ==
    IF r.v.kind \in {"none", "false"} THEN r.s ELSE add(r.s, index, {f})
_processSimpleSync(t, s, f, index) == simpleAnswered(_statSync(t, s, f), f, index)

RECURSIVE _processSync(_, _, _, _, _, _), processEntries(_, _, _, _, _, _)
_processSync(o, t, s, pattern, index, inGlobStar) ==
    LET abs == makeAbs(read(prefix(pattern)))
    IN  IF s.thrown THEN s
        ELSE IF remain(pattern) = <<>> THEN _processSimpleSync(t, s, join(pattern), index)
        ELSE IF childrenIgnored(s, read(prefix(pattern))) THEN s
        ELSE processEntries(o, t, entriesSync(o, t, s, abs, inGlobStar), pattern, index, inGlobStar)

\* _processReaddirSync and _processGlobStarSync, with the entries of the directory.
processEntries(o, t, r, pattern, index, inGlobStar) ==
    LET part == remain(pattern)[1]
        last == Len(remain(pattern)) = 1
        work == IF part = GLOBSTAR THEN globStarWork(o, r.s, pattern, inGlobStar, r.v.entries)
                ELSE readdirWork(o, pattern, inGlobStar, r.v.entries)
    IN  IF r.s.thrown \/ r.v.kind = "none" THEN r.s
        ELSE IF last /\ part # GLOBSTAR
             THEN add(r.s, index, Range(readdirMatches(o, pattern, r.v.entries)))
        ELSE FoldLeft(LAMBDA s, w : _processSync(o, t, s, w[1], index, w[2]), r.s, work)

processSet(o, t, s) ==
    LET set == s.minimatch.set
    IN  FoldLeft(LAMBDA s1, k : _processSync(o, t, s1, set[k], k, FALSE), s,
                 [k \in DOMAIN set |-> k])

globSync(o, t) ==
    LET result(s) == [found |-> found(o, s), thrown |-> s.thrown]
    IN  result(processSet(o, t, setopts(o) @@ [thrown |-> FALSE]))
=============================================================================
