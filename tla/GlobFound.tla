------------------------------ MODULE GlobFound ------------------------------
(***************************************************************************)
(* What glob finds: the same as its synchronous form, and that what the    *)
(* patterns match.                                                         *)
(***************************************************************************)
EXTENDS Glob, GlobSync

(* The order of the answers, other searches and pauses do not change what  *)
(* is found: it is what the synchronous glob finds. What is found while    *)
(* the search is paused is emitted later, even after the end.              *)
(* (But when two searches come by the same link with a "**" at the same    *)
(* time, only the one that asked first stops there: the other goes below   *)
(* the link, and finds more than the synchronous glob. See LinksStop.)     *)
Synchronous == [s \in Searches |-> [g \in DOMAIN s.options |->
                  globSync(s.options[g], s.files).found]]
FoundAll == stack = <<>> => \A g \in Globs : out[g].ends > 0 /\ ~hasty(g) =>
    LET paths == Synchronous[search][g]
    IN  /\ out[g].found \cup out[g].late = paths
        /\ out[g].late \subseteq UNION Range(self[g].matches) \cup {e[2] : e \in Range(self[g]._emitQueue)}

(* The synchronous glob finds the paths that its pattern matches by        *)
(* minimatch's own definition, which walks a path and no files: all of     *)
(* them, and no others. (On files without links, where all can be read,    *)
(* and for patterns without "..". A slash at the end of the pattern asks   *)
(* for directories; the working directory itself is never found.)          *)
PathsBelow(t, cwd) == {SubSeq(q, Len(cwd) + 1, Len(q)) :
                         q \in {q \in DOMAIN t : IsStrictPrefix(cwd, q)}}
Matching(opt, t) ==
    LET dirs == {p \in PathsBelow(t, Cwd) : t[Cwd \o p].kind = "dir"}
        asked(p) == IF p \in dirs THEN Append(p, "") ELSE p
        hits(pattern) ==
            IF Last(pattern) = Literal("")
            THEN {asked(p) : p \in {d \in dirs : matchOne(asked(d), pattern, opt.dot)}}
            ELSE {p \in PathsBelow(t, Cwd) : matchOne(asked(p), pattern, opt.dot)}
        all(s) == found(opt, [s EXCEPT !.matches = [k \in DOMAIN @ |-> hits(s.minimatch.set[k])]])
    IN  all(setopts(opt))
Plain(opt, t) == /\ \A q \in DOMAIN t : t[q].kind \in {"dir", "file"}
                 /\ \A pattern \in Range(make(opt.pattern)) : Literal("..") \notin Range(pattern)
Declared == [s \in Searches |-> [g \in DOMAIN s.options |->
               IF Plain(s.options[g], s.files) THEN Matching(s.options[g], s.files)
               ELSE Synchronous[s][g]]]
SyncMatches == \A g \in Globs : ~out[g].started => Synchronous[search][g] = Declared[search][g]
=============================================================================
