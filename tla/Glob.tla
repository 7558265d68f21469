--------------------------------- MODULE Glob ---------------------------------
(***************************************************************************)
(* Searches of files by patterns, several at a time.  Each call of fs is   *)
(* answered later, in any order; equal calls in flight are made once, for  *)
(* all searches (inflight).  A search counts its pending steps in          *)
(* _processing, and emits "end" when there are none left.                  *)
(*                                                                         *)
(* JavaScript runs each callback to its end.  The stack holds the calls    *)
(* that remain to be made, the next one first: a call is a function with   *)
(* its arguments (fn), and an answer of fs if it takes one.                *)
(***************************************************************************)
EXTENDS GlobCommon, Bags

CONSTANTS Searches,     \* what is searched: [files, options, user] where options is a
                        \* sequence with one search each, and user what callers do
          MaxPauses     \* BOUND on how often a search is paused

ASSUME SearchesAssumption == \A s \in Searches : s.user \subseteq {"abort", "pause"}
ASSUME PausesAssumption == MaxPauses \in Nat
\* A pattern stands for finitely many: the steps of its sequences are not 0.
ASSUME PatternsAssumption == \A s \in Searches : \A g \in DOMAIN s.options :
                               /\ braceExpand(s.options[g].pattern) \in Seq(STRING)
                               /\ make(s.options[g].pattern) \in Seq(Seq(Part))
ASSUME FilesAssumption == \A s \in Searches : IsFiniteSet(DOMAIN s.files) /\ DOMAIN s.files \subseteq Path
ASSUME CwdAssumption == Cwd \in Path

VARIABLES search,       \* the member of Searches that is run
          self,         \* of each search: the fields of its Glob object
          out,          \* of each search: what its caller has seen
          reqs,         \* inflight: the callbacks of each key
          pending,      \* the calls of fs that are not answered, a bag
          stack,
          ticks,        \* process.nextTick: its queue
          draining

vars == <<search, self, out, reqs, pending, stack, ticks, draining>>

Globs == DOMAIN search.options
o(g)  == search.options[g]

Glob0(opt) ==
    LET t == [_processing |-> 0, _emitQueue |-> <<>>, _processQueue |-> <<>>,
              paused |-> FALSE, aborted |-> FALSE]
        with(s) == [f \in DOMAIN s \cup DOMAIN t |-> IF f \in DOMAIN s THEN s[f] ELSE t[f]]
    IN  with(setopts(opt))
Out0 == [started |-> FALSE, ends |-> 0, error |-> FALSE, found |-> {}, late |-> {}, pauses |-> 0]

Init == /\ search \in Searches
        /\ self = [g \in Globs |-> Glob0(o(g))]
        /\ out = [g \in Globs |-> Out0]
        /\ reqs = None /\ pending = EmptyBag /\ stack = <<>> /\ ticks = <<>> /\ draining = FALSE

-----------------------------------------------------------------------------
Call(fn) == [fn |-> fn, answer |-> Nothing]
Answer(fn, a) == [fn |-> fn, answer |-> a]
Done(g) == Call([name |-> "done", g |-> g])

Top(name) == stack # <<>> /\ Head(stack).fn.name = name
Fn  == Head(stack).fn
Ans == Head(stack).answer
Me  == self[Fn.g]


\* The function on top returns, after these calls.
Return(calls) == stack' = calls \o Tail(stack)
Set(s) == self' = [self EXCEPT ![Fn.g] = s]

\* inflight: the first with a key asks fs, and the others wait for its answer.
Key(call, abs) == <<call, abs>>
RES(key) == [name |-> "RES", key |-> key]
inflight(key, cb) ==
    reqs' = put(reqs, key, IF key \in DOMAIN reqs THEN Append(reqs[key], cb) ELSE <<cb>>)
Ask(call, abs, cb) == pending' = pending (+) SetToBag({[call |-> call, abs |-> abs, cb |-> cb]})
AskOnce(key, call, abs, cb) ==
    /\ inflight(key, cb)
    /\ IF key \in DOMAIN reqs THEN UNCHANGED pending ELSE Ask(call, abs, RES(key))

Process(g, pattern, index, inGlobStar) ==
    Call([name |-> "_process", g |-> g, pattern |-> pattern, index |-> index,
          inGlobStar |-> inGlobStar])
Readdir(g, abs, inGlobStar, cb) ==
    Call([name |-> "_readdir", g |-> g, abs |-> abs, inGlobStar |-> inGlobStar, cb |-> cb])
EmitMatch(g, index, e) == Call([name |-> "_emitMatch", g |-> g, index |-> index, e |-> e])

-----------------------------------------------------------------------------
(***************************************************************************)
(* The caller                                                              *)
(***************************************************************************)
\* Between two turns of the event loop: a drain of the ticks is one turn.
Idle == stack = <<>> /\ (draining => ticks = <<>>)
\* Callers act in turns of their own and when they hear of a match.
CallerRuns(g) == Idle \/ (Top("match") /\ Fn.g = g)

Glob(g) ==
    /\ Idle /\ ~out[g].started
    /\ out' = [out EXCEPT ![g].started = TRUE]
    /\ LET set == self[g].minimatch.set
       IN  stack' = IF set = <<>> THEN <<Done(g)>>
                    ELSE [k \in DOMAIN set |-> Process(g, set[k], k, FALSE)]
    /\ draining' = FALSE
    /\ UNCHANGED <<search, self, reqs, pending, ticks>>

abort(g) ==
    /\ "abort" \in search.user /\ CallerRuns(g) /\ out[g].started /\ ~self[g].aborted
    /\ self' = [self EXCEPT ![g].aborted = TRUE]
    /\ UNCHANGED <<search, out, reqs, pending, stack, ticks, draining>>

pause(g) ==
    /\ "pause" \in search.user /\ out[g].pauses < MaxPauses
    /\ CallerRuns(g) /\ out[g].started /\ ~self[g].paused
    /\ self' = [self EXCEPT ![g].paused = TRUE]
    /\ out' = [out EXCEPT ![g].pauses = @ + 1]
    /\ UNCHANGED <<search, reqs, pending, stack, ticks, draining>>

\* Faulty variant of resume: the steps that are processed again stay counted.
resumeCounted(g) ==
    LET eq == self[g]._emitQueue
        pq == self[g]._processQueue
    IN  /\ Idle /\ self[g].paused
        /\ self' = [self EXCEPT ![g].paused = FALSE, ![g]._emitQueue = <<>>,
                                ![g]._processQueue = <<>>]
        /\ stack' = [k \in DOMAIN eq |-> EmitMatch(g, eq[k][1], eq[k][2])] \o pq
        /\ draining' = FALSE /\ UNCHANGED <<search, out, reqs, pending, ticks>>

\* What was put aside is emitted and processed; _processing counts the latter anew.
resume(g) ==
    LET eq == self[g]._emitQueue
        pq == self[g]._processQueue
        again(call) == Call([name |-> "uncount", g |-> g, then |-> call])
    IN  /\ Idle /\ self[g].paused
        /\ self' = [self EXCEPT ![g].paused = FALSE, ![g]._emitQueue = <<>>,
                                ![g]._processQueue = <<>>]
        /\ stack' = [k \in DOMAIN eq |-> EmitMatch(g, eq[k][1], eq[k][2])]
                    \o [k \in DOMAIN pq |-> again(pq[k])]
        /\ draining' = FALSE /\ UNCHANGED <<search, out, reqs, pending, ticks>>

Uncount == /\ Top("uncount")
           /\ Set([Me EXCEPT !._processing = @ - 1]) /\ Return(<<Fn.then>>)
           /\ UNCHANGED <<search, out, reqs, pending, ticks, draining>>

-----------------------------------------------------------------------------
(***************************************************************************)
(* _process, _processSimple, _processReaddir, _processGlobStar             *)
(***************************************************************************)
\* What an unpaused _process calls first.
firstStep ==
    LET pre  == prefix(Fn.pattern)
        rest == remain(Fn.pattern)
        then == [name |-> IF rest[1] = GLOBSTAR THEN "_processGlobStar2" ELSE "_processReaddir2",
                 g |-> Fn.g, pattern |-> Fn.pattern, index |-> Fn.index,
                 inGlobStar |-> Fn.inGlobStar]
    IN  IF rest = <<>>
        THEN Call([name |-> "_stat", g |-> Fn.g, f |-> join(pre), index |-> Fn.index])
        ELSE IF childrenIgnored(Me, read(pre)) THEN Done(Fn.g)
        ELSE Readdir(Fn.g, makeAbs(read(pre)), Fn.inGlobStar, then)

_process ==
    /\ Top("_process")
    /\ \/ /\ Me.aborted
          /\ Return(<<>>) /\ UNCHANGED self
       \/ /\ ~Me.aborted /\ Me.paused
          /\ Set([Me EXCEPT !._processing = @ + 1, !._processQueue = Append(@, Head(stack))])
          /\ Return(<<>>)
       \/ /\ ~Me.aborted /\ ~Me.paused
          /\ Set([Me EXCEPT !._processing = @ + 1])
          /\ Return(<<firstStep>>)
    /\ UNCHANGED <<search, out, reqs, pending, ticks, draining>>

ProcessAll(work) ==
    [k \in DOMAIN work |-> Process(Fn.g, work[k][1], Fn.index, work[k][2])]

\* The last part of the pattern: the entries are matches. Otherwise they take its place.
_processReaddir2 ==
    /\ Top("_processReaddir2")
    /\ IF Len(remain(Fn.pattern)) = 1
       THEN \E ms \in {readdirMatches(o(Fn.g), Fn.pattern, Ans.entries)} :
              Return(Append([k \in DOMAIN ms |-> EmitMatch(Fn.g, Fn.index, ms[k])], Done(Fn.g)))
       ELSE \E work \in {readdirWork(o(Fn.g), Fn.pattern, Fn.inGlobStar, Ans.entries)} :
              Return(Append(ProcessAll(work), Done(Fn.g)))
    /\ UNCHANGED <<search, self, out, reqs, pending, ticks, draining>>

_processGlobStar2 ==
    /\ Top("_processGlobStar2")
    /\ IF Ans.kind = "none" THEN Return(<<Done(Fn.g)>>)
       ELSE \E work \in {globStarWork(o(Fn.g), Me, Fn.pattern, Fn.inGlobStar, Ans.entries)} :
              Return(Append(ProcessAll(work), Done(Fn.g)))
    /\ UNCHANGED <<search, self, out, reqs, pending, ticks, draining>>

\* Faulty variant of _processSimple2: the step of what is there ends twice.
_processSimple2Twice ==
    /\ Top("_processSimple2")
    /\ Return(IF Ans.kind \in {"none", "false"} THEN <<Done(Fn.g)>>
              ELSE <<EmitMatch(Fn.g, Fn.index, Fn.f), Done(Fn.g), Done(Fn.g)>>)
    /\ UNCHANGED <<search, self, out, reqs, pending, ticks, draining>>

\* Faulty variant of _processSimple2: the step of what is not there does not end.
_processSimple2Lost ==
    /\ Top("_processSimple2")
    /\ Return(IF Ans.kind \in {"none", "false"} THEN <<>>
              ELSE <<EmitMatch(Fn.g, Fn.index, Fn.f), Done(Fn.g)>>)
    /\ UNCHANGED <<search, self, out, reqs, pending, ticks, draining>>

_processSimple2 ==
    /\ Top("_processSimple2")
    /\ Return(IF Ans.kind \in {"none", "false"} THEN <<Done(Fn.g)>>
              ELSE <<EmitMatch(Fn.g, Fn.index, Fn.f), Done(Fn.g)>>)
    /\ UNCHANGED <<search, self, out, reqs, pending, ticks, draining>>

\* Faulty variant of _emitMatch: a search that was aborted goes on to emit.
_emitMatchAborted ==
    /\ Top("_emitMatch")
    /\ \/ /\ (Fn.e \in Me.matches[Fn.index] \/ isIgnored(Me, Fn.e))
          /\ Return(<<>>) /\ UNCHANGED self
       \/ /\ Fn.e \notin Me.matches[Fn.index] /\ ~isIgnored(Me, Fn.e)
          /\ IF Me.paused
             THEN Set([Me EXCEPT !._emitQueue = Append(@, <<Fn.index, Fn.e>>)]) /\ Return(<<>>)
             ELSE Set(add(Me, Fn.index, {Fn.e})) /\ Return(<<Call([name |-> "match", g |-> Fn.g])>>)
    /\ UNCHANGED <<search, out, reqs, pending, ticks, draining>>

_emitMatch ==
    /\ Top("_emitMatch")
    /\ LET skip == Me.aborted \/ Fn.e \in Me.matches[Fn.index] \/ isIgnored(Me, Fn.e)
       IN  \/ skip /\ Return(<<>>) /\ UNCHANGED self
           \/ /\ ~skip /\ Me.paused
              /\ Set([Me EXCEPT !._emitQueue = Append(@, <<Fn.index, Fn.e>>)])
              /\ Return(<<>>)
           \/ /\ ~skip /\ ~Me.paused
              /\ Set(add(Me, Fn.index, {Fn.e}))
              /\ Return(<<Call([name |-> "match", g |-> Fn.g])>>)
    /\ UNCHANGED <<search, out, reqs, pending, ticks, draining>>

\* The listeners of "match" return.
Heard == /\ Top("match") /\ Return(<<>>)
         /\ UNCHANGED <<search, self, out, reqs, pending, ticks, draining>>

\* Faulty variant of done: the search ends with the last but one.
doneEarly ==
    /\ Top("done") /\ Return(<<>>)
    /\ Set([Me EXCEPT !._processing = @ - 1])
    /\ out' = IF Me._processing > 2 \/ Me.aborted THEN out
              ELSE [out EXCEPT ![Fn.g].ends = @ + 1,
                      ![Fn.g].found = IF out[Fn.g].ends = 0 THEN found(o(Fn.g), Me) ELSE @,
                      ![Fn.g].late = {e[2] : e \in Range(Me._emitQueue)}]
    /\ UNCHANGED <<search, reqs, pending, ticks, draining>>

\* done, and _finish. The callback is called once, with the first result.
done ==
    /\ Top("done") /\ Return(<<>>)
    /\ Set([Me EXCEPT !._processing = @ - 1])
    /\ out' = IF Me._processing > 1 \/ Me.aborted THEN out
              ELSE [out EXCEPT ![Fn.g].ends = @ + 1,
                      ![Fn.g].found = IF out[Fn.g].ends = 0 THEN found(o(Fn.g), Me) ELSE @,
                      ![Fn.g].late = {e[2] : e \in Range(Me._emitQueue)}]
    /\ UNCHANGED <<search, reqs, pending, ticks, draining>>

-----------------------------------------------------------------------------
(***************************************************************************)
(* _readdir                                                                *)
(***************************************************************************)
_readdir ==
    /\ Top("_readdir")
    /\ LET key    == Key(IF Fn.inGlobStar THEN "readdir in **" ELSE "readdir", Fn.abs)
           cached == cachedEntries(Me, Fn.abs)
           readdirCb == [name |-> "readdirCb", g |-> Fn.g, abs |-> Fn.abs, cb |-> RES(key)]
       IN  \/ Me.aborted /\ Return(<<>>) /\ UNCHANGED <<reqs, pending>>
           \/ /\ ~Me.aborted /\ key \in DOMAIN reqs
              /\ inflight(key, Fn.cb) /\ Return(<<>>) /\ UNCHANGED pending
           \/ /\ ~Me.aborted /\ key \notin DOMAIN reqs
              /\ inflight(key, Fn.cb)
              /\ IF Fn.inGlobStar /\ Fn.abs \notin DOMAIN Me.symlinks
                 THEN /\ Return(<<Call([name |-> "_readdirInGlobStar", g |-> Fn.g,
                                        abs |-> Fn.abs, cb |-> RES(key)])>>)
                      /\ UNCHANGED pending
                 ELSE IF cached # {}
                 THEN /\ \E c \in cached : Return(<<Answer(RES(key), c)>>)
                      /\ UNCHANGED pending
                 ELSE Ask("readdir", Fn.abs, readdirCb) /\ Return(<<>>)
    /\ UNCHANGED <<search, self, out, ticks, draining>>

_readdirInGlobStar ==
    /\ Top("_readdirInGlobStar")
    /\ IF o(Fn.g).follow
       THEN Return(<<Readdir(Fn.g, Fn.abs, FALSE, Fn.cb)>>) /\ UNCHANGED <<reqs, pending>>
       ELSE /\ AskOnce(Key("lstat", Fn.abs), "lstat", Fn.abs,
                       [name |-> "lstatcb", g |-> Fn.g, abs |-> Fn.abs, cb |-> Fn.cb])
            /\ Return(<<>>)
    /\ UNCHANGED <<search, self, out, ticks, draining>>

lstatcb ==
    /\ Top("lstatcb")
    /\ LET noted == [Me EXCEPT !.symlinks = put(@, Fn.abs, Ans.kind = "link")]
       IN  \/ Ans.er # "" /\ Return(<<Call(Fn.cb)>>) /\ UNCHANGED self
           \/ /\ Ans.kind = "file"
              /\ Set([noted EXCEPT !.cache = put(@, Fn.abs, Kind("FILE"))])
              /\ Return(<<Call(Fn.cb)>>)
           \/ /\ Ans.kind \in {"dir", "link"}
              /\ Set(noted)
              /\ Return(<<Readdir(Fn.g, Fn.abs, FALSE, Fn.cb)>>)
    /\ UNCHANGED <<search, out, reqs, pending, ticks, draining>>

\* Faulty variant of readdirCb: an error is noted and no more.
readdirCbSilent ==
    LET noted == _readdirError(Me, Fn.abs, Ans.er)
    IN  /\ Top("readdirCb")
        /\ \/ /\ Ans.er = ""
              /\ Set(_readdirEntries(Me, Fn.abs, Ans.entries))
              /\ Return(<<Answer(Fn.cb, Ans)>>)
           \/ Ans.er # "" /\ Set(noted) /\ Return(<<>>)
        /\ UNCHANGED <<search, out, reqs, pending, ticks, draining>>

\* readdirCb, _readdirEntries and _readdirError. An aborted search calls nobody.
readdirCb ==
    LET fails == Ans.er = "EACCES" /\ o(Fn.g).strict
        noted == _readdirError(Me, Fn.abs, Ans.er)
    IN  /\ Top("readdirCb")
        /\ \/ Me.aborted /\ Return(<<>>) /\ UNCHANGED <<self, out>>
           \/ /\ ~Me.aborted /\ Ans.er = ""
              /\ Set(_readdirEntries(Me, Fn.abs, Ans.entries))
              /\ Return(<<Answer(Fn.cb, Ans)>>) /\ UNCHANGED out
           \/ /\ ~Me.aborted /\ Ans.er # ""
              /\ Set([noted EXCEPT !.aborted = @ \/ fails])
              /\ out' = [out EXCEPT ![Fn.g].error = @ \/ fails]
              /\ Return(<<Call(Fn.cb)>>)
        /\ UNCHANGED <<search, reqs, pending, ticks, draining>>

-----------------------------------------------------------------------------
(***************************************************************************)
(* _stat                                                                   *)
(***************************************************************************)
_stat ==
    /\ Top("_stat")
    /\ LET abs    == makeAbs(Fn.f)
           cached == cachedStat(Me, Fn.f)
           then   == [name |-> "_processSimple2", g |-> Fn.g, f |-> Fn.f, index |-> Fn.index]
           known(c) == IF c.kind = "false" THEN c ELSE typeAnswer(Fn.f, c.kind)
       IN  \/ /\ cached # {}
              /\ \E c \in cached : Return(<<Answer(then, c)>>)
              /\ UNCHANGED <<reqs, pending>>
           \/ /\ cached = {} /\ abs \in DOMAIN Me.statCache
              /\ Return(<<Answer(then, known(Me.statCache[abs]))>>)
              /\ UNCHANGED <<reqs, pending>>
           \/ /\ cached = {} /\ abs \notin DOMAIN Me.statCache
              /\ AskOnce(Key("stat", abs), "lstat", abs,
                         [name |-> "statcb", g |-> Fn.g, abs |-> abs, then |-> then])
              /\ Return(<<>>)
    /\ UNCHANGED <<search, self, out, ticks, draining>>

\* _stat2, for a file of this kind.
_stat2(kind) ==
    LET c == IF Fn.abs \in DOMAIN Me.cache THEN Me.cache[Fn.abs] ELSE Kind("false")
    IN  /\ Set([Me EXCEPT !.statCache = put(@, Fn.abs, Kind(kind)),
                          !.cache = put(@, Fn.abs, IF c.kind = "false" THEN Kind(type(kind)) ELSE c)])
        /\ Return(<<Answer(Fn.then, typeAnswer(Fn.then.f, kind))>>)

\* lstatcb_ of _stat: a link is asked for what it leads to.
statcb ==
    /\ Top("statcb")
    /\ \/ /\ Ans.er # ""
          /\ Set([Me EXCEPT !.statCache = put(@, Fn.abs, Kind("false"))])
          /\ Return(<<Call(Fn.then)>>) /\ UNCHANGED pending
       \/ /\ Ans.kind = "link"
          /\ Ask("stat", Fn.abs, [Fn EXCEPT !.name = "targetcb"])
          /\ Return(<<>>) /\ UNCHANGED self
       \/ Ans.kind \in {"dir", "file"} /\ _stat2(Ans.kind) /\ UNCHANGED pending
    /\ UNCHANGED <<search, out, reqs, ticks, draining>>

\* A link that leads nowhere is a file.
targetcb == /\ Top("targetcb")
            /\ _stat2(IF Ans.er = "" THEN Ans.kind ELSE "link")
            /\ UNCHANGED <<search, out, reqs, pending, ticks, draining>>

-----------------------------------------------------------------------------
(***************************************************************************)
(* inflight, process.nextTick and fs                                       *)
(***************************************************************************)
RES_ ==
    /\ Top("RES")
    /\ LET cbs == reqs[Fn.key]
       IN  Return([k \in DOMAIN cbs |-> Answer(cbs[k], Ans)]
                  \o <<Answer([name |-> "cleanup", key |-> Fn.key, len |-> Len(cbs)], Ans)>>)
    /\ UNCHANGED <<search, self, out, reqs, pending, ticks, draining>>

\* The finally block: who asked meanwhile is answered in the next tick.
cleanup ==
    LET later == SubSeq(reqs[Fn.key], Fn.len + 1, Len(reqs[Fn.key]))
    IN  /\ Top("cleanup") /\ Return(<<>>)
        /\ \/ /\ later # <<>>
              /\ reqs' = put(reqs, Fn.key, later)
              /\ ticks' = Append(ticks, Answer(RES(Fn.key), Ans))
           \/ /\ later = <<>>
              /\ reqs' = [k \in DOMAIN reqs \ {Fn.key} |-> reqs[k]]
              /\ UNCHANGED ticks
        /\ UNCHANGED <<search, self, out, pending, draining>>

\* drainQueue runs what is queued, and what that queues, in one turn.
Tick == /\ stack = <<>> /\ ticks # <<>>
        /\ stack' = <<Head(ticks)>> /\ ticks' = Tail(ticks) /\ draining' = TRUE
        /\ UNCHANGED <<search, self, out, reqs, pending>>

FsAnswers(r) == /\ Idle
                /\ stack' = <<Answer(r.cb, answer(search.files, r.call, r.abs))>>
                /\ pending' = pending (-) SetToBag({r}) /\ draining' = FALSE
                /\ UNCHANGED <<search, self, out, reqs, ticks>>

JavaScript == \/ Uncount \/ _process \/ _processReaddir2 \/ _processGlobStar2 \/ _processSimple2
              \/ _emitMatch \/ Heard \/ done \/ _readdir \/ _readdirInGlobStar \/ lstatcb
              \/ readdirCb \/ _stat \/ statcb \/ targetcb \/ RES_ \/ cleanup
Answers == \E r \in BagToSet(pending) : FsAnswers(r)
Callers == \E g \in Globs : Glob(g) \/ abort(g) \/ pause(g) \/ resume(g)

Next == JavaScript \/ Tick \/ Answers \/ Callers

\* The event loop turns, and fs answers: what runs is at the top of the stack.
Fairness == WF_vars(JavaScript) /\ WF_vars(Tick) /\ WF_vars(Answers)

Spec == Init /\ [][Next]_vars /\ Fairness

-----------------------------------------------------------------------------
(* Nothing is counted below zero, but for a pattern that stands for        *)
(* nothing; and who is in flight waits for somebody.                       *)
TypeOK == /\ search \in Searches /\ draining \in BOOLEAN
          /\ \A g \in Globs : /\ self[g]._processing \in Int
                              /\ self[g].minimatch.set # <<>> => self[g]._processing >= 0
                              /\ \A abs \in DOMAIN self[g].symlinks : self[g].symlinks[abs] \in BOOLEAN
          /\ \A key \in DOMAIN reqs : reqs[key] # <<>>

\* The callbacks that wait for a request in flight, and the calls that fs will answer.
Waiting == UNION {{key} \X DOMAIN reqs[key] : key \in DOMAIN reqs}
Calling == UNION {{r} \X (1..pending[r]) : r \in DOMAIN pending}
callback(w) == reqs[w[1]][w[2]]

(* _processing is the number of steps that will still call done(): those   *)
(* that wait for fs, on their own or in another's request, and those that  *)
(* are put aside by a pause. When it is 0 the search has ended, once.      *)
(* (Without alternatives done() is called once for no step. And when the   *)
(* first of several alternatives is ignored the search ends at once, and   *)
(* again later: hasty.)                                                    *)
owes(cb, g) == /\ cb.name \in {"_processGlobStar2", "_processReaddir2", "statcb", "targetcb"}
               /\ cb.g = g
Owed(g) == Cardinality({w \in Waiting : owes(callback(w), g)})
           + Cardinality({c \in Calling : owes(c[1].cb, g)})
           + Len(self[g]._processQueue)
hasty(g) == LET set == self[g].minimatch.set
            IN  Len(set) > 1 /\ remain(set[1]) # <<>> /\ childrenIgnored(self[g], read(prefix(set[1])))
Accounting == stack = <<>> => \A g \in Globs : out[g].started /\ ~self[g].aborted =>
    /\ self[g]._processing = Owed(g) - IF self[g].minimatch.set = <<>> THEN 1 ELSE 0
    /\ Owed(g) = 0 => out[g].ends > 0
    /\ ~hasty(g) => out[g].ends = IF Owed(g) = 0 THEN 1 ELSE 0

(* Who waits for a request is not left waiting: while a key is in flight   *)
(* exactly one call will answer it. (Unless a search was aborted: then it  *)
(* calls nobody, not even other searches that wait.)                       *)
holds(cb, key) == \/ cb.name = "RES" /\ cb.key = key
                  \/ cb.name \in {"lstatcb", "readdirCb"} /\ cb.cb = RES(key)
Holders(key) == Cardinality({w \in Waiting : holds(callback(w), key)})
                + Cardinality({c \in Calling : holds(c[1].cb, key)})
                + Cardinality({k \in DOMAIN ticks : ticks[k].fn = RES(key)})
OneHolder == stack = <<>> /\ (\A g \in Globs : ~self[g].aborted) =>
                \A key \in DOMAIN reqs : Holders(key) = 1

(* What a search remembers of a path is true of the files, whatever the    *)
(* order of the answers: "true" for a file that is there, FILE or DIR for  *)
(* what it leads to, false for what is not there or may not be read.       *)
CacheTrue == stack = <<>> => \A g \in Globs : \A abs \in DOMAIN self[g].cache :
    LET c == self[g].cache[abs]
        t == search.files
    IN  CASE c.kind = "entries" -> readdir(t, abs) = c
          [] c.kind = "true"    -> lstat(t, abs).er = ""
          [] c.kind = "DIR"     -> stat(t, abs).kind = "dir"
          [] c.kind = "FILE"    -> lstat(t, abs).er = "" /\ stat(t, abs).kind # "dir"
          [] c.kind = "false"   -> readdir(t, abs).er \in {"ENOENT", "EACCES"}

(* A search that was aborted, or failed, finds nothing more, does not end, *)
(* and raises no second error.                                             *)
NothingAfterAbort == [][\A g \in Globs : self[g].aborted =>
                          /\ self'[g].matches = self[g].matches
                          /\ out'[g] = out[g] \/ out'[g].pauses > out[g].pauses]_vars

(* A search that is not left paused ends, or was aborted, or failed, or    *)
(* waits for a request that nobody answers, because the other search,      *)
(* which made it, was aborted or failed: that one search strands another   *)
(* is what the code does. While none was aborted nobody is stranded        *)
(* (OneHolder).                                                            *)
unheld(key) == Holders(key) = 0
lost(key)   == unheld(key) \/ \E w \in Waiting : callback(w) = RES(key) /\ unheld(w[1])
Stranded(g) == /\ stack = <<>>
               /\ \E h \in Globs \ {g} : self[h].aborted
               /\ \E w \in Waiting : owes(callback(w), g) /\ lost(w[1])
Started(g) == g \in Globs /\ out[g].started
Paused(g)  == g \in Globs /\ self[g].paused
Over(g)    == g \in Globs /\ (out[g].ends > 0 \/ self[g].aborted)
AllEnd == \A g \in 1..2 : <>[](~Paused(g)) => (Started(g) ~> (Over(g) \/ Stranded(g)))

(* "If it's a symlink, and we're in a globstar, then stop": below a link   *)
(* that a "**" came by, nothing is found for that "**".                    *)
LinksStop == \A g \in Globs : ~o(g).follow => \A k \in DOMAIN self[g].matches :
    LET pattern == self[g].minimatch.set[k]
        linkAt(p, n) == lstat(search.files, makeAbs(SubSeq(p, 1, n))).kind = "link"
    IN  remain(pattern) = <<GLOBSTAR>> => \A p \in self[g].matches[k] :
          \A n \in Len(prefix(pattern)) + 1..Len(p) - 1 : ~linkAt(p, n)
=============================================================================
