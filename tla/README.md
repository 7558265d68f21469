# A formal model of monero-python

monero-python binds the C++ library monero-cpp to Python with pybind11. The
library itself (wallets, daemon clients, cryptography, networking) is a
submodule and not part of the tree; what the repository adds is the border
between the two worlds, and a test harness that drives wallets and daemons that
others use at the same time. That is what these modules model: who holds the
interpreter's lock while calls and callbacks cross the border, what becomes of
an error on its way, how the setters of the data model keep links between
objects together, how the harness waits for a daemon it shares, and how it
hands out wallet servers.

By size most of the repository's own files are documentation, and the largest
program among those is `lunr/wordcut.js`, a bundle that the search of the
documentation loads to cut Thai text into words. It is vendored: a bundle of
the npm package wordcut with what that requires, among it glob and minimatch.
Only the cutting is reached by the search. In the bundle `fs` is an empty
module (`wordcut.js:1244`), so that glob, which would look for dictionary files,
is library code that is there and does not run in the browser; it is modelled
because it is the one piece of concurrent code in the bundle, with its `fs`
marked external.

Paths below are relative to the root of the repository.

## The system

| component | state it keeps | operations | what is hard | model |
|---|---|---|---|---|
| Border: call guards and trampolines (`src/cpp/wallet`, `src/cpp/daemon`, `src/cpp/common`) | the GIL; the nesting of calls of each thread; the background sync thread | some 230 guarded bindings, the unguarded `send_*_request` and listener methods, `PYBIND11_OVERRIDE` trampolines, `add_listener`, `start_syncing`, `close` | threads; callbacks under foreign locks; waiting for a thread that waits for the GIL | `GilBridge`, `PythonMutex` |
| Error translation (`py_monero_types.h`, `py_monero_common_bindings.cpp`) | the error in flight | four kinds of catch clauses, the module's translator, pybind11's own | errors that cross several borders; codes that get lost | `ErrorBridge` |
| Query data model (`py_monero_utils.h`, `py_monero_wallet_bindings.cpp`) | back pointers of queries, slots of tx queries | five setters on two sides | two fields of two objects that must agree | `QueryLinks`, `LinkedPairs` |
| Transaction tracker (`tests/utils/wallet_tx_tracker.py`) | hashes waited for, whether mining was started | sync, query, flush, start and stop of the miner, wait | other clients act between any two requests | `PoolTracker` |
| RPC wallet slots (`tests/utils/docker_wallet_rpc_manager.py`) | slot -> wallet | open, create, free, clear | a request fails after others succeeded, or after it had its effect; servers restart; tests close wallets behind the manager's back | `WalletSlots`, `Leases` |
| Word segmentation (wordcut, `docs/mkdocs/public/assets/javascripts/lunr/wordcut.js`) | acceptors, path, left boundary | add words, cut | five kinds of acceptors at once; merges that move ranges already made | `WordCut` |
| Glob (same file) | caches, matches, pending steps, requests in flight | search, pause, resume, abort | answers in any order; requests shared between searches; what is queued when the end comes | `Glob`, `GlobSync`, `GlobCommon`, `Files` |
| Minimatch and brace expansion (same file) | none | expand, parse, match | recursion on patterns and on braces | `Minimatch`, `Braces` |
| Listeners (`py_monero_wallet.h`, `tests/utils/*collector.py`, `sync_progress_tester.py`) | registered listeners, notifications seen | register, notify, collect | object lifetime across the border; order | planned |
| JSON conversion, order of transactions (`py_monero_common.cpp`, `py_monero_utils.cpp`) | none | conversions, a sort by a list of hashes | numbers at a boundary, duplicates | planned, as operators |
| Forwarding, RPC connection object | connection settings | bindings and trampolines that pass arguments on | arguments that get dropped | planned |
| Plain data model, utility functions, stubs, docs, packaging, node shims, `tinyseg.js` | none of their own | | | not modelled |

The components meet at the border. Python calls a binding; its body runs in the
library; the library calls a virtual method, and the trampoline finds the Python
override; the override may call bindings again. Errors travel the same way back.
The harness sits on top: its listeners are the overrides, and its tracker is a
client of wallets and a daemon.

What each component owes its users:

* the border: Python code and everything that touches Python objects runs under
  the GIL and nothing else does; no call waits under the GIL for a thread that
  needs it; everybody gets in; `close` and the listener calls return;
* errors: an RPC error keeps class and code, no code is made up, what a caller
  has to handle is a small, known set of classes;
* query links: both ends agree, at all times between two calls;
* the tracker: when the wait is over the pool is clear of what was waited for,
  the wallets know it, the miner is as it was found, and the wait does end;
* the slots: a wallet in use is not exchanged under its client, slots and servers
  agree as far as requests succeed, and `clear` recovers what failures left;
* word cutting: the pieces are the text, the dictionary is searched exactly, the
  cut has as few unknown parts and as few words as there can be, and it ends;
* glob: what a search finds does not depend on the order of answers, on other
  searches or on pauses; it is what the pattern matches; each search ends once
  (two exceptions, with shared requests, are below).

## Modules

`GilBridge` - one action per way to cross the border. A thread is a stack of
frames: `"python"`, the body of a guarded binding (`Guarded`), the parts of an
unguarded one (`Exchange`, `Direct`), the library's loop. `Call` is entry into a
binding declared with `call_guard<gil_scoped_release>` and `Return` the guard's
destructor; `CallHeld`, `Sent`, `Received`, `ReturnHeld` are `send_*_request`
(with its conversion of parameters by `json.dumps` and of the answer by
`ptree_to_pyobject`) and a listener's `on_*` method when Python calls it
directly; `CallBack` and `ReturnBack` are the trampolines. The bindings are all
alike, a guard around a macro, so that one frame kind stands for hundreds of
them; the ones that wait for other threads (listener calls, `close`) have frames
of their own. `Acquire` and `Yield` are the interpreter. The library's part
(`Done`, `ListenersDone`, `LoopExit`, `Joined`) is external: the loop runs while
`syncing`, `close` stops it and joins it. Whether the library holds its listener
lock while it notifies is not visible in the tree; `ListenersLocked` leaves it
open, and the liveness run takes the harder answer.

`PythonMutex` - the abstract specification of the border: one critical section
with blocking entry. `GilBridge!ImplementsPythonMutex` is the refinement: inside
is the thread that executes under the GIL, wanting are the blocked threads.

`ErrorBridge` - one thread, a stack of Python frames and bindings, at most one
error in flight. `Clause` is the catch clause of a binding: `MONERO_CATCH_AND_RETHROW`
(`"rethrowing"`), none (`"plain"`: `send_*`, `get_tx`), every error made a
`monero_error` (`"collapsing"`: `get_attribute`, `create_wallet` of full wallets),
every error made a result (`"swallowing"`: `verify_message`). `Translate` is what
pybind11 does with what leaves a binding. An error carries what it was and what
it crossed, as a record for the properties. A code may be the default one, -1
(`NoCode`), as that of an RPC answer: `MCErrorBridge` gives the codes of the run.

`QueryLinks` - the two fields of every link as two functions. `SetChild` is
`PyMoneroUtils::set_query` behind the three setters of a tx query, `SetTxQuery`
the setter of a transfer query and `set_tx_query` of an output query. `Next` is
any call that Python can make, `CarefulNext` the calls that bring in queries that
are free: what the code handles. Under `Next` two more things go wrong than the
violation run shows: a query taken from another tx query stays in its old slot,
and a query set over another one leaves that one's back pointer; no test or doc
says otherwise.

`LinkedPairs` - the abstract specification of the links: one relation.

`PoolTracker` - `_wait_for_txs_to_clear`, one step per request, `pc` naming the
request to come. The daemon and its other clients (`Mine`, `Relay`, `Fail`,
`OtherStarts`, `OtherStops`) act between any two. `MCPoolTracker` gives the
wallets of the runs.

`WalletSlots` - `DockerWalletRpcManager`, one step per request. `SetupBegin` to
`StartSyncing` are `setup_wallet`, `Free` is `free_slot`, `ClearBegin` to
`ClearEnd` are `clear`; `SetupRaises`, `ClearRaises` and an alternative of `Free`
are requests that fail, before or after the server acted. Tests close and reopen
wallets themselves (`TestCloses`, `TestReopens`, as `_close_wallet` and
`test_close` of `test_monero_wallet_rpc.py` do), servers lose their wallet when they restart
(`ServerRestarts`), until `Recover`, after which requests succeed: what is
eventually true is only asked from there on. `failed` is a history: the slots in
which a failed call, or a test, may have left a wallet open.

`Leases` - the abstract specification of the slots: servers with one holder each.

`WordCut` - one cut per behaviour after another. `ReadChar` is one round of
`buildPath`, with `transit` of all acceptors, `selectPath`, `fallback` and the
marks that merging parts leave; `CutBack` is one round of `pathToRanges`. The
acceptors are records; those of the dictionary hold an interval of the
sorted word list, as `dictSeek` finds it by binary search. `MCWordCut` gives alphabets and
words. Texts are chosen character by character, so that one run is about every
text over the alphabet.

`Braces`, `Minimatch` - `braceExpand` with the numbers and letters of a range
(several digits, signs, zeros in front, steps that overshoot their end), `parse` into sets of parts, `matchOne` with its walk over `**`.

`Files` - the part of `fs` and `path` that glob uses, external: a file system is a
function from paths to directories, files, links and directories that may not be
read.

`GlobCommon` - options, ignoring, the emission of a match and the final result,
which both forms of glob share. `GlobSync` - the synchronous form: each function
of the code is an operator from the state of the object to the next one.

`Glob` - the asynchronous form for up to two searches at once. A callback of
JavaScript runs to its end: `stack` is what it has still to call, each element a
function of the code with its arguments, and `JavaScript` makes the next call.
`Answers` lets `fs` answer any of the pending requests, `Tick` runs what
`process.nextTick` has queued, the callers start, pause, resume and abort.
`reqs` is `inflight`: the callbacks that wait for one request.

`GlobFound` - what both forms find, against each other and against what the
patterns match. It is a module of its own because `GlobSync` recurs with
`RECURSIVE` operators, which a module with proofs cannot reach; `Glob` and what it
uses recur with recursive functions and folds. `MCGlob` gives small trees and
patterns, and texts with braces.

The modules `GilBridgeProof`, `QueryLinksProof`, `ErrorBridgeProof`,
`PoolTrackerProof`, `WalletSlotsProof`, `WordCutProof` and `GlobProof` hold the
theorems about the modules they are named after, `GlobCacheProof` the one about
the cache of `Glob`.

Each module also defines faulty variants of its operations, named and commented
where they stand: for every property there is one that it must reject.

## Runs

| run | what it checks | states | instance |
|---|---|---|---|
| `gil_safety` | types, `PythonUnderGil`, `NativeWithoutGil`, `ImplementsPythonMutex` | 27,232 | 2 Python threads and the background thread, 4 frames each |
| `gil_liveness` | `EveryThreadGetsIn`, `CloseReturns`, `ListenerCallsReturn` | 820 | 1 Python thread and the background thread, 4 frames each, listener lock held while notifying |
| `query_links` | types, `Mutual`, `ImplementsLinkedPairs` | 147 | 2 tx, 2 transfer, 2 output queries |
| `query_links_reassign` | `ChildSideLinks` fails | | 2 tx, 1 transfer, 2 output queries |
| `error_bridge` | types, `CodesAreReal`, `RpcErrorsArrive`, `PlainLetsThrough`, `TwoKindsOfErrors` | 3,744 | 2 codes, one of them the default, 7 frames |
| `error_class` | `MoneroErrorsAreCaught` fails | | 1 code, 2 frames |
| `pool_tracker` | types, `PoolCleared`, `WalletsCatchUp`, `RaisesOnlyDisturbed`, `WaitEnds` | 655,452 | 2 wallets, 2 own transactions (one of them shared) and 1 foreign |
| `pool_tracker_stop` | `LeavesOthersMining` fails | | 1 wallet, 1 transaction |
| `wallet_slots` | types, `OwnWallet`, `SlotsMatchServers`, `ClearEmpties`, `Recovers`, `ImplementsLeases` | 25,932 | 2 slots, 3 clients |
| `word_cut` | types, `Tiles`, `DictExact`, `FewestWords`, `CutEnds` | 124,826 | texts of up to 5 characters over 3 alphabets, 2 dictionaries |
| `glob` | types, `Accounting`, `OneHolder`, `CacheTrue`, `FoundAll`, `SyncMatches`, `BracesRight`, `NothingAfterAbort`, `AllEnd` | 83,236 | 25 instances of one or two searches, 1 pause each |
| `glob_links` | `LinksStop` fails | | 2 searches, 1 link |

Bounds, and why they are enough:

* `GilBridge!MaxDepth` = 4: a binding, an override in it, a binding in that, and
  an override in that again; everything deeper repeats a pattern of two frames,
  and the safety properties are proved for any depth. Two Python threads and the
  background thread are two that compete with a third. The liveness run has one
  Python thread and the background thread: the waits in question (for the GIL in
  a trampoline, for the listener lock, for the end of the loop) are between two.
* `ErrorBridge!MaxDepth` = 7: three bindings and the overrides between them, in
  all combinations of clauses; two codes tell a code that is kept from one that
  is mixed up, and one of them is the default, which an RPC answer may carry too.
* two queries of each kind: one that moves and one that is in its way.
* two wallets that share a transaction: one is asked before the other, and a
  transaction may be seen by one only. `MaxEmpty` = 1: an empty block can be
  found between any two requests; blocks with transactions are bounded by those.

* `WalletSlots`: two slots are one that is left and one that is taken next, or the
  last; three clients are one more than slots. All constants are free in the proofs.
* `WordCut!MaxLen` = 5: one more than the longest word, or the five that the long
  Thai rule needs; a text of five can hold a word, the overlap with another one,
  and a part before and after it. The dictionary has words that begin others, a
  duplicate, a word too short to be kept, and words of an application that cut
  runs of letters. The alphabets are small because the model tells characters
  apart by class and by what the rules name; `Tiles` is proved for all texts.
* `glob`: trees of three levels are what `**` needs to pass over none, one and
  several directories; a link to a directory is what it must not follow, a link to
  nothing what `stat` fails at after `lstat`; two searches give one request with
  two callbacks. One pause per search: what is queued and what is postponed is
  emptied by each resume.

The pool tracker and glob runs do not check for deadlock: the wait is over in
the end, and so are searches. No other run may stop.

## Fairness

`GilBridge`: the interpreter makes a running thread give way when another asks
(CPython's drop request), strongly fair because a thread goes in and out of
Python; it does not pass over a waiting thread for ever (`SF` on `Acquire`);
what the library does in a body ends, overrides end at each depth, network
exchanges end with their timeout, the background loop looks at its flag again
and again. Nothing makes Python call a binding or a wallet notify. The strong
fairness of `Done` and `ListenersDone` says that `sync` does not notify for ever
and that a lock free again and again is taken some time.

`PoolTracker`: the tracker's next request is made, and a daemon that mines finds
a block. Nothing is assumed of the other clients; `WaitEnds` is about runs in
which nobody stops the miner and it can be started, because the code looks at the
miner in its first round only (`wallet_tx_tracker.py:114-124`).

`WalletSlots`: calls of the manager return, and the tests' `after_each` calls
`clear` again and again (strongly fair: between two of its calls other calls may
run). Nothing makes requests succeed; `Recovers` is about what happens once they do.

`WordCut`: a text has an end, and the loop over its ranges goes on.

`Glob`: JavaScript goes on, `nextTick` runs, and every request of `fs` is answered
some time. Nobody has to start, resume or abort a search: `AllEnd` is about
searches that are not left paused, and lets one wait for ever only for a request
of a search that was aborted or failed.

## What is proved

All proofs are machine-checked and hold for every value of the constants that
satisfies the named assumptions (below).

* `GilBridgeProof`: `TypeCorrect`, `GilSafety` (`PythonUnderGil`) and
  `NativeWithoutLock` (`NativeWithoutGil`).
  None of them is inductive: that a thread which returns from an override may
  free the GIL depends on what lies below the frame, and that a thread may go on
  without the GIL on nobody else relying on it. `IInv` adds that stacks nest as
  the bindings allow (`WellNested`), and that the holder of the GIL is exactly the
  thread inside. Lemmas on stacks (`PushNests`, `PopNests`, `GotoNests`,
  `OneThreadMoves`) reduce each action to what it does to its own thread; there is
  one lemma per kind of action, and `NextInvariant` puts them together.
* `GilBridgeProof!Refinement`: `ImplementsPythonMutex`, from `IInv` and the fact
  that the holder of the GIL is the one thread inside.
* `QueryLinksProof!TypeCorrect` and `MutualLinks` (`Mutual`): together they are
  inductive under careful calls.
* `QueryLinksProof!Refinement`: `ImplementsLinkedPairs`, one lemma per setter.

* `ErrorBridgeProof`: `TypeCorrect`, `NoCodeInvented`, `LetsThrough`, `RpcErrors`
  and `RethrownKinds`, for any codes and any nesting. What an error is after some
  crossings follows from where it is and what it crossed: `IInv` adds that bindings
  and Python frames lie in turn (`InTurn`), and of an RPC error that, once it has
  crossed anything, it is what `RpcErrorsArrive` says it is when it gets to Python,
  and when it is in a binding it has come out of an override (`OnItsWay`). The
  lemma `Unwound` says what one binding makes of any error, `LosesMore` what one
  more crossing adds to the ways of losing it.
* `PoolTrackerProof`: `TypeCorrect`, `Cleared` (`PoolCleared`), `CatchUp`
  (`WalletsCatchUp`) and `Raises` (`RaisesOnlyDisturbed`), for any transactions and
  wallets, whoever they share them with. `IInv` says of the wallets a round has
  asked (`Asked`) that what was awaited of them is among the hashes or gone
  (`Looked`); gone is for good (`Moves`), which is what makes asking one wallet
  after the other right. `CaughtUp` is the same for the last loop, `Miner` says
  that a miner which the tracker has started runs unless others stopped it.
* `WalletSlotsProof`: `TypeCorrect`, `OwnWallets` (`OwnWallet`), `SlotsMatch`
  (`SlotsMatchServers`), `ClearCloseAll` (`ClearEmpties`) and `Refinement`
  (`ImplementsLeases`), for any slots and clients. `IInv` says that the slot being
  set up is free and its client connected to it (`SetupInv`), that what `clear`
  has left behind is closed (`ClearInv`), and where an open wallet without a slot
  can come from (`LeftOpen`). That `first_free_slot` is free whenever
  `no_slot_left` says so is arithmetic of cardinalities (`FirstFreeSlot`).
* `WordCutProof`: `TypeCorrect` and `PiecesTile` (`Tiles`), for any dictionary,
  alphabet and length. The types say that each entry of the path leads to a
  shorter prefix, which makes the ranges come in order; that a merge goes back
  further and still before the range it joins (`MergedBefore`, `BuildInfos`) makes
  them tile. Cutting ends because each range begins before it ends, which is the
  invariant's; that it does so for ever is left to TLC.
* `WordCutProof`, too: `DictExactAlways` (`DictExact`) and `FewestWordsAlways`
  (`FewestWords`), for any files of words, any characters and texts of any length.
  A recursive function is one that solves its equation, if there is one;
  `TailRecursion` shows that a tail recursion whose rank decreases has exactly one
  solution, from the fact that a set of numbers has a least one. With it
  `SeekFinds` shows what the binary search of `dictSeek` returns for any list that
  is in order, `SortUniq` and `InitDict` that the list is in order and what it
  holds. `DictInv` then says what the interval of each acceptor is: the words that
  begin with what it has read. For `FewestWords`, `RuleInv` says
  what the acceptors of the rules have read (Latin letters, spaces, symbols, the long
  Thai rule), `KnownInv` that some acceptor is final just when the piece it has
  read is known, and `BestInv` that each prefix has an entry that no other way to
  cut it beats: a way to cut a longer prefix ends in a piece of which an acceptor knows.
* `GlobProof`: `TypeOKAlways` (`TypeOK`), `OneHolderAlways` (`OneHolder`),
  `NothingAfterAbortAlways` (`NothingAfterAbort`), `CountsRight`, `EndsRight` and
  `AccountingAlways` (`Accounting`), for any number of searches over any files with
  any patterns. The properties speak of the states in which nothing runs; what is
  inductive holds between any two calls. `Debts` says what a function owes: a step
  of its search, for which `done()` will be called, or the answer to a request. Debtors
  are counted on the stack, among the callbacks of requests (but for those that the
  request is answered to just now, `Answered`), the calls of `fs` and the queue of
  ticks. `CountInv` says that `_processing` is the number of debts to the search
  with those put aside by a pause (`StepLaw`; after an abort, at least as many), and
  that one debtor owes the answer to a request in flight (`KeyLaw`; after an abort,
  at most one). Each action moves debts or pays one and counts it, which is
  arithmetic of cardinalities (`InReturn`, `InCat` and the lemmas on bags and on
  requests). That a search ends once needs to know why `_processing` is not 0 before
  that: `OnceInv` says that a search that has not ended counts something or is
  still to call `_process` (`Coming`), and that a call of `_process` lies above a
  step of the same search (`Normal`), so that no `done` comes down to 0 over it;
  while the constructor calls `_process` for the alternatives (`Starting`) nothing
  lies below them, but the first of them asks `fs` and is not answered before the
  constructor returns. This is where `hasty` comes from: if the first is ignored,
  it does not ask.
* `GlobCacheProof`: `CacheTrueAlways` (`CacheTrue`), for any number of searches
  over any files whose links lead somewhere. What a callback writes into a cache is
  true if it is called with what `fs` says of the path it is about, but between the
  answer and the callback lie requests that several searches share, `cleanup` in the
  next tick, and what a pause puts aside. `CacheInv` says of each function still to
  be called, on the stack, among the ticks and put aside, that its path is a path
  and its argument the answer for it (`Fine`), of those who wait that they asked
  about the path they will be told of (`Takes`, `Gets`), and of the caches what
  `CacheTrue` says. TLC has checked it on the instance of the `glob` run. The steps
  rest on lemmas about folds (a fold is the solution of a recursion over a finite set,
  `Folding`), about paths (`ResolvePath`: what `resolve` returns is a path), patterns
  (the work that `_process`, `_processGlobStar` and `_processReaddir` hand on is made
  of parts) and the answers of `fs` (`Stats`). `LinksLead` is the hypothesis
  that following links ends: the model says nothing about what a circle of
  links leads to. `StraightLinksLead` shows that it holds whenever no
  link lies on the way to where a link leads, as in the trees of `MCGlob`: their
  links lead to a directory without links and to nothing.

The assumptions on constants: `ThreadsAssumption`, `DepthAssumption`,
`LockAssumption`, `QueriesAssumption` and their like give the constants their
kinds. `PatternsAssumption` says that the brace expansion of each pattern is a
sequence of strings and the alternatives made of it are sequences of parts,
`FilesAssumption` that a file system is a finite set of paths, `CwdAssumption` that
the working directory is a path. TLC evaluates all of them in the runs. Of the
theorems about the runs' properties only `CacheTrueAlways` has a hypothesis
besides, `LinksLead`.

Only model-checked:

* all liveness properties (`EveryThreadGetsIn`, `CloseReturns`,
  `ListenerCallsReturn`, `WaitEnds`, `Recovers`, `CutEnds`, `AllEnd`): the prover
  has no rules for fairness;
* `FoundAll` and `SyncMatches`: the synchronous form is a recursion over patterns
  and directories at once, with the caches threaded through it, and `matchOne` one
  over two positions: what they compute for every input is an induction over data;
* `BracesRight`: an induction over texts, which are atoms to the prover.

## What the violations show

* `query_links_reassign`: telling a transfer or output query its own tx query
  again removes it from that tx query (`py_monero_wallet_bindings.cpp:216`, `:266`).
* `error_class`: `monero_error` arrives as `RuntimeError`, not `MoneroError`
  (`py_monero_common_bindings.cpp:166-185`), which the stubs promise.
* `pool_tracker_stop`: the tracker switches off a miner that it did not start
  (`wallet_tx_tracker.py:134`).
* `glob_links`: of two searches for `**` that come by the same link at the same
  time, the second is answered from the first one's request and does not note that
  it was a link: it goes on below it (`wordcut.js:2429`).

Met while modelling, and not counted as disagreements, because no doc or test says
otherwise:

* `WordCut`: after a known part the left boundary is set to the place before that
  part's last character, not behind it, so that an unknown sign takes this
  character with it: "ab!" is cut into "a" and "b!". `addFiles` does not look at its second argument,
  and a path of an array is appended to a copy that is dropped.
* `Glob`: a dangling link is found by `**/**` or not, depending on the order of the
  answers; the runs leave that pattern out. A search whose last alternative is done
  in the constructor emits "end" before its caller can listen. Matches queued while
  a search is paused are emitted after "end" when it is resumed then (`late` in
  `FoundAll`). When the
  first of several alternatives is ignored (`{a,b}/*` with `a/**` ignored), `done()`
  brings `_processing` to 0 before the constructor has called `_process` for the
  others: the callback gets what is found until then, and "end" is emitted again
  when the others are done (`wordcut.js:1965-1974`, `:2146-2148`; `hasty`). A
  pattern that stands for nothing (`{,}`) counts down to -1 (`:1962-1963`). A search
  that is aborted, or fails, strands the others that wait for its requests
  (`Stranded` in `AllEnd`; two instances of the run get there, one by an abort and
  one by a directory that may not be read);
  an error of a shared request is reported to one of them, the one that made it.
  A directory that may not be read is found by `{locked/*,locked}` or not, when
  errors are not strict, depending on which of the two comes first.
* `Braces`: `{a}{1..2}` is not expanded; a step of 0 would never end and is
  left out, as are ranges from a capital to a small letter or back. `Minimatch`: `childrenIgnored` prunes hidden children of an ignored
  directory that `isIgnored` by itself would keep.

## What is not modelled

monero-cpp: not in the tree. What the bindings need of it is external in the
modules. The data carried by calls: the border and the errors do not depend on
it. Data-model attributes, utility functions: one field or one library call
each. `PyMoneroDaemon` in `py_monero_daemon.h`: the binding of the class does not
use it, so that a Python subclass of the daemon is never called back. The short
acquisition of the GIL when an exception of an override is read inside a guarded
body. Stubs, docs, packaging: nothing that runs.

Of the bundle: glob's options mark, nodir, stat, realpath, nounique, nosort and
nomount and absolute patterns; minimatch's negation, comments, character classes
and extended globs; the shims of assert, events, util and underscore, and path
beyond what glob uses. In `WordCut`, the count `mw`, which is always 0, and the
separator that `cut` joins with. `tinyseg.js`: one pure function that
adds up weights from tables; any cut is right that the tables give.

## Plan

In this order, each with its runs, its faulty variants and, where it is worth
it, a proof:

1. `Listeners` - the registry of raw pointers, Python's references, and the
   background thread's notifications: lifetime, and what the collectors assert of
   the order. Composes with `GilBridge`'s view of the background thread.
2. `TxOrder` and `JsonValues` - `sort_txs_wallet`, `convert_value` and
   `ptree_to_pyobject` as operators against reference definitions, with lemmas.
3. `Forwarding` - bindings and trampolines that pass arguments on; the RPC
   connection's setters and status.
4. `PoolTracker` extended by `wait_for_unlocked_balance` and the mining utilities;
   `GilBridge` by the GIL taken to read and destroy an override's exception.
5. `Glob` with the options left out, and with an abort that hands its requests on,
   as a proposal to hold against the code.
6. Proofs: the invariants of 1; in `GilBridge`, that the wait for the loop's end is
   free of cycles.
