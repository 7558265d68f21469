----------------------------- MODULE PoolTracker -----------------------------
(***************************************************************************)
(* WalletTxTracker._wait_for_txs_to_clear: the tests wait until the        *)
(* transactions of their wallets have left the transaction pool.           *)
(*                                                                         *)
(* The tracker polls wallets and a daemon it shares with other clients:    *)
(* they relay transactions and start and stop the daemon's miner between   *)
(* any two of its requests.  Each request is one step.                     *)
(***************************************************************************)
EXTENDS Naturals, Sequences

CONSTANTS Txs,        \* the transactions of all
          TxsOf,      \* the wallets to clear, in order: the transactions of each
          MaxEmpty    \* BOUND on the height up to which empty blocks are mined

ASSUME InputsAssumption == /\ TxsOf \in Seq(SUBSET Txs) \ {<<>>}
                           /\ MaxEmpty \in Nat

Wallets == 1..Len(TxsOf)
Own     == UNION {TxsOf[w] : w \in Wallets}

VARIABLES tx,          \* where a transaction is: see Places
          mining,      \* who started the daemon's miner, "nobody" when it is off
          height,      \* of the daemon's chain
          seen,        \* seen[w]: the height that wallet w has synced to
          pc,          \* the tracker's next request
          i,           \* the wallet that the current for loop is at
          hashes,      \* tx_hashes_wallet
          is_first, mining_started, clear_from_wallet,
          \* history: own transactions in the pool at the start, the height at
          \* which the loop was left, and whether others stopped a miner or the
          \* daemon refused to start one
          awaited, cleared, disturbed

daemon  == <<tx, mining, height>>
tracker == <<pc, i, hashes, is_first, mining_started>>
record  == <<clear_from_wallet, awaited, cleared, disturbed>>
vars    == <<daemon, seen, tracker, record>>

\* A transaction in the pool may come to contradict the chain: "failed".
Places   == {"new", "pool", "failed", "mined", "flushed"}
InPool   == {t \in Txs : tx[t] = "pool"}
\* flush_tx_pool of the failed transactions among T.
Flush(T) == tx' = [t \in Txs |-> IF t \in T /\ tx[t] = "failed" THEN "flushed" ELSE tx[t]]
AfterLoop == {"stop again", "compare", "sync", "done"}
Requests == {"collect", "get txs", "choose", "status", "start", "sleep", "stop", "raised"} \cup AfterLoop

\* The for loop goes on with the next wallet, or is left.
NextWallet(again, after) == IF i < Len(TxsOf) THEN pc' = again /\ i' = i + 1
                                              ELSE pc' = after /\ i' = 1

Init == /\ tx \in [Txs -> {"new", "pool"}]
        /\ mining \in {"nobody", "other"}
        /\ height = 0
        /\ seen = [w \in Wallets |-> 0]
        /\ pc = "collect" /\ i = 1 /\ hashes = {}
        /\ is_first = TRUE /\ mining_started = FALSE
        /\ clear_from_wallet \in BOOLEAN
        /\ awaited = InPool \cap Own /\ cleared = 0 /\ disturbed = FALSE

-----------------------------------------------------------------------------
(***************************************************************************)
(* The daemon and its other clients.                                       *)
(***************************************************************************)
Mine == /\ mining # "nobody"
        /\ InPool # {} \/ height < MaxEmpty
        /\ height' = height + 1
        /\ tx' = [t \in Txs |-> IF t \in InPool THEN "mined" ELSE tx[t]]
        /\ UNCHANGED <<mining, seen, tracker, record>>

Relay == /\ \E t \in Txs : tx[t] = "new" /\ tx' = [tx EXCEPT ![t] = "pool"]
         /\ UNCHANGED <<mining, height, seen, tracker, record>>

Fail == /\ \E t \in InPool : tx' = [tx EXCEPT ![t] = "failed"]
        /\ UNCHANGED <<mining, height, seen, tracker, record>>

OtherStarts == /\ mining = "nobody" /\ mining' = "other"
               /\ UNCHANGED <<tx, height, seen, tracker, record>>

OtherStops == /\ mining # "nobody" /\ mining' = "nobody"
              /\ disturbed' = TRUE
              /\ UNCHANGED <<tx, height, seen, tracker, clear_from_wallet, awaited, cleared>>

-----------------------------------------------------------------------------
(***************************************************************************)
(* Faulty variants of the tracker's steps, for the checks that the         *)
(* properties tell them from the real ones.                                *)
(***************************************************************************)
\* What failed is left in the pool.
GetTxsOnly == /\ pc = "get txs"
              /\ hashes' = hashes \cup (InPool \cap TxsOf[i])
              /\ NextWallet("collect", "choose")
              /\ UNCHANGED <<daemon, seen, is_first, mining_started, record>>

\* The loop always ends with stop_mining.
ChooseToStop == /\ pc = "choose"
                /\ LET pending == IF clear_from_wallet THEN hashes ELSE hashes \cap InPool
                   IN  pc' = IF pending = {} THEN "stop"
                             ELSE IF is_first THEN "status" ELSE "sleep"
                /\ UNCHANGED <<daemon, seen, i, hashes, is_first, mining_started, record>>

\* Each round is the first.
StatusAgain == /\ pc = "status"
               /\ pc' = IF mining = "nobody" THEN "start" ELSE "sleep"
               /\ UNCHANGED <<daemon, seen, i, hashes, is_first, mining_started, record>>

\* The hashes of earlier rounds are kept.
SleepOnly == /\ pc = "sleep"
             /\ pc' = "collect"
             /\ UNCHANGED <<daemon, seen, i, hashes, is_first, mining_started, record>>

\* One wallet in time is enough.
CompareOne == /\ pc = "compare"
              /\ pc' = IF seen[i] < height THEN "sync" ELSE "done"
              /\ UNCHANGED <<daemon, seen, i, hashes, is_first, mining_started, record>>

(***************************************************************************)
(* The tracker.                                                            *)
(***************************************************************************)
\* wallet.sync()
Collect == /\ pc = "collect"
           /\ seen' = [seen EXCEPT ![i] = height]
           /\ pc' = "get txs"
           /\ UNCHANGED <<daemon, i, hashes, is_first, mining_started, record>>

\* wallet.get_txs(in_tx_pool), which asks the daemon; what failed is flushed
\* (nothing else happens to it in between).
GetTxs == /\ pc = "get txs"
          /\ hashes' = hashes \cup (InPool \cap TxsOf[i])
          /\ Flush(TxsOf[i])
          /\ NextWallet("collect", "choose")
          /\ UNCHANGED <<mining, height, seen, is_first, mining_started, record>>

\* get_tx_pool(), unless the wallets' own view is what counts.
Choose == /\ pc = "choose"
          /\ LET pending == IF clear_from_wallet THEN hashes ELSE hashes \cap InPool
             IN  /\ pc' = IF pending = {} THEN IF mining_started THEN "stop" ELSE "stop again"
                                          ELSE IF is_first THEN "status" ELSE "sleep"
                 /\ cleared' = IF pending = {} THEN height ELSE cleared
          /\ Flush(IF clear_from_wallet THEN {} ELSE Txs)
          /\ UNCHANGED <<mining, height, seen, i, hashes, is_first, mining_started,
                         clear_from_wallet, awaited, disturbed>>

Status == /\ pc = "status"
          /\ is_first' = FALSE
          /\ pc' = IF mining = "nobody" THEN "start" ELSE "sleep"
          /\ UNCHANGED <<daemon, seen, i, hashes, mining_started, record>>

Start == /\ pc = "start" /\ mining = "nobody"
         /\ mining' = "tracker" /\ mining_started' = TRUE
         /\ pc' = "sleep"
         /\ UNCHANGED <<tx, height, seen, i, hashes, is_first, record>>

\* It raises, for one when somebody started the miner since: "no problem".
StartRaises == /\ pc = "start"
               /\ pc' = "sleep"
               /\ disturbed' = (disturbed \/ mining = "nobody")
               /\ UNCHANGED <<daemon, seen, i, hashes, is_first, mining_started,
                              clear_from_wallet, awaited, cleared>>

Sleep == /\ pc = "sleep"
         /\ pc' = "collect" /\ hashes' = {}
         /\ UNCHANGED <<daemon, seen, i, is_first, mining_started, record>>

\* stop_mining in the loop: it raises when the miner is off.
Stop == /\ pc = "stop"
        /\ mining' = "nobody"
        /\ pc' = IF mining = "nobody" THEN "raised" ELSE "stop again"
        /\ UNCHANGED <<tx, height, seen, i, hashes, is_first, mining_started, record>>

\* stop_mining after the loop, whose error is only logged.
StopAgain == /\ pc = "stop again"
             /\ mining' = "nobody"
             /\ pc' = "compare"
             /\ UNCHANGED <<tx, height, seen, i, hashes, is_first, mining_started, record>>

\* while wallet.get_height() < daemon.get_height(): wallet.sync()
Compare == /\ pc = "compare"
           /\ IF seen[i] < height THEN pc' = "sync" /\ UNCHANGED i
                                 ELSE NextWallet("compare", "done")
           /\ UNCHANGED <<daemon, seen, hashes, is_first, mining_started, record>>

Sync == /\ pc = "sync"
        /\ seen' = [seen EXCEPT ![i] = height]
        /\ pc' = "compare"
        /\ UNCHANGED <<daemon, i, hashes, is_first, mining_started, record>>

-----------------------------------------------------------------------------
Step == \/ Collect \/ GetTxs \/ Choose
        \/ Status \/ Start \/ StartRaises \/ Sleep
        \/ Stop \/ StopAgain \/ Compare \/ Sync

Next == Mine \/ Relay \/ Fail \/ OtherStarts \/ OtherStops \/ Step

\* The test goes on; a daemon that mines finds a block.
Spec == Init /\ [][Next]_vars /\ WF_vars(Step) /\ WF_vars(Mine)

-----------------------------------------------------------------------------
(* Every variable keeps its type; a miner is started at most once.         *)
TypeOK == /\ tx \in [Txs -> Places]
          /\ mining \in {"nobody", "other", "tracker"}
          /\ height \in Nat
          /\ seen \in [Wallets -> 0..height]
          /\ pc \in Requests /\ i \in Wallets /\ hashes \subseteq Own
          /\ {is_first, mining_started, clear_from_wallet, disturbed} \subseteq BOOLEAN
          /\ awaited \subseteq Own /\ cleared \in 0..height
          /\ mining_started => ~is_first

(* When the loop is left, everything of the account that was in the pool   *)
(* when the wait began has been mined or flushed: also what failed after   *)
(* the wallets were asked about it.                                        *)
PoolCleared == pc \in AfterLoop \cup {"stop", "raised"} =>
                   \A t \in awaited : tx[t] \in {"mined", "flushed"}

(* When the wait returns, every wallet has seen the blocks that cleared    *)
(* the pool, also those mined after the wallet was asked the last time.    *)
WalletsCatchUp == pc = "done" => \A w \in Wallets : seen[w] >= cleared

(* The wait does not fail over stop_mining unless others interfered.       *)
RaisesOnlyDisturbed == pc = "raised" => disturbed

(* The wait ends, unless others stop the miner or it cannot be started.    *)
WaitEnds == [](~disturbed) => <>(pc = "done")

(* "stop mining if started mining": a miner that the tracker found running *)
(* still runs when the wait returns.                                       *)
LeavesOthersMining ==
    [][Step /\ mining = "other" => mining' = "other"]_vars
=============================================================================
