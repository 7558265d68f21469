--------------------------- MODULE PoolTrackerProof ---------------------------
(***************************************************************************)
(* Proofs about PoolTracker, for any transactions and wallets, and any     *)
(* number of empty blocks.                                                 *)
(***************************************************************************)
EXTENDS PoolTracker, TLAPS

Gone(t) == tx[t] \in {"mined", "flushed"}

(* Of the wallets that the round has asked, what was awaited is in the      *)
(* hashes or gone.                                                         *)
Asked(w) == pc = "choose" \/ (pc \in {"collect", "get txs"} /\ w < i)
Looked   == /\ \A t \in awaited : tx[t] # "new"
            /\ \A w \in Wallets : Asked(w) =>
                   \A t \in awaited \cap TxsOf[w] : t \in hashes \/ Gone(t)

(* Between the for loops the next one is at its beginning.                 *)
AtFirst  == pc \notin {"collect", "get txs", "compare", "sync"} => i = 1

(* The wallets that the last loop has left behind have caught up.          *)
CaughtUp == pc \in {"compare", "sync"} =>
                \A w \in Wallets : w < i => seen[w] >= cleared

(* A miner that the tracker has started runs, unless others stopped it.    *)
Miner    == /\ pc = "start" => ~is_first
            /\ pc = "stop" => mining_started
            /\ mining_started /\ mining = "nobody" => disturbed \/ pc \in AfterLoop \cup {"raised"}

IInv == /\ TypeOK /\ Looked /\ AtFirst /\ Miner
        /\ PoolCleared /\ CaughtUp /\ WalletsCatchUp /\ RaisesOnlyDisturbed

-----------------------------------------------------------------------------
LEMMA WalletsFacts == /\ Len(TxsOf) \in Nat /\ 1 \in Wallets /\ Wallets \subseteq Nat
                      /\ \A w \in Wallets : w < Len(TxsOf) => w + 1 \in Wallets
                      /\ \A w \in Wallets : w >= 1 /\ w <= Len(TxsOf)
                      /\ \A w \in Wallets : TxsOf[w] \subseteq Own /\ TxsOf[w] \subseteq Txs
                      /\ Own \subseteq Txs
                      /\ \A t \in Own : \E w \in Wallets : t \in TxsOf[w]
<1>1. TxsOf \in Seq(SUBSET Txs) /\ TxsOf # <<>>
  BY InputsAssumption
<1>2. Len(TxsOf) \in Nat /\ Len(TxsOf) # 0
  BY <1>1
<1>3. \A w \in Wallets : TxsOf[w] \subseteq Txs
  BY <1>1 DEF Wallets
<1>4. QED
  BY <1>2, <1>3 DEF Wallets, Own

LEMMA InitInvariant == Init => IInv
<1> SUFFICES ASSUME Init PROVE IInv
  OBVIOUS
<1>1. TypeOK
  <2>1. /\ tx \in [Txs -> Places] /\ height \in Nat /\ seen \in [Wallets -> 0..height]
        /\ mining \in {"nobody", "other", "tracker"}
        /\ pc \in Requests /\ i \in Wallets /\ hashes \subseteq Own
        /\ awaited \subseteq Own /\ cleared \in 0..height
    BY WalletsFacts DEF Init, Places, Requests, InPool
  <2>2. /\ {is_first, mining_started, clear_from_wallet, disturbed} \subseteq BOOLEAN
        /\ mining_started => ~is_first
    BY Zenon DEF Init
  <2>3. QED
    BY <2>1, <2>2, Zenon DEF TypeOK
<1>2. Looked /\ AtFirst /\ Miner
  BY WalletsFacts DEF Init, Looked, Asked, AtFirst, Miner, InPool, AfterLoop
<1>3. PoolCleared /\ CaughtUp /\ WalletsCatchUp /\ RaisesOnlyDisturbed
  BY DEF Init, PoolCleared, CaughtUp, WalletsCatchUp, RaisesOnlyDisturbed, AfterLoop
<1>4. QED
  BY <1>1, <1>2, <1>3 DEF IInv

-----------------------------------------------------------------------------
(* What a step does to the transactions and the chain.                     *)
LEMMA Moves ==
    ASSUME IInv, [Next]_vars
    PROVE  /\ tx' \in [Txs -> Places] /\ height' \in Nat /\ height' >= height
           /\ \A t \in Txs : tx[t] # "new" => tx'[t] # "new"
           /\ \A t \in Txs : Gone(t) => tx'[t] \in {"mined", "flushed"}
           /\ awaited' = awaited
<1> USE DEF Places, Gone, daemon, tracker, record
<1>0. tx \in [Txs -> Places] /\ height \in Nat
  BY DEF IInv, TypeOK
<1>1. ASSUME NEW T, Flush(T)
      PROVE  /\ tx' \in [Txs -> Places]
             /\ \A t \in Txs : tx[t] # "new" => tx'[t] # "new"
             /\ \A t \in Txs : Gone(t) => tx'[t] \in {"mined", "flushed"}
  BY <1>0, <1>1 DEF Flush
<1>2. CASE Mine
  BY <1>0, <1>2 DEF Mine
<1>3. CASE Relay
  BY <1>0, <1>3 DEF Relay
<1>4. CASE Fail
  BY <1>0, <1>4 DEF Fail, InPool
<1>5. CASE GetTxs
  <2>1. height' = height /\ awaited' = awaited /\ Flush(TxsOf[i])
    BY <1>5 DEF GetTxs
  <2>2. QED
    BY <1>0, <1>1, <2>1
<1>6. CASE Choose
  <2>1. height' = height /\ awaited' = awaited /\ \E T : Flush(T)
    BY <1>6 DEF Choose
  <2>2. QED
    BY <1>0, <1>1, <2>1
<1>7. CASE UNCHANGED <<tx, height, awaited>>
  BY <1>0, <1>7
<1>8. QED
  BY <1>2, <1>3, <1>4, <1>5, <1>6, <1>7
  DEF Next, Step, vars, OtherStarts, OtherStops, Collect, Status, Start, StartRaises,
      Sleep, Stop, StopAgain, Compare, Sync

(* Types.                                                                  *)
LEMMA TypesInvariant ==
    ASSUME IInv, [Next]_vars
    PROVE  TypeOK'
<1> USE DEF daemon, tracker, record
<1>1. /\ TypeOK /\ tx' \in [Txs -> Places] /\ height \in Nat /\ height' \in Nat /\ height' >= height
      /\ awaited' = awaited
  BY Moves DEF IInv, TypeOK
<1>2. mining' \in {"nobody", "other", "tracker"}
  BY <1>1 DEF TypeOK, Next, Step, vars, Mine, Relay, Fail, OtherStarts, OtherStops, Collect,
              GetTxs, Choose, Status, Start, StartRaises, Sleep, Stop, StopAgain, Compare, Sync
<1>3. seen' \in [Wallets -> 0..height']
  <2>1. seen \in [Wallets -> 0..height']
    BY <1>1 DEF TypeOK
  <2>2. CASE UNCHANGED seen
    BY <2>1, <2>2
  <2>3. CASE seen' = [seen EXCEPT ![i] = height] /\ height' = height
    BY <1>1, <2>1, <2>3 DEF TypeOK
  <2>4. QED
    BY <2>2, <2>3
    DEF Next, Step, vars, Mine, Relay, Fail, OtherStarts, OtherStops, Collect,
        GetTxs, Choose, Status, Start, StartRaises, Sleep, Stop, StopAgain, Compare, Sync
<1>4. cleared' \in 0..height'
  <2>1. CASE cleared' = cleared
    BY <1>1, <2>1 DEF TypeOK
  <2>2. CASE cleared' = height
    BY <1>1, <2>2
  <2>3. CASE Choose
    BY <2>1, <2>2, <2>3 DEF Choose
  <2>4. QED
    BY <2>1, <2>3
    DEF Next, Step, vars, Mine, Relay, Fail, OtherStarts, OtherStops, Collect,
        GetTxs, Status, Start, StartRaises, Sleep, Stop, StopAgain, Compare, Sync
<1>5. pc' \in Requests
  <2>1. CASE Choose
    BY <1>1, <2>1 DEF Choose, Requests, AfterLoop, TypeOK
  <2>2. QED
    BY <1>1, <2>1
    DEF TypeOK, Requests, AfterLoop, NextWallet,
        Next, Step, vars, Mine, Relay, Fail, OtherStarts, OtherStops, Collect,
        GetTxs, Status, Start, StartRaises, Sleep, Stop, StopAgain, Compare, Sync
<1>6. i' \in Wallets
  <2>1. \A again, after : NextWallet(again, after) => i' \in Wallets
    BY <1>1, WalletsFacts DEF NextWallet, TypeOK
  <2>2. CASE UNCHANGED i
    BY <1>1, <2>2 DEF TypeOK
  <2>3. QED
    BY <2>1, <2>2
    DEF Next, Step, vars, Mine, Relay, Fail, OtherStarts, OtherStops, Collect,
        GetTxs, Choose, Status, Start, StartRaises, Sleep, Stop, StopAgain, Compare, Sync
<1>7. hashes' \subseteq Own
  <2>1. CASE hashes' = hashes \/ hashes' = {}
    BY <1>1, <2>1 DEF TypeOK
  <2>2. CASE hashes' = hashes \cup (InPool \cap TxsOf[i])
    BY <1>1, <2>2, WalletsFacts DEF TypeOK
  <2>3. QED
    BY <2>1, <2>2
    DEF Next, Step, vars, Mine, Relay, Fail, OtherStarts, OtherStops, Collect,
        GetTxs, Choose, Status, Start, StartRaises, Sleep, Stop, StopAgain, Compare, Sync
<1>8. {is_first, mining_started, clear_from_wallet, disturbed}' \subseteq BOOLEAN
  <2>1. /\ is_first \in BOOLEAN /\ mining_started \in BOOLEAN
        /\ clear_from_wallet \in BOOLEAN /\ disturbed \in BOOLEAN
    BY <1>1, Zenon DEF TypeOK
  <2>2. /\ is_first' = is_first \/ is_first' = FALSE
        /\ mining_started' = mining_started \/ mining_started' = TRUE
        /\ clear_from_wallet' = clear_from_wallet
        /\ disturbed' = disturbed \/ disturbed' = TRUE \/ disturbed' = (disturbed \/ mining = "nobody")
    BY ZenonT(30)
    DEF Next, Step, vars, Mine, Relay, Fail, OtherStarts, OtherStops, Collect,
        GetTxs, Choose, Status, Start, StartRaises, Sleep, Stop, StopAgain, Compare, Sync
  <2>3. QED
    BY <2>1, <2>2, Zenon
<1>9. mining_started' => ~is_first'
  BY <1>1, ZenonT(30)
  DEF IInv, TypeOK, Miner,
      Next, Step, vars, Mine, Relay, Fail, OtherStarts, OtherStops, Collect,
      GetTxs, Choose, Status, Start, StartRaises, Sleep, Stop, StopAgain, Compare, Sync
<1>10. QED
  BY <1>1, <1>2, <1>3, <1>4, <1>5, <1>6, <1>7, <1>8, <1>9 DEF TypeOK

-----------------------------------------------------------------------------
(* What was awaited of the wallets that were asked.                        *)
LEMMA LookedInvariant ==
    ASSUME IInv, [Next]_vars
    PROVE  Looked'
<1>1. /\ awaited' = awaited /\ awaited \subseteq Txs /\ i \in Nat
      /\ \A t \in awaited : tx[t] # "new" /\ tx'[t] # "new" /\ tx[t] \in Places
      /\ \A t \in awaited : Gone(t) => Gone(t)'
  BY Moves, WalletsFacts DEF IInv, TypeOK, Looked, Gone
<1>2. \A w \in Wallets : Asked(w) => \A t \in awaited \cap TxsOf[w] : t \in hashes \/ Gone(t)
  BY DEF IInv, Looked
<1>3. ASSUME hashes \subseteq hashes', \A w \in Wallets : Asked(w)' => Asked(w)
      PROVE  Looked'
  BY <1>1, <1>2, <1>3 DEF Looked
<1>4. CASE UNCHANGED <<pc, i, hashes>>
  BY <1>3, <1>4 DEF Asked
<1>5. CASE Collect
  BY <1>3, <1>5 DEF Collect, Asked, tracker
<1>6. CASE GetTxs
  <2>1. hashes' = hashes \cup (InPool \cap TxsOf[i]) /\ Flush(TxsOf[i])
        /\ NextWallet("collect", "choose") /\ pc = "get txs"
    BY <1>6 DEF GetTxs
  <2>2. \A w \in Wallets : Asked(w)' => Asked(w) \/ w = i
    <3>1. CASE i < Len(TxsOf)
      <4>1. pc' = "collect" /\ i' = i + 1
        BY <2>1, <3>1 DEF NextWallet
      <4>2. \A w \in Wallets : w < i + 1 => w < i \/ w = i
        BY <1>1, WalletsFacts
      <4>3. QED
        BY <2>1, <4>1, <4>2 DEF Asked
    <3>2. CASE ~(i < Len(TxsOf))
      <4>1. \A w \in Wallets : w < i \/ w = i
        BY <1>1, <3>2, WalletsFacts
      <4>2. QED
        BY <2>1, <4>1 DEF Asked
    <3>3. QED
      BY <3>1, <3>2
  <2>3. \A t \in awaited \cap TxsOf[i] : t \in hashes' \/ Gone(t)'
    <3>1. ASSUME NEW t \in awaited \cap TxsOf[i] PROVE t \in hashes' \/ Gone(t)'
      <4>1. CASE tx[t] = "pool"
        BY <1>1, <2>1, <4>1 DEF InPool
      <4>2. CASE tx[t] = "failed"
        BY <1>1, <2>1, <4>2 DEF Flush, Gone
      <4>3. CASE Gone(t)
        BY <1>1, <4>3
      <4>4. QED
        BY <1>1, <4>1, <4>2, <4>3 DEF Places, Gone
    <3>2. QED
      BY <3>1
  <2>4. QED
    BY <1>1, <1>2, <2>1, <2>2, <2>3 DEF Looked
<1>7. CASE Choose
  <2>1. \A w \in Wallets : ~Asked(w)'
    BY <1>7 DEF Choose, Asked
  <2>2. QED
    BY <1>1, <2>1 DEF Looked
<1>8. CASE Status \/ Start \/ StartRaises \/ Stop \/ StopAgain \/ Compare \/ Sync
  <2>1. \A w \in Wallets : ~Asked(w)'
    BY <1>8 DEF Status, Start, StartRaises, Stop, StopAgain, Compare, Sync, NextWallet, Asked
  <2>2. QED
    BY <1>1, <2>1 DEF Looked
<1>9. CASE Sleep
  <2>1. i = 1 /\ i' = 1 /\ pc' = "collect"
    BY <1>9 DEF IInv, AtFirst, Sleep
  <2>2. \A w \in Wallets : ~Asked(w)'
    BY <2>1, WalletsFacts DEF Asked
  <2>3. QED
    BY <1>1, <2>2 DEF Looked
<1>10. QED
  BY <1>4, <1>5, <1>6, <1>7, <1>8, <1>9
  DEF Next, Step, vars, tracker, Mine, Relay, Fail, OtherStarts, OtherStops

(* Places in the program.                                                  *)
LEMMA PlaceInvariant ==
    ASSUME IInv, [Next]_vars
    PROVE  AtFirst' /\ Miner' /\ RaisesOnlyDisturbed'
<1> USE DEF daemon, tracker, record
<1>1. AtFirst /\ Miner /\ RaisesOnlyDisturbed
  BY DEF IInv
<1>2. AtFirst'
  <2>1. CASE Choose
    BY <1>1, <2>1 DEF Choose, AtFirst
  <2>2. QED
    BY <1>1, <2>1
    DEF AtFirst, NextWallet, AfterLoop,
        Next, Step, vars, Mine, Relay, Fail, OtherStarts, OtherStops, Collect,
        GetTxs, Status, Start, StartRaises, Sleep, Stop, StopAgain, Compare, Sync
<1>3. (pc = "start" => ~is_first)' /\ (pc = "stop" => mining_started)'
  <2>1. CASE Choose
    <3>1. mining_started' = mining_started /\ pc' # "start"
      BY <2>1 DEF Choose
    <3>2. pc' = "stop" => mining_started
      BY <2>1 DEF Choose
    <3>3. QED
      BY <3>1, <3>2
  <2>2. CASE Status
    <3>1. is_first' = FALSE /\ pc' # "stop"
      BY <2>2 DEF Status
    <3>2. QED
      BY <3>1, Zenon
  <2>3. CASE UNCHANGED <<pc, is_first, mining_started>>
    BY <1>1, <2>3, Zenon DEF Miner
  <2>4. CASE pc' \notin {"start", "stop"}
    BY <2>4
  <2>5. QED
    BY <2>1, <2>2, <2>3, <2>4
    DEF NextWallet,
        Next, Step, vars, Mine, Relay, Fail, OtherStarts, OtherStops, Collect,
        GetTxs, Start, StartRaises, Sleep, Stop, StopAgain, Compare, Sync
<1>4. (mining_started /\ mining = "nobody" => disturbed \/ pc \in AfterLoop \cup {"raised"})'
  <2>1. CASE Choose
    BY <1>1, <2>1 DEF Choose, Miner, AfterLoop
  <2>2. QED
    BY <1>1, <2>1
    DEF Miner, NextWallet, AfterLoop,
        Next, Step, vars, Mine, Relay, Fail, OtherStarts, OtherStops, Collect,
        GetTxs, Status, Start, StartRaises, Sleep, Stop, StopAgain, Compare, Sync
<1>5. RaisesOnlyDisturbed'
  <2>1. CASE Stop
    BY <1>1, <2>1 DEF Stop, Miner, RaisesOnlyDisturbed, AfterLoop
  <2>2. CASE Choose
    BY <1>1, <2>2 DEF Choose, RaisesOnlyDisturbed
  <2>3. QED
    BY <1>1, <2>1, <2>2
    DEF RaisesOnlyDisturbed, NextWallet,
        Next, Step, vars, Mine, Relay, Fail, OtherStarts, OtherStops, Collect,
        GetTxs, Status, Start, StartRaises, Sleep, StopAgain, Compare, Sync
<1>6. QED
  BY <1>2, <1>3, <1>4, <1>5 DEF Miner

(* The loop is left when everything awaited is gone.                       *)
LEMMA ClearedInvariant ==
    ASSUME IInv, [Next]_vars
    PROVE  PoolCleared'
<1>1. /\ awaited' = awaited /\ awaited \subseteq Own /\ awaited \subseteq Txs
      /\ \A t \in awaited : tx[t] # "new" /\ tx[t] \in Places /\ tx'[t] \in Places
      /\ \A t \in awaited : Gone(t) => tx'[t] \in {"mined", "flushed"}
  BY Moves, WalletsFacts DEF IInv, TypeOK, Looked
<1>2. CASE pc \in AfterLoop \cup {"stop", "raised"}
  BY <1>1, <1>2 DEF IInv, PoolCleared, Gone
<1>3. CASE Choose
  <2>1. SUFFICES ASSUME pc' \in AfterLoop \cup {"stop", "raised"}, NEW t \in awaited
                 PROVE  tx'[t] \in {"mined", "flushed"}
    BY <1>1 DEF PoolCleared
  <2>2. t \in hashes \/ Gone(t)
    <3>1. PICK w \in Wallets : t \in TxsOf[w]
      BY <1>1, <2>1, WalletsFacts
    <3>2. QED
      BY <1>3, <2>1, <3>1 DEF Choose, IInv, Looked, Asked
  <2>3. (IF clear_from_wallet THEN hashes ELSE hashes \cap InPool) = {}
    BY <1>3, <2>1 DEF Choose, AfterLoop
  <2>4. CASE clear_from_wallet
    BY <1>1, <2>1, <2>2, <2>3, <2>4
  <2>5. CASE ~clear_from_wallet
    <3>1. Flush(Txs) /\ hashes \cap InPool = {}
      BY <1>3, <2>3, <2>5 DEF Choose
    <3>2. tx[t] # "pool" \/ Gone(t)
      BY <1>1, <2>1, <2>2, <3>1 DEF InPool
    <3>3. tx[t] = "failed" \/ Gone(t)
      BY <1>1, <2>1, <3>2 DEF Places, Gone
    <3>4. QED
      BY <1>1, <2>1, <3>1, <3>3 DEF Flush
  <2>6. QED
    BY <2>4, <2>5
<1>4. ASSUME pc \notin AfterLoop \cup {"stop", "raised"}, ~Choose
      PROVE  pc' \notin AfterLoop \cup {"stop", "raised"}
  BY <1>4
  DEF AfterLoop, NextWallet, daemon, tracker, record,
      Next, Step, vars, Mine, Relay, Fail, OtherStarts, OtherStops, Collect,
      GetTxs, Status, Start, StartRaises, Sleep, Stop, StopAgain, Compare, Sync
<1>5. QED
  BY <1>2, <1>3, <1>4 DEF PoolCleared

(* Wallets that have caught up stay where they are, or go on.              *)
LEMMA CaughtInvariant ==
    ASSUME IInv, [Next]_vars
    PROVE  CaughtUp' /\ WalletsCatchUp'
<1> USE DEF daemon, tracker, record
<1>1. /\ height \in Nat /\ cleared \in 0..height /\ i \in Wallets /\ i \in Nat
      /\ seen \in [Wallets -> 0..height]
      /\ CaughtUp /\ WalletsCatchUp
  BY WalletsFacts DEF IInv, TypeOK
<1>2. ASSUME seen' = [seen EXCEPT ![i] = height] \/ seen' = seen, NEW w \in Wallets,
             seen[w] >= cleared
      PROVE  seen'[w] >= cleared
  BY <1>1, <1>2
<1>3. CASE Compare
  <2>1. seen' = seen /\ cleared' = cleared /\ pc = "compare"
    BY <1>3 DEF Compare
  <2>2. CASE seen[i] < height
    BY <1>1, <1>3, <2>1, <2>2 DEF Compare, CaughtUp, WalletsCatchUp
  <2>3. CASE ~(seen[i] < height)
    <3>1. seen[i] >= cleared /\ NextWallet("compare", "done")
      BY <1>1, <1>3, <2>3 DEF Compare
    <3>2. \A w \in Wallets : w < i \/ w = i => seen[w] >= cleared
      BY <1>1, <2>1, <3>1 DEF CaughtUp
    <3>3. CASE i < Len(TxsOf)
      <4>1. pc' = "compare" /\ i' = i + 1
        BY <3>1, <3>3 DEF NextWallet
      <4>2. \A w \in Wallets : w < i + 1 => w < i \/ w = i
        BY <1>1, WalletsFacts
      <4>3. QED
        BY <2>1, <3>2, <4>1, <4>2 DEF CaughtUp, WalletsCatchUp
    <3>4. CASE ~(i < Len(TxsOf))
      <4>1. pc' = "done"
        BY <3>1, <3>4 DEF NextWallet
      <4>2. \A w \in Wallets : w < i \/ w = i
        BY <1>1, <3>4, WalletsFacts
      <4>3. QED
        BY <2>1, <3>2, <4>1, <4>2 DEF CaughtUp, WalletsCatchUp
    <3>5. QED
      BY <3>3, <3>4
  <2>4. QED
    BY <2>2, <2>3
<1>4. CASE Sync
  <2>1. seen' = [seen EXCEPT ![i] = height] /\ cleared' = cleared /\ i' = i
        /\ pc = "sync" /\ pc' = "compare"
    BY <1>4 DEF Sync
  <2>2. \A w \in Wallets : w < i => seen'[w] >= cleared
    BY <1>1, <1>2, <2>1 DEF CaughtUp
  <2>3. QED
    BY <2>1, <2>2 DEF CaughtUp, WalletsCatchUp
<1>5. CASE StopAgain
  <2>1. pc' = "compare" /\ i' = 1
    BY <1>5 DEF StopAgain, IInv, AtFirst, AfterLoop
  <2>2. \A w \in Wallets : ~(w < 1)
    BY WalletsFacts
  <2>3. QED
    BY <2>1, <2>2 DEF CaughtUp, WalletsCatchUp
<1>6. CASE Collect \/ GetTxs \/ Choose \/ Status \/ Start \/ StartRaises \/ Sleep \/ Stop
  <2>1. pc' \notin {"compare", "sync", "done"}
    BY <1>6 DEF Collect, GetTxs, Choose, Status, Start, StartRaises, Sleep, Stop, NextWallet
  <2>2. QED
    BY <2>1 DEF CaughtUp, WalletsCatchUp
<1>7. CASE UNCHANGED <<pc, i, seen, cleared>>
  BY <1>1, <1>7 DEF CaughtUp, WalletsCatchUp
<1>8. QED
  BY <1>3, <1>4, <1>5, <1>6, <1>7
  DEF Next, Step, vars, Mine, Relay, Fail, OtherStarts, OtherStops

LEMMA Invariance == Spec => []IInv
<1>1. IInv /\ [Next]_vars => IInv'
  BY TypesInvariant, LookedInvariant, PlaceInvariant, ClearedInvariant, CaughtInvariant DEF IInv
<1>2. QED
  BY InitInvariant, <1>1, PTL DEF Spec

-----------------------------------------------------------------------------
(* Places, heights and the loop's index keep their kinds.                  *)
THEOREM TypeCorrect == Spec => []TypeOK
<1>1. IInv => TypeOK
  BY DEF IInv
<1>2. QED
  BY <1>1, Invariance, PTL

(* The loop is not left before everything it was to wait for is gone.      *)
THEOREM Cleared == Spec => []PoolCleared
<1>1. IInv => PoolCleared
  BY DEF IInv
<1>2. QED
  BY <1>1, Invariance, PTL

(* Every wallet has seen the blocks that cleared the pool.                 *)
THEOREM CatchUp == Spec => []WalletsCatchUp
<1>1. IInv => WalletsCatchUp
  BY DEF IInv
<1>2. QED
  BY <1>1, Invariance, PTL

(* Only others make stop_mining raise.                                     *)
THEOREM Raises == Spec => []RaisesOnlyDisturbed
<1>1. IInv => RaisesOnlyDisturbed
  BY DEF IInv
<1>2. QED
  BY <1>1, Invariance, PTL
=============================================================================
