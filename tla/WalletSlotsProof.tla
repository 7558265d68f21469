--------------------------- MODULE WalletSlotsProof ---------------------------
(***************************************************************************)
(* Proofs about WalletSlots, for any number of slots and clients, whatever *)
(* fails: what the manager promises about slots and servers.               *)
(***************************************************************************)
EXTENDS WalletSlots, TLAPS, FiniteSetTheorems, WellFoundedInduction

Opened == {"set daemon", "is connected", "start syncing"}

(* The slot that is being set up is free, and its new client is connected  *)
(* to it; once a wallet is opened it is the client's, if any.              *)
SetupInv == /\ pc \in Setup => wallets[slot] = None /\ at[client] = slot
            /\ pc \in Opened => opened[slot] \in {client, None}

(* clear has closed the wallets of the slots that it has left behind.      *)
ClearInv == /\ pc \in {"clear", "close"} => \A s \in Taken \ todo : opened[s] = None
            /\ pc = "close" => slot \in todo
            /\ pc \notin {"clear", "close"} => todo = {}

(* An open wallet without a taken slot was left behind by a failure, or is *)
(* the one that is being set up.                                           *)
LeftOpen == \A s \in Slots \ Taken :
               opened[s] # None => s \in failed \/ (pc \in Opened /\ s = slot)

IInv == TypeOK /\ SetupInv /\ ClearInv /\ OwnWallet /\ LeftOpen

-----------------------------------------------------------------------------
(* What the proofs use of the slots.                                       *)
LEMMA SlotsFacts == /\ None \notin Slots /\ None \notin Clients
                    /\ 0 \in Slots /\ Slots \subseteq Nat
                    /\ Cardinality(Slots) = MaxSlots
<1>1. Cardinality(0..MaxSlots - 1) = IF 0 > MaxSlots - 1 THEN 0 ELSE MaxSlots - 1 - 0 + 1
  BY SlotsAssumption, FS_Interval
<1>2. QED
  BY <1>1, SlotsAssumption, ClientsAssumption DEF Slots

(* A set of slots that is not empty has a least element.                   *)
LEMMA LeastSlot ==
    ASSUME NEW S, S \subseteq Slots, S # {}
    PROVE  \E s \in S : \A t \in S : s <= t
<1>1. S \subseteq Nat
  BY SlotsFacts
<1>2. PICK s \in S : \A t \in S : ~(<<t, s>> \in OpToRel(<, Nat))
  BY <1>1, NatLessThanWellFounded, WFMin
<1>3. ASSUME NEW t \in S PROVE s <= t
  <2>1. ~(t < s)
    BY <1>1, <1>2 DEF OpToRel
  <2>2. QED
    BY <1>1, <2>1
<1>4. QED
  BY <1>3

(* As long as a slot is left, the first free slot is one that is not taken. *)
LEMMA FirstFreeSlot ==
    ASSUME TypeOK, ~no_slot_left
    PROVE  first_free_slot \in Slots \ Taken
<1>1. Taken \subseteq Slots
  BY DEF Taken
<1>2. Slots # Taken
  BY SlotsFacts, SlotsAssumption DEF no_slot_left
<1>3. \E s \in Slots \ Taken : \A t \in Slots \ Taken : s <= t
  BY <1>1, <1>2, LeastSlot
<1>4. QED
  BY <1>2, <1>3 DEF first_free_slot

LEMMA InitInvariant == Init => IInv
BY SlotsFacts
DEF Init, IInv, TypeOK, SetupInv, ClearInv, OwnWallet, LeftOpen, Taken, Requests, Setup, Opened

-----------------------------------------------------------------------------
(* setup_wallet, from the choice of the slot to the entry in _wallets.     *)
LEMMA SetupInvariant ==
    ASSUME IInv,
           \/ \E c \in Clients : SetupBegin(c)
           \/ StopSyncing \/ Open \/ SetDaemon \/ IsConnected \/ StartSyncing
           \/ SetupRaises \/ NoWalletFile
    PROVE  IInv'
<1>0. ASSUME NEW c \in Clients, SetupBegin(c) PROVE slot' \in Slots \ Taken
  BY <1>0, FirstFreeSlot DEF SetupBegin, IInv
<1> USE SlotsFacts
    DEF IInv, TypeOK, SetupInv, ClearInv, OwnWallet, LeftOpen, Taken, Requests, Setup, Opened
<1>1. ASSUME NEW c \in Clients, SetupBegin(c) PROVE IInv'
  <2>1. at[c] = None /\ at' = [at EXCEPT ![c] = slot'] /\ \A s \in Slots : wallets[s] # c
    BY <1>1 DEF SetupBegin, Unknown
  <2>2. TypeOK'
    <3>1. \A s \in Slots : wallets'[s] # None => at'[wallets'[s]] = s
      BY ZenonT(60), <1>1, <2>1 DEF SetupBegin
    <3>2. slot' \in Slots /\ client' \in Clients
      BY <1>0, <1>1 DEF SetupBegin
    <3>3. at' \in [Clients -> Slots \cup {None}]
      BY <2>1, <3>2
    <3>4. QED
      BY <1>1, <3>1, <3>2, <3>3 DEF SetupBegin
  <2>3. SetupInv'
    BY <1>0, <1>1, <2>1 DEF SetupBegin
  <2>4. ClearInv' /\ OwnWallet' /\ LeftOpen'
    BY <1>1 DEF SetupBegin
  <2>5. QED
    BY <2>2, <2>3, <2>4
<1>2. CASE StopSyncing \/ SetDaemon
  BY <1>2 DEF StopSyncing, SetDaemon
<1>3. CASE Open
  BY <1>3 DEF Open
<1>4. ASSUME Store("idle"), pc \in Opened PROVE IInv'
  BY <1>4 DEF Store
<1>5. CASE IsConnected
  BY <1>4, <1>5 DEF IsConnected
<1>6. CASE StartSyncing
  BY <1>4, <1>6 DEF StartSyncing
<1>7. CASE SetupRaises
  <2>1. /\ \A s \in Slots : s # slot => opened'[s] = opened[s]
        /\ opened' \in [Slots -> Clients \cup {None}]
    <3>1. CASE UNCHANGED opened
      BY <3>1
    <3>2. CASE opened' = [opened EXCEPT ![slot] = client]
      BY <3>2
    <3>3. QED
      BY <1>7, <3>1, <3>2 DEF SetupRaises
  <2>2. \A t \in Slots : wallets[t] # client
    BY ZenonT(60), <1>7 DEF SetupRaises
  <2>3. TypeOK'
    BY ZenonT(60), <1>7, <2>1, <2>2 DEF SetupRaises, Abandon
  <2>4. QED
    BY <1>7, <2>1, <2>2, <2>3 DEF SetupRaises, Abandon
<1>8. CASE NoWalletFile
  BY <1>8 DEF NoWalletFile, Abandon
<1>9. QED
  BY <1>1, <1>2, <1>3, <1>5, <1>6, <1>7, <1>8

(* A wallet that is closed, by whomever, does no harm.                      *)
LEMMA ClosedInvariant ==
    ASSUME IInv, NEW s \in Slots, Closed(s) \/ UNCHANGED opened,
           UNCHANGED <<wallets, at, slot, client, failed>>, healthy' \in BOOLEAN,
           \/ UNCHANGED <<pc, todo>>
           \/ pc \in {"clear", "close"} /\ pc' = "idle" /\ todo' = {}
           \/ pc = "close" /\ pc' = "clear" /\ slot = s /\ todo' = todo \ {s} /\ Closed(s)
    PROVE  IInv'
<1> USE SlotsFacts DEF Requests, Setup, Opened
<1>1. /\ opened' \in [Slots -> Clients \cup {None}]
      /\ \A t \in Slots : opened'[t] = opened[t] \/ opened'[t] = None
      /\ Closed(s) => opened'[s] = None
  BY DEF IInv, TypeOK, Closed
<1>2. Taken' = Taken
  BY DEF Taken
<1>3. TypeOK'
  BY <1>1, <1>2 DEF IInv, TypeOK
<1>4. SetupInv' /\ LeftOpen'
  BY <1>1, <1>2 DEF IInv, TypeOK, SetupInv, LeftOpen
<1>5. ClearInv' /\ OwnWallet'
  BY <1>1, <1>2 DEF IInv, TypeOK, ClearInv, OwnWallet, Taken
<1>6. QED
  BY <1>3, <1>4, <1>5 DEF IInv

(* free_slot and clear.                                                    *)
LEMMA FreeInvariant ==
    ASSUME IInv,
           \/ \E c \in Clients : Free(c)
           \/ ClearBegin \/ IsClosed \/ ClearCloses \/ ClearRaises \/ ClearEnd
    PROVE  IInv'
<1>4. CASE ClearCloses
  BY <1>4, ClosedInvariant DEF ClearCloses, IInv, TypeOK
<1>5. CASE ClearRaises
  BY <1>5, ClosedInvariant DEF ClearRaises, IInv, TypeOK
<1> USE SlotsFacts
    DEF IInv, TypeOK, SetupInv, ClearInv, OwnWallet, LeftOpen, Taken, Requests, Setup, Opened,
        Closed
<1>1. ASSUME NEW c \in Clients, Free(c) PROVE IInv'
  <2>1. PICK s \in Slots : wallets[s] = c
    BY <1>1 DEF Free, Managed
  <2>2. at[c] = s /\ \A t \in Slots : wallets'[t] = IF t = s THEN None ELSE wallets[t]
    BY <1>1, <2>1 DEF Free
  <2>3. /\ \A t \in Slots : opened'[t] = opened[t] \/ opened'[t] = None
        /\ opened'[s] = None \/ s \in failed'
        /\ failed \subseteq failed' /\ failed' \subseteq Slots
        /\ opened' \in [Slots -> Clients \cup {None}]
    BY ZenonT(60), <1>1, <2>2 DEF Free
  <2>4. TypeOK'
    <3>1. wallets' \in [Slots -> Clients \cup {None}]
      BY <1>1 DEF Free
    <3>2. pc = "idle" /\ pc' = pc /\ todo' = todo /\ slot' = slot /\ client' = client /\ at' = at
          /\ healthy' = healthy
      BY <1>1 DEF Free, manager
    <3>3. todo' \subseteq Taken'
      BY <3>2, <2>1, <2>2
    <3>4. QED
      BY <2>2, <2>3, <3>1, <3>2, <3>3
  <2>5. QED
    BY <1>1, <2>2, <2>3, <2>4 DEF Free, manager
<1>2. CASE ClearBegin
  BY <1>2 DEF ClearBegin
<1>3. CASE IsClosed
  BY ZenonT(60), <1>3 DEF IsClosed
<1>6. CASE ClearEnd
  BY <1>6 DEF ClearEnd
<1>7. QED
  BY <1>1, <1>2, <1>3, <1>4, <1>5, <1>6

(* The tests and the servers.                                              *)
LEMMA OthersInvariant ==
    ASSUME IInv,
           \/ \E c \in Clients : TestCloses(c) \/ TestReopens(c) \/ TestForgets(c)
           \/ \E s \in Slots : ServerRestarts(s)
           \/ Recover \/ UNCHANGED vars
    PROVE  IInv'
<1>1. ASSUME NEW c \in Clients, TestCloses(c) PROVE IInv'
  <2>1. at[c] \in Slots /\ healthy \in BOOLEAN
    BY <1>1 DEF TestCloses, IInv, TypeOK
  <2>2. QED
    BY <1>1, <2>1, ClosedInvariant DEF TestCloses, manager
<1>4. ASSUME NEW s \in Slots, ServerRestarts(s) PROVE IInv'
  <2>1. healthy \in BOOLEAN
    BY DEF IInv, TypeOK
  <2>2. QED
    BY <1>4, <2>1, ClosedInvariant DEF ServerRestarts, manager
<1> USE SlotsFacts
    DEF IInv, TypeOK, SetupInv, ClearInv, OwnWallet, LeftOpen, Taken, Requests, Setup, Opened,
        Closed, manager
<1>2. ASSUME NEW c \in Clients, TestReopens(c) PROVE IInv'
  <2>1. PICK s \in Slots : s = at[c]
    BY <1>2 DEF TestReopens
  <2>2. wallets[s] \in {c, None} /\ (wallets[s] = None => s \in failed')
    BY <1>2, <2>1 DEF TestReopens, Managed
  <2>3. /\ \A t \in Slots : opened'[t] = IF t = s THEN c ELSE opened[t]
        /\ opened' \in [Slots -> Clients \cup {None}]
        /\ failed \subseteq failed' /\ failed' \subseteq Slots
    BY <1>2, <2>1 DEF TestReopens
  <2>4. pc = "idle" /\ UNCHANGED <<wallets, at, pc, slot, client, todo, healthy>>
    BY <1>2 DEF TestReopens
  <2>5. QED
    BY <2>2, <2>3, <2>4
<1>3. CASE \E c \in Clients : TestForgets(c)
  BY <1>3 DEF TestForgets, Managed
<1>5. CASE Recover
  BY <1>5 DEF Recover
<1>6. CASE UNCHANGED vars
  BY <1>6 DEF vars
<1>7. QED
  BY <1>1, <1>2, <1>3, <1>4, <1>5, <1>6

LEMMA NextInvariant == IInv /\ [Next]_vars => IInv'
BY SetupInvariant, FreeInvariant, OthersInvariant DEF Next, Step

LEMMA Invariance == Spec => []IInv
BY InitInvariant, NextInvariant, PTL DEF Spec

-----------------------------------------------------------------------------
(* Every variable keeps its type, and a client in a slot is connected to   *)
(* that slot's server.                                                     *)
THEOREM TypeCorrect == Spec => []TypeOK
<1>1. IInv => TypeOK
  BY DEF IInv
<1>2. QED
  BY <1>1, Invariance, PTL

(* No client finds another client's wallet in its server.                  *)
THEOREM OwnWallets == Spec => []OwnWallet
<1>1. IInv => OwnWallet
  BY DEF IInv
<1>2. QED
  BY <1>1, Invariance, PTL

(* Between two calls a wallet that is open without a slot was left by a    *)
(* failure.                                                                *)
THEOREM SlotsMatch == Spec => []SlotsMatchServers
<1>1. IInv => SlotsMatchServers
  BY DEF IInv, LeftOpen, SlotsMatchServers, Opened
<1>2. QED
  BY <1>1, Invariance, PTL

(* A clear that returns has closed the wallets of all slots.               *)
THEOREM ClearCloseAll == Spec => ClearEmpties
<1>1. IInv /\ [Next]_vars => [ClearEnd => \A s \in Taken : opened[s] = None]_vars
  BY DEF IInv, ClearInv, ClearEnd
<1>2. QED
  BY <1>1, Invariance, PTL DEF Spec, ClearEmpties

(* Taking the slot at the end of setup_wallet grants a free server to a    *)
(* client that holds none.                                                 *)
LEMMA StoreGrants ==
    ASSUME IInv, pc \in Opened, Store("idle")
    PROVE  Pool!Next
<1>1. slot \in Slots /\ client \in Clients /\ wallets[slot] = None
  BY DEF IInv, TypeOK, SetupInv, Setup, Opened
<1>2. \A t \in Slots : wallets[t] # client
  BY <1>1, SlotsFacts DEF IInv, TypeOK, SetupInv, Setup, Opened
<1>3. Pool!Grant(slot, client)
  BY <1>1, <1>2 DEF Store, Pool!Grant
<1>4. QED
  BY <1>1, <1>3 DEF Pool!Next

(* The manager is a pool of leases.                                        *)
THEOREM Refinement == Spec => ImplementsLeases
<1>1. Init => Pool!Init
  BY DEF Init, Pool!Init
<1>2. IInv /\ [Next]_vars => [Pool!Next]_wallets
  <2> SUFFICES ASSUME IInv, [Next]_vars PROVE [Pool!Next]_wallets
    OBVIOUS
  <2>1. CASE IsConnected \/ StartSyncing
    BY <2>1, StoreGrants DEF IsConnected, StartSyncing, Opened
  <2>2. ASSUME NEW c \in Clients, Free(c) PROVE Pool!Next
    <3>1. PICK s \in Slots : wallets[s] = c
      BY <2>2 DEF Free, Managed
    <3>2. wallets' = [wallets EXCEPT ![s] = None]
      BY <2>2, <3>1, SlotsFacts DEF Free, IInv, TypeOK
    <3>3. QED
      BY <3>1, <3>2 DEF Pool!Next, Pool!GiveBack
  <2>3. CASE ClearEnd
    BY <2>3 DEF ClearEnd, Pool!Next, Pool!TakeBackAll
  <2>4. CASE UNCHANGED wallets
    BY <2>4
  <2>5. QED
    BY <2>1, <2>2, <2>3, <2>4
    DEF Next, Step, vars, StopSyncing, Open, SetDaemon, NoWalletFile, SetupRaises, Abandon,
        SetupBegin, ClearBegin, IsClosed, ClearCloses, ClearRaises, TestCloses, TestReopens,
        TestForgets, ServerRestarts, Recover
<1>3. QED
  BY <1>1, <1>2, Invariance, PTL DEF Spec, ImplementsLeases, Pool!Spec
=============================================================================
