----------------------------- MODULE WalletSlots -----------------------------
(***************************************************************************)
(* DockerWalletRpcManager: the tests share a few monero-wallet-rpc         *)
(* processes, one per slot, each of which has at most one wallet open.     *)
(*                                                                         *)
(* Every request to a server is a step of its own and may fail, before or  *)
(* after it had its effect; servers may restart between two requests.      *)
(***************************************************************************)
EXTENDS Integers, FiniteSets

CONSTANTS MaxSlots,   \* MAX_SLOTS
          Clients,    \* MoneroWalletRpc objects, each for the wallet it opens
          None

Slots == 0..MaxSlots - 1

ASSUME SlotsAssumption   == MaxSlots \in Nat \ {0}
ASSUME ClientsAssumption == None \notin Clients \cup Slots

VARIABLES wallets,   \* _wallets: the client in a slot, or None
          opened,    \* the wallet that a server has open, named by its client
          at,        \* the slot that a client is connected to, None: no such client
          pc,        \* the manager's next request
          slot,      \* the slot of the running operation
          client,    \* the client that setup_wallet sets up
          todo,      \* the slots that the loop of clear has still to look at
          failed,    \* history: slots in which a wallet may have been left open
          healthy    \* TRUE once all requests succeed

manager == <<pc, slot, client, todo>>
vars    == <<wallets, opened, at, manager, failed, healthy>>

Requests == {"idle", "stop syncing", "open", "set daemon", "is connected",
             "start syncing", "clear", "close"}
Setup    == {"stop syncing", "open", "set daemon", "is connected", "start syncing"}

Taken        == {s \in Slots : wallets[s] # None}
Managed(c)   == \E s \in Slots : wallets[s] = c      \* is_docker_instance
Unknown(c)   == at[c] = None /\ \A s \in Slots : opened[s] # c

Init == /\ wallets = [s \in Slots |-> None]
        /\ opened  = [s \in Slots |-> None]
        /\ at = [c \in Clients |-> None]
        /\ pc = "idle" /\ slot = 0 /\ client \in Clients /\ todo = {}
        /\ failed = {} /\ healthy = FALSE

-----------------------------------------------------------------------------
(***************************************************************************)
(* Faulty variants, for the checks that the properties tell them from the  *)
(* real definitions.                                                       *)
(***************************************************************************)
\* Nobody looks whether there is a free slot.
always_a_slot == FALSE

\* The number of used slots for the index of a free one.
next_slot == Cardinality(Taken)

\* The slot is given up, the wallet stays open.
FreeOnly(c) == /\ pc = "idle" /\ Managed(c)
               /\ wallets' = [s \in Slots |-> IF wallets[s] = c THEN None ELSE wallets[s]]
               /\ UNCHANGED <<opened, at, manager, failed, healthy>>

\* clear goes on after any error.
ClearGoesOn == /\ pc = "close" /\ ~healthy
               /\ pc' = "clear" /\ todo' = todo \ {slot}
               /\ failed' = failed \cup {slot}
               /\ UNCHANGED <<wallets, opened, at, slot, client, healthy>>

\* The slots are not given up in the end.
ClearOnlyCloses == /\ pc = "clear" /\ todo = {}
                   /\ pc' = "idle"
                   /\ UNCHANGED <<wallets, opened, at, slot, client, todo, failed, healthy>>

-----------------------------------------------------------------------------
(***************************************************************************)
(* setup_wallet                                                            *)
(***************************************************************************)
no_slot_left == MaxSlots - Cardinality(Taken) = 0

\* The least index that is not taken, -1 for none.
first_free_slot ==
    IF Slots = Taken THEN -1
                     ELSE CHOOSE s \in Slots \ Taken : \A t \in Slots \ Taken : s <= t

\* A new client for the first free slot; without one setup_wallet raises.
SetupBegin(c) == /\ pc = "idle" /\ ~no_slot_left
                 /\ Unknown(c)
                 /\ slot' = first_free_slot /\ client' = c
                 /\ at' = [at EXCEPT ![c] = slot']
                 /\ pc' = "stop syncing"
                 /\ UNCHANGED <<wallets, opened, todo, failed, healthy>>

StopSyncing == /\ pc = "stop syncing"
               /\ pc' = "open"
               /\ UNCHANGED <<wallets, opened, at, slot, client, todo, failed, healthy>>

\* create_wallet or open_wallet: the server gives up what it had open.
Open == /\ pc = "open"
        /\ opened' = [opened EXCEPT ![slot] = client]
        /\ failed' = failed \ {slot}
        /\ pc' = "set daemon"
        /\ UNCHANGED <<wallets, at, slot, client, todo, healthy>>

\* set_daemon and start_syncing need the server to have a wallet open.
SetDaemon == /\ pc = "set daemon" /\ opened[slot] # None
             /\ pc' = "is connected"
             /\ UNCHANGED <<wallets, opened, at, slot, client, todo, failed, healthy>>

Store(next) == /\ wallets' = [wallets EXCEPT ![slot] = client]
               /\ pc' = next
               /\ UNCHANGED <<opened, at, slot, client, todo, failed, healthy>>

\* Only a wallet with a daemon is kept in sync.
IsConnected == /\ pc = "is connected"
               /\ \/ /\ pc' = "start syncing"
                     /\ UNCHANGED <<wallets, opened, at, slot, client, todo, failed, healthy>>
                  \/ Store("idle")

StartSyncing == /\ pc = "start syncing" /\ opened[slot] # None
                /\ Store("idle")

\* A request of setup_wallet raises: the client is lost, the slot not taken.
Abandon == /\ at' = [at EXCEPT ![client] = None]
           /\ failed' = failed \cup {slot}
           /\ pc' = "idle"
           /\ UNCHANGED <<wallets, slot, client, todo, healthy>>

\* It fails; an open_wallet may have had its effect.
SetupRaises == /\ pc \in Setup /\ ~healthy
               /\ \/ UNCHANGED opened
                  \/ pc = "open" /\ opened' = [opened EXCEPT ![slot] = client]
               /\ Abandon

\* "No wallet file": the server has restarted since it opened the wallet.
NoWalletFile == /\ pc \in {"set daemon", "start syncing"} /\ opened[slot] = None
                /\ UNCHANGED opened
                /\ Abandon

-----------------------------------------------------------------------------
(***************************************************************************)
(* free_slot and clear                                                     *)
(***************************************************************************)
\* close on a server: also fine when it has no wallet open ("No wallet file").
Closed(s) == opened' = [opened EXCEPT ![s] = None]

\* An error of close is at most logged; the slot is given up.
Free(c) == /\ pc = "idle" /\ Managed(c)
           /\ \/ Closed(at[c]) /\ UNCHANGED failed
              \/ ~healthy /\ UNCHANGED opened /\ failed' = failed \cup {at[c]}
           /\ wallets' = [s \in Slots |-> IF wallets[s] = c THEN None ELSE wallets[s]]
           /\ UNCHANGED <<at, manager, healthy>>

ClearBegin == /\ pc = "idle"
              /\ pc' = "clear" /\ todo' = Taken
              /\ UNCHANGED <<wallets, opened, at, slot, client, failed, healthy>>

\* is_closed() of one wallet after the other.
IsClosed == /\ pc = "clear"
            /\ \E s \in todo :
                 IF opened[s] = None
                 THEN todo' = todo \ {s} /\ UNCHANGED <<pc, slot>>
                 ELSE pc' = "close" /\ slot' = s /\ UNCHANGED todo
            /\ UNCHANGED <<wallets, opened, at, client, failed, healthy>>

ClearCloses == /\ pc = "close"
               /\ Closed(slot)
               /\ pc' = "clear" /\ todo' = todo \ {slot}
               /\ UNCHANGED <<wallets, at, slot, client, failed, healthy>>

\* A request of clear raises, and clear with it: all slots stay taken, also
\* those of the wallets it has closed.
ClearRaises == /\ pc \in {"clear", "close"} /\ todo # {} /\ ~healthy
               /\ \/ pc = "close" /\ Closed(slot)
                  \/ UNCHANGED opened
               /\ pc' = "idle" /\ todo' = {}
               /\ UNCHANGED <<wallets, at, slot, client, failed, healthy>>

ClearEnd == /\ pc = "clear" /\ todo = {}
            /\ wallets' = [s \in Slots |-> None]
            /\ pc' = "idle"
            /\ UNCHANGED <<opened, at, slot, client, todo, failed, healthy>>

-----------------------------------------------------------------------------
(***************************************************************************)
(* The tests, between two calls of the manager, and the servers.           *)
(***************************************************************************)
\* A test closes its wallet itself, also after it has freed the slot.
TestCloses(c) == /\ pc = "idle" /\ at[c] # None
                 /\ Managed(c) \/ wallets[at[c]] = None
                 /\ Closed(at[c])
                 /\ UNCHANGED <<wallets, at, manager, failed, healthy>>

\* test_close opens its wallet again after it has freed the slot, which nobody
\* has taken since.
TestReopens(c) == /\ pc = "idle" /\ at[c] # None
                  /\ Managed(c) \/ wallets[at[c]] = None
                  /\ opened' = [opened EXCEPT ![at[c]] = c]
                  /\ failed' = IF Managed(c) THEN failed ELSE failed \cup {at[c]}
                  /\ UNCHANGED <<wallets, at, manager, healthy>>

TestForgets(c) == /\ pc = "idle" /\ at[c] # None /\ ~Managed(c)
                  /\ at' = [at EXCEPT ![c] = None]
                  /\ UNCHANGED <<wallets, opened, manager, failed, healthy>>

ServerRestarts(s) == /\ ~healthy
                     /\ Closed(s)
                     /\ UNCHANGED <<wallets, at, manager, failed, healthy>>

Recover == /\ ~healthy /\ healthy' = TRUE
           /\ UNCHANGED <<wallets, opened, at, manager, failed>>

-----------------------------------------------------------------------------
Step == \/ StopSyncing \/ Open \/ SetDaemon \/ IsConnected \/ StartSyncing
        \/ NoWalletFile \/ IsClosed \/ ClearCloses \/ ClearEnd

Next == \/ Step \/ SetupRaises \/ ClearRaises \/ ClearBegin \/ Recover
        \/ \E c \in Clients : \/ SetupBegin(c) \/ Free(c)
                              \/ TestCloses(c) \/ TestReopens(c) \/ TestForgets(c)
        \/ \E s \in Slots : ServerRestarts(s)

\* Calls return, and the tests' after_each calls clear again and again.
Spec == Init /\ [][Next]_vars /\ WF_vars(Step) /\ SF_vars(ClearBegin)

-----------------------------------------------------------------------------
(* Every variable keeps its type; a client in a slot is connected to that  *)
(* slot's server.                                                          *)
TypeOK == /\ wallets \in [Slots -> Clients \cup {None}]
          /\ opened  \in [Slots -> Clients \cup {None}]
          /\ at \in [Clients -> Slots \cup {None}]
          /\ pc \in Requests /\ slot \in Slots /\ client \in Clients
          /\ todo \subseteq Taken /\ failed \subseteq Slots
          /\ healthy \in BOOLEAN
          /\ \A s \in Slots : wallets[s] # None => at[wallets[s]] = s

(* A wallet in use is not exchanged under its client: the server of a taken *)
(* slot has the wallet of the slot's client open, or none; whatever failed *)
(* before, and whoever else opened wallets since.                          *)
OwnWallet == \A s \in Taken : opened[s] \in {wallets[s], None}

(* Slots and servers agree between two calls: a wallet is open in a server *)
(* whose slot is free only when a call that should have closed it, or that *)
(* opened it, has failed since, or a test opened it by itself.             *)
SlotsMatchServers == pc = "idle" =>
    \A s \in Slots \ Taken : opened[s] # None => s \in failed

(* A clear that returns leaves no wallet open in the slots that were taken, *)
(* also when servers restarted meanwhile or an earlier clear failed.       *)
ClearEmpties ==
    [][ClearEnd => \A s \in Taken : opened[s] = None]_vars

(* When requests stop failing all slots become free again: whatever state  *)
(* the failures left, clear gets through.                                  *)
Recovers == healthy ~> (Taken = {})

(* To the tests the manager is a pool of servers with one holder each.     *)
Pool == INSTANCE Leases WITH Servers <- Slots, holder <- wallets
ImplementsLeases == Pool!Spec
=============================================================================
