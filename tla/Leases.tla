-------------------------------- MODULE Leases --------------------------------
(***************************************************************************)
(* What users of a pool of servers are promised, whatever fails underneath:*)
(* a server that is granted to a client belongs to that client alone until *)
(* the client gives it back, or all servers are taken back together.       *)
(***************************************************************************)
CONSTANTS Servers, Clients, None

VARIABLE holder     \* the client of a server, None when it is free

Init == holder = [s \in Servers |-> None]

Grant(s, c) == /\ holder[s] = None
               /\ \A t \in Servers : holder[t] # c
               /\ holder' = [holder EXCEPT ![s] = c]

GiveBack(s) == holder' = [holder EXCEPT ![s] = None]

TakeBackAll == holder' = [s \in Servers |-> None]

Next == \/ \E s \in Servers, c \in Clients : Grant(s, c)
        \/ \E s \in Servers : GiveBack(s)
        \/ TakeBackAll

Spec == Init /\ [][Next]_holder
=============================================================================
