------------------------------ MODULE QueryLinks ------------------------------
(***************************************************************************)
(* The links between a transaction query and the queries below it.         *)
(*                                                                         *)
(* A MoneroTxQuery has a transfer query, an input query and an output      *)
(* query; each of those points back to its tx query.  The two ends are two *)
(* shared_ptr fields of two objects, and the bindings' property setters    *)
(* keep them together: three setters on the side of the tx query, one on a *)
(* transfer query, one method on an output query (which serves as input    *)
(* query too).                                                             *)
(***************************************************************************)
EXTENDS FiniteSets

CONSTANTS TxQueries, TransferQueries, OutputQueries,
          None    \* nullptr, and Python's None

Children == TransferQueries \cup OutputQueries

ASSUME QueriesAssumption ==
    /\ TransferQueries \cap OutputQueries = {}
    /\ None \notin TxQueries \cup Children

Slots == {"transfer_query", "input_query", "output_query"}
SlotsOf(c) == IF c \in TransferQueries THEN {"transfer_query"}
                                       ELSE {"input_query", "output_query"}
Fits(s)    == {c \in Children : s \in SlotsOf(c)}

VARIABLES child,    \* child[q][s]: the query in slot s of tx query q, or None
          tx_query  \* tx_query[c]: the tx query that c points back to, or None

vars == <<child, tx_query>>

Init == /\ child = [q \in TxQueries |-> [s \in Slots |-> None]]
        /\ tx_query = [c \in Children |-> None]

-----------------------------------------------------------------------------
(***************************************************************************)
(* Faulty variants of the setters, for the checks that the properties tell *)
(* them from the real ones.                                                *)
(***************************************************************************)
\* The child that loses its slot keeps its pointer.
SetChildOnly(q, s, c) == /\ child' = [child EXCEPT ![q][s] = c]
                         /\ tx_query' = [d \in Children |-> IF d = c THEN q ELSE tx_query[d]]

\* The tx query that loses its child keeps its pointer.
SetTxQueryOnly(c, s, q) ==
    /\ tx_query' = [tx_query EXCEPT ![c] = q]
    /\ child' = [p \in TxQueries |->
                   IF p = q THEN [child[p] EXCEPT ![s] = c] ELSE child[p]]

\* Every child goes to the slot of transfer queries.
SetTxQueryOneSlot(c, s, q) ==
    /\ tx_query' = [tx_query EXCEPT ![c] = q]
    /\ child' = [p \in TxQueries |->
                   IF p = q THEN [child[p] EXCEPT !.transfer_query = c] ELSE child[p]]

(***************************************************************************)
(* q.transfer_query = c, q.input_query = c, q.output_query = c: set_query. *)
(***************************************************************************)
SetChild(q, s, c) ==
    LET old == child[q][s]
    IN  /\ child' = [child EXCEPT ![q][s] = c]
        /\ tx_query' = [d \in Children |->
                          CASE d = c   -> q
                            [] d = old /\ d # c -> None
                            [] OTHER   -> tx_query[d]]

(***************************************************************************)
(* c.tx_query = q of a transfer query, c.set_tx_query(q, output_query) of  *)
(* an output query: q gets c, then the previous tx query loses its link in *)
(* the slot of this call, whatever is there and whichever query it is.     *)
(***************************************************************************)
SetTxQuery(c, s, q) ==
    LET old == tx_query[c]
    IN  /\ tx_query' = [tx_query EXCEPT ![c] = q]
        /\ child' = [p \in TxQueries |->
                       [child[p] EXCEPT ![s] = CASE p = old -> None
                                                 [] p = q /\ p # old -> c
                                                 [] OTHER -> @]]

-----------------------------------------------------------------------------
\* Any call Python can make.
Next == \/ \E q \in TxQueries, s \in Slots : \E c \in Fits(s) \cup {None} :
                SetChild(q, s, c)
        \/ \E c \in Children : \E s \in SlotsOf(c), q \in TxQueries \cup {None} :
                SetTxQuery(c, s, q)

Spec == Init /\ [][Next]_vars

(***************************************************************************)
(* The calls that the code handles: a query brought in is not linked to    *)
(* another one.  An occupied slot may be overwritten, a child may move to  *)
(* the free slot of another tx query, a tx query may set the child that it *)
(* has, and either side may let go of the other.                           *)
(***************************************************************************)
CarefulNext ==
    \/ \E q \in TxQueries, s \in Slots : \E c \in Fits(s) \cup {None} :
         /\ c # None => tx_query[c] = None \/ child[q][s] = c
         /\ SetChild(q, s, c)
    \/ \E c \in Children : \E s \in SlotsOf(c), q \in TxQueries \cup {None} :
         /\ q # None => child[q][s] = None
         /\ tx_query[c] # None => child[tx_query[c]][s] = c
         /\ SetTxQuery(c, s, q)

CarefulSpec == Init /\ [][CarefulNext]_vars

-----------------------------------------------------------------------------
(* A slot holds a query that fits it; a child points to a tx query.        *)
TypeOK == /\ child \in [TxQueries -> [Slots -> Children \cup {None}]]
          /\ \A q \in TxQueries, s \in Slots : child[q][s] \in Fits(s) \cup {None}
          /\ tx_query \in [Children -> TxQueries \cup {None}]

(* What a tx query holds points back to it.                                *)
ChildrenPointBack ==
    \A q \in TxQueries, s \in Slots : child[q][s] # None => tx_query[child[q][s]] = q

(* What a query points back to holds it, in one of the slots that fit.     *)
ParentsHold ==
    \A c \in Children : tx_query[c] # None =>
        \E s \in SlotsOf(c) : child[tx_query[c]][s] = c

(* No query serves in two places.                                          *)
OnePlace ==
    \A q, r \in TxQueries, s, z \in Slots :
        child[q][s] = child[r][z] /\ child[q][s] # None => q = r /\ s = z

(* The two ends of every link agree, through any sequence of calls that    *)
(* brings in free queries: overwritten, moved and removed links leave      *)
(* nothing behind on either side.                                          *)
Mutual == ChildrenPointBack /\ ParentsHold /\ OnePlace

(* For such calls the two fields are as good as one relation between tx   *)
(* queries and the queries below them.                                     *)
Pairs == INSTANCE LinkedPairs
           WITH Parents <- TxQueries,
                links <- {l \in TxQueries \X Slots \X Children :
                            child[l[1]][l[2]] = l[3]}
ImplementsLinkedPairs == Pairs!Spec

(* A query that was told its tx query is found there: the tests assert it  *)
(* after set_tx_query and after an assignment to tx_query.                 *)
ChildSideLinks ==
    [][\A c \in Children : \A s \in SlotsOf(c), q \in TxQueries :
         SetTxQuery(c, s, q) => child'[q][s] = c]_vars
=============================================================================
