--------------------------- MODULE QueryLinksProof ---------------------------
(***************************************************************************)
(* Proofs about QueryLinks, for any number of queries: the two ends of     *)
(* every link agree, and the two fields implement one relation.            *)
(***************************************************************************)
EXTENDS QueryLinks, TLAPS

(* What the guard of a careful call on the side of the tx query says.      *)
CarefulChild(q, s, c) == c # None => tx_query[c] = None \/ child[q][s] = c

(* What the guard of a careful call on the side of the child says.         *)
CarefulTxQuery(c, s, q) == /\ q # None => child[q][s] = None
                           /\ tx_query[c] # None => child[tx_query[c]][s] = c

IInv == TypeOK /\ Mutual

-----------------------------------------------------------------------------
(* The slots, by the child they fit: what the proofs use of the kinds.     *)
LEMMA FitsSlots ==
    /\ \A s \in Slots : Fits(s) \subseteq Children
    /\ \A s \in Slots : \A c \in Fits(s) : s \in SlotsOf(c)
    /\ \A c \in Children : \A s \in SlotsOf(c) : s \in Slots /\ c \in Fits(s)
    /\ None \notin Children /\ None \notin TxQueries
BY QueriesAssumption DEF Fits, SlotsOf, Slots, Children

(* No query is linked at the start.                                        *)
LEMMA InitInvariant == Init => IInv
BY FitsSlots DEF Init, IInv, TypeOK, Mutual, ChildrenPointBack, ParentsHold, OnePlace

(* A setter of the tx query: the slot is q's now, the old child is free.   *)
LEMMA SetChildInvariant ==
    ASSUME IInv, NEW q \in TxQueries, NEW s \in Slots, NEW c \in Fits(s) \cup {None},
           CarefulChild(q, s, c), SetChild(q, s, c)
    PROVE  IInv'
<1> DEFINE old == child[q][s]
<1>1. /\ \A p \in TxQueries, z \in Slots :
            child'[p][z] = IF p = q /\ z = s THEN c ELSE child[p][z]
      /\ \A d \in Children :
            tx_query'[d] = CASE d = c -> q
                             [] d = old /\ d # c -> None
                             [] OTHER -> tx_query[d]
  BY DEF SetChild, IInv, TypeOK
<1>2. TypeOK'
  BY FitsSlots DEF SetChild, IInv, TypeOK
<1>3. \A p \in TxQueries, z \in Slots :
        (p # q \/ z # s) /\ child[p][z] # None => child[p][z] # c /\ child[p][z] # old
  BY FitsSlots DEF IInv, TypeOK, Mutual, ChildrenPointBack, OnePlace, CarefulChild
<1>4. ChildrenPointBack'
  BY <1>1, <1>2, <1>3, FitsSlots
  DEF TypeOK, IInv, Mutual, ChildrenPointBack
<1>5. ParentsHold'
  <2> SUFFICES ASSUME NEW d \in Children, tx_query'[d] # None
               PROVE  \E z \in SlotsOf(d) : child'[tx_query'[d]][z] = d
    BY DEF ParentsHold
  <2>1. CASE d = c
    BY <2>1, <1>1, FitsSlots
  <2>2. CASE d # c
    <3>1. d # old /\ tx_query'[d] = tx_query[d]
      BY <2>2, <1>1
    <3>2. PICK z \in SlotsOf(d) : child[tx_query[d]][z] = d
      BY <3>1 DEF IInv, Mutual, ParentsHold
    <3>3. z \in Slots /\ tx_query[d] \in TxQueries
      BY <3>1, FitsSlots DEF IInv, TypeOK
    <3>4. ~(tx_query[d] = q /\ z = s)
      BY <3>1, <3>2
    <3>5. QED
      BY <3>1, <3>2, <3>3, <3>4, <1>1
  <2>3. QED
    BY <2>1, <2>2
<1>6. OnePlace'
  BY <1>1, <1>3 DEF IInv, Mutual, OnePlace
<1>7. QED
  BY <1>2, <1>4, <1>5, <1>6 DEF IInv, Mutual

(* A setter of the child: it leaves its place at old and goes to q.        *)
LEMMA SetTxQueryInvariant ==
    ASSUME IInv, NEW c \in Children, NEW s \in SlotsOf(c),
           NEW q \in TxQueries \cup {None},
           CarefulTxQuery(c, s, q), SetTxQuery(c, s, q)
    PROVE  IInv'
<1> DEFINE old == tx_query[c]
<1>1. s \in Slots /\ c \in Fits(s)
  BY FitsSlots
<1>2. q # old \/ q = None
  BY FitsSlots DEF CarefulTxQuery
<1>3. /\ \A p \in TxQueries, z \in Slots :
            child'[p][z] = IF z = s /\ p = old THEN None
                           ELSE IF z = s /\ p = q THEN c ELSE child[p][z]
      /\ \A d \in Children : tx_query'[d] = IF d = c THEN q ELSE tx_query[d]
  BY <1>1, <1>2, FitsSlots DEF SetTxQuery, IInv, TypeOK
<1>4. TypeOK'
  <2>1. /\ child' \in [TxQueries -> [Slots -> Children \cup {None}]]
        /\ tx_query' \in [Children -> TxQueries \cup {None}]
    BY <1>1, FitsSlots DEF SetTxQuery, IInv, TypeOK
  <2>2. QED
    BY <2>1, <1>1, <1>3 DEF IInv, TypeOK
<1>5. \A p \in TxQueries, z \in Slots : child[p][z] = c => p = old /\ z = s
  BY <1>1, FitsSlots
  DEF IInv, TypeOK, Mutual, ChildrenPointBack, OnePlace, CarefulTxQuery
<1>6. ChildrenPointBack'
  BY <1>1, <1>3, <1>4, <1>5, FitsSlots DEF IInv, TypeOK, Mutual, ChildrenPointBack
<1>7. ParentsHold'
  <2> SUFFICES ASSUME NEW d \in Children, tx_query'[d] # None
               PROVE  \E z \in SlotsOf(d) : child'[tx_query'[d]][z] = d
    BY DEF ParentsHold
  <2>1. CASE d = c
    BY <2>1, <1>1, <1>2, <1>3
  <2>2. CASE d # c
    <3>1. tx_query'[d] = tx_query[d] /\ tx_query[d] \in TxQueries
      BY <2>2, <1>3 DEF IInv, TypeOK
    <3>2. PICK z \in SlotsOf(d) : child[tx_query[d]][z] = d
      BY <3>1 DEF IInv, Mutual, ParentsHold
    <3>3. z \in Slots /\ ~(z = s /\ tx_query[d] = q) /\ ~(z = s /\ tx_query[d] = old)
      BY <2>2, <3>1, <3>2, FitsSlots DEF CarefulTxQuery, IInv, Mutual, OnePlace
    <3>4. QED
      BY <3>1, <3>2, <3>3, <1>3
  <2>3. QED
    BY <2>1, <2>2
<1>8. OnePlace'
  BY <1>3, <1>5 DEF IInv, Mutual, OnePlace
<1>9. QED
  BY <1>4, <1>6, <1>7, <1>8 DEF IInv, Mutual

(* Each setter keeps the invariant, called as CarefulNext calls it.        *)
LEMMA NextInvariant == IInv /\ [CarefulNext]_vars => IInv'
<1> SUFFICES ASSUME IInv, [CarefulNext]_vars PROVE IInv'
  OBVIOUS
<1>1. CASE UNCHANGED vars
  BY <1>1
  DEF vars, IInv, TypeOK, Mutual, ChildrenPointBack, ParentsHold, OnePlace
<1>2. CASE CarefulNext
  BY <1>2, SetChildInvariant, SetTxQueryInvariant
  DEF CarefulNext, CarefulChild, CarefulTxQuery
<1>3. QED
  BY <1>1, <1>2

LEMMA Invariance == CarefulSpec => []IInv
BY InitInvariant, NextInvariant, PTL DEF CarefulSpec

(* Calls that bring in free queries keep the two ends of every link in     *)
(* agreement, for any set of queries.                                      *)
THEOREM MutualLinks == CarefulSpec => []Mutual
<1>1. IInv => Mutual
  BY DEF IInv
<1>2. QED
  BY <1>1, Invariance, PTL

(* Slots hold the queries that fit them, and back pointers tx queries.     *)
THEOREM TypeCorrect == CarefulSpec => []TypeOK
<1>1. IInv => TypeOK
  BY DEF IInv
<1>2. QED
  BY <1>1, Invariance, PTL

-----------------------------------------------------------------------------
(* The refinement: a step on the two fields is a step on one relation.     *)
links == {l \in TxQueries \X Slots \X Children : child[l[1]][l[2]] = l[3]}

(* The relation, by its places.                                            *)
LEMMA LinksByPlace ==
    /\ links \subseteq TxQueries \X Slots \X Children
    /\ \A q \in TxQueries, s \in Slots, c \in Children :
         <<q, s, c>> \in links <=> child[q][s] = c
BY DEF links

(* A setter of the tx query links the pair, unlinks what the slot held, or *)
(* does nothing.                                                           *)
LEMMA SetChildRefines ==
    ASSUME IInv, NEW q \in TxQueries, NEW s \in Slots, NEW c \in Fits(s) \cup {None},
           CarefulChild(q, s, c), SetChild(q, s, c)
    PROVE  [Pairs!Next]_links
<1> DEFINE old == child[q][s]
<1>1. \A p \in TxQueries, z \in Slots :
        child'[p][z] = IF p = q /\ z = s THEN c ELSE child[p][z]
  BY DEF SetChild, IInv, TypeOK
<1>2. \A p \in TxQueries, z \in Slots, d \in Children :
        <<p, z, d>> \in links' <=> IF p = q /\ z = s THEN c = d ELSE child[p][z] = d
  BY <1>1 DEF links
<1>3. links' \subseteq TxQueries \X Slots \X Children
  BY DEF links
<1>4. CASE c # None
  <2>1. c \in Children
    BY <1>4, FitsSlots
  <2>2. \A p \in TxQueries, z \in Slots : child[p][z] = c => p = q /\ z = s
    BY <1>4, <2>1, FitsSlots
    DEF IInv, TypeOK, Mutual, ChildrenPointBack, OnePlace, CarefulChild
  <2>3. links' = (links \ ({l \in links : l[1] = q /\ l[2] = s}
                             \cup {l \in links : l[3] = c})) \cup {<<q, s, c>>}
    BY <1>2, <1>3, <2>1, <2>2, LinksByPlace
  <2>4. Pairs!Link(q, s, c)
    BY <2>3 DEF Pairs!Link, Pairs!InPlace, Pairs!Of, links
  <2>5. QED
    BY <2>1, <2>4 DEF Pairs!Next
<1>5. CASE c = None /\ old # None
  <2>1. old \in Children
    BY <1>5, FitsSlots DEF IInv, TypeOK
  <2>2. <<q, s, old>> \in links /\ links' = links \ {<<q, s, old>>}
    BY <1>2, <1>3, <1>5, <2>1, FitsSlots, LinksByPlace
  <2>3. \E l \in links : l \in links /\ links' = links \ {l}
    BY <2>2, Zenon
  <2>4. QED
    BY <2>3 DEF Pairs!Next, Pairs!LetGo, links
<1>6. CASE c = None /\ old = None
  <2>1. \A p \in TxQueries, z \in Slots : child'[p][z] = child[p][z]
    BY <1>1, <1>6
  <2>2. links' = links
    BY <2>1 DEF links
  <2>3. QED
    BY <2>2 DEF links
<1>7. QED
  BY <1>4, <1>5, <1>6

(* A setter of the child moves its link to q, unlinks it, or does nothing. *)
LEMMA SetTxQueryRefines ==
    ASSUME IInv, NEW c \in Children, NEW s \in SlotsOf(c),
           NEW q \in TxQueries \cup {None},
           CarefulTxQuery(c, s, q), SetTxQuery(c, s, q)
    PROVE  [Pairs!Next]_links
<1> DEFINE old == tx_query[c]
<1>1. s \in Slots /\ c \in Fits(s) /\ (q # old \/ q = None)
  BY FitsSlots DEF CarefulTxQuery
<1>2. \A p \in TxQueries, z \in Slots :
        child'[p][z] = IF z = s /\ p = old THEN None
                       ELSE IF z = s /\ p = q THEN c ELSE child[p][z]
  BY <1>1, FitsSlots DEF SetTxQuery, IInv, TypeOK
<1>3. \A p \in TxQueries, z \in Slots : child[p][z] = c <=> p = old /\ z = s
  <2>1. \A p \in TxQueries, z \in Slots : child[p][z] = c => p = old /\ z = s
    BY <1>1, FitsSlots
    DEF IInv, TypeOK, Mutual, ChildrenPointBack, OnePlace, CarefulTxQuery
  <2>2. old \in TxQueries => child[old][s] = c
    BY FitsSlots DEF CarefulTxQuery
  <2>3. QED
    BY <2>1, <2>2
<1>4. \A p \in TxQueries, z \in Slots, d \in Children :
        <<p, z, d>> \in links' <=>
          IF z = s /\ p = q THEN d = c ELSE d # c /\ child[p][z] = d
  BY <1>1, <1>2, <1>3, FitsSlots DEF links
<1>5. links' \subseteq TxQueries \X Slots \X Children
  BY DEF links
<1>6. CASE q # None
  <2>1. q \in TxQueries /\ child[q][s] = None
    BY <1>6 DEF CarefulTxQuery
  <2>2. links' = (links \ ({l \in links : l[1] = q /\ l[2] = s}
                             \cup {l \in links : l[3] = c})) \cup {<<q, s, c>>}
    BY <1>1, <1>4, <1>5, <2>1, FitsSlots, LinksByPlace
  <2>3. Pairs!Link(q, s, c)
    BY <2>2 DEF Pairs!Link, Pairs!InPlace, Pairs!Of, links
  <2>4. QED
    BY <1>1, <2>1, <2>3 DEF Pairs!Next
<1>7. CASE q = None /\ old # None
  <2>1. old \in TxQueries
    BY <1>7 DEF IInv, TypeOK
  <2>2. <<old, s, c>> \in links /\ links' = links \ {<<old, s, c>>}
    BY <1>1, <1>3, <1>4, <1>5, <1>7, <2>1, FitsSlots, LinksByPlace
  <2>3. \E l \in links : l \in links /\ links' = links \ {l}
    BY <2>2, Zenon
  <2>4. QED
    BY <2>3 DEF Pairs!Next, Pairs!LetGo, links
<1>8. CASE q = None /\ old = None
  <2>1. \A p \in TxQueries, z \in Slots : child'[p][z] = child[p][z]
    BY <1>2, <1>8, FitsSlots
  <2>2. links' = links
    BY <2>1 DEF links
  <2>3. QED
    BY <2>2 DEF links
<1>9. QED
  BY <1>6, <1>7, <1>8

(* The pairs of fields, used with care, implement the one relation.        *)
THEOREM Refinement == CarefulSpec => ImplementsLinkedPairs
<1>1. CarefulSpec => []IInv
  BY InitInvariant, NextInvariant, PTL DEF CarefulSpec
<1>2. Init => Pairs!Init
  BY FitsSlots DEF Init, Pairs!Init
<1>3. IInv /\ [CarefulNext]_vars => [Pairs!Next]_links
  <2> SUFFICES ASSUME IInv, [CarefulNext]_vars PROVE [Pairs!Next]_links
    OBVIOUS
  <2>1. CASE UNCHANGED vars
    BY <2>1 DEF vars, links
  <2>2. CASE CarefulNext
    BY <2>2, SetChildRefines, SetTxQueryRefines
    DEF CarefulNext, CarefulChild, CarefulTxQuery
  <2>3. QED
    BY <2>1, <2>2
<1>4. QED
  BY <1>1, <1>2, <1>3, PTL
  DEF CarefulSpec, ImplementsLinkedPairs, Pairs!Spec, links
=============================================================================
