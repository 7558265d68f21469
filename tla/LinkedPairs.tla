----------------------------- MODULE LinkedPairs -----------------------------
(***************************************************************************)
(* What the links between queries promise: each link is one thing, not two *)
(* pointers.  A slot of a parent holds at most one child, a child is in at *)
(* most one slot; a new link takes the place of the ones it excludes, and  *)
(* a link that is let go is gone for both ends.                            *)
(***************************************************************************)
CONSTANTS Parents, Slots, Children

VARIABLE links   \* {<<p, s, c>>: child c is in slot s of parent p}

InPlace(p, s) == {l \in links : l[1] = p /\ l[2] = s}
Of(c)         == {l \in links : l[3] = c}

Init == links = {}

Link(p, s, c) == links' = (links \ (InPlace(p, s) \cup Of(c))) \cup {<<p, s, c>>}

LetGo(l) == l \in links /\ links' = links \ {l}

Next == \/ \E p \in Parents, s \in Slots, c \in Children : Link(p, s, c)
        \/ \E l \in links : LetGo(l)

Spec == Init /\ [][Next]_links
=============================================================================
