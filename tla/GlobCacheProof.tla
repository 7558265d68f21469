-------------------------- MODULE GlobCacheProof --------------------------
(***************************************************************************)
(* What a search remembers of a path is true of the files.  Several        *)
(* searches ask lstat, stat and readdir about the same path; the answers   *)
(* come in any order, are shared by RES and cleanup, lie in the queues of  *)
(* a pause and of nextTick, and are written into one cache by whoever is   *)
(* called with them.                                                       *)
(*                                                                         *)
(* CacheInv says of every function that is still to be called, wherever it *)
(* waits, that it speaks of a path and is called with what fs answers for  *)
(* that path (Fine); of those who wait for a request or for fs, that they  *)
(* are asked about the path they will get the answer of (Takes, Gets); and *)
(* of a cache what CacheTrue says of it.  Each action is shown to keep it, *)
(* given IInv of GlobProof.                                                *)
(*                                                                         *)
(* DIR and FILE may be written after an lstat that found no link, and are  *)
(* about what stat finds: these are the same if the links lead somewhere,  *)
(* for what lies under a circle of links the model does not say.           *)
(* StraightLinksLead gives a way to see that they do.                      *)
(***************************************************************************)
EXTENDS GlobProof

-----------------------------------------------------------------------------
(***************************************************************************)
(* What a search remembers is true.  First: paths and patterns.            *)
(***************************************************************************)
LEMMA LeastOf ==
    ASSUME NEW S, S \subseteq Nat, S # {}
    PROVE  \E n \in S : \A m \in S : n <= m
<1> DEFINE R == {ss \in Nat \X Nat : ss[1] < ss[2]}
<1>1. IsWellFoundedOn(R, Nat)
  BY NatLessThanWellFounded DEF OpToRel
<1> HIDE DEF R
<1>2. PICK n \in S : \A m \in S : ~(<<m, n>> \in R)
  BY <1>1, WFMin
<1>3. ASSUME NEW m \in S PROVE n <= m
  <2>1. ~(m < n)
    BY <1>2 DEF R
  <2>2. QED
    BY <2>1
<1>4. QED
  BY <1>2, <1>3

(* A recursion by smaller and smaller ranks has a solution.                *)
Solves(f, D, V, Ends, base, step, next) ==
    \A x \in D : /\ x \in Ends => f[x] = base
                 /\ x \notin Ends /\ f[next[x]] \in V => f[x] = step[<<x, f[next[x]]>>]

LEMMA Folding ==
    ASSUME NEW D, NEW V, NEW base \in V, NEW Ends \in SUBSET D, NEW step \in [D \X V -> V],
           NEW next \in [D -> D], NEW rank \in [D -> Nat],
           \A x \in D \ Ends : rank[next[x]] < rank[x]
    PROVE  /\ \A n \in Nat : (\A x \in D : rank[x] < n) =>
                \E f \in [D -> V] : Solves(f, D, V, Ends, base, step, next)
           /\ \A f : Solves(f, D, V, Ends, base, step, next) => \A x \in D : f[x] \in V
<1> DEFINE Lower(n)  == {x \in D : rank[x] < n}
           Sol(n, f) == \A x \in Lower(n) : f[x] = IF x \in Ends THEN base ELSE step[<<x, f[next[x]]>>]
           Stepped(f)   == [x \in D |-> IF x \in Ends THEN base ELSE step[<<x, f[next[x]]>>]]
           Unsolved      == {n \in Nat : ~\E f \in [D -> V] : Sol(n, f)}
<1>1. \A n \in Nat : \E f \in [D -> V] : Sol(n, f)
  <2>1. SUFFICES ASSUME Unsolved # {} PROVE FALSE
    OBVIOUS
  <2>2. PICK n \in Unsolved : \A m \in Unsolved : n <= m
    <3>1. Unsolved \subseteq Nat
      OBVIOUS
    <3> HIDE DEF Unsolved
    <3>2. QED
      BY <2>1, <3>1, LeastOf
  <2>3. n # 0
    <3>1. Lower(0) = {}
      OBVIOUS
    <3>2. [x \in D |-> base] \in [D -> V]
      OBVIOUS
    <3>3. Sol(0, [x \in D |-> base])
      BY <3>1
    <3>4. QED
      BY <2>2, <3>2, <3>3
  <2>4. PICK f \in [D -> V] : Sol(n - 1, f)
    <3>1. n - 1 \in Nat /\ n - 1 \notin Unsolved
      BY <2>2, <2>3
    <3>2. QED
      BY <3>1
  <2>5. Stepped(f) \in [D -> V]
    OBVIOUS
  <2>6. Sol(n, Stepped(f))
    <3> SUFFICES ASSUME NEW x \in Lower(n), x \notin Ends
                 PROVE  Stepped(f)[x] = step[<<x, Stepped(f)[next[x]]>>]
      OBVIOUS
    <3>1. next[x] \in Lower(n - 1)
      BY <2>2
    <3>2. Stepped(f)[next[x]] = f[next[x]]
      BY <2>4, <3>1
    <3>3. QED
      BY <3>2
  <2>7. QED
    BY <2>2, <2>5, <2>6
<1>2. ASSUME NEW n \in Nat, \A x \in D : rank[x] < n
      PROVE  \E f \in [D -> V] : Solves(f, D, V, Ends, base, step, next)
  <2>1. PICK f \in [D -> V] : Sol(n, f)
    BY <1>1
  <2>2. Solves(f, D, V, Ends, base, step, next)
    BY <1>2, <2>1 DEF Solves
  <2>3. QED
    BY <2>2
<1>3. ASSUME NEW f, Solves(f, D, V, Ends, base, step, next) PROVE \A x \in D : f[x] \in V
  <2> DEFINE Bad == {k \in Nat : \E x \in D : rank[x] = k /\ f[x] \notin V}
  <2>1. SUFFICES ASSUME Bad # {} PROVE FALSE
    OBVIOUS
  <2>2. PICK k \in Bad : \A j \in Bad : k <= j
    <3>1. Bad \subseteq Nat
      OBVIOUS
    <3> HIDE DEF Bad
    <3>2. QED
      BY <2>1, <3>1, LeastOf
  <2>3. PICK x \in D : rank[x] = k /\ f[x] \notin V
    BY <2>2
  <2>4. x \notin Ends
    BY <1>3, <2>3 DEF Solves
  <2>5. f[next[x]] \notin V
    BY <1>3, <2>3, <2>4 DEF Solves
  <2>6. rank[next[x]] \in Bad /\ rank[next[x]] < k
    BY <2>3, <2>4, <2>5
  <2>7. QED
    BY <2>2, <2>6
<1>4. QED
  BY <1>2, <1>3

LEMMA MinIn ==
    ASSUME NEW S, NEW seq \in Seq(S), NEW s \in SUBSET DOMAIN seq, s # {}
    PROVE  Min(s) \in s /\ seq[Min(s)] \in S
<1>1. DOMAIN seq = 1..Len(seq) /\ Len(seq) \in Nat
  OBVIOUS
<1>2. s \subseteq Nat
  BY <1>1
<1>3. \E n \in s : \A m \in s : n <= m
  BY <1>2, LeastOf
<1>4. Min(s) \in s
  BY <1>3 DEF Min
<1>5. QED
  BY <1>1, <1>4

Folds(h, seq, V, base, op) ==
    \A s \in SUBSET DOMAIN seq :
       /\ s = {} => h[s] = base
       /\ s # {} /\ h[s \ {Min(s)}] \in V => h[s] = op[<<seq[Min(s)], h[s \ {Min(s)}]>>]

(* A fold from the right, with the sequence and the first of what is left. *)
LEMMA FoldOf ==
    ASSUME NEW S, NEW seq \in Seq(S), NEW V, NEW base \in V, NEW op \in [S \X V -> V]
    PROVE  /\ \E h \in [SUBSET DOMAIN seq -> V] : Folds(h, seq, V, base, op)
           /\ \A h : Folds(h, seq, V, base, op) => h[DOMAIN seq] \in V
<1> DEFINE D == SUBSET DOMAIN seq
           next == [s \in D |-> s \ {Min(s)}]
           step == [z \in D \X V |-> IF z[1] = {} THEN base ELSE op[<<seq[Min(z[1])], z[2]>>]]
           rank == [s \in D |-> Cardinality(s)]
<1>1. DOMAIN seq = 1..Len(seq) /\ Len(seq) \in Nat
  OBVIOUS
<1>2. ASSUME NEW s \in D PROVE IsFiniteSet(s) /\ Cardinality(s) \in Nat /\ Cardinality(s) <= Len(seq)
  <2>1. IsFiniteSet(1..Len(seq)) /\ Cardinality(1..Len(seq)) = Len(seq)
    <3> DEFINE n == Len(seq)
    <3>1. n \in Nat
      BY <1>1
    <3> HIDE DEF n
    <3>2. IsFiniteSet(1..n) /\ Cardinality(1..n) = n
      BY <3>1, FS_Interval
    <3>3. QED
      BY <3>2 DEF n
  <2>2. QED
    BY <1>1, <2>1, FS_Subset, FS_CardinalityType
<1>3. ASSUME NEW s \in D, s # {} PROVE Min(s) \in s
  BY <1>3, MinIn
<1>4. next \in [D -> D] /\ rank \in [D -> Nat]
  BY <1>2
<1>14. ASSUME NEW s \in D, NEW v \in V, s # {}
       PROVE  next[s] = s \ {Min(s)} /\ step[<<s, v>>] = op[<<seq[Min(s)], v>>]
  <2> HIDE DEF D
  <2>1. <<s, v>> \in D \X V
    OBVIOUS
  <2>2. QED
    BY <2>1, <1>14
<1>5. step \in [D \X V -> V]
  <2>1. ASSUME NEW s \in D, NEW v \in V, s # {} PROVE op[<<seq[Min(s)], v>>] \in V
    <3>1. seq[Min(s)] \in S
      BY <1>1, <1>3, <2>1
    <3>2. QED
      BY <3>1
  <2>2. QED
    BY <2>1
<1>6. ASSUME NEW s \in D \ {{}} PROVE rank[next[s]] < rank[s]
  <2>1. Cardinality(s \ {Min(s)}) = Cardinality(s) - 1
    BY <1>2, <1>3, FS_RemoveElement
  <2>2. QED
    BY <1>2, <2>1
<1>7. \A s \in D : rank[s] < Len(seq) + 1
  BY <1>1, <1>2
<1>8. {{}} \in SUBSET D /\ Len(seq) + 1 \in Nat
  BY <1>1
<1>9. \A f : Solves(f, D, V, {{}}, base, step, next) => \A s \in D : f[s] \in V
  <2> HIDE DEF D, step, next, rank
  <2>1. QED
    BY <1>4, <1>5, <1>6, <1>8, Folding
<1>10. PICK f \in [D -> V] : Solves(f, D, V, {{}}, base, step, next)
  <2> HIDE DEF D, step, next, rank
  <2> DEFINE Some == \A n \in Nat : (\A x \in D : rank[x] < n) =>
                       \E f \in [D -> V] : Solves(f, D, V, {{}}, base, step, next)
             All == \A f : Solves(f, D, V, {{}}, base, step, next) => \A x \in D : f[x] \in V
  <2>3. Some /\ All
    BY Zenon, <1>4, <1>5, <1>6, <1>8, Folding
  <2>1. Some
    BY <2>3
  <2>2. QED
    BY <1>7, <1>8, <2>1
<1>11. ASSUME NEW s \in D, s # {}, NEW h, h[next[s]] \in V
       PROVE  step[<<s, h[next[s]]>>] = op[<<seq[Min(s)], h[s \ {Min(s)}]>>]
  <2> HIDE DEF D, step, next
  <2>1. PICK v \in V : v = h[next[s]]
    BY <1>11
  <2>2. next[s] = s \ {Min(s)} /\ step[<<s, v>>] = op[<<seq[Min(s)], v>>]
    BY <1>14, <1>11
  <2>3. QED
    BY <2>1, <2>2, Zenon
<1>12. ASSUME NEW h PROVE Folds(h, seq, V, base, op) <=> Solves(h, D, V, {{}}, base, step, next)
  <2> HIDE DEF step, next
  <2>1. ASSUME NEW s \in D, s # {} PROVE next[s] = s \ {Min(s)}
    BY <1>4 DEF next
  <2>2. ASSUME NEW s \in D, s # {}
        PROVE  h[s \ {Min(s)}] \in V => step[<<s, h[next[s]]>>] = op[<<seq[Min(s)], h[s \ {Min(s)}]>>]
    BY <2>1, <2>2, <1>11
  <2>3. QED
    BY <2>1, <2>2, Zenon DEF Folds, Solves
<1>13. \A h : Folds(h, seq, V, base, op) => h[DOMAIN seq] \in V
  <2> HIDE DEF step, next
  <2>1. DOMAIN seq \in D
    OBVIOUS
  <2>2. QED
    BY <1>9, <1>12, <2>1
<1>15. QED
  BY <1>10, <1>12, <1>13, Zenon

LEMMA FilterIn ==
    ASSUME NEW S, NEW f \in Seq(S), NEW none
    PROVE  (CHOOSE h : h = [s \in SUBSET DOMAIN f |->
              IF s = {} THEN <<>> ELSE IF f[Min(s)] = none THEN h[s \ {Min(s)}]
                                       ELSE <<f[Min(s)]>> \o h[s \ {Min(s)}]])[DOMAIN f] \in Seq(S)
<1> DEFINE op == [z \in S \X Seq(S) |-> IF z[1] = none THEN z[2] ELSE <<z[1]>> \o z[2]]
           Eq(h) == h = [s \in SUBSET DOMAIN f |->
                           IF s = {} THEN <<>> ELSE IF f[Min(s)] = none THEN h[s \ {Min(s)}]
                                                    ELSE <<f[Min(s)]>> \o h[s \ {Min(s)}]]
           iter == CHOOSE h : Eq(h)
<1>1. op \in [S \X Seq(S) -> Seq(S)] /\ <<>> \in Seq(S)
  <2>1. ASSUME NEW name \in S, NEW p \in Seq(S) PROVE <<name>> \o p \in Seq(S)
    OBVIOUS
  <2>2. QED
    BY <2>1
<1>2. /\ \E h \in [SUBSET DOMAIN f -> Seq(S)] : Folds(h, f, Seq(S), <<>>, op)
      /\ \A h : Folds(h, f, Seq(S), <<>>, op) => h[DOMAIN f] \in Seq(S)
  <2> HIDE DEF op
  <2>1. QED
    BY <1>1, FoldOf, Zenon
<1>3. ASSUME NEW s \in SUBSET DOMAIN f, s # {}
      PROVE  f[Min(s)] \in S /\ s \ {Min(s)} \in SUBSET DOMAIN f
  BY <1>3, MinIn
<1>4. ASSUME NEW s \in SUBSET DOMAIN f, s # {}, NEW v \in Seq(S)
      PROVE  op[<<f[Min(s)], v>>] = IF f[Min(s)] = none THEN v ELSE <<f[Min(s)]>> \o v
  BY <1>3, <1>4
<1> HIDE DEF op
<1>5. ASSUME NEW h \in [SUBSET DOMAIN f -> Seq(S)], Folds(h, f, Seq(S), <<>>, op) PROVE Eq(h)
  <2>1. ASSUME NEW s \in SUBSET DOMAIN f
        PROVE  h[s] = IF s = {} THEN <<>> ELSE IF f[Min(s)] = none THEN h[s \ {Min(s)}]
                                               ELSE <<f[Min(s)]>> \o h[s \ {Min(s)}]
    <3>1. CASE s = {}
      BY <1>5, <3>1 DEF Folds
    <3>2. CASE s # {}
      <4>1. PICK v \in Seq(S) : v = h[s \ {Min(s)}]
        BY <1>3, <3>2
      <4>2. h[s] = op[<<f[Min(s)], v>>]
        BY <1>5, <3>2, <4>1, Zenon DEF Folds
      <4>3. QED
        BY <1>4, <3>2, <4>1, <4>2, Zenon
    <3>3. QED
      BY <3>1, <3>2
  <2>2. QED
    BY <2>1
<1>6. ASSUME NEW h, Eq(h) PROVE Folds(h, f, Seq(S), <<>>, op)
  <2>1. ASSUME NEW s \in SUBSET DOMAIN f
        PROVE  h[s] = IF s = {} THEN <<>> ELSE IF f[Min(s)] = none THEN h[s \ {Min(s)}]
                                               ELSE <<f[Min(s)]>> \o h[s \ {Min(s)}]
    BY <1>6
  <2>2. ASSUME NEW s \in SUBSET DOMAIN f, s # {}, h[s \ {Min(s)}] \in Seq(S)
        PROVE  h[s] = op[<<f[Min(s)], h[s \ {Min(s)}]>>]
    <3>1. PICK v \in Seq(S) : v = h[s \ {Min(s)}]
      BY <2>2
    <3>2. op[<<f[Min(s)], v>>] = IF f[Min(s)] = none THEN v ELSE <<f[Min(s)]>> \o v
      BY <1>4, <2>2
    <3>3. QED
      BY <2>1, <2>2, <3>1, <3>2, Zenon
  <2>3. QED
    BY <2>1, <2>2, Zenon DEF Folds
<1>7. Eq(iter)
  <2> HIDE DEF Eq
  <2>1. \E h : Eq(h)
    BY <1>2, <1>5, Zenon
  <2>2. QED
    BY <2>1, Zenon
<1>8. iter[DOMAIN f] \in Seq(S)
  <2> HIDE DEF Eq, iter
  <2>1. QED
    BY <1>2, <1>6, <1>7, Zenon
<1>9. QED
  BY <1>8

LEMMA FilterPath == ASSUME NEW f \in Path PROVE filter(f) \in Path
BY Zenon, FilterIn DEF filter, FoldRight, MapThenFoldSet, Path

LEMMA Updates ==
    ASSUME NEW Q, NEW acc \in [out : Q, up : Nat], NEW q \in Q
    PROVE  /\ [acc EXCEPT !.up = acc.up + 1] \in [out : Q, up : Nat]
           /\ acc.up > 0 => [acc EXCEPT !.up = acc.up - 1] \in [out : Q, up : Nat]
           /\ [acc EXCEPT !.out = q] \in [out : Q, up : Nat]
<1>1. acc.up \in Nat
  OBVIOUS
<1>2. acc.up + 1 \in Nat /\ (acc.up > 0 => acc.up - 1 \in Nat)
  BY <1>1
<1>3. \A n \in Nat : [acc EXCEPT !.up = n] \in [out : Q, up : Nat]
  OBVIOUS
<1>4. [acc EXCEPT !.out = q] \in [out : Q, up : Nat]
  OBVIOUS
<1>5. QED
  BY <1>2, <1>3, <1>4

LEMMA NormalizeIn == ASSUME NEW S, NEW f \in Seq(S) PROVE normalizeArray(f) \in Seq(S)
<1> DEFINE Acc == [out : Seq(S), up : Nat]
           base == [out |-> <<>>, up |-> 0]
           next(name, acc) == IF name = "." THEN acc
                              ELSE IF name = ".." THEN [acc EXCEPT !.up = @ + 1]
                              ELSE IF acc.up > 0 THEN [acc EXCEPT !.up = @ - 1]
                              ELSE [acc EXCEPT !.out = <<name>> \o @]
           op == [z \in S \X Acc |-> next(z[1], z[2])]
           Eq(h) == h = [s \in SUBSET DOMAIN f |->
                           IF s = {} THEN base ELSE next(f[Min(s)], h[s \ {Min(s)}])]
           iter == CHOOSE h : Eq(h)
<1>1. op \in [S \X Acc -> Acc] /\ base \in Acc
  <2>1. ASSUME NEW name \in S, NEW p \in Seq(S) PROVE <<name>> \o p \in Seq(S)
    OBVIOUS
  <2>2. ASSUME NEW name \in S, NEW acc \in Acc PROVE next(name, acc) \in Acc
    <3>1. acc.out \in Seq(S) /\ <<name>> \o acc.out \in Seq(S)
      BY <2>1
    <3>2. /\ [acc EXCEPT !.up = acc.up + 1] \in Acc
          /\ acc.up > 0 => [acc EXCEPT !.up = acc.up - 1] \in Acc
          /\ [acc EXCEPT !.out = <<name>> \o acc.out] \in Acc
      BY <3>1, Updates, Zenon
    <3>3. QED
      BY <3>2, Zenon
  <2> HIDE DEF next, Acc
  <2>3. op \in [S \X Acc -> Acc]
    BY <2>2
  <2>4. base \in Acc
    BY DEF Acc
  <2>5. QED
    BY <2>3, <2>4
<1> HIDE DEF next, Acc, base
<1>2. /\ \E h \in [SUBSET DOMAIN f -> Acc] : Folds(h, f, Acc, base, op)
      /\ \A h : Folds(h, f, Acc, base, op) => h[DOMAIN f] \in Acc
  <2> HIDE DEF op
  <2>1. QED
    BY <1>1, FoldOf, Zenon
<1>3. ASSUME NEW s \in SUBSET DOMAIN f, s # {}
      PROVE  f[Min(s)] \in S /\ s \ {Min(s)} \in SUBSET DOMAIN f
  BY <1>3, MinIn
<1>4. ASSUME NEW s \in SUBSET DOMAIN f, s # {}, NEW v \in Acc
      PROVE  op[<<f[Min(s)], v>>] = next(f[Min(s)], v)
  BY <1>3, <1>4
<1> HIDE DEF op
<1>5. ASSUME NEW h \in [SUBSET DOMAIN f -> Acc], Folds(h, f, Acc, base, op) PROVE Eq(h)
  <2>1. ASSUME NEW s \in SUBSET DOMAIN f
        PROVE  h[s] = IF s = {} THEN base ELSE next(f[Min(s)], h[s \ {Min(s)}])
    <3>1. CASE s = {}
      BY <1>5, <3>1 DEF Folds
    <3>2. CASE s # {}
      <4>1. PICK v \in Acc : v = h[s \ {Min(s)}]
        BY <1>3, <3>2
      <4>2. h[s] = op[<<f[Min(s)], v>>]
        BY <1>5, <3>2, <4>1, Zenon DEF Folds
      <4>3. QED
        BY <1>4, <3>2, <4>1, <4>2, Zenon
    <3>3. QED
      BY <3>1, <3>2
  <2>2. QED
    BY <2>1
<1>6. ASSUME NEW h, Eq(h) PROVE Folds(h, f, Acc, base, op)
  <2>1. ASSUME NEW s \in SUBSET DOMAIN f
        PROVE  h[s] = IF s = {} THEN base ELSE next(f[Min(s)], h[s \ {Min(s)}])
    BY <1>6
  <2>2. ASSUME NEW s \in SUBSET DOMAIN f, s # {}, h[s \ {Min(s)}] \in Acc
        PROVE  h[s] = op[<<f[Min(s)], h[s \ {Min(s)}]>>]
    <3>1. PICK v \in Acc : v = h[s \ {Min(s)}]
      BY <2>2
    <3>2. op[<<f[Min(s)], v>>] = next(f[Min(s)], v)
      BY <1>4, <2>2
    <3>3. QED
      BY <2>1, <2>2, <3>1, <3>2, Zenon
  <2>3. QED
    BY <2>1, <2>2, Zenon DEF Folds
<1>7. Eq(iter)
  <2> HIDE DEF Eq
  <2>1. \E h : Eq(h)
    BY <1>2, <1>5, Zenon
  <2>2. QED
    BY <2>1, Zenon
<1>8. iter[DOMAIN f] \in Acc
  <2> HIDE DEF Eq, iter
  <2>1. QED
    BY <1>2, <1>6, <1>7, Zenon
<1>9. iter[DOMAIN f].out \in Seq(S)
  <2> HIDE DEF iter
  <2>1. QED
    BY <1>8 DEF Acc
<1>10. normalizeArray(f) = iter[DOMAIN f].out
  BY DEF normalizeArray, FoldRight, MapThenFoldSet, next, base
<1>11. QED
  BY <1>9, <1>10, Zenon

LEMMA NormalizePath == ASSUME NEW p \in Path PROVE normalizeArray(p) \in Path
BY NormalizeIn DEF Path

LEMMA ResolvePath == ASSUME NEW p \in Path, NEW q \in Path PROVE resolve(p, q) \in Path
<1>1. filter(q) \in Path
  BY FilterPath
<1>2. p \o filter(q) \in Path
  BY <1>1 DEF Path
<1>3. QED
  BY <1>2, NormalizePath DEF resolve

-----------------------------------------------------------------------------
(***************************************************************************)
(* What fs answers.  The links of the files lead somewhere: following them *)
(* comes to an end.                                                        *)
(***************************************************************************)
Follows(t, to) ==
    to = [path \in Path |->
            IF path = <<>> THEN path
            ELSE LET q == Append(to[Front(path)], Last(path))
                 IN  IF q \in DOMAIN t /\ t[q].kind = "link" THEN to[t[q].to] ELSE q]
LinksLead(t) == \E to : Follows(t, to)

LEMMA Leads ==
    ASSUME NEW t, LinksLead(t), NEW p \in Path
    PROVE  /\ p = <<>> => real(t, p) = p
           /\ p # <<>> => LET q == Append(real(t, Front(p)), Last(p))
                          IN  real(t, p) = IF q \in DOMAIN t /\ t[q].kind = "link"
                                           THEN real(t, t[q].to) ELSE q
<1> DEFINE to == CHOOSE f : Follows(t, f)
<1>1. Follows(t, to)
  BY DEF LinksLead
<1>2. \A q : real(t, q) = to[q]
  BY DEF real, Follows
<1> HIDE DEF to
<1>3. to[p] = IF p = <<>> THEN p
              ELSE LET q == Append(to[Front(p)], Last(p))
                   IN  IF q \in DOMAIN t /\ t[q].kind = "link" THEN to[t[q].to] ELSE q
  BY <1>1 DEF Follows
<1>4. p = <<>> => real(t, p) = p
  BY <1>2, <1>3, Zenon
<1>5. ASSUME p # <<>>
      PROVE  LET q == Append(real(t, Front(p)), Last(p))
             IN  real(t, p) = IF q \in DOMAIN t /\ t[q].kind = "link" THEN real(t, t[q].to) ELSE q
  <2>1. PICK q : q = Append(to[Front(p)], Last(p))
    OBVIOUS
  <2>2. real(t, p) = IF q \in DOMAIN t /\ t[q].kind = "link" THEN to[t[q].to] ELSE q
    BY <1>2, <1>3, <1>5, <2>1, Zenon
  <2>3. real(t, Front(p)) = to[Front(p)] /\ real(t, t[q].to) = to[t[q].to]
    BY <1>2, Zenon
  <2>4. QED
    BY <2>1, <2>2, <2>3, Zenon
<1>6. QED
  BY <1>4, <1>5, Zenon

LEMMA Fronts ==
    ASSUME NEW S
    PROVE  /\ \A p \in Seq(S), e \in S : /\ Append(p, e) \in Seq(S) /\ Append(p, e) # <<>>
                                         /\ Front(Append(p, e)) = p /\ Last(Append(p, e)) = e
           /\ \A p \in Seq(S) : p # <<>> => /\ Front(p) \in Seq(S) /\ Last(p) \in S
                                            /\ Append(Front(p), Last(p)) = p
BY DEF Front, Last

LEMMA Stats ==
    ASSUME NEW t, LinksLead(t), NEW p \in Path
    PROVE  /\ lstat(t, p).kind # "link" => stat(t, p) = lstat(t, p)
           /\ lstat(t, p).kind # "none" => lstat(t, p).er = ""
           /\ readdir(t, p).er = "ENOTDIR" => lstat(t, p).er = "" /\ stat(t, p).kind = "file"
<1>1. PICK q, r : q = place(t, p) /\ r = real(t, p)
  OBVIOUS
<1>2. r # q => q \in DOMAIN t /\ t[q].kind = "link"
  BY <1>1, Leads DEF place
<1>3. PICK a, b : a = kindOf(t, q) /\ b = kindOf(t, r)
  OBVIOUS
<1>4. lstat(t, p) = a /\ stat(t, p) = b
  BY <1>1, <1>3, Zenon DEF lstat, stat
<1>5. /\ q \in DOMAIN t /\ t[q].kind = "link" => a.kind = "link"
      /\ q \in DOMAIN t => a.er = ""
      /\ q \notin DOMAIN t => a.kind = "none"
      /\ r \in DOMAIN t /\ t[r].kind = "file" => b.kind = "file"
  <2>1. /\ q \notin DOMAIN t => a = Fails("ENOENT")
        /\ q \in DOMAIN t => a = Kind(IF t[q].kind = "locked" THEN "dir" ELSE t[q].kind)
        /\ r \in DOMAIN t => b = Kind(IF t[r].kind = "locked" THEN "dir" ELSE t[r].kind)
    BY <1>3, Zenon DEF kindOf
  <2>2. \A k : Kind(k).er = "" /\ Kind(k).kind = k
    BY DEF Kind
  <2>3. Fails("ENOENT").kind = "none"
    BY DEF Fails
  <2>4. q \in DOMAIN t /\ t[q].kind = "link" => a = Kind("link")
    <3>1. "link" # "locked"
      OBVIOUS
    <3>2. QED
      BY <2>1, <3>1, Zenon
  <2>5. r \in DOMAIN t /\ t[r].kind = "file" => b = Kind("file")
    <3>1. "file" # "locked"
      OBVIOUS
    <3>2. QED
      BY <2>1, <3>1, Zenon
  <2>6. QED
    BY <2>1, <2>2, <2>3, <2>4, <2>5, Zenon
<1>6. r = q => a = b
  BY <1>3, Zenon
<1>7. ASSUME readdir(t, p).er = "ENOTDIR" PROVE a.er = "" /\ b.kind = "file"
  <2>1. r \in DOMAIN t /\ t[r].kind = "file"
    BY <1>1, <1>7 DEF readdir, Fails, Entries
  <2>2. q \in DOMAIN t
    BY <1>2, <2>1, Zenon
  <2>3. QED
    BY <1>5, <2>1, <2>2, Zenon
<1>8. a.kind # "link" => b = a
  BY <1>2, <1>5, <1>6, Zenon
<1>9. a.kind # "none" => a.er = ""
  BY <1>5, Zenon
<1>10. QED
  BY <1>4, <1>7, <1>8, <1>9, Zenon

LEMMA SetToSeqIn == ASSUME NEW S, IsFiniteSet(S) PROVE SetToSeq(S) \in Seq(S)
<1>1. Cardinality(S) \in Nat /\ ExistsBijection(1..Cardinality(S), S)
  BY FS_CardinalityType
<1>2. PICK f : f \in Bijection(1..Cardinality(S), S)
  BY <1>1 DEF ExistsBijection
<1>3. f \in [1..Cardinality(S) -> S] /\ IsInjective(f)
  BY <1>2 DEF Bijection, Injection, IsInjective
<1>4. SetToSeq(S) \in [1..Cardinality(S) -> S]
  BY <1>3 DEF SetToSeq
<1>5. QED
  BY <1>1, <1>4

\* Files that there may be.
Finite(t) == IsFiniteSet(DOMAIN t) /\ DOMAIN t \subseteq Path

LEMMA Children ==
    ASSUME NEW t, Finite(t), NEW q
    PROVE  /\ SetToSeq(children(t, q)) \in Seq(children(t, q)) /\ children(t, q) \subseteq Name
           /\ \A e \in children(t, q) : Append(q, e) \in DOMAIN t /\ q \in Path
<1> DEFINE D == {c \in DOMAIN t : c # <<>> /\ Front(c) = q}
           f == [c \in D |-> Last(c)]
           S == {Last(c) : c \in D}
<1>1. D \in SUBSET DOMAIN t
  OBVIOUS
<1>2. IsFiniteSet(D)
  <2> HIDE DEF D
  <2>1. QED
    BY <1>1, FS_Subset DEF Finite
<1>3. f \in Surjection(D, S)
  BY DEF Surjection
<1>4. IsFiniteSet(S)
  <2> HIDE DEF D, f, S
  <2>1. QED
    BY <1>2, <1>3, FS_Surjection
<1>5. S = children(t, q)
  BY DEF children
<1>6. SetToSeq(children(t, q)) \in Seq(children(t, q))
  BY <1>4, <1>5, SetToSeqIn
<1>7. ASSUME NEW e \in children(t, q)
      PROVE  e \in Name /\ Append(q, e) \in DOMAIN t /\ q \in Path
  <2>1. PICK c \in DOMAIN t : c # <<>> /\ Front(c) = q /\ e = Last(c)
    BY DEF children
  <2>2. c \in Seq(Name)
    BY DEF Finite, Path
  <2>3. Front(c) \in Seq(Name) /\ Last(c) \in Name /\ Append(Front(c), Last(c)) = c
    BY <2>1, <2>2, Fronts, Zenon
  <2>4. QED
    BY <2>1, <2>3, Zenon DEF Path
<1>8. QED
  BY <1>6, <1>7

LEMMA SeqMore == ASSUME NEW S, NEW T, S \subseteq T, NEW s \in Seq(S) PROVE s \in Seq(T)
OBVIOUS

LEMMA AnswerPath ==
    ASSUME NEW t, Finite(t), NEW p
    PROVE  /\ lstat(t, p).entries \in Path /\ stat(t, p).entries \in Path
           /\ readdir(t, p).entries \in Path /\ Nothing.entries \in Path
<1>1. <<>> \in Path
  BY DEF Path
<1>2. \A q : kindOf(t, q).entries \in Path
  BY <1>1 DEF kindOf, Fails, Kind
<1>3. \A q : SetToSeq(children(t, q)) \in Path
  BY Children, SeqMore DEF Path
<1>4. QED
  BY <1>1, <1>2, <1>3 DEF lstat, stat, readdir, Fails, Entries, Nothing, Kind

LEMMA MemberOf == ASSUME NEW S, NEW s \in Seq(S), NEW k \in DOMAIN s PROVE s[k] \in S
OBVIOUS

LEMMA EntryThere ==
    ASSUME NEW t, Finite(t), NEW p \in Path, NEW es, readdir(t, p) = Entries(es), NEW k \in DOMAIN es
    PROVE  Append(p, es[k]) \in Path /\ lstat(t, Append(p, es[k])).er = ""
<1> DEFINE q == real(t, p)
           e == es[k]
<1>1. es = SetToSeq(children(t, q))
  BY Zenon DEF readdir, Fails, Entries
<1>2. es \in Seq(children(t, q))
  BY <1>1, Children, Zenon
<1>3. e \in children(t, q)
  BY <1>2, MemberOf, Zenon
<1> HIDE DEF q, e
<1>4. e \in Name /\ Append(q, e) \in DOMAIN t
  BY <1>3, Children, Zenon
<1>5. p \in Seq(Name)
  BY Zenon DEF Path
<1>6. Append(p, e) \in Seq(Name) /\ Append(p, e) # <<>> /\ Front(Append(p, e)) = p /\ Last(Append(p, e)) = e
  BY <1>4, <1>5, Fronts, Zenon
<1>7. place(t, Append(p, e)) = Append(q, e)
  BY <1>6, Zenon DEF place, q
<1>8. lstat(t, Append(p, e)).er = ""
  BY <1>4, <1>7 DEF lstat, kindOf, Kind
<1>9. QED
  BY <1>6, <1>8, Zenon DEF e, Path

-----------------------------------------------------------------------------
(***************************************************************************)
(* What is remembered and what is answered is true of the files.           *)
(***************************************************************************)
Patterns == Seq(Part)
Walked(pattern) == pattern \in Patterns /\ remain(pattern) # <<>>

\* The requests "lstat" and "stat" are answered with an lstat, the others with entries.
Reading(key) == key[1] \notin {"lstat", "stat"}

\* Whom the entries of a directory go to in the end.
Leaf(cb) == \/ cb.name = "RES" /\ Reading(cb.key)
            \/ cb.name \in {"_processReaddir2", "_processGlobStar2"} /\ Walked(cb.pattern)

\* A function with paths and patterns that are such, and what is known when it is made.
Sound(t, fn) ==
    /\ fn.name = "_process" => fn.pattern \in Patterns
    /\ fn.name \in {"_processReaddir2", "_processGlobStar2"} => Walked(fn.pattern)
    /\ fn.name = "uncount" => fn.then.fn.pattern \in Patterns
    /\ fn.name = "_stat" => fn.f \in Path
    /\ fn.name \in {"_readdir", "_readdirInGlobStar", "lstatcb", "readdirCb"} =>
         fn.abs \in Path /\ Leaf(fn.cb)
    /\ fn.name \in {"statcb", "targetcb"} => fn.abs \in Path
    /\ fn.name = "targetcb" => lstat(t, fn.abs).kind = "link"

\* An answer that it may be called with.
Told(t, fn, a) ==
    /\ fn.name \in {"_processReaddir2", "_processGlobStar2", "RES", "cleanup"} => a.entries \in Path
    /\ fn.name \in {"lstatcb", "statcb"} => a = lstat(t, fn.abs)
    /\ fn.name = "readdirCb" => a = readdir(t, fn.abs)
    /\ fn.name = "targetcb" => a = stat(t, fn.abs)
    /\ fn.name \in {"RES", "cleanup"} /\ ~Reading(fn.key) => a = lstat(t, fn.key[2])

Fine(t, c) == Sound(t, c.fn) /\ Told(t, c.fn, c.answer)
FineAll(t, calls) == \A k \in DOMAIN calls : Fine(t, calls[k])

\* Who waits for a request, and who for fs, gets what it may be called with.
Takes(key, cb) == IF Reading(key) THEN Leaf(cb)
                  ELSE cb.name \in {"lstatcb", "statcb"} /\ cb.abs = key[2]
FineReqs(t, q) == \A key \in DOMAIN q : \A k \in DOMAIN q[key] :
                     Sound(t, q[key][k]) /\ Takes(key, q[key][k])
Gets(r) == \/ r.cb.name = "RES" /\ ~Reading(r.cb.key) /\ r.call = "lstat" /\ r.abs = r.cb.key[2]
           \/ r.cb.name = "readdirCb" /\ r.call = "readdir" /\ r.abs = r.cb.abs
           \/ r.cb.name = "targetcb" /\ r.call = "stat" /\ r.abs = r.cb.abs
FineAsked(t, b) == \A r \in DOMAIN b : Sound(t, r.cb) /\ Gets(r)

TrueOf(t, abs, c) ==
    /\ abs \in Path /\ c.kind \in {"entries", "true", "DIR", "FILE", "false"}
    /\ c.kind = "entries" => readdir(t, abs) = c
    /\ c.kind = "true" => lstat(t, abs).er = ""
    /\ c.kind = "DIR" => stat(t, abs).kind = "dir"
    /\ c.kind = "FILE" => lstat(t, abs).er = "" /\ stat(t, abs).kind # "dir"
    /\ c.kind = "false" => readdir(t, abs).er \in {"ENOENT", "EACCES"}
TrueAll(t, f) == \A abs \in DOMAIN f : TrueOf(t, abs, f[abs])
FineSelf(t, s) == TrueAll(t, s.cache) /\ FineAll(t, s._processQueue)

CacheInv == /\ \A g \in Globs : FineSelf(search.files, self[g])
            /\ FineAll(search.files, stack) /\ FineAll(search.files, ticks)
            /\ FineReqs(search.files, reqs) /\ FineAsked(search.files, pending)

-----------------------------------------------------------------------------
(***************************************************************************)
(* Paths and patterns are made of names and parts.                         *)
(***************************************************************************)
LEMMA UptoFinite ==
    ASSUME NEW places, NEW n \in Nat, places \subseteq 1..n, NEW j \in Int
    PROVE  LET c(i) == Cardinality({x \in places : x <= i})
           IN  /\ c(j) \in Nat
               /\ c(j) = IF j \in places THEN c(j - 1) + 1 ELSE c(j - 1)
<1> DEFINE Q(i) == {x \in places : x <= i}
<1>1. IsFiniteSet(1..n) /\ \A x \in places : x \in Int
  BY FS_Interval
<1>2. IsFiniteSet(places)
  BY <1>1, FS_Subset
<1>3. \A i : IsFiniteSet(Q(i)) /\ Cardinality(Q(i)) \in Nat
  <2>1. \A i : Q(i) \subseteq places
    OBVIOUS
  <2> HIDE DEF Q
  <2>2. QED
    BY <1>2, <2>1, FS_Subset, FS_CardinalityType
<1>4. CASE j \in places
  <2>1. Q(j) = Q(j - 1) \cup {j} /\ j \notin Q(j - 1)
    <3>1. \A x \in Int : x <= j <=> x <= j - 1 \/ x = j
      OBVIOUS
    <3>2. \A x : x \in Q(j) <=> x \in Q(j - 1) \/ x = j
      BY <1>1, <1>4, <3>1, Zenon
    <3>3. j \notin Q(j - 1)
      OBVIOUS
    <3> HIDE DEF Q
    <3>4. QED
      BY <3>2, <3>3
  <2> HIDE DEF Q
  <2>2. Cardinality(Q(j)) = Cardinality(Q(j - 1)) + 1
    BY <1>3, <2>1, FS_AddElement
  <2>3. QED
    BY <1>3, <1>4, <2>2 DEF Q
<1>5. CASE j \notin places
  <2>1. Q(j) = Q(j - 1)
    <3>1. \A x \in Int : x <= j <=> x <= j - 1 \/ x = j
      OBVIOUS
    <3>2. \A x : x \in Q(j) <=> x \in Q(j - 1)
      BY <1>1, <1>5, <3>1, Zenon
    <3> HIDE DEF Q
    <3>3. QED
      BY <3>2
  <2> HIDE DEF Q
  <2>2. QED
    BY <1>3, <1>5, <2>1 DEF Q
<1>6. QED
  BY <1>4, <1>5

LEMMA Nth ==
    ASSUME NEW places, NEW n \in Nat, places \subseteq 1..n, NEW k \in 1..Cardinality(places)
    PROVE  \E j \in places : Cardinality({i \in places : i <= j}) = k
<1> DEFINE c(i) == Cardinality({x \in places : x <= i})
           Reached == {i \in Nat : c(i) >= k}
<1>1. \A j \in Int : c(j) \in Nat /\ c(j) = IF j \in places THEN c(j - 1) + 1 ELSE c(j - 1)
  BY UptoFinite
<1>2. c(0) = 0 /\ c(n) = Cardinality(places)
  <2>1. {x \in places : x <= 0} = {} /\ {x \in places : x <= n} = places
    <3>1. \A x \in places : x <= n /\ ~(x <= 0)
      OBVIOUS
    <3>2. QED
      BY <3>1, Zenon
  <2>2. QED
    BY <2>1, FS_EmptySet
<1> HIDE DEF c
<1>3. c(n) >= k
  BY <1>1, <1>2
<1>4. PICK j \in Reached : \A m \in Reached : j <= m
  <2>1. Reached # {} /\ Reached \subseteq Nat
    BY <1>3
  <2> HIDE DEF Reached
  <2>2. QED
    BY <2>1, LeastOf
<1>5. j \in Nat /\ c(j) \in Nat /\ c(j) >= k /\ j # 0
  BY <1>1, <1>2, <1>4
<1>6. j - 1 \in Nat /\ c(j - 1) \in Nat /\ ~(c(j - 1) >= k)
  BY <1>1, <1>4, <1>5
<1>7. c(j) = IF j \in places THEN c(j - 1) + 1 ELSE c(j - 1)
  BY <1>1, <1>5
<1>8. j \in places /\ c(j) = k
  BY <1>5, <1>6, <1>7
<1>9. QED
  BY <1>8 DEF c

LEMMA OnlyIn ==
    ASSUME NEW S, NEW seq \in Seq(S), NEW places, places \subseteq DOMAIN seq
    PROVE  only(seq, places) \in Seq(S)
<1>1. DOMAIN seq = 1..Len(seq) /\ Len(seq) \in Nat
  OBVIOUS
<1>2. \A k \in 1..Cardinality(places) : \E j \in places : Cardinality({i \in places : i <= j}) = k
  BY <1>1, Nth
<1>3. Cardinality(places) \in Nat
  <2> DEFINE n == Len(seq)
  <2>1. n \in Nat /\ places \in SUBSET (1..n)
    BY <1>1
  <2> HIDE DEF n
  <2>2. IsFiniteSet(1..n)
    BY <2>1, FS_Interval
  <2>3. QED
    BY <2>1, <2>2, FS_Subset, FS_CardinalityType
<1> DEFINE at(k) == CHOOSE j \in places : Cardinality({i \in places : i <= j}) = k
<1>4. \A k \in 1..Cardinality(places) : at(k) \in places
  BY <1>2, Zenon
<1> HIDE DEF at
<1>5. \A k \in 1..Cardinality(places) : seq[at(k)] \in S
  BY <1>4
<1>6. [k \in 1..Cardinality(places) |-> seq[at(k)]] \in Seq(S)
  <2> DEFINE n == Cardinality(places)
  <2>1. n \in Nat /\ \A k \in 1..n : seq[at(k)] \in S
    BY <1>3, <1>5
  <2> HIDE DEF n
  <2>2. [k \in 1..n |-> seq[at(k)]] \in Seq(S)
    BY <2>1
  <2>3. QED
    BY <2>2 DEF n
<1>7. QED
  BY <1>6, Zenon DEF only, at

LEMMA EntriesIn ==
    ASSUME NEW opt, NEW es \in Path
    PROVE  visible(opt, es) \in Path /\ \A part : matchedEntries(opt, part, es) \in Path
BY OnlyIn DEF visible, matchedEntries, Path

LEMMA PrefixIn ==
    ASSUME NEW S, NEW pattern \in Seq(S)
    PROVE  prefix(pattern) \in Seq(S) /\ remain(pattern) \in Seq(S)
<1> DEFINE magic == {k \in DOMAIN pattern : pattern[k].kind # "literal"}
<1>1. DOMAIN pattern = 1..Len(pattern) /\ Len(pattern) \in Nat
  OBVIOUS
<1>2. magic \subseteq 1..Len(pattern)
  BY <1>1
<1>3. prefixLength(pattern) = IF magic = {} THEN Len(pattern) ELSE CHOOSE k \in 0..Len(pattern) :
                                k + 1 \in magic /\ \A j \in magic : k < j
  BY DEF prefixLength
<1> HIDE DEF magic
<1>4. ASSUME magic # {}
      PROVE  \E k \in 0..Len(pattern) : k + 1 \in magic /\ \A j \in magic : k < j
  <2>1. PICK m \in magic : \A j \in magic : m <= j
    <3>1. magic \subseteq Nat
      BY <1>1, <1>2
    <3>2. QED
      BY <1>4, <3>1, LeastOf
  <2>2. m - 1 \in 0..Len(pattern) /\ (m - 1) + 1 \in magic /\ \A j \in magic : m - 1 < j
    BY <1>1, <1>2, <2>1
  <2>3. QED
    BY <2>2
<1>5. prefixLength(pattern) \in 0..Len(pattern)
  <2>1. CASE magic = {}
    BY <1>1, <1>3, <2>1
  <2>2. CASE magic # {}
    BY <1>3, <1>4, <2>2, Zenon
  <2>3. QED
    BY <2>1, <2>2
<1>6. QED
  <2>1. PICK n \in 0..Len(pattern) : n = prefixLength(pattern)
    BY <1>5
  <2>2. SubSeq(pattern, 1, n) \in Seq(S) /\ SubSeq(pattern, n + 1, Len(pattern)) \in Seq(S)
    BY <1>1
  <2>3. QED
    BY <2>1, <2>2, Zenon DEF prefix, remain

LEMMA GlobsIn ==
    ASSUME NEW S, NEW T, NEW pattern \in Seq([kind : T, glob : S])
    PROVE  [k \in DOMAIN pattern |-> pattern[k].glob] \in Seq(S)
<1>1. DOMAIN pattern = 1..Len(pattern) /\ Len(pattern) \in Nat
  OBVIOUS
<1>2. \A k \in 1..Len(pattern) : pattern[k].glob \in S
  <2>1. \A k \in DOMAIN pattern : pattern[k] \in [kind : T, glob : S]
    BY MemberOf, Zenon
  <2>2. \A x \in [kind : T, glob : S] : x.glob \in S
    OBVIOUS
  <2>3. QED
    BY <1>1, <2>1, <2>2, Zenon
<1>3. QED
  <2> DEFINE n == Len(pattern)
  <2>1. n \in Nat /\ \A k \in 1..n : pattern[k].glob \in S
    BY <1>1, <1>2
  <2> HIDE DEF n
  <2>2. [k \in 1..n |-> pattern[k].glob] \in Seq(S)
    BY <2>1
  <2>3. QED
    BY <1>1, <2>2 DEF n

LEMMA OneName == Text \in Path /\ <<".">> \in Path
<1>1. \A S : \A e \in S : <<e>> \in Seq(S)
  OBVIOUS
<1>2. "" \in Name /\ "." \in Name
  BY DEF Name
<1>3. QED
  BY <1>1, <1>2, Zenon DEF Text, Path

LEMMA JoinPath ==
    ASSUME NEW pattern \in Patterns
    PROVE  join(pattern) \in Path /\ read(pattern) \in Path
<1>1. Text \in Path /\ <<".">> \in Path
  BY OneName
<1>2. [k \in DOMAIN pattern |-> pattern[k].glob] \in Path
  BY GlobsIn, Zenon DEF Patterns, Part, Path
<1>3. QED
  BY <1>1, <1>2, Zenon DEF join, read

LEMMA AbsPath == ASSUME NEW f \in Path PROVE makeAbs(f) \in Path
<1>1. Text \in Path
  BY OneName
<1>2. QED
  BY <1>1, CwdAssumption, ResolvePath, Zenon DEF makeAbs

LEMMA PatternParts ==
    ASSUME NEW pattern \in Patterns
    PROVE  prefix(pattern) \in Patterns /\ remain(pattern) \in Patterns
BY PrefixIn, Zenon DEF Patterns

LEMMA LiteralPart == /\ GLOBSTAR \in Part
                     /\ \A name \in Name : Literal(name) \in Part
<1>1. "**" \in Name
  BY DEF Name
<1>2. QED
  BY <1>1 DEF GLOBSTAR, Literal, Part

LEMMA Joins ==
    ASSUME NEW S, NEW pre \in Seq(S), NEW e \in S, NEW rest \in Seq(S)
    PROVE  /\ Append(pre, e) \in Seq(S) /\ Append(pre, e) \o rest \in Seq(S)
           /\ pre \o rest \in Seq(S) /\ <<e>> \o rest \in Seq(S)
           /\ rest # <<>> => Tail(rest) \in Seq(S)
OBVIOUS

LEMMA WorkIn ==
    ASSUME NEW opt, NEW pattern, Walked(pattern), NEW b, NEW es \in Path
    PROVE  \A k \in DOMAIN readdirWork(opt, pattern, b, es) : readdirWork(opt, pattern, b, es)[k][1] \in Patterns
<1> DEFINE rest == remain(pattern)
           pre == prefix(pattern)
           ms == matchedEntries(opt, rest[1], es)
           work == [k \in DOMAIN ms |-> <<Append(pre, Literal(ms[k])) \o Tail(rest), b>>]
<1>1. readdirWork(opt, pattern, b, es) = work
  BY DEF readdirWork
<1>2. pre \in Seq(Part) /\ rest \in Seq(Part) /\ rest # <<>>
  BY PatternParts, Zenon DEF Walked, Patterns
<1>3. ms \in Seq(Name)
  BY EntriesIn, Zenon DEF Path
<1> HIDE DEF pre, rest, ms
<1>4. ASSUME NEW k \in DOMAIN ms PROVE Append(pre, Literal(ms[k])) \o Tail(rest) \in Seq(Part)
  <2>1. Literal(ms[k]) \in Part
    BY <1>3, MemberOf, LiteralPart, Zenon
  <2>2. Tail(rest) \in Seq(Part)
    BY <1>2, Joins, LiteralPart, Zenon
  <2>3. QED
    BY <1>2, <2>1, <2>2, Joins, Zenon
<1>5. \A k \in DOMAIN work : work[k][1] \in Patterns
  <2>1. ASSUME NEW k \in DOMAIN ms PROVE work[k][1] = Append(pre, Literal(ms[k])) \o Tail(rest)
    OBVIOUS
  <2>2. DOMAIN work = DOMAIN ms
    OBVIOUS
  <2> HIDE DEF work
  <2>3. QED
    BY <1>4, <2>1, <2>2, Zenon DEF Patterns
<1>6. QED
  BY <1>1, <1>5, Zenon

LEMMA GlobStarWorkIn ==
    ASSUME NEW opt, NEW s, NEW pattern, Walked(pattern), NEW b, NEW es \in Path
    PROVE  \A k \in DOMAIN globStarWork(opt, s, pattern, b, es) :
              globStarWork(opt, s, pattern, b, es)[k][1] \in Patterns
<1> DEFINE pre == prefix(pattern)
           whole == remain(pattern)
           rest == Tail(whole)
           deep == below(s, makeAbs(read(pre)), b, visible(opt, es))
           name(e) == Append(pre, Literal(e))
           more == [k \in 1..2 * Len(deep) |->
                        IF k % 2 = 1
                        THEN <<name(deep[(k + 1) \div 2]) \o rest, TRUE>>
                        ELSE <<name(deep[k \div 2]) \o <<GLOBSTAR>> \o rest, TRUE>>]
           first == << <<pre \o rest, FALSE>> >>
<1>1. globStarWork(opt, s, pattern, b, es) = first \o more
  BY DEF globStarWork
<1>2. pre \in Seq(Part) /\ whole \in Seq(Part) /\ whole # <<>>
  BY PatternParts, Zenon DEF Walked, Patterns
<1>3. rest \in Seq(Part)
  BY <1>2, Joins, LiteralPart, Zenon
<1>4. deep \in Seq(Name)
  <2>1. visible(opt, es) \in Seq(Name)
    BY EntriesIn, Zenon DEF Path
  <2>2. <<>> \in Seq(Name)
    OBVIOUS
  <2>3. QED
    BY <2>1, <2>2, Zenon DEF below
<1> HIDE DEF pre, whole, rest, deep, name
<1>5. DOMAIN deep = 1..Len(deep) /\ Len(deep) \in Nat
  BY <1>4
<1>6. ASSUME NEW e \in Name
      PROVE  name(e) \o rest \in Patterns /\ name(e) \o <<GLOBSTAR>> \o rest \in Patterns
  <2>1. name(e) \in Seq(Part)
    BY <1>2, LiteralPart, Joins, Zenon DEF name
  <2>2. GLOBSTAR \in Part
    BY LiteralPart
  <2>3. \A x, y \in Seq(Part), z \in Part : x \o y \in Seq(Part) /\ x \o <<z>> \o y \in Seq(Part)
    OBVIOUS
  <2>4. QED
    BY <1>3, <2>1, <2>2, <2>3, Zenon DEF Patterns
<1>7. pre \o rest \in Patterns
  <2>1. \A x, y \in Seq(Part) : x \o y \in Seq(Part)
    OBVIOUS
  <2>2. QED
    BY <1>2, <1>3, <2>1, Zenon DEF Patterns
<1>8. ASSUME NEW k \in 1..2 * Len(deep) PROVE more[k][1] \in Patterns
  <2>1. CASE k % 2 = 1
    <3>1. (k + 1) \div 2 \in DOMAIN deep
      BY <1>5, <2>1
    <3>2. deep[(k + 1) \div 2] \in Name
      BY <1>4, <3>1, MemberOf, Zenon
    <3>3. more[k][1] = name(deep[(k + 1) \div 2]) \o rest
      BY <2>1
    <3>4. QED
      BY <1>6, <3>2, <3>3, Zenon
  <2>2. CASE k % 2 # 1
    <3>1. k \div 2 \in DOMAIN deep
      BY <1>5, <2>2
    <3>2. deep[k \div 2] \in Name
      BY <1>4, <3>1, MemberOf, Zenon
    <3>3. more[k][1] = name(deep[k \div 2]) \o <<GLOBSTAR>> \o rest
      BY <2>2
    <3>4. QED
      BY <1>6, <3>2, <3>3, Zenon
  <2>3. QED
    BY <2>1, <2>2, Zenon
<1>9. /\ IsSeq(first) /\ Len(first) = 1 /\ first[1][1] = pre \o rest
      /\ IsSeq(more) /\ Len(more) = 2 * Len(deep)
  <2>1. 2 * Len(deep) \in Nat
    BY <1>5
  <2>2. QED
    BY <2>1, SeqOne, SeqMade
<1> HIDE DEF first, more
<1>10. PICK w : w = first \o more
  OBVIOUS
<1>11. /\ IsSeq(w) /\ Len(w) = Len(first) + Len(more)
       /\ \A j \in 1..Len(first) : w[j] = first[j]
       /\ \A j \in 1..Len(more) : w[Len(first) + j] = more[j]
  <2>1. IsSeq(first) /\ IsSeq(more)
    BY <1>9
  <2>2. QED
    BY <1>10, <2>1, SeqCat
<1>12. ASSUME NEW k \in DOMAIN w PROVE w[k][1] \in Patterns
  <2>1. k \in 1..1 + 2 * Len(deep) /\ 1 \in 1..Len(first)
    BY <1>9, <1>11, SeqDomain
  <2>2. CASE k = 1
    BY <1>7, <1>9, <1>11, <2>1, <2>2, Zenon
  <2>3. CASE k # 1
    <3>1. PICK j : j = k - 1
      OBVIOUS
    <3>2. j \in 1..2 * Len(deep) /\ k = 1 + j
      BY <1>5, <2>1, <2>3, <3>1
    <3>3. w[k] = more[j]
      BY <1>9, <1>11, <3>2
    <3>4. QED
      BY <1>8, <3>2, <3>3, Zenon
  <2>4. QED
    BY <2>2, <2>3
<1>13. QED
  BY <1>1, <1>10, <1>12, Zenon

-----------------------------------------------------------------------------
(***************************************************************************)
(* What the calls are.                                                     *)
(***************************************************************************)
LEMMA FineTail ==
    ASSUME NEW t, NEW s, IsSeq(s), s # <<>>, FineAll(t, s)
    PROVE  FineAll(t, Tail(s)) /\ Fine(t, Head(s))
<1>1. /\ IsSeq(Tail(s)) /\ Len(s) > 0 /\ Len(Tail(s)) = Len(s) - 1 /\ Head(s) = s[1]
      /\ \A k \in 1..Len(s) - 1 : Tail(s)[k] = s[k + 1]
  BY SeqTail
<1>2. DOMAIN Tail(s) = 1..Len(s) - 1 /\ DOMAIN s = 1..Len(s) /\ Len(s) \in Nat
  BY <1>1, SeqDomain
<1>3. \A k \in DOMAIN Tail(s) : k + 1 \in DOMAIN s /\ Tail(s)[k] = s[k + 1]
  BY <1>1, <1>2
<1>4. 1 \in DOMAIN s
  BY <1>1, <1>2
<1>5. QED
  BY <1>1, <1>3, <1>4 DEF FineAll

LEMMA FineCat ==
    ASSUME NEW t, NEW s, NEW r, IsSeq(s), IsSeq(r), FineAll(t, s), FineAll(t, r)
    PROVE  FineAll(t, s \o r)
<1>1. /\ IsSeq(s \o r) /\ Len(s \o r) = Len(s) + Len(r)
      /\ \A k \in 1..Len(s) : (s \o r)[k] = s[k]
      /\ \A k \in 1..Len(r) : (s \o r)[Len(s) + k] = r[k]
  BY SeqCat
<1>2. /\ Len(s) \in Nat /\ DOMAIN s = 1..Len(s) /\ Len(r) \in Nat /\ DOMAIN r = 1..Len(r)
      /\ DOMAIN (s \o r) = 1..(Len(s) + Len(r))
  BY <1>1, SeqDomain
<1>3. ASSUME NEW k \in DOMAIN (s \o r) PROVE Fine(t, (s \o r)[k])
  <2>1. CASE k \in 1..Len(s)
    BY <1>1, <1>2, <2>1 DEF FineAll
  <2>2. CASE k \notin 1..Len(s)
    <3>1. k - Len(s) \in DOMAIN r /\ k = Len(s) + (k - Len(s))
      BY <1>2, <2>2
    <3>2. (s \o r)[k] = r[k - Len(s)]
      BY <1>1, <1>2, <3>1
    <3>3. QED
      BY <3>1, <3>2 DEF FineAll
  <2>3. QED
    BY <2>1, <2>2
<1>4. QED
  BY <1>3 DEF FineAll

LEMMA FineFew ==
    ASSUME NEW t
    PROVE  /\ FineAll(t, <<>>) /\ IsSeq(<<>>)
           /\ \A c : Fine(t, c) => FineAll(t, <<c>>) /\ IsSeq(<<c>>)
BY SeqNone, SeqOne DEF FineAll

LEMMA FineAppend ==
    ASSUME NEW t, NEW s, IsSeq(s), NEW c, FineAll(t, s), Fine(t, c)
    PROVE  FineAll(t, Append(s, c)) /\ IsSeq(Append(s, c))
<1>1. /\ IsSeq(Append(s, c)) /\ Len(Append(s, c)) = Len(s) + 1
      /\ Append(s, c)[Len(s) + 1] = c
      /\ \A k \in 1..Len(s) : Append(s, c)[k] = s[k]
  BY SeqAppend
<1>2. Len(s) \in Nat /\ DOMAIN s = 1..Len(s) /\ DOMAIN Append(s, c) = 1..Len(s) + 1
  BY <1>1, SeqDomain
<1>3. \A k \in 1..Len(s) + 1 : k \in 1..Len(s) \/ k = Len(s) + 1
  BY <1>2
<1>4. QED
  BY <1>1, <1>2, <1>3 DEF FineAll

\* The call on top, and what the others leave as it was.
LEMMA TopFine ==
    ASSUME TypeInv, CacheInv, stack # <<>>, NEW t, t = search.files
    PROVE  /\ Sound(t, Fn) /\ Told(t, Fn, Ans) /\ Fine(t, Head(stack))
           /\ FineAll(t, Tail(stack)) /\ IsSeq(Tail(stack))
<1>1. FramesOK(stack, Running) /\ FineAll(t, stack)
  BY Zenon DEF TypeInv, StackInv, CacheInv
<1>2. IsSeq(stack)
  BY <1>1 DEF FramesOK
<1>3. IsSeq(Tail(stack))
  BY <1>1, FramesTail, Zenon DEF FramesOK
<1>4. FineAll(t, Tail(stack)) /\ Fine(t, Head(stack))
  BY <1>1, <1>2, FineTail
<1>5. QED
  BY <1>3, <1>4, Zenon DEF Fine, Fn, Ans

LEMMA CacheStep ==
    ASSUME TypeInv, CacheInv, stack # <<>>, NEW t, t = search.files, search' = search,
           \A g \in Globs : FineSelf(t, self'[g]),
           NEW calls, IsSeq(calls), FineAll(t, calls), Return(calls),
           FineAll(t, ticks'), FineReqs(t, reqs'), FineAsked(t, pending')
    PROVE  CacheInv'
<1>1. FineAll(t, calls \o Tail(stack))
  BY TopFine, FineCat
<1>2. FineAll(t, stack')
  BY <1>1, Zenon DEF Return
<1>3. search'.files = t /\ Globs' = Globs
  BY DEF Globs
<1>4. QED
  BY <1>2, <1>3, Zenon DEF CacheInv

LEMMA SelfStep ==
    ASSUME TypeInv, CacheInv, stack # <<>>, NEW t, t = search.files, search' = search,
           NEW s, Becomes(s), FineSelf(t, s),
           NEW calls, IsSeq(calls), FineAll(t, calls), Return(calls),
           ticks' = ticks, FineReqs(t, reqs'), FineAsked(t, pending')
    PROVE  CacheInv'
<1>1. ASSUME NEW g \in Globs PROVE FineSelf(t, self'[g])
  <2>1. FineSelf(t, self[g])
    BY Zenon DEF CacheInv
  <2>2. QED
    BY <2>1, Zenon DEF Becomes
<1>2. FineAll(t, ticks')
  BY Zenon DEF CacheInv
<1>3. QED
  BY <1>1, <1>2, CacheStep

LEMMA PlainStep ==
    ASSUME TypeInv, CacheInv, stack # <<>>, NEW t, t = search.files, search' = search,
           NEW s, Becomes(s), FineSelf(t, s),
           NEW calls, IsSeq(calls), FineAll(t, calls), Return(calls),
           ticks' = ticks, reqs' = reqs, pending' = pending
    PROVE  CacheInv'
<1>1. FineReqs(t, reqs') /\ FineAsked(t, pending')
  BY Zenon DEF CacheInv
<1>2. QED
  BY <1>1, SelfStep

LEMMA MeFine ==
    ASSUME CacheInv, Fn.g \in Globs, NEW t, t = search.files
    PROVE  FineSelf(t, Me)
BY Zenon DEF CacheInv, Me

\* Some fields are of no account.
LEMMA SelfKept ==
    ASSUME NEW g, NEW s, FieldsOK(g, s), NEW t, FineSelf(t, s), NEW v
    PROVE  /\ FineSelf(t, [s EXCEPT !._processing = v])
           /\ FineSelf(t, [s EXCEPT !._emitQueue = v])
           /\ FineSelf(t, [s EXCEPT !.symlinks = v])
           /\ FineSelf(t, [s EXCEPT !.aborted = v])
           /\ FineSelf(t, [s EXCEPT !.paused = v])
           /\ \A k : FineSelf(t, add(s, k, v))
<1>1. "cache" \in DOMAIN s /\ "_processQueue" \in DOMAIN s
  BY DEF FieldsOK, Fields
<1>2. \A r : r.cache = s.cache /\ r._processQueue = s._processQueue => FineSelf(t, r)
  BY Zenon DEF FineSelf
<1>3. QED
  BY <1>1, <1>2 DEF add
LEMMA CallsFine ==
    ASSUME NEW t, NEW g
    PROVE  /\ Fine(t, Done(g)) /\ Fine(t, Call([name |-> "match", g |-> g]))
           /\ \A index, e : Fine(t, EmitMatch(g, index, e))
           /\ \A pattern \in Patterns : \A index, b : Fine(t, Process(g, pattern, index, b))
           /\ \A f \in Path : \A index : Fine(t, Call([name |-> "_stat", g |-> g, f |-> f, index |-> index]))
           /\ \A abs \in Path : \A b, cb : Leaf(cb) => Fine(t, Readdir(g, abs, b, cb))
<1>1. Fine(t, Done(g)) /\ Fine(t, Call([name |-> "match", g |-> g]))
  BY DEF Fine, Sound, Told, Done, Call
<1>2. \A index, e : Fine(t, EmitMatch(g, index, e))
  BY DEF Fine, Sound, Told, EmitMatch, Call
<1>3. \A pattern \in Patterns : \A index, b : Fine(t, Process(g, pattern, index, b))
  BY DEF Fine, Sound, Told, Process, Call
<1>4. \A f \in Path : \A index : Fine(t, Call([name |-> "_stat", g |-> g, f |-> f, index |-> index]))
  BY DEF Fine, Sound, Told, Call
<1>5. \A abs \in Path : \A b, cb : Leaf(cb) => Fine(t, Readdir(g, abs, b, cb))
  BY DEF Fine, Sound, Told, Readdir, Call
<1>6. QED
  BY <1>1, <1>2, <1>3, <1>4, <1>5, Zenon

\* Whom it does not matter to what the answer is, if it has names for its entries.
LEMMA AnswersFine ==
    ASSUME NEW t, NEW fn
    PROVE  /\ Leaf(fn) => /\ Sound(t, fn) /\ Fine(t, Call(fn))
                          /\ \A a : a.entries \in Path => Fine(t, Answer(fn, a))
           /\ fn.name = "_processSimple2" => /\ Sound(t, fn) /\ Fine(t, Call(fn))
                                             /\ \A a : Fine(t, Answer(fn, a))
<1>1. Nothing.entries \in Path
  BY DEF Nothing, Kind, Path
<1>2. Call(fn).fn = fn /\ Call(fn).answer = Nothing
  BY DEF Call
<1>3. \A a : Answer(fn, a).fn = fn /\ Answer(fn, a).answer = a
  BY DEF Answer
<1>4. Leaf(fn) => Sound(t, fn) /\ \A a : a.entries \in Path => Told(t, fn, a)
  BY DEF Leaf, Sound, Told
<1>5. fn.name = "_processSimple2" => Sound(t, fn) /\ \A a : Told(t, fn, a)
  BY DEF Sound, Told
<1>6. QED
  BY <1>1, <1>2, <1>3, <1>4, <1>5, Zenon DEF Fine

LEMMA LeafMade ==
    ASSUME NEW key, NEW cb, cb = RES(key)
    PROVE  cb.name = "RES" /\ cb.key = key /\ (Leaf(cb) <=> Reading(key))
BY DEF RES, Leaf

\* Who waits, and what is asked.
LEMMA WaitsFine ==
    ASSUME NEW t, NEW key, NEW cb, inflight(key, cb), IsReqs(reqs), FineReqs(t, reqs),
           Sound(t, cb), Takes(key, cb)
    PROVE  FineReqs(t, reqs')
<1> DEFINE line == IF key \in DOMAIN reqs THEN Append(reqs[key], cb) ELSE <<cb>>
           q == put(reqs, key, line)
<1>1. reqs' = q
  BY Zenon DEF inflight
<1>2. ASSUME NEW k \in DOMAIN line PROVE Sound(t, line[k]) /\ Takes(key, line[k])
  <2>1. CASE key \in DOMAIN reqs
    <3>1. IsSeq(reqs[key])
      BY <2>1 DEF IsReqs
    <3>2. PICK w : w = Append(reqs[key], cb)
      OBVIOUS
    <3>3. /\ IsSeq(w) /\ Len(w) = Len(reqs[key]) + 1 /\ w[Len(reqs[key]) + 1] = cb
          /\ \A j \in 1..Len(reqs[key]) : w[j] = reqs[key][j]
      BY <3>1, <3>2, SeqAppend
    <3>4. k \in 1..Len(reqs[key]) + 1 /\ line = w /\ DOMAIN reqs[key] = 1..Len(reqs[key])
      BY <1>2, <2>1, <3>1, <3>2, <3>3, SeqDomain
    <3>5. Len(reqs[key]) \in Nat
      BY <3>1, SeqDomain
    <3>6. k \in 1..Len(reqs[key]) \/ k = Len(reqs[key]) + 1
      BY <3>4, <3>5
    <3>7. k \in 1..Len(reqs[key]) => Sound(t, reqs[key][k]) /\ Takes(key, reqs[key][k])
      BY <2>1, <3>4 DEF FineReqs
    <3> HIDE DEF line
    <3>8. QED
      BY <3>3, <3>4, <3>6, <3>7
  <2>2. CASE key \notin DOMAIN reqs
    <3>1. line = <<cb>>
      BY <2>2
    <3> HIDE DEF line
    <3>2. line[k] = cb
      BY <1>2, <3>1
    <3>3. QED
      BY <3>2
  <2>3. QED
    BY <2>1, <2>2
<1> HIDE DEF line
<1>3. DOMAIN q = DOMAIN reqs \cup {key} /\ \A j \in DOMAIN q : q[j] = IF j = key THEN line ELSE reqs[j]
  BY DEF put
<1> HIDE DEF q
<1>4. ASSUME NEW j \in DOMAIN q, NEW k \in DOMAIN q[j] PROVE Sound(t, q[j][k]) /\ Takes(j, q[j][k])
  <2>1. CASE j = key
    BY <1>2, <1>3, <1>4, <2>1, Zenon
  <2>2. CASE j # key
    <3>1. j \in DOMAIN reqs /\ q[j] = reqs[j]
      BY <1>3, <2>2
    <3>2. QED
      BY <1>4, <3>1, Zenon DEF FineReqs
  <2>3. QED
    BY <2>1, <2>2
<1>5. QED
  BY <1>1, <1>4, Zenon DEF FineReqs

LEMMA AskedFine ==
    ASSUME NEW t, NEW call, NEW abs, NEW cb, Ask(call, abs, cb), IsBag(pending), FineAsked(t, pending),
           NEW r, r = [call |-> call, abs |-> abs, cb |-> cb], Sound(t, cb), Gets(r)
    PROVE  FineAsked(t, pending')
<1> DEFINE c == pending (+) SetToBag({r})
<1>1. pending' = c
  BY DEF Ask
<1>2. DOMAIN c = DOMAIN pending \cup {r}
  BY BagPut
<1>3. r.cb = cb
  OBVIOUS
<1> HIDE DEF c
<1>4. QED
  BY <1>1, <1>2, <1>3 DEF FineAsked

-----------------------------------------------------------------------------
(***************************************************************************)
(* Each action keeps that what is remembered is true.                      *)
(***************************************************************************)
LEMMA UncountTrue == ASSUME TypeInv, CacheInv, Uncount PROVE CacheInv'
<1>1. Top("uncount") /\ Set([Me EXCEPT !._processing = @ - 1]) /\ Return(<<Fn.then>>)
      /\ search' = search /\ reqs' = reqs /\ pending' = pending /\ ticks' = ticks
  BY DEF Uncount
<1>2. stack # <<>> /\ Fn.name = "uncount" /\ Fn.g \in Globs /\ FieldsOK(Fn.g, Me) /\ FnOK(Fn, Running)
  BY <1>1, OnTop DEF Own
<1>3. PICK t : t = search.files
  OBVIOUS
<1>4. PICK s : s = [Me EXCEPT !._processing = Me._processing - 1]
  OBVIOUS
<1>5. Becomes(s)
  BY <1>1, <1>2, <1>4, Becoming
<1>6. FineSelf(t, s)
  BY <1>2, <1>3, <1>4, MeFine, SelfKept
<1>7. Fine(t, Fn.then)
  <2>1. Sound(t, Fn)
    BY <1>2, <1>3, TopFine
  <2>2. Fn.then.fn.pattern \in Patterns /\ Fn.then.fn.name = "_process"
    BY <1>2, <2>1 DEF Sound, FnOK
  <2>3. QED
    BY <2>2 DEF Fine, Sound, Told
<1>8. FineAll(t, <<Fn.then>>) /\ IsSeq(<<Fn.then>>)
  BY <1>7, FineFew
<1>9. QED
  BY <1>1, <1>2, <1>3, <1>5, <1>6, <1>8, PlainStep

LEMMA HeardTrue == ASSUME TypeInv, CacheInv, Heard PROVE CacheInv'
<1>1. Top("match") /\ "match" \in Own /\ Return(<<>>) /\ self' = self
      /\ search' = search /\ reqs' = reqs /\ pending' = pending /\ ticks' = ticks
  BY DEF Heard, Own
<1>2. stack # <<>> /\ Fn.g \in Globs
  BY <1>1, OnTop
<1>3. PICK t : t = search.files
  OBVIOUS
<1>4. Becomes(Me) /\ FineSelf(t, Me)
  BY <1>1, <1>2, <1>3, Becoming, MeFine
<1>5. QED
  BY <1>1, <1>2, <1>3, <1>4, FineFew, PlainStep

LEMMA DoneTrue == ASSUME TypeInv, CacheInv, done PROVE CacheInv'
<1>1. Top("done") /\ "done" \in Own /\ Return(<<>>) /\ Set([Me EXCEPT !._processing = @ - 1])
      /\ search' = search /\ reqs' = reqs /\ pending' = pending /\ ticks' = ticks
  BY DEF done, Own
<1>2. stack # <<>> /\ Fn.g \in Globs /\ FieldsOK(Fn.g, Me)
  BY <1>1, OnTop
<1>3. PICK t : t = search.files
  OBVIOUS
<1>4. PICK s : s = [Me EXCEPT !._processing = Me._processing - 1]
  OBVIOUS
<1>5. Becomes(s)
  BY <1>1, <1>2, <1>4, Becoming
<1>6. FineSelf(t, s)
  BY <1>2, <1>3, <1>4, MeFine, SelfKept
<1>7. QED
  BY <1>1, <1>2, <1>3, <1>5, <1>6, FineFew, PlainStep

\* What an unpaused _process calls first.
LEMMA FirstFine ==
    ASSUME NEW t, Fn.pattern \in Patterns
    PROVE  Fine(t, firstStep)
<1> DEFINE pre  == prefix(Fn.pattern)
           rest == remain(Fn.pattern)
           then == [name |-> IF rest[1] = GLOBSTAR THEN "_processGlobStar2" ELSE "_processReaddir2",
                    g |-> Fn.g, pattern |-> Fn.pattern, index |-> Fn.index,
                    inGlobStar |-> Fn.inGlobStar]
           a == Call([name |-> "_stat", g |-> Fn.g, f |-> join(pre), index |-> Fn.index])
           b == Done(Fn.g)
           c == Readdir(Fn.g, makeAbs(read(pre)), Fn.inGlobStar, then)
<1>1. firstStep = IF rest = <<>> THEN a ELSE IF childrenIgnored(Me, read(pre)) THEN b ELSE c
  BY DEF firstStep
<1>2. join(pre) \in Path /\ makeAbs(read(pre)) \in Path
  BY PatternParts, JoinPath, AbsPath
<1>3. rest # <<>> => Leaf(then)
  <2>1. then.name \in {"_processReaddir2", "_processGlobStar2"} /\ then.pattern = Fn.pattern
    OBVIOUS
  <2> HIDE DEF then
  <2>2. QED
    BY <2>1 DEF Leaf, Walked
<1> HIDE DEF pre, rest, then
<1>4. Fine(t, a) /\ Fine(t, b)
  BY <1>2, CallsFine
<1>5. rest # <<>> => Fine(t, c)
  BY <1>2, <1>3, CallsFine
<1> HIDE DEF a, b, c
<1>6. QED
  BY <1>1, <1>4, <1>5, Zenon

LEMMA ProcessTrue == ASSUME TypeInv, CacheInv, _process PROVE CacheInv'
<1>1. Top("_process") /\ search' = search /\ reqs' = reqs /\ pending' = pending
      /\ ticks' = ticks /\ "_process" \in Own
  BY DEF _process, Own
<1>2. stack # <<>> /\ Fn.name = "_process" /\ Fn.g \in Globs /\ FieldsOK(Fn.g, Me)
  BY <1>1, OnTop
<1>3. PICK t : t = search.files
  OBVIOUS
<1>4. FineSelf(t, Me)
  BY <1>2, <1>3, MeFine
<1>5. CASE Me.aborted /\ Return(<<>>) /\ UNCHANGED self
  <2>1. Becomes(Me)
    BY <1>2, <1>5, Becoming
  <2>2. QED
    BY <1>1, <1>2, <1>3, <1>4, <1>5, <2>1, FineFew, PlainStep
<1>6. CASE /\ ~Me.aborted /\ Me.paused
           /\ Set([Me EXCEPT !._processing = @ + 1, !._processQueue = Append(@, Head(stack))])
           /\ Return(<<>>)
  <2>1. PICK q : q = Append(Me._processQueue, Head(stack))
    OBVIOUS
  <2>2. PICK s : s = [Me EXCEPT !._processing = Me._processing + 1, !._processQueue = q]
    OBVIOUS
  <2>3. Becomes(s)
    <3>1. Set(s)
      BY <1>6, <2>1, <2>2
    <3>2. QED
      BY <1>2, <3>1, Becoming
  <2>4. FineAll(t, q)
    <3>1. IsSeq(Me._processQueue)
      BY <1>2 DEF FieldsOK, Again
    <3>2. FineAll(t, Me._processQueue)
      BY <1>4, Zenon DEF FineSelf
    <3>3. Fine(t, Head(stack))
      BY <1>2, <1>3, TopFine
    <3>4. QED
      BY <2>1, <3>1, <3>2, <3>3, FineAppend
  <2>5. FineSelf(t, s)
    <3>1. s.cache = Me.cache /\ s._processQueue = q
      BY <1>2, <2>2 DEF FieldsOK, Fields
    <3>2. QED
      BY <1>4, <2>4, <3>1, Zenon DEF FineSelf
  <2>6. QED
    BY <1>1, <1>2, <1>3, <1>6, <2>3, <2>5, FineFew, PlainStep
<1>7. CASE /\ ~Me.aborted /\ ~Me.paused
           /\ Set([Me EXCEPT !._processing = @ + 1])
           /\ Return(<<firstStep>>)
  <2>1. PICK s : s = [Me EXCEPT !._processing = Me._processing + 1]
    OBVIOUS
  <2>2. Becomes(s)
    BY <1>2, <1>7, <2>1, Becoming
  <2>3. FineSelf(t, s)
    BY <1>2, <1>4, <2>1, SelfKept
  <2>4. Fine(t, firstStep)
    <3>1. Sound(t, Fn)
      BY <1>2, <1>3, TopFine
    <3>2. Fn.pattern \in Patterns
      BY <1>2, <3>1 DEF Sound
    <3>3. QED
      BY <3>2, FirstFine
  <2>5. FineAll(t, <<firstStep>>) /\ IsSeq(<<firstStep>>)
    BY <2>4, FineFew
  <2>6. Return(<<firstStep>>)
    BY <1>7
  <2>7. QED
    BY <1>1, <1>2, <1>3, <2>2, <2>3, <2>5, <2>6, PlainStep
<1>8. QED
  BY <1>5, <1>6, <1>7 DEF _process

\* Calls made from a sequence, and done().
LEMMA MadeFine ==
    ASSUME NEW t, NEW g, NEW work, IsSeq(work), NEW s, DOMAIN s = DOMAIN work,
           s = [k \in DOMAIN work |-> s[k]], \A k \in DOMAIN s : Fine(t, s[k])
    PROVE  FineAll(t, Append(s, Done(g))) /\ IsSeq(Append(s, Done(g)))
<1>1. Len(work) \in Nat /\ DOMAIN work = 1..Len(work)
  BY SeqDomain
<1>2. IsSeq(s)
  BY <1>1, SeqMade
<1>3. FineAll(t, s)
  BY Zenon DEF FineAll
<1>4. Fine(t, Done(g))
  BY CallsFine
<1>5. QED
  BY <1>2, <1>3, <1>4, FineAppend

\* The work of a search, if it is of patterns.
LEMMA ProcessAllFine ==
    ASSUME NEW t, NEW work, IsSeq(work), \A k \in DOMAIN work : work[k][1] \in Patterns
    PROVE  LET calls == Append(ProcessAll(work), Done(Fn.g))
           IN  FineAll(t, calls) /\ IsSeq(calls)
<1> DEFINE s == ProcessAll(work)
<1>1. DOMAIN s = DOMAIN work /\ s = [k \in DOMAIN work |-> s[k]]
  BY DEF ProcessAll
<1>2. \A k \in DOMAIN s : s[k] = Process(Fn.g, work[k][1], Fn.index, work[k][2])
  BY DEF ProcessAll
<1> HIDE DEF s
<1>3. ASSUME NEW k \in DOMAIN s PROVE Fine(t, s[k])
  <2>1. PICK pattern \in Patterns : pattern = work[k][1]
    BY <1>1
  <2>2. Fine(t, Process(Fn.g, pattern, Fn.index, work[k][2]))
    BY CallsFine
  <2>3. QED
    BY <1>2, <2>1, <2>2
<1>4. FineAll(t, Append(s, Done(Fn.g))) /\ IsSeq(Append(s, Done(Fn.g)))
  BY <1>1, <1>3, MadeFine
<1>5. QED
  BY <1>4, Zenon DEF s

\* The calls that were made with the entries.
LEMMA EntriesTrue ==
    ASSUME TypeInv, CacheInv, NEW name \in Own, Top(name), NEW t, t = search.files,
           NEW calls, Return(calls), FineAll(t, calls), IsSeq(calls),
           UNCHANGED <<search, self, out, reqs, pending, ticks, draining>>
    PROVE  CacheInv'
<1>1. stack # <<>> /\ Fn.g \in Globs
  BY OnTop
<1>2. Becomes(Me) /\ FineSelf(t, Me)
  BY <1>1, Becoming, MeFine
<1>3. QED
  BY <1>1, <1>2, PlainStep

LEMMA ProcessReaddir2True == ASSUME TypeInv, CacheInv, _processReaddir2 PROVE CacheInv'
<1>1. Top("_processReaddir2") /\ "_processReaddir2" \in Own
      /\ UNCHANGED <<search, self, out, reqs, pending, ticks, draining>>
  BY DEF _processReaddir2, Own
<1>2. stack # <<>> /\ Fn.name = "_processReaddir2" /\ IsSeq(Ans.entries)
  BY <1>1, OnTop
<1>3. PICK t : t = search.files
  OBVIOUS
<1>4. Walked(Fn.pattern) /\ Ans.entries \in Path
  <2>1. Sound(t, Fn) /\ Told(t, Fn, Ans)
    BY <1>2, <1>3, TopFine
  <2>2. QED
    BY <1>2, <2>1 DEF Sound, Told
<1> DEFINE ms == readdirMatches(o(Fn.g), Fn.pattern, Ans.entries)
           work == readdirWork(o(Fn.g), Fn.pattern, Fn.inGlobStar, Ans.entries)
<1>5. IsSeq(ms) /\ IsSeq(work)
  BY <1>2, ReaddirSeq
<1>6. \A k \in DOMAIN work : work[k][1] \in Patterns
  BY <1>4, WorkIn, Zenon
<1> HIDE DEF ms, work
<1>7. CASE Return(Append([k \in DOMAIN ms |-> EmitMatch(Fn.g, Fn.index, ms[k])], Done(Fn.g)))
  <2> DEFINE s == [k \in DOMAIN ms |-> EmitMatch(Fn.g, Fn.index, ms[k])]
  <2>1. DOMAIN s = DOMAIN ms /\ s = [k \in DOMAIN ms |-> s[k]]
    OBVIOUS
  <2>2. \A k \in DOMAIN s : s[k] = EmitMatch(Fn.g, Fn.index, ms[k])
    OBVIOUS
  <2>3. Return(Append(s, Done(Fn.g)))
    BY <1>7
  <2> HIDE DEF s
  <2>4. \A k \in DOMAIN s : Fine(t, s[k])
    BY <2>2, CallsFine
  <2>5. PICK calls : calls = Append(s, Done(Fn.g))
    OBVIOUS
  <2>6. FineAll(t, calls) /\ IsSeq(calls)
    BY <1>5, <2>1, <2>4, <2>5, MadeFine
  <2>7. Return(calls)
    BY <2>3, <2>5, Zenon
  <2>8. QED
    BY <1>1, <1>3, <2>6, <2>7, EntriesTrue
<1>8. CASE Return(Append(ProcessAll(work), Done(Fn.g)))
  <2>1. PICK calls : calls = Append(ProcessAll(work), Done(Fn.g))
    OBVIOUS
  <2>2. FineAll(t, calls) /\ IsSeq(calls)
    BY <1>5, <1>6, <2>1, ProcessAllFine
  <2>3. Return(calls)
    BY <1>8, <2>1, Zenon
  <2>4. QED
    BY <1>1, <1>3, <2>2, <2>3, EntriesTrue
<1>9. QED
  BY <1>7, <1>8 DEF _processReaddir2, ms, work

LEMMA ProcessGlobStar2True == ASSUME TypeInv, CacheInv, _processGlobStar2 PROVE CacheInv'
<1>1. Top("_processGlobStar2") /\ "_processGlobStar2" \in Own
      /\ UNCHANGED <<search, self, out, reqs, pending, ticks, draining>>
  BY DEF _processGlobStar2, Own
<1>2. stack # <<>> /\ Fn.name = "_processGlobStar2" /\ IsSeq(Ans.entries)
  BY <1>1, OnTop
<1>3. PICK t : t = search.files
  OBVIOUS
<1>4. Walked(Fn.pattern) /\ Ans.entries \in Path
  <2>1. Sound(t, Fn) /\ Told(t, Fn, Ans)
    BY <1>2, <1>3, TopFine
  <2>2. QED
    BY <1>2, <2>1 DEF Sound, Told
<1> DEFINE work == globStarWork(o(Fn.g), Me, Fn.pattern, Fn.inGlobStar, Ans.entries)
<1>5. IsSeq(work)
  BY <1>2, GlobStarSeq
<1>6. \A k \in DOMAIN work : work[k][1] \in Patterns
  BY <1>4, GlobStarWorkIn, Zenon
<1> HIDE DEF work
<1>7. CASE Return(<<Done(Fn.g)>>)
  <2>1. FineAll(t, <<Done(Fn.g)>>) /\ IsSeq(<<Done(Fn.g)>>)
    BY CallsFine, FineFew
  <2>2. QED
    BY <1>1, <1>3, <1>7, <2>1, EntriesTrue
<1>8. CASE Return(Append(ProcessAll(work), Done(Fn.g)))
  <2>1. PICK calls : calls = Append(ProcessAll(work), Done(Fn.g))
    OBVIOUS
  <2>2. FineAll(t, calls) /\ IsSeq(calls)
    BY <1>5, <1>6, <2>1, ProcessAllFine
  <2>3. Return(calls)
    BY <1>8, <2>1, Zenon
  <2>4. QED
    BY <1>1, <1>3, <2>2, <2>3, EntriesTrue
<1>9. QED
  BY <1>7, <1>8 DEF _processGlobStar2, work

LEMMA ProcessSimple2True == ASSUME TypeInv, CacheInv, _processSimple2 PROVE CacheInv'
<1>1. Top("_processSimple2") /\ "_processSimple2" \in Own
      /\ UNCHANGED <<search, self, out, reqs, pending, ticks, draining>>
  BY DEF _processSimple2, Own
<1>2. PICK t : t = search.files
  OBVIOUS
<1>3. PICK e, d : e = EmitMatch(Fn.g, Fn.index, Fn.f) /\ d = Done(Fn.g)
  OBVIOUS
<1>4. Fine(t, e) /\ Fine(t, d)
  BY <1>3, CallsFine
<1>5. Return(<<d>>) \/ Return(<<e, d>>)
  BY <1>3, Zenon DEF _processSimple2
<1>6. FineAll(t, <<d>>) /\ IsSeq(<<d>>)
  BY <1>4, FineFew
<1>7. FineAll(t, <<e, d>>) /\ IsSeq(<<e, d>>)
  <2>1. FineAll(t, <<e>>) /\ IsSeq(<<e>>)
    BY <1>4, FineFew
  <2>2. <<e, d>> = Append(<<e>>, d)
    OBVIOUS
  <2>3. QED
    BY <1>4, <2>1, <2>2, FineAppend
<1>8. QED
  BY <1>1, <1>2, <1>5, <1>6, <1>7, EntriesTrue

LEMMA EmitMatchTrue == ASSUME TypeInv, CacheInv, _emitMatch PROVE CacheInv'
<1>1. Top("_emitMatch") /\ "_emitMatch" \in Own
      /\ search' = search /\ reqs' = reqs /\ pending' = pending /\ ticks' = ticks
  BY DEF _emitMatch, Own
<1>2. stack # <<>> /\ Fn.g \in Globs /\ FieldsOK(Fn.g, Me)
  BY <1>1, OnTop
<1>3. PICK t : t = search.files
  OBVIOUS
<1>4. FineSelf(t, Me)
  BY <1>2, <1>3, MeFine
<1>5. FineAll(t, <<>>) /\ IsSeq(<<>>)
  BY FineFew
<1>6. CASE Return(<<>>) /\ UNCHANGED self
  <2>1. Becomes(Me)
    BY <1>2, <1>6, Becoming
  <2>2. QED
    BY <1>1, <1>2, <1>3, <1>4, <1>5, <1>6, <2>1, PlainStep
<1>7. CASE Return(<<>>) /\ Set([Me EXCEPT !._emitQueue = Append(@, <<Fn.index, Fn.e>>)])
  <2>1. PICK s : s = [Me EXCEPT !._emitQueue = Append(Me._emitQueue, <<Fn.index, Fn.e>>)]
    OBVIOUS
  <2>2. Becomes(s)
    BY <1>2, <1>7, <2>1, Becoming
  <2>3. FineSelf(t, s)
    BY <1>2, <1>4, <2>1, SelfKept
  <2>4. QED
    BY <1>1, <1>2, <1>3, <1>5, <1>7, <2>2, <2>3, PlainStep
<1>8. CASE /\ Set(add(Me, Fn.index, {Fn.e}))
           /\ Return(<<Call([name |-> "match", g |-> Fn.g])>>)
  <2>1. PICK s, c : s = add(Me, Fn.index, {Fn.e}) /\ c = Call([name |-> "match", g |-> Fn.g])
    OBVIOUS
  <2>2. Becomes(s) /\ Return(<<c>>)
    BY <1>2, <1>8, <2>1, Becoming
  <2>3. FineSelf(t, s)
    BY <1>2, <1>4, <2>1, SelfKept
  <2>4. FineAll(t, <<c>>) /\ IsSeq(<<c>>)
    BY <2>1, CallsFine, FineFew
  <2>5. QED
    BY <1>1, <1>2, <1>3, <2>2, <2>3, <2>4, PlainStep
<1>9. QED
  BY <1>6, <1>7, <1>8 DEF _emitMatch

\* What is noted of the answers.
LEMMA PutTrue ==
    ASSUME NEW t, NEW f, TrueAll(t, f), NEW p, NEW v, TrueOf(t, p, v)
    PROVE  TrueAll(t, put(f, p, v))
<1>1. DOMAIN put(f, p, v) = DOMAIN f \cup {p}
      /\ \A q \in DOMAIN put(f, p, v) : put(f, p, v)[q] = IF q = p THEN v ELSE f[q]
  BY DEF put
<1>2. QED
  BY <1>1, Zenon DEF TrueAll

LEMMA KindTrue ==
    ASSUME NEW t, NEW p \in Path
    PROVE  /\ lstat(t, p).er = "" => TrueOf(t, p, Kind("true"))
           /\ stat(t, p).kind = "dir" => TrueOf(t, p, Kind("DIR"))
           /\ lstat(t, p).er = "" /\ stat(t, p).kind # "dir" => TrueOf(t, p, Kind("FILE"))
           /\ readdir(t, p).er \in {"ENOENT", "EACCES"} => TrueOf(t, p, Kind("false"))
           /\ \A es : readdir(t, p) = Entries(es) => TrueOf(t, p, Entries(es))
<1>1. PICK a, b, d : a = lstat(t, p) /\ b = stat(t, p) /\ d = readdir(t, p)
  OBVIOUS
<1> DEFINE Body(c) == /\ c.kind \in {"entries", "true", "DIR", "FILE", "false"}
                      /\ c.kind = "entries" => d = c
                      /\ c.kind = "true" => a.er = ""
                      /\ c.kind = "DIR" => b.kind = "dir"
                      /\ c.kind = "FILE" => a.er = "" /\ b.kind # "dir"
                      /\ c.kind = "false" => d.er \in {"ENOENT", "EACCES"}
<1>2. \A c : Body(c) => TrueOf(t, p, c)
  BY <1>1, Zenon DEF TrueOf
<1>3. /\ Kind("true").kind = "true" /\ Kind("DIR").kind = "DIR" /\ Kind("FILE").kind = "FILE"
      /\ Kind("false").kind = "false" /\ \A es : Entries(es).kind = "entries"
  BY DEF Kind, Entries
<1>4. ASSUME NEW c
      PROVE  /\ c.kind = "true" /\ a.er = "" => Body(c)
             /\ c.kind = "DIR" /\ b.kind = "dir" => Body(c)
             /\ c.kind = "FILE" /\ a.er = "" /\ b.kind # "dir" => Body(c)
             /\ c.kind = "false" /\ d.er \in {"ENOENT", "EACCES"} => Body(c)
             /\ c.kind = "entries" /\ d = c => Body(c)
  BY Zenon
<1> HIDE DEF Body
<1>5. QED
  BY <1>1, <1>2, <1>3, <1>4, Zenon

LEMMA CacheFine ==
    ASSUME NEW g, NEW s, FieldsOK(g, s), NEW t, FineSelf(t, s), NEW f, TrueAll(t, f), NEW v
    PROVE  FineSelf(t, [s EXCEPT !.cache = f]) /\ FineSelf(t, [s EXCEPT !.statCache = v, !.cache = f])
           /\ FineSelf(t, [s EXCEPT !.statCache = v])
<1>1. "cache" \in DOMAIN s /\ "_processQueue" \in DOMAIN s
  BY DEF FieldsOK, Fields
<1>2. \A r : r.cache = f /\ r._processQueue = s._processQueue => FineSelf(t, r)
  BY Zenon DEF FineSelf
<1>3. \A r : r.cache = s.cache /\ r._processQueue = s._processQueue => FineSelf(t, r)
  BY Zenon DEF FineSelf
<1>4. FineSelf(t, [s EXCEPT !.cache = f])
  BY <1>1, <1>2
<1>5. FineSelf(t, [s EXCEPT !.statCache = v])
  BY <1>1, <1>3
<1>6. PICK r : r = [s EXCEPT !.statCache = v, !.cache = f]
  OBVIOUS
<1>7. r.cache = f /\ r._processQueue = s._processQueue
  BY <1>1, <1>6
<1>8. QED
  BY <1>2, <1>4, <1>5, <1>6, <1>7, Zenon

LEMMA FsErrors ==
    ASSUME NEW t, NEW p
    PROVE  /\ stat(t, p).er # "" => stat(t, p).kind = "none"
           /\ readdir(t, p).er \in {"", "ENOENT", "EACCES", "ENOTDIR"}
           /\ readdir(t, p).er = "" => readdir(t, p) = Entries(readdir(t, p).entries)
<1>1. PICK b, d : b = stat(t, p) /\ d = readdir(t, p)
  OBVIOUS
<1>2. b.er # "" => b.kind = "none"
  <2>1. b = Fails("ENOENT") \/ \E k : b = Kind(k)
    BY <1>1, Zenon DEF stat, kindOf
  <2>2. Fails("ENOENT").kind = "none" /\ \A k : Kind(k).er = ""
    BY DEF Fails, Kind
  <2>3. QED
    BY <2>1, <2>2, Zenon
<1>3. \/ d \in {Fails("ENOENT"), Fails("EACCES"), Fails("ENOTDIR")}
      \/ \E es : d = Entries(es)
  BY <1>1, Zenon DEF readdir
<1>4. \A es : Entries(es).er = "" /\ Entries(es).entries = es
  BY DEF Entries
<1>5. \A er : Fails(er).er = er
  BY DEF Fails
<1>6. CASE \E es : d = Entries(es)
  <2>1. d.er = "" /\ d = Entries(d.entries)
    BY <1>4, <1>6, Zenon
  <2>2. QED
    BY <1>1, <1>2, <2>1, Zenon
<1>7. CASE d \in {Fails("ENOENT"), Fails("EACCES"), Fails("ENOTDIR")}
  <2>1. d.er \in {"ENOENT", "EACCES", "ENOTDIR"}
    BY <1>5, <1>7, Zenon
  <2>2. d.er \in {"", "ENOENT", "EACCES", "ENOTDIR"} /\ d.er # ""
    BY <2>1, Zenon
  <2>3. QED
    BY <1>1, <1>2, <2>2, Zenon
<1>8. QED
  BY <1>3, <1>6, <1>7, Zenon

LEMMA EntriesNoted ==
    ASSUME NEW g, NEW s, FieldsOK(g, s), NEW t, Finite(t), FineSelf(t, s), NEW p \in Path,
           NEW es, readdir(t, p) = Entries(es)
    PROVE  FineSelf(t, _readdirEntries(s, p, es))
<1> DEFINE known == {Append(p, es[k]) : k \in DOMAIN es}
           f == [q \in DOMAIN s.cache \cup known \cup {p} |->
                   IF q = p THEN Entries(es)
                   ELSE IF q \in known THEN Kind("true") ELSE s.cache[q]]
<1>1. TrueOf(t, p, Entries(es))
  BY KindTrue, Zenon
<1>2. ASSUME NEW q \in known PROVE TrueOf(t, q, Kind("true"))
  <2>1. PICK k \in DOMAIN es : q = Append(p, es[k])
    OBVIOUS
  <2>2. q \in Path /\ lstat(t, q).er = ""
    BY <2>1, EntryThere, Zenon
  <2>3. QED
    BY <2>2, KindTrue, Zenon
<1> HIDE DEF known
<1>3. DOMAIN f = DOMAIN s.cache \cup known \cup {p}
      /\ \A q \in DOMAIN f : f[q] = IF q = p THEN Entries(es)
                                    ELSE IF q \in known THEN Kind("true") ELSE s.cache[q]
  OBVIOUS
<1>4. "cache" \in DOMAIN s
  BY DEF FieldsOK, Fields
<1>5. _readdirEntries(s, p, es) = [s EXCEPT !.cache = f]
  BY <1>4 DEF _readdirEntries, known
<1> HIDE DEF f
<1>6. TrueAll(t, s.cache)
  BY Zenon DEF FineSelf
<1>7. TrueAll(t, f)
  BY <1>1, <1>2, <1>3, <1>6, Zenon DEF TrueAll
<1>8. FineSelf(t, [s EXCEPT !.cache = f])
  BY <1>7, CacheFine, Zenon
<1>9. QED
  BY <1>5, <1>8, Zenon

LEMMA ErrorNoted ==
    ASSUME NEW g, NEW s, FieldsOK(g, s), NEW t, LinksLead(t), FineSelf(t, s), NEW p \in Path,
           NEW d, d = readdir(t, p), NEW er, er = d.er, er \in {"ENOENT", "EACCES", "ENOTDIR"}
    PROVE  FineSelf(t, _readdirError(s, p, er))
<1>1. PICK v : v = Kind(IF er = "ENOTDIR" THEN "FILE" ELSE "false")
  OBVIOUS
<1>2. PICK a, b : a = lstat(t, p) /\ b = stat(t, p)
  OBVIOUS
<1>3. TrueOf(t, p, v)
  <2>1. CASE er = "ENOTDIR"
    <3>1. a.er = "" /\ b.kind = "file"
      BY <1>2, <2>1, Stats, Zenon
    <3>2. b.kind # "dir"
      BY <3>1, Zenon
    <3>3. v = Kind("FILE")
      BY <1>1, <2>1, Zenon
    <3>4. QED
      BY <1>2, <3>1, <3>2, <3>3, KindTrue, Zenon
  <2>2. CASE er # "ENOTDIR"
    <3>2. d.er \in {"ENOENT", "EACCES"}
      BY <2>2
    <3>3. v = Kind("false")
      BY <1>1, <2>2, Zenon
    <3>4. QED
      BY <1>2, <3>2, <3>3, KindTrue, Zenon
  <2>3. QED
    BY <2>1, <2>2
<1>4. TrueAll(t, s.cache)
  BY Zenon DEF FineSelf
<1>5. PICK f : f = put(s.cache, p, v)
  OBVIOUS
<1>6. TrueAll(t, f)
  BY <1>3, <1>4, <1>5, PutTrue, Zenon
<1>7. "cache" \in DOMAIN s
  BY Zenon DEF FieldsOK, Fields
<1>8. _readdirError(s, p, er) = [s EXCEPT !.cache = f]
  BY <1>1, <1>5, <1>7, Zenon DEF _readdirError
<1>9. FineSelf(t, [s EXCEPT !.cache = f])
  BY <1>6, CacheFine, Zenon
<1>10. QED
  BY <1>8, <1>9, Zenon

\* The files of a search are such as there may be.
LEMMA FilesFinite == ASSUME TypeInv PROVE Finite(search.files)
BY FilesAssumption DEF TypeInv, SelfInv, Finite

LEMMA LstatcbTrue == ASSUME TypeInv, CacheInv, LinksLead(search.files), lstatcb PROVE CacheInv'
<1>1. /\ Top("lstatcb") /\ "lstatcb" \in Own
      /\ search' = search /\ reqs' = reqs /\ pending' = pending /\ ticks' = ticks
  <2>1. Top("lstatcb") /\ UNCHANGED <<search, out, reqs, pending, ticks, draining>>
    BY Zenon DEF lstatcb
  <2>2. "lstatcb" \in Own
    BY DEF Own
  <2>3. QED
    BY <2>1, <2>2
<1>2. stack # <<>> /\ Fn.name = "lstatcb" /\ Fn.g \in Globs /\ FieldsOK(Fn.g, Me)
  BY <1>1, OnTop
<1>3. PICK t : t = search.files
  OBVIOUS
<1>4. FineSelf(t, Me) /\ Sound(t, Fn) /\ Told(t, Fn, Ans) /\ LinksLead(t)
  BY <1>2, <1>3, MeFine, TopFine
<1>5. PICK abs, cb, b : abs = Fn.abs /\ cb = Fn.cb /\ b = (Ans.kind = "link")
  OBVIOUS
<1>6. abs \in Path /\ Leaf(cb) /\ Ans = lstat(t, abs)
  BY <1>2, <1>4, <1>5 DEF Sound, Told
<1>7. PICK noted : noted = [Me EXCEPT !.symlinks = put(@, abs, b)]
  OBVIOUS
<1>8. FieldsOK(Fn.g, noted) /\ FineSelf(t, noted)
  <2>1. b \in BOOLEAN
    BY <1>5
  <2>2. FieldsOK(Fn.g, noted)
    BY <1>2, <1>7, <2>1, LinkOK
  <2>3. noted = [Me EXCEPT !.symlinks = put(Me.symlinks, abs, b)]
    BY <1>7
  <2>4. FineSelf(t, noted)
    BY <1>2, <1>4, <2>3, SelfKept
  <2>5. QED
    BY <2>2, <2>4
<1>9. PICK c, d : c = Call(cb) /\ d = Readdir(Fn.g, abs, FALSE, cb)
  OBVIOUS
<1>10. FineAll(t, <<c>>) /\ IsSeq(<<c>>) /\ FineAll(t, <<d>>) /\ IsSeq(<<d>>)
  <2>1. Fine(t, c) /\ Fine(t, d)
    BY <1>6, <1>9, AnswersFine, CallsFine, Zenon
  <2>2. QED
    BY <2>1, FineFew
<1>11. CASE UNCHANGED self /\ Return(<<Call(Fn.cb)>>)
  <2>1. Becomes(Me) /\ Return(<<c>>)
    BY <1>2, <1>5, <1>9, <1>11, Becoming
  <2>2. QED
    BY <1>1, <1>2, <1>3, <1>4, <1>10, <2>1, PlainStep
<1>12. CASE /\ Ans.kind = "file"
            /\ Set([noted EXCEPT !.cache = put(@, Fn.abs, Kind("FILE"))])
            /\ Return(<<Call(Fn.cb)>>)
  <2>1. PICK f : f = put(noted.cache, abs, Kind("FILE"))
    OBVIOUS
  <2>2. PICK s : s = [noted EXCEPT !.cache = f]
    OBVIOUS
  <2>3. Becomes(s) /\ Return(<<c>>)
    <3>1. Set(s)
      BY <1>5, <1>12, <2>1, <2>2
    <3>2. QED
      BY <1>2, <1>5, <1>9, <1>12, <3>1, Becoming
  <2>4. TrueOf(t, abs, Kind("FILE"))
    <3>1. Ans.kind # "link" /\ Ans.kind # "none" /\ Ans.kind # "dir"
      BY <1>12
    <3>2. Ans.er = "" /\ stat(t, abs) = Ans
      BY <1>4, <1>6, <3>1, Stats, Zenon
    <3>3. QED
      BY <1>6, <3>1, <3>2, KindTrue, Zenon
  <2>5. TrueAll(t, f)
    <3>1. TrueAll(t, noted.cache)
      BY <1>8, Zenon DEF FineSelf
    <3>2. QED
      BY <2>1, <2>4, <3>1, PutTrue
  <2>6. FineSelf(t, s)
    BY <1>8, <2>2, <2>5, CacheFine, Zenon
  <2>7. QED
    BY <1>1, <1>2, <1>3, <1>10, <2>3, <2>6, PlainStep
<1>13. CASE Set(noted) /\ Return(<<Readdir(Fn.g, Fn.abs, FALSE, Fn.cb)>>)
  <2>1. Becomes(noted) /\ Return(<<d>>)
    BY <1>2, <1>5, <1>9, <1>13, Becoming
  <2>2. QED
    BY <1>1, <1>2, <1>3, <1>8, <1>10, <2>1, PlainStep
<1>14. QED
  <2>1. noted = [Me EXCEPT !.symlinks = put(@, Fn.abs, Ans.kind = "link")]
    BY <1>5, <1>7
  <2>2. QED
    BY <1>11, <1>12, <1>13, <2>1, Zenon DEF lstatcb

LEMMA ReaddirCbTrue == ASSUME TypeInv, CacheInv, LinksLead(search.files), readdirCb PROVE CacheInv'
<1>1. /\ Top("readdirCb") /\ "readdirCb" \in Own
      /\ search' = search /\ reqs' = reqs /\ pending' = pending /\ ticks' = ticks
  <2>1. Top("readdirCb") /\ UNCHANGED <<search, reqs, pending, ticks, draining>>
    BY Zenon DEF readdirCb
  <2>2. "readdirCb" \in Own
    BY DEF Own
  <2>3. QED
    BY <2>1, <2>2
<1>2. stack # <<>> /\ Fn.name = "readdirCb" /\ Fn.g \in Globs /\ FieldsOK(Fn.g, Me)
  BY <1>1, OnTop
<1>3. PICK t : t = search.files
  OBVIOUS
<1>4. FineSelf(t, Me) /\ Sound(t, Fn) /\ Told(t, Fn, Ans) /\ LinksLead(t) /\ Finite(t)
  BY <1>2, <1>3, MeFine, TopFine, FilesFinite
<1>5. PICK abs, cb, es : abs = Fn.abs /\ cb = Fn.cb /\ es = Ans.entries
  OBVIOUS
<1>6. abs \in Path /\ Leaf(cb) /\ Ans = readdir(t, abs)
  BY <1>2, <1>4, <1>5 DEF Sound, Told
<1>7. es \in Path
  BY <1>4, <1>5, <1>6, AnswerPath, Zenon
<1>8. CASE Return(<<>>) /\ UNCHANGED <<self, out>>
  <2>1. Becomes(Me)
    BY <1>2, <1>8, Becoming
  <2>2. QED
    BY <1>1, <1>2, <1>3, <1>4, <1>8, <2>1, FineFew, PlainStep
<1>9. CASE /\ Ans.er = ""
           /\ Set(_readdirEntries(Me, Fn.abs, Ans.entries))
           /\ Return(<<Answer(Fn.cb, Ans)>>)
  <2>1. PICK s, c : s = _readdirEntries(Me, abs, es) /\ c = Answer(cb, Ans)
    BY Zenon
  <2>2. readdir(t, abs) = Entries(es)
    BY <1>5, <1>6, <1>9, FsErrors, Zenon
  <2>3. FineSelf(t, s)
    BY <1>2, <1>4, <1>6, <2>1, <2>2, EntriesNoted, Zenon
  <2>4. Fine(t, c)
    BY <1>5, <1>6, <1>7, <2>1, AnswersFine, Zenon
  <2>5. FineAll(t, <<c>>) /\ IsSeq(<<c>>)
    BY <2>4, FineFew, Zenon
  <2>6. Set(s) /\ Return(<<c>>)
    BY <1>5, <1>9, <2>1, Zenon
  <2>7. Becomes(s)
    BY <1>2, <2>6, Becoming, Zenon
  <2>8. QED
    BY ONLY TypeInv, CacheInv, <1>1, <1>2, <1>3, <2>3, <2>5, <2>6, <2>7, PlainStep
<1>10. ASSUME NEW b, Ans.er # "",
              Set([_readdirError(Me, Fn.abs, Ans.er) EXCEPT !.aborted = b]),
              Return(<<Call(Fn.cb)>>)
       PROVE  CacheInv'
  <2>1. PICK er, noted, c : er = Ans.er /\ noted = _readdirError(Me, abs, er) /\ c = Call(cb)
    BY Zenon
  <2>2. er \in {"ENOENT", "EACCES", "ENOTDIR"}
    BY <1>6, <1>10, <2>1, FsErrors, Zenon
  <2>3. FineSelf(t, noted)
    BY <1>2, <1>4, <1>6, <2>1, <2>2, ErrorNoted, Zenon
  <2>4. FieldsOK(Fn.g, noted)
    BY <1>2, <2>1, ErrorOK, Zenon
  <2>5. FineAll(t, <<c>>) /\ IsSeq(<<c>>)
    BY <1>6, <2>1, AnswersFine, FineFew, Zenon
  <2>6. PICK s : s = [noted EXCEPT !.aborted = b]
    BY Zenon
  <2>7. FineSelf(t, s)
    BY <2>3, <2>4, <2>6, SelfKept, Zenon
  <2>8. Set(s) /\ Return(<<c>>)
    BY <1>5, <1>10, <2>1, <2>6, Zenon
  <2>9. Becomes(s)
    BY <1>2, <2>8, Becoming, Zenon
  <2>10. QED
    BY ONLY TypeInv, CacheInv, <1>1, <1>2, <1>3, <2>5, <2>7, <2>8, <2>9, PlainStep
<1>11. QED
  BY <1>8, <1>9, <1>10, Zenon DEF readdirCb

LEMMA KindIs == \A k : Kind(k).kind = k
BY DEF Kind

\* What _stat2 notes, if it knows the kind.
LEMMA Stat2True ==
    ASSUME TypeInv, CacheInv, NEW name \in {"statcb", "targetcb"}, Top(name), NEW kind, _stat2(kind),
           NEW t, t = search.files, TrueOf(t, Fn.abs, Kind(type(kind))),
           search' = search, reqs' = reqs, pending' = pending, ticks' = ticks
    PROVE  CacheInv'
<1>1. name \in Own
  BY DEF Own
<1>2. stack # <<>> /\ Fn.name = name /\ Fn.g \in Globs /\ FieldsOK(Fn.g, Me) /\ FnOK(Fn, Running)
  BY <1>1, OnTop
<1>3. Fn.then.name = "_processSimple2"
  BY <1>2 DEF FnOK
<1>4. FineSelf(t, Me)
  BY <1>2, MeFine
<1>5. PICK k : k = IF Fn.abs \in DOMAIN Me.cache THEN Me.cache[Fn.abs] ELSE Kind("false")
  BY Zenon
<1>6. PICK v : v = IF k.kind = "false" THEN Kind(type(kind)) ELSE k
  BY Zenon
<1>7. PICK f, h : f = put(Me.statCache, Fn.abs, Kind(kind)) /\ h = put(Me.cache, Fn.abs, v)
  BY Zenon
<1>8. PICK s, c : /\ s = [Me EXCEPT !.statCache = f, !.cache = h]
                  /\ c = Answer(Fn.then, typeAnswer(Fn.then.f, kind))
  BY Zenon
<1>9. Set(s) /\ Return(<<c>>)
  <2>1. Set([Me EXCEPT !.statCache = put(Me.statCache, Fn.abs, Kind(kind)), !.cache = put(Me.cache, Fn.abs, v)])
    BY <1>5, <1>6 DEF _stat2
  <2>2. Return(<<c>>)
    BY <1>8, Zenon DEF _stat2
  <2>3. QED
    BY <1>7, <1>8, <2>1, <2>2, Zenon
<1>10. TrueAll(t, Me.cache)
  BY <1>4, Zenon DEF FineSelf
<1>11. TrueOf(t, Fn.abs, v)
  <2>1. Kind("false").kind = "false"
    BY KindIs, Zenon
  <2>2. QED
    BY <1>5, <1>6, <1>10, <2>1, Zenon DEF TrueAll
<1>12. TrueAll(t, h)
  BY <1>7, <1>10, <1>11, PutTrue, Zenon
<1>13. FineSelf(t, s)
  BY <1>2, <1>4, <1>8, <1>12, CacheFine, Zenon
<1>14. FineAll(t, <<c>>) /\ IsSeq(<<c>>)
  BY <1>3, <1>8, AnswersFine, FineFew, Zenon
<1>15. Becomes(s)
  BY <1>2, <1>9, Becoming, Zenon
<1>16. QED
  BY <1>2, <1>9, <1>13, <1>14, <1>15, PlainStep

LEMMA TargetcbTrue == ASSUME TypeInv, CacheInv, LinksLead(search.files), targetcb PROVE CacheInv'
<1>1. PICK kind : kind = IF Ans.er = "" THEN Ans.kind ELSE "link"
  BY Zenon
<1>2. /\ Top("targetcb") /\ _stat2(kind) /\ search' = search /\ reqs' = reqs /\ pending' = pending
      /\ ticks' = ticks
  <2>1. Top("targetcb") /\ _stat2(kind) /\ UNCHANGED <<search, out, reqs, pending, ticks, draining>>
    BY <1>1, Zenon DEF targetcb
  <2>2. QED
    BY <2>1
<1>3. PICK t : t = search.files
  BY Zenon
<1>4. "targetcb" \in Own
  BY DEF Own
<1>5. stack # <<>> /\ Fn.name = "targetcb"
  BY <1>2, <1>4, OnTop
<1>6. Sound(t, Fn) /\ Told(t, Fn, Ans) /\ LinksLead(t)
  BY <1>3, <1>5, TopFine
<1>7. PICK abs : abs = Fn.abs
  OBVIOUS
<1>8. abs \in Path /\ lstat(t, abs).kind = "link" /\ Ans = stat(t, abs)
  BY <1>5, <1>6, <1>7 DEF Sound, Told
<1>9. lstat(t, abs).er = ""
  <2>1. "link" # "none"
    OBVIOUS
  <2>2. QED
    BY <1>6, <1>8, <2>1, Stats, Zenon
<1>10. TrueOf(t, abs, Kind(type(kind)))
  <2>1. "link" # "dir" /\ "none" # "dir"
    OBVIOUS
  <2>2. CASE kind = "dir"
    <3>1. Ans.kind = "dir"
      BY <1>1, <2>1, <2>2, Zenon
    <3>2. Kind(type(kind)) = Kind("DIR")
      BY <2>2, Zenon DEF type
    <3>3. QED
      BY <1>8, <3>1, <3>2, KindTrue, Zenon
  <2>3. CASE kind # "dir"
    <3>1. Ans.kind # "dir"
      BY <1>1, <1>8, <2>1, <2>3, FsErrors, Zenon
    <3>2. Kind(type(kind)) = Kind("FILE")
      BY <2>3, Zenon DEF type
    <3>3. QED
      BY <1>8, <1>9, <3>1, <3>2, KindTrue, Zenon
  <2>4. QED
    BY <2>2, <2>3, Zenon
<1>11. QED
  BY ONLY TypeInv, CacheInv, <1>2, <1>3, <1>7, <1>10, Stat2True

LEMMA StatcbTrue == ASSUME TypeInv, CacheInv, LinksLead(search.files), statcb PROVE CacheInv'
<1>1. /\ Top("statcb") /\ "statcb" \in Own
      /\ search' = search /\ reqs' = reqs /\ ticks' = ticks
  <2>1. Top("statcb") /\ UNCHANGED <<search, out, reqs, ticks, draining>>
    BY Zenon DEF statcb
  <2>2. "statcb" \in Own
    BY DEF Own
  <2>3. QED
    BY <2>1, <2>2
<1>2. stack # <<>> /\ Fn.name = "statcb" /\ Fn.g \in Globs /\ FieldsOK(Fn.g, Me) /\ FnOK(Fn, Running)
  BY <1>1, OnTop
<1>3. PICK t : t = search.files
  BY Zenon
<1>4. FineSelf(t, Me) /\ Sound(t, Fn) /\ Told(t, Fn, Ans) /\ LinksLead(t)
  BY <1>2, <1>3, MeFine, TopFine
<1>5. PICK abs : abs = Fn.abs
  OBVIOUS
<1>6. abs \in Path /\ Ans = lstat(t, abs)
  BY <1>2, <1>4, <1>5 DEF Sound, Told
<1>7. Fn.then.name = "_processSimple2"
  BY <1>2 DEF FnOK
<1>8. CASE /\ Set([Me EXCEPT !.statCache = put(@, Fn.abs, Kind("false"))])
           /\ Return(<<Call(Fn.then)>>) /\ UNCHANGED pending
  <2>1. PICK v, c : v = put(Me.statCache, Fn.abs, Kind("false")) /\ c = Call(Fn.then)
    OBVIOUS
  <2>2. PICK s : s = [Me EXCEPT !.statCache = v]
    OBVIOUS
  <2>3. Set(s) /\ Return(<<c>>)
    BY <1>8, <2>1, <2>2
  <2>4. Becomes(s)
    BY <1>2, <2>3, Becoming, Zenon
  <2>5. FineAll(t, <<c>>) /\ IsSeq(<<c>>)
    BY <1>7, <2>1, AnswersFine, FineFew, Zenon
  <2>6. FineSelf(t, s)
    <3>1. TrueAll(t, Me.cache)
      BY <1>4, Zenon DEF FineSelf
    <3>2. QED
      BY <1>2, <1>4, <2>2, <3>1, CacheFine, Zenon
  <2>7. QED
    BY <1>1, <1>2, <1>3, <1>8, <2>3, <2>4, <2>5, <2>6, PlainStep
<1>9. CASE /\ Ans.kind = "link" /\ Ask("stat", Fn.abs, [Fn EXCEPT !.name = "targetcb"])
           /\ Return(<<>>) /\ UNCHANGED self
  <2>1. PICK cb : cb = [Fn EXCEPT !.name = "targetcb"]
    OBVIOUS
  <2>2. cb.name = "targetcb" /\ cb.abs = abs
    <3>1. Fn = [name |-> "statcb", g |-> Fn.g, abs |-> Fn.abs, then |-> Fn.then]
      BY <1>2 DEF FnOK
    <3>2. QED
      BY <1>5, <2>1, <3>1
  <2>3. Sound(t, cb)
    <3>1. lstat(t, cb.abs).kind = "link"
      BY <1>6, <1>9, <2>2, Zenon
    <3>2. QED
      BY <1>6, <2>2, <3>1 DEF Sound
  <2>4. PICK r : r = [call |-> "stat", abs |-> abs, cb |-> cb]
    OBVIOUS
  <2>5. Gets(r)
    BY <2>2, <2>4 DEF Gets
  <2>6. IsBag(pending) /\ FineAsked(t, pending) /\ FineReqs(t, reqs')
    BY <1>1, <1>3, Zenon DEF TypeInv, PendingInv, CacheInv
  <2>7. Ask("stat", abs, cb)
    BY <1>5, <1>9, <2>1
  <2>8. FineAsked(t, pending')
    BY <2>3, <2>4, <2>5, <2>6, <2>7, AskedFine, Zenon
  <2>9. Becomes(Me)
    BY <1>2, <1>9, Becoming
  <2>10. QED
    BY <1>1, <1>2, <1>3, <1>4, <1>9, <2>6, <2>8, <2>9, FineFew, SelfStep
<1>10. CASE Ans.kind \in {"dir", "file"} /\ _stat2(Ans.kind) /\ UNCHANGED pending
  <2>1. Ans.kind # "link" /\ Ans.kind # "none"
    BY <1>10
  <2>2. Ans.er = "" /\ stat(t, abs) = Ans
    BY <1>4, <1>6, <2>1, Stats, Zenon
  <2>3. TrueOf(t, abs, Kind(type(Ans.kind)))
    <3>1. CASE Ans.kind = "dir"
      <4>1. Kind(type(Ans.kind)) = Kind("DIR")
        BY <3>1, Zenon DEF type
      <4>2. QED
        BY <1>6, <2>2, <3>1, <4>1, KindTrue, Zenon
    <3>2. CASE Ans.kind # "dir"
      <4>1. Kind(type(Ans.kind)) = Kind("FILE")
        BY <3>2, Zenon DEF type
      <4>2. QED
        BY <1>6, <2>2, <3>2, <4>1, KindTrue, Zenon
    <3>3. QED
      BY <3>1, <3>2, Zenon
  <2>4. PICK kind : kind = Ans.kind
    OBVIOUS
  <2>5. _stat2(kind) /\ TrueOf(t, Fn.abs, Kind(type(kind))) /\ pending' = pending
    BY <1>5, <1>10, <2>3, <2>4, Zenon
  <2>6. QED
    BY ONLY TypeInv, CacheInv, <1>1, <1>3, <2>5, Stat2True
<1>11. QED
  BY <1>8, <1>9, <1>10, Zenon DEF statcb

\* The first who asks for an lstat asks fs.
LEMMA AskOnceFine ==
    ASSUME TypeInv, CacheInv, NEW t, t = search.files, NEW key, NEW abs, NEW cb,
           AskOnce(key, "lstat", abs, cb), ~Reading(key), key[2] = abs,
           Sound(t, cb), cb.name \in {"lstatcb", "statcb"}, cb.abs = abs
    PROVE  FineReqs(t, reqs') /\ FineAsked(t, pending')
<1>1. IsReqs(reqs) /\ FineReqs(t, reqs) /\ IsBag(pending) /\ FineAsked(t, pending)
  BY Zenon DEF TypeInv, ReqsInv, PendingInv, CacheInv
<1>2. inflight(key, cb) /\ Takes(key, cb)
  BY Zenon DEF AskOnce, Takes
<1>3. FineReqs(t, reqs')
  BY <1>1, <1>2, WaitsFine, Zenon
<1>4. FineAsked(t, pending')
  <2>1. CASE UNCHANGED pending
    BY <1>1, <2>1, Zenon
  <2>2. CASE Ask("lstat", abs, RES(key))
    <3>1. PICK res : res = RES(key)
      BY Zenon
    <3>2. res.name = "RES" /\ res.key = key
      BY <3>1, LeafMade, Zenon
    <3>3. Sound(t, res)
      BY <3>2 DEF Sound
    <3>4. PICK r : r = [call |-> "lstat", abs |-> abs, cb |-> res]
      BY Zenon
    <3>5. Gets(r)
      BY <3>2, <3>4 DEF Gets
    <3>6. QED
      BY <1>1, <2>2, <3>1, <3>3, <3>4, <3>5, AskedFine, Zenon
  <2>3. QED
    BY <2>1, <2>2, Zenon DEF AskOnce
<1>5. QED
  BY <1>3, <1>4

LEMMA KeyParts == \A call, abs : Key(call, abs)[1] = call /\ Key(call, abs)[2] = abs
BY DEF Key

LEMMA StatTrue == ASSUME TypeInv, CacheInv, _stat PROVE CacheInv'
<1>1. /\ Top("_stat") /\ "_stat" \in Own
      /\ search' = search /\ self' = self /\ ticks' = ticks
  <2>1. Top("_stat") /\ UNCHANGED <<search, self, out, ticks, draining>>
    BY Zenon DEF _stat
  <2>2. "_stat" \in Own
    BY DEF Own
  <2>3. QED
    BY <2>1, <2>2
<1>2. stack # <<>> /\ Fn.name = "_stat" /\ Fn.g \in Globs
  BY <1>1, OnTop
<1>3. PICK t : t = search.files
  BY Zenon
<1>4. Sound(t, Fn) /\ Becomes(Me) /\ FineSelf(t, Me)
  BY <1>1, <1>2, <1>3, TopFine, MeFine, Becoming
<1>5. PICK abs : abs = makeAbs(Fn.f)
  BY Zenon
<1>6. abs \in Path
  <2>1. Fn.f \in Path
    BY <1>2, <1>4, Zenon DEF Sound
  <2>2. QED
    BY <1>5, <2>1, AbsPath, Zenon
<1>7. PICK then : then = [name |-> "_processSimple2", g |-> Fn.g, f |-> Fn.f, index |-> Fn.index]
  BY Zenon
<1>8. then.name = "_processSimple2"
  BY <1>7
<1>9. ASSUME NEW a, Return(<<Answer(then, a)>>), UNCHANGED <<reqs, pending>> PROVE CacheInv'
  <2>1. PICK c : c = Answer(then, a)
    BY Zenon
  <2>2. FineAll(t, <<c>>) /\ IsSeq(<<c>>) /\ Return(<<c>>)
    BY <1>8, <1>9, <2>1, AnswersFine, FineFew, Zenon
  <2>3. reqs' = reqs /\ pending' = pending
    BY <1>9
  <2>4. QED
    BY <1>1, <1>2, <1>3, <1>4, <2>2, <2>3, PlainStep
<1>10. ASSUME AskOnce(Key("stat", abs), "lstat", abs,
                      [name |-> "statcb", g |-> Fn.g, abs |-> abs, then |-> then]),
              Return(<<>>)
       PROVE  CacheInv'
  <2>1. PICK key, cb : key = Key("stat", abs) /\ cb = [name |-> "statcb", g |-> Fn.g, abs |-> abs, then |-> then]
    BY Zenon
  <2>2. cb.name = "statcb" /\ cb.abs = abs
    BY <2>1
  <2>3. key[2] = abs /\ ~Reading(key)
    BY <2>1, KeyParts DEF Reading
  <2>4. Sound(t, cb)
    BY <1>6, <2>2 DEF Sound
  <2>5. AskOnce(key, "lstat", abs, cb)
    BY <1>10, <2>1, Zenon
  <2>6. FineReqs(t, reqs') /\ FineAsked(t, pending')
    BY <1>3, <2>2, <2>3, <2>4, <2>5, AskOnceFine
  <2>7. FineAll(t, <<>>) /\ IsSeq(<<>>)
    BY FineFew
  <2>8. QED
    BY <1>1, <1>2, <1>3, <1>4, <1>10, <2>6, <2>7, SelfStep
<1>11. QED
  BY <1>5, <1>7, <1>9, <1>10, Zenon DEF _stat

LEMMA ReaddirInGlobStarTrue == ASSUME TypeInv, CacheInv, _readdirInGlobStar PROVE CacheInv'
<1>1. /\ Top("_readdirInGlobStar") /\ "_readdirInGlobStar" \in Own
      /\ search' = search /\ self' = self /\ ticks' = ticks
  <2>1. Top("_readdirInGlobStar") /\ UNCHANGED <<search, self, out, ticks, draining>>
    BY Zenon DEF _readdirInGlobStar
  <2>2. "_readdirInGlobStar" \in Own
    BY DEF Own
  <2>3. QED
    BY <2>1, <2>2
<1>2. stack # <<>> /\ Fn.name = "_readdirInGlobStar" /\ Fn.g \in Globs
  BY <1>1, OnTop
<1>3. PICK t : t = search.files
  BY Zenon
<1>4. Sound(t, Fn) /\ Becomes(Me) /\ FineSelf(t, Me)
  BY <1>1, <1>2, <1>3, TopFine, MeFine, Becoming
<1>5. PICK abs, cb : abs = Fn.abs /\ cb = Fn.cb
  BY Zenon
<1>6. abs \in Path /\ Leaf(cb)
  BY <1>2, <1>4, <1>5 DEF Sound
<1>7. CASE Return(<<Readdir(Fn.g, Fn.abs, FALSE, Fn.cb)>>) /\ UNCHANGED <<reqs, pending>>
  <2>1. PICK c : c = Readdir(Fn.g, abs, FALSE, cb)
    BY Zenon
  <2>2. FineAll(t, <<c>>) /\ IsSeq(<<c>>)
    BY <1>6, <2>1, CallsFine, FineFew, Zenon
  <2>3. Return(<<c>>) /\ reqs' = reqs /\ pending' = pending
    BY <1>5, <1>7, <2>1
  <2>4. QED
    BY <1>1, <1>2, <1>3, <1>4, <2>2, <2>3, PlainStep
<1>8. CASE /\ AskOnce(Key("lstat", Fn.abs), "lstat", Fn.abs,
                      [name |-> "lstatcb", g |-> Fn.g, abs |-> Fn.abs, cb |-> Fn.cb])
           /\ Return(<<>>)
  <2>1. PICK key, ask : /\ key = Key("lstat", abs)
                        /\ ask = [name |-> "lstatcb", g |-> Fn.g, abs |-> abs, cb |-> cb]
    BY Zenon
  <2>2. ask.name = "lstatcb" /\ ask.abs = abs /\ ask.cb = cb
    BY <2>1
  <2>3. key[2] = abs /\ ~Reading(key)
    BY <2>1, KeyParts DEF Reading
  <2>4. Sound(t, ask)
    BY <1>6, <2>2 DEF Sound
  <2>5. AskOnce(key, "lstat", abs, ask)
    BY <1>5, <1>8, <2>1, Zenon
  <2>6. FineReqs(t, reqs') /\ FineAsked(t, pending')
    BY <1>3, <2>2, <2>3, <2>4, <2>5, AskOnceFine
  <2>7. FineAll(t, <<>>) /\ IsSeq(<<>>)
    BY FineFew
  <2>8. QED
    BY <1>1, <1>2, <1>3, <1>4, <1>8, <2>6, <2>7, SelfStep
<1>9. QED
  BY <1>7, <1>8, Zenon DEF _readdirInGlobStar

\* What _readdir answers from the cache has names for its entries.
LEMMA CachedPath ==
    ASSUME NEW t, Finite(t), NEW s, FineSelf(t, s), NEW p, NEW c \in cachedEntries(s, p)
    PROVE  c.entries \in Path
<1>1. Nothing.entries \in Path /\ readdir(t, p).entries \in Path
  BY AnswerPath, Zenon
<1>2. Kind("unknown").kind # "entries"
  <2>1. Kind("unknown").kind = "unknown"
    BY KindIs, Zenon
  <2>2. QED
    BY <2>1
<1>3. c = Nothing \/ (p \in DOMAIN s.cache /\ c = s.cache[p] /\ c.kind = "entries")
  BY <1>2, Zenon DEF cachedEntries
<1>4. ASSUME p \in DOMAIN s.cache, c = s.cache[p], c.kind = "entries" PROVE c.entries \in Path
  <2>1. TrueOf(t, p, c)
    BY <1>4, Zenon DEF FineSelf, TrueAll
  <2>2. readdir(t, p) = c
    BY <1>4, <2>1, Zenon DEF TrueOf
  <2>3. QED
    BY <1>1, <2>2, Zenon
<1>5. QED
  BY <1>1, <1>3, <1>4, Zenon

LEMMA ReaddirTrue == ASSUME TypeInv, CacheInv, _readdir PROVE CacheInv'
<1>1. /\ Top("_readdir") /\ "_readdir" \in Own
      /\ search' = search /\ self' = self /\ ticks' = ticks
  <2>1. Top("_readdir") /\ UNCHANGED <<search, self, out, ticks, draining>>
    BY Zenon DEF _readdir
  <2>2. "_readdir" \in Own
    BY DEF Own
  <2>3. QED
    BY <2>1, <2>2
<1>2. stack # <<>> /\ Fn.name = "_readdir" /\ Fn.g \in Globs
  BY <1>1, OnTop
<1>3. PICK t : t = search.files
  BY Zenon
<1>4. Sound(t, Fn) /\ Becomes(Me) /\ FineSelf(t, Me) /\ Finite(t)
  BY <1>1, <1>2, <1>3, TopFine, MeFine, Becoming, FilesFinite
<1>5. PICK abs, cb : abs = Fn.abs /\ cb = Fn.cb
  BY Zenon
<1>6. abs \in Path /\ Leaf(cb)
  BY <1>2, <1>4, <1>5 DEF Sound
<1>7. PICK key, res : /\ key = Key(IF Fn.inGlobStar THEN "readdir in **" ELSE "readdir", abs)
                      /\ res = RES(key)
  BY Zenon
<1>8. Reading(key)
  <2>1. key[1] \in {"readdir in **", "readdir"}
    BY <1>7, KeyParts, Zenon
  <2>2. QED
    BY <2>1, Zenon DEF Reading
<1>9. Leaf(res)
  BY <1>7, <1>8, LeafMade, Zenon
<1>10. FineAll(t, <<>>) /\ IsSeq(<<>>)
  BY FineFew
<1>11. /\ IsReqs(reqs) /\ FineReqs(t, reqs) /\ IsBag(pending) /\ FineAsked(t, pending)
       /\ (inflight(key, cb) => FineReqs(t, reqs'))
  <2>1. IsReqs(reqs) /\ FineReqs(t, reqs) /\ IsBag(pending) /\ FineAsked(t, pending)
    BY <1>3, Zenon DEF TypeInv, ReqsInv, PendingInv, CacheInv
  <2>2. Sound(t, cb) /\ Takes(key, cb)
    BY <1>6, <1>8, AnswersFine, Zenon DEF Takes
  <2>3. QED
    BY <2>1, <2>2, WaitsFine, Zenon
<1>12. CASE Return(<<>>) /\ UNCHANGED <<reqs, pending>>
  BY <1>1, <1>2, <1>3, <1>4, <1>10, <1>12, PlainStep
<1>13. CASE inflight(key, cb) /\ Return(<<>>) /\ UNCHANGED pending
  <2>1. FineReqs(t, reqs') /\ FineAsked(t, pending')
    BY <1>11, <1>13, Zenon
  <2>2. QED
    BY <1>1, <1>2, <1>3, <1>4, <1>10, <1>13, <2>1, SelfStep
<1>14. ASSUME inflight(key, cb), NEW c, Fine(t, c), Return(<<c>>), UNCHANGED pending PROVE CacheInv'
  <2>1. FineReqs(t, reqs') /\ FineAsked(t, pending')
    BY <1>11, <1>14, Zenon
  <2>2. FineAll(t, <<c>>) /\ IsSeq(<<c>>)
    BY <1>14, FineFew
  <2>3. QED
    BY <1>1, <1>2, <1>3, <1>4, <1>14, <2>1, <2>2, SelfStep
<1>15. CASE /\ inflight(key, cb) /\ UNCHANGED pending
            /\ Return(<<Call([name |-> "_readdirInGlobStar", g |-> Fn.g, abs |-> abs, cb |-> res])>>)
  <2>1. PICK fn, c : /\ fn = [name |-> "_readdirInGlobStar", g |-> Fn.g, abs |-> abs, cb |-> res]
                     /\ c = Call(fn)
    BY Zenon
  <2>2. c.fn = fn /\ fn.name = "_readdirInGlobStar" /\ fn.abs = abs /\ fn.cb = res
    BY <2>1 DEF Call
  <2>3. Fine(t, c)
    BY <1>6, <1>9, <2>2 DEF Fine, Sound, Told
  <2>4. Return(<<c>>)
    BY <1>15, <2>1, Zenon
  <2>5. QED
    BY <1>14, <1>15, <2>3, <2>4, Zenon
<1>16. CASE /\ inflight(key, cb) /\ UNCHANGED pending
            /\ \E c \in cachedEntries(Me, abs) : Return(<<Answer(res, c)>>)
  <2>1. PICK c \in cachedEntries(Me, abs) : Return(<<Answer(res, c)>>)
    BY <1>16, Zenon
  <2>2. c.entries \in Path
    BY <1>4, CachedPath, Zenon
  <2>3. Fine(t, Answer(res, c))
    BY <1>9, <2>2, AnswersFine, Zenon
  <2>4. QED
    BY <1>14, <1>16, <2>1, <2>3, Zenon
<1>17. CASE /\ inflight(key, cb) /\ Return(<<>>)
            /\ Ask("readdir", abs, [name |-> "readdirCb", g |-> Fn.g, abs |-> abs, cb |-> res])
  <2>1. PICK ask : ask = [name |-> "readdirCb", g |-> Fn.g, abs |-> abs, cb |-> res]
    BY Zenon
  <2>2. ask.name = "readdirCb" /\ ask.abs = abs /\ ask.cb = res
    BY <2>1
  <2>3. Sound(t, ask)
    BY <1>6, <1>9, <2>2 DEF Sound
  <2>4. PICK r : r = [call |-> "readdir", abs |-> abs, cb |-> ask]
    BY Zenon
  <2>5. Gets(r)
    BY <2>2, <2>4 DEF Gets
  <2>6. FineAsked(t, pending')
    BY <1>11, <1>17, <2>1, <2>3, <2>4, <2>5, AskedFine, Zenon
  <2>7. FineReqs(t, reqs')
    BY <1>11, <1>17, Zenon
  <2>8. QED
    BY <1>1, <1>2, <1>3, <1>4, <1>10, <1>17, <2>6, <2>7, SelfStep
<1>18. QED
  BY <1>5, <1>7, <1>12, <1>13, <1>15, <1>16, <1>17, Zenon DEF _readdir

\* Those who wait are all answered.
LEMMA ResTrue == ASSUME TypeInv, CountInv, CacheInv, RES_ PROVE CacheInv'
<1>1. /\ Top("RES") /\ search' = search /\ self' = self /\ ticks' = ticks /\ reqs' = reqs
      /\ pending' = pending
  BY DEF RES_
<1>2. stack # <<>> /\ Fn.name = "RES"
  BY <1>1 DEF Top, Fn
<1>3. PICK t : t = search.files
  OBVIOUS
<1>4. Sound(t, Fn) /\ Told(t, Fn, Ans)
  BY <1>2, <1>3, TopFine
<1>5. PICK key, cbs : key = Fn.key /\ cbs = reqs[key]
  OBVIOUS
<1>6. PICK calls : calls = [k \in DOMAIN cbs |-> Answer(cbs[k], Ans)]
  OBVIOUS
<1>7. PICK fn, c : fn = [name |-> "cleanup", key |-> key, len |-> Len(cbs)] /\ c = Answer(fn, Ans)
  OBVIOUS
<1>8. Return(calls \o <<c>>)
  BY <1>1, <1>5, <1>6, <1>7 DEF RES_
<1>9. key \in DOMAIN reqs
  <2>1. Owes(Fn, Asked(key)) = 1
    BY <1>2, <1>5, OwesWhat
  <2>2. QED
    BY <1>2, <2>1, Alone
<1>10. IsSeq(cbs) /\ FineReqs(t, reqs)
  BY <1>3, <1>5, <1>9 DEF TypeInv, ReqsInv, IsReqs, CacheInv
<1>11. Ans.entries \in Path /\ (~Reading(key) => Ans = lstat(t, key[2]))
  BY <1>2, <1>4, <1>5, Zenon DEF Told
<1>12. /\ IsSeq(calls) /\ DOMAIN calls = DOMAIN cbs
       /\ \A k \in DOMAIN cbs : calls[k] = Answer(cbs[k], Ans)
  BY <1>6, <1>10, SeqMade, SeqDomain
<1>13. ASSUME NEW k \in DOMAIN cbs PROVE Fine(t, Answer(cbs[k], Ans))
  <2>1. PICK cb : cb = cbs[k]
    OBVIOUS
  <2>2. Sound(t, cb) /\ Takes(key, cb)
    BY <1>5, <1>9, <1>10, <2>1, Zenon DEF FineReqs
  <2>3. CASE Reading(key)
    BY <1>11, <2>1, <2>2, <2>3, AnswersFine, Zenon DEF Takes
  <2>4. CASE ~Reading(key)
    <3>1. cb.name \in {"lstatcb", "statcb"} /\ Ans = lstat(t, cb.abs)
      BY <1>11, <2>2, <2>4 DEF Takes
    <3>2. Told(t, cb, Ans)
      BY <3>1 DEF Told
    <3>3. QED
      BY <2>1, <2>2, <3>2 DEF Fine, Answer
  <2>5. QED
    BY <2>3, <2>4
<1>14. FineAll(t, calls)
  BY <1>12, <1>13 DEF FineAll
<1>15. Fine(t, c)
  <2>1. c.fn = fn /\ c.answer = Ans /\ fn.name = "cleanup" /\ fn.key = key
    BY <1>7 DEF Answer
  <2>2. Sound(t, fn)
    BY <2>1 DEF Sound
  <2>3. Told(t, fn, Ans)
    BY <1>11, <2>1 DEF Told
  <2>4. QED
    BY <2>1, <2>2, <2>3 DEF Fine
<1>16. IsSeq(<<c>>) /\ FineAll(t, <<c>>)
  BY <1>15, FineFew
<1>17. PICK all : all = calls \o <<c>>
  OBVIOUS
<1>18. FineAll(t, all) /\ IsSeq(all) /\ Return(all)
  BY <1>8, <1>12, <1>14, <1>16, <1>17, FineCat, SeqCat
<1>19. /\ \A g \in Globs : FineSelf(t, self'[g])
       /\ FineAll(t, ticks') /\ FineReqs(t, reqs') /\ FineAsked(t, pending')
  BY <1>1, <1>3 DEF CacheInv
<1>20. QED
  BY <1>1, <1>2, <1>3, <1>18, <1>19, CacheStep

\* Who asked meanwhile is told the same.
LEMMA CleanupTrue == ASSUME TypeInv, CountInv, CacheInv, cleanup PROVE CacheInv'
<1>1. /\ Top("cleanup") /\ search' = search /\ self' = self /\ pending' = pending /\ Return(<<>>)
  BY DEF cleanup
<1>2. stack # <<>> /\ Fn.name = "cleanup"
  BY <1>1 DEF Top, Fn
<1>3. PICK t : t = search.files
  OBVIOUS
<1>4. Told(t, Fn, Ans)
  BY <1>2, <1>3, TopFine
<1>5. PICK key, n, cbs : key = Fn.key /\ n = Fn.len /\ cbs = reqs[key]
  OBVIOUS
<1>6. key \in DOMAIN reqs
  <2>1. Owes(Fn, Asked(key)) = 1
    BY <1>2, <1>5, OwesWhat
  <2>2. QED
    BY <1>2, <2>1, Alone
<1>7. n \in 0..Len(cbs)
  <2>1. IsSeq(stack)
    BY <1>2, Acting
  <2>2. 1 \in DOMAIN stack /\ stack[1].fn = Fn
    BY <1>2, <2>1, SeqTail, SeqDomain DEF Fn
  <2>3. QED
    BY <1>2, <1>5, <2>2 DEF CountInv, CleanLaw
<1>8. IsReqs(reqs) /\ IsSeq(cbs) /\ FineReqs(t, reqs) /\ FineAll(t, ticks) /\ FineAsked(t, pending)
  BY <1>3, <1>5, <1>6 DEF TypeInv, ReqsInv, IsReqs, CacheInv
<1>9. PICK later : later = SubSeq(cbs, n + 1, Len(cbs))
  OBVIOUS
<1>10. /\ IsSeq(later) /\ Len(later) = Len(cbs) - n
       /\ \A k \in 1..Len(cbs) - n : later[k] = cbs[n + k]
  BY <1>7, <1>8, <1>9, SeqFrom
<1>11. \A k \in DOMAIN later : Sound(t, later[k]) /\ Takes(key, later[k])
  <2>1. TAKE k \in DOMAIN later
  <2>2. DOMAIN later = 1..Len(cbs) - n /\ DOMAIN cbs = 1..Len(cbs) /\ n \in Nat /\ Len(cbs) \in Nat
    BY <1>7, <1>8, <1>10, SeqDomain
  <2>3. later[k] = cbs[n + k] /\ n + k \in DOMAIN cbs
    BY <1>10, <2>2
  <2>4. PICK j : j = n + k
    OBVIOUS
  <2>5. QED
    BY <1>5, <1>6, <1>8, <2>3, <2>4 DEF FineReqs
<1>12. FineReqs(t, reqs')
  <2>1. reqs' = Left(reqs, key, n)
    BY <1>5 DEF cleanup, Left
  <2> DEFINE p == Left(reqs, key, n)
  <2>2. IsReqs(reqs) /\ key \in DOMAIN reqs /\ n \in 0..Len(reqs[key])
    BY <1>5, <1>6, <1>7, <1>8
  <2>3. /\ DOMAIN p \subseteq DOMAIN reqs
        /\ key \in DOMAIN p => p[key] = later
        /\ \A k \in DOMAIN p : k # key => p[k] = reqs[k]
    <3>1. /\ DOMAIN p = IF n = Len(reqs[key]) THEN DOMAIN reqs \ {key} ELSE DOMAIN reqs
          /\ key \in DOMAIN p => p[key] = SubSeq(reqs[key], n + 1, Len(reqs[key]))
          /\ \A k \in DOMAIN p : k # key => p[k] = reqs[k]
      BY ONLY <2>2, LeftPlaces
    <3> HIDE DEF p
    <3>2. DOMAIN p \subseteq DOMAIN reqs
      BY <3>1
    <3>3. QED
      BY <1>5, <1>9, <3>1, <3>2, Zenon
  <2> HIDE DEF p
  <2>4. ASSUME NEW j \in DOMAIN p, NEW k \in DOMAIN p[j] PROVE Sound(t, p[j][k]) /\ Takes(j, p[j][k])
    <3>1. CASE j = key
      BY <1>11, <2>3, <2>4, <3>1, Zenon
    <3>2. CASE j # key
      BY <1>8, <2>3, <2>4, <3>2, Zenon DEF FineReqs
    <3>3. QED
      BY <3>1, <3>2
  <2>5. QED
    BY <2>1, <2>4, Zenon DEF FineReqs, p
<1>13. FineAll(t, ticks')
  <2>1. PICK c : c = Answer(RES(key), Ans)
    OBVIOUS
  <2>2. ticks' = ticks \/ ticks' = Append(ticks, c)
    BY <1>5, <2>1, Zenon DEF cleanup
  <2>3. Fine(t, c)
    <3>1. PICK fn : fn = RES(key)
      OBVIOUS
    <3>2. fn.name = "RES" /\ fn.key = key
      BY <3>1, LeafMade
    <3>3. Ans.entries \in Path /\ (~Reading(key) => Ans = lstat(t, key[2]))
      BY <1>2, <1>4, <1>5, Zenon DEF Told
    <3>4. Sound(t, fn) /\ Told(t, fn, Ans)
      BY <3>2, <3>3 DEF Sound, Told
    <3>5. QED
      BY <2>1, <3>1, <3>4 DEF Fine, Answer
  <2>4. IsSeq(ticks)
    BY DEF TypeInv, TicksInv, FramesOK
  <2>5. FineAll(t, Append(ticks, c))
    BY <1>8, <2>3, <2>4, FineAppend
  <2>6. QED
    BY <1>8, <2>2, <2>5, Zenon
<1>14. \A g \in Globs : FineSelf(t, self'[g])
  BY <1>1, <1>3 DEF CacheInv
<1>15. FineAll(t, <<>>) /\ IsSeq(<<>>)
  BY FineFew
<1>16. FineAsked(t, pending')
  BY <1>1, <1>8
<1>17. QED
  BY <1>1, <1>2, <1>3, <1>12, <1>13, <1>14, <1>15, <1>16, CacheStep

\* What is not called by JavaScript.
LEMMA Outside ==
    ASSUME CacheInv, NEW t, t = search.files, search' = search,
           \A g \in Globs : FineSelf(t, self'[g]), FineAll(t, stack'), FineAll(t, ticks'),
           FineReqs(t, reqs'), FineAsked(t, pending')
    PROVE  CacheInv'
<1>1. search'.files = t /\ Globs' = Globs
  BY DEF Globs
<1>2. QED
  BY <1>1, Zenon DEF CacheInv

LEMMA TickTrue == ASSUME TypeInv, CacheInv, Tick PROVE CacheInv'
<1>1. /\ ticks # <<>> /\ stack' = <<Head(ticks)>> /\ ticks' = Tail(ticks)
      /\ search' = search /\ self' = self /\ reqs' = reqs /\ pending' = pending
  BY DEF Tick
<1>2. PICK t : t = search.files
  OBVIOUS
<1>3. IsSeq(ticks) /\ FineAll(t, ticks)
  BY <1>2 DEF TypeInv, TicksInv, FramesOK, CacheInv
<1>4. FineAll(t, ticks') /\ Fine(t, Head(ticks))
  BY <1>1, <1>3, FineTail
<1>5. FineAll(t, stack')
  BY <1>1, <1>4, FineFew
<1>6. (\A g \in Globs : FineSelf(t, self'[g])) /\ FineReqs(t, reqs') /\ FineAsked(t, pending')
  BY <1>1, <1>2 DEF CacheInv
<1>7. QED
  BY <1>1, <1>2, <1>4, <1>5, <1>6, Outside

LEMMA AnswersTrue == ASSUME TypeInv, CacheInv, Answers PROVE CacheInv'
<1>1. PICK r \in BagToSet(pending) : FsAnswers(r)
  BY DEF Answers
<1>2. PICK t : t = search.files
  OBVIOUS
<1>3. PICK a, cb : a = answer(t, r.call, r.abs) /\ cb = r.cb
  OBVIOUS
<1>4. /\ stack' = <<Answer(cb, a)>> /\ pending' = pending (-) SetToBag({r})
      /\ search' = search /\ self' = self /\ reqs' = reqs /\ ticks' = ticks
  BY <1>1, <1>2, <1>3 DEF FsAnswers
<1>5. IsBag(pending) /\ FineAsked(t, pending) /\ Finite(t) /\ r \in DOMAIN pending
  BY <1>2, FilesFinite DEF TypeInv, PendingInv, CacheInv, BagToSet
<1>6. Sound(t, cb) /\ Gets(r)
  BY <1>3, <1>5 DEF FineAsked
<1>7. /\ lstat(t, r.abs).entries \in Path /\ stat(t, r.abs).entries \in Path
      /\ readdir(t, r.abs).entries \in Path
  BY <1>5, AnswerPath, Zenon
<1>8. Told(t, cb, a)
  <2>1. CASE cb.name = "RES" /\ ~Reading(cb.key) /\ r.call = "lstat" /\ r.abs = cb.key[2]
    <3>1. a = lstat(t, cb.key[2]) /\ a.entries \in Path
      BY <1>3, <1>7, <2>1 DEF answer
    <3>2. QED
      BY <2>1, <3>1 DEF Told
  <2>2. CASE cb.name = "readdirCb" /\ r.call = "readdir" /\ r.abs = cb.abs
    <3>1. a = readdir(t, cb.abs)
      BY <1>3, <2>2 DEF answer
    <3>2. QED
      BY <2>2, <3>1 DEF Told
  <2>3. CASE cb.name = "targetcb" /\ r.call = "stat" /\ r.abs = cb.abs
    <3>1. a = stat(t, cb.abs)
      BY <1>3, <2>3 DEF answer
    <3>2. QED
      BY <2>3, <3>1 DEF Told
  <2>4. QED
    BY <1>3, <1>6, <2>1, <2>2, <2>3, Zenon DEF Gets
<1>9. PICK c : c = Answer(cb, a)
  OBVIOUS
<1>10. Fine(t, c)
  <2>1. c.fn = cb /\ c.answer = a
    BY <1>9 DEF Answer
  <2>2. QED
    BY <1>6, <1>8, <2>1 DEF Fine
<1>11. FineAll(t, stack')
  BY <1>4, <1>9, <1>10, FineFew
<1>12. FineAsked(t, pending')
  <2>1. PICK b : b = pending (-) SetToBag({r})
    OBVIOUS
  <2>2. DOMAIN b \subseteq DOMAIN pending
    BY <1>5, <2>1, BagTake
  <2>3. QED
    BY <1>4, <1>5, <2>1, <2>2 DEF FineAsked
<1>13. (\A g \in Globs : FineSelf(t, self'[g])) /\ FineReqs(t, reqs') /\ FineAll(t, ticks')
  BY <1>2, <1>4 DEF CacheInv
<1>14. QED
  BY <1>2, <1>4, <1>11, <1>12, <1>13, Outside

\* The alternatives of a pattern are made of parts.
LEMMA AlternativesIn ==
    ASSUME TypeInv, NEW g \in Globs
    PROVE  self[g].minimatch.set \in Seq(Patterns)
<1>1. FieldsOK(g, self[g]) /\ search \in Searches /\ g \in DOMAIN search.options
  BY DEF TypeInv, SelfInv, Globs
<1>2. PICK p : p = search.options[g].pattern
  OBVIOUS
<1>3. self[g].minimatch = compile(braceExpand(p))
  BY <1>1, <1>2 DEF FieldsOK, setopts, o
<1>4. make(p) \in Seq(Seq(Part))
  BY <1>1, <1>2, PatternsAssumption
<1>5. QED
  BY <1>3, <1>4, Zenon DEF make, Patterns

LEMMA GlobTrue == ASSUME TypeInv, CacheInv, NEW g \in Globs, Glob(g) PROVE CacheInv'
<1>1. PICK set : set = self[g].minimatch.set
  OBVIOUS
<1>2. /\ stack' = IF set = <<>> THEN <<Done(g)>> ELSE [k \in DOMAIN set |-> Process(g, set[k], k, FALSE)]
      /\ search' = search /\ self' = self /\ reqs' = reqs /\ pending' = pending /\ ticks' = ticks
  BY <1>1 DEF Glob
<1>3. PICK t : t = search.files
  OBVIOUS
<1>4. set \in Seq(Patterns)
  BY <1>1, AlternativesIn
<1>5. FineAll(t, stack')
  <2>1. CASE set = <<>>
    <3>1. Fine(t, Done(g))
      BY CallsFine
    <3>2. QED
      BY <1>2, <2>1, <3>1, FineFew
  <2>2. CASE set # <<>>
    <3>1. \A k \in DOMAIN set : Fine(t, Process(g, set[k], k, FALSE))
      BY <1>4, MemberOf, CallsFine, Zenon
    <3>2. DOMAIN stack' = DOMAIN set /\ \A k \in DOMAIN set : stack'[k] = Process(g, set[k], k, FALSE)
      BY <1>2, <2>2
    <3>3. QED
      BY <3>1, <3>2, Zenon DEF FineAll
  <2>3. QED
    BY <2>1, <2>2
<1>6. /\ \A h \in Globs : FineSelf(t, self'[h])
      /\ FineAll(t, ticks') /\ FineReqs(t, reqs') /\ FineAsked(t, pending')
  BY <1>2, <1>3 DEF CacheInv
<1>7. QED
  BY <1>2, <1>3, <1>5, <1>6, Outside

LEMMA AbortTrue == ASSUME TypeInv, CacheInv, NEW g \in Globs, abort(g) PROVE CacheInv'
<1>1. /\ self' = [self EXCEPT ![g].aborted = TRUE]
      /\ search' = search /\ stack' = stack /\ reqs' = reqs /\ pending' = pending /\ ticks' = ticks
  BY DEF abort
<1>2. PICK t : t = search.files
  OBVIOUS
<1>3. FieldsOK(g, self[g]) /\ FineSelf(t, self[g]) /\ DOMAIN self = Globs
  BY <1>2 DEF TypeInv, SelfInv, CacheInv
<1>4. PICK s : s = [self[g] EXCEPT !.aborted = TRUE]
  OBVIOUS
<1>5. FineSelf(t, s)
  BY <1>3, <1>4, SelfKept
<1>6. self'[g] = s /\ \A h \in Globs : h # g => self'[h] = self[h]
  BY <1>1, <1>3, <1>4
<1>7. ASSUME NEW h \in Globs PROVE FineSelf(t, self'[h])
  <2>1. FineSelf(t, self[h])
    BY <1>2, Zenon DEF CacheInv
  <2>2. QED
    BY <1>5, <1>6, <2>1, Zenon
<1>8. FineAll(t, stack') /\ FineAll(t, ticks') /\ FineReqs(t, reqs') /\ FineAsked(t, pending')
  BY <1>1, <1>2 DEF CacheInv
<1>9. QED
  BY <1>1, <1>2, <1>7, <1>8, Outside

LEMMA PauseTrue == ASSUME TypeInv, CacheInv, NEW g \in Globs, pause(g) PROVE CacheInv'
<1>1. /\ self' = [self EXCEPT ![g].paused = TRUE]
      /\ search' = search /\ stack' = stack /\ reqs' = reqs /\ pending' = pending /\ ticks' = ticks
  BY DEF pause
<1>2. PICK t : t = search.files
  OBVIOUS
<1>3. FieldsOK(g, self[g]) /\ FineSelf(t, self[g]) /\ DOMAIN self = Globs
  BY <1>2 DEF TypeInv, SelfInv, CacheInv
<1>4. PICK s : s = [self[g] EXCEPT !.paused = TRUE]
  OBVIOUS
<1>5. FineSelf(t, s)
  BY <1>3, <1>4, SelfKept
<1>6. self'[g] = s /\ \A h \in Globs : h # g => self'[h] = self[h]
  BY <1>1, <1>3, <1>4
<1>7. ASSUME NEW h \in Globs PROVE FineSelf(t, self'[h])
  <2>1. FineSelf(t, self[h])
    BY <1>2, Zenon DEF CacheInv
  <2>2. QED
    BY <1>5, <1>6, <2>1, Zenon
<1>8. FineAll(t, stack') /\ FineAll(t, ticks') /\ FineReqs(t, reqs') /\ FineAsked(t, pending')
  BY <1>1, <1>2 DEF CacheInv
<1>9. QED
  BY <1>1, <1>2, <1>7, <1>8, Outside

LEMMA ResumeTrue == ASSUME TypeInv, CacheInv, NEW g \in Globs, resume(g) PROVE CacheInv'
<1>1. PICK eq, pq : eq = self[g]._emitQueue /\ pq = self[g]._processQueue
  OBVIOUS
<1>2. PICK e, u : /\ e = [k \in DOMAIN eq |-> EmitMatch(g, eq[k][1], eq[k][2])]
                  /\ u = [k \in DOMAIN pq |-> Call([name |-> "uncount", g |-> g, then |-> pq[k]])]
  OBVIOUS
<1>3. /\ self' = [self EXCEPT ![g].paused = FALSE, ![g]._emitQueue = <<>>, ![g]._processQueue = <<>>]
      /\ stack' = e \o u
      /\ search' = search /\ reqs' = reqs /\ pending' = pending /\ ticks' = ticks
  BY <1>1, <1>2 DEF resume
<1>4. PICK t : t = search.files
  OBVIOUS
<1>5. FieldsOK(g, self[g]) /\ FineSelf(t, self[g]) /\ DOMAIN self = Globs
  BY <1>4 DEF TypeInv, SelfInv, CacheInv
<1>6. self'[g].cache = self[g].cache /\ self'[g]._processQueue = <<>>
      /\ \A h \in Globs : h # g => self'[h] = self[h]
  BY <1>3, <1>5 DEF FieldsOK, Fields
<1>7. ASSUME NEW h \in Globs PROVE FineSelf(t, self'[h])
  <2>1. FineSelf(t, self[h])
    BY <1>4, Zenon DEF CacheInv
  <2>2. FineAll(t, <<>>)
    BY FineFew
  <2>3. FineSelf(t, self'[g])
    BY <1>5, <1>6, <2>2, Zenon DEF FineSelf
  <2>4. QED
    BY <1>6, <2>1, <2>3, Zenon
<1>8. IsSeq(eq) /\ Again(pq, g) /\ IsSeq(pq) /\ FineAll(t, pq)
  BY <1>1, <1>5 DEF FieldsOK, Again, FineSelf
<1>9. IsSeq(e) /\ FineAll(t, e)
  <2>1. IsSeq(e) /\ DOMAIN e = DOMAIN eq
    BY <1>2, <1>8, SeqMade, SeqDomain
  <2>2. \A k \in DOMAIN eq : e[k] = EmitMatch(g, eq[k][1], eq[k][2])
    BY <1>2
  <2>3. QED
    <3>1. \A index, entry : Fine(t, EmitMatch(g, index, entry))
      BY CallsFine, Zenon
    <3>2. ASSUME NEW k \in DOMAIN e PROVE Fine(t, e[k])
      <4>1. PICK i, j : i = eq[k][1] /\ j = eq[k][2]
        OBVIOUS
      <4>2. e[k] = EmitMatch(g, i, j)
        BY <2>1, <2>2, <3>2, <4>1
      <4>3. QED
        BY <3>1, <4>2
    <3>3. QED
      BY <2>1, <3>2, Zenon DEF FineAll
<1>10. IsSeq(u) /\ FineAll(t, u)
  <2>1. IsSeq(u) /\ DOMAIN u = DOMAIN pq
    BY <1>2, <1>8, SeqMade, SeqDomain
  <2>2. ASSUME NEW k \in DOMAIN u PROVE Fine(t, u[k])
    <3>1. PICK then, fn : then = pq[k] /\ fn = [name |-> "uncount", g |-> g, then |-> then]
      OBVIOUS
    <3>2. u[k] = Call(fn) /\ fn.name = "uncount" /\ fn.then = then
      BY <1>2, <2>1, <2>2, <3>1
    <3>3. then.fn.name = "_process" /\ Sound(t, then.fn)
      BY <1>8, <2>1, <2>2, <3>1, Zenon DEF Again, FineAll, Fine
    <3>4. then.fn.pattern \in Patterns
      BY <3>3 DEF Sound
    <3>5. Sound(t, fn) /\ \A a : Told(t, fn, a)
      BY <3>2, <3>4 DEF Sound, Told
    <3>6. Call(fn).fn = fn
      BY DEF Call
    <3>7. QED
      BY <3>2, <3>5, <3>6, Zenon DEF Fine
  <2>3. QED
    BY <2>1, <2>2 DEF FineAll
<1>11. FineAll(t, stack')
  BY <1>3, <1>9, <1>10, FineCat
<1>12. FineAll(t, ticks') /\ FineReqs(t, reqs') /\ FineAsked(t, pending')
  BY <1>3, <1>4 DEF CacheInv
<1>13. QED
  BY <1>3, <1>4, <1>7, <1>11, <1>12, Outside

\* At first nothing is remembered.
LEMMA InitTrue == ASSUME Init PROVE CacheInv
<1>1. /\ self = [g \in Globs |-> Glob0(o(g))]
      /\ reqs = None /\ pending = EmptyBag /\ stack = <<>> /\ ticks = <<>>
  BY DEF Init
<1>2. PICK t : t = search.files
  OBVIOUS
<1>3. DOMAIN None = {} /\ DOMAIN EmptyBag = {} /\ FineAll(t, <<>>)
  <2>1. DOMAIN None = {}
    BY DEF None
  <2>2. DOMAIN EmptyBag = {}
    BY DEF EmptyBag, SetToBag
  <2>3. QED
    BY <2>1, <2>2, FineFew
<1>4. ASSUME NEW g \in Globs PROVE FineSelf(t, self[g])
  <2> DEFINE s == setopts(o(g))
  <2>1. /\ DOMAIN s = {"minimatch", "ignore", "matches", "cache", "statCache", "symlinks"}
        /\ s.cache = None
    BY DEF setopts
  <2> HIDE DEF s
  <2> DEFINE more == [_processing |-> 0, _emitQueue |-> <<>>, _processQueue |-> <<>>,
                      paused |-> FALSE, aborted |-> FALSE]
  <2>2. self[g] = [f \in DOMAIN s \cup DOMAIN more |-> IF f \in DOMAIN s THEN s[f] ELSE more[f]]
    BY <1>1 DEF Glob0, s
  <2>3. /\ DOMAIN more = {"_processing", "_emitQueue", "_processQueue", "paused", "aborted"}
        /\ more._processQueue = <<>>
    OBVIOUS
  <2> HIDE DEF more
  <2>4. self[g].cache = None /\ self[g]._processQueue = <<>>
    BY <2>1, <2>2, <2>3
  <2>5. TrueAll(t, None)
    BY <1>3, Zenon DEF TrueAll
  <2>6. QED
    BY <1>3, <2>4, <2>5, Zenon DEF FineSelf
<1>5. FineReqs(t, reqs) /\ FineAsked(t, pending)
  BY <1>1, <1>3, Zenon DEF FineReqs, FineAsked
<1>6. QED
  BY <1>1, <1>2, <1>3, <1>4, <1>5, Zenon DEF CacheInv

-----------------------------------------------------------------------------
(***************************************************************************)
(* Links lead somewhere if there are none on the way to where they lead.   *)
(***************************************************************************)
Linking(t, q) == q \in DOMAIN t /\ t[q].kind = "link"
Through(t, q) == IF Linking(t, q) THEN t[q].to ELSE q
Straight(t) == \A q \in DOMAIN t : Linking(t, q) =>
                  /\ t[q].to \in Path
                  /\ \A n \in 1..Len(t[q].to) : ~Linking(t, SubSeq(t[q].to, 1, n))

\* f tells where the paths of less than n names lead.
Walks(t, n, f) == /\ f \in [Path -> Path]
                  /\ \A p \in Path : Len(p) < n =>
                       f[p] = IF p = <<>> THEN p ELSE Through(t, Append(f[Front(p)], Last(p)))

LEMMA Shorter ==
    /\ <<>> \in Path
    /\ \A p \in Path : Len(p) \in Nat /\ (Len(p) = 0 <=> p = <<>>)
    /\ \A p \in Path : p # <<>> => /\ Front(p) \in Path /\ Last(p) \in Name
                                   /\ Len(Front(p)) = Len(p) - 1
    /\ \A p \in Path, e \in Name : Append(p, e) \in Path
<1>1. <<>> \in Path /\ \A p \in Path : Len(p) \in Nat /\ (Len(p) = 0 <=> p = <<>>)
  BY DEF Path
<1>2. /\ \A p \in Path : p # <<>> => Front(p) \in Path /\ Last(p) \in Name
      /\ \A p \in Path, e \in Name : Append(p, e) \in Path
  BY Fronts, Zenon DEF Path
<1>3. ASSUME NEW p \in Path, p # <<>> PROVE Len(Front(p)) = Len(p) - 1
  <2>0. Len(p) - 1 \in Nat /\ Len(p) - 1 <= Len(p)
    BY <1>1, <1>3
  <2>1. PICK n : n = Len(p) - 1 /\ n \in Nat /\ n <= Len(p)
    BY <2>0
  <2>2. \A m \in 1..n : m \in 1..Len(p)
    BY <1>1, <2>1
  <2>3. Len(SubSeq(p, 1, n)) = n
    BY <2>1, <2>2 DEF Path
  <2>4. QED
    BY <2>1, <2>3 DEF Front
<1>4. QED
  BY <1>1, <1>2, <1>3

LEMMA WalksThere ==
    ASSUME NEW t, Straight(t)
    PROVE  \A n \in Nat : \E f : Walks(t, n, f)
<1>1. \A q \in Path : Through(t, q) \in Path
  BY DEF Through, Straight, Linking
<1>2. \A n \in Nat : \E f : Walks(t, n, f)
  <2> DEFINE Bad == {n \in Nat : ~\E f : Walks(t, n, f)}
  <2>1. SUFFICES ASSUME Bad # {} PROVE FALSE
    OBVIOUS
  <2>2. PICK n \in Bad : \A m \in Bad : n <= m
    <3>1. Bad \subseteq Nat
      OBVIOUS
    <3> HIDE DEF Bad
    <3>2. QED
      BY <2>1, <3>1, LeastOf
  <2>3. n \in Nat /\ ~\E f : Walks(t, n, f)
    OBVIOUS
  <2>4. n # 0
    <3>1. [p \in Path |-> p] \in [Path -> Path]
      OBVIOUS
    <3>2. \A p \in Path : ~(Len(p) < 0)
      BY Shorter
    <3>3. Walks(t, 0, [p \in Path |-> p])
      BY <3>1, <3>2 DEF Walks
    <3>4. QED
      BY <2>3, <3>3
  <2>5. PICK f : Walks(t, n - 1, f)
    BY <2>2, <2>3, <2>4
  <2>6. PICK g : g = [p \in Path |-> IF p = <<>> THEN p ELSE Through(t, Append(f[Front(p)], Last(p)))]
    OBVIOUS
  <2>7. f \in [Path -> Path]
    BY <2>5 DEF Walks
  <2>8. g \in [Path -> Path]
    <3>1. ASSUME NEW p \in Path, p # <<>> PROVE Through(t, Append(f[Front(p)], Last(p))) \in Path
      BY <1>1, <2>7, <3>1, Shorter
    <3>2. QED
      BY <2>6, <3>1
  <2>9. ASSUME NEW p \in Path, Len(p) < n
        PROVE  g[p] = IF p = <<>> THEN p ELSE Through(t, Append(g[Front(p)], Last(p)))
    <3>1. ASSUME p # <<>> PROVE g[Front(p)] = f[Front(p)]
      <4>1. PICK q : q = Front(p)
        OBVIOUS
      <4>2. q \in Path /\ Len(q) < n - 1
        BY <2>3, <2>9, <3>1, <4>1, Shorter
      <4>3. f[q] = IF q = <<>> THEN q ELSE Through(t, Append(f[Front(q)], Last(q)))
        BY <2>5, <4>2 DEF Walks
      <4>4. g[q] = IF q = <<>> THEN q ELSE Through(t, Append(f[Front(q)], Last(q)))
        BY <2>6, <4>2
      <4>5. QED
        BY <4>1, <4>3, <4>4
    <3>2. QED
      BY <2>6, <3>1
  <2>10. Walks(t, n, g)
    BY <2>8, <2>9, Zenon DEF Walks
  <2>11. QED
    BY <2>3, <2>10
<1>3. QED
  BY <1>2

LEMMA WalksAgree ==
    ASSUME NEW t, NEW n \in Nat, NEW m \in Nat, NEW f, NEW g, Walks(t, n, f), Walks(t, m, g)
    PROVE  \A p \in Path : Len(p) < n /\ Len(p) < m => f[p] = g[p]
<1> DEFINE Bad == {k \in Nat : \E p \in Path : Len(p) = k /\ k < n /\ k < m /\ f[p] # g[p]}
<1>1. SUFFICES ASSUME Bad # {} PROVE FALSE
  BY Shorter
<1>2. PICK k \in Bad : \A j \in Bad : k <= j
  <2>1. Bad \subseteq Nat
    OBVIOUS
  <2> HIDE DEF Bad
  <2>2. QED
    BY <1>1, <2>1, LeastOf
<1>3. PICK p \in Path : Len(p) = k /\ k < n /\ k < m /\ f[p] # g[p]
  OBVIOUS
<1>4. /\ f[p] = IF p = <<>> THEN p ELSE Through(t, Append(f[Front(p)], Last(p)))
      /\ g[p] = IF p = <<>> THEN p ELSE Through(t, Append(g[Front(p)], Last(p)))
  BY <1>3 DEF Walks
<1>5. p # <<>> /\ f[Front(p)] # g[Front(p)]
  BY <1>3, <1>4
<1>6. PICK q : q = Front(p)
  OBVIOUS
<1>7. q \in Path /\ Len(q) \in Nat /\ Len(q) = k - 1 /\ f[q] # g[q]
  BY <1>3, <1>5, <1>6, Shorter
<1>8. Len(q) \in Bad /\ Len(q) < k
  BY <1>3, <1>7
<1>9. QED
  BY <1>2, <1>8

LEMMA StraightLinksLead == ASSUME NEW t, Straight(t) PROVE LinksLead(t)
<1> DEFINE way(n) == CHOOSE f : Walks(t, n, f)
           to == [p \in Path |-> way(Len(p) + 1)[p]]
<1>1. \A n \in Nat : Walks(t, n, way(n))
  <2>1. \A n \in Nat : \E f : Walks(t, n, f)
    BY WalksThere
  <2>2. QED
    BY <2>1, Zenon
<1> HIDE DEF way
<1>2. ASSUME NEW p \in Path, NEW n \in Nat, Len(p) < n PROVE to[p] = way(n)[p]
  <2>1. Len(p) + 1 \in Nat /\ Len(p) < Len(p) + 1
    BY Shorter
  <2>2. to[p] = way(Len(p) + 1)[p]
    OBVIOUS
  <2>3. way(Len(p) + 1)[p] = way(n)[p]
    <3>1. PICK m \in Nat : m = Len(p) + 1
      BY <2>1
    <3>2. PICK f, g : f = way(m) /\ g = way(n)
      OBVIOUS
    <3>3. Walks(t, m, f) /\ Walks(t, n, g) /\ Len(p) < m
      BY <1>1, <2>1, <3>1, <3>2, Zenon
    <3>4. f[p] = g[p]
      BY <1>2, <3>3, WalksAgree
    <3>5. QED
      BY <3>1, <3>2, <3>4
  <2>4. QED
    BY <2>2, <2>3
<1> HIDE DEF to
<1>3. ASSUME NEW p \in Path
      PROVE  to[p] = IF p = <<>> THEN p ELSE Through(t, Append(to[Front(p)], Last(p)))
  <2>1. PICK n \in Nat : n = Len(p) + 1 /\ Len(p) < n
    BY Shorter
  <2>2. way(n)[p] = IF p = <<>> THEN p ELSE Through(t, Append(way(n)[Front(p)], Last(p)))
    BY <1>1, <2>1 DEF Walks
  <2>3. p # <<>> => to[Front(p)] = way(n)[Front(p)]
    BY <1>2, <2>1, Shorter
  <2>4. to[p] = way(n)[p]
    BY <1>2, <2>1
  <2>5. QED
    BY <2>2, <2>3, <2>4
<1>4. ASSUME NEW p \in Path, \A n \in 1..Len(p) : ~Linking(t, SubSeq(p, 1, n))
      PROVE  to[p] = p
  <2> DEFINE Bad == {k \in Nat : k <= Len(p) /\ to[SubSeq(p, 1, k)] # SubSeq(p, 1, k)}
  <2>0. SubSeq(p, 1, Len(p)) = p /\ SubSeq(p, 1, 0) = <<>> /\ Len(p) \in Nat
    BY DEF Path
  <2>1. SUFFICES ASSUME Bad # {} PROVE FALSE
    <3>1. Len(p) \in Nat /\ Len(p) <= Len(p)
      BY <2>0
    <3>2. QED
      BY <2>0, <3>1
  <2>2. PICK k \in Bad : \A j \in Bad : k <= j
    <3>1. Bad \subseteq Nat
      OBVIOUS
    <3> HIDE DEF Bad
    <3>2. QED
      BY <2>1, <3>1, LeastOf
  <2>3. k \in Nat /\ k <= Len(p) /\ to[SubSeq(p, 1, k)] # SubSeq(p, 1, k)
    OBVIOUS
  <2>4. to[<<>>] = <<>>
    BY <1>3, Shorter
  <2>5. k # 0
    BY <2>0, <2>3, <2>4
  <2>6. PICK q, r : q = SubSeq(p, 1, k) /\ r = SubSeq(p, 1, k - 1)
    OBVIOUS
  <2>7. q \in Path /\ q # <<>> /\ Front(q) = r
    <3>1. k \in 1..Len(p)
      BY <2>0, <2>3, <2>5
    <3>2. q \in Path /\ Len(q) = k
      BY <2>6, <3>1 DEF Path
    <3>3. SubSeq(q, 1, k - 1) = r
      BY <2>6, <3>1 DEF Path
    <3>4. q # <<>>
      BY <3>1, <3>2, Shorter
    <3>5. QED
      BY <3>2, <3>3, <3>4 DEF Front
  <2>8. to[r] = r
    <3>1. k - 1 \in Nat /\ k - 1 <= Len(p) /\ ~(k <= k - 1)
      BY <2>0, <2>3, <2>5
    <3>2. k - 1 \notin Bad
      BY <2>2, <3>1
    <3>3. QED
      BY <2>6, <3>1, <3>2
  <2>9. to[q] = Through(t, q)
    <3>1. Append(Front(q), Last(q)) = q
      BY <2>7, Fronts, Zenon DEF Path
    <3>2. QED
      BY <1>3, <2>7, <2>8, <3>1
  <2>10. ~Linking(t, q)
    BY <1>4, <2>0, <2>3, <2>5, <2>6
  <2>11. QED
    BY <2>3, <2>6, <2>9, <2>10 DEF Through
<1>5. \A q : Linking(t, q) => to[t[q].to] = t[q].to
  BY <1>4 DEF Straight, Linking
<1>6. ASSUME NEW p \in Path
      PROVE  to[p] = IF p = <<>> THEN p
                     ELSE LET q == Append(to[Front(p)], Last(p))
                          IN  IF q \in DOMAIN t /\ t[q].kind = "link" THEN to[t[q].to] ELSE q
  <2>1. CASE p = <<>>
    BY <1>3, <2>1
  <2>2. CASE p # <<>>
    <3>1. PICK q : q = Append(to[Front(p)], Last(p))
      OBVIOUS
    <3>2. to[p] = IF q \in DOMAIN t /\ t[q].kind = "link" THEN to[t[q].to] ELSE q
      BY <1>3, <1>5, <2>2, <3>1, Zenon DEF Through, Linking
    <3>3. QED
      BY <2>2, <3>1, <3>2
  <2>3. QED
    BY <2>1, <2>2
<1>7. Follows(t, to)
  <2>1. to = [p \in Path |-> to[p]]
    BY DEF to
  <2>2. QED
    BY <1>6, <2>1 DEF Follows
<1>8. QED
  BY <1>7 DEF LinksLead

-----------------------------------------------------------------------------
(***************************************************************************)
(* The theorem.                                                            *)
(***************************************************************************)
LEMMA NextTrue == ASSUME IInv, CacheInv, LinksLead(search.files), [Next]_vars PROVE CacheInv'
<1>1. TypeInv /\ CountInv
  BY DEF IInv
<1>2. CASE JavaScript
  <2>1. CASE Uncount
    BY <1>1, <2>1, UncountTrue
  <2>2. CASE _process
    BY <1>1, <2>2, ProcessTrue
  <2>3. CASE _processReaddir2
    BY <1>1, <2>3, ProcessReaddir2True
  <2>4. CASE _processGlobStar2
    BY <1>1, <2>4, ProcessGlobStar2True
  <2>5. CASE _processSimple2
    BY <1>1, <2>5, ProcessSimple2True
  <2>6. CASE _emitMatch
    BY <1>1, <2>6, EmitMatchTrue
  <2>7. CASE Heard
    BY <1>1, <2>7, HeardTrue
  <2>8. CASE done
    BY <1>1, <2>8, DoneTrue
  <2>9. CASE _readdir
    BY <1>1, <2>9, ReaddirTrue
  <2>10. CASE _readdirInGlobStar
    BY <1>1, <2>10, ReaddirInGlobStarTrue
  <2>11. CASE lstatcb
    BY <1>1, <2>11, LstatcbTrue
  <2>12. CASE readdirCb
    BY <1>1, <2>12, ReaddirCbTrue
  <2>13. CASE _stat
    BY <1>1, <2>13, StatTrue
  <2>14. CASE statcb
    BY <1>1, <2>14, StatcbTrue
  <2>15. CASE targetcb
    BY <1>1, <2>15, TargetcbTrue
  <2>16. CASE RES_
    BY <1>1, <2>16, ResTrue
  <2>17. CASE cleanup
    BY <1>1, <2>17, CleanupTrue
  <2>18. QED
    BY <1>2, <2>1, <2>2, <2>3, <2>4, <2>5, <2>6, <2>7, <2>8, <2>9, <2>10, <2>11, <2>12,
       <2>13, <2>14, <2>15, <2>16, <2>17, Zenon DEF JavaScript
<1>3. CASE Tick
  BY <1>1, <1>3, TickTrue
<1>4. CASE Answers
  BY <1>1, <1>4, AnswersTrue
<1>5. CASE Callers
  <2>1. PICK g \in Globs : Glob(g) \/ abort(g) \/ pause(g) \/ resume(g)
    BY <1>5, Zenon DEF Callers
  <2>2. QED
    BY <1>1, <2>1, GlobTrue, AbortTrue, PauseTrue, ResumeTrue
<1>6. CASE UNCHANGED vars
  <2>1. /\ search' = search /\ self' = self /\ reqs' = reqs /\ pending' = pending
        /\ stack' = stack /\ ticks' = ticks
    BY <1>6 DEF vars
  <2>2. PICK t : t = search.files
    OBVIOUS
  <2>3. /\ \A g \in Globs : FineSelf(t, self'[g])
        /\ FineAll(t, stack') /\ FineAll(t, ticks') /\ FineReqs(t, reqs') /\ FineAsked(t, pending')
    BY <2>1, <2>2 DEF CacheInv
  <2>4. QED
    BY <2>1, <2>2, <2>3, Outside
<1>7. QED
  BY <1>2, <1>3, <1>4, <1>5, <1>6, Zenon DEF Next

(* What a search remembers of a path is true of the files, in whatever     *)
(* order fs answers and whatever the caller does, if links lead somewhere: *)
(* a walk that follows them comes to an end.                               *)
THEOREM CacheTrueAlways == ASSUME \A s \in Searches : LinksLead(s.files) PROVE Spec => []CacheTrue
<1>1. Init => IInv /\ CacheInv
  BY InitKeeps, InitTrue DEF IInv
<1>2. IInv /\ CacheInv /\ [Next]_vars => IInv' /\ CacheInv'
  <2>1. SUFFICES ASSUME IInv, CacheInv, [Next]_vars PROVE IInv' /\ CacheInv'
    OBVIOUS
  <2>2. LinksLead(search.files)
    BY <2>1, Zenon DEF IInv, TypeInv, SelfInv
  <2>3. QED
    BY <2>1, <2>2, NextKeeps, NextTrue
<1>3. ASSUME CacheInv PROVE CacheTrue
  <2>1. SUFFICES ASSUME NEW g \in Globs, NEW abs \in DOMAIN self[g].cache,
                        NEW c, c = self[g].cache[abs], NEW t, t = search.files
                 PROVE  CASE c.kind = "entries" -> readdir(t, abs) = c
                          [] c.kind = "true"    -> lstat(t, abs).er = ""
                          [] c.kind = "DIR"     -> stat(t, abs).kind = "dir"
                          [] c.kind = "FILE"    -> lstat(t, abs).er = "" /\ stat(t, abs).kind # "dir"
                          [] c.kind = "false"   -> readdir(t, abs).er \in {"ENOENT", "EACCES"}
    BY Zenon DEF CacheTrue
  <2>2. TrueOf(t, abs, c)
    BY <1>3, <2>1, Zenon DEF CacheInv, FineSelf, TrueAll
  <2>3. QED
    BY <2>2, Zenon DEF TrueOf
<1>4. QED
  BY <1>1, <1>2, <1>3, PTL DEF Spec
====
