------------------------------- MODULE GlobProof -------------------------------
(***************************************************************************)
(* Proofs about Glob, for any searches, files and patterns: that nothing   *)
(* is found after an abort, that _processing counts just the steps that    *)
(* are still to be done, that a search ends when there are none left, and  *)
(* then once, and that who waits for a request is answered by one call.    *)
(***************************************************************************)
EXTENDS Glob, TLAPS, FiniteSetTheorems

(***************************************************************************)
(* Sequences of calls.                                                     *)
(***************************************************************************)
IsSeq(s) == \E S : s \in Seq(S)

LEMMA SeqDomain ==
    ASSUME NEW s, IsSeq(s)
    PROVE  /\ Len(s) \in Nat /\ DOMAIN s = 1..Len(s)
           /\ s = <<>> <=> Len(s) = 0
           /\ s = [k \in 1..Len(s) |-> s[k]]
<1>1. PICK S : s \in Seq(S)
  BY DEF IsSeq
<1>2. QED
  BY <1>1

LEMMA SeqMade ==
    ASSUME NEW n \in Nat, NEW s, s = [k \in 1..n |-> s[k]]
    PROVE  IsSeq(s) /\ Len(s) = n
<1> DEFINE S == {s[k] : k \in 1..n}
<1>1. s \in [1..n -> S]
  BY SMT
<1>2. s \in Seq(S)
  BY <1>1
<1>3. Len(s) = n
  BY <1>1, <1>2
<1>4. QED
  BY <1>2, <1>3 DEF IsSeq

LEMMA SeqOne ==
    ASSUME NEW a
    PROVE  IsSeq(<<a>>) /\ Len(<<a>>) = 1 /\ DOMAIN <<a>> = {1} /\ <<a>>[1] = a /\ <<a>> # <<>>
<1>1. <<a>> \in Seq({a}) /\ Len(<<a>>) = 1 /\ <<a>>[1] = a
  OBVIOUS
<1>2. IsSeq(<<a>>)
  BY <1>1 DEF IsSeq
<1>3. DOMAIN <<a>> = 1..1
  BY <1>1, <1>2, SeqDomain
<1>4. 1..1 = {1}
  OBVIOUS
<1>5. QED
  BY <1>1, <1>2, <1>3, <1>4

LEMMA SeqNone == IsSeq(<<>>) /\ Len(<<>>) = 0 /\ DOMAIN <<>> = {}
<1>1. <<>> \in Seq({})
  OBVIOUS
<1>2. QED
  BY <1>1 DEF IsSeq

LEMMA SeqCat ==
    ASSUME NEW s, NEW t, IsSeq(s), IsSeq(t)
    PROVE  /\ IsSeq(s \o t) /\ Len(s \o t) = Len(s) + Len(t)
           /\ \A k \in 1..Len(s) : (s \o t)[k] = s[k]
           /\ \A k \in 1..Len(t) : (s \o t)[Len(s) + k] = t[k]
<1>1. PICK S, T : s \in Seq(S) /\ t \in Seq(T)
  BY DEF IsSeq
<1>2. s \in Seq(S \cup T) /\ t \in Seq(S \cup T)
  BY <1>1
<1>3. s \o t \in Seq(S \cup T) /\ Len(s \o t) = Len(s) + Len(t)
  BY <1>2
<1>4. /\ \A k \in 1..Len(s) : (s \o t)[k] = s[k]
      /\ \A k \in 1..Len(t) : (s \o t)[Len(s) + k] = t[k]
  BY <1>2
<1>5. QED
  BY <1>3, <1>4 DEF IsSeq

LEMMA SeqAppend ==
    ASSUME NEW s, IsSeq(s), NEW a
    PROVE  /\ IsSeq(Append(s, a)) /\ Len(Append(s, a)) = Len(s) + 1 /\ Append(s, a) # <<>>
           /\ Append(s, a)[Len(s) + 1] = a
           /\ \A k \in 1..Len(s) : Append(s, a)[k] = s[k]
<1>1. PICK S : s \in Seq(S)
  BY DEF IsSeq
<1>2. s \in Seq(S \cup {a})
  BY <1>1
<1>3. Append(s, a) \in Seq(S \cup {a}) /\ Len(Append(s, a)) = Len(s) + 1
  BY <1>2
<1>4. Append(s, a)[Len(s) + 1] = a /\ \A k \in 1..Len(s) : Append(s, a)[k] = s[k]
  BY <1>2
<1>5. QED
  BY <1>2, <1>3, <1>4 DEF IsSeq

LEMMA SeqTail ==
    ASSUME NEW s, IsSeq(s), s # <<>>
    PROVE  /\ IsSeq(Tail(s)) /\ Len(s) > 0 /\ Len(Tail(s)) = Len(s) - 1 /\ Head(s) = s[1]
           /\ \A k \in 1..Len(s) - 1 : Tail(s)[k] = s[k + 1]
<1>1. PICK S : s \in Seq(S)
  BY DEF IsSeq
<1>2. Tail(s) \in Seq(S) /\ Len(Tail(s)) = Len(s) - 1 /\ Len(s) > 0 /\ Head(s) = s[1]
  BY <1>1
<1>3. \A k \in 1..Len(s) - 1 : Tail(s)[k] = s[k + 1]
  BY <1>1
<1>4. QED
  BY <1>2, <1>3 DEF IsSeq

LEMMA SeqFrom ==
    ASSUME NEW s, IsSeq(s), NEW n \in 0..Len(s)
    PROVE  /\ IsSeq(SubSeq(s, n + 1, Len(s))) /\ Len(SubSeq(s, n + 1, Len(s))) = Len(s) - n
           /\ \A k \in 1..Len(s) - n : SubSeq(s, n + 1, Len(s))[k] = s[n + k]
<1>1. PICK S : s \in Seq(S)
  BY DEF IsSeq
<1>2. Len(s) \in Nat /\ n \in Nat
  BY <1>1
<1>3. SubSeq(s, n + 1, Len(s)) \in Seq(S)
  BY <1>1, <1>2
<1>4. Len(SubSeq(s, n + 1, Len(s))) = Len(s) - n
  BY <1>1, <1>2
<1>5. \A k \in 1..Len(s) - n : SubSeq(s, n + 1, Len(s))[k] = s[n + k]
  BY <1>1, <1>2, <1>4
<1>6. QED
  BY <1>3, <1>4, <1>5 DEF IsSeq

\* What only keeps of a sequence is a sequence.
LEMMA SeqOnly ==
    ASSUME NEW s, IsSeq(s), NEW places \in SUBSET DOMAIN s
    PROVE  IsSeq(only(s, places))
<1>1. IsFiniteSet(DOMAIN s)
  BY SeqDomain, FS_Interval
<1>2. Cardinality(places) \in Nat
  BY <1>1, FS_Subset, FS_CardinalityType
<1>3. QED
  BY <1>2, SeqMade DEF only

-----------------------------------------------------------------------------
(***************************************************************************)
(* What a function owes: a step of a search, for which done() is called in *)
(* the end, or the answer to a request in flight.                          *)
(***************************************************************************)
Step(g)  == <<"step", g>>
Asked(key) == <<"asked", key>>

Debts(fn) ==
    IF fn.name \in {"_processReaddir2", "_processGlobStar2", "_processSimple2", "_stat",
                    "statcb", "targetcb", "uncount", "done"} THEN {Step(fn.g)}
    ELSE IF fn.name \in {"RES", "cleanup"} THEN {Asked(fn.key)}
    ELSE IF fn.name \in {"_readdirInGlobStar", "lstatcb", "readdirCb"} THEN {Asked(fn.cb.key)}
    ELSE IF fn.name = "_readdir"
         THEN IF fn.cb.name = "RES" THEN {Asked(fn.cb.key)} ELSE {Step(fn.g)}
    ELSE {}
Owes(fn, x) == IF x \in Debts(fn) THEN 1 ELSE 0

\* Who owes x: calls of a sequence, callbacks that wait for a request (but for those
\* that it is now answered to), calls of fs.
Debtors(calls, x) == {k \in DOMAIN calls : x \in Debts(calls[k].fn)}

Places(q) == UNION {{key} \X DOMAIN q[key] : key \in DOMAIN q}
Answered(calls, w) == \E k \in DOMAIN calls : /\ calls[k].fn.name = "cleanup"
                                              /\ calls[k].fn.key = w[1] /\ w[2] <= calls[k].fn.len
Waiters(calls, q, x) == {w \in Places(q) : ~Answered(calls, w) /\ x \in Debts(q[w[1]][w[2]])}

Copies(b) == UNION {{r} \X (1..b[r]) : r \in DOMAIN b}
Callees(b, x) == {c \in Copies(b) : x \in Debts(c[1].cb)}

InCalls(calls, x)   == Cardinality(Debtors(calls, x))
InReqs(calls, q, x) == Cardinality(Waiters(calls, q, x))
InBag(b, x)         == Cardinality(Callees(b, x))
Num(calls, q, b, t, x) == InCalls(calls, x) + InReqs(calls, q, x) + InBag(b, x) + InCalls(t, x)

\* The same number, by a bijection.
LEMMA Same ==
    ASSUME NEW S, NEW T, IsFiniteSet(S), NEW f, f \in [S -> T],
           \A a, b \in S : f[a] = f[b] => a = b,
           \A t \in T : \E s \in S : f[s] = t
    PROVE  IsFiniteSet(T) /\ Cardinality(T) = Cardinality(S)
<1>1. f \in Bijection(S, T)
  BY DEF Bijection, Injection, Surjection, IsInjective
<1>2. ExistsBijection(S, T)
  BY <1>1 DEF ExistsBijection
<1>3. QED
  BY <1>2, FS_Bijection

LEMMA Less ==
    ASSUME NEW S, IsFiniteSet(S), NEW T \in SUBSET S
    PROVE  Cardinality(S \ T) = Cardinality(S) - Cardinality(T)
<1>1. S \cap T = T
  OBVIOUS
<1>2. QED
  BY <1>1, FS_Difference

LEMMA DebtorsFinite ==
    ASSUME NEW s, IsSeq(s), NEW x
    PROVE  IsFiniteSet(Debtors(s, x)) /\ InCalls(s, x) \in Nat
<1>1. IsFiniteSet(DOMAIN s)
  BY SeqDomain, FS_Interval
<1>2. Debtors(s, x) \in SUBSET DOMAIN s
  BY DEF Debtors
<1>3. QED
  BY <1>1, <1>2, FS_Subset, FS_CardinalityType DEF InCalls

LEMMA InNone == ASSUME NEW x PROVE InCalls(<<>>, x) = 0
<1>1. Debtors(<<>>, x) = {}
  BY SeqNone DEF Debtors
<1>2. QED
  BY <1>1, FS_EmptySet DEF InCalls

LEMMA InOne == ASSUME NEW c, NEW x PROVE InCalls(<<c>>, x) = Owes(c.fn, x)
<1>1. Debtors(<<c>>, x) = IF x \in Debts(c.fn) THEN {1} ELSE {}
  BY SeqOne DEF Debtors
<1>2. QED
  BY <1>1, FS_EmptySet, FS_Singleton DEF InCalls, Owes

LEMMA InCat ==
    ASSUME NEW s, NEW t, IsSeq(s), IsSeq(t), NEW x
    PROVE  InCalls(s \o t, x) = InCalls(s, x) + InCalls(t, x)
<1> DEFINE A == Debtors(s, x)
           B == {k \in DOMAIN (s \o t) : k > Len(s) /\ x \in Debts((s \o t)[k].fn)}
           f == [k \in Debtors(t, x) |-> Len(s) + k]
<1>1. /\ IsSeq(s \o t) /\ Len(s \o t) = Len(s) + Len(t)
      /\ \A k \in 1..Len(s) : (s \o t)[k] = s[k]
      /\ \A k \in 1..Len(t) : (s \o t)[Len(s) + k] = t[k]
  BY SeqCat
<1>2. /\ Len(s) \in Nat /\ DOMAIN s = 1..Len(s) /\ Len(t) \in Nat /\ DOMAIN t = 1..Len(t)
      /\ DOMAIN (s \o t) = 1..(Len(s) + Len(t))
  BY <1>1, SeqDomain
<1>3. Debtors(s \o t, x) = A \cup B
  BY <1>1, <1>2 DEF Debtors
<1>4. A \cap B = {}
  BY <1>1, <1>2 DEF Debtors
<1>5. f \in [Debtors(t, x) -> B]
  BY <1>1, <1>2 DEF Debtors
<1>6. \A a, b \in Debtors(t, x) : f[a] = f[b] => a = b
  BY <1>2 DEF Debtors
<1>7. \A k \in B : \E j \in Debtors(t, x) : f[j] = k
  <2>1. TAKE k \in B
  <2>2. k - Len(s) \in 1..Len(t) /\ k = Len(s) + (k - Len(s))
    BY <1>2
  <2>3. k - Len(s) \in Debtors(t, x)
    BY <1>1, <1>2, <2>2 DEF Debtors
  <2>4. QED
    BY <2>2, <2>3
<1>8. IsFiniteSet(A) /\ IsFiniteSet(Debtors(t, x))
  BY DebtorsFinite
<1>9. IsFiniteSet(B) /\ Cardinality(B) = InCalls(t, x)
  <2> HIDE DEF B, f
  <2>1. QED
    BY <1>5, <1>6, <1>7, <1>8, Same DEF InCalls
<1>10. Cardinality(A \cup B) = Cardinality(A) + Cardinality(B) - Cardinality({})
  <2> HIDE DEF A, B
  <2>1. QED
    BY <1>4, <1>8, <1>9, FS_Union
<1>11. Cardinality(A) \in Nat /\ Cardinality(B) \in Nat
  BY <1>8, <1>9, DebtorsFinite DEF InCalls
<1>12. QED
  <2> HIDE DEF B
  <2>1. QED
    BY <1>3, <1>9, <1>10, <1>11, FS_EmptySet DEF InCalls

\* The head of a sequence, and the rest.
LEMMA InTail ==
    ASSUME NEW s, IsSeq(s), s # <<>>, NEW x
    PROVE  InCalls(s, x) = Owes(Head(s).fn, x) + InCalls(Tail(s), x)
<1>1. IsSeq(Tail(s)) /\ IsSeq(<<Head(s)>>)
  BY SeqTail, SeqOne
<1>2. s = <<Head(s)>> \o Tail(s)
  <2>1. PICK S : s \in Seq(S)
    BY DEF IsSeq
  <2>2. QED
    BY <2>1
<1>3. InCalls(<<Head(s)>> \o Tail(s), x) = InCalls(<<Head(s)>>, x) + InCalls(Tail(s), x)
  BY <1>1, InCat
<1>4. QED
  BY <1>2, <1>3, InOne

LEMMA InReturn ==
    ASSUME NEW s, NEW t, IsSeq(s), IsSeq(t), s # <<>>, NEW x
    PROVE  InCalls(t \o Tail(s), x) = InCalls(t, x) + InCalls(s, x) - Owes(Head(s).fn, x)
<1>1. InCalls(t \o Tail(s), x) = InCalls(t, x) + InCalls(Tail(s), x)
  BY SeqTail, InCat
<1>2. /\ InCalls(s, x) \in Nat /\ InCalls(Tail(s), x) \in Nat /\ InCalls(t, x) \in Nat
      /\ Owes(Head(s).fn, x) \in Nat
  BY SeqTail, DebtorsFinite DEF Owes
<1>3. QED
  BY <1>1, <1>2, InTail

\* Calls that owe nothing.
LEMMA InNobody ==
    ASSUME NEW s, NEW x, \A k \in DOMAIN s : x \notin Debts(s[k].fn)
    PROVE  InCalls(s, x) = 0
<1>1. Debtors(s, x) = {}
  BY DEF Debtors
<1>2. QED
  BY <1>1, FS_EmptySet DEF InCalls

LEMMA InAppend ==
    ASSUME NEW s, IsSeq(s), NEW c, NEW x
    PROVE  InCalls(Append(s, c), x) = InCalls(s, x) + Owes(c.fn, x)
<1>1. Append(s, c) = s \o <<c>>
  <2>1. PICK S : s \in Seq(S)
    BY DEF IsSeq
  <2>2. s \in Seq(S \cup {c}) /\ <<c>> \in Seq(S \cup {c})
    BY <2>1
  <2>3. QED
    BY <2>2
<1>2. QED
  BY <1>1, SeqOne, InCat, InOne

\* Finitely many finite sets.
LEMMA UnionFinite ==
    ASSUME NEW D, IsFiniteSet(D), NEW f, \A k \in D : IsFiniteSet(f[k])
    PROVE  IsFiniteSet(UNION {f[k] : k \in D})
<1> DEFINE T == {f[k] : k \in D}
           h == [k \in D |-> f[k]]
<1>1. h \in Surjection(D, T)
  BY DEF Surjection
<1>2. IsFiniteSet(T)
  <2> HIDE DEF h, T
  <2>1. QED
    BY <1>1, FS_Surjection
<1>3. \A t \in T : IsFiniteSet(t)
  OBVIOUS
<1>4. QED
  BY <1>2, <1>3, FS_UNION

(***************************************************************************)
(* Calls of fs.                                                            *)
(***************************************************************************)
IsBag(b) == IsFiniteSet(DOMAIN b) /\ \A r \in DOMAIN b : b[r] \in Nat /\ b[r] > 0

LEMMA CalleesFinite ==
    ASSUME NEW b, IsBag(b), NEW x
    PROVE  IsFiniteSet(Copies(b)) /\ IsFiniteSet(Callees(b, x)) /\ InBag(b, x) \in Nat
<1> DEFINE f == [r \in DOMAIN b |-> {r} \X (1..b[r])]
<1>1. ASSUME NEW r \in DOMAIN b PROVE IsFiniteSet(f[r])
  <2>0. b[r] \in Int /\ 1 \in Int
    BY DEF IsBag
  <2>1. IsFiniteSet({r}) /\ IsFiniteSet(1..b[r])
    BY <2>0, FS_Singleton, FS_Interval
  <2>2. IsFiniteSet({r} \X (1..b[r]))
    BY <2>1, FS_Product
  <2>3. QED
    BY <2>2
<1>2. IsFiniteSet(UNION {f[r] : r \in DOMAIN b})
  <2> HIDE DEF f
  <2>1. QED
    BY <1>1, UnionFinite DEF IsBag
<1>3. UNION {f[r] : r \in DOMAIN b} = Copies(b)
  BY DEF Copies
<1>4. Callees(b, x) \in SUBSET Copies(b)
  BY DEF Callees
<1>5. QED
  BY <1>2, <1>3, <1>4, FS_Subset, FS_CardinalityType DEF InBag

LEMMA InCopies ==
    ASSUME NEW b
    PROVE  \A c : c \in Copies(b) <=> \E r \in DOMAIN b : \E n \in 1..b[r] : c = <<r, n>>
BY DEF Copies

LEMMA NoCopies == ASSUME NEW x PROVE IsBag(EmptyBag) /\ InBag(EmptyBag, x) = 0
<1>1. DOMAIN EmptyBag = {}
  BY DEF EmptyBag, SetToBag
<1>2. IsBag(EmptyBag)
  BY <1>1, FS_EmptySet DEF IsBag
<1>3. Callees(EmptyBag, x) = {}
  BY <1>1 DEF Callees, Copies
<1>4. QED
  BY <1>2, <1>3, FS_EmptySet DEF InBag

LEMMA BagPut ==
    ASSUME NEW b, IsBag(b), NEW r
    PROVE  LET c == b (+) SetToBag({r})
           IN  /\ IsBag(c) /\ DOMAIN c = DOMAIN b \cup {r}
               /\ \A x : InBag(c, x) = InBag(b, x) + Owes(r.cb, x)
<1> DEFINE c == b (+) SetToBag({r})
           n == IF r \in DOMAIN b THEN b[r] + 1 ELSE 1
<1>1. DOMAIN c = DOMAIN b \cup {r}
  BY DEF (+), SetToBag
<1>2. \A q \in DOMAIN c : c[q] = IF q = r THEN n ELSE b[q]
  BY DEF (+), SetToBag, IsBag
<1>3. IsBag(c)
  <2> HIDE DEF c
  <2>1. IsFiniteSet(DOMAIN c)
    BY <1>1, FS_AddElement DEF IsBag
  <2>2. \A q \in DOMAIN c : c[q] \in Nat /\ c[q] > 0
    BY <1>1, <1>2 DEF IsBag
  <2>3. QED
    BY <2>1, <2>2 DEF IsBag
<1>4. Copies(c) = Copies(b) \cup {<<r, n>>}
  <2> HIDE DEF c
  <2>1. \A q \in DOMAIN b : q # r => \A k : k \in 1..c[q] <=> k \in 1..b[q]
    BY <1>1, <1>2
  <2>2. \A k : k \in 1..c[r] <=> (r \in DOMAIN b /\ k \in 1..b[r]) \/ k = n
    BY <1>1, <1>2 DEF IsBag
  <2>3. \A d : d \in Copies(c) <=> d \in Copies(b) \/ d = <<r, n>>
    <3>1. TAKE d
    <3>2. ASSUME d \in Copies(c) PROVE d \in Copies(b) \/ d = <<r, n>>
      <4>1. PICK q \in DOMAIN c : \E k \in 1..c[q] : d = <<q, k>>
        BY <3>2, InCopies
      <4>2. PICK k \in 1..c[q] : d = <<q, k>>
        BY <4>1
      <4>3. CASE q = r
        BY <4>2, <4>3, <2>2, InCopies
      <4>4. CASE q # r
        BY <4>2, <4>4, <2>1, <1>1, InCopies
      <4>5. QED
        BY <4>3, <4>4
    <3>3. ASSUME d \in Copies(b) PROVE d \in Copies(c)
      <4>1. PICK q \in DOMAIN b : \E k \in 1..b[q] : d = <<q, k>>
        BY <3>3, InCopies
      <4>2. PICK k \in 1..b[q] : d = <<q, k>>
        BY <4>1
      <4>3. k \in 1..c[q] /\ q \in DOMAIN c
        BY <4>2, <2>1, <2>2, <1>1
      <4>4. QED
        BY <4>2, <4>3, InCopies
    <3>4. ASSUME d = <<r, n>> PROVE d \in Copies(c)
      BY <3>4, <2>2, <1>1, InCopies
    <3>5. QED
      BY <3>2, <3>3, <3>4
  <2>4. QED
    BY <2>3
<1>5. <<r, n>> \notin Copies(b)
  <2>1. ASSUME NEW q \in DOMAIN b, NEW k \in 1..b[q], <<r, n>> = <<q, k>> PROVE FALSE
    BY <2>1 DEF IsBag
  <2>2. QED
    BY <2>1, InCopies
<1>6. ASSUME NEW x PROVE InBag(c, x) = InBag(b, x) + Owes(r.cb, x)
  <2> HIDE DEF c, n
  <2>1. Callees(c, x) = IF x \in Debts(r.cb) THEN Callees(b, x) \cup {<<r, n>>} ELSE Callees(b, x)
    BY <1>4 DEF Callees
  <2>2. <<r, n>> \notin Callees(b, x) /\ IsFiniteSet(Callees(b, x)) /\ InBag(b, x) \in Nat
    BY <1>5, CalleesFinite DEF Callees
  <2>3. CASE x \in Debts(r.cb)
    <3>1. Callees(c, x) = Callees(b, x) \cup {<<r, n>>} /\ Owes(r.cb, x) = 1
      BY <2>1, <2>3 DEF Owes
    <3>2. Cardinality(Callees(b, x) \cup {<<r, n>>}) = Cardinality(Callees(b, x)) + 1
      BY <2>2, FS_AddElement
    <3>3. QED
      BY <3>1, <3>2 DEF InBag
  <2>4. CASE x \notin Debts(r.cb)
    BY <2>1, <2>2, <2>4 DEF InBag, Owes
  <2>5. QED
    BY <2>3, <2>4
<1>7. QED
  BY <1>1, <1>3, <1>6

LEMMA BagTake ==
    ASSUME NEW b, IsBag(b), NEW r \in DOMAIN b
    PROVE  LET c == b (-) SetToBag({r})
           IN  /\ IsBag(c) /\ DOMAIN c \subseteq DOMAIN b
               /\ \A x : InBag(c, x) = InBag(b, x) - Owes(r.cb, x)
<1> DEFINE c == b (-) SetToBag({r})
           n == b[r]
<1>1. DOMAIN c = IF n = 1 THEN DOMAIN b \ {r} ELSE DOMAIN b
  BY DEF (-), SetToBag, IsBag
<1>2. \A q \in DOMAIN c : c[q] = IF q = r THEN n - 1 ELSE b[q]
  BY DEF (-), SetToBag, IsBag
<1>3. IsBag(c)
  <2> HIDE DEF c
  <2>1. IsFiniteSet(DOMAIN c)
    BY <1>1, FS_RemoveElement DEF IsBag
  <2>2. \A q \in DOMAIN c : c[q] \in Nat /\ c[q] > 0
    BY <1>1, <1>2 DEF IsBag
  <2>3. QED
    BY <2>1, <2>2 DEF IsBag
<1>4. Copies(c) = Copies(b) \ {<<r, n>>}
  <2> HIDE DEF c
  <2>1. \A q \in DOMAIN c : q # r => \A k : k \in 1..c[q] <=> k \in 1..b[q]
    BY <1>1, <1>2
  <2>2. \A k : k \in 1..n /\ k # n <=> r \in DOMAIN c /\ k \in 1..c[r]
    BY <1>1, <1>2 DEF IsBag
  <2>3. \A d : d \in Copies(c) <=> d \in Copies(b) /\ d # <<r, n>>
    <3>1. TAKE d
    <3>2. ASSUME d \in Copies(c) PROVE d \in Copies(b) /\ d # <<r, n>>
      <4>1. PICK q \in DOMAIN c : \E k \in 1..c[q] : d = <<q, k>>
        BY <3>2, InCopies
      <4>2. PICK k \in 1..c[q] : d = <<q, k>>
        BY <4>1
      <4>3. q \in DOMAIN b /\ k \in 1..b[q] /\ <<q, k>> # <<r, n>>
        BY <4>2, <2>1, <2>2, <1>1
      <4>4. QED
        BY <4>2, <4>3, InCopies
    <3>3. ASSUME d \in Copies(b), d # <<r, n>> PROVE d \in Copies(c)
      <4>1. PICK q \in DOMAIN b : \E k \in 1..b[q] : d = <<q, k>>
        BY <3>3, InCopies
      <4>2. PICK k \in 1..b[q] : d = <<q, k>>
        BY <4>1
      <4>3. q \in DOMAIN c /\ k \in 1..c[q]
        BY <3>3, <4>2, <2>1, <2>2, <1>1
      <4>4. QED
        BY <4>2, <4>3, InCopies
    <3>4. QED
      BY <3>2, <3>3
  <2>4. QED
    BY <2>3
<1>5. <<r, n>> \in Copies(b)
  BY InCopies DEF IsBag
<1>6. ASSUME NEW x PROVE InBag(c, x) = InBag(b, x) - Owes(r.cb, x)
  <2> HIDE DEF c, n
  <2>1. Callees(c, x) = IF x \in Debts(r.cb) THEN Callees(b, x) \ {<<r, n>>} ELSE Callees(b, x)
    BY <1>4 DEF Callees
  <2>2. x \in Debts(r.cb) => <<r, n>> \in Callees(b, x)
    BY <1>5 DEF Callees
  <2>3. IsFiniteSet(Callees(b, x)) /\ InBag(b, x) \in Nat
    BY CalleesFinite
  <2>4. Cardinality(Callees(b, x) \ {<<r, n>>})
          = IF <<r, n>> \in Callees(b, x) THEN InBag(b, x) - 1 ELSE InBag(b, x)
    BY <2>3, FS_RemoveElement DEF InBag
  <2>5. QED
    BY <2>1, <2>2, <2>3, <2>4 DEF InBag, Owes
<1>7. QED
  BY <1>1, <1>3, <1>6

(***************************************************************************)
(* Requests in flight.                                                     *)
(***************************************************************************)
IsReqs(q) == IsFiniteSet(DOMAIN q) /\ \A key \in DOMAIN q : IsSeq(q[key]) /\ q[key] # <<>>

LEMMA InPlaces ==
    ASSUME NEW q, IsReqs(q)
    PROVE  \A w : w \in Places(q) <=> \E key \in DOMAIN q : \E k \in 1..Len(q[key]) : w = <<key, k>>
<1>1. \A key \in DOMAIN q : DOMAIN q[key] = 1..Len(q[key])
  BY SeqDomain DEF IsReqs
<1>2. QED
  BY <1>1 DEF Places

LEMMA WaitersFinite ==
    ASSUME NEW s, NEW q, IsReqs(q), NEW x
    PROVE  IsFiniteSet(Places(q)) /\ IsFiniteSet(Waiters(s, q, x)) /\ InReqs(s, q, x) \in Nat
<1> DEFINE f == [key \in DOMAIN q |-> {key} \X DOMAIN q[key]]
<1>1. ASSUME NEW key \in DOMAIN q PROVE IsFiniteSet(f[key])
  <2>1. DOMAIN q[key] = 1..Len(q[key]) /\ Len(q[key]) \in Int /\ 1 \in Int
    BY SeqDomain DEF IsReqs
  <2> DEFINE n == Len(q[key])
  <2>2. IsFiniteSet({key}) /\ IsFiniteSet(DOMAIN q[key])
    <3>1. n \in Int /\ 1 \in Int /\ DOMAIN q[key] = 1..n
      BY <2>1
    <3> HIDE DEF n
    <3>2. IsFiniteSet(1..n)
      BY ONLY <3>1, FS_Interval
    <3>3. QED
      BY <3>1, <3>2, FS_Singleton
  <2>3. IsFiniteSet({key} \X DOMAIN q[key])
    BY <2>2, FS_Product
  <2>4. QED
    BY <2>3
<1>2. IsFiniteSet(UNION {f[key] : key \in DOMAIN q})
  <2> HIDE DEF f
  <2>1. QED
    BY <1>1, UnionFinite DEF IsReqs
<1>3. UNION {f[key] : key \in DOMAIN q} = Places(q)
  BY DEF Places
<1>4. Waiters(s, q, x) \in SUBSET Places(q)
  BY DEF Waiters
<1>5. QED
  BY <1>2, <1>3, <1>4, FS_Subset, FS_CardinalityType DEF InReqs

LEMMA NoPlaces == ASSUME NEW s, NEW x PROVE IsReqs(None) /\ InReqs(s, None, x) = 0
<1>1. DOMAIN None = {}
  BY SeqNone DEF None
<1>2. IsReqs(None)
  BY <1>1, FS_EmptySet DEF IsReqs
<1>3. Waiters(s, None, x) = {}
  BY <1>1 DEF Waiters, Places
<1>4. QED
  BY <1>2, <1>3, FS_EmptySet DEF InReqs

\* The calls that are made next answer to no request.
NoCleanup(calls) == \A k \in DOMAIN calls : calls[k].fn.name # "cleanup"

LEMMA AnsweredCat ==
    ASSUME NEW s, NEW t, IsSeq(s), IsSeq(t), NEW w
    PROVE  Answered(s \o t, w) <=> Answered(s, w) \/ Answered(t, w)
<1>1. /\ IsSeq(s \o t) /\ Len(s \o t) = Len(s) + Len(t)
      /\ \A k \in 1..Len(s) : (s \o t)[k] = s[k]
      /\ \A k \in 1..Len(t) : (s \o t)[Len(s) + k] = t[k]
  BY SeqCat
<1>2. /\ Len(s) \in Nat /\ DOMAIN s = 1..Len(s) /\ Len(t) \in Nat /\ DOMAIN t = 1..Len(t)
      /\ DOMAIN (s \o t) = 1..(Len(s) + Len(t))
  BY <1>1, SeqDomain
<1>3. ASSUME Answered(s \o t, w) PROVE Answered(s, w) \/ Answered(t, w)
  <2>1. PICK k \in DOMAIN (s \o t) : /\ (s \o t)[k].fn.name = "cleanup"
                                     /\ (s \o t)[k].fn.key = w[1] /\ w[2] <= (s \o t)[k].fn.len
    BY <1>3 DEF Answered
  <2>2. CASE k \in 1..Len(s)
    BY <1>1, <1>2, <2>1, <2>2 DEF Answered
  <2>3. CASE k \notin 1..Len(s)
    <3>1. k - Len(s) \in DOMAIN t /\ k = Len(s) + (k - Len(s))
      BY <1>2, <2>3
    <3>2. (s \o t)[k] = t[k - Len(s)]
      BY <1>1, <1>2, <3>1
    <3>3. QED
      BY <2>1, <3>1, <3>2 DEF Answered
  <2>4. QED
    BY <2>2, <2>3
<1>4. ASSUME Answered(s, w) PROVE Answered(s \o t, w)
  <2>1. DOMAIN s \subseteq DOMAIN (s \o t)
    BY <1>2
  <2>2. QED
    BY <1>1, <1>2, <1>4, <2>1 DEF Answered
<1>5. ASSUME Answered(t, w) PROVE Answered(s \o t, w)
  <2>1. PICK k \in DOMAIN t : t[k].fn.name = "cleanup" /\ t[k].fn.key = w[1] /\ w[2] <= t[k].fn.len
    BY <1>5 DEF Answered
  <2>2. Len(s) + k \in DOMAIN (s \o t) /\ (s \o t)[Len(s) + k] = t[k]
    BY <1>1, <1>2
  <2>3. QED
    BY <2>1, <2>2 DEF Answered
<1>6. QED
  BY <1>3, <1>4, <1>5

LEMMA AnsweredOne ==
    ASSUME NEW c, NEW w
    PROVE  Answered(<<c>>, w) <=> c.fn.name = "cleanup" /\ c.fn.key = w[1] /\ w[2] <= c.fn.len
BY SeqOne DEF Answered

LEMMA AnsweredTail ==
    ASSUME NEW s, IsSeq(s), s # <<>>, NEW w
    PROVE  Answered(s, w) <=> Answered(<<Head(s)>>, w) \/ Answered(Tail(s), w)
<1>1. IsSeq(Tail(s)) /\ IsSeq(<<Head(s)>>)
  BY SeqTail, SeqOne
<1>2. s = <<Head(s)>> \o Tail(s)
  <2>1. PICK S : s \in Seq(S)
    BY DEF IsSeq
  <2>2. QED
    BY <2>1
<1>3. Answered(<<Head(s)>> \o Tail(s), w) <=> Answered(<<Head(s)>>, w) \/ Answered(Tail(s), w)
  BY <1>1, AnsweredCat
<1>4. QED
  BY <1>2, <1>3

LEMMA AnsweredReturn ==
    ASSUME NEW s, NEW t, IsSeq(s), IsSeq(t), s # <<>>, NoCleanup(t), Head(s).fn.name # "cleanup", NEW w
    PROVE  Answered(t \o Tail(s), w) <=> Answered(s, w)
<1>1. Answered(t \o Tail(s), w) <=> Answered(t, w) \/ Answered(Tail(s), w)
  BY SeqTail, AnsweredCat
<1>2. ~Answered(t, w)
  BY DEF Answered, NoCleanup
<1>3. Answered(s, w) <=> Answered(Tail(s), w)
  BY AnsweredTail, AnsweredOne
<1>4. QED
  BY <1>1, <1>2, <1>3

LEMMA InReqsReturn ==
    ASSUME NEW s, NEW t, IsSeq(s), IsSeq(t), s # <<>>, NoCleanup(t), Head(s).fn.name # "cleanup",
           NEW q, NEW x
    PROVE  InReqs(t \o Tail(s), q, x) = InReqs(s, q, x)
<1>1. Waiters(t \o Tail(s), q, x) = Waiters(s, q, x)
  BY AnsweredReturn DEF Waiters
<1>2. QED
  BY <1>1 DEF InReqs

\* One more callback waits.
LEMMA InReqsPut ==
    ASSUME NEW s, NEW q, IsReqs(q), NEW key, NEW cb,
           \A n : n = (IF key \in DOMAIN q THEN Len(q[key]) + 1 ELSE 1)
                  => ~Answered(s, <<key, n>>)
    PROVE  LET p == put(q, key, IF key \in DOMAIN q THEN Append(q[key], cb) ELSE <<cb>>)
           IN  /\ IsReqs(p) /\ DOMAIN p = DOMAIN q \cup {key}
               /\ \A w \in Places(p) : \/ w \in Places(q) /\ p[w[1]][w[2]] = q[w[1]][w[2]]
                                       \/ p[w[1]][w[2]] = cb
               /\ \A x : InReqs(s, p, x) = InReqs(s, q, x) + Owes(cb, x)
               /\ \A k \in DOMAIN q : Len(p[k]) >= Len(q[k])
<1> DEFINE v == IF key \in DOMAIN q THEN Append(q[key], cb) ELSE <<cb>>
           p == put(q, key, v)
           n == IF key \in DOMAIN q THEN Len(q[key]) + 1 ELSE 1
<1>1. DOMAIN p = DOMAIN q \cup {key} /\ p[key] = v /\ \A k \in DOMAIN q : k # key => p[k] = q[k]
  BY DEF put
<1>2. /\ IsSeq(v) /\ v # <<>> /\ Len(v) = n /\ n \in Nat /\ v[n] = cb
      /\ key \in DOMAIN q => \A k \in 1..Len(q[key]) : v[k] = q[key][k]
  BY SeqAppend, SeqOne, SeqDomain DEF IsReqs
<1>3. IsReqs(p)
  <2> HIDE DEF p, v
  <2>1. IsFiniteSet(DOMAIN p)
    BY <1>1, FS_AddElement DEF IsReqs
  <2>2. QED
    BY <1>1, <1>2, <2>1 DEF IsReqs
<1> HIDE DEF p, v
<1>4. \A w : w \in Places(p) <=> w \in Places(q) \/ w = <<key, n>>
  <2>1. TAKE w
  <2>2. ASSUME w \in Places(p) PROVE w \in Places(q) \/ w = <<key, n>>
    <3>1. PICK h \in DOMAIN p : \E k \in 1..Len(p[h]) : w = <<h, k>>
      BY <1>3, <2>2, InPlaces
    <3>2. PICK k \in 1..Len(p[h]) : w = <<h, k>>
      BY <3>1
    <3>3. CASE h # key
      BY <1>1, <3>2, <3>3, InPlaces
    <3>4. CASE h = key /\ k # n
      <4>1. key \in DOMAIN q /\ k \in 1..Len(q[key])
        BY <1>1, <1>2, <3>2, <3>4, SeqDomain DEF IsReqs
      <4>2. QED
        BY <3>2, <3>4, <4>1, InPlaces
    <3>5. QED
      BY <3>2, <3>3, <3>4
  <2>3. ASSUME w \in Places(q) PROVE w \in Places(p)
    <3>1. PICK h \in DOMAIN q : \E k \in 1..Len(q[h]) : w = <<h, k>>
      BY <2>3, InPlaces
    <3>2. PICK k \in 1..Len(q[h]) : w = <<h, k>>
      BY <3>1
    <3>3. h \in DOMAIN p /\ k \in 1..Len(p[h])
      BY <1>1, <1>2, <3>2, SeqDomain DEF IsReqs
    <3>4. QED
      BY <1>3, <3>2, <3>3, InPlaces
  <2>4. ASSUME w = <<key, n>> PROVE w \in Places(p)
    <3>1. key \in DOMAIN p /\ n \in 1..Len(p[key])
      BY <1>1, <1>2, SeqDomain DEF IsReqs
    <3>2. QED
      BY <1>3, <2>4, <3>1, InPlaces
  <2>5. QED
    BY <2>2, <2>3, <2>4
<1>5. <<key, n>> \notin Places(q)
  <2>1. ASSUME NEW h \in DOMAIN q, NEW k \in 1..Len(q[h]), <<key, n>> = <<h, k>> PROVE FALSE
    BY <2>1, SeqDomain DEF IsReqs
  <2>2. QED
    BY <2>1, InPlaces
<1>6. \A w \in Places(q) : p[w[1]][w[2]] = q[w[1]][w[2]]
  <2>1. TAKE w \in Places(q)
  <2>2. PICK h \in DOMAIN q : \E k \in 1..Len(q[h]) : w = <<h, k>>
    BY InPlaces
  <2>3. PICK k \in 1..Len(q[h]) : w = <<h, k>>
    BY <2>2
  <2>4. p[h][k] = q[h][k]
    BY <1>1, <1>2
  <2>5. QED
    BY <2>3, <2>4
<1>7. p[key][n] = cb
  BY <1>1, <1>2
<1>8. ~Answered(s, <<key, n>>)
  <2>1. n = IF key \in DOMAIN q THEN Len(q[key]) + 1 ELSE 1
    OBVIOUS
  <2> HIDE DEF n
  <2>2. QED
    BY <2>1
<1>9. ASSUME NEW x PROVE InReqs(s, p, x) = InReqs(s, q, x) + Owes(cb, x)
  <2> HIDE DEF n
  <2>1. Waiters(s, p, x) = IF x \in Debts(cb) THEN Waiters(s, q, x) \cup {<<key, n>>}
                           ELSE Waiters(s, q, x)
    <3>1. ASSUME NEW w
          PROVE  w \in Waiters(s, p, x) <=> w \in Waiters(s, q, x) \/ (w = <<key, n>> /\ x \in Debts(cb))
      <4>1. CASE w \in Places(q)
        BY <1>4, <1>5, <1>6, <4>1 DEF Waiters
      <4>2. CASE w = <<key, n>>
        <5>1. w[1] = key /\ w[2] = n
          BY <4>2
        <5>2. QED
          BY <1>4, <1>5, <1>7, <1>8, <4>2, <5>1 DEF Waiters
      <4>3. CASE w \notin Places(q) /\ w # <<key, n>>
        BY <1>4, <4>3 DEF Waiters
      <4>4. QED
        BY <4>1, <4>2, <4>3
    <3>2. QED
      BY <3>1
  <2>2. <<key, n>> \notin Waiters(s, q, x) /\ IsFiniteSet(Waiters(s, q, x)) /\ InReqs(s, q, x) \in Nat
    BY <1>5, WaitersFinite DEF Waiters
  <2>3. Cardinality(Waiters(s, q, x) \cup {<<key, n>>}) = InReqs(s, q, x) + 1
    BY <2>2, FS_AddElement DEF InReqs
  <2>4. QED
    BY <2>1, <2>2, <2>3 DEF InReqs, Owes
<1>10. \A k \in DOMAIN q : Len(p[k]) >= Len(q[k])
  BY <1>1, <1>2, SeqDomain DEF IsReqs
<1>11. \A w \in Places(p) : \/ w \in Places(q) /\ p[w[1]][w[2]] = q[w[1]][w[2]]
                            \/ p[w[1]][w[2]] = cb
  BY <1>4, <1>6, <1>7
<1>12. QED
  BY <1>1, <1>3, <1>9, <1>10, <1>11 DEF p, v

\* The calls that answer to all who wait now, and then clean up.
LEMMA InReqsAnswer ==
    ASSUME NEW s, IsSeq(s), s # <<>>, Head(s).fn.name # "cleanup",
           NEW q, IsReqs(q), NEW key \in DOMAIN q, \A n : ~Answered(s, <<key, n>>),
           NEW t, IsSeq(t), DOMAIN t = DOMAIN q[key], NoCleanup(t),
           \A k \in DOMAIN t : t[k].fn = q[key][k],
           NEW c, c.fn.name = "cleanup", c.fn.key = key, c.fn.len = Len(q[key]), NEW x
    PROVE  InReqs((t \o <<c>>) \o Tail(s), q, x) + InCalls(t, x) = InReqs(s, q, x)
<1> DEFINE all == (t \o <<c>>) \o Tail(s)
           W == Waiters(s, q, x)
           K == {w \in W : w[1] = key}
           f == [k \in Debtors(t, x) |-> <<key, k>>]
<1>1. IsSeq(Tail(s)) /\ IsSeq(<<c>>) /\ IsSeq(t \o <<c>>)
  BY SeqTail, SeqOne, SeqCat
<1>2. \A w : Answered(all, w) <=> Answered(s, w) \/ (w[1] = key /\ w[2] <= Len(q[key]))
  <2>1. TAKE w
  <2>2. Answered(all, w) <=> Answered(t \o <<c>>, w) \/ Answered(Tail(s), w)
    BY <1>1, AnsweredCat
  <2>3. Answered(t \o <<c>>, w) <=> Answered(t, w) \/ Answered(<<c>>, w)
    BY <1>1, AnsweredCat
  <2>4. ~Answered(t, w)
    BY DEF Answered, NoCleanup
  <2>5. Answered(<<c>>, w) <=> w[1] = key /\ w[2] <= Len(q[key])
    BY AnsweredOne
  <2>6. Answered(s, w) <=> Answered(Tail(s), w)
    BY AnsweredTail, AnsweredOne
  <2>7. QED
    BY <2>2, <2>3, <2>4, <2>5, <2>6
<1>3. \A w \in Places(q) : w[1] = key => w[2] <= Len(q[key])
  <2>1. ASSUME NEW h \in DOMAIN q, NEW k \in 1..Len(q[h]), NEW w, w = <<h, k>>, w[1] = key
        PROVE  w[2] <= Len(q[key])
    BY <2>1
  <2>2. QED
    BY <2>1, InPlaces
<1>4. Waiters(all, q, x) = W \ K
  <2> HIDE DEF all
  <2>1. QED
    BY <1>2, <1>3 DEF Waiters
<1>5. IsFiniteSet(W) /\ Cardinality(W) \in Nat
  BY WaitersFinite DEF InReqs
<1>6. K \in SUBSET W
  OBVIOUS
<1>7. Cardinality(W \ K) = Cardinality(W) - Cardinality(K)
  <2> HIDE DEF W, K
  <2>1. QED
    BY <1>5, <1>6, Less
<1>8. \A w : w \in K <=> \E k \in Debtors(t, x) : w = <<key, k>>
  <2>1. ASSUME NEW w \in K PROVE \E k \in Debtors(t, x) : w = <<key, k>>
    <3>1. PICK h \in DOMAIN q : \E k \in 1..Len(q[h]) : w = <<h, k>>
      BY InPlaces DEF Waiters
    <3>2. PICK k \in 1..Len(q[h]) : w = <<h, k>>
      BY <3>1
    <3>3. h = key
      BY <3>2
    <3>4. k \in DOMAIN t
      BY <3>2, <3>3, SeqDomain DEF IsReqs
    <3>5. x \in Debts(q[key][k])
      BY <3>2, <3>3 DEF Waiters
    <3>6. k \in Debtors(t, x)
      BY <3>4, <3>5 DEF Debtors
    <3>7. QED
      BY <3>2, <3>3, <3>6
  <2>2. ASSUME NEW k \in Debtors(t, x) PROVE <<key, k>> \in K
    <3>1. k \in DOMAIN t /\ x \in Debts(q[key][k])
      BY DEF Debtors
    <3>2. k \in 1..Len(q[key])
      BY <3>1, SeqDomain DEF IsReqs
    <3>3. <<key, k>> \in Places(q)
      BY <3>2, InPlaces
    <3>4. <<key, k>>[1] = key /\ <<key, k>>[2] = k /\ ~Answered(s, <<key, k>>)
      OBVIOUS
    <3>5. <<key, k>> \in W
      BY <3>1, <3>3, <3>4 DEF Waiters
    <3>6. QED
      BY <3>4, <3>5
  <2>3. QED
    BY <2>1, <2>2
<1> HIDE DEF K
<1>9. f \in [Debtors(t, x) -> K]
  BY <1>8
<1>13. \A a, b \in Debtors(t, x) : f[a] = f[b] => a = b
  OBVIOUS
<1>14. \A w \in K : \E k \in Debtors(t, x) : f[k] = w
  BY <1>8
<1>10. IsFiniteSet(Debtors(t, x)) /\ InCalls(t, x) \in Nat
  BY DebtorsFinite
<1>11. Cardinality(K) = InCalls(t, x)
  <2> HIDE DEF f
  <2>1. QED
    BY ONLY <1>9, <1>13, <1>14, <1>10, Same DEF InCalls
<1>12. QED
  <2> HIDE DEF all, W
  <2>1. InReqs(all, q, x) = Cardinality(W) - InCalls(t, x)
    BY <1>4, <1>7, <1>11 DEF InReqs
  <2>2. InReqs(s, q, x) = Cardinality(W)
    BY DEF InReqs, W
  <2>3. QED
    BY <1>5, <1>10, <2>1, <2>2 DEF all

\* What is left in flight by cleanup.
Left(q, key, n) ==
    LET later == SubSeq(q[key], n + 1, Len(q[key]))
    IN  IF later # <<>> THEN put(q, key, later) ELSE [k \in DOMAIN q \ {key} |-> q[k]]

LEMMA LeftPlaces ==
    ASSUME NEW q, IsReqs(q), NEW key \in DOMAIN q, NEW n \in 0..Len(q[key])
    PROVE  /\ IsReqs(Left(q, key, n))
           /\ DOMAIN Left(q, key, n) = IF n = Len(q[key]) THEN DOMAIN q \ {key} ELSE DOMAIN q
           /\ key \in DOMAIN Left(q, key, n) =>
                 Left(q, key, n)[key] = SubSeq(q[key], n + 1, Len(q[key]))
           /\ \A k \in DOMAIN Left(q, key, n) : k # key => Left(q, key, n)[k] = q[k]
<1> DEFINE later == SubSeq(q[key], n + 1, Len(q[key]))
           p == Left(q, key, n)
<1>1. /\ IsSeq(later) /\ Len(later) = Len(q[key]) - n
      /\ \A k \in 1..Len(q[key]) - n : later[k] = q[key][n + k]
  BY SeqFrom DEF IsReqs
<1>2. Len(q[key]) \in Nat /\ (later = <<>> <=> Len(later) = 0)
  BY <1>1, SeqDomain DEF IsReqs
<1> DEFINE Right == /\ IsReqs(p)
                    /\ DOMAIN p = IF n = Len(q[key]) THEN DOMAIN q \ {key} ELSE DOMAIN q
                    /\ key \in DOMAIN p => p[key] = later
                    /\ \A k \in DOMAIN p : k # key => p[k] = q[k]
<1>3. ASSUME n = Len(q[key]) PROVE Right
  <2>1. p = [k \in DOMAIN q \ {key} |-> q[k]]
    BY <1>1, <1>2, <1>3 DEF Left
  <2> HIDE DEF p, later
  <2>2. DOMAIN p = DOMAIN q \ {key} /\ \A k \in DOMAIN p : p[k] = q[k]
    BY <2>1
  <2>3. IsFiniteSet(DOMAIN p)
    BY <2>2, FS_RemoveElement DEF IsReqs
  <2>4. IsReqs(p)
    BY <2>2, <2>3 DEF IsReqs
  <2>5. QED
    BY <1>3, <2>2, <2>4
<1>4. ASSUME n # Len(q[key]) PROVE Right
  <2>1. p = put(q, key, later)
    BY <1>1, <1>2, <1>4 DEF Left
  <2>2. later # <<>>
    BY <1>1, <1>2, <1>4
  <2> HIDE DEF p, later
  <2>3. DOMAIN p = DOMAIN q /\ p[key] = later /\ \A k \in DOMAIN p : k # key => p[k] = q[k]
    BY <2>1 DEF put
  <2>4. IsReqs(p)
    BY <1>1, <2>2, <2>3 DEF IsReqs
  <2>5. QED
    BY <1>4, <2>3, <2>4
<1>5. QED
  BY <1>3, <1>4

LEMMA InWaiters ==
    ASSUME NEW s, NEW q, IsReqs(q), NEW x
    PROVE  \A w : w \in Waiters(s, q, x) <=> \E h \in DOMAIN q : \E k \in 1..Len(q[h]) :
              w = <<h, k>> /\ ~Answered(s, <<h, k>>) /\ x \in Debts(q[h][k])
<1>1. TAKE w
<1>2. ASSUME w \in Waiters(s, q, x)
      PROVE  \E h \in DOMAIN q : \E k \in 1..Len(q[h]) :
                w = <<h, k>> /\ ~Answered(s, <<h, k>>) /\ x \in Debts(q[h][k])
  <2>1. w \in Places(q) /\ ~Answered(s, w) /\ x \in Debts(q[w[1]][w[2]])
    BY <1>2 DEF Waiters
  <2>2. PICK h \in DOMAIN q : \E k \in 1..Len(q[h]) : w = <<h, k>>
    BY <2>1, InPlaces
  <2>3. PICK k \in 1..Len(q[h]) : w = <<h, k>>
    BY <2>2
  <2>4. w[1] = h /\ w[2] = k
    BY <2>3
  <2>5. QED
    BY <2>1, <2>3, <2>4
<1>3. ASSUME NEW h \in DOMAIN q, NEW k \in 1..Len(q[h]),
             w = <<h, k>>, ~Answered(s, <<h, k>>), x \in Debts(q[h][k])
      PROVE  w \in Waiters(s, q, x)
  <2>1. w \in Places(q) /\ w[1] = h /\ w[2] = k
    BY <1>3, InPlaces
  <2>2. QED
    BY <1>3, <2>1 DEF Waiters
<1>4. QED
  BY <1>2, <1>3

LeftOf(p, q, key, n) ==
    /\ IsReqs(p) /\ DOMAIN p = (IF n = Len(q[key]) THEN DOMAIN q \ {key} ELSE DOMAIN q)
    /\ key \in DOMAIN p => p[key] = SubSeq(q[key], n + 1, Len(q[key]))
    /\ \A k \in DOMAIN p : k # key => p[k] = q[k]
Cleaning(s, key, n) ==
    /\ IsSeq(s) /\ s # <<>> /\ Head(s).fn.name = "cleanup" /\ Head(s).fn.key = key
    /\ Head(s).fn.len = n /\ \A m : ~Answered(Tail(s), <<key, m>>)

LEMMA InReqsLeft ==
    ASSUME NEW s, NEW q, IsReqs(q), NEW key \in DOMAIN q, NEW n \in 0..Len(q[key]),
           Cleaning(s, key, n), NEW p, LeftOf(p, q, key, n), NEW x
    PROVE  InReqs(Tail(s), p, x) = InReqs(s, q, x)
<1> USE DEF LeftOf, Cleaning
<1>1. /\ n \in Nat /\ Len(q[key]) \in Nat
      /\ DOMAIN p = IF n = Len(q[key]) THEN DOMAIN q \ {key} ELSE DOMAIN q
      /\ key \in DOMAIN p => /\ Len(p[key]) = Len(q[key]) - n
                             /\ \A k \in 1..Len(q[key]) - n : p[key][k] = q[key][n + k]
      /\ \A k \in DOMAIN p : k # key => p[k] = q[k]
  <2>1. Len(q[key]) \in Nat /\ n \in Nat
    BY SeqDomain DEF IsReqs
  <2>2. /\ Len(SubSeq(q[key], n + 1, Len(q[key]))) = Len(q[key]) - n
        /\ \A k \in 1..Len(q[key]) - n : SubSeq(q[key], n + 1, Len(q[key]))[k] = q[key][n + k]
    BY SeqFrom DEF IsReqs
  <2>3. QED
    BY <2>1, <2>2
<1> DEFINE V == Waiters(Tail(s), p, x)
           W == Waiters(s, q, x)
           up(w) == IF w[1] = key THEN <<key, n + w[2]>> ELSE w
           f == [w \in V |-> up(w)]
<1>2. \A w : Answered(s, w) <=> Answered(Tail(s), w) \/ (w[1] = key /\ w[2] <= n)
  BY AnsweredTail, AnsweredOne
<1>3. \A w : w \in V <=> \E h \in DOMAIN p : \E k \in 1..Len(p[h]) :
                w = <<h, k>> /\ ~Answered(Tail(s), <<h, k>>) /\ x \in Debts(p[h][k])
  BY <1>1, InWaiters
<1>4. \A w : w \in W <=> \E h \in DOMAIN q : \E k \in 1..Len(q[h]) :
                w = <<h, k>> /\ ~Answered(s, <<h, k>>) /\ x \in Debts(q[h][k])
  BY InWaiters
<1> HIDE DEF V, W
<1>5. ASSUME NEW w \in V PROVE up(w) \in W
  <2>1. PICK h \in DOMAIN p : \E k \in 1..Len(p[h]) :
                w = <<h, k>> /\ ~Answered(Tail(s), <<h, k>>) /\ x \in Debts(p[h][k])
    BY <1>3
  <2>2. PICK k \in 1..Len(p[h]) :
                w = <<h, k>> /\ ~Answered(Tail(s), <<h, k>>) /\ x \in Debts(p[h][k])
    BY <2>1
  <2>3. CASE h = key
    <3>1. n + k \in 1..Len(q[key]) /\ p[key][k] = q[key][n + k] /\ ~(n + k <= n)
      BY <1>1, <2>2, <2>3
    <3>2. ~Answered(s, <<key, n + k>>)
      BY <1>2, <3>1
    <3>3. <<key, n + k>> \in W
      BY <1>4, <2>2, <2>3, <3>1, <3>2
    <3>4. QED
      BY <2>2, <2>3, <3>3
  <2>4. CASE h # key
    <3>1. h \in DOMAIN q /\ p[h] = q[h] /\ up(w) = <<h, k>>
      BY <1>1, <2>2, <2>4
    <3>2. ~Answered(s, <<h, k>>)
      BY <1>2, <2>2, <2>4
    <3>3. QED
      BY <1>4, <2>2, <3>1, <3>2
  <2>5. QED
    BY <2>3, <2>4
<1>6. ASSUME NEW w \in W PROVE \E v \in V : up(v) = w
  <2>1. PICK h \in DOMAIN q : \E k \in 1..Len(q[h]) :
                w = <<h, k>> /\ ~Answered(s, <<h, k>>) /\ x \in Debts(q[h][k])
    BY <1>4
  <2>2. PICK k \in 1..Len(q[h]) : w = <<h, k>> /\ ~Answered(s, <<h, k>>) /\ x \in Debts(q[h][k])
    BY <2>1
  <2>3. CASE h = key
    <3>1. ~(k <= n)
      BY <1>2, <2>2, <2>3
    <3>2. key \in DOMAIN p /\ k - n \in 1..Len(p[key]) /\ p[key][k - n] = q[key][k]
      <4>1. key \in DOMAIN p
        BY <1>1, <2>2, <2>3, <3>1
      <4>2. k - n \in 1..Len(q[key]) - n /\ n + (k - n) = k
        BY <1>1, <2>2, <2>3, <3>1
      <4>3. QED
        BY <1>1, <4>1, <4>2
    <3>3. ~Answered(Tail(s), <<key, k - n>>)
      OBVIOUS
    <3>4. <<key, k - n>> \in V
      BY <1>3, <2>2, <2>3, <3>2, <3>3
    <3>5. up(<<key, k - n>>) = w
      BY <1>1, <2>2, <2>3
    <3>6. QED
      BY <3>4, <3>5
  <2>4. CASE h # key
    <3>1. h \in DOMAIN p /\ p[h] = q[h] /\ up(w) = w
      BY <1>1, <2>2, <2>4
    <3>2. ~Answered(Tail(s), <<h, k>>)
      BY <1>2, <2>2, <2>4
    <3>3. w \in V
      BY <1>3, <2>2, <3>1, <3>2
    <3>4. QED
      BY <3>1, <3>3
  <2>5. QED
    BY <2>3, <2>4
<1>12. \A w \in V : \E h \in DOMAIN p : \E k \in 1..Len(p[h]) : w = <<h, k>>
  BY ONLY <1>3
<1>7. ASSUME NEW a \in V, NEW b \in V, up(a) = up(b) PROVE a = b
  <2>1. PICK h \in DOMAIN p : \E k \in 1..Len(p[h]) : a = <<h, k>>
    BY <1>12
  <2>2. PICK k \in 1..Len(p[h]) : a = <<h, k>>
    BY <2>1
  <2>3. PICK i \in DOMAIN p : \E j \in 1..Len(p[i]) : b = <<i, j>>
    BY <1>12
  <2>4. PICK j \in 1..Len(p[i]) : b = <<i, j>>
    BY <2>3
  <2>5. k \in Int /\ j \in Int
    BY <1>1, <2>2, <2>4
  <2>6. QED
    BY <1>1, <1>7, <2>2, <2>4, <2>5
<1> HIDE DEF up
<1>8. /\ f \in [V -> W]
      /\ \A a, b \in V : f[a] = f[b] => a = b
      /\ \A w \in W : \E v \in V : f[v] = w
  BY <1>5, <1>6, <1>7
<1>9. IsFiniteSet(V)
  BY WaitersFinite DEF V
<1>10. Cardinality(W) = Cardinality(V)
  <2> HIDE DEF f
  <2>1. QED
    BY ONLY <1>8, <1>9, Same
<1>11. QED
  BY <1>10 DEF V, W, InReqs

-----------------------------------------------------------------------------
(***************************************************************************)
(* The invariant, in parts.  First: what the calls and the fields are.     *)
(***************************************************************************)
Own == {"_process", "_processReaddir2", "_processGlobStar2", "_processSimple2", "_emitMatch",
        "match", "done", "_readdir", "_readdirInGlobStar", "lstatcb", "readdirCb", "_stat",
        "statcb", "targetcb", "uncount"}
Running == {g \in Globs : out[g].started}

\* A function of a search that was started, with what it calls back.
FnOK(fn, R) ==
    /\ fn.name \in Own \cup {"RES", "cleanup"}
    /\ fn.name \in Own => fn.g \in R
    /\ fn.name = "uncount" => /\ fn.then.fn.name = "_process" /\ fn.then.fn.g = fn.g
                              /\ IsSeq(fn.then.answer.entries)
    /\ fn.name = "_readdir" =>
         \/ fn.cb.name = "RES" /\ fn.cb = RES(fn.cb.key)
         \/ fn.cb.name \in {"_processReaddir2", "_processGlobStar2"} /\ fn.cb.g = fn.g
    /\ fn.name \in {"_readdirInGlobStar", "lstatcb", "readdirCb"} => fn.cb = RES(fn.cb.key)
    /\ fn.name = "statcb" =>
         fn = [name |-> "statcb", g |-> fn.g, abs |-> fn.abs, then |-> fn.then]
    /\ fn.name \in {"statcb", "targetcb"} => fn.then.name = "_processSimple2" /\ fn.then.g = fn.g
    /\ fn.name = "RES" => fn = RES(fn.key)
FrameOK(c, R) == FnOK(c.fn, R) /\ IsSeq(c.answer.entries)
FramesOK(calls, R) == IsSeq(calls) /\ \A k \in DOMAIN calls : FrameOK(calls[k], R)

WaitNames == {"_processReaddir2", "_processGlobStar2", "RES", "lstatcb", "statcb"}
AskNames  == {"RES", "readdirCb", "targetcb"}
WaitOK(fn, R) == FnOK(fn, R) /\ fn.name \in WaitNames
AskOK(r, R) == FnOK(r.cb, R) /\ r.cb.name \in AskNames /\ r.call \in {"lstat", "stat", "readdir"}

StackInv   == FramesOK(stack, Running)
TicksInv   == FramesOK(ticks, Running) /\ \A k \in DOMAIN ticks : ticks[k].fn.name = "RES"
ReqsInv    == IsReqs(reqs) /\ \A w \in Places(reqs) : WaitOK(reqs[w[1]][w[2]], Running)
PendingInv == IsBag(pending) /\ \A r \in DOMAIN pending : AskOK(r, Running)

\* The fields of a search, and what its caller has seen.
Fields  == {"minimatch", "ignore", "matches", "cache", "statCache", "symlinks",
            "_processing", "_emitQueue", "_processQueue", "paused", "aborted"}
Known(f) == \A abs \in DOMAIN f : IsSeq(f[abs].entries)
Again(q, g) == IsSeq(q) /\ \A k \in DOMAIN q : /\ q[k].fn.name = "_process" /\ q[k].fn.g = g
                                               /\ IsSeq(q[k].answer.entries)
FieldsOK(g, s) ==
    /\ DOMAIN s = Fields
    /\ s.minimatch = setopts(o(g)).minimatch
    /\ s.ignore = setopts(o(g)).ignore
    /\ s.paused \in BOOLEAN /\ s.aborted \in BOOLEAN
    /\ s._processing \in Int
    /\ IsSeq(s._emitQueue) /\ Again(s._processQueue, g)
    /\ Known(s.cache) /\ Known(s.statCache)
    /\ \A abs \in DOMAIN s.symlinks : s.symlinks[abs] \in BOOLEAN
SeenOK(w) ==
    /\ DOMAIN w = {"started", "ends", "error", "found", "late", "pauses"}
    /\ w.started \in BOOLEAN /\ w.ends \in Nat /\ w.pauses \in Nat
SelfInv ==
    /\ search \in Searches /\ DOMAIN self = Globs /\ DOMAIN out = Globs
    /\ \A g \in Globs : /\ FieldsOK(g, self[g]) /\ SeenOK(out[g])
                        /\ self[g].aborted \/ self[g].paused => out[g].started

TypeInv == SelfInv /\ StackInv /\ TicksInv /\ ReqsInv /\ PendingInv /\ draining \in BOOLEAN

(***************************************************************************)
(* Second: what is counted.  Each search counts the steps that are owed to *)
(* it, and those put aside; each request in flight is owed one answer.     *)
(* (After an abort steps and answers are lost.)                            *)
(***************************************************************************)
Owing(x) == Num(stack, reqs, pending, ticks, x)
Extra(g) == IF out[g].started /\ self[g].minimatch.set = <<>> THEN 1 ELSE 0
StepLaw(g) == LET n == Owing(Step(g)) + Len(self[g]._processQueue) - Extra(g)
              IN  self[g]._processing >= n /\ (~self[g].aborted => self[g]._processing = n)
NoAbort == \A g \in Globs : ~self[g].aborted
KeyLaw(key) == LET n == Owing(Asked(key))
               IN  /\ n <= 1 /\ (key \notin DOMAIN reqs => n = 0)
                   /\ key \in DOMAIN reqs /\ NoAbort => n = 1
CleanLaw == \A k \in DOMAIN stack : stack[k].fn.name = "cleanup" =>
               stack[k].fn.key \in DOMAIN reqs /\ stack[k].fn.len \in 0..Len(reqs[stack[k].fn.key])

CountInv == (\A g \in Globs : StepLaw(g)) /\ (\A key : KeyLaw(key)) /\ CleanLaw

-----------------------------------------------------------------------------
(***************************************************************************)
(* What the files and the patterns give are sequences.                     *)
(***************************************************************************)
LEMMA SetToSeqSeq == ASSUME NEW S, IsFiniteSet(S) PROVE IsSeq(SetToSeq(S))
<1>1. Cardinality(S) \in Nat /\ ExistsBijection(1..Cardinality(S), S)
  BY FS_CardinalityType
<1>2. PICK f : f \in Bijection(1..Cardinality(S), S)
  BY <1>1 DEF ExistsBijection
<1>3. f \in [1..Cardinality(S) -> S] /\ IsInjective(f)
  BY <1>2 DEF Bijection, Injection, IsInjective
<1>4. SetToSeq(S) \in [1..Cardinality(S) -> S]
  BY <1>3 DEF SetToSeq
<1>5. SetToSeq(S) \in Seq(S)
  BY <1>1, <1>4
<1>6. QED
  BY <1>5 DEF IsSeq

LEMMA AnswerSeq ==
    ASSUME NEW s \in Searches, NEW call \in {"lstat", "stat", "readdir"}, NEW p
    PROVE  IsSeq(answer(s.files, call, p).entries)
<1> DEFINE t == s.files
<1>1. ASSUME NEW q PROVE IsSeq(kindOf(t, q).entries)
  BY SeqNone DEF kindOf, Fails, Kind
<1>2. IsSeq(lstat(t, p).entries) /\ IsSeq(stat(t, p).entries)
  BY <1>1 DEF lstat, stat
<1>3. ASSUME NEW q PROVE IsSeq(SetToSeq(children(t, q)))
  <2> DEFINE D == {c \in DOMAIN t : c # <<>> /\ Front(c) = q}
             f == [c \in D |-> Last(c)]
             S == {Last(c) : c \in D}
  <2>1. IsFiniteSet(DOMAIN t)
    BY FilesAssumption
  <2>2. D \in SUBSET DOMAIN t
    OBVIOUS
  <2>3. IsFiniteSet(D)
    <3> HIDE DEF D
    <3>1. QED
      BY <2>1, <2>2, FS_Subset
  <2>4. f \in Surjection(D, S)
    BY DEF Surjection
  <2>5. IsFiniteSet(S)
    <3> HIDE DEF D, f, S
    <3>1. QED
      BY <2>3, <2>4, FS_Surjection
  <2>6. QED
    BY <2>5, SetToSeqSeq DEF children
<1>4. IsSeq(readdir(t, p).entries)
  BY <1>3, SeqNone DEF readdir, Fails, Entries
<1>5. QED
  BY <1>2, <1>4 DEF answer

LEMMA AlternativesSeq ==
    ASSUME NEW s \in Searches, NEW g \in DOMAIN s.options
    PROVE  IsSeq(setopts(s.options[g]).minimatch.set)
<1> DEFINE globs == braceExpand(s.options[g].pattern)
<1>1. globs \in Seq(STRING)
  BY PatternsAssumption
<1> HIDE DEF globs
<1>2. Len(globs) \in Nat /\ DOMAIN globs = 1..Len(globs)
  BY <1>1
<1>3. IsSeq(compile(globs).set)
  BY <1>2, SeqMade DEF compile
<1>4. setopts(s.options[g]).minimatch = compile(globs)
  BY DEF setopts, globs
<1>5. QED
  BY <1>3, <1>4

LEMMA EntriesSeq ==
    ASSUME NEW opt, NEW es, IsSeq(es)
    PROVE  IsSeq(visible(opt, es)) /\ \A part : IsSeq(matchedEntries(opt, part, es))
BY SeqOnly DEF visible, matchedEntries

LEMMA ReaddirSeq ==
    ASSUME NEW opt, NEW pattern, NEW inGlobStar, NEW es, IsSeq(es)
    PROVE  IsSeq(readdirWork(opt, pattern, inGlobStar, es)) /\ IsSeq(readdirMatches(opt, pattern, es))
<1>1. \A part : IsSeq(matchedEntries(opt, part, es))
  BY EntriesSeq
<1>2. \A part : /\ DOMAIN matchedEntries(opt, part, es) = 1..Len(matchedEntries(opt, part, es))
                /\ Len(matchedEntries(opt, part, es)) \in Nat
  BY <1>1, SeqDomain
<1>3. IsSeq(readdirWork(opt, pattern, inGlobStar, es))
  BY <1>2, SeqMade DEF readdirWork
<1>4. IsSeq(readdirMatches(opt, pattern, es))
  BY <1>2, SeqMade DEF readdirMatches
<1>5. QED
  BY <1>3, <1>4

LEMMA GlobStarSeq ==
    ASSUME NEW opt, NEW s, NEW pattern, NEW inGlobStar, NEW es, IsSeq(es)
    PROVE  IsSeq(globStarWork(opt, s, pattern, inGlobStar, es))
<1> DEFINE deep == below(s, makeAbs(read(prefix(pattern))), inGlobStar, visible(opt, es))
<1>1. IsSeq(deep)
  BY EntriesSeq, SeqNone DEF below
<1>2. Len(deep) \in Nat
  BY <1>1, SeqDomain
<1> HIDE DEF deep
<1>3. 2 * Len(deep) \in Nat
  BY <1>2
<1>4. QED
  <2> DEFINE pre == prefix(pattern)
             rest == Tail(remain(pattern))
             more == [k \in 1..2 * Len(deep) |->
                        IF k % 2 = 1
                        THEN <<Append(pre, Literal(deep[(k + 1) \div 2])) \o rest, TRUE>>
                        ELSE <<Append(pre, Literal(deep[k \div 2])) \o <<GLOBSTAR>> \o rest, TRUE>>]
  <2>1. IsSeq(more)
    BY <1>3, SeqMade
  <2>2. IsSeq(<< <<pre \o rest, FALSE>> >> \o more)
    <3> HIDE DEF more, pre, rest
    <3>1. QED
      BY <2>1, SeqOne, SeqCat
  <2>3. globStarWork(opt, s, pattern, inGlobStar, es) = << <<pre \o rest, FALSE>> >> \o more
    BY DEF globStarWork, deep
  <2>4. QED
    BY <2>2, <2>3

(***************************************************************************)
(* What the calls are.                                                     *)
(***************************************************************************)
LEMMA FramesTail ==
    ASSUME NEW s, NEW R, FramesOK(s, R), s # <<>>
    PROVE  FramesOK(Tail(s), R) /\ FrameOK(Head(s), R)
<1>1. /\ IsSeq(Tail(s)) /\ Len(s) > 0 /\ Len(Tail(s)) = Len(s) - 1 /\ Head(s) = s[1]
      /\ \A k \in 1..Len(s) - 1 : Tail(s)[k] = s[k + 1]
  BY SeqTail DEF FramesOK
<1>2. DOMAIN Tail(s) = 1..Len(s) - 1 /\ DOMAIN s = 1..Len(s) /\ Len(s) \in Nat
  BY <1>1, SeqDomain DEF FramesOK
<1>3. \A k \in DOMAIN Tail(s) : k + 1 \in DOMAIN s /\ Tail(s)[k] = s[k + 1]
  BY <1>1, <1>2
<1>4. 1 \in DOMAIN s
  BY <1>1, <1>2
<1>5. QED
  BY <1>1, <1>3, <1>4 DEF FramesOK

LEMMA FramesCat ==
    ASSUME NEW s, NEW t, NEW R, FramesOK(s, R), FramesOK(t, R)
    PROVE  FramesOK(s \o t, R)
<1>1. /\ IsSeq(s \o t) /\ Len(s \o t) = Len(s) + Len(t)
      /\ \A k \in 1..Len(s) : (s \o t)[k] = s[k]
      /\ \A k \in 1..Len(t) : (s \o t)[Len(s) + k] = t[k]
  BY SeqCat DEF FramesOK
<1>2. /\ Len(s) \in Nat /\ DOMAIN s = 1..Len(s) /\ Len(t) \in Nat /\ DOMAIN t = 1..Len(t)
      /\ DOMAIN (s \o t) = 1..(Len(s) + Len(t))
  BY <1>1, SeqDomain DEF FramesOK
<1>3. ASSUME NEW k \in DOMAIN (s \o t) PROVE FrameOK((s \o t)[k], R)
  <2>1. CASE k \in 1..Len(s)
    BY <1>1, <1>2, <2>1 DEF FramesOK
  <2>2. CASE k \notin 1..Len(s)
    <3>1. k - Len(s) \in DOMAIN t /\ k = Len(s) + (k - Len(s))
      BY <1>2, <2>2
    <3>2. (s \o t)[k] = t[k - Len(s)]
      BY <1>1, <1>2, <3>1
    <3>3. QED
      BY <3>1, <3>2 DEF FramesOK
  <2>3. QED
    BY <2>1, <2>2
<1>4. QED
  BY <1>1, <1>3 DEF FramesOK

LEMMA FramesFew ==
    ASSUME NEW R
    PROVE  /\ FramesOK(<<>>, R) /\ NoCleanup(<<>>)
           /\ \A c : FrameOK(c, R) => FramesOK(<<c>>, R)
           /\ \A c : c.fn.name # "cleanup" => NoCleanup(<<c>>)
BY SeqNone, SeqOne DEF FramesOK, NoCleanup

LEMMA FramesAppend ==
    ASSUME NEW s, NEW c, NEW R, FramesOK(s, R), FrameOK(c, R)
    PROVE  FramesOK(Append(s, c), R)
<1>1. /\ IsSeq(Append(s, c)) /\ Len(Append(s, c)) = Len(s) + 1
      /\ Append(s, c)[Len(s) + 1] = c
      /\ \A k \in 1..Len(s) : Append(s, c)[k] = s[k]
  BY SeqAppend DEF FramesOK
<1>2. Len(s) \in Nat /\ DOMAIN s = 1..Len(s) /\ DOMAIN Append(s, c) = 1..Len(s) + 1
  BY <1>1, SeqDomain DEF FramesOK
<1>3. \A k \in 1..Len(s) + 1 : k \in 1..Len(s) \/ k = Len(s) + 1
  BY <1>2
<1>4. QED
  BY <1>1, <1>2, <1>3 DEF FramesOK

LEMMA CleanAppend ==
    ASSUME NEW s, IsSeq(s), NEW c, NoCleanup(s), c.fn.name # "cleanup"
    PROVE  NoCleanup(Append(s, c))
<1>1. /\ IsSeq(Append(s, c)) /\ Len(Append(s, c)) = Len(s) + 1
      /\ Append(s, c)[Len(s) + 1] = c
      /\ \A k \in 1..Len(s) : Append(s, c)[k] = s[k]
  BY SeqAppend
<1>2. Len(s) \in Nat /\ DOMAIN s = 1..Len(s) /\ DOMAIN Append(s, c) = 1..Len(s) + 1
  BY <1>1, SeqDomain
<1>3. \A k \in 1..Len(s) + 1 : k \in 1..Len(s) \/ k = Len(s) + 1
  BY <1>2
<1>4. QED
  BY <1>1, <1>2, <1>3 DEF NoCleanup

LEMMA FnMore ==
    ASSUME NEW R, NEW Q, R \subseteq Q
    PROVE  /\ \A fn : FnOK(fn, R) => FnOK(fn, Q)
           /\ \A c : FrameOK(c, R) => FrameOK(c, Q)
           /\ \A s : FramesOK(s, R) => FramesOK(s, Q)
           /\ \A fn : WaitOK(fn, R) => WaitOK(fn, Q)
           /\ \A r : AskOK(r, R) => AskOK(r, Q)
<1>1. \A fn : FnOK(fn, R) => FnOK(fn, Q)
  BY DEF FnOK
<1>2. QED
  BY <1>1 DEF FrameOK, FramesOK, WaitOK, AskOK

\* The calls that the code makes.
LEMMA CallsOK ==
    ASSUME NEW R, NEW g \in R
    PROVE  /\ FrameOK(Done(g), R) /\ Done(g).fn.name = "done"
           /\ \A e, index : FrameOK(EmitMatch(g, index, e), R) /\ EmitMatch(g, index, e).fn.name = "_emitMatch"
           /\ \A p, index, b : FrameOK(Process(g, p, index, b), R) /\ Process(g, p, index, b).fn.name = "_process"
           /\ FrameOK(Call([name |-> "match", g |-> g]), R)
           /\ \A f, index : FrameOK(Call([name |-> "_stat", g |-> g, f |-> f, index |-> index]), R)
<1>1. IsSeq(Nothing.entries)
  BY SeqNone DEF Nothing, Kind
<1>2. QED
  BY <1>1 DEF FrameOK, FnOK, Done, EmitMatch, Process, Call, Own

LEMMA ProcessOK ==
    ASSUME NEW R, NEW g \in R, NEW p, NEW index, NEW b
    PROVE  FrameOK(Process(g, p, index, b), R) /\ Process(g, p, index, b).fn.name = "_process"
BY CallsOK

LEMMA EmitMatchOK ==
    ASSUME NEW R, NEW g \in R, NEW index, NEW e
    PROVE  FrameOK(EmitMatch(g, index, e), R) /\ EmitMatch(g, index, e).fn.name = "_emitMatch"
BY CallsOK

LEMMA ReaddirOK ==
    ASSUME NEW R, NEW g \in R, NEW abs, NEW b, NEW cb,
           (cb.name = "RES" /\ cb = RES(cb.key))
             \/ (cb.name \in {"_processReaddir2", "_processGlobStar2"} /\ cb.g = g)
    PROVE  FrameOK(Readdir(g, abs, b, cb), R)
<1>1. IsSeq(Nothing.entries)
  BY SeqNone DEF Nothing, Kind
<1>2. QED
  BY <1>1 DEF FrameOK, FnOK, Readdir, Call, Own

LEMMA AnswerOK ==
    ASSUME NEW R, NEW fn, FnOK(fn, R)
    PROVE  /\ FrameOK(Call(fn), R)
           /\ \A a : IsSeq(a.entries) => FrameOK(Answer(fn, a), R)
BY SeqNone DEF FrameOK, Call, Answer, Nothing, Kind

(***************************************************************************)
(* What becomes of the fields.                                             *)
(***************************************************************************)
SameCount(s, t) == /\ t._processing = s._processing /\ t._processQueue = s._processQueue
                   /\ t.aborted = s.aborted /\ t.paused = s.paused /\ t.minimatch = s.minimatch

LEMMA CountOK ==
    ASSUME NEW g, NEW s, FieldsOK(g, s), NEW n \in Int
    PROVE  /\ FieldsOK(g, [s EXCEPT !._processing = n])
           /\ [s EXCEPT !._processing = n]._processing = n
           /\ [s EXCEPT !._processing = n]._processQueue = s._processQueue
           /\ [s EXCEPT !._processing = n].aborted = s.aborted
           /\ [s EXCEPT !._processing = n].paused = s.paused
           /\ [s EXCEPT !._processing = n].minimatch = s.minimatch
BY DEF FieldsOK, Fields

LEMMA AsideOK ==
    ASSUME NEW g, NEW s, FieldsOK(g, s), NEW n \in Int, NEW q, Again(q, g),
           NEW t, t = [s EXCEPT !._processing = n, !._processQueue = q]
    PROVE  /\ FieldsOK(g, t) /\ t._processing = n /\ t._processQueue = q
           /\ t.aborted = s.aborted /\ t.paused = s.paused /\ t.minimatch = s.minimatch
BY DEF FieldsOK, Fields

LEMMA EmitOK ==
    ASSUME NEW g, NEW s, FieldsOK(g, s), NEW q, IsSeq(q)
    PROVE  LET t == [s EXCEPT !._emitQueue = q]
           IN  /\ FieldsOK(g, t) /\ SameCount(s, t)
BY DEF FieldsOK, Fields, SameCount

LEMMA AddOK ==
    ASSUME NEW g, NEW s, FieldsOK(g, s), NEW k, NEW paths
    PROVE  LET t == add(s, k, paths)
           IN  /\ FieldsOK(g, t) /\ SameCount(s, t)
BY DEF FieldsOK, Fields, SameCount, add

LEMMA PutKnown ==
    ASSUME NEW f, NEW p, NEW v, Known(f), IsSeq(v.entries)
    PROVE  Known(put(f, p, v))
BY DEF Known, put

LEMMA CacheOK ==
    ASSUME NEW g, NEW s, FieldsOK(g, s), NEW f, Known(f)
    PROVE  LET t == [s EXCEPT !.cache = f]
           IN  /\ FieldsOK(g, t) /\ SameCount(s, t) /\ t.cache = f /\ t.matches = s.matches
BY DEF FieldsOK, Fields, SameCount

LEMMA StatCacheOK ==
    ASSUME NEW g, NEW s, FieldsOK(g, s), NEW f, Known(f)
    PROVE  LET t == [s EXCEPT !.statCache = f]
           IN  /\ FieldsOK(g, t) /\ SameCount(s, t) /\ t.matches = s.matches
BY DEF FieldsOK, Fields, SameCount

LEMMA StatCachesOK ==
    ASSUME NEW g, NEW s, FieldsOK(g, s), NEW f, Known(f), NEW h, Known(h)
    PROVE  LET t == [s EXCEPT !.statCache = f, !.cache = h]
           IN  /\ FieldsOK(g, t) /\ SameCount(s, t) /\ t.matches = s.matches
BY DEF FieldsOK, Fields, SameCount

LEMMA LinkOK ==
    ASSUME NEW g, NEW s, FieldsOK(g, s), NEW p, NEW b \in BOOLEAN
    PROVE  LET t == [s EXCEPT !.symlinks = put(@, p, b)]
           IN  /\ FieldsOK(g, t) /\ SameCount(s, t) /\ t.matches = s.matches /\ t.cache = s.cache
BY DEF FieldsOK, Fields, SameCount, put

LEMMA AbortOK ==
    ASSUME NEW g, NEW s, FieldsOK(g, s), NEW b \in BOOLEAN
    PROVE  LET t == [s EXCEPT !.aborted = b]
           IN  /\ FieldsOK(g, t) /\ t._processing = s._processing /\ t._processQueue = s._processQueue
               /\ t.aborted = b /\ t.paused = s.paused /\ t.minimatch = s.minimatch
               /\ t.matches = s.matches
BY DEF FieldsOK, Fields

\* What is remembered of the answers of readdir.
LEMMA EntriesOK ==
    ASSUME NEW g, NEW s, FieldsOK(g, s), NEW abs, NEW es, IsSeq(es)
    PROVE  LET t == _readdirEntries(s, abs, es)
           IN  /\ FieldsOK(g, t) /\ SameCount(s, t) /\ t.matches = s.matches
<1> DEFINE known == {Append(abs, es[k]) : k \in DOMAIN es}
           f == [q \in DOMAIN s.cache \cup known \cup {abs} |->
                   IF q = abs THEN Entries(es)
                   ELSE IF q \in known THEN Kind("true") ELSE s.cache[q]]
<1>1. IsSeq(Entries(es).entries) /\ IsSeq(Kind("true").entries)
  BY SeqNone DEF Entries, Kind
<1>2. Known(f)
  <2> HIDE DEF known
  <2>1. QED
    BY <1>1 DEF Known, FieldsOK
<1>3. "cache" \in DOMAIN s
  BY DEF FieldsOK, Fields
<1>4. _readdirEntries(s, abs, es) = [s EXCEPT !.cache = f]
  BY <1>3 DEF _readdirEntries
<1>5. QED
  <2> HIDE DEF f
  <2>1. QED
    BY <1>2, <1>4, CacheOK

LEMMA ErrorOK ==
    ASSUME NEW g, NEW s, FieldsOK(g, s), NEW abs, NEW er
    PROVE  LET t == _readdirError(s, abs, er)
           IN  /\ FieldsOK(g, t) /\ SameCount(s, t) /\ t.matches = s.matches
<1> DEFINE v == Kind(IF er = "ENOTDIR" THEN "FILE" ELSE "false")
           f == put(s.cache, abs, v)
<1>1. IsSeq(v.entries)
  BY SeqNone DEF Kind
<1>2. Known(f)
  <2> HIDE DEF v
  <2>1. QED
    BY <1>1, PutKnown DEF FieldsOK
<1>3. "cache" \in DOMAIN s
  BY DEF FieldsOK, Fields
<1>4. _readdirError(s, abs, er) = [s EXCEPT !.cache = f]
  BY <1>3 DEF _readdirError
<1>5. QED
  <2> HIDE DEF f
  <2>1. QED
    BY <1>2, <1>4, CacheOK

-----------------------------------------------------------------------------
(***************************************************************************)
(* What the actions have in common.                                        *)
(***************************************************************************)
LEMMA Acting ==
    ASSUME TypeInv, stack # <<>>
    PROVE  /\ IsSeq(stack) /\ FnOK(Fn, Running) /\ IsSeq(Ans.entries)
           /\ Fn.name \in Own => /\ Fn.g \in Running /\ Fn.g \in Globs /\ FieldsOK(Fn.g, Me)
                                 /\ SeenOK(out[Fn.g]) /\ out[Fn.g].started
<1>1. FramesOK(stack, Running)
  BY DEF TypeInv, StackInv
<1>2. FrameOK(Head(stack), Running) /\ IsSeq(stack)
  BY <1>1, FramesTail DEF FramesOK
<1>3. FnOK(Fn, Running) /\ IsSeq(Ans.entries)
  BY <1>2 DEF FrameOK, Fn, Ans
<1>4. Fn.name \in Own => Fn.g \in Running
  BY <1>3 DEF FnOK
<1>5. Fn.g \in Running => Fn.g \in Globs /\ out[Fn.g].started
  BY DEF Running
<1>6. Fn.g \in Globs => FieldsOK(Fn.g, Me) /\ SeenOK(out[Fn.g])
  BY DEF TypeInv, SelfInv, Me
<1>7. QED
  BY <1>2, <1>3, <1>4, <1>5, <1>6

LEMMA Returned ==
    ASSUME TypeInv, stack # <<>>, Fn.name # "cleanup", Running' = Running,
           NEW calls, FramesOK(calls, Running), NoCleanup(calls), Return(calls)
    PROVE  /\ StackInv'
           /\ \A x : InCalls(stack', x) = InCalls(calls, x) + InCalls(stack, x) - Owes(Fn, x)
           /\ \A q, x : InReqs(stack', q, x) = InReqs(stack, q, x)
           /\ \A k \in DOMAIN stack' : stack'[k].fn.name = "cleanup" =>
                 \E j \in DOMAIN stack : stack[j] = stack'[k]
<1>1. FramesOK(stack, Running) /\ IsSeq(stack) /\ IsSeq(calls)
  BY DEF TypeInv, StackInv, FramesOK
<1>2. stack' = calls \o Tail(stack)
  BY DEF Return
<1>3. FramesOK(Tail(stack), Running)
  BY <1>1, FramesTail
<1>4. FramesOK(stack', Running)
  BY <1>2, <1>3, FramesCat
<1>5. \A x : InCalls(stack', x) = InCalls(calls, x) + InCalls(stack, x) - Owes(Fn, x)
  BY <1>1, <1>2, InReturn DEF Fn
<1>6. \A q, x : InReqs(stack', q, x) = InReqs(stack, q, x)
  BY <1>1, <1>2, InReqsReturn DEF Fn
<1>7. ASSUME NEW k \in DOMAIN stack', stack'[k].fn.name = "cleanup"
      PROVE  \E j \in DOMAIN stack : stack[j] = stack'[k]
  <2>1. /\ IsSeq(Tail(stack)) /\ Len(stack) > 0 /\ Len(Tail(stack)) = Len(stack) - 1
        /\ \A j \in 1..Len(stack) - 1 : Tail(stack)[j] = stack[j + 1]
    BY <1>1, SeqTail
  <2>2. /\ IsSeq(stack') /\ Len(stack') = Len(calls) + Len(Tail(stack))
        /\ \A j \in 1..Len(calls) : stack'[j] = calls[j]
        /\ \A j \in 1..Len(Tail(stack)) : stack'[Len(calls) + j] = Tail(stack)[j]
    BY <1>1, <1>2, <2>1, SeqCat
  <2>3. /\ DOMAIN stack' = 1..Len(stack') /\ DOMAIN stack = 1..Len(stack) /\ DOMAIN calls = 1..Len(calls)
        /\ Len(stack) \in Nat /\ Len(calls) \in Nat
    BY <1>1, <2>2, SeqDomain
  <2>4. k \notin 1..Len(calls)
    BY <1>7, <2>2, <2>3 DEF NoCleanup
  <2>5. k - Len(calls) \in 1..Len(stack) - 1 /\ k = Len(calls) + (k - Len(calls))
    BY <2>1, <2>2, <2>3, <2>4
  <2>6. stack'[k] = stack[(k - Len(calls)) + 1]
    BY <2>1, <2>2, <2>5
  <2>7. (k - Len(calls)) + 1 \in DOMAIN stack
    BY <2>3, <2>5
  <2>8. QED
    BY <2>6, <2>7
<1>8. StackInv'
  BY <1>4 DEF StackInv
<1>9. QED
  BY <1>5, <1>6, <1>7, <1>8

LEMMA Numbers ==
    ASSUME TypeInv
    PROVE  \A x : /\ InCalls(stack, x) \in Nat /\ InReqs(stack, reqs, x) \in Nat
                  /\ InBag(pending, x) \in Nat /\ InCalls(ticks, x) \in Nat /\ Owing(x) \in Nat
<1>1. IsSeq(stack) /\ IsSeq(ticks) /\ IsReqs(reqs) /\ IsBag(pending)
  BY DEF TypeInv, StackInv, TicksInv, ReqsInv, PendingInv, FramesOK
<1>2. QED
  BY <1>1, DebtorsFinite, WaitersFinite, CalleesFinite DEF Owing, Num

LEMMA Tokens ==
    /\ \A g, key : Step(g) # Asked(key)
    /\ \A g, h : Step(g) = Step(h) => g = h
    /\ \A k, l : Asked(k) = Asked(l) => k = l
BY DEF Step, Asked

\* A step of a search begins or ends.
LEMMA StepLaws ==
    ASSUME TypeInv, \A h \in Globs : StepLaw(h), \A key : KeyLaw(key),
           NEW g \in Globs, NEW n \in Int,
           \A x : Owing(x)' = Owing(x) + IF x = Step(g) THEN n ELSE 0,
           Globs' = Globs, DOMAIN reqs' = DOMAIN reqs,
           \A h \in Globs : /\ h # g => self'[h] = self[h]
                            /\ Extra(h)' = Extra(h),
           self[g].aborted => self'[g].aborted,
           self'[g]._processing \in Int,
           Len(self'[g]._processQueue) \in Nat,
           self'[g]._processing - Len(self'[g]._processQueue)
              >= self[g]._processing - Len(self[g]._processQueue) + n,
           ~self'[g].aborted => self'[g]._processing - Len(self'[g]._processQueue)
                                  = self[g]._processing - Len(self[g]._processQueue) + n
    PROVE  (\A h \in Globs : StepLaw(h))' /\ (\A key : KeyLaw(key))'
<1>1. \A x : Owing(x) \in Nat
  BY Numbers
<1>2. \A h \in Globs : /\ self[h]._processing \in Int /\ Len(self[h]._processQueue) \in Nat
                       /\ Extra(h) \in Int
  BY SeqDomain DEF TypeInv, SelfInv, FieldsOK, Again, Extra
<1>3. ASSUME NEW h \in Globs PROVE StepLaw(h)'
  <2>1. CASE h = g
    <3>1. StepLaw(g) /\ Owing(Step(g))' = Owing(Step(g)) + n /\ Extra(g)' = Extra(g)
      OBVIOUS
    <3>2. Owing(Step(g)) \in Nat
      BY <1>1
    <3> DEFINE a == self[g]._processing
               b == self'[g]._processing
               c == Len(self[g]._processQueue)
               d == Len(self'[g]._processQueue)
               e == Extra(g)
               m == Owing(Step(g))
    <3>3. a \in Int /\ b \in Int /\ c \in Nat /\ d \in Nat /\ e \in Int /\ m \in Nat
      BY <1>2, <3>2
    <3>4. a >= m + c - e /\ (~self[g].aborted => a = m + c - e)
      BY <3>1 DEF StepLaw
    <3>5. b - d >= a - c + n /\ (~self'[g].aborted => b - d = a - c + n)
      OBVIOUS
    <3>6. ~self'[g].aborted => ~self[g].aborted
      OBVIOUS
    <3> HIDE DEF a, b, c, d, e, m
    <3>7. b >= (m + n) + d - e
      BY <3>3, <3>4, <3>5
    <3>8. ASSUME ~self'[g].aborted PROVE b = (m + n) + d - e
      <4>1. b - d = a - c + n /\ a = m + c - e
        BY <3>4, <3>5, <3>6, <3>8
      <4>2. QED
        BY <3>3, <4>1
    <3>9. QED
      BY <2>1, <3>1, <3>7, <3>8 DEF StepLaw, a, b, c, d, e, m
  <2>2. CASE h # g
    <3>1. Owing(Step(h))' = Owing(Step(h))
      BY <1>1, <2>2, Tokens
    <3>2. StepLaw(h) /\ self'[h] = self[h] /\ Extra(h)' = Extra(h)
      BY <2>2
    <3>3. QED
      BY <3>1, <3>2 DEF StepLaw
  <2>3. QED
    BY <2>1, <2>2
<1>4. NoAbort' => NoAbort
  BY DEF NoAbort
<1>5. ASSUME NEW key PROVE KeyLaw(key)'
  <2>1. Owing(Asked(key))' = Owing(Asked(key))
    BY <1>1, Tokens
  <2>2. KeyLaw(key)
    OBVIOUS
  <2>3. QED
    BY <1>4, <2>1, <2>2 DEF KeyLaw
<1>6. QED
  BY <1>3, <1>5

\* A request begins or ends, or its answer is lost.
LEMMA KeyLaws ==
    ASSUME TypeInv, \A h \in Globs : StepLaw(h), \A k : KeyLaw(k),
           NEW key, NEW n \in Int, Owing(Asked(key)) + n \in Nat,
           \A x : Owing(x)' = Owing(x) + IF x = Asked(key) THEN n ELSE 0,
           Globs' = Globs,
           \A h \in Globs : /\ SameCount(self[h], self'[h]) /\ Extra(h)' = Extra(h),
           \/ n = 0 /\ DOMAIN reqs' = DOMAIN reqs
           \/ n = 1 /\ key \notin DOMAIN reqs /\ DOMAIN reqs' = DOMAIN reqs \cup {key}
           \/ n = -1 /\ key \in DOMAIN reqs /\ DOMAIN reqs' = DOMAIN reqs \ {key}
           \/ n = -1 /\ ~NoAbort /\ DOMAIN reqs' = DOMAIN reqs
    PROVE  (\A h \in Globs : StepLaw(h))' /\ (\A k : KeyLaw(k))'
<1>1. \A x : Owing(x) \in Nat
  BY Numbers
<1>2. ASSUME NEW h \in Globs PROVE StepLaw(h)'
  <2>1. Owing(Step(h))' = Owing(Step(h))
    BY <1>1, Tokens
  <2>2. StepLaw(h) /\ SameCount(self[h], self'[h]) /\ Extra(h)' = Extra(h)
    OBVIOUS
  <2>3. QED
    BY <2>1, <2>2 DEF StepLaw, SameCount
<1>3. NoAbort' <=> NoAbort
  BY DEF NoAbort, SameCount
<1>4. ASSUME NEW k PROVE KeyLaw(k)'
  <2>1. KeyLaw(k)
    OBVIOUS
  <2>2. CASE k = key
    <3>1. Owing(Asked(key))' = Owing(Asked(key)) + n /\ Owing(Asked(key)) \in Nat /\ KeyLaw(key)
      BY <1>1
    <3> DEFINE m == Owing(Asked(key))
    <3>2. /\ m <= 1 /\ (key \notin DOMAIN reqs => m = 0)
          /\ key \in DOMAIN reqs /\ NoAbort => m = 1
      BY <3>1 DEF KeyLaw
    <3>3. m \in Nat /\ m + n \in Nat /\ Owing(Asked(key))' = m + n
      BY <3>1
    <3> HIDE DEF m
    <3>4. /\ m + n <= 1 /\ (key \notin DOMAIN reqs' => m + n = 0)
          /\ key \in DOMAIN reqs' /\ NoAbort => m + n = 1
      <4>1. CASE n = 0 /\ DOMAIN reqs' = DOMAIN reqs
        BY <3>2, <3>3, <4>1
      <4>2. CASE n = 1 /\ key \notin DOMAIN reqs /\ DOMAIN reqs' = DOMAIN reqs \cup {key}
        BY <3>2, <3>3, <4>2
      <4>3. CASE n = -1 /\ key \in DOMAIN reqs /\ DOMAIN reqs' = DOMAIN reqs \ {key}
        BY <3>2, <3>3, <4>3
      <4>4. CASE n = -1 /\ ~NoAbort /\ DOMAIN reqs' = DOMAIN reqs
        BY <3>2, <3>3, <4>4
      <4>5. QED
        BY <4>1, <4>2, <4>3, <4>4
    <3>5. QED
      BY <1>3, <2>2, <3>3, <3>4 DEF KeyLaw
  <2>3. CASE k # key
    <3>1. Owing(Asked(k))' = Owing(Asked(k))
      BY <1>1, <2>3, Tokens
    <3>2. k \in DOMAIN reqs' <=> k \in DOMAIN reqs
      BY <2>3
    <3>3. QED
      BY <1>3, <2>1, <3>1, <3>2 DEF KeyLaw
  <2>4. QED
    BY <2>2, <2>3
<1>5. QED
  BY <1>2, <1>4

LEMMA SearchesSame ==
    ASSUME TypeInv, search' = search, DOMAIN self' = Globs, DOMAIN out' = Globs,
           \A h \in Globs : /\ FieldsOK(h, self'[h]) /\ SeenOK(out'[h])
                            /\ self'[h].aborted \/ self'[h].paused => out'[h].started
                            /\ out'[h].started = out[h].started
    PROVE  /\ SelfInv' /\ Globs' = Globs /\ Running' = Running
           /\ \A h \in Globs : Extra(h)' = Extra(h)
<1>1. Globs' = Globs /\ \A h : o(h)' = o(h)
  BY DEF Globs, o
<1>2. Running' = Running
  BY <1>1 DEF Running
<1>3. ASSUME NEW h \in Globs PROVE FieldsOK(h, self[h])'
  BY <1>1 DEF FieldsOK
<1>4. ASSUME NEW h \in Globs PROVE Extra(h)' = Extra(h)
  BY DEF Extra, TypeInv, SelfInv, FieldsOK
<1>5. SelfInv'
  <2>1. search' \in Searches
    BY DEF TypeInv, SelfInv
  <2>2. \A h \in Globs : SeenOK(out[h])'
    BY DEF SeenOK
  <2>3. QED
    BY <1>1, <1>3, <2>1, <2>2 DEF SelfInv
<1>6. QED
  BY <1>1, <1>2, <1>4, <1>5

LEMMA Unmoved ==
    ASSUME TypeInv, Running' = Running
    PROVE  /\ ticks' = ticks => TicksInv'
           /\ reqs' = reqs => ReqsInv'
           /\ pending' = pending => PendingInv'
BY DEF TypeInv, TicksInv, ReqsInv, PendingInv

LEMMA CleanKept ==
    ASSUME TypeInv, CleanLaw,
           \A k \in DOMAIN stack' : stack'[k].fn.name = "cleanup" =>
                 \E j \in DOMAIN stack : stack[j] = stack'[k],
           IsReqs(reqs'), DOMAIN reqs \subseteq DOMAIN reqs',
           \A key \in DOMAIN reqs : Len(reqs'[key]) >= Len(reqs[key])
    PROVE  CleanLaw'
<1>1. ASSUME NEW k \in DOMAIN stack', stack'[k].fn.name = "cleanup"
      PROVE  /\ stack'[k].fn.key \in DOMAIN reqs'
             /\ stack'[k].fn.len \in 0..Len(reqs'[stack'[k].fn.key])
  <2>1. PICK j \in DOMAIN stack : stack[j] = stack'[k]
    BY <1>1
  <2>2. stack[j].fn.key \in DOMAIN reqs /\ stack[j].fn.len \in 0..Len(reqs[stack[j].fn.key])
    BY <1>1, <2>1 DEF CleanLaw
  <2> DEFINE key == stack[j].fn.key
  <2>3. Len(reqs[key]) \in Nat /\ Len(reqs'[key]) \in Nat /\ Len(reqs'[key]) >= Len(reqs[key])
    BY <2>2, SeqDomain DEF TypeInv, ReqsInv, IsReqs
  <2>4. QED
    BY <2>1, <2>2, <2>3
<1>2. QED
  BY <1>1 DEF CleanLaw

\* The fields of the search on top become s, and callers see no less.
Becomes(s) == /\ DOMAIN self' = Globs /\ self'[Fn.g] = s
              /\ \A h \in Globs : h # Fn.g => self'[h] = self[h]
Seeing == DOMAIN out' = Globs /\ \A h \in Globs : SeenOK(out'[h]) /\ out'[h].started = out[h].started

LEMMA Becoming ==
    ASSUME TypeInv, Fn.g \in Globs
    PROVE  /\ \A s : Set(s) => Becomes(s)
           /\ UNCHANGED self => Becomes(Me)
           /\ UNCHANGED out => Seeing
BY DEF TypeInv, SelfInv, Set, Becomes, Me, Seeing

\* Who owes what.
LEMMA OwesWhat ==
    ASSUME NEW fn, NEW x
    PROVE  /\ Owes(fn, x) \in {0, 1}
           /\ fn.name \in {"_processReaddir2", "_processGlobStar2", "_processSimple2", "_stat",
                           "statcb", "targetcb", "uncount", "done"}
                => Owes(fn, x) = IF x = Step(fn.g) THEN 1 ELSE 0
           /\ fn.name \in {"RES", "cleanup"} => Owes(fn, x) = IF x = Asked(fn.key) THEN 1 ELSE 0
           /\ fn.name \in {"_readdirInGlobStar", "lstatcb", "readdirCb"}
                => Owes(fn, x) = IF x = Asked(fn.cb.key) THEN 1 ELSE 0
           /\ fn.name = "_readdir" /\ fn.cb.name = "RES"
                => Owes(fn, x) = IF x = Asked(fn.cb.key) THEN 1 ELSE 0
           /\ fn.name = "_readdir" /\ fn.cb.name # "RES"
                => Owes(fn, x) = IF x = Step(fn.g) THEN 1 ELSE 0
           /\ fn.name \in {"_process", "_emitMatch", "match"} => Owes(fn, x) = 0
BY DEF Owes, Debts

\* A call that asks nothing of anybody.
LEMMA QuietStep ==
    ASSUME TypeInv, CountInv, stack # <<>>, Fn.name \in Own,
           NEW calls, FramesOK(calls, Running), NoCleanup(calls), Return(calls),
           search' = search, reqs' = reqs, pending' = pending, ticks' = ticks,
           draining' = draining,
           NEW s, FieldsOK(Fn.g, s), Becomes(s), Seeing,
           Me.aborted => s.aborted, s.paused => Me.paused,
           NEW n \in Int,
           \A x : InCalls(calls, x) = Owes(Fn, x) + IF x = Step(Fn.g) THEN n ELSE 0,
           s._processing - Len(s._processQueue) >= Me._processing - Len(Me._processQueue) + n,
           ~s.aborted => s._processing - Len(s._processQueue)
                            = Me._processing - Len(Me._processQueue) + n
    PROVE  TypeInv' /\ CountInv'
<1> DEFINE g == Fn.g
<1>1. g \in Globs /\ FieldsOK(g, Me) /\ out[g].started /\ IsSeq(stack) /\ Fn.name # "cleanup"
  BY Acting DEF Own
<1>2. DOMAIN self = Globs
  BY DEF TypeInv, SelfInv
<1>3. self'[g] = s /\ DOMAIN self' = Globs /\ \A h \in Globs : h # g => self'[h] = self[h]
  BY DEF Becomes
<1> HIDE DEF g
<1>4. ASSUME NEW h \in Globs
      PROVE  FieldsOK(h, self'[h]) /\ (self'[h].aborted \/ self'[h].paused => out'[h].started)
  <2>1. CASE h = g
    BY <1>1, <1>3, <2>1 DEF g, Seeing
  <2>2. CASE h # g
    BY <1>3, <2>2 DEF TypeInv, SelfInv, Seeing
  <2>3. QED
    BY <2>1, <2>2
<1>5. SelfInv' /\ Globs' = Globs /\ Running' = Running /\ \A h \in Globs : Extra(h)' = Extra(h)
  BY <1>3, <1>4, SearchesSame DEF Seeing
<1>6. /\ StackInv'
      /\ \A x : InCalls(stack', x) = InCalls(calls, x) + InCalls(stack, x) - Owes(Fn, x)
      /\ \A q, x : InReqs(stack', q, x) = InReqs(stack, q, x)
      /\ \A k \in DOMAIN stack' : stack'[k].fn.name = "cleanup" =>
            \E j \in DOMAIN stack : stack[j] = stack'[k]
  BY <1>1, <1>5, Returned
<1>7. TicksInv' /\ ReqsInv' /\ PendingInv'
  BY <1>5, Unmoved
<1>8. TypeInv'
  BY <1>5, <1>6, <1>7 DEF TypeInv
<1>9. ASSUME NEW x PROVE Owing(x)' = Owing(x) + IF x = Step(g) THEN n ELSE 0
  <2>1. InCalls(stack', x) = InCalls(stack, x) + IF x = Step(g) THEN n ELSE 0
    <3>1. InCalls(stack', x) = InCalls(calls, x) + InCalls(stack, x) - Owes(Fn, x)
      BY <1>6
    <3>2. InCalls(calls, x) = Owes(Fn, x) + IF x = Step(g) THEN n ELSE 0
      BY DEF g
    <3>3. InCalls(stack, x) \in Nat /\ Owes(Fn, x) \in Nat
      BY Numbers DEF Owes
    <3>4. QED
      BY <3>1, <3>2, <3>3
  <2>2. Owing(x)' = InCalls(stack', x) + InReqs(stack, reqs, x) + InBag(pending, x) + InCalls(ticks, x)
    BY <1>6 DEF Owing, Num
  <2>3. QED
    BY <2>1, <2>2, Numbers DEF Owing, Num
<1>10. (\A h \in Globs : StepLaw(h))' /\ (\A key : KeyLaw(key))'
  <2>1. /\ self'[g]._processing \in Int /\ Len(self'[g]._processQueue) \in Nat
        /\ self[g].aborted => self'[g].aborted
    BY <1>3, <1>4, <1>1, SeqDomain DEF FieldsOK, Again, Me, g
  <2>2. /\ self'[g]._processing - Len(self'[g]._processQueue)
              >= self[g]._processing - Len(self[g]._processQueue) + n
        /\ ~self'[g].aborted => self'[g]._processing - Len(self'[g]._processQueue)
                                  = self[g]._processing - Len(self[g]._processQueue) + n
    BY <1>3 DEF Me, g
  <2>3. /\ \A h \in Globs : StepLaw(h)
        /\ \A key : KeyLaw(key)
    BY DEF CountInv
  <2>4. \A h \in Globs : (h # g => self'[h] = self[h]) /\ Extra(h)' = Extra(h)
    BY <1>3, <1>5
  <2>5. QED
    BY <1>1, <1>5, <1>9, <2>1, <2>2, <2>3, <2>4, StepLaws
<1>11. CleanLaw'
  BY <1>6, CleanKept DEF CountInv, TypeInv, ReqsInv
<1>12. QED
  BY <1>8, <1>10, <1>11 DEF CountInv

\* The fields stay as they are.
LEMMA Resting ==
    ASSUME TypeInv, search' = search, self' = self, out' = out
    PROVE  /\ SelfInv' /\ Globs' = Globs /\ Running' = Running
           /\ \A h \in Globs : Extra(h)' = Extra(h) /\ SameCount(self[h], self'[h])
<1>1. \A h \in Globs : Extra(h)' = Extra(h)
  BY DEF Extra
<1>2. \A h \in Globs : SameCount(self[h], self'[h])
  BY DEF SameCount
<1>3. Globs' = Globs /\ Running' = Running
  BY DEF Globs, Running
<1>4. SelfInv'
  BY DEF TypeInv, SelfInv, FieldsOK, SeenOK, Globs, o
<1>5. QED
  BY <1>1, <1>2, <1>3, <1>4

\* The last callback of a request that was answered so far.
LEMMA NotAnswered ==
    ASSUME TypeInv, CleanLaw, NEW key, NEW n, n = (IF key \in DOMAIN reqs THEN Len(reqs[key]) + 1 ELSE 1)
    PROVE  ~Answered(stack, <<key, n>>)
<1>1. SUFFICES ASSUME Answered(stack, <<key, n>>) PROVE FALSE
  OBVIOUS
<1>2. <<key, n>>[1] = key /\ <<key, n>>[2] = n
  OBVIOUS
<1>3. PICK k \in DOMAIN stack : /\ stack[k].fn.name = "cleanup" /\ stack[k].fn.key = key
                                /\ n <= stack[k].fn.len
  BY <1>1, <1>2 DEF Answered
<1>4. key \in DOMAIN reqs /\ stack[k].fn.len \in 0..Len(reqs[key])
  BY <1>3 DEF CleanLaw
<1>5. Len(reqs[key]) \in Nat
  BY <1>4, SeqDomain DEF TypeInv, ReqsInv, IsReqs
<1>6. QED
  BY <1>3, <1>4, <1>5

\* A call that waits for a request, of its own or of another's.
LEMMA AskStep ==
    ASSUME TypeInv, CountInv, stack # <<>>, Fn.name \in Own,
           NEW calls, FramesOK(calls, Running), NoCleanup(calls), Return(calls),
           search' = search, self' = self, out' = out, ticks' = ticks, draining' = draining,
           NEW key, NEW cb, WaitOK(cb, Running), inflight(key, cb),
           IsBag(pending'), \A r \in DOMAIN pending' : AskOK(r, Running),
           \A x : Owes(cb, x) = Owes(Fn, x),
           \A x : InCalls(calls, x) + InBag(pending', x)
                    = InBag(pending, x) + IF x = Asked(key) /\ key \notin DOMAIN reqs THEN 1 ELSE 0
    PROVE  TypeInv' /\ CountInv'
<1>1. IsSeq(stack) /\ Fn.name # "cleanup"
  BY Acting DEF Own
<1>2. /\ SelfInv' /\ Globs' = Globs /\ Running' = Running
      /\ \A h \in Globs : Extra(h)' = Extra(h) /\ SameCount(self[h], self'[h])
  BY Resting
<1>3. /\ StackInv'
      /\ \A x : InCalls(stack', x) = InCalls(calls, x) + InCalls(stack, x) - Owes(Fn, x)
      /\ \A q, x : InReqs(stack', q, x) = InReqs(stack, q, x)
      /\ \A k \in DOMAIN stack' : stack'[k].fn.name = "cleanup" =>
            \E j \in DOMAIN stack : stack[j] = stack'[k]
  BY <1>1, <1>2, Returned
<1>4. TicksInv' /\ PendingInv'
  BY <1>2, Unmoved DEF PendingInv
<1> DEFINE p == put(reqs, key, IF key \in DOMAIN reqs THEN Append(reqs[key], cb) ELSE <<cb>>)
<1>5. reqs' = p
  BY DEF inflight
<1>6. /\ IsReqs(p) /\ DOMAIN p = DOMAIN reqs \cup {key}
      /\ \A w \in Places(p) : \/ w \in Places(reqs) /\ p[w[1]][w[2]] = reqs[w[1]][w[2]]
                              \/ p[w[1]][w[2]] = cb
      /\ \A x : InReqs(stack, p, x) = InReqs(stack, reqs, x) + Owes(cb, x)
      /\ \A k \in DOMAIN reqs : Len(p[k]) >= Len(reqs[k])
  <2>1. IsReqs(reqs)
    BY DEF TypeInv, ReqsInv
  <2>2. \A n : n = (IF key \in DOMAIN reqs THEN Len(reqs[key]) + 1 ELSE 1)
                  => ~Answered(stack, <<key, n>>)
    BY NotAnswered DEF CountInv
  <2>3. QED
    BY <2>1, <2>2, InReqsPut
<1> HIDE DEF p
<1>7. ReqsInv'
  BY <1>2, <1>5, <1>6 DEF TypeInv, ReqsInv
<1>8. TypeInv'
  BY <1>2, <1>3, <1>4, <1>7 DEF TypeInv
<1> DEFINE n == IF key \in DOMAIN reqs THEN 0 ELSE 1
<1>9. ASSUME NEW x PROVE Owing(x)' = Owing(x) + IF x = Asked(key) THEN n ELSE 0
  <2>1. InCalls(stack', x) = InCalls(calls, x) + InCalls(stack, x) - Owes(Fn, x)
    BY <1>3
  <2>2. InReqs(stack', reqs', x) = InReqs(stack, reqs, x) + Owes(Fn, x)
    BY <1>3, <1>5, <1>6
  <2>3. InCalls(calls, x) + InBag(pending', x) = InBag(pending, x) + IF x = Asked(key) THEN n ELSE 0
    OBVIOUS
  <2>4. InCalls(stack, x) \in Nat /\ Owes(Fn, x) \in Nat /\ InReqs(stack, reqs, x) \in Nat
        /\ InBag(pending, x) \in Nat /\ InCalls(ticks, x) \in Nat
    BY Numbers DEF Owes
  <2>5. InCalls(calls, x) \in Nat /\ InBag(pending', x) \in Nat
    BY DebtorsFinite, CalleesFinite DEF FramesOK
  <2>6. Owing(x)' = InCalls(stack', x) + InReqs(stack', reqs', x) + InBag(pending', x) + InCalls(ticks, x)
    BY DEF Owing, Num
  <2>7. Owing(x) = InCalls(stack, x) + InReqs(stack, reqs, x) + InBag(pending, x) + InCalls(ticks, x)
    BY DEF Owing, Num
  <2> DEFINE d == IF x = Asked(key) THEN n ELSE 0
  <2>8. d \in Int /\ InCalls(calls, x) + InBag(pending', x) = InBag(pending, x) + d
    BY <2>3
  <2> HIDE DEF d
  <2>9. Owing(x)' = Owing(x) + d
    <3>1. Owing(x)' = (InCalls(calls, x) + InCalls(stack, x) - Owes(Fn, x))
                      + (InReqs(stack, reqs, x) + Owes(Fn, x)) + InBag(pending', x) + InCalls(ticks, x)
      BY <2>1, <2>2, <2>6
    <3>2. QED
      BY ONLY <2>4, <2>5, <2>7, <2>8, <3>1
  <2>10. QED
    BY <2>9 DEF d
<1>10. (\A h \in Globs : StepLaw(h))' /\ (\A k : KeyLaw(k))'
  <2>1. Owing(Asked(key)) + n \in Nat /\ n \in Int
    BY Numbers
  <2>2. \/ n = 0 /\ DOMAIN reqs' = DOMAIN reqs
        \/ n = 1 /\ key \notin DOMAIN reqs /\ DOMAIN reqs' = DOMAIN reqs \cup {key}
    BY <1>5, <1>6
  <2> HIDE DEF n
  <2>3. (\A h \in Globs : StepLaw(h)) /\ (\A k : KeyLaw(k))
    BY DEF CountInv
  <2>4. QED
    BY <1>2, <1>9, <2>1, <2>2, <2>3, KeyLaws
<1>11. CleanLaw'
  BY <1>3, <1>5, <1>6, CleanKept DEF CountInv
<1>12. QED
  BY <1>8, <1>10, <1>11 DEF CountInv

\* Nothing is owed that was not, and nothing was done that was.
LEMMA SameLaws ==
    ASSUME TypeInv, \A h \in Globs : StepLaw(h), \A k : KeyLaw(k),
           \A x : Owing(x)' = Owing(x),
           Globs' = Globs, DOMAIN reqs' = DOMAIN reqs,
           \A h \in Globs : Extra(h)' = Extra(h) /\ SameCount(self[h], self'[h])
    PROVE  (\A h \in Globs : StepLaw(h))' /\ (\A k : KeyLaw(k))'
<1>1. PICK key : TRUE
  OBVIOUS
<1>2. \A x : Owing(x) \in Nat
  BY Numbers
<1> DEFINE n == 0
<1>3. \A x : Owing(x)' = Owing(x) + IF x = Asked(key) THEN n ELSE 0
  BY <1>2
<1>4. Owing(Asked(key)) + n \in Nat /\ n \in Int /\ n = 0
  BY <1>2
<1> HIDE DEF n
<1>5. QED
  BY <1>3, <1>4, KeyLaws

\* A call for which fs is asked once more.
LEMMA CallStep ==
    ASSUME TypeInv, CountInv, stack # <<>>, Fn.name \in Own, Return(<<>>),
           search' = search, self' = self, out' = out, ticks' = ticks, draining' = draining,
           reqs' = reqs,
           NEW call, NEW abs, NEW cb, Ask(call, abs, cb),
           AskOK([call |-> call, abs |-> abs, cb |-> cb], Running),
           \A x : Owes(cb, x) = Owes(Fn, x)
    PROVE  TypeInv' /\ CountInv'
<1> DEFINE r == [call |-> call, abs |-> abs, cb |-> cb]
           c == pending (+) SetToBag({r})
<1>1. IsSeq(stack) /\ Fn.name # "cleanup"
  BY Acting DEF Own
<1>2. /\ SelfInv' /\ Globs' = Globs /\ Running' = Running
      /\ \A h \in Globs : Extra(h)' = Extra(h) /\ SameCount(self[h], self'[h])
  BY Resting
<1>3. /\ StackInv'
      /\ \A x : InCalls(stack', x) = InCalls(<<>>, x) + InCalls(stack, x) - Owes(Fn, x)
      /\ \A q, x : InReqs(stack', q, x) = InReqs(stack, q, x)
      /\ \A k \in DOMAIN stack' : stack'[k].fn.name = "cleanup" =>
            \E j \in DOMAIN stack : stack[j] = stack'[k]
  BY <1>1, <1>2, FramesFew, Returned
<1>4. pending' = c /\ r.cb = cb
  BY DEF Ask
<1>5. IsBag(pending)
  BY DEF TypeInv, PendingInv
<1>6. /\ IsBag(c) /\ DOMAIN c = DOMAIN pending \cup {r}
      /\ \A x : InBag(c, x) = InBag(pending, x) + Owes(r.cb, x)
  <2> HIDE DEF r
  <2>1. QED
    BY ONLY <1>5, BagPut
<1>7. \A q \in DOMAIN c : AskOK(q, Running)
  BY <1>6 DEF TypeInv, PendingInv
<1> HIDE DEF c, r
<1>8. TicksInv' /\ ReqsInv' /\ PendingInv'
  BY <1>2, <1>4, <1>6, <1>7, Unmoved DEF PendingInv
<1>9. TypeInv'
  BY <1>2, <1>3, <1>8 DEF TypeInv
<1>10. ASSUME NEW x PROVE Owing(x)' = Owing(x)
  <2>1. InCalls(stack', x) = InCalls(stack, x) - Owes(Fn, x)
    BY <1>3, InNone, Numbers DEF Owes
  <2>2. InBag(pending', x) = InBag(pending, x) + Owes(Fn, x)
    BY <1>4, <1>6
  <2>3. Owes(Fn, x) \in Nat
    BY DEF Owes
  <2>4. InReqs(stack', reqs', x) = InReqs(stack, reqs, x)
    BY <1>3
  <2>5. QED
    BY <2>1, <2>2, <2>3, <2>4, Numbers DEF Owing, Num
<1>11. (\A h \in Globs : StepLaw(h))' /\ (\A k : KeyLaw(k))'
  BY <1>2, <1>10, SameLaws DEF CountInv
<1>12. CleanLaw'
  BY <1>3, CleanKept, SeqDomain DEF CountInv, TypeInv, ReqsInv, IsReqs
<1>13. QED
  BY <1>9, <1>11, <1>12 DEF CountInv

\* A call of a search that was aborted: what it owes is lost.
LEMMA LostStep ==
    ASSUME TypeInv, CountInv, stack # <<>>, Fn.name \in Own, Return(<<>>), Me.aborted,
           search' = search, self' = self, out' = out, ticks' = ticks, draining' = draining,
           reqs' = reqs, pending' = pending,
           NEW key, \A x : Owes(Fn, x) = IF x = Asked(key) THEN 1 ELSE 0
    PROVE  TypeInv' /\ CountInv'
<1>1. IsSeq(stack) /\ Fn.name # "cleanup" /\ Fn.g \in Globs
  BY Acting DEF Own
<1>2. /\ SelfInv' /\ Globs' = Globs /\ Running' = Running
      /\ \A h \in Globs : Extra(h)' = Extra(h) /\ SameCount(self[h], self'[h])
  BY Resting
<1>3. /\ StackInv'
      /\ \A x : InCalls(stack', x) = InCalls(<<>>, x) + InCalls(stack, x) - Owes(Fn, x)
      /\ \A q, x : InReqs(stack', q, x) = InReqs(stack, q, x)
      /\ \A k \in DOMAIN stack' : stack'[k].fn.name = "cleanup" =>
            \E j \in DOMAIN stack : stack[j] = stack'[k]
  BY <1>1, <1>2, FramesFew, Returned
<1>4. TicksInv' /\ ReqsInv' /\ PendingInv'
  BY <1>2, Unmoved
<1>5. TypeInv'
  BY <1>2, <1>3, <1>4 DEF TypeInv
<1>6. ASSUME NEW x PROVE Owing(x)' = Owing(x) + IF x = Asked(key) THEN -1 ELSE 0
  <2>1. InCalls(stack', x) = InCalls(stack, x) + IF x = Asked(key) THEN -1 ELSE 0
    BY <1>3, InNone, Numbers
  <2>2. InReqs(stack', reqs', x) = InReqs(stack, reqs, x)
    BY <1>3
  <2>3. QED
    BY <2>1, <2>2, Numbers DEF Owing, Num
<1>7. Owing(Asked(key)) + (-1) \in Nat
  <2>1. InCalls(stack, Asked(key)) = Owes(Fn, Asked(key)) + InCalls(Tail(stack), Asked(key))
    BY <1>1, InTail DEF Fn
  <2>2. InCalls(Tail(stack), Asked(key)) \in Nat
    BY <1>1, SeqTail, DebtorsFinite
  <2>3. InCalls(stack, Asked(key)) >= 1
    BY <2>1, <2>2
  <2>4. QED
    BY <2>3, Numbers DEF Owing, Num
<1>8. (\A h \in Globs : StepLaw(h))' /\ (\A k : KeyLaw(k))'
  <2>1. (\A h \in Globs : StepLaw(h)) /\ (\A k : KeyLaw(k)) /\ DOMAIN reqs' = DOMAIN reqs
    BY DEF CountInv
  <2>2. ~NoAbort
    BY <1>1 DEF NoAbort, Me
  <2>3. -1 \in Int
    OBVIOUS
  <2>4. QED
    BY <1>2, <1>6, <1>7, <2>1, <2>2, <2>3, KeyLaws
<1>9. CleanLaw'
  BY <1>3, CleanKept, SeqDomain DEF CountInv, TypeInv, ReqsInv, IsReqs
<1>10. QED
  BY <1>5, <1>8, <1>9 DEF CountInv

-----------------------------------------------------------------------------
(***************************************************************************)
(* Each action keeps the invariant.                                        *)
(***************************************************************************)
Kept == TypeInv' /\ CountInv'

\* What is on top.
LEMMA OnTop ==
    ASSUME TypeInv, NEW name \in Own, Top(name)
    PROVE  /\ stack # <<>> /\ Fn.name = name /\ Fn.name \in Own
           /\ Fn.g \in Running /\ Fn.g \in Globs /\ FieldsOK(Fn.g, Me) /\ FnOK(Fn, Running)
           /\ IsSeq(Ans.entries) /\ SeenOK(out[Fn.g]) /\ out[Fn.g].started
           /\ Me._processing \in Int /\ Me._processing - 1 \in Int /\ Me._processing + 1 \in Int
           /\ Again(Me._processQueue, Fn.g) /\ Len(Me._processQueue) \in Nat
<1>1. stack # <<>> /\ Fn.name = name
  BY DEF Top, Fn
<1>2. Fn.name \in Own
  BY <1>1
<1>3. FieldsOK(Fn.g, Me)
  BY <1>1, <1>2, Acting
<1>4. Again(Me._processQueue, Fn.g) /\ Me._processing \in Int
  BY <1>3 DEF FieldsOK
<1>5. Len(Me._processQueue) \in Nat
  BY <1>4, SeqDomain DEF Again
<1>6. QED
  BY <1>1, <1>2, <1>3, <1>4, <1>5, Acting

LEMMA UncountKeeps == ASSUME TypeInv, CountInv, Uncount PROVE Kept
<1> DEFINE s == [Me EXCEPT !._processing = @ - 1]
           calls == <<Fn.then>>
<1>1. Top("uncount") /\ Set(s) /\ Return(calls)
      /\ search' = search /\ out' = out /\ reqs' = reqs /\ pending' = pending
      /\ ticks' = ticks /\ draining' = draining
  BY DEF Uncount
<1>2. /\ stack # <<>> /\ Fn.name = "uncount" /\ Fn.name \in Own
      /\ Fn.g \in Running /\ Fn.g \in Globs /\ FieldsOK(Fn.g, Me) /\ FnOK(Fn, Running)
      /\ Me._processing \in Int /\ Me._processing - 1 \in Int /\ Len(Me._processQueue) \in Nat
  BY <1>1, OnTop DEF Own
<1>3. /\ Fn.then.fn.name = "_process" /\ Fn.then.fn.g = Fn.g /\ IsSeq(Fn.then.answer.entries)
  BY <1>2 DEF FnOK
<1>4. FrameOK(Fn.then, Running)
  BY <1>2, <1>3 DEF FrameOK, FnOK, Own
<1>5. FramesOK(calls, Running) /\ NoCleanup(calls)
  BY <1>3, <1>4, FramesFew
<1>6. /\ FieldsOK(Fn.g, s) /\ s._processing = Me._processing - 1
      /\ s._processQueue = Me._processQueue /\ s.aborted = Me.aborted /\ s.paused = Me.paused
  BY <1>2, CountOK
<1>7. Becomes(s) /\ Seeing
  BY <1>1, <1>2, Becoming
<1>8. ASSUME NEW x PROVE InCalls(calls, x) = Owes(Fn, x) + IF x = Step(Fn.g) THEN -1 ELSE 0
  BY <1>2, <1>3, InOne, OwesWhat
<1> HIDE DEF s, calls
<1>9. -1 \in Int
  OBVIOUS
<1>10. s._processing - Len(s._processQueue) = Me._processing - Len(Me._processQueue) + (-1)
  BY <1>2, <1>6
<1>11. s._processing - Len(s._processQueue) >= Me._processing - Len(Me._processQueue) + (-1)
  BY <1>2, <1>6
<1>12. QED
  BY <1>1, <1>2, <1>5, <1>6, <1>7, <1>8, <1>9, <1>10, <1>11, QuietStep DEF Kept

\* The fields that are counted stay as they are, and who returns passes on what it owes.
LEMMA PassingStep ==
    ASSUME TypeInv, CountInv, NEW name \in Own, Top(name),
           NEW calls, FramesOK(calls, Running), NoCleanup(calls), Return(calls),
           search' = search, reqs' = reqs, pending' = pending, ticks' = ticks,
           draining' = draining,
           NEW s, FieldsOK(Fn.g, s), Becomes(s), Seeing, SameCount(Me, s),
           \A x : InCalls(calls, x) = Owes(Fn, x)
    PROVE  Kept
<1>1. /\ stack # <<>> /\ Fn.name \in Own
      /\ Me._processing \in Int /\ Len(Me._processQueue) \in Nat
  BY OnTop
<1> DEFINE n == 0
<1>2. n \in Int /\ n = 0
  OBVIOUS
<1>3. ASSUME NEW x PROVE InCalls(calls, x) = Owes(Fn, x) + IF x = Step(Fn.g) THEN n ELSE 0
  BY OwesWhat
<1> HIDE DEF n
<1>4. /\ s._processing - Len(s._processQueue) = Me._processing - Len(Me._processQueue) + n
      /\ s._processing - Len(s._processQueue) >= Me._processing - Len(Me._processQueue) + n
  BY <1>1, <1>2 DEF SameCount
<1>5. (Me.aborted => s.aborted) /\ (s.paused => Me.paused)
  BY DEF SameCount
<1>6. QED
  BY <1>1, <1>2, <1>3, <1>4, <1>5, QuietStep DEF Kept

LEMMA HeardKeeps == ASSUME TypeInv, CountInv, Heard PROVE Kept
<1>1. Top("match") /\ "match" \in Own /\ Return(<<>>)
  BY DEF Heard, Own
<1>2. Fn.name = "match" /\ Fn.g \in Globs /\ FieldsOK(Fn.g, Me)
  BY <1>1, OnTop
<1>3. Becomes(Me) /\ Seeing /\ SameCount(Me, Me)
  BY <1>2, Becoming DEF Heard, SameCount
<1>4. \A x : InCalls(<<>>, x) = Owes(Fn, x)
  BY <1>2, InNone, OwesWhat
<1>5. QED
  BY <1>1, <1>2, <1>3, <1>4, FramesFew, PassingStep DEF Heard

LEMMA DoneKeeps == ASSUME TypeInv, CountInv, done PROVE Kept
<1> DEFINE s == [Me EXCEPT !._processing = @ - 1]
<1>1. Top("done") /\ Set(s) /\ Return(<<>>)
      /\ search' = search /\ reqs' = reqs /\ pending' = pending
      /\ ticks' = ticks /\ draining' = draining
  BY DEF done
<1>2. /\ stack # <<>> /\ Fn.name = "done" /\ Fn.name \in Own
      /\ Fn.g \in Globs /\ FieldsOK(Fn.g, Me) /\ SeenOK(out[Fn.g])
      /\ Me._processing \in Int /\ Me._processing - 1 \in Int /\ Len(Me._processQueue) \in Nat
  BY <1>1, OnTop DEF Own
<1>3. /\ FieldsOK(Fn.g, s) /\ s._processing = Me._processing - 1
      /\ s._processQueue = Me._processQueue /\ s.aborted = Me.aborted /\ s.paused = Me.paused
  BY <1>2, CountOK
<1>4. Becomes(s)
  BY <1>1, <1>2, Becoming
<1>5. Seeing
  <2>1. CASE out' = out
    BY <1>2, <2>1, Becoming
  <2>2. CASE out' = [out EXCEPT ![Fn.g].ends = @ + 1,
                      ![Fn.g].found = IF out[Fn.g].ends = 0 THEN found(o(Fn.g), Me) ELSE @,
                      ![Fn.g].late = {e[2] : e \in Range(Me._emitQueue)}]
    <3> DEFINE w == [out[Fn.g] EXCEPT !.ends = @ + 1,
                      !.found = IF out[Fn.g].ends = 0 THEN found(o(Fn.g), Me) ELSE @,
                      !.late = {e[2] : e \in Range(Me._emitQueue)}]
    <3>1. SeenOK(w) /\ w.started = out[Fn.g].started
      BY <1>2 DEF SeenOK
    <3>2. DOMAIN out = Globs /\ \A h \in Globs : SeenOK(out[h])
      BY DEF TypeInv, SelfInv
    <3>3. out' = [out EXCEPT ![Fn.g] = w]
      BY <1>2, <2>2, <3>2
    <3> HIDE DEF w
    <3>4. QED
      BY <1>2, <3>1, <3>2, <3>3 DEF Seeing
  <2>3. QED
    BY <2>1, <2>2 DEF done
<1>6. ASSUME NEW x PROVE InCalls(<<>>, x) = Owes(Fn, x) + IF x = Step(Fn.g) THEN -1 ELSE 0
  BY <1>2, InNone, OwesWhat
<1> HIDE DEF s
<1>7. -1 \in Int
  OBVIOUS
<1>8. /\ s._processing - Len(s._processQueue) = Me._processing - Len(Me._processQueue) + (-1)
      /\ s._processing - Len(s._processQueue) >= Me._processing - Len(Me._processQueue) + (-1)
  BY <1>2, <1>3
<1>9. QED
  BY <1>1, <1>2, <1>3, <1>4, <1>5, <1>6, <1>7, <1>8, FramesFew, QuietStep DEF Kept

\* Calls that owe nothing, and then done().
LEMMA ThenDone ==
    ASSUME NEW R, NEW g \in R, NEW work, IsSeq(work), NEW s, DOMAIN s = DOMAIN work,
           s = [k \in DOMAIN work |-> s[k]],
           \A k \in DOMAIN s : FrameOK(s[k], R) /\ s[k].fn.name \in {"_process", "_emitMatch"}
    PROVE  /\ FramesOK(Append(s, Done(g)), R) /\ NoCleanup(Append(s, Done(g)))
           /\ \A x : InCalls(Append(s, Done(g)), x) = IF x = Step(g) THEN 1 ELSE 0
<1>1. Len(work) \in Nat /\ DOMAIN work = 1..Len(work)
  BY SeqDomain
<1>2. IsSeq(s)
  BY <1>1, SeqMade
<1>3. FramesOK(s, R) /\ NoCleanup(s)
  BY <1>2 DEF FramesOK, NoCleanup
<1>4. FrameOK(Done(g), R) /\ Done(g).fn.name = "done" /\ Done(g).fn.g = g
  BY CallsOK DEF Done, Call
<1>5. FramesOK(Append(s, Done(g)), R)
  BY <1>3, <1>4, FramesAppend
<1>6. NoCleanup(Append(s, Done(g)))
  BY <1>2, <1>3, <1>4, CleanAppend
<1>7. ASSUME NEW x PROVE InCalls(Append(s, Done(g)), x) = IF x = Step(g) THEN 1 ELSE 0
  <2>1. \A k \in DOMAIN s : x \notin Debts(s[k].fn)
    BY DEF Debts
  <2>2. InCalls(s, x) = 0
    BY <2>1, InNobody
  <2>3. Owes(Done(g).fn, x) = IF x = Step(g) THEN 1 ELSE 0
    BY <1>4, OwesWhat
  <2>4. QED
    BY <1>2, <2>2, <2>3, InAppend
<1>8. QED
  BY <1>5, <1>6, <1>7

\* What an unpaused _process calls owes the step that it begins.
LEMMA FirstStepOK ==
    ASSUME NEW R, Fn.g \in R
    PROVE  /\ FrameOK(firstStep, R) /\ firstStep.fn.name # "cleanup"
           /\ \A x : Owes(firstStep.fn, x) = IF x = Step(Fn.g) THEN 1 ELSE 0
<1> DEFINE pre  == prefix(Fn.pattern)
           rest == remain(Fn.pattern)
           then == [name |-> IF rest[1] = GLOBSTAR THEN "_processGlobStar2" ELSE "_processReaddir2",
                    g |-> Fn.g, pattern |-> Fn.pattern, index |-> Fn.index,
                    inGlobStar |-> Fn.inGlobStar]
           a == Call([name |-> "_stat", g |-> Fn.g, f |-> join(pre), index |-> Fn.index])
           b == Done(Fn.g)
           c == Readdir(Fn.g, makeAbs(read(pre)), Fn.inGlobStar, then)
<1>1. firstStep \in {a, b, c}
  BY DEF firstStep
<1>2. FrameOK(a, R) /\ a.fn.name = "_stat" /\ a.fn.g = Fn.g
  BY CallsOK DEF Call
<1>3. FrameOK(b, R) /\ b.fn.name = "done" /\ b.fn.g = Fn.g
  BY CallsOK DEF Done, Call
<1>4. then.name \in {"_processGlobStar2", "_processReaddir2"} /\ then.g = Fn.g /\ then.name # "RES"
  OBVIOUS
<1> HIDE DEF then
<1>5. FrameOK(c, R)
  BY <1>4, ReaddirOK
<1>6. c.fn.name = "_readdir" /\ c.fn.g = Fn.g /\ c.fn.cb = then
  BY DEF Readdir, Call
<1> HIDE DEF a, b, c
<1>7. /\ \A x : Owes(a.fn, x) = IF x = Step(Fn.g) THEN 1 ELSE 0
      /\ \A x : Owes(b.fn, x) = IF x = Step(Fn.g) THEN 1 ELSE 0
      /\ \A x : Owes(c.fn, x) = IF x = Step(Fn.g) THEN 1 ELSE 0
  BY <1>2, <1>3, <1>4, <1>6, OwesWhat
<1>8. QED
  BY <1>1, <1>2, <1>3, <1>5, <1>6, <1>7

LEMMA ProcessKeeps == ASSUME TypeInv, CountInv, _process PROVE Kept
<1>1. Top("_process") /\ search' = search /\ out' = out /\ reqs' = reqs /\ pending' = pending
      /\ ticks' = ticks /\ draining' = draining /\ "_process" \in Own
  BY DEF _process, Own
<1>2. /\ stack # <<>> /\ Fn.name = "_process" /\ Fn.name \in Own
      /\ Fn.g \in Running /\ Fn.g \in Globs /\ FieldsOK(Fn.g, Me)
      /\ Me._processing \in Int /\ Me._processing + 1 \in Int /\ Len(Me._processQueue) \in Nat
      /\ Again(Me._processQueue, Fn.g) /\ IsSeq(Ans.entries)
  BY <1>1, OnTop
<1>3. Seeing /\ \A x : Owes(Fn, x) = 0
  BY <1>1, <1>2, Becoming, OwesWhat
<1>4. CASE Me.aborted /\ Return(<<>>) /\ UNCHANGED self
  <2>1. Becomes(Me) /\ SameCount(Me, Me)
    BY <1>2, <1>4, Becoming DEF SameCount
  <2>2. \A x : InCalls(<<>>, x) = Owes(Fn, x)
    BY <1>3, InNone
  <2>3. QED
    BY <1>1, <1>2, <1>3, <1>4, <2>1, <2>2, FramesFew, PassingStep
<1>5. CASE /\ ~Me.aborted /\ Me.paused
           /\ Set([Me EXCEPT !._processing = @ + 1, !._processQueue = Append(@, Head(stack))])
           /\ Return(<<>>)
  <2> DEFINE q == Append(Me._processQueue, Head(stack))
             s == [Me EXCEPT !._processing = @ + 1, !._processQueue = q]
  <2>1. Again(q, Fn.g) /\ Len(q) = Len(Me._processQueue) + 1
    <3>1. /\ IsSeq(q) /\ Len(q) = Len(Me._processQueue) + 1
          /\ q[Len(Me._processQueue) + 1] = Head(stack)
          /\ \A k \in 1..Len(Me._processQueue) : q[k] = Me._processQueue[k]
      BY <1>2, SeqAppend DEF Again
    <3>2. DOMAIN q = 1..Len(Me._processQueue) + 1 /\ DOMAIN Me._processQueue = 1..Len(Me._processQueue)
      BY <1>2, <3>1, SeqDomain DEF Again
    <3>3. /\ Head(stack).fn.name = "_process" /\ Head(stack).fn.g = Fn.g
          /\ IsSeq(Head(stack).answer.entries)
      BY <1>2 DEF Fn, Ans
    <3> HIDE DEF q
    <3>4. \A k \in DOMAIN q : k \in DOMAIN Me._processQueue \/ k = Len(Me._processQueue) + 1
      BY <1>2, <3>2
    <3>5. QED
      BY <1>2, <3>1, <3>2, <3>3, <3>4 DEF Again
  <2>2. Becomes(s)
    BY <1>2, <1>5, Becoming
  <2> HIDE DEF q
  <2>3. /\ FieldsOK(Fn.g, s) /\ s._processing = Me._processing + 1 /\ s._processQueue = q
        /\ s.aborted = Me.aborted /\ s.paused = Me.paused
    <3> DEFINE n == Me._processing + 1
    <3>1. s = [Me EXCEPT !._processing = n, !._processQueue = q] /\ n \in Int /\ n = Me._processing + 1
      BY <1>2
    <3> HIDE DEF s, n
    <3>2. FieldsOK(Fn.g, Me) /\ Again(q, Fn.g)
      BY <1>2, <2>1
    <3>3. FieldsOK(Fn.g, s)
      BY <3>1, <3>2, AsideOK
    <3>4. s._processing = n /\ s._processQueue = q /\ s.aborted = Me.aborted /\ s.paused = Me.paused
      BY <3>1, <3>2 DEF FieldsOK, Fields
    <3>5. QED
      BY <3>1, <3>3, <3>4
  <2> HIDE DEF s
  <2> DEFINE n == 0
  <2>4. n \in Int /\ n = 0
    OBVIOUS
  <2>5. ASSUME NEW x PROVE InCalls(<<>>, x) = Owes(Fn, x) + IF x = Step(Fn.g) THEN n ELSE 0
    BY <1>3, InNone
  <2> HIDE DEF n
  <2>6. /\ s._processing - Len(s._processQueue) = Me._processing - Len(Me._processQueue) + n
        /\ s._processing - Len(s._processQueue) >= Me._processing - Len(Me._processQueue) + n
    BY <1>2, <2>1, <2>3, <2>4
  <2>7. QED
    BY <1>1, <1>2, <1>3, <1>5, <2>2, <2>3, <2>4, <2>5, <2>6, FramesFew, QuietStep DEF Kept
<1>6. CASE /\ ~Me.aborted /\ ~Me.paused
           /\ Set([Me EXCEPT !._processing = @ + 1])
           /\ Return(<<firstStep>>)
  <2> DEFINE s == [Me EXCEPT !._processing = @ + 1]
             calls == <<firstStep>>
  <2>1. Becomes(s)
    BY <1>2, <1>6, Becoming
  <2>2. /\ FieldsOK(Fn.g, s) /\ s._processing = Me._processing + 1
        /\ s._processQueue = Me._processQueue /\ s.aborted = Me.aborted /\ s.paused = Me.paused
    BY <1>2, CountOK
  <2>3. FramesOK(calls, Running) /\ NoCleanup(calls)
    BY <1>2, FirstStepOK, FramesFew
  <2>4. ASSUME NEW x PROVE InCalls(calls, x) = Owes(Fn, x) + IF x = Step(Fn.g) THEN 1 ELSE 0
    BY <1>2, <1>3, FirstStepOK, InOne
  <2>5. Return(calls)
    BY <1>6
  <2> HIDE DEF s, calls
  <2>6. /\ s._processing - Len(s._processQueue) = Me._processing - Len(Me._processQueue) + 1
        /\ s._processing - Len(s._processQueue) >= Me._processing - Len(Me._processQueue) + 1
    BY <1>2, <2>2
  <2>7. QED
    BY <1>1, <1>2, <1>3, <2>1, <2>2, <2>3, <2>4, <2>5, <2>6, QuietStep DEF Kept
<1>7. QED
  BY <1>4, <1>5, <1>6 DEF _process

\* The calls that were made with the entries owe the step that _readdir owed.
LEMMA EntriesKeep ==
    ASSUME TypeInv, CountInv, NEW name \in {"_processReaddir2", "_processGlobStar2", "_processSimple2"},
           Top(name), NEW calls, Return(calls), FramesOK(calls, Running), NoCleanup(calls),
           \A x : InCalls(calls, x) = IF x = Step(Fn.g) THEN 1 ELSE 0,
           UNCHANGED <<search, self, out, reqs, pending, ticks, draining>>
    PROVE  Kept
<1>1. name \in Own
  BY DEF Own
<1>2. Fn.g \in Globs /\ FieldsOK(Fn.g, Me) /\ Fn.name = name
  BY <1>1, OnTop
<1>3. Becomes(Me) /\ Seeing /\ SameCount(Me, Me)
  BY <1>2, Becoming DEF SameCount
<1>4. \A x : InCalls(calls, x) = Owes(Fn, x)
  BY <1>2, OwesWhat
<1>5. QED
  BY <1>1, <1>2, <1>3, <1>4, PassingStep

\* The calls of ProcessAll, and done().
LEMMA ProcessAllOK ==
    ASSUME Fn.g \in Running, NEW work, IsSeq(work)
    PROVE  LET calls == Append(ProcessAll(work), Done(Fn.g))
           IN  /\ FramesOK(calls, Running) /\ NoCleanup(calls)
               /\ \A x : InCalls(calls, x) = IF x = Step(Fn.g) THEN 1 ELSE 0
<1> DEFINE s == ProcessAll(work)
<1>1. DOMAIN s = DOMAIN work /\ s = [k \in DOMAIN work |-> s[k]]
  BY DEF ProcessAll
<1>2. \A k \in DOMAIN s : s[k] = Process(Fn.g, work[k][1], Fn.index, work[k][2])
  BY DEF ProcessAll
<1> HIDE DEF s
<1>4. \A k \in DOMAIN s : FrameOK(s[k], Running) /\ s[k].fn.name \in {"_process", "_emitMatch"}
  BY <1>2, ProcessOK
<1>3. QED
  BY <1>1, <1>4, ThenDone DEF s

LEMMA ProcessReaddir2Keeps == ASSUME TypeInv, CountInv, _processReaddir2 PROVE Kept
<1>1. Top("_processReaddir2") /\ "_processReaddir2" \in Own
      /\ UNCHANGED <<search, self, out, reqs, pending, ticks, draining>>
  BY DEF _processReaddir2, Own
<1>2. Fn.g \in Running /\ IsSeq(Ans.entries)
  BY <1>1, OnTop
<1> DEFINE ms == readdirMatches(o(Fn.g), Fn.pattern, Ans.entries)
           work == readdirWork(o(Fn.g), Fn.pattern, Fn.inGlobStar, Ans.entries)
<1>3. IsSeq(ms) /\ IsSeq(work)
  BY <1>2, ReaddirSeq
<1> HIDE DEF ms, work
<1>4. CASE Return(Append([k \in DOMAIN ms |-> EmitMatch(Fn.g, Fn.index, ms[k])], Done(Fn.g)))
  <2> DEFINE s == [k \in DOMAIN ms |-> EmitMatch(Fn.g, Fn.index, ms[k])]
  <2>1. DOMAIN s = DOMAIN ms /\ s = [k \in DOMAIN ms |-> s[k]]
    OBVIOUS
  <2>2. \A k \in DOMAIN s : s[k] = EmitMatch(Fn.g, Fn.index, ms[k])
    OBVIOUS
  <2>3. Return(Append(s, Done(Fn.g)))
    BY <1>4
  <2> HIDE DEF s
  <2>6. \A k \in DOMAIN s : FrameOK(s[k], Running) /\ s[k].fn.name \in {"_process", "_emitMatch"}
    BY <1>2, <2>2, EmitMatchOK
  <2> DEFINE calls == Append(s, Done(Fn.g))
  <2>4. /\ FramesOK(calls, Running) /\ NoCleanup(calls)
        /\ \A x : InCalls(calls, x) = IF x = Step(Fn.g) THEN 1 ELSE 0
    BY <1>2, <1>3, <2>1, <2>6, ThenDone
  <2> HIDE DEF calls
  <2>5. QED
    BY <1>1, <2>3, <2>4, EntriesKeep DEF calls
<1>5. CASE Return(Append(ProcessAll(work), Done(Fn.g)))
  <2> DEFINE calls == Append(ProcessAll(work), Done(Fn.g))
  <2>1. /\ FramesOK(calls, Running) /\ NoCleanup(calls)
        /\ \A x : InCalls(calls, x) = IF x = Step(Fn.g) THEN 1 ELSE 0
    BY <1>2, <1>3, ProcessAllOK
  <2> HIDE DEF calls
  <2>2. QED
    BY <1>1, <1>5, <2>1, EntriesKeep DEF calls
<1>6. QED
  BY <1>4, <1>5 DEF _processReaddir2, ms, work

LEMMA ProcessGlobStar2Keeps == ASSUME TypeInv, CountInv, _processGlobStar2 PROVE Kept
<1>1. Top("_processGlobStar2") /\ "_processGlobStar2" \in Own
      /\ UNCHANGED <<search, self, out, reqs, pending, ticks, draining>>
  BY DEF _processGlobStar2, Own
<1>2. Fn.g \in Running /\ IsSeq(Ans.entries)
  BY <1>1, OnTop
<1> DEFINE work == globStarWork(o(Fn.g), Me, Fn.pattern, Fn.inGlobStar, Ans.entries)
<1>3. IsSeq(work)
  BY <1>2, GlobStarSeq
<1> HIDE DEF work
<1>4. CASE Return(<<Done(Fn.g)>>)
  <2> DEFINE calls == <<Done(Fn.g)>>
  <2>1. FrameOK(Done(Fn.g), Running) /\ Done(Fn.g).fn.name = "done" /\ Done(Fn.g).fn.g = Fn.g
    BY <1>2, CallsOK DEF Done, Call
  <2>2. FramesOK(calls, Running) /\ NoCleanup(calls)
    BY <2>1, FramesFew
  <2>3. \A x : InCalls(calls, x) = IF x = Step(Fn.g) THEN 1 ELSE 0
    BY <2>1, InOne, OwesWhat
  <2> HIDE DEF calls
  <2>4. QED
    BY <1>1, <1>4, <2>2, <2>3, EntriesKeep DEF calls
<1>5. CASE Return(Append(ProcessAll(work), Done(Fn.g)))
  <2> DEFINE calls == Append(ProcessAll(work), Done(Fn.g))
  <2>1. /\ FramesOK(calls, Running) /\ NoCleanup(calls)
        /\ \A x : InCalls(calls, x) = IF x = Step(Fn.g) THEN 1 ELSE 0
    BY <1>2, <1>3, ProcessAllOK
  <2> HIDE DEF calls
  <2>2. QED
    BY <1>1, <1>5, <2>1, EntriesKeep DEF calls
<1>6. QED
  BY <1>4, <1>5 DEF _processGlobStar2, work

LEMMA ProcessSimple2Keeps == ASSUME TypeInv, CountInv, _processSimple2 PROVE Kept
<1>1. Top("_processSimple2") /\ "_processSimple2" \in Own
      /\ UNCHANGED <<search, self, out, reqs, pending, ticks, draining>>
  BY DEF _processSimple2, Own
<1>2. Fn.g \in Running
  BY <1>1, OnTop
<1> DEFINE one == <<Done(Fn.g)>>
           two == <<EmitMatch(Fn.g, Fn.index, Fn.f), Done(Fn.g)>>
<1>3. /\ FrameOK(Done(Fn.g), Running) /\ Done(Fn.g).fn.name = "done" /\ Done(Fn.g).fn.g = Fn.g
      /\ FrameOK(EmitMatch(Fn.g, Fn.index, Fn.f), Running)
      /\ EmitMatch(Fn.g, Fn.index, Fn.f).fn.name = "_emitMatch"
  <2>1. Done(Fn.g).fn.g = Fn.g
    BY DEF Done, Call
  <2>2. FrameOK(Done(Fn.g), Running) /\ Done(Fn.g).fn.name = "done"
    BY <1>2, CallsOK
  <2>3. QED
    BY <1>2, <2>1, <2>2, EmitMatchOK
<1>4. /\ FramesOK(one, Running) /\ NoCleanup(one)
      /\ \A x : InCalls(one, x) = IF x = Step(Fn.g) THEN 1 ELSE 0
  <2>1. FramesOK(one, Running) /\ NoCleanup(one)
    BY <1>3, FramesFew
  <2>2. \A x : InCalls(one, x) = IF x = Step(Fn.g) THEN 1 ELSE 0
    BY <1>3, InOne, OwesWhat
  <2>3. QED
    BY <2>1, <2>2
<1>5. /\ FramesOK(two, Running) /\ NoCleanup(two)
      /\ \A x : InCalls(two, x) = IF x = Step(Fn.g) THEN 1 ELSE 0
  <2> DEFINE m == <<EmitMatch(Fn.g, Fn.index, Fn.f)>>
  <2>1. FramesOK(m, Running) /\ NoCleanup(m) /\ \A x : InCalls(m, x) = 0
    <3>1. FramesOK(m, Running) /\ NoCleanup(m)
      BY <1>3, FramesFew
    <3>2. \A x : InCalls(m, x) = 0
      BY <1>3, InOne, OwesWhat
    <3>3. QED
      BY <3>1, <3>2
  <2>2. two = Append(m, Done(Fn.g))
    OBVIOUS
  <2>3. IsSeq(m)
    BY SeqOne
  <2> HIDE DEF m, two
  <2>4. FramesOK(two, Running)
    BY <1>3, <2>1, <2>2, FramesAppend
  <2>5. NoCleanup(two)
    BY <1>3, <2>1, <2>2, <2>3, CleanAppend
  <2>6. ASSUME NEW x PROVE InCalls(two, x) = IF x = Step(Fn.g) THEN 1 ELSE 0
    <3>1. Owes(Done(Fn.g).fn, x) = IF x = Step(Fn.g) THEN 1 ELSE 0
      BY <1>3, OwesWhat
    <3>2. QED
      BY <2>1, <2>2, <2>3, <3>1, InAppend
  <2>7. QED
    BY <2>4, <2>5, <2>6
<1>6. Return(one) \/ Return(two)
  BY DEF _processSimple2
<1> HIDE DEF one, two
<1>7. QED
  BY <1>1, <1>4, <1>5, <1>6, EntriesKeep

LEMMA EmitMatchKeeps == ASSUME TypeInv, CountInv, _emitMatch PROVE Kept
<1>1. Top("_emitMatch") /\ "_emitMatch" \in Own
      /\ UNCHANGED <<search, out, reqs, pending, ticks, draining>>
  BY DEF _emitMatch, Own
<1>2. Fn.name = "_emitMatch" /\ Fn.g \in Running /\ Fn.g \in Globs /\ FieldsOK(Fn.g, Me)
  BY <1>1, OnTop
<1>3. Seeing /\ \A x : Owes(Fn, x) = 0
  BY <1>1, <1>2, Becoming, OwesWhat
<1>4. \A x : InCalls(<<>>, x) = Owes(Fn, x)
  BY <1>3, InNone
<1>5. FramesOK(<<>>, Running) /\ NoCleanup(<<>>)
  BY FramesFew
<1>6. CASE Return(<<>>) /\ UNCHANGED self
  <2>1. Becomes(Me) /\ SameCount(Me, Me)
    BY <1>2, <1>6, Becoming DEF SameCount
  <2>2. QED
    BY <1>1, <1>2, <1>3, <1>4, <1>5, <1>6, <2>1, PassingStep
<1>7. CASE Set([Me EXCEPT !._emitQueue = Append(@, <<Fn.index, Fn.e>>)]) /\ Return(<<>>)
  <2> DEFINE q == Append(Me._emitQueue, <<Fn.index, Fn.e>>)
             s == [Me EXCEPT !._emitQueue = q]
  <2>1. IsSeq(q)
    BY <1>2, SeqAppend DEF FieldsOK
  <2>2. Becomes(s)
    BY <1>2, <1>7, Becoming
  <2> HIDE DEF q
  <2>3. FieldsOK(Fn.g, s) /\ SameCount(Me, s)
    BY <1>2, <2>1, EmitOK
  <2> HIDE DEF s
  <2>4. QED
    BY <1>1, <1>2, <1>3, <1>4, <1>5, <1>7, <2>2, <2>3, PassingStep
<1>8. CASE /\ Set(add(Me, Fn.index, {Fn.e}))
           /\ Return(<<Call([name |-> "match", g |-> Fn.g])>>)
  <2> DEFINE s == add(Me, Fn.index, {Fn.e})
             c == Call([name |-> "match", g |-> Fn.g])
             calls == <<c>>
  <2>1. Becomes(s)
    BY <1>2, <1>8, Becoming
  <2>2. FieldsOK(Fn.g, s) /\ SameCount(Me, s)
    BY <1>2, AddOK
  <2>3. FrameOK(c, Running) /\ c.fn.name = "match"
    BY <1>2, CallsOK DEF Call
  <2>4. Return(calls)
    BY <1>8
  <2> HIDE DEF s, c
  <2>5. FramesOK(calls, Running) /\ NoCleanup(calls)
    BY <2>3, FramesFew
  <2>6. \A x : InCalls(calls, x) = Owes(Fn, x)
    BY <1>3, <2>3, InOne, OwesWhat
  <2> HIDE DEF calls
  <2>7. QED
    BY <1>1, <1>2, <1>3, <2>1, <2>2, <2>4, <2>5, <2>6, PassingStep
<1>9. QED
  BY <1>6, <1>7, <1>8 DEF _emitMatch

\* One call takes over what is owed.
LEMMA HandOver ==
    ASSUME TypeInv, CountInv, NEW name \in Own, Top(name),
           NEW c, FrameOK(c, Running), c.fn.name # "cleanup", Return(<<c>>),
           UNCHANGED <<search, out, reqs, pending, ticks, draining>>,
           NEW s, FieldsOK(Fn.g, s), Becomes(s), SameCount(Me, s),
           \A x : Owes(c.fn, x) = Owes(Fn, x)
    PROVE  Kept
<1> DEFINE calls == <<c>>
<1>1. FramesOK(calls, Running) /\ NoCleanup(calls)
  BY FramesFew
<1>2. \A x : InCalls(calls, x) = Owes(Fn, x)
  BY InOne
<1>3. Seeing
  BY OnTop, Becoming
<1>4. Return(calls)
  OBVIOUS
<1> HIDE DEF calls
<1>5. QED
  BY <1>1, <1>2, <1>3, <1>4, PassingStep

\* Callbacks that answer a request.
LEMMA CallbackOK ==
    ASSUME NEW R, NEW fn, FnOK(fn, R), fn.name \in {"_readdirInGlobStar", "lstatcb", "readdirCb"}
    PROVE  /\ fn.g \in R /\ fn.cb = RES(fn.cb.key) /\ fn.cb.name = "RES" /\ FnOK(fn.cb, R)
           /\ FrameOK(Call(fn.cb), R) /\ Call(fn.cb).fn = fn.cb
           /\ \A x : Owes(fn.cb, x) = Owes(fn, x)
           /\ \A a : IsSeq(a.entries) => FrameOK(Answer(fn.cb, a), R) /\ Answer(fn.cb, a).fn = fn.cb
<1>1. fn.g \in R /\ fn.cb = RES(fn.cb.key)
  BY DEF FnOK, Own
<1>2. fn.cb.name = "RES"
  BY <1>1 DEF RES
<1>3. FnOK(fn.cb, R)
  BY <1>1, <1>2 DEF FnOK, Own
<1>4. \A x : Owes(fn.cb, x) = Owes(fn, x)
  BY <1>2, OwesWhat
<1>5. FrameOK(Call(fn.cb), R) /\ Call(fn.cb).fn = fn.cb
  BY <1>3, AnswerOK DEF Call
<1>6. \A a : IsSeq(a.entries) => FrameOK(Answer(fn.cb, a), R) /\ Answer(fn.cb, a).fn = fn.cb
  BY <1>3, AnswerOK DEF Answer
<1>7. QED
  BY <1>1, <1>2, <1>3, <1>4, <1>5, <1>6

LEMMA ReadsAgain ==
    ASSUME NEW R, NEW fn, FnOK(fn, R), fn.name \in {"_readdirInGlobStar", "lstatcb", "readdirCb"},
           NEW abs, NEW b, NEW c, c = Readdir(fn.g, abs, b, fn.cb)
    PROVE  FrameOK(c, R) /\ c.fn.name = "_readdir" /\ \A x : Owes(c.fn, x) = Owes(fn, x)
<1>1. fn.g \in R /\ fn.cb = RES(fn.cb.key) /\ fn.cb.name = "RES"
  BY CallbackOK
<1>2. FrameOK(c, R)
  BY <1>1, ReaddirOK
<1>3. c.fn.name = "_readdir" /\ c.fn.cb = fn.cb
  BY DEF Readdir, Call
<1>4. \A x : Owes(c.fn, x) = Owes(fn, x)
  BY <1>1, <1>3, OwesWhat
<1>5. QED
  BY <1>2, <1>3, <1>4

LEMMA LstatcbKeeps == ASSUME TypeInv, CountInv, lstatcb PROVE Kept
<1>1. Top("lstatcb") /\ "lstatcb" \in Own
      /\ UNCHANGED <<search, out, reqs, pending, ticks, draining>>
  BY DEF lstatcb, Own
<1>2. Fn.name = "lstatcb" /\ Fn.g \in Running /\ Fn.g \in Globs /\ FieldsOK(Fn.g, Me) /\ FnOK(Fn, Running)
  BY <1>1, OnTop
<1> DEFINE b == Ans.kind = "link"
           noted == [Me EXCEPT !.symlinks = put(@, Fn.abs, b)]
           c == Call(Fn.cb)
           d == Readdir(Fn.g, Fn.abs, FALSE, Fn.cb)
<1>3. FrameOK(c, Running) /\ c.fn = Fn.cb /\ Fn.cb.name = "RES" /\ \A x : Owes(Fn.cb, x) = Owes(Fn, x)
  BY <1>2, CallbackOK
<1> DEFINE no == FALSE
<1>5. b \in BOOLEAN /\ d = Readdir(Fn.g, Fn.abs, no, Fn.cb)
  OBVIOUS
<1> HIDE DEF b, c, d, no
<1>4. FrameOK(d, Running) /\ d.fn.name = "_readdir" /\ \A x : Owes(d.fn, x) = Owes(Fn, x)
  <2>1. FnOK(Fn, Running) /\ Fn.name \in {"_readdirInGlobStar", "lstatcb", "readdirCb"}
    BY <1>2
  <2>2. d = Readdir(Fn.g, Fn.abs, no, Fn.cb)
    BY <1>5
  <2>3. FrameOK(d, Running)
    BY ONLY <2>1, <2>2, ReadsAgain
  <2>4. d.fn.name = "_readdir"
    BY ONLY <2>1, <2>2, ReadsAgain
  <2>5. \A x : Owes(d.fn, x) = Owes(Fn, x)
    <3>1. d.fn.cb = Fn.cb /\ d.fn.name = "_readdir"
      BY <2>2 DEF Readdir, Call
    <3>2. QED
      BY <1>2, <1>3, <3>1, OwesWhat
  <2>6. QED
    BY <2>3, <2>4, <2>5
<1>6. FieldsOK(Fn.g, noted) /\ SameCount(Me, noted) /\ noted.cache = Me.cache
  BY <1>2, <1>5, LinkOK
<1>7. CASE Return(<<c>>) /\ UNCHANGED self
  <2>1. Becomes(Me) /\ SameCount(Me, Me)
    BY <1>2, <1>7, Becoming DEF SameCount
  <2>2. QED
    BY <1>1, <1>2, <1>3, <1>7, <2>1, HandOver
<1>8. CASE Set([noted EXCEPT !.cache = put(@, Fn.abs, Kind("FILE"))]) /\ Return(<<c>>)
  <2> DEFINE f == put(noted.cache, Fn.abs, Kind("FILE"))
             s == [noted EXCEPT !.cache = f]
  <2>1. Known(noted.cache) /\ IsSeq(Kind("FILE").entries)
    BY <1>6, SeqNone DEF FieldsOK, Kind
  <2>2. Known(f)
    <3> HIDE DEF noted
    <3>1. QED
      BY <2>1, PutKnown
  <2>3. Becomes(s)
    BY <1>2, <1>8, Becoming
  <2> HIDE DEF noted, f
  <2>4. FieldsOK(Fn.g, s) /\ SameCount(noted, s)
    BY <1>6, <2>2, CacheOK
  <2>5. SameCount(Me, s)
    BY <1>6, <2>4 DEF SameCount
  <2> HIDE DEF s
  <2>6. QED
    BY <1>1, <1>2, <1>3, <1>8, <2>3, <2>4, <2>5, HandOver
<1>9. CASE Set(noted) /\ Return(<<d>>)
  <2>1. Becomes(noted)
    BY <1>2, <1>9, Becoming
  <2> HIDE DEF noted
  <2>2. QED
    BY <1>1, <1>2, <1>4, <1>6, <1>9, <2>1, HandOver
<1>10. QED
  BY <1>7, <1>8, <1>9 DEF lstatcb, noted, b, c, d

LEMMA ReaddirCbKeeps == ASSUME TypeInv, CountInv, readdirCb PROVE Kept
<1>1. Top("readdirCb") /\ "readdirCb" \in Own /\ UNCHANGED <<search, reqs, pending, ticks, draining>>
  BY DEF readdirCb, Own
<1>2. /\ stack # <<>> /\ Fn.name = "readdirCb" /\ Fn.name \in Own /\ Fn.g \in Globs
      /\ FieldsOK(Fn.g, Me) /\ FnOK(Fn, Running) /\ IsSeq(Ans.entries) /\ SeenOK(out[Fn.g])
      /\ Me._processing \in Int /\ Len(Me._processQueue) \in Nat
  BY <1>1, OnTop
<1>3. Fn.cb.name = "RES" /\ \A x : Owes(Fn.cb, x) = Owes(Fn, x)
  BY <1>2, CallbackOK
<1> DEFINE fails == Ans.er = "EACCES" /\ o(Fn.g).strict
           noted == _readdirError(Me, Fn.abs, Ans.er)
<1>4. CASE Me.aborted /\ Return(<<>>) /\ UNCHANGED <<self, out>>
  <2>1. \A x : Owes(Fn, x) = IF x = Asked(Fn.cb.key) THEN 1 ELSE 0
    BY <1>2, OwesWhat
  <2>2. QED
    BY <1>1, <1>2, <1>4, <2>1, LostStep DEF Kept
<1>5. CASE /\ Set(_readdirEntries(Me, Fn.abs, Ans.entries))
           /\ Return(<<Answer(Fn.cb, Ans)>>) /\ UNCHANGED out
  <2> DEFINE s == _readdirEntries(Me, Fn.abs, Ans.entries)
             c == Answer(Fn.cb, Ans)
  <2>1. FieldsOK(Fn.g, s) /\ SameCount(Me, s)
    BY <1>2, EntriesOK
  <2>2. Becomes(s)
    BY <1>2, <1>5, Becoming
  <2>3. FrameOK(c, Running) /\ c.fn = Fn.cb
    BY <1>2, CallbackOK
  <2>4. Return(<<c>>)
    BY <1>5
  <2> HIDE DEF s, c
  <2>5. QED
    BY <1>1, <1>2, <1>3, <1>5, <2>1, <2>2, <2>3, <2>4, HandOver
<1>6. CASE /\ Set([noted EXCEPT !.aborted = @ \/ fails])
           /\ out' = [out EXCEPT ![Fn.g].error = @ \/ fails]
           /\ Return(<<Call(Fn.cb)>>)
  <2> DEFINE b == noted.aborted \/ fails
             s == [noted EXCEPT !.aborted = b]
             c == Call(Fn.cb)
             calls == <<c>>
  <2>1. FieldsOK(Fn.g, noted) /\ SameCount(Me, noted)
    BY <1>2, ErrorOK
  <2>2. b \in BOOLEAN /\ (noted.aborted => b)
    BY <2>1 DEF FieldsOK
  <2>3. Becomes(s)
    BY <1>2, <1>6, Becoming
  <2>4. Seeing
    <3> DEFINE w == [out[Fn.g] EXCEPT !.error = @ \/ fails]
    <3>1. SeenOK(w) /\ w.started = out[Fn.g].started
      BY <1>2 DEF SeenOK
    <3>2. DOMAIN out = Globs /\ \A h \in Globs : SeenOK(out[h])
      BY DEF TypeInv, SelfInv
    <3>3. out' = [out EXCEPT ![Fn.g] = w]
      BY <1>2, <1>6, <3>2
    <3> HIDE DEF w
    <3>4. QED
      BY <1>2, <3>1, <3>2, <3>3 DEF Seeing
  <2>5. FrameOK(c, Running) /\ c.fn = Fn.cb
    BY <1>2, CallbackOK
  <2>6. Return(calls)
    BY <1>6
  <2> HIDE DEF c
  <2>7. FramesOK(calls, Running) /\ NoCleanup(calls)
    BY <1>3, <2>5, FramesFew
  <2>8. \A x : InCalls(calls, x) = Owes(Fn, x)
    BY <1>3, <2>5, InOne
  <2> HIDE DEF b, noted, calls
  <2>9. /\ FieldsOK(Fn.g, s) /\ s._processing = noted._processing
        /\ s._processQueue = noted._processQueue /\ s.aborted = b /\ s.paused = noted.paused
    BY <2>1, <2>2, AbortOK
  <2> HIDE DEF s
  <2>10. /\ s._processing = Me._processing /\ s._processQueue = Me._processQueue
         /\ s.paused = Me.paused /\ (Me.aborted => s.aborted)
    BY <2>1, <2>2, <2>9 DEF SameCount
  <2> DEFINE n == 0
  <2>11. n \in Int /\ n = 0
    OBVIOUS
  <2>12. ASSUME NEW x PROVE InCalls(calls, x) = Owes(Fn, x) + IF x = Step(Fn.g) THEN n ELSE 0
    BY <2>8, OwesWhat
  <2> HIDE DEF n
  <2>13. /\ s._processing - Len(s._processQueue) = Me._processing - Len(Me._processQueue) + n
         /\ s._processing - Len(s._processQueue) >= Me._processing - Len(Me._processQueue) + n
    BY <1>2, <2>10, <2>11
  <2>14. QED
    BY <1>1, <1>2, <2>3, <2>4, <2>6, <2>7, <2>9, <2>10, <2>11, <2>12, <2>13, QuietStep DEF Kept
<1>7. QED
  BY <1>4, <1>5, <1>6 DEF readdirCb, fails, noted

\* The answers of _stat.
LEMMA StatAnswers ==
    ASSUME NEW f, NEW kind
    PROVE  IsSeq(typeAnswer(f, kind).entries) /\ IsSeq(Kind(kind).entries)
BY SeqNone DEF typeAnswer, Nothing, Kind

LEMMA SimpleOK ==
    ASSUME NEW fn, fn.name = "_processSimple2", fn.g \in Running, NEW a, IsSeq(a.entries)
    PROVE  /\ FrameOK(Answer(fn, a), Running) /\ Answer(fn, a).fn.name = "_processSimple2"
           /\ Answer(fn, a).fn.g = fn.g
<1>1. FnOK(fn, Running)
  BY DEF FnOK, Own
<1>2. Answer(fn, a).fn = fn
  BY DEF Answer
<1>3. QED
  BY <1>1, <1>2, AnswerOK

LEMMA Stat2Keeps ==
    ASSUME TypeInv, CountInv, NEW name \in {"statcb", "targetcb"}, Top(name), NEW kind, _stat2(kind),
           UNCHANGED <<search, out, reqs, pending, ticks, draining>>
    PROVE  Kept
<1>1. name \in Own
  BY DEF Own
<1>2. Fn.name = name /\ Fn.g \in Running /\ Fn.g \in Globs /\ FieldsOK(Fn.g, Me) /\ FnOK(Fn, Running)
  BY <1>1, OnTop
<1>3. Fn.then.name = "_processSimple2" /\ Fn.then.g = Fn.g
  BY <1>2 DEF FnOK
<1> DEFINE k == IF Fn.abs \in DOMAIN Me.cache THEN Me.cache[Fn.abs] ELSE Kind("false")
           v == IF k.kind = "false" THEN Kind(type(kind)) ELSE k
           f == put(Me.statCache, Fn.abs, Kind(kind))
           h == put(Me.cache, Fn.abs, v)
           s == [Me EXCEPT !.statCache = f, !.cache = h]
           a == typeAnswer(Fn.then.f, kind)
           c == Answer(Fn.then, a)
<1>4. Set(s) /\ Return(<<c>>)
  BY DEF _stat2
<1>5. IsSeq(a.entries)
  BY StatAnswers
<1> HIDE DEF a
<1>6. FrameOK(c, Running) /\ c.fn.name = "_processSimple2" /\ c.fn.g = Fn.g
  BY <1>2, <1>3, <1>5, SimpleOK
<1>7. IsSeq(v.entries)
  BY <1>2, StatAnswers DEF FieldsOK, Known
<1>8. Known(f)
  BY <1>2, StatAnswers, PutKnown DEF FieldsOK
<1>9. Known(h)
  <2> HIDE DEF v
  <2>1. QED
    BY <1>2, <1>7, PutKnown DEF FieldsOK
<1> HIDE DEF f, h, c
<1>10. FieldsOK(Fn.g, s) /\ SameCount(Me, s)
  BY <1>2, <1>8, <1>9, StatCachesOK
<1> HIDE DEF s
<1>11. Becomes(s)
  BY <1>2, <1>4, Becoming
<1>12. \A x : Owes(c.fn, x) = Owes(Fn, x)
  BY <1>2, <1>6, OwesWhat
<1>13. QED
  BY <1>1, <1>2, <1>4, <1>6, <1>10, <1>11, <1>12, HandOver

LEMMA TargetcbKeeps == ASSUME TypeInv, CountInv, targetcb PROVE Kept
<1> DEFINE kind == IF Ans.er = "" THEN Ans.kind ELSE "link"
<1>1. Top("targetcb") /\ _stat2(kind) /\ UNCHANGED <<search, out, reqs, pending, ticks, draining>>
  BY DEF targetcb
<1> HIDE DEF kind
<1>2. QED
  BY <1>1, Stat2Keeps

LEMMA StatcbKeeps == ASSUME TypeInv, CountInv, statcb PROVE Kept
<1>1. Top("statcb") /\ "statcb" \in Own /\ UNCHANGED <<search, out, reqs, ticks, draining>>
  BY DEF statcb, Own
<1>2. /\ Fn.name = "statcb" /\ Fn.g \in Running /\ Fn.g \in Globs /\ FieldsOK(Fn.g, Me)
      /\ FnOK(Fn, Running) /\ stack # <<>> /\ Fn.name \in Own
  BY <1>1, OnTop
<1>3. /\ Fn.then.name = "_processSimple2" /\ Fn.then.g = Fn.g
      /\ Fn = [name |-> "statcb", g |-> Fn.g, abs |-> Fn.abs, then |-> Fn.then]
  BY <1>2 DEF FnOK
<1>4. CASE /\ Set([Me EXCEPT !.statCache = put(@, Fn.abs, Kind("false"))])
           /\ Return(<<Call(Fn.then)>>) /\ UNCHANGED pending
  <2> DEFINE f == put(Me.statCache, Fn.abs, Kind("false"))
             s == [Me EXCEPT !.statCache = f]
             c == Call(Fn.then)
  <2>1. Known(f)
    BY <1>2, StatAnswers, PutKnown DEF FieldsOK
  <2>2. Becomes(s)
    BY <1>2, <1>4, Becoming
  <2> HIDE DEF f
  <2>3. FieldsOK(Fn.g, s) /\ SameCount(Me, s)
    BY <1>2, <2>1, StatCacheOK
  <2>4. FnOK(Fn.then, Running)
    BY <1>2, <1>3 DEF FnOK, Own
  <2>5. FrameOK(c, Running) /\ c.fn = Fn.then
    BY <2>4, AnswerOK DEF Call
  <2>6. \A x : Owes(c.fn, x) = Owes(Fn, x)
    BY <1>2, <1>3, <2>5, OwesWhat
  <2>7. Return(<<c>>)
    BY <1>4
  <2> HIDE DEF s, c
  <2>8. QED
    BY <1>1, <1>2, <1>3, <1>4, <2>2, <2>3, <2>5, <2>6, <2>7, HandOver
<1>5. CASE /\ Ask("stat", Fn.abs, [Fn EXCEPT !.name = "targetcb"])
           /\ Return(<<>>) /\ UNCHANGED self
  <2> DEFINE cb == [Fn EXCEPT !.name = "targetcb"]
             call == "stat"
  <2>1. cb.name = "targetcb" /\ cb.g = Fn.g /\ cb.then = Fn.then
    BY <1>3
  <2>2. Ask(call, Fn.abs, cb) /\ call \in {"lstat", "stat", "readdir"}
    BY <1>5
  <2> HIDE DEF cb, call
  <2>3. FnOK(cb, Running)
    BY <1>2, <1>3, <2>1 DEF FnOK, Own
  <2>4. AskOK([call |-> call, abs |-> Fn.abs, cb |-> cb], Running)
    BY <2>1, <2>2, <2>3 DEF AskOK, AskNames
  <2>5. \A x : Owes(cb, x) = Owes(Fn, x)
    BY <1>2, <2>1, OwesWhat
  <2>6. QED
    BY <1>1, <1>2, <1>5, <2>2, <2>4, <2>5, CallStep DEF Kept
<1>6. CASE _stat2(Ans.kind) /\ UNCHANGED pending
  BY <1>1, <1>6, Stat2Keeps
<1>7. QED
  BY <1>4, <1>5, <1>6 DEF statcb

\* A call of fs.
LEMMA AskedFs ==
    ASSUME TypeInv, NEW call \in {"lstat", "stat", "readdir"}, NEW abs, NEW cb, Ask(call, abs, cb),
           FnOK(cb, Running), cb.name \in AskNames
    PROVE  /\ IsBag(pending') /\ \A q \in DOMAIN pending' : AskOK(q, Running)
           /\ \A x : InBag(pending', x) = InBag(pending, x) + Owes(cb, x)
<1> DEFINE r == [call |-> call, abs |-> abs, cb |-> cb]
           c == pending (+) SetToBag({r})
<1>1. pending' = c /\ r.cb = cb /\ AskOK(r, Running)
  BY DEF Ask, AskOK
<1>2. IsBag(pending) /\ \A q \in DOMAIN pending : AskOK(q, Running)
  BY DEF TypeInv, PendingInv
<1> HIDE DEF r
<1>3. /\ IsBag(c) /\ DOMAIN c = DOMAIN pending \cup {r}
      /\ \A x : InBag(c, x) = InBag(pending, x) + Owes(r.cb, x)
  BY <1>2, BagPut
<1> HIDE DEF c
<1>4. QED
  BY <1>1, <1>2, <1>3

\* The callback that answers a request.
LEMMA ResOK ==
    ASSUME NEW R, NEW key
    PROVE  /\ FnOK(RES(key), R) /\ RES(key).name = "RES" /\ RES(key).key = key
           /\ \A x : Owes(RES(key), x) = IF x = Asked(key) THEN 1 ELSE 0
<1>1. RES(key).name = "RES" /\ RES(key).key = key
  BY DEF RES
<1>2. FnOK(RES(key), R)
  BY <1>1 DEF FnOK, Own
<1>3. QED
  BY <1>1, <1>2, OwesWhat

LEMMA AskOnceStep ==
    ASSUME TypeInv, CountInv, NEW name \in Own, Top(name), Return(<<>>),
           UNCHANGED <<search, self, out, ticks, draining>>,
           NEW key, NEW call \in {"lstat", "stat", "readdir"}, NEW abs, NEW cb, WaitOK(cb, Running),
           AskOnce(key, call, abs, cb), \A x : Owes(cb, x) = Owes(Fn, x)
    PROVE  Kept
<1>1. stack # <<>> /\ Fn.name \in Own
  BY OnTop
<1>2. FramesOK(<<>>, Running) /\ NoCleanup(<<>>) /\ \A x : InCalls(<<>>, x) = 0
  BY FramesFew, InNone
<1>3. inflight(key, cb)
  BY DEF AskOnce
<1>4. CASE key \in DOMAIN reqs
  <2>1. pending' = pending
    BY <1>4 DEF AskOnce
  <2>2. IsBag(pending') /\ \A r \in DOMAIN pending' : AskOK(r, Running)
    BY <2>1 DEF TypeInv, PendingInv
  <2>3. ASSUME NEW x
        PROVE  InCalls(<<>>, x) + InBag(pending', x)
                 = InBag(pending, x) + IF x = Asked(key) /\ key \notin DOMAIN reqs THEN 1 ELSE 0
    BY <1>2, <1>4, <2>1, Numbers
  <2>4. QED
    BY <1>1, <1>2, <1>3, <2>2, <2>3, AskStep DEF Kept
<1>5. CASE key \notin DOMAIN reqs
  <2>1. Ask(call, abs, RES(key))
    BY <1>5 DEF AskOnce
  <2>2. FnOK(RES(key), Running) /\ RES(key).name \in AskNames
    BY ResOK DEF AskNames
  <2>3. /\ IsBag(pending') /\ \A r \in DOMAIN pending' : AskOK(r, Running)
        /\ \A x : InBag(pending', x) = InBag(pending, x) + Owes(RES(key), x)
    BY <2>1, <2>2, AskedFs
  <2>4. ASSUME NEW x
        PROVE  InCalls(<<>>, x) + InBag(pending', x)
                 = InBag(pending, x) + IF x = Asked(key) /\ key \notin DOMAIN reqs THEN 1 ELSE 0
    <3>1. Owes(RES(key), x) = IF x = Asked(key) THEN 1 ELSE 0
      BY ResOK
    <3>2. InCalls(<<>>, x) = 0 /\ InBag(pending, x) \in Nat
      BY <1>2, Numbers
    <3>3. InBag(pending', x) = InBag(pending, x) + IF x = Asked(key) THEN 1 ELSE 0
      BY <2>3, <3>1
    <3>4. QED
      BY ONLY <1>5, <3>2, <3>3
  <2>5. QED
    BY <1>1, <1>2, <1>3, <2>3, <2>4, AskStep DEF Kept
<1>6. QED
  BY <1>4, <1>5

LEMMA StatKeeps == ASSUME TypeInv, CountInv, _stat PROVE Kept
<1>1. Top("_stat") /\ "_stat" \in Own /\ UNCHANGED <<search, self, out, ticks, draining>>
  BY DEF _stat, Own
<1>2. /\ Fn.name = "_stat" /\ Fn.g \in Running /\ Fn.g \in Globs /\ FieldsOK(Fn.g, Me)
  BY <1>1, OnTop
<1> DEFINE abs  == makeAbs(Fn.f)
           cached == cachedStat(Me, Fn.f)
           then == [name |-> "_processSimple2", g |-> Fn.g, f |-> Fn.f, index |-> Fn.index]
           known(c) == IF c.kind = "false" THEN c ELSE typeAnswer(Fn.f, c.kind)
           cb == [name |-> "statcb", g |-> Fn.g, abs |-> abs, then |-> then]
           key == Key("stat", abs)
<1>3. then.name = "_processSimple2" /\ then.g = Fn.g
  OBVIOUS
<1>4. /\ cb.name = "statcb" /\ cb.g = Fn.g
      /\ cb = [name |-> "statcb", g |-> cb.g, abs |-> cb.abs, then |-> cb.then]
      /\ cb.then.name = "_processSimple2" /\ cb.then.g = cb.g
  OBVIOUS
<1>5. ASSUME NEW a, IsSeq(a.entries), Return(<<Answer(then, a)>>), UNCHANGED <<reqs, pending>>
      PROVE  Kept
  <2> DEFINE c == Answer(then, a)
  <2> HIDE DEF then
  <2>1. FrameOK(c, Running) /\ c.fn.name = "_processSimple2" /\ c.fn.g = Fn.g
    BY <1>2, <1>3, <1>5, SimpleOK
  <2>2. \A x : Owes(c.fn, x) = Owes(Fn, x)
    BY <1>2, <2>1, OwesWhat
  <2>3. Becomes(Me) /\ SameCount(Me, Me)
    BY <1>1, <1>2, Becoming DEF SameCount
  <2>4. Return(<<c>>)
    BY <1>5
  <2> HIDE DEF c
  <2>5. QED
    BY <1>1, <1>2, <1>5, <2>1, <2>2, <2>3, <2>4, HandOver
<1>6. CASE /\ \E c \in cached : Return(<<Answer(then, c)>>)
           /\ UNCHANGED <<reqs, pending>>
  <2>1. PICK c \in cached : Return(<<Answer(then, c)>>)
    BY <1>6
  <2>2. IsSeq(c.entries)
    BY StatAnswers DEF cachedStat, Nothing
  <2>3. QED
    BY <1>5, <1>6, <2>1, <2>2
<1>7. CASE /\ abs \in DOMAIN Me.statCache
           /\ Return(<<Answer(then, known(Me.statCache[abs]))>>)
           /\ UNCHANGED <<reqs, pending>>
  <2>1. IsSeq(Me.statCache[abs].entries)
    BY <1>2, <1>7 DEF FieldsOK, Known
  <2>2. IsSeq(known(Me.statCache[abs]).entries)
    BY <2>1, StatAnswers
  <2> DEFINE a == known(Me.statCache[abs])
  <2>3. Return(<<Answer(then, a)>>) /\ UNCHANGED <<reqs, pending>> /\ IsSeq(a.entries)
    BY <1>7, <2>2
  <2> HIDE DEF a, then
  <2>4. QED
    BY <1>5, <2>3
<1>8. CASE /\ AskOnce(key, "lstat", abs, cb)
           /\ Return(<<>>)
  <2> DEFINE call == "lstat"
  <2>1. AskOnce(key, call, abs, cb) /\ call \in {"lstat", "stat", "readdir"}
    BY <1>8
  <2> HIDE DEF cb, call, key, abs
  <2>2. WaitOK(cb, Running)
    BY <1>2, <1>4 DEF WaitOK, FnOK, Own, WaitNames
  <2>3. \A x : Owes(cb, x) = Owes(Fn, x)
    BY <1>2, <1>4, OwesWhat
  <2>4. QED
    BY <1>1, <1>8, <2>1, <2>2, <2>3, AskOnceStep
<1>9. QED
  BY <1>6, <1>7, <1>8 DEF _stat

LEMMA ReaddirInGlobStarKeeps == ASSUME TypeInv, CountInv, _readdirInGlobStar PROVE Kept
<1>1. Top("_readdirInGlobStar") /\ "_readdirInGlobStar" \in Own
      /\ UNCHANGED <<search, self, out, ticks, draining>>
  BY DEF _readdirInGlobStar, Own
<1>2. /\ Fn.name = "_readdirInGlobStar" /\ Fn.g \in Running /\ Fn.g \in Globs
      /\ FieldsOK(Fn.g, Me) /\ FnOK(Fn, Running)
  BY <1>1, OnTop
<1>3. Fn.cb = RES(Fn.cb.key) /\ Fn.cb.name = "RES"
  BY <1>2, CallbackOK
<1> DEFINE no == FALSE
           c == Readdir(Fn.g, Fn.abs, no, Fn.cb)
           key == Key("lstat", Fn.abs)
           cb == [name |-> "lstatcb", g |-> Fn.g, abs |-> Fn.abs, cb |-> Fn.cb]
<1>4. CASE Return(<<c>>) /\ UNCHANGED <<reqs, pending>>
  <2>1. c.fn.name = "_readdir" /\ c.fn.cb = Fn.cb /\ c = Readdir(Fn.g, Fn.abs, no, Fn.cb)
    BY DEF Readdir, Call
  <2> HIDE DEF c, no
  <2>2. FnOK(Fn, Running) /\ Fn.name \in {"_readdirInGlobStar", "lstatcb", "readdirCb"}
    BY <1>2
  <2>3. FrameOK(c, Running)
    BY <2>1, <2>2, ReadsAgain
  <2>4. \A x : Owes(c.fn, x) = Owes(Fn, x)
    BY <1>2, <1>3, <2>1, OwesWhat
  <2>5. Becomes(Me) /\ SameCount(Me, Me)
    BY <1>1, <1>2, Becoming DEF SameCount
  <2>6. QED
    BY <1>1, <1>2, <1>4, <2>1, <2>3, <2>4, <2>5, HandOver
<1>5. CASE AskOnce(key, "lstat", Fn.abs, cb) /\ Return(<<>>)
  <2> DEFINE call == "lstat"
  <2>1. AskOnce(key, call, Fn.abs, cb) /\ call \in {"lstat", "stat", "readdir"}
    BY <1>5
  <2>2. cb.name = "lstatcb" /\ cb.g = Fn.g /\ cb.cb = Fn.cb
    OBVIOUS
  <2> HIDE DEF cb, call, key
  <2>3. WaitOK(cb, Running)
    BY <1>2, <1>3, <2>2 DEF WaitOK, FnOK, Own, WaitNames
  <2>4. \A x : Owes(cb, x) = Owes(Fn, x)
    BY <1>2, <2>2, OwesWhat
  <2>5. QED
    BY <1>1, <1>5, <2>1, <2>3, <2>4, AskOnceStep
<1>6. QED
  BY <1>4, <1>5 DEF _readdirInGlobStar

\* The one request of a key is begun by this call.
LEMMA AskFirst ==
    ASSUME TypeInv, CountInv, NEW name \in Own, Top(name),
           UNCHANGED <<search, self, out, pending, ticks, draining>>,
           NEW c, FrameOK(c, Running), c.fn.name # "cleanup", Return(<<c>>),
           NEW key, key \notin DOMAIN reqs, NEW cb, WaitOK(cb, Running), inflight(key, cb),
           \A x : Owes(cb, x) = Owes(Fn, x),
           \A x : Owes(c.fn, x) = IF x = Asked(key) THEN 1 ELSE 0
    PROVE  Kept
<1> DEFINE calls == <<c>>
<1>1. stack # <<>> /\ Fn.name \in Own
  BY OnTop
<1>2. FramesOK(calls, Running) /\ NoCleanup(calls)
  BY FramesFew
<1>3. IsBag(pending') /\ \A r \in DOMAIN pending' : AskOK(r, Running)
  BY DEF TypeInv, PendingInv
<1>4. ASSUME NEW x
      PROVE  InCalls(calls, x) + InBag(pending', x)
               = InBag(pending, x) + IF x = Asked(key) /\ key \notin DOMAIN reqs THEN 1 ELSE 0
  <2>1. InCalls(calls, x) = IF x = Asked(key) THEN 1 ELSE 0
    BY InOne
  <2>2. InBag(pending', x) = InBag(pending, x) /\ InBag(pending, x) \in Nat
    BY Numbers
  <2>3. QED
    BY <2>1, <2>2
<1>5. Return(calls)
  OBVIOUS
<1> HIDE DEF calls
<1>6. QED
  BY <1>1, <1>2, <1>3, <1>4, <1>5, AskStep DEF Kept

LEMMA CallbackMade ==
    ASSUME NEW R, NEW fn, fn.name \in {"_readdirInGlobStar", "lstatcb", "readdirCb"}, fn.g \in R,
           NEW key, fn.cb = RES(key)
    PROVE  FnOK(fn, R)
<1>1. fn.cb.key = key
  BY DEF RES
<1>2. fn.cb = RES(fn.cb.key)
  BY <1>1
<1>3. QED
  BY <1>2 DEF FnOK, Own

LEMMA CachedSeq ==
    ASSUME NEW g, NEW s, FieldsOK(g, s), NEW abs, NEW c \in cachedEntries(s, abs)
    PROVE  IsSeq(c.entries)
<1> DEFINE d == IF abs \in DOMAIN s.cache THEN s.cache[abs] ELSE Kind("unknown")
<1>1. c = Nothing \/ c = d
  BY DEF cachedEntries
<1>2. IsSeq(Nothing.entries)
  BY SeqNone DEF Nothing, Kind
<1>3. IsSeq(d.entries)
  BY StatAnswers DEF FieldsOK, Known
<1> HIDE DEF d
<1>4. QED
  BY <1>1, <1>2, <1>3

LEMMA ReaddirKeeps == ASSUME TypeInv, CountInv, _readdir PROVE Kept
<1>1. Top("_readdir") /\ "_readdir" \in Own /\ UNCHANGED <<search, self, out, ticks, draining>>
  BY DEF _readdir, Own
<1>2. /\ stack # <<>> /\ Fn.name = "_readdir" /\ Fn.name \in Own /\ Fn.g \in Running /\ Fn.g \in Globs
      /\ FieldsOK(Fn.g, Me) /\ FnOK(Fn, Running)
      /\ Me._processing \in Int /\ Len(Me._processQueue) \in Nat
  BY <1>1, OnTop
<1>3. \/ Fn.cb.name = "RES" /\ Fn.cb = RES(Fn.cb.key)
      \/ Fn.cb.name \in {"_processReaddir2", "_processGlobStar2"} /\ Fn.cb.g = Fn.g
  BY <1>2 DEF FnOK
<1>4. WaitOK(Fn.cb, Running)
  <2>1. CASE Fn.cb.name = "RES" /\ Fn.cb = RES(Fn.cb.key)
    BY <2>1, ResOK DEF WaitOK, WaitNames
  <2>2. CASE Fn.cb.name \in {"_processReaddir2", "_processGlobStar2"} /\ Fn.cb.g = Fn.g
    BY <1>2, <2>2 DEF WaitOK, WaitNames, FnOK, Own
  <2>3. QED
    BY <1>3, <2>1, <2>2
<1>5. \A x : Owes(Fn.cb, x) = Owes(Fn, x)
  BY <1>2, <1>3, OwesWhat
<1>6. FramesOK(<<>>, Running) /\ NoCleanup(<<>>) /\ \A x : InCalls(<<>>, x) = 0
  BY FramesFew, InNone
<1> DEFINE key == Key(IF Fn.inGlobStar THEN "readdir in **" ELSE "readdir", Fn.abs)
           cached == cachedEntries(Me, Fn.abs)
           readdirCb1 == [name |-> "readdirCb", g |-> Fn.g, abs |-> Fn.abs, cb |-> RES(key)]
           c1 == Call([name |-> "_readdirInGlobStar", g |-> Fn.g, abs |-> Fn.abs, cb |-> RES(key)])
<1>7. readdirCb1.name = "readdirCb" /\ readdirCb1.g = Fn.g /\ readdirCb1.cb = RES(key)
  OBVIOUS
<1>8. /\ c1.fn.name = "_readdirInGlobStar" /\ c1.fn.g = Fn.g /\ c1.fn.cb = RES(key)
      /\ IsSeq(c1.answer.entries)
  BY SeqNone DEF Call, Nothing, Kind
<1>9. CASE Me.aborted /\ Return(<<>>) /\ UNCHANGED <<reqs, pending>>
  <2>1. CASE Fn.cb.name = "RES"
    <3>1. \A x : Owes(Fn, x) = IF x = Asked(Fn.cb.key) THEN 1 ELSE 0
      BY <1>2, <2>1, OwesWhat
    <3>2. QED
      BY <1>1, <1>2, <1>9, <3>1, LostStep DEF Kept
  <2>2. CASE Fn.cb.name # "RES"
    <3>1. ASSUME NEW x PROVE InCalls(<<>>, x) = Owes(Fn, x) + IF x = Step(Fn.g) THEN -1 ELSE 0
      BY <1>2, <1>6, <2>2, OwesWhat
    <3>2. Becomes(Me) /\ Seeing
      BY <1>1, <1>2, Becoming
    <3>3. -1 \in Int /\ Me._processing - Len(Me._processQueue)
                          >= Me._processing - Len(Me._processQueue) + (-1)
      BY <1>2
    <3>4. QED
      BY <1>1, <1>2, <1>6, <1>9, <3>1, <3>2, <3>3, QuietStep DEF Kept
  <2>3. QED
    BY <2>1, <2>2
<1>10. CASE key \in DOMAIN reqs /\ inflight(key, Fn.cb) /\ Return(<<>>) /\ UNCHANGED pending
  <2> HIDE DEF key
  <2>1. IsBag(pending') /\ \A r \in DOMAIN pending' : AskOK(r, Running)
    BY <1>10 DEF TypeInv, PendingInv
  <2>2. ASSUME NEW x
        PROVE  InCalls(<<>>, x) + InBag(pending', x)
                 = InBag(pending, x) + IF x = Asked(key) /\ key \notin DOMAIN reqs THEN 1 ELSE 0
    BY <1>6, <1>10, Numbers
  <2>3. QED
    BY <1>1, <1>2, <1>4, <1>5, <1>6, <1>10, <2>1, <2>2, AskStep DEF Kept
<1>11. CASE /\ key \notin DOMAIN reqs /\ inflight(key, Fn.cb)
            /\ Return(<<c1>>) /\ UNCHANGED pending
  <2> HIDE DEF key, c1
  <2>1. FrameOK(c1, Running)
    BY <1>2, <1>8, CallbackMade DEF FrameOK
  <2>2. \A x : Owes(c1.fn, x) = IF x = Asked(key) THEN 1 ELSE 0
    BY <1>8, ResOK, OwesWhat
  <2>3. c1.fn.name # "cleanup"
    BY <1>8
  <2>4. QED
    BY <1>1, <1>4, <1>5, <1>11, <2>1, <2>2, <2>3, AskFirst
<1>12. CASE /\ key \notin DOMAIN reqs /\ inflight(key, Fn.cb)
            /\ \E c \in cached : Return(<<Answer(RES(key), c)>>)
            /\ UNCHANGED pending
  <2> HIDE DEF key
  <2>1. PICK c \in cached : Return(<<Answer(RES(key), c)>>)
    BY <1>12
  <2>2. IsSeq(c.entries)
    BY <1>2, CachedSeq
  <2> DEFINE a == Answer(RES(key), c)
  <2>3. FrameOK(a, Running) /\ a.fn = RES(key)
    BY <2>2, ResOK, AnswerOK DEF Answer
  <2>4. Return(<<a>>)
    BY <2>1
  <2> HIDE DEF a
  <2>5. a.fn.name # "cleanup" /\ \A x : Owes(a.fn, x) = IF x = Asked(key) THEN 1 ELSE 0
    BY <2>3, ResOK
  <2>6. QED
    BY <1>1, <1>4, <1>5, <1>12, <2>3, <2>4, <2>5, AskFirst
<1>13. CASE /\ key \notin DOMAIN reqs /\ inflight(key, Fn.cb)
            /\ Ask("readdir", Fn.abs, readdirCb1) /\ Return(<<>>)
  <2> DEFINE call == "readdir"
  <2>1. Ask(call, Fn.abs, readdirCb1) /\ call \in {"lstat", "stat", "readdir"}
    BY <1>13
  <2> HIDE DEF call, readdirCb1, key
  <2>2. FnOK(readdirCb1, Running) /\ readdirCb1.name \in AskNames
    BY <1>2, <1>7, CallbackMade DEF AskNames
  <2>3. /\ IsBag(pending') /\ \A r \in DOMAIN pending' : AskOK(r, Running)
        /\ \A x : InBag(pending', x) = InBag(pending, x) + Owes(readdirCb1, x)
    BY <2>1, <2>2, AskedFs
  <2>4. ASSUME NEW x
        PROVE  InCalls(<<>>, x) + InBag(pending', x)
                 = InBag(pending, x) + IF x = Asked(key) /\ key \notin DOMAIN reqs THEN 1 ELSE 0
    <3>1. Owes(readdirCb1, x) = IF x = Asked(key) THEN 1 ELSE 0
      BY <1>7, ResOK, OwesWhat
    <3>2. InCalls(<<>>, x) = 0 /\ InBag(pending, x) \in Nat
      BY <1>6, Numbers
    <3>3. InBag(pending', x) = InBag(pending, x) + IF x = Asked(key) THEN 1 ELSE 0
      BY <2>3, <3>1
    <3>4. key \notin DOMAIN reqs
      BY <1>13
    <3>5. QED
      BY ONLY <3>2, <3>3, <3>4
  <2>5. QED
    BY <1>1, <1>2, <1>4, <1>5, <1>6, <1>13, <2>3, <2>4, AskStep DEF Kept
<1>14. QED
  <2> HIDE DEF c1, readdirCb1
  <2>1. QED
    BY <1>9, <1>10, <1>11, <1>12, <1>13 DEF _readdir, c1, readdirCb1

\* Who answers a request is the only one to do so.
LEMMA Alone ==
    ASSUME TypeInv, CountInv, stack # <<>>, NEW key, Owes(Fn, Asked(key)) = 1
    PROVE  /\ key \in DOMAIN reqs /\ FramesOK(Tail(stack), Running)
           /\ \A k \in DOMAIN Tail(stack) : Asked(key) \notin Debts(Tail(stack)[k].fn)
           /\ \A n : ~Answered(Tail(stack), <<key, n>>)
<1> DEFINE x == Asked(key)
<1>1. FramesOK(Tail(stack), Running) /\ IsSeq(stack) /\ IsSeq(Tail(stack))
  BY FramesTail, SeqTail DEF TypeInv, StackInv, FramesOK
<1>2. InCalls(stack, x) = 1 + InCalls(Tail(stack), x)
  BY <1>1, InTail DEF Fn
<1>3. IsFiniteSet(Debtors(Tail(stack), x)) /\ InCalls(Tail(stack), x) \in Nat
  BY <1>1, DebtorsFinite
<1>4. /\ InReqs(stack, reqs, x) \in Nat /\ InBag(pending, x) \in Nat /\ InCalls(ticks, x) \in Nat
      /\ InCalls(stack, x) \in Nat
  BY Numbers
<1>5. Owing(x) = InCalls(stack, x) + InReqs(stack, reqs, x) + InBag(pending, x) + InCalls(ticks, x)
  BY DEF Owing, Num
<1>6. Owing(x) <= 1 /\ (key \notin DOMAIN reqs => Owing(x) = 0)
  BY DEF CountInv, KeyLaw
<1> HIDE DEF x
<1>7. key \in DOMAIN reqs /\ InCalls(Tail(stack), x) = 0
  BY <1>2, <1>3, <1>4, <1>5, <1>6
<1>8. Debtors(Tail(stack), x) = {}
  BY <1>3, <1>7, FS_EmptySet DEF InCalls
<1>9. \A k \in DOMAIN Tail(stack) : x \notin Debts(Tail(stack)[k].fn)
  BY <1>8 DEF Debtors
<1>10. ASSUME NEW n, Answered(Tail(stack), <<key, n>>) PROVE FALSE
  <2>1. <<key, n>>[1] = key
    OBVIOUS
  <2>2. PICK k \in DOMAIN Tail(stack) : /\ Tail(stack)[k].fn.name = "cleanup"
                                        /\ Tail(stack)[k].fn.key = key
    BY <1>10, <2>1 DEF Answered
  <2>3. x \in Debts(Tail(stack)[k].fn)
    BY <2>2 DEF Debts, x
  <2>4. QED
    BY <1>9, <2>3
<1>11. QED
  BY <1>1, <1>7, <1>9, <1>10 DEF x

LEMMA ResKeeps == ASSUME TypeInv, CountInv, RES_ PROVE Kept
<1> DEFINE key == Fn.key
           cbs == reqs[key]
           t == [k \in DOMAIN cbs |-> Answer(cbs[k], Ans)]
           c == Answer([name |-> "cleanup", key |-> key, len |-> Len(cbs)], Ans)
<1>1. /\ Top("RES") /\ Return(t \o <<c>>)
      /\ UNCHANGED <<search, self, out, reqs, pending, ticks, draining>>
  BY DEF RES_
<1>2. stack # <<>> /\ Fn.name = "RES"
  BY <1>1 DEF Top, Fn
<1>3. IsSeq(stack) /\ FnOK(Fn, Running) /\ IsSeq(Ans.entries)
  BY <1>2, Acting
<1>4. \A x : Owes(Fn, x) = IF x = Asked(key) THEN 1 ELSE 0
  BY <1>2, OwesWhat
<1>5. key \in DOMAIN reqs /\ FramesOK(Tail(stack), Running) /\ \A n : ~Answered(Tail(stack), <<key, n>>)
  BY <1>2, <1>4, Alone
<1>6. IsReqs(reqs) /\ IsSeq(cbs) /\ Len(cbs) \in Nat /\ DOMAIN cbs = 1..Len(cbs)
  BY <1>5, SeqDomain DEF TypeInv, ReqsInv, IsReqs
<1> HIDE DEF key
<1>7. \A k \in DOMAIN cbs : WaitOK(cbs[k], Running)
  <2>1. TAKE k \in DOMAIN cbs
  <2>2. <<key, k>> \in Places(reqs) /\ <<key, k>>[1] = key /\ <<key, k>>[2] = k
    BY <1>5, <1>6, InPlaces
  <2>3. WaitOK(reqs[<<key, k>>[1]][<<key, k>>[2]], Running)
    BY <2>2 DEF TypeInv, ReqsInv
  <2>4. QED
    BY <2>2, <2>3
<1>8. /\ c.fn.name = "cleanup" /\ c.fn.key = key /\ c.fn.len = Len(cbs)
      /\ IsSeq(c.answer.entries)
  BY <1>3 DEF Answer
<1>9. FrameOK(c, Running)
  BY <1>8 DEF FrameOK, FnOK, Own
<1>10. /\ DOMAIN t = DOMAIN cbs /\ t = [k \in DOMAIN cbs |-> t[k]]
       /\ \A k \in DOMAIN t : t[k].fn = cbs[k] /\ t[k].answer = Ans
  BY DEF Answer
<1> HIDE DEF c, t
<1>11. IsSeq(t)
  BY <1>6, <1>10, SeqMade
<1>12. \A k \in DOMAIN t : FrameOK(t[k], Running) /\ t[k].fn.name # "cleanup"
  BY <1>3, <1>7, <1>10 DEF FrameOK, WaitOK, WaitNames
<1>13. FramesOK(t, Running) /\ NoCleanup(t)
  BY <1>11, <1>12 DEF FramesOK, NoCleanup
<1> DEFINE calls == t \o <<c>>
<1>14. FramesOK(calls, Running) /\ IsSeq(calls)
  BY <1>9, <1>13, FramesFew, FramesCat DEF FramesOK
<1>15. stack' = calls \o Tail(stack)
  BY <1>1 DEF Return
<1>16. /\ SelfInv' /\ Globs' = Globs /\ Running' = Running
       /\ \A h \in Globs : Extra(h)' = Extra(h) /\ SameCount(self[h], self'[h])
  BY <1>1, Resting
<1>17. StackInv'
  BY <1>5, <1>14, <1>15, <1>16, FramesCat DEF StackInv
<1>18. TypeInv'
  BY <1>1, <1>16, <1>17, Unmoved DEF TypeInv
<1>19. \A n : ~Answered(stack, <<key, n>>)
  BY <1>2, <1>3, <1>5, AnsweredTail, AnsweredOne DEF Fn
<1>20. ASSUME NEW x PROVE Owing(x)' = Owing(x)
  <2>1. InCalls(stack', x) = InCalls(calls, x) + InCalls(stack, x) - Owes(Fn, x)
    BY <1>2, <1>3, <1>14, <1>15, InReturn DEF Fn
  <2>2. InCalls(calls, x) = InCalls(t, x) + Owes(c.fn, x)
    BY <1>11, SeqOne, InCat, InOne
  <2>3. Owes(c.fn, x) = Owes(Fn, x) /\ Owes(Fn, x) \in Nat
    BY <1>4, <1>8, OwesWhat
  <2>4. InReqs(stack', reqs, x) + InCalls(t, x) = InReqs(stack, reqs, x)
    <3>1. InReqs((t \o <<c>>) \o Tail(stack), reqs, x) + InCalls(t, x) = InReqs(stack, reqs, x)
      <4>1. Head(stack).fn.name # "cleanup"
        BY <1>2 DEF Fn
      <4>2. \A k \in DOMAIN t : t[k].fn = reqs[key][k]
        BY <1>10
      <4>3. DOMAIN t = DOMAIN reqs[key] /\ c.fn.len = Len(reqs[key])
        BY <1>8, <1>10
      <4>4. /\ IsSeq(stack) /\ stack # <<>> /\ IsReqs(reqs) /\ key \in DOMAIN reqs /\ IsSeq(t)
            /\ NoCleanup(t) /\ c.fn.name = "cleanup" /\ c.fn.key = key
            /\ \A n : ~Answered(stack, <<key, n>>)
        BY <1>2, <1>3, <1>5, <1>6, <1>8, <1>11, <1>13, <1>19
      <4>5. QED
        BY ONLY <4>1, <4>2, <4>3, <4>4, InReqsAnswer
    <3>2. QED
      BY <1>15, <3>1
  <2>5. InCalls(t, x) \in Nat /\ InCalls(stack, x) \in Nat /\ InReqs(stack, reqs, x) \in Nat
        /\ InBag(pending, x) \in Nat /\ InCalls(ticks, x) \in Nat
    BY <1>11, Numbers, DebtorsFinite
  <2>6. InCalls(stack', x) \in Nat /\ InReqs(stack', reqs, x) \in Nat
    BY <1>6, <1>17, DebtorsFinite, WaitersFinite DEF StackInv, FramesOK
  <2>7. InCalls(stack', x) = InCalls(t, x) + InCalls(stack, x)
    BY <2>1, <2>2, <2>3, <2>5
  <2>8. Owing(x)' = InCalls(stack', x) + InReqs(stack', reqs, x) + InBag(pending, x) + InCalls(ticks, x)
    BY <1>1 DEF Owing, Num
  <2>9. Owing(x) = InCalls(stack, x) + InReqs(stack, reqs, x) + InBag(pending, x) + InCalls(ticks, x)
    BY DEF Owing, Num
  <2> HIDE DEF calls
  <2>10. QED
    BY ONLY <2>4, <2>5, <2>6, <2>7, <2>8, <2>9
<1>21. (\A h \in Globs : StepLaw(h))' /\ (\A k : KeyLaw(k))'
  BY <1>1, <1>16, <1>20, SameLaws DEF CountInv
<1>22. CleanLaw'
  <2>1. ASSUME NEW k \in DOMAIN stack', stack'[k].fn.name = "cleanup"
        PROVE  stack'[k].fn.key \in DOMAIN reqs /\ stack'[k].fn.len \in 0..Len(reqs[stack'[k].fn.key])
    <3>1. /\ IsSeq(Tail(stack)) /\ Len(stack) > 0 /\ Len(Tail(stack)) = Len(stack) - 1
          /\ \A j \in 1..Len(stack) - 1 : Tail(stack)[j] = stack[j + 1]
      BY <1>2, <1>3, SeqTail
    <3>3. /\ Len(calls) = Len(t) + 1 /\ (\A j \in 1..Len(t) : calls[j] = t[j]) /\ calls[Len(t) + 1] = c
      BY <1>11, SeqOne, SeqCat
    <3> HIDE DEF calls
    <3>2. /\ IsSeq(stack') /\ Len(stack') = Len(calls) + Len(Tail(stack))
          /\ \A j \in 1..Len(calls) : stack'[j] = calls[j]
          /\ \A j \in 1..Len(Tail(stack)) : stack'[Len(calls) + j] = Tail(stack)[j]
      BY <1>14, <1>15, <3>1, SeqCat
    <3>4. /\ DOMAIN stack' = 1..Len(stack') /\ DOMAIN stack = 1..Len(stack) /\ DOMAIN t = 1..Len(t)
          /\ Len(stack) \in Nat /\ Len(t) \in Nat
      BY <1>3, <1>11, <3>2, SeqDomain
    <3>5. CASE k \in 1..Len(t)
      <4>0. k \in 1..Len(calls)
        BY <3>3, <3>4, <3>5
      <4>1. stack'[k] = t[k] /\ k \in DOMAIN t
        BY <3>2, <3>3, <3>4, <3>5, <4>0
      <4>2. QED
        BY <1>12, <2>1, <4>1
    <3>6. CASE k = Len(t) + 1
      <4>0. k \in 1..Len(calls)
        BY <3>3, <3>4, <3>6
      <4>1. stack'[k] = c
        BY <3>2, <3>3, <3>4, <3>6, <4>0
      <4>2. Len(cbs) \in 0..Len(cbs)
        BY <1>6
      <4>3. QED
        BY <1>5, <1>8, <4>1, <4>2
    <3>7. CASE k > Len(t) + 1
      <4>1. k - Len(calls) \in 1..Len(stack) - 1 /\ k = Len(calls) + (k - Len(calls))
        BY <3>1, <3>2, <3>3, <3>4, <3>7
      <4>2. stack'[k] = stack[(k - Len(calls)) + 1]
        BY <3>1, <3>2, <4>1
      <4>3. (k - Len(calls)) + 1 \in DOMAIN stack
        BY <3>3, <3>4, <4>1
      <4>4. QED
        BY <2>1, <4>2, <4>3 DEF CountInv, CleanLaw
    <3>8. QED
      BY <3>3, <3>4, <3>5, <3>6, <3>7
  <2>2. QED
    BY <1>1, <2>1 DEF CleanLaw
<1>23. QED
  BY <1>18, <1>21, <1>22 DEF Kept, CountInv

LEMMA CleanupKeeps == ASSUME TypeInv, CountInv, cleanup PROVE Kept
<1> DEFINE key == Fn.key
           n == Fn.len
           later == SubSeq(reqs[key], n + 1, Len(reqs[key]))
<1>1. Top("cleanup") /\ Return(<<>>) /\ UNCHANGED <<search, self, out, pending, draining>>
  BY DEF cleanup
<1>2. stack # <<>> /\ Fn.name = "cleanup"
  BY <1>1 DEF Top, Fn
<1>3. IsSeq(stack) /\ IsSeq(Ans.entries)
  BY <1>2, Acting
<1>4. \A x : Owes(Fn, x) = IF x = Asked(key) THEN 1 ELSE 0
  BY <1>2, OwesWhat
<1>5. /\ key \in DOMAIN reqs /\ FramesOK(Tail(stack), Running)
      /\ \A m : ~Answered(Tail(stack), <<key, m>>)
      /\ \A k \in DOMAIN Tail(stack) : Asked(key) \notin Debts(Tail(stack)[k].fn)
  BY <1>2, <1>4, Alone
<1>6. n \in 0..Len(reqs[key])
  <2>1. 1 \in DOMAIN stack /\ stack[1].fn = Fn
    BY <1>2, <1>3, SeqTail, SeqDomain DEF Fn
  <2>2. QED
    BY <1>2, <2>1 DEF CountInv, CleanLaw
<1>7. IsReqs(reqs) /\ IsSeq(reqs[key]) /\ Len(reqs[key]) \in Nat /\ n \in Nat
  BY <1>5, <1>6, SeqDomain DEF TypeInv, ReqsInv, IsReqs
<1>8. /\ Len(later) = Len(reqs[key]) - n /\ (later = <<>> <=> n = Len(reqs[key]))
      /\ \A k \in 1..Len(reqs[key]) - n : later[k] = reqs[key][n + k]
  <2>1. IsSeq(later) /\ Len(later) = Len(reqs[key]) - n
        /\ \A k \in 1..Len(reqs[key]) - n : later[k] = reqs[key][n + k]
    BY <1>6, <1>7, SeqFrom
  <2>2. later = <<>> <=> Len(later) = 0
    BY <2>1, SeqDomain
  <2> HIDE DEF n, later
  <2>3. QED
    BY <1>7, <2>1, <2>2
<1>9. stack' = Tail(stack)
  <2>1. stack' = <<>> \o Tail(stack)
    BY <1>1 DEF Return
  <2>2. PICK S : Tail(stack) \in Seq(S)
    BY <1>5 DEF FramesOK, IsSeq
  <2>3. QED
    BY <2>1, <2>2
<1>10. reqs' = Left(reqs, key, n)
  BY DEF cleanup, Left
<1> HIDE DEF key, n
<1>11. /\ IsReqs(reqs')
       /\ DOMAIN reqs' = IF n = Len(reqs[key]) THEN DOMAIN reqs \ {key} ELSE DOMAIN reqs
       /\ key \in DOMAIN reqs' => reqs'[key] = SubSeq(reqs[key], n + 1, Len(reqs[key]))
       /\ \A k \in DOMAIN reqs' : k # key => reqs'[k] = reqs[k]
  <2>1. IsReqs(reqs) /\ key \in DOMAIN reqs /\ n \in 0..Len(reqs[key])
    BY <1>5, <1>6, <1>7
  <2> DEFINE p == Left(reqs, key, n)
  <2>2. /\ IsReqs(p)
        /\ DOMAIN p = IF n = Len(reqs[key]) THEN DOMAIN reqs \ {key} ELSE DOMAIN reqs
        /\ key \in DOMAIN p => p[key] = SubSeq(reqs[key], n + 1, Len(reqs[key]))
        /\ \A k \in DOMAIN p : k # key => p[k] = reqs[k]
    BY ONLY <2>1, LeftPlaces
  <2>3. reqs' = p
    BY <1>10
  <2> HIDE DEF p
  <2>4. QED
    BY <2>2, <2>3
<1>12. /\ SelfInv' /\ Globs' = Globs /\ Running' = Running
       /\ \A h \in Globs : Extra(h)' = Extra(h) /\ SameCount(self[h], self'[h])
  BY <1>1, Resting
<1>13. StackInv'
  BY <1>5, <1>9, <1>12 DEF StackInv
<1>14. ReqsInv'
  <2>1. ASSUME NEW w \in Places(reqs') PROVE WaitOK(reqs'[w[1]][w[2]], Running)
    <3>1. PICK h \in DOMAIN reqs' : \E k \in 1..Len(reqs'[h]) : w = <<h, k>>
      BY <1>11, InPlaces
    <3>2. PICK k \in 1..Len(reqs'[h]) : w = <<h, k>>
      BY <3>1
    <3>3. w[1] = h /\ w[2] = k
      BY <3>2
    <3>4. \A v \in Places(reqs) : WaitOK(reqs[v[1]][v[2]], Running)
      BY DEF TypeInv, ReqsInv
    <3>5. ASSUME NEW i \in DOMAIN reqs, NEW j \in 1..Len(reqs[i]) PROVE WaitOK(reqs[i][j], Running)
      <4>1. <<i, j>> \in Places(reqs) /\ <<i, j>>[1] = i /\ <<i, j>>[2] = j
        BY <1>7, InPlaces
      <4>2. QED
        BY <3>4, <4>1
    <3>6. CASE h = key
      <4>1. reqs'[key] = later
        BY <1>11, <3>6
      <4>2. k \in 1..Len(reqs[key]) - n
        BY <1>8, <3>2, <3>6, <4>1
      <4>3. reqs'[h][k] = reqs[key][n + k] /\ n + k \in 1..Len(reqs[key])
        BY <1>7, <1>8, <3>6, <4>1, <4>2
      <4>4. QED
        BY <1>5, <3>3, <3>5, <4>3
    <3>7. CASE h # key
      <4>1. h \in DOMAIN reqs /\ reqs'[h] = reqs[h]
        BY <1>11, <3>1, <3>7
      <4>2. QED
        BY <3>2, <3>3, <3>5, <4>1
    <3>8. QED
      BY <3>6, <3>7
  <2>2. QED
    BY <1>11, <1>12, <2>1 DEF ReqsInv
<1>15. PendingInv'
  BY <1>1, <1>12, Unmoved
<1>16. \A x : InReqs(stack', reqs', x) = InReqs(stack, reqs, x)
  <2>1. TAKE x
  <2>2. Head(stack).fn.name = "cleanup" /\ Head(stack).fn.key = key /\ Head(stack).fn.len = n
    BY <1>2 DEF key, n, Fn
  <2>3. InReqs(Tail(stack), reqs', x) = InReqs(stack, reqs, x)
    <3>1. /\ IsSeq(stack) /\ stack # <<>> /\ IsReqs(reqs) /\ key \in DOMAIN reqs
          /\ n \in 0..Len(reqs[key]) /\ \A m : ~Answered(Tail(stack), <<key, m>>)
      BY <1>2, <1>3, <1>5, <1>6, <1>7
    <3> DEFINE p == reqs'
    <3>2. IsReqs(p)
      BY <1>11
    <3>3. LeftOf(p, reqs, key, n) /\ Cleaning(stack, key, n)
      BY <1>11, <2>2, <3>1, <3>2 DEF LeftOf, Cleaning
    <3> HIDE DEF p
    <3>6. InReqs(Tail(stack), p, x) = InReqs(stack, reqs, x)
      BY ONLY <3>1, <3>3, InReqsLeft
    <3>7. QED
      BY <3>6 DEF p
  <2>4. QED
    BY <1>9, <2>3
<1>17. \A x : InCalls(stack', x) = InCalls(stack, x) - IF x = Asked(key) THEN 1 ELSE 0
  <2>1. TAKE x
  <2>2. InCalls(stack, x) = Owes(Fn, x) + InCalls(Tail(stack), x)
    BY <1>2, <1>3, InTail DEF Fn
  <2>3. InCalls(Tail(stack), x) \in Nat
    BY <1>5, DebtorsFinite DEF FramesOK
  <2>4. QED
    BY <1>4, <1>9, <2>2, <2>3 DEF key
<1>18. CleanLaw'
  <2>1. ASSUME NEW k \in DOMAIN stack', stack'[k].fn.name = "cleanup"
        PROVE  stack'[k].fn.key \in DOMAIN reqs' /\ stack'[k].fn.len \in 0..Len(reqs'[stack'[k].fn.key])
    <3>1. /\ IsSeq(Tail(stack)) /\ Len(stack) > 0 /\ Len(Tail(stack)) = Len(stack) - 1
          /\ \A j \in 1..Len(stack) - 1 : Tail(stack)[j] = stack[j + 1]
      BY <1>2, <1>3, SeqTail
    <3>2. DOMAIN Tail(stack) = 1..Len(Tail(stack)) /\ DOMAIN stack = 1..Len(stack) /\ Len(stack) \in Nat
      BY <1>3, <3>1, SeqDomain
    <3>3. k + 1 \in DOMAIN stack /\ stack'[k] = stack[k + 1]
      BY <1>9, <3>1, <3>2
    <3>4. stack'[k].fn.key \in DOMAIN reqs /\ stack'[k].fn.len \in 0..Len(reqs[stack'[k].fn.key])
      BY <2>1, <3>3 DEF CountInv, CleanLaw
    <3>5. Asked(key) \notin Debts(stack'[k].fn)
      BY <1>5, <1>9
    <3>6. Debts(stack'[k].fn) = {Asked(stack'[k].fn.key)}
      BY <2>1 DEF Debts
    <3>7. stack'[k].fn.key # key
      BY <3>5, <3>6
    <3>8. QED
      BY <1>11, <3>4, <3>7
  <2>2. QED
    BY <2>1 DEF CleanLaw
<1>19. CASE /\ later # <<>>
            /\ ticks' = Append(ticks, Answer(RES(key), Ans))
  <2> DEFINE c == Answer(RES(key), Ans)
  <2>1. FrameOK(c, Running) /\ c.fn = RES(key)
    BY <1>3, ResOK, AnswerOK DEF Answer
  <2>2. c.fn.name = "RES" /\ \A x : Owes(c.fn, x) = IF x = Asked(key) THEN 1 ELSE 0
    BY <2>1, ResOK
  <2> HIDE DEF c
  <2>3. FramesOK(ticks, Running) /\ IsSeq(ticks) /\ \A k \in DOMAIN ticks : ticks[k].fn.name = "RES"
    BY DEF TypeInv, TicksInv, FramesOK
  <2>4. ticks' = Append(ticks, c)
    BY <1>19 DEF c
  <2>5. FramesOK(ticks', Running)
    BY <2>1, <2>3, <2>4, FramesAppend
  <2>6. \A k \in DOMAIN ticks' : ticks'[k].fn.name = "RES"
    <3>1. /\ IsSeq(ticks') /\ Len(ticks') = Len(ticks) + 1
          /\ ticks'[Len(ticks) + 1] = c
          /\ \A k \in 1..Len(ticks) : ticks'[k] = ticks[k]
      BY <2>3, <2>4, SeqAppend
    <3>2. Len(ticks) \in Nat /\ DOMAIN ticks = 1..Len(ticks) /\ DOMAIN ticks' = 1..Len(ticks) + 1
      BY <2>3, <3>1, SeqDomain
    <3>3. \A k \in 1..Len(ticks) + 1 : k \in 1..Len(ticks) \/ k = Len(ticks) + 1
      BY <3>2
    <3>4. QED
      BY <2>2, <2>3, <3>1, <3>2, <3>3
  <2>7. TicksInv'
    BY <1>12, <2>5, <2>6 DEF TicksInv
  <2>8. ASSUME NEW x PROVE Owing(x)' = Owing(x)
    <3>1. InCalls(ticks', x) = InCalls(ticks, x) + Owes(c.fn, x)
      BY <2>3, <2>4, InAppend
    <3>2. InCalls(ticks', x) = InCalls(ticks, x) + IF x = Asked(key) THEN 1 ELSE 0
      BY <2>2, <3>1
    <3>3. InCalls(stack', x) = InCalls(stack, x) - IF x = Asked(key) THEN 1 ELSE 0
      BY <1>17
    <3>4. InReqs(stack', reqs', x) = InReqs(stack, reqs, x)
      BY <1>16
    <3>5. QED
      BY <1>1, <3>2, <3>3, <3>4, Numbers DEF Owing, Num
  <2>9. DOMAIN reqs' = DOMAIN reqs
    BY <1>8, <1>11, <1>19
  <2>10. (\A h \in Globs : StepLaw(h))' /\ (\A k : KeyLaw(k))'
    BY <1>12, <2>8, <2>9, SameLaws DEF CountInv
  <2>11. TypeInv'
    BY <1>1, <1>12, <1>13, <1>14, <1>15, <2>7 DEF TypeInv
  <2>12. QED
    BY <1>18, <2>10, <2>11 DEF Kept, CountInv
<1>20. CASE later = <<>> /\ UNCHANGED ticks
  <2>1. TicksInv'
    BY <1>12, <1>20, Unmoved
  <2>2. TypeInv'
    BY <1>1, <1>12, <1>13, <1>14, <1>15, <2>1 DEF TypeInv
  <2>3. ASSUME NEW x PROVE Owing(x)' = Owing(x) + IF x = Asked(key) THEN -1 ELSE 0
    <3>1. InCalls(stack', x) = InCalls(stack, x) - IF x = Asked(key) THEN 1 ELSE 0
      BY <1>17
    <3>2. InReqs(stack', reqs', x) = InReqs(stack, reqs, x)
      BY <1>16
    <3>3. QED
      BY <1>1, <1>20, <3>1, <3>2, Numbers DEF Owing, Num
  <2>4. Owing(Asked(key)) + (-1) \in Nat /\ -1 \in Int
    <3>1. InCalls(stack', Asked(key)) = InCalls(stack, Asked(key)) - 1
      BY <1>17
    <3>2. InCalls(stack', Asked(key)) \in Nat
      BY <1>13, DebtorsFinite DEF StackInv, FramesOK
    <3>3. QED
      BY <3>1, <3>2, Numbers DEF Owing, Num
  <2>5. key \in DOMAIN reqs /\ DOMAIN reqs' = DOMAIN reqs \ {key}
    BY <1>5, <1>8, <1>11, <1>20
  <2>6. (\A h \in Globs : StepLaw(h)) /\ (\A k : KeyLaw(k))
    BY DEF CountInv
  <2>7. (\A h \in Globs : StepLaw(h))' /\ (\A k : KeyLaw(k))'
    BY <1>12, <2>3, <2>4, <2>5, <2>6, KeyLaws
  <2>8. QED
    BY <1>18, <2>2, <2>7 DEF Kept, CountInv
<1>21. QED
  BY <1>19, <1>20 DEF cleanup, key, n

\* Without cleanup on the stack everybody waits.
LEMMA NoneAnswered ==
    ASSUME NEW s, NEW t, NoCleanup(s), NoCleanup(t), NEW q, NEW x
    PROVE  InReqs(s, q, x) = InReqs(t, q, x)
<1>1. \A w : ~Answered(s, w) /\ ~Answered(t, w)
  BY DEF Answered, NoCleanup
<1>2. QED
  BY <1>1 DEF InReqs, Waiters

\* The event loop turns.
LEMMA Turn ==
    ASSUME TypeInv, CountInv, stack = <<>>,
           FramesOK(stack', Running), NoCleanup(stack'), UNCHANGED <<search, self, out, reqs>>,
           FramesOK(ticks', Running), \A k \in DOMAIN ticks' : ticks'[k].fn.name = "RES",
           IsBag(pending'), \A r \in DOMAIN pending' : AskOK(r, Running), draining' \in BOOLEAN,
           \A x : InCalls(stack', x) + InBag(pending', x) + InCalls(ticks', x)
                    = InBag(pending, x) + InCalls(ticks, x)
    PROVE  Kept
<1>1. /\ SelfInv' /\ Globs' = Globs /\ Running' = Running
      /\ \A h \in Globs : Extra(h)' = Extra(h) /\ SameCount(self[h], self'[h])
  BY Resting
<1>2. TypeInv'
  <2>1. ReqsInv'
    BY <1>1, Unmoved
  <2>2. StackInv' /\ TicksInv' /\ PendingInv'
    BY <1>1 DEF StackInv, TicksInv, PendingInv
  <2>3. QED
    BY <1>1, <2>1, <2>2 DEF TypeInv
<1>3. ASSUME NEW x PROVE Owing(x)' = Owing(x)
  <2>1. InReqs(stack', reqs, x) = InReqs(stack, reqs, x)
    BY FramesFew, NoneAnswered
  <2>2. InCalls(stack, x) = 0
    BY InNone
  <2>3. InCalls(stack', x) \in Nat /\ InBag(pending', x) \in Nat /\ InCalls(ticks', x) \in Nat
    BY DebtorsFinite, CalleesFinite DEF FramesOK
  <2>4. /\ InReqs(stack, reqs, x) \in Nat /\ InBag(pending, x) \in Nat /\ InCalls(ticks, x) \in Nat
    BY Numbers
  <2>5. Owing(x)' = InCalls(stack', x) + InReqs(stack', reqs, x) + InBag(pending', x) + InCalls(ticks', x)
    BY DEF Owing, Num
  <2>6. Owing(x) = InCalls(stack, x) + InReqs(stack, reqs, x) + InBag(pending, x) + InCalls(ticks, x)
    BY DEF Owing, Num
  <2>7. InCalls(stack', x) + InBag(pending', x) + InCalls(ticks', x) = InBag(pending, x) + InCalls(ticks, x)
    OBVIOUS
  <2>8. QED
    BY ONLY <2>1, <2>2, <2>3, <2>4, <2>5, <2>6, <2>7
<1>4. (\A h \in Globs : StepLaw(h))' /\ (\A k : KeyLaw(k))'
  BY <1>1, <1>3, SameLaws DEF CountInv
<1>5. CleanLaw'
  BY DEF CleanLaw, NoCleanup
<1>6. QED
  BY <1>2, <1>4, <1>5 DEF Kept, CountInv

LEMMA TickKeeps == ASSUME TypeInv, CountInv, Tick PROVE Kept
<1> DEFINE c == Head(ticks)
<1>1. /\ stack = <<>> /\ ticks # <<>> /\ stack' = <<c>> /\ ticks' = Tail(ticks) /\ draining' \in BOOLEAN
      /\ UNCHANGED <<search, self, out, reqs, pending>>
  BY DEF Tick
<1>2. FramesOK(ticks, Running) /\ IsSeq(ticks) /\ \A k \in DOMAIN ticks : ticks[k].fn.name = "RES"
  BY DEF TypeInv, TicksInv, FramesOK
<1>3. FramesOK(ticks', Running) /\ FrameOK(c, Running)
  BY <1>1, <1>2, FramesTail
<1>4. c.fn.name = "RES" /\ \A k \in DOMAIN ticks' : ticks'[k].fn.name = "RES"
  <2>1. /\ IsSeq(Tail(ticks)) /\ Len(ticks) > 0 /\ Len(Tail(ticks)) = Len(ticks) - 1
        /\ Head(ticks) = ticks[1]
        /\ \A j \in 1..Len(ticks) - 1 : Tail(ticks)[j] = ticks[j + 1]
    BY <1>1, <1>2, SeqTail
  <2>2. /\ DOMAIN Tail(ticks) = 1..Len(ticks) - 1 /\ DOMAIN ticks = 1..Len(ticks) /\ Len(ticks) \in Nat
    BY <1>2, <2>1, SeqDomain
  <2>3. 1 \in DOMAIN ticks /\ \A k \in DOMAIN Tail(ticks) : k + 1 \in DOMAIN ticks
    BY <2>1, <2>2
  <2>4. QED
    BY <1>1, <1>2, <2>1, <2>2, <2>3
<1>5. \A x : InCalls(ticks, x) = Owes(c.fn, x) + InCalls(ticks', x)
  BY <1>1, <1>2, InTail
<1> HIDE DEF c
<1>6. FramesOK(stack', Running) /\ NoCleanup(stack')
  BY <1>1, <1>3, <1>4, FramesFew
<1>7. \A x : InCalls(stack', x) = Owes(c.fn, x)
  BY <1>1, InOne
<1>8. IsBag(pending') /\ \A r \in DOMAIN pending' : AskOK(r, Running)
  BY <1>1 DEF TypeInv, PendingInv
<1>9. ASSUME NEW x
      PROVE  InCalls(stack', x) + InBag(pending', x) + InCalls(ticks', x)
               = InBag(pending, x) + InCalls(ticks, x)
  <2>1. InCalls(ticks', x) \in Nat /\ Owes(c.fn, x) \in Nat /\ InBag(pending, x) \in Nat
    BY <1>3, DebtorsFinite, Numbers DEF FramesOK, Owes
  <2>2. InBag(pending', x) = InBag(pending, x)
    BY <1>1
  <2>3. QED
    BY <1>5, <1>7, <2>1, <2>2
<1>10. QED
  BY <1>1, <1>3, <1>4, <1>6, <1>8, <1>9, Turn

LEMMA AnswersKeep == ASSUME TypeInv, CountInv, Answers PROVE Kept
<1>1. PICK r \in BagToSet(pending) : FsAnswers(r)
  BY DEF Answers
<1> DEFINE a == answer(search.files, r.call, r.abs)
           c == Answer(r.cb, a)
           b == pending (-) SetToBag({r})
<1>2. /\ stack = <<>> /\ stack' = <<c>> /\ pending' = b /\ draining' \in BOOLEAN
      /\ UNCHANGED <<search, self, out, reqs, ticks>>
  BY <1>1 DEF FsAnswers, Idle
<1>3. r \in DOMAIN pending /\ IsBag(pending) /\ \A q \in DOMAIN pending : AskOK(q, Running)
  BY DEF BagToSet, TypeInv, PendingInv
<1>4. FnOK(r.cb, Running) /\ r.cb.name \in AskNames /\ r.call \in {"lstat", "stat", "readdir"}
  BY <1>3 DEF AskOK
<1>5. IsSeq(a.entries)
  BY <1>4, AnswerSeq DEF TypeInv, SelfInv
<1> HIDE DEF a
<1>6. FrameOK(c, Running) /\ c.fn = r.cb
  BY <1>4, <1>5, AnswerOK DEF Answer
<1> HIDE DEF c
<1>7. FramesOK(stack', Running) /\ NoCleanup(stack')
  BY <1>2, <1>4, <1>6, FramesFew DEF AskNames
<1>8. /\ IsBag(b) /\ DOMAIN b \subseteq DOMAIN pending
      /\ \A x : InBag(b, x) = InBag(pending, x) - Owes(r.cb, x)
  BY <1>3, BagTake
<1> HIDE DEF b
<1>9. IsBag(pending') /\ \A q \in DOMAIN pending' : AskOK(q, Running)
  BY <1>2, <1>3, <1>8
<1>10. FramesOK(ticks', Running) /\ \A k \in DOMAIN ticks' : ticks'[k].fn.name = "RES"
  BY <1>2 DEF TypeInv, TicksInv
<1>11. ASSUME NEW x
       PROVE  InCalls(stack', x) + InBag(pending', x) + InCalls(ticks', x)
                = InBag(pending, x) + InCalls(ticks, x)
  <2>1. InCalls(stack', x) = Owes(r.cb, x)
    BY <1>2, <1>6, InOne
  <2>2. InBag(pending', x) = InBag(pending, x) - Owes(r.cb, x)
    BY <1>2, <1>8
  <2>3. Owes(r.cb, x) \in Nat /\ InBag(pending, x) \in Nat /\ InCalls(ticks, x) \in Nat
    BY Numbers DEF Owes
  <2>4. QED
    BY <1>2, <2>1, <2>2, <2>3
<1>12. QED
  BY <1>2, <1>7, <1>9, <1>10, <1>11, Turn

\* The caller acts on a search: nobody's debts change but those in calls.
LEMMA CallerActs ==
    ASSUME TypeInv, CountInv, NEW g \in Globs, UNCHANGED <<search, reqs, pending, ticks>>,
           draining' \in BOOLEAN,
           NEW s, FieldsOK(g, s), s.aborted \/ s.paused => out[g].started, self[g].aborted => s.aborted,
           DOMAIN self' = Globs, self'[g] = s, \A h \in Globs : h # g => self'[h] = self[h],
           Seeing, NEW n \in Int,
           StackInv', CleanLaw',
           \A x : InCalls(stack', x) = InCalls(stack, x) + IF x = Step(g) THEN n ELSE 0,
           \A x : InReqs(stack', reqs, x) = InReqs(stack, reqs, x),
           s._processing - Len(s._processQueue) = self[g]._processing - Len(self[g]._processQueue) + n
    PROVE  Kept
<1>1. ASSUME NEW h \in Globs
      PROVE  FieldsOK(h, self'[h]) /\ (self'[h].aborted \/ self'[h].paused => out'[h].started)
  BY DEF TypeInv, SelfInv, Seeing
<1>2. SelfInv' /\ Globs' = Globs /\ Running' = Running /\ \A h \in Globs : Extra(h)' = Extra(h)
  BY <1>1, SearchesSame DEF Seeing
<1>3. TicksInv' /\ ReqsInv' /\ PendingInv'
  BY <1>2, Unmoved
<1>4. TypeInv'
  BY <1>2, <1>3 DEF TypeInv
<1>5. ASSUME NEW x PROVE Owing(x)' = Owing(x) + IF x = Step(g) THEN n ELSE 0
  <2>1. InCalls(stack', x) = InCalls(stack, x) + IF x = Step(g) THEN n ELSE 0
    OBVIOUS
  <2>2. Owing(x)' = InCalls(stack', x) + InReqs(stack, reqs, x) + InBag(pending, x) + InCalls(ticks, x)
    BY DEF Owing, Num
  <2>3. QED
    BY <2>1, <2>2, Numbers DEF Owing, Num
<1>6. /\ s._processing \in Int /\ Len(s._processQueue) \in Nat
      /\ self[g]._processing \in Int /\ Len(self[g]._processQueue) \in Nat
  BY SeqDomain DEF FieldsOK, Again, TypeInv, SelfInv
<1>7. (\A h \in Globs : StepLaw(h))' /\ (\A key : KeyLaw(key))'
  <2>1. (\A h \in Globs : StepLaw(h)) /\ (\A key : KeyLaw(key)) /\ DOMAIN reqs' = DOMAIN reqs
    BY DEF CountInv
  <2>2. \A h \in Globs : (h # g => self'[h] = self[h]) /\ Extra(h)' = Extra(h)
    BY <1>2
  <2>3. /\ self'[g]._processing \in Int /\ Len(self'[g]._processQueue) \in Nat
        /\ self[g].aborted => self'[g].aborted
    BY <1>6
  <2>4. /\ self'[g]._processing - Len(self'[g]._processQueue)
              >= self[g]._processing - Len(self[g]._processQueue) + n
        /\ ~self'[g].aborted => self'[g]._processing - Len(self'[g]._processQueue)
                                  = self[g]._processing - Len(self[g]._processQueue) + n
    BY <1>6
  <2>5. QED
    BY <1>2, <1>5, <2>1, <2>2, <2>3, <2>4, StepLaws
<1>8. QED
  BY <1>4, <1>7 DEF Kept, CountInv

\* The calls stay as they are.
LEMMA CallerWaits ==
    ASSUME TypeInv, CountInv, NEW g \in Globs, UNCHANGED <<search, reqs, pending, stack, ticks>>,
           draining' \in BOOLEAN,
           NEW s, FieldsOK(g, s), s.aborted \/ s.paused => out[g].started, self[g].aborted => s.aborted,
           self' = [self EXCEPT ![g] = s], Seeing,
           s._processing = self[g]._processing, s._processQueue = self[g]._processQueue
    PROVE  Kept
<1>1. DOMAIN self' = Globs /\ self'[g] = s /\ \A h \in Globs : h # g => self'[h] = self[h]
  BY DEF TypeInv, SelfInv
<1>2. Globs' = Globs /\ Running' = Running
  BY DEF Running, Globs, Seeing
<1>3. StackInv'
  BY <1>2 DEF TypeInv, StackInv
<1>4. CleanLaw'
  BY DEF CountInv, CleanLaw
<1>5. s._processing \in Int /\ Len(s._processQueue) \in Nat
  BY SeqDomain DEF FieldsOK, Again
<1> DEFINE n == 0
<1>6. n \in Int /\ \A x : (IF x = Step(g) THEN n ELSE 0) = 0
  OBVIOUS
<1>7. \A x : InCalls(stack', x) = InCalls(stack, x) + IF x = Step(g) THEN n ELSE 0
  BY <1>6, Numbers
<1>8. s._processing - Len(s._processQueue) = self[g]._processing - Len(self[g]._processQueue) + n
  BY <1>5
<1>9. \A x : InReqs(stack', reqs, x) = InReqs(stack, reqs, x)
  OBVIOUS
<1> HIDE DEF n
<1>10. QED
  BY <1>1, <1>3, <1>4, <1>6, <1>7, <1>8, <1>9, CallerActs

LEMMA AbortKeeps ==
    ASSUME TypeInv, CountInv, NEW g \in Globs, abort(g)
    PROVE  Kept
<1> DEFINE s == [self[g] EXCEPT !.aborted = TRUE]
<1>1. /\ out[g].started /\ UNCHANGED <<search, out, reqs, pending, stack, ticks, draining>>
      /\ self' = [self EXCEPT ![g] = s]
  BY DEF abort
<1>2. FieldsOK(g, self[g]) /\ draining \in BOOLEAN
  BY DEF TypeInv, SelfInv
<1>3. /\ FieldsOK(g, s) /\ s._processing = self[g]._processing
      /\ s._processQueue = self[g]._processQueue /\ s.aborted
  BY <1>2, AbortOK
<1> HIDE DEF s
<1>4. Seeing
  BY <1>1 DEF TypeInv, SelfInv, Seeing
<1>5. QED
  BY <1>1, <1>2, <1>3, <1>4, CallerWaits

LEMMA PauseKeeps ==
    ASSUME TypeInv, CountInv, NEW g \in Globs, pause(g)
    PROVE  Kept
<1> DEFINE s == [self[g] EXCEPT !.paused = TRUE]
<1>1. /\ out[g].started /\ UNCHANGED <<search, reqs, pending, stack, ticks, draining>>
      /\ self' = [self EXCEPT ![g] = s] /\ out' = [out EXCEPT ![g].pauses = @ + 1]
  BY DEF pause
<1>2. FieldsOK(g, self[g]) /\ draining \in BOOLEAN
  BY DEF TypeInv, SelfInv
<1>3. /\ FieldsOK(g, s) /\ s._processing = self[g]._processing
      /\ s._processQueue = self[g]._processQueue /\ s.aborted = self[g].aborted
  BY <1>2 DEF FieldsOK, Fields
<1> HIDE DEF s
<1>4. Seeing
  BY <1>1 DEF TypeInv, SelfInv, Seeing, SeenOK
<1>5. QED
  BY <1>1, <1>2, <1>3, <1>4, CallerWaits

\* What was put aside is as many steps as calls.
LEMMA Uncounts ==
    ASSUME NEW R, NEW g \in R, NEW q, Again(q, g), NEW u,
           u = [k \in DOMAIN q |-> Call([name |-> "uncount", g |-> g, then |-> q[k]])]
    PROVE  /\ FramesOK(u, R) /\ NoCleanup(u)
           /\ \A x : InCalls(u, x) = IF x = Step(g) THEN Len(q) ELSE 0
<1>1. IsSeq(q) /\ Len(q) \in Nat /\ DOMAIN q = 1..Len(q)
  BY SeqDomain DEF Again
<1>2. IsSeq(u) /\ DOMAIN u = 1..Len(q)
  BY <1>1, SeqMade
<1>3. IsSeq(Nothing.entries)
  BY SeqNone DEF Nothing, Kind
<1>4. ASSUME NEW k \in DOMAIN u
      PROVE  FrameOK(u[k], R) /\ u[k].fn.name = "uncount" /\ Debts(u[k].fn) = {Step(g)}
  <2>1. u[k] = Call([name |-> "uncount", g |-> g, then |-> q[k]]) /\ k \in DOMAIN q
    BY <1>1, <1>2
  <2>2. q[k].fn.name = "_process" /\ q[k].fn.g = g /\ IsSeq(q[k].answer.entries)
    BY <2>1 DEF Again
  <2>3. QED
    BY <1>3, <2>1, <2>2 DEF FrameOK, FnOK, Call, Own, Debts
<1>5. \A k \in DOMAIN u : Debts(u[k].fn) = {Step(g)}
  BY <1>4
<1>6. Debtors(u, Step(g)) = 1..Len(q) /\ \A x : x # Step(g) => Debtors(u, x) = {}
  BY ONLY <1>2, <1>5 DEF Debtors
<1> DEFINE n == Len(q)
<1>7. Cardinality(1..n) = n /\ Cardinality({}) = 0
  <2>1. n \in Nat
    BY <1>1
  <2> HIDE DEF n
  <2>2. n \in Int /\ 1 \in Int
    BY <2>1
  <2>3. Cardinality(1..n) = IF 1 > n THEN 0 ELSE n - 1 + 1
    BY <2>2, FS_Interval
  <2>4. QED
    BY <2>1, <2>3, FS_EmptySet
<1>8. \A x : InCalls(u, x) = IF x = Step(g) THEN Len(q) ELSE 0
  BY <1>6, <1>7 DEF InCalls
<1>9. QED
  BY <1>2, <1>4, <1>8 DEF FramesOK, NoCleanup

LEMMA CleanCat ==
    ASSUME NEW s, NEW t, IsSeq(s), IsSeq(t), NoCleanup(s), NoCleanup(t)
    PROVE  NoCleanup(s \o t)
<1>1. /\ IsSeq(s \o t) /\ Len(s \o t) = Len(s) + Len(t)
      /\ \A k \in 1..Len(s) : (s \o t)[k] = s[k]
      /\ \A k \in 1..Len(t) : (s \o t)[Len(s) + k] = t[k]
  BY SeqCat
<1>2. /\ Len(s) \in Nat /\ DOMAIN s = 1..Len(s) /\ Len(t) \in Nat /\ DOMAIN t = 1..Len(t)
      /\ DOMAIN (s \o t) = 1..(Len(s) + Len(t))
  BY <1>1, SeqDomain
<1>3. ASSUME NEW k \in DOMAIN (s \o t) PROVE (s \o t)[k].fn.name # "cleanup"
  <2>1. CASE k \in 1..Len(s)
    BY <1>1, <1>2, <2>1 DEF NoCleanup
  <2>2. CASE k \notin 1..Len(s)
    <3>1. k - Len(s) \in DOMAIN t /\ k = Len(s) + (k - Len(s))
      BY <1>2, <2>2
    <3>2. (s \o t)[k] = t[k - Len(s)]
      BY <1>1, <1>2, <3>1
    <3>3. QED
      BY <3>1, <3>2 DEF NoCleanup
  <2>3. QED
    BY <2>1, <2>2
<1>4. QED
  BY <1>3 DEF NoCleanup

LEMMA ResumeKeeps ==
    ASSUME TypeInv, CountInv, NEW g \in Globs, resume(g)
    PROVE  Kept
<1> DEFINE eq == self[g]._emitQueue
           pq == self[g]._processQueue
           e == [k \in DOMAIN eq |-> EmitMatch(g, eq[k][1], eq[k][2])]
           u == [k \in DOMAIN pq |-> Call([name |-> "uncount", g |-> g, then |-> pq[k]])]
           s == [self[g] EXCEPT !.paused = FALSE, !._emitQueue = <<>>, !._processQueue = <<>>]
<1>1. /\ stack = <<>> /\ self[g].paused /\ UNCHANGED <<search, out, reqs, pending, ticks>>
      /\ draining' = FALSE /\ stack' = e \o u
      /\ self' = [self EXCEPT ![g].paused = FALSE, ![g]._emitQueue = <<>>, ![g]._processQueue = <<>>]
  BY DEF resume, Idle
<1>2. FieldsOK(g, self[g]) /\ out[g].started /\ DOMAIN self = Globs
  BY <1>1 DEF TypeInv, SelfInv
<1>3. DOMAIN self' = Globs /\ self'[g] = s /\ \A h \in Globs : h # g => self'[h] = self[h]
  BY <1>1, <1>2
<1>4. /\ FieldsOK(g, s) /\ s._processing = self[g]._processing
      /\ s._processQueue = <<>> /\ s.aborted = self[g].aborted
  <2>1. IsSeq(<<>>) /\ Again(<<>>, g)
    BY SeqNone DEF Again
  <2>2. s = [self[g] EXCEPT !.paused = FALSE, !._emitQueue = <<>>, !._processQueue = <<>>]
    OBVIOUS
  <2>3. FieldsOK(g, self[g]) /\ Again(<<>>, g) /\ IsSeq(<<>>) /\ FALSE \in BOOLEAN
    BY <1>2, <2>1
  <2> HIDE DEF s
  <2>4. QED
    BY <2>2, <2>3 DEF FieldsOK, Fields
<1>5. g \in Running
  BY <1>2 DEF Running
<1>6. IsSeq(eq) /\ Again(pq, g)
  BY <1>2 DEF FieldsOK
<1> HIDE DEF s, eq, pq
<1>7. /\ FramesOK(u, Running) /\ NoCleanup(u)
      /\ \A x : InCalls(u, x) = IF x = Step(g) THEN Len(pq) ELSE 0
  BY <1>5, <1>6, Uncounts
<1>8. IsSeq(e) /\ DOMAIN e = DOMAIN eq
  BY <1>6, SeqDomain, SeqMade
<1>9. \A k \in DOMAIN e : FrameOK(e[k], Running) /\ e[k].fn.name = "_emitMatch"
  BY <1>5, <1>8, EmitMatchOK
<1> HIDE DEF e, u
<1>10. FramesOK(e, Running) /\ NoCleanup(e) /\ \A x : InCalls(e, x) = 0
  <2>1. \A k \in DOMAIN e : Debts(e[k].fn) = {}
    BY <1>9 DEF Debts
  <2>2. QED
    BY <1>8, <1>9, <2>1, InNobody DEF FramesOK, NoCleanup
<1>11. /\ FramesOK(stack', Running) /\ NoCleanup(stack')
       /\ \A x : InCalls(stack', x) = InCalls(e, x) + InCalls(u, x)
  <2>1. IsSeq(e) /\ IsSeq(u) /\ stack' = e \o u
    BY <1>1, <1>7, <1>10 DEF FramesOK
  <2>2. FramesOK(e \o u, Running)
    BY <1>7, <1>10, FramesCat
  <2>3. NoCleanup(e \o u)
    BY <1>7, <1>10, <2>1, CleanCat
  <2>4. QED
    BY <2>1, <2>2, <2>3, InCat
<1>12. Len(pq) \in Nat /\ s._processing \in Int /\ Len(<<>>) = 0
  BY <1>4, <1>6, SeqDomain DEF Again, FieldsOK
<1>13. \A x : InCalls(stack', x) = InCalls(stack, x) + IF x = Step(g) THEN Len(pq) ELSE 0
  BY <1>1, <1>7, <1>10, <1>11, <1>12, InNone
<1>14. \A x : InReqs(stack', reqs, x) = InReqs(stack, reqs, x)
  <2>1. NoCleanup(stack') /\ NoCleanup(stack)
    BY <1>1, <1>11, FramesFew
  <2>2. QED
    BY <2>1, NoneAnswered
<1>15. s._processing - Len(s._processQueue)
         = self[g]._processing - Len(self[g]._processQueue) + Len(pq)
  BY <1>4, <1>12 DEF pq
<1>16. Seeing /\ Running' = Running
  BY <1>1 DEF TypeInv, SelfInv, Seeing, Running, Globs
<1>17. StackInv' /\ CleanLaw'
  BY <1>11, <1>16 DEF StackInv, CleanLaw, NoCleanup
<1>18. UNCHANGED <<search, reqs, pending, ticks>> /\ draining' \in BOOLEAN
  BY <1>1
<1>19. (s.aborted \/ s.paused => out[g].started) /\ (self[g].aborted => s.aborted)
  BY <1>2, <1>4
<1> DEFINE n == Len(pq)
<1>20. /\ n \in Int /\ \A x : InCalls(stack', x) = InCalls(stack, x) + IF x = Step(g) THEN n ELSE 0
       /\ s._processing - Len(s._processQueue)
            = self[g]._processing - Len(self[g]._processQueue) + n
  BY <1>12, <1>13, <1>15
<1> HIDE DEF n
<1>21. QED
  BY ONLY TypeInv, CountInv, g \in Globs, <1>3, <1>4, <1>14, <1>16, <1>17, <1>18, <1>19, <1>20, CallerActs

LEMMA GlobKeeps ==
    ASSUME TypeInv, CountInv, NEW g \in Globs, Glob(g)
    PROVE  Kept
<1> DEFINE set == self[g].minimatch.set
           w == [out[g] EXCEPT !.started = TRUE]
           e == IF set = <<>> THEN 1 ELSE 0
<1>1. /\ stack = <<>> /\ ~out[g].started /\ draining' \in BOOLEAN
      /\ UNCHANGED <<search, self, reqs, pending, ticks>>
      /\ out' = [out EXCEPT ![g].started = TRUE]
      /\ stack' = IF set = <<>> THEN <<Done(g)>>
                  ELSE [k \in DOMAIN set |-> Process(g, set[k], k, FALSE)]
  BY DEF Glob, Idle
<1>2. /\ Globs' = Globs /\ DOMAIN out = Globs /\ DOMAIN out' = Globs /\ out'[g] = w
      /\ \A h \in Globs : h # g => out'[h] = out[h]
  BY <1>1 DEF TypeInv, SelfInv, Globs
<1>3. SeenOK(w) /\ w.started
  BY DEF TypeInv, SelfInv, SeenOK
<1>4. FieldsOK(g, self[g]) /\ IsSeq(set)
  <2>1. FieldsOK(g, self[g]) /\ search \in Searches /\ g \in DOMAIN search.options
    BY DEF TypeInv, SelfInv, Globs
  <2>2. set = setopts(search.options[g]).minimatch.set
    BY <2>1 DEF FieldsOK, o
  <2>3. QED
    BY <2>1, <2>2, AlternativesSeq
<1> HIDE DEF w
<1>5. Running' = Running \cup {g} /\ g \in Running'
  BY <1>2, <1>3 DEF Running
<1>6. SelfInv'
  <2>1. \A h \in Globs : SeenOK(out'[h])
    BY <1>2, <1>3 DEF TypeInv, SelfInv
  <2>2. \A h \in Globs : FieldsOK(h, self[h])'
    BY <1>1 DEF TypeInv, SelfInv, FieldsOK, o
  <2>3. \A h \in Globs : self'[h].aborted \/ self'[h].paused => out'[h].started
    BY <1>1, <1>2, <1>3 DEF TypeInv, SelfInv
  <2>4. \A h \in Globs : SeenOK(out[h])'
    BY <2>1 DEF SeenOK
  <2>5. search' \in Searches /\ DOMAIN self' = Globs'
    BY <1>1, <1>2 DEF TypeInv, SelfInv
  <2>6. QED
    BY <1>2, <2>2, <2>3, <2>4, <2>5 DEF SelfInv
<1>7. /\ FramesOK(stack', Running') /\ NoCleanup(stack')
      /\ \A x : InCalls(stack', x) = IF x = Step(g) THEN e ELSE 0
  <2>1. CASE set = <<>>
    <3>1. FrameOK(Done(g), Running') /\ Done(g).fn.name = "done" /\ Debts(Done(g).fn) = {Step(g)}
      BY <1>5, CallsOK DEF Done, Call, Debts
    <3>2. stack' = <<Done(g)>>
      BY <1>1, <2>1
    <3>3. FramesOK(stack', Running') /\ NoCleanup(stack')
      BY <3>1, <3>2, FramesFew
    <3>4. \A x : InCalls(stack', x) = Owes(Done(g).fn, x)
      BY <3>2, InOne
    <3>5. QED
      BY <2>1, <3>1, <3>3, <3>4 DEF Owes
  <2>2. CASE set # <<>>
    <3>1. stack' = [k \in DOMAIN set |-> Process(g, set[k], k, FALSE)]
      BY <1>1, <2>2
    <3>2. IsSeq(stack')
      BY <1>4, <3>1, SeqDomain, SeqMade
    <3>3. \A k \in DOMAIN stack' : FrameOK(stack'[k], Running') /\ stack'[k].fn.name = "_process"
      <4>1. \A p, k : /\ FrameOK(Process(g, p, k, FALSE), Running')
                      /\ Process(g, p, k, FALSE).fn.name = "_process"
        BY <1>5, ProcessOK
      <4>2. QED
        BY <3>1, <4>1
    <3>4. \A x : InCalls(stack', x) = 0
      <4>1. \A k \in DOMAIN stack' : Debts(stack'[k].fn) = {}
        BY <3>3 DEF Debts
      <4>2. QED
        BY <4>1, InNobody
    <3>5. QED
      BY <2>2, <3>2, <3>3, <3>4 DEF FramesOK, NoCleanup
  <2>3. QED
    BY <2>1, <2>2
<1>8. TypeInv'
  <2>1. /\ \A s : FramesOK(s, Running) => FramesOK(s, Running')
        /\ \A fn : WaitOK(fn, Running) => WaitOK(fn, Running')
        /\ \A r : AskOK(r, Running) => AskOK(r, Running')
    BY <1>5, FnMore
  <2>2. StackInv' /\ TicksInv' /\ ReqsInv' /\ PendingInv'
    BY <1>1, <1>7, <2>1 DEF TypeInv, StackInv, TicksInv, ReqsInv, PendingInv
  <2>3. QED
    BY <1>1, <1>6, <2>2 DEF TypeInv
<1>9. ASSUME NEW x PROVE Owing(x)' = Owing(x) + IF x = Step(g) THEN e ELSE 0
  <2>1. InReqs(stack', reqs, x) = InReqs(stack, reqs, x)
    <3>1. NoCleanup(stack') /\ NoCleanup(stack)
      BY <1>1, <1>7, FramesFew
    <3>2. QED
      BY <3>1, NoneAnswered
  <2>2. InCalls(stack, x) = 0 /\ InCalls(stack', x) = IF x = Step(g) THEN e ELSE 0
    BY <1>1, <1>7, InNone
  <2>3. Owing(x)' = InCalls(stack', x) + InReqs(stack, reqs, x) + InBag(pending, x) + InCalls(ticks, x)
    BY <1>1, <2>1 DEF Owing, Num
  <2>4. QED
    BY <2>2, <2>3, Numbers DEF Owing, Num
<1>10. ASSUME NEW h \in Globs PROVE StepLaw(h)'
  <2>1. StepLaw(h) /\ self'[h] = self[h] /\ Owing(Step(h)) \in Nat /\ Len(self[h]._processQueue) \in Nat
    BY <1>1, Numbers, SeqDomain DEF CountInv, TypeInv, SelfInv, FieldsOK, Again
  <2>2. CASE h = g
    <3>1. Extra(h) = 0 /\ Extra(h)' = e /\ Owing(Step(h))' = Owing(Step(h)) + e /\ e \in Nat
      BY <1>1, <1>2, <1>3, <1>9, <2>2 DEF Extra
    <3> HIDE DEF e
    <3>2. Owing(Step(h))' + Len(self[h]._processQueue) - Extra(h)'
            = Owing(Step(h)) + Len(self[h]._processQueue) - Extra(h)
      BY <2>1, <3>1
    <3>3. QED
      BY <2>1, <3>2 DEF StepLaw
  <2>3. CASE h # g
    <3>1. Extra(h)' = Extra(h)
      BY <1>1, <1>2, <2>3 DEF Extra
    <3>2. Owing(Step(h))' = Owing(Step(h))
      BY <1>9, <2>1, <2>3, Tokens
    <3>3. QED
      BY <2>1, <3>1, <3>2 DEF StepLaw
  <2>4. QED
    BY <2>2, <2>3
<1>11. ASSUME NEW key PROVE KeyLaw(key)'
  <2>1. KeyLaw(key) /\ Owing(Asked(key)) \in Nat
    BY Numbers DEF CountInv
  <2>2. Owing(Asked(key))' = Owing(Asked(key))
    BY <1>9, <2>1, Tokens
  <2>3. NoAbort' <=> NoAbort
    BY <1>1, <1>2 DEF NoAbort
  <2>4. QED
    BY <1>1, <2>1, <2>2, <2>3 DEF KeyLaw
<1>12. CleanLaw'
  BY <1>7 DEF CleanLaw, NoCleanup
<1>13. (\A h \in Globs : StepLaw(h))' /\ (\A k : KeyLaw(k))'
  BY <1>2, <1>10, <1>11
<1>14. QED
  BY <1>8, <1>12, <1>13 DEF Kept, CountInv

LEMMA StutterKeeps == ASSUME TypeInv, CountInv, UNCHANGED vars PROVE Kept
<1>1. UNCHANGED <<search, self, out, reqs, pending, stack, ticks, draining>>
  BY DEF vars
<1>2. \A h : o(h)' = o(h) /\ Extra(h)' = Extra(h)
  BY <1>1 DEF o, Extra
<1>3. Globs' = Globs /\ Running' = Running
  BY <1>1 DEF Globs, Running
<1>4. SelfInv'
  BY <1>1, <1>2, <1>3 DEF TypeInv, SelfInv, FieldsOK, SeenOK
<1>5. TypeInv'
  BY <1>1, <1>3, <1>4, Unmoved DEF TypeInv, StackInv
<1>6. \A x : Owing(x)' = Owing(x)
  BY <1>1 DEF Owing, Num
<1>7. (\A h \in Globs : StepLaw(h))' /\ (\A k : KeyLaw(k))'
  BY <1>1, <1>2, <1>3, <1>6 DEF CountInv, StepLaw, KeyLaw, NoAbort
<1>8. CleanLaw'
  BY <1>1 DEF CountInv, CleanLaw
<1>9. QED
  BY <1>5, <1>7, <1>8 DEF Kept, CountInv

LEMMA InitKeeps == ASSUME Init PROVE TypeInv /\ CountInv
<1>1. /\ search \in Searches /\ self = [g \in Globs |-> Glob0(o(g))] /\ out = [g \in Globs |-> Out0]
      /\ reqs = None /\ pending = EmptyBag /\ stack = <<>> /\ ticks = <<>> /\ draining = FALSE
  BY DEF Init
<1>2. ASSUME NEW g \in Globs
      PROVE  /\ FieldsOK(g, self[g]) /\ self[g]._processing = 0 /\ self[g]._processQueue = <<>>
             /\ ~self[g].aborted /\ ~self[g].paused
  <2> DEFINE s == setopts(o(g))
  <2>1. /\ DOMAIN s = {"minimatch", "ignore", "matches", "cache", "statCache", "symlinks"}
        /\ s.cache = None /\ s.statCache = None /\ s.symlinks = None
    BY DEF setopts
  <2> HIDE DEF s
  <2> DEFINE more == [_processing |-> 0, _emitQueue |-> <<>>, _processQueue |-> <<>>,
                      paused |-> FALSE, aborted |-> FALSE]
  <2>2. self[g] = [f \in DOMAIN s \cup DOMAIN more |-> IF f \in DOMAIN s THEN s[f] ELSE more[f]]
    BY <1>1 DEF Glob0, s
  <2>3. /\ DOMAIN more = {"_processing", "_emitQueue", "_processQueue", "paused", "aborted"}
        /\ more._processing = 0 /\ more._emitQueue = <<>> /\ more._processQueue = <<>>
        /\ more.paused = FALSE /\ more.aborted = FALSE
    OBVIOUS
  <2> HIDE DEF more
  <2>4. DOMAIN self[g] = Fields
    BY <2>1, <2>2, <2>3 DEF Fields
  <2>5. /\ self[g].minimatch = s.minimatch /\ self[g].ignore = s.ignore
        /\ self[g].cache = None /\ self[g].statCache = None /\ self[g].symlinks = None
    BY <2>1, <2>2
  <2>6. /\ self[g]._processing = 0 /\ self[g]._emitQueue = <<>> /\ self[g]._processQueue = <<>>
        /\ self[g].paused = FALSE /\ self[g].aborted = FALSE
    BY <2>1, <2>2, <2>3
  <2>7. IsSeq(<<>>) /\ Again(<<>>, g) /\ Known(None) /\ DOMAIN None = {}
    BY SeqNone DEF Again, Known, None
  <2>8. s.minimatch = setopts(o(g)).minimatch /\ s.ignore = setopts(o(g)).ignore
    BY DEF s
  <2>9. /\ self[g].paused \in BOOLEAN /\ self[g].aborted \in BOOLEAN /\ self[g]._processing \in Int
        /\ IsSeq(self[g]._emitQueue) /\ Again(self[g]._processQueue, g)
    <3>1. self[g]._processing \in Int
      BY <2>6
    <3>2. self[g].paused \in BOOLEAN /\ self[g].aborted \in BOOLEAN
      BY <2>6, Zenon
    <3>3. IsSeq(self[g]._emitQueue) /\ Again(self[g]._processQueue, g)
      BY <2>6, <2>7, Zenon
    <3>4. QED
      BY <3>1, <3>2, <3>3
  <2>10. /\ Known(self[g].cache) /\ Known(self[g].statCache)
         /\ \A abs \in DOMAIN self[g].symlinks : self[g].symlinks[abs] \in BOOLEAN
    BY <2>5, <2>7
  <2>11. FieldsOK(g, self[g])
    BY <2>4, <2>5, <2>8, <2>9, <2>10 DEF FieldsOK
  <2>12. QED
    BY <2>6, <2>11
<1>3. SelfInv
  BY <1>1, <1>2 DEF SelfInv, SeenOK, Out0
<1>4. FramesOK(<<>>, Running) /\ NoCleanup(<<>>)
  BY FramesFew
<1>5. DOMAIN <<>> = {} /\ IsBag(EmptyBag) /\ IsReqs(None)
  BY SeqNone, NoCopies, NoPlaces
<1>6. ReqsInv
  BY <1>1, <1>5 DEF ReqsInv, Places, None
<1>7. PendingInv
  <2>1. DOMAIN EmptyBag = {}
    BY DEF EmptyBag, SetToBag
  <2>2. QED
    BY <1>1, <1>5, <2>1 DEF PendingInv
<1>8. TypeInv
  BY <1>1, <1>3, <1>4, <1>5, <1>6, <1>7 DEF TypeInv, StackInv, TicksInv
<1>9. \A x : Owing(x) = 0
  BY <1>1, InNone, NoCopies, NoPlaces DEF Owing, Num
<1>10. ASSUME NEW g \in Globs PROVE StepLaw(g)
  <2>1. Extra(g) = 0 /\ Len(<<>>) = 0
    BY <1>1, SeqNone DEF Extra, Out0
  <2>2. QED
    BY <1>2, <1>9, <2>1 DEF StepLaw
<1>11. ASSUME NEW key PROVE KeyLaw(key)
  BY <1>1, <1>5, <1>9 DEF KeyLaw, None
<1>12. CleanLaw
  BY <1>1, <1>5 DEF CleanLaw
<1>13. QED
  BY <1>8, <1>10, <1>11, <1>12 DEF CountInv

-----------------------------------------------------------------------------
(***************************************************************************)
(* The theorems.                                                           *)
(***************************************************************************)
IInv == TypeInv /\ CountInv

LEMMA NextKeeps == ASSUME IInv, [Next]_vars PROVE IInv'
<1> USE DEF IInv
<1>1. CASE JavaScript
  <2>1. CASE Uncount
    BY <2>1, UncountKeeps DEF Kept
  <2>2. CASE _process
    BY <2>2, ProcessKeeps DEF Kept
  <2>3. CASE _processReaddir2
    BY <2>3, ProcessReaddir2Keeps DEF Kept
  <2>4. CASE _processGlobStar2
    BY <2>4, ProcessGlobStar2Keeps DEF Kept
  <2>5. CASE _processSimple2
    BY <2>5, ProcessSimple2Keeps DEF Kept
  <2>6. CASE _emitMatch
    BY <2>6, EmitMatchKeeps DEF Kept
  <2>7. CASE Heard
    BY <2>7, HeardKeeps DEF Kept
  <2>8. CASE done
    BY <2>8, DoneKeeps DEF Kept
  <2>9. CASE _readdir
    BY <2>9, ReaddirKeeps DEF Kept
  <2>10. CASE _readdirInGlobStar
    BY <2>10, ReaddirInGlobStarKeeps DEF Kept
  <2>11. CASE lstatcb
    BY <2>11, LstatcbKeeps DEF Kept
  <2>12. CASE readdirCb
    BY <2>12, ReaddirCbKeeps DEF Kept
  <2>13. CASE _stat
    BY <2>13, StatKeeps DEF Kept
  <2>14. CASE statcb
    BY <2>14, StatcbKeeps DEF Kept
  <2>15. CASE targetcb
    BY <2>15, TargetcbKeeps DEF Kept
  <2>16. CASE RES_
    BY <2>16, ResKeeps DEF Kept
  <2>17. CASE cleanup
    BY <2>17, CleanupKeeps DEF Kept
  <2>18. QED
    BY <1>1, <2>1, <2>2, <2>3, <2>4, <2>5, <2>6, <2>7, <2>8, <2>9, <2>10, <2>11, <2>12,
       <2>13, <2>14, <2>15, <2>16, <2>17 DEF JavaScript
<1>2. CASE Tick
  BY <1>2, TickKeeps DEF Kept
<1>3. CASE Answers
  BY <1>3, AnswersKeep DEF Kept
<1>4. CASE Callers
  <2>1. PICK g \in Globs : Glob(g) \/ abort(g) \/ pause(g) \/ resume(g)
    BY <1>4 DEF Callers
  <2>2. QED
    BY <2>1, GlobKeeps, AbortKeeps, PauseKeeps, ResumeKeeps DEF Kept
<1>5. CASE UNCHANGED vars
  BY <1>5, StutterKeeps DEF Kept
<1>6. QED
  BY <1>1, <1>2, <1>3, <1>4, <1>5 DEF Next

(* The counts are right in every state: each search's _processing is the   *)
(* number of the steps that are owed to it, and one call will answer each  *)
(* request in flight.                                                      *)
THEOREM CountsRight == Spec => []IInv
<1>1. Init => IInv
  BY InitKeeps DEF IInv
<1>2. IInv /\ [Next]_vars => IInv'
  BY NextKeeps
<1>3. QED
  BY <1>1, <1>2, PTL DEF Spec

(* Nothing is counted below zero (but for a pattern without alternatives), *)
(* and who is in flight waits for somebody: the whole type invariant.      *)
THEOREM TypeOKAlways == Spec => []TypeOK
<1>1. ASSUME IInv PROVE TypeOK
  <2>1. search \in Searches /\ draining \in BOOLEAN
    BY <1>1 DEF IInv, TypeInv, SelfInv
  <2>2. ASSUME NEW g \in Globs
        PROVE  /\ self[g]._processing \in Int
               /\ self[g].minimatch.set # <<>> => self[g]._processing >= 0
               /\ \A abs \in DOMAIN self[g].symlinks : self[g].symlinks[abs] \in BOOLEAN
    <3>1. FieldsOK(g, self[g]) /\ StepLaw(g) /\ Owing(Step(g)) \in Nat
      BY <1>1, Numbers DEF IInv, TypeInv, SelfInv, CountInv
    <3>2. Len(self[g]._processQueue) \in Nat
      BY <3>1, SeqDomain DEF FieldsOK, Again
    <3>3. self[g].minimatch.set # <<>> => Extra(g) = 0
      BY DEF Extra
    <3>4. QED
      BY <3>1, <3>2, <3>3 DEF FieldsOK, StepLaw
  <2>3. \A key \in DOMAIN reqs : reqs[key] # <<>>
    BY <1>1 DEF IInv, TypeInv, ReqsInv, IsReqs
  <2>4. QED
    BY <2>1, <2>2, <2>3 DEF TypeOK
<1>2. QED
  BY <1>1, CountsRight, PTL

\* Who owes the answer to a request are those that the property speaks of.
LEMMA HoldersOwe ==
    ASSUME TypeInv, stack = <<>>, NEW key
    PROVE  Holders(key) = Owing(Asked(key))
<1> DEFINE x == Asked(key)
<1>1. \A g : Step(g) # x
  BY Tokens
<1>2. ASSUME NEW fn, FnOK(fn, Running), fn.name \in WaitNames \cup AskNames
      PROVE  x \in Debts(fn) <=> holds(fn, key)
  <2>1. CASE fn.name = "RES"
    <3>1. fn = RES(fn.key) /\ Debts(fn) = {Asked(fn.key)}
      BY <1>2, <2>1 DEF FnOK, Debts
    <3>2. QED
      BY <2>1, <3>1, Tokens DEF holds
  <2>2. CASE fn.name \in {"lstatcb", "readdirCb"}
    <3>1. fn.cb = RES(fn.cb.key) /\ Debts(fn) = {Asked(fn.cb.key)}
      BY <1>2, <2>2 DEF FnOK, Debts
    <3>2. fn.cb = RES(key) <=> fn.cb.key = key
      BY <3>1 DEF RES
    <3>3. QED
      BY <2>2, <3>1, <3>2, Tokens DEF holds
  <2>3. CASE fn.name \in {"_processReaddir2", "_processGlobStar2", "statcb", "targetcb"}
    <3>1. Debts(fn) = {Step(fn.g)}
      BY <2>3 DEF Debts
    <3>2. QED
      BY <1>1, <2>3, <3>1 DEF holds
  <2>4. QED
    BY <1>2, <2>1, <2>2, <2>3 DEF WaitNames, AskNames
<1> HIDE DEF x
<1>3. Waiters(stack, reqs, x) = {w \in Waiting : holds(callback(w), key)}
  <2>1. Waiting = Places(reqs)
    BY DEF Waiting, Places
  <2>2. \A w : ~Answered(stack, w)
    BY SeqNone DEF Answered
  <2>3. \A w \in Places(reqs) : x \in Debts(reqs[w[1]][w[2]]) <=> holds(reqs[w[1]][w[2]], key)
    BY <1>2 DEF TypeInv, ReqsInv, WaitOK
  <2>4. QED
    BY <2>1, <2>2, <2>3 DEF Waiters, callback
<1>4. Callees(pending, x) = {c \in Calling : holds(c[1].cb, key)}
  <2>1. Calling = Copies(pending)
    BY DEF Calling, Copies
  <2>2. \A c \in Copies(pending) : c[1] \in DOMAIN pending
    BY DEF Copies
  <2>3. \A c \in Copies(pending) : x \in Debts(c[1].cb) <=> holds(c[1].cb, key)
    BY <1>2, <2>2 DEF TypeInv, PendingInv, AskOK
  <2>4. QED
    BY <2>1, <2>3 DEF Callees
<1>5. Debtors(ticks, x) = {k \in DOMAIN ticks : ticks[k].fn = RES(key)}
  <2>1. ASSUME NEW k \in DOMAIN ticks PROVE x \in Debts(ticks[k].fn) <=> ticks[k].fn = RES(key)
    <3>1. FnOK(ticks[k].fn, Running) /\ ticks[k].fn.name = "RES"
      BY DEF TypeInv, TicksInv, FramesOK, FrameOK
    <3>2. ticks[k].fn = RES(ticks[k].fn.key) /\ Debts(ticks[k].fn) = {Asked(ticks[k].fn.key)}
      BY <3>1 DEF FnOK, Debts
    <3>3. ticks[k].fn = RES(key) <=> ticks[k].fn.key = key
      BY <3>2 DEF RES
    <3>4. QED
      BY <3>2, <3>3, Tokens DEF x
  <2>2. QED
    BY <2>1 DEF Debtors
<1>6. InCalls(stack, x) = 0
  BY InNone
<1>7. Holders(key) = InReqs(stack, reqs, x) + InBag(pending, x) + InCalls(ticks, x)
  BY <1>3, <1>4, <1>5 DEF Holders, InReqs, InBag, InCalls
<1>8. QED
  BY <1>6, <1>7, Numbers DEF Owing, Num, x

(* While no search is aborted exactly one call will answer a request that  *)
(* is in flight: nobody who waits for it is left waiting.                  *)
THEOREM OneHolderAlways == Spec => []OneHolder
<1>1. ASSUME IInv PROVE OneHolder
  <2>1. SUFFICES ASSUME stack = <<>>, \A g \in Globs : ~self[g].aborted, NEW key \in DOMAIN reqs
                 PROVE  Holders(key) = 1
    BY DEF OneHolder
  <2>2. Holders(key) = Owing(Asked(key))
    BY <1>1, <2>1, HoldersOwe DEF IInv
  <2>3. KeyLaw(key) /\ NoAbort
    BY <1>1, <2>1 DEF IInv, CountInv, NoAbort
  <2>4. QED
    BY <2>1, <2>2, <2>3 DEF KeyLaw
<1>2. QED
  BY <1>1, CountsRight, PTL

\* What a step may do to the search that acts: nothing, once it is aborted.
Harmless(g) == self[g].aborted => /\ self'[g].matches = self[g].matches
                                  /\ out'[g] = out[g] \/ out'[g].pauses > out[g].pauses

LEMMA OneActs ==
    ASSUME TypeInv, stack # <<>>, Fn.name \in Own, NEW s, Set(s), out' = out,
           Me.aborted => s.matches = Me.matches
    PROVE  \A g \in Globs : Harmless(g)
<1>1. Fn.g \in Globs /\ self' = [self EXCEPT ![Fn.g] = s] /\ DOMAIN self = Globs
  BY Acting DEF Set, TypeInv, SelfInv
<1>2. QED
  BY <1>1 DEF Harmless, Me

LEMMA NoneActs ==
    ASSUME UNCHANGED <<self, out>>
    PROVE  \A g \in Globs : Harmless(g)
BY DEF Harmless

LEMMA FieldsMatches ==
    ASSUME NEW g, NEW s, FieldsOK(g, s)
    PROVE  \A n : [s EXCEPT !._processing = n].matches = s.matches
BY DEF FieldsOK, Fields

LEMMA JavaScriptHarmless ==
    ASSUME TypeInv, JavaScript
    PROVE  \A g \in Globs : Harmless(g)
<1>1. CASE Uncount
  <2>1. stack # <<>> /\ Fn.name = "uncount" /\ out' = out /\ Set([Me EXCEPT !._processing = @ - 1])
    BY <1>1 DEF Uncount, Top, Fn
  <2>2. FieldsOK(Fn.g, Me) /\ Fn.name \in Own
    BY <2>1, Acting DEF Own
  <2>3. QED
    BY <2>1, <2>2, FieldsMatches, OneActs
<1>2. CASE _process
  <2>1. stack # <<>> /\ Fn.name = "_process" /\ out' = out
    BY <1>2 DEF _process, Top, Fn
  <2>2. FieldsOK(Fn.g, Me) /\ Fn.name \in Own
    BY <2>1, Acting DEF Own
  <2>3. CASE UNCHANGED self
    BY <2>1, <2>3, NoneActs
  <2>4. CASE Set([Me EXCEPT !._processing = @ + 1, !._processQueue = Append(@, Head(stack))])
    <3> DEFINE s == [Me EXCEPT !._processing = @ + 1, !._processQueue = Append(@, Head(stack))]
    <3>1. Set(s) /\ s.matches = Me.matches
      BY <2>2, <2>4 DEF FieldsOK, Fields
    <3> HIDE DEF s
    <3>2. QED
      BY <2>1, <2>2, <3>1, OneActs
  <2>5. CASE Set([Me EXCEPT !._processing = @ + 1])
    BY <2>1, <2>2, <2>5, FieldsMatches, OneActs
  <2>6. QED
    BY <1>2, <2>3, <2>4, <2>5 DEF _process
<1>3. CASE _emitMatch
  <2>1. stack # <<>> /\ Fn.name = "_emitMatch" /\ out' = out
    BY <1>3 DEF _emitMatch, Top, Fn
  <2>2. FieldsOK(Fn.g, Me) /\ Fn.name \in Own
    BY <2>1, Acting DEF Own
  <2>3. CASE UNCHANGED self
    BY <2>1, <2>3, NoneActs
  <2>4. CASE Set([Me EXCEPT !._emitQueue = Append(@, <<Fn.index, Fn.e>>)])
    <3> DEFINE s == [Me EXCEPT !._emitQueue = Append(@, <<Fn.index, Fn.e>>)]
    <3>1. Set(s) /\ s.matches = Me.matches
      BY <2>2, <2>4 DEF FieldsOK, Fields
    <3> HIDE DEF s
    <3>2. QED
      BY <2>1, <2>2, <3>1, OneActs
  <2>5. CASE ~Me.aborted /\ Set(add(Me, Fn.index, {Fn.e}))
    BY <2>1, <2>2, <2>5, OneActs
  <2>6. QED
    BY <1>3, <2>3, <2>4, <2>5 DEF _emitMatch
<1>4. CASE done
  <2>1. stack # <<>> /\ Fn.name = "done" /\ Set([Me EXCEPT !._processing = @ - 1])
    BY <1>4 DEF done, Top, Fn
  <2>2. FieldsOK(Fn.g, Me) /\ Fn.name \in Own /\ Fn.g \in Globs /\ DOMAIN self = Globs /\ DOMAIN out = Globs
    BY <2>1, Acting DEF Own, TypeInv, SelfInv
  <2>3. self'[Fn.g].matches = Me.matches /\ \A g \in Globs : g # Fn.g => self'[g] = self[g]
    BY <2>1, <2>2, FieldsMatches DEF Set
  <2>4. \A g \in Globs : self[g].aborted \/ g # Fn.g => out'[g] = out[g]
    <3>1. CASE Me.aborted
      BY <1>4, <3>1 DEF done
    <3>2. CASE ~Me.aborted
      <4>1. \A g \in Globs : g # Fn.g => out'[g] = out[g]
        BY <1>4, <2>2 DEF done
      <4>2. QED
        BY <3>2, <4>1 DEF Me
    <3>3. QED
      BY <3>1, <3>2
  <2>5. QED
    BY <2>3, <2>4 DEF Harmless, Me
<1>5. CASE lstatcb
  <2>1. stack # <<>> /\ Fn.name = "lstatcb" /\ out' = out
    BY <1>5 DEF lstatcb, Top, Fn
  <2>2. FieldsOK(Fn.g, Me) /\ Fn.name \in Own
    BY <2>1, Acting DEF Own
  <2> DEFINE noted == [Me EXCEPT !.symlinks = put(@, Fn.abs, Ans.kind = "link")]
  <2>3. CASE UNCHANGED self
    BY <2>1, <2>3, NoneActs
  <2>4. CASE Set([noted EXCEPT !.cache = put(@, Fn.abs, Kind("FILE"))])
    <3> DEFINE s == [noted EXCEPT !.cache = put(@, Fn.abs, Kind("FILE"))]
    <3>1. Set(s) /\ s.matches = Me.matches
      BY <2>2, <2>4 DEF FieldsOK, Fields
    <3> HIDE DEF s
    <3>2. QED
      BY <2>1, <2>2, <3>1, OneActs
  <2>5. CASE Set(noted)
    <3>1. noted.matches = Me.matches
      BY <2>2 DEF FieldsOK, Fields
    <3> HIDE DEF noted
    <3>2. QED
      BY <2>1, <2>2, <2>5, <3>1, OneActs
  <2>6. QED
    BY <1>5, <2>3, <2>4, <2>5 DEF lstatcb
<1>6. CASE readdirCb
  <2> DEFINE fails == Ans.er = "EACCES" /\ o(Fn.g).strict
             noted == _readdirError(Me, Fn.abs, Ans.er)
  <2>1. stack # <<>> /\ Fn.name = "readdirCb"
    BY <1>6 DEF readdirCb, Top, Fn
  <2>2. FieldsOK(Fn.g, Me) /\ Fn.name \in Own /\ Fn.g \in Globs /\ DOMAIN self = Globs /\ DOMAIN out = Globs
    BY <2>1, Acting DEF Own, TypeInv, SelfInv
  <2>3. CASE UNCHANGED <<self, out>>
    BY <2>3, NoneActs
  <2>4. CASE ~Me.aborted /\ Set(_readdirEntries(Me, Fn.abs, Ans.entries)) /\ UNCHANGED out
    BY <2>1, <2>2, <2>4, OneActs
  <2>5. CASE ~Me.aborted /\ Set([noted EXCEPT !.aborted = @ \/ fails])
                /\ out' = [out EXCEPT ![Fn.g].error = @ \/ fails]
    <3>1. \A g \in Globs : g # Fn.g => self'[g] = self[g] /\ out'[g] = out[g]
      BY <2>2, <2>5 DEF Set
    <3>2. QED
      BY <2>5, <3>1 DEF Harmless, Me
  <2>6. QED
    BY <1>6, <2>3, <2>4, <2>5 DEF readdirCb
<1>7. CASE statcb \/ targetcb
  <2>1. stack # <<>> /\ Fn.name \in Own /\ out' = out
    BY <1>7 DEF statcb, targetcb, Top, Fn, Own
  <2>2. FieldsOK(Fn.g, Me)
    BY <2>1, Acting
  <2>3. CASE UNCHANGED self
    BY <2>1, <2>3, NoneActs
  <2>4. CASE Set([Me EXCEPT !.statCache = put(@, Fn.abs, Kind("false"))])
    <3> DEFINE s == [Me EXCEPT !.statCache = put(@, Fn.abs, Kind("false"))]
    <3>1. Set(s) /\ s.matches = Me.matches
      BY <2>2, <2>4 DEF FieldsOK, Fields
    <3> HIDE DEF s
    <3>2. QED
      BY <2>1, <2>2, <3>1, OneActs
  <2>5. ASSUME NEW kind, _stat2(kind) PROVE \A g \in Globs : Harmless(g)
    <3> DEFINE c == IF Fn.abs \in DOMAIN Me.cache THEN Me.cache[Fn.abs] ELSE Kind("false")
               f == put(Me.statCache, Fn.abs, Kind(kind))
               h == put(Me.cache, Fn.abs, IF c.kind = "false" THEN Kind(type(kind)) ELSE c)
               s == [Me EXCEPT !.statCache = f, !.cache = h]
    <3>1. Set(s)
      BY <2>5 DEF _stat2
    <3> HIDE DEF f, h
    <3>2. s.matches = Me.matches
      BY <2>2 DEF FieldsOK, Fields
    <3> HIDE DEF s
    <3>3. QED
      BY <2>1, <2>2, <3>1, <3>2, OneActs
  <2>6. CASE statcb
    <3> DEFINE kind == Ans.kind
    <3>1. \/ UNCHANGED self
          \/ Set([Me EXCEPT !.statCache = put(@, Fn.abs, Kind("false"))])
          \/ _stat2(kind)
      BY <2>6, Zenon DEF statcb
    <3> HIDE DEF kind
    <3>2. CASE _stat2(kind)
      BY <3>2, <2>5
    <3>3. QED
      BY <2>3, <2>4, <3>1, <3>2, Zenon
  <2>7. CASE targetcb
    <3> DEFINE kind == IF Ans.er = "" THEN Ans.kind ELSE "link"
    <3>1. _stat2(kind)
      BY <2>7, Zenon DEF targetcb
    <3> HIDE DEF kind
    <3>2. QED
      BY <2>5, <3>1
  <2>8. QED
    BY <1>7, <2>6, <2>7
<1>8. CASE \/ _processReaddir2 \/ _processGlobStar2 \/ _processSimple2 \/ Heard \/ _readdir
           \/ _readdirInGlobStar \/ _stat \/ RES_ \/ cleanup
  <2>1. UNCHANGED <<self, out>>
    BY <1>8 DEF _processReaddir2, _processGlobStar2, _processSimple2, Heard, _readdir,
         _readdirInGlobStar, _stat, RES_, cleanup
  <2>2. QED
    BY <2>1, NoneActs
<1>9. QED
  BY <1>1, <1>2, <1>3, <1>4, <1>5, <1>6, <1>7, <1>8 DEF JavaScript

LEMMA CallersHarmless ==
    ASSUME TypeInv, Callers
    PROVE  \A h \in Globs : Harmless(h)
<1>1. PICK g \in Globs : Glob(g) \/ abort(g) \/ pause(g) \/ resume(g)
  BY DEF Callers
<1>2. DOMAIN self = Globs /\ DOMAIN out = Globs /\ out[g].pauses \in Nat /\ FieldsOK(g, self[g])
  BY DEF TypeInv, SelfInv, SeenOK
<1>3. CASE Glob(g)
  <2>1. self' = self /\ ~self[g].aborted /\ out' = [out EXCEPT ![g].started = TRUE]
    BY <1>3 DEF Glob, TypeInv, SelfInv
  <2>2. QED
    BY <1>2, <2>1 DEF Harmless
<1>4. CASE abort(g)
  <2>1. ~self[g].aborted /\ out' = out /\ \A h \in Globs : h # g => self'[h] = self[h]
    BY <1>2, <1>4 DEF abort
  <2>2. QED
    BY <2>1 DEF Harmless
<1>5. CASE pause(g)
  <2>1. /\ \A h \in Globs : h # g => self'[h] = self[h] /\ out'[h] = out[h]
        /\ self'[g] = [self[g] EXCEPT !.paused = TRUE]
        /\ out'[g] = [out[g] EXCEPT !.pauses = @ + 1]
    BY <1>2, <1>5 DEF pause
  <2>2. self'[g].matches = self[g].matches
    BY <2>1
  <2>3. out'[g].pauses > out[g].pauses
    BY <1>2, <2>1 DEF TypeInv, SelfInv, SeenOK
  <2>4. QED
    BY <2>1, <2>2, <2>3 DEF Harmless
<1>6. CASE resume(g)
  <2>1. /\ out' = out /\ \A h \in Globs : h # g => self'[h] = self[h]
        /\ self'[g] = [self[g] EXCEPT !.paused = FALSE, !._emitQueue = <<>>, !._processQueue = <<>>]
    BY <1>2, <1>6 DEF resume
  <2>2. self'[g].matches = self[g].matches
    BY <2>1
  <2>3. QED
    BY <2>1, <2>2 DEF Harmless
<1>7. QED
  BY <1>1, <1>3, <1>4, <1>5, <1>6

(* A search that was aborted, or failed, finds nothing more, does not end, *)
(* and raises no second error, whatever is still answered to it.           *)
THEOREM NothingAfterAbortAlways == Spec => NothingAfterAbort
<1>1. ASSUME IInv, [Next]_vars PROVE \A g \in Globs : Harmless(g)
  <2>1. TypeInv
    BY <1>1 DEF IInv
  <2>2. CASE JavaScript
    BY <2>1, <2>2, JavaScriptHarmless
  <2>3. CASE Tick \/ Answers \/ UNCHANGED vars
    BY <2>3, NoneActs DEF Tick, Answers, FsAnswers, vars
  <2>4. CASE Callers
    BY <2>1, <2>4, CallersHarmless
  <2>5. QED
    BY <1>1, <2>2, <2>3, <2>4 DEF Next
<1>2. IInv /\ [Next]_vars => [\A g \in Globs : self[g].aborted =>
                          /\ self'[g].matches = self[g].matches
                          /\ out'[g] = out[g] \/ out'[g].pauses > out[g].pauses]_vars
  BY <1>1 DEF Harmless
<1>3. QED
  BY <1>2, CountsRight, PTL DEF Spec, NothingAfterAbort

-----------------------------------------------------------------------------
(***************************************************************************)
(* Third: when a search ends.  As long as it has not ended there is work   *)
(* to come: calls of _process, or steps that it counts.  And when it ends  *)
(* no call of _process is left, for there is always a step below it on the *)
(* stack that is not done before it -- but in Glob itself, which calls     *)
(* _process for each alternative: there the first one asks fs.             *)
(***************************************************************************)
Below(s, j, g) == \E k \in DOMAIN s : k > j /\ Step(g) \in Debts(s[k].fn)
Normal(s, g) == \A j \in DOMAIN s : s[j].fn.name \in Own /\ s[j].fn.g = g =>
                  /\ s[j].fn.name = "_process" => Len(s) = 1 \/ Below(s, j, g)
                  /\ s[j].fn.name = "uncount" => j = Len(s) \/ Below(s, j, g)
Coming(s, g) == \E j \in DOMAIN s : s[j].fn.name = "_process" /\ s[j].fn.g = g

\* What is called while Glob runs.
EarlyOK(fn, g) ==
    /\ fn.name \in {"_process", "done", "_stat", "_readdir"} /\ fn.g = g
    /\ fn.name \in {"_process", "_readdir"} => ~fn.inGlobStar
    /\ fn.name = "_readdir" => fn.cb.name # "RES"
Starting(g) ==
    /\ stack # <<>> /\ \A k \in DOMAIN stack : EarlyOK(stack[k].fn, g)
    /\ ~self[g].paused /\ ~self[g].aborted /\ self[g].cache = None /\ self[g].statCache = None
    /\ \/ /\ Fn.name = "_process" /\ Len(self[g].minimatch.set) > 1
          /\ Fn.pattern = self[g].minimatch.set[1]
       \/ Fn.name \in {"_stat", "_readdir"}
       \/ self[g]._processing > InCalls(stack, Step(g))

FreshInv(g) == ~out[g].started => /\ self[g].cache = None /\ self[g].statCache = None
                                  /\ self[g]._processing = 0 /\ out[g].ends = 0
WorkInv(g) == out[g].started /\ ~self[g].aborted /\ out[g].ends = 0 =>
                 Coming(stack, g) \/ self[g]._processing + Extra(g) > 0
EmptyInv(g) == out[g].started /\ ~self[g].aborted /\ out[g].ends = 0 /\ self[g].minimatch.set = <<>> =>
                 stack = <<Done(g)>> /\ self[g]._processing = 0
EndInv(g) == /\ Normal(stack, g) \/ Starting(g)
             /\ out[g].started /\ ~self[g].aborted /\ out[g].ends > 0 =>
                  out[g].ends = 1 /\ self[g]._processing + Extra(g) = 0 /\ ~Coming(stack, g)
OnceAt(g) == FreshInv(g) /\ WorkInv(g) /\ EmptyInv(g) /\ (~hasty(g) => EndInv(g))
OnceInv == \A g \in Globs : OnceAt(g)

LEMMA PatternsSame ==
    ASSUME TypeInv, TypeInv', search' = search
    PROVE  /\ Globs' = Globs
           /\ \A h \in Globs : self'[h].minimatch.set = self[h].minimatch.set
           /\ \A h \in Globs : hasty(h)' <=> hasty(h)
<1>1. Globs' = Globs /\ \A h : o(h)' = o(h)
  BY DEF Globs, o
<1>2. ASSUME NEW h \in Globs
      PROVE  self'[h].minimatch = self[h].minimatch /\ self'[h].ignore = self[h].ignore
  <2>1. FieldsOK(h, self[h]) /\ FieldsOK(h, self[h])'
    BY <1>1 DEF TypeInv, SelfInv
  <2>2. QED
    BY <1>1, <2>1 DEF FieldsOK
<1>3. QED
  BY <1>1, <1>2 DEF hasty, childrenIgnored

\* After a return: which calls are on the stack, and what is below them.
After(s, calls, t) ==
    /\ IsSeq(t) /\ Len(t) = Len(calls) + Len(s) - 1
    /\ Len(s) \in Nat /\ Len(s) > 0 /\ DOMAIN s = 1..Len(s)
    /\ Len(calls) \in Nat /\ DOMAIN calls = 1..Len(calls) /\ DOMAIN t = 1..Len(t)
    /\ \A k \in 1..Len(calls) : t[k] = calls[k]
    /\ \A k \in 2..Len(s) : t[Len(calls) + k - 1] = s[k]
LEMMA AfterReturn ==
    ASSUME NEW s, NEW calls, IsSeq(s), IsSeq(calls), s # <<>>
    PROVE  After(s, calls, calls \o Tail(s))
<1> DEFINE t == calls \o Tail(s)
<1>1. /\ IsSeq(Tail(s)) /\ Len(s) > 0 /\ Len(Tail(s)) = Len(s) - 1
      /\ \A j \in 1..Len(s) - 1 : Tail(s)[j] = s[j + 1]
  BY SeqTail
<1>2. /\ IsSeq(t) /\ Len(t) = Len(calls) + Len(Tail(s))
      /\ \A j \in 1..Len(calls) : t[j] = calls[j]
      /\ \A j \in 1..Len(Tail(s)) : t[Len(calls) + j] = Tail(s)[j]
  BY <1>1, SeqCat
<1>3. /\ DOMAIN t = 1..Len(t) /\ DOMAIN s = 1..Len(s) /\ DOMAIN calls = 1..Len(calls)
      /\ Len(s) \in Nat /\ Len(calls) \in Nat
  BY <1>2, SeqDomain
<1>4. ASSUME NEW k \in 2..Len(s) PROVE t[Len(calls) + k - 1] = s[k]
  <2>1. k - 1 \in 1..Len(s) - 1 /\ (k - 1) + 1 = k /\ Len(calls) + (k - 1) = Len(calls) + k - 1
    BY <1>3
  <2>2. t[Len(calls) + (k - 1)] = Tail(s)[k - 1] /\ Tail(s)[k - 1] = s[(k - 1) + 1]
    BY <1>1, <1>2, <2>1
  <2>3. QED
    BY <2>1, <2>2
<1> HIDE DEF t
<1>5. Len(t) = Len(calls) + Len(s) - 1
  BY <1>1, <1>2, <1>3
<1>6. After(s, calls, t)
  BY <1>1, <1>2, <1>3, <1>4, <1>5 DEF After
<1>7. QED
  BY <1>6 DEF t

\* Where a call on the stack comes from.
Origin(s, calls, t, j) ==
    \/ j \in DOMAIN calls /\ t[j] = calls[j]
    \/ \E i \in DOMAIN s : /\ i > 1 /\ t[j] = s[i] /\ (i = Len(s) => j = Len(t))
                           /\ \A g : Below(s, i, g) => Below(t, j, g)
LEMMA Whence ==
    ASSUME NEW s, NEW calls, NEW t, After(s, calls, t), NEW j \in DOMAIN t
    PROVE  Origin(s, calls, t, j)
<1>1. /\ IsSeq(t) /\ Len(t) = Len(calls) + Len(s) - 1
      /\ Len(s) \in Nat /\ Len(s) > 0 /\ DOMAIN s = 1..Len(s)
      /\ Len(calls) \in Nat /\ DOMAIN calls = 1..Len(calls) /\ DOMAIN t = 1..Len(t)
      /\ \A k \in 1..Len(calls) : t[k] = calls[k]
      /\ \A k \in 2..Len(s) : t[Len(calls) + k - 1] = s[k]
  BY DEF After
<1>2. CASE j \in 1..Len(calls)
  BY <1>1, <1>2 DEF Origin
<1>3. CASE j \notin 1..Len(calls)
  <2> DEFINE i == j - Len(calls) + 1
  <2>1. i \in 2..Len(s) /\ i \in DOMAIN s /\ i > 1 /\ j = Len(calls) + i - 1 /\ (i = Len(s) => j = Len(t))
    BY <1>1, <1>3
  <2> HIDE DEF i
  <2>2. t[j] = s[i]
    BY <1>1, <2>1
  <2>3. ASSUME NEW g, Below(s, i, g) PROVE Below(t, j, g)
    <3>1. PICK k \in DOMAIN s : k > i /\ Step(g) \in Debts(s[k].fn)
      BY <2>3 DEF Below
    <3>2. k \in 2..Len(s) /\ Len(calls) + k - 1 \in 1..Len(t) /\ Len(calls) + k - 1 > j
      <4>1. Len(s) \in Nat /\ Len(calls) \in Nat /\ Len(t) = Len(calls) + Len(s) - 1 /\ k \in 1..Len(s)
        BY <1>1, <3>1
      <4>2. i \in 2..Len(s) /\ j = Len(calls) + i - 1 /\ k > i
        BY <2>1, <3>1
      <4>3. QED
        BY <4>1, <4>2
    <3>3. t[Len(calls) + k - 1] = s[k] /\ Len(calls) + k - 1 \in DOMAIN t
      BY <1>1, <3>2
    <3>4. QED
      BY <3>1, <3>2, <3>3 DEF Below
  <2>4. QED
    BY <2>1, <2>2, <2>3 DEF Origin
<1>4. QED
  BY <1>2, <1>3

\* Calls that are not of this search leave it as it was.
LEMMA StaysNormal ==
    ASSUME NEW s, NEW calls, IsSeq(s), s # <<>>, NEW t, After(s, calls, t), NEW h,
           \A j \in DOMAIN calls : calls[j].fn.name \in {"_process", "uncount"} => calls[j].fn.g # h
    PROVE  /\ Normal(s, h) => Normal(t, h)
           /\ Coming(t, h) => Coming(s, h)
           /\ Coming(s, h) => Coming(t, h) \/ (Head(s).fn.name = "_process" /\ Head(s).fn.g = h)
<1>1. /\ IsSeq(t) /\ Len(t) = Len(calls) + Len(s) - 1
      /\ Len(s) \in Nat /\ Len(s) > 0 /\ DOMAIN s = 1..Len(s)
      /\ Len(calls) \in Nat /\ DOMAIN calls = 1..Len(calls) /\ DOMAIN t = 1..Len(t)
      /\ \A k \in 1..Len(calls) : t[k] = calls[k]
      /\ \A k \in 2..Len(s) : t[Len(calls) + k - 1] = s[k]
  BY DEF After
<1>2. Head(s) = s[1]
  BY SeqTail
<1>3. ASSUME Normal(s, h), NEW j \in DOMAIN t, t[j].fn.name \in Own, t[j].fn.g = h
      PROVE  /\ t[j].fn.name = "_process" => Len(t) = 1 \/ Below(t, j, h)
             /\ t[j].fn.name = "uncount" => j = Len(t) \/ Below(t, j, h)
  <2>1. CASE j \in DOMAIN calls /\ t[j] = calls[j]
    BY <1>3, <2>1
  <2>2. CASE \E i \in DOMAIN s : /\ i > 1 /\ t[j] = s[i] /\ (i = Len(s) => j = Len(t))
                                 /\ \A g : Below(s, i, g) => Below(t, j, g)
    <3>1. PICK i \in DOMAIN s : /\ i > 1 /\ t[j] = s[i] /\ (i = Len(s) => j = Len(t))
                                /\ \A g : Below(s, i, g) => Below(t, j, g)
      BY <2>2
    <3>2. Len(s) # 1
      BY <1>1, <3>1
    <3>3. /\ s[i].fn.name = "_process" => Len(s) = 1 \/ Below(s, i, h)
          /\ s[i].fn.name = "uncount" => i = Len(s) \/ Below(s, i, h)
      BY <1>3, <3>1 DEF Normal
    <3>4. Below(s, i, h) => Below(t, j, h)
      BY <3>1
    <3>5. QED
      BY <3>1, <3>2, <3>3, <3>4
  <2>3. Origin(s, calls, t, j)
    BY Whence
  <2>4. QED
    BY <2>1, <2>2, <2>3 DEF Origin
<1>4. ASSUME Coming(t, h) PROVE Coming(s, h)
  <2>1. PICK j \in DOMAIN t : t[j].fn.name = "_process" /\ t[j].fn.g = h
    BY <1>4 DEF Coming
  <2>2. ~(j \in DOMAIN calls /\ t[j] = calls[j])
    BY <2>1
  <2>3. \E i \in DOMAIN s : t[j] = s[i]
    <3>1. Origin(s, calls, t, j)
      BY Whence
    <3>2. QED
      BY <2>2, <3>1 DEF Origin
  <2>4. QED
    BY <2>1, <2>3 DEF Coming
<1>5. ASSUME Coming(s, h), ~(Head(s).fn.name = "_process" /\ Head(s).fn.g = h) PROVE Coming(t, h)
  <2>1. PICK j \in DOMAIN s : s[j].fn.name = "_process" /\ s[j].fn.g = h
    BY <1>5 DEF Coming
  <2>2. j # 1
    BY <1>2, <1>5, <2>1
  <2>3. j \in 2..Len(s) /\ Len(calls) + j - 1 \in DOMAIN t
    BY <1>1, <2>1, <2>2
  <2>4. t[Len(calls) + j - 1] = s[j]
    BY <1>1, <2>3
  <2>5. QED
    BY <2>1, <2>3, <2>4 DEF Coming
<1>6. Normal(s, h) => Normal(t, h)
  BY <1>3 DEF Normal
<1>7. QED
  BY <1>4, <1>5, <1>6

LEMMA NoCalls == ASSUME NEW h PROVE Normal(<<>>, h) /\ ~Coming(<<>>, h)
BY SeqNone DEF Normal, Coming

\* Debtors are counted: one, and another.
LEMMA CountDebtors ==
    ASSUME NEW s, IsSeq(s), NEW x, NEW i \in DOMAIN s, x \in Debts(s[i].fn)
    PROVE  /\ InCalls(s, x) >= 1
           /\ \A k \in DOMAIN s : k # i /\ x \in Debts(s[k].fn) => InCalls(s, x) >= 2
<1> DEFINE D == Debtors(s, x)
<1>1. IsFiniteSet(D) /\ i \in D /\ InCalls(s, x) = Cardinality(D)
  BY DebtorsFinite DEF Debtors, InCalls
<1>2. {i} \subseteq D /\ Cardinality({i}) = 1
  BY <1>1, FS_Singleton
<1>3. Cardinality({i}) <= Cardinality(D)
  <2> HIDE DEF D
  <2>1. QED
    BY <1>1, <1>2, FS_Subset
<1>4. ASSUME NEW k \in DOMAIN s, k # i, x \in Debts(s[k].fn) PROVE Cardinality(D) >= 2
  <2>1. {i, k} \subseteq D
    BY <1>1, <1>4 DEF Debtors
  <2>2. {i, k} = {i} \cup {k} /\ IsFiniteSet({i}) /\ k \notin {i}
    BY <1>4, FS_Singleton
  <2> HIDE DEF D
  <2>3. Cardinality({i} \cup {k}) = 2
    <3>1. Cardinality({i} \cup {k}) = Cardinality({i}) + 1
      BY <2>2, FS_AddElement
    <3>2. QED
      BY <1>2, <3>1
  <2>4. Cardinality({i, k}) <= Cardinality(D)
    BY <1>1, <2>1, FS_Subset
  <2>5. QED
    BY <1>1, <2>2, <2>3, <2>4, FS_CardinalityType
<1>5. Cardinality(D) \in Nat
  BY <1>1, FS_CardinalityType
<1>6. QED
  BY <1>1, <1>2, <1>3, <1>4, <1>5

\* What a search counts stays as it is.
Quietly(h) == /\ self'[h]._processing = self[h]._processing /\ (self[h].aborted => self'[h].aborted)
              /\ out'[h].started = out[h].started /\ out'[h].ends = out[h].ends
              /\ ~out[h].started => self'[h] = self[h]

LEMMA ExtraSame ==
    ASSUME TypeInv, TypeInv', search' = search, NEW h \in Globs, out'[h].started = out[h].started
    PROVE  Extra(h)' = Extra(h)
BY PatternsSame DEF Extra

LEMMA Elsewhere ==
    ASSUME TypeInv, TypeInv', OnceInv, search' = search, stack # <<>>,
           NEW calls, IsSeq(calls), Return(calls), NEW h \in Globs,
           \A j \in DOMAIN calls : calls[j].fn.name \in {"_process", "uncount"} => calls[j].fn.g # h,
           Fn.name \in {"_process", "done"} => Fn.g # h,
           Quietly(h), Starting(h) => stack' = <<>> \/ Starting(h)'
    PROVE  OnceAt(h)'
<1>1. OnceAt(h) /\ IsSeq(stack)
  BY DEF OnceInv, TypeInv, StackInv, FramesOK
<1>2. After(stack, calls, stack')
  BY <1>1, AfterReturn DEF Return
<1>3. /\ Normal(stack, h) => Normal(stack', h)
      /\ Coming(stack', h) <=> Coming(stack, h)
  <2>1. ~(Head(stack).fn.name = "_process" /\ Head(stack).fn.g = h)
    BY DEF Fn
  <2>2. /\ Normal(stack, h) => Normal(stack', h)
        /\ Coming(stack', h) => Coming(stack, h)
        /\ Coming(stack, h) => Coming(stack', h) \/ (Head(stack).fn.name = "_process" /\ Head(stack).fn.g = h)
    BY <1>1, <1>2, StaysNormal
  <2>3. QED
    BY <2>1, <2>2
<1>4. /\ Extra(h)' = Extra(h) /\ (hasty(h)' <=> hasty(h))
      /\ self'[h].minimatch.set = self[h].minimatch.set
  BY PatternsSame, ExtraSame DEF Quietly
<1>5. FreshInv(h)'
  BY <1>1 DEF OnceAt, FreshInv, Quietly
<1>6. WorkInv(h)'
  BY <1>1, <1>3, <1>4 DEF OnceAt, WorkInv, Quietly
<1>7. EmptyInv(h)'
  <2>1. stack = <<Done(h)>> => Fn.name = "done" /\ Fn.g = h
    BY SeqOne DEF Fn, Done, Call
  <2>2. QED
    BY <1>1, <1>4, <2>1 DEF OnceAt, EmptyInv, Quietly
<1>8. ASSUME ~hasty(h)' PROVE EndInv(h)'
  <2>1. EndInv(h)
    BY <1>1, <1>4, <1>8 DEF OnceAt
  <2>2. (Normal(stack, h) \/ Starting(h))'
    <3>1. CASE Normal(stack, h)
      BY <1>3, <3>1
    <3>2. CASE Starting(h)
      BY <3>2, NoCalls
    <3>3. QED
      BY <2>1, <3>1, <3>2 DEF EndInv
  <2>3. (out[h].started /\ ~self[h].aborted /\ out[h].ends > 0 =>
           out[h].ends = 1 /\ self[h]._processing + Extra(h) = 0 /\ ~Coming(stack, h))'
    BY <1>3, <1>4, <2>1 DEF EndInv, Quietly
  <2>4. QED
    BY <2>2, <2>3 DEF EndInv
<1>9. QED
  BY <1>5, <1>6, <1>7, <1>8 DEF OnceAt

\* Calls of nothing that is still to come.
NoWork(calls) == IsSeq(calls) /\ \A j \in DOMAIN calls : calls[j].fn.name \notin {"_process", "uncount"}

LEMMA NoWorkFew ==
    /\ NoWork(<<>>)
    /\ \A c : c.fn.name \notin {"_process", "uncount"} => NoWork(<<c>>)
    /\ \A c, d : c.fn.name \notin {"_process", "uncount"} /\ d.fn.name \notin {"_process", "uncount"}
                   => NoWork(<<c, d>>)
<1>1. NoWork(<<>>) /\ \A c : c.fn.name \notin {"_process", "uncount"} => NoWork(<<c>>)
  BY SeqNone, SeqOne DEF NoWork
<1>2. ASSUME NEW c, NEW d, c.fn.name \notin {"_process", "uncount"},
             d.fn.name \notin {"_process", "uncount"}
      PROVE  NoWork(<<c, d>>)
  <2>1. IsSeq(<<c, d>>)
    <3> DEFINE e == <<c, d>>
               D == {c, d}
    <3>1. e \in Seq(D)
      OBVIOUS
    <3> HIDE DEF e, D
    <3>2. IsSeq(e)
      BY <3>1 DEF IsSeq
    <3>3. QED
      BY <3>2 DEF e
  <2>2. \A j \in DOMAIN <<c, d>> : <<c, d>>[j] = c \/ <<c, d>>[j] = d
    OBVIOUS
  <2>3. QED
    BY <1>2, <2>1, <2>2 DEF NoWork
<1>3. QED
  BY <1>1, <1>2

LEMMA QuietOnce ==
    ASSUME TypeInv, TypeInv', OnceInv, search' = search, stack # <<>>,
           Fn.name \notin {"_process", "done", "_stat", "_readdir"},
           NEW calls, NoWork(calls), Return(calls), \A h \in Globs : Quietly(h)
    PROVE  OnceInv'
<1>1. ASSUME NEW h \in Globs PROVE ~Starting(h)
  <2>1. Head(stack) = stack[1] /\ 1 \in DOMAIN stack
    <3>1. IsSeq(stack)
      BY DEF TypeInv, StackInv, FramesOK
    <3>2. QED
      BY <3>1, SeqTail, SeqDomain
  <2>2. QED
    BY <2>1 DEF Starting, EarlyOK, Fn
<1>2. ASSUME NEW h \in Globs PROVE OnceAt(h)'
  BY <1>1, Elsewhere DEF NoWork
<1>3. QED
  BY <1>2, PatternsSame DEF OnceInv

\* The search on top changes what it knows, and no more.
LEMMA Quiets ==
    ASSUME TypeInv, stack # <<>>, Fn.name \in Own, NEW s, self' = [self EXCEPT ![Fn.g] = s],
           s._processing = Me._processing, Me.aborted => s.aborted,
           \A h \in Globs : out'[h].started = out[h].started /\ out'[h].ends = out[h].ends
    PROVE  \A h \in Globs : Quietly(h)
<1>1. Fn.g \in Globs /\ out[Fn.g].started /\ DOMAIN self = Globs
  BY Acting DEF TypeInv, SelfInv
<1>2. QED
  BY <1>1 DEF Quietly, Me

LEMMA SameQuietly == ASSUME UNCHANGED <<self, out>> PROVE \A h \in Globs : Quietly(h)
BY DEF Quietly

LEMMA QuietSet ==
    ASSUME TypeInv, TypeInv', OnceInv, search' = search,
           NEW name \in Own \ {"_process", "done", "_stat", "_readdir"}, Top(name),
           NEW calls, NoWork(calls), Return(calls),
           NEW s, Set(s) \/ (s = Me /\ self' = self),
           s._processing = Me._processing, Me.aborted => s.aborted,
           \A h \in Globs : out'[h].started = out[h].started /\ out'[h].ends = out[h].ends
    PROVE  OnceInv'
<1>1. stack # <<>> /\ Fn.name = name /\ Fn.name \in Own
  BY OnTop
<1>2. \A h \in Globs : Quietly(h)
  <2>1. CASE Set(s)
    BY <1>1, <2>1, Quiets DEF Set
  <2>2. CASE self' = self
    BY <2>2 DEF Quietly
  <2>3. QED
    BY <2>1, <2>2
<1>3. Fn.name \notin {"_process", "done", "_stat", "_readdir"}
  BY <1>1
<1>4. QED
  BY <1>1, <1>2, <1>3, QuietOnce

\* Neither the fields nor what was seen changes.
LEMMA SameOnce ==
    ASSUME TypeInv, TypeInv', OnceInv, UNCHANGED <<search, self, out>>, stack # <<>>,
           Fn.name \notin {"_process", "done", "_stat", "_readdir"},
           NEW calls, NoWork(calls), Return(calls)
    PROVE  OnceInv'
BY SameQuietly, QuietOnce

LEMMA HeardOnce == ASSUME TypeInv, TypeInv', OnceInv, Heard PROVE OnceInv'
<1>1. stack # <<>> /\ Fn.name = "match" /\ Return(<<>>) /\ UNCHANGED <<search, self, out>>
  BY DEF Heard, Top, Fn
<1>2. QED
  BY <1>1, NoWorkFew, SameOnce

LEMMA ProcessSimple2Once == ASSUME TypeInv, TypeInv', OnceInv, _processSimple2 PROVE OnceInv'
<1> DEFINE c == Done(Fn.g)
           d == EmitMatch(Fn.g, Fn.index, Fn.f)
<1>1. stack # <<>> /\ Fn.name = "_processSimple2" /\ UNCHANGED <<search, self, out>>
      /\ (Return(<<c>>) \/ Return(<<d, c>>))
  BY DEF _processSimple2, Top, Fn
<1>2. c.fn.name = "done" /\ d.fn.name = "_emitMatch"
  BY DEF Done, EmitMatch, Call
<1> HIDE DEF c, d
<1>3. NoWork(<<c>>) /\ NoWork(<<d, c>>)
  BY <1>2, NoWorkFew
<1>4. QED
  BY <1>1, <1>3, SameOnce

LEMMA EmitMatchOnce == ASSUME TypeInv, TypeInv', OnceInv, _emitMatch PROVE OnceInv'
<1> DEFINE c == Call([name |-> "match", g |-> Fn.g])
           s == [Me EXCEPT !._emitQueue = Append(@, <<Fn.index, Fn.e>>)]
           t == add(Me, Fn.index, {Fn.e})
           name == "_emitMatch"
<1>1. Top(name) /\ name \in Own \ {"_process", "done", "_stat", "_readdir"}
      /\ UNCHANGED <<search, out>>
  BY DEF _emitMatch, Own
<1>2. FieldsOK(Fn.g, Me)
  BY <1>1, OnTop
<1>3. \/ self' = self /\ Return(<<>>)
      \/ Set(s) /\ Return(<<>>)
      \/ Set(t) /\ Return(<<c>>)
  BY DEF _emitMatch
<1>4. NoWork(<<>>) /\ NoWork(<<c>>)
  <2>1. c.fn.name = "match"
    BY DEF Call
  <2> HIDE DEF c
  <2>2. QED
    BY <2>1, NoWorkFew
<1>5. s._processing = Me._processing /\ s.aborted = Me.aborted
  BY <1>2 DEF FieldsOK, Fields
<1>6. t._processing = Me._processing /\ t.aborted = Me.aborted
  BY <1>2 DEF FieldsOK, Fields, add
<1> HIDE DEF c, s, t, name
<1>7. QED
  BY <1>1, <1>3, <1>4, <1>5, <1>6, QuietSet

LEMMA LstatcbOnce == ASSUME TypeInv, TypeInv', OnceInv, lstatcb PROVE OnceInv'
<1> DEFINE c == Call(Fn.cb)
           d == Readdir(Fn.g, Fn.abs, FALSE, Fn.cb)
           noted == [Me EXCEPT !.symlinks = put(@, Fn.abs, Ans.kind = "link")]
           s == [noted EXCEPT !.cache = put(@, Fn.abs, Kind("FILE"))]
           name == "lstatcb"
<1>1. name \in Own \ {"_process", "done", "_stat", "_readdir"}
  BY DEF Own
<1>9. Top(name) /\ UNCHANGED <<search, out>>
  BY Zenon DEF lstatcb
<1>2. FieldsOK(Fn.g, Me) /\ FnOK(Fn, Running) /\ Fn.name = "lstatcb"
  BY <1>1, <1>9, OnTop
<1>3. \/ self' = self /\ Return(<<c>>)
      \/ Set(s) /\ Return(<<c>>)
      \/ Set(noted) /\ Return(<<d>>)
  BY ZenonT(30) DEF lstatcb
<1>4. c.fn.name = "RES" /\ d.fn.name = "_readdir"
  BY <1>2, CallbackOK DEF Readdir, Call
<1>5. noted._processing = Me._processing /\ noted.aborted = Me.aborted /\ DOMAIN noted = Fields
  BY <1>2 DEF FieldsOK, Fields
<1> HIDE DEF c, d, name, noted
<1>6. s._processing = Me._processing /\ s.aborted = Me.aborted
  BY <1>5 DEF Fields
<1> HIDE DEF s
<1>7. NoWork(<<c>>) /\ NoWork(<<d>>)
  BY <1>4, NoWorkFew
<1>8. QED
  BY <1>1, <1>3, <1>5, <1>6, <1>7, <1>9, QuietSet

LEMMA ReaddirCbOnce == ASSUME TypeInv, TypeInv', OnceInv, readdirCb PROVE OnceInv'
<1> DEFINE c == Call(Fn.cb)
           d == Answer(Fn.cb, Ans)
           fails == Ans.er = "EACCES" /\ o(Fn.g).strict
           noted == _readdirError(Me, Fn.abs, Ans.er)
           s == [noted EXCEPT !.aborted = @ \/ fails]
           t == _readdirEntries(Me, Fn.abs, Ans.entries)
           name == "readdirCb"
<1>1. name \in Own \ {"_process", "done", "_stat", "_readdir"}
  BY DEF Own
<1>10. Top(name) /\ search' = search
  BY Zenon DEF readdirCb
<1>2. FieldsOK(Fn.g, Me) /\ FnOK(Fn, Running) /\ Fn.name = "readdirCb" /\ IsSeq(Ans.entries)
  BY <1>1, <1>10, OnTop
<1>3. \/ self' = self /\ Return(<<>>) /\ out' = out
      \/ Set(t) /\ Return(<<d>>) /\ out' = out
      \/ Set(s) /\ Return(<<c>>) /\ out' = [out EXCEPT ![Fn.g].error = @ \/ fails]
  BY ZenonT(30) DEF readdirCb
<1>4. c.fn.name = "RES" /\ d.fn.name = "RES"
  BY <1>2, CallbackOK DEF Answer, Call
<1>5. /\ FieldsOK(Fn.g, noted) /\ SameCount(Me, noted)
      /\ t._processing = Me._processing /\ t.aborted = Me.aborted
  BY <1>2, ErrorOK, EntriesOK DEF SameCount
<1>6. s._processing = Me._processing /\ (Me.aborted => s.aborted)
  <2> HIDE DEF noted, fails
  <2>1. QED
    BY <1>5 DEF SameCount, FieldsOK, Fields
<1> HIDE DEF c, d, s, t, name, fails
<1>7. \A h \in Globs : out'[h].started = out[h].started /\ out'[h].ends = out[h].ends
  BY <1>3 DEF TypeInv, SelfInv, SeenOK
<1>8. NoWork(<<>>) /\ NoWork(<<c>>) /\ NoWork(<<d>>)
  BY <1>4, NoWorkFew
<1>9. QED
  BY <1>1, <1>3, <1>5, <1>6, <1>7, <1>8, <1>10, QuietSet

LEMMA ReaddirInGlobStarOnce == ASSUME TypeInv, TypeInv', OnceInv, _readdirInGlobStar PROVE OnceInv'
<1> DEFINE c == Readdir(Fn.g, Fn.abs, FALSE, Fn.cb)
<1>1. stack # <<>> /\ Fn.name = "_readdirInGlobStar" /\ UNCHANGED <<search, self, out>>
      /\ (Return(<<c>>) \/ Return(<<>>))
  BY DEF _readdirInGlobStar, Top, Fn
<1>2. c.fn.name = "_readdir"
  BY DEF Readdir, Call
<1> HIDE DEF c
<1>3. NoWork(<<c>>) /\ NoWork(<<>>)
  BY <1>2, NoWorkFew
<1>4. QED
  BY <1>1, <1>3, SameOnce

LEMMA Stat2Once ==
    ASSUME TypeInv, TypeInv', OnceInv, NEW name \in {"statcb", "targetcb"}, Top(name),
           NEW kind, _stat2(kind), UNCHANGED <<search, out>>
    PROVE  OnceInv'
<1> DEFINE k == IF Fn.abs \in DOMAIN Me.cache THEN Me.cache[Fn.abs] ELSE Kind("false")
           s == [Me EXCEPT !.statCache = put(@, Fn.abs, Kind(kind)),
                           !.cache = put(@, Fn.abs, IF k.kind = "false" THEN Kind(type(kind)) ELSE k)]
           c == Answer(Fn.then, typeAnswer(Fn.then.f, kind))
<1>1. Set(s) /\ Return(<<c>>)
  BY DEF _stat2
<1>2. name \in Own /\ name \in Own \ {"_process", "done", "_stat", "_readdir"}
  BY DEF Own
<1>3. FieldsOK(Fn.g, Me) /\ FnOK(Fn, Running) /\ Fn.name = name
  BY <1>2, OnTop
<1>4. c.fn.name = "_processSimple2"
  BY <1>3 DEF FnOK, Answer
<1> HIDE DEF k
<1>5. s._processing = Me._processing /\ s.aborted = Me.aborted
  BY <1>3 DEF FieldsOK, Fields
<1> HIDE DEF s, c
<1>6. NoWork(<<c>>)
  BY <1>4, NoWorkFew
<1>7. QED
  BY <1>1, <1>2, <1>5, <1>6, QuietSet

LEMMA TargetcbOnce == ASSUME TypeInv, TypeInv', OnceInv, targetcb PROVE OnceInv'
<1> DEFINE kind == IF Ans.er = "" THEN Ans.kind ELSE "link"
<1>1. Top("targetcb") /\ _stat2(kind) /\ UNCHANGED <<search, out>>
  BY Zenon DEF targetcb
<1> HIDE DEF kind
<1>2. QED
  BY <1>1, Stat2Once

LEMMA StatcbOnce == ASSUME TypeInv, TypeInv', OnceInv, statcb PROVE OnceInv'
<1> DEFINE name == "statcb"
           s == [Me EXCEPT !.statCache = put(@, Fn.abs, Kind("false"))]
           c == Call(Fn.then)
<1>1. name \in Own \ {"_process", "done", "_stat", "_readdir"}
  BY DEF Own
<1>9. Top(name) /\ UNCHANGED <<search, out>>
  BY Zenon DEF statcb
<1>2. FieldsOK(Fn.g, Me) /\ FnOK(Fn, Running) /\ Fn.name = "statcb"
  BY <1>1, <1>9, OnTop
<1>3. \/ Set(s) /\ Return(<<c>>)
      \/ self' = self /\ Return(<<>>)
      \/ _stat2(Ans.kind)
  BY ZenonT(30) DEF statcb
<1>4. s._processing = Me._processing /\ s.aborted = Me.aborted
  BY <1>2 DEF FieldsOK, Fields
<1>5. c.fn.name = "_processSimple2"
  BY <1>2 DEF FnOK, Call
<1>6. CASE _stat2(Ans.kind)
  <2> DEFINE kind == Ans.kind
  <2>1. _stat2(kind)
    BY <1>6
  <2> HIDE DEF kind
  <2>2. QED
    BY <1>9, <2>1, Stat2Once
<1> HIDE DEF name, s, c
<1>7. NoWork(<<c>>) /\ NoWork(<<>>)
  BY <1>5, NoWorkFew
<1>8. QED
  BY <1>1, <1>3, <1>4, <1>6, <1>7, <1>9, QuietSet

LEMMA ResOnce == ASSUME TypeInv, CountInv, TypeInv', OnceInv, RES_ PROVE OnceInv'
<1> DEFINE key == Fn.key
           cbs == reqs[key]
           t == [k \in DOMAIN cbs |-> Answer(cbs[k], Ans)]
           c == Answer([name |-> "cleanup", key |-> key, len |-> Len(cbs)], Ans)
<1>1. stack # <<>> /\ Fn.name = "RES" /\ Return(t \o <<c>>) /\ UNCHANGED <<search, self, out>>
  BY DEF RES_, Top, Fn
<1>2. \A x : Owes(Fn, x) = IF x = Asked(key) THEN 1 ELSE 0
  BY <1>1, OwesWhat
<1>3. key \in DOMAIN reqs
  BY <1>1, <1>2, Alone
<1>4. IsReqs(reqs) /\ IsSeq(cbs) /\ Len(cbs) \in Nat /\ DOMAIN cbs = 1..Len(cbs)
  BY <1>3, SeqDomain DEF TypeInv, ReqsInv, IsReqs
<1> HIDE DEF key
<1>5. \A k \in DOMAIN cbs : cbs[k].name \in WaitNames
  <2>1. TAKE k \in DOMAIN cbs
  <2>2. <<key, k>> \in Places(reqs) /\ <<key, k>>[1] = key /\ <<key, k>>[2] = k
    BY <1>3, <1>4, InPlaces
  <2>3. WaitOK(reqs[<<key, k>>[1]][<<key, k>>[2]], Running)
    BY <2>2 DEF TypeInv, ReqsInv
  <2>4. QED
    BY <2>2, <2>3 DEF WaitOK
<1>6. c.fn.name = "cleanup"
  BY DEF Answer
<1>7. /\ t = [k \in DOMAIN cbs |-> t[k]] /\ DOMAIN t = DOMAIN cbs
      /\ \A k \in DOMAIN t : t[k].fn = cbs[k]
  BY DEF Answer
<1> HIDE DEF c, t
<1>8. IsSeq(t) /\ Len(t) = Len(cbs)
  BY <1>4, <1>7, SeqMade
<1>9. IsSeq(<<c>>) /\ Len(<<c>>) = 1 /\ <<c>>[1] = c
  BY SeqOne
<1> DEFINE calls == t \o <<c>>
<1>10. /\ IsSeq(calls) /\ Len(calls) = Len(t) + Len(<<c>>)
       /\ \A k \in 1..Len(t) : calls[k] = t[k]
       /\ \A k \in 1..Len(<<c>>) : calls[Len(t) + k] = <<c>>[k]
  BY <1>8, <1>9, SeqCat
<1>11. DOMAIN calls = 1..Len(calls) /\ Return(calls)
  BY <1>1, <1>10, SeqDomain
<1> HIDE DEF calls
<1>12. ASSUME NEW j \in DOMAIN calls PROVE calls[j].fn.name \notin {"_process", "uncount"}
  <2>1. j \in 1..Len(t) \/ j = Len(t) + 1
    BY <1>4, <1>8, <1>9, <1>10, <1>11
  <2>2. CASE j \in 1..Len(t)
    <3>1. calls[j] = t[j] /\ j \in DOMAIN cbs
      BY <1>4, <1>8, <1>10, <2>2
    <3>2. t[j].fn = cbs[j] /\ cbs[j].name \in WaitNames
      BY <1>5, <1>7, <3>1
    <3>3. QED
      BY <3>1, <3>2 DEF WaitNames
  <2>3. CASE j = Len(t) + 1
    BY <1>6, <1>9, <1>10, <2>3
  <2>4. QED
    BY <2>1, <2>2, <2>3
<1>13. NoWork(calls)
  BY <1>10, <1>12 DEF NoWork
<1>14. QED
  BY <1>1, <1>11, <1>13, SameOnce

LEMMA CleanupOnce == ASSUME TypeInv, TypeInv', OnceInv, cleanup PROVE OnceInv'
<1>1. Top("cleanup") /\ Return(<<>>) /\ UNCHANGED <<search, self, out>>
  BY DEF cleanup
<1>2. stack # <<>> /\ Fn.name = "cleanup"
  BY <1>1 DEF Top, Fn
<1>3. QED
  BY <1>1, <1>2, NoWorkFew, SameOnce

\* What is on the stack is counted.
LEMMA Busy ==
    ASSUME TypeInv, CountInv, NEW g \in Globs
    PROVE  /\ self[g]._processing + Extra(g) >= InCalls(stack, Step(g))
           /\ InCalls(stack, Step(g)) \in Nat /\ self[g]._processing \in Int /\ Extra(g) \in {0, 1}
           /\ stack # <<>> /\ Step(g) \in Debts(Fn) => InCalls(stack, Step(g)) >= 1
<1>1. /\ FieldsOK(g, self[g]) /\ StepLaw(g) /\ Extra(g) \in {0, 1}
  BY DEF TypeInv, SelfInv, CountInv, Extra
<1>2. Len(self[g]._processQueue) \in Nat /\ self[g]._processing \in Int
  BY <1>1, SeqDomain DEF FieldsOK, Again
<1> DEFINE x == Step(g)
<1>3. /\ InCalls(stack, x) \in Nat /\ InReqs(stack, reqs, x) \in Nat
      /\ InBag(pending, x) \in Nat /\ InCalls(ticks, x) \in Nat
  BY Numbers
<1>4. self[g]._processing >= Owing(x) + Len(self[g]._processQueue) - Extra(g)
  BY <1>1 DEF StepLaw
<1>5. Owing(x) >= InCalls(stack, x) /\ Owing(x) \in Nat
  BY <1>3 DEF Owing, Num
<1>6. ASSUME stack # <<>>, x \in Debts(Fn) PROVE InCalls(stack, x) >= 1
  <2>1. IsSeq(stack) /\ 1 \in DOMAIN stack /\ stack[1].fn = Fn
    BY <1>6, Acting, SeqTail, SeqDomain DEF Fn
  <2> HIDE DEF x
  <2>2. QED
    BY <1>6, <2>1, CountDebtors
<1> HIDE DEF x
<1>9. Extra(g) \in Int
  BY <1>1
<1>7. self[g]._processing + Extra(g) >= InCalls(stack, x)
  <2> DEFINE p == self[g]._processing
             q == Len(self[g]._processQueue)
             e == Extra(g)
             n == Owing(x)
             i == InCalls(stack, x)
  <2>1. p \in Int /\ q \in Nat /\ e \in Int /\ n \in Nat /\ i \in Nat /\ p >= n + q - e /\ n >= i
    BY <1>2, <1>3, <1>4, <1>5, <1>9
  <2> HIDE DEF p, q, e, n, i
  <2>2. p + e >= i
    BY <2>1
  <2>3. QED
    BY <2>2 DEF p, e, i
<1>8. QED
  BY <1>1, <1>2, <1>3, <1>6, <1>7 DEF x

\* Calls of _process, and done() below them.
LEMMA WorkThenDone ==
    ASSUME TypeInv, CountInv, TypeInv', OnceInv, UNCHANGED <<search, self, out>>,
           NEW name \in {"_processReaddir2", "_processGlobStar2"}, Top(name),
           NEW s, IsSeq(s),
           \A k \in DOMAIN s : s[k].fn.name \in {"_process", "_emitMatch"} /\ s[k].fn.g = Fn.g,
           Return(Append(s, Done(Fn.g)))
    PROVE  OnceInv'
<1>0. PICK g : g = Fn.g
  OBVIOUS
<1> DEFINE c == Done(g)
           calls == Append(s, c)
<1>1. name \in Own
  BY DEF Own
<1>2. stack # <<>> /\ Fn.name = name /\ Fn.g \in Globs /\ out[Fn.g].started
  BY <1>1, OnTop
<1>3. c.fn.name = "done" /\ c.fn.g = Fn.g
  BY <1>0 DEF Done, Call
<1>4. Return(calls) /\ g = Fn.g
  BY <1>0
<1> HIDE DEF c
<1>5. /\ IsSeq(calls) /\ Len(calls) = Len(s) + 1 /\ calls[Len(s) + 1] = c
      /\ \A k \in 1..Len(s) : calls[k] = s[k]
  BY SeqAppend
<1>6. DOMAIN calls = 1..Len(calls) /\ Len(s) \in Nat /\ DOMAIN s = 1..Len(s)
  BY <1>5, SeqDomain
<1> HIDE DEF calls
<1>7. ASSUME NEW j \in DOMAIN calls PROVE calls[j].fn.g = Fn.g /\ (j # Len(s) + 1 => j \in DOMAIN s)
                                           /\ calls[j].fn.name \in {"_process", "_emitMatch", "done"}
  <2>1. j \in 1..Len(s) \/ j = Len(s) + 1
    BY <1>5, <1>6
  <2>2. QED
    BY <1>3, <1>5, <1>6, <2>1
<1>8. ASSUME NEW h \in Globs PROVE ~Starting(h)
  <2>1. Head(stack) = stack[1] /\ 1 \in DOMAIN stack
    BY <1>2, Acting, SeqTail, SeqDomain
  <2>2. QED
    BY <1>2, <2>1 DEF Starting, EarlyOK, Fn
<1>9. ASSUME NEW h \in Globs, h # Fn.g PROVE OnceAt(h)'
  <2>1. \A j \in DOMAIN calls : calls[j].fn.name \in {"_process", "uncount"} => calls[j].fn.g # h
    BY <1>7, <1>9
  <2>2. Quietly(h) /\ (Starting(h) => stack' = <<>> \/ Starting(h)')
    BY <1>8, SameQuietly
  <2>3. Fn.name \in {"_process", "done"} => Fn.g # h
    BY <1>9
  <2>4. QED
    BY <1>2, <1>4, <1>5, <2>1, <2>2, <2>3, Elsewhere
<1>10. g \in Globs /\ out[g].started /\ OnceAt(g) /\ ~Starting(g)
  BY <1>2, <1>4, <1>8 DEF OnceInv
<1>11. self[g]._processing + Extra(g) > 0
  <2>1. Step(g) \in Debts(Fn)
    BY <1>2, <1>4 DEF Debts
  <2>2. QED
    BY <1>2, <1>10, <2>1, Busy
<1>12. After(stack, calls, stack')
  BY <1>2, <1>4, <1>5, Acting, AfterReturn DEF Return
<1>13. ASSUME Normal(stack, g) PROVE Normal(stack', g)
  <2> DEFINE t == stack'
  <2>1. After(stack, calls, t)
    BY <1>12
  <2> HIDE DEF t
  <2>2. SUFFICES ASSUME NEW j \in DOMAIN t, t[j].fn.name \in Own, t[j].fn.g = g
                 PROVE  /\ t[j].fn.name = "_process" => Len(t) = 1 \/ Below(t, j, g)
                        /\ t[j].fn.name = "uncount" => j = Len(t) \/ Below(t, j, g)
    BY DEF Normal, t
  <2>3. /\ Len(t) = Len(calls) + Len(stack) - 1
        /\ Len(stack) \in Nat /\ Len(stack) > 0
        /\ Len(calls) \in Nat /\ DOMAIN t = 1..Len(t)
        /\ \A k \in 1..Len(calls) : t[k] = calls[k]
    BY <2>1 DEF After
  <2>4. CASE j \in DOMAIN calls /\ t[j] = calls[j]
    <3>1. CASE j = Len(s) + 1
      BY <1>3, <1>5, <2>4, <3>1
    <3>2. CASE j \in DOMAIN s
      <4>1. Len(s) + 1 \in DOMAIN t /\ Len(s) + 1 > j /\ t[Len(s) + 1] = c
        BY <1>5, <1>6, <2>3, <3>2
      <4>2. Step(g) \in Debts(c.fn)
        BY <1>3, <1>4 DEF Debts
      <4>3. QED
        BY <4>1, <4>2 DEF Below
    <3>3. QED
      BY <1>7, <2>4, <3>1, <3>2
  <2>5. CASE \E i \in DOMAIN stack : /\ i > 1 /\ t[j] = stack[i] /\ (i = Len(stack) => j = Len(t))
                                     /\ \A h : Below(stack, i, h) => Below(t, j, h)
    <3>1. PICK i \in DOMAIN stack : /\ i > 1 /\ t[j] = stack[i] /\ (i = Len(stack) => j = Len(t))
                                    /\ \A h : Below(stack, i, h) => Below(t, j, h)
      BY <2>5
    <3>2. Len(stack) # 1 /\ (Below(stack, i, g) => Below(t, j, g))
      BY <2>1, <3>1 DEF After
    <3>3. /\ stack[i].fn.name = "_process" => Len(stack) = 1 \/ Below(stack, i, g)
          /\ stack[i].fn.name = "uncount" => i = Len(stack) \/ Below(stack, i, g)
      BY <1>13, <2>2, <3>1 DEF Normal
    <3>4. QED
      BY <3>1, <3>2, <3>3
  <2>6. Origin(stack, calls, t, j)
    BY <2>1, Whence
  <2>7. QED
    BY <2>4, <2>5, <2>6 DEF Origin
<1>14. /\ Extra(g)' = Extra(g) /\ (hasty(g)' <=> hasty(g))
       /\ self'[g].minimatch.set = self[g].minimatch.set
  BY <1>10, PatternsSame, ExtraSame
<1>15. FreshInv(g)' /\ WorkInv(g)'
  BY <1>10, <1>11, <1>14 DEF FreshInv, WorkInv
<1>16. EmptyInv(g)'
  <2>1. stack # <<Done(g)>>
    BY <1>2, SeqOne DEF Fn, Done, Call
  <2>2. QED
    BY <1>10, <1>14, <2>1 DEF OnceAt, EmptyInv
<1>17. ~hasty(g) => EndInv(g)'
  BY <1>10, <1>11, <1>13, <1>14 DEF OnceAt, EndInv
<1>18. OnceAt(g)'
  BY <1>14, <1>15, <1>16, <1>17 DEF OnceAt
<1>19. QED
  BY <1>4, <1>9, <1>18, PatternsSame DEF OnceInv

LEMMA ProcessReaddir2Once ==
    ASSUME TypeInv, CountInv, TypeInv', OnceInv, _processReaddir2
    PROVE  OnceInv'
<1> DEFINE name == "_processReaddir2"
<1>1. Top(name) /\ UNCHANGED <<search, self, out>>
  BY DEF _processReaddir2
<1>2. name \in {"_processReaddir2", "_processGlobStar2"} /\ name \in Own
  BY DEF Own
<1> HIDE DEF name
<1>3. IsSeq(Ans.entries)
  BY <1>1, <1>2, OnTop
<1> DEFINE ms == readdirMatches(o(Fn.g), Fn.pattern, Ans.entries)
           work == readdirWork(o(Fn.g), Fn.pattern, Fn.inGlobStar, Ans.entries)
           s == [k \in DOMAIN ms |-> EmitMatch(Fn.g, Fn.index, ms[k])]
           t == ProcessAll(work)
<1>4. IsSeq(ms) /\ IsSeq(work)
  BY <1>3, ReaddirSeq
<1>5. Return(Append(s, Done(Fn.g))) \/ Return(Append(t, Done(Fn.g)))
  BY DEF _processReaddir2
<1> HIDE DEF ms, work
<1>6. IsSeq(s) /\ IsSeq(t)
  <2>1. DOMAIN ms = 1..Len(ms) /\ Len(ms) \in Nat /\ DOMAIN work = 1..Len(work) /\ Len(work) \in Nat
    BY <1>4, SeqDomain
  <2>2. /\ s = [k \in 1..Len(ms) |-> s[k]]
        /\ t = [k \in 1..Len(work) |-> t[k]]
    BY <2>1 DEF ProcessAll
  <2> HIDE DEF s, t
  <2>3. QED
    BY <2>1, <2>2, SeqMade
<1>7. /\ \A k \in DOMAIN s : s[k].fn.name = "_emitMatch" /\ s[k].fn.g = Fn.g
      /\ \A k \in DOMAIN t : t[k].fn.name = "_process" /\ t[k].fn.g = Fn.g
  BY DEF ProcessAll, Process, EmitMatch, Call
<1> HIDE DEF s, t
<1>8. QED
  BY <1>1, <1>2, <1>5, <1>6, <1>7, WorkThenDone

LEMMA ProcessGlobStar2Once ==
    ASSUME TypeInv, CountInv, TypeInv', OnceInv, _processGlobStar2
    PROVE  OnceInv'
<1> DEFINE name == "_processGlobStar2"
<1>1. Top(name) /\ UNCHANGED <<search, self, out>>
  BY DEF _processGlobStar2
<1>2. name \in {"_processReaddir2", "_processGlobStar2"} /\ name \in Own
      /\ stack # <<>> /\ Fn.name \notin {"_process", "done", "_stat", "_readdir"}
  BY <1>1 DEF Own, Top, Fn
<1> HIDE DEF name
<1>3. IsSeq(Ans.entries)
  BY <1>1, <1>2, OnTop
<1> DEFINE work == globStarWork(o(Fn.g), Me, Fn.pattern, Fn.inGlobStar, Ans.entries)
           t == ProcessAll(work)
           c == Done(Fn.g)
<1>4. IsSeq(work)
  BY <1>3, GlobStarSeq
<1>5. Return(<<c>>) \/ Return(Append(t, Done(Fn.g)))
  BY DEF _processGlobStar2
<1> HIDE DEF work
<1>6. IsSeq(t)
  <2>1. DOMAIN work = 1..Len(work) /\ Len(work) \in Nat
    BY <1>4, SeqDomain
  <2>2. t = [k \in 1..Len(work) |-> t[k]]
    BY <2>1 DEF ProcessAll
  <2> HIDE DEF t
  <2>3. QED
    BY <2>1, <2>2, SeqMade
<1>7. \A k \in DOMAIN t : t[k].fn.name = "_process" /\ t[k].fn.g = Fn.g
  BY DEF ProcessAll, Process, Call
<1>8. c.fn.name = "done"
  BY DEF Done, Call
<1> HIDE DEF t, c
<1>9. NoWork(<<c>>)
  BY <1>8, NoWorkFew
<1>10. QED
  BY <1>1, <1>2, <1>5, <1>6, <1>7, <1>9, SameOnce, WorkThenDone

\* A search that starts has patterns.
LEMMA StartsWork ==
    ASSUME TypeInv, CountInv, OnceInv, NEW h \in Globs, Starting(h), Fn.name \in {"_stat", "_readdir"}
    PROVE  Fn.g = h /\ Step(h) \in Debts(Fn) /\ out[h].started /\ Extra(h) = 0
           /\ self[h]._processing >= InCalls(stack, Step(h)) /\ InCalls(stack, Step(h)) >= 1
<1>1. stack # <<>> /\ Fn.name \in Own
  BY DEF Starting, Own
<1>2. EarlyOK(Fn, h)
  <2>1. Head(stack) = stack[1] /\ 1 \in DOMAIN stack
    BY <1>1, Acting, SeqTail, SeqDomain
  <2>2. QED
    BY <2>1 DEF Starting, Fn
<1>3. Fn.g = h /\ Step(h) \in Debts(Fn) /\ out[h].started
  BY <1>1, <1>2, Acting DEF EarlyOK, Debts
<1>4. /\ self[h]._processing + Extra(h) >= InCalls(stack, Step(h))
      /\ InCalls(stack, Step(h)) \in Nat /\ InCalls(stack, Step(h)) >= 1
      /\ self[h]._processing \in Int /\ Extra(h) \in {0, 1}
  BY <1>1, <1>3, Busy
<1>5. self[h].minimatch.set # <<>>
  <2>1. SUFFICES ASSUME self[h].minimatch.set = <<>> PROVE FALSE
    OBVIOUS
  <2>2. OnceAt(h) /\ ~self[h].aborted /\ SeenOK(out[h])
    BY DEF OnceInv, Starting, TypeInv, SelfInv
  <2>3. CASE out[h].ends = 0
    <3>1. stack = <<Done(h)>>
      BY <1>3, <2>1, <2>2, <2>3 DEF OnceAt, EmptyInv
    <3>2. Fn.name = "done"
      BY <3>1 DEF Fn, Done, Call
    <3>3. QED
      BY <3>2
  <2>4. CASE out[h].ends > 0
    <3>1. ~hasty(h)
      <4>1. Len(self[h].minimatch.set) = 0
        BY <2>1
      <4>2. QED
        BY <4>1 DEF hasty
    <3>2. self[h]._processing + Extra(h) = 0
      BY <1>3, <2>2, <2>4, <3>1 DEF OnceAt, EndInv
    <3>3. QED
      BY <1>4, <3>2
  <2>5. QED
    BY <2>2, <2>3, <2>4 DEF SeenOK
<1>6. Extra(h) = 0
  BY <1>5 DEF Extra
<1>7. QED
  BY <1>3, <1>4, <1>6

LEMMA StartsOn ==
    ASSUME TypeInv, CountInv, OnceInv, NEW h \in Globs, Starting(h), Fn.name \in {"_stat", "_readdir"},
           Return(<<>>), UNCHANGED <<search, self, out>>
    PROVE  stack' = <<>> \/ Starting(h)'
<1>1. /\ Fn.g = h /\ Step(h) \in Debts(Fn)
      /\ self[h]._processing >= InCalls(stack, Step(h)) /\ InCalls(stack, Step(h)) >= 1
      /\ self[h]._processing \in Int /\ InCalls(stack, Step(h)) \in Nat
  BY StartsWork, Busy
<1>2. IsSeq(stack) /\ stack # <<>>
  BY Acting DEF Starting
<1> DEFINE t == stack'
<1>3. After(stack, <<>>, t)
  BY <1>2, AfterReturn, SeqNone DEF Return
<1>4. InCalls(t, Step(h)) = InCalls(stack, Step(h)) - 1
  <2> DEFINE x == Step(h)
  <2>1. InCalls(t, x) = InCalls(<<>>, x) + InCalls(stack, x) - Owes(Fn, x)
    BY <1>2, SeqNone, InReturn DEF Return, Fn
  <2>2. InCalls(<<>>, x) = 0 /\ Owes(Fn, x) = 1
    BY <1>1, InNone DEF Owes
  <2> HIDE DEF x, t
  <2>3. InCalls(stack, x) \in Nat
    BY <1>1 DEF x
  <2>4. QED
    BY <2>1, <2>2, <2>3 DEF x
<1> HIDE DEF t
<1>5. \A k \in DOMAIN t : EarlyOK(t[k].fn, h)
  <2>1. TAKE k \in DOMAIN t
  <2>2. k + 1 \in 2..Len(stack) /\ k + 1 \in DOMAIN stack /\ t[Len(<<>>) + (k + 1) - 1] = stack[k + 1]
    BY <1>3, SeqNone DEF After
  <2>3. Len(<<>>) + (k + 1) - 1 = k
    BY <1>3, SeqNone DEF After
  <2>4. EarlyOK(stack[k + 1].fn, h)
    BY <2>2 DEF Starting
  <2>5. QED
    BY <2>2, <2>3, <2>4
<1>6. self[h]._processing > InCalls(t, Step(h))
  BY <1>1, <1>4
<1>7. QED
  BY <1>5, <1>6 DEF Starting, t

LEMMA AskingOnce ==
    ASSUME TypeInv, CountInv, TypeInv', OnceInv, UNCHANGED <<search, self, out>>, stack # <<>>,
           Fn.name \in {"_stat", "_readdir"}, NEW calls, NoWork(calls), Return(calls),
           \A h \in Globs : Starting(h) => calls = <<>>
    PROVE  OnceInv'
<1>1. ASSUME NEW h \in Globs PROVE OnceAt(h)'
  <2>1. Starting(h) => stack' = <<>> \/ Starting(h)'
    BY StartsOn
  <2>2. Quietly(h)
    BY SameQuietly
  <2>3. /\ IsSeq(calls)
        /\ \A j \in DOMAIN calls : calls[j].fn.name \in {"_process", "uncount"} => calls[j].fn.g # h
    BY DEF NoWork
  <2>4. Fn.name \in {"_process", "done"} => Fn.g # h
    OBVIOUS
  <2>5. QED
    BY <2>1, <2>2, <2>3, <2>4, Elsewhere
<1>2. QED
  BY <1>1, PatternsSame DEF OnceInv

LEMMA StatOnce == ASSUME TypeInv, CountInv, TypeInv', OnceInv, _stat PROVE OnceInv'
<1> DEFINE abs == makeAbs(Fn.f)
           cached == cachedStat(Me, Fn.f)
           then == [name |-> "_processSimple2", g |-> Fn.g, f |-> Fn.f, index |-> Fn.index]
           known(c) == IF c.kind = "false" THEN c ELSE typeAnswer(Fn.f, c.kind)
           d == Answer(then, known(Me.statCache[abs]))
<1>1. stack # <<>> /\ Fn.name = "_stat" /\ UNCHANGED <<search, self, out>>
  BY DEF _stat, Top, Fn
<1>2. \/ /\ cached # {}
         /\ \E c \in cached : Return(<<Answer(then, c)>>)
      \/ /\ cached = {} /\ abs \in DOMAIN Me.statCache
         /\ Return(<<d>>)
      \/ Return(<<>>)
  BY DEF _stat
<1>3. ASSUME NEW h \in Globs, Starting(h) PROVE cached = {} /\ abs \notin DOMAIN Me.statCache
  <2>1. Me.cache = <<>> /\ Me.statCache = <<>>
    BY <1>1, <1>3, StartsWork DEF Starting, Me, None
  <2>2. DOMAIN Me.cache = {} /\ DOMAIN Me.statCache = {}
    BY <2>1, SeqNone
  <2>3. cached = {}
    BY <2>2 DEF cachedStat
  <2>4. QED
    BY <2>2, <2>3
<1>4. d.fn.name = "_processSimple2" /\ \A c : Answer(then, c).fn.name = "_processSimple2"
  BY DEF Answer
<1> HIDE DEF cached, abs, d
<1>5. CASE cached # {} /\ \E c \in cached : Return(<<Answer(then, c)>>)
  <2>1. PICK c \in cached : Return(<<Answer(then, c)>>)
    BY <1>5
  <2> DEFINE e == Answer(then, c)
  <2>2. e.fn.name = "_processSimple2" /\ Return(<<e>>)
    BY <1>4, <2>1
  <2> HIDE DEF e, then
  <2>3. NoWork(<<e>>)
    BY <2>2, NoWorkFew
  <2>4. QED
    BY <1>1, <1>3, <1>5, <2>2, <2>3, AskingOnce
<1> HIDE DEF then
<1>6. CASE cached = {} /\ abs \in DOMAIN Me.statCache /\ Return(<<d>>)
  <2>1. NoWork(<<d>>)
    BY <1>4, NoWorkFew
  <2>2. QED
    BY <1>1, <1>3, <1>6, <2>1, AskingOnce
<1>7. CASE Return(<<>>)
  BY <1>1, <1>7, NoWorkFew, AskingOnce
<1>8. QED
  BY <1>2, <1>5, <1>6, <1>7

LEMMA ReaddirOnce == ASSUME TypeInv, CountInv, TypeInv', OnceInv, _readdir PROVE OnceInv'
<1> DEFINE key == Key(IF Fn.inGlobStar THEN "readdir in **" ELSE "readdir", Fn.abs)
           cached == cachedEntries(Me, Fn.abs)
           d == Call([name |-> "_readdirInGlobStar", g |-> Fn.g, abs |-> Fn.abs, cb |-> RES(key)])
<1>9. Top("_readdir") /\ UNCHANGED <<search, self, out>>
  BY Zenon DEF _readdir
<1>1. stack # <<>> /\ Fn.name = "_readdir" /\ UNCHANGED <<search, self, out>>
  BY <1>9 DEF Top, Fn
<1>2. \/ Return(<<>>)
      \/ /\ Fn.inGlobStar
         /\ Return(<<d>>)
      \/ /\ cached # {}
         /\ \E c \in cached : Return(<<Answer(RES(key), c)>>)
  BY ZenonT(30) DEF _readdir
<1>3. ASSUME NEW h \in Globs, Starting(h) PROVE cached = {} /\ ~Fn.inGlobStar
  <2>1. Me.cache = <<>>
    BY <1>1, <1>3, StartsWork DEF Starting, Me, None
  <2>2. DOMAIN Me.cache = {}
    BY <2>1, SeqNone
  <2>3. cached = {}
    BY <2>2 DEF cachedEntries, Kind
  <2>4. EarlyOK(Fn, h)
    <3>1. Head(stack) = stack[1] /\ 1 \in DOMAIN stack
      BY <1>1, Acting, SeqTail, SeqDomain
    <3>2. QED
      BY <1>3, <3>1 DEF Starting, Fn
  <2>5. QED
    BY <1>1, <2>3, <2>4 DEF EarlyOK
<1> HIDE DEF key
<1>4. d.fn.name = "_readdirInGlobStar" /\ \A c : Answer(RES(key), c).fn.name = "RES"
  BY DEF Answer, Call, RES
<1> HIDE DEF cached, d
<1>5. CASE cached # {} /\ \E c \in cached : Return(<<Answer(RES(key), c)>>)
  <2>1. PICK c \in cached : Return(<<Answer(RES(key), c)>>)
    BY <1>5
  <2> DEFINE e == Answer(RES(key), c)
  <2>2. e.fn.name = "RES" /\ Return(<<e>>)
    BY <1>4, <2>1
  <2> HIDE DEF e
  <2>3. NoWork(<<e>>)
    BY <2>2, NoWorkFew
  <2>4. QED
    BY <1>1, <1>3, <1>5, <2>2, <2>3, AskingOnce
<1>6. CASE Fn.inGlobStar /\ Return(<<d>>)
  <2>1. NoWork(<<d>>)
    BY <1>4, NoWorkFew
  <2>2. QED
    BY <1>1, <1>3, <1>6, <2>1, AskingOnce
<1>7. CASE Return(<<>>)
  BY <1>1, <1>7, NoWorkFew, AskingOnce
<1>8. QED
  BY <1>2, <1>5, <1>6, <1>7

\* What the search that acts counts, and what the others do.
LEMMA OthersOnce ==
    ASSUME TypeInv, TypeInv', OnceInv, search' = search, stack # <<>>,
           Fn.name \in {"_process", "uncount", "done"}, NEW g, g = Fn.g,
           NEW calls, IsSeq(calls), Return(calls),
           \A j \in DOMAIN calls : calls[j].fn.name \in {"_process", "uncount"} => calls[j].fn.g = g,
           \A h \in Globs : h # g => Quietly(h), OnceAt(g)'
    PROVE  OnceInv'
<1>1. ASSUME NEW h \in Globs, h # g PROVE OnceAt(h)'
  <2>1. ~Starting(h)
    <3>1. Head(stack) = stack[1] /\ 1 \in DOMAIN stack
      BY Acting, SeqTail, SeqDomain
    <3>2. QED
      BY <1>1, <3>1 DEF Starting, EarlyOK, Fn
  <2>2. /\ Quietly(h)
        /\ \A j \in DOMAIN calls : calls[j].fn.name \in {"_process", "uncount"} => calls[j].fn.g # h
    BY <1>1
  <2>3. Fn.name \in {"_process", "done"} => Fn.g # h
    BY <1>1
  <2>4. QED
    BY <2>1, <2>2, <2>3, Elsewhere
<1>2. OnceAt(g)'
  OBVIOUS
<1>3. QED
  BY <1>1, <1>2, PatternsSame DEF OnceInv

LEMMA UncountOnce == ASSUME TypeInv, CountInv, TypeInv', OnceInv, Uncount PROVE OnceInv'
<1> DEFINE c == Fn.then
<1>0. PICK g : g = Fn.g
  OBVIOUS
<1>1. Top("uncount") /\ Set([Me EXCEPT !._processing = @ - 1]) /\ Return(<<c>>)
      /\ search' = search /\ out' = out
  BY DEF Uncount
<1>2. /\ stack # <<>> /\ Fn.name = "uncount" /\ g \in Globs /\ FnOK(Fn, Running)
      /\ out[g].started /\ IsSeq(stack)
  BY <1>0, <1>1, OnTop, Acting DEF Own
<1>3. c.fn.name = "_process" /\ c.fn.g = g
  BY <1>0, <1>2 DEF FnOK
<1>4. \A h \in Globs : h # g => Quietly(h)
  BY <1>0, <1>1 DEF Quietly, Set, TypeInv, SelfInv
<1>5. self'[g].aborted = self[g].aborted
  BY <1>0, <1>1, <1>2 DEF Set, TypeInv, SelfInv, FieldsOK, Fields, Me
<1>6. self[g]._processing + Extra(g) > 0
  <2>1. Step(g) \in Debts(Fn)
    BY <1>0, <1>2 DEF Debts
  <2>2. QED
    BY <1>2, <2>1, Busy
<1> DEFINE t == stack'
<1> HIDE DEF c
<1>7. After(stack, <<c>>, t) /\ IsSeq(<<c>>) /\ DOMAIN <<c>> = {1} /\ <<c>>[1] = c /\ Len(<<c>>) = 1
  BY <1>1, <1>2, SeqOne, AfterReturn DEF Return
<1> HIDE DEF t
<1>8. /\ Len(t) = Len(stack) /\ DOMAIN t = DOMAIN stack /\ DOMAIN stack = 1..Len(stack) /\ t[1] = c
      /\ Len(stack) \in Nat /\ Len(stack) > 0
      /\ \A k \in 2..Len(stack) : t[k] = stack[k]
  <2>1. /\ Len(t) = 1 + Len(stack) - 1 /\ Len(stack) \in Nat /\ Len(stack) > 0
        /\ DOMAIN stack = 1..Len(stack) /\ DOMAIN t = 1..Len(t)
        /\ \A k \in 1..1 : t[k] = <<c>>[k]
        /\ \A k \in 2..Len(stack) : t[1 + k - 1] = stack[k]
    BY <1>7 DEF After
  <2>2. \A k \in 2..Len(stack) : 1 + k - 1 = k
    OBVIOUS
  <2>3. Len(t) = Len(stack) /\ t[1] = c
    BY <1>7, <2>1
  <2>4. QED
    BY <2>1, <2>2, <2>3
<1>9. Coming(t, g)
  BY <1>3, <1>8 DEF Coming
<1>10. ASSUME Normal(stack, g) PROVE Normal(t, g)
  <2>1. ASSUME NEW i \in DOMAIN stack, Below(stack, i, g) PROVE Below(t, i, g)
    <3>1. PICK k \in DOMAIN stack : k > i /\ Step(g) \in Debts(stack[k].fn)
      BY <2>1 DEF Below
    <3>2. k \in 2..Len(stack)
      BY <1>8, <2>1, <3>1
    <3>3. QED
      BY <1>8, <3>1, <3>2 DEF Below
  <2>2. SUFFICES ASSUME NEW j \in DOMAIN t, t[j].fn.name \in Own, t[j].fn.g = g
                 PROVE  /\ t[j].fn.name = "_process" => Len(t) = 1 \/ Below(t, j, g)
                        /\ t[j].fn.name = "uncount" => j = Len(t) \/ Below(t, j, g)
    BY DEF Normal
  <2>3. CASE j = 1
    <3>1. 1 \in DOMAIN stack /\ stack[1].fn = Fn
      BY <1>2, <1>8, SeqTail DEF Fn
    <3>2. 1 = Len(stack) \/ Below(stack, 1, g)
      BY <1>0, <1>2, <1>10, <3>1 DEF Normal, Own
    <3>3. t[j].fn.name = "_process"
      BY <1>3, <1>8, <2>3
    <3>4. QED
      BY <1>8, <2>1, <2>3, <3>1, <3>2, <3>3
  <2>4. CASE j # 1
    <3>1. j \in 2..Len(stack) /\ j \in DOMAIN stack /\ t[j] = stack[j] /\ Len(stack) # 1
      BY <1>8, <2>4
    <3>2. /\ stack[j].fn.name = "_process" => Len(stack) = 1 \/ Below(stack, j, g)
          /\ stack[j].fn.name = "uncount" => j = Len(stack) \/ Below(stack, j, g)
      BY <1>10, <2>2, <3>1 DEF Normal
    <3>3. QED
      BY <1>8, <2>1, <3>1, <3>2
  <2>5. QED
    BY <2>3, <2>4
<1>11. OnceAt(g) /\ ~Starting(g)
  <2>1. Head(stack) = stack[1] /\ 1 \in DOMAIN stack
    BY <1>2, SeqTail, SeqDomain
  <2>2. QED
    BY <1>2, <2>1 DEF OnceInv, Starting, EarlyOK, Fn
<1>12. hasty(g)' <=> hasty(g)
  BY <1>1, <1>2, PatternsSame
<1>13. self'[g].minimatch.set = self[g].minimatch.set
  BY <1>1, <1>2, PatternsSame
<1>14. FreshInv(g)' /\ WorkInv(g)'
  BY <1>1, <1>2, <1>9 DEF FreshInv, WorkInv, t
<1>15. EmptyInv(g)'
  <2>1. stack # <<Done(g)>>
    BY <1>2, SeqOne DEF Fn, Done, Call
  <2>2. QED
    BY <1>1, <1>5, <1>11, <1>13, <2>1 DEF OnceAt, EmptyInv
<1>16. ASSUME ~hasty(g) PROVE EndInv(g)'
  <2>1. EndInv(g)
    BY <1>11, <1>16 DEF OnceAt
  <2>2. Normal(t, g)
    BY <1>10, <1>11, <2>1 DEF EndInv
  <2>3. ~(out[g].started /\ ~self[g].aborted /\ out[g].ends > 0)
    BY <1>6, <2>1 DEF EndInv
  <2>4. QED
    BY <1>1, <1>5, <2>2, <2>3 DEF EndInv, t
<1>17. OnceAt(g)'
  BY <1>12, <1>14, <1>15, <1>16 DEF OnceAt
<1>18. QED
  BY <1>0, <1>1, <1>2, <1>3, <1>4, <1>7, <1>17, OthersOnce

LEMMA DoneOnce == ASSUME TypeInv, CountInv, TypeInv', OnceInv, done PROVE OnceInv'
<1>0. PICK g : g = Fn.g
  OBVIOUS
<1>1. Top("done") /\ Set([Me EXCEPT !._processing = @ - 1]) /\ Return(<<>>) /\ search' = search
  BY DEF done
<1>2. /\ stack # <<>> /\ Fn.name = "done" /\ g \in Globs /\ out[g].started /\ IsSeq(stack)
      /\ SeenOK(out[g]) /\ FieldsOK(g, self[g]) /\ g \in DOMAIN self /\ g \in DOMAIN out
  BY <1>0, <1>1, OnTop, Acting DEF Own, TypeInv, SelfInv
<1> DEFINE p == self[g]._processing
           e == Extra(g)
           n == InCalls(stack, Step(g))
<1>3. p \in Int /\ e \in {0, 1} /\ n \in Nat /\ p + e >= n /\ n >= 1
  <2>1. Step(g) \in Debts(Fn)
    BY <1>0, <1>2 DEF Debts
  <2>2. QED
    BY <1>2, <2>1, Busy
<1>4. self'[g] = [self[g] EXCEPT !._processing = p - 1]
  BY <1>0, <1>1, <1>2 DEF Set, Me
<1>5. self'[g]._processing = p - 1 /\ self'[g].aborted = self[g].aborted
      /\ self'[g].paused = self[g].paused /\ self'[g].cache = self[g].cache
      /\ self'[g].statCache = self[g].statCache
  BY <1>2, <1>4 DEF FieldsOK, Fields
<1>6. \/ (p > 1 \/ self[g].aborted) /\ out' = out
      \/ /\ ~(p > 1 \/ self[g].aborted) /\ out'[g].ends = out[g].ends + 1
         /\ out'[g].started = out[g].started /\ \A h \in Globs : h # g => out'[h] = out[h]
  <2>1. out' = IF Me._processing > 1 \/ Me.aborted THEN out
              ELSE [out EXCEPT ![Fn.g].ends = @ + 1,
                      ![Fn.g].found = IF out[Fn.g].ends = 0 THEN found(o(Fn.g), Me) ELSE @,
                      ![Fn.g].late = {x[2] : x \in Range(Me._emitQueue)}]
    BY DEF done
  <2>2. Me = self[g]
    BY <1>0 DEF Me
  <2> DEFINE f == IF out[Fn.g].ends = 0 THEN found(o(Fn.g), Me) ELSE out[Fn.g].found
             l == {x[2] : x \in Range(Me._emitQueue)}
  <2>3. CASE ~(p > 1 \/ self[g].aborted)
    <3>1. out' = [out EXCEPT ![g] = [out[g] EXCEPT !.ends = @ + 1, !.found = f, !.late = l]]
      BY <1>0, <1>2, <2>1, <2>2, <2>3 DEF SeenOK
    <3> HIDE DEF f, l
    <3>2. out'[g] = [out[g] EXCEPT !.ends = @ + 1, !.found = f, !.late = l]
          /\ \A h \in Globs : h # g => out'[h] = out[h]
      BY <1>2, <3>1 DEF TypeInv, SelfInv
    <3>3. {"ends", "found", "late", "started"} \subseteq DOMAIN out[g]
      BY <1>2 DEF SeenOK
    <3>4. out'[g].ends = out[g].ends + 1 /\ out'[g].started = out[g].started
      BY <3>2, <3>3
    <3>5. QED
      BY <2>3, <3>2, <3>4
  <2>4. CASE p > 1 \/ self[g].aborted
    BY <2>1, <2>2, <2>4
  <2>5. QED
    BY <2>3, <2>4
<1>7. \A h \in Globs : h # g => Quietly(h)
  BY <1>0, <1>1, <1>6 DEF Quietly, Set, TypeInv, SelfInv
<1>8. Extra(g)' = e /\ (hasty(g)' <=> hasty(g)) /\ self'[g].minimatch.set = self[g].minimatch.set
  BY <1>1, <1>2, <1>6, PatternsSame, ExtraSame
<1>9. OnceAt(g)
  BY <1>2 DEF OnceInv
<1> DEFINE t == stack'
<1>10. After(stack, <<>>, t) /\ IsSeq(<<>>)
  BY <1>1, <1>2, SeqNone, AfterReturn DEF Return
<1> HIDE DEF t, p, e, n
<1>11. Head(stack) = stack[1] /\ 1 \in DOMAIN stack /\ stack[1].fn = Fn
  BY <1>2, SeqTail, SeqDomain DEF Fn
<1>12. /\ Normal(stack, g) => Normal(t, g)
       /\ Coming(t, g) => \E i \in DOMAIN stack : i # 1 /\ stack[i].fn.name = "_process" /\ stack[i].fn.g = g
  <2>1. \A j \in DOMAIN <<>> : <<>>[j].fn.name \in {"_process", "uncount"} => <<>>[j].fn.g # g
    BY SeqNone
  <2>2. (Normal(stack, g) => Normal(t, g)) /\ (Coming(t, g) => Coming(stack, g))
    BY <1>2, <1>10, <2>1, StaysNormal
  <2>3. Coming(stack, g) => \E i \in DOMAIN stack : i # 1 /\ stack[i].fn.name = "_process" /\ stack[i].fn.g = g
    BY <1>2, <1>11 DEF Coming
  <2>4. QED
    BY <2>2, <2>3
<1>13. FreshInv(g)'
  BY <1>2, <1>6 DEF FreshInv
<1>20. ASSUME ~self'[g].aborted, out'[g].ends = 0 PROVE p > 1 /\ out[g].ends = 0
  <2>1. ~self[g].aborted /\ out[g].ends \in Nat
    BY <1>2, <1>5, <1>20 DEF SeenOK
  <2>2. out'[g].ends # out[g].ends + 1
    BY <1>20, <2>1
  <2>3. p > 1 /\ out' = out
    BY <1>6, <2>1, <2>2
  <2>4. QED
    BY <1>20, <2>3
<1>14. WorkInv(g)'
  <2>1. SUFFICES ASSUME ~self'[g].aborted, out'[g].ends = 0
                 PROVE  self'[g]._processing + Extra(g)' > 0
    BY DEF WorkInv
  <2>2. p > 1
    BY <1>20, <2>1
  <2>3. QED
    BY <1>3, <1>5, <1>8, <2>2
<1>15. EmptyInv(g)'
  <2>1. SUFFICES ASSUME ~self'[g].aborted, out'[g].ends = 0, self'[g].minimatch.set = <<>>
                 PROVE  FALSE
    BY DEF EmptyInv
  <2>2. p > 1 /\ out[g].ends = 0
    BY <1>20, <2>1
  <2>3. self[g]._processing = 0
    BY <1>2, <1>5, <1>8, <1>9, <2>1, <2>2 DEF OnceAt, EmptyInv
  <2>4. QED
    BY <2>2, <2>3 DEF p
<1>16. ASSUME ~hasty(g) PROVE EndInv(g)'
  <2>1. EndInv(g)
    BY <1>9, <1>16 DEF OnceAt
  <2>2. Starting(g) => p > n
    BY <1>2 DEF Starting, p, n
  <2>3. Normal(t, g) \/ Starting(g)'
    <3>1. CASE Normal(stack, g)
      BY <1>12, <3>1
    <3>2. CASE Starting(g)
      <4>1. InCalls(t, Step(g)) = n - 1
        <5> DEFINE x == Step(g)
        <5>1. InCalls(t, x) = InCalls(<<>>, x) + InCalls(stack, x) - Owes(Fn, x)
          BY <1>1, <1>2, SeqNone, InReturn DEF Return, Fn, t
        <5>2. InCalls(<<>>, x) = 0 /\ Owes(Fn, x) = 1
          BY <1>0, <1>2, InNone DEF Owes, Debts
        <5> HIDE DEF x
        <5>3. n = InCalls(stack, x) /\ n \in Nat
          BY <1>3 DEF x, n
        <5>4. QED
          BY <5>1, <5>2, <5>3 DEF x
      <4>2. CASE t = <<>>
        BY <4>2, NoCalls
      <4>3. CASE t # <<>>
        <5>1. \A k \in DOMAIN t : EarlyOK(t[k].fn, g)
          <6>1. TAKE k \in DOMAIN t
          <6>2. k + 1 \in DOMAIN stack /\ t[Len(<<>>) + (k + 1) - 1] = stack[k + 1]
            BY <1>10, SeqNone DEF After
          <6>3. Len(<<>>) + (k + 1) - 1 = k
            BY <1>10, SeqNone DEF After
          <6>4. EarlyOK(stack[k + 1].fn, g)
            BY <3>2, <6>2 DEF Starting
          <6>5. QED
            BY <6>2, <6>3, <6>4
        <5>2. p - 1 > InCalls(t, Step(g))
          BY <1>3, <2>2, <3>2, <4>1
        <5>3. ~self[g].paused /\ ~self[g].aborted /\ self[g].cache = None /\ self[g].statCache = None
          BY <3>2 DEF Starting
        <5>4. QED
          BY <1>5, <4>3, <5>1, <5>2, <5>3 DEF Starting, t
      <4>4. QED
        BY <4>2, <4>3
    <3>3. QED
      BY <2>1, <3>1, <3>2 DEF EndInv
  <2>4. SUFFICES ASSUME ~self'[g].aborted, out'[g].ends > 0
                 PROVE  out'[g].ends = 1 /\ self'[g]._processing + Extra(g)' = 0 /\ ~Coming(t, g)
    BY <2>3 DEF EndInv, t
  <2>5. out[g].ends = 0
    BY <1>2, <1>3, <1>5, <2>1, <2>4 DEF EndInv, SeenOK, p, e
  <2>6. ~(p > 1) /\ out'[g].ends = 1
    BY <1>6, <2>4, <2>5
  <2>7. p + e = 1
    <3>1. CASE e = 0
      BY <1>3, <2>6, <3>1
    <3>2. CASE e = 1
      <4>1. self[g].minimatch.set = <<>>
        BY <3>2 DEF e, Extra
      <4>2. p = 0
        BY <1>2, <1>5, <1>9, <2>4, <2>5, <4>1 DEF OnceAt, EmptyInv, p
      <4>3. QED
        BY <3>2, <4>2
    <3>3. QED
      BY <1>3, <3>1, <3>2
  <2>8. Normal(stack, g)
    BY <1>3, <2>1, <2>2, <2>6 DEF EndInv
  <2>9. ASSUME Coming(t, g) PROVE FALSE
    <3>1. PICK i \in DOMAIN stack : i # 1 /\ stack[i].fn.name = "_process" /\ stack[i].fn.g = g
      BY <1>12, <2>9
    <3>2. Len(stack) # 1
      BY <1>2, <3>1, SeqDomain
    <3>3. Below(stack, i, g)
      BY <2>8, <3>1, <3>2 DEF Normal, Own
    <3>4. PICK k \in DOMAIN stack : k > i /\ Step(g) \in Debts(stack[k].fn)
      BY <3>3 DEF Below
    <3>5. k # 1
      BY <1>2, <3>1, <3>4, SeqDomain
    <3>6. Step(g) \in Debts(stack[1].fn)
      BY <1>0, <1>2, <1>11 DEF Debts
    <3>7. n >= 2
      BY <1>2, <1>11, <3>4, <3>5, <3>6, CountDebtors DEF n
    <3>8. QED
      BY <1>3, <2>7, <3>7
  <2>10. QED
    BY <1>3, <1>5, <1>8, <2>6, <2>7, <2>9
<1>17. OnceAt(g)'
  BY <1>8, <1>13, <1>14, <1>15, <1>16 DEF OnceAt
<1>18. \A j \in DOMAIN <<>> : <<>>[j].fn.name \in {"_process", "uncount"} => <<>>[j].fn.g = g
  BY SeqNone
<1>19. QED
  BY <1>0, <1>1, <1>2, <1>7, <1>10, <1>17, <1>18, OthersOnce

\* What an unpaused _process calls first asks fs, while Glob runs.
LEMMA FirstAsks ==
    ASSUME NEW g, g = Fn.g, ~hasty(g), EarlyOK(Fn, g), Fn.name = "_process"
    PROVE  /\ EarlyOK(firstStep.fn, g) /\ firstStep.fn.name # "_process"
           /\ Len(self[g].minimatch.set) > 1 /\ Fn.pattern = self[g].minimatch.set[1]
                => firstStep.fn.name \in {"_stat", "_readdir"}
<1> DEFINE pre  == prefix(Fn.pattern)
           rest == remain(Fn.pattern)
           then == [name |-> IF rest[1] = GLOBSTAR THEN "_processGlobStar2" ELSE "_processReaddir2",
                    g |-> Fn.g, pattern |-> Fn.pattern, index |-> Fn.index,
                    inGlobStar |-> Fn.inGlobStar]
           ignored == childrenIgnored(Me, read(pre))
           a == Call([name |-> "_stat", g |-> Fn.g, f |-> join(pre), index |-> Fn.index])
           b == Done(Fn.g)
           c == Readdir(Fn.g, makeAbs(read(pre)), Fn.inGlobStar, then)
<1>1. firstStep = IF rest = <<>> THEN a ELSE IF ignored THEN b ELSE c
  BY DEF firstStep
<1>2. a.fn.name = "_stat" /\ a.fn.g = g /\ b.fn.name = "done" /\ b.fn.g = g
  BY DEF Call, Done
<1>3. then.name # "RES"
  OBVIOUS
<1> HIDE DEF then
<1>4. c.fn.name = "_readdir" /\ c.fn.g = g /\ c.fn.cb.name # "RES" /\ c.fn.inGlobStar = Fn.inGlobStar
  BY <1>3 DEF Readdir, Call
<1>5. ASSUME Len(self[g].minimatch.set) > 1, Fn.pattern = self[g].minimatch.set[1], rest # <<>>
      PROVE  ~ignored
  BY <1>5 DEF hasty, Me
<1> HIDE DEF a, b, c, ignored, rest
<1>6. EarlyOK(a.fn, g) /\ EarlyOK(b.fn, g) /\ EarlyOK(c.fn, g)
  BY <1>2, <1>4 DEF EarlyOK
<1>7. QED
  BY <1>1, <1>2, <1>4, <1>5, <1>6

LEMMA ProcessOnce == ASSUME TypeInv, CountInv, TypeInv', OnceInv, _process PROVE OnceInv'
<1>0. PICK g : g = Fn.g
  OBVIOUS
<1>1. Top("_process") /\ search' = search /\ out' = out
  BY DEF _process
<1>2. /\ stack # <<>> /\ Fn.name = "_process" /\ g \in Globs /\ out[g].started /\ IsSeq(stack)
      /\ FieldsOK(g, self[g]) /\ g \in DOMAIN self /\ Me = self[g]
  BY <1>0, <1>1, OnTop, Acting DEF Own, TypeInv, SelfInv, Me
<1> DEFINE p == self[g]._processing
           e == Extra(g)
           n == InCalls(stack, Step(g))
           c == firstStep
           aside == [Me EXCEPT !._processing = @ + 1, !._processQueue = Append(@, Head(stack))]
           begun == [Me EXCEPT !._processing = @ + 1]
<1>3. p \in Int /\ e \in {0, 1} /\ n \in Nat /\ p + e >= n
  BY <1>2, Busy
<1>4. /\ Extra(g)' = e /\ (hasty(g)' <=> hasty(g)) /\ OnceAt(g)
      /\ self'[g].minimatch.set = self[g].minimatch.set
  BY <1>1, <1>2, PatternsSame, ExtraSame DEF OnceInv
<1>5. Head(stack) = stack[1] /\ 1 \in DOMAIN stack /\ stack[1].fn = Fn
  BY <1>2, SeqTail, SeqDomain DEF Fn
<1>6. FreshInv(g)'
  BY <1>1, <1>2 DEF FreshInv
<1>7. \A h \in Globs : h # g => Quietly(h)
  BY <1>0, <1>1 DEF _process, Quietly, Set, TypeInv, SelfInv
<1>8. \/ self[g].aborted /\ Return(<<>>) /\ self' = self
      \/ ~self[g].aborted /\ self[g].paused /\ Return(<<>>) /\ self'[g] = aside
      \/ ~self[g].aborted /\ ~self[g].paused /\ Return(<<c>>) /\ self'[g] = begun
  BY <1>0, <1>2 DEF _process, Set
<1>9. /\ aside._processing = p + 1 /\ aside.aborted = self[g].aborted
      /\ begun._processing = p + 1 /\ begun.aborted = self[g].aborted
      /\ begun.paused = self[g].paused /\ begun.cache = self[g].cache
      /\ begun.statCache = self[g].statCache
  BY <1>2 DEF FieldsOK, Fields
<1>10. EmptyInv(g)'
  <2>1. stack # <<Done(g)>>
    BY <1>2, SeqOne DEF Fn, Done, Call
  <2>2. self'[g].aborted = self[g].aborted
    BY <1>8, <1>9
  <2>3. QED
    BY <1>1, <1>4, <2>1, <2>2 DEF OnceAt, EmptyInv
<1>11. c.fn.name \in {"_stat", "done", "_readdir"} /\ c.fn.g = g
       /\ Owes(c.fn, Step(g)) = 1
  <2>1. FrameOK(c, Running)
    BY <1>0, <1>1, OnTop, FirstStepOK DEF Own
  <2>2. c.fn.name \in {"_stat", "done", "_readdir"} /\ c.fn.g = g
    BY <1>0 DEF firstStep, Call, Done, Readdir
  <2>3. Owes(c.fn, Step(g)) = 1
    BY <1>0, <1>1, OnTop, FirstStepOK DEF Own
  <2>4. QED
    BY <2>2, <2>3
<1> HIDE DEF c, aside, begun, p, e, n
<1>12. PICK calls : /\ Return(calls) /\ calls \in {<<>>, <<c>>} /\ NoWork(calls)
                    /\ (calls = <<>> => self[g].aborted \/ self[g].paused)
  <2>1. NoWork(<<>>) /\ NoWork(<<c>>)
    BY <1>11, NoWorkFew
  <2>2. QED
    BY <1>8, <2>1, SeqOne
<1> DEFINE t == stack'
<1>13. After(stack, calls, t) /\ IsSeq(calls)
  BY <1>2, <1>12, AfterReturn DEF Return, NoWork
<1> HIDE DEF t
<1>14. Normal(stack, g) => Normal(t, g)
  <2>1. \A j \in DOMAIN calls : calls[j].fn.name \in {"_process", "uncount"} => calls[j].fn.g # g
    BY <1>12 DEF NoWork
  <2>2. QED
    BY <1>2, <1>13, <2>1, StaysNormal
<1>15. ~self'[g].aborted => ~self[g].aborted /\ self'[g]._processing = p + 1
  BY <1>8, <1>9
<1>16. WorkInv(g)'
  <2>1. SUFFICES ASSUME ~self'[g].aborted PROVE self'[g]._processing + Extra(g)' > 0
    BY DEF WorkInv
  <2>2. QED
    BY <1>3, <1>4, <1>15, <2>1
<1>17. ASSUME ~hasty(g) PROVE EndInv(g)'
  <2>1. EndInv(g)
    BY <1>4, <1>17 DEF OnceAt
  <2>2. ASSUME ~self'[g].aborted PROVE ~(out'[g].ends > 0)
    <3>1. Coming(stack, g)
      BY <1>0, <1>2, <1>5 DEF Coming
    <3>2. QED
      BY <1>1, <1>2, <1>15, <2>1, <2>2, <3>1 DEF EndInv
  <2>3. ASSUME Starting(g) PROVE Starting(g)'
    <3>1. ~self[g].aborted /\ ~self[g].paused /\ self[g].cache = None /\ self[g].statCache = None
          /\ \A k \in DOMAIN stack : EarlyOK(stack[k].fn, g)
      BY <2>3 DEF Starting
    <3>2. calls = <<c>> /\ self'[g] = begun
      BY <1>8, <1>12, <3>1
    <3>3. EarlyOK(Fn, g)
      BY <1>5, <3>1
    <3>4. EarlyOK(c.fn, g)
      BY <1>0, <1>2, <1>17, <3>3, FirstAsks DEF c
    <3>5. IsSeq(<<c>>) /\ Len(<<c>>) = 1 /\ <<c>>[1] = c
      BY SeqOne
    <3>6. /\ Len(t) = Len(stack) /\ DOMAIN t = 1..Len(t) /\ t[1] = c /\ t # <<>>
          /\ DOMAIN stack = 1..Len(stack) /\ IsSeq(t) /\ Len(stack) > 0 /\ Len(stack) \in Nat
          /\ \A k \in 2..Len(stack) : t[k] = stack[k]
      <4>1. /\ Len(t) = 1 + Len(stack) - 1 /\ Len(stack) \in Nat /\ Len(stack) > 0 /\ IsSeq(t)
            /\ DOMAIN stack = 1..Len(stack) /\ DOMAIN t = 1..Len(t)
            /\ \A k \in 1..1 : t[k] = <<c>>[k]
            /\ \A k \in 2..Len(stack) : t[1 + k - 1] = stack[k]
        BY <1>13, <3>2, <3>5 DEF After
      <4>2. \A k \in 2..Len(stack) : 1 + k - 1 = k
        OBVIOUS
      <4>3. Len(t) = Len(stack) /\ t[1] = c
        BY <3>5, <4>1
      <4>4. t # <<>>
        BY <4>1, <4>3, SeqDomain
      <4>5. QED
        BY <4>1, <4>2, <4>3, <4>4
    <3>7. \A k \in DOMAIN t : EarlyOK(t[k].fn, g)
      <4>1. TAKE k \in DOMAIN t
      <4>2. k = 1 \/ (k \in 2..Len(stack) /\ k \in DOMAIN stack)
        BY <3>6
      <4>3. QED
        BY <3>1, <3>4, <3>6, <4>2
    <3>8. Head(t) = c
      BY <3>6, SeqTail
    <3>9. CASE Len(self[g].minimatch.set) > 1 /\ Fn.pattern = self[g].minimatch.set[1]
      <4>1. c.fn.name \in {"_stat", "_readdir"}
        BY <1>0, <1>2, <1>17, <3>3, <3>9, FirstAsks DEF c
      <4>2. Fn'.name \in {"_stat", "_readdir"}
        BY <3>8, <4>1 DEF Fn, t
      <4>3. QED
        BY <1>9, <3>1, <3>2, <3>6, <3>7, <4>2 DEF Starting, t
    <3>10. CASE p > n
      <4>1. InCalls(t, Step(g)) = n + 1
        <5> DEFINE x == Step(g)
        <5>1. InCalls(t, x) = InCalls(<<c>>, x) + InCalls(stack, x) - Owes(Fn, x)
          BY <1>2, <1>12, <3>2, <3>5, InReturn DEF Return, Fn, t
        <5>2. InCalls(<<c>>, x) = 1 /\ Owes(Fn, x) = 0
          BY <1>2, <1>11, InOne DEF Owes, Debts
        <5> HIDE DEF x
        <5>3. n = InCalls(stack, x) /\ n \in Nat
          BY <1>3 DEF x, n
        <5>4. QED
          BY <5>1, <5>2, <5>3 DEF x
      <4>2. p + 1 > InCalls(t, Step(g))
        BY <1>3, <3>10, <4>1
      <4>3. QED
        BY <1>9, <3>1, <3>2, <3>6, <3>7, <4>2 DEF Starting, t
    <3>11. QED
      BY <1>2, <2>3, <3>9, <3>10 DEF Starting, p, n
  <2>4. QED
    BY <1>14, <2>1, <2>2, <2>3 DEF EndInv, t
<1>18. OnceAt(g)'
  BY <1>4, <1>6, <1>10, <1>16, <1>17 DEF OnceAt
<1>19. \A j \in DOMAIN calls : calls[j].fn.name \in {"_process", "uncount"} => calls[j].fn.g = g
  BY <1>12 DEF NoWork
<1>20. QED
  BY <1>0, <1>1, <1>2, <1>7, <1>12, <1>13, <1>18, <1>19, OthersOnce

\* Nothing runs: what is called next does not add to what a search has to come.
LEMMA WakesOnce ==
    ASSUME TypeInv, TypeInv', OnceInv, search' = search, NEW h \in Globs, stack = <<>>,
           Quietly(h), NEW t, t = stack', Normal(t, h), ~Coming(t, h)
    PROVE  OnceAt(h)'
<1>1. OnceAt(h) /\ ~Coming(stack, h) /\ stack # <<Done(h)>>
  BY NoCalls, SeqOne DEF OnceInv
<1>2. /\ Extra(h)' = Extra(h) /\ (hasty(h)' <=> hasty(h))
      /\ self'[h].minimatch.set = self[h].minimatch.set
  BY PatternsSame, ExtraSame DEF Quietly
<1>3. FreshInv(h)' /\ WorkInv(h)'
  BY <1>1, <1>2 DEF OnceAt, FreshInv, WorkInv, Quietly
<1>4. EmptyInv(h)'
  BY <1>1, <1>2 DEF OnceAt, EmptyInv, Quietly
<1>5. ~hasty(h) => EndInv(h)'
  BY <1>1, <1>2 DEF OnceAt, EndInv, Quietly
<1>6. QED
  BY <1>2, <1>3, <1>4, <1>5 DEF OnceAt

LEMMA TickOnce == ASSUME TypeInv, TypeInv', OnceInv, Tick PROVE OnceInv'
<1> DEFINE c == Head(ticks)
<1>1. stack = <<>> /\ ticks # <<>> /\ stack' = <<c>> /\ UNCHANGED <<search, self, out>>
  BY DEF Tick
<1>2. c.fn.name = "RES"
  <2>1. IsSeq(ticks) /\ c = ticks[1] /\ 1 \in DOMAIN ticks
    BY <1>1, SeqTail, SeqDomain DEF TypeInv, TicksInv, FramesOK
  <2>2. QED
    BY <2>1 DEF TypeInv, TicksInv
<1> HIDE DEF c
<1>3. ASSUME NEW h PROVE Normal(<<c>>, h) /\ ~Coming(<<c>>, h)
  BY <1>2, SeqOne DEF Normal, Coming
<1>4. \A h \in Globs : OnceAt(h)'
  BY <1>1, <1>3, SameQuietly, WakesOnce
<1>5. QED
  BY <1>1, <1>4, PatternsSame DEF OnceInv

LEMMA AnswersOnce == ASSUME TypeInv, TypeInv', OnceInv, Answers PROVE OnceInv'
<1>1. PICK r \in BagToSet(pending) : FsAnswers(r)
  BY DEF Answers
<1> DEFINE c == Answer(r.cb, answer(search.files, r.call, r.abs))
<1>2. stack = <<>> /\ stack' = <<c>> /\ UNCHANGED <<search, self, out>>
  BY <1>1 DEF FsAnswers, Idle
<1>3. c.fn.name \in AskNames
  BY <1>1 DEF BagToSet, TypeInv, PendingInv, AskOK, Answer
<1> HIDE DEF c
<1>4. ASSUME NEW h PROVE Normal(<<c>>, h) /\ ~Coming(<<c>>, h)
  BY <1>3, SeqOne DEF Normal, Coming, AskNames
<1>5. \A h \in Globs : OnceAt(h)'
  BY <1>2, <1>4, SameQuietly, WakesOnce
<1>6. QED
  BY <1>2, <1>5, PatternsSame DEF OnceInv

\* The calls that remain stay as they are.
LEMMA StillOnce ==
    ASSUME TypeInv, TypeInv', OnceInv, search' = search, stack' = stack,
           stack = <<>> \/ Fn.name = "match", \A h \in Globs : Quietly(h)
    PROVE  OnceInv'
<1>1. ASSUME NEW h \in Globs PROVE OnceAt(h)'
  <2>1. ~Starting(h)
    <3>1. stack # <<>> => Head(stack) = stack[1] /\ 1 \in DOMAIN stack
      BY Acting, SeqTail, SeqDomain
    <3>2. QED
      BY <3>1 DEF Starting, EarlyOK, Fn
  <2>2. /\ Extra(h)' = Extra(h) /\ (hasty(h)' <=> hasty(h)) /\ OnceAt(h) /\ Quietly(h)
        /\ self'[h].minimatch.set = self[h].minimatch.set
    BY PatternsSame, ExtraSame DEF Quietly, OnceInv
  <2>3. FreshInv(h)' /\ WorkInv(h)'
    BY <2>2 DEF OnceAt, FreshInv, WorkInv, Quietly
  <2>4. EmptyInv(h)'
    BY <2>2 DEF OnceAt, EmptyInv, Quietly
  <2>5. ~hasty(h) => EndInv(h)'
    BY <2>1, <2>2 DEF OnceAt, EndInv, Quietly
  <2>6. QED
    BY <2>2, <2>3, <2>4, <2>5 DEF OnceAt
<1>2. QED
  BY <1>1, PatternsSame DEF OnceInv

LEMMA AbortOnce == ASSUME TypeInv, TypeInv', OnceInv, NEW g \in Globs, abort(g) PROVE OnceInv'
<1>1. /\ search' = search /\ stack' = stack /\ out' = out /\ out[g].started
      /\ self' = [self EXCEPT ![g].aborted = TRUE]
      /\ stack = <<>> \/ Fn.name = "match"
  BY DEF abort, CallerRuns, Idle, Top, Fn
<1>2. \A h \in Globs : Quietly(h)
  BY <1>1 DEF Quietly, TypeInv, SelfInv, FieldsOK, Fields
<1>3. QED
  BY <1>1, <1>2, StillOnce

LEMMA PauseOnce == ASSUME TypeInv, TypeInv', OnceInv, NEW g \in Globs, pause(g) PROVE OnceInv'
<1>1. /\ search' = search /\ stack' = stack /\ out[g].started
      /\ out' = [out EXCEPT ![g].pauses = @ + 1] /\ self' = [self EXCEPT ![g].paused = TRUE]
      /\ stack = <<>> \/ Fn.name = "match"
  BY DEF pause, CallerRuns, Idle, Top, Fn
<1>2. /\ \A h \in Globs : out'[h].started = out[h].started /\ out'[h].ends = out[h].ends
      /\ DOMAIN self = Globs /\ FieldsOK(g, self[g])
  BY <1>1 DEF TypeInv, SelfInv, SeenOK
<1>3. \A h \in Globs : Quietly(h)
  BY <1>1, <1>2 DEF Quietly, FieldsOK, Fields
<1>4. QED
  BY <1>1, <1>3, StillOnce

LEMMA ResumeOnce == ASSUME TypeInv, TypeInv', OnceInv, NEW g \in Globs, resume(g) PROVE OnceInv'
<1> DEFINE eq == self[g]._emitQueue
           pq == self[g]._processQueue
           e == [k \in DOMAIN eq |-> EmitMatch(g, eq[k][1], eq[k][2])]
           u == [k \in DOMAIN pq |-> Call([name |-> "uncount", g |-> g, then |-> pq[k]])]
           t == e \o u
<1>1. /\ stack = <<>> /\ self[g].paused /\ search' = search /\ out' = out /\ stack' = t
      /\ self' = [self EXCEPT ![g].paused = FALSE, ![g]._emitQueue = <<>>, ![g]._processQueue = <<>>]
  BY DEF resume, Idle
<1>2. FieldsOK(g, self[g]) /\ out[g].started /\ DOMAIN self = Globs
  BY <1>1 DEF TypeInv, SelfInv
<1>3. \A h \in Globs : Quietly(h)
  BY <1>1, <1>2 DEF Quietly, FieldsOK, Fields
<1>4. /\ IsSeq(eq) /\ Len(eq) \in Nat /\ DOMAIN eq = 1..Len(eq)
      /\ IsSeq(pq) /\ Len(pq) \in Nat /\ DOMAIN pq = 1..Len(pq)
  BY <1>2, SeqDomain DEF FieldsOK, Again
<1> HIDE DEF eq, pq
<1>5. /\ IsSeq(e) /\ DOMAIN e = 1..Len(e) /\ IsSeq(u) /\ DOMAIN u = 1..Len(u)
      /\ Len(e) = Len(eq) /\ Len(u) = Len(pq)
  BY <1>4, SeqMade
<1>6. /\ \A k \in DOMAIN e : e[k].fn.name = "_emitMatch"
      /\ \A k \in DOMAIN u : u[k].fn.name = "uncount" /\ u[k].fn.g = g
  BY DEF EmitMatch, Call
<1> HIDE DEF e, u
<1>7. /\ IsSeq(t) /\ Len(t) = Len(e) + Len(u) /\ DOMAIN t = 1..Len(t)
      /\ \A k \in 1..Len(e) : t[k] = e[k]
      /\ \A k \in 1..Len(u) : t[Len(e) + k] = u[k]
  BY <1>5, SeqCat, SeqDomain
<1> HIDE DEF t
<1>8. ASSUME NEW j \in DOMAIN t
      PROVE  \/ t[j].fn.name = "_emitMatch"
             \/ j > Len(e) /\ t[j].fn.name = "uncount" /\ t[j].fn.g = g
  <2>1. CASE j \in 1..Len(e)
    BY <1>5, <1>6, <1>7, <2>1
  <2>2. CASE j \notin 1..Len(e)
    <3>1. j > Len(e) /\ j - Len(e) \in 1..Len(u) /\ Len(e) + (j - Len(e)) = j
      BY <1>4, <1>5, <1>7, <2>2
    <3>2. t[j] = u[j - Len(e)]
      BY <1>7, <3>1
    <3>3. QED
      BY <1>5, <1>6, <3>1, <3>2
  <2>3. QED
    BY <2>1, <2>2
<1>9. ASSUME NEW h PROVE Normal(t, h) /\ ~Coming(t, h)
  <2>1. ~Coming(t, h)
    BY <1>8 DEF Coming
  <2>2. SUFFICES ASSUME NEW j \in DOMAIN t, t[j].fn.name \in Own, t[j].fn.g = h
                 PROVE  /\ t[j].fn.name = "_process" => Len(t) = 1 \/ Below(t, j, h)
                        /\ t[j].fn.name = "uncount" => j = Len(t) \/ Below(t, j, h)
    BY <2>1 DEF Normal
  <2>3. CASE t[j].fn.name = "uncount" /\ j # Len(t)
    <3>1. j > Len(e) /\ h = g
      BY <1>8, <2>2, <2>3
    <3>2. Len(t) \in DOMAIN t /\ Len(t) > j /\ Len(t) > Len(e)
      BY <1>4, <1>5, <1>7, <2>3, <3>1
    <3>3. t[Len(t)].fn.name = "uncount" /\ t[Len(t)].fn.g = g
      <4>1. Len(t) - Len(e) \in 1..Len(u) /\ Len(e) + (Len(t) - Len(e)) = Len(t)
        BY <1>4, <1>5, <1>7, <3>2
      <4>2. t[Len(t)] = u[Len(t) - Len(e)]
        BY <1>7, <4>1
      <4>3. QED
        BY <1>5, <1>6, <4>1, <4>2
    <3>4. Step(h) \in Debts(t[Len(t)].fn)
      BY <3>1, <3>3 DEF Debts
    <3>5. QED
      BY <2>3, <3>2, <3>4 DEF Below
  <2>4. QED
    BY <1>8, <2>3
<1>10. \A h \in Globs : OnceAt(h)'
  BY <1>1, <1>3, <1>9, WakesOnce
<1>11. QED
  BY <1>1, <1>10, PatternsSame DEF OnceInv

LEMMA GlobOnce == ASSUME TypeInv, TypeInv', OnceInv, NEW g \in Globs, Glob(g) PROVE OnceInv'
<1> DEFINE set == self[g].minimatch.set
           t == stack'
           c == Done(g)
           p == [k \in DOMAIN set |-> Process(g, set[k], k, FALSE)]
<1>1. /\ stack = <<>> /\ ~out[g].started /\ search' = search /\ self' = self
      /\ out' = [out EXCEPT ![g].started = TRUE]
      /\ t = IF set = <<>> THEN <<c>> ELSE p
  BY DEF Glob, Idle
<1>2. /\ FieldsOK(g, self[g]) /\ SeenOK(out[g]) /\ DOMAIN out = Globs /\ IsSeq(set)
      /\ ~self[g].aborted /\ ~self[g].paused
  <2>1. /\ FieldsOK(g, self[g]) /\ search \in Searches /\ g \in DOMAIN search.options
        /\ SeenOK(out[g]) /\ DOMAIN out = Globs /\ (self[g].aborted \/ self[g].paused => out[g].started)
    BY DEF TypeInv, SelfInv, Globs
  <2>2. set = setopts(search.options[g]).minimatch.set
    BY <2>1 DEF FieldsOK, o
  <2>3. QED
    BY <1>1, <2>1, <2>2, AlternativesSeq
<1>3. /\ self[g].cache = None /\ self[g].statCache = None /\ self[g]._processing = 0
      /\ out[g].ends = 0
  BY <1>1 DEF OnceInv, OnceAt, FreshInv
<1>4. /\ out'[g].started /\ out'[g].ends = 0
      /\ \A h \in Globs : h # g => Quietly(h)
  BY <1>1, <1>2, <1>3 DEF SeenOK, Quietly
<1>5. c.fn.name = "done" /\ c.fn.g = g
  BY DEF Done, Call
<1>6. \A k \in DOMAIN set : /\ p[k].fn.name = "_process" /\ p[k].fn.g = g
                            /\ p[k].fn.pattern = set[k] /\ ~p[k].fn.inGlobStar
  BY DEF Process, Call
<1>7. /\ DOMAIN set = 1..Len(set) /\ Len(set) \in Nat /\ (set # <<>> => Len(set) > 0)
      /\ IsSeq(p) /\ Len(p) = Len(set) /\ DOMAIN p = 1..Len(set)
  <2>1. DOMAIN set = 1..Len(set) /\ Len(set) \in Nat /\ (set # <<>> => Len(set) > 0)
    BY <1>2, SeqDomain
  <2> HIDE DEF set
  <2>2. IsSeq(p) /\ Len(p) = Len(set) /\ DOMAIN p = 1..Len(set)
    BY <2>1, SeqMade
  <2>3. QED
    BY <2>1, <2>2
<1>8. Extra(g)' = IF set = <<>> THEN 1 ELSE 0
  BY <1>1, <1>4 DEF Extra
<1>9. hasty(g)' <=> hasty(g)
  BY <1>1, PatternsSame
<1> HIDE DEF set, t, p, c
<1>10. \A j \in DOMAIN t : /\ t[j].fn.name \in {"_process", "done"} /\ t[j].fn.g = g
                           /\ t[j].fn.name = "_process" => ~t[j].fn.inGlobStar
  BY <1>1, <1>5, <1>6, <1>7, SeqOne
<1>11. ASSUME NEW h \in Globs, h # g PROVE OnceAt(h)'
  <2>1. Normal(t, h) /\ ~Coming(t, h)
    BY <1>10, <1>11 DEF Normal, Coming
  <2>2. QED
    BY <1>1, <1>4, <1>11, <2>1, WakesOnce DEF t
<1>12. FreshInv(g)'
  BY <1>4 DEF FreshInv
<1>13. WorkInv(g)'
  <2>1. CASE set = <<>>
    BY <1>1, <1>3, <1>8, <2>1 DEF WorkInv
  <2>2. CASE set # <<>>
    <3>1. 1 \in DOMAIN t /\ t[1].fn.name = "_process" /\ t[1].fn.g = g
      BY <1>1, <1>6, <1>7, <2>2
    <3>2. Coming(t, g)
      BY <3>1 DEF Coming
    <3>3. QED
      BY <3>2 DEF WorkInv, t
  <2>3. QED
    BY <2>1, <2>2
<1>14. EmptyInv(g)'
  <2>1. set' = set
    BY <1>1 DEF set
  <2>2. QED
    BY <1>1, <1>3, <2>1 DEF EmptyInv, set, t, c
<1>15. EndInv(g)'
  <2>1. CASE set = <<>>
    <3>1. t = <<c>>
      BY <1>1, <2>1
    <3>2. Normal(t, g)
      BY <1>5, <3>1, SeqOne DEF Normal
    <3>3. QED
      BY <1>4, <3>2 DEF EndInv, t
  <2>2. CASE Len(set) = 1
    <3>1. t = p /\ Len(t) = 1
      BY <1>1, <1>7, <2>2, SeqNone
    <3>2. Normal(t, g)
      BY <1>10, <3>1 DEF Normal
    <3>3. QED
      BY <1>4, <3>2 DEF EndInv, t
  <2>3. CASE Len(set) > 1
    <3>1. set # <<>> /\ t = p
      BY <1>1, <2>3, SeqNone
    <3>2. t # <<>> /\ Head(t) = p[1] /\ 1 \in DOMAIN set
      BY <1>7, <2>3, <3>1, SeqTail, SeqNone
    <3>3. /\ Fn'.name = "_process" /\ Fn'.pattern = self'[g].minimatch.set[1]
          /\ Len(self'[g].minimatch.set) > 1
      BY <1>1, <1>6, <2>3, <3>2 DEF Fn, t, set
    <3>4. \A j \in DOMAIN t : EarlyOK(t[j].fn, g)
      <4>1. ASSUME NEW j \in DOMAIN t PROVE EarlyOK(t[j].fn, g)
        BY <1>10 DEF EarlyOK
      <4>2. QED
        BY <4>1
    <3>5. ~self'[g].aborted /\ ~self'[g].paused /\ self'[g].cache = None /\ self'[g].statCache = None
      BY <1>1, <1>2, <1>3
    <3>6. Starting(g)'
      BY <3>2, <3>3, <3>4, <3>5 DEF Starting, t
    <3>7. QED
      BY <1>4, <3>6 DEF EndInv
  <2>4. QED
    BY <1>2, <1>7, <2>1, <2>2, <2>3
<1>16. OnceAt(g)'
  BY <1>12, <1>13, <1>14, <1>15 DEF OnceAt
<1>17. QED
  BY <1>1, <1>11, <1>16, PatternsSame DEF OnceInv

LEMMA StutterOnce == ASSUME OnceInv, UNCHANGED vars PROVE OnceInv'
<1>1. UNCHANGED <<search, self, out, stack>>
  BY DEF vars
<1>2. Globs' = Globs /\ \A h : Extra(h)' = Extra(h) /\ (hasty(h)' <=> hasty(h)) /\ o(h)' = o(h)
  BY <1>1 DEF Globs, Extra, hasty, o
<1>3. ASSUME NEW h \in Globs PROVE OnceAt(h)'
  <2>1. FreshInv(h)' <=> FreshInv(h)
    BY <1>1 DEF FreshInv
  <2>2. WorkInv(h)' <=> WorkInv(h)
    BY <1>1, <1>2 DEF WorkInv
  <2>3. EmptyInv(h)' <=> EmptyInv(h)
    BY <1>1 DEF EmptyInv
  <2>4. Starting(h)' <=> Starting(h)
    BY <1>1 DEF Starting, Fn
  <2>5. EndInv(h)' <=> EndInv(h)
    BY <1>1, <1>2, <2>4 DEF EndInv
  <2>6. QED
    BY <1>2, <2>1, <2>2, <2>3, <2>5 DEF OnceInv, OnceAt
<1>4. QED
  BY <1>2, <1>3 DEF OnceInv

LEMMA InitOnce == ASSUME Init PROVE OnceInv
<1>1. /\ self = [g \in Globs |-> Glob0(o(g))] /\ out = [g \in Globs |-> Out0] /\ stack = <<>>
  BY DEF Init
<1>2. ASSUME NEW g \in Globs PROVE OnceAt(g)
  <2>1. out[g].started = FALSE /\ out[g].ends = 0
    BY <1>1 DEF Out0
  <2>2. self[g].cache = None /\ self[g].statCache = None /\ self[g]._processing = 0
    <3> DEFINE s == setopts(o(g))
               more == [_processing |-> 0, _emitQueue |-> <<>>, _processQueue |-> <<>>,
                        paused |-> FALSE, aborted |-> FALSE]
    <3>1. /\ DOMAIN s = {"minimatch", "ignore", "matches", "cache", "statCache", "symlinks"}
          /\ s.cache = None /\ s.statCache = None
      BY DEF setopts
    <3>2. "_processing" \in DOMAIN more /\ more._processing = 0
      OBVIOUS
    <3>3. self[g] = [f \in DOMAIN s \cup DOMAIN more |-> IF f \in DOMAIN s THEN s[f] ELSE more[f]]
      BY <1>1 DEF Glob0
    <3> HIDE DEF s, more
    <3>4. QED
      BY <3>1, <3>2, <3>3
  <2>3. Normal(stack, g)
    BY <1>1, NoCalls
  <2>4. QED
    BY <2>1, <2>2, <2>3 DEF OnceAt, FreshInv, WorkInv, EmptyInv, EndInv
<1>3. QED
  BY <1>2 DEF OnceInv

LEMMA NextOnce == ASSUME IInv, IInv', OnceInv, [Next]_vars PROVE OnceInv'
<1> USE DEF IInv
<1>1. CASE JavaScript
  <2>1. CASE Uncount
    BY <2>1, UncountOnce
  <2>2. CASE _process
    BY <2>2, ProcessOnce
  <2>3. CASE _processReaddir2
    BY <2>3, ProcessReaddir2Once
  <2>4. CASE _processGlobStar2
    BY <2>4, ProcessGlobStar2Once
  <2>5. CASE _processSimple2
    BY <2>5, ProcessSimple2Once
  <2>6. CASE _emitMatch
    BY <2>6, EmitMatchOnce
  <2>7. CASE Heard
    BY <2>7, HeardOnce
  <2>8. CASE done
    BY <2>8, DoneOnce
  <2>9. CASE _readdir
    BY <2>9, ReaddirOnce
  <2>10. CASE _readdirInGlobStar
    BY <2>10, ReaddirInGlobStarOnce
  <2>11. CASE lstatcb
    BY <2>11, LstatcbOnce
  <2>12. CASE readdirCb
    BY <2>12, ReaddirCbOnce
  <2>13. CASE _stat
    BY <2>13, StatOnce
  <2>14. CASE statcb
    BY <2>14, StatcbOnce
  <2>15. CASE targetcb
    BY <2>15, TargetcbOnce
  <2>16. CASE RES_
    BY <2>16, ResOnce
  <2>17. CASE cleanup
    BY <2>17, CleanupOnce
  <2>18. QED
    BY <1>1, <2>1, <2>2, <2>3, <2>4, <2>5, <2>6, <2>7, <2>8, <2>9, <2>10, <2>11, <2>12,
       <2>13, <2>14, <2>15, <2>16, <2>17 DEF JavaScript
<1>2. CASE Tick
  BY <1>2, TickOnce
<1>3. CASE Answers
  BY <1>3, AnswersOnce
<1>4. CASE Callers
  <2>1. PICK g \in Globs : Glob(g) \/ abort(g) \/ pause(g) \/ resume(g)
    BY <1>4 DEF Callers
  <2>2. QED
    BY <2>1, GlobOnce, AbortOnce, PauseOnce, ResumeOnce
<1>5. CASE UNCHANGED vars
  BY <1>5, StutterOnce
<1>6. QED
  BY <1>1, <1>2, <1>3, <1>4, <1>5 DEF Next

(* A search that has not ended has work to come; and when it has ended,    *)
(* nothing is left to come (but for a search that is hasty).               *)
THEOREM EndsRight == Spec => []OnceInv
<1>1. Init => OnceInv
  BY InitOnce
<1>2. IInv /\ IInv' /\ OnceInv /\ [Next]_vars => OnceInv'
  BY NextOnce
<1>3. QED
  BY <1>1, <1>2, CountsRight, PTL DEF Spec

\* The steps of a search that are owed are those that the property speaks of.
LEMMA OwedOwes ==
    ASSUME TypeInv, stack = <<>>, NEW g
    PROVE  Owed(g) = Owing(Step(g)) + Len(self[g]._processQueue)
<1> DEFINE x == Step(g)
<1>1. \A key : Asked(key) # x
  BY Tokens
<1>2. ASSUME NEW fn, FnOK(fn, Running), fn.name \in WaitNames \cup AskNames
      PROVE  x \in Debts(fn) <=> owes(fn, g)
  <2>1. CASE fn.name = "RES"
    <3>1. Debts(fn) = {Asked(fn.key)}
      BY <2>1 DEF Debts
    <3>2. QED
      BY <1>1, <2>1, <3>1 DEF owes
  <2>2. CASE fn.name \in {"lstatcb", "readdirCb"}
    <3>1. Debts(fn) = {Asked(fn.cb.key)}
      BY <2>2 DEF Debts
    <3>2. QED
      BY <1>1, <2>2, <3>1 DEF owes
  <2>3. CASE fn.name \in {"_processReaddir2", "_processGlobStar2", "statcb", "targetcb"}
    <3>1. Debts(fn) = {Step(fn.g)}
      BY <2>3 DEF Debts
    <3>2. QED
      BY <2>3, <3>1, Tokens DEF owes
  <2>4. QED
    BY <1>2, <2>1, <2>2, <2>3 DEF WaitNames, AskNames
<1> HIDE DEF x
<1>3. Waiters(stack, reqs, x) = {w \in Waiting : owes(callback(w), g)}
  <2>1. Waiting = Places(reqs)
    BY DEF Waiting, Places
  <2>2. \A w : ~Answered(stack, w)
    BY SeqNone DEF Answered
  <2>3. \A w \in Places(reqs) : x \in Debts(reqs[w[1]][w[2]]) <=> owes(reqs[w[1]][w[2]], g)
    BY <1>2 DEF TypeInv, ReqsInv, WaitOK
  <2>4. QED
    BY <2>1, <2>2, <2>3 DEF Waiters, callback
<1>4. Callees(pending, x) = {c \in Calling : owes(c[1].cb, g)}
  <2>1. Calling = Copies(pending)
    BY DEF Calling, Copies
  <2>2. \A c \in Copies(pending) : c[1] \in DOMAIN pending
    BY DEF Copies
  <2>3. \A c \in Copies(pending) : x \in Debts(c[1].cb) <=> owes(c[1].cb, g)
    BY <1>2, <2>2 DEF TypeInv, PendingInv, AskOK
  <2>4. QED
    BY <2>1, <2>3 DEF Callees
<1>5. InCalls(ticks, x) = 0
  <2>1. ASSUME NEW k \in DOMAIN ticks PROVE x \notin Debts(ticks[k].fn)
    <3>1. ticks[k].fn.name = "RES"
      BY DEF TypeInv, TicksInv
    <3>2. Debts(ticks[k].fn) = {Asked(ticks[k].fn.key)}
      BY <3>1 DEF Debts
    <3>3. QED
      BY <1>1, <3>2
  <2>2. QED
    BY <2>1, InNobody
<1>6. InCalls(stack, x) = 0
  BY InNone
<1>7. Owed(g) = InReqs(stack, reqs, x) + InBag(pending, x) + Len(self[g]._processQueue)
  BY <1>3, <1>4 DEF Owed, InReqs, InBag
<1>8. QED
  BY <1>5, <1>6, <1>7, Numbers DEF Owing, Num, x

(* When nothing runs, a search that was not aborted counts in _processing  *)
(* just the steps that will still call done(); if there are none it has    *)
(* ended; and it ends once, and not before, unless its first alternative   *)
(* is ignored.                                                             *)
THEOREM AccountingAlways == Spec => []Accounting
<1>1. ASSUME IInv, OnceInv PROVE Accounting
  <2>1. SUFFICES ASSUME stack = <<>>, NEW g \in Globs, out[g].started, ~self[g].aborted
                 PROVE  /\ self[g]._processing = Owed(g) - IF self[g].minimatch.set = <<>> THEN 1 ELSE 0
                        /\ Owed(g) = 0 => out[g].ends > 0
                        /\ ~hasty(g) => out[g].ends = IF Owed(g) = 0 THEN 1 ELSE 0
    BY DEF Accounting
  <2> DEFINE n == Owed(g)
             p == self[g]._processing
             e == Extra(g)
             m == Owing(Step(g))
             l == Len(self[g]._processQueue)
             ends == out[g].ends
  <2>2. n = m + l /\ m \in Nat /\ l \in Nat /\ ends \in Nat
    <3>1. FieldsOK(g, self[g]) /\ SeenOK(out[g])
      BY <1>1 DEF IInv, TypeInv, SelfInv
    <3>2. n = m + l /\ m \in Nat
      BY <1>1, <2>1, OwedOwes, Numbers DEF IInv
    <3>3. l \in Nat
      BY <3>1, SeqDomain DEF FieldsOK, Again
    <3>4. QED
      BY <3>1, <3>2, <3>3 DEF SeenOK
  <2>3. e = IF self[g].minimatch.set = <<>> THEN 1 ELSE 0
    BY <2>1 DEF Extra
  <2>4. p = m + l - e
    BY <1>1, <2>1 DEF IInv, CountInv, StepLaw
  <2>5. OnceAt(g) /\ ~Coming(stack, g)
    BY <1>1, <2>1, NoCalls DEF OnceInv
  <2>6. ends = 0 => p + e > 0
    BY <2>1, <2>5 DEF OnceAt, WorkInv
  <2>7. ~hasty(g) /\ ends > 0 => ends = 1 /\ p + e = 0
    BY <2>1, <2>5 DEF OnceAt, EndInv
  <2>8. e \in {0, 1}
    BY DEF Extra
  <2> HIDE DEF n, p, e, m, l, ends
  <2>9. p = n - e /\ (n = 0 => ends > 0) /\ (~hasty(g) => ends = IF n = 0 THEN 1 ELSE 0)
    BY <2>2, <2>4, <2>6, <2>7, <2>8
  <2>10. QED
    BY <2>3, <2>9 DEF n, p, ends
<1>2. QED
  BY <1>1, CountsRight, EndsRight, PTL
=============================================================================
