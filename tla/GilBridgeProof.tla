---------------------------- MODULE GilBridgeProof ----------------------------
(***************************************************************************)
(* Proofs about GilBridge, for any number of Python threads and any        *)
(* nesting of calls and callbacks.                                         *)
(***************************************************************************)
EXTENDS GilBridge, SequenceTheorems, TLAPS

-----------------------------------------------------------------------------
(* What the three operations on a stack do to its top and to its nesting.  *)

(* Calling puts a frame on a frame that may lie below it (Call, CallHeld). *)
LEMMA PushNests ==
    ASSUME NEW s \in Seq(Frame), Len(s) > 0, WellNested(s),
           NEW f \in Frame, s[Len(s)] \in RestsOn(f)
    PROVE  LET p == Append(s, f)
           IN  /\ p \in Seq(Frame)
               /\ Len(p) = Len(s) + 1
               /\ p[Len(p)] = f
               /\ WellNested(p)
<1> DEFINE p == Append(s, f)
<1>1. /\ p \in Seq(Frame)
      /\ Len(p) = Len(s) + 1
      /\ \A i \in 1..Len(s) : p[i] = s[i]
      /\ p[Len(s) + 1] = f
  BY AppendProperties
<1>2. WellNested(p)
  <2>1. Len(s) \in Nat
    BY LenProperties
  <2>2. p[1] \in {"python", "loop"}
    BY <1>1, <2>1 DEF WellNested
  <2>3. ASSUME NEW i \in 2..Len(p)
        PROVE  p[i - 1] \in RestsOn(p[i])
    <3>1. CASE i = Len(s) + 1
      BY <3>1, <1>1, <2>1
    <3>2. CASE i # Len(s) + 1
      <4>1. i \in 2..Len(s) /\ i - 1 \in 1..Len(s) /\ i \in 1..Len(s)
        BY <3>2, <1>1, <2>1
      <4>2. p[i] = s[i] /\ p[i - 1] = s[i - 1]
        BY <4>1, <1>1
      <4>3. QED
        BY <4>1, <4>2 DEF WellNested
    <3>3. QED
      BY <3>1, <3>2
  <2>4. QED
    BY <2>2, <2>3 DEF WellNested
<1>3. QED
  BY <1>1, <1>2

(* Returning uncovers the frame below (Return, ReturnHeld, ReturnBack).    *)
LEMMA PopNests ==
    ASSUME NEW s \in Seq(Frame), Len(s) > 1, WellNested(s)
    PROVE  LET p == SubSeq(s, 1, Len(s) - 1)
           IN  /\ p \in Seq(Frame)
               /\ Len(p) = Len(s) - 1
               /\ p[Len(p)] = s[Len(s) - 1]
               /\ WellNested(p)
<1> DEFINE p == SubSeq(s, 1, Len(s) - 1)
<1>1. Len(s) \in Nat /\ \A i \in 1..Len(s) - 1 : s[i] \in Frame
  BY LenProperties, ElementOfSeq
<1>2. /\ p \in Seq(Frame)
      /\ Len(p) = Len(s) - 1
      /\ \A i \in 1..Len(s) - 1 : p[i] = s[i]
  BY <1>1, SubSeqProperties
<1>3. p[Len(p)] = s[Len(s) - 1]
  BY <1>1, <1>2
<1>4. WellNested(p)
  <2>1. p[1] = s[1]
    BY <1>1, <1>2
  <2>2. ASSUME NEW i \in 2..Len(p)
        PROVE  p[i - 1] = s[i - 1] /\ p[i] = s[i] /\ i \in 2..Len(s)
    BY <1>1, <1>2
  <2>3. QED
    BY <2>1, <2>2, <1>1 DEF WellNested
<1>5. QED
  BY <1>2, <1>3, <1>4

(* A frame moves on to its next part (Sent, Done, Close, ...).             *)
LEMMA GotoNests ==
    ASSUME NEW s \in Seq(Frame), Len(s) > 0, WellNested(s),
           NEW f \in Frame,
           Len(s) > 1 => RestsOn(f) = RestsOn(s[Len(s)]),
           Len(s) = 1 => f \in {"python", "loop"}
    PROVE  LET p == [s EXCEPT ![Len(s)] = f]
           IN  /\ p \in Seq(Frame)
               /\ Len(p) = Len(s)
               /\ p[Len(p)] = f
               /\ WellNested(p)
<1> DEFINE p == [s EXCEPT ![Len(s)] = f]
<1>1. Len(s) \in Nat /\ Len(s) \in 1..Len(s) /\ DOMAIN s = 1..Len(s)
  BY LenProperties
<1>2. p \in Seq(Frame) /\ Len(p) = Len(s)
  BY <1>1, ExceptSeq
<1>3. p[Len(s)] = f /\ \A i \in 1..Len(s) : i # Len(s) => p[i] = s[i]
  BY <1>1
<1>4. WellNested(p)
  <2>1. p[1] \in {"python", "loop"}
    <3>1. CASE Len(s) = 1
      BY <3>1, <1>3
    <3>2. CASE Len(s) # 1
      <4>1. 1 \in 1..Len(s) /\ 1 # Len(s)
        BY <3>2, <1>1
      <4>2. p[1] = s[1]
        BY <4>1, <1>3
      <4>3. QED
        BY <4>2, <1>1 DEF WellNested
    <3>3. QED
      BY <3>1, <3>2
  <2>2. ASSUME NEW i \in 2..Len(s)
        PROVE  p[i - 1] \in RestsOn(p[i])
    <3>1. p[i - 1] = s[i - 1]
      BY <1>1, <1>3
    <3>2. RestsOn(p[i]) = RestsOn(s[i])
      BY <1>1, <1>3
    <3>3. QED
      BY <3>1, <3>2 DEF WellNested
  <2>3. QED
    BY <2>1, <2>2, <1>2 DEF WellNested
<1>5. QED
  BY <1>2, <1>3, <1>4

-----------------------------------------------------------------------------
(* A step that changes the stack of one thread only leaves what the other  *)
(* threads are at.                                                         *)
LEMMA OthersStay ==
    ASSUME stack \in [Threads -> Seq(Frame)],
           NEW t \in Threads, NEW s \in Seq(Frame),
           stack' = [stack EXCEPT ![t] = s]
    PROVE  /\ stack' \in [Threads -> Seq(Frame)]
           /\ stack'[t] = s
           /\ \A u \in Threads \ {t} : stack'[u] = stack[u]
OBVIOUS

(* The whole invariant after such a step: it is enough to look at t.       *)
LEMMA OneThreadMoves ==
    ASSUME IInv, NEW t \in Threads, NEW s \in Seq(Frame), WellNested(s),
           stack' = [stack EXCEPT ![t] = s],
           gil' \in {gil, NoThread, t}, gil \in {t, NoThread} \/ gil' = gil,
           waiting' \in {waiting, waiting \cup {t}, waiting \ {t}},
           syncing' \in BOOLEAN, closed' \in BOOLEAN,
           t \in waiting' => gil' # t /\ Len(s) > 0 /\ s[Len(s)] = "python",
           gil' = t <=> (t \notin waiting' /\ Len(s) > 0 /\ s[Len(s)] \in KeepsGil)
    PROVE  IInv'
<1>1. /\ stack' \in [Threads -> Seq(Frame)]
      /\ stack'[t] = s
      /\ \A u \in Threads \ {t} : stack'[u] = stack[u]
  BY OthersStay DEF IInv, TypeOK
<1>2. NoThread \notin Threads
  BY ThreadsAssumption DEF Threads
<1>3. \A u \in Threads \ {t} : /\ u \in waiting' <=> u \in waiting
                              /\ gil' = u <=> gil = u
  BY <1>2
<1>4. \A u \in Threads \ {t} : WellNested(stack'[u]) /\ (Inside(u)' <=> gil' = u)
  BY <1>1, <1>3 DEF IInv, Inside, At, Top, Depth
<1>5. WellNested(stack'[t]) /\ (Inside(t)' <=> gil' = t)
  BY <1>1 DEF Inside, At, Top, Depth
<1>6. TypeOK'
  <2>1. \A u \in waiting' : gil' # u /\ At(u, {"python"})'
    BY <1>1, <1>3 DEF IInv, TypeOK, At, Top, Depth
  <2>2. QED
    BY <1>1, <2>1 DEF IInv, TypeOK
<1>7. (\A u \in Threads : WellNested(stack[u]))'
  BY <1>4, <1>5 DEF WellNested
<1>8. QED
  BY <1>4, <1>5, <1>6, <1>7 DEF IInv

-----------------------------------------------------------------------------
(* The steps, in the order of the module.                                  *)
USE DEF Native, Guarded, Queries, Listening, KeepsGil, Exchange, Direct, Frame

(* Stacks of no frame and of one: a thread that does not run, and one that *)
(* runs its own code.                                                      *)
LEMMA ShortStacks ==
    ASSUME NEW f \in Frame
    PROVE  /\ <<>> \in Seq(Frame) /\ Len(<<>>) = 0 /\ WellNested(<<>>)
           /\ <<f>> \in Seq(Frame) /\ Len(<<f>>) = 1 /\ <<f>>[1] = f
           /\ f \in {"python", "loop"} => WellNested(<<f>>)
BY DEF WellNested

(* At the start every Python thread runs or waits to, and no other thread  *)
(* exists.                                                                 *)
LEMMA InitInvariant == Init => IInv
<1> SUFFICES ASSUME Init PROVE IInv
  OBVIOUS
<1>1. stack \in [Threads -> Seq(Frame)] /\ \A t \in Threads : WellNested(stack[t])
  BY ShortStacks DEF Init
<1>2. stack[Syncer] = <<>> /\ \A t \in PyThreads : stack[t] = <<"python">>
  BY ThreadsAssumption DEF Init, Threads
<1>3. ~At(Syncer, KeepsGil)
  BY <1>2, ShortStacks DEF At, Depth
<1>4. \A t \in PyThreads : At(t, KeepsGil) /\ At(t, {"python"})
  <2>1. Len(<<"python">>) = 1 /\ <<"python">>[1] = "python"
    BY ShortStacks
  <2>2. \A t \in PyThreads : Len(stack[t]) = 1 /\ stack[t][1] = "python"
    BY <1>2, <2>1, Zenon
  <2>3. ASSUME NEW t \in PyThreads
        PROVE  At(t, KeepsGil) /\ At(t, {"python"})
    <3>1. Depth(t) > 0 /\ Top(t) = "python"
      BY <2>2 DEF Depth, Top
    <3>2. QED
      BY <3>1 DEF At
  <2>4. QED
    BY <2>3
<1>5. \A t \in waiting : gil # t /\ At(t, {"python"})
  BY <1>4 DEF Init
<1>6. \A t \in Threads : Inside(t) <=> gil = t
  BY <1>3, <1>4, ThreadsAssumption DEF Init, Inside, Threads
<1>7. QED
  BY <1>1, <1>5, <1>6 DEF Init, IInv, TypeOK, Threads

(* Entering a binding keeps the invariant: with the guard the GIL is freed *)
(* together with the frame that does not need it, without it kept.         *)
LEMMA CallInvariant ==
    ASSUME IInv, NEW t \in Threads, Call(t) \/ CallHeld(t)
    PROVE  IInv'
<1>1. PICK f \in Guarded \cup {"encode", "forward"} :
        /\ InPython(t)
        /\ Push(t, f)
        /\ waiting' = waiting /\ syncing' = syncing /\ closed' = closed
        /\ gil' = IF f \in Guarded THEN NoThread ELSE gil
  BY DEF Call, CallHeld, Push, Allowed
<1> DEFINE s == stack[t]
           p == Append(s, f)
<1>2. s \in Seq(Frame) /\ WellNested(s)
  BY DEF IInv, TypeOK
<1>3. gil = t /\ t \notin waiting /\ Len(s) > 0 /\ s[Len(s)] = "python"
  BY <1>1 DEF IInv, InPython, Inside, At, Top, Depth
<1>4. s[Len(s)] \in RestsOn(f) /\ f \in Frame
  BY <1>3 DEF RestsOn
<1>5. p \in Seq(Frame) /\ Len(p) = Len(s) + 1 /\ p[Len(p)] = f /\ WellNested(p)
  BY <1>2, <1>3, <1>4, PushNests
<1>6. stack' = [stack EXCEPT ![t] = p]
  BY <1>1 DEF Push
<1>7. gil' = t <=> f \in KeepsGil
  BY <1>1, <1>3, ThreadsAssumption DEF Threads
<1>8. Len(p) > 0
  BY <1>2, <1>5, LenProperties
<1> HIDE DEF s, p
<1>9. QED
  BY <1>1, <1>3, <1>5, <1>6, <1>7, <1>8, OneThreadMoves DEF IInv, TypeOK

(* A frame that ends is never the lowest one, and uncovers what it rests   *)
(* on.                                                                     *)
LEMMA EndOfFrame ==
    ASSUME IInv, NEW t \in Threads,
           \/ At(t, Frame \ {"python", "loop"})
           \/ At(t, {"python"}) /\ Depth(t) > 1
    PROVE  LET p == SubSeq(stack[t], 1, Len(stack[t]) - 1)
           IN  /\ p \in Seq(Frame) /\ WellNested(p)
               /\ Len(p) > 0
               /\ p[Len(p)] = Below(t) /\ p[Len(p)] \in RestsOn(Top(t))
<1> DEFINE s == stack[t]
           p == SubSeq(s, 1, Len(s) - 1)
<1>1. s \in Seq(Frame) /\ WellNested(s) /\ Len(s) \in Nat /\ Len(s) > 0
  BY LenProperties DEF IInv, TypeOK, At, Depth
<1>2. Len(s) > 1
  BY <1>1 DEF WellNested, At, Top, Depth
<1>3. s[Len(s) - 1] \in RestsOn(s[Len(s)])
  BY <1>1, <1>2 DEF WellNested
<1>4. /\ p \in Seq(Frame) /\ WellNested(p)
      /\ Len(p) = Len(s) - 1
      /\ p[Len(p)] = s[Len(s) - 1]
  BY <1>1, <1>2, PopNests
<1>5. QED
  BY <1>1, <1>2, <1>3, <1>4 DEF Below, Top, Depth

(* Leaving a guarded binding keeps it: the thread waits for the GIL.       *)
LEMMA ReturnInvariant ==
    ASSUME IInv, NEW t \in Threads, Return(t)
    PROVE  IInv'
<1> DEFINE p == SubSeq(stack[t], 1, Len(stack[t]) - 1)
<1>1. At(t, {"returning"}) /\ gil # t
  BY DEF Return, IInv, Inside, At
<1>2. /\ p \in Seq(Frame) /\ WellNested(p)
      /\ Len(p) > 0
      /\ p[Len(p)] \in RestsOn("returning")
  BY <1>1, EndOfFrame DEF At
<1>3. p[Len(p)] = "python"
  BY <1>2 DEF RestsOn
<1>4. /\ stack' = [stack EXCEPT ![t] = p]
      /\ gil' = gil /\ waiting' = waiting \cup {t}
      /\ syncing' = syncing /\ closed' = closed
  BY DEF Return, Pop
<1> HIDE DEF p
<1>5. QED
  BY <1>1, <1>2, <1>3, <1>4, OneThreadMoves DEF IInv, TypeOK

(* Leaving a binding without the guard keeps it: Python goes on.           *)
LEMMA ReturnHeldInvariant ==
    ASSUME IInv, NEW t \in Threads, ReturnHeld(t)
    PROVE  IInv'
<1> DEFINE p == SubSeq(stack[t], 1, Len(stack[t]) - 1)
<1>1. At(t, Exchange \cup Direct) /\ t \notin waiting /\ gil = t
  BY DEF ReturnHeld, IInv, TypeOK, Inside, At
<1>2. /\ p \in Seq(Frame) /\ WellNested(p)
      /\ Len(p) > 0
      /\ p[Len(p)] \in RestsOn(Top(t))
  BY <1>1, EndOfFrame DEF At
<1>3. p[Len(p)] = "python"
  BY <1>1, <1>2 DEF RestsOn, At
<1>4. /\ stack' = [stack EXCEPT ![t] = p]
      /\ gil' = gil /\ waiting' = waiting
      /\ syncing' = syncing /\ closed' = closed
  BY DEF ReturnHeld, Pop
<1> HIDE DEF p
<1>5. QED
  BY <1>1, <1>2, <1>3, <1>4, OneThreadMoves DEF IInv, TypeOK

(* Leaving an override keeps it: the GIL is freed unless the native caller *)
(* below had it before the trampoline did.                                 *)
LEMMA ReturnBackInvariant ==
    ASSUME IInv, NEW t \in Threads, ReturnBack(t)
    PROVE  IInv'
<1> DEFINE p == SubSeq(stack[t], 1, Len(stack[t]) - 1)
<1>1. At(t, {"python"}) /\ Depth(t) > 1 /\ t \notin waiting /\ gil = t
  BY DEF ReturnBack, InPython, IInv, Inside, At
<1>2. /\ p \in Seq(Frame) /\ WellNested(p)
      /\ Len(p) > 0
      /\ p[Len(p)] = Below(t) /\ p[Len(p)] \in RestsOn("python")
  BY <1>1, EndOfFrame DEF At
<1>3. Below(t) \in {"returning", "sync", "loop", "forwarded"}
  BY <1>2 DEF RestsOn
<1>4. /\ stack' = [stack EXCEPT ![t] = p]
      /\ gil' = IF Below(t) \in Direct THEN gil ELSE NoThread
      /\ waiting' = waiting /\ syncing' = syncing /\ closed' = closed
  BY DEF ReturnBack, Pop
<1>5. gil' = t <=> Below(t) \in KeepsGil
  BY <1>1, <1>3, <1>4, ThreadsAssumption DEF Threads
<1> HIDE DEF p
<1>6. QED
  BY <1>1, <1>2, <1>4, <1>5, OneThreadMoves DEF IInv, TypeOK

(* A guarded body, or a request, that moves on to its next part.           *)
LEMMA MovesOnInvariant ==
    ASSUME IInv, NEW t \in Threads, NEW f \in Frame,
           \/ At(t, Guarded \cup {"join"}) /\ f \in {"join", "returning"}
           \/ At(t, Exchange) /\ f \in Exchange,
           Goto(t, f),
           gil' = gil, waiting' = waiting, syncing' \in BOOLEAN, closed' \in BOOLEAN
    PROVE  IInv'
<1> DEFINE s == stack[t]
           p == [s EXCEPT ![Len(s)] = f]
<1>1. /\ s \in Seq(Frame) /\ WellNested(s)
      /\ Len(s) \in Nat /\ Len(s) > 0
      /\ s[Len(s)] \in Guarded \cup {"join"} \cup Exchange
  BY LenProperties DEF IInv, TypeOK, At, Top, Depth
<1>2. Len(s) # 1
  BY <1>1 DEF WellNested
<1>3. RestsOn(f) = {"python"} /\ RestsOn(s[Len(s)]) = {"python"}
  BY <1>1 DEF RestsOn
<1>4. p \in Seq(Frame) /\ WellNested(p) /\ Len(p) = Len(s) /\ p[Len(p)] = f
  BY ZenonT(60), <1>1, <1>2, <1>3, GotoNests
<1>5. stack' = [stack EXCEPT ![t] = p]
  BY DEF Goto
<1>6. t \notin waiting
  BY <1>1 DEF IInv, TypeOK, At, Top, Depth
<1>7. gil = t <=> f \in KeepsGil
  BY <1>6 DEF IInv, Inside, At, Top, Depth
<1> HIDE DEF s, p
<1>8. QED
  BY <1>1, <1>4, <1>5, <1>6, <1>7, OneThreadMoves DEF IInv, TypeOK

(* A trampoline puts "python" on what the native caller will do next.      *)
LEMMA CallBackInvariant ==
    ASSUME IInv, NEW t \in Threads, CallBack(t)
    PROVE  IInv'
<1> DEFINE s == stack[t]
           f == AfterCallBack(Top(t))
           r == [s EXCEPT ![Len(s)] = f]
           p == Append(r, "python")
<1>1. /\ s \in Seq(Frame) /\ WellNested(s)
      /\ Len(s) \in Nat /\ Len(s) > 0
      /\ Top(t) = s[Len(s)] /\ s[Len(s)] \in CallsBack
  BY LenProperties DEF CallBack, IInv, TypeOK, At, Top, Depth
<1>2. /\ f \in {"returning", "sync", "loop", "forwarded"}
      /\ RestsOn(f) = RestsOn(s[Len(s)])
      /\ s[Len(s)] = "loop" => f = "loop"
      /\ f \in KeepsGil <=> s[Len(s)] \in KeepsGil
  BY <1>1 DEF AfterCallBack, CallsBack, RestsOn
<1>3. Len(s) = 1 => f = "loop"
  BY <1>1, <1>2 DEF WellNested, CallsBack
<1>4. r \in Seq(Frame) /\ WellNested(r) /\ Len(r) = Len(s) /\ r[Len(r)] = f
  BY <1>1, <1>2, <1>3, GotoNests
<1>5. r[Len(r)] \in RestsOn("python") /\ Len(r) > 0
  BY <1>1, <1>2, <1>4 DEF RestsOn
<1>6. p \in Seq(Frame) /\ WellNested(p) /\ Len(p) = Len(r) + 1 /\ p[Len(p)] = "python"
  <2> HIDE DEF r
  <2>1. QED
    BY <1>4, <1>5, PushNests
<1>7. Len(p) > 0
  BY <1>1, <1>4, <1>6
<1>8. t \notin waiting
  BY <1>1 DEF IInv, TypeOK, At, Top, Depth, CallsBack
<1>9. /\ stack' = [stack EXCEPT ![t] = p]
      /\ gil' = gil
      /\ waiting' = IF gil = t THEN waiting ELSE waiting \cup {t}
      /\ syncing' = syncing /\ closed' = closed
  BY DEF CallBack
<1> HIDE DEF s, f, r, p
<1>10. QED
  BY <1>6, <1>7, <1>8, <1>9, OneThreadMoves DEF IInv, TypeOK

(* The interpreter's own steps leave the stacks alone.                     *)
LEMMA SwitchInvariant ==
    ASSUME IInv, NEW t \in Threads, Acquire(t) \/ Yield(t)
    PROVE  IInv'
<1>1. NoThread \notin Threads
  BY ThreadsAssumption DEF Threads
<1>2. At(t, {"python"}) /\ At(t, KeepsGil)
  BY DEF IInv, TypeOK, Acquire, Yield, InPython, At
<1>3. \A u \in Threads : \A F : At(u, F)' <=> At(u, F)
  BY DEF Acquire, Yield, At, Top, Depth
<1>4. TypeOK'
  BY <1>1, <1>2, <1>3 DEF IInv, TypeOK, Acquire, Yield, Inside
<1>5. \A u \in Threads : Inside(u)' <=> gil' = u
  <2>1. CASE Acquire(t)
    BY <2>1, <1>1, <1>2, <1>3 DEF IInv, TypeOK, Acquire, Inside
  <2>2. CASE Yield(t)
    BY <2>2, <1>1, <1>2, <1>3 DEF IInv, TypeOK, Yield, Inside, InPython
  <2>3. QED
    BY <2>1, <2>2
<1>6. (\A u \in Threads : WellNested(stack[u]))'
  BY DEF IInv, Acquire, Yield, WellNested
<1>7. QED
  BY <1>4, <1>5, <1>6 DEF IInv

(* The background thread comes and goes outside Python.                    *)
LEMMA LoopExitInvariant ==
    ASSUME IInv, LoopExit
    PROVE  IInv'
<1>1. Syncer \in Threads
  BY DEF Threads
<1>2. <<>> \in Seq(Frame) /\ WellNested(<<>>) /\ Len(<<>>) = 0
  BY ShortStacks
<1>3. Len(<<"loop">>) = 1 /\ <<"loop">>[1] = "loop"
  BY ShortStacks
<1>4. Len(stack[Syncer]) = 1 /\ stack[Syncer][1] = "loop"
  BY <1>3, Zenon DEF LoopExit
<1>5. gil # Syncer /\ Syncer \notin waiting
  BY <1>1, <1>4 DEF IInv, TypeOK, Inside, At, Top, Depth
<1> DEFINE s == <<>>
<1>6. /\ stack' = [stack EXCEPT ![Syncer] = s]
      /\ s \in Seq(Frame) /\ WellNested(s) /\ ~(Len(s) > 0)
      /\ gil' = gil /\ waiting' = waiting /\ syncing' = syncing /\ closed' = closed
  BY <1>2 DEF LoopExit
<1> HIDE DEF s
<1>7. QED
  BY <1>1, <1>2, <1>5, <1>6, OneThreadMoves DEF IInv, TypeOK

(* Starting the background thread keeps it: it starts without the GIL.     *)
LEMMA StartSyncingInvariant ==
    ASSUME IInv, NEW t \in PyThreads, StartSyncing(t)
    PROVE  IInv'
<1> DEFINE s == stack[t]
           p == [s EXCEPT ![Len(s)] = "returning"]
           q == IF stack[Syncer] = <<>> /\ ~closed THEN <<"loop">> ELSE stack[Syncer]
<1>1. t \in Threads /\ Syncer \in Threads /\ t # Syncer
  BY ThreadsAssumption DEF Threads
<1>2. /\ s \in Seq(Frame) /\ WellNested(s)
      /\ Len(s) \in Nat /\ Len(s) > 0
      /\ s[Len(s)] = "start_syncing"
  BY <1>1, LenProperties DEF StartSyncing, IInv, TypeOK, At, Top, Depth
<1>3. Len(s) # 1 /\ RestsOn("returning") = RestsOn(s[Len(s)])
  BY <1>2 DEF WellNested, RestsOn
<1>4. p \in Seq(Frame) /\ WellNested(p) /\ Len(p) = Len(s) /\ p[Len(p)] = "returning"
  BY <1>2, <1>3, GotoNests
<1>5. q \in Seq(Frame) /\ WellNested(q)
  BY <1>1, ShortStacks DEF IInv, TypeOK
<1>6. /\ stack' = [stack EXCEPT ![t] = p, ![Syncer] = q]
      /\ gil' = gil /\ waiting' = waiting /\ syncing' \in BOOLEAN /\ closed' = closed
  BY <1>1 DEF StartSyncing, IInv, TypeOK
<1>7. /\ stack' \in [Threads -> Seq(Frame)]
      /\ stack'[t] = p /\ stack'[Syncer] = q
      /\ \A u \in Threads \ {t, Syncer} : stack'[u] = stack[u]
  BY <1>1, <1>4, <1>5, <1>6 DEF IInv, TypeOK
<1>8. ~At(t, KeepsGil) /\ ~At(t, KeepsGil)' /\ ~At(t, {"python"})
  <2>1. p[Len(p)] \notin KeepsGil
    BY <1>4
  <2>2. QED
    BY <1>2, <1>7, <2>1 DEF At, Top, Depth
<1>9. \A F \in {KeepsGil, {"python"}} : At(Syncer, F)' <=> At(Syncer, F)
  <2>1. CASE q = stack[Syncer]
    BY <2>1, <1>7 DEF At, Top, Depth
  <2>2. CASE q # stack[Syncer]
    <3>1. Len(stack[Syncer]) = 0 /\ stack'[Syncer] = <<"loop">>
      BY <2>2, <1>7, ShortStacks
    <3>2. Len(<<"loop">>) = 1 /\ <<"loop">>[1] = "loop"
      BY ShortStacks
    <3>3. Len(stack'[Syncer]) = 1 /\ stack'[Syncer][1] = "loop"
      BY <3>1, <3>2, Zenon
    <3>4. QED
      BY <3>1, <3>3 DEF At, Top, Depth
  <2>3. QED
    BY <2>1, <2>2
<1> HIDE DEF s, p, q
<1>10. \A u \in Threads : \A F \in {KeepsGil, {"python"}} : At(u, F) => At(u, F)'
  BY <1>7, <1>8, <1>9 DEF At, Top, Depth
<1>11. \A u \in Threads : Inside(u)' <=> gil' = u
  BY <1>6, <1>7, <1>8, <1>9 DEF IInv, Inside, At, Top, Depth
<1>12. TypeOK'
  BY <1>6, <1>7, <1>10 DEF IInv, TypeOK
<1>13. (\A u \in Threads : WellNested(stack[u]))'
  BY <1>4, <1>5, <1>7 DEF IInv, WellNested
<1>14. QED
  BY <1>11, <1>12, <1>13 DEF IInv

(* Every step keeps it.                                                    *)
LEMMA NextInvariant == IInv /\ [Next]_vars => IInv'
<1> SUFFICES ASSUME IInv, [Next]_vars PROVE IInv'
  OBVIOUS
<1>1. CASE UNCHANGED vars
  BY <1>1 DEF vars, IInv, TypeOK, WellNested, Inside, At, Top, Depth
<1>2. ASSUME NEW t \in Threads, Call(t) \/ CallHeld(t)
      PROVE  IInv'
  BY <1>2, CallInvariant
<1>3. ASSUME NEW t \in Threads, Return(t) \/ ReturnHeld(t) \/ ReturnBack(t)
      PROVE  IInv'
  BY <1>3, ReturnInvariant, ReturnHeldInvariant, ReturnBackInvariant
<1>4. ASSUME NEW t \in Threads, Sent(t) \/ Received(t)
      PROVE  IInv'
  <2>1. PICK f \in Exchange : At(t, Exchange) /\ Goto(t, f)
    BY <1>4 DEF Sent, Received, At
  <2>2. gil' = gil /\ waiting' = waiting /\ syncing' \in BOOLEAN /\ closed' \in BOOLEAN
    BY <1>4 DEF Sent, Received, IInv, TypeOK
  <2>3. QED
    BY <2>1, <2>2, MovesOnInvariant
<1>5. ASSUME NEW t \in Threads,
             Done(t) \/ ListenersDone(t) \/ StopSyncing(t) \/ Close(t) \/ Joined(t)
      PROVE  IInv'
  <2>1. PICK f \in {"join", "returning"} : At(t, Guarded \cup {"join"}) /\ Goto(t, f)
    BY <1>5 DEF Done, ListenersDone, StopSyncing, Close, Joined, At
  <2>2. gil' = gil /\ waiting' = waiting /\ syncing' \in BOOLEAN /\ closed' \in BOOLEAN
    BY <1>5 DEF Done, ListenersDone, StopSyncing, Close, Joined, IInv, TypeOK
  <2>3. QED
    BY <2>1, <2>2, MovesOnInvariant
<1>6. ASSUME NEW t \in Threads, CallBack(t) \/ Acquire(t) \/ Yield(t)
      PROVE  IInv'
  BY <1>6, CallBackInvariant, SwitchInvariant
<1>7. ASSUME NEW t \in PyThreads, StartSyncing(t)
      PROVE  IInv'
  BY <1>7, StartSyncingInvariant
<1>8. PyThreads \subseteq Threads
  BY DEF Threads
<1>9. QED
  BY <1>1, <1>2, <1>3, <1>4, <1>5, <1>6, <1>7, <1>8, LoopExitInvariant DEF Next

(* The strengthened invariant holds in every reachable state.              *)
THEOREM Invariance == SafetySpec => []IInv
BY InitInvariant, NextInvariant, PTL DEF SafetySpec

(* Every thread's stack keeps its frames, and the GIL has one owner at most. *)
THEOREM TypeCorrect == SafetySpec => []TypeOK
<1>1. IInv => TypeOK
  BY DEF IInv
<1>2. QED
  BY <1>1, Invariance, PTL

(* Native bodies wait outside the interpreter's lock, so that close and the *)
(* listener calls cannot keep a callback from it.                          *)
THEOREM NativeWithoutLock == SafetySpec => []NativeWithoutGil
<1>1. IInv => NativeWithoutGil
  BY DEF IInv, NativeWithoutGil, Inside, At
<1>2. QED
  BY <1>1, Invariance, PTL

(* The interpreter is used under its lock, however many threads and however *)
(* deep the calls nest.                                                    *)
THEOREM GilSafety == SafetySpec => []PythonUnderGil
<1>1. IInv => PythonUnderGil
  BY DEF IInv, PythonUnderGil, Inside, At
<1>2. QED
  BY <1>1, Invariance, PTL

-----------------------------------------------------------------------------
(* The refinement: what a step does to the owner and to the waiting.       *)
inside == {t \in Threads : Inside(t)}

(* In every reachable state the owner of the GIL is the one thread inside. *)
LEMMA InsideIsOwner ==
    ASSUME IInv
    PROVE  /\ gil \in Threads => inside = {gil}
           /\ gil = NoThread => inside = {}
           /\ NoThread \notin Threads
BY ThreadsAssumption DEF IInv, inside, Threads

(* A step of one thread is a step of the critical section, or none.        *)
LEMMA StepRefines ==
    ASSUME IInv, IInv', NEW t \in Threads,
           \/ gil' = gil /\ waiting' = waiting
           \/ gil' = gil /\ gil # t /\ t \notin waiting /\ waiting' = waiting \cup {t}
           \/ gil = t /\ gil' = NoThread /\ waiting' = waiting
           \/ gil = NoThread /\ gil' = t /\ t \in waiting /\ waiting' = waiting \ {t}
           \/ gil = t /\ gil' = NoThread /\ waiting # {} /\ waiting' = waiting \cup {t}
    PROVE  [Python!Next]_<<inside, waiting>>
<1>1. /\ gil \in Threads => inside = {gil}
      /\ gil = NoThread => inside = {}
      /\ gil' \in Threads => inside' = {gil'}
      /\ gil' = NoThread => inside' = {}
      /\ NoThread \notin Threads
      /\ gil \in Threads \cup {NoThread}
  BY InsideIsOwner, ThreadsAssumption DEF IInv, TypeOK, inside, Threads
<1>2. CASE gil' = gil /\ waiting' = waiting
  BY <1>1, <1>2
<1>3. CASE gil' = gil /\ gil # t /\ t \notin waiting /\ waiting' = waiting \cup {t}
  <2>1. t \notin inside \cup waiting /\ inside' = inside
    BY <1>1, <1>3
  <2>2. Python!Ask(t)
    BY <1>3, <2>1 DEF Python!Ask, inside
  <2>3. QED
    BY <2>2 DEF Python!Next
<1>4. CASE gil = t /\ gil' = NoThread /\ waiting' = waiting
  <2>1. Python!Leave(t)
    BY <1>1, <1>4 DEF Python!Leave, inside
  <2>2. QED
    BY <2>1 DEF Python!Next
<1>5. CASE gil = NoThread /\ gil' = t /\ t \in waiting /\ waiting' = waiting \ {t}
  <2>1. Python!Enter(t)
    BY <1>1, <1>5 DEF Python!Enter, inside
  <2>2. QED
    BY <2>1 DEF Python!Next
<1>6. CASE gil = t /\ gil' = NoThread /\ waiting # {} /\ waiting' = waiting \cup {t}
  <2>1. Python!GiveWay(t)
    BY <1>1, <1>6 DEF Python!GiveWay, inside
  <2>2. QED
    BY <2>1 DEF Python!Next
<1>7. QED
  BY <1>2, <1>3, <1>4, <1>5, <1>6

(* The interplay of guards and trampolines implements blocking mutual      *)
(* exclusion for the interpreter.                                          *)
THEOREM Refinement == SafetySpec => ImplementsPythonMutex
<1>1. Init => Python!Init
  <2> SUFFICES ASSUME Init PROVE Python!Init
    OBVIOUS
  <2>1. IInv
    BY InitInvariant
  <2>2. gil \in Threads /\ inside = {gil}
    BY <2>1, InsideIsOwner DEF Init, Threads
  <2>3. waiting \in SUBSET (Threads \ inside)
    BY <2>2 DEF Init, Threads
  <2>4. QED
    BY <2>2, <2>3 DEF Python!Init, inside
<1>2. IInv /\ IInv' /\ [Next]_vars => [Python!Next]_<<inside, waiting>>
  <2> SUFFICES ASSUME IInv, IInv', [Next]_vars
               PROVE  [Python!Next]_<<inside, waiting>>
    OBVIOUS
  <2>1. CASE UNCHANGED vars
    BY <2>1 DEF vars, inside, Inside, At, Top, Depth
  <2>2. ASSUME NEW t \in Threads,
               \/ Call(t) \/ Return(t) \/ CallHeld(t) \/ CallBack(t)
               \/ ReturnBack(t) \/ Acquire(t) \/ Yield(t)
        PROVE  [Python!Next]_<<inside, waiting>>
    <3>1. InPython(t) \/ At(t, {"returning"}) \/ At(t, CallsBack) \/ Acquire(t)
      BY <2>2 DEF Call, Return, CallHeld, CallBack, ReturnBack, Yield
    <3>2. InPython(t) => gil = t
      BY DEF IInv, InPython, Inside, At
    <3>3. At(t, {"returning"}) \/ At(t, CallsBack) => t \notin waiting
      BY DEF IInv, TypeOK, At, CallsBack
    <3>4. At(t, {"returning"}) => gil # t
      BY DEF IInv, Inside, At
    <3>5. \/ gil' = gil /\ waiting' = waiting
          \/ gil' = gil /\ gil # t /\ t \notin waiting /\ waiting' = waiting \cup {t}
          \/ gil = t /\ gil' = NoThread /\ waiting' = waiting
          \/ gil = NoThread /\ gil' = t /\ t \in waiting /\ waiting' = waiting \ {t}
          \/ gil = t /\ gil' = NoThread /\ waiting # {} /\ waiting' = waiting \cup {t}
      BY <2>2, <3>2, <3>3, <3>4
      DEF Call, Return, CallHeld, CallBack, ReturnBack, Acquire, Yield
    <3>6. QED
      BY <3>5, StepRefines
  <2>3. ASSUME NEW t \in Threads,
               \/ Sent(t) \/ Received(t) \/ ReturnHeld(t) \/ Done(t)
               \/ ListenersDone(t) \/ StartSyncing(t) \/ StopSyncing(t)
               \/ Close(t) \/ Joined(t) \/ LoopExit
        PROVE  [Python!Next]_<<inside, waiting>>
    <3>1. gil' = gil /\ waiting' = waiting
      BY <2>3 DEF Sent, Received, ReturnHeld, Done, ListenersDone, StartSyncing,
                  StopSyncing, Close, Joined, LoopExit
    <3>2. QED
      BY <3>1, StepRefines
  <2>4. PyThreads \subseteq Threads /\ Syncer \in Threads
    BY DEF Threads
  <2>5. QED
    BY <2>1, <2>2, <2>3, <2>4 DEF Next
<1>3. QED
  BY <1>1, <1>2, Invariance, PTL
  DEF SafetySpec, ImplementsPythonMutex, Python!SafetySpec, Python!mutexVars, inside
=============================================================================
