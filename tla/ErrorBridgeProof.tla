--------------------------- MODULE ErrorBridgeProof ---------------------------
(***************************************************************************)
(* Proofs about ErrorBridge, for any codes and any nesting of bindings and *)
(* overrides.                                                              *)
(***************************************************************************)
EXTENDS ErrorBridge, TLAPS

\* Below a binding runs Python code.
InTurn == \A k \in 2..Len(stack) : stack[k] \in Bindings => stack[k - 1] = "python"

\* An RPC error that has just been thrown, or that has come some way.
Overridden(via) == \E j \in DOMAIN via : via[j] = "override"
Arrived(e) == IF Loses(e.via) THEN e.cls = "RuntimeError" /\ e.code = NoCode
                              ELSE e.cls = "MoneroRpcError" /\ e.code = e.had
OnItsWay(e) == IF e.via = <<>> THEN InBinding /\ e.cls = "monero_rpc_error" /\ e.code = e.had
               ELSE Arrived(e) /\ (InBinding => Overridden(e.via))

IInv == /\ TypeOK /\ InTurn /\ CodesAreReal /\ PlainLetsThrough
        /\ \A e \in flying : e.was = "monero_rpc_error" => OnItsWay(e)

-----------------------------------------------------------------------------
(* What one binding makes of an error: the class it would have without the *)
(* clause, and the code; or RuntimeError without a code.                   *)
Kept(b, e) == \/ b = "plain"
              \/ b = "rethrowing" /\ e.cls \in {"monero_rpc_error", "monero_error"}
After(b, f) == Translate([f EXCEPT !.via = Append(@, b)])

LEMMA Unwound ==
    ASSUME NEW e \in Errors, NEW b \in Bindings, NEW f \in Clause(b, e)
    PROVE  /\ After(b, f) \in Errors
           /\ After(b, f).was = e.was /\ After(b, f).had = e.had
           /\ After(b, f).via = Append(e.via, b)
           /\ After(b, f).cls \in PyClasses
           /\ IF Kept(b, e) THEN After(b, f).cls = PyClass(e.cls) /\ After(b, f).code = e.code
              ELSE After(b, f).cls = "RuntimeError" /\ After(b, f).code = NoCode
<1>1. f \in Errors /\ f.was = e.was /\ f.had = e.had /\ f.via = e.via
  BY DEF Clause, Errors, Bindings, NativeClasses
<1>2. IF Kept(b, e) THEN f = e ELSE f.cls = "monero_error" /\ f.code = NoCode
  BY DEF Clause, Errors, Bindings, Kept
<1>3. \A c \in NativeClasses \cup PyClasses : PyClass(c) \in PyClasses
  BY DEF PyClass, NativeClasses, PyClasses
<1>4. PyClass("monero_error") = "RuntimeError"
  BY DEF PyClass, PyClasses
<1>5. Append(f.via, b) \in Seq(Bindings \cup {"override"})
  BY <1>1 DEF Errors
<1>6. After(b, f) = [f EXCEPT !.via = Append(f.via, b), !.cls = PyClass(f.cls)]
  BY <1>1 DEF After, Translate, Errors
<1>7. QED
  BY <1>1, <1>2, <1>3, <1>4, <1>5, <1>6 DEF Errors

(* A class that was Python's stays, and a code goes with its class.        *)
LEMMA ClassesKept ==
    /\ \A c \in PyClasses : PyClass(c) = c
    /\ PyClass("monero_rpc_error") = "MoneroRpcError"
    /\ \A c \in NativeClasses \cup PyClasses : PyClass(c) \in WithCode <=> c \in WithCode
    /\ "RuntimeError" \notin WithCode
    /\ PyClasses \cap NativeClasses = {}
BY DEF PyClass, PyClasses, NativeClasses, WithCode

(* pybind11 gives a class the one it has in Python, once and for all.      *)
LEMMA ClassesInPython ==
    \A c \in NativeClasses \cup PyClasses :
        /\ PyClass(c) = ClassInPython(c) /\ PyClass(ClassInPython(c)) = ClassInPython(c)
        /\ c \in PyClasses => ClassInPython(c) = c
BY DEF PyClass, ClassInPython, PyClasses, NativeClasses

(* One more crossing loses an RPC error only by the binding itself.        *)
LEMMA LosesMore ==
    ASSUME NEW via \in Seq(Bindings \cup {"override"}), NEW b \in Bindings \cup {"override"}
    PROVE  /\ Append(via, b) # <<>>
           /\ Loses(Append(via, b)) <=>
                \/ Loses(via)
                \/ b = "collapsing" \/ (b = "rethrowing" /\ Overridden(via))
           /\ Overridden(Append(via, b)) <=> Overridden(via) \/ b = "override"
<1> DEFINE v == Append(via, b)
           n == Len(via)
<1>1. /\ Len(v) = n + 1 /\ n \in Nat /\ DOMAIN v = 1..n + 1 /\ DOMAIN via = 1..n
      /\ v[n + 1] = b /\ \A k \in 1..n : v[k] = via[k]
  OBVIOUS
<1>2. v # <<>>
  BY <1>1
<1>3. Overridden(v) <=> Overridden(via) \/ b = "override"
  BY <1>1 DEF Overridden
<1>4. Loses(v) <=> \/ Loses(via) \/ b = "collapsing"
                   \/ (b = "rethrowing" /\ Overridden(via))
  <2>1. ASSUME Loses(via) PROVE Loses(v)
    BY <1>1, <2>1 DEF Loses
  <2>2. ASSUME b = "collapsing" PROVE Loses(v)
    BY <1>1, <2>2 DEF Loses
  <2>3. ASSUME b = "rethrowing", Overridden(via) PROVE Loses(v)
    <3>1. PICK j \in 1..n : via[j] = "override"
      BY <1>1, <2>3 DEF Overridden
    <3>2. v[n + 1] = "rethrowing" /\ j \in 1..n + 1 /\ v[j] = "override" /\ n + 1 \in 1..n + 1
      BY <1>1, <2>3, <3>1
    <3>3. QED
      BY <1>1, <3>2 DEF Loses
  <2>4. ASSUME Loses(v) PROVE \/ Loses(via) \/ b = "collapsing"
                              \/ (b = "rethrowing" /\ Overridden(via))
    <3>1. PICK i \in 1..n + 1 : \/ v[i] = "collapsing"
                                \/ v[i] = "rethrowing" /\ \E j \in 1..i : v[j] = "override"
      BY <1>1, <2>4 DEF Loses
    <3>2. CASE i \in 1..n
      <4>1. \A j \in 1..i : j \in 1..n /\ v[j] = via[j]
        BY <1>1, <3>2
      <4>2. QED
        BY <1>1, <3>1, <3>2, <4>1 DEF Loses
    <3>3. CASE i = n + 1
      <4>1. CASE v[i] = "collapsing"
        BY <1>1, <3>3, <4>1
      <4>2. CASE v[i] = "rethrowing" /\ \E j \in 1..i : v[j] = "override"
        <5>1. PICK j \in 1..n + 1 : v[j] = "override"
          BY <3>3, <4>2
        <5>2. j # n + 1
          BY <1>1, <3>3, <4>2, <5>1
        <5>3. QED
          BY <1>1, <3>3, <4>2, <5>1, <5>2 DEF Overridden
      <4>3. QED
        BY <3>1, <4>1, <4>2
    <3>4. QED
      BY <1>1, <3>2, <3>3
  <2>5. QED
    BY <2>1, <2>2, <2>3, <2>4
<1>5. QED
  BY <1>2, <1>3, <1>4

-----------------------------------------------------------------------------
LEMMA InitInvariant == Init => IInv
BY DEF Init, IInv, TypeOK, InTurn, CodesAreReal, PlainLetsThrough, Errors

(* What a pop leaves of the stack.                                         *)
LEMMA Popped ==
    ASSUME IInv, Pop, Len(stack) > 1
    PROVE  /\ stack' \in Seq(Bindings \cup {"python"})
           /\ stack' # <<>> /\ stack'[1] = "python" /\ InTurn'
           /\ InBinding => InPython'
<1>1. /\ Len(stack') = Len(stack) - 1 /\ Len(stack) \in Nat
      /\ \A k \in 1..Len(stack') : stack'[k] = stack[k]
      /\ stack' \in Seq(Bindings \cup {"python"})
  BY DEF Pop, IInv, TypeOK
<1>2. stack' # <<>> /\ stack'[1] = "python"
  BY <1>1 DEF IInv, TypeOK
<1>3. InTurn'
  BY <1>1 DEF IInv, InTurn
<1>4. ASSUME InBinding PROVE InPython'
  <2>1. Len(stack) \in 2..Len(stack) /\ stack[Len(stack)] \in Bindings
    BY <1>1, <1>4 DEF InBinding, Top
  <2>2. stack[Len(stack) - 1] = "python"
    BY <2>1 DEF IInv, InTurn
  <2>3. Len(stack') = Len(stack) - 1 /\ Len(stack') \in 1..Len(stack')
    BY <1>1, <2>1
  <2>4. stack'[Len(stack')] = "python"
    BY <1>1, <2>2, <2>3
  <2>5. QED
    BY <2>4 DEF InPython, Top
<1>5. QED
  BY <1>1, <1>2, <1>3, <1>4

(* Calls and returns happen without an error in flight.                    *)
LEMMA CallInvariant ==
    ASSUME IInv, CallBack \/ Return \/ \E b \in Bindings : Call(b)
    PROVE  IInv'
<1>1. flying = {} /\ flying' = {}
  BY DEF CallBack, Return, Call
<1> DEFINE Stacked == /\ stack' \in Seq(Bindings \cup {"python"})
                      /\ stack' # <<>> /\ stack'[1] = "python"
                      /\ InTurn'
<1>2. ASSUME NEW f \in Bindings \cup {"python"}, stack' = Append(stack, f),
             f \in Bindings => stack[Len(stack)] = "python"
      PROVE  Stacked
  <2>1. /\ Len(stack') = Len(stack) + 1 /\ Len(stack) \in Nat /\ Len(stack) > 0
        /\ stack'[Len(stack) + 1] = f
        /\ \A k \in 1..Len(stack) : stack'[k] = stack[k]
        /\ stack' \in Seq(Bindings \cup {"python"})
    BY <1>2 DEF IInv, TypeOK
  <2>2. ASSUME NEW k \in 2..Len(stack'), stack'[k] \in Bindings PROVE stack'[k - 1] = "python"
    <3>1. CASE k = Len(stack) + 1
      BY <1>2, <2>1, <2>2, <3>1
    <3>2. CASE k \in 2..Len(stack)
      <4>1. stack'[k] = stack[k] /\ stack'[k - 1] = stack[k - 1]
        BY <2>1, <3>2
      <4>2. QED
        BY <2>2, <3>2, <4>1 DEF IInv, InTurn
    <3>3. QED
      BY <2>1, <3>1, <3>2
  <2>3. QED
    BY <2>1, <2>2 DEF IInv, TypeOK, InTurn
<1>3. CASE CallBack
  <2>1. stack' = Append(stack, "python") /\ "python" \notin Bindings
    BY <1>3 DEF CallBack, Bindings
  <2>2. Stacked
    BY <1>2, <2>1
  <2>3. QED
    BY <1>1, <2>2 DEF IInv, TypeOK, CodesAreReal, PlainLetsThrough
<1>4. ASSUME NEW b \in Bindings, Call(b) PROVE IInv'
  <2>1. stack' = Append(stack, b) /\ stack[Len(stack)] = "python"
    BY <1>4 DEF Call, InPython, Top
  <2>2. Stacked
    BY <1>2, <2>1
  <2>3. QED
    BY <1>1, <2>2 DEF IInv, TypeOK, CodesAreReal, PlainLetsThrough
<1>5. CASE Return
  <2>1. Stacked
    BY <1>5, Popped DEF Return
  <2>2. QED
    BY <1>1, <2>1 DEF IInv, TypeOK, CodesAreReal, PlainLetsThrough
<1>6. QED
  BY <1>3, <1>4, <1>5

(* An error starts: nothing has happened to it yet.                        *)
LEMMA RaiseInvariant ==
    ASSUME IInv, NativeThrows \/ PythonRaises
    PROVE  IInv'
<1>1. PICK e \in Fresh(NativeClasses) \cup Fresh(PyClasses) :
        /\ flying' = {e} /\ stack' = stack
        /\ InBinding \/ (InPython /\ e \in Fresh(PyClasses))
  <2>1. CASE NativeThrows
    BY <2>1 DEF NativeThrows
  <2>2. CASE PythonRaises
    BY <2>2 DEF PythonRaises
  <2>3. QED
    BY <2>1, <2>2
<1>2. /\ e \in Errors /\ e.via = <<>> /\ e.was = e.cls /\ e.had = e.code
      /\ e.cls \notin WithCode => e.code = NoCode
      /\ e \in Fresh(PyClasses) => e.cls \in PyClasses
  <2> DEFINE All == NativeClasses \cup PyClasses
  <2>1. ASSUME NEW cls \in All, NEW code \in Codes \cup {NoCode}
        PROVE  /\ Raised(cls, code) \in Errors /\ Raised(cls, code).via = <<>>
               /\ Raised(cls, code).cls = cls /\ Raised(cls, code).was = cls
               /\ Raised(cls, code).code = code /\ Raised(cls, code).had = code
    BY DEF Raised, Errors
  <2>2. ASSUME NEW classes, classes = NativeClasses \/ classes = PyClasses, e \in Fresh(classes)
        PROVE  \E cls \in classes, code \in Codes \cup {NoCode} :
                  e = Raised(cls, code) /\ (cls \in WithCode \/ code = NoCode)
    BY <2>2 DEF Fresh
  <2>3. PICK cls \in All, code \in Codes \cup {NoCode} :
          e = Raised(cls, code) /\ (cls \in WithCode \/ code = NoCode)
    BY <1>1, <2>2
  <2>4. e \in Fresh(PyClasses) => e.cls \in PyClasses
    BY <2>1, <2>2
  <2>5. QED
    BY <2>1, <2>3, <2>4
<1>3. "python" \notin Bindings /\ "monero_rpc_error" \notin PyClasses
  BY DEF Bindings, PyClasses
<1>4. TypeOK'
  BY <1>1, <1>2, <1>3 DEF IInv, TypeOK, InPython, InBinding, Top
<1>5. CodesAreReal' /\ PlainLetsThrough' /\ InTurn'
  BY <1>1, <1>2 DEF IInv, InTurn, CodesAreReal, PlainLetsThrough
<1>6. \A f \in flying' : f.was = "monero_rpc_error" => OnItsWay(f)'
  BY <1>1, <1>2, <1>3 DEF OnItsWay, InBinding, Top
<1>7. QED
  BY <1>4, <1>5, <1>6 DEF IInv

(* An error leaves a binding.                                              *)
LEMMA UnwindInvariant ==
    ASSUME IInv, Unwind
    PROVE  IInv'
<1> DEFINE b == Top
<1>1. PICK e \in flying : flying' = {After(b, f) : f \in Clause(b, e)}
  BY DEF Unwind, After
<1>2. e \in Errors /\ b \in Bindings /\ Len(stack) > 1
  <2>1. e \in Errors /\ b \in Bindings
    BY <1>1 DEF IInv, TypeOK, Unwind, InBinding
  <2>2. Len(stack) > 1
    BY <2>1 DEF IInv, TypeOK, Top, Bindings
  <2>3. QED
    BY <2>1, <2>2
<1>3. /\ stack' \in Seq(Bindings \cup {"python"})
      /\ stack' # <<>> /\ stack'[1] = "python" /\ InTurn' /\ InPython'
  BY <1>2, Popped DEF Unwind
<1>4. \A f, g \in Clause(b, e) : f = g
  BY <1>2 DEF Clause, Bindings
<1>5. TypeOK'
  BY <1>1, <1>2, <1>3, <1>4, Unwound DEF TypeOK
<1>6. ASSUME NEW g \in flying'
      PROVE  /\ g.cls \in WithCode => g.was \in WithCode /\ g.code = g.had
             /\ g.cls \notin WithCode => g.code = NoCode
             /\ LetThrough(g.via) => g.via # <<>> /\ g.cls = ClassInPython(g.was) /\ g.code = g.had
             /\ g.was = "monero_rpc_error" => g.via # <<>> /\ Arrived(g)
  <2>1. PICK f \in Clause(b, e) : g = After(b, f)
    BY <1>1, <1>6
  <2>2. /\ g.was = e.was /\ g.had = e.had /\ g.via = Append(e.via, b) /\ g.cls \in PyClasses
        /\ IF Kept(b, e) THEN g.cls = PyClass(e.cls) /\ g.code = e.code
           ELSE g.cls = "RuntimeError" /\ g.code = NoCode
    BY <1>2, <2>1, Unwound
  <2>3. e.cls \in NativeClasses \cup PyClasses /\ e.via \in Seq(Bindings \cup {"override"})
    BY <1>2 DEF Errors
  <2>4. /\ g.cls \in WithCode => g.was \in WithCode /\ g.code = g.had
        /\ g.cls \notin WithCode => g.code = NoCode
    BY <1>1, <2>2, <2>3, ClassesKept DEF IInv, CodesAreReal
  <2>5. ASSUME LetThrough(g.via)
        PROVE  g.via # <<>> /\ g.cls = ClassInPython(g.was) /\ g.code = g.had
    <3>1. /\ b = g.via[Len(e.via) + 1] /\ Len(e.via) + 1 \in DOMAIN g.via
          /\ \A i \in DOMAIN e.via : e.via[i] = g.via[i] /\ i \in DOMAIN g.via
      BY <1>2, <2>2, <2>3
    <3>2. b = "plain"
      BY <1>2, <2>5, <3>1 DEF Bindings, LetThrough
    <3>3. LetThrough(e.via)
      BY <2>5, <3>1 DEF LetThrough
    <3>4. /\ e.cls = IF e.via = <<>> THEN e.was ELSE ClassInPython(e.was)
          /\ e.code = e.had
      BY <1>1, <3>3 DEF IInv, PlainLetsThrough
    <3>5. g.cls = PyClass(e.cls) /\ g.code = e.code /\ g.via # <<>>
      BY <2>2, <2>3, <3>2 DEF Kept
    <3>6. PyClass(e.cls) = ClassInPython(e.was)
      BY <1>2, <3>4, ClassesInPython DEF Errors
    <3>7. QED
      BY <2>2, <3>4, <3>5, <3>6
  <2>6. ASSUME g.was = "monero_rpc_error" PROVE g.via # <<>> /\ Arrived(g)
    <3>1. OnItsWay(e)
      BY <1>1, <2>2, <2>6 DEF IInv
    <3>2. /\ g.via # <<>>
          /\ Loses(g.via) <=> \/ Loses(e.via)
                              \/ b = "collapsing" \/ (b = "rethrowing" /\ Overridden(e.via))
      BY <1>2, <2>2, <2>3, LosesMore
    <3>3. CASE e.via = <<>>
      <4>1. e.cls = "monero_rpc_error" /\ e.code = e.had /\ ~Overridden(e.via) /\ ~Loses(e.via)
        BY <3>1, <3>3 DEF OnItsWay, Overridden, Loses
      <4>2. b # "swallowing"
        BY <2>1 DEF Clause
      <4>3. Kept(b, e) <=> b # "collapsing"
        BY <1>2, <4>1, <4>2 DEF Kept, Bindings
      <4>4. QED
        BY <2>2, <3>2, <4>1, <4>3, ClassesKept DEF Arrived
    <3>4. CASE e.via # <<>>
      <4>1. Arrived(e) /\ Overridden(e.via)
        BY <3>1, <3>4 DEF OnItsWay, Unwind
      <4>2. b # "swallowing"
        BY <2>1 DEF Clause
      <4>3. Kept(b, e) <=> b = "plain"
        BY <4>1 DEF Kept, Arrived
      <4>4. PyClass(e.cls) = e.cls
        BY <4>1, ClassesKept DEF Arrived, PyClasses
      <4>5. QED
        BY <1>2, <2>2, <3>2, <4>1, <4>2, <4>3, <4>4 DEF Arrived, Bindings
    <3>5. QED
      BY <3>3, <3>4, <3>2
  <2>7. QED
    BY <2>4, <2>5, <2>6
<1>7. ~InBinding'
  BY <1>3 DEF InPython, InBinding, Bindings
<1>8. \A g \in flying' : g.was = "monero_rpc_error" => OnItsWay(g)'
  BY <1>6, <1>7 DEF OnItsWay, Arrived, Overridden
<1>9. CodesAreReal' /\ PlainLetsThrough'
  BY <1>6 DEF CodesAreReal, PlainLetsThrough
<1>10. QED
  BY <1>3, <1>5, <1>8, <1>9 DEF IInv

(* An error leaves an override, unchanged.                                 *)
LEMMA OverrideInvariant ==
    ASSUME IInv, UnwindOverride
    PROVE  IInv'
<1>1. PICK e \in flying : flying' = {[e EXCEPT !.via = Append(@, "override")]}
  BY DEF UnwindOverride
<1> DEFINE g == [e EXCEPT !.via = Append(@, "override")]
<1>2. /\ e \in Errors /\ e.cls \in PyClasses /\ ~InBinding
      /\ e.via \in Seq(Bindings \cup {"override"})
  BY <1>1 DEF IInv, TypeOK, UnwindOverride, InBinding, InPython, Bindings, Errors
<1>3. /\ g \in Errors /\ g.cls = e.cls /\ g.code = e.code /\ g.was = e.was /\ g.had = e.had
      /\ g.via = Append(e.via, "override")
  BY <1>2 DEF Errors
<1>4. /\ stack' \in Seq(Bindings \cup {"python"})
      /\ stack' # <<>> /\ stack'[1] = "python" /\ InTurn'
  BY Popped DEF UnwindOverride
<1>5. TypeOK'
  BY <1>1, <1>2, <1>3, <1>4 DEF TypeOK
<1>6. CodesAreReal'
  BY <1>1, <1>3 DEF IInv, CodesAreReal
<1>7. PlainLetsThrough'
  <2>1. \A i \in DOMAIN e.via : i \in DOMAIN g.via /\ g.via[i] = e.via[i]
    BY <1>2, <1>3
  <2>2. ASSUME LetThrough(g.via)
        PROVE  g.via # <<>> /\ g.cls = ClassInPython(g.was) /\ g.code = g.had
    <3>1. LetThrough(e.via)
      BY <2>1, <2>2 DEF LetThrough
    <3>2. /\ e.cls = IF e.via = <<>> THEN e.was ELSE ClassInPython(e.was)
          /\ e.code = e.had
      BY <1>1, <3>1 DEF IInv, PlainLetsThrough
    <3>3. e.cls = ClassInPython(e.was)
      BY <1>2, <3>2, ClassesInPython DEF Errors
    <3>4. QED
      BY <1>2, <1>3, <3>2, <3>3
  <2>3. QED
    BY <1>1, <2>2 DEF PlainLetsThrough
<1>8. ASSUME g.was = "monero_rpc_error" PROVE OnItsWay(g)'
  <2>1. OnItsWay(e) /\ e.via # <<>>
    BY <1>1, <1>2, <1>3, <1>8 DEF IInv, OnItsWay
  <2>2. /\ g.via # <<>> /\ Overridden(g.via)
        /\ Loses(g.via) <=> Loses(e.via)
    BY ZenonT(60), <1>2, <1>3, LosesMore
  <2>3. Arrived(g)
    BY <1>3, <2>1, <2>2 DEF OnItsWay, Arrived
  <2>4. QED
    BY <2>2, <2>3 DEF OnItsWay, Arrived, Overridden
<1>9. QED
  BY <1>1, <1>4, <1>5, <1>6, <1>7, <1>8 DEF IInv

LEMMA NextInvariant == IInv /\ [Next]_vars => IInv'
<1> SUFFICES ASSUME IInv, [Next]_vars PROVE IInv'
  OBVIOUS
<1>1. ASSUME NEW h \in Handlers, Except(h) PROVE IInv'
  BY <1>1 DEF Except, IInv, TypeOK, InTurn, CodesAreReal, PlainLetsThrough
<1>2. CASE UNCHANGED vars
  BY <1>2 DEF vars, IInv, TypeOK, InTurn, InPython, InBinding, Top, CodesAreReal,
              PlainLetsThrough, OnItsWay, Arrived, Overridden
<1>3. QED
  BY <1>1, <1>2, CallInvariant, RaiseInvariant, UnwindInvariant, OverrideInvariant DEF Next

LEMMA Invariance == Spec => []IInv
BY InitInvariant, NextInvariant, PTL DEF Spec

-----------------------------------------------------------------------------
(* There is one error at a time, of a class that can be where it is.       *)
THEOREM TypeCorrect == Spec => []TypeOK
<1>1. IInv => TypeOK
  BY DEF IInv
<1>2. QED
  BY <1>1, Invariance, PTL

(* No clause makes up a code, however many bindings and overrides an error *)
(* crosses.                                                                *)
THEOREM NoCodeInvented == Spec => []CodesAreReal
<1>1. IInv => CodesAreReal
  BY DEF IInv
<1>2. QED
  BY <1>1, Invariance, PTL

(* Where an RPC error keeps its class and code, and where it loses them.   *)
THEOREM RpcErrors == Spec => []RpcErrorsArrive
<1>1. IInv => RpcErrorsArrive
  BY DEF IInv, RpcErrorsArrive, OnItsWay, Arrived, InPython, InBinding, Bindings
<1>2. QED
  BY <1>1, Invariance, PTL

(* Bindings without a clause let through what pybind11 makes of an error.  *)
THEOREM LetsThrough == Spec => []PlainLetsThrough
<1>1. IInv => PlainLetsThrough
  BY DEF IInv
<1>2. QED
  BY <1>1, Invariance, PTL

(* Two classes come out of a rethrowing binding.                           *)
THEOREM RethrownKinds == Spec => TwoKindsOfErrors
<1>1. IInv /\ [Next]_vars => [Unwind /\ Top = "rethrowing" =>
        \A e \in flying' : e.cls \in {"MoneroRpcError", "RuntimeError"}]_vars
  <2> SUFFICES ASSUME IInv, Unwind, Top = "rethrowing", NEW g \in flying'
               PROVE  g.cls \in {"MoneroRpcError", "RuntimeError"}
    OBVIOUS
  <2>1. PICK e \in flying : flying' = {After(Top, f) : f \in Clause(Top, e)}
    BY DEF Unwind, After
  <2>2. e \in Errors /\ "rethrowing" \in Bindings
    BY <2>1 DEF IInv, TypeOK, Bindings
  <2>3. PICK f \in Clause("rethrowing", e) : g = After("rethrowing", f)
    BY <2>1
  <2>4. QED
    BY <2>2, <2>3, Unwound DEF Kept, PyClass, PyClasses
<1>2. QED
  BY <1>1, Invariance, PTL DEF Spec, TwoKindsOfErrors
=============================================================================
