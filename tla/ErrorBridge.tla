------------------------------ MODULE ErrorBridge ------------------------------
(***************************************************************************)
(* What becomes of an error on its way through the bindings.               *)
(*                                                                         *)
(* One thread: Python calls a binding, the native body may call back a     *)
(* method that Python overrides (a listener, a wallet), which calls        *)
(* bindings again.  An error may start at any of these levels and unwinds  *)
(* them one by one until a Python frame handles it.  Each binding has one  *)
(* of four catch clauses, and whatever leaves a binding is translated to a *)
(* Python exception.                                                       *)
(***************************************************************************)
EXTENDS Integers, Sequences

CONSTANTS Codes,      \* the codes of JSON-RPC errors
          MaxDepth    \* BOUND on the frames of the thread

NoCode == -1          \* the default of MoneroRpcError; an answer may have it, too

ASSUME DepthAssumption == MaxDepth \in Nat \ {0}

\* The catch clauses: the macro MONERO_CATCH_AND_RETHROW; none (send_*, get_tx);
\* every error becomes monero_error (get_attribute, wallet_full's create_wallet);
\* every error becomes a result (verify_message).
Bindings == {"rethrowing", "plain", "collapsing", "swallowing"}

\* C++ classes; std::invalid_argument and its siblings have translations of
\* their own in pybind11.
NativeClasses == {"monero_rpc_error", "monero_error", "exception", "invalid_argument"}
\* Python classes.  A C++ error_already_set carries one of them.
PyClasses == {"MoneroRpcError", "MoneroError", "RuntimeError", "ValueError"}
WithCode  == {"monero_rpc_error", "MoneroRpcError"}
\* The classes an except clause catches.
Subclasses(h) == CASE h = "Exception"   -> PyClasses
                   [] h = "MoneroError" -> {"MoneroError", "MoneroRpcError"}
                   [] OTHER             -> {h}
Handlers == PyClasses \cup {"Exception"}

\* An error: its class, code, what it was when it started, and what it crossed.
Raised(cls, code) == [cls |-> cls, code |-> code, was |-> cls, had |-> code, via |-> <<>>]
Fresh(classes) == {Raised(cls, code) : cls \in classes \cap WithCode, code \in Codes}
                    \cup {Raised(cls, NoCode) : cls \in classes \ {"monero_rpc_error"}}
Errors == [cls : NativeClasses \cup PyClasses, code : Codes \cup {NoCode},
           was : NativeClasses \cup PyClasses, had : Codes \cup {NoCode},
           via : Seq(Bindings \cup {"override"})]

VARIABLES stack,   \* "python" and bindings in turn, the running frame last
          flying   \* the error that unwinds the stack: {} or {e}

vars == <<stack, flying>>

Top        == stack[Len(stack)]
InPython   == Top = "python"
InBinding  == Top \in Bindings
Pop        == stack' = SubSeq(stack, 1, Len(stack) - 1)

Init == stack = <<"python">> /\ flying = {}

-----------------------------------------------------------------------------
\* Faulty variants, for the checks that the properties tell them from the
\* real definitions: clauses of a rethrowing binding that do not know the RPC
\* error, or that catch it only; one that keeps the code; translators missing.
ClauseWithoutRpc(b, e) ==
    CASE b = "plain"      -> {e}
      [] b = "swallowing" -> {}
      [] OTHER            -> {[e EXCEPT !.cls = "monero_error", !.code = NoCode]}
ClauseForRpc(b, e) ==
    CASE b = "swallowing" -> {}
      [] b = "collapsing" -> {[e EXCEPT !.cls = "monero_error", !.code = NoCode]}
      [] OTHER            -> {e}
ClauseWithCode(b, e) ==
    CASE b = "plain"      -> {e}
      [] b = "swallowing" -> {}
      [] OTHER            -> {[e EXCEPT !.cls = "monero_error"]}
PyClassOfNative(cls) == CASE cls = "monero_rpc_error" -> "MoneroRpcError"
                          [] cls = "invalid_argument" -> "ValueError"
                          [] OTHER                    -> "RuntimeError"
Untranslated(e) == e

\* The catch clause of a binding: what is left of e, {} when it is a result.
Clause(b, e) ==
    CASE b = "plain"      -> {e}
      [] b = "swallowing" -> {}
      [] b = "rethrowing" /\ e.cls \in {"monero_rpc_error", "monero_error"} -> {e}
      [] OTHER            -> {[e EXCEPT !.cls = "monero_error", !.code = NoCode]}

\* pybind11's translators, the last registered first: the module's own for
\* monero_rpc_error, then the built-in ones.
PyClass(cls) == CASE cls = "monero_rpc_error" -> "MoneroRpcError"
                  [] cls = "invalid_argument" -> "ValueError"
                  [] cls \in PyClasses        -> cls
                  [] OTHER                    -> "RuntimeError"
Translate(e) == [e EXCEPT !.cls = PyClass(e.cls)]

Call(b) == /\ InPython /\ flying = {}
           /\ Len(stack) < MaxDepth
           /\ stack' = Append(stack, b)
           /\ UNCHANGED flying

\* The body calls a virtual method that Python overrides.
CallBack == /\ InBinding /\ flying = {}
            /\ Len(stack) < MaxDepth
            /\ stack' = Append(stack, "python")
            /\ UNCHANGED flying

NativeThrows == /\ InBinding /\ flying = {}
                /\ \E e \in Fresh(NativeClasses) : flying' = {e}
                /\ UNCHANGED stack

PythonRaises == /\ InPython /\ flying = {}
                /\ \E e \in Fresh(PyClasses) : flying' = {e}
                /\ UNCHANGED stack

\* A binding or an override ends normally.
Return == /\ Len(stack) > 1 /\ flying = {}
          /\ Pop
          /\ UNCHANGED flying

\* An error leaves a binding.
Unwind == /\ InBinding
          /\ \E e \in flying :
               flying' = {Translate([f EXCEPT !.via = Append(@, Top)]) : f \in Clause(Top, e)}
          /\ Pop

\* An error leaves an override: error_already_set, which is a std::exception.
UnwindOverride == /\ InPython /\ Len(stack) > 1
                  /\ \E e \in flying : flying' = {[e EXCEPT !.via = Append(@, "override")]}
                  /\ Pop

\* try: ... except h: ... around the call.
Except(h) == /\ InPython
             /\ \E e \in flying : e.cls \in Subclasses(h)
             /\ flying' = {}
             /\ UNCHANGED stack

Next == \/ \E b \in Bindings : Call(b)
        \/ CallBack \/ NativeThrows \/ PythonRaises
        \/ Return \/ Unwind \/ UnwindOverride
        \/ \E h \in Handlers : Except(h)

Spec == Init /\ [][Next]_vars

-----------------------------------------------------------------------------
(* One error at a time, of a class that can be where it is.                *)
TypeOK == /\ stack \in Seq(Bindings \cup {"python"})
          /\ stack # <<>> /\ stack[1] = "python"
          /\ flying \in SUBSET Errors
          /\ \A e, f \in flying : e = f
          /\ InPython => \A e \in flying : e.cls \in PyClasses

(* The code of an RPC error that Python or a binding sees is the code the  *)
(* daemon or wallet answered (or the override raised): no clause on the    *)
(* way invents one, or puts one on an error of another kind.               *)
CodesAreReal == \A e \in flying :
    /\ e.cls \in WithCode => e.was \in WithCode /\ e.code = e.had
    /\ e.cls \notin WithCode => e.code = NoCode

(* An RPC error reaches Python as MoneroRpcError, with its code, through   *)
(* any nesting of calls; except that a collapsing binding loses it, and    *)
(* that a rethrowing one loses it when it comes out of an override.        *)
Loses(via) == \E i \in DOMAIN via :
    \/ via[i] = "collapsing"
    \/ via[i] = "rethrowing" /\ \E j \in 1..i : via[j] = "override"
RpcErrorsArrive == \A e \in flying :
    InPython /\ e.was = "monero_rpc_error" =>
        IF Loses(e.via) THEN e.cls = "RuntimeError" /\ e.code = NoCode
                        ELSE e.cls = "MoneroRpcError" /\ e.code = e.had

(* What crosses bindings without a catch clause only (get_tx) keeps its    *)
(* code and the class that it has in Python: an exception of an override   *)
(* comes back as it was, and the library's errors come in more classes     *)
(* than those of the other bindings.                                       *)
LetThrough(via) == \A i \in DOMAIN via : via[i] \in {"plain", "override"}
ClassInPython(was) == CASE was \in PyClasses         -> was
                        [] was = "monero_rpc_error" -> "MoneroRpcError"
                        [] was = "invalid_argument" -> "ValueError"
                        [] OTHER                    -> "RuntimeError"
PlainLetsThrough == \A e \in flying : LetThrough(e.via) =>
    /\ e.cls = IF e.via = <<>> THEN e.was ELSE ClassInPython(e.was)
    /\ e.code = e.had

(* Code around rethrowing bindings has two kinds of errors to handle: what *)
(* comes out of one is MoneroRpcError or RuntimeError, whatever was thrown *)
(* below, by the library or by an override.                                *)
TwoKindsOfErrors ==
    [][Unwind /\ Top = "rethrowing" =>
         \A e \in flying' : e.cls \in {"MoneroRpcError", "RuntimeError"}]_vars

(* What the library throws as monero_error is MoneroError in Python: the   *)
(* stubs say ":raise MoneroError" of the functions that validate.          *)
MoneroErrorsAreCaught == \A e \in flying :
    InPython /\ e.was = "monero_error" /\ e.via = <<"rethrowing">>
        => e.cls \in Subclasses("MoneroError")
=============================================================================
