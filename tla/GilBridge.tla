------------------------------ MODULE GilBridge ------------------------------
(***************************************************************************)
(* The border between Python and the native library: which thread holds    *)
(* the global interpreter lock (GIL) while calls cross it in both          *)
(* directions.                                                             *)
(*                                                                         *)
(* Python threads call one wallet object.  Most bindings are declared with *)
(* call_guard<gil_scoped_release>: the GIL is given up for the native body *)
(* and taken again on return.  The send_*_request bindings are not: they   *)
(* keep it across the network exchange because they build their arguments  *)
(* and results out of Python objects.  Native code calls back through the  *)
(* PYBIND11_OVERRIDE trampolines, which take the GIL for the lookup of the *)
(* override and its run: from sync(listener) on the caller's thread, and   *)
(* from the background thread that start_syncing runs.                     *)
(*                                                                         *)
(* A thread is a stack of frames, the running one last.                    *)
(***************************************************************************)
EXTENDS Naturals, Sequences

CONSTANTS PyThreads,       \* threads the application starts in Python
          Syncer,          \* the wallet's native background thread
          NoThread,        \* the GIL is free
          MaxDepth,        \* BOUND on the frames of a thread
          ListenersLocked  \* does the library hold its listener lock while it notifies

ASSUME ThreadsAssumption ==
    /\ PyThreads # {}
    /\ Syncer \notin PyThreads
    /\ NoThread \notin PyThreads \cup {Syncer}
ASSUME DepthAssumption == MaxDepth \in Nat \ {0}
ASSUME LockAssumption == ListenersLocked \in BOOLEAN

Threads == PyThreads \cup {Syncer}

\* Bodies of bindings with the call guard, by what they wait for.
Queries   == {"query"}                     \* is_*, get_*, create_*, ...: only work
Listening == {"listeners"}                 \* add_/remove_/get_listeners: the listener lock
Guarded   == Queries \cup Listening \cup {"sync", "start_syncing", "stop_syncing", "close"}
\* Further native frames: the rest of close, the end of a guarded body, the
\* background loop.
Native    == Guarded \cup {"join", "returning", "loop"}
\* Bodies of bindings without the guard.
Exchange  == {"encode", "wire", "decode"}  \* the three parts of send_*_request
Direct    == {"forward", "forwarded"}      \* a listener's on_* method, called by Python
KeepsGil  == {"python"} \cup Exchange \cup Direct
Frame     == Native \cup KeepsGil

\* Native code that calls virtual methods, which Python may implement: the
\* body of a binding calls the one it stands for (stop_syncing has no
\* trampoline), sync and the background loop notify any number of times.
CallsBack == (Guarded \ {"stop_syncing"}) \cup {"loop", "forward"}
AfterCallBack(f) == CASE f \in {"sync", "loop"} -> f
                      [] f = "forward"         -> "forwarded"
                      [] OTHER                 -> "returning"

VARIABLES gil,      \* the thread that holds the GIL, or NoThread
          stack,    \* [Threads -> Seq(Frame)]
          waiting,  \* threads blocked on the GIL
          syncing,  \* start_syncing was called, stop_syncing was not
          closed    \* the wallet is closed

vars == <<gil, stack, waiting, syncing, closed>>

-----------------------------------------------------------------------------
Depth(t) == Len(stack[t])
Top(t)   == stack[t][Depth(t)]
At(t, F) == Depth(t) > 0 /\ Top(t) \in F
Below(t) == stack[t][Depth(t) - 1]

\* t executes Python; t executes native code written to run with the GIL.
InPython(t) == t \notin waiting /\ At(t, {"python"})
Inside(t)   == t \notin waiting /\ At(t, KeepsGil)

\* t is in a call of a listener: "python" right above the code that notifies.
Notifying(t) == \E i \in 2..Depth(t) : /\ stack[t][i] = "python"
                                       /\ stack[t][i - 1] \in {"sync", "loop"}
LockedOut(t) == ListenersLocked /\ \E u \in Threads \ {t} : Notifying(u)

Push(t, f) == stack' = [stack EXCEPT ![t] = Append(@, f)]
Pop(t)     == stack' = [stack EXCEPT ![t] = SubSeq(@, 1, Len(@) - 1)]
Goto(t, f) == stack' = [stack EXCEPT ![t][Len(stack[t])] = f]

-----------------------------------------------------------------------------
Init == /\ stack = [t \in Threads |-> IF t = Syncer THEN <<>> ELSE <<"python">>]
        /\ gil \in PyThreads
        /\ waiting = PyThreads \ {gil}
        /\ syncing = FALSE
        /\ closed = FALSE

\* An override of a listener or of a wallet method only queries and lists:
\* that is what the listeners of this repository do.
Allowed(t) == IF t \in PyThreads /\ Depth(t) = 1 THEN Guarded ELSE Queries \cup Listening

(***************************************************************************)
(* Faulty variants of the steps below, for the checks that the properties  *)
(* tell them from the real ones.                                           *)
(***************************************************************************)
\* A binding declared without its call guard.
CallWithoutGuard(t) == /\ InPython(t)
                       /\ Depth(t) < MaxDepth
                       /\ \E op \in Allowed(t) : Push(t, op)
                       /\ UNCHANGED <<gil, waiting, syncing, closed>>

\* Only the listener calls declared without it.
CallListenersHeld(t) == /\ InPython(t)
                        /\ Depth(t) < MaxDepth
                        /\ \E op \in Allowed(t) :
                             /\ Push(t, op)
                             /\ gil' = IF op \in Listening THEN gil ELSE NoThread
                        /\ UNCHANGED <<waiting, syncing, closed>>

\* A send_*_request declared with a guard.
CallHeldWithGuard(t) == /\ InPython(t)
                        /\ Depth(t) < MaxDepth
                        /\ Push(t, "encode")
                        /\ gil' = NoThread
                        /\ UNCHANGED <<waiting, syncing, closed>>

\* A trampoline that waits for the GIL its own thread holds.
CallBackAgain(t) == /\ At(t, CallsBack)
                    /\ Depth(t) < MaxDepth
                    /\ Push(t, "python")
                    /\ waiting' = waiting \cup {t}
                    /\ UNCHANGED <<gil, syncing, closed>>

\* A trampoline that frees a GIL it did not take.
ReturnBackFreeing(t) == /\ InPython(t)
                        /\ Depth(t) > 1
                        /\ Pop(t)
                        /\ gil' = NoThread
                        /\ UNCHANGED <<waiting, syncing, closed>>

\* A trampoline that forgets to free it.
ReturnBackKeeping(t) == /\ InPython(t)
                        /\ Depth(t) > 1
                        /\ Pop(t)
                        /\ UNCHANGED <<gil, waiting, syncing, closed>>

\* A close that waits for a thread nobody told to stop.
CloseWithoutStopping(t) == /\ At(t, {"close"})
                           /\ Goto(t, "join")
                           /\ closed' = TRUE
                           /\ UNCHANGED <<gil, waiting, syncing>>

(***************************************************************************)
(* Python calls native code.                                               *)
(***************************************************************************)
\* Enter a binding with the guard: gil_scoped_release, then its body.
Call(t) == /\ InPython(t)
           /\ Depth(t) < MaxDepth
           /\ \E op \in Allowed(t) : Push(t, op)
           /\ gil' = NoThread
           /\ UNCHANGED <<waiting, syncing, closed>>

\* Leave it: the guard's destructor blocks until the GIL is free.
Return(t) == /\ At(t, {"returning"})
             /\ Pop(t)
             /\ waiting' = waiting \cup {t}
             /\ UNCHANGED <<gil, syncing, closed>>

\* Enter a binding without the guard: send_*_request, or a listener's on_*
\* method called by Python itself.
CallHeld(t) == /\ InPython(t)
               /\ Depth(t) < MaxDepth
               /\ Push(t, "encode") \/ Push(t, "forward")
               /\ UNCHANGED <<gil, waiting, syncing, closed>>

\* json.dumps turned the parameters into JSON; the request leaves.
Sent(t) == /\ At(t, {"encode"})
           /\ Goto(t, "wire")
           /\ UNCHANGED <<gil, waiting, syncing, closed>>

\* The answer is there; it becomes Python objects.
Received(t) == /\ At(t, {"wire"})
               /\ Goto(t, "decode")
               /\ UNCHANGED <<gil, waiting, syncing, closed>>

\* A binding without the guard returns, or throws: at any of its points.
ReturnHeld(t) == /\ At(t, KeepsGil \ {"python"})
                 /\ Pop(t)
                 /\ UNCHANGED <<gil, waiting, syncing, closed>>

(***************************************************************************)
(* Native code calls Python.                                               *)
(***************************************************************************)
\* A trampoline: gil_scoped_acquire blocks, unless this thread has the GIL.
CallBack(t) == /\ At(t, CallsBack)
               /\ Depth(t) < MaxDepth
               /\ At(t, {"sync", "loop"}) => ~LockedOut(t)
               /\ stack' = [stack EXCEPT ![t] =
                    Append([@ EXCEPT ![Len(@)] = AfterCallBack(Top(t))], "python")]
               /\ waiting' = IF gil = t THEN waiting ELSE waiting \cup {t}
               /\ UNCHANGED <<gil, syncing, closed>>

\* The override returns (or throws): the outermost gil_scoped_acquire frees
\* the GIL, an inner one does not.
ReturnBack(t) == /\ InPython(t)
                 /\ Depth(t) > 1
                 /\ Pop(t)
                 /\ gil' = IF Below(t) \in Direct THEN gil ELSE NoThread
                 /\ UNCHANGED <<waiting, syncing, closed>>

(***************************************************************************)
(* The interpreter.                                                        *)
(***************************************************************************)
Acquire(t) == /\ gil = NoThread
              /\ t \in waiting
              /\ gil' = t
              /\ waiting' = waiting \ {t}
              /\ UNCHANGED <<stack, syncing, closed>>

\* The interpreter switches threads between two instructions.
Yield(t) == /\ InPython(t)
            /\ waiting # {}
            /\ gil' = NoThread
            /\ waiting' = waiting \cup {t}
            /\ UNCHANGED <<stack, syncing, closed>>

(***************************************************************************)
(* The native library, as the bindings use it.                             *)
(***************************************************************************)
\* A query, or sync after its last notification, is done.
Done(t) == /\ At(t, Queries \cup {"sync"})
           /\ Goto(t, "returning")
           /\ UNCHANGED <<gil, waiting, syncing, closed>>

ListenersDone(t) == /\ At(t, Listening)
                    /\ ~LockedOut(t)
                    /\ Goto(t, "returning")
                    /\ UNCHANGED <<gil, waiting, syncing, closed>>

\* A closed wallet throws instead of starting its thread.
StartSyncing(t) == /\ At(t, {"start_syncing"})
                   /\ stack' = [stack EXCEPT
                        ![t][Len(stack[t])] = "returning",
                        ![Syncer] = IF @ = <<>> /\ ~closed THEN <<"loop">> ELSE @]
                   /\ syncing' = ~closed
                   /\ UNCHANGED <<gil, waiting, closed>>

StopSyncing(t) == /\ At(t, {"stop_syncing"})
                  /\ Goto(t, "returning")
                  /\ syncing' = FALSE
                  /\ UNCHANGED <<gil, waiting, closed>>

\* close stops the background thread, then waits for its end.
Close(t) == /\ At(t, {"close"})
            /\ Goto(t, "join")
            /\ syncing' = FALSE
            /\ closed' = TRUE
            /\ UNCHANGED <<gil, waiting>>

Joined(t) == /\ At(t, {"join"})
             /\ stack[Syncer] = <<>>
             /\ Goto(t, "returning")
             /\ UNCHANGED <<gil, waiting, syncing, closed>>

LoopExit == /\ stack[Syncer] = <<"loop">>
            /\ ~syncing
            /\ stack' = [stack EXCEPT ![Syncer] = <<>>]
            /\ UNCHANGED <<gil, waiting, syncing, closed>>

-----------------------------------------------------------------------------
Next == \/ \E t \in Threads : \/ Call(t) \/ Return(t) \/ CallHeld(t)
                              \/ Sent(t) \/ Received(t) \/ ReturnHeld(t)
                              \/ CallBack(t) \/ ReturnBack(t)
                              \/ Acquire(t) \/ Yield(t)
                              \/ Done(t) \/ ListenersDone(t)
        \/ \E t \in PyThreads : \/ StartSyncing(t) \/ StopSyncing(t)
                                \/ Close(t) \/ Joined(t)
        \/ LoopExit

(***************************************************************************)
(* The interpreter makes a thread that computes give way (the drop request *)
(* is honoured at the next bytecode that checks for it) and does not pass  *)
(* over a thread for ever; overrides, network exchanges (timeout_ms), sync *)
(* rounds and native work are finite.  Nothing makes Python call, or a     *)
(* wallet notify.                                                          *)
(***************************************************************************)
Fairness ==
    /\ SF_vars(\E t \in Threads : Yield(t))
    /\ \A t \in Threads :
         /\ SF_vars(Acquire(t))
         /\ \A d \in 2..MaxDepth : SF_vars(Depth(t) = d /\ ReturnBack(t))
         /\ SF_vars(Done(t) \/ ListenersDone(t))
         /\ WF_vars(Return(t) \/ Sent(t) \/ Received(t) \/ ReturnHeld(t))
    /\ \A t \in PyThreads :
         WF_vars(StartSyncing(t) \/ StopSyncing(t) \/ Close(t) \/ Joined(t))
    /\ SF_vars(LoopExit)

SafetySpec == Init /\ [][Next]_vars
Spec == SafetySpec /\ Fairness

-----------------------------------------------------------------------------
(* Every variable keeps its type; a blocked thread is one that is about to *)
(* run Python, and does not hold the GIL it waits for.                     *)
TypeOK == /\ gil \in Threads \cup {NoThread}
          /\ stack \in [Threads -> Seq(Frame)]
          /\ waiting \in SUBSET Threads
          /\ syncing \in BOOLEAN
          /\ closed \in BOOLEAN
          /\ \A t \in waiting : gil # t /\ At(t, {"python"})

(* Whatever the nesting of calls and callbacks, code that uses the Python  *)
(* API runs on the thread that holds the GIL: the bodies of the bindings   *)
(* without the guard, the overrides behind the trampolines, Python itself. *)
PythonUnderGil == \A t \in Threads : Inside(t) => gil = t

(* Native code that may wait for another thread (for the listener lock, or *)
(* in close for the background thread) does so without the GIL: the other  *)
(* thread may be waiting for it in a trampoline.                           *)
NativeWithoutGil == \A t \in Threads : At(t, Native) => gil # t

(* The frames of a thread nest as the bindings and trampolines allow: what *)
(* may lie right below a frame.                                            *)
RestsOn(f) == CASE f = "python" -> {"returning", "sync", "loop", "forwarded"}
               [] f = "loop"   -> {}
               [] OTHER        -> {"python"}
WellNested(s) == /\ Len(s) > 0 => s[1] \in {"python", "loop"}
                 /\ \A i \in 2..Len(s) : s[i - 1] \in RestsOn(s[i])

(* The strengthening that makes the two invariants inductive: stacks nest, *)
(* and the GIL is held exactly by the thread that executes under it.       *)
IInv == /\ TypeOK
        /\ \A t \in Threads : WellNested(stack[t])
        /\ \A t \in Threads : Inside(t) <=> gil = t

(* Seen from the interpreter, the calls and callbacks of all threads are   *)
(* one critical section with blocking entry.                               *)
Python == INSTANCE PythonMutex
            WITH inside <- {t \in Threads : Inside(t)}, wanting <- waiting
ImplementsPythonMutex == Python!SafetySpec

(* Every thread that waits to run Python gets its turn: no call, callback  *)
(* or wait of the native code keeps the others out for ever.               *)
EveryThreadGetsIn == \A t \in Threads : t \in waiting ~> Inside(t)

(* close returns, even when the background thread is inside a callback at  *)
(* the time or about to run one.                                           *)
CloseReturns == \A t \in PyThreads : At(t, {"join"}) ~> At(t, {"returning"})

(* add_, remove_ and get_listeners return, also inside a callback, and     *)
(* while another thread notifies.                                          *)
ListenerCallsReturn ==
    \A t \in Threads : At(t, Listening) ~> At(t, {"returning"})
=============================================================================
