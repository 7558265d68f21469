----------------------------- MODULE PythonMutex -----------------------------
(***************************************************************************)
(* What the bindings owe the interpreter, whatever the nesting of calls:   *)
(* the part of a thread that owns the interpreter is a critical section.   *)
(* A thread outside it asks, waits, enters when nobody is inside, and      *)
(* leaves; and every thread that waits is let in.                          *)
(***************************************************************************)
CONSTANT Threads

VARIABLES inside,   \* threads that own the interpreter: none or one
          wanting   \* threads blocked until they may enter

mutexVars == <<inside, wanting>>

Init == /\ \E t \in Threads : inside = {t}
        /\ wanting \in SUBSET (Threads \ inside)

\* A native thread that wants to run Python blocks.
Ask(t) == /\ t \notin inside \cup wanting
          /\ wanting' = wanting \cup {t}
          /\ UNCHANGED inside

Enter(t) == /\ inside = {}
            /\ t \in wanting
            /\ inside' = {t}
            /\ wanting' = wanting \ {t}

\* A thread goes native.
Leave(t) == /\ inside = {t}
            /\ inside' = {}
            /\ UNCHANGED wanting

\* The interpreter makes a thread give way to those that wait.
GiveWay(t) == /\ inside = {t}
              /\ wanting # {}
              /\ inside' = {}
              /\ wanting' = wanting \cup {t}

Next == \E t \in Threads : Ask(t) \/ Enter(t) \/ Leave(t) \/ GiveWay(t)

SafetySpec == Init /\ [][Next]_mutexVars

Spec == SafetySpec /\ \A t \in Threads : SF_mutexVars(Enter(t))
=============================================================================
