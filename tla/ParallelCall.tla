---------------------------- MODULE ParallelCall ----------------------------
(***************************************************************************)
(* What ThreadPool::parallelFor and parallelBlock promise the code that    *)
(* calls them (rapidsnark/depends/ffiasm/c/misc.hpp): one call at a time,  *)
(* func applied once to every element of the range, by threads whose       *)
(* numbers are below the pool's size and differ while they run, and no     *)
(* return before the last application has ended.  The loops of the prover  *)
(* (Groth16Prover) are written over this module.                           *)
(***************************************************************************)
EXTENDS Integers, FiniteSets

CONSTANTS
  NThreads,   \* threads of the pool, the caller's own included
  Callers,    \* threads that may call the pool
  Loops,      \* the sets of elements they call it for
  NoCall      \* nobody is inside a call

VARIABLES
  caller,     \* the thread inside the call, or NoCall
  todo,       \* elements func has not been applied to
  active      \* thread number -> the element it is at

pvars == <<caller, todo, active>>

ThreadIds == 0..NThreads-1
Busy == DOMAIN active

Init ==
  /\ caller = NoCall
  /\ todo = {}
  /\ active = [id \in {} |-> 0]

\* A caller is let in when no other call is in progress.
Enter(c, elements) ==
  /\ caller = NoCall
  /\ caller' = c
  /\ todo' = elements
  /\ UNCHANGED active

\* A free thread number takes an element.
Start(id, i) ==
  /\ id \in ThreadIds \ Busy
  /\ i \in todo
  /\ todo' = todo \ {i}
  /\ active' = [d \in Busy \cup {id} |-> IF d = id THEN i ELSE active[d]]
  /\ UNCHANGED caller

\* A thread goes from one element to the next of its range.
Continue(id, i) ==
  /\ id \in Busy
  /\ i \in todo
  /\ todo' = todo \ {i}
  /\ active' = [active EXCEPT ![id] = i]
  /\ UNCHANGED caller

\* A thread has reached the end of its range.
Finish(id) ==
  /\ id \in Busy
  /\ active' = [d \in Busy \ {id} |-> active[d]]
  /\ UNCHANGED <<caller, todo>>

Return ==
  /\ caller # NoCall
  /\ todo = {} /\ Busy = {}
  /\ caller' = NoCall
  /\ UNCHANGED <<todo, active>>

Next ==
  \/ \E c \in Callers, elements \in Loops : Enter(c, elements)
  \/ \E id \in ThreadIds, i \in todo : Start(id, i) \/ Continue(id, i)
  \/ \E id \in ThreadIds : Finish(id)
  \/ Return

Spec == Init /\ [][Next]_pvars

=============================================================================
