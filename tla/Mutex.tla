------------------------------- MODULE Mutex -------------------------------
(***************************************************************************)
(* What a lock promises: it has at most one holder, who alone gives it     *)
(* back.                                                                   *)
(***************************************************************************)
CONSTANTS Contexts,   \* who may hold the lock
          Nobody      \* not a context

VARIABLE holder

Init == holder = Nobody

Acquire(c) == holder = Nobody /\ holder' = c

Release(c) == holder = c /\ holder' = Nobody

Next == \E c \in Contexts : Acquire(c) \/ Release(c)

Spec == Init /\ [][Next]_holder
=============================================================================
