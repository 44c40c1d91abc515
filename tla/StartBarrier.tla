---------------------------- MODULE StartBarrier ----------------------------
(***************************************************************************)
(* What start-up promises a program that runs on every hart: the image is  *)
(* initialised once, by the boot hart, and no hart leaves start-up before  *)
(* the image is ready and every hart has come to the barrier.  HartSync    *)
(* is the code that implements this.                                       *)
(***************************************************************************)
CONSTANTS Harts,      \* the harts of the machine
          BootHart    \* the hart that initialises the image

VARIABLES ready,      \* the boot hart has finished initialising the image
          arrived,    \* the harts that have come to the barrier
          released    \* the harts that have left it

barrierVars == <<ready, arrived, released>>

Init == ready = FALSE /\ arrived = {} /\ released = {}

FinishInit ==
    /\ ~ready
    /\ ready' = TRUE
    /\ UNCHANGED <<arrived, released>>

\* The boot hart comes to the barrier with the image initialised.
Arrive(h) ==
    /\ h \notin arrived
    /\ h = BootHart => ready
    /\ arrived' = arrived \cup {h}
    /\ UNCHANGED <<ready, released>>

Release(h) ==
    /\ arrived = Harts
    /\ h \notin released
    /\ released' = released \cup {h}
    /\ UNCHANGED <<ready, arrived>>

Next == FinishInit \/ \E h \in Harts : Arrive(h) \/ Release(h)

SafeSpec == Init /\ [][Next]_barrierVars

Spec == SafeSpec /\ WF_barrierVars(Next)
=============================================================================
