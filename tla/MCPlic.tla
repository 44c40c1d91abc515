------------------------------- MODULE MCPlic -------------------------------
(* Instances of Plic: how the contexts of a board belong to its harts. *)
EXTENDS Plic

\* One context for each hart, of the hart's number.
SameNumber == [h \in Harts |-> h]

\* As on a part whose hart 0 has machine mode only and whose other harts have
\* two contexts, for machine and supervisor mode.
TwoModes == [h \in Harts |-> IF h = 0 THEN 0 ELSE 2*h - 1]
=============================================================================
