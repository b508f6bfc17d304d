----------------------------- MODULE MCTcLifecycle -----------------------------
(* Two interfaces, a reload of the object, and every kind of disturbance.   *)
EXTENDS TcLifecycle, TLC

CONSTANTS lan, guest

Symmetry == Permutations({lan, guest})
================================================================================
