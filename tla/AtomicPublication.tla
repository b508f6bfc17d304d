--------------------------- MODULE AtomicPublication ---------------------------
(***************************************************************************)
(* What the TC datapath is promised about the application policy: a packet *)
(* is processed entirely under ONE published snapshot, the one that was    *)
(* current when it copied the control record.  There are no slots, no      *)
(* tables and no controller processes here: publishing is one step, and    *)
(* so is reading any part of the snapshot.                                 *)
(***************************************************************************)
EXTENDS Integers

CONSTANT CPUs           \* CPUs that run the classifier program

VARIABLES
  current,    \* the version of the published snapshot; 0 before the first
  enabled,    \* whether packets are processed at all
  busy,       \* busy[c]: CPU c is inside the program
  using,      \* using[c]: the version CPU c's packet runs under
  basis       \* basis[c]: the versions CPU c's packet has read from

vars == <<current, enabled, busy, using, basis>>

Init ==
  /\ current = 0
  /\ enabled = FALSE
  /\ busy  = [c \in CPUs |-> FALSE]
  /\ using = [c \in CPUs |-> 0]
  /\ basis = [c \in CPUs |-> {}]

\* A new snapshot, never seen before, replaces the current one in one step.
Publish ==
  /\ current' \in Nat
  /\ current' > current
  /\ enabled' \in BOOLEAN
  /\ UNCHANGED <<busy, using, basis>>

\* The datapath is switched off; the snapshot stays the current one.
Disable ==
  /\ enabled' = FALSE
  /\ UNCHANGED <<current, busy, using, basis>>

Begin(c) ==
  /\ enabled
  /\ ~busy[c]
  /\ busy'  = [busy EXCEPT ![c] = TRUE]
  /\ using' = [using EXCEPT ![c] = current]
  /\ basis' = [basis EXCEPT ![c] = {}]
  /\ UNCHANGED <<current, enabled>>

\* Whatever the packet reads, it reads from the snapshot it began with.
Consult(c) ==
  /\ busy[c]
  /\ basis' = [basis EXCEPT ![c] = @ \cup {using[c]}]
  /\ UNCHANGED <<current, enabled, busy, using>>

Finish(c) ==
  /\ busy[c]
  /\ busy' = [busy EXCEPT ![c] = FALSE]
  /\ UNCHANGED <<current, enabled, using, basis>>

Next ==
  \/ Publish
  \/ Disable
  \/ \E c \in CPUs : Begin(c) \/ Consult(c) \/ Finish(c)

Spec == Init /\ [][Next]_vars
================================================================================
