----------------------------- MODULE MCReconciler -----------------------------
(* Instance of Reconciler: two interfaces, desired states that differ in one *)
(* respect each, so that every early return of the application plane and     *)
(* every reason to publish is reached.                                       *)
EXTENDS Reconciler

CONSTANTS i1, i2

Enforced ==
  [access |-> "blacklist", policy |-> "p1", classifier |-> "c1",
   requested |-> TRUE, valid |-> TRUE, tracking |-> FALSE, conflict |-> FALSE,
   interfaces |-> {i1}]

\* Every kind of change: another application policy and interface, another
\* classifier, an unusable policy, unsafe offload, correlation only.
AllDesires ==
  {Enforced,
   [Enforced EXCEPT !.policy = "p2", !.interfaces = {i1, i2}],
   [Enforced EXCEPT !.classifier = "c2"],
   [Enforced EXCEPT !.valid = FALSE, !.interfaces = {}],
   [Enforced EXCEPT !.conflict = TRUE],
   [Enforced EXCEPT !.requested = FALSE, !.tracking = TRUE],
   [Enforced EXCEPT !.requested = FALSE, !.access = Off]}

TwoPolicies == {Enforced, [Enforced EXCEPT !.policy = "p2"]}
================================================================================
