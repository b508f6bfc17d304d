---------------------------- MODULE MCFlowDatapath ----------------------------
(* FlowDatapath on a small instance for TLC: two CPUs, two flows, a map that *)
(* the cfg sizes, and four snapshots.  The first only correlates flows;     *)
(* the second denies unclassified traffic and allows flow f1's class; the   *)
(* third denies that class, and its classifier also knows flow f2; the      *)
(* fourth allows the class again, and lowers the pending limit the third    *)
(* raised.                                                                  *)
EXTENDS FlowDatapath, TLC

CONSTANTS f1, f2, video

Permit(unclassified, video_) ==
  [f \in Flows |-> (Unclassified :> unclassified) @@ (video :> video_)]
Knows(known) ==
  [f \in Flows |-> IF f \in known THEN video ELSE Unclassified]
Shot(enforcing, generation, limit, known, unclassified, video_) ==
  [enforcing |-> enforcing, generation |-> generation, provisional |-> "ALLOW",
   limit |-> limit, class |-> Knows(known), policy |-> Permit(unclassified, video_)]

MCSnapshots ==
  <<Shot(FALSE, 1, 1, {f1},     "ALLOW", "ALLOW"),
    Shot(TRUE,  2, 1, {f1},     "DENY",  "ALLOW"),
    Shot(TRUE,  3, 2, {f1, f2}, "DENY",  "DENY"),
    Shot(TRUE,  4, 1, {f1, f2}, "DENY",  "ALLOW")>>

CPUSymmetry == Permutations(CPUs)
================================================================================
