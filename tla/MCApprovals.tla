------------------------------ MODULE MCApprovals ------------------------------
(* Approvals on a small instance for TLC: one identity, one identity with a  *)
(* category of applications, and a wall clock that may be found invalid,     *)
(* late or early.  The verdicts below the approvals are functions of the     *)
(* wall clock and of the configured classes (PolicyCompilation and           *)
(* Classification): in each state they are evaluated for all schedules, and  *)
(* for all class trees that the configuration may have.                      *)
EXTENDS Approvals, PolicyCompilation

\* A class that is not configured is no parent.
Configured(parent) ==
  \A c \in Profiles : parent[c] \notin Targets \ known

\* A verdict compiled now is the one its windows prescribe at every minute
\* until the daemon looks again, over midnights and the end of the week, in
\* both modes.
VerdictStands == wall % WeekMinutes \notin Misjudged

\* A category's rule reaches every class below it that no nearer rule takes
\* out, and a DENY is never lost to an ALLOW of the same class or to the default.
NearestRuleDecides == \A parent \in Misruled : ~Configured(parent)

\* When an approval ends, exactly the classes which it alone had opened return
\* to DENY and are handed to revocation: none below an approved category is
\* forgotten, and none that another approval still covers is cut off.
ApprovalEndRevokes == \A parent \in Misrevoked : ~Configured(parent)

\* The class of an address depends on what is claimed of it and on nothing
\* else: not on the order in which observations arrived or are sorted
\* (merge_claims folds from the left), nor on how many observations the claims
\* are spread over (resolve merges the merged).
MergedByEvidence == \A parent \in Misnamed : ~Configured(parent)

\* The TC program sees only the nearest category of a class.  It never gives a
\* flow another class than the daemon gives the same evidence: at worst, and
\* only where categories are nested, it takes agreement for a conflict and
\* leaves the flow unclassified.
DatapathAgrees == \A parent \in Misread : ~Configured(parent)
================================================================================
