---------------------------- MODULE ApprovalLedger ----------------------------
(***************************************************************************)
(* What temporary approvals promise their users: a ledger of grants in     *)
(* which each request takes effect in one step.  A grant leaves the ledger *)
(* only because it was revoked, replaced by another one for its target, or *)
(* had lapsed; once revoked it never returns.  There is no daemon here, no *)
(* journal, no publication and nothing that fails or dies.                 *)
(***************************************************************************)
VARIABLES
  granted,    \* the grants in effect
  lapsed,     \* grants seen expired, or without a valid target
  revoked     \* grants that were revoked

vars == <<granted, lapsed, revoked>>

Init ==
  /\ granted = {}
  /\ lapsed  = {}
  /\ revoked = {}

\* Lapsed grants may be dropped together with any other change.
Drop(kept) == kept \in {g \in SUBSET granted : granted \ g \subseteq lapsed'}

Lapse == lapsed \subseteq lapsed'

Grant(l) ==
  /\ l \notin granted \cup revoked
  /\ \E kept \in SUBSET granted :
       /\ \A g \in granted \ kept : g.target = l.target \/ g \in lapsed
       /\ \A g \in kept : g.target # l.target
       /\ granted' = kept \cup {l}
  /\ UNCHANGED <<lapsed, revoked>>

Revoke(l) ==
  /\ l \in granted
  /\ Lapse
  /\ revoked' = revoked \cup {l}
  /\ \E kept \in SUBSET granted : Drop(kept) /\ granted' = kept \ {l}

Forget ==
  /\ Lapse
  /\ Drop(granted')
  /\ UNCHANGED revoked

Next ==
  \/ \E l \in granted' : Grant(l)
  \/ \E l \in granted : Revoke(l)
  \/ Forget

Spec == Init /\ [][Next]_vars
================================================================================
