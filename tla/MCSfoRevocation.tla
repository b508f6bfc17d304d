---------------------------- MODULE MCSfoRevocation ----------------------------
(* Two flows, one of a known client; policies that restrict every scope.    *)
EXTENDS SfoRevocation

CONSTANTS tv, video

Policy(known, admit, default, enforce, apply, unknown) ==
  [known |-> known, access |-> [i \in known |-> admit], default |-> default,
   enforce |-> enforce, unknown |-> unknown,
   application |-> [k \in known \X {video} |-> apply]]

MCFlows == {[subject |-> tv, class |-> video], [subject |-> None, class |-> video]}

Watched == Policy({tv}, "allow", "allow", TRUE, "allow", "deny")
NoVideo == Policy({tv}, "allow", "allow", TRUE, "deny", "allow")
NoTv    == Policy({tv}, "deny", "allow", FALSE, "allow", "allow")
Closed  == Policy({tv}, "deny", "deny", TRUE, "allow", "deny")
\* The client is no longer, or not yet, known.
Unlisted == Policy({}, "allow", "allow", TRUE, "allow", "deny")
MCPolicies == {Watched, NoVideo, NoTv, Closed, Unlisted}

\* Everyone else is restricted and application enforcement starts, at once.
AllOpen == Policy({tv}, "allow", "allow", FALSE, "allow", "allow")
Strict  == Policy({tv}, "allow", "deny", TRUE, "deny", "allow")
MCBroadPolicies == {AllOpen, Strict}

Topology(offloading, ruleset) ==
  [offloading |-> offloading, ruleset |-> ruleset, helper |-> TRUE]
MCTopologies == {Topology(TRUE, "canonical"), Topology(FALSE, "none"), Topology(TRUE, "hardware")}

\* The router offloads, with application enforcement on or off.
MCInit == Init /\ desire \in {Watched, NoTv} /\ topology.offloading
MCSpec == MCInit /\ [][Next]_vars /\ Fairness
================================================================================
