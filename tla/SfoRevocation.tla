----------------------------- MODULE SfoRevocation -----------------------------
(***************************************************************************)
(* Software flow offload and its revocation: the acceleration half of a    *)
(* reconciliation (executor.uc, sfo_manager.uc), the helper it runs        *)
(* (client-access-sfoctl), and the flows that netfilter offloads and that  *)
(* clients and servers keep using meanwhile.                               *)
(*                                                                         *)
(* An offloaded flow bypasses both planes.  A reconciliation publishes     *)
(* first and then has the helper delete conntrack entries: those of the    *)
(* flows recorded for a subject and class, or all offloaded ones (a        *)
(* baseline).  How a plane is published is Reconciler's subject: here it   *)
(* succeeds, keeps what it had, or (the application plane) is turned off.  *)
(* The helper's dump of a table is one step; dumps, deletions and packets  *)
(* interleave.                                                             *)
(***************************************************************************)
EXTENDS Integers, FiniteSets

CONSTANTS
  Identities,     \* identities, each with a subject id
  Classes,        \* application classes
  None,           \* no subject or class, nothing committed, no helper
  Flows,          \* client flows: [subject |-> Identities or None, class |-> ..]
  Policies,       \* the compiled policies the configuration goes through
  Topologies,     \* firewall configurations, rulesets, and installed helper
  BroadUnpublished, \* whether a restriction of everyone else may be kept
                  \* from being published: see PublishAccess
  MaxCandidates,  \* CA_SFO_MAX_CANDIDATES, CA_SFO_MAX_FALLBACK_EVICTIONS
  MaxPasses,      \* CA_SFO_MAX_VERIFICATION_PASSES
  Capacity,       \* CA_MAX_FLOWS
  MaxEvents       \* bound: commands that fail or miss their deadline, and
                  \* configuration changes, reloads and deaths of the daemon

Verdicts == {"allow", "deny"}

\* A compiled policy p has, for the identities it knows, an access verdict and
\* one for each class; default and unknown are those of everyone else.
ASSUME PolicyAssumption ==
  \A p \in Policies :
    /\ p.known \subseteq Identities
    /\ p.access \in [p.known -> Verdicts]
    /\ p.application \in [p.known \X Classes -> Verdicts]
    /\ {p.default, p.unknown} \subseteq Verdicts
    /\ p.enforce \in BOOLEAN
ASSUME FlowAssumption ==
  \A f \in Flows : f.subject \in Identities \cup {None} /\ f.class \in Classes
Rulesets == {"none", "canonical", "custom", "hardware"}
ASSUME TopologyAssumption ==
  \A t \in Topologies :
    t.ruleset \in Rulesets /\ {t.offloading, t.helper} \subseteq BOOLEAN

ASSUME BroadAssumption == BroadUnpublished \in BOOLEAN
\* None is no value of a configuration, nor is the class of what is unclassified.
ASSUME NoneAssumption ==
  /\ None \notin Identities /\ None \notin Classes /\ None \notin Policies
  /\ None # "unclassified" /\ "unclassified" \notin Classes
ASSUME BoundAssumption ==
  {MaxCandidates, MaxPasses, Capacity, MaxEvents} \subseteq Nat

VARIABLES
  desire,         \* the policy the configuration asks for
  topology,       \* the firewall
  access,         \* the access policy last published, None before the first
  application,    \* the application plane: what runs, and which policy
  filled,         \* whether the nft sets of each plane hold what was published
  ct,             \* conntrack: no entry, an entry, or one that is offloaded
  recorded,       \* ca_flows: the class recorded for a flow
  exhausted,      \* flow_map_full: a record was refused at some time
  authorization,  \* committed.authorization.snapshot
  applied,        \* committed.application: what it believes is running
  sfo,            \* committed.acceleration
  status,         \* authorization_convergence of the last reconciliation
  attempt,        \* the reconciliation in progress, or None
  helper,         \* the client-access-sfoctl in progress, or None
  answer,         \* what the last one answered, until it is absorbed
  pc,             \* what the daemon does next
  stale,          \* history: flows offloaded since before what denies them
  spent           \* events so far

world  == <<desire, topology>>
planes == <<access, application, filled>>
flows  == <<ct, recorded, exhausted>>
daemon == <<authorization, applied, sfo, status>>
vars == <<desire, topology, access, application, filled, ct, recorded, exhausted,
          authorization, applied, sfo, status, attempt, helper, answer, pc,
          stale, spent>>

Scopes == {"access", "application"}
Planes == Scopes \cup {"acceleration"}
Modes == {"NO_OFFLOAD", "SFO_AVAILABLE", "SFO_ACTIVE", "SFO_DEGRADED",
          "SFO_BACKEND_MISSING", "HFO_UNSUPPORTED",
          "CUSTOM_OFFLOAD_UNSUPPORTED", "OFFLOAD_UNVERIFIABLE"}
Runtimes == {"off", "tracking", "enforcing"}
PCs == {"down", "idle", "access", "application", "manage", "baseline", "status",
        "gc", "broad", "settle", "targeted", "fallback"}
Waiting == {"baseline", "status", "gc", "broad", "targeted", "fallback"}

Neutral == [runtime |-> "off", policy |-> None]
\* state_schema.acceleration
NoAcceleration == [mode |-> "NO_OFFLOAD", baseline |-> TRUE]

\* The keys of an authorization: a plane, an identity and a class, or None.
KeySpace == Scopes \X (Identities \cup {None}) \X (Classes \cup {None})
Answers  == {"COMPLETE", "FAILED"}
Attempt  == [policy : Policies, mode : Modes, due : SUBSET KeySpace,
             ok : [Scopes -> BOOLEAN], published : [Scopes -> BOOLEAN],
             tracking : BOOLEAN, broad : Answers \cup {None},
             current : KeySpace \cup {None}, settled : SUBSET KeySpace]
Helpers  == [op : {"baseline", "status", "gc", "revoke"},
             subject : Identities \cup {None}, class : Classes \cup {None},
             pass : Nat, step : {"collect", "scan", "delete"},
             candidates : SUBSET Flows, listed : SUBSET Flows]
\* None is no answer and no authorization.
ASSUME AbsentAssumption ==
  /\ None \notin Answers
  /\ \A keys \in SUBSET KeySpace : None \notin [keys -> Verdicts]

TypeOK ==
  /\ desire \in Policies /\ topology \in Topologies
  /\ access \in Policies \cup {None}
  /\ application.runtime \in Runtimes
  /\ application.policy \in Policies \cup {None}
  /\ filled \in [Scopes -> BOOLEAN]
  /\ ct \in [Flows -> {"none", "open", "software", "hardware"}]
  /\ recorded \in [Flows -> Classes \cup {"unclassified", None}]
  /\ exhausted \in BOOLEAN
  /\ applied \in Runtimes
  /\ sfo.mode \in Modes /\ sfo.baseline \in BOOLEAN
  /\ status \in [Planes -> BOOLEAN]
  /\ pc \in PCs
  /\ IF pc \in {"down", "idle"} THEN attempt = None ELSE attempt \in Attempt
  /\ helper # None => helper \in Helpers /\ pc \in Waiting /\ answer = None
  /\ answer \in Answers \cup {None}
  /\ stale \subseteq {f \in Flows : ct[f] \in {"software", "hardware"}}

Init ==
  /\ desire \in Policies /\ topology \in Topologies
  /\ access = None /\ application = Neutral
  /\ filled = [s \in Scopes |-> FALSE]
  /\ ct = [f \in Flows |-> "none"]
  /\ recorded = [f \in Flows |-> None]
  /\ exhausted = FALSE
  /\ authorization = None /\ applied = "off" /\ sfo = NoAcceleration
  /\ status = [p \in Planes |-> FALSE]
  /\ attempt = None /\ helper = None /\ answer = None
  /\ pc = "down"
  /\ stale = {}
  /\ spent = 0

Event  == spent < MaxEvents /\ spent' = spent + 1
Fault  == Event
Change == Event

--------------------------------------------------------------------------------
(* Authorization: what a policy says, as keys with verdicts.               *)

Keys(p) ==
  {<<s, None, None>> : s \in Scopes}
    \cup {<<"access", i, None>> : i \in p.known}
    \cup {<<"application", i, c>> : i \in p.known, c \in Classes}

\* effective_snapshot
EffectiveSnapshot(p) ==
  [k \in Keys(p) |->
     IF k[1] = "access" THEN (IF k[2] = None THEN p.default ELSE p.access[k[2]])
     ELSE IF ~p.enforce THEN "allow"
     ELSE IF k[2] = None THEN p.unknown ELSE p.application[<<k[2], k[3]>>]]

\* plan_transitions, the restrictive ones: nothing is done about the others.
Restrictions(previous, current) ==
  {k \in DOMAIN previous \cap DOMAIN current :
     previous[k] = "allow" /\ current[k] = "deny"}

Broad(transitions) == \E k \in transitions : k[2] = None

\* Mutant: what was planned is committed, published or not.
AdvanceAnyway(previous, current, ok) == current

\* advance_authorization
Advance(previous, current, ok) ==
  LET old  == IF previous = None THEN <<>> ELSE previous
      news == {k \in DOMAIN current : ok[k[1]]}
  IN  [k \in DOMAIN old \cup news |-> IF k \in news THEN current[k] ELSE old[k]]

\* What the planes say of a flow.
AccessVerdict(p, f) ==
  IF p = None THEN "allow"
  ELSE IF f.subject \in p.known THEN p.access[f.subject] ELSE p.default
ApplicationVerdict(a, f) ==
  IF a.runtime # "enforcing" THEN "allow"
  ELSE IF f.subject \in a.policy.known THEN a.policy.application[<<f.subject, f.class>>]
  ELSE a.policy.unknown

Offloaded(f) == ct[f] \in {"software", "hardware"}

\* The flows that a publication begins to deny and that the daemon is to evict.
\* While it knows of no previous verdicts, or believes enforcement off, it is to
\* evict them all, by a baseline.  Else it plans from the verdicts it committed,
\* key by key, so that a flow counts only if the key that denies it is the one
\* that allowed it; if access, for its part, was published since the daemon
\* started; and if a flow of a known identity has the record (of its class) by
\* which targeted revocation finds it.
NewlyClosed(p) ==
  {f \in Flows :
     /\ AccessVerdict(access, f) = "allow" /\ AccessVerdict(p, f) = "deny"
     /\ authorization # None =>
          /\ <<"access", None, None>> \in DOMAIN authorization
          /\ f.subject \in access.known <=> f.subject \in p.known
          /\ f.subject \in p.known => recorded[f] # None}
NewlyBarred(now) ==
  {f \in Flows :
     /\ ApplicationVerdict(application, f) = "allow" /\ ApplicationVerdict(now, f) = "deny"
     /\ applied = "enforcing" =>
          /\ f.subject \in application.policy.known <=> f.subject \in now.policy.known
          /\ f.subject \in now.policy.known => recorded[f] = f.class}

\* History: of these, the offloaded ones, as long as a publication denies them.
Restale(newly) ==
  stale' = {f \in Flows : Offloaded(f) /\
              (f \in newly \/ (f \in stale /\
                 "deny" \in {AccessVerdict(access', f), ApplicationVerdict(application', f)}))}
Unstale == stale' = {f \in stale : ct'[f] = ct[f]}

--------------------------------------------------------------------------------
(* Flows.                                                                  *)

CanOffload == topology.ruleset # "none"
Accelerated == IF topology.ruleset = "hardware" THEN "hardware" ELSE "software"

\* The record of a flow after a packet of the client, and its verdict.  The
\* first packet admitted to classification is given the provisional verdict;
\* admission may be refused (by a rate limit) and the flow left unclassified.
Room == Cardinality({f \in Flows : recorded[f] # None}) < Capacity
Records(f) ==
  LET class   == recorded[f]
      same    == [class |-> class, verdict |-> ApplicationVerdict(application, f)]
      fresh   == class \in {None, "unclassified"}
      unknown == application.runtime = "off" \/ f.subject \notin application.policy.known
  IN  IF unknown \/ (application.runtime = "enforcing" /\ ~fresh) THEN {same}
      ELSE {[class |-> c, verdict |-> "allow"] :
              c \in IF application.runtime = "enforcing" THEN {f.class, "unclassified"}
                    ELSE {IF class = None THEN "unclassified" ELSE class}}

\* A packet of the client: recorded at TC ingress, then forwarded past both
\* planes if the flow is offloaded, else dropped or accepted; an accepted one
\* creates the conntrack entry, or may have its flow offloaded.
ClientPacket(f) ==
  /\ \E record \in Records(f) :
       /\ IF recorded[f] # None \/ record.class = None \/ Room
          THEN recorded' = [recorded EXCEPT ![f] = record.class] /\ UNCHANGED exhausted
          ELSE exhausted' = TRUE /\ UNCHANGED recorded
       /\ LET dropped == \/ filled["access"] /\ AccessVerdict(access, f) = "deny"
                         \/ filled["application"] /\ record.verdict = "deny"
          IN  \/ (Offloaded(f) \/ dropped) /\ UNCHANGED ct
              \/ /\ ~Offloaded(f) /\ ~dropped
                 /\ \/ ct' = [ct EXCEPT ![f] = "open"]
                    \/ /\ ct[f] = "open" /\ CanOffload
                       /\ ct' = [ct EXCEPT ![f] = Accelerated]
  /\ UNCHANGED <<world, planes, daemon, attempt, helper, answer, pc, stale, spent>>

\* A packet of the server passes neither plane.
ServerPacket(f) ==
  /\ ct[f] = "open" /\ CanOffload
  /\ ct' = [ct EXCEPT ![f] = Accelerated]
  /\ UNCHANGED <<world, planes, recorded, exhausted, daemon, attempt, helper,
                 answer, pc, stale, spent>>

\* The flowtable and conntrack time out.
Timeout(f) ==
  /\ ct[f] # "none"
  /\ ct' = [ct EXCEPT ![f] = IF Offloaded(f) THEN "open" ELSE "none"]
  /\ Unstale
  /\ UNCHANGED <<world, planes, recorded, exhausted, daemon, attempt, helper,
                 answer, pc, spent>>

--------------------------------------------------------------------------------
(* The daemon.                                                             *)

\* offload_capability, of a ruleset that could be listed or not
Capability(t, checked) ==
  IF ~checked THEN "OFFLOAD_UNVERIFIABLE"
  ELSE IF t.ruleset = "hardware" THEN "HFO_UNSUPPORTED"
  ELSE IF t.ruleset = "custom" \/ (~t.offloading /\ t.ruleset # "none")
  THEN "CUSTOM_OFFLOAD_UNSUPPORTED"
  ELSE IF ~t.offloading THEN (IF t.helper THEN "SFO_AVAILABLE" ELSE "NO_OFFLOAD")
  ELSE IF t.ruleset # "canonical" THEN "OFFLOAD_UNVERIFIABLE"
  ELSE IF t.helper THEN "SFO_ACTIVE" ELSE "SFO_BACKEND_MISSING"

OffloadPresent(mode) == mode \notin {"NO_OFFLOAD", "SFO_AVAILABLE"}

\* The daemon runs the helper and waits for its answer.
Run(op, subject, class, where) ==
  /\ helper' = [op |-> op, subject |-> subject, class |-> class, pass |-> 1,
                step |-> IF op \in {"revoke", "gc"} THEN "collect" ELSE "scan",
                candidates |-> {}, listed |-> {}]
  /\ answer' = None /\ pc' = where
NoRun(where) == helper' = None /\ answer' = None /\ pc' = where
Answered(where) == pc = where /\ answer # None

\* reconcile_once: what was observed, and the transitions it plans
Begin ==
  /\ pc = "idle"
  /\ \E checked \in BOOLEAN :
       /\ IF checked THEN UNCHANGED spent ELSE Fault
       /\ attempt' =
            [policy |-> desire, mode |-> Capability(topology, checked),
             due |-> IF authorization = None THEN {}
                     ELSE Restrictions(authorization, EffectiveSnapshot(desire)),
             ok |-> [s \in Scopes |-> FALSE], published |-> [s \in Scopes |-> FALSE],
             tracking |-> FALSE, broad |-> None, current |-> None, settled |-> {}]
  /\ NoRun("access")
  /\ UNCHANGED <<world, planes, flows, daemon, stale>>

\* One nft transaction: the sets hold the new policy, or what they held.
PublishAccess ==
  /\ pc = "access" /\ pc' = "application"
  /\ \/ LET p == attempt.policy
        IN  /\ access' = p /\ filled' = [filled EXCEPT !["access"] = TRUE]
            /\ attempt' = [attempt EXCEPT !.ok["access"] = TRUE,
                                          !.published["access"] = TRUE]
            /\ UNCHANGED <<application, spent>>
            /\ Restale(NewlyClosed(p))
     \/ /\ BroadUnpublished \/ ~Broad(attempt.due)
        /\ Fault
        /\ UNCHANGED <<planes, attempt, stale>>
  /\ UNCHANGED <<world, flows, daemon, helper, answer>>

\* Mutant: flows offloaded while enforcement was off are forgotten.
NewlyEnforcingForgotten(enabled) == FALSE

\* Enforcement that was off lets flows be offloaded that no transition names.
NewlyEnforcing(enabled) ==
  /\ attempt.mode = "SFO_ACTIVE" /\ applied # "enforcing" /\ enabled
  /\ ~Broad(attempt.due)

\* application_reconcile.apply and the health check after it.
ApplicationDone(now, set, ok, enabled) ==
  LET p == attempt.policy
      tracking == now.runtime # "off"
  IN  /\ application' = now /\ applied' = now.runtime /\ UNCHANGED access
      /\ filled' = [filled EXCEPT !["application"] = set]
      /\ attempt' = [attempt EXCEPT !.ok["application"] = ok, !.tracking = tracking,
                                    !.published["application"] = ok \/ ~p.enforce]
      /\ sfo' = [sfo EXCEPT !.baseline = @ \/ NewlyEnforcing(enabled)]
      /\ Restale(NewlyBarred(now))

PublishApplication ==
  /\ pc = "application" /\ pc' = "manage"
  /\ LET p == attempt.policy
         required == attempt.mode = "SFO_ACTIVE"
         refused  == p.enforce /\ ~required /\ OffloadPresent(attempt.mode)
         off      == ~p.enforce /\ ~required
         new == [runtime |-> IF p.enforce THEN "enforcing" ELSE "tracking", policy |-> p]
     IN  \/ (off \/ refused) /\ ApplicationDone(Neutral, FALSE, off, FALSE) /\ UNCHANGED spent
         \/ ~off /\ ~refused /\ ApplicationDone(new, p.enforce, TRUE, p.enforce) /\ UNCHANGED spent
         \/ ~off /\ ~refused /\ ApplicationDone(Neutral, FALSE, FALSE, FALSE) /\ Fault
         \/ /\ ~off /\ ~refused /\ applied # "off"
            /\ ApplicationDone(application, applied = "enforcing", FALSE, TRUE) /\ Fault
  /\ UNCHANGED <<world, flows, authorization, status, helper, answer>>

\* After the backend is managed: revoke_transitions, the broad part first.
ToRevoke(acceleration) ==
  IF /\ attempt.mode = "SFO_ACTIVE" /\ acceleration.mode = "SFO_ACTIVE"
     /\ Broad({k \in attempt.due : attempt.published[k[1]]})
  THEN Run("baseline", None, None, "broad") ELSE NoRun("settle")

\* Mutant: a mode that status does not know.
DegradedMisnamed(baseline) == sfo' = [mode |-> "DEGRADED", baseline |-> baseline]

Degraded(baseline) == sfo' = [mode |-> "SFO_DEGRADED", baseline |-> baseline]

Managing == UNCHANGED <<world, planes, flows, authorization, applied, status, stale, spent>>

\* sfo_manager.reconcile
Manage ==
  /\ pc = "manage"
  /\ \/ /\ attempt.mode # "SFO_ACTIVE"
        /\ sfo' = [mode |-> attempt.mode, baseline |-> TRUE]
        /\ NoRun("settle")
     \/ /\ attempt.mode = "SFO_ACTIVE" /\ ~(attempt.tracking /\ ~exhausted /\ Room)
        /\ Degraded(TRUE)
        /\ NoRun("settle")
     \/ /\ attempt.mode = "SFO_ACTIVE" /\ attempt.tracking /\ ~exhausted /\ Room
        /\ sfo' = [sfo EXCEPT !.mode = "SFO_ACTIVE"]
        /\ IF sfo.mode # "SFO_ACTIVE" \/ sfo.baseline
           THEN Run("baseline", None, None, "baseline")
           ELSE Run("status", None, None, "status")
  /\ Managing /\ UNCHANGED attempt
Baselined ==
  /\ Answered("baseline")
  /\ IF answer = "COMPLETE"
     THEN sfo' = [sfo EXCEPT !.baseline = FALSE] /\ Run("status", None, None, "status")
     ELSE Degraded(sfo.baseline) /\ ToRevoke(sfo')
  /\ Managing /\ UNCHANGED attempt
Checked ==
  /\ Answered("status")
  /\ IF answer = "COMPLETE"
     THEN UNCHANGED sfo /\ Run("gc", None, None, "gc")
     ELSE Degraded(sfo.baseline) /\ ToRevoke(sfo')
  /\ Managing /\ UNCHANGED attempt
\* reconcile_gc
Collected ==
  /\ Answered("gc")
  /\ IF answer = "COMPLETE" THEN UNCHANGED sfo ELSE Degraded(TRUE)
  /\ ToRevoke(sfo')
  /\ Managing /\ UNCHANGED attempt

\* Mutant: a broad revocation that failed leaves nothing to be retried.
BroadlyRevokedForgotten ==
  /\ Answered("broad")
  /\ attempt' = [attempt EXCEPT !.broad = answer]
  /\ UNCHANGED sfo /\ NoRun("settle")
  /\ Managing

\* The result of the broad baseline is that of every transition.
BroadlyRevoked ==
  /\ Answered("broad")
  /\ IF answer = "COMPLETE" THEN UNCHANGED sfo ELSE Degraded(TRUE)
  /\ attempt' = [attempt EXCEPT !.broad = answer]
  /\ NoRun("settle")
  /\ Managing

Revocable ==
  IF sfo.mode = "SFO_ACTIVE" /\ attempt.mode = "SFO_ACTIVE" /\ attempt.broad = None
  THEN {k \in attempt.due : attempt.published[k[1]]} \ attempt.settled ELSE {}
Revoke(k) ==
  /\ pc = "settle" /\ k \in Revocable
  /\ Run("revoke", k[2], k[3], "targeted")
  /\ attempt' = [attempt EXCEPT !.current = k]
  /\ Managing /\ UNCHANGED sfo
Settle == attempt' = [attempt EXCEPT !.settled = @ \cup {attempt.current}]
Revoked ==
  /\ Answered("targeted")
  /\ IF answer = "COMPLETE" THEN Settle /\ NoRun("settle")
     ELSE UNCHANGED attempt /\ Run("baseline", None, None, "fallback")
  /\ Managing /\ UNCHANGED sfo
FellBack ==
  /\ Answered("fallback")
  /\ IF answer = "COMPLETE" THEN Settle /\ UNCHANGED sfo
     ELSE UNCHANGED attempt /\ Degraded(TRUE)
  /\ NoRun("settle")
  /\ Managing

\* What is not settled needs no revocation, or failed; commit.apply and the
\* convergence that status.uc projects.
Finish ==
  /\ pc = "settle" /\ Revocable = {}
  /\ LET present == OffloadPresent(attempt.mode)
         failed == {k \in attempt.due \ attempt.settled :
                      \/ ~attempt.published[k[1]]
                      \/ present /\ attempt.broad # "COMPLETE"}
     IN  status' = [p \in Planes |->
                      IF p = "acceleration" THEN present => sfo.mode = "SFO_ACTIVE"
                      ELSE attempt.published[p] /\ \A k \in failed : k[1] # p]
  /\ authorization' = Advance(authorization, EffectiveSnapshot(attempt.policy), attempt.ok)
  /\ attempt' = None /\ pc' = "idle"
  /\ UNCHANGED <<world, planes, flows, applied, sfo, helper, answer, stale, spent>>

--------------------------------------------------------------------------------
(* client-access-sfoctl.                                                   *)

Helping(op, step) == helper # None /\ helper.op \in op /\ helper.step = step
Answer(a) == helper' = None /\ answer' = a
Outside == UNCHANGED <<world, planes, daemon, attempt, pc>>

\* collect_candidates: the records of a subject and class, or (gc) all of them
Collect ==
  /\ Helping({"revoke", "gc"}, "collect")
  /\ LET found == {f \in Flows : recorded[f] # None /\
                     (helper.op = "revoke" =>
                        f.subject = helper.subject /\ helper.class \in {None, recorded[f]})}
     IN  IF helper.op = "revoke" /\ Cardinality(found) > MaxCandidates
         THEN Answer("FAILED")
         ELSE helper' = [helper EXCEPT !.candidates = found, !.step = "scan"]
              /\ UNCHANGED answer
  /\ Outside /\ UNCHANGED <<flows, stale, spent>>

\* scan_cb: one dump of conntrack
Hardware == \E f \in Flows : ct[f] = "hardware"
Matching(candidates) == {f \in candidates : ct[f] # "none"}

\* A pass lists what it is to delete.  Nothing left is success.
Pass(found) ==
  /\ IF Hardware \/ Cardinality(found) > MaxCandidates THEN Answer("FAILED")
     ELSE IF found = {} THEN Answer("COMPLETE")
     ELSE helper' = [helper EXCEPT !.listed = found, !.step = "delete"] /\ UNCHANGED answer
  /\ Outside /\ UNCHANGED <<flows, stale, spent>>
RevokePass   == Helping({"revoke"}, "scan") /\ Pass(Matching(helper.candidates))
BaselinePass == Helping({"baseline"}, "scan") /\ Pass({f \in Flows : ct[f] = "software"})
Delete ==
  /\ Helping({"revoke", "baseline"}, "delete")
  /\ ct' = [f \in Flows |-> IF f \in helper.listed THEN "none" ELSE ct[f]]
  /\ Unstale
  /\ IF helper.pass = MaxPasses THEN Answer("FAILED")
     ELSE helper' = [helper EXCEPT !.pass = @ + 1, !.step = "scan"] /\ UNCHANGED answer
  /\ Outside /\ UNCHANGED <<recorded, exhausted, spent>>

\* run_status
Status ==
  /\ Helping({"status"}, "scan")
  /\ Answer(IF Hardware THEN "FAILED" ELSE "COMPLETE")
  /\ Outside /\ UNCHANGED <<flows, stale, spent>>
\* run_gc
FindAbsent ==
  /\ Helping({"gc"}, "scan")
  /\ IF Hardware THEN Answer("FAILED")
     ELSE /\ helper' = [helper EXCEPT !.step = "delete", !.candidates = @ \ Matching(@)]
          /\ UNCHANGED answer
  /\ Outside /\ UNCHANGED <<flows, stale, spent>>
\* The records of flows without a conntrack entry, those that were idle.
Reclaim ==
  /\ Helping({"gc"}, "delete")
  /\ \E idle \in SUBSET helper.candidates :
       recorded' = [f \in Flows |-> IF f \in idle THEN None ELSE recorded[f]]
  /\ Answer("COMPLETE")
  /\ Outside /\ UNCHANGED <<ct, exhausted, stale, spent>>

\* A syscall fails or the deadline passes; what was listed may be deleted in part.
HelperFails ==
  /\ helper # None /\ Fault
  /\ \E gone \in SUBSET helper.listed :
       ct' = [f \in Flows |-> IF f \in gone /\ helper.step = "delete" THEN "none" ELSE ct[f]]
  /\ Unstale
  /\ Answer("FAILED")
  /\ Outside /\ UNCHANGED <<recorded, exhausted>>

--------------------------------------------------------------------------------
(* The rest of the world.                                                  *)

Configure(p) ==
  /\ Change
  /\ p # desire /\ desire' = p
  /\ UNCHANGED <<topology, planes, flows, daemon, attempt, helper, answer, pc, stale>>

\* fw4 replaces its ruleset: the sets are empty, the flowtable is gone.
Reload(t) ==
  /\ Change
  /\ t.helper = topology.helper
  /\ topology' = t
  /\ filled' = [s \in Scopes |-> FALSE]
  /\ ct' = [f \in Flows |-> IF Offloaded(f) THEN "open" ELSE ct[f]]
  /\ Unstale
  /\ UNCHANGED <<desire, access, application, recorded, exhausted, daemon, attempt,
                 helper, answer, pc>>

\* The daemon dies; a helper it ran may only go on to delete more.
Crash ==
  /\ Change
  /\ pc # "down" /\ pc' = "down"
  /\ authorization' = None /\ applied' = "off" /\ sfo' = NoAcceleration
  /\ status' = [p \in Planes |-> FALSE]
  /\ attempt' = None /\ helper' = None /\ answer' = None
  /\ UNCHANGED <<world, planes, flows, stale>>
\* neutralize_startup, whose result is not looked at
Start ==
  /\ pc = "down" /\ pc' = "idle"
  /\ \/ /\ application' = Neutral /\ filled' = [filled EXCEPT !["application"] = FALSE]
        /\ UNCHANGED spent
     \/ Fault /\ UNCHANGED <<application, filled>>
  /\ stale' = {f \in stale : "deny" \in {AccessVerdict(access, f),
                                         ApplicationVerdict(application', f)}}
  /\ UNCHANGED <<world, access, flows, daemon, attempt, helper, answer>>

Reconciliation ==
  \/ Begin \/ PublishAccess \/ PublishApplication \/ Manage \/ Baselined \/ Checked
  \/ Collected \/ BroadlyRevoked \/ Revoked
  \/ pc = "settle" /\ \E k \in attempt.due : Revoke(k)
  \/ FellBack \/ Finish
Helper == Collect \/ RevokePass \/ BaselinePass \/ Delete \/ Status \/ FindAbsent \/ Reclaim
Traffic == \E f \in Flows : ClientPacket(f) \/ ServerPacket(f) \/ Timeout(f)
World == \/ \E p \in Policies : Configure(p)
         \/ \E t \in Topologies : Reload(t)
         \/ Crash \/ Start
Next == Reconciliation \/ Helper \/ HelperFails \/ Traffic \/ World

\* A started daemon reconciles again (its timer is armed after every attempt),
\* a process that runs goes on, and procd starts a daemon that died.  Nothing is
\* asked of the traffic: flows may never time out.
Fairness == WF_vars(Reconciliation) /\ WF_vars(Helper) /\ WF_vars(Start)
Spec == Init /\ [][Next]_vars /\ Fairness

--------------------------------------------------------------------------------
(* Properties.                                                             *)

\* When a reconciliation reports that a plane and the acceleration converged, and
\* the firewall is the one it saw, no flow that the plane denies is still offloaded
\* that the daemon was to evict (NewlyClosed, NewlyBarred): every way through
\* executor.execute and sfo_manager (targeted, broad, fallback, baseline, retry
\* after a failure or a death) evicts it, or does not say CONVERGED; the failure
\* of one plane does not excuse the other.  This is less than what src/README.md
\* promises of restrictive changes (lines 89-93): a flow may stay offloaded that
\* is denied under a key which the daemon had committed no verdict for, since an
\* identity came or went, or since access, after a start, was not published at
\* the first attempt.
StaleEvicted ==
  (pc = "idle" /\ status["acceleration"] /\ sfo.mode = Capability(topology, TRUE)) =>
    \A f \in stale :
      /\ status["access"] => AccessVerdict(access, f) = "allow"
      /\ status["application"] => ApplicationVerdict(application, f) = "allow"

\* Transitions are planned from what was committed, so every verdict that a plane
\* decides by must be committed as it is: of access, once it was published since
\* the daemon started, and of application filtering while it is believed to be
\* enforced; also after publications that failed, kept the previous policy or were
\* neutralised, and when identities come and go.
Agrees(s, p) ==
  p # None /\ \A k \in Keys(p) :
    k[1] = s => k \in DOMAIN authorization /\ authorization[k] = EffectiveSnapshot(p)[k]
AuthorizationTruthful ==
  pc = "idle" /\ authorization # None =>
    /\ (\E k \in DOMAIN authorization : k[1] = "access") => Agrees("access", access)
    /\ applied = "enforcing" => Agrees("application", application.policy)

\* A flow that the daemon is to evict does not stay offloaded for ever, whatever
\* the clients and servers send, as long as offloading is the canonical one and
\* the record of flows is not full and a baseline is not too large: failed and
\* late revocations are retried.  What the daemon is not to evict (see
\* StaleEvicted) may stay for as long as packets keep it alive.
EventuallyEvicted ==
  stale # {} ~> \/ stale = {}
                \/ Capability(topology, TRUE) # "SFO_ACTIVE"
                \/ exhausted \/ ~Room
                \/ Cardinality({f \in Flows : Offloaded(f)}) > MaxCandidates
================================================================================
