-------------------------- MODULE SfoRevocationProofs --------------------------
(***************************************************************************)
(* Proofs about SfoRevocation, for any identities, classes, flows, policies*)
(* and topologies and any number of failures, reloads and deaths: the      *)
(* types; that what the planes decide by is committed; and, provided that  *)
(* restrictions of everyone else are published when planned, that a        *)
(* reconciliation that reports convergence has evicted what it was to.     *)
(***************************************************************************)
EXTENDS SfoRevocation, TLAPS

--------------------------------------------------------------------------------
(* The inductive invariant and its parts.                                  *)

\* What each variable is.
Typed ==
  /\ desire \in Policies /\ topology \in Topologies
  /\ access \in Policies \cup {None}
  /\ application \in [runtime : Runtimes, policy : Policies \cup {None}]
  /\ filled \in [Scopes -> BOOLEAN]
  /\ ct \in [Flows -> {"none", "open", "software", "hardware"}]
  /\ recorded \in [Flows -> Classes \cup {"unclassified", None}]
  /\ exhausted \in BOOLEAN
  /\ applied \in Runtimes
  /\ sfo \in [mode : Modes, baseline : BOOLEAN]
  /\ status \in [Planes -> BOOLEAN]
  /\ pc \in PCs
  /\ authorization # None =>
       /\ DOMAIN authorization \in SUBSET KeySpace
       /\ authorization \in [DOMAIN authorization -> Verdicts]
  /\ IF pc \in {"down", "idle"} THEN attempt = None ELSE attempt \in Attempt
  /\ pc \in {"targeted", "fallback"} => attempt.current \in attempt.due
  /\ helper # None => helper \in Helpers /\ pc \in Waiting /\ answer = None
  /\ answer \in Answers \cup {None}
  /\ stale \subseteq {f \in Flows : Offloaded(f)}
  /\ spent \in Nat

\* Where the daemon is: before it has managed the acceleration, and after.
Publishing == {"access", "application", "manage"}
Revoking   == {"settle", "targeted", "fallback"}
Resting    == {"down", "idle"}

\* A daemon that has died has forgotten everything.
Dead ==
  pc = "down" =>
    /\ authorization = None /\ applied = "off" /\ sfo = NoAcceleration
    /\ ~status["acceleration"]

\* Which helper runs, and what is known of the acceleration.
Control ==
  /\ helper # None /\ pc \in {"baseline", "broad", "fallback"} => helper.op = "baseline"
  /\ helper # None /\ pc \in {"status", "gc"} => helper.op = pc
  /\ helper # None /\ pc = "targeted" =>
       /\ helper.op = "revoke"
       /\ helper.subject = attempt.current[2] /\ helper.class = attempt.current[3]
  /\ pc \in Waiting => attempt.mode = "SFO_ACTIVE" /\ sfo.mode = "SFO_ACTIVE"
  /\ pc = "settle" /\ attempt.mode # "SFO_ACTIVE" => sfo.mode = attempt.mode
  /\ pc \notin Resting \cup Revoking => attempt.settled = {} /\ attempt.broad = None
  /\ pc \in Resting /\ status["acceleration"] =>
       sfo.mode \in {"SFO_ACTIVE", "NO_OFFLOAD", "SFO_AVAILABLE"}

\* What the planes run.
Running ==
  /\ application.runtime # "off" =>
       /\ application.policy \in Policies
       /\ application.policy.enforce <=> application.runtime = "enforcing"
  /\ applied # "off" => applied = application.runtime

\* Whether the attempt in progress has published a plane, and its part of the
\* authorization.
Accepted(s) == pc \notin Resting /\ attempt.ok[s]
Scoped(s)   == {k \in DOMAIN authorization : k[1] = s}

\* What the planes decide by is committed, except for a plane that this attempt has
\* published: what it is going to commit of that is what the plane decides by.
Committed ==
  /\ pc = "access" => ~attempt.ok["access"] /\ ~attempt.published["access"]
  /\ pc \in {"access", "application"} =>
       ~attempt.ok["application"] /\ ~attempt.published["application"]
  /\ pc \notin Resting => attempt.published["access"] = attempt.ok["access"]
  /\ Accepted("access") => access = attempt.policy
  /\ Accepted("application") /\ applied = "enforcing" => application.policy = attempt.policy
  /\ authorization # None /\ ~Accepted("access") /\ Scoped("access") # {} =>
       Agrees("access", access)
  /\ authorization # None /\ ~Accepted("application") /\ applied = "enforcing" =>
       Agrees("application", application.policy)
  /\ authorization = None /\ ~Accepted("application") => applied = "off"

\* What is planned from.
Planned ==
  /\ pc \in {"idle"} \cup Publishing /\ sfo.mode = "SFO_ACTIVE" => authorization # None
  /\ authorization # None \/ pc \notin {"down", "idle", "access", "application"} =>
       applied = application.runtime
  /\ pc \notin Resting =>
       attempt.due = IF authorization = None THEN {}
                     ELSE Restrictions(authorization, EffectiveSnapshot(attempt.policy))
  /\ pc \notin Resting \cup {"access"} /\ Broad(attempt.due) => attempt.ok["access"]

\* A flow is evicted by a transition that was published: by a baseline if it is
\* broad, else by a revocation that finds the flow's record.
Due == {k \in attempt.due : attempt.published[k[1]]}
Finds(k, f) == recorded[f] # None /\ f.subject = k[2] /\ k[3] \in {None, recorded[f]}
Covered(f) == \E k \in Due : k[2] = None \/ Finds(k, f)
Sought(k, f) ==
  pc = "targeted" /\ k = attempt.current =>
    /\ helper # None /\ helper.step # "collect" => f \in helper.candidates
    /\ answer # "COMPLETE"
Pending(f) == \E k \in Due \ attempt.settled : Finds(k, f) /\ Sought(k, f)

\* Whatever is offloaded in spite of a publication is to be evicted before the
\* acceleration is reported active.
Debt ==
  /\ ~CanOffload => \A f \in Flows : ~Offloaded(f)
  /\ pc = "idle" /\ sfo.mode = "SFO_ACTIVE" => stale = {}
  /\ pc \in Publishing /\ attempt.mode = "SFO_ACTIVE" /\ sfo.mode = "SFO_ACTIVE" /\ ~sfo.baseline =>
       \A f \in stale : Covered(f)
  /\ pc \in {"status", "gc", "broad"} => \A f \in stale : Covered(f)
  /\ pc \in Revoking /\ sfo.mode = "SFO_ACTIVE" =>
       IF attempt.broad = None THEN \A f \in stale : Pending(f) ELSE stale = {}
  /\ pc \in {"baseline", "broad", "fallback"} /\ answer = "COMPLETE" => stale = {}
  /\ helper # None /\ helper.op = "gc" /\ helper.step = "delete" =>
       helper.candidates \cap stale = {}

--------------------------------------------------------------------------------
(* What a policy says.                                                     *)

\* The keys of a policy: the two planes, the known identities, their classes.
LEMMA KeyShapes ==
  ASSUME NEW p \in Policies
  PROVE  /\ Keys(p) \subseteq KeySpace
         /\ \A k \in Keys(p) :
              /\ k[1] \in Scopes
              /\ k[2] = None \/ k[2] \in p.known
              /\ k[3] = None \/ k[3] \in Classes
              /\ k[1] = "access" \/ k[2] = None => k[3] = None
              /\ k[1] = "application" /\ k[2] # None => k[3] \in Classes
<1>1. p.known \subseteq Identities /\ None \notin p.known
  BY NoneAssumption, PolicyAssumption
<1>2. SUFFICES ASSUME NEW k \in Keys(p)
      PROVE  /\ k \in KeySpace /\ k[1] \in Scopes
             /\ k[2] = None \/ k[2] \in p.known
             /\ k[3] = None \/ k[3] \in Classes
             /\ k[1] = "access" \/ k[2] = None => k[3] = None
             /\ k[1] = "application" /\ k[2] # None => k[3] \in Classes
  OBVIOUS
<1>3. CASE \E s \in Scopes : k = <<s, None, None>>
  BY <1>3 DEF KeySpace
<1>4. CASE \E i \in p.known : k = <<"access", i, None>>
  BY <1>1, <1>4 DEF KeySpace, Scopes
<1>5. CASE \E i \in p.known, c \in Classes : k = <<"application", i, c>>
  BY <1>1, <1>5 DEF KeySpace, Scopes
<1>. QED  BY <1>2, <1>3, <1>4, <1>5 DEF Keys

\* EffectiveSnapshot, case by case.
LEMMA SnapshotCases ==
  ASSUME NEW p \in Policies, NEW k \in Keys(p)
  PROVE  /\ k[1] = "access" /\ k[2] = None => EffectiveSnapshot(p)[k] = p.default
         /\ k[1] = "access" /\ k[2] # None => EffectiveSnapshot(p)[k] = p.access[k[2]]
         /\ k[1] # "access" /\ ~p.enforce => EffectiveSnapshot(p)[k] = "allow"
         /\ k[1] # "access" /\ p.enforce /\ k[2] = None => EffectiveSnapshot(p)[k] = p.unknown
         /\ k[1] # "access" /\ p.enforce /\ k[2] # None
              => EffectiveSnapshot(p)[k] = p.application[<<k[2], k[3]>>]
<1>1. p.enforce \in BOOLEAN
  BY PolicyAssumption
<1>. QED  BY <1>1 DEF EffectiveSnapshot

\* EffectiveSnapshot gives every key of the policy a verdict.
LEMMA SnapshotTyped ==
  ASSUME NEW p \in Policies
  PROVE  EffectiveSnapshot(p) \in [Keys(p) -> Verdicts]
<1>1. ASSUME NEW k \in Keys(p)
      PROVE  EffectiveSnapshot(p)[k] \in Verdicts
  <2>1. /\ p.known \subseteq Identities
        /\ p.access \in [p.known -> Verdicts]
        /\ p.application \in [p.known \X Classes -> Verdicts]
        /\ p.default \in Verdicts /\ p.unknown \in Verdicts
        /\ p.enforce \in BOOLEAN
    BY PolicyAssumption
  <2>2. /\ k[1] \in Scopes
        /\ k[2] # None => k[2] \in p.known
        /\ k[1] = "application" /\ k[2] # None => k[3] \in Classes
    BY KeyShapes
  <2>3. k[1] # "access" => k[1] = "application"
    BY <2>2 DEF Scopes
  <2>4. k[1] = "access" /\ k[2] # None => p.access[k[2]] \in Verdicts
    BY <2>1, <2>2
  <2>5. k[1] # "access" /\ k[2] # None => <<k[2], k[3]>> \in p.known \X Classes
    BY <2>2, <2>3
  <2>6. k[1] # "access" /\ k[2] # None => p.application[<<k[2], k[3]>>] \in Verdicts
    BY <2>1, <2>5
  <2>8. "allow" \in Verdicts
    BY DEF Verdicts
  <2>. QED  BY <2>1, <2>4, <2>6, <2>8, SnapshotCases
<1>2. EffectiveSnapshot(p) = [k \in Keys(p) |-> EffectiveSnapshot(p)[k]]
  BY DEF EffectiveSnapshot
<1>. QED  BY <1>1, <1>2

\* The verdict EffectiveSnapshot has for everyone else, an identity, a class.
LEMMA SnapshotSays ==
  ASSUME NEW p \in Policies
  PROVE  /\ <<"access", None, None>> \in Keys(p)
         /\ EffectiveSnapshot(p)[<<"access", None, None>>] = p.default
         /\ \A i \in p.known :
              /\ <<"access", i, None>> \in Keys(p)
              /\ EffectiveSnapshot(p)[<<"access", i, None>>] = p.access[i]
         /\ <<"application", None, None>> \in Keys(p)
         /\ p.enforce => EffectiveSnapshot(p)[<<"application", None, None>>] = p.unknown
         /\ \A i \in p.known, c \in Classes :
              /\ <<"application", i, c>> \in Keys(p)
              /\ p.enforce => EffectiveSnapshot(p)[<<"application", i, c>>] = p.application[<<i, c>>]
<1>1. /\ <<"access", None, None>> \in Keys(p)
      /\ <<"application", None, None>> \in Keys(p)
      /\ \A i \in p.known : <<"access", i, None>> \in Keys(p)
      /\ \A i \in p.known, c \in Classes : <<"application", i, c>> \in Keys(p)
  BY DEF Keys, Scopes
<1>2. None \notin p.known
  BY PolicyAssumption, NoneAssumption
<1>3. /\ <<"access", None, None>>[1] = "access" /\ <<"access", None, None>>[2] = None
      /\ <<"application", None, None>>[1] # "access" /\ <<"application", None, None>>[2] = None
  OBVIOUS
<1>4. ASSUME NEW i \in p.known
      PROVE  <<"access", i, None>>[1] = "access" /\ <<"access", i, None>>[2] = i /\ i # None
  BY <1>2
<1>5. ASSUME NEW i \in p.known, NEW c \in Classes
      PROVE  /\ <<"application", i, c>>[1] # "access" /\ <<"application", i, c>>[2] = i
             /\ <<"application", i, c>>[3] = c /\ i # None
  BY <1>2
<1>6. /\ EffectiveSnapshot(p)[<<"access", None, None>>] = p.default
      /\ p.enforce => EffectiveSnapshot(p)[<<"application", None, None>>] = p.unknown
  BY <1>1, <1>3, SnapshotCases
<1>7. \A i \in p.known : EffectiveSnapshot(p)[<<"access", i, None>>] = p.access[i]
  BY <1>1, <1>4, SnapshotCases
<1>8. ASSUME NEW i \in p.known, NEW c \in Classes, p.enforce
      PROVE  EffectiveSnapshot(p)[<<"application", i, c>>] = p.application[<<i, c>>]
  BY <1>1, <1>5, <1>8, SnapshotCases
<1>. QED  BY <1>1, <1>6, <1>7, <1>8

\* advance_authorization: the keys of the planes that were published take the new
\* verdict, the others keep the committed one, and no key is lost.
LEMMA Advancing ==
  ASSUME NEW previous, NEW p \in Policies, NEW ok \in [Scopes -> BOOLEAN],
         previous # None => /\ DOMAIN previous \in SUBSET KeySpace
                            /\ previous \in [DOMAIN previous -> Verdicts],
         NEW committed, committed = Advance(previous, EffectiveSnapshot(p), ok)
  PROVE  /\ committed # None
         /\ DOMAIN committed \in SUBSET KeySpace
         /\ committed \in [DOMAIN committed -> Verdicts]
         /\ \A k \in DOMAIN committed :
              \/ /\ k \in Keys(p) /\ ok[k[1]]
                 /\ committed[k] = EffectiveSnapshot(p)[k]
              \/ /\ previous # None /\ k \in DOMAIN previous
                 /\ ~(k \in Keys(p) /\ ok[k[1]])
                 /\ committed[k] = previous[k]
         /\ \A k \in Keys(p) : ok[k[1]] => k \in DOMAIN committed
         /\ previous # None => DOMAIN previous \subseteq DOMAIN committed
<1> DEFINE current == EffectiveSnapshot(p)
           K == Keys(p)
           D == DOMAIN previous
<1>0. current \in [K -> Verdicts] /\ K \in SUBSET KeySpace
  BY SnapshotTyped, KeyShapes
<1> HIDE DEF current, K
<1> DEFINE old  == IF previous = None THEN <<>> ELSE previous
           news == {k \in DOMAIN current : ok[k[1]]}
           next == [k \in DOMAIN old \cup news |-> IF k \in news THEN current[k] ELSE old[k]]
<1>1. committed = next
  BY DEF Advance, current
<1>2. DOMAIN next = DOMAIN old \cup news
  OBVIOUS
<1>3. /\ previous = None => DOMAIN old = {}
      /\ previous # None => old = previous /\ DOMAIN old = D
  OBVIOUS
<1>4. news \subseteq K /\ \A k \in K : k \in news <=> ok[k[1]]
  BY <1>0
<1>5. \A k \in DOMAIN next : next[k] = IF k \in news THEN current[k] ELSE old[k]
  OBVIOUS
<1> HIDE DEF next, news, old
<1>6. \A k \in DOMAIN next : next[k] \in Verdicts
  BY <1>0, <1>2, <1>3, <1>4, <1>5
<1>7. DOMAIN next \in SUBSET KeySpace
  BY <1>0, <1>2, <1>3, <1>4
<1>8. next \in [DOMAIN next -> Verdicts]
  <2>1. next = [k \in DOMAIN next |-> next[k]]
    BY DEF next
  <2>. QED  BY <2>1, <1>6
<1>9. next # None
  BY <1>7, <1>8, AbsentAssumption
<1>10. \A k \in DOMAIN next :
              \/ /\ k \in K /\ ok[k[1]] /\ next[k] = current[k]
              \/ /\ previous # None /\ k \in D /\ ~(k \in K /\ ok[k[1]])
                 /\ next[k] = previous[k]
  BY <1>2, <1>3, <1>4, <1>5
<1>11. /\ \A k \in K : ok[k[1]] => k \in DOMAIN next
       /\ previous # None => D \subseteq DOMAIN next
  BY <1>2, <1>3, <1>4
<1>. QED  BY <1>1, <1>7, <1>8, <1>9, <1>10, <1>11 DEF current, K

\* An attempt that has published access, field by field.
LEMMA AccessAccepted ==
  ASSUME NEW a \in Attempt, NEW b,
         b = [a EXCEPT !.ok["access"] = TRUE, !.published["access"] = TRUE]
  PROVE  /\ b \in Attempt
         /\ b.policy = a.policy /\ b.mode = a.mode /\ b.due = a.due
         /\ b.broad = a.broad /\ b.current = a.current /\ b.settled = a.settled
         /\ b.tracking = a.tracking
         /\ b.ok["access"] /\ b.published["access"]
         /\ b.ok["application"] = a.ok["application"]
         /\ b.published["application"] = a.published["application"]
BY DEF Attempt, Scopes

--------------------------------------------------------------------------------
(* Types.                                                                  *)

\* offload_capability answers with a mode that status knows.
LEMMA CapabilityModes ==
  ASSUME NEW t \in Topologies, NEW checked \in BOOLEAN
  PROVE  Capability(t, checked) \in Modes
BY DEF Capability, Modes

\* The transitions that a reconciliation plans are keys.
LEMMA Restricting ==
  ASSUME NEW previous, NEW p \in Policies
  PROVE  Restrictions(previous, EffectiveSnapshot(p)) \in SUBSET KeySpace
<1>1. DOMAIN EffectiveSnapshot(p) = Keys(p)
  BY SnapshotTyped
<1>. QED  BY <1>1, KeyShapes DEF Restrictions

\* A helper that is started, field by field.
LEMMA RunStarts ==
  ASSUME NEW op \in {"baseline", "status", "gc", "revoke"},
         NEW subject \in Identities \cup {None}, NEW class \in Classes \cup {None},
         NEW where, Run(op, subject, class, where)
  PROVE  /\ helper' \in Helpers /\ answer' = None /\ pc' = where
         /\ helper'.op = op /\ helper'.subject = subject /\ helper'.class = class
         /\ op = "revoke" => helper'.step = "collect"
         /\ helper'.step # "delete"
BY DEF Run, Helpers

\* Every variable starts with its type.
LEMMA InitTyped == Init => Typed
<1>. SUFFICES ASSUME Init PROVE Typed
  OBVIOUS
<1>1. application \in [runtime : Runtimes, policy : Policies \cup {None}]
  BY DEF Init, Neutral, Runtimes
<1>2. sfo \in [mode : Modes, baseline : BOOLEAN]
  BY DEF Init, NoAcceleration, Modes
<1>. QED  BY <1>1, <1>2 DEF Init, Typed, PCs, Runtimes

\* Begin keeps the types.
LEMMA BeginTyped == ASSUME Typed, Begin PROVE Typed'
<1>1. attempt' \in Attempt
  <2>1. PICK checked \in BOOLEAN :
          attempt' =
            [policy |-> desire, mode |-> Capability(topology, checked),
             due |-> IF authorization = None THEN {}
                     ELSE Restrictions(authorization, EffectiveSnapshot(desire)),
             ok |-> [s \in Scopes |-> FALSE], published |-> [s \in Scopes |-> FALSE],
             tracking |-> FALSE, broad |-> None, current |-> None, settled |-> {}]
    BY DEF Begin
  <2>2. Capability(topology, checked) \in Modes
    BY CapabilityModes DEF Typed
  <2>3. Restrictions(authorization, EffectiveSnapshot(desire)) \in SUBSET KeySpace
    BY Restricting DEF Typed
  <2>. QED  BY <2>1, <2>2, <2>3 DEF Typed, Attempt
<1>2. spent' \in Nat
  BY DEF Begin, Fault, Event, Typed
<1>3. pc' = "access" /\ helper' = None /\ answer' = None
  BY DEF Begin, NoRun
<1>4. UNCHANGED <<desire, topology, access, application, filled, ct, recorded, exhausted,
                  authorization, applied, sfo, status, stale>>
  BY DEF Begin, world, planes, flows, daemon
<1>. QED  BY <1>1, <1>2, <1>3, <1>4 DEF Typed, PCs, Offloaded

\* Only offloaded flows are ever counted as stale.
LEMMA RestaleOffloaded ==
  ASSUME NEW newly, Restale(newly), UNCHANGED ct
  PROVE  stale' \subseteq {f \in Flows : Offloaded(f)'}
BY DEF Restale, Offloaded

\* PublishAccess keeps the types.
LEMMA PublishAccessTyped == ASSUME Typed, PublishAccess PROVE Typed'
<1>0. attempt \in Attempt /\ pc = "access" /\ pc' = "application"
  BY DEF Typed, PublishAccess, PCs
<1>1. UNCHANGED <<desire, topology, ct, recorded, exhausted, authorization, applied, sfo,
                  status, helper, answer>>
  BY DEF PublishAccess, world, flows, daemon
<1>2. CASE UNCHANGED <<access, application, filled, attempt, stale>> /\ Fault
  BY <1>0, <1>1, <1>2 DEF Typed, PCs, Offloaded, Fault, Event, Waiting
<1>3. CASE \E newly :
             /\ access' = attempt.policy /\ filled' = [filled EXCEPT !["access"] = TRUE]
             /\ attempt' = [attempt EXCEPT !.ok["access"] = TRUE,
                                           !.published["access"] = TRUE]
             /\ UNCHANGED <<application, spent>>
             /\ Restale(newly)
  <2>1. attempt' \in Attempt
    BY <1>0, <1>3, AccessAccepted
  <2>2. stale' \subseteq {f \in Flows : Offloaded(f)'}
    BY <1>1, <1>3, RestaleOffloaded
  <2>3. access' \in Policies /\ filled' \in [Scopes -> BOOLEAN]
    BY <1>0, <1>3 DEF Typed, Attempt, Scopes
  <2>. QED  BY <1>0, <1>1, <1>3, <2>1, <2>2, <2>3 DEF Typed, PCs, Waiting
<1>. QED  BY <1>2, <1>3 DEF PublishAccess, planes

\* What ApplicationDone leaves behind.
LEMMA AppliedPlane ==
  ASSUME NEW now \in [runtime : Runtimes, policy : Policies \cup {None}],
         NEW set \in BOOLEAN, NEW ok \in BOOLEAN, NEW enabled \in BOOLEAN,
         Typed, pc = "application", ApplicationDone(now, set, ok, enabled)
  PROVE  /\ application' = now /\ applied' = now.runtime /\ access' = access
         /\ filled' \in [Scopes -> BOOLEAN]
         /\ attempt' \in Attempt /\ attempt \in Attempt
         /\ attempt'.policy = attempt.policy /\ attempt'.mode = attempt.mode
         /\ attempt'.due = attempt.due /\ attempt'.broad = attempt.broad
         /\ attempt'.settled = attempt.settled
         /\ attempt'.ok["access"] = attempt.ok["access"]
         /\ attempt'.published["access"] = attempt.published["access"]
         /\ attempt'.ok["application"] = ok
         /\ attempt'.published["application"] = (ok \/ ~attempt.policy.enforce)
         /\ attempt'.tracking = (now.runtime # "off")
         /\ sfo' \in [mode : Modes, baseline : BOOLEAN]
         /\ sfo'.mode = sfo.mode
         /\ sfo'.baseline = (sfo.baseline \/ NewlyEnforcing(enabled))
         /\ Restale(NewlyBarred(now))
<1>0. attempt \in Attempt
  BY DEF Typed, PCs
<1>1. attempt.policy.enforce \in BOOLEAN
  BY <1>0, PolicyAssumption DEF Attempt
<1>2. NewlyEnforcing(enabled) \in BOOLEAN
  BY DEF NewlyEnforcing
<1>3. sfo \in [mode : Modes, baseline : BOOLEAN]
  BY DEF Typed
<1>4. sfo' = [sfo EXCEPT !.baseline = sfo.baseline \/ NewlyEnforcing(enabled)]
  BY DEF ApplicationDone
<1>5. /\ sfo' \in [mode : Modes, baseline : BOOLEAN]
      /\ sfo'.mode = sfo.mode
      /\ sfo'.baseline = (sfo.baseline \/ NewlyEnforcing(enabled))
  BY <1>2, <1>3, <1>4
<1>6. attempt' = [attempt EXCEPT !.ok["application"] = ok, !.tracking = now.runtime # "off",
                                 !.published["application"] = ok \/ ~attempt.policy.enforce]
  BY DEF ApplicationDone
<1>7. /\ attempt' \in Attempt
      /\ attempt'.policy = attempt.policy /\ attempt'.mode = attempt.mode
      /\ attempt'.due = attempt.due /\ attempt'.broad = attempt.broad
      /\ attempt'.settled = attempt.settled
      /\ attempt'.ok["access"] = attempt.ok["access"]
      /\ attempt'.published["access"] = attempt.published["access"]
      /\ attempt'.ok["application"] = ok
      /\ attempt'.published["application"] = (ok \/ ~attempt.policy.enforce)
      /\ attempt'.tracking = (now.runtime # "off")
  BY <1>0, <1>1, <1>6 DEF Attempt, Scopes
<1>8. filled' \in [Scopes -> BOOLEAN]
  BY DEF ApplicationDone, Typed, Scopes
<1>. QED  BY <1>0, <1>5, <1>7, <1>8 DEF ApplicationDone

\* The outcomes of application_reconcile.apply.
ApplicationOutcome(now, set, ok, enabled) ==
  LET p        == attempt.policy
      required == attempt.mode = "SFO_ACTIVE"
      refused  == p.enforce /\ ~required /\ OffloadPresent(attempt.mode)
      off      == ~p.enforce /\ ~required
  IN  \/ (off \/ refused) /\ now = Neutral /\ ok = off /\ set = FALSE /\ enabled = FALSE
      \/ /\ ~off /\ ~refused /\ ok = TRUE /\ set = p.enforce /\ enabled = p.enforce
         /\ now = [runtime |-> IF p.enforce THEN "enforcing" ELSE "tracking", policy |-> p]
      \/ ~off /\ ~refused /\ now = Neutral /\ ok = FALSE /\ set = FALSE /\ enabled = FALSE
      \/ /\ ~off /\ ~refused /\ applied # "off"
         /\ now = application /\ set = (applied = "enforcing") /\ ok = FALSE /\ enabled = TRUE

\* PublishApplication is one of the outcomes of application_reconcile.apply.
LEMMA PublishingApplication ==
  ASSUME Typed, PublishApplication
  PROVE  /\ pc = "application" /\ pc' = "manage"
         /\ UNCHANGED <<desire, topology, ct, recorded, exhausted, authorization, status,
                        helper, answer>>
         /\ spent' \in Nat
         /\ \E now \in [runtime : Runtimes, policy : Policies \cup {None}],
               set \in BOOLEAN, ok \in BOOLEAN, enabled \in BOOLEAN :
              /\ ApplicationOutcome(now, set, ok, enabled)
              /\ ApplicationDone(now, set, ok, enabled)
<1>0. attempt \in Attempt /\ pc = "application" /\ pc' = "manage"
  BY DEF Typed, PublishApplication, PCs
<1>1. attempt.policy \in Policies /\ attempt.policy.enforce \in BOOLEAN
  BY <1>0, PolicyAssumption DEF Attempt
<1>2. UNCHANGED <<desire, topology, ct, recorded, exhausted, authorization, status,
                  helper, answer>>
  BY DEF PublishApplication, world, flows
<1>3. spent' \in Nat
  <2>1. spent' = spent \/ Fault
    BY Zenon DEF PublishApplication
  <2>. QED  BY <2>1 DEF Typed, Fault, Event
<1> DEFINE Now == [runtime : Runtimes, policy : Policies \cup {None}]
           new == [runtime |-> IF attempt.policy.enforce THEN "enforcing" ELSE "tracking",
                   policy |-> attempt.policy]
           required == attempt.mode = "SFO_ACTIVE"
           refused  == attempt.policy.enforce /\ ~required /\ OffloadPresent(attempt.mode)
           off      == ~attempt.policy.enforce /\ ~required
<1>4. Neutral \in Now /\ application \in Now /\ new \in Now
  BY <1>1 DEF Neutral, Typed, Runtimes
<1>5. off \in BOOLEAN /\ refused \in BOOLEAN /\ (applied = "enforcing") \in BOOLEAN
  BY <1>1 DEF OffloadPresent
<1>6. \/ (off \/ refused) /\ ApplicationDone(Neutral, FALSE, off, FALSE)
      \/ /\ ~off /\ ~refused
         /\ ApplicationDone(new, attempt.policy.enforce, TRUE, attempt.policy.enforce)
      \/ ~off /\ ~refused /\ ApplicationDone(Neutral, FALSE, FALSE, FALSE)
      \/ /\ ~off /\ ~refused /\ applied # "off"
         /\ ApplicationDone(application, applied = "enforcing", FALSE, TRUE)
  BY DEF PublishApplication
<1>7. CASE (off \/ refused) /\ ApplicationDone(Neutral, FALSE, off, FALSE)
  <2>1. ApplicationOutcome(Neutral, FALSE, off, FALSE)
    BY <1>7 DEF ApplicationOutcome
  <2>. QED  BY <1>0, <1>2, <1>3, <1>4, <1>5, <1>7, <2>1
<1>8. CASE /\ ~off /\ ~refused
           /\ ApplicationDone(new, attempt.policy.enforce, TRUE, attempt.policy.enforce)
  <2>1. ApplicationOutcome(new, attempt.policy.enforce, TRUE, attempt.policy.enforce)
    BY <1>8 DEF ApplicationOutcome
  <2>. QED  BY <1>0, <1>1, <1>2, <1>3, <1>4, <1>5, <1>8, <2>1
<1>9. CASE ~off /\ ~refused /\ ApplicationDone(Neutral, FALSE, FALSE, FALSE)
  <2>1. ApplicationOutcome(Neutral, FALSE, FALSE, FALSE)
    BY <1>9 DEF ApplicationOutcome
  <2>. QED  BY <1>0, <1>2, <1>3, <1>4, <1>5, <1>9, <2>1
<1>10. CASE /\ ~off /\ ~refused /\ applied # "off"
            /\ ApplicationDone(application, applied = "enforcing", FALSE, TRUE)
  <2>1. ApplicationOutcome(application, applied = "enforcing", FALSE, TRUE)
    BY <1>10 DEF ApplicationOutcome
  <2>. QED  BY <1>0, <1>2, <1>3, <1>4, <1>5, <1>10, <2>1
<1>. QED  BY <1>6, <1>7, <1>8, <1>9, <1>10

\* PublishApplication keeps the types.
LEMMA PublishApplicationTyped == ASSUME Typed, PublishApplication PROVE Typed'
<1>1. PICK now \in [runtime : Runtimes, policy : Policies \cup {None}],
           set \in BOOLEAN, ok \in BOOLEAN, enabled \in BOOLEAN :
             ApplicationDone(now, set, ok, enabled)
  BY PublishingApplication
<1>2. /\ pc = "application" /\ pc' = "manage"
      /\ UNCHANGED <<desire, topology, ct, recorded, exhausted, authorization, status,
                     helper, answer>>
      /\ spent' \in Nat
  BY PublishingApplication
<1>3. /\ application' = now /\ applied' = now.runtime /\ access' = access
      /\ filled' \in [Scopes -> BOOLEAN]
      /\ attempt' \in Attempt
      /\ sfo' \in [mode : Modes, baseline : BOOLEAN]
  BY <1>1, <1>2, AppliedPlane
<1>4. stale' \subseteq {f \in Flows : Offloaded(f)'}
  <2>1. \E newly : Restale(newly)
    BY <1>1 DEF ApplicationDone
  <2>. QED  BY <1>2, <2>1, RestaleOffloaded
<1>5. application' \in [runtime : Runtimes, policy : Policies \cup {None}] /\ applied' \in Runtimes
  BY <1>3
<1>. QED  BY <1>2, <1>3, <1>4, <1>5 DEF Typed, PCs, Waiting

\* What Managing leaves alone, variable by variable.
LEMMA ManagingKeeps ==
  ASSUME Managing
  PROVE  UNCHANGED <<desire, topology, access, application, filled, ct, recorded, exhausted,
                     authorization, applied, status, stale, spent>>
BY DEF Managing, world, planes, flows

\* Degraded, field by field.
LEMMA DegradedTyped ==
  ASSUME NEW baseline \in BOOLEAN, Degraded(baseline)
  PROVE  /\ sfo' \in [mode : Modes, baseline : BOOLEAN]
         /\ sfo'.mode = "SFO_DEGRADED" /\ sfo'.baseline = baseline
BY DEF Degraded, Modes

\* revoke_transitions begins.
LEMMA RevokingBegins ==
  ASSUME NEW acceleration, ToRevoke(acceleration)
  PROVE  /\ answer' = None
         /\ \/ /\ pc' = "broad" /\ helper' \in Helpers /\ helper'.op = "baseline"
               /\ attempt.mode = "SFO_ACTIVE" /\ acceleration.mode = "SFO_ACTIVE"
            \/ /\ pc' = "settle" /\ helper' = None
               /\ attempt.mode = "SFO_ACTIVE" /\ acceleration.mode = "SFO_ACTIVE" =>
                    ~Broad({k \in attempt.due : attempt.published[k[1]]})
<1>1. CASE /\ attempt.mode = "SFO_ACTIVE" /\ acceleration.mode = "SFO_ACTIVE"
           /\ Broad({k \in attempt.due : attempt.published[k[1]]})
  <2>1. Run("baseline", None, None, "broad")
    BY <1>1 DEF ToRevoke
  <2>. QED  BY <1>1, <2>1, RunStarts
<1>2. CASE ~(/\ attempt.mode = "SFO_ACTIVE" /\ acceleration.mode = "SFO_ACTIVE"
             /\ Broad({k \in attempt.due : attempt.published[k[1]]}))
  BY <1>2 DEF ToRevoke, NoRun
<1>. QED  BY <1>1, <1>2

\* What Manage does.
LEMMA Manages ==
  ASSUME Typed, Manage
  PROVE  /\ pc = "manage" /\ Managing /\ UNCHANGED attempt /\ answer' = None
         /\ sfo' \in [mode : Modes, baseline : BOOLEAN]
         /\ \/ /\ pc' = "settle" /\ helper' = None
               /\ attempt.mode # "SFO_ACTIVE" /\ sfo'.mode = attempt.mode
            \/ /\ pc' = "settle" /\ helper' = None
               /\ attempt.mode = "SFO_ACTIVE" /\ sfo'.mode = "SFO_DEGRADED"
            \/ /\ pc' = "baseline" /\ helper' \in Helpers /\ helper'.op = "baseline"
               /\ attempt.mode = "SFO_ACTIVE" /\ sfo'.mode = "SFO_ACTIVE"
            \/ /\ pc' = "status" /\ helper' \in Helpers /\ helper'.op = "status"
               /\ helper'.step # "delete"
               /\ attempt.mode = "SFO_ACTIVE" /\ sfo'.mode = "SFO_ACTIVE"
               /\ sfo.mode = "SFO_ACTIVE" /\ ~sfo.baseline
<1>0. attempt \in Attempt /\ pc = "manage" /\ sfo \in [mode : Modes, baseline : BOOLEAN]
      /\ attempt.mode \in Modes
  BY DEF Typed, Manage, PCs, Attempt
<1>1. Managing /\ UNCHANGED attempt
  BY DEF Manage
<1>2. CASE /\ attempt.mode # "SFO_ACTIVE"
           /\ sfo' = [mode |-> attempt.mode, baseline |-> TRUE]
           /\ NoRun("settle")
  BY <1>0, <1>1, <1>2 DEF NoRun
<1>3. CASE attempt.mode = "SFO_ACTIVE" /\ Degraded(TRUE) /\ NoRun("settle")
  BY <1>0, <1>1, <1>3, DegradedTyped DEF NoRun
<1>4. CASE /\ attempt.mode = "SFO_ACTIVE"
           /\ sfo' = [sfo EXCEPT !.mode = "SFO_ACTIVE"]
           /\ IF sfo.mode # "SFO_ACTIVE" \/ sfo.baseline
              THEN Run("baseline", None, None, "baseline")
              ELSE Run("status", None, None, "status")
  <2>1. sfo' \in [mode : Modes, baseline : BOOLEAN] /\ sfo'.mode = "SFO_ACTIVE"
    BY <1>0, <1>4
  <2>2. CASE Run("baseline", None, None, "baseline")
    BY <1>0, <1>1, <1>4, <2>1, <2>2, RunStarts
  <2>3. CASE Run("status", None, None, "status") /\ sfo.mode = "SFO_ACTIVE" /\ ~sfo.baseline
    BY <1>0, <1>1, <1>4, <2>1, <2>3, RunStarts
  <2>. QED  BY <1>4, <2>2, <2>3
<1>. QED  BY <1>2, <1>3, <1>4 DEF Manage

\* What the answers of the helper lead to, while the backend is managed.
LEMMA Baselines ==
  ASSUME Typed, Baselined
  PROVE  /\ pc = "baseline" /\ Managing /\ UNCHANGED attempt /\ answer' = None
         /\ sfo' \in [mode : Modes, baseline : BOOLEAN]
         /\ \/ /\ answer = "COMPLETE" /\ sfo'.mode = sfo.mode
               /\ pc' = "status" /\ helper' \in Helpers /\ helper'.op = "status"
            \/ pc' = "settle" /\ helper' = None /\ sfo'.mode = "SFO_DEGRADED"
<1>0. pc = "baseline" /\ sfo \in [mode : Modes, baseline : BOOLEAN] /\ sfo.baseline \in BOOLEAN
  BY DEF Typed, Baselined, Answered
<1>1. Managing /\ UNCHANGED attempt
  BY DEF Baselined
<1>2. CASE /\ answer = "COMPLETE" /\ sfo' = [sfo EXCEPT !.baseline = FALSE]
           /\ Run("status", None, None, "status")
  BY <1>0, <1>1, <1>2, RunStarts
<1>3. CASE Degraded(sfo.baseline) /\ ToRevoke(sfo')
  <2>1. sfo' \in [mode : Modes, baseline : BOOLEAN] /\ sfo'.mode = "SFO_DEGRADED"
    BY <1>0, <1>3, DegradedTyped
  <2>. QED  BY <1>0, <1>1, <1>3, <2>1, RevokingBegins
<1>. QED  BY <1>2, <1>3 DEF Baselined

\* The answer to the status command: go on to collect, or degrade.
LEMMA Checks ==
  ASSUME Typed, Checked
  PROVE  /\ pc = "status" /\ Managing /\ UNCHANGED attempt /\ answer' = None
         /\ sfo' \in [mode : Modes, baseline : BOOLEAN]
         /\ \/ /\ answer = "COMPLETE" /\ sfo' = sfo
               /\ pc' = "gc" /\ helper' \in Helpers /\ helper'.op = "gc"
               /\ helper'.step # "delete"
            \/ pc' = "settle" /\ helper' = None /\ sfo'.mode = "SFO_DEGRADED"
<1>0. pc = "status" /\ sfo \in [mode : Modes, baseline : BOOLEAN] /\ sfo.baseline \in BOOLEAN
  BY DEF Typed, Checked, Answered
<1>1. Managing /\ UNCHANGED attempt
  BY DEF Checked
<1>2. CASE answer = "COMPLETE" /\ UNCHANGED sfo /\ Run("gc", None, None, "gc")
  BY <1>0, <1>1, <1>2, RunStarts
<1>3. CASE Degraded(sfo.baseline) /\ ToRevoke(sfo')
  <2>1. sfo' \in [mode : Modes, baseline : BOOLEAN] /\ sfo'.mode = "SFO_DEGRADED"
    BY <1>0, <1>3, DegradedTyped
  <2>. QED  BY <1>0, <1>1, <1>3, <2>1, RevokingBegins
<1>. QED  BY <1>2, <1>3 DEF Checked

\* The answer to the gc: revoke broadly, or settle; a failure degrades.
LEMMA Collects ==
  ASSUME Typed, Collected
  PROVE  /\ pc = "gc" /\ Managing /\ UNCHANGED attempt /\ answer' = None
         /\ sfo' \in [mode : Modes, baseline : BOOLEAN]
         /\ \/ /\ sfo' = sfo /\ sfo.mode = "SFO_ACTIVE" /\ attempt.mode = "SFO_ACTIVE"
               /\ pc' = "broad" /\ helper' \in Helpers /\ helper'.op = "baseline"
            \/ /\ sfo' = sfo /\ pc' = "settle" /\ helper' = None
               /\ attempt.mode = "SFO_ACTIVE" /\ sfo.mode = "SFO_ACTIVE" =>
                    ~Broad({k \in attempt.due : attempt.published[k[1]]})
            \/ pc' = "settle" /\ helper' = None /\ sfo'.mode = "SFO_DEGRADED"
<1>0. pc = "gc" /\ sfo \in [mode : Modes, baseline : BOOLEAN]
  BY DEF Typed, Collected, Answered
<1>1. Managing /\ UNCHANGED attempt /\ ToRevoke(sfo')
  BY DEF Collected
<1>2. CASE UNCHANGED sfo
  BY <1>0, <1>1, <1>2, RevokingBegins
<1>3. CASE Degraded(TRUE)
  <2>1. sfo' \in [mode : Modes, baseline : BOOLEAN] /\ sfo'.mode = "SFO_DEGRADED"
    BY <1>3, DegradedTyped
  <2>. QED  BY <1>0, <1>1, <2>1, RevokingBegins
<1>. QED  BY <1>2, <1>3 DEF Collected

\* The answer to the broad baseline is kept; a failure degrades.
LEMMA BroadlyRevokes ==
  ASSUME Typed, BroadlyRevoked
  PROVE  /\ pc = "broad" /\ Managing /\ answer' = None
         /\ pc' = "settle" /\ helper' = None
         /\ sfo' \in [mode : Modes, baseline : BOOLEAN]
         /\ attempt' \in Attempt /\ attempt' = [attempt EXCEPT !.broad = answer]
         /\ answer # None
         /\ IF answer = "COMPLETE" THEN sfo' = sfo ELSE sfo'.mode = "SFO_DEGRADED"
<1>0. /\ pc = "broad" /\ sfo \in [mode : Modes, baseline : BOOLEAN] /\ attempt \in Attempt
      /\ answer \in Answers
  BY DEF Typed, BroadlyRevoked, Answered, PCs
<1>1. /\ Managing /\ answer' = None /\ pc' = "settle" /\ helper' = None
      /\ attempt' = [attempt EXCEPT !.broad = answer]
  BY DEF BroadlyRevoked, NoRun
<1>2. attempt' \in Attempt
  BY <1>0, <1>1 DEF Attempt
<1>3. IF answer = "COMPLETE" THEN sfo' = sfo ELSE Degraded(TRUE)
  BY DEF BroadlyRevoked
<1>4. answer # None
  BY DEF BroadlyRevoked, Answered
<1>. QED  BY <1>0, <1>1, <1>2, <1>3, <1>4, DegradedTyped

\* Revoke starts the helper for the key, with SFO active.
LEMMA Revokes ==
  ASSUME Typed, NEW k \in attempt.due, Revoke(k)
  PROVE  /\ pc = "settle" /\ Managing /\ UNCHANGED sfo /\ answer' = None
         /\ pc' = "targeted" /\ helper' \in Helpers /\ helper'.op = "revoke"
         /\ helper'.step = "collect"
         /\ helper'.subject = k[2] /\ helper'.class = k[3]
         /\ sfo.mode = "SFO_ACTIVE" /\ attempt.mode = "SFO_ACTIVE"
         /\ attempt' \in Attempt /\ attempt \in Attempt
         /\ attempt' = [attempt EXCEPT !.current = k]
<1>0. pc = "settle" /\ attempt \in Attempt
  BY DEF Typed, Revoke, PCs
<1>1. k \in KeySpace
  BY <1>0 DEF Attempt
<1>2. k[2] \in Identities \cup {None} /\ k[3] \in Classes \cup {None}
  BY <1>1 DEF KeySpace
<1>3. Run("revoke", k[2], k[3], "targeted") /\ Managing /\ UNCHANGED sfo
      /\ attempt' = [attempt EXCEPT !.current = k]
  BY DEF Revoke
<1>4. sfo.mode = "SFO_ACTIVE" /\ attempt.mode = "SFO_ACTIVE"
  BY DEF Revoke, Revocable
<1>5. attempt' \in Attempt
  BY <1>0, <1>1, <1>3 DEF Attempt
<1>. QED  BY <1>0, <1>2, <1>3, <1>4, <1>5, RunStarts

\* An attempt that has settled its current key, field by field.
LEMMA Settles ==
  ASSUME NEW a \in Attempt, a.current \in a.due, NEW b,
         b = [a EXCEPT !.settled = a.settled \cup {a.current}]
  PROVE  /\ b \in Attempt /\ b.policy = a.policy /\ b.mode = a.mode /\ b.due = a.due
         /\ b.ok = a.ok /\ b.published = a.published /\ b.broad = a.broad
         /\ b.tracking = a.tracking /\ b.current = a.current
         /\ b.settled = a.settled \cup {a.current}
<1>1. a.current \in KeySpace
  BY DEF Attempt
<1>. QED  BY <1>1 DEF Attempt

\* The answer to a targeted revocation: the key is settled, or a baseline is tried.
LEMMA RevokedSo ==
  ASSUME Typed, Revoked
  PROVE  /\ pc = "targeted" /\ Managing /\ UNCHANGED sfo /\ answer' = None
         /\ attempt' \in Attempt /\ attempt \in Attempt
         /\ \/ /\ answer = "COMPLETE" /\ pc' = "settle" /\ helper' = None
               /\ attempt' = [attempt EXCEPT !.settled = attempt.settled \cup {attempt.current}]
            \/ /\ UNCHANGED attempt
               /\ pc' = "fallback" /\ helper' \in Helpers /\ helper'.op = "baseline"
<1>0. pc = "targeted" /\ attempt \in Attempt /\ attempt.current \in attempt.due
  BY DEF Typed, Revoked, Answered, PCs
<1>1. Managing /\ UNCHANGED sfo
  BY DEF Revoked
<1>2. CASE answer = "COMPLETE" /\ Settle /\ NoRun("settle")
  BY <1>0, <1>1, <1>2, Settles DEF Settle, NoRun
<1>3. CASE UNCHANGED attempt /\ Run("baseline", None, None, "fallback")
  BY <1>0, <1>1, <1>3, RunStarts
<1>. QED  BY <1>2, <1>3 DEF Revoked

\* The answer to that baseline: the key is settled, or SFO is degraded.
LEMMA FallsBack ==
  ASSUME Typed, FellBack
  PROVE  /\ pc = "fallback" /\ Managing /\ answer' = None
         /\ pc' = "settle" /\ helper' = None
         /\ sfo' \in [mode : Modes, baseline : BOOLEAN]
         /\ attempt' \in Attempt /\ attempt \in Attempt
         /\ \/ /\ answer = "COMPLETE" /\ UNCHANGED sfo
               /\ attempt' = [attempt EXCEPT !.settled = attempt.settled \cup {attempt.current}]
            \/ UNCHANGED attempt /\ sfo'.mode = "SFO_DEGRADED"
<1>0. /\ pc = "fallback" /\ attempt \in Attempt /\ attempt.current \in attempt.due
      /\ sfo \in [mode : Modes, baseline : BOOLEAN]
  BY DEF Typed, FellBack, Answered, PCs
<1>1. Managing /\ answer' = None /\ pc' = "settle" /\ helper' = None
  BY DEF FellBack, NoRun
<1>2. CASE answer = "COMPLETE" /\ Settle /\ UNCHANGED sfo
  BY <1>0, <1>1, <1>2, Settles DEF Settle
<1>3. CASE UNCHANGED attempt /\ Degraded(TRUE)
  BY <1>0, <1>1, <1>3, DegradedTyped
<1>. QED  BY <1>2, <1>3 DEF FellBack

\* A step of the management keeps the types if its own variables have theirs.
LEMMA ManagingTyped ==
  ASSUME Typed, Managing, attempt' \in Attempt, pc' \in PCs \ {"down", "idle"},
         pc' \in {"targeted", "fallback"} => attempt'.current \in attempt'.due,
         helper' # None => helper' \in Helpers /\ pc' \in Waiting,
         answer' = None, sfo' \in [mode : Modes, baseline : BOOLEAN]
  PROVE  Typed'
<1>1. UNCHANGED <<desire, topology, access, application, filled, ct, recorded, exhausted,
                  authorization, applied, status, stale, spent>>
  BY ManagingKeeps
<1>. QED  BY <1>1 DEF Typed, Offloaded

\* What the daemon does once it has published, and before it finishes.
Managed == \/ Manage \/ Baselined \/ Checked \/ Collected \/ BroadlyRevoked \/ Revoked
           \/ (\E k \in attempt.due : Revoke(k)) \/ FellBack

\* Every step of the management keeps the types.
LEMMA ManagedTyped == ASSUME Typed, Managed PROVE Typed'
<1>0. /\ {"settle", "baseline", "status", "gc", "broad", "targeted", "fallback"}
           \subseteq PCs \ {"down", "idle"}
      /\ {"baseline", "status", "gc", "broad", "targeted", "fallback"} \subseteq Waiting
  BY DEF PCs, Waiting
<1>1. pc \in PCs \ {"down", "idle"} => attempt \in Attempt
  BY DEF Typed
<1>2. CASE Manage
  <2>1. pc = "manage"
    BY <1>2, Manages
  <2>2. attempt' \in Attempt
    BY <1>1, <1>2, <2>1, Manages DEF PCs
  <2>. QED  BY <1>0, <1>2, <2>2, Manages, ManagingTyped
<1>3. CASE Baselined
  <2>1. pc = "baseline"
    BY <1>3, Baselines
  <2>2. attempt' \in Attempt
    BY <1>0, <1>1, <1>3, <2>1, Baselines
  <2>. QED  BY <1>0, <1>3, <2>2, Baselines, ManagingTyped
<1>4. CASE Checked
  <2>1. pc = "status"
    BY <1>4, Checks
  <2>2. attempt' \in Attempt
    BY <1>0, <1>1, <1>4, <2>1, Checks
  <2>. QED  BY <1>0, <1>4, <2>2, Checks, ManagingTyped
<1>5. CASE Collected
  <2>1. pc = "gc"
    BY <1>5, Collects
  <2>2. attempt' \in Attempt
    BY <1>0, <1>1, <1>5, <2>1, Collects
  <2>3. sfo \in [mode : Modes, baseline : BOOLEAN]
    BY DEF Typed
  <2>. QED  BY <1>0, <1>5, <2>2, <2>3, Collects, ManagingTyped
<1>6. CASE BroadlyRevoked
  BY <1>0, <1>6, BroadlyRevokes, ManagingTyped
<1>7. CASE Revoked
  <2>1. pc = "targeted" /\ attempt.current \in attempt.due
    BY <1>7, RevokedSo DEF Typed
  <2>2. sfo' \in [mode : Modes, baseline : BOOLEAN]
    BY <1>7, RevokedSo DEF Typed
  <2>3. pc' \in {"settle", "fallback"}
    BY <1>7, RevokedSo
  <2>4. pc' = "fallback" => attempt'.current \in attempt'.due
    BY <1>7, <2>1, RevokedSo
  <2>. QED  BY <1>0, <1>7, <2>2, <2>3, <2>4, RevokedSo, ManagingTyped
<1>8. CASE \E k \in attempt.due : Revoke(k)
  <2>1. PICK k \in attempt.due : Revoke(k)
    BY <1>8
  <2>2. attempt' \in Attempt /\ attempt \in Attempt
        /\ attempt' = [attempt EXCEPT !.current = k]
    BY <2>1, Revokes
  <2>3. attempt'.current = k /\ attempt'.due = attempt.due
    BY <2>2 DEF Attempt
  <2>4. sfo' \in [mode : Modes, baseline : BOOLEAN]
    BY <2>1, Revokes DEF Typed
  <2>5. attempt'.current \in attempt'.due
    BY <2>3
  <2>. QED  BY <1>0, <2>1, <2>2, <2>4, <2>5, Revokes, ManagingTyped
<1>9. CASE FellBack
  BY <1>0, <1>9, FallsBack, ManagingTyped
<1>. QED  BY <1>2, <1>3, <1>4, <1>5, <1>6, <1>7, <1>8, <1>9 DEF Managed

\* Finish keeps the types: what is committed is again an authorization.
LEMMA FinishTyped == ASSUME Typed, Finish PROVE Typed'
<1>0. /\ attempt \in Attempt /\ pc = "settle" /\ pc' = "idle" /\ attempt' = None
      /\ helper = None
  BY DEF Typed, Finish, PCs, Waiting
<1>1. attempt.policy \in Policies /\ attempt.ok \in [Scopes -> BOOLEAN]
  BY <1>0 DEF Attempt
<1>2. authorization' = Advance(authorization, EffectiveSnapshot(attempt.policy), attempt.ok)
  BY DEF Finish
<1>4. /\ DOMAIN authorization' \in SUBSET KeySpace
      /\ authorization' \in [DOMAIN authorization' -> Verdicts]
  BY <1>1, <1>2, Advancing DEF Typed
<1>5. status' \in [Planes -> BOOLEAN]
  BY DEF Finish, OffloadPresent
<1>6. UNCHANGED <<desire, topology, access, application, filled, ct, recorded, exhausted,
                  applied, sfo, helper, answer, stale, spent>>
  BY DEF Finish, world, planes, flows
<1>. QED  BY <1>0, <1>4, <1>5, <1>6 DEF Typed, PCs, Offloaded

\* What runs besides the daemon leaves it alone.
LEMMA OutsideKeeps ==
  ASSUME Outside
  PROVE  UNCHANGED <<desire, topology, access, application, filled, authorization, applied,
                     sfo, status, attempt, pc>>
BY DEF Outside, world, planes, daemon

\* A step outside the daemon keeps the types if its own variables have theirs.
LEMMA OutsideTyped ==
  ASSUME Typed,
         UNCHANGED <<desire, topology, access, application, filled, authorization, applied,
                     sfo, status, attempt, pc>>,
         ct' \in [Flows -> {"none", "open", "software", "hardware"}],
         recorded' \in [Flows -> Classes \cup {"unclassified", None}],
         exhausted' \in BOOLEAN,
         helper' # None => helper' \in Helpers /\ pc \in Waiting /\ answer' = None,
         answer' \in Answers \cup {None},
         stale' \subseteq {f \in Flows : Offloaded(f)'}, spent' \in Nat
  PROVE  Typed'
BY DEF Typed

\* What the helper does, but for how it fails.
LEMMA Helps ==
  ASSUME Typed, Helper
  PROVE  /\ Outside /\ UNCHANGED <<exhausted, spent>>
         /\ helper # None /\ helper \in Helpers /\ answer = None
         /\ \/ helper' = None /\ answer' \in Answers
            \/ /\ helper' \in Helpers /\ answer' = None
               /\ helper'.op = helper.op /\ helper'.subject = helper.subject
               /\ helper'.class = helper.class
         /\ \/ UNCHANGED <<ct, recorded, stale>>
            \/ ct' = [f \in Flows |-> IF f \in helper.listed THEN "none" ELSE ct[f]]
               /\ Unstale /\ UNCHANGED recorded
            \/ UNCHANGED <<ct, stale>>
               /\ \E idle \in SUBSET helper.candidates :
                    recorded' = [f \in Flows |-> IF f \in idle THEN None ELSE recorded[f]]
<1>0. ASSUME NEW op, NEW step, Helping(op, step)
      PROVE  helper # None /\ helper \in Helpers /\ answer = None /\ helper.op \in op
  BY <1>0 DEF Helping, Typed
<1>1. ASSUME helper \in Helpers, NEW found \in SUBSET Flows,
             \/ helper' = [helper EXCEPT !.candidates = found, !.step = "scan"]
             \/ helper' = [helper EXCEPT !.listed = found, !.step = "delete"]
      PROVE  /\ helper' \in Helpers
             /\ helper'.op = helper.op /\ helper'.subject = helper.subject
             /\ helper'.class = helper.class
  BY <1>1 DEF Helpers
<1>2. CASE Collect
  <2> DEFINE found == {f \in Flows : recorded[f] # None /\
                         (helper.op = "revoke" =>
                            f.subject = helper.subject /\ helper.class \in {None, recorded[f]})}
  <2>1. helper # None /\ helper \in Helpers /\ answer = None
    BY <1>0, <1>2 DEF Collect
  <2>2. \/ Answer("FAILED")
        \/ helper' = [helper EXCEPT !.candidates = found, !.step = "scan"] /\ UNCHANGED answer
    BY <1>2 DEF Collect
  <2>3. Outside /\ UNCHANGED <<ct, recorded, exhausted, stale, spent>>
    BY <1>2 DEF Collect, flows
  <2>4. found \in SUBSET Flows
    OBVIOUS
  <2> HIDE DEF found
  <2>5. CASE Answer("FAILED")
    BY <2>1, <2>3, <2>5 DEF Answer, Answers
  <2>6. CASE helper' = [helper EXCEPT !.candidates = found, !.step = "scan"] /\ UNCHANGED answer
    BY <1>1, <2>1, <2>3, <2>4, <2>6
  <2>. QED  BY <2>2, <2>5, <2>6
<1>3. ASSUME NEW found \in SUBSET Flows, Pass(found), helper \in Helpers, answer = None
      PROVE  /\ Outside /\ UNCHANGED <<exhausted, spent, ct, recorded, stale>>
             /\ \/ helper' = None /\ answer' \in Answers
                \/ /\ helper' \in Helpers /\ answer' = None
                   /\ helper'.op = helper.op /\ helper'.subject = helper.subject
                   /\ helper'.class = helper.class
  <2>1. \/ Answer("FAILED") \/ Answer("COMPLETE")
        \/ helper' = [helper EXCEPT !.listed = found, !.step = "delete"] /\ UNCHANGED answer
    BY <1>3 DEF Pass
  <2>2. Outside /\ UNCHANGED <<ct, recorded, exhausted, stale, spent>>
    BY <1>3 DEF Pass, flows
  <2>3. CASE Answer("FAILED") \/ Answer("COMPLETE")
    BY <2>2, <2>3 DEF Answer, Answers
  <2>4. CASE helper' = [helper EXCEPT !.listed = found, !.step = "delete"] /\ UNCHANGED answer
    BY <1>1, <1>3, <2>2, <2>4
  <2>. QED  BY <2>1, <2>3, <2>4
<1>4. CASE RevokePass
  <2>1. helper # None /\ helper \in Helpers /\ answer = None
    BY <1>0, <1>4 DEF RevokePass
  <2>2. Matching(helper.candidates) \in SUBSET Flows
    BY <2>1 DEF Matching, Helpers
  <2>. QED  BY <1>3, <1>4, <2>1, <2>2 DEF RevokePass
<1>5. CASE BaselinePass
  <2>1. helper # None /\ helper \in Helpers /\ answer = None
    BY <1>0, <1>5 DEF BaselinePass
  <2>. QED  BY <1>3, <1>5, <2>1 DEF BaselinePass
<1>6. CASE Delete
  <2>1. helper # None /\ helper \in Helpers /\ answer = None
    BY <1>0, <1>6 DEF Delete
  <2>3. helper.pass \in Nat
    BY <2>1 DEF Helpers
  <2>4. helper.pass + 1 \in Nat
    BY <2>3
  <2>2. /\ [helper EXCEPT !.pass = helper.pass + 1, !.step = "scan"] \in Helpers
        /\ [helper EXCEPT !.pass = helper.pass + 1, !.step = "scan"].op = helper.op
        /\ [helper EXCEPT !.pass = helper.pass + 1, !.step = "scan"].subject = helper.subject
        /\ [helper EXCEPT !.pass = helper.pass + 1, !.step = "scan"].class = helper.class
    BY <2>1, <2>4 DEF Helpers
  <2>. QED  BY <1>6, <2>1, <2>2 DEF Delete, Answer, Answers
<1>7. CASE Status
  BY <1>0, <1>7 DEF Status, Answer, Answers, flows
<1>8. CASE FindAbsent
  <2>1. helper # None /\ helper \in Helpers /\ answer = None
    BY <1>0, <1>8 DEF FindAbsent
  <2>2. /\ [helper EXCEPT !.step = "delete",
              !.candidates = helper.candidates \ Matching(helper.candidates)] \in Helpers
        /\ [helper EXCEPT !.step = "delete",
              !.candidates = helper.candidates \ Matching(helper.candidates)].op = helper.op
        /\ [helper EXCEPT !.step = "delete",
              !.candidates = helper.candidates \ Matching(helper.candidates)].subject = helper.subject
        /\ [helper EXCEPT !.step = "delete",
              !.candidates = helper.candidates \ Matching(helper.candidates)].class = helper.class
    BY <2>1 DEF Helpers
  <2>. QED  BY <1>8, <2>1, <2>2 DEF FindAbsent, Answer, Answers, flows
<1>9. CASE Reclaim
  BY <1>0, <1>9 DEF Reclaim, Answer, Answers
<1>. QED  BY <1>2, <1>4, <1>5, <1>6, <1>7, <1>8, <1>9 DEF Helper

\* No flow becomes stale when entries are removed or time out.
LEMMA UnstaleShrinks ==
  ASSUME Unstale, stale \subseteq {f \in Flows : Offloaded(f)}
  PROVE  stale' \subseteq stale /\ stale' \subseteq {f \in Flows : Offloaded(f)'}
BY DEF Unstale, Offloaded

\* Every step of the helper keeps the types.
LEMMA HelperTyped == ASSUME Typed, Helper PROVE Typed'
<1>1. /\ UNCHANGED <<desire, topology, access, application, filled, authorization, applied,
                     sfo, status, attempt, pc>>
      /\ exhausted' = exhausted /\ spent' = spent /\ helper # None
  BY Helps, OutsideKeeps
<1>2. helper' # None => helper' \in Helpers /\ pc \in Waiting /\ answer' = None
  BY <1>1, Helps DEF Typed
<1>3. answer' \in Answers \cup {None}
  BY Helps
<1>4. ct' \in [Flows -> {"none", "open", "software", "hardware"}]
  BY Helps DEF Typed
<1>5. recorded' \in [Flows -> Classes \cup {"unclassified", None}]
  BY Helps DEF Typed
<1>6. stale' \subseteq {f \in Flows : Offloaded(f)'}
  BY Helps, UnstaleShrinks DEF Typed, Offloaded
<1>. QED  BY <1>1, <1>2, <1>3, <1>4, <1>5, <1>6, OutsideTyped DEF Typed

\* A helper that fails keeps the types, and answers FAILED.
LEMMA FailureTyped ==
  ASSUME Typed, HelperFails
  PROVE  /\ Typed' /\ Outside /\ stale' \subseteq stale /\ recorded' = recorded
         /\ \A f \in Flows : ct'[f] \in {"none", ct[f]}
         /\ helper # None /\ helper' = None /\ answer' = "FAILED"
<1>1. Outside /\ UNCHANGED <<recorded, exhausted>> /\ Unstale /\ helper # None
      /\ helper' = None /\ answer' = "FAILED"
  BY DEF HelperFails, Answer
<1>2. PICK gone \in SUBSET helper.listed :
        ct' = [f \in Flows |-> IF f \in gone /\ helper.step = "delete" THEN "none" ELSE ct[f]]
  BY DEF HelperFails
<1>3. /\ ct' \in [Flows -> {"none", "open", "software", "hardware"}]
      /\ \A f \in Flows : ct'[f] \in {"none", ct[f]}
  BY <1>2 DEF Typed
<1>4. spent' \in Nat
  BY DEF HelperFails, Fault, Event, Typed
<1>5. stale' \subseteq stale /\ stale' \subseteq {f \in Flows : Offloaded(f)'}
  BY <1>1, UnstaleShrinks DEF Typed
<1>6. "FAILED" \in Answers
  BY DEF Answers
<1>7. Typed'
  BY <1>1, <1>3, <1>4, <1>5, <1>6, OutsideKeeps, OutsideTyped DEF Typed
<1>. QED  BY <1>1, <1>3, <1>5, <1>7

\* A flow's record never goes, and its class, once known, never changes, by a packet.
LEMMA RecordsKeep ==
  ASSUME Typed, NEW f \in Flows, NEW record \in Records(f)
  PROVE  /\ record.class \in Classes \cup {"unclassified", None}
         /\ recorded[f] # None => record.class # None
         /\ recorded[f] \in Classes => record.class = recorded[f]
<1>1. recorded[f] \in Classes \cup {"unclassified", None} /\ f.class \in Classes
  BY FlowAssumption DEF Typed
<1>2. recorded[f] \in Classes => recorded[f] \notin {None, "unclassified"}
  BY NoneAssumption
<1>3. f.class # None /\ "unclassified" # None
  BY <1>1, NoneAssumption
<1>4. \/ record = [class |-> recorded[f], verdict |-> ApplicationVerdict(application, f)]
      \/ /\ record \in {[class |-> c, verdict |-> "allow"] : c \in {f.class, "unclassified"}}
         /\ recorded[f] \in {None, "unclassified"}
      \/ record \in {[class |-> c, verdict |-> "allow"] :
           c \in {IF recorded[f] = None THEN "unclassified" ELSE recorded[f]}}
  BY DEF Records
<1>5. \/ record.class = recorded[f]
      \/ record.class \in {f.class, "unclassified"} /\ recorded[f] \in {None, "unclassified"}
      \/ record.class = IF recorded[f] = None THEN "unclassified" ELSE recorded[f]
  BY <1>4
<1>. QED  BY <1>1, <1>2, <1>3, <1>5

\* What the traffic does to the flows.
LEMMA Traffics ==
  ASSUME Typed, Traffic
  PROVE  /\ UNCHANGED <<desire, topology, access, application, filled, authorization, applied,
                        sfo, status, attempt, pc, helper, answer, spent>>
         /\ ct' \in [Flows -> {"none", "open", "software", "hardware"}]
         /\ recorded' \in [Flows -> Classes \cup {"unclassified", None}]
         /\ exhausted' \in BOOLEAN
         /\ stale' \subseteq stale /\ stale' \subseteq {f \in Flows : Offloaded(f)'}
         /\ \A f \in Flows : recorded[f] # None => recorded'[f] # None
         /\ \A f \in Flows : recorded[f] \in Classes => recorded'[f] = recorded[f]
         /\ ~CanOffload => \A f \in Flows : Offloaded(f)' => Offloaded(f)
<1>1. PICK f \in Flows : ClientPacket(f) \/ ServerPacket(f) \/ Timeout(f)
  BY DEF Traffic
<1>2. Accelerated \in {"hardware", "software"}
  BY DEF Accelerated
<1>3. CASE ClientPacket(f)
  <2>1. UNCHANGED <<desire, topology, access, application, filled, authorization, applied,
                    sfo, status, attempt, pc, helper, answer, spent, stale>>
    BY <1>3 DEF ClientPacket, world, planes, daemon
  <2>2. PICK record \in Records(f) :
          /\ \/ recorded' = [recorded EXCEPT ![f] = record.class] /\ UNCHANGED exhausted
             \/ exhausted' = TRUE /\ UNCHANGED recorded
          /\ \/ UNCHANGED ct
             \/ ~Offloaded(f) /\ ct' = [ct EXCEPT ![f] = "open"]
             \/ /\ ~Offloaded(f) /\ CanOffload /\ ct' = [ct EXCEPT ![f] = Accelerated]
    <3>1. PICK record \in Records(f) :
           /\ IF recorded[f] # None \/ record.class = None \/ Room
              THEN recorded' = [recorded EXCEPT ![f] = record.class] /\ UNCHANGED exhausted
              ELSE exhausted' = TRUE /\ UNCHANGED recorded
           /\ LET dropped == \/ filled["access"] /\ AccessVerdict(access, f) = "deny"
                             \/ filled["application"] /\ record.verdict = "deny"
              IN  \/ (Offloaded(f) \/ dropped) /\ UNCHANGED ct
                  \/ /\ ~Offloaded(f) /\ ~dropped
                     /\ \/ ct' = [ct EXCEPT ![f] = "open"]
                        \/ /\ ct[f] = "open" /\ CanOffload
                           /\ ct' = [ct EXCEPT ![f] = Accelerated]
      BY <1>3 DEF ClientPacket
    <3>. QED  BY <3>1
  <2>3. /\ record.class \in Classes \cup {"unclassified", None}
        /\ recorded[f] # None => record.class # None
        /\ recorded[f] \in Classes => record.class = recorded[f]
    BY RecordsKeep
  <2>4. /\ recorded' \in [Flows -> Classes \cup {"unclassified", None}]
        /\ exhausted' \in BOOLEAN
        /\ \A g \in Flows : recorded[g] # None => recorded'[g] # None
        /\ \A g \in Flows : recorded[g] \in Classes => recorded'[g] = recorded[g]
    BY <2>2, <2>3 DEF Typed
  <2>5. /\ ct' \in [Flows -> {"none", "open", "software", "hardware"}]
        /\ \A g \in Flows : Offloaded(g) => Offloaded(g)'
        /\ ~CanOffload => \A g \in Flows : Offloaded(g)' => Offloaded(g)
    BY <1>2, <2>2 DEF Typed, Offloaded
  <2>6. stale' \subseteq stale /\ stale' \subseteq {g \in Flows : Offloaded(g)'}
    BY <2>1, <2>5 DEF Typed
  <2>. QED  BY <2>1, <2>4, <2>5, <2>6
<1>4. CASE ServerPacket(f)
  <2>1. /\ UNCHANGED <<desire, topology, access, application, filled, authorization, applied,
                       sfo, status, attempt, pc, helper, answer, spent, stale, recorded,
                       exhausted>>
        /\ CanOffload /\ ct' = [ct EXCEPT ![f] = Accelerated]
    BY <1>4 DEF ServerPacket, world, planes, daemon
  <2>2. /\ ct' \in [Flows -> {"none", "open", "software", "hardware"}]
        /\ \A g \in Flows : Offloaded(g) => Offloaded(g)'
    BY <1>2, <2>1 DEF Typed, Offloaded
  <2>3. stale' \subseteq stale /\ stale' \subseteq {g \in Flows : Offloaded(g)'}
    BY <2>1, <2>2 DEF Typed
  <2>4. recorded' \in [Flows -> Classes \cup {"unclassified", None}] /\ exhausted' \in BOOLEAN
    BY <2>1 DEF Typed
  <2>. QED  BY <2>1, <2>2, <2>3, <2>4
<1>5. CASE Timeout(f)
  <2>1. /\ UNCHANGED <<desire, topology, access, application, filled, authorization, applied,
                       sfo, status, attempt, pc, helper, answer, spent, recorded,
                       exhausted>>
        /\ Unstale
        /\ ct' = [ct EXCEPT ![f] = IF Offloaded(f) THEN "open" ELSE "none"]
    BY <1>5 DEF Timeout, world, planes, daemon
  <2>2. /\ ct' \in [Flows -> {"none", "open", "software", "hardware"}]
        /\ \A g \in Flows : Offloaded(g)' => Offloaded(g)
    BY <2>1 DEF Typed, Offloaded
  <2>3. stale' \subseteq stale /\ stale' \subseteq {g \in Flows : Offloaded(g)'}
    BY <2>1, UnstaleShrinks DEF Typed
  <2>4. recorded' \in [Flows -> Classes \cup {"unclassified", None}] /\ exhausted' \in BOOLEAN
    BY <2>1 DEF Typed
  <2>. QED  BY <2>1, <2>2, <2>3, <2>4
<1>. QED  BY <1>1, <1>3, <1>4, <1>5

\* Traffic keeps the types.
LEMMA TrafficTyped == ASSUME Typed, Traffic PROVE Typed'
BY Traffics, OutsideTyped DEF Typed

\* A change of the configuration changes nothing else.
LEMMA ConfigureTyped ==
  ASSUME Typed, NEW p \in Policies, Configure(p)
  PROVE  /\ Typed' /\ desire' = p
         /\ UNCHANGED <<topology, access, application, filled, ct, recorded, exhausted,
                        authorization, applied, sfo, status, attempt, helper, answer, pc,
                        stale>>
<1>1. UNCHANGED <<topology, access, application, filled, ct, recorded, exhausted,
                  authorization, applied, sfo, status, attempt, helper, answer, pc, stale>>
  BY DEF Configure, planes, flows, daemon
<1>2. spent' \in Nat
  BY DEF Configure, Change, Event, Typed
<1>3. desire' = p
  BY DEF Configure
<1>. QED  BY <1>1, <1>2, <1>3 DEF Typed, Offloaded

\* A reload of the firewall ends every offload.
LEMMA ReloadTyped ==
  ASSUME Typed, NEW t \in Topologies, Reload(t)
  PROVE  /\ Typed' /\ stale' \subseteq stale
         /\ \A f \in Flows : ~Offloaded(f)'
         /\ UNCHANGED <<desire, access, application, recorded, exhausted, authorization,
                        applied, sfo, status, attempt, helper, answer, pc>>
<1>1. UNCHANGED <<desire, access, application, recorded, exhausted, authorization, applied,
                  sfo, status, attempt, helper, answer, pc>>
  BY DEF Reload, daemon
<1>2. spent' \in Nat
  BY DEF Reload, Change, Event, Typed
<1>3. topology' = t /\ filled' \in [Scopes -> BOOLEAN] /\ Unstale
  BY DEF Reload
<1>4. /\ ct' \in [Flows -> {"none", "open", "software", "hardware"}]
      /\ \A f \in Flows : ~Offloaded(f)'
  BY DEF Reload, Typed, Offloaded
<1>5. stale' \subseteq stale /\ stale' \subseteq {f \in Flows : Offloaded(f)'}
  BY <1>3, UnstaleShrinks DEF Typed
<1>. QED  BY <1>1, <1>2, <1>3, <1>4, <1>5 DEF Typed

\* A death of the daemon keeps the types.
LEMMA CrashTyped == ASSUME Typed, Crash PROVE Typed'
<1>1. UNCHANGED <<desire, topology, access, application, filled, ct, recorded, exhausted,
                  stale>>
  BY DEF Crash, world, planes, flows
<1>2. spent' \in Nat
  BY DEF Crash, Change, Event, Typed
<1>3. /\ pc' = "down" /\ authorization' = None /\ applied' = "off"
      /\ status' = [p \in Planes |-> FALSE]
      /\ attempt' = None /\ helper' = None /\ answer' = None
  BY DEF Crash
<1>4. sfo' \in [mode : Modes, baseline : BOOLEAN]
  BY DEF Crash, NoAcceleration, Modes
<1>. QED  BY <1>1, <1>2, <1>3, <1>4 DEF Typed, PCs, Runtimes, Offloaded

\* A start keeps the types; the application plane is neutralized, or left as it was.
LEMMA StartTyped ==
  ASSUME Typed, Start
  PROVE  /\ Typed' /\ pc = "down" /\ pc' = "idle"
         /\ UNCHANGED <<desire, topology, access, ct, recorded, exhausted, authorization,
                        applied, sfo, status, attempt, helper, answer>>
         /\ application' \in {application, Neutral}
         /\ stale' \subseteq stale
<1>1. /\ pc = "down" /\ pc' = "idle"
      /\ UNCHANGED <<desire, topology, access, ct, recorded, exhausted, authorization,
                     applied, sfo, status, attempt, helper, answer>>
  BY DEF Start, world, flows, daemon
<1>2. spent' \in Nat
  BY DEF Start, Fault, Event, Typed
<1>3. application' \in {application, Neutral} /\ filled' \in [Scopes -> BOOLEAN]
  BY DEF Start, Typed, Scopes
<1>4. stale' \subseteq stale
  BY DEF Start
<1>5. application' \in [runtime : Runtimes, policy : Policies \cup {None}]
  BY <1>3 DEF Neutral, Runtimes, Typed
<1>6. stale' \subseteq {f \in Flows : Offloaded(f)'}
  BY <1>1, <1>4 DEF Typed, Offloaded
<1>. QED  BY <1>1, <1>2, <1>3, <1>4, <1>5, <1>6 DEF Typed, PCs, Waiting

\* The steps of Next, grouped.
LEMMA Steps ==
  ASSUME [Next]_vars
  PROVE  \/ Begin \/ PublishAccess \/ PublishApplication \/ Managed \/ Finish
         \/ Helper \/ HelperFails \/ Traffic
         \/ (\E p \in Policies : Configure(p)) \/ (\E t \in Topologies : Reload(t))
         \/ Crash \/ Start
         \/ UNCHANGED vars
BY DEF Next, Reconciliation, World, Managed

\* Typed is inductive.
LEMMA TypedStep == Typed /\ [Next]_vars => Typed'
<1>. SUFFICES ASSUME Typed, [Next]_vars PROVE Typed'
  OBVIOUS
<1>1. CASE UNCHANGED vars
  BY <1>1 DEF vars, Typed, Offloaded
<1>. QED  BY <1>1, Steps, BeginTyped, PublishAccessTyped, PublishApplicationTyped,
             ManagedTyped, FinishTyped, HelperTyped, FailureTyped, TrafficTyped,
             ConfigureTyped, ReloadTyped, CrashTyped, StartTyped

\* Every variable has its type.
THEOREM TypeCorrect == Spec => []TypeOK
<1>1. Init => Typed
  BY InitTyped
<1>2. Typed /\ [Next]_vars => Typed'
  BY TypedStep
<1>3. Typed => TypeOK
  BY DEF Typed, TypeOK, Offloaded
<1>. QED  BY <1>1, <1>2, <1>3, PTL DEF Spec

--------------------------------------------------------------------------------
(* What the steps leave alone.                                             *)

\* While the acceleration is managed and flows are revoked, an attempt keeps what
\* it planned and published.
LEMMA ManagedKeeps ==
  ASSUME Typed, Managed
  PROVE  /\ UNCHANGED <<desire, topology, access, application, filled, ct, recorded, exhausted,
                        authorization, applied, status, stale, spent>>
         /\ attempt \in Attempt /\ attempt' \in Attempt
         /\ attempt'.policy = attempt.policy /\ attempt'.mode = attempt.mode
         /\ attempt'.due = attempt.due
         /\ attempt'.ok = attempt.ok /\ attempt'.published = attempt.published
         /\ pc \in PCs \ {"down", "idle", "access", "application"}
         /\ pc' \in PCs \ {"down", "idle", "access", "application", "manage"}
         /\ pc = "manage" => Manage
<1>0. /\ {"manage", "settle", "baseline", "status", "gc", "broad", "targeted", "fallback"}
           \subseteq PCs \ {"down", "idle", "access", "application"}
      /\ pc \in PCs \ {"down", "idle"} => attempt \in Attempt
      /\ {"settle", "baseline", "status", "gc", "broad", "targeted", "fallback"}
           \subseteq PCs \ {"down", "idle", "access", "application", "manage"}
  BY DEF PCs, Typed
<1>1. /\ Managing
      /\ pc \in {"manage", "settle", "baseline", "status", "gc", "broad", "targeted", "fallback"}
      /\ pc' \in {"settle", "baseline", "status", "gc", "broad", "targeted", "fallback"}
      /\ pc = "manage" => Manage
  BY Manages, Baselines, Checks, Collects, BroadlyRevokes, Revokes, RevokedSo, FallsBack
     DEF Managed
<1>2. attempt \in Attempt
  BY <1>0, <1>1
<1>3. \/ UNCHANGED attempt
      \/ \E a \in Answers \cup {None} : attempt' = [attempt EXCEPT !.broad = a]
      \/ \E k \in attempt.due : attempt' = [attempt EXCEPT !.current = k]
      \/ attempt' = [attempt EXCEPT !.settled = attempt.settled \cup {attempt.current}]
  BY Manages, Baselines, Checks, Collects, BroadlyRevokes, Revokes, RevokedSo, FallsBack
     DEF Managed, Typed
<1>4. attempt' \in Attempt
  <2>1. Typed'
    BY ManagedTyped
  <2>. QED  BY <1>0, <1>1, <2>1 DEF Typed
<1>5. /\ attempt'.policy = attempt.policy /\ attempt'.mode = attempt.mode
      /\ attempt'.due = attempt.due
      /\ attempt'.ok = attempt.ok /\ attempt'.published = attempt.published
  BY <1>2, <1>3 DEF Attempt
<1>. QED  BY <1>0, <1>1, <1>2, <1>4, <1>5, ManagingKeeps

\* The helper, how it fails, the traffic, and a reload.
Apart == \/ Helper \/ HelperFails \/ Traffic \/ \E t \in Topologies : Reload(t)

\* The daemon's part is left alone by everything that runs apart from it.
LEMMA ApartKeeps ==
  ASSUME Typed, Apart
  PROVE  /\ UNCHANGED <<desire, access, application, authorization, applied, sfo, status,
                        attempt, pc>>
         /\ stale' \subseteq stale
         /\ \/ UNCHANGED helper
            \/ helper' = None
            \/ /\ helper # None
               /\ helper'.op = helper.op /\ helper'.subject = helper.subject
               /\ helper'.class = helper.class
<1>1. CASE Helper
  <2>1. stale' \subseteq stale
    BY <1>1, Helps, UnstaleShrinks DEF Typed
  <2>. QED  BY <1>1, <2>1, Helps, OutsideKeeps
<1>2. CASE HelperFails
  BY <1>2, FailureTyped, OutsideKeeps
<1>3. CASE Traffic
  BY <1>3, Traffics
<1>4. CASE \E t \in Topologies : Reload(t)
  BY <1>4, ReloadTyped
<1>. QED  BY <1>1, <1>2, <1>3, <1>4 DEF Apart

\* The steps of Next, for what concerns the daemon.
LEMMA Grouped ==
  ASSUME [Next]_vars
  PROVE  \/ Begin \/ PublishAccess \/ PublishApplication \/ Managed \/ Finish
         \/ Apart \/ (\E p \in Policies : Configure(p)) \/ Crash \/ Start
         \/ UNCHANGED vars
BY Steps DEF Apart

\* How an attempt begins, publishes and ends.
LEMMA Begins ==
  ASSUME Typed, Begin
  PROVE  /\ pc = "idle" /\ pc' = "access" /\ helper' = None /\ answer' = None
         /\ UNCHANGED <<desire, topology, access, application, filled, ct, recorded, exhausted,
                        authorization, applied, sfo, status, stale>>
         /\ attempt'.policy = desire
         /\ attempt'.due = IF authorization = None THEN {}
                           ELSE Restrictions(authorization, EffectiveSnapshot(desire))
         /\ ~attempt'.ok["access"] /\ ~attempt'.published["access"]
         /\ ~attempt'.ok["application"] /\ ~attempt'.published["application"]
         /\ attempt'.settled = {} /\ attempt'.broad = None
<1>1. PICK checked \in BOOLEAN :
        attempt' =
          [policy |-> desire, mode |-> Capability(topology, checked),
           due |-> IF authorization = None THEN {}
                   ELSE Restrictions(authorization, EffectiveSnapshot(desire)),
           ok |-> [s \in Scopes |-> FALSE], published |-> [s \in Scopes |-> FALSE],
           tracking |-> FALSE, broad |-> None, current |-> None, settled |-> {}]
  BY DEF Begin
<1>2. pc = "idle" /\ pc' = "access" /\ helper' = None /\ answer' = None
  BY DEF Begin, NoRun
<1>3. UNCHANGED <<desire, topology, access, application, filled, ct, recorded, exhausted,
                  authorization, applied, sfo, status, stale>>
  BY DEF Begin, world, planes, flows, daemon
<1>. QED  BY <1>1, <1>2, <1>3 DEF Scopes

\* The two outcomes of publishing access.
LEMMA PublishingAccess ==
  ASSUME Typed, PublishAccess
  PROVE  /\ pc = "access" /\ pc' = "application" /\ attempt \in Attempt /\ attempt' \in Attempt
         /\ UNCHANGED <<desire, topology, application, ct, recorded, exhausted, authorization,
                        applied, sfo, status, helper, answer>>
         /\ attempt'.policy = attempt.policy /\ attempt'.mode = attempt.mode
         /\ attempt'.due = attempt.due /\ attempt'.broad = attempt.broad
         /\ attempt'.settled = attempt.settled
         /\ attempt'.ok["application"] = attempt.ok["application"]
         /\ attempt'.published["application"] = attempt.published["application"]
         /\ \/ /\ access' = attempt.policy
               /\ attempt'.ok["access"] /\ attempt'.published["access"]
               /\ Restale(NewlyClosed(attempt.policy))
            \/ /\ UNCHANGED <<access, attempt, stale>>
               /\ BroadUnpublished \/ ~Broad(attempt.due)
<1>0. attempt \in Attempt /\ pc = "access" /\ pc' = "application"
  BY DEF Typed, PublishAccess, PCs
<1>1. UNCHANGED <<desire, topology, ct, recorded, exhausted, authorization, applied, sfo,
                  status, helper, answer>>
  BY DEF PublishAccess, world, flows, daemon
<1> DEFINE newly == NewlyClosed(attempt.policy)
<1>2. \/ /\ access' = attempt.policy
         /\ attempt' = [attempt EXCEPT !.ok["access"] = TRUE,
                                       !.published["access"] = TRUE]
         /\ UNCHANGED application
         /\ Restale(newly)
      \/ /\ UNCHANGED <<access, application, attempt, stale>>
         /\ BroadUnpublished \/ ~Broad(attempt.due)
  BY DEF PublishAccess, planes
<1> HIDE DEF newly
<1>3. CASE /\ access' = attempt.policy
           /\ attempt' = [attempt EXCEPT !.ok["access"] = TRUE,
                                         !.published["access"] = TRUE]
           /\ UNCHANGED application
           /\ Restale(newly)
  BY <1>0, <1>1, <1>3, AccessAccepted DEF newly
<1>4. CASE /\ UNCHANGED <<access, application, attempt, stale>>
           /\ BroadUnpublished \/ ~Broad(attempt.due)
  BY <1>0, <1>1, <1>4
<1>. QED  BY <1>2, <1>3, <1>4

\* What a publication of the application plane leaves, whatever its outcome.
LEMMA PublishedApplication ==
  ASSUME Typed, PublishApplication
  PROVE  /\ pc = "application" /\ pc' = "manage" /\ attempt \in Attempt /\ attempt' \in Attempt
         /\ UNCHANGED <<desire, topology, access, ct, recorded, exhausted, authorization,
                        status, helper, answer>>
         /\ attempt'.policy = attempt.policy /\ attempt'.mode = attempt.mode
         /\ attempt'.due = attempt.due /\ attempt'.broad = attempt.broad
         /\ attempt'.settled = attempt.settled
         /\ attempt'.ok["access"] = attempt.ok["access"]
         /\ attempt'.published["access"] = attempt.published["access"]
         /\ sfo'.mode = sfo.mode
         /\ applied' = application'.runtime
         /\ \/ application' = Neutral
            \/ /\ attempt'.ok["application"] /\ attempt'.published["application"]
               /\ application' = [runtime |-> IF attempt.policy.enforce THEN "enforcing"
                                              ELSE "tracking",
                                  policy |-> attempt.policy]
               /\ sfo'.baseline = (sfo.baseline \/ NewlyEnforcing(attempt.policy.enforce))
            \/ /\ ~attempt'.ok["application"] /\ applied # "off"
               /\ application' = application
         /\ sfo.baseline => sfo'.baseline
         /\ Restale(NewlyBarred(application'))
<1>1. PICK now \in [runtime : Runtimes, policy : Policies \cup {None}],
           set \in BOOLEAN, ok \in BOOLEAN, enabled \in BOOLEAN :
             ApplicationOutcome(now, set, ok, enabled) /\ ApplicationDone(now, set, ok, enabled)
  BY PublishingApplication
<1>2. /\ pc = "application" /\ pc' = "manage"
      /\ UNCHANGED <<desire, topology, ct, recorded, exhausted, authorization, status,
                     helper, answer>>
  BY PublishingApplication
<1>3. /\ application' = now /\ applied' = now.runtime /\ access' = access
      /\ attempt' \in Attempt /\ attempt \in Attempt
      /\ attempt'.policy = attempt.policy /\ attempt'.mode = attempt.mode
      /\ attempt'.due = attempt.due /\ attempt'.broad = attempt.broad
      /\ attempt'.settled = attempt.settled
      /\ attempt'.ok["access"] = attempt.ok["access"]
      /\ attempt'.published["access"] = attempt.published["access"]
      /\ attempt'.ok["application"] = ok
      /\ attempt'.published["application"] = (ok \/ ~attempt.policy.enforce)
      /\ sfo'.mode = sfo.mode
      /\ sfo'.baseline = (sfo.baseline \/ NewlyEnforcing(enabled))
      /\ Restale(NewlyBarred(now))
  BY <1>1, <1>2, AppliedPlane
<1>4. \/ now = Neutral
      \/ /\ ok = TRUE /\ enabled = attempt.policy.enforce
         /\ now = [runtime |-> IF attempt.policy.enforce THEN "enforcing" ELSE "tracking",
                   policy |-> attempt.policy]
      \/ ok = FALSE /\ applied # "off" /\ now = application
  BY <1>1 DEF ApplicationOutcome
<1>5. CASE now = Neutral
  BY <1>2, <1>3, <1>5
<1>6. CASE /\ ok = TRUE /\ enabled = attempt.policy.enforce
           /\ now = [runtime |-> IF attempt.policy.enforce THEN "enforcing" ELSE "tracking",
                     policy |-> attempt.policy]
  BY <1>2, <1>3, <1>6
<1>7. CASE ok = FALSE /\ applied # "off" /\ now = application
  BY <1>2, <1>3, <1>7
<1>. QED  BY <1>4, <1>5, <1>6, <1>7

\* How an attempt ends.
LEMMA Finishes ==
  ASSUME Typed, Finish
  PROVE  /\ pc = "settle" /\ pc' = "idle" /\ Revocable = {} /\ attempt \in Attempt
         /\ UNCHANGED <<desire, topology, access, application, filled, ct, recorded, exhausted,
                        applied, sfo, helper, answer, stale, spent>>
         /\ attempt' = None /\ helper' = None
         /\ status'["acceleration"] = (OffloadPresent(attempt.mode) => sfo.mode = "SFO_ACTIVE")
         /\ authorization' =
              Advance(authorization, EffectiveSnapshot(attempt.policy), attempt.ok)
<1>1. UNCHANGED <<desire, topology, access, application, filled, ct, recorded, exhausted,
                  applied, sfo, helper, answer, stale, spent>>
  BY DEF Finish, world, planes, flows
<1>2. pc = "settle" /\ pc' = "idle" /\ Revocable = {} /\ attempt' = None
  BY DEF Finish
<1>3. attempt \in Attempt /\ helper = None
  BY <1>2 DEF Typed, PCs, Waiting
<1>4. status'["acceleration"] = (OffloadPresent(attempt.mode) => sfo.mode = "SFO_ACTIVE")
  BY DEF Finish, Planes
<1>5. authorization' = Advance(authorization, EffectiveSnapshot(attempt.policy), attempt.ok)
  BY DEF Finish
<1>. QED  BY <1>1, <1>2, <1>3, <1>4, <1>5

\* What a death of the daemon leaves.
LEMMA Crashes ==
  ASSUME Crash
  PROVE  /\ pc' = "down" /\ UNCHANGED <<desire, topology, access, application, ct, recorded, stale>>
         /\ authorization' = None /\ applied' = "off" /\ sfo' = NoAcceleration
         /\ ~status'["acceleration"]
         /\ attempt' = None /\ helper' = None /\ answer' = None
BY DEF Crash, world, planes, flows, Planes

--------------------------------------------------------------------------------
(* What is committed.                                                      *)

\* Dead is inductive.
LEMMA DeadStep == Typed /\ Dead /\ [Next]_vars => Dead'
<1>. SUFFICES ASSUME Typed, Dead, [Next]_vars PROVE Dead'
  OBVIOUS
<1>1. CASE Begin
  BY <1>1, Begins DEF Dead
<1>2. CASE PublishAccess
  BY <1>2, PublishingAccess DEF Dead
<1>3. CASE PublishApplication
  BY <1>3, PublishedApplication DEF Dead
<1>4. CASE Managed
  BY <1>4, ManagedKeeps DEF Dead
<1>5. CASE Finish
  BY <1>5, Finishes DEF Dead
<1>6. CASE Apart
  BY <1>6, ApartKeeps DEF Dead
<1>7. CASE \E p \in Policies : Configure(p)
  BY <1>7, ConfigureTyped DEF Dead
<1>8. CASE Crash
  BY <1>8, Crashes DEF Dead
<1>9. CASE Start
  BY <1>9, StartTyped DEF Dead
<1>10. CASE UNCHANGED vars
  BY <1>10 DEF vars, Dead
<1>. QED  BY <1>1, <1>2, <1>3, <1>4, <1>5, <1>6, <1>7, <1>8, <1>9, <1>10, Grouped

\* Running is inductive.
LEMMA RunningStep == Typed /\ Dead /\ Running /\ [Next]_vars => Running'
<1>. SUFFICES ASSUME Typed, Dead, Running, [Next]_vars PROVE Running'
  OBVIOUS
<1>1. CASE Begin
  BY <1>1, Begins DEF Running
<1>2. CASE PublishAccess
  BY <1>2, PublishingAccess DEF Running
<1>3. CASE PublishApplication
  <2>1. attempt.policy \in Policies /\ attempt.policy.enforce \in BOOLEAN
    BY <1>3, PublishedApplication, PolicyAssumption DEF Attempt
  <2>2. applied' = application'.runtime
    BY <1>3, PublishedApplication
  <2>3. CASE application' = Neutral
    BY <2>2, <2>3 DEF Running, Neutral
  <2>4. CASE application' = [runtime |-> IF attempt.policy.enforce THEN "enforcing"
                                         ELSE "tracking",
                             policy |-> attempt.policy]
    BY <2>1, <2>2, <2>4 DEF Running
  <2>5. CASE application' = application
    BY <2>2, <2>5 DEF Running
  <2>. QED  BY <1>3, <2>3, <2>4, <2>5, PublishedApplication
<1>4. CASE Managed
  BY <1>4, ManagedKeeps DEF Running
<1>5. CASE Finish
  BY <1>5, Finishes DEF Running
<1>6. CASE Apart
  BY <1>6, ApartKeeps DEF Running
<1>7. CASE \E p \in Policies : Configure(p)
  BY <1>7, ConfigureTyped DEF Running
<1>8. CASE Crash
  BY <1>8, Crashes DEF Running
<1>9. CASE Start
  <2>1. applied' = "off"
    BY <1>9, StartTyped DEF Dead
  <2>2. application' \in {application, Neutral}
    BY <1>9, StartTyped
  <2>. QED  BY <2>1, <2>2 DEF Running, Neutral
<1>10. CASE UNCHANGED vars
  BY <1>10 DEF vars, Running
<1>. QED  BY <1>1, <1>2, <1>3, <1>4, <1>5, <1>6, <1>7, <1>8, <1>9, <1>10, Grouped

\* A step that leaves alone what is committed and what the planes run keeps what
\* is said of both.
LEMMA CommittedKept ==
  ASSUME Committed,
         UNCHANGED <<access, application, authorization, applied>>,
         pc \in Resting <=> pc' \in Resting,
         pc \notin Resting => /\ attempt'.policy = attempt.policy
                              /\ attempt'.ok = attempt.ok
                              /\ attempt'.published = attempt.published,
         pc' \in {"access", "application"} => pc' = pc
  PROVE  Committed'
<1>1. Accepted("access")' = Accepted("access") /\ Accepted("application")' = Accepted("application")
  BY DEF Accepted
<1>2. Scoped("access")' = Scoped("access")
  BY DEF Scoped
<1>3. pc \in {"access", "application"} => pc \notin Resting
  BY DEF Resting
<1>4. /\ (pc = "access" => ~attempt.ok["access"] /\ ~attempt.published["access"])'
      /\ (pc \in {"access", "application"} =>
            ~attempt.ok["application"] /\ ~attempt.published["application"])'
      /\ (pc \notin Resting => attempt.published["access"] = attempt.ok["access"])'
  BY <1>3 DEF Committed
<1>5. /\ (Accepted("access") => access = attempt.policy)'
      /\ (Accepted("application") /\ applied = "enforcing" =>
            application.policy = attempt.policy)'
  BY <1>1 DEF Committed, Accepted
<1>6. /\ Agrees("access", access)' = Agrees("access", access)
      /\ Agrees("application", application.policy)' = Agrees("application", application.policy)
  BY DEF Agrees
<1>7. /\ (authorization # None /\ ~Accepted("access") /\ Scoped("access") # {} =>
            Agrees("access", access))'
      /\ (authorization # None /\ ~Accepted("application") /\ applied = "enforcing" =>
            Agrees("application", application.policy))'
      /\ (authorization = None /\ ~Accepted("application") => applied = "off")'
  BY <1>1, <1>2, <1>6 DEF Committed
<1>. QED  BY <1>4, <1>5, <1>7 DEF Committed

\* Begin keeps Committed: nothing is accepted yet.
LEMMA CommittedBegin == ASSUME Typed, Committed, Begin PROVE Committed'
<1>1. ~Accepted("access") /\ ~Accepted("application")
      /\ ~Accepted("access")' /\ ~Accepted("application")'
  BY Begins DEF Accepted, Resting
<1>2. /\ Scoped("access")' = Scoped("access")
      /\ Agrees("access", access)' = Agrees("access", access)
      /\ Agrees("application", application.policy)' = Agrees("application", application.policy)
  BY Begins DEF Scoped, Agrees
<1>3. /\ pc = "idle" /\ pc' = "access" /\ pc \in Resting
      /\ UNCHANGED <<desire, access, application, authorization, applied>>
      /\ attempt' \in Attempt
      /\ ~attempt'.ok["access"] /\ ~attempt'.published["access"]
      /\ ~attempt'.ok["application"] /\ ~attempt'.published["application"]
  BY Begins, BeginTyped DEF Resting, Typed
<1>4. attempt'.published["access"] = FALSE /\ attempt'.ok["access"] = FALSE
  BY <1>3 DEF Attempt, Scopes
<1>. QED  BY <1>1, <1>2, <1>3, <1>4 DEF Committed

\* PublishAccess keeps Committed: access runs what will be committed, or what was.
LEMMA CommittedAccess == ASSUME Typed, Committed, PublishAccess PROVE Committed'
<1>0. /\ pc \notin Resting /\ pc' \notin Resting
      /\ pc = "access" /\ pc' = "application"
  BY PublishingAccess DEF Resting
<1>1. /\ UNCHANGED <<desire, application, authorization, applied>>
      /\ attempt'.policy = attempt.policy
      /\ attempt'.ok["application"] = attempt.ok["application"]
      /\ attempt'.published["application"] = attempt.published["application"]
  BY PublishingAccess
<1>2. Accepted("application")' = Accepted("application") /\ ~Accepted("application")
  BY <1>0, <1>1 DEF Accepted, Committed
<1>3. /\ Scoped("access")' = Scoped("access")
      /\ Agrees("application", application.policy)' = Agrees("application", application.policy)
  BY <1>1 DEF Scoped, Agrees
<1>4. CASE /\ access' = attempt.policy
           /\ attempt'.ok["access"] /\ attempt'.published["access"]
  <2>1. Accepted("access")'
    BY <1>0, <1>4 DEF Accepted
  <2>2. attempt'.ok \in [Scopes -> BOOLEAN] /\ attempt'.published \in [Scopes -> BOOLEAN]
    BY PublishingAccess DEF Attempt
  <2>3. attempt'.ok["access"] = TRUE /\ attempt'.published["access"] = TRUE
    BY <1>4, <2>2 DEF Scopes
  <2>. QED  BY <1>0, <1>1, <1>2, <1>3, <1>4, <2>1, <2>3 DEF Committed
<1>5. CASE UNCHANGED <<access, attempt>>
  <2>1. /\ Accepted("access")' = Accepted("access")
        /\ Agrees("access", access)' = Agrees("access", access)
    BY <1>0, <1>1, <1>5 DEF Accepted, Agrees
  <2>. QED  BY <1>0, <1>1, <1>2, <1>3, <1>5, <2>1 DEF Committed
<1>. QED  BY <1>4, <1>5, PublishingAccess

\* PublishApplication keeps Committed: a plane that was left running is still
\* described by what was committed, one that was turned off by nothing.
LEMMA CommittedApplication ==
  ASSUME Typed, Running, Committed, PublishApplication PROVE Committed'
<1>0. /\ pc \notin Resting /\ pc' \notin Resting
      /\ pc = "application" /\ pc' = "manage"
  BY PublishedApplication DEF Resting
<1>1. /\ UNCHANGED <<desire, access, authorization>>
      /\ attempt'.policy = attempt.policy
      /\ attempt'.ok["access"] = attempt.ok["access"]
      /\ attempt'.published["access"] = attempt.published["access"]
      /\ applied' = application'.runtime
  BY PublishedApplication
<1>2. Accepted("access")' = Accepted("access") /\ ~Accepted("application")
  BY <1>0, <1>1 DEF Accepted, Committed
<1>3. /\ Scoped("access")' = Scoped("access")
      /\ Agrees("access", access)' = Agrees("access", access)
  BY <1>1 DEF Scoped, Agrees
<1>4. /\ (pc = "access" => ~attempt.ok["access"] /\ ~attempt.published["access"])'
      /\ (pc \in {"access", "application"} =>
            ~attempt.ok["application"] /\ ~attempt.published["application"])'
      /\ (pc \notin Resting => attempt.published["access"] = attempt.ok["access"])'
      /\ (Accepted("access") => access = attempt.policy)'
      /\ (authorization # None /\ ~Accepted("access") /\ Scoped("access") # {} =>
            Agrees("access", access))'
  BY <1>0, <1>1, <1>2, <1>3 DEF Committed
<1>5. /\ (Accepted("application") /\ applied = "enforcing" =>
            application.policy = attempt.policy)'
      /\ (authorization # None /\ ~Accepted("application") /\ applied = "enforcing" =>
            Agrees("application", application.policy))'
      /\ (authorization = None /\ ~Accepted("application") => applied = "off")'
  <2>1. CASE application' = Neutral
    BY <1>1, <2>1 DEF Neutral
  <2>2. CASE /\ attempt'.ok["application"]
             /\ application' = [runtime |-> IF attempt.policy.enforce THEN "enforcing"
                                            ELSE "tracking",
                                policy |-> attempt.policy]
    <3>1. Accepted("application")' /\ application'.policy = attempt'.policy
      BY <1>0, <1>1, <2>2 DEF Accepted
    <3>. QED  BY <3>1
  <2>3. CASE ~attempt'.ok["application"] /\ applied # "off" /\ application' = application
    <3>1. /\ ~Accepted("application")' /\ applied' = applied
          /\ Agrees("application", application.policy)' = Agrees("application", application.policy)
      BY <1>1, <2>3 DEF Accepted, Running, Agrees
    <3>. QED  BY <1>1, <1>2, <2>3, <3>1 DEF Committed
  <2>. QED  BY <2>1, <2>2, <2>3, PublishedApplication
<1>. QED  BY <1>4, <1>5 DEF Committed

\* An attempt commits what it has published of each plane, and for the other
\* plane leaves what was committed.
LEMMA CommittedFinish ==
  ASSUME Typed, Running, Committed, Finish PROVE Committed'
<1>0. /\ pc \notin Resting /\ pc' \in Resting
      /\ pc = "settle" /\ pc' = "idle" /\ attempt \in Attempt
      /\ UNCHANGED <<desire, access, application, applied>>
  BY Finishes DEF Resting
<1>1. attempt.policy \in Policies /\ attempt.ok \in [Scopes -> BOOLEAN]
  BY <1>0 DEF Attempt
<1>2. attempt.policy # None
  BY <1>1, NoneAssumption
<1>3. authorization' = Advance(authorization, EffectiveSnapshot(attempt.policy), attempt.ok)
  BY Finishes
<1>4. authorization # None => /\ DOMAIN authorization \in SUBSET KeySpace
                              /\ authorization \in [DOMAIN authorization -> Verdicts]
  BY DEF Typed
<1>5. /\ authorization' # None
      /\ \A k \in DOMAIN authorization' :
           \/ /\ k \in Keys(attempt.policy) /\ attempt.ok[k[1]]
              /\ authorization'[k] = EffectiveSnapshot(attempt.policy)[k]
           \/ /\ authorization # None /\ k \in DOMAIN authorization
              /\ ~(k \in Keys(attempt.policy) /\ attempt.ok[k[1]])
              /\ authorization'[k] = authorization[k]
      /\ \A k \in Keys(attempt.policy) : attempt.ok[k[1]] => k \in DOMAIN authorization'
      /\ authorization # None => DOMAIN authorization \subseteq DOMAIN authorization'
  <2>1. authorization' # None
    BY <1>1, <1>3, <1>4, Advancing
  <2>2. \A k \in DOMAIN authorization' :
          \/ /\ k \in Keys(attempt.policy) /\ attempt.ok[k[1]]
             /\ authorization'[k] = EffectiveSnapshot(attempt.policy)[k]
          \/ /\ authorization # None /\ k \in DOMAIN authorization
             /\ ~(k \in Keys(attempt.policy) /\ attempt.ok[k[1]])
             /\ authorization'[k] = authorization[k]
    BY <1>1, <1>3, <1>4, Advancing
  <2>3. \A k \in Keys(attempt.policy) : attempt.ok[k[1]] => k \in DOMAIN authorization'
    BY <1>1, <1>3, <1>4, Advancing
  <2>4. authorization # None => DOMAIN authorization \subseteq DOMAIN authorization'
    BY <1>1, <1>3, <1>4, Advancing
  <2>. QED  BY <2>1, <2>2, <2>3, <2>4
<1>6. ~Accepted("access")' /\ ~Accepted("application")'
  BY <1>0 DEF Accepted
<1>7. ASSUME NEW s \in Scopes, attempt.ok[s]
      PROVE  \A k \in Keys(attempt.policy) : k[1] = s =>
               /\ k \in DOMAIN authorization'
               /\ authorization'[k] = EffectiveSnapshot(attempt.policy)[k]
  BY <1>5, <1>7
<1>8. ASSUME NEW s \in Scopes, ~attempt.ok[s], authorization # None, NEW p, Agrees(s, p)
      PROVE  \A k \in Keys(p) : k[1] = s =>
               /\ k \in DOMAIN authorization'
               /\ authorization'[k] = EffectiveSnapshot(p)[k]
  <2>1. \A k \in Keys(p) : k[1] = s =>
          k \in DOMAIN authorization /\ authorization[k] = EffectiveSnapshot(p)[k]
    BY <1>8 DEF Agrees
  <2>. QED  BY <1>5, <1>8, <2>1
<1>9. Scoped("access")' # {} => Agrees("access", access)'
  <2>1. CASE attempt.ok["access"]
    <3>1. access' = attempt.policy
      BY <1>0, <2>1 DEF Committed, Accepted
    <3>. QED  BY <1>2, <1>7, <2>1, <3>1 DEF Agrees, Scopes
  <2>2. CASE ~attempt.ok["access"]
    <3>1. SUFFICES ASSUME NEW k \in DOMAIN authorization', k[1] = "access"
                   PROVE  Agrees("access", access)'
      BY DEF Scoped
    <3>2. authorization # None /\ k \in DOMAIN authorization
      BY <1>5, <2>2, <3>1
    <3>3. k \in Scoped("access") /\ ~Accepted("access")
      BY <2>2, <3>1, <3>2 DEF Scoped, Accepted
    <3>4. Agrees("access", access)
      BY <3>2, <3>3 DEF Committed
    <3>5. access # None
      BY <3>4 DEF Agrees
    <3>. QED  BY <1>0, <1>8, <2>2, <3>2, <3>4, <3>5 DEF Agrees, Scopes
  <2>. QED  BY <2>1, <2>2
<1>10. applied' = "enforcing" => Agrees("application", application.policy)'
  <2>1. SUFFICES ASSUME applied = "enforcing" PROVE Agrees("application", application.policy)'
    BY <1>0
  <2>2. CASE attempt.ok["application"]
    <3>1. application'.policy = attempt.policy
      BY <1>0, <2>1, <2>2 DEF Committed, Accepted
    <3>. QED  BY <1>2, <1>7, <2>2, <3>1 DEF Agrees, Scopes
  <2>3. CASE ~attempt.ok["application"]
    <3>1. ~Accepted("application")
      BY <2>3 DEF Accepted
    <3>2. authorization # None /\ Agrees("application", application.policy)
      BY <2>1, <3>1 DEF Committed
    <3>3. application.policy # None
      BY <3>2 DEF Agrees
    <3>. QED  BY <1>0, <1>8, <2>3, <3>2, <3>3 DEF Agrees, Scopes
  <2>. QED  BY <2>2, <2>3
<1>. QED  BY <1>0, <1>5, <1>6, <1>9, <1>10 DEF Committed

\* Committed is inductive.
LEMMA CommittedStep ==
  Typed /\ Dead /\ Running /\ Committed /\ [Next]_vars => Committed'
<1>. SUFFICES ASSUME Typed, Dead, Running, Committed, [Next]_vars PROVE Committed'
  OBVIOUS
<1>0. pc \in Resting <=> pc \in {"down", "idle"}
  BY DEF Resting
<1>4. CASE Managed
  <2>1. UNCHANGED <<access, application, authorization, applied>>
    BY <1>4, ManagedKeeps
  <2>2. /\ pc \notin Resting /\ pc' \notin Resting
        /\ pc' \notin {"access", "application"}
    BY <1>4, ManagedKeeps DEF Resting
  <2>3. /\ attempt'.policy = attempt.policy /\ attempt'.ok = attempt.ok
        /\ attempt'.published = attempt.published
    BY <1>4, ManagedKeeps
  <2>. QED  BY <2>1, <2>2, <2>3, CommittedKept
<1>6. CASE Apart
  <2>1. UNCHANGED <<access, application, authorization, applied, attempt, pc>>
    BY <1>6, ApartKeeps
  <2>. QED  BY <2>1, CommittedKept
<1>7. CASE \E p \in Policies : Configure(p)
  <2>1. PICK p \in Policies : Configure(p)
    BY <1>7
  <2>2. UNCHANGED <<access, application, authorization, applied, attempt, pc>>
    BY <2>1, ConfigureTyped
  <2>. QED  BY <2>2, CommittedKept
<1>8. CASE Crash
  BY <1>8, Crashes DEF Committed, Resting, Accepted
<1>9. CASE Start
  <2>1. authorization' = None /\ pc' = "idle" /\ applied' = "off"
    BY <1>9, StartTyped DEF Dead
  <2>. QED  BY <2>1 DEF Committed, Resting, Accepted
<1>10. CASE UNCHANGED vars
  <2>1. UNCHANGED <<access, application, authorization, applied, attempt, pc>>
    BY <1>10 DEF vars
  <2>. QED  BY <2>1, CommittedKept
<1>. QED  BY <1>4, <1>6, <1>7, <1>8, <1>9, <1>10, Grouped, CommittedBegin, CommittedAccess,
             CommittedApplication, CommittedFinish

\* The other parts hold at first.
LEMMA InitHolds ==
  Init => Dead /\ Control /\ Running /\ Committed /\ Planned /\ Debt
<1>. SUFFICES ASSUME Init
     PROVE  Dead /\ Control /\ Running /\ Committed /\ Planned /\ Debt
  OBVIOUS
<1>1. pc = "down" /\ pc \in Resting /\ helper = None /\ answer = None /\ authorization = None
      /\ application = Neutral /\ applied = "off" /\ sfo = NoAcceleration /\ access = None
      /\ stale = {} /\ status = [p \in Planes |-> FALSE]
      /\ \A f \in Flows : ~Offloaded(f)
  BY DEF Init, Resting, Offloaded
<1>2. ~status["acceleration"]
  BY <1>1 DEF Planes
<1>3. Dead
  BY <1>1, <1>2 DEF Dead
<1>4. Control
  BY <1>1, <1>2 DEF Control, Waiting, Resting, Revoking
<1>5. Running
  BY <1>1 DEF Running, Neutral
<1>6. Committed
  BY <1>1 DEF Committed, Accepted
<1>7. Planned
  BY <1>1 DEF Planned, Accepted, Publishing
<1>8. Debt
  BY <1>1 DEF Debt, Publishing, Revoking
<1>. QED  BY <1>3, <1>4, <1>5, <1>6, <1>7, <1>8

\* AuthorizationTruthful follows.
LEMMA Truthful == Committed => AuthorizationTruthful
<1>. SUFFICES ASSUME Committed, pc = "idle", authorization # None
     PROVE  /\ (\E k \in DOMAIN authorization : k[1] = "access") => Agrees("access", access)
            /\ applied = "enforcing" => Agrees("application", application.policy)
  BY DEF AuthorizationTruthful
<1>1. ~Accepted("access") /\ ~Accepted("application")
  BY DEF Accepted, Resting
<1>2. (\E k \in DOMAIN authorization : k[1] = "access") => Scoped("access") # {}
  BY DEF Scoped
<1>. QED  BY <1>1, <1>2 DEF Committed

\* What a reconciliation plans its revocations from is what the planes decide by.
THEOREM AuthorizationsTrue == Spec => []AuthorizationTruthful
<1> DEFINE I == Typed /\ Dead /\ Running /\ Committed
<1>1. Init => I
  BY InitTyped, InitHolds
<1>2. I /\ [Next]_vars => I'
  BY TypedStep, DeadStep, RunningStep, CommittedStep
<1>3. I => AuthorizationTruthful
  BY Truthful
<1>. QED  BY <1>1, <1>2, <1>3, PTL DEF Spec

--------------------------------------------------------------------------------
(* Which helper runs.                                                      *)

\* Every step of the management keeps Control.
LEMMA ControlManaged == ASSUME Typed, Control, Managed PROVE Control'
<1>0. /\ {"settle", "baseline", "status", "gc", "broad", "targeted", "fallback"}
           \cap (Resting \cup Publishing) = {}
      /\ {"baseline", "status", "gc", "broad"} \cap Revoking = {}
      /\ {"settle", "targeted", "fallback"} \subseteq Revoking
      /\ "settle" \notin Waiting
      /\ pc \in Waiting <=> pc \in {"baseline", "status", "gc", "broad", "targeted", "fallback"}
      /\ pc = "manage" => pc \notin Resting \cup Revoking
  BY DEF Resting, Publishing, Revoking, Waiting
<1>1. /\ attempt \in Attempt /\ attempt' \in Attempt /\ attempt'.mode = attempt.mode
      /\ attempt'.due = attempt.due
  BY ManagedKeeps
<1>2. CASE Manage
  <2>1. UNCHANGED attempt
    BY <1>2, Manages
  <2>2. pc = "manage" /\ attempt.settled = {} /\ attempt.broad = None
    BY <1>0, <1>2, Manages DEF Control
  <2>3. \/ pc' = "settle" /\ helper' = None /\ attempt.mode # "SFO_ACTIVE"
             /\ sfo'.mode = attempt.mode
        \/ pc' = "settle" /\ helper' = None /\ attempt.mode = "SFO_ACTIVE"
        \/ /\ pc' \in {"baseline", "status"} /\ helper'.op = pc'
           /\ attempt.mode = "SFO_ACTIVE" /\ sfo'.mode = "SFO_ACTIVE"
    BY <1>2, Manages
  <2>. QED  BY <1>0, <2>1, <2>2, <2>3 DEF Control
<1>3. CASE Baselined
  <2>1. UNCHANGED attempt
    BY <1>3, Baselines
  <2>2. /\ pc = "baseline" /\ attempt.settled = {} /\ attempt.broad = None
        /\ attempt.mode = "SFO_ACTIVE" /\ sfo.mode = "SFO_ACTIVE"
    BY <1>0, <1>3, Baselines DEF Control
  <2>3. \/ pc' = "settle" /\ helper' = None
        \/ pc' = "status" /\ helper'.op = "status" /\ sfo'.mode = sfo.mode
    BY <1>3, Baselines
  <2>. QED  BY <1>0, <2>1, <2>2, <2>3 DEF Control
<1>4. CASE Checked
  <2>1. UNCHANGED attempt
    BY <1>4, Checks
  <2>2. /\ pc = "status" /\ attempt.settled = {} /\ attempt.broad = None
        /\ attempt.mode = "SFO_ACTIVE" /\ sfo.mode = "SFO_ACTIVE"
    BY <1>0, <1>4, Checks DEF Control
  <2>3. \/ pc' = "settle" /\ helper' = None
        \/ pc' = "gc" /\ helper'.op = "gc" /\ sfo' = sfo
    BY <1>4, Checks
  <2>. QED  BY <1>0, <2>1, <2>2, <2>3 DEF Control
<1>5. CASE Collected
  <2>1. UNCHANGED attempt
    BY <1>5, Collects
  <2>2. /\ pc = "gc" /\ attempt.settled = {} /\ attempt.broad = None
        /\ attempt.mode = "SFO_ACTIVE" /\ sfo.mode = "SFO_ACTIVE"
    BY <1>0, <1>5, Collects DEF Control
  <2>3. \/ pc' = "settle" /\ helper' = None
        \/ pc' = "broad" /\ helper'.op = "baseline" /\ sfo' = sfo
    BY <1>5, Collects
  <2>. QED  BY <1>0, <2>1, <2>2, <2>3 DEF Control
<1>6. CASE BroadlyRevoked
  <2>1. pc = "broad" /\ attempt.mode = "SFO_ACTIVE" /\ pc' = "settle" /\ helper' = None
    BY <1>0, <1>6, BroadlyRevokes DEF Control
  <2>. QED  BY <1>0, <1>1, <2>1 DEF Control
<1>7. CASE Revoked
  <2>1. pc = "targeted" /\ attempt.mode = "SFO_ACTIVE" /\ sfo' = sfo
        /\ sfo.mode = "SFO_ACTIVE"
    BY <1>0, <1>7, RevokedSo DEF Control
  <2>2. \/ pc' = "settle" /\ helper' = None
        \/ pc' = "fallback" /\ helper'.op = "baseline"
    BY <1>7, RevokedSo
  <2>. QED  BY <1>0, <1>1, <2>1, <2>2 DEF Control
<1>8. CASE \E k \in attempt.due : Revoke(k)
  <2>1. PICK k \in attempt.due : Revoke(k)
    BY <1>8
  <2>2. /\ pc' = "targeted" /\ helper'.op = "revoke"
        /\ helper'.subject = k[2] /\ helper'.class = k[3]
        /\ attempt' = [attempt EXCEPT !.current = k]
        /\ sfo' = sfo /\ sfo.mode = "SFO_ACTIVE" /\ attempt.mode = "SFO_ACTIVE"
    BY <2>1, Revokes
  <2>3. attempt'.current = k
    BY <1>1, <2>2 DEF Attempt
  <2>. QED  BY <1>0, <1>1, <2>2, <2>3 DEF Control
<1>9. CASE FellBack
  <2>1. pc = "fallback" /\ attempt.mode = "SFO_ACTIVE" /\ pc' = "settle" /\ helper' = None
    BY <1>0, <1>9, FallsBack DEF Control
  <2>. QED  BY <1>0, <1>1, <2>1 DEF Control
<1>. QED  BY <1>2, <1>3, <1>4, <1>5, <1>6, <1>7, <1>8, <1>9 DEF Managed

\* Control is inductive.
LEMMA ControlStep == Typed /\ Dead /\ Control /\ [Next]_vars => Control'
<1>. SUFFICES ASSUME Typed, Dead, Control, [Next]_vars PROVE Control'
  OBVIOUS
<1>0. /\ {"access", "application", "manage"} \cap (Resting \cup Revoking \cup Waiting) = {}
      /\ {"down", "idle"} \cap Waiting = {} /\ {"down", "idle"} = Resting
      /\ "settle" \notin Resting \cup Waiting
      /\ Resting \cap Revoking = {}
  BY DEF Resting, Revoking, Waiting
<1>1. CASE Begin
  BY <1>0, <1>1, Begins DEF Control
<1>2. CASE PublishAccess
  <2>1. pc = "access" /\ pc' = "application"
    BY <1>2, PublishingAccess
  <2>2. attempt'.settled = attempt.settled /\ attempt'.broad = attempt.broad
    BY <1>2, PublishingAccess
  <2>. QED  BY <1>0, <2>1, <2>2 DEF Control
<1>3. CASE PublishApplication
  <2>1. pc = "application" /\ pc' = "manage"
    BY <1>3, PublishedApplication
  <2>2. attempt'.settled = attempt.settled /\ attempt'.broad = attempt.broad
    BY <1>3, PublishedApplication
  <2>. QED  BY <1>0, <2>1, <2>2 DEF Control
<1>4. CASE Managed
  BY <1>4, ControlManaged
<1>5. CASE Finish
  <2>1. /\ pc = "settle" /\ pc' = "idle" /\ sfo' = sfo
        /\ status'["acceleration"] = (OffloadPresent(attempt.mode) => sfo.mode = "SFO_ACTIVE")
    BY <1>5, Finishes
  <2>2. status'["acceleration"] => sfo'.mode \in {"SFO_ACTIVE", "NO_OFFLOAD", "SFO_AVAILABLE"}
    BY <2>1 DEF Control, OffloadPresent
  <2>. QED  BY <1>0, <2>1, <2>2 DEF Control
<1>6. CASE Apart
  <2>1. UNCHANGED <<sfo, status, attempt, pc>>
    BY <1>6, ApartKeeps
  <2>2. helper' # None => /\ helper # None
                          /\ helper'.op = helper.op /\ helper'.subject = helper.subject
                          /\ helper'.class = helper.class
    BY <1>6, ApartKeeps
  <2>. QED  BY <2>1, <2>2 DEF Control
<1>7. CASE \E p \in Policies : Configure(p)
  BY <1>7, ConfigureTyped DEF Control
<1>8. CASE Crash
  BY <1>0, <1>8, Crashes DEF Control
<1>9. CASE Start
  BY <1>0, <1>9, StartTyped DEF Control, Dead
<1>10. CASE UNCHANGED vars
  BY <1>10 DEF vars, Control
<1>. QED  BY <1>1, <1>2, <1>3, <1>4, <1>5, <1>6, <1>7, <1>8, <1>9, <1>10, Grouped

--------------------------------------------------------------------------------
(* What is planned.                                                        *)

\* A step that leaves alone what Planned speaks of.
LEMMA PlannedKept ==
  ASSUME Planned,
         UNCHANGED <<application, authorization, applied>>,
         sfo'.mode = sfo.mode \/ pc' \notin {"idle"} \cup Publishing,
         \/ pc' = pc
         \/ /\ pc \notin {"down", "idle", "access", "application"}
            /\ pc' \notin {"down", "idle", "access", "application", "manage"},
         pc \notin Resting => /\ attempt'.policy = attempt.policy
                              /\ attempt'.due = attempt.due
                              /\ attempt'.ok = attempt.ok
  PROVE  Planned'
<1>0. Resting = {"down", "idle"} /\ Publishing = {"access", "application", "manage"}
  BY DEF Resting, Publishing
<1>1. (pc \in {"idle"} \cup Publishing /\ sfo.mode = "SFO_ACTIVE" => authorization # None)'
  BY <1>0 DEF Planned
<1>2. (authorization # None \/ pc \notin {"down", "idle", "access", "application"} =>
         applied = application.runtime)'
  BY DEF Planned
<1>3. /\ (pc \notin Resting =>
            attempt.due = IF authorization = None THEN {}
                          ELSE Restrictions(authorization, EffectiveSnapshot(attempt.policy)))'
      /\ (pc \notin Resting \cup {"access"} /\ Broad(attempt.due) => attempt.ok["access"])'
  BY <1>0 DEF Planned
<1>. QED  BY <1>1, <1>2, <1>3 DEF Planned

\* Begin keeps Planned: the transitions are those from what was committed.
LEMMA PlannedBegin == ASSUME Typed, Planned, Begin PROVE Planned'
<1>1. /\ pc = "idle" /\ pc' = "access"
      /\ UNCHANGED <<application, authorization, applied, sfo>>
      /\ attempt'.policy = desire
      /\ attempt'.due = IF authorization = None THEN {}
                        ELSE Restrictions(authorization, EffectiveSnapshot(desire))
  BY Begins
<1>. QED  BY <1>1 DEF Planned, Resting, Publishing

\* PublishAccess keeps Planned: what fails to be published was not broad.
LEMMA PlannedAccess ==
  ASSUME Typed, ~BroadUnpublished, Planned, PublishAccess PROVE Planned'
<1>1. /\ pc = "access" /\ pc' = "application"
      /\ UNCHANGED <<application, authorization, applied, sfo>>
      /\ attempt'.policy = attempt.policy /\ attempt'.due = attempt.due
  BY PublishingAccess
<1>2. Broad(attempt.due) => attempt'.ok["access"]
  BY PublishingAccess
<1>3. Broad(attempt'.due) = Broad(attempt.due)
  BY <1>1
<1>. QED  BY <1>1, <1>2, <1>3 DEF Planned, Resting, Publishing

\* PublishApplication keeps Planned.
LEMMA PlannedApplication ==
  ASSUME Typed, Planned, PublishApplication PROVE Planned'
<1>1. /\ pc = "application" /\ pc' = "manage"
      /\ UNCHANGED authorization
      /\ sfo'.mode = sfo.mode
      /\ attempt'.ok["access"] = attempt.ok["access"]
      /\ attempt'.policy = attempt.policy /\ attempt'.due = attempt.due
      /\ applied' = application'.runtime
  BY PublishedApplication
<1>. QED  BY <1>1 DEF Planned, Resting, Publishing

\* Finish keeps Planned: something is committed.
LEMMA PlannedFinish ==
  ASSUME Typed, Planned, Finish PROVE Planned'
<1>0. /\ pc = "settle" /\ pc' = "idle" /\ attempt \in Attempt
      /\ UNCHANGED <<application, applied>>
      /\ authorization' = Advance(authorization, EffectiveSnapshot(attempt.policy), attempt.ok)
  BY Finishes
<1>1. attempt.policy \in Policies /\ attempt.ok \in [Scopes -> BOOLEAN]
  BY <1>0 DEF Attempt
<1>2. authorization # None => /\ DOMAIN authorization \in SUBSET KeySpace
                              /\ authorization \in [DOMAIN authorization -> Verdicts]
  BY DEF Typed
<1>3. authorization' # None
  BY <1>0, <1>1, <1>2, Advancing
<1>4. applied = application.runtime
  BY <1>0 DEF Planned
<1>. QED  BY <1>0, <1>3, <1>4 DEF Planned, Resting

\* Planned is inductive, when a broad restriction of access is published.
LEMMA PlannedStep ==
  ASSUME ~BroadUnpublished
  PROVE  Typed /\ Dead /\ Planned /\ [Next]_vars => Planned'
<1>. SUFFICES ASSUME Typed, Dead, Planned, [Next]_vars
     PROVE  Planned'
  OBVIOUS
<1>4. CASE Managed
  <2>1. UNCHANGED <<application, authorization, applied>>
    BY <1>4, ManagedKeeps
  <2>2. /\ pc \notin {"down", "idle", "access", "application"}
        /\ pc' \notin {"down", "idle", "access", "application", "manage"}
        /\ pc' \notin {"idle"} \cup Publishing
    BY <1>4, ManagedKeeps DEF Publishing
  <2>3. /\ attempt'.policy = attempt.policy /\ attempt'.due = attempt.due
        /\ attempt'.ok = attempt.ok
    BY <1>4, ManagedKeeps
  <2>. QED  BY <2>1, <2>2, <2>3, PlannedKept
<1>6. CASE Apart
  <2>1. UNCHANGED <<application, authorization, applied, sfo, attempt, pc>>
    BY <1>6, ApartKeeps
  <2>. QED  BY <2>1, PlannedKept
<1>7. CASE \E p \in Policies : Configure(p)
  <2>1. UNCHANGED <<application, authorization, applied, sfo, attempt, pc>>
    BY <1>7, ConfigureTyped
  <2>. QED  BY <2>1, PlannedKept
<1>8. CASE Crash
  BY <1>8, Crashes DEF Planned, Resting, Publishing
<1>9. CASE Start
  <2>1. authorization' = None /\ pc' = "idle" /\ sfo'.mode # "SFO_ACTIVE"
    BY <1>9, StartTyped DEF Dead, NoAcceleration
  <2>. QED  BY <2>1 DEF Planned, Resting
<1>10. CASE UNCHANGED vars
  <2>1. UNCHANGED <<application, authorization, applied, sfo, attempt, pc>>
    BY <1>10 DEF vars
  <2>. QED  BY <2>1, PlannedKept
<1>. QED  BY <1>4, <1>6, <1>7, <1>8, <1>9, <1>10, Grouped, PlannedBegin, PlannedAccess,
             PlannedApplication, PlannedFinish

-----------------------------------------------------------------------------
(* What is to be evicted.                                                  *)

\* A record that a flow keeps is found by the same transitions.
LEMMA FindsKept ==
  ASSUME NEW k \in KeySpace, NEW f \in Flows, Finds(k, f),
         recorded[f] # None => recorded'[f] # None,
         recorded[f] \in Classes => recorded'[f] = recorded[f]
  PROVE  Finds(k, f)'
<1>1. k[3] \in Classes \cup {None}
  BY DEF KeySpace
<1>. QED  BY <1>1 DEF Finds

\* A flow that a published transition covers stays covered.
LEMMA CoveredKept ==
  ASSUME NEW f \in Flows, Covered(f), Due \subseteq KeySpace, Due \subseteq Due',
         recorded[f] # None => recorded'[f] # None,
         recorded[f] \in Classes => recorded'[f] = recorded[f]
  PROVE  Covered(f)'
<1>1. PICK k \in Due : k[2] = None \/ Finds(k, f)
  BY DEF Covered
<1>2. k[2] = None \/ Finds(k, f)'
  BY <1>1, FindsKept
<1>3. k \in Due'
  BY <1>1
<1>. QED  BY <1>2, <1>3 DEF Covered

\* What the helper does to the flows that are to be evicted.
HelperSpares ==
  /\ \A f \in Flows : Offloaded(f)' => Offloaded(f)
  /\ \A f \in stale : recorded'[f] = recorded[f]
  /\ \A f \in stale, k \in KeySpace : Sought(k, f) /\ Finds(k, f) => Sought(k, f)'
  /\ pc \in {"baseline", "broad", "fallback"} /\ answer' = "COMPLETE" => stale' = {}
  /\ helper' # None /\ helper'.op = "gc" /\ helper'.step = "delete" =>
       helper'.candidates \cap stale' = {}

\* Collect finds every flow whose record the transition finds.
LEMMA CollectSpares == ASSUME Typed, Control, Debt, Collect PROVE HelperSpares
<1> DEFINE found == {f \in Flows : recorded[f] # None /\
                       (helper.op = "revoke" =>
                          f.subject = helper.subject /\ helper.class \in {None, recorded[f]})}
<1>1. /\ helper # None /\ helper \in Helpers /\ helper.op \in {"revoke", "gc"}
      /\ helper.step = "collect" /\ answer = None
  BY DEF Collect, Helping, Typed
<1>2. \/ helper' = None /\ answer' = "FAILED"
      \/ helper' = [helper EXCEPT !.candidates = found, !.step = "scan"] /\ answer' = None
  BY <1>1 DEF Collect, Answer
<1>3. UNCHANGED <<ct, recorded, stale, attempt, pc>>
  BY DEF Collect, flows, Outside
<1>4. \A f \in found : f \in Flows
  OBVIOUS
<1>5. pc = "targeted" => /\ helper.op = "revoke" /\ helper.subject = attempt.current[2]
                         /\ helper.class = attempt.current[3]
  BY <1>1 DEF Control
<1>6. ASSUME pc = "targeted", NEW f \in stale, Finds(attempt.current, f)
      PROVE  f \in found
  <2>1. f \in Flows
    BY DEF Typed
  <2>. QED  BY <1>5, <1>6, <2>1 DEF Finds
<1> HIDE DEF found
<1>7. \/ helper' = None /\ answer' = "FAILED"
      \/ /\ helper'.candidates = found /\ helper'.step = "scan" /\ answer' = None
  BY <1>1, <1>2 DEF Helpers
<1>8. ASSUME NEW f \in stale, NEW k \in KeySpace, Sought(k, f), Finds(k, f)
      PROVE  Sought(k, f)'
  <2>1. SUFFICES ASSUME pc = "targeted", k = attempt.current
                 PROVE  /\ helper' # None /\ helper'.step # "collect" => f \in helper'.candidates
                        /\ answer' # "COMPLETE"
    BY <1>3 DEF Sought
  <2>2. f \in found
    BY <1>6, <1>8, <2>1
  <2>. QED  BY <1>7, <2>2, AbsentAssumption DEF Answers
<1>9. answer' # "COMPLETE"
  BY <1>7, AbsentAssumption DEF Answers
<1>. QED  BY <1>3, <1>7, <1>8, <1>9 DEF HelperSpares, Offloaded

\* A pass that finds nothing left has nothing that is to be evicted left.
LEMMA RevokePassSpares == ASSUME Typed, Control, Debt, RevokePass PROVE HelperSpares
<1> DEFINE found == Matching(helper.candidates)
<1>1. /\ helper # None /\ helper \in Helpers /\ helper.op = "revoke"
      /\ helper.step = "scan" /\ answer = None
  BY DEF RevokePass, Helping, Typed
<1>2. \/ helper' = None /\ answer' = "FAILED"
      \/ helper' = None /\ answer' = "COMPLETE" /\ found = {}
      \/ helper' = [helper EXCEPT !.listed = found, !.step = "delete"] /\ answer' = None
  BY <1>1 DEF RevokePass, Pass, Answer
<1>3. UNCHANGED <<ct, recorded, stale, attempt, pc>>
  BY DEF RevokePass, Pass, flows, Outside
<1>4. \A f \in stale : f \in helper.candidates => f \in found
  BY DEF Typed, Offloaded, Matching
<1> HIDE DEF found
<1>5. \/ helper' = None /\ answer' = "FAILED"
      \/ helper' = None /\ answer' = "COMPLETE" /\ found = {}
      \/ /\ helper'.candidates = helper.candidates /\ helper'.op = "revoke" /\ answer' = None
  BY <1>1, <1>2 DEF Helpers
<1>6. ASSUME NEW f \in stale, NEW k \in KeySpace, Sought(k, f), Finds(k, f)
      PROVE  Sought(k, f)'
  <2>1. SUFFICES ASSUME pc = "targeted", k = attempt.current
                 PROVE  /\ helper' # None /\ helper'.step # "collect" => f \in helper'.candidates
                        /\ answer' # "COMPLETE"
    BY <1>3 DEF Sought
  <2>2. f \in helper.candidates
    BY <1>1, <1>6, <2>1 DEF Sought
  <2>3. f \in found
    BY <1>4, <2>2
  <2>. QED  BY <1>5, <2>2, <2>3, AbsentAssumption DEF Answers
<1>7. pc \notin {"baseline", "broad", "fallback"}
  BY <1>1 DEF Control
<1>. QED  BY <1>3, <1>5, <1>6, <1>7 DEF HelperSpares, Offloaded

\* A baseline that finds nothing left has no flow offloaded left.
LEMMA BaselinePassSpares == ASSUME Typed, Control, Debt, BaselinePass PROVE HelperSpares
<1> DEFINE found == {f \in Flows : ct[f] = "software"}
<1>1. /\ helper # None /\ helper \in Helpers /\ helper.op = "baseline" /\ answer = None
  BY DEF BaselinePass, Helping, Typed
<1>2. \/ helper' = None /\ answer' = "FAILED"
      \/ helper' = None /\ answer' = "COMPLETE" /\ found = {} /\ ~Hardware
      \/ helper' = [helper EXCEPT !.listed = found, !.step = "delete"] /\ answer' = None
  BY <1>1 DEF BaselinePass, Pass, Answer
<1>3. UNCHANGED <<ct, recorded, stale, attempt, pc>>
  BY DEF BaselinePass, Pass, flows, Outside
<1>4. found = {} /\ ~Hardware => stale = {}
  BY DEF Typed, Offloaded, Hardware
<1> HIDE DEF found
<1>5. \/ helper' = None /\ answer' = "FAILED"
      \/ helper' = None /\ answer' = "COMPLETE" /\ stale = {}
      \/ helper'.op = "baseline" /\ answer' = None
  BY <1>1, <1>2, <1>4 DEF Helpers
<1>6. pc # "targeted"
  BY <1>1 DEF Control
<1>7. answer' = "COMPLETE" => stale' = {}
  BY <1>3, <1>5, AbsentAssumption DEF Answers
<1>. QED  BY <1>3, <1>5, <1>6, <1>7 DEF HelperSpares, Offloaded, Sought

\* Delete only evicts, and never says that it is complete.
LEMMA DeleteSpares == ASSUME Typed, Control, Debt, Delete PROVE HelperSpares
<1>1. /\ helper # None /\ helper \in Helpers /\ helper.op \in {"revoke", "baseline"}
      /\ helper.step = "delete" /\ answer = None
  BY DEF Delete, Helping, Typed
<1>2. \/ helper' = None /\ answer' = "FAILED"
      \/ helper' = [helper EXCEPT !.pass = helper.pass + 1, !.step = "scan"] /\ answer' = None
  BY <1>1 DEF Delete, Answer
<1>3. UNCHANGED <<recorded, attempt, pc>> /\ stale' \subseteq stale
  BY DEF Delete, flows, Outside, Unstale
<1>4. \A f \in Flows : Offloaded(f)' => Offloaded(f)
  BY DEF Delete, Offloaded, Typed
<1>5. \/ helper' = None /\ answer' = "FAILED"
      \/ /\ helper'.op = helper.op /\ helper'.candidates = helper.candidates
         /\ helper'.step = "scan" /\ answer' = None
  BY <1>1, <1>2 DEF Helpers
<1>6. answer' # "COMPLETE"
  BY <1>5, AbsentAssumption DEF Answers
<1>7. ASSUME NEW f \in stale, NEW k \in KeySpace, Sought(k, f)
      PROVE  Sought(k, f)'
  BY <1>1, <1>3, <1>5, <1>6, <1>7 DEF Sought
<1>. QED  BY <1>1, <1>3, <1>4, <1>5, <1>6, <1>7 DEF HelperSpares

\* Status does nothing to a flow.
LEMMA StatusSpares == ASSUME Typed, Control, Debt, Status PROVE HelperSpares
<1>1. helper # None /\ helper.op = "status" /\ helper' = None
  BY DEF Status, Helping, Answer
<1>2. UNCHANGED <<ct, recorded, stale, attempt, pc>>
  BY DEF Status, flows, Outside
<1>3. pc \notin {"baseline", "broad", "fallback", "targeted"}
  BY <1>1 DEF Control
<1>. QED  BY <1>1, <1>2, <1>3 DEF HelperSpares, Offloaded, Sought

\* The gc is to reclaim no record of a flow that is to be evicted: such a flow has
\* a conntrack entry.
LEMMA FindAbsentSpares == ASSUME Typed, Control, Debt, FindAbsent PROVE HelperSpares
<1>1. helper # None /\ helper \in Helpers /\ helper.op = "gc"
  BY DEF FindAbsent, Helping, Typed
<1>2. \/ helper' = None
      \/ helper' = [helper EXCEPT !.step = "delete",
                      !.candidates = helper.candidates \ Matching(helper.candidates)]
  BY DEF FindAbsent, Answer
<1>3. UNCHANGED <<ct, recorded, stale, attempt, pc>>
  BY DEF FindAbsent, flows, Outside
<1>4. pc \notin {"baseline", "broad", "fallback", "targeted"}
  BY <1>1 DEF Control
<1>5. helper' # None => helper'.candidates = helper.candidates \ Matching(helper.candidates)
  BY <1>1, <1>2 DEF Helpers
<1>6. \A f \in stale : f \in helper.candidates => f \in Matching(helper.candidates)
  BY DEF Typed, Offloaded, Matching
<1>7. helper' # None => helper'.candidates \cap stale = {}
  BY <1>5, <1>6
<1>. QED  BY <1>3, <1>4, <1>7 DEF HelperSpares, Offloaded, Sought

\* The gc reclaims no record of a flow that is to be evicted.
LEMMA ReclaimSpares == ASSUME Typed, Control, Debt, Reclaim PROVE HelperSpares
<1>1. /\ helper # None /\ helper \in Helpers /\ helper.op = "gc" /\ helper.step = "delete"
      /\ helper' = None
  BY DEF Reclaim, Helping, Answer, Typed
<1>2. UNCHANGED <<ct, stale, attempt, pc>>
  BY DEF Reclaim, Outside
<1>3. pc \notin {"baseline", "broad", "fallback", "targeted"}
  BY <1>1 DEF Control
<1>4. helper.candidates \cap stale = {}
  BY <1>1 DEF Debt
<1>5. PICK idle \in SUBSET helper.candidates :
        recorded' = [f \in Flows |-> IF f \in idle THEN None ELSE recorded[f]]
  BY DEF Reclaim
<1>6. \A f \in stale : f \in Flows /\ f \notin idle
  BY <1>4, <1>5 DEF Typed
<1>7. \A f \in stale : recorded'[f] = recorded[f]
  BY <1>5, <1>6
<1>. QED  BY <1>1, <1>2, <1>3, <1>7 DEF HelperSpares, Offloaded, Sought

\* Every step of the helper spares what is to be evicted.
LEMMA HelperDebt == ASSUME Typed, Control, Debt, Helper PROVE HelperSpares
BY CollectSpares, RevokePassSpares, BaselinePassSpares, DeleteSpares, StatusSpares,
   FindAbsentSpares, ReclaimSpares DEF Helper

\* What is due is a set of keys.
LEMMA DueKeys ==
  ASSUME Typed, pc \notin Resting
  PROVE  attempt \in Attempt /\ Due \subseteq KeySpace
BY DEF Typed, Resting, Due, Attempt

\* Whatever runs apart from the daemon keeps Debt.
LEMMA DebtApart == ASSUME Typed, Control, Debt, Apart PROVE Debt'
<1>0. UNCHANGED <<sfo, attempt, pc>> /\ stale' \subseteq stale
  BY ApartKeeps
<1>1. Due' = Due
  BY <1>0 DEF Due
<1>2. (~CanOffload => \A f \in Flows : ~Offloaded(f))'
  <2>1. CASE Helper
    <3>1. \A f \in Flows : Offloaded(f)' => Offloaded(f)
      BY <2>1, HelperDebt DEF HelperSpares
    <3>2. UNCHANGED topology
      BY <2>1, Helps, OutsideKeeps
    <3>. QED  BY <3>1, <3>2 DEF Debt, CanOffload
  <2>2. CASE HelperFails
    <3>1. \A f \in Flows : Offloaded(f)' => Offloaded(f)
      BY <2>2, FailureTyped DEF Offloaded
    <3>2. UNCHANGED topology
      BY <2>2, FailureTyped, OutsideKeeps
    <3>. QED  BY <3>1, <3>2 DEF Debt, CanOffload
  <2>3. CASE Traffic
    <3>1. UNCHANGED topology /\ (~CanOffload => \A f \in Flows : Offloaded(f)' => Offloaded(f))
      BY <2>3, Traffics
    <3>. QED  BY <3>1 DEF Debt, CanOffload
  <2>4. CASE \E t \in Topologies : Reload(t)
    BY <2>4, ReloadTyped
  <2>. QED  BY <2>1, <2>2, <2>3, <2>4 DEF Apart
<1>3. \A f \in stale : /\ f \in Flows
                       /\ recorded[f] # None => recorded'[f] # None
                       /\ recorded[f] \in Classes => recorded'[f] = recorded[f]
  <2>0. stale \subseteq Flows
    BY DEF Typed
  <2>1. CASE Helper
    BY <2>0, <2>1, HelperDebt DEF HelperSpares
  <2>2. CASE HelperFails
    BY <2>0, <2>2, FailureTyped
  <2>3. CASE Traffic
    BY <2>0, <2>3, Traffics
  <2>4. CASE \E t \in Topologies : Reload(t)
    BY <2>0, <2>4, ReloadTyped
  <2>. QED  BY <2>1, <2>2, <2>3, <2>4 DEF Apart
<1>4. \A f \in stale, k \in KeySpace : Sought(k, f) /\ Finds(k, f) => Sought(k, f)'
  <2>1. CASE Helper
    BY <2>1, HelperDebt DEF HelperSpares
  <2>2. CASE HelperFails
    BY <1>0, <2>2, FailureTyped DEF Sought
  <2>3. CASE Traffic
    BY <1>0, <2>3, Traffics DEF Sought
  <2>4. CASE \E t \in Topologies : Reload(t)
    BY <1>0, <2>4, ReloadTyped DEF Sought
  <2>. QED  BY <2>1, <2>2, <2>3, <2>4 DEF Apart
<1>5. (pc \in {"baseline", "broad", "fallback"} /\ answer = "COMPLETE" => stale = {})'
  <2>1. CASE Helper
    BY <1>0, <2>1, HelperDebt DEF HelperSpares
  <2>2. CASE HelperFails
    BY <2>2, FailureTyped
  <2>3. CASE Traffic
    BY <1>0, <2>3, Traffics DEF Debt
  <2>4. CASE \E t \in Topologies : Reload(t)
    BY <1>0, <2>4, ReloadTyped DEF Debt
  <2>. QED  BY <2>1, <2>2, <2>3, <2>4 DEF Apart
<1>6. (helper # None /\ helper.op = "gc" /\ helper.step = "delete" =>
         helper.candidates \cap stale = {})'
  <2>1. CASE Helper
    BY <2>1, HelperDebt DEF HelperSpares
  <2>2. CASE HelperFails
    BY <2>2, FailureTyped
  <2>3. CASE Traffic
    BY <1>0, <2>3, Traffics DEF Debt
  <2>4. CASE \E t \in Topologies : Reload(t)
    BY <1>0, <2>4, ReloadTyped DEF Debt
  <2>. QED  BY <2>1, <2>2, <2>3, <2>4 DEF Apart
<1>7. ASSUME NEW f \in stale', pc \notin Resting, Covered(f)
      PROVE  Covered(f)'
  <2>1. f \in stale /\ Due \subseteq KeySpace
    BY <1>0, <1>7, DueKeys
  <2>. QED  BY <1>1, <1>3, <1>7, <2>1, CoveredKept
<1>8. ASSUME NEW f \in stale', pc \notin Resting, Pending(f)
      PROVE  Pending(f)'
  <2>1. f \in stale /\ Due \subseteq KeySpace
    BY <1>0, <1>8, DueKeys
  <2>2. PICK k \in Due \ attempt.settled : Finds(k, f) /\ Sought(k, f)
    BY <1>8 DEF Pending
  <2>3. Finds(k, f)' /\ Sought(k, f)'
    BY <1>3, <1>4, <2>1, <2>2, FindsKept
  <2>. QED  BY <1>0, <1>1, <2>2, <2>3 DEF Pending
<1>9. /\ (pc = "idle" /\ sfo.mode = "SFO_ACTIVE" => stale = {})'
      /\ (pc \in Publishing /\ attempt.mode = "SFO_ACTIVE" /\ sfo.mode = "SFO_ACTIVE" /\ ~sfo.baseline
          => \A f \in stale : Covered(f))'
      /\ (pc \in {"status", "gc", "broad"} => \A f \in stale : Covered(f))'
  <2>1. pc \in Publishing \cup {"status", "gc", "broad"} => pc \notin Resting
    BY DEF Publishing, Resting
  <2>2. \A f \in stale' : f \in stale
    BY <1>0
  <2>3. (pc = "idle" /\ sfo.mode = "SFO_ACTIVE" => stale = {})'
    BY <1>0 DEF Debt
  <2>4. pc \in Publishing /\ attempt.mode = "SFO_ACTIVE" /\ sfo.mode = "SFO_ACTIVE" /\ ~sfo.baseline
        => \A f \in stale' : Covered(f)'
    BY <1>7, <2>1, <2>2 DEF Debt
  <2>5. pc \in {"status", "gc", "broad"} => \A f \in stale' : Covered(f)'
    BY <1>7, <2>1, <2>2 DEF Debt
  <2>6. (pc \in Publishing /\ attempt.mode = "SFO_ACTIVE" /\ sfo.mode = "SFO_ACTIVE" /\ ~sfo.baseline
          => \A f \in stale : Covered(f))'
    BY <1>0, <2>4
  <2>7. (pc \in {"status", "gc", "broad"} => \A f \in stale : Covered(f))'
    BY <1>0, <2>5
  <2>. QED  BY <2>3, <2>6, <2>7
<1>10. (pc \in Revoking /\ sfo.mode = "SFO_ACTIVE" =>
          IF attempt.broad = None THEN \A f \in stale : Pending(f) ELSE stale = {})'
  <2>1. SUFFICES ASSUME pc \in Revoking, sfo.mode = "SFO_ACTIVE"
                 PROVE  IF attempt.broad = None THEN \A f \in stale' : Pending(f)' ELSE stale' = {}
    BY <1>0
  <2>2. pc \notin Resting
    BY <2>1 DEF Revoking, Resting
  <2>. QED  BY <1>0, <1>8, <2>1, <2>2 DEF Debt
<1>. QED  BY <1>2, <1>5, <1>6, <1>9, <1>10 DEF Debt

\* What holds of the debt after any step of the management.
LEMMA DebtManagedRest ==
  ASSUME Typed, Debt, Managed,
         pc' \in {"status", "gc", "broad"} => \A f \in stale' : Covered(f)',
         pc' \in Revoking /\ sfo'.mode = "SFO_ACTIVE" =>
           IF attempt'.broad = None THEN \A f \in stale' : Pending(f)' ELSE stale' = {}
  PROVE  Debt'
<1>1. /\ UNCHANGED <<topology, ct, stale>>
      /\ pc' \notin {"down", "idle", "access", "application", "manage"}
  BY ManagedKeeps
<1>2. answer' = None
  BY Manages, Baselines, Checks, Collects, BroadlyRevokes, Revokes, RevokedSo, FallsBack
     DEF Managed
<1>3. answer' # "COMPLETE"
  BY <1>2, AbsentAssumption DEF Answers
<1>4. helper' # None => helper'.op # "gc" \/ helper'.step # "delete"
  BY Manages, Baselines, Checks, Collects, BroadlyRevokes, Revokes, RevokedSo, FallsBack
     DEF Managed
<1>5. pc' # "idle" /\ pc' \notin Publishing
  BY <1>1 DEF Publishing
<1>6. (~CanOffload => \A f \in Flows : ~Offloaded(f))'
  BY <1>1 DEF Debt, CanOffload, Offloaded
<1>. QED  BY <1>3, <1>4, <1>5, <1>6 DEF Debt

\* Every step of the management keeps Debt.
LEMMA DebtManaged == ASSUME Typed, Control, Debt, Managed PROVE Debt'
<1>0. /\ UNCHANGED <<topology, ct, recorded, stale>>
      /\ attempt \in Attempt /\ attempt' \in Attempt /\ attempt'.mode = attempt.mode
      /\ attempt'.due = attempt.due /\ attempt'.published = attempt.published
      /\ Due' = Due
  BY ManagedKeeps DEF Due
<1>1. /\ {"status", "gc", "broad"} \cap Revoking = {}
      /\ Revoking = {"settle", "targeted", "fallback"}
      /\ "manage" \in Publishing
      /\ {"baseline", "status", "gc", "broad", "targeted", "fallback"} = Waiting
  BY DEF Revoking, Publishing, Waiting
<1>2. \A f \in Flows : Covered(f)' <=> Covered(f)
  BY <1>0 DEF Covered, Finds
<1>3. \A k, f : Finds(k, f)' <=> Finds(k, f)
  BY <1>0 DEF Finds
<1>4. stale \subseteq Flows
  BY DEF Typed
<1>5. CASE Manage
  <2>1. pc' \in {"status", "gc", "broad"} => \A f \in stale' : Covered(f)'
    <3>1. SUFFICES ASSUME pc' \in {"status", "gc", "broad"} PROVE \A f \in stale : Covered(f)
      BY <1>0, <1>2, <1>4
    <3>2. pc = "manage" /\ attempt.mode = "SFO_ACTIVE" /\ sfo.mode = "SFO_ACTIVE" /\ ~sfo.baseline
      BY <1>5, <3>1, Manages
    <3>. QED  BY <1>1, <3>2 DEF Debt
  <2>2. ~(pc' \in Revoking /\ sfo'.mode = "SFO_ACTIVE")
    BY <1>1, <1>5, Manages
  <2>. QED  BY <2>1, <2>2, DebtManagedRest
<1>6. CASE Baselined
  <2>1. pc' \in {"status", "gc", "broad"} => \A f \in stale' : Covered(f)'
    BY <1>0, <1>6, Baselines DEF Debt
  <2>2. ~(pc' \in Revoking /\ sfo'.mode = "SFO_ACTIVE")
    BY <1>1, <1>6, Baselines
  <2>. QED  BY <2>1, <2>2, DebtManagedRest
<1>7. CASE Checked
  <2>1. \A f \in stale' : Covered(f)'
    BY <1>0, <1>2, <1>4, <1>7, Checks DEF Debt
  <2>2. ~(pc' \in Revoking /\ sfo'.mode = "SFO_ACTIVE")
    BY <1>1, <1>7, Checks
  <2>. QED  BY <2>1, <2>2, DebtManagedRest
<1>8. CASE Collected
  <2>1. \A f \in stale : Covered(f) /\ Covered(f)'
    BY <1>0, <1>2, <1>4, <1>8, Collects DEF Debt
  <2>2. CASE pc' = "broad"
    BY <1>0, <1>1, <2>1, <2>2, DebtManagedRest
  <2>3. CASE pc' = "settle" /\ sfo'.mode = "SFO_DEGRADED"
    BY <1>0, <1>1, <2>1, <2>3, DebtManagedRest
  <2>4. CASE /\ sfo' = sfo /\ pc' = "settle"
             /\ attempt.mode = "SFO_ACTIVE" /\ sfo.mode = "SFO_ACTIVE" =>
                  ~Broad({k \in attempt.due : attempt.published[k[1]]})
    <3>1. pc = "gc" /\ attempt.mode = "SFO_ACTIVE" /\ sfo.mode = "SFO_ACTIVE"
          /\ attempt.settled = {}
      <4>1. pc = "gc"
        BY <1>8, Collects
      <4>2. pc \in Waiting /\ pc \notin Resting \cup Revoking
        BY <4>1 DEF Waiting, Resting, Revoking
      <4>. QED  BY <4>1, <4>2 DEF Control
    <3>2. attempt' = attempt
      BY <1>8, Collects
    <3>3. ASSUME NEW f \in stale PROVE Pending(f)'
      <4>1. PICK k \in Due : k[2] = None \/ Finds(k, f)
        BY <2>1 DEF Covered
      <4>2. k[2] # None
        BY <2>4, <3>1, <4>1 DEF Broad, Due
      <4>3. Finds(k, f)' /\ k \in Due' \ attempt'.settled
        BY <1>0, <1>3, <3>1, <3>2, <4>1, <4>2
      <4>4. Sought(k, f)'
        BY <2>4 DEF Sought
      <4>. QED  BY <4>3, <4>4 DEF Pending
    <3>4. attempt'.broad = None
      <4>1. pc \notin Resting \cup Revoking
        BY <3>1 DEF Resting, Revoking
      <4>. QED  BY <3>2, <4>1 DEF Control
    <3>. QED  BY <1>0, <1>1, <2>4, <3>3, <3>4, DebtManagedRest
  <2>. QED  BY <1>8, <2>2, <2>3, <2>4, Collects
<1>9. CASE BroadlyRevoked
  <2>1. pc = "broad" /\ pc' = "settle"
    BY <1>9, BroadlyRevokes
  <2>2. answer = "COMPLETE" => stale = {}
    BY <2>1 DEF Debt
  <2>3. answer # "COMPLETE" => sfo'.mode = "SFO_DEGRADED"
    BY <1>9, BroadlyRevokes
  <2>. QED  BY <1>0, <1>1, <2>1, <2>2, <2>3, DebtManagedRest
<1>10. CASE \E k \in attempt.due : Revoke(k)
  <2>1. PICK k \in attempt.due : Revoke(k)
    BY <1>10
  <2>2. /\ pc = "settle" /\ pc' = "targeted" /\ helper'.step = "collect" /\ answer' = None
        /\ sfo' = sfo /\ sfo.mode = "SFO_ACTIVE"
        /\ attempt' = [attempt EXCEPT !.current = k]
    BY <2>1, Revokes
  <2>3. attempt'.broad = attempt.broad /\ attempt'.settled = attempt.settled
    BY <1>0, <2>2 DEF Attempt
  <2>4. ASSUME NEW f \in stale, Pending(f) PROVE Pending(f)'
    <3>1. PICK key \in Due \ attempt.settled : Finds(key, f)
      BY <2>4 DEF Pending
    <3>2. Sought(key, f)'
      BY <2>2, AbsentAssumption DEF Sought, Answers
    <3>. QED  BY <1>0, <1>3, <2>3, <3>1, <3>2 DEF Pending
  <2>5. IF attempt.broad = None THEN \A f \in stale : Pending(f) ELSE stale = {}
    BY <1>1, <2>2 DEF Debt
  <2>. QED  BY <1>0, <1>1, <2>2, <2>3, <2>4, <2>5, DebtManagedRest
<1>11. CASE Revoked
  <2>1. pc = "targeted" /\ sfo' = sfo /\ pc' \in {"settle", "fallback"}
    BY <1>11, RevokedSo
  <2>2. sfo.mode = "SFO_ACTIVE" =>
          IF attempt.broad = None THEN \A f \in stale : Pending(f) ELSE stale = {}
    BY <1>1, <2>1 DEF Debt
  <2>3. \A k, f : Sought(k, f)'
    BY <2>1 DEF Sought
  <2>4. CASE /\ answer = "COMPLETE"
             /\ attempt' = [attempt EXCEPT !.settled = attempt.settled \cup {attempt.current}]
    <3>1. attempt'.broad = attempt.broad
          /\ attempt'.settled = attempt.settled \cup {attempt.current}
      BY <1>0, <2>4 DEF Attempt
    <3>2. ASSUME NEW f \in stale, Pending(f) PROVE Pending(f)'
      <4>1. PICK key \in Due \ attempt.settled : Finds(key, f) /\ Sought(key, f)
        BY <3>2 DEF Pending
      <4>2. key # attempt.current
        BY <2>1, <2>4, <4>1 DEF Sought
      <4>3. Finds(key, f)' /\ Sought(key, f)' /\ key \in Due' \ attempt'.settled
        BY <1>0, <1>3, <2>3, <3>1, <4>1, <4>2
      <4>. QED  BY <4>3 DEF Pending
    <3>. QED  BY <1>0, <1>1, <2>1, <2>2, <3>1, <3>2, DebtManagedRest
  <2>5. CASE attempt' = attempt
    <3>1. ASSUME NEW f \in stale, Pending(f) PROVE Pending(f)'
      <4>1. PICK key \in Due \ attempt.settled : Finds(key, f)
        BY <3>1 DEF Pending
      <4>2. Finds(key, f)' /\ Sought(key, f)' /\ key \in Due' \ attempt'.settled
        BY <1>0, <1>3, <2>3, <2>5, <4>1
      <4>. QED  BY <4>2 DEF Pending
    <3>. QED  BY <1>0, <1>1, <2>1, <2>2, <2>5, <3>1, DebtManagedRest
  <2>. QED  BY <1>11, <2>4, <2>5, RevokedSo
<1>12. CASE FellBack
  <2>1. pc = "fallback" /\ pc' = "settle"
    BY <1>12, FallsBack
  <2>2. answer = "COMPLETE" => stale = {}
    BY <2>1 DEF Debt
  <2>3. answer = "COMPLETE" \/ sfo'.mode = "SFO_DEGRADED"
    BY <1>12, FallsBack
  <2>. QED  BY <1>0, <1>1, <2>1, <2>2, <2>3, DebtManagedRest
<1>. QED  BY <1>5, <1>6, <1>7, <1>8, <1>9, <1>10, <1>11, <1>12 DEF Managed

\* A flow that access begins to deny and that is to be evicted has a transition
\* planned: the one for its identity, or the broad one.
LEMMA AccessDue ==
  ASSUME Typed, Committed, Planned, pc = "access", attempt \in Attempt,
         authorization # None, NEW f \in NewlyClosed(attempt.policy)
  PROVE  \E k \in attempt.due : k[1] = "access" /\ (k[2] = None \/ Finds(k, f))
<1> DEFINE before == access
           after  == attempt.policy
<1>1. /\ f \in Flows /\ AccessVerdict(before, f) = "allow" /\ AccessVerdict(after, f) = "deny"
      /\ <<"access", None, None>> \in DOMAIN authorization
      /\ f.subject \in before.known <=> f.subject \in after.known
      /\ f.subject \in after.known => recorded[f] # None
  BY DEF NewlyClosed
<1>2. after \in Policies
  BY DEF Attempt
<1>3. ~Accepted("access")
  BY DEF Committed, Accepted
<1>4. attempt.due = Restrictions(authorization, EffectiveSnapshot(after))
  BY DEF Planned, Resting
<1>5. Agrees("access", before)
  <2>1. <<"access", None, None>> \in Scoped("access")
    BY <1>1 DEF Scoped
  <2>. QED  BY <1>3, <2>1 DEF Committed
<1>6. /\ before \in Policies /\ before # None /\ after # None
      /\ \A k \in Keys(before) : k[1] = "access" =>
           k \in DOMAIN authorization /\ authorization[k] = EffectiveSnapshot(before)[k]
  BY <1>2, <1>5, NoneAssumption DEF Agrees, Typed
<1>7. DOMAIN EffectiveSnapshot(after) = Keys(after)
  BY <1>2, SnapshotTyped
<1>8. /\ f.subject \in before.known => before.access[f.subject] = "allow"
      /\ f.subject \notin before.known => before.default = "allow"
      /\ f.subject \in after.known => after.access[f.subject] = "deny"
      /\ f.subject \notin after.known => after.default = "deny"
  BY <1>1, <1>6 DEF AccessVerdict
<1> HIDE DEF before, after
<1>9. ASSUME NEW k \in Keys(before) \cap Keys(after), k[1] = "access",
             EffectiveSnapshot(before)[k] = "allow", EffectiveSnapshot(after)[k] = "deny"
      PROVE  k \in attempt.due
  BY <1>4, <1>6, <1>7, <1>9 DEF Restrictions
<1>10. CASE f.subject \in after.known
  <2> DEFINE k == <<"access", f.subject, None>>
  <2>1. /\ k \in Keys(before)
        /\ EffectiveSnapshot(before)[k] = before.access[f.subject]
    BY <1>1, <1>6, <1>10, SnapshotSays
  <2>2. /\ k \in Keys(after)
        /\ EffectiveSnapshot(after)[k] = after.access[f.subject]
    BY <1>2, <1>10, SnapshotSays
  <2>3. k[1] = "access" /\ k[2] = f.subject /\ k[3] = None
    OBVIOUS
  <2>4. Finds(k, f)
    BY <1>1, <1>10, <2>3 DEF Finds
  <2> HIDE DEF k
  <2>. QED  BY <1>1, <1>8, <1>9, <1>10, <2>1, <2>2, <2>3, <2>4
<1>11. CASE f.subject \notin after.known
  <2> DEFINE k == <<"access", None, None>>
  <2>1. /\ k \in Keys(before) /\ EffectiveSnapshot(before)[k] = before.default
    BY <1>6, SnapshotSays
  <2>2. /\ k \in Keys(after) /\ EffectiveSnapshot(after)[k] = after.default
    BY <1>2, SnapshotSays
  <2>3. k[1] = "access" /\ k[2] = None
    OBVIOUS
  <2> HIDE DEF k
  <2>. QED  BY <1>1, <1>8, <1>9, <1>11, <2>1, <2>2, <2>3
<1>. QED  BY <1>10, <1>11

\* PublishAccess keeps Debt: every flow it begins to deny is covered.
LEMMA DebtAccess ==
  ASSUME Typed, Committed, Planned, Debt, PublishAccess
  PROVE  Debt'
<1>0. /\ pc = "access" /\ pc' = "application" /\ attempt \in Attempt /\ attempt' \in Attempt
      /\ UNCHANGED <<topology, application, ct, recorded, sfo, helper, answer>>
      /\ attempt'.mode = attempt.mode /\ attempt'.due = attempt.due
      /\ attempt'.published["application"] = attempt.published["application"]
  BY PublishingAccess
<1>1. pc \notin Resting /\ pc \in Publishing /\ pc' \in Publishing /\ pc' \notin Revoking
      /\ pc \notin Waiting
  BY <1>0 DEF Resting, Publishing, Revoking, Waiting
<1>2. Due \subseteq KeySpace
  BY <1>1, DueKeys
<1>3. Due \subseteq Due'
  <2>1. \A k \in attempt.due : k[1] \in Scopes
    BY <1>0 DEF Attempt, KeySpace
  <2>2. ~attempt.published["access"]
    BY <1>0 DEF Committed
  <2>. QED  BY <1>0, <2>1, <2>2 DEF Due, Scopes
<1>4. (~CanOffload => \A f \in Flows : ~Offloaded(f))'
  BY <1>0 DEF Debt, CanOffload, Offloaded
<1>5. ASSUME attempt.mode = "SFO_ACTIVE", sfo.mode = "SFO_ACTIVE", ~sfo.baseline, NEW f \in stale'
      PROVE  Covered(f)'
  <2>1. ASSUME f \in stale, f \in Flows PROVE Covered(f)'
    <3>1. Covered(f)
      BY <1>1, <1>5, <2>1 DEF Debt
    <3>. QED  BY <1>0, <1>2, <1>3, <2>1, <3>1, CoveredKept
  <2>2. CASE UNCHANGED stale
    BY <1>5, <2>1, <2>2 DEF Typed
  <2>3. CASE /\ access' = attempt.policy
             /\ attempt'.ok["access"] /\ attempt'.published["access"]
             /\ Restale(NewlyClosed(attempt.policy))
    <3>1. f \in Flows /\ (f \in stale \/ f \in NewlyClosed(attempt.policy))
      BY <1>5, <2>3 DEF Restale
    <3>2. CASE f \in stale
      BY <2>1, <3>1, <3>2
    <3>3. CASE f \in NewlyClosed(attempt.policy)
      <4>1. authorization # None
        BY <1>1, <1>5 DEF Planned
      <4>2. PICK k \in attempt.due : k[1] = "access" /\ (k[2] = None \/ Finds(k, f))
        BY <1>0, <3>1, <3>3, <4>1, AccessDue
      <4>3. k \in Due'
        BY <1>0, <2>3, <4>2 DEF Due
      <4>4. k[2] = None \/ Finds(k, f)'
        BY <1>0, <4>2 DEF Finds
      <4>. QED  BY <4>3, <4>4 DEF Covered
    <3>. QED  BY <3>1, <3>2, <3>3
  <2>. QED  BY <2>2, <2>3, PublishingAccess
<1>6. helper' = None
  BY <1>0, <1>1 DEF Typed
<1>. QED  BY <1>0, <1>1, <1>4, <1>5, <1>6 DEF Debt

\* The same of the application plane, while its enforcement was and stays on.
LEMMA ApplicationDue ==
  ASSUME Typed, Running, Committed, Planned, pc = "application", attempt \in Attempt,
         authorization # None, applied = "enforcing", attempt.policy.enforce,
         NEW now, now.runtime = "enforcing", now.policy = attempt.policy,
         NEW f \in NewlyBarred(now)
  PROVE  \E k \in attempt.due : k[1] = "application" /\ (k[2] = None \/ Finds(k, f))
<1> DEFINE before == application.policy
           after  == attempt.policy
<1>1. /\ f \in Flows
      /\ ApplicationVerdict(application, f) = "allow" /\ ApplicationVerdict(now, f) = "deny"
      /\ f.subject \in before.known <=> f.subject \in after.known
      /\ f.subject \in after.known => recorded[f] = f.class
  BY DEF NewlyBarred
<1>2. application.runtime = "enforcing" /\ before \in Policies /\ before.enforce
  BY DEF Running
<1>3. after \in Policies /\ after.enforce
  BY DEF Attempt
<1>4. attempt.due = Restrictions(authorization, EffectiveSnapshot(after))
  BY DEF Planned, Resting
<1>5. ~Accepted("application")
  BY DEF Committed, Accepted
<1>6. \A k \in Keys(before) : k[1] = "application" =>
        k \in DOMAIN authorization /\ authorization[k] = EffectiveSnapshot(before)[k]
  <2>1. Agrees("application", before)
    BY <1>5 DEF Committed
  <2>. QED  BY <2>1 DEF Agrees
<1>7. DOMAIN EffectiveSnapshot(after) = Keys(after)
  BY <1>3, SnapshotTyped
<1>8. /\ f.subject \in before.known => before.application[<<f.subject, f.class>>] = "allow"
      /\ f.subject \notin before.known => before.unknown = "allow"
      /\ f.subject \in after.known => after.application[<<f.subject, f.class>>] = "deny"
      /\ f.subject \notin after.known => after.unknown = "deny"
  BY <1>1, <1>2 DEF ApplicationVerdict
<1> HIDE DEF before, after
<1>9. ASSUME NEW k \in Keys(before) \cap Keys(after), k[1] = "application",
             EffectiveSnapshot(before)[k] = "allow", EffectiveSnapshot(after)[k] = "deny"
      PROVE  k \in attempt.due
  BY <1>4, <1>6, <1>7, <1>9 DEF Restrictions
<1>10. f.class \in Classes /\ f.class # None
  BY <1>1, FlowAssumption, NoneAssumption
<1>11. CASE f.subject \in after.known
  <2> DEFINE k == <<"application", f.subject, f.class>>
  <2>1. /\ k \in Keys(before)
        /\ EffectiveSnapshot(before)[k] = before.application[<<f.subject, f.class>>]
    BY <1>1, <1>2, <1>10, <1>11, SnapshotSays
  <2>2. /\ k \in Keys(after)
        /\ EffectiveSnapshot(after)[k] = after.application[<<f.subject, f.class>>]
    BY <1>3, <1>10, <1>11, SnapshotSays
  <2>3. k[1] = "application" /\ k[2] = f.subject /\ k[3] = f.class
    OBVIOUS
  <2>4. Finds(k, f)
    BY <1>1, <1>10, <1>11, <2>3 DEF Finds
  <2> HIDE DEF k
  <2>. QED  BY <1>1, <1>8, <1>9, <1>11, <2>1, <2>2, <2>3, <2>4
<1>12. CASE f.subject \notin after.known
  <2> DEFINE k == <<"application", None, None>>
  <2>1. /\ k \in Keys(before) /\ EffectiveSnapshot(before)[k] = before.unknown
    BY <1>2, SnapshotSays
  <2>2. /\ k \in Keys(after) /\ EffectiveSnapshot(after)[k] = after.unknown
    BY <1>3, SnapshotSays
  <2>3. k[1] = "application" /\ k[2] = None
    OBVIOUS
  <2> HIDE DEF k
  <2>. QED  BY <1>1, <1>8, <1>9, <1>12, <2>1, <2>2, <2>3
<1>. QED  BY <1>11, <1>12

\* PublishApplication keeps Debt: so is every flow it begins to deny, unless a
\* baseline is pending because enforcement was off.
LEMMA DebtApplication ==
  ASSUME Typed, Running, Committed, Planned, Debt, PublishApplication
  PROVE  Debt'
<1>0. /\ pc = "application" /\ pc' = "manage" /\ attempt \in Attempt /\ attempt' \in Attempt
      /\ UNCHANGED <<topology, access, ct, recorded, authorization, helper, answer>>
      /\ attempt'.mode = attempt.mode /\ attempt'.due = attempt.due
      /\ attempt'.policy = attempt.policy
      /\ attempt'.ok["access"] = attempt.ok["access"]
      /\ attempt'.published["access"] = attempt.published["access"]
      /\ sfo'.mode = sfo.mode
      /\ sfo.baseline => sfo'.baseline
  BY PublishedApplication
<1>1. pc \notin Resting /\ pc \in Publishing /\ pc' \in Publishing /\ pc' \notin Revoking
      /\ pc \notin Waiting
  BY <1>0 DEF Resting, Publishing, Revoking, Waiting
<1>2. Due \subseteq KeySpace
  BY <1>1, DueKeys
<1>3. Due \subseteq Due'
  <2>1. \A k \in attempt.due : k[1] \in Scopes
    BY <1>0 DEF Attempt, KeySpace
  <2>2. ~attempt.published["application"]
    BY <1>0 DEF Committed
  <2>. QED  BY <1>0, <2>1, <2>2 DEF Due, Scopes
<1>4. (~CanOffload => \A f \in Flows : ~Offloaded(f))'
  BY <1>0 DEF Debt, CanOffload, Offloaded
<1>5. ASSUME attempt.mode = "SFO_ACTIVE", sfo.mode = "SFO_ACTIVE", ~sfo'.baseline, NEW f \in stale'
      PROVE  Covered(f)'
  <2>0. ~sfo.baseline /\ authorization # None
    BY <1>0, <1>1, <1>5 DEF Planned
  <2>1. f \in Flows /\ (f \in stale \/ f \in NewlyBarred(application'))
    BY <1>5, PublishedApplication DEF Restale
  <2>2. CASE f \in stale
    <3>1. Covered(f)
      BY <1>1, <1>5, <2>0, <2>2 DEF Debt
    <3>. QED  BY <1>0, <1>2, <1>3, <2>1, <3>1, CoveredKept
  <2>3. CASE f \in NewlyBarred(application')
    <3>0. /\ ApplicationVerdict(application, f) = "allow"
          /\ ApplicationVerdict(application', f) = "deny"
      BY <2>3 DEF NewlyBarred
    <3>1. application'.runtime = "enforcing" /\ application' # application
      BY <3>0 DEF ApplicationVerdict
    <3>2. /\ attempt'.ok["application"] /\ attempt'.published["application"]
          /\ application' = [runtime |-> IF attempt.policy.enforce THEN "enforcing"
                                         ELSE "tracking",
                             policy |-> attempt.policy]
          /\ sfo'.baseline = (sfo.baseline \/ NewlyEnforcing(attempt.policy.enforce))
      BY <3>1, PublishedApplication DEF Neutral
    <3>3. attempt.policy.enforce /\ application'.policy = attempt.policy
      BY <3>1, <3>2
    <3>4. CASE applied = "enforcing"
      <4>2. PICK k \in attempt.due : k[1] = "application" /\ (k[2] = None \/ Finds(k, f))
        BY <1>0, <2>0, <2>3, <3>1, <3>3, <3>4, ApplicationDue
      <4>3. k \in Due'
        BY <1>0, <3>2, <4>2 DEF Due
      <4>4. k[2] = None \/ Finds(k, f)'
        BY <1>0, <4>2 DEF Finds
      <4>. QED  BY <4>3, <4>4 DEF Covered
    <3>5. CASE applied # "enforcing"
      <4>1. Broad(attempt.due)
        BY <1>5, <3>2, <3>3, <3>5 DEF NewlyEnforcing
      <4>2. PICK k \in attempt.due : k[2] = None
        BY <4>1 DEF Broad
      <4>3. attempt.ok["access"]
        BY <1>0, <4>1 DEF Planned, Resting
      <4>4. attempt.published["access"]
        BY <1>1, <4>3 DEF Committed
      <4>5. k[1] \in Scopes
        BY <1>0 DEF Attempt, KeySpace
      <4>6. k \in Due'
        BY <1>0, <3>2, <4>2, <4>4, <4>5 DEF Due, Scopes
      <4>. QED  BY <4>2, <4>6 DEF Covered
    <3>. QED  BY <3>4, <3>5
  <2>. QED  BY <2>1, <2>2, <2>3
<1>6. helper' = None
  BY <1>0, <1>1 DEF Typed
<1>. QED  BY <1>0, <1>1, <1>4, <1>5, <1>6 DEF Debt

\* Debt is inductive.
LEMMA DebtStep ==
  ASSUME ~BroadUnpublished
  PROVE  /\ Typed /\ Dead /\ Control /\ Running /\ Committed /\ Planned /\ Debt
         /\ [Next]_vars
         => Debt'
<1>. SUFFICES ASSUME Typed, Dead, Control, Running, Committed, Planned, Debt,
                     [Next]_vars
     PROVE  Debt'
  OBVIOUS
<1>1. CASE Begin
  <2>1. /\ pc = "idle" /\ pc' = "access" /\ helper' = None /\ answer' = None
        /\ UNCHANGED <<topology, ct, sfo, stale>>
    BY <1>1, Begins
  <2>2. (~CanOffload => \A f \in Flows : ~Offloaded(f))'
    BY <2>1 DEF Debt, CanOffload, Offloaded
  <2>. QED  BY <2>1, <2>2 DEF Debt, Publishing, Revoking
<1>2. CASE Finish
  <2>1. /\ pc = "settle" /\ pc' = "idle" /\ Revocable = {} /\ helper' = None
        /\ UNCHANGED <<topology, ct, sfo, stale>>
    BY <1>2, Finishes
  <2>2. (~CanOffload => \A f \in Flows : ~Offloaded(f))'
    BY <2>1 DEF Debt, CanOffload, Offloaded
  <2>3. sfo.mode = "SFO_ACTIVE" => stale = {}
    <3>1. SUFFICES ASSUME sfo.mode = "SFO_ACTIVE", attempt.broad = None, NEW f \in stale
                   PROVE  FALSE
      BY <2>1 DEF Debt, Revoking
    <3>2. attempt.mode = "SFO_ACTIVE"
      BY <2>1, <3>1 DEF Control
    <3>3. Pending(f)
      BY <2>1, <3>1 DEF Debt, Revoking
    <3>4. Due \ attempt.settled = {}
      BY <2>1, <3>1, <3>2 DEF Revocable, Due
    <3>. QED  BY <3>3, <3>4 DEF Pending
  <2>. QED  BY <2>1, <2>2, <2>3 DEF Debt, Publishing, Revoking
<1>3. CASE \E p \in Policies : Configure(p)
  <2>1. UNCHANGED <<topology, ct, recorded, sfo, attempt, helper, answer, pc, stale>>
    BY <1>3, ConfigureTyped
  <2>. QED  BY <2>1 DEF Debt, CanOffload, Offloaded, Covered, Finds, Pending, Due, Sought
<1>4. CASE Crash
  <2>1. /\ pc' = "down" /\ helper' = None /\ UNCHANGED <<topology, ct>>
    BY <1>4, Crashes
  <2>2. (~CanOffload => \A f \in Flows : ~Offloaded(f))'
    BY <2>1 DEF Debt, CanOffload, Offloaded
  <2>. QED  BY <2>1, <2>2 DEF Debt, Publishing, Revoking
<1>5. CASE Start
  <2>1. /\ pc = "down" /\ pc' = "idle" /\ UNCHANGED <<topology, ct, sfo, helper>>
    BY <1>5, StartTyped
  <2>2. sfo'.mode # "SFO_ACTIVE"
    BY <2>1 DEF Dead, NoAcceleration
  <2>3. helper' = None
    BY <2>1 DEF Typed, Waiting
  <2>4. (~CanOffload => \A f \in Flows : ~Offloaded(f))'
    BY <2>1 DEF Debt, CanOffload, Offloaded
  <2>. QED  BY <2>1, <2>2, <2>3, <2>4 DEF Debt, Publishing, Revoking
<1>6. CASE UNCHANGED vars
  <2>1. UNCHANGED <<topology, ct, recorded, sfo, attempt, helper, answer, pc, stale>>
    BY <1>6 DEF vars
  <2>. QED  BY <2>1 DEF Debt, CanOffload, Offloaded, Covered, Finds, Pending, Due, Sought
<1>. QED  BY <1>1, <1>2, <1>3, <1>4, <1>5, <1>6, Grouped, DebtAccess, DebtApplication,
             DebtManaged, DebtApart

\* The inductive invariant.
IInv == /\ Typed /\ Dead /\ Control /\ Running /\ Committed /\ Planned /\ Debt

\* StaleEvicted follows: nothing is stale when the acceleration has converged.
LEMMA Evicted == IInv => StaleEvicted
<1>. SUFFICES ASSUME IInv, pc = "idle", status["acceleration"],
                     sfo.mode = Capability(topology, TRUE)
     PROVE  stale = {}
  BY DEF StaleEvicted
<1>1. sfo.mode \in {"SFO_ACTIVE", "NO_OFFLOAD", "SFO_AVAILABLE"}
  BY DEF IInv, Control, Resting
<1>2. CASE sfo.mode = "SFO_ACTIVE"
  BY <1>2 DEF IInv, Debt
<1>3. CASE sfo.mode \in {"NO_OFFLOAD", "SFO_AVAILABLE"}
  <2>1. ~CanOffload
    BY <1>3 DEF Capability, CanOffload
  <2>. QED  BY <2>1 DEF IInv, Debt, Typed
<1>. QED  BY <1>1, <1>2, <1>3

\* A reconciliation that reports convergence leaves no flow offloaded that the daemon
\* was to evict, as long as a restriction of everyone else is published when planned.
THEOREM RevocationsDone ==
  ASSUME ~BroadUnpublished
  PROVE  Spec => []StaleEvicted
<1>1. Init => IInv
  BY InitTyped, InitHolds DEF IInv
<1>2. IInv /\ [Next]_vars => IInv'
  BY TypedStep, DeadStep, ControlStep, RunningStep, CommittedStep, PlannedStep, DebtStep DEF IInv
<1>3. IInv => StaleEvicted
  BY Evicted
<1>. QED  BY <1>1, <1>2, <1>3, PTL DEF Spec
================================================================================
