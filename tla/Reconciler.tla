------------------------------ MODULE Reconciler ------------------------------
(***************************************************************************)
(* client-accessd: one reconciliation after another turns the desired      *)
(* state (configuration, schedules, approvals, observations: here one      *)
(* value) into the nft sets of the access plane and the BPF snapshot, TC   *)
(* attachments and nft scope of the application plane.                     *)
(*                                                                         *)
(* The daemon is single-threaded and runs one external command at a time.  *)
(* Every command is a step that may fail; between any two steps the daemon *)
(* may be killed, the configuration may change, a firewall reload may      *)
(* empty the nft sets, and an interface or the BPF backend may go away.    *)
(* Software flow offload is left to a module of its own: only whether it   *)
(* requires correlation (tracking) or forbids enforcement (conflict)       *)
(* matters here.                                                           *)
(***************************************************************************)
EXTENDS Integers, FiniteSets

CONSTANTS
  Interfaces,    \* LAN source interfaces that can exist
  Desires,       \* the desired states the configuration goes through
  Off,           \* the access policy of a disabled access plane: empty sets
  None,          \* no signature, no snapshot, no attempt
  Partial,       \* the content of a snapshot that was cut off
  Conditions,    \* what else may happen: see below
  MaxFaults,     \* bound: commands that fail
  MaxChanges,    \* bound: changes around the daemon, its own deaths included
  MaxFlushes     \* bound: reconciliations without repair

ASSUME DesireAssumption ==
  \A d \in Desires :
    /\ d.interfaces \subseteq Interfaces
    /\ {d.requested, d.valid, d.tracking, d.conflict} \subseteq BOOLEAN

\* GENERATIONS_UNREADABLE: `bpfctl generations` may fail on a loaded object.
\* WRITE_CUT_SHORT: a short write to `bpfctl sync` may end with a row.
\* ENDLESS_OBSERVATIONS: accepted DNS results keep arriving for ever.
ASSUME ConditionAssumption ==
  Conditions \subseteq
    {"GENERATIONS_UNREADABLE", "WRITE_CUT_SHORT", "ENDLESS_OBSERVATIONS"}
ASSUME BoundAssumption ==
  {MaxFaults, MaxChanges, MaxFlushes} \subseteq Nat

Kinds == {"policy", "classifier"}

\* A desired state d has
\*   access, policy, classifier : the compiled policy of each
\*   requested  : application enforcement is requested
\*   valid      : nothing that the request depends on has an error
\*   tracking   : offload needs flows correlated with their subjects
\*   conflict   : offload is present and not known to be safe
\*   interfaces : what the source zone resolves to
\* The signatures are what desired_state.build derives from it.
Signature(d) ==
  [policy     |-> <<d.policy, d.interfaces, d.tracking, d.requested>>,
   classifier |-> <<d.classifier>>]
\* No signature is the one of a plane that has nothing applied.
ASSUME SignatureAssumption ==
  \A d \in Desires : Signature(d).policy # None

AccessSignature(d) == IF d.access = Off THEN Off ELSE <<d.access, d.interfaces>>
AccessReady(d)     == d.access = Off \/ d.interfaces # {}

VARIABLES
  desire,     \* what configuration, clock and observations ask for
  present,    \* the BPF backend is installed
  kernel,     \* the pinned BPF object and its control record
  attached,   \* interfaces with the owned TC filter
  published,  \* history: <<generation, policy>> since the flow map was created
  access,     \* the access plane's nft sets, by signature
  scope,      \* the application plane's nft scope
  committed,  \* the daemon's committed state
  attempt,    \* the reconciliation in progress, or None
  pc,         \* what the daemon does next
  timer,      \* the safety wakeup is armed
  queued,     \* the observation flush is armed
  spent       \* faults, changes and flushes so far

kernelVars == <<kernel, attached, published>>
nftVars    == <<access, scope>>
worldVars  == <<desire, present>>
vars == <<desire, present, kernel, attached, published, access, scope,
          committed, attempt, pc, timer, queued, spent>>

\* Without pins there is no object at all; a freshly loaded one has published
\* nothing and knows no flow.
Unloaded == [loaded |-> FALSE, enabled |-> FALSE, enforcing |-> FALSE,
             generation |-> [k \in Kinds |-> 0],
             content |-> [k \in Kinds |-> None]]
Loaded   == [Unloaded EXCEPT !.loaded = TRUE]

\* state_schema.application
NoApplication ==
  [generation |-> [k \in Kinds |-> 0],
   signature  |-> [k \in Kinds |-> None],
   sources    |-> {},
   attached   |-> {},
   enforcing  |-> FALSE]
NoCommit == [access |-> None, application |-> NoApplication,
             requested |-> FALSE, usable |-> FALSE, observing |-> FALSE]

Resting == {"down", "disable at start", "scope at start", "idle"}
PCs == Resting \cup
  {"access", "decide", "ensure", "attach", "undo", "sync", "scope", "prune",
   "restore", "health", "neutral disable", "neutral prune", "neutral scope",
   "commit"}

Signatures  == UNION {{Signature(d)[k] : d \in Desires} : k \in Kinds}
Generations == [Kinds -> Nat]
Application == [generation : Generations,
                signature  : [Kinds -> Signatures \cup {None}],
                sources    : SUBSET Interfaces,
                attached   : SUBSET Interfaces,
                enforcing  : BOOLEAN]
Attempt == [want     : Desires,
            repair   : BOOLEAN,
            changed  : [Kinds -> BOOLEAN],
            work     : Application,
            todo     : SUBSET Interfaces,
            added    : SUBSET Interfaces,
            clean    : BOOLEAN,
            accessOk : BOOLEAN,
            result   : [ok : BOOLEAN, tracking : BOOLEAN]]

TypeOK ==
  /\ desire \in Desires
  /\ {present, timer, queued, kernel.loaded, kernel.enabled, kernel.enforcing}
       \subseteq BOOLEAN
  /\ kernel.generation \in Generations
  /\ attached \subseteq Interfaces
  /\ scope \subseteq Interfaces
  /\ committed.application \in Application
  /\ pc \in PCs
  /\ IF pc \in Resting THEN attempt = None ELSE attempt \in Attempt

Init ==
  /\ desire \in Desires
  /\ present \in BOOLEAN
  /\ kernel = Unloaded
  /\ attached = {}
  /\ published = {}
  /\ access = Off
  /\ scope = {}
  /\ committed = NoCommit
  /\ attempt = None
  /\ pc = "down"
  /\ timer = FALSE
  /\ queued = FALSE
  /\ spent = [faults |-> 0, changes |-> 0, flushes |-> 0]

--------------------------------------------------------------------------------
(* Commands.                                                               *)

Spend(what, max) == spent[what] < max /\ spent' = [spent EXCEPT ![what] = @ + 1]

\* A command that can work succeeds or, at a cost, fails; one that cannot
\* fails.
Succeeds(works) == works /\ UNCHANGED spent
Fails(works)    == IF works THEN Spend("faults", MaxFaults) ELSE UNCHANGED spent

Goto(l)      == pc' = l /\ UNCHANGED attempt
Move(l, a)   == pc' = l /\ attempt' = a
Want         == attempt.want
Work         == attempt.work
Wanted       == Want.requested \/ Want.tracking

\* `disable` clears the flag of a control record that exists.
Disabled == [kernel EXCEPT !.enabled = FALSE]

\* `prune` looks for filters of the pinned program only; when it fails it may
\* have detached any of them.
Pruned(keep) == IF kernel.loaded THEN attached \cap keep ELSE attached
PartlyPruned(keep) ==
  attached' \in {s \in SUBSET attached : attached \cap keep \subseteq s}

Result(ok, tracking) == [ok |-> ok, tracking |-> tracking]

\* application_reconcile.neutralize is a sequence of three commands whose
\* failures are collected; `ok` is what the attempt returns if none fails.
Neutralize(ok) ==
  Move("neutral disable", [attempt EXCEPT !.result = Result(ok, FALSE)])

--------------------------------------------------------------------------------
(* Planning.                                                               *)

\* observed.collect: the generations in the control record, when there is one
\* to read; otherwise the planner falls back to its own.
ObservedFloors ==
  {IF present /\ kernel.loaded THEN kernel.generation ELSE NoApplication.generation}
    \cup IF "GENERATIONS_UNREADABLE" \in Conditions
           THEN {NoApplication.generation} ELSE {}

BaseIgnoringFloor(floor, own) == own
Base(floor, own) ==
  [k \in Kinds |-> IF floor[k] > own[k] THEN floor[k] ELSE own[k]]

\* reconcile.plan and the head of executor.execute.
Plan(d, repair, floor) ==
  LET own == committed.application
  IN  [want     |-> d,
       repair   |-> repair,
       changed  |-> [k \in Kinds |-> Signature(d)[k] # own.signature[k]],
       work     |-> [own EXCEPT !.generation = Base(floor, own.generation)],
       todo     |-> {},
       added    |-> {},
       clean    |-> TRUE,
       accessOk |-> FALSE,
       result   |-> Result(FALSE, FALSE)]

Begin(repair) ==
  /\ pc = "idle"
  /\ \E floor \in ObservedFloors : Move("access", Plan(desire, repair, floor))
  /\ UNCHANGED <<committed, worldVars, kernelVars, nftVars>>

\* The safety timer: reconcile('timer', true).  A ubus reconcile and a hotplug
\* event do the same.
Wakeup ==
  /\ timer
  /\ timer' = FALSE
  /\ Begin(TRUE)
  /\ UNCHANGED <<queued, spent>>

\* An accepted DNS result: the last reconciliation saw a usable policy and some
\* application snapshot succeeded since the daemon started.
Observe ==
  /\ pc = "idle"
  /\ committed.usable
  /\ committed.observing
  /\ ~queued
  /\ queued' = TRUE
  /\ IF "ENDLESS_OBSERVATIONS" \in Conditions
       THEN UNCHANGED spent
       ELSE Spend("flushes", MaxFlushes)
  /\ UNCHANGED <<committed, attempt, pc, timer, worldVars, kernelVars, nftVars>>

\* flush_observation_updates: reconcile('classification-observation', false).
Flush ==
  /\ queued
  /\ queued' = FALSE
  /\ \/ committed.requested /\ Begin(FALSE)
     \/ /\ pc = "idle"
        /\ ~committed.requested
        /\ UNCHANGED <<committed, attempt, pc, worldVars, kernelVars, nftVars>>
  /\ UNCHANGED <<timer, spent>>

--------------------------------------------------------------------------------
(* Execution.                                                              *)

Daemon == UNCHANGED <<committed, timer, queued, worldVars>>

\* An access plane that is written when its signature changed only.
AccessDueIfChanged == AccessSignature(Want) # committed.access

AccessDue == attempt.repair \/ AccessSignature(Want) # committed.access

\* The access plane is one nft transaction, run when the signature changed or
\* on repair.
PublishAccess ==
  LET Done(ok) == Move("decide", [attempt EXCEPT !.accessOk = ok])
  IN  /\ pc = "access"
      /\ \/ /\ Succeeds(AccessReady(Want))
            /\ Done(TRUE)
            /\ access' = IF AccessDue THEN AccessSignature(Want) ELSE access
         \/ /\ AccessDue \/ ~AccessReady(Want)
            /\ Fails(AccessReady(Want))
            /\ Done(FALSE)
            /\ UNCHANGED access
      /\ Daemon
      /\ UNCHANGED <<scope, kernelVars>>

PreviouslyEnabled == Work.signature.policy # None /\ Work.attached # {}
Retain == Move("restore", [attempt EXCEPT !.result = Result(FALSE, TRUE)])

\* The early returns of application_reconcile.apply.
Refused == ~present \/ (Want.requested /\ Want.conflict)
Invalid == ~Want.valid \/ Want.interfaces = {}
Decide ==
  /\ pc = "decide"
  /\ \/ ~Wanted /\ Neutralize(TRUE)
     \/ Wanted /\ Refused /\ Neutralize(FALSE)
     \/ Wanted /\ ~Refused /\ Invalid /\ PreviouslyEnabled /\ Retain
     \/ Wanted /\ ~Refused /\ Invalid /\ ~PreviouslyEnabled /\ Neutralize(FALSE)
     \/ Wanted /\ ~Refused /\ ~Invalid /\ Goto("ensure")
  /\ Daemon
  /\ UNCHANGED <<spent, kernelVars, nftVars>>

\* `bpfctl ensure` loads the object unless it is there.
Ensure ==
  /\ pc = "ensure"
  /\ \/ /\ Succeeds(present)
        /\ kernel' = IF kernel.loaded THEN kernel ELSE Loaded
        /\ published' = IF kernel.loaded THEN published ELSE {}
        /\ Move("attach", [attempt EXCEPT !.todo =
             IF attempt.repair THEN Want.interfaces
                               ELSE Want.interfaces \ Work.attached])
     \/ Fails(present) /\ Neutralize(FALSE) /\ UNCHANGED <<kernel, published>>
  /\ Daemon
  /\ UNCHANGED <<attached, nftVars>>

Usable == present /\ kernel.loaded

Attach(i) ==
  /\ pc = "attach"
  /\ i \in attempt.todo
  /\ \/ /\ Succeeds(Usable)
        /\ attached' = attached \cup {i}
        /\ Move("attach", [attempt EXCEPT !.todo = @ \ {i}, !.added = @ \cup {i}])
     \/ /\ Fails(Usable)
        /\ Move("attach", [attempt EXCEPT !.todo = @ \ {i}, !.clean = FALSE])
        /\ UNCHANGED attached
  /\ Daemon
  /\ UNCHANGED <<kernel, published, nftVars>>

Undo == Move("undo", [attempt EXCEPT !.todo = attempt.added \ Work.attached])

Attached ==
  /\ pc = "attach"
  /\ attempt.todo = {}
  /\ IF attempt.clean THEN Goto("sync") ELSE Undo
  /\ Daemon
  /\ UNCHANGED <<spent, kernelVars, nftVars>>

Candidate == [k \in Kinds |-> Work.generation[k] + IF attempt.changed[k] THEN 1 ELSE 0]

Snapshot(content) ==
  [loaded |-> TRUE, enabled |-> TRUE, enforcing |-> Want.requested,
   generation |-> Candidate, content |-> content]
PublishSnapshot(content) ==
  /\ kernel' = Snapshot(content)
  /\ published' = published \cup {<<Candidate.policy, content.policy>>}
CutOff == [k \in Kinds |-> Partial]

\* Publication that forgets about the classifier.
PublishDueForPolicy == attempt.repair \/ attempt.changed.policy

PublishDue == attempt.repair \/ \E k \in Kinds : attempt.changed[k]

\* bpf_runtime.publish: `bpfctl sync` reads the snapshot from its input.  It
\* knows the end of the input only by the pipe being closed, so a short write
\* is reported as a failure here and may still have been published there.
Sync ==
  /\ pc = "sync"
  /\ \/ ~PublishDue /\ Goto("scope") /\ UNCHANGED <<kernel, published, spent>>
     \/ /\ PublishDue
        /\ Succeeds(Usable)
        /\ PublishSnapshot(Signature(Want))
        /\ Move("scope", [attempt EXCEPT !.work.generation = Candidate])
     \/ /\ PublishDue
        /\ Fails(Usable)
        /\ Undo
        /\ \/ UNCHANGED <<kernel, published>>
           \/ /\ "WRITE_CUT_SHORT" \in Conditions
              /\ Usable
              /\ PublishSnapshot(CutOff)
  /\ Daemon
  /\ UNCHANGED <<attached, nftVars>>

\* The filters this attempt added are detached again, failures ignored, and
\* the previous snapshot is retained if there was one.
Detach(i) ==
  /\ pc = "undo"
  /\ i \in attempt.todo
  /\ \/ Succeeds(Usable) /\ attached' = attached \ {i}
     \/ Fails(Usable) /\ UNCHANGED attached
  /\ Move("undo", [attempt EXCEPT !.todo = @ \ {i}])
  /\ Daemon
  /\ UNCHANGED <<kernel, published, nftVars>>

Undone ==
  /\ pc = "undo"
  /\ attempt.todo = {}
  /\ IF PreviouslyEnabled THEN Retain ELSE Goto("commit")
  /\ Daemon
  /\ UNCHANGED <<spent, kernelVars, nftVars>>

\* restore_scope: the previous scope again, or neutral.
Restore ==
  /\ pc = "restore"
  /\ \/ /\ Succeeds(TRUE)
        /\ scope' = IF Work.enforcing THEN Work.sources ELSE {}
        /\ Goto("health")
     \/ Fails(TRUE) /\ Neutralize(FALSE) /\ UNCHANGED scope
  /\ Daemon
  /\ UNCHANGED <<access, kernelVars>>

Scope ==
  /\ pc = "scope"
  /\ \/ /\ Succeeds(TRUE)
        /\ scope' = IF Want.requested THEN Want.interfaces ELSE {}
        /\ Goto("prune")
     \/ Fails(TRUE) /\ Neutralize(FALSE) /\ UNCHANGED scope
  /\ Daemon
  /\ UNCHANGED <<access, kernelVars>>

\* The attempt has published everything once the owned filters are exactly on
\* the wanted interfaces.
Applied ==
  [Work EXCEPT !.signature = Signature(Want), !.sources = Want.interfaces,
               !.attached = Want.interfaces, !.enforcing = Want.requested]
Prune ==
  /\ pc = "prune"
  /\ \/ /\ Succeeds(present)
        /\ attached' = Pruned(Want.interfaces)
        /\ Move("health", [attempt EXCEPT !.work = Applied,
                                          !.result = Result(TRUE, TRUE)])
     \/ /\ Fails(present)
        /\ PartlyPruned(Want.interfaces)
        /\ Neutralize(FALSE)
  /\ Daemon
  /\ UNCHANGED <<kernel, published, nftVars>>

\* `bpfctl health`: enabled, both generations and the exact attachments.
Healthy ==
  /\ Usable
  /\ kernel.enabled
  /\ kernel.generation = Work.generation
  /\ attached = Work.attached
Health ==
  /\ pc = "health"
  /\ \/ Succeeds(Healthy) /\ Goto("commit")
     \/ Fails(Healthy) /\ Neutralize(FALSE)
  /\ Daemon
  /\ UNCHANGED <<kernelVars, nftVars>>

--------------------------------------------------------------------------------
(* Neutralization.                                                         *)

Noted(l, ok) == Move(l, [attempt EXCEPT !.result.ok = @ /\ ok])

\* Whatever failed, the daemon forgets what it had applied.
Forgotten(a, ok) ==
  [a EXCEPT !.work = [NoApplication EXCEPT !.generation = a.work.generation,
                                           !.attached = a.work.attached],
            !.result.ok = @ /\ ok]

\* A neutralization that gives up when the control record cannot be disabled.
NeutralDisableOrGiveUp ==
  /\ pc = "neutral disable"
  /\ \/ Succeeds(TRUE) /\ kernel' = Disabled /\ Noted("neutral prune", TRUE)
     \/ Fails(TRUE) /\ UNCHANGED kernel /\ Move("commit", Forgotten(attempt, FALSE))
  /\ Daemon
  /\ UNCHANGED <<attached, published, nftVars>>

NeutralDisable ==
  /\ pc = "neutral disable"
  /\ \/ Succeeds(TRUE) /\ kernel' = Disabled /\ Noted("neutral prune", TRUE)
     \/ Fails(TRUE) /\ UNCHANGED kernel /\ Noted("neutral prune", FALSE)
  /\ Daemon
  /\ UNCHANGED <<attached, published, nftVars>>

NeutralPrune ==
  /\ pc = "neutral prune"
  /\ \/ /\ Succeeds(TRUE)
        /\ attached' = Pruned({})
        /\ Move("neutral scope", [attempt EXCEPT !.work.attached = {}])
     \/ /\ Fails(TRUE)
        /\ PartlyPruned({})
        /\ Noted("neutral scope", FALSE)
  /\ Daemon
  /\ UNCHANGED <<kernel, published, nftVars>>

NeutralScope ==
  /\ pc = "neutral scope"
  /\ \/ Succeeds(TRUE) /\ scope' = {} /\ Move("commit", Forgotten(attempt, TRUE))
     \/ Fails(TRUE) /\ UNCHANGED scope /\ Move("commit", Forgotten(attempt, FALSE))
  /\ Daemon
  /\ UNCHANGED <<access, kernelVars>>

--------------------------------------------------------------------------------
(* Commit, crash and restart.                                              *)

\* state_commit.apply, and the safety timer armed again whatever happened.
CommitState ==
  [access      |-> IF attempt.accessOk THEN AccessSignature(Want) ELSE committed.access,
   application |-> Work,
   requested   |-> Want.requested,
   usable      |-> Want.requested /\ Want.valid,
   observing   |-> committed.observing \/ (attempt.result.ok /\ Want.requested)]

\* reconcile_active left set.
CommitStillActive ==
  /\ pc = "commit"
  /\ committed' = CommitState
  /\ timer' = TRUE
  /\ Goto("idle")
  /\ UNCHANGED <<queued, spent, worldVars, kernelVars, nftVars>>

Commit ==
  /\ pc = "commit"
  /\ committed' = CommitState
  /\ timer' = TRUE
  /\ Move("idle", None)
  /\ UNCHANGED <<queued, spent, worldVars, kernelVars, nftVars>>

\* The daemon dies.  A `bpfctl sync` it had started reads what was written so
\* far, and finishes before procd starts the daemon again.
Crash ==
  /\ pc # "down"
  /\ Spend("changes", MaxChanges)
  /\ committed' = NoCommit
  /\ timer' = FALSE
  /\ queued' = FALSE
  /\ Move("down", None)
  /\ \/ UNCHANGED <<kernel, published>>
     \/ /\ pc = "sync"
        /\ PublishDue
        /\ Usable
        /\ \E content \in {Signature(Want), CutOff} : PublishSnapshot(content)
  /\ UNCHANGED <<attached, worldVars, nftVars>>

Start ==
  /\ pc = "down"
  /\ Goto("disable at start")
  /\ Daemon
  /\ UNCHANGED <<spent, kernelVars, nftVars>>

\* executor.neutralize_startup; its result is not looked at.
StartDisable ==
  /\ pc = "disable at start"
  /\ \/ Succeeds(TRUE) /\ kernel' = Disabled
     \/ Fails(TRUE) /\ UNCHANGED kernel
  /\ Goto("scope at start")
  /\ Daemon
  /\ UNCHANGED <<attached, published, nftVars>>

StartScope ==
  /\ pc = "scope at start"
  /\ \/ Succeeds(TRUE) /\ scope' = {}
     \/ Fails(TRUE) /\ UNCHANGED scope
  /\ Goto("idle")
  /\ timer' = TRUE
  /\ UNCHANGED <<access, committed, queued, worldVars, kernelVars>>

--------------------------------------------------------------------------------
(* The world.                                                              *)

Change == Spend("changes", MaxChanges) /\ UNCHANGED <<committed, attempt, pc, timer, queued>>

Reconfigure(d) ==
  /\ d # desire
  /\ desire' = d
  /\ Change
  /\ UNCHANGED <<present, kernelVars, nftVars>>

\* fw4 rebuilds its table: every set of ours is there again, and empty.
ReloadFirewall ==
  /\ access # Off \/ scope # {}
  /\ access' = Off
  /\ scope' = {}
  /\ Change
  /\ UNCHANGED <<worldVars, kernelVars>>

\* An interface is deleted and created again: its qdisc is gone.
RecreateInterface(i) ==
  /\ i \in attached
  /\ attached' = attached \ {i}
  /\ Change
  /\ UNCHANGED <<kernel, published, worldVars, nftVars>>

\* The package's prerm: `bpfctl unload`, then the files go.
RemoveBackend ==
  /\ present
  /\ present' = FALSE
  /\ kernel' = Unloaded
  /\ attached' = {}
  /\ published' = {}
  /\ Change
  /\ UNCHANGED <<desire, nftVars>>

InstallBackend ==
  /\ ~present
  /\ present' = TRUE
  /\ Change
  /\ UNCHANGED <<desire, kernelVars, nftVars>>

--------------------------------------------------------------------------------
Step ==
  \/ PublishAccess
  \/ Decide
  \/ Ensure
  \/ \E i \in Interfaces : Attach(i)
  \/ Attached
  \/ Sync
  \/ \E i \in Interfaces : Detach(i)
  \/ Undone
  \/ Restore
  \/ Scope
  \/ Prune
  \/ Health
  \/ NeutralDisable
  \/ NeutralPrune
  \/ NeutralScope
  \/ Commit
  \/ Start
  \/ StartDisable
  \/ StartScope

World ==
  \/ \E d \in Desires : Reconfigure(d)
  \/ ReloadFirewall
  \/ \E i \in Interfaces : RecreateInterface(i)
  \/ RemoveBackend
  \/ InstallBackend

Next == Step \/ Wakeup \/ Observe \/ Flush \/ Crash \/ World

\* The daemon's own steps do not stop half way, procd starts it again, and an
\* armed timer that is not set again fires.
Fairness == WF_vars(Step) /\ WF_vars(Wakeup) /\ WF_vars(Flush)

Spec == Init /\ [][Next]_vars /\ Fairness

--------------------------------------------------------------------------------
(* Properties.                                                             *)

IsApplied == committed.application.signature.policy # None

\* Between reconciliations, while the daemon takes a policy for applied, the
\* generation in the control record has named that policy and no other since
\* the flow map was created, so a flow's cached verdict that carries it is this
\* policy's, across crashes, cut-off snapshots, failed attempts and repairs.
GenerationNamesPolicy ==
  pc = "idle" /\ IsApplied /\ kernel.enabled
    /\ kernel.generation = committed.application.generation =>
    \A p \in published : p[1] = kernel.generation.policy => p[2] = kernel.content.policy

\* The health check compares generations, never contents; that is enough: when it
\* passes, both halves of the published snapshot and the enforcement flag are
\* what the daemon is about to commit as applied.
HealthIsEnough ==
  [][pc = "health" /\ pc' = "commit" =>
       /\ kernel.content = Work.signature
       /\ kernel.enforcing = Work.enforcing]_vars

\* Denied packets are dropped only by an enabled, enforcing program that is
\* attached and marks packets inside the nft scope.
Dropping == kernel.enabled /\ kernel.enforcing /\ attached # {} /\ scope # {}

\* Neutralization has three independent layers: with one failed command in the
\* life of the system, whichever it was, application filtering never stays in
\* force between reconciliations without the daemon counting it as applied.
SingleFaultNeutral ==
  pc = "idle" /\ ~IsApplied /\ spent.faults < 2 => ~Dropping

AccessSynchronized == AccessReady(desire) => access = AccessSignature(desire)

ApplicationSynchronized ==
  IF ~(desire.requested \/ desire.tracking)
       \/ ~present \/ (desire.requested /\ desire.conflict)
    THEN ~Dropping
    ELSE desire.valid /\ desire.interfaces # {} =>
           /\ kernel.enabled
           /\ kernel.content = Signature(desire)
           /\ kernel.enforcing = desire.requested
           /\ attached = desire.interfaces
           /\ scope = IF desire.requested THEN desire.interfaces ELSE {}

\* Once the world and the commands hold still, the daemon gets both planes to
\* what is asked for and keeps them there, whatever was lost or left half done
\* before: every attempt, failed or not, arms the timer of the next repair.
Converges ==
  /\ []<>(pc = "idle")
  /\ <>[](pc = "idle" => AccessSynchronized /\ ApplicationSynchronized)

\* What the daemon's comment says: "The safety wakeup also repairs runtime set
\* loss after an out-of-band fw4 reload."
SetLossRepaired == <>[](pc = "idle" => AccessSynchronized)
================================================================================
