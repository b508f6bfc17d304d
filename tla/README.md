# Formal models of client-access

`client-access` controls which LAN clients of an OpenWrt router may reach the
network and which applications they may use there. This directory holds TLA+
models of its concurrent and failure-prone parts, the TLC configurations that
check them on small instances, and TLAPS proofs of the main results for every
instance. Paths below are relative to `src/`.

## The system

Two *planes* carry the policy into the kernel:

* the **access plane**: nft sets (`client_access_sources`, mode sets, exception
  sets) that static chains in fw4's table look up; written by the daemon as one
  nft transaction;
* the **application plane**: a TC ingress BPF program on every LAN interface
  classifies flows by hints (port, IPv4/IPv6 prefix, DNS-derived) and marks
  packets of denied flows; an nft chain drops marked packets of interfaces in
  the application *scope* sets.

A third party, netfilter's **software flow offload**, lets established flows
bypass both planes; a helper (`sfo/client-access-sfoctl.c`) evicts them.

### Components

| Component | State it keeps | Operations | Talks to | What is hard, and what makes it correct |
|---|---|---|---|---|
| Snapshot publication (`src/bpf-snapshot.c`, `bpf-runtime.c`, `bpfctl-common.c`) | `ca_config`, two slots of five BPF maps, flock | `bpfctl sync`, `disable` | datapath, through pinned maps | packets in flight read the maps while they are rewritten; sync may stop anywhere. *A packet sees exactly one whole snapshot.* |
| Datapath flow cache (`src/client-access-bpf.c`) | `ca_flows`, pending count, rate windows | `ca_ingress` per packet; `bpfctl gc` | snapshot, mark read by nft | CPUs race on one record with lock-free map operations. *Reservations are conserved, no flow is left pending, a cached verdict is its generation's.* |
| Reconciliation (`root/usr/sbin/client-accessd`, `reconcile.uc`, `executor.uc`, `application_reconcile.uc`, `commit.uc`, `observed.uc`, `desired.uc`) | `committed` state, `reconcile_active`, timers | reconcile by timer, ubus, hotplug, observation; startup | every command below, configuration, firewall | any command fails, the daemon dies, firewall and interfaces change underneath. *Generations never name two policies, failure neutralizes, both planes converge.* |
| BPF object and TC (`src/bpf-object.c`, `bpf-tc.c`, `bpf-health.c`) | pins, TC filters | `ensure`, `attach`, `detach`, `prune`, `health`, `unload` | kernel | foreign filters, partial prune, incompatible pins. *Foreign filters are untouched, owned ones end up exactly on the wanted interfaces.* |
| Temporary approvals (`lease.uc`, `lease_store.uc`) | lease database, journal file | create, extend, revoke, inspect, expiry | reconciliation, through the effective desired state | journal against publication order, rollback, two clocks, restart. *An acknowledged revocation never comes back; an unacknowledged approval does not outlive the request.* |
| Offload revocation (`sfo_manager.uc`, `sfoctl.c`) | `baseline_required`, GC cursor, last result | baseline, targeted revocation, status, GC | conntrack and flowtable, authorization transitions | flows are offloaded again during a pass, deadlines, retries. *Success means no flow of the revoked class is left offloaded.* |
| Offload capability (`runtime.uc`) | none | decision table | nft ruleset, helper | unknown offload must not be taken for none |
| Schedules and access policy (`policy.uc`, `model.uc`) | none | compile identities, next boundary | reconciliation | windows over midnight and week end. *A verdict is right until the daemon looks again.* |
| Application policy (`app_policy.uc`) | none | compile rules and verdicts | desired state | category fallback, conflicting rules. *The nearest rule decides; an approval opens its subtree and nothing else.* |
| Classification (`classification*.uc`) | compiled profile | merge claims, validate the class graph, project DNS results | observations, snapshot | conflicting claims, cycles, a second merge in the TC program. *The class depends on the evidence alone, and is the same on both sides.* |
| Observation store (`observation_store.uc`) | bounded DNS entries, per-second budget | prepare, commit, reset, accept | DNS events, reconciliation | limits, profile change under stored entries |
| Status (`status.uc`), configuration (`config.uc`), nft chains, service scripts | none of their own | projection, reading, static rules | | |

Interactions: a reconciliation *calls* the commands one after another; `sync`
*shares maps* with packets on every CPU; DNS events and timers are uloop
*callbacks* of the single-threaded daemon, which runs each of them to completion
(requests and timers wait for the event loop, so `reconcile` is never entered
twice); procd, hotplug and package scripts are
*other processes* that meet `bpfctl` at its flock. `PROJECT.json` lists the
hazards line by line with the property that watches each.

## Modules

| Module | Models | Status |
|---|---|---|
| `AtomicPublication` | what publication promises: one step, one snapshot per packet | abstract specification |
| `SnapshotPublication` | `bpfctl sync`/`disable` and packets, table by table | checked, proved, refines the above |
| `FlowDatapath` | `ca_ingress` from the flow lookup on, one map operation or record store per step | checked, proved |
| `Reconciler` | plan, execute, commit, failure, crash, world | checked, proved |
| `ApprovalLedger` | what temporary approvals promise: each request one step, revocation final | abstract specification |
| `Approvals` | database, journal and both planes through requests, expiry, failure, death | checked, proved, refines the above |
| `SfoRevocation` | the offload half of a reconciliation, the helper, flows and traffic | checked, proved |
| `TcLifecycle` | the commands that load, attach, prune and unload, one system call at a time | checked, proved |
| `Classification` | from evidence to a class, in the daemon and in the TC program: functions | checked, proved |
| `PolicyCompilation` | schedules, application rules, approvals over them: functions | checked, proved |
| `SnapshotPublicationProofs`, `FlowDatapathProofs`, `ReconcilerProofs`, `ApprovalsProofs`, `SfoRevocationProofs`, `TcLifecycleProofs`, `ClassificationProofs`, `PolicyCompilationProofs` | the proofs about the module of that name, see [Proofs](#proofs) | proved |
| `MC*` | TLC instances of the above | |

### SnapshotPublication

`config` is `ca_config`; `table[s][t]` the content of one of the five maps of a
slot: empty, exactly the rows of one snapshot version, or a mixture. A
controller process `p` follows `ca_bpf_snapshot_sync`: `BeginSync` takes the
flock, parses, and picks the slot the record does not name; `Wake` ends the
50 ms sleep; `Clear` and `Fill` go through the maps in the code's order;
`ResetRates`, `Publish`. Every error path of the function is `FailInTable`,
`FailBeforePublish` or `Crash`; all release the lock and undo nothing.
`BeginDisable`/`Disable` are `bpfctl disable`. A packet copies the record under
its spin lock (`PacketBegin`) and then looks up maps of the slot it copied, one
at a time in an order the program allows (`MayFollow`).

*Assumption.* `Wake` requires that packets which were in flight when the sleep
began have left. That is the code's timing assumption, stated in the comment at
`src/bpf-snapshot.c:418`; nothing else enforces it, and the mutant `WakeAtOnce`
shows that the reader property depends on it.

*History variables.* `draining` (who was in flight when the sleep began) and
`read` (what lookups have met) exist to state the assumption and the
refinement.

### FlowDatapath

A CPU has a `pc` for the line it is about to execute, the snapshot its packet
copied and the record its map pointer was read from. Since a packet may rely on
one snapshot (previous module), a snapshot is one value here: enforcement,
generation, provisional verdict, pending limit, classification and policy as
functions.
`flows` is `ca_flows`, `pending` the low half of `ca_runtime`. Lookups, inserts
(`BPF_NOEXIST`), updates (`BPF_EXIST`), deletes, the compare-and-swap of the
pending count are steps of their own, and so is *every read and store of a verdict
or generation that other CPUs may store*: the comparison of the generations
(`CompareGeneration`), the two stores of a re-evaluation (`StoreVerdict`,
`StoreGeneration`) and the read of the verdict a packet leaves with
(`ReadVerdict`), on the cached path and on the shed one. A record that is deleted
or replaced while CPUs point at it stays shared by them, and by nobody else
(`left`, `Sharers`, `Write`, `Seen`). Every insert and update may also fail for
want of memory. `PublishNext` is a new snapshot, `Collect` is `bpfctl gc`
between its lookup and its delete.

Abstracted: parsing and hint merging (a function of the snapshot and flow),
rate windows (`Admit` may refuse at any time), `last_seen` (any record may be
idle).

*History variables.* `torn`, of a record: packets of two generations were between
their stores to it at once. `raced`, of a packet: a packet of another generation
stored its verdict between this packet's own accesses to the record, or had not
tagged yet what it stored, or the record was torn when it was found.
`OwnSnapshotEnforced` excepts packets that `raced` and no others: one CPU that holds
another snapshot is enough for that, also where the record is not torn. It includes
packets that are shed. `first`: the packet's own classification became the record.

### Reconciler

`desire` is everything the desired state is compiled from: access policy,
application policy, classifier profile, whether enforcement is requested, whether
its inputs are valid, whether offload needs correlation or conflicts, and the
interfaces of the source zone. `Begin` is `reconcile_once` up to the plan,
`PublishAccess` the access transaction, `Decide` to `Health` the commands and
early returns of `application_reconcile.apply` in order, `NeutralDisable`,
`NeutralPrune`, `NeutralScope` those of `neutralize`, and `Commit` is
`state_commit.apply` together with the timer. `kernel` is the control record
with the generations and contents published under it; `published` is history.
`Wakeup` is the safety timer (a ubus or hotplug request does the same),
`Observe`/`Flush` the DNS path, `Crash`/`Start`/`StartDisable`/`StartScope`
death, respawn and startup neutralization. The world reconfigures, reloads the
firewall, recreates interfaces and removes or installs the backend between any
two steps.

A command that can work succeeds, or fails at the cost of one of `MaxFaults`;
one that cannot work fails for free. `Conditions` switches on three further
behaviours, each for one of the violation runs, so that the passing run shows
what holds without them: a generation query that fails, a write to `bpfctl sync`
cut off at a row boundary, and observations that never stop.

*Assumptions and abstractions.* Each `bpfctl` command is atomic here (its
inside is `SnapshotPublication`); the access plane is one nft transaction. A
`sync` orphaned by the daemon's death finishes before procd's respawn delay of
five seconds. Approvals and the offload half of the execution have modules of
their own (`Approvals`, `SfoRevocation`), as have the system calls inside a
command (`TcLifecycle`); destination zones are left out. Only the two
signature-relevant halves of a snapshot (policy, classifier) are told apart.

### Approvals

`memory` is `lease_database`, `loaded` and `dirty` the two flags beside it,
`journal` the file, `plane[s]` what a plane enforces and the leases it exempts
targets for, `committed[s]` the exemptions of the committed state (`None` after
a start or a neutralization), `call` and `pc` the handler in progress and its
next step, `due` the timer. `Refreshed` is `refresh_lease_database`: every
handler and every reconciliation begins with it and drops the leases that ended
by *either* clock, whose target is gone, or that share an id or target.

`Create` is `create_approval` up to its reconciliation (an extension is a
creation for a target that has a lease), `Revoke` is `revoke_approval`, which
writes the journal first; `Begin`, `PublishAccess`, `PublishApplication` and
`Finish` are the reconciliation they and `Wakeup` call; `Record`, `Rollback`
and `Restore` are what follows a creation: the journal is written once the plane
of the request is published, and if either fails the previous database is
published and journaled again. `Crash` may come between any two steps, `Tick`,
`SetClock` and `Reconfigure` wherever the daemon waits or a command takes time
before the clock is read.

The base verdict of every target is DENY. A publication succeeds, leaves the
plane as it was or turns the application plane off; how it does so is the
subject of `Reconciler`, and what the verdicts below the approvals are that of
`PolicyCompilation`. An extension leaves the exempted targets as they are, so the code
publishes nothing; that the plane is thereafter due to the new lease is history,
like `lapsed` and `revoked`. `lapsed` includes a lease replaced by an extension
that itself lapsed before its reconciliation: the code drops both, and answers
ok with a null approval.

*Assumptions and abstractions.* `MaxRequests <= MaxSequence`: the 2^32 sequence
numbers do not come round within the life of a lease. No second passes between
the clock reading of a reconciliation and the setting of its timer. A corrupt or
unreadable journal, leases on categories, and a reboot (which starts the
monotonic clock again) are left out.

### SfoRevocation

An offloaded flow bypasses both planes, so publishing a DENY is not enough. A
flow has a conntrack state `ct` (none, open, offloaded by software or hardware)
and the class `recorded` for it in `ca_flows`, by which targeted revocation finds
it. `Begin` to `Finish` are one reconciliation: transitions are planned from
`authorization` (`Restrictions` is `plan_transitions`), the planes published,
the backend managed (`Manage`, `Baselined`, `Checked`, `Collected` are
`sfo_manager.reconcile` with its calls), transitions revoked (`BroadlyRevoked`,
`Revoke`, `Revoked`, `FellBack` are `revoke_transitions`), and `Finish` advances
the authorization and projects convergence. `helper` is the running
`client-access-sfoctl`: each dump of a table is a step (`Collect`, `RevokePass`,
`BaselinePass`, `FindAbsent`, `Status`), each round of deletions another
(`Delete`, `Reclaim`), and it may fail, miss its deadline or delete only a part
(`HelperFails`). `ClientPacket`, `ServerPacket` and `Timeout` come between any
two of these steps: a flow can be offloaded again between a deletion pass and
its verification. `Configure`, `Reload` (fw4 replaces its ruleset, sets and
flowtable are gone), `Crash` and `Start` are the rest of the world. `Capability`
is the table `offload_capability`.

`stale` is history: the offloaded flows that a publication began to deny while
they were offloaded and that the daemon is then to evict, as long as they stay
offloaded and denied. That is less than what `README.md` lines 89-93 ("Restrictive
changes publish policy first and then remove and verify matching accelerated flows
within a configured deadline") and 151-153 promise. Identities come and go in the
model, publications fail, the first one after a start included, and what the code
plans nothing for is left out of `stale` by name (`NewlyClosed` for access,
`NewlyBarred` for application filtering). Before anything is committed, or while
application filtering is believed off, every flow counts: a baseline is due. Else

* the key that denies the flow must be the one that allowed it:
  `plan_transitions` compares keys (`lease.uc:422-427`), so a flow that is denied
  because its identity was added or removed stays offloaded;
* access must have been committed since the start: if the first access publication
  after a start fails, the authorization has no access entries and the next
  success plans nothing;
* a flow of a known identity must have a record, for application filtering one of
  its class, by which targeted revocation finds it.

Without any one of these provisos TLC finds `StaleEvicted` violated in the run
`offload`: each stands for flows that the code leaves offloaded under CONVERGED.
`BroadUnpublished` allows one behaviour more, a planned restriction of everyone
else that is not published; it is off in the run `offload` and on in
`offload_broad`, which reports what comes of it.

*Assumptions and abstractions.* A dump of conntrack or of the flow map is
atomic; the map dump of the helper, which starts again when a key disappears
under it, is taken as one consistent read. The publication of a plane is one
step (`Reconciler` has its parts). A helper orphaned by the daemon's death may only go
on to delete more, which helps. A packet of the server passes neither
plane, so an established flow that was denied and evicted may be offloaded
again from that side if its entry survives; `stale` is about what was
offloaded since before a publication, and says nothing of such flows.

### TcLifecycle

The inside of the commands that `Reconciler` takes as atomic. `filters` has the
program at our coordinate (and the one that earlier versions used) of each
interface, `program` the id of the pinned program, `maps` and `enabled` the
pinned maps. `Lock` starts a command, which then goes step by step through the
system calls of `bpf-tc.c`, `bpf-object.c` and `bpf-health.c`: `AttachCheck`,
`AttachQuery`, `AttachTake`, `AttachAgain`; `Detach`; `PruneCheck`, `Sweep`,
`Swept`; `LoadCheck` to `PinProgram`; `UnloadDisable`; `Disable`, `Sync`;
`HealthCheck` to `Verified`. Each may `Fail`, and the process may be killed
(`Kill`) between any two. `Appear`, `Vanish` and `Others` are interfaces that come and
go and programs of others that take or leave a coordinate; they do not take the
lock. The model begins at a boot or at an upgrade, with a filter and maps of the
version before the schema.

*Assumptions and abstractions.* Another program takes only a free coordinate and
removes only its own filter. Looking at an owned filter and detaching it is one
step. An interface that goes and comes back within one command is taken for the
same. Unlinking a pin does not fail (its result is not looked at in the code).
`disturbed` is history: others interfered since the command began.

### Classification

Functions without state. `ClassGraphs` is what `compile_profiles` accepts;
`DirectHint` and `PortHint` are `hint_for_class`; `MergeClaim` is one round of
the loop of `merge_claims` (which the code has twice, in `classification_ir.uc`
and `classification_observation.uc`), `MergeObservations` the merge of merges in
`resolve`; `MergeHint` and `Classify` are `ca_merge_hint` and `ca_classify` of
the TC program. The result is what `FlowDatapath` takes as the class of a flow.
The run of `Approvals` evaluates the properties, over the class trees the
configuration may have. Where categories are nested the program
knows less than the daemon: a port's category above the nearest one of an
address' class is a conflict to it, so the flow is left unclassified.
`DatapathAgrees` says that this is the only difference.

### PolicyCompilation

Functions without state again, evaluated by the run of `Approvals`, which takes
the verdicts below the approvals as DENY: `ParseWindow` to `NextBoundary` and
`CompileIdentity` are the schedules of `policy.uc`; `ResolveVerdict` walks up
the class tree as `resolve_verdict` of `app_policy.uc`; `OverlayApplication` and
`PlanRestrictive` are the overlay of approvals and the transitions of
`lease.uc`, the ones that `SfoRevocation` revokes. The answers for an invalid
clock, schedule or activation (always DENY) are left out, and so is a daylight
saving change between the computation of a boundary and the boundary: the safety
timer, at most 300 s, is what covers it.

## Runs

| Run | Question | Result |
|---|---|---|
| `publication` | Does a packet ever see less or more than one snapshot? | holds |
| `flow_cache` | Are reservations conserved and bounded, pending flows owned, cached verdicts true to their generation? Does every packet, shed ones included, leave with a verdict of its own snapshot? | holds |
| `flow_unclassified` | Is the cached verdict of an unclassified flow used? | **violated** |
| `flow_torn_tag` | Does a classified flow obey a new generation from its next packet on? | **violated** |
| `reconciler` | Do generations name policies, does one fault leave filtering in force unnoticed, is `health` enough, do both planes converge? | holds |
| `reconciler_unreadable` | Is a consumed generation never reused after a restart? | **violated** |
| `reconciler_endless` | Does the safety wakeup repair lost sets? | **violated** |
| `reconciler_cut_short` | Does a healthy check mean the committed snapshot is the published one? | **violated** |
| `approvals` | Is the journal a ledger of grants, is revocation final, does nothing overstay? Do compiled verdicts stand until the next boundary, do rules and approvals reach exactly their classes, is a class independent of the order of evidence and the same in the program? | holds |
| `offload` | Does CONVERGED mean that no flow the daemon was to evict stayed offloaded, is the authorization what the planes decide by, is every such flow evicted at last? | holds, with the provisos of [SfoRevocation](#sforevocation) |
| `offload_broad` | Does the first hold when access fails to publish a restriction of everyone else? | **violated** |
| `tc_lifecycle` | Can every owned filter be found and switched off after any failure, does success mean what it says, are others' filters left alone? | holds |

What the violations show:

* **Unclassified flows** (`client-access-bpf.c:727`). A terminal unclassified
  record has `class_kind` NONE, so each later packet deletes it, is admitted
  again and leaves with the provisional verdict. The stored verdict, which the
  datapath test calls cached, is used only when load is shed.
* **Torn re-evaluation** (`client-access-bpf.c:717-721`). CPU A copied
  generation 3, CPU B generation 4. B stores its verdict, A stores its own over
  it and tags 3, B tags 4. Generation 4 now carries A's verdict, and no packet
  of generation 4 looks again.
* **Generations after a restart** (`reconcile.uc:30-37`). The floor observed in
  the control record is all that keeps a restarted daemon from starting at 1;
  if the query fails once, the floor is 0 while the flow map persists.
* **Safety wakeup** (`client-accessd:182, 290`). Every reconciliation sets the
  timer anew, observation-driven ones included, and those do not repair.
* **Short write** (`bpf_runtime.uc:50`, `bpf-snapshot.c:224`). The snapshot
  format has no end marker; what `bpfctl` got before the pipe closed is
  published. In a repair, generations do not change and `health` passes.

* **Broad revocation** (`executor.uc:121-129`). Application enforcement starts
  (flows offloaded until now have no class recorded) in the same reconciliation
  that restricts the access default. The planned default counts as a broad
  revocation, so no baseline is required for the new enforcement; the access
  transaction fails, so none runs for the default either; targeted revocation
  finds no record. The denied flow stays offloaded under CONVERGED.

### Bounds, and why they are enough

* `publication`: two controllers (overlap needs two), two CPUs (one old, one new
  reader), three sync attempts: both slots are reused once, so a third sync
  rewrites the slot a reader of the first may still hold.
* `flow_cache`: two CPUs and two flows, so that both flows can be pending at once
  while a reservation has been returned early; four snapshots, the first
  correlation-only, then policies that differ, return, and a classifier that
  learns the second flow. The pending limit is one, then two, then one again, so
  reservations are refused, and the count may exceed the newest limit. The map
  holds both flows, but any insert may be refused: a full map refuses no more, so
  a smaller capacity only has fewer behaviours. The violation runs have a map of
  one.
* `reconciler`: two interfaces (one joins, one stays), seven desired states that
  differ in one respect each, so every early return is taken; one failing
  command; two changes around the daemon, its deaths included, which is what
  crash-then-reconfigure or remove-then-install needs; one observation flush.
  The violation runs use one interface and two policies.
* `approvals`: two targets, one for each plane; two accepted creations, so an
  approval is extended, or both planes have one; a safety interval (1) shorter
  than an hour (2), which spans a day's end (3), so that the timer always waits one
  second here (a longer interval takes more seconds to be overslept than the run
  can afford; the theorem `NothingOverstays` has every interval); a clock set once, to an invalid
  time, back or forward; one failing command or write; one death or
  configuration change. The capacity of two refuses nothing in this instance.
  Schedules: a week of three days of three minutes, any two windows: each lies
  within a day, wraps over midnight, over the week's end, or is a whole day, and
  two overlap, touch or are apart; longer days add no case, since only the order
  of boundaries counts. The clock passes through all nine minutes. Rules,
  approvals, evidence: all trees of two categories and two applications (nested
  categories, siblings, classes without a parent), any rules, any two approvals,
  up to three claims in any order and grouping: merging is a fold over pairs,
  and three classes are a chain or a conflict in every way. The properties of
  these functions are sets of minutes or class trees for which one goes wrong
  (`Misjudged`, `Misruled`, `Misrevoked`, `Misnamed`, `Misread`), which TLC
  computes once; no state may meet one.
* `offload`: two flows, one of a known identity; five policies that restrict
  each scope (access and application, one identity and everyone else), turn
  enforcement on and off, and know the identity or do not; rulesets that offload, do not, or do so in hardware; a
  limit of one candidate, so that a baseline of both flows is refused, and two
  passes of verification, so a flow offloaded after the second is a failure; two
  events, which is what a failure then a retry, or a change then a death, need.
  The flow map of three never overflows here: `exhausted` is modelled, and its
  escape in `EventuallyEvicted` is not taken.
* `offload_broad`: the same with two policies that differ in the default and in
  enforcement at once.
* `tc_lifecycle`: two interfaces, so that one is kept while the other is pruned;
  three program ids, so an object is loaded, replaced and loaded again; two
  failures or kills and two interferences, which is what a failed attempt that
  is resumed and fails again needs.

Symmetry is used for CPUs, controllers and interfaces in runs without liveness
properties.
Deadlock is checked in every run.

### Fairness

`Reconciler` assumes three weak fairness conditions. `WF(Step)`: the daemon's
next command is executed (commands return; those that hang are out of scope) and
procd respawns a dead daemon (`root/etc/init.d/client-access:13`).
`WF(Wakeup)`: an armed uloop timer fires unless it is set again; it is *not*
strongly fair because each reconciliation sets it again, and the violated run
`reconciler_endless` is exactly that difference. `WF(Flush)`: likewise for the
flush timer. Nothing is assumed of the world, failures or crashes except the
bounds, after which the system is observed at rest; `Converges` says what holds
from then on.

`SfoRevocation` likewise: `WF(Reconciliation)`, the timer is armed after every
attempt and each command returns; `WF(Helper)`, a running process goes on (the
daemon kills it at its deadline, which is `HelperFails`); `WF(Start)`, procd
starts a daemon that died. Nothing is asked of the traffic: clients may use an
offloaded flow for ever, and it must still be evicted.

The other modules have no liveness property: a packet program
runs to completion by the BPF verifier's guarantee, and a controller may die at
any step.

## Proofs

Each component has a module of proofs. What TLC shows for the constants of a
run, these theorems show for every value of the constants: any number of CPUs,
flows, interfaces, targets, policies, attempts, failures and deaths, any class
tree and any schedule. The assumptions on the constants are named in the module
that declares them, and TLC evaluates them in each run.

| Module | Theorem | Property |
|---|---|---|
| `SnapshotPublicationProofs` | `TypeCorrect` | `[]TypeOK` |
| | `ActiveSlotComplete` | `[]ActiveComplete` |
| | `ReadersUndisturbed` | `ReaderSlotFrozen`, an action property |
| | `Refinement` | `AtomicallyPublished`: implements `AtomicPublication` |
| `FlowDatapathProofs` | `TypeCorrect` | `[]TypeOK` |
| | `ReservationsConserved` | `[]PendingConserved` |
| | `PendingOwned` | `[]PendingHasOwner` |
| | `PendingLimited` | `[]PendingBounded` |
| | `CachedVerdictsTrue` | `[]CachedVerdictTruthful` |
| | `OwnSnapshotObeyed` | `[]OwnSnapshotEnforced` |
| | `UncontendedObeysPolicy` | `[]NextPacketObeysPolicy`, with one CPU or one policy generation |
| `ReconcilerProofs` | `TypeCorrect` | `[]TypeOK` |
| | `OneFaultIsNeutral` | `[]SingleFaultNeutral` |
| | `HealthSuffices` | `HealthIsEnough`, an action property, unless a write may be cut short |
| | `GenerationsName` | `[]GenerationNamesPolicy`, unless a write may be cut short or generations be unreadable |
| `ApprovalsProofs` | `TypeCorrect` | `[]TypeOK` |
| | `NothingRevokedReturns` | `[]RevokedForGood` |
| | `NothingOverstays` | `[]NoOverstay` |
| | `JournalIsLedger` | `LedgerKept`: implements `ApprovalLedger` |
| | `RecordedInForce` | `JournaledInForce`, an action property |
| | `FailedCreatesUndone` | `FailedCreateUndone`, an action property |
| `SfoRevocationProofs` | `TypeCorrect` | `[]TypeOK` |
| | `AuthorizationsTrue` | `[]AuthorizationTruthful` |
| | `RevocationsDone` | `[]StaleEvicted`, unless a broad restriction goes unpublished |
| `TcLifecycleProofs` | `TypeCorrect` | `[]TypeOK` |
| | `AlwaysControllable` | `[]Controllable` |
| | `ReportsTrue` | `[]SuccessTruthful` |
| | `ForeignKept` | `ForeignUntouched`, an action property |
| `ClassificationProofs` | `ObservationsMerged` | the class named by any observations, whatever their order |
| | `MergesAgree` | the two merges of an address' claim and a port's |
| `PolicyCompilationProofs` | `IdentityStands` | the compiled verdict of any set of windows |
| | `VerdictsStand` | `[]VerdictStands` |
| | `RulesResolved` | `[]NearestRuleDecides` |
| | `ApprovalEndsRevoked` | `[]ApprovalEndRevokes` |
| | `EvidenceMerged` | `[]MergedByEvidence` |
| | `MergesInAgreement` | `[]DatapathAgrees` |

The theorems about components with state have one shape. An inductive invariant
`IInv` (or, where theorems need different hypotheses, several) strengthens the
properties; lemmas show that the initial states satisfy it and that each action
keeps each of its parts; the theorem follows by temporal induction. Before it
was proved, each `IInv` was checked by TLC as an invariant of the module's run.
Those about functions (the last two modules) prove that the sets of inputs for
which a function goes wrong are empty; a state property that none of these is
met then holds in every state.

### Publication

Assumed: the two named assumptions of the module (`NoProc` is no process,
`MaxVersion` is a natural number) and the grace period built into `Wake`.

`ActiveComplete` is not inductive: nothing in it says that the controller which
writes tables writes the *other* slot, that it alone does, or that what it
publishes has been filled. `IInv` adds these:

* whoever is not idle holds the lock, so at most one controller is at work;
* the job of a working controller is the slot the record does not name and a
  version newer than the record's;
* tables before the one being filled hold the job's version, and those from it
  on are empty: clearing reached them first;
* a packet in flight reads the active slot, or the other one only while it is
  still being waited for (`draining`): past the sleep there is no such packet;
* a packet's copied version is the content of every table of its slot.

The refinement follows from `IInv`: a lookup reads the version the packet
copied, `Publish` maps to the abstract `Publish` because versions only grow,
every table write stutters.

### Flow cache

Assumed: finitely many CPUs (the reservations are counted), and
`GenerationAssumption`: two snapshots of one generation have one policy and both
enforce it or neither does (`desired.uc:64` makes it part of what the generation
stands for). That is what the daemon must provide, the property
`GenerationNamesPolicy` proved of `Reconciler`; the datapath cannot check it.

`PendingConserved` and `PendingHasOwner` are inductive once types are known.
The first is a count over a finite set: a step of one CPU changes the set of
those that hold a reservation by that CPU at most. From the two follows how many
records can be PENDING (`PendingCounted`): each has an owner, a CPU owns one flow
at a time, and an owner holds a reservation or is about to delete. So the limit
that `max_pending_entries` names bounds reservations, and records only up to
the CPUs in that gap; and since a packet reserves by the limit of the snapshot
it copied (`WithinLimit`), a lowered limit holds when the older packets are
through.

The verdict properties are not inductive, since a re-evaluation compares, stores
twice and reads in separate steps. `IInv` adds what holds in between:

* a record that is not torn either carries the verdict of its tag, or there is a
  CPU between its stores, and *each* such CPU is about to tag it with a generation
  whose verdict it carries. This is said of the records in the map (`FlowsSettled`)
  and of those that left it and that CPUs still hold (`HeldSettled`);
* what a CPU sees through its pointer: the record in the map while it is there
  (`Mirrored`), else the same as everyone who pointed at it when it left (`Shared`,
  `LeftTogether`);
* no packet holds a snapshot of the future (`SnapPublished`), a record that is not
  classified has no class (`FlowsProper`), and each line of the program is reached
  with what its guards left (`LinesKept`);
* a packet that did not race and is about to read finds a verdict of its own
  snapshot (`VerdictInHand`).

`OwnSnapshotObeyed` follows from the last. Its proviso `raced` is about one packet,
`torn` about a record for as long as it exists; neither implies the other.

The proviso `torn` of `CachedVerdictsTrue` is what `flow_torn_tag` is about. `UncontendedObeysPolicy` says where
it needs no mention: with one CPU, or while the published snapshots keep the
policy generation, no record is ever `torn` (`UntornKept`), and the comment of
the forward chain, which that run refutes, is true.

### Reconciliation

Assumed: the named assumptions on desired states, `SignatureAssumption` among
them (the policy of a signature is never `None`).

* `OneFaultIsNeutral` needs `Layered`. Of the layers of a neutralization,
  the control record and the scope sets each suffice; one failed command leaves
  the other, and what an attempt does before it publishes starts from a committed
  state that was already neutral or is applied.
* `HealthSuffices` needs `Faithful`: the control record is never ahead of an
  applied application's generations, and where level with them, it is that
  application's snapshot. A write cut short breaks this in a repair, where the
  generations do not change, and the run `reconciler_cut_short` exhibits it:
  hence the hypothesis that `WRITE_CUT_SHORT` is not in `Conditions`.
* `GenerationsName` needs in addition `Naming`: every generation published so
  far is at most that of the control record, and a planned one is at least that.
  So a new policy gets a generation that no snapshot had. The floor is read from
  the control record after a restart; when it cannot be read the theorem fails,
  as the run `reconciler_unreadable` shows: hence the second hypothesis.

### Approvals

Assumed: `TimingAssumption` (positive durations), `SequenceAssumption`
(`MaxRequests <= MaxSequence`, ids do not come round) and the bounds.

`IInv` has, besides types and where each handler may be, these parts.
`Publishing`: a plane counts as published only once it enforces the database in
memory. `Sequenced`: every lease in force, journaled or revoked has a sequence
number below the next one of any database a creation may start from. The journal's
own `next` is one of them, because a daemon that dies goes on from it. From this
`Nowhere`, that nothing revoked is anywhere and that a lease being created is new,
is inductive. `Tracked`: memory is the journal less what lapsed, except that
a creation replaced the lease of its target and can be undone. `Timely`: without
failures, the timer is due before what a plane enforces has overstayed.

The refinement maps the ledger's grants to the journal's leases. Only the writes of
the journal move it: `Record` is the grant and `Revoke`'s write the revocation;
any other write drops at most leases that have lapsed, which the ledger may
forget. All else stutters, or lets leases lapse.

### Offload revocation

Assumed: the shapes of policies, flows and topologies, and that `None` is none of
the values it stands beside (`NoneAssumption`, `AbsentAssumption`).

`AuthorizationsTrue` needs that what an attempt has published but not yet
committed is what it is going to commit. It says of each plane that every key of
the policy the plane decides by is committed with its verdict (`Agrees`); keys that
the policy no longer has may remain in the authorization, so it holds also when
identities come and go, and has no further hypothesis.

`RevocationsDone` follows from `Debt`. `StaleEvicted` speaks of the moment at
which the daemon is idle and reports convergence; to get there the invariant
accounts for each stale flow at every step of the way:

* when a plane publishes a restriction, every flow that becomes stale is
  `Covered` by a planned transition that was published: a broad one, or one of
  a key under which targeted revocation finds the flow's record. What
  is not covered is what `NewlyClosed` and `NewlyBarred` leave out;
* until `sfo_manager` has run, a stale flow from earlier attempts is owed to the
  pending baseline (`baseline_required`) or covered;
* a baseline or fallback that answers COMPLETE leaves no offloaded flow that was
  offloaded before, since its last pass saw none; a broad revocation likewise;
* a targeted revocation that answers COMPLETE has collected every flow its key
  finds, and its last pass saw none of them offloaded; the collector of idle
  records spares offloaded flows, so no record is lost on the way (`Pending`);
* so an idle daemon whose mode is `SFO_ACTIVE` has `stale = {}`. The other two
  modes that count as converged, `NO_OFFLOAD` and `SFO_AVAILABLE`, are those of
  rulesets under which nothing is offloaded.

The hypothesis is `~BroadUnpublished`: without it TLC finds the property violated
(`offload_broad`). It enters in `Planned`, by which a planned restriction of
everyone else is published. `Planned` also says that the transitions are those between the
authorization and the new policy; since the authorization agrees with the planes
(the invariant behind `AuthorizationsTrue`), a flow whose key was committed as
allowed and is published as denied is among them.

### BPF object and TC

Assumed: `MaxPrograms > 0`, and program ids are neither `None` nor `Foreign`.

`Controllable` needs the order in which pins come and go: a program's maps are
pinned while it is (`Configured`), and pins are unlinked only after every place
was found free of owned filters (`Unlinking`), which a sweep establishes place
by place, also against interfaces that appear behind it (`Sweeping`). What the
steps of an inspection have established so far is `Inspecting`; `ReportsTrue`
takes it to the report, and keeps the report true while others interfere.

### Classification

Assumed: the configured classes are finitely many, of two kinds, and none of
them is `NoClass` (`ClassGraphAssumption`).

The walk up the tree and the fold over claims are recursive functions. Neither
prover unfolds one, so the module first proves, by least counterexample, that
recursion over the natural numbers has a solution (`Recursion`), and with it the
equations of each: `WalkStep` for the walk, `MergedStep` for the fold (by
stages: what is selected from sets of hints up to the first, the second, and so
on).

From `WalkStep` follows what is above what. The walk of `Upward` ends after as
many steps as there are classes, and `UpwardComplete` says that this misses
nothing: a walk that had not passed a class by then would have met two of them at
one place (the pigeonhole principle), and could be cut short. With it, being above
is transitive, in a class tree one-way, and the classes above a class are in a
line (`UpwardTransitive`, `UpwardOneWay`, `UpwardLine`).

The claim of a class generalises that of another exactly if it is above it
(`GeneralisesAbove`). So merging the classes named by two sets gives the class
named by both together, or a conflict if they have none (`MergeNamed`): a set
whose classes are all above one class has a deepest member (`DeepestExists`), and
it is the only one (`DeepestUnique`). `ObservationsMerged` is this along a fold,
twice. For the program, `MergesAgree` compares the two merges case by case: where
no category is in another, nothing is above a class but its parent
(`UpwardParent`), which is what a hint carries.

### Schedules, rules and the end of approvals

Assumed: days have minutes and weeks have days (`WeekAssumption`), and the
default class is not one of the configured (`DefaultAssumption`).

* Schedules: each window is compiled, day by day, to intervals that contain the
  minutes it covers, over midnight and the week's end (`DayCompiled`,
  `CoversByDay`, `WindowsCompiled`). `UntilBoundary` computes the minutes to a
  boundary, in this week or the next, and `StateStands` shows that no interval is
  entered or left before the least of them. The theorem is about any number of
  windows, the run about two.
* Rules: the walk of `resolve_verdict` is the way up until it meets a class with a
  rule, and stays there (`CurrentWalk`). The class that decides has
  every other one with a rule above it, so it is the first on the way
  (`MatchedDecides`).
* Approvals: a lease reaches exactly the classes that its class is above
  (`LeaseReaches`); what is planned at its end follows class by class.

## What is only model-checked

* Liveness (`Converges`, `EventuallyEvicted`): fairness and `ENABLED` are out of
  the prover's reach.
* The properties of the violation runs, which do not hold.

## What is not modelled

* The observation store (`observation_store.uc`): a map of at most 256 entries
  and a budget of 128 events a second, changed by one thread only.
* UCI reading (`config.uc`), validation of profiles, rules and identities,
  projection of bindings onto addresses (`model.uc`), domain matching and the
  size limits of the projection: conditions on one input each.
* Packet parsing, map layouts and longest-prefix match; the numbers of the rate
  windows; the answer texts of status; LuCI, packaging and the tests.
* Memory reuse of a deleted BPF map element before its readers leave: a deleted
  record stays what its holders left it, and is nobody else's.
* `stop_service` of the init script: it disables the datapath while the daemon
  still runs, and which of the two is last depends on procd.
* In `SfoRevocation`: flows that a key denies which did not allow them before (see
  the module's section) are in the model and are left offloaded, but not counted as
  `stale`, so no run reports them; flows whose record is `unclassified`, which a targeted
  revocation of a class does not look for, are not counted as `stale`; an idle
  record that returns between the collector's scan and its deletion is
  deleted with its class; `flow_map_full` stays set until the object is
  reloaded, and from then on the backend is degraded.

## Plan

Done: the models of the components above, and the theorems of
[Proofs](#proofs). Every safety property that a run checks and finds to hold is
proved. Next: the observation store with its flush timer, and `stop_service`
against a reconciliation in progress.
