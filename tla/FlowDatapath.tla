----------------------------- MODULE FlowDatapath -----------------------------
(***************************************************************************)
(* ca_ingress from the flow lookup on: several CPUs classify, cache and    *)
(* re-evaluate flows in one shared hash map while new snapshots are        *)
(* published and userspace collects idle records.                          *)
(*                                                                         *)
(* A packet copies the control record of one snapshot and uses only that   *)
(* snapshot (SnapshotPublication proves it may), so a snapshot is one      *)
(* value here.  Every map operation is a step of its own, and so is every  *)
(* read and store of a verdict or generation that other CPUs may store:    *)
(* the comparison of the generations, the two stores of a re-evaluation    *)
(* and the read of the verdict the packet leaves with.  Each program step  *)
(* of a CPU names the source line it is about to execute by cpu[c].pc.     *)
(*                                                                         *)
(* Admission rates are abstracted to a choice: whether a packet still gets *)
(* a token depends on traffic outside the model.  last_seen is abstracted  *)
(* the same way: a record may be idle long enough to be collected at any   *)
(* time.                                                                   *)
(***************************************************************************)
EXTENDS Integers, FiniteSets, Sequences

CONSTANTS
  CPUs,          \* CPUs that run the classifier program
  Flows,         \* flow keys: the canonical tuple with its subject
  Classes,       \* application classes and categories
  Unclassified,  \* CA_CLASS_UNCLASSIFIED
  Capacity,      \* CA_MAX_FLOWS
  Snapshots      \* the snapshots that are published, in this order

Verdicts == {"ALLOW", "DENY"}
Versions == 1..Len(Snapshots)

\* A snapshot: whether it enforces application policy, its policy generation,
\* the verdict of a flow still being classified, how many flows may be so at a
\* time (max_pending_entries), the class its tables give a flow (Unclassified
\* when no hint matches or hints conflict), and the policy of the flow's subject
\* for a class.
Snapshot ==
  [enforcing   : BOOLEAN,
   generation  : Nat,
   provisional : Verdicts,
   limit       : Nat,
   class       : [Flows -> Classes \cup {Unclassified}],
   policy      : [Flows -> [Classes \cup {Unclassified} -> Verdicts]]]

ASSUME CPUAssumption      == IsFiniteSet(CPUs)
ASSUME ClassAssumption    == Unclassified \notin Classes
ASSUME BoundsAssumption   == Capacity \in Nat
ASSUME SnapshotAssumption == Snapshots \in Seq(Snapshot) /\ Snapshots # <<>>

\* The daemon gives no generation to two policies (Reconciler's
\* GenerationNamesPolicy); whether the policy is enforced is part of what the
\* generation stands for (desired.uc:64).
ASSUME GenerationAssumption ==
  \A v, w \in Versions : Snapshots[v].generation = Snapshots[w].generation =>
                           /\ Snapshots[v].policy = Snapshots[w].policy
                           /\ Snapshots[v].enforcing = Snapshots[w].enforcing

VARIABLES
  version,    \* the published snapshot
  flows,      \* flows[f]: the record of flow f in ca_flows, or Absent
  pending,    \* the low half of ca_runtime: classifications in progress
  cpu,        \* cpu[c]: the packet CPU c processes or processed last
  left        \* left[c]: the CPUs that pointed at the record c points at when
              \* it left the map; none while it is there or c points at none

vars == <<version, flows, pending, cpu, left>>

\* kind # NONE exactly in the CLASSIFIED state, so the record keeps no kind.
\* `torn` is history, not code: two packets that hold different generations
\* re-evaluated the record at the same time.
Absent == [state |-> "ABSENT", class |-> Unclassified, verdict |-> "ALLOW",
           generation |-> 0, torn |-> FALSE]

Record ==
  [state      : {"ABSENT", "PENDING", "CLASSIFIED", "UNCLASSIFIED_FINAL"},
   class      : Classes \cup {Unclassified},
   verdict    : Verdicts,
   generation : Nat,
   torn       : BOOLEAN]

PCs == {"idle", "lookup", "correlate", "delete", "admit", "reserve", "insert",
        "terminal", "undo", "release", "shed", "existing",
        "compare", "verdict", "tag", "read"}

\* Where a CPU holds a pointer to a record it is going to access again.
Using == {"compare", "verdict", "tag", "read"}

\* A CPU: where it is, its packet's flow and snapshot, the record it found (as
\* it is now, while the CPU points at it) and the verdict it put in the packet's
\* mark.  Two fields are history: `first`, the packet's own classification
\* became the flow's record; `raced`, what the packet reads may be the verdict
\* of a packet of another generation, because it found the record torn or
\* between that packet's two stores, or because that packet stored its verdict
\* after this one had compared the generations or stored its own.
CPUState ==
  [pc : PCs, flow : Flows, snap : Versions, rec : Record,
   out : Verdicts \cup {"none"}, first : BOOLEAN, raced : BOOLEAN]

TypeOK ==
  /\ version  \in Versions
  /\ flows    \in [Flows -> Record]
  /\ pending  \in Nat
  /\ cpu      \in [CPUs -> CPUState]
  /\ left     \in [CPUs -> SUBSET CPUs]

Init ==
  /\ version  = 1
  /\ flows    = [f \in Flows |-> Absent]
  /\ pending  = 0
  /\ cpu \in [CPUs -> [pc : {"idle"}, flow : Flows, snap : {1},
                       rec : {Absent}, out : {"none"},
                       first : {FALSE}, raced : {FALSE}]]
  /\ left     = [c \in CPUs |-> {}]

--------------------------------------------------------------------------------
Snap(c)    == Snapshots[cpu[c].snap]
Key(c)     == cpu[c].flow
Found(c)   == flows[Key(c)]
Here(c, l) == cpu[c].pc = l
Goto(c, l) == cpu' = [cpu EXCEPT ![c].pc = l]

\* The packet leaves with a verdict in its mark, or untouched.
Emit(c, v) == cpu' = [cpu EXCEPT ![c].pc = "idle", ![c].out = v]
Pass(c) == Goto(c, "idle")

\* The packet leaves with the provisional verdict, its flow being PENDING.
EmitPending(c) ==
  cpu' = [cpu EXCEPT ![c].pc = "idle", ![c].rec = Found(c),
                     ![c].out = Snap(c).provisional]

\* A pointer returned by a lookup keeps pointing to its record, also once the
\* key is deleted or its record replaced: then the CPUs that point at it share
\* a record that no lookup finds any more.
Point(c, l) == cpu' = [cpu EXCEPT ![c].pc = l, ![c].rec = Found(c)]
Attached(c) == cpu[c].pc \in Using /\ left[c] = {}
Detach(f) ==
  LET holders == {c \in CPUs : Attached(c) /\ Key(c) = f}
  IN  left' = [c \in CPUs |-> IF c \in holders THEN holders ELSE left[c]]
Sharers(c) ==
  {d \in CPUs : cpu[d].pc \in Using /\ Key(d) = Key(c) /\ left[d] = left[c]}

PolicyVerdict(c, class) == Snap(c).policy[Key(c)][class]

NewRecord(c, state, class, verdict) ==
  [state |-> state, class |-> class, verdict |-> verdict,
   generation |-> Snap(c).generation, torn |-> FALSE]

Room == Cardinality({f \in Flows : flows[f] # Absent}) < Capacity
Put(c, r) == flows' = [flows EXCEPT ![Key(c)] = r]

\* Another packet that holds a different generation is at one of `labels` of
\* the re-evaluation of the same record.
Contended(c, labels) ==
  \E d \in Sharers(c) \ {c} :
    cpu[d].pc \in labels /\ Snap(d).generation # Snap(c).generation

\* A store of c makes r of the record it points at, for the map (while the record
\* is there) and for every CPU that points at it.  The CPUs in `spoilt` may read
\* the verdict it stored for their own.
Torn(c, r) == [r EXCEPT !.torn = @ \/ Contended(c, {"verdict", "tag"})]
Write(c, r) == IF left[c] = {} THEN Put(c, r) ELSE UNCHANGED flows
Seen(c, r, spoilt) ==
  [d \in CPUs |-> IF d \in Sharers(c)
                    THEN [cpu[d] EXCEPT !.rec = r, !.raced = @ \/ d \in spoilt]
                    ELSE cpu[d]]

--------------------------------------------------------------------------------
(* The packet path.                                                        *)

\* The control record is copied and the packet parsed.  (A packet of an
\* unknown subject or without a parsable flow leaves here with a verdict of
\* the copied snapshot and touches no shared state.)
Arrive(c, f) ==
  /\ Here(c, "idle")
  /\ cpu' = [cpu EXCEPT ![c] = [pc |-> "lookup", flow |-> f, snap |-> version,
                                rec |-> Absent, out |-> "none",
                                first |-> FALSE, raced |-> FALSE]]
  /\ UNCHANGED <<version, flows, pending, left>>

\* The flow is in the map: without enforcement the packet passes; a pending
\* flow gets the provisional verdict, a classified one is used; any other
\* terminal record is deleted and the flow classified again.
LookupCached(c) ==
  /\ Here(c, "lookup")
  /\ Found(c) # Absent
  /\ \/ ~Snap(c).enforcing /\ Pass(c)
     \/ /\ Snap(c).enforcing
        /\ \/ Found(c).state = "PENDING" /\ EmitPending(c)
           \/ Found(c).state = "CLASSIFIED" /\ Point(c, "compare")
           \/ Found(c).state = "UNCLASSIFIED_FINAL" /\ Point(c, "delete")
  /\ UNCHANGED <<version, flows, pending, left>>

LookupMissing(c) ==
  /\ Here(c, "lookup")
  /\ Found(c) = Absent
  /\ Goto(c, IF Snap(c).enforcing THEN "admit" ELSE "correlate")
  /\ UNCHANGED <<version, flows, pending, left>>

\* Reusing a verdict of any generation.
CompareNothing(c) ==
  /\ Here(c, "compare")
  /\ Goto(c, "read")
  /\ UNCHANGED <<version, flows, pending, left>>

\* flow->app_policy_generation != config->app_policy_generation: the verdict is
\* to be read as it is, or re-evaluated first.
CompareGeneration(c) ==
  /\ Here(c, "compare")
  /\ cpu' = [cpu EXCEPT
       ![c].pc = IF cpu[c].rec.generation = Snap(c).generation THEN "read" ELSE "verdict",
       ![c].raced = cpu[c].rec.torn \/ Contended(c, {"tag"})]
  /\ UNCHANGED <<version, flows, pending, left>>

\* A re-evaluation that tags the record without renewing its verdict.
StoreNoVerdict(c) ==
  /\ Here(c, "verdict")
  /\ Goto(c, "tag")
  /\ UNCHANGED <<version, flows, pending, left>>

\* flow->app_verdict = ca_policy_verdict(...)
StoreVerdict(c) ==
  LET new == Torn(c, [cpu[c].rec EXCEPT !.verdict = PolicyVerdict(c, cpu[c].rec.class)])
      spoilt == {d \in CPUs : Snap(d).generation # Snap(c).generation}
  IN  /\ Here(c, "verdict")
      /\ Write(c, new)
      /\ cpu' = [Seen(c, new, spoilt) EXCEPT ![c].pc = "tag", ![c].raced = FALSE]
      /\ UNCHANGED <<version, pending, left>>

\* flow->app_policy_generation = config->app_policy_generation
StoreGeneration(c) ==
  LET new == Torn(c, [cpu[c].rec EXCEPT !.generation = Snap(c).generation])
  IN  /\ Here(c, "tag")
      /\ Write(c, new)
      /\ cpu' = [Seen(c, new, {}) EXCEPT ![c].pc = "read"]
      /\ UNCHANGED <<version, pending, left>>

\* The verdict is read from the record, again if this CPU has just stored it, and
\* the packet leaves with it.
ReadVerdict(c) ==
  /\ Here(c, "read")
  /\ Emit(c, cpu[c].rec.verdict)
  /\ left' = [left EXCEPT ![c] = {}]
  /\ UNCHANGED <<version, flows, pending>>

DeleteUnclassified(c) ==
  /\ Here(c, "delete")
  /\ Put(c, Absent)
  /\ Detach(Key(c))
  /\ Goto(c, "admit")
  /\ UNCHANGED <<version, pending>>

\* BPF_NOEXIST: a key in use or a full map refuses, and so may the allocator
\* at any time (the map is not preallocated).
Insert(c, r) ==
  /\ Found(c) = Absent
  /\ Room
  /\ Put(c, r)

\* Without enforcement the record only correlates the tuple with its subject.
Correlate(c) ==
  /\ Here(c, "correlate")
  /\ \/ Insert(c, NewRecord(c, "UNCLASSIFIED_FINAL", Unclassified, "ALLOW"))
     \/ UNCHANGED flows
  /\ Pass(c)
  /\ UNCHANGED <<version, pending, left>>

\* ca_admit_classification: a global and a subject token, or load is shed.
Admit(c) ==
  /\ Here(c, "admit")
  /\ \/ Goto(c, "reserve")
     \/ Goto(c, "shed")
  /\ UNCHANGED <<version, flows, pending, left>>

\* A reservation when the limit is reached already.
ReserveOneMore(c) ==
  /\ Here(c, "reserve")
  /\ \/ pending <= Snap(c).limit /\ pending' = pending + 1 /\ Goto(c, "insert")
     \/ pending > Snap(c).limit /\ Goto(c, "shed") /\ UNCHANGED pending
  /\ UNCHANGED <<version, flows, left>>

\* ca_pending_reserve: one compare-and-swap loop, with the limit of the copied
\* snapshot.  Eight lost races in a row also refuse, which takes other CPUs in
\* the same loop.
Reserve(c) ==
  /\ Here(c, "reserve")
  /\ \/ /\ pending < Snap(c).limit
        /\ pending' = pending + 1
        /\ Goto(c, "insert")
     \/ /\ \/ pending >= Snap(c).limit
           \/ \E d \in CPUs \ {c} : Here(d, "reserve")
        /\ Goto(c, "shed")
        /\ UNCHANGED pending
  /\ UNCHANGED <<version, flows, left>>

Admitted(c) ==
  /\ Insert(c, NewRecord(c, "PENDING", Unclassified, Snap(c).provisional))
  /\ Goto(c, "terminal")
  /\ UNCHANGED pending

\* A refused insert that forgets the reservation it holds.
InsertPendingLeaky(c) ==
  /\ Here(c, "insert")
  /\ \/ Admitted(c)
     \/ Goto(c, "shed") /\ UNCHANGED <<flows, pending>>
  /\ UNCHANGED <<version, left>>

\* The PENDING record goes in, or the reservation is returned and load shed.
InsertPending(c) ==
  /\ Here(c, "insert")
  /\ \/ Admitted(c)
     \/ /\ pending' = pending - 1
        /\ Goto(c, "shed")
        /\ UNCHANGED flows
  /\ UNCHANGED <<version, left>>

\* ca_try_terminal: with max_packets_inspected = 1 (parse_snapshot accepts no
\* other value) the budget is always spent, so the first packet decides.
Terminal(c) ==
  LET class == Snap(c).class[Key(c)]
      state == IF class = Unclassified THEN "UNCLASSIFIED_FINAL" ELSE "CLASSIFIED"
  IN  NewRecord(c, state, class, PolicyVerdict(c, class))

Classified(c) ==
  /\ Found(c) # Absent
  /\ Put(c, Terminal(c))
  /\ Detach(Key(c))
  /\ cpu' = [cpu EXCEPT ![c].pc = "release", ![c].first = TRUE]
  /\ UNCHANGED pending

\* A failed update that sheds load without deleting the PENDING record.
UpdateTerminalNoUndo(c) ==
  /\ Here(c, "terminal")
  /\ \/ Classified(c)
     \/ /\ pending' = pending - 1
        /\ Goto(c, "shed")
        /\ UNCHANGED <<flows, left>>
  /\ UNCHANGED version

\* BPF_EXIST: the update fails if another CPU or the collector deleted the
\* key meanwhile, or if no record can be allocated.
UpdateTerminal(c) ==
  /\ Here(c, "terminal")
  /\ \/ Classified(c)
     \/ /\ pending' = pending - 1
        /\ Goto(c, "undo")
        /\ UNCHANGED <<flows, left>>
  /\ UNCHANGED version

\* The reservation is returned and the packet leaves with the explicit
\* provisional verdict.
ReleasePending(c) ==
  /\ Here(c, "release")
  /\ pending' = pending - 1
  /\ Emit(c, Snap(c).provisional)
  /\ UNCHANGED <<version, flows, left>>

\* A second release on the same error path.
UndoReleasingAgain(c) ==
  /\ Here(c, "undo")
  /\ Put(c, Absent)
  /\ Detach(Key(c))
  /\ pending' = pending - 1
  /\ Goto(c, "shed")
  /\ UNCHANGED version

\* After a failed update (and the release) the key is deleted, whosever
\* record it now holds.
UndoInsert(c) ==
  /\ Here(c, "undo")
  /\ Put(c, Absent)
  /\ Detach(Key(c))
  /\ Goto(c, "shed")
  /\ UNCHANGED <<version, pending>>

\* ca_load_shed: the flow becomes terminal and unclassified, if it can.
ShedInsert(c) ==
  LET v == PolicyVerdict(c, Unclassified)
  IN  /\ Here(c, "shed")
      /\ \/ /\ Insert(c, NewRecord(c, "UNCLASSIFIED_FINAL", Unclassified, v))
            /\ Emit(c, v)
         \/ /\ Goto(c, "existing")
            /\ UNCHANGED flows
      /\ UNCHANGED <<version, pending, left>>

\* The insert was refused.  No record: the map is full and nothing is evicted
\* for this flow.  A record: another CPU owns the flow by now.
ShedExisting(c) ==
  /\ Here(c, "existing")
  /\ \/ Found(c) = Absent /\ Emit(c, PolicyVerdict(c, Unclassified))
     \/ Found(c).state = "PENDING" /\ EmitPending(c)
     \/ Found(c).state \in {"CLASSIFIED", "UNCLASSIFIED_FINAL"} /\ Point(c, "compare")
  /\ UNCHANGED <<version, flows, pending, left>>

--------------------------------------------------------------------------------
(* Userspace.                                                              *)

\* bpfctl sync replaces the snapshot.
PublishNext ==
  /\ version < Len(Snapshots)
  /\ version' = version + 1
  /\ UNCHANGED <<flows, pending, cpu, left>>

\* bpfctl gc looks an idle record up and then deletes by key, so it may
\* delete a record that replaced the idle one meanwhile.
Collect(f) ==
  /\ flows[f] # Absent
  /\ flows' = [flows EXCEPT ![f] = Absent]
  /\ Detach(f)
  /\ UNCHANGED <<version, pending, cpu>>

--------------------------------------------------------------------------------
Packet(c) ==
  \/ \E f \in Flows : Arrive(c, f)
  \/ LookupCached(c)
  \/ LookupMissing(c)
  \/ CompareGeneration(c)
  \/ StoreVerdict(c)
  \/ StoreGeneration(c)
  \/ ReadVerdict(c)
  \/ DeleteUnclassified(c)
  \/ Correlate(c)
  \/ Admit(c)
  \/ Reserve(c)
  \/ InsertPending(c)
  \/ UpdateTerminal(c)
  \/ ReleasePending(c)
  \/ UndoInsert(c)
  \/ ShedInsert(c)
  \/ ShedExisting(c)

Next ==
  \/ \E c \in CPUs : Packet(c)
  \/ PublishNext
  \/ \E f \in Flows : Collect(f)

Spec == Init /\ [][Next]_vars

--------------------------------------------------------------------------------
(* Properties.                                                             *)

\* Every path through the program returns the reservation it took, exactly
\* once, so ca_runtime's count is the number of CPUs between ca_pending_reserve
\* and its release, and never exceeds the limit for good.
PendingConserved ==
  pending = Cardinality({c \in CPUs : cpu[c].pc \in {"insert", "terminal", "release"}})

\* A record in the PENDING state, which lets its flow pass under the
\* provisional verdict, always has a CPU that is still going to replace or
\* delete it, whatever other CPUs and the collector delete meanwhile.
PendingHasOwner ==
  \A f \in Flows : flows[f].state = "PENDING" =>
    \E c \in CPUs : Key(c) = f /\ cpu[c].pc \in {"terminal", "undo"}

\* A limit bounds the reservations of every packet that copied it, so the count
\* is at most some published limit (it may exceed the newest).  It does not
\* bound the records: a CPU whose terminal update failed returns its reservation
\* before it deletes its PENDING record, and only by such CPUs do the PENDING
\* records outnumber the reservations.
PendingBounded ==
  /\ \E v \in 1..version : pending <= Snapshots[v].limit
  /\ Cardinality({f \in Flows : flows[f].state = "PENDING"})
       <= pending + Cardinality({c \in CPUs : Here(c, "undo")})

Truthful(f) ==
  \E v \in 1..version :
    /\ Snapshots[v].generation = flows[f].generation
    /\ Snapshots[v].policy[f][flows[f].class] = flows[f].verdict

BeingTagged(f) == \E c \in CPUs : Attached(c) /\ Key(c) = f /\ Here(c, "tag")

\* Unless packets that hold different policy generations met at the record, a
\* classified flow's cached verdict is what the generation it is tagged with
\* says about its class: a later packet of that generation may trust the tag.
CachedVerdictTruthful ==
  \A f \in Flows :
    flows[f].state = "CLASSIFIED" /\ ~BeingTagged(f) /\ ~flows[f].torn =>
      Truthful(f)

\* The packets that the program lets through while their flow is unclassified.
Optimistic(c) == cpu[c].first \/ cpu[c].rec.state = "PENDING"

\* A packet leaves with a verdict of the snapshot it copied, however old the
\* record and whatever was published, re-evaluated or deleted meanwhile: the
\* provisional one if it is the first of its flow or its flow is pending, else
\* the policy's for the record's class, and for unclassified traffic where load
\* is shed because the map is full, the pending limit reached or no token left.
\* The exception is a packet that raced with one of another generation between
\* its own accesses to the record.
OwnSnapshotEnforced ==
  \A c \in CPUs :
    Here(c, "idle") /\ cpu[c].out # "none" /\ ~cpu[c].raced =>
      cpu[c].out = IF Optimistic(c) THEN Snap(c).provisional
                                    ELSE PolicyVerdict(c, cpu[c].rec.class)

\* What the forward chain's comment says ("policy-generation changes take
\* effect on their next packet"): once a classified record carries a
\* generation and nobody is re-evaluating it, its verdict is that generation's.
NextPacketObeysPolicy ==
  \A f \in Flows :
    flows[f].state = "CLASSIFIED" /\ ~BeingTagged(f) => Truthful(f)

\* What ca_ingress' comments and the datapath test say: only the first admitted
\* packet is optimistic; a packet that finds a terminal unclassified record of
\* its own generation leaves with the cached verdict.
UnclassifiedVerdictCached ==
  \A c \in CPUs :
    /\ Here(c, "idle")
    /\ cpu[c].rec.state = "UNCLASSIFIED_FINAL"
    /\ cpu[c].rec.generation = Snap(c).generation
    /\ cpu[c].out # "none"
    => cpu[c].out = cpu[c].rec.verdict
================================================================================
