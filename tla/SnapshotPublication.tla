-------------------------- MODULE SnapshotPublication --------------------------
(***************************************************************************)
(* client-access-bpfctl `sync` and `disable` against packets in flight.    *)
(*                                                                         *)
(* The application snapshot lives in five BPF tables, each kept twice      *)
(* (slots 0 and 1), and one control record, ca_config, that names the      *)
(* active slot.  `sync` rewrites the inactive slot table by table and then *)
(* replaces the control record under its spin lock; `disable` only clears  *)
(* the record's enabled flag.  Both hold the controller's flock.  A packet *)
(* copies the record once, under the spin lock, and then looks up tables   *)
(* of the slot the copy names, one at a time, while a controller may be    *)
(* running.  Nothing but elapsed time (the 50 ms sleep) keeps a controller *)
(* from rewriting a slot that an old packet still reads.                   *)
(***************************************************************************)
EXTENDS Integers, FiniteSets

CONSTANTS
  Procs,        \* controller processes (bpfctl invocations) that may overlap
  CPUs,         \* CPUs that run the classifier program
  NoProc,       \* the holder of a free lock
  MaxVersion    \* bound of the exploration: sync attempts

ASSUME NoProcAssumption     == NoProc \notin Procs
ASSUME MaxVersionAssumption == MaxVersion \in Nat

\* The five tables of a slot, in the order sync clears and fills them.
Subject == 1
Policy  == 2
Port    == 3
Ipv4    == 4
Ipv6    == 5
Tables  == 1..5
Slots   == {0, 1}

\* A table is empty, holds exactly the rows of one snapshot version (a
\* positive number), or holds some leftover or partial mixture of rows.
Empty   == 0
Mixed   == -1
Content == Nat \cup {Mixed}

PCs == {"idle", "grace", "clear", "fill", "rates", "publish", "disable"}

VARIABLES
  config,     \* ca_config: the control record
  table,      \* table[s][t]: what table t of slot s holds
  lock,       \* who holds the controller flock
  pc,         \* pc[p]: where controller process p is
  job,        \* job[p]: what p is publishing, to which slot, at which table
  attempts,   \* versions handed out so far: each sync parses a new snapshot
  draining,   \* the packets that were in flight when the sleep began
  busy,       \* busy[c]: CPU c is inside ca_ingress with an enabled record
  view,       \* view[c]: CPU c's copy of the control record
  looked,     \* looked[c]: the last table CPU c looked up, 0 before the first
  read        \* read[c]: the contents CPU c's lookups have met

ctlVars == <<config, table, lock, pc, job, attempts>>
cpuVars == <<busy, view, looked, read>>
vars    == <<config, table, lock, pc, job, attempts, draining,
             busy, view, looked, read>>

Config == [enabled : BOOLEAN, slot : Slots, version : Nat]
Job    == [version : Nat, slot : Slots, at : Tables]

TypeOK ==
  /\ config   \in Config
  /\ table    \in [Slots -> [Tables -> Content]]
  /\ lock     \in Procs \cup {NoProc}
  /\ pc       \in [Procs -> PCs]
  /\ job      \in [Procs -> Job]
  /\ attempts \in Nat
  /\ draining \in SUBSET CPUs
  /\ busy     \in [CPUs -> BOOLEAN]
  /\ view     \in [CPUs -> Config]
  /\ looked   \in [CPUs -> 0..5]
  /\ read     \in [CPUs -> SUBSET Content]

\* The pinned maps as a fresh load leaves them: array entries are zero and
\* the hash and trie tables are empty.
ZeroConfig == [enabled |-> FALSE, slot |-> 0, version |-> 0]

Init ==
  /\ config   = ZeroConfig
  /\ table    = [s \in Slots |-> [t \in Tables |-> Empty]]
  /\ lock     = NoProc
  /\ pc       = [p \in Procs |-> "idle"]
  /\ job      = [p \in Procs |-> [version |-> 0, slot |-> 0, at |-> 1]]
  /\ attempts = 0
  /\ draining = {}
  /\ busy     = [c \in CPUs |-> FALSE]
  /\ view     = [c \in CPUs |-> ZeroConfig]
  /\ looked   = [c \in CPUs |-> 0]
  /\ read     = [c \in CPUs |-> {}]

--------------------------------------------------------------------------------
(* The controller.                                                         *)

\* ca_bpf_update_lock: a blocking exclusive flock, so a caller simply waits.
Acquire(p) ==
  /\ pc[p] = "idle"
  /\ lock = NoProc
  /\ lock' = p

\* Every `goto out`: the lock is closed, nothing is undone.
Release(p) ==
  /\ pc'   = [pc EXCEPT ![p] = "idle"]
  /\ lock' = NoProc

InactiveSlot == 1 - config.slot
SlotAfterActive == config.slot + 1

\* sync takes the lock, parses the snapshot, reads the control record, opens
\* the inactive slot's tables and goes to sleep.  (A parse, lookup or open
\* failure releases the lock again with nothing changed.)
BeginSyncTo(p, slot) ==
  /\ attempts < MaxVersion
  /\ Acquire(p)
  /\ attempts' = attempts + 1
  /\ job' = [job EXCEPT ![p] =
               [version |-> attempts + 1, slot |-> slot, at |-> 1]]
  /\ pc'  = [pc EXCEPT ![p] = "grace"]
  /\ draining' = {c \in CPUs : busy[c]}
  /\ UNCHANGED <<config, table>>
  /\ UNCHANGED cpuVars

BeginSyncNextSlot(p) == BeginSyncTo(p, SlotAfterActive)
BeginSync(p)         == BeginSyncTo(p, InactiveSlot)

WakeAtOnce(p) ==
  /\ pc[p] = "grace"
  /\ pc' = [pc EXCEPT ![p] = "clear"]
  /\ UNCHANGED <<config, table, lock, job, attempts, draining>>
  /\ UNCHANGED cpuVars

\* usleep(50000) returns.  The code's timing assumption, in the comment above
\* it, is that no TC invocation lasts that long: every packet that was in
\* flight when the sleep began has left the program.
Wake(p) ==
  /\ pc[p] = "grace"
  /\ draining = {}
  /\ pc' = [pc EXCEPT ![p] = "clear"]
  /\ UNCHANGED <<config, table, lock, job, attempts, draining>>
  /\ UNCHANGED cpuVars

At(p)      == job[p].at
Holds(p)   == table[job[p].slot][At(p)]
Store(p, x) == table' = [table EXCEPT ![job[p].slot][At(p)] = x]
Advance(p, next) ==
  IF At(p) = Ipv6
    THEN /\ job' = [job EXCEPT ![p].at = 1]
         /\ pc'  = [pc EXCEPT ![p] = next]
    ELSE /\ job' = [job EXCEPT ![p].at = @ + 1]
         /\ UNCHANGED pc

\* clear_map on the next table of the inactive slot.
Clear(p) ==
  /\ pc[p] = "clear"
  /\ Store(p, Empty)
  /\ Advance(p, "fill")
  /\ UNCHANGED <<config, lock, attempts, draining>>
  /\ UNCHANGED cpuVars

\* Insert every row with BPF_NOEXIST into the next table.
Fill(p) ==
  /\ pc[p] = "fill"
  /\ Store(p, IF Holds(p) = Empty THEN job[p].version ELSE Mixed)
  /\ Advance(p, "rates")
  /\ UNCHANGED <<config, lock, attempts, draining>>
  /\ UNCHANGED cpuVars

\* A row that cannot be deleted or inserted ends sync part way through a
\* table.
AbortInTable(p) ==
  /\ pc[p] \in {"clear", "fill"}
  /\ Store(p, Mixed)
  /\ Release(p)
  /\ UNCHANGED <<config, job, attempts, draining>>
  /\ UNCHANGED cpuVars

SkipRow(p) ==
  /\ pc[p] \in {"clear", "fill"}
  /\ Store(p, Mixed)
  /\ Advance(p, IF pc[p] = "clear" THEN "fill" ELSE "rates")
  /\ UNCHANGED <<config, lock, attempts, draining>>
  /\ UNCHANGED cpuVars

FailInTable(p) == AbortInTable(p)

\* The subject rate counters are cleared when the classifier generation
\* changes; the map is not part of a slot.
ResetRates(p) ==
  /\ pc[p] = "rates"
  /\ pc' = [pc EXCEPT ![p] = "publish"]
  /\ UNCHANGED <<config, table, lock, job, attempts, draining>>
  /\ UNCHANGED cpuVars

\* The whole control record is replaced under its spin lock; the snapshot
\* itself says whether the datapath is enabled.
Publish(p) ==
  /\ pc[p] = "publish"
  /\ \E e \in BOOLEAN :
       config' = [enabled |-> e, slot |-> job[p].slot,
                  version |-> job[p].version]
  /\ Release(p)
  /\ UNCHANGED <<table, job, attempts, draining>>
  /\ UNCHANGED cpuVars

\* The rate map cannot be cleared, or the record cannot be replaced.
FailBeforePublish(p) ==
  /\ pc[p] \in {"rates", "publish"}
  /\ Release(p)
  /\ UNCHANGED <<config, table, job, attempts, draining>>
  /\ UNCHANGED cpuVars

BeginDisable(p) ==
  /\ Acquire(p)
  /\ pc' = [pc EXCEPT ![p] = "disable"]
  /\ UNCHANGED <<config, table, job, attempts, draining>>
  /\ UNCHANGED cpuVars

\* The record is read back and rewritten with enabled cleared.  (A failure
\* leaves it as it is: Crash below.)
Disable(p) ==
  /\ pc[p] = "disable"
  /\ config' = [config EXCEPT !.enabled = FALSE]
  /\ Release(p)
  /\ UNCHANGED <<table, job, attempts, draining>>
  /\ UNCHANGED cpuVars

\* The process dies (or gives up) between two steps: the kernel drops its
\* flock.  A death inside a table is FailInTable.
Crash(p) ==
  /\ pc[p] # "idle"
  /\ Release(p)
  /\ UNCHANGED <<config, table, job, attempts, draining>>
  /\ UNCHANGED cpuVars

--------------------------------------------------------------------------------
(* The packet path, as far as it touches the snapshot.                     *)

\* The copy of the control record, under the spin lock.  A record that is not
\* enabled ends the program before any lookup.
PacketBegin(c) ==
  /\ ~busy[c]
  /\ config.enabled
  /\ busy'   = [busy EXCEPT ![c] = TRUE]
  /\ view'   = [view EXCEPT ![c] = config]
  /\ looked' = [looked EXCEPT ![c] = 0]
  /\ read'   = [read EXCEPT ![c] = {}]
  /\ UNCHANGED draining
  /\ UNCHANGED ctlVars

\* ca_ingress looks up the subject first; then ca_classify one address table
\* and the port table; then ca_policy_verdict the policy table, at most twice
\* for the class and its fallback, and again when load is shed.  A packet of
\* a cached flow skips the classifier.
MayFollow(last, t) ==
  CASE last = 0       -> t = Subject
    [] last = Subject -> t # Subject
    [] last = Ipv4    -> t \in {Port, Policy}
    [] last = Ipv6    -> t \in {Port, Policy}
    [] last = Port    -> t = Policy
    [] last = Policy  -> t = Policy

LookupIn(c, slot, t) ==
  /\ busy[c]
  /\ MayFollow(looked[c], t)
  /\ looked' = [looked EXCEPT ![c] = t]
  /\ read'   = [read EXCEPT ![c] = @ \cup {table[slot][t]}]
  /\ UNCHANGED <<draining, busy, view>>
  /\ UNCHANGED ctlVars

PacketLookupLive(c, t) == LookupIn(c, config.slot, t)
PacketLookup(c, t)     == LookupIn(c, view[c].slot, t)

PacketEnd(c) ==
  /\ busy[c]
  /\ busy'     = [busy EXCEPT ![c] = FALSE]
  /\ draining' = draining \ {c}
  /\ UNCHANGED <<view, looked, read>>
  /\ UNCHANGED ctlVars

--------------------------------------------------------------------------------
Controller(p) ==
  \/ BeginSync(p)
  \/ Wake(p)
  \/ Clear(p)
  \/ Fill(p)
  \/ FailInTable(p)
  \/ ResetRates(p)
  \/ Publish(p)
  \/ FailBeforePublish(p)
  \/ BeginDisable(p)
  \/ Disable(p)
  \/ Crash(p)

Packet(c) ==
  \/ PacketBegin(c)
  \/ \E t \in Tables : PacketLookup(c, t)
  \/ PacketEnd(c)

Next ==
  \/ \E p \in Procs : Controller(p)
  \/ \E c \in CPUs : Packet(c)

Spec == Init /\ [][Next]_vars

--------------------------------------------------------------------------------
(* Properties.                                                             *)

\* Whatever fails, crashes or overlaps, the slot the control record names
\* holds every row of the record's own snapshot and no other row: a sync that
\* stops half way, or is killed, leaves its damage in the inactive slot.
ActiveComplete ==
  config.version # 0 =>
    \A t \in Tables : table[config.slot][t] = config.version

\* No controller step changes a table of a slot that a packet in flight is
\* reading: the sleep keeps the retired slot intact for as long as a packet
\* that copied the previous record can still look it up.
ReaderSlotFrozen ==
  [][\A c \in CPUs : busy[c] => table'[view[c].slot] = table[view[c].slot]]_vars

\* Slots, tables, sleep and lock together implement the promise: each packet
\* runs under exactly one published snapshot, published in one step.
Atomic == INSTANCE AtomicPublication WITH
            current <- config.version,
            enabled <- config.enabled,
            using   <- [c \in CPUs |-> view[c].version],
            basis   <- read

AtomicallyPublished == Atomic!Spec
================================================================================
