----------------------- MODULE SnapshotPublicationProofs -----------------------
(***************************************************************************)
(* Proofs about SnapshotPublication, for any number of controllers and     *)
(* CPUs: the type invariant, the completeness of the active slot, that no  *)
(* table is rewritten under a reader, and that the slots implement atomic  *)
(* publication.                                                            *)
(***************************************************************************)
EXTENDS SnapshotPublication, TLAPS

Syncing == {"grace", "clear", "fill", "rates", "publish"}
Writing == {"clear", "fill", "rates", "publish"}

\* Only the holder of the flock is inside a command.
LockHeld == \A p \in Procs : pc[p] # "idle" => lock = p

\* A sync works on the slot that is not active, for a version that is newer
\* than the published one.
TargetInactive ==
  /\ config.version <= attempts
  /\ config.enabled => config.version # 0
  /\ \A p \in Procs : pc[p] \in Syncing =>
       /\ job[p].slot # config.slot
       /\ config.version < job[p].version
       /\ job[p].version <= attempts

\* While a sync sleeps, every packet still on its target slot is awaited.
StragglersAwaited ==
  \A p \in Procs : pc[p] = "grace" =>
    \A c \in CPUs : busy[c] /\ view[c].slot = job[p].slot => c \in draining

\* After the sleep no packet is on the target slot.
TargetQuiet ==
  \A p \in Procs : pc[p] \in Writing =>
    \A c \in CPUs : busy[c] => view[c].slot # job[p].slot

\* How far the target slot has been cleared and filled.
Rewritten ==
  \A p \in Procs :
    LET slot == table[job[p].slot]
    IN  /\ pc[p] = "grace" => job[p].at = 1
        /\ pc[p] = "clear" =>
             \A t \in Tables : t < job[p].at => slot[t] = Empty
        /\ pc[p] = "fill" =>
             \A t \in Tables :
               slot[t] = IF t < job[p].at THEN job[p].version ELSE Empty
        /\ pc[p] \in {"rates", "publish"} =>
             \A t \in Tables : slot[t] = job[p].version

\* A packet's slot holds its version, and nothing else was read from it.
ReaderCoherent ==
  \A c \in CPUs : busy[c] =>
    /\ \A t \in Tables : table[view[c].slot][t] = view[c].version
    /\ read[c] \subseteq {view[c].version}

\* The inductive invariant: what the active slot, the slot being written and the
\* packets in flight hold.
IInv ==
  /\ TypeOK
  /\ LockHeld
  /\ TargetInactive
  /\ StragglersAwaited
  /\ TargetQuiet
  /\ Rewritten
  /\ ReaderCoherent
  /\ ActiveComplete

--------------------------------------------------------------------------------
\* At first nothing is written, published or read.
LEMMA InitIInv == Init => IInv
  BY NoProcAssumption, SMTT(60)
     DEF Init, IInv, TypeOK, LockHeld, TargetInactive, StragglersAwaited,
         TargetQuiet, Rewritten, ReaderCoherent, ActiveComplete, ZeroConfig,
         Config, Job, PCs, Slots, Tables, Content, Syncing, Writing, Empty, Mixed

\* Store rewrites the one table a sync is at.
LEMMA StoreEffect ==
  ASSUME TypeOK, NEW p \in Procs, NEW x \in Content, Store(p, x)
  PROVE  /\ table' \in [Slots -> [Tables -> Content]]
         /\ table'[job[p].slot][job[p].at] = x
         /\ \A s \in Slots, t \in Tables :
              s # job[p].slot \/ t # job[p].at => table'[s][t] = table[s][t]
<1>1. job[p].slot \in Slots /\ job[p].at \in Tables
  BY DEF TypeOK, Job
<1>2. table' = [table EXCEPT ![job[p].slot] =
                  [table[job[p].slot] EXCEPT ![job[p].at] = x]]
  BY DEF Store, At
<1>3. table \in [Slots -> [Tables -> Content]]
  BY DEF TypeOK
<1>4. QED
  BY <1>1, <1>2, <1>3

\* Advance moves a sync to the next table, or from the last one to the next
\* phase.
LEMMA AdvanceEffect ==
  ASSUME TypeOK, NEW p \in Procs, NEW next \in PCs, Advance(p, next)
  PROVE  /\ job' \in [Procs -> Job]
         /\ pc' \in [Procs -> PCs]
         /\ \A q \in Procs \ {p} : job'[q] = job[q] /\ pc'[q] = pc[q]
         /\ job'[p].slot = job[p].slot /\ job'[p].version = job[p].version
         /\ job[p].at = 5 => job'[p].at = 1 /\ pc'[p] = next
         /\ job[p].at # 5 => job'[p].at = job[p].at + 1 /\ pc'[p] = pc[p]
<1>1. job \in [Procs -> Job] /\ pc \in [Procs -> PCs]
  BY DEF TypeOK
<1>2. CASE job[p].at = 5
  BY <1>1, <1>2 DEF Advance, At, Ipv6, Job, Tables
<1>3. CASE job[p].at # 5
  BY <1>1, <1>3 DEF Advance, At, Ipv6, Job, Tables
<1>4. QED
  BY <1>2, <1>3

\* Every step keeps the types.
LEMMA TypeStep == TypeOK /\ [Next]_vars => TypeOK'
<1> SUFFICES ASSUME TypeOK, [Next]_vars
             PROVE  TypeOK'
  OBVIOUS
<1> USE DEF TypeOK, Config, Job, PCs, Slots, Tables, Content, Empty, Mixed,
            ctlVars, cpuVars
<1>1. ASSUME NEW p \in Procs, BeginSync(p) PROVE TypeOK'
  BY <1>1 DEF BeginSync, BeginSyncTo, Acquire, InactiveSlot
<1>2. ASSUME NEW p \in Procs, Wake(p) PROVE TypeOK'
  BY <1>2 DEF Wake
<1>3. ASSUME NEW p \in Procs, Clear(p) PROVE TypeOK'
  <2>1. Store(p, Empty) /\ Advance(p, "fill")
    BY <1>3 DEF Clear
  <2>2. QED
    BY <1>3, <2>1, StoreEffect, AdvanceEffect DEF Clear
<1>4. ASSUME NEW p \in Procs, Fill(p) PROVE TypeOK'
  <2>1. PICK x \in Content : Store(p, x) /\ Advance(p, "rates")
    BY <1>4 DEF Fill, Holds, At
  <2>2. QED
    BY <1>4, <2>1, StoreEffect, AdvanceEffect DEF Fill
<1>5. ASSUME NEW p \in Procs, FailInTable(p) PROVE TypeOK'
  BY <1>5 DEF FailInTable, AbortInTable, Store, At, Release
<1>6. ASSUME NEW p \in Procs, ResetRates(p) PROVE TypeOK'
  BY <1>6 DEF ResetRates
<1>7. ASSUME NEW p \in Procs, Publish(p) PROVE TypeOK'
  BY <1>7 DEF Publish, Release
<1>8. ASSUME NEW p \in Procs, FailBeforePublish(p) PROVE TypeOK'
  BY <1>8 DEF FailBeforePublish, Release
<1>9. ASSUME NEW p \in Procs, BeginDisable(p) PROVE TypeOK'
  BY <1>9 DEF BeginDisable, Acquire
<1>10. ASSUME NEW p \in Procs, Disable(p) PROVE TypeOK'
  BY <1>10 DEF Disable, Release
<1>11. ASSUME NEW p \in Procs, Crash(p) PROVE TypeOK'
  BY <1>11 DEF Crash, Release
<1>12. ASSUME NEW c \in CPUs, PacketBegin(c) PROVE TypeOK'
  BY <1>12 DEF PacketBegin
<1>13. ASSUME NEW c \in CPUs, NEW t \in Tables, PacketLookup(c, t) PROVE TypeOK'
  BY <1>13 DEF PacketLookup, LookupIn
<1>14. ASSUME NEW c \in CPUs, PacketEnd(c) PROVE TypeOK'
  BY <1>14 DEF PacketEnd
<1>15. CASE UNCHANGED vars
  BY <1>15 DEF vars
<1>16. QED
  BY <1>1, <1>2, <1>3, <1>4, <1>5, <1>6, <1>7, <1>8, <1>9, <1>10, <1>11,
     <1>12, <1>13, <1>14, <1>15 DEF Next, Controller, Packet

\* TypeOK holds throughout, for any number of controllers and CPUs.
THEOREM TypeCorrect == Spec => []TypeOK
<1>1. Init => TypeOK
  BY InitIInv DEF IInv
<1>2. QED
  BY <1>1, TypeStep, PTL DEF Spec

\* While one controller is inside a command, the others are idle.
LEMMA OthersIdle ==
  ASSUME IInv, NEW p \in Procs, pc[p] # "idle"
  PROVE  \A q \in Procs \ {p} : pc[q] = "idle"
  BY DEF IInv, LockHeld

\* A sync that rewrites its target slot touches neither the active slot nor
\* the slot of a packet in flight.
LEMMA StoreElsewhere ==
  ASSUME IInv, NEW p \in Procs, pc[p] \in Writing, NEW x \in Content, Store(p, x)
  PROVE  /\ \A t \in Tables : table'[config.slot][t] = table[config.slot][t]
         /\ \A c \in CPUs, t \in Tables :
              busy[c] => table'[view[c].slot][t] = table[view[c].slot][t]
<1>1. TypeOK
  BY DEF IInv
<1>2. \A s \in Slots, t \in Tables :
        s # job[p].slot => table'[s][t] = table[s][t]
  BY <1>1, StoreEffect
<1>3. config.slot \in Slots /\ config.slot # job[p].slot
  BY DEF IInv, TypeOK, Config, TargetInactive, Writing, Syncing
<1>4. \A c \in CPUs : view[c].slot \in Slots
  BY <1>1 DEF TypeOK, Config
<1>5. \A c \in CPUs : busy[c] => view[c].slot # job[p].slot
  BY DEF IInv, TargetQuiet
<1>6. QED
  BY <1>2, <1>3, <1>4, <1>5

\* Such a step keeps what packets read and what the record names, ...
LEMMA StoreKeepsReaders ==
  ASSUME IInv, NEW p \in Procs, pc[p] \in Writing, NEW x \in Content, Store(p, x),
         UNCHANGED <<config, busy, view, read>>
  PROVE  ReaderCoherent' /\ ActiveComplete'
  BY StoreElsewhere DEF IInv, ReaderCoherent, ActiveComplete

\* ... and the step to the next table or phase keeps the rest.
LEMMA AdvanceKeepsRest ==
  ASSUME IInv, NEW p \in Procs, pc[p] \in {"clear", "fill"},
         NEW next \in {"fill", "rates"}, Advance(p, next),
         UNCHANGED <<config, lock, attempts, draining, busy, view>>
  PROVE  LockHeld' /\ TargetInactive' /\ StragglersAwaited' /\ TargetQuiet'
<1>1. TypeOK /\ next \in PCs
  BY DEF IInv, PCs
<1>2. /\ \A q \in Procs \ {p} : job'[q] = job[q] /\ pc'[q] = pc[q]
      /\ job'[p].slot = job[p].slot /\ job'[p].version = job[p].version
      /\ pc'[p] \in {pc[p], next}
  <2>1. CASE job[p].at = 5
    BY <1>1, <2>1, AdvanceEffect
  <2>2. CASE job[p].at # 5
    BY <1>1, <2>2, AdvanceEffect
  <2>3. QED
    BY <2>1, <2>2
<1>3. pc'[p] \in Writing /\ pc[p] \in Writing
  BY <1>2 DEF Writing
<1>4. LockHeld'
  BY <1>2, <1>3 DEF IInv, LockHeld, Writing
<1>5. TargetInactive'
  BY <1>2, <1>3 DEF IInv, TargetInactive, Writing, Syncing
<1>6. StragglersAwaited'
  BY <1>2, <1>3 DEF IInv, StragglersAwaited, Writing
<1>7. TargetQuiet'
  BY <1>2, <1>3 DEF IInv, TargetQuiet, Writing
<1>8. QED
  BY <1>4, <1>5, <1>6, <1>7

\* Every step keeps the inductive invariant.
LEMMA IInvStep == IInv /\ [Next]_vars => IInv'
<1> SUFFICES ASSUME IInv, [Next]_vars
             PROVE  IInv'
  OBVIOUS
<1>a. TypeOK'
  BY TypeStep DEF IInv
<1> USE DEF IInv, TypeOK, Config, Job, PCs, Slots, Tables, ctlVars, cpuVars,
            Syncing, Writing
<1>1. ASSUME NEW p \in Procs, BeginSync(p) PROVE IInv'
  <2>1. LockHeld'
    BY <1>1, NoProcAssumption DEF BeginSync, BeginSyncTo, Acquire, InactiveSlot, LockHeld
  <2>2. TargetInactive'
    BY <1>1 DEF BeginSync, BeginSyncTo, Acquire, InactiveSlot, TargetInactive
  <2>3. StragglersAwaited'
    BY <1>1 DEF BeginSync, BeginSyncTo, Acquire, InactiveSlot, StragglersAwaited
  <2>4. TargetQuiet'
    BY <1>1 DEF BeginSync, BeginSyncTo, Acquire, InactiveSlot, TargetQuiet
  <2>5. Rewritten'
    BY <1>1 DEF BeginSync, BeginSyncTo, Acquire, InactiveSlot, Rewritten
  <2>6. ReaderCoherent'
    BY <1>1 DEF BeginSync, BeginSyncTo, Acquire, InactiveSlot, ReaderCoherent
  <2>7. ActiveComplete'
    BY <1>1 DEF BeginSync, BeginSyncTo, Acquire, InactiveSlot, ActiveComplete
  <2>8. QED
    BY <1>a, <2>1, <2>2, <2>3, <2>4, <2>5, <2>6, <2>7 DEF IInv
<1>2. ASSUME NEW p \in Procs, Wake(p) PROVE IInv'
  <2>1. LockHeld'
    BY <1>2 DEF Wake, LockHeld
  <2>2. TargetInactive'
    BY <1>2 DEF Wake, TargetInactive
  <2>3. StragglersAwaited'
    BY <1>2 DEF Wake, StragglersAwaited
  <2>4. TargetQuiet'
    BY <1>2 DEF Wake, TargetQuiet, StragglersAwaited
  <2>5. Rewritten'
    BY <1>2 DEF Wake, Rewritten
  <2>6. ReaderCoherent'
    BY <1>2 DEF Wake, ReaderCoherent
  <2>7. ActiveComplete'
    BY <1>2 DEF Wake, ActiveComplete
  <2>8. QED
    BY <1>a, <2>1, <2>2, <2>3, <2>4, <2>5, <2>6, <2>7 DEF IInv
<1>3. ASSUME NEW p \in Procs, Clear(p) PROVE IInv'
  <2>1. pc[p] = "clear" /\ Store(p, Empty) /\ Advance(p, "fill")
        /\ Empty \in Content
    BY <1>3 DEF Clear, Empty, Content
  <2>2. ReaderCoherent' /\ ActiveComplete'
    BY <1>3, <2>1, StoreKeepsReaders DEF Clear
  <2>3. LockHeld' /\ TargetInactive' /\ StragglersAwaited' /\ TargetQuiet'
    BY <1>3, <2>1, AdvanceKeepsRest DEF Clear
  <2>4. Rewritten'
    <3>1. \A q \in Procs \ {p} : pc[q] = "idle" /\ pc'[q] = pc[q]
      BY <2>1, OthersIdle, AdvanceEffect
    <3>2. \A t \in Tables : t <= job[p].at => table'[job[p].slot][t] = Empty
      BY <2>1, StoreEffect DEF Rewritten, Job
    <3>3. CASE job[p].at = 5
      <4>1. pc'[p] = "fill" /\ job'[p].at = 1 /\ job'[p].slot = job[p].slot
        BY <2>1, <3>3, AdvanceEffect
      <4>2. QED
        BY <3>1, <3>2, <3>3, <4>1 DEF Rewritten
    <3>4. CASE job[p].at # 5
      <4>1. pc'[p] = "clear" /\ job'[p].at = job[p].at + 1
            /\ job'[p].slot = job[p].slot
        BY <2>1, <3>4, AdvanceEffect
      <4>2. QED
        BY <3>1, <3>2, <4>1 DEF Rewritten, Job
    <3>5. QED
      BY <3>3, <3>4
  <2>5. QED
    BY <1>a, <2>2, <2>3, <2>4 DEF IInv
<1>4. ASSUME NEW p \in Procs, Fill(p) PROVE IInv'
  <2>1. pc[p] = "fill" /\ Store(p, job[p].version) /\ Advance(p, "rates")
        /\ job[p].version \in Content
    <3>1. Holds(p) = Empty
      BY <1>4 DEF Fill, Holds, At, Rewritten, Job
    <3>2. QED
      BY <1>4, <3>1 DEF Fill, Content, Job
  <2>2. ReaderCoherent' /\ ActiveComplete'
    BY <1>4, <2>1, StoreKeepsReaders DEF Fill
  <2>3. LockHeld' /\ TargetInactive' /\ StragglersAwaited' /\ TargetQuiet'
    BY <1>4, <2>1, AdvanceKeepsRest DEF Fill
  <2>4. Rewritten'
    <3>1. \A q \in Procs \ {p} : pc[q] = "idle" /\ pc'[q] = pc[q]
      BY <2>1, OthersIdle, AdvanceEffect
    <3>2. \A t \in Tables :
            table'[job[p].slot][t] =
              IF t <= job[p].at THEN job[p].version ELSE Empty
      BY <2>1, StoreEffect DEF Rewritten, Job
    <3>3. CASE job[p].at = 5
      <4>1. pc'[p] = "rates" /\ job'[p].version = job[p].version
            /\ job'[p].slot = job[p].slot
        BY <2>1, <3>3, AdvanceEffect
      <4>2. QED
        BY <3>1, <3>2, <3>3, <4>1 DEF Rewritten
    <3>4. CASE job[p].at # 5
      <4>1. pc'[p] = "fill" /\ job'[p].at = job[p].at + 1
            /\ job'[p].version = job[p].version /\ job'[p].slot = job[p].slot
        BY <2>1, <3>4, AdvanceEffect
      <4>2. QED
        BY <3>1, <3>2, <4>1 DEF Rewritten, Job
    <3>5. QED
      BY <3>3, <3>4
  <2>5. QED
    BY <1>a, <2>2, <2>3, <2>4 DEF IInv
<1>5. ASSUME NEW p \in Procs, FailInTable(p) PROVE IInv'
  <2>1. pc[p] \in {"clear", "fill"} /\ Store(p, Mixed) /\ Mixed \in Content
    BY <1>5 DEF FailInTable, AbortInTable, Content
  <2>2. ReaderCoherent' /\ ActiveComplete'
    BY <1>5, <2>1, StoreKeepsReaders DEF FailInTable, AbortInTable
  <2>3. \A q \in Procs : pc'[q] = "idle"
    BY <1>5, <2>1, OthersIdle DEF FailInTable, AbortInTable, Release
  <2>4. LockHeld' /\ StragglersAwaited' /\ TargetQuiet'
    BY <2>3 DEF LockHeld, StragglersAwaited, TargetQuiet
  <2>5. TargetInactive' /\ Rewritten'
    BY <1>5, <2>3 DEF TargetInactive, Rewritten, FailInTable, AbortInTable
  <2>6. QED
    BY <1>a, <2>2, <2>4, <2>5 DEF IInv
<1>6. ASSUME NEW p \in Procs, ResetRates(p) PROVE IInv'
  <2>1. LockHeld'
    BY <1>6 DEF ResetRates, LockHeld
  <2>2. TargetInactive'
    BY <1>6 DEF ResetRates, TargetInactive
  <2>3. StragglersAwaited'
    BY <1>6 DEF ResetRates, StragglersAwaited
  <2>4. TargetQuiet'
    BY <1>6 DEF ResetRates, TargetQuiet
  <2>5. Rewritten'
    BY <1>6 DEF ResetRates, Rewritten
  <2>6. ReaderCoherent'
    BY <1>6 DEF ResetRates, ReaderCoherent
  <2>7. ActiveComplete'
    BY <1>6 DEF ResetRates, ActiveComplete
  <2>8. QED
    BY <1>a, <2>1, <2>2, <2>3, <2>4, <2>5, <2>6, <2>7 DEF IInv
<1>7. ASSUME NEW p \in Procs, Publish(p) PROVE IInv'
  <2>1. LockHeld'
    BY <1>7 DEF Publish, Release, LockHeld
  <2>2. TargetInactive'
    BY <1>7 DEF Publish, Release, TargetInactive, LockHeld
  <2>3. StragglersAwaited'
    BY <1>7 DEF Publish, Release, StragglersAwaited
  <2>4. TargetQuiet'
    BY <1>7 DEF Publish, Release, TargetQuiet
  <2>5. Rewritten'
    BY <1>7 DEF Publish, Release, Rewritten
  <2>6. ReaderCoherent'
    BY <1>7 DEF Publish, Release, ReaderCoherent
  <2>7. ActiveComplete'
    BY <1>7 DEF Publish, Release, ActiveComplete, Rewritten, TargetInactive
  <2>8. QED
    BY <1>a, <2>1, <2>2, <2>3, <2>4, <2>5, <2>6, <2>7 DEF IInv
<1>8. ASSUME NEW p \in Procs, FailBeforePublish(p) PROVE IInv'
  <2>1. LockHeld'
    BY <1>8 DEF FailBeforePublish, Release, LockHeld
  <2>2. TargetInactive'
    BY <1>8 DEF FailBeforePublish, Release, TargetInactive
  <2>3. StragglersAwaited'
    BY <1>8 DEF FailBeforePublish, Release, StragglersAwaited
  <2>4. TargetQuiet'
    BY <1>8 DEF FailBeforePublish, Release, TargetQuiet
  <2>5. Rewritten'
    BY <1>8 DEF FailBeforePublish, Release, Rewritten
  <2>6. ReaderCoherent'
    BY <1>8 DEF FailBeforePublish, Release, ReaderCoherent
  <2>7. ActiveComplete'
    BY <1>8 DEF FailBeforePublish, Release, ActiveComplete
  <2>8. QED
    BY <1>a, <2>1, <2>2, <2>3, <2>4, <2>5, <2>6, <2>7 DEF IInv
<1>9. ASSUME NEW p \in Procs, BeginDisable(p) PROVE IInv'
  <2>1. LockHeld'
    BY <1>9, NoProcAssumption DEF BeginDisable, Acquire, LockHeld
  <2>2. TargetInactive'
    BY <1>9 DEF BeginDisable, Acquire, TargetInactive
  <2>3. StragglersAwaited'
    BY <1>9 DEF BeginDisable, Acquire, StragglersAwaited
  <2>4. TargetQuiet'
    BY <1>9 DEF BeginDisable, Acquire, TargetQuiet
  <2>5. Rewritten'
    BY <1>9 DEF BeginDisable, Acquire, Rewritten
  <2>6. ReaderCoherent'
    BY <1>9 DEF BeginDisable, Acquire, ReaderCoherent
  <2>7. ActiveComplete'
    BY <1>9 DEF BeginDisable, Acquire, ActiveComplete
  <2>8. QED
    BY <1>a, <2>1, <2>2, <2>3, <2>4, <2>5, <2>6, <2>7 DEF IInv
<1>10. ASSUME NEW p \in Procs, Disable(p) PROVE IInv'
  <2>1. LockHeld'
    BY <1>10 DEF Disable, Release, LockHeld
  <2>2. TargetInactive'
    BY <1>10 DEF Disable, Release, TargetInactive
  <2>3. StragglersAwaited'
    BY <1>10 DEF Disable, Release, StragglersAwaited
  <2>4. TargetQuiet'
    BY <1>10 DEF Disable, Release, TargetQuiet
  <2>5. Rewritten'
    BY <1>10 DEF Disable, Release, Rewritten
  <2>6. ReaderCoherent'
    BY <1>10 DEF Disable, Release, ReaderCoherent
  <2>7. ActiveComplete'
    BY <1>10 DEF Disable, Release, ActiveComplete
  <2>8. QED
    BY <1>a, <2>1, <2>2, <2>3, <2>4, <2>5, <2>6, <2>7 DEF IInv
<1>11. ASSUME NEW p \in Procs, Crash(p) PROVE IInv'
  <2>1. LockHeld'
    BY <1>11 DEF Crash, Release, LockHeld
  <2>2. TargetInactive'
    BY <1>11 DEF Crash, Release, TargetInactive
  <2>3. StragglersAwaited'
    BY <1>11 DEF Crash, Release, StragglersAwaited
  <2>4. TargetQuiet'
    BY <1>11 DEF Crash, Release, TargetQuiet
  <2>5. Rewritten'
    BY <1>11 DEF Crash, Release, Rewritten
  <2>6. ReaderCoherent'
    BY <1>11 DEF Crash, Release, ReaderCoherent
  <2>7. ActiveComplete'
    BY <1>11 DEF Crash, Release, ActiveComplete
  <2>8. QED
    BY <1>a, <2>1, <2>2, <2>3, <2>4, <2>5, <2>6, <2>7 DEF IInv
<1>12. ASSUME NEW c \in CPUs, PacketBegin(c) PROVE IInv'
  <2>1. LockHeld'
    BY <1>12 DEF PacketBegin, LockHeld
  <2>2. TargetInactive'
    BY <1>12 DEF PacketBegin, TargetInactive
  <2>3. StragglersAwaited'
    BY <1>12 DEF PacketBegin, StragglersAwaited, TargetInactive
  <2>4. TargetQuiet'
    BY <1>12 DEF PacketBegin, TargetQuiet, TargetInactive
  <2>5. Rewritten'
    BY <1>12 DEF PacketBegin, Rewritten
  <2>6. ReaderCoherent'
    BY <1>12 DEF PacketBegin, ReaderCoherent, ActiveComplete, TargetInactive
  <2>7. ActiveComplete'
    BY <1>12 DEF PacketBegin, ActiveComplete
  <2>8. QED
    BY <1>a, <2>1, <2>2, <2>3, <2>4, <2>5, <2>6, <2>7 DEF IInv
<1>13. ASSUME NEW c \in CPUs, NEW t \in Tables, PacketLookup(c, t) PROVE IInv'
  <2>1. LockHeld'
    BY <1>13 DEF PacketLookup, LookupIn, LockHeld
  <2>2. TargetInactive'
    BY <1>13 DEF PacketLookup, LookupIn, TargetInactive
  <2>3. StragglersAwaited'
    BY <1>13 DEF PacketLookup, LookupIn, StragglersAwaited
  <2>4. TargetQuiet'
    BY <1>13 DEF PacketLookup, LookupIn, TargetQuiet
  <2>5. Rewritten'
    BY <1>13 DEF PacketLookup, LookupIn, Rewritten
  <2>6. ReaderCoherent'
    BY <1>13 DEF PacketLookup, LookupIn, ReaderCoherent
  <2>7. ActiveComplete'
    BY <1>13 DEF PacketLookup, LookupIn, ActiveComplete
  <2>8. QED
    BY <1>a, <2>1, <2>2, <2>3, <2>4, <2>5, <2>6, <2>7 DEF IInv
<1>14. ASSUME NEW c \in CPUs, PacketEnd(c) PROVE IInv'
  <2>1. LockHeld'
    BY <1>14 DEF PacketEnd, LockHeld
  <2>2. TargetInactive'
    BY <1>14 DEF PacketEnd, TargetInactive
  <2>3. StragglersAwaited'
    BY <1>14 DEF PacketEnd, StragglersAwaited
  <2>4. TargetQuiet'
    BY <1>14 DEF PacketEnd, TargetQuiet
  <2>5. Rewritten'
    BY <1>14 DEF PacketEnd, Rewritten
  <2>6. ReaderCoherent'
    BY <1>14 DEF PacketEnd, ReaderCoherent
  <2>7. ActiveComplete'
    BY <1>14 DEF PacketEnd, ActiveComplete
  <2>8. QED
    BY <1>a, <2>1, <2>2, <2>3, <2>4, <2>5, <2>6, <2>7 DEF IInv
<1>15. CASE UNCHANGED vars
  BY <1>15 DEF vars, LockHeld, TargetInactive, StragglersAwaited, TargetQuiet,
               Rewritten, ReaderCoherent, ActiveComplete
<1>16. QED
  BY <1>1, <1>2, <1>3, <1>4, <1>5, <1>6, <1>7, <1>8, <1>9, <1>10, <1>11,
     <1>12, <1>13, <1>14, <1>15 DEF Next, Controller, Packet

\* It holds throughout.
LEMMA Invariance == Spec => []IInv
  BY InitIInv, IInvStep, PTL DEF Spec

\* The active slot always holds exactly the rows of the published snapshot,
\* whatever sync fails or is killed.
THEOREM ActiveSlotComplete == Spec => []ActiveComplete
<1>1. IInv => ActiveComplete
  BY DEF IInv
<1>2. QED
  BY <1>1, Invariance, PTL

--------------------------------------------------------------------------------
\* A step that writes a table is a sync's, after its sleep.
LEMMA WritesAreElsewhere ==
  ASSUME IInv, [Next]_vars, NEW c \in CPUs, busy[c]
  PROVE  table'[view[c].slot] = table[view[c].slot]
<1>1. ASSUME NEW p \in Procs, NEW x \in Content,
             pc[p] \in {"clear", "fill"}, Store(p, x)
      PROVE  table'[view[c].slot] = table[view[c].slot]
  <2>1. \A t \in Tables : table'[view[c].slot][t] = table[view[c].slot][t]
    BY <1>1, StoreElsewhere DEF Writing
  <2>2. /\ table \in [Slots -> [Tables -> Content]]
        /\ table' \in [Slots -> [Tables -> Content]]
        /\ view[c].slot \in Slots
    BY TypeStep DEF IInv, TypeOK, Config
  <2>3. QED
    BY <2>1, <2>2
<1>2. ASSUME NEW p \in Procs, Clear(p)
      PROVE  table'[view[c].slot] = table[view[c].slot]
  BY <1>1, <1>2 DEF Clear, Empty, Content
<1>3. ASSUME NEW p \in Procs, Fill(p)
      PROVE  table'[view[c].slot] = table[view[c].slot]
  <2>1. PICK x \in Content : Store(p, x)
    BY <1>3 DEF Fill, IInv, TypeOK, Job, Content
  <2>2. QED
    BY <1>1, <1>3, <2>1 DEF Fill
<1>4. ASSUME NEW p \in Procs, FailInTable(p)
      PROVE  table'[view[c].slot] = table[view[c].slot]
  BY <1>1, <1>4 DEF FailInTable, AbortInTable, Content
<1>5. ASSUME NEW p \in Procs, Controller(p), ~Clear(p), ~Fill(p), ~FailInTable(p)
      PROVE  table' = table
  BY <1>5 DEF Controller, BeginSync, BeginSyncTo, Wake, ResetRates, Publish,
              FailBeforePublish, BeginDisable, Disable, Crash
<1>6. ASSUME NEW d \in CPUs, Packet(d)
      PROVE  table' = table
  BY <1>6 DEF Packet, PacketBegin, PacketLookup, LookupIn, PacketEnd, ctlVars
<1>7. CASE UNCHANGED vars
  BY <1>7 DEF vars
<1>8. QED
  BY <1>2, <1>3, <1>4, <1>5, <1>6, <1>7 DEF Next

\* No table of a slot that a packet in flight reads is ever written: the
\* retired slot is frozen until its last reader has left.
THEOREM ReadersUndisturbed == Spec => ReaderSlotFrozen
<1>1. IInv /\ [Next]_vars =>
        [\A c \in CPUs : busy[c] => table'[view[c].slot] = table[view[c].slot]]_vars
  BY WritesAreElsewhere
<1>2. QED
  BY <1>1, Invariance, PTL DEF Spec, ReaderSlotFrozen

--------------------------------------------------------------------------------
\* At first the promise is kept: no snapshot, no packet.
LEMMA InitRefines == Init => Atomic!Init
  BY DEF Init, Atomic!Init, ZeroConfig

\* What a lookup meets is the version the packet runs under.
LEMMA LookupConsults ==
  ASSUME IInv, NEW c \in CPUs, NEW t \in Tables, PacketLookup(c, t)
  PROVE  Atomic!Consult(c)
<1>1. table[view[c].slot][t] = view[c].version
  BY DEF PacketLookup, LookupIn, IInv, ReaderCoherent
<1>2. QED
  BY <1>1 DEF PacketLookup, LookupIn, Atomic!Consult, ctlVars, IInv, TypeOK

\* Every step publishes, disables, is a packet's own, or is invisible.
LEMMA StepRefines == IInv /\ [Next]_vars => [Atomic!Next]_(Atomic!vars)
<1> SUFFICES ASSUME IInv, [Next]_vars
             PROVE  [Atomic!Next]_(Atomic!vars)
  OBVIOUS
<1> USE DEF Atomic!vars, cpuVars, ctlVars
<1>1. ASSUME NEW p \in Procs, Publish(p) PROVE Atomic!Publish
  BY <1>1 DEF Publish, Atomic!Publish, IInv, TypeOK, Job, Config,
              TargetInactive, Syncing
<1>2. ASSUME NEW p \in Procs, Disable(p) PROVE Atomic!Disable
  BY <1>2 DEF Disable, Atomic!Disable, IInv, TypeOK, Config
<1>3. ASSUME NEW p \in Procs, Controller(p), ~Publish(p), ~Disable(p)
      PROVE  UNCHANGED Atomic!vars
  BY <1>3 DEF Controller, BeginSync, BeginSyncTo, Wake, Clear, Fill,
              FailInTable, AbortInTable, ResetRates, FailBeforePublish,
              BeginDisable, Crash
<1>4. ASSUME NEW c \in CPUs, PacketBegin(c) PROVE Atomic!Begin(c)
  BY <1>4 DEF PacketBegin, Atomic!Begin, IInv, TypeOK, Config
<1>5. ASSUME NEW c \in CPUs, NEW t \in Tables, PacketLookup(c, t)
      PROVE  Atomic!Consult(c)
  BY <1>5, LookupConsults
<1>6. ASSUME NEW c \in CPUs, PacketEnd(c) PROVE Atomic!Finish(c)
  BY <1>6 DEF PacketEnd, Atomic!Finish
<1>7. CASE UNCHANGED vars
  BY <1>7 DEF vars
<1>8. QED
  BY <1>1, <1>2, <1>3, <1>4, <1>5, <1>6, <1>7
     DEF Next, Packet, Atomic!Next

\* Double buffering, the sleep and the lock implement atomic publication.
THEOREM Refinement == Spec => AtomicallyPublished
<1>1. QED
  BY InitRefines, StepRefines, Invariance, PTL
     DEF Spec, AtomicallyPublished, Atomic!Spec
================================================================================
