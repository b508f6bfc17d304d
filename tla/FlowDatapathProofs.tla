--------------------------- MODULE FlowDatapathProofs ---------------------------
(***************************************************************************)
(* Proofs about FlowDatapath, for any number of CPUs and flows and any     *)
(* sequence of snapshots: the types, that reservations are conserved and   *)
(* pending flows owned and bounded, that cached verdicts are true to the   *)
(* generation they are tagged with unless packets of two generations met   *)
(* at the record, that a packet that raced with none of another generation *)
(* leaves with a verdict of its own snapshot, and where generations never  *)
(* meet.                                                                   *)
(***************************************************************************)
EXTENDS FlowDatapath, FiniteSetTheorems, TLAPS

--------------------------------------------------------------------------------
(* Types.                                                                  *)

\* What a CPU, its snapshot and its record are.
LEMMA Typed ==
  ASSUME TypeOK, NEW c \in CPUs
  PROVE  /\ cpu[c] \in CPUState
         /\ Key(c) \in Flows
         /\ Found(c) \in Record
         /\ cpu[c].rec \in Record
         /\ left[c] \in SUBSET CPUs
         /\ Snap(c) \in Snapshot
         /\ Snap(c).generation \in Nat
         /\ Snap(c).provisional \in Verdicts
         /\ Snap(c).class[Key(c)] \in Classes \cup {Unclassified}
<1>1. cpu[c] \in CPUState /\ left[c] \in SUBSET CPUs
  BY DEF TypeOK
<1>2. Key(c) \in Flows /\ cpu[c].snap \in Versions /\ cpu[c].rec \in Record
  BY <1>1 DEF CPUState, Key
<1>3. Found(c) \in Record
  BY <1>2 DEF TypeOK, Found
<1>4. Snap(c) \in Snapshot
  BY <1>2, SnapshotAssumption DEF Snap, Versions
<1>5. QED
  BY <1>1, <1>2, <1>3, <1>4 DEF Snapshot

\* ca_policy_verdict answers ALLOW or DENY.
LEMMA VerdictTyped ==
  ASSUME TypeOK, NEW c \in CPUs, NEW class \in Classes \cup {Unclassified}
  PROVE  PolicyVerdict(c, class) \in Verdicts
<1>1. Snap(c).policy \in [Flows -> [Classes \cup {Unclassified} -> Verdicts]]
  BY Typed DEF Snapshot
<1>2. QED
  BY <1>1, Typed DEF PolicyVerdict

\* No record is a record, of state ABSENT.
LEMMA AbsentTyped == Absent \in Record
BY DEF Absent, Record, Verdicts

\* The records the program inserts are records.
LEMMA NewRecordTyped ==
  ASSUME TypeOK, NEW c \in CPUs,
         NEW state \in {"PENDING", "CLASSIFIED", "UNCLASSIFIED_FINAL"},
         NEW class \in Classes \cup {Unclassified},
         NEW verdict \in Verdicts
  PROVE  NewRecord(c, state, class, verdict) \in Record
BY Typed DEF NewRecord, Record

\* What the two stores of a re-evaluation make of the record.
Renewed(c) == Torn(c, [cpu[c].rec EXCEPT !.verdict = PolicyVerdict(c, cpu[c].rec.class)])
Tagged(c)  == Torn(c, [cpu[c].rec EXCEPT !.generation = Snap(c).generation])

\* Another packet of another generation is between its comparison and its tag.
Meets(c) == Contended(c, {"verdict", "tag"})

\* The first store changes the verdict,
LEMMA RenewedIs ==
  ASSUME TypeOK, NEW c \in CPUs
  PROVE  /\ Renewed(c) \in Record
         /\ Renewed(c).state = cpu[c].rec.state
         /\ Renewed(c).class = cpu[c].rec.class
         /\ Renewed(c).verdict = PolicyVerdict(c, cpu[c].rec.class)
         /\ Renewed(c).generation = cpu[c].rec.generation
         /\ Renewed(c).torn <=> cpu[c].rec.torn \/ Meets(c)
<1>1. cpu[c].rec \in Record /\ Meets(c) \in BOOLEAN
  BY Typed DEF Meets, Contended
<1>2. PolicyVerdict(c, cpu[c].rec.class) \in Verdicts
  BY <1>1, VerdictTyped DEF Record
<1>3. QED
  BY <1>1, <1>2 DEF Renewed, Torn, Meets, Record

\* the second the generation.
LEMMA TaggedIs ==
  ASSUME TypeOK, NEW c \in CPUs
  PROVE  /\ Tagged(c) \in Record
         /\ Tagged(c).state = cpu[c].rec.state
         /\ Tagged(c).class = cpu[c].rec.class
         /\ Tagged(c).verdict = cpu[c].rec.verdict
         /\ Tagged(c).generation = Snap(c).generation
         /\ Tagged(c).torn <=> cpu[c].rec.torn \/ Meets(c)
<1>1. cpu[c].rec \in Record /\ Meets(c) \in BOOLEAN /\ Snap(c).generation \in Nat
  BY Typed DEF Meets, Contended
<1>2. QED
  BY <1>1 DEF Tagged, Torn, Meets, Record

\* The record a classification ends with.
LEMMA TerminalIs ==
  ASSUME TypeOK, NEW c \in CPUs
  PROVE  /\ Terminal(c) \in Record
         /\ Terminal(c).state = IF Snap(c).class[Key(c)] = Unclassified
                                  THEN "UNCLASSIFIED_FINAL" ELSE "CLASSIFIED"
         /\ Terminal(c).class = Snap(c).class[Key(c)]
         /\ Terminal(c).verdict = PolicyVerdict(c, Snap(c).class[Key(c)])
         /\ Terminal(c).generation = Snap(c).generation
         /\ ~Terminal(c).torn
<1>1. Terminal(c) \in Record
  BY Typed, VerdictTyped, NewRecordTyped DEF Terminal
<1>2. QED
  BY <1>1 DEF Terminal, NewRecord

--------------------------------------------------------------------------------
(* Steps.                                                                  *)

\* What a step of CPU c leaves alone: of every other CPU's packet all but what a
\* store changes, and of its own the flow and the snapshot.
Others(c) ==
  \A d \in CPUs \ {c} :
    /\ cpu'[d].pc = cpu[d].pc /\ cpu'[d].flow = cpu[d].flow /\ cpu'[d].snap = cpu[d].snap
    /\ cpu'[d].out = cpu[d].out /\ cpu'[d].first = cpu[d].first
    /\ cpu[d].pc \notin Using => cpu'[d] = cpu[d]
Quiet(c) == \A d \in CPUs \ {c} : cpu'[d] = cpu[d]
Same(c)  == cpu'[c].flow = cpu[c].flow /\ cpu'[c].snap = cpu[c].snap
Store(c) == StoreVerdict(c) \/ StoreGeneration(c)

\* A step that changes nothing of another CPU's packet.
LEMMA QuietOthers == ASSUME NEW c \in CPUs, Quiet(c) PROVE Others(c)
BY DEF Quiet, Others

\* What each way to leave a line changes.
LEMMA GotoStep ==
  ASSUME TypeOK, NEW c \in CPUs, NEW l \in PCs, Goto(c, l)
  PROVE  /\ Quiet(c) /\ Same(c) /\ cpu' \in [CPUs -> CPUState]
         /\ cpu'[c].pc = l /\ cpu'[c].rec = cpu[c].rec /\ cpu'[c].out = cpu[c].out
         /\ cpu'[c].first = cpu[c].first /\ cpu'[c].raced = cpu[c].raced
<1>1. cpu \in [CPUs -> CPUState] /\ cpu' = [cpu EXCEPT ![c].pc = l]
  BY DEF TypeOK, Goto
<1>2. cpu'[c] = [cpu[c] EXCEPT !.pc = l] /\ cpu[c] \in CPUState
  BY <1>1
<1>3. cpu'[c] \in CPUState
  BY <1>2 DEF CPUState
<1>4. QED
  BY <1>1, <1>2, <1>3 DEF Quiet, Same, CPUState

\* Leaving with a verdict.
LEMMA EmitStep ==
  ASSUME TypeOK, NEW c \in CPUs, NEW v \in Verdicts, Emit(c, v)
  PROVE  /\ Quiet(c) /\ Same(c) /\ cpu' \in [CPUs -> CPUState]
         /\ cpu'[c].pc = "idle" /\ cpu'[c].rec = cpu[c].rec /\ cpu'[c].out = v
         /\ cpu'[c].first = cpu[c].first /\ cpu'[c].raced = cpu[c].raced
<1>1. cpu \in [CPUs -> CPUState] /\ cpu' = [cpu EXCEPT ![c].pc = "idle", ![c].out = v]
  BY DEF TypeOK, Emit
<1>2. cpu'[c] = [cpu[c] EXCEPT !.pc = "idle", !.out = v] /\ cpu[c] \in CPUState
  BY <1>1
<1>3. cpu'[c] \in CPUState
  BY <1>2 DEF CPUState, PCs
<1>4. QED
  BY <1>1, <1>2, <1>3 DEF Quiet, Same, CPUState

\* Leaving with the provisional verdict of a flow being classified.
LEMMA EmitPendingStep ==
  ASSUME TypeOK, NEW c \in CPUs, EmitPending(c)
  PROVE  /\ Quiet(c) /\ Same(c) /\ cpu' \in [CPUs -> CPUState]
         /\ cpu'[c].pc = "idle" /\ cpu'[c].rec = Found(c)
         /\ cpu'[c].out = Snap(c).provisional
         /\ cpu'[c].first = cpu[c].first /\ cpu'[c].raced = cpu[c].raced
<1> DEFINE r == Found(c)
           v == Snap(c).provisional
<1>1. cpu \in [CPUs -> CPUState] /\ r \in Record /\ v \in Verdicts
  BY Typed DEF TypeOK
<1>2. cpu' = [cpu EXCEPT ![c].pc = "idle", ![c].rec = r, ![c].out = v]
  BY DEF EmitPending
<1> HIDE DEF r, v
<1>3. cpu'[c] = [cpu[c] EXCEPT !.pc = "idle", !.rec = r, !.out = v] /\ cpu[c] \in CPUState
  BY <1>1, <1>2
<1>4. cpu'[c] \in CPUState
  BY <1>1, <1>3 DEF CPUState, PCs
<1>5. QED
  BY <1>1, <1>2, <1>3, <1>4 DEF Quiet, Same, CPUState, r, v

\* Going on with a pointer to a record.
LEMMA PointStep ==
  ASSUME TypeOK, NEW c \in CPUs, NEW l \in PCs, Point(c, l)
  PROVE  /\ Quiet(c) /\ Same(c) /\ cpu' \in [CPUs -> CPUState]
         /\ cpu'[c].pc = l /\ cpu'[c].rec = Found(c) /\ cpu'[c].out = cpu[c].out
         /\ cpu'[c].first = cpu[c].first /\ cpu'[c].raced = cpu[c].raced
<1> DEFINE r == Found(c)
<1>1. cpu \in [CPUs -> CPUState] /\ r \in Record
  BY Typed DEF TypeOK
<1>2. cpu' = [cpu EXCEPT ![c].pc = l, ![c].rec = r]
  BY DEF Point
<1> HIDE DEF r
<1>3. cpu'[c] = [cpu[c] EXCEPT !.pc = l, !.rec = r] /\ cpu[c] \in CPUState
  BY <1>1, <1>2
<1>4. cpu'[c] \in CPUState
  BY <1>1, <1>3 DEF CPUState
<1>5. QED
  BY <1>1, <1>2, <1>3, <1>4 DEF Quiet, Same, CPUState, r

\* A new packet replaces the last one.
LEMMA ArriveStep ==
  ASSUME TypeOK, NEW c \in CPUs, NEW f \in Flows, Arrive(c, f)
  PROVE  /\ Quiet(c) /\ cpu' \in [CPUs -> CPUState]
         /\ cpu[c].pc = "idle" /\ cpu'[c].pc = "lookup"
         /\ cpu'[c].snap = version /\ cpu'[c].rec = Absent /\ cpu'[c].out = "none"
         /\ cpu'[c].first = FALSE
         /\ left' = left /\ flows' = flows /\ pending' = pending
<1> DEFINE new == [pc |-> "lookup", flow |-> f, snap |-> version, rec |-> Absent, out |-> "none",
                   first |-> FALSE, raced |-> FALSE]
<1>1. cpu' = [cpu EXCEPT ![c] = new]
  BY DEF Arrive
<1>2. new \in CPUState
  BY AbsentTyped DEF CPUState, PCs, TypeOK
<1>3. cpu'[c] = new /\ Quiet(c) /\ cpu' \in [CPUs -> CPUState]
  BY <1>1, <1>2 DEF TypeOK, Quiet
<1>4. QED
  BY <1>3 DEF Arrive, Here

\* The comparison finds out whether it races.
LEMMA CompareStep ==
  ASSUME TypeOK, NEW c \in CPUs, CompareGeneration(c)
  PROVE  /\ Quiet(c) /\ Same(c) /\ cpu' \in [CPUs -> CPUState]
         /\ cpu[c].pc = "compare"
         /\ cpu'[c].pc = IF cpu[c].rec.generation = Snap(c).generation THEN "read" ELSE "verdict"
         /\ cpu'[c].raced <=> cpu[c].rec.torn \/ Contended(c, {"tag"})
         /\ cpu'[c].rec = cpu[c].rec /\ cpu'[c].out = cpu[c].out /\ cpu'[c].first = cpu[c].first
         /\ left' = left /\ flows' = flows
<1> DEFINE l == IF cpu[c].rec.generation = Snap(c).generation THEN "read" ELSE "verdict"
           b == cpu[c].rec.torn \/ Contended(c, {"tag"})
<1>1. cpu \in [CPUs -> CPUState] /\ l \in PCs /\ b \in BOOLEAN
  BY Typed DEF TypeOK, PCs, Contended, Record
<1>2. cpu' = [cpu EXCEPT ![c].pc = l, ![c].raced = b] /\ cpu[c].pc = "compare"
      /\ left' = left /\ flows' = flows
  BY DEF CompareGeneration, Here
<1> HIDE DEF l, b
<1>3. cpu'[c] = [cpu[c] EXCEPT !.pc = l, !.raced = b] /\ cpu[c] \in CPUState
  BY <1>1, <1>2
<1>4. cpu'[c] \in CPUState
  BY <1>1, <1>3 DEF CPUState
<1>5. QED
  BY <1>1, <1>2, <1>3, <1>4 DEF Quiet, Same, CPUState, l, b

\* What a store leaves of each CPU.
LEMMA SeenIs ==
  ASSUME TypeOK, NEW c \in CPUs, NEW r \in Record, NEW spoilt, NEW d \in CPUs
  PROVE  /\ Seen(c, r, spoilt)[d] \in CPUState
         /\ Seen(c, r, spoilt)[d].pc = cpu[d].pc /\ Seen(c, r, spoilt)[d].flow = cpu[d].flow
         /\ Seen(c, r, spoilt)[d].snap = cpu[d].snap /\ Seen(c, r, spoilt)[d].out = cpu[d].out
         /\ Seen(c, r, spoilt)[d].first = cpu[d].first
         /\ d \in Sharers(c) =>
              /\ Seen(c, r, spoilt)[d].rec = r
              /\ Seen(c, r, spoilt)[d].raced <=> cpu[d].raced \/ d \in spoilt
         /\ d \notin Sharers(c) => Seen(c, r, spoilt)[d] = cpu[d]
<1> DEFINE x == Seen(c, r, spoilt)[d]
           b == cpu[d].raced \/ d \in spoilt
<1>1. cpu[d] \in CPUState
  BY Typed
<1>2. b \in BOOLEAN
  BY <1>1 DEF CPUState
<1>3. /\ d \in Sharers(c) => x = [cpu[d] EXCEPT !.rec = r, !.raced = b]
      /\ d \notin Sharers(c) => x = cpu[d]
  BY DEF Seen
<1> HIDE DEF x, b
<1>4. d \in Sharers(c) => x \in CPUState /\ x.rec = r /\ x.raced = b
        /\ x.pc = cpu[d].pc /\ x.flow = cpu[d].flow /\ x.snap = cpu[d].snap
        /\ x.out = cpu[d].out /\ x.first = cpu[d].first
  BY <1>1, <1>2, <1>3 DEF CPUState
<1>5. QED
  BY <1>1, <1>3, <1>4 DEF x, b

\* So after a store there are still CPUs.
LEMMA SeenTyped ==
  ASSUME TypeOK, NEW c \in CPUs, NEW r \in Record, NEW spoilt
  PROVE  Seen(c, r, spoilt) \in [CPUs -> CPUState]
<1> DEFINE x(d) == IF d \in Sharers(c)
                     THEN [cpu[d] EXCEPT !.rec = r, !.raced = @ \/ d \in spoilt] ELSE cpu[d]
<1>1. Seen(c, r, spoilt) = [d \in CPUs |-> x(d)]
  BY DEF Seen
<1>2. \A d \in CPUs : x(d) = Seen(c, r, spoilt)[d]
  BY <1>1
<1> HIDE DEF x
<1>3. ASSUME NEW d \in CPUs PROVE x(d) \in CPUState
  <2>1. Seen(c, r, spoilt)[d] \in CPUState
    BY SeenIs
  <2> QED
    BY <1>2, <2>1
<1>4. QED
  BY <1>1, <1>3

\* A CPU at one of the lines that use a record shares its own.
LEMMA SharesOwn == ASSUME NEW c \in CPUs, cpu[c].pc \in Using PROVE c \in Sharers(c)
BY DEF Sharers

\* The first store of the re-evaluation.
LEMMA StoreVerdictStep ==
  ASSUME TypeOK, NEW c \in CPUs, StoreVerdict(c)
  PROVE  /\ Others(c) /\ Same(c) /\ cpu' \in [CPUs -> CPUState] /\ left' = left
         /\ cpu[c].pc = "verdict" /\ cpu'[c].pc = "tag"
         /\ cpu'[c].rec = Renewed(c) /\ ~cpu'[c].raced
         /\ cpu'[c].out = cpu[c].out /\ cpu'[c].first = cpu[c].first
         /\ \A d \in CPUs \ {c} :
              /\ d \in Sharers(c) =>
                   /\ cpu'[d].rec = Renewed(c)
                   /\ cpu'[d].raced <=> cpu[d].raced \/ Snap(d).generation # Snap(c).generation
              /\ d \notin Sharers(c) => cpu'[d] = cpu[d]
<1> DEFINE spoilt == {d \in CPUs : Snap(d).generation # Snap(c).generation}
           seen   == Seen(c, Renewed(c), spoilt)
<1>1. /\ cpu' = [seen EXCEPT ![c].pc = "tag", ![c].raced = FALSE]
      /\ cpu[c].pc = "verdict" /\ left' = left
  BY DEF StoreVerdict, Renewed, Here
<1>2. Renewed(c) \in Record /\ c \in Sharers(c)
  BY <1>1, RenewedIs, SharesOwn DEF Using
<1>3. seen \in [CPUs -> CPUState]
  BY <1>2, SeenTyped
<1>4. /\ seen[c].flow = cpu[c].flow /\ seen[c].snap = cpu[c].snap /\ seen[c].rec = Renewed(c)
      /\ seen[c].out = cpu[c].out /\ seen[c].first = cpu[c].first
  BY <1>2, SeenIs
<1>5. ASSUME NEW d \in CPUs \ {c}
      PROVE  /\ seen[d].pc = cpu[d].pc /\ seen[d].flow = cpu[d].flow /\ seen[d].snap = cpu[d].snap
             /\ seen[d].out = cpu[d].out /\ seen[d].first = cpu[d].first
             /\ d \in Sharers(c) =>
                  /\ seen[d].rec = Renewed(c)
                  /\ seen[d].raced <=> cpu[d].raced \/ Snap(d).generation # Snap(c).generation
             /\ d \notin Sharers(c) => seen[d] = cpu[d]
  BY <1>2, SeenIs
<1> HIDE DEF seen
<1>6. cpu'[c] = [seen[c] EXCEPT !.pc = "tag", !.raced = FALSE] /\ \A d \in CPUs \ {c} : cpu'[d] = seen[d]
  BY <1>1, <1>3
<1>a. seen[c] \in CPUState
  BY <1>3
<1>7. cpu'[c] \in CPUState /\ cpu'[c].pc = "tag" /\ ~cpu'[c].raced /\ cpu'[c].flow = seen[c].flow
      /\ cpu'[c].snap = seen[c].snap /\ cpu'[c].rec = seen[c].rec /\ cpu'[c].out = seen[c].out
      /\ cpu'[c].first = seen[c].first
  BY <1>6, <1>a DEF CPUState, PCs
<1>8. cpu' \in [CPUs -> CPUState]
  BY <1>1, <1>3, <1>6, <1>7
<1>9. Others(c)
  BY <1>5, <1>6 DEF Others, Sharers
<1>10. QED
  BY <1>1, <1>4, <1>5, <1>6, <1>7, <1>8, <1>9 DEF Same

\* The second store of the re-evaluation.
LEMMA StoreGenerationStep ==
  ASSUME TypeOK, NEW c \in CPUs, StoreGeneration(c)
  PROVE  /\ Others(c) /\ Same(c) /\ cpu' \in [CPUs -> CPUState] /\ left' = left
         /\ cpu[c].pc = "tag" /\ cpu'[c].pc = "read"
         /\ cpu'[c].rec = Tagged(c) /\ (cpu'[c].raced <=> cpu[c].raced)
         /\ cpu'[c].out = cpu[c].out /\ cpu'[c].first = cpu[c].first
         /\ \A d \in CPUs \ {c} :
              /\ d \in Sharers(c) => cpu'[d].rec = Tagged(c) /\ (cpu'[d].raced <=> cpu[d].raced)
              /\ d \notin Sharers(c) => cpu'[d] = cpu[d]
<1> DEFINE seen == Seen(c, Tagged(c), {})
<1>1. cpu' = [seen EXCEPT ![c].pc = "read"] /\ cpu[c].pc = "tag" /\ left' = left
  BY DEF StoreGeneration, Tagged, Here
<1>2. Tagged(c) \in Record /\ c \in Sharers(c)
  BY <1>1, TaggedIs, SharesOwn DEF Using
<1>3. seen \in [CPUs -> CPUState]
  BY <1>2, SeenTyped
<1>4. /\ seen[c].flow = cpu[c].flow /\ seen[c].snap = cpu[c].snap /\ seen[c].rec = Tagged(c)
      /\ seen[c].out = cpu[c].out /\ seen[c].first = cpu[c].first
      /\ seen[c].raced <=> cpu[c].raced
  BY <1>2, SeenIs
<1>5. ASSUME NEW d \in CPUs \ {c}
      PROVE  /\ seen[d].pc = cpu[d].pc /\ seen[d].flow = cpu[d].flow /\ seen[d].snap = cpu[d].snap
             /\ seen[d].out = cpu[d].out /\ seen[d].first = cpu[d].first
             /\ d \in Sharers(c) => seen[d].rec = Tagged(c) /\ (seen[d].raced <=> cpu[d].raced)
             /\ d \notin Sharers(c) => seen[d] = cpu[d]
  BY <1>2, SeenIs
<1> HIDE DEF seen
<1>6. cpu'[c] = [seen[c] EXCEPT !.pc = "read"] /\ \A d \in CPUs \ {c} : cpu'[d] = seen[d]
  BY <1>1, <1>3
<1>7. cpu'[c] \in CPUState /\ cpu'[c].pc = "read" /\ cpu'[c].raced = seen[c].raced
      /\ cpu'[c].flow = seen[c].flow /\ cpu'[c].snap = seen[c].snap
      /\ cpu'[c].rec = seen[c].rec /\ cpu'[c].out = seen[c].out /\ cpu'[c].first = seen[c].first
  BY <1>3, <1>6 DEF CPUState, PCs
<1>8. cpu' \in [CPUs -> CPUState]
  BY <1>1, <1>3, <1>6, <1>7
<1>9. Others(c)
  BY <1>5, <1>6 DEF Others, Sharers
<1>10. QED
  BY <1>1, <1>4, <1>5, <1>6, <1>7, <1>8, <1>9 DEF Same

\* Leaving with the verdict of the record.
LEMMA ReadStep ==
  ASSUME TypeOK, NEW c \in CPUs, ReadVerdict(c)
  PROVE  /\ Quiet(c) /\ Same(c) /\ cpu' \in [CPUs -> CPUState]
         /\ cpu[c].pc = "read" /\ cpu'[c].pc = "idle"
         /\ cpu'[c].rec = cpu[c].rec /\ cpu'[c].out = cpu[c].rec.verdict
         /\ cpu'[c].first = cpu[c].first /\ cpu'[c].raced = cpu[c].raced
         /\ flows' = flows /\ left' = [left EXCEPT ![c] = {}]
<1>1. cpu[c].rec.verdict \in Verdicts
  BY Typed DEF Record
<1>2. Emit(c, cpu[c].rec.verdict)
  BY DEF ReadVerdict
<1>3. QED
  BY <1>1, <1>2, EmitStep DEF ReadVerdict, Here

\* The terminal update goes on to the release.
LEMMA ClassifiedStep ==
  ASSUME TypeOK, NEW c \in CPUs, Classified(c)
  PROVE  /\ Quiet(c) /\ Same(c) /\ cpu' \in [CPUs -> CPUState]
         /\ cpu'[c].pc = "release" /\ cpu'[c].rec = cpu[c].rec /\ cpu'[c].out = cpu[c].out
         /\ cpu'[c].first = TRUE
<1>1. cpu \in [CPUs -> CPUState] /\ cpu' = [cpu EXCEPT ![c].pc = "release", ![c].first = TRUE]
  BY DEF TypeOK, Classified
<1>2. cpu'[c] = [cpu[c] EXCEPT !.pc = "release", !.first = TRUE] /\ cpu[c] \in CPUState
  BY <1>1
<1>3. cpu'[c] \in CPUState
  BY <1>2 DEF CPUState, PCs
<1>4. QED
  BY <1>1, <1>2, <1>3 DEF Quiet, Same, CPUState

\* A step of one CPU leads to a line of the program, with a typed record, and
\* leaves every other CPU where it is; only a store changes what others see, and
\* only a new packet has another flow or snapshot.
LEMMA PacketStep ==
  ASSUME TypeOK, NEW c \in CPUs, Packet(c)
  PROVE  /\ Others(c) /\ cpu' \in [CPUs -> CPUState]
         /\ Quiet(c) \/ Store(c)
         /\ Same(c) \/ \E f \in Flows : Arrive(c, f)
<1> DEFINE Typing == cpu' \in [CPUs -> CPUState]
           Goal == Quiet(c) /\ Same(c) /\ Typing
<1> SUFFICES \/ Goal
             \/ Store(c) /\ Others(c) /\ Same(c) /\ Typing
             \/ (\E f \in Flows : Arrive(c, f)) /\ Quiet(c) /\ Typing
  BY QuietOthers
<1>1. \A l \in PCs : Goto(c, l) => Goal
  BY GotoStep
<1>2. \A v \in Verdicts : Emit(c, v) => Goal
  BY EmitStep
<1>3. \A l \in PCs : Point(c, l) => Goal
  BY PointStep
<1>4. (EmitPending(c) => Goal) /\ (Classified(c) => Goal)
  BY EmitPendingStep, ClassifiedStep
<1>5. PolicyVerdict(c, Unclassified) \in Verdicts /\ Snap(c).provisional \in Verdicts
  BY VerdictTyped, Typed
<1>6. CASE \E f \in Flows : Arrive(c, f)
  BY <1>6, ArriveStep
<1>7. CASE StoreVerdict(c) \/ StoreGeneration(c)
  BY <1>7, StoreVerdictStep, StoreGenerationStep DEF Store
<1>8. CASE CompareGeneration(c) \/ ReadVerdict(c)
  BY <1>8, CompareStep, ReadStep
<1> HIDE DEF Goal, Typing
<1>9. CASE LookupCached(c)
  BY <1>9, <1>1, <1>3, <1>4 DEF LookupCached, Pass, PCs
<1>10. CASE LookupMissing(c) \/ DeleteUnclassified(c) \/ Correlate(c) \/ Admit(c)
  BY <1>10, <1>1 DEF LookupMissing, DeleteUnclassified, Correlate, Pass, Admit, PCs
<1>11. CASE Reserve(c) \/ InsertPending(c) \/ UndoInsert(c)
  BY <1>11, <1>1 DEF Reserve, InsertPending, Admitted, UndoInsert, PCs
<1>12. CASE UpdateTerminal(c)
  BY <1>12, <1>1, <1>4 DEF UpdateTerminal, PCs
<1>13. CASE ReleasePending(c)
  BY <1>13, <1>2, <1>5 DEF ReleasePending
<1>14. CASE ShedInsert(c) \/ ShedExisting(c)
  BY <1>14, <1>1, <1>2, <1>3, <1>4, <1>5 DEF ShedInsert, ShedExisting, PCs
<1>15. QED
  BY <1>6, <1>7, <1>8, <1>9, <1>10, <1>11, <1>12, <1>13, <1>14 DEF Packet

\* The CPUs that hold a pointer to the record of a flow.
Holding(f) == {c \in CPUs : Attached(c) /\ Key(c) = f}

\* A packet's step detaches those CPUs when it removes the record, or one that has
\* read its verdict, or none.
LEMMA LeftStep ==
  ASSUME TypeOK, NEW c \in CPUs, Packet(c)
  PROVE  /\ \/ left' = left
            \/ Detach(Key(c)) /\ cpu[c].pc \notin Using /\ cpu'[c].pc \notin Using
            \/ left' = [left EXCEPT ![c] = {}] /\ cpu'[c].pc \notin Using
         /\ version' = version
<1>1. CASE ReadVerdict(c)
  BY <1>1, ReadStep DEF ReadVerdict, Using
<1>2. CASE DeleteUnclassified(c)
  BY <1>2, GotoStep DEF DeleteUnclassified, Here, Using, PCs
<1>3. CASE UndoInsert(c)
  BY <1>3, GotoStep DEF UndoInsert, Here, Using, PCs
<1>4. CASE UpdateTerminal(c)
  BY <1>4, ClassifiedStep DEF UpdateTerminal, Classified, Here, Using
<1>5. QED
  BY <1>1, <1>2, <1>3, <1>4 DEF Packet, Arrive, LookupCached, LookupMissing, CompareGeneration,
     StoreVerdict, StoreGeneration, Correlate, Admit, Reserve, InsertPending, ReleasePending,
     ShedInsert, ShedExisting

\* Detaching keeps the pointers' past typed.
LEMMA DetachStep ==
  ASSUME TypeOK, NEW f, Detach(f)
  PROVE  /\ left' \in [CPUs -> SUBSET CPUs]
         /\ \A c \in CPUs : left'[c] = IF c \in Holding(f) THEN Holding(f) ELSE left[c]
<1>1. left' = [c \in CPUs |-> IF c \in Holding(f) THEN Holding(f) ELSE left[c]]
  BY DEF Detach, Holding
<1>2. \A c \in CPUs : left[c] \in SUBSET CPUs /\ Holding(f) \in SUBSET CPUs
  BY Typed DEF Holding
<1>3. QED
  BY <1>1, <1>2

\* So the past of every pointer stays typed.
LEMMA LeftTyped ==
  ASSUME TypeOK, NEW c \in CPUs, Packet(c)
  PROVE  left' \in [CPUs -> SUBSET CPUs]
BY LeftStep, DetachStep DEF TypeOK

--------------------------------------------------------------------------------

\* A map update.
LEMMA PutStep ==
  ASSUME TypeOK, NEW c \in CPUs, NEW r, Put(c, r)
  PROVE  /\ flows'[Key(c)] = r
         /\ \A f \in Flows \ {Key(c)} : flows'[f] = flows[f]
BY Typed DEF Put, TypeOK

\* A store through a record pointer.
LEMMA WriteStep ==
  ASSUME TypeOK, NEW c \in CPUs, Store(c)
  PROVE  /\ \A f \in Flows \ {Key(c)} : flows'[f] = flows[f]
         /\ left[c] # {} => flows' = flows
         /\ left[c] = {} /\ StoreVerdict(c) => flows'[Key(c)] = Renewed(c)
         /\ left[c] = {} /\ StoreGeneration(c) => flows'[Key(c)] = Tagged(c)
<1>1. CASE StoreVerdict(c)
  <2>1. Write(c, Renewed(c))
    BY <1>1 DEF StoreVerdict, Renewed
  <2> QED
    BY <1>1, <2>1, PutStep DEF Write, StoreVerdict, StoreGeneration, Here
<1>2. CASE StoreGeneration(c)
  <2>1. Write(c, Tagged(c))
    BY <1>2 DEF StoreGeneration, Tagged
  <2> QED
    BY <1>2, <2>1, PutStep DEF Write, StoreVerdict, StoreGeneration, Here
<1>3. QED
  BY <1>1, <1>2 DEF Store

\* What a packet's step makes of the record of its own flow: nothing, a new record
\* where there was none, or another or none, with every pointer detached.
LEMMA FlowStep ==
  ASSUME TypeOK, NEW c \in CPUs, Packet(c)
  PROVE  /\ \A f \in Flows \ {Key(c)} : flows'[f] = flows[f]
         /\ flows' \in [Flows -> Record]
         /\ \/ Store(c)
            \/ flows' = flows /\ (left' = left \/ left' = [left EXCEPT ![c] = {}])
            \/ /\ Found(c) = Absent
               /\ \/ /\ Here(c, "insert")
                     /\ flows'[Key(c)] = NewRecord(c, "PENDING", Unclassified, Snap(c).provisional)
                     /\ cpu'[c].pc = "terminal"
                  \/ /\ Here(c, "correlate")
                     /\ flows'[Key(c)] = NewRecord(c, "UNCLASSIFIED_FINAL", Unclassified, "ALLOW")
                  \/ /\ Here(c, "shed")
                     /\ flows'[Key(c)] = NewRecord(c, "UNCLASSIFIED_FINAL", Unclassified,
                                                   PolicyVerdict(c, Unclassified))
               /\ left' = left /\ cpu[c].pc \notin Using /\ cpu'[c].pc \notin Using
            \/ Detach(Key(c)) /\ flows'[Key(c)] = Absent /\ cpu'[c].pc \in {"admit", "shed"}
            \/ Detach(Key(c)) /\ flows'[Key(c)] = Terminal(c) /\ Here(c, "terminal")
                              /\ cpu'[c].pc = "release"
<1> DEFINE Other == \A f \in Flows \ {Key(c)} : flows'[f] = flows[f]
           T == flows' \in [Flows -> Record]
<1>0. /\ flows' = flows => Other /\ T
      /\ \A r \in Record : Put(c, r) => Other /\ T /\ flows'[Key(c)] = r
  <2>1. flows \in [Flows -> Record]
    BY DEF TypeOK
  <2> QED
    BY <2>1, PutStep DEF Put
<1> HIDE DEF Other, T
<1>1. CASE Store(c)
  <2>1. Put(c, Renewed(c)) \/ Put(c, Tagged(c)) \/ flows' = flows
    BY <1>1 DEF Store, StoreVerdict, StoreGeneration, Write, Renewed, Tagged
  <2> QED
    BY <1>0, <1>1, <2>1, RenewedIs, TaggedIs DEF Other, T
<1>2. CASE DeleteUnclassified(c)
  BY <1>0, <1>2, AbsentTyped, GotoStep DEF DeleteUnclassified, Other, T, PCs
<1>3. CASE UndoInsert(c)
  BY <1>0, <1>3, AbsentTyped, GotoStep DEF UndoInsert, Other, T, PCs
<1>4. CASE UpdateTerminal(c)
  BY <1>0, <1>4, TerminalIs, ClassifiedStep DEF UpdateTerminal, Classified, Other, T, Here
<1>5. CASE Correlate(c)
  <2>1. NewRecord(c, "UNCLASSIFIED_FINAL", Unclassified, "ALLOW") \in Record
    BY NewRecordTyped DEF Verdicts
  <2>2. cpu'[c].pc = "idle"
    BY <1>5, GotoStep DEF Correlate, Pass, PCs
  <2> QED
    BY <1>0, <1>5, <2>1, <2>2 DEF Correlate, Insert, Other, T, Here, Using
<1>6. CASE InsertPending(c)
  <2>1. NewRecord(c, "PENDING", Unclassified, Snap(c).provisional) \in Record
    BY Typed, NewRecordTyped
  <2>2. Admitted(c) => cpu'[c].pc = "terminal"
    BY GotoStep DEF Admitted, PCs
  <2> QED
    BY <1>0, <1>6, <2>1, <2>2 DEF InsertPending, Admitted, Insert, Other, T, Here, Using
<1>7. CASE ShedInsert(c)
  <2>1. /\ NewRecord(c, "UNCLASSIFIED_FINAL", Unclassified, PolicyVerdict(c, Unclassified)) \in Record
        /\ PolicyVerdict(c, Unclassified) \in Verdicts
    BY NewRecordTyped, VerdictTyped
  <2>2. Emit(c, PolicyVerdict(c, Unclassified)) => cpu'[c].pc = "idle"
    BY <2>1, EmitStep
  <2> QED
    BY <1>0, <1>7, <2>1, <2>2 DEF ShedInsert, Insert, Other, T, Here, Using
<1>8. QED
  BY <1>0, <1>1, <1>2, <1>3, <1>4, <1>5, <1>6, <1>7 DEF Packet, Arrive, LookupCached, LookupMissing,
     CompareGeneration, ReadVerdict, Admit, Reserve, ReleasePending, ShedExisting, Store, Other, T

--------------------------------------------------------------------------------
(* Reservations.                                                           *)

\* Where a CPU holds a reservation of the pending count.
Reserving == {"insert", "terminal", "release"}
Holders   == {c \in CPUs : cpu[c].pc \in Reserving}

\* Finitely many CPUs hold a reservation.
LEMMA HoldersFinite == IsFiniteSet(Holders)
<1>1. Holders \subseteq CPUs
  BY DEF Holders
<1>2. QED
  BY <1>1, CPUAssumption, FS_Subset

\* Each step of a CPU changes the count the way it changes who holds a
\* reservation, and takes one only below the limit of the packet's own snapshot.
LEMMA HoldersStep ==
  ASSUME TypeOK, NEW c \in CPUs, Packet(c)
  PROVE  \/ pending' = pending /\ (cpu[c].pc \in Reserving <=> cpu'[c].pc \in Reserving)
         \/ /\ pending' = pending + 1 /\ pending < Snap(c).limit
            /\ cpu[c].pc \notin Reserving /\ cpu'[c].pc \in Reserving
         \/ pending' = pending - 1 /\ cpu[c].pc \in Reserving /\ cpu'[c].pc \notin Reserving
<1> USE GotoStep, EmitPendingStep, PointStep DEF Here, Reserving, PCs
<1>0. \A v \in {PolicyVerdict(c, Unclassified), Snap(c).provisional} : Emit(c, v) => cpu'[c].pc = "idle"
  BY EmitStep, VerdictTyped, Typed
<1>1. CASE \E f \in Flows : Arrive(c, f)
  <2>1. PICK f \in Flows : Arrive(c, f)
    BY <1>1
  <2>2. cpu'[c].pc = "lookup" /\ cpu[c].pc = "idle" /\ pending' = pending
    BY <2>1, ArriveStep
  <2> QED
    BY <2>2
<1>2. CASE LookupCached(c)
  BY <1>2 DEF LookupCached, Pass
<1>3. CASE LookupMissing(c) \/ Admit(c) \/ Correlate(c) \/ DeleteUnclassified(c)
  BY <1>3 DEF LookupMissing, Admit, Correlate, Pass, DeleteUnclassified
<1>4. CASE CompareGeneration(c)
  <2>1. cpu[c].pc = "compare" /\ cpu'[c].pc \in {"read", "verdict"}
    BY <1>4, CompareStep
  <2>2. pending' = pending
    BY <1>4 DEF CompareGeneration
  <2> QED
    BY <2>1, <2>2
<1>5. CASE StoreVerdict(c)
  BY <1>5, StoreVerdictStep DEF StoreVerdict
<1>6. CASE StoreGeneration(c)
  BY <1>6, StoreGenerationStep DEF StoreGeneration
<1>7. CASE ReadVerdict(c)
  BY <1>7, ReadStep DEF ReadVerdict
<1>8. CASE Reserve(c)
  BY <1>8 DEF Reserve
<1>9. CASE InsertPending(c)
  BY <1>9 DEF InsertPending, Admitted
<1>10. CASE UpdateTerminal(c)
  <2>1. CASE Classified(c)
    BY <1>10, <2>1, ClassifiedStep DEF UpdateTerminal, Classified
  <2>2. CASE ~Classified(c)
    BY <1>10, <2>2 DEF UpdateTerminal
  <2> QED
    BY <2>1, <2>2
<1>11. CASE UndoInsert(c)
  BY <1>11 DEF UndoInsert
<1>12. CASE ReleasePending(c)
  BY <1>0, <1>12 DEF ReleasePending
<1>13. CASE ShedInsert(c) \/ ShedExisting(c)
  BY <1>0, <1>13 DEF ShedInsert, ShedExisting
<1>14. QED
  BY <1>1, <1>2, <1>3, <1>4, <1>5, <1>6, <1>7, <1>8, <1>9, <1>10, <1>11, <1>12, <1>13 DEF Packet

\* So the count stays the number of holders.
LEMMA CountKept ==
  ASSUME TypeOK, PendingConserved, NEW c \in CPUs, Packet(c)
  PROVE  PendingConserved' /\ pending' \in Nat
<1> DEFINE before == Holders \ {c}
<1>1. pending = Cardinality(Holders) /\ IsFiniteSet(Holders) /\ IsFiniteSet(before)
  BY HoldersFinite, FS_RemoveElement DEF PendingConserved, Holders, Reserving
<1>2. Holders = IF cpu[c].pc \in Reserving THEN before \cup {c} ELSE before
  BY DEF Holders
<1>3. Holders' = IF cpu'[c].pc \in Reserving THEN before \cup {c} ELSE before
  BY PacketStep DEF Holders, Others
<1>4. Cardinality(before) \in Nat /\ Cardinality(before \cup {c}) = Cardinality(before) + 1
  BY <1>1, FS_AddElement, FS_CardinalityType
<1>5. pending' = Cardinality(Holders') /\ pending' \in Nat
  <2> HIDE DEF before
  <2>1. CASE pending' = pending /\ (cpu[c].pc \in Reserving <=> cpu'[c].pc \in Reserving)
    <3>1. Holders' = Holders
      BY <2>1, <1>2, <1>3
    <3> QED
      BY <2>1, <3>1, <1>1, FS_CardinalityType
  <2>2. CASE pending' = pending + 1 /\ cpu[c].pc \notin Reserving /\ cpu'[c].pc \in Reserving
    BY <2>2, <1>1, <1>2, <1>3, <1>4
  <2>3. CASE pending' = pending - 1 /\ cpu[c].pc \in Reserving /\ cpu'[c].pc \notin Reserving
    BY <2>3, <1>1, <1>2, <1>3, <1>4
  <2> QED
    BY <2>1, <2>2, <2>3, HoldersStep
<1>6. QED
  BY <1>5 DEF PendingConserved, Holders, Reserving

\* Some published snapshot allows the count; every packet's snapshot is one.
WithinLimit   == \E v \in 1..version : pending <= Snapshots[v].limit
SnapPublished == \A c \in CPUs : cpu[c].snap <= version

\* Every snapshot has a limit.
LEMMA LimitTyped == \A v \in Versions : Snapshots[v].limit \in Nat
<1>1. \A v \in Versions : Snapshots[v] \in Snapshot
  BY SnapshotAssumption DEF Versions
<1>2. QED
  BY <1>1 DEF Snapshot

\* So the count stays within a limit, whichever snapshot the packet copied.
LEMMA LimitKept ==
  ASSUME TypeOK, WithinLimit, SnapPublished, NEW c \in CPUs, Packet(c)
  PROVE  WithinLimit'
<1>1. version' = version /\ pending \in Nat
  BY LeftStep DEF TypeOK
<1>2. \A v \in 1..version : Snapshots[v].limit \in Nat
  <2>1. version \in 1..Len(Snapshots) /\ Len(Snapshots) \in Nat
    BY SnapshotAssumption DEF TypeOK, Versions
  <2>2. 1..version \subseteq Versions
    BY <2>1 DEF Versions
  <2>. QED  BY <2>2, LimitTyped
<1>3. PICK v \in 1..version : pending <= Snapshots[v].limit
  BY DEF WithinLimit
<1>4. CASE pending' = pending \/ pending' = pending - 1
  BY <1>1, <1>2, <1>3, <1>4 DEF WithinLimit
<1>5. CASE pending' = pending + 1 /\ pending < Snap(c).limit
  <2>1. cpu[c].snap \in 1..version
    BY Typed DEF SnapPublished, CPUState, Versions, TypeOK
  <2>2. pending' <= Snapshots[cpu[c].snap].limit
    BY <1>1, <1>2, <1>5, <2>1 DEF Snap
  <2>. QED  BY <1>1, <2>1, <2>2 DEF WithinLimit
<1>6. QED
  BY <1>4, <1>5, HoldersStep

--------------------------------------------------------------------------------
(* Owners of pending flows.                                                *)

\* Where a CPU is answerable for a pending record.
Owning == {"terminal", "undo"}

\* Every line that the owner of a pending record goes to from there owns it, or
\* follows the removal of the record.
LEMMA OwnerMoves ==
  ASSUME TypeOK, NEW c \in CPUs, Packet(c), cpu[c].pc \in Owning
  PROVE  \/ cpu'[c].pc \in Owning /\ flows' = flows
         \/ flows'[Key(c)].state # "PENDING"
<1>1. CASE UpdateTerminal(c)
  <2>1. Classified(c) => flows'[Key(c)] = Terminal(c)
    BY PutStep DEF Classified
  <2> QED
    BY <1>1, <2>1, TerminalIs, GotoStep DEF UpdateTerminal, Owning, PCs
<1>2. CASE UndoInsert(c)
  BY <1>2, PutStep DEF UndoInsert, Absent
<1>3. QED
  BY <1>1, <1>2, ArriveStep, CompareStep, StoreVerdictStep, StoreGenerationStep, ReadStep
     DEF Packet, LookupCached, LookupMissing, DeleteUnclassified, Correlate, Admit, Reserve,
     InsertPending, ReleasePending, ShedInsert, ShedExisting, Here, Owning

\* So pending flows keep an owner.
LEMMA OwnersKept ==
  ASSUME TypeOK, PendingHasOwner, NEW c \in CPUs, Packet(c),
         \A d \in CPUs : Attached(d) => cpu[d].rec = Found(d)
  PROVE  PendingHasOwner'
<1> SUFFICES ASSUME NEW f \in Flows, flows'[f].state = "PENDING"
             PROVE  \E d \in CPUs : cpu'[d].flow = f /\ cpu'[d].pc \in Owning
  BY DEF PendingHasOwner, Key, Owning
<1>1. CASE flows[f].state = "PENDING"
  <2>1. PICK d \in CPUs : cpu[d].flow = f /\ cpu[d].pc \in Owning
    BY <1>1 DEF PendingHasOwner, Key, Owning
  <2>2. CASE d # c
    BY <2>1, <2>2, PacketStep DEF Others
  <2>3. CASE d = c
    <3>1. cpu'[c].pc \in Owning
      BY <2>1, <2>3, OwnerMoves DEF Key
    <3>2. Same(c)
      BY <2>1, <2>3, PacketStep, ArriveStep DEF Owning
    <3> QED
      BY <2>1, <2>3, <3>1, <3>2 DEF Same
  <2> QED
    BY <2>2, <2>3
<1>2. CASE flows[f].state # "PENDING"
  <2>1. f = Key(c) /\ flows' # flows
    BY <1>2, FlowStep
  <2>2. ~Store(c)
    <3>1. SUFFICES ASSUME Store(c) PROVE FALSE
      OBVIOUS
    <3>2. cpu[c].pc \in Using /\ left[c] = {}
      BY <2>1, <3>1, WriteStep, StoreVerdictStep, StoreGenerationStep DEF Store, Using
    <3>3. cpu[c].rec = flows[f]
      BY <2>1, <3>2 DEF Attached, Found
    <3> QED
      BY <1>2, <2>1, <3>1, <3>2, <3>3, WriteStep, RenewedIs, TaggedIs DEF Store
  <2>3. cpu'[c].pc = "terminal" /\ Here(c, "insert")
    <3>1. Absent.state # "PENDING" /\ Terminal(c).state # "PENDING"
      BY TerminalIs DEF Absent
    <3>2. \A v : NewRecord(c, "UNCLASSIFIED_FINAL", Unclassified, v).state # "PENDING"
      BY DEF NewRecord
    <3> QED
      BY <2>1, <2>2, <3>1, <3>2, FlowStep
  <2>4. Same(c)
    BY <2>3, PacketStep, ArriveStep DEF Here
  <2> QED
    BY <2>1, <2>3, <2>4 DEF Same, Key, Owning
<1>3. QED
  BY <1>1, <1>2

--------------------------------------------------------------------------------
(* What a CPU has at each line.                                            *)

\* Only a classified record has a class of its own.
Proper(r) == r.state # "CLASSIFIED" => r.class = Unclassified
FlowsProper == \A f \in Flows : Proper(flows[f])

\* A packet uses a terminal record only; whose classification fails has no class;
\* it has no verdict before it leaves; it was the first of its flow once its
\* terminal update is in; and only under enforcement does it do more than correlate.
Line(x) ==
  /\ Proper(x.rec)
  /\ x.pc \in Using => x.rec.state \in {"CLASSIFIED", "UNCLASSIFIED_FINAL"}
  /\ x.pc \notin Using \cup {"idle"} => x.rec.state \in {"ABSENT", "UNCLASSIFIED_FINAL"}
  /\ x.pc # "idle" => x.out = "none" /\ (x.first <=> x.pc = "release")
  /\ x.pc \notin {"idle", "lookup", "correlate"} => Snapshots[x.snap].enforcing
  /\ x.pc = "correlate" => ~Snapshots[x.snap].enforcing
LinesKept == \A c \in CPUs : Line(cpu[c])

\* The program inserts proper records, and its stores change no class.
LEMMA FlowsProperKept ==
  ASSUME TypeOK, FlowsProper, LinesKept, NEW c \in CPUs, Packet(c)
  PROVE  FlowsProper'
<1> SUFFICES Proper(flows'[Key(c)])
  BY FlowStep DEF FlowsProper
<1>1. Proper(Absent) /\ Proper(Terminal(c))
  BY TerminalIs DEF Proper, Absent
<1>2. \A state, v : state # "CLASSIFIED" => Proper(NewRecord(c, state, Unclassified, v))
  BY DEF Proper, NewRecord
<1>3. CASE Store(c)
  <2>1. Proper(Found(c)) /\ Proper(Renewed(c)) /\ Proper(Tagged(c))
    BY Typed, RenewedIs, TaggedIs DEF LinesKept, Line, Proper, FlowsProper, Found
  <2>2. flows'[Key(c)] \in {Found(c), Renewed(c), Tagged(c)}
    BY <1>3, WriteStep DEF Store, Found
  <2> QED
    BY <2>1, <2>2
<1>4. CASE flows' = flows
  BY <1>4, Typed DEF FlowsProper
<1>5. QED
  BY <1>1, <1>2, <1>3, <1>4, FlowStep

\* A jump within the classification of a packet keeps what it has there.
LEMMA GotoLine ==
  ASSUME TypeOK, NEW c \in CPUs, Line(cpu[c]), NEW l \in PCs \ (Using \cup {"release"}), Goto(c, l),
         cpu[c].pc \notin Using \cup {"idle", "release"},
         IF l = "correlate" THEN ~Snap(c).enforcing ELSE l = "idle" \/ Snap(c).enforcing
  PROVE  Line(cpu'[c])
<1>1. /\ cpu'[c].pc = l /\ cpu'[c].rec = cpu[c].rec /\ cpu'[c].out = cpu[c].out
      /\ cpu'[c].first = cpu[c].first /\ cpu'[c].snap = cpu[c].snap
  BY GotoStep DEF Same
<1>2. QED
  BY <1>1 DEF Line, Snap

\* Each line leaves its packet with what the next one takes.
LEMMA OwnLine ==
  ASSUME TypeOK, FlowsProper, NEW c \in CPUs, Line(cpu[c]), Packet(c)
  PROVE  Line(cpu'[c])
<1>1. Proper(Found(c)) /\ Proper(Absent)
  BY Typed DEF FlowsProper, Found, Proper, Absent
<1>2. ASSUME cpu'[c].pc = "idle", Proper(cpu'[c].rec)
      PROVE  Line(cpu'[c])
  BY <1>2 DEF Line, Using
<1>3. ASSUME NEW v \in Verdicts, Emit(c, v)
      PROVE  Line(cpu'[c])
  BY <1>2, <1>3, EmitStep DEF Line
<1>4. EmitPending(c) => Line(cpu'[c])
  BY <1>1, <1>2, EmitPendingStep
<1>5. ASSUME Point(c, "compare"), Found(c).state \in {"CLASSIFIED", "UNCLASSIFIED_FINAL"},
             Here(c, "lookup") \/ Here(c, "existing"), Snap(c).enforcing
      PROVE  Line(cpu'[c])
  <2>1. /\ cpu'[c].pc = "compare" /\ cpu'[c].rec = Found(c) /\ cpu'[c].out = cpu[c].out
        /\ cpu'[c].first = cpu[c].first /\ cpu'[c].snap = cpu[c].snap
    BY <1>5, PointStep DEF Same, PCs
  <2> QED
    BY <1>1, <1>5, <2>1 DEF Line, Here, Snap, Using
<1>6. CASE \E f \in Flows : Arrive(c, f)
  <2>1. PICK f \in Flows : Arrive(c, f)
    BY <1>6
  <2>2. cpu'[c].pc = "lookup" /\ cpu'[c].rec = Absent /\ cpu'[c].out = "none" /\ ~cpu'[c].first
    BY <2>1, ArriveStep
  <2> QED
    BY <1>1, <2>2 DEF Line, Using, Absent
<1>7. CASE LookupCached(c)
  <2>1. CASE Point(c, "delete") /\ Found(c).state = "UNCLASSIFIED_FINAL" /\ Snap(c).enforcing
    <3>1. /\ cpu'[c].pc = "delete" /\ cpu'[c].rec = Found(c) /\ cpu'[c].out = cpu[c].out
          /\ cpu'[c].first = cpu[c].first /\ cpu'[c].snap = cpu[c].snap
      BY <2>1, PointStep DEF Same, PCs
    <3> QED
      BY <1>1, <1>7, <2>1, <3>1 DEF LookupCached, Line, Here, Snap, Using
  <2>2. CASE Pass(c)
    BY <1>7, <2>2, GotoLine DEF LookupCached, Pass, Here, PCs, Using
  <2> QED
    BY <1>4, <1>5, <1>7, <2>1, <2>2 DEF LookupCached
<1>8. CASE LookupMissing(c)
  BY <1>8, GotoLine DEF LookupMissing, Here, PCs, Using
<1>9. CASE CompareGeneration(c)
  <2>1. /\ cpu[c].pc = "compare" /\ cpu'[c].pc \in {"read", "verdict"} /\ cpu'[c].rec = cpu[c].rec
        /\ cpu'[c].out = cpu[c].out /\ cpu'[c].first = cpu[c].first /\ cpu'[c].snap = cpu[c].snap
    BY <1>9, CompareStep DEF Same
  <2> QED
    BY <2>1 DEF Line, Using
<1>10. CASE StoreVerdict(c)
  <2>1. /\ cpu[c].pc = "verdict" /\ cpu'[c].pc = "tag" /\ cpu'[c].rec = Renewed(c)
        /\ cpu'[c].out = cpu[c].out /\ cpu'[c].first = cpu[c].first /\ cpu'[c].snap = cpu[c].snap
    BY <1>10, StoreVerdictStep DEF Same
  <2> QED
    BY <2>1, RenewedIs DEF Line, Using, Proper
<1>11. CASE StoreGeneration(c)
  <2>1. /\ cpu[c].pc = "tag" /\ cpu'[c].pc = "read" /\ cpu'[c].rec = Tagged(c)
        /\ cpu'[c].out = cpu[c].out /\ cpu'[c].first = cpu[c].first /\ cpu'[c].snap = cpu[c].snap
    BY <1>11, StoreGenerationStep DEF Same
  <2> QED
    BY <2>1, TaggedIs DEF Line, Using, Proper
<1>12. CASE ReadVerdict(c)
  BY <1>2, <1>12, ReadStep DEF Line
<1>13. CASE DeleteUnclassified(c)
  BY <1>13, GotoLine DEF DeleteUnclassified, Here, PCs, Using, Line, Snap
<1>14. CASE Correlate(c)
  BY <1>14, GotoLine DEF Correlate, Pass, Here, PCs, Using
<1>15. CASE Admit(c)
  BY <1>15, GotoLine DEF Admit, Here, PCs, Using, Line, Snap
<1>16. CASE Reserve(c)
  BY <1>16, GotoLine DEF Reserve, Here, PCs, Using, Line, Snap
<1>17. CASE InsertPending(c)
  BY <1>17, GotoLine DEF InsertPending, Admitted, Here, PCs, Using, Line, Snap
<1>18. CASE UpdateTerminal(c)
  <2>1. CASE Classified(c)
    <3>1. /\ cpu'[c].pc = "release" /\ cpu'[c].rec = cpu[c].rec /\ cpu'[c].out = cpu[c].out
          /\ cpu'[c].first /\ cpu'[c].snap = cpu[c].snap
      BY <2>1, ClassifiedStep DEF Same
    <3> QED
      BY <1>18, <3>1 DEF UpdateTerminal, Here, Line, Using
  <2>2. CASE Goto(c, "undo")
    BY <1>18, <2>2, GotoLine DEF UpdateTerminal, Here, PCs, Using, Line, Snap
  <2> QED
    BY <1>18, <2>1, <2>2 DEF UpdateTerminal
<1>19. CASE ReleasePending(c)
  BY <1>3, <1>19, Typed DEF ReleasePending
<1>20. CASE UndoInsert(c)
  BY <1>20, GotoLine DEF UndoInsert, Here, PCs, Using, Line, Snap
<1>21. CASE ShedInsert(c)
  <2>1. CASE Goto(c, "existing")
    BY <1>21, <2>1, GotoLine DEF ShedInsert, Here, PCs, Using, Line, Snap
  <2>2. CASE Emit(c, PolicyVerdict(c, Unclassified))
    BY <1>3, <2>2, VerdictTyped
  <2> QED
    BY <1>21, <2>1, <2>2 DEF ShedInsert
<1>22. CASE ShedExisting(c)
  <2>1. Snap(c).enforcing
    BY <1>22 DEF ShedExisting, Here, Line, Snap
  <2>2. Emit(c, PolicyVerdict(c, Unclassified)) => Line(cpu'[c])
    BY <1>3, VerdictTyped
  <2> QED
    BY <1>4, <1>5, <1>22, <2>1, <2>2 DEF ShedExisting
<1>23. QED
  BY <1>6, <1>7, <1>8, <1>9, <1>10, <1>11, <1>12, <1>13, <1>14, <1>15, <1>16, <1>17, <1>18, <1>19,
     <1>20, <1>21, <1>22 DEF Packet

--------------------------------------------------------------------------------
(* Pointers.                                                               *)

\* Two CPUs point at one record.
Share(c, d) ==
  cpu[c].pc \in Using /\ cpu[d].pc \in Using /\ Key(d) = Key(c) /\ left[d] = left[c]

\* What a CPU points at is the flow's record, while that is in the map; CPUs that
\* share a record see the same; and those that did so when it left the map know
\* one another, as long as they use it.
Mirrored     == \A c \in CPUs : Attached(c) => cpu[c].rec = Found(c)
Shared       == \A c, d \in CPUs : Share(c, d) => cpu[c].rec = cpu[d].rec
LeftTogether == \A c \in CPUs : left[c] # {} => cpu[c].pc \in Using /\ c \in left[c]

\* Only a lookup brings a CPU to the lines that use a record.
LEMMA UsingStep ==
  ASSUME TypeOK, NEW c \in CPUs, Packet(c), cpu'[c].pc \in Using
  PROVE  /\ Same(c) /\ left' = left
         /\ \/ /\ Point(c, "compare") /\ Quiet(c) /\ flows' = flows
               /\ cpu[c].pc \notin Using /\ cpu'[c].pc = "compare" /\ cpu'[c].rec = Found(c)
            \/ CompareGeneration(c)
            \/ Store(c)
<1> USE GotoStep, EmitPendingStep, PointStep DEF Here, Using, PCs
<1>0. \A v \in {PolicyVerdict(c, Unclassified), Snap(c).provisional} : Emit(c, v) => cpu'[c].pc = "idle"
  BY EmitStep, VerdictTyped, Typed
<1>1. CASE \E f \in Flows : Arrive(c, f)
  BY <1>1, ArriveStep
<1>2. CASE LookupCached(c)
  BY <1>2 DEF LookupCached, Pass
<1>3. CASE LookupMissing(c) \/ Admit(c) \/ Correlate(c) \/ DeleteUnclassified(c)
  BY <1>3 DEF LookupMissing, Admit, Correlate, Pass, DeleteUnclassified
<1>4. CASE CompareGeneration(c) \/ StoreVerdict(c) \/ StoreGeneration(c)
  BY <1>4, CompareStep, StoreVerdictStep, StoreGenerationStep DEF Store
<1>5. CASE ReadVerdict(c)
  BY <1>5, ReadStep
<1>6. CASE Reserve(c) \/ InsertPending(c) \/ UndoInsert(c)
  BY <1>6 DEF Reserve, InsertPending, Admitted, UndoInsert
<1>7. CASE UpdateTerminal(c)
  BY <1>7, ClassifiedStep DEF UpdateTerminal
<1>8. CASE ReleasePending(c)
  BY <1>0, <1>8 DEF ReleasePending
<1>9. CASE ShedInsert(c) \/ ShedExisting(c)
  BY <1>0, <1>9 DEF ShedInsert, ShedExisting
<1>10. QED
  BY <1>1, <1>2, <1>3, <1>4, <1>5, <1>6, <1>7, <1>8, <1>9 DEF Packet

\* From those lines a CPU compares, stores or reads.
LEMMA UsedBy ==
  ASSUME TypeOK, NEW c \in CPUs, Packet(c), cpu[c].pc \in Using
  PROVE  CompareGeneration(c) \/ Store(c) \/ ReadVerdict(c)
<1>1. ~\E f \in Flows : Arrive(c, f)
  BY ArriveStep DEF Using
<1>2. QED
  BY <1>1 DEF Packet, LookupCached, LookupMissing, DeleteUnclassified, Correlate, Admit, Reserve,
     InsertPending, UpdateTerminal, ReleasePending, UndoInsert, ShedInsert, ShedExisting, Store, Here, Using

\* Removing a record parts no CPUs that share one, and joins no others.
LEMMA DetachShares ==
  ASSUME TypeOK, LeftTogether, NEW f, Detach(f), NEW d \in CPUs, NEW e \in CPUs,
         cpu[d].pc \in Using, cpu[e].pc \in Using, Key(d) = Key(e)
  PROVE  /\ left'[d] = left'[e] <=> left[d] = left[e]
         /\ left'[d] = {} => left[d] = {} /\ Key(d) # f
<1>1. \A x \in CPUs : left'[x] = IF x \in Holding(f) THEN Holding(f) ELSE left[x]
  BY DetachStep
<1>2. \A x \in CPUs : x \in Holding(f) <=> cpu[x].pc \in Using /\ left[x] = {} /\ Key(x) = f
  BY DEF Holding, Attached
<1>3. ASSUME NEW x \in CPUs, NEW y \in CPUs, x \in Holding(f), y \notin Holding(f),
             Key(x) = Key(y), cpu[y].pc \in Using
      PROVE  left'[x] # left'[y] /\ left[x] # left[y]
  <2>1. left'[x] = Holding(f) /\ left'[y] = left[y] /\ left[x] = {} /\ left[y] # {}
    BY <1>1, <1>2, <1>3
  <2>2. y \in left[y]
    BY <2>1 DEF LeftTogether
  <2> QED
    BY <1>3, <2>1, <2>2
<1>4. CASE d \in Holding(f) /\ e \in Holding(f)
  BY <1>1, <1>2, <1>4
<1>5. CASE d \in Holding(f) /\ e \notin Holding(f)
  BY <1>1, <1>2, <1>3, <1>5
<1>6. CASE d \notin Holding(f) /\ e \in Holding(f)
  BY <1>1, <1>2, <1>3, <1>6
<1>7. CASE d \notin Holding(f) /\ e \notin Holding(f)
  BY <1>1, <1>2, <1>7
<1>8. QED
  BY <1>4, <1>5, <1>6, <1>7

\* So a packet's step changes nothing of what two other CPUs share.
LEMMA ShareStep ==
  ASSUME TypeOK, LeftTogether, NEW c \in CPUs, Packet(c),
         NEW d \in CPUs \ {c}, NEW e \in CPUs \ {c}
  PROVE  Share(d, e)' <=> Share(d, e)
<1>1. /\ cpu'[d].pc = cpu[d].pc /\ cpu'[d].flow = cpu[d].flow
      /\ cpu'[e].pc = cpu[e].pc /\ cpu'[e].flow = cpu[e].flow
  BY PacketStep DEF Others
<1>2. CASE left' = left \/ left' = [left EXCEPT ![c] = {}]
  BY <1>1, <1>2 DEF Share, Key, TypeOK
<1>3. CASE Detach(Key(c))
  BY <1>1, <1>3, DetachShares DEF Share, Key
<1>4. QED
  BY <1>2, <1>3, LeftStep

\* Nor does it attach another CPU, and it detaches those at a record it removes.
LEMMA AttachedStep ==
  ASSUME TypeOK, LeftTogether, NEW c \in CPUs, Packet(c), NEW d \in CPUs \ {c}, Attached(d)'
  PROVE  Attached(d) /\ (Detach(Key(c)) => Key(d) # Key(c))
<1>1. cpu'[d].pc = cpu[d].pc /\ cpu[d].pc \in Using /\ left'[d] = {}
  BY PacketStep DEF Others, Attached
<1>2. CASE Detach(Key(c))
  BY <1>1, <1>2, DetachShares DEF Attached
<1>3. CASE ~Detach(Key(c))
  BY <1>1, <1>3, LeftStep DEF Attached, TypeOK
<1>4. QED
  BY <1>2, <1>3

\* The store reaches what the CPU and those that share its record point at.
LEMMA StoreReaches ==
  ASSUME TypeOK, NEW c \in CPUs, Store(c)
  PROVE  \E r \in {Renewed(c), Tagged(c)} :
           /\ \A d \in CPUs : IF Share(c, d) THEN cpu'[d].rec = r ELSE cpu'[d] = cpu[d]
           /\ IF left[c] = {} THEN flows'[Key(c)] = r ELSE flows' = flows
           /\ Share(c, c) /\ Same(c) /\ left' = left /\ Others(c) /\ cpu'[c].pc \in Using
<1>1. \A d \in CPUs : d \in Sharers(c) /\ cpu[c].pc \in Using <=> Share(c, d)
  BY DEF Sharers, Share
<1>2. CASE StoreVerdict(c)
  BY <1>1, <1>2, WriteStep, StoreVerdictStep DEF Using, Share
<1>3. CASE StoreGeneration(c)
  BY <1>1, <1>3, WriteStep, StoreGenerationStep DEF Using, Share
<1>4. QED
  BY <1>2, <1>3 DEF Store

\* A CPU that points at a flow's record sees what the map holds.
LEMMA MirroredKept ==
  ASSUME TypeOK, Mirrored, LeftTogether, LinesKept, NEW c \in CPUs, Packet(c)
  PROVE  Mirrored'
<1> SUFFICES ASSUME NEW d \in CPUs, Attached(d)'
             PROVE  cpu'[d].rec = flows'[cpu'[d].flow]
  BY DEF Mirrored, Found, Key
<1>1. CASE Store(c)
  <2>1. PICK r \in {Renewed(c), Tagged(c)} :
           /\ \A x \in CPUs : IF Share(c, x) THEN cpu'[x].rec = r ELSE cpu'[x] = cpu[x]
           /\ IF left[c] = {} THEN flows'[Key(c)] = r ELSE flows' = flows
           /\ Share(c, c) /\ Same(c) /\ left' = left /\ Others(c)
    BY <1>1, StoreReaches
  <2>2. left[d] = {} /\ cpu'[d].flow = Key(d) /\ cpu[d].pc \in Using
    BY <2>1, PacketStep DEF Attached, Others, Same, Key, Share
  <2>3. CASE Share(c, d)
    BY <2>1, <2>2, <2>3 DEF Share
  <2>4. CASE ~Share(c, d)
    <3>1. cpu'[d] = cpu[d] /\ cpu[d].rec = flows[Key(d)]
      BY <2>1, <2>2, <2>4 DEF Mirrored, Attached, Found
    <3>2. flows'[Key(d)] = flows[Key(d)]
      BY <2>1, <2>2, <2>4, FlowStep, Typed DEF Share
    <3> QED
      BY <2>2, <3>1, <3>2
  <2> QED
    BY <2>3, <2>4
<1>2. CASE ~Store(c) /\ d = c
  <2>1. Same(c) /\ left' = left
    BY <1>2, UsingStep DEF Attached
  <2>2. CASE Point(c, "compare") /\ flows' = flows /\ cpu'[c].rec = Found(c)
    BY <1>2, <2>1, <2>2 DEF Same, Found, Key
  <2>3. CASE CompareGeneration(c)
    <3>1. cpu'[c].rec = cpu[c].rec /\ flows' = flows /\ cpu[c].pc \in Using
      BY <2>3, CompareStep DEF Using
    <3> QED
      BY <1>2, <2>1, <3>1 DEF Same, Mirrored, Attached, Found, Key
  <2> QED
    BY <1>2, <2>2, <2>3, UsingStep DEF Attached
<1>3. CASE ~Store(c) /\ d # c
  <2>1. cpu'[d] = cpu[d] /\ Attached(d) /\ cpu[d].rec = flows[Key(d)]
    BY <1>3, PacketStep, AttachedStep DEF Quiet, Mirrored, Found
  <2>2. flows[Key(d)] # Absent
    BY <2>1 DEF LinesKept, Line, Attached, Absent
  <2>3. flows'[Key(d)] = flows[Key(d)]
    BY <1>3, <2>1, <2>2, FlowStep, AttachedStep, Typed DEF Found
  <2> QED
    BY <2>1, <2>3 DEF Key
<1>4. QED
  BY <1>1, <1>2, <1>3

\* CPUs that share a record see the same of it.
LEMMA SharedKept ==
  ASSUME TypeOK, Mirrored, Shared, LeftTogether, LinesKept, NEW c \in CPUs, Packet(c)
  PROVE  Shared'
<1> SUFFICES ASSUME NEW d \in CPUs, NEW e \in CPUs, Share(d, e)', d # e
             PROVE  cpu'[d].rec = cpu'[e].rec
  BY DEF Shared
<1>1. CASE Store(c)
  <2>1. PICK r \in {Renewed(c), Tagged(c)} :
           /\ \A x \in CPUs : IF Share(c, x) THEN cpu'[x].rec = r ELSE cpu'[x] = cpu[x]
           /\ Share(c, c) /\ Same(c) /\ left' = left /\ Others(c)
    BY <1>1, StoreReaches
  <2>2. Share(d, e)
    BY <2>1 DEF Share, Key, Same, Others
  <2>3. Share(c, d) <=> Share(c, e)
    BY <2>2 DEF Share
  <2> QED
    BY <2>1, <2>2, <2>3 DEF Shared
<1>2. CASE ~Store(c) /\ d # c /\ e # c
  BY <1>2, PacketStep, ShareStep DEF Quiet, Shared
<1>3. ASSUME ~Store(c), NEW x \in CPUs \ {c}, Share(c, x)'
      PROVE  cpu'[c].rec = cpu'[x].rec
  <2>1. Same(c) /\ left' = left /\ cpu'[x] = cpu[x]
    BY <1>3, UsingStep, PacketStep DEF Share, Quiet
  <2>2. CASE cpu[c].pc \notin Using
    <3>1. left[c] = {}
      BY <2>2 DEF LeftTogether
    <3>2. Attached(c)' /\ Attached(x)' /\ cpu'[c].flow = cpu'[x].flow
      BY <1>3, <2>1, <3>1 DEF Share, Attached, Key
    <3> QED
      BY <3>2, MirroredKept DEF Mirrored, Found, Key
  <2>3. CASE CompareGeneration(c)
    <3>1. cpu'[c].rec = cpu[c].rec /\ cpu[c].pc \in Using
      BY <2>3, CompareStep DEF Using
    <3>2. Share(c, x)
      BY <1>3, <2>1, <3>1 DEF Share, Same, Key
    <3> QED
      BY <2>1, <3>1, <3>2 DEF Shared
  <2> QED
    BY <1>3, <2>2, <2>3, UsingStep DEF Share
<1>4. CASE ~Store(c) /\ (d = c \/ e = c)
  BY <1>3, <1>4 DEF Share
<1>5. QED
  BY <1>1, <1>2, <1>4

\* Those whose record has left the map still know one another.
LEMMA LeftTogetherKept ==
  ASSUME TypeOK, LeftTogether, NEW c \in CPUs, Packet(c)
  PROVE  LeftTogether'
<1> SUFFICES ASSUME NEW d \in CPUs, left'[d] # {}
             PROVE  cpu'[d].pc \in Using /\ d \in left'[d]
  BY DEF LeftTogether
<1>1. d # c => cpu'[d].pc = cpu[d].pc
  BY PacketStep DEF Others
<1>2. CASE Detach(Key(c)) /\ cpu[c].pc \notin Using
  <2>1. left'[d] = IF d \in Holding(Key(c)) THEN Holding(Key(c)) ELSE left[d]
    BY <1>2, DetachStep
  <2> QED
    BY <1>1, <1>2, <2>1 DEF Holding, Attached, LeftTogether
<1>3. CASE left' = [left EXCEPT ![c] = {}]
  BY <1>1, <1>3 DEF LeftTogether, TypeOK
<1>4. CASE left' = left
  <2>1. CASE d = c
    <3>1. cpu[c].pc \in Using /\ c \in left[c]
      BY <1>4, <2>1 DEF LeftTogether
    <3>2. ~ReadVerdict(c)
      BY <1>4, <2>1, ReadStep DEF TypeOK
    <3>3. cpu'[c].pc \in Using
      BY <3>1, <3>2, UsedBy, CompareStep, StoreReaches DEF Using
    <3> QED
      BY <1>4, <2>1, <3>1, <3>3
  <2> QED
    BY <1>1, <1>4, <2>1 DEF LeftTogether
<1>5. QED
  BY <1>2, <1>3, <1>4, LeftStep

--------------------------------------------------------------------------------
(* Verdicts.                                                               *)

\* Snapshot v has generation g and stands for the verdict of record r of flow f;
\* without enforcement it let the flow pass.
Speaks(v, g, f, r) ==
  /\ Snapshots[v].generation = g
  /\ \/ Snapshots[v].policy[f][r.class] = r.verdict
     \/ r.state = "UNCLASSIFIED_FINAL" /\ ~Snapshots[v].enforcing

\* A terminal record, unless torn, has the verdict of every generation that is about
\* to be stored in it, or of its own while none is; of the first n snapshots one
\* stands for it.
Settled(n, r, f, gens) ==
  r.state \in {"CLASSIFIED", "UNCLASSIFIED_FINAL"} /\ ~r.torn =>
    \A g \in IF gens = {} THEN {r.generation} ELSE gens :
      \E v \in 1..n : Speaks(v, g, f, r)

\* The generations about to be stored in the record that CPU c points at, and in
\* the one that flow f has in the map.
Tags(c)     == {Snap(d).generation : d \in {e \in CPUs : Share(c, e) /\ Here(e, "tag")}}
FlowTags(f) == {Snap(d).generation : d \in {e \in CPUs : Attached(e) /\ Key(e) = f /\ Here(e, "tag")}}

FlowsSettled == \A f \in Flows : Settled(version, flows[f], f, FlowTags(f))
HeldSettled  == \A c \in CPUs : cpu[c].pc \in Using =>
                                  Settled(version, cpu[c].rec, Key(c), Tags(c))

\* While its record is in the map a CPU sees the same generations as the map,
LEMMA AttachedTags ==
  ASSUME NEW c \in CPUs, Attached(c)
  PROVE  Tags(c) = FlowTags(Key(c))
<1>1. \A e \in CPUs : Share(c, e) /\ Here(e, "tag") <=> Attached(e) /\ Key(e) = Key(c) /\ Here(e, "tag")
  BY DEF Share, Attached, Here, Using
<1>2. QED
  BY <1>1 DEF Tags, FlowTags

\* and the same as the CPUs it shares the record with.
LEMMA SharedTags ==
  ASSUME NEW c \in CPUs, NEW d \in CPUs, Share(c, d)
  PROVE  Tags(d) = Tags(c)
<1>1. \A e \in CPUs : Share(c, e) <=> Share(d, e)
  BY DEF Share
<1>2. QED
  BY <1>1 DEF Tags

\* A step of CPU c that stores nothing changes none of this for others; where a
\* record leaves the map nobody is going to tag what takes its place.
LEMMA TagsQuiet ==
  ASSUME TypeOK, LeftTogether, NEW c \in CPUs, Packet(c), ~Store(c)
  PROVE  /\ \A d \in CPUs \ {c} : Tags(d)' = Tags(d)
         /\ left' = left \/ left' = [left EXCEPT ![c] = {}] => \A f : FlowTags(f)' = FlowTags(f)
         /\ Detach(Key(c)) => \A f : FlowTags(f)' = IF f = Key(c) THEN {} ELSE FlowTags(f)
<1>1. Quiet(c) /\ ~Here(c, "tag") /\ ~Here(c, "tag")'
  <2>1. Quiet(c)
    BY PacketStep
  <2>2. ~Here(c, "tag")
    BY UsedBy, CompareStep, ReadStep DEF Here, Using
  <2>3. cpu'[c].pc \in Using => cpu'[c].pc # "tag"
    BY UsingStep, CompareStep
  <2> QED
    BY <2>1, <2>2, <2>3 DEF Here, Using
<1>2. ASSUME NEW e \in CPUs
      PROVE  (Here(e, "tag")' <=> Here(e, "tag")) /\ (Here(e, "tag") => Snap(e)' = Snap(e) /\ Key(e)' = Key(e))
  BY <1>1 DEF Quiet, Here, Snap, Key
<1>3. ASSUME NEW d \in CPUs \ {c}
      PROVE  Tags(d)' = Tags(d)
  <2>1. ASSUME NEW e \in CPUs
        PROVE  Share(d, e)' /\ Here(e, "tag")' <=> Share(d, e) /\ Here(e, "tag")
    BY <1>1, <1>2, ShareStep
  <2> QED
    BY <1>2, <2>1 DEF Tags
<1>4. ASSUME left' = left \/ left' = [left EXCEPT ![c] = {}], NEW f
      PROVE  FlowTags(f)' = FlowTags(f)
  <2>1. ASSUME NEW e \in CPUs, Here(e, "tag")
        PROVE  Attached(e)' <=> Attached(e)
    BY <1>1, <1>4, <2>1 DEF Quiet, Attached, TypeOK
  <2> QED
    BY <1>2, <2>1 DEF FlowTags
<1>5. ASSUME Detach(Key(c)), NEW f
      PROVE  FlowTags(f)' = IF f = Key(c) THEN {} ELSE FlowTags(f)
  <2>1. ASSUME NEW e \in CPUs, Here(e, "tag")
        PROVE  Attached(e)' <=> Attached(e) /\ Key(e) # Key(c)
    <3>1. e # c /\ cpu'[e] = cpu[e]
      BY <1>1, <2>1 DEF Quiet
    <3>2. left'[e] = IF e \in Holding(Key(c)) THEN Holding(Key(c)) ELSE left[e]
      BY <1>5, DetachStep
    <3>3. e \in Holding(Key(c)) <=> Attached(e) /\ Key(e) = Key(c)
      BY DEF Holding
    <3> QED
      BY <3>1, <3>2, <3>3 DEF Attached
  <2> QED
    BY <1>2, <2>1 DEF FlowTags
<1>6. QED
  BY <1>3, <1>4, <1>5

\* A snapshot whose generation is the only one about to be stored speaks for it.
LEMMA SettledBy ==
  ASSUME NEW n \in Nat, NEW v \in 1..n, NEW f, NEW r, NEW gens,
         Speaks(v, Snapshots[v].generation, f, r),
         (gens = {} /\ r.generation = Snapshots[v].generation) \/ gens = {Snapshots[v].generation}
  PROVE  Settled(n, r, f, gens)
BY DEF Settled

\* A generation about to be stored can be stored.
LEMMA SettledTagged ==
  ASSUME NEW n \in Nat, NEW f, NEW r, NEW r2, NEW gens, NEW gens2, NEW g \in gens,
         Settled(n, r, f, gens), gens2 \subseteq gens,
         r2.state = r.state, r2.class = r.class, r2.verdict = r.verdict,
         r2.generation = g, r.torn => r2.torn
  PROVE  Settled(n, r2, f, gens2)
BY DEF Settled, Speaks

\* What a store changes of the generations about to be stored: those of the record
\* that c points at, wherever it is.
LEMMA TagsStore ==
  ASSUME TypeOK, NEW c \in CPUs, Store(c)
  PROVE  /\ \A d, e \in CPUs : Share(d, e)' <=> Share(d, e)
         /\ \A d \in CPUs : Tags(d)' = IF Share(c, d) THEN Tags(c)' ELSE Tags(d)
         /\ \A f : FlowTags(f)' = IF f = Key(c) /\ left[c] = {} THEN Tags(c)' ELSE FlowTags(f)
<1>1. Share(c, c) /\ Same(c) /\ left' = left /\ Others(c) /\ cpu'[c].pc \in Using
  BY StoreReaches
<1>2. ASSUME NEW d \in CPUs
      PROVE  /\ Key(d)' = Key(d) /\ Snap(d)' = Snap(d)
             /\ cpu'[d].pc \in Using <=> cpu[d].pc \in Using
             /\ d # c => (Here(d, "tag")' <=> Here(d, "tag"))
             /\ left'[d] = left[d]
  BY <1>1 DEF Same, Others, Key, Snap, Here, Share
<1>3. ASSUME NEW d \in CPUs, NEW e \in CPUs PROVE Share(d, e)' <=> Share(d, e)
  BY <1>2 DEF Share
<1>4. ASSUME NEW d \in CPUs, Share(c, d) PROVE Tags(d)' = Tags(c)'
  <2>1. \A e \in CPUs : Share(d, e)' <=> Share(c, e)'
    BY <1>3, <1>4 DEF Share
  <2> QED
    BY <2>1 DEF Tags
<1>5. ASSUME NEW d \in CPUs, ~Share(c, d) PROVE Tags(d)' = Tags(d)
  <2>1. ~Share(d, c)
    BY <1>1, <1>5 DEF Share
  <2>2. \A e \in CPUs : Share(d, e)' /\ Here(e, "tag")' <=> Share(d, e) /\ Here(e, "tag")
    BY <1>2, <1>3, <2>1
  <2> QED
    BY <1>2, <2>2 DEF Tags
<1>6. ASSUME NEW f, f = Key(c), left[c] = {} PROVE FlowTags(f)' = Tags(c)'
  <2>1. \A e \in CPUs : Attached(e)' /\ Key(e)' = f /\ Here(e, "tag")' <=> Share(c, e)' /\ Here(e, "tag")'
    BY <1>1, <1>2, <1>6 DEF Share, Attached
  <2> QED
    BY <2>1 DEF Tags, FlowTags
<1>7. ASSUME NEW f, ~(f = Key(c) /\ left[c] = {}) PROVE FlowTags(f)' = FlowTags(f)
  <2>1. ~(Attached(c) /\ Key(c) = f)
    BY <1>7 DEF Attached
  <2>2. \A e \in CPUs : Attached(e)' /\ Key(e)' = f /\ Here(e, "tag")' <=> Attached(e) /\ Key(e) = f /\ Here(e, "tag")
    BY <1>2, <2>1 DEF Attached
  <2> QED
    BY <1>2, <2>2 DEF FlowTags
<1>8. QED
  BY <1>3, <1>4, <1>5, <1>6, <1>7

\* A packet's snapshot is a published one.
LEMMA SnapRange ==
  ASSUME TypeOK, SnapPublished, NEW c \in CPUs
  PROVE  version \in Nat /\ cpu[c].snap \in 1..version
BY Typed DEF TypeOK, SnapPublished, CPUState, Versions

\* The first store renews the verdict for the one generation about to be stored,
\* unless others are; the second stores one of them.
LEMMA StoreSettles ==
  ASSUME TypeOK, SnapPublished, HeldSettled, NEW c \in CPUs, Store(c)
  PROVE  Settled(version, cpu'[c].rec, Key(c), Tags(c)')
<1> DEFINE g == Snap(c).generation
<1>1. Share(c, c) /\ Same(c) /\ Others(c)
  BY StoreReaches
<1>2. version \in Nat /\ cpu[c].snap \in 1..version
  BY SnapRange
<1>3. ASSUME NEW e \in CPUs PROVE Share(c, e)' <=> Share(c, e)
  BY TagsStore
<1>4. ASSUME NEW e \in CPUs \ {c} PROVE (Here(e, "tag")' <=> Here(e, "tag")) /\ Snap(e)' = Snap(e)
  BY <1>1 DEF Others, Here, Snap
<1>5. CASE StoreVerdict(c)
  <2>1. cpu'[c].rec = Renewed(c) /\ Here(c, "tag")' /\ Snap(c)' = Snap(c)
    BY <1>1, <1>5, StoreVerdictStep DEF Here, Snap, Same
  <2>2. CASE Meets(c)
    BY <2>1, <2>2, RenewedIs DEF Settled
  <2>3. CASE ~Meets(c)
    <3>1. ASSUME NEW e \in CPUs \ {c}, Share(c, e), Here(e, "tag") PROVE Snap(e).generation = g
      BY <2>3, <3>1 DEF Meets, Contended, Sharers, Share, Here
    <3>2. Tags(c)' = {g}
      BY <1>1, <1>3, <1>4, <2>1, <3>1 DEF Tags
    <3>3. Speaks(cpu[c].snap, g, Key(c), Renewed(c))
      BY RenewedIs DEF Speaks, PolicyVerdict, Snap
    <3> QED
      BY <1>2, <2>1, <3>2, <3>3, SettledBy DEF Snap
  <2> QED
    BY <2>2, <2>3
<1>6. CASE StoreGeneration(c)
  <2>1. cpu'[c].rec = Tagged(c) /\ ~Here(c, "tag")' /\ Here(c, "tag") /\ cpu[c].pc \in Using
    BY <1>6, StoreGenerationStep DEF Here, Using
  <2>2. g \in Tags(c) /\ Tags(c)' \subseteq Tags(c)
    BY <1>1, <1>3, <1>4, <2>1 DEF Tags
  <2>3. Settled(version, cpu[c].rec, Key(c), Tags(c))
    BY <2>1 DEF HeldSettled
  <2> QED
    BY <1>2, <2>1, <2>2, <2>3, TaggedIs, SettledTagged
<1>7. QED
  BY <1>5, <1>6 DEF Store

\* So whoever points at a record holds a settled one,
LEMMA HeldSettledKept ==
  ASSUME TypeOK, SnapPublished, LeftTogether, Mirrored, FlowsSettled, HeldSettled,
         NEW c \in CPUs, Packet(c)
  PROVE  HeldSettled'
<1>1. version' = version
  BY LeftStep
<1> SUFFICES ASSUME NEW d \in CPUs, cpu'[d].pc \in Using
             PROVE  Settled(version, cpu'[d].rec, cpu'[d].flow, Tags(d)')
  BY <1>1 DEF HeldSettled, Key
<1>2. CASE Store(c)
  <2>1. PICK r \in {Renewed(c), Tagged(c)} :
           /\ \A x \in CPUs : IF Share(c, x) THEN cpu'[x].rec = r ELSE cpu'[x] = cpu[x]
           /\ Share(c, c) /\ Same(c)
    BY <1>2, StoreReaches
  <2>2. CASE Share(c, d)
    <3>1. cpu'[d].rec = cpu'[c].rec /\ Tags(d)' = Tags(c)'
      BY <1>2, <2>1, <2>2, TagsStore
    <3>2. cpu'[d].flow = Key(c)
      BY <2>1, <2>2, PacketStep DEF Share, Key, Same, Others
    <3> QED
      BY <1>2, <3>1, <3>2, StoreSettles
  <2>3. CASE ~Share(c, d)
    <3>1. cpu'[d] = cpu[d] /\ Tags(d)' = Tags(d)
      BY <1>2, <2>1, <2>3, TagsStore
    <3> QED
      BY <3>1 DEF HeldSettled, Key
  <2> QED
    BY <2>2, <2>3
<1>3. CASE ~Store(c) /\ d # c
  <2>1. cpu'[d] = cpu[d] /\ Tags(d)' = Tags(d)
    BY <1>3, PacketStep, TagsQuiet DEF Quiet
  <2> QED
    BY <2>1 DEF HeldSettled, Key
<1>4. CASE ~Store(c) /\ d = c
  <2>1. Same(c) /\ left' = left
    BY <1>4, UsingStep
  <2>2. CASE CompareGeneration(c)
    <3>1. cpu'[c].rec = cpu[c].rec /\ cpu[c].pc \in Using /\ Quiet(c) /\ ~Here(c, "tag") /\ ~Here(c, "tag")'
      BY <2>2, CompareStep DEF Using, Here
    <3>2. \A e \in CPUs : Share(c, e)' /\ Here(e, "tag")' <=> Share(c, e) /\ Here(e, "tag")
      BY <1>4, <2>1, <3>1 DEF Quiet, Same, Share, Here, Key
    <3>3. Tags(c)' = Tags(c)
      BY <3>1, <3>2 DEF Tags, Quiet, Snap
    <3> QED
      BY <1>4, <2>1, <3>1, <3>3 DEF HeldSettled, Same, Key
  <2>3. CASE cpu[c].pc \notin Using /\ Quiet(c) /\ cpu'[c].pc = "compare" /\ cpu'[c].rec = Found(c)
    <3>2. left[c] = {}
      BY <2>3 DEF LeftTogether
    <3>3. \A e \in CPUs : /\ Share(c, e)' /\ Here(e, "tag")'
                             <=> Attached(e) /\ Key(e) = Key(c) /\ Here(e, "tag")
      BY <1>4, <2>1, <2>3, <3>2 DEF Quiet, Same, Share, Here, Key, Attached, Using
    <3>4. Tags(c)' = FlowTags(Key(c))
      BY <2>3, <3>3 DEF Tags, FlowTags, Quiet, Snap, Here
    <3>5. Settled(version, flows[Key(c)], Key(c), FlowTags(Key(c)))
      BY Typed DEF FlowsSettled
    <3> QED
      BY <1>4, <2>1, <2>3, <3>4, <3>5 DEF Same, Key, Found
  <2> QED
    BY <1>4, <2>2, <2>3, UsingStep
<1>5. QED
  BY <1>2, <1>3, <1>4

\* and the map holds settled ones.
LEMMA FlowsSettledKept ==
  ASSUME TypeOK, SnapPublished, LeftTogether, Mirrored, LinesKept, FlowsSettled, HeldSettled,
         NEW c \in CPUs, Packet(c)
  PROVE  FlowsSettled'
<1>1. version' = version /\ version \in Nat /\ cpu[c].snap \in 1..version
  BY LeftStep, SnapRange
<1> SUFFICES ASSUME NEW f \in Flows
             PROVE  Settled(version, flows'[f], f, FlowTags(f)')
  BY <1>1 DEF FlowsSettled
<1>2. CASE Store(c)
  <2>1. CASE f = Key(c) /\ left[c] = {}
    <3>1. flows'[f] = cpu'[c].rec
      BY <1>2, <2>1, StoreReaches
    <3> QED
      BY <1>2, <2>1, <3>1, TagsStore, StoreSettles
  <2>2. CASE ~(f = Key(c) /\ left[c] = {})
    <3>1. flows'[f] = flows[f]
      BY <1>2, <2>2, WriteStep
    <3> QED
      BY <1>2, <2>2, <3>1, TagsStore DEF FlowsSettled
  <2> QED
    BY <2>1, <2>2
<1>3. CASE ~Store(c) /\ flows'[f] = flows[f] /\ FlowTags(f)' = FlowTags(f)
  BY <1>3 DEF FlowsSettled
<1>4. ASSUME flows'[f].torn \/ Speaks(cpu[c].snap, Snap(c).generation, f, flows'[f]),
             flows'[f].generation = Snap(c).generation, FlowTags(f)' = {}
      PROVE  Settled(version, flows'[f], f, FlowTags(f)')
  BY <1>1, <1>4, SettledBy DEF Snap, Settled
<1>5. CASE ~Store(c) /\ f # Key(c)
  BY <1>3, <1>5, FlowStep, LeftStep, TagsQuiet
<1>6. CASE ~Store(c) /\ f = Key(c) /\ flows' = flows /\ (left' = left \/ left' = [left EXCEPT ![c] = {}])
  BY <1>3, <1>6, TagsQuiet
<1>7. CASE /\ ~Store(c) /\ f = Key(c) /\ Found(c) = Absent /\ left' = left
           /\ \/ flows'[f] = NewRecord(c, "PENDING", Unclassified, Snap(c).provisional)
              \/ /\ Here(c, "correlate")
                 /\ flows'[f] = NewRecord(c, "UNCLASSIFIED_FINAL", Unclassified, "ALLOW")
              \/ flows'[f] = NewRecord(c, "UNCLASSIFIED_FINAL", Unclassified,
                                       PolicyVerdict(c, Unclassified))
  <2>1. ASSUME NEW e \in CPUs, Attached(e), Key(e) = f PROVE FALSE
    BY <1>7, <2>1 DEF Mirrored, LinesKept, Line, Found, Absent, Attached
  <2>2. FlowTags(f)' = {}
    BY <1>7, <2>1, TagsQuiet DEF FlowTags
  <2>3. CASE flows'[f] = NewRecord(c, "PENDING", Unclassified, Snap(c).provisional)
    BY <2>3 DEF Settled, NewRecord
  <2>4. CASE flows'[f].verdict = PolicyVerdict(c, flows'[f].class) /\ flows'[f].generation = Snap(c).generation
    BY <1>4, <1>7, <2>2, <2>4 DEF Speaks, PolicyVerdict, Snap
  <2>5. CASE /\ Here(c, "correlate")
             /\ flows'[f] = NewRecord(c, "UNCLASSIFIED_FINAL", Unclassified, "ALLOW")
    <3>1. ~Snap(c).enforcing
      BY <2>5 DEF LinesKept, Line, Here, Snap
    <3> QED
      BY <1>4, <2>2, <2>5, <3>1 DEF Speaks, NewRecord, Snap
  <2> QED
    BY <1>7, <2>3, <2>4, <2>5 DEF NewRecord
<1>8. CASE ~Store(c) /\ f = Key(c) /\ Detach(Key(c)) /\ flows'[f] = Absent
  BY <1>8 DEF Settled, Absent
<1>9. CASE ~Store(c) /\ f = Key(c) /\ Detach(Key(c)) /\ flows'[f] = Terminal(c)
  <2>1. FlowTags(f)' = {}
    BY <1>9, TagsQuiet
  <2> QED
    BY <1>4, <1>9, <2>1, TerminalIs DEF Speaks, PolicyVerdict, Snap
<1>10. QED
  BY <1>2, <1>5, <1>6, <1>7, <1>8, <1>9, FlowStep

--------------------------------------------------------------------------------
(* The verdict a packet leaves with.                                       *)

\* Past its comparison or its own store of the verdict, a packet points at a record
\* with the verdict of its snapshot, unless it raced.
VerdictInHand ==
  \A c \in CPUs :
    cpu[c].pc \in {"tag", "read"} /\ ~cpu[c].raced =>
      cpu[c].rec.verdict = PolicyVerdict(c, cpu[c].rec.class)

\* Packets of one generation have one policy,
LEMMA SameGeneration ==
  ASSUME TypeOK, NEW c \in CPUs, NEW d \in CPUs, Key(c) = Key(d),
         Snap(c).generation = Snap(d).generation, NEW class
  PROVE  PolicyVerdict(c, class) = PolicyVerdict(d, class)
<1>1. cpu[c].snap \in Versions /\ cpu[d].snap \in Versions
  BY Typed DEF CPUState
<1>2. Snap(c).policy = Snap(d).policy
  BY <1>1, GenerationAssumption DEF Snap
<1>3. QED
  BY <1>2 DEF PolicyVerdict

\* so a settled record with the packet's generation has the verdict of its snapshot.
LEMMA ComparedTrue ==
  ASSUME TypeOK, SnapPublished, LinesKept, HeldSettled, NEW c \in CPUs, Here(c, "compare"),
         cpu[c].rec.generation = Snap(c).generation,
         ~cpu[c].rec.torn, ~Contended(c, {"tag"})
  PROVE  cpu[c].rec.verdict = PolicyVerdict(c, cpu[c].rec.class)
<1> DEFINE g == Snap(c).generation
<1>1. Settled(version, cpu[c].rec, Key(c), Tags(c)) /\ Snap(c).enforcing
      /\ cpu[c].rec.state \in {"CLASSIFIED", "UNCLASSIFIED_FINAL"}
  BY DEF HeldSettled, LinesKept, Line, Here, Using, Snap
<1>2. ASSUME NEW e \in CPUs, Share(c, e), Here(e, "tag") PROVE Snap(e).generation = g
  BY <1>2 DEF Contended, Sharers, Share, Here
<1>3. Tags(c) = {} \/ Tags(c) = {g}
  BY <1>2 DEF Tags
<1>4. PICK v \in 1..version : Speaks(v, g, Key(c), cpu[c].rec)
  BY <1>1, <1>3 DEF Settled
<1>5. v \in Versions /\ cpu[c].snap \in Versions
  BY <1>4, Typed, SnapshotAssumption DEF TypeOK, Versions, CPUState
<1>6. Snapshots[v].policy = Snap(c).policy /\ Snapshots[v].enforcing
  BY <1>1, <1>4, <1>5, GenerationAssumption DEF Speaks, Snap
<1>7. QED
  BY <1>4, <1>6 DEF Speaks, PolicyVerdict

\* Nobody else's store changes that, for a packet it does not mark as raced.
LEMMA InHandKept ==
  ASSUME TypeOK, SnapPublished, Shared, LinesKept, HeldSettled, VerdictInHand,
         NEW c \in CPUs, Packet(c)
  PROVE  VerdictInHand'
<1>1. ASSUME NEW d \in CPUs, cpu'[d].pc \in {"tag", "read"}
      PROVE  cpu'[d].flow = cpu[d].flow /\ cpu'[d].snap = cpu[d].snap
  BY <1>1, PacketStep, UsingStep DEF Others, Same, Using
<1> SUFFICES ASSUME NEW d \in CPUs, cpu'[d].pc \in {"tag", "read"}, ~cpu'[d].raced
             PROVE  cpu'[d].rec.verdict = PolicyVerdict(d, cpu'[d].rec.class)
  BY <1>1 DEF VerdictInHand, PolicyVerdict, Snap, Key
<1>2. CASE cpu'[d] = cpu[d]
  BY <1>2 DEF VerdictInHand
<1>3. CASE d = c /\ CompareGeneration(c)
  <2>1. /\ cpu[c].rec.generation = Snap(c).generation /\ Here(c, "compare")
        /\ ~cpu[c].rec.torn /\ ~Contended(c, {"tag"}) /\ cpu'[c].rec = cpu[c].rec
    BY <1>3, CompareStep DEF Here
  <2> QED
    BY <1>3, <2>1, ComparedTrue
<1>4. CASE d = c /\ StoreVerdict(c)
  BY <1>4, StoreVerdictStep, RenewedIs
<1>5. CASE d = c /\ StoreGeneration(c)
  BY <1>5, StoreGenerationStep, TaggedIs DEF VerdictInHand
<1>6. CASE d # c /\ StoreVerdict(c) /\ d \in Sharers(c)
  <2>1. cpu'[d].rec = Renewed(c) /\ Snap(d).generation = Snap(c).generation /\ Key(d) = Key(c)
    BY <1>6, StoreVerdictStep DEF Sharers
  <2> QED
    BY <2>1, RenewedIs, SameGeneration
<1>7. CASE d # c /\ StoreGeneration(c) /\ d \in Sharers(c)
  <2>1. /\ cpu'[d].rec = Tagged(c) /\ ~cpu[d].raced /\ cpu[c].pc \in Using
        /\ cpu[d].pc \in {"tag", "read"}
    BY <1>7, StoreGenerationStep, PacketStep DEF Using, Others
  <2>2. cpu[d].rec = cpu[c].rec
    BY <1>7, <2>1 DEF Shared, Share, Sharers
  <2> QED
    BY <2>1, <2>2, TaggedIs DEF VerdictInHand
<1>8. d # c => cpu'[d] = cpu[d] \/ (d \in Sharers(c) /\ Store(c))
  <2>1. StoreVerdict(c) /\ d # c => cpu'[d] = cpu[d] \/ d \in Sharers(c)
    BY StoreVerdictStep
  <2>2. StoreGeneration(c) /\ d # c => cpu'[d] = cpu[d] \/ d \in Sharers(c)
    BY StoreGenerationStep
  <2>3. CASE Store(c)
    BY <2>1, <2>2, <2>3 DEF Store
  <2>4. CASE Quiet(c)
    BY <2>4 DEF Quiet
  <2> QED
    BY <2>3, <2>4, PacketStep
<1>9. d = c => CompareGeneration(c) \/ Store(c)
  BY UsingStep DEF Using
<1>10. QED
  BY <1>2, <1>3, <1>4, <1>5, <1>6, <1>7, <1>8, <1>9 DEF Store

\* What a packet may leave with.
Obeys(x) ==
  x.pc = "idle" /\ x.out # "none" /\ ~x.raced =>
    x.out = IF x.first \/ x.rec.state = "PENDING"
              THEN Snapshots[x.snap].provisional
              ELSE Snapshots[x.snap].policy[x.flow][x.rec.class]

\* So whichever way a packet leaves, it leaves with a verdict of its snapshot.
LEMMA OwnObeys ==
  ASSUME TypeOK, LinesKept, VerdictInHand, NEW c \in CPUs, Packet(c), Obeys(cpu[c])
  PROVE  Obeys(cpu'[c])
<1>1. CASE cpu'[c].pc # "idle" \/ cpu'[c].out = "none"
  BY <1>1 DEF Obeys
<1>2. ASSUME Goto(c, "idle"), cpu[c].pc # "idle"
      PROVE  Obeys(cpu'[c])
  BY <1>1, <1>2, GotoStep DEF PCs, LinesKept, Line
<1>3. EmitPending(c) /\ Found(c).state = "PENDING" => Obeys(cpu'[c])
  BY EmitPendingStep DEF Obeys, Same, Snap
<1>4. ASSUME Emit(c, PolicyVerdict(c, Unclassified)), Here(c, "shed") \/ Here(c, "existing")
      PROVE  Obeys(cpu'[c])
  <2>1. ~cpu[c].first /\ cpu[c].rec.state # "PENDING" /\ cpu[c].rec.class = Unclassified
    BY <1>4 DEF LinesKept, Line, Proper, Here, Using
  <2>2. /\ cpu'[c].out = PolicyVerdict(c, Unclassified) /\ cpu'[c].rec = cpu[c].rec
        /\ cpu'[c].first = cpu[c].first /\ Same(c)
    BY <1>4, VerdictTyped, EmitStep
  <2> QED
    BY <2>1, <2>2 DEF Obeys, Same, PolicyVerdict, Snap, Key
<1>5. CASE ReadVerdict(c)
  <2>1. /\ Same(c) /\ cpu[c].pc = "read" /\ cpu'[c].rec = cpu[c].rec
        /\ cpu'[c].out = cpu[c].rec.verdict /\ cpu'[c].first = cpu[c].first
        /\ cpu'[c].raced = cpu[c].raced
    BY <1>5, ReadStep
  <2>2. ~cpu[c].first /\ cpu[c].rec.state # "PENDING"
    BY <2>1 DEF LinesKept, Line, Using
  <2> QED
    BY <2>1, <2>2 DEF Obeys, VerdictInHand, Same, PolicyVerdict, Snap, Key
<1>6. CASE ReleasePending(c)
  <2>1. cpu[c].first
    BY <1>6 DEF ReleasePending, Here, LinesKept, Line
  <2>2. cpu'[c].out = Snap(c).provisional /\ cpu'[c].first = cpu[c].first /\ Same(c)
    BY <1>6, Typed, EmitStep DEF ReleasePending
  <2> QED
    BY <2>1, <2>2 DEF Obeys, Same, Snap
<1>7. CASE ShedInsert(c) \/ ShedExisting(c)
  BY <1>1, <1>3, <1>4, <1>7, GotoStep, PointStep DEF ShedInsert, ShedExisting, PCs
<1>8. CASE LookupCached(c)
  BY <1>1, <1>2, <1>3, <1>8, PointStep DEF LookupCached, Pass, Here, PCs
<1>9. CASE Correlate(c)
  BY <1>2, <1>9 DEF Correlate, Pass, Here
<1>10. CASE \E f \in Flows : Arrive(c, f)
  BY <1>1, <1>10, ArriveStep
<1>11. CASE CompareGeneration(c) \/ Store(c)
  BY <1>1, <1>11, CompareStep, StoreVerdictStep, StoreGenerationStep DEF Store
<1>12. CASE LookupMissing(c) \/ DeleteUnclassified(c) \/ Admit(c) \/ Reserve(c)
  BY <1>1, <1>12, GotoStep DEF LookupMissing, DeleteUnclassified, Admit, Reserve, PCs
<1>13. CASE InsertPending(c) \/ UpdateTerminal(c) \/ UndoInsert(c)
  BY <1>1, <1>13, GotoStep, ClassifiedStep DEF InsertPending, Admitted, UpdateTerminal, UndoInsert, PCs
<1>14. QED
  BY <1>5, <1>6, <1>7, <1>8, <1>9, <1>10, <1>11, <1>12, <1>13 DEF Packet, Store

\* Having left, a packet's record is no longer the map's.
LEMMA OwnSnapshotKept ==
  ASSUME TypeOK, LinesKept, VerdictInHand, OwnSnapshotEnforced, NEW c \in CPUs, Packet(c)
  PROVE  OwnSnapshotEnforced'
<1>1. \A d \in CPUs : Obeys(cpu[d])
  BY DEF OwnSnapshotEnforced, Obeys, Optimistic, Here, Snap, PolicyVerdict, Key
<1>2. ASSUME NEW d \in CPUs \ {c} PROVE Obeys(cpu'[d])
  <2>1. cpu'[d].pc = cpu[d].pc /\ (cpu[d].pc \notin Using => cpu'[d] = cpu[d])
    BY PacketStep DEF Others
  <2> QED
    BY <1>1, <2>1 DEF Obeys, Using
<1>3. \A d \in CPUs : Obeys(cpu'[d])
  BY <1>1, <1>2, OwnObeys
<1>4. QED
  BY <1>3 DEF OwnSnapshotEnforced, Obeys, Optimistic, Here, Snap, PolicyVerdict, Key

--------------------------------------------------------------------------------
(* The inductive invariant.                                                *)

IInv ==
  /\ TypeOK
  /\ PendingConserved
  /\ PendingHasOwner
  /\ WithinLimit
  /\ SnapPublished
  /\ FlowsProper
  /\ LinesKept
  /\ LeftTogether
  /\ Mirrored
  /\ Shared
  /\ FlowsSettled
  /\ HeldSettled
  /\ VerdictInHand
  /\ OwnSnapshotEnforced

\* Before the first packet there is nothing.
LEMMA InitIInv == Init => IInv
<1> SUFFICES ASSUME Init PROVE IInv
  OBVIOUS
<1>1. 1 \in Versions /\ Snapshots[1].limit \in Nat
  <2>1. Len(Snapshots) \in Nat \ {0}
    BY SnapshotAssumption
  <2>2. 1 \in Versions
    BY <2>1 DEF Versions
  <2> QED
    BY <2>2, LimitTyped
<1>2. ASSUME NEW c \in CPUs
      PROVE  /\ cpu[c] \in CPUState /\ cpu[c].pc = "idle" /\ cpu[c].out = "none"
             /\ cpu[c].rec = Absent /\ cpu[c].snap = 1 /\ left[c] = {}
  BY <1>1, AbsentTyped DEF Init, CPUState, PCs
<1>3. TypeOK
  <2>1. cpu \in [CPUs -> CPUState]
    BY <1>2 DEF Init
  <2> QED
    BY <1>1, <2>1, AbsentTyped DEF Init, TypeOK
<1>4. \A f \in Flows : flows[f] = Absent
  BY DEF Init
<1>5. PendingConserved
  <2>1. {c \in CPUs : cpu[c].pc \in {"insert", "terminal", "release"}} = {}
    BY <1>2
  <2> QED
    BY <2>1, FS_EmptySet DEF Init, PendingConserved
<1>6. PendingHasOwner /\ FlowsProper /\ FlowsSettled
  BY <1>4 DEF PendingHasOwner, FlowsProper, Proper, FlowsSettled, Settled, Absent
<1>7. WithinLimit /\ SnapPublished
  BY <1>1, <1>2 DEF Init, WithinLimit, SnapPublished
<1>8. LinesKept /\ LeftTogether /\ Mirrored /\ Shared
  BY <1>2 DEF LinesKept, Line, Proper, Absent, LeftTogether, Mirrored, Attached, Shared, Share, Using
<1>9. HeldSettled /\ VerdictInHand /\ OwnSnapshotEnforced
  BY <1>2 DEF HeldSettled, VerdictInHand, OwnSnapshotEnforced, Here, Using
<1>10. QED
  BY <1>3, <1>5, <1>6, <1>7, <1>8, <1>9 DEF IInv

\* A packet of another CPU has at its line what it had.
LEMMA OtherLine ==
  ASSUME TypeOK, LinesKept, NEW c \in CPUs, Packet(c), NEW d \in CPUs \ {c}
  PROVE  Line(cpu'[d])
<1>1. CASE cpu'[d] = cpu[d]
  BY <1>1 DEF LinesKept
<1>2. CASE Store(c) /\ cpu'[d] # cpu[d]
  <2>1. PICK r \in {Renewed(c), Tagged(c)} :
          Share(c, d) /\ cpu'[d].rec = r /\ Others(c)
    BY <1>2, StoreReaches
  <2>2. r.state = cpu[c].rec.state /\ r.class = cpu[c].rec.class /\ cpu[c].pc \in Using
    BY <2>1, RenewedIs, TaggedIs DEF Share
  <2>3. Proper(r) /\ r.state \in {"CLASSIFIED", "UNCLASSIFIED_FINAL"}
    BY <2>2 DEF LinesKept, Line, Proper
  <2>4. /\ cpu'[d].pc = cpu[d].pc /\ cpu'[d].snap = cpu[d].snap /\ cpu'[d].out = cpu[d].out
        /\ cpu'[d].first = cpu[d].first /\ cpu[d].pc \in Using
    BY <2>1 DEF Others, Share
  <2> QED
    BY <2>1, <2>3, <2>4 DEF LinesKept, Line, Using
<1>3. Quiet(c) \/ Store(c)
  BY PacketStep
<1>4. QED
  BY <1>1, <1>2, <1>3 DEF Quiet

\* A step of a packet keeps the invariant,
LEMMA PacketIInv ==
  ASSUME IInv, NEW c \in CPUs, Packet(c)
  PROVE  IInv'
<1> USE DEF IInv
<1>1. version' = version
  BY LeftStep
<1>2. PendingConserved' /\ pending' \in Nat
  BY CountKept
<1>3. TypeOK'
  BY <1>1, <1>2, PacketStep, FlowStep, LeftTyped DEF TypeOK
<1>4. PendingHasOwner'
  BY OwnersKept DEF Mirrored
<1>5. WithinLimit' /\ FlowsProper'
  BY LimitKept, FlowsProperKept
<1>6. SnapPublished'
  <2>1. cpu'[c].snap = cpu[c].snap \/ cpu'[c].snap = version
    BY PacketStep, ArriveStep DEF Same
  <2>2. \A d \in CPUs \ {c} : cpu'[d].snap = cpu[d].snap
    BY PacketStep DEF Others
  <2>3. version <= version
    BY DEF TypeOK, Versions
  <2> QED
    BY <1>1, <2>1, <2>2, <2>3 DEF SnapPublished
<1>7. LinesKept'
  <2>1. Line(cpu'[c])
    BY OwnLine DEF LinesKept
  <2> QED
    BY <2>1, OtherLine DEF LinesKept
<1>8. LeftTogether' /\ Mirrored' /\ Shared'
  BY LeftTogetherKept, MirroredKept, SharedKept
<1>9. FlowsSettled' /\ HeldSettled'
  BY FlowsSettledKept, HeldSettledKept
<1>10. VerdictInHand' /\ OwnSnapshotEnforced'
  BY InHandKept, OwnSnapshotKept
<1>11. QED
  BY <1>2, <1>3, <1>4, <1>5, <1>6, <1>7, <1>8, <1>9, <1>10

\* the publication of the next snapshot too: it only adds to what is published,
LEMMA PublishIInv == ASSUME IInv, PublishNext PROVE IInv'
<1> USE DEF IInv
<1>1. version' = version + 1 /\ version \in Nat /\ version' \in Versions
  BY SnapshotAssumption DEF PublishNext, TypeOK, Versions
<1>2. UNCHANGED <<flows, pending, cpu, left>>
  BY DEF PublishNext
<1>3. TypeOK' /\ PendingConserved' /\ PendingHasOwner'
  BY <1>1, <1>2 DEF TypeOK, PendingConserved, PendingHasOwner, Key
<1>4. 1..version \subseteq 1..version'
  BY <1>1
<1>5. WithinLimit'
  BY <1>2, <1>4 DEF WithinLimit
<1>6. SnapPublished'
  <2>1. \A c \in CPUs : cpu[c].snap \in Nat
    BY Typed, SnapshotAssumption DEF CPUState, Versions
  <2> QED
    BY <1>1, <1>2, <2>1 DEF SnapPublished
<1>7. FlowsProper' /\ LinesKept' /\ LeftTogether' /\ Mirrored' /\ Shared'
  BY <1>2 DEF FlowsProper, LinesKept, LeftTogether, Mirrored, Attached, Found, Shared, Share, Key
<1>8. \A r, f, gens : Settled(version, r, f, gens) => Settled(version', r, f, gens)
  BY <1>4 DEF Settled
<1>9. /\ \A f : FlowTags(f)' = FlowTags(f)
      /\ \A c : Tags(c)' = Tags(c)
  BY <1>2 DEF FlowTags, Tags, Attached, Share, Here, Key, Snap
<1>10. FlowsSettled' /\ HeldSettled'
  BY <1>2, <1>8, <1>9 DEF FlowsSettled, HeldSettled, Key
<1>11. VerdictInHand' /\ OwnSnapshotEnforced'
  BY <1>2 DEF VerdictInHand, OwnSnapshotEnforced, Optimistic, Here, Snap, PolicyVerdict, Key
<1>12. QED
  BY <1>3, <1>5, <1>6, <1>7, <1>10, <1>11

\* and so does the removal of a record by the collector.
LEMMA CollectIInv == ASSUME IInv, NEW f \in Flows, Collect(f) PROVE IInv'
<1> USE DEF IInv
<1>1. UNCHANGED <<version, pending, cpu>> /\ Detach(f) /\ flows' = [flows EXCEPT ![f] = Absent]
  BY DEF Collect
<1>2. flows'[f] = Absent /\ \A g \in Flows \ {f} : flows'[g] = flows[g]
  BY <1>1 DEF TypeOK
<1>3. TypeOK'
  BY <1>1, AbsentTyped, DetachStep DEF TypeOK
<1>4. PendingConserved' /\ PendingHasOwner' /\ WithinLimit' /\ SnapPublished'
  BY <1>1, <1>2 DEF PendingConserved, PendingHasOwner, WithinLimit, SnapPublished, Key, Absent
<1>5. FlowsProper' /\ LinesKept'
  BY <1>1, <1>2 DEF FlowsProper, LinesKept, Proper, Absent
<1>6. \A c \in CPUs : left'[c] = IF c \in Holding(f) THEN Holding(f) ELSE left[c]
  BY <1>1, DetachStep
<1>7. LeftTogether'
  BY <1>1, <1>6 DEF LeftTogether, Holding, Attached
<1>8. \A c \in CPUs : Attached(c)' <=> Attached(c) /\ Key(c) # f
  BY <1>1, <1>6 DEF Attached, Holding
<1>9. Mirrored'
  BY <1>1, <1>2, <1>8, Typed DEF Mirrored, Found, Key
<1>10. \A c, d \in CPUs : Share(c, d)' <=> Share(c, d)
  BY <1>1, DetachShares DEF Share, Key
<1>11. Shared' /\ \A c \in CPUs : Tags(c)' = Tags(c)
  BY <1>1, <1>10 DEF Shared, Tags, Here, Snap
<1>12. HeldSettled'
  BY <1>1, <1>11 DEF HeldSettled, Key
<1>13. ASSUME NEW g \in Flows \ {f} PROVE FlowTags(g)' = FlowTags(g)
  <2>1. \A c \in CPUs : Attached(c)' /\ Key(c)' = g /\ Here(c, "tag")' <=> Attached(c) /\ Key(c) = g /\ Here(c, "tag")
    BY <1>1, <1>8 DEF Key, Here
  <2> QED
    BY <1>1, <2>1 DEF FlowTags, Snap
<1>14. FlowsSettled'
  BY <1>1, <1>2, <1>13 DEF FlowsSettled, Settled, Absent
<1>15. VerdictInHand' /\ OwnSnapshotEnforced'
  BY <1>1 DEF VerdictInHand, OwnSnapshotEnforced, Optimistic, Here, Snap, PolicyVerdict, Key
<1>16. QED
  BY <1>3, <1>4, <1>5, <1>7, <1>9, <1>11, <1>12, <1>14, <1>15

\* So every step does.
LEMMA NextIInv == IInv /\ [Next]_vars => IInv'
<1> SUFFICES ASSUME IInv, [Next]_vars PROVE IInv'
  OBVIOUS
<1>1. CASE Next
  BY <1>1, PacketIInv, PublishIInv, CollectIInv DEF Next
<1>2. CASE UNCHANGED vars
  <2>1. /\ UNCHANGED <<version, flows, pending, cpu, left>>
        /\ \A f : FlowTags(f)' = FlowTags(f)
        /\ \A c : Tags(c)' = Tags(c)
    BY <1>2 DEF vars, FlowTags, Tags, Attached, Share, Here, Key, Snap
  <2>2. TypeOK' /\ PendingConserved' /\ PendingHasOwner' /\ WithinLimit' /\ SnapPublished'
    BY <2>1 DEF IInv, TypeOK, PendingConserved, PendingHasOwner, WithinLimit, SnapPublished, Key
  <2>3. FlowsProper' /\ LinesKept' /\ LeftTogether' /\ Mirrored' /\ Shared'
    BY <2>1 DEF IInv, FlowsProper, LinesKept, LeftTogether, Mirrored, Attached, Found, Shared, Share, Key
  <2>4. FlowsSettled' /\ HeldSettled'
    BY <2>1 DEF IInv, FlowsSettled, HeldSettled, Key
  <2>5. VerdictInHand' /\ OwnSnapshotEnforced'
    BY <2>1 DEF IInv, VerdictInHand, OwnSnapshotEnforced, Optimistic, Here, Snap, PolicyVerdict, Key
  <2> QED
    BY <2>2, <2>3, <2>4, <2>5 DEF IInv
<1>3. QED
  BY <1>1, <1>2

\* The inductive invariant holds in every reachable state of ca_ingress, the
\* publisher and the collector.
THEOREM Invariance == Spec => []IInv
BY InitIInv, NextIInv, PTL DEF Spec

\* Records, packets and the count of classifications in progress are well formed;
\* in particular the count never wraps below zero.
THEOREM TypeCorrect == Spec => []TypeOK
<1>1. IInv => TypeOK
  BY DEF IInv
<1>2. QED
  BY <1>1, Invariance, PTL

\* ca_pending_reserve and the releases on every path of ca_ingress balance: the
\* count is the number of CPUs that hold a reservation.
THEOREM ReservationsConserved == Spec => []PendingConserved
<1>1. IInv => PendingConserved
  BY DEF IInv
<1>2. QED
  BY <1>1, Invariance, PTL

\* No record stays PENDING, with its flow let through under the provisional
\* verdict, unless a CPU is still going to replace or delete it.
THEOREM PendingOwned == Spec => []PendingHasOwner
<1>1. IInv => PendingHasOwner
  BY DEF IInv
<1>2. QED
  BY <1>1, Invariance, PTL

\* A pending flow has an owner, and a CPU owns one flow at a time.
LEMMA PendingCounted ==
  ASSUME TypeOK, PendingConserved, PendingHasOwner
  PROVE  Cardinality({f \in Flows : flows[f].state = "PENDING"})
           <= pending + Cardinality({c \in CPUs : Here(c, "undo")})
<1> DEFINE Owners  == {c \in CPUs : cpu[c].pc \in Owning}
           Undoing == {c \in CPUs : Here(c, "undo")}
           Owned   == {f \in Flows : \E c \in Owners : cpu[c].flow = f}
           Pendent == {f \in Flows : flows[f].state = "PENDING"}
           owned   == [c \in Owners |-> cpu[c].flow]
<1>1. IsFiniteSet(Owners) /\ IsFiniteSet(Holders) /\ IsFiniteSet(Undoing)
  <2>1. Owners \in SUBSET CPUs /\ Undoing \in SUBSET CPUs
    OBVIOUS
  <2> HIDE DEF Owners, Undoing
  <2>. QED  BY <2>1, CPUAssumption, FS_Subset, HoldersFinite
<1>2. IsFiniteSet(Owned) /\ Cardinality(Owned) <= Cardinality(Owners)
  <2>1. owned \in Surjection(Owners, Owned)
    BY DEF TypeOK, CPUState, Surjection
  <2> HIDE DEF owned, Owners, Owned
  <2>. QED  BY <1>1, <2>1, FS_Surjection
<1>3. Cardinality(Pendent) <= Cardinality(Owned) /\ Cardinality(Pendent) \in Nat
  <2>1. Pendent \in SUBSET Owned
    BY DEF PendingHasOwner, Key, Owning
  <2> HIDE DEF Pendent, Owned
  <2>. QED  BY <1>2, <2>1, FS_Subset, FS_CardinalityType
<1>4. Cardinality(Owners) <= Cardinality(Holders) + Cardinality(Undoing)
  <2>1. Owners \in SUBSET (Holders \cup Undoing)
    BY DEF Holders, Reserving, Owning, Here
  <2> HIDE DEF Owners, Undoing
  <2>2. /\ IsFiniteSet(Holders \cup Undoing)
        /\ Cardinality(Holders \cup Undoing)
             = Cardinality(Holders) + Cardinality(Undoing) - Cardinality(Holders \cap Undoing)
    BY <1>1, FS_Union
  <2>3. IsFiniteSet(Holders \cap Undoing)
    BY <1>1, FS_Subset
  <2>4. Cardinality(Owners) <= Cardinality(Holders \cup Undoing)
    BY <2>1, <2>2, FS_Subset
  <2>. QED  BY <1>1, <2>2, <2>3, <2>4, FS_CardinalityType
<1>5. pending = Cardinality(Holders)
  BY DEF PendingConserved, Holders, Reserving
<1> HIDE DEF Owners, Undoing, Owned, Pendent
<1>6. Cardinality(Pendent) <= pending + Cardinality(Undoing)
  BY <1>1, <1>2, <1>3, <1>4, <1>5, FS_CardinalityType
<1>. QED  BY <1>6 DEF Pendent, Undoing

\* The count is at most some published limit, and the PENDING records outnumber it
\* only by the CPUs between a failed terminal update and the deletion.
THEOREM PendingLimited == Spec => []PendingBounded
<1>1. IInv => PendingBounded
  BY PendingCounted DEF IInv, WithinLimit, PendingBounded
<1>2. QED
  BY <1>1, Invariance, PTL

\* The settled verdict of a record that nobody is about to tag is that of its tag.
LEMMA InvTruthful == IInv => CachedVerdictTruthful
<1> SUFFICES ASSUME IInv, NEW f \in Flows,
                    flows[f].state = "CLASSIFIED", ~BeingTagged(f), ~flows[f].torn
             PROVE  Truthful(f)
  BY DEF CachedVerdictTruthful
<1>1. FlowTags(f) = {}
  BY DEF BeingTagged, FlowTags
<1>2. PICK v \in 1..version : Speaks(v, flows[f].generation, f, flows[f])
  BY <1>1 DEF IInv, FlowsSettled, Settled
<1>3. QED
  BY <1>2 DEF Truthful, Speaks

\* A classified record's verdict is what the generation it is tagged with says of
\* its class, unless packets of two generations met at the record.
THEOREM CachedVerdictsTrue == Spec => []CachedVerdictTruthful
BY InvTruthful, Invariance, PTL

\* A packet that raced with none of another generation leaves with a verdict of the
\* snapshot it copied, whatever was published, deleted, re-evaluated or shed
\* meanwhile: the provisional one while its flow is being classified, else the
\* policy's for the record's class.
THEOREM OwnSnapshotObeyed == Spec => []OwnSnapshotEnforced
<1>1. IInv => OwnSnapshotEnforced
  BY DEF IInv
<1>2. QED
  BY <1>1, Invariance, PTL

--------------------------------------------------------------------------------
(* Where generations do not meet.                                          *)

\* A machine with one CPU; or snapshots that change everything but the policy.
NeverMeet ==
  \/ \A c, d \in CPUs : c = d
  \/ \A v, w \in Versions : Snapshots[v].generation = Snapshots[w].generation

\* No two packets met at a record, in the map or not.
Untorn ==
  /\ \A f \in Flows : ~flows[f].torn
  /\ \A c \in CPUs : ~cpu[c].rec.torn

\* Nobody else re-evaluates the record under another generation.
LEMMA Uncontended ==
  ASSUME NeverMeet, TypeOK, NEW c \in CPUs
  PROVE  ~Meets(c)
<1> SUFFICES ASSUME NEW d \in CPUs \ {c}, Snap(d).generation # Snap(c).generation
             PROVE  FALSE
  BY DEF Meets, Contended, Sharers
<1>1. cpu[c].snap \in Versions /\ cpu[d].snap \in Versions
  BY Typed DEF CPUState
<1>2. QED
  BY <1>1 DEF NeverMeet, Snap

\* What a step brings into a record pointer.
LEMMA RecordStep ==
  ASSUME TypeOK, NEW c \in CPUs, Packet(c), ~Store(c)
  PROVE  cpu'[c].rec \in {cpu[c].rec, Found(c), Absent}
<1> USE GotoStep, EmitPendingStep, PointStep DEF PCs
<1>0. \A v \in {PolicyVerdict(c, Unclassified), Snap(c).provisional} :
        Emit(c, v) => cpu'[c].rec = cpu[c].rec
  BY EmitStep, VerdictTyped, Typed
<1>1. CASE \E f \in Flows : Arrive(c, f)
  BY <1>1, ArriveStep
<1>2. CASE LookupCached(c)
  BY <1>2 DEF LookupCached, Pass
<1>3. CASE LookupMissing(c) \/ Admit(c) \/ Correlate(c) \/ DeleteUnclassified(c)
  BY <1>3 DEF LookupMissing, Admit, Correlate, Pass, DeleteUnclassified
<1>4. CASE CompareGeneration(c) \/ ReadVerdict(c)
  BY <1>4, CompareStep, ReadStep
<1>5. CASE Reserve(c) \/ InsertPending(c) \/ UndoInsert(c)
  BY <1>5 DEF Reserve, InsertPending, Admitted, UndoInsert
<1>6. CASE UpdateTerminal(c)
  BY <1>6, ClassifiedStep DEF UpdateTerminal
<1>7. CASE ReleasePending(c)
  BY <1>0, <1>7 DEF ReleasePending
<1>8. CASE ShedInsert(c) \/ ShedExisting(c)
  BY <1>0, <1>8 DEF ShedInsert, ShedExisting
<1>9. QED
  BY <1>1, <1>2, <1>3, <1>4, <1>5, <1>6, <1>7, <1>8 DEF Packet, Store

\* So no step of a packet tears a record.
LEMMA PacketUntorn ==
  ASSUME NeverMeet, TypeOK, Untorn, NEW c \in CPUs, Packet(c)
  PROVE  Untorn'
<1>1. ~Found(c).torn /\ ~cpu[c].rec.torn /\ ~Absent.torn
  BY Typed DEF Untorn, Found, Absent
<1>2. ~Renewed(c).torn /\ ~Tagged(c).torn
  BY <1>1, Uncontended, RenewedIs, TaggedIs
<1>3. ~Terminal(c).torn /\ \A state, class, v : ~NewRecord(c, state, class, v).torn
  BY DEF Terminal, NewRecord
<1>4. ASSUME NEW f \in Flows PROVE ~flows'[f].torn
  <2>1. flows'[f] = flows[f] => ~flows'[f].torn
    BY DEF Untorn
  <2>2. CASE Store(c)
    BY <1>2, <2>1, <2>2, StoreReaches, WriteStep
  <2>3. CASE ~Store(c)
    BY <1>1, <1>3, <2>1, <2>3, FlowStep
  <2> QED
    BY <2>2, <2>3
<1>5. ASSUME NEW d \in CPUs PROVE ~cpu'[d].rec.torn
  <2>1. cpu'[d] = cpu[d] => ~cpu'[d].rec.torn
    BY DEF Untorn
  <2>2. CASE Store(c)
    BY <1>2, <2>1, <2>2, StoreReaches
  <2>3. CASE ~Store(c)
    BY <1>1, <2>1, <2>3, RecordStep, PacketStep DEF Quiet
  <2> QED
    BY <2>2, <2>3
<1>6. QED
  BY <1>4, <1>5 DEF Untorn

\* Nor does any other step.
LEMMA UntornKept ==
  ASSUME NeverMeet, IInv, Untorn, [Next]_vars
  PROVE  Untorn'
<1>1. ASSUME NEW c \in CPUs, Packet(c) PROVE Untorn'
  BY <1>1, PacketUntorn DEF IInv
<1>2. CASE PublishNext
  BY <1>2 DEF PublishNext, Untorn
<1>3. ASSUME NEW f \in Flows, Collect(f) PROVE Untorn'
  BY <1>3 DEF Collect, Untorn, IInv, TypeOK, Absent
<1>4. CASE UNCHANGED vars
  BY <1>4 DEF vars, Untorn
<1>5. QED
  BY <1>1, <1>2, <1>3, <1>4 DEF Next

\* What the comment of the forward chain says, and flow_torn_tag refutes for two
\* CPUs and two policies, holds of a machine with one CPU, and of any machine while
\* snapshots change everything but the policy: once nobody re-evaluates a classified
\* record, its verdict is that of the generation it carries.
THEOREM UncontendedObeysPolicy ==
  ASSUME NeverMeet
  PROVE  Spec => []NextPacketObeysPolicy
<1>1. Init => Untorn
  <2>1. Init => \A c \in CPUs : cpu[c].rec = Absent
    BY DEF Init
  <2>2. Init => \A f \in Flows : flows[f] = Absent
    BY DEF Init
  <2> QED
    BY <2>1, <2>2 DEF Untorn, Absent
<1>2. IInv /\ Untorn /\ [Next]_vars => Untorn'
  BY UntornKept
<1>3. IInv => CachedVerdictTruthful
  BY InvTruthful
<1>4. Untorn /\ CachedVerdictTruthful => NextPacketObeysPolicy
  BY DEF Untorn, CachedVerdictTruthful, NextPacketObeysPolicy
<1>5. QED
  BY <1>1, <1>2, <1>3, <1>4, Invariance, PTL DEF Spec
================================================================================
