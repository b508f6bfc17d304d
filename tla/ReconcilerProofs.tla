---------------------------- MODULE ReconcilerProofs ----------------------------
(***************************************************************************)
(* Proofs about Reconciler, for any interfaces and desired states and any  *)
(* number of failures, changes and flushes: the types; that one failed     *)
(* command leaves nothing in force that is not counted as applied; that    *)
(* the health check is enough; and that a generation names one policy.     *)
(* The last two under the conditions they need of `bpfctl`.                *)
(***************************************************************************)
EXTENDS Reconciler, TLAPS

--------------------------------------------------------------------------------
(* The inductive invariant and its parts.                                  *)

\* What each variable is.
Contents     == Signatures \cup {None, Partial}
AccessValues == {AccessSignature(d) : d \in Desires} \cup {None, Off}
Kernels    == [loaded : BOOLEAN, enabled : BOOLEAN, enforcing : BOOLEAN,
               generation : Generations, content : [Kinds -> Contents]]
Commitment == [access : AccessValues, application : Application,
               requested : BOOLEAN, usable : BOOLEAN, observing : BOOLEAN]
Counters   == [faults : Nat, changes : Nat, flushes : Nat]
Typed ==
  /\ desire \in Desires
  /\ present \in BOOLEAN /\ timer \in BOOLEAN /\ queued \in BOOLEAN
  /\ kernel \in Kernels
  /\ attached \subseteq Interfaces /\ scope \subseteq Interfaces
  /\ published \subseteq Nat \X Contents
  /\ committed \in Commitment
  /\ pc \in PCs
  /\ IF pc \in Resting THEN attempt = None ELSE attempt \in Attempt
  /\ spent \in Counters

\* Before an attempt publishes, its work is what was committed, with the
\* generations to go on from.
Unpublished == {"access", "decide", "ensure", "attach", "undo", "sync", "restore"}
Applies(app) == app.signature.policy # None

\* Of the three layers of a neutralization, the control record and the scope
\* are enough: with one failure one of them still is neutral.
NotInForce == scope = {} \/ ~kernel.enabled
Neutralized(app) ==
  ~Applies(app) => /\ spent.faults < 2 => NotInForce
                   /\ spent.faults = 0 => scope = {}
Layered ==
  /\ pc \in Unpublished \cup {"idle"} => Neutralized(committed.application)
  /\ pc \in Unpublished => Work.signature = committed.application.signature
  /\ pc \in {"health", "restore"} => Applies(Work)
  /\ pc = "commit" => Neutralized(Work)
  /\ pc \in {"scope at start", "neutral prune", "neutral scope"} =>
       (spent.faults = 0 => ~kernel.enabled)

\* The control record is not ahead of an application that is applied, and where
\* it is level with it, the snapshot is that application's.
Exact(app, ker) ==
  Applies(app) =>
    /\ \E d \in Desires : app.signature = Signature(d) /\ app.enforcing = d.requested
    /\ \A k \in Kinds : ker.generation[k] <= app.generation[k]
    /\ ker.enabled /\ ker.generation = app.generation =>
         ker.content = app.signature /\ ker.enforcing = app.enforcing
Planned ==
  pc \in Unpublished =>
    /\ Work.signature = committed.application.signature
    /\ Work.enforcing = committed.application.enforcing
    /\ Applies(Work) => Work.generation = committed.application.generation
    /\ attempt.changed = [k \in Kinds |->
                            Signature(Want)[k] # committed.application.signature[k]]
Faithful ==
  /\ Planned
  /\ pc \in Resting \cup Unpublished => Exact(committed.application, kernel)
  /\ pc \in {"scope", "prune"} => Exact(Applied, kernel)
  /\ pc \in {"health", "commit"} => Exact(Work, kernel)

\* Every published snapshot of the generation that an application has is one of
\* its policy: generations only grow, from the one in the control record.
Named(app, snapshots) ==
  Applies(app) =>
    \A p \in snapshots : p[1] = app.generation.policy => p[2] = app.signature.policy
Growing ==
  /\ ~Usable => \A k \in Kinds : kernel.generation[k] = 0
  /\ \A p \in published : p[1] <= kernel.generation.policy
  /\ pc \in Unpublished => \A k \in Kinds : kernel.generation[k] <= Work.generation[k]
Naming ==
  /\ Growing
  /\ pc \in Resting \cup Unpublished => Named(committed.application, published)
  /\ pc \in {"scope", "prune"} => Named(Applied, published)
  /\ pc \in {"health", "commit"} => Named(Work, published)

--------------------------------------------------------------------------------
(* Lemmas about the operators.                                             *)

\* A signature has one component of each kind, and is never None.
LEMMA SignatureTyped ==
  ASSUME NEW d \in Desires
  PROVE  /\ Signature(d) \in [Kinds -> Signatures]
         /\ Signature(d).policy # None
         /\ d.interfaces \subseteq Interfaces
         /\ d.requested \in BOOLEAN /\ d.valid \in BOOLEAN
<1>1. \A k \in Kinds : Signature(d)[k] \in Signatures
  BY DEF Signatures
<1>2. Signature(d) = [k \in Kinds |-> Signature(d)[k]]
  BY DEF Signature, Kinds
<1>3. Signature(d) \in [Kinds -> Signatures]
  BY <1>1, <1>2
<1>4. QED
  BY <1>3, SignatureAssumption, DesireAssumption

\* Two policies of one signature request the same.
LEMMA SameRequest ==
  ASSUME NEW c \in Desires, NEW d \in Desires, Signature(c) = Signature(d)
  PROVE  c.requested = d.requested
<1>1. Signature(c).policy = Signature(d).policy
  OBVIOUS
<1>2. <<c.policy, c.interfaces, c.tracking, c.requested>>
        = <<d.policy, d.interfaces, d.tracking, d.requested>>
  BY <1>1 DEF Signature
<1>3. QED
  BY <1>2

\* An application plane that has nothing applied.
LEMMA NoApplicationTyped ==
  /\ NoApplication \in Application /\ NoCommit \in Commitment
  /\ ~Applies(NoApplication) /\ NoCommit.application = NoApplication
<1>1. NoApplication \in Application
  <2>1. [k \in Kinds |-> 0] \in Generations
    BY DEF Generations
  <2>2. [k \in Kinds |-> None] \in [Kinds -> Signatures \cup {None}]
    OBVIOUS
  <2> QED
    BY <2>1, <2>2 DEF NoApplication, Application
<1>2. ~Applies(NoApplication)
  BY DEF NoApplication, Applies, Kinds
<1>3. NoCommit \in Commitment
  BY <1>1 DEF NoCommit, Commitment, AccessValues
<1>4. QED
  BY <1>1, <1>2, <1>3 DEF NoCommit

\* What an unloaded, a loaded and a disabled object is.
LEMMA KernelTyped ==
  /\ Unloaded \in Kernels /\ ~Unloaded.enabled
  /\ Loaded \in Kernels /\ ~Loaded.enabled
  /\ \A k \in Kinds : Unloaded.generation[k] = 0 /\ Loaded.generation[k] = 0
BY DEF Unloaded, Loaded, Kernels, Generations, Contents

\* A disabled object is still the same snapshot.
LEMMA DisabledTyped ==
  ASSUME Typed
  PROVE  /\ Disabled \in Kernels /\ ~Disabled.enabled
         /\ Disabled.generation = kernel.generation
BY DEF Disabled, Typed, Kernels

\* An attempt while one is in progress, and the application it works on.
LEMMA AttemptTyped ==
  ASSUME Typed, pc \notin Resting
  PROVE  /\ attempt \in Attempt
         /\ Want \in Desires /\ attempt.repair \in BOOLEAN
         /\ attempt.changed \in [Kinds -> BOOLEAN]
         /\ Work \in Application
         /\ Work.generation \in Generations
         /\ Work.signature \in [Kinds -> Signatures \cup {None}]
         /\ Work.sources \subseteq Interfaces /\ Work.attached \subseteq Interfaces
         /\ Work.enforcing \in BOOLEAN
         /\ attempt.todo \subseteq Interfaces /\ attempt.added \subseteq Interfaces
         /\ attempt.accessOk \in BOOLEAN
         /\ attempt.result \in [ok : BOOLEAN, tracking : BOOLEAN]
<1>1. attempt \in Attempt
  BY DEF Typed
<1>2. /\ attempt.want \in Desires /\ attempt.work \in Application
      /\ attempt.repair \in BOOLEAN /\ attempt.changed \in [Kinds -> BOOLEAN]
      /\ attempt.todo \subseteq Interfaces /\ attempt.added \subseteq Interfaces
      /\ attempt.accessOk \in BOOLEAN
      /\ attempt.result \in [ok : BOOLEAN, tracking : BOOLEAN]
  BY <1>1 DEF Attempt
<1>3. QED
  BY <1>1, <1>2 DEF Application, Want, Work

\* What a command spends.
LEMMA Spending ==
  ASSUME Typed, NEW what \in {"faults", "changes", "flushes"}, NEW max, Spend(what, max)
  PROVE  /\ spent' \in Counters
         /\ spent'[what] = spent[what] + 1
         /\ what # "faults" => spent'.faults = spent.faults
BY DEF Typed, Spend, Counters

\* A command that succeeds could work, and costs nothing.
LEMMA Succeeding ==
  ASSUME Typed, NEW works, Succeeds(works)
  PROVE  works /\ spent' = spent /\ spent' \in Counters
BY DEF Typed, Succeeds

\* A failure costs a fault unless the command cannot work.
LEMMA Failing ==
  ASSUME Typed, NEW works \in BOOLEAN, Fails(works)
  PROVE  /\ spent' \in Counters
         /\ works => spent'.faults = spent.faults + 1
         /\ ~works => spent' = spent
BY Spending DEF Typed, Fails

\* The plan of an attempt.
LEMMA PlanTyped ==
  ASSUME Typed, NEW repair \in BOOLEAN, NEW floor \in ObservedFloors
  PROVE  /\ Plan(desire, repair, floor) \in Attempt
         /\ Plan(desire, repair, floor).want = desire
         /\ Plan(desire, repair, floor).changed =
              [k \in Kinds |-> Signature(desire)[k] # committed.application.signature[k]]
         /\ Plan(desire, repair, floor).work.signature = committed.application.signature
         /\ Plan(desire, repair, floor).work.enforcing = committed.application.enforcing
         /\ Plan(desire, repair, floor).work.generation =
              Base(floor, committed.application.generation)
<1> DEFINE own == committed.application
<1>1. own \in Application /\ own.generation \in Generations
  BY DEF Typed, Commitment, Application
<1>2. floor \in Generations
  BY NoApplicationTyped DEF ObservedFloors, Typed, Kernels, Application
<1>3. Base(floor, own.generation) \in Generations
  BY <1>1, <1>2 DEF Base, Generations
<1>4. [own EXCEPT !.generation = Base(floor, own.generation)] \in Application
  BY <1>1, <1>3 DEF Application
<1>5. [k \in Kinds |-> Signature(desire)[k] # own.signature[k]] \in [Kinds -> BOOLEAN]
  OBVIOUS
<1>6. Result(FALSE, FALSE) \in [ok : BOOLEAN, tracking : BOOLEAN]
  BY DEF Result
<1>7. desire \in Desires
  BY DEF Typed
<1>8. Plan(desire, repair, floor) \in Attempt
  BY <1>4, <1>5, <1>6, <1>7 DEF Plan, Attempt
<1>9. QED
  BY <1>1, <1>8 DEF Plan, Application

--------------------------------------------------------------------------------
(* Types.                                                                  *)

\* A step of the daemon within an attempt is well typed if what it changes is.
LEMMA TypedWithin ==
  ASSUME Typed, Daemon, pc \notin Resting,
         pc' \in PCs \ Resting, attempt' \in Attempt, spent' \in Counters,
         kernel' \in Kernels, published' \subseteq Nat \X Contents,
         attached' \subseteq Interfaces, scope' \subseteq Interfaces
  PROVE  Typed'
BY DEF Typed, Daemon, worldVars

\* Going on leaves the attempt as it is.
LEMMA Staying ==
  ASSUME Typed, pc \notin Resting, NEW l, Goto(l)
  PROVE  pc' = l /\ attempt' = attempt /\ attempt' \in Attempt
BY AttemptTyped DEF Goto

\* A decision, and the outcome of the access plane, leave the rest of the attempt alone.
LEMMA Going ==
  ASSUME Typed, pc \notin Resting, NEW l,
         \/ Goto(l)
         \/ \E ok, tracking \in BOOLEAN : Move(l, [attempt EXCEPT !.result = Result(ok, tracking)])
         \/ \E ok \in BOOLEAN : Move(l, [attempt EXCEPT !.accessOk = ok])
  PROVE  /\ pc' = l /\ attempt' \in Attempt
         /\ attempt'.want = attempt.want /\ attempt'.repair = attempt.repair
         /\ attempt'.work = attempt.work /\ attempt'.changed = attempt.changed
<1>1. attempt \in Attempt
  BY AttemptTyped
<1>2. CASE Goto(l)
  BY <1>1, <1>2 DEF Goto
<1>3. CASE \E ok, tracking \in BOOLEAN : Move(l, [attempt EXCEPT !.result = Result(ok, tracking)])
  BY <1>1, <1>3 DEF Move, Attempt, Result
<1>5. CASE \E ok \in BOOLEAN : Move(l, [attempt EXCEPT !.accessOk = ok])
  BY <1>1, <1>5 DEF Move, Attempt
<1>6. QED
  BY <1>2, <1>3, <1>5

\* So does listing the interfaces that are to be done.
LEMMA Queueing ==
  ASSUME Typed, pc \notin Resting, NEW l, NEW todo \in SUBSET Interfaces,
         Move(l, [attempt EXCEPT !.todo = todo])
  PROVE  /\ pc' = l /\ attempt' \in Attempt
         /\ attempt'.want = attempt.want /\ attempt'.work = attempt.work
         /\ attempt'.changed = attempt.changed
BY AttemptTyped DEF Move, Attempt

\* Neutralization is begun, or the previous snapshot retained.
LEMMA Neutralizing ==
  ASSUME Typed, pc \notin Resting, NEW ok \in BOOLEAN, Neutralize(ok)
  PROVE  /\ pc' = "neutral disable" /\ attempt' \in Attempt
         /\ attempt'.work = attempt.work /\ attempt'.want = attempt.want
BY Going DEF Neutralize, PCs, Resting

\* Retaining the previous snapshot leaves the work alone.
LEMMA Retaining ==
  ASSUME Typed, pc \notin Resting, Retain
  PROVE  /\ pc' = "restore" /\ attempt' \in Attempt
         /\ attempt'.want = attempt.want /\ attempt'.work = attempt.work
         /\ attempt'.changed = attempt.changed
BY Going DEF Retain, PCs, Resting

\* So does undoing what was attached.
LEMMA Undoing ==
  ASSUME Typed, pc \notin Resting, Undo
  PROVE  /\ pc' = "undo" /\ attempt' \in Attempt
         /\ attempt'.want = attempt.want /\ attempt'.work = attempt.work
         /\ attempt'.changed = attempt.changed
<1>1. attempt.added \ Work.attached \in SUBSET Interfaces
  BY AttemptTyped
<1>2. QED
  BY <1>1, Queueing DEF Undo

\* One interface less to do.
LEMMA Attaching ==
  ASSUME Typed, pc \notin Resting, NEW i \in Interfaces, NEW l,
         \/ Move(l, [attempt EXCEPT !.todo = @ \ {i}, !.added = @ \cup {i}])
         \/ Move(l, [attempt EXCEPT !.todo = @ \ {i}, !.clean = FALSE])
         \/ Move(l, [attempt EXCEPT !.todo = @ \ {i}])
  PROVE  /\ pc' = l /\ attempt' \in Attempt
         /\ attempt'.want = attempt.want /\ attempt'.work = attempt.work
         /\ attempt'.changed = attempt.changed
<1>1. /\ attempt \in Attempt
      /\ attempt.todo \ {i} \in SUBSET Interfaces /\ attempt.added \cup {i} \in SUBSET Interfaces
  BY AttemptTyped
<1>2. CASE Move(l, [attempt EXCEPT !.todo = @ \ {i}, !.added = @ \cup {i}])
  BY <1>1, <1>2 DEF Move, Attempt
<1>3. CASE Move(l, [attempt EXCEPT !.todo = @ \ {i}, !.clean = FALSE])
  BY <1>1, <1>3 DEF Move, Attempt
<1>4. CASE Move(l, [attempt EXCEPT !.todo = @ \ {i}])
  BY <1>1, <1>4 DEF Move, Attempt
<1>5. QED
  BY <1>2, <1>3, <1>4

\* A published snapshot, and the one an attempt would publish.
LEMMA CandidateTyped ==
  ASSUME Typed, pc \notin Resting
  PROVE  /\ Candidate \in Generations
         /\ \A k \in Kinds : Work.generation[k] <= Candidate[k]
         /\ \A k \in Kinds : ~attempt.changed[k] => Candidate[k] = Work.generation[k]
         /\ \A k \in Kinds : attempt.changed[k] => Work.generation[k] < Candidate[k]
<1>1. Work.generation \in Generations /\ attempt.changed \in [Kinds -> BOOLEAN]
  BY AttemptTyped
<1>2. QED
  BY <1>1 DEF Candidate, Generations

\* A published snapshot is enabled, of the candidate generation, and recorded.
LEMMA SnapshotTyped ==
  ASSUME Typed, pc \notin Resting, NEW content \in {Signature(Want), CutOff},
         PublishSnapshot(content)
  PROVE  /\ kernel' \in Kernels /\ published' \subseteq Nat \X Contents
         /\ kernel'.enabled /\ kernel'.enforcing = Want.requested
         /\ kernel'.generation = Candidate /\ kernel'.content = content
         /\ published' = published \cup {<<Candidate.policy, content.policy>>}
<1>1. Candidate \in Generations /\ Want \in Desires /\ Want.requested \in BOOLEAN
  BY CandidateTyped, AttemptTyped, SignatureTyped
<1>2. content \in [Kinds -> Contents]
  BY <1>1, SignatureTyped DEF CutOff, Contents
<1>3. Candidate.policy \in Nat /\ content.policy \in Contents
  BY <1>1, <1>2 DEF Generations, Kinds
<1>4. QED
  BY <1>1, <1>2, <1>3 DEF PublishSnapshot, Snapshot, Kernels, Typed

\* What the attempt has published once everything is in place.
LEMMA AppliedTyped ==
  ASSUME Typed, pc \notin Resting
  PROVE  /\ Applied \in Application
         /\ Applied.signature = Signature(Want) /\ Applies(Applied)
         /\ Applied.generation = Work.generation
         /\ Applied.enforcing = Want.requested
<1>1. /\ Work \in Application /\ Want \in Desires
      /\ Signature(Want) \in [Kinds -> Signatures] /\ Signature(Want).policy # None
      /\ Want.interfaces \subseteq Interfaces /\ Want.requested \in BOOLEAN
  BY AttemptTyped, SignatureTyped
<1>2. QED
  BY <1>1 DEF Applied, Application, Applies

\* What a neutralization leaves of the application.
LEMMA ForgottenTyped ==
  ASSUME Typed, pc \notin Resting, NEW ok \in BOOLEAN, NEW l,
         Move(l, Forgotten(attempt, ok))
  PROVE  /\ pc' = l /\ attempt' \in Attempt
         /\ ~Applies(attempt'.work)
<1> DEFINE work == [NoApplication EXCEPT !.generation = attempt.work.generation,
                                         !.attached = attempt.work.attached]
           result == [attempt.result EXCEPT !.ok = attempt.result.ok /\ ok]
<1>1. /\ attempt.work.generation \in Generations /\ attempt.work.attached \subseteq Interfaces
      /\ attempt.result \in [ok : BOOLEAN, tracking : BOOLEAN] /\ attempt.result.ok \in BOOLEAN
      /\ attempt \in Attempt
  BY AttemptTyped DEF Work
<1>2. work \in Application /\ ~Applies(work)
  BY <1>1, NoApplicationTyped DEF Application, Applies
<1>3. result \in [ok : BOOLEAN, tracking : BOOLEAN]
  BY <1>1
<1> HIDE DEF work, result
<1>4. [attempt EXCEPT !.work = work, !.result = result] \in Attempt
  BY <1>1, <1>2, <1>3 DEF Attempt
<1>5. attempt' = [attempt EXCEPT !.work = work, !.result = result] /\ pc' = l
  BY <1>1 DEF Move, Forgotten, work, result, Attempt
<1>6. QED
  BY <1>1, <1>2, <1>4, <1>5 DEF Attempt

\* What the commands of a neutralization and the commit leave.
LEMMA NotingTyped ==
  ASSUME Typed, pc \notin Resting, NEW ok \in BOOLEAN, NEW l, Noted(l, ok)
  PROVE  pc' = l /\ attempt' \in Attempt /\ attempt'.work = attempt.work
BY AttemptTyped DEF Noted, Move, Attempt

\* Neutralization, publication and application change the work only.
LEMMA WorkTyped ==
  ASSUME Typed, pc \notin Resting, NEW l,
         \/ \E app \in Application, r \in [ok : BOOLEAN, tracking : BOOLEAN] :
              Move(l, [attempt EXCEPT !.work = app, !.result = r])
         \/ \E g \in Generations : Move(l, [attempt EXCEPT !.work.generation = g])
         \/ Move(l, [attempt EXCEPT !.work.attached = {}])
  PROVE  /\ pc' = l /\ attempt' \in Attempt /\ attempt'.want = attempt.want
<1>1. attempt \in Attempt /\ attempt.work \in Application
  BY AttemptTyped DEF Work
<1>2. CASE \E app \in Application, r \in [ok : BOOLEAN, tracking : BOOLEAN] :
             Move(l, [attempt EXCEPT !.work = app, !.result = r])
  BY <1>1, <1>2 DEF Move, Attempt
<1>3. CASE \E g \in Generations : Move(l, [attempt EXCEPT !.work.generation = g])
  <2>1. PICK g \in Generations : Move(l, [attempt EXCEPT !.work.generation = g])
    BY <1>3
  <2>2. [attempt.work EXCEPT !.generation = g] \in Application
    BY <1>1 DEF Application
  <2> QED
    BY <1>1, <2>1, <2>2 DEF Move, Attempt
<1>4. CASE Move(l, [attempt EXCEPT !.work.attached = {}])
  <2>1. [attempt.work EXCEPT !.attached = {}] \in Application
    BY <1>1 DEF Application
  <2> QED
    BY <1>1, <1>4, <2>1 DEF Move, Attempt
<1>5. QED
  BY <1>2, <1>3, <1>4

\* What is committed is the work.
LEMMA CommitTyped ==
  ASSUME Typed, pc \notin Resting
  PROVE  CommitState \in Commitment /\ CommitState.application = Work
<1>1. /\ committed.access \in AccessValues /\ committed.observing \in BOOLEAN
      /\ Want \in Desires /\ Work \in Application
      /\ Want.requested \in BOOLEAN /\ Want.valid \in BOOLEAN
      /\ attempt.result.ok \in BOOLEAN
      /\ AccessSignature(Want) \in AccessValues
  BY AttemptTyped, SignatureTyped DEF Typed, Commitment, AccessValues
<1>2. QED
  BY <1>1 DEF CommitState, Commitment

\* The steps up to the publication keep the types.
LEMMA TypedAttempt ==
  ASSUME Typed, PublishAccess \/ Decide \/ Ensure
                  \/ (\E i \in Interfaces : Attach(i) \/ Detach(i))
                  \/ Attached \/ Sync \/ Undone
  PROVE  Typed'
<1>0. /\ {"neutral disable", "restore", "ensure", "attach", "sync", "undo", "commit",
            "decide", "scope"} \subseteq PCs \ Resting
      /\ {"access", "decide", "ensure", "attach", "sync", "undo"} \cap Resting = {}
  BY DEF PCs, Resting
<1>1. /\ kernel \in Kernels /\ published \subseteq Nat \X Contents /\ spent \in Counters
      /\ attached \subseteq Interfaces /\ scope \subseteq Interfaces /\ present \in BOOLEAN
      /\ kernel.loaded \in BOOLEAN
  BY DEF Typed, Kernels
<1>2. Usable \in BOOLEAN
  BY <1>1 DEF Usable
<1>3. CASE PublishAccess
  <2>1. AccessReady(Want) \in BOOLEAN
    BY DEF AccessReady
  <2>2. spent' \in Counters
    BY <1>3, <2>1, Succeeding, Failing DEF PublishAccess
  <2>3. pc' = "decide" /\ attempt' \in Attempt
    BY <1>0, <1>3, Going DEF PublishAccess
  <2> QED
    BY <1>1, <1>3, <2>2, <2>3, TypedWithin, <1>0 DEF PublishAccess, kernelVars
<1>4. CASE Decide
  <2>1. pc' \in PCs \ Resting /\ attempt' \in Attempt
    <3>1. pc \notin Resting
      BY <1>0, <1>4 DEF Decide
    <3>2. Neutralize(TRUE) \/ Neutralize(FALSE) \/ Retain \/ Goto("ensure")
      BY <1>4 DEF Decide
    <3> QED
      BY <1>0, <3>1, <3>2, Neutralizing, Retaining, Staying
  <2> QED
    BY <1>1, <1>4, <2>1, TypedWithin, <1>0 DEF Decide, kernelVars, nftVars
<1>5. CASE Ensure
  <2>1. pc' \in PCs \ Resting /\ attempt' \in Attempt
    <3>1. CASE Neutralize(FALSE)
      BY <1>0, <1>5, <3>1, Neutralizing DEF Ensure
    <3>2. CASE ~Neutralize(FALSE)
      <4>1. Want.interfaces \in SUBSET Interfaces
            /\ Want.interfaces \ Work.attached \in SUBSET Interfaces
        BY <1>0, <1>5, AttemptTyped, SignatureTyped DEF Ensure
      <4>2. PICK todo \in SUBSET Interfaces : Move("attach", [attempt EXCEPT !.todo = todo])
        BY <1>5, <3>2, <4>1 DEF Ensure
      <4>3. pc \notin Resting
        BY <1>0, <1>5 DEF Ensure
      <4> QED
        <5>1. pc' = "attach" /\ attempt' \in Attempt
          BY <4>2, <4>3, Queueing
        <5> QED
          BY <1>0, <5>1
    <3> QED
      BY <3>1, <3>2
  <2>2. spent' \in Counters /\ kernel' \in Kernels /\ published' \subseteq Nat \X Contents
    BY <1>1, <1>5, Succeeding, Failing, KernelTyped DEF Ensure
  <2> QED
    BY <1>1, <1>5, <2>1, <2>2, TypedWithin, <1>0 DEF Ensure, nftVars
<1>6. ASSUME NEW i \in Interfaces, Attach(i) \/ Detach(i)
      PROVE  Typed'
  <2>1. pc' \in PCs \ Resting /\ attempt' \in Attempt
    BY <1>0, <1>6, Attaching DEF Attach, Detach
  <2>2. spent' \in Counters /\ attached' \subseteq Interfaces
    BY <1>1, <1>2, <1>6, Succeeding, Failing DEF Attach, Detach
  <2> QED
    BY <1>1, <1>6, <2>1, <2>2, TypedWithin, <1>0 DEF Attach, Detach, nftVars
<1>7. CASE Attached \/ Undone
  <2>1. pc' \in PCs /\ spent' = spent
        /\ pc' \notin Resting /\ attempt' \in Attempt
    <3>1. pc \notin Resting
      BY <1>0, <1>7 DEF Attached, Undone
    <3>2. Undo \/ Retain \/ Goto("sync") \/ Goto("commit")
      BY <1>7 DEF Attached, Undone
    <3>3. spent' = spent
      BY <1>7 DEF Attached, Undone
    <3> QED
      BY <1>0, <3>1, <3>2, <3>3, Undoing, Retaining, Staying
  <2> QED
    BY <1>1, <1>7, <2>1, TypedWithin, <1>0 DEF Attached, Undone, kernelVars, nftVars
<1>8. CASE Sync
  <2>1. pc' \in PCs /\ pc' \notin Resting /\ attempt' \in Attempt
    <3>1. pc \notin Resting /\ Candidate \in Generations
      BY <1>0, <1>8, CandidateTyped DEF Sync
    <3>2. Goto("scope") \/ Undo \/ Move("scope", [attempt EXCEPT !.work.generation = Candidate])
      BY <1>8 DEF Sync
    <3> QED
      BY <1>0, <3>1, <3>2, Staying, Undoing, WorkTyped
  <2>2. spent' \in Counters
    BY <1>1, <1>2, <1>8, Succeeding, Failing DEF Sync
  <2>3. kernel' \in Kernels /\ published' \subseteq Nat \X Contents
    BY <1>0, <1>1, <1>8, SnapshotTyped DEF Sync
  <2> QED
    BY <1>1, <1>8, <2>1, <2>2, <2>3, TypedWithin, <1>0 DEF Sync, nftVars
<1>9. QED
  BY <1>3, <1>4, <1>5, <1>6, <1>7, <1>8

\* So do those after it, and those of a neutralization.
LEMMA TypedFinish ==
  ASSUME Typed, Restore \/ Scope \/ Prune \/ Health
                  \/ NeutralDisable \/ NeutralPrune \/ NeutralScope
  PROVE  Typed'
<1>0. /\ {"health", "prune", "neutral disable", "neutral prune", "neutral scope", "commit"}
           \subseteq PCs \ Resting
      /\ {"restore", "scope", "prune", "health", "neutral disable", "neutral prune",
          "neutral scope"} \cap Resting = {}
  BY DEF PCs, Resting
<1>1. /\ kernel \in Kernels /\ published \subseteq Nat \X Contents /\ spent \in Counters
      /\ attached \subseteq Interfaces /\ scope \subseteq Interfaces /\ present \in BOOLEAN
      /\ kernel.loaded \in BOOLEAN
  BY DEF Typed, Kernels
<1>2. pc \notin Resting
  BY <1>0 DEF Restore, Scope, Prune, Health, NeutralDisable, NeutralPrune, NeutralScope
<1>3. Healthy \in BOOLEAN
  BY <1>1 DEF Healthy, Usable
<1>4. spent' \in Counters
  BY <1>1, <1>3, Succeeding, Failing
  DEF Restore, Scope, Prune, Health, NeutralDisable, NeutralPrune, NeutralScope
<1>5. CASE Restore \/ Scope \/ Health
  <2>1. Neutralize(FALSE) \/ Goto("health") \/ Goto("prune") \/ Goto("commit")
    BY <1>5 DEF Restore, Scope, Health
  <2>2. pc' \in PCs \ Resting /\ attempt' \in Attempt
    <3>1. CASE Neutralize(FALSE)
      BY <1>0, <1>2, <3>1, Neutralizing
    <3>2. CASE ~Neutralize(FALSE)
      BY <1>0, <1>2, <2>1, <3>2, AttemptTyped DEF Goto
    <3> QED
      BY <3>1, <3>2
  <2>3. scope' \subseteq Interfaces
    BY <1>1, <1>2, <1>5, AttemptTyped, SignatureTyped DEF Restore, Scope, Health, nftVars
  <2> QED
    BY <1>1, <1>2, <1>4, <1>5, <2>2, <2>3, TypedWithin DEF Restore, Scope, Health, kernelVars
<1>6. CASE Prune
  <2>1. pc' \in PCs \ Resting /\ attempt' \in Attempt
    <3>1. CASE Neutralize(FALSE)
      BY <1>0, <1>2, <3>1, Neutralizing
    <3>2. CASE Move("health", [attempt EXCEPT !.work = Applied, !.result = Result(TRUE, TRUE)])
      <4>1. Result(TRUE, TRUE) \in [ok : BOOLEAN, tracking : BOOLEAN]
        BY DEF Result
      <4>2. pc' = "health" /\ attempt' \in Attempt
        BY <1>2, <3>2, <4>1, AppliedTyped, WorkTyped
      <4> QED
        BY <1>0, <4>2
    <3> QED
      BY <1>6, <3>1, <3>2 DEF Prune
  <2>2. attached' \subseteq Interfaces
    BY <1>1, <1>6 DEF Prune, Pruned, PartlyPruned
  <2> QED
    BY <1>1, <1>2, <1>4, <1>6, <2>1, <2>2, TypedWithin DEF Prune, nftVars
<1>7. CASE NeutralDisable
  <2>1. pc' \in PCs \ Resting /\ attempt' \in Attempt
    BY <1>0, <1>2, <1>7, NotingTyped DEF NeutralDisable
  <2>2. kernel' \in Kernels
    BY <1>1, <1>7, DisabledTyped DEF NeutralDisable
  <2> QED
    BY <1>1, <1>2, <1>4, <1>7, <2>1, <2>2, TypedWithin DEF NeutralDisable, nftVars
<1>8. CASE NeutralPrune
  <2>1. pc' \in PCs \ Resting /\ attempt' \in Attempt
    BY <1>0, <1>2, <1>8, NotingTyped, WorkTyped DEF NeutralPrune
  <2>2. attached' \subseteq Interfaces
    BY <1>1, <1>8 DEF NeutralPrune, Pruned, PartlyPruned
  <2> QED
    BY <1>1, <1>2, <1>4, <1>8, <2>1, <2>2, TypedWithin DEF NeutralPrune, nftVars
<1>9. CASE NeutralScope
  <2>1. pc' \in PCs \ Resting /\ attempt' \in Attempt
    BY <1>0, <1>2, <1>9, ForgottenTyped DEF NeutralScope
  <2>2. scope' \subseteq Interfaces
    BY <1>1, <1>9 DEF NeutralScope
  <2> QED
    BY <1>1, <1>2, <1>4, <1>9, <2>1, <2>2, TypedWithin DEF NeutralScope, kernelVars
<1>10. QED
  BY <1>5, <1>6, <1>7, <1>8, <1>9

\* So do the beginning and the end of an attempt, and whatever happens around it.
LEMMA TypedOutside ==
  ASSUME Typed, Commit \/ Crash \/ Start \/ StartDisable \/ StartScope
                  \/ Wakeup \/ Observe \/ Flush \/ World
  PROVE  Typed'
<1>0. /\ {"idle", "down", "disable at start", "scope at start"} \subseteq PCs \cap Resting
      /\ {"commit", "sync"} \cap Resting = {} /\ "access" \in PCs \ Resting
  BY DEF PCs, Resting
<1>1. /\ kernel \in Kernels /\ published \subseteq Nat \X Contents /\ spent \in Counters
      /\ attached \subseteq Interfaces /\ scope \subseteq Interfaces
      /\ committed \in Commitment /\ desire \in Desires /\ present \in BOOLEAN
  BY DEF Typed
<1>2. ASSUME NEW repair \in BOOLEAN, Begin(repair)
      PROVE  pc' \in PCs \ Resting /\ attempt' \in Attempt
  BY <1>0, <1>2, PlanTyped DEF Begin, Move
<1>3. CASE Wakeup
  <2>1. pc' \in PCs \ Resting /\ attempt' \in Attempt
    BY <1>2, <1>3 DEF Wakeup
  <2> QED
    BY <1>3, <2>1 DEF Typed, Wakeup, Begin, worldVars, kernelVars, nftVars
<1>4. CASE Flush
  <2>1. CASE Begin(FALSE)
    <3>1. pc' \in PCs \ Resting /\ attempt' \in Attempt
      BY <1>2, <2>1
    <3> QED
      BY <1>4, <2>1, <3>1 DEF Typed, Flush, Begin, worldVars, kernelVars, nftVars
  <2>2. CASE ~Begin(FALSE)
    BY <1>4, <2>2 DEF Typed, Flush, worldVars, kernelVars, nftVars
  <2> QED
    BY <2>1, <2>2
<1>5. CASE Observe
  <2>1. spent' \in Counters
    BY <1>1, <1>5, Spending DEF Observe
  <2> QED
    BY <1>5, <2>1 DEF Typed, Observe, worldVars, kernelVars, nftVars
<1>6. CASE Commit
  <2>1. committed' \in Commitment /\ pc' = "idle" /\ attempt' = None
    BY <1>0, <1>6, CommitTyped DEF Commit, Move
  <2> QED
    BY <1>0, <1>6, <2>1 DEF Typed, Commit, worldVars, kernelVars, nftVars
<1>7. CASE Crash
  <2>1. committed' \in Commitment /\ pc' = "down" /\ attempt' = None /\ spent' \in Counters
    BY <1>7, NoApplicationTyped, Spending DEF Crash, Move
  <2>2. kernel' \in Kernels /\ published' \subseteq Nat \X Contents
    BY <1>0, <1>1, <1>7, SnapshotTyped DEF Crash
  <2> QED
    BY <1>0, <1>7, <2>1, <2>2 DEF Typed, Crash, worldVars, nftVars
<1>8. CASE Start \/ StartDisable \/ StartScope
  <2>1. pc' \in PCs \cap Resting /\ pc \in Resting /\ attempt' = attempt
    BY <1>0, <1>8 DEF Start, StartDisable, StartScope, Goto
  <2>2. spent' \in Counters /\ kernel' \in Kernels /\ scope' \subseteq Interfaces
    BY <1>1, <1>8, Succeeding, Failing, DisabledTyped
    DEF Start, StartDisable, StartScope, kernelVars, nftVars
  <2> QED
    BY <1>8, <2>1, <2>2
    DEF Typed, Start, StartDisable, StartScope, Daemon, worldVars, kernelVars, nftVars
<1>9. CASE World
  <2>1. Change
    BY <1>9 DEF World, Reconfigure, ReloadFirewall, RecreateInterface, RemoveBackend,
       InstallBackend
  <2>2. spent' \in Counters
    BY <2>1, Spending DEF Change
  <2>3. /\ kernel' \in Kernels /\ attached' \subseteq Interfaces /\ scope' \subseteq Interfaces
        /\ published' \subseteq Nat \X Contents /\ desire' \in Desires /\ present' \in BOOLEAN
    BY <1>1, <1>9, KernelTyped
    DEF World, Reconfigure, ReloadFirewall, RecreateInterface, RemoveBackend,
        InstallBackend, kernelVars, nftVars, worldVars
  <2> QED
    BY <2>1, <2>2, <2>3 DEF Typed, Change
<1>10. QED
  BY <1>3, <1>4, <1>5, <1>6, <1>7, <1>8, <1>9

\* The types hold at first.
LEMMA InitTyped == Init => Typed
<1> SUFFICES ASSUME Init
             PROVE  Typed
  OBVIOUS
<1>1. kernel \in Kernels /\ committed \in Commitment
  BY KernelTyped, NoApplicationTyped DEF Init
<1>2. spent \in Counters
  BY DEF Init, Counters
<1>3. pc \in PCs /\ pc \in Resting
  BY DEF Init, PCs, Resting
<1>4. QED
  BY <1>1, <1>2, <1>3 DEF Init, Typed

\* Every step keeps the types.
LEMMA TypedStep == Typed /\ [Next]_vars => Typed'
<1> SUFFICES ASSUME Typed, [Next]_vars
             PROVE  Typed'
  OBVIOUS
<1>1. CASE Next
  BY <1>1, TypedAttempt, TypedFinish, TypedOutside DEF Next, Step
<1>2. CASE UNCHANGED vars
  BY <1>2 DEF Typed, vars
<1>3. QED
  BY <1>1, <1>2

\* Every state is well typed.
THEOREM TypeCorrect == Spec => []TypeOK
<1>1. Typed => TypeOK
  <2> SUFFICES ASSUME Typed
               PROVE  TypeOK
    OBVIOUS
  <2>1. /\ kernel.loaded \in BOOLEAN /\ kernel.enabled \in BOOLEAN
        /\ kernel.enforcing \in BOOLEAN /\ kernel.generation \in Generations
        /\ committed.application \in Application
    BY DEF Typed, Kernels, Commitment
  <2> QED
    BY <2>1 DEF Typed, TypeOK
<1>2. QED
  BY <1>1, InitTyped, TypedStep, PTL DEF Spec

--------------------------------------------------------------------------------
(* What the steps do, as far as the invariant is concerned.                *)

\* Other than by a publication, the object only becomes more neutral.
Calm ==
  \/ kernel' = kernel /\ published' = published
  \/ kernel' = Disabled /\ published' = published
  \/ kernel' \in {Loaded, Unloaded} /\ published' = {}

\* Up to its publication, an attempt leaves its work, the commitment and the
\* scope alone.
LEMMA Preparing ==
  ASSUME Typed,
         \/ PublishAccess \/ Decide \/ Ensure \/ Attached \/ Undone
         \/ \E i \in Interfaces : Attach(i) \/ Detach(i)
         \/ Sync /\ pc' = "undo"
  PROVE  /\ pc \in Unpublished \ {"restore"}
         /\ pc' \in Unpublished \cup {"neutral disable", "commit"}
         /\ pc' = "restore" => Applies(Work)
         /\ Work' = Work /\ Want' = Want /\ attempt'.changed = attempt.changed
         /\ committed' = committed /\ scope' = scope /\ present' = present
         /\ spent.faults <= spent'.faults
         /\ \/ Calm
            \/ /\ "WRITE_CUT_SHORT" \in Conditions
               /\ spent.faults < spent'.faults
               /\ Usable /\ PublishSnapshot(CutOff)
<1>0. /\ Unpublished \cap Resting = {}
      /\ Unpublished = {"access", "decide", "ensure", "attach", "undo", "sync", "restore"}
  BY DEF Unpublished, Resting
<1>1. ASSUME NEW works \in BOOLEAN, Succeeds(works) \/ Fails(works)
      PROVE  spent.faults <= spent'.faults
  <2>1. spent.faults \in Nat
    BY DEF Typed, Counters
  <2> QED
    BY <1>1, <2>1, Succeeding, Failing
<1>2. kernel.loaded \in BOOLEAN /\ Usable \in BOOLEAN /\ present \in BOOLEAN
  BY DEF Typed, Kernels, Usable
<1>3. spent.faults <= spent.faults
  BY DEF Typed, Counters
<1> DEFINE Same == /\ Work' = Work /\ Want' = Want
                   /\ attempt'.changed = attempt.changed
<1>4. pc \notin Resting /\ attempt' = attempt => Same
  BY DEF Work, Want
<1>5. pc \notin Resting /\ Undo => Same /\ pc' = "undo"
  BY Undoing DEF Work, Want
<1>6. pc \notin Resting /\ Retain => Same /\ pc' = "restore"
  BY Retaining DEF Work, Want
<1>7. ASSUME NEW ok \in BOOLEAN, pc \notin Resting, Neutralize(ok)
      PROVE  Same /\ pc' = "neutral disable"
  <2>1. attempt \in Attempt
    BY <1>7, AttemptTyped
  <2> QED
    BY <1>7, <2>1 DEF Work, Want, Neutralize, Move, Attempt
<1> HIDE DEF Same
<1>8. CASE PublishAccess
  <2>1. AccessReady(Want) \in BOOLEAN
    BY DEF AccessReady
  <2>2. \E ok \in BOOLEAN : Move("decide", [attempt EXCEPT !.accessOk = ok])
    BY <1>8 DEF PublishAccess
  <2>3. attempt \in Attempt
    BY <1>0, <1>8, AttemptTyped DEF PublishAccess
  <2>4. Same /\ pc' = "decide"
    BY <2>2, <2>3 DEF Same, Work, Want, Move, Attempt
  <2>5. spent.faults <= spent'.faults
    BY <1>1, <1>8, <2>1 DEF PublishAccess
  <2> QED
    BY <1>0, <1>8, <2>4, <2>5 DEF PublishAccess, Daemon, worldVars, kernelVars, Calm, Same
<1>9. CASE Decide
  <2>1. pc \notin Resting /\ pc = "decide"
    BY <1>0, <1>9 DEF Decide
  <2>2. /\ Same /\ pc' \in {"neutral disable", "restore", "ensure"}
        /\ pc' = "restore" => PreviouslyEnabled
    BY <1>4, <1>6, <1>7, <1>9, <2>1 DEF Decide, Goto
  <2> QED
    BY <1>0, <1>3, <1>9, <2>1, <2>2
    DEF Decide, Daemon, worldVars, kernelVars, nftVars, Calm, Same, PreviouslyEnabled, Applies
<1>10. CASE Ensure
  <2>1. pc \notin Resting /\ pc = "ensure"
    BY <1>0, <1>10 DEF Ensure
  <2>2. Same /\ pc' \in {"neutral disable", "attach"}
    <3>1. CASE Neutralize(FALSE)
      BY <1>7, <2>1, <3>1
    <3>2. CASE ~Neutralize(FALSE)
      <4>1. attempt \in Attempt
        BY <2>1, AttemptTyped
      <4>2. PICK todo : Move("attach", [attempt EXCEPT !.todo = todo])
        BY <1>10, <3>2 DEF Ensure
      <4> QED
        BY <4>1, <4>2 DEF Same, Work, Want, Move, Attempt
    <3> QED
      BY <3>1, <3>2
  <2>3. spent.faults <= spent'.faults
    BY <1>1, <1>2, <1>10 DEF Ensure
  <2>4. Calm
    BY <1>10 DEF Ensure, Calm
  <2> QED
    BY <1>0, <1>10, <2>1, <2>2, <2>3, <2>4 DEF Ensure, Daemon, worldVars, nftVars, Same
<1>11. ASSUME NEW i \in Interfaces, Attach(i) \/ Detach(i)
       PROVE  /\ pc \in {"attach", "undo"} /\ pc' = pc /\ Same
              /\ spent.faults <= spent'.faults
  <2>1. pc \notin Resting /\ pc \in {"attach", "undo"}
    BY <1>0, <1>11 DEF Attach, Detach
  <2>2. pc' = pc /\ Same
    BY <1>11, <2>1, Attaching DEF Attach, Detach, Same, Work, Want
  <2> QED
    BY <1>1, <1>2, <1>11, <2>1, <2>2 DEF Attach, Detach
<1>12. CASE \E i \in Interfaces : Attach(i) \/ Detach(i)
  BY <1>0, <1>11, <1>12 DEF Attach, Detach, Daemon, worldVars, nftVars, Calm, Same
<1>13. CASE Attached \/ Undone
  <2>1. pc \notin Resting /\ pc \in {"attach", "undo"}
    BY <1>0, <1>13 DEF Attached, Undone
  <2>2. /\ Same /\ pc' \in {"undo", "restore", "sync", "commit"}
        /\ pc' = "restore" => PreviouslyEnabled
    BY <1>4, <1>5, <1>6, <1>13, <2>1 DEF Attached, Undone, Goto
  <2> QED
    BY <1>0, <1>3, <1>13, <2>1, <2>2
    DEF Attached, Undone, Daemon, worldVars, kernelVars, nftVars, Calm, Same,
        PreviouslyEnabled, Applies
<1>14. CASE Sync /\ pc' = "undo"
  <2>1. pc = "sync" /\ pc \notin Resting
    BY <1>0, <1>14 DEF Sync
  <2>2. Fails(Usable) /\ Undo
    BY <1>14 DEF Sync, Goto, Move
  <2>3. Calm \/ ("WRITE_CUT_SHORT" \in Conditions /\ Usable /\ PublishSnapshot(CutOff))
    BY <1>14 DEF Sync, Goto, Move, Calm
  <2>4. spent.faults <= spent'.faults /\ (Usable => spent.faults < spent'.faults)
    BY <1>2, <1>3, <2>2, Failing DEF Typed, Counters
  <2> QED
    BY <1>0, <1>5, <1>14, <2>1, <2>2, <2>3, <2>4 DEF Sync, Daemon, worldVars, nftVars, Same
<1>15. QED
  BY <1>8, <1>9, <1>10, <1>12, <1>13, <1>14

\* An attempt begins with what is committed.
LEMMA Beginning ==
  ASSUME Typed, NEW repair \in BOOLEAN, Begin(repair)
  PROVE  /\ pc = "idle" /\ pc' = "access"
         /\ Work'.signature = committed.application.signature
         /\ Work'.enforcing = committed.application.enforcing
         /\ attempt'.changed =
              [k \in Kinds |-> Signature(Want')[k] # committed.application.signature[k]]
         /\ \E floor \in ObservedFloors :
              Work'.generation = Base(floor, committed.application.generation)
<1>1. PICK floor \in ObservedFloors : Move("access", Plan(desire, repair, floor))
  BY DEF Begin
<1>2. attempt' = Plan(desire, repair, floor) /\ pc' = "access" /\ pc = "idle"
  BY <1>1 DEF Begin, Move
<1>3. /\ attempt'.want = desire
      /\ attempt'.work.signature = committed.application.signature
      /\ attempt'.work.enforcing = committed.application.enforcing
      /\ attempt'.work.generation = Base(floor, committed.application.generation)
      /\ attempt'.changed =
           [k \in Kinds |-> Signature(desire)[k] # committed.application.signature[k]]
  <2> DEFINE p == Plan(desire, repair, floor)
  <2>1. /\ p.want = desire
        /\ p.work.signature = committed.application.signature
        /\ p.work.enforcing = committed.application.enforcing
        /\ p.work.generation = Base(floor, committed.application.generation)
        /\ p.changed =
             [k \in Kinds |-> Signature(desire)[k] # committed.application.signature[k]]
    BY PlanTyped
  <2>2. attempt' = p
    BY <1>2
  <2> HIDE DEF p
  <2> QED
    BY <2>1, <2>2
<1>4. Want' = desire /\ Work' = attempt'.work
  BY <1>3 DEF Want, Work
<1>5. QED
  BY <1>2, <1>3, <1>4

\* A published snapshot is the attempt's own, or one that does not differ.
LEMMA Syncing ==
  ASSUME Typed, Sync, pc' # "undo"
  PROVE  /\ pc = "sync" /\ pc' = "scope" /\ Want' = Want
         /\ \/ ~PublishDue /\ Work' = Work /\ kernel' = kernel /\ published' = published
            \/ /\ PublishSnapshot(Signature(Want))
               /\ Work'.generation = Candidate
               /\ Usable /\ present' = present
<1>1. pc = "sync" /\ pc \notin Resting /\ ~Undo
  BY DEF Sync, Resting, Undo, Move
<1>2. CASE ~PublishDue /\ Goto("scope") /\ UNCHANGED <<kernel, published, spent>>
  BY <1>1, <1>2 DEF Goto, Work, Want
<1>3. CASE PublishSnapshot(Signature(Want))
             /\ Move("scope", [attempt EXCEPT !.work.generation = Candidate])
             /\ Succeeds(Usable)
  <2>1. attempt \in Attempt /\ attempt.work \in Application
    BY <1>1, AttemptTyped DEF Work
  <2>2. Work'.generation = Candidate /\ Want' = Want /\ pc' = "scope"
    BY <1>3, <2>1 DEF Move, Work, Want, Attempt, Application
  <2> QED
    BY <1>1, <1>3, <2>2, Succeeding DEF Sync, Daemon, worldVars
<1>4. QED
  BY <1>1, <1>2, <1>3 DEF Sync

\* The health check passed, or the neutralization begins.
LEMMA Checking ==
  ASSUME Typed, Restore \/ Scope \/ Prune \/ Health
  PROVE  /\ Calm
         /\ \/ pc' = "neutral disable"
            \/ Restore /\ pc = "restore" /\ pc' = "health" /\ Work' = Work
            \/ Scope /\ pc = "scope" /\ pc' = "prune" /\ Applied' = Applied
            \/ Prune /\ pc = "prune" /\ pc' = "health" /\ Work' = Applied
            \/ Health /\ pc = "health" /\ pc' = "commit" /\ Work' = Work /\ Healthy
<1>1. pc \notin Resting
  BY DEF Restore, Scope, Prune, Health, Resting
<1>2. attempt \in Attempt
  BY <1>1, AttemptTyped
<1>3. Calm
  BY DEF Restore, Scope, Prune, Health, kernelVars, Calm
<1>4. ASSUME Neutralize(FALSE)
      PROVE  pc' = "neutral disable"
  BY <1>1, <1>4, Neutralizing
<1>5. CASE Restore
  BY <1>3, <1>4, <1>5 DEF Restore, Goto, Work
<1>6. CASE Scope
  BY <1>3, <1>4, <1>6 DEF Scope, Goto, Applied, Work, Want
<1>7. CASE Prune
  <2>1. CASE Move("health", [attempt EXCEPT !.work = Applied, !.result = Result(TRUE, TRUE)])
    BY <1>2, <1>3, <1>7, <2>1 DEF Prune, Move, Work, Attempt
  <2> QED
    BY <1>3, <1>4, <1>7, <2>1 DEF Prune
<1>8. CASE Health
  BY <1>3, <1>4, <1>8 DEF Health, Goto, Work, Succeeds
<1>9. QED
  BY <1>5, <1>6, <1>7, <1>8

\* Each step of a neutralization works or costs a fault.
LEMMA Neutering ==
  ASSUME Typed, NeutralDisable \/ NeutralPrune \/ NeutralScope
  PROVE  /\ Calm
         /\ spent.faults \in Nat
         /\ \/ pc = "neutral disable" /\ pc' = "neutral prune"
               /\ (~kernel'.enabled \/ spent.faults < spent'.faults)
            \/ pc = "neutral prune" /\ pc' = "neutral scope"
               /\ kernel' = kernel /\ spent.faults <= spent'.faults
            \/ /\ pc = "neutral scope" /\ pc' = "commit" /\ ~Applies(Work')
               /\ kernel' = kernel
               /\ \/ scope' = {} /\ spent' = spent
                  \/ spent'.faults = spent.faults + 1
<1>1. pc \notin Resting
  BY DEF NeutralDisable, NeutralPrune, NeutralScope, Resting
<1>2. Calm
  BY DEF NeutralDisable, NeutralPrune, NeutralScope, kernelVars, Calm
<1>3. spent.faults \in Nat
  BY DEF Typed, Counters
<1>4. Succeeds(TRUE) => spent' = spent
  BY DEF Succeeds
<1>5. Fails(TRUE) => spent'.faults = spent.faults + 1
  BY Failing
<1>7. CASE NeutralDisable
  <2>1. pc = "neutral disable" /\ pc' = "neutral prune"
    BY <1>7 DEF NeutralDisable, Noted, Move
  <2>2. (Succeeds(TRUE) /\ kernel' = Disabled) \/ Fails(TRUE)
    BY <1>7 DEF NeutralDisable
  <2>3. ~kernel'.enabled \/ spent.faults < spent'.faults
    <3>1. CASE kernel' = Disabled
      BY <3>1, DisabledTyped
    <3>2. CASE Fails(TRUE)
      BY <1>3, <1>5, <3>2
    <3> QED
      BY <2>2, <3>1, <3>2
  <2> QED
    BY <1>2, <1>3, <2>1, <2>3
<1>8. CASE NeutralPrune
  <2>1. pc = "neutral prune" /\ pc' = "neutral scope" /\ kernel' = kernel
    BY <1>8 DEF NeutralPrune, Noted, Move
  <2>2. Succeeds(TRUE) \/ Fails(TRUE)
    BY <1>8 DEF NeutralPrune
  <2>3. spent.faults <= spent'.faults
    <3>1. CASE Succeeds(TRUE)
      BY <1>3, <3>1 DEF Succeeds
    <3>2. CASE Fails(TRUE)
      BY <1>3, <1>5, <3>2
    <3> QED
      BY <2>2, <3>1, <3>2
  <2> QED
    BY <1>2, <1>3, <2>1, <2>3
<1>9. CASE NeutralScope
  <2>1. pc' = "commit" /\ ~Applies(Work')
    BY <1>1, <1>9, ForgottenTyped DEF NeutralScope, Work
  <2> QED
    BY <1>2, <1>3, <1>4, <1>5, <1>9, <2>1 DEF NeutralScope, kernelVars
<1>10. QED
  BY <1>7, <1>8, <1>9

\* The world only takes away.
LEMMA Changing ==
  ASSUME Typed, World
  PROVE  /\ pc' = pc /\ attempt' = attempt /\ committed' = committed
         /\ spent'.faults = spent.faults
         /\ scope' = scope \/ scope' = {}
         /\ \/ kernel' = kernel /\ published' = published
               /\ (present' = present \/ present' = TRUE)
            \/ kernel' = Unloaded /\ published' = {}
<1>1. Change
  BY DEF World, Reconfigure, ReloadFirewall, RecreateInterface, RemoveBackend, InstallBackend
<1>2. spent'.faults = spent.faults
  BY <1>1, Spending DEF Change
<1>3. QED
  BY <1>1, <1>2 DEF World, Reconfigure, ReloadFirewall, RecreateInterface, RemoveBackend,
     InstallBackend, Change, kernelVars, nftVars, worldVars

--------------------------------------------------------------------------------
(* Layers.                                                                 *)

\* An object that becomes more neutral stays out of force.
LEMMA CalmLayers ==
  ASSUME Typed, Calm, NotInForce, scope' = scope \/ scope' = {}
  PROVE  NotInForce'
BY KernelTyped, DisabledTyped DEF Calm, NotInForce

\* What is neutralized stays so, unless more commands fail.
LEMMA NeutralizedKept ==
  ASSUME Typed, NEW app, Neutralized(app), Calm, scope' = scope \/ scope' = {},
         spent'.faults = spent.faults
  PROVE  ~Applies(app) => /\ spent'.faults < 2 => NotInForce'
                          /\ spent'.faults = 0 => scope' = {}
BY CalmLayers DEF Neutralized

\* Faults are only spent.
LEMMA Faults ==
  ASSUME NEW a \in Nat, NEW b \in Nat
  PROVE  /\ a <= b => (b < 2 => a < 2) /\ (b = 0 => a = 0)
         /\ a < b \/ b = a + 1 => (b < 2 => a = 0) /\ b # 0
OBVIOUS

\* Every step keeps the layers.
LEMMA LayeredStep ==
  ASSUME Typed, Layered, [Next]_vars
  PROVE  Layered'
<1>0. Unpublished = {"access", "decide", "ensure", "attach", "undo", "sync", "restore"}
  BY DEF Unpublished
<1>f. spent.faults \in Nat /\ spent'.faults \in Nat
  BY TypedStep DEF Typed, Counters
<1>g. /\ spent.faults <= spent'.faults =>
           (spent'.faults < 2 => spent.faults < 2) /\ (spent'.faults = 0 => spent.faults = 0)
      /\ spent.faults < spent'.faults \/ spent'.faults = spent.faults + 1 =>
           (spent'.faults < 2 => spent.faults = 0) /\ spent'.faults # 0
  BY <1>f, Faults
<1>1. ASSUME PublishAccess \/ Decide \/ Ensure \/ Attached \/ Undone
               \/ (\E i \in Interfaces : Attach(i) \/ Detach(i))
               \/ (Sync /\ pc' = "undo")
      PROVE  Layered'
  <2>1. /\ pc \in Unpublished \ {"restore"}
        /\ pc' \in Unpublished \cup {"neutral disable", "commit"}
        /\ pc' = "restore" => Applies(Work)
        /\ Work' = Work /\ committed' = committed /\ scope' = scope
        /\ spent.faults <= spent'.faults
        /\ \/ Calm
           \/ spent.faults < spent'.faults
    BY <1>1, Preparing
  <2>2. Neutralized(committed.application)
        /\ Work.signature = committed.application.signature
    BY <2>1 DEF Layered
  <2>4. ~Applies(committed.application) =>
           /\ spent'.faults < 2 => NotInForce'
           /\ spent'.faults = 0 => scope' = {}
    <3>1. CASE Calm
      BY <1>g, <2>1, <2>2, <3>1, CalmLayers DEF Neutralized
    <3>2. CASE spent.faults < spent'.faults
      BY <1>g, <2>1, <2>2, <3>2 DEF Neutralized, NotInForce
    <3> QED
      BY <2>1, <3>1, <3>2
  <2>5. Neutralized(committed.application)' /\ Neutralized(Work)'
    BY <2>1, <2>2, <2>4 DEF Neutralized, Applies
  <2> QED
    BY <1>0, <2>1, <2>2, <2>5 DEF Layered, Applies
<1>2. CASE Sync /\ pc' # "undo"
  <2>1. pc' = "scope"
    BY <1>2, Syncing
  <2> QED
    BY <1>0, <2>1 DEF Layered
<1>3. CASE Restore \/ Scope \/ Prune \/ Health
  <2>1. pc' = "health" => Applies(Work')
    <3>1. CASE Prune /\ pc = "prune" /\ pc' = "health" /\ Work' = Applied
      BY <3>1, AppliedTyped DEF Resting
    <3>2. CASE Restore /\ pc = "restore" /\ Work' = Work
      BY <3>2 DEF Layered
    <3> QED
      BY <1>3, <3>1, <3>2, Checking
  <2>2. pc' = "commit" => Applies(Work')
    BY <1>3, Checking DEF Layered
  <2>3. pc' \in {"neutral disable", "health", "prune", "commit"}
    BY <1>3, Checking
  <2> QED
    BY <1>0, <2>1, <2>2, <2>3 DEF Layered, Neutralized, Applies
<1>4. CASE NeutralDisable \/ NeutralPrune \/ NeutralScope
  <2>1. pc' \in {"neutral prune", "neutral scope"} => (spent'.faults = 0 => ~kernel'.enabled)
    <3>1. CASE pc' = "neutral prune"
      BY <1>g, <1>4, <3>1, Neutering
    <3>2. CASE pc' = "neutral scope"
      BY <1>g, <1>4, <3>2, Neutering DEF Layered
    <3> QED
      BY <3>1, <3>2
  <2>2. pc' = "commit" => Neutralized(Work)'
    <3> SUFFICES ASSUME pc' = "commit"
                 PROVE  Neutralized(Work)'
      OBVIOUS
    <3>1. /\ pc = "neutral scope" /\ kernel' = kernel
          /\ \/ scope' = {} /\ spent' = spent
             \/ spent'.faults = spent.faults + 1
      BY <1>4, Neutering
    <3>2. spent.faults = 0 => ~kernel.enabled
      BY <3>1 DEF Layered
    <3> QED
      BY <1>g, <3>1, <3>2 DEF Neutralized, NotInForce
  <2>3. pc' \in {"neutral prune", "neutral scope", "commit"}
    BY <1>4, Neutering
  <2> QED
    BY <1>0, <2>1, <2>2, <2>3 DEF Layered
<1>5. CASE Commit
  <2>1. pc = "commit" /\ pc' = "idle" /\ committed'.application = Work
    BY <1>5, CommitTyped DEF Commit, Move, Resting
  <2>2. Neutralized(Work) /\ kernel' = kernel /\ scope' = scope /\ spent' = spent
    BY <1>5, <2>1 DEF Layered, Commit, kernelVars, nftVars
  <2>3. Neutralized(committed.application)'
    BY <2>1, <2>2 DEF Neutralized, NotInForce, Applies
  <2> QED
    BY <1>0, <2>1, <2>3 DEF Layered
<1>6. CASE Crash \/ Start
  <2>1. pc' \in {"down", "disable at start"}
    BY <1>6 DEF Crash, Start, Move, Goto
  <2> QED
    BY <1>0, <2>1 DEF Layered
<1>7. CASE StartDisable
  <2>1. pc' = "scope at start" /\ (kernel' = Disabled \/ Fails(TRUE))
    BY <1>7 DEF StartDisable, Goto
  <2>2. spent'.faults = 0 => ~kernel'.enabled
    <3>1. CASE kernel' = Disabled
      BY <3>1, DisabledTyped
    <3>2. CASE Fails(TRUE)
      BY <1>f, <1>g, <3>2, Failing
    <3> QED
      BY <2>1, <3>1, <3>2
  <2> QED
    BY <1>0, <2>1, <2>2 DEF Layered
<1>8. CASE StartScope
  <2>1. pc = "scope at start" /\ pc' = "idle" /\ kernel' = kernel
    BY <1>8 DEF StartScope, Goto, kernelVars
  <2>2. scope' = {} \/ spent'.faults = spent.faults + 1
    BY <1>8, Failing DEF StartScope
  <2>3. spent.faults = 0 => ~kernel.enabled
    BY <2>1 DEF Layered
  <2>4. Neutralized(committed.application)'
    BY <1>g, <2>1, <2>2, <2>3 DEF Neutralized, NotInForce
  <2> QED
    BY <1>0, <2>1, <2>4 DEF Layered
<1>9. ASSUME NEW repair \in BOOLEAN, Begin(repair), spent' = spent, Next
      PROVE  Layered'
  <2>1. /\ pc = "idle" /\ pc' = "access"
        /\ Work'.signature = committed.application.signature
    BY <1>9, Beginning
  <2>2. committed' = committed /\ kernel' = kernel /\ scope' = scope
    BY <1>9 DEF Begin, kernelVars, nftVars
  <2>3. Neutralized(committed.application)'
    BY <1>9, <2>1, <2>2 DEF Layered, Neutralized, NotInForce, Applies
  <2> QED
    BY <1>0, <2>1, <2>2, <2>3 DEF Layered
<1>10. ASSUME pc' = pc, attempt' = attempt, committed' = committed,
              spent'.faults = spent.faults, scope' = scope \/ scope' = {}, Calm
       PROVE  Layered'
  <2>1. Neutralized(committed.application) => Neutralized(committed.application)'
    BY <1>10, NeutralizedKept DEF Neutralized
  <2>2. Neutralized(Work) => Neutralized(Work)'
    BY <1>10, NeutralizedKept DEF Neutralized, Work
  <2>3. ~kernel.enabled => ~kernel'.enabled
    BY <1>10, KernelTyped, DisabledTyped DEF Calm
  <2> QED
    BY <1>10, <2>1, <2>2, <2>3 DEF Layered, Work, Applies
<1>11. CASE World
  <2>1. Calm
    BY <1>11, Changing DEF Calm
  <2> QED
    BY <1>10, <1>11, <2>1, Changing
<1>12. CASE Wakeup
  BY <1>9, <1>12 DEF Wakeup, Next
<1>13. CASE Flush
  <2>1. CASE Begin(FALSE)
    BY <1>9, <1>13, <2>1 DEF Flush, Next
  <2>2. CASE ~Begin(FALSE)
    BY <1>10, <1>13, <2>2 DEF Flush, kernelVars, nftVars, Calm
  <2> QED
    BY <2>1, <2>2
<1>14. CASE Observe
  <2>1. spent'.faults = spent.faults
    BY <1>14, Spending DEF Observe
  <2> QED
    BY <1>10, <1>14, <2>1 DEF Observe, kernelVars, nftVars, Calm
<1>15. CASE UNCHANGED vars
  BY <1>10, <1>15 DEF vars, Calm
<1>16. QED
  BY <1>1, <1>2, <1>3, <1>4, <1>5, <1>6, <1>7, <1>8, <1>11, <1>12, <1>13, <1>14, <1>15
  DEF Next, Step

\* Nothing is in force at first.
LEMMA InitLayered == Init => Layered
<1> SUFFICES ASSUME Init
             PROVE  pc = "down" /\ Layered
  OBVIOUS
<1>1. pc = "down"
  BY DEF Init
<1>2. QED
  BY <1>1 DEF Layered, Unpublished

\* One failed command never leaves application filtering in force between
\* reconciliations when the daemon does not count it as applied.
THEOREM OneFaultIsNeutral == Spec => []SingleFaultNeutral
<1>1. Layered => SingleFaultNeutral
  <2> SUFFICES ASSUME Layered, pc = "idle", ~IsApplied, spent.faults < 2
               PROVE  ~Dropping
    BY DEF SingleFaultNeutral
  <2>1. Neutralized(committed.application) /\ ~Applies(committed.application)
    BY DEF Layered, IsApplied, Applies
  <2> QED
    BY <2>1 DEF Neutralized, NotInForce, Dropping
<1>2. QED
  BY <1>1, InitTyped, TypedStep, InitLayered, LayeredStep, PTL DEF Spec

--------------------------------------------------------------------------------
(* What the daemon counts as applied.                                      *)

\* An object that becomes more neutral is as exact as it was.
LEMMA ExactKept ==
  ASSUME Typed, NEW app \in Application, Exact(app, kernel), Calm
  PROVE  Exact(app, kernel')
<1>1. kernel \in Kernels /\ kernel.generation \in Generations
  BY DEF Typed, Kernels
<1>2. \A k \in Kinds : 0 <= app.generation[k]
  BY DEF Application, Generations
<1>3. CASE kernel' = kernel
  BY <1>3
<1>4. CASE kernel' = Disabled
  <2>1. ~kernel'.enabled /\ kernel'.generation = kernel.generation
    BY <1>4, DisabledTyped
  <2> QED
    BY <2>1 DEF Exact
<1>5. CASE kernel' \in {Loaded, Unloaded}
  <2>1. ~kernel'.enabled /\ \A k \in Kinds : kernel'.generation[k] = 0
    BY <1>5, KernelTyped
  <2> QED
    BY <1>2, <2>1 DEF Exact
<1>6. QED
  BY <1>3, <1>4, <1>5 DEF Calm

\* Of an application, these three matter.
LEMMA ExactSame ==
  ASSUME NEW app, NEW other, NEW ker, Exact(app, ker),
         other.signature = app.signature, other.enforcing = app.enforcing,
         Applies(app) => other.generation = app.generation
  PROVE  Exact(other, ker)
BY DEF Exact, Applies

\* When nothing changed, what was committed is what is wanted.
LEMMA Unchanged ==
  ASSUME Typed, pc = "sync", Planned, ~\E k \in Kinds : attempt.changed[k]
  PROVE  /\ Signature(Want) = Work.signature
         /\ Signature(Want) = committed.application.signature
         /\ Applies(Work) /\ Applies(committed.application)
         /\ Work.generation = committed.application.generation
<1>1. pc \in Unpublished /\ pc \notin Resting
  BY DEF Unpublished, Resting
<1>2. Want \in Desires /\ Signature(Want) \in [Kinds -> Signatures] /\ Signature(Want).policy # None
  BY <1>1, AttemptTyped, SignatureTyped
<1>3. Work.signature \in [Kinds -> Signatures \cup {None}]
  BY <1>1, AttemptTyped
<1>4. \A k \in Kinds : Signature(Want)[k] = Work.signature[k]
  <2>1. /\ Work.signature = committed.application.signature
        /\ attempt.changed =
             [k \in Kinds |-> Signature(Want)[k] # committed.application.signature[k]]
    BY <1>1 DEF Planned
  <2>2. \A k \in Kinds : ~attempt.changed[k]
    OBVIOUS
  <2>. QED  BY <2>1, <2>2
<1>5. Signature(Want) = Work.signature
  BY <1>2, <1>3, <1>4
<1>6. QED
  BY <1>1, <1>2, <1>5 DEF Planned, Applies

\* The plan stands as long as nothing is published.
LEMMA PlannedKept ==
  ASSUME Planned, pc \in Unpublished, Work' = Work, Want' = Want, committed' = committed,
         attempt'.changed = attempt.changed
  PROVE  Planned'
BY DEF Planned, Applies

\* An attempt goes on from the generations of what is applied.
LEMMA BaseKept ==
  ASSUME Typed, Applies(committed.application), Exact(committed.application, kernel),
         NEW floor \in ObservedFloors
  PROVE  Base(floor, committed.application.generation) = committed.application.generation
<1> DEFINE own == committed.application.generation
<1>1. own \in Generations /\ \A k \in Kinds : own[k] \in Nat
  BY DEF Typed, Commitment, Application, Generations
<1>2. \A k \in Kinds : floor[k] <= own[k]
  <2>1. \A k \in Kinds : kernel.generation[k] <= own[k]
    BY DEF Exact
  <2>2. \A k \in Kinds : NoApplication.generation[k] = 0
    BY DEF NoApplication
  <2>3. floor = kernel.generation \/ floor = NoApplication.generation
    BY DEF ObservedFloors
  <2> QED
    BY <1>1, <2>1, <2>2, <2>3
<1>3. \A k \in Kinds : ~(floor[k] > own[k])
  <2>1. \A k \in Kinds : floor[k] \in Nat
    BY NoApplicationTyped DEF ObservedFloors, Typed, Kernels, Application, Generations
  <2> QED
    BY <1>1, <1>2, <2>1
<1>4. Base(floor, own) = [k \in Kinds |-> own[k]]
  BY <1>3 DEF Base
<1>5. QED
  BY <1>1, <1>4 DEF Generations

\* Every step keeps the control record and what is applied in agreement, if no
\* publication is cut off without being found out.
LEMMA FaithfulStep ==
  ASSUME "WRITE_CUT_SHORT" \notin Conditions, Typed, Layered, Faithful, [Next]_vars
  PROVE  Faithful'
<1>0. Unpublished = {"access", "decide", "ensure", "attach", "undo", "sync", "restore"}
      /\ Resting = {"down", "disable at start", "scope at start", "idle"}
  BY DEF Unpublished, Resting
<1>a. committed.application \in Application
  BY DEF Typed, Commitment
<1>1. ASSUME PublishAccess \/ Decide \/ Ensure \/ Attached \/ Undone
               \/ (\E i \in Interfaces : Attach(i) \/ Detach(i))
               \/ (Sync /\ pc' = "undo")
      PROVE  Faithful'
  <2>1. /\ pc \in Unpublished
        /\ pc' \in Unpublished \cup {"neutral disable", "commit"}
        /\ Work' = Work /\ Want' = Want /\ committed' = committed
        /\ attempt'.changed = attempt.changed
        /\ Calm
    BY <1>1, Preparing
  <2>2. Planned /\ Exact(committed.application, kernel)
    BY <2>1 DEF Faithful
  <2>3. Planned'
    BY <2>1, <2>2, PlannedKept
  <2>4. Exact(committed.application, kernel')
    BY <1>a, <2>1, <2>2, ExactKept
  <2>5. Exact(Work, kernel')
    BY <2>1, <2>2, <2>4, ExactSame DEF Planned, Applies
  <2> QED
    BY <1>0, <2>1, <2>3, <2>4, <2>5 DEF Faithful
<1>2. CASE Sync /\ pc' # "undo"
  <2>1. pc = "sync" /\ pc' = "scope" /\ Want' = Want
    BY <1>2, Syncing
  <2>2. Want \in Desires
    BY <2>1, AttemptTyped DEF Resting
  <2>3. /\ Applied'.signature = Signature(Want) /\ Applied'.enforcing = Want.requested
        /\ Applied'.generation = Work'.generation
    <3>1. Typed' /\ pc' \notin Resting
      BY <2>1, TypedStep DEF Resting
    <3>2. /\ Applied.signature = Signature(Want) /\ Applied.enforcing = Want.requested
          /\ Applied.generation = Work.generation
      BY <2>1, AppliedTyped DEF Resting
    <3>3. Work' \in Application /\ Want' \in Desires
      <4>1. attempt' \in Attempt
        BY <3>1 DEF Typed
      <4> QED
        BY <4>1 DEF Attempt, Work, Want
    <3> QED
      BY <2>1, <3>3 DEF Applied, Application
  <2>4. CASE ~PublishDue /\ Work' = Work /\ kernel' = kernel
    <3>1. ~\E k \in Kinds : attempt.changed[k]
      BY <2>4 DEF PublishDue
    <3>2. /\ Exact(committed.application, kernel) /\ Planned
      BY <1>0, <2>1 DEF Faithful
    <3>3. /\ Signature(Want) = committed.application.signature
          /\ Applies(committed.application)
          /\ Work.generation = committed.application.generation
      BY <2>1, <3>1, <3>2, Unchanged
    <3>4. PICK d \in Desires : /\ committed.application.signature = Signature(d)
                               /\ committed.application.enforcing = d.requested
      BY <3>2, <3>3 DEF Exact
    <3>5. Want.requested = d.requested
      BY <2>2, <3>3, <3>4, SameRequest
    <3>6. Exact(Applied', kernel')
      BY <2>3, <2>4, <3>2, <3>3, <3>4, <3>5, ExactSame
    <3> QED
      BY <1>0, <2>1, <3>6 DEF Faithful, Planned
  <2>5. CASE PublishSnapshot(Signature(Want)) /\ Work'.generation = Candidate
    <3>1. /\ kernel'.generation = Candidate /\ kernel'.content = Signature(Want)
          /\ kernel'.enforcing = Want.requested
      BY <2>1, <2>5, SnapshotTyped DEF Resting
    <3>2. \A k \in Kinds : Candidate[k] <= Candidate[k]
      BY <2>1, CandidateTyped DEF Resting, Generations
    <3>3. Exact(Applied', kernel')
      BY <2>2, <2>3, <2>5, <3>1, <3>2 DEF Exact
    <3> QED
      BY <1>0, <2>1, <3>3 DEF Faithful, Planned
  <2> QED
    BY <1>2, <2>4, <2>5, Syncing
<1>3. CASE Restore \/ Scope \/ Prune \/ Health
  <2>1. Calm
    BY <1>3, Checking
  <2>2. CASE pc' = "neutral disable"
    BY <1>0, <2>2 DEF Faithful, Planned
  <2>3. CASE pc = "restore" /\ pc' = "health" /\ Work' = Work
    <3>1. Planned /\ Exact(committed.application, kernel)
      BY <1>0, <2>3 DEF Faithful
    <3>2. Exact(committed.application, kernel')
      BY <1>a, <2>1, <3>1, ExactKept
    <3>3. Exact(Work, kernel')
      BY <1>0, <2>3, <3>1, <3>2, ExactSame DEF Planned, Applies
    <3> QED
      BY <1>0, <2>3, <3>3 DEF Faithful, Planned
  <2>4. CASE pc = "scope" /\ pc' = "prune" /\ Applied' = Applied
    <3>1. Exact(Applied, kernel) /\ Applied \in Application
      BY <2>4, AppliedTyped DEF Faithful, Resting
    <3>2. Exact(Applied, kernel')
      BY <2>1, <3>1, ExactKept
    <3> QED
      BY <1>0, <2>4, <3>2 DEF Faithful, Planned
  <2>5. CASE pc = "prune" /\ pc' = "health" /\ Work' = Applied
    <3>1. Exact(Applied, kernel) /\ Applied \in Application
      BY <2>5, AppliedTyped DEF Faithful, Resting
    <3>2. Exact(Applied, kernel')
      BY <2>1, <3>1, ExactKept
    <3> QED
      BY <1>0, <2>5, <3>2 DEF Faithful, Planned
  <2>6. CASE pc = "health" /\ pc' = "commit" /\ Work' = Work
    <3>1. Exact(Work, kernel) /\ Work \in Application
      BY <2>6, AttemptTyped DEF Faithful, Resting
    <3>2. Exact(Work, kernel')
      BY <2>1, <3>1, ExactKept
    <3> QED
      BY <1>0, <2>6, <3>2 DEF Faithful, Planned
  <2> QED
    BY <1>3, <2>2, <2>3, <2>4, <2>5, <2>6, Checking
<1>4. CASE NeutralDisable \/ NeutralPrune \/ NeutralScope
  <2>1. pc' \in {"neutral prune", "neutral scope"} \/ (pc' = "commit" /\ ~Applies(Work'))
    BY <1>4, Neutering
  <2>2. ~Applies(Work') => Exact(Work', kernel')
    BY DEF Exact
  <2> QED
    BY <1>0, <2>1, <2>2 DEF Faithful, Planned
<1>5. CASE Commit
  <2>1. pc = "commit" /\ pc' = "idle" /\ committed'.application = Work /\ kernel' = kernel
    BY <1>5, CommitTyped DEF Commit, Move, Resting, kernelVars
  <2>2. Exact(committed'.application, kernel')
    BY <2>1 DEF Faithful
  <2> QED
    BY <1>0, <2>1, <2>2 DEF Faithful, Planned
<1>6. CASE Crash
  <2>1. pc' = "down" /\ ~Applies(committed'.application)
    BY <1>6, NoApplicationTyped DEF Crash, Move
  <2>2. Exact(committed'.application, kernel')
    BY <2>1 DEF Exact
  <2> QED
    BY <1>0, <2>1, <2>2 DEF Faithful, Planned
<1>7. CASE Start \/ StartDisable \/ StartScope
  <2>1. /\ pc \in Resting /\ pc' \in Resting /\ committed' = committed /\ Calm
    BY <1>7 DEF Start, StartDisable, StartScope, Goto, Daemon, Calm, kernelVars, Resting
  <2>2. Exact(committed.application, kernel')
    BY <1>a, <2>1, ExactKept DEF Faithful
  <2> QED
    BY <1>0, <2>1, <2>2 DEF Faithful, Planned
<1>8. ASSUME NEW repair \in BOOLEAN, Begin(repair)
      PROVE  Faithful'
  <2>1. /\ pc = "idle" /\ pc' = "access"
        /\ Work'.signature = committed.application.signature
        /\ Work'.enforcing = committed.application.enforcing
        /\ attempt'.changed =
             [k \in Kinds |-> Signature(Want')[k] # committed.application.signature[k]]
        /\ \E floor \in ObservedFloors :
             Work'.generation = Base(floor, committed.application.generation)
    BY <1>8, Beginning
  <2>2. committed' = committed /\ kernel' = kernel
    BY <1>8 DEF Begin, kernelVars
  <2>3. Exact(committed.application, kernel)
    BY <1>0, <2>1 DEF Faithful
  <2>4. Applies(Work') => Work'.generation = committed.application.generation
    BY <2>1, <2>3, BaseKept DEF Applies
  <2>5. Planned'
    BY <2>1, <2>2, <2>4 DEF Planned, Applies
  <2> QED
    BY <1>0, <2>1, <2>2, <2>3, <2>5 DEF Faithful
<1>9. ASSUME pc' = pc, attempt' = attempt, committed' = committed, Calm
      PROVE  Faithful'
  <2>1. Planned'
    BY <1>9 DEF Faithful, Planned, Work, Want, Applies
  <2>2. pc \in Resting \cup Unpublished => Exact(committed.application, kernel')
    BY <1>a, <1>9, ExactKept DEF Faithful
  <2>3. pc \in {"scope", "prune"} => Exact(Applied, kernel')
    BY <1>0, <1>9, ExactKept, AppliedTyped DEF Faithful
  <2>4. pc \in {"health", "commit"} => Exact(Work, kernel')
    BY <1>0, <1>9, ExactKept, AttemptTyped DEF Faithful
  <2>5. Applied' = Applied /\ Work' = Work
    BY <1>9 DEF Applied, Work, Want
  <2> QED
    BY <1>9, <2>1, <2>2, <2>3, <2>4, <2>5 DEF Faithful
<1>10. CASE World
  <2>1. Calm
    BY <1>10, Changing DEF Calm
  <2> QED
    BY <1>9, <1>10, <2>1, Changing
<1>11. CASE Wakeup
  BY <1>8, <1>11 DEF Wakeup
<1>12. CASE Flush
  <2>1. CASE Begin(FALSE)
    BY <1>8, <2>1
  <2>2. CASE ~Begin(FALSE)
    BY <1>9, <1>12, <2>2 DEF Flush, kernelVars, Calm
  <2> QED
    BY <2>1, <2>2
<1>13. CASE Observe
  BY <1>9, <1>13 DEF Observe, kernelVars, Calm
<1>14. CASE UNCHANGED vars
  BY <1>9, <1>14 DEF vars, Calm
<1>15. QED
  BY <1>1, <1>2, <1>3, <1>4, <1>5, <1>6, <1>7, <1>10, <1>11, <1>12, <1>13, <1>14
  DEF Next, Step

\* Nothing is applied at first.
LEMMA InitFaithful == Init => Faithful
<1> SUFFICES ASSUME Init
             PROVE  Faithful
  OBVIOUS
<1>1. pc = "down" /\ ~Applies(committed.application)
  BY NoApplicationTyped DEF Init
<1>2. QED
  BY <1>1 DEF Faithful, Planned, Unpublished, Exact

\* The health check compares generations only, and that is enough, unless a
\* publication that was cut off can carry the generation of what it replaces.
THEOREM HealthSuffices ==
  ASSUME "WRITE_CUT_SHORT" \notin Conditions
  PROVE  Spec => HealthIsEnough
<1>1. ASSUME Typed, Layered, Faithful, [Next]_vars, pc = "health", pc' = "commit"
      PROVE  kernel.content = Work.signature /\ kernel.enforcing = Work.enforcing
  <2>1. Healthy
    <3>1. CASE Next
      <4>1. CASE Health
        BY <1>1, <4>1, Checking
      <4>2. CASE World
        BY <1>1, <4>2, Changing
      <4>3. CASE Crash \/ Wakeup \/ Observe \/ Flush
        BY <1>1, <4>3 DEF Crash, Wakeup, Observe, Flush, Begin, Move
      <4> QED
        BY <1>1, <3>1, <4>1, <4>2, <4>3
        DEF Next, Step, PublishAccess, Decide, Ensure, Attach, Attached, Sync, Detach,
            Undone, Restore, Scope, Prune, NeutralDisable, NeutralPrune, NeutralScope, Commit,
            Start, StartDisable, StartScope
    <3>2. CASE UNCHANGED vars
      BY <1>1, <3>2 DEF vars
    <3> QED
      BY <1>1, <3>1, <3>2
  <2>2. Exact(Work, kernel) /\ Applies(Work)
    BY <1>1 DEF Faithful, Layered
  <2> QED
    BY <2>1, <2>2 DEF Exact, Healthy
<1>2. ASSUME Typed, Layered, Faithful, [Next]_vars
      PROVE  [pc = "health" /\ pc' = "commit" =>
                /\ kernel.content = Work.signature
                /\ kernel.enforcing = Work.enforcing]_vars
  BY <1>1, <1>2
<1>3. QED
  BY <1>2, InitTyped, TypedStep, InitLayered, LayeredStep, InitFaithful, FaithfulStep, PTL
  DEF Spec, HealthIsEnough

--------------------------------------------------------------------------------
(* Generations.                                                            *)

\* An object that becomes more neutral has published no more.
LEMMA NamedKept ==
  ASSUME NEW app, Named(app, published), Calm
  PROVE  Named(app, published')
BY DEF Named, Calm

\* Of an application, these two matter.
LEMMA NamedSame ==
  ASSUME NEW app, NEW other, NEW snapshots, Named(app, snapshots),
         other.signature = app.signature, Applies(app) => other.generation = app.generation
  PROVE  Named(other, snapshots)
BY DEF Named, Applies

\* While nothing is published, the generations that were stay behind.
LEMMA GrowingCalm ==
  ASSUME Typed, Growing, Calm, present' = present \/ present' = TRUE \/ kernel' = Unloaded
  PROVE  /\ ~Usable' => \A k \in Kinds : kernel'.generation[k] = 0
         /\ \A p \in published' : p[1] <= kernel'.generation.policy
         /\ \A k \in Kinds : kernel'.generation[k] <= kernel.generation[k]
<1>1. \A k \in Kinds : kernel.generation[k] \in Nat
  BY DEF Typed, Kernels, Generations
<1>2. CASE kernel' = kernel /\ published' = published
  <2>1. ~Usable' => ~Usable \/ kernel' = Unloaded
    BY <1>2 DEF Usable
  <2> QED
    BY <1>1, <1>2, <2>1, KernelTyped DEF Growing
<1>3. CASE kernel' = Disabled /\ published' = published
  <2>1. kernel'.generation = kernel.generation /\ kernel'.loaded = kernel.loaded
    BY <1>3, DisabledTyped DEF Disabled, Typed, Kernels
  <2>2. ~Usable' => ~Usable \/ kernel' = Unloaded
    BY <2>1 DEF Usable
  <2> QED
    BY <1>1, <1>3, <2>1, <2>2, KernelTyped DEF Growing
<1>4. CASE kernel' \in {Loaded, Unloaded} /\ published' = {}
  BY <1>1, <1>4, KernelTyped
<1>5. QED
  BY <1>2, <1>3, <1>4 DEF Calm

\* A publication is ahead of all that were before it.
LEMMA GrowingPublished ==
  ASSUME Typed, Growing, pc = "sync", NEW content \in {Signature(Want), CutOff},
         PublishSnapshot(content)
  PROVE  /\ kernel'.generation = Candidate
         /\ \A p \in published : p[1] <= Work.generation.policy
         /\ \A p \in published' : p[1] <= kernel'.generation.policy
<1>1. pc \notin Resting /\ pc \in Unpublished
  BY DEF Resting, Unpublished
<1>2. /\ kernel'.generation = Candidate
      /\ published' = published \cup {<<Candidate.policy, content.policy>>}
  BY <1>1, SnapshotTyped
<1>3. "policy" \in Kinds
  BY DEF Kinds
<1>4. /\ kernel.generation.policy \in Nat /\ Work.generation.policy \in Nat
      /\ Candidate.policy \in Nat /\ Work.generation.policy <= Candidate.policy
  BY <1>1, <1>3, AttemptTyped, CandidateTyped DEF Typed, Kernels, Generations
<1>5. kernel.generation.policy <= Work.generation.policy
  BY <1>1, <1>3 DEF Growing
<1>6. \A p \in published : p[1] \in Nat /\ p[1] <= kernel.generation.policy
  BY DEF Typed, Growing
<1>7. \A p \in published : p[1] <= Work.generation.policy /\ p[1] <= Candidate.policy
  BY <1>4, <1>5, <1>6
<1>8. QED
  BY <1>2, <1>4, <1>7

\* The generations an attempt goes on from are not behind the control record's.
LEMMA BaseGrows ==
  ASSUME Typed, Growing, "GENERATIONS_UNREADABLE" \notin Conditions,
         NEW floor \in ObservedFloors
  PROVE  \A k \in Kinds :
           kernel.generation[k] <= Base(floor, committed.application.generation)[k]
<1> DEFINE own == committed.application.generation
<1>1. \A k \in Kinds : own[k] \in Nat /\ kernel.generation[k] \in Nat
  BY DEF Typed, Commitment, Application, Kernels, Generations
<1>2. floor = IF Usable THEN kernel.generation ELSE NoApplication.generation
  BY DEF ObservedFloors, Usable
<1>3. \A k \in Kinds : kernel.generation[k] = floor[k]
  BY <1>2 DEF Growing, NoApplication
<1>4. \A k \in Kinds : Base(floor, own)[k] = IF floor[k] > own[k] THEN floor[k] ELSE own[k]
  BY DEF Base
<1>5. QED
  BY <1>1, <1>3, <1>4

\* Every step keeps a generation to one policy, if the control record can be
\* read and no publication is cut off without being found out.
LEMMA NamingStep ==
  ASSUME Conditions \cap {"GENERATIONS_UNREADABLE", "WRITE_CUT_SHORT"} = {},
         Typed, Layered, Faithful, Naming, [Next]_vars
  PROVE  Naming'
<1>0. Unpublished = {"access", "decide", "ensure", "attach", "undo", "sync", "restore"}
      /\ Resting = {"down", "disable at start", "scope at start", "idle"}
  BY DEF Unpublished, Resting
<1>a. Growing /\ "policy" \in Kinds
  BY DEF Naming, Kinds
<1>1. ASSUME PublishAccess \/ Decide \/ Ensure \/ Attached \/ Undone
               \/ (\E i \in Interfaces : Attach(i) \/ Detach(i))
               \/ (Sync /\ pc' = "undo")
      PROVE  Naming'
  <2>1. /\ pc \in Unpublished
        /\ pc' \in Unpublished \cup {"neutral disable", "commit"}
        /\ Work' = Work /\ committed' = committed /\ present' = present
        /\ Calm
    BY <1>1, Preparing
  <2>2. /\ ~Usable' => \A k \in Kinds : kernel'.generation[k] = 0
        /\ \A p \in published' : p[1] <= kernel'.generation.policy
        /\ \A k \in Kinds : kernel'.generation[k] <= kernel.generation[k]
    BY <1>a, <2>1, GrowingCalm
  <2>3. \A k \in Kinds : kernel.generation[k] <= Work.generation[k]
    BY <1>a, <2>1 DEF Growing
  <2>4. \A k \in Kinds : kernel'.generation[k] \in Nat /\ kernel.generation[k] \in Nat
                         /\ Work.generation[k] \in Nat
    BY <1>0, <2>1, TypedStep, AttemptTyped DEF Typed, Kernels, Generations
  <2>5. ASSUME NEW k \in Kinds
        PROVE  kernel'.generation[k] <= Work'.generation[k]
    <3>1. kernel'.generation[k] <= Work.generation[k]
      BY <2>2, <2>3, <2>4
    <3> QED
      BY <2>1, <3>1
  <2>6. Growing'
    BY <2>2, <2>5 DEF Growing
  <2>7. Named(committed.application, published')
    BY <2>1, NamedKept DEF Naming
  <2>8. Named(Work, published')
    <3>1. Planned
      BY DEF Faithful
    <3> QED
      BY <2>1, <2>7, <3>1, NamedSame DEF Planned, Applies
  <2> QED
    BY <1>0, <2>1, <2>6, <2>7, <2>8 DEF Naming
<1>2. CASE Sync /\ pc' # "undo"
  <2>1. pc = "sync" /\ pc' = "scope" /\ Want' = Want /\ pc \notin Resting
    BY <1>2, Syncing DEF Resting
  <2>2. Work \in Application /\ Work' \in Application /\ Want \in Desires
    <3>1. attempt' \in Attempt
      BY <2>1, TypedStep DEF Typed, Resting
    <3> QED
      BY <2>1, <3>1, AttemptTyped DEF Attempt, Work
  <2>3. Applied'.signature = Signature(Want) /\ Applied'.generation = Work'.generation
    BY <2>1, <2>2 DEF Applied, Application
  <2>4. Planned /\ Named(committed.application, published)
    BY <1>0, <2>1 DEF Faithful, Naming
  <2>5. CASE ~PublishDue /\ Work' = Work /\ kernel' = kernel /\ published' = published
    <3>1. /\ Signature(Want) = committed.application.signature
          /\ Work.generation = committed.application.generation
      BY <2>1, <2>4, <2>5, Unchanged DEF PublishDue
    <3>2. Named(Applied', published')
      BY <2>3, <2>4, <2>5, <3>1, NamedSame
    <3>3. Growing'
      <4>1. present' = present
        BY <1>2 DEF Sync, Daemon, worldVars
      <4> QED
        BY <1>0, <1>a, <2>1, <2>5, <4>1 DEF Growing, Usable
    <3> QED
      BY <1>0, <2>1, <3>2, <3>3 DEF Naming
  <2>6. CASE /\ PublishSnapshot(Signature(Want)) /\ Work'.generation = Candidate
             /\ Usable /\ present' = present
    <3>1. /\ kernel'.generation = Candidate
          /\ \A p \in published : p[1] <= Work.generation.policy
          /\ \A p \in published' : p[1] <= kernel'.generation.policy
      BY <1>a, <2>1, <2>6, GrowingPublished
    <3>2. published' = published \cup {<<Candidate.policy, Signature(Want).policy>>}
      BY <2>6 DEF PublishSnapshot
    <3>3. kernel'.loaded
      BY <2>6 DEF PublishSnapshot, Snapshot
    <3>4. Growing'
      BY <1>0, <2>1, <2>6, <3>1, <3>3 DEF Growing, Usable
    <3>5. ASSUME NEW p \in published, p[1] = Candidate.policy
          PROVE  p[2] = Signature(Want).policy
      <4>1. /\ p[1] \in Nat /\ Work.generation.policy \in Nat /\ Candidate.policy \in Nat
            /\ p[1] <= Work.generation.policy
        BY <1>a, <2>1, <3>1, AttemptTyped, CandidateTyped DEF Typed, Generations
      <4>2. ~(Work.generation.policy < Candidate.policy)
        BY <3>5, <4>1
      <4>3. ~attempt.changed["policy"]
        BY <1>a, <2>1, <4>2, CandidateTyped
      <4>4. Candidate.policy = Work.generation.policy
        BY <1>a, <2>1, <4>3, CandidateTyped
      <4>5. Signature(Want).policy = committed.application.signature.policy
        BY <1>0, <1>a, <2>1, <2>4, <4>3 DEF Planned
      <4>6. Applies(committed.application)
        BY <2>2, <4>5, SignatureTyped DEF Applies
      <4>7. Work.generation = committed.application.generation
        BY <1>0, <2>1, <2>4, <4>6 DEF Planned, Applies
      <4> QED
        BY <2>4, <3>5, <4>4, <4>5, <4>6, <4>7 DEF Named
    <3>6. Named(Applied', published')
      BY <2>3, <2>6, <3>2, <3>5 DEF Named
    <3> QED
      BY <1>0, <2>1, <3>4, <3>6 DEF Naming
  <2> QED
    BY <1>2, <2>5, <2>6, Syncing
<1>b. ASSUME Calm, present' = present \/ present' = TRUE \/ kernel' = Unloaded,
             pc' \notin Unpublished
      PROVE  Growing'
  BY <1>a, <1>b, GrowingCalm DEF Growing
<1>3. CASE Restore \/ Scope \/ Prune \/ Health
  <2>1. Calm
    BY <1>3, Checking
  <2>2. Growing'
    <3>1. present' = present
      BY <1>3 DEF Restore, Scope, Prune, Health, Daemon, worldVars
    <3>2. pc' \notin Unpublished
      BY <1>0, <1>3, Checking
    <3> QED
      BY <1>b, <2>1, <3>1, <3>2
  <2>3. CASE pc' = "neutral disable"
    BY <1>0, <2>2, <2>3 DEF Naming
  <2>4. CASE pc = "restore" /\ pc' = "health" /\ Work' = Work
    <3>1. Planned /\ Named(committed.application, published)
      BY <1>0, <2>4 DEF Faithful, Naming
    <3>2. Named(Work, published)
      BY <1>0, <2>4, <3>1, NamedSame DEF Planned, Applies
    <3>3. Named(Work, published')
      BY <2>1, <3>2, NamedKept
    <3> QED
      BY <1>0, <2>2, <2>4, <3>3 DEF Naming
  <2>5. CASE pc = "scope" /\ pc' = "prune" /\ Applied' = Applied
    <3>1. Named(Applied, published')
      BY <2>1, <2>5, NamedKept DEF Naming
    <3> QED
      BY <1>0, <2>2, <2>5, <3>1 DEF Naming
  <2>6. CASE pc = "prune" /\ pc' = "health" /\ Work' = Applied
    <3>1. Named(Applied, published')
      BY <2>1, <2>6, NamedKept DEF Naming
    <3> QED
      BY <1>0, <2>2, <2>6, <3>1 DEF Naming
  <2>7. CASE pc = "health" /\ pc' = "commit" /\ Work' = Work
    <3>1. Named(Work, published')
      BY <2>1, <2>7, NamedKept DEF Naming
    <3> QED
      BY <1>0, <2>2, <2>7, <3>1 DEF Naming
  <2> QED
    BY <1>3, <2>3, <2>4, <2>5, <2>6, <2>7, Checking
<1>4. CASE NeutralDisable \/ NeutralPrune \/ NeutralScope
  <2>1. /\ Calm
        /\ pc' \in {"neutral prune", "neutral scope"} \/ (pc' = "commit" /\ ~Applies(Work'))
    BY <1>4, Neutering
  <2>2. present' = present
    BY <1>4 DEF NeutralDisable, NeutralPrune, NeutralScope, Daemon, worldVars
  <2>3. Growing'
    BY <1>0, <1>b, <2>1, <2>2
  <2>4. ~Applies(Work') => Named(Work', published')
    BY DEF Named
  <2> QED
    BY <1>0, <2>1, <2>3, <2>4 DEF Naming
<1>5. CASE Commit
  <2>1. /\ pc = "commit" /\ pc' = "idle" /\ committed'.application = Work
        /\ kernel' = kernel /\ published' = published /\ present' = present
    BY <1>5, CommitTyped DEF Commit, Move, Resting, kernelVars, worldVars
  <2>2. Growing'
    BY <1>0, <1>b, <2>1 DEF Calm
  <2>3. Named(committed'.application, published')
    BY <2>1 DEF Naming
  <2> QED
    BY <1>0, <2>1, <2>2, <2>3 DEF Naming
<1>6. CASE Crash
  <2>1. pc' = "down" /\ ~Applies(committed'.application) /\ present' = present
    BY <1>6, NoApplicationTyped DEF Crash, Move, worldVars
  <2>2. Named(committed'.application, published')
    BY <2>1 DEF Named
  <2>3. Growing'
    <3>1. CASE kernel' = kernel /\ published' = published
      BY <1>0, <1>b, <2>1, <3>1 DEF Calm
    <3>2. ASSUME NEW content \in {Signature(Want), CutOff}, PublishSnapshot(content),
                 pc = "sync", Usable
          PROVE  Growing'
      <4>1. \A p \in published' : p[1] <= kernel'.generation.policy
        BY <1>a, <3>2, GrowingPublished
      <4>2. kernel'.loaded
        BY <3>2 DEF PublishSnapshot, Snapshot
      <4> QED
        BY <1>0, <2>1, <3>2, <4>1, <4>2 DEF Growing, Usable
    <3> QED
      BY <1>6, <3>1, <3>2 DEF Crash
  <2> QED
    BY <1>0, <2>1, <2>2, <2>3 DEF Naming
<1>7. CASE Start \/ StartDisable \/ StartScope
  <2>1. /\ pc \in Resting /\ pc' \in Resting /\ committed' = committed /\ Calm
        /\ present' = present
    BY <1>7 DEF Start, StartDisable, StartScope, Goto, Daemon, Calm, kernelVars, worldVars, Resting
  <2>2. Growing' /\ Named(committed.application, published')
    BY <1>0, <1>b, <2>1, NamedKept DEF Naming
  <2> QED
    BY <1>0, <2>1, <2>2 DEF Naming
<1>8. ASSUME NEW repair \in BOOLEAN, Begin(repair)
      PROVE  Naming'
  <2>1. /\ pc = "idle" /\ pc' = "access"
        /\ \E floor \in ObservedFloors :
             Work'.generation = Base(floor, committed.application.generation)
    BY <1>8, Beginning
  <2>2. /\ committed' = committed /\ kernel' = kernel /\ published' = published
        /\ present' = present
    BY <1>8 DEF Begin, kernelVars, worldVars
  <2>3. Named(committed.application, published)
    BY <1>0, <2>1 DEF Naming
  <2>4. \A k \in Kinds : kernel.generation[k] <= Work'.generation[k]
    BY <1>a, <2>1, BaseGrows
  <2>5. Growing'
    BY <1>a, <2>2, <2>4 DEF Growing, Usable
  <2> QED
    BY <1>0, <2>1, <2>2, <2>3, <2>5 DEF Naming
<1>9. ASSUME pc' = pc, attempt' = attempt, committed' = committed, Calm,
             present' = present \/ present' = TRUE \/ kernel' = Unloaded
      PROVE  Naming'
  <2>1. /\ ~Usable' => \A k \in Kinds : kernel'.generation[k] = 0
        /\ \A p \in published' : p[1] <= kernel'.generation.policy
        /\ \A k \in Kinds : kernel'.generation[k] <= kernel.generation[k]
    BY <1>9, <1>a, GrowingCalm
  <2>2. ASSUME pc \in Unpublished, NEW k \in Kinds
        PROVE  kernel'.generation[k] <= Work'.generation[k]
    <3>1. kernel'.generation[k] \in Nat /\ kernel.generation[k] \in Nat
          /\ Work.generation[k] \in Nat
      BY <1>0, <2>2, TypedStep, AttemptTyped DEF Typed, Kernels, Generations
    <3>2. kernel.generation[k] <= Work.generation[k] /\ Work' = Work
      BY <1>9, <1>a, <2>2 DEF Growing, Work
    <3> QED
      BY <2>1, <3>1, <3>2
  <2>3. Growing'
    BY <1>9, <2>1, <2>2 DEF Growing
  <2>4. Applied' = Applied /\ Work' = Work
    BY <1>9 DEF Applied, Work, Want
  <2>5. \A app : Named(app, published) => Named(app, published')
    BY <1>9, NamedKept
  <2> QED
    BY <1>9, <2>3, <2>4, <2>5 DEF Naming
<1>10. CASE World
  <2>1. Calm
    BY <1>10, Changing DEF Calm
  <2> QED
    BY <1>9, <1>10, <2>1, Changing
<1>11. CASE Wakeup
  BY <1>8, <1>11 DEF Wakeup
<1>12. CASE Flush
  <2>1. CASE Begin(FALSE)
    BY <1>8, <2>1
  <2>2. CASE ~Begin(FALSE)
    BY <1>9, <1>12, <2>2 DEF Flush, kernelVars, worldVars, Calm
  <2> QED
    BY <2>1, <2>2
<1>13. CASE Observe
  BY <1>9, <1>13 DEF Observe, kernelVars, worldVars, Calm
<1>14. CASE UNCHANGED vars
  BY <1>9, <1>14 DEF vars, Calm
<1>15. QED
  BY <1>1, <1>2, <1>3, <1>4, <1>5, <1>6, <1>7, <1>10, <1>11, <1>12, <1>13, <1>14
  DEF Next, Step

\* Nothing is published at first.
LEMMA InitNaming == Init => Naming
<1> SUFFICES ASSUME Init
             PROVE  Naming
  OBVIOUS
<1>1. pc = "down" /\ ~Applies(committed.application) /\ published = {} /\ kernel = Unloaded
  BY NoApplicationTyped DEF Init
<1>2. QED
  BY <1>1, KernelTyped DEF Naming, Growing, Unpublished, Named

\* Between reconciliations, the generation in the control record of an applied
\* policy has named that policy and no other, in every history of crashes,
\* failures, repairs and changes in which the generations can be read and no
\* cut-off snapshot passes for the one it replaces.
THEOREM GenerationsName ==
  ASSUME Conditions \cap {"GENERATIONS_UNREADABLE", "WRITE_CUT_SHORT"} = {}
  PROVE  Spec => []GenerationNamesPolicy
<1>1. Faithful /\ Naming => GenerationNamesPolicy
  <2> SUFFICES ASSUME Faithful, Naming, pc = "idle", IsApplied, kernel.enabled,
                      kernel.generation = committed.application.generation,
                      NEW p \in published, p[1] = kernel.generation.policy
               PROVE  p[2] = kernel.content.policy
    BY DEF GenerationNamesPolicy
  <2>1. /\ Exact(committed.application, kernel) /\ Named(committed.application, published)
        /\ Applies(committed.application)
    BY DEF Faithful, Naming, Resting, IsApplied, Applies
  <2> QED
    BY <2>1 DEF Exact, Named
<1>2. "WRITE_CUT_SHORT" \notin Conditions
  OBVIOUS
<1>3. QED
  BY <1>1, <1>2, InitTyped, TypedStep, InitLayered, LayeredStep, InitFaithful, FaithfulStep,
     InitNaming, NamingStep, PTL DEF Spec
================================================================================
