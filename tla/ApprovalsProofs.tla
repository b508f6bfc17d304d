---------------------------- MODULE ApprovalsProofs ----------------------------
(***************************************************************************)
(* Proofs about Approvals, for any targets, capacity, clock settings and   *)
(* number of failures, deaths and changes: nothing that was revoked comes  *)
(* back, nothing outlives its end, nothing is journaled before it is in    *)
(* force, a failed creation leaves nothing behind, and the journal         *)
(* implements ApprovalLedger.                                              *)
(***************************************************************************)
EXTENDS Approvals, WellFoundedInduction, TLAPS

--------------------------------------------------------------------------------
(* The inductive invariant and its parts.                                  *)

\* What the counters and the planes are.
Counters == [requests : Nat, faults : Nat, sets : Nat, changes : Nat]
Plane == [enforced : BOOLEAN, allow : SUBSET Lease]

\* The types, of every variable.
Typed ==
  /\ wall \in Nat /\ mono \in Nat /\ due \in Nat
  /\ known \subseteq Targets
  /\ memory \in Database /\ journal \in Database
  /\ loaded \in BOOLEAN /\ dirty \in BOOLEAN
  /\ plane \in [Scopes -> Plane]
  /\ committed \in [Scopes -> (SUBSET Targets) \cup {None}]
  /\ call \in Call
  /\ pc \in PCs
  /\ revoked \subseteq Lease
  /\ spent \in Counters

\* A creation and its rollback have a database to go back to; from the first
\* publication on, the journal has been read.
InTransaction == call.handler \in {"create", "rollback"}
Loading       == {"access", "application", "finish", "record", "restore"}

\* Where each handler may be, and that the journal has been read by then.
Control ==
  /\ call.handler = "none" <=> pc \in {"down", "idle"}
  /\ call.handler = "none" => call = NoCall
  /\ pc = "record" => call.handler = "create" /\ Accepted
  /\ pc = "restore" => call.handler = "rollback"
  /\ InTransaction => call.lease \in Lease
  /\ pc \in Loading \/ call.handler \in {"create", "rollback", "revoke"} => loaded
  /\ ~loaded => memory = Empty
  /\ pc = "down" => \A s \in Scopes : committed[s] = None

\* A plane is marked published by this reconciliation only once it enforces the
\* database in memory.
Publishing ==
  /\ pc \in {"begin", "access"} => \A s \in Scopes : ~call.ok[s]
  /\ pc = "application" => ~call.ok["application"]
  /\ \A s \in Scopes : call.ok[s] => plane[s] = Enforce(Wanted(s))
  /\ \A s \in Scopes : \A l \in plane[s].allow : Scope(l) = s

\* What is in force or was revoked was created before the next creation of any
\* database a creation may start from.  Once the requests are spent the sequence
\* may have come round, and nothing is created any more.
Sequence(l) == l.id[2]
Older(leases, db) ==
  spent.requests < MaxRequests => \A l \in leases : Sequence(l) < db.next
Sequenced ==
  /\ spent.requests <= MaxRequests
  /\ \A db \in {memory, journal, call.previous} : db.next <= spent.requests + 1
  /\ Older(journal.leases \cup revoked, journal)
  /\ loaded => Older(memory.leases \cup journal.leases \cup revoked, memory)
  /\ InTransaction =>
       Older(call.previous.leases \cup journal.leases \cup revoked, call.previous)

\* Nothing that was revoked is anywhere, nor is what is being created revoked
\* or in the journal.
Nowhere ==
  /\ revoked \cap (memory.leases \cup journal.leases \cup call.previous.leases) = {}
  /\ InTransaction => call.lease \notin revoked \cup journal.leases \cup call.previous.leases

\* What a set of leases lost on the way to a smaller one had lapsed.
LostOnly(from, to) == to \subseteq from /\ from \ to \subseteq lapsed

\* Memory is the journal less what lapsed, except that a creation has replaced
\* the lease of its target, and that a creation can be undone.
Tracked ==
  /\ loaded /\ ~InTransaction => LostOnly(journal.leases, memory.leases)
  /\ InTransaction => LostOnly(journal.leases, call.previous.leases)
  /\ call.handler = "rollback" => LostOnly(call.previous.leases, memory.leases)
  /\ call.handler = "create" =>
       /\ memory.leases \ {call.lease} \subseteq call.previous.leases
       /\ \A l \in memory.leases \ {call.lease} : l.target # call.lease.target
       /\ \A l \in call.previous.leases \ memory.leases :
            l.target = call.lease.target \/ l \in lapsed
       /\ call.lease \notin memory.leases =>
            \A l \in call.previous.leases : l.target = call.lease.target => l \in lapsed
       /\ pc = "begin" => call.lease \in memory.leases

\* Without failures, what a reconciliation publishes is due before the timer.
Timely ==
  /\ pc \in {"access", "application", "finish"} => \A l \in memory.leases : Active(l)
  /\ spent.faults = 0 =>
       /\ pc \in {"application", "finish"} => call.ok["access"]
       /\ pc = "finish" => call.ok["application"]
       /\ pc \in {"idle", "record", "restore"} =>
            /\ mono <= due
            /\ \A s \in Scopes : committed[s] # None =>
                 \A l \in plane[s].allow :
                   /\ due < l.deadline + Safety
                   /\ spent.sets = 0 => wall + (due - mono) <= l.expires

\* The inductive invariant.
IInv ==
  /\ Typed
  /\ Control
  /\ Publishing
  /\ Sequenced
  /\ Nowhere
  /\ Tracked
  /\ Timely

--------------------------------------------------------------------------------
(* Lemmas about the operators.                                             *)

\* The constants are natural numbers.
LEMMA Constants ==
  /\ Capacity \in Nat /\ MaxSequence \in Nat \ {0} /\ Hour \in Nat \ {0} /\ Day \in Nat \ {0}
  /\ Safety \in Nat \ {0} /\ StartWall \in Nat /\ MaxTime \in Nat
  /\ MaxRequests \in Nat /\ MaxFaults \in Nat /\ MaxClockSets \in Nat /\ MaxChanges \in Nat
BY TimingAssumption, BoundAssumption

\* The end of the day of w comes after w.
LEMMA EndOfDay ==
  ASSUME NEW w \in Nat, NEW d \in Nat, d > 0
  PROVE  (w \div d + 1) * d \in Nat /\ (w \div d + 1) * d > w
<1>1. w \div d \in Nat /\ (w \div d) * d > w - d
  OBVIOUS
<1>2. PICK q \in Nat : q = w \div d
  BY <1>1
<1>3. (q + 1) * d = q * d + d /\ q * d \in Nat
  OBVIOUS
<1>4. QED
  BY <1>1, <1>2, <1>3

\* Whatever its duration, an approval ends after it is created.
LEMMA Ends ==
  ASSUME Typed, NEW duration \in Durations
  PROVE  EndOf(duration) \in Nat /\ EndOf(duration) > wall
<1>1. wall \in Nat
  BY DEF Typed
<1>2. QED
  BY <1>1, Constants, EndOfDay DEF EndOf, Durations

\* A set of natural numbers that is not empty has a least one.
LEMMA Naturals ==
  ASSUME NEW S \in SUBSET Nat, S # {}
  PROVE  \E d \in S : \A e \in S : d <= e
<1> DEFINE R == {ss \in Nat \X Nat : ss[1] < ss[2]}
<1>1. IsWellFoundedOn(R, Nat)
  BY NatLessThanWellFounded DEF OpToRel
<1>2. PICK x \in S : \A y \in S : ~(<<y, x>> \in R)
  <2> HIDE DEF R
  <2> QED
    BY <1>1, WFMin
<1>3. ASSUME NEW y \in S PROVE ~(y < x)
  <2>1. <<y, x>> \notin R
    BY <1>2
  <2>2. <<y, x>> \in Nat \X Nat /\ <<y, x>>[1] = y /\ <<y, x>>[2] = x
    OBVIOUS
  <2> QED
    BY <2>1, <2>2
<1>4. \A y \in S : x <= y
  BY <1>3
<1> QED
  BY <1>4

\* The safety timer is set no later than the next end of a lease.
LEMMA DelayBound ==
  ASSUME Typed
  PROVE  /\ Delay \in Nat /\ Delay <= Safety
         /\ \A l \in memory.leases : wall < l.expires => Delay <= l.expires - wall
<1> DEFINE S == {d \in Delays : d > 0} \cup {Safety}
<1>1. wall \in Nat /\ \A l \in memory.leases : l.expires \in Nat
  BY DEF Typed, Database, Lease
<1>2. S \subseteq Nat /\ Safety \in S
  BY <1>1, Constants DEF Delays
<1>3. \A l \in memory.leases : wall < l.expires => l.expires - wall \in S
  BY <1>1 DEF Delays
<1>4. \E d \in S : \A e \in S : d <= e
  BY <1>2, Naturals
<1>5. Delay \in S /\ \A e \in S : Delay <= e
  BY <1>4 DEF Delay, Least
<1>6. QED
  BY <1>2, <1>3, <1>5

\* The empty database is a database.
LEMMA EmptyTyped == Empty \in Database
BY Constants DEF Empty, Database

\* refresh_lease_database keeps a part of the database, all of it active, and the
\* next sequence number.
LEMMA Refreshing ==
  ASSUME Typed
  PROVE  /\ Base \in Database /\ Refreshed \in Database
         /\ Refreshed.next = Base.next
         /\ Refreshed.leases \subseteq Base.leases
         /\ Dropped = Base.leases \ Refreshed.leases
         /\ \A l \in Refreshed.leases : Active(l)
<1>1. Base \in Database
  BY DEF Typed, Base
<1>2. Kept(Base.leases) \subseteq Base.leases /\ \A l \in Kept(Base.leases) : Active(l)
  BY DEF Kept
<1>3. Refreshed = [Base EXCEPT !.leases = Kept(Base.leases)]
  BY DEF Refreshed
<1>4. Base = [next |-> Base.next, leases |-> Base.leases]
  BY <1>1 DEF Database
<1>5. QED
  BY <1>1, <1>2, <1>3, <1>4 DEF Database, Dropped

\* A new lease is one of its target, with the sequence number that was next.
LEMMA NewLeaseTyped ==
  ASSUME Typed, NEW t \in Targets, NEW duration \in Durations
  PROVE  /\ NewLease(t, duration) \in Lease
         /\ NewLease(t, duration).target = t
         /\ Sequence(NewLease(t, duration)) = Base.next
<1>1. /\ wall \in Nat /\ mono \in Nat /\ EndOf(duration) \in Nat
      /\ mono + EndOf(duration) - wall \in Nat
  BY Ends DEF Typed
<1>2. Base.next \in Nat
  BY Refreshing, Constants DEF Database
<1>3. QED
  BY <1>1, <1>2 DEF NewLease, Lease, Sequence

\* Every lease has a scope.
LEMMA ScopeTyped ==
  ASSUME NEW l
  PROVE  Scope(l) \in Scopes
BY DEF Scope, Scopes

\* An idle daemon has nothing published and nothing to go back to.
LEMMA NoCallTyped ==
  /\ NoCall \in Call
  /\ NoCall.handler = "none" /\ NoCall.previous = Empty
  /\ \A s \in Scopes : NoCall.ok[s] = FALSE
BY EmptyTyped DEF NoCall, Call, Handlers, Scopes

\* Neither has a handler that begins its reconciliation.
LEMMA ReconcileTyped ==
  ASSUME NEW h \in Handlers
  PROVE  /\ Reconcile(h) \in Call
         /\ Reconcile(h).handler = h /\ Reconcile(h).previous = Empty
         /\ \A s \in Scopes : Reconcile(h).ok[s] = FALSE
BY NoCallTyped DEF Reconcile, NoCall, Call

\* The call of a creation, of its rollback, and after a publication.
LEMMA CreateCall ==
  ASSUME Typed, NEW t \in Targets, NEW duration \in Durations,
         call' = [Reconcile("create") EXCEPT !.previous = Refreshed,
                                             !.lease = NewLease(t, duration)]
  PROVE  /\ call' \in Call
         /\ call'.handler = "create" /\ call'.previous = Refreshed
         /\ call'.lease = NewLease(t, duration)
         /\ \A s \in Scopes : call'.ok[s] = FALSE
<1>1. Reconcile("create") \in Call
  BY ReconcileTyped DEF Handlers
<1>2. NewLease(t, duration) \in Lease /\ Refreshed \in Database
  BY NewLeaseTyped, Refreshing
<1>3. /\ Reconcile("create").handler = "create"
      /\ \A s \in Scopes : Reconcile("create").ok[s] = FALSE
  BY ReconcileTyped DEF Handlers
<1> HIDE DEF Reconcile, NewLease, Refreshed
<1>4. QED
  BY <1>1, <1>2, <1>3 DEF Call

\* A publication marks its own scope and leaves the rest of the call alone.
LEMMA PublishedCall ==
  ASSUME Typed, NEW s \in Scopes, call' = [call EXCEPT !.ok[s] = TRUE]
  PROVE  /\ call' \in Call
         /\ call'.handler = call.handler /\ call'.repair = call.repair
         /\ call'.previous = call.previous /\ call'.lease = call.lease
         /\ call'.ok[s] = TRUE
         /\ \A u \in Scopes \ {s} : call'.ok[u] = call.ok[u]
<1>1. call \in Call
  BY DEF Typed
<1>2. QED
  BY <1>1 DEF Call

\* A rollback restores the previous database and starts over.
LEMMA RollbackCall ==
  ASSUME Typed, Rollback
  PROVE  /\ call' \in Call
         /\ call'.handler = "rollback"
         /\ call'.previous = call.previous /\ call'.lease = call.lease
         /\ \A s \in Scopes : call'.ok[s] = FALSE
         /\ memory' = call.previous /\ memory' \in Database /\ dirty' = TRUE /\ pc' = "begin"
<1>1. call \in Call
  BY DEF Typed
<1>2. QED
  BY <1>1 DEF Call, Rollback, Handlers

\* One counter is raised by one, the others stay.
LEMMA Spending ==
  ASSUME Typed, NEW what \in {"requests", "faults", "sets", "changes"}, NEW max, Spend(what, max)
  PROVE  /\ spent' \in Counters
         /\ spent'[what] = spent[what] + 1 /\ spent[what] < max
         /\ \A k \in {"requests", "faults", "sets", "changes"} \ {what} : spent'[k] = spent[k]
BY DEF Spend, Typed, Counters

\* A failure counts as one, and as nothing else.
LEMMA Faulting ==
  ASSUME Typed, Fault
  PROVE  /\ spent' \in Counters
         /\ spent'.faults = spent.faults + 1 /\ spent'.faults > 0
         /\ spent'.requests = spent.requests /\ spent'.sets = spent.sets
<1>1. Spend("faults", MaxFaults)
  BY DEF Fault
<1>2. spent \in Counters
  BY DEF Typed
<1>3. QED
  BY <1>1, <1>2, Spending DEF Counters

--------------------------------------------------------------------------------
(* Types.                                                                  *)

\* A journal write writes the database it is given.
LEMMA WriteTyped ==
  ASSUME Typed, NEW db \in Database, WriteJournal(db)
  PROVE  journal' \in Database /\ journal' = db /\ dirty' = FALSE /\ spent' = spent
BY DEF WriteJournal

\* Every step keeps the types.
LEMMA TypedStep == Typed /\ Next => Typed'
<1> SUFFICES ASSUME Typed, Next
             PROVE  Typed'
  OBVIOUS
<1> USE Refreshing, Constants
<1>1. CASE Inspect
  BY <1>1 DEF Inspect, Typed, Refresh, DirtyAfterRefresh, clockVars
<1>2. ASSUME NEW t \in Targets, NEW d \in Durations, Create(t, d)
      PROVE  Typed'
  <2>1. call' \in Call
    BY <1>2, CreateCall DEF Create
  <2>2. memory' \in Database
    <3>1. NextSequence(Base.next) \in 1..MaxSequence
      BY DEF NextSequence, Database
    <3>2. Others(t) \cup {NewLease(t, d)} \subseteq Lease
      BY NewLeaseTyped DEF Others, Database
    <3> QED
      BY <1>2, <3>1, <3>2 DEF Create, Database
  <2>3. spent' \in Counters
    BY <1>2, Spending DEF Create
  <2> QED
    BY <1>2, <2>1, <2>2, <2>3 DEF Create, Typed, Refresh, clockVars, PCs
<1>3. ASSUME NEW l \in Refreshed.leases, Revoke(l)
      PROVE  Typed'
  <2>1. Without(l) \in Database /\ l \in Lease
    BY DEF Without, Database
  <2>2. Reconcile("revoke") \in Call
    BY ReconcileTyped DEF Handlers
  <2>3. spent' \in Counters
    BY <1>3, Faulting DEF Revoke, WriteJournal, Typed
  <2> QED
    BY <1>3, <2>1, <2>2, <2>3 DEF Revoke, Removed, WriteJournal, Typed, Refresh, DirtyAfterRefresh,
       clockVars, PCs
<1>4. CASE Wakeup
  <2>1. [Reconcile("reconcile") EXCEPT !.repair = TRUE] \in Call
    BY ReconcileTyped DEF Handlers, Call
  <2> QED
    BY <1>4, <2>1 DEF Wakeup, Typed, ledgerVars, clockVars, PCs
<1>5. CASE Begin
  BY <1>5 DEF Begin, Typed, Refresh, DirtyAfterRefresh, clockVars, PCs
<1>6. ASSUME NEW s \in Scopes, Published(s)
      PROVE  plane' \in [Scopes -> Plane] /\ committed' \in [Scopes -> (SUBSET Targets) \cup {None}]
             /\ call' \in Call /\ spent' = spent
  <2>1. Wanted(s) \subseteq Lease
    BY DEF Wanted, Typed, Database
  <2>2. Exempt(Wanted(s)) \subseteq Targets
    BY <2>1 DEF Exempt, Lease
  <2>3. Enforce(Wanted(s)) \in Plane
    BY <2>1 DEF Enforce, Plane
  <2>4. call' \in Call
    BY <1>6, PublishedCall DEF Published
  <2> QED
    BY <1>6, <2>2, <2>3, <2>4 DEF Published, Typed
<1>7. CASE PublishAccess
  BY <1>7, <1>6, Faulting DEF PublishAccess, Reconciling, Typed, ledgerVars, clockVars, PCs, Scopes
<1>8. CASE PublishApplication
  <2>1. Neutral \in Plane
    BY DEF Neutral, Plane
  <2>2. /\ plane' \in [Scopes -> Plane] /\ committed' \in [Scopes -> (SUBSET Targets) \cup {None}]
        /\ call' \in Call /\ spent' \in Counters
    <3>1. CASE Published("application")
      BY <3>1, <1>6, <1>8 DEF Typed, Scopes
    <3>2. CASE ~Published("application")
      <4>1. Fault /\ UNCHANGED call
        BY <1>8, <3>2 DEF PublishApplication
      <4>2. plane' \in [Scopes -> Plane]
        BY <1>8, <2>1, <3>2 DEF PublishApplication, Typed
      <4>3. committed' \in [Scopes -> (SUBSET Targets) \cup {None}]
        BY <1>8, <3>2 DEF PublishApplication, Typed
      <4> QED
        BY <4>1, <4>2, <4>3, Faulting DEF Typed
    <3> QED
      BY <3>1, <3>2
  <2> QED
    BY <1>8, <2>2 DEF PublishApplication, Reconciling, Typed, ledgerVars, clockVars, PCs
<1>9. CASE Finish
  <2>1. due' \in Nat
    BY <1>9, DelayBound DEF Finish, Typed
  <2>2. CASE Rollback /\ UNCHANGED <<journal, spent>>
    BY <1>9, <2>1, <2>2, RollbackCall DEF Finish, Typed, ledgerVars, clockVars, PCs
  <2>3. CASE ~(Rollback /\ UNCHANGED <<journal, spent>>)
    <3>1. call' \in Call /\ pc' \in PCs /\ memory' = memory
      BY <1>9, <2>3, NoCallTyped DEF Finish, Typed, Return, PCs
    <3>2. journal' \in Database /\ dirty' \in BOOLEAN /\ spent' \in Counters
      BY <1>9, <2>3, Faulting DEF Finish, WriteJournal, Typed
    <3> QED
      BY <1>9, <2>1, <3>1, <3>2 DEF Finish, Typed, ledgerVars, clockVars
  <2> QED
    BY <2>2, <2>3
<1>10. CASE Record
  BY <1>10, RollbackCall, NoCallTyped, Faulting DEF Record, WriteJournal, Return, Typed, ledgerVars,
     clockVars, PCs
<1>11. CASE Restore
  <2>1. call.previous \in Database
    BY DEF Typed, Call
  <2>2. journal' \in Database /\ dirty' \in BOOLEAN /\ spent' \in Counters
    BY <1>11, <2>1, Faulting DEF Restore, WriteJournal, Typed
  <2> QED
    BY <1>11, <2>2, NoCallTyped DEF Restore, Return, Typed, ledgerVars, clockVars, PCs
<1>12. CASE Crash
  <2>1. spent' \in Counters
    BY <1>12, Spending DEF Crash
  <2>2. committed' \in [Scopes -> (SUBSET Targets) \cup {None}]
    BY <1>12 DEF Crash
  <2> QED
    BY <1>12, <2>1, <2>2, EmptyTyped, NoCallTyped DEF Crash, Typed, ledgerVars, clockVars, PCs
<1>13. CASE Start
  <2>1. Neutral \in Plane
    BY DEF Neutral, Plane
  <2>2. plane' \in [Scopes -> Plane] /\ spent' \in Counters
    BY <1>13, <2>1, Faulting DEF Start, Typed, Scopes
  <2> QED
    BY <1>13, <2>2 DEF Start, Typed, ledgerVars, clockVars, PCs
<1>14. CASE Tick
  BY <1>14 DEF Tick, Typed, ledgerVars
<1>15. ASSUME NEW w \in Settings, SetClock(w)
       PROVE  Typed'
  <2>1. spent' \in Counters
    BY <1>15, Spending DEF SetClock
  <2> QED
    BY <1>15, <2>1, SettingsAssumption DEF SetClock, Typed, ledgerVars
<1>16. ASSUME NEW t \in Targets, Reconfigure(t)
       PROVE  Typed'
  <2>1. spent' \in Counters
    BY <1>16, Spending DEF Reconfigure
  <2> QED
    BY <1>16, <2>1 DEF Reconfigure, Typed, ledgerVars, clockVars
<1>17. QED
  BY <1>1, <1>2, <1>3, <1>4, <1>5, <1>7, <1>8, <1>9, <1>10, <1>11, <1>12, <1>13, <1>14, <1>15,
     <1>16 DEF Next

--------------------------------------------------------------------------------
(* Control.                                                                *)

\* Every step keeps handler, program counter and flags together.
LEMMA ControlStep == Typed /\ Control /\ Next => Control'
<1> SUFFICES ASSUME Typed, Control, Next
             PROVE  Control'
  OBVIOUS
<1> USE DEF Control, InTransaction, Loading
<1>1. CASE Inspect
  BY <1>1 DEF Inspect, Refresh, Accepted
<1>2. ASSUME NEW t \in Targets, NEW d \in Durations, Create(t, d)
      PROVE  Control'
  <2>1. call'.handler = "create" /\ call'.lease \in Lease
    BY <1>2, CreateCall, NewLeaseTyped DEF Create
  <2> QED
    BY <1>2, <2>1 DEF Create, Refresh
<1>3. ASSUME NEW l \in Refreshed.leases, Revoke(l)
      PROVE  Control'
  <2>1. Reconcile("revoke").handler = "revoke"
    BY ReconcileTyped DEF Handlers
  <2> QED
    BY <1>3, <2>1 DEF Revoke, Removed, Refresh, WriteJournal
<1>4. CASE Wakeup
  <2>1. call'.handler = "reconcile"
    BY <1>4, ReconcileTyped DEF Wakeup, Handlers, Call
  <2> QED
    BY <1>4, <2>1 DEF Wakeup
<1>5. CASE Begin
  BY <1>5 DEF Begin, Refresh
<1>6. CASE PublishAccess
  <2>1. call'.handler = call.handler /\ call'.lease = call.lease
    BY <1>6, PublishedCall DEF PublishAccess, Published, Scopes
  <2> QED
    BY <1>6, <2>1 DEF PublishAccess, Reconciling
<1>7. CASE PublishApplication
  <2>1. call'.handler = call.handler /\ call'.lease = call.lease
    BY <1>7, PublishedCall DEF PublishApplication, Published, Scopes
  <2> QED
    BY <1>7, <2>1 DEF PublishApplication, Reconciling
<1>8. CASE Finish
  <2>1. CASE Rollback
    <3>1. call.handler = "create"
      BY <1>8, <2>1 DEF Finish, Rollback, Return
    <3>2. call'.handler = "rollback" /\ call'.lease = call.lease /\ pc' = "begin"
      BY <2>1, RollbackCall
    <3> QED
      BY <1>8, <3>1, <3>2 DEF Finish
  <2>2. CASE ~Rollback
    BY <1>8, <2>2, NoCallTyped DEF Finish, Return, Accepted
  <2> QED
    BY <2>1, <2>2
<1>9. CASE Record
  <2>1. CASE Rollback
    BY <1>9, <2>1, RollbackCall DEF Record
  <2>2. CASE ~Rollback
    BY <1>9, <2>2, NoCallTyped DEF Record, Return
  <2> QED
    BY <2>1, <2>2
<1>10. CASE Restore
  BY <1>10, NoCallTyped DEF Restore, Return
<1>11. CASE Crash
  BY <1>11, NoCallTyped DEF Crash
<1>12. CASE Start
  BY <1>12 DEF Start
<1>13. CASE Tick
  BY <1>13 DEF Tick, Accepted
<1>14. ASSUME NEW w \in Settings, SetClock(w)
       PROVE  Control'
  BY <1>14 DEF SetClock, Accepted
<1>15. ASSUME NEW t \in Targets, Reconfigure(t)
       PROVE  Control'
  BY <1>15 DEF Reconfigure, Accepted
<1>16. QED
  BY <1>1, <1>2, <1>3, <1>4, <1>5, <1>6, <1>7, <1>8, <1>9, <1>10, <1>11, <1>12, <1>13, <1>14,
     <1>15 DEF Next

--------------------------------------------------------------------------------
(* Publication.                                                            *)

\* Every step keeps what is marked published in force.
LEMMA PublishingStep == Typed /\ Control /\ Publishing /\ Next => Publishing'
<1> SUFFICES ASSUME Typed, Control, Publishing, Next
             PROVE  Publishing'
  OBVIOUS
<1> USE DEF Publishing, Control, Scopes
<1>1. ASSUME plane' = plane, \A s \in Scopes : call'.ok[s] = FALSE
      PROVE  Publishing'
  BY <1>1
<1>2. ASSUME plane' = plane, call' = call, memory' = memory, pc \notin {"access", "application"},
             pc' \notin {"begin", "access", "application"}
      PROVE  Publishing'
  BY <1>2 DEF Wanted
<1>3. ASSUME pc \in {"down", "idle"}
      PROVE  \A s \in Scopes : call.ok[s] = FALSE
  BY <1>3, NoCallTyped
<1>4. CASE Inspect
  BY <1>1, <1>3, <1>4 DEF Inspect
<1>5. ASSUME NEW t \in Targets, NEW d \in Durations, Create(t, d)
      PROVE  Publishing'
  BY <1>1, <1>5, CreateCall DEF Create
<1>6. ASSUME NEW l \in Refreshed.leases, Revoke(l)
      PROVE  Publishing'
  <2>1. \A s \in Scopes : Reconcile("revoke").ok[s] = FALSE
    BY ReconcileTyped DEF Handlers
  <2> QED
    BY <1>1, <1>3, <1>6, <2>1 DEF Revoke, Removed
<1>7. CASE Wakeup
  <2>1. call'.ok = Reconcile("reconcile").ok
    BY <1>7, ReconcileTyped DEF Wakeup, Handlers, Call
  <2>2. \A s \in Scopes : Reconcile("reconcile").ok[s] = FALSE
    BY ReconcileTyped DEF Handlers
  <2> QED
    BY <1>1, <1>7, <2>1, <2>2 DEF Wakeup
<1>8. CASE Begin
  <2>1. call \in Call
    BY DEF Typed
  <2>2. \A s \in Scopes : call.ok[s] = FALSE
    BY <1>8, <2>1 DEF Begin, Call
  <2> QED
    BY <1>1, <1>8, <2>2 DEF Begin
<1>9. ASSUME NEW s \in Scopes, Published(s), memory' = memory, pc' # "begin", pc' # "access",
             pc' = "application" => s = "access" /\ ~call.ok["application"]
      PROVE  Publishing'
  <2>1. /\ plane'[s] = Enforce(Wanted(s)) /\ Wanted(s)' = Wanted(s)
        /\ \A u \in Scopes \ {s} : plane'[u] = plane[u] /\ Wanted(u)' = Wanted(u)
    BY <1>9 DEF Published, Typed, Wanted
  <2>2. /\ call'.ok[s] = TRUE
        /\ \A u \in Scopes \ {s} : call'.ok[u] = call.ok[u]
    BY <1>9, PublishedCall DEF Published
  <2>3. \A l \in plane'[s].allow : Scope(l) = s
    BY <2>1 DEF Enforce, Wanted
  <2> QED
    BY <1>9, <2>1, <2>2, <2>3
<1>10. CASE PublishAccess
  <2>1. memory' = memory /\ pc' = "application" /\ pc = "access"
    BY <1>10 DEF PublishAccess, Reconciling
  <2>2. CASE Published("access")
    BY <1>9, <2>1, <2>2
  <2>3. CASE ~Published("access")
    <3>1. \A s \in Scopes : call.ok[s] = FALSE
      BY <2>1 DEF Typed, Call
    <3> QED
      BY <1>1, <1>10, <2>3, <3>1 DEF PublishAccess
  <2> QED
    BY <2>2, <2>3
<1>11. CASE PublishApplication
  <2>1. memory' = memory /\ pc' = "finish" /\ pc = "application"
    BY <1>11 DEF PublishApplication, Reconciling
  <2>2. CASE Published("application")
    BY <1>9, <2>1, <2>2
  <2>3. CASE ~Published("application")
    <3>1. /\ call' = call
          /\ plane' = plane \/ plane' = [plane EXCEPT !["application"] = Neutral]
      BY <1>11, <2>3 DEF PublishApplication
    <3>2. plane'["access"] = plane["access"] /\ ~call.ok["application"]
      BY <2>1, <3>1 DEF Typed
    <3>3. \A l \in plane'["application"].allow : Scope(l) = "application"
      BY <3>1 DEF Typed, Neutral
    <3> QED
      BY <2>1, <3>1, <3>2, <3>3 DEF Wanted
  <2> QED
    BY <2>2, <2>3
<1>12. CASE Finish
  <2>1. CASE Rollback
    BY <1>1, <1>12, <2>1, RollbackCall DEF Finish
  <2>2. CASE ~Rollback /\ call' = call
    BY <1>2, <1>12, <2>2 DEF Finish, Return
  <2>3. CASE ~Rollback /\ call' = NoCall
    BY <1>1, <1>12, <2>3, NoCallTyped DEF Finish
  <2> QED
    BY <1>12, <2>1, <2>2, <2>3 DEF Finish, Return
<1>13. CASE Record
  <2>1. CASE Rollback
    BY <1>1, <1>13, <2>1, RollbackCall DEF Record
  <2>2. CASE ~Rollback
    BY <1>1, <1>13, <2>2, NoCallTyped DEF Record, Return
  <2> QED
    BY <2>1, <2>2
<1>14. CASE Restore
  BY <1>1, <1>14, NoCallTyped DEF Restore, Return
<1>15. CASE Crash
  BY <1>1, <1>15, NoCallTyped DEF Crash
<1>16. CASE Start
  <2>1. \A s \in Scopes : call'.ok[s] = FALSE
    BY <1>3, <1>16 DEF Start
  <2>2. plane' = plane \/ plane' = [plane EXCEPT !["application"] = Neutral]
    BY <1>16 DEF Start
  <2>3. \A s \in Scopes : \A l \in plane'[s].allow : Scope(l) = s
    BY <2>2 DEF Typed, Neutral
  <2> QED
    BY <2>1, <2>3
<1>17. CASE Tick \/ (\E w \in Settings : SetClock(w)) \/ (\E t \in Targets : Reconfigure(t))
  <2>1. plane' = plane /\ call' = call /\ memory' = memory /\ pc' = pc
    BY <1>17 DEF Tick, SetClock, Reconfigure
  <2> QED
    BY <2>1 DEF Wanted
<1>18. QED
  BY <1>4, <1>5, <1>6, <1>7, <1>8, <1>10, <1>11, <1>12, <1>13, <1>14, <1>15, <1>16, <1>17 DEF Next

--------------------------------------------------------------------------------
(* Sequence numbers.                                                       *)

\* Outside a transaction there is nothing to go back to.
LEMMA NoTransaction ==
  ASSUME Control, pc \in {"down", "idle"}
  PROVE  ~InTransaction /\ call.previous = Empty /\ call.previous.leases = {}
BY NoCallTyped DEF Control, InTransaction, Empty

\* What a handler starts from is older than the lease it may create, in whichever
\* database the daemon works with.
LEMMA BaseOlder ==
  ASSUME Typed, Sequenced
  PROVE  /\ Older(Base.leases \cup journal.leases \cup revoked, Base)
         /\ Older(Refreshed.leases \cup Base.leases \cup journal.leases \cup revoked, Refreshed)
         /\ Base.next \in 1..MaxSequence /\ Base.next <= spent.requests + 1
<1>1. /\ Older(Base.leases \cup journal.leases \cup revoked, Base)
      /\ Base.next <= spent.requests + 1
  BY DEF Sequenced, Base, Older
<1>2. QED
  BY <1>1, Refreshing DEF Older, Database

\* The next sequence number is greater, or nothing is created any more.
LEMMA NextOlder ==
  ASSUME Typed, Sequenced, spent.requests < MaxRequests
  PROVE  /\ NextSequence(Base.next) <= spent.requests + 2
         /\ spent.requests + 1 < MaxRequests => NextSequence(Base.next) = Base.next + 1
<1>1. Base.next \in 1..MaxSequence /\ Base.next <= spent.requests + 1 /\ spent.requests \in Nat
  BY BaseOlder DEF Typed, Counters
<1>2. QED
  BY <1>1, Constants, SequenceAssumption DEF NextSequence

\* Nothing about sequence numbers changes unless a database does.
LEMMA SequencedKept ==
  ASSUME Sequenced, memory' = memory, journal' = journal, revoked' = revoked, loaded' = loaded,
         call'.handler = call.handler, call'.previous = call.previous,
         spent'.requests = spent.requests
  PROVE  Sequenced'
BY DEF Sequenced, Older, InTransaction

\* Leaving a handler, or beginning one that is no transaction.
LEMMA SequencedOutside ==
  ASSUME Typed, Sequenced, call'.previous = Empty, call'.handler \notin {"create", "rollback"},
         spent'.requests = spent.requests,
         journal'.next <= spent.requests + 1, Older(journal'.leases \cup revoked', journal'),
         memory'.next <= spent.requests + 1,
         loaded' => Older(memory'.leases \cup journal'.leases \cup revoked', memory')
  PROVE  Sequenced'
<1>1. call'.previous.next <= spent.requests + 1
  BY DEF Empty, Typed, Counters
<1>2. QED
  BY <1>1 DEF Sequenced, Older, InTransaction

\* Every step keeps every lease older than the next one.
LEMMA SequencedStep == Typed /\ Control /\ Tracked /\ Sequenced /\ Next => Sequenced'
<1> SUFFICES ASSUME Typed, Control, Tracked, Sequenced, Next
             PROVE  Sequenced'
  OBVIOUS
<1>1. ASSUME memory' = Refreshed, journal' = journal, revoked' = revoked, loaded' = TRUE,
             call' = call, spent'.requests = spent.requests
      PROVE  Sequenced'
  <2>1. Refreshed.next <= spent.requests + 1
    BY BaseOlder, Refreshing
  <2> QED
    BY <1>1, <2>1, BaseOlder DEF Sequenced, Older, InTransaction
<1>2. CASE Inspect
  BY <1>1, <1>2 DEF Inspect, Refresh
<1>3. ASSUME NEW t \in Targets, NEW d \in Durations, Create(t, d)
      PROVE  Sequenced'
  <2>1. /\ call'.previous = Refreshed /\ call'.handler = "create"
        /\ journal' = journal /\ revoked' = revoked
    BY <1>3, CreateCall DEF Create
  <2>2. spent'.requests = spent.requests + 1 /\ spent.requests < MaxRequests /\ spent.requests \in Nat
    BY <1>3, Spending DEF Create, Typed, Counters
  <2>3. /\ memory'.next = NextSequence(Base.next)
        /\ memory'.leases = Others(t) \cup {NewLease(t, d)}
        /\ Others(t) \subseteq Refreshed.leases
    BY <1>3 DEF Create, Others
  <2>4. Refreshed.next = Base.next /\ Base.next \in 1..MaxSequence /\ Base.next <= spent.requests + 1
    BY BaseOlder, Refreshing
  <2>5. \A l \in Refreshed.leases \cup journal.leases \cup revoked : Sequence(l) < Base.next
    BY <2>2, <2>4, BaseOlder DEF Older
  <2>6. Sequence(NewLease(t, d)) = Base.next
    BY NewLeaseTyped
  <2>7. /\ memory'.next <= spent'.requests + 1 /\ journal'.next <= spent'.requests + 1
        /\ call'.previous.next <= spent'.requests + 1
    BY <2>1, <2>2, <2>3, <2>4, NextOlder, Constants DEF Sequenced, Typed, Database
  <2>8. Older(journal.leases \cup revoked, journal)'
    BY <2>1, <2>2, Constants DEF Sequenced, Older
  <2>9. Older(call.previous.leases \cup journal.leases \cup revoked, call.previous)'
    BY <2>1, <2>4, <2>5 DEF Older
  <2>10. Older(memory.leases \cup journal.leases \cup revoked, memory)'
    <3> SUFFICES ASSUME spent'.requests < MaxRequests,
                        NEW l \in memory'.leases \cup journal'.leases \cup revoked'
                 PROVE  Sequence(l) < memory'.next
      BY DEF Older
    <3>1. memory'.next = Base.next + 1
      BY <2>2, <2>3, NextOlder
    <3>2. CASE l = NewLease(t, d)
      BY <2>4, <2>6, <3>1, <3>2
    <3>3. CASE l # NewLease(t, d)
      <4>1. l \in Refreshed.leases \cup journal.leases \cup revoked
        BY <2>1, <2>3, <3>3
      <4>2. Sequence(l) < Base.next
        BY <2>5, <4>1
      <4>3. Sequence(l) \in Nat
        <5>1. l \in Lease
          BY <4>1, Refreshing DEF Typed, Database
        <5> QED
          BY <5>1 DEF Lease, Sequence
      <4> QED
        BY <2>4, <3>1, <4>2, <4>3
    <3> QED
      BY <3>2, <3>3
  <2>11. spent'.requests <= MaxRequests
    BY <2>2, Constants
  <2> QED
    BY <2>7, <2>8, <2>9, <2>10, <2>11 DEF Sequenced
<1>4. ASSUME NEW l \in Refreshed.leases, Revoke(l)
      PROVE  Sequenced'
  <2>1. CASE WriteJournal(Without(l)) /\ Removed(l)
    <3>1. /\ Without(l).next = Base.next
          /\ Without(l).leases = Refreshed.leases \ {l}
      BY Refreshing DEF Without, Database
    <3>2. Older(Without(l).leases \cup revoked \cup {l}, Without(l))
      BY <3>1, BaseOlder, Refreshing DEF Older
    <3>3. /\ memory' = Without(l) /\ journal' = Without(l) /\ revoked' = revoked \cup {l}
          /\ call' = Reconcile("revoke") /\ spent' = spent
      BY <2>1 DEF Removed, WriteJournal
    <3>4. call'.previous = Empty /\ call'.handler = "revoke"
      BY <3>3, ReconcileTyped DEF Handlers
    <3>5. Older(journal'.leases \cup revoked', journal')
          /\ Older(memory'.leases \cup journal'.leases \cup revoked', memory')
      BY <3>2, <3>3 DEF Older
    <3>6. memory'.next <= spent.requests + 1 /\ journal'.next <= spent.requests + 1
      BY <3>1, <3>3, BaseOlder
    <3> QED
      BY <3>3, <3>4, <3>5, <3>6, SequencedOutside
  <2>2. CASE ~(WriteJournal(Without(l)) /\ Removed(l))
    BY <1>1, <1>4, <2>2, Faulting DEF Revoke, Refresh
  <2> QED
    BY <2>1, <2>2
<1>5. CASE Wakeup
  <2>1. call'.previous = Empty /\ call'.handler = "reconcile"
    BY <1>5, ReconcileTyped DEF Wakeup, Handlers, Call
  <2> QED
    BY <1>5, <2>1, SequencedOutside DEF Wakeup, ledgerVars, Sequenced
<1>6. CASE Begin
  BY <1>1, <1>6 DEF Begin, Refresh
<1>7. CASE PublishAccess
  BY <1>7, PublishedCall, Faulting, SequencedKept DEF PublishAccess, Published, Scopes, Reconciling,
     ledgerVars
<1>8. CASE PublishApplication
  BY <1>8, PublishedCall, Faulting, SequencedKept DEF PublishApplication, Published, Scopes,
     Reconciling, ledgerVars
<1>9. ASSUME Rollback, InTransaction, journal' = journal, revoked' = revoked,
             spent'.requests = spent.requests, loaded' = loaded
      PROVE  Sequenced'
  BY <1>9, RollbackCall DEF Sequenced, Older, InTransaction
<1>10. CASE Finish
  <2>1. CASE Rollback
    <3>1. call.handler = "create" /\ spent' = spent /\ journal' = journal
      BY <1>10, <2>1 DEF Finish, Rollback, Return
    <3> QED
      BY <1>9, <1>10, <2>1, <3>1 DEF Finish, InTransaction, ledgerVars
  <2>2. CASE ~Rollback
    <3>1. /\ memory' = memory /\ revoked' = revoked /\ loaded' = loaded /\ loaded
          /\ spent'.requests = spent.requests
      BY <1>10, <2>2, Faulting DEF Finish, WriteJournal, ledgerVars, Control, Loading
    <3>2. CASE call.handler = "reconcile"
      <4>1. journal' \in {memory, journal} /\ call' = NoCall
        BY <1>10, <2>2, <3>2 DEF Finish, WriteJournal, Return
      <4> QED
        BY <3>1, <4>1, NoCallTyped, SequencedOutside DEF Sequenced, Older
    <3>3. CASE call.handler # "reconcile"
      <4>1. journal' = journal /\ (call' = call \/ call' = NoCall)
        BY <1>10, <2>2, <3>3 DEF Finish, JournalDue, Return
      <4> QED
        BY <3>1, <4>1, NoCallTyped, SequencedOutside, SequencedKept DEF Sequenced
    <3> QED
      BY <3>2, <3>3
  <2> QED
    BY <2>1, <2>2
<1>11. CASE Record
  <2>1. CASE Rollback
    <3>1. call.handler = "create" /\ spent'.requests = spent.requests /\ journal' = journal
      BY <1>11, <2>1, Faulting DEF Record, Rollback, Return, Control
    <3> QED
      BY <1>9, <1>11, <2>1, <3>1 DEF Record, InTransaction, ledgerVars
  <2>2. CASE ~Rollback
    <3>1. /\ memory' = memory /\ journal' = memory /\ call' = NoCall /\ spent' = spent
          /\ revoked' = revoked /\ loaded
      BY <1>11, <2>2 DEF Record, WriteJournal, Return, ledgerVars, Control, Loading
    <3> QED
      BY <3>1, NoCallTyped, SequencedOutside DEF Sequenced, Older
  <2> QED
    BY <2>1, <2>2
<1>12. CASE Restore
  <2>1. /\ memory' = memory /\ journal' \in {call.previous, journal} /\ call' = NoCall
        /\ spent'.requests = spent.requests /\ revoked' = revoked /\ loaded /\ InTransaction
    BY <1>12, Faulting DEF Restore, WriteJournal, Return, ledgerVars, Control, Loading, InTransaction
  <2>2. call.previous.leases \subseteq journal.leases
    BY <2>1 DEF Tracked, LostOnly
  <2> QED
    BY <2>1, <2>2, NoCallTyped, SequencedOutside DEF Sequenced, Older
<1>13. CASE Crash
  <2>1. spent'.requests = spent.requests
    BY <1>13, Spending DEF Crash
  <2>2. memory'.next <= spent.requests + 1
    BY <1>13 DEF Crash, Empty, Typed, Counters
  <2> QED
    BY <1>13, <2>1, <2>2, NoCallTyped, SequencedOutside DEF Crash, ledgerVars, Sequenced
<1>14. CASE Start
  BY <1>14, Faulting, SequencedKept DEF Start, ledgerVars
<1>15. CASE Tick
  BY <1>15, SequencedKept DEF Tick, ledgerVars
<1>16. ASSUME NEW w \in Settings, SetClock(w)
       PROVE  Sequenced'
  BY <1>16, Spending, SequencedKept DEF SetClock, ledgerVars
<1>17. ASSUME NEW t \in Targets, Reconfigure(t)
       PROVE  Sequenced'
  BY <1>17, Spending, SequencedKept DEF Reconfigure, ledgerVars
<1>18. QED
  BY <1>2, <1>3, <1>4, <1>5, <1>6, <1>7, <1>8, <1>10, <1>11, <1>12, <1>13, <1>14, <1>15, <1>16,
     <1>17 DEF Next

--------------------------------------------------------------------------------
(* Revoked leases.                                                         *)

\* A refresh brings nothing back that was revoked.
LEMMA NowhereBase ==
  ASSUME Typed, Nowhere
  PROVE  revoked \cap (Base.leases \cup Refreshed.leases) = {}
BY Refreshing DEF Nowhere, Base

\* Nothing that was revoked returns unless a database changes.
LEMMA NowhereKept ==
  ASSUME Nowhere, memory' = memory, journal' = journal, revoked' = revoked,
         call'.handler = call.handler, call'.previous = call.previous, call'.lease = call.lease
  PROVE  Nowhere'
BY DEF Nowhere, InTransaction

\* Leaving a handler, or beginning one that is no transaction.
LEMMA NowhereOutside ==
  ASSUME Nowhere, call'.previous = Empty, call'.handler \notin {"create", "rollback"},
         revoked' = revoked, revoked \cap (memory'.leases \cup journal'.leases) = {}
  PROVE  Nowhere'
BY DEF Nowhere, InTransaction, Empty

\* Every step keeps what was revoked out of the three databases: a lease that is
\* created is newer than all of it.
LEMMA NowhereStep == Typed /\ Control /\ Sequenced /\ Nowhere /\ Next => Nowhere'
<1> SUFFICES ASSUME Typed, Control, Sequenced, Nowhere, Next
             PROVE  Nowhere'
  OBVIOUS
<1>1. ASSUME memory' = Refreshed, journal' = journal, revoked' = revoked, call' = call
      PROVE  Nowhere'
  BY <1>1, NowhereBase DEF Nowhere, InTransaction
<1>2. CASE Inspect
  BY <1>1, <1>2 DEF Inspect
<1>3. ASSUME NEW t \in Targets, NEW d \in Durations, Create(t, d)
      PROVE  Nowhere'
  <2>1. /\ call'.previous = Refreshed /\ call'.handler = "create"
        /\ call'.lease = NewLease(t, d)
        /\ journal' = journal /\ revoked' = revoked
        /\ memory'.leases = Others(t) \cup {NewLease(t, d)}
    BY <1>3, CreateCall DEF Create
  <2>2. spent.requests < MaxRequests
    BY <1>3, Spending DEF Create
  <2>3. \A l \in Refreshed.leases \cup journal.leases \cup revoked : Sequence(l) < Base.next
    BY <2>2, BaseOlder, Refreshing DEF Older
  <2>4. NewLease(t, d) \notin Refreshed.leases \cup journal.leases \cup revoked
    BY <2>3, NewLeaseTyped, BaseOlder, Constants
  <2> QED
    BY <2>1, <2>4, NowhereBase DEF Nowhere, Others
<1>4. ASSUME NEW l \in Refreshed.leases, Revoke(l)
      PROVE  Nowhere'
  <2>1. CASE WriteJournal(Without(l)) /\ Removed(l)
    <3>1. Without(l).leases = Refreshed.leases \ {l}
      BY Refreshing DEF Without, Database
    <3>2. /\ memory' = Without(l) /\ journal' = Without(l) /\ revoked' = revoked \cup {l}
          /\ call' = Reconcile("revoke")
      BY <2>1 DEF Removed, WriteJournal
    <3>3. call'.previous = Empty /\ call'.handler = "revoke"
      BY <3>2, ReconcileTyped DEF Handlers
    <3> QED
      BY <3>1, <3>2, <3>3, NowhereBase DEF Nowhere, InTransaction, Empty
  <2>2. CASE ~(WriteJournal(Without(l)) /\ Removed(l))
    BY <1>1, <1>4, <2>2 DEF Revoke
  <2> QED
    BY <2>1, <2>2
<1>5. CASE Wakeup
  <2>1. call'.previous = Empty /\ call'.handler = "reconcile"
    BY <1>5, ReconcileTyped DEF Wakeup, Handlers, Call
  <2> QED
    BY <1>5, <2>1, NowhereOutside DEF Wakeup, ledgerVars, Nowhere
<1>6. CASE Begin
  BY <1>1, <1>6 DEF Begin
<1>7. CASE PublishAccess
  BY <1>7, PublishedCall, NowhereKept DEF PublishAccess, Published, Scopes, Reconciling, ledgerVars
<1>8. CASE PublishApplication
  BY <1>8, PublishedCall, NowhereKept DEF PublishApplication, Published, Scopes, Reconciling,
     ledgerVars
<1>9. ASSUME Rollback, InTransaction, journal' = journal, revoked' = revoked
      PROVE  Nowhere'
  BY <1>9, RollbackCall DEF Nowhere, InTransaction
<1>10. CASE Finish
  <2>1. CASE Rollback
    <3>1. call.handler = "create" /\ journal' = journal
      BY <1>10, <2>1 DEF Finish, Rollback, Return
    <3> QED
      BY <1>9, <1>10, <2>1, <3>1 DEF Finish, InTransaction, ledgerVars
  <2>2. CASE ~Rollback
    <3>1. memory' = memory /\ revoked' = revoked
      BY <1>10, <2>2 DEF Finish, ledgerVars
    <3>2. CASE call.handler = "reconcile"
      <4>1. journal' \in {memory, journal} /\ call' = NoCall
        BY <1>10, <2>2, <3>2 DEF Finish, WriteJournal, Return
      <4> QED
        BY <3>1, <4>1, NoCallTyped, NowhereOutside DEF Nowhere
    <3>3. CASE call.handler # "reconcile"
      <4>1. journal' = journal /\ (call' = call \/ call' = NoCall)
        BY <1>10, <2>2, <3>3 DEF Finish, JournalDue, Return
      <4> QED
        BY <3>1, <4>1, NoCallTyped, NowhereOutside, NowhereKept DEF Nowhere
    <3> QED
      BY <3>2, <3>3
  <2> QED
    BY <2>1, <2>2
<1>11. CASE Record
  <2>1. CASE Rollback
    <3>1. call.handler = "create" /\ journal' = journal
      BY <1>11, <2>1 DEF Record, Rollback, Return, Control
    <3> QED
      BY <1>9, <1>11, <2>1, <3>1 DEF Record, InTransaction, ledgerVars
  <2>2. CASE ~Rollback
    <3>1. memory' = memory /\ journal' = memory /\ call' = NoCall /\ revoked' = revoked
      BY <1>11, <2>2 DEF Record, WriteJournal, Return, ledgerVars
    <3> QED
      BY <3>1, NoCallTyped, NowhereOutside DEF Nowhere
  <2> QED
    BY <2>1, <2>2
<1>12. CASE Restore
  <2>1. /\ memory' = memory /\ journal' \in {call.previous, journal} /\ call' = NoCall
        /\ revoked' = revoked
    BY <1>12 DEF Restore, WriteJournal, Return, ledgerVars
  <2> QED
    BY <2>1, NoCallTyped, NowhereOutside DEF Nowhere
<1>13. CASE Crash
  BY <1>13, NoCallTyped, NowhereOutside DEF Crash, ledgerVars, Nowhere, Empty
<1>14. CASE Start
  BY <1>14, NowhereKept DEF Start, ledgerVars
<1>15. CASE Tick
  BY <1>15, NowhereKept DEF Tick, ledgerVars
<1>16. ASSUME NEW w \in Settings, SetClock(w)
       PROVE  Nowhere'
  BY <1>16, NowhereKept DEF SetClock, ledgerVars
<1>17. ASSUME NEW t \in Targets, Reconfigure(t)
       PROVE  Nowhere'
  BY <1>17, NowhereKept DEF Reconfigure, ledgerVars
<1>18. QED
  BY <1>2, <1>3, <1>4, <1>5, <1>6, <1>7, <1>8, <1>10, <1>11, <1>12, <1>13, <1>14, <1>15, <1>16,
     <1>17 DEF Next

--------------------------------------------------------------------------------
(* Memory and journal.                                                     *)

\* What a handler that is about to begin finds differs from the journal by what
\* lapsed only, and so does what it keeps.
LEMMA BaseTracked ==
  ASSUME Typed, Control, Tracked, ~InTransaction, Refresh
  PROVE  /\ lapsed \subseteq lapsed'
         /\ Refreshed.leases \subseteq journal.leases
         /\ journal.leases \ Refreshed.leases \subseteq lapsed'
<1>1. Base.leases \subseteq journal.leases /\ journal.leases \ Base.leases \subseteq lapsed
  BY DEF Tracked, LostOnly, Base
<1>2. lapsed \subseteq lapsed' /\ Dropped \subseteq lapsed'
  BY DEF Refresh
<1>3. QED
  BY <1>1, <1>2, Refreshing

\* Memory and journal stay related unless one of them changes.
LEMMA TrackedKept ==
  ASSUME Tracked, memory' = memory, journal' = journal, lapsed' = lapsed, loaded' = loaded,
         call'.handler = call.handler, call'.previous = call.previous, call'.lease = call.lease,
         pc' = "begin" => pc = "begin"
  PROVE  Tracked'
BY DEF Tracked, InTransaction, LostOnly

\* Leaving a handler, or beginning one that is no transaction.
LEMMA TrackedOutside ==
  ASSUME call'.handler \notin {"create", "rollback"},
         loaded' => memory'.leases \subseteq journal'.leases
                    /\ journal'.leases \ memory'.leases \subseteq lapsed'
  PROVE  Tracked'
BY DEF Tracked, InTransaction, LostOnly

\* Every step keeps memory and the previous database the journal's, but for the
\* lease in creation and what lapsed.
LEMMA TrackedStep == Typed /\ Control /\ Tracked /\ Next => Tracked'
<1> SUFFICES ASSUME Typed, Control, Tracked, Next
             PROVE  Tracked'
  OBVIOUS
<1>1. ASSUME Refresh, ~InTransaction, memory' = Refreshed, journal' = journal,
             call'.handler = call.handler
      PROVE  Tracked'
  BY <1>1, BaseTracked, TrackedOutside DEF InTransaction
<1>2. CASE Inspect
  BY <1>1, <1>2, NoTransaction DEF Inspect
<1>3. ASSUME NEW t \in Targets, NEW d \in Durations, Create(t, d)
      PROVE  Tracked'
  <2>1. /\ call'.previous = Refreshed /\ call'.handler = "create"
        /\ call'.lease = NewLease(t, d) /\ call'.lease.target = t
        /\ journal' = journal
        /\ memory'.leases = Others(t) \cup {NewLease(t, d)}
    BY <1>3, CreateCall, NewLeaseTyped DEF Create
  <2>2. /\ Refreshed.leases \subseteq journal.leases
        /\ journal.leases \ Refreshed.leases \subseteq lapsed'
    BY <1>3, BaseTracked, NoTransaction DEF Create
  <2>3. /\ Others(t) \subseteq Refreshed.leases
        /\ \A l \in Others(t) : l.target # t
        /\ \A l \in Refreshed.leases \ Others(t) : l.target = t
    BY DEF Others
  <2> QED
    BY <2>1, <2>2, <2>3 DEF Tracked, InTransaction, LostOnly
<1>4. ASSUME NEW l \in Refreshed.leases, Revoke(l)
      PROVE  Tracked'
  <2>1. ~InTransaction /\ Refresh
    BY <1>4, NoTransaction DEF Revoke
  <2>2. CASE WriteJournal(Without(l)) /\ Removed(l)
    BY <2>2, ReconcileTyped, TrackedOutside DEF Removed, WriteJournal, Handlers
  <2>3. CASE ~(WriteJournal(Without(l)) /\ Removed(l))
    BY <1>1, <1>4, <2>1, <2>3 DEF Revoke
  <2> QED
    BY <2>2, <2>3
<1>5. CASE Wakeup
  <2>1. call'.handler = "reconcile"
    BY <1>5, ReconcileTyped DEF Wakeup, Handlers, Call
  <2>2. ~InTransaction
    BY <1>5, NoTransaction DEF Wakeup
  <2> QED
    BY <1>5, <2>1, <2>2, TrackedOutside DEF Wakeup, ledgerVars, Tracked, LostOnly
<1>6. CASE Begin
  <2>1. /\ memory' = Refreshed /\ journal' = journal /\ call' = call /\ Refresh
        /\ pc = "begin" /\ pc' = "access"
    BY <1>6 DEF Begin
  <2>2. /\ lapsed \subseteq lapsed' /\ Superseded \subseteq lapsed'
        /\ Base.leases \ Refreshed.leases \subseteq lapsed'
    BY <2>1, Refreshing DEF Refresh
  <2>3. CASE ~InTransaction
    BY <1>1, <2>1, <2>3
  <2>4. CASE InTransaction
    <3>1. loaded /\ Base = memory
      BY <2>4 DEF Control, InTransaction, Base
    <3>2. CASE call.handler = "rollback"
      BY <2>1, <2>2, <3>1, <3>2, Refreshing DEF Tracked, InTransaction, LostOnly
    <3>3. CASE call.handler = "create"
      <4>1. call.lease \in memory.leases
        BY <2>1, <3>3 DEF Tracked
      <4>2. call.lease \notin Refreshed.leases =>
              \A l \in call.previous.leases : l.target = call.lease.target => l \in lapsed'
        BY <2>2, <3>1, <4>1, Refreshing DEF Superseded
      <4> QED
        BY <2>1, <2>2, <3>1, <3>3, <4>2, Refreshing DEF Tracked, InTransaction, LostOnly
    <3> QED
      BY <2>4, <3>2, <3>3 DEF InTransaction
  <2> QED
    BY <2>3, <2>4
<1>7. CASE PublishAccess
  BY <1>7, PublishedCall, TrackedKept DEF PublishAccess, Published, Scopes, Reconciling, ledgerVars
<1>8. CASE PublishApplication
  BY <1>8, PublishedCall, TrackedKept DEF PublishApplication, Published, Scopes, Reconciling,
     ledgerVars
<1>9. ASSUME Rollback, InTransaction, journal' = journal, lapsed' = lapsed
      PROVE  Tracked'
  BY <1>9, RollbackCall DEF Tracked, InTransaction, LostOnly
<1>10. CASE Finish
  <2>1. CASE Rollback
    <3>1. call.handler = "create" /\ journal' = journal
      BY <1>10, <2>1 DEF Finish, Rollback, Return
    <3> QED
      BY <1>9, <1>10, <2>1, <3>1 DEF Finish, InTransaction, ledgerVars
  <2>2. CASE ~Rollback
    <3>1. memory' = memory /\ lapsed' = lapsed /\ loaded' = loaded /\ loaded
      BY <1>10, <2>2 DEF Finish, ledgerVars, Control, Loading
    <3>2. CASE InTransaction
      <4>1. journal' = journal /\ call' = call /\ pc' # "begin"
        BY <1>10, <2>2, <3>2 DEF Finish, JournalDue, InTransaction
      <4> QED
        BY <3>1, <4>1, TrackedKept
    <3>3. CASE ~InTransaction
      <4>1. journal' \in {memory, journal} /\ call' = NoCall
        BY <1>10, <2>2, <3>3 DEF Finish, WriteJournal, Return, InTransaction
      <4> QED
        BY <3>1, <3>3, <4>1, NoCallTyped, TrackedOutside DEF Tracked, LostOnly
    <3> QED
      BY <3>2, <3>3
  <2> QED
    BY <2>1, <2>2
<1>11. CASE Record
  <2>1. CASE Rollback
    <3>1. call.handler = "create" /\ journal' = journal
      BY <1>11, <2>1 DEF Record, Rollback, Return, Control
    <3> QED
      BY <1>9, <1>11, <2>1, <3>1 DEF Record, InTransaction, ledgerVars
  <2>2. CASE ~Rollback
    <3>1. memory' = memory /\ journal' = memory /\ call' = NoCall
      BY <1>11, <2>2 DEF Record, WriteJournal, Return
    <3> QED
      BY <3>1, NoCallTyped, TrackedOutside
  <2> QED
    BY <2>1, <2>2
<1>12. CASE Restore
  <2>1. /\ memory' = memory /\ journal' \in {call.previous, journal} /\ call' = NoCall
        /\ lapsed' = lapsed /\ call.handler = "rollback"
    BY <1>12 DEF Restore, WriteJournal, Return, ledgerVars, Control
  <2> QED
    BY <2>1, NoCallTyped, TrackedOutside DEF Tracked, InTransaction, LostOnly
<1>13. CASE Crash
  BY <1>13, NoCallTyped, TrackedOutside DEF Crash
<1>14. CASE Start
  BY <1>14, TrackedKept DEF Start, ledgerVars
<1>15. CASE Tick
  BY <1>15, TrackedKept DEF Tick, ledgerVars
<1>16. ASSUME NEW w \in Settings, SetClock(w)
       PROVE  Tracked'
  BY <1>16, TrackedKept DEF SetClock, ledgerVars
<1>17. ASSUME NEW t \in Targets, Reconfigure(t)
       PROVE  Tracked'
  BY <1>17, TrackedKept DEF Reconfigure, ledgerVars
<1>18. QED
  BY <1>2, <1>3, <1>4, <1>5, <1>6, <1>7, <1>8, <1>10, <1>11, <1>12, <1>13, <1>14, <1>15, <1>16,
     <1>17 DEF Next

--------------------------------------------------------------------------------
(* Time.                                                                   *)

\* Returning to the event loop at once keeps the timer's promise.
LEMMA TimelyKept ==
  ASSUME Timely, pc \in {"idle", "record", "restore"}, pc' = "idle",
         wall' = wall, mono' = mono, due' = due, plane' = plane, committed' = committed,
         spent'.sets = spent.sets, spent'.faults = spent.faults
  PROVE  Timely'
BY DEF Timely

\* Where nothing is claimed: a handler begins, the daemon is down, or a command
\* failed.
LEMMA TimelyVacuous ==
  ASSUME pc' \in {"down", "begin"}
  PROVE  Timely'
BY DEF Timely

\* After a failure the timer promises nothing.
LEMMA TimelyFaulted ==
  ASSUME Typed, Fault, pc' \notin {"access", "application", "finish"}
  PROVE  Timely'
<1>1. spent'.faults # 0
  BY Faulting DEF Typed, Counters
<1>2. QED
  BY <1>1 DEF Timely

\* The end of a reconciliation sets the timer before anything it published is due.
LEMMA FinishTimely ==
  ASSUME Typed, Control, Publishing, Timely, pc = "finish", due' = mono + Delay,
         wall' = wall, mono' = mono, plane' = plane, committed' = committed, spent' = spent,
         pc' \in {"idle", "record", "restore"}
  PROVE  Timely'
<1> SUFFICES ASSUME spent.faults = 0
             PROVE  /\ mono <= due'
                    /\ \A s \in Scopes : \A l \in plane[s].allow :
                         /\ due' < l.deadline + Safety
                         /\ spent.sets = 0 => wall + (due' - mono) <= l.expires
  BY DEF Timely
<1>1. Delay \in Nat /\ Delay <= Safety /\ mono \in Nat /\ wall \in Nat /\ due' = mono + Delay
  BY DelayBound DEF Typed
<1>2. ASSUME NEW s \in Scopes, NEW l \in plane[s].allow
      PROVE  /\ due' < l.deadline + Safety
             /\ wall + (due' - mono) <= l.expires
  <2>1. call.ok[s]
    BY DEF Timely, Scopes
  <2>2. l \in memory.leases
    <3>1. plane[s] = Enforce(Wanted(s))
      BY <2>1 DEF Publishing
    <3>2. plane[s].allow = Wanted(s)
      BY <3>1 DEF Enforce
    <3> QED
      BY <3>2 DEF Wanted
  <2>3. l.expires \in Nat /\ l.deadline \in Nat /\ mono < l.deadline /\ wall < l.expires
    BY <2>2 DEF Timely, Active, Typed, Database, Lease
  <2>4. Delay <= l.expires - wall
    BY <2>2, <2>3, DelayBound
  <2> QED
    BY <1>1, <2>3, <2>4, Constants
<1>3. QED
  BY <1>1, <1>2

\* Every step keeps the timer's promise.
LEMMA TimelyStep == Typed /\ Control /\ Publishing /\ Timely /\ Next => Timely'
<1> SUFFICES ASSUME Typed, Control, Publishing, Timely, Next
             PROVE  Timely'
  OBVIOUS
<1>1. CASE Inspect
  BY <1>1, TimelyKept DEF Inspect, clockVars
<1>2. ASSUME NEW t \in Targets, NEW d \in Durations, Create(t, d)
      PROVE  Timely'
  BY <1>2, TimelyVacuous DEF Create
<1>3. ASSUME NEW l \in Refreshed.leases, Revoke(l)
      PROVE  Timely'
  <2>1. CASE WriteJournal(Without(l)) /\ Removed(l)
    BY <2>1, TimelyVacuous DEF Removed
  <2>2. CASE ~(WriteJournal(Without(l)) /\ Removed(l))
    BY <1>3, <2>2, TimelyFaulted DEF Revoke
  <2> QED
    BY <2>1, <2>2
<1>4. CASE Wakeup
  BY <1>4, TimelyVacuous DEF Wakeup
<1>5. CASE Begin
  <2>1. \A l \in Refreshed.leases : Active(l)
    BY Refreshing
  <2> QED
    BY <1>5, <2>1 DEF Begin, Timely, Active, ClockValid, clockVars
<1>6. CASE PublishAccess
  <2>1. /\ memory' = memory /\ known' = known /\ wall' = wall /\ mono' = mono
        /\ pc = "access" /\ pc' = "application"
    BY <1>6 DEF PublishAccess, Reconciling, clockVars
  <2>2. spent'.faults = 0 => call'.ok["access"]
    <3>1. CASE Published("access")
      BY <3>1, PublishedCall DEF Published, Scopes
    <3>2. CASE ~Published("access")
      BY <1>6, <3>2, Faulting DEF PublishAccess, Typed, Counters
    <3> QED
      BY <3>1, <3>2
  <2> QED
    BY <2>1, <2>2 DEF Timely, Active, ClockValid
<1>7. CASE PublishApplication
  <2>1. /\ memory' = memory /\ known' = known /\ wall' = wall /\ mono' = mono
        /\ pc = "application" /\ pc' = "finish"
    BY <1>7 DEF PublishApplication, Reconciling, clockVars
  <2>2. spent'.faults = 0 => call'.ok["access"] /\ call'.ok["application"]
    <3>1. CASE Published("application")
      <4>1. spent' = spent /\ call'.ok["application"] /\ call'.ok["access"] = call.ok["access"]
        BY <3>1, PublishedCall DEF Published, Scopes
      <4> QED
        BY <2>1, <4>1 DEF Timely
    <3>2. CASE ~Published("application")
      BY <1>7, <3>2, Faulting DEF PublishApplication, Typed, Counters
    <3> QED
      BY <3>1, <3>2
  <2> QED
    BY <2>1, <2>2 DEF Timely, Active, ClockValid
<1>8. CASE Finish
  <2>1. CASE Rollback
    BY <2>1, TimelyVacuous DEF Rollback
  <2>2. CASE ~Rollback /\ Fault
    BY <1>8, <2>2, TimelyFaulted DEF Finish, Return
  <2>3. CASE ~Rollback /\ ~Fault
    <3>1. /\ pc = "finish" /\ due' = mono + Delay
          /\ wall' = wall /\ mono' = mono /\ plane' = plane /\ committed' = committed
          /\ pc' \in {"idle", "record", "restore"}
      BY <1>8, <2>3 DEF Finish, Return, clockVars
    <3>2. spent' = spent
      BY <1>8, <2>3 DEF Finish, WriteJournal
    <3> QED
      BY <3>1, <3>2, FinishTimely
  <2> QED
    BY <2>1, <2>2, <2>3
<1>9. CASE Record
  <2>1. CASE Rollback
    BY <2>1, TimelyVacuous DEF Rollback
  <2>2. CASE ~Rollback
    BY <1>9, <2>2, TimelyKept DEF Record, WriteJournal, Return, clockVars
  <2> QED
    BY <2>1, <2>2
<1>10. CASE Restore
  <2>1. CASE Fault
    BY <1>10, <2>1, TimelyFaulted DEF Restore, Return
  <2>2. CASE ~Fault
    BY <1>10, <2>2, TimelyKept DEF Restore, WriteJournal, Return, clockVars
  <2> QED
    BY <2>1, <2>2
<1>11. CASE Crash
  BY <1>11, TimelyVacuous DEF Crash
<1>12. CASE Start
  <2>1. \A s \in Scopes : committed'[s] = None
    BY <1>12 DEF Start, Control
  <2>2. mono' = mono /\ due' = mono /\ pc' = "idle" /\ mono \in Nat
    BY <1>12 DEF Start, clockVars, Typed
  <2> QED
    BY <2>1, <2>2 DEF Timely
<1>13. CASE Tick
  <2>1. CASE pc = "idle"
    <3>1. /\ mono' = mono + 1 /\ wall' = wall + 1 /\ mono < due
          /\ due' = due /\ plane' = plane /\ committed' = committed /\ spent' = spent /\ pc' = pc
      BY <1>13, <2>1 DEF Tick
    <3>2. mono \in Nat /\ wall \in Nat /\ due \in Nat
      BY DEF Typed
    <3>3. mono' <= due /\ wall' + (due - mono') = wall + (due - mono)
      BY <3>1, <3>2
    <3> QED
      BY <2>1, <3>1, <3>3 DEF Timely
  <2>2. CASE pc # "idle"
    BY <1>13, <2>2, TimelyVacuous DEF Tick
  <2> QED
    BY <2>1, <2>2
<1>14. ASSUME NEW w \in Settings, SetClock(w)
       PROVE  Timely'
  <2>1. spent'.sets # 0 /\ spent'.faults = spent.faults
    BY <1>14, Spending DEF SetClock, Typed, Counters
  <2> QED
    BY <1>14, <2>1 DEF SetClock, Timely
<1>15. ASSUME NEW t \in Targets, Reconfigure(t)
       PROVE  Timely'
  <2>1. spent'.sets = spent.sets /\ spent'.faults = spent.faults
    BY <1>15, Spending DEF Reconfigure
  <2> QED
    BY <1>15, <2>1 DEF Reconfigure, Timely, clockVars
<1>16. QED
  BY <1>1, <1>2, <1>3, <1>4, <1>5, <1>6, <1>7, <1>8, <1>9, <1>10, <1>11, <1>12, <1>13, <1>14,
     <1>15 DEF Next

--------------------------------------------------------------------------------
(* The inductive invariant.                                                *)

\* The invariant holds before the daemon is first started.
LEMMA InitIInv == Init => IInv
<1> SUFFICES ASSUME Init
             PROVE  IInv
  OBVIOUS
<1> USE DEF Init
<1>1. spent = [requests |-> 0, faults |-> 0, sets |-> 0, changes |-> 0] /\ spent \in Counters
  BY DEF Counters
<1>2. Neutral \in Plane /\ plane \in [Scopes -> Plane]
  BY DEF Neutral, Plane
<1>3. committed \in [Scopes -> (SUBSET Targets) \cup {None}]
  OBVIOUS
<1>4. Typed
  BY <1>1, <1>2, <1>3, Constants, EmptyTyped, NoCallTyped DEF Typed, PCs
<1>5. Control
  BY NoCallTyped DEF Control, InTransaction, Loading
<1>6. Publishing
  BY NoCallTyped DEF Publishing, Neutral
<1>7. Sequenced
  BY <1>1, Constants, NoCallTyped DEF Sequenced, Older, Empty, InTransaction
<1>8. Nowhere
  BY NoCallTyped DEF Nowhere, Empty, InTransaction
<1>9. Tracked
  BY NoCallTyped DEF Tracked, InTransaction
<1>10. Timely
  BY DEF Timely
<1>11. QED
  BY <1>4, <1>5, <1>6, <1>7, <1>8, <1>9, <1>10 DEF IInv

\* Every step keeps the invariant.
LEMMA NextIInv == IInv /\ [Next]_vars => IInv'
<1> SUFFICES ASSUME IInv, [Next]_vars
             PROVE  IInv'
  OBVIOUS
<1>1. CASE Next
  BY <1>1, TypedStep, ControlStep, PublishingStep, SequencedStep, NowhereStep, TrackedStep,
     TimelyStep DEF IInv
<1>2. CASE UNCHANGED vars
  <2> USE <1>2 DEF vars, IInv
  <2>1. Typed'
    BY DEF Typed
  <2>2. Control' /\ Publishing'
    BY DEF Control, Publishing, Loading, InTransaction, Accepted, Wanted
  <2>3. Sequenced' /\ Nowhere' /\ Tracked'
    BY DEF Sequenced, Older, Nowhere, Tracked, LostOnly, InTransaction
  <2>4. Timely'
    BY DEF Timely, Active, ClockValid
  <2> QED
    BY <2>1, <2>2, <2>3, <2>4
<1>3. QED
  BY <1>1, <1>2

\* The inductive invariant holds in every reachable state of the daemon.
THEOREM Invariance == Spec => []IInv
BY InitIInv, NextIInv, PTL DEF Spec

\* The database, the journal, the planes and the handler are well formed.
THEOREM TypeCorrect == Spec => []TypeOK
<1>1. IInv => TypeOK
  <2> SUFFICES ASSUME IInv
               PROVE  TypeOK
    OBVIOUS
  <2> USE DEF IInv
  <2>1. {wall, mono, due} \subseteq Nat /\ known \subseteq Targets
    BY DEF Typed
  <2>2. IsDatabase(memory) /\ IsDatabase(journal) /\ IsDatabase(call.previous)
    BY DEF Typed, IsDatabase, Database, Call
  <2>3. {loaded, dirty, call.repair} \subseteq BOOLEAN /\ pc \in PCs
    BY DEF Typed, Call
  <2>4. \A s \in Scopes : \A l \in plane[s].allow : l \in Lease /\ Scope(l) = s
    BY DEF Typed, Plane, Publishing
  <2>5. (call = NoCall) <=> (pc \in {"down", "idle"})
    BY NoCallTyped DEF Control
  <2> QED
    BY <2>1, <2>2, <2>3, <2>4, <2>5 DEF TypeOK
<1>2. QED
  BY <1>1, Invariance, PTL

\* revoke_approval journals first, and ids are not used again while it matters:
\* no revoked approval comes back, by whatever death, failure or rollback.
THEOREM NothingRevokedReturns == Spec => []RevokedForGood
<1>1. IInv => RevokedForGood
  BY DEF IInv, Nowhere, RevokedForGood
<1>2. QED
  BY <1>1, Invariance, PTL

\* update_timer looks at the wall clock only, and yet no approval outlives its
\* monotonic deadline by a safety interval, as long as no command fails.
THEOREM NothingOverstays == Spec => []NoOverstay
<1>1. IInv => NoOverstay
  <2> SUFFICES ASSUME IInv, pc = "idle", spent.faults = 0,
                      NEW s \in Scopes, committed[s] # None, NEW l \in plane[s].allow
               PROVE  /\ mono < l.deadline + Safety
                      /\ spent.sets = 0 => wall <= l.expires
    BY DEF NoOverstay
  <2>1. /\ mono <= due /\ due < l.deadline + Safety
        /\ spent.sets = 0 => wall + (due - mono) <= l.expires
    BY DEF IInv, Timely
  <2>2. mono \in Nat /\ due \in Nat /\ wall \in Nat /\ l.deadline \in Nat /\ l.expires \in Nat
    BY DEF IInv, Typed, Plane, Lease
  <2> QED
    BY <2>1, <2>2, Constants
<1>2. QED
  BY <1>1, Invariance, PTL

--------------------------------------------------------------------------------
(* The ledger.                                                             *)

\* Only the record of an accepted creation adds to the journal.
LEMMA Recording ==
  ASSUME IInv, Record, journal' # journal
  PROVE  /\ journal' = memory /\ call.handler = "create" /\ Accepted
         /\ lapsed' = lapsed /\ revoked' = revoked
BY DEF Record, WriteJournal, ledgerVars, IInv, Control

\* Every other write leaves out what lapsed or is being revoked.
LEMMA Writing ==
  ASSUME IInv, Next, ~Record
  PROVE  /\ lapsed \subseteq lapsed'
         /\ \/ /\ revoked' = revoked
               /\ journal'.leases \subseteq journal.leases
               /\ journal.leases \ journal'.leases \subseteq lapsed'
            \/ \E l \in Refreshed.leases :
                 /\ Refresh
                 /\ ~InTransaction
                 /\ revoked' = revoked \cup {l}
                 /\ journal'.leases = Refreshed.leases \ {l}
<1> USE DEF IInv
<1>1. ASSUME lapsed \subseteq lapsed', revoked' = revoked, journal' = journal
      PROVE  /\ lapsed \subseteq lapsed' /\ revoked' = revoked
             /\ journal'.leases \subseteq journal.leases
             /\ journal.leases \ journal'.leases \subseteq lapsed'
  BY <1>1
<1>2. Refresh => lapsed \subseteq lapsed'
  BY DEF Refresh
<1>3. CASE Inspect \/ Begin \/ \E t \in Targets, d \in Durations : Create(t, d)
  BY <1>1, <1>2, <1>3 DEF Inspect, Begin, Create
<1>4. ASSUME NEW l \in Refreshed.leases, Revoke(l)
      PROVE  /\ lapsed \subseteq lapsed'
             /\ \/ /\ revoked' = revoked
                   /\ journal'.leases \subseteq journal.leases
                   /\ journal.leases \ journal'.leases \subseteq lapsed'
                \/ /\ Refresh
                   /\ ~InTransaction
                   /\ revoked' = revoked \cup {l}
                   /\ journal'.leases = Refreshed.leases \ {l}
  <2>1. Without(l).leases = Refreshed.leases \ {l}
    BY Refreshing DEF Without, Database
  <2>2. ~InTransaction /\ Refresh
    BY <1>4, NoTransaction DEF Revoke
  <2>3. CASE journal' = Without(l) /\ revoked' = revoked \cup {l}
    BY <1>2, <2>1, <2>2, <2>3
  <2>4. CASE journal' = journal /\ revoked' = revoked
    BY <1>2, <2>2, <2>4
  <2> QED
    BY <1>4, <2>3, <2>4 DEF Revoke, Removed, WriteJournal
<1>5. CASE Wakeup \/ PublishAccess \/ PublishApplication \/ Crash \/ Start \/ Tick
  BY <1>1, <1>5 DEF Wakeup, PublishAccess, PublishApplication, Reconciling, Crash, Start, Tick,
     ledgerVars
<1>6. CASE (\E w \in Settings : SetClock(w)) \/ (\E t \in Targets : Reconfigure(t))
  BY <1>1, <1>6 DEF SetClock, Reconfigure, ledgerVars
<1>7. CASE Finish
  <2>1. lapsed' = lapsed /\ revoked' = revoked /\ pc = "finish"
    BY <1>7 DEF Finish, ledgerVars
  <2>2. CASE journal' = journal
    BY <1>1, <2>1, <2>2
  <2>3. CASE journal' # journal
    <3>1. journal' = memory /\ call.handler = "reconcile"
      BY <1>7, <2>3 DEF Finish, JournalDue, WriteJournal
    <3> QED
      BY <2>1, <3>1 DEF Control, Loading, Tracked, InTransaction, LostOnly
  <2> QED
    BY <2>2, <2>3
<1>8. CASE Restore
  <2>1. /\ lapsed' = lapsed /\ revoked' = revoked /\ journal' \in {call.previous, journal}
        /\ InTransaction
    BY <1>8 DEF Restore, WriteJournal, ledgerVars, Control, InTransaction
  <2> QED
    BY <2>1 DEF Tracked, LostOnly
<1>9. CASE \E l \in Refreshed.leases : Revoke(l)
  BY <1>4, <1>9
<1>10. QED
  BY <1>3, <1>5, <1>6, <1>7, <1>8, <1>9 DEF Next

\* Nothing is granted at first.
LEMMA InitLedger == Init => Ledger!Init
BY DEF Init, Ledger!Init, Empty

\* A creation is granted when it is recorded.
LEMMA RecordGrants ==
  ASSUME IInv, Record, journal' # journal
  PROVE  Ledger!Next
<1> USE DEF IInv
<1>1. /\ journal' = memory /\ call.handler = "create"
      /\ lapsed' = lapsed /\ revoked' = revoked /\ InTransaction
  BY Recording DEF InTransaction
<1>2. call.previous.leases \subseteq journal.leases
      /\ journal.leases \ call.previous.leases \subseteq lapsed
  BY <1>1 DEF Tracked, LostOnly
<1>3. /\ memory.leases \ {call.lease} \subseteq call.previous.leases
      /\ \A l \in memory.leases \ {call.lease} : l.target # call.lease.target
      /\ \A l \in call.previous.leases \ memory.leases :
           l.target = call.lease.target \/ l \in lapsed
      /\ call.lease \notin memory.leases =>
           \A l \in call.previous.leases : l.target = call.lease.target => l \in lapsed
  BY <1>1 DEF Tracked
<1>4. CASE call.lease \in memory.leases
  <2> DEFINE kept == memory.leases \ {call.lease}
  <2>1. call.lease \notin journal.leases \cup revoked
    BY <1>1 DEF Nowhere
  <2>2. kept \in SUBSET journal.leases
    BY <1>2, <1>3
  <2>3. \A g \in journal.leases \ kept : g.target = call.lease.target \/ g \in lapsed
    BY <1>2, <1>3, <2>1
  <2>4. journal'.leases = kept \cup {call.lease}
    BY <1>1, <1>4
  <2>5. Ledger!Grant(call.lease)
    BY <1>1, <1>3, <2>1, <2>2, <2>3, <2>4 DEF Ledger!Grant
  <2> QED
    BY <2>4, <2>5 DEF Ledger!Next
<1>5. CASE call.lease \notin memory.leases
  <2>1. journal'.leases \subseteq journal.leases
        /\ journal.leases \ journal'.leases \subseteq lapsed
    BY <1>1, <1>2, <1>3, <1>5
  <2> QED
    BY <1>1, <2>1 DEF Ledger!Next, Ledger!Forget, Ledger!Lapse, Ledger!Drop
<1>6. QED
  BY <1>4, <1>5

\* Every step of the daemon is one of the ledger or leaves it alone.
LEMMA StepLedger == IInv /\ [Next]_vars => [Ledger!Next]_(Ledger!vars)
<1> SUFFICES ASSUME IInv, [Next]_vars
             PROVE  [Ledger!Next]_(Ledger!vars)
  OBVIOUS
<1>1. CASE UNCHANGED vars
  BY <1>1 DEF vars, Ledger!vars
<1>2. CASE Record
  <2>1. CASE journal' = journal
    BY <1>2, <2>1 DEF Record, ledgerVars, Ledger!vars
  <2>2. CASE journal' # journal
    BY <1>2, <2>2, RecordGrants
  <2> QED
    BY <2>1, <2>2
<1>3. CASE Next /\ ~Record
  <2>1. CASE /\ lapsed \subseteq lapsed' /\ revoked' = revoked
             /\ journal'.leases \subseteq journal.leases
             /\ journal.leases \ journal'.leases \subseteq lapsed'
    BY <2>1 DEF Ledger!Next, Ledger!Forget, Ledger!Lapse, Ledger!Drop
  <2>2. CASE \E l \in Refreshed.leases :
               /\ Refresh /\ ~InTransaction
               /\ revoked' = revoked \cup {l}
               /\ journal'.leases = Refreshed.leases \ {l}
    <3>1. PICK l \in Refreshed.leases :
                 /\ Refresh /\ ~InTransaction
                 /\ revoked' = revoked \cup {l}
                 /\ journal'.leases = Refreshed.leases \ {l}
      BY <2>2
    <3>2. /\ lapsed \subseteq lapsed'
          /\ Refreshed.leases \subseteq journal.leases
          /\ journal.leases \ Refreshed.leases \subseteq lapsed'
      BY <3>1, BaseTracked DEF IInv
    <3> DEFINE kept == Refreshed.leases
    <3>3. kept \in SUBSET journal.leases /\ Ledger!Drop(kept) /\ journal'.leases = kept \ {l}
      BY <3>1, <3>2 DEF Ledger!Drop
    <3>4. l \in journal.leases
      BY <3>2
    <3>5. Ledger!Revoke(l)
      BY <3>1, <3>2, <3>3, <3>4 DEF Ledger!Revoke, Ledger!Lapse
    <3> QED
      BY <3>4, <3>5 DEF Ledger!Next
  <2> QED
    BY <1>3, <2>1, <2>2, Writing
<1>4. QED
  BY <1>1, <1>2, <1>3

\* The journal, with its failures, deaths and rollbacks, is the ledger: each
\* request takes effect in the one step that journals it.
THEOREM JournalIsLedger == Spec => LedgerKept
BY InitLedger, StepLedger, Invariance, PTL DEF Spec, LedgerKept, Ledger!Spec

\* No approval is journaled before its plane enforces it.
THEOREM RecordedInForce == Spec => JournaledInForce
<1>1. IInv /\ [Next]_vars =>
        [\A l \in journal'.leases \ journal.leases : l \in plane[Scope(l)].allow]_vars
  <2> SUFFICES ASSUME IInv, Next, NEW l \in journal'.leases \ journal.leases
               PROVE  l \in plane[Scope(l)].allow
    BY DEF vars
  <2>1. CASE Record
    <3>1. journal' = memory /\ call.handler = "create" /\ Accepted
      BY <2>1, Recording
    <3>2. l = call.lease
      BY <3>1 DEF IInv, Tracked, InTransaction, LostOnly
    <3>3. Scope(l) \in Scopes /\ call.ok[Scope(l)]
      BY <3>1, <3>2, ScopeTyped DEF Accepted
    <3>4. plane[Scope(l)] = Enforce(Wanted(Scope(l)))
      BY <3>3 DEF IInv, Publishing
    <3>5. plane[Scope(l)].allow = Wanted(Scope(l))
      BY <3>4 DEF Enforce
    <3> QED
      BY <3>1, <3>5 DEF Wanted
  <2>2. CASE ~Record
    <3>1. l \in Refreshed.leases /\ Refresh /\ ~InTransaction
      BY <2>2, Writing
    <3> QED
      BY <3>1, BaseTracked DEF IInv
  <2> QED
    BY <2>1, <2>2
<1>2. QED
  BY <1>1, Invariance, PTL DEF Spec, JournaledInForce

\* A failed creation that was rolled back leaves nothing behind.
THEOREM FailedCreatesUndone == Spec => FailedCreateUndone
<1>1. IInv /\ [Next]_vars =>
        [pc = "restore" /\ pc' = "idle" /\ call.ok[Scope(call.lease)] /\ ~dirty' =>
           call.lease \notin memory'.leases \cup journal'.leases
                               \cup plane'[Scope(call.lease)].allow]_vars
  <2> SUFFICES ASSUME IInv, Next, pc = "restore", pc' = "idle", call.ok[Scope(call.lease)]
               PROVE  call.lease \notin memory'.leases \cup journal'.leases
                                          \cup plane'[Scope(call.lease)].allow
    BY DEF vars
  <2>1. Restore
    BY DEF Next, Inspect, Create, Revoke, Wakeup, Begin, PublishAccess, PublishApplication, Finish,
       Record, Crash, Start, Tick, SetClock, Reconfigure
  <2>2. /\ memory' = memory /\ plane' = plane /\ journal' \in {call.previous, journal}
        /\ call.handler = "rollback" /\ InTransaction
    BY <2>1 DEF Restore, WriteJournal, IInv, Control, InTransaction
  <2>3. call.lease \notin memory.leases \cup journal.leases \cup call.previous.leases
    BY <2>2 DEF IInv, Nowhere, Tracked, LostOnly
  <2>4. plane[Scope(call.lease)].allow = Wanted(Scope(call.lease))
    <3>1. plane[Scope(call.lease)] = Enforce(Wanted(Scope(call.lease)))
      BY ScopeTyped DEF IInv, Publishing
    <3> QED
      BY <3>1 DEF Enforce
  <2>5. call.lease \notin plane[Scope(call.lease)].allow
    BY <2>3, <2>4 DEF Wanted
  <2> QED
    BY <2>2, <2>3, <2>5
<1>2. QED
  BY <1>1, Invariance, PTL DEF Spec, FailedCreateUndone
================================================================================
