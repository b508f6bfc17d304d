------------------------------- MODULE Approvals -------------------------------
(***************************************************************************)
(* Temporary approvals in client-accessd: the lease database in memory,    *)
(* its journal file, and the verdicts the two planes enforce, through      *)
(* creation, extension, revocation, expiry, failure and death.             *)
(*                                                                         *)
(* A request handler and a reconciliation run to completion (ubus requests *)
(* and timers wait for the event loop), but each publication and each      *)
(* journal write is a step that may fail and that the daemon may not       *)
(* survive.  The base verdict of every target is DENY.  How a plane is     *)
(* published is the subject of Reconciler; here a publication succeeds,    *)
(* leaves the plane as it was, or, for the application plane, turns it     *)
(* off.  Seconds do not pass between the clock reading of a reconciliation *)
(* and the setting of the timer at its end.                                *)
(***************************************************************************)
EXTENDS Integers, FiniteSets

CONSTANTS
  AccessTargets,       \* identities
  ApplicationTargets,  \* identities with an application class
  None,                \* nothing committed, no lease
  Capacity,            \* MAX_ACTIVE_LEASES
  MaxSequence,         \* the last sequence number of a lease id
  ClockValidAfter,     \* CLOCK_VALID_AFTER
  Hour, Day,           \* durations, in seconds of the model
  Safety,              \* the longest delay of the safety timer
  StartWall,           \* the wall clock at the beginning
  Settings,            \* what the wall clock may be set to
  MaxTime,             \* bound: seconds of uptime
  MaxRequests,         \* bound: accepted creations
  MaxFaults,           \* bound: commands and writes that fail
  MaxClockSets,        \* bound: wall clock changes
  MaxChanges           \* bound: deaths and configuration changes

Targets == AccessTargets \cup ApplicationTargets

ASSUME TargetAssumption == AccessTargets \cap ApplicationTargets = {}
ASSUME TimingAssumption ==
  {Capacity, MaxSequence, ClockValidAfter, Hour, Day, Safety, StartWall, MaxTime}
    \subseteq Nat \ {0}
\* The sequence (2^32 - 1 numbers) does not repeat within the life of a lease.
ASSUME SequenceAssumption == MaxRequests <= MaxSequence
ASSUME SettingsAssumption == Settings \subseteq Nat
ASSUME BoundAssumption ==
  {MaxRequests, MaxFaults, MaxClockSets, MaxChanges} \subseteq Nat

Scopes    == {"access", "application"}
Scope(l)  == IF l.target \in AccessTargets THEN "access" ELSE "application"
Durations == {"one_hour", "today"}

\* The id is the wall clock and the sequence number of the creation.
Lease == [id : Nat \X Nat, target : Targets, expires : Nat, deadline : Nat]
Database == [next : 1..MaxSequence, leases : SUBSET Lease]
Empty == [next |-> 1, leases |-> {}]

VARIABLES
  wall, mono, \* the clocks
  known,      \* the targets whose identity and class the configuration has
  memory,     \* lease_database
  loaded,     \* lease_journal_loaded
  dirty,      \* lease_journal_dirty
  journal,    \* the journal file
  plane,      \* what is enforced, and the leases it is allowed by
  committed,  \* the targets allowed by the committed state of each plane
  call,       \* the handler in progress
  pc,         \* what the daemon does next
  due,        \* when the timer fires
  lapsed,     \* history: leases found expired or invalid, and leases replaced
              \* by one that was so found before it was published
  revoked,    \* history: leases taken out by a revocation
  spent       \* requests, faults, clock changes and other changes so far

clockVars  == <<wall, mono>>
ledgerVars == <<lapsed, revoked>>
vars == <<wall, mono, known, memory, loaded, dirty, journal, plane, committed,
          call, pc, due, lapsed, revoked, spent>>

PCs == {"down", "idle", "begin", "access", "application", "finish", "record",
        "restore"}
Handlers == {"none", "reconcile", "create", "rollback", "revoke"}
Call == [handler : Handlers, repair : BOOLEAN, previous : Database,
         lease : Lease \cup {None}, ok : [Scopes -> BOOLEAN]]
NoCall == [handler |-> "none", repair |-> FALSE, previous |-> Empty,
           lease |-> None, ok |-> [s \in Scopes |-> FALSE]]

IsDatabase(db) ==
  /\ db.next \in 1..MaxSequence
  /\ \A l \in db.leases : l \in Lease

TypeOK ==
  /\ {wall, mono, due} \subseteq Nat
  /\ known \subseteq Targets
  /\ IsDatabase(memory) /\ IsDatabase(journal) /\ IsDatabase(call.previous)
  /\ {loaded, dirty, call.repair} \subseteq BOOLEAN
  /\ \A s \in Scopes : \A l \in plane[s].allow : l \in Lease /\ Scope(l) = s
  /\ pc \in PCs
  /\ (call = NoCall) = (pc \in {"down", "idle"})

\* A plane: whether it filters at all, and whom leases exempt.
Neutral == [enforced |-> FALSE, allow |-> {}]
Enforce(leases) == [enforced |-> TRUE, allow |-> leases]

Init ==
  /\ wall = StartWall /\ mono = 0
  /\ known = Targets
  /\ memory = Empty /\ loaded = FALSE /\ dirty = FALSE
  /\ journal = Empty
  /\ plane = [s \in Scopes |-> Neutral]
  /\ committed = [s \in Scopes |-> None]
  /\ call = NoCall
  /\ pc = "down"
  /\ due = 0
  /\ lapsed = {} /\ revoked = {}
  /\ spent = [requests |-> 0, faults |-> 0, sets |-> 0, changes |-> 0]

--------------------------------------------------------------------------------
(* The database.                                                           *)

Spend(what, max) == spent[what] < max /\ spent' = [spent EXCEPT ![what] = @ + 1]
Fault == Spend("faults", MaxFaults)

ClockValid == wall >= ClockValidAfter

\* lease_status: a lease counts while both clocks are before its end and its
\* target exists.
Active(l) ==
  /\ l.target \in known
  /\ ClockValid
  /\ wall < l.expires
  /\ mono < l.deadline

\* parse_database keeps the active leases that share no id or target.
Kept(leases) ==
  {l \in leases : /\ Active(l)
                  /\ \A m \in leases : Active(m) /\ m # l =>
                                         m.id # l.id /\ m.target # l.target}

\* refresh_lease_database, first thing in every handler and reconciliation;
\* the journal is read the first time.
Base == IF loaded THEN memory ELSE journal
Refreshed == [Base EXCEPT !.leases = Kept(@)]
Dropped == Base.leases \ Refreshed.leases
Superseded == {p \in call.previous.leases :
                 call.lease \in Dropped /\ call.lease.target = p.target}
Refresh ==
  /\ loaded' = TRUE
  /\ lapsed' = lapsed \cup Dropped \cup Superseded
DirtyAfterRefresh == dirty \/ Refreshed # Base

EndOf(duration) ==
  IF duration = "one_hour" THEN wall + Hour ELSE (wall \div Day + 1) * Day

NextSequenceUnbounded(n) == n + 1
NextSequence(n) == IF n = MaxSequence THEN 1 ELSE n + 1

NewLease(t, duration) ==
  [id |-> <<wall, Base.next>>, target |-> t, expires |-> EndOf(duration),
   deadline |-> mono + EndOf(duration) - wall]

Others(t) == {l \in Refreshed.leases : l.target # t}

WriteJournal(db) == journal' = db /\ dirty' = FALSE /\ UNCHANGED spent

--------------------------------------------------------------------------------
(* Requests.                                                               *)

\* A status, preview or inventory call, and a request that is refused.
Inspect ==
  /\ pc = "idle"
  /\ Refresh
  /\ memory' = Refreshed
  /\ dirty' = DirtyAfterRefresh
  /\ UNCHANGED <<clockVars, known, journal, plane, committed, call, pc, due,
                 revoked, spent>>

Reconcile(handler) == [NoCall EXCEPT !.handler = handler]

\* create_approval up to its reconciliation.
Create(t, duration) ==
  /\ pc = "idle"
  /\ t \in known
  /\ ClockValid
  /\ Others(t) # Refreshed.leases \/ Cardinality(Others(t)) < Capacity
  /\ Refresh
  /\ LET lease == NewLease(t, duration)
     IN  /\ memory' = [next |-> NextSequence(Base.next),
                       leases |-> Others(t) \cup {lease}]
         /\ call' = [Reconcile("create") EXCEPT !.previous = Refreshed,
                                                !.lease = lease]
  /\ dirty' = TRUE
  /\ pc' = "begin"
  /\ Spend("requests", MaxRequests)
  /\ UNCHANGED <<clockVars, known, journal, plane, committed, due, revoked>>

Without(l) == [Refreshed EXCEPT !.leases = @ \ {l}]
Removed(l) ==
  /\ memory' = Without(l)
  /\ revoked' = revoked \cup {l}
  /\ call' = Reconcile("revoke")
  /\ pc' = "begin"

\* A revocation that leaves the journal to the reconciliation.
RevokeUnjournaled(l) ==
  /\ pc = "idle"
  /\ l \in Refreshed.leases
  /\ Refresh
  /\ Removed(l)
  /\ dirty' = TRUE
  /\ UNCHANGED <<clockVars, known, journal, plane, committed, due, spent>>

\* revoke_approval: the journal first, and nothing else if that fails.
Revoke(l) ==
  /\ pc = "idle"
  /\ l \in Refreshed.leases
  /\ Refresh
  /\ \/ WriteJournal(Without(l)) /\ Removed(l)
     \/ /\ Fault
        /\ memory' = Refreshed
        /\ dirty' = DirtyAfterRefresh
        /\ UNCHANGED <<journal, revoked, call, pc>>
  /\ UNCHANGED <<clockVars, known, plane, committed, due>>

\* The timer, a ubus reconcile, or a hotplug event.
Wakeup ==
  /\ pc = "idle"
  /\ call' = [Reconcile("reconcile") EXCEPT !.repair = TRUE]
  /\ pc' = "begin"
  /\ UNCHANGED <<clockVars, known, memory, loaded, dirty, journal, plane,
                 committed, due, ledgerVars, spent>>

--------------------------------------------------------------------------------
(* Reconciliation.                                                         *)

Begin ==
  /\ pc = "begin"
  /\ Refresh
  /\ memory' = Refreshed
  /\ dirty' = DirtyAfterRefresh
  /\ pc' = "access"
  /\ UNCHANGED <<clockVars, known, journal, plane, committed, call, due,
                 revoked, spent>>

Wanted(s) == {l \in memory.leases : Scope(l) = s}
Exempt(leases) == {l.target : l \in leases}
PublishDue(s) == call.repair \/ Exempt(Wanted(s)) # committed[s]

Published(s) ==
  /\ plane' = [plane EXCEPT ![s] = Enforce(Wanted(s))]
  /\ committed' = [committed EXCEPT ![s] = Exempt(Wanted(s))]
  /\ call' = [call EXCEPT !.ok[s] = TRUE]
  /\ UNCHANGED spent

Reconciling == UNCHANGED <<clockVars, known, memory, loaded, dirty, journal, due,
                           ledgerVars>>

\* An extension leaves the exempted targets as they are and publishes nothing;
\* that the plane is then due to the new lease is history.
PublishAccess ==
  /\ pc = "access"
  /\ pc' = "application"
  /\ \/ Published("access")
     \/ PublishDue("access") /\ Fault /\ UNCHANGED <<plane, committed, call>>
  /\ Reconciling

\* On failure the application plane keeps what it enforces, or is turned off.
PublishApplication ==
  /\ pc = "application"
  /\ pc' = "finish"
  /\ \/ Published("application")
     \/ /\ Fault
        /\ UNCHANGED call
        /\ \/ UNCHANGED <<plane, committed>>
           \/ /\ plane' = [plane EXCEPT !["application"] = Neutral]
              /\ committed' = [committed EXCEPT !["application"] = None]
  /\ Reconciling

\* update_timer: the next expiry by the wall clock, or the safety interval.
Delays == {l.expires - wall : l \in memory.leases}
Least(S) == CHOOSE d \in S : \A e \in S : d <= e
DelayUncapped == IF Delays = {} THEN Safety ELSE Least(Delays)
Delay == Least({d \in Delays : d > 0} \cup {Safety})

\* The journal is left to a handler that has a transaction open.
JournalDueInTransaction == dirty /\ \A s \in Scopes : call.ok[s]
JournalDue ==
  /\ call.handler = "reconcile"
  /\ dirty
  /\ \A s \in Scopes : call.ok[s]

\* A failed creation puts the previous database back and reconciles again.
RollbackForgetful ==
  /\ dirty' = TRUE
  /\ call' = [call EXCEPT !.handler = "rollback", !.ok = [s \in Scopes |-> FALSE]]
  /\ pc' = "begin"
  /\ UNCHANGED memory
Rollback ==
  /\ memory' = call.previous
  /\ dirty' = TRUE
  /\ call' = [call EXCEPT !.handler = "rollback", !.ok = [s \in Scopes |-> FALSE]]
  /\ pc' = "begin"

Return == pc' = "idle" /\ call' = NoCall

\* approval_plane_published, for the scope of the request only.
AcceptedRegardless == TRUE
Accepted == call.ok[Scope(call.lease)]

\* The end of reconcile_once, and what its caller does with the result.
Finish ==
  /\ pc = "finish"
  /\ due' = mono + Delay
  /\ \/ /\ call.handler = "create" /\ ~Accepted
        /\ Rollback
        /\ UNCHANGED <<journal, spent>>
     \/ /\ ~(call.handler = "create" /\ ~Accepted)
        /\ \/ JournalDue /\ WriteJournal(memory)
           \/ JournalDue /\ Fault /\ UNCHANGED <<journal, dirty>>
           \/ ~JournalDue /\ UNCHANGED <<journal, dirty, spent>>
        /\ CASE call.handler = "create"   -> pc' = "record" /\ UNCHANGED call
             [] call.handler = "rollback" -> pc' = "restore" /\ UNCHANGED call
             [] OTHER                     -> Return
        /\ UNCHANGED memory
  /\ UNCHANGED <<clockVars, known, loaded, plane, committed, ledgerVars>>

\* The approval is journaled once it is published.
Record ==
  /\ pc = "record"
  /\ \/ WriteJournal(memory) /\ Return /\ UNCHANGED memory
     \/ Fault /\ Rollback /\ UNCHANGED journal
  /\ UNCHANGED <<clockVars, known, loaded, plane, committed, due, ledgerVars>>

\* The rollback writes the previous database whether it was published or not.
Restore ==
  /\ pc = "restore"
  /\ \/ WriteJournal(call.previous)
     \/ Fault /\ UNCHANGED <<journal, dirty>>
  /\ Return
  /\ UNCHANGED <<clockVars, known, memory, loaded, plane, committed, due, ledgerVars>>

--------------------------------------------------------------------------------
(* Death, time and configuration.                                          *)

Crash ==
  /\ pc # "down"
  /\ Spend("changes", MaxChanges)
  /\ memory' = Empty /\ loaded' = FALSE /\ dirty' = FALSE
  /\ committed' = [s \in Scopes |-> None]
  /\ call' = NoCall
  /\ pc' = "down"
  /\ UNCHANGED <<clockVars, known, journal, plane, due, ledgerVars>>

\* neutralize_startup turns the application plane off, if it can; the first
\* reconciliation follows at once.
Start ==
  /\ pc = "down"
  /\ \/ plane' = [plane EXCEPT !["application"] = Neutral] /\ UNCHANGED spent
     \/ Fault /\ UNCHANGED plane
  /\ due' = mono
  /\ pc' = "idle"
  /\ UNCHANGED <<clockVars, known, memory, loaded, dirty, journal, committed, call,
                 ledgerVars>>

\* An idle daemon does not sleep past its timer.
Tick ==
  /\ mono < MaxTime
  /\ pc \in {"down", "begin"} \/ (pc = "idle" /\ mono < due)
  /\ mono' = mono + 1
  /\ wall' = wall + 1
  /\ UNCHANGED <<known, memory, loaded, dirty, journal, plane, committed, call, pc,
                 due, ledgerVars, spent>>

SetClock(w) ==
  /\ pc \in {"down", "begin", "idle"}
  /\ w # wall
  /\ wall' = w
  /\ Spend("sets", MaxClockSets)
  /\ UNCHANGED <<mono, known, memory, loaded, dirty, journal, plane, committed,
                 call, pc, due, ledgerVars>>

\* An identity or class disappears from the configuration, or returns.
Reconfigure(t) ==
  /\ pc \in {"down", "begin", "idle"}
  /\ known' = IF t \in known THEN known \ {t} ELSE known \cup {t}
  /\ Spend("changes", MaxChanges)
  /\ UNCHANGED <<clockVars, memory, loaded, dirty, journal, plane, committed, call,
                 pc, due, ledgerVars>>

--------------------------------------------------------------------------------
Next ==
  \/ Inspect
  \/ \E t \in Targets, d \in Durations : Create(t, d)
  \/ \E l \in Refreshed.leases : Revoke(l)
  \/ Wakeup
  \/ Begin
  \/ PublishAccess
  \/ PublishApplication
  \/ Finish
  \/ Record
  \/ Restore
  \/ Crash
  \/ Start
  \/ Tick
  \/ \E w \in Settings : SetClock(w)
  \/ \E t \in Targets : Reconfigure(t)

Spec == Init /\ [][Next]_vars

--------------------------------------------------------------------------------
(* Properties.                                                             *)

\* The journal is the ledger: whatever fails or dies between two steps, a
\* granted approval leaves it only by revocation, replacement or lapse, and it
\* gains nothing that was revoked or withdrawn.
Ledger == INSTANCE ApprovalLedger WITH granted <- journal.leases
LedgerKept == Ledger!Spec

\* "Persist the restrictive source-of-truth change before publishing DENY": a
\* revoked approval is never again in the database the daemon works with,
\* neither after a death at any point nor by the rollback of another request.
RevokedForGood ==
  revoked \cap (memory.leases \cup call.previous.leases) = {}

\* An approval reaches the journal, and so the caller, only once its plane
\* enforces it.
JournaledInForce ==
  [][\A l \in journal'.leases \ journal.leases : l \in plane[Scope(l)].allow]_vars

\* A creation that fails and whose rollback was published and journaled (the
\* reply is not "degraded") leaves nothing of the request behind.
FailedCreateUndone ==
  [][pc = "restore" /\ pc' = "idle" /\ call.ok[Scope(call.lease)] /\ ~dirty' =>
       call.lease \notin memory'.leases \cup journal'.leases
                           \cup plane'[Scope(call.lease)].allow]_vars

\* As long as no command fails, a running daemon lets no approval outlive its
\* monotonic deadline by a safety interval, whatever happens to the wall clock,
\* and none outlives its end by an untouched wall clock at all.
NoOverstay ==
  pc = "idle" /\ spent.faults = 0 =>
    \A s \in Scopes : committed[s] # None =>
      \A l \in plane[s].allow :
        /\ mono < l.deadline + Safety
        /\ spent.sets = 0 => wall <= l.expires
================================================================================
