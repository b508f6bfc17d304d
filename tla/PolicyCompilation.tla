--------------------------- MODULE PolicyCompilation ---------------------------
(***************************************************************************)
(* How the daemon computes verdicts: weekly schedules and the moment they  *)
(* must be looked at again; application rules over the class tree; and the *)
(* temporary approvals laid over both, with the transitions that their end *)
(* hands to offload revocation.  Everything here is a function of its      *)
(* arguments, evaluated anew by each reconciliation.                       *)
(***************************************************************************)
EXTENDS Classification

CONSTANTS
  DayMinutes,  \* 1440
  WeekDays,    \* 7
  Default      \* CLASS_DEFAULT

ASSUME WeekAssumption == {DayMinutes, WeekDays} \subseteq Nat \ {0}
ASSUME DefaultAssumption == Default \notin Profiles \cup {NoClass}

WeekMinutes == WeekDays * DayMinutes
Minutes     == 0..(WeekMinutes - 1)
Days        == 0..(WeekDays - 1)
TimesOfDay  == 0..(DayMinutes - 1)

--------------------------------------------------------------------------------
(* Schedules.  An interval contains its first minute and not its second.   *)

AddIntervalUnwrapped(first, last) == {<<first, last>>}
AddInterval(first, last) ==
  IF last <= WeekMinutes THEN {<<first, last>>}
  ELSE {<<first, WeekMinutes>>, <<0, last - WeekMinutes>>}

\* parse_window: the same time twice is the whole day, an end before the start
\* is on the next day.
Window == [days : (SUBSET Days) \ {{}}, from : TimesOfDay, to : TimesOfDay]
ParseWindow(w) ==
  UNION {LET base == day * DayMinutes
         IN  CASE w.from = w.to -> AddInterval(base, base + DayMinutes)
               [] w.from < w.to -> AddInterval(base + w.from, base + w.to)
               [] w.from > w.to -> AddInterval(base + w.from, base + DayMinutes + w.to)
         : day \in w.days}
CompileWindows(windows) == UNION {ParseWindow(w) : w \in windows}

ScheduleState(intervals, minute) ==
  \E i \in intervals : i[1] <= minute /\ minute < i[2]

\* next_boundary: minutes until an interval begins or ends, a week at most.
NextBoundary(intervals, minute) ==
  LET until(b) == IF (b - minute) % WeekMinutes = 0 THEN WeekMinutes
                  ELSE (b - minute) % WeekMinutes
  IN  Min({until(i[k]) : i \in intervals, k \in {1, 2}})

\* The verdict of an identity that is subject to a valid schedule.
Modes == {"blacklist", "whitelist"}
DefaultVerdict(mode)   == IF mode = "whitelist" THEN "deny" ELSE "allow"
ExceptionVerdict(mode) == IF mode = "whitelist" THEN "allow" ELSE "deny"
CompileIdentity(mode, windows, minute) ==
  LET intervals == CompileWindows(windows)
      active    == ScheduleState(intervals, minute)
  IN  [verdict |-> IF active THEN ExceptionVerdict(mode) ELSE DefaultVerdict(mode),
       next    |-> NextBoundary(intervals, minute)]

--------------------------------------------------------------------------------
(* Application rules.  Rules maps a class to the verdicts of its active    *)
(* rules for one identity.  The unclassified class has no parent and is     *)
(* resolved as a class at the top.                                         *)

RuleClasses == Profiles \cup {Default}
Verdict == {"allow", "deny"}
Rules   == [RuleClasses -> SUBSET Verdict]
ParentOf(parent, c) == IF c \in Profiles THEN parent[c] ELSE NoClass

ActiveVerdict(verdicts) == IF "deny" \in verdicts THEN "deny" ELSE "allow"

\* resolve_verdict: the first class upwards with an active rule decides, then
\* the default rules, then ALLOW.
ResolveVerdictHere(rules, parent, class) ==
  ActiveVerdict(IF rules[class] # {} THEN rules[class] ELSE rules[Default])
ResolveVerdict(rules, parent, class) ==
  LET current[n \in Nat] ==
        IF n = 0 THEN class
        ELSE LET c == current[n - 1]
             IN  IF c = NoClass \/ rules[c] # {} THEN c ELSE ParentOf(parent, c)
      matched == current[Cardinality(RuleClasses)]
  IN  ActiveVerdict(IF matched # NoClass /\ rules[matched] # {} THEN rules[matched]
                    ELSE rules[Default])

--------------------------------------------------------------------------------
(* Temporary approvals of applications of that identity, by their class.   *)

LeaseMatchesExactly(parent, lease, class) == lease = class
LeaseMatches(parent, lease, class) ==
  lease = class \/ CategoryIsAncestor(parent, lease, class)

\* overlay_application; the default class is not for lease.
OverlayApplication(policies, parent, leases) ==
  [c \in RuleClasses |->
     IF c \in Profiles /\ \E l \in leases : LeaseMatches(parent, l, c)
     THEN "allow" ELSE policies[c]]

\* plan_transitions, those that end in DENY: they are revoked from offload.
PlanRestrictive(previous, current) ==
  {c \in RuleClasses : previous[c] = "allow" /\ current[c] = "deny"}

--------------------------------------------------------------------------------
(* What goes wrong: minutes, or class trees, that no state may have.       *)

\* What a window means: on its days, from its start to its end, which is on
\* the next day if it is not later.
Covers(w, minute) ==
  LET day  == minute \div DayMinutes
      time == minute % DayMinutes
      eve  == (day - 1) % WeekDays
  IN  CASE w.from = w.to -> day \in w.days
        [] w.from < w.to -> day \in w.days /\ w.from <= time /\ time < w.to
        [] w.from > w.to -> \/ day \in w.days /\ time >= w.from
                            \/ eve \in w.days /\ time < w.to

Schedules == {{v, w} : v, w \in Window}

\* Minutes at which some schedule compiles to a verdict that does not stand
\* until the boundary.
Misjudged ==
  {minute \in Minutes : \E windows \in Schedules, mode \in Modes :
     LET compiled == CompileIdentity(mode, windows, minute)
     IN  \E later \in 0..(compiled.next - 1) :
           (compiled.verdict = ExceptionVerdict(mode)) #
             \E w \in windows : Covers(w, (minute + later) % WeekMinutes)}

\* Class x decides for class c if it has a rule and no class between has one.
Decides(rules, parent, x, c) ==
  /\ x \in Upward(parent, c) /\ rules[x] # {}
  /\ \A y \in Upward(parent, c) \ {x} : rules[y] # {} => y \in Upward(parent, x)

RuledOtherwise(parent, rules, c) ==
  LET verdict == ResolveVerdict(rules, parent, c)
      denies(x) == "deny" \in rules[x]
  IN  \/ \E x \in Profiles : Decides(rules, parent, x, c) /\ (verdict = "deny") # denies(x)
      \/ /\ \A x \in Upward(parent, c) : rules[x] = {}
         /\ (verdict = "deny") # denies(Default)
Misruled == {r[1] : r \in {x \in ClassGraphs \X Rules :
                             \E c \in Profiles : RuledOtherwise(x[1], x[2], c)}}

\* The end of an approval, beside another one, by which more or fewer classes
\* return to DENY than it alone had opened.
EndsOtherwise(parent, policies, lease, other) ==
  LET below(l) == {c \in Profiles : l \in Upward(parent, c)}
      opened   == {c \in below(lease) : policies[c] = "deny"}
                    \ (IF other = lease THEN {} ELSE below(other))
  IN  PlanRestrictive(OverlayApplication(policies, parent, {lease, other}),
                      OverlayApplication(policies, parent, {other} \ {lease})) # opened
Misrevoked == {e[1] : e \in {x \in ClassGraphs \X [RuleClasses -> Verdict] :
                               \E lease, other \in Profiles :
                                 EndsOtherwise(x[1], x[2], lease, other)}}
================================================================================
