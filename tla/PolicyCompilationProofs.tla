------------------------ MODULE PolicyCompilationProofs ------------------------
(***************************************************************************)
(* Proofs about what the daemon computes from the wall clock and the        *)
(* configured classes (PolicyCompilation and Classification, as the runs of *)
(* Approvals check them): for any lengths of the day and the week, any      *)
(* windows, any class tree, any rules and any evidence.                     *)
(***************************************************************************)
EXTENDS MCApprovals, ClassificationProofs

--------------------------------------------------------------------------------
(* Minutes of the week.                                                    *)

\* The week has minutes.
LEMMA WeekTyped ==
  /\ DayMinutes \in Nat \ {0} /\ WeekDays \in Nat \ {0} /\ WeekMinutes \in Nat \ {0}
BY WeekAssumption DEF WeekMinutes

\* A day ends before the next one begins.
LEMMA DaysInOrder ==
  ASSUME NEW d \in Nat, NEW e \in Nat, d < e
  PROVE  /\ d * DayMinutes \in Nat /\ e * DayMinutes \in Nat
         /\ d * DayMinutes + DayMinutes <= e * DayMinutes
<1>1. PICK k \in Nat : e = d + 1 + k
  <2>1. e - d - 1 \in Nat /\ e = d + 1 + (e - d - 1)
    OBVIOUS
  <2>. QED  BY <2>1
<1>2. k * DayMinutes \in Nat /\ d * DayMinutes \in Nat
  BY WeekTyped
<1>3. e * DayMinutes = d * DayMinutes + DayMinutes + k * DayMinutes
  BY <1>1, WeekTyped
<1>. QED  BY <1>2, <1>3, WeekTyped

\* The days of the week lie in it.
LEMMA DayTyped ==
  ASSUME NEW d \in Days
  PROVE  /\ d \in Nat /\ d * DayMinutes \in Nat
         /\ d * DayMinutes + DayMinutes <= WeekMinutes
         /\ d * DayMinutes + DayMinutes = WeekMinutes => d = WeekDays - 1
         /\ d = WeekDays - 1 => d * DayMinutes + DayMinutes = WeekMinutes
<1>1. d \in Nat /\ d < WeekDays
  BY WeekTyped DEF Days
<1>2. /\ d * DayMinutes \in Nat
      /\ d * DayMinutes + DayMinutes <= WeekMinutes
  BY <1>1, WeekTyped, DaysInOrder DEF WeekMinutes
<1>3. ASSUME d = WeekDays - 1
      PROVE  d * DayMinutes + DayMinutes = WeekMinutes
  BY <1>1, <1>3, WeekTyped DEF WeekMinutes
<1>4. ASSUME d # WeekDays - 1
      PROVE  d * DayMinutes + DayMinutes < WeekMinutes
  <2>1. d < WeekDays - 1 /\ WeekDays - 1 \in Nat
    BY <1>1, <1>4, WeekTyped
  <2>2. d * DayMinutes + DayMinutes <= (WeekDays - 1) * DayMinutes
    BY <1>1, <2>1, DaysInOrder
  <2>3. (WeekDays - 1) * DayMinutes + DayMinutes = WeekMinutes
    BY WeekTyped DEF WeekMinutes
  <2>. QED  BY <1>2, <2>2, <2>3, WeekTyped
<1>5. d * DayMinutes + DayMinutes = WeekMinutes => d = WeekDays - 1
  BY <1>2, <1>4, WeekTyped
<1>. QED  BY <1>1, <1>2, <1>3, <1>5

\* A minute is of one day, at one time.
LEMMA DayOfMinute ==
  ASSUME NEW m \in Minutes
  PROVE  LET day == m \div DayMinutes
             time == m % DayMinutes
         IN  /\ day \in Days /\ time \in TimesOfDay
             /\ m = day * DayMinutes + time
<1> DEFINE day == m \div DayMinutes
           time == m % DayMinutes
<1>1. m \in Nat /\ m < WeekMinutes
  BY WeekTyped DEF Minutes
<1>2. day \in Nat /\ time \in 0..(DayMinutes - 1) /\ m = day * DayMinutes + time
  BY <1>1, WeekTyped
<1>3. day < WeekDays
  <2>1. SUFFICES ASSUME WeekDays <= day
        PROVE  FALSE
    BY <1>2, WeekTyped
  <2>2. WeekDays * DayMinutes <= day * DayMinutes
    BY <1>2, <2>1, WeekTyped, DaysInOrder
  <2>. QED  BY <1>1, <1>2, <2>2, WeekTyped DEF WeekMinutes
<1>. QED  BY <1>2, <1>3, WeekTyped DEF Days, TimesOfDay

\* Whether a minute is of a day can be told from where the day begins and ends.
LEMMA OfDay ==
  ASSUME NEW d \in Days, NEW e \in Days, NEW t \in TimesOfDay
  PROVE  /\ d * DayMinutes <= e * DayMinutes + t <=> d <= e
         /\ e * DayMinutes + t < d * DayMinutes + DayMinutes <=> e <= d
<1>1. d \in Nat /\ e \in Nat /\ t \in Nat /\ t < DayMinutes
  BY DayTyped, WeekTyped DEF TimesOfDay
<1>2. d < e => d * DayMinutes + DayMinutes <= e * DayMinutes
  BY <1>1, DaysInOrder
<1>3. e < d => e * DayMinutes + DayMinutes <= d * DayMinutes
  BY <1>1, DaysInOrder
<1>4. d * DayMinutes \in Nat /\ e * DayMinutes \in Nat
  BY DayTyped
<1>5. d = e => d * DayMinutes = e * DayMinutes
  OBVIOUS
<1>6. d < e \/ e < d \/ d = e
  BY <1>1
<1>. QED  BY <1>1, <1>2, <1>3, <1>4, <1>5, <1>6, WeekTyped

\* A set of natural numbers that is not empty has a least one, and Min is it.
LEMMA MinLeast ==
  ASSUME NEW S \in SUBSET Nat, S # {}
  PROVE  Min(S) \in S /\ \A e \in S : Min(S) <= e
<1>1. PICK x \in S : \A y \in S : x <= y
  BY LeastNatural
<1>. QED  BY <1>1 DEF Min

--------------------------------------------------------------------------------
(* Intervals and boundaries.                                               *)

\* What a window is compiled to: its first minute, and the one after its last.
Interval == {i \in (0..WeekMinutes) \X (0..WeekMinutes) : i[1] < i[2]}

\* How long it is from a minute of the week to a boundary.
Until(b, minute) == IF (b - minute) % WeekMinutes = 0 THEN WeekMinutes
                    ELSE (b - minute) % WeekMinutes

\* It is the difference, or that of the next week.
LEMMA UntilBoundary ==
  ASSUME NEW b \in 0..WeekMinutes, NEW minute \in Minutes
  PROVE  /\ b > minute  => Until(b, minute) = b - minute
         /\ b <= minute => Until(b, minute) = b - minute + WeekMinutes
<1>1. /\ WeekMinutes \in Nat \ {0} /\ b \in Nat /\ minute \in Nat
      /\ b <= WeekMinutes /\ minute < WeekMinutes
  BY WeekTyped DEF Minutes
<1>2. \A x \in 0..(WeekMinutes - 1) : x % WeekMinutes = x
  BY <1>1
<1>3. WeekMinutes % WeekMinutes = 0
  BY <1>1
<1>4. \A x \in Int : x < 0 /\ -WeekMinutes < x => x % WeekMinutes = x + WeekMinutes
  BY <1>1
<1>5. CASE b > minute
  <2>1. b - minute \in 1..WeekMinutes
    BY <1>1, <1>5
  <2>2. CASE b - minute = WeekMinutes
    BY <1>1, <1>3, <1>5, <2>2 DEF Until
  <2>3. CASE b - minute # WeekMinutes
    <3>1. b - minute \in 0..(WeekMinutes - 1) /\ b - minute # 0
      BY <1>1, <2>1, <2>3
    <3>2. (b - minute) % WeekMinutes = b - minute
      BY <1>2, <3>1
    <3>. QED  BY <1>1, <1>5, <3>1, <3>2 DEF Until
  <2>. QED  BY <2>2, <2>3
<1>6. CASE b <= minute
  <2>1. CASE b = minute
    <3>1. (b - minute) % WeekMinutes = 0
      BY <1>1, <1>2, <2>1
    <3>. QED  BY <1>1, <2>1, <3>1 DEF Until
  <2>2. CASE b # minute
    <3>1. b - minute \in Int /\ b - minute < 0 /\ -WeekMinutes < b - minute
      BY <1>1, <1>6, <2>2
    <3>2. (b - minute) % WeekMinutes = b - minute + WeekMinutes
      BY <1>4, <3>1
    <3>. QED  BY <1>1, <1>6, <3>1, <3>2 DEF Until
  <2>. QED  BY <2>1, <2>2
<1>. QED  BY <1>1, <1>5, <1>6

\* No interval begins or ends before the next boundary.
LEMMA BoundaryNext ==
  ASSUME NEW intervals \in SUBSET Interval, intervals # {}, NEW minute \in Minutes
  PROVE  /\ NextBoundary(intervals, minute) \in 1..WeekMinutes
         /\ \A i \in intervals, k \in {1, 2} :
              NextBoundary(intervals, minute) <= Until(i[k], minute)
<1> DEFINE S == {Until(i[k], minute) : i \in intervals, k \in {1, 2}}
<1>1. ASSUME NEW i \in intervals, NEW k \in {1, 2}
      PROVE  Until(i[k], minute) \in 1..WeekMinutes
  <2>1. i[k] \in 0..WeekMinutes
    <3>1. i[1] \in 0..WeekMinutes /\ i[2] \in 0..WeekMinutes
      BY DEF Interval
    <3>. QED  BY <3>1
  <2> DEFINE b == i[k]
  <2> HIDE DEF b
  <2>2. b \in 0..WeekMinutes
    BY <2>1 DEF b
  <2>3. /\ WeekMinutes \in Nat /\ b \in Int /\ 0 <= b /\ b <= WeekMinutes
        /\ minute \in Int /\ 0 <= minute /\ minute < WeekMinutes
    BY <2>2, WeekTyped DEF Minutes
  <2>4. /\ b > minute  => Until(b, minute) = b - minute
        /\ b <= minute => Until(b, minute) = b - minute + WeekMinutes
    BY <2>2, UntilBoundary
  <2>5. Until(b, minute) \in 1..WeekMinutes
    BY <2>3, <2>4
  <2>. QED  BY <2>5 DEF b
<1>2. S \in SUBSET Nat /\ S # {} /\ S \subseteq 1..WeekMinutes
  BY <1>1
<1>3. NextBoundary(intervals, minute) = Min(S)
  BY DEF NextBoundary, Until
<1> HIDE DEF S
<1>4. Min(S) \in S /\ \A e \in S : Min(S) <= e
  BY <1>2, MinLeast
<1>5. \A i \in intervals, k \in {1, 2} : Until(i[k], minute) \in S
  BY DEF S
<1>. QED  BY <1>2, <1>3, <1>4, <1>5

\* So the state of a schedule is the same until then, also over the end of the
\* week.
LEMMA StateStands ==
  ASSUME NEW intervals \in SUBSET Interval, intervals # {}, NEW minute \in Minutes,
         NEW later \in 0..(NextBoundary(intervals, minute) - 1)
  PROVE  /\ (minute + later) % WeekMinutes \in Minutes
         /\ ScheduleState(intervals, (minute + later) % WeekMinutes)
              <=> ScheduleState(intervals, minute)
<1> DEFINE then == (minute + later) % WeekMinutes
<1>1. /\ WeekMinutes \in Nat \ {0} /\ minute \in Nat /\ minute < WeekMinutes
      /\ later \in Nat /\ later < WeekMinutes
      /\ later < NextBoundary(intervals, minute) /\ NextBoundary(intervals, minute) \in Nat
  BY WeekTyped, BoundaryNext DEF Minutes
<1>2. /\ minute + later < WeekMinutes => then = minute + later
      /\ minute + later >= WeekMinutes => then = minute + later - WeekMinutes
  <2>1. \A x \in Nat : x < WeekMinutes => x % WeekMinutes = x
    BY <1>1
  <2>2. \A x \in Nat : x >= WeekMinutes /\ x < 2 * WeekMinutes => x % WeekMinutes = x - WeekMinutes
    BY <1>1
  <2>. QED  BY <1>1, <2>1, <2>2
<1>3. ASSUME NEW i \in intervals
      PROVE  (i[1] <= then /\ then < i[2]) <=> (i[1] <= minute /\ minute < i[2])
  <2>1. i[1] \in Nat /\ i[2] \in Nat /\ i[1] < i[2] /\ i[2] <= WeekMinutes
    BY WeekTyped DEF Interval
  <2>2. later < Until(i[1], minute) /\ later < Until(i[2], minute)
    <3>1. /\ NextBoundary(intervals, minute) <= Until(i[1], minute)
          /\ NextBoundary(intervals, minute) <= Until(i[2], minute)
      BY BoundaryNext
    <3>2. Until(i[1], minute) \in Int /\ Until(i[2], minute) \in Int
      BY <1>1, <2>1, UntilBoundary
    <3>. QED  BY <1>1, <3>1, <3>2
  <2>3. /\ i[1] > minute => later < i[1] - minute
        /\ i[1] <= minute => later < i[1] - minute + WeekMinutes
        /\ i[2] > minute => later < i[2] - minute
        /\ i[2] <= minute => later < i[2] - minute + WeekMinutes
    BY <1>1, <2>1, <2>2, UntilBoundary
  <2> HIDE DEF then
  <2>4. CASE minute + later < WeekMinutes
    BY <1>1, <1>2, <2>1, <2>3, <2>4
  <2>5. CASE minute + later >= WeekMinutes
    BY <1>1, <1>2, <2>1, <2>3, <2>5
  <2>. QED  BY <1>1, <2>4, <2>5
<1>4. then \in Minutes
  BY <1>1, <1>2 DEF Minutes
<1>. QED  BY <1>3, <1>4 DEF ScheduleState

--------------------------------------------------------------------------------
(* Windows.                                                                *)

\* The intervals of one day of a window.
DayIntervals(w, day) ==
  LET base == day * DayMinutes
  IN  CASE w.from = w.to -> AddInterval(base, base + DayMinutes)
        [] w.from < w.to -> AddInterval(base + w.from, base + w.to)
        [] w.from > w.to -> AddInterval(base + w.from, base + DayMinutes + w.to)

\* When the window of that day covers a minute of day e, at time t.
DayCovers(w, day, e, t) ==
  /\ w.from = w.to => e = day
  /\ w.from < w.to => e = day /\ w.from <= t /\ t < w.to
  /\ w.from > w.to => \/ e = day /\ t >= w.from
                      \/ (e - 1) % WeekDays = day /\ t < w.to

\* An interval that may reach over the end of the week.
LEMMA AddIntervalTyped ==
  ASSUME NEW first \in Nat, NEW last \in Nat, first < last, first < WeekMinutes,
         last <= 2 * WeekMinutes
  PROVE  /\ AddInterval(first, last) \in SUBSET Interval
         /\ AddInterval(first, last) # {}
         /\ \A m \in Minutes :
              ScheduleState(AddInterval(first, last), m)
                <=> \/ first <= m /\ m < last
                    \/ m + WeekMinutes < last
<1>1. WeekMinutes \in Nat \ {0}
  BY WeekTyped
<1>2. CASE last <= WeekMinutes
  <2>1. AddInterval(first, last) = {<<first, last>>}
    BY <1>2 DEF AddInterval
  <2>2. <<first, last>> \in Interval
    BY <1>1, <1>2 DEF Interval
  <2>3. \A m \in Minutes : ~(m + WeekMinutes < last)
    BY <1>1, <1>2 DEF Minutes
  <2>. QED  BY <2>1, <2>2, <2>3 DEF ScheduleState
<1>3. CASE ~(last <= WeekMinutes)
  <2>1. AddInterval(first, last) = {<<first, WeekMinutes>>, <<0, last - WeekMinutes>>}
    BY <1>3 DEF AddInterval
  <2>2. <<first, WeekMinutes>> \in Interval /\ <<0, last - WeekMinutes>> \in Interval
    BY <1>1, <1>3 DEF Interval
  <2>3. ASSUME NEW m \in Minutes
        PROVE  /\ first <= m /\ m < WeekMinutes <=> first <= m /\ m < last
               /\ 0 <= m /\ m < last - WeekMinutes <=> m + WeekMinutes < last
    BY <1>1, <1>3 DEF Minutes
  <2>4. ASSUME NEW m \in Minutes
        PROVE  ScheduleState(AddInterval(first, last), m)
                 <=> \/ first <= m /\ m < WeekMinutes
                     \/ 0 <= m /\ m < last - WeekMinutes
    BY <2>1 DEF ScheduleState
  <2>. QED  BY <2>1, <2>2, <2>3, <2>4
<1>. QED  BY <1>2, <1>3

\* What a window is made of.
LEMMA WindowTyped ==
  ASSUME NEW w \in Window
  PROVE  /\ w.days \in SUBSET Days /\ w.days # {}
         /\ w.from \in Nat /\ w.from < DayMinutes
         /\ w.to \in Nat /\ w.to < DayMinutes
BY WeekTyped DEF Window, TimesOfDay

\* The first day of the week comes after the last.
LEMMA Eve ==
  ASSUME NEW e \in Days
  PROVE  (e - 1) % WeekDays = IF e = 0 THEN WeekDays - 1 ELSE e - 1
<1>1. e \in Nat /\ e < WeekDays /\ WeekDays \in Nat \ {0}
  BY WeekTyped DEF Days
<1>2. CASE e = 0
  <2>1. (-1) % WeekDays = WeekDays - 1
    BY <1>1
  <2>. QED  BY <1>2, <2>1
<1>3. CASE e # 0
  <2>1. \A x \in 0..(WeekDays - 1) : x % WeekDays = x
    BY <1>1
  <2>2. e - 1 \in 0..(WeekDays - 1)
    BY <1>1, <1>3
  <2>. QED  BY <1>3, <2>1, <2>2
<1>. QED  BY <1>2, <1>3

\* Each day of a window is compiled into the minutes that it means.
LEMMA DayCompiled ==
  ASSUME NEW w \in Window, NEW day \in w.days
  PROVE  /\ DayIntervals(w, day) \in SUBSET Interval /\ DayIntervals(w, day) # {}
         /\ \A m \in Minutes :
              ScheduleState(DayIntervals(w, day), m)
                <=> DayCovers(w, day, m \div DayMinutes, m % DayMinutes)
<1> DEFINE base == day * DayMinutes
<1>1. /\ day \in Days /\ day \in Nat /\ base \in Nat
      /\ base + DayMinutes <= WeekMinutes
      /\ base + DayMinutes = WeekMinutes <=> day = WeekDays - 1
  BY WindowTyped, DayTyped
<1>2. /\ w.from \in Nat /\ w.from < DayMinutes /\ w.to \in Nat /\ w.to < DayMinutes
      /\ DayMinutes \in Nat \ {0} /\ WeekMinutes \in Nat \ {0} /\ WeekDays \in Nat \ {0}
  BY WindowTyped, WeekTyped
<1> DEFINE End == IF w.from = w.to THEN base + DayMinutes
                  ELSE IF w.from < w.to THEN base + w.to ELSE base + DayMinutes + w.to
           First == IF w.from = w.to THEN base ELSE base + w.from
<1>3. DayIntervals(w, day) = AddInterval(First, End)
  BY <1>2 DEF DayIntervals
<1> HIDE DEF base
<1>4. /\ First \in Nat /\ End \in Nat /\ First < End /\ First < WeekMinutes
      /\ End <= 2 * WeekMinutes
      /\ w.from = w.to => First = base /\ End = base + DayMinutes
      /\ w.from < w.to => First = base + w.from /\ End = base + w.to
      /\ w.from > w.to => First = base + w.from /\ End = base + DayMinutes + w.to
  BY <1>1, <1>2
<1> HIDE DEF First, End
<1>5. ASSUME NEW m \in Minutes
      PROVE  (\/ First <= m /\ m < End
              \/ m + WeekMinutes < End)
               <=> DayCovers(w, day, m \div DayMinutes, m % DayMinutes)
  <2>1. PICK e \in Days, t \in TimesOfDay :
               /\ e = m \div DayMinutes /\ t = m % DayMinutes
               /\ m = e * DayMinutes + t
    BY DayOfMinute
  <2> DEFINE dawn == e * DayMinutes
  <2>2. /\ e \in Nat /\ t \in Nat /\ t < DayMinutes /\ dawn \in Nat /\ m = dawn + t
        /\ m < WeekMinutes /\ e < WeekDays
    BY <2>1, <1>2, DayTyped DEF TimesOfDay, Minutes, Days
  <2>3. /\ base <= dawn + t <=> day <= e
        /\ dawn + t < base + DayMinutes <=> e <= day
    BY <1>1, OfDay DEF base
  <2>4. e = day => dawn = base
    BY DEF base
  <2>5. e = day + 1 => dawn = base + DayMinutes
    BY <1>1, <1>2, <2>2 DEF base
  <2>6. e > day + 1 => dawn >= base + DayMinutes + DayMinutes
    <3>1. day + 1 \in Nat /\ (day + 1) * DayMinutes = base + DayMinutes
      BY <1>1, <1>2 DEF base
    <3>2. e > day + 1 => (day + 1) * DayMinutes + DayMinutes <= dawn
      BY <2>2, <3>1, DaysInOrder
    <3>. QED  BY <1>1, <1>2, <2>2, <3>1, <3>2
  <2>7. (e - 1) % WeekDays = day <=> (e = day + 1 \/ (e = 0 /\ day = WeekDays - 1))
    <3>1. (e - 1) % WeekDays = IF e = 0 THEN WeekDays - 1 ELSE e - 1
      BY Eve
    <3>2. day < WeekDays
      BY <1>1, <1>2 DEF Days
    <3> DEFINE eve == (e - 1) % WeekDays
    <3> HIDE DEF eve
    <3>3. eve = IF e = 0 THEN WeekDays - 1 ELSE e - 1
      BY <3>1 DEF eve
    <3>4. eve = day <=> (e = day + 1 \/ (e = 0 /\ day = WeekDays - 1))
      <4>1. day \in Int /\ e \in Int /\ WeekDays \in Int /\ 0 <= e /\ 0 <= day
        BY <1>1, <1>2, <2>2
      <4>2. CASE e = 0
        <5>1. eve = WeekDays - 1
          BY <3>3, <4>2
        <5>. QED  BY <4>1, <4>2, <5>1
      <4>3. CASE e # 0
        <5>1. eve = e - 1
          BY <3>3, <4>3
        <5>. QED  BY <4>1, <4>3, <5>1
      <4>. QED  BY <4>2, <4>3
    <3>. QED  BY <3>4 DEF eve
  <2>8. e = 0 => dawn = 0
    BY <1>2
  <2>9. e # 0 => DayMinutes <= dawn
    <3>1. e # 0 => 0 * DayMinutes + DayMinutes <= dawn
      BY <2>2, DaysInOrder
    <3>. QED  BY <1>2, <2>2, <3>1
  <2> HIDE DEF dawn
  <2>10. DayCovers(w, day, m \div DayMinutes, m % DayMinutes) <=> DayCovers(w, day, e, t)
    BY <2>1
  <2>11. CASE w.from = w.to
    <3>1. DayCovers(w, day, e, t) <=> e = day
      BY <1>2, <2>11 DEF DayCovers
    <3>2. (First <= m /\ m < End) <=> e = day
      BY <1>1, <1>2, <1>4, <2>2, <2>3, <2>11
    <3>3. ~(m + WeekMinutes < End)
      BY <1>1, <1>2, <1>4, <2>2, <2>11
    <3>. QED  BY <2>10, <3>1, <3>2, <3>3
  <2>12. CASE w.from < w.to
    <3>1. DayCovers(w, day, e, t) <=> e = day /\ w.from <= t /\ t < w.to
      BY <1>2, <2>12 DEF DayCovers
    <3>2. First = base + w.from /\ End = base + w.to
      BY <1>4, <2>12
    <3>3. (First <= m /\ m < End) <=> e = day /\ w.from <= t /\ t < w.to
      BY <1>1, <1>2, <2>2, <2>3, <2>4, <3>2
    <3>4. ~(m + WeekMinutes < End)
      BY <1>1, <1>2, <2>2, <3>2
    <3>. QED  BY <2>10, <3>1, <3>3, <3>4
  <2>13. CASE w.from > w.to
    <3>1. DayCovers(w, day, e, t)
            <=> (e = day /\ t >= w.from) \/ ((e - 1) % WeekDays = day /\ t < w.to)
      BY <1>2, <2>13 DEF DayCovers
    <3>2. First = base + w.from /\ End = base + DayMinutes + w.to
      BY <1>4, <2>13
    <3>3. (First <= m /\ m < End) <=> (e = day /\ t >= w.from) \/ (e = day + 1 /\ t < w.to)
      <4>1. CASE e < day
        <5>1. m < base /\ e # day /\ e # day + 1
          BY <1>1, <1>2, <2>2, <2>3, <4>1
        <5>2. base <= First
          BY <1>1, <1>2, <3>2
        <5>. QED  BY <1>1, <1>4, <2>2, <5>1, <5>2
      <4>2. CASE e = day
        BY <1>1, <1>2, <2>2, <2>4, <3>2, <4>2
      <4>3. CASE e = day + 1
        BY <1>1, <1>2, <2>2, <2>5, <3>2, <4>3
      <4>4. CASE e > day + 1
        BY <1>1, <1>2, <2>2, <2>6, <3>2, <4>4
      <4>. QED  BY <1>1, <2>2, <4>1, <4>2, <4>3, <4>4
    <3>4. (m + WeekMinutes < End) <=> e = 0 /\ day = WeekDays - 1 /\ t < w.to
      <4>1. CASE day = WeekDays - 1
        <5>1. (m + WeekMinutes < End) <=> m < w.to
          BY <1>1, <1>2, <2>2, <3>2, <4>1
        <5>2. m < w.to <=> e = 0 /\ t < w.to
          BY <1>2, <2>2, <2>8, <2>9
        <5>. QED  BY <4>1, <5>1, <5>2
      <4>2. CASE day # WeekDays - 1
        <5>1. base + DayMinutes + DayMinutes <= WeekMinutes
          <6>1. day < WeekDays - 1 /\ WeekDays - 1 \in Nat
            BY <1>1, <1>2, <4>2 DEF Days
          <6>2. (day + 1) * DayMinutes + DayMinutes <= WeekDays * DayMinutes
            BY <1>1, <1>2, <6>1, DaysInOrder
          <6>3. (day + 1) * DayMinutes = base + DayMinutes
            BY <1>1, <1>2 DEF base
          <6>. QED  BY <6>2, <6>3 DEF WeekMinutes
        <5>2. End <= WeekMinutes
          BY <1>1, <1>2, <3>2, <5>1
        <5>3. ~(m + WeekMinutes < End)
          BY <1>2, <1>4, <2>2, <5>2
        <5>. QED  BY <4>2, <5>3
      <4>. QED  BY <4>1, <4>2
    <3>. QED  BY <2>7, <2>10, <3>1, <3>3, <3>4
  <2>. QED  BY <1>2, <2>11, <2>12, <2>13
<1>. QED  BY <1>3, <1>4, <1>5, AddIntervalTyped

\* DayCovers is Covers, day by day.
LEMMA CoversByDay ==
  ASSUME NEW w \in Window, NEW m \in Minutes
  PROVE  Covers(w, m) <=> \E day \in w.days : DayCovers(w, day, m \div DayMinutes, m % DayMinutes)
<1> DEFINE e   == m \div DayMinutes
           t   == m % DayMinutes
           eve == (e - 1) % WeekDays
<1>1. w.from \in Nat /\ w.to \in Nat
  BY WindowTyped
<1>2. Covers(w, m) <=> \/ w.from = w.to /\ e \in w.days
                       \/ w.from < w.to /\ e \in w.days /\ w.from <= t /\ t < w.to
                       \/ w.from > w.to /\ \/ e \in w.days /\ t >= w.from
                                           \/ eve \in w.days /\ t < w.to
  <2>1. ASSUME w.from = w.to
        PROVE  Covers(w, m) <=> e \in w.days
    <3>1. ~(w.from < w.to) /\ ~(w.from > w.to)
      BY <1>1, <2>1
    <3> HIDE DEF e, t, eve
    <3>. QED  BY <2>1, <3>1 DEF Covers, e, t, eve
  <2>2. ASSUME w.from < w.to
        PROVE  Covers(w, m) <=> e \in w.days /\ w.from <= t /\ t < w.to
    <3>1. w.from # w.to /\ ~(w.from > w.to)
      BY <1>1, <2>2
    <3> HIDE DEF e, t, eve
    <3>. QED  BY <2>2, <3>1 DEF Covers, e, t, eve
  <2>3. ASSUME w.from > w.to
        PROVE  Covers(w, m) <=> (e \in w.days /\ t >= w.from) \/ (eve \in w.days /\ t < w.to)
    <3>1. w.from # w.to /\ ~(w.from < w.to)
      BY <1>1, <2>3
    <3> HIDE DEF e, t, eve
    <3>. QED  BY <2>3, <3>1 DEF Covers, e, t, eve
  <2> HIDE DEF e, t, eve
  <2>. QED  BY <1>1, <2>1, <2>2, <2>3
<1> HIDE DEF e, t, eve
<1>3. \A day \in w.days : DayCovers(w, day, e, t) <=>
        /\ w.from = w.to => e = day
        /\ w.from < w.to => e = day /\ w.from <= t /\ t < w.to
        /\ w.from > w.to => (e = day /\ t >= w.from) \/ (eve = day /\ t < w.to)
  BY DEF DayCovers, eve
<1>4. Covers(w, m) <=> \E day \in w.days : DayCovers(w, day, e, t)
  <2>1. CASE w.from = w.to
    BY <1>1, <1>2, <1>3, <2>1
  <2>2. CASE w.from < w.to
    BY <1>1, <1>2, <1>3, <2>2
  <2>3. CASE w.from > w.to
    BY <1>1, <1>2, <1>3, <2>3
  <2>. QED  BY <1>1, <2>1, <2>2, <2>3
<1>. QED  BY <1>4 DEF e, t

\* The intervals of some windows are active when one of the windows covers the
\* minute, over midnight and the end of the week.
LEMMA WindowsCompiled ==
  ASSUME NEW windows \in SUBSET Window, windows # {}
  PROVE  /\ CompileWindows(windows) \in SUBSET Interval /\ CompileWindows(windows) # {}
         /\ \A m \in Minutes :
              ScheduleState(CompileWindows(windows), m) <=> \E w \in windows : Covers(w, m)
<1>1. \A w \in windows : ParseWindow(w) = UNION {DayIntervals(w, day) : day \in w.days}
  BY DEF ParseWindow, DayIntervals
<1>2. \A i : i \in CompileWindows(windows)
               <=> \E w \in windows : \E day \in w.days : i \in DayIntervals(w, day)
  BY <1>1 DEF CompileWindows
<1>3. CompileWindows(windows) \in SUBSET Interval
  BY <1>2, DayCompiled
<1>4. CompileWindows(windows) # {}
  <2>1. PICK w \in windows : TRUE
    OBVIOUS
  <2>2. PICK day \in w.days : TRUE
    BY WindowTyped
  <2>3. PICK i : i \in DayIntervals(w, day)
    BY DayCompiled
  <2>. QED  BY <1>2, <2>3
<1>5. ASSUME NEW m \in Minutes
      PROVE  ScheduleState(CompileWindows(windows), m) <=> \E w \in windows : Covers(w, m)
  <2>1. ScheduleState(CompileWindows(windows), m)
          <=> \E w \in windows : \E day \in w.days : ScheduleState(DayIntervals(w, day), m)
    BY <1>2 DEF ScheduleState
  <2>2. \A w \in windows : \A day \in w.days :
          ScheduleState(DayIntervals(w, day), m)
            <=> DayCovers(w, day, m \div DayMinutes, m % DayMinutes)
    BY DayCompiled
  <2>3. \A w \in windows :
          Covers(w, m) <=> \E day \in w.days :
                             DayCovers(w, day, m \div DayMinutes, m % DayMinutes)
    BY CoversByDay
  <2>. QED  BY <2>1, <2>2, <2>3
<1>. QED  BY <1>3, <1>4, <1>5

\* What compile_identity says of a minute is true of every minute until the next
\* boundary, for any set of windows, any length of the day and of the week.
THEOREM IdentityStands ==
  ASSUME NEW windows \in SUBSET Window, windows # {}, NEW mode \in Modes,
         NEW minute \in Minutes,
         NEW later \in 0..(CompileIdentity(mode, windows, minute).next - 1)
  PROVE  (CompileIdentity(mode, windows, minute).verdict = ExceptionVerdict(mode))
           <=> \E w \in windows : Covers(w, (minute + later) % WeekMinutes)
<1> DEFINE intervals == CompileWindows(windows)
           then      == (minute + later) % WeekMinutes
           verdict   == CompileIdentity(mode, windows, minute).verdict
<1>1. /\ CompileIdentity(mode, windows, minute).next = NextBoundary(intervals, minute)
      /\ verdict = IF ScheduleState(intervals, minute)
                   THEN ExceptionVerdict(mode) ELSE DefaultVerdict(mode)
  BY DEF CompileIdentity
<1>2. ExceptionVerdict(mode) # DefaultVerdict(mode)
  BY DEF ExceptionVerdict, DefaultVerdict
<1>3. /\ then \in Minutes
      /\ ScheduleState(intervals, then) <=> ScheduleState(intervals, minute)
  BY <1>1, WindowsCompiled, StateStands
<1>4. ScheduleState(intervals, then) <=> \E w \in windows : Covers(w, then)
  BY <1>3, WindowsCompiled
<1> HIDE DEF intervals, verdict
<1>5. verdict = ExceptionVerdict(mode) <=> ScheduleState(intervals, minute)
  BY <1>1, <1>2
<1>. QED  BY <1>3, <1>4, <1>5 DEF verdict

\* No minute is misjudged.
LEMMA NothingMisjudged == Misjudged = {}
<1> SUFFICES ASSUME NEW minute \in Minutes, NEW windows \in Schedules, NEW mode \in Modes,
                    NEW later \in 0..(CompileIdentity(mode, windows, minute).next - 1)
             PROVE  ~(   (CompileIdentity(mode, windows, minute).verdict = ExceptionVerdict(mode))
                       # \E w \in windows : Covers(w, (minute + later) % WeekMinutes))
  BY DEF Misjudged
<1>1. windows \in SUBSET Window /\ windows # {}
  BY DEF Schedules
<1>. QED  BY <1>1, IdentityStands

--------------------------------------------------------------------------------
(* Application rules.                                                      *)

\* Where resolve_verdict is after so many steps.
Current(rules, parent, class) ==
  LET current[n \in Nat] ==
        IF n = 0 THEN class
        ELSE LET c == current[n - 1]
             IN  IF c = NoClass \/ rules[c] # {} THEN c ELSE ParentOf(parent, c)
  IN  current

\* It goes up as Upward does, and stays where there is a rule.
LEMMA CurrentStep ==
  ASSUME NEW parent \in Parents, NEW rules \in Rules, NEW class \in Profiles
  PROVE  /\ Current(rules, parent, class) \in [Nat -> Places]
         /\ Current(rules, parent, class)[0] = class
         /\ \A n \in Nat :
              Current(rules, parent, class)[n + 1] =
                IF \/ Current(rules, parent, class)[n] = NoClass
                   \/ rules[Current(rules, parent, class)[n]] # {}
                THEN Current(rules, parent, class)[n]
                ELSE parent[Current(rules, parent, class)[n]]
<1> DEFINE Climb(c) == IF c = NoClass \/ rules[c] # {} THEN c ELSE ParentOf(parent, c)
           F == [s \in Nat \X Places |-> Climb(s[2])]
           current[n \in Nat] ==
             IF n = 0 THEN class
             ELSE LET c == current[n - 1]
                  IN  IF c = NoClass \/ rules[c] # {} THEN c ELSE ParentOf(parent, c)
<1>0. class \in Places
  BY DEF Places
<1>1. \A c \in Places : Climb(c) \in Places
  BY ParentTyped DEF Places, ParentOf
<1>2. F \in [Nat \X Places -> Places]
  <2> HIDE DEF Climb
  <2>. QED  BY <1>1
<1>3. \A n \in Nat, c \in Places : F[<<n, c>>] = Climb(c)
  <2>1. ASSUME NEW n \in Nat, NEW c \in Places
        PROVE  F[<<n, c>>] = Climb(c)
    <3>1. <<n, c>> \in Nat \X Places /\ <<n, c>>[2] = c
      OBVIOUS
    <3> HIDE DEF Climb
    <3>. QED  BY <3>1
  <2>. QED  BY <2>1
<1> HIDE DEF F
<1>4. PICK f \in [Nat -> Places] : f[0] = class /\ \A n \in Nat : f[n + 1] = Climb(f[n])
  <2>1. PICK f : Follows(f, Places, F, class)
    BY <1>0, <1>2, Recursion
  <2>2. f \in [Nat -> Places] /\ f[0] = class /\ \A n \in Nat : f[n + 1] = F[<<n, f[n]>>]
    BY <2>1 DEF Follows
  <2> HIDE DEF Climb
  <2>3. \A n \in Nat : f[n + 1] = Climb(f[n])
    BY <1>3, <2>2
  <2>. QED  BY <2>2, <2>3
<1>5. f = [n \in Nat |-> IF n = 0 THEN class ELSE Climb(f[n - 1])]
  <2> HIDE DEF Climb
  <2>1. ASSUME NEW n \in Nat
        PROVE  f[n] = IF n = 0 THEN class ELSE Climb(f[n - 1])
    <3>1. CASE n = 0
      BY <1>4, <3>1
    <3>2. CASE n # 0
      <4>1. n - 1 \in Nat /\ (n - 1) + 1 = n
        BY <3>2
      <4>. QED  BY <1>4, <3>2, <4>1
    <3>. QED  BY <3>1, <3>2
  <2>. QED  BY <1>4, <2>1
<1>6. current = [n \in Nat |-> IF n = 0 THEN class ELSE Climb(current[n - 1])]
  BY <1>5 DEF current
<1>7. Current(rules, parent, class) = current
  BY DEF Current, current
<1> HIDE DEF current, Climb
<1>8. current[0] = class
  BY <1>6
<1>9. ASSUME NEW n \in Nat
      PROVE  current[n + 1] = Climb(current[n])
  <2>1. n + 1 \in Nat /\ n + 1 # 0 /\ (n + 1) - 1 = n
    OBVIOUS
  <2>. QED  BY <1>6, <2>1
<1> DEFINE T == {n \in Nat : current[n] \in Places}
<1>10. T = Nat
  <2>1. 0 \in T /\ \A n \in T : n + 1 \in T
    BY <1>0, <1>1, <1>8, <1>9
  <2> HIDE DEF T
  <2>2. T \in SUBSET Nat
    BY DEF T
  <2>. QED  BY <2>1, <2>2, Induction
<1>11. current \in [Nat -> Places]
  BY <1>6, <1>10
<1>12. \A c \in Places : Climb(c) = IF c = NoClass \/ rules[c] # {} THEN c ELSE parent[c]
  BY DEF Climb, Places, ParentOf
<1>. QED  BY <1>7, <1>8, <1>9, <1>11, <1>12

\* No class of the way up has a rule before its k-th place.
UnruledBefore(rules, parent, class, k) ==
  \A m \in Nat : m < k /\ Walk(parent, class)[m] # NoClass
                   => rules[Walk(parent, class)[m]] = {}

\* Below the first class with a rule it follows the way up, and there it stays.
LEMMA CurrentWalk ==
  ASSUME NEW parent \in Parents, NEW rules \in Rules, NEW class \in Profiles, NEW k \in Nat,
         UnruledBefore(rules, parent, class, k)
  PROVE  /\ \A n \in Nat : n <= k => Current(rules, parent, class)[n] = Walk(parent, class)[n]
         /\ Walk(parent, class)[k] # NoClass /\ rules[Walk(parent, class)[k]] # {} =>
              \A n \in Nat : k <= n => Current(rules, parent, class)[n] = Walk(parent, class)[k]
<1> DEFINE w == Walk(parent, class)
           v == Current(rules, parent, class)
<1>1. class \in Places
  BY DEF Places
<1>2. /\ w \in [Nat -> Places]
      /\ w[0] = class
      /\ \A n \in Nat : w[n + 1] = IF w[n] = NoClass THEN NoClass ELSE parent[w[n]]
  BY <1>1, WalkStep
<1>3. /\ v[0] = class
      /\ \A n \in Nat : v[n + 1] = IF v[n] = NoClass \/ rules[v[n]] # {} THEN v[n]
                                   ELSE parent[v[n]]
  BY CurrentStep
<1>4. \A m \in Nat : m < k /\ w[m] # NoClass => rules[w[m]] = {}
  BY DEF UnruledBefore
<1> HIDE DEF w, v
<1> DEFINE T == {n \in Nat : n <= k => v[n] = w[n]}
<1>5. T = Nat
  <2>1. 0 \in T
    BY <1>2, <1>3
  <2>2. ASSUME NEW n \in T
        PROVE  n + 1 \in T
    <3>1. SUFFICES ASSUME n + 1 <= k
          PROVE  v[n + 1] = w[n + 1]
      OBVIOUS
    <3>2. n \in Nat /\ n < k /\ v[n] = w[n]
      BY <3>1
    <3>. QED  BY <1>2, <1>3, <1>4, <3>2
  <2> HIDE DEF T
  <2>3. T \in SUBSET Nat
    BY DEF T
  <2>. QED  BY <2>1, <2>2, <2>3, Induction
<1>6. ASSUME w[k] # NoClass, rules[w[k]] # {}
      PROVE  \A n \in Nat : k <= n => v[n] = w[k]
  <2> DEFINE U == {j \in Nat : v[k + j] = w[k]}
  <2>1. 0 \in U
    <3>1. k + 0 = k /\ v[k] = w[k]
      BY <1>5
    <3>. QED  BY <3>1
  <2>2. ASSUME NEW j \in U
        PROVE  j + 1 \in U
    <3>1. j \in Nat /\ k + j \in Nat /\ k + (j + 1) = (k + j) + 1 /\ v[k + j] = w[k]
      OBVIOUS
    <3>. QED  BY <1>3, <1>6, <3>1
  <2> HIDE DEF U
  <2>3. U \in SUBSET Nat
    BY DEF U
  <2>4. U = Nat
    BY <2>1, <2>2, <2>3, Induction
  <2>5. ASSUME NEW n \in Nat, k <= n
        PROVE  v[n] = w[k]
    <3>1. n - k \in Nat /\ k + (n - k) = n
      BY <2>5
    <3>2. n - k \in U
      BY <2>4, <3>1
    <3>3. v[k + (n - k)] = w[k]
      BY <3>2 DEF U
    <3>. QED  BY <3>1, <3>3
  <2>. QED  BY <2>5
<1>. QED  BY <1>5, <1>6 DEF w, v

\* Where the walk of resolve_verdict ends.
Matched(rules, parent, class) == Current(rules, parent, class)[Cardinality(RuleClasses)]

\* The verdict is that of the rules found there, if there are any.
LEMMA VerdictMatched ==
  ASSUME NEW parent, NEW rules, NEW class
  PROVE  ResolveVerdict(rules, parent, class) =
           ActiveVerdict(IF /\ Matched(rules, parent, class) # NoClass
                            /\ rules[Matched(rules, parent, class)] # {}
                         THEN rules[Matched(rules, parent, class)] ELSE rules[Default])
BY DEF ResolveVerdict, Matched, Current

\* There is one more class with rules than there are configured classes.
LEMMA RuleClassesCounted == Cardinality(RuleClasses) = Cardinality(Profiles) + 1
<1>1. Default \notin Profiles
  BY DefaultAssumption
<1>. QED  BY <1>1, ProfilesFinite, FS_AddElement DEF RuleClasses

\* It is a class above, with a rule, and every class in between has none.
LEMMA MatchedDecides ==
  ASSUME NEW parent \in ClassGraphs, NEW rules \in Rules, NEW class \in Profiles
  PROVE  /\ \A x : Decides(rules, parent, x, class) => Matched(rules, parent, class) = x
         /\ (\A x \in Upward(parent, class) : rules[x] = {})
              => Matched(rules, parent, class) = NoClass
                 \/ rules[Matched(rules, parent, class)] = {}
<1> DEFINE w == Walk(parent, class)
           N == Cardinality(RuleClasses)
           Ruled == {m \in Nat : w[m] # NoClass /\ rules[w[m]] # {}}
<1>1. parent \in Parents /\ class \in Places
  BY DEF ClassGraphs, Places
<1>2. N = Cardinality(Profiles) + 1 /\ Cardinality(Profiles) \in Nat /\ N \in Nat
  BY RuleClassesCounted, ProfilesFinite
<1> HIDE DEF N
<1>3. ASSUME NEW x, Decides(rules, parent, x, class)
      PROVE  Matched(rules, parent, class) = x
  <2>1. /\ x \in Upward(parent, class) /\ rules[x] # {}
        /\ \A y \in Upward(parent, class) \ {x} : rules[y] # {} => y \in Upward(parent, x)
    BY <1>3 DEF Decides
  <2>2. PICK m \in 0..Cardinality(Profiles) : w[m] = x
    BY <2>1, UpwardWalk
  <2>3. x # NoClass /\ x \in Profiles
    BY <1>1, <2>1, UpwardShape, PlacesApart
  <2>4. m \in Ruled
    BY <1>2, <2>1, <2>2, <2>3
  <2>5. PICK k \in Ruled : \A j \in Ruled : k <= j
    <3> HIDE DEF Ruled
    <3>1. Ruled \in SUBSET Nat
      BY DEF Ruled
    <3>. QED  BY <2>4, <3>1, LeastNatural
  <2>6. k \in Nat /\ k <= m /\ m \in Nat /\ w[k] # NoClass /\ rules[w[k]] # {} /\ k <= N
    BY <1>2, <2>4, <2>5
  <2>7. \A j \in Nat : j < k /\ w[j] # NoClass => rules[w[j]] = {}
    BY <2>5, <2>6
  <2>8. Matched(rules, parent, class) = w[k]
    <3>0. UnruledBefore(rules, parent, class, k)
      BY <2>7 DEF UnruledBefore
    <3>1. \A n \in Nat : k <= n => Current(rules, parent, class)[n] = w[k]
      BY <1>1, <2>6, <3>0, CurrentWalk
    <3>2. Current(rules, parent, class)[N] = w[k]
      BY <1>2, <2>6, <3>1
    <3>. QED  BY <3>2 DEF Matched, N
  <2>9. w[k] \in Upward(parent, class)
    BY <1>1, <2>6, UpwardComplete
  <2>10. w[k] \in Profiles
    BY <1>1, <2>9, UpwardShape
  <2>11. x \in Upward(parent, w[k])
    <3>1. m - k \in Nat /\ k + (m - k) = m
      BY <2>6
    <3>2. Walk(parent, w[k])[m - k] = x
      BY <1>1, <2>2, <2>6, <3>1, WalkOn
    <3>. QED  BY <1>1, <2>3, <2>10, <3>1, <3>2, UpwardSteps
  <2>12. w[k] \in Upward(parent, x)
    BY <1>1, <2>1, <2>3, <2>6, <2>9, UpwardShape
  <2>13. w[k] = x
    BY <2>3, <2>11, <2>12, UpwardOneWay
  <2>. QED  BY <2>8, <2>13
<1>4. ASSUME \A x \in Upward(parent, class) : rules[x] = {}
      PROVE  Matched(rules, parent, class) = NoClass \/ rules[Matched(rules, parent, class)] = {}
  <2>1. \A m \in Nat : w[m] # NoClass => rules[w[m]] = {}
    BY <1>1, <1>4, UpwardComplete
  <2>2. Matched(rules, parent, class) = w[N]
    <3>1. UnruledBefore(rules, parent, class, N) /\ N <= N
      BY <1>2, <2>1 DEF UnruledBefore
    <3>2. Current(rules, parent, class)[N] = w[N]
      BY <1>1, <1>2, <3>1, CurrentWalk
    <3>. QED  BY <3>2 DEF Matched, N
  <2>. QED  BY <1>2, <2>1, <2>2
<1>. QED  BY <1>3, <1>4

\* No class graph is ruled otherwise.
LEMMA NothingMisruled == Misruled = {}
<1> SUFFICES ASSUME NEW parent \in ClassGraphs, NEW rules \in Rules, NEW c \in Profiles,
                    RuledOtherwise(parent, rules, c)
             PROVE  FALSE
  BY DEF Misruled
<1> DEFINE verdict == ResolveVerdict(rules, parent, c)
           denies(x) == "deny" \in rules[x]
<1>1. \/ \E x \in Profiles : Decides(rules, parent, x, c) /\ (verdict = "deny") # denies(x)
      \/ /\ \A x \in Upward(parent, c) : rules[x] = {}
         /\ (verdict = "deny") # denies(Default)
  BY DEF RuledOtherwise
<1>2. \A s : ActiveVerdict(s) = "deny" <=> "deny" \in s
  BY DEF ActiveVerdict
<1>3. ASSUME NEW x \in Profiles, Decides(rules, parent, x, c)
      PROVE  verdict = "deny" <=> denies(x)
  <2>1. Matched(rules, parent, c) = x /\ x # NoClass /\ rules[x] # {}
    BY <1>3, MatchedDecides, PlacesApart DEF Decides
  <2>. QED  BY <1>2, <2>1, VerdictMatched
<1>4. ASSUME \A x \in Upward(parent, c) : rules[x] = {}
      PROVE  verdict = "deny" <=> denies(Default)
  BY <1>2, <1>4, MatchedDecides, VerdictMatched
<1> HIDE DEF verdict
<1>. QED  BY <1>1, <1>3, <1>4

--------------------------------------------------------------------------------
(* The end of an approval.                                                 *)

\* A lease reaches a class if it is of the class or of one above it.
LEMMA LeaseReaches ==
  ASSUME NEW parent \in Parents, NEW l \in Profiles, NEW c \in Profiles
  PROVE  LeaseMatches(parent, l, c) <=> l \in Upward(parent, c)
BY UpwardShape DEF LeaseMatches, CategoryIsAncestor

\* No class graph lets an approval end otherwise.
LEMMA NothingMisrevoked == Misrevoked = {}
<1> SUFFICES ASSUME NEW parent \in ClassGraphs, NEW policies \in [RuleClasses -> Verdict],
                    NEW lease \in Profiles, NEW other \in Profiles,
                    EndsOtherwise(parent, policies, lease, other)
             PROVE  FALSE
  BY DEF Misrevoked
<1> DEFINE below(l) == {c \in Profiles : l \in Upward(parent, c)}
           opened   == {c \in below(lease) : policies[c] = "deny"}
                         \ (IF other = lease THEN {} ELSE below(other))
           previous == OverlayApplication(policies, parent, {lease, other})
           current  == OverlayApplication(policies, parent, {other} \ {lease})
<1>1. parent \in Parents
  BY DEF ClassGraphs
<1>2. \A c \in RuleClasses :
        /\ previous[c] = IF c \in below(lease) \cup below(other) THEN "allow" ELSE policies[c]
        /\ current[c]  = IF other # lease /\ c \in below(other) THEN "allow" ELSE policies[c]
  BY <1>1, LeaseReaches DEF OverlayApplication
<1>3. \A c \in RuleClasses : policies[c] \in {"allow", "deny"}
  BY DEF Verdict
<1>4. Profiles \subseteq RuleClasses
  BY DEF RuleClasses
<1>5. PlanRestrictive(previous, current) # opened
  BY DEF EndsOtherwise
<1> HIDE DEF previous, current
<1>6. ASSUME NEW c
      PROVE  c \in PlanRestrictive(previous, current) <=> c \in opened
  BY <1>2, <1>3, <1>4 DEF PlanRestrictive
<1>. QED  BY <1>5, <1>6

--------------------------------------------------------------------------------
(* The theorems.                                                           *)

\* (VerdictStands) The verdict compiled for an identity now is the one its
\* schedule prescribes until the daemon looks again.
THEOREM VerdictsStand == Spec => []VerdictStands
<1>1. VerdictStands
  BY NothingMisjudged DEF VerdictStands
<1>. QED  BY <1>1, PTL

\* (NearestRuleDecides) A class has the verdict of the nearest class upwards that
\* has an active rule, DENY before ALLOW, and else that of the default rules.
THEOREM RulesResolved == Spec => []NearestRuleDecides
<1>1. NearestRuleDecides
  BY NothingMisruled DEF NearestRuleDecides
<1>. QED  BY <1>1, PTL

\* (ApprovalEndRevokes) The end of an approval hands to revocation the classes
\* that it alone had opened, and no other.
THEOREM ApprovalEndsRevoked == Spec => []ApprovalEndRevokes
<1>1. ApprovalEndRevokes
  BY NothingMisrevoked DEF ApprovalEndRevokes
<1>. QED  BY <1>1, PTL

\* (MergedByEvidence) Claims are merged into the class they name, in whatever
\* order they come and however they are spread over observations.
THEOREM EvidenceMerged == Spec => []MergedByEvidence
<1>1. MergedByEvidence
  BY NothingMisnamed DEF MergedByEvidence
<1>. QED  BY <1>1, PTL

\* (DatapathAgrees) The TC program gives a flow the daemon's class or, only where
\* categories are nested, none.
THEOREM MergesInAgreement == Spec => []DatapathAgrees
<1>1. DatapathAgrees
  BY NothingMisread DEF DatapathAgrees
<1>. QED  BY <1>1, PTL
================================================================================
