-------------------------- MODULE ClassificationProofs --------------------------
(***************************************************************************)
(* Proofs about Classification, for any class tree and any evidence: what  *)
(* is above a class, that a merge depends on the classes claimed and on    *)
(* nothing else, and where the TC program's merge agrees with the daemon's.*)
(***************************************************************************)
EXTENDS Classification, FiniteSetTheorems, SequenceTheorems, WellFoundedInduction, TLAPS

--------------------------------------------------------------------------------
(* Induction and recursion over the natural numbers, by least elements.    *)

\* A set of natural numbers that is not empty has a least one.
LEMMA LeastNatural ==
  ASSUME NEW S \in SUBSET Nat, S # {}
  PROVE  \E d \in S : \A e \in S : d <= e
<1> DEFINE R == {ss \in Nat \X Nat : ss[1] < ss[2]}
<1>1. IsWellFoundedOn(R, Nat)
  BY NatLessThanWellFounded DEF OpToRel
<1>2. PICK x \in S : \A y \in S : ~(<<y, x>> \in R)
  <2> HIDE DEF R
  <2>. QED  BY <1>1, WFMin
<1>3. ASSUME NEW y \in S PROVE x <= y
  <2>1. <<y, x>> \notin R
    BY <1>2
  <2>. QED  BY <2>1
<1>. QED  BY <1>3

\* What holds of 0 and passes on to the next number holds of all.
LEMMA Induction ==
  ASSUME NEW S \in SUBSET Nat, 0 \in S, \A n \in S : n + 1 \in S
  PROVE  S = Nat
<1>1. SUFFICES ASSUME Nat \ S # {}
      PROVE  FALSE
  OBVIOUS
<1>2. PICK n \in Nat \ S : \A m \in Nat \ S : n <= m
  BY <1>1, LeastNatural
<1>3. n # 0 /\ n - 1 \in Nat /\ (n - 1) + 1 = n /\ n - 1 < n
  BY <1>2
<1>4. n - 1 \in S
  BY <1>2, <1>3
<1>. QED  BY <1>2, <1>3, <1>4

\* A sequence that begins with x and goes on by F.
Follows(f, S, F, x) ==
  /\ f \in [Nat -> S] /\ f[0] = x
  /\ \A n \in Nat : f[n + 1] = F[<<n, f[n]>>]

\* A step function can be followed from anywhere, for ever.
LEMMA Recursion ==
  ASSUME NEW S, NEW F \in [Nat \X S -> S], NEW x \in S
  PROVE  \E f : Follows(f, S, F, x)
<1> DEFINE Begins(n, g) == /\ g \in [0..n -> S] /\ g[0] = x
                           /\ \A k \in 0..(n - 1) : g[k + 1] = F[<<k, g[k]>>]
           Reached == {n \in Nat : \E g \in [0..n -> S] : Begins(n, g)}
<1>1. Reached = Nat
  <2>1. 0 \in Reached
    <3>1. Begins(0, [k \in 0..0 |-> x])
      OBVIOUS
    <3>. QED  BY <3>1
  <2>2. ASSUME NEW n \in Reached
        PROVE  n + 1 \in Reached
    <3>1. PICK g \in [0..n -> S] : Begins(n, g)
      OBVIOUS
    <3> DEFINE h == [k \in 0..(n + 1) |-> IF k = n + 1 THEN F[<<n, g[n]>>] ELSE g[k]]
    <3>2. n \in Nat /\ g[n] \in S
      BY <3>1
    <3>3. h \in [0..(n + 1) -> S]
      BY <3>1, <3>2
    <3>4. h[0] = x
      BY <3>1, <3>2
    <3>5. ASSUME NEW k \in 0..((n + 1) - 1)
          PROVE  h[k + 1] = F[<<k, h[k]>>]
      <4>1. k \in Nat /\ k <= n /\ h[k] = g[k]
        BY <3>2
      <4>2. CASE k = n
        <5>1. h[k + 1] = F[<<n, g[n]>>]
          BY <3>2, <4>2
        <5>. QED  BY <4>1, <4>2, <5>1
      <4>3. CASE k # n
        <5>1. h[k + 1] = g[k + 1] /\ k \in 0..(n - 1)
          BY <3>2, <4>1, <4>3
        <5>. QED  BY <3>1, <4>1, <5>1
      <4>. QED  BY <4>2, <4>3
    <3> HIDE DEF h
    <3>6. Begins(n + 1, h)
      BY <3>2, <3>3, <3>4, <3>5
    <3>7. n + 1 \in Nat
      BY <3>2
    <3> HIDE DEF Begins
    <3>. QED  BY <3>3, <3>6, <3>7
  <2> HIDE DEF Reached
  <2>3. Reached \in SUBSET Nat
    BY DEF Reached
  <2>. QED  BY <2>1, <2>2, <2>3, Induction
<1>2. ASSUME NEW n \in Nat, NEW m \in Nat, NEW g, NEW h, Begins(n, g), Begins(m, h)
      PROVE  \A k \in Nat : k <= n /\ k <= m => g[k] = h[k]
  <2> DEFINE Same == {k \in Nat : k <= n /\ k <= m => g[k] = h[k]}
  <2>1. 0 \in Same
    BY <1>2
  <2>2. ASSUME NEW k \in Same
        PROVE  k + 1 \in Same
    <3>1. SUFFICES ASSUME k + 1 <= n, k + 1 <= m
          PROVE  g[k + 1] = h[k + 1]
      OBVIOUS
    <3>2. k \in 0..(n - 1) /\ k \in 0..(m - 1) /\ g[k] = h[k]
      BY <3>1
    <3>. QED  BY <1>2, <3>2
  <2> HIDE DEF Same
  <2>3. Same \in SUBSET Nat
    BY DEF Same
  <2>4. Same = Nat
    BY <2>1, <2>2, <2>3, Induction
  <2>. QED  BY <2>4 DEF Same
<1> DEFINE part(n) == CHOOSE g \in [0..n -> S] : Begins(n, g)
           f == [n \in Nat |-> part(n)[n]]
<1>3. ASSUME NEW n \in Nat
      PROVE  Begins(n, part(n))
  <2>1. \E g \in [0..n -> S] : Begins(n, g)
    BY <1>1
  <2> HIDE DEF Begins
  <2>. QED  BY <2>1
<1>4. f \in [Nat -> S]
  <2>1. ASSUME NEW n \in Nat
        PROVE  part(n)[n] \in S
    <3> HIDE DEF part
    <3>. QED  BY <1>3
  <2> HIDE DEF part
  <2>. QED  BY <2>1
<1>5. f[0] = x
  <2>1. part(0)[0] = x
    BY <1>3
  <2> HIDE DEF part
  <2>. QED  BY <2>1
<1>6. ASSUME NEW n \in Nat
      PROVE  f[n + 1] = F[<<n, f[n]>>]
  <2>1. Begins(n, part(n)) /\ Begins(n + 1, part(n + 1))
    <3> HIDE DEF part, Begins
    <3>. QED  BY <1>3
  <2>2. part(n + 1)[n] = part(n)[n]
    <3> HIDE DEF part, Begins
    <3>. QED  BY <1>2, <2>1
  <2>3. part(n + 1)[n + 1] = F[<<n, part(n + 1)[n]>>]
    <3> HIDE DEF part
    <3>. QED  BY <2>1
  <2> HIDE DEF part
  <2>. QED  BY <2>2, <2>3
<1> HIDE DEF f
<1>. QED  BY <1>4, <1>5, <1>6 DEF Follows

--------------------------------------------------------------------------------
(* The way up from a class.                                                *)

\* Where the way up may be: at a class, or past the last one.
Places == Profiles \cup {NoClass}

\* The walk that Upward goes.
Walk(parent, c) ==
  LET up[n \in Nat] ==
        IF n = 0 THEN c
        ELSE IF up[n - 1] = NoClass THEN NoClass ELSE parent[up[n - 1]]
  IN  up

\* No class is not a class.
LEMMA PlacesApart ==
  /\ NoClass \notin Profiles
  /\ Categories \subseteq Profiles /\ Applications \subseteq Profiles
  /\ Categories \cap Applications = {}
BY ClassGraphAssumption DEF Profiles

\* Parents are classes, or none.
LEMMA ParentTyped ==
  ASSUME NEW parent \in Parents, NEW c \in Profiles
  PROVE  parent[c] \in Categories \cup {NoClass} /\ parent[c] \in Places
BY PlacesApart DEF Parents, Places

\* The walk goes from a class to its parent, and stays where there is none.
LEMMA WalkStep ==
  ASSUME NEW parent \in Parents, NEW c \in Places
  PROVE  /\ Walk(parent, c) \in [Nat -> Places]
         /\ Walk(parent, c)[0] = c
         /\ \A n \in Nat : Walk(parent, c)[n + 1] =
                             IF Walk(parent, c)[n] = NoClass THEN NoClass
                             ELSE parent[Walk(parent, c)[n]]
<1> DEFINE Climb(p) == IF p = NoClass THEN NoClass ELSE parent[p]
           F == [s \in Nat \X Places |-> Climb(s[2])]
           up[n \in Nat] == IF n = 0 THEN c ELSE IF up[n - 1] = NoClass THEN NoClass
                                                 ELSE parent[up[n - 1]]
<1>1. \A p \in Places : Climb(p) \in Places
  BY ParentTyped DEF Places
<1>2. F \in [Nat \X Places -> Places]
  <2> HIDE DEF Climb
  <2>. QED  BY <1>1
<1>3. \A n \in Nat, p \in Places : F[<<n, p>>] = Climb(p)
  <2>1. ASSUME NEW n \in Nat, NEW p \in Places
        PROVE  F[<<n, p>>] = Climb(p)
    <3>1. <<n, p>> \in Nat \X Places /\ <<n, p>>[2] = p
      OBVIOUS
    <3> HIDE DEF Climb
    <3>. QED  BY <3>1
  <2>. QED  BY <2>1
<1> HIDE DEF F
<1>4. PICK f \in [Nat -> Places] : f[0] = c /\ \A n \in Nat : f[n + 1] = Climb(f[n])
  <2>1. PICK f : Follows(f, Places, F, c)
    BY <1>2, Recursion
  <2>2. f \in [Nat -> Places] /\ f[0] = c /\ \A n \in Nat : f[n + 1] = F[<<n, f[n]>>]
    BY <2>1 DEF Follows
  <2>3. \A n \in Nat : f[n + 1] = Climb(f[n])
    <3> HIDE DEF Climb
    <3>. QED  BY <1>3, <2>2
  <2> HIDE DEF Climb
  <2>. QED  BY <2>2, <2>3
<1>5. f = [n \in Nat |-> IF n = 0 THEN c ELSE IF f[n - 1] = NoClass THEN NoClass
                                              ELSE parent[f[n - 1]]]
  <2>1. ASSUME NEW n \in Nat
        PROVE  f[n] = IF n = 0 THEN c ELSE Climb(f[n - 1])
    <3>1. CASE n = 0
      BY <1>4, <3>1
    <3>2. CASE n # 0
      <4>1. n - 1 \in Nat /\ (n - 1) + 1 = n
        BY <3>2
      <4> HIDE DEF Climb
      <4>. QED  BY <1>4, <3>2, <4>1
    <3>. QED  BY <3>1, <3>2
  <2>. QED  BY <1>4, <2>1
<1>6. up = [n \in Nat |-> IF n = 0 THEN c ELSE IF up[n - 1] = NoClass THEN NoClass
                                               ELSE parent[up[n - 1]]]
  BY <1>5 DEF up
<1>7. Walk(parent, c) = up
  BY DEF Walk, up
<1> HIDE DEF up
<1>8. up \in [Nat -> Places] /\ up[0] = c /\ \A n \in Nat : up[n + 1] = Climb(up[n])
  <2>1. up[0] = c
    BY <1>6
  <2>2. ASSUME NEW n \in Nat
        PROVE  up[n + 1] = Climb(up[n])
    <3>1. n + 1 \in Nat /\ n + 1 # 0 /\ (n + 1) - 1 = n
      OBVIOUS
    <3>. QED  BY <1>6, <3>1
  <2> DEFINE T == {n \in Nat : up[n] \in Places}
  <2> HIDE DEF Climb
  <2>3. T = Nat
    <3>1. 0 \in T /\ \A n \in T : n + 1 \in T
      BY <1>1, <2>1, <2>2
    <3> HIDE DEF T
    <3>2. T \in SUBSET Nat
      BY DEF T
    <3>. QED  BY <3>1, <3>2, Induction
  <2>4. DOMAIN up = Nat
    BY <1>6
  <2>5. \A n \in Nat : up[n] \in Places
    BY <2>3
  <2>6. up = [n \in Nat |-> up[n]]
    BY <1>6
  <2>. QED  BY <2>1, <2>2, <2>5, <2>6
<1>. QED  BY <1>7, <1>8

\* Upward is what the walk passes.
LEMMA UpwardWalk ==
  ASSUME NEW parent, NEW c
  PROVE  Upward(parent, c) =
           {Walk(parent, c)[n] : n \in 0..Cardinality(Profiles)} \ {NoClass}
BY DEF Upward, Walk

\* Behind its n-th step a walk goes on as the one from there.
LEMMA WalkOn ==
  ASSUME NEW parent \in Parents, NEW c \in Places, NEW n \in Nat
  PROVE  \A m \in Nat : Walk(parent, c)[n + m] = Walk(parent, Walk(parent, c)[n])[m]
<1> DEFINE w == Walk(parent, c)
           v == Walk(parent, w[n])
           T == {m \in Nat : w[n + m] = v[m]}
<1>1. w \in [Nat -> Places]
      /\ \A k \in Nat : w[k + 1] = IF w[k] = NoClass THEN NoClass ELSE parent[w[k]]
  BY WalkStep
<1>2. w[n] \in Places
  BY <1>1
<1>3. v \in [Nat -> Places] /\ v[0] = w[n]
      /\ \A k \in Nat : v[k + 1] = IF v[k] = NoClass THEN NoClass ELSE parent[v[k]]
  <2>1. ASSUME NEW x \in Places
        PROVE  /\ Walk(parent, x) \in [Nat -> Places] /\ Walk(parent, x)[0] = x
               /\ \A k \in Nat : Walk(parent, x)[k + 1] =
                     IF Walk(parent, x)[k] = NoClass THEN NoClass ELSE parent[Walk(parent, x)[k]]
    BY WalkStep
  <2> HIDE DEF w
  <2>. QED  BY <1>2, <2>1
<1> HIDE DEF w, v
<1>4. 0 \in T
  BY <1>3
<1>5. ASSUME NEW m \in T
      PROVE  m + 1 \in T
  <2>1. m \in Nat /\ n + m \in Nat /\ n + (m + 1) = (n + m) + 1 /\ w[n + m] = v[m]
    OBVIOUS
  <2>. QED  BY <1>1, <1>3, <2>1
<1> HIDE DEF T
<1>6. T \in SUBSET Nat
  BY DEF T
<1>7. T = Nat
  BY <1>4, <1>5, <1>6, Induction
<1>. QED  BY <1>7 DEF T, w, v

\* Once there is no class, there is none above.
LEMMA WalkEnds ==
  ASSUME NEW parent \in Parents, NEW c \in Places, NEW n \in Nat,
         Walk(parent, c)[n] = NoClass
  PROVE  \A m \in Nat : Walk(parent, c)[n + m] = NoClass
<1> DEFINE w == Walk(parent, c)
           T == {m \in Nat : w[n + m] = NoClass}
<1>1. \A k \in Nat : w[k + 1] = IF w[k] = NoClass THEN NoClass ELSE parent[w[k]]
  BY WalkStep
<1>2. w[n] = NoClass
  OBVIOUS
<1> HIDE DEF w
<1>3. 0 \in T
  BY <1>2
<1>4. ASSUME NEW m \in T
      PROVE  m + 1 \in T
  <2>1. m \in Nat /\ n + m \in Nat /\ n + (m + 1) = (n + m) + 1 /\ w[n + m] = NoClass
    OBVIOUS
  <2>. QED  BY <1>1, <2>1
<1> HIDE DEF T
<1>5. T \in SUBSET Nat
  BY DEF T
<1>6. T = Nat
  BY <1>3, <1>4, <1>5, Induction
<1>. QED  BY <1>6 DEF T, w

--------------------------------------------------------------------------------
(* What is above what.                                                     *)

\* The configured classes can be counted.
LEMMA ProfilesFinite == IsFiniteSet(Profiles) /\ Cardinality(Profiles) \in Nat
BY ClassGraphAssumption, FS_CardinalityType DEF Profiles

\* A class is above itself; whatever else is above it is a category.
LEMMA UpwardShape ==
  ASSUME NEW parent \in Parents, NEW c \in Profiles
  PROVE  /\ c \in Upward(parent, c)
         /\ Upward(parent, c) \subseteq Profiles
         /\ Upward(parent, c) \ {c} \subseteq Categories
<1> DEFINE w == Walk(parent, c)
<1>1. c \in Places /\ c # NoClass
  BY PlacesApart DEF Places
<1>2. /\ w \in [Nat -> Places] /\ w[0] = c
      /\ \A n \in Nat : w[n + 1] = IF w[n] = NoClass THEN NoClass ELSE parent[w[n]]
  BY <1>1, WalkStep
<1> HIDE DEF w
<1>3. Upward(parent, c) = {w[n] : n \in 0..Cardinality(Profiles)} \ {NoClass}
  BY UpwardWalk DEF w
<1>4. 0 \in 0..Cardinality(Profiles)
  BY ProfilesFinite
<1>5. ASSUME NEW n \in Nat, w[n] # c
      PROVE  w[n] \in Categories \cup {NoClass}
  <2>1. n # 0 /\ n - 1 \in Nat /\ (n - 1) + 1 = n
    BY <1>2, <1>5
  <2>2. w[n] = IF w[n - 1] = NoClass THEN NoClass ELSE parent[w[n - 1]]
    BY <1>2, <2>1
  <2>3. w[n - 1] \in Places
    BY <1>2, <2>1
  <2>. QED  BY <2>2, <2>3, ParentTyped DEF Places
<1>6. \A n \in 0..Cardinality(Profiles) : n \in Nat
  BY ProfilesFinite
<1>. QED  BY <1>1, <1>2, <1>3, <1>4, <1>5, <1>6 DEF Places

\* However far a walk goes, a class that it passes is above where it began: it
\* need not pass a class twice, and there are no more steps than classes.
LEMMA UpwardComplete ==
  ASSUME NEW parent \in Parents, NEW c \in Places, NEW n \in Nat,
         Walk(parent, c)[n] # NoClass
  PROVE  Walk(parent, c)[n] \in Upward(parent, c)
<1> DEFINE w == Walk(parent, c)
           x == w[n]
           N == Cardinality(Profiles)
           Passing == {m \in Nat : w[m] = x}
<1>1. w \in [Nat -> Places]
  BY WalkStep
<1>2. n \in Passing /\ Passing \in SUBSET Nat
  OBVIOUS
<1>3. PICK m \in Passing : \A k \in Passing : m <= k
  <2> HIDE DEF Passing
  <2>. QED  BY <1>2, LeastNatural
<1>4. m \in Nat /\ w[m] = x /\ x # NoClass
  BY <1>3
<1>5. N \in Nat /\ IsFiniteSet(Profiles)
  BY ProfilesFinite
<1>6. ASSUME m > N
      PROVE  FALSE
  <2>1. ASSUME NEW k \in 0..N
        PROVE  w[k] \in Profiles
    <3>1. k \in Nat /\ m - k \in Nat /\ k + (m - k) = m
      BY <1>4, <1>5, <1>6
    <3>2. w[k] = NoClass => w[k + (m - k)] = NoClass
      BY <3>1, WalkEnds
    <3>3. w[k] # NoClass
      BY <1>4, <3>1, <3>2
    <3> HIDE DEF w
    <3>. QED  BY <1>1, <3>1, <3>3 DEF Places
  <2> DEFINE f == [k \in 0..N |-> w[k]]
  <2> HIDE DEF w
  <2>2. f \in [0..N -> Profiles]
    BY <2>1
  <2>3. IsFiniteSet(0..N) /\ Cardinality(0..N) = N + 1
    <3>1. 0 \in Int /\ N \in Int /\ (0 <= N)
      BY <1>5
    <3> HIDE DEF N
    <3>. QED  BY <1>5, <3>1, FS_Interval
  <2>4. N < Cardinality(0..N)
    BY <1>5, <2>3
  <2>5. PICK a \in 0..N, b \in 0..N : a # b /\ f[a] = f[b]
    <3> HIDE DEF f
    <3>. QED  BY <1>5, <2>2, <2>3, <2>4, FS_PigeonHole DEF N
  <2>6. PICK i \in 0..N, j \in 0..N : i < j /\ w[i] = w[j]
    <3>1. a < b \/ b < a
      BY <1>5, <2>5
    <3>. QED  BY <2>5, <3>1
  <2>7. i \in Nat /\ j \in Nat /\ m - j \in Nat /\ j + (m - j) = m /\ i + (m - j) \in Nat
        /\ i + (m - j) < m
    BY <1>4, <1>5, <1>6, <2>6
  <2>8. w[i + (m - j)] = w[m]
    <3>1. \A k \in Nat : w[i + k] = Walk(parent, w[i])[k]
      BY <2>7, WalkOn DEF w
    <3>2. \A k \in Nat : w[j + k] = Walk(parent, w[j])[k]
      BY <2>7, WalkOn DEF w
    <3>3. w[i + (m - j)] = Walk(parent, w[i])[m - j] /\ w[j + (m - j)] = Walk(parent, w[j])[m - j]
      <4> HIDE DEF w
      <4>. QED  BY <2>7, <3>1, <3>2
    <3> HIDE DEF w
    <3>. QED  BY <2>6, <2>7, <3>3
  <2>9. i + (m - j) \in Passing
    BY <1>4, <2>7, <2>8
  <2>. QED  BY <1>3, <1>4, <2>7, <2>9
<1>7. m \in 0..N
  BY <1>4, <1>5, <1>6
<1>. QED  BY <1>4, <1>7, UpwardWalk

\* In a class tree no walk returns to where it began.
LEMMA NoReturn ==
  ASSUME NEW parent \in ClassGraphs, NEW c \in Profiles, NEW n \in Nat
  PROVE  Walk(parent, c)[n + 1] # c
<1>1. parent \in Parents /\ c \notin Upward(parent, parent[c])
  BY DEF ClassGraphs
<1>2. c \in Places /\ c # NoClass
  BY PlacesApart DEF Places
<1>3. parent[c] \in Places
  BY <1>1, ParentTyped
<1>4. Walk(parent, c)[1] = parent[c]
  <2>1. 0 + 1 = 1
    OBVIOUS
  <2>2. /\ Walk(parent, c)[0] = c
        /\ \A k \in Nat : Walk(parent, c)[k + 1] =
                            IF Walk(parent, c)[k] = NoClass THEN NoClass
                            ELSE parent[Walk(parent, c)[k]]
    BY <1>1, <1>2, WalkStep
  <2>. QED  BY <1>2, <2>1, <2>2
<1>5. Walk(parent, c)[n + 1] = Walk(parent, parent[c])[n]
  <2>1. 1 + n = n + 1
    OBVIOUS
  <2>2. \A k \in Nat : Walk(parent, c)[1 + k] = Walk(parent, Walk(parent, c)[1])[k]
    BY <1>1, <1>2, WalkOn
  <2>. QED  BY <1>4, <2>1, <2>2
<1>. QED  BY <1>1, <1>2, <1>3, <1>5, UpwardComplete

\* What is above is above in some number of steps, and the other way round.
LEMMA UpwardSteps ==
  ASSUME NEW parent \in Parents, NEW c \in Profiles, NEW x
  PROVE  x \in Upward(parent, c) <=>
           x # NoClass /\ \E n \in Nat : Walk(parent, c)[n] = x
<1>1. c \in Places
  BY DEF Places
<1>2. ASSUME x \in Upward(parent, c)
      PROVE  x # NoClass /\ \E n \in Nat : Walk(parent, c)[n] = x
  <2>1. x \in {Walk(parent, c)[n] : n \in 0..Cardinality(Profiles)} \ {NoClass}
    BY <1>2, UpwardWalk
  <2>2. \A n \in 0..Cardinality(Profiles) : n \in Nat
    BY ProfilesFinite
  <2>. QED  BY <2>1, <2>2
<1>. QED  BY <1>1, <1>2, UpwardComplete

\* What is above something above is above.
LEMMA UpwardTransitive ==
  ASSUME NEW parent \in Parents, NEW c \in Profiles,
         NEW x \in Upward(parent, c), NEW y \in Upward(parent, x)
  PROVE  y \in Upward(parent, c)
<1>1. x \in Profiles
  BY UpwardShape
<1>2. PICK n \in Nat : Walk(parent, c)[n] = x
  BY UpwardSteps
<1>3. PICK m \in Nat : Walk(parent, x)[m] = y
  BY <1>1, UpwardSteps
<1>4. c \in Places /\ n + m \in Nat
  BY DEF Places
<1>5. Walk(parent, c)[n + m] = y
  BY <1>2, <1>3, <1>4, WalkOn
<1>6. y # NoClass
  BY <1>1, UpwardSteps
<1>. QED  BY <1>4, <1>5, <1>6, UpwardSteps

\* Of two classes of a tree, one at most is above the other.
LEMMA UpwardOneWay ==
  ASSUME NEW parent \in ClassGraphs, NEW c \in Profiles,
         NEW x \in Upward(parent, c), c \in Upward(parent, x)
  PROVE  x = c
<1>1. parent \in Parents
  BY DEF ClassGraphs
<1>2. x \in Profiles
  BY <1>1, UpwardShape
<1>3. PICK n \in Nat : Walk(parent, c)[n] = x
  BY <1>1, UpwardSteps
<1>4. PICK m \in Nat : Walk(parent, x)[m] = c
  BY <1>1, <1>2, UpwardSteps
<1>5. c \in Places /\ n + m \in Nat
  BY DEF Places
<1>6. Walk(parent, c)[n + m] = c
  BY <1>1, <1>3, <1>4, <1>5, WalkOn
<1>7. n + m = 0
  <2>1. SUFFICES ASSUME n + m # 0
        PROVE  FALSE
    OBVIOUS
  <2>2. (n + m) - 1 \in Nat /\ ((n + m) - 1) + 1 = n + m
    BY <1>5, <2>1
  <2>. QED  BY <1>6, <2>2, NoReturn
<1>8. n = 0
  BY <1>7
<1>. QED  BY <1>1, <1>3, <1>5, <1>8, WalkStep

\* The classes above one class are in a line.
LEMMA UpwardLine ==
  ASSUME NEW parent \in Parents, NEW c \in Profiles,
         NEW x \in Upward(parent, c), NEW y \in Upward(parent, c)
  PROVE  x \in Upward(parent, y) \/ y \in Upward(parent, x)
<1>1. x \in Profiles /\ y \in Profiles /\ x # NoClass /\ y # NoClass /\ c \in Places
  BY UpwardShape, PlacesApart DEF Places
<1>2. PICK n \in Nat : Walk(parent, c)[n] = x
  BY UpwardSteps
<1>3. PICK m \in Nat : Walk(parent, c)[m] = y
  BY UpwardSteps
<1>4. CASE n <= m
  <2>1. m - n \in Nat /\ n + (m - n) = m
    BY <1>4
  <2>2. Walk(parent, x)[m - n] = y
    BY <1>1, <1>2, <1>3, <2>1, WalkOn
  <2>. QED  BY <1>1, <2>1, <2>2, UpwardSteps
<1>5. CASE m <= n
  <2>1. n - m \in Nat /\ m + (n - m) = n
    BY <1>5
  <2>2. Walk(parent, y)[n - m] = x
    BY <1>1, <1>2, <1>3, <2>1, WalkOn
  <2>. QED  BY <1>1, <2>1, <2>2, UpwardSteps
<1>. QED  BY <1>4, <1>5


--------------------------------------------------------------------------------
(* What evidence names.                                                    *)

\* A class of some evidence that everything else of it is above.
Deepest(parent, classes, d) == d \in classes /\ classes \subseteq Upward(parent, d)

\* There is one at most.
LEMMA DeepestUnique ==
  ASSUME NEW parent \in ClassGraphs, NEW classes \in SUBSET Profiles, NEW d, NEW e,
         Deepest(parent, classes, d), Deepest(parent, classes, e)
  PROVE  d = e
BY UpwardOneWay DEF Deepest

\* Evidence whose classes are all above one class has a deepest one.
LEMMA DeepestExists ==
  ASSUME NEW parent \in Parents, NEW classes \in SUBSET Profiles, classes # {},
         NEW e \in Profiles, classes \subseteq Upward(parent, e)
  PROVE  \E d : Deepest(parent, classes, d)
<1> DEFINE w == Walk(parent, e)
           Steps == {n \in Nat : w[n] \in classes}
<1>1. \A x \in classes : \E n \in Nat : w[n] = x
  BY UpwardSteps
<1>2. Steps \in SUBSET Nat /\ Steps # {}
  BY <1>1
<1>3. PICK n \in Steps : \A m \in Steps : n <= m
  <2> HIDE DEF Steps
  <2>. QED  BY <1>2, LeastNatural
<1>4. n \in Nat /\ w[n] \in classes /\ w[n] \in Profiles
  BY <1>3
<1>5. ASSUME NEW x \in classes
      PROVE  x \in Upward(parent, w[n])
  <2>1. PICK m \in Nat : w[m] = x
    BY <1>1
  <2>2. m - n \in Nat /\ n + (m - n) = m
    BY <1>3, <1>4, <2>1
  <2>3. e \in Places /\ x # NoClass
    BY PlacesApart DEF Places
  <2>4. Walk(parent, w[n])[m - n] = x
    BY <1>4, <2>1, <2>2, <2>3, WalkOn
  <2>. QED  BY <1>4, <2>2, <2>3, <2>4, UpwardSteps
<1>. QED  BY <1>4, <1>5 DEF Deepest

\* What evidence names, said with its deepest class.
LEMMA NamedDeepest ==
  ASSUME NEW parent \in ClassGraphs, NEW classes \in SUBSET Profiles
  PROVE  /\ \A d : Deepest(parent, classes, d) => Named(parent, classes) = DirectHint(parent, d)
         /\ (\A d : ~Deepest(parent, classes, d)) => Named(parent, classes) = UnclassifiedHint
<1> DEFINE deepest == {d \in classes : \A c \in classes \ {d} : CategoryIsAncestor(parent, c, d)}
<1>1. parent \in Parents
  BY DEF ClassGraphs
<1>2. \A d : d \in deepest <=> Deepest(parent, classes, d)
  <2>1. ASSUME NEW d \in deepest
        PROVE  Deepest(parent, classes, d)
    BY <1>1, <2>1, UpwardShape DEF Deepest, CategoryIsAncestor
  <2>2. ASSUME NEW d, Deepest(parent, classes, d)
        PROVE  d \in deepest
    BY <1>1, <2>2, UpwardShape DEF Deepest, CategoryIsAncestor
  <2>. QED  BY <2>1, <2>2
<1>3. Named(parent, classes) = IF deepest = {} THEN UnclassifiedHint
                               ELSE DirectHint(parent, CHOOSE d \in deepest : TRUE)
  BY DEF Named
<1> HIDE DEF deepest
<1>4. ASSUME NEW d, Deepest(parent, classes, d)
      PROVE  Named(parent, classes) = DirectHint(parent, d)
  <2>1. (CHOOSE x \in deepest : TRUE) \in deepest /\ deepest # {}
    BY <1>2, <1>4
  <2>2. (CHOOSE x \in deepest : TRUE) = d
    BY <1>2, <1>4, <2>1, DeepestUnique
  <2>. QED  BY <1>3, <2>1, <2>2
<1>5. ASSUME \A d : ~Deepest(parent, classes, d)
      PROVE  Named(parent, classes) = UnclassifiedHint
  BY <1>2, <1>3, <1>5
<1>. QED  BY <1>4, <1>5

\* No hint is not a conflict.
LEMMA HintsApart == NoHint # UnclassifiedHint
<1>1. NoHint.kind = "none" /\ UnclassifiedHint.kind = "unclassified"
  BY DEF NoHint, UnclassifiedHint, Hint
<1>. QED  BY <1>1

\* The hint of a class; no two classes share one.
LEMMA DirectHintShape ==
  ASSUME NEW parent \in Parents, NEW c \in Profiles
  PROVE  /\ DirectHint(parent, c).class = c
         /\ DirectHint(parent, c).kind = (IF c \in Categories THEN "category" ELSE "exact")
         /\ DirectHint(parent, c).category = (IF c \in Categories THEN c ELSE parent[c])
         /\ DirectHint(parent, c) \notin {NoHint, UnclassifiedHint}
         /\ NoHint # UnclassifiedHint
<1>1. NoHint.kind = "none" /\ UnclassifiedHint.kind = "unclassified"
  BY DEF NoHint, UnclassifiedHint, Hint
<1>2. CASE c \in Categories
  BY <1>1, <1>2 DEF DirectHint, CategoryHint, Hint
<1>3. CASE c \notin Categories
  BY <1>1, <1>3 DEF DirectHint, CategoryHint, Hint, RuntimeCategory
<1>. QED  BY <1>2, <1>3

\* One class's claim generalises another's if it is above it.
LEMMA GeneralisesAbove ==
  ASSUME NEW parent \in Parents, NEW c \in Profiles, NEW d \in Profiles
  PROVE  Generalises(parent, DirectHint(parent, d), DirectHint(parent, c))
           <=> d \in Upward(parent, c)
<1>1. d = c => d \in Upward(parent, c)
  BY UpwardShape
<1>2. d # c /\ d \in Upward(parent, c) => d \in Categories
  BY UpwardShape
<1>. QED  BY <1>1, <1>2, DirectHintShape DEF Generalises, CategoryIsAncestor

\* Merging what two sets of classes name gives what both together name.
LEMMA MergeNamed ==
  ASSUME NEW parent \in ClassGraphs,
         NEW A \in SUBSET Profiles, A # {}, NEW B \in SUBSET Profiles, B # {}
  PROVE  MergeClaim(parent, Named(parent, A), Named(parent, B)) = Named(parent, A \cup B)
<1>1. parent \in Parents
  BY DEF ClassGraphs
<1>2. A \cup B \in SUBSET Profiles
  OBVIOUS
<1>3. ASSUME NEW S \in {A, B}, \A d : ~Deepest(parent, S, d)
      PROVE  Named(parent, S) = UnclassifiedHint /\ Named(parent, A \cup B) = UnclassifiedHint
  <2>1. ASSUME NEW e, Deepest(parent, A \cup B, e)
        PROVE  FALSE
    <3>1. e \in Profiles /\ S \subseteq Upward(parent, e) /\ S \in SUBSET Profiles /\ S # {}
      BY <2>1 DEF Deepest
    <3>. QED  BY <1>1, <1>3, <3>1, DeepestExists
  <2>2. S \in SUBSET Profiles
    OBVIOUS
  <2>. QED  BY <1>2, <1>3, <2>1, <2>2, NamedDeepest
<1>4. ASSUME NEW c, NEW d, Deepest(parent, A, c), Deepest(parent, B, d)
      PROVE  MergeClaim(parent, Named(parent, A), Named(parent, B)) = Named(parent, A \cup B)
  <2>1. c \in Profiles /\ d \in Profiles
    BY <1>4 DEF Deepest
  <2>2. Named(parent, A) = DirectHint(parent, c) /\ Named(parent, B) = DirectHint(parent, d)
    BY <1>4, NamedDeepest
  <2>3. MergeClaim(parent, DirectHint(parent, c), DirectHint(parent, d)) =
          IF d \in Upward(parent, c) THEN DirectHint(parent, c)
          ELSE IF c \in Upward(parent, d) THEN DirectHint(parent, d) ELSE UnclassifiedHint
    BY <1>1, <2>1, GeneralisesAbove, DirectHintShape DEF MergeClaim
  <2>4. CASE d \in Upward(parent, c)
    <3>1. B \subseteq Upward(parent, c)
      BY <1>1, <1>4, <2>1, <2>4, UpwardTransitive DEF Deepest
    <3>2. Deepest(parent, A \cup B, c)
      BY <1>4, <3>1 DEF Deepest
    <3>. QED  BY <1>2, <2>2, <2>3, <2>4, <3>2, NamedDeepest
  <2>5. CASE d \notin Upward(parent, c) /\ c \in Upward(parent, d)
    <3>1. A \subseteq Upward(parent, d)
      BY <1>1, <1>4, <2>1, <2>5, UpwardTransitive DEF Deepest
    <3>2. Deepest(parent, A \cup B, d)
      BY <1>4, <3>1 DEF Deepest
    <3>. QED  BY <1>2, <2>2, <2>3, <2>5, <3>2, NamedDeepest
  <2>6. CASE d \notin Upward(parent, c) /\ c \notin Upward(parent, d)
    <3>1. ASSUME NEW e, Deepest(parent, A \cup B, e)
          PROVE  FALSE
      <4>1. e \in Profiles /\ c \in Upward(parent, e) /\ d \in Upward(parent, e)
        BY <1>4, <3>1 DEF Deepest
      <4>2. CASE e \in A
        <5>1. e \in Upward(parent, c)
          BY <1>4, <4>2 DEF Deepest
        <5>2. e = c
          BY <2>1, <4>1, <5>1, UpwardOneWay
        <5>. QED  BY <2>6, <4>1, <5>2
      <4>3. CASE e \in B
        <5>1. e \in Upward(parent, d)
          BY <1>4, <4>3 DEF Deepest
        <5>2. e = d
          BY <2>1, <4>1, <5>1, UpwardOneWay
        <5>. QED  BY <2>6, <4>1, <5>2
      <4>. QED  BY <3>1, <4>2, <4>3 DEF Deepest
    <3>. QED  BY <1>2, <2>2, <2>3, <2>6, <3>1, NamedDeepest
  <2>. QED  BY <2>4, <2>5, <2>6
<1>5. MergeClaim(parent, UnclassifiedHint, Named(parent, B)) = UnclassifiedHint
  BY DEF MergeClaim
<1>6. MergeClaim(parent, Named(parent, A), UnclassifiedHint) = UnclassifiedHint
  BY DEF MergeClaim
<1>7. A \in {A, B} /\ B \in {A, B}
  OBVIOUS
<1>. QED  BY <1>3, <1>4, <1>5, <1>6, <1>7

--------------------------------------------------------------------------------
(* Folding a merge over a sequence.                                        *)

\* A merge returns one of its arguments, or a conflict.
LEMMA MergeClaimTyped ==
  ASSUME NEW parent, NEW H, UnclassifiedHint \in H, NEW s \in H, NEW h \in H
  PROVE  MergeClaim(parent, s, h) \in H
BY DEF MergeClaim

\* What merge_claims has selected after the hints with the numbers in s.
Merged(parent, hints, n) ==
  LET iter[s \in SUBSET (1..n)] ==
        IF s = {} THEN NoHint
        ELSE LET x == Max(s)
             IN  MergeClaim(parent, iter[s \ {x}], hints[x])
  IN  iter

\* The greatest number of a segment that ends with m, is m.
LEMMA MaxGreatest ==
  ASSUME NEW S \in SUBSET Nat, NEW m \in S, \A k \in S : k <= m
  PROVE  Max(S) = m
<1>1. m \in {x \in S : \A y \in S : x >= y}
  OBVIOUS
<1>2. Max(S) \in S /\ \A y \in S : Max(S) >= y
  BY <1>1 DEF Max
<1>3. Max(S) \in Nat /\ m \in Nat /\ Max(S) >= m /\ m >= Max(S)
  BY <1>2
<1>. QED  BY <1>3

\* A set of numbers up to n, if not empty, has a greatest.
LEMMA MaxTyped ==
  ASSUME NEW n \in Nat, NEW S \in SUBSET (1..n), S # {}
  PROVE  Max(S) \in S /\ \A k \in S : k <= Max(S)
<1> DEFINE T == {n - k : k \in S}
<1>1. T \in SUBSET Nat /\ T # {}
  <2>1. \A k \in S : n - k \in Nat
    OBVIOUS
  <2>. QED  BY <2>1
<1>2. PICK d \in T : \A e \in T : d <= e
  <2> HIDE DEF T
  <2>. QED  BY <1>1, LeastNatural
<1>3. PICK m \in S : d = n - m
  BY <1>2
<1>4. ASSUME NEW k \in S
      PROVE  k <= m
  <2>1. n - m <= n - k
    BY <1>2, <1>3
  <2>. QED  BY <2>1
<1>5. S \in SUBSET Nat
  OBVIOUS
<1>6. Max(S) = m
  BY <1>4, <1>5, MaxGreatest
<1>. QED  BY <1>4, <1>6

\* A selection that goes through the hints with the numbers in a set, in order.
SelectsInOrder(parent, hints, n, m) ==
  \A s \in SUBSET (1..n) :
    m[s] = IF s = {} THEN NoHint ELSE MergeClaim(parent, m[s \ {Max(s)}], hints[Max(s)])

\* The fold exists: it selects one hint after the other, in their order.
LEMMA MergedStep ==
  ASSUME NEW parent, NEW n \in Nat, NEW hints
  PROVE  SelectsInOrder(parent, hints, n, Merged(parent, hints, n))
<1> DEFINE H == {hints[i] : i \in 1..n} \cup {NoHint, UnclassifiedHint}
           Subsets == SUBSET (1..n)
           Stages  == [Subsets -> H]
           none    == [s \in Subsets |-> NoHint]
           More(k, g) == [s \in Subsets |->
                            IF k + 1 \in s THEN MergeClaim(parent, g[s \ {k + 1}], hints[k + 1])
                            ELSE g[s]]
           F == [m \in Nat \X Stages |-> More(m[1], m[2])]
<1>0. /\ NoHint \in H /\ UnclassifiedHint \in H
      /\ \A i \in 1..n : hints[i] \in H
  OBVIOUS
<1> HIDE DEF H
<1>1. none \in Stages
  BY <1>0
<1>2. ASSUME NEW k \in Nat, NEW g \in Stages
      PROVE  More(k, g) \in Stages
  <2>1. ASSUME NEW s \in Subsets, k + 1 \in s
        PROVE  MergeClaim(parent, g[s \ {k + 1}], hints[k + 1]) \in H
    <3>1. g[s \ {k + 1}] \in H /\ hints[k + 1] \in H
      BY <1>0, <2>1
    <3>. QED  BY <1>0, <3>1, MergeClaimTyped
  <2>. QED  BY <2>1
<1>3. F \in [Nat \X Stages -> Stages] /\ \A k \in Nat, g \in Stages : F[<<k, g>>] = More(k, g)
  <2> HIDE DEF More, Stages
  <2>1. ASSUME NEW m \in Nat \X Stages
        PROVE  More(m[1], m[2]) \in Stages
    BY <1>2
  <2>2. ASSUME NEW k \in Nat, NEW g \in Stages
        PROVE  F[<<k, g>>] = More(k, g)
    <3>1. <<k, g>> \in Nat \X Stages /\ <<k, g>>[1] = k /\ <<k, g>>[2] = g
      OBVIOUS
    <3>. QED  BY <3>1
  <2>. QED  BY <2>1, <2>2
<1>4. PICK f : f \in [Nat -> Stages] /\ f[0] = none /\ \A k \in Nat : f[k + 1] = More(k, f[k])
  <2> HIDE DEF More, Stages, F, none
  <2>1. PICK f : Follows(f, Stages, F, none)
    BY <1>1, <1>3, Recursion
  <2>2. f \in [Nat -> Stages] /\ f[0] = none /\ \A k \in Nat : f[k + 1] = F[<<k, f[k]>>]
    BY <2>1 DEF Follows
  <2>. QED  BY <1>3, <2>2
<1> HIDE DEF F
<1> HIDE DEF More
<1>4a. \A k \in Nat, s \in Subsets :
         f[k + 1][s] = IF k + 1 \in s THEN MergeClaim(parent, f[k][s \ {k + 1}], hints[k + 1])
                       ELSE f[k][s]
  <2>1. ASSUME NEW k \in Nat, NEW s \in Subsets
        PROVE  f[k + 1][s] = IF k + 1 \in s
                             THEN MergeClaim(parent, f[k][s \ {k + 1}], hints[k + 1])
                             ELSE f[k][s]
    <3>1. f[k + 1] = More(k, f[k])
      BY <1>4
    <3> DEFINE g == f[k]
    <3>2. f[k + 1] = More(k, g)
      BY <3>1
    <3> HIDE DEF g
    <3>3. f[k + 1][s] = IF k + 1 \in s THEN MergeClaim(parent, g[s \ {k + 1}], hints[k + 1])
                        ELSE g[s]
      BY <3>2 DEF More
    <3>. QED  BY <3>3 DEF g
  <2>. QED  BY <2>1
<1>5. ASSUME NEW k \in Nat, NEW s \in Subsets, s \subseteq 1..k
      PROVE  \A j \in Nat : k <= j => f[j][s] = f[k][s]
  <2> DEFINE T == {j \in Nat : f[k + j][s] = f[k][s]}
  <2>1. 0 \in T
    OBVIOUS
  <2>2. ASSUME NEW j \in T
        PROVE  j + 1 \in T
    <3>1. k + j \in Nat /\ k + (j + 1) = (k + j) + 1 /\ f[k + j][s] = f[k][s]
      OBVIOUS
    <3>2. (k + j) + 1 \notin s
      BY <1>5
    <3>3. f[(k + j) + 1][s] = f[k + j][s]
      BY <1>4a, <3>1, <3>2
    <3>. QED  BY <3>1, <3>3
  <2> HIDE DEF T
  <2>3. T \in SUBSET Nat
    BY DEF T
  <2>4. T = Nat
    BY <2>1, <2>2, <2>3, Induction
  <2>5. ASSUME NEW j \in Nat, k <= j
        PROVE  f[j][s] = f[k][s]
    <3>1. j - k \in Nat /\ k + (j - k) = j
      BY <2>5
    <3>. QED  BY <2>4, <3>1 DEF T
  <2>. QED  BY <2>5
<1> DEFINE full == f[n]
<1>6. full \in Stages
  BY <1>4
<1>7. ASSUME NEW s \in Subsets
      PROVE  full[s] = IF s = {} THEN NoHint
                       ELSE MergeClaim(parent, full[s \ {Max(s)}], hints[Max(s)])
  <2>1. CASE s = {}
    <3>1. f[n][s] = f[0][s]
      BY <1>5, <2>1
    <3>. QED  BY <1>4, <2>1, <3>1
  <2>2. CASE s # {}
    <3> DEFINE m == Max(s)
    <3>1. m \in s /\ \A k \in s : k <= m
      BY <2>2, MaxTyped
    <3> HIDE DEF m
    <3>2. m \in Nat /\ m - 1 \in Nat /\ (m - 1) + 1 = m /\ m <= n /\ m - 1 <= n
      BY <3>1
    <3>3. s \subseteq 1..m /\ s \ {m} \subseteq 1..(m - 1) /\ s \ {m} \in Subsets
      BY <3>1, <3>2
    <3>4. full[s] = f[m][s] /\ full[s \ {m}] = f[m - 1][s \ {m}]
      BY <1>5, <3>2, <3>3
    <3>5. f[m][s] = MergeClaim(parent, f[m - 1][s \ {m}], hints[m])
      <4> DEFINE k == m - 1
      <4>1. k \in Nat /\ k + 1 = m
        BY <3>2
      <4> HIDE DEF k
      <4>2. f[k + 1][s] = MergeClaim(parent, f[k][s \ {k + 1}], hints[k + 1])
        BY <1>4a, <3>1, <4>1
      <4>3. f[m][s] = MergeClaim(parent, f[k][s \ {m}], hints[m])
        BY <4>1, <4>2
      <4>. QED  BY <4>3 DEF k
    <3>. QED  BY <2>2, <3>4, <3>5 DEF m
  <2>. QED  BY <2>1, <2>2
<1>8. full = [s \in Subsets |-> IF s = {} THEN NoHint
                                ELSE MergeClaim(parent, full[s \ {Max(s)}], hints[Max(s)])]
  <2> HIDE DEF full
  <2>. QED  BY <1>6, <1>7
<1> HIDE DEF full
<1> DEFINE iter[s \in SUBSET (1..n)] ==
             IF s = {} THEN NoHint
             ELSE LET x == Max(s)
                  IN  MergeClaim(parent, iter[s \ {x}], hints[x])
<1>9. iter = [s \in SUBSET (1..n) |-> IF s = {} THEN NoHint
                                ELSE MergeClaim(parent, iter[s \ {Max(s)}], hints[Max(s)])]
  BY <1>8 DEF iter
<1>10. Merged(parent, hints, n) = iter
  BY DEF Merged, iter
<1> HIDE DEF iter
<1>11. SelectsInOrder(parent, hints, n, iter)
  BY <1>9 DEF SelectsInOrder
<1>. QED  BY <1>10, <1>11

\* merge_claims is that fold.
LEMMA MergeClaimsMerged ==
  ASSUME NEW parent, NEW n \in Nat, NEW hints, DOMAIN hints = 1..n
  PROVE  MergeClaims(parent, hints) = Merged(parent, hints, n)[1..n]
BY DEF MergeClaims, FoldLeft, MapThenFoldSet, Merged

\* What is selected after each hint of a sequence.
Selects(parent, n, hints, g) ==
  /\ g[0] = NoHint
  /\ \A k \in 0..(n - 1) : g[k + 1] = MergeClaim(parent, g[k], hints[k + 1])
  /\ MergeClaims(parent, hints) = g[n]

\* Hint by hint.
LEMMA MergeClaimsSteps ==
  ASSUME NEW parent, NEW n \in Nat, NEW hints, DOMAIN hints = 1..n
  PROVE  \E g : Selects(parent, n, hints, g)
<1> DEFINE m == Merged(parent, hints, n)
           g == [k \in 0..n |-> m[1..k]]
<1>0. SelectsInOrder(parent, hints, n, m)
  BY MergedStep
<1> HIDE DEF m
<1>1. \A s \in SUBSET (1..n) :
        m[s] = IF s = {} THEN NoHint ELSE MergeClaim(parent, m[s \ {Max(s)}], hints[Max(s)])
  BY <1>0 DEF SelectsInOrder
<1>2. g[0] = NoHint
  <2>1. 1..0 = {} /\ 1..0 \in SUBSET (1..n) /\ 0 \in 0..n
    OBVIOUS
  <2>. QED  BY <1>1, <2>1
<1>3. ASSUME NEW k \in 0..(n - 1)
      PROVE  g[k + 1] = MergeClaim(parent, g[k], hints[k + 1])
  <2>1. k \in 0..n /\ k + 1 \in 0..n /\ 1..(k + 1) \in SUBSET (1..n) /\ k + 1 \in 1..(k + 1)
        /\ (1..(k + 1)) \ {k + 1} = 1..k
    OBVIOUS
  <2>2. Max(1..(k + 1)) = k + 1
    <3>1. 1..(k + 1) \in SUBSET Nat /\ \A j \in 1..(k + 1) : j <= k + 1
      OBVIOUS
    <3>. QED  BY <2>1, <3>1, MaxGreatest
  <2>3. m[1..(k + 1)] = MergeClaim(parent, m[1..k], hints[k + 1])
    BY <1>1, <2>1, <2>2
  <2>. QED  BY <2>1, <2>3
<1>4. MergeClaims(parent, hints) = g[n]
  <2>1. n \in 0..n
    OBVIOUS
  <2>. QED  BY <2>1, MergeClaimsMerged DEF m
<1> HIDE DEF g
<1>. QED  BY <1>2, <1>3, <1>4 DEF Selects

--------------------------------------------------------------------------------
(* Evidence is merged into the class that it names.                        *)

\* A sequence of hints and the sets of classes that they stand for.
NamedBy(parent, n, hints, sets) ==
  /\ DOMAIN hints = 1..n
  /\ sets \in [1..n -> (SUBSET Profiles) \ {{}}]
  /\ \A i \in 1..n : hints[i] = Named(parent, sets[i])

\* Merging what sets of classes name, in any order, gives what they name together.
LEMMA MergeSets ==
  ASSUME NEW parent \in ClassGraphs, NEW n \in Nat \ {0}, NEW hints, NEW sets,
         NamedBy(parent, n, hints, sets)
  PROVE  MergeClaims(parent, hints) = Named(parent, UNION {sets[i] : i \in 1..n})
<1>0. /\ DOMAIN hints = 1..n
      /\ sets \in [1..n -> (SUBSET Profiles) \ {{}}]
      /\ \A i \in 1..n : hints[i] = Named(parent, sets[i])
  BY DEF NamedBy
<1> DEFINE Upto(k) == UNION {sets[i] : i \in 1..k}
<1>a. PICK g : Selects(parent, n, hints, g)
  BY <1>0, MergeClaimsSteps
<1>1. /\ g[0] = NoHint
      /\ \A k \in 0..(n - 1) : g[k + 1] = MergeClaim(parent, g[k], hints[k + 1])
      /\ MergeClaims(parent, hints) = g[n]
  BY <1>a DEF Selects
<1> DEFINE T == {k \in Nat : k < n => g[k + 1] = Named(parent, Upto(k + 1))}
<1>2. 0 \in T
  <2>1. g[1] = MergeClaim(parent, NoHint, hints[1])
    <3>1. 0 \in 0..(n - 1) /\ 0 + 1 = 1
      OBVIOUS
    <3>. QED  BY <1>1, <3>1
  <2>2. MergeClaim(parent, NoHint, hints[1]) = hints[1]
    BY HintsApart DEF MergeClaim
  <2>3. Upto(1) = sets[1] /\ hints[1] = Named(parent, sets[1])
    <3>1. 1..1 = {1} /\ 1 \in 1..n
      OBVIOUS
    <3>. QED  BY <1>0, <3>1
  <2>4. 0 + 1 = 1
    OBVIOUS
  <2> HIDE DEF Upto
  <2>. QED  BY <2>1, <2>2, <2>3, <2>4
<1>3. ASSUME NEW k \in T
      PROVE  k + 1 \in T
  <2>1. SUFFICES ASSUME k + 1 < n
        PROVE  g[(k + 1) + 1] = Named(parent, Upto((k + 1) + 1))
    <3> HIDE DEF Upto
    <3>. QED  OBVIOUS
  <2> DEFINE m == k + 1
  <2>2. m \in 0..(n - 1) /\ m \in Nat \ {0} /\ m + 1 \in 1..n
    BY <2>1
  <2>3. g[m] = Named(parent, Upto(m))
    <3>1. k < n
      BY <2>1
    <3> HIDE DEF Upto
    <3>. QED  BY <3>1
  <2>4. g[m + 1] = MergeClaim(parent, g[m], hints[m + 1])
    BY <1>1, <2>2
  <2>5. hints[m + 1] = Named(parent, sets[m + 1])
    BY <1>0, <2>2
  <2> HIDE DEF m
  <2>6. Upto(m) \in SUBSET Profiles /\ Upto(m) # {}
    <3>1. 1 \in 1..m /\ \A i \in 1..m : i \in 1..n
      BY <2>2
    <3>2. sets[1] # {} /\ \A i \in 1..m : sets[i] \in SUBSET Profiles
      BY <1>0, <3>1
    <3>3. sets[1] \in {sets[i] : i \in 1..m}
      BY <3>1
    <3>. QED  BY <3>2, <3>3
  <2>7. sets[m + 1] \in SUBSET Profiles /\ sets[m + 1] # {}
    BY <1>0, <2>2
  <2>8. Upto(m + 1) = Upto(m) \cup sets[m + 1]
    <3>1. 1..(m + 1) = (1..m) \cup {m + 1}
      BY <2>2
    <3>. QED  BY <3>1
  <2> HIDE DEF Upto
  <2>9. g[m + 1] = Named(parent, Upto(m + 1))
    BY <2>3, <2>4, <2>5, <2>6, <2>7, <2>8, MergeNamed
  <2>. QED  BY <2>9 DEF m
<1>4. T = Nat
  <2> HIDE DEF T
  <2>1. T \in SUBSET Nat
    BY DEF T
  <2>. QED  BY <1>2, <1>3, <2>1, Induction
<1>5. n - 1 \in Nat /\ n - 1 < n /\ (n - 1) + 1 = n
  OBVIOUS
<1>6. g[n] = Named(parent, Upto(n))
  <2>1. n - 1 \in T
    <3> HIDE DEF T
    <3>. QED  BY <1>4, <1>5
  <2> HIDE DEF Upto
  <2>. QED  BY <1>5, <2>1
<1>. QED  BY <1>1, <1>6

\* What some claims of one observation, in their order, are merged into.
LEMMA MergeDirect ==
  ASSUME NEW parent \in ClassGraphs, NEW n \in Nat \ {0}, NEW classes \in [1..n -> Profiles]
  PROVE  MergeClaims(parent, Direct(parent, classes))
           = Named(parent, {classes[i] : i \in 1..n})
<1> DEFINE sets  == [i \in 1..n |-> {classes[i]}]
           hints == Direct(parent, classes)
<1>1. sets \in [1..n -> (SUBSET Profiles) \ {{}}]
  OBVIOUS
<1>2. DOMAIN hints = 1..n
  BY DEF Direct
<1>3. ASSUME NEW i \in 1..n
      PROVE  hints[i] = Named(parent, sets[i])
  <2>1. parent \in Parents /\ classes[i] \in Profiles
    BY DEF ClassGraphs
  <2>2. Deepest(parent, {classes[i]}, classes[i])
    BY <2>1, UpwardShape DEF Deepest
  <2>3. Named(parent, {classes[i]}) = DirectHint(parent, classes[i])
    BY <2>1, <2>2, NamedDeepest
  <2>. QED  BY <2>3 DEF Direct
<1>4. UNION {sets[i] : i \in 1..n} = {classes[i] : i \in 1..n}
  OBVIOUS
<1> HIDE DEF sets, hints
<1>5. NamedBy(parent, n, hints, sets)
  BY <1>1, <1>2, <1>3 DEF NamedBy
<1>6. MergeClaims(parent, hints) = Named(parent, UNION {sets[i] : i \in 1..n})
  BY <1>5, MergeSets
<1>. QED  BY <1>4, <1>6 DEF hints

\* Merged observations give what all their classes name.
LEMMA MergeObserved ==
  ASSUME NEW parent \in ClassGraphs, NEW m \in Nat \ {0}, NEW observations, NEW sets,
         NamedBy(parent, m, [j \in DOMAIN observations |->
                               MergeClaims(parent, Direct(parent, observations[j]))], sets)
  PROVE  MergeObservations(parent, observations) = Named(parent, UNION {sets[j] : j \in 1..m})
BY MergeSets DEF MergeObservations

\* What is claimed in some observations, each of which claims something.
Claiming == UNION {[1..n -> Profiles] : n \in Nat \ {0}}
Claimed(observation) == {observation[i] : i \in DOMAIN observation}

\* The merge of the daemon gives the class that all claims together name: for
\* any number of observations and claims, in any order and grouping.
THEOREM ObservationsMerged ==
  ASSUME NEW parent \in ClassGraphs, NEW m \in Nat \ {0}, NEW observations \in [1..m -> Claiming]
  PROVE  MergeObservations(parent, observations)
           = Named(parent, UNION {Claimed(observations[j]) : j \in 1..m})
<1> DEFINE sets  == [j \in 1..m |-> Claimed(observations[j])]
           hints == [j \in DOMAIN observations |->
                       MergeClaims(parent, Direct(parent, observations[j]))]
<1>1. ASSUME NEW j \in 1..m
      PROVE  /\ Claimed(observations[j]) \in (SUBSET Profiles) \ {{}}
             /\ MergeClaims(parent, Direct(parent, observations[j]))
                  = Named(parent, Claimed(observations[j]))
  <2>1. PICK n \in Nat \ {0} : observations[j] \in [1..n -> Profiles]
    BY DEF Claiming
  <2> DEFINE classes == observations[j]
  <2>2. classes \in [1..n -> Profiles] /\ DOMAIN classes = 1..n
    BY <2>1
  <2> HIDE DEF classes
  <2>3. MergeClaims(parent, Direct(parent, classes)) = Named(parent, {classes[i] : i \in 1..n})
    BY <2>2, MergeDirect
  <2>4. Claimed(classes) = {classes[i] : i \in 1..n}
    BY <2>2 DEF Claimed
  <2>5. Claimed(classes) \in SUBSET Profiles /\ Claimed(classes) # {}
    <3>1. 1 \in 1..n
      OBVIOUS
    <3>. QED  BY <2>2, <2>4, <3>1
  <2>. QED  BY <2>3, <2>4, <2>5 DEF classes
<1>2. sets \in [1..m -> (SUBSET Profiles) \ {{}}]
  BY <1>1
<1>3. DOMAIN hints = 1..m /\ \A j \in 1..m : hints[j] = Named(parent, sets[j])
  BY <1>1
<1>4. UNION {sets[j] : j \in 1..m} = UNION {Claimed(observations[j]) : j \in 1..m}
  OBVIOUS
<1>5. NamedBy(parent, m, hints, sets)
  <2> HIDE DEF hints, sets
  <2>. QED  BY <1>2, <1>3 DEF NamedBy
<1> HIDE DEF sets
<1>6. MergeObservations(parent, observations) = Named(parent, UNION {sets[j] : j \in 1..m})
  BY <1>5, MergeObserved
<1> HIDE DEF hints
<1>. QED  BY <1>4, <1>6

\* No evidence, cut anywhere, is merged into another class than it names.
LEMMA NothingMisnamed == Misnamed = {}
<1> SUFFICES ASSUME NEW parent \in ClassGraphs, NEW classes \in Evidence
             PROVE  ~MergedOtherwise(parent, classes)
  BY DEF Misnamed
<1>1. PICK N \in 1..MaxEvidence : classes \in [1..N -> Profiles]
  BY DEF Evidence
<1>2. N \in Nat \ {0} /\ Len(classes) = N /\ DOMAIN classes = 1..N
  BY <1>1, ClassGraphAssumption
<1>3. SUFFICES ASSUME NEW n \in 1..N
               PROVE  LET first == SubSeq(classes, 1, n)
                          rest  == SubSeq(classes, n + 1, N)
                      IN  MergeObservations(parent, IF rest = <<>> THEN <<first>>
                                                    ELSE <<first, rest>>)
                            = Named(parent, {classes[i] : i \in 1..N})
  BY <1>2 DEF MergedOtherwise
<1> DEFINE first == SubSeq(classes, 1, n)
           rest  == SubSeq(classes, n + 1, N)
           A == {first[i] : i \in 1..n}
           B == {rest[i] : i \in 1..(N - n)}
<1>4. first \in [1..n -> Profiles] /\ \A i \in 1..n : first[i] = classes[i]
  <2>1. \A i \in 1..n : classes[i] \in Profiles
    BY <1>1, <1>2
  <2>2. first \in Seq(Profiles) /\ Len(first) = n /\ \A i \in 1..n : first[i] = classes[i]
    <3>1. 1 \in Int /\ n \in Int /\ 1 <= n /\ n - 1 + 1 = n /\ \A i \in 1..n : 1 + i - 1 = i
      OBVIOUS
    <3>. QED  BY <2>1, <3>1, SubSeqProperties
  <2>. QED  BY <2>2, LenProperties
<1>5. rest \in [1..(N - n) -> Profiles] /\ \A i \in 1..(N - n) : rest[i] = classes[n + i]
  <2>1. \A i \in (n + 1)..N : classes[i] \in Profiles
    BY <1>1, <1>2
  <2>2. /\ n + 1 \in Int /\ N \in Int /\ N - (n + 1) + 1 = N - n
        /\ \A i \in 1..(N - n) : (n + 1) + i - 1 = n + i
        /\ (IF n + 1 <= N THEN N - (n + 1) + 1 ELSE 0) = N - n
    BY <1>2
  <2>3. /\ rest \in Seq(Profiles)
        /\ Len(rest) = (IF n + 1 <= N THEN N - (n + 1) + 1 ELSE 0)
        /\ \A i \in 1..(N - (n + 1) + 1) : rest[i] = classes[(n + 1) + i - 1]
    BY <2>1, <2>2, SubSeqProperties
  <2>. QED  BY <2>2, <2>3, LenProperties
<1>6. A \in (SUBSET Profiles) \ {{}}
  <2>1. 1 \in 1..n
    OBVIOUS
  <2> HIDE DEF first
  <2>. QED  BY <1>4, <2>1
<1> HIDE DEF first, rest
<1>7. MergeClaims(parent, Direct(parent, first)) = Named(parent, A)
  BY <1>4, MergeDirect
<1>8. CASE n = N
  <2>1. rest = <<>>
    BY <1>2, <1>5, <1>8
  <2> DEFINE observations == <<first>>
             sets == [j \in 1..1 |-> A]
  <2>2. DOMAIN observations = 1..1 /\ observations[1] = first /\ 1..1 = {1} /\ sets[1] = A
    OBVIOUS
  <2>3. sets \in [1..1 -> (SUBSET Profiles) \ {{}}] /\ UNION {sets[j] : j \in 1..1} = A
    BY <1>6, <2>2
  <2>4. A = {classes[i] : i \in 1..N}
    BY <1>4, <1>8
  <2> HIDE DEF observations, sets, A
  <2>5. MergeObservations(parent, observations) = Named(parent, UNION {sets[j] : j \in 1..1})
    <3> DEFINE hints == [j \in DOMAIN observations |->
                           MergeClaims(parent, Direct(parent, observations[j]))]
    <3>1. DOMAIN hints = 1..1 /\ \A j \in 1..1 : hints[j] = Named(parent, sets[j])
      BY <1>7, <2>2
    <3>2. NamedBy(parent, 1, hints, sets)
      <4> HIDE DEF hints
      <4>. QED  BY <2>3, <3>1 DEF NamedBy
    <3>3. 1 \in Nat \ {0}
      OBVIOUS
    <3>. QED  BY <3>2, <3>3, MergeObserved
  <2>. QED  BY <2>1, <2>3, <2>4, <2>5 DEF observations, first, rest
<1>9. CASE n # N
  <2>1. N - n \in Nat \ {0}
    BY <1>2, <1>9
  <2>2. rest # <<>> /\ B \in (SUBSET Profiles) \ {{}}
    <3>1. 1 \in 1..(N - n)
      BY <2>1
    <3>2. rest # <<>>
      BY <1>5, <3>1
    <3>3. B \in SUBSET Profiles /\ rest[1] \in B
      BY <1>5, <3>1
    <3>. QED  BY <3>2, <3>3
  <2>3. MergeClaims(parent, Direct(parent, rest)) = Named(parent, B)
    BY <1>5, <2>1, MergeDirect
  <2> DEFINE observations == <<first, rest>>
             sets == [j \in 1..2 |-> IF j = 1 THEN A ELSE B]
  <2>4. DOMAIN observations = 1..2 /\ observations[1] = first /\ observations[2] = rest
        /\ 1..2 = {1, 2} /\ sets[1] = A /\ sets[2] = B
    OBVIOUS
  <2>5. A \cup B = {classes[i] : i \in 1..N}
    <3>1. A \cup B \subseteq {classes[i] : i \in 1..N}
      <4>1. \A i \in 1..n : i \in 1..N
        BY <1>2
      <4>2. \A i \in 1..(N - n) : n + i \in 1..N
        BY <1>2
      <4>. QED  BY <1>4, <1>5, <4>1, <4>2
    <3>2. ASSUME NEW i \in 1..N
          PROVE  classes[i] \in A \cup B
      <4>1. CASE i <= n
        <5>1. i \in 1..n
          BY <4>1
        <5>. QED  BY <1>4, <5>1
      <4>2. CASE ~(i <= n)
        <5>1. i - n \in 1..(N - n) /\ n + (i - n) = i
          BY <1>2, <4>2
        <5>2. rest[i - n] = classes[i]
          BY <1>5, <5>1
        <5>. QED  BY <5>1, <5>2
      <4>. QED  BY <4>1, <4>2
    <3>. QED  BY <3>1, <3>2
  <2> HIDE DEF A, B
  <2>6. sets \in [1..2 -> (SUBSET Profiles) \ {{}}] /\ UNION {sets[j] : j \in 1..2} = A \cup B
    BY <1>6, <2>2, <2>4
  <2> HIDE DEF observations, sets
  <2>7. MergeObservations(parent, observations) = Named(parent, UNION {sets[j] : j \in 1..2})
    <3> DEFINE hints == [j \in DOMAIN observations |->
                           MergeClaims(parent, Direct(parent, observations[j]))]
    <3>1. DOMAIN hints = 1..2 /\ \A j \in 1..2 : hints[j] = Named(parent, sets[j])
      BY <1>7, <2>3, <2>4
    <3>2. NamedBy(parent, 2, hints, sets)
      <4> HIDE DEF hints
      <4>. QED  BY <2>6, <3>1 DEF NamedBy
    <3>3. 2 \in Nat \ {0}
      OBVIOUS
    <3>. QED  BY <3>2, <3>3, MergeObserved
  <2>. QED  BY <2>2, <2>5, <2>6, <2>7 DEF observations, first, rest
<1>. QED  BY <1>8, <1>9

--------------------------------------------------------------------------------
(* Where the TC program's merge agrees with the daemon's.                  *)

\* The parent is above its class, and where no category is in another, nothing
\* else is.
LEMMA UpwardParent ==
  ASSUME NEW parent \in Parents, NEW c \in Profiles
  PROVE  /\ parent[c] # NoClass => parent[c] \in Upward(parent, c)
         /\ ~Nested(parent) => Upward(parent, c) \subseteq {c, parent[c]}
<1> DEFINE w == Walk(parent, c)
<1>1. c \in Places /\ c # NoClass
  BY PlacesApart DEF Places
<1>2. /\ w \in [Nat -> Places] /\ w[0] = c
      /\ \A n \in Nat : w[n + 1] = IF w[n] = NoClass THEN NoClass ELSE parent[w[n]]
  BY <1>1, WalkStep
<1> HIDE DEF w
<1>3. w[1] = parent[c] /\ w[2] = IF parent[c] = NoClass THEN NoClass ELSE parent[parent[c]]
  <2>1. 0 + 1 = 1 /\ 1 + 1 = 2
    OBVIOUS
  <2>2. w[1] = parent[c]
    BY <1>1, <1>2, <2>1
  <2>3. w[1 + 1] = IF w[1] = NoClass THEN NoClass ELSE parent[w[1]]
    BY <1>2
  <2>. QED  BY <2>1, <2>2, <2>3
<1>4. ASSUME parent[c] # NoClass
      PROVE  parent[c] \in Upward(parent, c)
  <2>1. 1 \in Nat
    OBVIOUS
  <2>. QED  BY <1>3, <1>4, <2>1, UpwardSteps DEF w
<1>5. ASSUME ~Nested(parent), NEW x \in Upward(parent, c)
      PROVE  x \in {c, parent[c]}
  <2>1. w[2] = NoClass
    BY <1>3, <1>5, ParentTyped DEF Nested
  <2>2. PICK n \in Nat : w[n] = x /\ x # NoClass
    BY UpwardSteps DEF w
  <2>3. n < 2
    <3>1. SUFFICES ASSUME 2 <= n
          PROVE  FALSE
      BY <2>2
    <3>2. n - 2 \in Nat /\ 2 + (n - 2) = n /\ 2 \in Nat
      BY <3>1
    <3>3. w[2 + (n - 2)] = NoClass
      BY <1>1, <2>1, <3>2, WalkEnds DEF w
    <3>. QED  BY <2>2, <3>2, <3>3
  <2>4. n = 0 \/ n = 1
    BY <2>3
  <2>. QED  BY <1>2, <1>3, <2>2, <2>4
<1>. QED  BY <1>4, <1>5

\* What a port may say: nothing, or one category.
LEMMA PortHintShape ==
  ASSUME NEW parent \in Parents, NEW port \in PortHints(parent)
  PROVE  port = NoHint \/ \E d \in Categories : port = DirectHint(parent, d)
<1>. SUFFICES ASSUME port # NoHint
             PROVE  \E d \in Categories : port = DirectHint(parent, d)
  OBVIOUS
<1>1. PICK c \in Profiles : port = PortHint(parent, c)
  BY DEF PortHints
<1>2. RuntimeCategory(parent, c) \in Categories \cup {NoClass}
  BY ParentTyped DEF RuntimeCategory
<1>. QED  BY <1>1, <1>2 DEF PortHint, DirectHint

\* The daemon's merge of one claim, and of two.
LEMMA MergeFew ==
  ASSUME NEW parent, NEW a, NEW b
  PROVE  /\ MergeClaims(parent, <<a>>) = a
         /\ MergeClaims(parent, <<a, b>>) = MergeClaim(parent, a, b)
<1>1. \A h : MergeClaim(parent, NoHint, h) = h
  BY HintsApart DEF MergeClaim
<1>2. MergeClaims(parent, <<a>>) = a
  <2>1. DOMAIN <<a>> = 1..1 /\ <<a>>[1] = a /\ 1 \in Nat
    OBVIOUS
  <2> DEFINE hints == <<a>>
  <2>2. DOMAIN hints = 1..1 /\ hints[1] = a
    BY <2>1
  <2> HIDE DEF hints
  <2>3. PICK g : Selects(parent, 1, hints, g)
    BY <2>1, <2>2, MergeClaimsSteps
  <2>4. 0 \in 0..(1 - 1) /\ 0 + 1 = 1
    OBVIOUS
  <2>5. g[1] = MergeClaim(parent, g[0], hints[1])
    BY <2>3, <2>4 DEF Selects
  <2>. QED  BY <1>1, <2>2, <2>3, <2>5 DEF Selects, hints
<1>3. MergeClaims(parent, <<a, b>>) = MergeClaim(parent, a, b)
  <2>1. DOMAIN <<a, b>> = 1..2 /\ <<a, b>>[1] = a /\ <<a, b>>[2] = b /\ 2 \in Nat
    OBVIOUS
  <2> DEFINE hints == <<a, b>>
  <2>2. DOMAIN hints = 1..2 /\ hints[1] = a /\ hints[2] = b
    BY <2>1
  <2> HIDE DEF hints
  <2>3. PICK g : Selects(parent, 2, hints, g)
    BY <2>1, <2>2, MergeClaimsSteps
  <2>4. 0 \in 0..(2 - 1) /\ 1 \in 0..(2 - 1) /\ 0 + 1 = 1 /\ 1 + 1 = 2
    OBVIOUS
  <2>5. g[1] = MergeClaim(parent, g[0], hints[1]) /\ g[2] = MergeClaim(parent, g[1], hints[2])
    BY <2>3, <2>4 DEF Selects
  <2>. QED  BY <1>1, <2>2, <2>3, <2>5 DEF Selects, hints
<1>. QED  BY <1>2, <1>3

\* A flow's address with the category of its port: the two merges agree, but
\* where categories are nested the program may take agreement for a conflict.
THEOREM MergesAgree ==
  ASSUME NEW parent \in Parents, NEW c \in Profiles, NEW d \in Categories
  PROVE  LET flow   == MergeHint(DirectHint(parent, c), DirectHint(parent, d))
             daemon == MergeClaim(parent, DirectHint(parent, c), DirectHint(parent, d))
         IN  flow = daemon \/ (Nested(parent) /\ flow = UnclassifiedHint)
<1> DEFINE a == DirectHint(parent, c)
           b == DirectHint(parent, d)
           flow   == MergeHint(a, b)
           daemon == MergeClaim(parent, a, b)
<1>1. d \in Profiles
  BY PlacesApart
<1>2. /\ a.class = c /\ b.class = d /\ b.kind = "category" /\ b.category = d
      /\ a.kind = (IF c \in Categories THEN "category" ELSE "exact")
      /\ a.category = (IF c \in Categories THEN c ELSE parent[c])
      /\ a \notin {NoHint, UnclassifiedHint} /\ b \notin {NoHint, UnclassifiedHint}
  BY <1>1, DirectHintShape
<1>3. daemon = IF d \in Upward(parent, c) THEN a
               ELSE IF c \in Upward(parent, d) THEN b ELSE UnclassifiedHint
  BY <1>1, <1>2, GeneralisesAbove DEF MergeClaim
<1> HIDE DEF a, b
<1>4. flow = IF a = b \/ (a.kind = "exact" /\ a.category = d) THEN a ELSE UnclassifiedHint
  BY <1>2 DEF MergeHint
<1>5. a = b <=> c = d
  BY <1>2 DEF a, b
<1> DEFINE Agreed == flow = daemon \/ (Nested(parent) /\ flow = UnclassifiedHint)
<1> HIDE DEF flow, daemon
<1>6. ASSUME c = d
      PROVE  Agreed
  BY <1>1, <1>3, <1>4, <1>5, <1>6, UpwardShape
<1>7. ASSUME c # d, c \in Categories
      PROVE  Agreed
  <2>1. flow = UnclassifiedHint
    BY <1>2, <1>4, <1>5, <1>7
  <2>2. ASSUME ~Nested(parent)
        PROVE  d \notin Upward(parent, c) /\ c \notin Upward(parent, d)
    <3>1. parent[c] = NoClass /\ parent[d] = NoClass
      BY <1>7, <2>2 DEF Nested
    <3>. QED  BY <1>1, <1>7, <2>2, <3>1, UpwardParent, PlacesApart
  <2>. QED  BY <1>3, <2>1, <2>2
<1>8. ASSUME c # d, c \notin Categories
      PROVE  Agreed
  <2>1. flow = IF parent[c] = d THEN a ELSE UnclassifiedHint
    BY <1>2, <1>4, <1>5, <1>8
  <2>2. parent[c] = d => d \in Upward(parent, c)
    BY <1>1, UpwardParent, PlacesApart
  <2>3. c \notin Upward(parent, d)
    BY <1>1, <1>8, UpwardShape
  <2>4. ~Nested(parent) /\ d \in Upward(parent, c) => parent[c] = d
    BY <1>8, UpwardParent
  <2>. QED  BY <1>3, <2>1, <2>2, <2>3, <2>4
<1>. QED  BY <1>6, <1>7, <1>8 DEF flow, daemon, a, b

\* One claim after another.
LEMMA PairOfClaims ==
  ASSUME NEW a, NEW b
  PROVE  <<a>> \o <<b>> = <<a, b>>
<1> DEFINE S == {a, b}
<1>1. /\ <<a>> \in Seq(S) /\ Len(<<a>>) = 1 /\ <<a>>[1] = a
      /\ <<b>> \in Seq(S) /\ Len(<<b>>) = 1 /\ <<b>>[1] = b
      /\ <<a, b>> \in Seq(S) /\ Len(<<a, b>>) = 2 /\ <<a, b>>[1] = a /\ <<a, b>>[2] = b
  OBVIOUS
<1> DEFINE s == <<a>>
           t == <<b>>
           u == <<a, b>>
<1>2. /\ s \in Seq(S) /\ Len(s) = 1 /\ s[1] = a /\ t \in Seq(S) /\ Len(t) = 1 /\ t[1] = b
      /\ u \in Seq(S) /\ Len(u) = 2 /\ u[1] = a /\ u[2] = b
  BY <1>1
<1> HIDE DEF S, s, t, u
<1>3. /\ s \o t \in Seq(S) /\ Len(s \o t) = 2
      /\ \A i \in 1..2 : (s \o t)[i] = IF i <= 1 THEN s[i] ELSE t[i - 1]
  BY <1>2, ConcatProperties
<1>4. \A i \in 1..2 : (s \o t)[i] = u[i]
  BY <1>2, <1>3
<1>5. s \o t = u
  BY <1>2, <1>3, <1>4, SeqEqual
<1>. QED  BY <1>5 DEF s, t, u

\* No class graph is misread.
LEMMA NothingMisread == Misread = {}
<1> SUFFICES ASSUME NEW parent \in ClassGraphs, NEW address \in AddressHints(parent),
                    NEW port \in PortHints(parent), Disagree(parent, address, port)
             PROVE  FALSE
  BY DEF Misread
<1> DEFINE flow   == Classify(address, port)
           claim(hint) == IF hint = NoHint THEN <<>> ELSE <<hint>>
           daemon == MergeClaims(parent, claim(address) \o claim(port))
<1>1. parent \in Parents
  BY DEF ClassGraphs
<1>2. /\ ~(address = NoHint /\ port = NoHint) /\ flow # daemon
      /\ ~(Nested(parent) /\ flow = UnclassifiedHint)
  BY DEF Disagree
<1>3. MergeHint(NoHint, address) = address
  BY HintsApart DEF MergeHint
<1>4. flow = IF MergeHint(address, port) = NoHint THEN UnclassifiedHint
             ELSE MergeHint(address, port)
  BY <1>3 DEF Classify
<1>5. CASE port = NoHint
  <2>1. flow = address
    BY <1>2, <1>4, <1>5 DEF MergeHint
  <2>2. claim(address) \o claim(port) = <<address>>
    BY <1>2, <1>5
  <2>. QED  BY <1>2, <2>1, <2>2, MergeFew
<1>6. CASE port # NoHint /\ address = NoHint
  <2>1. flow = port
    BY <1>4, <1>6, HintsApart DEF MergeHint
  <2>2. claim(address) \o claim(port) = <<port>>
    BY <1>6
  <2>. QED  BY <1>2, <2>1, <2>2, MergeFew
<1>7. CASE port # NoHint /\ address # NoHint
  <2>1. claim(address) \o claim(port) = <<address, port>>
    <3>1. claim(address) = <<address>> /\ claim(port) = <<port>>
      BY <1>7
    <3>2. <<address>> \o <<port>> = <<address, port>>
      BY PairOfClaims
    <3> HIDE DEF claim
    <3>. QED  BY <3>1, <3>2
  <2>2. daemon = MergeClaim(parent, address, port)
    <3> HIDE DEF claim
    <3>. QED  BY <2>1, MergeFew
  <2>3. PICK d \in Categories : port = DirectHint(parent, d)
    BY <1>1, <1>7, PortHintShape
  <2>4. CASE address = UnclassifiedHint
    <3>1. flow = UnclassifiedHint /\ daemon = UnclassifiedHint
      BY <1>4, <1>7, <2>2, <2>4, HintsApart DEF MergeHint, MergeClaim
    <3>. QED  BY <1>2, <3>1
  <2>5. CASE address # UnclassifiedHint
    <3>1. PICK c \in Profiles : address = DirectHint(parent, c)
      BY <1>7, <2>5 DEF AddressHints
    <3>2. \/ MergeHint(address, port) = daemon
          \/ Nested(parent) /\ MergeHint(address, port) = UnclassifiedHint
      BY <1>1, <2>2, <2>3, <3>1, MergesAgree
    <3>3. MergeHint(address, port) # NoHint
      BY <1>7, HintsApart DEF MergeHint
    <3>. QED  BY <1>2, <1>4, <3>2, <3>3
  <2>. QED  BY <2>4, <2>5
<1>. QED  BY <1>5, <1>6, <1>7
================================================================================
