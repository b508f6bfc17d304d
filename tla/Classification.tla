----------------------------- MODULE Classification -----------------------------
(***************************************************************************)
(* How evidence becomes a class.  The daemon compiles configured classes   *)
(* into hints, merges the hints of one key (a port, or an address that a   *)
(* prefix, several domains and several profiles may claim) and publishes   *)
(* one hint per key; the TC program merges the hint of the destination     *)
(* address with that of the destination port.  Everything here is a        *)
(* function of its arguments; there is no state.                           *)
(***************************************************************************)
EXTENDS Integers, FiniteSets, Sequences, SequencesExt

CONSTANTS
  Categories,    \* configured classes of kind category
  Applications,  \* configured classes of kind application
  NoClass,       \* no parent, no category
  MaxEvidence    \* bound: claims that meet at one address

ASSUME ClassGraphAssumption ==
  /\ Categories \cap Applications = {}
  /\ NoClass \notin Categories \cup Applications
  /\ IsFiniteSet(Categories \cup Applications)
  /\ MaxEvidence \in Nat

Profiles == Categories \cup Applications
Parents  == [Profiles -> Categories \cup {NoClass}]

\* A class and the classes above it; the walk ends after every class was seen.
Upward(parent, c) ==
  LET up[n \in Nat] ==
        IF n = 0 THEN c
        ELSE IF up[n - 1] = NoClass THEN NoClass ELSE parent[up[n - 1]]
  IN  {up[n] : n \in 0..Cardinality(Profiles)} \ {NoClass}

\* What compile_profiles accepts: parents are categories, without a cycle.
ClassGraphs == {p \in Parents : \A c \in Profiles : c \notin Upward(p, p[c])}

CategoryIsAncestor(parent, category, c) ==
  category \in Categories \cap Upward(parent, c)

RuntimeCategory(parent, c) == IF c \in Categories THEN c ELSE parent[c]

--------------------------------------------------------------------------------
(* Hints, and the daemon's merge.                                          *)

Hint(kind, c, category) == [kind |-> kind, class |-> c, category |-> category]
NoHint           == Hint("none", NoClass, NoClass)
UnclassifiedHint == Hint("unclassified", NoClass, NoClass)
CategoryHint(c)  == Hint("category", c, c)

\* hint_for_class: prefixes and domains name the class, ports only its category.
DirectHint(parent, c) ==
  IF c \in Categories THEN CategoryHint(c)
  ELSE Hint("exact", c, RuntimeCategory(parent, c))
PortHint(parent, c) ==
  IF RuntimeCategory(parent, c) = NoClass THEN NoHint
  ELSE CategoryHint(RuntimeCategory(parent, c))

\* One more claim: it repeats or generalises what is selected, or refines it.
Generalises(parent, hint, selected) ==
  \/ hint.kind = selected.kind /\ hint.class = selected.class
  \/ hint.kind = "category" /\ CategoryIsAncestor(parent, hint.class, selected.class)
MergeClaimInOrder(parent, selected, hint) ==
  IF UnclassifiedHint \in {selected, hint}           THEN UnclassifiedHint
  ELSE IF selected = NoHint                          THEN hint
  ELSE IF Generalises(parent, hint, selected)        THEN selected
  ELSE UnclassifiedHint
MergeClaim(parent, selected, hint) ==
  IF UnclassifiedHint \in {selected, hint}           THEN UnclassifiedHint
  ELSE IF selected = NoHint                          THEN hint
  ELSE IF Generalises(parent, hint, selected)        THEN selected
  ELSE IF Generalises(parent, selected, hint)        THEN hint
  ELSE UnclassifiedHint

MergeClaims(parent, hints) ==
  FoldLeft(LAMBDA s, h : MergeClaim(parent, s, h), NoHint, hints)

Direct(parent, classes) == [i \in DOMAIN classes |-> DirectHint(parent, classes[i])]

\* resolve: what several observations say of one address, each merged first.
MergeObservations(parent, observations) ==
  MergeClaims(parent, [i \in DOMAIN observations |->
                         MergeClaims(parent, Direct(parent, observations[i]))])

--------------------------------------------------------------------------------
(* The TC program's merge.                                                 *)

\* ca_merge_hint; a conflict is final.
MergeHintAnyCategory(result, candidate) ==
  IF candidate = NoHint \/ result = UnclassifiedHint THEN result
  ELSE IF candidate = UnclassifiedHint               THEN UnclassifiedHint
  ELSE IF result = NoHint                            THEN candidate
  ELSE IF result = candidate                         THEN result
  ELSE IF result.kind = "exact" /\ candidate.kind = "category" THEN result
  ELSE UnclassifiedHint
MergeHint(result, candidate) ==
  IF candidate = NoHint \/ result = UnclassifiedHint THEN result
  ELSE IF candidate = UnclassifiedHint               THEN UnclassifiedHint
  ELSE IF result = NoHint                            THEN candidate
  ELSE IF result = candidate                         THEN result
  ELSE IF /\ result.kind = "exact" /\ candidate.kind = "category"
          /\ result.category = candidate.class       THEN result
  ELSE IF /\ result.kind = "category" /\ candidate.kind = "exact"
          /\ candidate.category = result.class       THEN candidate
  ELSE UnclassifiedHint

\* ca_classify: the destination address first, then the destination port.
Classify(address, port) ==
  LET merged == MergeHint(MergeHint(NoHint, address), port)
  IN  IF merged = NoHint THEN UnclassifiedHint ELSE merged

--------------------------------------------------------------------------------
(* What goes wrong: class trees that no state may have.                    *)

Evidence == UNION {[1..n -> Profiles] : n \in 1..MaxEvidence}

\* The class that evidence names: the one which all the others are categories
\* of, if there is one.
Named(parent, classes) ==
  LET deepest == {d \in classes : \A c \in classes \ {d} :
                                    CategoryIsAncestor(parent, c, d)}
  IN  IF deepest = {} THEN UnclassifiedHint
      ELSE DirectHint(parent, CHOOSE d \in deepest : TRUE)

\* Evidence, cut into what one observation says and what the next one says,
\* that is not merged into the class it names.
MergedOtherwise(parent, classes) ==
  \E n \in 1..Len(classes) :
    LET first == SubSeq(classes, 1, n)
        rest  == SubSeq(classes, n + 1, Len(classes))
    IN  MergeObservations(parent, IF rest = <<>> THEN <<first>> ELSE <<first, rest>>)
          # Named(parent, {classes[i] : i \in DOMAIN classes})
Misnamed == {e[1] : e \in {x \in ClassGraphs \X Evidence : MergedOtherwise(x[1], x[2])}}

\* What a key may hold: a prefix any merged evidence, a port only evidence
\* that agrees (compile_profiles rejects a static conflict).
AddressHints(parent) ==
  {NoHint, UnclassifiedHint} \cup {DirectHint(parent, c) : c \in Profiles}
PortHints(parent) == {NoHint} \cup {PortHint(parent, c) : c \in Profiles}
Nested(parent) == \E c \in Categories : parent[c] # NoClass

\* The class graphs by which the program gives some flow another class than the
\* daemon gives the same evidence; unclassified is not another class where
\* categories are nested.
Disagree(parent, address, port) ==
  LET flow   == Classify(address, port)
      claim(hint) == IF hint = NoHint THEN <<>> ELSE <<hint>>
      daemon == MergeClaims(parent, claim(address) \o claim(port))
  IN  /\ {address, port} # {NoHint}
      /\ flow # daemon
      /\ Nested(parent) => flow # UnclassifiedHint
Misread == UNION {{m[1] : m \in {x \in {parent} \X AddressHints(parent) \X PortHints(parent) :
                                   Disagree(x[1], x[2], x[3])}} : parent \in ClassGraphs}
================================================================================
