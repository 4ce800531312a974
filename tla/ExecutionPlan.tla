--------------------------- MODULE ExecutionPlan ---------------------------
(***************************************************************************)
(* From acceptance criteria (ACs) to serial stages:                        *)
(* ouroboros/orchestrator/dependency_analyzer.py, DependencyAnalyzer and   *)
(* HybridExecutionPlanner.  An AC names the ACs it depends on, may ask for *)
(* a stage of its own, and may claim shared runtime resources.             *)
(***************************************************************************)
EXTENDS Integers, Sequences, FiniteSets

\* What the analysis is given of the ACs in acs, which are numbers: the
\* dependencies found in metadata or by the model, those that must run
\* alone, and the claims of each as <<resource, mode>>.
Graphs(acs, resources) ==
  [deps   : [acs -> SUBSET acs],
   serial : SUBSET acs,
   claims : [acs -> SUBSET (resources \X {"read", "write"})]]

ClaimsOn(g, r) == {c \in (DOMAIN g.claims) \X {"read", "write"} :
                     <<r, c[2]>> \in g.claims[c[1]]}
Resources(g) == {c[1] : c \in UNION {g.claims[a] : a \in DOMAIN g.claims}}

\* Two claims of which one is not a read are in conflict.
Contended(g, r) == /\ Cardinality(ClaimsOn(g, r)) >= 2
                   /\ \E c \in ClaimsOn(g, r) : c[2] # "read"

\* The claimants of a contended resource run one after the other: each
\* follows the claim before its own, which is its own other claim when it
\* has made two.
Predecessors(g, r, a) ==
  LET claimants == {c[1] : c \in ClaimsOn(g, r)}
      before == {b \in claimants : b < a}
      nearest == {b \in before : \A c \in before : c <= b}
      twice == Cardinality({c \in ClaimsOn(g, r) : c[1] = a}) > 1
  IN  IF ~ Contended(g, r) \/ a \notin claimants THEN {}
      ELSE nearest \cup (IF twice THEN {a} ELSE {})

\* depends_on.
Dependencies(g) ==
  [a \in DOMAIN g.deps |->
     (g.deps[a] \ {a}) \cup UNION {Predecessors(g, r, a) : r \in Resources(g)}]

\* The ACs ready after those in placed; all that remain when none is, as a
\* cycle leaves them.
Ready(deps, placed) ==
  LET remaining == DOMAIN deps \ placed
      free == {a \in remaining : deps[a] \subseteq placed}
  IN  IF free = {} THEN remaining ELSE free

\* Placed(deps)[k] is what the first k levels hold.
Placed(deps) ==
  LET f[k \in 0 .. Cardinality(DOMAIN deps)] ==
        IF k = 0 THEN {} ELSE f[k - 1] \cup Ready(deps, f[k - 1])
  IN  f

\* The levels of the topological walk.
ExecutionLevels(deps) ==
  LET placed == Placed(deps)
      used == {k \in DOMAIN placed \ {0} : placed[k] # placed[k - 1]}
  IN  [k \in used |-> placed[k] \ placed[k - 1]]

\* A level is one stage for the ACs that may share it, if there are any,
\* followed by one for each that may not, in order.
Split(level, serial) ==
  LET shared == level \ serial
      alone == level \cap serial
      nth(i) == CHOOSE a \in alone : Cardinality({b \in alone : b < a}) = i - 1
  IN  (IF shared = {} THEN << >> ELSE <<shared>>)
      \o [i \in 1 .. Cardinality(alone) |-> {nth(i)}]

Stages(g) ==
  LET levels == ExecutionLevels(Dependencies(g))
      upTo[k \in 0 .. Cardinality(DOMAIN levels)] ==
        IF k = 0 THEN << >> ELSE upTo[k - 1] \o Split(levels[k], g.serial)
  IN  upTo[Cardinality(DOMAIN levels)]

StageOf(stages, a) == CHOOSE i \in DOMAIN stages : a \in stages[i]

\* create_plan refuses stages that share a serialised AC, or in which an AC
\* does not come after all it depends on.
Plannable(g) ==
  LET stages == Stages(g)
      deps == Dependencies(g)
  IN  \A a \in DOMAIN deps :
        /\ a \in g.serial => Cardinality(stages[StageOf(stages, a)]) = 1
        /\ \A d \in deps[a] : StageOf(stages, d) < StageOf(stages, a)

=============================================================================
