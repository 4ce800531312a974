------------------------- MODULE MCParallelExecutor -------------------------
(***************************************************************************)
(* Three ACs under the shapes of plan there are: side by side, a chain,    *)
(* two before one, one alone in its stage, two that claim a resource, a    *)
(* cycle, and an AC that claims a resource twice; and five in three        *)
(* stages, where a stage holds a blocked AC beside one that is executed.   *)
(***************************************************************************)
EXTENDS ParallelExecutor

MCAcs == 1 .. 3
Free == [a \in MCAcs |-> {}]

Graph(deps, serial, claims) == [deps |-> deps, serial |-> serial, claims |-> claims]

MCGraphs == {Graph(Free, {}, Free),
             Graph(<<{}, {1}, {2}>>, {}, Free),
             Graph(<<{}, {}, {1, 2}>>, {}, Free),
             Graph(Free, {2}, Free),
             Graph(<<{}, {1}, {}>>, {}, <<{}, {<<"r", "read">>}, {<<"r", "write">>}>>),
             Graph(<<{2}, {1}, {}>>, {}, Free),
             Graph(Free, {}, <<{<<"r", "read">>, <<"r", "write">>}, {}, {}>>)}

\* An AC that can be blocked in a stage where another is executed, whose
\* failure may be taken for a blocked one's, and one that depends on both in
\* the stage after.
LateBlock == [graph |-> [deps |-> <<{}, {}, {1}, {2}, {3, 4}>>, serial |-> {},
                         claims |-> [a \in 1 .. 5 |-> {}]],
              satisfied |-> {2}]

MCInputs == {[graph |-> g, satisfied |-> {}] : g \in MCGraphs}
              \cup {LateBlock,
                    [graph |-> Graph(<<{}, {1}, {2}>>, {}, Free), satisfied |-> {2}],
                    [graph |-> Graph(<<{}, {1}, {}>>, {}, Free), satisfied |-> {1, 3}]}

\* The graphs of up to three ACs without a claim, and those of two with
\* claims on one resource.
PlanGraphs == {g \in Graphs(MCAcs, {}) : \A a \in MCAcs : a \notin g.deps[a]}
              \cup Graphs({1, 2}, {"r"})

\* A plan has each AC in one stage, after all it depends on, and a stage of
\* its own for an AC that asks for one; a graph has a plan just when no AC
\* depends on itself by way of others.
ASSUME PlansAreSound ==
  \A g \in PlanGraphs :
    LET plan == Stages(g)
        deps == Dependencies(g)
        acs == DOMAIN deps
        within[n \in 0 .. 3] == IF n = 0 THEN deps
                                ELSE [a \in acs |-> within[n - 1][a] \cup
                                        UNION {within[n - 1][d] : d \in within[n - 1][a]}]
    IN  /\ UNION {plan[i] : i \in DOMAIN plan} = acs
        /\ \A a \in acs : Cardinality({i \in DOMAIN plan : a \in plan[i]}) = 1
        /\ Plannable(g) <=> \A a \in acs : a \notin within[3][a]

=============================================================================
