----------------------- MODULE MCRuntimeScaffoldGate -----------------------
(***************************************************************************)
(* Every run of up to three chunks, at each depth from none to one more    *)
(* than the loop uses, with every iteration limit up to one that no run    *)
(* reaches.  The built-in benchmarks ask for no validation call or for     *)
(* one; two are there to exercise the counting.  The answers have up to    *)
(* two claims and one citation, or two citations.                          *)
(***************************************************************************)
EXTENDS RuntimeScaffoldGate

MCConfigs == [chunks : 1 .. 3, maxDepth : 0 .. 3, maxIterations : 1 .. 8,
              nested : 0 .. 2, dryRun : BOOLEAN]

FewConfigs == {c \in MCConfigs : c.chunks = 2 /\ c.maxDepth = 1 /\ c.nested = 0}

\* Ids of a chunk every run has, of one some runs have, and of none.
MCIds == {1, 3, Elsewhere}

MCAnswers ==
  [claims : {cs \in SUBSET {{}, {1}, {3}, {1, Elsewhere}} : Cardinality(cs) <= 2},
   references : {{}}, facts : {{}}]
  \cup {[claims |-> cs, references |-> rs, facts |-> fs] :
          cs \in {{}, {{1}}},
          rs \in {{}} \cup {{[fact |-> i, handle |-> h]} : i \in MCIds, h \in {1, 3, Missing}},
          fs \in {{}} \cup {{[fact |-> i, handle |-> h]} : i \in MCIds, h \in {1, Missing}}}

=============================================================================
