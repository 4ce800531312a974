----------------------------- MODULE LiveMatrix -----------------------------
(***************************************************************************)
(* The live portability matrix: egri/live_portability.py, run_live_primary *)
(* and _async_main.                                                        *)
(*                                                                         *)
(* The cells (fixture by fixture, each with every selected runtime family) *)
(* run one after the other; LiveCell models one of them, here a cell is    *)
(* its failure classification.  After each cell the results so far are     *)
(* written to the partial JSON and then to the partial Markdown file, at   *)
(* the end to the final pair.  A run may be stopped or fail to write at    *)
(* any of these points; a later run starts over in the same directory.     *)
(***************************************************************************)
EXTENDS Naturals, Sequences, FiniteSets

CONSTANTS
  Matrices,     \* the matrices run, as [fixtures, families, attempts]
  Absent,       \* no such file
  Torn          \* a file cut off while it was written

ASSUME MatrixAssumption ==
  \A m \in Matrices :
    /\ m.fixtures \in Nat \ {0}
    /\ m.families # << >>
    /\ m.families \in Seq({m.families[i] : i \in DOMAIN m.families})
    /\ \A i, j \in DOMAIN m.families : m.families[i] = m.families[j] => i = j
    /\ m.attempts \in Nat \ {0}

VARIABLES
  matrix,   \* the matrix of this directory
  phase,    \* "cell", the file being written, or the end of the run
  attempt,  \* which run in this directory
  cells,    \* the classifications of the finished cells, in order
  files     \* the four output files

vars == <<matrix, phase, attempt, cells, files>>

FixtureCount == matrix.fixtures     \* fixtures of the matrix
FamilyOrder == matrix.families      \* the selected families, in their order
MaxAttempts == matrix.attempts      \* bound: runs in this directory

Classes == {"pass", "primary_contract_failure", "infra_timeout", "infra_skip"}
Files == {"partial.json", "partial.md", "final.json", "final.md"}

Families == {FamilyOrder[i] : i \in DOMAIN FamilyOrder}
Planned == FixtureCount * Len(FamilyOrder)
FamilyOf(k) == FamilyOrder[((k - 1) % Len(FamilyOrder)) + 1]

Result == [attempt : 1 .. MaxAttempts,
           run_status : {"in_progress", "completed"},
           cells : UNION {[1 .. n -> Classes] : n \in 0 .. Planned}]

TypeOK ==
  /\ matrix \in Matrices
  /\ phase \in Files \cup {"cell", "done", "stopped"}
  /\ attempt \in 1 .. MaxAttempts
  /\ cells \in Seq(Classes)
  /\ Len(cells) <= Planned
  /\ \A f \in Files : files[f] \in {Absent, Torn} \/ files[f] \in Result

Init ==
  /\ matrix \in Matrices
  /\ phase = "cell"
  /\ attempt = 1
  /\ cells = << >>
  /\ files = [f \in Files |-> Absent]

-----------------------------------------------------------------------------
(* The summary                                                             *)

CellsOf(cs, family, class) ==
  {k \in DOMAIN cs : FamilyOf(k) = family /\ cs[k] = class}

Passed(cs, family) == Cardinality(CellsOf(cs, family, "pass"))
Failed(cs, family) ==
  Cardinality(CellsOf(cs, family, "primary_contract_failure"))

\* Mutant: one failed cell is enough.
FamilyStatusStrict(cs, family) ==
  IF Failed(cs, family) >= 1 THEN "not_supported"
  ELSE IF Passed(cs, family) < FixtureCount THEN "incomplete"
  ELSE "pass"

FamilyStatus(cs, family) ==
  IF Failed(cs, family) >= 2 THEN "not_supported"
  ELSE IF Failed(cs, family) > 0 THEN "contract_failure"
  ELSE IF Passed(cs, family) < FixtureCount THEN "incomplete"
  ELSE "pass"

\* Mutant: the cells run so far are all there is to pass.
AggregateStatusSoFar(cs) ==
  IF \E f \in Families : FamilyStatus(cs, f) = "not_supported" THEN "fail"
  ELSE IF \A k \in DOMAIN cs : cs[k] = "pass" THEN "pass"
  ELSE "inconclusive"

AggregateStatus(cs) ==
  IF \E f \in Families : FamilyStatus(cs, f) = "not_supported" THEN "fail"
  ELSE IF \A f \in Families :
            Passed(cs, f) >= FixtureCount /\ Failed(cs, f) = 0 THEN "pass"
  ELSE "inconclusive"

-----------------------------------------------------------------------------

\* Mutant: the exception handlers skip the checkpoint.
RunCellUnsaved(class) ==
  /\ phase = "cell"
  /\ cells' = Append(cells, class)
  /\ phase' = IF /\ class \in {"infra_timeout", "infra_skip"}
                 /\ Len(cells) + 1 < Planned THEN "cell" ELSE "partial.json"
  /\ UNCHANGED <<matrix, attempt, files>>

RunCell(class) ==
  /\ phase = "cell"
  /\ cells' = Append(cells, class)
  /\ phase' = "partial.json"
  /\ UNCHANGED <<matrix, attempt, files>>

\* Mutant: the last cell is not waited for.
AfterEarly(f) ==
  CASE f = "partial.json" -> "partial.md"
    [] f = "partial.md" -> IF Len(cells) + 1 = Planned THEN "final.json" ELSE "cell"
    [] f = "final.json" -> "final.md"
    [] f = "final.md" -> "done"

\* Mutant: one cell too many.
AfterLate(f) ==
  CASE f = "partial.json" -> "partial.md"
    [] f = "partial.md" -> IF Len(cells) > Planned THEN "final.json" ELSE "cell"
    [] f = "final.json" -> "final.md"
    [] f = "final.md" -> "done"

\* Mutant: the report is only written when the grid is full.
AfterSkipsReport(f) ==
  CASE f = "partial.json" -> IF Len(cells) \in {1, Planned} THEN "partial.md" ELSE "cell"
    [] f = "partial.md" -> IF Len(cells) = Planned THEN "final.json" ELSE "cell"
    [] f = "final.json" -> "final.md"
    [] f = "final.md" -> "done"

After(f) ==
  CASE f = "partial.json" -> "partial.md"
    [] f = "partial.md" -> IF Len(cells) = Planned THEN "final.json" ELSE "cell"
    [] f = "final.json" -> "final.md"
    [] f = "final.md" -> "done"

Content(f) ==
  [attempt |-> attempt,
   run_status |-> IF f \in {"final.json", "final.md"} THEN "completed"
                  ELSE "in_progress",
   cells |-> cells]

WriteOutput(f) ==
  /\ phase = f
  /\ files' = [files EXCEPT ![f] = Content(f)]
  /\ phase' = After(f)
  /\ UNCHANGED <<matrix, attempt, cells>>

\* The run is stopped in a write, or the write raises: write_text truncates
\* the file before it writes, so what was there before is gone unless the file
\* could not be opened.
WriteFails(f) ==
  /\ phase = f
  /\ \E left \in {files[f], Torn} : files' = [files EXCEPT ![f] = left]
  /\ phase' = "stopped"
  /\ UNCHANGED <<matrix, attempt, cells>>

\* The run is stopped during a cell.
Stop ==
  /\ phase = "cell"
  /\ phase' = "stopped"
  /\ UNCHANGED <<matrix, attempt, cells, files>>

\* The command is run again: nothing is read back.
Restart ==
  /\ phase \in {"done", "stopped"}
  /\ attempt < MaxAttempts
  /\ attempt' = attempt + 1
  /\ cells' = << >>
  /\ phase' = "cell"
  /\ UNCHANGED <<matrix, files>>

Next ==
  \/ \E class \in Classes : RunCell(class)
  \/ \E f \in Files : WriteOutput(f) \/ WriteFails(f)
  \/ Stop
  \/ Restart

Spec == Init /\ [][Next]_vars

-----------------------------------------------------------------------------
(* Properties                                                              *)

Intact(f) == files[f] \notin {Absent, Torn}

\* The grid position of the cell of fixture i with a family.
CellAt(i, j) == (i - 1) * Len(FamilyOrder) + j

\* What any output file of any run says in its aggregate is exactly earned by
\* the grid: pass only when every family passed every fixture, fail only when
\* one family failed the contract on two different fixtures (timeouts and
\* skips never do), and a file that shows such a pair says fail.
VerdictIsEarned ==
  \A f \in Files : Intact(f) =>
    LET cs == files[f].cells
        Has(i, j, class) == CellAt(i, j) \in DOMAIN cs /\ cs[CellAt(i, j)] = class
    IN
    /\ AggregateStatus(cs) = "pass" <=>
         \A i \in 1 .. FixtureCount : \A j \in DOMAIN FamilyOrder : Has(i, j, "pass")
    /\ AggregateStatus(cs) = "fail" <=>
         \E j \in DOMAIN FamilyOrder : \E i1, i2 \in 1 .. FixtureCount :
           /\ i1 # i2
           /\ Has(i1, j, "primary_contract_failure")
           /\ Has(i2, j, "primary_contract_failure")

\* Once the cells of a run decide its aggregate, later cells do not change it.
VerdictIsStable ==
  [][attempt' = attempt /\ AggregateStatus(cells) # "inconclusive"
       => AggregateStatus(cells') = AggregateStatus(cells)]_vars

\* A final file that can be read is the whole of one run, marked completed, and
\* a partial one never is marked so: a run that was stopped cannot pass for a
\* finished one, whatever files earlier runs left.
FinalIsComplete ==
  \A f \in Files : Intact(f) =>
    files[f].run_status = "completed" <=>
      /\ f \in {"final.json", "final.md"}
      /\ Len(files[f].cells) = Planned

\* The Markdown report never gets ahead of the JSON file it is written after,
\* and within one run is at most one cell behind.
PairsAgree ==
  \A p \in {<<"partial.json", "partial.md">>, <<"final.json", "final.md">>} :
    Intact(p[1]) /\ Intact(p[2]) =>
      LET json == files[p[1]] md == files[p[2]] IN
      /\ md.attempt <= json.attempt
      /\ md.attempt = json.attempt =>
           /\ Len(json.cells) - Len(md.cells) \in {0, 1}
           /\ md.cells = SubSeq(json.cells, 1, Len(md.cells))

\* While a run is under way the readable JSON checkpoint lacks at most the cell
\* that was just finished.
CheckpointIsCurrent ==
  (phase \in {"cell", "partial.md"} /\ cells # << >>) =>
    files["partial.json"] = Content("partial.json")

=============================================================================
