------------------------ MODULE MCOperationalMemory ------------------------
(***************************************************************************)
(* Two runs, one reading and writing and one only writing, over a store    *)
(* that may hold a poisoned record, a record for any family and, as in     *)
(* tests/test_memory.py, no final newline.                                 *)
(***************************************************************************)
EXTENDS OperationalMemory

CONSTANTS run1, run2, family1, category1, category2

MCRuns == {run1, run2}
MCReading == {run1}
MCWriting == {run1, run2}
MCFamilies == {family1}
MCCategories == {category1, category2}

Seed(kind, family, text, extra) ==
  [kind |-> kind, task |-> "synthesize_parent_answer_from_child_evidence",
   family |-> family, category |-> Anything, text |-> text, extra |-> extra,
   created_at |-> 0]

Hint == Seed("schema_hint_needed", Anything, "plain", FALSE)
Poison == Seed("schema_hint_needed", family1, "forbidden", FALSE)
Instruction == Seed("schema_hint_needed", family1, "plain", TRUE)
Addressed == Seed("schema_hint_needed", AList, "plain", FALSE)

File(lines, terminated) == [lines |-> lines, ended |-> terminated]

MCSeeds ==
  {File(<< >>, TRUE),
   File(<<Hint, Poison>>, FALSE),
   File(<<Instruction, Junk>>, TRUE),
   File(<<Addressed>>, TRUE)}

JsonlSeeds == {File(<<Hint, Poison>>, FALSE)}

=============================================================================
