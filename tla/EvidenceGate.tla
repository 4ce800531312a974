---------------------------- MODULE EvidenceGate ----------------------------
(***************************************************************************)
(* What evidence-gated parent synthesis promises (the module docstring of  *)
(* egri/traceguard.py: "a parent may only claim facts that a retained      *)
(* child evidence handle explicitly supports"), without calls, retries or  *)
(* validators.  Evidence is gathered until a draft answer is proposed;     *)
(* what is admitted is that draft, or that draft with missing handles      *)
(* filled in, and only if the evidence is complete and backs every claim.  *)
(* LiveCell implements this module.                                        *)
(***************************************************************************)
EXTENDS TraceGuard

VARIABLES
  evidence,  \* retained facts reported so far
  draft,     \* the first proposed answer
  answer,    \* the admitted answer
  outcome

vars == <<evidence, draft, answer, outcome>>

Outcomes == {"open", "admitted", "refused", "aborted"}

Init ==
  /\ evidence = {}
  /\ draft = NoSynthesis
  /\ answer = NoSynthesis
  /\ outcome = "open"

Gather ==
  /\ outcome = "open"
  /\ draft = NoSynthesis
  /\ evidence' \in SUBSET RetainedFacts
  /\ evidence \subseteq evidence'
  /\ UNCHANGED <<draft, answer, outcome>>

Propose ==
  /\ outcome = "open"
  /\ draft = NoSynthesis
  /\ draft' \in Synthesis
  /\ UNCHANGED <<evidence, answer, outcome>>

Admit ==
  /\ outcome = "open"
  /\ evidence = RetainedFacts
  /\ answer' \in Synthesis
  /\ BackedBy(answer', evidence)
  /\ SameButFilled(draft, answer')
  /\ outcome' = "admitted"
  /\ UNCHANGED <<evidence, draft>>

Close ==
  /\ outcome = "open"
  /\ outcome' \in {"refused", "aborted"}
  /\ UNCHANGED <<evidence, draft, answer>>

Next == Gather \/ Propose \/ Admit \/ Close

Spec == Init /\ [][Next]_vars

=============================================================================
