-------------------------- MODULE DivideAndGather --------------------------
(***************************************************************************)
(* What a recursive run promises (ouroboros/rlm/loop.py,                   *)
(* RLMParentExecutionState: "Parent execution state for deterministic      *)
(* synthesis of child sub-calls"), without nodes, queues, limits or depth. *)
(* A question is divided once, if at all; each part gets one result, which *)
(* is kept; a result may call for further parts; and the whole is answered *)
(* only from a success of every part.  RLMScaffold implements this module. *)
(***************************************************************************)

CONSTANT Parts

VARIABLES
  parts,    \* what the question is divided into so far
  results,  \* part |-> whether its call succeeded
  verdict

vars == <<parts, results, verdict>>

Init ==
  /\ parts = {}
  /\ results = [p \in {} |-> TRUE]
  /\ verdict = "open"

\* Nothing but the plan was asked for.
Plan ==
  /\ verdict = "open"
  /\ parts = {}
  /\ verdict' = "planned"
  /\ UNCHANGED <<parts, results>>

Divide ==
  /\ verdict = "open"
  /\ parts = {}
  /\ parts' \in SUBSET Parts
  /\ UNCHANGED <<results, verdict>>

\* What a result calls for may turn out not to be possible any more.
Record(p, ok) ==
  /\ verdict = "open"
  /\ p \in parts \ DOMAIN results
  /\ results' = [q \in DOMAIN results \cup {p} |-> IF q = p THEN ok ELSE results[q]]
  /\ parts \subseteq parts' /\ parts' \in SUBSET Parts
  /\ verdict' \in {"open", "failed"}

Answer ==
  /\ verdict = "open"
  /\ DOMAIN results = parts
  /\ \A p \in parts : results[p]
  /\ verdict' = "answered"
  /\ UNCHANGED <<parts, results>>

Fail ==
  /\ verdict = "open"
  /\ verdict' = "failed"
  /\ UNCHANGED <<parts, results>>

Next ==
  \/ Plan \/ Divide \/ Answer \/ Fail
  \/ \E p \in parts, ok \in BOOLEAN : Record(p, ok)

Spec == Init /\ [][Next]_vars

=============================================================================
