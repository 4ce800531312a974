----------------------------- MODULE MCLiveCell -----------------------------
(***************************************************************************)
(* A small fixture for TLC: two retained facts from two selected chunks, a *)
(* fact the fixture omits with its chunk, and parent answers of up to two  *)
(* entries.                                                                *)
(***************************************************************************)
EXTENDS LiveCell

CONSTANTS f1, f2, omitted,   \* fact ids
          c1, c2, c3,        \* chunk ids; c3 is the omitted fact's
          p1, p2,            \* reference paths
          said, other        \* bodies

MCFacts == {f1, f2, omitted}
MCRetainedFacts == {f1, f2}
MCChunks == {c1, c2, c3}
MCHomeChunk == [f \in MCRetainedFacts |-> IF f = f1 THEN c1 ELSE c2]
MCPaths == {p1, p2}
MCBodies == {said, other}
MCChildOrder == <<c1, c2>>
MCSelectedChunks == {c1, c2}

Observed(f, evidence, chunkId, quotes) ==
  [fact |-> f, evidence |-> evidence, chunkId |-> chunkId, quotes |-> quotes]

\* Nothing, one right fact, both facts at once, a wrong text with a wrong
\* chunk, a handle left out, and two chunk keys that disagree.
MCReports ==
  {{},
   {Observed(f1, c1, Missing, TRUE)},
   {Observed(f1, c1, Missing, TRUE), Observed(f2, c2, Missing, TRUE)},
   {Observed(f1, c1, Missing, FALSE), Observed(f2, c3, Missing, TRUE)},
   {Observed(f1, Missing, Missing, TRUE), Observed(omitted, c3, Missing, TRUE)},
   {Observed(f2, c2, c3, TRUE)}}

Says(facts, handle, body) == [facts |-> facts, handle |-> handle, body |-> body]

MCEntries ==
  {Says({f1}, h, said) : h \in {c1, c2, Missing, Malformed}}
    \cup {Says({f2}, h, said) : h \in {c2, Missing}}
    \cup {Says({f2}, c2, other), Says({f1, f2}, Missing, said),
          Says({omitted}, c3, said), Says({}, c1, said)}

MCSyntheses == UNION {[P -> MCEntries] : P \in SUBSET MCPaths}

\* Some answer of the repair call would be accepted: a repair response only
\* matters through the handles it proposes.
Repairable ==
  \E h \in [DOMAIN original -> Chunks \cup {Missing}] :
    RepairAccepted([p \in DOMAIN original |-> [original[p] EXCEPT !.handle = h[p]]])

\* "Assert that every initial missing-handle rejection is patch-repairable."
\* (the docstring of _initial_rejection_contains_only_repairable_missing_
\* handles): the call that the gate schedules can succeed.
EligibleIsRepairable == phase = "repair" => Repairable

=============================================================================
