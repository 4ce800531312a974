------------------------ MODULE RuntimeScaffoldGate ------------------------
(***************************************************************************)
(* The gate around the runtime-scaffold command line:                      *)
(* egri/runtime_scaffold_traceguard.py.  When a run of RLMScaffold has     *)
(* returned, its parent answer, which cites child results, is normalised   *)
(* to fact claims and validated by TraceGuard against the child results    *)
(* the run recorded.  The command goes on when the answer is accepted or   *)
(* the gate does not apply, and raises when it is rejected.                *)
(*                                                                         *)
(* The id of the child result of chunk i is i, and so is the handle of the *)
(* chunk; Elsewhere is an id and a handle that no child of the run has.    *)
(***************************************************************************)
EXTENDS RLMScaffold

CONSTANTS
  MaxChunks,   \* no run has more
  Answers,     \* the parent answers that are JSON objects
  NotAnObject, \* a completion that is none
  NoAnswer,
  Elsewhere, Missing

Ids == 1 .. MaxChunks \cup {Elsewhere}
Citation == [fact : Ids, handle : Ids \cup {Missing}]

\* What the gate reads of an answer: the ids each synthesised claim names,
\* the evidence references by child_result_id, and the facts and references
\* by fact id.
Answer == [claims : SUBSET SUBSET Ids,
           references : SUBSET Citation,
           facts : SUBSET Citation]

ASSUME GateAssumption ==
  /\ MaxChunks \in Nat /\ \A c \in Configs : c.chunks <= MaxChunks
  /\ Elsewhere \notin 1 .. MaxChunks /\ Missing \notin Ids
  /\ NotAnObject \notin Answers /\ NoAnswer \notin Answers \cup {NotAnObject}
  /\ \A a \in Answers : /\ DOMAIN a = {"claims", "references", "facts"}
                        /\ \A c \in a.claims : c \subseteq Ids
                        /\ a.references \subseteq Citation /\ a.facts \subseteq Citation

VARIABLES
  answer, \* the parent's completion, once the gate has read it
  gate    \* "open", or the status of the gate

gateVars == <<vars, answer, gate>>

\* TraceGuard where the facts are the child results.
Guarded == INSTANCE TraceGuard WITH
             Facts <- Ids, RetainedFacts <- 1 .. MaxChunks, Chunks <- Ids,
             HomeChunk <- [i \in 1 .. MaxChunks |-> i],
             Paths <- Citation, Bodies <- {"quote"}, Malformed <- "malformed"

GateTypeOK ==
  /\ TypeOK
  /\ answer \in Answers \cup {NotAnObject, NoAnswer}
  /\ gate \in {"open", "accepted", "rejected", "not_applicable"}
  /\ gate = "open" => answer = NoAnswer

GatedInit == Init /\ answer = NoAnswer /\ gate = "open"

-----------------------------------------------------------------------------

\* Mutant: only children that succeeded give evidence.
ManifestOfSuccesses == {i \in 1 .. MaxChunks : Chunk(i) \in DOMAIN results /\ results[Chunk(i)]}

\* The recorded child results, those of failed calls included; validation
\* calls are not among them.
Manifest == {i \in 1 .. MaxChunks : Chunk(i) \in DOMAIN results}

ChunkOf(id) == IF id \in Manifest THEN id ELSE Elsewhere

Quote(id, handle) == [facts |-> {id}, handle |-> handle, body |-> "quote"]

\* A claim becomes a reference per id it names, so a claim that names none
\* is counted and leaves nothing to validate.
Normalized(a) ==
  LET entries ==
        {Quote(id, ChunkOf(id)) : id \in UNION a.claims}
        \cup {Quote(r.fact, IF r.handle = Missing THEN ChunkOf(r.fact) ELSE r.handle)
                : r \in a.references}
        \cup {Quote(f.fact, f.handle) : f \in a.facts}
  IN  [e \in entries |-> e]

ClaimBearing(a) == a.claims # {} \/ a.references # {} \/ a.facts # {}

\* validate_runtime_scaffold_result, for a run with a parent state.
Status(a) ==
  IF a = NotAnObject \/ Manifest = {} THEN "rejected"
  ELSE IF ~ ClaimBearing(a) THEN "not_applicable"
  ELSE IF Guarded!Accepted(Normalized(a), Manifest) THEN "accepted"
  ELSE "rejected"

\* A dry run and an atomic one have no parent state.
HasParentState == DOMAIN node # {Root}

\* run_with_traceguard, after the run has returned.
RunGate ==
  /\ pc = "returned" /\ gate = "open"
  /\ \/ ~ HasParentState /\ answer' = NoAnswer /\ gate' = "not_applicable"
     \/ /\ HasParentState
        /\ \E a \in Answers \cup {NotAnObject} : answer' = a /\ gate' = Status(a)
  /\ UNCHANGED vars

GatedNext == (Next /\ UNCHANGED <<answer, gate>>) \/ RunGate

GatedSpec == GatedInit /\ [][GatedNext]_gateVars

\* As in RLMScaffold; the gate awaits nothing.
GatedFairSpec == GatedSpec /\ WF_gateVars(GatedNext)

-----------------------------------------------------------------------------
(* Properties                                                              *)

\* An answer is accepted exactly when it names something and all that it
\* names, by whichever key, are chunk calls of this very run, failed ones
\* included, cited with no other chunk than their own; it escapes the gate
\* only if the run was dry or atomic, or the answer shows no claim at all.
GateIsExact ==
  LET OwnCall(id) == id # Elsewhere /\ id <= config.chunks
      Named == (UNION answer.claims) \cup {r.fact : r \in answer.references \cup answer.facts}
      OwnHandles == /\ \A r \in answer.references : r.handle \in {r.fact, Missing}
                    /\ \A f \in answer.facts : f.handle = f.fact
  IN
  /\ answer \in Answers =>
       /\ gate = "accepted" <=> Named # {} /\ (\A id \in Named : OwnCall(id)) /\ OwnHandles
       /\ gate = "not_applicable" => Named = {} /\ answer.claims = {}
  /\ answer = NotAnObject => gate = "rejected"
  /\ gate = "not_applicable" /\ answer = NoAnswer =>
       reason \in {"dry_run_ready", "root_atomic_completed", "node_failed"}

\* "Unsupported answer facts remain outside that fresh child manifest and are
\* rejected": no answer is accepted with a claim that names no child result.
UnsupportedClaimsAreRejected ==
  gate = "accepted" => {} \notin answer.claims

=============================================================================
