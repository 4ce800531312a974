----------------------------- MODULE TraceGuard -----------------------------
(***************************************************************************)
(* The deterministic evidence gate of EGRI and the narrow repair that may  *)
(* follow it: egri/traceguard.py and the missing-handle helpers of         *)
(* egri/live_portability.py.  Everything here is a pure operator; the      *)
(* module LiveCell runs them in the order the live cell does.              *)
(*                                                                         *)
(* A parent synthesis is the part of the parent's JSON answer the gate     *)
(* looks at: a function from the reference paths it fills (such as         *)
(* result.retained_facts[0]) to entries.  An entry has the fact ids it     *)
(* supports, the evidence handle it cites and a body, which stands for the *)
(* text and every other key.  Missing is a handle field that is absent or  *)
(* null, Malformed one that is present and is not a usable chunk id.       *)
(***************************************************************************)
EXTENDS Naturals, Sequences

CONSTANTS
  Facts,          \* every fact id a child or a parent may name
  RetainedFacts,  \* the fact ids of the fixture manifest
  Chunks,         \* every chunk id an answer may cite
  HomeChunk,      \* retained fact |-> the chunk the fixture takes it from
  Paths,          \* the reference paths of a parent synthesis
  Bodies,         \* what an entry says besides its facts and its handle
  Missing,        \* the handle of an entry without one
  Malformed       \* the handle of an entry with an unusable one

ASSUME FixtureAssumption ==
  /\ RetainedFacts \subseteq Facts
  /\ HomeChunk \in [RetainedFacts -> Chunks]

ASSUME HandleAssumption ==
  /\ Missing \notin Chunks
  /\ Malformed \notin Chunks
  /\ Missing # Malformed

Entry == [facts  : SUBSET Facts,
          handle : Chunks \cup {Missing, Malformed},
          body   : Bodies]

Synthesis == UNION {[P -> Entry] : P \in SUBSET Paths}

NoSynthesis == [p \in {} |-> p]

\* One observed fact of a child answer: evidence is its evidence_chunk_id,
\* chunkId its chunk_id (both Missing when absent), quotes says whether its
\* text is the fixture's.
ObservedFact == [fact     : Facts,
                 evidence : Chunks \cup {Missing},
                 chunkId  : Chunks \cup {Missing},
                 quotes   : BOOLEAN]

ChildRecord == [chunk : Chunks, report : SUBSET ObservedFact]

-----------------------------------------------------------------------------
(* Child evidence                                                          *)

\* The facts of the fixture manifest that this run's children reported with
\* the right chunk and the right text, whichever child reported them.
FreshManifest(records) ==
  {f \in RetainedFacts :
     \E i \in DOMAIN records : \E o \in records[i].report :
       o.fact = f /\ o.evidence = HomeChunk[f] /\ o.quotes}

\* The handle a child record gives to a fact: the first chunk key that is
\* set, else the chunk the child was called on.
CitedChunk(o, chunk) ==
  IF o.chunkId # Missing THEN o.chunkId
  ELSE IF o.evidence # Missing THEN o.evidence ELSE chunk

ChildHandles(records, f) ==
  {c \in Chunks :
     \E i \in DOMAIN records : \E o \in records[i].report :
       o.fact = f /\ CitedChunk(o, records[i].chunk) = c}

-----------------------------------------------------------------------------
(* Validation of a parent synthesis s against a manifest m                 *)

Claims(s) == {c \in (DOMAIN s) \X Facts : c[2] \in s[c[1]].facts}

OrphanHandles(s) ==
  {p \in DOMAIN s : s[p].facts = {} /\ s[p].handle \in Chunks}

\* Mutant: the cited chunk is not compared with the fact's.
ReasonAnyChunk(s, m, p, f) ==
  IF f \notin m THEN "unsupported_fact_id"
  ELSE IF s[p].handle \notin Chunks THEN "missing_evidence_handle"
  ELSE "accepted"

Reason(s, m, p, f) ==
  IF f \notin m THEN "unsupported_fact_id"
  ELSE IF s[p].handle \notin Chunks THEN "missing_evidence_handle"
  ELSE IF s[p].handle # HomeChunk[f] THEN "evidence_handle_mismatch"
  ELSE "accepted"

\* The reasons of the rejections, as a set: the code keeps one per claim.
RejectionReasons(s, m) ==
  ({Reason(s, m, c[1], c[2]) : c \in Claims(s)} \ {"accepted"})
    \cup {r \in {"chunk_handle_without_fact"} : OrphanHandles(s) # {}}
    \cup {r \in {"no_claim_bearing_surface"} :
            Claims(s) = {} /\ OrphanHandles(s) = {}}

Accepted(s, m) == RejectionReasons(s, m) = {}

-----------------------------------------------------------------------------
(* The missing-handle repair                                               *)

\* May handle c be filled in for fact f: f's manifest chunk, and a handle a
\* child record gives to f.
AllowedHandle(m, records, f, c) ==
  f \in m /\ c = HomeChunk[f] /\ c \in ChildHandles(records, f)

\* The claims whose handle field can be located and filled.
MissingHandleReferences(s, m) ==
  {c \in Claims(s) : c[2] \in m /\ s[c[1]].handle = Missing}

\* Every missing-handle rejection is one of those references and has a handle
\* to be filled with.
MissingHandlesResolved(s, m, records) ==
  \A c \in Claims(s) :
    Reason(s, m, c[1], c[2]) = "missing_evidence_handle" =>
      /\ c \in MissingHandleReferences(s, m)
      /\ AllowedHandle(m, records, c[2], HomeChunk[c[2]])

\* Mutant: other rejections besides the missing handles do not forbid a repair.
RepairEligibleBesides(s, m, records) ==
  /\ "missing_evidence_handle" \in RejectionReasons(s, m)
  /\ MissingHandlesResolved(s, m, records)

RepairEligible(s, m, records) ==
  /\ RejectionReasons(s, m) = {"missing_evidence_handle"}
  /\ MissingHandlesResolved(s, m, records)

\* Only the missing handles are taken from the repair response, and only when
\* they are allowed for a fact of the entry.
FilledHandle(s, m, records, response, p) ==
  IF /\ p \in DOMAIN response
     /\ \E c \in MissingHandleReferences(s, m) :
          c[1] = p /\ AllowedHandle(m, records, c[2], response[p].handle)
  THEN response[p].handle
  ELSE s[p].handle

ApplyRepair(s, m, records, response) ==
  [p \in DOMAIN s |->
     [s[p] EXCEPT !.handle = FilledHandle(s, m, records, response, p)]]

\* The response proposes a handle outside the allowed set of some reference.
ProposesForeignHandle(s, m, records, response) ==
  \E c \in MissingHandleReferences(s, m) :
    /\ c[1] \in DOMAIN response
    /\ response[c[1]].handle \in Chunks
    /\ ~ AllowedHandle(m, records, c[2], response[c[1]].handle)

\* Mutant: the text is not compared.
FaithfulFacts(s, m, records, t, p) ==
  /\ t[p].facts = s[p].facts
  /\ \/ t[p].handle = s[p].handle
     \/ /\ \E c \in MissingHandleReferences(s, m) : c[1] = p
        /\ t[p].handle \in Chunks
        /\ \A f \in s[p].facts : AllowedHandle(m, records, f, t[p].handle)

\* Entry p of t is entry p of s, or entry p of s with its missing handle
\* filled by the one handle allowed for all of its facts.
FaithfulEntry(s, m, records, t, p) ==
  /\ t[p].facts = s[p].facts
  /\ t[p].body = s[p].body
  /\ \/ t[p].handle = s[p].handle
     \/ /\ \E c \in MissingHandleReferences(s, m) : c[1] = p
        /\ t[p].handle \in Chunks
        /\ \A f \in s[p].facts : AllowedHandle(m, records, f, t[p].handle)

PatchFidelity(s, m, records, t) ==
  /\ DOMAIN t = DOMAIN s
  /\ \A p \in DOMAIN s : FaithfulEntry(s, m, records, t, p)

-----------------------------------------------------------------------------
(* What the operators above are for                                        *)

\* s makes a claim, and each of its claims cites the home chunk of a fact of m.
BackedBy(s, m) ==
  /\ Claims(s) # {}
  /\ \A c \in Claims(s) : c[2] \in m /\ s[c[1]].handle = HomeChunk[c[2]]

\* t is s with nothing changed but missing handles, each filled with the home
\* chunk of every fact of its entry.
SameButFilled(s, t) ==
  /\ DOMAIN t = DOMAIN s
  /\ \A p \in DOMAIN s :
       \/ t[p] = s[p]
       \/ /\ s[p].handle = Missing
          /\ t[p] = [s[p] EXCEPT !.handle = t[p].handle]
          /\ \A f \in s[p].facts : t[p].handle = HomeChunk[f]

=============================================================================
