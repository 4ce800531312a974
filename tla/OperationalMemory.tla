------------------------- MODULE OperationalMemory -------------------------
(***************************************************************************)
(* The operational memory of the live matrix: egri/memory.py over one      *)
(* JSONL file, as the cells of one or several matrix runs use it.          *)
(*                                                                         *)
(* A cell of a reading run recalls the priors of its family and category   *)
(* when it starts and keeps that snapshot; a cell of a writing run appends *)
(* its observations when it is decided.  The file is shared: runs          *)
(* interleave between a recall and a store, a run may be stopped, and a    *)
(* store may be cut short by a stop or by a disk error at any byte.        *)
(*                                                                         *)
(* The file is the sequence of its lines and whether the last one is       *)
(* terminated.  A line is a record, or Junk when it is not a JSON object   *)
(* (blank lines are left out).  A record keeps what recall tells apart:    *)
(* kind stands for the allow-listed fields, text for the free text the     *)
(* guard searches, extra for fields outside the whitelist.                 *)
(***************************************************************************)
EXTENDS Integers, Sequences, FiniteSets

CONSTANTS
  Runs,       \* processes that use the store
  Reading,    \* those whose memory mode is read or read-write
  Writing,    \* those whose memory mode is write or read-write
  Families,   \* family ids
  Categories, \* fixture categories
  Anything,   \* a family or category that is absent or null
  AList,      \* a family or category that is a JSON list
  Unlisted,   \* a kind, task or recommendation off the allow lists
  Junk,       \* a line that is not a JSON object
  Seeds,      \* what the store may hold before the first run
  MaxStores   \* bound: stores that reach the file

Kinds == {"missing_evidence_handle_seen", "repair_strategy_succeeded",
          "repair_strategy_failed", "provider_schema_stability",
          "schema_hint_needed", "latency_bucket"}
Tasks == {"extract_child_evidence",
          "synthesize_parent_answer_from_child_evidence",
          "repair_missing_evidence_handle", "parent_synthesis_retry"}

\* The tasks the cell recalls for.
PromptTasks == {"extract_child_evidence",
                "synthesize_parent_answer_from_child_evidence"}

Record == [kind     : Kinds \cup {Unlisted},
           task     : Tasks,
           family   : Families \cup {Anything, AList},
           category : Categories \cup {Anything, AList},
           text     : {"plain", "forbidden"},
           extra    : BOOLEAN,
           created_at : Int]

Line == Record \cup {Junk}

Target == [family : Families, category : Categories]

ASSUME StoreAssumption ==
  /\ Reading \subseteq Runs /\ Writing \subseteq Runs
  /\ {Anything, AList} \cap (Families \cup Categories) = {}
  /\ Junk \notin Record /\ Unlisted \notin Kinds
  /\ Seeds \subseteq [lines : Seq(Line), ended : BOOLEAN]
  /\ \A s \in Seeds : s.lines = << >> => s.ended
  /\ \A s \in Seeds : \A i \in DOMAIN s.lines :  \* older than the first store
       s.lines[i] # Junk => s.lines[i].created_at <= 0
  /\ MaxStores \in Nat

VARIABLES
  file,     \* the lines of the store
  ended,    \* its last line is terminated, or there is none
  busy,     \* the runs with a cell between recall and store
  target,   \* family and category of a run's latest cell
  priors,   \* the snapshot that cell recalled
  clock,    \* stores that reached the file: the created_at of their records
  reported, \* records the artifacts report as stored
  ragged    \* how often the file was left without a final newline

vars == <<file, ended, busy, target, priors, clock, reported, ragged>>

TypeOK ==
  /\ file \in Seq(Line)
  /\ ended \in BOOLEAN
  /\ busy \subseteq Runs
  /\ target \in [Runs -> Target]
  /\ priors \in [Runs -> SUBSET Record]
  /\ clock \in 0 .. MaxStores
  /\ reported \subseteq Record
  /\ ragged \in Nat

Init ==
  /\ \E s \in Seeds : file = s.lines /\ ended = s.ended
  /\ busy = {}
  /\ target \in [Runs -> Target]
  /\ priors = [r \in Runs |-> {}]
  /\ clock = 0
  /\ reported = {}
  /\ ragged = IF ended THEN 0 ELSE 1

-----------------------------------------------------------------------------
(* Recall                                                                  *)

\* validate_memory_record finds nothing to reject.
Guarded(r) == ~ r.extra /\ r.kind # Unlisted /\ r.text = "plain"

Records(lines) == {lines[i] : i \in DOMAIN lines} \ {Junk}

\* Mutant: the fixture category is not compared.
OfferedAnyCategory(r, t) ==
  /\ Guarded(r)
  /\ r.task \in PromptTasks
  /\ r.family \in {Anything, t.family}

\* prior_from_record makes a prior of r for a cell on t.
Offered(r, t) ==
  /\ Guarded(r)
  /\ r.task \in PromptTasks
  /\ r.family \in {Anything, t.family}
  /\ r.category \in {Anything, t.category}

\* prior_from_record raises: a list is not hashable.
Unhashable(r, t) ==
  /\ Guarded(r)
  /\ r.task \in PromptTasks
  /\ \/ r.family = AList
     \/ r.family \in {Anything, t.family} /\ r.category = AList

RecallRaises(t) == \E r \in Records(file) : Unhashable(r, t)

\* Mutant: one line that does not parse discards the file.
RecallAllOrNothing(run, t) ==
  /\ run \notin busy
  /\ run \in Reading => ~ RecallRaises(t)
  /\ busy' = busy \cup {run}
  /\ target' = [target EXCEPT ![run] = t]
  /\ priors' = [priors EXCEPT ![run] =
                  IF run \in Reading /\ (\A i \in DOMAIN file : file[i] # Junk)
                  THEN {r \in Records(file) : Offered(r, t)} ELSE {}]
  /\ UNCHANGED <<file, ended, clock, reported, ragged>>

\* A cell starts on t; a run that does not read has no priors.
Recall(run, t) ==
  /\ run \notin busy
  /\ run \in Reading => ~ RecallRaises(t)
  /\ busy' = busy \cup {run}
  /\ target' = [target EXCEPT ![run] = t]
  /\ priors' = [priors EXCEPT ![run] =
                  IF run \in Reading
                  THEN {r \in Records(file) : Offered(r, t)} ELSE {}]
  /\ UNCHANGED <<file, ended, clock, reported, ragged>>

\* The recall raises: the cell ends as an infrastructure skip at once.
RecallFails(run, t) ==
  /\ run \notin busy
  /\ run \in Reading
  /\ RecallRaises(t)
  /\ target' = [target EXCEPT ![run] = t]
  /\ priors' = [priors EXCEPT ![run] = {}]
  /\ UNCHANGED <<file, ended, busy, clock, reported, ragged>>

-----------------------------------------------------------------------------
(* Store                                                                   *)

\* How a cell may stand when it writes: the repair is only decided after a
\* rejected first answer, and an accepted first answer is the effective one.
CellOutcome ==
  {o \in [initialAccept : BOOLEAN, repairAccept : {"unset", "yes", "no"},
          accepted : BOOLEAN] :
     /\ o.initialAccept => o.repairAccept = "unset"
     /\ o.repairAccept = "unset" => o.accepted = o.initialAccept}

\* Mutant: family and category in each other's place.
ObservationSwapped(kind, task, t) ==
  [kind |-> kind, task |-> task, family |-> t.category, category |-> t.family,
   text |-> "plain", extra |-> FALSE, created_at |-> clock + 1]

Observation(kind, task, t) ==
  [kind |-> kind, task |-> task, family |-> t.family, category |-> t.category,
   text |-> "plain", extra |-> FALSE, created_at |-> clock + 1]

\* build_memory_observations_from_cell.
Observations(o, t) ==
  LET Where(condition, kind, task) ==
        IF condition THEN <<Observation(kind, task, t)>> ELSE << >>
  IN  Where(~ o.initialAccept, "missing_evidence_handle_seen",
            "synthesize_parent_answer_from_child_evidence")
      \o Where(o.repairAccept = "yes", "repair_strategy_succeeded",
               "parent_synthesis_retry")
      \o Where(o.repairAccept = "no", "repair_strategy_failed",
               "repair_missing_evidence_handle")
      \o Where(o.accepted, "provider_schema_stability",
               "synthesize_parent_answer_from_child_evidence")

\* Mutant: the file is opened for writing, not for appending.
ExtendedOverwriting(lines) == lines

\* The lines once the given ones are written at the end of the file: the
\* first continues a last line without a newline, and no JSON text is left.
Extended(lines) ==
  IF ended \/ lines = << >> THEN file \o lines
  ELSE SubSeq(file, 1, Len(file) - 1) \o <<Junk>> \o Tail(lines)

\* The records that pass the guard, in their order (the provers have no
\* facts about SelectSeq).
Kept(records) ==
  LET K == {i \in DOMAIN records : Guarded(records[i])}
      Nth(n) == CHOOSE i \in K : Cardinality(K \cap 1 .. i) = n
  IN  [n \in 1 .. Cardinality(K) |-> records[Nth(n)]]

Stored(run, o) == Kept(Observations(o, target[run]))

\* Mutant: the lines are joined by newlines, with none after the last.
StoreJoined(run, o) ==
  LET records == Stored(run, o) IN
  /\ run \in busy \cap Writing
  /\ clock < MaxStores
  /\ file' = Extended(records)
  /\ ended' = (ended /\ records = << >>)
  /\ reported' = reported \cup Records(records)
  /\ clock' = clock + 1
  /\ busy' = busy \ {run}
  /\ UNCHANGED <<target, priors, ragged>>

Store(run, o) ==
  LET records == Stored(run, o) IN
  /\ run \in busy \cap Writing
  /\ clock < MaxStores
  /\ file' = Extended(records)
  /\ ended' = (ended \/ records # << >>)
  /\ reported' = reported \cup Records(records)
  /\ clock' = clock + 1
  /\ busy' = busy \ {run}
  /\ UNCHANGED <<target, priors, ragged>>

\* The write stops after n records, within the next one (partial) or before
\* its newline; the cell reports nothing.
StoreCut(run, o, n, partial) ==
  LET records == Stored(run, o)
      lines == SubSeq(records, 1, n) \o <<IF partial THEN Junk ELSE records[n + 1]>>
  IN
  /\ run \in busy \cap Writing
  /\ clock < MaxStores
  /\ n < Len(records)
  /\ file' = Extended(lines)
  /\ ended' = FALSE
  /\ ragged' = ragged + 1
  /\ clock' = clock + 1
  /\ busy' = busy \ {run}
  /\ UNCHANGED <<target, priors, reported>>

\* The write stops between two records, or before the first.
StoreStops(run, o, n) ==
  LET lines == SubSeq(Stored(run, o), 1, n) IN
  /\ run \in busy \cap Writing
  /\ clock < MaxStores
  /\ n < Len(Stored(run, o))
  /\ file' = Extended(lines)
  /\ ended' = (ended \/ lines # << >>)
  /\ clock' = clock + 1
  /\ busy' = busy \ {run}
  /\ UNCHANGED <<target, priors, reported, ragged>>

\* The cell ends without a store: the run does not write, a provider call
\* failed, or the run was stopped and started again.
Leave(run) ==
  /\ run \in busy
  /\ busy' = busy \ {run}
  /\ UNCHANGED <<file, ended, target, priors, clock, reported, ragged>>

-----------------------------------------------------------------------------

Next ==
  \E run \in Runs :
    \/ \E t \in Target : Recall(run, t) \/ RecallFails(run, t)
    \/ \E o \in CellOutcome :
         \/ Store(run, o)
         \/ \E n \in 0 .. 2 : \/ \E partial \in BOOLEAN : StoreCut(run, o, n, partial)
                              \/ StoreStops(run, o, n)
    \/ Leave(run)

Spec == Init /\ [][Next]_vars

-----------------------------------------------------------------------------
(* Properties                                                              *)

\* "Append-only local JSONL operational memory": a terminated line is never
\* changed or removed, whatever run writes and however a write ends.
AppendOnly ==
  [][/\ Len(file') >= Len(file)
     /\ \A i \in DOMAIN file : (i < Len(file) \/ ended) => file'[i] = file[i]]_vars

Lost == reported \ Records(file)

\* However writes are cut and runs interleave, records reported as stored are
\* lost only to a file that had no final newline, and at most one each time.
LossIsBounded == Cardinality(Lost) <= ragged

\* What a cell puts into its prompts passed the guard, is addressed to its own
\* family and category (or to any), and was in the store before the run began
\* or was written by a cell on exactly the same family and category.
PriorsAreGuarded ==
  \A run \in Runs : \A r \in priors[run] :
    /\ r.kind \in Kinds /\ r.text = "plain" /\ ~ r.extra
    /\ r.family \in {Anything, target[run].family}
    /\ r.category \in {Anything, target[run].category}
    /\ r.created_at > 0 => /\ r.family = target[run].family
                           /\ r.category = target[run].category
                           /\ r.task \in PromptTasks

\* A cell that succeeds in reading has every record of its family and category
\* about the prompts' tasks that was reported stored and is not lost: no
\* damaged line hides an intact one.
RecallIsComplete ==
  [][\A run \in Reading :
       run \in busy' \ busy =>
         \A r \in reported \ Lost :
           (/\ r.family = target'[run].family
            /\ r.category = target'[run].category
            /\ r.task \in PromptTasks) => r \in priors'[run]]_vars

\* "test_memory_store_persists_only_allowlisted_observations": what a store
\* reports as stored can be read back.
ReportedIsPersisted == Lost = {}

\* "Guarded operational-memory/GOM behavior as schema and repair priors": a
\* cell that recalls something an earlier cell observed also recalls that its
\* repair succeeded, when that was reported and is not lost.
RepairPriorsAreRecalled ==
  \A run \in Runs : \A p \in priors[run] : \A r \in reported \ Lost :
    (p.created_at = r.created_at /\ r.kind = "repair_strategy_succeeded")
      => r \in priors[run]

=============================================================================
