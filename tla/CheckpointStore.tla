-------------------------- MODULE CheckpointStore --------------------------
(***************************************************************************)
(* The checkpoint files of one key: ouroboros/persistence/checkpoint.py,   *)
(* CheckpointStore.  Level 0 is the current file, levels 1 to 3 the ones   *)
(* kept for rollback.  A save renames the files one level down and then    *)
(* writes level 0 in place, so it can be cut at any of its steps.          *)
(***************************************************************************)
EXTENDS Naturals

CONSTANT NoCheckpoint  \* what a file without a checkpoint holds

MaxRollbackDepth == 3
Levels == 0 .. MaxRollbackDepth

Absent == [state |-> "absent", data |-> NoCheckpoint]
Corrupt == [state |-> "corrupt", data |-> NoCheckpoint]
Valid(checkpoint) == [state |-> "valid", data |-> checkpoint]

NoFiles == [i \in Levels |-> Absent]

\* The steps of a save: the oldest file is deleted, each file is renamed to
\* the level below, level 0 is opened for writing, which empties it, and it
\* is written.
SaveSteps == 0 .. MaxRollbackDepth + 2
LastStep == MaxRollbackDepth + 2

Renamed(files, i) ==
  IF files[i] = Absent THEN files
  ELSE [files EXCEPT ![i + 1] = files[i], ![i] = Absent]

\* Mutant: the newest file is renamed first, over the one below it.
AfterStepUpwards(files, n, checkpoint) ==
  CASE n = 0 -> [files EXCEPT ![MaxRollbackDepth] = Absent]
    [] n \in 1 .. MaxRollbackDepth -> Renamed(files, n - 1)
    [] n = MaxRollbackDepth + 1 -> [files EXCEPT ![0] = Corrupt]
    [] OTHER -> [files EXCEPT ![0] = Valid(checkpoint)]

AfterStep(files, n, checkpoint) ==
  CASE n = 0 -> [files EXCEPT ![MaxRollbackDepth] = Absent]
    [] n \in 1 .. MaxRollbackDepth -> Renamed(files, MaxRollbackDepth - n)
    [] n = MaxRollbackDepth + 1 -> [files EXCEPT ![0] = Corrupt]
    [] OTHER -> [files EXCEPT ![0] = Valid(checkpoint)]

\* load: the first level that holds a checkpoint.
Loaded(files) ==
  LET valid == {i \in Levels : files[i].state = "valid"}
  IN  IF valid = {} THEN NoCheckpoint
      ELSE files[CHOOSE i \in valid : \A j \in valid : i <= j].data

=============================================================================
