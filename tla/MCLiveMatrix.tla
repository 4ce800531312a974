---------------------------- MODULE MCLiveMatrix ----------------------------
(***************************************************************************)
(* Three fixtures with two families, run once, for what the aggregate      *)
(* says; and with one family a second run in the same directory, for the   *)
(* files.                                                                  *)
(***************************************************************************)
EXTENDS LiveMatrix

CONSTANTS family1, family2

MCMatrices ==
  {[fixtures |-> 3, families |-> <<family1, family2>>, attempts |-> 1],
   [fixtures |-> 3, families |-> <<family1>>, attempts |-> 2]}

=============================================================================
