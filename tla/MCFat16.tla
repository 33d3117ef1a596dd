------------------------------- MODULE MCFat16 -------------------------------
(* The FAT16 driver on small volumes. *)
EXTENDS Fat16Store, TLC

Perms == Permutations(Names) \cup Permutations(Values)

(* Nothing is claimed of a volume after these events: stop there. *)
Whole == harm \cap {"torn", "overdir", "wild"} = {}
=============================================================================
