------------------------------ MODULE Fat16Store ------------------------------
(***************************************************************************)
(* The FAT16 driver as an implementation of Store.                         *)
(***************************************************************************)
EXTENDS Fat16

(* The files of the root directory, as a caller sees them: what a name     *)
(* reads as, while its old contents are being freed what it read as before *)
(* the call.                                                               *)
Written(v, len) == [i \in 1 .. len |-> DataCell(v, i)]
FileContents == {<<>>} \cup {<<v, len>> : v \in Values, len \in Lens \ {0}}
AsContents(cells, size) ==
    IF size = 0 THEN <<>>
    ELSE IF \E v \in Values : cells = Written(v, size) THEN <<cells[1].val, size>>
    ELSE <<"lost">>

RootPlaces == [lba : 1 .. RootSectors, idx : Cells]
RootSlots(n) == {s \in RootPlaces : CellAt(s).kind = "entry" /\ CellAt(s).name = n}
RootFile(n) ==
    IF RootSlots(n) = {} THEN <<"absent">>
    ELSE LET s == CHOOSE t \in RootSlots(n) : TRUE
         IN  IF job.freed /\ job.slot = s THEN AsContents(was, CellAt(s).size)
             ELSE AsContents(ReadFile(CellAt(s)), CellAt(s).size)
RunningCall ==
    CASE pc = "idle" -> <<>>
      [] pc # "idle" /\ job.op = "echo" ->
           <<"write", job.name, IF job.len = 0 THEN <<>> ELSE <<job.val, job.len>>>>
      [] OTHER -> <<job.op, job.name, <<>>>>

Abstract == INSTANCE Store WITH
    Contents <- FileContents, Empty <- <<>>, Lost <- <<"lost">>,
    files <- [n \in Names |-> RootFile(n)], busy <- RunningCall,
    broken <- "wild" \in harm

(* The driver's many disk writes are, to its callers, calls that take      *)
(* effect at one moment: every file holds what the last call that          *)
(* succeeded wrote, and a call that fails touches no file but its own.     *)
(* The store breaks when free_cluster_chain, after a failed read of the    *)
(* table, clears a word outside it or has no end.                          *)
(* Of calls on files of the root directory (touch, echo, rm).              *)
ImplementsStore == Abstract!StoreSpec
=============================================================================
