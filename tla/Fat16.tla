-------------------------------- MODULE Fat16 --------------------------------
(***************************************************************************)
(* The FAT16 driver (kernel/fat16.c) as the kernel's single thread of      *)
(* control executes it: one step per sector read of a directory scan and   *)
(* one step per disk write, because power can be lost, and the ATA driver  *)
(* can report an error, between any two of them.                           *)
(*                                                                         *)
(* Two callers exist: the terminal (kernel/terminal.c), which works in the *)
(* directory on top of its path stack, and the desktop's applications,     *)
(* which write files in the root directory.                                *)
(*                                                                         *)
(* A cluster is one sector (sectors_per_cluster = 1).  A sector holds      *)
(* PerSector cells; a cell is the 32 bytes of a directory entry, or the    *)
(* same number of bytes of file data.  A data cell remembers which write   *)
(* produced it (val) and its position in the file (in field size), so that *)
(* reading back the wrong bytes, or the right bytes in the wrong order, is *)
(* seen.  Read as a directory entry, file data is an entry in use that     *)
(* carries none of Names.                                                  *)
(*                                                                         *)
(* Next to some definitions stands a variant with a slip in it; nothing    *)
(* uses the variants except the runs that show a property would notice.    *)
(***************************************************************************)
EXTENDS Integers, Sequences, FiniteSets

CONSTANTS
    Names,        \* file names that fit the 8.3 form
    Values,       \* the contents a caller may write
    NumClusters,  \* total_clusters of the volume
    RootSectors,  \* root_dir_sectors of the volume
    PerSector,    \* directory entries (or data cells) per sector
    Lens,         \* bound: the lengths of the files written, in cells
    PathMax,      \* PATH_STACK_MAX of the terminal
    TerminalOps,  \* bound: the commands the terminal issues
    DesktopOps,   \* bound: the operations issued on the root directory
    FaultKinds,   \* bound: the faults that may happen: "read", "write", "power"
    MaxFaults,    \* bound: how many faults happen
    BadLbas       \* the sectors where entry 0xFFF7 of the table may lie, were
                  \* the table that long: 0 its second copy, above Lbas off the disk

Commands == {"touch", "mkdir", "rm", "echo", "cd", "cdup"}

ASSUME Fat16Assumption ==
    /\ NumClusters \in Nat \ {0} /\ NumClusters < 65000
    /\ RootSectors \in Nat \ {0}
    /\ PerSector \in Nat \ {0}
    /\ Lens \subseteq Nat /\ PathMax \in Nat /\ MaxFaults \in Nat
    /\ TerminalOps \subseteq Commands /\ DesktopOps \subseteq {"echo"}
    /\ FaultKinds \subseteq {"read", "write", "power"}
    /\ "-" \notin Names /\ "-" \notin Values
    /\ BadLbas \subseteq Nat

VARIABLES
    fat,     \* on disk: both copies of the allocation table
    sec,     \* on disk: the root directory's sectors and the data area
    hint,    \* next_free_cluster_hint
    path,    \* the terminal's path stack, of clusters (path_stack)
    pc,      \* where the running file system call stands
    job,     \* its parameters and local variables
    res,     \* what the last call returned
    faults,  \* faults so far
    harm,    \* history: events after which a promise is void
    was      \* history: what the entry under write read as before the call

disk == <<fat, sec>>
vars == <<fat, sec, hint, path, pc, job, res, faults, harm, was>>

-----------------------------------------------------------------------------
(* Geometry and the on-disk values *)

FREE == 0
EOC == 65528  \* FAT16_EOC_MIN
BAD == 65527  \* FAT16_BAD_CLUSTER

Clusters == 2 .. NumClusters + 1
Lbas == 1 .. RootSectors + NumClusters
Cells == 1 .. PerSector
Slots == [lba : Lbas, idx : Cells]
NoSlot == [lba |-> 0, idx |-> 0]

cluster_to_lba(c) == RootSectors + 1 + (c - 2)

InChain(c) == c >= 2 /\ c < EOC

Blank == [kind |-> "end", name |-> "-", dir |-> FALSE, first |-> 0,
          size |-> 0, val |-> "-"]
Deleted == [Blank EXCEPT !.kind = "deleted"]
Entry(n, d) == [Blank EXCEPT !.kind = "entry", !.name = n, !.dir = d]
DataCell(v, i) == [Blank EXCEPT !.kind = "data", !.val = v, !.size = i]

Placed(e, first, size) == [e EXCEPT !.first = first, !.size = size]

CellType == [kind : {"end", "deleted", "entry", "data"},
             name : Names \cup {"-"}, dir : BOOLEAN,
             first : Clusters \cup {0}, size : Nat,
             val : Values \cup {"-"}]

ZeroSector == [i \in Cells |-> Blank]

(* What extend_cluster_chain leaves in the sector it allocates *)
ZeroingForgotten(l) == sec[l]
CleanSector(l) == ZeroSector

(* ok: whether the sector of the entry could be read.  The answer for one  *)
(* that could not, 0xFFF7, is below FAT16_EOC_MIN: every walk goes on with *)
(* it as with a cluster.                                                   *)
fat_read_entry(c, ok) == IF ok THEN fat[1][c] ELSE BAD

FreeClusters == {c \in Clusters : fat_read_entry(c, TRUE) = FREE}

(* An entry with a chain to free: first_cluster_lo != 0 *)
HasContents(e) == e.size # 0
HasChain(e) == e.first # 0

(* next_free_cluster_hint after cluster c was handed out *)
HintTooFar(c) == c + 2
HintAfter(c) == c + 1

(* fat_find_free_cluster: c is the first free cluster at or after the hint *)
(* or, when there is none, the first free cluster of all.                  *)
NextFitWrapUnchecked(c) ==
    IF \E d \in FreeClusters : d >= hint
    THEN c \in FreeClusters /\ c >= hint
         /\ \A d \in FreeClusters : d < hint \/ c <= d
    ELSE FreeClusters # {} /\ c = 2
IsNextFit(c) ==
    /\ c \in FreeClusters
    /\ \A d \in FreeClusters :
           IF c >= hint THEN d < hint \/ c <= d ELSE d < hint /\ c <= d

(* fat_write_entry updates the copies one after the other; copies < 2 is a *)
(* write that was cut short.                                               *)
LastCopyFirst(c, v, copies) ==
    fat' = [k \in 1 .. 2 |->
              IF 3 - k <= copies THEN [fat[k] EXCEPT ![c] = v] ELSE fat[k]]
fat_write_entry(c, v, copies) ==
    fat' = [k \in 1 .. 2 |->
              IF k <= copies THEN [fat[k] EXCEPT ![c] = v] ELSE fat[k]]

(* The clusters of a chain, in order; more than NumClusters of them means  *)
(* that the chain never ends.                                              *)
ChainIn(table, c) ==
    LET walk[n \in 0 .. NumClusters + 1] ==
          [d \in Clusters \cup {FREE, EOC} |->
              IF n = 0 \/ d \notin Clusters THEN <<>>
              ELSE <<d>> \o walk[n - 1][table[d]]]
    IN  walk[NumClusters + 1][c]
Chain(c) == ChainIn(fat[1], c)

(* fat16_read_file of a whole entry: as many cells as the size says, or as *)
(* the chain holds if it is shorter.  A read that meets a bad sector stops *)
(* short and changes nothing; this is what a read that meets none returns. *)
ReadFile(e) ==
    LET chain == Chain(e.first)
        held == PerSector * Len(chain)
    IN  [i \in 1 .. (IF e.size < held THEN e.size ELSE held) |->
            sec[cluster_to_lba(chain[((i - 1) \div PerSector) + 1])]
               [((i - 1) % PerSector) + 1]]

CellAt(s) == sec[s.lba][s.idx]

WriteCell(s, cell) == sec' = [sec EXCEPT ![s.lba][s.idx] = cell]

-----------------------------------------------------------------------------
(* The call in progress *)

(* A call at its start: its parameters, a cursor on the first sector of    *)
(* its directory, and every other local at its initial value.              *)
NewJob(op, dir, name, val, len) ==
    [op |-> op, dir |-> dir, name |-> name, val |-> val, len |-> len,
     cur |-> IF dir = 0 THEN 1 ELSE dir, csec |-> dir, free |-> NoSlot,
     slot |-> NoSlot, ent |-> Blank, freed |-> FALSE, why |-> "none",
     new |-> 0, last |-> 0, first |-> 0, done |-> 0]
NoJob == NewJob("none", 0, "-", "-", 0)

Ops == {"none", "touch", "mkdir", "rm", "echo", "cd"}
Pcs == {"idle", "scan", "free", "eoc", "link", "zero", "data", "dirent", "mark"}

(* A directory cursor is a root sector number, or a cluster, and for a     *)
(* subdirectory it may have run off the chain.                             *)
JobType == [op : Ops, dir : Clusters \cup {0}, name : Names \cup {"-"},
            val : Values \cup {"-"}, len : Nat, cur : Nat,
            csec : Clusters \cup {0}, free : Slots \cup {NoSlot},
            slot : Slots \cup {NoSlot}, ent : CellType, freed : BOOLEAN,
            why : {"none", "slot", "mkdir", "data", "rewrite", "delete", "undo"},
            new : Clusters \cup {0}, last : Clusters \cup {0},
            first : Clusters \cup {0}, done : Nat]

(* Returning kills the call's locals.                                      *)
Return(r) == pc' = "idle" /\ job' = NoJob /\ res' = r /\ was' = <<>>
Goto(p, j) ==
    /\ pc' = p /\ job' = j /\ UNCHANGED res
    /\ was' = IF j.freed /\ ~job.freed THEN ReadFile(j.ent) ELSE was

NoFault == UNCHANGED faults
Fault(k) == k \in FaultKinds /\ faults < MaxFaults /\ faults' = faults + 1

TornIf(b) == IF b THEN {"torn"} ELSE {}
Harm(h) == harm' = harm \cup h

Cwd == IF path = <<>> THEN 0 ELSE path[Len(path)]

(* The head of every public operation: name_to_83 has accepted the name.   *)
(* An echo or a save writes len cells, the first bytes of which identify   *)
(* the write.                                                              *)
Call(op, dir, name, val, len) ==
    /\ pc = "idle"
    /\ Goto("scan", NewJob(op, dir, name, val, len))
    /\ UNCHANGED <<disk, hint, path, faults, harm>>

TerminalCall ==
    \E op \in TerminalOps \ {"cdup"}, n \in Names :
        IF op = "echo"
        THEN \E v \in Values, len \in Lens : Call(op, Cwd, n, v, len)
        ELSE Call(op, Cwd, n, "-", 0)

DesktopCall ==
    \E op \in DesktopOps, n \in Names, v \in Values, len \in Lens :
        Call(op, 0, n, v, len)

(* cmd_cd with "..": path_depth-- *)
CdUp ==
    /\ pc = "idle" /\ "cdup" \in TerminalOps
    /\ path # <<>> /\ path' = SubSeq(path, 1, Len(path) - 1)
    /\ UNCHANGED <<disk, hint, pc, job, res, faults, harm, was>>

(* cmd_cd with no argument or "/" *)
CdRoot ==
    /\ pc = "idle" /\ "cdup" \in TerminalOps
    /\ path # <<>> /\ path' = <<>>
    /\ UNCHANGED <<disk, hint, pc, job, res, faults, harm, was>>

-----------------------------------------------------------------------------
(* The directory scan of find_or_alloc_slot, and of walk_directory for cd  *)

ScanLba == IF job.dir = 0 THEN job.cur ELSE cluster_to_lba(job.cur)

(* Cluster 0xFFF7 passes the driver's check, but its sectors are past the  *)
(* end of the disk: dir_cursor_next_sector reads none and answers false.   *)
Exhausted ==
    IF job.dir = 0 THEN job.cur > RootSectors ELSE ~InChain(job.cur) \/ job.cur = BAD

Stops(cell) == cell.kind = "end" \/ (cell.kind = "entry" /\ cell.name = job.name)

IsFirstStop(i) ==
    /\ i \in Cells /\ Stops(sec[ScanLba][i])
    /\ \A j \in Cells : j < i => ~Stops(sec[ScanLba][j])

(* have_free_slot and free_slot once the cells before i have been seen: s  *)
(* is the first deleted entry, of an earlier sector if there was one.      *)
Gone(j) == sec[ScanLba][j].kind = "deleted"
FreeSlotBefore(i, s) ==
    IF job.free # NoSlot \/ \A j \in Cells : j < i => ~Gone(j)
    THEN s = job.free
    ELSE /\ s.lba = ScanLba /\ s.idx \in Cells /\ s.idx < i /\ Gone(s.idx)
         /\ \A j \in Cells : j < s.idx => ~Gone(j)

(* The loop of fat16_write_file: another cluster, or the directory entry *)
WriteOn(j) ==
    IF j.done < j.len
    THEN Goto("eoc", [j EXCEPT !.why = "data"])
    ELSE Goto("dirent", [j EXCEPT !.ent = Placed(@, j.first, j.len)])

(* The callers of find_or_alloc_slot when the name exists in slot s *)
Found(s) ==
    LET e == CellAt(s)
        j == [job EXCEPT !.slot = s, !.ent = e]
    IN CASE job.op \in {"touch", "mkdir"} -> Return(TRUE) /\ UNCHANGED <<path, harm>>
         [] job.op = "cd" ->
              /\ IF e.dir /\ Len(path) < PathMax
                 THEN path' = Append(path, e.first) /\ Return(TRUE)
                 ELSE UNCHANGED path /\ Return(FALSE)
              /\ UNCHANGED harm
         [] job.op = "rm" ->
              /\ IF HasChain(e)
                 THEN Goto("free", [j EXCEPT !.why = "delete", !.freed = TRUE, !.cur = e.first])
                 ELSE Goto("mark", j)
              /\ UNCHANGED <<path, harm>>
         [] job.op = "echo" ->
              /\ IF HasChain(e)
                 THEN Goto("free", [j EXCEPT !.why = "rewrite", !.freed = TRUE, !.cur = e.first])
                 ELSE WriteOn(j)
              /\ Harm(IF e.dir THEN {"overdir"} ELSE {})
              /\ UNCHANGED path

(* The callers of find_or_alloc_slot when slot s is free for the name *)
NotFound(s, j0) ==
    LET e == Entry(j0.name, j0.op = "mkdir")
        j == [j0 EXCEPT !.slot = s, !.ent = e]
    IN CASE j0.op \in {"cd", "rm"} -> Return(FALSE)
         [] j0.op = "touch" -> Goto("dirent", j)
         [] j0.op = "mkdir" -> Goto("eoc", [j EXCEPT !.why = "mkdir"])
         [] j0.op = "echo" -> WriteOn(j)

ScanHit ==
    /\ pc = "scan" /\ ~Exhausted
    /\ \E i \in Cells :
          /\ IsFirstStop(i) /\ sec[ScanLba][i].kind = "entry"
          /\ Found([lba |-> ScanLba, idx |-> i])
    /\ NoFault /\ UNCHANGED <<disk, hint>>

ScanEndMarker ==
    /\ pc = "scan" /\ ~Exhausted
    /\ \E i \in Cells, s \in Slots \cup {NoSlot} :
          /\ IsFirstStop(i) /\ sec[ScanLba][i].kind = "end"
          /\ FreeSlotBefore(i, s)
          /\ NotFound(IF s = NoSlot THEN [lba |-> ScanLba, idx |-> i] ELSE s, job)
    /\ NoFault /\ UNCHANGED <<disk, hint, path, harm>>

(* dir_cursor_next_sector moves on *)
ChainNotFollowed == IF job.dir = 0 THEN job.cur + 1 ELSE job.cur
NextSector == IF job.dir = 0 THEN job.cur + 1 ELSE fat_read_entry(job.cur, TRUE)

ScanOn(next) ==
    /\ pc = "scan" /\ ~Exhausted
    /\ \A i \in Cells : ~Stops(sec[ScanLba][i])
    /\ \E s \in Slots \cup {NoSlot} :
          /\ FreeSlotBefore(PerSector + 1, s)
          /\ Goto("scan", [job EXCEPT !.free = s,
                                      !.csec = IF job.dir = 0 THEN 0 ELSE job.cur,
                                      !.cur = next])
    /\ UNCHANGED <<disk, hint, path>>

ScanNextSector == ScanOn(NextSector) /\ NoFault /\ UNCHANGED harm

(* The directory's sector was read, the table entry of its cluster was not.*)
ScanLosesTrack ==
    /\ job.dir # 0 /\ ScanOn(fat_read_entry(job.cur, FALSE))
    /\ Fault("read") /\ Harm({"fault"})

(* "Ran off the end": the root is full; a subdirectory grows.  A deleted   *)
(* entry the scan passed (job.free) is not looked at here.                 *)
RanOffTheEnd ==
    IF job.op = "cd" \/ job.dir = 0
    THEN Return(FALSE)
    ELSE Goto("eoc", [job EXCEPT !.why = "slot", !.last = job.csec])

ScanExhausted ==
    /\ pc = "scan" /\ Exhausted
    /\ RanOffTheEnd
    /\ NoFault /\ UNCHANGED <<disk, hint, path, harm>>

(* dir_cursor_next_sector answers a failed read and the end of the         *)
(* directory alike.                                                        *)
ScanReadError ==
    /\ pc = "scan" /\ ~Exhausted
    /\ RanOffTheEnd
    /\ Fault("read") /\ Harm({"fault"}) /\ UNCHANGED <<disk, hint, path>>

-----------------------------------------------------------------------------
(* extend_cluster_chain, for its three callers *)

(* It returned 0: the caller gives up; fat16_write_file first frees what   *)
(* it has allocated so far.                                                *)
NoUndo(h) == Return(FALSE) /\ Harm(h \cup TornIf(job.freed))
ExtendFailed(h) ==
    IF job.why = "data" /\ job.first # 0
    THEN Goto("free", [job EXCEPT !.why = "undo", !.cur = job.first]) /\ Harm(h)
    ELSE Return(FALSE) /\ Harm(h \cup TornIf(job.freed))

DiskFull ==
    /\ pc = "eoc" /\ FreeClusters = {}
    /\ ExtendFailed({})
    /\ NoFault /\ UNCHANGED <<disk, hint, path>>

(* fat_find_free_cluster and fat_write_entry(new_cluster, FAT16_EOC_MIN) *)
MarkEoc ==
    /\ pc = "eoc"
    /\ \E c \in Clusters :
          /\ IsNextFit(c)
          /\ hint' = HintAfter(c)
          /\ \/ /\ fat_write_entry(c, EOC, 2)
                /\ Goto(IF job.last >= 2 THEN "link" ELSE "zero",
                        [job EXCEPT !.new = c])
                /\ NoFault /\ UNCHANGED harm
             \/ \E n \in 0 .. 1 :
                /\ fat_write_entry(c, EOC, n)
                /\ Fault("write") /\ ExtendFailed({"fault"})
    /\ UNCHANGED <<sec, path>>

(* Entries that cannot be read do not look free: any free cluster may be   *)
(* the first one seen, or none.                                            *)
MarkEocUnread ==
    /\ pc = "eoc" /\ Fault("read")
    /\ \/ ExtendFailed({"fault"}) /\ UNCHANGED <<fat, hint>>
       \/ \E c \in FreeClusters :
          /\ hint' = HintAfter(c)
          /\ \/ /\ fat_write_entry(c, EOC, 2)
                /\ Goto(IF job.last >= 2 THEN "link" ELSE "zero",
                        [job EXCEPT !.new = c])
                /\ Harm({"fault"})
             \/ \E n \in 0 .. 1 :
                fat_write_entry(c, EOC, n) /\ ExtendFailed({"fault"})
    /\ UNCHANGED <<sec, path>>

LinkCluster ==
    /\ pc = "link"
    /\ \/ /\ fat_write_entry(job.last, job.new, 2)
          /\ Goto("zero", job)
          /\ NoFault /\ UNCHANGED harm
       \/ \E n \in 0 .. 1 :
          /\ fat_write_entry(job.last, job.new, n)
          /\ Fault("write") /\ ExtendFailed({"fault"})
    /\ UNCHANGED <<sec, hint, path>>

(* What the callers do with the new cluster *)
Extended ==
    CASE job.why = "slot" -> NotFound([lba |-> cluster_to_lba(job.new), idx |-> 1],
                                      [job EXCEPT !.last = 0])
      [] job.why = "mkdir" -> Goto("dirent", [job EXCEPT !.ent = Placed(@, job.new, 0)])
      [] job.why = "data" ->
           Goto("data", [job EXCEPT !.last = job.new,
                                    !.first = IF @ = 0 THEN job.new ELSE @])

ZeroCluster ==
    /\ pc = "zero"
    /\ \/ /\ sec' = [sec EXCEPT ![cluster_to_lba(job.new)] = CleanSector(cluster_to_lba(job.new))]
          /\ Extended /\ NoFault /\ UNCHANGED harm
       \/ /\ Fault("write") /\ ExtendFailed({"fault"}) /\ UNCHANGED sec
    /\ UNCHANGED <<fat, hint, path>>

-----------------------------------------------------------------------------
(* free_cluster_chain, for its three callers *)

(* A failed write is not noticed: the walk goes on. *)
FreeCluster ==
    /\ pc = "free" /\ InChain(job.cur) /\ job.cur # BAD
    /\ Goto("free", [job EXCEPT !.cur = fat_read_entry(job.cur, TRUE)])
    /\ \/ /\ fat_write_entry(job.cur, FREE, 2)
          /\ NoFault
          /\ Harm(IF job.ent.dir /\ \E i \in Cells :
                       sec[cluster_to_lba(job.cur)][i].kind = "entry"
                  THEN {"orphan"} ELSE {})
       \/ \E n \in 0 .. 1 :
          /\ fat_write_entry(job.cur, FREE, n)
          /\ Fault("write") /\ Harm({"fault"} \cup TornIf(n = 0))
    /\ UNCHANGED <<sec, hint, path>>

(* The entry of the cluster could not be read; its release may have failed *)
(* as well.  The rest of the chain stays behind.                           *)
FreeLosesTrack ==
    /\ pc = "free" /\ InChain(job.cur) /\ job.cur # BAD
    /\ Goto("free", [job EXCEPT !.cur = fat_read_entry(job.cur, FALSE)])
    /\ \E n \in 0 .. 2 : fat_write_entry(job.cur, FREE, n)
    /\ Fault("read") /\ Harm({"fault"})
    /\ UNCHANGED <<sec, hint, path>>

(* Entry 0xFFF7 would be in sector 255 of the table, which is never that   *)
(* long: it is a word of what follows the first copy.  In the second copy  *)
(* the word is the entry of some cluster c; in a directory it is the unused*)
(* time of the last entry of a sector, 0; in file data it is anything (a   *)
(* number above the volume goes the way of 0xFFF7); off the disk it cannot *)
(* be read.  The walk clears the word, and that in the same place after    *)
(* the second copy, and goes on with what it was.                          *)
WordsAt(l, c) ==
    CASE l = 0 -> {fat[2][c], BAD}
      [] l \in Lbas /\ sec[l][PerSector].kind = "data" -> Clusters \cup {FREE, EOC, BAD}
      [] l \in Lbas /\ sec[l][PerSector].kind # "data" -> {FREE, BAD}
      [] OTHER -> {BAD}
WordCleared(cell) == IF cell.kind = "data" THEN [cell EXCEPT !.val = "-"] ELSE cell

ClearWords(l, l2, c) ==
    /\ fat' = IF l = 0 THEN [fat EXCEPT ![2] = [@ EXCEPT ![c] = FREE]] ELSE fat
    /\ sec' = [m \in Lbas |->
                 IF m \in {l, l2}
                 THEN [sec[m] EXCEPT ![PerSector] = WordCleared(@)]
                 ELSE sec[m]]

FreeBeyond ==
    /\ pc = "free" /\ job.cur = BAD
    /\ \E l, l2 \in BadLbas, c \in Clusters : \E next \in WordsAt(l, c) :
          /\ l <= l2 /\ ClearWords(l, l2, c)
          /\ Goto("free", [job EXCEPT !.cur = next])
          /\ Harm(IF next = FREE /\ UNCHANGED disk THEN {} ELSE {"wild"})
    /\ NoFault /\ UNCHANGED <<hint, path>>

FreeDone ==
    /\ pc = "free" /\ ~InChain(job.cur)
    /\ CASE job.why = "delete" -> Goto("mark", job) /\ UNCHANGED harm
         [] job.why = "rewrite" -> WriteOn(job) /\ UNCHANGED harm
         [] job.why = "undo" -> Return(FALSE) /\ Harm(TornIf(job.freed))
    /\ NoFault /\ UNCHANGED <<disk, hint, path>>

-----------------------------------------------------------------------------
(* The last writes of fat16_write_file, fat16_create and fat16_delete *)

(* One cluster of the file: data, then zeros up to the end of the sector *)
LastCellDropped ==
    [i \in Cells |-> IF job.done + i < job.len
                     THEN DataCell(job.val, job.done + i) ELSE Blank]
FileSector ==
    [i \in Cells |-> IF job.done + i <= job.len
                     THEN DataCell(job.val, job.done + i) ELSE Blank]

WriteData ==
    /\ pc = "data"
    /\ \/ /\ sec' = [sec EXCEPT ![cluster_to_lba(job.new)] = FileSector]
          /\ WriteOn([job EXCEPT !.done = IF @ + PerSector < job.len
                                          THEN @ + PerSector ELSE job.len])
          /\ NoFault /\ UNCHANGED harm
       \/ /\ Fault("write") /\ Return(FALSE)
          /\ Harm({"fault"} \cup TornIf(job.freed)) /\ UNCHANGED sec
    /\ UNCHANGED <<fat, hint, path>>

WriteDirent ==
    /\ pc = "dirent"
    /\ \/ WriteCell(job.slot, job.ent) /\ Return(TRUE) /\ NoFault /\ UNCHANGED harm
       \/ /\ Fault("write") /\ Return(FALSE)
          /\ Harm({"fault"} \cup TornIf(job.freed)) /\ UNCHANGED sec
    /\ UNCHANGED <<fat, hint, path>>

(* name[0] becomes 0xE5; nobody reads the other bytes of such an entry     *)
(* again, and the model forgets them.                                      *)
MarkDeleted ==
    /\ pc = "mark"
    /\ \/ WriteCell(job.slot, Deleted) /\ Return(TRUE) /\ NoFault /\ UNCHANGED harm
       \/ /\ Fault("write") /\ Return(FALSE)
          /\ Harm({"fault"} \cup TornIf(job.freed)) /\ UNCHANGED sec
    /\ UNCHANGED <<fat, hint, path>>

-----------------------------------------------------------------------------
(* Power is lost between two sector writes, or between the two copies of a *)
(* table entry; the machine starts again and mounts the volume.            *)
PowerLoss ==
    /\ Fault("power")
    /\ \/ UNCHANGED fat
       \/ pc = "eoc" /\ \E c \in Clusters : IsNextFit(c) /\ fat_write_entry(c, EOC, 1)
       \/ pc = "link" /\ fat_write_entry(job.last, job.new, 1)
       \/ pc = "free" /\ job.cur \in Clusters /\ fat_write_entry(job.cur, FREE, 1)
    /\ hint' = 2 /\ path' = <<>> /\ Return(FALSE)
    /\ Harm({"fault"} \cup TornIf(job.freed)) /\ UNCHANGED sec

(* A freshly formatted and mounted volume, the terminal at the root *)
Init ==
    /\ fat = [k \in 1 .. 2 |-> [c \in Clusters |-> FREE]]
    /\ sec = [l \in Lbas |-> ZeroSector]
    /\ hint = 2 /\ path = <<>>
    /\ pc = "idle" /\ job = NoJob /\ res = TRUE
    /\ faults = 0 /\ harm = {} /\ was = <<>>

Scan ==
    \/ ScanHit \/ ScanEndMarker \/ ScanNextSector \/ ScanLosesTrack \/ ScanExhausted
    \/ ScanReadError
Extend == DiskFull \/ MarkEoc \/ MarkEocUnread \/ LinkCluster \/ ZeroCluster
Release == FreeCluster \/ FreeLosesTrack \/ FreeBeyond \/ FreeDone
Finish == WriteData \/ WriteDirent \/ MarkDeleted

Driver == Scan \/ Extend \/ Release \/ Finish

Next == TerminalCall \/ DesktopCall \/ CdUp \/ CdRoot \/ Driver \/ PowerLoss

(* The driver never waits: a call that is running keeps running.           *)
Spec == Init /\ [][Next]_vars
FairSpec == Spec /\ WF_vars(Driver)

-----------------------------------------------------------------------------
(* Properties *)

TypeOK ==
    /\ fat \in [1 .. 2 -> [Clusters -> Clusters \cup {FREE, EOC}]]
    /\ sec \in [Lbas -> [Cells -> CellType]]
    /\ hint \in 2 .. NumClusters + 2
    /\ path \in Seq(Clusters \cup {0})
    /\ pc \in Pcs
    /\ job \in JobType
    /\ res \in BOOLEAN
    /\ faults \in Nat
    /\ harm \subseteq {"torn", "fault", "orphan", "overdir", "wild"}

(* An entry whose chain the running call is taking away refers to nothing. *)
Refers(s, c) == CellAt(s).first = c /\ ~(job.freed /\ s = job.slot)

LinkedOnce ==
    \A c \in Clusters :
        /\ \A d1, d2 \in Clusters : fat[1][d1] = c /\ fat[1][d2] = c => d1 = d2
        /\ \A s1, s2 \in Slots : Refers(s1, c) /\ Refers(s2, c) => s1 = s2
        /\ \A d \in Clusters, s \in Slots : ~(fat[1][d] = c /\ Refers(s, c))
        /\ fat[1][c] = FREE =>
              /\ \A d \in Clusters : fat[1][d] # c
              /\ \A s \in Slots : ~Refers(s, c)

(* No cluster belongs to two chains, and nothing refers to a free cluster, *)
(* so no two files share data.  This survives power loss, read and write   *)
(* errors, the removal of a directory that is not empty and a file written *)
(* over a directory.  It is lost when fat16_write_file or fat16_delete     *)
(* ends between freeing the old chain and rewriting the entry ("torn"),    *)
(* and when a table entry that could not be read has sent                  *)
(* free_cluster_chain to clear words outside the table ("wild").           *)
NoCrossLink == harm \cap {"torn", "wild"} = {} => LinkedOnce

(* The clusters that can be reached from the root directory *)
Closed(S) ==
    /\ \A l \in 1 .. RootSectors, i \in Cells :
          sec[l][i].first \in Clusters => sec[l][i].first \in S
    /\ \A c \in S :
          /\ fat[1][c] \in Clusters => fat[1][c] \in S
          /\ \A i \in Cells : LET f == sec[cluster_to_lba(c)][i].first
                              IN  f \in Clusters => f \in S
Reachable == {c \in Clusters : \A S \in SUBSET Clusters : Closed(S) => c \in S}

(* Between calls, and if nothing went wrong, the clusters marked used are  *)
(* exactly those some file or directory is made of: every path through     *)
(* create, rewrite, delete and a full disk frees what it allocated.        *)
NoLeak ==
    pc = "idle" /\ harm = {} => Clusters \ FreeClusters = Reachable

(* "stale disk contents never leak into a file/directory that's growing    *)
(* into it": no directory ever shows the data of a deleted file.           *)
Directories == {0} \cup {CellAt(s).first : s \in {t \in Slots : CellAt(t).dir}}
NoStaleContents ==
    pc = "idle" /\ harm = {} =>
        \A d \in Directories \cap Clusters :
            \A k \in 1 .. Len(Chain(d)), i \in Cells :
                sec[cluster_to_lba(Chain(d)[k])][i].kind # "data"

(* No step of a call on one entry changes what any other file reads as,    *)
(* whatever power losses, read and write errors there were before, but for *)
(* a walk of free_cluster_chain that a failed read of the table has sent   *)
(* outside it: that one clears a word of another file ("wild").            *)
OthersIntact ==
    [][harm' \cap {"torn", "overdir", "wild"} = {} =>
         \A s \in Slots :
            CellAt(s).kind = "entry" /\ ~CellAt(s).dir /\ s # job.slot
              /\ CellAt(s)' = CellAt(s)
            => ReadFile(CellAt(s))' = ReadFile(CellAt(s))]_vars

(* Every call returns: no scan of a directory and no walk of a chain runs  *)
(* for ever, a failed read included.  There are two exceptions: a directory*)
(* overwritten as a file, which find_or_alloc_slot can then link to itself,*)
(* and free_cluster_chain sent to entry 0xFFF7 by a failed read of the     *)
(* table: where that lies off the disk the walk has no end ("wild").       *)
CallsReturn ==
    pc # "idle" ~> pc = "idle" \/ harm \cap {"torn", "overdir", "wild"} # {}

(* "Install failed (disk full?) - not touching the current boot            *)
(* configuration": a write that failed leaves the file as it was.          *)
FailedWriteKeepsFile ==
    [][job.op = "echo" /\ job.freed /\ pc' = "idle" /\ ~res' =>
         \A s \in Slots : s = job.slot => ReadFile(CellAt(s))' = was]_vars
=============================================================================
