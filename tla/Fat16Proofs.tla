----------------------------- MODULE Fat16Proofs -----------------------------
(***************************************************************************)
(* For every volume size and every sequence of calls, faults and power     *)
(* losses: the driver's variables stay within their types, and no cluster  *)
(* ever belongs to two files unless a rewrite or a removal was cut short   *)
(* or sent outside the table by a failed read.                             *)
(***************************************************************************)
EXTENDS Fat16, SequenceTheorems, TLAPS

Links == Clusters \cup {FREE, EOC}

(* What fat_read_entry answers: a link, or 0xFFF7 for a read that failed   *)
Answers == Links \cup {BAD}

(* What the registers of a call hold, by where the call stands *)
JobOK ==
    /\ pc = "idle" => job = NoJob
    /\ pc # "idle" => job.op # "none"
    /\ pc = "scan" =>
          /\ ~job.freed /\ job.first = 0 /\ job.last = 0
          /\ IF job.dir = 0 THEN job.cur >= 1 ELSE job.cur \in Answers
          /\ job.dir # 0 => job.csec # 0
    /\ pc \in {"eoc", "link", "zero"} =>
          \/ /\ job.why = "slot" /\ job.op # "cd" /\ ~job.freed
             /\ job.first = 0 /\ job.last # 0
          \/ /\ job.why = "mkdir" /\ job.slot # NoSlot /\ ~job.freed
             /\ job.first = 0 /\ job.last = 0
          \/ /\ job.why = "data" /\ job.op = "echo" /\ job.slot # NoSlot
             /\ job.first = 0 <=> job.last = 0
    /\ pc = "link" => job.last # 0
    /\ pc \in {"link", "zero", "data"} => job.new # 0
    /\ pc = "data" => job.op = "echo" /\ job.slot # NoSlot /\ job.first # 0 /\ job.last # 0
    /\ pc \in {"dirent", "mark"} => job.slot # NoSlot
    /\ pc = "free" =>
          /\ job.cur \in Answers
          /\ \/ job.why = "undo"
             \/ /\ job.why \in {"rewrite", "delete"} /\ job.slot # NoSlot
                /\ job.why = "rewrite" => job.op = "echo"
                /\ job.first = 0 /\ job.last = 0

TypeInv == TypeOK /\ JobOK

(***************************************************************************)
(* The cluster a call holds and nothing on disk refers to                  *)
(***************************************************************************)
NoRef(c) ==
    /\ \A d \in Clusters : fat[1][d] # c
    /\ \A s \in Slots : ~Refers(s, c)

Held(c) == c \in Clusters => NoRef(c) /\ fat[1][c] # FREE

InFlight ==
    /\ pc \in {"eoc", "link", "zero", "data"} => Held(job.first)
    /\ pc = "link" => Held(job.new) /\ job.new # job.first
    /\ pc = "zero" /\ job.last = 0 => Held(job.new)
    /\ pc = "dirent" => Held(job.ent.first)
    /\ pc = "free" /\ job.cur \in Clusters => NoRef(job.cur)

Inv == TypeInv /\ (harm \cap {"torn", "wild"} = {} => LinkedOnce /\ InFlight)

-----------------------------------------------------------------------------
(* Lemmas about the values on disk *)

(* A data cluster lies in the data area, one sector per cluster. *)
LEMMA ClusterLba ==
    ASSUME NEW c \in Clusters
    PROVE  cluster_to_lba(c) \in Lbas /\ InChain(c)
  BY Fat16Assumption DEF Clusters, Lbas, cluster_to_lba, InChain, EOC

(* A table entry that is in a chain is a cluster of the volume. *)
LEMMA ChainIsCluster ==
    ASSUME NEW c \in Links
    PROVE  InChain(c) <=> c \in Clusters
  BY Fat16Assumption, SMT DEF Links, Clusters, InChain, EOC, FREE

(* So is an answer in a chain, but for the one of a read that failed.      *)
LEMMA AnswerIsCluster ==
    ASSUME NEW c \in Answers
    PROVE  InChain(c) /\ c # BAD <=> c \in Clusters
  BY Fat16Assumption, SMT DEF Answers, Links, Clusters, InChain, EOC, FREE, BAD

(* Table entries are numbers.                                              *)
LEMMA LinksNat == Links \subseteq Nat /\ Answers \subseteq Nat /\ Links \subseteq Answers
  BY DEF Answers, Links, Clusters, FREE, EOC, BAD

(* Each constructor of a 32-byte cell builds a cell.                       *)
LEMMA CellTypes ==
    /\ Blank \in CellType
    /\ Deleted \in CellType
    /\ \A n \in Names \cup {"-"}, d \in BOOLEAN : Entry(n, d) \in CellType
    /\ \A v \in Values \cup {"-"}, i \in Nat : DataCell(v, i) \in CellType
  <1>1. Blank \in CellType
    BY DEF CellType, Blank
  <1>2. Deleted \in CellType
    BY DEF CellType, Blank, Deleted
  <1>3. ASSUME NEW n \in Names \cup {"-"}, NEW d \in BOOLEAN
        PROVE  Entry(n, d) \in CellType
    BY DEF CellType, Blank, Entry
  <1>4. ASSUME NEW v \in Values \cup {"-"}, NEW i \in Nat
        PROVE  DataCell(v, i) \in CellType
    BY DEF CellType, Blank, DataCell
  <1> QED
    BY <1>1, <1>2, <1>3, <1>4

(* Giving an entry its first cluster and its size keeps it an entry.       *)
LEMMA PlacedType ==
    ASSUME NEW e \in CellType, NEW f \in Clusters \cup {0}, NEW n \in Nat
    PROVE  Placed(e, f, n) \in CellType /\ Placed(e, f, n).first = f
  BY DEF CellType, Placed

(* A call starts with well-typed locals.                                   *)
LEMMA NewJobType ==
    ASSUME NEW op \in Ops, NEW dir \in Clusters \cup {0},
           NEW name \in Names \cup {"-"}, NEW val \in Values \cup {"-"},
           NEW len \in Nat
    PROVE  NewJob(op, dir, name, val, len) \in JobType
  <1>1. (IF dir = 0 THEN 1 ELSE dir) \in Nat
    BY DEF Clusters
  <1> QED
    BY <1>1, CellTypes DEF NewJob, JobType

(* So do the locals between calls.                                         *)
LEMMA NoJobType == NoJob \in JobType
  BY NewJobType DEF NoJob, Ops

(* Zeroed sectors and file sectors are sectors. *)
LEMMA SectorTypes ==
    ASSUME TypeOK
    PROVE  /\ ZeroSector \in [Cells -> CellType]
           /\ FileSector \in [Cells -> CellType]
  <1>1. ZeroSector \in [Cells -> CellType]
    BY CellTypes DEF ZeroSector
  <1>2. ASSUME NEW i \in Cells
        PROVE  (IF job.done + i <= job.len
                THEN DataCell(job.val, job.done + i) ELSE Blank) \in CellType
    <2>1. job.done + i \in Nat /\ job.val \in Values \cup {"-"}
      BY <1>2, Fat16Assumption, SMT DEF TypeOK, JobType, Cells
    <2> QED
      BY <2>1, CellTypes
  <1> QED
    BY <1>1, <1>2 DEF FileSector

(* A table write, cut short or not, writes a table. *)
LEMMA FatWriteType ==
    ASSUME TypeOK, NEW c \in Clusters, NEW v \in Links, NEW n \in 0 .. 2,
           fat_write_entry(c, v, n)
    PROVE  /\ fat' \in [1 .. 2 -> [Clusters -> Links]]
           /\ fat'[1] = IF n = 0 THEN fat[1] ELSE [fat[1] EXCEPT ![c] = v]
  BY SMT DEF TypeOK, fat_write_entry, Links

-----------------------------------------------------------------------------
(* The control points several actions share *)

CallOK == pc' \in Pcs /\ job' \in JobType /\ res' \in BOOLEAN /\ JobOK'

(* Returning leaves no call in progress.                                   *)
LEMMA ReturnOK ==
    ASSUME NEW r \in BOOLEAN, Return(r)
    PROVE  CallOK
  BY NoJobType DEF CallOK, Return, JobOK, Pcs

(* The loop head of fat16_write_file enters each of its two branches with  *)
(* the registers that branch needs.                                        *)
LEMMA WriteOnOK ==
    ASSUME NEW j \in JobType, WriteOn(j), res \in BOOLEAN,
           j.op = "echo", j.slot # NoSlot, j.first = 0 <=> j.last = 0
    PROVE  CallOK
  <1>1. CASE j.done < j.len
    <2>1. /\ pc' = "eoc" /\ job' = [j EXCEPT !.why = "data"]
          /\ res' = res
      BY <1>1 DEF WriteOn, Goto
    <2>2. job' \in JobType
      BY <2>1 DEF JobType
    <2> QED
      BY <2>1, <2>2 DEF CallOK, JobType, JobOK, Pcs
  <1>2. CASE ~(j.done < j.len)
    <2>1. /\ pc' = "dirent" /\ res' = res
          /\ job' = [j EXCEPT !.ent = Placed(j.ent, j.first, j.len)]
      BY <1>2 DEF WriteOn, Goto
    <2>2. Placed(j.ent, j.first, j.len) \in CellType
      BY PlacedType DEF JobType
    <2>3. job' \in JobType /\ job'.slot # NoSlot /\ job'.op = "echo"
      BY <2>1, <2>2 DEF JobType
    <2> QED
      BY <2>1, <2>3 DEF CallOK, JobOK, Pcs
  <1> QED
    BY <1>1, <1>2

(* find_or_alloc_slot answering 'free' leaves its callers with a slot.     *)
LEMMA NotFoundOK ==
    ASSUME NEW s \in Slots, NEW j0 \in JobType, NotFound(s, j0), res \in BOOLEAN,
           j0.op # "none", j0.first = 0, j0.last = 0, ~j0.freed
    PROVE  CallOK
  <1> DEFINE e == Entry(j0.name, j0.op = "mkdir")
             j == [j0 EXCEPT !.slot = s, !.ent = e]
  <1>1. e \in CellType
    BY CellTypes DEF JobType
  <1>2. s # NoSlot
    BY Fat16Assumption DEF Slots, NoSlot, Lbas
  <1> HIDE DEF e
  <1>3. /\ j \in JobType /\ j.slot = s /\ j.first = 0 /\ j.last = 0
        /\ j.op = j0.op /\ j.freed = j0.freed
    BY <1>1 DEF JobType
  <1> HIDE DEF j
  <1>4. CASE j0.op \in {"cd", "rm"}
    <2>1. Return(FALSE)
      BY <1>4 DEF NotFound
    <2> QED
      BY <2>1, ReturnOK
  <1>5. CASE j0.op = "touch"
    <2>1. Goto("dirent", j)
      BY <1>5 DEF NotFound, j, e
    <2> QED
      BY <2>1, <1>2, <1>3, <1>5 DEF CallOK, Goto, JobOK, Pcs
  <1>6. CASE j0.op = "echo"
    <2>1. WriteOn(j)
      BY <1>6 DEF NotFound, j, e
    <2> QED
      BY <2>1, <1>2, <1>3, <1>6, WriteOnOK
  <1>7. CASE j0.op = "mkdir"
    <2>1. Goto("eoc", [j EXCEPT !.why = "mkdir"])
      BY <1>7 DEF NotFound, j, e
    <2>2. job' \in JobType
      BY <2>1, <1>3 DEF Goto, JobType
    <2> QED
      BY <2>1, <2>2, <1>2, <1>3, <1>7 DEF CallOK, Goto, JobOK, Pcs, JobType
  <1> QED
    BY <1>4, <1>5, <1>6, <1>7 DEF JobType, Ops

(* extend_cluster_chain answering 0 is handled by every caller.            *)
LEMMA ExtendFailedOK ==
    ASSUME TypeInv, NEW h, ExtendFailed(h), pc \in {"eoc", "link", "zero"}
    PROVE  CallOK
  <1>1. job \in JobType /\ res \in BOOLEAN /\ job.op # "none"
    BY DEF TypeInv, TypeOK, JobOK
  <1>2. CASE job.why = "data" /\ job.first # 0
    <2>1. Goto("free", [job EXCEPT !.why = "undo", !.cur = job.first])
      BY <1>2 DEF ExtendFailed
    <2>2. job.first \in Answers /\ job.first \in Nat
      BY <1>1, <1>2 DEF JobType, Answers, Links, Clusters
    <2>3. job' \in JobType
      BY <2>1, <2>2, <1>1 DEF Goto, JobType
    <2> QED
      BY <2>1, <2>2, <2>3, <1>1 DEF CallOK, Goto, JobOK, Pcs, JobType
  <1>3. CASE ~(job.why = "data" /\ job.first # 0)
    BY <1>3, ReturnOK DEF ExtendFailed
  <1> QED
    BY <1>2, <1>3

(* The end of a directory either ends the call or grows the directory.     *)
LEMMA RanOffTheEndOK ==
    ASSUME TypeInv, RanOffTheEnd, pc = "scan"
    PROVE  CallOK
  <1>1. /\ job \in JobType /\ res \in BOOLEAN /\ job.op # "none"
        /\ ~job.freed /\ job.first = 0 /\ (job.dir # 0 => job.csec # 0)
    BY DEF TypeInv, TypeOK, JobOK
  <1>2. CASE job.op = "cd" \/ job.dir = 0
    BY <1>2, ReturnOK DEF RanOffTheEnd
  <1>3. CASE ~(job.op = "cd" \/ job.dir = 0)
    <2>1. Goto("eoc", [job EXCEPT !.why = "slot", !.last = job.csec])
      BY <1>3 DEF RanOffTheEnd
    <2>2. job' \in JobType
      BY <2>1, <1>1 DEF Goto, JobType
    <2> QED
      BY <2>1, <2>2, <1>1, <1>3 DEF CallOK, Goto, JobOK, Pcs, JobType
  <1> QED
    BY <1>2, <1>3

(* find_or_alloc_slot answering 'exists' hands over the entry's own chain. *)
LEMMA FoundOK ==
    ASSUME TypeInv, pc = "scan", NEW s \in Slots, Found(s)
    PROVE  /\ CallOK
           /\ path' \in Seq(Clusters \cup {0})
           /\ harm' \subseteq {"torn", "fault", "orphan", "overdir", "wild"}
  <1> DEFINE e == CellAt(s)
             j == [job EXCEPT !.slot = s, !.ent = e]
  <1>1. /\ job \in JobType /\ res \in BOOLEAN /\ job.op # "none"
        /\ ~job.freed /\ job.first = 0 /\ job.last = 0
        /\ path \in Seq(Clusters \cup {0})
        /\ harm \subseteq {"torn", "fault", "orphan", "overdir", "wild"}
    BY DEF TypeInv, TypeOK, JobOK
  <1>2. e \in CellType
    BY DEF TypeInv, TypeOK, CellAt, Slots
  <1>3. s # NoSlot
    BY Fat16Assumption DEF Slots, NoSlot, Lbas
  <1>4. e.first \in Clusters \cup {0} /\ e.first \in Answers /\ e.first \in Nat
    BY <1>2 DEF CellType, Answers, Links, Clusters, FREE
  <1> HIDE DEF e
  <1>5. /\ j \in JobType /\ j.slot = s /\ j.first = 0 /\ j.last = 0
        /\ j.op = job.op /\ j.freed = job.freed
    BY <1>1, <1>2 DEF JobType
  <1> HIDE DEF j
  <1>6. CASE job.op \in {"touch", "mkdir"}
    <2>1. Return(TRUE) /\ UNCHANGED <<path, harm>>
      BY <1>6 DEF Found
    <2> QED
      BY <2>1, <1>1, ReturnOK
  <1>7. CASE job.op = "cd"
    <2>1. /\ \/ path' = Append(path, e.first) /\ Return(TRUE)
             \/ path' = path /\ Return(FALSE)
          /\ UNCHANGED harm
      BY <1>7 DEF Found, e
    <2>2. Append(path, e.first) \in Seq(Clusters \cup {0})
      <3> DEFINE T == Clusters \cup {0}
      <3>1. path \in Seq(T) /\ e.first \in T
        BY <1>1, <1>4
      <3> HIDE DEF T, e
      <3>2. Append(path, e.first) \in Seq(T)
        BY <3>1
      <3> QED
        BY <3>2 DEF T
    <2>3. CallOK
      BY <2>1, ReturnOK
    <2> QED
      BY <2>1, <2>2, <2>3, <1>1
  <1>8. CASE job.op = "rm"
    <2>1. /\ \/ Goto("free", [j EXCEPT !.why = "delete", !.freed = TRUE, !.cur = e.first])
             \/ Goto("mark", j)
          /\ UNCHANGED <<path, harm>>
      BY <1>8 DEF Found, e, j
    <2>2. CASE Goto("mark", j)
      BY <2>1, <2>2, <1>1, <1>3, <1>5, <1>8 DEF CallOK, Goto, JobOK, Pcs
    <2>3. CASE Goto("free", [j EXCEPT !.why = "delete", !.freed = TRUE, !.cur = e.first])
      <3>1. job' \in JobType
        BY <2>3, <1>4, <1>5 DEF Goto, JobType
      <3> QED
        BY <2>1, <2>3, <3>1, <1>1, <1>3, <1>4, <1>5, <1>8
           DEF CallOK, Goto, JobOK, Pcs, JobType
    <2> QED
      BY <2>1, <2>2, <2>3
  <1>9. CASE job.op = "echo"
    <2>1. /\ \/ Goto("free", [j EXCEPT !.why = "rewrite", !.freed = TRUE, !.cur = e.first])
             \/ WriteOn(j)
          /\ UNCHANGED path
          /\ harm' \subseteq harm \cup {"overdir"}
      BY <1>9 DEF Found, e, j, Harm
    <2>2. CASE WriteOn(j)
      BY <2>1, <2>2, <1>1, <1>3, <1>5, <1>9, WriteOnOK
    <2>3. CASE Goto("free", [j EXCEPT !.why = "rewrite", !.freed = TRUE, !.cur = e.first])
      <3>1. job' \in JobType
        BY <2>3, <1>4, <1>5 DEF Goto, JobType
      <3> QED
        BY <2>1, <2>3, <3>1, <1>1, <1>3, <1>4, <1>5, <1>9
           DEF CallOK, Goto, JobOK, Pcs, JobType
    <2> QED
      BY <2>1, <2>2, <2>3
  <1> QED
    BY <1>1, <1>6, <1>7, <1>8, <1>9 DEF JobType, Ops

(* extend_cluster_chain answering a cluster suits all three callers.       *)
LEMMA ExtendedOK ==
    ASSUME TypeInv, pc = "zero", Extended
    PROVE  CallOK
  <1>1. /\ job \in JobType /\ res \in BOOLEAN /\ job.op # "none"
        /\ job.new \in Clusters
    BY DEF TypeInv, TypeOK, JobOK, JobType
  <1>2. CASE job.why = "slot"
    <2> DEFINE s == [lba |-> cluster_to_lba(job.new), idx |-> 1]
               j == [job EXCEPT !.last = 0]
    <2>1. NotFound(s, j)
      BY <1>2 DEF Extended
    <2>2. s \in Slots
      BY <1>1, ClusterLba, Fat16Assumption DEF Slots, Cells
    <2>3. job.first = 0 /\ ~job.freed
      BY <1>2 DEF TypeInv, JobOK
    <2>4. /\ j \in JobType /\ j.op # "none" /\ j.first = 0 /\ j.last = 0
          /\ ~j.freed
      BY <1>1, <2>3 DEF JobType
    <2> HIDE DEF s, j
    <2> QED
      BY <2>1, <2>2, <2>4, <1>1, NotFoundOK
  <1>3. CASE job.why = "mkdir"
    <2> DEFINE e == Placed(job.ent, job.new, 0)
    <2>1. e \in CellType
      BY <1>1, PlacedType DEF JobType
    <2>2. Goto("dirent", [job EXCEPT !.ent = e])
      BY <1>3 DEF Extended
    <2> HIDE DEF e
    <2>3. job' \in JobType
      BY <2>1, <2>2, <1>1 DEF Goto, JobType
    <2>4. job.slot # NoSlot
      BY <1>3 DEF TypeInv, JobOK
    <2> QED
      BY <2>2, <2>3, <2>4, <1>1 DEF CallOK, Goto, JobOK, Pcs, JobType
  <1>4. CASE job.why = "data"
    <2> DEFINE f == IF job.first = 0 THEN job.new ELSE job.first
    <2>1. Goto("data", [job EXCEPT !.last = job.new, !.first = f])
      BY <1>1, <1>4 DEF Extended, JobType
    <2>2. f \in Clusters /\ f # 0 /\ job.new # 0
      BY <1>1 DEF JobType, Clusters
    <2> HIDE DEF f
    <2>3. job' \in JobType
      BY <2>1, <2>2, <1>1 DEF Goto, JobType
    <2>4. job.slot # NoSlot /\ job.op = "echo"
      BY <1>4 DEF TypeInv, JobOK
    <2> QED
      BY <2>1, <2>2, <2>3, <2>4, <1>1 DEF CallOK, Goto, JobOK, Pcs, JobType
  <1> QED
    BY <1>2, <1>3, <1>4 DEF TypeInv, JobOK

-----------------------------------------------------------------------------
(* Every step keeps the types and the registers *)

(* Starting an operation keeps the types.                                  *)
LEMMA CallTyped ==
    ASSUME TypeInv, NEW op \in Ops \ {"none"}, NEW dir \in Clusters \cup {0},
           NEW name \in Names, NEW val \in Values \cup {"-"}, NEW len \in Nat,
           Call(op, dir, name, val, len)
    PROVE  TypeInv'
  <1> DEFINE j == NewJob(op, dir, name, val, len)
  <1>1. /\ pc = "idle" /\ pc' = "scan" /\ job' = j /\ res' = res
        /\ UNCHANGED <<disk, hint, path, faults, harm>>
    BY DEF Call, Goto
  <1>4. j \in JobType
    BY NewJobType
  <1>5. /\ j.op = op /\ ~j.freed /\ j.first = 0 /\ j.last = 0
        /\ j.dir = dir /\ j.csec = dir
        /\ IF dir = 0 THEN j.cur >= 1 ELSE j.cur \in Answers
    BY DEF NewJob, Answers, Links, Clusters
  <1> HIDE DEF j
  <1>6. JobOK'
    BY <1>1, <1>4, <1>5 DEF JobOK
  <1>7. TypeOK'
    BY <1>1, <1>4 DEF TypeInv, TypeOK, Pcs, disk
  <1> QED
    BY <1>6, <1>7 DEF TypeInv

(* Every command of the terminal and of the desktop starts such a call.    *)
LEMMA CallsTyped ==
    ASSUME TypeInv, TerminalCall \/ DesktopCall
    PROVE  TypeInv'
  <1>1. Cwd \in Clusters \cup {0}
    BY DEF TypeInv, TypeOK, Cwd
  <1>2. CASE DesktopCall
    <2>1. PICK op \in DesktopOps, n \in Names, v \in Values, len \in Lens :
             Call(op, 0, n, v, len)
      BY <1>2 DEF DesktopCall
    <2>2. op \in Ops \ {"none"} /\ len \in Nat
      BY Fat16Assumption DEF Ops
    <2> QED
      BY <2>1, <2>2, CallTyped
  <1>3. CASE TerminalCall
    <2>1. PICK op \in TerminalOps \ {"cdup"}, n \in Names :
             \/ \E v \in Values, len \in Lens : Call(op, Cwd, n, v, len)
             \/ Call(op, Cwd, n, "-", 0)
      BY <1>3 DEF TerminalCall
    <2>2. Lens \subseteq Nat /\ op \in Commands /\ op # "cdup"
      BY Fat16Assumption
    <2>5. op \in Ops \ {"none"}
      BY <2>2 DEF Ops, Commands
    <2> HIDE DEF Cwd
    <2>3. CASE Call(op, Cwd, n, "-", 0)
      BY <2>2, <2>3, <2>5, <1>1, CallTyped
    <2>4. ASSUME NEW v \in Values, NEW len \in Lens, Call(op, Cwd, n, v, len)
          PROVE  TypeInv'
      BY <2>2, <2>4, <2>5, <1>1, CallTyped
    <2> QED
      BY <2>1, <2>3, <2>4
  <1> QED
    BY <1>2, <1>3

(* Leaving a directory keeps the path stack a stack of clusters.           *)
LEMMA CdTyped ==
    ASSUME TypeInv, CdUp \/ CdRoot
    PROVE  TypeInv'
  <1> DEFINE T == Clusters \cup {0}
  <1>1. path \in Seq(T)
    BY DEF TypeInv, TypeOK
  <1> HIDE DEF T
  <1>2. path' = <<>> \/ (path # <<>> /\ path' = SubSeq(path, 1, Len(path) - 1))
    BY DEF CdUp, CdRoot
  <1>4. path' \in Seq(T)
    <2>1. \A i \in 1 .. Len(path) - 1 : path[i] \in T
      BY <1>1
    <2>2. SubSeq(path, 1, Len(path) - 1) \in Seq(T)
      BY <1>1, <2>1, SubSeqProperties
    <2>3. <<>> \in Seq(T)
      BY EmptySeq
    <2> QED
      BY <1>2, <2>2, <2>3
  <1>3. UNCHANGED <<disk, hint, pc, job, res, faults, harm>>
    BY DEF CdUp, CdRoot
  <1> QED
    BY <1>3, <1>4 DEF TypeInv, TypeOK, JobOK, disk, T

(* The sector under the cursor is a sector of the volume. *)
LEMMA ScanLbaType ==
    ASSUME TypeInv, pc = "scan", ~Exhausted
    PROVE  ScanLba \in Lbas /\ (job.dir # 0 => job.cur \in Clusters)
  <1>1. CASE job.dir = 0
    BY <1>1, Fat16Assumption
       DEF TypeInv, TypeOK, JobOK, JobType, ScanLba, Exhausted, Lbas
  <1>2. CASE job.dir # 0
    <2>1. job.cur \in Answers /\ InChain(job.cur) /\ job.cur # BAD
      BY <1>2 DEF TypeInv, JobOK, Exhausted
    <2>2. job.cur \in Clusters
      BY <2>1, AnswerIsCluster
    <2> QED
      BY <1>2, <2>2, ClusterLba DEF ScanLba
  <1> QED
    BY <1>1, <1>2

(* Going on to the next sector keeps the registers in range, whatever the  *)
(* table answered.                                                         *)
LEMMA ScanOnOK ==
    ASSUME TypeInv, NEW next \in Nat, ScanOn(next),
           IF job.dir = 0 THEN next >= 1 ELSE next \in Answers
    PROVE  CallOK /\ UNCHANGED <<fat, sec, hint, path>>
  <1> DEFINE c == IF job.dir = 0 THEN 0 ELSE job.cur
  <1>1. pc = "scan" /\ job.op # "none" /\ ~job.freed /\ job.first = 0 /\ job.last = 0
    BY DEF TypeInv, JobOK, ScanOn
  <1>2. PICK s \in Slots \cup {NoSlot} :
           Goto("scan", [job EXCEPT !.free = s, !.csec = c, !.cur = next])
    BY DEF ScanOn
  <1>3. job.dir # 0 => job.cur \in Clusters
    BY <1>1, ScanLbaType DEF ScanOn
  <1>4. c \in Clusters \cup {0} /\ (job.dir # 0 => c # 0)
    BY <1>3 DEF Clusters
  <1> HIDE DEF c
  <1>5. job' \in JobType
    BY <1>2, <1>4 DEF Goto, JobType, TypeInv, TypeOK
  <1>6. /\ job'.op = job.op /\ job'.freed = job.freed /\ job'.first = job.first
        /\ job'.last = job.last /\ job'.dir = job.dir
        /\ job'.csec = c /\ job'.cur = next
    BY <1>2, <1>4 DEF Goto, JobType, TypeInv, TypeOK
  <1>7. CallOK
    BY <1>1, <1>2, <1>4, <1>5, <1>6 DEF CallOK, Goto, JobOK, Pcs, TypeInv, TypeOK
  <1> QED
    BY <1>7 DEF ScanOn, disk

(* Every step of a directory scan keeps the types.                         *)
LEMMA ScanTyped ==
    ASSUME TypeInv, Scan
    PROVE  TypeInv'
  <1>1. pc = "scan" /\ job.op # "none" /\ ~job.freed /\ job.first = 0 /\ job.last = 0
    BY DEF TypeInv, JobOK, Scan, ScanHit, ScanEndMarker, ScanNextSector, ScanLosesTrack, ScanOn,
           ScanExhausted, ScanReadError
  <1>2. CASE ScanHit
    <2>1. PICK i \in Cells : Found([lba |-> ScanLba, idx |-> i])
      BY <1>2 DEF ScanHit
    <2>2. [lba |-> ScanLba, idx |-> i] \in Slots
      BY <1>2, <1>1, ScanLbaType DEF ScanHit, Slots
    <2>3. /\ CallOK
          /\ path' \in Seq(Clusters \cup {0})
          /\ harm' \subseteq {"torn", "fault", "orphan", "overdir", "wild"}
      BY <2>1, <2>2, <1>1, FoundOK
    <2>4. UNCHANGED <<fat, sec, hint, faults>>
      BY <1>2 DEF ScanHit, NoFault, disk
    <2> QED
      BY <2>3, <2>4 DEF CallOK, TypeInv, TypeOK
  <1>3. CASE ScanEndMarker
    <2>1. PICK i \in Cells, s \in Slots \cup {NoSlot} :
             NotFound(IF s = NoSlot THEN [lba |-> ScanLba, idx |-> i] ELSE s, job)
      BY <1>3 DEF ScanEndMarker
    <2>2. (IF s = NoSlot THEN [lba |-> ScanLba, idx |-> i] ELSE s) \in Slots
      BY <1>3, <1>1, ScanLbaType DEF ScanEndMarker, Slots
    <2>3. CallOK
      BY <2>1, <2>2, <1>1, NotFoundOK DEF TypeInv, TypeOK
    <2>4. UNCHANGED <<fat, sec, hint, path, faults, harm>>
      BY <1>3 DEF ScanEndMarker, NoFault, disk
    <2> QED
      BY <2>3, <2>4 DEF CallOK, TypeInv, TypeOK
  <1>4. CASE ScanNextSector
    <2>1. job.dir # 0 => job.cur \in Clusters
      BY <1>4, <1>1, ScanLbaType DEF ScanNextSector, ScanOn
    <2>2. /\ NextSector \in Nat
          /\ IF job.dir = 0 THEN NextSector >= 1 ELSE NextSector \in Answers
      <3>1. CASE job.dir = 0
        BY <3>1 DEF NextSector, TypeInv, TypeOK, JobType
      <3>2. CASE job.dir # 0
        <4>1. fat_read_entry(job.cur, TRUE) \in Links
          BY <2>1, <3>2 DEF fat_read_entry, TypeInv, TypeOK, Links
        <4> QED
          BY <3>2, <4>1, LinksNat DEF NextSector
      <3> QED
        BY <3>1, <3>2
    <2>3. CallOK /\ UNCHANGED <<fat, sec, hint, path>>
      BY <1>4, <2>2, ScanOnOK DEF ScanNextSector
    <2>4. UNCHANGED <<faults, harm>>
      BY <1>4 DEF ScanNextSector, NoFault
    <2> QED
      BY <2>3, <2>4 DEF CallOK, TypeInv, TypeOK
  <1>7. CASE ScanLosesTrack
    <2>1. job.dir # 0 /\ ScanOn(BAD) /\ BAD \in Nat /\ BAD \in Answers
      BY <1>7 DEF ScanLosesTrack, fat_read_entry, Answers, BAD
    <2>2. CallOK /\ UNCHANGED <<fat, sec, hint, path>>
      BY <2>1, ScanOnOK
    <2>3. faults' = faults + 1 /\ harm' = harm \cup {"fault"}
      BY <1>7 DEF ScanLosesTrack, Fault, Harm
    <2> QED
      BY <2>2, <2>3 DEF CallOK, TypeInv, TypeOK
  <1>5. CASE ScanExhausted
    <2>1. CallOK
      BY <1>1, <1>5, RanOffTheEndOK DEF ScanExhausted
    <2>2. UNCHANGED <<fat, sec, hint, path, faults, harm>>
      BY <1>5 DEF ScanExhausted, NoFault, disk
    <2> QED
      BY <2>1, <2>2 DEF CallOK, TypeInv, TypeOK
  <1>6. CASE ScanReadError
    <2>1. CallOK
      BY <1>1, <1>6, RanOffTheEndOK DEF ScanReadError
    <2>2. /\ UNCHANGED <<fat, sec, hint, path>>
          /\ faults' = faults + 1 /\ harm' = harm \cup {"fault"}
      BY <1>6 DEF ScanReadError, Fault, Harm, disk
    <2> QED
      BY <2>1, <2>2 DEF CallOK, TypeInv, TypeOK
  <1> QED
    BY <1>2, <1>3, <1>4, <1>5, <1>6, <1>7 DEF Scan

(* The next-fit hint stays within one past the last cluster.               *)
LEMMA HintType ==
    ASSUME NEW c \in Clusters
    PROVE  HintAfter(c) \in 2 .. NumClusters + 2
  BY Fat16Assumption DEF HintAfter, Clusters

(* Every step of extend_cluster_chain keeps the types.                     *)
LEMMA ExtendTyped ==
    ASSUME TypeInv, Extend
    PROVE  TypeInv'
  <1>1. /\ job \in JobType /\ harm \subseteq {"torn", "fault", "orphan", "overdir", "wild"}
        /\ faults \in Nat /\ sec \in [Lbas -> [Cells -> CellType]]
    BY DEF TypeInv, TypeOK
  <1>2. CASE DiskFull
    <2>1. CallOK
      BY <1>2, ExtendFailedOK DEF DiskFull
    <2>2. UNCHANGED <<fat, sec, hint, path, faults>> /\ harm' \subseteq harm \cup {"torn"}
      BY <1>2 DEF DiskFull, ExtendFailed, Harm, TornIf, NoFault, disk
    <2> QED
      BY <2>1, <2>2 DEF CallOK, TypeInv, TypeOK
  <1>3. CASE MarkEoc
    <2>1. PICK c \in Clusters :
             /\ hint' = HintAfter(c)
             /\ \/ /\ fat_write_entry(c, EOC, 2)
                   /\ Goto(IF job.last >= 2 THEN "link" ELSE "zero",
                           [job EXCEPT !.new = c])
                   /\ NoFault /\ UNCHANGED harm
                \/ \E n \in 0 .. 1 :
                   /\ fat_write_entry(c, EOC, n)
                   /\ Fault("write") /\ ExtendFailed({"fault"})
      BY <1>3 DEF MarkEoc
    <2>2. hint' \in 2 .. NumClusters + 2
      BY <2>1, HintType
    <2>3. fat' \in [1 .. 2 -> [Clusters -> Links]]
      <3>1. PICK n \in 0 .. 2 : fat_write_entry(c, EOC, n)
        BY <2>1
      <3>2. EOC \in Links
        BY DEF Links
      <3> QED
        BY <3>1, <3>2, FatWriteType DEF TypeInv
    <2>4. CASE /\ Goto(IF job.last >= 2 THEN "link" ELSE "zero", [job EXCEPT !.new = c])
               /\ NoFault /\ UNCHANGED harm
      <3>1. job' \in JobType
        BY <2>4, <1>1 DEF Goto, JobType
      <3>2. job'.new = c /\ c # 0
        BY <2>4, <1>1 DEF Goto, JobType, Clusters
      <3>3. JobOK'
        BY <2>4, <3>2, <1>1, <1>3
           DEF MarkEoc, Goto, TypeInv, JobOK, JobType, Clusters
      <3> QED
        BY <2>2, <2>3, <2>4, <3>1, <3>3, <1>3
           DEF MarkEoc, Goto, NoFault, TypeInv, TypeOK, Pcs, Links
    <2>5. CASE Fault("write") /\ ExtendFailed({"fault"})
      <3>1. CallOK
        BY <1>3, <2>5, ExtendFailedOK DEF MarkEoc
      <3>2. faults' = faults + 1 /\ harm' \subseteq harm \cup {"fault", "torn"}
        BY <2>5 DEF ExtendFailed, Fault, Harm, TornIf
      <3> QED
        BY <2>2, <2>3, <3>1, <3>2, <1>3 DEF MarkEoc, CallOK, TypeInv, TypeOK, Links
    <2> QED
      BY <2>1, <2>4, <2>5
  <1>6. CASE MarkEocUnread
    <2>1. pc = "eoc" /\ faults' = faults + 1 /\ UNCHANGED <<sec, path>>
      BY <1>6 DEF MarkEocUnread, Fault
    <2>2. CASE ExtendFailed({"fault"}) /\ UNCHANGED <<fat, hint>>
      <3>1. CallOK
        BY <2>1, <2>2, ExtendFailedOK
      <3>2. harm' \subseteq harm \cup {"fault", "torn"}
        BY <2>2 DEF ExtendFailed, Harm, TornIf
      <3> QED
        BY <1>1, <2>1, <2>2, <3>1, <3>2 DEF CallOK, TypeInv, TypeOK
    <2>3. ASSUME NEW c \in FreeClusters, hint' = HintAfter(c),
                 \/ /\ fat_write_entry(c, EOC, 2)
                    /\ Goto(IF job.last >= 2 THEN "link" ELSE "zero", [job EXCEPT !.new = c])
                    /\ Harm({"fault"})
                 \/ \E n \in 0 .. 1 : fat_write_entry(c, EOC, n) /\ ExtendFailed({"fault"})
          PROVE  TypeInv'
      <3>0. c \in Clusters
        BY DEF FreeClusters
      <3>1. hint' \in 2 .. NumClusters + 2
        BY <2>3, <3>0, HintType
      <3>2. fat' \in [1 .. 2 -> [Clusters -> Links]]
        <4>1. PICK n \in 0 .. 2 : fat_write_entry(c, EOC, n)
          BY <2>3
        <4>2. EOC \in Links
          BY DEF Links
        <4> QED
          BY <3>0, <4>1, <4>2, FatWriteType DEF TypeInv
      <3>3. CASE /\ Goto(IF job.last >= 2 THEN "link" ELSE "zero", [job EXCEPT !.new = c])
                 /\ Harm({"fault"})
        <4>1. job' \in JobType
          BY <3>0, <3>3, <1>1 DEF Goto, JobType
        <4>2. job'.new = c /\ c # 0
          BY <3>0, <3>3, <1>1 DEF Goto, JobType, Clusters
        <4>3. JobOK'
          BY <3>0, <3>3, <4>2, <1>1, <2>1 DEF Goto, TypeInv, JobOK, JobType, Clusters
        <4>4. harm' = harm \cup {"fault"} /\ pc' \in Pcs /\ UNCHANGED res
          BY <3>3 DEF Harm, Goto, Pcs
        <4> QED
          BY <1>1, <2>1, <3>1, <3>2, <4>1, <4>3, <4>4 DEF TypeInv, TypeOK, Links
      <3>4. CASE ExtendFailed({"fault"})
        <4>1. CallOK
          BY <2>1, <3>4, ExtendFailedOK
        <4>2. harm' \subseteq harm \cup {"fault", "torn"}
          BY <3>4 DEF ExtendFailed, Harm, TornIf
        <4> QED
          BY <1>1, <2>1, <3>1, <3>2, <4>1, <4>2 DEF CallOK, TypeInv, TypeOK, Links
      <3> QED
        BY <2>3, <3>3, <3>4
    <2> QED
      BY <1>6, <2>2, <2>3 DEF MarkEocUnread
  <1>4. CASE LinkCluster
    <2>1. job.last \in Clusters /\ job.new \in Clusters
      BY <1>4, <1>1 DEF LinkCluster, TypeInv, JobOK, JobType
    <2>2. fat' \in [1 .. 2 -> [Clusters -> Links]]
      <3>1. PICK n \in 0 .. 2 : fat_write_entry(job.last, job.new, n)
        BY <1>4 DEF LinkCluster
      <3>2. job.new \in Links
        BY <2>1 DEF Links
      <3> QED
        BY <2>1, <3>1, <3>2, FatWriteType DEF TypeInv
    <2>3. CASE Goto("zero", job) /\ NoFault /\ UNCHANGED harm
      <3>1. JobOK'
        BY <2>3, <1>4 DEF LinkCluster, Goto, TypeInv, JobOK
      <3> QED
        BY <2>2, <2>3, <3>1, <1>4
           DEF LinkCluster, Goto, NoFault, TypeInv, TypeOK, Pcs, Links
    <2>4. CASE Fault("write") /\ ExtendFailed({"fault"})
      <3>1. CallOK
        BY <1>4, <2>4, ExtendFailedOK DEF LinkCluster
      <3>2. faults' = faults + 1 /\ harm' \subseteq harm \cup {"fault", "torn"}
        BY <2>4 DEF ExtendFailed, Fault, Harm, TornIf
      <3> QED
        BY <2>2, <3>1, <3>2, <1>4 DEF LinkCluster, CallOK, TypeInv, TypeOK, Links
    <2> QED
      BY <1>4, <2>3, <2>4 DEF LinkCluster
  <1>5. CASE ZeroCluster
    <2>1. job.new \in Clusters
      BY <1>5, <1>1 DEF ZeroCluster, TypeInv, JobOK, JobType
    <2>2. cluster_to_lba(job.new) \in Lbas
      BY <2>1, ClusterLba
    <2>3. CASE /\ sec' = [sec EXCEPT ![cluster_to_lba(job.new)]
                                       = CleanSector(cluster_to_lba(job.new))]
               /\ Extended /\ NoFault /\ UNCHANGED harm
      <3>1. CallOK
        BY <1>5, <2>3, ExtendedOK DEF ZeroCluster
      <3>2. sec' \in [Lbas -> [Cells -> CellType]]
        BY <2>2, <2>3, <1>1, SectorTypes DEF CleanSector, TypeInv
      <3> QED
        BY <2>3, <3>1, <3>2, <1>5 DEF ZeroCluster, CallOK, NoFault, TypeInv, TypeOK
    <2>4. CASE Fault("write") /\ ExtendFailed({"fault"}) /\ UNCHANGED sec
      <3>1. CallOK
        BY <1>5, <2>4, ExtendFailedOK DEF ZeroCluster
      <3>2. faults' = faults + 1 /\ harm' \subseteq harm \cup {"fault", "torn"}
        BY <2>4 DEF ExtendFailed, Fault, Harm, TornIf
      <3> QED
        BY <2>4, <3>1, <3>2, <1>5 DEF ZeroCluster, CallOK, TypeInv, TypeOK
    <2> QED
      BY <1>5, <2>3, <2>4 DEF ZeroCluster
  <1> QED
    BY <1>2, <1>3, <1>4, <1>5, <1>6 DEF Extend

(* Every step of free_cluster_chain keeps the types.                       *)
LEMMA ReleaseTyped ==
    ASSUME TypeInv, Release
    PROVE  TypeInv'
  <1>1. /\ job \in JobType /\ harm \subseteq {"torn", "fault", "orphan", "overdir", "wild"}
        /\ faults \in Nat /\ res \in BOOLEAN
    BY DEF TypeInv, TypeOK
  <1>2. pc = "free" /\ job.cur \in Answers
    BY DEF Release, FreeCluster, FreeLosesTrack, FreeBeyond, FreeDone, TypeInv, JobOK
  <1>3. CASE FreeCluster
    <2>1. job.cur \in Clusters
      BY <1>2, <1>3, AnswerIsCluster DEF FreeCluster
    <2>2. fat' \in [1 .. 2 -> [Clusters -> Links]]
      <3>1. PICK n \in 0 .. 2 : fat_write_entry(job.cur, FREE, n)
        BY <1>3 DEF FreeCluster
      <3>2. FREE \in Links
        BY DEF Links
      <3> QED
        BY <2>1, <3>1, <3>2, FatWriteType DEF TypeInv
    <2>3. fat_read_entry(job.cur, TRUE) \in Answers /\ Answers \subseteq Nat
      <3>1. fat_read_entry(job.cur, TRUE) \in Links
        BY <2>1 DEF fat_read_entry, TypeInv, TypeOK, Links
      <3> QED
        BY <3>1, LinksNat
    <2>4. Goto("free", [job EXCEPT !.cur = fat_read_entry(job.cur, TRUE)])
      BY <1>3 DEF FreeCluster
    <2>5. job' \in JobType
      BY <2>3, <2>4, <1>1 DEF Goto, JobType
    <2>6. JobOK'
      BY <2>3, <2>4, <1>1, <1>2 DEF Goto, TypeInv, JobOK, JobType
    <2>7. /\ faults' \in Nat
          /\ harm' \subseteq {"torn", "fault", "orphan", "overdir", "wild"}
      BY <1>1, <1>3 DEF FreeCluster, NoFault, Fault, Harm, TornIf
    <2> QED
      BY <2>2, <2>4, <2>5, <2>6, <2>7, <1>3
         DEF FreeCluster, Goto, TypeInv, TypeOK, Pcs, Links
  <1>5. ASSUME NEW next \in Answers, Goto("free", [job EXCEPT !.cur = next])
        PROVE  job' \in JobType /\ JobOK' /\ pc' \in Pcs /\ UNCHANGED res
    <2>1. next \in Nat
      BY LinksNat
    <2>2. job' \in JobType
      BY <2>1, <1>1, <1>5 DEF Goto, JobType
    <2> QED
      BY <2>1, <2>2, <1>1, <1>2, <1>5 DEF Goto, TypeInv, JobOK, JobType, Pcs
  <1>6. CASE FreeLosesTrack
    <2>1. job.cur \in Clusters
      BY <1>2, <1>6, AnswerIsCluster DEF FreeLosesTrack
    <2>2. fat' \in [1 .. 2 -> [Clusters -> Links]]
      <3>1. PICK n \in 0 .. 2 : fat_write_entry(job.cur, FREE, n)
        BY <1>6 DEF FreeLosesTrack
      <3>2. FREE \in Links
        BY DEF Links
      <3> QED
        BY <2>1, <3>1, <3>2, FatWriteType DEF TypeInv
    <2>3. job' \in JobType /\ JobOK' /\ pc' \in Pcs /\ UNCHANGED res
      <3>1. Goto("free", [job EXCEPT !.cur = BAD]) /\ BAD \in Answers
        BY <1>6 DEF FreeLosesTrack, fat_read_entry, Answers
      <3> QED
        BY <3>1, <1>5
    <2>4. /\ faults' = faults + 1 /\ harm' = harm \cup {"fault"}
          /\ UNCHANGED <<sec, hint, path>>
      BY <1>6 DEF FreeLosesTrack, Fault, Harm
    <2> QED
      BY <1>1, <2>2, <2>3, <2>4 DEF TypeInv, TypeOK, Links
  <1>7. CASE FreeBeyond
    <2>0. PICK l \in BadLbas, l2 \in BadLbas, c \in Clusters : \E next \in WordsAt(l, c) :
             /\ ClearWords(l, l2, c) /\ Goto("free", [job EXCEPT !.cur = next])
             /\ Harm(IF next = FREE /\ UNCHANGED disk THEN {} ELSE {"wild"})
      BY <1>7 DEF FreeBeyond
    <2>1. PICK next \in WordsAt(l, c) :
             /\ ClearWords(l, l2, c) /\ Goto("free", [job EXCEPT !.cur = next])
             /\ Harm(IF next = FREE /\ UNCHANGED disk THEN {} ELSE {"wild"})
      BY <2>0
    <2>2. next \in Answers
      <3>1. fat[2][c] \in Links
        BY DEF TypeInv, TypeOK, Links
      <3> QED
        BY <2>1, <3>1 DEF WordsAt, Answers, Links
    <2>3. job' \in JobType /\ JobOK' /\ pc' \in Pcs /\ UNCHANGED res
      BY <1>5, <2>1, <2>2
    <2>4. fat' \in [1 .. 2 -> [Clusters -> Links]]
      BY <2>1, SMT DEF TypeInv, TypeOK, Links, ClearWords
    <2>5. sec' \in [Lbas -> [Cells -> CellType]]
      <3>1. \A cell \in CellType : WordCleared(cell) \in CellType
        BY DEF WordCleared, CellType
      <3>2. sec \in [Lbas -> [Cells -> CellType]]
        BY DEF TypeInv, TypeOK
      <3> QED
        BY <2>1, <3>1, <3>2 DEF ClearWords
    <2>6. harm' \subseteq harm \cup {"wild"} /\ UNCHANGED <<hint, path, faults>>
      BY <2>1, <1>7 DEF FreeBeyond, Harm, NoFault
    <2> QED
      BY <1>1, <2>3, <2>4, <2>5, <2>6 DEF TypeInv, TypeOK, Links
  <1>4. CASE FreeDone
    <2>1. CallOK /\ harm' \subseteq harm \cup {"torn"}
      <3>1. CASE job.why = "delete"
        <4>1. Goto("mark", job) /\ UNCHANGED harm
          BY <1>4, <3>1 DEF FreeDone
        <4>2. job.slot # NoSlot /\ job.op # "none"
          BY <1>2, <3>1 DEF TypeInv, JobOK
        <4> QED
          BY <4>1, <4>2, <1>1 DEF CallOK, Goto, JobOK, Pcs
      <3>2. CASE job.why = "rewrite"
        <4>1. WriteOn(job) /\ UNCHANGED harm
          BY <1>4, <3>2 DEF FreeDone
        <4>2. /\ job.slot # NoSlot /\ job.op = "echo"
              /\ job.first = 0 /\ job.last = 0
          BY <1>2, <3>2 DEF TypeInv, JobOK
        <4> QED
          BY <4>1, <4>2, <1>1, WriteOnOK
      <3>3. CASE job.why = "undo"
        <4>1. Return(FALSE) /\ harm' \subseteq harm \cup {"torn"}
          BY <1>4, <3>3 DEF FreeDone, Harm, TornIf
        <4> QED
          BY <4>1, ReturnOK
      <3> QED
        BY <1>2, <3>1, <3>2, <3>3 DEF TypeInv, JobOK
    <2> QED
      BY <1>4, <2>1 DEF FreeDone, CallOK, NoFault, TypeInv, TypeOK, disk
  <1> QED
    BY <1>3, <1>4, <1>6, <1>7 DEF Release

(* write_dirent_slot changes the one entry it is given.                    *)
LEMMA WriteCellType ==
    ASSUME TypeOK, NEW s \in Slots, NEW e \in CellType, WriteCell(s, e)
    PROVE  /\ sec' \in [Lbas -> [Cells -> CellType]]
           /\ \A t \in Slots : CellAt(t)' = IF t = s THEN e ELSE CellAt(t)
  <1>1. s.lba \in Lbas /\ s.idx \in Cells
    BY DEF Slots
  <1>2. sec' \in [Lbas -> [Cells -> CellType]]
    BY <1>1 DEF WriteCell, TypeOK
  <1>3. ASSUME NEW t \in Slots
        PROVE  CellAt(t)' = IF t = s THEN e ELSE CellAt(t)
    <2>1. t.lba \in Lbas /\ t.idx \in Cells
      BY DEF Slots
    <2>2. t = s <=> t.lba = s.lba /\ t.idx = s.idx
      BY DEF Slots
    <2> QED
      BY <1>1, <2>1, <2>2 DEF WriteCell, TypeOK, CellAt
  <1> QED
    BY <1>2, <1>3

(* The closing writes of the operations keep the types.                    *)
LEMMA FinishTyped ==
    ASSUME TypeInv, Finish
    PROVE  TypeInv'
  <1>1. /\ job \in JobType /\ harm \subseteq {"torn", "fault", "orphan", "overdir", "wild"}
        /\ faults \in Nat /\ res \in BOOLEAN
        /\ sec \in [Lbas -> [Cells -> CellType]]
    BY DEF TypeInv, TypeOK
  <1>2. CASE WriteData
    <2>1. /\ job.new \in Clusters /\ job.op = "echo" /\ job.slot # NoSlot
          /\ job.first # 0 /\ job.last # 0
      BY <1>1, <1>2 DEF WriteData, TypeInv, JobOK, JobType
    <2> DEFINE d == IF job.done + PerSector < job.len THEN job.done + PerSector
                    ELSE job.len
               j == [job EXCEPT !.done = d]
    <2>2. CASE /\ sec' = [sec EXCEPT ![cluster_to_lba(job.new)] = FileSector]
               /\ WriteOn(j) /\ NoFault /\ UNCHANGED harm
      <3>1. d \in Nat
        BY <1>1, Fat16Assumption DEF JobType
      <3> HIDE DEF d
      <3>2. /\ j \in JobType /\ j.op = job.op /\ j.slot = job.slot
            /\ j.first = job.first /\ j.last = job.last
        BY <3>1, <1>1 DEF JobType
      <3> HIDE DEF j
      <3>3. CallOK
        BY <2>1, <2>2, <3>2, <1>1, WriteOnOK
      <3>4. sec' \in [Lbas -> [Cells -> CellType]]
        BY <2>1, <2>2, <1>1, SectorTypes, ClusterLba DEF TypeInv
      <3> QED
        BY <2>2, <3>3, <3>4, <1>2 DEF WriteData, CallOK, NoFault, TypeInv, TypeOK
    <2>3. CASE /\ Fault("write") /\ Return(FALSE) /\ UNCHANGED sec
               /\ Harm({"fault"} \cup TornIf(job.freed))
      <3>1. CallOK
        BY <2>3, ReturnOK
      <3>2. faults' = faults + 1 /\ harm' \subseteq harm \cup {"fault", "torn"}
        BY <2>3 DEF Fault, Harm, TornIf
      <3> QED
        BY <2>3, <3>1, <3>2, <1>2 DEF WriteData, CallOK, TypeInv, TypeOK
    <2> QED
      BY <1>1, <1>2, <2>2, <2>3 DEF WriteData, JobType
  <1>3. CASE WriteDirent \/ MarkDeleted
    <2>1. job.slot \in Slots /\ job.ent \in CellType
      BY <1>1, <1>3 DEF WriteDirent, MarkDeleted, TypeInv, JobOK, JobType
    <2>2. CASE /\ \E e \in CellType : WriteCell(job.slot, e)
               /\ Return(TRUE) /\ NoFault /\ UNCHANGED harm
      <3>1. CallOK
        BY <2>2, ReturnOK
      <3>2. sec' \in [Lbas -> [Cells -> CellType]]
        BY <2>1, <2>2, WriteCellType DEF TypeInv
      <3> QED
        BY <2>2, <3>1, <3>2, <1>3
           DEF WriteDirent, MarkDeleted, CallOK, NoFault, TypeInv, TypeOK
    <2>3. CASE /\ Fault("write") /\ Return(FALSE) /\ UNCHANGED sec
               /\ Harm({"fault"} \cup TornIf(job.freed))
      <3>1. CallOK
        BY <2>3, ReturnOK
      <3>2. faults' = faults + 1 /\ harm' \subseteq harm \cup {"fault", "torn"}
        BY <2>3 DEF Fault, Harm, TornIf
      <3>3. UNCHANGED <<fat, hint, path>>
        BY <1>3 DEF WriteDirent, MarkDeleted
      <3> QED
        BY <2>3, <3>1, <3>2, <3>3 DEF CallOK, TypeInv, TypeOK
    <2> QED
      BY <1>3, <2>1, <2>2, <2>3, CellTypes DEF WriteDirent, MarkDeleted
  <1> QED
    BY <1>2, <1>3 DEF Finish

(* So does a power loss in the middle of any of them.                      *)
LEMMA PowerLossTyped ==
    ASSUME TypeInv, PowerLoss
    PROVE  TypeInv'
  <1>1. job \in JobType /\ fat \in [1 .. 2 -> [Clusters -> Links]]
    BY DEF TypeInv, TypeOK, Links
  <1>2. fat' \in [1 .. 2 -> [Clusters -> Links]]
    <2>0. 1 \in 0 .. 2
      OBVIOUS
    <2>1. CASE UNCHANGED fat
      BY <1>1, <2>1
    <2>2. ASSUME NEW c \in Clusters, fat_write_entry(c, EOC, 1)
          PROVE  fat' \in [1 .. 2 -> [Clusters -> Links]]
      <3>1. EOC \in Links
        BY DEF Links
      <3> QED
        BY <2>0, <2>2, <3>1, FatWriteType DEF TypeInv
    <2>3. CASE pc = "link" /\ fat_write_entry(job.last, job.new, 1)
      <3>1. job.last \in Clusters /\ job.new \in Clusters /\ job.new \in Links
        BY <2>3, <1>1 DEF TypeInv, JobOK, JobType, Links
      <3> QED
        BY <2>0, <2>3, <3>1, FatWriteType DEF TypeInv
    <2>4. CASE pc = "free" /\ job.cur \in Clusters /\ fat_write_entry(job.cur, FREE, 1)
      <3>1. FREE \in Links
        BY DEF Links
      <3> QED
        BY <2>0, <2>4, <3>1, FatWriteType DEF TypeInv
    <2> QED
      BY <2>1, <2>2, <2>3, <2>4 DEF PowerLoss
  <1>3. CallOK
    BY ReturnOK DEF PowerLoss
  <1>4. /\ hint' = 2 /\ path' = <<>> /\ UNCHANGED sec
        /\ faults' = faults + 1 /\ harm' \subseteq harm \cup {"fault", "torn"}
    BY DEF PowerLoss, Fault, Harm, TornIf
  <1>5. path' \in Seq(Clusters \cup {0}) /\ hint' \in 2 .. NumClusters + 2
    BY <1>4, EmptySeq, Fat16Assumption
  <1> QED
    BY <1>2, <1>3, <1>4, <1>5 DEF CallOK, TypeInv, TypeOK, Links

(* The type invariant with its register facts is inductive.                *)
LEMMA TypeStep ==
    ASSUME TypeInv, [Next]_vars
    PROVE  TypeInv'
  <1>1. CASE UNCHANGED vars
    BY <1>1 DEF vars, TypeInv, TypeOK, JobOK
  <1>2. CASE Next
    BY <1>2, CallsTyped, CdTyped, ScanTyped, ExtendTyped, ReleaseTyped,
       FinishTyped, PowerLossTyped DEF Next, Driver
  <1> QED
    BY <1>1, <1>2

(* A freshly formatted volume satisfies it.                                *)
LEMMA InitTyped == Init => TypeInv
  <1> SUFFICES ASSUME Init PROVE TypeInv
    OBVIOUS
  <1>1. ZeroSector \in [Cells -> CellType]
    BY CellTypes DEF ZeroSector
  <1>2. path \in Seq(Clusters \cup {0}) /\ hint \in 2 .. NumClusters + 2
    BY EmptySeq, Fat16Assumption DEF Init
  <1>3. TypeOK
    BY <1>1, <1>2, NoJobType DEF Init, TypeOK, Pcs
  <1> QED
    BY <1>3 DEF Init, TypeInv, JobOK

(***************************************************************************)
(* Type correctness of the driver, for every volume: every entry of the    *)
(* table and of a directory is a cluster of the volume or none, and a      *)
(* cursor is on a cluster, past the end, or on 0xFFF7 after a failed read  *)
(* of the table (Answers); it never is on any other number.                *)
(***************************************************************************)
THEOREM TypeCorrect == Spec => []TypeOK
  <1>1. Init => TypeInv
    BY InitTyped
  <1>2. TypeInv /\ [Next]_vars => TypeInv'
    BY TypeStep
  <1>3. TypeInv => TypeOK
    BY DEF TypeInv
  <1> QED
    BY <1>1, <1>2, <1>3, PTL DEF Spec

-----------------------------------------------------------------------------
(* What the three kinds of table write do to the references *)

(* No step gives an entry a reference, except the one that writes it. *)
Quiet == \A s \in Slots, c \in Clusters : Refers(s, c)' => Refers(s, c)

(* Nothing new is referred to while directories stay as they are.          *)
LEMMA QuietIf ==
    ASSUME UNCHANGED sec,
           ~job.freed \/ ((job'.freed <=> job.freed) /\ job'.slot = job.slot)
    PROVE  Quiet
  BY DEF Quiet, Refers, CellAt

(* A step that leaves the table alone and adds no reference keeps them     *)
(* single.                                                                 *)
LEMMA SameTable ==
    ASSUME LinkedOnce, Quiet, fat'[1] = fat[1]
    PROVE  /\ LinkedOnce'
           /\ \A c : NoRef(c) /\ c \in Clusters => NoRef(c)'
           /\ \A c : Held(c) => Held(c)'
  BY DEF LinkedOnce, Quiet, NoRef, Held

(* extend_cluster_chain marks a free cluster: nothing referred to it. *)
LEMMA AllocTable ==
    ASSUME TypeOK, LinkedOnce, Quiet, NEW n \in Clusters, fat[1][n] = FREE,
           fat'[1] = [fat[1] EXCEPT ![n] = EOC]
    PROVE  /\ LinkedOnce' /\ Held(n)'
           /\ \A c : Held(c) => Held(c)' /\ (c \in Clusters => c # n)
  <1>1. \A c \in Clusters : EOC # c
    BY Fat16Assumption DEF EOC, Clusters
  <1>2. EOC # FREE
    BY DEF EOC, FREE
  <1>3. \A d \in Clusters : fat'[1][d] = IF d = n THEN EOC ELSE fat[1][d]
    BY DEF TypeOK
  <1> QED
    BY <1>1, <1>2, <1>3 DEF LinkedOnce, Quiet, NoRef, Held

(* It links a cluster nothing refers to: now one table entry does. *)
LEMMA LinkTable ==
    ASSUME TypeOK, LinkedOnce, Quiet, NEW l \in Clusters, NEW n \in Clusters,
           Held(n), fat'[1] = [fat[1] EXCEPT ![l] = n]
    PROVE  /\ LinkedOnce'
           /\ \A c : Held(c) /\ c # n => Held(c)'
  <1>1. n # FREE
    BY DEF FREE, Clusters
  <1>2. \A d \in Clusters : fat'[1][d] = IF d = l THEN n ELSE fat[1][d]
    BY DEF TypeOK
  <1> QED
    BY <1>1, <1>2 DEF LinkedOnce, Quiet, NoRef, Held

(* free_cluster_chain frees a cluster nothing refers to; then nothing      *)
(* refers to the next one of the chain either.                             *)
LEMMA FreeTable ==
    ASSUME TypeOK, LinkedOnce, Quiet, NEW x \in Clusters, NoRef(x),
           fat'[1] = [fat[1] EXCEPT ![x] = FREE]
    PROVE  /\ LinkedOnce'
           /\ fat[1][x] \in Clusters => \A n : n = fat[1][x] => NoRef(n)'
  <1>1. \A c \in Clusters : c # FREE
    BY DEF FREE, Clusters
  <1>2. \A d \in Clusters : fat'[1][d] = IF d = x THEN FREE ELSE fat[1][d]
    BY DEF TypeOK
  <1> QED
    BY <1>1, <1>2 DEF LinkedOnce, Quiet, NoRef

-----------------------------------------------------------------------------
(* Registers after the shared control points *)

(* The loop of fat16_write_file keeps hold of the chain it has built.      *)
LEMMA WriteOnFlight ==
    ASSUME NEW j \in JobType, WriteOn(j), Held(j.first)'
    PROVE  InFlight'
  <1>1. CASE j.done < j.len
    <2>1. pc' = "eoc" /\ job' = [j EXCEPT !.why = "data"]
      BY <1>1 DEF WriteOn, Goto
    <2>2. job'.first = j.first
      BY <2>1 DEF JobType
    <2> QED
      BY <2>1, <2>2 DEF InFlight
  <1>2. CASE ~(j.done < j.len)
    <2> DEFINE e == Placed(j.ent, j.first, j.len)
    <2>0. j.ent \in CellType /\ j.first \in Clusters \cup {0} /\ j.len \in Nat
      BY DEF JobType
    <2>1. e.first = j.first
      BY <2>0, PlacedType
    <2>2. pc' = "dirent" /\ job' = [j EXCEPT !.ent = e]
      BY <1>2 DEF WriteOn, Goto
    <2> HIDE DEF e
    <2>3. job'.ent = e
      BY <2>2 DEF JobType
    <2> QED
      BY <2>1, <2>2, <2>3 DEF InFlight
  <1> QED
    BY <1>1, <1>2

(* A caller that was given a free slot holds no cluster yet.               *)
LEMMA NotFoundFlight ==
    ASSUME NEW s \in Slots, NEW j0 \in JobType, NotFound(s, j0),
           j0.op # "none", j0.first = 0
    PROVE  InFlight'
  <1> DEFINE e == Entry(j0.name, j0.op = "mkdir")
             j == [j0 EXCEPT !.slot = s, !.ent = e]
  <1>0. e \in CellType
    BY CellTypes DEF JobType
  <1>1. e.first = 0
    BY DEF Entry, Blank
  <1> HIDE DEF e
  <1>2. /\ j \in JobType /\ j.first = 0 /\ j.op = j0.op /\ j.ent = e
    BY <1>0 DEF JobType
  <1> HIDE DEF j
  <1>3. \A c : c = 0 => Held(c)'
    BY DEF Held, Clusters
  <1>4. CASE j0.op \in {"cd", "rm"}
    <2>1. Return(FALSE)
      BY <1>4 DEF NotFound
    <2> QED
      BY <2>1 DEF Return, InFlight
  <1>5. CASE j0.op = "touch"
    <2>1. Goto("dirent", j)
      BY <1>5 DEF NotFound, j, e
    <2>2. pc' = "dirent" /\ job'.ent.first = 0
      BY <2>1, <1>1, <1>2 DEF Goto
    <2> QED
      BY <2>2, <1>3 DEF InFlight
  <1>6. CASE j0.op = "echo"
    <2>1. WriteOn(j)
      BY <1>6 DEF NotFound, j, e
    <2> QED
      BY <2>1, <1>2, <1>3, WriteOnFlight
  <1>7. CASE j0.op = "mkdir"
    <2>1. Goto("eoc", [j EXCEPT !.why = "mkdir"])
      BY <1>7 DEF NotFound, j, e
    <2>2. pc' = "eoc" /\ job'.first = 0
      BY <2>1, <1>2 DEF Goto, JobType
    <2> QED
      BY <2>2, <1>3 DEF InFlight
  <1> QED
    BY <1>4, <1>5, <1>6, <1>7 DEF JobType, Ops

(* After a failed extension the chain to undo is the one held.             *)
LEMMA ExtendFailedFlight ==
    ASSUME TypeInv, NEW h, ExtendFailed(h), NEW f, f = job.first,
           "torn" \notin harm'
    PROVE  /\ Held(f)' => InFlight'
           /\ ~job.freed \/ ((job'.freed <=> job.freed) /\ job'.slot = job.slot)
  <1>1. job \in JobType
    BY DEF TypeInv, TypeOK
  <1>2. CASE job.why = "data" /\ job.first # 0
    <2>1. Goto("free", [job EXCEPT !.why = "undo", !.cur = f])
      BY <1>2 DEF ExtendFailed
    <2>2. /\ pc' = "free" /\ job'.cur = f /\ job'.slot = job.slot
          /\ job'.freed = job.freed
      BY <2>1, <1>1 DEF Goto, JobType
    <2> QED
      BY <2>2 DEF InFlight, Held
  <1>3. CASE ~(job.why = "data" /\ job.first # 0)
    <2>1. Return(FALSE) /\ harm' = harm \cup (h \cup TornIf(job.freed))
      BY <1>3 DEF ExtendFailed, Harm
    <2>2. pc' = "idle" /\ ~job.freed
      BY <2>1 DEF Return, TornIf
    <2> QED
      BY <2>2 DEF InFlight
  <1> QED
    BY <1>2, <1>3

-----------------------------------------------------------------------------
(* Every step that tears nothing keeps the references single *)

(* A step that touches no disk sector and frees nothing keeps the          *)
(* references single.                                                      *)
LEMMA IdleLinked ==
    ASSUME TypeInv, LinkedOnce, UNCHANGED <<fat, sec>>, ~job.freed,
           pc' \in {"idle", "scan", "mark"}
    PROVE  LinkedOnce' /\ InFlight'
  <1>1. Quiet
    BY QuietIf
  <1> QED
    BY <1>1, SameTable DEF InFlight

(* Once an entry's chain is about to be freed, only that entry referred to *)
(* it.                                                                     *)
LEMMA ScanHitLinked ==
    ASSUME TypeInv, LinkedOnce, ScanHit
    PROVE  LinkedOnce' /\ InFlight'
  <1>1. /\ pc = "scan" /\ UNCHANGED <<fat, sec>>
        /\ job \in JobType /\ ~job.freed /\ job.first = 0 /\ job.op # "none"
    BY DEF ScanHit, disk, TypeInv, TypeOK, JobOK
  <1>2. PICK i \in Cells : Found([lba |-> ScanLba, idx |-> i])
    BY DEF ScanHit
  <1> DEFINE s == [lba |-> ScanLba, idx |-> i]
             e == CellAt(s)
             j == [job EXCEPT !.slot = s, !.ent = e]
  <1>3. s \in Slots
    BY <1>1, ScanLbaType DEF ScanHit, Slots
  <1>4. e \in CellType
    BY <1>3 DEF TypeInv, TypeOK, CellAt, Slots
  <1>5. Found(s)
    BY <1>2
  <1> HIDE DEF s
  <1>6. Quiet /\ LinkedOnce'
    BY <1>1, QuietIf, SameTable
  <1>7. /\ e.first \in Clusters => \A c \in Clusters : c = e.first =>
              /\ \A d \in Clusters : fat[1][d] # c
              /\ \A t \in Slots : CellAt(t).first = c => t = s
    BY <1>1, <1>3 DEF LinkedOnce, Refers
  <1>8. e.first \in Clusters \cup {0}
    BY <1>4 DEF CellType
  <1> HIDE DEF e
  <1>9. j \in JobType /\ j.first = 0 /\ j.slot = s
    BY <1>1, <1>3, <1>4 DEF JobType
  <1> HIDE DEF j
  <1>10. \/ pc' \in {"idle", "mark"}
         \/ WriteOn(j)
         \/ \E w \in {"rewrite", "delete"} :
               Goto("free", [j EXCEPT !.why = w, !.freed = TRUE, !.cur = e.first])
    BY <1>1, <1>5 DEF Found, Return, Goto, j, e, JobType, Ops
  <1>11. CASE pc' \in {"idle", "mark"}
    BY <1>6, <1>11 DEF InFlight
  <1>12. CASE WriteOn(j)
    <2>1. \A c : c = 0 => Held(c)'
      BY DEF Held, Clusters
    <2> QED
      BY <1>6, <1>9, <1>12, <2>1, WriteOnFlight
  <1>13. ASSUME NEW w \in {"rewrite", "delete"},
                Goto("free", [j EXCEPT !.why = w, !.freed = TRUE, !.cur = e.first])
         PROVE  InFlight'
    <2>1. pc' = "free" /\ job'.cur = e.first /\ job'.slot = s /\ job'.freed
      BY <1>13, <1>9 DEF Goto, JobType
    <2>2. ASSUME NEW c \in Clusters, c = e.first PROVE NoRef(c)'
      BY <2>1, <2>2, <1>1, <1>7 DEF NoRef, Refers, CellAt
    <2> QED
      BY <2>1, <2>2 DEF InFlight
  <1> QED
    BY <1>6, <1>10, <1>11, <1>12, <1>13

(* A directory scan keeps the references single.                           *)
LEMMA ScanLinked ==
    ASSUME TypeInv, LinkedOnce, Scan
    PROVE  LinkedOnce' /\ InFlight'
  <1>1. CASE ScanHit
    BY <1>1, ScanHitLinked
  <1>2. CASE ~ScanHit
    <2>1. /\ pc = "scan" /\ UNCHANGED <<fat, sec>>
          /\ job \in JobType /\ ~job.freed /\ job.first = 0 /\ job.op # "none"
      BY <1>2 DEF Scan, ScanEndMarker, ScanNextSector, ScanLosesTrack, ScanOn, ScanExhausted,
                  ScanReadError, disk, TypeInv, TypeOK, JobOK
    <2>2. LinkedOnce'
      BY <2>1, QuietIf, SameTable
    <2>3. CASE ScanEndMarker
      <3>1. PICK i \in Cells, s \in Slots \cup {NoSlot} :
               NotFound(IF s = NoSlot THEN [lba |-> ScanLba, idx |-> i] ELSE s, job)
        BY <2>3 DEF ScanEndMarker
      <3>2. (IF s = NoSlot THEN [lba |-> ScanLba, idx |-> i] ELSE s) \in Slots
        BY <2>1, <2>3, ScanLbaType DEF ScanEndMarker, Slots
      <3>3. InFlight'
        BY <2>1, <3>1, <3>2, NotFoundFlight
      <3> QED
        BY <2>2, <3>3
    <2>4. CASE ScanNextSector \/ ScanLosesTrack
      BY <2>2, <2>4 DEF ScanNextSector, ScanLosesTrack, ScanOn, Goto, InFlight
    <2>5. CASE ScanExhausted \/ ScanReadError
      <3>1. RanOffTheEnd
        BY <2>5 DEF ScanExhausted, ScanReadError
      <3>2. \A c : c = 0 => Held(c)'
        BY DEF Held, Clusters
      <3>3. CASE pc' = "idle"
        BY <2>2, <3>3 DEF InFlight
      <3>4. CASE Goto("eoc", [job EXCEPT !.why = "slot", !.last = job.csec])
        <4>1. pc' = "eoc" /\ job'.first = 0
          BY <2>1, <3>4 DEF Goto, JobType
        <4> QED
          BY <2>2, <3>2, <4>1 DEF InFlight
      <3> QED
        BY <3>1, <3>3, <3>4 DEF RanOffTheEnd, Return
    <2> QED
      BY <1>2, <2>3, <2>4, <2>5 DEF Scan
  <1> QED
    BY <1>1, <1>2

(* A sector of zeros, or of file data, holds no references. *)
LEMMA OverwriteQuiet ==
    ASSUME TypeInv, NEW z \in [Cells -> CellType], \A i \in Cells : z[i].first = 0,
           job.new \in Clusters,
           sec' = [sec EXCEPT ![cluster_to_lba(job.new)] = z],
           ~job.freed \/ ((job'.freed <=> job.freed) /\ job'.slot = job.slot)
    PROVE  Quiet
  <1> DEFINE l == cluster_to_lba(job.new)
  <1>1. l \in Lbas
    BY ClusterLba
  <1> HIDE DEF l
  <1>2. sec' = [sec EXCEPT ![l] = z]
    BY DEF l
  <1>3. ASSUME NEW s \in Slots, NEW c \in Clusters, Refers(s, c)'
        PROVE  Refers(s, c)
    <2>1. s.lba \in Lbas /\ s.idx \in Cells
      BY DEF Slots
    <2>2. c # 0
      BY DEF Clusters
    <2>3. sec'[s.lba] = IF s.lba = l THEN z ELSE sec[s.lba]
      BY <1>1, <1>2, <2>1 DEF TypeInv, TypeOK
    <2> QED
      BY <1>3, <2>1, <2>2, <2>3 DEF Refers, CellAt
  <1> QED
    BY <1>3 DEF Quiet

(* Growing a chain keeps the references single, whichever write fails.     *)
LEMMA ExtendLinked ==
    ASSUME TypeInv, LinkedOnce, InFlight, Extend, "torn" \notin harm'
    PROVE  LinkedOnce' /\ InFlight'
  <1>1. /\ job \in JobType /\ TypeOK /\ pc \in {"eoc", "link", "zero"}
        /\ Held(job.first)
    BY DEF TypeInv, TypeOK, InFlight, Extend, DiskFull, MarkEoc, MarkEocUnread,
           LinkCluster, ZeroCluster
  <1>2. PICK f : f = job.first
    OBVIOUS
  <1>3. Held(f)
    BY <1>1, <1>2
  <1>4. ASSUME NEW h, ExtendFailed(h), UNCHANGED sec
        PROVE  Quiet /\ (Held(f)' => InFlight')
    BY <1>2, <1>4, ExtendFailedFlight, QuietIf
  <1>5. CASE DiskFull
    <2>1. ExtendFailed({}) /\ UNCHANGED <<fat, sec>>
      BY <1>5 DEF DiskFull, disk
    <2> QED
      BY <1>3, <1>4, <2>1, SameTable
  <1>9. CASE MarkEocUnread /\ ExtendFailed({"fault"}) /\ UNCHANGED <<fat, hint>>
    <2>1. UNCHANGED <<fat, sec>>
      BY <1>9 DEF MarkEocUnread
    <2> QED
      BY <1>3, <1>4, <1>9, <2>1, SameTable
  <1>6. CASE MarkEoc \/ (MarkEocUnread /\ ~(ExtendFailed({"fault"}) /\ UNCHANGED <<fat, hint>>))
    <2>1. PICK c \in Clusters :
             /\ c \in FreeClusters /\ UNCHANGED sec
             /\ \/ /\ fat_write_entry(c, EOC, 2)
                   /\ Goto(IF job.last >= 2 THEN "link" ELSE "zero",
                           [job EXCEPT !.new = c])
                \/ \E n \in 0 .. 1 :
                   /\ fat_write_entry(c, EOC, n) /\ ExtendFailed({"fault"})
      <3>1. CASE MarkEoc
        BY <3>1 DEF MarkEoc, IsNextFit
      <3>2. CASE MarkEocUnread /\ ~(ExtendFailed({"fault"}) /\ UNCHANGED <<fat, hint>>)
        BY <3>2 DEF MarkEocUnread, FreeClusters
      <3> QED
        BY <1>6, <3>1, <3>2
    <2>2. fat[1][c] = FREE
      BY <2>1 DEF FreeClusters, fat_read_entry
    <2>3. EOC \in Links
      BY DEF Links
    <2>4. CASE /\ fat_write_entry(c, EOC, 2)
               /\ Goto(IF job.last >= 2 THEN "link" ELSE "zero", [job EXCEPT !.new = c])
      <3>1. fat'[1] = [fat[1] EXCEPT ![c] = EOC]
        BY <1>1, <2>3, <2>4, FatWriteType
      <3>2. /\ pc' \in {"link", "zero"} /\ job'.new = c /\ job'.first = f
            /\ (job'.freed = job.freed) /\ job'.slot = job.slot
        BY <1>1, <1>2, <2>4 DEF Goto, JobType
      <3>3. Quiet
        BY <2>1, <3>2, QuietIf
      <3>4. LinkedOnce' /\ Held(c)' /\ Held(f)' /\ (f \in Clusters => f # c)
        BY <1>1, <1>3, <2>2, <3>1, <3>3, AllocTable
      <3> QED
        BY <3>2, <3>4 DEF InFlight
    <2>5. ASSUME NEW n \in 0 .. 1, fat_write_entry(c, EOC, n), ExtendFailed({"fault"})
          PROVE  LinkedOnce' /\ InFlight'
      <3>1. fat'[1] = IF n = 0 THEN fat[1] ELSE [fat[1] EXCEPT ![c] = EOC]
        BY <1>1, <2>3, <2>5, FatWriteType
      <3>2. Quiet /\ (Held(f)' => InFlight')
        BY <1>4, <2>1, <2>5
      <3>3. CASE fat'[1] = fat[1]
        BY <1>3, <3>2, <3>3, SameTable
      <3>4. CASE fat'[1] = [fat[1] EXCEPT ![c] = EOC]
        BY <1>1, <1>3, <2>2, <3>2, <3>4, AllocTable
      <3> QED
        BY <3>1, <3>3, <3>4
    <2> QED
      BY <2>1, <2>4, <2>5
  <1>7. CASE LinkCluster
    <2>1. pc = "link" /\ UNCHANGED sec
      BY <1>7 DEF LinkCluster
    <2>2. PICK l, c : l = job.last /\ c = job.new
      OBVIOUS
    <2>3. l \in Clusters /\ c \in Clusters /\ c \in Links
      BY <1>1, <2>1, <2>2 DEF TypeInv, JobOK, JobType, Links
    <2>4. Held(c) /\ f # c
      BY <1>2, <2>1, <2>2 DEF InFlight
    <2>5. CASE fat_write_entry(l, c, 2) /\ Goto("zero", job)
      <3>1. fat'[1] = [fat[1] EXCEPT ![l] = c]
        BY <1>1, <2>3, <2>5, FatWriteType
      <3>2. pc' = "zero" /\ job' = job
        BY <2>5 DEF Goto
      <3>3. LinkedOnce' /\ Held(f)'
        BY <1>1, <1>3, <2>1, <2>3, <2>4, <3>1, <3>2, QuietIf, LinkTable
      <3>4. job'.last # 0
        BY <2>1, <3>2 DEF TypeInv, JobOK
      <3> QED
        BY <1>2, <3>2, <3>3, <3>4 DEF InFlight
    <2>6. ASSUME NEW n \in 0 .. 1, fat_write_entry(l, c, n), ExtendFailed({"fault"})
          PROVE  LinkedOnce' /\ InFlight'
      <3>1. fat'[1] = IF n = 0 THEN fat[1] ELSE [fat[1] EXCEPT ![l] = c]
        BY <1>1, <2>3, <2>6, FatWriteType
      <3>2. Quiet /\ (Held(f)' => InFlight')
        BY <1>4, <2>1, <2>6
      <3>3. CASE fat'[1] = fat[1]
        BY <1>3, <3>2, <3>3, SameTable
      <3>4. CASE fat'[1] = [fat[1] EXCEPT ![l] = c]
        BY <1>1, <1>3, <2>3, <2>4, <3>2, <3>4, LinkTable
      <3> QED
        BY <3>1, <3>3, <3>4
    <2> QED
      BY <1>7, <2>2, <2>5, <2>6 DEF LinkCluster
  <1>8. CASE ZeroCluster
    <2>1. /\ pc = "zero" /\ UNCHANGED fat
          /\ job.new \in Clusters /\ job.op # "none" /\ job.slot \in Slots \cup {NoSlot}
      BY <1>1, <1>8 DEF ZeroCluster, TypeInv, JobOK, JobType
    <2>2. CASE ExtendFailed({"fault"}) /\ UNCHANGED sec
      BY <1>3, <1>4, <2>1, <2>2, SameTable
    <2>3. CASE /\ sec' = [sec EXCEPT ![cluster_to_lba(job.new)] = ZeroSector]
               /\ Extended
      <3>1. ASSUME ~job.freed \/ ((job'.freed <=> job.freed) /\ job'.slot = job.slot)
            PROVE  LinkedOnce' /\ \A c : Held(c) => Held(c)'
        <4>1. ZeroSector \in [Cells -> CellType]
          BY <1>1, SectorTypes
        <4>2. \A i \in Cells : ZeroSector[i].first = 0
          BY DEF ZeroSector, Blank
        <4>3. Quiet
          BY <2>1, <2>3, <3>1, <4>1, <4>2, OverwriteQuiet
        <4> QED
          BY <2>1, <4>3, SameTable
      <3>2. PICK c : c = job.new
        OBVIOUS
      <3>3. c \in Clusters
        BY <2>1, <3>2
      <3>4. CASE job.why = "slot"
        <4> DEFINE s == [lba |-> cluster_to_lba(c), idx |-> 1]
                   j == [job EXCEPT !.last = 0]
        <4>1. NotFound(s, j)
          BY <2>3, <3>2, <3>4 DEF Extended
        <4>2. s \in Slots
          BY <3>3, ClusterLba, Fat16Assumption DEF Slots, Cells
        <4>3. ~job.freed /\ job.first = 0
          BY <2>1, <3>4 DEF TypeInv, JobOK
        <4>4. j \in JobType /\ j.op # "none" /\ j.first = 0
          BY <1>1, <2>1, <4>3 DEF JobType
        <4> HIDE DEF s, j
        <4>5. InFlight'
          BY <4>1, <4>2, <4>4, NotFoundFlight
        <4> QED
          BY <3>1, <4>3, <4>5
      <3>5. CASE job.why = "mkdir"
        <4> DEFINE e == Placed(job.ent, c, 0)
        <4>1. e \in CellType /\ e.first = c
          BY <1>1, <3>3, PlacedType DEF JobType
        <4>2. Goto("dirent", [job EXCEPT !.ent = e])
          BY <2>3, <3>2, <3>5 DEF Extended
        <4>3. ~job.freed /\ job.last = 0
          BY <2>1, <3>5 DEF TypeInv, JobOK
        <4> HIDE DEF e
        <4>4. pc' = "dirent" /\ job'.ent = e
          BY <4>2, <1>1 DEF Goto, JobType
        <4>5. Held(c)
          BY <2>1, <3>2, <4>3 DEF InFlight
        <4> QED
          BY <3>1, <4>1, <4>3, <4>4, <4>5 DEF InFlight
      <3>6. CASE job.why = "data"
        <4> DEFINE g == IF f = 0 THEN c ELSE f
        <4>1. Goto("data", [job EXCEPT !.last = c, !.first = g])
          BY <1>1, <1>2, <2>3, <3>2, <3>6 DEF Extended, JobType
        <4>2. Held(g)
          <5>1. f = 0 => job.last = 0
            BY <1>2, <2>1, <3>6 DEF TypeInv, JobOK
          <5> QED
            BY <1>3, <2>1, <3>2, <5>1 DEF InFlight
        <4> HIDE DEF g
        <4>3. /\ pc' = "data" /\ job'.first = g
              /\ (job'.freed = job.freed) /\ job'.slot = job.slot
          BY <4>1, <1>1 DEF Goto, JobType
        <4> QED
          BY <3>1, <4>2, <4>3 DEF InFlight
      <3> QED
        BY <2>1, <3>4, <3>5, <3>6 DEF TypeInv, JobOK
    <2> QED
      BY <1>8, <2>2, <2>3 DEF ZeroCluster, CleanSector
  <1> QED
    BY <1>5, <1>6, <1>9, <1>7, <1>8 DEF Extend

(* The walk that was sent past the table either damages the volume, which  *)
(* is recorded, or changes nothing and ends.                               *)
LEMMA BeyondHarmless ==
    ASSUME FreeBeyond, "wild" \notin harm'
    PROVE  /\ UNCHANGED <<fat, sec, hint, path>> /\ harm' = harm
           /\ Goto("free", [job EXCEPT !.cur = FREE])
  <1>1. PICK l \in BadLbas, l2 \in BadLbas, c \in Clusters : \E next \in WordsAt(l, c) :
           /\ Goto("free", [job EXCEPT !.cur = next])
           /\ Harm(IF next = FREE /\ UNCHANGED disk THEN {} ELSE {"wild"})
    BY DEF FreeBeyond
  <1>2. PICK next \in WordsAt(l, c) :
           /\ Goto("free", [job EXCEPT !.cur = next])
           /\ Harm(IF next = FREE /\ UNCHANGED disk THEN {} ELSE {"wild"})
    BY <1>1
  <1>3. next = FREE /\ UNCHANGED disk
    BY <1>2 DEF Harm
  <1> QED
    BY <1>2, <1>3 DEF Harm, disk, FreeBeyond

(* A free cluster is none of the volume's.                                 *)
LEMMA NoClusters == FREE \notin Clusters /\ EOC \notin Clusters /\ BAD \notin Clusters
  BY Fat16Assumption DEF FREE, EOC, BAD, Clusters

(* Freeing a chain keeps the references single as long as each entry of it *)
(* is really cleared.                                                      *)
LEMMA ReleaseLinked ==
    ASSUME TypeInv, LinkedOnce, InFlight, Release, "torn" \notin harm', "wild" \notin harm'
    PROVE  LinkedOnce' /\ InFlight'
  <1>1. /\ job \in JobType /\ TypeOK /\ pc = "free" /\ job.cur \in Answers
        /\ UNCHANGED sec
    <2>1. UNCHANGED sec
      BY BeyondHarmless DEF Release, FreeCluster, FreeLosesTrack, FreeDone, disk
    <2> QED
      BY <2>1 DEF TypeInv, TypeOK, JobOK, Release, FreeCluster, FreeLosesTrack, FreeBeyond, FreeDone
  <1>4. CASE FreeLosesTrack
    <2>1. PICK x, k : x = job.cur /\ k \in 0 .. 2 /\ fat_write_entry(x, FREE, k)
      BY <1>4 DEF FreeLosesTrack
    <2>2. x \in Clusters
      BY <1>1, <1>4, <2>1, AnswerIsCluster DEF FreeLosesTrack
    <2>3. NoRef(x)
      BY <1>1, <2>1, <2>2 DEF InFlight
    <2>4. /\ pc' = "free" /\ job'.cur = BAD
          /\ (job'.freed = job.freed) /\ job'.slot = job.slot
      BY <1>1, <1>4 DEF FreeLosesTrack, fat_read_entry, Goto, JobType
    <2>5. Quiet
      BY <1>1, <2>4, QuietIf
    <2>6. fat'[1] = IF k = 0 THEN fat[1] ELSE [fat[1] EXCEPT ![x] = FREE]
      <3>1. FREE \in Links
        BY DEF Links
      <3> QED
        BY <1>1, <2>1, <2>2, <3>1, FatWriteType
    <2>7. LinkedOnce'
      BY <1>1, <2>2, <2>3, <2>5, <2>6, FreeTable, SameTable
    <2> QED
      BY <2>4, <2>7, NoClusters DEF InFlight
  <1>5. CASE FreeBeyond
    <2>1. UNCHANGED <<fat, sec>> /\ Goto("free", [job EXCEPT !.cur = FREE])
      BY <1>5, BeyondHarmless
    <2>2. /\ pc' = "free" /\ job'.cur = FREE
          /\ (job'.freed = job.freed) /\ job'.slot = job.slot
      BY <1>1, <2>1 DEF Goto, JobType
    <2>3. Quiet
      BY <2>1, <2>2, QuietIf
    <2> QED
      BY <2>1, <2>2, <2>3, NoClusters, SameTable DEF InFlight
  <1>2. CASE FreeCluster
    <2>1. PICK x, n : x = job.cur /\ n = fat[1][x]
      OBVIOUS
    <2>2. x \in Clusters
      BY <1>1, <1>2, <2>1, AnswerIsCluster DEF FreeCluster
    <2>3. NoRef(x)
      BY <1>1, <2>1, <2>2 DEF InFlight
    <2>4. Goto("free", [job EXCEPT !.cur = n])
      BY <1>2, <2>1 DEF FreeCluster, fat_read_entry
    <2>5. /\ pc' = "free" /\ job'.cur = n
          /\ (job'.freed = job.freed) /\ job'.slot = job.slot
      BY <1>1, <2>4 DEF Goto, JobType
    <2>6. Quiet
      BY <1>1, <2>5, QuietIf
    <2>7. PICK k \in 1 .. 2 : fat_write_entry(x, FREE, k)
      BY <1>2, <2>1 DEF FreeCluster, Harm, TornIf
    <2>8. fat'[1] = [fat[1] EXCEPT ![x] = FREE]
      <3>1. k \in 0 .. 2 /\ k # 0 /\ FREE \in Links
        BY DEF Links
      <3> QED
        BY <1>1, <2>2, <2>7, <3>1, FatWriteType
    <2>9. LinkedOnce' /\ (n \in Clusters => NoRef(n)')
      BY <1>1, <2>1, <2>2, <2>3, <2>6, <2>8, FreeTable
    <2> QED
      BY <2>5, <2>9 DEF InFlight
  <1>3. CASE FreeDone
    <2>1. UNCHANGED <<fat, sec>>
      BY <1>3 DEF FreeDone, disk
    <2>2. CASE job.why = "delete"
      <3>1. pc' = "mark" /\ job' = job
        BY <1>3, <2>2 DEF FreeDone, Goto
      <3>2. Quiet
        BY <2>1, <3>1, QuietIf
      <3> QED
        BY <2>1, <3>1, <3>2, SameTable DEF InFlight
    <2>3. CASE job.why = "rewrite"
      <3>1. WriteOn(job) /\ job.first = 0
        BY <1>1, <1>3, <2>3 DEF FreeDone, TypeInv, JobOK
      <3>2. (job'.freed = job.freed) /\ job'.slot = job.slot
        BY <1>1, <3>1 DEF WriteOn, Goto, JobType
      <3>3. Quiet
        BY <2>1, <3>2, QuietIf
      <3>4. \A c : c = 0 => Held(c)'
        BY DEF Held, Clusters
      <3> QED
        BY <1>1, <2>1, <3>1, <3>3, <3>4, SameTable, WriteOnFlight
    <2>4. CASE job.why = "undo"
      <3>1. pc' = "idle" /\ ~job.freed
        BY <1>3, <2>4 DEF FreeDone, Return, Harm, TornIf
      <3> QED
        BY <2>1, <3>1, IdleLinked
    <2> QED
      BY <1>1, <2>2, <2>3, <2>4 DEF TypeInv, JobOK
  <1> QED
    BY <1>2, <1>3, <1>4, <1>5 DEF Release

(* The closing write makes the held chain the contents of one entry.       *)
LEMMA FinishLinked ==
    ASSUME TypeInv, LinkedOnce, InFlight, Finish, "torn" \notin harm'
    PROVE  LinkedOnce' /\ InFlight'
  <1>1. job \in JobType /\ TypeOK /\ UNCHANGED fat
    BY DEF TypeInv, TypeOK, Finish, WriteData, WriteDirent, MarkDeleted
  <1>2. CASE /\ Return(FALSE) /\ UNCHANGED sec
             /\ Harm({"fault"} \cup TornIf(job.freed))
    <2>1. pc' = "idle" /\ ~job.freed
      BY <1>2 DEF Return, Harm, TornIf
    <2> QED
      BY <1>1, <1>2, <2>1, IdleLinked
  <1> DEFINE d == IF job.done + PerSector < job.len THEN job.done + PerSector
                  ELSE job.len
             j == [job EXCEPT !.done = d]
  <1>3. CASE /\ pc = "data" /\ WriteOn(j)
             /\ sec' = [sec EXCEPT ![cluster_to_lba(job.new)] = FileSector]
    <2>1. job.new \in Clusters
      BY <1>1, <1>3 DEF TypeInv, JobOK, JobType
    <2>2. PICK f : f = job.first
      OBVIOUS
    <2>3. d \in Nat
      BY <1>1, Fat16Assumption DEF JobType
    <2> HIDE DEF d
    <2>4. j \in JobType /\ j.first = f /\ j.slot = job.slot /\ (j.freed = job.freed)
      BY <1>1, <2>2, <2>3 DEF JobType
    <2> HIDE DEF j
    <2>5. (job'.freed = job.freed) /\ job'.slot = job.slot
      BY <1>3, <2>4 DEF WriteOn, Goto, JobType
    <2>6. \A i \in Cells : FileSector[i].first = 0
      BY DEF FileSector, DataCell, Blank
    <2>7. FileSector \in [Cells -> CellType]
      BY <1>1, SectorTypes
    <2>8. PICK z : z = FileSector
      OBVIOUS
    <2>9. Quiet
      BY <1>3, <2>1, <2>5, <2>6, <2>7, <2>8, OverwriteQuiet
    <2>10. LinkedOnce' /\ Held(f)'
      BY <1>1, <1>3, <2>2, <2>9, SameTable DEF InFlight
    <2>11. \A c : c = f => Held(c)'
      BY <2>10
    <2>12. PICK i \in JobType : i = j /\ i.first = f
      BY <2>4
    <2> QED
      BY <1>3, <2>4, <2>10, <2>11, <2>12, WriteOnFlight
  <1>4. ASSUME NEW e \in CellType, WriteCell(job.slot, e), Held(e.first),
               job.slot \in Slots, Return(TRUE)
        PROVE  LinkedOnce' /\ InFlight'
    <2>1. PICK s : s = job.slot
      OBVIOUS
    <2>2. s \in Slots /\ WriteCell(s, e)
      BY <1>4, <2>1
    <2>3. \A t \in Slots : CellAt(t)' = IF t = s THEN e ELSE CellAt(t)
      BY <1>1, <2>2, WriteCellType
    <2>4. pc' = "idle" /\ ~job'.freed
      BY <1>4 DEF Return, NoJob, NewJob
    <2>5. \A t \in Slots, c \in Clusters :
             Refers(t, c)' <=> IF t = s THEN e.first = c ELSE Refers(t, c)
      BY <2>1, <2>3, <2>4 DEF Refers
    <2>6. \A c \in Clusters : e.first = c =>
             /\ fat[1][c] # FREE
             /\ \A x \in Clusters : fat[1][x] # c
             /\ \A t \in Slots : ~Refers(t, c)
      BY <1>4 DEF Held, NoRef
    <2>7. LinkedOnce'
      BY <1>1, <2>2, <2>5, <2>6 DEF LinkedOnce
    <2> QED
      BY <2>4, <2>7 DEF InFlight
  <1>5. CASE pc = "dirent" /\ WriteCell(job.slot, job.ent) /\ Return(TRUE)
    <2>1. job.ent \in CellType /\ job.slot \in Slots /\ Held(job.ent.first)
      BY <1>1, <1>5 DEF TypeInv, JobOK, JobType, InFlight
    <2> QED
      BY <1>4, <1>5, <2>1
  <1>6. CASE pc = "mark" /\ WriteCell(job.slot, Deleted) /\ Return(TRUE)
    <2>1. job.slot \in Slots /\ Deleted \in CellType
      BY <1>1, <1>6, CellTypes DEF TypeInv, JobOK, JobType
    <2>2. Held(Deleted.first)
      BY DEF Deleted, Blank, Held, Clusters
    <2> QED
      BY <1>4, <1>6, <2>1, <2>2
  <1> QED
    BY <1>2, <1>3, <1>5, <1>6 DEF Finish, WriteData, WriteDirent, MarkDeleted

(* Losing power outside a rewrite or removal keeps the references single,  *)
(* even between the two copies of the table.                               *)
LEMMA PowerLossLinked ==
    ASSUME TypeInv, LinkedOnce, InFlight, PowerLoss, "torn" \notin harm'
    PROVE  LinkedOnce' /\ InFlight'
  <1>1. /\ job \in JobType /\ TypeOK /\ UNCHANGED sec /\ pc' = "idle" /\ ~job.freed
    BY DEF TypeInv, TypeOK, PowerLoss, Return, Harm, TornIf
  <1>2. Quiet
    BY <1>1, QuietIf
  <1>3. 1 \in 0 .. 2
    OBVIOUS
  <1>4. CASE UNCHANGED fat
    BY <1>1, <1>4, IdleLinked
  <1>5. ASSUME NEW c \in Clusters, IsNextFit(c), fat_write_entry(c, EOC, 1)
        PROVE  LinkedOnce'
    <2>1. fat[1][c] = FREE /\ EOC \in Links
      BY <1>5 DEF IsNextFit, FreeClusters, fat_read_entry, Links
    <2>2. fat'[1] = [fat[1] EXCEPT ![c] = EOC]
      BY <1>1, <1>3, <1>5, <2>1, FatWriteType
    <2> QED
      BY <1>1, <1>2, <2>1, <2>2, AllocTable
  <1>6. CASE pc = "link" /\ fat_write_entry(job.last, job.new, 1)
    <2>1. PICK l, c : l = job.last /\ c = job.new
      OBVIOUS
    <2>2. l \in Clusters /\ c \in Clusters /\ c \in Links /\ Held(c)
      BY <1>1, <1>6, <2>1 DEF TypeInv, JobOK, JobType, Links, InFlight
    <2>3. fat'[1] = [fat[1] EXCEPT ![l] = c]
      BY <1>1, <1>3, <1>6, <2>1, <2>2, FatWriteType
    <2> QED
      BY <1>1, <1>2, <2>2, <2>3, LinkTable DEF InFlight
  <1>7. CASE pc = "free" /\ job.cur \in Clusters /\ fat_write_entry(job.cur, FREE, 1)
    <2>1. PICK x : x = job.cur
      OBVIOUS
    <2>2. x \in Clusters /\ FREE \in Links
      BY <1>7, <2>1 DEF Links
    <2>3. NoRef(x)
      BY <1>7, <2>1, <2>2 DEF InFlight
    <2>4. fat'[1] = [fat[1] EXCEPT ![x] = FREE]
      BY <1>1, <1>3, <1>7, <2>1, <2>2, FatWriteType
    <2> QED
      BY <1>1, <1>2, <2>2, <2>3, <2>4, FreeTable DEF InFlight
  <1> QED
    BY <1>1, <1>4, <1>5, <1>6, <1>7 DEF PowerLoss, InFlight

(* A command starts, or the terminal changes directory: nothing on disk    *)
(* moves.                                                                  *)
LEMMA CommandLinked ==
    ASSUME TypeInv, LinkedOnce, TerminalCall \/ DesktopCall \/ CdUp \/ CdRoot
    PROVE  LinkedOnce' /\ InFlight'
  <1>1. pc = "idle" /\ UNCHANGED <<fat, sec>> /\ pc' \in {"idle", "scan"}
    BY DEF TerminalCall, DesktopCall, Call, Goto, CdUp, CdRoot, disk
  <1>2. ~job.freed
    BY <1>1 DEF TypeInv, JobOK, NoJob, NewJob
  <1> QED
    BY <1>1, <1>2, IdleLinked

(* What has happened stays recorded.                                       *)
LEMMA HarmGrows ==
    ASSUME TypeInv, Next
    PROVE  harm \subseteq harm'
  <1>1. CASE TerminalCall \/ DesktopCall \/ CdUp \/ CdRoot
    BY <1>1 DEF TerminalCall, DesktopCall, Call, CdUp, CdRoot
  <1>2. ASSUME NEW s, Found(s), pc = "scan"
        PROVE  harm \subseteq harm'
    <2>1. job.op \in {"touch", "mkdir", "rm", "echo", "cd"}
      BY <1>2 DEF TypeInv, TypeOK, JobOK, JobType, Ops
    <2> QED
      BY <1>2, <2>1 DEF Found, Harm
  <1>3. CASE Scan
    BY <1>2, <1>3 DEF Scan, ScanHit, ScanEndMarker, ScanNextSector, ScanLosesTrack,
                      ScanExhausted, ScanReadError, Harm
  <1>4. CASE Extend
    BY <1>4 DEF Extend, DiskFull, MarkEoc, MarkEocUnread, LinkCluster, ZeroCluster,
                ExtendFailed, Harm
  <1>5. CASE FreeCluster \/ FreeLosesTrack \/ FreeBeyond
    BY <1>5 DEF FreeCluster, FreeLosesTrack, FreeBeyond, Harm
  <1>6. CASE FreeDone
    <2>1. job.why \in {"undo", "rewrite", "delete"}
      BY <1>6 DEF FreeDone, TypeInv, JobOK
    <2> QED
      BY <1>6, <2>1 DEF FreeDone, Harm
  <1>7. CASE Finish \/ PowerLoss
    BY <1>7 DEF Finish, WriteData, WriteDirent, MarkDeleted, PowerLoss, Harm
  <1> QED
    BY <1>1, <1>3, <1>4, <1>5, <1>6, <1>7 DEF Next, Driver, Release

(* The strengthened invariant is inductive.                                *)
LEMMA InvStep ==
    ASSUME Inv, [Next]_vars
    PROVE  Inv'
  <1>1. TypeInv /\ TypeInv'
    BY TypeStep DEF Inv
  <1>2. CASE UNCHANGED vars
    BY <1>1, <1>2 DEF Inv, vars, LinkedOnce, Refers, CellAt, InFlight, Held, NoRef
  <1>3. CASE Next
    <2> SUFFICES ASSUME "torn" \notin harm', "wild" \notin harm' PROVE LinkedOnce' /\ InFlight'
      BY <1>1 DEF Inv
    <2>1. LinkedOnce /\ InFlight
      BY <1>1, <1>3, HarmGrows DEF Inv
    <2> QED
      BY <1>1, <1>3, <2>1, CommandLinked, ScanLinked, ExtendLinked, ReleaseLinked,
         FinishLinked, PowerLossLinked DEF Next, Driver
  <1> QED
    BY <1>2, <1>3

(* It holds on a freshly formatted volume, where nothing is allocated.     *)
LEMMA InitLinked == Init => Inv
  <1> SUFFICES ASSUME Init PROVE LinkedOnce /\ InFlight
    BY InitTyped DEF Inv
  <1>1. \A c \in Clusters : c # FREE /\ fat[1][c] = FREE
    BY DEF Init, Clusters, FREE
  <1>2. \A s \in Slots : CellAt(s).first = 0
    BY DEF Init, CellAt, Slots, ZeroSector, Blank
  <1>3. \A s \in Slots, c \in Clusters : ~Refers(s, c)
    BY <1>2 DEF Refers, Clusters
  <1> QED
    BY <1>1, <1>3 DEF LinkedOnce, InFlight, Init

(***************************************************************************)
(* On a volume of any size, after any commands, read and write errors and  *)
(* power losses, no two files share a cluster and nothing refers to a free *)
(* one, unless fat16_write_file or fat16_delete was cut short after it     *)
(* freed the old chain, or free_cluster_chain was sent outside the table   *)
(* by an entry that could not be read and did damage there.                *)
(***************************************************************************)
THEOREM ClustersLinkedOnce == Spec => []NoCrossLink
  <1>1. Init => Inv
    BY InitLinked
  <1>2. Inv /\ [Next]_vars => Inv'
    BY InvStep
  <1>3. Inv => NoCrossLink
    BY DEF Inv, NoCrossLink
  <1> QED
    BY <1>1, <1>2, <1>3, PTL DEF Spec
=============================================================================
