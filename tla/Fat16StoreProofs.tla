--------------------------- MODULE Fat16StoreProofs ---------------------------
(***************************************************************************)
(* The FAT16 driver implements Store, on a volume of any size: what its    *)
(* many writes do to the files of the root directory is what a store does  *)
(* that performs each call at one moment.  A file the call is not about    *)
(* reads as before because its clusters are its own (Fat16Chains); the     *)
(* file the call is about reads as what was written because the call's     *)
(* locals describe the chain it has built so far.                          *)
(***************************************************************************)
EXTENDS Fat16Chains, Fat16Store, FiniteSetTheorems

(* The calls Store speaks of: those on files of the root directory.        *)
FilesOnly == TerminalOps \subseteq {"touch", "rm", "echo"}

(* The slots of the root directory, in the order of a scan                 *)
RootSet == {s \in Slots : s.lba <= RootSectors}
Precedes(s, t) == s.lba < t.lba \/ (s.lba = t.lba /\ s.idx < t.idx)
Carries(s, n) == CellAt(s).kind = "entry" /\ CellAt(s).name = n

(* No name twice, nothing behind the end marker, files of known lengths.   *)
RootOK ==
    /\ \A s \in RootSet : CellAt(s).dir = FALSE /\ CellAt(s).size \in Lens \cup {0}
    /\ \A s, t \in RootSet, n \in Names : Carries(s, n) /\ Carries(t, n) => s = t
    /\ \A s, t \in RootSet : CellAt(s).kind = "end" /\ Precedes(s, t) => CellAt(t).kind = "end"

(* The parameters of the running call                                      *)
ParamsOK ==
    /\ path = <<>> /\ job.dir = 0 /\ job.op \in {"none", "touch", "rm", "echo"}
    /\ pc # "idle" => job.name \in Names
    /\ job.op = "echo" => job.val \in Values /\ job.len \in Lens
    /\ job.freed = TRUE => job.op \in {"rm", "echo"}
    /\ pc \in {"eoc", "link", "zero"} => job.why = "data"
    /\ pc = "mark" => job.op = "rm"
    /\ pc = "dirent" => job.op # "rm"
    /\ pc = "free" /\ job.why = "delete" => job.op = "rm"

(* The scan has passed neither the end nor the name.                       *)
PassedOK ==
    pc = "scan" =>
        /\ \A s \in RootSet : s.lba < job.cur => CellAt(s).kind # "end" /\ ~Carries(s, job.name)
        /\ job.free # NoSlot => /\ job.free \in RootSet /\ job.free.lba < job.cur
                                /\ CellAt(job.free).kind = "deleted"

(* The slot the call works on has the name, or is the place for a name     *)
(* that is not there.                                                      *)
Vacant(s) ==
    \/ CellAt(s).kind = "deleted"
    \/ /\ CellAt(s).kind = "end"
       /\ \A t \in RootSet : Precedes(t, s) => CellAt(t).kind # "end"
PlaceOK ==
    pc \notin {"idle", "scan"} =>
        /\ job.slot \in RootSet
        /\ job.ent.kind = "entry" /\ job.ent.name = job.name /\ job.ent.dir = FALSE
        /\ \/ Carries(job.slot, job.name) /\ job.op # "touch"
           \/ /\ Vacant(job.slot) /\ RootSlots(job.name) = {}
              /\ job.op # "rm" /\ job.freed = FALSE
        /\ pc = "dirent" => job.ent.size \in Lens \cup {0}
        /\ pc = "dirent" /\ job.op = "touch" => job.ent.first = 0 /\ job.ent.size = 0

(* The clusters q of the file under way, in order, and the cells they hold *)
Spine(q) ==
    /\ q \in Seq(Clusters)
    /\ \A i, k \in 1 .. Len(q) : q[i] = q[k] => i = k
    /\ \A i \in 1 .. Len(q) - 1 : fat[1][q[i]] = q[i + 1]
EndsAt(q, e) == q # <<>> => fat[1][q[Len(q)]] = e
HeadOf(q) == IF q = <<>> THEN 0 ELSE q[1]
LastOf(q) == IF q = <<>> THEN 0 ELSE q[Len(q)]
CellOf(q, i) == sec[cluster_to_lba(q[((i - 1) \div PerSector) + 1])][((i - 1) % PerSector) + 1]
Holds(q, n) == \A i \in 1 .. n : CellOf(q, i) = DataCell(job.val, i)

(* A cluster is added; its sector is filled; the file is written.          *)
Growing(q) ==
    /\ Spine(q) /\ job.done = PerSector * Len(q) /\ Holds(q, job.done)
    /\ job.first = HeadOf(q) /\ job.last = LastOf(q)
    /\ pc \in {"link", "zero"} => fat[1][job.new] = EOC /\ \A i \in 1 .. Len(q) : q[i] # job.new
    /\ EndsAt(q, IF pc = "zero" THEN job.new ELSE EOC)
Filling(q) ==
    /\ Spine(q) /\ q # <<>> /\ job.done = PerSector * (Len(q) - 1)
    /\ Holds(q, job.done) /\ EndsAt(q, EOC)
    /\ job.first = q[1] /\ job.last = job.new /\ job.new = q[Len(q)]
Complete(q) ==
    /\ Spine(q) /\ job.len <= PerSector * Len(q) /\ Holds(q, job.len) /\ EndsAt(q, EOC)
    /\ job.ent.first = HeadOf(q) /\ job.ent.size = job.len
DataOK ==
    /\ pc \in {"eoc", "link", "zero"} => job.done < job.len /\ \E q \in Seq(Clusters) : Growing(q)
    /\ pc = "data" => job.done < job.len /\ \E q \in Seq(Clusters) : Filling(q)
    /\ pc = "dirent" /\ job.op = "echo" => \E q \in Seq(Clusters) : Complete(q)
    /\ pc = "scan" \/ (pc = "free" /\ job.why = "rewrite") => job.done = 0 /\ job.first = 0 /\ job.last = 0
FilesInv == ParamsOK /\ RootOK /\ PassedOK /\ PlaceOK /\ DataOK

-----------------------------------------------------------------------------
(* Chains and the cells they hold                                          *)

(* The places of the root directory are the slots of its sectors.          *)
LEMMA RootPlacesAre == RootPlaces = RootSet
<1>1. \A s : s \in RootPlaces => s \in Slots /\ s.lba <= RootSectors
  BY Fat16Assumption DEF RootPlaces, Slots, Lbas
<1>2. \A s \in Slots : s.lba <= RootSectors => s \in RootPlaces
  BY Fat16Assumption DEF RootPlaces, Slots, Lbas
<1> QED
  BY <1>1, <1>2 DEF RootSet

(* The i-th cell of a file lies in the sector and at the place it should.  *)
LEMMA CellPlace ==
    ASSUME NEW p \in Nat \ {0}, NEW n \in Nat, NEW i \in Nat, p * n < i, i <= p * n + p
    PROVE  (i - 1) \div p = n /\ (i - 1) % p = i - 1 - p * n
<1>1. PICK k, r : k = (i - 1) \div p /\ r = (i - 1) % p
  OBVIOUS
<1>2. k \in Int /\ r \in 0 .. p - 1 /\ i - 1 = p * k + r
  BY <1>1
<1>3. ~(k < n)
  <2>1. ASSUME k < n PROVE p * (k + 1) <= p * n
    BY <1>2, <2>1
  <2>2. p * (k + 1) = p * k + p
    BY <1>2
  <2> QED
    BY <1>2, <2>1, <2>2
<1>4. ~(n < k)
  <2>1. ASSUME n < k PROVE p * (n + 1) <= p * k
    BY <1>2, <2>1
  <2>2. p * (n + 1) = p * n + p
    OBVIOUS
  <2> QED
    BY <1>2, <2>1, <2>2
<1>5. k = n
  BY <1>2, <1>3, <1>4
<1> QED
  BY <1>1, <1>2, <1>5

(* Clusters that are all different are no more than there are.             *)
LEMMA SpineShort ==
    ASSUME NEW q \in Seq(Clusters), \A i, k \in 1 .. Len(q) : q[i] = q[k] => i = k
    PROVE  Len(q) <= NumClusters
<1>1. q \in [1 .. Len(q) -> Clusters] /\ Len(q) \in Nat
  BY LenProperties
<1>2. q \in Injection(1 .. Len(q), Clusters)
  BY <1>1 DEF Injection, IsInjective
<1>3. IsFiniteSet(Clusters) /\ Cardinality(Clusters) = NumClusters
  BY FS_Interval, Fat16Assumption DEF Clusters
<1>4. Cardinality(1 .. Len(q)) = Len(q)
  <2>1. PICK n \in Nat : n = Len(q)
    BY <1>1
  <2>2. Cardinality(1 .. n) = IF 1 > n THEN 0 ELSE n - 1 + 1
    BY FS_Interval
  <2> QED
    BY <2>1, <2>2
<1> QED
  BY <1>2, <1>3, <1>4, FS_Injection

(* A chain without repetition that ends is read from its first cluster.    *)
LEMMA SpineChain ==
    ASSUME TypeOK, NEW q, Spine(q), q # <<>>, EndsAt(q, EOC)
    PROVE  Chain(q[1]) = q
<1> DEFINE t == fat[1]
           W == TheWalk(t)
           Good(n) == \A k \in 1 .. Len(q) : Len(q) - k + 1 <= n => W[n][q[k]] = SubSeq(q, k, Len(q))
           T == {n \in 0 .. NumClusters + 1 : ~Good(n)}
<1>1. /\ q \in Seq(Clusters) /\ Len(q) \in Nat /\ Len(q) >= 1 /\ Len(q) <= NumClusters
      /\ \A i \in 1 .. Len(q) : q[i] \in Clusters
  <2>1. q \in Seq(Clusters) /\ (\A i, k \in 1 .. Len(q) : q[i] = q[k] => i = k)
    BY DEF Spine
  <2> QED
    BY <2>1, SpineShort, EmptySeq, LenProperties, ElementOfSeq
<1>2. EOC \in Links /\ EOC \notin Clusters /\ (\A k \in 1 .. Len(q) : q[k] \in Links)
  BY <1>1, Fat16Assumption DEF Links, EOC, Clusters
<1>3. \A n \in 0 .. NumClusters + 1 : W[n] = Row(t, n, W[n - 1])
  BY WalkRows
<1>4. \A k \in 1 .. Len(q) : t[q[k]] = IF k = Len(q) THEN EOC ELSE q[k + 1]
  BY <1>1 DEF Spine, EndsAt
<1> HIDE DEF W, t
<1>5. ASSUME T # {} PROVE FALSE
  <2>1. PICK n \in T : \A m \in T : n <= m
    <3>1. T \subseteq Nat
      BY Fat16Assumption
    <3> HIDE DEF T
    <3> QED
      BY <1>5, <3>1, LeastNumber
  <2>2. PICK k \in 1 .. Len(q) : Len(q) - k + 1 <= n /\ W[n][q[k]] # SubSeq(q, k, Len(q))
    BY <2>1
  <2>3. n \in 0 .. NumClusters + 1 /\ n # 0 /\ n - 1 \in 0 .. NumClusters + 1 /\ ~(n <= n - 1)
    BY <1>1, <2>1, <2>2, Fat16Assumption
  <2>4. W[n][q[k]] = <<q[k]>> \o W[n - 1][t[q[k]]]
    BY <1>1, <1>2, <1>3, <2>3 DEF Row
  <2>5. SubSeq(q, k, Len(q)) = <<q[k]>> \o SubSeq(q, k + 1, Len(q))
    <3>1. Len(q) \in k .. Len(q)
      BY <1>1
    <3> QED
      BY <1>1, <3>1, SubSeqRecursiveFirst
  <2>6. CASE k = Len(q)
    <3>1. W[n - 1][EOC] = <<>>
      BY <1>2, <1>3, <2>3 DEF Row
    <3>2. SubSeq(q, k + 1, Len(q)) = <<>>
      BY <1>1, <2>6, SubSeqEmpty
    <3> QED
      BY <1>4, <2>2, <2>4, <2>5, <2>6, <3>1, <3>2
  <2>7. CASE k # Len(q)
    <3>1. k + 1 \in 1 .. Len(q) /\ Len(q) - (k + 1) + 1 <= n - 1
      BY <1>1, <2>2, <2>7
    <3>2. Good(n - 1)
      BY <2>1, <2>3
    <3>3. W[n - 1][q[k + 1]] = SubSeq(q, k + 1, Len(q))
      BY <3>1, <3>2
    <3> QED
      BY <1>4, <2>2, <2>4, <2>5, <2>7, <3>3
  <2> QED
    BY <2>6, <2>7
<1>6. Good(NumClusters + 1)
  BY <1>5, Fat16Assumption
<1>7. W[NumClusters + 1][q[1]] = SubSeq(q, 1, Len(q))
  BY <1>1, <1>6, Fat16Assumption
<1> QED
  BY <1>1, <1>7, ChainIsWalk, SubSeqFull DEF Chain, W, t

(* What was written is read back whole.                                    *)
LEMMA CompleteReads ==
    ASSUME TypeOK, NEW q, Complete(q), job.len # 0
    PROVE  ReadFile(job.ent) = Written(job.val, job.len)
<1>1. /\ job.len \in Nat /\ q \in Seq(Clusters) /\ Len(q) \in Nat /\ PerSector \in Nat \ {0}
      /\ job.len <= PerSector * Len(q)
  BY Fat16Assumption, LenProperties DEF TypeOK, JobType, Complete, Spine
<1>2. q # <<>>
  BY <1>1
<1>3. job.ent.first = q[1] /\ job.ent.size = job.len
  BY <1>2 DEF Complete, HeadOf
<1>4. Chain(job.ent.first) = q
  BY <1>2, <1>3, SpineChain DEF Complete
<1>5. PICK h, len : h = PerSector * Len(q) /\ len = job.len
  OBVIOUS
<1>6. (IF len < h THEN len ELSE h) = len
  BY <1>1, <1>5
<1>7. ReadFile(job.ent) = [i \in 1 .. (IF len < h THEN len ELSE h) |-> CellOf(q, i)]
  BY <1>3, <1>4, <1>5 DEF ReadFile, CellOf
<1>8. \A i \in 1 .. len : CellOf(q, i) = DataCell(job.val, i)
  BY <1>5 DEF Complete, Holds
<1> QED
  BY <1>5, <1>6, <1>7, <1>8 DEF Written

-----------------------------------------------------------------------------
(* Steps that leave the root directory alone                               *)

RootKept == \A s \in RootSet : CellAt(s)' = CellAt(s)

(* The call goes on; its entry's chain may just have become its own.       *)
Runs ==
    /\ pc # "idle" /\ pc' # "idle"
    /\ job'.op = job.op /\ job'.name = job.name /\ job'.val = job.val /\ job'.len = job.len
    /\ \/ job'.freed = job.freed /\ (job.freed = TRUE => job'.slot = job.slot) /\ was' = was
       \/ /\ job.freed = FALSE /\ job'.freed = TRUE /\ job'.slot \in RootSet
          /\ was' = ReadFile(CellAt(job'.slot))
(* The call returns, and its entry is as it was.                           *)
Returns == pc # "idle" /\ pc' = "idle" /\ job' = NoJob

(* A sector of the data area is none of the root directory's.              *)
LEMMA SectorKeeps ==
    ASSUME TypeOK, NEW c \in Clusters, NEW z, sec' = [sec EXCEPT ![cluster_to_lba(c)] = z]
    PROVE  RootKept
<1>1. cluster_to_lba(c) \in Int /\ cluster_to_lba(c) > RootSectors
  BY Fat16Assumption DEF cluster_to_lba, Clusters
<1>2. ASSUME NEW s \in RootSet PROVE s.lba # cluster_to_lba(c) /\ s.lba \in Lbas
  BY <1>1, Fat16Assumption DEF RootSet, Slots, Lbas
<1> QED
  BY <1>2 DEF RootKept, CellAt, TypeOK

(* A step that writes no sector leaves the root directory alone.           *)
LEMMA NoSectorKeeps == ASSUME UNCHANGED sec PROVE RootKept
  BY DEF RootKept, CellAt

(* What is said of the root directory stays true.                          *)
LEMMA RootSame ==
    ASSUME RootKept
    PROVE  /\ RootOK => RootOK'
           /\ \A s \in RootSet : Vacant(s) => Vacant(s)'
           /\ \A s \in RootSet : \A n : Carries(s, n)' <=> Carries(s, n)
           /\ \A n : RootSlots(n)' = RootSlots(n)
<1>1. \A s \in RootSet : \A n : Carries(s, n)' <=> Carries(s, n)
  BY DEF RootKept, Carries
<1>2. ASSUME RootOK PROVE RootOK'
  <2>1. \A s \in RootSet : CellAt(s)'.dir = FALSE /\ CellAt(s)'.size \in Lens \cup {0}
    BY <1>2 DEF RootOK, RootKept
  <2>2. \A s, t \in RootSet, n \in Names : Carries(s, n)' /\ Carries(t, n)' => s = t
    BY <1>1, <1>2 DEF RootOK
  <2>3. \A s, t \in RootSet : CellAt(s)'.kind = "end" /\ Precedes(s, t) => CellAt(t)'.kind = "end"
    BY <1>2 DEF RootOK, RootKept
  <2> QED
    BY <2>1, <2>2, <2>3 DEF RootOK
<1>3. ASSUME NEW s \in RootSet, Vacant(s) PROVE Vacant(s)'
  BY <1>3 DEF Vacant, RootKept
<1>4. ASSUME NEW n PROVE RootSlots(n)' = RootSlots(n)
  BY RootPlacesAre DEF RootSlots, RootKept, RootSet
<1> QED
  BY <1>1, <1>2, <1>3, <1>4

(* Names that no slot of the root directory carries are not there.         *)
LEMMA SlotsOfName ==
    ASSUME NEW n
    PROVE  \A s : s \in RootSlots(n) <=> s \in RootSet /\ Carries(s, n)
  BY RootPlacesAre DEF RootSlots, RootSet, Carries

(* Returning with the root directory as it was                             *)
LEMMA ReturnFiles ==
    ASSUME FilesInv, RootKept, path' = <<>>, NEW r, Return(r)
    PROVE  FilesInv' /\ (pc # "idle" => Returns)
<1>1. /\ pc' = "idle" /\ job' = NoJob /\ job'.dir = 0 /\ job'.op = "none" /\ job'.freed = FALSE
  BY DEF Return, NoJob, NewJob
<1>2. RootOK'
  BY RootSame DEF FilesInv
<1>3. ParamsOK'
  BY <1>1 DEF ParamsOK
<1>4. PassedOK' /\ PlaceOK' /\ DataOK'
  BY <1>1 DEF PassedOK, PlaceOK, DataOK
<1> QED
  BY <1>1, <1>2, <1>3, <1>4 DEF FilesInv, Returns

(* The parameters of a call do not change while it runs.                   *)
SameParams(j) ==
    j.op = job.op /\ j.name = job.name /\ j.val = job.val /\ j.len = job.len /\ j.dir = job.dir
SameCall(j) ==
    /\ SameParams(j)
    /\ j.freed = job.freed /\ (job.freed = TRUE => j.slot = job.slot)

(* A step of the call that keeps them is one of a running call.            *)
LEMMA GotoRuns ==
    ASSUME TypeOK, pc # "idle", NEW p, p # "idle", NEW j, Goto(p, j), SameCall(j)
    PROVE  Runs
<1>1. pc' = p /\ job' = j /\ job.freed \in BOOLEAN
  BY DEF Goto, TypeOK, JobType
<1>2. ~(j.freed /\ ~job.freed)
  BY <1>1 DEF SameCall
<1>3. was' = was
  BY <1>2 DEF Goto
<1> QED
  BY <1>1, <1>3 DEF Runs, SameCall, SameParams

(* What the invariant says of the slot and the entry of a call             *)
AtPlace(j) ==
    /\ j.slot \in RootSet
    /\ j.ent.kind = "entry" /\ j.ent.name = j.name /\ j.ent.dir = FALSE
    /\ \/ Carries(j.slot, j.name) /\ j.op # "touch"
       \/ /\ Vacant(j.slot) /\ RootSlots(j.name) = {}
          /\ j.op # "rm" /\ j.freed = FALSE

(* A slot that was right stays right while the root is not written.        *)
LEMMA AtPlaceKept == ASSUME RootKept, NEW j, AtPlace(j), job' = j PROVE AtPlace(job)'
<1>1. j.slot \in RootSet => /\ Vacant(j.slot) => Vacant(j.slot)'
                            /\ (Carries(j.slot, j.name)' <=> Carries(j.slot, j.name))
  BY RootSame
<1>2. RootSlots(j.name)' = RootSlots(j.name)
  BY RootSame
<1> QED
  BY <1>1, <1>2 DEF AtPlace

(* Where a call goes that keeps its parameters and has its place           *)
Arrives(p, j) ==
    /\ p \in {"eoc", "link", "zero", "data", "dirent", "free", "mark"}
    /\ p \in {"eoc", "link", "zero"} => j.why = "data"
    /\ p = "mark" => j.op = "rm"
    /\ p = "dirent" => /\ j.op # "rm" /\ j.ent.size \in Lens \cup {0}
                       /\ j.op = "touch" => j.ent.first = 0 /\ j.ent.size = 0
    /\ p = "free" /\ j.why = "delete" => j.op = "rm"

(* A call that arrives there keeps the invariant.                          *)
LEMMA GotoKeeps ==
    ASSUME FilesInv, RootKept, path' = <<>>, pc # "idle", NEW j, NEW p, Goto(p, j), SameParams(j),
           j.freed = TRUE => j.op \in {"rm", "echo"}, AtPlace(j), Arrives(p, j), DataOK'
    PROVE  FilesInv'
<1>1. pc' = p /\ job' = j
  BY DEF Goto
<1>2. RootOK'
  BY RootSame DEF FilesInv
<1>3. ParamsOK'
  BY <1>1 DEF FilesInv, ParamsOK, SameParams, Arrives
<1>4. PassedOK'
  BY <1>1 DEF PassedOK, Arrives
<1>5. AtPlace(job)'
  BY <1>1, AtPlaceKept
<1>6. PlaceOK'
  BY <1>1, <1>5 DEF PlaceOK, AtPlace, Arrives
<1> QED
  BY <1>2, <1>3, <1>4, <1>6 DEF FilesInv

(* And holds on to what it holds                                           *)
LEMMA GotoFiles ==
    ASSUME TypeOK, FilesInv, RootKept, path' = <<>>, pc # "idle", NEW j, NEW p, Goto(p, j), SameCall(j),
           AtPlace(j), Arrives(p, j), DataOK'
    PROVE  FilesInv' /\ Runs
<1>1. j.freed = TRUE => j.op \in {"rm", "echo"}
  BY DEF FilesInv, ParamsOK, SameCall, SameParams
<1>2. p # "idle"
  BY DEF Arrives
<1>3. FilesInv'
  BY <1>1, GotoKeeps DEF SameCall
<1> QED
  BY <1>2, <1>3, GotoRuns

(* The entry of the file that was written                                  *)
LEMMA PlacedEntry ==
    ASSUME NEW e \in CellType, NEW f, NEW n
    PROVE  /\ Placed(e, f, n).kind = e.kind /\ Placed(e, f, n).name = e.name /\ Placed(e, f, n).dir = e.dir
           /\ Placed(e, f, n).first = f /\ Placed(e, f, n).size = n
  BY DEF Placed, CellType

(* The loop of fat16_write_file: q is what it has written so far.          *)
LEMMA WriteOnFiles ==
    ASSUME TypeOK, FilesInv, RootKept, path' = <<>>, pc # "idle", NEW j \in JobType, WriteOn(j), SameCall(j),
           AtPlace(j), j.op = "echo", NEW q, Spine(q)', EndsAt(q, EOC)',
           j.first = HeadOf(q), j.last = LastOf(q),
           \A i \in 1 .. j.done : CellOf(q, i)' = DataCell(j.val, i),
           j.done < j.len => j.done = PerSector * Len(q),
           ~(j.done < j.len) => j.done = j.len /\ j.len <= PerSector * Len(q)
    PROVE  FilesInv' /\ Runs
<1>1. q \in Seq(Clusters) /\ j.len \in Lens
  BY DEF Spine, FilesInv, ParamsOK, SameCall, SameParams
<1>2. CASE j.done < j.len
  <2> DEFINE k == [j EXCEPT !.why = "data"]
  <2>1. Goto("eoc", k)
    BY <1>2 DEF WriteOn
  <2>2. k \in JobType /\ SameCall(k) /\ AtPlace(k) /\ k.why = "data" /\ k.done = j.done /\ k.len = j.len
        /\ k.first = j.first /\ k.last = j.last /\ k.val = j.val
    BY DEF SameCall, SameParams, AtPlace, JobType
  <2> HIDE DEF k
  <2>3. pc' = "eoc" /\ job' = k
    BY <2>1 DEF Goto
  <2>4. Growing(q)'
    BY <1>2, <2>2, <2>3 DEF Growing, Holds
  <2>5. DataOK'
    BY <1>1, <1>2, <2>2, <2>3, <2>4 DEF DataOK
  <2>6. Arrives("eoc", k)
    BY <2>2 DEF Arrives
  <2> QED
    BY <2>1, <2>2, <2>5, <2>6, GotoFiles
<1>3. CASE ~(j.done < j.len)
  <2>1. PICK e : e = Placed(j.ent, j.first, j.len)
    OBVIOUS
  <2>2. e.kind = j.ent.kind /\ e.name = j.ent.name /\ e.dir = j.ent.dir /\ e.first = j.first /\ e.size = j.len
    <3>1. j.ent \in CellType
      BY DEF JobType
    <3> QED
      BY <2>1, <3>1, PlacedEntry
  <2> DEFINE k == [j EXCEPT !.ent = e]
  <2>3. Goto("dirent", k)
    BY <1>3, <2>1 DEF WriteOn
  <2>4. k.ent = e /\ k.op = j.op /\ k.name = j.name /\ k.val = j.val /\ k.len = j.len /\ k.dir = j.dir
        /\ k.freed = j.freed /\ k.slot = j.slot
    BY DEF JobType
  <2> HIDE DEF k
  <2>5. SameCall(k)
    BY <2>4 DEF SameCall, SameParams
  <2>6. AtPlace(k)
    BY <2>2, <2>4 DEF AtPlace
  <2>7. pc' = "dirent" /\ job' = k
    BY <2>3 DEF Goto
  <2>8. Complete(q)'
    <3>1. Holds(q, job.len)'
      BY <1>3, <2>4, <2>7 DEF Holds
    <3> QED
      BY <1>3, <2>2, <2>4, <2>7, <3>1 DEF Complete
  <2>9. DataOK'
    BY <1>1, <2>7, <2>8 DEF DataOK
  <2>10. Arrives("dirent", k)
    BY <1>1, <2>2, <2>4 DEF Arrives
  <2> QED
    BY <2>3, <2>5, <2>6, <2>9, <2>10, GotoFiles
<1> QED
  BY <1>2, <1>3

(* A file begins without a cluster.                                        *)
LEMMA WriteOnBegins ==
    ASSUME TypeOK, FilesInv, RootKept, path' = <<>>, pc # "idle", NEW j \in JobType, WriteOn(j), SameCall(j),
           AtPlace(j), j.op = "echo", j.done = 0, j.first = 0, j.last = 0
    PROVE  FilesInv' /\ Runs
<1>1. PICK q : q = <<>>
  OBVIOUS
<1>2. q \in Seq(Clusters) /\ Len(q) = 0 /\ PerSector * Len(q) = 0
  BY <1>1, Fat16Assumption
<1>3. Spine(q)' /\ EndsAt(q, EOC)' /\ j.first = HeadOf(q) /\ j.last = LastOf(q)
  BY <1>1, <1>2 DEF Spine, EndsAt, HeadOf, LastOf
<1>4. j.len \in Nat
  BY DEF JobType
<1>5. \A i \in 1 .. j.done : CellOf(q, i)' = DataCell(j.val, i)
  OBVIOUS
<1>6. (j.done < j.len => j.done = PerSector * Len(q))
      /\ (~(j.done < j.len) => j.done = j.len /\ j.len <= PerSector * Len(q))
  BY <1>2, <1>4
<1> QED
  BY <1>3, <1>5, <1>6, WriteOnFiles

-----------------------------------------------------------------------------
(* The steps of a call that keep the invariant                             *)

(* A call begins.                                                          *)
Begins ==
    /\ pc = "idle" /\ pc' = "scan" /\ RootKept
    /\ job'.op \in {"touch", "rm", "echo"} /\ job'.name \in Names /\ job'.freed = FALSE
    /\ job'.op = "echo" => job'.val \in Values /\ job'.len \in Lens

(* The invariant holds of a call that begins.                              *)
LEMMA CallFiles ==
    ASSUME FilesInv, NEW op \in {"touch", "rm", "echo"}, NEW n \in Names, NEW v, NEW len,
           op = "echo" => v \in Values /\ len \in Lens, Call(op, 0, n, v, len)
    PROVE  FilesInv' /\ Begins
<1>1. /\ UNCHANGED <<sec, path>> /\ pc = "idle" /\ pc' = "scan" /\ job' = NewJob(op, 0, n, v, len)
  BY DEF Call, Goto, disk
<1>2. /\ job'.op = op /\ job'.dir = 0 /\ job'.name = n /\ job'.val = v /\ job'.len = len
      /\ job'.cur = 1 /\ job'.free = NoSlot /\ job'.freed = FALSE
      /\ job'.done = 0 /\ job'.first = 0 /\ job'.last = 0
  BY <1>1 DEF NewJob
<1>3. RootKept /\ RootOK'
  BY <1>1, NoSectorKeeps, RootSame DEF FilesInv
<1>4. ParamsOK'
  BY <1>1, <1>2 DEF FilesInv, ParamsOK
<1>5. PassedOK'
  <2>1. \A s \in RootSet : ~(s.lba < 1)
    BY DEF RootSet, Slots, Lbas
  <2> QED
    BY <1>2, <2>1 DEF PassedOK
<1>6. PlaceOK' /\ DataOK'
  BY <1>1, <1>2 DEF PlaceOK, DataOK
<1> QED
  BY <1>1, <1>2, <1>3, <1>4, <1>5, <1>6 DEF FilesInv, Begins

(* A command of the terminal or of the desktop                             *)
LEMMA CommandFiles ==
    ASSUME FilesOnly, FilesInv, TerminalCall \/ DesktopCall \/ CdUp \/ CdRoot
    PROVE  FilesInv' /\ Begins
<1>1. path = <<>> /\ Cwd = 0
  BY DEF FilesInv, ParamsOK, Cwd
<1>2. CASE TerminalCall
  <2>1. PICK op \in TerminalOps \ {"cdup"}, n \in Names :
           IF op = "echo"
           THEN \E v \in Values, len \in Lens : Call(op, Cwd, n, v, len)
           ELSE Call(op, Cwd, n, "-", 0)
    BY <1>2 DEF TerminalCall
  <2>2. op \in {"touch", "rm", "echo"}
    BY <2>1 DEF FilesOnly
  <2>3. CASE op = "echo"
    <3>1. PICK v \in Values, len \in Lens : Call(op, Cwd, n, v, len)
      BY <2>1, <2>3
    <3> QED
      BY <1>1, <2>2, <3>1, CallFiles
  <2>4. CASE op # "echo"
    <3>1. Call(op, 0, n, "-", 0)
      BY <1>1, <2>1, <2>4
    <3> QED
      BY <2>2, <2>4, <3>1, CallFiles
  <2> QED
    BY <2>3, <2>4
<1>3. CASE DesktopCall
  <2>1. PICK op \in DesktopOps, n \in Names, v \in Values, len \in Lens : Call(op, 0, n, v, len)
    BY <1>3 DEF DesktopCall
  <2>2. op = "echo"
    BY <2>1, Fat16Assumption
  <2> QED
    BY <2>1, <2>2, CallFiles
<1>4. CASE CdUp \/ CdRoot
  BY <1>1, <1>4 DEF CdUp, CdRoot
<1> QED
  BY <1>2, <1>3, <1>4

(* The sector that a scan looks at                                         *)
LEMMA ScanInRoot ==
    ASSUME TypeInv, FilesInv, pc = "scan", ~Exhausted
    PROVE  /\ ScanLba = job.cur /\ job.cur \in 1 .. RootSectors
           /\ \A i \in Cells : [lba |-> job.cur, idx |-> i] \in RootSet
           /\ \A s \in RootSet : s.lba = job.cur => s.idx \in Cells /\ CellAt(s) = sec[job.cur][s.idx]
<1>1. job.dir = 0 /\ job.cur \in Nat /\ job.cur >= 1 /\ RootSectors \in Nat /\ NumClusters \in Nat
  BY Fat16Assumption DEF TypeInv, TypeOK, JobType, JobOK, FilesInv, ParamsOK
<1>2. ScanLba = job.cur /\ job.cur \in 1 .. RootSectors
  BY <1>1 DEF Exhausted, ScanLba
<1>3. job.cur \in Lbas /\ job.cur <= RootSectors
  BY <1>1, <1>2 DEF Lbas
<1>4. \A i \in Cells : [lba |-> job.cur, idx |-> i] \in RootSet
  BY <1>3 DEF RootSet, Slots
<1>5. \A s \in RootSet : s.lba = job.cur => s.idx \in Cells /\ CellAt(s) = sec[job.cur][s.idx]
  BY DEF RootSet, Slots, CellAt
<1> QED
  BY <1>2, <1>4, <1>5

(* The name is there.                                                      *)
LEMMA ScanHitFiles ==
    ASSUME TypeInv, FilesInv, ScanHit
    PROVE  FilesInv' /\ (Runs \/ Returns) /\ RootKept
<1>1. /\ pc = "scan" /\ pc # "idle" /\ UNCHANGED <<fat, sec>> /\ ~Exhausted /\ TypeOK
      /\ job \in JobType /\ job.freed = FALSE /\ job.first = 0 /\ job.last = 0 /\ job.done = 0
      /\ job.op \in {"touch", "rm", "echo"} /\ path = <<>> /\ RootOK
  BY DEF ScanHit, disk, TypeInv, TypeOK, JobType, JobOK, FilesInv, ParamsOK, DataOK
<1>2. RootKept
  BY <1>1, NoSectorKeeps
<1>3. PICK i \in Cells : IsFirstStop(i) /\ sec[ScanLba][i].kind = "entry" /\ Found([lba |-> ScanLba, idx |-> i])
  BY DEF ScanHit
<1>4. PICK s : s = [lba |-> ScanLba, idx |-> i]
  OBVIOUS
<1>5. s \in RootSet /\ Carries(s, job.name)
  <2>1. s \in RootSet /\ CellAt(s) = sec[ScanLba][i]
    BY <1>1, <1>4, ScanInRoot DEF CellAt
  <2> QED
    BY <1>3, <2>1 DEF IsFirstStop, Stops, Carries
<1>6. PICK e : e = CellAt(s)
  OBVIOUS
<1>7. e \in CellType /\ e.kind = "entry" /\ e.name = job.name /\ e.dir = FALSE
  BY <1>1, <1>5, <1>6 DEF TypeOK, CellAt, RootSet, Slots, Carries, RootOK
<1> DEFINE j == [job EXCEPT !.slot = s, !.ent = e]
<1>8. /\ j \in JobType /\ SameParams(j) /\ SameCall(j) /\ j.slot = s /\ j.ent = e /\ j.freed = FALSE
      /\ j.op = job.op /\ j.name = job.name /\ j.first = 0 /\ j.last = 0 /\ j.done = 0
  BY <1>1, <1>5, <1>7 DEF JobType, SameCall, SameParams, RootSet
<1> HIDE DEF j
<1>9. job.op # "touch" => AtPlace(j)
  BY <1>5, <1>7, <1>8 DEF AtPlace
<1>10. \/ job.op = "touch" /\ Return(TRUE) /\ UNCHANGED path
       \/ job.op \in {"rm", "echo"} /\ UNCHANGED path /\
            \E w \in {"rewrite", "delete"} :
               /\ Goto("free", [j EXCEPT !.why = w, !.freed = TRUE, !.cur = e.first])
               /\ w = "delete" => job.op = "rm"
       \/ job.op = "rm" /\ Goto("mark", j) /\ UNCHANGED path
       \/ job.op = "echo" /\ WriteOn(j) /\ UNCHANGED path
  BY <1>1, <1>3, <1>4, <1>6 DEF Found, j
<1>11. CASE job.op = "touch" /\ Return(TRUE) /\ UNCHANGED path
  BY <1>1, <1>2, <1>11, ReturnFiles
<1>12. ASSUME job.op \in {"rm", "echo"}, UNCHANGED path, NEW w \in {"rewrite", "delete"},
              Goto("free", [j EXCEPT !.why = w, !.freed = TRUE, !.cur = e.first]), w = "delete" => job.op = "rm"
       PROVE  FilesInv' /\ Runs
  <2> DEFINE k == [j EXCEPT !.why = w, !.freed = TRUE, !.cur = e.first]
  <2>1. /\ k.op = j.op /\ k.name = j.name /\ k.val = j.val /\ k.len = j.len /\ k.dir = j.dir
        /\ k.slot = s /\ k.ent = e /\ k.freed = TRUE /\ k.why = w
        /\ k.first = 0 /\ k.last = 0 /\ k.done = 0
    BY <1>8 DEF JobType
  <2>2. Goto("free", k)
    BY <1>12
  <2> HIDE DEF k
  <2>3. SameParams(k) /\ AtPlace(k)
    BY <1>5, <1>7, <1>8, <1>12, <2>1 DEF SameParams, AtPlace
  <2>4. pc' = "free" /\ job' = k
    BY <2>2 DEF Goto
  <2>5. was' = ReadFile(k.ent)
    BY <1>1, <2>1, <2>2 DEF Goto
  <2>6. DataOK'
    BY <2>1, <2>4 DEF DataOK
  <2>7. Arrives("free", k)
    BY <1>8, <1>12, <2>1 DEF Arrives
  <2>8. FilesInv'
    <3>1. k.freed = TRUE => k.op \in {"rm", "echo"}
      BY <1>8, <1>12, <2>1
    <3> QED
      BY <1>1, <1>2, <1>12, <2>2, <2>3, <2>6, <2>7, <3>1, GotoKeeps
  <2>9. Runs
    <3>1. was' = ReadFile(CellAt(job'.slot))
      BY <1>6, <2>1, <2>4, <2>5
    <3> QED
      BY <1>1, <1>5, <2>1, <2>3, <2>4, <3>1 DEF Runs, SameParams
  <2> QED
    BY <2>8, <2>9
<1>13. CASE job.op = "rm" /\ Goto("mark", j) /\ UNCHANGED path
  <2>1. DataOK'
    BY <1>13 DEF DataOK, Goto
  <2>2. Arrives("mark", j)
    BY <1>8, <1>13 DEF Arrives
  <2> QED
    BY <1>1, <1>2, <1>8, <1>9, <1>13, <2>1, <2>2, GotoFiles
<1>14. CASE job.op = "echo" /\ WriteOn(j) /\ UNCHANGED path
  BY <1>1, <1>2, <1>8, <1>9, <1>14, WriteOnBegins
<1> QED
  BY <1>2, <1>10, <1>11, <1>12, <1>13, <1>14

(* The first deleted entry that the scan has passed                        *)
LEMMA FreeSlotInRoot ==
    ASSUME TypeInv, FilesInv, pc = "scan", ~Exhausted, NEW i \in Nat, NEW s \in Slots \cup {NoSlot},
           FreeSlotBefore(i, s), s # NoSlot
    PROVE  s \in RootSet /\ s.lba <= job.cur /\ CellAt(s).kind = "deleted"
<1>1. job.cur \in 1 .. RootSectors /\ ScanLba = job.cur
  BY ScanInRoot
<1>2. CASE s = job.free
  <2>1. s \in RootSet /\ s.lba < job.cur /\ CellAt(s).kind = "deleted"
    BY <1>2 DEF FilesInv, PassedOK
  <2>2. s.lba \in Int /\ job.cur \in Int
    BY <1>1, <2>1 DEF RootSet, Slots, Lbas
  <2> QED
    BY <2>1, <2>2
<1>3. CASE s # job.free
  <2>1. s.lba = job.cur /\ s.idx \in Cells /\ sec[job.cur][s.idx].kind = "deleted" /\ s \in Slots
    BY <1>1, <1>3 DEF FreeSlotBefore, Gone
  <2>2. job.cur <= RootSectors /\ job.cur <= job.cur
    BY <1>1
  <2> QED
    BY <2>1, <2>2 DEF RootSet, CellAt
<1> QED
  BY <1>2, <1>3

(* The end marker: the name is nowhere, and there is a place for it.       *)
LEMMA EndMarkerPlace ==
    ASSUME TypeInv, FilesInv, pc = "scan", ~Exhausted, NEW i \in Cells, NEW s \in Slots \cup {NoSlot},
           IsFirstStop(i), sec[ScanLba][i].kind = "end", FreeSlotBefore(i, s),
           NEW p, p = IF s = NoSlot THEN [lba |-> ScanLba, idx |-> i] ELSE s
    PROVE  p \in RootSet /\ Vacant(p) /\ RootSlots(job.name) = {}
<1>1. /\ ScanLba = job.cur /\ job.cur \in 1 .. RootSectors /\ i \in Nat /\ PerSector \in Nat
      /\ job.name \in Names /\ RootOK
  <2>1. ScanLba = job.cur /\ job.cur \in 1 .. RootSectors
    BY ScanInRoot
  <2>2. i \in Nat /\ PerSector \in Nat
    BY Fat16Assumption DEF Cells
  <2>3. job.name \in Names /\ RootOK
    BY DEF FilesInv, ParamsOK
  <2> QED
    BY <2>1, <2>2, <2>3
<1>2. PICK m : m = [lba |-> job.cur, idx |-> i]
  OBVIOUS
<1>3. m \in RootSet /\ CellAt(m).kind = "end" /\ m.lba = job.cur /\ m.idx = i
  BY <1>1, <1>2, ScanInRoot DEF CellAt
<1>4. ASSUME NEW t \in RootSet
      PROVE  /\ t.lba \in Int /\ t.idx \in Int
             /\ Precedes(t, m) => CellAt(t).kind # "end" /\ ~Carries(t, job.name)
  <2>1. t.lba \in Int /\ t.idx \in Int
    BY DEF RootSet, Slots, Lbas, Cells
  <2>2. CASE t.lba < job.cur
    BY <2>1, <2>2 DEF FilesInv, PassedOK
  <2>3. CASE t.lba = job.cur /\ t.idx < i
    <3>1. t.idx \in Cells /\ CellAt(t) = sec[job.cur][t.idx]
      BY <2>3, ScanInRoot
    <3>2. ~Stops(sec[job.cur][t.idx])
      BY <1>1, <2>3, <3>1 DEF IsFirstStop
    <3> QED
      BY <2>1, <3>1, <3>2 DEF Stops, Carries
  <2> QED
    BY <1>3, <2>1, <2>2, <2>3 DEF Precedes
<1>5. ASSUME NEW t \in RootSet PROVE ~Carries(t, job.name)
  <2>1. Precedes(t, m) \/ Precedes(m, t) \/ (t.lba = m.lba /\ t.idx = m.idx)
    BY <1>1, <1>3, <1>4 DEF Precedes
  <2>2. CASE Precedes(m, t)
    BY <1>1, <1>3, <2>2 DEF RootOK, Carries
  <2>3. CASE t.lba = m.lba /\ t.idx = m.idx
    BY <1>3, <2>3 DEF Carries, CellAt
  <2> QED
    BY <1>4, <2>1, <2>2, <2>3
<1>6. RootSlots(job.name) = {}
  BY <1>5, SlotsOfName
<1>7. CASE s = NoSlot
  <2>1. p = m
    BY <1>1, <1>2, <1>7
  <2> QED
    BY <1>3, <1>4, <1>6, <2>1 DEF Vacant
<1>8. CASE s # NoSlot
  <2>1. p = s /\ s \in RootSet /\ CellAt(s).kind = "deleted"
    BY <1>1, <1>8, FreeSlotInRoot
  <2> QED
    BY <1>6, <2>1 DEF Vacant
<1> QED
  BY <1>7, <1>8

(* The name is not there.                                                  *)
LEMMA ScanEndFiles ==
    ASSUME TypeInv, FilesInv, ScanEndMarker
    PROVE  FilesInv' /\ (Runs \/ Returns) /\ RootKept
<1>1. /\ pc = "scan" /\ pc # "idle" /\ UNCHANGED <<fat, sec, path>> /\ ~Exhausted /\ TypeOK
      /\ job \in JobType /\ job.freed = FALSE /\ job.first = 0 /\ job.last = 0 /\ job.done = 0
      /\ job.op \in {"touch", "rm", "echo"} /\ path = <<>> /\ path' = <<>> /\ job.name \in Names
  BY DEF ScanEndMarker, disk, TypeInv, TypeOK, JobType, JobOK, FilesInv, ParamsOK, DataOK
<1>2. RootKept
  BY <1>1, NoSectorKeeps
<1>3. PICK i \in Cells, s \in Slots \cup {NoSlot} :
          /\ IsFirstStop(i) /\ sec[ScanLba][i].kind = "end"
          /\ FreeSlotBefore(i, s)
          /\ NotFound(IF s = NoSlot THEN [lba |-> ScanLba, idx |-> i] ELSE s, job)
  BY DEF ScanEndMarker
<1>4. PICK p : p = IF s = NoSlot THEN [lba |-> ScanLba, idx |-> i] ELSE s
  OBVIOUS
<1>5. p \in RootSet /\ Vacant(p) /\ RootSlots(job.name) = {}
  BY <1>1, <1>3, <1>4, EndMarkerPlace
<1>6. PICK e : e = Entry(job.name, job.op = "mkdir")
  OBVIOUS
<1>7. e \in CellType /\ e.kind = "entry" /\ e.name = job.name /\ e.dir = FALSE /\ e.first = 0 /\ e.size = 0
  <2>1. (job.op = "mkdir") = FALSE
    BY <1>1
  <2>2. e \in CellType
    BY <1>1, <1>6, <2>1, CellTypes
  <2> QED
    BY <1>6, <2>1, <2>2 DEF Entry, Blank
<1> DEFINE j == [job EXCEPT !.slot = p, !.ent = e]
<1>8. /\ j \in JobType /\ SameCall(j) /\ j.slot = p /\ j.ent = e /\ j.freed = FALSE
      /\ j.op = job.op /\ j.name = job.name /\ j.first = 0 /\ j.last = 0 /\ j.done = 0
  BY <1>1, <1>5, <1>7 DEF JobType, SameCall, SameParams, RootSet
<1>9. \/ Return(FALSE)
      \/ job.op = "touch" /\ Goto("dirent", j)
      \/ job.op = "echo" /\ WriteOn(j)
  BY <1>1, <1>3, <1>4, <1>6 DEF NotFound
<1> HIDE DEF j
<1>10. job.op # "rm" => AtPlace(j)
  BY <1>5, <1>7, <1>8 DEF AtPlace
<1>11. CASE Return(FALSE)
  BY <1>1, <1>2, <1>11, ReturnFiles
<1>12. CASE job.op = "touch" /\ Goto("dirent", j)
  <2>1. DataOK'
    BY <1>8, <1>12 DEF DataOK, Goto
  <2>2. Arrives("dirent", j)
    BY <1>7, <1>8, <1>12 DEF Arrives
  <2> QED
    BY <1>1, <1>2, <1>8, <1>10, <1>12, <2>1, <2>2, GotoFiles
<1>13. CASE job.op = "echo" /\ WriteOn(j)
  BY <1>1, <1>2, <1>8, <1>10, <1>13, WriteOnBegins
<1> QED
  BY <1>2, <1>9, <1>11, <1>12, <1>13

(* The scan moves on to the next sector of the root directory.             *)
LEMMA ScanNextFiles ==
    ASSUME TypeInv, FilesInv, ScanNextSector
    PROVE  FilesInv' /\ Runs /\ RootKept
<1>1. /\ pc = "scan" /\ pc # "idle" /\ UNCHANGED <<fat, sec, path>> /\ ~Exhausted /\ TypeOK
      /\ job \in JobType /\ job.freed = FALSE /\ job.dir = 0
      /\ (\A i \in Cells : ~Stops(sec[ScanLba][i]))
  BY DEF ScanNextSector, ScanOn, disk, TypeInv, TypeOK, JobType, JobOK, FilesInv, ParamsOK
<1>2. RootKept
  BY <1>1, NoSectorKeeps
<1>3. PICK s \in Slots \cup {NoSlot} :
          /\ FreeSlotBefore(PerSector + 1, s)
          /\ Goto("scan", [job EXCEPT !.free = s,
                                      !.csec = IF job.dir = 0 THEN 0 ELSE job.cur,
                                      !.cur = NextSector])
  BY DEF ScanNextSector, ScanOn
<1>4. NextSector = job.cur + 1 /\ job.cur \in 1 .. RootSectors /\ ScanLba = job.cur /\ RootSectors \in Nat
  BY <1>1, ScanInRoot, Fat16Assumption DEF NextSector
<1> DEFINE j == [job EXCEPT !.free = s, !.csec = IF job.dir = 0 THEN 0 ELSE job.cur, !.cur = NextSector]
<1>5. /\ SameCall(j) /\ j.cur = job.cur + 1 /\ j.free = s /\ j.done = job.done /\ j.first = job.first /\ j.last = job.last
  BY <1>1, <1>4 DEF JobType, SameCall, SameParams
<1>6. Goto("scan", j)
  BY <1>3
<1> HIDE DEF j
<1>7. pc' = "scan" /\ job' = j
  BY <1>6 DEF Goto
<1>8. RootOK'
  BY <1>2, RootSame DEF FilesInv
<1>9. ParamsOK'
  BY <1>1, <1>5, <1>7 DEF FilesInv, ParamsOK, SameCall, SameParams
<1>10. PassedOK'
  <2>1. ASSUME NEW t \in RootSet, t.lba < job.cur + 1
        PROVE  CellAt(t)'.kind # "end" /\ ~Carries(t, job.name)'
    <3>1. t.lba \in Int /\ CellAt(t)' = CellAt(t) /\ job'.name = job.name
      BY <1>2, <1>5, <1>7 DEF RootSet, Slots, Lbas, RootKept, SameCall, SameParams
    <3>2. CASE t.lba < job.cur
      BY <1>1, <3>1, <3>2 DEF FilesInv, PassedOK, Carries
    <3>3. CASE t.lba = job.cur
      BY <1>1, <1>4, <3>1, <3>3, ScanInRoot DEF Stops, Carries
    <3> QED
      BY <1>4, <2>1, <3>1, <3>2, <3>3
  <2>2. ASSUME s # NoSlot PROVE s \in RootSet /\ s.lba < job.cur + 1 /\ CellAt(s)'.kind = "deleted"
    <3>1. s \in RootSet /\ s.lba <= job.cur /\ CellAt(s).kind = "deleted"
      BY <1>1, <1>3, <2>2, FreeSlotInRoot, Fat16Assumption
    <3>2. s.lba \in Int /\ job.cur \in Int
      BY <1>4, <3>1 DEF RootSet, Slots, Lbas
    <3> QED
      BY <1>2, <3>1, <3>2 DEF RootKept
  <2> QED
    BY <1>5, <1>7, <2>1, <2>2 DEF PassedOK
<1>11. PlaceOK' /\ DataOK'
  BY <1>1, <1>5, <1>7 DEF PlaceOK, FilesInv, DataOK
<1>12. Runs
  BY <1>1, <1>5, <1>6, GotoRuns
<1> QED
  BY <1>2, <1>8, <1>9, <1>10, <1>11, <1>12 DEF FilesInv

(* A full root directory, or one that cannot be read: the call fails.      *)
LEMMA ScanFailsFiles ==
    ASSUME TypeInv, FilesInv, ScanExhausted \/ ScanReadError
    PROVE  FilesInv' /\ Returns /\ RootKept
<1>1. /\ pc = "scan" /\ pc # "idle" /\ UNCHANGED <<sec, path>> /\ path' = <<>> /\ job.dir = 0 /\ RanOffTheEnd
  BY DEF ScanExhausted, ScanReadError, disk, FilesInv, ParamsOK
<1>2. Return(FALSE) /\ RootKept
  BY <1>1, NoSectorKeeps DEF RanOffTheEnd
<1> QED
  BY <1>1, <1>2, ReturnFiles

(* A call that has its slot                                                *)
LEMMA HasPlace ==
    ASSUME TypeInv, FilesInv, pc \notin {"idle", "scan"}
    PROVE  /\ AtPlace(job) /\ SameCall(job) /\ job \in JobType /\ TypeOK /\ JobOK
           /\ path = <<>> /\ RootOK /\ job.dir = 0 /\ job.name \in Names
<1>1. job \in JobType /\ TypeOK /\ JobOK
  BY DEF TypeInv, TypeOK
<1>2. AtPlace(job)
  BY DEF FilesInv, PlaceOK, AtPlace
<1>3. SameCall(job)
  BY DEF SameCall, SameParams
<1>4. path = <<>> /\ RootOK /\ job.dir = 0 /\ job.name \in Names
  BY DEF FilesInv, ParamsOK
<1> QED
  BY <1>1, <1>2, <1>3, <1>4

(* No cluster could be had: the call fails, or frees what it has first.    *)
LEMMA ExtendFailedFiles ==
    ASSUME TypeInv, FilesInv, pc \in {"eoc", "link", "zero"}, RootKept, path' = <<>>, NEW h, ExtendFailed(h)
    PROVE  FilesInv' /\ (Runs \/ Returns)
<1>1. AtPlace(job) /\ job \in JobType /\ TypeOK /\ pc # "idle"
  BY HasPlace
<1>2. CASE Return(FALSE)
  BY <1>1, <1>2, ReturnFiles
<1>3. CASE Goto("free", [job EXCEPT !.why = "undo", !.cur = job.first])
  <2> DEFINE j == [job EXCEPT !.why = "undo", !.cur = job.first]
  <2>1. SameCall(j) /\ j.why = "undo" /\ j.slot = job.slot /\ j.ent = job.ent
    BY <1>1 DEF JobType, SameCall, SameParams
  <2>2. Goto("free", j)
    BY <1>3
  <2> HIDE DEF j
  <2>3. AtPlace(j) /\ Arrives("free", j)
    BY <1>1, <2>1 DEF AtPlace, Arrives, SameCall, SameParams
  <2>4. DataOK'
    BY <2>1, <2>2 DEF DataOK, Goto
  <2> QED
    BY <1>1, <2>1, <2>2, <2>3, <2>4, GotoFiles
<1> QED
  BY <1>2, <1>3 DEF ExtendFailed

(* Elements of the chain under way                                         *)
LEMMA SpineFacts ==
    ASSUME NEW q, Spine(q)
    PROVE  /\ q \in Seq(Clusters) /\ Len(q) \in Nat /\ (q # <<>> => Len(q) >= 1) /\ (q = <<>> => Len(q) = 0)
           /\ \A i \in 1 .. Len(q) : q[i] \in Clusters
           /\ \A i, k \in 1 .. Len(q) : q[i] = q[k] => i = k
           /\ \A i \in 1 .. Len(q) - 1 : fat[1][q[i]] = q[i + 1] /\ i \in 1 .. Len(q) /\ i + 1 \in 1 .. Len(q)
<1>1. q \in Seq(Clusters)
  BY DEF Spine
<1>2. Len(q) \in Nat /\ (q # <<>> => Len(q) >= 1) /\ (q = <<>> => Len(q) = 0)
  BY <1>1, EmptySeq, LenProperties
<1>3. \A i \in 1 .. Len(q) : q[i] \in Clusters
  BY <1>1, ElementOfSeq
<1>4. \A i \in 1 .. Len(q) - 1 : i \in 1 .. Len(q) /\ i + 1 \in 1 .. Len(q)
  BY <1>2
<1> QED
  BY <1>1, <1>2, <1>3, <1>4 DEF Spine

(* fat_find_free_cluster and the entry of the new cluster                  *)
LEMMA AllocFiles ==
    ASSUME TypeInv, FilesInv, RootKept, path' = <<>>, UNCHANGED sec, NEW c, Allocates(c)
    PROVE  FilesInv' /\ Runs
<1>1. /\ pc = "eoc" /\ c \in Clusters /\ fat[1][c] = FREE /\ fat_write_entry(c, EOC, 2)
      /\ Goto(IF job.last >= 2 THEN "link" ELSE "zero", [job EXCEPT !.new = c])
  BY DEF Allocates
<1>2. /\ AtPlace(job) /\ SameCall(job) /\ job \in JobType /\ TypeOK /\ pc # "idle" /\ job.why = "data"
      /\ job.done < job.len
  BY <1>1, HasPlace DEF FilesInv, ParamsOK, DataOK
<1>3. fat'[1] = [fat[1] EXCEPT ![c] = EOC] /\ fat[1] \in [Clusters -> Links]
  <2>1. EOC \in Links /\ 2 \in 0 .. 2
    BY DEF Links
  <2>2. fat'[1] = [fat[1] EXCEPT ![c] = EOC]
    BY <1>1, <1>2, <2>1, FatWriteType
  <2> QED
    BY <1>2, <2>2 DEF TypeOK, Links
<1> DEFINE j == [job EXCEPT !.new = c]
           p == IF job.last >= 2 THEN "link" ELSE "zero"
<1>4. /\ SameCall(j) /\ j.slot = job.slot /\ j.ent = job.ent /\ j.why = "data" /\ j.new = c /\ j.done = job.done
      /\ j.first = job.first /\ j.last = job.last /\ j.val = job.val /\ j.len = job.len /\ j.name = job.name
      /\ j.op = job.op /\ j.freed = job.freed
  BY <1>2 DEF SameCall, SameParams, JobType
<1>5. Goto(p, j)
  BY <1>1
<1>6. p \in {"link", "zero"} /\ (p = "zero" => job.last = 0)
  BY <1>2 DEF JobType, Clusters
<1> HIDE DEF j, p
<1>7. pc' = p /\ job' = j
  BY <1>5 DEF Goto
<1>8. PICK q \in Seq(Clusters) : Growing(q)
  BY <1>1 DEF FilesInv, DataOK
<1>9. Spine(q) /\ EndsAt(q, EOC) /\ job.done = PerSector * Len(q) /\ Holds(q, job.done)
      /\ job.first = HeadOf(q) /\ job.last = LastOf(q)
  BY <1>1, <1>8 DEF Growing
<1>10. ASSUME NEW i \in 1 .. Len(q) PROVE q[i] # c /\ fat'[1][q[i]] = fat[1][q[i]]
  <2>1. q[i] \in Clusters /\ Len(q) \in Nat /\ (i # Len(q) => i \in 1 .. Len(q) - 1)
    BY <1>9, SpineFacts
  <2>2. fat[1][q[i]] # FREE
    <3>1. CASE i = Len(q)
      <4>1. q # <<>>
        BY <1>9, <3>1, SpineFacts
      <4> QED
        BY <1>9, <3>1, <4>1 DEF EndsAt, EOC, FREE
    <3>2. CASE i # Len(q)
      <4>1. fat[1][q[i]] = q[i + 1] /\ i + 1 \in 1 .. Len(q)
        BY <1>9, <2>1, <3>2, SpineFacts
      <4>2. q[i + 1] \in Clusters
        BY <1>9, <4>1, SpineFacts
      <4> QED
        BY <4>1, <4>2 DEF Clusters, FREE
    <3> QED
      BY <3>1, <3>2
  <2> QED
    BY <1>1, <1>3, <2>1, <2>2
<1>11. Spine(q)'
  <2>1. \A i \in 1 .. Len(q) - 1 : fat'[1][q[i]] = q[i + 1]
    BY <1>9, <1>10, SpineFacts
  <2> QED
    BY <1>9, <2>1 DEF Spine
<1>12. Holds(q, job.done)'
  BY <1>4, <1>7, <1>9 DEF Holds, CellOf
<1>13. EndsAt(q, IF pc = "zero" THEN job.new ELSE EOC)'
  <2>1. CASE q = <<>>
    BY <2>1 DEF EndsAt
  <2>2. CASE q # <<>>
    <3>1. Len(q) \in 1 .. Len(q) /\ q[Len(q)] \in Clusters
      BY <1>9, <2>2, SpineFacts
    <3>2. p = "link"
      BY <1>6, <1>9, <2>2, <3>1 DEF LastOf, Clusters
    <3>3. fat'[1][q[Len(q)]] = EOC
      BY <1>9, <1>10, <2>2, <3>1 DEF EndsAt
    <3> QED
      BY <1>7, <3>2, <3>3 DEF EndsAt
  <2> QED
    BY <2>1, <2>2
<1>14. Growing(q)'
  <2>1. fat'[1][c] = EOC
    BY <1>1, <1>3
  <2>2. job'.new = c /\ job'.done = PerSector * Len(q) /\ job'.first = HeadOf(q) /\ job'.last = LastOf(q)
    BY <1>4, <1>7, <1>9
  <2> QED
    BY <1>10, <1>11, <1>12, <1>13, <2>1, <2>2 DEF Growing
<1>15. DataOK'
  BY <1>2, <1>4, <1>6, <1>7, <1>8, <1>14 DEF DataOK
<1>16. AtPlace(j) /\ Arrives(p, j)
  BY <1>2, <1>4, <1>6 DEF AtPlace, Arrives
<1> QED
  BY <1>2, <1>4, <1>5, <1>15, <1>16, GotoFiles

(* The cluster before the new one refers to it.                            *)
LEMMA LinkFiles ==
    ASSUME TypeInv, FilesInv, RootKept, path' = <<>>, UNCHANGED sec, pc = "link",
           fat_write_entry(job.last, job.new, 2), Goto("zero", job)
    PROVE  FilesInv' /\ Runs
<1>1. /\ AtPlace(job) /\ SameCall(job) /\ job \in JobType /\ TypeOK /\ pc # "idle" /\ job.why = "data"
      /\ job.done < job.len /\ job.last \in Clusters /\ job.new \in Clusters
  BY HasPlace DEF FilesInv, ParamsOK, DataOK, JobOK, JobType
<1>2. fat'[1] = [fat[1] EXCEPT ![job.last] = job.new] /\ fat[1] \in [Clusters -> Links]
  <2>1. job.new \in Links /\ 2 \in 0 .. 2
    BY <1>1 DEF Links
  <2>2. fat'[1] = [fat[1] EXCEPT ![job.last] = job.new]
    BY <1>1, <2>1, FatWriteType
  <2> QED
    BY <1>1, <2>2 DEF TypeOK, Links
<1>3. pc' = "zero" /\ job' = job
  BY DEF Goto
<1>4. PICK q \in Seq(Clusters) : Growing(q)
  BY DEF FilesInv, DataOK
<1>5. /\ Spine(q) /\ EndsAt(q, EOC) /\ job.done = PerSector * Len(q) /\ Holds(q, job.done)
      /\ job.first = HeadOf(q) /\ job.last = LastOf(q) /\ fat[1][job.new] = EOC
      /\ (\A i \in 1 .. Len(q) : q[i] # job.new)
  BY <1>4 DEF Growing
<1>6. q # <<>> /\ Len(q) \in Nat /\ Len(q) >= 1 /\ job.last = q[Len(q)] /\ Len(q) \in 1 .. Len(q)
  <2>1. q # <<>>
    BY <1>1, <1>5 DEF LastOf, Clusters
  <2> QED
    BY <1>5, <2>1, SpineFacts DEF LastOf
<1>7. Spine(q)'
  <2>1. ASSUME NEW i \in 1 .. Len(q) - 1 PROVE fat'[1][q[i]] = q[i + 1]
    <3>1. i \in 1 .. Len(q) /\ i # Len(q)
      BY <1>6
    <3>2. q[i] # job.last /\ q[i] \in Clusters
      BY <1>5, <1>6, <3>1, SpineFacts
    <3> QED
      BY <1>2, <1>5, <3>2, SpineFacts
  <2> QED
    BY <1>5, <2>1 DEF Spine
<1>8. Holds(q, job.done)'
  BY <1>3, <1>5 DEF Holds, CellOf
<1>9. EndsAt(q, IF pc = "zero" THEN job.new ELSE EOC)'
  BY <1>1, <1>2, <1>3, <1>6 DEF EndsAt
<1>10. fat'[1][job.new] = EOC
  BY <1>1, <1>2, <1>5, <1>6
<1>11. Growing(q)'
  BY <1>3, <1>5, <1>7, <1>8, <1>9, <1>10 DEF Growing
<1>12. DataOK'
  BY <1>1, <1>3, <1>4, <1>11 DEF DataOK
<1>13. Arrives("zero", job)
  BY <1>1 DEF Arrives
<1> QED
  BY <1>1, <1>12, <1>13, GotoFiles

(* The cells in sectors that are not written                               *)
LEMMA CellsSame ==
    ASSUME NEW q, NEW r, NEW n \in Nat, NEW i \in 1 .. PerSector * n,
           \A k \in 1 .. n : r[k] = q[k] /\ sec'[cluster_to_lba(q[k])] = sec[cluster_to_lba(q[k])]
    PROVE  CellOf(r, i)' = CellOf(q, i)
<1>1. PICK k : k = ((i - 1) \div PerSector) + 1
  OBVIOUS
<1>2. k \in 1 .. n
  BY <1>1, SectorOfCell, Fat16Assumption
<1>3. r[k] = q[k] /\ sec'[cluster_to_lba(q[k])] = sec[cluster_to_lba(q[k])]
  BY <1>2
<1> QED
  BY <1>1, <1>3 DEF CellOf

(* A sector of one cluster is no other cluster's.                          *)
LEMMA SectorOfOther ==
    ASSUME TypeOK, NEW c \in Clusters, NEW z, sec' = [sec EXCEPT ![cluster_to_lba(c)] = z]
    PROVE  \A d \in Clusters : d # c => sec'[cluster_to_lba(d)] = sec[cluster_to_lba(d)]
<1> SUFFICES ASSUME NEW d \in Clusters, d # c
             PROVE  sec'[cluster_to_lba(d)] = sec[cluster_to_lba(d)]
  OBVIOUS
<1>1. cluster_to_lba(d) \in Lbas
  BY ClusterLba
<1>2. cluster_to_lba(c) # cluster_to_lba(d)
  BY Fat16Assumption DEF cluster_to_lba, Clusters
<1> QED
  BY <1>1, <1>2 DEF TypeOK

(* The new cluster is the last one of the chain.                           *)
LEMMA ZeroFiles ==
    ASSUME TypeInv, FilesInv, path' = <<>>, UNCHANGED fat, pc = "zero",
           sec' = [sec EXCEPT ![cluster_to_lba(job.new)] = CleanSector(cluster_to_lba(job.new))], Extended
    PROVE  FilesInv' /\ Runs /\ RootKept
<1>1. /\ AtPlace(job) /\ SameCall(job) /\ job \in JobType /\ TypeOK /\ pc # "idle" /\ job.why = "data"
      /\ job.done < job.len /\ job.new \in Clusters
  BY HasPlace DEF FilesInv, ParamsOK, DataOK, JobOK, JobType
<1>2. RootKept
  BY <1>1, SectorKeeps
<1>3. PICK c, z : c = job.new /\ z = CleanSector(cluster_to_lba(job.new))
  OBVIOUS
<1>4. c \in Clusters /\ sec' = [sec EXCEPT ![cluster_to_lba(c)] = z]
  BY <1>1, <1>3
<1> DEFINE j == [job EXCEPT !.last = job.new, !.first = IF @ = 0 THEN job.new ELSE @]
<1>5. Goto("data", j)
  BY <1>1 DEF Extended
<1>6. /\ SameCall(j) /\ j.slot = job.slot /\ j.ent = job.ent /\ j.new = c /\ j.done = job.done
      /\ j.first = (IF job.first = 0 THEN c ELSE job.first) /\ j.last = c
      /\ j.val = job.val /\ j.len = job.len /\ j.name = job.name /\ j.op = job.op /\ j.freed = job.freed
  BY <1>1, <1>3 DEF SameCall, SameParams, JobType
<1> HIDE DEF j
<1>7. pc' = "data" /\ job' = j
  BY <1>5 DEF Goto
<1>8. PICK q \in Seq(Clusters) : Growing(q)
  BY DEF FilesInv, DataOK
<1>9. /\ Spine(q) /\ EndsAt(q, c) /\ job.done = PerSector * Len(q) /\ Holds(q, job.done)
      /\ job.first = HeadOf(q) /\ job.last = LastOf(q) /\ fat[1][c] = EOC
      /\ (\A i \in 1 .. Len(q) : q[i] # c)
  BY <1>3, <1>8 DEF Growing
<1>10. PICK r : r = Append(q, c)
  OBVIOUS
<1>11. /\ r \in Seq(Clusters) /\ Len(q) \in Nat /\ Len(r) = Len(q) + 1 /\ r[Len(r)] = c
       /\ (\A i \in 1 .. Len(q) : r[i] = q[i] /\ q[i] \in Clusters)
  <2>1. q \in Seq(Clusters) /\ Len(q) \in Nat /\ (\A i \in 1 .. Len(q) : q[i] \in Clusters)
    BY <1>9, SpineFacts
  <2> QED
    BY <1>4, <1>10, <2>1, AppendProperties
<1>12. Spine(r)'
  <2>1. ASSUME NEW i \in 1 .. Len(r), NEW k \in 1 .. Len(r), r[i] = r[k] PROVE i = k
    <3>1. (i \in 1 .. Len(q) \/ i = Len(r)) /\ (k \in 1 .. Len(q) \/ k = Len(r))
      BY <1>11
    <3>2. CASE i \in 1 .. Len(q) /\ k \in 1 .. Len(q)
      BY <1>9, <1>11, <2>1, <3>2, SpineFacts
    <3>3. CASE i = Len(r) \/ k = Len(r)
      BY <1>9, <1>11, <2>1, <3>1, <3>3
    <3> QED
      BY <3>1, <3>2, <3>3
  <2>2. ASSUME NEW i \in 1 .. Len(r) - 1 PROVE fat[1][r[i]] = r[i + 1]
    <3>1. i \in 1 .. Len(q) /\ r[i] = q[i]
      BY <1>11
    <3>2. CASE i = Len(q)
      <4>1. q # <<>>
        BY <1>9, <3>1, SpineFacts
      <4> QED
        BY <1>9, <1>11, <3>1, <3>2, <4>1 DEF EndsAt
    <3>3. CASE i # Len(q)
      <4>1. i \in 1 .. Len(q) - 1 /\ i + 1 \in 1 .. Len(q)
        BY <1>11, <3>1, <3>3
      <4> QED
        BY <1>9, <1>11, <3>1, <4>1, SpineFacts
    <3> QED
      BY <3>2, <3>3
  <2> QED
    BY <1>11, <2>1, <2>2 DEF Spine
<1>13. ASSUME NEW i \in 1 .. job.done PROVE CellOf(r, i)' = DataCell(job.val, i)
  <2>1. ASSUME NEW k \in 1 .. Len(q)
        PROVE  r[k] = q[k] /\ sec'[cluster_to_lba(q[k])] = sec[cluster_to_lba(q[k])]
    <3>1. r[k] = q[k]
      BY <1>11
    <3>2. q[k] \in Clusters /\ q[k] # c
      BY <1>9, <1>11
    <3>3. \A d \in Clusters : d # c => sec'[cluster_to_lba(d)] = sec[cluster_to_lba(d)]
      BY <1>1, <1>4, SectorOfOther
    <3> QED
      BY <3>1, <3>2, <3>3
  <2>2. CellOf(r, i)' = CellOf(q, i)
    BY <1>9, <1>11, <2>1, CellsSame
  <2> QED
    BY <1>9, <2>2 DEF Holds
<1>14. Filling(r)'
  <2>1. Holds(r, job.done)'
    BY <1>6, <1>7, <1>13 DEF Holds
  <2>2. r # <<>> /\ EndsAt(r, EOC)'
    BY <1>9, <1>11 DEF EndsAt
  <2>3. j.first = r[1]
    <3>1. CASE q = <<>>
      <4>1. Len(q) = 0 /\ job.first = 0
        BY <1>9, <3>1, SpineFacts DEF HeadOf
      <4> QED
        BY <1>6, <1>11, <4>1
    <3>2. CASE q # <<>>
      <4>1. 1 \in 1 .. Len(q) /\ job.first = q[1]
        BY <1>9, <3>2, SpineFacts DEF HeadOf
      <4>2. job.first # 0
        BY <1>11, <4>1 DEF Clusters
      <4> QED
        BY <1>6, <1>11, <4>1, <4>2
    <3> QED
      BY <3>1, <3>2
  <2>4. job.done = PerSector * (Len(r) - 1)
    BY <1>9, <1>11
  <2> QED
    BY <1>6, <1>7, <1>11, <1>12, <2>1, <2>2, <2>3, <2>4 DEF Filling
<1>15. DataOK'
  BY <1>1, <1>6, <1>7, <1>11, <1>14 DEF DataOK
<1>16. AtPlace(j) /\ Arrives("data", j)
  BY <1>1, <1>6 DEF AtPlace, Arrives
<1> QED
  BY <1>1, <1>2, <1>5, <1>6, <1>15, <1>16, GotoFiles

(* extend_cluster_chain, all of it                                         *)
LEMMA ExtendFiles ==
    ASSUME TypeInv, FilesInv, Extend
    PROVE  FilesInv' /\ (Runs \/ Returns) /\ RootKept
<1>1. path = <<>> /\ TypeOK
  BY DEF FilesInv, ParamsOK, TypeInv
<1>2. CASE DiskFull
  <2>1. pc = "eoc" /\ UNCHANGED sec /\ path' = <<>> /\ ExtendFailed({})
    BY <1>1, <1>2 DEF DiskFull, disk
  <2> QED
    BY <2>1, NoSectorKeeps, ExtendFailedFiles
<1>3. CASE MarkEoc \/ MarkEocUnread
  <2>1. pc = "eoc" /\ UNCHANGED sec /\ path' = <<>>
    BY <1>1, <1>3 DEF MarkEoc, MarkEocUnread
  <2>2. RootKept
    BY <2>1, NoSectorKeeps
  <2>3. (\E c \in Clusters : Allocates(c)) \/ ExtendFailed({"fault"})
    <3>1. CASE MarkEoc
      BY <1>1, <2>1, <3>1 DEF MarkEoc, Allocates, IsNextFit, FreeClusters, fat_read_entry
    <3>2. CASE MarkEocUnread
      BY <1>1, <2>1, <3>2 DEF MarkEocUnread, Allocates, FreeClusters, fat_read_entry
    <3> QED
      BY <1>3, <3>1, <3>2
  <2> QED
    BY <2>1, <2>2, <2>3, AllocFiles, ExtendFailedFiles
<1>4. CASE LinkCluster
  <2>1. pc = "link" /\ UNCHANGED sec /\ path' = <<>>
    BY <1>1, <1>4 DEF LinkCluster
  <2>2. RootKept
    BY <2>1, NoSectorKeeps
  <2>3. (fat_write_entry(job.last, job.new, 2) /\ Goto("zero", job)) \/ ExtendFailed({"fault"})
    BY <1>4 DEF LinkCluster
  <2> QED
    BY <2>1, <2>2, <2>3, LinkFiles, ExtendFailedFiles
<1>5. CASE ZeroCluster
  <2>1. pc = "zero" /\ UNCHANGED fat /\ path' = <<>>
    BY <1>1, <1>5 DEF ZeroCluster
  <2>2. CASE UNCHANGED sec /\ ExtendFailed({"fault"})
    BY <2>1, <2>2, NoSectorKeeps, ExtendFailedFiles
  <2>3. CASE sec' = [sec EXCEPT ![cluster_to_lba(job.new)] = CleanSector(cluster_to_lba(job.new))] /\ Extended
    BY <2>1, <2>3, ZeroFiles
  <2> QED
    BY <1>5, <2>2, <2>3 DEF ZeroCluster
<1> QED
  BY <1>2, <1>3, <1>4, <1>5 DEF Extend

(* free_cluster_chain: nothing but table entries changes.                  *)
LEMMA ReleaseFiles ==
    ASSUME TypeInv, FilesInv, Release, "wild" \notin harm'
    PROVE  FilesInv' /\ (Runs \/ Returns) /\ RootKept
<1>1. pc = "free" /\ UNCHANGED <<sec, path>>
  <2>1. FreeBeyond => UNCHANGED <<sec, path>>
    BY BeyondHarmless
  <2> QED
    BY <2>1 DEF Release, FreeCluster, FreeLosesTrack, FreeBeyond, FreeDone, disk
<1>2. RootKept /\ path' = <<>> /\ AtPlace(job) /\ SameCall(job) /\ job \in JobType /\ TypeOK /\ JobOK /\ pc # "idle"
  BY <1>1, NoSectorKeeps, HasPlace
<1>3. CASE FreeCluster \/ FreeLosesTrack \/ FreeBeyond
  <2>1. PICK d : Goto("free", [job EXCEPT !.cur = d])
    BY <1>3, BeyondHarmless DEF FreeCluster, FreeLosesTrack
  <2> DEFINE j == [job EXCEPT !.cur = d]
  <2>2. Goto("free", j)
    BY <2>1
  <2>3. SameCall(j) /\ j.slot = job.slot /\ j.ent = job.ent /\ j.why = job.why /\ j.op = job.op /\ j.name = job.name
        /\ j.freed = job.freed /\ j.done = job.done /\ j.first = job.first /\ j.last = job.last
    BY <1>2 DEF SameCall, SameParams, JobType
  <2> HIDE DEF j
  <2>4. AtPlace(j)
    BY <1>2, <2>3 DEF AtPlace
  <2>5. Arrives("free", j)
    BY <1>1, <2>3 DEF Arrives, FilesInv, ParamsOK
  <2>6. DataOK'
    BY <1>1, <2>2, <2>3 DEF DataOK, Goto, FilesInv
  <2> QED
    BY <1>2, <2>2, <2>3, <2>4, <2>5, <2>6, GotoFiles
<1>4. CASE FreeDone
  <2>1. \/ job.why = "delete" /\ Goto("mark", job)
        \/ job.why = "rewrite" /\ WriteOn(job)
        \/ Return(FALSE)
    BY <1>1, <1>2, <1>4 DEF FreeDone, JobOK
  <2>2. CASE job.why = "delete" /\ Goto("mark", job)
    <3>1. Arrives("mark", job)
      BY <1>1, <2>2 DEF Arrives, FilesInv, ParamsOK
    <3>2. DataOK'
      BY <2>2 DEF DataOK, Goto
    <3> QED
      BY <1>2, <2>2, <3>1, <3>2, GotoFiles
  <2>3. CASE job.why = "rewrite" /\ WriteOn(job)
    <3>1. job.op = "echo" /\ job.done = 0 /\ job.first = 0 /\ job.last = 0
      BY <1>1, <1>2, <2>3 DEF JobOK, FilesInv, DataOK
    <3> QED
      BY <1>2, <2>3, <3>1, WriteOnBegins
  <2>4. CASE Return(FALSE)
    BY <1>2, <2>4, ReturnFiles
  <2> QED
    BY <1>2, <2>1, <2>2, <2>3, <2>4
<1> QED
  BY <1>3, <1>4 DEF Release

(* One more sector of the file                                             *)
LEMMA WriteDataFiles ==
    ASSUME TypeInv, FilesInv, WriteData
    PROVE  FilesInv' /\ (Runs \/ Returns) /\ RootKept
<1>1. /\ pc = "data" /\ UNCHANGED <<fat, path>> /\ path' = <<>> /\ AtPlace(job) /\ SameCall(job) /\ job \in JobType
      /\ TypeOK /\ pc # "idle" /\ job.op = "echo" /\ job.new \in Clusters /\ job.done < job.len
  <2>1. pc = "data" /\ UNCHANGED <<fat, path>>
    BY DEF WriteData
  <2>2. path' = <<>> /\ AtPlace(job) /\ SameCall(job) /\ job \in JobType /\ TypeOK /\ JobOK
    BY <2>1, HasPlace
  <2> QED
    BY <2>1, <2>2 DEF JobOK, JobType, FilesInv, DataOK
<1>2. CASE UNCHANGED sec /\ Return(FALSE)
  BY <1>1, <1>2, NoSectorKeeps, ReturnFiles
<1>3. ASSUME sec' = [sec EXCEPT ![cluster_to_lba(job.new)] = FileSector],
             WriteOn([job EXCEPT !.done = IF @ + PerSector < job.len THEN @ + PerSector ELSE job.len])
      PROVE  FilesInv' /\ Runs /\ RootKept
  <2>1. RootKept
    BY <1>1, <1>3, SectorKeeps
  <2>2. PICK c, z, d : /\ c = job.new /\ z = FileSector
                       /\ d = IF job.done + PerSector < job.len THEN job.done + PerSector ELSE job.len
    OBVIOUS
  <2>3. /\ c \in Clusters /\ sec' = [sec EXCEPT ![cluster_to_lba(c)] = z]
        /\ job.done \in Nat /\ job.len \in Nat /\ d \in Nat /\ PerSector \in Nat \ {0}
        /\ d <= job.len /\ d <= job.done + PerSector /\ (d < job.len => d = job.done + PerSector)
    BY <1>1, <1>3, <2>2, Fat16Assumption DEF JobType
  <2> DEFINE j == [job EXCEPT !.done = d]
  <2>4. /\ j \in JobType /\ SameCall(j) /\ j.slot = job.slot /\ j.ent = job.ent /\ j.done = d /\ j.op = job.op
        /\ j.name = job.name /\ j.freed = job.freed /\ j.val = job.val /\ j.len = job.len
        /\ j.first = job.first /\ j.last = job.last
    BY <1>1, <2>3 DEF SameCall, SameParams, JobType
  <2>5. WriteOn(j)
    BY <1>3, <2>2
  <2> HIDE DEF j
  <2>6. PICK q \in Seq(Clusters) : Filling(q)
    BY <1>1 DEF FilesInv, DataOK
  <2>7. /\ Spine(q) /\ q # <<>> /\ job.done = PerSector * (Len(q) - 1) /\ Holds(q, job.done) /\ EndsAt(q, EOC)
        /\ job.first = q[1] /\ job.last = c /\ c = q[Len(q)]
    BY <2>2, <2>6 DEF Filling
  <2>8. Len(q) \in Nat /\ Len(q) >= 1 /\ Len(q) - 1 \in Nat /\ Len(q) \in 1 .. Len(q)
    BY <2>7, SpineFacts
  <2>9. PICK n \in Nat : n = Len(q) - 1
    BY <2>8
  <2>10. job.done = PerSector * n /\ PerSector * Len(q) = PerSector * n + PerSector
    BY <2>3, <2>7, <2>8, <2>9
  <2>11. Spine(q)' /\ EndsAt(q, EOC)' /\ j.first = HeadOf(q) /\ j.last = LastOf(q)
    BY <1>1, <2>4, <2>7 DEF Spine, EndsAt, HeadOf, LastOf
  <2>12. ASSUME NEW i \in 1 .. j.done PROVE CellOf(q, i)' = DataCell(j.val, i)
    <3>1. CASE i <= job.done
      <4>1. ASSUME NEW k \in 1 .. n PROVE sec'[cluster_to_lba(q[k])] = sec[cluster_to_lba(q[k])]
        <5>1. k \in 1 .. Len(q) /\ k # Len(q)
          BY <2>8, <2>9
        <5>2. q[k] \in Clusters /\ q[k] # c
          BY <2>7, <2>8, <5>1, SpineFacts
        <5>3. \A x \in Clusters : x # c => sec'[cluster_to_lba(x)] = sec[cluster_to_lba(x)]
          BY <1>1, <2>3, SectorOfOther
        <5> QED
          BY <5>2, <5>3
      <4>2. i \in 1 .. PerSector * n
        BY <2>4, <2>10, <3>1
      <4>3. CellOf(q, i)' = CellOf(q, i)
        BY <4>1, <4>2, CellsSame
      <4>4. i \in 1 .. job.done
        BY <2>10, <4>2
      <4> QED
        BY <2>4, <2>7, <4>3, <4>4 DEF Holds
    <3>2. CASE ~(i <= job.done)
      <4>1. i \in Nat /\ PerSector * n < i /\ i <= PerSector * n + PerSector /\ i <= job.len
        BY <2>3, <2>4, <2>10, <3>2
      <4>2. (i - 1) \div PerSector = n /\ (i - 1) % PerSector = i - 1 - PerSector * n
        BY <2>3, <4>1, CellPlace
      <4>3. CellOf(q, i)' = sec'[cluster_to_lba(c)][i - job.done]
        <5>1. ((i - 1) \div PerSector) + 1 = Len(q)
          BY <2>8, <2>9, <4>2
        <5>2. ((i - 1) % PerSector) + 1 = i - job.done
          BY <2>3, <2>10, <4>1, <4>2
        <5> QED
          BY <2>7, <5>1, <5>2 DEF CellOf
      <4>4. i - job.done \in Cells /\ job.done + (i - job.done) = i
        BY <2>3, <2>10, <4>1 DEF Cells
      <4>5. sec'[cluster_to_lba(c)] = FileSector
        BY <1>1, <2>2, <2>3, ClusterLba DEF TypeOK
      <4> QED
        BY <2>4, <4>1, <4>3, <4>4, <4>5 DEF FileSector
    <3> QED
      BY <3>1, <3>2
  <2>13. j.done < j.len => j.done = PerSector * Len(q)
    BY <2>3, <2>4, <2>10
  <2>14. ~(j.done < j.len) => j.done = j.len /\ j.len <= PerSector * Len(q)
    BY <2>3, <2>4, <2>10
  <2>15. AtPlace(j) /\ j.op = "echo"
    BY <1>1, <2>4 DEF AtPlace
  <2> QED
    BY <1>1, <2>1, <2>4, <2>5, <2>11, <2>12, <2>13, <2>14, <2>15, WriteOnFiles
<1> QED
  BY <1>2, <1>3 DEF WriteData

(* A cell of the root directory is written, and the call returns.          *)
CellWritten(e) == \A t \in RootSet : CellAt(t)' = IF t = job.slot THEN e ELSE CellAt(t)

(* No name appears twice and no entry behind the end marker, because the   *)
(* call writes to the slot of its name or to a vacant one.                 *)
LEMMA SlotFiles ==
    ASSUME TypeInv, FilesInv, pc \notin {"idle", "scan"}, NEW e, WriteCell(job.slot, e),
           e.kind \in {"entry", "deleted"}, e.dir = FALSE, e.size \in Lens \cup {0},
           e.kind = "entry" => e.name = job.name, NEW r, Return(r), UNCHANGED path
    PROVE  FilesInv' /\ CellWritten(e)
<1>1. AtPlace(job) /\ TypeOK /\ RootOK /\ path' = <<>> /\ job.slot \in RootSet /\ job.name \in Names
  BY HasPlace DEF AtPlace
<1>2. CellWritten(e)
  <2> SUFFICES ASSUME NEW t \in RootSet PROVE CellAt(t)' = IF t = job.slot THEN e ELSE CellAt(t)
    BY DEF CellWritten
  <2>1. t.lba \in Lbas /\ t.idx \in Cells /\ job.slot.lba \in Lbas /\ job.slot.idx \in Cells
    BY <1>1 DEF RootSet, Slots
  <2>2. t = job.slot <=> t.lba = job.slot.lba /\ t.idx = job.slot.idx
    BY <1>1 DEF RootSet, Slots
  <2> QED
    BY <1>1, <2>1, <2>2 DEF WriteCell, CellAt, TypeOK
<1>3. ASSUME NEW s \in RootSet, Precedes(s, job.slot) PROVE CellAt(s).kind # "end"
  <2>1. CASE Carries(job.slot, job.name) \/ CellAt(job.slot).kind = "deleted"
    BY <1>1, <1>3, <2>1 DEF RootOK, Carries
  <2>2. CASE \A t \in RootSet : Precedes(t, job.slot) => CellAt(t).kind # "end"
    BY <1>3, <2>2
  <2> QED
    BY <1>1, <2>1, <2>2 DEF AtPlace, Vacant
<1>4. RootOK'
  <2>1. ASSUME NEW s \in RootSet PROVE CellAt(s)'.dir = FALSE /\ CellAt(s)'.size \in Lens \cup {0}
    BY <1>1, <1>2 DEF RootOK, CellWritten
  <2>2. ASSUME NEW s \in RootSet, NEW t \in RootSet, NEW n \in Names, Carries(s, n)', Carries(t, n)' PROVE s = t
    <3>1. ASSUME NEW x \in RootSet, Carries(x, n)' PROVE Carries(x, n) \/ (x = job.slot /\ n = job.name)
      BY <1>2, <3>1 DEF CellWritten, Carries
    <3>2. ASSUME NEW x \in RootSet, Carries(x, job.name) PROVE x = job.slot
      <4>1. CASE Carries(job.slot, job.name)
        BY <1>1, <3>2, <4>1 DEF RootOK
      <4>2. CASE RootSlots(job.name) = {}
        BY <3>2, <4>2, SlotsOfName
      <4> QED
        BY <1>1, <4>1, <4>2 DEF AtPlace
    <3>3. CASE Carries(s, n) /\ Carries(t, n)
      BY <1>1, <3>3 DEF RootOK
    <3>4. CASE n = job.name
      BY <2>2, <3>1, <3>2, <3>4
    <3> QED
      BY <2>2, <3>1, <3>3, <3>4
  <2>3. ASSUME NEW s \in RootSet, NEW t \in RootSet, CellAt(s)'.kind = "end", Precedes(s, t)
        PROVE  CellAt(t)'.kind = "end"
    <3>1. s # job.slot /\ CellAt(s).kind = "end"
      BY <1>2, <2>3 DEF CellWritten
    <3>2. t # job.slot
      BY <1>3, <2>3, <3>1
    <3> QED
      BY <1>1, <1>2, <2>3, <3>1, <3>2 DEF CellWritten, RootOK
  <2> QED
    BY <2>1, <2>2, <2>3 DEF RootOK
<1>5. pc' = "idle" /\ job'.dir = 0 /\ job'.op = "none" /\ job'.freed = FALSE
  BY DEF Return, NoJob, NewJob
<1>6. ParamsOK' /\ PassedOK' /\ PlaceOK' /\ DataOK'
  BY <1>1, <1>5 DEF ParamsOK, PassedOK, PlaceOK, DataOK
<1> QED
  BY <1>2, <1>4, <1>6 DEF FilesInv

(* fat16_write_file and fat16_create end; fat16_delete ends.               *)
WritesEntry == pc = "dirent" /\ UNCHANGED fat /\ CellWritten(job.ent) /\ WriteCell(job.slot, job.ent)
               /\ pc' = "idle" /\ job' = NoJob
ErasesEntry == pc = "mark" /\ CellWritten(Deleted) /\ pc' = "idle" /\ job' = NoJob

(* The last write of a call keeps the invariant, and fails or has its      *)
(* effect on the root directory.                                           *)
LEMMA EntryFiles ==
    ASSUME TypeInv, FilesInv, WriteDirent \/ MarkDeleted
    PROVE  FilesInv' /\ ((Returns /\ RootKept) \/ WritesEntry \/ ErasesEntry)
<1>1. pc \in {"dirent", "mark"} /\ UNCHANGED <<fat, path>> /\ path' = <<>> /\ AtPlace(job)
  <2>1. pc \in {"dirent", "mark"} /\ UNCHANGED <<fat, path>>
    BY DEF WriteDirent, MarkDeleted
  <2> QED
    BY <2>1, HasPlace
<1>2. CASE UNCHANGED sec /\ Return(FALSE)
  BY <1>1, <1>2, NoSectorKeeps, ReturnFiles
<1>3. CASE pc = "dirent" /\ WriteCell(job.slot, job.ent) /\ Return(TRUE)
  <2>1. job.ent.size \in Lens \cup {0} /\ job.ent.kind = "entry" /\ job.ent.dir = FALSE /\ job.ent.name = job.name
    BY <1>3 DEF FilesInv, PlaceOK
  <2>2. FilesInv' /\ CellWritten(job.ent)
    BY <1>1, <1>3, <2>1, SlotFiles
  <2> QED
    BY <1>1, <1>3, <2>2 DEF WritesEntry, Return
<1>4. CASE pc = "mark" /\ WriteCell(job.slot, Deleted) /\ Return(TRUE)
  <2>1. Deleted.kind = "deleted" /\ Deleted.dir = FALSE /\ Deleted.size = 0
    BY DEF Deleted, Blank
  <2>2. FilesInv' /\ CellWritten(Deleted)
    BY <1>1, <1>4, <2>1, SlotFiles
  <2> QED
    BY <1>4, <2>2 DEF ErasesEntry, Return
<1> QED
  BY <1>2, <1>3, <1>4 DEF WriteDirent, MarkDeleted

(* Power is lost.                                                          *)
LEMMA PowerFiles ==
    ASSUME TypeInv, FilesInv, PowerLoss
    PROVE  FilesInv' /\ RootKept /\ (pc # "idle" => Returns) /\ (pc = "idle" => pc' = "idle" /\ job' = NoJob)
<1>1. UNCHANGED sec /\ path' = <<>> /\ Return(FALSE)
  BY DEF PowerLoss
<1> QED
  BY <1>1, NoSectorKeeps, ReturnFiles DEF Return

-----------------------------------------------------------------------------
(* Every step keeps the invariant, and is of one of six kinds.             *)

(* Nothing runs, before and after the step.                                *)
Rests == RootKept /\ pc = "idle" /\ pc' = "idle" /\ job' = NoJob
StepKind ==
    Begins \/ (Runs /\ RootKept) \/ (Returns /\ RootKept) \/ WritesEntry \/ ErasesEntry \/ Rests

(* One case per action of Fat16                                            *)
LEMMA FilesNext ==
    ASSUME FilesOnly, TypeInv, FilesInv, Next, "wild" \notin harm'
    PROVE  FilesInv' /\ StepKind
<1>1. CASE TerminalCall \/ DesktopCall \/ CdUp \/ CdRoot
  BY <1>1, CommandFiles DEF StepKind
<1>2. CASE Scan
  <2>1. ~ScanLosesTrack
    BY DEF ScanLosesTrack, FilesInv, ParamsOK
  <2> QED
    BY <1>2, <2>1, ScanHitFiles, ScanEndFiles, ScanNextFiles, ScanFailsFiles DEF Scan, StepKind
<1>3. CASE Extend
  BY <1>3, ExtendFiles DEF StepKind
<1>4. CASE Release
  BY <1>4, ReleaseFiles DEF StepKind
<1>5. CASE Finish
  BY <1>5, WriteDataFiles, EntryFiles DEF Finish, StepKind
<1>6. CASE PowerLoss
  BY <1>6, PowerFiles DEF StepKind, Rests
<1> QED
  BY <1>1, <1>2, <1>3, <1>4, <1>5, <1>6 DEF Next, Driver

(* Nothing changes when nothing happens.                                   *)
LEMMA FilesStutters == ASSUME FilesInv, UNCHANGED vars PROVE FilesInv'
<1>1. UNCHANGED <<fat, sec, path, pc, job>>
  BY DEF vars
<1>2. RootOK'
  BY <1>1, NoSectorKeeps, RootSame DEF FilesInv
<1>3. ParamsOK'
  BY <1>1 DEF FilesInv, ParamsOK
<1>4. PassedOK'
  BY <1>1 DEF FilesInv, PassedOK, Carries, CellAt
<1>5. PlaceOK'
  BY <1>1 DEF FilesInv, PlaceOK, Carries, Vacant, RootSlots, CellAt
<1>6. DataOK'
  <2>1. ASSUME NEW q
        PROVE  (Growing(q)' <=> Growing(q)) /\ (Filling(q)' <=> Filling(q)) /\ (Complete(q)' <=> Complete(q))
    BY <1>1 DEF Growing, Filling, Complete, Spine, Holds, CellOf, EndsAt
  <2> QED
    BY <1>1, <2>1 DEF FilesInv, DataOK
<1> QED
  BY <1>2, <1>3, <1>4, <1>5, <1>6 DEF FilesInv

(* A formatted volume has no files.                                        *)
LEMMA InitFiles == Init => FilesInv
<1> SUFFICES ASSUME Init PROVE FilesInv
  OBVIOUS
<1>1. \A s \in RootSet : CellAt(s) = Blank
  BY DEF Init, CellAt, RootSet, Slots, ZeroSector
<1>2. Blank.kind = "end" /\ Blank.dir = FALSE /\ Blank.size = 0
  BY DEF Blank
<1>3. RootOK
  BY <1>1, <1>2 DEF RootOK, Carries
<1>4. pc = "idle" /\ path = <<>> /\ job.dir = 0 /\ job.op = "none" /\ job.freed = FALSE
  BY DEF Init, NoJob, NewJob
<1>5. ParamsOK /\ PassedOK /\ PlaceOK /\ DataOK
  BY <1>4 DEF ParamsOK, PassedOK, PlaceOK, DataOK
<1> QED
  BY <1>3, <1>5 DEF FilesInv

(* The invariant of the simulation: whose each cluster is, and FilesInv,   *)
(* as long as no walk has left the table                                   *)
StoreInv == OwnedInv /\ FilesInv
SimInv == OwnedInv /\ ("wild" \notin harm => FilesInv)

(* It is inductive.                                                        *)
LEMMA StoreStep ==
    ASSUME FilesOnly, StoreInv, [Next]_vars, "wild" \notin harm'
    PROVE  StoreInv'
<1>1. TypeInv
  BY DEF StoreInv, OwnedInv, Inv
<1>2. OwnedInv'
  BY OwnedStep DEF StoreInv
<1>3. FilesInv'
  BY <1>1, FilesNext, FilesStutters DEF StoreInv
<1> QED
  BY <1>2, <1>3 DEF StoreInv

(* A walk that has left the table does not come back.                      *)
LEMMA WildStays == ASSUME SimInv, [Next]_vars, "wild" \notin harm' PROVE "wild" \notin harm
<1>1. CASE UNCHANGED vars
  BY <1>1 DEF vars
<1>2. CASE Next
  BY <1>2, HarmGrows DEF SimInv, OwnedInv, Inv
<1> QED
  BY <1>1, <1>2

LEMMA SimStep == ASSUME FilesOnly, SimInv, [Next]_vars PROVE SimInv'
<1>1. OwnedInv'
  BY OwnedStep DEF SimInv
<1>2. ASSUME "wild" \notin harm' PROVE FilesInv'
  <2>1. StoreInv
    BY <1>2, WildStays DEF SimInv, StoreInv
  <2> QED
    BY <1>2, <2>1, StoreStep DEF StoreInv
<1> QED
  BY <1>1, <1>2 DEF SimInv

-----------------------------------------------------------------------------
(* What a caller sees                                                      *)

(* What the file of one slot reads as                                      *)
View(s) ==
    IF job.freed /\ job.slot = s THEN AsContents(was, CellAt(s).size)
    ELSE AsContents(ReadFile(CellAt(s)), CellAt(s).size)

(* As no name appears twice, a file reads as its slot does.                *)
LEMMA FileIsView ==
    ASSUME NEW n \in Names
    PROVE  /\ RootOK => \A s \in RootSlots(n) : RootFile(n) = View(s)
           /\ RootOK' => \A s \in RootSlots(n)' : RootFile(n)' = View(s)'
<1>1. ASSUME RootOK, NEW s \in RootSlots(n) PROVE RootFile(n) = View(s)
  <2>1. \A t : t \in RootSlots(n) => t \in RootSet /\ Carries(t, n)
    BY SlotsOfName
  <2>2. \A t \in RootSlots(n) : t = s
    BY <1>1, <2>1 DEF RootOK
  <2>3. (CHOOSE t \in RootSlots(n) : TRUE) = s /\ RootSlots(n) # {}
    BY <1>1, <2>2
  <2> QED
    BY <2>3 DEF RootFile, View
<1>2. ASSUME RootOK', NEW s \in RootSlots(n)' PROVE RootFile(n)' = View(s)'
  <2>1. \A t : t \in RootSlots(n)' => t \in RootSet /\ Carries(t, n)'
    BY RootPlacesAre DEF RootSlots, RootSet, Carries
  <2>2. \A t \in RootSlots(n)' : t = s
    BY <1>2, <2>1 DEF RootOK
  <2>3. (CHOOSE t \in RootSlots(n)' : TRUE) = s /\ RootSlots(n)' # {}
    BY <1>2, <2>2
  <2> QED
    BY <2>3 DEF RootFile, View
<1> QED
  BY <1>1, <1>2

(* Whatever is read is something that could have been written, or garbage. *)
LEMMA ReadsSomething ==
    ASSUME NEW cells, NEW size \in Lens \cup {0}
    PROVE  /\ AsContents(cells, size) \in FileContents \cup {<<"lost">>}
           /\ AsContents(cells, size) # <<"absent">>
<1>1. CASE size = 0
  BY <1>1 DEF AsContents, FileContents
<1>2. CASE size # 0
  <2>1. CASE \E v \in Values : cells = Written(v, size)
    <3>1. PICK v \in Values : cells = Written(v, size)
      BY <2>1
    <3>2. size \in Nat /\ 1 \in 1 .. size
      BY <1>2, Fat16Assumption
    <3>3. cells[1].val = v
      BY <3>1, <3>2 DEF Written, DataCell, Blank
    <3>4. AsContents(cells, size) = <<v, size>>
      BY <1>2, <2>1, <3>3 DEF AsContents
    <3> QED
      BY <1>2, <3>2, <3>4 DEF FileContents
  <2>2. CASE ~\E v \in Values : cells = Written(v, size)
    BY <1>2, <2>2 DEF AsContents
  <2> QED
    BY <2>1, <2>2
<1> QED
  BY <1>1, <1>2

(* A file whose chain the call has not begun to free reads as before.      *)
LEMMA ReadKept ==
    ASSUME StoreInv, Calm, "wild" \notin harm', Next, NEW s \in RootSet, CellAt(s).kind = "entry",
           ~(job.freed /\ job.slot = s), NEW e, e = CellAt(s)
    PROVE  ReadFile(e)' = ReadFile(e)
<1>1. s \in Slots /\ CellAt(s).dir = FALSE /\ OwnedInv
  BY DEF StoreInv, FilesInv, RootOK, RootSet
<1> QED
  BY <1>1, IntactStep

(* So does every file of the root directory while the call runs.           *)
LEMMA ViewRuns ==
    ASSUME StoreInv, Calm, "wild" \notin harm', Next, Runs, RootKept, NEW s \in RootSet, CellAt(s).kind = "entry"
    PROVE  View(s)' = View(s)
<1>1. PICK e : e = CellAt(s) /\ e = CellAt(s)'
  BY DEF RootKept
<1>2. job.freed \in BOOLEAN
  BY DEF StoreInv, OwnedInv, Inv, TypeInv, TypeOK, JobType
<1>3. CASE job.freed = TRUE /\ job.slot = s
  BY <1>1, <1>3 DEF View, Runs
<1>4. CASE ~(job.freed = TRUE /\ job.slot = s)
  <2>1. ReadFile(e)' = ReadFile(e)
    BY <1>1, <1>2, <1>4, ReadKept
  <2>2. View(s) = AsContents(ReadFile(e), e.size)
    BY <1>1, <1>2, <1>4 DEF View
  <2>3. ReadFile(CellAt(s))' = ReadFile(e)'
    BY <1>1
  <2>4. CASE job'.freed = TRUE /\ job'.slot = s
    <3>1. was' = ReadFile(e)
      BY <1>1, <1>4, <2>4 DEF Runs
    <3> QED
      BY <1>1, <2>2, <2>4, <3>1 DEF View
  <2>5. CASE ~(job'.freed = TRUE /\ job'.slot = s)
    <3>1. job'.freed \in BOOLEAN
      BY <1>2 DEF Runs
    <3>2. View(s)' = AsContents(ReadFile(CellAt(s))', e.size)
      BY <1>1, <2>5, <3>1 DEF View
    <3> QED
      BY <2>1, <2>2, <2>3, <3>2
  <2> QED
    BY <2>4, <2>5
<1> QED
  BY <1>3, <1>4

(* And when it returns, unless its chain was freed.                        *)
LEMMA ViewReturns ==
    ASSUME StoreInv, Calm, "wild" \notin harm', Next, job'.freed = FALSE, NEW s \in RootSet, CellAt(s).kind = "entry",
           CellAt(s)' = CellAt(s), ~(job.freed = TRUE /\ job.slot = s)
    PROVE  View(s)' = View(s)
<1>1. PICK e : e = CellAt(s) /\ e = CellAt(s)'
  OBVIOUS
<1>2. job.freed \in BOOLEAN
  BY DEF StoreInv, OwnedInv, Inv, TypeInv, TypeOK, JobType
<1>3. ReadFile(e)' = ReadFile(e)
  BY <1>1, <1>2, ReadKept
<1>4. View(s) = AsContents(ReadFile(e), e.size)
  BY <1>1, <1>2 DEF View
<1>5. ReadFile(CellAt(s))' = ReadFile(e)'
  BY <1>1
<1>6. View(s)' = AsContents(ReadFile(CellAt(s))', e.size)
  BY <1>1 DEF View
<1> QED
  BY <1>3, <1>4, <1>5, <1>6

(* A name whose slots stay and read as before is, to a caller, as it was.  *)
LEMMA FileSame ==
    ASSUME RootOK, RootOK', NEW n \in Names, RootSlots(n)' = RootSlots(n),
           \A s \in RootSlots(n) : View(s)' = View(s)
    PROVE  RootFile(n)' = RootFile(n)
<1>1. CASE RootSlots(n) = {}
  BY <1>1 DEF RootFile
<1>2. CASE RootSlots(n) # {}
  <2>1. PICK s : s \in RootSlots(n)
    BY <1>2
  <2>2. RootFile(n) = View(s) /\ RootFile(n)' = View(s)'
    BY <2>1, FileIsView
  <2> QED
    BY <2>1, <2>2
<1> QED
  BY <1>1, <1>2

(* The contents a call is to write                                         *)
NewContents == IF job.len = 0 THEN <<>> ELSE <<job.val, job.len>>

(* The call that Store sees running is the one of job.                     *)
LEMMA CallShown ==
    ASSUME FilesInv, JobOK
    PROVE  /\ pc = "idle" => RunningCall = <<>>
           /\ pc # "idle" =>
                /\ RunningCall # <<>> /\ RunningCall[2] = job.name
                /\ RunningCall[1] = IF job.op = "echo" THEN "write" ELSE job.op
                /\ job.op = "echo" => RunningCall[3] = NewContents
                /\ RunningCall[1] \in {"touch", "write", "rm"}
<1>1. CASE pc = "idle"
  BY <1>1 DEF RunningCall
<1>2. CASE pc # "idle" /\ job.op = "echo"
  <2>1. RunningCall = <<"write", job.name, NewContents>>
    BY <1>2 DEF RunningCall, NewContents
  <2> HIDE DEF NewContents
  <2> QED
    BY <1>2, <2>1
<1>3. CASE pc # "idle" /\ job.op # "echo"
  <2>1. RunningCall = <<job.op, job.name, <<>> >> /\ job.op \in {"touch", "rm"}
    BY <1>3 DEF RunningCall, FilesInv, ParamsOK, JobOK
  <2> QED
    BY <1>3, <2>1
<1> QED
  BY <1>1, <1>2, <1>3

-----------------------------------------------------------------------------
(* The simulation, kind by kind                                            *)

(* A call begins.                                                          *)
LEMMA BeginsStore ==
    ASSUME StoreInv, StoreInv', Calm, "wild" \notin harm', Next, Begins
    PROVE  Abstract!Serve
<1>1. RootOK /\ RootOK' /\ RootKept /\ job.freed = FALSE /\ job'.freed = FALSE /\ pc = "idle" /\ pc' = "scan"
      /\ JobOK /\ FilesInv
  BY DEF StoreInv, FilesInv, Begins, OwnedInv, Inv, TypeInv, JobOK, NoJob, NewJob
<1>2. ASSUME NEW n \in Names PROVE RootFile(n)' = RootFile(n)
  <2>1. \A s \in RootSlots(n) : s \in RootSet /\ CellAt(s).kind = "entry" /\ CellAt(s)' = CellAt(s)
    BY <1>1, SlotsOfName DEF Carries, RootKept
  <2>2. \A s \in RootSlots(n) : View(s)' = View(s)
    BY <1>1, <2>1, ViewReturns
  <2>3. RootSlots(n)' = RootSlots(n)
    BY <1>1, RootSame
  <2> QED
    BY <1>1, <2>2, <2>3, FileSame
<1>3. [n \in Names |-> RootFile(n)]' = [n \in Names |-> RootFile(n)]
  BY <1>2
<1>4. RunningCall = <<>>
  BY <1>1, CallShown
<1>5. \E op \in {"touch", "write", "rm"}, n \in Names, c \in FileContents : RunningCall' = <<op, n, c>>
  <2>1. job'.op \in {"touch", "rm", "echo"} /\ job'.name \in Names
        /\ (job'.op = "echo" => job'.val \in Values /\ job'.len \in Lens)
    BY DEF Begins
  <2>2. CASE job'.op = "echo"
    <3>1. NewContents' \in FileContents
      BY <2>1, <2>2 DEF NewContents, FileContents
    <3>2. RunningCall' = <<"write", job'.name, NewContents'>>
      BY <1>1, <2>2 DEF RunningCall, NewContents
    <3> HIDE DEF NewContents
    <3> QED
      BY <2>1, <3>1, <3>2
  <2>3. CASE job'.op # "echo"
    <3>1. RunningCall' = <<job'.op, job'.name, <<>> >> /\ <<>> \in FileContents
      BY <1>1, <2>3 DEF RunningCall, FileContents
    <3> QED
      BY <2>1, <2>3, <3>1
  <2> QED
    BY <2>2, <2>3
<1>6. PICK op \in {"touch", "write", "rm"}, n \in Names, c \in FileContents : RunningCall' = <<op, n, c>>
  BY <1>5
<1>7. Abstract!Begin(op, n, c)
  BY <1>3, <1>4, <1>6 DEF Abstract!Begin, Abstract!Idle
<1> QED
  BY <1>6, <1>7 DEF Abstract!Serve, Abstract!Ops

(* It runs.                                                                *)
LEMMA RunsStore ==
    ASSUME StoreInv, StoreInv', Calm, "wild" \notin harm', Next, Runs, RootKept
    PROVE  UNCHANGED Abstract!callVars
<1>1. RootOK /\ RootOK'
  BY DEF StoreInv, FilesInv
<1>2. ASSUME NEW n \in Names PROVE RootFile(n)' = RootFile(n)
  <2>1. \A s \in RootSlots(n) : s \in RootSet /\ CellAt(s).kind = "entry"
    BY SlotsOfName DEF Carries
  <2>2. \A s \in RootSlots(n) : View(s)' = View(s)
    BY <2>1, ViewRuns
  <2>3. RootSlots(n)' = RootSlots(n)
    BY RootSame
  <2> QED
    BY <1>1, <2>2, <2>3, FileSame
<1>3. [n \in Names |-> RootFile(n)]' = [n \in Names |-> RootFile(n)]
  BY <1>2
<1>4. RunningCall' = RunningCall
  <2>1. /\ pc # "idle" /\ pc' # "idle"
        /\ job'.op = job.op /\ job'.name = job.name /\ job'.val = job.val /\ job'.len = job.len
    BY DEF Runs
  <2> QED
    BY <2>1 DEF RunningCall
<1> QED
  BY <1>3, <1>4 DEF Abstract!callVars

(* It returns without having changed its entry: nothing happened, or the   *)
(* file it was to replace or remove has lost its contents.                 *)
LEMMA ReturnsStore ==
    ASSUME StoreInv, StoreInv', Calm, "wild" \notin harm', Next, Returns, RootKept
    PROVE  Abstract!Fail
<1>1. /\ RootOK /\ RootOK' /\ pc # "idle" /\ pc' = "idle" /\ job'.freed = FALSE
      /\ JobOK /\ FilesInv /\ JobOK' /\ FilesInv'
      /\ job.freed \in BOOLEAN
  BY DEF StoreInv, FilesInv, Returns, OwnedInv, Inv, TypeInv, TypeOK, JobType, NoJob, NewJob
<1>2. ASSUME NEW n \in Names, job.freed = FALSE \/ n # job.name PROVE RootFile(n)' = RootFile(n)
  <2>1. ASSUME NEW s \in RootSlots(n)
        PROVE  s \in RootSet /\ CellAt(s).kind = "entry" /\ CellAt(s)' = CellAt(s) /\ ~(job.freed = TRUE /\ job.slot = s)
    <3>1. s \in RootSet /\ Carries(s, n) /\ CellAt(s)' = CellAt(s)
      BY <2>1, SlotsOfName DEF RootKept
    <3>2. job.freed = TRUE => Carries(job.slot, job.name)
      BY <1>1 DEF FilesInv, PlaceOK, JobOK
    <3> QED
      BY <1>2, <3>1, <3>2 DEF Carries
  <2>2. \A s \in RootSlots(n) : View(s)' = View(s)
    BY <1>1, <2>1, ViewReturns
  <2>3. RootSlots(n)' = RootSlots(n)
    BY RootSame
  <2> QED
    BY <1>1, <2>2, <2>3, FileSame
<1>3. /\ RunningCall # <<>> /\ RunningCall[2] = job.name
      /\ RunningCall[1] = IF job.op = "echo" THEN "write" ELSE job.op
  BY <1>1, CallShown
<1>4. RunningCall' = <<>>
  BY <1>1 DEF RunningCall
<1> DEFINE F == [n \in Names |-> RootFile(n)]
<1>5. CASE job.freed = FALSE
  <2>1. F' = F
    BY <1>2, <1>5
  <2> QED
    BY <1>3, <1>4, <2>1 DEF Abstract!Fail, Abstract!Idle
<1>6. CASE job.freed = TRUE
  <2>1. job.name \in Names /\ job.op \in {"rm", "echo"} /\ job.slot \in RootSet /\ Carries(job.slot, job.name)
    BY <1>1, <1>6 DEF FilesInv, ParamsOK, PlaceOK, JobOK
  <2>2. PICK s, m : s = job.slot /\ m = job.name
    OBVIOUS
  <2>3. s \in RootSlots(m) /\ RootSlots(m)' = RootSlots(m)
    BY <2>1, <2>2, SlotsOfName, RootSame
  <2>4. RootFile(m) = View(s) /\ RootFile(m)' = View(s)'
    BY <1>1, <2>1, <2>2, <2>3, FileIsView
  <2>5. PICK e : e = CellAt(s) /\ e = CellAt(s)' /\ e.size \in Lens \cup {0}
    BY <1>1, <2>1, <2>2 DEF RootKept, RootOK
  <2>6. View(s) # <<"absent">>
    <3>1. View(s) = AsContents(was, e.size)
      BY <1>6, <2>2, <2>5 DEF View
    <3> QED
      BY <2>5, <3>1, ReadsSomething
  <2>7. View(s)' \in FileContents \cup {<<"lost">>}
    <3>1. View(s)' = AsContents(ReadFile(CellAt(s))', e.size)
      BY <1>1, <2>5 DEF View
    <3> QED
      BY <2>5, <3>1, ReadsSomething
  <2>8. PICK c : c = View(s)'
    OBVIOUS
  <2>9. c \in Abstract!Readable
    BY <2>7, <2>8 DEF Abstract!Readable
  <2>10. F' = [F EXCEPT ![m] = c]
    <3>1. ASSUME NEW n \in Names
      PROVE  RootFile(n)' = IF n = m THEN c ELSE RootFile(n)
      BY <1>2, <2>2, <2>4, <2>8
    <3> QED
      BY <3>1
  <2>11. F[m] # <<"absent">> /\ RunningCall[1] # "touch" /\ RunningCall[2] = m
    BY <1>3, <2>1, <2>2, <2>4, <2>6
  <2> QED
    BY <1>3, <1>4, <2>9, <2>10, <2>11 DEF Abstract!Fail, Abstract!Idle, Abstract!Absent
<1> QED
  BY <1>1, <1>5, <1>6

(* Nothing runs and nothing happens but a loss of power.                   *)
LEMMA RestsStore ==
    ASSUME StoreInv, StoreInv', Calm, "wild" \notin harm', Next, Rests
    PROVE  UNCHANGED Abstract!callVars
<1>1. /\ RootOK /\ RootOK' /\ RootKept /\ job.freed = FALSE /\ job'.freed = FALSE /\ pc = "idle" /\ pc' = "idle"
  BY DEF StoreInv, FilesInv, Rests, OwnedInv, Inv, TypeInv, JobOK, NoJob, NewJob
<1>2. ASSUME NEW n \in Names PROVE RootFile(n)' = RootFile(n)
  <2>1. \A s \in RootSlots(n) : s \in RootSet /\ CellAt(s).kind = "entry" /\ CellAt(s)' = CellAt(s)
    BY <1>1, SlotsOfName DEF Carries, RootKept
  <2>2. \A s \in RootSlots(n) : View(s)' = View(s)
    BY <1>1, <2>1, ViewReturns
  <2>3. RootSlots(n)' = RootSlots(n)
    BY <1>1, RootSame
  <2> QED
    BY <1>1, <2>2, <2>3, FileSame
<1>3. [n \in Names |-> RootFile(n)]' = [n \in Names |-> RootFile(n)]
  BY <1>2
<1>4. RunningCall' = RunningCall
  BY <1>1 DEF RunningCall
<1> QED
  BY <1>3, <1>4 DEF Abstract!callVars

(* The other names, when a cell of the root directory is written           *)
LEMMA OthersSame ==
    ASSUME StoreInv, StoreInv', Calm, "wild" \notin harm', Next, NEW e, CellWritten(e), job'.freed = FALSE,
           pc \notin {"idle", "scan"}, e.kind = "entry" => e.name = job.name,
           NEW n \in Names, n # job.name
    PROVE  RootFile(n)' = RootFile(n)
<1>1. /\ RootOK /\ RootOK' /\ job.slot \in RootSet
      /\ Carries(job.slot, job.name) \/ Vacant(job.slot)
  BY DEF StoreInv, FilesInv, PlaceOK
<1>2. ~Carries(job.slot, n)
  BY <1>1 DEF Carries, Vacant
<1>3. ASSUME NEW s \in RootSlots(n)
      PROVE  s \in RootSet /\ CellAt(s).kind = "entry" /\ CellAt(s)' = CellAt(s) /\ s # job.slot
  <2>1. s \in RootSet /\ Carries(s, n)
    BY <1>3, SlotsOfName
  <2> QED
    BY <1>2, <2>1 DEF Carries, CellWritten
<1>4. RootSlots(n)' = RootSlots(n)
  <2>1. ASSUME NEW t \in RootSet PROVE Carries(t, n)' <=> Carries(t, n)
    <3>1. CASE t = job.slot
      BY <1>2, <3>1 DEF CellWritten, Carries
    <3>2. CASE t # job.slot
      BY <3>2 DEF CellWritten, Carries
    <3> QED
      BY <3>1, <3>2
  <2> QED
    BY <2>1, RootPlacesAre DEF RootSlots, RootSet, Carries
<1>5. \A s \in RootSlots(n) : View(s)' = View(s)
  BY <1>3, ViewReturns
<1> QED
  BY <1>1, <1>4, <1>5, FileSame

(* The file that was written reads as what was to be written.              *)
LEMMA WrittenShown ==
    ASSUME StoreInv, StoreInv', WritesEntry, NEW e, e = job.ent
    PROVE  AsContents(ReadFile(e)', e.size) = IF job.op = "echo" THEN NewContents ELSE <<>>
<1>1. /\ pc = "dirent" /\ UNCHANGED fat /\ CellWritten(job.ent) /\ WriteCell(job.slot, job.ent) /\ TypeOK /\ TypeOK'
      /\ job \in JobType /\ job.op \in {"touch", "echo"} /\ job.slot \in RootSet
      /\ e \in CellType /\ e.size \in Nat
  <2>1. pc = "dirent" /\ UNCHANGED fat /\ CellWritten(job.ent) /\ WriteCell(job.slot, job.ent)
    BY DEF WritesEntry
  <2>2. TypeOK /\ TypeOK' /\ JobOK /\ job \in JobType
    BY DEF StoreInv, OwnedInv, Inv, TypeInv, TypeOK
  <2>3. job.op \in {"touch", "echo"} /\ job.slot \in RootSet
    BY <2>1, <2>2 DEF StoreInv, FilesInv, ParamsOK, PlaceOK, JobOK
  <2> QED
    BY <2>1, <2>2, <2>3 DEF JobType, CellType
<1>2. CASE job.op = "touch"
  BY <1>1, <1>2 DEF StoreInv, FilesInv, PlaceOK, AsContents
<1>3. CASE job.op = "echo"
  <2>1. PICK q \in Seq(Clusters) : Complete(q)
    BY <1>1, <1>3 DEF StoreInv, FilesInv, DataOK
  <2>2. e.size = job.len /\ job.val \in Values /\ job.len \in Nat
    BY <1>1, <1>3, <2>1 DEF Complete, StoreInv, FilesInv, ParamsOK, JobType
  <2>3. CASE job.len = 0
    BY <1>3, <2>2, <2>3 DEF AsContents, NewContents
  <2>4. CASE job.len # 0
    <3>1. ReadFile(e) = Written(job.val, job.len)
      BY <1>1, <2>1, <2>4, CompleteReads
    <3>2. ReadFile(e)' = ReadFile(e)
      <4>1. ASSUME NEW c \in Clusters PROVE ~Changed(c)
        <5>1. cluster_to_lba(c) \in Lbas /\ cluster_to_lba(c) > RootSectors
          <6>1. cluster_to_lba(c) \in Lbas
            BY ClusterLba
          <6>2. cluster_to_lba(c) > RootSectors
            BY Fat16Assumption DEF cluster_to_lba, Clusters
          <6> QED
            BY <6>1, <6>2
        <5>2. job.slot.lba # cluster_to_lba(c)
          BY <1>1, <5>1, Fat16Assumption DEF RootSet, Slots, Lbas
        <5> QED
          BY <1>1, <5>1, <5>2 DEF Changed, WriteCell, TypeOK
      <4>2. \A c \in Clusters : ~Changed(c) /\ (fat[1][c] \in Clusters => fat[1][c] \in Clusters)
        BY <4>1
      <4> QED
        BY <1>1, <4>2, ReadsSame
    <3>3. PICK cells : cells = Written(job.val, job.len)
      OBVIOUS
    <3>4. cells[1].val = job.val
      <4>1. 1 \in 1 .. job.len
        BY <2>2, <2>4
      <4> QED
        BY <3>3, <4>1 DEF Written, DataCell, Blank
    <3>5. AsContents(cells, job.len) = <<job.val, job.len>>
      BY <2>2, <2>4, <3>3, <3>4 DEF AsContents
    <3> QED
      BY <1>3, <2>2, <2>4, <3>1, <3>2, <3>3, <3>5 DEF NewContents
  <2> QED
    BY <2>3, <2>4
<1> QED
  BY <1>1, <1>2, <1>3

(* fat16_write_file and fat16_create have their effect when they write the *)
(* directory entry.                                                        *)
LEMMA WritesStore ==
    ASSUME StoreInv, StoreInv', Calm, "wild" \notin harm', Next, WritesEntry
    PROVE  Abstract!Succeed
<1>1. /\ pc = "dirent" /\ pc' = "idle" /\ CellWritten(job.ent) /\ job'.freed = FALSE /\ JobOK /\ FilesInv /\ RootOK'
      /\ job.op \in {"touch", "echo"} /\ job.slot \in RootSet /\ job.name \in Names
      /\ job.ent.kind = "entry" /\ job.ent.name = job.name
  <2>1. pc = "dirent" /\ pc' = "idle" /\ CellWritten(job.ent) /\ job'.freed = FALSE
    BY DEF WritesEntry, NoJob, NewJob
  <2>2. JobOK /\ FilesInv /\ RootOK'
    BY DEF StoreInv, OwnedInv, Inv, TypeInv, FilesInv
  <2> QED
    BY <2>1, <2>2 DEF FilesInv, ParamsOK, PlaceOK, JobOK
<1>2. PICK e, s, m : e = job.ent /\ s = job.slot /\ m = job.name
  OBVIOUS
<1>3. s \in RootSlots(m)' /\ CellAt(s)' = e
  <2>1. CellAt(s)' = e
    BY <1>1, <1>2 DEF CellWritten
  <2> QED
    BY <1>1, <1>2, <2>1, RootPlacesAre DEF RootSlots, RootSet
<1>4. RootFile(m)' = View(s)'
  BY <1>1, <1>2, <1>3, FileIsView
<1>5. View(s)' = AsContents(ReadFile(e)', e.size)
  <2>1. View(s)' = AsContents(ReadFile(CellAt(s))', e.size)
    BY <1>1, <1>3 DEF View
  <2>2. ReadFile(CellAt(s))' = ReadFile(e)'
    BY <1>3
  <2> QED
    BY <2>1, <2>2
<1>6. RootFile(m)' = IF job.op = "echo" THEN NewContents ELSE <<>>
  BY <1>2, <1>4, <1>5, WrittenShown
<1>7. /\ RunningCall # <<>> /\ RunningCall[2] = m
      /\ RunningCall[1] = IF job.op = "echo" THEN "write" ELSE job.op
      /\ job.op = "echo" => RunningCall[3] = NewContents
  BY <1>1, <1>2, CallShown
<1>8. RunningCall' = <<>>
  BY <1>1 DEF RunningCall
<1>9. job.op = "touch" => RootFile(m) = <<"absent">>
  BY <1>1, <1>2 DEF FilesInv, PlaceOK, RootFile
<1>10. Abstract!Effect(RunningCall, RootFile(m)) = RootFile(m)'
  <2> HIDE DEF NewContents
  <2>1. CASE job.op = "echo"
    BY <1>6, <1>7, <2>1 DEF Abstract!Effect
  <2>2. CASE job.op = "touch"
    BY <1>6, <1>7, <1>9, <2>2 DEF Abstract!Effect, Abstract!Absent
  <2> QED
    BY <1>1, <2>1, <2>2
<1>11. ASSUME NEW n \in Names
      PROVE  RootFile(n)' = IF n = m THEN Abstract!Effect(RunningCall, RootFile(m)) ELSE RootFile(n)
  BY <1>1, <1>2, <1>10, OthersSame
<1> DEFINE F == [n \in Names |-> RootFile(n)]
<1>12. F' = [F EXCEPT ![m] = Abstract!Effect(RunningCall, @)]
  BY <1>1, <1>2, <1>11
<1>13. RunningCall[1] # "rm"
  BY <1>1, <1>7
<1> QED
  BY <1>7, <1>8, <1>12, <1>13 DEF Abstract!Succeed, Abstract!Idle

(* fat16_delete has its effect when it marks the entry.                    *)
LEMMA ErasesStore ==
    ASSUME StoreInv, StoreInv', Calm, "wild" \notin harm', Next, ErasesEntry
    PROVE  Abstract!Succeed
<1>1. /\ pc = "mark" /\ pc' = "idle" /\ CellWritten(Deleted) /\ job'.freed = FALSE /\ JobOK /\ FilesInv /\ RootOK
      /\ job.op = "rm" /\ job.slot \in RootSet /\ job.name \in Names /\ Carries(job.slot, job.name)
  <2>1. pc = "mark" /\ pc' = "idle" /\ CellWritten(Deleted) /\ job'.freed = FALSE
    BY DEF ErasesEntry, NoJob, NewJob
  <2>2. JobOK /\ FilesInv /\ RootOK
    BY DEF StoreInv, OwnedInv, Inv, TypeInv, FilesInv
  <2> QED
    BY <2>1, <2>2 DEF FilesInv, ParamsOK, PlaceOK
<1>2. PICK s, m : s = job.slot /\ m = job.name
  OBVIOUS
<1>3. Deleted.kind = "deleted"
  BY DEF Deleted, Blank
<1>4. RootFile(m) # <<"absent">>
  <2>1. s \in RootSlots(m)
    BY <1>1, <1>2, SlotsOfName
  <2>2. RootFile(m) = View(s)
    BY <1>1, <1>2, <2>1, FileIsView
  <2>3. CellAt(s).size \in Lens \cup {0}
    BY <1>1, <1>2 DEF RootOK
  <2> QED
    BY <2>2, <2>3, ReadsSomething DEF View
<1>5. RootFile(m)' = <<"absent">>
  <2>1. ASSUME NEW t \in RootSet PROVE ~Carries(t, m)'
    <3>1. CASE t = s
      BY <1>1, <1>2, <1>3, <3>1 DEF CellWritten, Carries
    <3>2. CASE t # s
      BY <1>1, <1>2, <3>2 DEF CellWritten, Carries, RootOK
    <3> QED
      BY <3>1, <3>2
  <2>2. RootSlots(m)' = {}
    BY <2>1, RootPlacesAre DEF RootSlots, RootSet, Carries
  <2> QED
    BY <2>2 DEF RootFile
<1>6. RunningCall # <<>> /\ RunningCall[2] = m /\ RunningCall[1] = "rm"
  BY <1>1, <1>2, CallShown
<1>7. RunningCall' = <<>>
  BY <1>1 DEF RunningCall
<1>8. Abstract!Effect(RunningCall, RootFile(m)) = <<"absent">>
  BY <1>6 DEF Abstract!Effect, Abstract!Absent
<1>9. ASSUME NEW n \in Names
      PROVE  RootFile(n)' = IF n = m THEN Abstract!Effect(RunningCall, RootFile(m)) ELSE RootFile(n)
  BY <1>1, <1>2, <1>3, <1>5, <1>8, OthersSame
<1> DEFINE F == [n \in Names |-> RootFile(n)]
<1>10. F' = [F EXCEPT ![m] = Abstract!Effect(RunningCall, @)]
  BY <1>1, <1>2, <1>9
<1>11. F[m] # <<"absent">>
  BY <1>1, <1>2, <1>4
<1> QED
  BY <1>6, <1>7, <1>10, <1>11 DEF Abstract!Succeed, Abstract!Idle, Abstract!Absent

(* Every step of the driver on a volume where nothing was cut short and    *)
(* that does not leave the table is a step of the abstract store, or none. *)
LEMMA Simulation ==
    ASSUME FilesOnly, SimInv, Calm, "wild" \notin harm', [Next]_vars
    PROVE  [Abstract!Serve]_(Abstract!callVars)
<1>0. StoreInv
  BY DEF SimInv, StoreInv, Calm
<1>1. StoreInv'
  BY <1>0, StoreStep
<1>2. CASE UNCHANGED vars
  <2>1. UNCHANGED <<fat, sec, pc, job, was>>
    BY <1>2 DEF vars
  <2>2. ASSUME NEW n \in Names PROVE RootFile(n)' = RootFile(n)
    BY <2>1 DEF RootFile, RootSlots, CellAt, ReadFile, Chain
  <2>3. [n \in Names |-> RootFile(n)]' = [n \in Names |-> RootFile(n)]
    BY <2>2
  <2>4. RunningCall' = RunningCall
    BY <2>1 DEF RunningCall
  <2> QED
    BY <2>3, <2>4 DEF Abstract!callVars
<1>3. CASE Next
  <2>1. StepKind
    BY <1>0, <1>3, FilesNext DEF StoreInv, OwnedInv, Inv
  <2>2. CASE Begins
    BY <1>0, <1>1, <1>3, <2>2, BeginsStore
  <2>3. CASE Runs /\ RootKept
    BY <1>0, <1>1, <1>3, <2>3, RunsStore
  <2>4. CASE Returns /\ RootKept
    BY <1>0, <1>1, <1>3, <2>4, ReturnsStore DEF Abstract!Serve
  <2>5. CASE WritesEntry
    BY <1>0, <1>1, <1>3, <2>5, WritesStore DEF Abstract!Serve
  <2>6. CASE ErasesEntry
    BY <1>0, <1>1, <1>3, <2>6, ErasesStore DEF Abstract!Serve
  <2>7. CASE Rests
    BY <1>0, <1>1, <1>3, <2>7, RestsStore
  <2> QED
    BY <2>1, <2>2, <2>3, <2>4, <2>5, <2>6, <2>7 DEF StepKind
<1> QED
  BY <1>2, <1>3

(* A formatted volume is an empty store.                                   *)
LEMMA InitStore == ASSUME Init PROVE Abstract!StoreInit
<1>1. \A n \in Names : RootFile(n) = <<"absent">>
  <2>1. \A s \in Slots : CellAt(s).kind = "end"
    BY DEF Init, CellAt, Slots, ZeroSector, Blank
  <2> QED
    BY <2>1, RootPlacesAre DEF RootFile, RootSlots, RootSet
<1>2. RunningCall = <<>>
  BY DEF Init, RunningCall
<1>3. ("wild" \in harm) = FALSE
  BY DEF Init
<1> QED
  BY <1>1, <1>2, <1>3 DEF Abstract!StoreInit, Abstract!NoFiles, Abstract!Absent, Abstract!Idle

(* A step that does so breaks the store.                                   *)
LEMMA SimulationBreaks ==
    ASSUME FilesOnly, SimInv, harm \cap {"torn", "overdir"} = {}, [Next]_vars
    PROVE  [Abstract!StoreNext]_(Abstract!storeVars)
<1>1. CASE "wild" \in harm'
  <2>1. ("wild" \in harm)' = TRUE
    BY <1>1
  <2> QED
    BY <2>1 DEF Abstract!StoreNext
<1>2. CASE "wild" \notin harm'
  <2>1. "wild" \notin harm
    BY <1>2, WildStays
  <2>2. Calm
    BY <2>1 DEF Calm
  <2>3. ("wild" \in harm)' = ("wild" \in harm)
    BY <1>2, <2>1
  <2>4. [Abstract!Serve]_(Abstract!callVars)
    BY <1>2, <2>2, Simulation
  <2> QED
    BY <2>3, <2>4, Zenon DEF Abstract!StoreNext, Abstract!storeVars, Abstract!callVars
<1> QED
  BY <1>1, <1>2

(***************************************************************************)
(* The driver implements Store on a volume of any size, for any number of  *)
(* calls of fat16_create, fat16_write_file and fat16_delete on files of    *)
(* the root directory, through read errors, those of the table included,   *)
(* write errors and losses of power, as long as no rewrite or removal was  *)
(* cut short.  The store breaks, and promises nothing from then on, only   *)
(* when a failed read of the table sends free_cluster_chain to entry       *)
(* 0xFFF7 and the word there is not one that ends the walk harmlessly.     *)
(***************************************************************************)
THEOREM DriverIsStore ==
    ASSUME FilesOnly
    PROVE  Spec /\ [](harm \cap {"torn", "overdir"} = {}) => ImplementsStore
<1>1. Init => SimInv /\ Abstract!StoreInit
  BY InitOwned, InitFiles, InitStore DEF SimInv
<1>2. SimInv /\ [Next]_vars => SimInv'
  BY SimStep
<1>3. SimInv /\ harm \cap {"torn", "overdir"} = {} /\ [Next]_vars
      => [Abstract!StoreNext]_(Abstract!storeVars)
  BY SimulationBreaks
<1> QED
  BY <1>1, <1>2, <1>3, PTL DEF Spec, ImplementsStore, Abstract!StoreSpec

(* The call that is cut short is itself one that failed: the step that     *)
(* tears a file changes no other file, and returns.                        *)
CutShortIsFailure ==
    [][Calm /\ "wild" \notin harm' => [Abstract!Serve]_(Abstract!callVars)]_vars

(***************************************************************************)
(* Every step from a volume where no rewrite or removal was cut short is   *)
(* one a working store takes, the step that cuts one short included; only  *)
(* a walk that a failed read of the table sent outside it is not.          *)
(***************************************************************************)
THEOREM TornCallFails == ASSUME FilesOnly PROVE Spec => CutShortIsFailure
<1>1. Init => SimInv
  BY InitOwned, InitFiles DEF SimInv
<1>2. SimInv /\ [Next]_vars => SimInv'
  BY SimStep
<1>3. SimInv /\ [Next]_vars =>
         [Calm /\ "wild" \notin harm' => [Abstract!Serve]_(Abstract!callVars)]_vars
  BY Simulation
<1> QED
  BY <1>1, <1>2, <1>3, PTL DEF Spec, CutShortIsFailure
=============================================================================
