------------------------------ MODULE Fat16Chains ------------------------------
(***************************************************************************)
(* To whom the clusters of a volume belong, and what they hold.            *)
(* NoCrossLink says that no cluster has two owners; here every cluster is  *)
(* given its owner, the first cluster of its chain, and every owner is a   *)
(* directory or a file.  From that follows, for every volume: no call      *)
(* changes what another file reads as.                                     *)
(***************************************************************************)
EXTENDS Fat16Proofs, NaturalsInduction, WellFoundedInduction

(* As long as no rewrite or removal was cut short, no directory was written*)
(* over as a file and no walk that lost its chain wrote beyond the table   *)
Calm == harm \cap {"torn", "overdir", "wild"} = {}

(* own gives each cluster the first one of its chain (0: nobody's), dirs   *)
(* are the first clusters of directories.  A slot lies in the directory h. *)
Alive(own, c, h) == own[c] = h /\ fat[1][c] # FREE
SlotIn(own, s, h) ==
    IF h = 0 THEN s.lba <= RootSectors
    ELSE \E c \in Clusters : s.lba = cluster_to_lba(c) /\ Alive(own, c, h)

LinksOwned(own) == \A c \in Clusters : fat[1][c] \in Clusters => own[fat[1][c]] = own[c]
EntriesOwn(own, dirs) ==
    \A s \in Slots, c \in Clusters : Refers(s, c) => own[c] = c /\ (c \in dirs <=> CellAt(s).dir)
PlainCell(e) ==
    /\ e.kind # "entry" => e.first = 0
    /\ e.kind = "entry" /\ e.dir = TRUE => e.first # 0
PlainCells == \A s \in Slots : PlainCell(CellAt(s))

(* The terminal's path is one of directories, each in the one before.      *)
Above(k) == IF k = 1 THEN 0 ELSE path[k - 1]
PathOK(own, dirs) ==
    \A k \in 1 .. Len(path) :
        /\ path[k] \in dirs
        /\ \A m \in 1 .. k - 1 : path[m] # path[k]
        /\ \E s \in Slots : Refers(s, path[k]) /\ SlotIn(own, s, Above(k))

(* What the running call holds                                             *)
CallerOK == pc # "idle" => job.dir \in {0, Cwd} /\ (job.op # "echo" => job.dir = Cwd)
ScanOK(own) ==
    pc = "scan" =>
        /\ job.dir # 0 => \A c \in {job.cur, job.csec} : c \in Clusters => Alive(own, c, job.dir)
        /\ job.free # NoSlot => SlotIn(own, job.free, job.dir) /\ CellAt(job.free).first = 0
GrowOK(own) ==
    pc \in {"eoc", "link", "zero"} /\ job.why = "slot" =>
        /\ job.dir # 0 /\ Alive(own, job.last, job.dir)
        /\ pc = "zero" => Alive(own, job.new, job.dir)
HasSlot == pc \in {"free", "data", "dirent", "mark"}
           \/ (pc \in {"eoc", "link", "zero"} /\ job.why # "slot")
SlotOK(own) ==
    HasSlot =>
        /\ SlotIn(own, job.slot, job.dir) /\ \A c \in Clusters : ~Refers(job.slot, c)
        /\ job.ent.kind = "entry"
        /\ job.ent.dir = TRUE => job.op # "echo"
LinkOK(own) == pc = "link" => own[job.new] = job.new /\ fat[1][job.new] \notin Clusters
FileOK(own, dirs) ==
    /\ pc = "data" => job.why = "data" /\ Alive(own, job.new, job.first)
    /\ pc \in {"eoc", "link", "zero", "data"} /\ job.why = "data" /\ job.first # 0 =>
          own[job.first] = job.first /\ job.first \notin dirs /\ Alive(own, job.last, job.first)
    /\ pc = "zero" /\ job.why = "data" =>
          IF job.first = 0 THEN own[job.new] = job.new /\ job.new \notin dirs
          ELSE Alive(own, job.new, job.first)
NewDirOK(own, dirs) ==
    /\ pc \in {"eoc", "zero"} /\ job.why = "mkdir" => job.ent.dir = TRUE
    /\ pc = "zero" /\ job.why = "mkdir" =>
          job.new \in dirs /\ \A x \in Clusters : own[x] = job.new <=> x = job.new
EntryOK(own, dirs) ==
    pc = "dirent" =>
        /\ PlainCell(job.ent)
        /\ job.ent.first # 0 =>
              own[job.ent.first] = job.ent.first /\ (job.ent.first \in dirs <=> job.ent.dir)
FreeHead == IF job.why = "undo" THEN job.first ELSE job.ent.first
FreeOK(own, dirs) ==
    pc = "free" /\ job.cur \in Clusters =>
        /\ own[job.cur] = FreeHead /\ FreeHead \in Clusters
        /\ \A s \in Slots : ~Refers(s, FreeHead)
        /\ FreeHead \in dirs <=> (job.why = "delete" /\ job.ent.dir = TRUE)

DiskOwned(own, dirs) ==
    LinksOwned(own) /\ EntriesOwn(own, dirs) /\ PlainCells /\ PathOK(own, dirs)
CallOwns(own, dirs) ==
    /\ CallerOK /\ ScanOK(own) /\ GrowOK(own) /\ SlotOK(own) /\ LinkOK(own)
    /\ FileOK(own, dirs) /\ NewDirOK(own, dirs) /\ EntryOK(own, dirs) /\ FreeOK(own, dirs)
Owned(own, dirs) == DiskOwned(own, dirs) /\ CallOwns(own, dirs)

-----------------------------------------------------------------------------
(* Chains: the function ChainIn defines exists, and what holds of every    *)
(* shorter walk holds of a longer one, for want of a least counterexample. *)

Row(t, n, below) == [d \in Links |-> IF n = 0 \/ d \notin Clusters THEN <<>> ELSE <<d>> \o below[t[d]]]
IsWalk(t, k, w) == w = [n \in 0 .. k |-> Row(t, n, w[n - 1])]
TheWalk(t) == CHOOSE w : IsWalk(t, NumClusters + 1, w)

(* ChainIn reads its chain off the walk.                                   *)
LEMMA ChainIsWalk == ASSUME NEW t, NEW c PROVE ChainIn(t, c) = TheWalk(t)[NumClusters + 1][c]
  BY DEF ChainIn, TheWalk, IsWalk, Row, Links

(* A set of numbers that is not empty has a least one.                     *)
LEMMA LeastNumber ==
    ASSUME NEW T, T \subseteq Nat, T # {} PROVE \E x \in T : \A y \in T : x <= y
<1> DEFINE R == OpToRel(<, Nat)
<1>1. IsWellFoundedOn(R, Nat)
  BY NatLessThanWellFounded, Zenon
<1>2. PICK x \in T : \A y \in T : ~(<<y, x>> \in R)
  <2> HIDE DEF R
  <2> QED
    BY <1>1, WFMin
<1>3. \A y \in T : ~(y < x)
  BY <1>2 DEF OpToRel
<1> QED
  BY <1>3

(* The first row does not depend on the one below it.                      *)
LEMMA RowZero == ASSUME NEW t, NEW a, NEW b PROVE Row(t, 0, a) = Row(t, 0, b)
  BY DEF Row

(* There is a walk of every length.                                        *)
LEMMA WalkExists == ASSUME NEW t, NEW k \in Nat PROVE \E w : IsWalk(t, k, w)
<1> DEFINE T == {n \in Nat : ~\E w : IsWalk(t, n, w)}
<1>1. SUFFICES ASSUME T # {} PROVE FALSE
  OBVIOUS
<1>2. PICK n \in T : \A m \in T : n <= m
  BY <1>1, LeastNumber
<1>3. n # 0
  <2> DEFINE w == [m \in 0 .. 0 |-> Row(t, 0, <<>>)]
  <2>1. \A m \in 0 .. 0 : Row(t, 0, <<>>) = Row(t, m, w[m - 1])
    <3> HIDE DEF w
    <3>1. \A m \in 0 .. 0 : m = 0
      OBVIOUS
    <3> QED
      BY <3>1, RowZero
  <2>2. IsWalk(t, 0, w)
    BY <2>1 DEF IsWalk
  <2> QED
    BY <2>2
<1>4. n - 1 \in Nat /\ ~(n <= n - 1)
  BY <1>2, <1>3
<1>5. PICK v : IsWalk(t, n - 1, v)
  BY <1>2, <1>4
<1> DEFINE w == [m \in 0 .. n |-> IF m = n THEN Row(t, n, v[n - 1]) ELSE v[m]]
<1>6. ASSUME NEW m \in 0 .. n PROVE w[m] = Row(t, m, w[m - 1])
  <2>1. CASE m = 0
    <3>1. w[0] = Row(t, 0, v[0 - 1])
      BY <1>3, <1>4, <1>5 DEF IsWalk
    <3> QED
      BY <2>1, <3>1, RowZero
  <2>2. CASE m # 0
    <3>1. m - 1 \in 0 .. n - 1 /\ m - 1 \in 0 .. n /\ m - 1 # n
      BY <1>4, <2>2
    <3>2. w[m - 1] = v[m - 1]
      BY <3>1
    <3>3. m # n => m \in 0 .. n - 1
      BY <1>4
    <3>4. m # n => v[m] = Row(t, m, v[m - 1])
      BY <1>5, <3>3 DEF IsWalk
    <3> QED
      BY <3>2, <3>4
  <2> QED
    BY <2>1, <2>2
<1>7. IsWalk(t, n, w)
  <2>1. w = [m \in 0 .. n |-> w[m]]
    OBVIOUS
  <2> HIDE DEF w
  <2> QED
    BY <1>6, <2>1 DEF IsWalk
<1> QED
  BY <1>2, <1>7

(* Each row of the walk follows from the one before.                       *)
LEMMA WalkRows ==
    ASSUME NEW t, NEW n \in 0 .. NumClusters + 1
    PROVE  TheWalk(t)[n] = Row(t, n, TheWalk(t)[n - 1])
<1>1. \E w : IsWalk(t, NumClusters + 1, w)
  BY WalkExists, Fat16Assumption
<1>2. IsWalk(t, NumClusters + 1, TheWalk(t))
  BY <1>1 DEF TheWalk
<1> QED
  BY <1>2 DEF IsWalk

(* A chain that starts in a set closed under links stays in it.            *)
LEMMA ChainWithin ==
    ASSUME NEW t \in [Clusters -> Links], NEW S, NEW c \in Links,
           \A d \in Clusters \cap S : t[d] \in Clusters => t[d] \in S,
           c \in Clusters => c \in S
    PROVE  ChainIn(t, c) \in Seq(Clusters \cap S)
<1> DEFINE W == TheWalk(t)
           C == Clusters \cap S
           Good(n) == \A d \in Links : (d \in Clusters => d \in S) => W[n][d] \in Seq(C)
           T == {n \in 0 .. NumClusters + 1 : ~Good(n)}
<1> HIDE DEF W
<1>1. \A n \in 0 .. NumClusters + 1 : W[n] = Row(t, n, W[n - 1])
  BY WalkRows DEF W
<1>2. ASSUME T # {} PROVE FALSE
  <2>1. PICK n \in T : \A m \in T : n <= m
    <3>1. T \subseteq Nat
      BY Fat16Assumption
    <3> HIDE DEF T
    <3> QED
      BY <1>2, <3>1, LeastNumber
  <2>2. PICK d \in Links : (d \in Clusters => d \in S) /\ W[n][d] \notin Seq(C)
    BY <2>1
  <2>3. W[n][d] = IF n = 0 \/ d \notin Clusters THEN <<>> ELSE <<d>> \o W[n - 1][t[d]]
    BY <1>1, <2>1 DEF Row
  <2>4. n # 0 /\ d \in C
    BY <2>2, <2>3
  <2>5. n - 1 \in 0 .. NumClusters + 1 /\ ~(n <= n - 1)
    BY <2>1, <2>4, Fat16Assumption
  <2>6. Good(n - 1)
    BY <2>1, <2>5
  <2>7. t[d] \in Links /\ (t[d] \in Clusters => t[d] \in S)
    BY <2>4
  <2>8. W[n - 1][t[d]] \in Seq(C)
    BY <2>6, <2>7
  <2>9. <<d>> \in Seq(C)
    BY <2>4
  <2>10. <<d>> \o W[n - 1][t[d]] \in Seq(C)
    <3> HIDE DEF C
    <3> QED
      BY <2>8, <2>9, ConcatProperties
  <2> QED
    BY <2>2, <2>3, <2>4, <2>10
<1>3. Good(NumClusters + 1)
  BY <1>2, Fat16Assumption
<1> QED
  BY <1>3, ChainIsWalk DEF W

(* Two tables that agree on a closed set have the same chains there. *)
LEMMA ChainSame ==
    ASSUME NEW t \in [Clusters -> Links], NEW u \in [Clusters -> Links], NEW S, NEW c \in Links,
           \A d \in Clusters \cap S : u[d] = t[d] /\ (t[d] \in Clusters => t[d] \in S),
           c \in Clusters => c \in S
    PROVE  ChainIn(u, c) = ChainIn(t, c)
<1> DEFINE W == TheWalk(t)
           V == TheWalk(u)
           Good(n) == \A d \in Links : (d \in Clusters => d \in S) => W[n][d] = V[n][d]
           T == {n \in 0 .. NumClusters + 1 : ~Good(n)}
<1> HIDE DEF W, V
<1>1. \A n \in 0 .. NumClusters + 1 : W[n] = Row(t, n, W[n - 1]) /\ V[n] = Row(u, n, V[n - 1])
  BY WalkRows DEF W, V
<1>2. ASSUME T # {} PROVE FALSE
  <2>1. PICK n \in T : \A m \in T : n <= m
    <3>1. T \subseteq Nat
      BY Fat16Assumption
    <3> HIDE DEF T
    <3> QED
      BY <1>2, <3>1, LeastNumber
  <2>2. PICK d \in Links : (d \in Clusters => d \in S) /\ W[n][d] # V[n][d]
    BY <2>1
  <2>3. /\ W[n] = Row(t, n, W[n - 1]) /\ V[n] = Row(u, n, V[n - 1]) /\ n \in 0 .. NumClusters + 1
    BY <1>1, <2>1
  <2>13. /\ W[n][d] = IF n = 0 \/ d \notin Clusters THEN <<>> ELSE <<d>> \o W[n - 1][t[d]]
        /\ V[n][d] = IF n = 0 \/ d \notin Clusters THEN <<>> ELSE <<d>> \o V[n - 1][u[d]]
    BY <2>3 DEF Row
  <2>4. n # 0 /\ d \in Clusters \cap S
    BY <2>2, <2>13
  <2>5. n - 1 \in 0 .. NumClusters + 1 /\ ~(n <= n - 1)
    BY <2>1, <2>4, Fat16Assumption
  <2>6. Good(n - 1)
    BY <2>1, <2>5
  <2>7. t[d] \in Links /\ (t[d] \in Clusters => t[d] \in S) /\ u[d] = t[d]
    BY <2>4
  <2> QED
    BY <2>2, <2>13, <2>4, <2>6, <2>7
<1>3. Good(NumClusters + 1)
  BY <1>2, Fat16Assumption
<1> QED
  BY <1>3, ChainIsWalk DEF W, V

-----------------------------------------------------------------------------
(* What a step does to the ownership of what is on disk *)

OnPath(h) == \E k \in 1 .. Len(path) : path[k] = h
Kept(own, own2) ==
    \A c \in Clusters, h \in Clusters :
        OnPath(h) /\ Alive(own, c, h) => own2[c] = h /\ fat'[1][c] # FREE
RefsKept == \A s \in Slots, h \in Clusters : OnPath(h) /\ Refers(s, h) => Refers(s, h)'

Owners == [Clusters -> Clusters \cup {0}]

(* A slot stays in a directory that the terminal is in or above.           *)
LEMMA SlotKept ==
    ASSUME NEW own, NEW own2, NEW s, NEW h, Kept(own, own2), h = 0 \/ (h \in Clusters /\ OnPath(h)),
           SlotIn(own, s, h)
    PROVE  SlotIn(own2, s, h)'
<1>1. CASE h = 0
  BY <1>1 DEF SlotIn
<1>2. CASE h # 0 /\ h \in Clusters /\ OnPath(h)
  <2>1. PICK c \in Clusters : s.lba = cluster_to_lba(c) /\ Alive(own, c, h)
    BY <1>2 DEF SlotIn
  <2>2. own2[c] = h /\ fat'[1][c] # FREE
    BY <1>2, <2>1 DEF Kept
  <2> QED
    BY <1>2, <2>1, <2>2 DEF SlotIn, Alive
<1> QED
  BY <1>1, <1>2 DEF Clusters

(* The directories the terminal is in stay where they are.                 *)
LEMMA PathKept ==
    ASSUME NEW own, NEW own2, NEW dirs \in SUBSET Clusters, NEW dirs2, PathOK(own, dirs),
           path' \in {path, <<>>}, Kept(own, own2), RefsKept, \A h \in dirs : OnPath(h) => h \in dirs2
    PROVE  PathOK(own2, dirs2)'
<1> SUFFICES ASSUME path' = path, NEW k \in 1 .. Len(path)
             PROVE  /\ path[k] \in dirs2
                    /\ \A m \in 1 .. k - 1 : path[m] # path[k]
                    /\ \E s \in Slots : Refers(s, path[k])' /\ SlotIn(own2, s, Above(k))'
  BY DEF PathOK
<1>1. /\ path[k] \in dirs /\ path[k] \in Clusters /\ OnPath(path[k])
      /\ \A m \in 1 .. k - 1 : path[m] # path[k]
  BY DEF PathOK, OnPath
<1>2. PICK s \in Slots : Refers(s, path[k]) /\ SlotIn(own, s, Above(k))
  BY DEF PathOK
<1>3. PICK h, g : h = path[k] /\ g = Above(k)
  OBVIOUS
<1>4. g = 0 \/ (g \in Clusters /\ OnPath(g))
  <2>1. CASE k = 1
    BY <1>3, <2>1 DEF Above
  <2>2. CASE k # 1
    <3>1. k - 1 \in 1 .. Len(path) /\ g = path[k - 1]
      BY <1>3, <2>2 DEF Above
    <3> QED
      BY <3>1 DEF PathOK, OnPath
  <2> QED
    BY <2>1, <2>2
<1>5. SlotIn(own2, s, g)'
  BY <1>2, <1>3, <1>4, SlotKept
<1>6. Refers(s, h)'
  BY <1>1, <1>2, <1>3 DEF RefsKept
<1>7. g = Above(k)' /\ h = path'[k]
  BY <1>3 DEF Above
<1> QED
  BY <1>1, <1>2, <1>5, <1>6, <1>7

(* No table entry changes, and no entry but a sector's new contents.       *)
LEMMA SameOwned ==
    ASSUME NEW own, NEW dirs \in SUBSET Clusters, DiskOwned(own, dirs), fat'[1] = fat[1],
           path' \in {path, <<>>}, PlainCells', RefsKept,
           \A s \in Slots, c \in Clusters : Refers(s, c)' => Refers(s, c) /\ CellAt(s)'.dir = CellAt(s).dir
    PROVE  DiskOwned(own, dirs)' /\ Kept(own, own)
<1>1. Kept(own, own)
  BY DEF Kept, Alive
<1>2. PathOK(own, dirs)'
  BY <1>1, PathKept DEF DiskOwned
<1>3. LinksOwned(own)'
  BY DEF DiskOwned, LinksOwned
<1>4. EntriesOwn(own, dirs)'
  BY DEF DiskOwned, EntriesOwn
<1> QED
  BY <1>1, <1>2, <1>3, <1>4 DEF DiskOwned

(* What is on the path is referred to, and so is not free.                 *)
LEMMA PathReferred ==
    ASSUME NEW own, NEW dirs \in SUBSET Clusters, PathOK(own, dirs), NEW h, OnPath(h)
    PROVE  h \in dirs /\ h \in Clusters /\ \E s \in Slots : Refers(s, h)
  BY DEF PathOK, OnPath

(* A free cluster is taken: it becomes the first one of a chain.           *)
AllocOwn(own, n) ==
    [x \in Clusters |-> IF x = n THEN n ELSE IF own[x] = n THEN 0 ELSE own[x]]
AllocDirs(dirs, n, new) == IF new THEN dirs \cup {n} ELSE dirs \ {n}

(* It was nobody's.                                                        *)
LEMMA AllocOwned ==
    ASSUME TypeOK, LinkedOnce, NEW own \in Owners, NEW dirs \in SUBSET Clusters,
           NEW new \in BOOLEAN, DiskOwned(own, dirs),
           NEW n \in Clusters, fat[1][n] = FREE, fat'[1] = [fat[1] EXCEPT ![n] = EOC],
           UNCHANGED sec, path' \in {path, <<>>}, \A s \in Slots, c \in Clusters : Refers(s, c)' <=> Refers(s, c)
    PROVE  /\ DiskOwned(AllocOwn(own, n), AllocDirs(dirs, n, new))'
           /\ Kept(own, AllocOwn(own, n))
           /\ AllocOwn(own, n) \in Owners /\ AllocDirs(dirs, n, new) \in SUBSET Clusters
<1>1. PICK own2, dirs2 : own2 = AllocOwn(own, n) /\ dirs2 = AllocDirs(dirs, n, new)
  OBVIOUS
<1>2. /\ own2 \in Owners /\ dirs2 \in SUBSET Clusters
      /\ \A x \in Clusters : own2[x] = IF x = n THEN n ELSE IF own[x] = n THEN 0 ELSE own[x]
      /\ \A h \in Clusters : h # n => (h \in dirs2 <=> h \in dirs)
  BY <1>1 DEF AllocOwn, AllocDirs, Owners
<1>3. /\ \A d \in Clusters : fat[1][d] # n
      /\ \A s \in Slots : ~Refers(s, n)
  BY DEF LinkedOnce
<1>4. /\ \A c \in Clusters : fat'[1][c] = IF c = n THEN EOC ELSE fat[1][c]
      /\ EOC \notin Clusters /\ EOC # FREE
  BY Fat16Assumption DEF TypeOK, EOC, FREE, Clusters
<1>5. \A h : OnPath(h) => h \in dirs /\ h \in Clusters /\ h # n
  BY <1>3, PathReferred DEF DiskOwned
<1>6. Kept(own, own2)
  BY <1>2, <1>4, <1>5 DEF Kept, Alive
<1>7. PathOK(own2, dirs2)'
  <2>1. RefsKept
    BY DEF RefsKept
  <2>2. \A h \in dirs : OnPath(h) => h \in dirs2
    BY <1>2, <1>5
  <2> QED
    BY <1>6, <2>1, <2>2, PathKept DEF DiskOwned
<1>8. LinksOwned(own2)'
  <2> SUFFICES ASSUME NEW c \in Clusters, fat'[1][c] \in Clusters PROVE own2[fat'[1][c]] = own2[c]
    BY DEF LinksOwned
  <2>1. c # n /\ fat'[1][c] = fat[1][c] /\ fat[1][c] \in Clusters /\ fat[1][c] # n
    BY <1>3, <1>4
  <2>2. own[fat[1][c]] = own[c]
    BY <2>1 DEF DiskOwned, LinksOwned
  <2> QED
    BY <1>2, <2>1, <2>2
<1>9. EntriesOwn(own2, dirs2)'
  <2> SUFFICES ASSUME NEW s \in Slots, NEW c \in Clusters, Refers(s, c)'
               PROVE  own2[c] = c /\ (c \in dirs2 <=> CellAt(s).dir)
    BY DEF EntriesOwn, CellAt
  <2>1. Refers(s, c) /\ c # n
    BY <1>3
  <2>2. own[c] = c /\ (c \in dirs <=> CellAt(s).dir)
    BY <2>1 DEF DiskOwned, EntriesOwn
  <2> QED
    BY <1>2, <2>1, <2>2
<1>10. PlainCells'
  BY DEF DiskOwned, PlainCells, CellAt
<1>11. DiskOwned(own2, dirs2)'
  BY <1>7, <1>8, <1>9, <1>10 DEF DiskOwned
<1> QED
  BY <1>1, <1>2, <1>6, <1>11

(* It is linked to the end of a chain, and belongs to that.                *)
LEMMA LinkOwned ==
    ASSUME TypeOK, LinkedOnce, NEW own \in Owners, NEW dirs \in SUBSET Clusters,
           DiskOwned(own, dirs), NEW l \in Clusters, NEW n \in Clusters, Held(n),
           own[n] = n, fat[1][n] \notin Clusters, fat'[1] = [fat[1] EXCEPT ![l] = n],
           UNCHANGED sec, path' \in {path, <<>>}, \A s \in Slots, c \in Clusters : Refers(s, c)' <=> Refers(s, c),
           NEW own2, own2 = [own EXCEPT ![n] = own[l]]
    PROVE  DiskOwned(own2, dirs)' /\ Kept(own, own2) /\ own2 \in Owners
<1>1. /\ own2 \in Owners
      /\ \A x \in Clusters : own2[x] = IF x = n THEN own[l] ELSE own[x]
  BY DEF Owners
<1>2. /\ \A d \in Clusters : fat[1][d] # n
      /\ \A s \in Slots : ~Refers(s, n)
  BY DEF Held, NoRef
<1>3. /\ \A c \in Clusters : fat'[1][c] = IF c = l THEN n ELSE fat[1][c]
      /\ n # FREE
  <2>1. n # FREE
    BY DEF FREE, Clusters
  <2>2. \A c \in Clusters : fat'[1][c] = IF c = l THEN n ELSE fat[1][c]
    BY DEF TypeOK
  <2> QED
    BY <2>1, <2>2
<1>4. \A h : OnPath(h) => h \in Clusters /\ h # n
  BY <1>2, PathReferred DEF DiskOwned
<1>5. Kept(own, own2)
  BY <1>1, <1>3, <1>4 DEF Kept, Alive
<1>6. PathOK(own2, dirs)'
  <2>1. RefsKept
    BY DEF RefsKept
  <2> QED
    BY <1>5, <2>1, PathKept DEF DiskOwned
<1>7. LinksOwned(own2)'
  <2> SUFFICES ASSUME NEW c \in Clusters, fat'[1][c] \in Clusters PROVE own2[fat'[1][c]] = own2[c]
    BY DEF LinksOwned
  <2>1. CASE c = l
    BY <1>1, <1>3, <2>1
  <2>2. CASE c # l
    <3>1. fat'[1][c] = fat[1][c] /\ fat[1][c] \in Clusters /\ fat[1][c] # n /\ c # n
      BY <1>2, <1>3, <2>2
    <3>2. own[fat[1][c]] = own[c]
      BY <3>1 DEF DiskOwned, LinksOwned
    <3> QED
      BY <1>1, <3>1, <3>2
  <2> QED
    BY <2>1, <2>2
<1>8. EntriesOwn(own2, dirs)'
  <2> SUFFICES ASSUME NEW s \in Slots, NEW c \in Clusters, Refers(s, c)'
               PROVE  own2[c] = c /\ (c \in dirs <=> CellAt(s).dir)
    BY DEF EntriesOwn, CellAt
  <2>1. Refers(s, c) /\ c # n
    BY <1>2
  <2> QED
    BY <1>1, <2>1 DEF DiskOwned, EntriesOwn
<1>9. PlainCells'
  BY DEF DiskOwned, PlainCells, CellAt
<1> QED
  BY <1>1, <1>5, <1>6, <1>7, <1>8, <1>9 DEF DiskOwned

(* A cluster of a chain that nothing refers to is freed.                   *)
LEMMA FreeOwned ==
    ASSUME TypeOK, LinkedOnce, NEW own \in Owners, NEW dirs \in SUBSET Clusters,
           DiskOwned(own, dirs), NEW x \in Clusters, \A s \in Slots : ~Refers(s, own[x]),
           fat'[1] = [fat[1] EXCEPT ![x] = FREE],
           UNCHANGED sec, path' \in {path, <<>>}, \A s \in Slots, c \in Clusters : Refers(s, c)' <=> Refers(s, c)
    PROVE  DiskOwned(own, dirs)' /\ Kept(own, own)
<1>1. \A c \in Clusters : fat'[1][c] = IF c = x THEN FREE ELSE fat[1][c]
  BY DEF TypeOK
<1>2. FREE \notin Clusters
  BY DEF FREE, Clusters
<1>3. \A h : OnPath(h) => h # own[x]
  BY PathReferred DEF DiskOwned
<1>4. Kept(own, own)
  BY <1>1, <1>3 DEF Kept, Alive
<1>5. PathOK(own, dirs)'
  <2>1. RefsKept
    BY DEF RefsKept
  <2> QED
    BY <1>4, <2>1, PathKept DEF DiskOwned
<1>6. LinksOwned(own)'
  BY <1>1, <1>2 DEF DiskOwned, LinksOwned
<1>7. EntriesOwn(own, dirs)'
  BY DEF DiskOwned, EntriesOwn, CellAt
<1>8. PlainCells'
  BY DEF DiskOwned, PlainCells, CellAt
<1> QED
  BY <1>4, <1>5, <1>6, <1>7, <1>8 DEF DiskOwned

(* A directory entry is written where there was no reference.              *)
LEMMA WriteOwned ==
    ASSUME TypeOK, NEW own \in Owners, NEW dirs \in SUBSET Clusters, DiskOwned(own, dirs),
           NEW s \in Slots, NEW e \in CellType, WriteCell(s, e), fat'[1] = fat[1], path' = path,
           \A c \in Clusters : ~Refers(s, c), ~job'.freed, job.freed => s = job.slot,
           PlainCell(e),
           e.first # 0 => own[e.first] = e.first /\ (e.first \in dirs <=> e.dir)
    PROVE  DiskOwned(own, dirs)' /\ Kept(own, own)
<1>1. \A t \in Slots : CellAt(t)' = IF t = s THEN e ELSE CellAt(t)
  BY WriteCellType
<1>2. \A t \in Slots, c \in Clusters :
         Refers(t, c)' <=> IF t = s THEN e.first = c ELSE Refers(t, c)
  BY <1>1 DEF Refers
<1>3. Kept(own, own)
  BY DEF Kept, Alive
<1>4. PathOK(own, dirs)'
  <2>1. RefsKept
    BY <1>2 DEF RefsKept
  <2> QED
    BY <1>3, <2>1, PathKept DEF DiskOwned
<1>5. LinksOwned(own)'
  BY DEF DiskOwned, LinksOwned
<1>6. EntriesOwn(own, dirs)'
  <2>1. ASSUME NEW t \in Slots, NEW c \in Clusters, Refers(t, c)'
        PROVE  own[c] = c /\ (c \in dirs <=> CellAt(t)'.dir)
    <3>1. CASE t = s
      <4>1. e.first = c /\ CellAt(t)' = e /\ c # 0
        BY <1>1, <1>2, <2>1, <3>1 DEF Clusters
      <4> QED
        BY <4>1
    <3>2. CASE t # s
      <4>1. Refers(t, c) /\ CellAt(t)' = CellAt(t)
        BY <1>1, <1>2, <2>1, <3>2
      <4> QED
        BY <4>1 DEF DiskOwned, EntriesOwn
    <3> QED
      BY <3>1, <3>2
  <2> QED
    BY <2>1 DEF EntriesOwn
<1>7. PlainCells'
  BY <1>1 DEF DiskOwned, PlainCells
<1> QED
  BY <1>3, <1>4, <1>5, <1>6, <1>7 DEF DiskOwned

-----------------------------------------------------------------------------
(* What the call owns after the control points that actions share *)

(* Nothing, once it has returned                                           *)
LEMMA ReturnOwned ==
    ASSUME NEW own, NEW dirs, pc' = "idle" PROVE CallOwns(own, dirs)'
  BY DEF CallOwns, CallerOK, ScanOK, GrowOK, SlotOK, HasSlot, LinkOK, FileOK, NewDirOK, EntryOK, FreeOK

Calls(j) == j.dir \in {0, Cwd'} /\ (j.op # "echo" => j.dir = Cwd')

(* The loop of fat16_write_file: what has been written belongs together.   *)
LEMMA WriteOnOwned ==
    ASSUME NEW own, NEW dirs, NEW j \in JobType, WriteOn(j), j.op = "echo", Calls(j),
           SlotIn(own, j.slot, j.dir)', CellAt(j.slot)'.first = 0 \/ j.freed = TRUE,
           j.ent.kind = "entry", j.ent.dir = FALSE,
           j.first # 0 => own[j.first] = j.first /\ j.first \notin dirs /\ Alive(own, j.last, j.first)'
    PROVE  CallOwns(own, dirs)'
<1>1. CASE j.done < j.len
  <2>1. pc' = "eoc" /\ job' = [j EXCEPT !.why = "data"]
    BY <1>1 DEF WriteOn, Goto
  <2>2. /\ job'.why = "data" /\ job'.slot = j.slot /\ job'.dir = j.dir /\ job'.op = j.op
        /\ job'.freed = j.freed /\ job'.ent = j.ent /\ job'.first = j.first /\ job'.last = j.last
    BY <2>1 DEF JobType
  <2>3. \A c \in Clusters : ~Refers(job.slot, c)'
    BY <2>2 DEF Refers, Clusters
  <2>4. SlotOK(own)'
    BY <2>2, <2>3 DEF SlotOK
  <2>5. CallerOK' /\ FileOK(own, dirs)'
    BY <2>1, <2>2 DEF CallerOK, FileOK, Calls
  <2> QED
    BY <2>1, <2>2, <2>4, <2>5 DEF CallOwns, ScanOK, GrowOK, LinkOK, NewDirOK, EntryOK, FreeOK
<1>2. CASE ~(j.done < j.len)
  <2> DEFINE e == Placed(j.ent, j.first, j.len)
  <2>1. pc' = "dirent" /\ job' = [j EXCEPT !.ent = e]
    BY <1>2 DEF WriteOn, Goto
  <2>2. e.first = j.first /\ e.kind = j.ent.kind /\ e.dir = j.ent.dir
    BY DEF Placed, JobType, CellType
  <2> HIDE DEF e
  <2>3. /\ job'.slot = j.slot /\ job'.dir = j.dir /\ job'.op = j.op
        /\ job'.freed = j.freed /\ job'.ent = e
    BY <2>1 DEF JobType
  <2>4. \A c \in Clusters : ~Refers(job.slot, c)'
    BY <2>3 DEF Refers, Clusters
  <2>5. SlotOK(own)'
    BY <2>2, <2>3, <2>4 DEF SlotOK
  <2>6. CallerOK' /\ EntryOK(own, dirs)'
    BY <2>1, <2>2, <2>3 DEF CallerOK, EntryOK, PlainCell, Calls
  <2> QED
    BY <2>1, <2>5, <2>6 DEF CallOwns, ScanOK, GrowOK, LinkOK, FileOK, NewDirOK, FreeOK
<1> QED
  BY <1>1, <1>2

(* Neither takes a chain away.                                             *)
LEMMA WriteOnKeeps ==
    ASSUME NEW j \in JobType, WriteOn(j)
    PROVE  job'.freed = j.freed /\ job'.slot = j.slot
  BY DEF WriteOn, Goto, JobType

(* Nor does the caller of find_or_alloc_slot when the name is new.         *)
LEMMA NotFoundKeeps ==
    ASSUME NEW s \in Slots, NEW j0 \in JobType, NotFound(s, j0), j0.op # "none", ~j0.freed
    PROVE  ~job'.freed
<1> DEFINE e == Entry(j0.name, j0.op = "mkdir")
           j == [j0 EXCEPT !.slot = s, !.ent = e]
<1>1. e \in CellType
  BY CellTypes DEF JobType
<1> HIDE DEF e
<1>2. j \in JobType /\ j.freed = j0.freed /\ j.op = j0.op
  <2>1. j \in JobType
    BY <1>1 DEF JobType
  <2>2. j.freed = j0.freed /\ j.op = j0.op
    BY DEF JobType
  <2> QED
    BY <2>1, <2>2
<1> HIDE DEF j
<1>3. CASE j0.op \in {"cd", "rm"}
  <2>1. job' = NoJob
    BY <1>3 DEF NotFound, Return
  <2> QED
    BY <2>1 DEF NoJob, NewJob
<1>4. CASE j0.op = "echo"
  <2>1. WriteOn(j)
    BY <1>4 DEF NotFound, j, e
  <2> QED
    BY <1>2, <2>1, WriteOnKeeps
<1>5. CASE j0.op = "touch"
  BY <1>2, <1>5 DEF NotFound, Goto, j, e
<1>6. CASE j0.op = "mkdir"
  <2>1. job' = [j EXCEPT !.why = "mkdir"]
    BY <1>6 DEF NotFound, Goto, j, e
  <2> QED
    BY <1>2, <2>1 DEF JobType
<1> QED
  BY <1>3, <1>4, <1>5, <1>6 DEF JobType, Ops

(* A slot was found free for a new entry.                                  *)
LEMMA NotFoundOwned ==
    ASSUME NEW own, NEW dirs, NEW s \in Slots, NEW j0 \in JobType, NotFound(s, j0), Calls(j0),
           SlotIn(own, s, j0.dir)', CellAt(s)'.first = 0,
           j0.op # "none", j0.first = 0, j0.last = 0, ~j0.freed
    PROVE  CallOwns(own, dirs)'
<1> DEFINE e == Entry(j0.name, j0.op = "mkdir")
           j == [j0 EXCEPT !.slot = s, !.ent = e]
<1>1. e \in CellType /\ e.first = 0 /\ e.kind = "entry"
  BY CellTypes DEF JobType, Entry, Blank
<1>2. e.dir = (j0.op = "mkdir")
  BY DEF Entry, Blank
<1> HIDE DEF e
<1>3. /\ j \in JobType /\ j.slot = s /\ j.first = 0 /\ j.last = 0 /\ j.ent = e
      /\ j.op = j0.op /\ j.freed = j0.freed /\ j.dir = j0.dir
  BY <1>1 DEF JobType
<1> HIDE DEF j
<1>4. CASE j0.op \in {"cd", "rm"}
  BY <1>4, ReturnOwned DEF NotFound, Return
<1>5. CASE j0.op = "echo"
  <2>1. WriteOn(j) /\ e.dir = FALSE
    BY <1>2, <1>5 DEF NotFound, j, e
  <2> QED
    BY <1>1, <1>3, <1>5, <2>1, WriteOnOwned DEF Calls
<1>6. CASE j0.op = "touch"
  <2>1. pc' = "dirent" /\ job' = j
    BY <1>6 DEF NotFound, j, e, Goto
  <2>2. \A c \in Clusters : ~Refers(job.slot, c)'
    BY <1>3, <2>1 DEF Refers, Clusters
  <2>3. SlotOK(own)'
    BY <1>1, <1>2, <1>3, <1>6, <2>1, <2>2 DEF SlotOK
  <2>4. CallerOK' /\ EntryOK(own, dirs)'
    BY <1>1, <1>2, <1>3, <1>6, <2>1 DEF CallerOK, EntryOK, PlainCell, Calls
  <2> QED
    BY <2>1, <2>3, <2>4 DEF CallOwns, ScanOK, GrowOK, LinkOK, FileOK, NewDirOK, FreeOK
<1>7. CASE j0.op = "mkdir"
  <2>1. pc' = "eoc" /\ job' = [j EXCEPT !.why = "mkdir"]
    BY <1>7 DEF NotFound, j, e, Goto
  <2>2. /\ job'.why = "mkdir" /\ job'.slot = s /\ job'.dir = j0.dir /\ job'.op = j0.op
        /\ job'.freed = j0.freed /\ job'.ent = e /\ job'.first = 0
    BY <1>3, <2>1 DEF JobType
  <2>3. \A c \in Clusters : ~Refers(job.slot, c)'
    BY <2>2 DEF Refers, Clusters
  <2>4. SlotOK(own)'
    BY <1>1, <1>7, <2>1, <2>2, <2>3 DEF SlotOK
  <2>5. CallerOK' /\ NewDirOK(own, dirs)'
    BY <1>2, <1>7, <2>1, <2>2 DEF CallerOK, NewDirOK, Calls
  <2> QED
    BY <2>1, <2>2, <2>4, <2>5 DEF CallOwns, ScanOK, GrowOK, LinkOK, FileOK, EntryOK, FreeOK
<1> QED
  BY <1>4, <1>5, <1>6, <1>7 DEF JobType, Ops

(* The directory a call works in is the root or one the terminal is in.    *)
LEMMA DirOnPath ==
    ASSUME TypeOK, NEW own, NEW dirs \in SUBSET Clusters, PathOK(own, dirs), CallerOK, pc # "idle"
    PROVE  job.dir = 0 \/ (job.dir \in Clusters /\ OnPath(job.dir) /\ job.dir \in dirs)
<1>1. CASE path = <<>>
  BY <1>1 DEF CallerOK, Cwd
<1>2. CASE path # <<>> /\ job.dir # 0
  <2>1. Len(path) \in 1 .. Len(path)
    BY <1>2 DEF TypeOK
  <2>2. job.dir = path[Len(path)]
    BY <1>2 DEF CallerOK, Cwd
  <2> QED
    BY <2>1, <2>2 DEF PathOK, OnPath
<1> QED
  BY <1>1, <1>2

(* References stay while directories and what the call frees do.           *)
LEMMA RefsSame ==
    ASSUME UNCHANGED sec,
           (~job.freed /\ ~job'.freed) \/ (job'.freed = job.freed /\ job'.slot = job.slot)
    PROVE  \A s \in Slots, c \in Clusters : Refers(s, c)' <=> Refers(s, c)
  BY DEF Refers, CellAt

(* What is known before a step                                             *)
Before(own, dirs) ==
    /\ TypeInv /\ LinkedOnce /\ InFlight
    /\ own \in Owners /\ dirs \in SUBSET Clusters /\ Owned(own, dirs)

(* The slot a call has found stays in its directory.                       *)
LEMMA SlotStays ==
    ASSUME NEW own, NEW dirs, Before(own, dirs), pc # "idle", NEW own2, Kept(own, own2),
           NEW s, SlotIn(own, s, job.dir), NEW h, h = job.dir
    PROVE  SlotIn(own2, s, h)'
<1>1. h = 0 \/ (h \in Clusters /\ OnPath(h))
  BY DirOnPath DEF Before, TypeInv, Owned, DiskOwned, CallOwns
<1> QED
  BY <1>1, SlotKept

(* When extend_cluster_chain answers 0, what has been written is freed.    *)
LEMMA ExtendFailedOwned ==
    ASSUME NEW own, NEW dirs, Before(own, dirs), pc \in {"eoc", "link", "zero"},
           NEW h, ExtendFailed(h), UNCHANGED <<sec, path>>,
           NEW own2, NEW dirs2, Kept(own, own2),
           job.why = "data" /\ job.first # 0 => own2[job.first] = job.first /\ job.first \notin dirs2
    PROVE  CallOwns(own2, dirs2)'
<1>1. CASE ~(job.why = "data" /\ job.first # 0)
  BY <1>1, ReturnOwned DEF ExtendFailed, Return
<1>2. CASE job.why = "data" /\ job.first # 0
  <2>1. PICK f, s, g : f = job.first /\ s = job.slot /\ g = job.dir
    OBVIOUS
  <2>2. /\ job \in JobType /\ f \in Clusters /\ Held(f) /\ job.op = "echo"
        /\ CallerOK /\ SlotOK(own)
    BY <1>2, <2>1 DEF Before, TypeInv, TypeOK, JobOK, JobType, InFlight, Owned, CallOwns
  <2>3. pc' = "free" /\ job' = [job EXCEPT !.why = "undo", !.cur = f]
    BY <1>2, <2>1 DEF ExtendFailed, Goto
  <2>4. /\ job'.why = "undo" /\ job'.cur = f /\ job'.first = f /\ job'.slot = s /\ job'.dir = g
        /\ job'.freed = job.freed /\ job'.op = job.op /\ job'.ent = job.ent
    BY <2>1, <2>2, <2>3 DEF JobType
  <2>5. \A t \in Slots, c \in Clusters : Refers(t, c)' <=> Refers(t, c)
    BY <2>1, <2>4, RefsSame
  <2>6. SlotIn(own2, s, g)'
    BY <1>2, <2>1, <2>2, SlotStays DEF SlotOK, HasSlot
  <2>7. s \in Slots
    BY <1>2, <2>1, <2>2 DEF Before, TypeInv, JobOK, JobType
  <2>8. SlotOK(own2)'
    <3>1. \A c \in Clusters : ~Refers(s, c)'
      BY <1>2, <2>1, <2>2, <2>5, <2>7 DEF SlotOK, HasSlot
    <3> QED
      BY <1>2, <2>1, <2>2, <2>4, <2>6, <3>1 DEF SlotOK, HasSlot
  <2>9. CallerOK'
    BY <2>1, <2>2, <2>4 DEF CallerOK, Cwd
  <2>10. FreeOK(own2, dirs2)'
    <3>1. \A t \in Slots : ~Refers(t, f)'
      BY <2>2, <2>5 DEF Held, NoRef
    <3>2. FreeHead' = f
      BY <2>4 DEF FreeHead
    <3> QED
      BY <1>2, <2>1, <2>2, <2>4, <3>1, <3>2 DEF FreeOK
  <2> QED
    BY <2>3, <2>8, <2>9, <2>10 DEF CallOwns, ScanOK, GrowOK, LinkOK, FileOK, NewDirOK, EntryOK
<1> QED
  BY <1>1, <1>2

-----------------------------------------------------------------------------
(* Every step that keeps Calm keeps the clusters owned *)

(* A command starts, or the terminal goes up.                              *)
LEMMA CommandOwned ==
    ASSUME NEW own, NEW dirs, Before(own, dirs), TerminalCall \/ DesktopCall \/ CdUp \/ CdRoot
    PROVE  Owned(own, dirs)'
<1>1. /\ pc = "idle" /\ UNCHANGED <<fat, sec>> /\ ~job.freed
      /\ path \in Seq(Clusters \cup {0}) /\ DiskOwned(own, dirs) /\ dirs \in SUBSET Clusters
  <2>1. pc = "idle" /\ UNCHANGED <<fat, sec>>
    BY DEF TerminalCall, DesktopCall, Call, CdUp, CdRoot, disk
  <2>2. ~job.freed
    BY <2>1 DEF Before, TypeInv, JobOK, NoJob, NewJob
  <2> QED
    BY <2>1, <2>2 DEF Before, TypeInv, TypeOK, Owned
<1>2. CASE TerminalCall \/ DesktopCall
  <2>1. PICK op, d, n, v, len : /\ Call(op, d, n, v, len) /\ op \in Ops /\ d \in {0, Cwd}
                                /\ op # "echo" => d = Cwd
    <3>1. CASE TerminalCall
      <4>1. PICK op \in TerminalOps \ {"cdup"}, n \in Names :
               IF op = "echo" THEN \E v \in Values, len \in Lens : Call(op, Cwd, n, v, len)
               ELSE Call(op, Cwd, n, "-", 0)
        BY <3>1 DEF TerminalCall
      <4>2. op \in Ops
        BY Fat16Assumption DEF Commands, Ops
      <4> QED
        BY <4>1, <4>2
    <3>2. CASE DesktopCall
      BY <3>2, Fat16Assumption DEF DesktopCall, Ops
    <3> QED
      BY <1>2, <3>1, <3>2
  <2>2. pc' = "scan" /\ job' = NewJob(op, d, n, v, len) /\ path' = path
    BY <2>1 DEF Call, Goto
  <2>3. /\ job'.op = op /\ job'.dir = d /\ ~job'.freed /\ job'.free = NoSlot
        /\ d # 0 => job'.cur = d /\ job'.csec = d
    BY <2>2 DEF NewJob
  <2>4. \A s \in Slots, c \in Clusters : Refers(s, c)' <=> Refers(s, c)
    BY <1>1, <2>3, RefsSame
  <2>5. DiskOwned(own, dirs)'
    <3>1. PlainCells'
      BY <1>1 DEF DiskOwned, PlainCells, CellAt
    <3>2. RefsKept /\ \A s \in Slots : CellAt(s)' = CellAt(s)
      BY <1>1, <2>4 DEF RefsKept, CellAt
    <3> QED
      BY <1>1, <2>2, <2>4, <3>1, <3>2, SameOwned
  <2>6. CallerOK'
    BY <2>1, <2>2, <2>3 DEF CallerOK, Cwd
  <2>7. ASSUME d # 0 PROVE Alive(own, d, d)'
    <3>1. path # <<>> /\ d = path[Len(path)]
      BY <2>1, <2>7 DEF Cwd
    <3>2. Len(path) \in 1 .. Len(path)
      BY <1>1, <3>1
    <3>3. OnPath(d)
      BY <3>1, <3>2 DEF OnPath
    <3>4. d \in Clusters /\ \E s \in Slots : Refers(s, d)
      BY <1>1, <3>3, PathReferred DEF DiskOwned
    <3>5. own[d] = d /\ fat[1][d] # FREE
      BY <1>1, <3>4 DEF DiskOwned, EntriesOwn, Before, LinkedOnce
    <3> QED
      BY <1>1, <3>5 DEF Alive
  <2>8. ScanOK(own)'
    BY <2>3, <2>7 DEF ScanOK
  <2> QED
    BY <2>2, <2>5, <2>6, <2>8
       DEF Owned, CallOwns, GrowOK, SlotOK, HasSlot, LinkOK, FileOK, NewDirOK, EntryOK, FreeOK
<1>3. CASE CdUp \/ CdRoot
  <2>1. /\ pc' = "idle" /\ job' = job
        /\ path # <<>> /\ path' \in {<<>>, SubSeq(path, 1, Len(path) - 1)}
    BY <1>3 DEF CdUp, CdRoot
  <2>2. \A s \in Slots, c \in Clusters : Refers(s, c)' <=> Refers(s, c)
    BY <1>1, <2>1, RefsSame
  <2>3. /\ Len(path') < Len(path) /\ Len(path') \in Nat
        /\ \A k \in 1 .. Len(path') : path'[k] = path[k]
    BY <1>1, <2>1
  <2>4. PathOK(own, dirs)'
    <3> SUFFICES ASSUME NEW k \in 1 .. Len(path')
                 PROVE  /\ path'[k] \in dirs
                        /\ \A m \in 1 .. k - 1 : path'[m] # path'[k]
                        /\ \E s \in Slots : Refers(s, path[k])' /\ SlotIn(own, s, Above(k))'
      BY DEF PathOK
    <3>1. k \in 1 .. Len(path) /\ path'[k] = path[k] /\ Above(k)' = Above(k)
      BY <1>1, <2>3 DEF Above
    <3>2. /\ path[k] \in dirs
          /\ \A m \in 1 .. k - 1 : path[m] # path[k] /\ path'[m] = path[m]
      BY <1>1, <2>3, <3>1 DEF DiskOwned, PathOK
    <3>3. PICK s \in Slots : Refers(s, path[k]) /\ SlotIn(own, s, Above(k))
      BY <1>1, <3>1 DEF DiskOwned, PathOK
    <3>4. PICK h, g : h = path[k] /\ g = Above(k)
      OBVIOUS
    <3>5. Refers(s, h)' /\ SlotIn(own, s, g)'
      <4>1. h \in Clusters
        BY <1>1, <3>2, <3>4
      <4>2. Refers(s, h)'
        BY <2>2, <3>3, <3>4, <4>1
      <4>3. SlotIn(own, s, g)'
        BY <1>1, <3>3, <3>4 DEF SlotIn, Alive
      <4> QED
        BY <4>2, <4>3
    <3>6. Refers(s, path[k])' /\ SlotIn(own, s, Above(k))'
      BY <3>1, <3>4, <3>5
    <3> QED
      BY <3>1, <3>2, <3>6
  <2>5. LinksOwned(own)' /\ PlainCells'
    BY <1>1 DEF DiskOwned, LinksOwned, PlainCells, CellAt
  <2>6. EntriesOwn(own, dirs)'
    BY <1>1, <2>2 DEF DiskOwned, EntriesOwn, CellAt
  <2> QED
    BY <2>1, <2>4, <2>5, <2>6, ReturnOwned DEF Owned, DiskOwned
<1> QED
  BY <1>2, <1>3

(* A slot lies in one directory only.                                      *)
LEMMA OneDirectory ==
    ASSUME NEW own, NEW s, NEW g, NEW h, SlotIn(own, s, g), SlotIn(own, s, h)
    PROVE  g = h
  BY Fat16Assumption DEF SlotIn, Alive, cluster_to_lba, Clusters

(* No directory on the path lies in the one the terminal is in.            *)
LEMMA NotInCwd ==
    ASSUME TypeOK, LinkedOnce, NEW own, NEW dirs \in SUBSET Clusters, PathOK(own, dirs),
           NEW s \in Slots, SlotIn(own, s, Cwd), NEW h \in Clusters, Refers(s, h)
    PROVE  ~OnPath(h)
<1> SUFFICES ASSUME NEW k \in 1 .. Len(path), path[k] = h PROVE FALSE
  BY DEF OnPath
<1>1. PICK t \in Slots : Refers(t, h) /\ SlotIn(own, t, Above(k))
  BY DEF PathOK
<1>2. t = s
  BY <1>1 DEF LinkedOnce
<1>3. Above(k) = Cwd
  BY <1>1, <1>2, OneDirectory
<1>4. path # <<>> /\ Len(path) \in 1 .. Len(path) /\ Cwd = path[Len(path)]
  BY DEF TypeOK, Cwd
<1>5. path[Len(path)] \in dirs /\ 0 \notin Clusters
  BY <1>4 DEF PathOK, Clusters
<1>6. CASE k = 1
  BY <1>3, <1>4, <1>5, <1>6 DEF Above
<1>7. CASE k # 1
  <2>1. k - 1 \in 1 .. Len(path) - 1 /\ path[k - 1] = path[Len(path)]
    BY <1>3, <1>4, <1>7 DEF Above
  <2> QED
    BY <1>4, <2>1 DEF PathOK
<1> QED
  BY <1>6, <1>7

(* The slots a scan comes by                                               *)
LEMMA ScanSlot ==
    ASSUME NEW own, NEW dirs, Before(own, dirs), pc = "scan", ~Exhausted, NEW i \in Cells,
           NEW s, s = [lba |-> ScanLba, idx |-> i]
    PROVE  s \in Slots /\ SlotIn(own, s, job.dir)
<1>1. s \in Slots
  BY ScanLbaType DEF Slots, Before
<1>2. CASE job.dir = 0
  <2>1. job.cur \in Nat /\ ~(job.cur > RootSectors) /\ s.lba = job.cur
    BY <1>2 DEF ScanLba, Exhausted, Before, TypeInv, TypeOK, JobType
  <2>2. s.lba <= RootSectors
    BY <2>1, Fat16Assumption
  <2> QED
    BY <1>1, <1>2, <2>2 DEF SlotIn
<1>3. CASE job.dir # 0
  <2>1. job.cur \in Clusters
    BY <1>3, AnswerIsCluster DEF Exhausted, Before, TypeInv, JobOK
  <2>2. Alive(own, job.cur, job.dir)
    BY <1>3, <2>1 DEF Before, Owned, CallOwns, ScanOK
  <2> QED
    BY <1>1, <1>3, <2>1, <2>2 DEF SlotIn, ScanLba
<1> QED
  BY <1>1, <1>2, <1>3

(* The name was found.                                                     *)
LEMMA ScanHitOwned ==
    ASSUME NEW own, NEW dirs, Before(own, dirs), ScanHit, Calm'
    PROVE  Owned(own, dirs)'
<1>1. /\ pc = "scan" /\ ~Exhausted /\ UNCHANGED <<fat, sec>>
      /\ TypeOK /\ LinkedOnce /\ DiskOwned(own, dirs) /\ CallerOK
      /\ own \in Owners /\ dirs \in SUBSET Clusters
  BY DEF ScanHit, disk, Before, TypeInv, Owned, CallOwns
<1>2. /\ job \in JobType /\ ~job.freed /\ job.first = 0 /\ job.last = 0 /\ job.op # "none"
      /\ path \in Seq(Clusters \cup {0})
  BY <1>1 DEF Before, TypeInv, TypeOK, JobOK
<1>3. PICK i \in Cells : sec[ScanLba][i].kind = "entry" /\ Found([lba |-> ScanLba, idx |-> i])
  BY DEF ScanHit
<1>4. PICK s : s = [lba |-> ScanLba, idx |-> i]
  OBVIOUS
<1>5. s \in Slots /\ SlotIn(own, s, job.dir)
  BY <1>1, <1>4, ScanSlot
<1> DEFINE e == CellAt(s)
           j == [job EXCEPT !.slot = s, !.ent = e]
<1>6. Found(s) /\ e.kind = "entry" /\ e \in CellType
  BY <1>3, <1>4, <1>5, <1>1 DEF CellAt, TypeOK, Slots
<1>7. /\ e.first \in Clusters \cup {0} /\ e.dir \in BOOLEAN
      /\ \A c \in Clusters : e.first = c =>
            /\ own[c] = c /\ (c \in dirs <=> e.dir) /\ Refers(s, c)
            /\ \A t \in Slots : Refers(t, c) => t = s
  <2>1. \A c \in Clusters : e.first = c => Refers(s, c)
    BY <1>2, <1>5 DEF Refers
  <2> QED
    BY <1>1, <1>5, <1>6, <2>1 DEF CellType, DiskOwned, EntriesOwn, LinkedOnce
<1>8. \A t \in Slots : CellAt(t)' = CellAt(t)
  BY <1>1 DEF CellAt
<1>9. PlainCells' /\ PlainCell(e)
  BY <1>1, <1>5, <1>8 DEF DiskOwned, PlainCells
<1> HIDE DEF e
<1>10. /\ j \in JobType /\ j.slot = s /\ j.first = 0 /\ j.last = 0 /\ j.ent = e
       /\ j.op = job.op /\ j.freed = job.freed /\ j.dir = job.dir
  BY <1>2, <1>5, <1>6 DEF JobType
<1> HIDE DEF j
<1>11. ASSUME ~job'.freed, path' = path PROVE DiskOwned(own, dirs)' /\ Kept(own, own)
  <2>1. \A t \in Slots, c \in Clusters : Refers(t, c)' <=> Refers(t, c)
    BY <1>1, <1>2, <1>11, RefsSame
  <2> QED
    BY <1>1, <1>8, <1>9, <1>11, <2>1, SameOwned DEF RefsKept
<1>12. CASE job.op \in {"touch", "mkdir"}
  <2>1. Return(TRUE) /\ path' = path
    BY <1>6, <1>12 DEF Found
  <2>2. pc' = "idle" /\ ~job'.freed
    BY <2>1 DEF Return, NoJob, NewJob
  <2> QED
    BY <1>11, <2>1, <2>2, ReturnOwned DEF Owned
<1>20. ASSUME job.op # "echo", NEW c \in Clusters, e.first = c PROVE ~OnPath(c)
  <2>1. SlotIn(own, s, Cwd)
    BY <1>1, <1>5, <1>20 DEF CallerOK
  <2> QED
    BY <1>1, <1>5, <1>7, <1>20, <2>1, NotInCwd DEF DiskOwned
<1>30. ASSUME NEW w, Goto("free", [j EXCEPT !.why = w, !.freed = TRUE, !.cur = e.first]),
              w \in {"rewrite", "delete"}, path' = path, HasChain(e),
              w = "rewrite" => job.op = "echo" /\ e.dir = FALSE, w = "delete" => job.op = "rm"
       PROVE  Owned(own, dirs)'
  <2>1. PICK c \in Clusters : c = e.first
    BY <1>7, <1>30 DEF HasChain
  <2>2. /\ pc' = "free" /\ job'.cur = c /\ job'.slot = s /\ job'.ent = e /\ job'.why = w
        /\ job'.freed = TRUE /\ job'.op = job.op /\ job'.dir = job.dir
    BY <1>10, <1>30, <2>1 DEF Goto, JobType
  <2>3. \A t \in Slots, x \in Clusters : Refers(t, x)' <=> Refers(t, x) /\ t # s
    BY <1>2, <1>8, <2>2 DEF Refers
  <2>4. ~OnPath(c)
    <3>1. CASE w = "delete"
      BY <1>20, <1>30, <2>1, <3>1
    <3>2. CASE w = "rewrite"
      <4>1. c \notin dirs
        BY <1>7, <1>30, <2>1, <3>2
      <4> QED
        BY <1>1, <4>1, PathReferred DEF DiskOwned
    <3> QED
      BY <1>30, <3>1, <3>2
  <2>5. RefsKept
    <3> SUFFICES ASSUME NEW t \in Slots, NEW h \in Clusters, OnPath(h), Refers(t, h) PROVE t # s
      BY <2>3 DEF RefsKept
    <3>1. CellAt(t).first = h
      BY DEF Refers
    <3> QED
      BY <2>1, <2>4, <3>1 DEF e
  <2>6. DiskOwned(own, dirs)'
    BY <1>1, <1>8, <1>9, <1>30, <2>3, <2>5, SameOwned
  <2>7. CallerOK'
    BY <1>1, <1>30, <2>2 DEF CallerOK, Cwd
  <2>8. SlotIn(own, s, job.dir)'
    <3>1. SlotIn(own, s, job'.dir)
      BY <1>5, <2>2
    <3> QED
      BY <1>1, <3>1 DEF SlotIn, Alive
  <2>9. SlotOK(own)'
    <3>1. \A x \in Clusters : ~Refers(s, x)'
      BY <1>5, <2>3
    <3> QED
      BY <1>6, <1>30, <2>2, <2>8, <3>1 DEF SlotOK
  <2>10. FreeOK(own, dirs)'
    <3>1. \A t \in Slots : ~Refers(t, c)'
      BY <1>7, <2>1, <2>3
    <3>2. FreeHead' = c
      BY <1>30, <2>1, <2>2 DEF FreeHead
    <3> QED
      BY <1>7, <1>30, <2>1, <2>2, <3>1, <3>2 DEF FreeOK
  <2> QED
    BY <2>2, <2>6, <2>7, <2>9, <2>10
       DEF Owned, CallOwns, ScanOK, GrowOK, LinkOK, FileOK, NewDirOK, EntryOK
<1>13. CASE job.op = "rm"
  <2>1. CASE HasChain(e)
    BY <1>6, <1>13, <1>30, <2>1 DEF Found, e, j
  <2>2. CASE ~HasChain(e)
    <3>1. pc' = "mark" /\ job' = j /\ path' = path
      BY <1>6, <1>13, <2>2 DEF Found, e, j, Goto
    <3>2. DiskOwned(own, dirs)'
      BY <1>2, <1>10, <1>11, <3>1
    <3>3. CallerOK'
      BY <1>1, <1>10, <3>1 DEF CallerOK, Cwd
    <3>4. SlotIn(own, s, job.dir)'
      BY <1>1, <1>5, <1>10, <3>1 DEF SlotIn, Alive
    <3>5. \A x \in Clusters : ~Refers(s, x)'
      BY <1>5, <1>8, <2>2 DEF Refers, HasChain, e, Clusters
    <3>6. SlotOK(own)'
      BY <1>6, <1>10, <1>13, <3>1, <3>4, <3>5 DEF SlotOK
    <3> QED
      BY <3>1, <3>2, <3>3, <3>6
         DEF Owned, CallOwns, ScanOK, GrowOK, LinkOK, FileOK, NewDirOK, EntryOK, FreeOK
  <2> QED
    BY <2>1, <2>2
<1>14. CASE job.op = "echo"
  <2>1. e.dir = FALSE /\ path' = path
    <3>1. harm' = harm \cup (IF e.dir THEN {"overdir"} ELSE {}) /\ path' = path
      BY <1>6, <1>14 DEF Found, e, Harm
    <3> QED
      BY <1>7, <3>1 DEF Calm
  <2>2. CASE HasChain(e)
    BY <1>6, <1>14, <1>30, <2>1, <2>2 DEF Found, e, j
  <2>3. CASE ~HasChain(e)
    <3>1. WriteOn(j)
      BY <1>6, <1>14, <2>3 DEF Found, e, j
    <3>2. ~job'.freed
      BY <1>2, <1>10, <3>1 DEF WriteOn, Goto, JobType
    <3>3. Calls(j)
      BY <1>1, <1>10, <2>1 DEF Calls, CallerOK, Cwd
    <3>4. PICK d : d = j.dir
      OBVIOUS
    <3>5. SlotIn(own, s, d)'
      BY <1>1, <1>5, <1>10, <3>4 DEF SlotIn, Alive
    <3>6. CellAt(s)'.first = 0
      BY <1>5, <1>8, <2>3 DEF HasChain, e
    <3>7. CallOwns(own, dirs)'
      BY <1>6, <1>10, <1>14, <2>1, <3>1, <3>3, <3>4, <3>5, <3>6, WriteOnOwned
    <3> QED
      BY <1>11, <2>1, <3>2, <3>7 DEF Owned
  <2> QED
    BY <2>2, <2>3
<1>15. CASE job.op = "cd"
  <2>1. /\ pc' = "idle" /\ ~job'.freed
        /\ path' = path \/ (e.dir = TRUE /\ path' = Append(path, e.first))
    BY <1>6, <1>7, <1>15 DEF Found, e, Return, NoJob, NewJob
  <2>2. CASE path' = path
    BY <1>11, <2>1, <2>2, ReturnOwned DEF Owned
  <2>3. CASE e.dir = TRUE /\ path' = Append(path, e.first)
    <3>1. PICK c \in Clusters : c = e.first
      BY <1>6, <1>7, <1>9, <2>3 DEF PlainCell
    <3>2. \A t \in Slots, x \in Clusters : Refers(t, x)' <=> Refers(t, x)
      BY <1>1, <1>2, <2>1, RefsSame
    <3>3. /\ Len(path') = Len(path) + 1 /\ Len(path) \in Nat /\ path'[Len(path) + 1] = c
          /\ \A k \in 1 .. Len(path) : path'[k] = path[k]
      BY <1>2, <2>3, <3>1
    <3>4. c \in dirs /\ ~OnPath(c)
      BY <1>7, <1>15, <1>20, <2>3, <3>1
    <3>5. SlotIn(own, s, Cwd)
      BY <1>1, <1>5, <1>15 DEF CallerOK
    <3>6. PathOK(own, dirs)'
      <4> SUFFICES ASSUME NEW k \in 1 .. Len(path')
                   PROVE  /\ path'[k] \in dirs
                          /\ \A m \in 1 .. k - 1 : path'[m] # path'[k]
                          /\ \E t \in Slots : Refers(t, path[k])' /\ SlotIn(own, t, Above(k))'
        BY DEF PathOK
      <4>1. CASE k = Len(path) + 1
        <5>1. path'[k] = c /\ \A m \in 1 .. k - 1 : path'[m] # c
          BY <3>3, <3>4, <4>1 DEF OnPath
        <5>2. Above(k)' = Cwd
          <6>1. CASE path = <<>>
            BY <4>1, <6>1 DEF Above, Cwd
          <6>2. CASE path # <<>>
            <7>1. Len(path) \in 1 .. Len(path) /\ k # 1 /\ k - 1 = Len(path)
              BY <1>2, <4>1, <6>2
            <7> QED
              BY <3>3, <6>2, <7>1 DEF Above, Cwd
          <6> QED
            BY <6>1, <6>2
        <5>3. PICK g : g = Cwd
          OBVIOUS
        <5>4. SlotIn(own, s, g)' /\ Refers(s, c)'
          BY <1>1, <1>5, <1>7, <3>1, <3>2, <3>5, <5>3 DEF SlotIn, Alive
        <5>5. Refers(s, path[k])' /\ SlotIn(own, s, Above(k))'
          BY <5>1, <5>2, <5>3, <5>4
        <5> QED
          BY <1>5, <3>4, <5>1, <5>5
      <4>2. CASE k \in 1 .. Len(path)
        <5>1. path'[k] = path[k] /\ Above(k)' = Above(k)
          BY <3>3, <4>2 DEF Above
        <5>2. /\ path[k] \in dirs
              /\ \A m \in 1 .. k - 1 : path[m] # path[k] /\ path'[m] = path[m]
          BY <1>1, <3>3, <4>2 DEF DiskOwned, PathOK
        <5>3. PICK t \in Slots : Refers(t, path[k]) /\ SlotIn(own, t, Above(k))
          BY <1>1, <4>2 DEF DiskOwned, PathOK
        <5>4. PICK h, g : h = path[k] /\ g = Above(k)
          OBVIOUS
        <5>5. h \in Clusters
          BY <1>1, <5>2, <5>4
        <5>6. Refers(t, h)'
          BY <3>2, <5>3, <5>4, <5>5
        <5>7. SlotIn(own, t, g)'
          BY <1>1, <5>3, <5>4 DEF SlotIn, Alive
        <5>8. Refers(t, path[k])' /\ SlotIn(own, t, Above(k))'
          BY <5>1, <5>4, <5>6, <5>7
        <5> QED
          BY <5>1, <5>2, <5>8
      <4> QED
        BY <3>3, <4>1, <4>2
    <3>7. LinksOwned(own)' /\ PlainCells'
      BY <1>1, <1>9 DEF DiskOwned, LinksOwned
    <3>8. EntriesOwn(own, dirs)'
      BY <1>1, <1>8, <3>2 DEF DiskOwned, EntriesOwn
    <3> QED
      BY <2>1, <3>6, <3>7, <3>8, ReturnOwned DEF Owned, DiskOwned
  <2> QED
    BY <2>1, <2>2, <2>3
<1> QED
  BY <1>2, <1>12, <1>13, <1>14, <1>15 DEF JobType, Ops

(* A slot that the scan takes for free                                     *)
LEMMA FreeSlotOwned ==
    ASSUME NEW own, NEW dirs, Before(own, dirs), pc = "scan", ~Exhausted, NEW k \in Nat,
           NEW s \in Slots, FreeSlotBefore(k, s)
    PROVE  SlotIn(own, s, job.dir) /\ CellAt(s).first = 0
<1>1. CASE s = job.free
  <2>1. s # NoSlot
    BY Fat16Assumption DEF Slots, NoSlot, Lbas
  <2> QED
    BY <1>1, <2>1 DEF Before, Owned, CallOwns, ScanOK
<1>2. CASE s.lba = ScanLba /\ s.idx \in Cells /\ Gone(s.idx)
  <2>1. s = [lba |-> ScanLba, idx |-> s.idx]
    BY <1>2 DEF Slots
  <2>2. SlotIn(own, s, job.dir)
    BY <1>2, <2>1, ScanSlot
  <2>3. CellAt(s).kind = "deleted"
    BY <1>2 DEF Gone, CellAt
  <2> QED
    BY <2>2, <2>3 DEF Before, Owned, DiskOwned, PlainCells, PlainCell
<1> QED
  BY <1>1, <1>2 DEF FreeSlotBefore

(* The scan goes on, or ends without the name.                             *)
LEMMA ScanOnOwned ==
    ASSUME NEW own, NEW dirs, Before(own, dirs),
           \/ ScanEndMarker \/ ScanNextSector \/ ScanLosesTrack
           \/ ScanExhausted \/ ScanReadError
    PROVE  Owned(own, dirs)'
<1>1. /\ pc = "scan" /\ UNCHANGED <<fat, sec, path>>
      /\ TypeOK /\ LinkedOnce /\ DiskOwned(own, dirs) /\ CallerOK /\ ScanOK(own)
      /\ own \in Owners /\ dirs \in SUBSET Clusters
  BY DEF ScanEndMarker, ScanNextSector, ScanLosesTrack, ScanOn, ScanExhausted, ScanReadError, disk,
         Before, TypeInv, Owned, CallOwns
<1>2. /\ job \in JobType /\ ~job.freed /\ job.first = 0 /\ job.last = 0 /\ job.op # "none"
      /\ job.dir # 0 => job.csec # 0 /\ job.cur \in Answers
  BY <1>1 DEF Before, TypeInv, TypeOK, JobOK
<1>3. ASSUME ~job'.freed PROVE DiskOwned(own, dirs)'
  <2>1. \A t \in Slots, c \in Clusters : Refers(t, c)' <=> Refers(t, c)
    BY <1>1, <1>2, <1>3, RefsSame
  <2>2. PlainCells' /\ \A t \in Slots : CellAt(t)' = CellAt(t)
    BY <1>1 DEF DiskOwned, PlainCells, CellAt
  <2> QED
    BY <1>1, <2>1, <2>2, SameOwned DEF RefsKept
<1>4. \A s, d : SlotIn(own, s, d) => SlotIn(own, s, d)'
  BY <1>1 DEF SlotIn, Alive
<1>5. \A s : CellAt(s)' = CellAt(s)
  BY <1>1 DEF CellAt
<1>6. CASE ScanEndMarker
  <2>1. PICK i \in Cells, s0 \in Slots \cup {NoSlot} :
           /\ sec[ScanLba][i].kind = "end" /\ FreeSlotBefore(i, s0)
           /\ NotFound(IF s0 = NoSlot THEN [lba |-> ScanLba, idx |-> i] ELSE s0, job)
    BY <1>6 DEF ScanEndMarker
  <2>2. PICK s : s = IF s0 = NoSlot THEN [lba |-> ScanLba, idx |-> i] ELSE s0
    OBVIOUS
  <2>3. ~Exhausted /\ i \in Nat
    BY <1>6 DEF ScanEndMarker, Cells
  <2>4. s \in Slots /\ SlotIn(own, s, job.dir) /\ CellAt(s).first = 0
    <3>1. CASE s0 = NoSlot
      <4>1. s \in Slots /\ SlotIn(own, s, job.dir)
        BY <1>1, <2>2, <2>3, <3>1, ScanSlot
      <4>2. CellAt(s).kind = "end"
        BY <2>1, <2>2, <3>1 DEF CellAt
      <4> QED
        BY <1>1, <4>1, <4>2 DEF DiskOwned, PlainCells, PlainCell
    <3>2. CASE s0 # NoSlot
      BY <1>1, <2>1, <2>2, <2>3, <3>2, FreeSlotOwned
    <3> QED
      BY <3>1, <3>2
  <2>5. NotFound(s, job)
    BY <2>1, <2>2
  <2>6. PICK j \in JobType : j = job
    BY <1>2
  <2>7. Calls(j)
    BY <1>1, <2>6 DEF Calls, CallerOK, Cwd
  <2>8. CallOwns(own, dirs)'
    <3>1. SlotIn(own, s, j.dir)' /\ CellAt(s)'.first = 0
      BY <1>4, <1>5, <2>4, <2>6
    <3> QED
      BY <1>2, <2>4, <2>5, <2>6, <2>7, <3>1, NotFoundOwned
  <2>9. ~job'.freed
    BY <1>2, <2>4, <2>5, NotFoundKeeps
  <2> QED
    BY <1>3, <2>8, <2>9 DEF Owned
<1>7. CASE ScanNextSector \/ ScanLosesTrack
  <2>0. PICK next : /\ ScanOn(next)
                    /\ job.dir # 0 => next \in {fat[1][job.cur], BAD}
    BY <1>7 DEF ScanNextSector, ScanLosesTrack, NextSector, fat_read_entry
  <2>1. PICK s \in Slots \cup {NoSlot} :
          /\ FreeSlotBefore(PerSector + 1, s)
          /\ Goto("scan", [job EXCEPT !.free = s, !.csec = IF job.dir = 0 THEN 0 ELSE job.cur,
                                      !.cur = next])
    BY <2>0 DEF ScanOn
  <2>2. /\ pc' = "scan" /\ job'.free = s /\ job'.freed = job.freed /\ job'.op = job.op
        /\ job'.dir = job.dir /\ job'.cur = next
        /\ job.dir # 0 => job'.csec = job.cur
    BY <1>2, <2>1 DEF Goto, JobType
  <2>3. ~Exhausted /\ PerSector + 1 \in Nat
    <3>1. ~Exhausted
      BY <2>0 DEF ScanOn
    <3> QED
      BY <3>1, Fat16Assumption
  <2>4. ScanOK(own)'
    <3>1. ASSUME job.dir # 0
          PROVE  \A c \in {job'.cur, job'.csec} : c \in Clusters => Alive(own, c, job.dir)
      <4>1. job.cur \in Clusters
        BY <1>2, <2>3, <3>1, AnswerIsCluster DEF Exhausted
      <4>2. Alive(own, job.cur, job.dir)
        BY <1>1, <3>1, <4>1 DEF ScanOK
      <4>3. job'.cur = fat[1][job.cur] \/ job'.cur \notin Clusters
        BY <2>0, <2>2, <3>1, NoClusters
      <4>4. job'.cur \in Clusters => own[job'.cur] = own[job.cur] /\ fat[1][job'.cur] # FREE
        BY <1>1, <4>1, <4>3 DEF DiskOwned, LinksOwned, LinkedOnce
      <4> QED
        BY <2>2, <3>1, <4>2, <4>4 DEF Alive
    <3>2. s # NoSlot => SlotIn(own, s, job.dir) /\ CellAt(s).first = 0
      BY <1>1, <2>1, <2>3, FreeSlotOwned
    <3>3. job'.dir # 0 => \A c \in {job'.cur, job'.csec} : c \in Clusters => own[c] = job'.dir /\ fat'[1][c] # FREE
      BY <1>1, <2>2, <3>1 DEF Alive
    <3>4. PICK d : d = job.dir
      OBVIOUS
    <3>5. s # NoSlot => SlotIn(own, s, d)' /\ CellAt(s)'.first = 0
      BY <1>4, <1>5, <3>2, <3>4
    <3> QED
      BY <2>2, <3>3, <3>4, <3>5 DEF ScanOK, Alive
  <2>5. CallerOK'
    BY <1>1, <2>2 DEF CallerOK, Cwd
  <2> QED
    BY <1>2, <1>3, <2>2, <2>4, <2>5
       DEF Owned, CallOwns, GrowOK, SlotOK, HasSlot, LinkOK, FileOK, NewDirOK, EntryOK, FreeOK
<1>8. CASE ScanExhausted \/ ScanReadError
  <2>1. RanOffTheEnd
    BY <1>8 DEF ScanExhausted, ScanReadError
  <2>2. CASE job.op = "cd" \/ job.dir = 0
    <3>1. pc' = "idle" /\ ~job'.freed
      BY <2>1, <2>2 DEF RanOffTheEnd, Return, NoJob, NewJob
    <3> QED
      BY <1>3, <3>1, ReturnOwned DEF Owned
  <2>3. CASE ~(job.op = "cd" \/ job.dir = 0)
    <3>1. Goto("eoc", [job EXCEPT !.why = "slot", !.last = job.csec])
      BY <2>1, <2>3 DEF RanOffTheEnd
    <3>2. /\ pc' = "eoc" /\ job'.why = "slot" /\ job'.last = job.csec /\ job'.freed = job.freed
          /\ job'.op = job.op /\ job'.dir = job.dir
      BY <1>2, <3>1 DEF Goto, JobType
    <3>3. Alive(own, job.csec, job.dir)
      BY <1>1, <1>2, <2>3 DEF ScanOK, JobType
    <3>4. GrowOK(own)'
      BY <1>1, <2>3, <3>2, <3>3 DEF GrowOK, Alive
    <3>5. CallerOK'
      BY <1>1, <3>2 DEF CallerOK, Cwd
    <3> QED
      BY <1>2, <1>3, <3>2, <3>4, <3>5
         DEF Owned, CallOwns, ScanOK, SlotOK, HasSlot, LinkOK, FileOK, NewDirOK, EntryOK, FreeOK
  <2> QED
    BY <2>2, <2>3
<1> QED
  BY <1>6, <1>7, <1>8

(* extend_cluster_chain has marked a free cluster.                         *)
Allocates(c) ==
    /\ pc = "eoc" /\ c \in Clusters /\ fat[1][c] = FREE /\ fat_write_entry(c, EOC, 2)
    /\ Goto(IF job.last >= 2 THEN "link" ELSE "zero", [job EXCEPT !.new = c])
    /\ UNCHANGED <<sec, path>>

(* The new cluster belongs to nobody's chain yet.                          *)
LEMMA AllocatesOwned ==
    ASSUME NEW own, NEW dirs, Before(own, dirs), NEW n, Allocates(n), NEW own2, NEW dirs2,
           own2 = AllocOwn(own, n), dirs2 = AllocDirs(dirs, n, job.why = "mkdir")
    PROVE  own2 \in Owners /\ dirs2 \in SUBSET Clusters /\ Owned(own2, dirs2)'
<1>1. /\ pc = "eoc" /\ n \in Clusters /\ fat[1][n] = FREE /\ UNCHANGED <<sec, path>>
      /\ TypeOK /\ LinkedOnce /\ DiskOwned(own, dirs) /\ CallOwns(own, dirs)
      /\ own \in Owners /\ dirs \in SUBSET Clusters
  BY DEF Allocates, Before, TypeInv, Owned
<1>2. job \in JobType /\ job.op # "none" /\ Held(job.first)
  BY <1>1 DEF Before, TypeInv, TypeOK, JobOK, InFlight
<1>3. /\ pc' = IF job.last >= 2 THEN "link" ELSE "zero"
      /\ job' = [job EXCEPT !.new = n]
  BY DEF Allocates, Goto
<1>4. PICK s, d, f, l : s = job.slot /\ d = job.dir /\ f = job.first /\ l = job.last
  OBVIOUS
<1>5. /\ job'.slot = s /\ job'.dir = d /\ job'.first = f /\ job'.last = l /\ job'.new = n
      /\ job'.why = job.why /\ job'.freed = job.freed /\ job'.op = job.op /\ job'.ent = job.ent
  BY <1>2, <1>3, <1>4 DEF JobType
<1>6. fat'[1] = [fat[1] EXCEPT ![n] = EOC]
  <2>1. EOC \in Links /\ 2 \in 0 .. 2 /\ fat_write_entry(n, EOC, 2)
    BY DEF Links, Allocates
  <2> QED
    BY <1>1, <2>1, FatWriteType
<1>7. \A t \in Slots, c \in Clusters : Refers(t, c)' <=> Refers(t, c)
  BY <1>1, <1>4, <1>5, RefsSame
<1>8. /\ DiskOwned(own2, dirs2)' /\ Kept(own, own2)
      /\ own2 \in Owners /\ dirs2 \in SUBSET Clusters
  <2>1. (job.why = "mkdir") \in BOOLEAN
    OBVIOUS
  <2> QED
    BY <1>1, <1>6, <1>7, <2>1, AllocOwned
<1>9. /\ \A x \in Clusters : own2[x] = IF x = n THEN n ELSE IF own[x] = n THEN 0 ELSE own[x]
      /\ \A x \in Clusters : fat'[1][x] = IF x = n THEN EOC ELSE fat[1][x]
      /\ EOC \notin Clusters /\ EOC # FREE /\ 0 \notin Clusters
  <2>1. \A x \in Clusters : own2[x] = IF x = n THEN n ELSE IF own[x] = n THEN 0 ELSE own[x]
    BY DEF AllocOwn
  <2>2. \A x \in Clusters : fat'[1][x] = IF x = n THEN EOC ELSE fat[1][x]
    BY <1>1, <1>6 DEF TypeOK
  <2> QED
    BY <2>1, <2>2, Fat16Assumption DEF EOC, FREE, Clusters
<1>10. CallerOK'
  BY <1>1, <1>4, <1>5 DEF CallOwns, CallerOK, Cwd
<1>11. /\ job.why = "slot" => l \in Clusters /\ d # 0 /\ pc' = "link"
       /\ job.why = "mkdir" => pc' = "zero"
  <2>1. l # 0 => l \in Clusters /\ l >= 2
    BY <1>2, <1>4 DEF JobType, Clusters
  <2>2. ~(0 >= 2)
    OBVIOUS
  <2>3. job.why = "slot" => l # 0 /\ d # 0
    BY <1>1, <1>4 DEF Before, TypeInv, JobOK, CallOwns, GrowOK
  <2>4. job.why = "mkdir" => l = 0
    BY <1>1, <1>4 DEF Before, TypeInv, JobOK
  <2> QED
    BY <1>3, <1>4, <2>1, <2>2, <2>3, <2>4
<1>12. GrowOK(own2)'
  <2>1. ASSUME job.why = "slot" PROVE Alive(own2, l, d)'
    <3>1. Alive(own, l, d)
      BY <1>1, <1>4, <2>1 DEF CallOwns, GrowOK
    <3>2. d \in Clusters /\ OnPath(d)
      BY <1>1, <1>4, <1>11, <2>1, DirOnPath DEF DiskOwned, CallOwns
    <3> QED
      BY <1>8, <1>11, <2>1, <3>1, <3>2 DEF Kept, Alive
  <2> QED
    BY <1>5, <1>11, <2>1 DEF GrowOK
<1>13. SlotOK(own2)'
  <2>1. CASE job.why = "slot"
    BY <1>3, <1>5, <2>1 DEF SlotOK, HasSlot
  <2>2. CASE job.why # "slot"
    <3>1. HasSlot /\ s \in Slots
      BY <1>1, <1>2, <1>4, <2>2 DEF HasSlot, Before, TypeInv, JobOK, JobType
    <3>2. SlotIn(own2, s, d)'
      BY <1>1, <1>4, <1>8, <3>1, SlotStays DEF CallOwns, SlotOK
    <3>3. \A c \in Clusters : ~Refers(s, c)'
      BY <1>1, <1>4, <1>7, <3>1 DEF CallOwns, SlotOK
    <3> QED
      BY <1>1, <1>5, <3>1, <3>2, <3>3 DEF CallOwns, SlotOK
  <2> QED
    BY <2>1, <2>2
<1>14. LinkOK(own2)'
  BY <1>1, <1>5, <1>9 DEF LinkOK
<1>15. FileOK(own2, dirs2)'
  <2>1. pc' # "data"
    BY <1>3
  <2>2. ASSUME job.why = "data", f # 0
        PROVE  own2[f] = f /\ f \notin dirs2 /\ Alive(own2, l, f)'
    <3>1. f \in Clusters /\ f # n /\ own[f] = f /\ f \notin dirs /\ Alive(own, l, f) /\ l \in Clusters
      <4>1. f \in Clusters /\ l \in Clusters
        BY <1>1, <1>2, <1>4, <2>2 DEF JobType, Before, TypeInv, JobOK
      <4>2. f # n
        BY <1>1, <1>2, <1>4, <4>1 DEF Held
      <4> QED
        BY <1>1, <1>4, <2>2, <4>1, <4>2 DEF CallOwns, FileOK
    <3>2. f \notin dirs2
      BY <2>2, <3>1 DEF AllocDirs
    <3>3. l # n
      BY <1>1, <3>1 DEF Alive
    <3> QED
      BY <1>9, <3>1, <3>2, <3>3 DEF Alive
  <2>3. ASSUME pc' = "zero", job.why = "data"
        PROVE  f = 0 /\ own2[n] = n /\ n \notin dirs2
    <3>1. l = 0
      BY <1>2, <1>3, <1>4, <2>3 DEF JobType, Clusters
    <3>2. f = 0
      BY <1>1, <1>4, <2>3, <3>1 DEF Before, TypeInv, JobOK
    <3>3. n \notin dirs2
      BY <2>3 DEF AllocDirs
    <3> QED
      BY <1>1, <1>9, <3>2, <3>3
  <2> QED
    BY <1>5, <2>1, <2>2, <2>3 DEF FileOK
<1>16. NewDirOK(own2, dirs2)'
  <2>1. job.why = "mkdir" => job.ent.dir = TRUE
    BY <1>1 DEF CallOwns, NewDirOK
  <2>2. job.why = "mkdir" => n \in dirs2
    BY DEF AllocDirs
  <2>3. \A x \in Clusters : own2[x] = n <=> x = n
    BY <1>1, <1>9
  <2> QED
    BY <1>5, <2>1, <2>2, <2>3 DEF NewDirOK
<1> QED
  BY <1>3, <1>8, <1>10, <1>12, <1>13, <1>14, <1>15, <1>16
     DEF Owned, CallOwns, ScanOK, EntryOK, FreeOK

(* It has linked the cluster to the end of the chain.                      *)
LEMMA LinksOwnedStep ==
    ASSUME NEW own, NEW dirs, Before(own, dirs), pc = "link", fat_write_entry(job.last, job.new, 2),
           Goto("zero", job), UNCHANGED <<sec, path>>,
           NEW own2, own2 = [own EXCEPT ![job.new] = own[job.last]]
    PROVE  own2 \in Owners /\ Owned(own2, dirs)'
<1>1. /\ TypeOK /\ LinkedOnce /\ DiskOwned(own, dirs) /\ CallOwns(own, dirs)
      /\ own \in Owners /\ dirs \in SUBSET Clusters /\ pc' = "zero" /\ job' = job
  BY DEF Before, TypeInv, Owned, Goto
<1>2. PICK s, d, f, l, n :
         s = job.slot /\ d = job.dir /\ f = job.first /\ l = job.last /\ n = job.new
  OBVIOUS
<1>3. /\ job \in JobType /\ l \in Clusters /\ n \in Clusters /\ Held(n) /\ n # f /\ job.op # "none"
      /\ job.why \in {"slot", "data"}
  BY <1>2 DEF Before, TypeInv, TypeOK, JobOK, JobType, InFlight
<1>4. fat'[1] = [fat[1] EXCEPT ![l] = n]
  <2>1. n \in Links /\ 2 \in 0 .. 2 /\ fat_write_entry(l, n, 2)
    BY <1>2, <1>3 DEF Links
  <2> QED
    BY <1>1, <1>3, <2>1, FatWriteType
<1>5. \A t \in Slots, c \in Clusters : Refers(t, c)' <=> Refers(t, c)
  BY <1>1, RefsSame
<1>6. own[n] = n /\ fat[1][n] \notin Clusters /\ own2 = [own EXCEPT ![n] = own[l]]
  BY <1>1, <1>2 DEF CallOwns, LinkOK
<1>7. DiskOwned(own2, dirs)' /\ Kept(own, own2) /\ own2 \in Owners
  BY <1>1, <1>3, <1>4, <1>5, <1>6, LinkOwned
<1>8. /\ \A x \in Clusters : own2[x] = IF x = n THEN own[l] ELSE own[x]
      /\ \A x \in Clusters : fat'[1][x] = IF x = l THEN n ELSE fat[1][x]
      /\ 0 \notin Clusters /\ n # FREE /\ fat[1][n] # FREE
  <2>1. \A x \in Clusters : own2[x] = IF x = n THEN own[l] ELSE own[x]
    BY <1>1, <1>3, <1>6 DEF Owners
  <2>2. \A x \in Clusters : fat'[1][x] = IF x = l THEN n ELSE fat[1][x]
    BY <1>1, <1>3, <1>4 DEF TypeOK
  <2> QED
    BY <1>3, <2>1, <2>2 DEF FREE, Clusters, Held
<1>9. CallerOK'
  BY <1>1 DEF CallOwns, CallerOK, Cwd
<1>10. GrowOK(own2)'
  <2>1. ASSUME job.why = "slot" PROVE d # 0 /\ Alive(own2, l, d)' /\ Alive(own2, n, d)'
    <3>1. d # 0 /\ Alive(own, l, d)
      BY <1>1, <1>2, <2>1 DEF CallOwns, GrowOK
    <3>2. d \in Clusters /\ OnPath(d)
      BY <1>1, <1>2, <3>1, DirOnPath DEF DiskOwned, CallOwns
    <3>3. Alive(own2, l, d)'
      BY <1>3, <1>7, <3>1, <3>2 DEF Kept, Alive
    <3>4. Alive(own2, n, d)'
      BY <1>3, <1>8, <3>1 DEF Alive
    <3> QED
      BY <3>1, <3>3, <3>4
  <2> QED
    BY <1>1, <1>2, <2>1 DEF GrowOK
<1>11. SlotOK(own2)'
  <2>1. CASE job.why = "slot"
    BY <1>1, <2>1 DEF SlotOK, HasSlot
  <2>2. CASE job.why # "slot"
    <3>1. HasSlot /\ s \in Slots
      BY <1>2, <1>3, <2>2 DEF HasSlot, Before, TypeInv, JobOK, JobType
    <3>2. SlotIn(own2, s, d)'
      BY <1>1, <1>2, <1>7, <3>1, SlotStays DEF CallOwns, SlotOK
    <3>3. \A c \in Clusters : ~Refers(s, c)'
      BY <1>1, <1>2, <1>5, <3>1 DEF CallOwns, SlotOK
    <3> QED
      BY <1>1, <1>2, <3>1, <3>2, <3>3 DEF CallOwns, SlotOK
  <2> QED
    BY <2>1, <2>2
<1>12. FileOK(own2, dirs)'
  <2>1. ASSUME job.why = "data"
        PROVE  f # 0 /\ own2[f] = f /\ f \notin dirs /\ Alive(own2, l, f)' /\ Alive(own2, n, f)'
    <3>1. f # 0 /\ f \in Clusters
      BY <1>2, <1>3, <1>8, <2>1 DEF Before, TypeInv, JobOK, JobType
    <3>2. own[f] = f /\ f \notin dirs /\ Alive(own, l, f)
      BY <1>1, <1>2, <2>1, <3>1 DEF CallOwns, FileOK
    <3>3. own2[f] = f
      BY <1>3, <1>8, <3>1, <3>2
    <3>4. l # n
      BY <1>3, <1>6, <3>2 DEF Alive
    <3>5. Alive(own2, l, f)'
      BY <1>3, <1>8, <3>2, <3>4 DEF Alive
    <3>6. Alive(own2, n, f)'
      BY <1>3, <1>8, <3>2, <3>4 DEF Alive
    <3> QED
      BY <3>1, <3>2, <3>3, <3>5, <3>6
  <2> QED
    BY <1>1, <1>2, <2>1 DEF FileOK
<1> QED
  BY <1>1, <1>3, <1>7, <1>9, <1>10, <1>11, <1>12
     DEF Owned, CallOwns, ScanOK, LinkOK, NewDirOK, EntryOK, FreeOK

(* A whole sector of a cluster is written, with no entry in it; no         *)
(* directory on the path lies in that cluster.                             *)
LEMMA OverwriteOwned ==
    ASSUME TypeInv, NEW own \in Owners, NEW dirs \in SUBSET Clusters, DiskOwned(own, dirs),
           NEW z \in [Cells -> CellType], \A i \in Cells : z[i].first = 0 /\ z[i].kind # "entry",
           NEW n \in Clusters, n = job.new, fat' = fat, path' = path,
           sec' = [sec EXCEPT ![cluster_to_lba(n)] = z],
           (~job.freed /\ ~job'.freed) \/ (job'.freed = job.freed /\ job'.slot = job.slot),
           \A k \in 1 .. Len(path) : ~Alive(own, n, Above(k)) \/ Above(k) = 0, LinkedOnce
    PROVE  DiskOwned(own, dirs)' /\ Kept(own, own) /\ Quiet
<1>1. \A s \in Slots : CellAt(s)' = IF s.lba = cluster_to_lba(n) THEN z[s.idx] ELSE CellAt(s)
  <2>1. cluster_to_lba(n) \in Lbas /\ sec \in [Lbas -> [Cells -> CellType]]
    BY ClusterLba DEF TypeInv, TypeOK
  <2> QED
    BY <2>1 DEF CellAt, Slots
<1>2. Quiet
  BY OverwriteQuiet
<1>3. PlainCells'
  <2> SUFFICES ASSUME NEW s \in Slots PROVE PlainCell(CellAt(s))'
    BY DEF PlainCells
  <2>1. s.idx \in Cells
    BY DEF Slots
  <2> QED
    BY <1>1, <2>1 DEF PlainCell, DiskOwned, PlainCells
<1>4. RefsKept
  <2> SUFFICES ASSUME NEW s \in Slots, NEW h \in Clusters, OnPath(h), Refers(s, h) PROVE Refers(s, h)'
    BY DEF RefsKept
  <2>1. PICK k \in 1 .. Len(path) : path[k] = h
    BY DEF OnPath
  <2>2. PICK t \in Slots : Refers(t, h) /\ SlotIn(own, t, Above(k))
    BY <2>1 DEF DiskOwned, PathOK
  <2>3. t = s
    BY <2>2 DEF LinkedOnce
  <2>4. s.lba # cluster_to_lba(n)
    <3>1. CASE Above(k) = 0
      BY <2>2, <2>3, <3>1, Fat16Assumption DEF SlotIn, cluster_to_lba, Clusters
    <3>2. CASE Above(k) # 0
      <4>1. PICK c \in Clusters : s.lba = cluster_to_lba(c) /\ Alive(own, c, Above(k))
        BY <2>2, <2>3, <3>2 DEF SlotIn
      <4>2. c # n
        BY <3>2, <4>1
      <4> QED
        BY <4>1, <4>2, Fat16Assumption DEF cluster_to_lba, Clusters
    <3> QED
      BY <3>1, <3>2
  <2>5. CellAt(s)' = CellAt(s)
    BY <1>1, <2>4
  <2> QED
    BY <2>5 DEF Refers
<1>5. \A s \in Slots, c \in Clusters : Refers(s, c)' => Refers(s, c) /\ CellAt(s)'.dir = CellAt(s).dir
  <2> SUFFICES ASSUME NEW s \in Slots, NEW c \in Clusters, Refers(s, c)'
               PROVE  Refers(s, c) /\ CellAt(s)' = CellAt(s)
    OBVIOUS
  <2>1. CellAt(s)'.first = c /\ c # 0 /\ s.idx \in Cells
    BY DEF Refers, Clusters, Slots
  <2>2. CellAt(s)' = CellAt(s)
    BY <1>1, <2>1
  <2> QED
    BY <1>2, <2>2 DEF Quiet
<1> QED
  BY <1>2, <1>3, <1>4, <1>5, SameOwned

(* No directory on the path lies in the cluster a call is about to fill.   *)
LEMMA NewNotAbove ==
    ASSUME NEW own, NEW dirs, Before(own, dirs), pc \in {"zero", "data"},
           NEW k \in 1 .. Len(path), Above(k) # 0
    PROVE  ~Alive(own, job.new, Above(k))
<1> SUFFICES ASSUME Alive(own, job.new, Above(k)) PROVE FALSE
  OBVIOUS
<1>1. /\ TypeOK /\ DiskOwned(own, dirs) /\ CallOwns(own, dirs) /\ dirs \in SUBSET Clusters
      /\ path \in Seq(Clusters \cup {0}) /\ job \in JobType /\ job.new \in Clusters
  BY DEF Before, TypeInv, TypeOK, Owned, JobOK, JobType
<1>2. k - 1 \in 1 .. Len(path) - 1 /\ Above(k) = path[k - 1] /\ Len(path) \in 1 .. Len(path)
  BY <1>1 DEF Above
<1>3. OnPath(Above(k))
  BY <1>1, <1>2 DEF OnPath
<1>4. PICK h \in Clusters : h = Above(k) /\ \E s \in Slots : Refers(s, h)
  BY <1>1, <1>3, PathReferred DEF DiskOwned
<1>5. own[job.new] = h
  BY <1>4 DEF Alive
<1>6. CASE pc = "zero" /\ job.why = "slot"
  <2>1. job.dir # 0 /\ own[job.new] = job.dir
    BY <1>1, <1>6 DEF CallOwns, GrowOK, Alive
  <2>2. job.dir = path[Len(path)]
    BY <1>1, <1>6, <2>1 DEF CallOwns, CallerOK, Cwd
  <2>3. path[k - 1] = path[Len(path)]
    BY <1>2, <1>4, <1>5, <2>1, <2>2
  <2> QED
    BY <1>1, <1>2, <2>3 DEF DiskOwned, PathOK
<1>7. CASE ~(pc = "zero" /\ job.why = "slot")
  <2>1. PICK x : x = h /\ Held(x)
    <3>1. CASE pc = "data"
      BY <1>1, <1>5, <3>1 DEF Before, InFlight, CallOwns, FileOK, Alive
    <3>2. CASE pc = "zero" /\ job.why = "mkdir"
      <4>1. job.last = 0
        BY <3>2 DEF Before, TypeInv, JobOK
      <4>2. own[job.new] = job.new
        BY <1>1, <3>2 DEF CallOwns, NewDirOK
      <4> QED
        BY <1>5, <3>2, <4>1, <4>2 DEF Before, InFlight
    <3>3. CASE pc = "zero" /\ job.why = "data" /\ job.first = 0
      <4>1. job.last = 0
        BY <3>3 DEF Before, TypeInv, JobOK
      <4>2. own[job.new] = job.new
        BY <1>1, <3>3 DEF CallOwns, FileOK
      <4> QED
        BY <1>5, <3>3, <4>1, <4>2 DEF Before, InFlight
    <3>4. CASE pc = "zero" /\ job.why = "data" /\ job.first # 0
      BY <1>1, <1>5, <3>4 DEF Before, InFlight, CallOwns, FileOK, Alive
    <3> QED
      BY <1>7, <3>1, <3>2, <3>3, <3>4 DEF Before, TypeInv, JobOK
  <2> QED
    BY <1>4, <2>1 DEF Held, NoRef
<1> QED
  BY <1>6, <1>7

(* It has filled the cluster with zeros.                                   *)
LEMMA ZeroOwned ==
    ASSUME NEW own, NEW dirs, Before(own, dirs), pc = "zero", Extended, UNCHANGED <<fat, path>>,
           sec' = [sec EXCEPT ![cluster_to_lba(job.new)] = ZeroSector]
    PROVE  Owned(own, dirs)'
<1>1. /\ TypeInv /\ TypeOK /\ LinkedOnce /\ DiskOwned(own, dirs) /\ CallOwns(own, dirs)
      /\ own \in Owners /\ dirs \in SUBSET Clusters
  BY DEF Before, TypeInv, Owned
<1>2. PICK s, d, f, n : s = job.slot /\ d = job.dir /\ f = job.first /\ n = job.new
  OBVIOUS
<1>3. job \in JobType /\ n \in Clusters /\ job.op # "none" /\ n # 0
  BY <1>2 DEF Before, TypeInv, TypeOK, JobOK, JobType
<1>4. ASSUME (~job.freed /\ ~job'.freed) \/ (job'.freed = job.freed /\ job'.slot = job.slot)
      PROVE  DiskOwned(own, dirs)' /\ Kept(own, own) /\ Quiet
  <2>1. ZeroSector \in [Cells -> CellType] /\ \A i \in Cells : ZeroSector[i].first = 0 /\ ZeroSector[i].kind # "entry"
    BY <1>1, SectorTypes DEF ZeroSector, Blank
  <2>2. \A k \in 1 .. Len(path) : ~Alive(own, n, Above(k)) \/ Above(k) = 0
    BY <1>2, NewNotAbove
  <2>3. sec' = [sec EXCEPT ![cluster_to_lba(n)] = ZeroSector]
    BY <1>2
  <2>4. PICK z : z = ZeroSector
    OBVIOUS
  <2> QED
    BY <1>1, <1>2, <1>3, <1>4, <2>1, <2>2, <2>3, <2>4, OverwriteOwned
<1>5. CASE job.why = "slot"
  <2> DEFINE t == [lba |-> cluster_to_lba(n), idx |-> 1]
             j == [job EXCEPT !.last = 0]
  <2>1. NotFound(t, j)
    BY <1>2, <1>5 DEF Extended
  <2>2. t \in Slots
    BY <1>3, ClusterLba, Fat16Assumption DEF Slots, Cells
  <2>3. ~job.freed /\ job.first = 0
    BY <1>5 DEF Before, TypeInv, JobOK
  <2>4. /\ j \in JobType /\ j.op = job.op /\ j.first = 0 /\ j.last = 0 /\ j.freed = job.freed
        /\ j.dir = d
    BY <1>2, <1>3, <2>3 DEF JobType
  <2>5. CellAt(t)'.first = 0
    <3>1. sec'[cluster_to_lba(n)] = ZeroSector
      BY <1>2, <1>3, ClusterLba DEF Before, TypeInv, TypeOK
    <3>2. ZeroSector[1].first = 0
      BY Fat16Assumption DEF ZeroSector, Blank, Cells
    <3> QED
      BY <3>1, <3>2 DEF CellAt
  <2>6. SlotIn(own, t, d)'
    <3>1. d # 0 /\ Alive(own, n, d)
      BY <1>1, <1>2, <1>5 DEF CallOwns, GrowOK
    <3>2. Alive(own, n, d)'
      BY <3>1 DEF Alive
    <3> QED
      BY <1>3, <3>1, <3>2 DEF SlotIn
  <2> HIDE DEF t, j
  <2>7. Calls(j)
    BY <1>1, <1>2, <2>4 DEF Calls, CallOwns, CallerOK, Cwd
  <2>8. ~job'.freed
    BY <1>3, <2>1, <2>2, <2>3, <2>4, NotFoundKeeps
  <2>9. CallOwns(own, dirs)'
    BY <1>3, <2>1, <2>2, <2>3, <2>4, <2>5, <2>6, <2>7, NotFoundOwned
  <2> QED
    BY <1>4, <2>3, <2>8, <2>9 DEF Owned
<1>6. ASSUME job.why # "slot", job'.freed = job.freed, job'.slot = s, job'.dir = d, job'.op = job.op,
             job'.ent.kind = job.ent.kind, job'.ent.dir = job.ent.dir, pc' # "idle"
      PROVE  DiskOwned(own, dirs)' /\ SlotOK(own)' /\ CallerOK'
  <2>1. DiskOwned(own, dirs)' /\ Kept(own, own) /\ Quiet
    BY <1>2, <1>4, <1>6
  <2>2. HasSlot /\ s \in Slots
    BY <1>2, <1>3, <1>6 DEF HasSlot, Before, TypeInv, JobOK, JobType
  <2>3. SlotIn(own, s, d)'
    BY <1>1, <1>2, <2>1, <2>2, SlotStays DEF CallOwns, SlotOK
  <2>4. \A c \in Clusters : ~Refers(s, c)'
    BY <1>1, <1>2, <2>1, <2>2 DEF CallOwns, SlotOK, Quiet
  <2>5. SlotOK(own)'
    BY <1>1, <1>6, <2>2, <2>3, <2>4 DEF CallOwns, SlotOK
  <2>6. CallerOK'
    BY <1>1, <1>2, <1>6 DEF CallOwns, CallerOK, Cwd
  <2> QED
    BY <2>1, <2>5, <2>6
<1>7. CASE job.why = "mkdir"
  <2> DEFINE e == Placed(job.ent, n, 0)
  <2>1. e.first = n /\ e.kind = job.ent.kind /\ e.dir = job.ent.dir
    BY <1>3 DEF Placed, JobType, CellType
  <2>2. Goto("dirent", [job EXCEPT !.ent = e])
    BY <1>2, <1>7 DEF Extended
  <2> HIDE DEF e
  <2>3. /\ pc' = "dirent" /\ job'.ent = e /\ job'.freed = job.freed /\ job'.slot = s /\ job'.dir = d
        /\ job'.op = job.op
    BY <1>2, <1>3, <2>2 DEF Goto, JobType
  <2>4. DiskOwned(own, dirs)' /\ SlotOK(own)' /\ CallerOK'
    BY <1>6, <1>7, <2>1, <2>3
  <2>5. job.ent.dir = TRUE /\ n \in dirs /\ own[n] = n
    BY <1>1, <1>2, <1>3, <1>7 DEF CallOwns, NewDirOK
  <2>6. job.ent.kind = "entry"
    BY <1>1, <1>7 DEF CallOwns, SlotOK, HasSlot
  <2>7. EntryOK(own, dirs)'
    BY <1>3, <2>1, <2>3, <2>5, <2>6 DEF EntryOK, PlainCell
  <2> QED
    BY <2>3, <2>4, <2>7 DEF Owned, CallOwns, ScanOK, GrowOK, LinkOK, FileOK, NewDirOK, FreeOK
<1>8. CASE job.why = "data"
  <2> DEFINE g == IF f = 0 THEN n ELSE f
  <2>1. Goto("data", [job EXCEPT !.last = n, !.first = g])
    BY <1>2, <1>3, <1>8 DEF Extended, JobType
  <2>2. own[g] = g /\ g \notin dirs /\ Alive(own, n, g)
    <3>1. CASE f = 0
      <4>1. own[n] = n /\ n \notin dirs
        BY <1>1, <1>2, <1>8, <3>1 DEF CallOwns, FileOK
      <4>2. Held(n)
        <5>1. job.last = 0
          BY <1>2, <1>8, <3>1 DEF Before, TypeInv, JobOK
        <5> QED
          BY <1>2, <5>1 DEF Before, InFlight
      <4> QED
        BY <1>3, <3>1, <4>1, <4>2 DEF Alive, Held
    <3>2. CASE f # 0
      BY <1>1, <1>2, <1>8, <3>2 DEF CallOwns, FileOK
    <3> QED
      BY <3>1, <3>2
  <2> HIDE DEF g
  <2>3. /\ pc' = "data" /\ job'.ent = job.ent /\ job'.freed = job.freed /\ job'.slot = s /\ job'.dir = d
        /\ job'.op = job.op /\ job'.first = g /\ job'.last = n /\ job'.new = n /\ job'.why = job.why
    BY <1>2, <1>3, <2>1 DEF Goto, JobType
  <2>4. DiskOwned(own, dirs)' /\ SlotOK(own)' /\ CallerOK'
    BY <1>6, <1>8, <2>3
  <2>5. FileOK(own, dirs)'
    <3>1. Alive(own, n, g)'
      BY <2>2 DEF Alive
    <3> QED
      BY <1>8, <2>2, <2>3, <3>1 DEF FileOK
  <2> QED
    BY <2>3, <2>4, <2>5 DEF Owned, CallOwns, ScanOK, GrowOK, LinkOK, NewDirOK, EntryOK, FreeOK
<1> QED
  BY <1>1, <1>5, <1>7, <1>8 DEF TypeInv, JobOK

(* It has failed, whichever of its writes did.                             *)
LEMMA ExtendFailsOwned ==
    ASSUME NEW own, NEW dirs, Before(own, dirs), Calm', NEW h, ExtendFailed(h), UNCHANGED <<sec, path>>,
           \/ pc \in {"eoc", "zero"} /\ fat'[1] = fat[1]
           \/ pc = "link" /\ fat'[1] = fat[1]
           \/ pc = "eoc" /\ \E c \in Clusters : fat[1][c] = FREE /\ fat'[1] = [fat[1] EXCEPT ![c] = EOC]
           \/ pc = "link" /\ fat'[1] = [fat[1] EXCEPT ![job.last] = job.new]
    PROVE  \E own2 \in Owners, dirs2 \in SUBSET Clusters : Owned(own2, dirs2)'
<1>1. /\ TypeInv /\ TypeOK /\ LinkedOnce /\ InFlight /\ DiskOwned(own, dirs) /\ CallOwns(own, dirs)
      /\ own \in Owners /\ dirs \in SUBSET Clusters /\ pc \in {"eoc", "link", "zero"}
  BY DEF Before, TypeInv, Owned
<1>2. \A t \in Slots, c \in Clusters : Refers(t, c)' <=> Refers(t, c)
  <2>1. (~job.freed /\ ~job'.freed) \/ (job'.freed = job.freed /\ job'.slot = job.slot)
    <3>1. CASE job.why = "data" /\ job.first # 0
      <4>1. job' = [job EXCEPT !.why = "undo", !.cur = job.first]
        BY <3>1 DEF ExtendFailed, Goto
      <4> QED
        BY <1>1, <4>1 DEF TypeOK, JobType
    <3>2. CASE ~(job.why = "data" /\ job.first # 0)
      <4>1. job' = NoJob /\ harm' = harm \cup (h \cup TornIf(job.freed))
        BY <3>2 DEF ExtendFailed, Return, Harm
      <4> QED
        BY <4>1 DEF Calm, TornIf, NoJob, NewJob
    <3> QED
      BY <3>1, <3>2
  <2> QED
    BY <2>1, RefsSame
<1>3. job.why = "data" /\ job.first # 0 =>
         /\ job.first \in Clusters /\ Held(job.first)
         /\ own[job.first] = job.first /\ job.first \notin dirs
  BY <1>1 DEF CallOwns, FileOK, InFlight, TypeOK, JobType
<1>4. CASE fat'[1] = fat[1]
  <2>1. PlainCells' /\ \A t \in Slots : CellAt(t)' = CellAt(t)
    BY <1>1 DEF DiskOwned, PlainCells, CellAt
  <2>2. DiskOwned(own, dirs)' /\ Kept(own, own)
    BY <1>1, <1>2, <1>4, <2>1, SameOwned DEF RefsKept
  <2>3. CallOwns(own, dirs)'
    BY <1>1, <1>3, <2>2, ExtendFailedOwned
  <2> QED
    BY <1>1, <2>2, <2>3 DEF Owned
<1>5. ASSUME NEW c \in Clusters, fat[1][c] = FREE, fat'[1] = [fat[1] EXCEPT ![c] = EOC]
      PROVE  \E own2 \in Owners, dirs2 \in SUBSET Clusters : Owned(own2, dirs2)'
  <2>1. PICK own2, dirs2 : own2 = AllocOwn(own, c) /\ dirs2 = AllocDirs(dirs, c, FALSE)
    OBVIOUS
  <2>2. /\ DiskOwned(own2, dirs2)' /\ Kept(own, own2)
        /\ own2 \in Owners /\ dirs2 \in SUBSET Clusters
    BY <1>1, <1>2, <1>5, <2>1, AllocOwned
  <2>3. job.why = "data" /\ job.first # 0 => own2[job.first] = job.first /\ job.first \notin dirs2
    BY <1>3, <1>5, <2>1 DEF AllocOwn, AllocDirs, Held
  <2>4. CallOwns(own2, dirs2)'
    BY <1>1, <2>2, <2>3, ExtendFailedOwned
  <2> QED
    BY <2>2, <2>4 DEF Owned
<1>6. CASE pc = "link" /\ fat'[1] = [fat[1] EXCEPT ![job.last] = job.new]
  <2>1. PICK l, n : l = job.last /\ n = job.new
    OBVIOUS
  <2>2. l \in Clusters /\ n \in Clusters /\ Held(n) /\ n # job.first
    BY <1>1, <1>6, <2>1 DEF TypeInv, TypeOK, JobOK, JobType, InFlight
  <2>3. own[n] = n /\ fat[1][n] \notin Clusters /\ fat'[1] = [fat[1] EXCEPT ![l] = n]
    BY <1>1, <1>6, <2>1 DEF CallOwns, LinkOK
  <2>4. PICK own2 : own2 = [own EXCEPT ![n] = own[l]]
    OBVIOUS
  <2>5. DiskOwned(own2, dirs)' /\ Kept(own, own2) /\ own2 \in Owners
    BY <1>1, <1>2, <2>2, <2>3, <2>4, LinkOwned
  <2>6. job.why = "data" /\ job.first # 0 => own2[job.first] = job.first /\ job.first \notin dirs
    BY <1>1, <1>3, <2>2, <2>4 DEF Owners
  <2>7. CallOwns(own2, dirs)'
    BY <1>1, <2>5, <2>6, ExtendFailedOwned
  <2> QED
    BY <1>1, <2>5, <2>7 DEF Owned
<1> QED
  BY <1>4, <1>5, <1>6

(* Growing a chain keeps every cluster owned.                              *)
LEMMA ExtendOwned ==
    ASSUME NEW own, NEW dirs, Before(own, dirs), Calm', Extend
    PROVE  \E own2 \in Owners, dirs2 \in SUBSET Clusters : Owned(own2, dirs2)'
<1>1. TypeOK /\ own \in Owners /\ dirs \in SUBSET Clusters /\ job \in JobType /\ EOC \in Links
  BY DEF Before, TypeInv, TypeOK, Links
<1>2. CASE DiskFull
  <2>1. pc = "eoc" /\ ExtendFailed({}) /\ UNCHANGED <<sec, path>> /\ fat'[1] = fat[1]
    BY <1>2 DEF DiskFull, disk
  <2> QED
    BY <2>1, ExtendFailsOwned
<1>6. CASE MarkEocUnread /\ ExtendFailed({"fault"}) /\ UNCHANGED <<fat, hint>>
  BY <1>6, ExtendFailsOwned DEF MarkEocUnread
<1>3. CASE MarkEoc \/ (MarkEocUnread /\ ~(ExtendFailed({"fault"}) /\ UNCHANGED <<fat, hint>>))
  <2>1. PICK c \in Clusters :
           /\ c \in FreeClusters
           /\ \/ /\ fat_write_entry(c, EOC, 2)
                 /\ Goto(IF job.last >= 2 THEN "link" ELSE "zero", [job EXCEPT !.new = c])
              \/ \E n \in 0 .. 1 : fat_write_entry(c, EOC, n) /\ ExtendFailed({"fault"})
    <3>1. CASE MarkEoc
      BY <3>1 DEF MarkEoc, IsNextFit, FreeClusters
    <3>2. CASE MarkEocUnread /\ ~(ExtendFailed({"fault"}) /\ UNCHANGED <<fat, hint>>)
      <4>1. FreeClusters \subseteq Clusters
        BY DEF FreeClusters
      <4> QED
        BY <3>2, <4>1, Zenon DEF MarkEocUnread
    <3> QED
      BY <1>3, <3>1, <3>2
  <2>2. pc = "eoc" /\ UNCHANGED <<sec, path>> /\ fat[1][c] = FREE
    BY <1>3, <2>1 DEF MarkEoc, MarkEocUnread, FreeClusters, fat_read_entry
  <2>3. CASE /\ fat_write_entry(c, EOC, 2)
             /\ Goto(IF job.last >= 2 THEN "link" ELSE "zero", [job EXCEPT !.new = c])
    <3>1. Allocates(c)
      BY <2>2, <2>3 DEF Allocates
    <3> QED
      BY <3>1, AllocatesOwned
  <2>4. ASSUME NEW n \in 0 .. 1, fat_write_entry(c, EOC, n), ExtendFailed({"fault"})
        PROVE  \E own2 \in Owners, dirs2 \in SUBSET Clusters : Owned(own2, dirs2)'
    <3>1. fat'[1] = IF n = 0 THEN fat[1] ELSE [fat[1] EXCEPT ![c] = EOC]
      BY <1>1, <2>4, FatWriteType
    <3> QED
      BY <2>2, <2>4, <3>1, ExtendFailsOwned
  <2> QED
    BY <2>1, <2>3, <2>4
<1>4. CASE LinkCluster
  <2>1. /\ pc = "link" /\ UNCHANGED <<sec, path>>
        /\ \/ fat_write_entry(job.last, job.new, 2) /\ Goto("zero", job)
           \/ \E n \in 0 .. 1 : fat_write_entry(job.last, job.new, n) /\ ExtendFailed({"fault"})
    BY <1>4 DEF LinkCluster
  <2>2. CASE fat_write_entry(job.last, job.new, 2) /\ Goto("zero", job)
    BY <1>1, <2>1, <2>2, LinksOwnedStep
  <2>3. ASSUME NEW n \in 0 .. 1, fat_write_entry(job.last, job.new, n), ExtendFailed({"fault"})
        PROVE  \E own2 \in Owners, dirs2 \in SUBSET Clusters : Owned(own2, dirs2)'
    <3>1. job.last \in Clusters /\ job.new \in Links
      BY <1>1, <2>1 DEF Before, TypeInv, JobOK, JobType, Links
    <3>2. fat'[1] = IF n = 0 THEN fat[1] ELSE [fat[1] EXCEPT ![job.last] = job.new]
      BY <1>1, <2>3, <3>1, FatWriteType
    <3> QED
      BY <2>1, <2>3, <3>2, ExtendFailsOwned
  <2> QED
    BY <2>1, <2>2, <2>3
<1>5. CASE ZeroCluster
  <2>1. /\ pc = "zero" /\ UNCHANGED <<fat, path>>
        /\ \/ sec' = [sec EXCEPT ![cluster_to_lba(job.new)] = ZeroSector] /\ Extended
           \/ ExtendFailed({"fault"}) /\ UNCHANGED sec
    BY <1>5 DEF ZeroCluster, CleanSector
  <2>2. CASE sec' = [sec EXCEPT ![cluster_to_lba(job.new)] = ZeroSector] /\ Extended
    BY <1>1, <2>1, <2>2, ZeroOwned
  <2>3. CASE ExtendFailed({"fault"}) /\ UNCHANGED sec
    BY <2>1, <2>3, ExtendFailsOwned
  <2> QED
    BY <2>1, <2>2, <2>3
<1> QED
  BY <1>2, <1>3, <1>4, <1>5, <1>6 DEF Extend

(* So does freeing one.                                                    *)
LEMMA ReleaseOwned ==
    ASSUME NEW own, NEW dirs, Before(own, dirs), Calm', Release
    PROVE  Owned(own, dirs)'
<1>1. /\ TypeInv /\ TypeOK /\ LinkedOnce /\ DiskOwned(own, dirs) /\ CallOwns(own, dirs)
      /\ own \in Owners /\ dirs \in SUBSET Clusters /\ pc = "free" /\ UNCHANGED <<sec, path>>
      /\ job \in JobType /\ job.cur \in Answers /\ job.why \in {"delete", "rewrite", "undo"}
  <2>1. FreeBeyond => UNCHANGED <<sec, path>>
    BY BeyondHarmless DEF Calm
  <2> QED
    BY <2>1
       DEF Before, TypeInv, TypeOK, JobOK, Owned, Release, FreeCluster, FreeLosesTrack, FreeBeyond, FreeDone, disk
<1>2. PICK s, d : s = job.slot /\ d = job.dir
  OBVIOUS
<1>3. SlotIn(own, s, d) /\ s = job.slot /\ d = job.dir /\ \A c \in Clusters : ~Refers(s, c)
  BY <1>1, <1>2 DEF CallOwns, SlotOK, HasSlot
<1>4. ASSUME DiskOwned(own, dirs)', Kept(own, own), pc' \in {"free", "mark"}, job'.freed = job.freed,
             job'.slot = s, job'.dir = d, job'.op = job.op, job'.ent = job.ent,
             \A t \in Slots, c \in Clusters : Refers(t, c)' <=> Refers(t, c)
      PROVE  SlotOK(own)' /\ CallerOK'
  <2>1. SlotIn(own, s, d)'
    BY <1>1, <1>2, <1>3, <1>4, SlotStays
  <2>2. \A c \in Clusters : ~Refers(s, c)'
    <3>1. CASE s \in Slots
      BY <1>3, <1>4, <3>1
    <3>2. CASE s \notin Slots
      BY <1>1, <1>3, <1>4, <3>2 DEF Refers, CellAt
    <3> QED
      BY <3>1, <3>2
  <2>3. SlotOK(own)'
    BY <1>1, <1>2, <1>4, <2>1, <2>2 DEF CallOwns, SlotOK, HasSlot
  <2>4. CallerOK'
    BY <1>1, <1>2, <1>4 DEF CallOwns, CallerOK, Cwd
  <2> QED
    BY <2>3, <2>4
<1>5. CASE FreeCluster \/ FreeLosesTrack
  <2>1. PICK x, n : x = job.cur /\ n = IF FreeCluster THEN fat[1][x] ELSE BAD
    OBVIOUS
  <2>2. x \in Clusters
    BY <1>1, <1>5, <2>1, AnswerIsCluster DEF FreeCluster, FreeLosesTrack
  <2>3. /\ pc' = "free" /\ job' = [job EXCEPT !.cur = n]
    BY <1>5, <2>1 DEF FreeCluster, FreeLosesTrack, Goto, fat_read_entry
  <2>4. /\ job'.cur = n /\ job'.freed = job.freed /\ job'.slot = s /\ job'.dir = d /\ job'.op = job.op
        /\ job'.ent = job.ent /\ job'.why = job.why /\ job'.first = job.first
    BY <1>1, <1>2, <2>3 DEF JobType
  <2>5. fat'[1] = [fat[1] EXCEPT ![x] = FREE] \/ fat'[1] = fat[1]
    <3>1. PICK k \in 0 .. 2 : fat_write_entry(x, FREE, k)
      BY <1>5, <2>1 DEF FreeCluster, FreeLosesTrack
    <3>2. FREE \in Links
      BY DEF Links
    <3> QED
      BY <1>1, <2>2, <3>1, <3>2, FatWriteType
  <2>6. \A t \in Slots, c \in Clusters : Refers(t, c)' <=> Refers(t, c)
    BY <1>1, <1>2, <2>4, RefsSame
  <2>7. PICK g : g = FreeHead
    OBVIOUS
  <2>8. /\ own[x] = g /\ g \in Clusters /\ (\A t \in Slots : ~Refers(t, g))
        /\ g \in dirs <=> (job.why = "delete" /\ job.ent.dir = TRUE)
    BY <1>1, <2>1, <2>2, <2>7 DEF CallOwns, FreeOK
  <2>9. DiskOwned(own, dirs)' /\ Kept(own, own)
    <3>1. CASE fat'[1] = [fat[1] EXCEPT ![x] = FREE]
      BY <1>1, <2>2, <2>6, <2>8, <3>1, FreeOwned
    <3>2. CASE fat'[1] = fat[1]
      <4>1. PlainCells' /\ \A t \in Slots : CellAt(t)' = CellAt(t)
        BY <1>1 DEF DiskOwned, PlainCells, CellAt
      <4> QED
        BY <1>1, <2>6, <3>2, <4>1, SameOwned DEF RefsKept
    <3> QED
      BY <2>5, <3>1, <3>2
  <2>10. SlotOK(own)' /\ CallerOK'
    BY <1>4, <2>3, <2>4, <2>6, <2>9
  <2>11. FreeHead' = g
    BY <2>4, <2>7 DEF FreeHead
  <2>12. FreeOK(own, dirs)'
    <3>1. n \in Clusters => own[n] = g
      BY <1>1, <2>1, <2>2, <2>8, NoClusters DEF DiskOwned, LinksOwned
    <3>2. \A t \in Slots : ~Refers(t, g)'
      BY <2>6, <2>8
    <3>3. \A t \in Slots : ~Refers(t, FreeHead)'
      BY <2>11, <3>2
    <3> QED
      BY <2>4, <2>8, <2>11, <3>1, <3>3 DEF FreeOK
  <2> QED
    BY <2>3, <2>9, <2>10, <2>12
       DEF Owned, CallOwns, ScanOK, GrowOK, LinkOK, FileOK, NewDirOK, EntryOK
<1>7. CASE FreeBeyond
  <2>1. /\ UNCHANGED <<fat, sec, path>> /\ pc' = "free" /\ job' = [job EXCEPT !.cur = FREE]
    BY <1>7, BeyondHarmless DEF Calm, Goto
  <2>2. /\ job'.cur = FREE /\ job'.freed = job.freed /\ job'.slot = s /\ job'.dir = d /\ job'.op = job.op
        /\ job'.ent = job.ent /\ job'.why = job.why /\ job'.first = job.first
    BY <1>1, <1>2, <2>1 DEF JobType
  <2>3. \A t \in Slots, c \in Clusters : Refers(t, c)' <=> Refers(t, c)
    BY <1>1, <1>2, <2>2, RefsSame
  <2>4. PlainCells' /\ \A t \in Slots : CellAt(t)' = CellAt(t)
    BY <1>1 DEF DiskOwned, PlainCells, CellAt
  <2>5. DiskOwned(own, dirs)' /\ Kept(own, own)
    BY <1>1, <2>1, <2>3, <2>4, SameOwned DEF RefsKept
  <2>6. SlotOK(own)' /\ CallerOK'
    BY <1>4, <2>1, <2>2, <2>3, <2>5
  <2>7. FreeOK(own, dirs)'
    BY <2>2, NoClusters DEF FreeOK
  <2> QED
    BY <2>1, <2>5, <2>6, <2>7
       DEF Owned, CallOwns, ScanOK, GrowOK, LinkOK, FileOK, NewDirOK, EntryOK
<1>6. CASE FreeDone
  <2>1. fat' = fat
    BY <1>6 DEF FreeDone, disk
  <2>2. ASSUME (~job.freed /\ ~job'.freed) \/ (job'.freed = job.freed /\ job'.slot = job.slot)
        PROVE  /\ DiskOwned(own, dirs)' /\ Kept(own, own)
               /\ \A t \in Slots, c \in Clusters : Refers(t, c)' <=> Refers(t, c)
    <3>1. \A t \in Slots, c \in Clusters : Refers(t, c)' <=> Refers(t, c)
      BY <1>1, <2>2, RefsSame
    <3>2. PlainCells' /\ \A t \in Slots : CellAt(t)' = CellAt(t)
      BY <1>1 DEF DiskOwned, PlainCells, CellAt
    <3> QED
      BY <1>1, <2>1, <3>1, <3>2, SameOwned DEF RefsKept
  <2>3. CASE job.why = "delete"
    <3>1. pc' = "mark" /\ job' = job
      BY <1>6, <2>3 DEF FreeDone, Goto
    <3>2. SlotOK(own)' /\ CallerOK' /\ DiskOwned(own, dirs)'
      BY <1>2, <1>4, <2>2, <3>1
    <3> QED
      BY <3>1, <3>2 DEF Owned, CallOwns, ScanOK, GrowOK, LinkOK, FileOK, NewDirOK, EntryOK, FreeOK
  <2>4. CASE job.why = "rewrite"
    <3>1. WriteOn(job) /\ job.op = "echo" /\ job.first = 0 /\ job.slot \in Slots
      BY <1>1, <1>6, <2>4 DEF FreeDone, TypeInv, JobOK, JobType
    <3>2. job'.freed = job.freed /\ job'.slot = job.slot
      BY <1>1, <3>1, WriteOnKeeps
    <3>3. PICK j \in JobType : j = job
      BY <1>1
    <3>4. /\ j.ent.kind = "entry" /\ j.ent.dir = FALSE
      BY <1>1, <3>1, <3>3 DEF CallOwns, SlotOK, HasSlot, JobType, CellType
    <3>5. Calls(j)
      BY <1>1, <3>3 DEF CallOwns, CallerOK, Calls, Cwd
    <3>6. SlotIn(own, s, d)'
      BY <1>1, <1>3, <2>1 DEF SlotIn, Alive
    <3>7. CellAt(s)'.first = 0 \/ j.freed = TRUE
      <4>1. CellAt(s).first \in Clusters \cup {0} /\ CellAt(s)' = CellAt(s)
        BY <1>1, <1>2, <3>1 DEF TypeOK, CellAt, Slots, CellType
      <4>2. job.freed \in BOOLEAN
        BY <1>1 DEF JobType
      <4> QED
        BY <1>3, <3>3, <4>1, <4>2 DEF Refers
    <3>8. CallOwns(own, dirs)'
      BY <1>2, <3>1, <3>3, <3>4, <3>5, <3>6, <3>7, WriteOnOwned
    <3> QED
      BY <2>2, <3>2, <3>8 DEF Owned
  <2>5. CASE job.why = "undo"
    <3>1. Return(FALSE) /\ harm' = harm \cup TornIf(job.freed)
      BY <1>6, <2>5 DEF FreeDone, Harm
    <3>2. pc' = "idle" /\ ~job.freed /\ ~job'.freed
      BY <3>1 DEF Return, TornIf, Calm, NoJob, NewJob
    <3> QED
      BY <2>2, <3>2, ReturnOwned DEF Owned
  <2> QED
    BY <1>1, <2>3, <2>4, <2>5
<1> QED
  BY <1>5, <1>6, <1>7 DEF Release

(* So do the last writes of a call.                                        *)
LEMMA FinishOwned ==
    ASSUME NEW own, NEW dirs, Before(own, dirs), Calm', Finish
    PROVE  Owned(own, dirs)'
<1>1. /\ TypeInv /\ TypeOK /\ LinkedOnce /\ DiskOwned(own, dirs) /\ CallOwns(own, dirs)
      /\ own \in Owners /\ dirs \in SUBSET Clusters /\ UNCHANGED <<fat, path>> /\ job \in JobType
      /\ pc \in {"data", "dirent", "mark"}
  BY DEF Before, TypeInv, TypeOK, Owned, Finish, WriteData, WriteDirent, MarkDeleted
<1>2. CASE Return(FALSE) /\ UNCHANGED sec /\ Harm({"fault"} \cup TornIf(job.freed))
  <2>1. pc' = "idle" /\ ~job.freed /\ ~job'.freed
    BY <1>2 DEF Return, Harm, TornIf, Calm, NoJob, NewJob
  <2>2. \A t \in Slots, c \in Clusters : Refers(t, c)' <=> Refers(t, c)
    BY <1>2, <2>1, RefsSame
  <2>3. PlainCells' /\ \A t \in Slots : CellAt(t)' = CellAt(t)
    BY <1>1, <1>2 DEF DiskOwned, PlainCells, CellAt
  <2>4. DiskOwned(own, dirs)'
    BY <1>1, <2>2, <2>3, SameOwned DEF RefsKept
  <2> QED
    BY <2>1, <2>4, ReturnOwned DEF Owned
<1> DEFINE done == IF job.done + PerSector < job.len THEN job.done + PerSector ELSE job.len
           j == [job EXCEPT !.done = done]
<1>3. CASE /\ pc = "data" /\ WriteOn(j)
           /\ sec' = [sec EXCEPT ![cluster_to_lba(job.new)] = FileSector]
  <2>1. PICK s, d, f, n : s = job.slot /\ d = job.dir /\ f = job.first /\ n = job.new
    OBVIOUS
  <2>2. n \in Clusters /\ job.op = "echo" /\ s \in Slots /\ job.last # 0 /\ f # 0
    BY <1>1, <1>3, <2>1 DEF TypeInv, JobOK, JobType
  <2>3. done \in Nat
    BY <1>1, Fat16Assumption DEF JobType
  <2> HIDE DEF done
  <2>4. /\ j \in JobType /\ j.first = f /\ j.slot = s /\ j.freed = job.freed /\ j.dir = d
        /\ j.op = job.op /\ j.ent = job.ent /\ j.last = job.last
    BY <1>1, <2>1, <2>3 DEF JobType
  <2> HIDE DEF j
  <2>5. job'.freed = job.freed /\ job'.slot = job.slot
    BY <1>3, <2>1, <2>4, WriteOnKeeps
  <2>6. FileSector \in [Cells -> CellType] /\ \A i \in Cells : FileSector[i].first = 0 /\ FileSector[i].kind # "entry"
    BY <1>1, SectorTypes DEF FileSector, DataCell, Blank
  <2>7. PICK z : z = FileSector
    OBVIOUS
  <2>8. \A k \in 1 .. Len(path) : ~Alive(own, n, Above(k)) \/ Above(k) = 0
    BY <1>3, <2>1, NewNotAbove
  <2>9. DiskOwned(own, dirs)' /\ Kept(own, own) /\ Quiet
    <3>1. sec' = [sec EXCEPT ![cluster_to_lba(n)] = z] /\ z \in [Cells -> CellType]
          /\ \A i \in Cells : z[i].first = 0 /\ z[i].kind # "entry"
      BY <1>3, <2>1, <2>6, <2>7
    <3> QED
      BY <1>1, <2>1, <2>2, <2>5, <2>8, <3>1, OverwriteOwned
  <2>10. HasSlot /\ SlotOK(own) /\ FileOK(own, dirs) /\ CallerOK
    BY <1>1, <1>3 DEF CallOwns, HasSlot
  <2>11. SlotIn(own, s, d)'
    BY <1>3, <2>1, <2>9, <2>10, SlotStays DEF SlotOK
  <2>12. CellAt(s)'.first = 0 \/ j.freed = TRUE
    <3>1. \A c \in Clusters : ~Refers(s, c)'
      BY <2>1, <2>2, <2>9, <2>10 DEF SlotOK, Quiet
    <3>2. CellAt(s)'.first \in Clusters \cup {0} /\ job.freed \in BOOLEAN
      <4>1. sec' \in [Lbas -> [Cells -> CellType]]
        BY <1>1, <1>3, <2>1, <2>2, <2>6, ClusterLba DEF TypeOK
      <4> QED
        BY <1>1, <2>2, <4>1 DEF CellAt, Slots, CellType, JobType
    <3> QED
      BY <2>1, <2>4, <2>5, <3>1, <3>2 DEF Refers
  <2>13. j.ent.kind = "entry" /\ j.ent.dir = FALSE
    BY <1>1, <2>2, <2>4, <2>10 DEF SlotOK, JobType, CellType
  <2>14. PICK l : l = job.last /\ own[f] = f /\ f \notin dirs /\ Alive(own, l, f)
    BY <1>3, <2>1, <2>2, <2>10 DEF FileOK
  <2>21. Alive(own, l, f)'
    BY <1>1, <2>14 DEF Alive
  <2>15. PICK i \in JobType : i = j
    BY <2>4
  <2>16. /\ WriteOn(i) /\ i.op = "echo" /\ SlotIn(own, i.slot, i.dir)'
         /\ CellAt(i.slot)'.first = 0 \/ i.freed = TRUE
    BY <1>3, <2>2, <2>4, <2>11, <2>12, <2>15
  <2>17. Calls(i)
    BY <1>1, <2>1, <2>4, <2>10, <2>15 DEF Calls, CallerOK, Cwd
  <2>18. i.ent.kind = "entry" /\ i.ent.dir = FALSE
    BY <2>13, <2>15
  <2>19. i.first # 0 => own[i.first] = i.first /\ i.first \notin dirs /\ Alive(own, i.last, i.first)'
    <3>1. i.last = l /\ i.first = f
      BY <2>4, <2>14, <2>15
    <3> QED
      BY <2>14, <2>21, <3>1
  <2>20. CallOwns(own, dirs)'
    BY <2>16, <2>17, <2>18, <2>19, WriteOnOwned
  <2> QED
    BY <2>9, <2>20 DEF Owned
<1>4. ASSUME NEW e \in CellType, WriteCell(job.slot, e), Return(TRUE), job.slot \in Slots, PlainCell(e),
             e.first # 0 => own[e.first] = e.first /\ (e.first \in dirs <=> e.dir),
             pc \in {"dirent", "mark"}
      PROVE  Owned(own, dirs)'
  <2>1. pc' = "idle" /\ ~job'.freed /\ \A c \in Clusters : ~Refers(job.slot, c)
    BY <1>1, <1>4 DEF Return, NoJob, NewJob, CallOwns, SlotOK, HasSlot
  <2>2. PICK s \in Slots : s = job.slot
    BY <1>4
  <2>3. DiskOwned(own, dirs)'
    BY <1>1, <1>4, <2>1, <2>2, WriteOwned
  <2> QED
    BY <2>1, <2>3, ReturnOwned DEF Owned
<1>5. CASE pc = "dirent" /\ WriteCell(job.slot, job.ent) /\ Return(TRUE)
  <2>1. job.ent \in CellType /\ job.slot \in Slots
    BY <1>1, <1>5 DEF TypeInv, JobOK, JobType
  <2>2. PlainCell(job.ent) /\ (job.ent.first # 0 =>
           own[job.ent.first] = job.ent.first /\ (job.ent.first \in dirs <=> job.ent.dir))
    BY <1>1, <1>5 DEF CallOwns, EntryOK
  <2> QED
    BY <1>4, <1>5, <2>1, <2>2
<1>6. CASE pc = "mark" /\ WriteCell(job.slot, Deleted) /\ Return(TRUE)
  <2>1. job.slot \in Slots /\ Deleted \in CellType
    BY <1>1, <1>6, CellTypes DEF TypeInv, JobOK, JobType
  <2>2. Deleted.first = 0 /\ PlainCell(Deleted)
    BY DEF Deleted, Blank, PlainCell
  <2> QED
    BY <1>4, <1>6, <2>1, <2>2
<1> QED
  BY <1>2, <1>3, <1>5, <1>6 DEF Finish, WriteData, WriteDirent, MarkDeleted

(* And a loss of power outside of a rewrite or removal.                    *)
LEMMA PowerLossOwned ==
    ASSUME NEW own, NEW dirs, Before(own, dirs), Calm', PowerLoss
    PROVE  \E own2 \in Owners, dirs2 \in SUBSET Clusters : Owned(own2, dirs2)'
<1>1. /\ TypeInv /\ TypeOK /\ LinkedOnce /\ InFlight /\ DiskOwned(own, dirs) /\ CallOwns(own, dirs)
      /\ own \in Owners /\ dirs \in SUBSET Clusters /\ UNCHANGED sec /\ path' \in {path, <<>>}
      /\ job \in JobType /\ 1 \in 0 .. 2
  BY DEF Before, TypeInv, TypeOK, Owned, PowerLoss
<1>2. pc' = "idle" /\ ~job.freed /\ ~job'.freed
  <2>1. job' = NoJob /\ pc' = "idle" /\ harm' = harm \cup ({"fault"} \cup TornIf(job.freed))
    BY DEF PowerLoss, Return, Harm
  <2> QED
    BY <2>1 DEF TornIf, Calm, NoJob, NewJob
<1>3. \A t \in Slots, c \in Clusters : Refers(t, c)' <=> Refers(t, c)
  BY <1>1, <1>2, RefsSame
<1>4. ASSUME NEW own2 \in Owners, NEW dirs2 \in SUBSET Clusters, DiskOwned(own2, dirs2)'
      PROVE  \E o \in Owners, d \in SUBSET Clusters : Owned(o, d)'
  BY <1>2, <1>4, ReturnOwned DEF Owned
<1>5. CASE UNCHANGED fat
  <2>1. PlainCells' /\ \A t \in Slots : CellAt(t)' = CellAt(t)
    BY <1>1 DEF DiskOwned, PlainCells, CellAt
  <2> QED
    BY <1>1, <1>3, <1>4, <1>5, <2>1, SameOwned DEF RefsKept
<1>6. ASSUME NEW c \in Clusters, IsNextFit(c), fat_write_entry(c, EOC, 1)
      PROVE  \E own2 \in Owners, dirs2 \in SUBSET Clusters : Owned(own2, dirs2)'
  <2>1. fat[1][c] = FREE /\ EOC \in Links
    BY <1>6 DEF IsNextFit, FreeClusters, fat_read_entry, Links
  <2>2. fat'[1] = [fat[1] EXCEPT ![c] = EOC]
    BY <1>1, <1>6, <2>1, FatWriteType
  <2>3. FALSE \in BOOLEAN
    OBVIOUS
  <2>4. /\ DiskOwned(AllocOwn(own, c), AllocDirs(dirs, c, FALSE))'
        /\ AllocOwn(own, c) \in Owners /\ AllocDirs(dirs, c, FALSE) \in SUBSET Clusters
    BY <1>1, <1>3, <2>1, <2>2, <2>3, AllocOwned
  <2>5. PICK o, d : o = AllocOwn(own, c) /\ d = AllocDirs(dirs, c, FALSE)
    OBVIOUS
  <2>6. DiskOwned(o, d)' /\ o \in Owners /\ d \in SUBSET Clusters
    BY <2>4, <2>5
  <2> QED
    BY <1>4, <2>6
<1>7. CASE pc = "link" /\ fat_write_entry(job.last, job.new, 1)
  <2>1. PICK l, n : l = job.last /\ n = job.new
    OBVIOUS
  <2>2. l \in Clusters /\ n \in Clusters /\ n \in Links /\ Held(n)
    BY <1>1, <1>7, <2>1 DEF TypeInv, JobOK, JobType, Links, InFlight
  <2>3. fat'[1] = [fat[1] EXCEPT ![l] = n]
    BY <1>1, <1>7, <2>1, <2>2, FatWriteType
  <2>4. own[n] = n /\ fat[1][n] \notin Clusters
    BY <1>1, <1>7, <2>1 DEF CallOwns, LinkOK
  <2>5. PICK own2 : own2 = [own EXCEPT ![n] = own[l]]
    OBVIOUS
  <2>6. DiskOwned(own2, dirs)' /\ own2 \in Owners
    BY <1>1, <1>3, <2>2, <2>3, <2>4, <2>5, LinkOwned
  <2> QED
    BY <1>1, <1>4, <2>6
<1>8. CASE pc = "free" /\ job.cur \in Clusters /\ fat_write_entry(job.cur, FREE, 1)
  <2>1. PICK x : x = job.cur
    OBVIOUS
  <2>2. x \in Clusters /\ FREE \in Links
    BY <1>8, <2>1 DEF Links
  <2>3. fat'[1] = [fat[1] EXCEPT ![x] = FREE]
    BY <1>1, <1>8, <2>1, <2>2, FatWriteType
  <2>4. \A s \in Slots : ~Refers(s, own[x])
    BY <1>1, <1>8, <2>1, <2>2 DEF CallOwns, FreeOK
  <2> QED
    BY <1>1, <1>3, <1>4, <2>2, <2>3, <2>4, FreeOwned
<1> QED
  BY <1>5, <1>6, <1>7, <1>8 DEF PowerLoss

-----------------------------------------------------------------------------
(* Every step keeps the ownership, and writes only to what the call owns.  *)

OwnedInv ==
    /\ Inv
    /\ Calm => \E own \in Owners, dirs \in SUBSET Clusters : Owned(own, dirs)

(* Any step of the driver, its callers and the power supply.               *)
LEMMA OwnedNext ==
    ASSUME NEW own, NEW dirs, Before(own, dirs), Calm', Next
    PROVE  \E own2 \in Owners, dirs2 \in SUBSET Clusters : Owned(own2, dirs2)'
<1>1. own \in Owners /\ dirs \in SUBSET Clusters
  BY DEF Before
<1>2. ASSUME Owned(own, dirs)'
      PROVE  \E own2 \in Owners, dirs2 \in SUBSET Clusters : Owned(own2, dirs2)'
  BY <1>1, <1>2
<1>3. CASE TerminalCall \/ DesktopCall \/ CdUp \/ CdRoot
  <2>1. Owned(own, dirs)'
    BY <1>3, CommandOwned
  <2> QED
    BY <1>2, <2>1
<1>4. CASE Scan
  <2>1. Owned(own, dirs)'
    BY <1>4, ScanHitOwned, ScanOnOwned DEF Scan
  <2> QED
    BY <1>2, <2>1
<1>5. CASE Extend
  BY <1>5, ExtendOwned
<1>6. CASE Release
  <2>1. Owned(own, dirs)'
    BY <1>6, ReleaseOwned
  <2> QED
    BY <1>2, <2>1
<1>7. CASE Finish
  <2>1. Owned(own, dirs)'
    BY <1>7, FinishOwned
  <2> QED
    BY <1>2, <2>1
<1>8. CASE PowerLoss
  BY <1>8, PowerLossOwned
<1> QED
  BY <1>3, <1>4, <1>5, <1>6, <1>7, <1>8 DEF Next, Driver

(* While no call was cut short, there is an ownership to reason from.      *)
LEMMA CalmBefore ==
    ASSUME OwnedInv, Calm
    PROVE  \E own \in Owners, dirs \in SUBSET Clusters : Before(own, dirs)
<1>1. TypeInv /\ LinkedOnce /\ InFlight
  BY DEF OwnedInv, Inv, Calm
<1> QED
  BY <1>1 DEF OwnedInv, Before

(* Nothing changes when nothing happens.                                   *)
LEMMA OwnedStutters ==
    ASSUME NEW own, NEW dirs, Owned(own, dirs), UNCHANGED vars
    PROVE  Owned(own, dirs)'
<1>1. Cwd' = Cwd /\ (\A s \in Slots, c \in Clusters : Refers(s, c)' <=> Refers(s, c))
      /\ (HasSlot' <=> HasSlot) /\ FreeHead' = FreeHead
  BY DEF vars, Cwd, Refers, CellAt, HasSlot, FreeHead
<1>2. DiskOwned(own, dirs)'
  BY DEF vars, Owned, DiskOwned, LinksOwned, EntriesOwn, PlainCells, PathOK, SlotIn, Alive,
                    Above, Refers, CellAt
<1>3. CallOwns(own, dirs)'
  <2>1. CallerOK' /\ ScanOK(own)' /\ GrowOK(own)'
    BY <1>1 DEF vars, Owned, CallOwns, CallerOK, ScanOK, GrowOK, SlotIn, Alive, CellAt
  <2>2. SlotOK(own)' /\ LinkOK(own)'
    BY <1>1 DEF vars, Owned, CallOwns, SlotOK, LinkOK, SlotIn, Alive, Refers, CellAt
  <2>3. FileOK(own, dirs)' /\ NewDirOK(own, dirs)'
    BY DEF vars, Owned, CallOwns, FileOK, NewDirOK, Alive
  <2>4. EntryOK(own, dirs)'
    BY DEF vars, Owned, CallOwns, EntryOK, PlainCell
  <2>5. FreeOK(own, dirs)'
    BY <1>1 DEF vars, Owned, CallOwns, FreeOK, Refers, CellAt
  <2> QED
    BY <2>1, <2>2, <2>3, <2>4, <2>5 DEF CallOwns
<1> QED
  BY <1>2, <1>3 DEF Owned

(* The strengthened invariant is inductive.                                *)
LEMMA OwnedStep ==
    ASSUME OwnedInv, [Next]_vars
    PROVE  OwnedInv'
<1>1. Inv /\ Inv' /\ TypeInv
  BY InvStep DEF OwnedInv, Inv
<1>2. CASE UNCHANGED vars
  <2>1. ASSUME NEW own, NEW dirs, Owned(own, dirs)
        PROVE  Owned(own, dirs)'
    BY <1>2, <2>1, OwnedStutters
  <2>2. Calm' <=> Calm
    BY <1>2 DEF vars, Calm
  <2> QED
    BY <1>1, <2>1, <2>2 DEF OwnedInv
<1>3. CASE Next
  <2>1. Calm' => Calm
    BY <1>1, <1>3, HarmGrows DEF Calm
  <2> QED
    BY <1>1, <1>3, <2>1, CalmBefore, OwnedNext DEF OwnedInv
<1> QED
  BY <1>2, <1>3

(* On a formatted volume nobody owns anything.                             *)
LEMMA InitOwned == Init => OwnedInv
<1> SUFFICES ASSUME Init PROVE \E own \in Owners, dirs \in SUBSET Clusters : Owned(own, dirs)
  BY InitLinked DEF OwnedInv
<1> DEFINE own == [c \in Clusters |-> 0]
<1>1. own \in Owners
  BY DEF Owners
<1>2. \A s \in Slots : CellAt(s) = Blank
  BY DEF Init, CellAt, Slots, ZeroSector
<1>3. \A c \in Clusters : fat[1][c] = FREE
  BY DEF Init
<1>4. DiskOwned(own, {})
  <2>1. LinksOwned(own)
    BY <1>3 DEF LinksOwned, Clusters, FREE
  <2>2. EntriesOwn(own, {})
    BY <1>2 DEF EntriesOwn, Refers, Blank, Clusters
  <2>3. PlainCells
    BY <1>2 DEF PlainCells, PlainCell, Blank
  <2>4. PathOK(own, {})
    BY DEF Init, PathOK
  <2> QED
    BY <2>1, <2>2, <2>3, <2>4 DEF DiskOwned
<1>5. CallOwns(own, {})
  BY DEF Init, CallOwns, CallerOK, ScanOK, GrowOK, SlotOK, HasSlot, LinkOK, FileOK, NewDirOK, EntryOK, FreeOK
<1> HIDE DEF own
<1> QED
  BY <1>1, <1>4, <1>5 DEF Owned

(* A cluster whose table entry or sector the step changes                  *)
Changed(c) ==
    fat'[1][c] # fat[1][c] \/ sec'[cluster_to_lba(c)] # sec[cluster_to_lba(c)]

(* A cluster in use that a step writes to belongs to a directory, or to a  *)
(* chain that no entry refers to: the one the call builds or frees.        *)
LEMMA WritesOwn ==
    ASSUME NEW own, NEW dirs, Before(own, dirs), Next, "wild" \notin harm',
           NEW c \in Clusters, fat[1][c] # FREE, Changed(c)
    PROVE  own[c] \in dirs \/ \A s \in Slots : own[c] \in Clusters => ~Refers(s, own[c])
<1>1. /\ TypeInv /\ TypeOK /\ JobOK /\ LinkedOnce /\ InFlight /\ DiskOwned(own, dirs)
      /\ CallOwns(own, dirs) /\ CallerOK /\ PathOK(own, dirs) /\ job \in JobType
      /\ own \in Owners /\ dirs \in SUBSET Clusters
  BY DEF Before, TypeInv, TypeOK, Owned, DiskOwned, CallOwns
<1>2. \A d \in Clusters : cluster_to_lba(d) = cluster_to_lba(c) => d = c
  BY Fat16Assumption DEF Clusters, cluster_to_lba
<1>3. ASSUME UNCHANGED <<fat, sec>> PROVE FALSE
  BY <1>3 DEF Changed
<1>4. pc # "idle" /\ job.dir # 0 => job.dir \in dirs
  BY <1>1, DirOnPath
<1>5. ASSUME NEW d \in Clusters, NEW v \in Links, NEW n \in 0 .. 2, fat_write_entry(d, v, n), UNCHANGED sec
      PROVE  c = d
  <2>1. fat'[1] = IF n = 0 THEN fat[1] ELSE [fat[1] EXCEPT ![d] = v]
    BY <1>1, <1>5, FatWriteType
  <2> QED
    BY <1>1, <1>5, <2>1 DEF Changed, TypeOK
<1>6. ASSUME NEW z, NEW d \in Clusters, sec' = [sec EXCEPT ![cluster_to_lba(d)] = z], UNCHANGED fat
      PROVE  c = d
  <2>1. cluster_to_lba(d) \in Lbas /\ cluster_to_lba(c) \in Lbas
    BY <1>6, ClusterLba
  <2> QED
    BY <1>1, <1>2, <1>6, <2>1 DEF Changed, TypeOK
<1>7. 0 \in 0 .. 2 /\ 1 \in 0 .. 2 /\ 2 \in 0 .. 2 /\ EOC \in Links /\ FREE \in Links
      /\ (\A n \in 0 .. 1 : n \in 0 .. 2)
  BY DEF Links
<1>8. ASSUME NEW d \in FreeClusters, NEW n \in 0 .. 2, fat_write_entry(d, EOC, n), UNCHANGED sec
      PROVE  FALSE
  BY <1>5, <1>7, <1>8 DEF FreeClusters, fat_read_entry
<1>9. ASSUME pc = "link", NEW n \in 0 .. 2, fat_write_entry(job.last, job.new, n), UNCHANGED sec
      PROVE  own[c] \in dirs \/ \A s \in Slots : own[c] \in Clusters => ~Refers(s, own[c])
  <2>1. job.last \in Clusters /\ job.new \in Links /\ job.why \in {"slot", "data"}
        /\ (job.why = "data" => job.first # 0)
    BY <1>1, <1>9 DEF JobOK, JobType, Links
  <2>2. c = job.last
    BY <1>5, <1>9, <2>1
  <2>3. CASE job.why = "slot"
    BY <1>1, <1>4, <1>9, <2>2, <2>3 DEF CallOwns, GrowOK, Alive
  <2>4. CASE job.why = "data"
    BY <1>1, <1>9, <2>1, <2>2, <2>4 DEF CallOwns, FileOK, Alive, InFlight, Held, NoRef
  <2> QED
    BY <2>1, <2>3, <2>4
<1>10. ASSUME pc = "free", job.cur \in Clusters, NEW n \in 0 .. 2, fat_write_entry(job.cur, FREE, n), UNCHANGED sec
       PROVE  \A s \in Slots : own[c] \in Clusters => ~Refers(s, own[c])
  <2>2. c = job.cur
    BY <1>5, <1>7, <1>10
  <2> QED
    BY <1>1, <1>10, <2>2 DEF CallOwns, FreeOK
<1>11. CASE TerminalCall \/ DesktopCall \/ CdUp \/ CdRoot \/ Scan \/ DiskFull
  BY <1>3, <1>11 DEF TerminalCall, DesktopCall, Call, CdUp, CdRoot, Scan, ScanHit, ScanEndMarker,
       ScanNextSector, ScanLosesTrack, ScanOn, ScanExhausted, ScanReadError, DiskFull, disk
<1>12. CASE MarkEoc \/ MarkEocUnread
  <2>1. UNCHANGED sec /\ (UNCHANGED fat \/ \E d \in FreeClusters, n \in 0 .. 2 : fat_write_entry(d, EOC, n))
    <3>1. CASE MarkEoc
      BY <1>7, <3>1 DEF MarkEoc, IsNextFit
    <3>2. CASE MarkEocUnread
      BY <1>7, <3>2 DEF MarkEocUnread
    <3> QED
      BY <1>12, <3>1, <3>2
  <2> QED
    BY <1>3, <1>8, <2>1
<1>13. CASE LinkCluster
  BY <1>7, <1>9, <1>13 DEF LinkCluster
<1>14. CASE ZeroCluster
  <2>1. job.new \in Clusters /\ pc = "zero" /\ UNCHANGED fat
    BY <1>1, <1>14 DEF ZeroCluster, JobOK, JobType
  <2>2. c = job.new
    BY <1>3, <1>6, <1>14, <2>1 DEF ZeroCluster
  <2>3. CASE job.why = "slot"
    BY <1>1, <1>4, <2>1, <2>2, <2>3 DEF CallOwns, GrowOK, Alive
  <2>4. CASE job.why = "mkdir"
    BY <1>1, <2>1, <2>2, <2>4 DEF CallOwns, NewDirOK
  <2>5. CASE job.why = "data" /\ job.first = 0
    <3>1. Held(job.new) /\ own[c] = c
      BY <1>1, <2>1, <2>2, <2>5 DEF JobOK, InFlight, CallOwns, FileOK
    <3> QED
      BY <2>2, <3>1 DEF Held, NoRef
  <2>6. CASE job.why = "data" /\ job.first # 0
    <3>1. Held(job.first) /\ own[c] = job.first
      BY <1>1, <2>1, <2>2, <2>6 DEF InFlight, CallOwns, FileOK, Alive
    <3> QED
      BY <3>1 DEF Held, NoRef
  <2> QED
    BY <1>1, <2>1, <2>3, <2>4, <2>5, <2>6 DEF JobOK
<1>15. CASE FreeCluster \/ FreeLosesTrack
  <2>1. job.cur \in Clusters
    BY <1>1, <1>15, AnswerIsCluster DEF FreeCluster, FreeLosesTrack, JobOK
  <2> QED
    BY <1>7, <1>10, <1>15, <2>1 DEF FreeCluster, FreeLosesTrack
<1>20. CASE FreeBeyond
  BY <1>3, <1>20, BeyondHarmless
<1>16. CASE FreeDone
  BY <1>3, <1>16 DEF FreeDone, disk
<1>17. CASE WriteData
  <2>1. job.new \in Clusters /\ pc = "data" /\ UNCHANGED fat
    BY <1>1, <1>17 DEF WriteData, JobOK, JobType
  <2>2. c = job.new
    BY <1>3, <1>6, <1>17, <2>1 DEF WriteData
  <2>3. Held(job.first) /\ own[c] = job.first
    BY <1>1, <2>1, <2>2 DEF InFlight, CallOwns, FileOK, Alive
  <2> QED
    BY <2>3 DEF Held, NoRef
<1>18. CASE WriteDirent \/ MarkDeleted
  <2>1. pc \in {"dirent", "mark"} /\ UNCHANGED fat /\ job.slot \in Slots
    BY <1>1, <1>18 DEF WriteDirent, MarkDeleted, JobOK, JobType
  <2>2. PICK e : WriteCell(job.slot, e)
    BY <1>3, <1>18, <2>1 DEF WriteDirent, MarkDeleted
  <2>3. cluster_to_lba(c) \in Lbas /\ cluster_to_lba(c) > RootSectors
    BY ClusterLba, Fat16Assumption DEF cluster_to_lba, Clusters
  <2>4. job.slot.lba = cluster_to_lba(c)
    BY <1>1, <2>1, <2>2, <2>3 DEF Changed, WriteCell, TypeOK
  <2>5. SlotIn(own, job.slot, job.dir)
    BY <1>1, <2>1 DEF CallOwns, SlotOK, HasSlot
  <2>6. job.dir # 0 /\ own[c] = job.dir
    <3>1. RootSectors \in Nat /\ cluster_to_lba(c) \in Nat
      BY <2>3, Fat16Assumption DEF Lbas
    <3> QED
      BY <1>2, <2>3, <2>4, <2>5, <3>1 DEF SlotIn, Alive
  <2> QED
    BY <1>4, <2>1, <2>6
<1>19. CASE PowerLoss
  <2>1. UNCHANGED sec
    BY <1>19 DEF PowerLoss
  <2>2. CASE UNCHANGED fat
    BY <1>3, <2>1, <2>2
  <2>3. CASE pc = "eoc" /\ \E d \in Clusters : IsNextFit(d) /\ fat_write_entry(d, EOC, 1)
    BY <1>7, <1>8, <2>1, <2>3 DEF IsNextFit
  <2>4. CASE pc = "link" /\ fat_write_entry(job.last, job.new, 1)
    BY <1>7, <1>9, <2>1, <2>4
  <2>5. CASE pc = "free" /\ job.cur \in Clusters /\ fat_write_entry(job.cur, FREE, 1)
    BY <1>7, <1>10, <2>1, <2>5
  <2> QED
    BY <1>19, <2>2, <2>3, <2>4, <2>5 DEF PowerLoss
<1> QED
  BY <1>11, <1>12, <1>13, <1>14, <1>15, <1>16, <1>17, <1>18, <1>19, <1>20
     DEF Next, Driver, Extend, Release, Finish

(* The sector of a file that holds its i-th cell is one of the file's.     *)
LEMMA SectorOfCell ==
    ASSUME NEW p \in Nat \ {0}, NEW n \in Nat, NEW i \in 1 .. p * n
    PROVE  ((i - 1) \div p) + 1 \in 1 .. n
<1>1. PICK q : q = (i - 1) \div p
  OBVIOUS
<1>2. q \in Nat /\ p * q <= i - 1
  BY <1>1
<1>3. ~(q >= n)
  <2>1. ASSUME q >= n PROVE p * n <= p * q
    BY <1>2, <2>1
  <2> QED
    BY <1>2, <2>1
<1> QED
  BY <1>1, <1>2, <1>3

(* A file that no step of the call writes to reads as before.              *)
LEMMA ReadsSame ==
    ASSUME TypeOK, TypeOK', NEW S \in SUBSET Clusters, NEW e \in CellType,
           \A c \in S : ~Changed(c) /\ (fat[1][c] \in Clusters => fat[1][c] \in S),
           e.first \in Clusters => e.first \in S
    PROVE  ReadFile(e)' = ReadFile(e)
<1>1. PICK t, u, f, k : t = fat[1] /\ u = fat'[1] /\ f = e.first /\ k = e.size
  OBVIOUS
<1>2. /\ t \in [Clusters -> Links] /\ u \in [Clusters -> Links] /\ f \in Links /\ k \in Nat
      /\ f \in Clusters => f \in S
  BY <1>1 DEF TypeOK, Links, CellType, FREE
<1>3. \A d \in Clusters \cap S : u[d] = t[d] /\ (t[d] \in Clusters => t[d] \in S)
  BY <1>1 DEF Changed
<1>4. ChainIn(u, f) = ChainIn(t, f)
  BY <1>2, <1>3, ChainSame
<1>5. PICK chain : chain = ChainIn(t, f)
  OBVIOUS
<1>6. chain \in Seq(Clusters \cap S)
  BY <1>2, <1>3, <1>5, ChainWithin
<1>7. Chain(f) = chain /\ Chain(f)' = chain
  BY <1>1, <1>4, <1>5 DEF Chain
<1>8. PICK h : h = PerSector * Len(chain)
  OBVIOUS
<1>9. Len(chain) \in Nat /\ h \in Nat /\ PerSector \in Nat \ {0}
  BY <1>6, <1>8, Fat16Assumption
<1> DEFINE m == IF k < h THEN k ELSE h
<1>10. ASSUME NEW i \in 1 .. m
       PROVE  sec'[cluster_to_lba(chain[((i - 1) \div PerSector) + 1])]
              = sec[cluster_to_lba(chain[((i - 1) \div PerSector) + 1])]
  <2>1. i \in 1 .. PerSector * Len(chain)
    BY <1>2, <1>8, <1>9, <1>10
  <2>2. ((i - 1) \div PerSector) + 1 \in 1 .. Len(chain)
    BY <1>9, <2>1, SectorOfCell
  <2>3. PICK x : x = ((i - 1) \div PerSector) + 1
    OBVIOUS
  <2>4. chain[x] \in S
    BY <1>6, <2>2, <2>3
  <2> QED
    BY <2>3, <2>4 DEF Changed
<1>11. ReadFile(e) = [i \in 1 .. m |-> sec[cluster_to_lba(chain[((i - 1) \div PerSector) + 1])]
                                          [((i - 1) % PerSector) + 1]]
  BY <1>1, <1>7, <1>8 DEF ReadFile
<1>12. ReadFile(e)' = [i \in 1 .. m |-> sec'[cluster_to_lba(chain[((i - 1) \div PerSector) + 1])]
                                          [((i - 1) % PerSector) + 1]]
  BY <1>1, <1>7, <1>8 DEF ReadFile
<1> HIDE DEF m
<1> QED
  BY <1>10, <1>11, <1>12

(* What a step of a call on one entry does to the other files: nothing.    *)
LEMMA IntactStep ==
    ASSUME OwnedInv, Next, Calm, "wild" \notin harm', NEW s \in Slots, CellAt(s).kind = "entry",
           ~CellAt(s).dir, ~(job.freed /\ s = job.slot)
    PROVE  \A e : e = CellAt(s) => ReadFile(e)' = ReadFile(e)
<1>1. TypeInv /\ TypeInv'
  BY TypeStep DEF OwnedInv, Inv
<1>2. PICK own \in Owners, dirs \in SUBSET Clusters : Before(own, dirs)
  BY <1>1, CalmBefore
<1>3. /\ TypeOK /\ TypeOK' /\ LinkedOnce /\ LinksOwned(own) /\ EntriesOwn(own, dirs)
  BY <1>1, <1>2 DEF TypeInv, Before, Owned, DiskOwned
<1>4. PICK e : e = CellAt(s)
  OBVIOUS
<1>5. e \in CellType /\ e.first \in Clusters \cup {0} /\ ~e.dir
  BY <1>3, <1>4 DEF TypeOK, CellAt, Slots, CellType
<1> DEFINE S == {c \in Clusters : e.first \in Clusters /\ own[c] = e.first /\ fat[1][c] # FREE}
<1>6. e.first \in Clusters => /\ Refers(s, e.first) /\ own[e.first] = e.first /\ e.first \notin dirs
                              /\ fat[1][e.first] # FREE
  BY <1>3, <1>4, <1>5 DEF Refers, EntriesOwn, LinkedOnce
<1>7. e.first \in Clusters => e.first \in S
  BY <1>6
<1>8. ASSUME NEW c \in S PROVE ~Changed(c)
  BY <1>2, <1>6, <1>8, WritesOwn
<1>9. ASSUME NEW c \in S, fat[1][c] \in Clusters PROVE fat[1][c] \in S
  <2>1. own[fat[1][c]] = e.first
    BY <1>3, <1>9 DEF LinksOwned
  <2>2. fat[1][fat[1][c]] # FREE
    BY <1>3, <1>9 DEF LinkedOnce
  <2> QED
    BY <1>9, <2>1, <2>2
<1>10. S \in SUBSET Clusters
  OBVIOUS
<1> HIDE DEF S
<1>11. ReadFile(e)' = ReadFile(e)
  BY <1>3, <1>5, <1>7, <1>8, <1>9, <1>10, ReadsSame
<1> QED
  BY <1>4, <1>11

(***************************************************************************)
(* No step of fat16_write_file, fat16_create or fat16_delete changes what  *)
(* any file but its own reads as, on a volume of any size and whatever     *)
(* power losses, read errors (those of the table included) and write errors*)
(* came before, as long as no rewrite or removal was cut short, no         *)
(* directory was written over as a file and no walk of free_cluster_chain  *)
(* that lost its chain to a failed read wrote to entry 0xFFF7, beyond the  *)
(* table: that one may clear a word of any file.                           *)
(***************************************************************************)
THEOREM OtherFilesIntact == Spec => OthersIntact
<1> DEFINE A == harm' \cap {"torn", "overdir", "wild"} = {} =>
                  \A s \in Slots :
                     CellAt(s).kind = "entry" /\ ~CellAt(s).dir /\ s # job.slot
                       /\ CellAt(s)' = CellAt(s)
                     => ReadFile(CellAt(s))' = ReadFile(CellAt(s))
<1>1. Init => OwnedInv
  BY InitOwned
<1>2. OwnedInv /\ [Next]_vars => OwnedInv'
  BY OwnedStep
<1>3. OwnedInv /\ [Next]_vars => [A]_vars
  <2> SUFFICES ASSUME OwnedInv, Next, Calm', NEW s \in Slots, CellAt(s).kind = "entry", ~CellAt(s).dir,
                      s # job.slot, CellAt(s)' = CellAt(s)
               PROVE  ReadFile(CellAt(s))' = ReadFile(CellAt(s))
    BY DEF Calm
  <2>1. PICK e : e = CellAt(s)
    OBVIOUS
  <2>4. Calm /\ "wild" \notin harm'
    BY HarmGrows DEF OwnedInv, Inv, Calm
  <2>2. ReadFile(e)' = ReadFile(e)
    BY <2>1, <2>4, IntactStep
  <2>3. ReadFile(CellAt(s))' = ReadFile(e)'
    BY <2>1
  <2> QED
    BY <2>1, <2>2, <2>3
<1> QED
  BY <1>1, <1>2, <1>3, PTL DEF Spec, OthersIntact

-----------------------------------------------------------------------------
(***************************************************************************)
(* What the clusters of a volume hold, as long as no error, no loss of     *)
(* power, no removal of a directory that is not empty and no file written  *)
(* over a directory has happened.  For every volume: no directory shows    *)
(* the data of a deleted file, and the clusters marked used are those that *)
(* files and directories are made of.                                      *)
(***************************************************************************)

(* Files and free clusters hold no entries that refer to anything,         *)
(* directories no data.                                                    *)
Barren(c) == \A i \in Cells : sec[cluster_to_lba(c)][i].first = 0
Dataless(c) == \A i \in Cells : sec[cluster_to_lba(c)][i].kind # "data"
Fresh(c) == pc \in {"link", "zero"} /\ c = job.new
Contents(own, dirs) ==
    \A c \in Clusters :
        /\ fat[1][c] = FREE \/ own[c] \in Clusters \ dirs => Barren(c)
        /\ pc \in {"link", "zero", "data"} /\ c = job.new => Barren(c)
        /\ pc = "dirent" /\ job.ent.first # 0 /\ own[c] = job.ent.first => Barren(c)
        /\ fat[1][c] # FREE /\ own[c] \in dirs /\ ~Fresh(c) => Dataless(c)

(* A chain is extended at its end.                                         *)
Ends ==
    /\ pc = "scan" /\ job.dir # 0 => job.cur = job.csec \/ job.cur = fat[1][job.csec]
    /\ pc \in {"eoc", "link"} /\ job.last # 0 => fat[1][job.last] \notin Clusters
    /\ pc \in {"link", "zero", "data"} => fat[1][job.new] = EOC
    /\ pc = "zero" => job.last = 0 \/ fat[1][job.last] = job.new
    /\ pc = "data" =>
          /\ job.last = job.new
          /\ job.new = job.first \/ \E p \in Clusters : fat[1][p] = job.new

(* The clusters the running call holds, and the sets that contain whatever *)
(* can be reached from those and from the root directory                   *)
Roots ==
    (IF pc \in {"eoc", "link", "zero", "data"} THEN {job.first} ELSE {})
    \cup (IF pc \in {"link", "zero", "data"} THEN {job.new} ELSE {})
    \cup (IF pc = "dirent" THEN {job.ent.first} ELSE {})
    \cup (IF pc = "free" THEN {job.cur} ELSE {})
Keeps(S) ==
    /\ Roots \cap Clusters \subseteq S
    /\ \A s \in Slots, c \in Clusters : Refers(s, c) /\ s.lba <= RootSectors => c \in S
    /\ \A s \in Slots, c \in Clusters, d \in S : Refers(s, c) /\ s.lba = cluster_to_lba(d) => c \in S
    /\ \A d \in S : fat[1][d] \in Clusters => fat[1][d] \in S
Used == Clusters \ FreeClusters
Accounted == \A S \in SUBSET Clusters : Keeps(S) => Used \subseteq S

Filled(own, dirs) == Owned(own, dirs) /\ Contents(own, dirs) /\ Ends /\ Accounted
FilledInv ==
    /\ OwnedInv
    /\ harm = {} => \E own \in Owners, dirs \in SUBSET Clusters : Filled(own, dirs)

-----------------------------------------------------------------------------
(* Steps that write nothing *)

(* A step that gives up nothing the call holds, and no entry that refers   *)
(* to something it does not hold, loses no cluster.                        *)
LEMMA AccountedSame ==
    ASSUME Accounted, fat'[1] = fat[1], Roots \cap Clusters \subseteq Roots',
           \A s \in Slots, c \in Clusters : Refers(s, c) => Refers(s, c)' \/ c \in Roots'
    PROVE  Accounted'
<1> SUFFICES ASSUME NEW S \in SUBSET Clusters, Keeps(S)' PROVE Used' \subseteq S
  BY DEF Accounted
<1>1. Used' = Used
  BY DEF Used, FreeClusters, fat_read_entry
<1>2. Roots' \cap Clusters \subseteq S
  BY DEF Keeps
<1>3. Keeps(S)
  <2>1. Roots \cap Clusters \subseteq S
    BY <1>2
  <2>2. \A s \in Slots, c \in Clusters : Refers(s, c) /\ s.lba <= RootSectors => c \in S
    BY <1>2 DEF Keeps
  <2>3. \A s \in Slots, c \in Clusters, d \in S : Refers(s, c) /\ s.lba = cluster_to_lba(d) => c \in S
    BY <1>2 DEF Keeps
  <2>4. \A d \in S : fat[1][d] \in Clusters => fat[1][d] \in S
    BY DEF Keeps
  <2> QED
    BY <2>1, <2>2, <2>3, <2>4 DEF Keeps
<1> QED
  BY <1>1, <1>3 DEF Accounted

(* What such a step may do to the call's locals                            *)
Still ==
    /\ UNCHANGED <<fat, sec>>
    /\ pc \in {"idle", "scan", "eoc", "free"}
    /\ pc' \in {"idle", "scan", "free", "eoc", "mark", "dirent"}
    /\ pc' = "dirent" => job'.ent.first = 0
    /\ pc' = "scan" /\ job'.dir # 0 => job'.cur = job'.csec \/ job'.cur = fat[1][job'.csec]
    /\ pc' = "eoc" /\ job'.last # 0 => fat[1][job'.last] \notin Clusters
    /\ Roots \cap Clusters \subseteq Roots'
    /\ \A s \in Slots, c \in Clusters : Refers(s, c) => Refers(s, c)' \/ c \in Roots'

(* Nothing is said of clusters that it could break.                        *)
LEMMA StillFilled ==
    ASSUME NEW own, NEW dirs, Filled(own, dirs), Still, Owned(own, dirs)'
    PROVE  Filled(own, dirs)'
<1>1. UNCHANGED <<fat, sec>>
  BY DEF Still
<1>2. Contents(own, dirs)'
  <2> SUFFICES ASSUME NEW c \in Clusters
               PROVE  /\ fat[1][c] = FREE \/ own[c] \in Clusters \ dirs => Barren(c)'
                      /\ ~(pc' \in {"link", "zero", "data"})
                      /\ ~(pc' = "dirent" /\ job'.ent.first # 0)
                      /\ fat[1][c] # FREE /\ own[c] \in dirs => Dataless(c)'
    BY <1>1 DEF Contents
  <2>1. (Barren(c)' <=> Barren(c)) /\ (Dataless(c)' <=> Dataless(c)) /\ ~Fresh(c)
    BY <1>1 DEF Barren, Dataless, Fresh, Still
  <2> QED
    BY <2>1 DEF Filled, Contents, Still
<1>3. Ends'
  BY <1>1 DEF Ends, Still
<1>4. Accounted'
  BY <1>1, AccountedSame DEF Filled, Still
<1> QED
  BY <1>2, <1>3, <1>4 DEF Filled

(* A call begins, or the terminal moves.                                   *)
LEMMA CommandStill ==
    ASSUME TypeInv, TerminalCall \/ DesktopCall \/ CdUp \/ CdRoot
    PROVE  Still
<1>1. pc = "idle" /\ UNCHANGED <<fat, sec>> /\ ~job.freed
  <2>1. pc = "idle" /\ UNCHANGED <<fat, sec>>
    BY DEF TerminalCall, DesktopCall, Call, CdUp, CdRoot, disk
  <2> QED
    BY <2>1 DEF TypeInv, JobOK, NoJob, NewJob
<1>2. /\ pc' \in {"idle", "scan"} /\ ~job'.freed
      /\ pc' = "scan" /\ job'.dir # 0 => job'.cur = job'.csec
  <2>1. ASSUME NEW op, NEW d, NEW n, NEW v, NEW len, Call(op, d, n, v, len)
        PROVE  pc' = "scan" /\ ~job'.freed /\ (job'.dir # 0 => job'.cur = job'.csec)
    BY <2>1 DEF Call, Goto, NewJob
  <2>2. CASE TerminalCall \/ DesktopCall
    BY <2>1, <2>2 DEF TerminalCall, DesktopCall
  <2>3. CASE CdUp \/ CdRoot
    BY <1>1, <2>3 DEF CdUp, CdRoot
  <2> QED
    BY <2>2, <2>3
<1>3. Roots = {}
  BY <1>1 DEF Roots
<1>4. \A s \in Slots, c \in Clusters : Refers(s, c)' <=> Refers(s, c)
  BY <1>1, <1>2, RefsSame
<1> QED
  BY <1>1, <1>2, <1>3, <1>4 DEF Still

(* WriteOn at the start of a file: no cluster is held yet.                 *)
LEMMA WriteOnStarts ==
    ASSUME NEW j \in JobType, WriteOn(j), j.first = 0, j.last = 0
    PROVE  pc' \in {"eoc", "dirent"} /\ (pc' = "dirent" => job'.ent.first = 0) /\ job'.last = 0
<1>1. CASE j.done < j.len
  BY <1>1 DEF WriteOn, Goto, JobType
<1>2. CASE ~(j.done < j.len)
  <2>1. PICK e : e = Placed(j.ent, 0, j.len)
    OBVIOUS
  <2>2. j.ent \in CellType /\ j.len \in Nat
    BY DEF JobType
  <2>3. e.first = 0
    BY <2>1, <2>2, PlacedType
  <2>4. pc' = "dirent" /\ job' = [j EXCEPT !.ent = e]
    BY <1>2, <2>1 DEF WriteOn, Goto
  <2> QED
    BY <2>3, <2>4 DEF JobType
<1> QED
  BY <1>1, <1>2

(* A name that was not there: the slot is all the call holds.              *)
LEMMA NotFoundStarts ==
    ASSUME NEW s \in Slots, NEW j0 \in JobType, NotFound(s, j0), j0.op # "none",
           j0.first = 0, j0.last = 0
    PROVE  /\ pc' \in {"idle", "eoc", "dirent"} /\ (pc' = "dirent" => job'.ent.first = 0)
           /\ pc' = "eoc" => job'.last = 0
<1> DEFINE e == Entry(j0.name, j0.op = "mkdir")
           j == [j0 EXCEPT !.slot = s, !.ent = e]
<1>1. e \in CellType /\ e.first = 0
  <2>1. e \in CellType
    BY CellTypes DEF JobType
  <2> QED
    BY <2>1 DEF Entry, Blank
<1>2. j \in JobType /\ j.ent = e /\ j.first = 0 /\ j.last = 0
  <2> HIDE DEF e
  <2> QED
    BY <1>1 DEF JobType
<1> HIDE DEF e
<1>3. CASE j0.op \in {"cd", "rm"}
  BY <1>3 DEF NotFound, Return
<1>4. CASE j0.op = "touch"
  BY <1>1, <1>2, <1>4 DEF NotFound, Goto, e
<1>5. CASE j0.op = "mkdir"
  <2>1. Goto("eoc", [j EXCEPT !.why = "mkdir"])
    BY <1>5 DEF NotFound, e
  <2> QED
    BY <1>2, <2>1 DEF Goto, JobType
<1>6. CASE j0.op = "echo"
  <2>1. WriteOn(j)
    BY <1>6 DEF NotFound, e
  <2> HIDE DEF j
  <2> QED
    BY <1>2, <2>1, WriteOnStarts
<1> QED
  BY <1>3, <1>4, <1>5, <1>6 DEF JobType, Ops

(* The name was found: the entry's chain, if it is to be freed, is now the *)
(* call's.                                                                 *)
LEMMA ScanHitStill ==
    ASSUME TypeInv, ScanHit
    PROVE  Still
<1>1. /\ pc = "scan" /\ UNCHANGED <<fat, sec>> /\ ~Exhausted
      /\ job \in JobType /\ ~job.freed /\ job.first = 0 /\ job.last = 0 /\ job.op # "none"
  BY DEF ScanHit, disk, TypeInv, TypeOK, JobOK
<1>2. PICK s : s \in Slots /\ Found(s)
  <2>1. PICK i \in Cells : Found([lba |-> ScanLba, idx |-> i])
    BY DEF ScanHit
  <2> QED
    BY <1>1, <2>1, ScanLbaType DEF Slots
<1>3. PICK e : e = CellAt(s)
  OBVIOUS
<1>4. e \in CellType /\ e.first \in Clusters \cup {0}
  BY <1>2, <1>3 DEF TypeInv, TypeOK, CellAt, Slots, CellType
<1> DEFINE j == [job EXCEPT !.slot = s, !.ent = e]
<1>5. j \in JobType /\ j.first = 0 /\ j.last = 0 /\ j.slot = s /\ j.freed = job.freed
  BY <1>1, <1>2, <1>4 DEF JobType
<1> HIDE DEF j
<1>6. \/ Return(TRUE) \/ Return(FALSE)
      \/ Goto("mark", j)
      \/ WriteOn(j)
      \/ \E w \in {"rewrite", "delete"} :
            Goto("free", [j EXCEPT !.why = w, !.freed = TRUE, !.cur = e.first])
  BY <1>1, <1>2, <1>3 DEF Found, j, JobType, Ops
<1>7. Roots = {}
  BY <1>1 DEF Roots
<1>8. CASE ~job'.freed /\ pc' \in {"idle", "mark", "eoc", "dirent"} /\ (pc' = "dirent" => job'.ent.first = 0)
           /\ (pc' = "eoc" => job'.last = 0)
  <2>1. \A t \in Slots, c \in Clusters : Refers(t, c)' <=> Refers(t, c)
    BY <1>1, <1>8, RefsSame
  <2> QED
    BY <1>1, <1>7, <1>8, <2>1 DEF Still
<1>9. CASE Return(TRUE) \/ Return(FALSE) \/ Goto("mark", j)
  BY <1>1, <1>5, <1>8, <1>9 DEF Return, NoJob, NewJob, Goto
<1>10. CASE WriteOn(j)
  BY <1>1, <1>5, <1>8, <1>10, WriteOnStarts, WriteOnKeeps
<1>11. ASSUME NEW w \in {"rewrite", "delete"},
              Goto("free", [j EXCEPT !.why = w, !.freed = TRUE, !.cur = e.first])
       PROVE  Still
  <2>1. pc' = "free" /\ job'.cur = e.first /\ job'.slot = s
    BY <1>5, <1>11 DEF Goto, JobType
  <2>2. Roots' = {e.first}
    BY <2>1 DEF Roots
  <2>3. ASSUME NEW t \in Slots, NEW c \in Clusters, Refers(t, c) PROVE Refers(t, c)' \/ c \in Roots'
    <3>1. CASE t = s
      BY <1>3, <2>2, <2>3, <3>1 DEF Refers
    <3>2. CASE t # s
      BY <1>1, <2>1, <2>3, <3>2 DEF Refers, CellAt
    <3> QED
      BY <3>1, <3>2
  <2> QED
    BY <1>1, <1>7, <2>1, <2>3 DEF Still
<1> QED
  BY <1>6, <1>9, <1>10, <1>11

(* The scan goes on, or ends without the name.                             *)
LEMMA ScanOnStill ==
    ASSUME TypeInv, Ends, ScanEndMarker \/ ScanNextSector \/ ScanExhausted
    PROVE  Still
<1>1. /\ pc = "scan" /\ UNCHANGED <<fat, sec>>
      /\ job \in JobType /\ ~job.freed /\ job.first = 0 /\ job.last = 0 /\ job.op # "none"
      /\ job.dir # 0 => job.csec # 0 /\ job.cur \in Answers
  BY DEF ScanEndMarker, ScanNextSector, ScanOn, ScanExhausted, disk, TypeInv, TypeOK, JobOK
<1>2. Roots = {}
  BY <1>1 DEF Roots
<1>3. ASSUME ~job'.freed PROVE \A s \in Slots, c \in Clusters : Refers(s, c)' <=> Refers(s, c)
  BY <1>1, <1>3, RefsSame
<1>4. CASE ScanEndMarker
  <2>1. PICK i \in Cells, s0 \in Slots \cup {NoSlot} :
           NotFound(IF s0 = NoSlot THEN [lba |-> ScanLba, idx |-> i] ELSE s0, job)
    BY <1>4 DEF ScanEndMarker
  <2>2. PICK s : s = IF s0 = NoSlot THEN [lba |-> ScanLba, idx |-> i] ELSE s0
    OBVIOUS
  <2>3. s \in Slots /\ NotFound(s, job)
    <3>1. ScanLba \in Lbas
      BY <1>1, <1>4, ScanLbaType DEF ScanEndMarker
    <3> QED
      BY <2>1, <2>2, <3>1 DEF Slots
  <2>4. /\ pc' \in {"idle", "eoc", "dirent"} /\ (pc' = "dirent" => job'.ent.first = 0)
        /\ pc' = "eoc" => job'.last = 0
    BY <1>1, <2>3, NotFoundStarts
  <2>5. ~job'.freed
    BY <1>1, <2>3, NotFoundKeeps
  <2> QED
    BY <1>1, <1>2, <1>3, <2>4, <2>5 DEF Still
<1>5. CASE ScanNextSector
  <2>1. PICK s \in Slots \cup {NoSlot} :
          Goto("scan", [job EXCEPT !.free = s, !.csec = IF job.dir = 0 THEN 0 ELSE job.cur, !.cur = NextSector])
    BY <1>5 DEF ScanNextSector, ScanOn
  <2>2. /\ pc' = "scan" /\ job'.freed = job.freed /\ job'.dir = job.dir /\ job'.cur = NextSector
        /\ job.dir # 0 => job'.csec = job.cur
    BY <1>1, <2>1 DEF Goto, JobType
  <2>3. job'.dir # 0 => job'.cur = fat[1][job'.csec]
    BY <2>2 DEF NextSector, fat_read_entry
  <2> QED
    BY <1>1, <1>2, <1>3, <2>2, <2>3 DEF Still
<1>6. CASE ScanExhausted
  <2>1. RanOffTheEnd /\ Exhausted
    BY <1>6 DEF ScanExhausted
  <2>2. CASE job.op = "cd" \/ job.dir = 0
    <3>1. pc' = "idle" /\ ~job'.freed
      BY <2>1, <2>2 DEF RanOffTheEnd, Return, NoJob, NewJob
    <3> QED
      BY <1>1, <1>2, <1>3, <3>1 DEF Still
  <2>3. CASE ~(job.op = "cd" \/ job.dir = 0)
    <3>1. Goto("eoc", [job EXCEPT !.why = "slot", !.last = job.csec])
      BY <2>1, <2>3 DEF RanOffTheEnd
    <3>2. pc' = "eoc" /\ job'.last = job.csec /\ job'.freed = job.freed
      BY <1>1, <3>1 DEF Goto, JobType
    <3>3. job.cur \notin Clusters /\ job.csec \in Clusters
      BY <1>1, <2>1, <2>3, AnswerIsCluster DEF Exhausted, JobType
    <3>4. fat[1][job.csec] \notin Clusters
      BY <1>1, <2>3, <3>3 DEF Ends
    <3> QED
      BY <1>1, <1>2, <1>3, <3>2, <3>4 DEF Still
  <2> QED
    BY <2>2, <2>3
<1> QED
  BY <1>4, <1>5, <1>6

(* The disk is full: what was allocated for the file is about to be freed. *)
LEMMA DiskFullStill ==
    ASSUME TypeInv, DiskFull, harm' = {}
    PROVE  Still
<1>1. /\ pc = "eoc" /\ UNCHANGED <<fat, sec>> /\ job \in JobType /\ ExtendFailed({})
      /\ job.why # "data" => job.first = 0
  BY DEF DiskFull, disk, TypeInv, TypeOK, JobOK
<1>2. Roots = {job.first}
  BY <1>1 DEF Roots
<1>3. CASE job.why = "data" /\ job.first # 0
  <2>1. Goto("free", [job EXCEPT !.why = "undo", !.cur = job.first])
    BY <1>1, <1>3 DEF ExtendFailed
  <2>2. pc' = "free" /\ job'.cur = job.first /\ job'.freed = job.freed /\ job'.slot = job.slot
    BY <1>1, <2>1 DEF Goto, JobType
  <2>3. Roots' = {job.first}
    BY <2>2 DEF Roots
  <2>4. \A s \in Slots, c \in Clusters : Refers(s, c)' <=> Refers(s, c)
    BY <1>1, <2>2, RefsSame
  <2> QED
    BY <1>1, <1>2, <2>2, <2>3, <2>4 DEF Still
<1>4. CASE ~(job.why = "data" /\ job.first # 0)
  <2>1. Return(FALSE) /\ harm' = harm \cup ({} \cup TornIf(job.freed))
    BY <1>1, <1>4 DEF ExtendFailed, Harm
  <2>2. pc' = "idle" /\ ~job.freed /\ ~job'.freed
    BY <2>1 DEF Return, NoJob, NewJob, TornIf
  <2>3. \A s \in Slots, c \in Clusters : Refers(s, c)' <=> Refers(s, c)
    BY <1>1, <2>2, RefsSame
  <2>4. Roots \cap Clusters = {}
    BY <1>1, <1>2, <1>4 DEF Clusters
  <2> QED
    BY <1>1, <2>2, <2>3, <2>4 DEF Still
<1> QED
  BY <1>3, <1>4

(* The chain is freed: the call goes on with its entry, or gives up.       *)
LEMMA FreeDoneStill ==
    ASSUME TypeInv, FreeDone, harm' = {}
    PROVE  Still
<1>1. /\ pc = "free" /\ UNCHANGED <<fat, sec>> /\ job \in JobType /\ job.cur \in Answers
      /\ job.why \in {"delete", "rewrite", "undo"} /\ ~InChain(job.cur)
      /\ job.why # "undo" => job.first = 0 /\ job.last = 0
  BY DEF FreeDone, disk, TypeInv, TypeOK, JobOK
<1>2. Roots \cap Clusters = {}
  BY <1>1, AnswerIsCluster DEF Roots
<1>3. ASSUME pc' \in {"idle", "mark", "eoc", "dirent"}, pc' = "dirent" => job'.ent.first = 0,
             pc' = "eoc" => job'.last = 0,
             (~job.freed /\ ~job'.freed) \/ (job'.freed = job.freed /\ job'.slot = job.slot)
      PROVE  Still
  <2>1. \A s \in Slots, c \in Clusters : Refers(s, c)' <=> Refers(s, c)
    BY <1>1, <1>3, RefsSame
  <2> QED
    BY <1>1, <1>2, <1>3, <2>1 DEF Still
<1>4. CASE job.why = "delete"
  <2>1. pc' = "mark" /\ job' = job
    BY <1>4 DEF FreeDone, Goto
  <2> QED
    BY <1>3, <2>1
<1>5. CASE job.why = "rewrite"
  <2>1. WriteOn(job)
    BY <1>5 DEF FreeDone
  <2> QED
    BY <1>1, <1>3, <1>5, <2>1, WriteOnStarts, WriteOnKeeps
<1>6. CASE job.why = "undo"
  <2>1. Return(FALSE) /\ harm' = harm \cup TornIf(job.freed)
    BY <1>6 DEF FreeDone, Harm
  <2>2. pc' = "idle" /\ ~job.freed /\ ~job'.freed
    BY <2>1 DEF Return, NoJob, NewJob, TornIf
  <2> QED
    BY <1>3, <2>2
<1> QED
  BY <1>1, <1>4, <1>5, <1>6

(* A walk that lost its chain and met a word that ends it.                 *)
LEMMA FreeBeyondStill ==
    ASSUME TypeInv, FreeBeyond, "wild" \notin harm'
    PROVE  Still
<1>1. /\ pc = "free" /\ UNCHANGED <<fat, sec>> /\ job \in JobType /\ job.cur = BAD
      /\ pc' = "free" /\ job' = [job EXCEPT !.cur = FREE]
  BY BeyondHarmless DEF FreeBeyond, Goto, TypeInv, TypeOK
<1>2. job'.cur = FREE /\ job'.freed = job.freed /\ job'.slot = job.slot
  BY <1>1 DEF JobType
<1>3. Roots \cap Clusters = {} /\ Roots' \cap Clusters = {}
  BY <1>1, <1>2, NoClusters DEF Roots
<1>4. \A s \in Slots, c \in Clusters : Refers(s, c)' <=> Refers(s, c)
  BY <1>1, <1>2, RefsSame
<1> QED
  BY <1>1, <1>3, <1>4 DEF Still

-----------------------------------------------------------------------------
(* Steps that write *)

(* A free cluster is taken; the call holds it.                             *)
LEMMA AllocatesFilled ==
    ASSUME NEW own, NEW dirs, Before(own, dirs), Filled(own, dirs), NEW n, Allocates(n)
    PROVE  \E own2 \in Owners, dirs2 \in SUBSET Clusters : Filled(own2, dirs2)'
<1>1. PICK own2, dirs2 : own2 = AllocOwn(own, n) /\ dirs2 = AllocDirs(dirs, n, job.why = "mkdir")
  OBVIOUS
<1>2. own2 \in Owners /\ dirs2 \in SUBSET Clusters /\ Owned(own2, dirs2)'
  BY <1>1, AllocatesOwned
<1>3. /\ TypeOK /\ job \in JobType /\ own \in Owners /\ Contents(own, dirs) /\ Ends /\ Accounted
      /\ pc = "eoc" /\ n \in Clusters /\ fat[1][n] = FREE /\ UNCHANGED sec /\ EOC \in Links
      /\ 2 \in 0 .. 2
  BY DEF Allocates, Before, TypeInv, TypeOK, Filled, Links
<1>4. /\ pc' = IF job.last >= 2 THEN "link" ELSE "zero"
      /\ job' = [job EXCEPT !.new = n]
  BY DEF Allocates, Goto
<1>5. /\ job'.new = n /\ job'.first = job.first /\ job'.last = job.last
      /\ job'.freed = job.freed /\ job'.slot = job.slot
  BY <1>3, <1>4 DEF JobType
<1>6. \A c \in Clusters : fat'[1][c] = IF c = n THEN EOC ELSE fat[1][c]
  <2>1. fat'[1] = [fat[1] EXCEPT ![n] = EOC]
    BY <1>3, FatWriteType DEF Allocates
  <2> QED
    BY <1>3, <2>1 DEF TypeOK
<1>7. EOC # FREE /\ EOC \notin Clusters /\ FREE \notin Clusters
  BY Fat16Assumption DEF EOC, FREE, Clusters
<1>8. Contents(own2, dirs2)'
  <2> SUFFICES ASSUME NEW c \in Clusters
               PROVE  /\ fat'[1][c] = FREE \/ own2[c] \in Clusters \ dirs2 => Barren(c)'
                      /\ c = n => Barren(c)'
                      /\ fat'[1][c] # FREE /\ own2[c] \in dirs2 /\ c # n => Dataless(c)'
    BY <1>4, <1>5 DEF Contents, Fresh
  <2>1. (Barren(c)' <=> Barren(c)) /\ (Dataless(c)' <=> Dataless(c)) /\ ~Fresh(c)
    BY <1>3 DEF Barren, Dataless, Fresh
  <2>2. CASE c = n
    BY <1>3, <2>1, <2>2 DEF Contents
  <2>3. CASE c # n
    <3>1. (own2[c] = own[c] /\ own[c] # n) \/ own2[c] = 0
      BY <1>1, <2>3 DEF AllocOwn
    <3>2. 0 \notin Clusters /\ 0 \notin dirs2 /\ \A h : h # n => (h \in dirs2 <=> h \in dirs)
      BY <1>1, <1>2 DEF Clusters, AllocDirs
    <3> QED
      BY <1>3, <1>6, <2>1, <2>3, <3>1, <3>2 DEF Contents
  <2> QED
    BY <2>2, <2>3
<1>9. Ends'
  <2>1. job.last # 0 => fat'[1][job.last] \notin Clusters
    BY <1>3, <1>6, <1>7 DEF Ends, JobType
  <2>2. pc' = "zero" => job.last = 0
    BY <1>3, <1>4 DEF JobType, Clusters
  <2> QED
    BY <1>3, <1>4, <1>5, <1>6, <2>1, <2>2 DEF Ends
<1>10. Accounted'
  <2> SUFFICES ASSUME NEW S \in SUBSET Clusters, Keeps(S)' PROVE Used' \subseteq S
    BY DEF Accounted
  <2>1. n \in Roots' /\ Roots \cap Clusters \subseteq Roots'
    BY <1>3, <1>4, <1>5 DEF Roots
  <2>2. \A s \in Slots, c \in Clusters : Refers(s, c)' <=> Refers(s, c)
    BY <1>3, <1>5, RefsSame
  <2>3. n \in S /\ Used' = Used \cup {n}
    BY <1>3, <1>6, <1>7, <2>1 DEF Keeps, Used, FreeClusters, fat_read_entry
  <2>4. Keeps(S)
    <3>1. Roots \cap Clusters \subseteq S
      BY <2>1 DEF Keeps
    <3>2. \A d \in S : fat[1][d] \in Clusters => fat[1][d] \in S
      BY <1>3, <1>6, <1>7 DEF Keeps
    <3> QED
      BY <2>2, <3>1, <3>2 DEF Keeps
  <2> QED
    BY <1>3, <2>3, <2>4 DEF Accounted
<1> QED
  BY <1>2, <1>8, <1>9, <1>10 DEF Filled

(* It is appended to the chain it is for.                                  *)
LEMMA LinkFilled ==
    ASSUME NEW own, NEW dirs, Before(own, dirs), Filled(own, dirs), pc = "link",
           fat_write_entry(job.last, job.new, 2), Goto("zero", job), UNCHANGED <<sec, path>>
    PROVE  \E own2 \in Owners, dirs2 \in SUBSET Clusters : Filled(own2, dirs2)'
<1>1. PICK own2, n, l : own2 = [own EXCEPT ![n] = own[l]] /\ n = job.new /\ l = job.last
  OBVIOUS
<1>2. own2 \in Owners /\ dirs \in SUBSET Clusters /\ Owned(own2, dirs)'
  BY <1>1, LinksOwnedStep DEF Before
<1>3. /\ TypeInv /\ TypeOK /\ job \in JobType /\ own \in Owners /\ Contents(own, dirs) /\ Ends /\ Accounted
      /\ InFlight /\ n \in Clusters /\ l \in Clusters /\ n \in Links /\ pc' = "zero" /\ job' = job
      /\ PathOK(own, dirs) /\ CallerOK /\ GrowOK(own) /\ FileOK(own, dirs) /\ LinkOK(own)
      /\ 2 \in 0 .. 2
  BY <1>1 DEF Before, TypeInv, TypeOK, JobOK, JobType, Filled, Links, Goto, Owned, DiskOwned, CallOwns
<1>4. \A c \in Clusters : fat'[1][c] = IF c = l THEN n ELSE fat[1][c]
  <2>1. fat_write_entry(l, n, 2)
    BY <1>1
  <2>2. fat'[1] = [fat[1] EXCEPT ![l] = n]
    BY <1>3, <2>1, FatWriteType
  <2> QED
    BY <1>3, <2>2 DEF TypeOK
<1>5. EOC # FREE /\ EOC \notin Clusters /\ FREE \notin Clusters
  BY Fat16Assumption DEF EOC, FREE, Clusters
<1>6. Held(n) /\ n # job.first /\ own[n] = n /\ fat[1][n] = EOC /\ fat[1][l] \notin Clusters /\ l # 0
  BY <1>1, <1>3 DEF InFlight, LinkOK, Ends, Clusters
<1>7. l # n /\ fat[1][l] # FREE
  <2>1. CASE job.why = "slot"
    <3>1. Alive(own, l, job.dir) /\ job.dir # 0
      BY <1>1, <1>3, <2>1 DEF GrowOK
    <3>2. \E s \in Slots : Refers(s, job.dir)
      BY <1>2, <1>3, <3>1, DirOnPath, PathReferred
    <3> QED
      BY <1>3, <1>6, <3>1, <3>2 DEF Alive, Held, NoRef
  <2>2. CASE job.why = "data"
    <3>1. job.first # 0
      BY <1>1, <1>3, <1>6, <2>2 DEF TypeInv, JobOK
    <3>2. Alive(own, l, job.first)
      BY <1>1, <1>3, <2>2, <3>1 DEF FileOK
    <3> QED
      BY <1>6, <3>2 DEF Alive
  <2> QED
    BY <1>1, <1>3, <1>6, <2>1, <2>2 DEF TypeInv, JobOK
<1>8. Contents(own2, dirs)'
  <2> SUFFICES ASSUME NEW c \in Clusters
               PROVE  /\ fat'[1][c] = FREE \/ own2[c] \in Clusters \ dirs => Barren(c)'
                      /\ c = n => Barren(c)'
                      /\ fat'[1][c] # FREE /\ own2[c] \in dirs /\ c # n => Dataless(c)'
    BY <1>1, <1>3 DEF Contents, Fresh
  <2>1. (Barren(c)' <=> Barren(c)) /\ (Dataless(c)' <=> Dataless(c))
    BY DEF Barren, Dataless
  <2>2. CASE c = n
    BY <1>1, <1>3, <2>1, <2>2 DEF Contents
  <2>3. CASE c # n
    <3>1. own2[c] = own[c] /\ ~Fresh(c) /\ (fat'[1][c] = FREE <=> fat[1][c] = FREE)
      BY <1>1, <1>3, <1>4, <1>5, <1>7, <2>3 DEF Owners, Fresh
    <3> QED
      BY <1>3, <2>1, <2>3, <3>1 DEF Contents
  <2> QED
    BY <2>2, <2>3
<1>9. Ends'
  BY <1>1, <1>3, <1>4, <1>6, <1>7 DEF Ends
<1>10. Accounted'
  <2> SUFFICES ASSUME NEW S \in SUBSET Clusters, Keeps(S)' PROVE Used' \subseteq S
    BY DEF Accounted
  <2>1. Roots' = Roots
    BY <1>3 DEF Roots
  <2>2. \A s \in Slots, c \in Clusters : Refers(s, c)' <=> Refers(s, c)
    BY <1>3, RefsSame
  <2>3. Used' = Used
    BY <1>3, <1>4, <1>5, <1>7 DEF Used, FreeClusters, fat_read_entry
  <2>4. Keeps(S)
    <3>1. \A d \in S : fat[1][d] \in Clusters => fat[1][d] \in S
      BY <1>3, <1>4, <1>6 DEF Keeps
    <3> QED
      BY <2>1, <2>2, <3>1 DEF Keeps
  <2> QED
    BY <1>3, <2>3, <2>4 DEF Accounted
<1> QED
  BY <1>2, <1>8, <1>9, <1>10 DEF Filled

(* A cluster the call lets go of is not lost when it is the end of a chain *)
(* that somebody keeps.                                                    *)
LEMMA AccountedDrop ==
    ASSUME TypeOK, Accounted, fat'[1] = fat[1], NEW n \in Clusters, Barren(n), fat[1][n] \notin Clusters,
           Roots \cap Clusters \subseteq Roots' \cup {n},
           \A s \in Slots, c \in Clusters : Refers(s, c)' <=> Refers(s, c),
           NEW p \in Clusters, fat[1][p] = n
    PROVE  Accounted'
<1> SUFFICES ASSUME NEW S \in SUBSET Clusters, Keeps(S)' PROVE Used' \subseteq S
  BY DEF Accounted
<1>1. Used' = Used
  BY DEF Used, FreeClusters, fat_read_entry
<1> DEFINE T == S \cup {n}
<1>2. T \in SUBSET Clusters
  OBVIOUS
<1>3. Keeps(T)
  <2>1. Roots \cap Clusters \subseteq T
    BY DEF Keeps
  <2>2. \A s \in Slots, c \in Clusters : Refers(s, c) /\ s.lba <= RootSectors => c \in T
    BY DEF Keeps
  <2>3. \A s \in Slots, c \in Clusters, d \in T : Refers(s, c) /\ s.lba = cluster_to_lba(d) => c \in T
    <3>1. \A s \in Slots, c \in Clusters : s.lba = cluster_to_lba(n) => ~Refers(s, c)
      BY DEF Barren, Refers, CellAt, Slots, Clusters
    <3> QED
      BY <3>1 DEF Keeps
  <2>4. \A d \in T : fat[1][d] \in Clusters => fat[1][d] \in T
    BY DEF Keeps
  <2> HIDE DEF T
  <2> QED
    BY <2>1, <2>2, <2>3, <2>4 DEF Keeps
<1>4. Used \subseteq T
  <2> HIDE DEF T
  <2> QED
    BY <1>2, <1>3 DEF Accounted
<1>5. p \in Used /\ p # n
  BY DEF Used, FreeClusters, fat_read_entry, FREE, Clusters
<1>6. n \in S
  BY <1>4, <1>5 DEF Keeps
<1> QED
  BY <1>1, <1>4, <1>6

(* Writing over a cluster without entries by one without entries changes   *)
(* no reference.                                                           *)
LEMMA OverwriteSame ==
    ASSUME TypeOK, NEW n \in Clusters, Barren(n), NEW z \in [Cells -> CellType],
           \A i \in Cells : z[i].first = 0, sec' = [sec EXCEPT ![cluster_to_lba(n)] = z],
           (~job.freed /\ ~job'.freed) \/ (job'.freed = job.freed /\ job'.slot = job.slot)
    PROVE  /\ \A s \in Slots, c \in Clusters : Refers(s, c)' <=> Refers(s, c)
           /\ \A c \in Clusters : sec'[cluster_to_lba(c)] = IF c = n THEN z ELSE sec[cluster_to_lba(c)]
<1>1. \A c \in Clusters : cluster_to_lba(c) \in Lbas /\ (cluster_to_lba(c) = cluster_to_lba(n) => c = n)
  <2>1. \A c \in Clusters : cluster_to_lba(c) = cluster_to_lba(n) => c = n
    BY Fat16Assumption DEF cluster_to_lba, Clusters
  <2> QED
    BY <2>1, ClusterLba
<1>2. \A l \in Lbas : sec'[l] = IF l = cluster_to_lba(n) THEN z ELSE sec[l]
  BY DEF TypeOK
<1>3. ASSUME NEW s \in Slots, NEW c \in Clusters PROVE Refers(s, c)' <=> Refers(s, c)
  <2>1. s.lba \in Lbas /\ s.idx \in Cells /\ c # 0
    BY DEF Slots, Clusters
  <2>2. CASE s.lba = cluster_to_lba(n)
    BY <1>2, <2>1, <2>2 DEF Refers, CellAt, Barren
  <2>3. CASE s.lba # cluster_to_lba(n)
    BY <1>2, <2>1, <2>3 DEF Refers, CellAt
  <2> QED
    BY <2>2, <2>3
<1> QED
  BY <1>1, <1>2, <1>3

(* The new cluster is zeroed, and used for what it was wanted for.         *)
LEMMA ZeroFilled ==
    ASSUME NEW own, NEW dirs, Before(own, dirs), Filled(own, dirs), pc = "zero", Extended,
           UNCHANGED <<fat, path>>, sec' = [sec EXCEPT ![cluster_to_lba(job.new)] = ZeroSector]
    PROVE  Filled(own, dirs)'
<1>1. PICK n : n = job.new
  OBVIOUS
<1>2. /\ TypeInv /\ TypeOK /\ job \in JobType /\ n \in Clusters /\ Contents(own, dirs) /\ Ends /\ Accounted
      /\ NewDirOK(own, dirs) /\ job.op # "none" /\ Owned(own, dirs)'
  BY <1>1, ZeroOwned DEF Before, TypeInv, TypeOK, JobOK, JobType, Filled, Owned, CallOwns
<1>3. Barren(n) /\ fat[1][n] = EOC /\ EOC \notin Clusters
  <2>1. EOC \notin Clusters
    BY Fat16Assumption DEF EOC, Clusters
  <2> QED
    BY <1>1, <1>2, <2>1 DEF Contents, Ends
<1>4. ZeroSector \in [Cells -> CellType] /\ \A i \in Cells : ZeroSector[i].first = 0 /\ ZeroSector[i].kind # "data"
  BY <1>2, SectorTypes DEF ZeroSector, Blank
<1>5. PICK z : z = ZeroSector
  OBVIOUS
<1>6. Roots \cap Clusters \subseteq {job.first, n}
  BY <1>1, <1>2 DEF Roots
(* All three parts follow from what the three callers do.                  *)
<1>7. ASSUME (~job.freed /\ ~job'.freed) \/ (job'.freed = job.freed /\ job'.slot = job.slot),
             pc' \in {"idle", "eoc", "dirent", "data"},
             pc' = "dirent" /\ job'.ent.first # 0 => \A c \in Clusters : own[c] = job'.ent.first => c = n,
             pc' = "data" => job'.new = n,
             pc' = "eoc" => job'.last = 0,
             pc' = "data" => job'.last = n /\ (n = job'.first \/ \E p \in Clusters : fat[1][p] = n),
             \/ Roots \cap Clusters \subseteq Roots'
             \/ Roots \cap Clusters \subseteq {n} /\ \E p \in Clusters : fat[1][p] = n
      PROVE  Filled(own, dirs)'
  <2>1. /\ \A s \in Slots, c \in Clusters : Refers(s, c)' <=> Refers(s, c)
        /\ \A c \in Clusters : sec'[cluster_to_lba(c)] = IF c = n THEN z ELSE sec[cluster_to_lba(c)]
    <3>1. sec' = [sec EXCEPT ![cluster_to_lba(n)] = z] /\ z \in [Cells -> CellType]
          /\ \A i \in Cells : z[i].first = 0
      BY <1>1, <1>4, <1>5
    <3>2. (~job.freed /\ ~job'.freed) \/ (job'.freed = job.freed /\ job'.slot = job.slot)
      BY <1>7, Zenon
    <3>3. TypeOK /\ n \in Clusters /\ Barren(n)
      BY <1>2, <1>3
    <3> QED
      BY <3>1, <3>2, <3>3, OverwriteSame
  <2>2. Contents(own, dirs)'
    <3> SUFFICES ASSUME NEW c \in Clusters
                 PROVE  /\ fat[1][c] = FREE \/ own[c] \in Clusters \ dirs => Barren(c)'
                        /\ c = n => Barren(c)'
                        /\ fat[1][c] # FREE /\ own[c] \in dirs => Dataless(c)'
      BY <1>7 DEF Contents, Fresh
    <3>1. CASE c = n
      BY <1>4, <1>5, <2>1, <3>1 DEF Barren, Dataless
    <3>2. CASE c # n
      <4>1. (Barren(c)' <=> Barren(c)) /\ (Dataless(c)' <=> Dataless(c)) /\ ~Fresh(c)
        BY <1>1, <2>1, <3>2 DEF Barren, Dataless, Fresh
      <4> QED
        BY <1>2, <3>2, <4>1 DEF Contents
    <3> QED
      BY <3>1, <3>2
  <2>3. Ends'
    BY <1>3, <1>7 DEF Ends
  <2>4. Accounted'
    <3>1. CASE Roots \cap Clusters \subseteq Roots'
      BY <1>2, <2>1, <3>1, AccountedSame
    <3>2. CASE Roots \cap Clusters \subseteq {n} /\ \E p \in Clusters : fat[1][p] = n
      <4>1. PICK p \in Clusters : fat[1][p] = n
        BY <3>2
      <4> QED
        BY <1>2, <1>3, <2>1, <3>2, <4>1, AccountedDrop
    <3> QED
      BY <1>7, <3>1, <3>2
  <2> QED
    BY <1>2, <2>2, <2>3, <2>4 DEF Filled
<1>8. job.last # 0 => job.last \in Clusters /\ fat[1][job.last] = n
  BY <1>1, <1>2 DEF Ends, JobType
<1>9. CASE job.why = "slot"
  <2>1. job.first = 0 /\ job.last # 0 /\ ~job.freed
    BY <1>2, <1>9 DEF TypeInv, JobOK
  <2>2. PICK j : j = [job EXCEPT !.last = 0]
    OBVIOUS
  <2>3. j \in JobType /\ j.op # "none" /\ j.first = 0 /\ j.last = 0 /\ ~j.freed
    BY <1>2, <2>1, <2>2 DEF JobType
  <2>4. PICK s : s = [lba |-> cluster_to_lba(n), idx |-> 1]
    OBVIOUS
  <2>5. s \in Slots
    BY <1>2, <2>4, ClusterLba, Fat16Assumption DEF Slots, Cells
  <2>6. NotFound(s, j)
    BY <1>1, <1>9, <2>2, <2>4 DEF Extended
  <2>7. /\ pc' \in {"idle", "eoc", "dirent"} /\ (pc' = "dirent" => job'.ent.first = 0)
        /\ pc' = "eoc" => job'.last = 0
    BY <2>3, <2>5, <2>6, NotFoundStarts
  <2>8. ~job'.freed
    BY <2>3, <2>5, <2>6, NotFoundKeeps
  <2>9. Roots \cap Clusters \subseteq {n}
    BY <1>6, <2>1 DEF Clusters
  <2> QED
    BY <1>7, <1>8, <2>1, <2>7, <2>8, <2>9
<1>10. CASE job.why = "mkdir"
  <2>1. job.first = 0
    BY <1>2, <1>10 DEF TypeInv, JobOK
  <2>2. PICK e : e = Placed(job.ent, n, 0)
    OBVIOUS
  <2>3. e \in CellType /\ e.first = n
    <3>1. job.ent \in CellType /\ n \in Clusters \cup {0} /\ 0 \in Nat
      BY <1>2 DEF JobType
    <3> QED
      BY <2>2, <3>1, PlacedType
  <2>4. pc' = "dirent" /\ job' = [job EXCEPT !.ent = e]
    BY <1>1, <1>10, <2>2 DEF Extended, Goto
  <2>5. job'.ent = e /\ job'.freed = job.freed /\ job'.slot = job.slot
    BY <1>2, <2>4 DEF JobType
  <2>6. \A c \in Clusters : own[c] = n => c = n
    BY <1>1, <1>2, <1>10 DEF NewDirOK
  <2>7. Roots \cap Clusters \subseteq Roots'
    BY <1>6, <2>1, <2>3, <2>4, <2>5 DEF Roots, Clusters
  <2> QED
    BY <1>7, <2>3, <2>4, <2>5, <2>6, <2>7
<1>11. CASE job.why = "data"
  <2>1. job.first = 0 <=> job.last = 0
    BY <1>2, <1>11 DEF TypeInv, JobOK
  <2>2. /\ pc' = "data"
        /\ job' = [job EXCEPT !.last = n, !.first = IF job.first = 0 THEN n ELSE job.first]
    BY <1>1, <1>11 DEF Extended, Goto
  <2>3. /\ job'.new = n /\ job'.last = n /\ job'.freed = job.freed /\ job'.slot = job.slot
        /\ job'.first = IF job.first = 0 THEN n ELSE job.first
    BY <1>1, <1>2, <2>2 DEF JobType
  <2>4. n = job'.first \/ \E p \in Clusters : fat[1][p] = n
    BY <1>8, <2>1, <2>3
  <2>5. Roots \cap Clusters \subseteq Roots'
    BY <1>6, <2>2, <2>3 DEF Roots, Clusters
  <2> QED
    BY <1>7, <2>2, <2>3, <2>4, <2>5
<1> QED
  BY <1>2, <1>9, <1>10, <1>11 DEF TypeInv, JobOK

(* A sector of the file is written.                                        *)
LEMMA DataFilled ==
    ASSUME NEW own, NEW dirs, Before(own, dirs), Filled(own, dirs), WriteData, harm' = {}
    PROVE  Filled(own, dirs)'
<1> DEFINE done == IF job.done + PerSector < job.len THEN job.done + PerSector ELSE job.len
           j == [job EXCEPT !.done = done]
<1>1. /\ pc = "data" /\ UNCHANGED <<fat, path>> /\ WriteOn(j)
      /\ sec' = [sec EXCEPT ![cluster_to_lba(job.new)] = FileSector]
  BY DEF WriteData, Harm
<1>2. PICK n, f : n = job.new /\ f = job.first
  OBVIOUS
<1>3. /\ TypeInv /\ TypeOK /\ job \in JobType /\ n \in Clusters /\ f \in Clusters
      /\ Contents(own, dirs) /\ Ends /\ Accounted /\ Owned(own, dirs) /\ FileOK(own, dirs)
  BY <1>1, <1>2 DEF Before, TypeInv, TypeOK, JobOK, JobType, Filled, Owned, CallOwns
<1>4. Owned(own, dirs)'
  <2>1. Finish /\ Calm'
    BY DEF Finish, Calm
  <2> QED
    BY <2>1, FinishOwned
<1>5. done \in Nat
  BY <1>3, Fat16Assumption DEF JobType
<1> HIDE DEF done
<1>6. /\ j \in JobType /\ j.first = f /\ j.slot = job.slot /\ j.freed = job.freed /\ j.last = job.last
  BY <1>2, <1>3, <1>5 DEF JobType
<1> HIDE DEF j
<1>7. job'.freed = job.freed /\ job'.slot = job.slot
  BY <1>1, <1>6, WriteOnKeeps
<1>8. Barren(n) /\ fat[1][n] = EOC /\ EOC \notin Clusters /\ f \notin dirs /\ own[n] = f
  <2>1. EOC \notin Clusters
    BY Fat16Assumption DEF EOC, Clusters
  <2>2. f # 0
    BY <1>3 DEF Clusters
  <2> QED
    BY <1>1, <1>2, <1>3, <2>1, <2>2 DEF Contents, Ends, FileOK, Alive
<1>9. PICK z : z = FileSector
  OBVIOUS
<1>10. z \in [Cells -> CellType] /\ \A i \in Cells : z[i].first = 0
  BY <1>3, <1>9, SectorTypes DEF FileSector, DataCell, Blank
<1>11. /\ \A s \in Slots, c \in Clusters : Refers(s, c)' <=> Refers(s, c)
       /\ \A c \in Clusters : sec'[cluster_to_lba(c)] = IF c = n THEN z ELSE sec[cluster_to_lba(c)]
  <2>1. sec' = [sec EXCEPT ![cluster_to_lba(n)] = z]
    BY <1>1, <1>2, <1>9
  <2>2. TypeOK /\ n \in Clusters /\ Barren(n)
    BY <1>3, <1>8
  <2> QED
    BY <1>7, <1>10, <2>1, <2>2, OverwriteSame
<1>12. /\ pc' \in {"eoc", "dirent"} /\ (pc' = "eoc" => job'.first = f /\ job'.last = job.last)
       /\ pc' = "dirent" => job'.ent.first = f
  <2>1. CASE j.done < j.len
    BY <1>6, <2>1, <1>1 DEF WriteOn, Goto, JobType
  <2>2. CASE ~(j.done < j.len)
    <3>1. PICK e : e = Placed(j.ent, f, j.len)
      OBVIOUS
    <3>2. j.ent \in CellType /\ j.len \in Nat /\ f \in Clusters \cup {0}
      BY <1>3, <1>6 DEF JobType
    <3>3. e.first = f
      BY <3>1, <3>2, PlacedType
    <3>4. pc' = "dirent" /\ job' = [j EXCEPT !.ent = e]
      BY <1>1, <1>6, <2>2, <3>1 DEF WriteOn, Goto
    <3> QED
      BY <1>6, <3>3, <3>4 DEF JobType
  <2> QED
    BY <2>1, <2>2
<1>13. Contents(own, dirs)'
  <2> SUFFICES ASSUME NEW c \in Clusters
               PROVE  /\ fat[1][c] = FREE \/ own[c] \in Clusters \ dirs => Barren(c)'
                      /\ fat[1][c] # FREE /\ own[c] \in dirs => Dataless(c)'
    BY <1>1, <1>3, <1>8, <1>12 DEF Contents, Fresh
  <2>1. CASE c = n
    BY <1>8, <1>10, <1>11, <2>1 DEF Barren
  <2>2. CASE c # n
    <3>1. (Barren(c)' <=> Barren(c)) /\ (Dataless(c)' <=> Dataless(c)) /\ ~Fresh(c)
      BY <1>1, <1>11, <2>2 DEF Barren, Dataless, Fresh
    <3> QED
      BY <1>3, <2>2, <3>1 DEF Contents
  <2> QED
    BY <2>1, <2>2
<1>14. Ends'
  BY <1>1, <1>2, <1>3, <1>8, <1>12 DEF Ends
<1>15. Accounted'
  <2>1. Roots \cap Clusters \subseteq {f, n} /\ f \in Roots'
    BY <1>1, <1>2, <1>12 DEF Roots
  <2>2. CASE n = f
    BY <1>1, <1>3, <1>11, <2>1, <2>2, AccountedSame
  <2>3. CASE n # f
    <3>1. PICK p \in Clusters : fat[1][p] = n
      BY <1>1, <1>2, <1>3, <2>3 DEF Ends
    <3> QED
      BY <1>1, <1>3, <1>8, <1>11, <2>1, <3>1, AccountedDrop
  <2> QED
    BY <2>2, <2>3
<1> QED
  BY <1>4, <1>13, <1>14, <1>15 DEF Filled

(* A cluster of a chain nobody refers to is freed; it held no entries.     *)
LEMMA FreeFilled ==
    ASSUME NEW own, NEW dirs, Before(own, dirs), Filled(own, dirs), FreeCluster, harm' = {}
    PROVE  Filled(own, dirs)'
<1>1. PICK x : x = job.cur
  OBVIOUS
<1>2. /\ TypeInv /\ TypeOK /\ job \in JobType /\ x \in Clusters /\ pc = "free" /\ UNCHANGED sec
      /\ Contents(own, dirs) /\ Ends /\ Accounted /\ PlainCells /\ FreeOK(own, dirs)
      /\ 2 \in 0 .. 2 /\ FREE \in Links
  <2>1. job.cur \in Answers /\ InChain(job.cur) /\ job.cur # BAD
    BY DEF Before, TypeInv, JobOK, FreeCluster
  <2>2. x \in Clusters
    BY <1>1, <2>1, AnswerIsCluster
  <2> QED
    BY <2>2 DEF Before, TypeInv, TypeOK, Filled, Owned, DiskOwned, CallOwns, FreeCluster, Links
<1>3. Owned(own, dirs)'
  <2>1. Release /\ Calm'
    BY DEF Release, Calm
  <2> QED
    BY <2>1, ReleaseOwned
<1>4. /\ fat_write_entry(x, FREE, 2) /\ Goto("free", [job EXCEPT !.cur = fat_read_entry(job.cur, TRUE)])
      /\ harm' = harm \cup (IF job.ent.dir /\ \E i \in Cells : sec[cluster_to_lba(x)][i].kind = "entry"
                            THEN {"orphan"} ELSE {})
  BY <1>1 DEF FreeCluster, Harm
<1>5. pc' = "free" /\ job'.cur = fat[1][x] /\ job'.freed = job.freed /\ job'.slot = job.slot
  BY <1>1, <1>2, <1>4 DEF Goto, fat_read_entry, JobType
<1>6. \A c \in Clusters : fat'[1][c] = IF c = x THEN FREE ELSE fat[1][c]
  <2>1. fat'[1] = [fat[1] EXCEPT ![x] = FREE]
    BY <1>2, <1>4, FatWriteType
  <2> QED
    BY <1>2, <2>1 DEF TypeOK
<1>7. Barren(x)
  <2>1. own[x] = FreeHead /\ FreeHead \in Clusters /\ (FreeHead \in dirs => job.ent.dir)
    BY <1>1, <1>2 DEF FreeOK
  <2>2. CASE FreeHead \notin dirs
    BY <1>2, <2>1, <2>2 DEF Contents
  <2>3. CASE FreeHead \in dirs
    <3>1. \A i \in Cells : sec[cluster_to_lba(x)][i].kind # "entry"
      BY <1>4, <2>1, <2>3
    <3>2. \A i \in Cells : [lba |-> cluster_to_lba(x), idx |-> i] \in Slots
      BY <1>2, ClusterLba DEF Slots
    <3>3. \A i \in Cells : PlainCell(sec[cluster_to_lba(x)][i])
      BY <1>2, <3>2 DEF PlainCells, CellAt
    <3> QED
      BY <3>1, <3>3 DEF PlainCell, Barren
  <2> QED
    BY <2>2, <2>3
<1>8. Contents(own, dirs)'
  <2> SUFFICES ASSUME NEW c \in Clusters
               PROVE  /\ fat'[1][c] = FREE \/ own[c] \in Clusters \ dirs => Barren(c)'
                      /\ fat'[1][c] # FREE /\ own[c] \in dirs => Dataless(c)'
    BY <1>5 DEF Contents
  <2>1. (Barren(c)' <=> Barren(c)) /\ (Dataless(c)' <=> Dataless(c)) /\ ~Fresh(c)
    BY <1>2 DEF Barren, Dataless, Fresh
  <2> QED
    BY <1>2, <1>6, <1>7, <2>1 DEF Contents
<1>9. Ends'
  BY <1>5 DEF Ends
<1>10. Accounted'
  <2> SUFFICES ASSUME NEW S \in SUBSET Clusters, Keeps(S)' PROVE Used' \subseteq S
    BY DEF Accounted
  <2>1. Roots = {x} /\ Roots' = {fat[1][x]}
    BY <1>1, <1>2, <1>5 DEF Roots
  <2>2. \A s \in Slots, c \in Clusters : Refers(s, c)' <=> Refers(s, c)
    BY <1>2, <1>5, RefsSame
  <2>3. Used' = Used \ {x}
    BY <1>2, <1>6 DEF Used, FreeClusters, fat_read_entry
  <2> DEFINE T == S \cup {x}
  <2>4. T \in SUBSET Clusters
    BY <1>2
  <2>5. Keeps(T)
    <3>1. Roots \cap Clusters \subseteq T
      BY <2>1
    <3>2. \A s \in Slots, c \in Clusters : Refers(s, c) /\ s.lba <= RootSectors => c \in T
      BY <2>2 DEF Keeps
    <3>3. \A s \in Slots, c \in Clusters, d \in T : Refers(s, c) /\ s.lba = cluster_to_lba(d) => c \in T
      <4>1. \A s \in Slots, c \in Clusters : s.lba = cluster_to_lba(x) => ~Refers(s, c)
        BY <1>7 DEF Barren, Refers, CellAt, Slots, Clusters
      <4> QED
        BY <2>2, <4>1 DEF Keeps
    <3>4. \A d \in T : fat[1][d] \in Clusters => fat[1][d] \in T
      BY <1>6, <2>1, <2>4 DEF Keeps
    <3> HIDE DEF T
    <3> QED
      BY <3>1, <3>2, <3>3, <3>4 DEF Keeps
  <2>6. Used \subseteq T
    <3> HIDE DEF T
    <3> QED
      BY <1>2, <2>4, <2>5 DEF Accounted
  <2> QED
    BY <2>3, <2>6
<1> QED
  BY <1>3, <1>8, <1>9, <1>10 DEF Filled

(* An entry is written into its directory: no file sees it there.          *)
LEMMA SlotContents ==
    ASSUME NEW own, NEW dirs, Before(own, dirs), Filled(own, dirs), pc \in {"dirent", "mark"}, pc' = "idle",
           UNCHANGED fat, NEW e \in CellType, e.kind # "data", WriteCell(job.slot, e)
    PROVE  Contents(own, dirs)' /\ Ends'
<1>1. PICK s, h : s = job.slot /\ h = job.dir
  OBVIOUS
<1>2. /\ TypeOK /\ s \in Slots /\ Contents(own, dirs) /\ SlotIn(own, s, h) /\ (h # 0 => h \in dirs)
      /\ dirs \in SUBSET Clusters
  <2>1. TypeOK /\ job.slot \in Slots
    BY DEF Before, TypeInv, TypeOK, JobOK, JobType
  <2>2. PathOK(own, dirs) /\ CallerOK /\ SlotOK(own) /\ dirs \in SUBSET Clusters
    BY DEF Before, Owned, DiskOwned, CallOwns
  <2>3. job.dir # 0 => job.dir \in dirs
    BY <2>1, <2>2, DirOnPath
  <2> QED
    BY <1>1, <2>1, <2>2, <2>3 DEF Filled, SlotOK, HasSlot
<1>3. s.lba \in Lbas /\ \A l \in Lbas : /\ l # s.lba => sec'[l] = sec[l]
                                        /\ \A i \in Cells : sec'[l][i] \in {e, sec[l][i]}
  <2>1. s.lba \in Lbas /\ s.idx \in Cells
    BY <1>2 DEF Slots
  <2>2. sec' = [sec EXCEPT ![s.lba][s.idx] = e]
    BY <1>1 DEF WriteCell
  <2> QED
    BY <1>2, <2>1, <2>2 DEF TypeOK
<1>4. Contents(own, dirs)'
  <2> SUFFICES ASSUME NEW c \in Clusters
               PROVE  /\ fat[1][c] = FREE \/ own[c] \in Clusters \ dirs => Barren(c)'
                      /\ fat[1][c] # FREE /\ own[c] \in dirs => Dataless(c)'
    BY DEF Contents
  <2>1. cluster_to_lba(c) \in Lbas /\ cluster_to_lba(c) > RootSectors
        /\ \A d \in Clusters : cluster_to_lba(d) = cluster_to_lba(c) => d = c
    <3>1. cluster_to_lba(c) > RootSectors /\ \A d \in Clusters : cluster_to_lba(d) = cluster_to_lba(c) => d = c
      BY Fat16Assumption DEF cluster_to_lba, Clusters
    <3> QED
      BY <3>1, ClusterLba
  <2>2. CASE s.lba # cluster_to_lba(c)
    <3>1. (Barren(c)' <=> Barren(c)) /\ (Dataless(c)' <=> Dataless(c)) /\ ~Fresh(c)
      BY <1>3, <2>1, <2>2 DEF Barren, Dataless, Fresh
    <3> QED
      BY <1>2, <3>1 DEF Contents
  <2>3. CASE s.lba = cluster_to_lba(c)
    <3>1. h # 0
      <4>1. RootSectors \in Nat /\ cluster_to_lba(c) \in Nat
        BY <2>1, Fat16Assumption DEF Lbas
      <4> QED
        BY <1>2, <2>1, <2>3, <4>1 DEF SlotIn
    <3>2. fat[1][c] # FREE /\ own[c] = h /\ h \in dirs
      BY <1>2, <2>1, <2>3, <3>1 DEF SlotIn, Alive
    <3>3. Dataless(c)
      BY <1>2, <3>2 DEF Contents, Fresh
    <3>4. Dataless(c)'
      BY <1>3, <2>1, <3>3 DEF Dataless
    <3> QED
      BY <3>2, <3>4
  <2> QED
    BY <2>2, <2>3
<1>5. Ends'
  BY DEF Ends
<1> QED
  BY <1>4, <1>5

(* What the call has built belongs to the new entry.                       *)
LEMMA DirentAccounted ==
    ASSUME NEW own, NEW dirs, Before(own, dirs), Filled(own, dirs), pc = "dirent", pc' = "idle", ~job'.freed,
           UNCHANGED fat, WriteCell(job.slot, job.ent)
    PROVE  Accounted'
<1>1. PICK s, h, f, e : s = job.slot /\ h = job.dir /\ f = job.ent.first /\ e = job.ent
  OBVIOUS
<1>2. /\ TypeInv /\ TypeOK /\ LinkedOnce /\ job \in JobType /\ s \in Slots /\ e \in CellType
      /\ f \in Clusters \cup {0} /\ e.first = f
      /\ Contents(own, dirs) /\ Accounted /\ LinksOwned(own) /\ PathOK(own, dirs) /\ CallerOK
      /\ dirs \in SUBSET Clusters
  <2>1. TypeInv /\ TypeOK /\ job \in JobType /\ job.slot \in Slots /\ job.ent \in CellType
    BY DEF Before, TypeInv, TypeOK, JobOK, JobType
  <2>2. f \in Clusters \cup {0} /\ e.first = f
    BY <1>1, <2>1 DEF CellType
  <2> QED
    BY <1>1, <2>1, <2>2 DEF Before, Filled, Owned, DiskOwned, CallOwns
<1>3. /\ SlotIn(own, s, h) /\ (\A c \in Clusters : ~Refers(s, c))
      /\ f \in Clusters => own[f] = f /\ NoRef(f) /\ fat[1][f] # FREE
  <2>1. SlotOK(own) /\ EntryOK(own, dirs) /\ InFlight
    BY DEF Before, Owned, CallOwns
  <2>2. f \in Clusters => f # 0
    BY DEF Clusters
  <2> QED
    BY <1>1, <2>1, <2>2 DEF SlotOK, HasSlot, EntryOK, InFlight, Held
<1>4. \A t \in Slots : CellAt(t)' = IF t = s THEN e ELSE CellAt(t)
  BY <1>1, <1>2, WriteCellType
<1>5. ASSUME NEW t \in Slots, NEW c \in Clusters
      PROVE  Refers(t, c)' <=> Refers(t, c) \/ (t = s /\ c = f)
  <2>1. Refers(t, c)' <=> CellAt(t)'.first = c
    BY DEF Refers
  <2>2. CASE t = s
    BY <1>2, <1>3, <1>4, <2>1, <2>2
  <2>3. CASE t # s
    BY <1>1, <1>4, <2>1, <2>3 DEF Refers
  <2> QED
    BY <2>2, <2>3
<1>6. Roots = {f}
  BY <1>1 DEF Roots
<1>7. CASE f \notin Clusters
  BY <1>2, <1>5, <1>6, <1>7, AccountedSame
<1>8. CASE f \in Clusters
  <2> SUFFICES ASSUME NEW S \in SUBSET Clusters, Keeps(S)' PROVE Used' \subseteq S
    BY DEF Accounted
  <2>1. Used' = Used
    BY DEF Used, FreeClusters, fat_read_entry
  <2>2. /\ \A t \in Slots, c \in Clusters : Refers(t, c) /\ t.lba <= RootSectors => c \in S
        /\ \A t \in Slots, c \in Clusters, d \in S : Refers(t, c) /\ t.lba = cluster_to_lba(d) => c \in S
        /\ \A d \in S : fat[1][d] \in Clusters => fat[1][d] \in S
    BY <1>5 DEF Keeps
  <2>3. f \in S
    <3>1. CASE h = 0
      BY <1>3, <1>5, <1>8, <1>2, <3>1 DEF Keeps, SlotIn
    <3>2. CASE h # 0
      <4>1. PICK d \in Clusters : s.lba = cluster_to_lba(d) /\ own[d] = h /\ fat[1][d] # FREE
        BY <1>3, <3>2 DEF SlotIn, Alive
      <4>2. h # f
        <5>1. \E t \in Slots : Refers(t, h)
          BY <1>1, <1>2, <3>2, DirOnPath, PathReferred
        <5> QED
          BY <1>3, <1>8, <5>1 DEF NoRef
      <4> DEFINE B == {c \in Clusters : own[c] = f}
                 T == S \cup B
      <4>3. T \in SUBSET Clusters
        OBVIOUS
      <4>4. \A c \in B : Barren(c)
        <5>1. f # 0
          BY <1>8 DEF Clusters
        <5> QED
          BY <1>1, <1>2, <5>1 DEF Contents
      <4>5. \A t \in Slots, c \in Clusters, b \in B : ~(Refers(t, c) /\ t.lba = cluster_to_lba(b))
        BY <4>4 DEF Barren, Refers, CellAt, Slots, Clusters
      <4>6. \A b \in B : fat[1][b] \in Clusters => fat[1][b] \in B
        BY <1>2 DEF LinksOwned
      <4>7. f \in B /\ d \notin B
        BY <1>3, <1>8, <4>1, <4>2
      <4> HIDE DEF B
      <4>8. Keeps(T)
        <5>1. Roots \cap Clusters \subseteq T
          BY <1>6, <4>7
        <5>2. \A t \in Slots, c \in Clusters : Refers(t, c) /\ t.lba <= RootSectors => c \in T
          BY <2>2
        <5>3. \A t \in Slots, c \in Clusters, b \in T : Refers(t, c) /\ t.lba = cluster_to_lba(b) => c \in T
          BY <2>2, <4>5
        <5>4. \A b \in T : fat[1][b] \in Clusters => fat[1][b] \in T
          BY <2>2, <4>6
        <5> HIDE DEF T
        <5> QED
          BY <5>1, <5>2, <5>3, <5>4 DEF Keeps
      <4>9. d \in T
        <5>1. d \in Used
          BY <4>1 DEF Used, FreeClusters, fat_read_entry
        <5> HIDE DEF T
        <5> QED
          BY <1>2, <4>3, <4>8, <5>1 DEF Accounted
      <4> QED
        BY <1>2, <1>5, <1>8, <4>1, <4>7, <4>9 DEF Keeps
    <3> QED
      BY <3>1, <3>2
  <2>4. Keeps(S)
    BY <1>6, <2>2, <2>3 DEF Keeps
  <2> QED
    BY <1>2, <2>1, <2>4 DEF Accounted
<1> QED
  BY <1>7, <1>8

(* The entry of a call is written or marked deleted.                       *)
LEMMA EntryFilled ==
    ASSUME NEW own, NEW dirs, Before(own, dirs), Filled(own, dirs), WriteDirent \/ MarkDeleted, harm' = {}
    PROVE  Filled(own, dirs)'
<1>1. Owned(own, dirs)'
  <2>1. Finish /\ Calm'
    BY DEF Finish, Calm
  <2> QED
    BY <2>1, FinishOwned
<1>2. TypeOK /\ job \in JobType /\ Accounted
  BY DEF Before, TypeInv, TypeOK, Filled
<1>3. CASE WriteDirent
  <2>1. /\ pc = "dirent" /\ UNCHANGED fat /\ WriteCell(job.slot, job.ent) /\ Return(TRUE)
    BY <1>3 DEF WriteDirent, Harm
  <2>2. pc' = "idle" /\ ~job'.freed
    BY <2>1 DEF Return, NoJob, NewJob
  <2>3. job.ent \in CellType /\ job.ent.kind # "data"
    BY <1>2, <2>1 DEF JobType, Before, Owned, CallOwns, SlotOK, HasSlot
  <2>4. Contents(own, dirs)' /\ Ends'
    BY <2>1, <2>2, <2>3, SlotContents
  <2>5. Accounted'
    BY <2>1, <2>2, DirentAccounted
  <2> QED
    BY <1>1, <2>4, <2>5 DEF Filled
<1>4. CASE MarkDeleted
  <2>1. /\ pc = "mark" /\ UNCHANGED fat /\ WriteCell(job.slot, Deleted) /\ Return(TRUE)
    BY <1>4 DEF MarkDeleted, Harm
  <2>2. pc' = "idle" /\ ~job'.freed
    BY <2>1 DEF Return, NoJob, NewJob
  <2>3. Deleted \in CellType /\ Deleted.kind # "data"
    BY CellTypes DEF Deleted, Blank
  <2>4. Contents(own, dirs)' /\ Ends'
    BY <2>1, <2>2, <2>3, SlotContents
  <2>5. PICK s, e : s = job.slot /\ e = Deleted
    OBVIOUS
  <2>6. s \in Slots /\ \A c \in Clusters : ~Refers(s, c)
    BY <1>2, <2>1, <2>5 DEF Before, TypeInv, JobOK, JobType, Owned, CallOwns, SlotOK, HasSlot
  <2>7. \A t \in Slots : t # s => CellAt(t)' = CellAt(t)
    <3>1. e \in CellType /\ WriteCell(s, e)
      BY <2>1, <2>3, <2>5
    <3> QED
      BY <1>2, <2>6, <3>1, WriteCellType
  <2>8. \A t \in Slots, c \in Clusters : Refers(t, c) => Refers(t, c)'
    BY <2>2, <2>6, <2>7 DEF Refers
  <2>9. Roots = {}
    BY <2>1 DEF Roots
  <2>10. Accounted'
    BY <1>2, <2>1, <2>8, <2>9, AccountedSame
  <2> QED
    BY <1>1, <2>4, <2>10 DEF Filled
<1> QED
  BY <1>3, <1>4

-----------------------------------------------------------------------------
(* Every step *)

(* Whatever the driver does without a fault keeps what clusters hold.      *)
LEMMA FilledNext ==
    ASSUME NEW own, NEW dirs, Before(own, dirs), Filled(own, dirs), Next, harm' = {}
    PROVE  \E own2 \in Owners, dirs2 \in SUBSET Clusters : Filled(own2, dirs2)'
<1>1. /\ TypeInv /\ own \in Owners /\ dirs \in SUBSET Clusters /\ Ends /\ Calm'
  BY DEF Before, Filled, Calm
<1>2. ASSUME Filled(own, dirs)'
      PROVE  \E own2 \in Owners, dirs2 \in SUBSET Clusters : Filled(own2, dirs2)'
  BY <1>1, <1>2
<1>3. CASE TerminalCall \/ DesktopCall \/ CdUp \/ CdRoot
  <2>1. Owned(own, dirs)' /\ Still
    BY <1>1, <1>3, CommandOwned, CommandStill
  <2> QED
    BY <1>2, <2>1, StillFilled
<1>4. CASE Scan
  <2>1. CASE ScanHit
    <3>1. Owned(own, dirs)' /\ Still
      BY <1>1, <2>1, ScanHitOwned, ScanHitStill
    <3> QED
      BY <1>2, <3>1, StillFilled
  <2>2. CASE ScanEndMarker \/ ScanNextSector \/ ScanExhausted
    <3>1. Owned(own, dirs)' /\ Still
      BY <1>1, <2>2, ScanOnOwned, ScanOnStill
    <3> QED
      BY <1>2, <3>1, StillFilled
  <2>3. ~ScanReadError /\ ~ScanLosesTrack
    BY DEF ScanReadError, ScanLosesTrack, Harm
  <2> QED
    BY <1>4, <2>1, <2>2, <2>3 DEF Scan
<1>5. CASE DiskFull
  <2>1. Still
    BY <1>1, <1>5, DiskFullStill
  <2>2. /\ pc = "eoc" /\ ExtendFailed({}) /\ UNCHANGED <<fat, sec, path>> /\ job \in JobType
        /\ DiskOwned(own, dirs) /\ FileOK(own, dirs) /\ harm' = {}
    BY <1>5 DEF DiskFull, disk, Before, TypeInv, TypeOK, Owned, CallOwns
  <2>3. Kept(own, own)
    BY <2>2 DEF Kept, Alive
  <2>4. CallOwns(own, dirs)'
    BY <2>2, <2>3, ExtendFailedOwned DEF FileOK
  <2>5. (~job.freed /\ ~job'.freed) \/ (job'.freed = job.freed /\ job'.slot = job.slot)
    <3>1. CASE job.why = "data" /\ job.first # 0
      BY <2>2, <3>1 DEF ExtendFailed, Goto, JobType
    <3>2. CASE ~(job.why = "data" /\ job.first # 0)
      BY <2>2, <3>2 DEF ExtendFailed, Return, NoJob, NewJob, Harm, TornIf
    <3> QED
      BY <3>1, <3>2
  <2>6. DiskOwned(own, dirs)'
    <3>1. \A t \in Slots, c \in Clusters : Refers(t, c)' <=> Refers(t, c)
      BY <2>2, <2>5, RefsSame
    <3>2. PlainCells' /\ \A t \in Slots : CellAt(t)' = CellAt(t)
      BY <2>2 DEF DiskOwned, PlainCells, CellAt
    <3> QED
      BY <1>1, <2>2, <3>1, <3>2, SameOwned DEF RefsKept
  <2>7. Owned(own, dirs)'
    BY <2>4, <2>6 DEF Owned
  <2> QED
    BY <1>2, <2>1, <2>7, StillFilled
<1>6. ~(ExtendFailed({"fault"}))
  BY DEF ExtendFailed, Harm
<1>7. CASE MarkEoc
  <2>1. PICK c \in Clusters : /\ IsNextFit(c) /\ fat_write_entry(c, EOC, 2) /\ UNCHANGED harm
                              /\ Goto(IF job.last >= 2 THEN "link" ELSE "zero", [job EXCEPT !.new = c])
    BY <1>6, <1>7 DEF MarkEoc
  <2>2. Allocates(c)
    BY <1>7, <2>1 DEF MarkEoc, Allocates, IsNextFit, FreeClusters, fat_read_entry
  <2> QED
    BY <2>2, AllocatesFilled
<1>8. CASE LinkCluster
  <2>1. /\ pc = "link" /\ UNCHANGED <<sec, path>>
        /\ fat_write_entry(job.last, job.new, 2) /\ Goto("zero", job)
    BY <1>6, <1>8 DEF LinkCluster
  <2> QED
    BY <2>1, LinkFilled
<1>9. CASE ZeroCluster
  <2>1. /\ pc = "zero" /\ UNCHANGED <<fat, path>> /\ Extended
        /\ sec' = [sec EXCEPT ![cluster_to_lba(job.new)] = ZeroSector]
    BY <1>6, <1>9 DEF ZeroCluster, CleanSector
  <2> QED
    BY <1>2, <2>1, ZeroFilled
<1>10. CASE FreeCluster
  BY <1>2, <1>10, FreeFilled
<1>11. CASE FreeDone \/ FreeBeyond
  <2>1. Owned(own, dirs)' /\ Still
    BY <1>1, <1>11, ReleaseOwned, FreeDoneStill, FreeBeyondStill DEF Release
  <2> QED
    BY <1>2, <2>1, StillFilled
<1>15. ~MarkEocUnread /\ ~FreeLosesTrack
  <2>1. ~MarkEocUnread
    BY <1>6 DEF MarkEocUnread, Harm
  <2>2. ~FreeLosesTrack
    BY DEF FreeLosesTrack, Harm
  <2> QED
    BY <2>1, <2>2
<1>12. CASE WriteData
  BY <1>2, <1>12, DataFilled
<1>13. CASE WriteDirent \/ MarkDeleted
  BY <1>2, <1>13, EntryFilled
<1>14. ~PowerLoss
  BY DEF PowerLoss, Harm
<1> QED
  BY <1>3, <1>4, <1>5, <1>7, <1>8, <1>9, <1>10, <1>11, <1>12, <1>13, <1>14, <1>15
     DEF Next, Driver, Extend, Release, Finish

(* The strengthened invariant is inductive.                                *)
LEMMA FilledStep ==
    ASSUME FilledInv, [Next]_vars
    PROVE  FilledInv'
<1>1. OwnedInv /\ OwnedInv' /\ TypeInv
  BY OwnedStep DEF FilledInv, OwnedInv, Inv
<1>2. CASE Next
  <2> SUFFICES ASSUME harm' = {} PROVE \E own \in Owners, dirs \in SUBSET Clusters : Filled(own, dirs)'
    BY <1>1 DEF FilledInv
  <2>1. harm = {}
    BY <1>1, <1>2, HarmGrows
  <2>2. PICK own \in Owners, dirs \in SUBSET Clusters : Filled(own, dirs)
    BY <2>1 DEF FilledInv
  <2>3. Before(own, dirs)
    BY <1>1, <2>1, <2>2 DEF Before, Filled, OwnedInv, Inv
  <2> QED
    BY <1>2, <2>2, <2>3, FilledNext
<1>3. CASE UNCHANGED vars
  <2>1. ASSUME NEW own, NEW dirs, Filled(own, dirs)
        PROVE  Filled(own, dirs)'
    <3>1. Owned(own, dirs)'
      BY <1>3, <2>1, OwnedStutters DEF Filled
    <3>2. Contents(own, dirs)'
      BY <1>3, <2>1 DEF vars, Filled, Contents, Barren, Dataless, Fresh
    <3>3. Ends'
      BY <1>3, <2>1 DEF vars, Filled, Ends
    <3>4. Accounted'
      <4>1. Roots' = Roots /\ (\A s \in Slots, c \in Clusters : Refers(s, c)' <=> Refers(s, c)) /\ fat' = fat
        BY <1>3 DEF vars, Roots, Refers, CellAt
      <4> QED
        BY <2>1, <4>1, AccountedSame DEF Filled
    <3> QED
      BY <3>1, <3>2, <3>3, <3>4 DEF Filled
  <2>2. harm' = harm
    BY <1>3 DEF vars
  <2> QED
    BY <1>1, <2>1, <2>2 DEF FilledInv
<1> QED
  BY <1>2, <1>3

(* On a formatted volume no cluster is used.                               *)
LEMMA InitFilled == Init => FilledInv
<1> SUFFICES ASSUME Init PROVE FilledInv
  OBVIOUS
<1>1. OwnedInv /\ Calm
  BY InitOwned DEF Init, Calm
<1>2. PICK own \in Owners, dirs \in SUBSET Clusters : Owned(own, dirs)
  BY <1>1 DEF OwnedInv
<1>3. pc = "idle" /\ \A c \in Clusters : fat[1][c] = FREE
  BY DEF Init
<1>4. \A c \in Clusters : Barren(c)
  BY ClusterLba DEF Init, Barren, ZeroSector, Blank
<1>5. Contents(own, dirs) /\ Ends
  BY <1>3, <1>4 DEF Contents, Ends
<1>6. Accounted
  BY <1>3 DEF Accounted, Used, FreeClusters, fat_read_entry
<1> QED
  BY <1>1, <1>2, <1>5, <1>6 DEF FilledInv, Filled

(* Between calls a set is closed under what a reader can reach exactly     *)
(* when it is closed under references and links.                           *)
LEMMA IdleClosed ==
    ASSUME TypeInv, pc = "idle", NEW S \in SUBSET Clusters
    PROVE  Closed(S) <=> Keeps(S)
<1>1. ~job.freed /\ Roots = {}
  BY DEF TypeInv, JobOK, NoJob, NewJob, Roots
<1>2. \A l \in Lbas, i \in Cells, c \in Clusters :
         sec[l][i].first = c <=> \E s \in Slots : s.lba = l /\ s.idx = i /\ Refers(s, c)
  <2> SUFFICES ASSUME NEW l \in Lbas, NEW i \in Cells, NEW c \in Clusters
               PROVE  sec[l][i].first = c <=> \E s \in Slots : s.lba = l /\ s.idx = i /\ Refers(s, c)
    OBVIOUS
  <2>1. ASSUME sec[l][i].first = c PROVE \E s \in Slots : s.lba = l /\ s.idx = i /\ Refers(s, c)
    <3>1. PICK s : s = [lba |-> l, idx |-> i]
      OBVIOUS
    <3>2. s \in Slots /\ s.lba = l /\ s.idx = i
      BY <3>1 DEF Slots
    <3>3. Refers(s, c)
      BY <1>1, <2>1, <3>2 DEF Refers, CellAt
    <3> QED
      BY <3>2, <3>3
  <2>2. ASSUME NEW s \in Slots, s.lba = l, s.idx = i, Refers(s, c) PROVE sec[l][i].first = c
    BY <2>2 DEF Refers, CellAt
  <2> QED
    BY <2>1, <2>2
<1>3. /\ \A l \in 1 .. RootSectors : l \in Lbas
      /\ \A l \in Lbas : l <= RootSectors => l \in 1 .. RootSectors
      /\ \A d \in S : cluster_to_lba(d) \in Lbas
  <2>1. /\ \A l \in 1 .. RootSectors : l \in Lbas
        /\ \A l \in Lbas : l <= RootSectors => l \in 1 .. RootSectors
    BY Fat16Assumption DEF Lbas
  <2> QED
    BY <2>1, ClusterLba
<1>4. \A s \in Slots : s.lba \in Lbas /\ s.idx \in Cells
  BY DEF Slots
<1>5. ASSUME Closed(S) PROVE Keeps(S)
  <2>1. \A s \in Slots, c \in Clusters : Refers(s, c) => sec[s.lba][s.idx].first = c
    BY DEF Refers, CellAt
  <2>2. \A s \in Slots, c \in Clusters : Refers(s, c) /\ s.lba <= RootSectors => c \in S
    BY <1>3, <1>4, <1>5, <2>1 DEF Closed
  <2>3. \A s \in Slots, c \in Clusters, d \in S : Refers(s, c) /\ s.lba = cluster_to_lba(d) => c \in S
    BY <1>4, <1>5, <2>1 DEF Closed
  <2> QED
    BY <1>1, <1>5, <2>2, <2>3 DEF Keeps, Closed
<1>6. ASSUME Keeps(S) PROVE Closed(S)
  <2>1. \A l \in 1 .. RootSectors, i \in Cells : sec[l][i].first \in Clusters => sec[l][i].first \in S
    BY <1>2, <1>3, <1>6 DEF Keeps
  <2>2. \A d \in S, i \in Cells :
           sec[cluster_to_lba(d)][i].first \in Clusters => sec[cluster_to_lba(d)][i].first \in S
    BY <1>2, <1>3, <1>6 DEF Keeps
  <2> QED
    BY <1>6, <2>1, <2>2 DEF Closed, Keeps
<1> QED
  BY <1>5, <1>6

(***************************************************************************)
(* On a volume of any size, after any calls during which nothing failed:   *)
(* the clusters marked used are exactly those that files and directories   *)
(* are made of.  Every path through fat16_create, fat16_write_file and     *)
(* fat16_delete, a full disk included, gives back what it took.            *)
(***************************************************************************)
THEOREM NothingLost == Spec => []NoLeak
<1>1. Init => FilledInv
  BY InitFilled
<1>2. FilledInv /\ [Next]_vars => FilledInv'
  BY FilledStep
<1>3. FilledInv => NoLeak
  <2> SUFFICES ASSUME FilledInv, pc = "idle", harm = {} PROVE Used = Reachable
    BY DEF NoLeak, Used
  <2>1. TypeInv /\ LinkedOnce /\ Accounted
    BY DEF FilledInv, OwnedInv, Inv, Filled
  <2>2. \A S \in SUBSET Clusters : Closed(S) => Used \subseteq S
    BY <2>1, IdleClosed DEF Accounted
  <2>3. Used \subseteq Reachable
    BY <2>2 DEF Reachable, Used
  <2>4. Used \in SUBSET Clusters /\ Keeps(Used)
    <3>1. Roots = {}
      BY DEF Roots
    <3> QED
      BY <2>1, <3>1 DEF Keeps, Used, FreeClusters, fat_read_entry, LinkedOnce
  <2>5. Closed(Used)
    BY <2>1, <2>4, IdleClosed
  <2>6. Reachable \subseteq Used
    BY <2>4, <2>5 DEF Reachable
  <2> QED
    BY <2>3, <2>6
<1> QED
  BY <1>1, <1>2, <1>3, PTL DEF Spec

(***************************************************************************)
(* On a volume of any size, after any calls during which nothing failed:   *)
(* no directory holds data of a file, because extend_cluster_chain zeroes  *)
(* a cluster before anyone looks into it.                                  *)
(***************************************************************************)
THEOREM DirectoriesClean == Spec => []NoStaleContents
<1>1. Init => FilledInv
  BY InitFilled
<1>2. FilledInv /\ [Next]_vars => FilledInv'
  BY FilledStep
<1>3. FilledInv => NoStaleContents
  <2> SUFFICES ASSUME FilledInv, pc = "idle", harm = {}, NEW d \in Directories \cap Clusters,
                      NEW k \in 1 .. Len(Chain(d)), NEW i \in Cells
               PROVE  sec[cluster_to_lba(Chain(d)[k])][i].kind # "data"
    BY DEF NoStaleContents
  <2>1. PICK own \in Owners, dirs \in SUBSET Clusters : Filled(own, dirs)
    BY DEF FilledInv
  <2>2. TypeInv /\ TypeOK /\ LinkedOnce /\ LinksOwned(own) /\ EntriesOwn(own, dirs) /\ Contents(own, dirs)
    BY <2>1 DEF FilledInv, OwnedInv, Inv, TypeInv, Filled, Owned, DiskOwned
  <2>3. ~job.freed
    BY <2>2 DEF TypeInv, JobOK, NoJob, NewJob
  <2>4. PICK t \in Slots : CellAt(t).dir /\ CellAt(t).first = d
    BY DEF Directories, Clusters
  <2>5. own[d] = d /\ d \in dirs /\ fat[1][d] # FREE
    <3>1. Refers(t, d)
      BY <2>3, <2>4 DEF Refers
    <3> QED
      BY <2>2, <2>4, <3>1 DEF EntriesOwn, LinkedOnce
  <2> DEFINE S == {c \in Clusters : own[c] = d /\ fat[1][c] # FREE}
  <2>6. \A c \in Clusters \cap S : fat[1][c] \in Clusters => fat[1][c] \in S
    BY <2>2 DEF LinksOwned, LinkedOnce
  <2>7. \A c \in S : Dataless(c)
    BY <2>2, <2>5 DEF Contents, Fresh
  <2>8. d \in S
    BY <2>5
  <2> HIDE DEF S
  <2>9. Chain(d) \in Seq(Clusters \cap S)
    <3>1. fat[1] \in [Clusters -> Links] /\ d \in Links
      BY <2>2 DEF TypeOK, Links
    <3> QED
      BY <2>6, <2>8, <3>1, ChainWithin DEF Chain
  <2>10. Chain(d)[k] \in S
    BY <2>9
  <2> QED
    BY <2>7, <2>10 DEF Dataless
<1> QED
  BY <1>1, <1>2, <1>3, PTL DEF Spec
=============================================================================
