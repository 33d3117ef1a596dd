------------------------------ MODULE BootProofs ------------------------------
(***************************************************************************)
(* For every set of passwords, files and disks, and every order of         *)
(* failures and power losses, up to a rewrite that was cut short: the gate *)
(* opens only for the owner's password, unless a failed read set it aside, *)
(* and can always be met, a volume in use is clean, what is installed is   *)
(* what was staged, and starting the machine destroys no file.             *)
(***************************************************************************)
EXTENDS Boot, TLAPS

Volume == [boot : Sector0, area : [Areas -> {"zero", "old", "volume"}]]
Clearing == {"format fat1", "format fat2", "format root"}
Formatting == {"format boot", "format end"} \cup Clearing
Calling == {"saving", "call", "install"}
Gated == {"new", "confirm", "saving", "network", "locked", "pause", "call", "install"}

Places == {"off", "probe", "mount", "login", "new", "confirm", "saving", "network",
           "locked", "pause", "shell", "call", "install"} \cup Formatting

(* The types, one by one *)
Types ==
    /\ files \in [Names -> Readable \cup {Absent}]
    /\ at \in Places
    /\ disk = NoDisk \/ disk \in Volume
    /\ mounted \in BOOLEAN /\ unread \in BOOLEAN
    /\ typed \in Passwords \cup {NoPassword}
    /\ owner \in Passwords \cup {NoPassword}
    /\ entered \in Passwords \cup {NoPassword}
    /\ attempts \in 0 .. 2 /\ (at = "pause" => attempts = 0)
    /\ staged \subseteq HostFiles \cup UserFiles
    /\ harm \subseteq {"torn", "cut", "own", "reset"}

(* The call that runs, by where the machine stands *)
BusyOK ==
    /\ at \notin Calling => busy = Idle
    /\ at \in {"confirm", "saving"} => typed \in Passwords
    /\ at = "saving" => busy = <<"write", Auth, Record(typed)>> /\ entered = typed
    /\ at = "install" => \E c \in Contents : busy = <<"write", Installed, c>>
    /\ at = "call" =>
          \E op \in {"write", "rm"}, n \in Names, c \in UserFiles :
             /\ busy = <<op, n, c>>
             /\ n \in {Auth, Installed} => "own" \in harm
             /\ op = "write" /\ n = Staged => c \in staged

(* Files are on volumes only, and a volume is formatted only when it holds *)
(* none or could not be read.                                              *)
DiskOK ==
    /\ at \in {"mount"} \cup Formatting => disk # NoDisk
    /\ mounted = TRUE => disk # NoDisk /\ LooksLikeVolume(disk.boot)
    /\ at \in {"off", "probe", "mount"} \cup Formatting => mounted = FALSE
    /\ at \in Gated => mounted = TRUE
    /\ at \in Formatting \ {"format boot"} => disk.boot = FreshBoot
    /\ (\E n \in Names : files[n] # Absent) => disk # NoDisk /\ LooksLikeVolume(disk.boot)
    /\ at \in Formatting => unread = TRUE \/ \A n \in Names : files[n] = Absent

(* The areas a format has cleared when it stands at s *)
DoneAt(s) == IF s = "format fat2" THEN {"fat1"}
             ELSE IF s = "format root" THEN {"fat1", "fat2"}
             ELSE IF s = "format end" THEN Areas
             ELSE {}

CleanOK ==
    "cut" \notin harm /\ disk # NoDisk =>
        IF at \in Formatting \ {"format boot"}
        THEN \A a \in DoneAt(at) : disk.area[a] # "old"
        ELSE LooksLikeVolume(disk.boot) => \A a \in Areas : disk.area[a] # "old"

TypeInv == Types /\ BusyOK /\ DiskOK /\ CleanOK

(* The shell never put a record under the gate's name: either the user did *)
(* not write there, or wrote no record.                                    *)
NoRecordByHand ==
    "own" \in harm => \A p \in Passwords \cup {NoPassword} : Record(p) \notin UserFiles

AuthOK ==
    /\ \/ files[Auth] = Absent
       \/ owner \in Passwords /\ files[Auth] = Record(owner)
       \/ "reset" \in harm /\ files[Auth] \in Records
       \/ "own" \in harm /\ files[Auth] \in UserFiles
    /\ at \in {"locked", "pause"} => IsConfigured
    /\ at \in {"new", "confirm", "saving"} /\ files[Auth] # Absent =>
          unread = TRUE \/ "own" \in harm

GateOK ==
    NoRecordByHand /\ "reset" \notin harm =>
        /\ at = "network" => entered = owner /\ owner \in Passwords
        /\ mounted = TRUE /\ at \in {"shell", "call", "install"} =>
              entered = owner /\ owner \in Passwords

Kernels == Images \cup {Partial}

ImageOK ==
    /\ files[Staged] = Absent \/ files[Staged] \in staged
    /\ "own" \notin harm => files[Installed] = Absent \/ files[Installed] \in staged \cap Kernels
    /\ at = "install" => busy[3] \in staged \cap Kernels

Inv == TypeInv /\ (Whole => AuthOK /\ GateOK /\ ImageOK)

-----------------------------------------------------------------------------
(* Lemmas about places and disks *)

(* The five places of a format, in their order *)
LEMMA OrderListed ==
    /\ FormatOrder[1] = "format boot" /\ FormatOrder[2] = "format fat1"
    /\ FormatOrder[3] = "format fat2" /\ FormatOrder[4] = "format root"
    /\ FormatOrder[5] = "format end"
    /\ \A i \in 1 .. 5 : i = 1 \/ i = 2 \/ i = 3 \/ i = 4 \/ i = 5
  BY DEF FormatOrder

(* Types and the facts about power give the type invariant of the runs. *)
LEMMA TypesSuffice == ASSUME Types, BusyOK, DiskOK PROVE BootTypeOK
<1>1. {FormatOrder[i] : i \in 1 .. 5} = Formatting
  <2>1. \A i \in 1 .. 5 : FormatOrder[i] \in Formatting
    BY OrderListed DEF Formatting, Clearing
  <2>2. ASSUME NEW s \in Formatting PROVE \E i \in 1 .. 5 : FormatOrder[i] = s
    <3>1. 1 \in 1 .. 5 /\ 2 \in 1 .. 5 /\ 3 \in 1 .. 5 /\ 4 \in 1 .. 5 /\ 5 \in 1 .. 5
      OBVIOUS
    <3> QED
      BY <3>1, OrderListed, Zenon DEF Formatting, Clearing
  <2> QED
    BY <2>1, <2>2
<1>2. Places = Prompts \cup Working
  BY <1>1 DEF Prompts, Working, Places
<1>3. NoDisk \in Disks
  BY DEF Disks
<1>4. at = "off" => ~mounted /\ busy = Idle
  BY DEF BusyOK, DiskOK, Calling
<1> QED
  BY <1>2, <1>3, <1>4 DEF Types, BootTypeOK, Volume

(* fat16_format clears the first table, the second and the directory, in   *)
(* this order.                                                             *)
LEMMA FormatSteps ==
    /\ DOMAIN FormatArea = Clearing
    /\ FormatArea["format fat1"] = "fat1" /\ After("format fat1") = "format fat2"
    /\ FormatArea["format fat2"] = "fat2" /\ After("format fat2") = "format root"
    /\ FormatArea["format root"] = "root" /\ After("format root") = "format end"
<1>1. DOMAIN FormatArea = Clearing
  BY DEF FormatArea, Clearing
<1>2. /\ FormatArea["format fat1"] = "fat1"
      /\ FormatArea["format fat2"] = "fat2"
      /\ FormatArea["format root"] = "root"
  BY DEF FormatArea
<1>3. ASSUME NEW i \in 1 .. 4
      PROVE  /\ FormatOrder[i] = "format fat1" <=> i = 2
             /\ FormatOrder[i] = "format fat2" <=> i = 3
             /\ FormatOrder[i] = "format root" <=> i = 4
  <2>1. i = 1 \/ i = 2 \/ i = 3 \/ i = 4
    OBVIOUS
  <2> QED
    BY <2>1, OrderListed
<1>5. After("format fat1") = "format fat2"
  <2>1. 2 \in 1 .. 4 /\ 1 + 2 = 3
    OBVIOUS
  <2>2. (CHOOSE i \in 1 .. 4 : FormatOrder[i] = "format fat1") = 2
    BY <1>3, <2>1, Zenon
  <2> QED
    BY <2>1, <2>2, OrderListed, Zenon DEF After
<1>6. After("format fat2") = "format root"
  <2>1. 3 \in 1 .. 4 /\ 1 + 3 = 4
    OBVIOUS
  <2>2. (CHOOSE i \in 1 .. 4 : FormatOrder[i] = "format fat2") = 3
    BY <1>3, <2>1, Zenon
  <2> QED
    BY <2>1, <2>2, OrderListed, Zenon DEF After
<1>7. After("format root") = "format end"
  <2>1. 4 \in 1 .. 4 /\ 1 + 4 = 5
    OBVIOUS
  <2>2. (CHOOSE i \in 1 .. 4 : FormatOrder[i] = "format root") = 4
    BY <1>3, <2>1, Zenon
  <2> QED
    BY <2>1, <2>2, OrderListed, Zenon DEF After
<1> QED
  BY <1>1, <1>2, <1>5, <1>6, <1>7

(* A disk that is there has a boot sector and the three areas. *)
LEMMA DisksAreVolumes ==
    /\ Disks \subseteq {NoDisk} \cup Volume
    /\ NoDisk \notin Volume
    /\ \A d \in Disks \ {NoDisk} :
          LooksLikeVolume(d.boot) => \A a \in Areas : d.area[a] # "old"
<1>1. NoDisk \notin Volume
  BY DEF NoDisk, Volume, Sector0
<1>2. ZeroBoot \in Sector0 /\ ~LooksLikeVolume(ZeroBoot)
  BY DEF ZeroBoot, Sector0, LooksLikeVolume
<1>3. ASSUME NEW b \in Sector0, NEW how \in {"zero", "old", "volume"}
      PROVE  /\ Disk(b, how) \in Volume
             /\ Disk(b, how).boot = b
             /\ \A a \in Areas : Disk(b, how).area[a] = how
  BY DEF Disk, Volume
<1>4. VolumeBoots \subseteq Sector0
  <2>1. {1, 2} \subseteq 0 .. 3 /\ {TRUE} \subseteq BOOLEAN
    OBVIOUS
  <2> QED
    BY <2>1, Zenon DEF VolumeBoots, Sector0
<1>5. \A b \in Sector0 \ VolumeBoots : ~LooksLikeVolume(b)
  <2> TAKE b \in Sector0 \ VolumeBoots
  <2>1. SUFFICES ASSUME b.sig, b.bps, b.spf, b.nfats \in 1 .. 2 PROVE FALSE
    BY DEF LooksLikeVolume
  <2>2. b = [sig |-> b.sig, bps |-> b.bps, spf |-> b.spf, nfats |-> b.nfats]
    BY DEF Sector0
  <2>3. b.sig \in BOOLEAN /\ b.bps \in BOOLEAN /\ b.spf \in BOOLEAN
    BY DEF Sector0
  <2>4. b.sig = TRUE /\ b.bps = TRUE /\ b.spf = TRUE
    BY <2>1, <2>3
  <2>5. b.nfats \in {1, 2}
    BY <2>1
  <2> QED
    BY <2>2, <2>4, <2>5 DEF VolumeBoots
<1> QED
  BY <1>1, <1>2, <1>3, <1>4, <1>5 DEF Disks

-----------------------------------------------------------------------------
(* The invariant is inductive: the first state, and one lemma per action *)

(* Before the machine is switched on there are no files. *)
LEMMA InitHolds == ASSUME BootInit PROVE Inv
<1> USE DEF BootInit, NoFiles
<1>1. files \in [Names -> Readable \cup {Absent}] /\ \A n \in Names : files[n] = Absent
  OBVIOUS
<1>2. Types
  <2>1. disk = NoDisk \/ disk \in Volume
    BY DisksAreVolumes
  <2>2. at \in Places /\ attempts \in 0 .. 2 /\ at # "pause"
    BY DEF Places
  <2>3. mounted \in BOOLEAN /\ unread \in BOOLEAN
    OBVIOUS
  <2>4. staged \subseteq HostFiles \cup UserFiles /\ harm \subseteq {"torn", "cut", "own", "reset"}
    OBVIOUS
  <2>5. /\ typed \in Passwords \cup {NoPassword}
        /\ owner \in Passwords \cup {NoPassword}
        /\ entered \in Passwords \cup {NoPassword}
    OBVIOUS
  <2> QED
    BY <1>1, <2>1, <2>2, <2>3, <2>4, <2>5 DEF Types
<1>3. BusyOK
  BY DEF BusyOK, Calling
<1>4. DiskOK
  BY <1>1 DEF DiskOK, Formatting, Clearing, Gated
<1>5. CleanOK
  BY DisksAreVolumes DEF CleanOK, Formatting, Clearing
<1>6. AuthOK /\ GateOK /\ ImageOK
  BY <1>1, BootAssumption DEF AuthOK, GateOK, ImageOK
<1> QED
  BY <1>2, <1>3, <1>4, <1>5, <1>6 DEF Inv, TypeInv

(* Switching on and finding the disk change no file. *)
LEMMA StartingHolds == ASSUME Inv, PowerOn \/ Probe \/ Mount PROVE Inv'
<1> USE DEF Inv, TypeInv
<1>1. /\ files' = files /\ busy' = busy /\ disk' = disk /\ typed' = typed
      /\ attempts' = attempts /\ owner' = owner /\ entered' = entered
      /\ staged' = staged /\ harm' = harm
      /\ at \in {"off", "probe", "mount"}
      /\ \/ at' = "probe" /\ UNCHANGED <<mounted, unread>>
         \/ at' = "mount" /\ disk # NoDisk /\ UNCHANGED <<mounted, unread>>
         \/ at' = "login" /\ unread' \in BOOLEAN /\ UNCHANGED mounted
         \/ /\ at' = "login" /\ disk # NoDisk /\ LooksLikeVolume(disk.boot)
            /\ mounted' = TRUE /\ UNCHANGED unread
         \/ /\ at' = "format boot" /\ disk # NoDisk /\ mounted' = FALSE /\ unread' \in BOOLEAN
            /\ unread' = TRUE \/ ~LooksLikeVolume(disk.boot)
  BY DEF PowerOn, Probe, Mount, Kept, Past, Goto, ReadOk, ReadFails, DiskOK, Types
<1>2. Types'
  BY <1>1 DEF Types, Places, Formatting, Clearing
<1>3. BusyOK'
  BY <1>1 DEF BusyOK, Calling
<1>4. DiskOK'
  BY <1>1 DEF DiskOK, Formatting, Clearing, Gated
<1>5. CleanOK'
  BY <1>1 DEF CleanOK, Formatting, Clearing
<1>6. Whole' => AuthOK'
  BY <1>1 DEF Whole, AuthOK
<1>7. Whole' => GateOK'
  BY <1>1 DEF Whole, GateOK
<1>8. Whole' => ImageOK'
  BY <1>1 DEF Whole, ImageOK
<1> QED
  BY <1>2, <1>3, <1>4, <1>5, <1>6, <1>7, <1>8

(* fat16_format writes the boot sector first: from then on the disk looks  *)
(* like a volume, whose areas are cleared one by one.                      *)
LEMMA FormatBootHolds == ASSUME Inv, FormatBoot PROVE Inv'
<1> USE DEF Inv, TypeInv
<1>1. /\ UNCHANGED <<files, busy, mounted, typed, attempts, owner, entered, staged,
                     unread, harm>>
      /\ at = "format boot" /\ at' = "format fat1"
      /\ disk' = [disk EXCEPT !.boot = FreshBoot]
  BY DEF FormatBoot, Kept, Past, Goto
<1>2. disk # NoDisk /\ disk \in Volume
  BY <1>1 DEF Types, DiskOK, Formatting
<1>3. disk' \in Volume /\ disk' # NoDisk /\ disk'.boot = FreshBoot /\ LooksLikeVolume(disk'.boot)
  <2>1. FreshBoot \in Sector0 /\ LooksLikeVolume(FreshBoot)
    BY DEF FreshBoot, Sector0, LooksLikeVolume
  <2>2. disk' \in Volume /\ disk'.boot = FreshBoot
    BY <1>1, <1>2, <2>1 DEF Volume
  <2> QED
    BY <2>1, <2>2, DisksAreVolumes
<1>4. Types'
  BY <1>1, <1>3 DEF Types, Places, Formatting, Clearing
<1>5. BusyOK'
  BY <1>1 DEF BusyOK, Calling
<1>6. DiskOK'
  BY <1>1, <1>3 DEF DiskOK, Formatting, Clearing, Gated
<1>7. CleanOK'
  BY <1>1, <1>3 DEF CleanOK, DoneAt, Formatting, Clearing
<1>8. Whole' => AuthOK'
  BY <1>1 DEF Whole, AuthOK
<1>9. Whole' => GateOK'
  BY <1>1 DEF Whole, GateOK
<1>10. Whole' => ImageOK'
  BY <1>1 DEF Whole, ImageOK
<1> QED
  BY <1>4, <1>5, <1>6, <1>7, <1>8, <1>9, <1>10

(* Each area is cleared in its turn; without the directory no file is left. *)
LEMMA FormatAreasHolds == ASSUME Inv, FormatAreas PROVE Inv'
<1> USE DEF Inv, TypeInv
<1>1. /\ UNCHANGED <<busy, mounted, typed, attempts, owner, entered, staged, unread>>
      /\ at \in Clearing /\ at' = After(at) /\ disk' = Cleared(at)
      /\ files' = IF at = "format root" THEN [n \in Names |-> Absent] ELSE files
      /\ harm' = harm \/ harm' = harm \cup {"reset"}
  BY FormatSteps DEF FormatAreas, Kept, Goto, SetAside
<1>2. disk # NoDisk /\ disk \in Volume /\ disk.boot = FreshBoot
  BY <1>1 DEF Types, DiskOK, Formatting, Clearing
<1>3. /\ disk' \in Volume /\ disk' # NoDisk /\ disk'.boot = FreshBoot
      /\ \A a \in Areas : disk'.area[a] = IF a = FormatArea[at] THEN "zero" ELSE disk.area[a]
  <2>1. FormatArea[at] \in Areas
    BY <1>1, FormatSteps DEF Clearing, Areas
  <2>2. /\ disk' \in Volume /\ disk'.boot = FreshBoot
        /\ \A a \in Areas : disk'.area[a] = IF a = FormatArea[at] THEN "zero" ELSE disk.area[a]
    BY <1>1, <1>2, <2>1 DEF Volume, Cleared
  <2> QED
    BY <2>2, DisksAreVolumes
<1>4. at' \in Formatting \ {"format boot", "format fat1"}
  BY <1>1, FormatSteps DEF Clearing, Formatting
<1>5. LooksLikeVolume(disk'.boot)
  BY <1>3 DEF FreshBoot, LooksLikeVolume
<1>6. files' \in [Names -> Readable \cup {Absent}]
  BY <1>1 DEF Types
<1>7. Types'
  BY <1>1, <1>3, <1>4, <1>6 DEF Types, Places, Formatting, Clearing
<1>8. BusyOK'
  BY <1>1, <1>4 DEF BusyOK, Calling, Clearing, Formatting
<1>9. DiskOK'
  <2>1. \A n \in Names : files[n] = Absent => files'[n] = Absent
    BY <1>1
  <2>2. mounted = FALSE
    BY <1>1 DEF DiskOK, Formatting
  <2>3. unread = TRUE \/ \A n \in Names : files[n] = Absent
    BY <1>1 DEF DiskOK, Formatting
  <2> QED
    BY <1>1, <1>3, <1>4, <1>5, <2>1, <2>2, <2>3 DEF DiskOK, Formatting, Clearing, Gated
<1>10. CleanOK'
  <2>1. \A a \in DoneAt(at') : a = FormatArea[at] \/ a \in DoneAt(at)
    BY <1>1, FormatSteps DEF Clearing, DoneAt, Areas
  <2>2. DoneAt(at') \subseteq Areas
    BY DEF DoneAt, Areas
  <2>3. "cut" \notin harm => \A a \in DoneAt(at) : disk.area[a] # "old"
    BY <1>1, <1>2 DEF CleanOK, Clearing, Formatting
  <2> QED
    BY <1>1, <1>3, <1>4, <2>1, <2>2, <2>3 DEF CleanOK, Clearing, Formatting
<1>11. Whole' => AuthOK'
  BY <1>1, <1>4, BootAssumption DEF Whole, AuthOK, Formatting, Clearing
<1>12. Whole' => GateOK'
  BY <1>1, <1>4 DEF Whole, GateOK, Formatting, Clearing
<1>13. Whole' => ImageOK'
  BY <1>1, <1>4, BootAssumption DEF Whole, ImageOK, Formatting, Clearing
<1> QED
  BY <1>7, <1>8, <1>9, <1>10, <1>11, <1>12, <1>13

(* A format that ends has cleared every area; the volume is then mounted.  *)
LEMMA FormatEndHolds == ASSUME Inv, FormatEnd PROVE Inv'
<1> USE DEF Inv, TypeInv
<1>1. /\ UNCHANGED <<files, busy, disk, typed, attempts, owner, entered, staged,
                     unread, harm>>
      /\ at = "format end" /\ at' = "login" /\ mounted' = TRUE
  BY DEF FormatEnd, Kept, Past, Goto
<1>2. disk # NoDisk /\ LooksLikeVolume(disk.boot)
  <2>1. disk # NoDisk /\ disk.boot = FreshBoot
    BY <1>1 DEF DiskOK, Formatting
  <2> QED
    BY <2>1 DEF FreshBoot, LooksLikeVolume
<1>3. Types'
  BY <1>1 DEF Types, Places, Formatting, Clearing
<1>4. BusyOK'
  BY <1>1 DEF BusyOK, Calling
<1>5. DiskOK'
  BY <1>1, <1>2 DEF DiskOK, Formatting, Clearing, Gated
<1>6. CleanOK'
  BY <1>1, <1>2 DEF CleanOK, DoneAt, Formatting, Clearing
<1>7. Whole' => AuthOK'
  BY <1>1 DEF Whole, AuthOK
<1>8. Whole' => GateOK'
  BY <1>1 DEF Whole, GateOK
<1>9. Whole' => ImageOK'
  BY <1>1 DEF Whole, ImageOK
<1> QED
  BY <1>3, <1>4, <1>5, <1>6, <1>7, <1>8, <1>9

(* A format that is cut short leaves "cut" behind once an area may hold    *)
(* what was there before.                                                  *)
LEMMA CutShortMarks ==
    /\ CutShort \subseteq {"cut", "torn"}
    /\ at \in Clearing => "cut" \in CutShort
    /\ at \notin Clearing => CutShort = {}
  BY FormatSteps DEF CutShort

(* A write of a format fails: nothing is mounted.                          *)
LEMMA FormatFailsHolds == ASSUME Inv, FormatFails PROVE Inv'
<1> USE DEF Inv, TypeInv
<1>1. /\ UNCHANGED <<files, busy, disk, mounted, typed, attempts, owner, entered,
                     staged, unread>>
      /\ at \in {"format boot"} \cup Clearing /\ at' = "login"
      /\ harm' = harm \cup CutShort
  BY FormatSteps DEF FormatFails, Kept, Goto
<1>2. /\ harm' \subseteq {"torn", "cut", "own", "reset"}
      /\ "own" \in harm' <=> "own" \in harm
      /\ "cut" \notin harm' => "cut" \notin harm /\ at = "format boot"
      /\ Whole' => Whole
  BY <1>1, CutShortMarks DEF Types, Whole
<1>3. mounted = FALSE
  BY <1>1 DEF DiskOK, Formatting
<1>4. Types'
  BY <1>1, <1>2 DEF Types, Places, Formatting, Clearing
<1>5. BusyOK'
  BY <1>1 DEF BusyOK, Calling, Clearing
<1>6. DiskOK'
  BY <1>1, <1>3 DEF DiskOK, Formatting, Clearing, Gated
<1>7. CleanOK'
  BY <1>1, <1>2 DEF CleanOK, Formatting, Clearing
<1>8. Whole' => AuthOK'
  BY <1>1, <1>2 DEF AuthOK
<1>9. Whole' => GateOK'
  BY <1>1, <1>3 DEF GateOK
<1>10. Whole' => ImageOK'
  BY <1>1, <1>2 DEF ImageOK
<1> QED
  BY <1>4, <1>5, <1>6, <1>7, <1>8, <1>9, <1>10

-----------------------------------------------------------------------------
(* The gate *)

(* Without a volume there is no gate; with one, login_run asks for the     *)
(* password of a record it finds and for a new one otherwise.              *)
LEMMA LoginHolds == ASSUME Inv, NoGate \/ LoginRun PROVE Inv'
<1> USE DEF Inv, TypeInv
<1>1. /\ UNCHANGED <<files, busy, disk, mounted, typed, attempts, owner, entered,
                     staged, harm>>
      /\ at = "login"
      /\ \/ at' = "shell" /\ mounted # TRUE /\ UNCHANGED unread
         \/ at' = "locked" /\ mounted = TRUE /\ IsConfigured /\ UNCHANGED unread
         \/ at' = "new" /\ mounted = TRUE /\ ~IsConfigured /\ UNCHANGED unread
         \/ at' = "new" /\ mounted = TRUE /\ unread' = TRUE
  <2>1. CASE NoGate
    BY <2>1, Zenon DEF NoGate, Kept, Past, Goto, Types
  <2>2. CASE LoginRun
    BY <2>2, Zenon DEF LoginRun, Kept, Past, Goto, ReadOk, ReadFails, Types
  <2> QED
    BY <2>1, <2>2
<1>2. Types'
  BY <1>1 DEF Types, Places, Formatting, Clearing
<1>3. BusyOK'
  BY <1>1 DEF BusyOK, Calling
<1>4. DiskOK'
  BY <1>1 DEF DiskOK, Formatting, Clearing, Gated
<1>5. CleanOK'
  BY <1>1 DEF CleanOK, Formatting, Clearing
<1>6. Whole' => AuthOK'
  BY <1>1 DEF Whole, AuthOK, IsConfigured, Records
<1>7. Whole' => GateOK'
  BY <1>1 DEF Whole, GateOK
<1>8. Whole' => ImageOK'
  BY <1>1 DEF Whole, ImageOK
<1> QED
  BY <1>2, <1>3, <1>4, <1>5, <1>6, <1>7, <1>8

(* The first of the two times a new password is typed                      *)
LEMMA NewPasswordHolds ==
    ASSUME Inv, NEW p \in Passwords \cup {NoPassword}, NewPassword(p) PROVE Inv'
<1> USE DEF Inv, TypeInv
<1>1. /\ UNCHANGED <<files, busy, disk, mounted, attempts, entered, unread, owner,
                     staged, harm>>
      /\ at = "new"
      /\ \/ at' = "new" /\ typed' = typed
         \/ at' = "confirm" /\ typed' = p /\ p \in Passwords
  BY DEF NewPassword, Past, Goto
<1>2. Types'
  BY <1>1 DEF Types, Places, Formatting, Clearing
<1>3. BusyOK'
  BY <1>1 DEF BusyOK, Calling
<1>4. DiskOK'
  BY <1>1 DEF DiskOK, Formatting, Clearing, Gated
<1>5. CleanOK'
  BY <1>1 DEF CleanOK, Formatting, Clearing
<1>6. Whole' => AuthOK'
  BY <1>1 DEF Whole, AuthOK
<1>7. Whole' => GateOK'
  BY <1>1 DEF Whole, GateOK
<1>8. Whole' => ImageOK'
  BY <1>1 DEF Whole, ImageOK
<1> QED
  BY <1>2, <1>3, <1>4, <1>5, <1>6, <1>7, <1>8

(* The second time: the record that is written is that of the password     *)
(* typed both times.                                                       *)
LEMMA ConfirmPasswordHolds ==
    ASSUME Inv, NEW p \in Passwords \cup {NoPassword}, ConfirmPassword(p) PROVE Inv'
<1> USE DEF Inv, TypeInv
<1>1. /\ UNCHANGED <<files, disk, mounted, typed, attempts, unread, owner, staged, harm>>
      /\ at = "confirm" /\ entered' = p
      /\ \/ at' = "saving" /\ p = typed /\ busy' = <<"write", Auth, Record(typed)>>
         \/ at' = "new" /\ busy' = busy
  BY DEF ConfirmPassword, SamePassword, Begin, Past, Goto
<1>2. Types'
  BY <1>1 DEF Types, Places, Formatting, Clearing
<1>3. BusyOK'
  BY <1>1 DEF BusyOK, Calling
<1>4. DiskOK'
  BY <1>1 DEF DiskOK, Formatting, Clearing, Gated
<1>5. CleanOK'
  BY <1>1 DEF CleanOK, Formatting, Clearing
<1>6. Whole' => AuthOK'
  BY <1>1 DEF Whole, AuthOK
<1>7. Whole' => GateOK'
  BY <1>1 DEF Whole, GateOK
<1>8. Whole' => ImageOK'
  BY <1>1 DEF Whole, ImageOK
<1> QED
  BY <1>2, <1>3, <1>4, <1>5, <1>6, <1>7, <1>8

(* A call that succeeds changes the name it is about, and no other.        *)
LEMMA SucceedEffect ==
    ASSUME files \in [Names -> Readable \cup {Absent}],
           NEW op \in {"write", "rm"}, NEW n \in Names, NEW c \in Contents,
           busy = <<op, n, c>>, Succeed
    PROVE  /\ busy' = Idle
           /\ files' \in [Names -> Readable \cup {Absent}]
           /\ files'[n] = IF op = "write" THEN c ELSE Absent
           /\ \A m \in Names \ {n} : files'[m] = files[m]
<1>1. busy[1] = op /\ busy[2] = n /\ busy[3] = c
  OBVIOUS
<1>2. busy' = Idle /\ files' = [files EXCEPT ![n] = Effect(busy, files[n])]
  BY <1>1 DEF Succeed
<1>3. Effect(busy, files[n]) = IF op = "write" THEN c ELSE Absent
  BY <1>1 DEF Effect
<1> QED
  BY <1>2, <1>3 DEF Readable

(* A call that fails makes no file where there was none, and marks the     *)
(* name it spoils.                                                         *)
LEMMA FailEffect ==
    ASSUME files \in [Names -> Readable \cup {Absent}],
           NEW op, NEW n \in Names, NEW c, busy = <<op, n, c>>, Fail
    PROVE  /\ busy' = Idle
           /\ files' \in [Names -> Readable \cup {Absent}]
           /\ \A m \in Names : files[m] = Absent => files'[m] = Absent
           /\ \A m \in Names \ {n} : files'[m] = files[m]
           /\ Torn \subseteq {"torn"} /\ ("torn" \in Torn \/ files' = files)
<1>1. busy[1] = op /\ busy[2] = n /\ busy[3] = c
  OBVIOUS
<1>2. busy' = Idle
  BY DEF Fail
<1>3. Torn \subseteq {"torn"} /\ ("torn" \in Torn \/ files' = files)
  BY DEF Torn
<1>4. CASE files' = files
  BY <1>2, <1>3, <1>4
<1>5. CASE files' # files
  <2>1. PICK x \in Readable : files' = [files EXCEPT ![n] = x]
    BY <1>1, <1>5 DEF Fail
  <2>2. files[n] # Absent
    BY <1>1, <1>5 DEF Fail
  <2> QED
    BY <1>2, <1>3, <2>1, <2>2
<1> QED
  BY <1>4, <1>5

(* The record is on disk: its password is the owner's, unless there was    *)
(* another record before.                                                  *)
LEMMA PasswordSavedHolds == ASSUME Inv, PasswordSaved PROVE Inv'
<1> USE DEF Inv, TypeInv
<1>1. /\ UNCHANGED <<disk, mounted, typed, attempts, entered, unread, staged>>
      /\ at = "saving" /\ at' = "network" /\ Succeed
      /\ harm' = harm \/ harm' = harm \cup {"reset"}
      /\ IF "reset" \in harm' THEN owner' = owner ELSE owner' = entered
  BY DEF PasswordSaved, Goto, SetAside
<1>2. /\ busy = <<"write", Auth, Record(typed)>> /\ entered = typed
      /\ typed \in Passwords /\ Record(typed) \in Contents /\ Auth \in Names
  BY <1>1, BootAssumption DEF BusyOK, Records
<1>3. /\ busy' = Idle /\ files' \in [Names -> Readable \cup {Absent}]
      /\ files'[Auth] = Record(typed)
      /\ \A m \in Names \ {Auth} : files'[m] = files[m]
  BY <1>1, <1>2, SucceedEffect DEF Types
<1>4. mounted = TRUE /\ disk # NoDisk /\ LooksLikeVolume(disk.boot)
  BY <1>1 DEF DiskOK, Gated
<1>5. Types'
  BY <1>1, <1>2, <1>3 DEF Types, Places, Formatting, Clearing
<1>6. BusyOK'
  BY <1>1, <1>3 DEF BusyOK, Calling
<1>7. DiskOK'
  BY <1>1, <1>4 DEF DiskOK, Formatting, Clearing, Gated
<1>8. CleanOK'
  BY <1>1 DEF CleanOK, Formatting, Clearing
<1>9. Whole' => AuthOK'
  BY <1>1, <1>2, <1>3 DEF AuthOK, Records
<1>10. Whole' => GateOK'
  BY <1>1, <1>2 DEF GateOK
<1>11. Whole' => ImageOK'
  BY <1>1, <1>3, BootAssumption DEF Whole, ImageOK
<1> QED
  BY <1>5, <1>6, <1>7, <1>8, <1>9, <1>10, <1>11

(* The record could not be written: first_boot_setup asks again.           *)
LEMMA PasswordNotSavedHolds == ASSUME Inv, PasswordNotSaved PROVE Inv'
<1> USE DEF Inv, TypeInv
<1>1. /\ UNCHANGED <<disk, mounted, typed, attempts, entered, unread, owner, staged>>
      /\ at = "saving" /\ at' = "new" /\ harm' = harm \cup Torn /\ Fail
  BY DEF PasswordNotSaved, Goto, Kept
<1>2. busy = <<"write", Auth, Record(typed)>> /\ Auth \in Names
  BY <1>1, BootAssumption DEF BusyOK
<1>3. /\ busy' = Idle /\ files' \in [Names -> Readable \cup {Absent}]
      /\ \A m \in Names : files[m] = Absent => files'[m] = Absent
      /\ Torn \subseteq {"torn"} /\ ("torn" \in Torn \/ files' = files)
  BY <1>1, <1>2, FailEffect DEF Types
<1>4. mounted = TRUE
  BY <1>1 DEF DiskOK, Gated
<1>5. Whole' => Whole /\ files' = files
  BY <1>1, <1>3 DEF Whole
<1>6. /\ "own" \in harm' <=> "own" \in harm
      /\ "reset" \in harm' <=> "reset" \in harm
  BY <1>1, <1>3
<1>7. Types'
  BY <1>1, <1>3 DEF Types, Places, Formatting, Clearing
<1>8. BusyOK'
  BY <1>1, <1>3 DEF BusyOK, Calling
<1>9. DiskOK'
  BY <1>1, <1>3, <1>4 DEF DiskOK, Formatting, Clearing, Gated
<1>10. CleanOK'
  BY <1>1, <1>3 DEF CleanOK, Formatting, Clearing
<1>11. Whole' => AuthOK'
  BY <1>1, <1>5, <1>6 DEF AuthOK
<1>12. Whole' => GateOK'
  BY <1>1 DEF GateOK
<1>13. Whole' => ImageOK'
  BY <1>1, <1>5, <1>6 DEF ImageOK
<1> QED
  BY <1>7, <1>8, <1>9, <1>10, <1>11, <1>12, <1>13

(* The network's set-up and the pause after wrong passwords                *)
LEMMA WaitingHolds == ASSUME Inv, NetworkSetup \/ Pause PROVE Inv'
<1> USE DEF Inv, TypeInv
<1>1. /\ UNCHANGED <<files, busy, disk, mounted, typed, attempts, owner, entered,
                     staged, unread, harm>>
      /\ \/ at = "network" /\ at' = "shell"
         \/ at = "pause" /\ at' = "locked"
  BY DEF NetworkSetup, AfterNetwork, Pause, Kept, Past, Goto
<1>2. Types'
  BY <1>1 DEF Types, Places, Formatting, Clearing
<1>3. BusyOK'
  BY <1>1 DEF BusyOK, Calling
<1>4. DiskOK'
  BY <1>1 DEF DiskOK, Formatting, Clearing, Gated
<1>5. CleanOK'
  BY <1>1 DEF CleanOK, Formatting, Clearing
<1>6. Whole' => AuthOK'
  BY <1>1 DEF Whole, AuthOK, IsConfigured
<1>7. Whole' => GateOK'
  BY <1>1 DEF Whole, GateOK, NoRecordByHand
<1>8. Whole' => ImageOK'
  BY <1>1 DEF Whole, ImageOK
<1> QED
  BY <1>2, <1>3, <1>4, <1>5, <1>6, <1>7, <1>8

(* A record fits one password, and no missing file is a record.            *)
LEMMA RecordsDiffer ==
    ASSUME NEW p, NEW q PROVE Record(p) # Absent /\ (Record(p) = Record(q) => p = q)
  BY DEF Record, Absent

(* A password typed at the prompt opens the shell only if the record on    *)
(* disk, which is the owner's, was read and fits it.                       *)
LEMMA EnterPasswordHolds ==
    ASSUME Inv, NEW p \in Passwords \cup {NoPassword}, EnterPassword(p) PROVE Inv'
<1> USE DEF Inv, TypeInv
<1>1. /\ UNCHANGED <<files, busy, disk, mounted, typed, owner, staged, harm>>
      /\ at = "locked"
      /\ unread' = TRUE \/ unread' = unread
      /\ \/ at' = "shell" /\ entered' = p /\ attempts' = attempts /\ Fits(p)
         \/ /\ entered' = entered
            /\ attempts' = (attempts + 1) % MaxAttempts
            /\ at' = IF attempts + 1 = MaxAttempts THEN "pause" ELSE "locked"
  <2>1. PICK read \in BOOLEAN :
           /\ unread' = (unread \/ ~read)
           /\ IF IF read THEN Fits(p) ELSE UnreadIsWrong(p)
              THEN Goto("shell") /\ entered' = p /\ UNCHANGED attempts
              ELSE WrongPassword
    BY DEF EnterPassword
  <2>2. unread' = TRUE \/ unread' = unread
    BY <2>1, Zenon DEF Types
  <2>3. \/ at' = "shell" /\ entered' = p /\ attempts' = attempts /\ Fits(p)
        \/ /\ entered' = entered
           /\ attempts' = (attempts + 1) % MaxAttempts
           /\ at' = IF attempts + 1 = MaxAttempts THEN "pause" ELSE "locked"
    BY <2>1, Zenon DEF WrongPassword, UnreadIsWrong, Goto
  <2>4. UNCHANGED <<files, busy, disk, mounted, typed, owner, staged, harm>> /\ at = "locked"
    BY DEF EnterPassword, Past
  <2> QED
    BY <2>2, <2>3, <2>4
<1>2. attempts' \in 0 .. 2 /\ (at' = "pause" => attempts' = 0)
  BY <1>1 DEF Types, MaxAttempts
<1>3. at' \in {"shell", "pause", "locked"}
  BY <1>1, Zenon
<1>4. Types'
  BY <1>1, <1>2, <1>3 DEF Types, Places, Formatting, Clearing
<1>5. BusyOK'
  BY <1>1, <1>3 DEF BusyOK, Calling
<1>6. DiskOK'
  BY <1>1, <1>3 DEF DiskOK, Formatting, Clearing, Gated
<1>7. CleanOK'
  BY <1>1, <1>3 DEF CleanOK, Formatting, Clearing
<1>8. Whole' => AuthOK'
  BY <1>1, <1>3 DEF Whole, AuthOK, IsConfigured
<1>9. Whole' => GateOK'
  <2>1. SUFFICES ASSUME Whole, NoRecordByHand, "reset" \notin harm, at' = "shell"
                 PROVE  entered' = owner /\ owner \in Passwords
    BY <1>1, <1>3 DEF Whole, GateOK, NoRecordByHand
  <2>2. entered' = p /\ files[Auth] = Record(p)
    BY <1>1, <2>1, Zenon DEF Fits, MaxAttempts
  <2>3. files[Auth] # Absent /\ ~("own" \in harm /\ files[Auth] \in UserFiles)
    BY <2>1, <2>2, RecordsDiffer DEF NoRecordByHand
  <2>4. owner \in Passwords /\ files[Auth] = Record(owner)
    BY <2>1, <2>3 DEF AuthOK
  <2> QED
    BY <2>2, <2>4, RecordsDiffer
<1>10. Whole' => ImageOK'
  BY <1>1, <1>3 DEF Whole, ImageOK
<1> QED
  BY <1>4, <1>5, <1>6, <1>7, <1>8, <1>9, <1>10

-----------------------------------------------------------------------------
(* The shell *)

(* A file command begins.                                                  *)
LEMMA ShellCallHolds ==
    ASSUME Inv, NEW op \in {"write", "rm"}, NEW n \in Names, NEW c \in UserFiles,
           ShellCall(op, n, c)
    PROVE  Inv'
<1> USE DEF Inv, TypeInv
<1>1. /\ UNCHANGED <<files, disk, mounted, typed, attempts, entered, unread, owner>>
      /\ at = "shell" /\ at' = "call" /\ mounted = TRUE /\ busy' = <<op, n, c>>
      /\ harm' = harm \cup (IF n \in {Auth, Installed} THEN {"own"} ELSE {})
      /\ staged' = staged \cup (IF op = "write" /\ n = Staged THEN {c} ELSE {})
  BY Zenon DEF ShellCall, Begin, Kept, Goto, Types
<1>2. /\ harm' \subseteq {"torn", "cut", "own", "reset"} /\ harm \subseteq harm'
      /\ staged' \subseteq HostFiles \cup UserFiles /\ staged \subseteq staged'
      /\ "torn" \in harm' <=> "torn" \in harm
      /\ "cut" \in harm' <=> "cut" \in harm
  BY <1>1 DEF Types
<1>3. Types'
  BY <1>1, <1>2 DEF Types, Places, Formatting, Clearing
<1>4. BusyOK'
  BY <1>1, <1>2 DEF BusyOK, Calling
<1>5. DiskOK'
  BY <1>1 DEF DiskOK, Formatting, Clearing, Gated
<1>6. CleanOK'
  BY <1>1, <1>2 DEF CleanOK, Formatting, Clearing
<1>7. Whole' => AuthOK'
  BY <1>1, <1>2 DEF Whole, AuthOK
<1>8. Whole' => GateOK'
  BY <1>1, <1>2 DEF Whole, GateOK, NoRecordByHand
<1>9. Whole' => ImageOK'
  BY <1>1, <1>2 DEF Whole, ImageOK
<1> QED
  BY <1>3, <1>4, <1>5, <1>6, <1>7, <1>8, <1>9

(* update begins to install what it has read in full, or refuses.          *)
LEMMA UpdateHolds == ASSUME Inv, Update PROVE Inv'
<1> USE DEF Inv, TypeInv
<1>1. /\ UNCHANGED <<files, disk, mounted, typed, attempts, entered, owner, staged, harm>>
      /\ at = "shell" /\ mounted = TRUE
      /\ unread' = TRUE \/ unread' = unread
      /\ \/ at' = "shell" /\ busy' = busy
         \/ /\ at' = "install" /\ busy' = <<"write", Installed, files[Staged]>>
            /\ files[Staged] # Absent /\ files[Staged] \in Kernels
  <2>1. PICK found \in BOOLEAN, whole \in BOOLEAN :
           /\ unread' = (unread \/ ~found \/ ~whole)
           /\ LET read == IF whole THEN files[Staged] ELSE Partial IN
              IF /\ ReadInFull(found, whole) /\ files[Staged] \notin {Absent, Empty, Huge}
                 /\ LooksLikeKernel(read)
              THEN Goto("install") /\ Begin("write", Installed, read)
              ELSE UNCHANGED <<files, busy, at>>
    BY DEF Update
  <2>2. unread' = TRUE \/ unread' = unread
    BY <2>1, Zenon DEF Types
  <2>3. CASE /\ ReadInFull(found, whole) /\ files[Staged] \notin {Absent, Empty, Huge}
             /\ LooksLikeKernel(IF whole THEN files[Staged] ELSE Partial)
    <3>1. whole
      BY <2>3, Zenon DEF ReadInFull
    <3>2. (IF whole THEN files[Staged] ELSE Partial) = files[Staged]
      BY <3>1
    <3>3. Goto("install") /\ Begin("write", Installed, files[Staged])
      BY <2>1, <2>3, <3>2, Zenon
    <3>4. files[Staged] # Absent /\ files[Staged] \in Kernels
      BY <2>3, <3>2, Zenon DEF LooksLikeKernel, Kernels
    <3> QED
      BY <2>2, <3>3, <3>4, Zenon DEF Update, Begin, Goto, Kept, Past, Types
  <2>4. CASE ~(/\ ReadInFull(found, whole) /\ files[Staged] \notin {Absent, Empty, Huge}
               /\ LooksLikeKernel(IF whole THEN files[Staged] ELSE Partial))
    <3>1. UNCHANGED <<files, busy, at>>
      BY <2>1, <2>4, Zenon
    <3> QED
      BY <2>2, <3>1, Zenon DEF Update, Kept, Past, Types
  <2> QED
    BY <2>3, <2>4
<1>2. at' \in {"shell", "install"}
  BY <1>1
<1>3. Types'
  BY <1>1 DEF Types, Places, Formatting, Clearing
<1>4. BusyOK'
  <2>1. Kernels \subseteq Contents
    BY BootAssumption DEF Kernels
  <2> QED
    BY <1>1, <2>1 DEF BusyOK, Calling
<1>5. DiskOK'
  BY <1>1 DEF DiskOK, Formatting, Clearing, Gated
<1>6. CleanOK'
  BY <1>1, <1>2 DEF CleanOK, Formatting, Clearing
<1>7. Whole' => AuthOK'
  BY <1>1, <1>2 DEF Whole, AuthOK
<1>8. Whole' => GateOK'
  BY <1>1, <1>2 DEF Whole, GateOK, NoRecordByHand
<1>9. Whole' => ImageOK'
  BY <1>1 DEF Whole, ImageOK
<1> QED
  BY <1>3, <1>4, <1>5, <1>6, <1>7, <1>8, <1>9

(* A call that runs was begun by the gate, by update or by the shell, with *)
(* what each of them writes.                                               *)
LEMMA RunningCall ==
    ASSUME Inv, at \in Calling
    PROVE  \E op \in {"write", "rm"}, n \in Names, c \in Contents :
              /\ busy = <<op, n, c>>
              /\ at = "saving" => n = Auth
              /\ at = "install" => op = "write" /\ n = Installed
              /\ at = "call" =>
                    /\ n \in {Auth, Installed} => "own" \in harm
                    /\ op = "write" /\ n = Staged => c \in staged
                    /\ c \in UserFiles
<1> USE DEF Inv, TypeInv
<1>1. CASE at = "saving"
  <2>1. Record(typed) \in Contents /\ Auth \in Names
    BY <1>1, BootAssumption DEF BusyOK, Records
  <2> QED
    BY <1>1, <2>1 DEF BusyOK
<1>2. CASE at = "install"
  BY <1>2, BootAssumption DEF BusyOK
<1>3. CASE at = "call"
  BY <1>3, BootAssumption DEF BusyOK
<1> QED
  BY <1>1, <1>2, <1>3 DEF Calling

(* The call of the shell or of update returns.                             *)
LEMMA CalledHolds == ASSUME Inv, Called PROVE Inv'
<1> USE DEF Inv, TypeInv
<1>1. /\ UNCHANGED <<disk, mounted, typed, attempts, entered, unread, owner, staged>>
      /\ at \in {"call", "install"} /\ at' = "shell"
      /\ (Succeed /\ harm' = harm) \/ (Fail /\ harm' = harm \cup Torn)
  BY DEF Called, Goto, Kept
<1>2. PICK op \in {"write", "rm"}, n \in Names, c \in Contents :
         /\ busy = <<op, n, c>>
         /\ at = "install" => op = "write" /\ n = Installed
         /\ at = "call" =>
               /\ n \in {Auth, Installed} => "own" \in harm
               /\ op = "write" /\ n = Staged => c \in staged
               /\ c \in UserFiles
  BY <1>1, RunningCall DEF Calling
<1>3. mounted = TRUE /\ disk # NoDisk /\ LooksLikeVolume(disk.boot)
  BY <1>1 DEF DiskOK, Gated
<1>4. CASE Succeed /\ harm' = harm
  <2>1. /\ busy' = Idle /\ files' \in [Names -> Readable \cup {Absent}]
        /\ files'[n] = IF op = "write" THEN c ELSE Absent
        /\ \A m \in Names \ {n} : files'[m] = files[m]
    BY <1>2, <1>4, SucceedEffect DEF Types
  <2>2. Types'
    BY <1>1, <1>4, <2>1 DEF Types, Places, Formatting, Clearing
  <2>3. BusyOK'
    BY <1>1, <2>1 DEF BusyOK, Calling
  <2>4. DiskOK'
    BY <1>1, <1>3 DEF DiskOK, Formatting, Clearing, Gated
  <2>5. CleanOK'
    BY <1>1, <1>4 DEF CleanOK, Formatting, Clearing
  <2>6. Whole' => AuthOK'
    <3>1. CASE n = Auth
      BY <1>1, <1>2, <1>4, <2>1, <3>1, BootAssumption DEF Whole, AuthOK
    <3>2. CASE n # Auth
      <4>1. files'[Auth] = files[Auth]
        BY <2>1, <3>2, BootAssumption
      <4> QED
        BY <1>1, <1>4, <4>1 DEF Whole, AuthOK
    <3> QED
      BY <3>1, <3>2
  <2>7. Whole' => GateOK'
    BY <1>1, <1>4 DEF Whole, GateOK, NoRecordByHand
  <2>8. Whole' => ImageOK'
    <3>1. SUFFICES ASSUME Whole PROVE ImageOK'
      BY <1>4 DEF Whole
    <3>2. files'[Staged] = Absent \/ files'[Staged] \in staged
      BY <1>1, <1>2, <2>1, <3>1, BootAssumption DEF ImageOK
    <3>3. ASSUME "own" \notin harm
          PROVE  files'[Installed] = Absent \/ files'[Installed] \in staged \cap Kernels
      <4>1. CASE n # Installed
        BY <2>1, <3>1, <3>3, <4>1, BootAssumption DEF ImageOK
      <4>2. CASE n = Installed
        <5>1. at = "install" /\ op = "write"
          BY <1>1, <1>2, <3>3, <4>2
        <5>2. busy[3] = c
          BY <1>2
        <5> QED
          BY <2>1, <3>1, <4>2, <5>1, <5>2 DEF ImageOK
      <4> QED
        BY <4>1, <4>2
    <3> QED
      BY <1>1, <1>4, <3>2, <3>3 DEF ImageOK
  <2> QED
    BY <2>2, <2>3, <2>4, <2>5, <2>6, <2>7, <2>8
<1>5. CASE Fail /\ harm' = harm \cup Torn
  <2>1. /\ busy' = Idle /\ files' \in [Names -> Readable \cup {Absent}]
        /\ Torn \subseteq {"torn"} /\ ("torn" \in Torn \/ files' = files)
    BY <1>2, <1>5, FailEffect DEF Types
  <2>2. Whole' => Whole /\ files' = files
    BY <1>5, <2>1 DEF Whole
  <2>3. /\ "own" \in harm' <=> "own" \in harm
        /\ "cut" \in harm' <=> "cut" \in harm
    BY <1>5, <2>1
  <2>4. Types'
    BY <1>1, <1>5, <2>1 DEF Types, Places, Formatting, Clearing
  <2>5. BusyOK'
    BY <1>1, <2>1 DEF BusyOK, Calling
  <2>6. DiskOK'
    BY <1>1, <1>3 DEF DiskOK, Formatting, Clearing, Gated
  <2>7. CleanOK'
    BY <1>1, <2>3 DEF CleanOK, Formatting, Clearing
  <2>8. Whole' => AuthOK'
    BY <1>1, <2>2, <2>3 DEF AuthOK
  <2>9. Whole' => GateOK'
    BY <1>1, <2>2, <2>3 DEF GateOK, NoRecordByHand
  <2>10. Whole' => ImageOK'
    BY <1>1, <2>2, <2>3 DEF ImageOK
  <2> QED
    BY <2>4, <2>5, <2>6, <2>7, <2>8, <2>9, <2>10
<1> QED
  BY <1>1, <1>4, <1>5

-----------------------------------------------------------------------------
(* Around the machine *)

(* Power goes off: memory is lost, and what ran is cut short.              *)
LEMMA PowerOffHolds == ASSUME Inv, PowerOff PROVE Inv'
<1> USE DEF Inv, TypeInv
<1>1. /\ UNCHANGED <<disk, owner, staged>>
      /\ at' = "off" /\ mounted' = FALSE /\ typed' = NoPassword /\ attempts' = 0
      /\ entered' = NoPassword /\ unread' = FALSE
  BY DEF PowerOff, Goto
<1>2. /\ busy' = Idle /\ files' \in [Names -> Readable \cup {Absent}]
      /\ \A m \in Names : files[m] = Absent => files'[m] = Absent
      /\ harm' \subseteq {"torn", "cut", "own", "reset"}
      /\ "own" \in harm' <=> "own" \in harm
      /\ "reset" \in harm => "reset" \in harm'
      /\ "cut" \notin harm' => "cut" \notin harm /\ at \notin Clearing
      /\ Whole' => Whole /\ files' = files
  <2>1. CASE busy = Idle
    <3>1. files' = files /\ busy' = busy /\ harm' = harm \cup CutShort
      BY <2>1 DEF PowerOff
    <3> QED
      BY <2>1, <3>1, CutShortMarks DEF Types, Whole
  <2>2. CASE busy # Idle
    <3>1. Fail /\ harm' = harm \cup Torn
      BY <2>2 DEF PowerOff
    <3>2. at \in Calling
      BY <2>2 DEF BusyOK
    <3>3. PICK op \in {"write", "rm"}, n \in Names, c \in Contents : busy = <<op, n, c>>
      BY <3>2, RunningCall
    <3>4. /\ busy' = Idle /\ files' \in [Names -> Readable \cup {Absent}]
          /\ \A m \in Names : files[m] = Absent => files'[m] = Absent
          /\ Torn \subseteq {"torn"} /\ ("torn" \in Torn \/ files' = files)
      BY <3>1, <3>3, FailEffect DEF Types
    <3>5. at \notin Clearing
      BY <3>2 DEF Calling, Clearing
    <3> QED
      BY <3>1, <3>4, <3>5 DEF Types, Whole
  <2> QED
    BY <2>1, <2>2
<1>3. Types'
  <2>1. attempts' \in 0 .. 2 /\ at' \in Places /\ at' # "pause"
    BY <1>1 DEF Places
  <2>2. mounted' \in BOOLEAN /\ unread' \in BOOLEAN
    BY <1>1, Zenon
  <2> QED
    BY <1>1, <1>2, <2>1, <2>2, Zenon DEF Types
<1>4. BusyOK'
  BY <1>1, <1>2 DEF BusyOK, Calling
<1>5. DiskOK'
  BY <1>1, <1>2 DEF DiskOK, Formatting, Clearing, Gated
<1>6. CleanOK'
  <2>1. SUFFICES ASSUME "cut" \notin harm', disk # NoDisk, LooksLikeVolume(disk.boot)
                 PROVE  \A a \in Areas : disk.area[a] # "old"
    BY <1>1 DEF CleanOK, Formatting, Clearing
  <2>2. CASE at = "format end"
    BY <1>2, <2>1, <2>2 DEF CleanOK, DoneAt, Formatting
  <2>3. CASE at # "format end"
    BY <1>2, <2>1, <2>3 DEF CleanOK, Formatting, Clearing
  <2> QED
    BY <2>2, <2>3
<1>7. Whole' => AuthOK'
  BY <1>1, <1>2 DEF AuthOK
<1>8. Whole' => GateOK'
  BY <1>1 DEF GateOK
<1>9. Whole' => ImageOK'
  BY <1>1, <1>2 DEF ImageOK
<1> QED
  BY <1>3, <1>4, <1>5, <1>6, <1>7, <1>8, <1>9

(* The host machine puts a file under the staging name.                    *)
LEMMA HostCopiesHolds == ASSUME Inv, NEW c \in HostFiles, HostCopies(c) PROVE Inv'
<1> USE DEF Inv, TypeInv
<1>1. /\ UNCHANGED <<busy, disk, owner, harm, at, mounted, typed, attempts, entered, unread>>
      /\ at = "off" /\ disk # NoDisk /\ disk.boot \in VolumeBoots
      /\ files' = [files EXCEPT ![Staged] = c] /\ staged' = staged \cup {c}
  BY DEF HostCopies, machine
<1>2. LooksLikeVolume(disk.boot)
  <2>1. \A b \in VolumeBoots : b.sig = TRUE /\ b.bps = TRUE /\ b.spf = TRUE /\ b.nfats \in {1, 2}
    BY DEF VolumeBoots
  <2> QED
    BY <1>1, <2>1 DEF LooksLikeVolume
<1>3. /\ files' \in [Names -> Readable \cup {Absent}]
      /\ files'[Auth] = files[Auth] /\ files'[Installed] = files[Installed]
      /\ files'[Staged] = c /\ c \in staged' /\ staged \subseteq staged'
      /\ staged' \subseteq HostFiles \cup UserFiles
  BY <1>1, BootAssumption DEF Types, Readable
<1>4. Types'
  BY <1>1, <1>3 DEF Types
<1>5. BusyOK'
  BY <1>1 DEF BusyOK, Calling
<1>6. DiskOK'
  BY <1>1, <1>2 DEF DiskOK, Formatting, Clearing, Gated
<1>7. CleanOK'
  BY <1>1 DEF CleanOK, Formatting, Clearing
<1>8. Whole' => AuthOK'
  BY <1>1, <1>3 DEF Whole, AuthOK
<1>9. Whole' => GateOK'
  BY <1>1 DEF Whole, GateOK, NoRecordByHand
<1>10. Whole' => ImageOK'
  BY <1>1, <1>3 DEF Whole, ImageOK
<1> QED
  BY <1>4, <1>5, <1>6, <1>7, <1>8, <1>9, <1>10

(* Every step of the machine and around it keeps the invariant.            *)
LEMMA StepHolds == ASSUME Inv, [BootNext]_bootVars PROVE Inv'
<1>1. CASE BootNext
  <2>1. CASE Kernel
    BY <2>1, StartingHolds, FormatBootHolds, FormatAreasHolds, FormatEndHolds,
       FormatFailsHolds, LoginHolds, PasswordSavedHolds, PasswordNotSavedHolds,
       WaitingHolds, CalledHolds DEF Kernel
  <2>2. CASE User
    BY <2>2, StartingHolds, NewPasswordHolds, ConfirmPasswordHolds, EnterPasswordHolds,
       ShellCallHolds, UpdateHolds DEF User
  <2> QED
    BY <1>1, <2>1, <2>2, PowerOffHolds, HostCopiesHolds DEF BootNext
<1>2. CASE UNCHANGED bootVars
  <2> USE <1>2 DEF bootVars
  <2>1. Types' <=> Types
    BY Zenon DEF Types
  <2>2. BusyOK' <=> BusyOK
    BY Zenon DEF BusyOK
  <2>3. DiskOK' <=> DiskOK
    BY Zenon DEF DiskOK
  <2>4. CleanOK' <=> CleanOK
    BY Zenon DEF CleanOK
  <2>5. AuthOK' <=> AuthOK
    BY Zenon DEF AuthOK, IsConfigured
  <2>6. GateOK' <=> GateOK
    BY Zenon DEF GateOK, NoRecordByHand
  <2>7. ImageOK' <=> ImageOK
    BY Zenon DEF ImageOK
  <2>8. Whole' <=> Whole
    BY Zenon DEF Whole
  <2> QED
    BY <2>1, <2>2, <2>3, <2>4, <2>5, <2>6, <2>7, <2>8 DEF Inv, TypeInv
<1> QED
  BY <1>1, <1>2

(* The invariant holds in every state a machine can come to.               *)
LEMMA AlwaysInv == BootSpec => []Inv
<1>1. BootInit => Inv
  BY InitHolds
<1>2. Inv /\ [BootNext]_bootVars => Inv'
  BY StepHolds
<1> QED
  BY <1>1, <1>2, PTL DEF BootSpec

-----------------------------------------------------------------------------
(* What the runs check, for every instance *)

(* UnlockedByOwner: at the shell of a machine with a data disk is whoever  *)
(* typed the owner's password, unless the record was set aside after a     *)
(* read that failed, the shell itself was used to put another record in    *)
(* place of AURAUSER.DAT, or a rewrite was cut short.                      *)
(* The variables keep their types in any case.                             *)
THEOREM GateOpensForOwner ==
    BootSpec => []BootTypeOK /\ [](Whole /\ NoRecordByHand => UnlockedByOwner)
<1>1. Inv => BootTypeOK
  BY TypesSuffice DEF Inv, TypeInv
<1>2. Inv => (Whole /\ NoRecordByHand => UnlockedByOwner)
  <2>1. SUFFICES ASSUME Inv, Whole, NoRecordByHand,
                        mounted, at \in {"shell", "call", "install"}, "reset" \notin harm
                 PROVE  entered = owner /\ owner # NoPassword
    BY <1>1 DEF UnlockedByOwner
  <2>2. mounted = TRUE
    BY <2>1, Zenon DEF Inv, TypeInv, Types
  <2>3. entered = owner /\ owner \in Passwords
    BY <2>1, <2>2 DEF Inv, GateOK
  <2> QED
    BY <2>3, BootAssumption
<1> QED
  BY AlwaysInv, <1>1, <1>2, PTL

(* PromptCanBeMet: the gate compares with a record of a password that was  *)
(* set, the owner's unless it was set aside.                               *)
THEOREM GateCanBeMet == BootSpec => []PromptCanBeMet
<1>1. Inv => PromptCanBeMet
  <2>1. SUFFICES ASSUME Inv, at \in {"locked", "pause"}, harm \cap {"own", "torn"} = {}
                 PROVE  IF "reset" \in harm THEN \E p \in Passwords : Fits(p) ELSE Fits(owner)
    BY DEF PromptCanBeMet
  <2>2. AuthOK /\ "own" \notin harm
    BY <2>1 DEF Inv, Whole
  <2>3. IsConfigured
    BY <2>1, <2>2 DEF AuthOK
  <2>4. Absent \notin Records \cup {Forged}
    BY BootAssumption DEF Readable
  <2> QED
    BY <2>2, <2>3, <2>4 DEF AuthOK, IsConfigured, Fits, Records
<1> QED
  BY AlwaysInv, <1>1, PTL

(* FormattedClean: the areas of a volume in use hold nothing from before   *)
(* it was formatted.                                                       *)
THEOREM VolumesAreClean == BootSpec => []FormattedClean
<1>1. Inv => FormattedClean
  <2>1. SUFFICES ASSUME Inv, mounted, "cut" \notin harm
                 PROVE  \A a \in Areas : disk.area[a] # "old"
    BY DEF FormattedClean
  <2>2. mounted = TRUE
    BY <2>1, Zenon DEF Inv, TypeInv, Types
  <2>3. disk # NoDisk /\ LooksLikeVolume(disk.boot) /\ at \notin Formatting
    BY <2>1, <2>2 DEF Inv, TypeInv, DiskOK
  <2> QED
    BY <2>1, <2>3 DEF Inv, TypeInv, CleanOK
<1> QED
  BY AlwaysInv, <1>1, PTL

(* BootsWhole: what update installs for the next start is, whole, a kernel *)
(* that was staged.                                                        *)
THEOREM InstalledAsStaged == BootSpec => []BootsWhole
<1>1. Inv => BootsWhole
  <2>1. SUFFICES ASSUME Inv, harm \cap {"own", "torn"} = {}
                 PROVE  files[Installed] = Absent \/ files[Installed] \in staged \cap Kernels
    BY DEF BootsWhole, Kernels
  <2> QED
    BY <2>1 DEF Inv, Whole, ImageOK
<1> QED
  BY AlwaysInv, <1>1, PTL

(* Only a format, a call that runs and the host machine change a file.     *)
LEMMA WhoChangesFiles ==
    ASSUME Inv, BootNext
    PROVE  \/ files' = files
           \/ at = "format root" /\ at \in Formatting
           \/ at = "off"
           \/ at \in Calling /\ (Succeed \/ Fail)
<1> USE DEF Inv, TypeInv
<1>1. CASE PowerOn \/ Probe \/ Mount \/ FormatBoot \/ FormatEnd \/ FormatFails
  BY <1>1, Zenon DEF PowerOn, Probe, Mount, FormatBoot, FormatEnd, FormatFails
<1>2. CASE FormatAreas
  BY <1>2, FormatSteps DEF FormatAreas, Formatting, Clearing
<1>3. CASE NoGate \/ LoginRun \/ NetworkSetup \/ Pause
  BY <1>3, Zenon DEF NoGate, LoginRun, NetworkSetup, Pause
<1>4. CASE PasswordSaved \/ PasswordNotSaved \/ Called
  BY <1>4 DEF PasswordSaved, PasswordNotSaved, Called, Calling
<1>5. ASSUME NEW p \in Passwords \cup {NoPassword},
             NewPassword(p) \/ ConfirmPassword(p) \/ EnterPassword(p)
      PROVE  files' = files
  BY <1>5, Zenon DEF NewPassword, ConfirmPassword, EnterPassword, Begin
<1>6. ASSUME NEW op, NEW n, NEW c, ShellCall(op, n, c) PROVE files' = files
  BY <1>6, Zenon DEF ShellCall, Begin
<1>7. CASE Update
  BY <1>7, Zenon DEF Update, Begin
<1>8. CASE PowerOff
  <2>1. busy # Idle => at \in Calling
    BY DEF BusyOK
  <2> QED
    BY <1>8, <2>1 DEF PowerOff
<1>9. ASSUME NEW c \in HostFiles, HostCopies(c) PROVE at = "off"
  BY <1>9 DEF HostCopies
<1> QED
  BY <1>1, <1>2, <1>3, <1>4, <1>5, <1>6, <1>7, <1>8, <1>9 DEF BootNext, Kernel, User

(* StartKeepsFiles: as long as no rewrite was cut short, neither mounting, *)
(* nor formatting, nor the gate replaces a file, unless a read of the disk *)
(* has failed since power on (or the user wrote to the gate's own file).   *)
THEOREM StartingDestroysNothing == BootSpec /\ []Whole => StartKeepsFiles
<1> DEFINE Keeps ==
       \A n \in Names :
          files[n] # Absent /\ files'[n] # files[n] =>
            \/ unread
            \/ at \in {"off", "call"}
            \/ at = "install" /\ n = Installed
            \/ "own" \in harm
<1>1. ASSUME Inv, Whole, [BootNext]_bootVars PROVE [Keeps]_bootVars
  <2>1. SUFFICES ASSUME BootNext, NEW n \in Names, files[n] # Absent, files'[n] # files[n],
                        unread # TRUE, at \notin {"off", "call"}, "own" \notin harm
                 PROVE  at = "install" /\ n = Installed
    BY <1>1, Zenon
  <2>2. at \notin Formatting
    BY <1>1, <2>1 DEF Inv, TypeInv, DiskOK
  <2>3. at \in Calling \ {"call"} /\ (Succeed \/ Fail)
    BY <1>1, <2>1, <2>2, WhoChangesFiles
  <2>4. PICK op \in {"write", "rm"}, m \in Names, c \in Contents :
           /\ busy = <<op, m, c>>
           /\ at = "saving" => m = Auth
           /\ at = "install" => m = Installed
    BY <1>1, <2>3, RunningCall
  <2>5. m = n
    BY <1>1, <2>1, <2>3, <2>4, SucceedEffect, FailEffect DEF Inv, TypeInv, Types
  <2>6. at # "saving"
    BY <1>1, <2>1, <2>4, <2>5 DEF Inv, AuthOK
  <2> QED
    BY <2>3, <2>4, <2>5, <2>6 DEF Calling
<1>2. Inv /\ Whole /\ [BootNext]_bootVars => [Keeps]_bootVars
  BY <1>1
<1> QED
  BY AlwaysInv, <1>2, PTL DEF BootSpec, StartKeepsFiles
=============================================================================
