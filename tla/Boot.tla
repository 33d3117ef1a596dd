--------------------------------- MODULE Boot ---------------------------------
(***************************************************************************)
(* From power on to the shell: kernel_main, the mounting and formatting of *)
(* the data disk (kernel/fat16.c), the password gate (kernel/login.c,      *)
(* kernel/auth.c), and the update command (kernel/updatecmd.c), whose      *)
(* result the next start boots.  Power may fail at any moment, and any     *)
(* read or write of the disk may be answered with an error.                *)
(*                                                                         *)
(* The files are those of Store, which the FAT16 driver implements: a call *)
(* begins, and succeeds or fails later.  A rewrite that is cut short       *)
(* ("torn") ends what is known of the files, and the model stops there;    *)
(* what a failed read of the allocation table under a call can do to the   *)
(* volume, after which Store is broken, is left to Fat16.                  *)
(*                                                                         *)
(* A password hashes to a record only it fits; a file of the size of a     *)
(* record need not be one.                                                 *)
(*                                                                         *)
(* Next to some definitions stands a variant with a slip in it; nothing    *)
(* uses the variants except the runs that show a property would notice.    *)
(***************************************************************************)
EXTENDS FileCalls

CONSTANTS
    Passwords,    \* what a user may type
    Auth,         \* AURAUSER.DAT
    Staged,       \* NEWKRNL.BIN
    Installed,    \* AURORAOS.UPD, which GRUB boots
    Forged,       \* of Contents: of the size of a record, and none
    Images,       \* of Contents: kernels
    Partial,      \* of Contents: the first sectors of a kernel
    Huge,         \* of Contents: a kernel that update_buffer does not hold
    HostFiles,    \* what the host machine may copy to the staging name
    UserFiles     \* what the user may write with the shell

NoPassword == ""
Record(p) == <<"record", p>>
Records == {Record(p) : p \in Passwords}

ASSUME BootAssumption ==
    /\ Names = {Auth, Staged, Installed}
    /\ Auth # Staged /\ Auth # Installed /\ Staged # Installed
    /\ Absent \notin Readable
    /\ NoPassword \notin Passwords
    /\ Records \cup Images \cup {Forged, Partial, Huge} \subseteq Contents
    /\ HostFiles \subseteq Contents /\ UserFiles \subseteq Contents

VARIABLES
    at,        \* where the machine stands
    disk,      \* on disk: the boot sector, and what the other areas hold
    mounted,   \* mounted of fat16.c
    typed,     \* pw1 of first_boot_setup
    attempts,  \* attempts of login_run since the last pause
    owner,     \* history: the password last set where no other was in force
    entered,   \* history: the password that opened the shell in this boot
    staged,    \* history: what was ever put under the staging name
    unread,    \* history: a read of the disk failed in this boot
    harm       \* history: "torn", "cut" (formatting ended early), "own" (the
               \* user wrote to the gate's or the boot file), "reset" (the
               \* gate's record was set aside)

machine == <<at, mounted, typed, attempts, entered, unread>>
bootVars == <<files, busy, at, disk, mounted, typed, attempts, owner, entered,
              staged, unread, harm>>

-----------------------------------------------------------------------------
(* The disk *)

Areas == {"fat1", "fat2", "root"}
Sector0 == [sig : BOOLEAN, bps : BOOLEAN, spf : BOOLEAN, nfats : 0 .. 3]
NoDisk == [boot |-> "none"]
Disk(b, how) == [boot |-> b, area |-> [a \in Areas |-> how]]

(* fat16_mount's checks of sector 0: the signature, 512 bytes per sector,  *)
(* a size of the table, and one or two copies of it.                       *)
TwoTablesOnly(b) == b.sig /\ b.bps /\ b.spf /\ b.nfats = 2
LooksLikeVolume(b) == b.sig /\ b.bps /\ b.spf /\ b.nfats \in 1 .. 2

ZeroBoot == [sig |-> FALSE, bps |-> FALSE, spf |-> FALSE, nfats |-> 0]
FreshBoot == [sig |-> TRUE, bps |-> TRUE, spf |-> TRUE, nfats |-> 2]

(* No disk; a blank one; one that holds something else; a volume, as the   *)
(* host machine makes them, with one table or two.                         *)
VolumeBoots == [sig : {TRUE}, bps : {TRUE}, spf : {TRUE}, nfats : {1, 2}]
Disks ==
    {NoDisk, Disk(ZeroBoot, "zero")}
      \cup {Disk(b, "old") : b \in Sector0 \ VolumeBoots}
      \cup {Disk(b, "volume") : b \in VolumeBoots}

BootInit ==
    /\ NoFiles
    /\ disk \in Disks
    /\ at = "off" /\ mounted = FALSE /\ typed = NoPassword /\ attempts = 0
    /\ owner = NoPassword /\ entered = NoPassword
    /\ staged = {} /\ unread = FALSE /\ harm = {}

-----------------------------------------------------------------------------
(* Starting *)

(* auth_is_configured, for a file that could be looked up                  *)
IsConfigured == files[Auth] \in Records \cup {Forged}

(* A format, or a new password, where there was one                        *)
SetAside == IF IsConfigured THEN {"reset"} ELSE {}

Kept == UNCHANGED <<typed, attempts, entered>>
Past == UNCHANGED <<owner, staged, harm>>
Goto(place) == at' = place
ReadOk == UNCHANGED unread
ReadFails == unread' = TRUE

PowerOn ==
    /\ at = "off" /\ Goto("probe")
    /\ UNCHANGED <<files, busy, disk, mounted, unread>> /\ Kept /\ Past

(* ata_init: IDENTIFY at the four places a disk can be.                    *)
Probe ==
    /\ at = "probe"
    /\ \/ disk # NoDisk /\ Goto("mount") /\ ReadOk
       \/ disk = NoDisk /\ Goto("login") /\ ReadOk
       \/ disk # NoDisk /\ Goto("login") /\ ReadFails
    /\ UNCHANGED <<files, busy, disk, mounted>> /\ Kept /\ Past

(* fat16_mount; kernel_main formats when it fails, for whatever reason.    *)
Mount ==
    /\ at = "mount"
    /\ \/ LooksLikeVolume(disk.boot) /\ mounted' = TRUE /\ Goto("login") /\ ReadOk
       \/ ~LooksLikeVolume(disk.boot) /\ mounted' = FALSE /\ Goto("format boot") /\ ReadOk
       \/ UNCHANGED mounted /\ Goto("format boot") /\ ReadFails
    /\ UNCHANGED <<files, busy, disk>> /\ Kept /\ Past

(* fat16_format, an area at a time.  Without the directory there are no    *)
(* files; in between, nobody reads them.                                   *)
FormatOrder == <<"format boot", "format fat1", "format fat2", "format root", "format end">>
FormatArea == [s \in {"format fat1", "format fat2", "format root"} |->
                  CASE s = "format fat1" -> "fat1"
                    [] s = "format fat2" -> "fat2"
                    [] s = "format root" -> "root"]
After(s) == FormatOrder[1 + CHOOSE i \in 1 .. 4 : FormatOrder[i] = s]

SecondTableKept(s) ==
    IF s = "format fat2" THEN disk ELSE [disk EXCEPT !.area[FormatArea[s]] = "zero"]
Cleared(s) == [disk EXCEPT !.area[FormatArea[s]] = "zero"]

FormatBoot ==
    /\ at = "format boot" /\ Goto("format fat1")
    /\ disk' = [disk EXCEPT !.boot = FreshBoot]
    /\ UNCHANGED <<files, busy, mounted, unread>> /\ Kept /\ Past

FormatAreas ==
    /\ at \in DOMAIN FormatArea /\ Goto(After(at))
    /\ disk' = Cleared(at)
    /\ IF at = "format root"
       THEN files' = [n \in Names |-> Absent] /\ harm' = harm \cup SetAside
       ELSE UNCHANGED <<files, harm>>
    /\ UNCHANGED <<busy, mounted, unread, owner, staged>> /\ Kept

(* fat_write_entry of the two reserved entries, whose outcome nobody looks *)
(* at, and the second fat16_mount, which leaves mounted alone when it      *)
(* cannot read the disk.                                                   *)
FormatEnd ==
    /\ at = "format end" /\ Goto("login") /\ mounted' = TRUE
    /\ UNCHANGED <<files, busy, disk, unread>> /\ Kept /\ Past

(* What is left of a format that ends early: the areas it did not come to, *)
(* and, on a disk that was a volume, files whose tables may be gone.       *)
CutShort ==
    IF at \notin DOMAIN FormatArea THEN {}
    ELSE IF \A n \in Names : files[n] = Absent THEN {"cut"} ELSE {"cut", "torn"}

FormatFails ==
    /\ at \in {"format boot"} \cup DOMAIN FormatArea /\ Goto("login")
    /\ harm' = harm \cup CutShort
    /\ UNCHANGED <<files, busy, disk, mounted, unread, owner, staged>> /\ Kept

-----------------------------------------------------------------------------
(* The gate *)

NoGate ==
    /\ at = "login" /\ ~mounted /\ Goto("shell")
    /\ UNCHANGED <<files, busy, disk, mounted, unread>> /\ Kept /\ Past

(* A lookup that fails is taken for a start without a record: anybody may  *)
(* then set a password.                                                    *)
LoginRun ==
    /\ at = "login" /\ mounted
    /\ \/ Goto(IF IsConfigured THEN "locked" ELSE "new") /\ ReadOk
       \/ Goto("new") /\ ReadFails
    /\ UNCHANGED <<files, busy, disk, mounted>> /\ Kept /\ Past

NewPassword(p) ==
    /\ at = "new"
    /\ IF p = NoPassword THEN UNCHANGED <<at, typed>> ELSE Goto("confirm") /\ typed' = p
    /\ UNCHANGED <<files, busy, disk, mounted, attempts, entered, unread>> /\ Past

(* The second time: strcmp, then auth_set_password.                        *)
FirstTypedTaken(p) == p # NoPassword
SamePassword(p) == p = typed

ConfirmPassword(p) ==
    /\ at = "confirm"
    /\ IF SamePassword(p)
       THEN Goto("saving") /\ Begin("write", Auth, Record(typed))
       ELSE Goto("new") /\ UNCHANGED <<files, busy>>
    /\ entered' = p
    /\ UNCHANGED <<disk, mounted, typed, attempts, unread>> /\ Past

PasswordSaved ==
    /\ at = "saving" /\ Succeed /\ Goto("network")
    /\ harm' = harm \cup SetAside
    /\ owner' = IF "reset" \in harm' THEN owner ELSE entered
    /\ UNCHANGED <<disk, mounted, typed, attempts, entered, unread, staged>>

(* A failed rewrite may have given up the old contents.                    *)
Torn == IF files' = files THEN {} ELSE {"torn"}

PasswordNotSaved ==
    /\ at = "saving" /\ Fail /\ Goto("new") /\ harm' = harm \cup Torn
    /\ UNCHANGED <<disk, mounted, unread, owner, staged>> /\ Kept

(* first_boot_network_setup, with a lease or without                       *)
LeaseAwaited == {"network"}
AfterNetwork == {"shell"}
NetworkSetup ==
    /\ at = "network" /\ at' \in AfterNetwork
    /\ UNCHANGED <<files, busy, disk, mounted, unread>> /\ Kept /\ Past

(* auth_check_password, when the record can be read                        *)
Fits(p) == files[Auth] = Record(p)

(* LOGIN_MAX_ATTEMPTS_BEFORE_DELAY; only attempts modulo it matters.       *)
MaxAttempts == 3

(* What a record that cannot be read is taken for                          *)
UnreadFits(p) == p # NoPassword
UnreadIsWrong(p) == FALSE

WrongPassword ==
    /\ Goto(IF attempts + 1 = MaxAttempts THEN "pause" ELSE "locked")
    /\ attempts' = (attempts + 1) % MaxAttempts
    /\ UNCHANGED entered

EnterPassword(p) ==
    /\ at = "locked"
    /\ \E read \in BOOLEAN :
          /\ unread' = (unread \/ ~read)
          /\ IF IF read THEN Fits(p) ELSE UnreadIsWrong(p)
             THEN Goto("shell") /\ entered' = p /\ UNCHANGED attempts
             ELSE WrongPassword
    /\ UNCHANGED <<files, busy, disk, mounted, typed>> /\ Past

Pause ==
    /\ at = "pause" /\ Goto("locked")
    /\ UNCHANGED <<files, busy, disk, mounted, unread>> /\ Kept /\ Past

-----------------------------------------------------------------------------
(* The shell *)

(* The file commands and everything else that lets the user write files    *)
ShellCall(op, n, c) ==
    /\ at = "shell" /\ mounted /\ Goto("call") /\ Begin(op, n, c)
    /\ harm' = harm \cup (IF n \in {Auth, Installed} THEN {"own"} ELSE {})
    /\ staged' = staged \cup (IF op = "write" /\ n = Staged THEN {c} ELSE {})
    /\ UNCHANGED <<disk, mounted, unread, owner>> /\ Kept

(* updatecmd_run: what fat16_read_file gives of the staged file, whole or  *)
(* not, and what of it is installed.                                       *)
LengthIgnored(read, whole) == read
ReadInFull(read, whole) == read /\ whole
LooksLikeKernel(c) == c \in Images \cup {Partial, Huge}

Update ==
    /\ at = "shell" /\ mounted
    /\ \E found, whole \in BOOLEAN :
          LET read == IF whole THEN files[Staged] ELSE Partial IN
          /\ unread' = (unread \/ ~found \/ ~whole)
          /\ IF /\ ReadInFull(found, whole) /\ files[Staged] \notin {Absent, Empty, Huge}
                /\ LooksLikeKernel(read)
             THEN Goto("install") /\ Begin("write", Installed, read)
             ELSE UNCHANGED <<files, busy, at>>
    /\ UNCHANGED <<disk, mounted>> /\ Kept /\ Past

Called ==
    /\ at \in {"call", "install"} /\ Goto("shell")
    /\ \/ Succeed /\ UNCHANGED harm
       \/ Fail /\ harm' = harm \cup Torn
    /\ UNCHANGED <<disk, mounted, unread, owner, staged>> /\ Kept

-----------------------------------------------------------------------------
(* Around the machine *)

(* The reboot command, the switch and the power failure: what is in memory *)
(* is lost, and a call or a format that runs is cut short.                 *)
PowerOff ==
    /\ at # "off" /\ Goto("off")
    /\ mounted' = FALSE /\ typed' = NoPassword /\ attempts' = 0
    /\ entered' = NoPassword /\ unread' = FALSE
    /\ IF busy = Idle
       THEN /\ UNCHANGED <<files, busy>>
            /\ harm' = harm \cup CutShort
       ELSE Fail /\ harm' = harm \cup Torn
    /\ UNCHANGED <<disk, owner, staged>>

(* The host machine copies a file to the staging name.                     *)
HostCopies(c) ==
    /\ at = "off" /\ disk # NoDisk /\ disk.boot \in VolumeBoots
    /\ files' = [files EXCEPT ![Staged] = c] /\ staged' = staged \cup {c}
    /\ UNCHANGED <<busy, disk, owner, harm>> /\ UNCHANGED machine

Kernel ==
    \/ Probe \/ Mount
    \/ FormatBoot \/ FormatAreas \/ FormatEnd \/ FormatFails
    \/ NoGate \/ LoginRun
    \/ PasswordSaved \/ PasswordNotSaved \/ NetworkSetup
    \/ Pause \/ Called

User ==
    \/ PowerOn
    \/ \E p \in Passwords \cup {NoPassword} :
          NewPassword(p) \/ ConfirmPassword(p) \/ EnterPassword(p)
    \/ \E op \in {"write", "rm"}, n \in Names, c \in UserFiles : ShellCall(op, n, c)
    \/ Update

BootNext == Kernel \/ User \/ PowerOff \/ \E c \in HostFiles : HostCopies(c)

(* The kernel's own steps are taken: every wait of the disk driver ends    *)
(* after a number of polls, and a request for a lease returns.             *)
BootSpec == BootInit /\ [][BootNext]_bootVars /\ WF_bootVars(Kernel)

-----------------------------------------------------------------------------
(* Properties *)

Prompts == {"off", "new", "confirm", "locked", "shell"}
Working == {"probe", "mount", "login", "saving", "network", "pause", "call", "install"}
             \cup {FormatOrder[i] : i \in 1 .. 5}

(* Store promises nothing of a file after a rewrite that was cut short.    *)
Whole == "torn" \notin harm

(* Every variable has its type; at most two wrong passwords stand between  *)
(* two pauses of login_run, and memory is empty while power is off.        *)
BootTypeOK ==
    /\ files \in [Names -> Readable \cup {Absent}]
    /\ at \in Prompts \cup Working
    /\ disk \in Disks \cup [boot : Sector0, area : [Areas -> {"zero", "old", "volume"}]]
    /\ {mounted, unread} \subseteq BOOLEAN
    /\ {typed, owner, entered} \subseteq Passwords \cup {NoPassword}
    /\ attempts \in 0 .. 2 /\ at = "pause" => attempts = 0
    /\ staged \subseteq HostFiles \cup UserFiles /\ harm \subseteq {"torn", "cut", "own", "reset"}
    /\ at = "off" => ~mounted /\ busy = Idle

(* "The machine is locked until the right password is entered": with a     *)
(* data disk nobody is at the shell who has not, since the machine was     *)
(* switched on, typed the password of its owner, whatever writes failed    *)
(* and wherever power was lost while it was being set.  The exception is a *)
(* record that was set aside: when the lookup of AURAUSER.DAT fails,       *)
(* login_run takes the start for the first and lets anybody set a new      *)
(* password, and when the boot sector cannot be read, kernel_main formats  *)
(* the disk and the next at the gate is the first.  Against auth.c's       *)
(* words, one failed read opens the machine.                               *)
(* (And every variable has its type.)                                      *)
UnlockedByOwner ==
    /\ BootTypeOK
    /\ mounted /\ at \in {"shell", "call", "install"} /\ "reset" \notin harm =>
          entered = owner /\ owner # NoPassword

(* The gate never asks for a password nobody knows: what login_run         *)
(* compares with is a record of a password that was typed twice, of the    *)
(* owner's unless it was set aside.                                        *)
PromptCanBeMet ==
    at \in {"locked", "pause"} /\ harm \cap {"own", "torn"} = {} =>
        IF "reset" \in harm THEN \E p \in Passwords : Fits(p) ELSE Fits(owner)

(* Starting the machine destroys nothing: neither the mounting of a disk   *)
(* nor the gate changes a file, whoever made the volume, unless a read of  *)
(* the disk has failed since the machine was switched on.                  *)
StartKeepsFiles ==
    [][\A n \in Names :
          files[n] # Absent /\ files'[n] # files[n] =>
            \/ unread
            \/ at \in {"off", "call"}
            \/ at = "install" /\ n = Installed
            \/ "own" \in harm]_bootVars

(* A volume that is in use holds nothing of what was on the disk before,   *)
(* neither in the tables nor in the directory, unless a format was cut     *)
(* short: the boot sector, which makes it a volume, is written first.      *)
FormattedClean ==
    mounted /\ "cut" \notin harm => \A a \in Areas : disk.area[a] # "old"

(* What GRUB finds to boot is a kernel exactly as it was staged, or        *)
(* nothing: never the part of one that a failed read left in the buffer.   *)
BootsWhole ==
    harm \cap {"own", "torn"} = {} =>
        files[Installed] \in {Absent} \cup (staged \cap (Images \cup {Partial}))

(* "Nothing about first boot ever blocks": from wherever the kernel works, *)
(* it comes to a prompt, to the shell, or power goes off.                  *)
ReachesPrompt == at \in Working ~> at \in Prompts
=============================================================================
