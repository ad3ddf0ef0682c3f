------------------------------ MODULE Posture ------------------------------
(***************************************************************************)
(* What the program says about the storage below a file and what a wipe    *)
(* of the file then leaves behind: storage/device.rs, filesystem.rs and    *)
(* snapshot/mod.rs as compliance-check and wipe use them (main.rs), on     *)
(* Linux.  Both commands read /proc/mounts, sysfs and the output of system *)
(* tools at different moments, while mounts and snapshots may change.      *)
(*                                                                         *)
(* One file is looked at.  Of the mount table only lines whose mount point *)
(* is on the file's path matter, and of such a mount point its depth: the  *)
(* longest of several prefixes of one path is the deepest.  A line whose   *)
(* mount point is written with an escape (a blank is \040) matches no      *)
(* path: it is not "plain".                                                *)
(***************************************************************************)
EXTENDS Naturals, Sequences

CONSTANTS
    Disk,          \* block devices
    NameEnds,      \* [Disk -> {"letter", "digit", "nvme"}]: sda, mmcblk0, nvme0n1
    Flash,         \* disks that remap: an overwritten block keeps its cells
    Rotational,    \* disks whose queue/rotational says 1
    Removable,     \* disks whose removable says 1
    Line,          \* lines of the mount table
    MaxMounts,     \* bound: lines in the table
    MaxChanges     \* bound: mounts, unmounts and snapshots while commands run

\* What is mounted: a disk or a partition of it, something that the device
\* mapper puts over a disk, or a source that is no path below /dev.
Source == [is : {"disk"}, disk : Disk, part : BOOLEAN] \cup
          [is : {"mapper"}, disk : Disk] \cup
          [is : {"other"}]

FsType == {"ext4", "ntfs3", "f2fs", "btrfs", "zfs", "nilfs2", "nfs4", "overlay"}

ASSUME LineAssumption ==
    Line \subseteq [at : Nat, source : Source, fs : FsType, plain : BOOLEAN]

ASSUME DiskAssumption ==
    /\ Flash \subseteq Disk /\ Rotational \subseteq Disk /\ Removable \subseteq Disk
    /\ NameEnds \in [Disk -> {"letter", "digit", "nvme"}]

ASSUME BoundsAssumption == MaxMounts \in Nat /\ MaxChanges \in Nat

\* The snapshot tools, in the order scan runs them.
Tools == <<"btrfs", "lvs", "zfs">>
Tool == {"btrfs", "lvs", "zfs"}

VARIABLES
    mounts,        \* the mount table, in the order of mounting
    snapshots,     \* tools whose kind of snapshot holds the file
    marked,        \* what the names on the canonical path tell: "cloud", "backup"
    linked,        \* the path as given shows none of it: it leads there by a link
    command,       \* "none", "compliance-check" or "wipe"
    pc,            \* its step
    line,          \* the line storage detection chose, or NoLine
    kind,          \* StorageInfo.kind
    fs,            \* the file-system type of the line detect_filesystem chose
    scanned,       \* how many of Tools scan_for_snapshots has run
    findings,      \* tools that found a snapshot
    verdict,       \* what compliance-check printed last: "none", "low", "elevated"
    printedFs,     \* the file-system type it printed with it
    warned,        \* the wipe's outcome warns of the storage class
    residue,       \* what the wipe left of the contents
    changes,       \* bound: changes so far
    moved,         \* history: mounts changed since compliance-check read them
    movedWipe,     \* history: mounts changed since wipe read them
    missed         \* history: tools that did not report a snapshot of the file
                   \* to compliance-check: they failed, or ran before it was taken

world    == <<mounts, snapshots, marked, linked>>
answers  == <<line, kind, fs, scanned, findings>>
printed  == <<verdict, printedFs, warned>>
changing == <<changes, moved, movedWipe>>

vars == <<world, command, pc, answers, printed, residue, changing, missed>>

Kind == {"Hdd", "Ssd", "Nvme", "UsbRemovable", "NetworkShare",
         "VirtualOrContainer", "CloudSynced", "Unknown"}

\* The folders the two heuristics know: of a cloud client, of a backup tool.
Marker == {"cloud", "backup"}

NoLine == [at |-> 0, source |-> [is |-> "other"], fs |-> "unread", plain |-> TRUE]

Tables == UNION {[1..n -> Line] : n \in 1..MaxMounts}

Snapshottable(m) ==
    {t \in Tool : \/ t = "btrfs" /\ m.fs = "btrfs"
                  \/ t = "zfs" /\ m.fs = "zfs"
                  \/ t = "lvs" /\ m.source.is = "mapper"}

(***************************************************************************)
(* The file is on what was mounted last on its path, whatever the depth: a *)
(* mount hides earlier ones at or below its mount point.                   *)
(***************************************************************************)
Actual == mounts[Len(mounts)]

TypeOK ==
    /\ mounts \in Seq(Line) /\ Len(mounts) \in 1..MaxMounts
    /\ snapshots \subseteq Tool
    /\ marked \subseteq Marker /\ linked \in BOOLEAN
    /\ command \in {"none", "compliance-check", "wipe"}
    /\ pc \in {"idle", "storage", "sysfs", "filesystem", "scan", "decide", "shred"}
    /\ pc = "idle" <=> command = "none"
    /\ line \in Line \cup {NoLine}
    /\ pc = "sysfs" => line.source.is = "disk"
    /\ kind \in Kind
    /\ fs \in FsType \cup {"unread"}
    /\ scanned \in 0..Len(Tools)
    /\ findings \subseteq {Tools[i] : i \in 1..scanned} \cup {"backup"}
    /\ verdict \in {"none", "low", "elevated"}
    /\ printedFs \in FsType \cup {"unread"} /\ warned \in BOOLEAN
    /\ residue \subseteq {"intact", "cells", "blocks", "remote"} \cup Marker \cup Tool
    /\ changes \in 0..MaxChanges
    /\ moved \in BOOLEAN /\ movedWipe \in BOOLEAN
    /\ missed \subseteq Tool

Init ==
    /\ mounts \in Tables
    /\ mounts[1].at = 0 /\ mounts[1].plain
    /\ snapshots \in SUBSET Snapshottable(Actual)
    /\ marked \in SUBSET Marker
    /\ linked \in BOOLEAN /\ (linked => marked # {})
    /\ command = "none"
    /\ pc = "idle"
    /\ line = NoLine
    /\ kind = "Unknown"
    /\ fs = "unread"
    /\ scanned = 0
    /\ findings = {}
    /\ verdict = "none"
    /\ printedFs = "unread"
    /\ warned = FALSE
    /\ residue = {"intact"}
    /\ changes = 0
    /\ moved = FALSE
    /\ movedWipe = FALSE
    /\ missed = {}

-----------------------------------------------------------------------------
(***************************************************************************)
(* The loop over /proc/mounts, the same in device.rs and filesystem.rs: a  *)
(* match that is no shorter replaces the one before.                       *)
(***************************************************************************)
FirstLongest(ms) ==                                                \* mutant
    LET M == {i \in DOMAIN ms : ms[i].plain}
    IN  ms[CHOOSE i \in M : \A j \in M : ms[j].at < ms[i].at \/
                                         (ms[j].at = ms[i].at /\ i <= j)]

LastLongest(ms) ==
    LET M == {i \in DOMAIN ms : ms[i].plain}
    IN  ms[CHOOSE i \in M : \A j \in M : ms[j].at < ms[i].at \/
                                         (ms[j].at = ms[i].at /\ j <= i)]

ChosenByFilesystem(ms) == LastLongest(ms)

\* detect_cloud_sync sees the canonical path in storage detection, the path as
\* given in compliance-check, as generic_backup_dir_scan does.
CloudSync == "cloud" \in marked
MarkedAsGiven == IF linked THEN {} ELSE marked

NetworkFs == {"nfs4"}

(***************************************************************************)
(* device.rs up to sysfs: what the mount table and the path decide.        *)
(***************************************************************************)
KindByMount(m) ==
    CASE CloudSync                 -> "CloudSynced"
      [] m.fs \in NetworkFs /\ ~CloudSync -> "NetworkShare"
      [] OTHER -> IF m.source.is = "mapper" THEN "VirtualOrContainer" ELSE "Unknown"

SysfsForAll(m) == ~CloudSync /\ m.fs \notin NetworkFs              \* mutant

NeedsSysfs(m) ==
    ~CloudSync /\ m.fs \notin NetworkFs /\ m.source.is = "disk"

(***************************************************************************)
(* strip_partition_suffix: the disk of sda, sda1 and nvme0n1p1 is found;   *)
(* nvme0n1, mmcblk0 and mmcblk0p1 lose a digit they need and name nothing  *)
(* in sysfs, though the first still begins with nvme.                      *)
(***************************************************************************)
InSysfs(s) ==
    \/ NameEnds[s.disk] = "letter"
    \/ NameEnds[s.disk] = "nvme" /\ s.part

KindBySysfs(s) ==
    IF InSysfs(s) /\ s.disk \in Removable THEN "UsbRemovable"
    ELSE IF NameEnds[s.disk] = "nvme" THEN "Nvme"
    ELSE IF ~InSysfs(s) THEN "Unknown"
    ELSE IF s.disk \in Rotational THEN "Hdd" ELSE "Ssd"

overwrite_is_reliable == kind \in {"Hdd", "UsbRemovable"}

(***************************************************************************)
(* filesystem.rs: nilfs2, bcachefs and others are Unknown to the table and *)
(* count as not copy-on-write.                                             *)
(***************************************************************************)
is_copy_on_write(type) == type \in {"btrfs", "zfs", "f2fs", "overlay"}

-----------------------------------------------------------------------------
Begin(c) ==
    /\ command = "none"
    /\ "intact" \in residue
    /\ command' = c
    /\ pc' = "storage"
    /\ IF c = "wipe" THEN movedWipe' = FALSE /\ UNCHANGED <<moved, missed>>
       ELSE moved' = FALSE /\ missed' = {} /\ UNCHANGED movedWipe
    /\ UNCHANGED <<world, answers, printed, residue, changes>>

\* The first read of the mount table; one that fails counts as empty.
DetectStorage ==
    /\ pc = "storage"
    /\ line' \in {LastLongest(mounts), NoLine}
    /\ kind' = KindByMount(line')
    /\ pc' = IF NeedsSysfs(line') THEN "sysfs" ELSE "filesystem"
    /\ UNCHANGED <<world, command, fs, scanned, findings, printed, residue,
                   changing, missed>>

ReadSysfs ==
    /\ pc = "sysfs"
    /\ kind' = KindBySysfs(line.source)
    /\ pc' = "filesystem"
    /\ UNCHANGED <<world, command, line, fs, scanned, findings, printed, residue,
                   changing, missed>>

\* The second read of the mount table.
DetectFilesystem ==
    /\ pc = "filesystem"
    /\ fs' \in {ChosenByFilesystem(mounts).fs, "unread"}
    /\ pc' = IF command = "wipe" THEN "shred" ELSE "scan"
    /\ UNCHANGED <<world, command, line, kind, scanned, findings, printed, residue,
                   changing, missed>>

(***************************************************************************)
(* One tool of scan_for_snapshots.  It finds the file's snapshots or those *)
(* of anything else on the system; one that is missing or fails has no     *)
(* findings.                                                               *)
(***************************************************************************)
ScanTool ==
    /\ pc = "scan"
    /\ scanned < Len(Tools)
    /\ scanned' = scanned + 1
    /\ LET t == Tools[scanned'] IN
         \/ findings' = findings \cup {t} /\ UNCHANGED missed
         \/ missed' = missed \cup ({t} \cap snapshots) /\ UNCHANGED findings
    /\ UNCHANGED <<world, command, pc, line, kind, fs, printed, residue, changing>>

ScanMarkers ==
    /\ pc = "scan"
    /\ scanned = Len(Tools)
    /\ pc' = "decide"
    /\ findings' = findings \cup (MarkedAsGiven \cap {"backup"})
    /\ UNCHANGED <<world, command, line, kind, fs, scanned, printed, residue,
                   changing, missed>>

Ends ==
    /\ command' = "none" /\ pc' = "idle"
    /\ line' = NoLine /\ kind' = "Unknown" /\ fs' = "unread"
    /\ scanned' = 0 /\ findings' = {}

LowRiskUnscanned == overwrite_is_reliable /\ "cloud" \notin MarkedAsGiven \* mutant

LowRisk ==
    overwrite_is_reliable /\ findings = {} /\ "cloud" \notin MarkedAsGiven

Decide ==
    /\ pc = "decide"
    /\ verdict' = IF LowRisk THEN "low" ELSE "elevated"
    /\ printedFs' = fs
    /\ Ends
    /\ UNCHANGED <<world, warned, residue, changing, missed>>

-----------------------------------------------------------------------------
(***************************************************************************)
(* What overwriting the file in place does not reach: cells of a medium    *)
(* that remaps, blocks a file system does not write in place, a server or  *)
(* a cloud client's or a backup tool's copies, snapshots.                  *)
(***************************************************************************)
Remains ==
    {"cells" : x \in {y \in {Actual.source} : y.is # "other" /\ y.disk \in Flash}}
    \cup {"blocks" : x \in {y \in {Actual.fs} :
                            y \in {"btrfs", "zfs", "f2fs", "overlay", "nilfs2"}}}
    \cup {"remote" : x \in {y \in {Actual.fs} : y \in NetworkFs}}
    \cup marked \cup snapshots

WarnsNever == FALSE                                                \* mutant

Warns == ~overwrite_is_reliable

(***************************************************************************)
(* shred_file.  The read that verifies the last pass goes through the file *)
(* system and returns what was written, wherever the old contents are.     *)
(***************************************************************************)
Shred ==
    /\ pc = "shred"
    /\ residue' = Remains
    /\ warned' = Warns
    /\ Ends
    /\ UNCHANGED <<world, verdict, printedFs, changing, missed>>

Command ==
    \/ \E c \in {"compliance-check", "wipe"} : Begin(c)
    \/ DetectStorage \/ ReadSysfs \/ DetectFilesystem
    \/ ScanTool \/ ScanMarkers \/ Decide \/ Shred

-----------------------------------------------------------------------------
(***************************************************************************)
(* The system: something is mounted over the path or unmounted, and the    *)
(* path then leads to another file of the same name; a snapshot is taken.  *)
(***************************************************************************)
Change ==
    /\ changes < MaxChanges
    /\ "intact" \in residue
    /\ changes' = changes + 1

Mount ==
    /\ Change
    /\ Len(mounts) < MaxMounts
    /\ \E l \in Line : mounts' = Append(mounts, l)
    /\ snapshots' \in SUBSET Snapshottable(mounts'[Len(mounts')])
    /\ moved' = TRUE /\ movedWipe' = TRUE
    /\ UNCHANGED <<marked, linked, command, pc, answers, printed, residue, missed>>

Unmount ==
    /\ Change
    /\ Len(mounts) > 1
    /\ mounts' = SubSeq(mounts, 1, Len(mounts) - 1)
    /\ snapshots' \in SUBSET Snapshottable(mounts'[Len(mounts')])
    /\ moved' = TRUE /\ movedWipe' = TRUE
    /\ UNCHANGED <<marked, linked, command, pc, answers, printed, residue, missed>>

ToRun(t) == /\ command = "compliance-check"
            /\ \E i \in (scanned + 1)..Len(Tools) : Tools[i] = t

TakeSnapshot ==
    /\ Change
    /\ \E t \in Snapshottable(Actual) \ snapshots :
         /\ snapshots' = snapshots \cup {t}
         /\ missed' = IF ToRun(t) THEN missed ELSE missed \cup {t}
    /\ UNCHANGED <<mounts, marked, linked, command, pc, answers, printed,
                   residue, moved, movedWipe>>

Next == Command \/ Mount \/ Unmount \/ TakeSnapshot

Spec == Init /\ [][Next]_vars

-----------------------------------------------------------------------------
(***************************************************************************)
(* Properties.                                                             *)
(***************************************************************************)
Wiped == "intact" \notin residue

\* The line the code picks need not be the mount the file is on.
Hidden ==
    \/ ~Actual.plain
    \/ \E i \in DOMAIN mounts : mounts[i].plain /\ mounts[i].at > Actual.at

\* Disks the kernel describes as a medium that is overwritten in place.
Misdescribed == Flash \cap (Removable \cup Rotational)

(***************************************************************************)
(* When compliance-check has said LOW RISK, a wipe leaves a copy behind    *)
(* only for one of these reasons: the mount table changed or hides the     *)
(* file's mount; the kernel calls flash removable or rotational; the file  *)
(* system is copy-on-write, which the report printed or its table does not *)
(* know; a snapshot tool failed or a snapshot came later; a link leads     *)
(* into the folder of a backup tool.  A cloud folder is never LOW RISK, by *)
(* a link or not (main.rs:416-439).                                        *)
(***************************************************************************)
LowRiskHasReason ==
    Wiped /\ verdict = "low" =>
        /\ \/ moved \/ Hidden
           \/ /\ "cells" \in residue => Actual.source.disk \in Misdescribed
              /\ "blocks" \in residue =>
                    is_copy_on_write(printedFs) \/ ~is_copy_on_write(Actual.fs)
                        \/ printedFs = "unread"
              /\ "remote" \notin residue
        /\ residue \cap Tool \subseteq missed \/ moved
        /\ "cloud" \notin residue
        /\ "backup" \in residue => linked

(***************************************************************************)
(* A wipe without the warning about the storage class leaves old cells or  *)
(* a remote copy only on a disk the kernel misdescribes, or when the mount *)
(* the code looked at is not the file's (engine.rs:80-86, main.rs:158).    *)
(***************************************************************************)
UnwarnedHasReason ==
    Wiped /\ ~warned =>
        \/ movedWipe \/ Hidden
        \/ /\ "cells" \in residue => Actual.source.disk \in Misdescribed
           /\ residue \cap {"remote", "cloud"} = {}

(***************************************************************************)
(* Storage and file system are read from the mount table separately; as    *)
(* long as the table stays as it is, both describe one mount, and it is    *)
(* the file's unless it is hidden (device.rs:133-156, filesystem.rs:        *)
(* 118-132).                                                               *)
(***************************************************************************)
OneMountDescribed ==
    LET still == IF command = "wipe" THEN ~movedWipe ELSE ~moved
    IN  /\ command # "none" /\ still /\ line # NoLine
           => line = Actual \/ Hidden
        /\ pc \in {"scan", "decide", "shred"} /\ still
              /\ fs # "unread" /\ line # NoLine
           => fs = line.fs

(***************************************************************************)
(* "LOW RISK - standard overwrite sanitization should be effective"        *)
(* (main.rs:435) is not said of a file system which the same report calls  *)
(* copy-on-write (main.rs:427) and whose old blocks the wipe leaves, while *)
(* the mounts stay as they are.  filesystem.rs:83 advises not to rely on   *)
(* overwriting alone there.                                                *)
(***************************************************************************)
LowRiskHeedsCopyOnWrite ==
    /\ Wiped /\ changes = 0
    /\ verdict = "low" /\ is_copy_on_write(printedFs)
    => "blocks" \notin residue
=============================================================================
