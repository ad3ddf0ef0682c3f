--------------------------- MODULE Posture_proofs ---------------------------
(***************************************************************************)
(* Proofs about Posture, for any disks, any lines of the mount table and   *)
(* any number of mounts and changes.                                       *)
(***************************************************************************)
EXTENDS Posture, SequenceTheorems, WellFoundedInduction, TLAPS

(* A set of numbers that is not empty has a least one. *)
LEMMA LeastNumber ==
    ASSUME NEW T, T \subseteq Nat, T # {}
    PROVE  \E x \in T : \A y \in T : x <= y
<1> DEFINE R == OpToRel(<, Nat)
<1>1. IsWellFoundedOn(R, Nat)
    BY NatLessThanWellFounded
<1>2. \A x, y \in Nat : <<y, x>> \in R <=> y < x
    BY DEF OpToRel
<1> HIDE DEF R
<1>3. PICK x \in T : \A y \in T : ~(<<y, x>> \in R)
    BY <1>1, WFMin
<1>4. ASSUME NEW y \in T PROVE x <= y
  <2>1. ~(y < x)
      BY <1>2, <1>3
  <2>2. x \in Nat /\ y \in Nat
      OBVIOUS
  <2>3. QED BY ONLY <2>1, <2>2
<1>5. QED BY <1>4

-----------------------------------------------------------------------------
(***************************************************************************)
(* The loop over /proc/mounts (device.rs:133-156, filesystem.rs:118-132).  *)
(***************************************************************************)
\* Of the lines up to the n-th, the i-th is the one the loop holds.
HeldAfter(ms, n, i) ==
    /\ i \in 1..n
    /\ ms[i].plain
    /\ \A j \in 1..n :
         ms[j].plain => ms[j].at < ms[i].at \/ (ms[j].at = ms[i].at /\ j <= i)

(* A table with a line that matches leaves the loop with one. *)
LEMMA LoopHoldsALine ==
    ASSUME NEW ms \in Seq(Line), Len(ms) >= 1, ms[1].plain
    PROVE  \E i \in 1..Len(ms) : HeldAfter(ms, Len(ms), i)
<1> DEFINE Failed == {n \in 1..Len(ms) : ~\E i \in 1..n : HeldAfter(ms, n, i)}
<1>1. /\ Len(ms) \in Nat
      /\ \A i \in 1..Len(ms) : ms[i].at \in Nat
    BY LineAssumption, LenProperties, ElementOfSeq
<1>2. SUFFICES ASSUME Failed # {} PROVE FALSE
    BY <1>1
<1>3. PICK n \in Failed : \A m \in Failed : n <= m
  <2>1. Failed \subseteq Nat
      BY <1>1
  <2> HIDE DEF Failed
  <2>2. QED BY <1>2, <2>1, LeastNumber
<1>4. CASE n = 1
    BY <1>1, <1>3, <1>4 DEF HeldAfter
<1>5. CASE n # 1
  <2>1. n \in 1..Len(ms) /\ n - 1 \in 1..Len(ms) /\ n - 1 \notin Failed
      BY <1>1, <1>3, <1>5
  <2>2. PICK i \in 1..(n - 1) : HeldAfter(ms, n - 1, i)
      BY <2>1
  <2>3. \A j \in 1..n : j \in 1..(n - 1) \/ j = n
      BY <1>1, <2>1
  <2>4. CASE ms[n].plain /\ ms[n].at >= ms[i].at
    <3>0. ASSUME NEW j \in 1..n, ms[j].plain
          PROVE  ms[j].at < ms[n].at \/ (ms[j].at = ms[n].at /\ j <= n)
      <4>1. CASE j = n
          BY <1>1, <2>1, <4>1
      <4>2. CASE j \in 1..(n - 1)
        <5>1. ms[j].at < ms[i].at \/ (ms[j].at = ms[i].at /\ j <= i)
            BY <2>2, <3>0, <4>2 DEF HeldAfter
        <5>2. /\ ms[j].at \in Nat /\ ms[i].at \in Nat /\ ms[n].at \in Nat
              /\ j \in Nat /\ n \in Nat /\ j <= n
            BY <1>1, <2>1, <4>2
        <5>3. ms[n].at >= ms[i].at
            BY <2>4
        <5>4. QED BY ONLY <5>1, <5>2, <5>3
      <4>3. QED BY <2>3, <4>1, <4>2
    <3>1. HeldAfter(ms, n, n)
        BY <1>1, <2>1, <2>4, <3>0 DEF HeldAfter
    <3>2. QED BY <1>1, <1>3, <2>1, <3>1
  <2>5. CASE ~(ms[n].plain /\ ms[n].at >= ms[i].at)
    <3>0. ASSUME NEW j \in 1..n, ms[j].plain
          PROVE  ms[j].at < ms[i].at \/ (ms[j].at = ms[i].at /\ j <= i)
      <4>1. CASE j = n
        <5>1. ~(ms[n].at >= ms[i].at)
            BY <2>5, <3>0, <4>1
        <5>2. ms[n].at \in Nat /\ ms[i].at \in Nat
            BY <1>1, <2>1
        <5>3. QED BY <4>1, <5>1, <5>2
      <4>2. CASE j \in 1..(n - 1)
          BY <2>2, <3>0, <4>2 DEF HeldAfter
      <4>3. QED BY <2>3, <4>1, <4>2
    <3>1. HeldAfter(ms, n, i)
        BY <1>1, <2>1, <2>2, <3>0 DEF HeldAfter
    <3>2. QED BY <1>1, <1>3, <2>1, <2>2, <3>1
  <2>6. QED BY <2>4, <2>5
<1>6. QED BY <1>4, <1>5

(* The loop returns a line of the table, the deepest that matches, and of  *)
(* equally deep ones the last.                                             *)
LEMMA LastLongestIs ==
    ASSUME NEW ms \in Seq(Line), Len(ms) >= 1, ms[1].plain
    PROVE  \E i \in 1..Len(ms) :
              HeldAfter(ms, Len(ms), i) /\ LastLongest(ms) = ms[i]
<1> DEFINE M == {i \in DOMAIN ms : ms[i].plain}
           Best(i) == \A j \in M : ms[j].at < ms[i].at \/
                                   (ms[j].at = ms[i].at /\ j <= i)
           c == CHOOSE i \in M : Best(i)
<1>1. DOMAIN ms = 1..Len(ms)
    BY LenProperties
<1>2. \A i \in 1..Len(ms) : HeldAfter(ms, Len(ms), i) <=> i \in M /\ Best(i)
    BY <1>1 DEF HeldAfter
<1>3. \E i \in M : Best(i)
    BY <1>2, LoopHoldsALine
<1>4. c \in M /\ Best(c)
    BY <1>3
<1>5. LastLongest(ms) = ms[c]
    BY DEF LastLongest
<1> HIDE DEF c
<1>6. QED BY <1>1, <1>2, <1>4, <1>5

(* It returns the mount the file is on, or that mount is hidden from it.   *)
LEMMA ActualOrHidden ==
    ASSUME mounts \in Seq(Line), Len(mounts) >= 1, mounts[1].plain
    PROVE  /\ LastLongest(mounts) \in Line
           /\ LastLongest(mounts) = Actual \/ Hidden
<1>1. PICK i \in 1..Len(mounts) :
        HeldAfter(mounts, Len(mounts), i) /\ LastLongest(mounts) = mounts[i]
    BY LastLongestIs
<1>2. Len(mounts) \in Nat /\ DOMAIN mounts = 1..Len(mounts)
    BY LenProperties
<1>3. \A j \in 1..Len(mounts) : mounts[j] \in Line /\ mounts[j].at \in Nat
    BY LineAssumption, ElementOfSeq
<1>4. ASSUME ~Hidden PROVE i = Len(mounts)
  <2>1. Len(mounts) \in 1..Len(mounts) /\ mounts[Len(mounts)].plain
      BY <1>2, <1>4 DEF Hidden, Actual
  <2>2. ~(mounts[i].at > mounts[Len(mounts)].at)
      BY <1>1, <1>2, <1>4 DEF Hidden, Actual, HeldAfter
  <2>3. \/ mounts[Len(mounts)].at < mounts[i].at
        \/ Len(mounts) <= i
      BY <1>1, <2>1 DEF HeldAfter
  <2>4. /\ Len(mounts) \in Nat /\ i \in 1..Len(mounts)
        /\ mounts[Len(mounts)].at \in Nat /\ mounts[i].at \in Nat
      BY <1>2, <1>3, <2>1
  <2>5. QED BY ONLY <2>2, <2>3, <2>4
<1>5. QED BY <1>1, <1>3, <1>4 DEF Actual

-----------------------------------------------------------------------------
(***************************************************************************)
(* The invariant.                                                          *)
(***************************************************************************)
\* A mount of a disk the kernel says can be overwritten in place.
Overwritable(m) ==
    /\ m.source.is = "disk"
    /\ m.source.disk \in Removable \cup Rotational
    /\ m.fs \notin NetworkFs

\* What was mounted first is at the root, and not written with an escape.
TableInv == mounts[1].plain

\* Which of its answers a command has by now.
SessionInv ==
    /\ pc \in {"idle", "storage"} => line = NoLine /\ kind = "Unknown"
    /\ pc \notin {"scan", "decide", "shred"} => fs = "unread"
    /\ pc \notin {"scan", "decide"} => scanned = 0 /\ findings = {}
    /\ pc = "shred" => command = "wipe"
    /\ pc \in {"scan", "decide"} => command = "compliance-check"
    /\ pc = "decide" => scanned = Len(Tools)

\* The storage class is that of the line, once sysfs was asked if need be.
KindInv ==
    /\ pc = "sysfs" => NeedsSysfs(line)
    /\ pc \in {"filesystem", "scan", "decide", "shred"} =>
          kind = IF NeedsSysfs(line) THEN KindBySysfs(line.source)
                                     ELSE KindByMount(line)

Still == IF command = "wipe" THEN ~movedWipe ELSE ~moved

\* What was read of the mount table is what would be read now.
ReadInv ==
    command # "none" /\ Still =>
        /\ line # NoLine => line = LastLongest(mounts)
        /\ fs # "unread" => fs = LastLongest(mounts).fs

\* A snapshot is found, missed, or the turn of its tool is still to come.
ScanInv ==
    /\ command = "compliance-check" /\ ~moved =>
          \A i \in 1..Len(Tools) :
             Tools[i] \in snapshots =>
                 i > scanned \/ Tools[i] \in findings \cup missed
    /\ pc = "decide" /\ findings = {} /\ "backup" \in marked => linked

\* What LOW RISK says of the file, from the moment it is printed.
VerdictInv ==
    verdict = "low" /\ command # "compliance-check" =>
        /\ "cloud" \notin marked
        /\ "backup" \in marked => linked
        /\ ~moved => snapshots \subseteq missed
        /\ ~moved /\ ~Hidden =>
              Overwritable(Actual) /\ printedFs \in {"unread", Actual.fs}

\* After the wipe nothing moves; what it left is what was out of its reach.
WipeInv ==
    Wiped =>
        /\ command = "none"
        /\ residue = Remains
        /\ ~warned => /\ "cloud" \notin marked
                      /\ ~movedWipe /\ ~Hidden => Overwritable(Actual)

IInv == /\ TypeOK /\ TableInv /\ SessionInv /\ KindInv /\ ReadInv
        /\ ScanInv /\ VerdictInv /\ WipeInv

-----------------------------------------------------------------------------
(***************************************************************************)
(* Facts about the operators.                                              *)
(***************************************************************************)
(* There are three tools. *)
LEMMA ThreeTools ==
    /\ Len(Tools) = 3
    /\ \A i \in 1..3 : Tools[i] \in Tool
    /\ \A t \in Tool : \E i \in 1..3 : Tools[i] = t
<1>1. Len(Tools) = 3 /\ Tools[1] = "btrfs" /\ Tools[2] = "lvs" /\ Tools[3] = "zfs"
    BY DEF Tools
<1>2. 1..3 = {1, 2, 3}
    OBVIOUS
<1>3. QED BY <1>1, <1>2 DEF Tool

(* Only a disk that sysfs calls removable or rotational, and that no       *)
(* network file system or cloud folder is on, gets a class that counts as  *)
(* reliable (device.rs:58-130).                                            *)
LEMMA ReliableMeans ==
    ASSUME KindInv, overwrite_is_reliable,
           pc \in {"filesystem", "scan", "decide", "shred"}
    PROVE  "cloud" \notin marked /\ Overwritable(line)
<1>1. CASE NeedsSysfs(line)
  <2>1. kind = KindBySysfs(line.source)
      BY <1>1 DEF KindInv
  <2>2. line.source.disk \in Removable \cup Rotational
      BY <2>1 DEF KindBySysfs, overwrite_is_reliable
  <2>3. QED BY <1>1, <2>2 DEF NeedsSysfs, CloudSync, Overwritable
<1>2. CASE ~NeedsSysfs(line)
  <2>1. kind = KindByMount(line)
      BY <1>2 DEF KindInv
  <2>2. CASE CloudSync
      BY <2>1, <2>2 DEF KindByMount, overwrite_is_reliable
  <2>3. CASE ~CloudSync /\ line.fs \in NetworkFs
      BY <2>1, <2>3 DEF KindByMount, overwrite_is_reliable
  <2>4. CASE ~CloudSync /\ line.fs \notin NetworkFs
      BY <2>1, <2>4 DEF KindByMount, overwrite_is_reliable
  <2>5. QED BY <2>2, <2>3, <2>4
<1>3. QED BY <1>1, <1>2

(* The class a line has before sysfs is asked, and after, is a class. *)
LEMMA KindTypes ==
    /\ \A m : KindByMount(m) \in Kind
    /\ \A s : KindBySysfs(s) \in Kind
<1>1. ASSUME NEW m PROVE KindByMount(m) \in Kind
  <2>1. CASE CloudSync
      BY <2>1 DEF KindByMount, Kind
  <2>2. CASE ~CloudSync /\ m.fs \in NetworkFs
      BY <2>2 DEF KindByMount, Kind
  <2>3. CASE ~CloudSync /\ m.fs \notin NetworkFs
      BY <2>3 DEF KindByMount, Kind
  <2>4. QED BY <2>1, <2>2, <2>3
<1>2. ASSUME NEW s PROVE KindBySysfs(s) \in Kind
    BY DEF KindBySysfs, Kind
<1>3. QED BY <1>1, <1>2

(* A wipe leaves what can be left.                                         *)
LEMMA RemainsTypes ==
    ASSUME TypeOK
    PROVE  Remains \subseteq {"cells", "blocks", "remote"} \cup Marker \cup Tool
BY DEF TypeOK, Remains

(* What the table's lines are made of. *)
LEMMA LineTypes ==
    ASSUME NEW m \in Line \cup {NoLine}
    PROVE  m.fs \in FsType \cup {"unread"}
BY LineAssumption DEF NoLine

(* A command in progress has not wiped, so WipeInv says nothing of it.     *)
LEMMA NotWiped ==
    ASSUME IInv, pc # "idle"
    PROVE  ~Wiped /\ command # "none"
BY DEF IInv, WipeInv, TypeOK

-----------------------------------------------------------------------------
(* The invariant holds initially. *)
THEOREM InitInv == Init => IInv
<1> SUFFICES ASSUME Init PROVE IInv
    OBVIOUS
<1>1. mounts \in Seq(Line) /\ Len(mounts) \in 1..MaxMounts
  <2>1. PICK n \in 1..MaxMounts : mounts \in [1..n -> Line]
      BY DEF Init, Tables
  <2>2. n \in Nat /\ Seq(Line) = UNION {[1..k -> Line] : k \in Nat}
      BY BoundsAssumption, SeqDef
  <2>3. mounts \in Seq(Line)
      BY <2>1, <2>2
  <2>4. Len(mounts) = n
      BY <2>1, <2>2, <2>3, LenProperties
  <2>5. QED BY <2>3, <2>4
<1>2. snapshots \subseteq Tool
    BY DEF Init, Snapshottable
<1>3. TypeOK
  <2>1. scanned \in 0..Len(Tools) /\ changes \in 0..MaxChanges
      BY ThreeTools, BoundsAssumption DEF Init
  <2>2. /\ findings \subseteq {Tools[i] : i \in 1..scanned} \cup {"backup"}
        /\ residue \subseteq {"intact", "cells", "blocks", "remote"}
                                \cup Marker \cup Tool
      BY DEF Init
  <2>3. QED BY <1>1, <1>2, <2>1, <2>2 DEF Init, TypeOK, Kind
<1>4. TableInv /\ SessionInv /\ KindInv
    BY DEF Init, TableInv, SessionInv, KindInv
<1>5. ReadInv /\ ScanInv /\ VerdictInv /\ WipeInv
    BY DEF Init, ReadInv, ScanInv, VerdictInv, WipeInv, Wiped
<1>6. QED BY <1>3, <1>4, <1>5 DEF IInv

-----------------------------------------------------------------------------
(***************************************************************************)
(* The steps of a command.                                                 *)
(***************************************************************************)
(* A command begins without answers, and with the table as it is. *)
LEMMA BeginInv ==
    ASSUME IInv, NEW c \in {"compliance-check", "wipe"}, Begin(c)
    PROVE  IInv'
<1>1. /\ command = "none" /\ pc = "idle" /\ command' = c /\ pc' = "storage"
      /\ "intact" \in residue
      /\ UNCHANGED <<world, answers, printed, residue, changes>>
    BY DEF Begin, IInv, TypeOK
<1> USE <1>1 DEF IInv, world, answers, printed
<1>2. TypeOK'
    BY DEF Begin, TypeOK
<1>3. TableInv' /\ SessionInv' /\ KindInv'
    BY DEF TableInv, SessionInv, KindInv
<1>4. ReadInv'
    BY DEF SessionInv, ReadInv
<1>5. ScanInv'
    BY ThreeTools DEF SessionInv, ScanInv
<1>6. VerdictInv'
    BY DEF Begin, VerdictInv, Hidden, Actual, Overwritable
<1>7. WipeInv'
    BY DEF WipeInv, Wiped
<1>8. QED BY <1>2, <1>3, <1>4, <1>5, <1>6, <1>7

(* The first read of the table: storage class up to sysfs. *)
LEMMA DetectStorageInv ==
    ASSUME IInv, DetectStorage
    PROVE  IInv'
<1>1. /\ pc = "storage"
      /\ line' \in {LastLongest(mounts), NoLine}
      /\ kind' = KindByMount(line')
      /\ pc' = IF NeedsSysfs(line') THEN "sysfs" ELSE "filesystem"
      /\ UNCHANGED <<world, command, fs, scanned, findings, printed, residue,
                     changing, missed>>
    BY DEF DetectStorage
<1>2. ~Wiped /\ command # "none"
    BY <1>1, NotWiped
<1> USE <1>1 DEF IInv, world, printed, changing
<1>3. line' \in Line \cup {NoLine}
    BY ActualOrHidden DEF TypeOK, TableInv
<1>4. kind' \in Kind
    BY KindTypes
<1>5. NeedsSysfs(line') => line'.source.is = "disk"
    BY DEF NeedsSysfs
<1>6. TypeOK'
    BY <1>2, <1>3, <1>4, <1>5 DEF TypeOK
<1>7. TableInv' /\ SessionInv'
    BY DEF TableInv, SessionInv
<1>8. KindInv'
    BY DEF KindInv, NeedsSysfs, CloudSync, KindByMount
<1>9. ReadInv'
    BY DEF SessionInv, ReadInv, Still
<1>10. ScanInv'
    BY DEF ScanInv
<1>11. VerdictInv'
    BY DEF VerdictInv, Hidden, Actual, Overwritable
<1>12. WipeInv'
    BY <1>2 DEF WipeInv, Wiped
<1>13. QED BY <1>6, <1>7, <1>8, <1>9, <1>10, <1>11, <1>12

(* sysfs decides the class of a disk. *)
LEMMA ReadSysfsInv ==
    ASSUME IInv, ReadSysfs
    PROVE  IInv'
<1>1. /\ pc = "sysfs"
      /\ kind' = KindBySysfs(line.source)
      /\ pc' = "filesystem"
      /\ UNCHANGED <<world, command, line, fs, scanned, findings, printed,
                     residue, changing, missed>>
    BY DEF ReadSysfs
<1>2. ~Wiped /\ command # "none"
    BY <1>1, NotWiped
<1> USE <1>1 DEF IInv, world, printed, changing
<1>3. TypeOK'
    BY <1>2, KindTypes DEF TypeOK
<1>4. TableInv' /\ SessionInv'
    BY DEF TableInv, SessionInv
<1>5. KindInv'
    BY DEF KindInv, NeedsSysfs, CloudSync
<1>6. ReadInv' /\ ScanInv'
    BY DEF ReadInv, Still, ScanInv
<1>7. VerdictInv'
    BY DEF VerdictInv, Hidden, Actual, Overwritable
<1>8. WipeInv'
    BY <1>2 DEF WipeInv, Wiped
<1>9. QED BY <1>3, <1>4, <1>5, <1>6, <1>7, <1>8

(* The second read of the table. *)
LEMMA DetectFilesystemInv ==
    ASSUME IInv, DetectFilesystem
    PROVE  IInv'
<1>1. /\ pc = "filesystem"
      /\ fs' \in {LastLongest(mounts).fs, "unread"}
      /\ pc' = IF command = "wipe" THEN "shred" ELSE "scan"
      /\ UNCHANGED <<world, command, line, kind, scanned, findings, printed,
                     residue, changing, missed>>
    BY DEF DetectFilesystem, ChosenByFilesystem
<1>2. ~Wiped /\ command # "none"
    BY <1>1, NotWiped
<1> USE <1>1 DEF IInv, world, printed, changing
<1>3. fs' \in FsType \cup {"unread"}
    BY ActualOrHidden, LineTypes DEF TypeOK, TableInv
<1>4. TypeOK'
    BY <1>2, <1>3 DEF TypeOK
<1>5. TableInv' /\ SessionInv'
    BY <1>2 DEF TableInv, SessionInv, TypeOK
<1>6. KindInv'
    BY DEF KindInv, NeedsSysfs, CloudSync, KindByMount
<1>7. ReadInv' /\ ScanInv'
    BY DEF ReadInv, Still, ScanInv
<1>8. VerdictInv'
    BY DEF VerdictInv, Hidden, Actual, Overwritable
<1>9. WipeInv'
    BY <1>2 DEF WipeInv, Wiped
<1>10. QED BY <1>4, <1>5, <1>6, <1>7, <1>8, <1>9

(* A tool has findings, or what it should have found is missed. *)
LEMMA ScanToolInv ==
    ASSUME IInv, ScanTool
    PROVE  IInv'
<1> DEFINE t == Tools[scanned + 1]
<1>1. /\ pc = "scan"
      /\ scanned' = scanned + 1
      /\ \/ findings' = findings \cup {t} /\ UNCHANGED missed
         \/ missed' = missed \cup ({t} \cap snapshots) /\ UNCHANGED findings
      /\ UNCHANGED <<world, command, pc, line, kind, fs, printed, residue,
                     changing>>
    BY DEF ScanTool
<1>2. ~Wiped /\ command # "none"
    BY <1>1, NotWiped
<1>3. scanned \in 0..2 /\ t \in Tool
  <2>1. scanned \in 0..3 /\ scanned < 3
      BY ThreeTools DEF ScanTool, IInv, TypeOK
  <2>2. scanned \in 0..2 /\ scanned + 1 \in 1..3
      BY <2>1
  <2>3. QED BY <2>2, ThreeTools
<1> USE <1>1 DEF IInv, world, printed, changing
<1>4. findings' \subseteq {Tools[i] : i \in 1..(scanned')} \cup {"backup"}
  <2>1. \A i \in 1..scanned : i \in 1..(scanned')
      BY <1>3
  <2>2. scanned + 1 \in 1..(scanned')
      BY <1>3
  <2>3. {Tools[i] : i \in 1..scanned} \cup {t} \subseteq {Tools[i] : i \in 1..(scanned')}
      BY <2>1, <2>2
  <2> HIDE DEF t
  <2>4. findings \subseteq {Tools[i] : i \in 1..scanned} \cup {"backup"}
      BY DEF TypeOK
  <2>5. findings' \subseteq findings \cup {t}
      OBVIOUS
  <2>6. QED BY ONLY <2>3, <2>4, <2>5
<1>5. missed' \subseteq Tool
    BY <1>3 DEF TypeOK
<1>6. TypeOK'
  <2>1. scanned' \in 0..Len(Tools)
      BY <1>3, ThreeTools
  <2> HIDE DEF t
  <2>2. QED BY <1>4, <1>5, <2>1 DEF TypeOK
<1>7. TableInv' /\ SessionInv' /\ KindInv' /\ ReadInv'
    BY DEF TableInv, SessionInv, KindInv, NeedsSysfs, CloudSync, KindByMount,
           ReadInv, Still
<1>8. ScanInv'
  <2> SUFFICES ASSUME ~moved, NEW i \in 1..Len(Tools), Tools[i] \in snapshots,
                      ~(i > scanned')
               PROVE  Tools[i] \in findings' \cup missed'
      BY DEF ScanInv
  <2>1. i \in 1..3 /\ (i = scanned + 1 \/ ~(i > scanned))
      BY <1>3, ThreeTools
  <2>2. CASE i = scanned + 1
    <3>1. t \in snapshots
        BY <2>2
    <3>2. QED BY <2>2, <3>1
  <2>3. CASE ~(i > scanned)
    <3>1. Tools[i] \in findings \cup missed
        BY <2>3 DEF SessionInv, ScanInv
    <3>2. QED BY <3>1
  <2>4. QED BY <2>1, <2>2, <2>3
<1>9. VerdictInv'
    BY DEF SessionInv, VerdictInv
<1>10. WipeInv'
    BY <1>2 DEF WipeInv, Wiped
<1>11. QED BY <1>6, <1>7, <1>8, <1>9, <1>10

(* The folders of backup tools, as far as the path as given shows them. *)
LEMMA ScanMarkersInv ==
    ASSUME IInv, ScanMarkers
    PROVE  IInv'
<1>1. /\ pc = "scan" /\ pc' = "decide"
      /\ scanned = Len(Tools)
      /\ findings' = findings \cup (MarkedAsGiven \cap {"backup"})
      /\ UNCHANGED <<world, command, line, kind, fs, scanned, printed, residue,
                     changing, missed>>
    BY DEF ScanMarkers
<1>2. ~Wiped /\ command # "none"
    BY <1>1, NotWiped
<1> USE <1>1 DEF IInv, world, printed, changing
<1>3. TypeOK'
    BY <1>2 DEF TypeOK
<1>4. TableInv' /\ SessionInv' /\ KindInv' /\ ReadInv'
    BY DEF TableInv, SessionInv, KindInv, NeedsSysfs, CloudSync, KindByMount,
           ReadInv, Still
<1>5. ScanInv'
  <2>1. findings' = {} /\ "backup" \in marked => linked
      BY DEF MarkedAsGiven
  <2>2. ASSUME ~moved, NEW i \in 1..Len(Tools), Tools[i] \in snapshots
        PROVE  i > scanned \/ Tools[i] \in findings' \cup missed
      BY <2>2 DEF SessionInv, ScanInv
  <2>3. QED BY <2>1, <2>2 DEF ScanInv
<1>6. VerdictInv'
    BY DEF SessionInv, VerdictInv
<1>7. WipeInv'
    BY <1>2 DEF WipeInv, Wiped
<1>8. QED BY <1>3, <1>4, <1>5, <1>6, <1>7

(* The verdict: LOW RISK only with a reliable class, no finding and no     *)
(* cloud folder.                                                           *)
LEMMA DecideInv ==
    ASSUME IInv, Decide
    PROVE  IInv'
<1>1. /\ pc = "decide" /\ pc' = "idle"
      /\ command' = "none"
      /\ verdict' = IF LowRisk THEN "low" ELSE "elevated"
      /\ printedFs' = fs
      /\ line' = NoLine /\ kind' = "Unknown" /\ fs' = "unread"
      /\ scanned' = 0 /\ findings' = {}
      /\ UNCHANGED <<world, warned, residue, changing, missed>>
    BY DEF Decide, Ends
<1>2. ~Wiped /\ command = "compliance-check"
    BY <1>1, NotWiped DEF IInv, SessionInv
<1> USE <1>1 DEF IInv, world, changing
<1>3. TypeOK'
    BY ThreeTools DEF TypeOK, Kind
<1>4. TableInv' /\ SessionInv' /\ KindInv' /\ ReadInv' /\ ScanInv'
    BY DEF TableInv, SessionInv, KindInv, ReadInv, ScanInv
<1>5. VerdictInv'
  <2> SUFFICES ASSUME LowRisk
               PROVE  /\ "cloud" \notin marked
                      /\ "backup" \in marked => linked
                      /\ ~moved => snapshots \subseteq missed
                      /\ ~moved /\ ~Hidden =>
                            Overwritable(Actual) /\ fs \in {"unread", Actual.fs}
      BY DEF VerdictInv, Hidden, Actual, Overwritable
  <2>1. "cloud" \notin marked /\ Overwritable(line) /\ findings = {}
      BY ReliableMeans DEF LowRisk
  <2>2. "backup" \in marked => linked
      BY <2>1 DEF ScanInv
  <2>3. ASSUME ~moved, NEW t \in snapshots PROVE t \in missed
    <3>1. PICK i \in 1..3 : Tools[i] = t
        BY ThreeTools DEF TypeOK
    <3>2. i \in 1..Len(Tools) /\ ~(i > scanned)
        BY ThreeTools DEF SessionInv
    <3>3. QED BY <1>2, <2>1, <2>3, <3>1, <3>2 DEF ScanInv
  <2>4. ASSUME ~moved, ~Hidden
        PROVE  Overwritable(Actual) /\ fs \in {"unread", Actual.fs}
    <3>1. line # NoLine
        BY <2>1 DEF Overwritable, NoLine
    <3>2. LastLongest(mounts) = Actual
        BY <2>4, ActualOrHidden DEF TypeOK, TableInv
    <3>3. QED BY <1>2, <2>1, <2>4, <3>1, <3>2 DEF ReadInv, Still
  <2>5. QED BY <2>1, <2>2, <2>3, <2>4
<1>6. WipeInv'
    BY <1>2 DEF WipeInv, Wiped
<1>7. QED BY <1>3, <1>4, <1>5, <1>6

(* The wipe: nothing moves after it. *)
LEMMA ShredInv ==
    ASSUME IInv, Shred
    PROVE  IInv'
<1>1. /\ pc = "shred" /\ pc' = "idle"
      /\ command' = "none"
      /\ residue' = Remains
      /\ warned' = ~overwrite_is_reliable
      /\ line' = NoLine /\ kind' = "Unknown" /\ fs' = "unread"
      /\ scanned' = 0 /\ findings' = {}
      /\ UNCHANGED <<world, verdict, printedFs, changing, missed>>
    BY DEF Shred, Warns, Ends
<1>2. command = "wipe"
    BY <1>1 DEF IInv, SessionInv
<1> USE <1>1 DEF IInv, world, changing
<1>3. TypeOK'
    BY ThreeTools, RemainsTypes DEF TypeOK, Kind
<1>4. TableInv' /\ SessionInv' /\ KindInv' /\ ReadInv' /\ ScanInv'
    BY DEF TableInv, SessionInv, KindInv, ReadInv, ScanInv
<1>5. VerdictInv'
    BY <1>2 DEF VerdictInv, Hidden, Actual, Overwritable
<1>6. WipeInv'
  <2>1. Remains' = Remains
      BY DEF Remains, Actual
  <2>2. ASSUME ~warned' PROVE "cloud" \notin marked /\ Overwritable(line)
      BY <2>2, ReliableMeans
  <2>3. ASSUME ~warned', ~movedWipe, ~Hidden PROVE Overwritable(Actual)
    <3>1. line # NoLine
        BY <2>2, <2>3 DEF Overwritable, NoLine
    <3>2. LastLongest(mounts) = Actual
        BY <2>3, ActualOrHidden DEF TypeOK, TableInv
    <3>3. QED BY <1>2, <2>2, <2>3, <3>1, <3>2 DEF ReadInv, Still
  <2>4. QED BY <2>1, <2>2, <2>3 DEF WipeInv, Hidden, Actual, Overwritable
<1>7. QED BY <1>3, <1>4, <1>5, <1>6

-----------------------------------------------------------------------------
(***************************************************************************)
(* The steps of the system.                                                *)
(***************************************************************************)
(* Mounting and unmounting change the table, and are remembered. *)
LEMMA MovedInv ==
    ASSUME IInv, Change,
           mounts' \in Seq(Line), Len(mounts') \in 1..MaxMounts,
           mounts'[1] = mounts[1],
           snapshots' \subseteq Tool,
           moved' = TRUE, movedWipe' = TRUE,
           UNCHANGED <<marked, linked, command, pc, answers, printed, residue,
                       missed>>
    PROVE  IInv'
<1> USE DEF IInv, answers, printed
<1>1. ~Wiped' /\ changes' \in 0..MaxChanges
    BY BoundsAssumption DEF Change, Wiped, TypeOK
<1>2. TypeOK'
    BY <1>1 DEF TypeOK
<1>3. TableInv' /\ SessionInv' /\ KindInv'
    BY DEF TableInv, SessionInv, KindInv, NeedsSysfs, CloudSync, KindByMount
<1>4. ReadInv' /\ ScanInv'
    BY DEF ReadInv, Still, ScanInv
<1>5. VerdictInv' /\ WipeInv'
    BY <1>1 DEF VerdictInv, WipeInv
<1>6. QED BY <1>2, <1>3, <1>4, <1>5

(* Something is mounted over the path. *)
LEMMA MountInv ==
    ASSUME IInv, Mount
    PROVE  IInv'
<1>1. mounts \in Seq(Line) /\ Len(mounts) \in 1..MaxMounts
    BY DEF IInv, TypeOK
<1>2. PICK l \in Line : mounts' = Append(mounts, l)
    BY DEF Mount
<1>3. /\ mounts' \in Seq(Line) /\ Len(mounts') = Len(mounts) + 1
      /\ mounts'[1] = mounts[1]
    BY <1>1, <1>2, AppendProperties
<1>4. Len(mounts') \in 1..MaxMounts
    BY <1>1, <1>3, BoundsAssumption DEF Mount
<1>5. snapshots' \subseteq Tool
    BY DEF Mount, Snapshottable
<1>6. QED BY <1>3, <1>4, <1>5, MovedInv DEF Mount

(* What was mounted last is unmounted. *)
LEMMA UnmountInv ==
    ASSUME IInv, Unmount
    PROVE  IInv'
<1>1. mounts \in Seq(Line) /\ Len(mounts) \in 1..MaxMounts /\ Len(mounts) > 1
    BY DEF Unmount, IInv, TypeOK
<1>2. mounts' = SubSeq(mounts, 1, Len(mounts) - 1)
    BY DEF Unmount
<1>3. /\ mounts' \in Seq(Line) /\ Len(mounts') = Len(mounts) - 1
      /\ mounts'[1] = mounts[1]
  <2>1. /\ 1 \in Int /\ Len(mounts) - 1 \in Int
        /\ \A i \in 1..(Len(mounts) - 1) : mounts[i] \in Line
      BY <1>1, ElementOfSeq
  <2>2. QED BY <1>1, <1>2, <2>1, SubSeqProperties
<1>4. Len(mounts') \in 1..MaxMounts
    BY <1>1, <1>3, BoundsAssumption
<1>5. snapshots' \subseteq Tool
    BY DEF Unmount, Snapshottable
<1>6. QED BY <1>3, <1>4, <1>5, MovedInv DEF Unmount

(* A snapshot is taken: its tool finds or misses it, or it came too late.  *)
LEMMA TakeSnapshotInv ==
    ASSUME IInv, TakeSnapshot
    PROVE  IInv'
<1>1. PICK t \in Tool :
        /\ snapshots' = snapshots \cup {t}
        /\ missed' = IF ToRun(t) THEN missed ELSE missed \cup {t}
    BY DEF TakeSnapshot, Snapshottable
<1>2. UNCHANGED <<mounts, marked, linked, command, pc, answers, printed,
                  residue, moved, movedWipe>>
    BY DEF TakeSnapshot
<1> USE <1>2 DEF IInv, answers, printed
<1>3. ~Wiped' /\ changes' \in 0..MaxChanges
    BY BoundsAssumption DEF TakeSnapshot, Change, Wiped, TypeOK
<1>4. TypeOK'
    BY <1>1, <1>3 DEF TypeOK
<1>5. TableInv' /\ SessionInv' /\ KindInv' /\ ReadInv'
    BY DEF TableInv, SessionInv, KindInv, NeedsSysfs, CloudSync, KindByMount,
           ReadInv, Still
<1>6. ScanInv'
  <2>1. ASSUME command = "compliance-check", ~moved,
               NEW i \in 1..Len(Tools), Tools[i] \in snapshots'
        PROVE  i > scanned \/ Tools[i] \in findings \cup missed'
    <3>1. CASE Tools[i] \in snapshots
        BY <1>1, <2>1, <3>1 DEF ScanInv
    <3>2. CASE Tools[i] = t /\ ~ToRun(t)
        BY <1>1, <3>2
    <3>3. CASE Tools[i] = t /\ ToRun(t)
      <4>1. PICK j \in (scanned + 1)..Len(Tools) : Tools[j] = t
          BY <3>3 DEF ToRun
      <4>2. i \in 1..3 /\ j \in 1..3 /\ scanned \in 0..3 /\ j > scanned
          BY ThreeTools DEF TypeOK
      <4>3. i = j
          BY <3>3, <4>1, <4>2 DEF Tools
      <4>4. QED BY <4>2, <4>3
    <3>4. QED BY <1>1, <2>1, <3>1, <3>2, <3>3
  <2>2. QED BY <2>1 DEF ScanInv
<1>7. VerdictInv'
  <2>1. ASSUME command # "compliance-check", snapshots \subseteq missed
        PROVE  snapshots' \subseteq missed'
      BY <1>1, <2>1 DEF ToRun
  <2>2. QED BY <2>1 DEF VerdictInv, Hidden, Actual, Overwritable
<1>8. WipeInv'
    BY <1>3 DEF WipeInv
<1>9. QED BY <1>4, <1>5, <1>6, <1>7, <1>8

-----------------------------------------------------------------------------
(* The invariant is inductive: every step of the system preserves it. *)
THEOREM StepInv == IInv /\ [Next]_vars => IInv'
<1> SUFFICES ASSUME IInv, [Next]_vars PROVE IInv'
    OBVIOUS
<1>1. CASE Command
  <2>1. ASSUME NEW c \in {"compliance-check", "wipe"}, Begin(c) PROVE IInv'
      BY <2>1, BeginInv
  <2>2. CASE DetectStorage
      BY <2>2, DetectStorageInv
  <2>3. CASE ReadSysfs
      BY <2>3, ReadSysfsInv
  <2>4. CASE DetectFilesystem
      BY <2>4, DetectFilesystemInv
  <2>5. CASE ScanTool
      BY <2>5, ScanToolInv
  <2>6. CASE ScanMarkers
      BY <2>6, ScanMarkersInv
  <2>7. CASE Decide
      BY <2>7, DecideInv
  <2>8. CASE Shred
      BY <2>8, ShredInv
  <2>9. QED BY <1>1, <2>1, <2>2, <2>3, <2>4, <2>5, <2>6, <2>7, <2>8 DEF Command
<1>2. CASE Mount
    BY <1>2, MountInv
<1>3. CASE Unmount
    BY <1>3, UnmountInv
<1>4. CASE TakeSnapshot
    BY <1>4, TakeSnapshotInv
<1>5. CASE UNCHANGED vars
  <2> USE <1>5 DEF vars, world, answers, printed, changing, IInv
  <2>1. TypeOK' /\ TableInv' /\ SessionInv'
      BY DEF TypeOK, TableInv, SessionInv
  <2>2. KindInv'
      BY DEF KindInv, NeedsSysfs, CloudSync, KindByMount
  <2>3. ReadInv' /\ ScanInv'
      BY DEF ReadInv, Still, ScanInv
  <2>4. VerdictInv' /\ WipeInv'
      BY DEF VerdictInv, WipeInv, Wiped, Remains, Hidden, Actual, Overwritable
  <2>5. QED BY <2>1, <2>2, <2>3, <2>4
<1>6. QED BY <1>1, <1>2, <1>3, <1>4, <1>5 DEF Next

(* Every reachable state satisfies the invariant. *)
THEOREM Invariance == Spec => []IInv
<1>1. Init => IInv
    BY InitInv
<1>2. IInv /\ [Next]_vars => IInv'
    BY StepInv
<1>3. QED BY <1>1, <1>2, PTL DEF Spec

(* The variables of Posture keep their types. *)
THEOREM TypeCorrect == Spec => []TypeOK
<1>1. IInv => TypeOK
    BY DEF IInv
<1>2. QED BY <1>1, Invariance, PTL

(* What cells, remote copies and copies of a cloud client or a backup tool *)
(* are, and nothing else is called so. *)
LEMMA ResidueMeans ==
    ASSUME TypeOK, residue = Remains
    PROVE  /\ "cells" \in residue =>
                 Actual.source.is # "other" /\ Actual.source.disk \in Flash
           /\ "remote" \in residue => Actual.fs \in NetworkFs
           /\ \A m \in Marker : m \in residue => m \in marked
           /\ residue \cap Tool \subseteq snapshots
<1>1. marked \subseteq {"cloud", "backup"} /\ snapshots \subseteq {"btrfs", "lvs", "zfs"}
    BY DEF TypeOK, Marker, Tool
<1>2. QED BY <1>1 DEF Remains, Marker, Tool

(* Storage and file system, read from the mount table separately, describe *)
(* one mount while the table stays as it is, and it is the file's unless   *)
(* another hides it (device.rs:133-156, filesystem.rs:118-132).            *)
THEOREM DescribesOneMount == Spec => []OneMountDescribed
<1>1. IInv => OneMountDescribed
  <2> SUFFICES ASSUME IInv PROVE OneMountDescribed
      OBVIOUS
  <2>1. LastLongest(mounts) = Actual \/ Hidden
      BY ActualOrHidden DEF IInv, TypeOK, TableInv
  <2>2. ASSUME command # "none", Still, line # NoLine
        PROVE  line = Actual \/ Hidden
      BY <2>1, <2>2 DEF IInv, ReadInv
  <2>3. ASSUME pc \in {"scan", "decide", "shred"}, Still,
               fs # "unread", line # NoLine
        PROVE  fs = line.fs
      BY <2>3 DEF IInv, TypeOK, ReadInv
  <2>4. QED BY <2>2, <2>3 DEF OneMountDescribed, Still
<1>2. QED BY <1>1, Invariance, PTL

(* A wipe without the warning leaves old cells or a remote copy only on a  *)
(* disk the kernel misdescribes, or when the mount it looked at is not the *)
(* file's (engine.rs:80-86, main.rs:158).                                  *)
THEOREM NoWarningHasReason == Spec => []UnwarnedHasReason
<1>1. IInv => UnwarnedHasReason
  <2> SUFFICES ASSUME IInv, Wiped, ~warned, ~movedWipe, ~Hidden
               PROVE  /\ "cells" \in residue =>
                            Actual.source.disk \in Misdescribed
                      /\ residue \cap {"remote", "cloud"} = {}
      BY DEF UnwarnedHasReason
  <2>1. "cloud" \notin marked /\ Overwritable(Actual)
      BY DEF IInv, WipeInv
  <2>2. TypeOK /\ residue = Remains
      BY DEF IInv, WipeInv
  <2>3. "remote" \notin residue /\ "cloud" \notin residue
      BY <2>1, <2>2, ResidueMeans DEF Overwritable, Marker
  <2>4. "cells" \in residue => Actual.source.disk \in Misdescribed
      BY <2>1, <2>2, ResidueMeans DEF Overwritable, Misdescribed
  <2>5. QED BY <2>3, <2>4
<1>2. QED BY <1>1, Invariance, PTL

(* After LOW RISK a wipe leaves a copy behind only for the reasons listed  *)
(* with LowRiskHasReason, and never in a cloud folder (main.rs:416-439).   *)
THEOREM LowRiskIsExplained == Spec => []LowRiskHasReason
<1>1. IInv => LowRiskHasReason
  <2> SUFFICES ASSUME IInv, Wiped, verdict = "low" PROVE LowRiskHasReason
      BY DEF LowRiskHasReason
  <2>1. TypeOK /\ residue = Remains /\ command # "compliance-check"
      BY DEF IInv, WipeInv
  <2>2. /\ "cloud" \notin marked
        /\ "backup" \in marked => linked
        /\ ~moved => snapshots \subseteq missed
        /\ ~moved /\ ~Hidden =>
              Overwritable(Actual) /\ printedFs \in {"unread", Actual.fs}
      BY <2>1 DEF IInv, VerdictInv
  <2>3. "cloud" \notin residue /\ ("backup" \in residue => linked)
      BY <2>1, <2>2, ResidueMeans DEF Marker
  <2>4. residue \cap Tool \subseteq missed \/ moved
      BY <2>1, <2>2, ResidueMeans
  <2>5. ASSUME ~moved, ~Hidden
        PROVE  /\ "cells" \in residue => Actual.source.disk \in Misdescribed
               /\ "blocks" \in residue =>
                     is_copy_on_write(printedFs) \/ ~is_copy_on_write(Actual.fs)
                         \/ printedFs = "unread"
               /\ "remote" \notin residue
    <3>1. Overwritable(Actual) /\ printedFs \in {"unread", Actual.fs}
        BY <2>2, <2>5
    <3>2. "cells" \in residue => Actual.source.disk \in Misdescribed
        BY <2>1, <3>1, ResidueMeans DEF Overwritable, Misdescribed
    <3>3. "remote" \notin residue
        BY <2>1, <3>1, ResidueMeans DEF Overwritable
    <3>4. QED BY <3>1, <3>2, <3>3
  <2>6. QED BY <2>3, <2>4, <2>5 DEF LowRiskHasReason
<1>2. QED BY <1>1, Invariance, PTL
=============================================================================
