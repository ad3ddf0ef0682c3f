----------------------------- MODULE MCPosture -----------------------------
(***************************************************************************)
(* Instances of Posture for TLC: a hard disk, an SSD, a memory stick, an   *)
(* SSD behind a bridge that calls itself rotational, an NVMe disk and an   *)
(* SD card, and the mounts that tell the properties apart.                 *)
(***************************************************************************)
EXTENDS Posture

CONSTANTS hdd, ssd, stick, bridge, nvme, card

MCDisk == {hdd, ssd, stick, bridge, nvme, card}

MCNameEnds == [d \in MCDisk |-> CASE d = nvme -> "nvme"
                                  [] d = card -> "digit"
                                  [] OTHER    -> "letter"]

MCFlash == MCDisk \ {hdd}
MCRotational == {hdd, bridge}
MCRemovable == {stick}

On(d, part) == [is |-> "disk", disk |-> d, part |-> part]

Mounted(n, plain, S) ==
    {[at |-> n, source |-> m[1], fs |-> m[2], plain |-> plain] : m \in S}

MCLine ==
    Mounted(0, TRUE,
        {<<On(d, TRUE), "ext4">> : d \in {hdd, ssd, bridge, nvme}} \cup
        {<<On(nvme, FALSE), "ext4">>, <<On(card, FALSE), "f2fs">>,
         <<On(hdd, TRUE), "btrfs">>, <<On(hdd, FALSE), "nilfs2">>,
         <<[is |-> "mapper", disk |-> hdd], "ext4">>,
         <<[is |-> "other"], "overlay">>}) \cup
    Mounted(1, TRUE,
        {<<On(stick, TRUE), "ntfs3">>, <<On(ssd, TRUE), "ext4">>,
         <<[is |-> "other"], "zfs">>, <<[is |-> "other"], "nfs4">>}) \cup
    Mounted(1, FALSE, {<<On(ssd, TRUE), "ext4">>})

\* Two file systems that filesystem.rs knows, on a hard disk.
MCHddLine == Mounted(0, TRUE, {<<On(hdd, TRUE), t>> : t \in {"ext4", "btrfs"}})
=============================================================================
