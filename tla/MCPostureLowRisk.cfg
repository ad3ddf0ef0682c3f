SPECIFICATION Spec
CONSTANTS
    hdd = hdd
    ssd = ssd
    stick = stick
    bridge = bridge
    nvme = nvme
    card = card
    Disk <- MCDisk
    NameEnds <- MCNameEnds
    Flash <- MCFlash
    Rotational <- MCRotational
    Removable <- MCRemovable
    Line <- MCHddLine
    MaxMounts = 2
    MaxChanges = 1
CHECK_DEADLOCK FALSE
INVARIANT LowRiskHeedsCopyOnWrite
