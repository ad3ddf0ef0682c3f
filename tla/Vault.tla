------------------------------- MODULE Vault -------------------------------
(***************************************************************************)
(* The encrypted vault (vault/mod.rs) at one path: a container file with a *)
(* salt and the encrypted header, and one blob file per entry beside it.   *)
(* Each vault command (main.rs:343-384) is a process that opens the vault, *)
(* keeps the header in memory and writes the container back; commands      *)
(* overlap, fail, are killed, and the power fails.                         *)
(*                                                                         *)
(* A passphrase and a salt give a key.  All commands are given the right   *)
(* passphrase, so the salt stands for the key: what was encrypted under a  *)
(* salt is authenticated under that one only.  The id of an entry stands   *)
(* for its contents and its digest, and for the associated data that binds *)
(* the blob to it.                                                         *)
(***************************************************************************)
EXTENDS Naturals, FiniteSets

CONSTANTS
    Proc,          \* the processes
    Id,            \* the random entry ids
    MaxSalts       \* bound: vaults ever created at the path

ASSUME MaxSaltsAssumption == MaxSalts \in Nat

Salt == 1..MaxSalts

VARIABLES
    container,     \* the container file
    blob,          \* the blob files, by entry id
    pc,            \* per process: its step; "idle" when it has ended
    salt, header,  \* Vault.salt, and the ids in Vault.header.entries
    id,            \* per process: the entry being added or extracted
    todo,          \* per process: the blobs destroy has listed
    salts,         \* history: salts generated so far
    versions,      \* history: containers written in full
    used,          \* history: entry ids generated so far
    added,         \* history: entries for which add_file returned Ok
    doomed,        \* history: vaults that destroy has begun to shred
    destroyed,     \* history: vaults for which destroy returned Ok
    causes         \* history: what may have lost something

memVars  == <<salt, header, id, todo>>
histVars == <<salts, versions, used, added, doomed, destroyed>>

vars == <<container, blob, pc, memVars, histVars, causes>>

Missing == [is |-> "missing"]
Empty   == [is |-> "empty"]      \* created or truncated
Garbage == [is |-> "garbage"]    \* written in part, or shredded
Sealed(s, ids) == [is |-> "sealed", salt |-> s, entries |-> ids]

Container == {Missing, Empty, Garbage} \cup
             {Sealed(s, ids) : s \in Salt, ids \in SUBSET Id}

Encrypted(s) == [is |-> "blob", salt |-> s]

Blob == {Missing, Garbage} \cup {Encrypted(s) : s \in Salt}

Spoilt == {c \in {Garbage} : container # Missing}

Cause == {"overlap", "interrupted", "power"}

NoId == "none"

TypeOK ==
    /\ container \in Container
    /\ blob \in [Id -> Blob]
    /\ pc \in [Proc -> {"idle", "add", "truncate", "write",
                        "extract", "destroy", "blobs"}]
    /\ salt \in [Proc -> 0..MaxSalts]
    /\ header \in [Proc -> SUBSET Id]
    /\ id \in [Proc -> Id \cup {NoId}]
    /\ todo \in [Proc -> SUBSET Id]
    /\ salts \in 0..MaxSalts
    /\ versions \subseteq {c \in Container : c.is = "sealed"}
    /\ used \in SUBSET Id
    /\ added \in SUBSET (Salt \X Id)
    /\ doomed \in SUBSET Salt
    /\ destroyed \in SUBSET doomed
    /\ causes \in SUBSET Cause

Init ==
    /\ container = Missing
    /\ blob = [i \in Id |-> Missing]
    /\ pc = [p \in Proc |-> "idle"]
    /\ salt = [p \in Proc |-> 0]
    /\ header = [p \in Proc |-> {}]
    /\ id = [p \in Proc |-> NoId]
    /\ todo = [p \in Proc |-> {}]
    /\ salts = 0
    /\ versions = {}
    /\ used = {}
    /\ added = {}
    /\ doomed = {}
    /\ destroyed = {}
    /\ causes = {}

-----------------------------------------------------------------------------
\* The command ends, and the Vault value with it.
Ends(p) ==
    /\ pc' = [pc EXCEPT ![p] = "idle"]
    /\ salt' = [salt EXCEPT ![p] = 0]
    /\ header' = [header EXCEPT ![p] = {}]
    /\ id' = [id EXCEPT ![p] = NoId]
    /\ todo' = [todo EXCEPT ![p] = {}]

GoesTo(p, step) == pc' = [pc EXCEPT ![p] = step]

\* Another command that changes the vault is under way.
Overlap(p) ==
    {c \in {"overlap"} : \E q \in Proc \ {p} : pc[q] \notin {"idle", "extract"}}

(***************************************************************************)
(* create: the check for an existing file (one that is empty or garbage    *)
(* exists), then the key derivation, then persist.                         *)
(***************************************************************************)
Create(p) ==
    /\ pc[p] = "idle"
    /\ container = Missing
    /\ salts < MaxSalts
    /\ salts' = salts + 1
    /\ salt' = [salt EXCEPT ![p] = salts']
    /\ header' = [header EXCEPT ![p] = {}]
    /\ GoesTo(p, "truncate")
    /\ UNCHANGED <<container, blob, id, todo, versions, used, added, doomed,
                   destroyed, causes>>

(***************************************************************************)
(* open reads and authenticates the container.  add, extract and destroy   *)
(* go on from here; with a container that is not whole the command ends.   *)
(***************************************************************************)
Open(p, step) ==
    /\ pc[p] = "idle"
    /\ container.is = "sealed"
    /\ salt' = [salt EXCEPT ![p] = container.salt]
    /\ header' = [header EXCEPT ![p] = container.entries]
    /\ GoesTo(p, step)
    /\ UNCHANGED <<container, blob, id, todo, histVars, causes>>

\* create refuses a path that exists, open what it cannot authenticate.
Refused(p) ==
    /\ pc[p] = "idle"
    /\ container.is # "sealed" \/ container # Missing
    /\ UNCHANGED vars

-----------------------------------------------------------------------------
EntryForgotten(p, i) == header[p]                                 \* mutant

EntryInserted(p, i) == header[p] \cup {i}

BlobLater(p, i) == blob                                           \* mutant

BlobInClear(p, i) == [blob EXCEPT ![i] = [is |-> "plain"]]        \* mutant

BlobWritten(p, i) == [blob EXCEPT ![i] = Encrypted(salt[p])]

(***************************************************************************)
(* add_file: the blob under a fresh id, the entry in the header in memory, *)
(* then persist.                                                           *)
(***************************************************************************)
AddBlob(p) ==
    /\ pc[p] = "add"
    /\ \E i \in Id \ used :
         /\ used' = used \cup {i}
         /\ blob' = BlobWritten(p, i)
         /\ id' = [id EXCEPT ![p] = i]
         /\ header' = [header EXCEPT ![p] = EntryInserted(p, i)]
    /\ GoesTo(p, "truncate")
    /\ causes' = causes \cup Overlap(p)
    /\ UNCHANGED <<container, salt, todo, salts, versions, added, doomed,
                   destroyed>>

\* The source cannot be read, or the blob is written only in part.
AddBlobFails(p) ==
    /\ pc[p] = "add"
    /\ \/ UNCHANGED <<blob, used>>
       \/ \E i \in Id \ used : /\ used' = used \cup {i}
                               /\ blob' = [blob EXCEPT ![i] = Garbage]
    /\ Ends(p)
    /\ UNCHANGED <<container, salts, versions, added, doomed, destroyed,
                   causes>>

(***************************************************************************)
(* persist: std::fs::write truncates the container and then writes it.     *)
(***************************************************************************)
PersistTruncate(p) ==
    /\ pc[p] = "truncate"
    /\ container' = Empty
    /\ GoesTo(p, "write")
    /\ causes' = causes \cup Overlap(p)
    /\ UNCHANGED <<blob, memVars, histVars>>

\* What another command has written since the truncation is overwritten, and
\* its end remains when it was longer; the file may be unlinked by now.
PersistWrite(p) ==
    /\ pc[p] = "write"
    /\ \/ /\ container # Missing
          /\ container' = Sealed(salt[p], header[p])
       \/ /\ "overlap" \in causes
          /\ container' \in {container} \cup Spoilt
    /\ versions' = versions \cup {Sealed(salt[p], header[p])}
    /\ added' = IF id[p] = NoId THEN added ELSE added \cup {<<salt[p], id[p]>>}
    /\ Ends(p)
    /\ causes' = causes \cup Overlap(p)
    /\ UNCHANGED <<blob, salts, used, doomed, destroyed>>

\* The container cannot be opened, or is written only in part.
PersistFails(p) ==
    /\ pc[p] \in {"truncate", "write"}
    /\ \/ pc[p] = "truncate" /\ UNCHANGED <<container, causes>>
       \/ /\ pc[p] = "write"
          /\ container' \in {container} \cup Spoilt
          /\ causes' = causes \cup {"interrupted"}
    /\ Ends(p)
    /\ UNCHANGED <<blob, histVars>>

(***************************************************************************)
(* extract_entry: an entry of the header that was read by open can be      *)
(* extracted when its blob, read now, authenticates under the vault's key  *)
(* and its digest matches.  The command changes nothing of the vault; so   *)
(* does list.                                                              *)
(***************************************************************************)
Extractable(s, i) == blob[i] = Encrypted(s)

Extract(p) ==
    /\ pc[p] = "extract"
    /\ Ends(p)
    /\ UNCHANGED <<container, blob, histVars, causes>>

-----------------------------------------------------------------------------
(***************************************************************************)
(* destroy: every file of the entries directory is shredded, whether the   *)
(* header names it or not, and failures are ignored (`let _ =`); then the  *)
(* container is shredded.  A shredding that fails leaves the contents, or  *)
(* has overwritten them (FileShred).                                       *)
(***************************************************************************)
DestroyBegin(p) ==
    /\ pc[p] = "destroy"
    /\ doomed' = doomed \cup {salt[p]}
    /\ todo' = [todo EXCEPT ![p] = {i \in Id : blob[i] # Missing}]
    /\ GoesTo(p, "blobs")
    /\ causes' = causes \cup Overlap(p)
    /\ UNCHANGED <<container, blob, salt, header, id, salts, versions, used,
                   added, destroyed>>

DestroyBlob(p) ==
    /\ pc[p] = "blobs"
    /\ \E i \in todo[p] :
         /\ todo' = [todo EXCEPT ![p] = @ \ {i}]
         /\ \E b \in {Missing, blob[i]} \cup {g \in {Garbage} : blob[i] # Missing} :
              blob' = [blob EXCEPT ![i] = b]
    /\ UNCHANGED <<container, pc, salt, header, id, histVars, causes>>

\* The entries directory cannot be read, or not to its end.
DestroyFails(p) ==
    /\ pc[p] \in {"destroy", "blobs"}
    /\ Ends(p)
    /\ UNCHANGED <<container, blob, histVars, causes>>

ContainerKept == container                                        \* mutant

ContainerShredded == Missing

DestroyContainer(p) ==
    /\ pc[p] = "blobs"
    /\ todo[p] = {}
    /\ \/ /\ container # Missing
          /\ container' = ContainerShredded
          /\ destroyed' = destroyed \cup {salt[p]}
          /\ Ends(p)
       \/ /\ container' \in {container, Missing} \cup Spoilt
          /\ UNCHANGED destroyed
          /\ Ends(p)
    /\ causes' = causes \cup Overlap(p)
    /\ UNCHANGED <<blob, salts, versions, used, added, doomed>>

-----------------------------------------------------------------------------
(***************************************************************************)
(* The process is stopped.  What a step leaves when it is stopped in the   *)
(* middle is what it leaves when it fails in the middle.                   *)
(***************************************************************************)
Kill(p) ==
    /\ pc[p] # "idle"
    /\ Ends(p)
    /\ causes' = IF pc[p] = "write" THEN causes \cup {"interrupted"} ELSE causes
    /\ UNCHANGED <<container, blob, histVars>>

(***************************************************************************)
(* The vault never syncs what it writes: a file may be lost, cut, or be an *)
(* earlier version of itself.  What destroy has shredded was overwritten   *)
(* with a sync (NameOutlivesContents in FileShred_proofs): it does not come *)
(* back.                                                                   *)
(***************************************************************************)
PowerLoss ==
    /\ "power" \notin causes       \* bound: one power failure
    /\ container' \in {container, Missing} \cup
          {c \in {Empty, Garbage} : container # Missing \/ versions # {}} \cup
          {c \in versions : c.salt \notin destroyed}
    /\ blob' \in [Id -> Blob]
    /\ \A i \in Id :
         blob'[i] \in {blob[i]} \cup (IF i \in used THEN {Missing, Garbage} ELSE {})
    /\ pc' = [p \in Proc |-> "idle"]
    /\ salt' = [p \in Proc |-> 0]
    /\ header' = [p \in Proc |-> {}]
    /\ id' = [p \in Proc |-> NoId]
    /\ todo' = [p \in Proc |-> {}]
    /\ causes' = causes \cup {"power"}
    /\ UNCHANGED histVars

Step(p) ==
    \/ Create(p) \/ Refused(p)
    \/ \E step \in {"add", "extract", "destroy"} : Open(p, step)
    \/ AddBlob(p) \/ AddBlobFails(p)
    \/ PersistTruncate(p) \/ PersistWrite(p) \/ PersistFails(p)
    \/ Extract(p)
    \/ DestroyBegin(p) \/ DestroyBlob(p) \/ DestroyFails(p) \/ DestroyContainer(p)
    \/ Kill(p)

Next == (\E p \in Proc : Step(p)) \/ PowerLoss

Spec == Init /\ [][Next]_vars

-----------------------------------------------------------------------------
(***************************************************************************)
(* Properties.                                                             *)
(***************************************************************************)
Listed(s, i) ==
    \/ container.is = "sealed" /\ container.salt = s /\ i \in container.entries
    \/ \E p \in Proc : pc[p] # "idle" /\ salt[p] = s /\ i \in header[p]

(***************************************************************************)
(* What a header lists can be extracted: the container on disk, and the    *)
(* one a command opened earlier and still holds, name only entries whose   *)
(* blob is whole and under the vault's key, until that vault is being      *)
(* destroyed, however commands fail, are killed or overlap; with overlaps, *)
(* until any vault of the path is being destroyed, since destroy takes     *)
(* every blob it finds (vault/mod.rs:112-151: the blob goes first).        *)
(***************************************************************************)
ListedHasBlob ==
    /\ "power" \notin causes
    /\ "overlap" \in causes => doomed = {}
    =>  \A s \in Salt \ doomed, i \in Id : Listed(s, i) => Extractable(s, i)

(***************************************************************************)
(* An entry for which add_file returned Ok stays in the vault, and the     *)
(* vault stays readable, unless commands overlapped, a write of the        *)
(* container was cut short, or the vault was being destroyed; while a      *)
(* command rewrites the container, it has the entry in memory.             *)
(***************************************************************************)
AddedIsListed ==
    causes = {} =>
        \A e \in added :
            \/ e[1] \in doomed
            \/ /\ Listed(e[1], e[2])
               /\ \/ container.is = "sealed"
                  \/ \E p \in Proc : pc[p] = "write"

(***************************************************************************)
(* Once destroy has returned Ok the vault's salt is gone, and with it the  *)
(* only way to the key of blobs that are left: no container can bring it   *)
(* back, not after a power failure either, but for a command that ran at   *)
(* the same time (vault/mod.rs:194-226).                                   *)
(***************************************************************************)
DestroyedIsUnreadable ==
    "overlap" \notin causes =>
        /\ \A s \in destroyed : container.is = "sealed" => container.salt # s
        /\ \A p \in Proc : pc[p] \in {"truncate", "write"} =>
                               salt[p] \notin destroyed

(***************************************************************************)
(* "the vault and all its contents are securely overwritten and deleted"   *)
(* (README.md:521) when destroy has returned Ok, with no other command     *)
(* under way and nothing interrupted.                                      *)
(***************************************************************************)
DestroyIsComplete ==
    causes = {} =>
        \A s \in destroyed, i \in Id : blob[i] # Encrypted(s)
=============================================================================
