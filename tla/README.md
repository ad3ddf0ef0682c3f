# A verification project for `sanitizer`

`sanitizer` (src/sanitizer, Rust) shreds files and directories, writes a
hash-chained audit log, keeps an encrypted vault, verifies wiped files
forensically and classifies the storage below a path. This directory holds
TLA+ modules that model its core, TLC configurations that check them on small
instances, and TLAPS proofs for every value of the constants.

## 1. Inventory

One process runs one command (`main.rs`, clap). Every command first sets a
Ctrl-C handler that stores `true` in an `Arc<AtomicBool>`, then opens and
replays the audit log, then does its work; wipe, wipe-dir and vault create, add
and destroy append one entry at the end. There are no
threads but the pool of `shred_directory`, and no messages; components interact
by calls, by the cancel flag and by files that several processes may share.

| component | source | state it keeps | operations | hard behaviour | what makes it correct |
|---|---|---|---|---|---|
| shred engine | sanitize/engine.rs, patterns.rs, metadata.rs | the loop variables of one call; the file's contents in cache and on disk; its directory entry, live and durable | `shred_file`: open, passes, chunks, sync, verification read, three renames, unlink | Ctrl-C between the check and the write; failure of any call; kill; power failure with an unsynced directory; a file that grows | the name is lost only after the contents; passes reach the disk in order; cancellation is prompt and leaves a consistent file; Ok tells the truth |
| directory shredder | sanitize/directory.rs | list of files, summary behind a mutex, atomic counter, cancel flag | walk, parallel `shred_file`, progress callback, second walk that removes directories | threads in any order; callback outside the lock; unreadable directories; entries created meanwhile | the summary is the truth about the tree; every count is delivered once; cancellation stops new work; one sweep is enough; it returns |
| audit log | audit/mod.rs | the file; per process `last_hash`, `next_sequence`, `hmac_key` | `open` (replay), `record` (two writes), `verify_file` | two processes; torn writes; no sync; tampering; numbers that do not survive printing | a log is refused only with a cause; an Ok is in the log; alteration without the key is found |
| vault | vault/mod.rs | a container (salt, nonce, encrypted header) and one blob per entry; the header in memory | create, open, add, extract, destroy | truncate-then-write of the container; blob before header; two processes; errors of destroy ignored | an entry that was added can be extracted; nothing is listed that has no blob; destroy leaves no blob |
| command line | main.rs | nothing that outlives the command but the files | 16 commands | the log is opened before and written after the destruction; wipe-dir over the log itself | what is destroyed is logged; exit code and printed verdict agree with what happened |
| storage classification | storage/device.rs | none | `detect` and its helpers | device names, removable flash, unknown devices, a mount table that changes between two reads | "overwriting is reliable" only where it is |
| file-system classification | storage/filesystem.rs | none | mount selection, table of caveats | nested and hidden mounts | it describes the mount the file is on; copy-on-write is named as such |
| forensic verification | verify/mod.rs | the run being scanned | signatures, strings, entropy, score | boundaries, end of the file | what is in the file is found, wherever it is; the score agrees with the verdict |
| snapshot scan | snapshot/mod.rs | the findings | runs system tools one after the other, compares names | tools that fail; a snapshot taken meanwhile | a snapshot that the tools report is not lost |
| reports | report/mod.rs | none | JSON, CSV, HTML, text | quoting | a CSV reader reads back what was written |
| secure memory | crypto/secure_mem.rs | locked pages | allocate, lock, drop | page granularity, order of unlock and zeroize, `panic = "abort"` | a key reaches the swap only where the lock is missing for a known reason; locks and keys are given back |
| primitives | crypto/aead.rs, kdf.rs, hashing.rs, rng.rs | none | AES-GCM, Argon2, HMAC, SHA, entropy | fallback generator | taken as ideal |

PROJECT.json lists these components with their status, and under `hazards` the
places in the code, line by line, that are hard to test.

## 2. Plan

| step | modules | content | state |
|---|---|---|---|
| 1 | `SecureErase`, `FileShred`, `FileShred_proofs` | the abstract promise of shredding, the call that keeps it, the proof | done |
| 2 | `DirShred`, `DirShred_proofs` | the parallel walk, with each `shred_file` seen from outside; the proof for any tree and threads | done |
| 3 | `Journal`, `AuditLog`, `AuditLog_proofs` | the abstract promise of the log; the chain, several processes, crashes, alteration; the proof | done |
| 4 | `Vault`, `Vault_proofs` | container and blobs, crashes, concurrent commands, destroy; the proof | done |
| 5 | `Cli`, `Cli_proofs` | the commands composed with the log (`INSTANCE AuditLog`): what is destroyed and what is logged; the proof, which reuses that of the log | done |
| 6 | `Posture`, `Posture_proofs` | storage, file system and snapshots as compliance-check and wipe read them; the proof | done |
| 7 | `SecureMem`, `ForensicVerify` and their proofs | page locks of keys; the analysis of a wiped file | done |

`Cli` composes `AuditLog` with what the other modules show of a command from
outside; `Posture` composes the three classifications with the decision and the
warning made of them. Open: freed blocks below `Vault`.

## 3. The modules and the code

A definition marked `mutant` in a module is a plausible slip in the definition
that follows it; no action uses one. PROJECT.json pairs each with the property
that catches it, and maps every other definition to the lines it stands for.

### 3.1 `SecureErase` and `FileShred`

`SecureErase` states what shredding one file promises, with three variables:
the units the caller asked to destroy (`scope`), those whose contents are still
durable (`residue`), and the live directory entry. The entry may change only
when `residue` is empty, and `residue` only shrinks. `FileShred` implements it
under the mapping `scope <- 1..file_len`, `residue <- ` the chunks of it whose
durable contents are still the original ones; TLC checks it (`Refines`) and
TLAPS proves it (`Refinement`).

`FileShred` is `shred_file` with everything it calls. The state is

- the call: `pc` (the position in the code), the arguments, `file_len` (read
  once), `remaining`, `passes_completed`, `bytes_wiped`, `renames`, `outcome`,
  `warned`, the arguments of the last progress callback, and the cancel flag;
- the file: `size` now, and the contents of each write chunk twice, as read back
  (`cache`) and as durable (`disk`);
- its directory entry, live and durable.

| action | code |
|---|---|
| `Call`, `CallFails` | engine.rs:60-88: arguments, `is_file`, length, early errors |
| `BeginPass` | the flag at the head of a pass, open, seek |
| `CheckChunk`, `WriteChunk` | the inner loop; the flag is a step apart from the write, because the signal handler runs between them |
| `SyncPass` | `sync_all` and the count of the pass |
| `Verify` | the read-back and the entropy test (lines 124-147) |
| `Rename`, `Unlink` | metadata.rs, three rounds and `remove_file` |
| `Fails` | `?` of any fallible call, a write that failed half-way included |
| `CtrlC` | the handler of main.rs:141-149 |
| `Grow`, `WriteBack`, `Kill`, `PowerLoss` | the environment |

`FillPass` and `Passes` are the two functions of patterns.rs. Contents are
abstracted to what filled a chunk last: a chunk is one 1 MiB write, and a chunk
that was only partly written counts as not written. Foreign writers only
append. Low measured entropy is left open wherever a chunk is not random, and
excluded where all are.

### 3.2 `DirShred`

The calling thread (`Start`, `Join`, `RemoveDir`, `Return`), the pool threads
(`Take`, `Begin`, `Finish`, `Summarise`, `Count`, `Report`, one step for each
access to shared state: the flag, the flag again in `shred_file`, the file, the
mutex, the atomic, the callback) and the environment (`CtrlC`, `Create`).
`shred_file` appears as `FileShred` shows it from outside: Ok and the file is
gone, or Err and it has its own or a random name. A walk drops what is below an
unreadable directory, as `filter_map(|e| e.ok())` does.

### 3.3 `Journal` and `AuditLog`

`Journal` states what recording promises: one item at a time goes to the end, it
is acknowledged once it is there, and what is there is neither changed nor lost,
until trust is lost. `AuditLog` implements it under the mapping `log <- ` the
details in the file, `acked <- recorded`, `trusted <- ` no overlap, interruption
or alteration so far; the line is its `Write`, the newline its `Acknowledge`.
TLC checks it (`ImplementsJournal`) and TLAPS proves it (`Refinement`).

The file is a sequence of lines, the last of which may lack its newline. A
process is `closed`, `open`, or at `line`, between the two writes of `record`.
`Open` replays the file (`Accepts`) and remembers its end; `RecordLine` signs an
entry with what the process remembers and appends it, `RecordNewline` appends
the newline and advances `last_hash` and `next_sequence`. `RecordTorn` is a
line written in part, `Exit` an end of the process at any point, `PowerLoss` a
cut anywhere in the file (record never syncs), `Alter` one change by someone
without a key.

The HMAC is ideal: a tag is the key and what is signed. What is signed is not
quite the entry: `canonical_signing_bytes` joins the fields with bars and
escapes none, so operation and target of an entry are texts cut at their bars,
and `SigningBytes` has the two joined. Two entries that differ in where the
operation ends have the same tag. The other fields are found where they are:
number, time and hash hold no bar, and of a JSON object no proper tail is one.
Details matter only for equality, except that numbers survive printing and
parsing or not: `serde_json` is built without `float_roundtrip`, so an f64 that
needs 17 digits may be read back as its neighbour; `Reparse` is that step.
`causes` is a history variable that names what happened to the log. The
`encrypt_at_rest` variant, which no command selects, is not modelled.

Whoever alters the file changes a field of an entry (`Forged`: number, operation
and target, details, hash, tag), spoils or removes a line, puts a copy of one
over or between others, or swaps two. They know the file as it stands and no
key, so the tags they have are those in it. Putting back an older copy of the
whole log, or lines of another log under the same key, is not modelled; the
program keeps nothing it could tell an old log by.

### 3.4 `Vault`

One path: the container (`missing`, `empty`, `garbage`, or sealed: a salt and
the entries of the header) and one blob per entry id beside it. A process runs
one vault command at a time; `salt` and `header` are its `Vault` value.

| action | code (vault/mod.rs) |
|---|---|
| `Create`, `Open`, `Refused` | lines 47-92: the check for an existing file, the read and its authentication |
| `AddBlob`, `AddBlobFails` | `add_file` up to the insertion of the entry in memory |
| `PersistTruncate`, `PersistWrite`, `PersistFails` | `std::fs::write` in `persist` truncates the file, then writes it; other commands run in between |
| `Extract` | ends the command; `Extractable` is when it succeeds |
| `DestroyBegin`, `DestroyBlob`, `DestroyFails`, `DestroyContainer` | the listing of the entries directory, a blob at a time with its result discarded, then the container |
| `Kill`, `PowerLoss` | the environment; nothing but what destroy shredded was synced |

Encryption is ideal and every command has the right passphrase, so a salt
stands for its key and an id for the contents it was encrypted with. A
shredding is seen from outside: the file is gone, or overwritten, or as it was.
The histories `added`, `doomed`, `destroyed` and `versions` record what
commands returned and what was ever written; `causes` names overlaps, writes
that were cut short, and power failures.

### 3.5 `Cli`

The processes, each with its command (`cmd`), its step (`at`) and the number of
its run, over ordinary files, one vault and the log. The log's variables and
actions are those of `AuditLog`, instantiated: `Begin` is `Open`, `RecordLine`
and `RecordNewline` are the two writes of `record` with an entry made of the
command's result, `Exit` and `Fails` end the process. The entry of a wipe holds
its measured entropy, which may be one of the numbers that are read back as
another (`Measured`); no other command records a number that is not whole.

| action | code |
|---|---|
| `Begin`, `Refused`, `Exit` | main.rs:138-155, 440-443: the log is opened before anything else, or the command ends |
| `ReadOnly` | the eleven commands that record nothing |
| `List`, `ShredBegins`, `ShredEnds`, `FileFails`, `DirCancelled`, `ShredReturns` | main.rs:206, 252: wipe and wipe-dir, with the first write, the unlinking and the return of each `shred_file` as steps, since other commands read, shred or log in between |
| `VaultCreate`, `VaultAdd`, `Digest`, `VaultDestroy` | main.rs:338-371; the second read of the source for the digest is a step of its own |
| `Fails` | `?` anywhere, or a kill; also inside the entry (`RecordTorn`) |
| `Edit` | the owner of a file changes it |

The target of wipe, and a file in the directory of wipe-dir, may be the log
itself. Shredding it makes the file unreadable and then unlinks it; a process
between its two writes keeps its handle and writes its newline to the unlinked
file (`orphans`), one that opens it later starts a new file, as `record` does,
which opens the path with `create`. The pool of wipe-dir shreds one file after
the other here: how its threads interleave is the subject of `DirShred`.

### 3.6 `Posture`

One file, the mounts on its path in the order of mounting, the snapshots that
hold it, the marker folders its canonical path shows, and whether the path as
given shows them too. The two commands run with the same steps: `DetectStorage`
(the first read of /proc/mounts, device.rs), `ReadSysfs`, `DetectFilesystem`
(the second read, filesystem.rs); then compliance-check runs the snapshot tools
one by one (`ScanTool`), compares names (`ScanMarkers`) and decides (`Decide`,
main.rs:416-439), while wipe overwrites the file (`Shred`) and warns by the
storage class (engine.rs:79-84). Between any two steps something may be
mounted, unmounted or snapshotted (`MaxChanges`).

What a wipe leaves is the model's statement about the outside world
(`Remains`): cells of flash, blocks of a file system that does not write in
place, remote copies, snapshots. `KindByMount`, `InSysfs` (of
`strip_partition_suffix`, by the form of the name), `KindBySysfs`,
`is_copy_on_write` and `LowRisk` are the code's decision tables. The Windows
branches are left out: they classify nothing as reliable.

### 3.7 `SecureMem`

The vaults one process has open, and the pages their keys lie on. `Derive` and
`Copy` are the key on the stack and its copy on the heap, `Lock` is
`SecureBytes::new`, `SecureZero` the call in `destroy`, `DropUnlock` and
`DropZeroize` the two halves of `drop` in the order of the code. A lock belongs
to a page, as with mlock. `Evict` writes any page that is not locked to the
swap, `Killed` ends the process without drops (`panic = "abort"`). `swap` keeps
the copy written last, with the state of its vault at that moment: an invariant
over every reachable value of it speaks of every copy ever written.

### 3.8 `ForensicVerify`

`analyze_bytes` on one file: `Measure` (entropy and signatures),
`ScanPrintable`, `ScanOther` and `ScanEnd` (the loop of
`extract_ascii_strings`, a byte a step), `Classify`. A string is the pair of its
first and last position. Entropy is any multiple of a tenth of a bit, zero if
one byte is repeated; the two thresholds and the penalty's bound are such
multiples, so values on and on both sides of each occur. Scores are counted in
thousandths.

## 4. Runs

| run | bounds | shows |
|---|---|---|
| `file_shred` | files of 0 to 3 chunks, four patterns (one per shape of `FillPass` and `Passes`, `MultiRandom(0)` and three passes among them), with and without verification | safety, refinement and termination below |
| `file_shred_bar` | the same | the progress bar reaches 100% while passes are still to be written |
| `dir_shred` | two threads, three files, a chain of three directories any of which may be unreadable, one symlink that may appear | safety and termination below |
| `audit_log` | two processes, two keys, three lines, entries of a wipe of a file with a bar in its name | safety and refinement below |
| `audit_log_numbers` | the same | an untouched log that does not replay |
| `vault` | two processes, two entries, two vaults created at the path, one power failure | safety below |
| `vault_destroy` | the same | an Ok of destroy with a blob left as it was |
| `cli` | two processes, two files, two runs of any commands, two lines | safety and termination below |
| `posture` | six disks, fifteen mount lines, two of them mounted, one change | safety below |
| `posture_low_risk` | the same, a hard disk with ext4 or btrfs | LOW RISK printed for btrfs, which the same report calls copy-on-write, and the old blocks outlive the wipe |
| `secure_mem` | two vaults, three pages, two of which may be locked | safety below |
| `forensic` | every file of up to six bytes over two printable and one other value, two signatures that overlap, strings of two bytes or more | safety below |

Properties of the passing runs:

- `HiddenMeansErased`: the name is lost, live or durably, only when the last
  pass is durable over the whole length. `DurablePasses`: the medium is at most
  one pass behind. `CancelPrompt`, `ConsistentPrefix`: Ctrl-C costs at most one
  more chunk and leaves the file under its name, a prefix of it in the new
  pass. `OutcomeHonest`: what Ok means. `NoFalseAlarm`: the entropy warning has
  a reason. `EveryCallReturns`, `Refines`.
- `SummaryTrue`: a file is gone exactly when it is an outcome, no file is
  counted twice, and a file in no list still has its name because of a
  cancellation or because it lies below a directory that could not be listed.
  `EveryCountDelivered`: the callback is given each count once.
  `CancelStopsNew`: after Ctrl-C no more wipes complete than there are threads.
  `LeftDirsHaveReason`: one deepest-first sweep is enough. `Terminates`.
- `RejectionExplained`: a log stops replaying only after an interruption,
  overlapping processes, an inexact number or an alteration. `OkMeansLogged`:
  every entry for which `record` returned Ok is in the file, in order, once,
  as long as nothing but an inexact number is among the causes.
  `TamperEvident`: an alteration without the key is found, unless it only cut
  the end or moved the bar between an operation and its target.
  `RejectionIsPermanent`: no command repairs a refused log, and every
  command refuses to run on it. `ImplementsJournal`: as long as nothing of the
  kind happened, every step of every process is one of an append-only journal.
- `ListedHasBlob`: a header, on disk or in memory, names only entries that can
  be extracted. `AddedIsListed`: an Ok of `add_file` is kept, and the vault
  readable, unless one of `causes` happened; TLC finds the loss when any of
  them is left out of the premise. `DestroyedIsUnreadable`: after an Ok of
  destroy nothing brings the salt back, so blobs left behind are ciphertext
  without a key.
- `LogOutlivesCommands`: a log that no command was told to shred is refused only
  after an overlap, an interrupted entry, or a wipe whose entropy is read back
  as another number. `EffectsLogged`: a run that
  overwrote a file or changed the vault has its entry, is on its way to it, or
  failed. `EntriesTrue`: a file counted as wiped is gone, and by that run; the
  digest of vault-add is of what was encrypted, unless the source changed
  between the two reads. `EveryRunEnds`.
- `LowRiskHasReason`, `UnwarnedHasReason`: when a wipe leaves something behind
  after LOW RISK, or without the warning, the cause is a mount that changed or
  was hidden, a disk that the kernel misdescribes, a copy-on-write file system
  that was printed or is unknown to the table, a tool that failed or ran too
  early, or a link into a backup folder. Of cloud clients and backup tools only
  those whose folder names the program knows are spoken of. Each was added because TLC found it, and
  no other is needed. `OneMountDescribed`: the two reads of the mount table
  agree while the table stays as it is.
- `SwappedHasReason`: a key goes from the heap to the swap before mlock, after
  munlock, when mlock was refused, or when another vault's drop unlocked a
  shared page (which takes two vaults in one process, as a caller of the library
  may open; a command opens one), and in no other state. `LockedPagesHaveOwner`: no lock is left
  over. `NoKeyFreed`: whatever way a vault ends, its key was zeroed first.
- `StringsAreRuns`, `HighMeansRemnants`: strings and signatures are found
  wherever they are, against a definition by quantifiers over the file.
  `ScoreFollowsVerdict`: bonuses and penalty never carry a score into the band of
  another verdict.

**Why the bounds are enough.** Three chunks have a first, a middle and a last
one; growth adds at most three more states of `size`; three passes have a first,
a middle and a last one, and the durable contents may mix two passes in any way
over the chunks. A file may be wiped again after an interrupted call, without
bound. Two threads and three files let a thread take a second file while the
other still works on its first, and leave one file for the flag; a chain of
three directories has a middle one. In the log, an
interruption or an overlap needs two entries to be seen and a third to follow;
`MaxEntries` bounds the lines and the entries recorded, `Alter` happens once.
One operation on one target with a bar is enough for a boundary that can be
moved; entries are told apart by number and hash. The action constraint
`AlterMatters` leaves out the alterations of a log that is refused before and
after, which would only multiply the logs that are refused; the theorems have no
such bound.
In the vault a lost entry needs two adds, and a confusion of vaults two salts
(`MaxSalts`); `SYMMETRY` over processes and ids is sound, since that run checks
invariants only and nothing orders either set. The same holds of the vaults of
`secure_mem`, and of the processes of `audit_log`, whose action properties
treat them alike.

`cli` runs two commands (`MaxRuns`), which may be any pair, one after the other
or overlapping: the second is the one that shreds what the first logged, changes
what it reads again, or competes for the same file. In `posture` two mounts give
one that hides the other or is nested in it, and one change falls between any two
steps; the six disks are one for each way in which name, removable and
rotational can be reported. Three pages and keys on one page or two let two keys
share one page and not the other, and the limit of two refuses a lock. Six bytes
hold two strings with a separator and a signature at either end.

**Deadlock** is checked except where the system ends: the command is `done` in
`dir_shred` and `forensic`, every run is used up in `cli`, and the file is wiped
in `posture`.

## 5. Fairness

`FileShred!FairSpec` has `WF_vars(Step)`: the operating system runs the process
and its calls return. `DirShred!FairSpec` has weak fairness of the calling
thread and of every pool thread, for the same reason, with `shred_file`
returning as `EveryCallReturns` shows. Nothing is assumed of the
environment: Ctrl-C, growth, write-back and failures may never happen. Nothing
is assumed of `Call`. `Cli!FairSpec` has weak fairness of the work of each
process, once it has begun: the program is run, its calls return, and
`shred_file` and `shred_directory` end as the two properties above show. Nothing
in it waits for another process, so weak fairness of each is enough. Starting a
command, cancelling one and editing a file are not fair. `AuditLog`, `Vault`,
`Posture`, `SecureMem` and `ForensicVerify` state no liveness: a process may stop
for ever after any step, and their operations have no loops that wait.

## 6. Proofs

`FileShred_proofs` proves, for every `MaxLen`, `Patterns` and `OptionSet` that
satisfy the assumptions of `FileShred`:

| theorem | states |
|---|---|
| `TypeCorrect` | `Spec => []TypeOK` |
| `NameOutlivesContents` | `Spec => []HiddenMeansErased` |
| `PassesReachTheDisk` | `Spec => []DurablePasses` |
| `CancelKeepsTheFile` | `Spec => []CancelPrompt` |
| `Refinement` | `Spec => Refines`, the implementation of `SecureErase` |
| `OkIsHonest` | `Spec => []OutcomeHonest` |
| `CancelLeavesAPrefix` | `Spec => []ConsistentPrefix` |
| `WarningHasAReason` | `Spec => []NoFalseAlarm` |

The assumptions are that `MaxLen` is a natural number, that patterns and options
have their types, and `CallersSync`: every caller sets `sync_each_pass`, which
holds of every `ShredOptions` in the program and is necessary, since without it
the name can be lost before the contents.

None of these properties is inductive. That the last pass is durable when the
name goes needs to be known from the end of that pass on, while the file may be
renamed, written back, killed or powered off; that it is durable at the end of
the pass follows from `sync_all` only if the whole of `1..file_len` had been
written, which in turn needs the chunks behind `remaining`. `IInv` joins these:
`BetweenPasses` (after k passes everything durable is pass k-1), `WithinPass`
(in pass k the cache is pass k up to the position and pass k-1 behind it, the
disk one of the two), `AfterPasses` (from verification to the end both are the
last pass), `DirInv` (a lost name implies the last pass is durable),
`NothingReappears` (where the cache still shows original contents the disk does
too, so that a write-back never undoes a destruction) and `CancelInv` (what
`lateWrites` and the position say about the flag). `InitInv` and `StepInv` show
that it is inductive, one case per action; `Refinement` uses it for
the step simulation `StepRefines`. The last three theorems need what a return
says to be tied to the counters: `Counting` (after k passes and a position,
`bytes_wiped` is their sum) and `ReportInv` are proved on top of `IInv`.

`AuditLog_proofs` proves, for every set of processes, every non-empty set of
keys (`KeyAssumption`: a log is opened with some key) and every bound on the
entries:

| theorem | states |
|---|---|
| `TypeCorrect` | `Spec => []TypeOK` |
| `RejectionHasACause` | `Spec => []RejectionExplained` |
| `RecordedIsLogged` | `Spec => []OkMeansLogged` |
| `TamperingIsFound` | `Spec => TamperEvident` |
| `NoRepair` | `Spec => RejectionIsPermanent` |
| `Refinement` | `Spec => ImplementsJournal`, the implementation of `Journal` |

That an untouched log replays is not inductive: the next line is accepted only
if the writer's memory agrees with the end of the file, and the writer may have
read it long ago. `IInv` adds `MemoryInv` (while `causes` is empty the file
replays, and what each process remembers of hash, sequence and key is true of
the file), `WriterInv` (unless commands overlapped, at most one process is
between its two writes, and the file is what was recorded with that process's
line) and `FileInv` (the shape of the file and of what processes remember).
`TamperingIsFound` starts from what the other side knows: every line of an
altered file bears a tag of the file as it was (`AlteredLines`). If both files
replay, the tag of an accepted line is that of some line before the alteration,
and tells the number, the joined operation and target, the details and the hash
that were signed (`TagTells`). The number is the place in both files, so the
line stands where it stood and says the same but for the bar; a file that is
longer would have a line with a number that nothing was signed for. Of HMAC
this assumes that equal tags mean equal keys and equal signed bytes; that equal
signed bytes mean equal entries is not assumed, and not true. `Refinement`
needs that the file is known in terms of what was acknowledged at every step
(`ContentsAre`, from `WriterInv`) and that what a writer keeps in mind is an entry
(`PendingInv`).

`DirShred_proofs` proves, for every finite tree, set of threads and set of files:

| theorem | states |
|---|---|
| `TypesHold` | `Spec => []TypeOK` |
| `SummaryIsTrue` | `Spec => []SummaryTrue` |
| `CountsAreDelivered` | `Spec => []EveryCountDelivered` |
| `CancelStopsTheRest` | `Spec => []CancelStopsNew` |
| `OneSweepIsEnough` | `Spec => []LeftDirsHaveReason` |

That the summary is true is not inductive: it needs to be known of a file in
every thread's hands, and that no two threads have the same one. `Work` says
both, `Outcomes` follows a file from the list to a thread and into the summary.
For the counts the difficulty is that a thread enters its result and increments
the counter in two steps: `Counts` says that the counter is the cardinality of
the files in the summary whose thread has gone past `fetch_add`
(`CountedFiles`), and that each count up to it was delivered or is in the hands
of one thread. `Late` bounds the wipes after Ctrl-C by the threads that had
begun one. `Sweep` is about the second walk: a directory that has had its turn
is no shallower than any that has not, so none is emptied after its turn by the
removal of what was in it. This rests on a directory being deeper than the one
it is in (`DeeperThanParent`). `Depth` is recursive, and that it exists at all
has to be shown: `DepthAssumption` says that the directories are a finite tree
under the root, each some number of steps below it, and the lemma finds `Depth`
to be that number; a directory of least depth where it is not would have a
parent where it is not either (`LeastNumber`).

`Vault_proofs` proves, for every set of processes, entries and bound on salts:

| theorem | states |
|---|---|
| `TypesHold` | `Spec => []TypeOK` |
| `ListedIsExtractable` | `Spec => []ListedHasBlob` |
| `AddedStaysListed` | `Spec => []AddedIsListed` |
| `DestroyedStaysUnreadable` | `Spec => []DestroyedIsUnreadable` |

The commands rely on the header they read still being the container's when they
write it, which nothing in the code enforces. `Coherent` says where it is true:
until two commands overlap or the power fails, one that changes the vault is
alone and holds what the container says. `AddedIsHeld` finds an added entry in
the container or, between truncate and write, in the header about to be
written; `SaltIsGone` says that neither the container nor a command that may
write one has a destroyed salt; `Known` ties salts and ids to those handed out.

`SecureMem_proofs` proves `TypesHold`, `SwapIsExplained`
(`[]SwappedHasReason`), `LocksAreReturned` (`[]LockedPagesHaveOwner`) and
`KeysAreZeroed` (`[]NoKeyFreed`) for every set of vaults and pages and every
limit. The invariant adds `FlagMeansLocked`: the flag of an open vault is worth
its pages unless a neighbour was dropped.

`ForensicVerify_proofs` proves `StringsAreComplete` (`[]StringsAreRuns`) for
every file, alphabet and minimum length, `ScoresAreOrdered`
(`[]ScoreFollowsVerdict`) for any number of signatures and strings, and
`HighIsExplained` (`[]HighMeansRemnants`) for any signatures. `ScanInv`
says what the loop knows between two bytes: the current run is printable and
cannot be extended to the left, and exactly the maximal runs that end before it
have been reported; `FlushReports` is the step from there over the end of a run.
The verdict only counts strings and signatures: `StringsCountRuns` shows that the
strings, being in order, are all different and so as many as the maximal runs,
and `WindowsAreEverywhere` that the windows of the source are all the positions
at which a signature fits, the last one included.

`Cli_proofs` proves, for every set of processes and keys, every set of files
with any of them in the directory, and any bounds on runs and entries:

| theorem | states |
|---|---|
| `TypeCorrect` | `Spec => []TypeOK` |
| `CommandsKeepTheLog` | `Spec => []LogOutlivesCommands` |
| `NothingUnlogged` | `Spec => []EffectsLogged` |
| `RecordedIsTrue` | `Spec => []EntriesTrue` |

Its assumptions are that there is a process and a key, that the log is none of
the other files, and that `None` is no file. The module instantiates
`AuditLog_proofs` with the constants of `Cli`: every step of a command that
touches the log is an action of `AuditLog`, and its lemma says that the log's own
invariant is kept (`LogInv`). Among the causes of a refusal is then the inexact
number of a wipe, which `RejectionHasACause` already allows for; alterations and
power failures are no steps of `Cli`. Shredding the log is no action of `AuditLog`: from
then on `LogInv` claims nothing, as the property does. `EffectsLogged` is not
inductive, because the step that makes an effect and the step that logs it are
far apart: `StageInv` says of each step of each command what it has done so far
and has not done, `LineInv` that a process between its two writes has the entry
in mind that its command has earned, `EffectInv` that a run which changed
something and did not fail is under way or recorded, and `RunInv` that no two
processes have the same run. `WipedInv` and `AddInv` say what an entry claims
while the command still works on it: a file counted as wiped is gone and was
counted by no one else, and what `vault add` stored is what it goes on to read a
second time, unless the file was edited in between.

`Posture_proofs` proves, for every set of disks and mount lines and any bounds on
mounts and changes:

| theorem | states |
|---|---|
| `TypeCorrect` | `Spec => []TypeOK` |
| `DescribesOneMount` | `Spec => []OneMountDescribed` |
| `NoWarningHasReason` | `Spec => []UnwarnedHasReason` |
| `LowRiskIsExplained` | `Spec => []LowRiskHasReason` |

What is printed depends on reads made at different times. The invariant follows
each result back to what it was read from: `ReadInv` (while nothing was mounted
or unmounted since the command began, what was read of the table is what would
be read now), `KindInv` (the storage class is that of the line read, once sysfs
was asked if need be), `ScanInv` (a snapshot there is was found or missed, or the
turn of its tool is still to come), `VerdictInv` and `WipeInv` (what LOW RISK and
the missing warning say of the file, from the moment they are printed), with
`SessionInv` for which answers a command has by now. `TableInv` is needed for
the loop over the table to find anything: the line of `/` is always there
and can be read. `LastLongestIs` and `ActualOrHidden` are the lemmas about that
loop: it holds the last of the longest mount points, which is the mount the
file is on unless one made later hides it.

Every invariant that a run checks, and every action property and refinement, is
the statement of a theorem; the type invariants of `SecureMem` and
`ForensicVerify` are proved without a run of their own. Only
model-checked are the properties under fairness (`EveryCallReturns`,
`Terminates`, `EveryRunEnds`): liveness and `ENABLED` are beyond the prover.
Induction over data is too, because the library's theorems take an operator as
their parameter; where a proof needs one, it takes the least element of a
concrete set of numbers.

## 7. Where code and documentation disagree

| run | what |
|---|---|
| `file_shred_bar` | the progress bar of `wipe` counts earlier passes twice and is full too early (main.rs:198 against engine.rs:56-57) |
| `audit_log_numbers` | a log nobody touched is reported as tampered with when an entropy value does not survive printing and parsing (audit/mod.rs:101-103, Cargo.toml:24); every command then refuses to run |
| `vault_destroy` | "the vault and all its contents are securely overwritten" (src/README.md:521): failures to shred a blob are discarded and destroy returns Ok |
| `posture_low_risk` | "LOW RISK - standard overwrite sanitization should be effective" (main.rs:435) is printed for btrfs on a hard disk, which the same report calls copy-on-write; filesystem.rs:83 advises not to rely on overwriting alone there |

Further ones were met while modelling. A property of a passing run names them as
exceptions where it needs to:

- two commands that overlap leave a log that reports tampering
  (audit/mod.rs:80 against 101-103; `RejectionExplained`);
- removing the last entries of a log is not detected, nor is moving the bar
  between an operation and its target (src/sanitizer/README.md:92-94,
  audit/mod.rs:169-183; `TamperEvident`);
- wipe-dir over the directory of the audit log leaves a log that no command
  accepts (main.rs:259; `LogOutlivesCommands`);
- "every operation is recorded" (src/README.md:118): only five commands are, and
  only when they succeed (`EffectsLogged`);
- "every regular file under root" (directory.rs:28): those below an unreadable
  directory are neither shredded nor reported (`SummaryTrue`);
- `DodThreePass` is described as verified after each pass (patterns.rs:13-14);
  the code reads once, after the last;
- the verification read cannot notice a redirected write, as engine.rs:124-127
  says it does: a copy-on-write file system returns the new blocks;
- the fallback generator retries nothing and is seeded with the time and an
  address, where rng.rs:15-19 promises retries and no silent weakness;
- only one buffer of the program is a `SecureBytes`, where secure_mem.rs:3-4
  lists passwords and plaintext metadata, and `drop` unlocks before it zeroes;
- a file of a few hundred kilobytes of random bytes has a two-byte signature and
  more than 50 short strings, and is called High (verify/mod.rs:23, 27, 115).

## 8. What is not modelled, and why

- The contents of passes, keys and ciphertexts: ideal, or a name for what filled
  a chunk. The arithmetic of the primitives is out of reach of TLC.
- Mediums that remap blocks (SSD, copy-on-write): in `FileShred`, `disk` is what
  the file's blocks hold. `Posture` models which mediums the program recognises
  and what it says of them.
- Writers that overwrite or truncate the file during the wipe.
- Reports: renderings of a report that no command produces, without state;
  quoting works character by character. Errors: type declarations.
- The benchmark, the printed texts, and the notes on TRIM and other file-system
  features, which nothing decides by.
- The Windows branches of storage, file-system and snapshot detection, which
  reach no device and return constants.
- The fallback of the random generator: the quality of its output is not a
  property of a state. Entropy is left open where the bytes do not fix it.
- Freed blocks: `persist` truncates the container, so an earlier header and the
  salt may stay in blocks that destroy does not overwrite; blocks are not
  modelled, and `DestroyedIsUnreadable` speaks of files.
