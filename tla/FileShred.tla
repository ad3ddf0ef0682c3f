----------------------------- MODULE FileShred -----------------------------
(***************************************************************************)
(* shred_file (sanitize/engine.rs), the overwrite patterns it is driven by *)
(* (sanitize/patterns.rs) and sanitize_metadata_and_unlink                 *)
(* (sanitize/metadata.rs), applied to one path, together with the file     *)
(* system below them: a page cache that is written back at any time, a     *)
(* directory that is never synced, Ctrl-C, a writer that appends to the    *)
(* file, the death of the process and a power failure.                     *)
(*                                                                         *)
(* A file is a sequence of write chunks (CHUNK_SIZE, engine.rs:15); the    *)
(* contents of a chunk are what last filled it.  "orig" stands for any     *)
(* bytes the program did not write.  A chunk that is only partly           *)
(* overwritten counts as not overwritten.                                  *)
(***************************************************************************)
EXTENDS Naturals, FiniteSets

CONSTANTS
    MaxLen,       \* bound: chunks in the longest file
    Patterns,     \* the overwrite patterns callers pass
    OptionSet     \* the other fields of ShredOptions callers pass

PatternKind == {"SingleRandom", "MultiRandom", "DodThreePass", "NistClear",
                "NistPurge", "Custom", "Zeros", "Ones"}

\* n is the count of MultiRandom(n) and the length of Custom(pattern).
Pattern == [kind : PatternKind, n : Nat]

Option == [verify_passes : BOOLEAN, sanitize_filename : BOOLEAN,
           sync_each_pass : BOOLEAN]

ASSUME MaxLenAssumption == MaxLen \in Nat
ASSUME PatternsAssumption == Patterns \subseteq Pattern /\ Patterns # {}
ASSUME OptionAssumption == OptionSet \subseteq Option /\ OptionSet # {}

(***************************************************************************)
(* Every call in the program, and Default, sets sync_each_pass.            *)
(***************************************************************************)
ASSUME CallersSync == \A o \in OptionSet : o.sync_each_pass

-----------------------------------------------------------------------------
Fill == {"random", "zeros", "ones", "custom"}

Content == Fill \cup {"orig"}

Passes(p) ==
    CASE p.kind = "MultiRandom" -> IF p.n > 1 THEN p.n ELSE 1
      [] p.kind = "DodThreePass" -> 3
      [] OTHER -> 1

FillPass(p, i) ==
    CASE p.kind \in {"NistClear", "Zeros"}       -> "zeros"
      [] p.kind = "Ones"                         -> "ones"
      [] p.kind = "Custom" /\ p.n > 0            -> "custom"
      [] p.kind = "DodThreePass" /\ i = 0        -> "zeros"
      [] p.kind = "DodThreePass" /\ i = 1        -> "ones"
      [] OTHER                                   -> "random"

AnyFixedPassIsRandom(p) == p.kind # "Custom"                    \* mutant

LastPassIsRandom(p) ==
    p.kind \in {"SingleRandom", "MultiRandom", "DodThreePass", "NistPurge"}

RENAME_ROUNDS == 3

-----------------------------------------------------------------------------
VARIABLES
    pc,                \* where the call is; "idle" when none runs
    pattern, opts,     \* the arguments of the current or last call
    file_len,          \* metadata.len(), read once
    remaining,         \* chunks the current pass has still to write
    passes_completed,  \* also the zero-based index of the current pass
    bytes_wiped,       \* counted in chunks, over all passes
    renames,           \* rename rounds done
    cancel,            \* the CancelFlag
    outcome,           \* what the call returned, "none" while it has not
    warned,            \* the entropy warning was pushed
    progress,          \* arguments of the last progress callback
    lateWrites,        \* history: chunks written since cancel was set
    kind,              \* what the path names
    size,              \* chunks the file has now
    cache, disk,       \* contents of each chunk: as read back, and durable
    entry, diskEntry   \* the directory entry: live, and durable

callVars == <<pattern, opts, file_len>>
fileVars == <<kind, size, cache, disk>>
dirVars  == <<entry, diskEntry>>
countVars == <<remaining, passes_completed, bytes_wiped, progress, lateWrites>>

vars == <<pc, callVars, countVars, renames, cancel, outcome, warned,
          fileVars, dirVars>>

Chunk == 1..MaxLen

PC == {"idle", "pass", "check", "write", "sync", "verify", "rename", "unlink"}

Outcome == {"none", "ok", "cancelled", "config", "error"}

Entry == {"original", "random", "gone"}

TypeOK ==
    /\ pc \in PC
    /\ pattern \in Patterns
    /\ opts \in OptionSet
    /\ file_len \in 0..MaxLen
    /\ remaining \in 0..file_len
    /\ passes_completed \in 0..Passes(pattern)
    /\ bytes_wiped \in Nat
    /\ renames \in 0..RENAME_ROUNDS
    /\ cancel \in BOOLEAN
    /\ outcome \in Outcome
    /\ warned \in BOOLEAN
    /\ progress \in [done : Nat, pass : Nat]
    /\ lateWrites \in Nat
    /\ kind \in {"file", "dir"}
    /\ size \in file_len..MaxLen
    /\ cache \in [Chunk -> Content]
    /\ disk \in [Chunk -> Content]
    /\ entry \in Entry
    /\ diskEntry \in Entry

Init ==
    /\ pc = "idle"
    /\ pattern \in Patterns
    /\ opts \in OptionSet
    /\ file_len = 0
    /\ remaining = 0
    /\ passes_completed = 0
    /\ bytes_wiped = 0
    /\ renames = 0
    /\ cancel = FALSE
    /\ outcome = "none"
    /\ warned = FALSE
    /\ progress = [done |-> 0, pass |-> 0]
    /\ lateWrites = 0
    /\ kind \in {"file", "dir"}
    /\ size \in 0..MaxLen
    /\ cache = [c \in Chunk |-> "orig"]
    /\ disk = [c \in Chunk |-> "orig"]
    /\ entry = "original"
    /\ diskEntry = "original"

-----------------------------------------------------------------------------
(***************************************************************************)
(* The process.                                                            *)
(***************************************************************************)
Return(o) ==
    /\ pc' = "idle"
    /\ outcome' = o

Total == Passes(pattern)

(***************************************************************************)
(* Parts of the steps below.  A definition marked "mutant" is a plausible  *)
(* slip in the definition that follows it; PROJECT.json names the property *)
(* that catches it.  No action uses one.                                   *)
(***************************************************************************)
CancelIgnored == FALSE                                            \* mutant

CancelSeen == cancel

BreakInnerLoop == pc' = "sync" /\ UNCHANGED outcome               \* mutant

BreakAndUnlink == pc' = "rename" /\ UNCHANGED outcome             \* mutant

\* `break 'passes`: no verification, no unlinking, Err(Cancelled).
BreakPasses == Return("cancelled")

SeekFromEnd == remaining                                          \* mutant

NextChunk == file_len - remaining + 1

NeverSynced == disk                                               \* mutant

SyncedAtEnd == IF passes_completed + 1 = Total THEN cache ELSE disk \* mutant

Synced == IF opts.sync_each_pass THEN cache ELSE disk

PassNotCounted == passes_completed                                \* mutant

PassCounted == passes_completed + 1

OneRoundMore == renames <= RENAME_ROUNDS                          \* mutant

MoreRounds == renames + 1 < RENAME_ROUNDS

Call ==
    /\ pc = "idle"
    /\ entry = "original"
    /\ kind = "file"
    /\ pc' = "pass"
    /\ pattern' \in Patterns
    /\ opts' \in OptionSet
    /\ file_len' = size
    /\ remaining' = 0
    /\ passes_completed' = 0
    /\ bytes_wiped' = 0
    /\ renames' = 0
    /\ cancel' = FALSE
    /\ outcome' = "none"
    /\ warned' = FALSE
    /\ progress' = [done |-> 0, pass |-> 0]
    /\ lateWrites' = 0
    /\ UNCHANGED <<fileVars, dirVars>>

(***************************************************************************)
(* The name is not (or no longer) there or cannot be examined, or it is    *)
(* not a regular file: nothing is touched.                                 *)
(***************************************************************************)
CallFails ==
    /\ pc = "idle"
    /\ \/ outcome' = "error"
       \/ entry = "original" /\ kind = "dir" /\ outcome' = "config"
    /\ UNCHANGED <<pc, callVars, countVars, renames, cancel, warned,
                   fileVars, dirVars>>

BeginPass ==
    /\ pc = "pass"
    /\ \/ /\ CancelSeen
          /\ Return("cancelled")
          /\ UNCHANGED remaining
       \/ /\ ~CancelSeen
          /\ pc' = "check"
          /\ remaining' = file_len
          /\ UNCHANGED outcome
    /\ UNCHANGED <<callVars, passes_completed, bytes_wiped, progress,
                   lateWrites, renames, cancel, warned, fileVars, dirVars>>

(***************************************************************************)
(* The loop condition and the cancellation check.  They are a step of      *)
(* their own: the signal may arrive between the check and the write.       *)
(***************************************************************************)
CheckChunk ==
    /\ pc = "check"
    /\ \/ remaining = 0 /\ pc' = "sync" /\ UNCHANGED outcome
       \/ remaining > 0 /\ CancelSeen /\ BreakPasses
       \/ remaining > 0 /\ ~CancelSeen /\ pc' = "write" /\ UNCHANGED outcome
    /\ UNCHANGED <<callVars, countVars, renames, cancel, warned, fileVars,
                   dirVars>>

Overwrite(f) ==
    [f EXCEPT ![NextChunk] = FillPass(pattern, passes_completed)]

WriteChunk ==
    /\ pc = "write"
    /\ cache' = Overwrite(cache)
    /\ remaining' = remaining - 1
    /\ bytes_wiped' = bytes_wiped + 1
    /\ progress' = [done |-> bytes_wiped + 1, pass |-> passes_completed]
    /\ lateWrites' = IF cancel THEN lateWrites + 1 ELSE lateWrites
    /\ pc' = "check"
    /\ UNCHANGED <<callVars, passes_completed, renames, cancel, outcome, warned,
                   kind, size, disk, dirVars>>

SyncPass ==
    /\ pc = "sync"
    /\ disk' = Synced
    /\ passes_completed' = PassCounted
    /\ pc' = IF PassCounted < Total THEN "pass" ELSE "verify"
    /\ UNCHANGED <<callVars, remaining, bytes_wiped, progress, lateWrites,
                   renames, cancel, outcome, warned, kind, size, cache, dirVars>>

(***************************************************************************)
(* The verification read and the entropy test.  The whole file as it is    *)
(* now is measured, so random contents throughout never measure low; what  *)
(* anything else measures is open, a read error and a file of at most 4096 *)
(* bytes pass silently.                                                    *)
(***************************************************************************)
MeasuresLow == \E c \in 1..size : cache[c] # "random"

Verify ==
    /\ pc = "verify"
    /\ \/ /\ opts.verify_passes
          /\ LastPassIsRandom(pattern)
          /\ file_len > 0
          /\ MeasuresLow
          /\ warned' = TRUE
       \/ UNCHANGED warned
    /\ pc' = IF opts.sanitize_filename THEN "rename" ELSE "unlink"
    /\ UNCHANGED <<callVars, countVars, renames, cancel, outcome, fileVars,
                   dirVars>>

Rename ==
    /\ pc = "rename"
    /\ entry' = "random"
    /\ renames' = renames + 1
    /\ pc' = IF MoreRounds THEN "rename" ELSE "unlink"
    /\ UNCHANGED <<callVars, countVars, cancel, outcome, warned, fileVars,
                   diskEntry>>

Unlink ==
    /\ pc = "unlink"
    /\ entry' = "gone"
    /\ Return("ok")
    /\ UNCHANGED <<callVars, countVars, renames, cancel, warned, fileVars,
                   diskEntry>>

(***************************************************************************)
(* Every fallible call of the body returns through `?`: open and seek,     *)
(* fill_pass, sync_all, rename, remove_file.  A failing write_all may have *)
(* written the chunk.                                                      *)
(***************************************************************************)
Fails ==
    /\ \/ pc = "pass" /\ ~CancelSeen /\ UNCHANGED cache
       \/ pc \in {"sync", "rename", "unlink"} /\ UNCHANGED cache
       \/ pc = "write" /\ cache' \in {cache, Overwrite(cache)}
    /\ Return("error")
    /\ UNCHANGED <<callVars, countVars, renames, cancel, warned, kind, size,
                   disk, dirVars>>

Step ==
    \/ BeginPass \/ CheckChunk \/ WriteChunk \/ SyncPass \/ Verify
    \/ Rename \/ Unlink \/ Fails

-----------------------------------------------------------------------------
(***************************************************************************)
(* The environment.                                                        *)
(***************************************************************************)
CtrlC ==
    /\ pc # "idle"
    /\ ~cancel
    /\ cancel' = TRUE
    /\ UNCHANGED <<pc, callVars, countVars, renames, outcome, warned, fileVars,
                   dirVars>>

\* Another process appends a chunk.
Grow ==
    /\ kind = "file"
    /\ entry # "gone"
    /\ size < MaxLen
    /\ size' = size + 1
    /\ UNCHANGED <<pc, callVars, countVars, renames, cancel, outcome, warned,
                   kind, cache, disk, dirVars>>

\* The kernel writes back one dirty chunk, or the directory.
WriteBack ==
    /\ \/ \E c \in Chunk :
            /\ disk[c] # cache[c]
            /\ disk' = [disk EXCEPT ![c] = cache[c]]
            /\ UNCHANGED diskEntry
       \/ /\ diskEntry # entry
          /\ diskEntry' = entry
          /\ UNCHANGED disk
    /\ UNCHANGED <<pc, callVars, countVars, renames, cancel, outcome, warned,
                   kind, size, cache, entry>>

\* SIGKILL, a panic, or the end of the process without waiting.
Kill ==
    /\ pc # "idle"
    /\ Return("none")
    /\ UNCHANGED <<callVars, countVars, renames, cancel, warned, fileVars,
                   dirVars>>

PowerLoss ==
    /\ Return("none")
    /\ cache' = disk
    /\ entry' = diskEntry
    /\ UNCHANGED <<callVars, countVars, renames, cancel, warned, kind, size,
                   disk, diskEntry>>

Environment == CtrlC \/ Grow \/ WriteBack \/ Kill \/ PowerLoss

Next == Call \/ CallFails \/ Step \/ Environment

Spec == Init /\ [][Next]_vars

(***************************************************************************)
(* The operating system keeps running the process and its calls return.    *)
(* Nothing is assumed of the environment, which may do nothing for ever.   *)
(***************************************************************************)
FairSpec == Spec /\ WF_vars(Step)

-----------------------------------------------------------------------------
(***************************************************************************)
(* Properties.                                                             *)
(***************************************************************************)
LastFill == FillPass(pattern, Total - 1)

(***************************************************************************)
(* The file loses its name, live or on the medium, only when the last pass *)
(* is durable over every byte the call set out to destroy, however the     *)
(* call ends after that (engine.rs:118-152, metadata.rs:27-41).            *)
(***************************************************************************)
HiddenMeansErased ==
    entry # "original" \/ diskEntry # "original" =>
        \A c \in 1..file_len : disk[c] = LastFill

(***************************************************************************)
(* While pass k runs, the medium holds pass k-1 or pass k in every chunk:  *)
(* passes are ordered by sync_all, they never overtake one another in the  *)
(* cache, and an interruption never falls back further than one pass       *)
(* (engine.rs:90-122).                                                     *)
(***************************************************************************)
DurablePasses ==
    pc # "idle" /\ passes_completed > 0 =>
        \A c \in 1..file_len :
            disk[c] \in {FillPass(pattern, passes_completed - 1),
                         FillPass(pattern, passes_completed)}

(***************************************************************************)
(* After Ctrl-C at most the chunk whose write had been decided is written, *)
(* and a cancelled call leaves the file under its own name with the pass   *)
(* that was cut short incomplete (engine.rs:49-53, 91-93, 105-107, 154).   *)
(***************************************************************************)
CancelPrompt ==
    /\ lateWrites <= 1
    /\ outcome = "cancelled" => /\ cancel
                                /\ passes_completed < Total
                                /\ entry = "original"

(***************************************************************************)
(* A cancelled call leaves "a consistent (already-overwritten-so-far)      *)
(* state" (engine.rs:52-53): the current pass over a prefix of the file,   *)
(* the pass before it over the rest.                                       *)
(***************************************************************************)
ConsistentPrefix ==
    outcome = "cancelled" /\ remaining > 0 =>
        /\ \A c \in 1..(file_len - remaining) :
               cache[c] = FillPass(pattern, passes_completed)
        /\ passes_completed > 0 =>
               \A c \in (file_len - remaining + 1)..file_len :
                   cache[c] = FillPass(pattern, passes_completed - 1)

(***************************************************************************)
(* Ok is returned only for a file that is gone from the live directory,    *)
(* after every pass and, when asked for, every rename round, and the bytes *)
(* reported are those of all passes (engine.rs:149-166).                   *)
(***************************************************************************)
OutcomeHonest ==
    outcome = "ok" =>
        /\ entry = "gone"
        /\ passes_completed = Total
        /\ bytes_wiped = Total * file_len
        /\ opts.sanitize_filename => renames = RENAME_ROUNDS

(***************************************************************************)
(* The entropy warning blames the file system; it is raised only when the  *)
(* file holds bytes the passes did not write, which here means that it has *)
(* grown since its length was read (engine.rs:134-147).                    *)
(***************************************************************************)
NoFalseAlarm == warned => size > file_len

(***************************************************************************)
(* A call that has started returns, with a result or with the process.     *)
(***************************************************************************)
EveryCallReturns == pc # "idle" ~> pc = "idle"

(***************************************************************************)
(* The call keeps the promise of SecureErase (engine.rs:60-168).           *)
(***************************************************************************)
Residue == {c \in 1..file_len : disk[c] = "orig"}

SE == INSTANCE SecureErase WITH
          Unit <- Chunk, scope <- 1..file_len, residue <- Residue

Refines == SE!Spec

(***************************************************************************)
(* The progress callback is given "(bytes_done_this_call, pass_index,      *)
(* total_passes)" (engine.rs:56-57) and the bar of main.rs:196-204 is full *)
(* only when all passes have been written.                                 *)
(***************************************************************************)
Percent(done, pass, len) ==
    LET pct == (done * 100 + pass * 100 * len) \div (len * Total)
    IN  IF pct > 100 THEN 100 ELSE pct

BarFullOnlyWhenWritten ==
    progress.done > 0 /\ Percent(progress.done, progress.pass, file_len) = 100
        => bytes_wiped = Total * file_len
=============================================================================
