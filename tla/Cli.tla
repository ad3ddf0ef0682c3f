-------------------------------- MODULE Cli --------------------------------
(***************************************************************************)
(* The commands of main.rs composed with the audit log: every command      *)
(* opens and replays the log, does its work, and appends one entry that    *)
(* says what it did.  Commands run one after the other or at the same      *)
(* time; any of them may fail or be killed, and may be given the log       *)
(* itself, or the directory that holds it, to destroy.                     *)
(*                                                                         *)
(* The log is AuditLog, without the power failures and alterations treated *)
(* there.  shred_file and the vault are FileShred and Vault seen from      *)
(* outside.  A file's contents are a version of what its owner wrote,      *)
(* "noise" once some of it was overwritten, or "gone" with its name.       *)
(***************************************************************************)
EXTENDS Naturals, Sequences

CONSTANTS
    Proc,          \* the processes
    Key,           \* audit keys (--audit-key, or the default one)
    File,          \* ordinary files
    InDir,         \* what the directory given to wipe-dir holds
    MaxRuns,       \* bound: commands ever started
    MaxEntries     \* bound: lines in the log

LogFile == "log"

None == "none"

Target == File \cup {LogFile}

ASSUME ProcAssumption == Proc # {}
ASSUME KeyAssumption == Key # {}
ASSUME FileAssumption == LogFile \notin File /\ None \notin File
ASSUME InDirAssumption == InDir \subseteq Target
ASSUME BoundsAssumption == MaxRuns \in Nat /\ MaxEntries \in Nat

VARIABLES
    file, unterminated, pc, key, last_hash, next_sequence, pending,
    recorded, causes,              \* the log and its processes (AuditLog)
    orphans,       \* processes with an open handle on an unlinked log
    cmd,           \* per process: its command
    run,           \* per process: the number of its run
    at,            \* per process: its step
    todo,          \* per process: the files wipe or wipe-dir has to shred
    shredding,     \* per process: the file it is shredding
    wiped,         \* per process: the files it has shredded
    digest,        \* per process: the contents whose digest it records
    content,       \* the contents of each file
    vault,         \* whether the vault exists
    runs,          \* history: the number of runs so far
    stored,        \* history: what each vault-add has put into the vault
    effects,       \* history: runs that changed a file or the vault
    failures,      \* history: runs that were killed or returned an error
    raced,         \* history: runs whose source changed between two reads
    logShredded    \* history: a command began to shred the log

logVars == <<file, unterminated, pc, key, last_hash, next_sequence, pending,
             recorded, causes>>
cmdVars == <<cmd, run, at, todo, shredding, wiped, digest>>
world   == <<content, vault, orphans>>
history == <<runs, stored, effects, failures, raced, logShredded>>

vars == <<logVars, cmdVars, world, history>>

Version == {"v1", "v2"}
Content == Version \cup {"noise", "gone"}

Run == 1..MaxRuns

Command ==
    [op : {"wipe"}, on : Target] \cup
    [op : {"vault-add"}, on : File] \cup
    [op : {"wipe-dir", "vault-create", "vault-destroy", "read"}, on : {None}]

Log == INSTANCE AuditLog WITH
    Op <- [operation : {<<c.op>> : c \in Command},
           target : {<<t>> : t \in Target \cup {None}}],
    Data <- [run : Run, wiped : SUBSET Target, digest : Content \cup {None}]

(***************************************************************************)
(* What an entry says: the command and what it was given, the files it     *)
(* wiped, the digest of the file it added; of a wipe also the measured     *)
(* entropy, a number that may not be read back as it was written.  The     *)
(* run, in the code a timestamp, tells entries apart.  The directory and   *)
(* the vault are None.                                                     *)
(***************************************************************************)
Entry(p, entropy) ==
    [op |-> [operation |-> <<cmd[p].op>>,
             target |-> <<IF cmd[p].op = "wipe" THEN cmd[p].on ELSE None>>],
     data |-> [run |-> run[p], wiped |-> wiped[p], digest |-> digest[p]],
     entropy |-> entropy]

Measured(p) == {"exact"} \cup {e \in {"inexact"} : cmd[p].op = "wipe"}

TypeOK ==
    /\ pc \in [Proc -> {"closed", "open", "line"}]
    /\ cmd \in [Proc -> Command \cup {[op |-> None, on |-> None]}]
    /\ run \in [Proc -> 0..MaxRuns]
    /\ at \in [Proc -> {None, "start", "shred", "digest", "record", "done"}]
    /\ todo \in [Proc -> SUBSET Target]
    /\ shredding \in [Proc -> Target \cup {None}]
    /\ wiped \in [Proc -> SUBSET Target]
    /\ digest \in [Proc -> (Content \ {"gone"}) \cup {None}]
    /\ content \in [File -> Content]
    /\ vault \in BOOLEAN
    /\ runs \in 0..MaxRuns
    /\ stored \subseteq [by : Run, is : Content \ {"gone"}]
    /\ effects \cup failures \cup raced \subseteq 1..runs
    /\ logShredded \in BOOLEAN
    /\ \A p \in Proc : /\ pc[p] = "closed" <=> at[p] = None
                       /\ pc[p] = "line" => at[p] = "record"
                       /\ p \in orphans => pc[p] = "line"

Idle == [op |-> None, on |-> None]

Init ==
    /\ Log!Init
    /\ orphans = {}
    /\ cmd = [p \in Proc |-> Idle]
    /\ run = [p \in Proc |-> 0]
    /\ at = [p \in Proc |-> None]
    /\ todo = [p \in Proc |-> {}]
    /\ shredding = [p \in Proc |-> None]
    /\ wiped = [p \in Proc |-> {}]
    /\ digest = [p \in Proc |-> None]
    /\ content = [f \in File |-> "v1"]
    /\ vault \in BOOLEAN
    /\ runs = 0
    /\ stored = {}
    /\ effects = {}
    /\ failures = {}
    /\ raced = {}
    /\ logShredded = FALSE

-----------------------------------------------------------------------------
Present(t) == IF t = LogFile THEN file # <<>> ELSE content[t] # "gone"

GoesTo(p, step) == at' = [at EXCEPT ![p] = step]

Acted(p) == effects' = effects \cup {run[p]}

\* The runs that have read file t once and are going to read it again.
Rereading(t) == {run[p] : p \in {q \in Proc : at[q] = "digest" /\ cmd[q].on = t}}

CommandForgotten(p) ==                                            \* mutant
    /\ cmd' = [cmd EXCEPT ![p] = Idle]
    /\ UNCHANGED <<run, at, todo, shredding, wiped, digest>>

CommandEnds(p) ==
    /\ cmd' = [cmd EXCEPT ![p] = Idle]
    /\ run' = [run EXCEPT ![p] = 0]
    /\ GoesTo(p, None)
    /\ todo' = [todo EXCEPT ![p] = {}]
    /\ shredding' = [shredding EXCEPT ![p] = None]
    /\ wiped' = [wiped EXCEPT ![p] = {}]
    /\ digest' = [digest EXCEPT ![p] = None]

(***************************************************************************)
(* The log is opened before anything else is done (main.rs:151-153).       *)
(***************************************************************************)
Begin(p, k, c) ==
    /\ runs < MaxRuns
    /\ Log!Open(p, k)
    /\ runs' = runs + 1
    /\ cmd' = [cmd EXCEPT ![p] = c]
    /\ run' = [run EXCEPT ![p] = runs']
    /\ GoesTo(p, "start")
    /\ UNCHANGED <<todo, shredding, wiped, digest, world, stored, effects,
                   failures, raced, logShredded>>

\* "failed to open audit log": the command returns before it has done anything.
Refused(p, k) ==
    /\ pc[p] = "closed"
    /\ ~Log!Accepts(file, k)
    /\ UNCHANGED vars

\* verify, report, analyze, vault list and extract, and the other commands that
\* record nothing; a report or an extracted entry goes to a file that is not one
\* of File.
ReadOnly(p) ==
    /\ at[p] = "start"
    /\ cmd[p].op = "read"
    /\ GoesTo(p, "done")
    /\ UNCHANGED <<logVars, cmd, run, todo, shredding, wiped, digest, world,
                   history>>

-----------------------------------------------------------------------------
(***************************************************************************)
(* wipe and wipe-dir.  The directory is listed once; its files are then    *)
(* shredded, by the threads of one process (DirShred), in any order.       *)
(***************************************************************************)
List(p) ==
    /\ at[p] = "start"
    /\ \/ cmd[p].op = "wipe" /\ todo' = [todo EXCEPT ![p] = {cmd[p].on}]
       \/ /\ cmd[p].op = "wipe-dir"
          /\ todo' = [todo EXCEPT ![p] = {t \in InDir : Present(t)}]
    /\ GoesTo(p, "shred")
    /\ UNCHANGED <<logVars, cmd, run, shredding, wiped, digest, world, history>>

Kept(p, t) == todo[p]                                             \* mutant

Taken(p, t) == todo[p] \ {t}

\* The first write of shred_file: the file was opened under its own name.
ShredBegins(p) ==
    /\ at[p] = "shred"
    /\ shredding[p] = None
    /\ \E t \in todo[p] :
         /\ Present(t)
         /\ todo' = [todo EXCEPT ![p] = Taken(p, t)]
         /\ shredding' = [shredding EXCEPT ![p] = t]
         /\ raced' = raced \cup Rereading(t)
         /\ IF t = LogFile
            THEN /\ file' = <<Log!Garbled>>
                 /\ unterminated' = TRUE
                 /\ logShredded' = TRUE
                 /\ UNCHANGED content
            ELSE /\ content' = [content EXCEPT ![t] = "noise"]
                 /\ UNCHANGED <<file, unterminated, logShredded>>
    /\ Acted(p)
    /\ UNCHANGED <<pc, key, last_hash, next_sequence, pending, recorded, causes,
                   cmd, run, at, wiped, digest, vault, orphans, runs, stored,
                   failures>>

\* The name of t goes, and with a log the file that others have open.
Unlinked(t) ==
    /\ raced' = raced \cup Rereading(t)
    /\ IF t = LogFile
       THEN /\ file' = <<>>
            /\ unterminated' = FALSE
            /\ orphans' = {p \in Proc : pc[p] = "line"}
            /\ UNCHANGED content
       ELSE /\ content' = [content EXCEPT ![t] = "gone"]
            /\ UNCHANGED <<file, unterminated, orphans>>

ClaimedUnlooked(t) == TRUE                                         \* mutant

\* Renames and unlink succeed for one process only: the first to rename.
StillNamed(t) == Present(t)

ShredEnds(p) ==
    /\ shredding[p] # None
    /\ StillNamed(shredding[p])
    /\ Unlinked(shredding[p])
    /\ wiped' = [wiped EXCEPT ![p] = @ \cup {shredding[p]}]
    /\ shredding' = [shredding EXCEPT ![p] = None]
    /\ UNCHANGED <<pc, key, last_hash, next_sequence, pending, recorded, causes,
                   cmd, run, at, todo, digest, vault, runs, stored, effects,
                   failures, logShredded>>

(***************************************************************************)
(* shred_file returns an error: the file is not there, or is left as far   *)
(* as it was overwritten, under its own or a random name.  wipe-dir counts *)
(* it and goes on; wipe returns the error (Fails).                         *)
(***************************************************************************)
FileFails(p) ==
    /\ at[p] = "shred"
    /\ cmd[p].op = "wipe-dir"
    /\ \/ /\ shredding[p] # None
          /\ shredding' = [shredding EXCEPT ![p] = None]
          /\ \/ Unlinked(shredding[p])
             \/ UNCHANGED <<file, unterminated, content, raced, orphans>>
          /\ UNCHANGED todo
       \/ /\ shredding[p] = None
          /\ \E t \in todo[p] : todo' = [todo EXCEPT ![p] = Taken(p, t)]
          /\ UNCHANGED <<shredding, file, unterminated, content, raced, orphans>>
    /\ UNCHANGED <<pc, key, last_hash, next_sequence, pending, recorded, causes,
                   cmd, run, at, wiped, digest, vault, runs, stored, effects,
                   failures, logShredded>>

\* Ctrl-C: wipe-dir skips the files that are left and still returns Ok.
DirCancelled(p) ==
    /\ at[p] = "shred"
    /\ cmd[p].op = "wipe-dir"
    /\ todo[p] # {}
    /\ todo' = [todo EXCEPT ![p] = {}]
    /\ UNCHANGED <<logVars, cmd, run, at, shredding, wiped, digest, world,
                   history>>

DoneUnrecorded(p) == IF wiped[p] = {} THEN "done" ELSE "record"   \* mutant

AfterShred(p) == "record"

\* shred_file, or shred_directory, has returned Ok.
ShredReturns(p) ==
    /\ at[p] = "shred"
    /\ shredding[p] = None
    /\ todo[p] = {}
    /\ cmd[p].op = "wipe" => wiped[p] = {cmd[p].on}
    /\ GoesTo(p, AfterShred(p))
    /\ UNCHANGED <<logVars, cmd, run, todo, shredding, wiped, digest, world,
                   history>>

-----------------------------------------------------------------------------
(***************************************************************************)
(* The vault commands that record (main.rs:339-371).  vault add reads the  *)
(* source to encrypt it and once more for the digest of its entry.         *)
(***************************************************************************)
VaultCreate(p) ==
    /\ at[p] = "start" /\ cmd[p].op = "vault-create"
    /\ ~vault
    /\ vault' = TRUE
    /\ Acted(p)
    /\ GoesTo(p, "record")
    /\ UNCHANGED <<logVars, cmd, run, todo, shredding, wiped, digest, content,
                   orphans, runs, stored, failures, raced, logShredded>>

VaultDestroy(p) ==
    /\ at[p] = "start" /\ cmd[p].op = "vault-destroy"
    /\ vault
    /\ vault' = FALSE
    /\ Acted(p)
    /\ GoesTo(p, "record")
    /\ UNCHANGED <<logVars, cmd, run, todo, shredding, wiped, digest, content,
                   orphans, runs, stored, failures, raced, logShredded>>

VaultAdd(p) ==
    /\ at[p] = "start" /\ cmd[p].op = "vault-add"
    /\ vault
    /\ content[cmd[p].on] # "gone"
    /\ stored' = stored \cup {[by |-> run[p], is |-> content[cmd[p].on]]}
    /\ Acted(p)
    /\ GoesTo(p, "digest")
    /\ UNCHANGED <<logVars, cmd, run, todo, shredding, wiped, digest, world,
                   runs, failures, raced, logShredded>>

Digest(p) ==
    /\ at[p] = "digest"
    /\ content[cmd[p].on] # "gone"
    /\ digest' = [digest EXCEPT ![p] = content[cmd[p].on]]
    /\ GoesTo(p, "record")
    /\ UNCHANGED <<logVars, cmd, run, todo, shredding, wiped, world, history>>

-----------------------------------------------------------------------------
\* audit.record, in its two writes, and the printed OK.
RecordLine(p) ==
    /\ at[p] = "record"
    /\ \E entropy \in Measured(p) : Log!RecordLine(p, Entry(p, entropy))
    /\ UNCHANGED <<cmdVars, world, history>>

RecordNewline(p) ==
    /\ \/ p \notin orphans /\ Log!RecordNewline(p)
       \/ /\ p \in orphans           \* the newline goes to the unlinked file
          /\ pc' = [pc EXCEPT ![p] = "open"]
          /\ last_hash' = Log!HashAdvanced(p)
          /\ next_sequence' = [next_sequence EXCEPT ![p] = @ + 1]
          /\ recorded' = Append(recorded, pending[p].details)
          /\ pending' = [pending EXCEPT ![p] = Log!NoEntry]
          /\ UNCHANGED <<file, unterminated, key, causes>>
    /\ GoesTo(p, "done")
    /\ orphans' = orphans \ {p}
    /\ UNCHANGED <<cmd, run, todo, shredding, wiped, digest, content, vault,
                   history>>

Exit(p) ==
    /\ at[p] = "done"
    /\ Log!Exit(p)
    /\ CommandEnds(p)
    /\ UNCHANGED <<world, history>>

(***************************************************************************)
(* The command ends early: it returns an error, or the process is killed.  *)
(* A file that was being shredded keeps what was overwritten.              *)
(***************************************************************************)
Fails(p) ==
    /\ at[p] \notin {None, "done"}
    /\ Log!Exit(p) \/ (at[p] = "record" /\ Log!RecordTorn(p))
    /\ CommandEnds(p)
    /\ failures' = failures \cup {run[p]}
    /\ orphans' = orphans \ {p}
    /\ UNCHANGED <<content, vault, runs, stored, effects, raced, logShredded>>

\* The owner of a file changes it.
Edit(f) ==
    /\ content[f] = "v1"
    /\ content' = [content EXCEPT ![f] = "v2"]
    /\ raced' = raced \cup Rereading(f)
    /\ UNCHANGED <<logVars, cmdVars, vault, orphans, runs, stored, effects,
                   failures, logShredded>>

Work(p) ==
    \/ ReadOnly(p) \/ List(p)
    \/ ShredBegins(p) \/ ShredEnds(p) \/ FileFails(p) \/ ShredReturns(p)
    \/ VaultCreate(p) \/ VaultDestroy(p) \/ VaultAdd(p) \/ Digest(p)
    \/ RecordLine(p) \/ RecordNewline(p) \/ Exit(p) \/ Fails(p)

Next ==
    \/ \E p \in Proc :
         \/ \E k \in Key : Refused(p, k) \/ \E c \in Command : Begin(p, k, c)
         \/ Work(p)
         \/ DirCancelled(p)
    \/ \E f \in File : Edit(f)

Spec == Init /\ [][Next]_vars

\* The operating system runs every process, and the calls return.
FairSpec == Spec /\ \A p \in Proc : WF_vars(Work(p))

-----------------------------------------------------------------------------
(***************************************************************************)
(* Properties.                                                             *)
(***************************************************************************)
Replays == \E k \in Key : Log!Accepts(file, k)

(***************************************************************************)
(* A log that no command was given to destroy is refused only if a command *)
(* overlapped with another, was interrupted while it wrote its entry, or   *)
(* was a wipe that recorded an entropy which is read back as another       *)
(* number.  Whatever else commands do and wherever else they fail, the     *)
(* next one can start (main.rs:151-153, 213, 259, 343-370).                *)
(***************************************************************************)
LogOutlivesCommands == causes = {} /\ ~logShredded => Replays

(***************************************************************************)
(* No overwritten file and no change of the vault goes unlogged: every run *)
(* that made one is still on its way to its entry, has it, or was killed   *)
(* or returned an error, and its entry stays as long as no one shreds the  *)
(* log, runs beside another, or is stopped in an entry (main.rs:206-217,   *)
(* 252-267, 337-371).                                                      *)
(***************************************************************************)
EffectsLogged ==
    \A r \in effects \ failures :
        \/ \E p \in Proc : run[p] = r /\ at[p] # "done"
        \/ LET log == IF causes \subseteq {"inexact"} /\ ~logShredded
                      THEN [i \in DOMAIN file |-> file[i].details]
                      ELSE recorded
           IN  \E i \in DOMAIN log : log[i].data.run = r

(***************************************************************************)
(* What the log says happened did happen: a file an entry counts as wiped  *)
(* is gone, no file is counted by two runs that raced for it, and the      *)
(* digest of vault-add is that of what was encrypted unless the source     *)
(* changed between the two reads (main.rs:213-217, 259-267, 348).          *)
(***************************************************************************)
EntriesTrue ==
    \A i \in 1..Len(recorded) :
        LET e == recorded[i].data
        IN  /\ \A t \in e.wiped \cap File : content[t] = "gone"
            /\ \A j \in 1..Len(recorded) :
                  recorded[j].data.wiped \cap e.wiped \cap File # {} => i = j
            /\ recorded[i].op.operation = <<"vault-add">> =>
                  \/ [by |-> e.run, is |-> e.digest] \in stored
                  \/ e.run \in raced

(***************************************************************************)
(* Every command that has opened the log comes to its end.                 *)
(***************************************************************************)
EveryRunEnds == \A p \in Proc : (pc[p] # "closed") ~> (pc[p] = "closed")
=============================================================================
