------------------------------ MODULE AuditLog ------------------------------
(***************************************************************************)
(* The hash-chained audit log (audit/mod.rs): several processes, or one    *)
(* after the other, open the same log file, replay it, and append entries; *)
(* a process may stop between the two writes of an entry, the machine may  *)
(* lose power, and someone without a key may alter the file.               *)
(*                                                                         *)
(* The file is a sequence of text lines, the last of which may lack its    *)
(* newline.  A line is an entry or something that does not parse.  Blank   *)
(* lines, which replay skips, are left out.  The HMAC is ideal: a tag is   *)
(* the key and the bytes that are signed, so two tags are equal exactly    *)
(* when these are; what different entries sign the same bytes is modelled. *)
(***************************************************************************)
EXTENDS Naturals, Sequences, SequencesExt

CONSTANTS
    Proc,          \* processes using the log
    Key,           \* HMAC keys that processes derive from their --audit-key
    Op,            \* operations and targets of the entries recorded, each a
                   \* text cut at its bars: <<"a", "b">> is the text a|b
    Data,          \* what else an entry says: its time and its details
    MaxEntries     \* bound: lines in the file, and entries recorded

ASSUME ProcAssumption == Proc # {}
ASSUME KeyAssumption == Key # {}
ASSUME MaxEntriesAssumption == MaxEntries \in Nat

(***************************************************************************)
(* What an entry says.  The details of a wipe hold the measured entropy as *)
(* an f64, printed in decimal.  serde_json is built without float_roundtrip*)
(* (Cargo.toml:24), so a number of 17 digits may be read back as another   *)
(* f64: "reread" stands for what such an "inexact" one is read as.  Entries *)
(* without such a number count as "exact".                                 *)
(***************************************************************************)
Float == {"exact", "inexact", "reread"}

Details == [op : Op, data : Data, entropy : Float]

Reparse(d) ==
    IF d.entropy = "inexact" THEN [d EXCEPT !.entropy = "reread"] ELSE d

GENESIS_HASH == <<>>

(***************************************************************************)
(* canonical_signing_bytes joins the fields with bars and escapes none.    *)
(* Number, time and hash hold no bar, and the details are one JSON object, *)
(* none of whose tails is one: these fields are where they are.  But where *)
(* the operation ends and the target begins is not signed.                 *)
(***************************************************************************)
Joined(op) == op.operation \o op.target

BytesWithoutDetails(seq, d, prev) == <<seq, Joined(d.op), prev>>   \* mutant

SigningBytes(seq, d, prev) == <<seq, Joined(d.op), d.data, d.entropy, prev>>

Tag(k, seq, details, prev) == <<k, SigningBytes(seq, details, prev)>>

Entry(seq, details, prev, tag) ==
    [parses |-> TRUE, sequence |-> seq, details |-> details,
     prev_hash |-> prev, entry_hmac |-> tag]

Garbled == [parses |-> FALSE]

(***************************************************************************)
(* replay_and_verify over the lines of a file: each parses, numbers,       *)
(* links and authenticates.                                                *)
(***************************************************************************)
LastHash(lines) ==
    IF lines = <<>> THEN GENESIS_HASH ELSE lines[Len(lines)].entry_hmac

PrevHash(lines, i) ==
    IF i = 1 THEN GENESIS_HASH ELSE lines[i-1].entry_hmac

Accepts(lines, hmac_key) ==
    /\ \A i \in 1..Len(lines) : lines[i].parses
    /\ \A i \in 1..Len(lines) :
         /\ lines[i].sequence = i - 1
         /\ lines[i].prev_hash = PrevHash(lines, i)
         /\ lines[i].entry_hmac =
               Tag(hmac_key, lines[i].sequence, Reparse(lines[i].details),
                   lines[i].prev_hash)

-----------------------------------------------------------------------------
VARIABLES
    file,          \* the lines of the log; a missing file is an empty one
    unterminated,  \* the last line has no newline yet
    pc,            \* per process: "closed", "open", or "line" between the
                   \* two writes of record
    key,           \* AuditLog.hmac_key
    last_hash,     \* AuditLog.last_hash
    next_sequence, \* AuditLog.next_sequence
    pending,       \* the details and the tag of the entry being recorded
    recorded,      \* history: the details of the entries record returned Ok for
    causes         \* history: what happened that can make replay fail

procVars == <<pc, key, last_hash, next_sequence, pending>>

vars == <<file, unterminated, procVars, recorded, causes>>

Cause == {"interrupted", "overlap", "inexact", "altered"}

NoKey == "none"

NoEntry == [details |-> <<>>, tag |-> GENESIS_HASH]

TypeOK ==
    /\ Len(file) <= MaxEntries
    /\ unterminated => file # <<>>
    /\ pc \in [Proc -> {"closed", "open", "line"}]
    /\ key \in [Proc -> Key \cup {NoKey}]
    /\ next_sequence \in [Proc -> Nat]
    /\ causes \subseteq Cause

Init ==
    /\ file = <<>>
    /\ unterminated = FALSE
    /\ pc = [p \in Proc |-> "closed"]
    /\ key = [p \in Proc |-> NoKey]
    /\ last_hash = [p \in Proc |-> GENESIS_HASH]
    /\ next_sequence = [p \in Proc |-> 0]
    /\ pending = [p \in Proc |-> NoEntry]
    /\ recorded = <<>>
    /\ causes = {}

\* The process of every p in S ends, and its AuditLog with it.
End(S) ==
    /\ pc' = [p \in Proc |-> IF p \in S THEN "closed" ELSE pc[p]]
    /\ key' = [p \in Proc |-> IF p \in S THEN NoKey ELSE key[p]]
    /\ last_hash' = [p \in Proc |-> IF p \in S THEN GENESIS_HASH ELSE last_hash[p]]
    /\ next_sequence' = [p \in Proc |-> IF p \in S THEN 0 ELSE next_sequence[p]]
    /\ pending' = [p \in Proc |-> IF p \in S THEN NoEntry ELSE pending[p]]

(***************************************************************************)
(* AuditLog::open.  A log that does not replay is refused, nothing changes *)
(* and the command ends (main.rs:152-153).                                 *)
(***************************************************************************)
Open(p, k) ==
    /\ pc[p] = "closed"
    /\ Accepts(file, k)
    /\ pc' = [pc EXCEPT ![p] = "open"]
    /\ key' = [key EXCEPT ![p] = k]
    /\ last_hash' = [last_hash EXCEPT ![p] = LastHash(file)]
    /\ next_sequence' = [next_sequence EXCEPT ![p] = Len(file)]
    /\ UNCHANGED <<file, unterminated, pending, recorded, causes>>

(***************************************************************************)
(* Text appended to the file starts a line of its own only when the last   *)
(* one was terminated; otherwise the two run together and do not parse.    *)
(***************************************************************************)
Overwriting(line) == <<line>>                                     \* mutant

Replacing(line) ==                                                \* mutant
    IF unterminated THEN [file EXCEPT ![Len(file)] = line]
                    ELSE Append(file, line)

WrittenTwice(line) == file \o <<line, line>>                      \* mutant

Appending(line) ==
    IF unterminated THEN [file EXCEPT ![Len(file)] = Garbled]
                    ELSE Append(file, line)

(***************************************************************************)
(* record, up to the write of the line: the entry is signed with what the  *)
(* process remembers of the log, which is read once, by open.              *)
(***************************************************************************)
RecordLine(p, d) ==
    LET tag == Tag(key[p], next_sequence[p], d, last_hash[p])
    IN  /\ pc[p] = "open"
        /\ Len(file) < MaxEntries
        /\ Len(recorded) < MaxEntries
        /\ file' = Appending(Entry(next_sequence[p], d, last_hash[p], tag))
        /\ unterminated' = TRUE
        /\ pc' = [pc EXCEPT ![p] = "line"]
        /\ pending' = [pending EXCEPT ![p] = [details |-> d, tag |-> tag]]
        /\ causes' = causes
              \cup {c \in {"overlap"} : \E q \in Proc \ {p} : pc[q] # "closed"}
              \cup {c \in {"inexact"} : d.entropy = "inexact"}
        /\ UNCHANGED <<key, last_hash, next_sequence, recorded>>

HashForgotten(p) == last_hash                                     \* mutant

HashAdvanced(p) == [last_hash EXCEPT ![p] = pending[p].tag]

(***************************************************************************)
(* The second write, the newline, and the update of the in-memory state.   *)
(* After another process's newline it only adds a blank line.              *)
(***************************************************************************)
RecordNewline(p) ==
    /\ pc[p] = "line"
    /\ unterminated' = FALSE
    /\ pc' = [pc EXCEPT ![p] = "open"]
    /\ last_hash' = HashAdvanced(p)
    /\ next_sequence' = [next_sequence EXCEPT ![p] = @ + 1]
    /\ recorded' = Append(recorded, pending[p].details)
    /\ pending' = [pending EXCEPT ![p] = NoEntry]
    /\ UNCHANGED <<file, key, causes>>

\* The line is written only in part (the disk is full): record fails and
\* the command ends.
RecordTorn(p) ==
    /\ pc[p] = "open"
    /\ Len(file) < MaxEntries
    /\ file' = Appending(Garbled)
    /\ unterminated' = TRUE
    /\ End({p})
    /\ causes' = causes \cup {"interrupted"}
    /\ UNCHANGED recorded

\* The command ends: done, failed before it wrote, or killed.
Exit(p) ==
    /\ pc[p] # "closed"
    /\ End({p})
    /\ causes' = IF pc[p] = "line" THEN causes \cup {"interrupted"} ELSE causes
    /\ UNCHANGED <<file, unterminated, recorded>>

(***************************************************************************)
(* record never syncs: a power failure may cut the file at any byte.       *)
(***************************************************************************)
PowerLoss ==
    /\ \E n \in 0..Len(file) :
         LET kept == SubSeq(file, 1, n)
         IN  \/ /\ file' = kept
                /\ \/ unterminated' = (n > 0)
                   \/ n < Len(file) /\ unterminated' = FALSE
             \/ /\ n < Len(file)
                /\ file' = Append(kept, Garbled)
                /\ unterminated' = TRUE
    /\ End(Proc)
    /\ causes' = causes \cup {"interrupted"}
    /\ UNCHANGED recorded

(***************************************************************************)
(* One alteration of the file by someone who has the log as it stands but  *)
(* no key, and so no tags but those in it: any field of an entry changed,  *)
(* a line spoilt, removed, or replaced by a copy of another, a copy put in *)
(* between, two lines swapped.                                             *)
(***************************************************************************)
\* All the ways to split a text with bars into an operation and a target.
Splits(text) ==
    {[operation |-> SubSeq(text, 1, n), target |-> SubSeq(text, n+1, Len(text))] :
        n \in 1..(Len(text) - 1)}

Forgeable == [op : UNION {Splits(Joined(o)) : o \in Op}, data : Data,
              entropy : Float]

TagsIn(lines) ==
    {lines[i].entry_hmac : i \in {j \in 1..Len(lines) : lines[j].parses}}

Forged(line, tags) ==
    LET n == line.sequence   d == line.details
        h == line.prev_hash  t == line.entry_hmac
    IN  {Entry(n, c, h, t) : c \in Forgeable} \cup
        {Entry(c, d, h, t) : c \in 0..Len(file)} \cup
        {Entry(n, d, c, t) : c \in tags} \cup
        {Entry(n, d, h, c) : c \in tags}

Alter ==
    /\ "altered" \notin causes
    /\ causes' = causes \cup {"altered"}
    /\ UNCHANGED <<procVars, recorded>>
    /\ \E i, j \in 1..Len(file) :
         \/ /\ file[i].parses
            /\ \E e \in Forged(file[i], TagsIn(file) \cup {GENESIS_HASH}) :
                  file' = [file EXCEPT ![i] = e]
         \/ file' = [file EXCEPT ![i] = Garbled]
         \/ file' = RemoveAt(file, i)
         \/ file' = [file EXCEPT ![i] = file[j]]
         \/ Len(file) < MaxEntries /\ file' = InsertAt(file, i, file[j])
         \/ file' = [file EXCEPT ![i] = file[j], ![j] = file[i]]
    /\ file' # file
    /\ unterminated' = (unterminated /\ file' # <<>>)

Step(p) ==
    \/ \E k \in Key : Open(p, k)
    \/ \E d \in Details : d.entropy # "reread" /\ RecordLine(p, d)
    \/ RecordNewline(p)
    \/ RecordTorn(p)
    \/ Exit(p)

Next == (\E p \in Proc : Step(p)) \/ PowerLoss \/ Alter

Spec == Init /\ [][Next]_vars

-----------------------------------------------------------------------------
(***************************************************************************)
(* Properties.                                                             *)
(***************************************************************************)
Replays == \E k \in Key : Accepts(file, k)

(***************************************************************************)
(* A log stops replaying only if one of four things happened to it; as     *)
(* long as single processes record exact entries one after the other and   *)
(* are left to finish, it replays at every moment (audit/mod.rs:42-156).   *)
(***************************************************************************)
RejectionExplained == causes = {} => Replays

(***************************************************************************)
(* Every entry for which record returned Ok is in the file, in order and   *)
(* once; the only other entry the file may hold is the one whose newline   *)
(* is still to come (audit/mod.rs:62-98).                                  *)
(***************************************************************************)
OkMeansLogged ==
    causes \subseteq {"inexact"} =>
        /\ \A i \in 1..Len(recorded) : file[i].details = recorded[i]
        /\ \/ Len(file) = Len(recorded)
           \/ /\ Len(file) = Len(recorded) + 1
              /\ \E p \in Proc : /\ pc[p] = "line"
                                /\ pending[p].details = file[Len(file)].details

(***************************************************************************)
(* Until processes overlap, one is interrupted or the file is altered, the *)
(* log is a journal: record adds its entry behind those that are there, in *)
(* two writes that nobody comes between, and returns Ok for no other one   *)
(* (audit/mod.rs:62-98).                                                   *)
(***************************************************************************)
Trusted == causes \subseteq {"inexact"}

Contents == IF Trusted THEN [i \in 1..Len(file) |-> file[i].details] ELSE <<>>

J == INSTANCE Journal WITH
         Item <- Details, log <- Contents, acked <- recorded, trusted <- Trusted

ImplementsJournal == J!Spec

\* What an entry says when it is read, but for where its operation ends.
Says(line) ==
    LET d == Reparse(line.details)
    IN  [sequence |-> line.sequence, text |-> Joined(d.op), data |-> d.data,
         entropy |-> d.entropy, prev_hash |-> line.prev_hash,
         entry_hmac |-> line.entry_hmac]

(***************************************************************************)
(* Whoever alters a log that replays, knowing nothing but the log, is      *)
(* found out by the next replay, unless they only cut entries off its end  *)
(* or moved the bar between an operation and its target: each entry that   *)
(* is left stands where it stood and signs the same bytes (audit/mod.rs:   *)
(* 100-183).                                                               *)
(***************************************************************************)
TamperEvident ==
    [][Alter => \A k \in Key :
          Accepts(file, k) /\ Accepts(file', k) =>
              /\ Len(file') <= Len(file)
              /\ \A i \in 1..Len(file') : Says(file'[i]) = Says(file[i])]_vars

(***************************************************************************)
(* A log that is refused stays refused whatever the program does next: no  *)
(* command repairs it, and every command opens it first (main.rs:151-153). *)
(***************************************************************************)
RejectionIsPermanent ==
    [][\A k \in Key : ~Accepts(file, k) /\ Accepts(file', k) =>
                         ~\E p \in Proc : Step(p)]_vars

(***************************************************************************)
(* "Returns an error if any entry's tag doesn't match or the chain of      *)
(* prev_hash links is broken -- either indicates tampering"                *)
(* (audit/mod.rs:101-103), so a log one process wrote and nobody altered   *)
(* replays, whatever numbers its entries hold.                             *)
(***************************************************************************)
NumbersReplay == causes \subseteq {"inexact"} => Replays
=============================================================================
