----------------------------- MODULE Cli_proofs -----------------------------
(***************************************************************************)
(* Proofs about Cli, for any number of processes, keys, files and runs and *)
(* any directory.  What AuditLog_proofs shows of the log is used here of   *)
(* the log of the commands.                                                *)
(***************************************************************************)
EXTENDS Cli, TLAPS

LogP == INSTANCE AuditLog_proofs WITH
    Op <- [operation : {<<c.op>> : c \in Command},
           target : {<<t>> : t \in Target \cup {None}}],
    Data <- [run : Run, wiped : SUBSET Target, digest : Content \cup {None}]

-----------------------------------------------------------------------------
(***************************************************************************)
(* The invariant.                                                          *)
(***************************************************************************)
\* As long as no command is given the log to shred, the log and its processes
\* are those of AuditLog, and nobody writes to an unlinked log.
LogInv ==
    /\ DOMAIN pending = Proc
    /\ LogP!IsLines(recorded)
    /\ ~logShredded => LogP!IInv /\ orphans = {}

\* A process has a command and a run of its own, or none.
RunInv ==
    /\ \A p \in Proc : at[p] = None => run[p] = 0
    /\ \A p \in Proc : at[p] # None => run[p] \in 1..runs /\ cmd[p] \in Command
    /\ \A p, q \in Proc : at[p] # None /\ run[p] = run[q] => p = q

\* Which command is at which step, and what it has not done before it.
StageInv ==
    \A p \in Proc :
        /\ at[p] = "start" => run[p] \notin effects
        /\ at[p] = "shred" => cmd[p].op \in {"wipe", "wipe-dir"}
        /\ at[p] = "digest" => cmd[p].op = "vault-add"
        /\ shredding[p] # None => at[p] = "shred"
        /\ shredding[p] = LogFile => logShredded

\* Between the two writes a process has the entry in mind that it has earned.
LineInv ==
    \A p \in Proc : pc[p] = "line" =>
        \E entropy \in Log!Float : pending[p].details = Entry(p, entropy)

\* A run that changed something and did not fail is under way or recorded.
EffectInv ==
    \A r \in effects \ failures :
        \/ \E p \in Proc : run[p] = r /\ at[p] # "done"
        \/ \E i \in 1..Len(recorded) : recorded[i].data.run = r

\* Files counted as wiped are gone, and each is counted once.
WipedInv ==
    /\ \A p \in Proc : \A t \in wiped[p] \cap File : content[t] = "gone"
    /\ \A i \in 1..Len(recorded) :
          \A t \in recorded[i].data.wiped \cap File : content[t] = "gone"
    /\ \A p, q \in Proc : p # q => wiped[p] \cap wiped[q] \cap File = {}
    /\ \A i, j \in 1..Len(recorded) :
          recorded[i].data.wiped \cap recorded[j].data.wiped \cap File # {} => i = j
    /\ \A p \in Proc : \A i \in 1..Len(recorded) :
          at[p] # "done" => wiped[p] \cap recorded[i].data.wiped \cap File = {}

Stored(r, c) == r \in raced \/ [by |-> r, is |-> c] \in stored

\* What vault-add stored is what it goes on to read and to record.
AddInv ==
    /\ \A p \in Proc : at[p] = "digest" => Stored(run[p], content[cmd[p].on])
    /\ \A p \in Proc :
          at[p] = "record" /\ cmd[p].op = "vault-add" => Stored(run[p], digest[p])
    /\ \A i \in 1..Len(recorded) :
          recorded[i].op.operation = <<"vault-add">> =>
              Stored(recorded[i].data.run, recorded[i].data.digest)

IInv == /\ TypeOK /\ LogInv /\ RunInv /\ StageInv /\ LineInv /\ EffectInv
        /\ WipedInv /\ AddInv

-----------------------------------------------------------------------------
(***************************************************************************)
(* The log.                                                                *)
(***************************************************************************)
(* What commands do to the log is what AuditLog says, and keeps what is    *)
(* proved of it.                                                           *)
LEMMA LogSteps ==
    ASSUME LogP!IInv, NEW p \in Proc,
           \/ \E k \in Key : Log!Open(p, k)
           \/ \E d \in LogP!Details : d.entropy # "reread" /\ Log!RecordLine(p, d)
           \/ Log!RecordNewline(p)
           \/ Log!RecordTorn(p)
           \/ Log!Exit(p)
    PROVE  LogP!IInv'
<1> USE ProcAssumption, KeyAssumption, BoundsAssumption
<1>1. ASSUME NEW k \in Key, Log!Open(p, k) PROVE LogP!IInv'
  <2>1. \A s : Log!LastHash(s) = LogP!LastHash(s)
      BY DEF Log!LastHash, LogP!LastHash, Log!GENESIS_HASH, LogP!GENESIS_HASH
  <2>2. \A s : Log!Accepts(s, k) <=> LogP!Accepts(s, k)
      BY DEF Log!Accepts, LogP!Accepts, Log!PrevHash, LogP!PrevHash, Log!Tag,
             LogP!Tag, Log!SigningBytes, LogP!SigningBytes, Log!Joined,
             LogP!Joined, Log!Reparse, LogP!Reparse, Log!GENESIS_HASH,
             LogP!GENESIS_HASH
  <2>3. LogP!Open(p, k)
      BY <1>1, <2>1, <2>2 DEF Log!Open, LogP!Open
  <2>4. QED BY <2>3, LogP!OpenInv
<1>2. ASSUME NEW d \in LogP!Details, d.entropy # "reread", Log!RecordLine(p, d)
      PROVE  LogP!IInv'
  <2>1. \A k, n, h : Log!Tag(k, n, d, h) = LogP!Tag(k, n, d, h)
      BY DEF Log!Tag, LogP!Tag, Log!SigningBytes, LogP!SigningBytes, Log!Joined,
             LogP!Joined
  <2>2. LogP!RecordLine(p, d)
      BY <1>2, <2>1 DEF Log!RecordLine, LogP!RecordLine, Log!Entry, LogP!Entry,
                  Log!Appending, LogP!Appending, Log!Garbled, LogP!Garbled
  <2>3. QED BY <1>2, <2>2, LogP!RecordLineInv
<1>3. CASE Log!RecordNewline(p)
  <2>1. LogP!RecordNewline(p)
      BY <1>3 DEF Log!RecordNewline, LogP!RecordNewline, Log!HashAdvanced,
                  LogP!HashAdvanced, Log!NoEntry, LogP!NoEntry,
                  Log!GENESIS_HASH, LogP!GENESIS_HASH
  <2>2. QED BY <2>1, LogP!RecordNewlineInv
<1>4. Log!End({p}) <=> LogP!End({p})
    BY DEF Log!End, LogP!End, Log!NoKey, LogP!NoKey, Log!NoEntry, LogP!NoEntry,
           Log!GENESIS_HASH, LogP!GENESIS_HASH
<1>5. CASE Log!RecordTorn(p)
  <2>1. LogP!RecordTorn(p)
      BY <1>4, <1>5 DEF Log!RecordTorn, LogP!RecordTorn, Log!Appending,
                        LogP!Appending, Log!Garbled, LogP!Garbled
  <2>2. QED BY <2>1, LogP!RecordTornInv
<1>6. CASE Log!Exit(p)
  <2>1. LogP!Exit(p)
      BY <1>4, <1>6 DEF Log!Exit, LogP!Exit
  <2>2. QED BY <2>1, LogP!ExitInv
<1>7. QED BY <1>1, <1>2, <1>3, <1>5, <1>6

(* A step that leaves the log alone keeps what is proved of it.            *)
LEMMA LogKept ==
    ASSUME LogInv, UNCHANGED <<logVars, orphans, logShredded>>
    PROVE  LogInv'
<1>1. ASSUME LogP!IInv PROVE LogP!IInv'
  <2>1. UNCHANGED LogP!vars
      BY DEF logVars, LogP!vars, LogP!procVars
  <2>2. QED BY <1>1, <2>1, LogP!StepInv, ProcAssumption, KeyAssumption,
               BoundsAssumption
<1>2. QED BY <1>1 DEF LogInv, logVars

(* What an active process would record is an entry of the log.             *)
LEMMA EntryIsDetails ==
    ASSUME TypeOK, RunInv, NEW p \in Proc, at[p] # None, NEW entropy \in Log!Float
    PROVE  /\ Entry(p, entropy) \in LogP!Details
           /\ Entry(p, entropy).op.operation = <<cmd[p].op>>
           /\ Entry(p, entropy).data = [run |-> run[p], wiped |-> wiped[p],
                                        digest |-> digest[p]]
           /\ Entry(p, entropy).entropy = entropy
<1>1. Entry(p, entropy).data \in [run : Run, wiped : SUBSET Target,
                                  digest : Content \cup {None}]
  <2>1. run[p] \in Run
      BY BoundsAssumption DEF TypeOK, RunInv, Run
  <2>2. wiped[p] \in SUBSET Target /\ digest[p] \in Content \cup {None}
      BY DEF TypeOK
  <2>3. QED BY <2>1, <2>2 DEF Entry
<1>2. Entry(p, entropy).op \in [operation : {<<c.op>> : c \in Command},
                                target : {<<t>> : t \in Target \cup {None}}]
  <2>1. cmd[p] \in Command
      BY DEF RunInv
  <2>2. cmd[p].op = "wipe" => cmd[p].on \in Target
      BY <2>1 DEF Command
  <2>3. QED BY <2>1, <2>2 DEF Entry
<1>3. QED BY <1>1, <1>2 DEF Entry, LogP!Details, LogP!Float, Log!Float

-----------------------------------------------------------------------------
(* The invariant holds initially. *)
THEOREM InitInv == Init => IInv
<1> SUFFICES ASSUME Init PROVE IInv
    OBVIOUS
<1>1. LogP!Init
    BY DEF Init, Log!Init, LogP!Init, Log!NoKey, LogP!NoKey, Log!NoEntry,
           LogP!NoEntry, Log!GENESIS_HASH, LogP!GENESIS_HASH
<1>2. LogP!IInv
    BY <1>1, LogP!InitInv, ProcAssumption, KeyAssumption, BoundsAssumption
<1>3. LogInv
    BY <1>2 DEF Init, LogInv, LogP!IInv, LogP!FileInv
<1>4. pc = [p \in Proc |-> "closed"] /\ recorded = <<>>
    BY DEF Init, Log!Init
<1>5. TypeOK
  <2>1. runs \in 0..MaxRuns /\ run \in [Proc -> 0..MaxRuns]
      BY BoundsAssumption DEF Init
  <2>2. effects \cup failures \cup raced \subseteq 1..runs
      BY DEF Init
  <2>3. stored \subseteq [by : Run, is : Content \ {"gone"}]
      BY DEF Init
  <2>4. vault \in BOOLEAN /\ logShredded \in BOOLEAN
      BY DEF Init
  <2>5. QED BY <1>4, <2>1, <2>2, <2>3, <2>4
            DEF Init, TypeOK, Idle, Content, Version
<1>6. RunInv /\ StageInv /\ LineInv /\ EffectInv /\ WipedInv /\ AddInv
    BY <1>4, FileAssumption
    DEF Init, RunInv, StageInv, LineInv, EffectInv, WipedInv, AddInv, Idle, LogFile, None
<1>7. QED BY <1>3, <1>5, <1>6 DEF IInv

-----------------------------------------------------------------------------
(***************************************************************************)
(* Steps that concern their process alone.                                 *)
(***************************************************************************)
(* A step to shredding, to the entry or past it, when nothing is changed.  *)
LEMMA LocalInv ==
    ASSUME IInv, NEW p \in Proc, at[p] \in {"start", "shred"},
           NEW s \in {"shred", "record", "done"},
           s = "shred" => cmd[p].op \in {"wipe", "wipe-dir"},
           s = "record" => cmd[p].op # "vault-add",
           s = "done" => run[p] \notin effects,
           s # "shred" => shredding[p] = None,
           GoesTo(p, s), todo' \in [Proc -> SUBSET Target],
           UNCHANGED <<logVars, cmd, run, shredding, wiped, digest, world, history>>
    PROVE  IInv'
<1>1. /\ at' = [at EXCEPT ![p] = s]
      /\ UNCHANGED <<logVars, cmd, run, shredding, wiped, digest, world, history>>
    BY DEF GoesTo
<1> USE <1>1 DEF IInv, logVars, world, history, None
<1>2. TypeOK'
    BY DEF TypeOK
<1>3. LogInv'
    BY LogKept
<1>4. RunInv' /\ StageInv' /\ LineInv'
  <2>1. RunInv'
      BY DEF TypeOK, RunInv
  <2>2. StageInv'
      BY DEF TypeOK, StageInv
  <2>3. LineInv'
    <3>1. \A q \in Proc : \A x : Entry(q, x)' = Entry(q, x)
        BY DEF Entry
    <3>2. QED BY <3>1 DEF LineInv
  <2>4. QED BY <2>1, <2>2, <2>3
<1>5. EffectInv'
  <2>1. ASSUME NEW r \in effects \ failures, NEW q \in Proc, run[q] = r,
               at[q] # "done"
        PROVE  at'[q] # "done"
    <3>1. CASE q = p
        BY <2>1, <3>1 DEF TypeOK
    <3>2. CASE q # p
        BY <2>1, <3>2 DEF TypeOK
    <3>3. QED BY <3>1, <3>2
  <2>2. QED BY <2>1 DEF EffectInv
<1>6. WipedInv'
    BY DEF TypeOK, WipedInv
<1>7. AddInv'
    BY DEF TypeOK, AddInv, Stored
<1>8. QED BY <1>2, <1>3, <1>4, <1>5, <1>6, <1>7

(* Listing what is to be shredded. *)
LEMMA ListInv ==
    ASSUME IInv, NEW p \in Proc, List(p)
    PROVE  IInv'
<1>1. cmd[p] \in Command /\ todo \in [Proc -> SUBSET Target]
    BY DEF List, IInv, TypeOK, RunInv
<1>2. cmd[p].op = "wipe" => cmd[p].on \in Target
    BY <1>1 DEF Command
<1>3. todo' \in [Proc -> SUBSET Target] /\ cmd[p].op \in {"wipe", "wipe-dir"}
    BY <1>1, <1>2, InDirAssumption DEF List
<1>4. QED BY <1>3, LocalInv DEF List

(* The other steps that only move on. *)
LEMMA MovesOnInv ==
    ASSUME IInv, NEW p \in Proc, ReadOnly(p) \/ ShredReturns(p) \/ DirCancelled(p)
    PROVE  IInv'
<1>0. todo \in [Proc -> SUBSET Target] /\ DOMAIN at = Proc
    BY DEF IInv, TypeOK
<1>1. CASE ReadOnly(p)
  <2>1. run[p] \notin effects /\ shredding[p] = None
      BY <1>1 DEF ReadOnly, IInv, StageInv
  <2>2. QED BY <1>0, <1>1, <2>1, LocalInv DEF ReadOnly
<1>2. CASE ShredReturns(p)
  <2>1. cmd[p].op # "vault-add"
      BY <1>2 DEF ShredReturns, IInv, StageInv
  <2>2. QED BY <1>0, <1>2, <2>1, LocalInv DEF ShredReturns, AfterShred
<1>3. CASE DirCancelled(p)
  <2>1. GoesTo(p, "shred")
      BY <1>0, <1>3 DEF DirCancelled, GoesTo, IInv, TypeOK
  <2>2. QED BY <1>0, <1>3, <2>1, LocalInv DEF DirCancelled
<1>4. QED BY <1>1, <1>2, <1>3

(* A command begins once the log has been opened for it. *)
LEMMA BeginInv ==
    ASSUME IInv, NEW p \in Proc, NEW k \in Key, NEW c \in Command, Begin(p, k, c)
    PROVE  IInv'
<1>1. /\ runs < MaxRuns
      /\ pc[p] = "closed" /\ pc' = [pc EXCEPT ![p] = "open"]
      /\ runs' = runs + 1
      /\ cmd' = [cmd EXCEPT ![p] = c]
      /\ run' = [run EXCEPT ![p] = runs + 1]
      /\ at' = [at EXCEPT ![p] = "start"]
      /\ UNCHANGED <<pending, recorded, causes>>
      /\ UNCHANGED <<todo, shredding, wiped, digest, world, stored, effects,
                     failures, raced, logShredded>>
    BY DEF Begin, Log!Open, GoesTo
<1> USE <1>1 DEF IInv, world, None
<1>2. at[p] = None /\ runs \in 0..MaxRuns /\ runs + 1 \in 1..MaxRuns
    BY BoundsAssumption DEF TypeOK
<1>3. TypeOK'
  <2>1. effects \cup failures \cup raced \subseteq 1..(runs + 1)
      BY <1>2 DEF TypeOK
  <2>2. run' \in [Proc -> 0..MaxRuns] /\ runs' \in 0..MaxRuns
      BY <1>2 DEF TypeOK
  <2>3. QED BY <1>2, <2>1, <2>2 DEF TypeOK
<1>4. LogInv'
  <2>1. LogP!IInv => LogP!IInv'
      BY LogSteps DEF Begin
  <2>2. QED BY <2>1 DEF LogInv
<1>5. \A q \in Proc : at[q] # None => run[q] \in 1..runs /\ run[q] # runs + 1
    BY <1>2 DEF RunInv
<1>6. RunInv'
  <2>1. \A q \in Proc : at'[q] # None => run'[q] \in 1..runs' /\ cmd'[q] \in Command
      BY <1>2, <1>5 DEF TypeOK, RunInv
  <2>2. \A q, r \in Proc : at'[q] # None /\ run'[q] = run'[r] => q = r
      BY <1>2, <1>5 DEF TypeOK, RunInv
  <2>3. \A q \in Proc : at'[q] = None => run'[q] = 0
      BY DEF TypeOK, RunInv
  <2>4. QED BY <2>1, <2>2, <2>3 DEF RunInv
<1>7. StageInv'
  <2>1. runs + 1 \notin effects /\ shredding[p] = None
      BY <1>2 DEF TypeOK, StageInv
  <2>2. QED BY <2>1, FileAssumption DEF TypeOK, StageInv, LogFile
<1>8. LineInv'
    BY <1>2 DEF TypeOK, LineInv, Entry
<1>9. EffectInv'
    BY <1>2 DEF TypeOK, RunInv, EffectInv
<1>10. WipedInv'
    BY <1>2 DEF TypeOK, WipedInv
<1>11. AddInv'
    BY <1>2 DEF TypeOK, AddInv, Stored
<1>12. QED BY <1>3, <1>4, <1>6, <1>7, <1>8, <1>9, <1>10, <1>11

-----------------------------------------------------------------------------
(***************************************************************************)
(* Steps that change a file.                                               *)
(***************************************************************************)
(* Whoever changes a file between the two reads of a vault add is          *)
(* remembered.                                                             *)
LEMMA ReadersRaced ==
    ASSUME IInv, NEW t,
           raced' = raced \cup Rereading(t),
           \A f \in File \ {t} : content'[f] = content[f],
           UNCHANGED <<at, cmd, run, digest, stored, recorded>>
    PROVE  AddInv' /\ raced' \subseteq 1..runs
<1>1. ASSUME NEW q \in Proc, at[q] = "digest"
      PROVE  cmd[q].on \in File /\ run[q] \in 1..runs
  <2>1. cmd[q] \in Command /\ cmd[q].op = "vault-add" /\ run[q] \in 1..runs
      BY <1>1 DEF IInv, RunInv, StageInv, None
  <2>2. QED BY <2>1 DEF Command
<1>2. ASSUME NEW q \in Proc, at[q] = "digest"
      PROVE  Stored(run[q], content[cmd[q].on])'
  <2>1. Stored(run[q], content[cmd[q].on]) /\ cmd[q].on \in File
      BY <1>1, <1>2 DEF IInv, AddInv
  <2>2. CASE cmd[q].on = t
      BY <1>2, <2>2 DEF Rereading, Stored
  <2>3. CASE cmd[q].on # t
      BY <2>1, <2>3 DEF Stored
  <2>4. QED BY <2>2, <2>3
<1>3. AddInv'
    BY <1>2 DEF IInv, AddInv, Stored
<1>4. raced' \subseteq 1..runs
    BY <1>1 DEF Rereading, IInv, TypeOK
<1>5. QED BY <1>3, <1>4

(* A process that shreds t: what is gone stays gone, t may be counted if   *)
(* it was there before, and only the log as t changes the log.             *)
LEMMA ShredStepInv ==
    ASSUME IInv, NEW p \in Proc, at[p] = "shred", NEW t \in Target,
           \/ raced' = raced \cup Rereading(t)
           \/ raced' = raced /\ content' = content,
           content' \in [File -> Content],
           \A f \in File \ {t} : content'[f] = content[f],
           \A f \in File : content[f] = "gone" => content'[f] = "gone",
           todo' \in [Proc -> SUBSET Target],
           shredding' \in [Proc -> Target \cup {None}],
           \A q \in Proc \ {p} : shredding'[q] = shredding[q],
           wiped' \in [Proc -> SUBSET Target],
           \A q \in Proc \ {p} : wiped'[q] = wiped[q],
           \A f \in wiped'[p] \cap File :
              f \in wiped[p] \/ (content[f] # "gone" /\ content'[f] = "gone"),
           effects' \in {effects, effects \cup {run[p]}},
           logShredded' \in {logShredded, TRUE},
           shredding'[p] = LogFile => logShredded',
           ~logShredded' => UNCHANGED <<file, unterminated, orphans>>,
           \A q \in Proc : q \in orphans' => q \in orphans \/ pc[q] = "line",
           UNCHANGED <<pc, key, last_hash, next_sequence, pending, recorded,
                       causes, cmd, run, at, digest, vault, runs, stored,
                       failures>>
    PROVE  IInv'
<1> USE DEF IInv, None
<1>1. run[p] \in 1..runs
    BY DEF RunInv
<1>2. AddInv' /\ raced' \subseteq 1..runs
  <2>1. CASE raced' = raced \cup Rereading(t)
      BY <2>1, ReadersRaced
  <2>2. CASE raced' = raced /\ content' = content
      BY <2>2 DEF TypeOK, AddInv, Stored
  <2>3. QED BY <2>1, <2>2
<1>3. TypeOK'
    BY <1>1, <1>2 DEF TypeOK
<1>4. LogInv'
  <2>1. CASE logShredded'
      BY <2>1 DEF LogInv
  <2>2. CASE ~logShredded'
      BY <2>2, LogKept DEF logVars
  <2>3. QED BY <2>1, <2>2
<1>5. RunInv'
    BY DEF RunInv
<1>6. StageInv'
  <2> SUFFICES ASSUME NEW q \in Proc
               PROVE  (/\ at[q] = "start" => run[q] \notin effects
                       /\ at[q] = "shred" => cmd[q].op \in {"wipe", "wipe-dir"}
                       /\ at[q] = "digest" => cmd[q].op = "vault-add"
                       /\ shredding[q] # None => at[q] = "shred"
                       /\ shredding[q] = LogFile => logShredded)'
      BY DEF StageInv
  <2>1. at[q] = "start" => run[q] \notin effects /\ run[q] # run[p]
      BY DEF RunInv, StageInv
  <2>2. logShredded => logShredded'
      OBVIOUS
  <2>3. CASE q = p
      BY <2>1, <2>3 DEF StageInv
  <2>4. CASE q # p
    <3>1. shredding'[q] = shredding[q]
        BY <2>4
    <3>2. QED BY <2>1, <2>2, <3>1 DEF StageInv
  <2>5. QED BY <2>3, <2>4
<1>7. LineInv'
  <2>1. ASSUME NEW q \in Proc, pc[q] = "line" PROVE q # p
      BY <2>1 DEF TypeOK
  <2>2. ASSUME NEW q \in Proc, q # p, NEW entropy
        PROVE  Entry(q, entropy)' = Entry(q, entropy)
      BY <2>2 DEF TypeOK, Entry
  <2>3. QED BY <2>1, <2>2 DEF LineInv
<1>8. EffectInv'
    BY DEF EffectInv
<1>9. WipedInv'
  <2>1. /\ \A q \in Proc : \A f \in wiped'[q] \cap File : content'[f] = "gone"
        /\ \A i \in 1..Len(recorded) :
              \A f \in recorded[i].data.wiped \cap File : content'[f] = "gone"
      BY DEF WipedInv
  <2>2. \A q \in Proc \ {p} : wiped'[p] \cap wiped'[q] \cap File = {}
      BY DEF WipedInv
  <2>3. \A q, r \in Proc : q # r => wiped'[q] \cap wiped'[r] \cap File = {}
      BY <2>2 DEF WipedInv
  <2>4. \A q \in Proc : \A i \in 1..Len(recorded) :
           at[q] # "done" => wiped'[q] \cap recorded[i].data.wiped \cap File = {}
      BY DEF WipedInv
  <2>5. QED BY <2>1, <2>3, <2>4 DEF WipedInv
<1>10. QED BY <1>2, <1>3, <1>4, <1>5, <1>6, <1>7, <1>8, <1>9

(* The first write to a file. *)
LEMMA ShredBeginsInv ==
    ASSUME IInv, NEW p \in Proc, ShredBegins(p)
    PROVE  IInv'
<1>1. PICK t \in todo[p] :
        /\ Present(t)
        /\ todo' = [todo EXCEPT ![p] = Taken(p, t)]
        /\ shredding' = [shredding EXCEPT ![p] = t]
        /\ raced' = raced \cup Rereading(t)
        /\ IF t = LogFile
           THEN /\ logShredded' = TRUE
                /\ UNCHANGED content
           ELSE /\ content' = [content EXCEPT ![t] = "noise"]
                /\ UNCHANGED <<file, unterminated, logShredded>>
    BY DEF ShredBegins
<1>2. t \in Target /\ (t # LogFile => t \in File)
    BY DEF IInv, TypeOK, Target
<1>3. t # LogFile => content[t] # "gone"
    BY <1>1 DEF Present
<1>4. /\ content' \in [File -> Content]
      /\ \A f \in File \ {t} : content'[f] = content[f]
      /\ \A f \in File : content[f] = "gone" => content'[f] = "gone"
    BY <1>1, <1>2, <1>3 DEF IInv, TypeOK, Content
<1>5. /\ todo' \in [Proc -> SUBSET Target]
      /\ shredding' \in [Proc -> Target \cup {None}]
      /\ \A q \in Proc \ {p} : shredding'[q] = shredding[q]
      /\ shredding'[p] = LogFile => logShredded'
    BY <1>1, <1>2 DEF IInv, TypeOK, Taken
<1>6. logShredded' \in {logShredded, TRUE}
    BY <1>1
<1>7. UNCHANGED <<pc, key, last_hash, next_sequence, pending, recorded, causes,
                  cmd, run, at, wiped, digest, vault, orphans, runs, stored,
                  failures>>
      /\ at[p] = "shred" /\ effects' = effects \cup {run[p]}
    BY DEF ShredBegins, Acted
<1>8. wiped' \in [Proc -> SUBSET Target]
    BY <1>7 DEF IInv, TypeOK
<1>9. ~logShredded' => UNCHANGED <<file, unterminated, orphans>>
    BY <1>1, <1>7
<1>10. QED BY <1>1, <1>2, <1>4, <1>5, <1>6, <1>7, <1>8, <1>9, ShredStepInv

(* What the end of a name does, whether it is counted or not. *)
LEMMA UnlinkedMeans ==
    ASSUME IInv, NEW p \in Proc, shredding[p] # None, Unlinked(shredding[p]),
           UNCHANGED logShredded
    PROVE  /\ shredding[p] \in Target
           /\ shredding[p] # LogFile => shredding[p] \in File
           /\ raced' = raced \cup Rereading(shredding[p])
           /\ content' \in [File -> Content]
           /\ \A f \in File \ {shredding[p]} : content'[f] = content[f]
           /\ \A f \in File : content[f] = "gone" => content'[f] = "gone"
           /\ shredding[p] # LogFile => content'[shredding[p]] = "gone"
           /\ ~logShredded' => UNCHANGED <<file, unterminated, orphans>>
           /\ \A q \in Proc : q \in orphans' => q \in orphans \/ pc[q] = "line"
<1>1. shredding[p] \in Target /\ (shredding[p] # LogFile => shredding[p] \in File)
    BY DEF IInv, TypeOK, Target
<1>2. content \in [File -> Content]
    BY DEF IInv, TypeOK
<1>3. CASE shredding[p] = LogFile
  <2>1. logShredded
      BY <1>3 DEF IInv, StageInv
  <2>2. QED BY <1>1, <1>2, <1>3, <2>1 DEF Unlinked
<1>4. CASE shredding[p] # LogFile
    BY <1>1, <1>2, <1>4 DEF Unlinked, Content
<1>5. QED BY <1>3, <1>4

(* A file counts as wiped for the one process that found it under its name. *)
LEMMA ShredEndsInv ==
    ASSUME IInv, NEW p \in Proc, ShredEnds(p)
    PROVE  IInv'
<1> DEFINE t == shredding[p]
<1>1. /\ t # None /\ Present(t) /\ Unlinked(t)
      /\ wiped' = [wiped EXCEPT ![p] = @ \cup {t}]
      /\ shredding' = [shredding EXCEPT ![p] = None]
      /\ UNCHANGED <<pc, key, last_hash, next_sequence, pending, recorded, causes,
                     cmd, run, at, todo, digest, vault, runs, stored, effects,
                     failures, logShredded>>
    BY DEF ShredEnds, StillNamed
<1>2. /\ t \in Target
      /\ t # LogFile => t \in File
      /\ raced' = raced \cup Rereading(t)
      /\ content' \in [File -> Content]
      /\ \A f \in File \ {t} : content'[f] = content[f]
      /\ \A f \in File : content[f] = "gone" => content'[f] = "gone"
      /\ t # LogFile => content'[t] = "gone"
      /\ ~logShredded' => UNCHANGED <<file, unterminated, orphans>>
      /\ \A q \in Proc : q \in orphans' => q \in orphans \/ pc[q] = "line"
    BY <1>1, UnlinkedMeans
<1>3. at[p] = "shred"
    BY <1>1 DEF IInv, StageInv
<1>4. /\ wiped' \in [Proc -> SUBSET Target]
      /\ \A q \in Proc \ {p} : wiped'[q] = wiped[q]
      /\ wiped'[p] = wiped[p] \cup {t}
    BY <1>1, <1>2 DEF IInv, TypeOK
<1>5. \A f \in wiped'[p] \cap File :
         f \in wiped[p] \/ (content[f] # "gone" /\ content'[f] = "gone")
    BY <1>1, <1>2, <1>4, FileAssumption DEF Present
<1>6. /\ todo' \in [Proc -> SUBSET Target]
      /\ shredding' \in [Proc -> Target \cup {None}]
      /\ \A q \in Proc \ {p} : shredding'[q] = shredding[q]
      /\ shredding'[p] # LogFile
    BY <1>1 DEF IInv, TypeOK, LogFile, None
<1> HIDE DEF t
<1>7. QED BY <1>1, <1>2, <1>3, <1>4, <1>5, <1>6, ShredStepInv

(* A file that fails is left, under some name or none, and not counted. *)
LEMMA FileFailsInv ==
    ASSUME IInv, NEW p \in Proc, FileFails(p)
    PROVE  IInv'
<1>1. /\ at[p] = "shred"
      /\ UNCHANGED <<pc, key, last_hash, next_sequence, pending, recorded, causes,
                     cmd, run, at, wiped, digest, vault, runs, stored, effects,
                     failures, logShredded>>
    BY DEF FileFails
<1>2. /\ wiped' \in [Proc -> SUBSET Target]
      /\ content \in [File -> Content]
      /\ todo' \in [Proc -> SUBSET Target]
      /\ shredding' \in [Proc -> Target \cup {None}]
      /\ \A q \in Proc \ {p} : shredding'[q] = shredding[q]
      /\ shredding'[p] # LogFile
  <2>1. todo \in [Proc -> SUBSET Target] /\ shredding \in [Proc -> Target \cup {None}]
        /\ wiped \in [Proc -> SUBSET Target] /\ content \in [File -> Content]
      BY DEF IInv, TypeOK
  <2>2. CASE shredding' = [shredding EXCEPT ![p] = None] /\ UNCHANGED todo
      BY <1>1, <2>1, <2>2 DEF LogFile, None
  <2>3. CASE /\ shredding[p] = None
             /\ \E t \in todo[p] : todo' = [todo EXCEPT ![p] = Taken(p, t)]
             /\ UNCHANGED shredding
    <3>1. \A t : Taken(p, t) \in SUBSET Target
        BY <2>1 DEF Taken
    <3>2. todo' \in [Proc -> SUBSET Target]
        BY <2>1, <2>3, <3>1
    <3>3. shredding'[p] # LogFile
        BY <2>3 DEF LogFile, None
    <3>4. QED BY <1>1, <2>1, <2>3, <3>2, <3>3
  <2>4. QED BY <2>2, <2>3 DEF FileFails
<1>3. CASE shredding[p] # None /\ Unlinked(shredding[p])
    BY <1>1, <1>2, <1>3, UnlinkedMeans, ShredStepInv
<1>4. CASE UNCHANGED <<file, unterminated, content, raced, orphans>>
  <2>1. LogFile \in Target
      BY DEF Target
  <2>2. QED BY <1>1, <1>2, <1>4, <2>1, ShredStepInv
<1>5. QED BY <1>3, <1>4 DEF FileFails

(* The owner of a file changes it. *)
LEMMA EditInv ==
    ASSUME IInv, NEW f \in File, Edit(f)
    PROVE  IInv'
<1>1. /\ content[f] = "v1" /\ content' = [content EXCEPT ![f] = "v2"]
      /\ raced' = raced \cup Rereading(f)
      /\ UNCHANGED <<logVars, cmdVars, vault, orphans, runs, stored, effects,
                     failures, logShredded>>
    BY DEF Edit
<1> USE <1>1 DEF IInv, logVars, cmdVars
<1>2. /\ content' \in [File -> Content]
      /\ \A g \in File \ {f} : content'[g] = content[g]
      /\ \A g \in File : content[g] = "gone" => content'[g] = "gone"
    BY DEF TypeOK, Content, Version
<1>3. AddInv' /\ raced' \subseteq 1..runs
    BY <1>2, ReadersRaced
<1>4. TypeOK'
    BY <1>2, <1>3 DEF TypeOK
<1>5. LogInv'
    BY LogKept
<1>6. RunInv' /\ StageInv' /\ EffectInv'
    BY DEF RunInv, StageInv, EffectInv
<1>7. LineInv'
    BY DEF LineInv, Entry
<1>8. WipedInv'
    BY <1>2 DEF WipedInv
<1>9. QED BY <1>3, <1>4, <1>5, <1>6, <1>7, <1>8

-----------------------------------------------------------------------------
(***************************************************************************)
(* The vault commands.                                                     *)
(***************************************************************************)
(* A command has changed the vault, and what it stored is what it goes on  *)
(* to read.                                                                *)
LEMMA VaultStepInv ==
    ASSUME IInv, NEW p \in Proc, at[p] = "start",
           NEW s \in {"record", "digest"}, GoesTo(p, s), Acted(p),
           vault' \in BOOLEAN,
           stored \subseteq stored',
           stored' \subseteq [by : Run, is : Content \ {"gone"}],
           s = "record" => cmd[p].op # "vault-add",
           s = "digest" => /\ cmd[p].op = "vault-add"
                           /\ Stored(run[p], content[cmd[p].on])',
           UNCHANGED <<logVars, cmd, run, todo, shredding, wiped, digest,
                       content, orphans, runs, failures, raced, logShredded>>
    PROVE  IInv'
<1>1. at' = [at EXCEPT ![p] = s] /\ effects' = effects \cup {run[p]}
    BY DEF GoesTo, Acted
<1> USE <1>1 DEF IInv, logVars, None
<1>2. run[p] \in 1..runs
    BY DEF RunInv
<1>3. TypeOK'
    BY <1>2 DEF TypeOK
<1>4. LogInv'
    BY LogKept
<1>5. RunInv'
    BY DEF TypeOK, RunInv
<1>6. StageInv'
  <2> SUFFICES ASSUME NEW q \in Proc
               PROVE  (/\ at[q] = "start" => run[q] \notin effects
                       /\ at[q] = "shred" => cmd[q].op \in {"wipe", "wipe-dir"}
                       /\ at[q] = "digest" => cmd[q].op = "vault-add"
                       /\ shredding[q] # None => at[q] = "shred"
                       /\ shredding[q] = LogFile => logShredded)'
      BY DEF StageInv
  <2>1. CASE q = p
      BY <2>1 DEF TypeOK, StageInv
  <2>2. CASE q # p
    <3>1. at'[q] = at[q] /\ (at[q] = "start" => run[q] # run[p])
        BY <2>2 DEF TypeOK, RunInv
    <3>2. QED BY <3>1 DEF StageInv
  <2>3. QED BY <2>1, <2>2
<1>7. LineInv'
    BY DEF LineInv, Entry
<1>8. EffectInv'
  <2> SUFFICES ASSUME NEW r \in effects' \ failures
               PROVE  \/ \E q \in Proc : run[q] = r /\ at'[q] # "done"
                      \/ \E i \in 1..Len(recorded) : recorded[i].data.run = r
      BY DEF EffectInv
  <2>1. at'[p] # "done" /\ \A q \in Proc : q # p => at'[q] = at[q]
      BY DEF TypeOK
  <2>2. CASE r = run[p]
      BY <2>1, <2>2
  <2>3. CASE r \in effects /\ r # run[p]
      BY <2>1, <2>3 DEF EffectInv
  <2>4. QED BY <2>2, <2>3
<1>9. WipedInv'
    BY DEF TypeOK, WipedInv
<1>10. AddInv'
  <2>1. \A r, c : Stored(r, c) => Stored(r, c)'
      BY DEF Stored
  <2>2. ASSUME NEW q \in Proc, at'[q] = "digest"
        PROVE  Stored(run[q], content[cmd[q].on])'
    <3>1. CASE q = p
        BY <2>2, <3>1 DEF TypeOK
    <3>2. CASE q # p
        BY <2>1, <2>2, <3>2 DEF TypeOK, AddInv
    <3>3. QED BY <3>1, <3>2
  <2>3. ASSUME NEW q \in Proc, at'[q] = "record", cmd[q].op = "vault-add"
        PROVE  Stored(run[q], digest[q])'
      BY <2>1, <2>3 DEF TypeOK, AddInv
  <2>4. QED BY <2>1, <2>2, <2>3 DEF AddInv
<1>11. QED BY <1>3, <1>4, <1>5, <1>6, <1>7, <1>8, <1>9, <1>10

(* vault create, vault destroy and the first read of vault add. *)
LEMMA VaultInv ==
    ASSUME IInv, NEW p \in Proc, VaultCreate(p) \/ VaultDestroy(p) \/ VaultAdd(p)
    PROVE  IInv'
<1>0. vault \in BOOLEAN /\ stored \subseteq [by : Run, is : Content \ {"gone"}]
    BY DEF IInv, TypeOK
<1>1. CASE VaultCreate(p)
    BY <1>0, <1>1, VaultStepInv DEF VaultCreate
<1>2. CASE VaultDestroy(p)
    BY <1>0, <1>2, VaultStepInv DEF VaultDestroy
<1>3. CASE VaultAdd(p)
  <2> DEFINE e == [by |-> run[p], is |-> content[cmd[p].on]]
  <2>1. cmd[p] \in Command /\ cmd[p].op = "vault-add" /\ run[p] \in Run
      BY <1>3, BoundsAssumption DEF VaultAdd, IInv, TypeOK, RunInv, Run, None
  <2>2. content[cmd[p].on] \in Content \ {"gone"}
    <3>1. cmd[p].on \in File
        BY <2>1 DEF Command
    <3>2. QED BY <1>3, <3>1 DEF VaultAdd, IInv, TypeOK
  <2>3. stored' = stored \cup {e}
      BY <1>3 DEF VaultAdd
  <2>4. e \in [by : Run, is : Content \ {"gone"}]
      BY <2>1, <2>2
  <2>5. Stored(run[p], content[cmd[p].on])'
      BY <1>3, <2>3 DEF VaultAdd, Stored, world
  <2> HIDE DEF e
  <2>6. QED BY <1>0, <1>3, <2>1, <2>3, <2>4, <2>5, VaultStepInv DEF VaultAdd, world
<1>4. QED BY <1>1, <1>2, <1>3

(* The second read of vault add. *)
LEMMA DigestInv ==
    ASSUME IInv, NEW p \in Proc, Digest(p)
    PROVE  IInv'
<1>1. /\ at[p] = "digest" /\ at' = [at EXCEPT ![p] = "record"]
      /\ content[cmd[p].on] # "gone"
      /\ digest' = [digest EXCEPT ![p] = content[cmd[p].on]]
      /\ UNCHANGED <<logVars, cmd, run, todo, shredding, wiped, world, history>>
    BY DEF Digest, GoesTo
<1> USE <1>1 DEF IInv, logVars, world, history, None
<1>2. content[cmd[p].on] \in Content \ {"gone"}
  <2>1. cmd[p] \in Command /\ cmd[p].op = "vault-add"
      BY DEF RunInv, StageInv
  <2>2. cmd[p].on \in File
      BY <2>1 DEF Command
  <2>3. QED BY <2>2 DEF TypeOK
<1>3. TypeOK'
    BY <1>2 DEF TypeOK
<1>4. LogInv'
    BY LogKept
<1>5. RunInv'
    BY DEF TypeOK, RunInv
<1>6. StageInv'
    BY DEF TypeOK, StageInv
<1>7. LineInv'
  <2>1. ASSUME NEW q \in Proc, pc[q] = "line" PROVE q # p
      BY <2>1 DEF TypeOK
  <2>2. ASSUME NEW q \in Proc, q # p, NEW entropy
        PROVE  Entry(q, entropy)' = Entry(q, entropy)
      BY <2>2 DEF TypeOK, Entry
  <2>3. QED BY <2>1, <2>2 DEF LineInv
<1>8. EffectInv'
    BY DEF TypeOK, EffectInv
<1>9. WipedInv'
    BY DEF TypeOK, WipedInv
<1>10. AddInv'
    BY DEF TypeOK, AddInv, Stored
<1>11. QED BY <1>3, <1>4, <1>5, <1>6, <1>7, <1>8, <1>9, <1>10

-----------------------------------------------------------------------------
(***************************************************************************)
(* The entry and the end.                                                  *)
(***************************************************************************)
(* The line of an entry. *)
LEMMA RecordLineInv ==
    ASSUME IInv, NEW p \in Proc, RecordLine(p)
    PROVE  IInv'
<1>0. PICK entropy \in {"exact", "inexact"} : Log!RecordLine(p, Entry(p, entropy))
    BY DEF RecordLine, Measured
<1>1. /\ at[p] = "record"
      /\ pc[p] = "open" /\ pc' = [pc EXCEPT ![p] = "line"]
      /\ DOMAIN pending = Proc
      /\ \E tag : pending' = [pending EXCEPT ![p] = [details |-> Entry(p, entropy),
                                                     tag |-> tag]]
      /\ recorded' = recorded
      /\ UNCHANGED <<cmdVars, world, history>>
    BY <1>0 DEF RecordLine, Log!RecordLine, IInv, LogInv
<1> USE <1>1 DEF IInv, cmdVars, world, history, None
<1>2. TypeOK'
    BY DEF TypeOK
<1>3. LogInv'
  <2>1. Entry(p, entropy) \in LogP!Details /\ Entry(p, entropy).entropy # "reread"
      BY EntryIsDetails DEF Log!Float
  <2>2. LogP!IInv => LogP!IInv'
      BY <1>0, <2>1, LogSteps
  <2>3. DOMAIN pending' = Proc
      OBVIOUS
  <2>4. QED BY <2>2, <2>3 DEF LogInv
<1>4. RunInv' /\ StageInv' /\ EffectInv' /\ WipedInv' /\ AddInv'
    BY DEF RunInv, StageInv, EffectInv, WipedInv, AddInv, Stored
<1>5. LineInv'
  <2>1. pending'[p].details = Entry(p, entropy) /\ entropy \in Log!Float
      BY DEF Log!Float
  <2>2. \A q \in Proc : \A x : Entry(q, x)' = Entry(q, x)
      BY DEF Entry
  <2>3. QED BY <2>1, <2>2 DEF TypeOK, LineInv
<1>6. QED BY <1>2, <1>3, <1>4, <1>5

(* The newline: what the process had in mind is recorded. *)
LEMMA RecordNewlineInv ==
    ASSUME IInv, NEW p \in Proc, RecordNewline(p)
    PROVE  IInv'
<1> DEFINE n == Len(recorded)
<1>1. /\ pc[p] = "line" /\ pc' = [pc EXCEPT ![p] = "open"]
      /\ recorded' = Append(recorded, pending[p].details)
      /\ \E e : pending' = [pending EXCEPT ![p] = e]
      /\ at' = [at EXCEPT ![p] = "done"]
      /\ orphans' = orphans \ {p}
      /\ UNCHANGED <<cmd, run, todo, shredding, wiped, digest, content, vault,
                     history>>
  <2>1. pc[p] = "line"
      BY DEF RecordNewline, Log!RecordNewline, IInv, TypeOK
  <2>2. QED BY <2>1 DEF RecordNewline, Log!RecordNewline, GoesTo
<1> USE <1>1 DEF IInv, history, None
<1>0. PICK entropy \in Log!Float : pending[p].details = Entry(p, entropy)
    BY DEF LineInv
<1>2. /\ LogP!IsLines(recorded')
      /\ n \in Nat /\ Len(recorded') = n + 1
      /\ \A i \in 1..n : recorded'[i] = recorded[i]
      /\ recorded'[n + 1] = Entry(p, entropy)
    BY <1>0, LogP!LinesAppend, LogP!LinesLength, ProcAssumption, KeyAssumption,
       BoundsAssumption DEF LogInv
<1>3. at[p] = "record" /\ run[p] \in 1..runs
    BY DEF TypeOK, RunInv
<1>4. /\ Entry(p, entropy).op.operation = <<cmd[p].op>>
      /\ Entry(p, entropy).data = [run |-> run[p], wiped |-> wiped[p],
                                   digest |-> digest[p]]
    BY <1>3, EntryIsDetails
<1>5. \A i \in 1..(n + 1) : i \in 1..n \/ i = n + 1
    BY <1>2
<1> HIDE DEF n
<1>6. TypeOK'
    BY DEF TypeOK
<1>7. LogInv'
  <2>1. ~logShredded /\ LogP!IInv => LogP!IInv'
      BY LogSteps DEF RecordNewline, LogInv
  <2>2. QED BY <1>2, <2>1 DEF LogInv
<1>8. RunInv'
    BY <1>3 DEF TypeOK, RunInv
<1>9. StageInv'
    BY <1>3 DEF TypeOK, StageInv
<1>10. LineInv'
  <2>1. ASSUME NEW q \in Proc, pc'[q] = "line"
        PROVE  pc[q] = "line" /\ pending'[q] = pending[q]
      BY <2>1 DEF TypeOK, LogInv
  <2>2. \A q \in Proc : \A x : Entry(q, x)' = Entry(q, x)
      BY DEF Entry
  <2>3. QED BY <2>1, <2>2 DEF LineInv
<1>11. EffectInv'
  <2> SUFFICES ASSUME NEW r \in effects \ failures
               PROVE  \/ \E q \in Proc : run[q] = r /\ at'[q] # "done"
                      \/ \E i \in 1..Len(recorded') : recorded'[i].data.run = r
      BY DEF EffectInv
  <2>1. CASE r = run[p]
    <3>1. n + 1 \in 1..Len(recorded') /\ recorded'[n + 1].data.run = r
        BY <1>2, <1>4, <2>1
    <3>2. QED BY <3>1
  <2>2. ASSUME NEW q \in Proc, run[q] = r, at[q] # "done", r # run[p]
        PROVE  at'[q] # "done"
      BY <2>2 DEF TypeOK
  <2>3. ASSUME NEW i \in 1..n, recorded[i].data.run = r
        PROVE  i \in 1..Len(recorded') /\ recorded'[i].data.run = r
      BY <1>2, <2>3
  <2>4. QED BY <2>1, <2>2, <2>3 DEF EffectInv, n
<1>12. WipedInv'
  <2>1. /\ \A i \in 1..n : wiped[p] \cap recorded[i].data.wiped \cap File = {}
        /\ recorded'[n + 1].data.wiped = wiped[p]
      BY <1>2, <1>3, <1>4 DEF WipedInv, n
  <2>2. \A i \in 1..Len(recorded') :
           \A t \in recorded'[i].data.wiped \cap File : content[t] = "gone"
      BY <1>2, <1>5, <2>1 DEF WipedInv, n
  <2>3. ASSUME NEW i \in 1..Len(recorded'), NEW j \in 1..Len(recorded'),
               recorded'[i].data.wiped \cap recorded'[j].data.wiped \cap File # {}
        PROVE  i = j
    <3>1. CASE i \in 1..n /\ j \in 1..n
        BY <1>2, <2>3, <3>1 DEF WipedInv, n
    <3>2. CASE i = n + 1 /\ j \in 1..n
        BY <1>2, <2>1, <2>3, <3>2
    <3>3. CASE i \in 1..n /\ j = n + 1
        BY <1>2, <2>1, <2>3, <3>3
    <3>4. QED BY <1>2, <1>5, <3>1, <3>2, <3>3
  <2>4. ASSUME NEW q \in Proc, NEW i \in 1..Len(recorded'), at'[q] # "done"
        PROVE  wiped[q] \cap recorded'[i].data.wiped \cap File = {}
    <3>1. q # p /\ at[q] # "done"
        BY <2>4 DEF TypeOK
    <3>2. CASE i \in 1..n
        BY <1>2, <3>1, <3>2 DEF WipedInv, n
    <3>3. CASE i = n + 1
        BY <2>1, <3>1, <3>3 DEF WipedInv
    <3>4. QED BY <1>2, <1>5, <3>2, <3>3
  <2>5. QED BY <2>2, <2>3, <2>4 DEF WipedInv
<1>13. AddInv'
  <2>1. ASSUME NEW i \in 1..Len(recorded'), recorded'[i].op.operation = <<"vault-add">>
        PROVE  Stored(recorded'[i].data.run, recorded'[i].data.digest)
    <3>1. CASE i \in 1..n
        BY <1>2, <2>1, <3>1 DEF AddInv, n
    <3>2. CASE i = n + 1
        BY <1>2, <1>3, <1>4, <2>1, <3>2 DEF AddInv
    <3>3. QED BY <1>2, <1>5, <3>1, <3>2
  <2>2. QED BY <2>1 DEF TypeOK, AddInv, Stored
<1>14. QED BY <1>6, <1>7, <1>8, <1>9, <1>10, <1>11, <1>12, <1>13

(* A process ends: done, or in between, and then it counts as failed. *)
LEMMA EndsInv ==
    ASSUME IInv, NEW p \in Proc, at[p] # None,
           Log!End({p}), CommandEnds(p),
           LogP!IInv => LogP!IInv',
           failures' \in {failures, failures \cup {run[p]}},
           at[p] # "done" => run[p] \in failures',
           orphans' = orphans \ {p},
           UNCHANGED <<recorded, content, vault, runs, stored, effects, raced,
                       logShredded>>
    PROVE  IInv'
<1>1. /\ pc' = [q \in Proc |-> IF q = p THEN "closed" ELSE pc[q]]
      /\ DOMAIN pending' = Proc
      /\ \A q \in Proc \ {p} : pending'[q] = pending[q]
      /\ cmd' = [cmd EXCEPT ![p] = Idle]
      /\ run' = [run EXCEPT ![p] = 0]
      /\ at' = [at EXCEPT ![p] = None]
      /\ todo' = [todo EXCEPT ![p] = {}]
      /\ shredding' = [shredding EXCEPT ![p] = None]
      /\ wiped' = [wiped EXCEPT ![p] = {}]
      /\ digest' = [digest EXCEPT ![p] = None]
    BY DEF Log!End, CommandEnds, GoesTo
<1> USE <1>1 DEF IInv, None
<1>2. run[p] \in 1..runs
    BY DEF RunInv
<1>3. TypeOK'
  <2>1. failures' \subseteq 1..runs
      BY <1>2 DEF TypeOK
  <2>2. \A q \in Proc : /\ pc'[q] = "closed" <=> at'[q] = None
                        /\ pc'[q] = "line" => at'[q] = "record"
                        /\ q \in orphans' => pc'[q] = "line"
      BY DEF TypeOK
  <2>3. /\ pc' \in [Proc -> {"closed", "open", "line"}]
        /\ cmd' \in [Proc -> Command \cup {[op |-> None, on |-> None]}]
        /\ run' \in [Proc -> 0..MaxRuns]
        /\ at' \in [Proc -> {None, "start", "shred", "digest", "record", "done"}]
      BY BoundsAssumption DEF TypeOK, Idle
  <2>4. /\ todo' \in [Proc -> SUBSET Target]
        /\ shredding' \in [Proc -> Target \cup {None}]
        /\ wiped' \in [Proc -> SUBSET Target]
        /\ digest' \in [Proc -> (Content \ {"gone"}) \cup {None}]
      BY DEF TypeOK
  <2>5. QED BY <2>1, <2>2, <2>3, <2>4 DEF TypeOK
<1>4. LogInv'
    BY DEF LogInv
<1>5. RunInv'
  <2>1. \A q \in Proc : at'[q] # None => q # p /\ at[q] # None /\ run'[q] = run[q]
      BY DEF TypeOK
  <2>2. \A q \in Proc : at'[q] # None => run'[q] \in 1..runs /\ cmd'[q] \in Command
      BY <2>1 DEF TypeOK, RunInv
  <2>3. \A q, r \in Proc : at'[q] # None /\ run'[q] = run'[r] => q = r
      BY <2>1, <2>2 DEF TypeOK, RunInv
  <2>4. \A q \in Proc : at'[q] = None => run'[q] = 0
      BY DEF TypeOK, RunInv
  <2>5. QED BY <2>2, <2>3, <2>4 DEF RunInv
<1>6. StageInv'
    BY DEF TypeOK, StageInv, LogFile
<1>7. LineInv'
  <2>1. ASSUME NEW q \in Proc, pc'[q] = "line" PROVE q # p /\ pc[q] = "line"
      BY <2>1
  <2>2. ASSUME NEW q \in Proc, q # p, NEW entropy
        PROVE  Entry(q, entropy)' = Entry(q, entropy) /\ pending'[q] = pending[q]
      BY <2>2 DEF TypeOK, Entry
  <2>3. QED BY <2>1, <2>2 DEF LineInv
<1>8. EffectInv'
  <2> SUFFICES ASSUME NEW r \in effects \ failures'
               PROVE  \/ \E q \in Proc : run'[q] = r /\ at'[q] # "done"
                      \/ \E i \in 1..Len(recorded) : recorded[i].data.run = r
      BY DEF EffectInv
  <2>1. ASSUME NEW q \in Proc, run[q] = r, at[q] # "done"
        PROVE  run'[q] = r /\ at'[q] # "done"
      BY <2>1 DEF TypeOK
  <2>2. r \in effects \ failures
      OBVIOUS
  <2>3. QED BY <2>1, <2>2 DEF EffectInv
<1>9. WipedInv'
  <2>1. \A q \in Proc : wiped'[q] \subseteq wiped[q]
      BY DEF TypeOK
  <2>2. \A q \in Proc : wiped'[q] # {} => q # p /\ at'[q] = at[q]
      BY DEF TypeOK
  <2>3. \A q \in Proc : \A i \in 1..Len(recorded) :
           at'[q] # "done" => wiped'[q] \cap recorded[i].data.wiped \cap File = {}
    <3> TAKE q \in Proc
    <3> TAKE i \in 1..Len(recorded)
    <3>1. CASE wiped'[q] = {}
        BY <3>1
    <3>2. CASE wiped'[q] # {}
        BY <2>1, <2>2, <3>2 DEF WipedInv
    <3>3. QED BY <3>1, <3>2
  <2>4. QED BY <2>1, <2>3 DEF WipedInv
<1>10. AddInv'
    BY DEF TypeOK, AddInv, Stored
<1>11. QED BY <1>3, <1>4, <1>5, <1>6, <1>7, <1>8, <1>9, <1>10

(* A command that is done ends. *)
LEMMA ExitInv ==
    ASSUME IInv, NEW p \in Proc, Exit(p)
    PROVE  IInv'
<1>1. at[p] = "done" /\ Log!Exit(p) /\ CommandEnds(p) /\ UNCHANGED <<world, history>>
    BY DEF Exit
<1>2. Log!End({p}) /\ recorded' = recorded
    BY <1>1 DEF Log!Exit
<1>3. LogP!IInv => LogP!IInv'
    BY <1>1, LogSteps
<1>4. p \notin orphans /\ at[p] # None
    BY <1>1 DEF IInv, TypeOK, None
<1>5. orphans' = orphans \ {p}
    BY <1>1, <1>4 DEF world
<1>6. QED BY <1>1, <1>2, <1>3, <1>4, <1>5, EndsInv DEF world, history

(* A command fails or is killed. *)
LEMMA FailsInv ==
    ASSUME IInv, NEW p \in Proc, Fails(p)
    PROVE  IInv'
<1>1. /\ at[p] # None
      /\ Log!Exit(p) \/ Log!RecordTorn(p)
      /\ CommandEnds(p)
      /\ failures' = failures \cup {run[p]}
      /\ orphans' = orphans \ {p}
      /\ UNCHANGED <<content, vault, runs, stored, effects, raced, logShredded>>
    BY DEF Fails
<1>2. Log!End({p}) /\ recorded' = recorded
    BY <1>1 DEF Log!Exit, Log!RecordTorn
<1>3. LogP!IInv => LogP!IInv'
    BY <1>1, LogSteps
<1>4. QED BY <1>1, <1>2, <1>3, EndsInv

-----------------------------------------------------------------------------
(* The invariant is inductive: every step of the system preserves it. *)
THEOREM StepInv == IInv /\ [Next]_vars => IInv'
<1> SUFFICES ASSUME IInv, [Next]_vars PROVE IInv'
    OBVIOUS
<1>1. CASE UNCHANGED vars
  <2> USE <1>1 DEF vars, logVars, cmdVars, world, history, IInv
  <2>1. TypeOK'
      BY DEF TypeOK
  <2>2. LogInv'
      BY LogKept
  <2>3. RunInv' /\ StageInv' /\ EffectInv'
      BY DEF RunInv, StageInv, EffectInv
  <2>4. LineInv'
      BY DEF LineInv, Entry
  <2>5. WipedInv' /\ AddInv'
      BY DEF WipedInv, AddInv, Stored
  <2>6. QED BY <2>1, <2>2, <2>3, <2>4, <2>5
<1>2. ASSUME NEW p \in Proc, NEW k \in Key, Refused(p, k) PROVE IInv'
    BY <1>1, <1>2 DEF Refused
<1>3. ASSUME NEW p \in Proc, NEW k \in Key, NEW c \in Command, Begin(p, k, c)
      PROVE  IInv'
    BY <1>3, BeginInv
<1>4. ASSUME NEW p \in Proc, Work(p) PROVE IInv'
  <2>1. CASE ReadOnly(p) \/ ShredReturns(p)
      BY <2>1, MovesOnInv
  <2>2. CASE List(p)
      BY <2>2, ListInv
  <2>3. CASE ShredBegins(p)
      BY <2>3, ShredBeginsInv
  <2>4. CASE ShredEnds(p)
      BY <2>4, ShredEndsInv
  <2>5. CASE FileFails(p)
      BY <2>5, FileFailsInv
  <2>6. CASE VaultCreate(p) \/ VaultDestroy(p) \/ VaultAdd(p)
      BY <2>6, VaultInv
  <2>7. CASE Digest(p)
      BY <2>7, DigestInv
  <2>8. CASE RecordLine(p)
      BY <2>8, RecordLineInv
  <2>9. CASE RecordNewline(p)
      BY <2>9, RecordNewlineInv
  <2>10. CASE Exit(p)
      BY <2>10, ExitInv
  <2>11. CASE Fails(p)
      BY <2>11, FailsInv
  <2>12. QED BY <1>4, <2>1, <2>2, <2>3, <2>4, <2>5, <2>6, <2>7, <2>8, <2>9,
                <2>10, <2>11 DEF Work
<1>5. ASSUME NEW p \in Proc, DirCancelled(p) PROVE IInv'
    BY <1>5, MovesOnInv
<1>6. ASSUME NEW f \in File, Edit(f) PROVE IInv'
    BY <1>6, EditInv
<1>7. QED BY <1>1, <1>2, <1>3, <1>4, <1>5, <1>6 DEF Next

(* Every reachable state satisfies the invariant. *)
THEOREM Invariance == Spec => []IInv
<1>1. Init => IInv
    BY InitInv
<1>2. IInv /\ [Next]_vars => IInv'
    BY StepInv
<1>3. QED BY <1>1, <1>2, PTL DEF Spec

(* The variables of Cli keep their types, a process is at a step of its    *)
(* command exactly while it has the log open, and only between the two     *)
(* writes of an entry can it hold a log that is unlinked.                  *)
THEOREM TypeCorrect == Spec => []TypeOK
<1>1. IInv => TypeOK
    BY DEF IInv
<1>2. QED BY <1>1, Invariance, PTL

(* A log no command was given to destroy is refused only when a command    *)
(* overlapped with another, was interrupted while it wrote its entry, or   *)
(* recorded an entropy that is read back as another number (main.rs:       *)
(* 151-153, 213, 259, 343-370).                                            *)
THEOREM CommandsKeepTheLog == Spec => []LogOutlivesCommands
<1>1. IInv => LogOutlivesCommands
  <2> SUFFICES ASSUME IInv, causes = {}, ~logShredded PROVE Replays
      BY DEF LogOutlivesCommands
  <2>1. PICK k \in Key : LogP!Accepts(file, k)
      BY DEF IInv, LogInv, LogP!IInv, LogP!MemoryInv, LogP!Replays
  <2>2. Log!Accepts(file, k)
      BY <2>1 DEF Log!Accepts, LogP!Accepts, Log!PrevHash, LogP!PrevHash, Log!Tag,
                  LogP!Tag, Log!SigningBytes, LogP!SigningBytes, Log!Joined,
                  LogP!Joined, Log!Reparse, LogP!Reparse, Log!GENESIS_HASH,
                  LogP!GENESIS_HASH
  <2>3. QED BY <2>2 DEF Replays
<1>2. QED BY <1>1, Invariance, PTL

(* A run that overwrote a file or changed the vault and did not fail is on *)
(* its way to its entry or has it, in the file as long as nobody shreds    *)
(* the log, overlaps or is interrupted in an entry (main.rs:206-217,       *)
(* 252-267, 337-371).                                                      *)
THEOREM NothingUnlogged == Spec => []EffectsLogged
<1>1. IInv => EffectsLogged
  <2> SUFFICES ASSUME IInv, NEW r \in effects \ failures,
                      ~\E p \in Proc : run[p] = r /\ at[p] # "done"
               PROVE  LET log == IF causes \subseteq {"inexact"} /\ ~logShredded
                                 THEN [i \in DOMAIN file |-> file[i].details]
                                 ELSE recorded
                      IN  \E i \in DOMAIN log : log[i].data.run = r
      BY DEF EffectsLogged
  <2>1. LogP!IsLines(recorded) /\ DOMAIN recorded = 1..Len(recorded)
            /\ Len(recorded) \in Nat
      BY DEF IInv, LogInv, LogP!IsLines
  <2>2. PICK i \in 1..Len(recorded) : recorded[i].data.run = r
      BY DEF IInv, EffectInv
  <2>3. CASE causes \subseteq {"inexact"} /\ ~logShredded
    <3>1. /\ LogP!IsLines(file)
          /\ Len(file) = Len(recorded) \/ Len(file) = Len(recorded) + 1
          /\ file[i].details = recorded[i]
        BY <2>3 DEF IInv, LogInv, LogP!IInv, LogP!FileInv, LogP!WriterInv
    <3>2. DOMAIN file = 1..Len(file) /\ Len(file) \in Nat
        BY <3>1 DEF LogP!IsLines
    <3>3. i \in DOMAIN file
      <4>1. Len(recorded) \in Nat /\ Len(file) >= Len(recorded)
        <5>1. Len(recorded) \in Nat /\ Len(file) \in Nat
            BY <2>1, <3>2
        <5>2. Len(file) = Len(recorded) \/ Len(file) = Len(recorded) + 1
            BY <3>1
        <5>3. QED BY ONLY <5>1, <5>2
      <4>2. i \in 1..Len(file)
          BY <3>2, <4>1
      <4>3. QED BY <3>2, <4>2
    <3>4. QED BY <2>2, <2>3, <3>1, <3>3
  <2>4. CASE ~(causes \subseteq {"inexact"} /\ ~logShredded)
      BY <2>1, <2>2, <2>4
  <2>5. QED BY <2>3, <2>4
<1>2. QED BY <1>1, Invariance, PTL

(* What entries say happened did: files they count as wiped are gone, no   *)
(* file is counted twice, and a digest is that of what was encrypted       *)
(* unless the source changed between the two reads (main.rs:213-217,       *)
(* 259-267, 348).                                                          *)
THEOREM RecordedIsTrue == Spec => []EntriesTrue
<1>1. IInv => EntriesTrue
  <2> SUFFICES ASSUME IInv, NEW i \in 1..Len(recorded)
               PROVE  LET e == recorded[i].data
                      IN  /\ \A t \in e.wiped \cap File : content[t] = "gone"
                          /\ \A j \in 1..Len(recorded) :
                                recorded[j].data.wiped \cap e.wiped \cap File # {}
                                    => i = j
                          /\ recorded[i].op.operation = <<"vault-add">> =>
                                \/ [by |-> e.run, is |-> e.digest] \in stored
                                \/ e.run \in raced
      BY DEF EntriesTrue
  <2>1. \A t \in recorded[i].data.wiped \cap File : content[t] = "gone"
      BY DEF IInv, WipedInv
  <2>2. \A j \in 1..Len(recorded) :
           recorded[j].data.wiped \cap recorded[i].data.wiped \cap File # {} => i = j
      BY DEF IInv, WipedInv
  <2>3. recorded[i].op.operation = <<"vault-add">> =>
           Stored(recorded[i].data.run, recorded[i].data.digest)
      BY DEF IInv, AddInv
  <2>4. QED BY <2>1, <2>2, <2>3 DEF Stored
<1>2. QED BY <1>1, Invariance, PTL
=============================================================================
