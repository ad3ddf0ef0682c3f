------------------------------ MODULE DirShred ------------------------------
(***************************************************************************)
(* shred_directory (sanitize/directory.rs): one walk lists the regular     *)
(* files, a rayon pool shreds them in parallel under one cancel flag, a    *)
(* mutex-protected summary and an atomic counter collect the results, and  *)
(* a second walk removes the directories, deepest first.                   *)
(*                                                                         *)
(* Each shred_file is FileShred seen from outside: it returns Ok and the   *)
(* file is gone, or Err and the file has its own or a random name; one     *)
(* that starts after the cancellation returns Cancelled (BeginPass there). *)
(***************************************************************************)
EXTENDS Naturals, FiniteSets

CONSTANTS
    Thread,        \* the threads of the pool
    Dir, Root,     \* the directories of the tree, and its root
    File,          \* its regular files
    Other,         \* other entries: symlinks, or files created meanwhile
    ParentOf       \* the directory each of them is in

ASSUME TreeAssumption ==
    /\ Root \in Dir
    /\ Dir \cap File = {} /\ Dir \cap Other = {} /\ File \cap Other = {}
    /\ ParentOf \in [(Dir \ {Root}) \cup File \cup Other -> Dir]

\* It is a finite tree: every directory is some number of steps below the root.
ASSUME DepthAssumption ==
    /\ IsFiniteSet(Dir)
    /\ \E depth \in [Dir -> 0..Cardinality(Dir)] :
         \A d \in Dir : depth[d] = IF d = Root THEN 0 ELSE depth[ParentOf[d]] + 1

ASSUME ThreadAssumption == IsFiniteSet(Thread) /\ Thread # {}

ASSUME FileAssumption == IsFiniteSet(File)

\* The number of path components: what the second walk is sorted by.
Depth[d \in Dir] == IF d = Root THEN 0 ELSE Depth[ParentOf[d]] + 1

Above[x \in Dir \cup File \cup Other] ==
    IF x = Root THEN {} ELSE {ParentOf[x]} \cup Above[ParentOf[x]]

VARIABLES
    pc,            \* "start", "pool", "sweep" or "done"
    result,        \* what shred_directory returned
    files,         \* the list of the first walk
    pending,       \* files no thread has taken yet
    tpc, tfile,    \* per thread: its step, and the file it works on
    tres,          \* per thread: the Result of shred_file
    tdone,         \* per thread: the value fetch_add gave it
    name,          \* the directory entry of each file
    cancel,        \* the CancelFlag
    processed,     \* summary: outcomes; files_processed is its size
    failed,        \* summary: errors; files_failed is its size
    done_counter,  \* the AtomicUsize
    delivered,     \* history: the counts on_file_done was called with
    lateWipes,     \* history: files wiped although cancel was set
    dirs, others,  \* the directories and other entries present
    unreadable,    \* directories whose listing fails
    todo,          \* directories of the second walk still to be removed
    rmFailed       \* history: remove_dir failed for another reason

mainVars  == <<pc, result, files>>
threadVars == <<tpc, tfile, tres, tdone>>
sumVars   == <<processed, failed, done_counter, delivered, lateWipes>>
treeVars  == <<name, dirs, others, unreadable>>
sweepVars == <<todo, rmFailed>>

vars == <<mainVars, pending, threadVars, cancel, sumVars, treeVars, sweepVars>>

TPC == {"idle", "begin", "shred", "lock", "count", "report"}

NoFile == "none"

TypeOK ==
    /\ pc \in {"start", "pool", "sweep", "done"}
    /\ result \in {"none", "ok", "config"}
    /\ files \in SUBSET File
    /\ pending \in SUBSET files
    /\ tpc \in [Thread -> TPC]
    /\ tfile \in [Thread -> File \cup {NoFile}]
    /\ tres \in [Thread -> {"none", "ok", "error"}]
    /\ tdone \in [Thread -> 0..Cardinality(files)]
    /\ name \in [File -> {"original", "random", "gone"}]
    /\ cancel \in BOOLEAN
    /\ processed \in SUBSET files
    /\ failed \in SUBSET files
    /\ done_counter \in 0..Cardinality(files)
    /\ delivered \in SUBSET (1..Cardinality(files))
    /\ lateWipes \in SUBSET files
    /\ dirs \in SUBSET Dir
    /\ others \in SUBSET Other
    /\ unreadable \in SUBSET Dir
    /\ todo \in SUBSET Dir
    /\ rmFailed \in SUBSET Dir

Init ==
    /\ pc = "start"
    /\ result = "none"
    /\ files = {}
    /\ pending = {}
    /\ tpc = [t \in Thread |-> "idle"]
    /\ tfile = [t \in Thread |-> NoFile]
    /\ tres = [t \in Thread |-> "none"]
    /\ tdone = [t \in Thread |-> 0]
    /\ name = [f \in File |-> "original"]
    /\ cancel = FALSE
    /\ processed = {}
    /\ failed = {}
    /\ done_counter = 0
    /\ delivered = {}
    /\ lateWipes = {}
    /\ dirs = Dir
    /\ others \in SUBSET Other
    /\ unreadable \in SUBSET Dir
    /\ todo = {}
    /\ rmFailed = {}

-----------------------------------------------------------------------------
(***************************************************************************)
(* The calling thread.  A walk lists what is below readable directories    *)
(* only; its errors are dropped (`filter_map(|e| e.ok())`).                *)
(***************************************************************************)
Listed(S) == {x \in S : Above[x] \cap unreadable = {}}

\* "is not a directory", or the thread pool cannot be built.
RefuseStart ==
    /\ pc = "start"
    /\ pc' = "done"
    /\ result' = "config"
    /\ UNCHANGED <<files, pending, threadVars, cancel, sumVars, treeVars,
                   sweepVars>>

Start ==
    /\ pc = "start"
    /\ pc' = "pool"
    /\ files' = Listed(File)
    /\ pending' = Listed(File)
    /\ UNCHANGED <<result, threadVars, cancel, sumVars, treeVars, sweepVars>>

\* pool.install returns when every item has been processed.
Join ==
    /\ pc = "pool"
    /\ pending = {}
    /\ \A t \in Thread : tpc[t] = "idle"
    /\ pc' = "sweep"
    /\ todo' = Listed(dirs)
    /\ UNCHANGED <<result, files, pending, threadVars, cancel, sumVars,
                   treeVars, rmFailed>>

Empty(d) ==
    /\ \A e \in dirs \ {Root} : ParentOf[e] # d
    /\ \A f \in File : name[f] # "gone" => ParentOf[f] # d
    /\ \A o \in others : ParentOf[o] # d

ShallowestFirst(d) == \A e \in todo : Depth[d] <= Depth[e]         \* mutant

ComesNext(d) == \A e \in todo : Depth[e] <= Depth[d]

RemoveDir ==
    /\ pc = "sweep"
    /\ \E d \in todo :
         /\ ComesNext(d)
         /\ todo' = todo \ {d}
         /\ \/ /\ Empty(d)
               /\ dirs' = dirs \ {d}
               /\ UNCHANGED rmFailed
            \/ /\ ~Empty(d)
               /\ UNCHANGED <<dirs, rmFailed>>
            \/ /\ rmFailed' = rmFailed \cup {d}
               /\ UNCHANGED dirs
    /\ UNCHANGED <<mainVars, pending, threadVars, cancel, sumVars, name, others,
                   unreadable>>

Return ==
    /\ pc = "sweep"
    /\ todo = {}
    /\ pc' = "done"
    /\ result' = "ok"
    /\ UNCHANGED <<files, pending, threadVars, cancel, sumVars, treeVars,
                   sweepVars>>

-----------------------------------------------------------------------------
FlagCopied == FALSE                                               \* mutant

\* The flag a thread loads, shared with the Ctrl-C handler.
CancelSeen == cancel

PutBack(f) == IF cancel THEN pending ELSE pending \ {f}           \* mutant

Taken(f) == pending \ {f}

(***************************************************************************)
(* The threads of the pool.  Rayon hands every file to one of them, in no  *)
(* particular order.                                                       *)
(***************************************************************************)
Take(t) ==
    /\ pc = "pool"
    /\ tpc[t] = "idle"
    /\ \E f \in pending :
         /\ pending' = Taken(f)
         /\ IF CancelSeen
            THEN UNCHANGED <<tpc, tfile>>
            ELSE /\ tpc' = [tpc EXCEPT ![t] = "begin"]
                 /\ tfile' = [tfile EXCEPT ![t] = f]
    /\ UNCHANGED <<mainVars, tres, tdone, cancel, sumVars, treeVars, sweepVars>>

\* The check at the first pass of shred_file.
Begin(t) ==
    /\ tpc[t] = "begin"
    /\ IF CancelSeen
       THEN /\ tpc' = [tpc EXCEPT ![t] = "lock"]
            /\ tres' = [tres EXCEPT ![t] = "error"]
       ELSE /\ tpc' = [tpc EXCEPT ![t] = "shred"]
            /\ UNCHANGED tres
    /\ UNCHANGED <<mainVars, pending, tfile, tdone, cancel, sumVars, treeVars,
                   sweepVars>>

\* The end of shred_file: a file may also be left under a random name.
Finish(t) ==
    /\ tpc[t] = "shred"
    /\ tpc' = [tpc EXCEPT ![t] = "lock"]
    /\ \/ /\ tres' = [tres EXCEPT ![t] = "ok"]
          /\ name' = [name EXCEPT ![tfile[t]] = "gone"]
          /\ lateWipes' = IF cancel THEN lateWipes \cup {tfile[t]} ELSE lateWipes
       \/ /\ tres' = [tres EXCEPT ![t] = "error"]
          /\ \E n \in {"original", "random"} :
               name' = [name EXCEPT ![tfile[t]] = n]
          /\ UNCHANGED lateWipes
    /\ UNCHANGED <<mainVars, pending, tfile, tdone, cancel, processed, failed,
                   done_counter, delivered, dirs, others, unreadable, sweepVars>>

ErrorsOf(t) == failed                                             \* mutant

Errors(t) == IF tres[t] = "ok" THEN failed ELSE failed \cup {tfile[t]}

\* lock, add the outcome or the error, unlock.
Summarise(t) ==
    /\ tpc[t] = "lock"
    /\ processed' = IF tres[t] = "ok" THEN processed \cup {tfile[t]} ELSE processed
    /\ failed' = Errors(t)
    /\ tpc' = [tpc EXCEPT ![t] = "count"]
    /\ UNCHANGED <<mainVars, pending, tfile, tres, tdone, cancel, done_counter,
                   delivered, lateWipes, treeVars, sweepVars>>

CountedTwice == done_counter + 2                                  \* mutant

SummaryCount == Cardinality(processed \cup failed)                \* mutant

Counted == done_counter + 1

Count(t) ==
    /\ tpc[t] = "count"
    /\ done_counter' = Counted
    /\ tdone' = [tdone EXCEPT ![t] = Counted]
    /\ tpc' = [tpc EXCEPT ![t] = "report"]
    /\ UNCHANGED <<mainVars, pending, tfile, tres, cancel, processed, failed,
                   delivered, lateWipes, treeVars, sweepVars>>

Report(t) ==
    /\ tpc[t] = "report"
    /\ delivered' = delivered \cup {tdone[t]}
    /\ tpc' = [tpc EXCEPT ![t] = "idle"]
    /\ tfile' = [tfile EXCEPT ![t] = NoFile]
    /\ tres' = [tres EXCEPT ![t] = "none"]
    /\ tdone' = [tdone EXCEPT ![t] = 0]
    /\ UNCHANGED <<mainVars, pending, cancel, processed, failed, done_counter,
                   lateWipes, treeVars, sweepVars>>

Main == RefuseStart \/ Start \/ Join \/ RemoveDir \/ Return

Worker(t) ==
    Take(t) \/ Begin(t) \/ Finish(t) \/ Summarise(t) \/ Count(t) \/ Report(t)

-----------------------------------------------------------------------------
\* The environment: Ctrl-C, and a process that creates an entry.
CtrlC ==
    /\ pc # "done"
    /\ ~cancel
    /\ cancel' = TRUE
    /\ UNCHANGED <<mainVars, pending, threadVars, sumVars, treeVars, sweepVars>>

Create ==
    /\ pc # "done"
    /\ \E o \in Other \ others :
         /\ ParentOf[o] \in dirs
         /\ others' = others \cup {o}
    /\ UNCHANGED <<mainVars, pending, threadVars, cancel, sumVars, name, dirs,
                   unreadable, sweepVars>>

Next == Main \/ (\E t \in Thread : Worker(t)) \/ CtrlC \/ Create

Spec == Init /\ [][Next]_vars

(***************************************************************************)
(* The operating system runs the calling thread and every pool thread, and *)
(* shred_file returns (FileShred, EveryCallReturns).                       *)
(***************************************************************************)
FairSpec ==
    Spec /\ WF_vars(Main) /\ \A t \in Thread : WF_vars(Worker(t))

-----------------------------------------------------------------------------
(***************************************************************************)
(* Properties.                                                             *)
(***************************************************************************)
Joined == pc \in {"sweep", "done"} /\ result # "config"

(***************************************************************************)
(* When the pool has joined, the summary is the truth about the tree: a    *)
(* file is gone exactly when it is among the outcomes, no file is counted  *)
(* twice, and a file of the tree that is in neither list kept its name,    *)
(* because of a cancellation or of a directory that could not be listed    *)
(* (directory.rs:47-92).                                                   *)
(***************************************************************************)
SummaryTrue ==
    Joined =>
        /\ processed \cap failed = {}
        /\ \A f \in File : f \in processed <=> name[f] = "gone"
        /\ \A f \in File \ (processed \cup failed) :
              /\ name[f] = "original"
              /\ cancel \/ Above[f] \cap unreadable # {}

(***************************************************************************)
(* The progress callback, called outside the lock, is given every count    *)
(* from 1 to the number of files attempted, each once, in whatever order   *)
(* (directory.rs:85-90).                                                   *)
(***************************************************************************)
EveryCountDelivered ==
    Joined => /\ done_counter = Cardinality(processed) + Cardinality(failed)
              /\ delivered = 1..done_counter

(***************************************************************************)
(* After Ctrl-C no thread wipes more than the file it was working on       *)
(* (directory.rs:67-71 with engine.rs:91-93).                              *)
(***************************************************************************)
CancelStopsNew == Cardinality(lateWipes) <= Cardinality(Thread)

(***************************************************************************)
(* One sweep is enough: a directory is left only if something is in it,    *)
(* its removal failed, or the second walk could not see it                 *)
(* (directory.rs:94-105).                                                  *)
(***************************************************************************)
LeftDirsHaveReason ==
    Joined /\ pc = "done" =>
        \A d \in dirs : \/ ~Empty(d)
                        \/ d \in rmFailed
                        \/ Above[d] \cap unreadable # {}

(***************************************************************************)
(* shred_directory returns: no thread and not the join waits for ever.     *)
(***************************************************************************)
Terminates == <>(pc = "done")
=============================================================================
