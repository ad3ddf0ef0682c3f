--------------------------- MODULE DirShred_proofs ---------------------------
(***************************************************************************)
(* The safety of shred_directory for every tree, number of threads and     *)
(* order of their steps.  The inductive invariant follows a file through   *)
(* the pool: it is pending, or one thread has it, or it is in the summary, *)
(* or it was skipped after a cancellation; and it says what the atomic     *)
(* counter counts: the files of the summary whose thread has gone past     *)
(* fetch_add.  Of the second walk it says that what has been tried was no  *)
(* shallower than what is still to be tried, so that a directory is never  *)
(* emptied after its turn.                                                 *)
(***************************************************************************)
EXTENDS DirShred, FiniteSetTheorems, WellFoundedInduction, TLAPS

Reported == processed \cup failed

\* The type invariant, with natural numbers for the counts: Counts bounds them.
Types ==
    /\ pc \in {"start", "pool", "sweep", "done"}
    /\ result \in {"none", "ok", "config"}
    /\ files \in SUBSET File
    /\ pending \in SUBSET files
    /\ tpc \in [Thread -> TPC]
    /\ tfile \in [Thread -> File \cup {NoFile}]
    /\ tres \in [Thread -> {"none", "ok", "error"}]
    /\ tdone \in [Thread -> Nat]
    /\ name \in [File -> {"original", "random", "gone"}]
    /\ cancel \in BOOLEAN
    /\ processed \in SUBSET files
    /\ failed \in SUBSET files
    /\ done_counter \in Nat
    /\ delivered \in SUBSET Nat
    /\ lateWipes \in SUBSET files
    /\ dirs \in SUBSET Dir
    /\ others \in SUBSET Other
    /\ unreadable \in SUBSET Dir
    /\ todo \in SUBSET Dir
    /\ rmFailed \in SUBSET Dir

\* The threads work between the walk and the join only.
Phases ==
    /\ pc \in {"start", "pool"} => result = "none"
    /\ result = "config" => pc = "done"
    /\ pc = "start" => files = {}
    /\ pc # "start" /\ result # "config" => files = Listed(File)
    /\ pc # "pool" => pending = {} /\ \A t \in Thread : tpc[t] = "idle"

\* What a thread knows of its file.
Work ==
    /\ \A t \in Thread :
         /\ tpc[t] # "idle" => tfile[t] \in files \ pending
         /\ tpc[t] \in {"begin", "shred"} =>
              tfile[t] \notin Reported /\ name[tfile[t]] = "original"
         /\ tpc[t] = "lock" =>
              /\ tfile[t] \notin Reported
              /\ tres[t] = "ok" <=> name[tfile[t]] = "gone"
         /\ tpc[t] \in {"count", "report"} => tfile[t] \in Reported
    /\ \A t, u \in Thread :
         t # u /\ tpc[t] # "idle" /\ tpc[u] # "idle" => tfile[t] # tfile[u]

\* Every file of the tree is accounted for.
Outcomes ==
    /\ processed \cap failed = {}
    /\ pending \cap Reported = {}
    /\ \A f \in pending \cup (File \ files) : name[f] = "original"
    /\ \A f \in processed : name[f] = "gone"
    /\ \A f \in failed : name[f] # "gone"
    /\ \A f \in files \ (pending \cup Reported) :
         \/ cancel /\ name[f] = "original"
         \/ \E t \in Thread : tpc[t] \in {"begin", "shred", "lock"} /\ tfile[t] = f

\* The files of the summary that fetch_add has counted.
CountedFiles ==
    {f \in Reported : \A t \in Thread : tpc[t] = "count" => tfile[t] # f}

Counts ==
    /\ done_counter = Cardinality(CountedFiles)
    /\ delivered \subseteq 1..done_counter
    /\ \A t \in Thread : tdone[t] # 0 => tpc[t] = "report"
    /\ \A t \in Thread : tpc[t] = "report" => tdone[t] \in 1..done_counter
    /\ \A n \in 1..done_counter :
         \/ n \in delivered
         \/ \E t \in Thread : tpc[t] = "report" /\ tdone[t] = n

\* The threads that still may wipe a file.
Shredding == {t \in Thread : tpc[t] = "shred"}

Late ==
    /\ ~cancel => lateWipes = {}
    /\ Cardinality(lateWipes) + Cardinality(Shredding) <= Cardinality(Thread)

\* The second walk can see the directory.
Visible(d) == Above[d] \cap unreadable = {}

\* The directories that have had their turn in the second walk.
Tried == {d \in dirs : Visible(d) /\ d \notin todo}

Sweep ==
    Joined =>
        /\ pc = "done" => todo = {}
        /\ \A d \in Tried : ~Empty(d) \/ d \in rmFailed
        /\ \A d \in Tried, e \in todo : Depth[e] <= Depth[d]

IInv == Types /\ Phases /\ Work /\ Outcomes /\ Counts /\ Late /\ Sweep

THEOREM InitInv == Init => IInv
<1> SUFFICES ASSUME Init PROVE IInv
  OBVIOUS
<1>1. Types /\ Phases /\ Work /\ Outcomes
  BY DEF Init, Types, TPC, Phases, Work, Outcomes, Reported
<1>2. Counts
  <2>1. CountedFiles = {}
    BY DEF Init, CountedFiles, Reported
  <2> QED
    BY <2>1, FS_EmptySet DEF Init, Counts
<1>3. Late
  <2>1. Shredding = {} /\ lateWipes = {}
    BY DEF Init, Shredding
  <2> QED
    BY <2>1, FS_EmptySet, FS_CardinalityType, ThreadAssumption DEF Late
<1>4. Sweep
  BY DEF Init, Sweep, Joined
<1> QED
  BY <1>1, <1>2, <1>3, <1>4 DEF IInv

-----------------------------------------------------------------------------
\* Types are kept by every step.
LEMMA TypesStep == IInv /\ [Next]_vars => Types'
<1> SUFFICES ASSUME IInv, [Next]_vars PROVE Types'
  OBVIOUS
<1> USE DEF IInv, Types, TPC, threadVars, sumVars, treeVars, sweepVars, mainVars
<1>1. CASE RefuseStart
  BY <1>1 DEF RefuseStart
<1>2. CASE Start
  BY <1>2 DEF Start, Listed, Phases, Outcomes, Reported
<1>3. CASE Join
  BY <1>3 DEF Join, Listed
<1>4. CASE RemoveDir
  BY <1>4 DEF RemoveDir
<1>5. CASE Return
  BY <1>5 DEF Return
<1>6. ASSUME NEW t \in Thread, Take(t) PROVE Types'
  BY <1>6 DEF Take, Taken
<1>7. ASSUME NEW t \in Thread, Begin(t) PROVE Types'
  BY <1>7 DEF Begin
<1>8. ASSUME NEW t \in Thread, Finish(t) PROVE Types'
  BY <1>8 DEF Finish, Work
<1>9. ASSUME NEW t \in Thread, Summarise(t) PROVE Types'
  BY <1>9 DEF Summarise, Errors, Work
<1>10. ASSUME NEW t \in Thread, Count(t) PROVE Types'
  BY <1>10 DEF Count, Counted
<1>11. ASSUME NEW t \in Thread, Report(t) PROVE Types'
  BY <1>11 DEF Report
<1>12. CASE CtrlC
  BY <1>12 DEF CtrlC
<1>13. CASE Create
  BY <1>13 DEF Create
<1>14. CASE UNCHANGED vars
  BY <1>14 DEF vars
<1> QED
  BY <1>1, <1>2, <1>3, <1>4, <1>5, <1>6, <1>7, <1>8, <1>9, <1>10, <1>11,
     <1>12, <1>13, <1>14 DEF Next, Main, Worker

\* The walk, the pool, the join and the sweep follow each other.
LEMMA PhasesStep == IInv /\ [Next]_vars => Phases'
<1> SUFFICES ASSUME IInv, [Next]_vars PROVE Phases'
  OBVIOUS
<1> USE DEF IInv, Types, Phases, Listed, threadVars, treeVars, mainVars
<1>1. CASE Main
  BY <1>1 DEF Main, RefuseStart, Start, Join, RemoveDir, Return
<1>2. ASSUME NEW t \in Thread, Worker(t) PROVE Phases'
  <2>1. pc = "pool"
    BY <1>2 DEF Worker, Take, Begin, Finish, Summarise, Count, Report
  <2> QED
    BY <1>2, <2>1 DEF Worker, Take, Begin, Finish, Summarise, Count, Report
<1>3. CASE CtrlC \/ Create \/ UNCHANGED vars
  BY <1>3 DEF CtrlC, Create, vars
<1> QED
  BY <1>1, <1>2, <1>3 DEF Next

\* A file belongs to one thread, which knows what became of it.
LEMMA WorkStep == IInv /\ [Next]_vars => Work'
<1> SUFFICES ASSUME IInv, [Next]_vars PROVE Work'
  OBVIOUS
<1> USE DEF IInv, Types, TPC, Work, Reported, sumVars, treeVars, mainVars, threadVars
<1>1. CASE Main
  BY <1>1 DEF Main, RefuseStart, Start, Join, RemoveDir, Return, Phases
<1>2. ASSUME NEW t \in Thread, Take(t) PROVE Work'
  BY <1>2 DEF Take, Taken, Outcomes
<1>3. ASSUME NEW t \in Thread, Begin(t) PROVE Work'
  BY <1>3 DEF Begin
<1>4. ASSUME NEW t \in Thread, Finish(t) PROVE Work'
  BY <1>4 DEF Finish
<1>5. ASSUME NEW t \in Thread, Summarise(t) PROVE Work'
  BY <1>5 DEF Summarise, Errors
<1>6. ASSUME NEW t \in Thread, Count(t) PROVE Work'
  BY <1>6 DEF Count
<1>7. ASSUME NEW t \in Thread, Report(t) PROVE Work'
  BY <1>7 DEF Report
<1>8. CASE CtrlC \/ Create \/ UNCHANGED vars
  BY <1>8 DEF CtrlC, Create, vars
<1> QED
  BY <1>1, <1>2, <1>3, <1>4, <1>5, <1>6, <1>7, <1>8 DEF Next, Worker

\* No file is lost between the list, the threads and the summary.
LEMMA OutcomesStep == IInv /\ [Next]_vars => Outcomes'
<1> SUFFICES ASSUME IInv, [Next]_vars PROVE Outcomes'
  OBVIOUS
<1> USE DEF IInv, Types, TPC, Outcomes, Reported, sumVars, treeVars, mainVars, threadVars
<1>1. CASE Main
  <2>1. CASE Start
    <3>1. files = {} /\ processed = {} /\ failed = {} /\ files' = pending'
      BY <2>1 DEF Start, Phases
    <3>2. processed' = {} /\ failed' = {} /\ name' = name /\ files' \subseteq File
      BY <2>1, <3>1 DEF Start, Listed
    <3>3. \A f \in File : name[f] = "original"
      BY <3>1
    <3> QED
      BY <3>1, <3>2, <3>3
  <2>2. CASE RefuseStart \/ Join \/ RemoveDir \/ Return
    BY <2>2 DEF RefuseStart, Join, RemoveDir, Return
  <2> QED
    BY <1>1, <2>1, <2>2 DEF Main
<1>2. ASSUME NEW t \in Thread, Take(t) PROVE Outcomes'
  BY <1>2 DEF Take, Taken, CancelSeen
<1>3. ASSUME NEW t \in Thread, Begin(t) PROVE Outcomes'
  BY <1>3 DEF Begin
<1>4. ASSUME NEW t \in Thread, Finish(t) PROVE Outcomes'
  BY <1>4 DEF Finish, Work
<1>5. ASSUME NEW t \in Thread, Summarise(t) PROVE Outcomes'
  BY <1>5 DEF Summarise, Errors, Work
<1>6. ASSUME NEW t \in Thread, Count(t) PROVE Outcomes'
  BY <1>6 DEF Count
<1>7. ASSUME NEW t \in Thread, Report(t) PROVE Outcomes'
  BY <1>7 DEF Report
<1>8. CASE CtrlC \/ Create \/ UNCHANGED vars
  BY <1>8 DEF CtrlC, Create, vars
<1> QED
  BY <1>1, <1>2, <1>3, <1>4, <1>5, <1>6, <1>7, <1>8 DEF Next, Worker

-----------------------------------------------------------------------------
\* fetch_add hands out the numbers, and the callback takes each of them.
LEMMA CountsStep == IInv /\ [Next]_vars => Counts'
<1> SUFFICES ASSUME IInv, [Next]_vars PROVE Counts'
  OBVIOUS
<1> USE DEF IInv, Types, TPC, Reported, sumVars, treeVars, mainVars, threadVars
<1>1. CASE Main \/ CtrlC \/ Create \/ UNCHANGED vars
  <2>1. UNCHANGED <<done_counter, delivered, tdone, tpc, tfile, processed, failed>>
    BY <1>1 DEF Main, RefuseStart, Start, Join, RemoveDir, Return, CtrlC, Create,
                vars
  <2>2. CountedFiles' = CountedFiles
    BY <2>1 DEF CountedFiles
  <2> QED
    BY <2>1, <2>2 DEF Counts
<1>2. ASSUME NEW t \in Thread, Take(t) \/ Begin(t) \/ Finish(t) PROVE Counts'
  <2>1. UNCHANGED <<done_counter, delivered, tdone, processed, failed>>
    BY <1>2 DEF Take, Begin, Finish
  <2>2. \A u \in Thread : u # t => tpc'[u] = tpc[u] /\ tfile'[u] = tfile[u]
    BY <1>2 DEF Take, Begin, Finish
  <2>3. /\ tpc[t] \notin {"count", "report"}
        /\ tpc'[t] \notin {"count", "report"}
    BY <1>2 DEF Take, Begin, Finish
  <2>4. CountedFiles' = CountedFiles
    BY <2>1, <2>2, <2>3 DEF CountedFiles
  <2> QED
    BY <2>1, <2>2, <2>3, <2>4 DEF Counts
<1>3. ASSUME NEW t \in Thread, Summarise(t) PROVE Counts'
  <2>1. CountedFiles' = CountedFiles
    BY <1>3 DEF Summarise, Errors, CountedFiles, Work
  <2> QED
    BY <1>3, <2>1 DEF Summarise, Counts
<1>4. ASSUME NEW t \in Thread, Count(t) PROVE Counts'
  <2>1. CountedFiles' = CountedFiles \cup {tfile[t]} /\ tfile[t] \notin CountedFiles
    BY <1>4 DEF Count, CountedFiles, Work
  <2>2. IsFiniteSet(CountedFiles)
    BY FileAssumption, FS_Subset DEF CountedFiles
  <2>3. Cardinality(CountedFiles') = Cardinality(CountedFiles) + 1
    BY <2>1, <2>2, FS_AddElement
  <2>4. done_counter' = done_counter + 1 /\ done_counter' = Cardinality(CountedFiles')
    BY <1>4, <2>3 DEF Count, Counted, Counts
  <2>5. /\ tdone' = [tdone EXCEPT ![t] = done_counter']
        /\ tpc' = [tpc EXCEPT ![t] = "report"]
        /\ tpc[t] = "count"
        /\ delivered' = delivered
    BY <1>4 DEF Count
  <2> QED
    BY <2>4, <2>5 DEF Counts
<1>5. ASSUME NEW t \in Thread, Report(t) PROVE Counts'
  <2>1. CountedFiles' = CountedFiles
    BY <1>5 DEF Report, CountedFiles
  <2>2. /\ tdone' = [tdone EXCEPT ![t] = 0]
        /\ tpc' = [tpc EXCEPT ![t] = "idle"]
        /\ tpc[t] = "report"
        /\ delivered' = delivered \cup {tdone[t]}
        /\ done_counter' = done_counter
    BY <1>5 DEF Report
  <2>3. tdone[t] \in 1..done_counter
    BY <2>2 DEF Counts
  <2>4. \A n \in 1..done_counter :
           \/ n \in delivered'
           \/ \E u \in Thread : tpc'[u] = "report" /\ tdone'[u] = n
    <3> SUFFICES ASSUME NEW n \in 1..done_counter, n \notin delivered'
                 PROVE  \E u \in Thread : tpc'[u] = "report" /\ tdone'[u] = n
      OBVIOUS
    <3>1. PICK u \in Thread : tpc[u] = "report" /\ tdone[u] = n
      BY <2>2 DEF Counts
    <3>2. u # t
      BY <2>2, <3>1
    <3> QED
      BY <2>2, <3>1, <3>2
  <2>5. \A u \in Thread :
           /\ tdone'[u] # 0 => tpc'[u] = "report"
           /\ tpc'[u] = "report" => tdone'[u] \in 1..done_counter
    BY <2>2 DEF Counts
  <2>6. delivered' \subseteq 1..done_counter'
    BY <2>2, <2>3 DEF Counts
  <2>7. done_counter' = Cardinality(CountedFiles')
    BY <2>1, <2>2 DEF Counts
  <2>8. done_counter' = done_counter
    BY <2>2
  <2> QED
    BY <2>4, <2>5, <2>6, <2>7, <2>8 DEF Counts
<1> QED
  BY <1>1, <1>2, <1>3, <1>4, <1>5 DEF Next, Worker

\* After Ctrl-C a thread can only leave the set of those that wipe.
LEMMA LateStep == IInv /\ [Next]_vars => Late'
<1> SUFFICES ASSUME IInv, [Next]_vars PROVE Late'
  OBVIOUS
<1> USE DEF IInv, Types, TPC, sumVars, treeVars, mainVars, threadVars
<1>1. /\ IsFiniteSet(Shredding) /\ IsFiniteSet(Shredding')
      /\ Cardinality(Shredding) \in Nat /\ Cardinality(Shredding') \in Nat
      /\ Cardinality(Shredding') <= Cardinality(Thread)
      /\ Cardinality(Thread) \in Nat
  BY ThreadAssumption, FS_Subset, FS_CardinalityType DEF Shredding
<1>2. IsFiniteSet(lateWipes) /\ Cardinality(lateWipes) \in Nat
  BY FileAssumption, FS_Subset, FS_CardinalityType
<1>3. ASSUME Shredding' \subseteq Shredding, lateWipes' = lateWipes,
             ~cancel' => ~cancel
      PROVE  Late'
  <2>1. Cardinality(Shredding') <= Cardinality(Shredding)
    BY <1>1, <1>3, FS_Subset
  <2> QED
    BY <1>1, <1>2, <1>3, <2>1 DEF Late
<1>4. CASE Main \/ CtrlC \/ Create \/ UNCHANGED vars
  <2>1. tpc' = tpc /\ lateWipes' = lateWipes /\ (~cancel' => ~cancel)
    BY <1>4 DEF Main, RefuseStart, Start, Join, RemoveDir, Return, CtrlC, Create,
                vars
  <2> QED
    BY <1>3, <2>1 DEF Shredding
<1>5. ASSUME NEW t \in Thread,
             Take(t) \/ Summarise(t) \/ Count(t) \/ Report(t)
      PROVE  Late'
  <2>1. /\ \A u \in Thread : tpc'[u] = "shred" => tpc[u] = "shred"
        /\ lateWipes' = lateWipes /\ cancel' = cancel
    BY <1>5 DEF Take, Summarise, Count, Report
  <2> QED
    BY <1>3, <2>1 DEF Shredding
<1>6. ASSUME NEW t \in Thread, Begin(t) PROVE Late'
  <2>1. CASE cancel
    BY <1>3, <1>6, <2>1 DEF Begin, CancelSeen, Shredding
  <2>2. CASE ~cancel
    <3>1. lateWipes' = {} /\ cancel' = cancel
      BY <1>6, <2>2 DEF Begin, Late
    <3> QED
      BY <1>1, <3>1, FS_EmptySet DEF Late
  <2> QED
    BY <2>1, <2>2
<1>7. ASSUME NEW t \in Thread, Finish(t) PROVE Late'
  <2>1. Shredding' = Shredding \ {t} /\ t \in Shredding
    BY <1>7 DEF Finish, Shredding
  <2>2. Cardinality(Shredding') = Cardinality(Shredding) - 1
    BY <1>1, <2>1, FS_RemoveElement
  <2>3. cancel' = cancel /\ (~cancel => lateWipes' = lateWipes)
    BY <1>7 DEF Finish
  <2>4. Cardinality(lateWipes') \in Nat
        /\ Cardinality(lateWipes') <= Cardinality(lateWipes) + 1
    <3>1. Cardinality(lateWipes \cup {tfile[t]})
            \in {Cardinality(lateWipes), Cardinality(lateWipes) + 1}
      BY <1>2, FS_AddElement
    <3>2. lateWipes' = lateWipes \/ lateWipes' = lateWipes \cup {tfile[t]}
      BY <1>7 DEF Finish
    <3>3. Cardinality(lateWipes')
            \in {Cardinality(lateWipes), Cardinality(lateWipes) + 1}
      BY <3>1, <3>2
    <3> QED
      BY <1>2, <3>3
  <2> QED
    BY <1>1, <1>2, <2>2, <2>3, <2>4 DEF Late
<1> QED
  BY <1>4, <1>5, <1>6, <1>7 DEF Next, Worker

-----------------------------------------------------------------------------
\* A set of natural numbers has a least element.
LEMMA LeastNumber ==
    ASSUME NEW T, T \subseteq Nat, T # {}
    PROVE  \E x \in T : \A y \in T : x <= y
<1> DEFINE R == OpToRel(<, Nat)
<1>1. IsWellFoundedOn(R, Nat)
  BY NatLessThanWellFounded
<1>2. \A x, y \in Nat : <<y, x>> \in R <=> y < x
  BY DEF OpToRel
<1> HIDE DEF R
<1>3. PICK x \in T : \A y \in T : ~(<<y, x>> \in R)
  BY <1>1, WFMin
<1>4. ASSUME NEW y \in T PROVE x <= y
  <2>1. ~(y < x) /\ x \in Nat /\ y \in Nat
    BY <1>2, <1>3
  <2> QED
    BY ONLY <2>1
<1> QED
  BY <1>4

(***************************************************************************)
(* Depth is what its recursive definition says, and a directory is deeper  *)
(* than the one it is in.                                                  *)
(***************************************************************************)
LEMMA DeeperThanParent ==
    /\ \A d \in Dir : Depth[d] \in Nat
    /\ \A d \in Dir \ {Root} : Depth[ParentOf[d]] < Depth[d]
<1> DEFINE Step(f, d) == IF d = Root THEN 0 ELSE f[ParentOf[d]] + 1
           IsDepth(f) == f = [d \in Dir |-> Step(f, d)]
<1>1. PICK depth \in [Dir -> 0..Cardinality(Dir)] : \A d \in Dir : depth[d] = Step(depth, d)
  BY DepthAssumption
<1>2. \A d \in Dir : depth[d] \in Nat
  BY <1>1, DepthAssumption, FS_CardinalityType
<1>3. IsDepth(depth)
  BY <1>1
<1>4. Depth = CHOOSE f : IsDepth(f)
  BY DEF Depth
<1>5. IsDepth(Depth)
  <2> HIDE DEF IsDepth
  <2> QED
    BY <1>3, <1>4, Zenon
<1>6. \A d \in Dir : Depth[d] = Step(Depth, d)
  <2>1. Depth = [d \in Dir |-> Step(Depth, d)]
    BY <1>5
  <2> HIDE DEF Step, IsDepth
  <2> QED
    BY <2>1
<1>7. \A d \in Dir \ {Root} : ParentOf[d] \in Dir
  BY TreeAssumption
<1>8. \A d \in Dir : Depth[d] = depth[d]
  <2> DEFINE Wrong == {d \in Dir : Depth[d] # depth[d]}
             T == {depth[d] : d \in Wrong}
  <2> SUFFICES ASSUME Wrong # {} PROVE FALSE
    OBVIOUS
  <2>1. T \subseteq Nat /\ T # {}
    BY <1>2
  <2>2. PICK n \in T : \A k \in T : n <= k
    <3> HIDE DEF T
    <3> QED
      BY <2>1, LeastNumber
  <2>3. PICK d \in Wrong : depth[d] = n
    OBVIOUS
  <2>4. d # Root /\ ParentOf[d] \in Dir
    BY <1>1, <1>6, <1>7, <2>3
  <2>5. depth[d] = depth[ParentOf[d]] + 1 /\ Depth[d] = Depth[ParentOf[d]] + 1
    BY <1>1, <1>6, <2>4
  <2>6. ParentOf[d] \in Wrong
    BY <2>3, <2>4, <2>5
  <2>7. depth[d] <= depth[ParentOf[d]]
    BY <2>2, <2>3, <2>6
  <2> QED
    BY <1>2, <2>4, <2>5, <2>7
<1> QED
  BY <1>1, <1>2, <1>7, <1>8

(***************************************************************************)
(* One removal of the second walk.  The directories that have had their    *)
(* turn are no shallower than d, so none of them is the one d is in, and   *)
(* what was in them still is.                                              *)
(***************************************************************************)
LEMMA RemovalKeepsOthers ==
    ASSUME IInv, Joined, NEW d \in todo, NEW c \in Tried, ~Empty(c),
           dirs' = dirs \/ dirs' = dirs \ {d}, UNCHANGED <<name, others>>
    PROVE  ~Empty(c)'
<1>1. d \in Dir /\ c \in Dir /\ dirs \subseteq Dir
  BY DEF IInv, Types, Tried
<1>2. Depth[d] <= Depth[c]
  BY DEF IInv, Sweep
<1>3. d = Root \/ ParentOf[d] # c
  BY <1>1, <1>2, DeeperThanParent
<1> QED
  BY <1>3 DEF Empty

\* A directory that has had its turn is left for a reason.
LEMMA SweepStep == IInv /\ [Next]_vars => Sweep'
<1> SUFFICES ASSUME IInv, [Next]_vars PROVE Sweep'
  OBVIOUS
<1> USE DEF threadVars, sumVars, treeVars, mainVars, sweepVars
<1>1. CASE RefuseStart \/ Start
  BY <1>1 DEF RefuseStart, Start, Sweep, Joined, IInv, Phases
<1>2. CASE Join
  <2>1. Tried' = {}
    BY <1>2 DEF Join, Tried, Visible, Listed
  <2> QED
    BY <1>2, <2>1 DEF Join, Sweep
<1>3. CASE RemoveDir
  <2>1. Joined /\ pc = "sweep" /\ pc' = "sweep"
    BY <1>3 DEF RemoveDir, Joined, IInv, Phases
  <2>2. PICK d \in todo :
          /\ ComesNext(d)
          /\ todo' = todo \ {d}
          /\ \/ /\ Empty(d)
                /\ dirs' = dirs \ {d}
                /\ UNCHANGED rmFailed
             \/ /\ ~Empty(d)
                /\ UNCHANGED <<dirs, rmFailed>>
             \/ /\ rmFailed' = rmFailed \cup {d}
                /\ UNCHANGED dirs
    BY <1>3 DEF RemoveDir
  <2>3. UNCHANGED <<name, others, unreadable>>
    BY <1>3 DEF RemoveDir
  <2>4. Tried' \subseteq Tried \cup {d} /\ (d \in Tried' => dirs' = dirs)
    BY <2>2, <2>3 DEF Tried, Visible
  <2>5. ASSUME NEW c \in Tried' PROVE ~Empty(c)' \/ c \in rmFailed'
    <3>1. CASE c \in Tried
      <4>1. ~Empty(c) \/ c \in rmFailed
        BY <2>1, <3>1 DEF IInv, Sweep
      <4>2. dirs' = dirs \/ dirs' = dirs \ {d}
        BY <2>2
      <4>3. ~Empty(c) => ~Empty(c)'
        BY <2>1, <2>3, <3>1, <4>2, RemovalKeepsOthers
      <4> QED
        BY <2>2, <4>1, <4>3
    <3>2. CASE c = d
      <4>1. dirs' = dirs /\ d \in dirs'
        BY <2>4, <3>2 DEF Tried
      <4>2. ~Empty(d) \/ d \in rmFailed'
        BY <2>2, <4>1
      <4>3. ~Empty(d) => ~Empty(d)'
        BY <2>3, <4>1 DEF Empty
      <4> QED
        BY <3>2, <4>2, <4>3
    <3> QED
      BY <2>4, <3>1, <3>2
  <2>6. ASSUME NEW c \in Tried', NEW e \in todo' PROVE Depth[e] <= Depth[c]
    BY <2>1, <2>2, <2>4 DEF IInv, Sweep, ComesNext
  <2> QED
    BY <2>1, <2>5, <2>6 DEF Sweep
<1>4. CASE Return
  <2>1. todo' = {} /\ UNCHANGED <<dirs, name, others, unreadable, todo, rmFailed>>
        /\ pc = "sweep"
    BY <1>4 DEF Return
  <2>2. Joined /\ Tried' = Tried /\ \A d \in Tried : Empty(d)' <=> Empty(d)
    BY <2>1 DEF Joined, IInv, Phases, Tried, Visible, Empty
  <2> QED
    BY <2>1, <2>2 DEF IInv, Sweep
<1>5. ASSUME NEW t \in Thread, Worker(t) PROVE Sweep'
  <2>1. pc = "pool" /\ pc' = "pool"
    BY <1>5 DEF Worker, Take, Begin, Finish, Summarise, Count, Report, IInv, Phases
  <2> QED
    BY <2>1 DEF Sweep, Joined
<1>6. CASE CtrlC \/ UNCHANGED vars
  BY <1>6 DEF CtrlC, vars, IInv, Sweep, Joined, Tried, Visible, Empty
<1>7. CASE Create
  <2>1. UNCHANGED <<pc, result, dirs, name, unreadable, todo, rmFailed>> /\ others \subseteq others'
    BY <1>7 DEF Create
  <2>2. (Joined' <=> Joined) /\ Tried' = Tried /\ \A d \in Tried : ~Empty(d) => ~Empty(d)'
    BY <2>1 DEF Joined, Tried, Visible, Empty
  <2> QED
    BY <2>1, <2>2 DEF IInv, Sweep
<1> QED
  BY <1>1, <1>2, <1>3, <1>4, <1>5, <1>6, <1>7 DEF Next, Main

-----------------------------------------------------------------------------
THEOREM StepInv == IInv /\ [Next]_vars => IInv'
  BY TypesStep, PhasesStep, WorkStep, OutcomesStep, CountsStep, LateStep, SweepStep
     DEF IInv

THEOREM AlwaysInv == Spec => []IInv
  BY InitInv, StepInv, PTL DEF Spec

(***************************************************************************)
(* Type correctness: no count ever exceeds the number of files listed      *)
(* (directory.rs:40-109).                                                  *)
(***************************************************************************)
THEOREM TypesHold == Spec => []TypeOK
<1>1. IInv => TypeOK
  <2> SUFFICES ASSUME IInv PROVE TypeOK
    OBVIOUS
  <2> USE DEF IInv, Types, Counts
  <2>1. CountedFiles \subseteq files /\ IsFiniteSet(files)
    BY FileAssumption, FS_Subset DEF CountedFiles, Reported
  <2>2. done_counter <= Cardinality(files) /\ Cardinality(files) \in Nat
    BY <2>1, FS_Subset, FS_CardinalityType
  <2>3. \A t \in Thread : tdone[t] \in 0..Cardinality(files)
    BY <2>2
  <2>4. delivered \subseteq 1..Cardinality(files)
    BY <2>2
  <2>5. tdone \in [Thread -> 0..Cardinality(files)]
    BY <2>3
  <2> QED
    BY <2>2, <2>4, <2>5 DEF TypeOK
<1> QED
  BY AlwaysInv, <1>1, PTL

(***************************************************************************)
(* The summary is the truth about the tree (directory.rs:47-92).           *)
(***************************************************************************)
THEOREM SummaryIsTrue == Spec => []SummaryTrue
<1>1. IInv => SummaryTrue
  BY DEF IInv, Types, Phases, Outcomes, Reported, SummaryTrue, Joined, Listed
<1> QED
  BY AlwaysInv, <1>1, PTL

(***************************************************************************)
(* Every count reaches the callback once the pool has joined               *)
(* (directory.rs:85-90).                                                   *)
(***************************************************************************)
THEOREM CountsAreDelivered == Spec => []EveryCountDelivered
<1>1. IInv => EveryCountDelivered
  <2> SUFFICES ASSUME IInv, Joined PROVE /\ done_counter = Cardinality(processed) + Cardinality(failed)
                                         /\ delivered = 1..done_counter
    BY DEF EveryCountDelivered
  <2> USE DEF IInv, Types
  <2>1. \A t \in Thread : tpc[t] = "idle"
    BY DEF Joined, Phases
  <2>2. CountedFiles = processed \cup failed
    BY <2>1 DEF CountedFiles, Reported
  <2>3. /\ IsFiniteSet(processed) /\ IsFiniteSet(failed)
        /\ Cardinality(processed) \in Nat /\ Cardinality(failed) \in Nat
    BY FileAssumption, FS_Subset, FS_CardinalityType
  <2>4. processed \cap failed = {}
    BY DEF Outcomes
  <2>5. Cardinality(processed \cup failed)
          = Cardinality(processed) + Cardinality(failed) - Cardinality(processed \cap failed)
    BY <2>3, FS_Union
  <2>6. Cardinality(processed \cap failed) = 0
    BY <2>4, FS_EmptySet
  <2>7. Cardinality(CountedFiles) = Cardinality(processed) + Cardinality(failed)
    BY <2>2, <2>3, <2>5, <2>6
  <2>8. delivered = 1..done_counter
    BY <2>1 DEF Counts
  <2> QED
    BY <2>7, <2>8 DEF Counts
<1> QED
  BY AlwaysInv, <1>1, PTL

(***************************************************************************)
(* After Ctrl-C no thread wipes more than the file it was working on       *)
(* (directory.rs:67-71).                                                   *)
(***************************************************************************)
THEOREM CancelStopsTheRest == Spec => []CancelStopsNew
<1>1. IInv => CancelStopsNew
  <2> SUFFICES ASSUME IInv PROVE CancelStopsNew
    OBVIOUS
  <2>1. /\ Cardinality(Shredding) \in Nat
        /\ Cardinality(lateWipes) \in Nat
        /\ Cardinality(Thread) \in Nat
    BY ThreadAssumption, FileAssumption, FS_Subset, FS_CardinalityType
       DEF Shredding, IInv, Types
  <2> QED
    BY <2>1 DEF IInv, Late, CancelStopsNew
<1> QED
  BY AlwaysInv, <1>1, PTL

(***************************************************************************)
(* A directory that is left when shred_directory returns is not empty, or  *)
(* its removal failed, or it could not be seen: one walk from the deepest  *)
(* up is enough for every tree (directory.rs:94-105).                      *)
(***************************************************************************)
THEOREM OneSweepIsEnough == Spec => []LeftDirsHaveReason
<1>1. IInv => LeftDirsHaveReason
  BY DEF IInv, Sweep, LeftDirsHaveReason, Tried, Visible
<1> QED
  BY AlwaysInv, <1>1, PTL
=============================================================================
