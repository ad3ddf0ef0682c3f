-------------------------- MODULE FileShred_proofs --------------------------
(***************************************************************************)
(* Proofs about FileShred, for every file length, every set of patterns    *)
(* and every set of options the assumptions allow.                         *)
(*                                                                         *)
(* None of the properties is inductive: that the disk holds the last pass  *)
(* when the name goes rests on where the write loop stands in cache and    *)
(* disk at every earlier step.  IInv says that.                            *)
(***************************************************************************)
EXTENDS FileShred, TLAPS

Cur == FillPass(pattern, passes_completed)

Prev == FillPass(pattern, passes_completed - 1)

Holds(f, from, to, content) == \A c \in from..to : f[c] = content

\* The directory: a file being overwritten still has its name, and the
\* durable entry never runs ahead of the live one.
DirInv ==
    /\ pc \in {"pass", "check", "write", "sync", "verify"} =>
         entry = "original" /\ renames = 0
    /\ pc # "idle" => entry # "gone"
    /\ entry = "original" => diskEntry = "original"
    /\ diskEntry = "gone" => entry = "gone"

\* Between passes: the last completed pass is in the cache and on the disk.
BetweenPasses ==
    pc = "pass" =>
        /\ passes_completed < Total
        /\ passes_completed > 0 => /\ Holds(cache, 1, file_len, Prev)
                                   /\ Holds(disk, 1, file_len, Prev)

\* Within a pass: the prefix written so far is in the cache; the disk may
\* have any part of it; the rest still holds the pass before.
WithinPass ==
    pc \in {"check", "write", "sync"} =>
        /\ passes_completed < Total
        /\ pc = "write" => remaining > 0
        /\ pc = "sync" => remaining = 0
        /\ Holds(cache, 1, file_len - remaining, Cur)
        /\ passes_completed > 0 =>
             /\ \A c \in 1..(file_len - remaining) : disk[c] \in {Prev, Cur}
             /\ Holds(cache, file_len - remaining + 1, file_len, Prev)
             /\ Holds(disk, file_len - remaining + 1, file_len, Prev)

\* After the passes, and for ever once the name is gone.
Erased ==
    /\ Holds(cache, 1, file_len, LastFill)
    /\ Holds(disk, 1, file_len, LastFill)

AfterPasses ==
    /\ pc \in {"verify", "rename", "unlink"} =>
         passes_completed = Total /\ Erased
    /\ pc = "rename" => renames < RENAME_ROUNDS
    /\ entry # "original" => Erased

\* What the program did not write into the cache is not on the disk either.
NothingReappears == \A c \in Chunk : cache[c] = "orig" => disk[c] = "orig"

CancelInv ==
    /\ lateWrites <= 1
    /\ ~cancel => lateWrites = 0
    /\ pc = "write" => lateWrites = 0
    /\ outcome # "none" => pc = "idle"
    /\ outcome = "cancelled" => /\ cancel
                                /\ passes_completed < Total
                                /\ entry = "original"

IInv ==
    /\ TypeOK
    /\ DirInv
    /\ BetweenPasses
    /\ WithinPass
    /\ AfterPasses
    /\ NothingReappears
    /\ CancelInv

-----------------------------------------------------------------------------
(* What a pass writes is never taken for the contents of the caller. *)
LEMMA FillPassType ==
    \A p, i : FillPass(p, i) \in Fill /\ FillPass(p, i) # "orig"
BY DEF FillPass, Fill

(* MultiRandom(0) counts as one pass: no pattern has none. *)
LEMMA PassesType == \A p \in Patterns : Passes(p) \in Nat /\ Passes(p) > 0
BY PatternsAssumption DEF Passes, Pattern

(* sync_all makes the cache durable, since every caller asks for it. *)
LEMMA SyncedMeansCache == TypeOK => Synced = cache
BY CallersSync DEF Synced, TypeOK

(* The invariant holds initially: nothing was written or renamed. *)
THEOREM InitInv == Init => IInv
<1> SUFFICES ASSUME Init PROVE IInv
    OBVIOUS
<1> USE PassesType, MaxLenAssumption DEF Init
<1>1. TypeOK
  <2>1. passes_completed \in 0..Passes(pattern)
      OBVIOUS
  <2>2. progress \in [done : Nat, pass : Nat]
      OBVIOUS
  <2>3. cache \in [Chunk -> Content] /\ disk \in [Chunk -> Content]
      BY DEF Content
  <2>4. cancel \in BOOLEAN /\ warned \in BOOLEAN
      OBVIOUS
  <2>5. file_len \in 0..MaxLen /\ remaining \in 0..file_len
          /\ size \in file_len..MaxLen
      OBVIOUS
  <2>6. pc \in PC /\ outcome \in Outcome /\ entry \in Entry
          /\ diskEntry \in Entry
      BY DEF PC, Outcome, Entry
  <2>7. renames \in 0..RENAME_ROUNDS /\ bytes_wiped \in Nat
          /\ lateWrites \in Nat
      BY DEF RENAME_ROUNDS
  <2>8. pattern \in Patterns /\ opts \in OptionSet /\ kind \in {"file", "dir"}
      OBVIOUS
  <2> HIDE DEF Init
  <2>9. QED BY <2>1, <2>2, <2>3, <2>4, <2>5, <2>6, <2>7, <2>8 DEF TypeOK
<1>2. DirInv
    BY DEF DirInv, Content
<1>3. BetweenPasses
    BY DEF BetweenPasses, Holds, Prev, Cur, Erased, LastFill, Total, Content
<1>4. WithinPass
    BY DEF WithinPass, Holds, Prev, Cur, Erased, LastFill, Total, Content
<1>5. AfterPasses
    BY DEF AfterPasses, Holds, Prev, Cur, Erased, LastFill, Total, Content
<1>6. NothingReappears
    BY DEF NothingReappears, Content
<1>7. CancelInv
    BY DEF CancelInv, Total, Content
<1>8. QED BY <1>1, <1>2, <1>3, <1>4, <1>5, <1>6, <1>7 DEF IInv

(* The invariant is inductive: every step of the call and of its            *)
(* environment preserves it.                                               *)
THEOREM StepInv == IInv /\ [Next]_vars => IInv'
<1> SUFFICES ASSUME IInv, [Next]_vars PROVE IInv'
    OBVIOUS
<1> USE PassesType, FillPassType, MaxLenAssumption DEF IInv, Content
<1>1. CASE Call
  <2> USE <1>1 DEF Call, callVars, countVars, fileVars, dirVars
  <2>1. TypeOK'
    <3>1. (passes_completed \in 0..Passes(pattern))'
        OBVIOUS
    <3>2. progress' \in [done : Nat, pass : Nat]
        OBVIOUS
    <3>3. (cancel \in BOOLEAN /\ warned \in BOOLEAN)'
        BY DEF TypeOK
    <3>4. (file_len \in 0..MaxLen /\ remaining \in 0..file_len
            /\ size \in file_len..MaxLen)'
        BY DEF TypeOK
    <3>5. (pc \in PC /\ outcome \in Outcome)'
        BY DEF PC, Outcome
    <3>6. (renames \in 0..RENAME_ROUNDS /\ bytes_wiped \in Nat
            /\ lateWrites \in Nat)'
        BY DEF RENAME_ROUNDS
    <3>7. (pattern \in Patterns /\ opts \in OptionSet)'
        OBVIOUS
    <3>8. (/\ kind \in {"file", "dir"} /\ entry \in Entry /\ diskEntry \in Entry
           /\ cache \in [Chunk -> Content] /\ disk \in [Chunk -> Content])'
        BY DEF TypeOK
    <3> HIDE <1>1
    <3>9. QED BY <3>1, <3>2, <3>3, <3>4, <3>5, <3>6, <3>7, <3>8 DEF TypeOK
  <2>2. DirInv'
      BY DEF DirInv
  <2>3. BetweenPasses'
      BY DEF BetweenPasses, Holds, Prev, Cur, Erased, LastFill, Total
  <2>4. WithinPass'
      BY DEF WithinPass, Holds, Prev, Cur, Erased, LastFill, Total
  <2>5. AfterPasses'
      BY DEF AfterPasses, Holds, Prev, Cur, Erased, LastFill, Total
  <2>6. NothingReappears'
      BY DEF NothingReappears
  <2>7. CancelInv'
      BY DEF CancelInv, Total
  <2>8. QED BY <2>1, <2>2, <2>3, <2>4, <2>5, <2>6, <2>7
<1>2. CASE CallFails
    BY <1>2 DEF CallFails, callVars, countVars, fileVars, dirVars, TypeOK,
       DirInv, BetweenPasses, WithinPass, AfterPasses, NothingReappears,
       CancelInv, Holds, Prev, Cur, Erased, LastFill, Total, PC, Outcome,
       Entry
<1>3. CASE BeginPass
  <2> USE <1>3 DEF BeginPass, callVars, countVars, fileVars, dirVars, Return,
     CancelSeen
  <2>1. TypeOK'
      BY DEF TypeOK, Total, PC, Outcome, Entry, RENAME_ROUNDS
  <2>2. WithinPass'
      BY DEF WithinPass, Holds, Prev, Cur, Erased, LastFill, Total, TypeOK,
         BetweenPasses
  <2>3. CancelInv'
      BY DEF CancelInv, Total, DirInv, BetweenPasses
  <2>4. DirInv' /\ BetweenPasses' /\ AfterPasses' /\ NothingReappears'
      BY DEF DirInv, BetweenPasses, Holds, Prev, Cur, Erased, LastFill, Total,
         AfterPasses, NothingReappears
  <2>5. QED BY <2>1, <2>2, <2>3, <2>4
<1>4. CASE CheckChunk
  <2> USE <1>4 DEF CheckChunk, callVars, countVars, fileVars, dirVars, Return,
     CancelSeen, BreakPasses
  <2>1. TypeOK'
      BY DEF TypeOK, Total, PC, Outcome, Entry, RENAME_ROUNDS
  <2>2. CancelInv'
      BY DEF CancelInv, Total, DirInv, WithinPass
  <2>3. /\ DirInv' /\ BetweenPasses' /\ WithinPass'
        /\ AfterPasses' /\ NothingReappears'
      BY DEF DirInv, BetweenPasses, Holds, Prev, Cur, Erased, LastFill, Total,
         WithinPass, AfterPasses, NothingReappears
  <2>4. QED BY <2>1, <2>2, <2>3
<1>5. CASE WriteChunk
  <2> USE <1>5 DEF WriteChunk, callVars, countVars, fileVars, dirVars,
     Overwrite, NextChunk
  <2>1. TypeOK'
      BY DEF TypeOK, Total, PC, Outcome, Entry, RENAME_ROUNDS, WithinPass,
         Chunk
  <2>2. WithinPass'
      BY DEF WithinPass, Holds, Prev, Cur, Erased, LastFill, Total, TypeOK,
         Chunk
  <2>3. AfterPasses'
      BY DEF AfterPasses, Holds, Prev, Cur, Erased, LastFill, Total, DirInv
  <2>4. DirInv' /\ BetweenPasses' /\ NothingReappears' /\ CancelInv'
      BY DEF DirInv, BetweenPasses, Holds, Prev, Cur, Erased, LastFill, Total,
         NothingReappears, CancelInv
  <2>5. QED BY <2>1, <2>2, <2>3, <2>4
<1>6. CASE SyncPass
  <2> USE <1>6 DEF SyncPass, callVars, countVars, fileVars, dirVars, Synced,
     PassCounted
  <2>1. TypeOK'
      BY DEF TypeOK, Total, PC, Outcome, Entry, RENAME_ROUNDS, WithinPass
  <2>2. BetweenPasses'
    <3> SUFFICES ASSUME pc' = "pass" PROVE BetweenPasses'
        BY DEF BetweenPasses
    <3>1. Holds(cache, 1, file_len, Cur)
        BY DEF WithinPass, TypeOK, Holds
    <3>2. Cur = Prev'
        BY DEF Cur, Prev, TypeOK
    <3>3. (Holds(cache, 1, file_len, Prev) /\ Holds(disk, 1, file_len, Prev))'
        BY <3>1, <3>2, SyncedMeansCache DEF Holds, TypeOK
    <3>4. (passes_completed < Total)'
        BY DEF Total
    <3>5. QED BY <3>3, <3>4 DEF BetweenPasses
  <2>3. AfterPasses'
    <3> SUFFICES ASSUME pc' = "verify" PROVE AfterPasses'
        BY DEF AfterPasses, DirInv
    <3>1. Holds(cache, 1, file_len, Cur)
        BY DEF WithinPass, TypeOK, Holds
    <3>2. passes_completed' = Total /\ Total' = Total
        BY DEF Total, TypeOK, WithinPass
    <3>3. Cur = LastFill'
        BY <3>2 DEF Cur, LastFill, TypeOK, Total
    <3>4. Erased'
        BY <3>1, <3>3, SyncedMeansCache DEF Holds, Erased
    <3>5. QED BY <3>2, <3>4 DEF AfterPasses, DirInv
  <2>4. DirInv' /\ WithinPass' /\ NothingReappears' /\ CancelInv'
      BY DEF DirInv, WithinPass, Holds, Prev, Cur, Erased, LastFill, Total,
         NothingReappears, CancelInv
  <2>5. QED BY <2>1, <2>2, <2>3, <2>4
<1>7. CASE Verify
  <2> USE <1>7 DEF Verify, callVars, countVars, fileVars, dirVars
  <2>1. TypeOK'
      BY DEF TypeOK, Total, PC, Outcome, Entry, RENAME_ROUNDS
  <2>2. AfterPasses'
      BY DEF AfterPasses, Holds, Prev, Cur, Erased, LastFill, Total, DirInv,
         RENAME_ROUNDS
  <2>3. /\ DirInv' /\ BetweenPasses' /\ WithinPass'
        /\ NothingReappears' /\ CancelInv'
      BY DEF DirInv, BetweenPasses, Holds, Prev, Cur, Erased, LastFill, Total,
         WithinPass, NothingReappears, CancelInv
  <2>4. QED BY <2>1, <2>2, <2>3
<1>8. CASE Rename
  <2> USE <1>8 DEF Rename, callVars, countVars, fileVars, dirVars, MoreRounds,
     RENAME_ROUNDS
  <2>1. TypeOK'
      BY DEF TypeOK, Total, PC, Outcome, Entry, RENAME_ROUNDS, AfterPasses
  <2>2. /\ DirInv' /\ BetweenPasses' /\ WithinPass' /\ AfterPasses'
        /\ NothingReappears' /\ CancelInv'
      BY DEF DirInv, BetweenPasses, Holds, Prev, Cur, Erased, LastFill, Total,
         WithinPass, AfterPasses, NothingReappears, CancelInv
  <2>3. QED BY <2>1, <2>2
<1>9. CASE Unlink
  <2> USE <1>9 DEF Unlink, callVars, countVars, fileVars, dirVars, Return
  <2>1. TypeOK'
      BY DEF TypeOK, Total, PC, Outcome, Entry, RENAME_ROUNDS
  <2>2. /\ DirInv' /\ BetweenPasses' /\ WithinPass' /\ AfterPasses'
        /\ NothingReappears' /\ CancelInv'
      BY DEF DirInv, BetweenPasses, Holds, Prev, Cur, Erased, LastFill, Total,
         WithinPass, AfterPasses, NothingReappears, CancelInv
  <2>3. QED BY <2>1, <2>2
<1>10. CASE Fails
  <2> USE <1>10 DEF Fails, callVars, countVars, fileVars, dirVars, Return,
     CancelSeen, Overwrite, NextChunk
  <2>1. TypeOK'
      BY DEF TypeOK, Total, PC, Outcome, Entry, RENAME_ROUNDS
  <2>2. AfterPasses'
      BY DEF AfterPasses, Holds, Prev, Cur, Erased, LastFill, Total, DirInv
  <2>3. NothingReappears'
      BY DEF NothingReappears, TypeOK, Chunk
  <2>4. DirInv' /\ BetweenPasses' /\ WithinPass' /\ CancelInv'
      BY DEF DirInv, BetweenPasses, Holds, Prev, Cur, Erased, LastFill, Total,
         WithinPass, CancelInv
  <2>5. QED BY <2>1, <2>2, <2>3, <2>4
<1>11. CASE CtrlC
    BY <1>11 DEF CtrlC, callVars, countVars, fileVars, dirVars, TypeOK,
       DirInv, BetweenPasses, WithinPass, AfterPasses, NothingReappears,
       CancelInv, Holds, Prev, Cur, Erased, LastFill, Total, PC, Outcome,
       Entry
<1>12. CASE Grow
    BY <1>12 DEF Grow, callVars, countVars, fileVars, dirVars, TypeOK,
       DirInv, BetweenPasses, WithinPass, AfterPasses, NothingReappears,
       CancelInv, Holds, Prev, Cur, Erased, LastFill, Total, PC, Outcome,
       Entry
<1>13. CASE WriteBack
  <2> USE <1>13 DEF WriteBack, callVars, countVars, fileVars, dirVars
  <2>1. TypeOK'
      BY DEF TypeOK, Total, PC, Outcome, Entry, RENAME_ROUNDS
  <2>2. BetweenPasses'
      BY DEF BetweenPasses, Holds, Prev, Cur, Erased, LastFill, Total, TypeOK,
         Chunk
  <2>3. WithinPass'
      BY DEF WithinPass, Holds, Prev, Cur, Erased, LastFill, Total, TypeOK,
         Chunk
  <2>4. AfterPasses'
      BY DEF AfterPasses, Holds, Prev, Cur, Erased, LastFill, Total, TypeOK,
         DirInv, Chunk
  <2>5. NothingReappears'
      BY DEF NothingReappears, TypeOK
  <2>6. DirInv' /\ CancelInv'
      BY DEF DirInv, CancelInv, Total
  <2>7. QED BY <2>1, <2>2, <2>3, <2>4, <2>5, <2>6
<1>14. CASE Kill
    BY <1>14 DEF Kill, callVars, countVars, fileVars, dirVars, Return, TypeOK,
       DirInv, BetweenPasses, WithinPass, AfterPasses, NothingReappears,
       CancelInv, Holds, Prev, Cur, Erased, LastFill, Total, PC, Outcome,
       Entry
<1>15. CASE PowerLoss
  <2> USE <1>15 DEF PowerLoss, callVars, countVars, fileVars, dirVars, Return
  <2>1. TypeOK'
      BY DEF TypeOK, Total, PC, Outcome, Entry, RENAME_ROUNDS
  <2>2. AfterPasses'
      BY DEF AfterPasses, Holds, Prev, Cur, Erased, LastFill, Total, DirInv
  <2>3. /\ DirInv' /\ BetweenPasses' /\ WithinPass'
        /\ NothingReappears' /\ CancelInv'
      BY DEF DirInv, BetweenPasses, Holds, Prev, Cur, Erased, LastFill, Total,
         WithinPass, NothingReappears, CancelInv
  <2>4. QED BY <2>1, <2>2, <2>3
<1>16. CASE UNCHANGED vars
  BY <1>16 DEF vars, callVars, countVars, fileVars, dirVars, TypeOK, DirInv,
     BetweenPasses, WithinPass, AfterPasses, NothingReappears, CancelInv,
     Holds, Prev, Cur, Erased, LastFill, Total, PC, Outcome, Entry, Chunk
<1>17. QED
  BY <1>1, <1>2, <1>3, <1>4, <1>5, <1>6, <1>7, <1>8, <1>9, <1>10, <1>11,
     <1>12, <1>13, <1>14, <1>15, <1>16 DEF Next, Step, Environment

-----------------------------------------------------------------------------
(* IInv holds in every reachable state. *)
THEOREM Invariance == Spec => []IInv
BY InitInv, StepInv, PTL DEF Spec

(* Every variable keeps the type its field or variable has in the code, *)
(* counters included: no pass and no rename round is one too many.      *)
THEOREM TypeCorrect == Spec => []TypeOK
<1>1. IInv => TypeOK
    BY DEF IInv
<1>2. QED BY <1>1, Invariance, PTL

(* The name goes only when the last pass is durable (engine.rs:151-152). *)
THEOREM NameOutlivesContents == Spec => []HiddenMeansErased
<1>1. IInv => HiddenMeansErased
    BY DEF IInv, DirInv, AfterPasses, Erased, Holds, HiddenMeansErased
<1>2. QED BY <1>1, Invariance, PTL

(* The medium is never more than one pass behind (engine.rs:118-121). *)
THEOREM PassesReachTheDisk == Spec => []DurablePasses
<1>1. IInv => DurablePasses
  <2> SUFFICES ASSUME IInv, pc # "idle", passes_completed > 0,
                      NEW c \in 1..file_len
               PROVE  disk[c] \in {Prev, Cur}
      BY DEF DurablePasses, Prev, Cur
  <2>1. CASE pc = "pass"
      BY <2>1 DEF IInv, BetweenPasses, Holds
  <2>2. CASE pc \in {"check", "write", "sync"}
      BY <2>2 DEF IInv, WithinPass, Holds, TypeOK
  <2>3. CASE pc \in {"verify", "rename", "unlink"}
      BY <2>3 DEF IInv, AfterPasses, Erased, Holds, Prev, LastFill
  <2>4. QED BY <2>1, <2>2, <2>3 DEF IInv, TypeOK, PC
<1>2. QED BY <1>1, Invariance, PTL

(* Ctrl-C costs at most one more chunk and never the file (engine.rs:49-54). *)
THEOREM CancelKeepsTheFile == Spec => []CancelPrompt
<1>1. IInv => CancelPrompt
    BY DEF IInv, CancelInv, CancelPrompt
<1>2. QED BY <1>1, Invariance, PTL

-----------------------------------------------------------------------------
(* shred_file implements SecureErase.                                      *)
(* The residue can only shrink while the file keeps its length. *)
LEMMA ResidueShrinks ==
    ASSUME \A c \in Chunk : disk'[c] = "orig" => disk[c] = "orig",
           UNCHANGED <<file_len, entry>>, TypeOK
    PROVE  SE!Erase
<1>1. Residue' \in SUBSET Residue
  <2> SUFFICES ASSUME NEW c \in 1..file_len, disk'[c] = "orig"
               PROVE  disk[c] = "orig"
      BY DEF Residue
  <2>1. c \in Chunk
      BY MaxLenAssumption DEF TypeOK, Chunk
  <2>2. QED BY <2>1
<1>2. UNCHANGED <<1..file_len, entry>>
    OBVIOUS
<1>3. QED BY <1>1, <1>2 DEF SE!Erase

(* Each step of the program and of its environment is a step of           *)
(* SecureErase or leaves what SecureErase sees unchanged.                 *)
THEOREM StepRefines == IInv /\ [Next]_vars => [SE!Next]_(SE!vars)
<1> SUFFICES ASSUME IInv, [Next]_vars PROVE [SE!Next]_(SE!vars)
    OBVIOUS
<1> USE DEF IInv, SE!Next, SE!vars
<1>1. CASE Call
  <2>1. file_len' \in 0..MaxLen /\ disk' = disk /\ entry = "original" /\ entry' = entry
      BY <1>1, MaxLenAssumption DEF Call, dirVars, fileVars, TypeOK
  <2>2. (1..file_len)' \in SUBSET Chunk
      BY <2>1, MaxLenAssumption DEF Chunk
  <2>3. Residue' \in SUBSET (1..file_len)'
      BY DEF Residue
  <2>4. Residue' \cap (1..file_len) \subseteq Residue
      BY <2>1 DEF Residue
  <2>5. QED BY <2>1, <2>2, <2>3, <2>4 DEF SE!Request
<1>2. CASE SyncPass
  <2>1. SE!Erase
      BY <1>2, SyncedMeansCache, ResidueShrinks
      DEF SyncPass, callVars, dirVars, NothingReappears
  <2>2. QED BY <2>1
<1>3. CASE Rename
  <2>1. Residue = {}
      BY <1>3, FillPassType
      DEF Rename, AfterPasses, Erased, Holds, LastFill, Residue
  <2>2. UNCHANGED <<file_len, Residue>>
      BY <1>3 DEF Rename, callVars, fileVars, Residue
  <2>3. entry \in {"original", "random"} /\ entry' = "random"
      BY <1>3 DEF Rename, DirInv, TypeOK, Entry
  <2>4. QED BY <2>1, <2>2, <2>3 DEF SE!Hide
<1>4. CASE Unlink
  <2>1. Residue = {}
      BY <1>4, FillPassType
      DEF Unlink, AfterPasses, Erased, Holds, LastFill, Residue
  <2>2. UNCHANGED <<file_len, Residue>>
      BY <1>4 DEF Unlink, callVars, fileVars, Residue
  <2>3. entry # "gone" /\ entry' = "gone"
      BY <1>4 DEF Unlink, DirInv
  <2>4. QED BY <2>1, <2>2, <2>3 DEF SE!Unlink
<1>5. CASE WriteBack
  <2>1. SE!Erase
      BY <1>5, ResidueShrinks
      DEF WriteBack, callVars, NothingReappears, TypeOK
  <2>2. QED BY <2>1
<1>6. CASE PowerLoss
  <2>1. UNCHANGED <<file_len, Residue>>
      BY <1>6 DEF PowerLoss, callVars, Residue
  <2>2. CASE entry = diskEntry
      BY <1>6, <2>1, <2>2 DEF PowerLoss
  <2>3. CASE entry # diskEntry
    <3>1. Residue = {}
        BY <2>3, FillPassType
        DEF DirInv, AfterPasses, Erased, Holds, LastFill, Residue
    <3>2. entry' \in {"original", "random"}
        BY <1>6, <2>3 DEF PowerLoss, DirInv, TypeOK, Entry
    <3>3. QED BY <2>1, <3>1, <3>2 DEF SE!NameReturns
  <2>4. QED BY <2>2, <2>3
<1>7. CASE \/ CallFails \/ BeginPass \/ CheckChunk \/ WriteChunk \/ Verify
           \/ Fails \/ CtrlC \/ Grow \/ Kill \/ UNCHANGED vars
  <2>1. UNCHANGED <<file_len, disk, entry>>
      BY <1>7 DEF CallFails, BeginPass, CheckChunk, WriteChunk, Verify, Fails,
                  CtrlC, Grow, Kill, vars, callVars, fileVars, dirVars
  <2>2. QED BY <2>1 DEF Residue
<1>8. QED BY <1>1, <1>2, <1>3, <1>4, <1>5, <1>6, <1>7
          DEF Next, Step, Environment

(* Whatever interrupts it, shred_file gives up the name of a file only    *)
(* after its contents, and what it destroyed does not come back           *)
(* (engine.rs:60-168).                                                    *)
THEOREM Refinement == Spec => Refines
<1>1. Init => SE!Init
    BY DEF Init, SE!Init, Residue
<1>2. QED BY <1>1, StepRefines, Invariance, PTL DEF Spec, Refines, SE!Spec

-----------------------------------------------------------------------------
(***************************************************************************)
(* What the caller is told.                                                *)
(***************************************************************************)
\* The bytes counted so far are those of the completed passes and of the
\* part of the current one that is written.
Counting ==
    /\ pc = "pass" => remaining = 0
    /\ pc \in {"pass", "verify", "rename", "unlink"} =>
         bytes_wiped = passes_completed * file_len
    /\ pc \in {"check", "write", "sync"} =>
         bytes_wiped = passes_completed * file_len + (file_len - remaining)
    /\ pc = "rename" => opts.sanitize_filename
    /\ pc = "unlink" /\ opts.sanitize_filename => renames = RENAME_ROUNDS

ReportInv == Counting /\ OutcomeHonest /\ ConsistentPrefix /\ NoFalseAlarm

(* One pass more is one length more. *)
LEMMA OnePassMore == \A m, l \in Nat : (m + 1) * l = m * l + l
OBVIOUS

(* The entropy test has no reason to complain about a file that has kept   *)
(* its length: all of it is random after a random last pass.               *)
LEMMA RandomThroughout ==
    ASSUME IInv, pc = "verify", LastPassIsRandom(pattern), MeasuresLow
    PROVE  size > file_len
<1>1. LastFill = "random"
    BY PatternsAssumption DEF IInv, TypeOK, LastPassIsRandom, LastFill, FillPass,
                              Total, Passes, Pattern, PatternKind
<1>2. \A c \in 1..file_len : cache[c] = "random"
    BY <1>1 DEF IInv, AfterPasses, Erased, Holds
<1>3. PICK c \in 1..size : cache[c] # "random"
    BY DEF MeasuresLow
<1>4. QED BY <1>2, <1>3, MaxLenAssumption DEF IInv, TypeOK

(* What the call has counted and what it returns stay true at every step. *)
LEMMA StepReport == IInv /\ ReportInv /\ [Next]_vars => ReportInv'
<1> SUFFICES ASSUME IInv, ReportInv, [Next]_vars PROVE ReportInv'
    OBVIOUS
<1>0. TypeOK /\ file_len \in Nat /\ passes_completed \in Nat
    BY MaxLenAssumption, PassesType DEF IInv, TypeOK
<1> USE DEF ReportInv, Counting, OutcomeHonest, ConsistentPrefix, NoFalseAlarm,
            Total, callVars, countVars, fileVars, dirVars, Return
<1>1. CASE Call
    BY <1>0, <1>1, MaxLenAssumption DEF Call, TypeOK
<1>2. CASE CallFails
    BY <1>2 DEF CallFails
<1>3. CASE BeginPass
    BY <1>0, <1>3 DEF BeginPass, IInv, CancelInv
<1>4. CASE CheckChunk
    BY <1>0, <1>4 DEF CheckChunk, BreakPasses, IInv, WithinPass, Holds, Cur, Prev
<1>5. CASE WriteChunk
    BY <1>0, <1>5 DEF WriteChunk, TypeOK, IInv, CancelInv
<1>6. CASE SyncPass
    BY <1>0, <1>6, OnePassMore DEF SyncPass, PassCounted, IInv, WithinPass, CancelInv
<1>7. CASE Verify
    BY <1>0, <1>7, RandomThroughout DEF Verify, IInv, CancelInv, DirInv
<1>8. CASE Rename
    BY <1>0, <1>8 DEF Rename, MoreRounds, RENAME_ROUNDS, TypeOK, IInv,
                      AfterPasses, CancelInv
<1>9. CASE Unlink
    BY <1>0, <1>9 DEF Unlink, IInv, AfterPasses
<1>10. CASE Fails
    BY <1>10 DEF Fails
<1>11. CASE CtrlC \/ Kill
    BY <1>11 DEF CtrlC, Kill
<1>12. CASE Grow
    BY <1>0, <1>12, MaxLenAssumption DEF Grow, TypeOK
<1>13. CASE WriteBack \/ PowerLoss
    BY <1>13 DEF WriteBack, PowerLoss
<1>14. CASE UNCHANGED vars
    BY <1>14 DEF vars
<1>15. QED
    BY <1>1, <1>2, <1>3, <1>4, <1>5, <1>6, <1>7, <1>8, <1>9, <1>10, <1>11,
       <1>12, <1>13, <1>14 DEF Next, Step, Environment

(* What the call has counted and what it returned is true at all times. *)
THEOREM Reports == Spec => []ReportInv
<1>1. Init => ReportInv
    BY DEF Init, ReportInv, Counting, OutcomeHonest, ConsistentPrefix,
           NoFalseAlarm
<1>2. IInv /\ ReportInv /\ [Next]_vars => ReportInv'
    BY StepReport
<1>3. QED BY <1>1, <1>2, Invariance, PTL DEF Spec

(* Ok means gone, after all passes and renames, and the number of bytes    *)
(* reported is true (engine.rs:149-166).                                   *)
THEOREM OkIsHonest == Spec => []OutcomeHonest
<1>1. ReportInv => OutcomeHonest
    BY DEF ReportInv
<1>2. QED BY <1>1, Reports, PTL

(* A cancelled call leaves a prefix of the pass it cut short over the pass *)
(* before it (engine.rs:49-53).                                            *)
THEOREM CancelLeavesAPrefix == Spec => []ConsistentPrefix
<1>1. ReportInv => ConsistentPrefix
    BY DEF ReportInv
<1>2. QED BY <1>1, Reports, PTL

(* The entropy warning is raised only for a file that has grown            *)
(* (engine.rs:134-147).                                                    *)
THEOREM WarningHasAReason == Spec => []NoFalseAlarm
<1>1. ReportInv => NoFalseAlarm
    BY DEF ReportInv
<1>2. QED BY <1>1, Reports, PTL
=============================================================================
