-------------------------- MODULE SecureMem_proofs --------------------------
(***************************************************************************)
(* The invariants of SecureMem hold for every set of vaults and pages and  *)
(* every limit.  The inductive invariant adds to them what a lock is worth *)
(* while the vault is open: unless a neighbour was dropped, the pages of a *)
(* key whose flag is set are locked.                                       *)
(***************************************************************************)
EXTENDS SecureMem, TLAPS

FlagMeansLocked ==
    \A v \in Vault :
        /\ flag[v] => pc[v] \in {"held", "zeroed", "unlocked"}
        /\ pc[v] \in {"held", "zeroed"} /\ flag[v] /\ v \notin shared
             => span[v] \subseteq locked

IInv == /\ TypeOK /\ NoKeyFreed /\ LockedPagesHaveOwner
        /\ FlagMeansLocked /\ SwappedHasReason

\* Every place a copy can lie has a page, and only pages of the process.
LEMMA SpansArePages ==
    \A s \in Spans : s # {} /\ s \subseteq Page
  BY PageAssumption DEF Spans

THEOREM InitInv == Init => IInv
  BY DEF Init, IInv, TypeOK, NoKeyFreed, LockedPagesHaveOwner, FlagMeansLocked,
         SwappedHasReason, Spans, Swapped

\* Types are kept by every step.
LEMMA TypeStep == IInv /\ [Next]_vars => TypeOK'
<1> SUFFICES ASSUME IInv, [Next]_vars PROVE TypeOK'
  OBVIOUS
<1> USE SpansArePages DEF IInv, TypeOK
<1>1. ASSUME NEW v \in Vault, Derive(v) PROVE TypeOK'
  BY <1>1 DEF Derive, GoesTo
<1>2. ASSUME NEW v \in Vault, OpenFails(v) PROVE TypeOK'
  BY <1>2 DEF OpenFails, GoesTo
<1>3. ASSUME NEW v \in Vault, Copy(v) PROVE TypeOK'
  BY <1>3 DEF Copy, GoesTo
<1>4. ASSUME NEW v \in Vault, Lock(v) PROVE TypeOK'
  <2>1. span[v] \subseteq Page
    OBVIOUS
  <2>2. locked' \subseteq Page
    BY <1>4, <2>1 DEF Lock, Pinned
  <2> QED
    BY <1>4, <2>2 DEF Lock, GoesTo
<1>5. ASSUME NEW v \in Vault, SecureZero(v) PROVE TypeOK'
  BY <1>5 DEF SecureZero, GoesTo
<1>6. ASSUME NEW v \in Vault, DropUnlock(v) PROVE TypeOK'
  BY <1>6 DEF DropUnlock, GoesTo, Unlocked, Neighbours
<1>7. ASSUME NEW v \in Vault, DropZeroize(v) PROVE TypeOK'
  BY <1>7 DEF DropZeroize, GoesTo, Zeroized
<1>8. CASE StackReused
  BY <1>8 DEF StackReused
<1>9. CASE Evict
  <2>1. \A v \in Vault : Evicted(v, "stack") \in Swapped /\ Evicted(v, "heap") \in Swapped
    <3> TAKE v \in Vault
    <3>1. (v \in shared) \in BOOLEAN
      OBVIOUS
    <3> QED
      BY <3>1 DEF Evicted, Swapped
  <2> QED
    BY <1>9, <2>1 DEF Evict
<1>10. CASE Killed
  BY <1>10 DEF Killed
<1>11. CASE UNCHANGED vars
  BY <1>11 DEF vars
<1> QED
  BY <1>1, <1>2, <1>3, <1>4, <1>5, <1>6, <1>7, <1>8, <1>9, <1>10, <1>11 DEF Next

\* What is locked and what is in memory, over every step.
LEMMA MemoryStep ==
    IInv /\ [Next]_vars => (NoKeyFreed /\ LockedPagesHaveOwner /\ FlagMeansLocked)'
<1> SUFFICES ASSUME IInv, [Next]_vars
             PROVE  (NoKeyFreed /\ LockedPagesHaveOwner /\ FlagMeansLocked)'
  OBVIOUS
<1> USE SpansArePages DEF IInv, TypeOK, NoKeyFreed, LockedPagesHaveOwner, FlagMeansLocked
<1>1. ASSUME NEW v \in Vault, Derive(v)
      PROVE  (NoKeyFreed /\ LockedPagesHaveOwner /\ FlagMeansLocked)'
  BY <1>1 DEF Derive, GoesTo
<1>2. ASSUME NEW v \in Vault, OpenFails(v)
      PROVE  (NoKeyFreed /\ LockedPagesHaveOwner /\ FlagMeansLocked)'
  BY <1>2 DEF OpenFails, GoesTo
<1>3. ASSUME NEW v \in Vault, Copy(v)
      PROVE  (NoKeyFreed /\ LockedPagesHaveOwner /\ FlagMeansLocked)'
  BY <1>3 DEF Copy, GoesTo
<1>4. ASSUME NEW v \in Vault, Lock(v)
      PROVE  (NoKeyFreed /\ LockedPagesHaveOwner /\ FlagMeansLocked)'
  <2>1. NoKeyFreed'
    BY <1>4 DEF Lock, GoesTo
  <2>2. \A w \in Vault \ {v} : pc'[w] = pc[w] /\ flag'[w] = flag[w]
    BY <1>4 DEF Lock, GoesTo
  <2>3. pc'[v] = "held" /\ span' = span /\ shared' = shared /\ ~flag[v]
    BY <1>4 DEF Lock, GoesTo
  <2>4. \/ flag'[v] = TRUE /\ locked' = locked \cup span[v]
        \/ flag'[v] = FALSE /\ locked' = locked
    BY <1>4 DEF Lock, Pinned
  <2>5. LockedPagesHaveOwner'
    BY <2>2, <2>3, <2>4
  <2>6. FlagMeansLocked'
    BY <2>2, <2>3, <2>4
  <2> QED
    BY <2>1, <2>5, <2>6
<1>5. ASSUME NEW v \in Vault, SecureZero(v)
      PROVE  (NoKeyFreed /\ LockedPagesHaveOwner /\ FlagMeansLocked)'
  BY <1>5 DEF SecureZero, GoesTo
<1>6. ASSUME NEW v \in Vault, DropUnlock(v)
      PROVE  (NoKeyFreed /\ LockedPagesHaveOwner /\ FlagMeansLocked)'
  BY <1>6 DEF DropUnlock, GoesTo, Unlocked, Neighbours
<1>7. ASSUME NEW v \in Vault, DropZeroize(v)
      PROVE  (NoKeyFreed /\ LockedPagesHaveOwner /\ FlagMeansLocked)'
  BY <1>7 DEF DropZeroize, GoesTo, Zeroized
<1>8. CASE StackReused
  BY <1>8 DEF StackReused
<1>9. CASE Evict
  BY <1>9 DEF Evict
<1>10. CASE Killed
  BY <1>10 DEF Killed
<1>11. CASE UNCHANGED vars
  BY <1>11 DEF vars
<1> QED
  BY <1>1, <1>2, <1>3, <1>4, <1>5, <1>6, <1>7, <1>8, <1>9, <1>10, <1>11 DEF Next

\* Only Evict writes to swap, and it finds a page unlocked for a reason.
LEMMA SwapStep == IInv /\ [Next]_vars => SwappedHasReason'
<1> SUFFICES ASSUME IInv, [Next]_vars PROVE SwappedHasReason'
  OBVIOUS
<1>1. CASE Evict
  <2>1. PICK v \in Vault :
          \/ v \in stack /\ swap' = {Evicted(v, "stack")}
          \/ /\ v \in heap /\ ~(span[v] \subseteq locked)
             /\ swap' = {Evicted(v, "heap")}
    BY <1>1 DEF Evict
  <2>2. v \in heap /\ ~(span[v] \subseteq locked)
          => pc[v] \in {"copied", "unlocked"} \/ ~flag[v] \/ v \in shared
    BY DEF IInv, TypeOK, NoKeyFreed, FlagMeansLocked
  <2>3. CASE swap' = {Evicted(v, "stack")}
    BY <2>3 DEF SwappedHasReason, Evicted
  <2>4. CASE v \in heap /\ ~(span[v] \subseteq locked) /\ swap' = {Evicted(v, "heap")}
    <3> DEFINE s == Evicted(v, "heap")
    <3>1. s.step = pc[v] /\ s.flag = flag[v]
      BY DEF Evicted
    <3>2. s.shared = (v \in shared)
      BY DEF Evicted
    <3>3. s.step \in {"copied", "unlocked"} \/ ~s.flag \/ s.shared
      BY <2>2, <2>4, <3>1, <3>2, Zenon
    <3> HIDE DEF s
    <3> QED
      BY <2>4, <3>3 DEF SwappedHasReason, s
  <2> QED
    BY <2>1, <2>3, <2>4
<1>2. CASE swap' = swap
  BY <1>2 DEF IInv, SwappedHasReason
<1> QED
  BY <1>1, <1>2 DEF Next, vars, Derive, OpenFails, Copy, Lock, SecureZero,
     DropUnlock, DropZeroize, StackReused, Killed

THEOREM StepInv == IInv /\ [Next]_vars => IInv'
  BY TypeStep, MemoryStep, SwapStep DEF IInv

THEOREM AlwaysInv == Spec => []IInv
  BY InitInv, StepInv, PTL DEF Spec

\* The variables have their types in every reachable state.
THEOREM TypesHold == Spec => []TypeOK
<1>1. IInv => TypeOK
  BY DEF IInv
<1> QED
  BY AlwaysInv, <1>1, PTL

\* A key's heap copy reaches swap only for one of the four reasons
\* (SecureBytes::new and drop).
THEOREM SwapIsExplained == Spec => []SwappedHasReason
<1>1. IInv => SwappedHasReason
  BY DEF IInv
<1> QED
  BY AlwaysInv, <1>1, PTL

\* No page stays locked after the vaults that locked it (drop).
THEOREM LocksAreReturned == Spec => []LockedPagesHaveOwner
<1>1. IInv => LockedPagesHaveOwner
  BY DEF IInv
<1> QED
  BY AlwaysInv, <1>1, PTL

\* No key is given back to the allocator (drop).
THEOREM KeysAreZeroed == Spec => []NoKeyFreed
<1>1. IInv => NoKeyFreed
  BY DEF IInv
<1> QED
  BY AlwaysInv, <1>1, PTL
=============================================================================
