----------------------------- MODULE SecureMem -----------------------------
(***************************************************************************)
(* The memory that holds the keys of the vaults one process has open       *)
(* (crypto/secure_mem.rs, and vault/mod.rs where it makes a key).          *)
(*                                                                         *)
(* derive_key returns the key on the stack, to_vec copies it to the heap,  *)
(* and SecureBytes::new locks the pages of the copy.  Dropping the vault   *)
(* unlocks those pages and then zeroes the copy.  mlock does not count: a  *)
(* page is locked or not, whoever asked.  The kernel may at any time write *)
(* a page that is not locked to swap, where its contents stay.             *)
(***************************************************************************)
EXTENDS Naturals, FiniteSets

CONSTANTS
    Vault,         \* the Vault values the process makes, each any number of times
    Page,          \* the heap pages of the process, numbered in memory order
    Limit          \* how many pages RLIMIT_MEMLOCK lets it lock

ASSUME PageAssumption == Page \subseteq Nat
ASSUME LimitAssumption == Limit \in Nat

VARIABLES
    pc,            \* per vault: its step; "none" when there is no such value
    span,          \* per vault: the pages of SecureBytes.data
    flag,          \* per vault: SecureBytes.locked
    stack, heap,   \* the vaults whose key is on the stack, in SecureBytes.data
    locked,        \* the pages the kernel keeps in memory
    shared,        \* history: vaults that lost a page's lock to another's drop
    swap           \* history: the copy last written to swap, and when

vars == <<pc, span, flag, stack, heap, locked, shared, swap>>

\* 32 bytes lie on one page or across two.
Spans == {{p} : p \in Page} \cup {{p, p + 1} : p \in {q \in Page : q + 1 \in Page}}

Swapped == [copy : {"stack", "heap"},
            step : {"none", "derived", "copied", "held", "zeroed", "unlocked"},
            flag : BOOLEAN, shared : BOOLEAN]

TypeOK ==
    /\ pc \in [Vault -> {"none", "derived", "copied", "held", "zeroed", "unlocked"}]
    /\ span \in [Vault -> Spans \cup {{}}]
    /\ \A v \in Vault : span[v] = {} <=> pc[v] \in {"none", "derived"}
    /\ flag \in [Vault -> BOOLEAN]
    /\ stack \subseteq Vault
    /\ heap \subseteq Vault
    /\ locked \subseteq Page
    /\ shared \subseteq Vault
    /\ swap \subseteq Swapped

Init ==
    /\ pc = [v \in Vault |-> "none"]
    /\ span = [v \in Vault |-> {}]
    /\ flag = [v \in Vault |-> FALSE]
    /\ stack = {}
    /\ heap = {}
    /\ locked = {}
    /\ shared = {}
    /\ swap = {}

GoesTo(v, step) == pc' = [pc EXCEPT ![v] = step]

-----------------------------------------------------------------------------
\* derive_key, in create or open.
Derive(v) ==
    /\ pc[v] = "none"
    /\ stack' = stack \cup {v}
    /\ GoesTo(v, "derived")
    /\ UNCHANGED <<span, flag, heap, locked, shared, swap>>

\* open: the passphrase is wrong or the header does not parse.
OpenFails(v) ==
    /\ pc[v] = "derived"
    /\ GoesTo(v, "none")
    /\ UNCHANGED <<span, flag, stack, heap, locked, shared, swap>>

\* key_bytes.to_vec(): the allocator chooses where.
Copy(v) ==
    /\ pc[v] = "derived"
    /\ \E s \in Spans : span' = [span EXCEPT ![v] = s]
    /\ heap' = heap \cup {v}
    /\ GoesTo(v, "copied")
    /\ UNCHANGED <<flag, stack, locked, shared, swap>>

FirstPage(v) == {p \in span[v] : \A q \in span[v] : p <= q}        \* mutant

Pinned(v) == span[v]

(***************************************************************************)
(* SecureBytes::new: lock_memory.  A refusal is not an error.              *)
(***************************************************************************)
Lock(v) ==
    /\ pc[v] = "copied"
    /\ \/ /\ Cardinality(locked \cup Pinned(v)) <= Limit
          /\ flag' = [flag EXCEPT ![v] = TRUE]
          /\ locked' = locked \cup Pinned(v)
       \/ /\ ~(Cardinality(locked \cup Pinned(v)) <= Limit)
          /\ flag' = [flag EXCEPT ![v] = FALSE]
          /\ UNCHANGED locked
    /\ GoesTo(v, "held")
    /\ UNCHANGED <<span, stack, heap, shared, swap>>

\* destroy zeroes the key when the files are shredded, before the drop.
SecureZero(v) ==
    /\ pc[v] = "held"
    /\ heap' = heap \ {v}
    /\ GoesTo(v, "zeroed")
    /\ UNCHANGED <<span, flag, stack, locked, shared, swap>>

-----------------------------------------------------------------------------
KeepsLock(v) == locked                                             \* mutant

Unlocked(v) == IF flag[v] THEN locked \ span[v] ELSE locked

Neighbours(v) ==
    {w \in Vault \ {v} : flag[v] /\ span[w] \cap span[v] # {}}

(***************************************************************************)
(* drop, when the command or the caller is done with the vault, or an      *)
(* error leaves its scope: first unlock_memory, then zeroize.              *)
(***************************************************************************)
DropUnlock(v) ==
    /\ pc[v] \in {"held", "zeroed"}
    /\ locked' = Unlocked(v)
    /\ shared' = shared \cup Neighbours(v)
    /\ GoesTo(v, "unlocked")
    /\ UNCHANGED <<span, flag, stack, heap, swap>>

FreedAsIs(v) == heap                                               \* mutant

Zeroized(v) == heap \ {v}

DropZeroize(v) ==
    /\ pc[v] = "unlocked"
    /\ heap' = Zeroized(v)
    /\ span' = [span EXCEPT ![v] = {}]
    /\ flag' = [flag EXCEPT ![v] = FALSE]
    /\ shared' = shared \ {v}
    /\ GoesTo(v, "none")
    /\ UNCHANGED <<stack, locked, swap>>

-----------------------------------------------------------------------------
\* Later calls reuse the stack; nothing zeroes key_bytes.
StackReused ==
    /\ \E S \in SUBSET stack : S # {} /\ stack' = stack \ S
    /\ UNCHANGED <<pc, span, flag, heap, locked, shared, swap>>

Evicted(v, copy) == [copy |-> copy, step |-> pc[v], flag |-> flag[v],
                     shared |-> v \in shared]

\* The kernel evicts a page: of the stack, or one that is not locked.
Evict ==
    /\ \E v \in Vault :
         \/ v \in stack /\ swap' = {Evicted(v, "stack")}
         \/ /\ v \in heap /\ ~(span[v] \subseteq locked)
            /\ swap' = {Evicted(v, "heap")}
    /\ UNCHANGED <<pc, span, flag, stack, heap, locked, shared>>

\* A kill, or a panic: Cargo.toml says panic = "abort", and nothing is dropped.
\* The kernel clears memory before it gives it to another process.
Killed ==
    /\ pc' = [v \in Vault |-> "none"]
    /\ span' = [v \in Vault |-> {}]
    /\ flag' = [v \in Vault |-> FALSE]
    /\ stack' = {} /\ heap' = {} /\ locked' = {} /\ shared' = {}
    /\ UNCHANGED swap

Next ==
    \/ \E v \in Vault : \/ Derive(v) \/ OpenFails(v) \/ Copy(v) \/ Lock(v)
                        \/ SecureZero(v) \/ DropUnlock(v) \/ DropZeroize(v)
    \/ StackReused \/ Evict \/ Killed

Spec == Init /\ [][Next]_vars

-----------------------------------------------------------------------------
(***************************************************************************)
(* Properties.                                                             *)
(***************************************************************************)

(***************************************************************************)
(* A key goes from the heap to swap only in the windows before mlock and   *)
(* after munlock, when mlock was refused, or when the drop of another      *)
(* vault unlocked a page the two share (secure_mem.rs:25-28, 55-62).       *)
(***************************************************************************)
SwappedHasReason ==
    \A s \in swap : s.copy = "heap" =>
        s.step \in {"copied", "unlocked"} \/ ~s.flag \/ s.shared

(***************************************************************************)
(* Every page the process keeps locked belongs to a vault that is still    *)
(* open and locked it: drops, in any order, do not use up RLIMIT_MEMLOCK   *)
(* until every later key is refused (secure_mem.rs:55-62, 76-96).          *)
(***************************************************************************)
LockedPagesHaveOwner ==
    locked \subseteq UNION {span[v] : v \in {w \in Vault :
                                        flag[w] /\ pc[w] \in {"held", "zeroed"}}}

(***************************************************************************)
(* The allocator gets no key back: whatever way a vault ends, by an error, *)
(* by destroy or at the end of its scope, its copy of the key was zeroed   *)
(* before its pages were freed (secure_mem.rs:55-62, vault/mod.rs:197-226).*)
(***************************************************************************)
NoKeyFreed ==
    \A v \in heap : pc[v] \in {"copied", "held", "unlocked"} /\ span[v] # {}
=============================================================================
