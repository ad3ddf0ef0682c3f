---------------------------- MODULE SecureErase ----------------------------
(***************************************************************************)
(* What shredding one file promises, whatever the overwrite pattern, the   *)
(* number of passes and the interruptions: the file gives up its name only *)
(* when no unit of what the caller asked to destroy is left in durable     *)
(* storage, and a unit once destroyed never comes back, not even when a    *)
(* power failure brings back the name.  FileShred implements it.           *)
(***************************************************************************)
EXTENDS Naturals, FiniteSets

CONSTANT Unit      \* the storage units a file can occupy

VARIABLES
    scope,         \* the units the last request asked to destroy
    residue,       \* the units of scope whose contents are still durable
    entry          \* the live directory entry of the file

vars == <<scope, residue, entry>>

Entry == {"original", "random", "gone"}

TypeOK ==
    /\ scope \in SUBSET Unit
    /\ residue \in SUBSET scope
    /\ entry \in Entry

Init ==
    /\ scope = {}
    /\ residue = {}
    /\ entry = "original"

(***************************************************************************)
(* A caller asks for the file to be destroyed.  Units that an earlier,     *)
(* interrupted request already destroyed stay destroyed.                   *)
(***************************************************************************)
Request ==
    /\ entry = "original"
    /\ scope' \in SUBSET Unit
    /\ residue' \in SUBSET scope'
    /\ residue' \cap scope \subseteq residue
    /\ UNCHANGED entry

Erase ==
    /\ residue' \in SUBSET residue
    /\ UNCHANGED <<scope, entry>>

Hide ==
    /\ residue = {}
    /\ entry = "original"
    /\ entry' = "random"
    /\ UNCHANGED <<scope, residue>>

Unlink ==
    /\ residue = {}
    /\ entry # "gone"
    /\ entry' = "gone"
    /\ UNCHANGED <<scope, residue>>

(***************************************************************************)
(* A power failure undoes directory operations that were not yet durable.  *)
(***************************************************************************)
NameReturns ==
    /\ residue = {}
    /\ entry' \in {"original", "random"}
    /\ UNCHANGED <<scope, residue>>

Next == Request \/ Erase \/ Hide \/ Unlink \/ NameReturns

Spec == Init /\ [][Next]_vars
=============================================================================
