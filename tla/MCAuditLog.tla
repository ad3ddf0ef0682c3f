----------------------------- MODULE MCAuditLog -----------------------------
(***************************************************************************)
(* Instances of AuditLog for TLC.                                          *)
(***************************************************************************)
EXTENDS AuditLog

\* A wipe of a file whose name holds a bar.
MCOp == {[operation |-> <<"wipe">>, target |-> <<"a", "b">>]}

\* Bound: of the alterations of a log that is refused, those after which it
\* replays again.  The proofs have them all.
AlterMatters == "altered" \in causes' \ causes => Replays \/ Replays'

Symmetry == Permutations(Proc) \cup Permutations(Key)
=============================================================================
