----------------------------- MODULE MCDirShred -----------------------------
(***************************************************************************)
(* An instance of DirShred for TLC: a root with a file and a chain of two  *)
(* directories, a file in each, and something that is no regular file at   *)
(* the bottom.                                                             *)
(***************************************************************************)
EXTENDS DirShred, TLC

CONSTANTS t1, t2, root, sub, subsub, f1, f2, f3, link

MCThread == {t1, t2}
MCDir == {root, sub, subsub}
MCFile == {f1, f2, f3}
MCOther == {link}

MCParentOf ==
    (sub :> root) @@ (subsub :> sub) @@ (f1 :> root) @@ (f2 :> sub)
        @@ (f3 :> subsub) @@ (link :> subsub)
=============================================================================
