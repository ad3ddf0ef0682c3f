---------------------------- MODULE MCFileShred ----------------------------
(***************************************************************************)
(* Instances of FileShred for TLC.                                         *)
(***************************************************************************)
EXTENDS FileShred

\* One pattern for each shape of FillPass and Passes.
MCPatterns ==
    {[kind |-> "DodThreePass", n |-> 0], [kind |-> "MultiRandom", n |-> 0],
     [kind |-> "MultiRandom", n |-> 2], [kind |-> "NistClear", n |-> 0]}

\* What the call sites pass: wipe, wipe --no-verify, wipe-dir and destroy.
MCOptions ==
    [verify_passes : BOOLEAN, sanitize_filename : {TRUE},
     sync_each_pass : {TRUE}]
=============================================================================
