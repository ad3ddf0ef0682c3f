------------------------------- MODULE MCCli -------------------------------
(***************************************************************************)
(* Instances of Cli for TLC: the directory of wipe-dir holds one of the    *)
(* files and the log.                                                      *)
(***************************************************************************)
EXTENDS Cli

CONSTANTS f1, f2

MCFile == {f1, f2}
MCInDir == {f1, LogFile}
=============================================================================
