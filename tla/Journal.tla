------------------------------- MODULE Journal -------------------------------
(***************************************************************************)
(* What an audit log promises a command, however its file is written: one  *)
(* item at a time goes to the end, it is acknowledged once it is there,    *)
(* and what is there is neither changed nor lost.  The promise holds until *)
(* trust in the journal is lost, which is for ever; then acknowledgements  *)
(* go on being given, and nothing is said of the journal any more.         *)
(* AuditLog implements it.                                                 *)
(***************************************************************************)
EXTENDS Sequences

CONSTANT Item      \* what can be recorded

VARIABLES
    log,           \* the items in the journal; none when it is not trusted
    acked,         \* the items whose recording was acknowledged
    trusted        \* nothing has happened that may cost an item

vars == <<log, acked, trusted>>

Init ==
    /\ log = <<>>
    /\ acked = <<>>
    /\ trusted = TRUE

\* Nobody starts an item while another one waits for its acknowledgement.
Write ==
    /\ trusted
    /\ log = acked
    /\ \E d \in Item : log' = Append(log, d)
    /\ UNCHANGED <<acked, trusted>>

Acknowledge ==
    /\ trusted
    /\ log # acked
    /\ acked' = log
    /\ UNCHANGED <<log, trusted>>

LoseTrust ==
    /\ trusted
    /\ trusted' = FALSE
    /\ log' = <<>>
    /\ UNCHANGED acked

AcknowledgeBlindly ==
    /\ ~trusted
    /\ \E d \in Item : acked' = Append(acked, d)
    /\ UNCHANGED <<log, trusted>>

Next == Write \/ Acknowledge \/ LoseTrust \/ AcknowledgeBlindly

Spec == Init /\ [][Next]_vars
=============================================================================
