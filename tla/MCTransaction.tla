---------------------------- MODULE MCTransaction ----------------------------
(* Small instances of Transaction for TLC. *)
EXTENDS TransactionProperties

CONSTANTS m1, m2, m3

TwoMails   == {m1, m2}
ThreeMails == {m1, m2, m3}

=============================================================================
