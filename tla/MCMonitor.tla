------------------------------ MODULE MCMonitor ------------------------------
(* Small instances of Monitor for TLC. *)
EXTENDS MonitorProperties

CONSTANTS a1, a2, alice, bob, carol, right

OneAdmin  == {a1}
TwoAdmins == {a1, a2}

\* One administrator sends everything, the other takes its place.
Everything == [a \in Admins |->
    IF a = a1 THEN {l \in Line : l.cmd \in {"DELETE_USER", "POPULATE_USER"} => l.arg = alice}
              ELSE {l \in Line : l.cmd = "LOGIN"}]

OneAccount  == << <<alice, right>> >>
TwoAccounts == << <<alice, right>>, <<bob, right>> >>

=============================================================================
