------------------------------- MODULE MCAuth -------------------------------
(* Small instances of Auth for TLC. *)
EXTENDS AuthProperties, TLC

CONSTANTS c1, c2, c3, alice, bob, nobody, right, wrong

TwoConns   == {c1, c2}
ThreeConns == {c1, c2, c3}
ConnSymmetry == Permutations(Conns)

OneAccount  == << <<alice, right>> >>
TwoAccounts == << <<alice, right>>, <<bob, right>> >>

=============================================================================
