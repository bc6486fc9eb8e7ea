------------------------------ MODULE Numbering ------------------------------
(***************************************************************************)
(* Replies that go by number.  Written without recursion: the place of a    *)
(* number is how many smaller ones there are.                               *)
(***************************************************************************)
EXTENDS Integers, FiniteSets

Only(S) == CHOOSE i \in S : TRUE

\* The members of S above exactly k others: one, for finite S and k < |S|.
Ranked(S, k) == {i \in S : Cardinality({j \in S : j < i}) = k}

\* A finite set of numbers, the smallest first.
Ascending(S) == [k \in 1 .. Cardinality(S) |-> Only(Ranked(S, k - 1))]

Numbered(kind, s) == [i \in DOMAIN s |-> <<kind, s[i]>>]

Upto(n) == [i \in 1 .. n |-> i]

=============================================================================
