------------------------------ MODULE Exchange ------------------------------
(***************************************************************************)
(* What an administrator sees of the monitor: what was asked is done, once *)
(* and in order, and every answer comes after what it answers.             *)
(***************************************************************************)
EXTENDS Naturals, Sequences

VARIABLES
    asked,  \* the commands given so far
    done,   \* those the server has carried out
    told    \* the number of answers that arrived

exchangeVars == <<asked, done, told>>

Init == done = << >> /\ told = 0

\* The next command waits for the answer to the last one.
Ask ==
    /\ told = Len(asked)
    /\ Len(asked') = Len(asked) + 1
    /\ SubSeq(asked', 1, Len(asked)) = asked
    /\ UNCHANGED <<done, told>>

Do ==
    /\ Len(done) < Len(asked)
    /\ done' = Append(done, asked[Len(done) + 1])
    /\ UNCHANGED <<asked, told>>

Tell ==
    /\ told < Len(done)
    /\ told' \in told + 1 .. Len(done)
    /\ UNCHANGED <<asked, done>>

Next == Ask \/ Do \/ Tell

Spec == Init /\ [][Next]_exchangeVars

=============================================================================
