---------------------------- MODULE AdminSession ----------------------------
(***************************************************************************)
(* What the monitor protocol promises, without sockets, buffers, parsers   *)
(* or the layout of the account table: a session answers the requests it   *)
(* takes one at a time, in order; while a request is being worked on the   *)
(* session takes no other and does not end; only who logged in may change  *)
(* the accounts or make the server work; and an account that is in use is  *)
(* not taken away.                                                         *)
(***************************************************************************)
CONSTANTS Admins, Names

VARIABLES
    phase,     \* of each session: "absent", "idle", "working", "answering"
    admitted,  \* the sessions that logged in
    accounts,  \* the names the server knows
    inUse      \* those a POP3 client holds

adminVars == <<phase, admitted, accounts, inUse>>

Init ==
    /\ phase = [a \in Admins |-> "absent"]
    /\ admitted = {}
    /\ accounts \subseteq Names
    /\ inUse = {}

Moves(a, from, to) ==
    /\ phase[a] = from
    /\ phase' = [phase EXCEPT ![a] = to]

Connect(a) ==
    /\ Moves(a, "absent", "idle")
    /\ UNCHANGED <<admitted, accounts, inUse>>

Ask(a) ==
    /\ Moves(a, "idle", "answering")
    /\ UNCHANGED <<admitted, accounts, inUse>>

Login(a) ==
    /\ Moves(a, "idle", "answering")
    /\ admitted' = admitted \union {a}
    /\ UNCHANGED <<accounts, inUse>>

Add(a) ==
    /\ Moves(a, "idle", "answering")
    /\ a \in admitted
    /\ \E u \in Names \ accounts : accounts' = accounts \union {u}
    /\ UNCHANGED <<admitted, inUse>>

Start(a) ==
    /\ Moves(a, "idle", "working")
    /\ a \in admitted
    /\ UNCHANGED <<admitted, accounts, inUse>>

\* A request that took work may have taken an account away.
Finish(a) ==
    /\ Moves(a, "working", "answering")
    /\ \/ accounts' = accounts
       \/ \E u \in accounts \ inUse : accounts' = accounts \ {u}
    /\ UNCHANGED <<admitted, inUse>>

Delivered(a) ==
    /\ Moves(a, "answering", "idle")
    /\ UNCHANGED <<admitted, accounts, inUse>>

Leave(a) ==
    /\ phase[a] \in {"idle", "answering"}
    /\ phase' = [phase EXCEPT ![a] = "absent"]
    /\ admitted' = admitted \ {a}
    /\ UNCHANGED <<accounts, inUse>>

\* The server may die, and every session with it.
Crash ==
    /\ phase' = [a \in Admins |-> "absent"]
    /\ admitted' = {}
    /\ UNCHANGED <<accounts, inUse>>

\* The POP3 clients claim and release accounts the server knows.
Use ==
    /\ UNCHANGED <<phase, admitted, accounts>>
    /\ \E u \in accounts \ inUse : inUse' = inUse \union {u}

Release ==
    /\ UNCHANGED <<phase, admitted, accounts>>
    /\ \E u \in inUse : inUse' = inUse \ {u}

Next ==
    \/ \E a \in Admins :
         \/ Connect(a) \/ Ask(a) \/ Login(a) \/ Add(a)
         \/ Start(a) \/ Finish(a) \/ Delivered(a) \/ Leave(a)
    \/ Crash
    \/ Use
    \/ Release

Spec == Init /\ [][Next]_adminVars

=============================================================================
