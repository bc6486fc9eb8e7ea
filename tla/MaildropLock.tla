---------------------------- MODULE MaildropLock ----------------------------
(***************************************************************************)
(* What the AUTHORIZATION state promises about maildrops, without sockets, *)
(* buffers or the layout of the account table: a lock per account, claimed *)
(* by USER, confirmed by PASS, given back when the connection fails its    *)
(* password, takes another name or ends.  A claim may also be forgotten:   *)
(* then nobody owns the account and nobody will ever be able to claim it.  *)
(***************************************************************************)
CONSTANTS
    Conns, Names,
    Free, Forgotten   \* owners that are no connection, and differ

VARIABLES
    owner,    \* who has the account: a connection, Free or Forgotten
    session   \* the accounts whose owner gave the password

lockVars == <<owner, session>>

Init ==
    /\ owner \in [Names -> {Free}]
    /\ session = {}

Without(c) == [n \in Names |-> IF owner[n] = c THEN Free ELSE owner[n]]

\* A connection that is in no session takes a free account, and lets go of
\* the one it had claimed.
Claim(c, u) ==
    /\ owner[u] = Free
    /\ \A n \in session : owner[n] # c
    /\ owner' = [Without(c) EXCEPT ![u] = c]
    /\ UNCHANGED session

Confirm(u) ==
    /\ owner[u] \in Conns
    /\ u \notin session
    /\ session' = session \union {u}
    /\ UNCHANGED owner

Release(u) ==
    /\ owner[u] \in Conns
    /\ owner' = [owner EXCEPT ![u] = Free]
    /\ session' = session \ {u}

\* Only a claim can be forgotten, never a session.
Forget(u) ==
    /\ owner[u] \in Conns
    /\ u \notin session
    /\ owner' = [owner EXCEPT ![u] = Forgotten]
    /\ UNCHANGED session

Next ==
    \E u \in Names :
        \/ \E c \in Conns : Claim(c, u)
        \/ Confirm(u)
        \/ Release(u)
        \/ Forget(u)

Spec == Init /\ [][Next]_lockVars

=============================================================================
