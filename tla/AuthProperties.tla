--------------------------- MODULE AuthProperties ---------------------------
(***************************************************************************)
(* What the AUTHORIZATION state of the server must guarantee.              *)
(***************************************************************************)
EXTENDS Auth

\* The only type invariant of the module: every connection is a client_data
\* in a state of the pop3 state machine, and the slots stay accounts.
TypeOK ==
    /\ conn \in [Conns -> Client]
    /\ users \in Tables
    /\ curr_connections \in Nat

\* A maildrop is never open, or being opened, in two connections at once
\* (auth.c refuses USER for a name whose state is not OFFLINE).
MaildropExclusive ==
    \A c, d \in Conns :
        conn[c].user # NoName /\ conn[c].user = conn[d].user => c = d

\* Whether PASS has been accepted on this connection, its reply sent or not.
LoggedIn(d) == d.state \in {"TRANSACTION", "UPDATE"} \/ d.next = "TRANSACTION"

\* The account table agrees with the connections: the account a connection
\* holds is ONLINE once PASS was accepted there and LOGGING before, in every
\* slot of that name, and a session always has an account.
HolderAgreesWithTable ==
    \A c \in Conns :
        /\ LoggedIn(conn[c]) => conn[c].user # NoName
        /\ conn[c].user # NoName =>
             /\ user_exists(users, conn[c].user)
             /\ \A i \in Matches(users, conn[c].user) :
                  users[i].state = IF LoggedIn(conn[c]) THEN USER_ONLINE
                                                        ELSE USER_LOGGING

\* No lost wake-up and no abort() in stm.c: an open connection waits for
\* exactly one direction, one its state has a handler for, and it waits for
\* the client only when nothing it received or owes is left in a buffer,
\* unless its parser gave up on an argument that is too long.
InterestMatchesState ==
    \A c \in Open :
        \/ conn[c].interest = {"WRITE"}
        \/ /\ conn[c].interest = {"READ"}
           /\ conn[c].state \in {"AUTH", "TRANSACTION"}
           /\ Buffered(conn[c]) => conn[c].stuck
           /\ ~conn[c].unsent
           /\ conn[c].finished

\* The number monitor clients are shown is the number of open connections:
\* no path closes a connection twice or forgets to count it out.
CountsOpenConnections == curr_connections = Cardinality(Open)

\* What one connection does never changes the state of the account another
\* connection holds: only the holder locks, logs in or releases it.
HoldUndisturbed ==
    [][\A d \in Conns :
         conn'[d] = conn[d] /\ conn[d].user # NoName =>
           user_get_state(users', conn[d].user)
             = user_get_state(users, conn[d].user)]_vars

\* What the last reply told a client about its account is what the table
\* says, for as long as that reply is the last one: it is ONLINE or LOGGING
\* as the client was told, and a refused password or an unknown command
\* leaves the connection holding nothing.
ReplyTellsTheTruth ==
    \A c \in Conns : LET d == conn[c] IN
        /\ d.reply = "ok logged in" =>
             d.user # NoName /\ user_get_state(users, d.user) = USER_ONLINE
        /\ d.reply = "ok valid user" =>
             user_get_state(users, d.user) = USER_LOGGING
        /\ d.state = "AUTH" /\ d.reply = "err" => d.user = NoName

\* A client that hung up is noticed and its connection closed, which is what
\* gives its account back (select reports the descriptor as readable).
HungUpIsClosed == \A c \in Conns : conn[c].gone ~> conn[c].state = "CLOSED"

\* A reply the kernel took only part of is completed, or the connection is
\* closed: auth.c keeps the "Things left to send" for the next OP_WRITE.
LeftoverIsSent == \A c \in Conns : conn[c].unsent ~> ~conn[c].unsent

\* The accounts seen as locks: who holds a name, and which are in session.
\* A name that is neither OFFLINE nor held has been forgotten.
Holder(u) ==
    IF \E c \in Conns : conn[c].user = u
    THEN CHOOSE c \in Conns : conn[c].user = u
    ELSE IF user_get_state(users, u) \in {USER_LOGGING, USER_ONLINE}
    THEN "forgotten" ELSE "free"

\* The two owners of a lock that are no connection.
ASSUME OwnersAssumption == "free" \notin Conns /\ "forgotten" \notin Conns

Lock == INSTANCE MaildropLock WITH
    Free <- "free", Forgotten <- "forgotten",
    owner <- [u \in Names |-> Holder(u)],
    session <- {u \in Names : user_get_state(users, u) = USER_ONLINE}

\* Everything the connections do to the accounts is claiming a free account,
\* confirming, releasing or forgetting one's own: in particular an account
\* never passes from one connection to another without being free between,
\* and a forgotten one never comes back.
ImplementsMaildropLock == Lock!Spec

\* Outside OFFLINE an account is in use by a connection: LOGGING is a
\* connection that sent USER, ONLINE one that is connected.
NobodyLockedOut ==
    \A u \in Names :
        user_get_state(users, u) \in {USER_LOGGING, USER_ONLINE} =>
            \E c \in Conns : conn[c].user = u

=============================================================================
