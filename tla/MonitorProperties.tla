-------------------------- MODULE MonitorProperties --------------------------
(***************************************************************************)
(* What the monitor must guarantee to administrators, to the accounts and  *)
(* to the POP3 clients that use them.                                      *)
(***************************************************************************)
EXTENDS Monitor

\* The only type invariant: monitor_data, the shell commands, the accounts.
TypeOK ==
    /\ mon \in [Admins -> Session]
    /\ job \in [Admins -> Jobs]
    /\ logged \in BOOLEAN
    /\ users \in Tables
    /\ total_users \in Int
    /\ dirs \in [Names -> SUBSET Whole]
    /\ alive \in BOOLEAN

\* A shell command never outlives the session it answers to: its handler
\* writes to the cmd_data inside that session's monitor_data.  Nothing else
\* happens in the session meanwhile (handle_cmd asks for OP_NOOP).
CommandKeepsItsSession ==
    \A a \in Admins : job[a] # NoJob =>
        /\ mon[a].open
        /\ mon[a].interest = {}
        /\ mon[a].logged
        /\ ~mon[a].sending
        /\ ~mon[a].finished
        /\ mon[a].code = job[a].code

\* A session whose shell command could not be started: nothing will ever wake
\* it up (executeCommand's result is ignored).
Stranded(a) ==
    mon[a].open /\ mon[a].interest = {} /\ job[a] = NoJob

\* No lost wake-up but the two the code has: a session sleeps on OP_READ with
\* no request unread and nothing owed, unless a short send left the rest of an
\* answer behind; and it asks for nothing only during its shell command, unless
\* that could not be started.  OP_WRITE is asked for when there is something
\* to do.
MonitorIsAwake ==
    \A a \in Open :
        \/ /\ mon[a].interest = {"WRITE"}
           /\ \/ Buffered(mon[a]) \/ mon[a].finished
              \/ mon[a].sending /\ mon[a].unsent > 0
        \/ /\ mon[a].interest = {"READ"}
           /\ ~Buffered(mon[a])
           /\ ~mon[a].finished
           /\ mon[a].sending => "short" \in SendOutcomes
        \/ /\ mon[a].interest = {}
           /\ Stranded(a) => mon[a].code # "none" /\ "fail" \in PopenOutcomes

\* The place of administrator is never lost: while the global says that it is
\* taken, a session that took it is open.  (Not the other way round: the global
\* is cleared by whoever closes, so two sessions may be logged in.)
AdminPlaceNotLost ==
    logged => \E a \in Open : mon[a].logged

\* No two accounts have the same name, although user_add takes a free slot
\* before it has compared the name with the slots behind it.
NamesAreUnique ==
    \A u \in Names : \A i, j \in Matches(users, u) : i = j

\* user_add refuses for lack of room only when the table is full: total_users
\* is never more than the number of accounts.  (It may be less, since
\* DELETE_USER counts down without removing anything.)
AddRefusedOnlyWhenFull == total_users <= Cardinality(Occupied(users))

\* No account ever leaves the table.  DELETE_USER is answered with success and
\* removes nothing, and an ADD_USER that cannot make the maildir takes back
\* no account but its own.
AccountsStay ==
    [][\A u \in Names : user_exists(users, u) => user_exists(users', u)]_vars

\* No shell command takes the messages of an account away, in use or not: the
\* removal starts before the account is known to be OFFLINE, and a client may
\* log in while it runs.
MailStays ==
    [][\A u \in Names :
         {"cur", "new"} \subseteq dirs[u] => {"cur", "new"} \subseteq dirs'[u]]_vars

\* ADD_USER is all or nothing: an account that appears has a whole maildir.
NewAccountsHaveMaildir ==
    [][\A u \in Names :
         user_exists(users', u) /\ ~user_exists(users, u) => dirs'[u] = Whole]_vars

\* The phase of a session as its administrator sees it.
Phase(a) ==
    CASE ~mon[a].open -> "absent"
      [] mon[a].open /\ (mon[a].interest = {} \/ mon[a].finished) -> "working"
      [] mon[a].open /\ mon[a].interest # {} /\ ~mon[a].finished
           /\ mon[a].sending -> "answering"
      [] OTHER -> "idle"

Abstract == INSTANCE AdminSession WITH
    phase    <- [a \in Admins |-> Phase(a)],
    admitted <- {a \in Open : mon[a].logged},
    accounts <- {u \in Names : user_exists(users, u)},
    inUse    <- {u \in Names : user_get_state(users, u)
                                  \in {USER_LOGGING, USER_ONLINE}}

\* Pipelined requests are answered one at a time and whole, a shell command
\* belongs to one request of one open session that had logged in, and accounts
\* change only by those requests.
ImplementsAdminSession == Abstract!Spec

\* A shell command ends and its session is woken up to answer.
CommandIsAnswered ==
    \A a \in Admins : job[a] # NoJob ~> mon[a].sending \/ ~alive

\* DELETE_USER removes the given account (docs/protocol.md:97), unless it is in
\* use by then or the session ends before it is told.  It does not: the name is
\* taken from a parser that was initialised again.
DeletedIsGone ==
    \A a \in Admins, u \in Names :
        job[a].code = "RM" /\ job[a].user = u ~>
            \/ ~user_exists(users, u)
            \/ user_get_state(users, u) # USER_OFFLINE
            \/ ~mon[a].open
            \/ ~alive

\* An administrator that hung up is noticed, and its place given back, unless
\* its session is one of those that read nothing any more: the parser gave up
\* with input in the buffer, or a shell command could not be started.
GoneIsClosed ==
    \A a \in Admins :
        mon[a].gone ~>
            \/ ~mon[a].open
            \/ mon[a].parser = "rejected"
            \/ mon[a].parser = "overlong" /\ Buffered(mon[a])
            \/ Stranded(a)
            \/ ~alive

=============================================================================
