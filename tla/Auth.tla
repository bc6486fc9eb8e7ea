-------------------------------- MODULE Auth --------------------------------
(***************************************************************************)
(* The POP3 connections of the server and the account table they share:    *)
(* accept and close (pop3.c), the greeting and the reply engine            *)
(* (writter.c), the AUTHORIZATION state (auth.c), and the part of the      *)
(* TRANSACTION and UPDATE states (transaction.c, update.c) during which a  *)
(* connection keeps its maildrop locked.                                   *)
(*                                                                         *)
(* One step is one callback run by the selector for one descriptor, or one *)
(* act of a client.  The server is single-threaded, so a callback is       *)
(* atomic; callbacks of different connections interleave freely.  A        *)
(* callback runs only when its direction is in the connection's interest.  *)
(***************************************************************************)
EXTENDS Users, FiniteSets

CONSTANTS
    Conns,         \* connections the clients may open
    Accounts,      \* sequence of <<name, password>>: the accounts main() adds
    SendOutcomes,  \* what send() may do: "all", "short", "error"
    BUFFER_LINES   \* command lines the input buffer holds (32 kB in pop3.h)

ASSUME ConnsAssumption == IsFiniteSet(Conns)

ASSUME AccountsAssumption ==
    /\ Accounts \in Seq(Names \X Passwords)
    /\ Len(Accounts) <= MAX_USERS
    /\ \A i, j \in DOMAIN Accounts : Accounts[i][1] = Accounts[j][1] => i = j

ASSUME SendOutcomesAssumption == SendOutcomes \subseteq {"all", "short", "error"}
ASSUME BufferLinesAssumption  == BUFFER_LINES \in Nat \ {0}

VARIABLES
    conn,              \* conn[c]: the client_data of connection c
    users,             \* the array of user.c
    curr_connections   \* the counter of monitor.c

vars == <<conn, users, curr_connections>>

-----------------------------------------------------------------------------
(* Command lines.  "STAT" stands for every command auth.c does not know;   *)
(* transaction.c answers it with a line and stays where it is.  Nothing    *)
(* looks at a line before the parser does, so the input buffer is modelled *)
(* by the number of lines in it and a line's content is chosen when it is  *)
(* parsed.                                                                 *)

Line == [cmd : {"USER"}, arg : Names \union {NoName}]
        \union [cmd : {"PASS"}, arg : Passwords \union {NoPass}]
        \union [cmd : {"CAPA", "QUIT", "STAT"}, arg : {NoName}]

\* Bytes of one recv(): complete lines, then perhaps the start of another.
Chunks ==
    {ch \in [lines : 0 .. BUFFER_LINES, partial : BOOLEAN] :
        ch.lines > 0 \/ ch.partial}

\* Replies, told apart by what they say of the account: "err refused" leaves
\* the connection as it was, "err" says that it has no account.
Replies == {"none", "ok", "ok valid user", "ok logged in", "err refused", "err"}

States == {"GREETING_WRITE", "AUTH", "TRANSACTION", "UPDATE"}

Client ==
    [state    : States \union {"CLOSED"},          \* stm.current
     interest : SUBSET {"READ", "WRITE"},          \* interest in the selector
     user     : Names \union {NoName},             \* "" until USER succeeds
     lines    : 0 .. BUFFER_LINES,                 \* unparsed complete lines
     partial  : BOOLEAN,                           \* and an unfinished one
     stuck    : BOOLEAN,                           \* the parser gave up
     finished : BOOLEAN,                           \* send.finished
     unsent   : BOOLEAN,                           \* output buffer not empty
     next     : {"-1", "AUTH", "TRANSACTION", "DONE"},   \* next_state
     reply    : Replies,                           \* last reply generated
     gone     : BOOLEAN]                           \* the client hung up

Closed ==
    [state |-> "CLOSED", interest |-> {}, user |-> NoName, lines |-> 0,
     partial |-> FALSE, stuck |-> FALSE, finished |-> TRUE,
     unsent |-> FALSE, next |-> "-1", reply |-> "none", gone |-> FALSE]

\* init_new_client_data, registered with OP_WRITE
NewClient == [Closed EXCEPT !.state = "GREETING_WRITE", !.interest = {"WRITE"}]

Init ==
    /\ conn = [c \in Conns |-> Closed]
    /\ users = TableOf(Accounts)
    /\ curr_connections = 0

Open == {c \in Conns : conn[c].state # "CLOSED"}
CanRead(c)  == conn[c].state # "CLOSED" /\ "READ" \in conn[c].interest
CanWrite(c) == conn[c].state # "CLOSED" /\ "WRITE" \in conn[c].interest
Buffered(d) == d.lines > 0 \/ d.partial

-----------------------------------------------------------------------------
(* Opening, closing, hanging up                                            *)

\* Mutant: monitor_add_connection is not called.
AcceptUncounted(c) ==
    /\ conn[c].state = "CLOSED"
    /\ conn' = [conn EXCEPT ![c] = NewClient]
    /\ UNCHANGED <<users, curr_connections>>

pop3AcceptPassive(c) ==
    /\ conn[c].state = "CLOSED"
    /\ conn' = [conn EXCEPT ![c] = NewClient]
    /\ curr_connections' = curr_connections + 1
    /\ UNCHANGED users

\* Mutants: the account stays as it was; the connection is not counted out.
CloseUnreleased(c, u, t) ==
    /\ conn' = [conn EXCEPT ![c] = Closed]
    /\ users' = t
    /\ curr_connections' = curr_connections - 1

CloseUncounted(c, u, t) ==
    /\ conn' = [conn EXCEPT ![c] = Closed]
    /\ users' = IF u # NoName THEN user_set_state(t, u, USER_OFFLINE) ELSE t
    /\ UNCHANGED curr_connections

\* close_connection, when the callback left user u and table t behind
CloseWith(c, u, t) ==
    /\ conn' = [conn EXCEPT ![c] = Closed]
    /\ users' = IF u # NoName THEN user_set_state(t, u, USER_OFFLINE) ELSE t
    /\ curr_connections' = curr_connections - 1

close_connection(c) == CloseWith(c, conn[c].user, users)

HangUp(c) ==
    /\ conn[c].state # "CLOSED"
    /\ ~conn[c].gone
    /\ conn' = [conn EXCEPT ![c].gone = TRUE]
    /\ UNCHANGED <<users, curr_connections>>

write_greeting(c, outcome) ==
    /\ CanWrite(c)
    /\ conn[c].state = "GREETING_WRITE"
    /\ \/ /\ outcome = "all"
          /\ conn' = [conn EXCEPT ![c].state = "AUTH",
                                  ![c].interest = {"READ"}]
          /\ UNCHANGED <<users, curr_connections>>
       \/ /\ outcome # "all"
          /\ close_connection(c)

-----------------------------------------------------------------------------
(* Reading: auth_read and trans_read run the same code in their state      *)

\* Mutant: a recv() of 0 bytes is taken for an empty input.
ReceiveNoEnd(c) ==
    /\ conn' = [conn EXCEPT ![c].interest = {"WRITE"}]
    /\ UNCHANGED <<users, curr_connections>>

Receive(c) ==
    \/ /\ ~conn[c].gone
       /\ \E ch \in Chunks :
            /\ conn[c].lines + ch.lines <= BUFFER_LINES
            /\ conn' = [conn EXCEPT
                 ![c].lines    = @ + ch.lines,
                 ![c].partial  = ch.partial \/ (ch.lines = 0 /\ @),
                 ![c].interest = {"WRITE"}]
       /\ UNCHANGED <<users, curr_connections>>
    \/ /\ conn[c].gone                      \* recv() returns 0 or fails
       /\ close_connection(c)

ToWrite(c) ==
    /\ conn' = [conn EXCEPT ![c].interest = {"WRITE"}]
    /\ UNCHANGED <<users, curr_connections>>

auth_read(c) ==
    /\ CanRead(c)
    /\ conn[c].state \in {"AUTH", "TRANSACTION"}
    /\ IF ~conn[c].finished THEN ToWrite(c)
       ELSE IF conn[c].lines < BUFFER_LINES THEN Receive(c)
       ELSE IF conn[c].unsent THEN ToWrite(c)
       ELSE close_connection(c)

-----------------------------------------------------------------------------
(* process_cmd: what one command does to the connection's user u and to    *)
(* the table t.  Every result has a next state and a status.               *)

Refuse(u, t, err) == [user |-> u, users |-> t, next |-> "AUTH", status |-> err]

\* Mutant: USER does not look at the state of the account.
UserCmdUnchecked(u, t, name) ==
    IF ~user_exists(t, name) THEN Refuse(u, t, "err refused")
    ELSE LET freed == IF u # NoName THEN user_set_state(t, u, USER_OFFLINE)
                                    ELSE t
         IN [user |-> name, users |-> user_set_state(freed, name, USER_LOGGING),
             next |-> "AUTH", status |-> "ok"]

UserCmd(u, t, name) ==
    IF ~user_exists(t, name) THEN Refuse(u, t, "err refused")
    ELSE IF user_get_state(t, name) # USER_OFFLINE
    THEN Refuse(u, t, "err refused")
    ELSE LET freed == IF u # NoName THEN user_set_state(t, u, USER_OFFLINE)
                                    ELSE t
         IN [user |-> name, users |-> user_set_state(freed, name, USER_LOGGING),
             next |-> "AUTH", status |-> "ok"]

\* Mutants: the account is never marked ONLINE; a wrong password is not
\* followed by the memset of the user.
PassCmdStillLogging(u, t, pass) ==
    IF u = NoName THEN Refuse(u, t, "err")
    ELSE IF ~user_check_pass(t, u, pass)
    THEN Refuse(NoName, user_set_state(t, u, USER_OFFLINE), "err")
    ELSE [user |-> u, users |-> t, next |-> "TRANSACTION", status |-> "ok"]

PassCmdKeepsUser(u, t, pass) ==
    IF u = NoName THEN Refuse(u, t, "err")
    ELSE IF ~user_check_pass(t, u, pass)
    THEN Refuse(u, user_set_state(t, u, USER_OFFLINE), "err")
    ELSE [user |-> u, users |-> user_set_state(t, u, USER_ONLINE),
          next |-> "TRANSACTION", status |-> "ok"]

PassCmd(u, t, pass) ==
    IF u = NoName THEN Refuse(u, t, "err")
    ELSE IF ~user_check_pass(t, u, pass)
    THEN Refuse(NoName, user_set_state(t, u, USER_OFFLINE), "err")
    ELSE [user |-> u, users |-> user_set_state(t, u, USER_ONLINE),
          next |-> "TRANSACTION", status |-> "ok"]

\* An unknown command clears the user and leaves its state in the table.
UnknownCmd(u, t) == Refuse(NoName, t, "err")

process_cmd(u, t, line) ==
    CASE line.cmd = "QUIT" ->
            [user |-> u, users |-> t, next |-> "DONE", status |-> "ok"]
      [] line.cmd = "USER" -> UserCmd(u, t, line.arg)
      [] line.cmd = "PASS" -> PassCmd(u, t, line.arg)
      [] line.cmd = "CAPA" ->
            [user |-> u, users |-> t, next |-> "AUTH", status |-> "ok"]
      [] OTHER -> UnknownCmd(u, t)

\* The reply to a command that left result r: the state of the connection's
\* user is looked at before the command's name.
generateMsg(line, r) ==
    IF r.status # "ok" THEN r.status
    ELSE IF line.cmd = "QUIT" THEN "ok"
    ELSE IF user_get_state(r.users, r.user) = USER_LOGGING THEN "ok valid user"
    ELSE IF line.cmd = "CAPA" THEN "ok"
    ELSE "ok logged in"

-----------------------------------------------------------------------------
(* auth_process                                                            *)

InAuth(c) == CanWrite(c) /\ conn[c].state = "AUTH"

\* send.finished is false.  The code takes the branch of the error message
\* when there IS something left to send, and flips finished without sending.
auth_resume(c) ==
    /\ InAuth(c)
    /\ ~conn[c].finished
    /\ IF conn[c].unsent
       THEN /\ conn' = [conn EXCEPT ![c].finished = TRUE]
            /\ UNCHANGED <<users, curr_connections>>
       ELSE IF conn[c].next = "DONE" THEN close_connection(c)
       ELSE /\ conn' = [conn EXCEPT ![c].finished = TRUE,
                                    ![c].state = conn[c].next]
            /\ UNCHANGED <<users, curr_connections>>

\* send.finished is true with data left in the output buffer: flip it back.
auth_leftover(c) ==
    /\ InAuth(c)
    /\ conn[c].finished
    /\ conn[c].unsent
    /\ conn' = [conn EXCEPT ![c].finished = FALSE]
    /\ UNCHANGED <<users, curr_connections>>

ReadyToParse(c) == conn[c].finished /\ ~conn[c].unsent /\ ~conn[c].stuck

\* An argument of more than MAX_ARG_LEN characters: save_arg sets err_value
\* and never ended, so the parser consumes nothing from then on and every
\* callback goes back to OP_READ.  The rest of the line stays in the buffer.
save_arg(c) ==
    /\ CanWrite(c)
    /\ conn[c].state \in {"AUTH", "TRANSACTION"}
    /\ conn[c].stuck \/ (ReadyToParse(c) /\ Buffered(conn[c]))
    /\ conn' = [conn EXCEPT ![c].stuck = TRUE, ![c].interest = {"READ"}]
    /\ UNCHANGED <<users, curr_connections>>

\* The parser swallows the start of a line and wants the rest.
Await(c) ==
    /\ conn' = [conn EXCEPT ![c].partial = FALSE, ![c].interest = {"READ"}]
    /\ UNCHANGED <<users, curr_connections>>

auth_incomplete(c) ==
    /\ InAuth(c)
    /\ ReadyToParse(c)
    /\ conn[c].lines = 0
    /\ Await(c)

\* Mutant: pipelined input is left for the next OP_READ.
InterestForgetsInput(d) == {"READ"}

\* The interest after a whole reply: keep writing while input is buffered.
InterestAfter(d) == IF Buffered(d) THEN {"WRITE"} ELSE {"READ"}

\* The connection after the command's line is consumed and its reply made.
Consumed(d, user, msg) ==
    [d EXCEPT !.lines = @ - 1, !.user = user, !.reply = msg]

auth_command(c, line, outcome) ==
    /\ InAuth(c)
    /\ ReadyToParse(c)
    /\ conn[c].lines > 0
    /\ LET r == process_cmd(conn[c].user, users, line)
           d == Consumed(conn[c], r.user, generateMsg(line, r))
       IN \/ /\ outcome = "error"
             /\ CloseWith(c, r.user, r.users)
          \/ /\ outcome = "short"
             /\ conn' = [conn EXCEPT ![c] =
                  [d EXCEPT !.next = r.next, !.finished = FALSE, !.unsent = TRUE]]
             /\ users' = r.users
             /\ UNCHANGED curr_connections
          \/ /\ outcome = "all"
             /\ r.next = "DONE"
             /\ CloseWith(c, r.user, r.users)
          \/ /\ outcome = "all"
             /\ r.next # "DONE"
             /\ conn' = [conn EXCEPT ![c] =
                  [d EXCEPT !.next = "-1", !.state = r.next,
                            !.interest = InterestAfter(d)]]
             /\ users' = r.users
             /\ UNCHANGED curr_connections

-----------------------------------------------------------------------------
(* TRANSACTION and UPDATE, as far as the lock on the maildrop goes: one    *)
(* step per command, its reply sent whole or not at all.                   *)

InTransaction(c) ==
    CanWrite(c) /\ conn[c].state = "TRANSACTION" /\ ReadyToParse(c)

trans_incomplete(c) ==
    /\ InTransaction(c)
    /\ conn[c].lines = 0
    /\ Await(c)

TransReply(line) ==
    IF line.cmd \in {"STAT", "CAPA"} THEN "ok" ELSE "err"

trans_command(c, line, outcome) ==
    /\ InTransaction(c)
    /\ conn[c].lines > 0
    /\ line.cmd # "QUIT"
    /\ IF outcome = "error"
       THEN close_connection(c)
       ELSE LET d == Consumed(conn[c], conn[c].user, TransReply(line)) IN
            /\ conn' = [conn EXCEPT ![c] =
                 [d EXCEPT !.interest = InterestAfter(d)]]
            /\ UNCHANGED <<users, curr_connections>>

\* QUIT sends nothing; init_update asks for OP_WRITE.
trans_quit(c) ==
    /\ InTransaction(c)
    /\ conn[c].lines > 0
    /\ conn' = [conn EXCEPT ![c].state = "UPDATE", ![c].interest = {"WRITE"},
                            ![c].lines = @ - 1]
    /\ UNCHANGED <<users, curr_connections>>

\* The last reply is sent or fails; the connection closes either way.
update_process(c) ==
    /\ CanWrite(c)
    /\ conn[c].state = "UPDATE"
    /\ close_connection(c)

-----------------------------------------------------------------------------

pop3_handle_write(c) ==
    \/ \E o \in SendOutcomes : write_greeting(c, o)
    \/ auth_resume(c)
    \/ auth_leftover(c)
    \/ save_arg(c)
    \/ auth_incomplete(c)
    \/ \E l \in Line, o \in SendOutcomes : auth_command(c, l, o)
    \/ trans_incomplete(c)
    \/ \E l \in Line, o \in SendOutcomes : trans_command(c, l, o)
    \/ trans_quit(c)
    \/ update_process(c)

pop3_handle_read(c) == auth_read(c)

Next ==
    \E c \in Conns :
        \/ pop3AcceptPassive(c)
        \/ HangUp(c)
        \/ pop3_handle_read(c)
        \/ pop3_handle_write(c)

Spec == Init /\ [][Next]_vars

\* select() reports every ready descriptor and the loop serves each one it
\* reports, so a connection that may write, or whose client hung up, is
\* served.  Clients owe nothing: they need not connect, send or leave.
FairSpec ==
    /\ Spec
    /\ \A c \in Conns : /\ WF_vars(pop3_handle_write(c))
                        /\ WF_vars(conn[c].gone /\ pop3_handle_read(c))

=============================================================================
