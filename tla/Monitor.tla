------------------------------ MODULE Monitor ------------------------------
(***************************************************************************)
(* The administrators: the sessions of monitor.c, the commands they run on *)
(* the account table and the shell commands of monitorCommands.c, which    *)
(* outlive the callback that starts them.  The POP3 connections appear as  *)
(* MaildropLock lets them touch the table.                                 *)
(*                                                                         *)
(* One step is one callback, one act of an administrator, one command of a *)
(* POP3 client, or the work of a shell.                                    *)
(***************************************************************************)
EXTENDS Users, FiniteSets

CONSTANTS
    Admins,         \* monitor connections
    Accounts,       \* sequence of <<name, password>>: the accounts of main()
    SendOutcomes,   \* what send() may do: "all", "short", "error"
    PopenOutcomes,  \* whether popen() and the registration work: "ok", "fail"
    Unmakeable,     \* the names for which mkdir() fails
    BUFFER_LINES,   \* command lines the read buffer holds
    MAX_SENDS,      \* the calls of send() an answer may take
    Requests,       \* Requests[a]: the command lines a may send
    Clients,        \* the names POP3 clients give to USER
    MIN_TOTAL       \* how far below 0 a run lets total_users go

ASSUME AdminsAssumption == IsFiniteSet(Admins)

ASSUME AdminAccountsAssumption ==
    /\ Accounts \in Seq(Names \X Passwords)
    /\ Len(Accounts) <= MAX_USERS
    /\ \A i, j \in DOMAIN Accounts : Accounts[i][1] = Accounts[j][1] => i = j

ASSUME OutcomesAssumption ==
    /\ SendOutcomes \subseteq {"all", "short", "error"}
    /\ PopenOutcomes \subseteq {"ok", "fail"}
    /\ Unmakeable \subseteq Names
    /\ Clients \subseteq Names \union {NoName}

ASSUME BoundsAssumption ==
    /\ BUFFER_LINES \in Nat \ {0}
    /\ MAX_SENDS \in Nat \ {0}
    /\ MIN_TOTAL \in Int

VARIABLES
    mon,          \* mon[a]: the monitor_data of connection a
    job,          \* job[a]: the shell command started for a, by its descriptor
    logged,       \* the global of monitor.c: there is an administrator
    users,        \* the array of user.c
    total_users,  \* its counter, a size_t read as a signed number
    dirs,         \* dirs[u]: which of cur/, new/, tmp/ of u exist
    alive         \* the process has not died of undefined behaviour

vars == <<mon, job, logged, users, total_users, dirs, alive>>
accountVars == <<users, total_users, dirs>>

-----------------------------------------------------------------------------

\* Complete command lines.  "ASK" is every command that only answers: COMMANDS,
\* GET_*, an unknown one, one whose argument is refused.
Line == [cmd : {"ASK", "LOGIN", "QUIT"}, arg : {NoName}]
        \union [cmd : {"ADD_USER", "DELETE_USER", "POPULATE_USER"}, arg : Names]

ASSUME RequestsAssumption == Requests \in [Admins -> SUBSET Line]

Chunks ==
    {ch \in [lines : 0 .. BUFFER_LINES, partial : BOOLEAN] :
        ch.lines > 0 \/ ch.partial}

Session ==
    [open     : BOOLEAN,                       \* ~data->closed
     interest : SUBSET {"READ", "WRITE"},      \* interest in the selector
     lines    : 0 .. BUFFER_LINES,             \* unparsed complete lines
     partial  : BOOLEAN,                       \* and an unfinished one
     parser   : {"ok", "rejected", "overlong"},
     sending  : BOOLEAN,                       \* is_sending
     unsent   : 0 .. MAX_SENDS,                \* of write_buffer, in calls of send()
     logged   : BOOLEAN,                       \* this session logged in
     arg      : Names \union {NoName},         \* the parser's argument
     code     : {"none", "RM", "POPULATE"},    \* cmd_data.cmd_code
     finished : BOOLEAN,                       \* cmd_data.finished_cmd
     failed   : BOOLEAN,                       \* cmd_data.err_code
     gone     : BOOLEAN]                       \* the administrator hung up

Closed ==
    [open |-> FALSE, interest |-> {}, lines |-> 0, partial |-> FALSE,
     parser |-> "ok", sending |-> FALSE, unsent |-> 0, logged |-> FALSE,
     arg |-> NoName, code |-> "none", finished |-> FALSE, failed |-> FALSE, gone |-> FALSE]

\* init_new_monitor_data, registered with OP_READ
NewSession == [Closed EXCEPT !.open = TRUE, !.interest = {"READ"}]

\* A shell command: what for, for whom, and how far it is.
NoJob == [code |-> "none", user |-> NoName, at |-> "none"]
Jobs  == [code : {"none", "RM", "POPULATE"}, user : Names \union {NoName},
          at   : {"none", "started", "printed", "silent"}]

Whole == {"cur", "new", "tmp"}

Init ==
    /\ mon = [a \in Admins |-> Closed]
    /\ job = [a \in Admins |-> NoJob]
    /\ logged = FALSE
    /\ users = TableOf(Accounts)
    /\ total_users = Len(Accounts)
    /\ dirs = [u \in Names |-> {}]
    /\ alive = TRUE

Open == {a \in Admins : mon[a].open}
Buffered(d) == d.lines > 0 \/ d.partial

-----------------------------------------------------------------------------
(* Opening, reading, closing                                               *)

acceptMonitorConnection(a) ==
    /\ ~mon[a].open
    /\ mon' = [mon EXCEPT ![a] = NewSession]
    /\ UNCHANGED <<job, logged, accountVars, alive>>

HangUp(a) ==
    /\ mon[a].open
    /\ ~mon[a].gone
    /\ mon' = [mon EXCEPT ![a].gone = TRUE]
    /\ UNCHANGED <<job, logged, accountVars, alive>>

\* Mutant: the place of administrator is not given back.
CloseStillLogged(a) ==
    /\ mon' = [mon EXCEPT ![a] = Closed]
    /\ UNCHANGED <<job, logged, accountVars>>

\* Whoever closes, the global is cleared.  A shell command and its descriptor
\* are left as they are.
close_connection(a) ==
    /\ mon' = [mon EXCEPT ![a] = Closed]
    /\ logged' = FALSE
    /\ UNCHANGED <<job, accountVars>>

\* Mutant: a recv() of 0 bytes is taken for an empty read.
EndOfInputIgnored(a) ==
    /\ mon' = [mon EXCEPT ![a].interest = {"WRITE"}]
    /\ UNCHANGED <<job, logged, accountVars>>

\* recv() returns 0 or fails.
EndOfInput(a) == close_connection(a)

\* The branch for a full buffer is never taken: OP_READ is only asked for
\* when the buffer is empty (MonitorIsAwake).
handleMonitorRead(a) ==
    /\ "READ" \in mon[a].interest
    /\ UNCHANGED alive
    /\ \/ /\ mon[a].sending
          /\ mon' = [mon EXCEPT ![a].interest = {"WRITE"}]
          /\ UNCHANGED <<job, logged, accountVars>>
       \/ /\ ~mon[a].sending
          /\ ~mon[a].gone
          /\ \E ch \in Chunks :
               /\ mon[a].lines + ch.lines <= BUFFER_LINES
               /\ mon' = [mon EXCEPT
                    ![a].lines    = @ + ch.lines,
                    ![a].partial  = ch.partial \/ (ch.lines = 0 /\ @),
                    ![a].interest = {"WRITE"}]
          /\ UNCHANGED <<job, logged, accountVars>>
       \/ /\ ~mon[a].sending
          /\ mon[a].gone
          /\ EndOfInput(a)

-----------------------------------------------------------------------------
(* Writing                                                                 *)

CanWrite(a) == "WRITE" \in mon[a].interest

\* Undefined behaviour at its worst: the process ends with all its connections.
Die ==
    /\ alive' = FALSE
    /\ mon' = [a \in Admins |-> Closed]
    /\ job' = [a \in Admins |-> NoJob]
    /\ logged' = FALSE
    /\ UNCHANGED accountVars

\* Mutant: requests already in the buffer are forgotten.
RestingAnyway(d) == {"READ"}

\* What is waited for once continue_sending is done, whether all was sent or
\* not: the administrator, unless there is something else to do.
Resting(d) ==
    IF Buffered(d) \/ d.finished THEN d.interest ELSE {"READ"}

\* Mutant: the -1 of a failed send() is counted as bytes sent.
SendErrorCounted(a, outcome) ==
    /\ CanWrite(a)
    /\ mon[a].sending
    /\ \/ /\ outcome = "all"
          /\ mon' = [mon EXCEPT ![a].sending = FALSE, ![a].unsent = 0,
                                ![a].interest = Resting(mon[a])]
       \/ /\ outcome = "error"
          /\ mon' = [mon EXCEPT ![a].unsent = @ + 1, ![a].interest = Resting(mon[a])]
    /\ UNCHANGED <<job, logged, accountVars, alive>>

\* The data is freed when send() fails and handleMonitorWrite goes on writing
\* to it: nothing may come of that, or the heap is no longer sound and the
\* process ends.
continue_sending(a, outcome) ==
    /\ CanWrite(a)
    /\ mon[a].sending
    /\ \/ /\ outcome = "all"
          /\ mon' = [mon EXCEPT ![a].sending = FALSE, ![a].unsent = 0,
                                ![a].interest = Resting(mon[a])]
          /\ UNCHANGED <<job, logged, accountVars, alive>>
       \/ /\ outcome = "short"
          /\ mon[a].unsent > 1
          /\ mon' = [mon EXCEPT ![a].unsent = @ - 1, ![a].interest = Resting(mon[a])]
          /\ UNCHANGED <<job, logged, accountVars, alive>>
       \/ /\ outcome = "error"
          /\ close_connection(a)
          /\ UNCHANGED alive
       \/ /\ outcome = "error"
          /\ Die

Parsing(a) ==
    /\ CanWrite(a)
    /\ ~mon[a].sending
    /\ ~mon[a].finished

\* monitor_parse meets a byte its automaton refuses, in a whole line or not:
\* ended and err_value are set for good.  handle_error finds no err_code,
\* writes nothing, and OP_WRITE stays: the same is found at every iteration.
error_arrival(a) ==
    /\ Parsing(a)
    /\ mon[a].parser = "ok"
    /\ Buffered(mon[a])
    /\ mon' = [mon EXCEPT ![a].parser = "rejected"]
    /\ UNCHANGED <<job, logged, accountVars, alive>>

\* An argument too long: err_value is set and ended never will be.  What is
\* behind it is never consumed.
save_arg(a) ==
    /\ Parsing(a)
    /\ mon[a].parser = "ok"
    /\ Buffered(mon[a])
    /\ \/ mon' = [mon EXCEPT ![a].parser = "overlong"]
       \/ mon' = [mon EXCEPT ![a].parser = "overlong", ![a].lines = 0,
                              ![a].partial = FALSE, ![a].interest = {"READ"}]
    /\ UNCHANGED <<job, logged, accountVars, alive>>

\* A byte that is not ASCII: process_char returns -1 where the number of a
\* state is expected, and the next byte is looked up outside the table.
process_char(a) ==
    /\ Parsing(a)
    /\ mon[a].parser = "ok"
    /\ Buffered(mon[a])
    /\ Die

\* The start of a line is consumed and the rest awaited.
monitor_incomplete(a) ==
    /\ Parsing(a)
    /\ mon[a].parser = "ok"
    /\ mon[a].lines = 0
    /\ mon' = [mon EXCEPT ![a].partial = FALSE, ![a].interest = {"READ"}]
    /\ UNCHANGED <<job, logged, accountVars, alive>>

\* A whole line is consumed; the parser starts afresh afterwards.
Parsed(a) ==
    /\ Parsing(a)
    /\ mon[a].parser = "ok"
    /\ mon[a].lines > 0
    /\ UNCHANGED alive

\* Mutant: the parser still holds the argument of the command it parsed.
ParserNotInitialised(d) == d

init_monitor_parser(d) == [d EXCEPT !.arg = NoName]

\* What is left of a line when handleMonitorWrite returns
Consumed(d, line) ==
    init_monitor_parser([d EXCEPT !.lines = @ - 1, !.arg = line.arg])

\* Mutant: is_sending is not set.
AnsweredUnsent(d, line) == [Consumed(d, line) EXCEPT !.unsent = MAX_SENDS]

Answered(d, line) ==
    [Consumed(d, line) EXCEPT !.sending = TRUE, !.unsent = MAX_SENDS]

\* COMMANDS, GET_CURR_CONN, GET_USERS..., and every refusal
OnlyAnswer(a, line) ==
    /\ mon' = [mon EXCEPT ![a] = Answered(@, line)]
    /\ UNCHANGED <<job, logged, accountVars>>

monitor_login_cmd(a, line) ==
    \/ /\ logged                             \* ALREADY_LOGGED
       /\ OnlyAnswer(a, line)
    \/ /\ ~logged
       /\ logged' = TRUE
       /\ mon' = [mon EXCEPT ![a] = [Answered(@, line) EXCEPT !.logged = TRUE]]
       /\ UNCHANGED <<job, accountVars>>

-----------------------------------------------------------------------------
(* Maildirs and accounts                                                   *)

\* maildir_open and maildir_build: create what is missing.
maildir_build(u) == [dirs EXCEPT ![u] = IF u \in Unmakeable THEN @ ELSE Whole]

\* Mutant: the result of maildir_build is not looked at.
AddUserWithoutMaildir(a, line) ==
    \E p \in Passwords :
    LET u     == line.arg
        added == user_add(users, total_users, u, p)
    IN IF added.code # 0 THEN OnlyAnswer(a, line)
       ELSE /\ dirs' = maildir_build(u)
            /\ users' = added.users
            /\ total_users' = added.total
            /\ mon' = [mon EXCEPT ![a] = Answered(@, line)]
            /\ UNCHANGED <<job, logged>>

\* The account is added first and taken out again if it gets no maildir.
monitor_add_user_cmd(a, line) ==
    \E p \in Passwords :
    LET u     == line.arg
        added == user_add(users, total_users, u, p)
        made  == maildir_build(u)
        kept  == IF made[u] = Whole THEN added
                 ELSE user_delete(added.users, added.total, u)
    IN IF added.code # 0 THEN OnlyAnswer(a, line)
       ELSE /\ dirs' = made
            /\ users' = kept.users
            /\ total_users' = kept.total
            /\ mon' = [mon EXCEPT ![a] = Answered(@, line)]
            /\ UNCHANGED <<job, logged>>

\* Mutant: OP_NOOP is not asked for while the command runs.
StartWithoutNoop(a, code, line) ==
    /\ dirs' = maildir_build(line.arg)
    /\ mon' = [mon EXCEPT ![a] =
         [Consumed(@, line) EXCEPT !.code = code, !.finished = FALSE, !.failed = FALSE]]
    /\ \E o \in PopenOutcomes :
         job' = IF o = "ok"
                THEN [job EXCEPT ![a] = [code |-> code, user |-> line.arg, at |-> "started"]]
                ELSE job
    /\ UNCHANGED <<logged, users, total_users>>

\* monitor_delete_maildir and monitor_populate_maildir, for a name that
\* exists.  handle_cmd does not learn whether executeCommand worked.
executeCommand(a, code, line) ==
    /\ dirs' = maildir_build(line.arg)
    /\ mon' = [mon EXCEPT ![a] =
         [Consumed(@, line) EXCEPT !.code = code, !.finished = FALSE,
                             !.failed = FALSE, !.interest = {}]]
    /\ \E o \in PopenOutcomes :
         job' = IF o = "ok"
                THEN [job EXCEPT ![a] = [code |-> code, user |-> line.arg, at |-> "started"]]
                ELSE job
    /\ UNCHANGED <<logged, users, total_users>>

handle_cmd(a, line) ==
    /\ Parsed(a)
    /\ \/ /\ line.cmd = "ASK"
          /\ OnlyAnswer(a, line)
       \/ /\ line.cmd = "LOGIN"
          /\ monitor_login_cmd(a, line)
       \/ /\ line.cmd = "QUIT"
          /\ close_connection(a)
       \/ /\ line.cmd = "ADD_USER"
          /\ IF mon[a].logged THEN monitor_add_user_cmd(a, line)
                              ELSE OnlyAnswer(a, line)
       \/ /\ line.cmd = "DELETE_USER"
          /\ total_users > MIN_TOTAL
          /\ IF mon[a].logged /\ user_exists(users, line.arg)
             THEN executeCommand(a, "RM", line)
             ELSE OnlyAnswer(a, line)
       \/ /\ line.cmd = "POPULATE_USER"
          /\ IF mon[a].logged /\ user_exists(users, line.arg)
             THEN executeCommand(a, "POPULATE", line)
             ELSE OnlyAnswer(a, line)

-----------------------------------------------------------------------------
(* The shell command                                                       *)

\* Mutant: the whole maildir is removed.
RemovesMaildir(u) == [dirs EXCEPT ![u] = {}]

\* "rm -rf %s": md.path still names the last directory maildir_build made.
Removes(u) == [dirs EXCEPT ![u] = @ \ {"tmp"}]

\* The shell prints DONE or, when the messages could not be written, nothing.
Shell(a) ==
    /\ job[a].at = "started"
    /\ \/ /\ job[a].code = "RM"
          /\ dirs' = Removes(job[a].user)
          /\ job' = [job EXCEPT ![a].at = "printed"]
       \/ /\ job[a].code = "POPULATE"
          /\ \/ /\ "new" \in dirs[job[a].user]
                /\ job' = [job EXCEPT ![a].at = "printed"]
             \/ job' = [job EXCEPT ![a].at = "silent"]
          /\ UNCHANGED dirs
    /\ UNCHANGED <<mon, logged, users, total_users, alive>>

\* Mutant: the session is not woken up.
HandleCommandAsleep(a) ==
    /\ job[a].at \in {"printed", "silent"}
    /\ mon' = [mon EXCEPT ![a].finished = TRUE,
                          ![a].failed = job[a].at = "silent"]
    /\ job' = [job EXCEPT ![a] = NoJob]
    /\ UNCHANGED <<logged, accountVars, alive>>

\* The pipe has the answer or its end: fill in cmd_data, close and unregister
\* the pipe, and wake the session up.
handle_command(a) ==
    /\ job[a].at \in {"printed", "silent"}
    /\ mon' = [mon EXCEPT ![a].finished = TRUE,
                          ![a].failed = job[a].at = "silent",
                          ![a].interest = {"WRITE"}]
    /\ job' = [job EXCEPT ![a] = NoJob]
    /\ UNCHANGED <<logged, accountVars, alive>>

\* The name to delete is read from the parser, which was initialised again as
\* soon as the shell command was started: it is the empty name, which deletes
\* the first free slot if that one is OFFLINE.
handle_finished_cmd(a) ==
    /\ CanWrite(a)
    /\ ~mon[a].sending
    /\ mon[a].finished
    /\ mon' = [mon EXCEPT ![a].sending = TRUE, ![a].unsent = MAX_SENDS,
                          ![a].finished = FALSE]
    /\ \/ /\ mon[a].failed \/ mon[a].code = "POPULATE"
          /\ UNCHANGED accountVars
       \/ /\ ~mon[a].failed
          /\ mon[a].code = "RM"
          /\ LET d == user_delete(users, total_users, mon[a].arg) IN
             /\ users' = d.users
             /\ total_users' = d.total
          /\ UNCHANGED dirs
    /\ UNCHANGED <<job, logged, alive>>

-----------------------------------------------------------------------------
(* The POP3 connections, as far as the table and the maildirs go: a name   *)
(* that is OFFLINE is claimed by USER, confirmed by PASS, and released by  *)
(* its holder.  A claim of the empty name is never released.               *)

user_cmd(u) ==
    /\ user_get_state(users, u) = USER_OFFLINE
    /\ users' = user_set_state(users, u, USER_LOGGING)
    /\ UNCHANGED <<mon, job, logged, total_users, dirs, alive>>

pass_cmd(u) ==
    /\ user_get_state(users, u) = USER_LOGGING
    /\ users' = user_set_state(users, u, USER_ONLINE)
    /\ dirs' = maildir_build(u)               \* maildir_set_username
    /\ UNCHANGED <<mon, job, logged, total_users, alive>>

release(u) ==
    /\ user_get_state(users, u) \in {USER_LOGGING, USER_ONLINE}
    /\ users' = user_set_state(users, u, USER_OFFLINE)
    /\ UNCHANGED <<mon, job, logged, total_users, dirs, alive>>

-----------------------------------------------------------------------------

handleMonitorWrite(a) ==
    \/ \E o \in SendOutcomes : continue_sending(a, o)
    \/ handle_finished_cmd(a)
    \/ error_arrival(a)
    \/ save_arg(a)
    \/ process_char(a)
    \/ monitor_incomplete(a)
    \/ \E l \in Requests[a] : handle_cmd(a, l)

Next ==
    /\ alive
    /\ \/ \E a \in Admins :
             \/ acceptMonitorConnection(a)
             \/ HangUp(a)
             \/ handleMonitorRead(a)
             \/ handleMonitorWrite(a)
             \/ Shell(a)
             \/ handle_command(a)
       \/ \E u \in Clients : user_cmd(u)
       \/ \E u \in Clients \ {NoName} : pass_cmd(u) \/ release(u)

Spec == Init /\ [][Next]_vars

\* select() serves every ready descriptor, a shell command ends, and an
\* administrator reads its answers or hangs up.  Neither it nor a POP3 client
\* owes anything else.
FairSpec ==
    /\ Spec
    /\ \A a \in Admins :
         /\ WF_vars(alive /\ handleMonitorWrite(a))
         /\ WF_vars(alive /\ mon[a].gone /\ handleMonitorRead(a))
         /\ WF_vars(alive /\ Shell(a))
         /\ WF_vars(alive /\ handle_command(a))

=============================================================================
