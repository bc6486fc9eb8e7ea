----------------------------- MODULE Transaction -----------------------------
(***************************************************************************)
(* One session of the POP3 server after PASS: the TRANSACTION state with   *)
(* its sending engine (transaction.c), the reader that feeds a message     *)
(* from a pipe into the client's output buffer (fileReader.c), the list of *)
(* messages and their flags (maildir.c), and the UPDATE state (update.c).  *)
(*                                                                         *)
(* One step is one callback, except in UPDATE, whose only callback changes *)
(* the file system several times: there a step is one system call, so that *)
(* the process can die between two of them.                                *)
(*                                                                         *)
(* Replies and the pieces of a message are tokens <<kind, number>>; the    *)
(* output buffer is a sequence of them.                                    *)
(***************************************************************************)
EXTENDS Integers, Sequences, FiniteSets, SequencesExt

CONSTANTS
    Mails,           \* messages that are, or will be, delivered
    Early,           \* those in new/ when the session starts
    OUTPUT,          \* pieces in which the -c program prints a message
    SED_PRINTS,      \* whether the sed script behind it prints its input
    CAT,             \* whether that program is the default one, cat
    MAX_BYTES_SEND,  \* tokens the engine gives to one send()
    BUFFER_LINES,    \* command lines the input buffer holds
    SendOutcomes,    \* of send(): "all", "short", "error"
    PipeOutcomes,    \* of popen() and of read(): "ok", "fail"
    DiskOutcomes     \* of opendir(), rename() and remove(): "ok", "fail"

ASSUME MailsAssumption       == IsFiniteSet(Mails) /\ Early \subseteq Mails
ASSUME OutputAssumption      == OUTPUT \in Nat /\ {SED_PRINTS, CAT} \subseteq BOOLEAN
ASSUME MaxBytesAssumption    == MAX_BYTES_SEND \in Nat \ {0}
ASSUME BufferLinesAssumption == BUFFER_LINES \in Nat \ {0}
ASSUME OutcomesAssumption ==
    /\ SendOutcomes \subseteq {"all", "short", "error"}
    /\ PipeOutcomes \subseteq {"ok", "fail"}
    /\ DiskOutcomes \subseteq {"ok", "fail"}

VARIABLES
    conn,     \* the client_data: state, interest, input, the send struct
    out,      \* write_buffer_client
    reader,   \* the file reader: its place in the selector, its pipe
    box,      \* maildir.new, the list the session works on
    disk,     \* where each message is in the file system
    upd,      \* progress of the UPDATE callback
    goodbye   \* whether the reply to QUIT was sent

vars == <<conn, out, reader, box, disk, upd, goodbye>>

-----------------------------------------------------------------------------

Dot == <<"dot", 0>>              \* TERMINATOR
Err == <<"-ERR", 0>>
Crlf == <<"crlf", 0>>

\* n = 0 stands for whatever atoi() does not read as a positive number,
\* NOOP for the commands answered by a fixed string.
Line == [cmd : {"STAT", "LIST ALL", "RSET", "NOOP", "QUIT"}, n : {0}]
        \union [cmd : {"LIST", "RETR", "DELE"}, n : 0 .. Cardinality(Mails) + 1]

Chunks ==
    {ch \in [lines : 0 .. BUFFER_LINES, partial : BOOLEAN] :
        ch.lines > 0 \/ ch.partial}

\* Pieces the pipe delivers: sed -n prints only what its script asks for.
Pipe == IF SED_PRINTS THEN OUTPUT ELSE 0

\* What the reader adds at the end of the file.
AtEnd == IF CAT THEN <<>> ELSE <<Crlf>>

Buffered(d) == d.lines > 0 \/ d.partial

InterestAfter(d) == IF Buffered(d) THEN {"WRITE"} ELSE {"READ"}

LoggedIn(lines) ==
    LET d == [state |-> "TRANSACTION", interest |-> {}, lines |-> lines,
              partial |-> FALSE, stuck |-> FALSE, finished |-> TRUE, multiline |-> FALSE,
              f |-> "NULL", n_listed |-> 0]
    IN [d EXCEPT !.interest = InterestAfter(d)]

Gone(how) == [LoggedIn(0) EXCEPT !.state = how, !.interest = {}]

NoReader == [on |-> "none", mail |-> 0, part |-> 0]
NoBox == [loaded |-> FALSE, list |-> <<>>, del |-> <<>>, read |-> <<>>, ndel |-> 0]

Init ==
    /\ conn \in {LoggedIn(n) : n \in 0 .. BUFFER_LINES}
    /\ out = <<>>
    /\ reader = NoReader
    /\ box = NoBox
    /\ disk = [m \in Mails |-> IF m \in Early THEN "new" ELSE "absent"]
    /\ upd = [at |-> 0, trash |-> FALSE]
    /\ goodbye = FALSE

CanRead  == conn.state = "TRANSACTION" /\ "READ" \in conn.interest
CanWrite == conn.state = "TRANSACTION" /\ "WRITE" \in conn.interest

\* send() takes k tokens of the n it is offered.  One it took a part of is
\* still to be sent, so a step that moves on within a token is a stutter.
Takes(outcome, n, k) ==
    \/ outcome = "all" /\ k = n
    \/ outcome = "short" /\ k \in 0 .. n - 1

Drop(s, k) == SubSeq(s, k + 1, Len(s))

\* The reader is left alone: it is another descriptor.  The list is freed;
\* the model keeps its last value, which nothing reads any more.
close_connection ==
    /\ conn' = Gone("CLOSED")
    /\ out' = <<>>
    /\ UNCHANGED <<reader, box, disk, upd, goodbye>>

-----------------------------------------------------------------------------
(* Reading from the client                                                 *)

Receive ==
    \/ /\ \E ch \in Chunks :
            /\ conn.lines + ch.lines <= BUFFER_LINES
            /\ conn' = [conn EXCEPT
                 !.lines    = @ + ch.lines,
                 !.partial  = ch.partial \/ (ch.lines = 0 /\ @),
                 !.interest = {"WRITE"}]
       /\ UNCHANGED <<out, reader, box, disk, upd, goodbye>>
    \/ close_connection

trans_read ==
    /\ CanRead
    /\ IF ~conn.finished \/ (conn.lines = BUFFER_LINES /\ out # <<>>)
       THEN /\ conn' = [conn EXCEPT !.interest = {"WRITE"}]
            /\ UNCHANGED <<out, reader, box, disk, upd, goodbye>>
       ELSE IF conn.lines < BUFFER_LINES THEN Receive
       ELSE close_connection

-----------------------------------------------------------------------------
(* The sending engine                                                      *)

\* Mutant: the reader is not asked to go on.
LoadWithoutReader ==
    /\ conn' = [conn EXCEPT !.interest = {}]
    /\ UNCHANGED reader

\* The client sleeps until the reader has more.  With no reader registered
\* the selector refuses to set its interest, and the client sleeps anyway.
load_more_bytes ==
    /\ conn' = [conn EXCEPT !.interest = {}]
    /\ reader' = IF reader.on = "none" THEN reader
                 ELSE [reader EXCEPT !.on = "READ"]

Unlisted(b, from) == {i \in from + 1 .. Len(b.list) : ~b.del[i]}
Next1(b, from) == CHOOSE i \in Unlisted(b, from) :
                      \A j \in Unlisted(b, from) : i <= j

\* Mutant: the next LIST goes on where this one stopped.
ListedForGood(d, b) ==
    IF Unlisted(b, d.n_listed) = {}
    THEN [d EXCEPT !.f = "NULL", !.n_listed = Len(b.list)]
    ELSE LET i == Next1(b, d.n_listed) IN
         [d EXCEPT !.n_listed = i, !.f = IF i = Len(b.list) THEN "NULL" ELSE "list"]

\* What cmd_list_all_new leaves in the send struct, and what it writes.
Listed(d, b) ==
    LET i == IF Unlisted(b, d.n_listed) = {} THEN Len(b.list)
             ELSE Next1(b, d.n_listed)
    IN IF i = Len(b.list) THEN [d EXCEPT !.f = "NULL", !.n_listed = 0]
                          ELSE [d EXCEPT !.n_listed = i]

ListItem(d, b) ==
    IF Unlisted(b, d.n_listed) = {} THEN <<>>
    ELSE << <<"item", Next1(b, d.n_listed)>> >>

cmd_list_all_new ==
    /\ conn' = Listed(conn, box)
    /\ out' = ListItem(conn, box)
    /\ UNCHANGED reader

write_terminator ==
    /\ conn' = [conn EXCEPT !.finished = TRUE]
    /\ out' = <<Dot>>
    /\ UNCHANGED reader

Finished(d) ==
    LET e == [d EXCEPT !.finished = TRUE, !.multiline = FALSE, !.f = "NULL"]
    IN IF Buffered(e) THEN e ELSE [e EXCEPT !.interest = {"READ"}]

send_data(outcome) ==
    /\ CanWrite
    /\ ~conn.finished
    /\ \/ /\ outcome = "error"
          /\ close_connection
       \/ /\ \E k \in 0 .. Len(out) :
               /\ Takes(outcome, IF Len(out) < MAX_BYTES_SEND THEN Len(out)
                                 ELSE MAX_BYTES_SEND, k)
               /\ \/ /\ k < Len(out)
                     /\ out' = Drop(out, k)
                     /\ UNCHANGED <<conn, reader>>
                  \/ /\ k = Len(out)
                     /\ \/ conn.f = "load" /\ load_more_bytes /\ out' = <<>>
                        \/ conn.f = "list" /\ cmd_list_all_new
                        \/ conn.f = "NULL" /\ conn.multiline /\ write_terminator
                        \/ /\ conn.f = "NULL" /\ ~conn.multiline
                           /\ conn' = Finished(conn)
                           /\ out' = <<>>
                           /\ UNCHANGED reader
          /\ UNCHANGED <<box, disk, upd, goodbye>>

\* A short send is not looked at: what is left stays in the buffer.
send_terminator(outcome) ==
    /\ CanWrite
    /\ conn.finished
    /\ conn.multiline
    /\ \/ /\ outcome = "error"
          /\ close_connection
       \/ /\ \E k \in 0 .. Len(out) :
               /\ Takes(outcome, IF Len(out) < MAX_BYTES_SEND THEN Len(out)
                                 ELSE MAX_BYTES_SEND, k)
               /\ out' = Drop(out, k)
          /\ conn' = Finished(conn)
          /\ UNCHANGED <<reader, box, disk, upd, goodbye>>

Idle == conn.finished /\ ~conn.multiline

\* An argument of more than MAX_ARG_LEN characters: err_value is set and
\* ended never, the parser consumes nothing any more.
save_arg ==
    /\ CanWrite
    /\ Idle
    /\ conn.stuck \/ Buffered(conn)
    /\ conn' = [conn EXCEPT !.stuck = TRUE, !.interest = {"READ"}]
    /\ UNCHANGED <<out, reader, box, disk, upd, goodbye>>

trans_incomplete ==
    /\ CanWrite
    /\ Idle
    /\ ~conn.stuck
    /\ conn.lines = 0
    /\ conn' = [conn EXCEPT !.partial = FALSE, !.interest = {"READ"}]
    /\ UNCHANGED <<out, reader, box, disk, upd, goodbye>>

-----------------------------------------------------------------------------
(* The list of messages                                                    *)

\* maildir_list_new reads new/ once; readdir() gives any order.
Lists ==
    IF box.loaded THEN {box}
    ELSE {[loaded |-> TRUE, list |-> s, del |-> [i \in DOMAIN s |-> FALSE],
           read |-> [i \in DOMAIN s |-> FALSE], ndel |-> 0] :
             s \in SetToSeqs({m \in Mails : disk[m] = "new"})}

Deleted(b) == {i \in DOMAIN b.list : b.del[i]}

maildir_set_del(b, i, d) ==
    [b EXCEPT !.del[i] = d,
              !.ndel = IF ~b.del[i] /\ d THEN @ + 1
                       ELSE IF b.del[i] /\ ~d THEN @ - 1
                       ELSE @]

maildir_set_read(b, i) == [b EXCEPT !.read[i] = TRUE]

\* Mutant: RSET clears the flags and not the count.
RsetKeepsCount(b) == [b EXCEPT !.del = [i \in DOMAIN b.list |-> FALSE]]

\* maildir_set_del(mails, i, false) for every message
cmd_rset(b) ==
    [b EXCEPT !.del = [i \in DOMAIN b.list |-> FALSE],
              !.ndel = @ - Cardinality(Deleted(b))]

\* What handle_request leaves behind: the list, the message, the send struct.
Says(b, msg) == [box |-> b, msg |-> msg, f |-> "NULL", retr |-> 0]

Valid(b, n) == n \in DOMAIN b.list

\* cmd_retr looks at the number only: a deleted message can be retrieved.
handle_request(b, line) ==
    LET n == line.n IN
    CASE line.cmd = "STAT"     -> Says(b, <<"stat", Len(b.list) - b.ndel>>)
      [] line.cmd = "LIST ALL" -> [Says(b, <<"list", Len(b.list) - b.ndel>>)
                                     EXCEPT !.f = "list"]
      [] line.cmd = "RSET"     -> Says(cmd_rset(b), <<"rset", Len(b.list)>>)
      [] line.cmd = "LIST" /\ Valid(b, n) /\ ~b.del[n] -> Says(b, <<"item", n>>)
      [] line.cmd = "RETR" /\ Valid(b, n) ->
           [Says(maildir_set_read(b, n), <<"retr", n>>)
              EXCEPT !.f = "load", !.retr = n]
      [] line.cmd = "DELE" /\ Valid(b, n) /\ ~b.del[n] ->
           Says(maildir_set_del(b, n, TRUE), <<"dele", n>>)
      [] OTHER -> Says(b, Err)

-----------------------------------------------------------------------------
(* trans_process: one command                                              *)

\* init_file_reader, when popen succeeds
Started(n) == [on |-> "READ", mail |-> n, part |-> 0]

\* The connection when the reply has been given to send(): d is what the
\* command left, some of the reply may still be in the buffer.
AfterReply(d, left) ==
    IF left # <<>> THEN [d EXCEPT !.finished = FALSE]
    ELSE IF ~d.finished THEN [d EXCEPT !.interest = {"WRITE"}]
    ELSE [d EXCEPT !.interest = InterestAfter(d)]

\* Reply r goes out by write_msg, which offers send() the whole buffer.
Reply(r, outcome, popen) ==
    LET started == r.f = "load" /\ popen = "ok"
        d == [conn EXCEPT !.lines = @ - 1, !.f = r.f,
                          !.finished = r.f = "NULL", !.multiline = r.f # "NULL",
                          !.interest = IF started THEN {} ELSE @]
        all == Append(out, r.msg)
    IN /\ reader' = IF started THEN Started(r.retr)
                    ELSE IF r.f = "load" THEN [NoReader EXCEPT !.mail = r.retr]
                    ELSE reader
       /\ box' = r.box
       /\ \/ /\ outcome = "error"
             /\ conn' = Gone("CLOSED")
             /\ out' = <<>>
          \/ \E k \in 0 .. Len(all) :
                /\ Takes(outcome, Len(all), k)
                /\ out' = Drop(all, k)
                /\ conn' = AfterReply(d, Drop(all, k))
       /\ UNCHANGED <<disk, upd, goodbye>>

trans_command(line, outcome, popen, opendir) ==
    /\ CanWrite
    /\ Idle
    /\ ~conn.stuck
    /\ conn.lines > 0
    /\ line.cmd # "QUIT"
    /\ \/ /\ line.cmd = "NOOP"
          /\ Reply(Says(box, <<"ok", 0>>), outcome, popen)
       \/ /\ line.cmd # "NOOP"
          /\ opendir = "ok" \/ box.loaded
          /\ \E b \in Lists : Reply(handle_request(b, line), outcome, popen)
       \/ /\ line.cmd # "NOOP"
          /\ opendir = "fail" /\ ~box.loaded
          /\ Reply(Says(box, Err), outcome, popen)

\* QUIT says nothing; init_update asks for OP_WRITE.
trans_quit ==
    /\ CanWrite
    /\ Idle
    /\ ~conn.stuck
    /\ conn.lines > 0
    /\ conn' = [conn EXCEPT !.state = "UPDATE", !.interest = {"WRITE"},
                            !.lines = @ - 1, !.finished = (out = <<>>)]
    /\ upd' = [upd EXCEPT !.at = 1]
    /\ UNCHANGED <<out, reader, box, disk, goodbye>>

-----------------------------------------------------------------------------
(* handle_file_reader                                                      *)

ReadSome ==
    /\ reader.part < Pipe
    /\ conn' = [conn EXCEPT !.interest = {"WRITE"}]
    /\ out' = Append(out, <<"body", reader.part + 1>>)
    /\ reader' = [reader EXCEPT !.on = "NOOP", !.part = @ + 1]

\* Mutant: at the end of the file the client is not woken up.
EofKeepsClientAsleep ==
    /\ reader.part = Pipe
    /\ conn' = [conn EXCEPT !.f = "NULL"]
    /\ out' = out \o AtEnd
    /\ reader' = [reader EXCEPT !.on = "none"]

\* Mutant: at the end of the file the reader stays registered.
EofKeepsReader ==
    /\ reader.part = Pipe
    /\ conn' = [conn EXCEPT !.interest = {"WRITE"}, !.f = "NULL"]
    /\ out' = out \o AtEnd
    /\ reader' = [reader EXCEPT !.on = "NOOP"]

ReadEof ==
    /\ reader.part = Pipe
    /\ conn' = [conn EXCEPT !.interest = {"WRITE"}, !.f = "NULL"]
    /\ out' = out \o AtEnd
    /\ reader' = [reader EXCEPT !.on = "none"]

\* The reader goes, and send.f still points to it.
ReadFails ==
    /\ conn' = [conn EXCEPT !.interest = {"WRITE"}]
    /\ reader' = [reader EXCEPT !.on = "none"]
    /\ UNCHANGED out

\* The branch for a full output buffer is not reachable: the reader is asked
\* for more only when the buffer was emptied, or holds part of one reply.
handle_file_reader(outcome) ==
    /\ reader.on = "READ"
    /\ conn.state = "TRANSACTION"
    /\ \/ outcome = "ok" /\ (ReadSome \/ ReadEof)
       \/ outcome = "fail" /\ ReadFails
    /\ UNCHANGED <<box, disk, upd, goodbye>>

-----------------------------------------------------------------------------
(* UPDATE: one step per system call of the callback                        *)

Updating == conn.state = "UPDATE" /\ upd.at \in DOMAIN box.list

\* Mutant: a message that was read and deleted is only moved.
WhereReadFirst(b, i) ==
    IF b.read[i] THEN "seen" ELSE IF b.del[i] THEN "trash" ELSE "new"

\* Mutant: what was retrieved is deleted as well.
WhereReadToTrash(b, i) == IF b.del[i] \/ b.read[i] THEN "trash" ELSE "new"

\* Where the update sends a message: cur with or without the flag T, or
\* nowhere.
Where(b, i) ==
    IF b.del[i] THEN "trash" ELSE IF b.read[i] THEN "seen" ELSE "new"

\* Nothing looks at the result of rename().
move_and_set_flags(outcome) ==
    /\ Updating
    /\ ~upd.trash
    /\ LET to == Where(box, upd.at) IN
       /\ disk' = IF outcome = "ok" THEN [disk EXCEPT ![box.list[upd.at]] = to]
                  ELSE disk
       /\ upd' = IF to = "trash" THEN [upd EXCEPT !.trash = TRUE]
                 ELSE [upd EXCEPT !.at = @ + 1]
    /\ UNCHANGED <<conn, out, reader, box, goodbye>>

\* The remove() of maildir_del_permanentely: of the new name, which exists
\* only if rename() succeeded.
maildir_del_permanentely(outcome) ==
    /\ Updating
    /\ upd.trash
    /\ LET m == box.list[upd.at] IN
       disk' = IF outcome = "ok" /\ disk[m] = "trash"
               THEN [disk EXCEPT ![m] = "gone"] ELSE disk
    /\ upd' = [upd EXCEPT !.at = @ + 1, !.trash = FALSE]
    /\ UNCHANGED <<conn, out, reader, box, goodbye>>

\* all_rm and all_mv cannot be false, and the reply would be +OK anyway.
update_process(outcome) ==
    /\ conn.state = "UPDATE"
    /\ upd.at = Len(box.list) + 1
    /\ goodbye' = (outcome # "error")
    /\ conn' = Gone("CLOSED")
    /\ out' = <<>>
    /\ UNCHANGED <<reader, box, disk, upd>>

-----------------------------------------------------------------------------
(* The environment                                                         *)

Deliver(m) ==
    /\ disk[m] = "absent"
    /\ disk' = [disk EXCEPT ![m] = "new"]
    /\ UNCHANGED <<conn, out, reader, box, upd, goodbye>>

\* The process dies, the file system stays.
Crash ==
    /\ conn.state \in {"TRANSACTION", "UPDATE"}
    /\ conn' = Gone("CRASHED")
    /\ out' = <<>>
    /\ reader' = NoReader
    /\ UNCHANGED <<box, disk, upd, goodbye>>

trans_process ==
    \/ \E o \in SendOutcomes : send_data(o)
    \/ \E o \in SendOutcomes : send_terminator(o)
    \/ save_arg
    \/ trans_incomplete
    \/ \E l \in Line, o \in SendOutcomes, p \in PipeOutcomes, d \in DiskOutcomes :
         trans_command(l, o, p, d)
    \/ trans_quit

update ==
    \/ \E o \in DiskOutcomes : move_and_set_flags(o)
    \/ \E o \in DiskOutcomes : maildir_del_permanentely(o)
    \/ \E o \in SendOutcomes : update_process(o)

read_file == \E o \in PipeOutcomes : handle_file_reader(o)

Next ==
    \/ trans_read
    \/ trans_process
    \/ read_file
    \/ update
    \/ \E m \in Mails : Deliver(m)
    \/ Crash

Spec == Init /\ [][Next]_vars

\* The selector serves a descriptor that stays ready, the pipe delivers what
\* the program prints and then ends, and a callback runs to its end.  The
\* client reads what it is sent, so that it can be written to; it need not
\* send anything.
FairSpec ==
    /\ Spec
    /\ WF_vars(trans_process)
    /\ WF_vars(read_file)
    /\ WF_vars(update)

=============================================================================
