------------------------ MODULE TransactionProperties ------------------------
(***************************************************************************)
(* What a session must guarantee to its client and to the maildrop.        *)
(***************************************************************************)
EXTENDS Transaction, Numbering

Tokens ==
    ({"dot", "-ERR", "crlf", "ok"} \X {0})
    \union ({"stat", "list", "item", "rset", "retr", "dele", "body"} \X Nat)

\* The only type invariant: the send struct, the list of messages with its
\* count of deleted ones, the reader and the files.
TypeOK ==
    /\ conn \in [state : {"TRANSACTION", "UPDATE", "CLOSED", "CRASHED"},
                 interest : SUBSET {"READ", "WRITE"},
                 lines : 0 .. BUFFER_LINES, partial : BOOLEAN, stuck : BOOLEAN,
                 finished : BOOLEAN, multiline : BOOLEAN,
                 f : {"NULL", "load", "list"}, n_listed : Nat]
    /\ out \in Seq(Tokens)
    /\ reader \in [on : {"none", "NOOP", "READ"}, mail : Nat, part : Nat]
    /\ box.list \in Seq(Mails)
    /\ {DOMAIN box.del, DOMAIN box.read} = {DOMAIN box.list}
    /\ box.ndel \in 0 .. Len(box.list)
    /\ disk \in [Mails -> {"absent", "new", "seen", "trash", "gone"}]
    /\ upd.at \in 0 .. Len(box.list) + 1

\* What of the current response is still to be put in the output buffer.
Pending ==
    CASE conn.f = "load" ->
           [i \in 1 .. Pipe - reader.part |-> <<"body", reader.part + i>>]
             \o AtEnd \o <<Dot>>
      [] conn.f = "list" ->
           Numbered("item", Ascending(Unlisted(box, conn.n_listed))) \o <<Dot>>
      [] conn.f = "NULL" /\ conn.multiline /\ ~conn.finished -> <<Dot>>
      [] OTHER -> <<>>

Session == INSTANCE MaildropSession WITH
    Lines   <- Line,
    Pieces  <- Pipe,
    Trailer <- AtEnd,
    phase   <- IF conn.state \in {"CLOSED", "CRASHED"} THEN "CLOSED"
               ELSE conn.state,
    loaded  <- box.loaded,
    list    <- box.list,
    marked  <- Deleted(box),
    owed    <- IF conn.state = "TRANSACTION" THEN out \o Pending ELSE out,
    removed <- {m \in Mails : disk[m] \in {"trash", "gone"}}

\* However send() cuts the buffer, the reader and the client alternate, and
\* commands are pipelined, the client receives each response whole and in
\* order, with the messages, numbers and marks of when its command was read;
\* and a message leaves new/ and cur/ only if it was marked when QUIT came
\* (RSET takes marks back, RETR makes none).
ImplementsSession == Session!Spec

\* Somebody will move the session on: the client's descriptor can be written;
\* or everything is answered and it waits for a command; or it sleeps, and the
\* reader that will wake it up is being waited for (fileReader.c trades the
\* interests of the two descriptors back and forth).  All that may be withheld
\* from a client is the end of a terminator, which send_terminator drops out of
\* sight when send() takes only a part of it.
SomebodyIsAwake ==
    conn.state = "TRANSACTION" =>
        \/ conn.interest = {"WRITE"}
        \/ /\ conn.interest = {"READ"}
           /\ Idle
           /\ out \in {<<>>, <<Dot>>}
           /\ Buffered(conn) => conn.stuck
        \/ conn.interest = {} /\ conn.f = "load" /\ reader.on = "READ"

\* A reader is registered only while the RETR it was made for is being sent:
\* there is one fr_data per client, and a second RETR would overwrite it.
ReaderServesOneRetr ==
    conn.state = "TRANSACTION" /\ reader.on # "none" =>
        /\ conn.f = "load"
        /\ conn.multiline
        /\ ~conn.finished
        /\ box.read[reader.mail]

\* A response that was begun is finished, or the session ends: no client
\* waits for ever for the rest of a message or for the terminator.
EveryResponseEnds ==
    conn.state = "TRANSACTION" /\ ~Idle ~> conn.state # "TRANSACTION" \/ Idle

\* A client that was told "+OK server signing off" finds its maildrop as that
\* says: what it deleted is gone, what it retrieved is in cur/, the rest is
\* where it was.
GoodbyeTellsTheTruth ==
    goodbye =>
        \A i \in DOMAIN box.list :
            disk[box.list[i]] = CASE box.del[i] -> "gone"
                                  [] ~box.del[i] /\ box.read[i] -> "seen"
                                  [] OTHER -> "new"

\* When RETR has reached the end of the file, the client was given all that
\* the program printed for the message.
RetrSendsTheOutput ==
    conn.f = "NULL" /\ conn.multiline /\ reader.mail # 0 => reader.part = OUTPUT

\* Once the session is closed nothing of it is left: the reader's descriptor
\* is registered no more ("REMEMBER to free any allocated resources").
ClosedLeavesNoReader == conn.state = "CLOSED" => reader.on = "none"

=============================================================================
