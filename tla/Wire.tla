-------------------------------- MODULE Wire --------------------------------
(***************************************************************************)
(* One connection of the monitor byte by byte: the client program, or one  *)
(* that sends everything at once, the two directions of the connection,    *)
(* which keep the order of the bytes and nothing of how they were cut, and *)
(* the reading, parsing and writing of monitor.c.                          *)
(***************************************************************************)
EXTENDS MonitorClient

CONSTANTS
    Argvs,              \* command lines, each beginning with the LOGIN of main
    Pipelines,          \* lines sent in one go by another program
    READ_BUFFER_SIZE,   \* MONITOR_BUFFER_SIZE for what is received
    WRITE_BUFFER_SIZE   \* and for what is sent

ASSUME SizesAssumption ==
    /\ READ_BUFFER_SIZE \in Nat \ {0}
    /\ WRITE_BUFFER_SIZE \in Nat \ {0}

VARIABLES
    argv,          \* the command line; << >> for the other program
    argcmd,        \* place of the next word of it
    client,        \* "ready", "receiving", "closed"
    last,          \* of the client's buffer
    toServer,      \* bytes on their way
    toClient,
    open,          \* the server has the connection
    interest,      \* "READ" or "WRITE"
    is_sending,
    read_buffer,
    write_buffer,
    parser,
    asked,         \* history: the lines sent
    executed,      \* history: the lines carried out
    received,      \* history: the bytes that reached the client
    short          \* history: a send() of the server took a part only

vars == <<argv, argcmd, client, last, toServer, toClient, open, interest, is_sending,
          read_buffer, write_buffer, parser, asked, executed, received, short>>
clientVars == <<argv, argcmd, client, last, asked, received>>
serverVars == <<open, interest, is_sending, read_buffer, write_buffer, parser,
                executed, short>>

-----------------------------------------------------------------------------

\* Every answer ends with the terminator and has it nowhere else; that of a
\* command without arguments (GET_USERS, COMMANDS) has lines inside.
Answer(line) ==
    CASE line.cmd = <<Quit>> -> << >>
      [] line.cmd = <<Zero>> -> <<Zero, "CR", "LF", Zero>> \o MONITOR_TERMINATOR
      [] OTHER               -> <<Head(line.cmd)>> \o MONITOR_TERMINATOR

\* That to GET_USERS is the longest and shorter than the buffer: 510 users of
\* at most 53 bytes each, of MONITOR_BUFFER_SIZE (32768).
ASSUME AnswersAssumption ==
    Len(Answer([cmd |-> <<Zero>>, arg |-> << >>])) < WRITE_BUFFER_SIZE

\* The words of a command line are printable.  What the other program sends is
\* lines, of which the automaton may not want every byte.
Command ==
    {line \in [cmd : Seq(Activators \ {"SP", "CR"}), arg : Seq(Activators \ {"CR"})] :
        Len(line.cmd) \in 1 .. MONITOR_MAX_CMD_LEN}

ASSUME LinesAssumption ==
    Argvs \subseteq Seq(Seq(Printable)) /\ Pipelines \subseteq Seq(Command)

Flat(seqs) == FlattenSeq(seqs)

Init ==
    /\ \/ argv \in Argvs /\ asked = << >>
       \/ argv = << >> /\ asked \in Pipelines
    /\ argcmd = 1
    /\ client = IF argv = << >> THEN "receiving" ELSE "ready"
    /\ last = NoBytes
    /\ toServer = Flat([i \in DOMAIN asked |-> Bytes(asked[i])])
    /\ toClient = << >>
    /\ open = TRUE
    /\ interest = "READ"
    /\ is_sending = FALSE
    /\ read_buffer = buffer_init(READ_BUFFER_SIZE, "NUL")
    /\ write_buffer = buffer_init(WRITE_BUFFER_SIZE, "NUL")
    /\ parser = init_parser
    /\ executed = << >>
    /\ received = << >>
    /\ short = FALSE

-----------------------------------------------------------------------------
(* The client                                                              *)

\* cmd_exec: one command, its arguments behind it
send_cmd ==
    /\ client = "ready"
    /\ Runs(argv, argcmd)
    /\ LET name == get_cmd_index(argv[argcmd])
           n    == monitor_cmds_args[name]
           line == LineOf(name, SubSeq(argv, argcmd + 1, argcmd + n))
       IN /\ toServer' = toServer \o Bytes(line)
          /\ asked' = Append(asked, line)
          /\ argcmd' = argcmd + 1 + n
    /\ client' = "receiving"
    /\ last' = NoBytes
    /\ UNCHANGED <<argv, received, toClient, serverVars>>

\* At the end, and at a word that is no command or lacks its arguments
cmd_quit ==
    /\ client = "ready"
    /\ ~Runs(argv, argcmd)
    /\ LET line == LineOf(Quit, << >>) IN
       /\ toServer' = IF open THEN toServer \o Bytes(line) ELSE toServer
       /\ asked' = Append(asked, line)
    /\ client' = "closed"
    /\ UNCHANGED <<argv, argcmd, last, received, toClient, serverVars>>

\* A chunk of any size; the terminator is looked for behind it.  recv() keeps
\* returning 0 once the server has closed, and the client keeps asking.
recv_cmd ==
    /\ client = "receiving"
    /\ \E n \in 1 .. Len(toClient) :
         LET chunk == SubSeq(toClient, 1, n) IN
         /\ toClient' = SubSeq(toClient, n + 1, Len(toClient))
         /\ received' = received \o chunk
         /\ last' = buffer_write(last, chunk)
    /\ client' = IF argv # << >> /\ has_terminator(last') THEN "ready" ELSE "receiving"
    /\ UNCHANGED <<argv, argcmd, asked, toServer, serverVars>>

-----------------------------------------------------------------------------
(* The server                                                              *)

close_connection ==
    /\ open' = FALSE
    /\ toServer' = << >>
    /\ UNCHANGED <<interest, is_sending, read_buffer, write_buffer, parser>>

\* The branch for a full buffer does not return: recv() is then given no room
\* and its 0 is taken for the end of the input.
handleMonitorRead ==
    /\ open
    /\ interest = "READ"
    /\ toServer # << >> \/ client = "closed"
    /\ \/ /\ is_sending
          /\ interest' = "WRITE"
          /\ UNCHANGED <<toServer, open, is_sending, read_buffer, write_buffer, parser>>
       \/ /\ ~is_sending
          /\ \E n \in 1 .. Len(toServer) :
               /\ n <= Room(read_buffer)
               /\ read_buffer' = Filled(read_buffer, SubSeq(toServer, 1, n))
               /\ toServer' = SubSeq(toServer, n + 1, Len(toServer))
          /\ interest' = "WRITE"
          /\ UNCHANGED <<open, is_sending, write_buffer, parser>>
       \/ /\ ~is_sending
          /\ toServer = << >> \/ ~buffer_can_write(read_buffer)
          /\ close_connection
    /\ UNCHANGED <<clientVars, toClient, executed, short>>

\* Mutant: what is already in the buffer waits for more.
SleepingAnyway(b) == "READ"

\* What the session waits for when there is nothing left to do at once
Waiting(b) == IF buffer_can_read(b) THEN interest ELSE "READ"

\* Mutant: all of it is dropped from the buffer, however much was sent.
SendForgets ==
    /\ open
    /\ interest = "WRITE"
    /\ is_sending
    /\ \E n \in 1 .. Len(Unread(write_buffer)) :
         toClient' = toClient \o SubSeq(Unread(write_buffer), 1, n)
    /\ write_buffer' = buffer_reset(write_buffer)
    /\ is_sending' = FALSE
    /\ interest' = Waiting(read_buffer)
    /\ UNCHANGED <<clientVars, toServer, open, read_buffer, parser, executed, short>>

\* send() takes all of it, or a part.  With nothing to send it takes nothing.
continue_sending ==
    /\ open
    /\ interest = "WRITE"
    /\ is_sending
    /\ \E n \in 0 .. Len(Unread(write_buffer)) :
         /\ n = 0 => ~buffer_can_read(write_buffer)
         /\ toClient' = toClient \o SubSeq(Unread(write_buffer), 1, n)
         /\ write_buffer' = buffer_read_adv(write_buffer, n)
         /\ is_sending' = (n < Len(Unread(write_buffer)))
         /\ short' = (short \/ n < Len(Unread(write_buffer)))
    /\ interest' = Waiting(read_buffer)
    /\ UNCHANGED <<clientVars, toServer, open, read_buffer, parser, executed>>

\* strcpy() writes the end of the string behind the message, if there is room
\* for the message.
write_in_buffer(b, msg) ==
    IF Room(b) < Len(msg) THEN b
    ELSE LET f == Filled(b, msg) IN
         IF buffer_can_write(f) THEN [f EXCEPT !.data[f.write] = "NUL"] ELSE f

\* Mutant: it is left out, and the line is complete for ever.
ParserKept(p) == p

init_monitor_parser(p) == init_parser

\* monitor_parse, and handle_cmd when a line is complete.  After an error the
\* parser stays as it is, and so does OP_WRITE.
handleMonitorWrite ==
    /\ open
    /\ interest = "WRITE"
    /\ ~is_sending
    /\ \E parsed \in {parse(parser, "monitor", read_buffer)} :
         IF parsed.parser.ended /\ parsed.parser.err = "NO_ERROR"
         THEN LET line == [cmd |-> parsed.parser.cmd, arg |-> parsed.parser.arg] IN
              /\ executed' = Append(executed, line)
              /\ IF line.cmd = <<Quit>>
                 THEN close_connection
                 ELSE /\ read_buffer' = parsed.buffer
                      /\ write_buffer' = write_in_buffer(write_buffer, Answer(line))
                      /\ is_sending' = TRUE
                      /\ parser' = init_monitor_parser(parsed.parser)
                      /\ UNCHANGED <<open, interest, toServer>>
         ELSE /\ read_buffer' = parsed.buffer
              /\ parser' = parsed.parser
              /\ interest' = IF parsed.parser.ended THEN interest ELSE Waiting(parsed.buffer)
              /\ UNCHANGED <<open, toServer, is_sending, write_buffer, executed>>
    /\ UNCHANGED <<clientVars, toClient, short>>

-----------------------------------------------------------------------------

Next ==
    \/ send_cmd
    \/ cmd_quit
    \/ recv_cmd
    \/ handleMonitorRead
    \/ continue_sending
    \/ handleMonitorWrite

Spec == Init /\ [][Next]_vars

\* select() serves the connection, and a client that is reading reads.
FairSpec ==
    /\ Spec
    /\ WF_vars(recv_cmd)
    /\ WF_vars(send_cmd)
    /\ WF_vars(handleMonitorRead)
    /\ WF_vars(continue_sending)
    /\ WF_vars(handleMonitorWrite)

=============================================================================
