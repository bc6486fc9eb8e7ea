----------------------------- MODULE LineParser -----------------------------
(***************************************************************************)
(* The automaton of parser.c and the three tables it is run with: those of *)
(* the AUTHORIZATION and the TRANSACTION state of POP3 and that of the     *)
(* monitor.  A line is a command, perhaps a space and one argument, CR LF. *)
(***************************************************************************)
EXTENDS ByteBuffer, SequencesExt

CONSTANTS
    Letters,              \* the bytes isalpha() knows, not all of them
    Others,               \* the other printable ones, without the space
    MAX_CMD_LEN,          \* of a POP3 command (5)
    MONITOR_MAX_CMD_LEN,  \* of a command of the monitor (40)
    MAX_ARG_LEN           \* of an argument (40)

ASSUME BytesAssumption ==
    (Letters \union Others) \intersect {"SP", "CR", "LF", "NUL"} = {}

ASSUME LengthsAssumption ==
    /\ MAX_CMD_LEN \in Nat \ {0}
    /\ MONITOR_MAX_CMD_LEN \in Nat \ {0}
    /\ MAX_ARG_LEN \in Nat \ {0}

\* "NUL" stands for every byte that has no column in the tables.
Printable  == Letters \union Others \union {"SP"}
Activators == Printable \union {"CR", "LF"}
Byte       == Activators \union {"NUL"}

Kinds  == {"auth", "trans", "monitor"}
States == {"S0", "S1", "S2", "S3", "SERR"}

\* "none" is the state_id after process_char returned -1.
Parser == [state : States \union {"none"},
           cmd   : Seq(Byte),
           arg   : Seq(Byte),
           ended : BOOLEAN,
           err   : {"NO_ERROR", "INVALID_CHAR", "INVALID_ARG"}]

-----------------------------------------------------------------------------
(* The tables                                                              *)

add_activator(c)             == {c}
add_activator_except(except) == Activators \ except

\* Row by row, the transitions in the order they are tried.
conf_auth_parser ==
    [S0   |-> << [to |-> "S0", on |-> add_activator_except({"SP", "CR", "LF"})],
                 [to |-> "S1", on |-> add_activator("SP")],
                 [to |-> "S2", on |-> add_activator("CR")] >>,
     S1   |-> << [to |-> "S1", on |-> add_activator_except({"CR", "LF"})],
                 [to |-> "S2", on |-> add_activator("CR")] >>,
     S2   |-> << [to |-> "S3", on |-> add_activator("LF")] >>,
     S3   |-> << >>,
     SERR |-> << >>]

\* The other two are written out again in the code.
conf_trans_parser   == conf_auth_parser
conf_monitor_parser == conf_auth_parser

Conf(kind) ==
    CASE kind = "auth"    -> conf_auth_parser
      [] kind = "trans"   -> conf_trans_parser
      [] kind = "monitor" -> conf_monitor_parser

-----------------------------------------------------------------------------
(* The callbacks of the automaton                                          *)

init_parser == [state |-> "S0", cmd |-> << >>, arg |-> << >>,
                ended |-> FALSE, err |-> "NO_ERROR"]

\* POP3 keeps the letters only: "US3ER" is USER.  The monitor keeps all but
\* the space.  What is too long is cut.
Kept(kind)   == IF kind = "monitor" THEN Printable \ {"SP"} ELSE Letters
CmdLen(kind) == IF kind = "monitor" THEN MONITOR_MAX_CMD_LEN ELSE MAX_CMD_LEN

save_cmd(p, kind, c) ==
    IF c \in Kept(kind) /\ Len(p.cmd) < CmdLen(kind)
    THEN [p EXCEPT !.cmd = Append(@, c)] ELSE p

save_arg(p, c) ==
    IF c \notin Printable THEN p
    ELSE IF Len(p.arg) >= MAX_ARG_LEN THEN [p EXCEPT !.err = "INVALID_ARG"]
    ELSE [p EXCEPT !.arg = Append(@, c)]

final_arrival(p) == [p EXCEPT !.ended = TRUE]
error_arrival(p) == [p EXCEPT !.err = "INVALID_CHAR", !.ended = TRUE]

Departed(p, kind, c) ==
    CASE p.state = "S0" -> save_cmd(p, kind, c)
      [] p.state = "S1" -> save_arg(p, c)
      [] OTHER          -> p

Arrived(p, to) ==
    CASE to = "S3"   -> final_arrival([p EXCEPT !.state = to])
      [] to = "SERR" -> error_arrival([p EXCEPT !.state = to])
      [] OTHER       -> [p EXCEPT !.state = to]

\* A byte without a column leaves -1 for a state, from which nothing is
\* defined; here it stays there.
process_char(p, kind, c) ==
    IF p.state = "none" \/ c \notin Activators THEN [p EXCEPT !.state = "none"]
    ELSE LET row  == Conf(kind)[p.state]
             fits == {i \in DOMAIN row : c \in row[i].on}
         IN Arrived(Departed(p, kind, c), IF fits = {} THEN "SERR" ELSE row[Min(fits)].to)

Stopped(p) == p.ended \/ p.err # "NO_ERROR"

\* A parser and what it reads from
Reading(n) == [parser : Parser, buffer : Buffer(Byte, n)]

\* Mutant: the state of the automaton does not survive the end of the buffer.
ParseAfresh(p, kind, b) ==
    LET step == [x \in Reading(b.limit) \X Byte |->
                   IF Stopped(x[1].parser) THEN x[1]
                   ELSE [parser |-> process_char(x[1].parser, kind, x[2]),
                         buffer |-> buffer_read_adv(x[1].buffer, 1)]]
    IN FoldLeft(LAMBDA done, c : step[<<done, c>>],
                [parser |-> [p EXCEPT !.state = "S0"], buffer |-> b], Unread(b))

\* auth_parse, trans_parse and monitor_parse: byte by byte, until the line
\* ends, an error or the end of what was received.
parse(p, kind, b) ==
    LET step == [x \in Reading(b.limit) \X Byte |->
                   IF Stopped(x[1].parser) THEN x[1]
                   ELSE [parser |-> process_char(x[1].parser, kind, x[2]),
                         buffer |-> buffer_read_adv(x[1].buffer, 1)]]
    IN FoldLeft(LAMBDA done, c : step[<<done, c>>],
                [parser |-> p, buffer |-> b], Unread(b))

=============================================================================
