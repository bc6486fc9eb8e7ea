---------------------------- MODULE MonitorClient ----------------------------
(***************************************************************************)
(* The client program (client.c, client/cmd.c): it logs in, runs the       *)
(* commands of its command line one after the other, each time up to the   *)
(* end of the answer, and quits.                                           *)
(*                                                                         *)
(* A word of the command line is a sequence of bytes.  A command's name is *)
(* one letter: of the eleven, those with as many arguments are one.        *)
(***************************************************************************)
EXTENDS LineParser, FiniteSets

CONSTANTS
    Quit, Login,    \* the names of QUIT and LOGIN
    Zero, One, Two  \* the names of the others, by number of arguments

Names == {Quit, Login, Zero, One, Two}

ASSUME NamesAssumption == Names \subseteq Letters /\ Cardinality(Names) = 5

MONITOR_TERMINATOR == << "CR", "LF", "CR", "LF" >>

monitor_cmds_args ==
    [name \in Names |-> CASE name \in {Quit, Zero}  -> 0
                          [] name = One             -> 1
                          [] name \in {Login, Two}  -> 2]

\* CMD_INVALID
NoName == "none"

get_cmd_index(word) == IF Len(word) = 1 /\ word[1] \in Names THEN word[1] ELSE NoName

\* snprintf() into a buffer of size n, for strings
Cut(s, n) == SubSeq(s, 1, IF Len(s) < n THEN Len(s) ELSE n - 1)

\* The argument of a command line as cmd_* write it: LOGIN has a buffer for
\* two arguments, ADD_USER the size of one.
ArgsOf(name, args) ==
    CASE monitor_cmds_args[name] = 0 -> << >>
      [] monitor_cmds_args[name] = 1 -> Cut(args[1], MAX_ARG_LEN)
      [] name = Login -> Cut(args[1] \o << "SP" >> \o args[2], 2 * MAX_ARG_LEN + 1)
      [] OTHER        -> Cut(args[1] \o << "SP" >> \o args[2], MAX_ARG_LEN)

\* What a line asks for, and its bytes
LineOf(name, args) == [cmd |-> <<name>>, arg |-> ArgsOf(name, args)]

Bytes(line) ==
    line.cmd \o (IF line.arg = << >> THEN << >> ELSE << "SP" >> \o line.arg) \o << "CR", "LF" >>

\* The command line from its i-th word on: there is a command to run, or main
\* jumps to `finally'.
Runs(argv, i) ==
    /\ i <= Len(argv)
    /\ LET name == get_cmd_index(argv[i]) IN
       name # NoName /\ Len(argv) - i >= monitor_cmds_args[name]

\* The last bytes received, of which the buffer keeps as many as the
\* terminator has; it starts with zeros.
NoBytes == [i \in 1 .. Len(MONITOR_TERMINATOR) |-> "NUL"]

\* Mutant: the oldest byte is dropped once per chunk, not once per byte.
LastPerChunk(last, s) == SubSeq(Tail(last) \o s, 1, Len(last))

buffer_write(last, s) ==
    LET all == last \o s IN SubSeq(all, Len(all) - Len(last) + 1, Len(all))

\* Mutant: the end of a line is taken for the end of the answer.
HasLineEnd(last) == SubSeq(last, 3, 4) = << "CR", "LF" >>

has_terminator(last) == last = MONITOR_TERMINATOR

=============================================================================
