--------------------------- MODULE WireProperties ---------------------------
(***************************************************************************)
(* What the two ends of a monitor connection may expect of each other.     *)
(***************************************************************************)
EXTENDS Wire, FiniteSetsExt

CONSTANTS
    Alphabet,  \* bytes of which ParsersAgree makes texts
    LENGTH     \* and the length of the longest of them

ASSUME AlphabetAssumption == Alphabet \subseteq Activators /\ LENGTH \in Nat

-----------------------------------------------------------------------------
(* The parsers                                                             *)

IsEnd(c) == c \in {"CR", "LF"}

\* Bytes before the first of S, or all of them
Until(w, S) ==
    LET hits == {i \in DOMAIN w : w[i] \in S}
    IN IF hits = {} THEN w ELSE SubSeq(w, 1, Min(hits) - 1)

First(s, n) == SubSeq(s, 1, IF Len(s) < n THEN Len(s) ELSE n)

\* What a parser keeps of a word
KeptOf(word, kind) ==
    Flat([i \in DOMAIN word |-> IF word[i] \in Kept(kind) THEN <<word[i]>> ELSE << >>])

\* A text read as a line: its command, its argument, whether the line is over
\* and what is wrong with it.
Expected(w, kind) ==
    LET text  == Until(w, {"CR", "LF"})
        word  == Until(text, {"SP"})
        rest  == SubSeq(text, Len(word) + 2, Len(text))
        over  == Len(rest) > MAX_ARG_LEN
        end   == SubSeq(w, Len(text) + 1, Len(w))
        bare  == end # << >> /\ end[1] = "LF"
        ended == bare \/ Len(end) > 1
    IN [cmd   |-> First(KeptOf(word, kind), CmdLen(kind)),
        arg   |-> First(rest, MAX_ARG_LEN),
        ended |-> ended /\ ~over,
        err   |-> IF over THEN "INVALID_ARG"
                  ELSE IF bare \/ (ended /\ end[2] # "LF") THEN "INVALID_CHAR"
                  ELSE "NO_ERROR"]

Line(p) == [cmd |-> p.cmd, arg |-> p.arg, ended |-> p.ended, err |-> p.err]

Texts == UNION {[1 .. n -> Alphabet] : n \in 1 .. LENGTH}

Received(w, n) == Filled(buffer_init(n, "NUL"), w)

\* Each of the three parsers makes of a text the line it is, and the same line
\* with the same bytes left over however the text was cut into chunks; said of
\* the parser a connection begins with.
ParsersAgree ==
    asked = << >> => \A kind \in Kinds, w \in Texts :
        LET whole == parse(parser, kind, Received(w, Len(w))) IN
        /\ Line(whole.parser) = Expected(w, kind)
        /\ \A n \in 1 .. Len(w) - 1 :
             LET start == parse(parser, kind, Received(SubSeq(w, 1, n), Len(w)))
                 both  == parse(start.parser, kind,
                                Filled(start.buffer, SubSeq(w, n + 1, Len(w))))
             IN /\ both.parser = whole.parser
                /\ Unread(both.buffer) = Unread(whole.buffer)

-----------------------------------------------------------------------------
(* The connection                                                          *)

BytesOf(lines)   == Flat([i \in DOMAIN lines |-> Bytes(lines[i])])
AnswersTo(lines) == Flat([i \in DOMAIN lines |-> Answer(lines[i])])

\* The bytes a parser has taken of a line that is not complete
Held(p) ==
    CASE p.state = "S0" -> p.cmd
      [] p.state = "S1" -> p.cmd \o << "SP" >> \o p.arg
      [] OTHER          -> Bytes([cmd |-> p.cmd, arg |-> First(p.arg, Len(p.arg))])

\* No byte is lost, repeated or overwritten.  What was carried out, what the
\* parser holds, what is in the buffer and what is on its way make up what the
\* client sent, wherever recv() cuts the text and the buffer starts again; and
\* what arrived, what is on its way and what is in the buffer are the answers
\* to what was carried out, wherever send() stops.
NothingIsLost ==
    /\ open /\ parser.err = "NO_ERROR" =>
         BytesOf(asked) =
             BytesOf(executed)
             \o (IF parser.state = "S2" THEN First(Held(parser), Len(Held(parser)) - 1)
                                        ELSE Held(parser))
             \o Unread(read_buffer) \o toServer
    /\ AnswersTo(executed) = received \o toClient \o Unread(write_buffer)

\* The end of the string strcpy() writes behind an answer is still inside the
\* buffer, and a recv() that may be called has room: one without any returns
\* the 0 that means the client has gone.  The assertions of buffer.c hold.
RoomOnBothSides ==
    /\ \A b \in {read_buffer, write_buffer} : b.read <= b.write /\ b.write <= b.limit
    /\ is_sending => buffer_can_write(write_buffer)
    /\ open /\ interest = "READ" /\ ~is_sending => buffer_can_write(read_buffer)

\* The client goes on to its next command after the whole answer to the last
\* one, and with nothing of it left to be taken for the answer to the next,
\* although it looks for the terminator only where a chunk ends.
ClientReadsItsAnswer ==
    client = "ready" => received = AnswersTo(asked) /\ toClient = << >>

Told == Cardinality({i \in 1 .. Len(received) - 3 :
                        SubSeq(received, i, i + 3) = MONITOR_TERMINATOR})

AbstractExchange == INSTANCE Exchange WITH done <- executed, told <- Told

\* Every line is carried out once, in order, as it was given, and answered
\* after that, for the client program and for one that sends all lines at once
\* (docs/protocol.md: "Pipelining is supported").
ImplementsExchange == AbstractExchange!Spec

\* What an answer cannot be expected after: a QUIT among the commands; an
\* argument that is too long or a byte that is out of place, for which the
\* parser stops for good; a send() that took only a part of an answer, with
\* nothing left to read: the rest waits for the next command.
Excused ==
    \/ \E i \in DOMAIN asked : asked[i].cmd = <<Quit>>
    \/ parser.err # "NO_ERROR"
    \/ short

\* Every command is answered in the end, also those that are in the buffer
\* already when no more bytes will arrive.
AnsweredInTheEnd == Told < Len(asked) ~> Told = Len(asked) \/ Excused

\* And the client notices: it goes on, or has told the server to QUIT.
ClientGoesOn == client = "receiving" /\ argv # << >> ~> client # "receiving" \/ Excused

=============================================================================
