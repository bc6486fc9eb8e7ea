--------------------------- MODULE MaildropSession ---------------------------
(***************************************************************************)
(* What a session promises its client, without buffers, pipes or callbacks.*)
(* A command is carried out at once and its whole response is owed from    *)
(* then on, at the end of what was owed before; the client receives what   *)
(* is owed in that order, nothing twice and nothing left out.  Messages    *)
(* leave the maildrop only after QUIT, and only those marked by then.      *)
(***************************************************************************)
EXTENDS Sequences, SequencesExt, Numbering

CONSTANTS
    Mails,   \* messages
    Lines,   \* commands
    Pieces,  \* pieces of a message
    Trailer  \* what follows the last of them

VARIABLES
    phase,   \* "TRANSACTION", "UPDATE", "CLOSED"
    loaded,  \* whether the list of messages was made
    list,    \* the messages by number
    marked,  \* the numbers marked as deleted
    owed,    \* what the client still has to receive
    removed  \* messages no longer in the maildrop

sessionVars == <<phase, loaded, list, marked, owed, removed>>

Init ==
    /\ phase = "TRANSACTION"
    /\ loaded = FALSE
    /\ list = <<>>
    /\ marked = {}
    /\ owed = <<>>
    /\ removed = {}

Kept(l, d) == DOMAIN l \ d

End == << <<"dot", 0>> >>

\* The response to a command about messages l, of which d are marked.
Response(line, l, d) ==
    LET n == line.n IN
    CASE line.cmd = "STAT" -> << <<"stat", Cardinality(Kept(l, d))>> >>
      [] line.cmd = "RSET" -> << <<"rset", Len(l)>> >>
      [] line.cmd = "LIST ALL" ->
           << <<"list", Cardinality(Kept(l, d))>> >>
             \o Numbered("item", Ascending(Kept(l, d))) \o End
      [] line.cmd = "LIST" /\ n \in Kept(l, d) -> << <<"item", n>> >>
      [] line.cmd = "DELE" /\ n \in Kept(l, d) -> << <<"dele", n>> >>
      [] line.cmd = "RETR" /\ n \in DOMAIN l ->
           << <<"retr", n>> >> \o Numbered("body", Upto(Pieces)) \o Trailer \o End
      [] OTHER -> << <<"-ERR", 0>> >>

MarkedAfter(line, l, d) ==
    IF line.cmd = "RSET" THEN {}
    ELSE IF line.cmd = "DELE" /\ line.n \in DOMAIN l THEN d \union {line.n}
    ELSE d

\* The client receives any part of what is now owed.
Owe(s) == owed' \in {SubSeq(s, k, Len(s)) : k \in 1 .. Len(s) + 1}

Snapshots ==
    IF loaded THEN {list}
    ELSE UNION {SetToSeqs(S) : S \in SUBSET (Mails \ removed)}

\* A command that reads the list, which the first of them makes.
Command(line) ==
    /\ phase = "TRANSACTION"
    /\ loaded' = TRUE
    /\ list' \in Snapshots
    /\ marked' = MarkedAfter(line, list', marked)
    /\ Owe(owed \o Response(line, list', marked))
    /\ UNCHANGED <<phase, removed>>

\* The list cannot be made.
Refuse ==
    /\ phase = "TRANSACTION"
    /\ ~loaded
    /\ Owe(Append(owed, <<"-ERR", 0>>))
    /\ UNCHANGED <<phase, loaded, list, marked, removed>>

Chat ==
    /\ phase = "TRANSACTION"
    /\ Owe(Append(owed, <<"ok", 0>>))
    /\ UNCHANGED <<phase, loaded, list, marked, removed>>

Receive ==
    /\ Owe(owed)
    /\ UNCHANGED <<phase, loaded, list, marked, removed>>

Quit ==
    /\ phase = "TRANSACTION"
    /\ phase' = "UPDATE"
    /\ UNCHANGED <<loaded, list, marked, owed, removed>>

Discard(i) ==
    /\ phase = "UPDATE"
    /\ i \in marked
    /\ removed' = removed \union {list[i]}
    /\ UNCHANGED <<phase, loaded, list, marked, owed>>

\* The last command may have been carried out and its reply never sent.
Close ==
    /\ phase # "CLOSED"
    /\ phase' = "CLOSED"
    /\ owed' = <<>>
    /\ removed' = removed
    /\ \/ UNCHANGED <<loaded, list, marked>>
       \/ /\ phase = "TRANSACTION"
          /\ \E line \in Lines :
               /\ loaded' = TRUE
               /\ list' \in Snapshots
               /\ marked' = MarkedAfter(line, list', marked)

Next ==
    \/ \E line \in Lines : Command(line)
    \/ Refuse \/ Chat \/ Receive
    \/ Quit
    \/ \E i \in marked : Discard(i)
    \/ Close

Spec == Init /\ [][Next]_sessionVars

=============================================================================
