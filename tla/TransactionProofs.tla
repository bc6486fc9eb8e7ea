-------------------------- MODULE TransactionProofs --------------------------
(***************************************************************************)
(* The safety of a session for any messages, any number of pieces, any     *)
(* buffer size and any outcomes of send(), of the pipe and of the file     *)
(* system.  SomebodyIsAwake is proved for pipes that work, since a failed  *)
(* popen does leave the client asleep, and GoodbyeTellsTheTruth for a file *)
(* system that works.  Two properties that the program does not have are   *)
(* proved when what breaks them is excluded: RetrSendsTheOutput for a sed  *)
(* script that prints, ClosedLeavesNoReader when no send() fails.          *)
(*                                                                         *)
(* Two things make the first three inductive.  The count of deleted        *)
(* messages is the number of marks (BoxOK), which keeps it within bounds   *)
(* when RSET subtracts.  And between two callbacks the send struct, the    *)
(* two interests and the reader stand in one of a few positions (Engine).  *)
(* The goodbye needs that no file is listed twice and how far the update   *)
(* has come (Moved).                                                       *)
(***************************************************************************)
EXTENDS TransactionProperties, FiniteSetTheorems, SequenceTheorems,
        WellFoundedInduction, TLAPS

PipesWork == PipeOutcomes \subseteq {"ok"}

Flags == UNION {[1 .. n -> BOOLEAN] : n \in Nat}

Box == [loaded : BOOLEAN, list : Seq(Mails), del : Flags, read : Flags, ndel : Nat]

BoxOK(b) ==
    /\ b \in Box
    /\ b.del \in [DOMAIN b.list -> BOOLEAN]
    /\ b.read \in [DOMAIN b.list -> BOOLEAN]
    /\ b.ndel = Cardinality(Deleted(b))

Conn ==
    [state : {"TRANSACTION", "UPDATE", "CLOSED", "CRASHED"},
     interest : SUBSET {"READ", "WRITE"},
     lines : 0 .. BUFFER_LINES, partial : BOOLEAN, stuck : BOOLEAN,
     finished : BOOLEAN, multiline : BOOLEAN,
     f : {"NULL", "load", "list"}, n_listed : Nat]

Reader == [on : {"none", "NOOP", "READ"}, mail : Nat, part : Nat]

\* Where a session can stand between two callbacks.
Engine(d, o, r, b) ==
    /\ r.on # "none" => /\ d.f = "load"
                        /\ r.mail \in DOMAIN b.list
                        /\ b.read[r.mail]
    /\ PipesWork /\ d.f = "load" => r.on # "none"
    /\ d.f # "NULL" => ~d.finished /\ d.multiline
    /\ d.finished /\ d.multiline => o = <<Dot>> /\ d.interest = {"WRITE"}
    /\ d.finished /\ ~d.multiline =>
         /\ o \in {<<>>, <<Dot>>}
         /\ \/ d.interest = {"WRITE"}
            \/ d.interest = {"READ"} /\ (Buffered(d) => d.stuck)
    /\ ~d.finished =>
         \/ d.interest = {"WRITE"}
         \/ d.interest = {} /\ d.f = "load" /\ (PipesWork => r.on = "READ")

Inv ==
    /\ conn \in Conn
    /\ out \in Seq(Tokens)
    /\ reader \in Reader
    /\ BoxOK(box)
    /\ disk \in [Mails -> {"absent", "new", "seen", "trash", "gone"}]
    /\ upd \in [at : Nat, trash : BOOLEAN]
    /\ conn.state = "TRANSACTION" => upd.at = 0 /\ Engine(conn, out, reader, box)
    /\ upd.at <= Len(box.list) + 1

-----------------------------------------------------------------------------
(* The list of messages                                                    *)

\* The marks are finitely many, and no more than the messages.
LEMMA DeletedBounded ==
    ASSUME NEW b, BoxOK(b)
    PROVE  /\ IsFiniteSet(Deleted(b))
           /\ b.ndel \in 0 .. Len(b.list)
           /\ DOMAIN b.list = 1 .. Len(b.list)
           /\ Len(b.list) \in Nat
<1>1. Len(b.list) \in Nat /\ DOMAIN b.list = 1 .. Len(b.list)
    BY DEF BoxOK, Box
<1>2. /\ IsFiniteSet(1 .. Len(b.list))
      /\ Cardinality(1 .. Len(b.list)) = Len(b.list)
    BY <1>1, FS_Interval
<1>3. Deleted(b) \in SUBSET (1 .. Len(b.list))
    BY <1>1 DEF Deleted
<1>4. /\ IsFiniteSet(Deleted(b))
      /\ Cardinality(Deleted(b)) <= Len(b.list)
    BY <1>2, <1>3, FS_Subset
<1>5. Cardinality(Deleted(b)) \in Nat
    BY <1>4, FS_CardinalityType
<1>6. QED
    BY <1>1, <1>4, <1>5 DEF BoxOK

\* DELE marks one more message and counts it.
LEMMA SetDelKeepsBox ==
    ASSUME NEW b, BoxOK(b), NEW n \in DOMAIN b.list, ~b.del[n]
    PROVE  /\ BoxOK(maildir_set_del(b, n, TRUE))
           /\ maildir_set_del(b, n, TRUE).list = b.list
<1> DEFINE e == maildir_set_del(b, n, TRUE)
           d == [b.del EXCEPT ![n] = TRUE]
           k == b.ndel + 1
<1>0. d \in Flags
    BY DeletedBounded DEF BoxOK, Flags
<1>0a. b \in Box /\ k \in Nat
    BY DeletedBounded DEF BoxOK
<1>0b. e = [b EXCEPT !.del = d, !.ndel = k]
    BY Zenon DEF maildir_set_del
<1> HIDE DEF e, d, k
<1>1. e \in Box /\ e.list = b.list /\ e.read = b.read /\ e.del = d /\ e.ndel = k
    BY <1>0, <1>0a, <1>0b DEF Box
<1> USE DEF d, k
<1>2. e.del \in [DOMAIN b.list -> BOOLEAN]
    BY <1>1 DEF BoxOK
<1>3. Deleted(e) = Deleted(b) \union {n}
    BY <1>1 DEF Deleted, BoxOK
<1>4. n \notin Deleted(b)
    BY DEF Deleted
<1>5. Cardinality(Deleted(e)) = Cardinality(Deleted(b)) + 1
    BY <1>3, <1>4, DeletedBounded, FS_AddElement
<1>6. BoxOK(e) /\ e.list = b.list
    BY <1>1, <1>2, <1>5 DEF BoxOK
<1>7. QED
    BY <1>6 DEF e

\* RSET takes every mark back and the count returns to zero.
LEMMA RsetKeepsBox ==
    ASSUME NEW b, BoxOK(b)
    PROVE  BoxOK(cmd_rset(b)) /\ cmd_rset(b).list = b.list
<1> DEFINE e == cmd_rset(b)
           d == [i \in DOMAIN b.list |-> FALSE]
<1>0. d \in Flags
    BY DeletedBounded DEF Flags
<1>1. b.ndel - Cardinality(Deleted(b)) = 0 /\ 0 \in Nat /\ b \in Box
    BY DEF BoxOK, Box
<1>1a. e = [b EXCEPT !.del = d, !.ndel = 0]
    BY <1>1, Zenon DEF cmd_rset
<1> HIDE DEF e, d
<1>2. e \in Box /\ e.list = b.list /\ e.read = b.read /\ e.del = d /\ e.ndel = 0
    BY <1>0, <1>1, <1>1a DEF Box
<1> USE DEF d
<1>3. Deleted(e) = {}
    BY <1>2 DEF Deleted
<1>4. Cardinality(Deleted(e)) = 0
    BY <1>3, FS_EmptySet
<1>5. BoxOK(e) /\ e.list = b.list
    BY <1>2, <1>4 DEF BoxOK
<1>6. QED
    BY <1>5 DEF e

\* The first look at new/ makes a list of messages with no mark.
LEMMA ListsMakesBox ==
    ASSUME Inv, NEW b \in Lists
    PROVE  BoxOK(b) /\ b.list \in Seq(Mails) /\ (box.loaded => b = box)
<1>1. CASE box.loaded
    BY <1>1 DEF Lists, Inv, BoxOK, Box
<1>2. CASE ~box.loaded
    <2> DEFINE S == {m \in Mails : disk[m] = "new"}
    <2>1. PICK s \in SetToSeqs(S) :
            b = [loaded |-> TRUE, list |-> s, del |-> [i \in DOMAIN s |-> FALSE],
                 read |-> [i \in DOMAIN s |-> FALSE], ndel |-> 0]
        BY <1>2 DEF Lists
    <2>2. Cardinality(S) \in Nat
        BY MailsAssumption, FS_Subset, FS_CardinalityType
    <2>3. s \in [1 .. Cardinality(S) -> Mails]
        BY <2>1 DEF SetToSeqs
    <2>4. s \in Seq(Mails) /\ DOMAIN s = 1 .. Cardinality(S)
        BY <2>2, <2>3, SeqDef, Zenon
    <2>5a. [i \in DOMAIN s |-> FALSE] \in Flags
        <3>1. [i \in DOMAIN s |-> FALSE] \in [1 .. Cardinality(S) -> BOOLEAN]
            BY <2>4
        <3>2. QED
            BY <2>2, <3>1, Zenon DEF Flags
    <2>5. Deleted(b) = {}
        BY <2>1 DEF Deleted
    <2>6. Cardinality(Deleted(b)) = 0
        BY <2>5, FS_EmptySet
    <2>7. QED
        BY <1>2, <2>1, <2>4, <2>5a, <2>6 DEF BoxOK, Box
<1>3. QED
    BY <1>1, <1>2

\* RETR marks a message as read and leaves the rest alone.
LEMMA SetReadKeepsBox ==
    ASSUME NEW b, BoxOK(b), NEW n \in DOMAIN b.list
    PROVE  /\ BoxOK(maildir_set_read(b, n))
           /\ maildir_set_read(b, n).list = b.list
           /\ maildir_set_read(b, n).read[n]
<1> DEFINE e == maildir_set_read(b, n)
           d == [b.read EXCEPT ![n] = TRUE]
<1>1. d \in Flags
    BY DeletedBounded DEF BoxOK, Flags
<1>2. d \in [DOMAIN b.list -> BOOLEAN] /\ d[n]
    BY DEF BoxOK
<1>3. e = [b EXCEPT !.read = d]
    BY Zenon DEF maildir_set_read
<1> HIDE DEF d, e
<1>4. /\ e \in Box /\ e.list = b.list /\ e.del = b.del /\ e.ndel = b.ndel
      /\ e.read = d
    BY <1>1, <1>3 DEF Box, BoxOK
<1>5. Deleted(e) = Deleted(b)
    BY <1>4 DEF Deleted
<1>6. BoxOK(e) /\ e.list = b.list /\ e.read[n]
    BY <1>2, <1>4, <1>5 DEF BoxOK
<1>7. QED
    BY <1>6 DEF e

\* What handle_request may leave behind: a list with right counts, one
\* reply, and a message to send only if it exists and is marked as read.
Answer(r) ==
    /\ BoxOK(r.box)
    /\ r.msg \in Tokens
    /\ r.f \in {"NULL", "load", "list"}
    /\ r.f = "load" => r.retr \in DOMAIN r.box.list /\ r.box.read[r.retr]

\* A fixed reply leaves the list alone.
LEMMA SaysIsAnswer ==
    ASSUME NEW b, BoxOK(b), NEW msg \in Tokens
    PROVE  Answer(Says(b, msg))
BY DEF Says, Answer

\* Every command but the ones without a list is answered that way.
LEMMA RequestIsAnswer ==
    ASSUME NEW b, BoxOK(b), NEW line \in Line
    PROVE  Answer(handle_request(b, line))
<1> DEFINE n == line.n
           r == handle_request(b, line)
<1>0. /\ Len(b.list) \in Nat /\ Len(b.list) - b.ndel \in Nat
      /\ DOMAIN b.list = 1 .. Len(b.list)
    BY DeletedBounded
<1>1. CASE line.cmd = "STAT"
    <2>1. r = Says(b, <<"stat", Len(b.list) - b.ndel>>)
        BY <1>1 DEF handle_request
    <2>2. QED
        BY <1>0, <2>1, SaysIsAnswer DEF Tokens
<1>2. CASE line.cmd = "LIST ALL"
    <2>1. r = [Says(b, <<"list", Len(b.list) - b.ndel>>) EXCEPT !.f = "list"]
        BY <1>2 DEF handle_request
    <2>2. QED
        BY <1>0, <2>1 DEF Tokens, Says, Answer
<1>3. CASE line.cmd = "RSET"
    <2>1. r = Says(cmd_rset(b), <<"rset", Len(b.list)>>)
        BY <1>3 DEF handle_request
    <2>2. QED
        BY <1>0, <2>1, RsetKeepsBox, SaysIsAnswer DEF Tokens
<1>4. CASE line.cmd = "LIST" /\ Valid(b, n) /\ ~b.del[n]
    <2>1. r = Says(b, <<"item", n>>)
        BY <1>4 DEF handle_request
    <2>2. QED
        BY <1>0, <1>4, <2>1, SaysIsAnswer DEF Tokens, Valid
<1>5. CASE line.cmd = "RETR" /\ Valid(b, n)
    <2> DEFINE e == maildir_set_read(b, n)
    <2>1. r = [Says(e, <<"retr", n>>) EXCEPT !.f = "load", !.retr = n]
        BY <1>5, Zenon DEF handle_request
    <2>2. BoxOK(e) /\ n \in DOMAIN e.list /\ e.read[n]
        BY <1>5, SetReadKeepsBox DEF Valid
    <2> HIDE DEF e
    <2>3. <<"retr", n>> \in Tokens
        BY <1>0, <1>5 DEF Tokens, Valid
    <2>4. QED
        BY <2>1, <2>2, <2>3 DEF Says, Answer
<1>6. CASE line.cmd = "DELE" /\ Valid(b, n) /\ ~b.del[n]
    <2>1. r = Says(maildir_set_del(b, n, TRUE), <<"dele", n>>)
        BY <1>6 DEF handle_request
    <2>2. <<"dele", n>> \in Tokens
        BY <1>0, <1>6 DEF Tokens, Valid
    <2>3. QED
        BY <1>6, <2>1, <2>2, SetDelKeepsBox, SaysIsAnswer DEF Valid
<1>7. CASE /\ line.cmd \notin {"STAT", "LIST ALL", "RSET"}
           /\ ~(line.cmd = "LIST" /\ Valid(b, n) /\ ~b.del[n])
           /\ ~(line.cmd = "RETR" /\ Valid(b, n))
           /\ ~(line.cmd = "DELE" /\ Valid(b, n) /\ ~b.del[n])
    <2>1. r = Says(b, Err)
        BY <1>7 DEF handle_request
    <2>2. QED
        BY <2>1, SaysIsAnswer DEF Tokens, Err
<1>8. QED
    BY <1>1, <1>2, <1>3, <1>4, <1>5, <1>6, <1>7

-----------------------------------------------------------------------------
(* Steps in general                                                        *)

\* What is left in the buffer are replies still.
LEMMA DropSeq ==
    ASSUME NEW s \in Seq(Tokens), NEW k \in 0 .. Len(s)
    PROVE  Drop(s, k) \in Seq(Tokens)
<1>1. Len(s) \in Nat /\ \A i \in 1 .. Len(s) : s[i] \in Tokens
    BY ElementOfSeq
<1>2. \A i \in k + 1 .. Len(s) : s[i] \in Tokens
    BY <1>1
<1>3. QED
    BY <1>1, <1>2, SubSeqProperties DEF Drop

\* Of a terminator, all or nothing is left.
LEMMA DropDot ==
    ASSUME NEW k \in 0 .. Len(<<Dot>>)
    PROVE  Drop(<<Dot>>, k) \in {<<>>, <<Dot>>}
<1> DEFINE s == <<Dot>>
<1> SUFFICES Drop(s, k) \in {<<>>, s}
    OBVIOUS
<1>1. s \in Seq(Tokens) /\ Len(s) = 1 /\ k \in 0 .. 1
    BY DEF Tokens, Dot
<1> HIDE DEF s
<1>2. CASE k = 0
    BY <1>1, <1>2, SubSeqFull DEF Drop
<1>3. CASE k = 1
    BY <1>1, <1>3, SubSeqEmpty DEF Drop
<1>4. QED
    BY <1>1, <1>2, <1>3

\* A session just logged in waits for what it has not got.
LEMMA LoggedInConn ==
    ASSUME NEW n \in 0 .. BUFFER_LINES
    PROVE  /\ LoggedIn(n) \in Conn
           /\ LoggedIn(n).state = "TRANSACTION"
           /\ LoggedIn(n).f = "NULL"
           /\ LoggedIn(n).finished /\ ~LoggedIn(n).multiline
           /\ LoggedIn(n).interest = InterestAfter(LoggedIn(n))
BY DEF LoggedIn, InterestAfter, Buffered, Conn

\* What an ended session leaves.
LEMMA GoneConn ==
    ASSUME NEW how \in {"CLOSED", "CRASHED"}
    PROVE  Gone(how) \in Conn /\ Gone(how).state = how
<1>1. 0 \in 0 .. BUFFER_LINES
    BY BufferLinesAssumption
<1>2. LoggedIn(0) \in Conn
    BY <1>1, LoggedInConn
<1> HIDE DEF LoggedIn
<1>3. QED
    BY <1>2 DEF Gone, Conn

\* A step of the engine that leaves the list and the files alone.
LEMMA EngineStep ==
    ASSUME Inv, conn.state = "TRANSACTION", UNCHANGED <<box, disk, upd>>,
           conn' \in Conn, out' \in Seq(Tokens), reader' \in Reader,
           Engine(conn', out', reader', box)
    PROVE  Inv'
BY DEF Inv, Engine, Buffered, BoxOK, Deleted

\* A step that ends the session.
LEMMA EndStep ==
    ASSUME Inv, UNCHANGED <<box, disk, upd>>, reader' \in Reader, out' = <<>>,
           NEW how \in {"CLOSED", "CRASHED"}, conn' = Gone(how)
    PROVE  Inv'
BY GoneConn DEF Inv, BoxOK, Deleted

\* Closing keeps the list and the files.
LEMMA CloseKeepsInv ==
    ASSUME Inv, close_connection
    PROVE  Inv'
<1>1. reader' \in Reader
    BY DEF Inv, close_connection
<1>2. QED
    BY <1>1, EndStep DEF close_connection

\* A session starts without a list, a reader or a response.
LEMMA InitEstablishesInv ==
    ASSUME Init
    PROVE  Inv
<1>1. PICK n \in 0 .. BUFFER_LINES : conn = LoggedIn(n)
    BY DEF Init
<1>2. /\ conn \in Conn /\ conn.f = "NULL" /\ conn.finished /\ ~conn.multiline
      /\ conn.interest = InterestAfter(conn)
    BY <1>1, LoggedInConn
<1>3. Engine(conn, out, reader, box)
    BY <1>2 DEF Init, Engine, NoReader, InterestAfter
<1>4. BoxOK(box) /\ Len(box.list) = 0
    <2>1. box = NoBox
        BY DEF Init
    <2>2. <<>> \in Flags /\ <<>> \in [{} -> BOOLEAN] /\ <<>> \in Seq(Mails)
        BY DEF Flags
    <2>3. Deleted(box) = {}
        BY <2>1 DEF NoBox, Deleted
    <2>4. Cardinality(Deleted(box)) = 0
        BY <2>3, FS_EmptySet
    <2>5. QED
        BY <2>1, <2>2, <2>4 DEF NoBox, BoxOK, Box
<1>5. QED
    BY <1>2, <1>3, <1>4 DEF Init, Inv, NoReader, Reader

-----------------------------------------------------------------------------
(* Reading and sending                                                     *)

\* Reading: more input, a refusal to read, or the end.
LEMMA TransReadKeepsInv ==
    ASSUME Inv, trans_read
    PROVE  Inv'
<1>1. conn.state = "TRANSACTION" /\ conn \in Conn /\ out \in Seq(Tokens)
      /\ reader \in Reader /\ Engine(conn, out, reader, box)
    BY DEF trans_read, CanRead, Inv
<1>2. conn.finished /\ ~conn.multiline
    BY <1>1 DEF trans_read, CanRead, Engine
<1>3. CASE /\ conn' = [conn EXCEPT !.interest = {"WRITE"}]
           /\ UNCHANGED <<out, reader, box, disk, upd, goodbye>>
    <2>1. conn' \in Conn
        BY <1>1, <1>3 DEF Conn
    <2>2. Engine(conn', out', reader', box)
        BY <1>1, <1>2, <1>3 DEF Engine, Conn
    <2>3. QED
        BY <1>1, <1>3, <2>1, <2>2, EngineStep
<1>4. ASSUME NEW ch \in Chunks,
             conn.lines + ch.lines <= BUFFER_LINES,
             conn' = [conn EXCEPT
                 !.lines    = @ + ch.lines,
                 !.partial  = ch.partial \/ (ch.lines = 0 /\ @),
                 !.interest = {"WRITE"}],
             UNCHANGED <<out, reader, box, disk, upd, goodbye>>
      PROVE  Inv'
    <2>1. ch.lines \in 0 .. BUFFER_LINES
        BY DEF Chunks
    <2>2. conn.lines + ch.lines \in 0 .. BUFFER_LINES
        BY <1>1, <1>4, <2>1, BufferLinesAssumption DEF Conn
    <2>3. /\ conn' \in Conn
          /\ conn'.interest = {"WRITE"} /\ conn'.f = conn.f
          /\ conn'.finished = conn.finished /\ conn'.multiline = conn.multiline
        BY <1>1, <1>4, <2>2 DEF Conn
    <2>4. Engine(conn', out', reader', box)
        BY <1>1, <1>2, <1>4, <2>3 DEF Engine
    <2>5. QED
        BY <1>1, <1>4, <2>3, <2>4, EngineStep
<1>5. QED
    BY <1>3, <1>4, CloseKeepsInv DEF trans_read, Receive

\* There is a next message to list, and its number is a number.
LEMMA NextIsNumber ==
    ASSUME NEW b, BoxOK(b), NEW from \in Nat, Unlisted(b, from) # {}
    PROVE  Next1(b, from) \in Nat \ {0}
<1> DEFINE T == Unlisted(b, from)
<1>1. T \subseteq Nat \ {0} /\ T # {}
    BY DeletedBounded DEF Unlisted
<1>2. \E x \in T : \A y \in T : ~(<<y, x>> \in OpToRel(<, Nat))
    BY <1>1, NatLessThanWellFounded, WFMin, Zenon
<1>3. \A x, y \in Nat : <<y, x>> \in OpToRel(<, Nat) <=> y < x
    BY Zenon DEF OpToRel
<1> HIDE DEF T
<1>4. PICK x \in T : \A y \in T : ~(<<y, x>> \in OpToRel(<, Nat))
    BY <1>2, Zenon
<1>5. \A y \in T : x <= y
    <2>1. \A y \in T : ~(y < x)
        BY <1>1, <1>3, <1>4
    <2>2. QED
        BY <1>1, <2>1
<1>6. QED
    BY <1>1, <1>5 DEF Next1, T

\* cmd_list_all_new leaves the engine asking for the next line, or done.
LEMMA ListStep ==
    ASSUME Inv, conn.state = "TRANSACTION", conn.f = "list",
           conn.interest = {"WRITE"}
    PROVE  /\ Listed(conn, box) \in Conn
           /\ ListItem(conn, box) \in Seq(Tokens)
           /\ Listed(conn, box).f \in {"NULL", "list"}
           /\ Listed(conn, box).state = conn.state
           /\ Listed(conn, box).interest = conn.interest
           /\ Listed(conn, box).finished = conn.finished
           /\ Listed(conn, box).multiline = conn.multiline
<1>1. conn \in Conn /\ BoxOK(box) /\ conn.n_listed \in Nat /\ Len(box.list) \in Nat
    BY DeletedBounded DEF Inv, Conn
<1>2. CASE Unlisted(box, conn.n_listed) = {}
    <2>1. Listed(conn, box) = [conn EXCEPT !.f = "NULL", !.n_listed = 0]
        BY <1>2 DEF Listed
    <2>2. ListItem(conn, box) = <<>>
        BY <1>2 DEF ListItem
    <2>3. <<>> \in Seq(Tokens)
        OBVIOUS
    <2>4. QED
        BY <1>1, <2>1, <2>2, <2>3 DEF Conn, Listed
<1>3. CASE Unlisted(box, conn.n_listed) # {}
    <2> DEFINE i == Next1(box, conn.n_listed)
    <2>1. i \in Nat \ {0}
        BY <1>1, <1>3, NextIsNumber
    <2>2. \/ Listed(conn, box) = [conn EXCEPT !.f = "NULL", !.n_listed = 0]
          \/ Listed(conn, box) = [conn EXCEPT !.n_listed = i]
        BY <1>3 DEF Listed
    <2>3. ListItem(conn, box) = << <<"item", i>> >>
        BY <1>3 DEF ListItem
    <2> HIDE DEF i
    <2>4. << <<"item", i>> >> \in Seq(Tokens)
        BY <2>1 DEF Tokens
    <2>5. CASE Listed(conn, box) = [conn EXCEPT !.f = "NULL", !.n_listed = 0]
        <3> DEFINE d == Listed(conn, box)
        <3>1. d = [conn EXCEPT !.f = "NULL", !.n_listed = 0]
            BY <2>5
        <3> HIDE DEF d
        <3>2. /\ d \in Conn /\ d.f = "NULL"
              /\ d.state = conn.state /\ d.interest = conn.interest
              /\ d.finished = conn.finished /\ d.multiline = conn.multiline
            BY <1>1, <3>1 DEF Conn
        <3>3. QED
            BY <2>3, <2>4, <3>2 DEF d
    <2>6. CASE Listed(conn, box) = [conn EXCEPT !.n_listed = i]
        BY <1>1, <2>1, <2>3, <2>4, <2>6 DEF Conn
    <2>7. QED
        BY <2>2, <2>5, <2>6
<1>4. QED
    BY <1>2, <1>3

\* The end of a response leaves the connection idle and awake.
LEMMA FinishedIdle ==
    ASSUME NEW d \in Conn, d.state = "TRANSACTION", d.interest = {"WRITE"}
    PROVE  /\ Finished(d) \in Conn
           /\ Finished(d).f = "NULL"
           /\ Finished(d).finished /\ ~Finished(d).multiline
           /\ \/ Finished(d).interest = {"WRITE"}
              \/ Finished(d).interest = {"READ"} /\ ~Buffered(Finished(d))
<1> DEFINE e == [d EXCEPT !.finished = TRUE, !.multiline = FALSE, !.f = "NULL"]
           x == Finished(d)
<1>1. /\ e \in Conn /\ e.f = "NULL" /\ e.finished /\ ~e.multiline
      /\ e.interest = {"WRITE"}
    BY DEF Conn
<1>2. x = IF Buffered(e) THEN e ELSE [e EXCEPT !.interest = {"READ"}]
    BY DEF Finished
<1> HIDE DEF e, x
<1>3. CASE Buffered(e)
    BY <1>1, <1>2, <1>3 DEF x
<1>4. CASE ~Buffered(e)
    <2>1. /\ x \in Conn /\ x.f = "NULL" /\ x.finished /\ ~x.multiline
          /\ x.interest = {"READ"} /\ x.lines = e.lines /\ x.partial = e.partial
        BY <1>1, <1>2, <1>4 DEF Conn
    <2>2. ~Buffered(x)
        BY <1>4, <2>1 DEF Buffered
    <2>3. QED
        BY <2>1, <2>2 DEF x
<1>5. QED
    BY <1>3, <1>4

\* One send() of a response, and what its engine does when the buffer is empty.
LEMMA SendDataKeepsInv ==
    ASSUME Inv, NEW outcome, send_data(outcome)
    PROVE  Inv'
<1>1. /\ conn.state = "TRANSACTION" /\ ~conn.finished /\ conn \in Conn
      /\ out \in Seq(Tokens) /\ reader \in Reader
      /\ Engine(conn, out, reader, box)
    BY DEF send_data, CanWrite, Inv
<1>2. conn.interest = {"WRITE"}
    BY <1>1 DEF send_data, CanWrite, Engine
<1>3. CASE close_connection
    BY <1>3, CloseKeepsInv
<1>4. CASE ~close_connection
    <2>0. UNCHANGED <<box, disk, upd>>
        BY <1>4 DEF send_data
    <2>1. ASSUME NEW k \in 0 .. Len(out), out' = Drop(out, k),
                 UNCHANGED <<conn, reader>>
          PROVE  Inv'
        <3>1. out' \in Seq(Tokens)
            BY <1>1, <2>1, DropSeq
        <3>2. Engine(conn', out', reader', box)
            BY <1>1, <1>2, <2>1 DEF Engine
        <3>3. QED
            BY <1>1, <2>0, <2>1, <3>1, <3>2, EngineStep
    <2>2. CASE conn.f = "load" /\ load_more_bytes /\ out' = <<>>
        <3>1. /\ conn' \in Conn /\ conn'.interest = {} /\ conn'.f = "load"
              /\ ~conn'.finished /\ conn'.multiline = conn.multiline
            BY <1>1, <2>2 DEF load_more_bytes, Conn
        <3>2. /\ reader' \in Reader /\ reader'.mail = reader.mail
              /\ reader.on = "none" => reader'.on = "none"
              /\ reader.on # "none" => reader'.on = "READ"
            BY <1>1, <2>2 DEF load_more_bytes, Reader
        <3>3. out' \in Seq(Tokens)
            BY <2>2
        <3>4. Engine(conn', out', reader', box)
            BY <1>1, <2>2, <3>1, <3>2 DEF Engine
        <3>5. QED
            BY <1>1, <2>0, <3>1, <3>2, <3>3, <3>4, EngineStep
    <2>3. CASE conn.f = "list" /\ cmd_list_all_new
        <3>1. /\ conn' = Listed(conn, box) /\ out' = ListItem(conn, box)
              /\ reader' = reader
            BY <2>3 DEF cmd_list_all_new
        <3>2. /\ conn' \in Conn /\ out' \in Seq(Tokens)
              /\ conn'.f \in {"NULL", "list"} /\ conn'.interest = {"WRITE"}
              /\ ~conn'.finished /\ conn'.multiline = conn.multiline
            BY <1>1, <1>2, <2>3, <3>1, ListStep
        <3>3. Engine(conn', out', reader', box)
            BY <1>1, <2>3, <3>1, <3>2 DEF Engine
        <3>4. QED
            BY <1>1, <2>0, <3>1, <3>2, <3>3, EngineStep
    <2>4. CASE conn.f = "NULL" /\ conn.multiline /\ write_terminator
        <3>1. /\ conn' \in Conn /\ conn'.f = "NULL" /\ conn'.interest = {"WRITE"}
              /\ conn'.finished /\ conn'.multiline
              /\ out' = <<Dot>> /\ reader' = reader
            BY <1>1, <1>2, <2>4 DEF write_terminator, Conn
        <3>2. out' \in Seq(Tokens)
            BY <3>1 DEF Tokens, Dot
        <3>3. Engine(conn', out', reader', box)
            BY <1>1, <2>4, <3>1 DEF Engine
        <3>4. QED
            BY <1>1, <2>0, <3>1, <3>2, <3>3, EngineStep
    <2>5. CASE /\ conn.f = "NULL" /\ ~conn.multiline /\ conn' = Finished(conn)
               /\ out' = <<>> /\ UNCHANGED reader
        <3>1. out' \in Seq(Tokens)
            BY <2>5
        <3>2. conn' \in Conn /\ Engine(conn', out', reader', box)
            BY <1>1, <1>2, <2>5, FinishedIdle DEF Engine
        <3>3. QED
            BY <1>1, <2>0, <2>5, <3>1, <3>2, EngineStep
    <2>6. QED
        BY <1>4, <2>1, <2>2, <2>3, <2>4, <2>5 DEF send_data
<1>5. QED
    BY <1>3, <1>4

\* The send() of a terminator ends the response, whole or not.
LEMMA SendTerminatorKeepsInv ==
    ASSUME Inv, NEW outcome, send_terminator(outcome)
    PROVE  Inv'
<1>1. /\ conn.state = "TRANSACTION" /\ conn.finished /\ conn.multiline
      /\ conn \in Conn /\ reader \in Reader /\ Engine(conn, out, reader, box)
    BY DEF send_terminator, CanWrite, Inv
<1>2. /\ out = <<Dot>> /\ conn.interest = {"WRITE"}
      /\ conn.f = "NULL" /\ reader.on = "none"
    BY <1>1 DEF Engine, Conn
<1>3. CASE close_connection
    BY <1>3, CloseKeepsInv
<1>4. CASE ~close_connection
    <2>1. PICK k \in 0 .. Len(out) : out' = Drop(out, k)
        BY <1>4 DEF send_terminator
    <2>2. /\ conn' = Finished(conn) /\ reader' = reader
          /\ UNCHANGED <<box, disk, upd>>
        BY <1>4 DEF send_terminator
    <2>3. out' \in {<<>>, <<Dot>>}
        BY <1>2, <2>1, DropDot
    <2>4. out' \in Seq(Tokens)
        <3>1. <<>> \in Seq(Tokens)
            OBVIOUS
        <3>2. <<Dot>> \in Seq(Tokens)
            BY DEF Tokens, Dot
        <3>3. QED
            BY <2>3, <3>1, <3>2
    <2>5. conn' \in Conn /\ Engine(conn', out', reader', box)
        BY <1>1, <1>2, <2>2, <2>3, FinishedIdle DEF Engine
    <2>6. QED
        BY <1>1, <2>2, <2>4, <2>5, EngineStep
<1>5. QED
    BY <1>3, <1>4

\* Nothing whole to parse, or a parser that gave up: back to OP_READ.
LEMMA WaitKeepsInv ==
    ASSUME Inv, save_arg \/ trans_incomplete
    PROVE  Inv'
<1>1. /\ conn.state = "TRANSACTION" /\ conn.finished /\ ~conn.multiline
      /\ conn \in Conn /\ reader \in Reader /\ out \in Seq(Tokens)
      /\ Engine(conn, out, reader, box)
      /\ UNCHANGED <<out, reader, box, disk, upd>>
    BY DEF save_arg, trans_incomplete, CanWrite, Idle, Inv
<1>2. /\ conn' \in Conn /\ conn'.interest = {"READ"} /\ conn'.f = conn.f
      /\ conn'.finished /\ ~conn'.multiline
      /\ Buffered(conn') => conn'.stuck
    <2>1. CASE save_arg
        BY <1>1, <2>1 DEF save_arg, Conn, Buffered
    <2>2. CASE trans_incomplete
        <3>1. conn' = [conn EXCEPT !.partial = FALSE, !.interest = {"READ"}]
            BY <2>2 DEF trans_incomplete
        <3>2. /\ conn' \in Conn /\ conn'.interest = {"READ"} /\ conn'.f = conn.f
              /\ conn'.finished /\ ~conn'.multiline
              /\ ~conn'.partial /\ conn'.lines = conn.lines
            BY <1>1, <3>1 DEF Conn
        <3>3. conn.lines = 0
            BY <2>2 DEF trans_incomplete
        <3>4. ~Buffered(conn')
            BY <3>2, <3>3 DEF Buffered
        <3>5. QED
            BY <3>2, <3>4
    <2>3. QED
        BY <2>1, <2>2
<1>3. Engine(conn', out', reader', box)
    BY <1>1, <1>2 DEF Engine
<1>4. QED
    BY <1>1, <1>2, <1>3, EngineStep

-----------------------------------------------------------------------------
(* Commands                                                                *)

\* A step of a session that may change the list.
LEMMA SessionStep ==
    ASSUME Inv, conn.state = "TRANSACTION", UNCHANGED <<disk, upd>>,
           BoxOK(box'), conn' \in Conn, out' \in Seq(Tokens), reader' \in Reader,
           conn'.state = "TRANSACTION" => Engine(conn', out', reader', box')
    PROVE  Inv'
<1>1. Len(box'.list) \in Nat
    BY DEF BoxOK, Box
<1>2. upd'.at <= Len(box'.list) + 1
    BY <1>1 DEF Inv
<1>3. BoxOK(box)'
    BY DEF BoxOK, Deleted
<1>4. (conn.state = "TRANSACTION" => Engine(conn, out, reader, box))'
    BY DEF Engine, Buffered
<1>5. QED
    BY <1>2, <1>3, <1>4 DEF Inv

\* The first send() of a reply, with whatever r the command left.
LEMMA ReplyKeepsInv ==
    ASSUME Inv, CanWrite, Idle, conn.lines > 0,
           NEW r, Answer(r), NEW outcome, NEW popen \in PipeOutcomes,
           Reply(r, outcome, popen)
    PROVE  Inv'
<1> DEFINE started == r.f = "load" /\ popen = "ok"
           d == [conn EXCEPT !.lines = @ - 1, !.f = r.f,
                             !.finished = r.f = "NULL", !.multiline = r.f # "NULL",
                             !.interest = IF started THEN {} ELSE @]
           all == Append(out, r.msg)
<1>1. /\ conn.state = "TRANSACTION" /\ conn.finished /\ ~conn.multiline
      /\ conn \in Conn /\ out \in Seq(Tokens) /\ reader \in Reader
      /\ Engine(conn, out, reader, box)
    BY DEF CanWrite, Idle, Inv
<1>2. conn.interest = {"WRITE"} /\ reader.on = "none"
    BY <1>1 DEF CanWrite, Engine
<1>3. /\ BoxOK(r.box) /\ r.msg \in Tokens /\ r.f \in {"NULL", "load", "list"}
      /\ r.f = "load" => r.retr \in Nat /\ r.retr \in DOMAIN r.box.list
                         /\ r.box.read[r.retr]
    BY DeletedBounded DEF Answer
<1>4. conn.lines - 1 \in 0 .. BUFFER_LINES
    BY <1>1, BufferLinesAssumption DEF Conn
<1>5. /\ d \in Conn /\ d.f = r.f /\ d.finished = (r.f = "NULL")
      /\ d.multiline = (r.f # "NULL") /\ d.state = "TRANSACTION"
      /\ d.interest = IF started THEN {} ELSE {"WRITE"}
    BY <1>1, <1>2, <1>3, <1>4 DEF Conn
<1>6. /\ reader' = IF started THEN Started(r.retr)
                   ELSE IF r.f = "load" THEN [NoReader EXCEPT !.mail = r.retr]
                   ELSE reader
      /\ box' = r.box
      /\ UNCHANGED <<disk, upd>>
      /\ \/ conn' = Gone("CLOSED") /\ out' = <<>>
         \/ \E k \in 0 .. Len(all) :
               out' = Drop(all, k) /\ conn' = AfterReply(d, Drop(all, k))
    BY DEF Reply
<1>7. all \in Seq(Tokens)
    BY <1>1, <1>3
<1> HIDE DEF d, all
<1>8. /\ reader' \in Reader
      /\ reader'.on = IF started THEN "READ" ELSE "none"
      /\ started => reader'.mail = r.retr
    <2>1. CASE started
        BY <1>3, <1>6, <2>1 DEF Started, Reader
    <2>2. CASE ~started /\ r.f = "load"
        BY <1>3, <1>6, <2>2 DEF NoReader, Reader
    <2>3. CASE r.f # "load"
        BY <1>1, <1>2, <1>6, <2>3
    <2>4. QED
        BY <2>1, <2>2, <2>3
<1>9. CASE conn' = Gone("CLOSED") /\ out' = <<>>
    <2>1. out' \in Seq(Tokens)
        BY <1>9
    <2>2. conn' \in Conn /\ conn'.state = "CLOSED"
        BY <1>9, GoneConn
    <2>3. QED
        BY <1>1, <1>3, <1>6, <1>8, <2>1, <2>2, SessionStep
<1>10. ASSUME NEW k \in 0 .. Len(all),
              out' = Drop(all, k), conn' = AfterReply(d, Drop(all, k))
       PROVE  Inv'
    <2> DEFINE left == Drop(all, k)
    <2>1. left \in Seq(Tokens) /\ out' = left /\ conn' = AfterReply(d, left)
        BY <1>7, <1>10, DropSeq
    <2> HIDE DEF left
    <2>2. PipesWork /\ r.f = "load" => started
        BY DEF PipesWork
    <2>3. CASE left # <<>>
        <3>1. conn' = [d EXCEPT !.finished = FALSE]
            BY <2>1, <2>3 DEF AfterReply
        <3>2. /\ conn' \in Conn /\ conn'.f = d.f /\ ~conn'.finished
              /\ conn'.multiline = d.multiline /\ conn'.interest = d.interest
            BY <1>5, <3>1 DEF Conn
        <3>3. Engine(conn', out', reader', box')
            BY <1>3, <1>5, <1>6, <1>8, <2>2, <3>2 DEF Engine
        <3>4. QED
            BY <1>1, <1>3, <1>6, <1>8, <2>1, <3>2, <3>3, SessionStep
    <2>4. CASE left = <<>> /\ ~d.finished
        <3>1. conn' = [d EXCEPT !.interest = {"WRITE"}]
            BY <2>1, <2>4 DEF AfterReply
        <3>2. /\ conn' \in Conn /\ conn'.f = d.f /\ ~conn'.finished
              /\ conn'.multiline = d.multiline /\ conn'.interest = {"WRITE"}
            BY <1>5, <2>4, <3>1 DEF Conn
        <3>3. Engine(conn', out', reader', box')
            BY <1>3, <1>5, <1>6, <1>8, <2>2, <2>4, <3>2 DEF Engine
        <3>4. QED
            BY <1>1, <1>3, <1>6, <1>8, <2>1, <3>2, <3>3, SessionStep
    <2>5. CASE left = <<>> /\ d.finished
        <3>1. conn' = [d EXCEPT !.interest = InterestAfter(d)]
            BY <2>1, <2>5 DEF AfterReply
        <3>2. /\ conn' \in Conn /\ conn'.f = "NULL" /\ conn'.finished
              /\ ~conn'.multiline
              /\ \/ conn'.interest = {"WRITE"}
                 \/ conn'.interest = {"READ"} /\ ~Buffered(conn')
            BY <1>5, <2>5, <3>1 DEF Conn, InterestAfter, Buffered
        <3>3. Engine(conn', out', reader', box')
            BY <1>5, <1>8, <2>1, <2>5, <3>2 DEF Engine
        <3>4. QED
            BY <1>1, <1>3, <1>6, <1>8, <2>1, <3>2, <3>3, SessionStep
    <2>6. QED
        BY <2>3, <2>4, <2>5
<1>11. QED
    BY <1>6, <1>9, <1>10

\* A command: with the list, without it, or with a list that cannot be read.
LEMMA TransCommandKeepsInv ==
    ASSUME Inv, NEW line \in Line, NEW outcome, NEW popen \in PipeOutcomes,
           NEW opendir, trans_command(line, outcome, popen, opendir)
    PROVE  Inv'
<1>1. CanWrite /\ Idle /\ conn.lines > 0 /\ BoxOK(box)
    BY DEF trans_command, Inv
<1>2. CASE Reply(Says(box, <<"ok", 0>>), outcome, popen)
    <2>1. <<"ok", 0>> \in Tokens
        BY DEF Tokens
    <2>2. Answer(Says(box, <<"ok", 0>>))
        BY <1>1, <2>1, SaysIsAnswer
    <2>3. QED
        BY <1>1, <1>2, <2>2, ReplyKeepsInv
<1>3. CASE \E b \in Lists : Reply(handle_request(b, line), outcome, popen)
    <2>1. PICK b \in Lists : Reply(handle_request(b, line), outcome, popen)
        BY <1>3
    <2>2. Answer(handle_request(b, line))
        BY ListsMakesBox, RequestIsAnswer
    <2>3. QED
        BY <1>1, <2>1, <2>2, ReplyKeepsInv
<1>4. CASE Reply(Says(box, Err), outcome, popen)
    <2>1. Err \in Tokens
        BY DEF Tokens, Err
    <2>2. Answer(Says(box, Err))
        BY <1>1, <2>1, SaysIsAnswer
    <2>3. QED
        BY <1>1, <1>4, <2>2, ReplyKeepsInv
<1>5. QED
    BY <1>2, <1>3, <1>4 DEF trans_command

\* QUIT moves to UPDATE with the first message to come.
LEMMA TransQuitKeepsInv ==
    ASSUME Inv, trans_quit
    PROVE  Inv'
<1>1. /\ conn \in Conn /\ conn.state = "TRANSACTION" /\ conn.lines > 0
      /\ Len(box.list) \in Nat /\ upd \in [at : Nat, trash : BOOLEAN]
    BY DeletedBounded DEF trans_quit, CanWrite, Inv
<1>2. conn.lines - 1 \in 0 .. BUFFER_LINES
    BY <1>1, BufferLinesAssumption DEF Conn
<1>3. conn' \in Conn /\ conn'.state = "UPDATE"
    BY <1>1, <1>2 DEF trans_quit, Conn
<1>4. upd' \in [at : Nat, trash : BOOLEAN] /\ upd'.at <= Len(box.list) + 1
    BY <1>1 DEF trans_quit
<1>5. QED
    BY <1>3, <1>4 DEF trans_quit, Inv, BoxOK, Deleted

-----------------------------------------------------------------------------
(* The file reader and the UPDATE state                                    *)

\* The reader wakes the client whether it reads, ends or fails.
LEMMA FileReaderKeepsInv ==
    ASSUME Inv, NEW outcome \in PipeOutcomes, handle_file_reader(outcome)
    PROVE  Inv'
<1>1. /\ conn.state = "TRANSACTION" /\ reader.on = "READ" /\ conn \in Conn
      /\ out \in Seq(Tokens) /\ reader \in Reader
      /\ Engine(conn, out, reader, box)
      /\ UNCHANGED <<box, disk, upd>>
    BY DEF handle_file_reader, Inv
<1>2. /\ conn.f = "load" /\ ~conn.finished /\ conn.multiline
      /\ reader.mail \in DOMAIN box.list /\ box.read[reader.mail]
    BY <1>1 DEF Engine
<1>3. CASE ReadSome
    <2>1. reader.part + 1 \in Nat
        BY <1>1 DEF Reader
    <2>2. <<"body", reader.part + 1>> \in Tokens
        BY <2>1 DEF Tokens
    <2>3. out' \in Seq(Tokens)
        BY <1>1, <1>3, <2>2 DEF ReadSome
    <2>4. /\ reader' \in Reader /\ reader'.on = "NOOP"
          /\ reader'.mail = reader.mail
        BY <1>1, <1>3, <2>1 DEF ReadSome, Reader
    <2>5. /\ conn' \in Conn /\ conn'.interest = {"WRITE"} /\ conn'.f = conn.f
          /\ conn'.finished = conn.finished /\ conn'.multiline = conn.multiline
        BY <1>1, <1>3 DEF ReadSome, Conn
    <2>6. Engine(conn', out', reader', box)
        BY <1>2, <2>4, <2>5 DEF Engine
    <2>7. QED
        BY <1>1, <2>3, <2>4, <2>5, <2>6, EngineStep
<1>4. CASE ReadEof
    <2>1. AtEnd \in Seq(Tokens)
        <3>1. <<>> \in Seq(Tokens)
            OBVIOUS
        <3>2. <<Crlf>> \in Seq(Tokens)
            BY DEF Tokens, Crlf
        <3>3. QED
            BY <3>1, <3>2 DEF AtEnd
    <2>2. out' \in Seq(Tokens)
        BY <1>1, <1>4, <2>1, ConcatProperties DEF ReadEof
    <2>3. reader' \in Reader /\ reader'.on = "none"
        BY <1>1, <1>4 DEF ReadEof, Reader
    <2>4. /\ conn' \in Conn /\ conn'.interest = {"WRITE"} /\ conn'.f = "NULL"
          /\ ~conn'.finished
        BY <1>1, <1>2, <1>4 DEF ReadEof, Conn
    <2>5. Engine(conn', out', reader', box)
        BY <2>3, <2>4 DEF Engine
    <2>6. QED
        BY <1>1, <2>2, <2>3, <2>4, <2>5, EngineStep
<1>5. CASE outcome = "fail" /\ ReadFails
    <2>1. ~PipesWork
        BY <1>5 DEF PipesWork
    <2>2. out' = out /\ reader' \in Reader /\ reader'.on = "none"
        BY <1>1, <1>5 DEF ReadFails, Reader
    <2>3. /\ conn' \in Conn /\ conn'.interest = {"WRITE"} /\ conn'.f = conn.f
          /\ conn'.finished = conn.finished /\ conn'.multiline = conn.multiline
        BY <1>1, <1>5 DEF ReadFails, Conn
    <2>4. Engine(conn', out', reader', box)
        BY <1>2, <2>1, <2>2, <2>3 DEF Engine
    <2>5. QED
        BY <1>1, <2>2, <2>3, <2>4, EngineStep
<1>6. QED
    BY <1>3, <1>4, <1>5 DEF handle_file_reader

\* A step of the UPDATE callback moves at most one message, and at most one
\* place on.
LEMMA UpdateKeepsInv ==
    ASSUME Inv, NEW outcome,
           move_and_set_flags(outcome) \/ maildir_del_permanentely(outcome)
    PROVE  Inv'
<1>1. /\ conn.state = "UPDATE" /\ upd.at \in DOMAIN box.list
      /\ DOMAIN box.list = 1 .. Len(box.list) /\ Len(box.list) \in Nat
      /\ upd \in [at : Nat, trash : BOOLEAN]
      /\ UNCHANGED <<conn, out, reader, box>>
    BY DeletedBounded
       DEF move_and_set_flags, maildir_del_permanentely, Updating, Inv
<1>2. /\ upd' \in [at : Nat, trash : BOOLEAN]
      /\ upd'.at <= Len(box.list) + 1
    <2>1. upd.at + 1 \in Nat /\ upd.at + 1 <= Len(box.list) + 1
        BY <1>1
    <2>2. \/ upd' = [upd EXCEPT !.trash = TRUE]
          \/ upd' = [upd EXCEPT !.at = @ + 1]
          \/ upd' = [upd EXCEPT !.at = @ + 1, !.trash = FALSE]
        BY Zenon DEF move_and_set_flags, maildir_del_permanentely
    <2>3. CASE upd' = [upd EXCEPT !.trash = TRUE]
        <3>1. upd.at <= Len(box.list) + 1
            BY <1>1
        <3>2. upd' \in [at : Nat, trash : BOOLEAN] /\ upd'.at = upd.at
            BY <1>1, <2>3
        <3>3. QED
            BY <3>1, <3>2
    <2>4. CASE upd' = [upd EXCEPT !.at = @ + 1]
        BY <1>1, <2>1, <2>4
    <2>5. CASE upd' = [upd EXCEPT !.at = @ + 1, !.trash = FALSE]
        BY <1>1, <2>1, <2>5
    <2>6. QED
        BY <2>2, <2>3, <2>4, <2>5
<1>3. disk' \in [Mails -> {"absent", "new", "seen", "trash", "gone"}]
    <2>1. CASE move_and_set_flags(outcome)
        BY <2>1 DEF move_and_set_flags, Where, Inv
    <2>2. CASE maildir_del_permanentely(outcome)
        BY <2>2 DEF maildir_del_permanentely, Inv
    <2>3. QED
        BY <2>1, <2>2
<1>4. QED
    BY <1>1, <1>2, <1>3 DEF Inv, BoxOK, Deleted

\* The goodbye ends the session.
LEMMA UpdateProcessKeepsInv ==
    ASSUME Inv, NEW outcome, update_process(outcome)
    PROVE  Inv'
<1>1. reader' \in Reader
    BY DEF Inv, update_process
<1>2. QED
    BY <1>1, EndStep DEF update_process

\* Dying leaves the files where they are.
LEMMA CrashKeepsInv ==
    ASSUME Inv, Crash
    PROVE  Inv'
<1>1. reader' \in Reader
    BY DEF Crash, NoReader, Reader
<1>2. QED
    BY <1>1, EndStep DEF Crash

\* What arrives touches no session.
LEMMA DeliverKeepsInv ==
    ASSUME Inv, NEW m \in Mails, Deliver(m)
    PROVE  Inv'
BY DEF Inv, Deliver, BoxOK, Deleted, Engine, Buffered

-----------------------------------------------------------------------------
(* The theorems                                                            *)

\* Every step.
LEMMA StepKeepsInv == Inv /\ [Next]_vars => Inv'
<1> SUFFICES ASSUME Inv, [Next]_vars
             PROVE  Inv'
    OBVIOUS
<1>1. CASE trans_read
    BY <1>1, TransReadKeepsInv
<1>2. CASE trans_process
    BY <1>2, SendDataKeepsInv, SendTerminatorKeepsInv, WaitKeepsInv,
       TransCommandKeepsInv, TransQuitKeepsInv DEF trans_process
<1>3. CASE read_file
    BY <1>3, FileReaderKeepsInv DEF read_file
<1>4. CASE update
    BY <1>4, UpdateKeepsInv, UpdateProcessKeepsInv DEF update
<1>5. CASE \E m \in Mails : Deliver(m)
    BY <1>5, DeliverKeepsInv
<1>6. CASE Crash
    BY <1>6, CrashKeepsInv
<1>7. CASE UNCHANGED vars
    BY <1>7 DEF Inv, vars, BoxOK, Deleted, Engine, Buffered
<1>8. QED
    BY <1>1, <1>2, <1>3, <1>4, <1>5, <1>6, <1>7 DEF Next

\* So the invariant holds always.
LEMMA InvAlways == Spec => []Inv
<1>1. Init => Inv
    BY InitEstablishesInv
<1>2. QED
    BY <1>1, StepKeepsInv, PTL DEF Spec

\* Whatever the clients, send(), the pipe and the file system do, the send
\* struct, the list with its count of deleted messages, and the progress of
\* UPDATE keep their types: n_deleted never passes the number of messages nor
\* falls below zero, although DELE adds to it and RSET subtracts one by one.
THEOREM TypeCorrect == Spec => []TypeOK
<1>1. Inv => TypeOK
    <2> SUFFICES ASSUME Inv PROVE TypeOK
        OBVIOUS
    <2>1. /\ box.list \in Seq(Mails) /\ box.ndel \in 0 .. Len(box.list)
          /\ DOMAIN box.del = DOMAIN box.list
          /\ DOMAIN box.read = DOMAIN box.list
        BY DeletedBounded DEF Inv, BoxOK, Box
    <2>2. upd.at \in 0 .. Len(box.list) + 1
        BY DeletedBounded DEF Inv
    <2>3. QED
        BY <2>1, <2>2 DEF TypeOK, Inv, Conn, Reader
<1>2. QED
    BY <1>1, InvAlways, PTL

\* No second RETR is started while the reader of the first is registered, and
\* the message it reads is marked as read: the one fr_data of a client is
\* never overwritten while the selector still knows it.
THEOREM OneReaderPerRetr == Spec => []ReaderServesOneRetr
<1>1. Inv => ReaderServesOneRetr
    BY DEF Inv, Engine, ReaderServesOneRetr
<1>2. QED
    BY <1>1, InvAlways, PTL

\* As long as popen() and the pipe do not fail, the client and the file
\* reader never wait for each other: for any size of the message, of the
\* buffers and of the pieces send() takes.
THEOREM NobodyAsleep ==
    ASSUME PipesWork
    PROVE  Spec => []SomebodyIsAwake
<1>1. Inv => SomebodyIsAwake
    BY PipesWork DEF Inv, Engine, SomebodyIsAwake, Idle
<1>2. QED
    BY <1>1, InvAlways, PTL

-----------------------------------------------------------------------------
(* The goodbye                                                             *)

\* rename() and remove() do what they are asked.
DisksWork == DiskOutcomes \subseteq {"ok"}

\* Where the update is to leave the i-th message.
Due(i) == IF box.del[i] THEN "gone" ELSE IF box.read[i] THEN "seen" ELSE "new"

Distinct(s) == \A i, j \in DOMAIN s : s[i] = s[j] => i = j

Untouched(s) == \A i \in DOMAIN s : disk[s[i]] = "new"

\* No file is listed twice, so that moving one leaves the others where they
\* are; before QUIT nothing is moved, and during UPDATE what was passed is
\* where it is due, the rest is in new/.
Moved ==
    /\ Distinct(box.list)
    /\ conn.state = "TRANSACTION" => ~goodbye /\ ~upd.trash /\ Untouched(box.list)
    /\ conn.state = "UPDATE" =>
         /\ ~goodbye
         /\ upd.trash /\ upd.at \in DOMAIN box.list => box.del[upd.at]
         /\ \A i \in DOMAIN box.list :
              disk[box.list[i]] = IF i < upd.at THEN Due(i)
                                  ELSE IF i = upd.at /\ upd.trash THEN "trash"
                                  ELSE "new"
    /\ goodbye => \A i \in DOMAIN box.list : disk[box.list[i]] = Due(i)

\* A step of the session that leaves the files alone and does not quit.
LEMMA SessionKeepsMoved ==
    ASSUME Moved, conn.state = "TRANSACTION", UNCHANGED <<disk, upd, goodbye>>,
           conn'.state # "UPDATE", Distinct(box'.list), Untouched(box'.list)
    PROVE  Moved'
BY DEF Moved, Untouched, Distinct, Due

\* A step that touches neither list nor files.
LEMMA SameListKeepsMoved ==
    ASSUME Moved, conn.state = "TRANSACTION",
           UNCHANGED <<box, disk, upd, goodbye>>, conn'.state # "UPDATE"
    PROVE  Moved'
BY SessionKeepsMoved DEF Moved

\* A session that ends without QUIT moves nothing.
LEMMA CloseKeepsMoved ==
    ASSUME Moved, conn.state = "TRANSACTION", close_connection
    PROVE  Moved'
BY SameListKeepsMoved DEF close_connection, Gone, LoggedIn

\* Sending a response moves nothing.
LEMMA SendDataKeepsMoved ==
    ASSUME Inv, Moved, NEW outcome, send_data(outcome)
    PROVE  Moved'
<1>1. conn.state = "TRANSACTION" /\ conn \in Conn
    BY DEF send_data, CanWrite, Inv
<1>2. CASE close_connection
    BY <1>1, <1>2, CloseKeepsMoved
<1>3. CASE ~close_connection
    <2>1. \/ conn' = conn
          \/ load_more_bytes
          \/ conn' = Listed(conn, box)
          \/ conn' = [conn EXCEPT !.finished = TRUE]
          \/ conn' = Finished(conn)
        BY <1>3 DEF send_data, cmd_list_all_new, write_terminator
    <2>2. UNCHANGED <<box, disk, upd, goodbye>>
        BY <1>3 DEF send_data
    <2>3. Listed(conn, box).state = "TRANSACTION"
        BY <1>1 DEF Listed, Conn
    <2>4. Finished(conn).state = "TRANSACTION"
        BY <1>1 DEF Finished, Conn, Buffered
    <2>5. conn'.state = "TRANSACTION"
        BY <1>1, <2>1, <2>3, <2>4 DEF load_more_bytes, Conn
    <2>6. QED
        BY <1>1, <2>2, <2>5, SameListKeepsMoved
<1>4. QED
    BY <1>2, <1>3

\* Nor does sending its terminator.
LEMMA SendTerminatorKeepsMoved ==
    ASSUME Inv, Moved, NEW outcome, send_terminator(outcome)
    PROVE  Moved'
<1>1. conn.state = "TRANSACTION" /\ conn \in Conn
    BY DEF send_terminator, CanWrite, Inv
<1>2. CASE close_connection
    BY <1>1, <1>2, CloseKeepsMoved
<1>3. CASE ~close_connection
    <2>1. conn' = Finished(conn) /\ UNCHANGED <<box, disk, upd, goodbye>>
        BY <1>3 DEF send_terminator
    <2>2. conn'.state = "TRANSACTION"
        BY <1>1, <2>1 DEF Finished, Conn, Buffered
    <2>3. QED
        BY <1>1, <2>1, <2>2, SameListKeepsMoved
<1>4. QED
    BY <1>2, <1>3

\* Reading, waiting for more of a line, or for a line that never ends.
LEMMA WaitKeepsMoved ==
    ASSUME Inv, Moved, trans_read \/ save_arg \/ trans_incomplete
    PROVE  Moved'
<1>1. conn.state = "TRANSACTION" /\ conn \in Conn
    BY DEF trans_read, CanRead, save_arg, trans_incomplete, CanWrite, Inv
<1>2. CASE close_connection
    BY <1>1, <1>2, CloseKeepsMoved
<1>3. CASE ~close_connection
    <2>1. UNCHANGED <<box, disk, upd, goodbye>>
        BY <1>3 DEF trans_read, Receive, save_arg, trans_incomplete
    <2>2. conn'.state = conn.state
        BY <1>1, <1>3 DEF trans_read, Receive, save_arg, trans_incomplete, Conn
    <2>3. QED
        BY <1>1, <2>1, <2>2, SameListKeepsMoved
<1>4. QED
    BY <1>2, <1>3

\* No command adds to the list or takes from it.
LEMMA RequestKeepsList ==
    ASSUME NEW b, BoxOK(b), NEW line \in Line
    PROVE  handle_request(b, line).box.list = b.list
<1> DEFINE n == line.n
<1>1. cmd_rset(b).list = b.list
    BY DEF cmd_rset, BoxOK, Box
<1>2. \A i : maildir_set_read(b, i).list = b.list
    BY DEF maildir_set_read, BoxOK, Box
<1>3. \A i, f : maildir_set_del(b, i, f).list = b.list
    BY DEF maildir_set_del, BoxOK, Box
<1>4. \A e, msg : Says(e, msg).box = e
    BY DEF Says
<1>5. \A e, msg : [Says(e, msg) EXCEPT !.f = "list"].box = e
    BY DEF Says
<1>6. \A e, msg : [Says(e, msg) EXCEPT !.f = "load", !.retr = n].box = e
    BY DEF Says
<1>7. \/ handle_request(b, line).box = b
      \/ handle_request(b, line).box = cmd_rset(b)
      \/ handle_request(b, line).box = maildir_set_read(b, n)
      \/ handle_request(b, line).box = maildir_set_del(b, n, TRUE)
    BY <1>4, <1>5, <1>6, Zenon DEF handle_request
<1>8. QED
    BY <1>1, <1>2, <1>3, <1>7

\* readdir() names each file of new/ once.
LEMMA ListsAreDistinct ==
    ASSUME Moved, conn.state = "TRANSACTION", NEW b \in Lists
    PROVE  Distinct(b.list) /\ Untouched(b.list)
<1>1. CASE box.loaded
    BY <1>1 DEF Lists, Moved
<1>2. CASE ~box.loaded
    <2> DEFINE S == {m \in Mails : disk[m] = "new"}
    <2>1. PICK s \in SetToSeqs(S) : b.list = s
        BY <1>2 DEF Lists
    <2>2. /\ s \in [1 .. Cardinality(S) -> S]
          /\ \A i, j \in 1 .. Cardinality(S) : i # j => s[i] # s[j]
        BY <2>1 DEF SetToSeqs
    <2>3. QED
        BY <2>1, <2>2 DEF Distinct, Untouched
<1>3. QED
    BY <1>1, <1>2

\* Nor does a reply, provided the list it leaves is of files in new/.
LEMMA ReplyKeepsMoved ==
    ASSUME Inv, Moved, CanWrite, NEW r, Distinct(r.box.list), Untouched(r.box.list),
           NEW outcome, NEW popen, Reply(r, outcome, popen)
    PROVE  Moved'
<1> DEFINE d == [conn EXCEPT !.lines = @ - 1, !.f = r.f,
                             !.finished = r.f = "NULL", !.multiline = r.f # "NULL",
                             !.interest = IF r.f = "load" /\ popen = "ok" THEN {}
                                          ELSE @]
<1>1. conn.state = "TRANSACTION" /\ conn \in Conn
    BY DEF CanWrite, Inv
<1>2. /\ box' = r.box /\ UNCHANGED <<disk, upd, goodbye>>
      /\ conn' = Gone("CLOSED") \/ \E left : conn' = AfterReply(d, left)
    BY DEF Reply
<1>3. d.state = "TRANSACTION" /\ DOMAIN d = DOMAIN conn
    BY <1>1 DEF Conn
<1>4. "state" \in DOMAIN d
    BY <1>1, <1>3 DEF Conn
<1> HIDE DEF d
<1>5. \A left : AfterReply(d, left).state = "TRANSACTION"
    BY <1>3, <1>4 DEF AfterReply
<1>6. conn'.state # "UPDATE"
    BY <1>2, <1>5 DEF Gone, LoggedIn
<1>7. QED
    BY <1>1, <1>2, <1>6, SessionKeepsMoved

\* No command but QUIT moves a file, not even DELE.
LEMMA TransCommandKeepsMoved ==
    ASSUME Inv, Moved, NEW line \in Line, NEW outcome, NEW popen, NEW opendir,
           trans_command(line, outcome, popen, opendir)
    PROVE  Moved'
<1>1. CanWrite /\ conn.state = "TRANSACTION"
    BY DEF trans_command, CanWrite
<1>2. Distinct(box.list) /\ Untouched(box.list)
    BY <1>1 DEF Moved
<1>3. \A msg : Says(box, msg).box = box
    BY DEF Says
<1>4. CASE \E msg : Reply(Says(box, msg), outcome, popen)
    BY <1>1, <1>2, <1>3, <1>4, ReplyKeepsMoved
<1>5. CASE \E b \in Lists : Reply(handle_request(b, line), outcome, popen)
    <2>1. PICK b \in Lists : Reply(handle_request(b, line), outcome, popen)
        BY <1>5
    <2>2. Distinct(b.list) /\ Untouched(b.list) /\ BoxOK(b)
        BY <1>1, ListsAreDistinct, ListsMakesBox
    <2>3. handle_request(b, line).box.list = b.list
        BY <2>2, RequestKeepsList
    <2>4. QED
        BY <1>1, <2>1, <2>2, <2>3, ReplyKeepsMoved
<1>6. QED
    BY <1>4, <1>5 DEF trans_command

\* QUIT begins the update with every listed message in new/.
LEMMA TransQuitKeepsMoved ==
    ASSUME Inv, Moved, trans_quit
    PROVE  Moved'
<1>1. /\ conn.state = "TRANSACTION" /\ upd.at = 0 /\ upd \in [at : Nat, trash : BOOLEAN]
      /\ DOMAIN box.list = 1 .. Len(box.list) /\ Len(box.list) \in Nat
    BY DeletedBounded DEF trans_quit, CanWrite, Inv
<1>2. upd'.at = 1 /\ ~upd'.trash /\ UNCHANGED <<box, disk, goodbye>>
    BY <1>1 DEF trans_quit, Moved
<1>3. conn'.state = "UPDATE"
    BY DEF trans_quit, Inv, Conn
<1>4. QED
    BY <1>1, <1>2, <1>3 DEF Moved, Untouched, Distinct, Due

\* The reader of RETR only reads.
LEMMA FileReaderKeepsMoved ==
    ASSUME Inv, Moved, NEW outcome, handle_file_reader(outcome)
    PROVE  Moved'
<1>1. conn.state = "TRANSACTION" /\ conn \in Conn
    BY DEF handle_file_reader, Inv
<1>2. conn'.state = "TRANSACTION" /\ UNCHANGED <<box, disk, upd, goodbye>>
    BY <1>1 DEF handle_file_reader, ReadSome, ReadEof, ReadFails, Conn
<1>3. QED
    BY <1>1, <1>2, SameListKeepsMoved

\* rename() puts the message where it is due, or on the way to nowhere.
LEMMA RenameKeepsMoved ==
    ASSUME Inv, Moved, move_and_set_flags("ok")
    PROVE  Moved'
<1> DEFINE at == upd.at
           m == box.list[at]
           to == Where(box, at)
<1>1. /\ conn.state = "UPDATE" /\ at \in DOMAIN box.list /\ ~upd.trash
      /\ UNCHANGED <<conn, box, goodbye>>
      /\ disk' = [disk EXCEPT ![m] = to]
      /\ upd' = IF to = "trash" THEN [upd EXCEPT !.trash = TRUE]
                ELSE [upd EXCEPT !.at = @ + 1]
    BY DEF move_and_set_flags, Updating
<1>2. /\ upd \in [at : Nat, trash : BOOLEAN] /\ at \in Nat
      /\ DOMAIN box.list = 1 .. Len(box.list) /\ Len(box.list) \in Nat
      /\ \A i \in DOMAIN box.list : box.list[i] \in Mails
      /\ DOMAIN disk = Mails
    BY DeletedBounded DEF Inv, BoxOK, Box
<1>3. /\ \A i \in DOMAIN box.list : box.list[i] = m => i = at
      /\ \A i \in DOMAIN box.list :
           disk[box.list[i]] = IF i < at THEN Due(i) ELSE "new"
      /\ Distinct(box.list) /\ ~goodbye
    BY <1>1 DEF Moved, Distinct
<1>4. /\ disk'[m] = to
      /\ \A i \in DOMAIN box.list : i # at => disk'[box.list[i]] = disk[box.list[i]]
    BY <1>1, <1>2, <1>3
<1>5. CASE to = "trash"
    <2>1. upd'.at = at /\ upd'.trash /\ box.del[at]
        BY <1>1, <1>2, <1>5 DEF Where
    <2>2. QED
        BY <1>1, <1>2, <1>3, <1>4, <1>5, <2>1 DEF Moved, Due
<1>6. CASE to # "trash"
    <2>1. upd'.at = at + 1 /\ ~upd'.trash /\ to = Due(at)
        BY <1>1, <1>2, <1>6 DEF Where, Due
    <2>2. QED
        BY <1>1, <1>2, <1>3, <1>4, <2>1 DEF Moved, Due
<1>7. QED
    BY <1>5, <1>6

\* remove() finds the message under the name rename() gave it.
LEMMA RemoveKeepsMoved ==
    ASSUME Inv, Moved, maildir_del_permanentely("ok")
    PROVE  Moved'
<1> DEFINE at == upd.at
           m == box.list[at]
<1>1. /\ conn.state = "UPDATE" /\ at \in DOMAIN box.list /\ upd.trash
      /\ UNCHANGED <<conn, box, goodbye>>
      /\ disk' = IF disk[m] = "trash" THEN [disk EXCEPT ![m] = "gone"] ELSE disk
      /\ upd' = [upd EXCEPT !.at = @ + 1, !.trash = FALSE]
    BY DEF maildir_del_permanentely, Updating
<1>2. /\ upd \in [at : Nat, trash : BOOLEAN] /\ at \in Nat
      /\ DOMAIN box.list = 1 .. Len(box.list) /\ Len(box.list) \in Nat
      /\ \A i \in DOMAIN box.list : box.list[i] \in Mails
      /\ DOMAIN disk = Mails
    BY DeletedBounded DEF Inv, BoxOK, Box
<1>3. /\ \A i \in DOMAIN box.list : box.list[i] = m => i = at
      /\ \A i \in DOMAIN box.list :
           disk[box.list[i]] = IF i < at THEN Due(i)
                               ELSE IF i = at THEN "trash" ELSE "new"
      /\ Distinct(box.list) /\ ~goodbye /\ box.del[at]
    BY <1>1 DEF Moved, Distinct
<1>4. /\ disk'[m] = "gone" /\ Due(at) = "gone"
      /\ \A i \in DOMAIN box.list : i # at => disk'[box.list[i]] = disk[box.list[i]]
    BY <1>1, <1>2, <1>3 DEF Due
<1>5. upd'.at = at + 1 /\ ~upd'.trash
    BY <1>1, <1>2
<1>6. QED
    BY <1>1, <1>2, <1>3, <1>4, <1>5 DEF Moved, Due

\* The goodbye is said after the last message.
LEMMA UpdateProcessKeepsMoved ==
    ASSUME Inv, Moved, NEW outcome, update_process(outcome)
    PROVE  Moved'
<1>1. /\ DOMAIN box.list = 1 .. Len(box.list) /\ Len(box.list) \in Nat
      /\ conn'.state = "CLOSED"
    BY DeletedBounded DEF Inv, update_process, Gone, LoggedIn
<1>2. \A i \in DOMAIN box.list : disk[box.list[i]] = Due(i)
    BY <1>1 DEF update_process, Moved
<1>3. QED
    BY <1>1, <1>2 DEF update_process, Moved, Due

\* What arrives was in nobody's list.
LEMMA DeliverKeepsMoved ==
    ASSUME Inv, Moved, NEW m \in Mails, Deliver(m)
    PROVE  Moved'
<1>1. /\ DOMAIN disk = Mails /\ disk[m] = "absent"
      /\ disk' = [disk EXCEPT ![m] = "new"]
      /\ UNCHANGED <<conn, box, upd, goodbye>>
    BY DEF Inv, Deliver
<1>2. \A n : disk[n] # "absent" => disk'[n] = disk[n]
    BY <1>1
<1>3. CASE conn.state = "TRANSACTION"
    BY <1>1, <1>2, <1>3 DEF Moved, Untouched
<1>4. CASE conn.state = "UPDATE"
    BY <1>1, <1>2, <1>4 DEF Moved, Due
<1>5. CASE conn.state \notin {"TRANSACTION", "UPDATE"}
    BY <1>1, <1>2, <1>5 DEF Moved, Due
<1>6. QED
    BY <1>3, <1>4, <1>5

\* Who dies says no goodbye.
LEMMA CrashKeepsMoved ==
    ASSUME Moved, Crash
    PROVE  Moved'
BY DEF Moved, Crash, Gone, LoggedIn, Due

\* At the start nothing is listed.
LEMMA MovedInit == Init => Moved
<1> SUFFICES ASSUME Init PROVE Moved
    OBVIOUS
<1>1. conn.state = "TRANSACTION"
    BY DEF Init, LoggedIn
<1>2. ~goodbye /\ ~upd.trash /\ DOMAIN box.list = {}
    BY DEF Init, NoBox
<1>3. QED
    BY <1>1, <1>2 DEF Moved, Distinct, Untouched

\* Whatever the client asks for, however its commands and their answers are
\* cut, and whatever arrives meanwhile: when the file system does what it is
\* asked, "+OK server signing off" is the truth about every message listed.
THEOREM GoodbyeTrue ==
    ASSUME DisksWork
    PROVE  Spec => []GoodbyeTellsTheTruth
<1>1. Inv /\ Moved /\ [Next]_vars => Moved'
    <2> SUFFICES ASSUME Inv, Moved, [Next]_vars
                 PROVE  Moved'
        OBVIOUS
    <2>1. CASE trans_read
        BY <2>1, WaitKeepsMoved
    <2>2. CASE trans_process
        BY <2>2, SendDataKeepsMoved, SendTerminatorKeepsMoved, WaitKeepsMoved,
           TransCommandKeepsMoved, TransQuitKeepsMoved DEF trans_process
    <2>3. CASE read_file
        BY <2>3, FileReaderKeepsMoved DEF read_file
    <2>4. CASE update
        BY <2>4, DisksWork, RenameKeepsMoved, RemoveKeepsMoved,
           UpdateProcessKeepsMoved DEF update, DisksWork
    <2>5. CASE \E m \in Mails : Deliver(m)
        BY <2>5, DeliverKeepsMoved
    <2>6. CASE Crash
        BY <2>6, CrashKeepsMoved
    <2>7. CASE UNCHANGED vars
        BY <2>7 DEF Moved, Distinct, Untouched, Due, vars
    <2>8. QED
        BY <2>1, <2>2, <2>3, <2>4, <2>5, <2>6, <2>7 DEF Next
<1>2. Moved => GoodbyeTellsTheTruth
    BY DEF Moved, GoodbyeTellsTheTruth, Due
<1>3. QED
    BY <1>1, <1>2, MovedInit, InvAlways, PTL DEF Spec

-----------------------------------------------------------------------------
(* What RETR sends                                                         *)

\* send.f is asked for more of a message until the reader has come to the end
\* of its pipe, and no other command moves the reader that is left from it.
WholeSent ==
    /\ conn.state = "TRANSACTION" /\ reader.mail # 0 /\ conn.f # "load" => reader.part = Pipe
    /\ conn.state # "TRANSACTION" => ~conn.multiline

\* A step that leaves the reader alone, and does not end a load.
LEMMA SameReaderKeepsWhole ==
    ASSUME WholeSent, reader'.mail = reader.mail, reader'.part = reader.part,
           conn'.state = "TRANSACTION" /\ conn.state = "TRANSACTION",
           conn'.f # "load" => conn.f # "load"
    PROVE  WholeSent'
BY DEF WholeSent

\* The end of a session is the end of every response.
LEMMA EndKeepsWhole ==
    ASSUME conn'.state # "TRANSACTION", ~conn'.multiline
    PROVE  WholeSent'
BY DEF WholeSent

\* Sending a response: what cmd_list_all_new and the terminator end is no load.
LEMMA SendDataKeepsWhole ==
    ASSUME Inv, WholeSent, NEW outcome, send_data(outcome)
    PROVE  WholeSent'
<1>1. conn.state = "TRANSACTION" /\ conn \in Conn /\ reader \in Reader
    BY DEF send_data, CanWrite, Inv
<1>2. CASE close_connection
    BY <1>2, EndKeepsWhole DEF close_connection, Gone, LoggedIn
<1>3. CASE ~close_connection
    <2>1. \/ conn' = conn /\ reader' = reader
          \/ load_more_bytes
          \/ conn.f = "list" /\ conn' = Listed(conn, box) /\ reader' = reader
          \/ conn.f = "NULL" /\ conn' = [conn EXCEPT !.finished = TRUE] /\ reader' = reader
          \/ conn.f = "NULL" /\ conn' = Finished(conn) /\ reader' = reader
        BY <1>3 DEF send_data, cmd_list_all_new, write_terminator
    <2>2. CASE load_more_bytes
        <3>1. conn'.f = conn.f /\ conn'.state = conn.state
            BY <1>1, <2>2 DEF load_more_bytes, Conn
        <3>2. reader'.mail = reader.mail /\ reader'.part = reader.part
            BY <1>1, <2>2 DEF load_more_bytes, Reader
        <3>3. QED
            BY <1>1, <3>1, <3>2, SameReaderKeepsWhole
    <2>3. CASE ~load_more_bytes
        <3>1. reader' = reader /\ (conn'.f # "load" => conn.f # "load")
            BY <2>1, <2>3
        <3>2. conn'.state = "TRANSACTION"
            BY <1>1, <2>1, <2>3 DEF Listed, Finished, Buffered, Conn
        <3>3. QED
            BY <1>1, <3>1, <3>2, SameReaderKeepsWhole
    <2>4. QED
        BY <2>2, <2>3
<1>4. QED
    BY <1>2, <1>3

\* A terminator is sent when send.f asks for nothing.
LEMMA SendTerminatorKeepsWhole ==
    ASSUME Inv, WholeSent, NEW outcome, send_terminator(outcome)
    PROVE  WholeSent'
<1>1. conn \in Conn /\ conn.state = "TRANSACTION" /\ conn.finished /\ conn.f = "NULL"
    BY DEF send_terminator, CanWrite, Inv, Engine, Conn
<1>2. CASE close_connection
    BY <1>2, EndKeepsWhole DEF close_connection, Gone, LoggedIn
<1>3. CASE ~close_connection
    <2>1. conn' = Finished(conn) /\ reader' = reader
        BY <1>3 DEF send_terminator
    <2>2. conn'.state = "TRANSACTION"
        BY <1>1, <2>1 DEF Finished, Buffered, Conn
    <2>3. QED
        BY <1>1, <2>1, <2>2, SameReaderKeepsWhole
<1>4. QED
    BY <1>2, <1>3

\* Reading, waiting for more of a line, or for a line that never ends.
LEMMA WaitKeepsWhole ==
    ASSUME Inv, WholeSent, trans_read \/ save_arg \/ trans_incomplete
    PROVE  WholeSent'
<1>1. conn.state = "TRANSACTION" /\ conn \in Conn
    BY DEF trans_read, save_arg, trans_incomplete, CanRead, CanWrite, Inv
<1>2. CASE close_connection
    BY <1>2, EndKeepsWhole DEF close_connection, Gone, LoggedIn
<1>3. CASE ~close_connection
    <2>1. reader' = reader /\ conn'.f = conn.f /\ conn'.state = conn.state
        BY <1>1, <1>3 DEF trans_read, Receive, save_arg, trans_incomplete, Conn
    <2>2. QED
        BY <1>1, <2>1, SameReaderKeepsWhole
<1>4. QED
    BY <1>2, <1>3

\* A reply: to RETR it begins a load, to others it finds none.
LEMMA ReplyKeepsWhole ==
    ASSUME Inv, WholeSent, CanWrite, Idle, NEW r, r.f \in {"NULL", "load", "list"},
           NEW outcome, NEW popen, Reply(r, outcome, popen)
    PROVE  WholeSent'
<1> DEFINE d == [conn EXCEPT !.lines = @ - 1, !.f = r.f,
                             !.finished = r.f = "NULL", !.multiline = r.f # "NULL",
                             !.interest = IF r.f = "load" /\ popen = "ok" THEN {}
                                          ELSE @]
<1>1. conn.state = "TRANSACTION" /\ conn \in Conn /\ conn.f = "NULL"
    BY DEF CanWrite, Idle, Inv, Engine, Conn
<1>2. /\ r.f # "load" => reader' = reader
      /\ conn' = Gone("CLOSED") \/ \E left : conn' = AfterReply(d, left)
    BY DEF Reply
<1>3. /\ d.f = r.f /\ d.state = "TRANSACTION"
      /\ DOMAIN d = DOMAIN conn /\ {"f", "state"} \subseteq DOMAIN conn
    BY <1>1 DEF Conn
<1> HIDE DEF d
<1>4. \A left : AfterReply(d, left).f = r.f /\ AfterReply(d, left).state = "TRANSACTION"
    BY <1>3 DEF AfterReply
<1>5. CASE conn' = Gone("CLOSED")
    BY <1>5, EndKeepsWhole DEF Gone, LoggedIn
<1>6. CASE conn' # Gone("CLOSED")
    <2>1. conn'.f = r.f /\ conn'.state = "TRANSACTION"
        BY <1>2, <1>4, <1>6
    <2>2. CASE r.f = "load"
        BY <2>1, <2>2 DEF WholeSent
    <2>3. CASE r.f # "load"
        BY <1>1, <1>2, <2>1, <2>3, SameReaderKeepsWhole
    <2>4. QED
        BY <2>2, <2>3
<1>7. QED
    BY <1>5, <1>6

\* Every command.
LEMMA TransCommandKeepsWhole ==
    ASSUME Inv, WholeSent, NEW line \in Line, NEW outcome, NEW popen, NEW opendir,
           trans_command(line, outcome, popen, opendir)
    PROVE  WholeSent'
<1>1. CanWrite /\ Idle
    BY DEF trans_command
<1>2. \A b, msg : Says(b, msg).f = "NULL"
    BY DEF Says
<1>3. \A b : handle_request(b, line).f \in {"NULL", "load", "list"}
    BY DEF handle_request, Says
<1>4. CASE \E msg : Reply(Says(box, msg), outcome, popen)
    BY <1>1, <1>2, <1>4, ReplyKeepsWhole
<1>5. CASE \E b \in Lists : Reply(handle_request(b, line), outcome, popen)
    BY <1>1, <1>3, <1>5, ReplyKeepsWhole
<1>6. QED
    BY <1>4, <1>5 DEF trans_command

\* The reader ends the load when it has been through its pipe; when it fails
\* it leaves it to go on for ever.
LEMMA FileReaderKeepsWhole ==
    ASSUME Inv, WholeSent, NEW outcome, handle_file_reader(outcome)
    PROVE  WholeSent'
<1>1. conn.state = "TRANSACTION" /\ conn \in Conn /\ reader \in Reader /\ conn.f = "load"
    BY DEF handle_file_reader, Inv, Engine
<1>2. CASE ReadSome \/ ReadFails
    <2>1. conn'.f = "load" /\ conn'.state = "TRANSACTION"
        BY <1>1, <1>2 DEF ReadSome, ReadFails, Conn
    <2>2. QED
        BY <2>1 DEF WholeSent
<1>3. CASE ReadEof
    <2>1. reader'.part = Pipe /\ conn'.state = "TRANSACTION"
        BY <1>1, <1>3 DEF ReadEof, Reader
    <2>2. QED
        BY <2>1 DEF WholeSent
<1>4. QED
    BY <1>2, <1>3 DEF handle_file_reader

\* If the sed script behind the program prints what it reads, RETR sends all
\* that the program printed, for any pieces it comes in, any buffers, and
\* whatever fails: the script of fileReader.c is the only cause of an empty
\* message.
THEOREM OutputIsSent ==
    ASSUME SED_PRINTS
    PROVE  Spec => []RetrSendsTheOutput
<1>1. Init => WholeSent
    <2> SUFFICES ASSUME Init
                 PROVE  WholeSent
        OBVIOUS
    <2>1. PICK n \in 0 .. BUFFER_LINES : conn = LoggedIn(n)
        BY DEF Init
    <2>2. conn.state = "TRANSACTION" /\ reader.mail = 0
        BY <2>1, LoggedInConn DEF Init, NoReader
    <2>3. QED
        BY <2>2 DEF WholeSent
<1>2. Inv /\ WholeSent /\ [Next]_vars => WholeSent'
    <2> SUFFICES ASSUME Inv, WholeSent, [Next]_vars
                 PROVE  WholeSent'
        OBVIOUS
    <2>1. CASE trans_read
        BY <2>1, WaitKeepsWhole
    <2>2. CASE trans_process
        <3>1. CASE trans_quit
            BY <3>1, EndKeepsWhole DEF trans_quit, Idle, Inv, Conn
        <3>2. CASE ~trans_quit
            BY <2>2, <3>2, SendDataKeepsWhole, SendTerminatorKeepsWhole, WaitKeepsWhole,
               TransCommandKeepsWhole DEF trans_process
        <3>3. QED
            BY <3>1, <3>2
    <2>3. CASE read_file
        BY <2>3, FileReaderKeepsWhole DEF read_file
    <2>4. CASE update
        <3>1. conn'.state # "TRANSACTION" /\ ~conn'.multiline
            BY <2>4 DEF update, move_and_set_flags, maildir_del_permanentely,
               update_process, Updating, Gone, LoggedIn, WholeSent
        <3>2. QED
            BY <3>1, EndKeepsWhole
    <2>5. CASE \E m \in Mails : Deliver(m)
        BY <2>5 DEF Deliver, WholeSent
    <2>6. CASE Crash
        BY <2>6, EndKeepsWhole DEF Crash, Gone, LoggedIn
    <2>7. CASE UNCHANGED vars
        BY <2>7 DEF vars, WholeSent
    <2>8. QED
        BY <2>1, <2>2, <2>3, <2>4, <2>5, <2>6, <2>7 DEF Next
<1>3. Inv /\ WholeSent => RetrSendsTheOutput
    <2> SUFFICES ASSUME Inv, WholeSent, conn.f = "NULL", conn.multiline, reader.mail # 0
                 PROVE  reader.part = OUTPUT
        BY DEF RetrSendsTheOutput
    <2>1. conn.state = "TRANSACTION"
        BY DEF WholeSent
    <2>2. Pipe = OUTPUT
        BY SED_PRINTS DEF Pipe
    <2>3. QED
        BY <2>1, <2>2 DEF WholeSent
<1>4. QED
    BY <1>1, <1>2, <1>3, InvAlways, PTL DEF Spec

-----------------------------------------------------------------------------
(* What a session leaves behind                                            *)

\* No reader outlives the state in which RETR is answered.
ReaderInSession == conn.state # "TRANSACTION" => reader.on = "none"

\* Where a connection is closed between two responses there is no reader.
LEMMA FinishedHasNoReader ==
    ASSUME Inv, conn.state = "TRANSACTION", conn.finished
    PROVE  reader.on = "none"
BY DEF Inv, Engine

\* Reading ends a session only when nothing is being sent.
LEMMA ReadKeepsReaderInSession ==
    ASSUME Inv, ReaderInSession, trans_read
    PROVE  ReaderInSession'
<1>1. conn.state = "TRANSACTION" /\ conn \in Conn
    BY DEF trans_read, CanRead, Inv
<1>2. CASE close_connection /\ conn.finished
    BY <1>1, <1>2, FinishedHasNoReader DEF close_connection, ReaderInSession
<1>3. CASE ~(close_connection /\ conn.finished)
    <2>1. conn'.state = "TRANSACTION"
        BY <1>1, <1>3 DEF trans_read, Receive, Conn
    <2>2. QED
        BY <2>1 DEF ReaderInSession
<1>4. QED
    BY <1>2, <1>3

\* A reply that send() took, or took a part of, does not end the session.
LEMMA ReplyStaysInSession ==
    ASSUME Inv, CanWrite, NEW r, NEW outcome, outcome # "error", NEW popen,
           Reply(r, outcome, popen)
    PROVE  conn'.state = "TRANSACTION"
<1> DEFINE d == [conn EXCEPT !.lines = @ - 1, !.f = r.f,
                             !.finished = r.f = "NULL", !.multiline = r.f # "NULL",
                             !.interest = IF r.f = "load" /\ popen = "ok" THEN {}
                                          ELSE @]
<1>1. conn.state = "TRANSACTION" /\ conn \in Conn
    BY DEF CanWrite, Inv
<1>2. \E left : conn' = AfterReply(d, left)
    BY DEF Reply
<1>3. d.state = "TRANSACTION" /\ DOMAIN d = DOMAIN conn /\ "state" \in DOMAIN conn
    BY <1>1 DEF Conn
<1> HIDE DEF d
<1>4. QED
    BY <1>2, <1>3 DEF AfterReply

\* What is sent without an error leaves the session where it is; QUIT ends it
\* between two responses.
LEMMA ProcessKeepsReaderInSession ==
    ASSUME Inv, ReaderInSession, trans_process, "error" \notin SendOutcomes
    PROVE  ReaderInSession'
<1>1. conn.state = "TRANSACTION" /\ conn \in Conn
    BY DEF trans_process, send_data, send_terminator, save_arg, trans_incomplete,
           trans_command, trans_quit, CanWrite, Inv
<1>2. ASSUME NEW outcome \in SendOutcomes, send_data(outcome)
      PROVE  conn'.state = "TRANSACTION"
    BY <1>1, <1>2 DEF send_data, cmd_list_all_new, write_terminator, load_more_bytes,
                      Listed, Finished, Buffered, Conn
<1>3. ASSUME NEW outcome \in SendOutcomes, send_terminator(outcome)
      PROVE  conn'.state = "TRANSACTION"
    BY <1>1, <1>3 DEF send_terminator, Finished, Buffered, Conn
<1>4. ASSUME save_arg \/ trans_incomplete
      PROVE  conn'.state = "TRANSACTION"
    BY <1>1, <1>4 DEF save_arg, trans_incomplete, Conn
<1>5. ASSUME NEW line \in Line, NEW outcome \in SendOutcomes, NEW popen, NEW opendir,
             trans_command(line, outcome, popen, opendir)
      PROVE  conn'.state = "TRANSACTION"
    <2>1. CanWrite /\ \E r : Reply(r, outcome, popen)
        BY <1>5 DEF trans_command
    <2>2. QED
        BY <2>1, ReplyStaysInSession
<1>6. CASE trans_quit
    <2>1. conn.finished /\ reader' = reader
        BY <1>6 DEF trans_quit, Idle
    <2>2. QED
        BY <1>1, <2>1, FinishedHasNoReader DEF ReaderInSession
<1>7. QED
    BY <1>2, <1>3, <1>4, <1>5, <1>6 DEF trans_process, ReaderInSession

\* If no send() fails, no session leaves its reader behind: an error of send()
\* in the middle of RETR is the only way to a reader whose client is gone,
\* since recv() is not called before the response has ended.
THEOREM ReaderEndsWithItsSession ==
    ASSUME "error" \notin SendOutcomes
    PROVE  Spec => []ClosedLeavesNoReader
<1>1. Init => ReaderInSession
    BY DEF Init, NoReader, ReaderInSession
<1>2. Inv /\ ReaderInSession /\ [Next]_vars => ReaderInSession'
    <2> SUFFICES ASSUME Inv, ReaderInSession, [Next]_vars
                 PROVE  ReaderInSession'
        OBVIOUS
    <2>1. CASE trans_read
        BY <2>1, ReadKeepsReaderInSession
    <2>2. CASE trans_process
        BY <2>2, ProcessKeepsReaderInSession
    <2>3. CASE read_file
        <3>1. conn'.state = "TRANSACTION"
            BY <2>3 DEF read_file, handle_file_reader, ReadSome, ReadEof, ReadFails,
                        Inv, Conn
        <3>2. QED
            BY <3>1 DEF ReaderInSession
    <2>4. CASE update
        <3>1. conn.state = "UPDATE" /\ reader' = reader
            BY <2>4 DEF update, move_and_set_flags, maildir_del_permanentely,
               update_process, Updating
        <3>2. QED
            BY <3>1 DEF ReaderInSession
    <2>5. CASE \E m \in Mails : Deliver(m)
        BY <2>5 DEF Deliver, ReaderInSession
    <2>6. CASE Crash
        BY <2>6 DEF Crash, NoReader, ReaderInSession
    <2>7. CASE UNCHANGED vars
        BY <2>7 DEF vars, ReaderInSession
    <2>8. QED
        BY <2>1, <2>2, <2>3, <2>4, <2>5, <2>6, <2>7 DEF Next
<1>3. ReaderInSession => ClosedLeavesNoReader
    BY DEF ReaderInSession, ClosedLeavesNoReader
<1>4. QED
    BY <1>1, <1>2, <1>3, InvAlways, PTL DEF Spec

=============================================================================
