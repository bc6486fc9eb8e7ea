----------------------------- MODULE AuthProofs -----------------------------
(***************************************************************************)
(* The safety of Auth for any number of connections, accounts, slots and   *)
(* buffered lines, and any subset of the outcomes of send().               *)
(*                                                                         *)
(* MaildropExclusive is not inductive: USER is refused because the TABLE   *)
(* says the name is taken, so the proof carries that the table tells the   *)
(* truth about every holder (HolderAgreesWithTable).  That in turn needs   *)
(* to know where a connection can stand between a short send and the next  *)
(* callback (Disciplined).                                                 *)
(***************************************************************************)
EXTENDS AuthProperties, FiniteSetTheorems, WellFoundedInduction, TLAPS

UserName == Names \union {NoName}

\* Where a connection can stand between two callbacks.
Disciplined(d) ==
    /\ d.state = "CLOSED" => d = Closed
    /\ ~d.finished => d.unsent
    /\ d.unsent => d.state = "AUTH" /\ d.next # "-1"
    /\ d.stuck => d.state \in {"AUTH", "TRANSACTION"} /\ d.finished /\ ~d.unsent
    /\ d.next = "TRANSACTION" => d.unsent
    /\ d.state = "GREETING_WRITE" => ~Buffered(d)
    /\ \/ d.state = "CLOSED"
       \/ d.interest = {"WRITE"}
       \/ /\ d.interest = {"READ"}
          /\ d.state \in {"AUTH", "TRANSACTION"}
          /\ Buffered(d) => d.stuck
          /\ ~d.unsent /\ d.finished

\* The account of u is in state s in every slot of its name.
InState(t, u, s) ==
    user_exists(t, u) /\ \A i \in Matches(t, u) : t[i].state = s

WellHeld(d, t) ==
    /\ LoggedIn(d) => d.user # NoName
    /\ d.user # NoName =>
         InState(t, d.user, IF LoggedIn(d) THEN USER_ONLINE ELSE USER_LOGGING)

Inv ==
    /\ TypeOK
    /\ MaildropExclusive
    /\ CountsOpenConnections
    /\ \A c \in Conns : Disciplined(conn[c]) /\ WellHeld(conn[c], users)

\* What the invariant says of the properties of AuthProperties.
LEMMA InvImplies == Inv => InterestMatchesState /\ HolderAgreesWithTable
<1>1. Inv => InterestMatchesState
    BY DEF Inv, InterestMatchesState, Disciplined, Open
<1>2. Inv => HolderAgreesWithTable
    BY DEF Inv, HolderAgreesWithTable, WellHeld, InState
<1>3. QED
    BY <1>1, <1>2

-----------------------------------------------------------------------------
(* The account table                                                       *)

\* The loops of user.c that stop at the first match stop at a match: a
\* nonempty set of slots has a least element.
LEMMA FirstMatchIsMatch ==
    ASSUME NEW t, NEW u, user_exists(t, u)
    PROVE  FirstMatch(t, u) \in Matches(t, u)
<1> DEFINE T == Matches(t, u)
<1>1. T \subseteq Nat /\ T # {}
    BY MaxUsersAssumption DEF user_exists, Matches, Slots
<1>2. \E x \in T : \A y \in T : ~(<<y, x>> \in OpToRel(<, Nat))
    BY <1>1, NatLessThanWellFounded, WFMin, Zenon
<1>3. \A x, y \in Nat : <<y, x>> \in OpToRel(<, Nat) <=> y < x
    BY Zenon DEF OpToRel
<1> HIDE DEF T
<1>4. \E x \in T : \A y \in T : x <= y
    <2>1. PICK x \in T : \A y \in T : ~(<<y, x>> \in OpToRel(<, Nat))
        BY <1>2, Zenon
    <2>2. \A y \in T : ~(y < x)
        BY <1>1, <1>3, <2>1
    <2>3. QED BY <1>1, <2>2
<1>5. QED BY <1>4 DEF FirstMatch, T

\* When every slot of a name is in one state, that is the name's state.
LEMMA StateOfMatches ==
    ASSUME NEW t, NEW u, NEW s, user_exists(t, u),
           \A i \in Matches(t, u) : t[i].state = s
    PROVE  user_get_state(t, u) = s
BY FirstMatchIsMatch DEF user_get_state

\* Table t2 is t with the state of name u set to s.
Updated(t, t2, u, s) ==
    /\ t2 \in Tables
    /\ \A i \in Slots :
         /\ t2[i].uname = t[i].uname
         /\ t2[i].state = IF t[i].uname = u THEN s ELSE t[i].state

\* user_set_state rewrites the states of the matching slots, nothing else.
LEMMA SetState ==
    ASSUME NEW t \in Tables, NEW u \in UserName,
           NEW s \in {USER_OFFLINE, USER_LOGGING, USER_ONLINE}
    PROVE  Updated(t, user_set_state(t, u, s), u, s)
BY DEF Updated, user_set_state, Tables, User, USER_OFFLINE, USER_LOGGING,
       USER_ONLINE, USER_NOT_FOUND, UserName

-----------------------------------------------------------------------------
(* Commands                                                                *)

Result == [user : UserName, users : Tables,
           next : {"AUTH", "TRANSACTION", "DONE"},
           status : Replies \union {"ok"}]

\* What a result r of a command may be, for a connection that held u.
GoodResult(u, t, r) ==
    /\ r \in Result
    /\ \A i \in Slots : r.users[i].uname = t[i].uname
    /\ r.next = "TRANSACTION" => r.user # NoName
    /\ r.user # NoName =>
         InState(r.users, r.user, IF r.next = "TRANSACTION" THEN USER_ONLINE
                                                            ELSE USER_LOGGING)
    /\ r.user \in {NoName, u} \/ user_get_state(t, r.user) = USER_OFFLINE
    /\ \A i \in Slots : t[i].uname \notin {u, r.user} =>
         r.users[i].state = t[i].state

\* USER refuses and changes nothing, or frees the account held before and
\* claims one that was OFFLINE.
LEMMA UserCmdGood ==
    ASSUME NEW u \in UserName, NEW t \in Tables, NEW name \in UserName,
           u # NoName => InState(t, u, USER_LOGGING)
    PROVE  GoodResult(u, t, UserCmd(u, t, name))
<1> DEFINE r == UserCmd(u, t, name)
<1>1. ASSUME NEW err \in {"err refused"}
      PROVE  GoodResult(u, t, Refuse(u, t, err))
    <2>1. Refuse(u, t, err) \in Result
        BY DEF Result, Refuse, Replies
    <2>2. QED
        BY <2>1 DEF GoodResult, Refuse
<1>2. ASSUME user_exists(t, name), user_get_state(t, name) = USER_OFFLINE
      PROVE  GoodResult(u, t, r)
    <2> DEFINE freed == IF u # NoName THEN user_set_state(t, u, USER_OFFLINE)
                                      ELSE t
               t2 == user_set_state(freed, name, USER_LOGGING)
    <2>1. r = [user |-> name, users |-> t2, next |-> "AUTH", status |-> "ok"]
        BY <1>2 DEF UserCmd
    <2>2. freed \in Tables /\ \A i \in Slots :
             /\ freed[i].uname = t[i].uname
             /\ t[i].uname # u => freed[i].state = t[i].state
        <3>1. CASE u # NoName
            <4>1. Updated(t, freed, u, USER_OFFLINE)
                BY <3>1, SetState
            <4>2. QED BY <4>1 DEF Updated
        <3>2. CASE u = NoName
            BY <3>2
        <3>3. QED BY <3>1, <3>2
    <2> HIDE DEF freed
    <2>3. Updated(freed, t2, name, USER_LOGGING)
        BY <2>2, SetState
    <2> HIDE DEF t2
    <2>4. InState(t2, name, USER_LOGGING)
        BY <1>2, <2>2, <2>3 DEF Updated, InState, user_exists, Matches
    <2>5. r \in Result
        BY <2>1, <2>3 DEF Updated, Result
    <2> HIDE DEF r
    <2>6. QED
        BY <1>2, <2>1, <2>2, <2>3, <2>4, <2>5 DEF Updated, GoodResult
<1>3. QED
    BY <1>1, <1>2 DEF UserCmd

\* PASS touches no account but the one the connection held: it logs in or
\* gives the account back.
LEMMA PassCmdGood ==
    ASSUME NEW u \in UserName, NEW t \in Tables, NEW pass,
           u # NoName => InState(t, u, USER_LOGGING)
    PROVE  GoodResult(u, t, PassCmd(u, t, pass))
<1> DEFINE r == PassCmd(u, t, pass)
<1>1. CASE u = NoName
    BY <1>1 DEF PassCmd, GoodResult, Result, Refuse, Replies, UserName
<1>2. ASSUME u # NoName, ~user_check_pass(t, u, pass)
      PROVE  GoodResult(u, t, r)
    <2> DEFINE t2 == user_set_state(t, u, USER_OFFLINE)
    <2>1. r = Refuse(NoName, t2, "err")
        BY <1>2 DEF PassCmd
    <2>2. Updated(t, t2, u, USER_OFFLINE)
        BY SetState
    <2> HIDE DEF r, t2
    <2>3. QED
        BY <2>1, <2>2 DEF Updated, GoodResult, Result, Refuse, Replies,
                          UserName
<1>3. ASSUME u # NoName, user_check_pass(t, u, pass)
      PROVE  GoodResult(u, t, r)
    <2> DEFINE t2 == user_set_state(t, u, USER_ONLINE)
    <2>1. r = [user |-> u, users |-> t2, next |-> "TRANSACTION",
               status |-> "ok"]
        BY <1>3 DEF PassCmd
    <2>2. Updated(t, t2, u, USER_ONLINE)
        BY SetState
    <2> HIDE DEF t2
    <2>3. InState(t2, u, USER_ONLINE)
        BY <1>3, <2>2 DEF Updated, InState, user_exists, Matches
    <2>4. r \in Result
        BY <2>1, <2>2 DEF Updated, Result
    <2> HIDE DEF r
    <2>5. QED
        BY <1>3, <2>1, <2>2, <2>3, <2>4 DEF Updated, GoodResult
<1>4. QED
    BY <1>1, <1>2, <1>3

\* A command of a connection that is not in session changes only the account
\* it held and the one it takes, takes only an OFFLINE one, and leaves the
\* table in agreement with what the connection holds.
LEMMA ProcessCmdGood ==
    ASSUME NEW u \in UserName, NEW t \in Tables, NEW line \in Line,
           u # NoName => InState(t, u, USER_LOGGING)
    PROVE  GoodResult(u, t, process_cmd(u, t, line))
<1>1. CASE line.cmd = "USER"
    <2>1. line.arg \in UserName
        BY <1>1 DEF Line, UserName
    <2>2. process_cmd(u, t, line) = UserCmd(u, t, line.arg)
        BY <1>1 DEF process_cmd
    <2>3. QED
        BY <2>1, <2>2, UserCmdGood
<1>2. CASE line.cmd = "PASS"
    <2>1. process_cmd(u, t, line) = PassCmd(u, t, line.arg)
        BY <1>2 DEF process_cmd
    <2>2. QED
        BY <2>1, PassCmdGood
<1>3. CASE line.cmd \in {"QUIT", "CAPA"}
    BY <1>3 DEF process_cmd, GoodResult, Result
<1>4. CASE line.cmd = "STAT"
    BY <1>4 DEF process_cmd, UnknownCmd, Refuse, GoodResult, Result, Replies,
                UserName
<1>5. QED
    BY <1>1, <1>2, <1>3, <1>4 DEF Line

-----------------------------------------------------------------------------
(* One connection moves: what it must leave behind                         *)

\* Table t, and a connection c holding u, leave the other holders alone.
Spares(c, u, t) ==
    /\ t \in Tables
    /\ \A i \in Slots : t[i].uname = users[i].uname
    /\ \A e \in Conns \ {c} : conn[e].user # NoName =>
         /\ conn[e].user # u
         /\ \A i \in Slots :
              users[i].uname = conn[e].user => t[i].state = users[i].state

\* When connection c becomes d and the table spares the others, the invariant
\* needs to be looked at for d only.
LEMMA MoveKeepsInv ==
    ASSUME Inv, NEW c \in Conns, NEW d \in Client,
           conn' = [conn EXCEPT ![c] = d],
           Spares(c, d.user, users'),
           Disciplined(d), WellHeld(d, users'),
           curr_connections' \in Nat, CountsOpenConnections'
    PROVE  Inv'
<1>1. /\ TypeOK /\ MaildropExclusive
      /\ \A e \in Conns : Disciplined(conn[e]) /\ WellHeld(conn[e], users)
    BY DEF Inv
<1>2. conn'[c] = d /\ \A e \in Conns \ {c} : conn'[e] = conn[e]
    BY <1>1 DEF TypeOK
<1>3. TypeOK'
    BY <1>1 DEF TypeOK, Spares
<1>4. MaildropExclusive'
    BY <1>1, <1>2 DEF MaildropExclusive, Spares
<1>5. ASSUME NEW e \in Conns
      PROVE  Disciplined(conn'[e]) /\ WellHeld(conn'[e], users')
    <2>1. CASE e = c
        BY <1>2, <2>1
    <2>2. CASE e # c
        <3>1. conn'[e] = conn[e] /\ Disciplined(conn[e]) /\ WellHeld(conn[e], users)
            BY <1>1, <1>2, <2>2
        <3>2. ASSUME NEW s, conn[e].user # NoName, InState(users, conn[e].user, s)
              PROVE  InState(users', conn[e].user, s)
            <4>1. Matches(users', conn[e].user) = Matches(users, conn[e].user)
                BY DEF Spares, Matches
            <4>2. \A i \in Matches(users, conn[e].user) :
                     users'[i].state = users[i].state
                BY <2>2, <3>2 DEF Spares, Matches
            <4>3. QED BY <3>2, <4>1, <4>2 DEF InState, user_exists
        <3>3. QED BY <3>1, <3>2 DEF WellHeld
    <2>3. QED BY <2>1, <2>2
<1>6. QED
    BY <1>3, <1>4, <1>5 DEF Inv

\* A connection that stays open: the counter stays, and stays right.
LEMMA StayKeepsInv ==
    ASSUME Inv, NEW c \in Conns, NEW d \in Client,
           conn[c].state # "CLOSED", d.state # "CLOSED",
           conn' = [conn EXCEPT ![c] = d], curr_connections' = curr_connections,
           Spares(c, d.user, users'), Disciplined(d), WellHeld(d, users')
    PROVE  Inv'
<1>1. conn'[c] = d /\ \A e \in Conns \ {c} : conn'[e] = conn[e]
    BY DEF Inv, TypeOK
<1>2. Open' = Open
    BY <1>1 DEF Open
<1>3. CountsOpenConnections' /\ curr_connections' \in Nat
    BY <1>2 DEF Inv, TypeOK, CountsOpenConnections
<1>4. QED
    BY <1>3, MoveKeepsInv

\* The table as it is, and what c holds now, spare the others.
LEMMA SparesAsIs ==
    ASSUME Inv, NEW c \in Conns
    PROVE  Spares(c, conn[c].user, users) /\ Spares(c, NoName, users)
BY DEF Inv, TypeOK, MaildropExclusive, Spares

\* A result of a command spares the others: the account it takes was OFFLINE,
\* and no account that is held is.
LEMMA GoodResultSpares ==
    ASSUME Inv, NEW c \in Conns, NEW r, GoodResult(conn[c].user, users, r)
    PROVE  Spares(c, r.user, r.users)
<1>1. r.users \in Tables
    BY DEF GoodResult, Result
<1>2. ASSUME NEW e \in Conns \ {c}, conn[e].user # NoName
      PROVE  conn[e].user # r.user /\ conn[e].user # conn[c].user
    <2>1. conn[e].user # conn[c].user
        BY <1>2 DEF Inv, MaildropExclusive
    <2>2. PICK s \in {USER_LOGGING, USER_ONLINE} :
             InState(users, conn[e].user, s)
        BY <1>2 DEF Inv, WellHeld
    <2>3. user_get_state(users, conn[e].user) # USER_OFFLINE
        <3>1. user_get_state(users, conn[e].user) = s
            BY <2>2, StateOfMatches DEF InState
        <3>2. QED
            BY <2>2, <3>1 DEF USER_OFFLINE, USER_LOGGING, USER_ONLINE
    <2>4. QED
        BY <1>2, <2>1, <2>3 DEF GoodResult
<1>3. QED
    BY <1>1, <1>2 DEF Spares, GoodResult

\* A freed client_data counts as a connection of the right type.
LEMMA ClosedType == Closed \in Client
BY BufferLinesAssumption DEF Closed, Client, Replies

\* Closing a connection gives back what it holds and nothing else.
LEMMA CloseKeepsInv ==
    ASSUME Inv, NEW c \in Conns, conn[c].state # "CLOSED",
           NEW u \in UserName, NEW t, Spares(c, u, t), CloseWith(c, u, t)
    PROVE  Inv'
<1>1. Spares(c, NoName, users')
    <2>1. CASE u = NoName
        BY <2>1 DEF CloseWith, Spares
    <2>2. CASE u # NoName
        <3>1. users' = user_set_state(t, u, USER_OFFLINE)
            BY <2>2 DEF CloseWith
        <3>2. Updated(t, users', u, USER_OFFLINE)
            BY <3>1, SetState DEF Spares
        <3>3. QED
            BY <3>2 DEF Updated, Spares
    <2>3. QED BY <2>1, <2>2
<1>2. Open' = Open \ {c} /\ c \in Open
    BY DEF CloseWith, Open, Inv, TypeOK, Closed
<1>3. CountsOpenConnections' /\ curr_connections' \in Nat
    <2>1. IsFiniteSet(Open) /\ IsFiniteSet(Open')
        BY ConnsAssumption, FS_Subset DEF Open
    <2>2. Cardinality(Open') = Cardinality(Open) - 1
        BY <1>2, <2>1, FS_RemoveElement
    <2>3. Cardinality(Open') \in Nat
        BY <2>1, FS_CardinalityType
    <2>4. curr_connections' = Cardinality(Open')
        BY <2>2 DEF CloseWith, Inv, CountsOpenConnections
    <2>5. QED BY <2>3, <2>4 DEF CountsOpenConnections
<1>4. Closed \in Client
    BY ClosedType
<1>5. Closed.user = NoName /\ Disciplined(Closed) /\ WellHeld(Closed, users')
    BY DEF Closed, Disciplined, WellHeld, LoggedIn
<1>6. conn' = [conn EXCEPT ![c] = Closed]
    BY DEF CloseWith
<1>7. QED
    BY <1>1, <1>3, <1>4, <1>5, <1>6, MoveKeepsInv

\* close_connection run by a callback that changed nothing before it.
LEMMA close_connectionKeepsInv ==
    ASSUME Inv, NEW c \in Conns, conn[c].state # "CLOSED", close_connection(c)
    PROVE  Inv'
<1>1. conn[c].user \in UserName
    BY DEF Inv, TypeOK, Client, UserName
<1>2. QED
    BY <1>1, SparesAsIs, CloseKeepsInv DEF close_connection

-----------------------------------------------------------------------------
(* The actions                                                             *)

\* A new connection holds nothing and is counted once.
LEMMA AcceptKeepsInv ==
    ASSUME Inv, NEW c \in Conns, pop3AcceptPassive(c)
    PROVE  Inv'
<1>1. conn' = [conn EXCEPT ![c] = NewClient] /\ users' = users
    BY DEF pop3AcceptPassive
<1>2. Open' = Open \union {c} /\ c \notin Open
    BY DEF pop3AcceptPassive, Open, Inv, TypeOK, NewClient, Closed
<1>3. CountsOpenConnections' /\ curr_connections' \in Nat
    <2>1. IsFiniteSet(Open)
        BY ConnsAssumption, FS_Subset DEF Open
    <2>2. Cardinality(Open') = Cardinality(Open) + 1
        BY <1>2, <2>1, FS_AddElement
    <2>3. QED
        BY <2>2 DEF pop3AcceptPassive, Inv, TypeOK, CountsOpenConnections
<1>4. NewClient \in Client /\ NewClient.user = NoName
    <2>1. NewClient \in Client
        BY ClosedType DEF NewClient, Client, States
    <2>2. QED
        BY <2>1 DEF NewClient, Closed
<1>5. Disciplined(NewClient) /\ WellHeld(NewClient, users')
    BY DEF NewClient, Closed, Disciplined, WellHeld, LoggedIn, Buffered
<1>6. QED
    BY <1>1, <1>3, <1>4, <1>5, SparesAsIs, MoveKeepsInv

\* A callback that touches neither the connection's account nor how far its
\* login has got keeps the invariant if it keeps the discipline.
LEMMA QuietStepKeepsInv ==
    ASSUME Inv, NEW c \in Conns, NEW d \in Client,
           conn[c].state # "CLOSED", d.state # "CLOSED",
           conn' = [conn EXCEPT ![c] = d],
           UNCHANGED <<users, curr_connections>>,
           d.user = conn[c].user, LoggedIn(d) <=> LoggedIn(conn[c]),
           Disciplined(d)
    PROVE  Inv'
<1>1. WellHeld(d, users')
    BY DEF Inv, WellHeld
<1>2. Spares(c, d.user, users')
    BY SparesAsIs
<1>3. QED
    BY <1>1, <1>2, StayKeepsInv

\* A client that hangs up changes nothing the server knows.
LEMMA HangUpKeepsInv ==
    ASSUME Inv, NEW c \in Conns, HangUp(c)
    PROVE  Inv'
<1> DEFINE d == [conn[c] EXCEPT !.gone = TRUE]
<1>1. conn[c] \in Client /\ Disciplined(conn[c]) /\ conn \in [Conns -> Client]
    BY DEF Inv, TypeOK
<1>2. conn' = [conn EXCEPT ![c] = d] /\ UNCHANGED <<users, curr_connections>>
    BY DEF HangUp
<1>3. d \in Client /\ d.user = conn[c].user /\ d.state # "CLOSED"
    BY <1>1 DEF Client, HangUp
<1>4. Disciplined(d) /\ (LoggedIn(d) <=> LoggedIn(conn[c]))
    BY <1>1 DEF Client, HangUp, Disciplined, LoggedIn, Buffered
<1> HIDE DEF d
<1>5. QED
    BY <1>2, <1>3, <1>4, QuietStepKeepsInv DEF HangUp

\* The greeting leads to AUTHORIZATION with nothing buffered, or closes.
LEMMA GreetingKeepsInv ==
    ASSUME Inv, NEW c \in Conns, NEW o, write_greeting(c, o)
    PROVE  Inv'
<1> DEFINE d == [conn[c] EXCEPT !.state = "AUTH", !.interest = {"READ"}]
<1>1. /\ conn[c] \in Client /\ conn \in [Conns -> Client]
      /\ Disciplined(conn[c]) /\ conn[c].state = "GREETING_WRITE"
    BY DEF Inv, TypeOK, write_greeting
<1>2. CASE o # "all"
    BY <1>1, <1>2, close_connectionKeepsInv DEF write_greeting
<1>3. CASE o = "all"
    <2>1. conn' = [conn EXCEPT ![c] = d] /\ UNCHANGED <<users, curr_connections>>
        BY <1>3 DEF write_greeting
    <2>2. d \in Client /\ d.user = conn[c].user /\ d.state # "CLOSED"
        BY <1>1 DEF Client, States
    <2>3. Disciplined(d) /\ (LoggedIn(d) <=> LoggedIn(conn[c]))
        BY <1>1 DEF Client, Disciplined, LoggedIn, Buffered
    <2> HIDE DEF d
    <2>4. QED
        BY <1>1, <2>1, <2>2, <2>3, QuietStepKeepsInv
<1>4. QED
    BY <1>2, <1>3

\* Input is followed by OP_WRITE, so it is never left waiting for more.
LEMMA ReadKeepsInv ==
    ASSUME Inv, NEW c \in Conns, auth_read(c)
    PROVE  Inv'
<1>1. /\ conn[c] \in Client /\ conn \in [Conns -> Client]
      /\ Disciplined(conn[c]) /\ conn[c].state \in {"AUTH", "TRANSACTION"}
      /\ conn[c].finished /\ ~conn[c].unsent
    BY DEF Inv, TypeOK, auth_read, CanRead, Disciplined
<1>2. \/ close_connection(c)
      \/ Receive(c)
    BY <1>1 DEF auth_read
<1>3. CASE close_connection(c)
    BY <1>1, <1>3, close_connectionKeepsInv
<1>4. ASSUME NEW n \in 0 .. BUFFER_LINES, NEW p \in BOOLEAN,
             conn' = [conn EXCEPT ![c].lines = n, ![c].partial = p,
                                  ![c].interest = {"WRITE"}],
             UNCHANGED <<users, curr_connections>>
      PROVE  Inv'
    <2> DEFINE d == [conn[c] EXCEPT !.lines = n, !.partial = p,
                                    !.interest = {"WRITE"}]
    <2>1. conn' = [conn EXCEPT ![c] = d]
        BY <1>1, <1>4
    <2>2. d \in Client /\ d.user = conn[c].user /\ d.state = conn[c].state
        BY <1>1 DEF Client
    <2>3. Disciplined(d) /\ (LoggedIn(d) <=> LoggedIn(conn[c]))
        BY <1>1 DEF Client, Disciplined, LoggedIn
    <2> HIDE DEF d
    <2>4. QED
        BY <1>1, <1>4, <2>1, <2>2, <2>3, QuietStepKeepsInv
<1>5. CASE Receive(c) /\ ~close_connection(c)
    <2>1. PICK ch \in Chunks :
             /\ conn[c].lines + ch.lines <= BUFFER_LINES
             /\ conn' = [conn EXCEPT
                  ![c].lines    = conn[c].lines + ch.lines,
                  ![c].partial  = ch.partial \/ (ch.lines = 0 /\ conn[c].partial),
                  ![c].interest = {"WRITE"}]
        BY <1>1, <1>5 DEF Receive
    <2>2. /\ conn[c].lines + ch.lines \in 0 .. BUFFER_LINES
          /\ (ch.partial \/ (ch.lines = 0 /\ conn[c].partial)) \in BOOLEAN
        BY <1>1, <2>1, BufferLinesAssumption DEF Client, Chunks
    <2>3. UNCHANGED <<users, curr_connections>>
        BY <1>5 DEF Receive
    <2>4. QED
        BY <1>4, <2>1, <2>2, <2>3
<1>6. QED
    BY <1>2, <1>3, <1>5

\* Nothing a connection buffers or waits for changes when it asks for input.
LEMMA AwaitKeepsInv ==
    ASSUME Inv, NEW c \in Conns, Await(c), conn[c].lines = 0,
           conn[c].state \in {"AUTH", "TRANSACTION"},
           conn[c].finished, ~conn[c].unsent
    PROVE  Inv'
<1> DEFINE d == [conn[c] EXCEPT !.partial = FALSE, !.interest = {"READ"}]
<1>1. conn[c] \in Client /\ Disciplined(conn[c]) /\ conn \in [Conns -> Client]
    BY DEF Inv, TypeOK
<1>2. conn' = [conn EXCEPT ![c] = d] /\ UNCHANGED <<users, curr_connections>>
    BY DEF Await
<1>3. d \in Client /\ d.user = conn[c].user /\ d.state = conn[c].state
    BY <1>1 DEF Client
<1>4. Disciplined(d) /\ (LoggedIn(d) <=> LoggedIn(conn[c]))
    BY <1>1 DEF Client, Disciplined, LoggedIn, Buffered
<1> HIDE DEF d
<1>5. QED
    BY <1>2, <1>3, <1>4, QuietStepKeepsInv

\* A parser that gave up waits for input it will not read; nothing else.
LEMMA SaveArgKeepsInv ==
    ASSUME Inv, NEW c \in Conns, save_arg(c)
    PROVE  Inv'
<1> DEFINE d == [conn[c] EXCEPT !.stuck = TRUE, !.interest = {"READ"}]
<1>1. /\ conn[c] \in Client /\ Disciplined(conn[c]) /\ conn \in [Conns -> Client]
      /\ conn[c].state \in {"AUTH", "TRANSACTION"}
      /\ conn[c].finished /\ ~conn[c].unsent
    BY DEF Inv, TypeOK, save_arg, ReadyToParse, Disciplined
<1>2. conn' = [conn EXCEPT ![c] = d] /\ UNCHANGED <<users, curr_connections>>
    BY DEF save_arg
<1>3. d \in Client /\ d.user = conn[c].user /\ d.state = conn[c].state
    BY <1>1 DEF Client
<1>4. Disciplined(d) /\ (LoggedIn(d) <=> LoggedIn(conn[c]))
    BY <1>1 DEF Client, Disciplined, LoggedIn, Buffered
<1> HIDE DEF d
<1>5. QED
    BY <1>1, <1>2, <1>3, <1>4, QuietStepKeepsInv

\* The two branches that flip send.finished keep a leftover in OP_WRITE.
LEMMA LeftoverKeepsInv ==
    ASSUME Inv, NEW c \in Conns, auth_resume(c) \/ auth_leftover(c)
    PROVE  Inv'
<1>1. /\ conn[c] \in Client /\ Disciplined(conn[c]) /\ conn \in [Conns -> Client]
      /\ conn[c].state = "AUTH" /\ conn[c].unsent
    BY DEF Inv, TypeOK, Disciplined, auth_resume, auth_leftover, InAuth
<1>2. PICK b \in BOOLEAN : /\ conn' = [conn EXCEPT ![c].finished = b]
                           /\ UNCHANGED <<users, curr_connections>>
    BY <1>1 DEF auth_resume, auth_leftover
<1> DEFINE d == [conn[c] EXCEPT !.finished = b]
<1>3. conn' = [conn EXCEPT ![c] = d]
    BY <1>2
<1>4. d \in Client /\ d.user = conn[c].user /\ d.state = conn[c].state
    BY <1>1 DEF Client
<1>5. Disciplined(d) /\ (LoggedIn(d) <=> LoggedIn(conn[c]))
    BY <1>1 DEF Client, Disciplined, LoggedIn, Buffered
<1> HIDE DEF d
<1>6. QED
    BY <1>1, <1>2, <1>3, <1>4, <1>5, QuietStepKeepsInv

\* Every command has one of the known replies.
LEMMA ReplyType ==
    ASSUME NEW line \in Line, NEW r \in Result
    PROVE  generateMsg(line, r) \in Replies
BY DEF generateMsg, Result, Replies

\* A command of the AUTHORIZATION state, whatever send() makes of its reply.
LEMMA AuthCommandKeepsInv ==
    ASSUME Inv, NEW c \in Conns, NEW line \in Line, NEW o,
           auth_command(c, line, o)
    PROVE  Inv'
<1> DEFINE r == process_cmd(conn[c].user, users, line)
           msg == generateMsg(line, r)
           d == Consumed(conn[c], r.user, msg)
<1>1. /\ conn[c] \in Client /\ conn \in [Conns -> Client] /\ users \in Tables
      /\ Disciplined(conn[c]) /\ WellHeld(conn[c], users)
      /\ conn[c].state = "AUTH" /\ conn[c].finished /\ ~conn[c].unsent
      /\ ~conn[c].stuck
      /\ conn[c].lines > 0 /\ conn[c].user \in UserName
      /\ conn[c].next # "TRANSACTION"
    BY DEF Inv, TypeOK, auth_command, InAuth, ReadyToParse, Disciplined, Client,
           UserName
<1>2. GoodResult(conn[c].user, users, r)
    <2>1. conn[c].user # NoName => InState(users, conn[c].user, USER_LOGGING)
        BY <1>1 DEF WellHeld, LoggedIn
    <2>2. QED BY <1>1, <2>1, ProcessCmdGood
<1>3. Spares(c, r.user, r.users)
    BY <1>2, GoodResultSpares
<1>4. r \in Result /\ msg \in Replies
    BY <1>2, ReplyType DEF GoodResult
<1>5. \/ CloseWith(c, r.user, r.users)
      \/ /\ conn' = [conn EXCEPT ![c] =
              [d EXCEPT !.next = r.next, !.finished = FALSE, !.unsent = TRUE]]
         /\ users' = r.users
         /\ UNCHANGED curr_connections
      \/ /\ r.next # "DONE"
         /\ conn' = [conn EXCEPT ![c] =
              [d EXCEPT !.next = "-1", !.state = r.next,
                        !.interest = InterestAfter(d)]]
         /\ users' = r.users
         /\ UNCHANGED curr_connections
    BY DEF auth_command
<1> HIDE DEF r, msg
<1>6. /\ d \in Client /\ d.user = r.user /\ d.state = "AUTH"
      /\ d.finished /\ ~d.unsent /\ ~d.stuck /\ d.interest = {"WRITE"}
    <2>1. conn[c].interest = {"WRITE"}
        BY <1>1 DEF Disciplined, auth_command, InAuth, CanWrite
    <2>2. conn[c].lines - 1 \in 0 .. BUFFER_LINES
        BY <1>1, BufferLinesAssumption DEF Client
    <2>3. r.user \in UserName
        BY <1>4 DEF Result
    <2>4. QED
        BY <1>1, <1>4, <2>1, <2>2, <2>3 DEF Consumed, Client, UserName
<1> HIDE DEF d
<1>7. CASE CloseWith(c, r.user, r.users)
    BY <1>1, <1>3, <1>4, <1>7, CloseKeepsInv DEF Result
<1>8. ASSUME conn' = [conn EXCEPT ![c] =
                [d EXCEPT !.next = r.next, !.finished = FALSE, !.unsent = TRUE]],
             users' = r.users, UNCHANGED curr_connections
      PROVE  Inv'
    <2> DEFINE e == [d EXCEPT !.next = r.next, !.finished = FALSE,
                              !.unsent = TRUE]
    <2>1. /\ e \in Client /\ e.user = r.user /\ e.state = "AUTH"
          /\ e.next = r.next /\ e.next # "-1" /\ e.interest = {"WRITE"}
          /\ ~e.finished /\ e.unsent /\ ~e.stuck
        BY <1>4, <1>6 DEF Client, Result
    <2> HIDE DEF e
    <2>2. Disciplined(e)
        BY <2>1 DEF Disciplined
    <2>3. WellHeld(e, users')
        BY <1>2, <1>8, <2>1 DEF WellHeld, LoggedIn, GoodResult
    <2>4. conn' = [conn EXCEPT ![c] = e]
        BY <1>8 DEF e
    <2>5. QED
        BY <1>1, <1>3, <1>8, <2>1, <2>2, <2>3, <2>4, StayKeepsInv
<1>9. ASSUME r.next # "DONE",
             conn' = [conn EXCEPT ![c] =
                [d EXCEPT !.next = "-1", !.state = r.next,
                          !.interest = InterestAfter(d)]],
             users' = r.users, UNCHANGED curr_connections
      PROVE  Inv'
    <2> DEFINE e == [d EXCEPT !.next = "-1", !.state = r.next,
                              !.interest = InterestAfter(d)]
    <2>1. InterestAfter(d) = IF Buffered(d) THEN {"WRITE"} ELSE {"READ"}
        BY DEF InterestAfter
    <2>2. /\ e \in Client /\ e.user = r.user /\ e.state = r.next
          /\ e.state \in {"AUTH", "TRANSACTION"} /\ e.next = "-1"
          /\ e.finished /\ ~e.unsent /\ (Buffered(e) <=> Buffered(d))
          /\ e.interest = IF Buffered(e) THEN {"WRITE"} ELSE {"READ"}
        BY <1>4, <1>6, <1>9, <2>1 DEF Client, Result, States, Buffered
    <2> HIDE DEF e
    <2>3. Disciplined(e)
        BY <2>2 DEF Disciplined
    <2>4. WellHeld(e, users')
        BY <1>2, <1>9, <2>2 DEF WellHeld, LoggedIn, GoodResult
    <2>5. conn' = [conn EXCEPT ![c] = e]
        BY <1>9 DEF e
    <2>6. QED
        BY <1>1, <1>3, <1>9, <2>2, <2>3, <2>4, <2>5, StayKeepsInv
<1>10. QED
    BY <1>5, <1>7, <1>8, <1>9

\* A command of the TRANSACTION state leaves the account and the table alone.
LEMMA TransCommandKeepsInv ==
    ASSUME Inv, NEW c \in Conns, NEW line \in Line, NEW o,
           trans_command(c, line, o)
    PROVE  Inv'
<1> DEFINE d == Consumed(conn[c], conn[c].user, TransReply(line))
           e == [d EXCEPT !.interest = InterestAfter(d)]
<1>1. /\ conn[c] \in Client /\ conn \in [Conns -> Client] /\ conn[c].lines > 0
      /\ Disciplined(conn[c]) /\ conn[c].state = "TRANSACTION"
    BY DEF Inv, TypeOK, trans_command, InTransaction
<1>2. CASE close_connection(c)
    BY <1>1, <1>2, close_connectionKeepsInv
<1>3. CASE ~close_connection(c)
    <2>1. conn' = [conn EXCEPT ![c] = e] /\ UNCHANGED <<users, curr_connections>>
        BY <1>3 DEF trans_command
    <2>2. conn[c].lines - 1 \in 0 .. BUFFER_LINES
        BY <1>1, BufferLinesAssumption DEF Client
    <2>3. TransReply(line) \in Replies
        BY DEF TransReply, Replies
    <2>4. /\ d \in Client /\ d.user = conn[c].user /\ d.state = "TRANSACTION"
          /\ d.next = conn[c].next /\ d.finished /\ ~d.unsent
        BY <1>1, <2>2, <2>3 DEF Consumed, Client, Disciplined
    <2> HIDE DEF d
    <2>5. /\ e \in Client /\ e.user = d.user /\ e.state = d.state
          /\ e.next = d.next /\ e.finished /\ ~e.unsent
          /\ e.interest = IF Buffered(e) THEN {"WRITE"} ELSE {"READ"}
        BY <2>4 DEF Client, InterestAfter, Buffered
    <2> HIDE DEF e
    <2>6. Disciplined(e) /\ (LoggedIn(e) <=> LoggedIn(conn[c]))
        BY <1>1, <2>4, <2>5 DEF Disciplined, LoggedIn
    <2>7. QED
        BY <1>1, <2>1, <2>4, <2>5, <2>6, QuietStepKeepsInv
<1>4. QED
    BY <1>2, <1>3

\* QUIT keeps the session, and its account, until UPDATE closes.
LEMMA TransQuitKeepsInv ==
    ASSUME Inv, NEW c \in Conns, trans_quit(c)
    PROVE  Inv'
<1> DEFINE d == [conn[c] EXCEPT !.state = "UPDATE", !.interest = {"WRITE"},
                                !.lines = conn[c].lines - 1]
<1>1. /\ conn[c] \in Client /\ conn \in [Conns -> Client] /\ conn[c].lines > 0
      /\ Disciplined(conn[c]) /\ conn[c].state = "TRANSACTION"
      /\ ~conn[c].stuck
    BY DEF Inv, TypeOK, trans_quit, InTransaction, ReadyToParse
<1>2. conn' = [conn EXCEPT ![c] = d] /\ UNCHANGED <<users, curr_connections>>
    BY <1>1 DEF trans_quit
<1>3. conn[c].lines - 1 \in 0 .. BUFFER_LINES
    BY <1>1, BufferLinesAssumption DEF Client
<1>4. /\ d \in Client /\ d.user = conn[c].user /\ d.state = "UPDATE"
      /\ d.interest = {"WRITE"} /\ d.next = conn[c].next
      /\ d.finished = conn[c].finished /\ d.unsent = conn[c].unsent
      /\ ~d.stuck
    BY <1>1, <1>3 DEF Client, States
<1> HIDE DEF d
<1>5. Disciplined(d) /\ (LoggedIn(d) <=> LoggedIn(conn[c]))
    BY <1>1, <1>4 DEF Disciplined, LoggedIn
<1>6. QED
    BY <1>1, <1>2, <1>4, <1>5, QuietStepKeepsInv

\* At start-up every account is OFFLINE and nobody is connected.
LEMMA InitInv == Init => Inv
<1> SUFFICES ASSUME Init PROVE Inv
    OBVIOUS
<1>1. users \in Tables
    BY AccountsAssumption DEF Init, TableOf, FreeSlot, Tables, User, Slots,
       USER_OFFLINE, USER_LOGGING, USER_ONLINE
<1>2. \A c \in Conns : conn[c] = Closed
    BY DEF Init
<1>3. TypeOK
    BY <1>1, ClosedType DEF Init, TypeOK
<1>4. MaildropExclusive
    BY <1>2 DEF MaildropExclusive, Closed
<1>5. Open = {}
    BY <1>2 DEF Open, Closed
<1>6. CountsOpenConnections
    BY <1>5, FS_EmptySet DEF Init, CountsOpenConnections
<1>7. Disciplined(Closed) /\ WellHeld(Closed, users)
    BY DEF Closed, Disciplined, WellHeld, LoggedIn
<1>8. QED
    BY <1>2, <1>3, <1>4, <1>6, <1>7 DEF Inv

\* Every callback and every act of a client keeps the invariant.
LEMMA NextKeepsInv == Inv /\ [Next]_vars => Inv'
<1> SUFFICES ASSUME Inv, [Next]_vars PROVE Inv'
    OBVIOUS
<1>1. ASSUME NEW c \in Conns, pop3AcceptPassive(c) PROVE Inv'
    BY <1>1, AcceptKeepsInv
<1>2. ASSUME NEW c \in Conns, HangUp(c) PROVE Inv'
    BY <1>2, HangUpKeepsInv
<1>3. ASSUME NEW c \in Conns, pop3_handle_read(c) PROVE Inv'
    BY <1>3, ReadKeepsInv DEF pop3_handle_read
<1>4. ASSUME NEW c \in Conns, pop3_handle_write(c) PROVE Inv'
    <2>1. ASSUME NEW o \in SendOutcomes, write_greeting(c, o) PROVE Inv'
        BY <2>1, GreetingKeepsInv
    <2>2. ASSUME auth_resume(c) \/ auth_leftover(c) PROVE Inv'
        BY <2>2, LeftoverKeepsInv
    <2>3. ASSUME auth_incomplete(c) PROVE Inv'
        BY <2>3, AwaitKeepsInv DEF auth_incomplete, InAuth, ReadyToParse
    <2>4. ASSUME NEW l \in Line, NEW o \in SendOutcomes, auth_command(c, l, o)
          PROVE  Inv'
        BY <2>4, AuthCommandKeepsInv
    <2>5. ASSUME trans_incomplete(c) PROVE Inv'
        <3>1. conn[c].finished /\ ~conn[c].unsent /\ conn[c].state = "TRANSACTION"
            BY <2>5 DEF Inv, TypeOK, Client, Disciplined, trans_incomplete,
                        InTransaction
        <3>2. QED
            BY <2>5, <3>1, AwaitKeepsInv DEF trans_incomplete
    <2>6. ASSUME NEW l \in Line, NEW o \in SendOutcomes, trans_command(c, l, o)
          PROVE  Inv'
        BY <2>6, TransCommandKeepsInv
    <2>7. ASSUME trans_quit(c) PROVE Inv'
        BY <2>7, TransQuitKeepsInv
    <2>8. ASSUME update_process(c) PROVE Inv'
        BY <2>8, close_connectionKeepsInv DEF update_process, CanWrite
    <2>9. ASSUME save_arg(c) PROVE Inv'
        BY <2>9, SaveArgKeepsInv
    <2>10. QED
        BY <1>4, <2>1, <2>2, <2>3, <2>4, <2>5, <2>6, <2>7, <2>8, <2>9
        DEF pop3_handle_write
<1>5. CASE UNCHANGED vars
    BY <1>5 DEF vars, Inv, TypeOK, MaildropExclusive, CountsOpenConnections, Open
<1>6. QED
    BY <1>1, <1>2, <1>3, <1>4, <1>5 DEF Next

-----------------------------------------------------------------------------
(* The theorems                                                            *)

\* The invariant holds in every reachable state.
LEMMA Invariance == Spec => []Inv
BY InitInv, NextKeepsInv, PTL DEF Spec

\* Connections, table and counter keep their types; in particular the state
\* machine is never sent to a state stm.c would abort() on.
THEOREM TypeCorrect == Spec => []TypeOK
<1>1. Inv => TypeOK
    BY DEF Inv
<1>2. QED
    BY <1>1, Invariance, PTL

\* However many connections there are and however their callbacks interleave,
\* two of them never hold the same maildrop.
THEOREM Exclusion == Spec => []MaildropExclusive
<1>1. Inv => MaildropExclusive
    BY DEF Inv
<1>2. QED
    BY <1>1, Invariance, PTL

\* The table calls an account LOGGING or ONLINE in agreement with what the
\* connection that holds it has done.
THEOREM TableAgrees == Spec => []HolderAgreesWithTable
BY InvImplies, Invariance, PTL

\* An open connection always waits for a direction its state handles, and
\* for input only with its buffers empty.
THEOREM NoLostWakeUp == Spec => []InterestMatchesState
BY InvImplies, Invariance, PTL

\* The counter shown to the administrator is the number of open connections.
THEOREM CountCorrect == Spec => []CountsOpenConnections
<1>1. Inv => CountsOpenConnections
    BY DEF Inv
<1>2. QED
    BY <1>1, Invariance, PTL

=============================================================================
