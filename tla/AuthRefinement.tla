--------------------------- MODULE AuthRefinement ---------------------------
(***************************************************************************)
(* What one step of a connection does to the accounts, for any number of   *)
(* connections, accounts and slots: nothing to the account of another,     *)
(* nothing its reply does not say, and nothing but the steps of a lock     *)
(* (MaildropLock).                                                         *)
(*                                                                         *)
(* All three follow from one summary of a step (Effect), which is proved   *)
(* once for every callback; Truth is what the summary needs to carry about *)
(* the last reply.  The last part adds who forgets an account: only a      *)
(* connection that has one and is sent a command auth.c does not know.     *)
(***************************************************************************)
EXTENDS AuthProofs

\* What the last reply of d says about how far d has got, in table t.
Truth(d, t) ==
    /\ d.reply = "ok logged in" => LoggedIn(d)
    /\ d.reply = "ok valid user" =>
         /\ ~LoggedIn(d)
         /\ d.user = NoName => user_get_state(t, NoName) = USER_LOGGING
    /\ d.state = "AUTH" /\ d.reply = "err" => d.user = NoName
    /\ d.state = "GREETING_WRITE" => d.reply = "none"

\* How table t and the account u of a connection become t2 and v: an account
\* taken was OFFLINE, one let go of is OFFLINE or forgotten, all others stay.
Handed(u, t, v, t2) ==
    /\ v \notin {NoName, u} => user_get_state(t, v) = USER_OFFLINE
    /\ \A n \in Names \ {u, v} : user_get_state(t2, n) = user_get_state(t, n)
    /\ u \notin {NoName, v} =>
         \/ user_get_state(t2, u) = USER_OFFLINE
         \/ v = NoName /\ user_get_state(t2, u) = user_get_state(t, u)
    /\ user_get_state(t, NoName) = USER_LOGGING =>
         user_get_state(t2, NoName) = USER_LOGGING

\* A session begins on the account the connection holds and ends with it.
Sessions(d, e) ==
    /\ d.user # NoName /\ LoggedIn(d) => e.user \in {NoName, d.user}
    /\ e.user # NoName /\ LoggedIn(e) => e.user = d.user
    /\ d.user # NoName /\ e.user = d.user /\ LoggedIn(d) => LoggedIn(e)

\* A session's account is not forgotten.
SessionsEnd(d, e, t2) ==
    d.user # NoName /\ LoggedIn(d) /\ e.user = NoName =>
        user_get_state(t2, d.user) = USER_OFFLINE

Effect(c) ==
    /\ \A x \in Conns \ {c} : conn'[x] = conn[x]
    /\ Handed(conn[c].user, users, conn'[c].user, users')
    /\ Sessions(conn[c], conn'[c])
    /\ SessionsEnd(conn[c], conn'[c], users')
    /\ Truth(conn'[c], users')

TrueInv == Inv /\ \A c \in Conns : Truth(conn[c], users)

-----------------------------------------------------------------------------
(* The states of names                                                     *)

\* A name whose slots keep their states keeps its state.
LEMMA SameState ==
    ASSUME NEW t, NEW t2, NEW n,
           \A i \in Slots : t2[i].uname = t[i].uname,
           \A i \in Slots : t[i].uname = n => t2[i].state = t[i].state
    PROVE  user_get_state(t2, n) = user_get_state(t, n)
<1>1. Matches(t2, n) = Matches(t, n)
    BY DEF Matches
<1>2. FirstMatch(t2, n) = FirstMatch(t, n)
    BY <1>1 DEF FirstMatch
<1>3. CASE user_exists(t, n)
    <2>1. FirstMatch(t, n) \in Matches(t, n)
        BY <1>3, FirstMatchIsMatch
    <2>2. t2[FirstMatch(t, n)].state = t[FirstMatch(t, n)].state
        BY <2>1 DEF Matches
    <2>3. QED
        BY <1>1, <1>2, <2>2 DEF user_get_state, user_exists
<1>4. CASE ~user_exists(t, n)
    BY <1>1, <1>4 DEF user_get_state, user_exists
<1>5. QED
    BY <1>3, <1>4

\* user_set_state gives a name that exists its state, and no other name one.
LEMMA SetGets ==
    ASSUME NEW t \in Tables, NEW u \in UserName,
           NEW s \in {USER_OFFLINE, USER_LOGGING, USER_ONLINE}
    PROVE  /\ user_set_state(t, u, s) \in Tables
           /\ user_exists(t, u) =>
                user_get_state(user_set_state(t, u, s), u) = s
           /\ \A n : n # u => user_get_state(user_set_state(t, u, s), n)
                                = user_get_state(t, n)
           /\ \A n : user_exists(user_set_state(t, u, s), n)
                       <=> user_exists(t, n)
<1> DEFINE t2 == user_set_state(t, u, s)
<1>1. Updated(t, t2, u, s)
    BY SetState
<1> HIDE DEF t2
<1>2. \A n : Matches(t2, n) = Matches(t, n)
    BY <1>1 DEF Updated, Matches
<1>3. \A n : user_exists(t2, n) <=> user_exists(t, n)
    BY <1>2 DEF user_exists
<1>4. ASSUME user_exists(t, u) PROVE user_get_state(t2, u) = s
    <2>1. \A i \in Matches(t2, u) : t2[i].state = s
        BY <1>1, <1>2 DEF Updated, Matches
    <2>2. QED
        BY <1>3, <1>4, <2>1, StateOfMatches
<1>5. ASSUME NEW n, n # u PROVE user_get_state(t2, n) = user_get_state(t, n)
    BY <1>1, <1>5, SameState DEF Updated
<1>6. t2 \in Tables
    BY <1>1 DEF Updated
<1>7. QED
    BY <1>3, <1>4, <1>5, <1>6 DEF t2

\* The account a connection holds is in the state its login has reached.
LEMMA HeldState ==
    ASSUME NEW d, NEW t, WellHeld(d, t), d.user # NoName
    PROVE  /\ user_exists(t, d.user)
           /\ LoggedIn(d) => user_get_state(t, d.user) = USER_ONLINE
           /\ ~LoggedIn(d) => user_get_state(t, d.user) = USER_LOGGING
<1>1. PICK s : /\ InState(t, d.user, s)
               /\ LoggedIn(d) => s = USER_ONLINE
               /\ ~LoggedIn(d) => s = USER_LOGGING
    BY DEF WellHeld
<1>2. user_get_state(t, d.user) = s
    BY <1>1, StateOfMatches DEF InState
<1>3. QED
    BY <1>1, <1>2 DEF InState

-----------------------------------------------------------------------------
(* Commands and closes                                                     *)

\* What result r of a command line does to the accounts and what its reply
\* says of them.
GoodReply(u, t, line, r) ==
    /\ Handed(u, t, r.user, r.users)
    /\ r.next = "TRANSACTION" => r.user = u
    /\ generateMsg(line, r) = "ok logged in" => r.next = "TRANSACTION"
    /\ generateMsg(line, r) = "ok valid user" =>
         /\ r.next # "TRANSACTION"
         /\ user_get_state(r.users, r.user) = USER_LOGGING
    /\ generateMsg(line, r) = "err" => r.user = NoName

\* A command hands over accounts as a lock does, it is the holder of an
\* account that logs in to it, and the reply says what was done.
LEMMA CommandHands ==
    ASSUME NEW u \in UserName, NEW t \in Tables, NEW line \in Line,
           u # NoName => InState(t, u, USER_LOGGING)
    PROVE  GoodReply(u, t, line, process_cmd(u, t, line))
<1> DEFINE r == process_cmd(u, t, line)
<1> DEFINE Says ==
      /\ r.next = "TRANSACTION" => r.user = u
      /\ generateMsg(line, r) = "ok logged in" => r.next = "TRANSACTION"
      /\ generateMsg(line, r) = "ok valid user" =>
           user_get_state(r.users, r.user) = USER_LOGGING
      /\ generateMsg(line, r) = "err" => r.user = NoName
    Lets ==
      /\ u \notin {NoName, r.user} =>
           \/ user_get_state(r.users, u) = USER_OFFLINE
           \/ r.user = NoName /\ user_get_state(r.users, u) = user_get_state(t, u)
      /\ user_get_state(t, NoName) = USER_LOGGING =>
           user_get_state(r.users, NoName) = USER_LOGGING
<1>1. GoodResult(u, t, r)
    BY ProcessCmdGood
<1>2. /\ line.cmd = "USER" => r = UserCmd(u, t, line.arg)
      /\ line.cmd = "PASS" => r = PassCmd(u, t, line.arg)
      /\ line.cmd = "QUIT" => r = [user |-> u, users |-> t, next |-> "DONE",
                                  status |-> "ok"]
      /\ line.cmd = "CAPA" => r = [user |-> u, users |-> t, next |-> "AUTH",
                                  status |-> "ok"]
      /\ line.cmd = "STAT" => r = Refuse(NoName, t, "err")
    BY DEF process_cmd, UnknownCmd
<1> HIDE DEF r
<1>3. ASSUME r = Refuse(u, t, "err refused")
      PROVE  Says /\ Lets
    <2>1. /\ r.user = u /\ r.users = t /\ r.next = "AUTH"
          /\ generateMsg(line, r) = "err refused"
        BY <1>3 DEF Refuse, generateMsg
    <2>2. QED
        BY <2>1
<1>4. ASSUME line.cmd = "USER" PROVE Says /\ Lets
    <2>1. r = UserCmd(u, t, line.arg) /\ line.arg \in UserName
        BY <1>2, <1>4 DEF Line, UserName
    <2>2. ASSUME user_exists(t, line.arg),
                 user_get_state(t, line.arg) = USER_OFFLINE
          PROVE  Says /\ Lets
        <3> DEFINE freed == IF u # NoName
                            THEN user_set_state(t, u, USER_OFFLINE) ELSE t
                   t2 == user_set_state(freed, line.arg, USER_LOGGING)
        <3>1. r = [user |-> line.arg, users |-> t2, next |-> "AUTH",
                   status |-> "ok"]
            BY <2>1, <2>2 DEF UserCmd
        <3>2. /\ freed \in Tables
              /\ user_exists(freed, line.arg)
              /\ u # NoName => user_get_state(freed, u) = USER_OFFLINE
              /\ \A n : n # u => user_get_state(freed, n) = user_get_state(t, n)
            <4>1. CASE u # NoName
                BY <2>2, <4>1, SetGets DEF InState
            <4>2. CASE u = NoName
                BY <2>2, <4>2
            <4>3. QED
                BY <4>1, <4>2
        <3> HIDE DEF freed
        <3>3. /\ user_get_state(t2, line.arg) = USER_LOGGING
              /\ \A n : n # line.arg =>
                   user_get_state(t2, n) = user_get_state(freed, n)
            BY <2>1, <3>2, SetGets
        <3> HIDE DEF t2
        <3>4. Says
            BY <1>4, <3>1, <3>3 DEF generateMsg
        <3>5. Lets
            <4>1. u \notin {NoName, line.arg} =>
                    user_get_state(t2, u) = USER_OFFLINE
                BY <3>2, <3>3
            <4>2. user_get_state(t, NoName) = USER_LOGGING =>
                    user_get_state(t2, NoName) = USER_LOGGING
                <5>1. CASE line.arg = NoName
                    BY <3>3, <5>1
                <5>2. CASE line.arg # NoName /\ u # NoName
                    BY <3>2, <3>3, <5>2
                <5>3. CASE line.arg # NoName /\ u = NoName
                    BY <3>3, <5>3 DEF freed
                <5>4. QED
                    BY <5>1, <5>2, <5>3
            <4>3. QED
                BY <3>1, <4>1, <4>2
        <3>6. QED
            BY <3>4, <3>5
    <2>3. QED
        BY <1>3, <2>1, <2>2 DEF UserCmd
<1>5. ASSUME line.cmd = "PASS" PROVE Says /\ Lets
    <2>1. r = PassCmd(u, t, line.arg)
        BY <1>2, <1>5
    <2>2. CASE u = NoName
        BY <2>1, <2>2 DEF PassCmd, Refuse, generateMsg
    <2>3. ASSUME u # NoName, NEW s \in {USER_OFFLINE, USER_ONLINE},
                 r.users = user_set_state(t, u, s),
                 s = USER_ONLINE => r.user = u
          PROVE  Lets
        <3>1. /\ user_get_state(r.users, u) = s
              /\ \A n : n # u => user_get_state(r.users, n) = user_get_state(t, n)
            BY <2>3, SetGets DEF InState
        <3>2. QED
            BY <2>3, <3>1
    <2>4. CASE u # NoName /\ ~user_check_pass(t, u, line.arg)
        <3>1. r = Refuse(NoName, user_set_state(t, u, USER_OFFLINE), "err")
            BY <2>1, <2>4 DEF PassCmd
        <3>2. /\ r.user = NoName /\ r.status = "err" /\ r.next = "AUTH"
              /\ r.users = user_set_state(t, u, USER_OFFLINE)
            BY <3>1 DEF Refuse
        <3>3. Says
            BY <3>2 DEF generateMsg
        <3>4. Lets
            <4>1. USER_OFFLINE # USER_ONLINE
                BY DEF USER_OFFLINE, USER_ONLINE
            <4>2. QED
                BY <2>3, <2>4, <3>2, <4>1
        <3>5. QED
            BY <3>3, <3>4
    <2>5. CASE u # NoName /\ user_check_pass(t, u, line.arg)
        <3>1. r = [user |-> u, users |-> user_set_state(t, u, USER_ONLINE),
                   next |-> "TRANSACTION", status |-> "ok"]
            BY <2>1, <2>5 DEF PassCmd
        <3>2. user_get_state(r.users, r.user) = USER_ONLINE
            BY <2>5, <3>1, SetGets DEF InState
        <3>3. Says
            BY <3>1, <3>2 DEF generateMsg, USER_LOGGING, USER_ONLINE
        <3>4. r.user = u /\ r.users = user_set_state(t, u, USER_ONLINE)
            BY <3>1
        <3>5. Lets
            BY <2>3, <2>5, <3>4
        <3>6. QED
            BY <3>3, <3>5
    <2>6. QED
        BY <2>2, <2>4, <2>5
<1>6. ASSUME line.cmd \in {"QUIT", "CAPA"} PROVE Says /\ Lets
    <2>1. /\ r.user = u /\ r.users = t /\ r.status = "ok"
          /\ r.next \in {"AUTH", "DONE"}
        BY <1>2, <1>6
    <2>2. generateMsg(line, r) \in {"ok", "ok valid user"}
        BY <1>6, <2>1 DEF generateMsg
    <2>3. generateMsg(line, r) = "ok valid user" =>
            user_get_state(r.users, r.user) = USER_LOGGING
        BY <1>6, <2>1 DEF generateMsg
    <2>4. QED
        BY <2>1, <2>2, <2>3
<1>7. ASSUME line.cmd = "STAT" PROVE Says /\ Lets
    <2>1. r = Refuse(NoName, t, "err")
        BY <1>2, <1>7
    <2>2. r.user = NoName /\ r.users = t /\ r.status = "err" /\ r.next = "AUTH"
        BY <2>1 DEF Refuse
    <2>3. generateMsg(line, r) = "err"
        BY <2>2 DEF generateMsg
    <2>4. QED
        BY <2>2, <2>3
<1> HIDE DEF Says, Lets
<1>8. Says /\ Lets
    <2>1. line.cmd \in {"USER", "PASS", "CAPA", "QUIT", "STAT"}
        BY DEF Line
    <2>2. QED
        BY <1>4, <1>5, <1>6, <1>7, <2>1
<1>9. ASSUME NEW n \in Names \ {u, r.user}
      PROVE  user_get_state(r.users, n) = user_get_state(t, n)
    BY <1>1, SameState DEF GoodResult
<1>10. generateMsg(line, r) = "ok valid user" => r.next # "TRANSACTION"
    <2>1. SUFFICES ASSUME r.next = "TRANSACTION",
                          user_get_state(r.users, r.user) = USER_LOGGING
                   PROVE  FALSE
        BY <1>8 DEF Says
    <2>2. InState(r.users, r.user, USER_ONLINE)
        BY <1>1, <2>1 DEF GoodResult
    <2>3. user_get_state(r.users, r.user) = USER_ONLINE
        BY <2>2, StateOfMatches DEF InState
    <2>4. QED
        BY <2>1, <2>3 DEF USER_LOGGING, USER_ONLINE
<1>11. GoodReply(u, t, line, r)
    BY <1>1, <1>8, <1>9, <1>10 DEF Says, Lets, Handed, GoodReply, GoodResult
<1>12. QED
    BY <1>11 DEF r

\* What close_connection does after a callback that handed u over to v.
LEMMA CloseHands ==
    ASSUME NEW t \in Tables, NEW u \in UserName, NEW v \in UserName, NEW t2 \in Tables,
           Handed(u, t, v, t2), v # NoName => user_exists(t2, v),
           NEW t3,
           t3 = IF v # NoName THEN user_set_state(t2, v, USER_OFFLINE) ELSE t2
    PROVE  /\ Handed(u, t, NoName, t3)
           /\ u # NoName /\ v = u => user_get_state(t3, u) = USER_OFFLINE
<1>1. CASE v = NoName
    BY <1>1 DEF Handed
<1>2. CASE v # NoName
    <2>1. /\ user_get_state(t3, v) = USER_OFFLINE
          /\ \A n : n # v => user_get_state(t3, n) = user_get_state(t2, n)
        BY <1>2, SetGets
    <2>2. QED
        BY <1>2, <2>1 DEF Handed, UserName
<1>3. QED
    BY <1>1, <1>2

\* A callback that leaves the table, the connection's account and the stage of
\* its login alone, with a reply that claims no more than the last one.
LEMMA QuietEffect ==
    ASSUME TrueInv, NEW c \in Conns, NEW d, conn' = [conn EXCEPT ![c] = d],
           users' = users, d.user = conn[c].user, LoggedIn(d) <=> LoggedIn(conn[c]),
           \/ /\ d.reply = conn[c].reply
              /\ d.state = "AUTH" =>
                   conn[c].state \in {"GREETING_WRITE", "AUTH"}
              /\ d.state = "GREETING_WRITE" =>
                   conn[c].state = "GREETING_WRITE" \/ d.reply = "none"
           \/ d.reply \in {"ok", "err"} /\ d.state = "TRANSACTION"
    PROVE  Effect(c)
<1>1. conn'[c] = d /\ \A x \in Conns \ {c} : conn'[x] = conn[x]
    BY DEF TrueInv, Inv, TypeOK
<1>2. Truth(conn[c], users)
    BY DEF TrueInv
<1>3. Truth(d, users')
    BY <1>2 DEF Truth
<1>4. Handed(conn[c].user, users, d.user, users')
    BY DEF Handed
<1>5. WellHeld(conn[c], users)
    BY DEF TrueInv, Inv
<1>6. Sessions(conn[c], d) /\ SessionsEnd(conn[c], d, users')
    BY <1>5 DEF Sessions, SessionsEnd, WellHeld
<1>7. QED
    BY <1>1, <1>3, <1>4, <1>6 DEF Effect

\* A close, after a callback that handed the connection's account over.
LEMMA CloseEffect ==
    ASSUME TrueInv, NEW c \in Conns, NEW v \in UserName, NEW t2 \in Tables,
           Handed(conn[c].user, users, v, t2), v # NoName => user_exists(t2, v),
           LoggedIn(conn[c]) => v = conn[c].user,
           CloseWith(c, v, t2)
    PROVE  Effect(c)
<1>1. conn'[c] = Closed /\ \A x \in Conns \ {c} : conn'[x] = conn[x]
    BY DEF TrueInv, Inv, TypeOK, CloseWith
<1>2. users' = IF v # NoName THEN user_set_state(t2, v, USER_OFFLINE) ELSE t2
    BY DEF CloseWith
<1>3. conn[c].user \in UserName /\ users \in Tables
    BY DEF TrueInv, Inv, TypeOK, Client, UserName
<1>4. /\ Handed(conn[c].user, users, NoName, users')
      /\ conn[c].user # NoName /\ v = conn[c].user =>
           user_get_state(users', conn[c].user) = USER_OFFLINE
    BY <1>2, <1>3, CloseHands
<1>5. /\ Closed.user = NoName /\ Closed.reply = "none" /\ ~LoggedIn(Closed)
    BY DEF Closed, LoggedIn
<1>6. Truth(Closed, users')
    BY <1>5 DEF Truth
<1>7. Sessions(conn[c], Closed) /\ SessionsEnd(conn[c], Closed, users')
    BY <1>4, <1>5 DEF Sessions, SessionsEnd
<1>8. QED
    BY <1>1, <1>4, <1>5, <1>6, <1>7 DEF Effect

\* close_connection run by a callback that changed nothing before it.
LEMMA close_connectionEffect ==
    ASSUME TrueInv, NEW c \in Conns, close_connection(c)
    PROVE  Effect(c)
<1>1. conn[c].user \in UserName /\ users \in Tables
    BY DEF TrueInv, Inv, TypeOK, Client, UserName
<1>2. Handed(conn[c].user, users, conn[c].user, users)
    BY DEF Handed
<1>3. WellHeld(conn[c], users)
    BY DEF TrueInv, Inv
<1>4. conn[c].user # NoName => user_exists(users, conn[c].user)
    BY <1>3, HeldState
<1>5. QED
    BY <1>1, <1>2, <1>4, CloseEffect DEF close_connection

-----------------------------------------------------------------------------
(* The actions                                                             *)

\* A command of the AUTHORIZATION state, whatever send() makes of its reply.
LEMMA AuthCommandEffect ==
    ASSUME TrueInv, NEW c \in Conns, NEW line \in Line, NEW o,
           auth_command(c, line, o)
    PROVE  Effect(c)
<1> DEFINE r == process_cmd(conn[c].user, users, line)
           msg == generateMsg(line, r)
           d == Consumed(conn[c], r.user, msg)
<1>1. /\ conn[c] \in Client /\ conn \in [Conns -> Client] /\ users \in Tables
      /\ WellHeld(conn[c], users) /\ ~LoggedIn(conn[c])
      /\ conn[c].user \in UserName
    BY DEF TrueInv, Inv, TypeOK, auth_command, InAuth, ReadyToParse, Disciplined,
           Client, UserName, LoggedIn
<1>2. conn[c].user # NoName => InState(users, conn[c].user, USER_LOGGING)
    BY <1>1 DEF WellHeld
<1>3. GoodResult(conn[c].user, users, r)
    BY <1>1, <1>2, ProcessCmdGood
<1>4. GoodReply(conn[c].user, users, line, r)
    BY <1>1, <1>2, CommandHands
<1>5. \/ CloseWith(c, r.user, r.users)
      \/ /\ conn' = [conn EXCEPT ![c] =
              [d EXCEPT !.next = r.next, !.finished = FALSE, !.unsent = TRUE]]
         /\ users' = r.users
      \/ /\ r.next # "DONE"
         /\ conn' = [conn EXCEPT ![c] =
              [d EXCEPT !.next = "-1", !.state = r.next,
                        !.interest = InterestAfter(d)]]
         /\ users' = r.users
    BY DEF auth_command
<1>6. conn[c].state = "AUTH"
    BY DEF auth_command, InAuth
<1> HIDE DEF r, msg
<1>7. /\ d.user = r.user /\ d.reply = msg /\ d.state = "AUTH"
      /\ DOMAIN d = DOMAIN conn[c]
    BY <1>1, <1>6 DEF Consumed, Client
<1> HIDE DEF d
<1>8. r \in Result
    BY <1>3 DEF GoodResult
<1>9. CASE CloseWith(c, r.user, r.users)
    <2>1. r.user \in UserName /\ r.users \in Tables
        BY <1>8 DEF Result
    <2>2. r.user # NoName => user_exists(r.users, r.user)
        BY <1>3 DEF GoodResult, InState
    <2>3. QED
        BY <1>1, <1>4, <1>9, <2>1, <2>2, CloseEffect DEF GoodReply
<1>10. ASSUME NEW e, conn' = [conn EXCEPT ![c] = e], users' = r.users,
              e.user = r.user, e.reply = msg, e.state # "GREETING_WRITE",
              LoggedIn(e) <=> r.next = "TRANSACTION"
       PROVE  Effect(c)
    <2>1. conn'[c] = e /\ \A x \in Conns \ {c} : conn'[x] = conn[x]
        BY <1>1, <1>10
    <2>2. Handed(conn[c].user, users, e.user, users')
        BY <1>4, <1>10 DEF GoodReply
    <2>3. Truth(e, users')
        BY <1>4, <1>10 DEF Truth, GoodReply, msg
    <2>4. Sessions(conn[c], e) /\ SessionsEnd(conn[c], e, users')
        BY <1>1, <1>4, <1>10 DEF Sessions, SessionsEnd, GoodReply
    <2>5. QED
        BY <2>1, <2>2, <2>3, <2>4 DEF Effect
<1>11. ASSUME conn' = [conn EXCEPT ![c] =
                [d EXCEPT !.next = r.next, !.finished = FALSE, !.unsent = TRUE]],
              users' = r.users
       PROVE  Effect(c)
    <2> DEFINE e == [d EXCEPT !.next = r.next, !.finished = FALSE,
                              !.unsent = TRUE]
    <2>1. /\ e.user = r.user /\ e.reply = msg /\ e.state = "AUTH"
          /\ e.next = r.next
        BY <1>1, <1>7 DEF Client
    <2> HIDE DEF e
    <2>2. LoggedIn(e) <=> r.next = "TRANSACTION"
        BY <2>1 DEF LoggedIn
    <2>3. conn' = [conn EXCEPT ![c] = e]
        BY <1>11 DEF e
    <2>4. QED
        BY <1>10, <1>11, <2>1, <2>2, <2>3
<1>12. ASSUME r.next # "DONE",
              conn' = [conn EXCEPT ![c] =
                [d EXCEPT !.next = "-1", !.state = r.next,
                          !.interest = InterestAfter(d)]],
              users' = r.users
       PROVE  Effect(c)
    <2> DEFINE e == [d EXCEPT !.next = "-1", !.state = r.next,
                              !.interest = InterestAfter(d)]
    <2>1. /\ e.user = r.user /\ e.reply = msg /\ e.state = r.next
          /\ e.next = "-1"
        BY <1>1, <1>7 DEF Client
    <2> HIDE DEF e
    <2>2. LoggedIn(e) <=> r.next = "TRANSACTION"
        BY <1>8, <1>12, <2>1 DEF LoggedIn, Result
    <2>3. conn' = [conn EXCEPT ![c] = e]
        BY <1>12 DEF e
    <2>4. e.state # "GREETING_WRITE"
        BY <1>8, <2>1 DEF Result
    <2>5. QED
        BY <1>10, <1>12, <2>1, <2>2, <2>3, <2>4
<1>13. QED
    BY <1>5, <1>9, <1>11, <1>12

\* What a callback that only changes buffers, interest and flags comes to: the
\* connection keeps its account, the stage of its login and its last reply.
Calm(d, e) ==
    /\ e.user = d.user /\ e.reply = d.reply /\ e.next = d.next
    /\ \/ e.state = d.state
       \/ d.state = "GREETING_WRITE" /\ e.state = "AUTH"
       \/ d.state = "TRANSACTION" /\ e.state = "UPDATE"

\* Such a callback has the effect a quiet one has.
LEMMA CalmEffect ==
    ASSUME TrueInv, NEW c \in Conns, NEW d, conn' = [conn EXCEPT ![c] = d],
           users' = users, Calm(conn[c], d)
    PROVE  Effect(c)
<1>1. LoggedIn(d) <=> LoggedIn(conn[c])
    BY DEF Calm, LoggedIn
<1>2. d.state = "GREETING_WRITE" => conn[c].state = "GREETING_WRITE"
    BY DEF Calm
<1>3. d.state = "AUTH" => conn[c].state \in {"GREETING_WRITE", "AUTH"}
    BY DEF Calm
<1>4. QED
    BY <1>1, <1>2, <1>3, QuietEffect DEF Calm

\* A client that hangs up changes nothing the server knows.
LEMMA HangUpEffect ==
    ASSUME TrueInv, NEW c \in Conns, HangUp(c)
    PROVE  Effect(c)
<1> DEFINE d == [conn[c] EXCEPT !.gone = TRUE]
<1>1. conn[c] \in Client /\ conn \in [Conns -> Client]
    BY DEF TrueInv, Inv, TypeOK
<1>2. conn' = [conn EXCEPT ![c] = d] /\ users' = users
    BY DEF HangUp
<1>3. Calm(conn[c], d)
    BY <1>1 DEF Calm, Client
<1> HIDE DEF d
<1>4. QED
    BY <1>2, <1>3, CalmEffect

\* A new connection holds nothing and was told nothing.
LEMMA AcceptEffect ==
    ASSUME TrueInv, NEW c \in Conns, pop3AcceptPassive(c)
    PROVE  Effect(c)
<1>1. conn[c] = Closed
    BY DEF TrueInv, Inv, Disciplined, pop3AcceptPassive
<1>2. conn' = [conn EXCEPT ![c] = NewClient] /\ users' = users
    BY DEF pop3AcceptPassive
<1>3. /\ NewClient.user = conn[c].user /\ NewClient.reply = conn[c].reply
      /\ NewClient.state = "GREETING_WRITE" /\ NewClient.reply = "none"
      /\ LoggedIn(NewClient) <=> LoggedIn(conn[c])
    BY <1>1 DEF NewClient, Closed, LoggedIn
<1>4. QED
    BY <1>2, <1>3, QuietEffect

\* The greeting says nothing of accounts; if it fails the connection closes.
LEMMA GreetingEffect ==
    ASSUME TrueInv, NEW c \in Conns, NEW o, write_greeting(c, o)
    PROVE  Effect(c)
<1> DEFINE d == [conn[c] EXCEPT !.state = "AUTH", !.interest = {"READ"}]
<1>1. /\ conn[c] \in Client /\ conn \in [Conns -> Client]
      /\ conn[c].state = "GREETING_WRITE"
    BY DEF TrueInv, Inv, TypeOK, write_greeting
<1>2. CASE close_connection(c)
    BY <1>2, close_connectionEffect
<1>3. CASE conn' = [conn EXCEPT ![c] = d] /\ users' = users
    <2>1. Calm(conn[c], d)
        BY <1>1 DEF Calm, Client
    <2> HIDE DEF d
    <2>2. QED
        BY <1>3, <2>1, CalmEffect
<1>4. QED
    BY <1>1, <1>2, <1>3 DEF write_greeting

\* Reading fills the buffer, or closes the connection of a client that left.
LEMMA ReadEffect ==
    ASSUME TrueInv, NEW c \in Conns, auth_read(c)
    PROVE  Effect(c)
<1>1. conn[c] \in Client /\ conn \in [Conns -> Client]
    BY DEF TrueInv, Inv, TypeOK
<1>2. CASE close_connection(c)
    BY <1>2, close_connectionEffect
<1>3. ASSUME NEW n, NEW p,
             conn' = [conn EXCEPT ![c].lines = n, ![c].partial = p,
                                  ![c].interest = {"WRITE"}],
             users' = users
      PROVE  Effect(c)
    <2> DEFINE d == [conn[c] EXCEPT !.lines = n, !.partial = p,
                                    !.interest = {"WRITE"}]
    <2>1. conn' = [conn EXCEPT ![c] = d]
        BY <1>1, <1>3
    <2>2. Calm(conn[c], d)
        BY <1>1 DEF Calm, Client
    <2> HIDE DEF d
    <2>3. QED
        BY <1>3, <2>1, <2>2, CalmEffect
<1>4. CASE Receive(c)
    <2>1. CASE close_connection(c)
        BY <1>2, <2>1
    <2>2. CASE ~close_connection(c)
        <3>1. PICK ch \in Chunks :
             /\ conn' = [conn EXCEPT
                  ![c].lines    = conn[c].lines + ch.lines,
                  ![c].partial  = ch.partial \/ (ch.lines = 0 /\ conn[c].partial),
                  ![c].interest = {"WRITE"}]
             /\ users' = users
            BY <1>1, <1>4, <2>2 DEF Receive
        <3>2. QED
            BY <1>3, <3>1
    <2>3. QED
        BY <2>1, <2>2
<1>5. CASE ToWrite(c)
    <2> DEFINE d == [conn[c] EXCEPT !.interest = {"WRITE"}]
    <2>1. conn' = [conn EXCEPT ![c] = d] /\ users' = users
        BY <1>5 DEF ToWrite
    <2>2. Calm(conn[c], d)
        BY <1>1 DEF Calm, Client
    <2> HIDE DEF d
    <2>3. QED
        BY <2>1, <2>2, CalmEffect
<1>6. QED
    BY <1>2, <1>4, <1>5 DEF auth_read

\* Asking for the rest of a line.
LEMMA AwaitEffect ==
    ASSUME TrueInv, NEW c \in Conns, Await(c)
    PROVE  Effect(c)
<1> DEFINE d == [conn[c] EXCEPT !.partial = FALSE, !.interest = {"READ"}]
<1>1. conn[c] \in Client /\ conn \in [Conns -> Client]
    BY DEF TrueInv, Inv, TypeOK
<1>2. conn' = [conn EXCEPT ![c] = d] /\ users' = users
    BY DEF Await
<1>3. Calm(conn[c], d)
    BY <1>1 DEF Calm, Client
<1> HIDE DEF d
<1>4. QED
    BY <1>2, <1>3, CalmEffect

\* Giving up on an argument that is too long.
LEMMA SaveArgEffect ==
    ASSUME TrueInv, NEW c \in Conns, save_arg(c)
    PROVE  Effect(c)
<1> DEFINE d == [conn[c] EXCEPT !.stuck = TRUE, !.interest = {"READ"}]
<1>1. conn[c] \in Client /\ conn \in [Conns -> Client]
    BY DEF TrueInv, Inv, TypeOK
<1>2. conn' = [conn EXCEPT ![c] = d] /\ users' = users
    BY DEF save_arg
<1>3. Calm(conn[c], d)
    BY <1>1 DEF Calm, Client
<1> HIDE DEF d
<1>4. QED
    BY <1>2, <1>3, CalmEffect

\* The two branches that flip send.finished.
LEMMA LeftoverEffect ==
    ASSUME TrueInv, NEW c \in Conns, auth_resume(c) \/ auth_leftover(c)
    PROVE  Effect(c)
<1>1. conn[c] \in Client /\ Disciplined(conn[c]) /\ conn \in [Conns -> Client]
    BY DEF TrueInv, Inv, TypeOK
<1>2. conn[c].unsent
    BY <1>1 DEF Disciplined, auth_resume, auth_leftover
<1>3. PICK b \in BOOLEAN : /\ conn' = [conn EXCEPT ![c].finished = b]
                           /\ users' = users
    BY <1>2 DEF auth_resume, auth_leftover
<1> DEFINE d == [conn[c] EXCEPT !.finished = b]
<1>4. conn' = [conn EXCEPT ![c] = d]
    BY <1>3
<1>5. Calm(conn[c], d)
    BY <1>1 DEF Calm, Client
<1> HIDE DEF d
<1>6. QED
    BY <1>3, <1>4, <1>5, CalmEffect

\* A command of a session answers about the maildrop, not about the account.
LEMMA TransCommandEffect ==
    ASSUME TrueInv, NEW c \in Conns, NEW line \in Line, NEW o,
           trans_command(c, line, o)
    PROVE  Effect(c)
<1> DEFINE d == Consumed(conn[c], conn[c].user, TransReply(line))
           e == [d EXCEPT !.interest = InterestAfter(d)]
<1>1. /\ conn[c] \in Client /\ conn \in [Conns -> Client]
      /\ conn[c].state = "TRANSACTION"
    BY DEF TrueInv, Inv, TypeOK, trans_command, InTransaction
<1>2. CASE close_connection(c)
    BY <1>2, close_connectionEffect
<1>3. CASE ~close_connection(c)
    <2>1. conn' = [conn EXCEPT ![c] = e] /\ users' = users
        BY <1>3 DEF trans_command
    <2>2. TransReply(line) \in {"ok", "err"}
        BY DEF TransReply
    <2>3. /\ d.user = conn[c].user /\ d.reply = TransReply(line)
          /\ d.state = "TRANSACTION" /\ DOMAIN d = DOMAIN conn[c]
        BY <1>1 DEF Consumed, Client
    <2> HIDE DEF d
    <2>4. /\ e.user = conn[c].user /\ e.reply \in {"ok", "err"}
          /\ e.state = "TRANSACTION"
        BY <1>1, <2>2, <2>3 DEF Client
    <2> HIDE DEF e
    <2>5. LoggedIn(e) <=> LoggedIn(conn[c])
        BY <1>1, <2>4 DEF LoggedIn
    <2>6. QED
        BY <2>1, <2>4, <2>5, QuietEffect
<1>4. QED
    BY <1>2, <1>3

\* QUIT keeps the session, and its account, until UPDATE closes.
LEMMA TransQuitEffect ==
    ASSUME TrueInv, NEW c \in Conns, trans_quit(c)
    PROVE  Effect(c)
<1> DEFINE d == [conn[c] EXCEPT !.state = "UPDATE", !.interest = {"WRITE"},
                                !.lines = conn[c].lines - 1]
<1>1. /\ conn[c] \in Client /\ conn \in [Conns -> Client]
      /\ conn[c].state = "TRANSACTION"
    BY DEF TrueInv, Inv, TypeOK, trans_quit, InTransaction
<1>2. conn' = [conn EXCEPT ![c] = d] /\ users' = users
    BY <1>1 DEF trans_quit
<1>3. Calm(conn[c], d)
    BY <1>1 DEF Calm, Client
<1> HIDE DEF d
<1>4. QED
    BY <1>2, <1>3, CalmEffect

\* Whatever a connection does has its effect.
LEMMA StepEffect ==
    ASSUME TrueInv, NEW c \in Conns,
           \/ pop3AcceptPassive(c)
           \/ HangUp(c)
           \/ pop3_handle_read(c)
           \/ pop3_handle_write(c)
    PROVE  Effect(c)
<1>1. CASE pop3_handle_read(c)
    BY <1>1, ReadEffect DEF pop3_handle_read
<1>2. CASE pop3_handle_write(c)
    <2>1. CASE auth_incomplete(c) \/ trans_incomplete(c)
        BY <2>1, AwaitEffect DEF auth_incomplete, trans_incomplete
    <2>2. CASE update_process(c)
        BY <2>2, close_connectionEffect DEF update_process
    <2>3. QED
        BY <1>2, <2>1, <2>2, GreetingEffect, LeftoverEffect, SaveArgEffect,
           AuthCommandEffect, TransCommandEffect, TransQuitEffect
        DEF pop3_handle_write
<1>3. QED
    BY <1>1, <1>2, AcceptEffect, HangUpEffect

\* Every step is one connection's.
LEMMA NextEffect == TrueInv /\ Next => \E c \in Conns : Effect(c)
BY StepEffect DEF Next

-----------------------------------------------------------------------------
(* Replies and holders                                                     *)

\* At start-up nobody was told anything.
LEMMA InitTrue == Init => TrueInv
<1>1. Init => \A c \in Conns : conn[c] = Closed
    BY DEF Init
<1>2. Truth(Closed, users)
    BY DEF Truth, Closed
<1>3. QED
    BY <1>1, <1>2, InitInv DEF TrueInv

\* The replies of the others stay true: the state of the empty name, the only
\* one they may speak of without holding it, is never left again.
LEMMA NextKeepsTrue == TrueInv /\ [Next]_vars => TrueInv'
<1> SUFFICES ASSUME TrueInv, [Next]_vars PROVE TrueInv'
    OBVIOUS
<1>1. Inv'
    BY NextKeepsInv DEF TrueInv
<1>2. CASE Next
    <2>1. PICK c \in Conns : Effect(c)
        BY <1>2, NextEffect
    <2>2. ASSUME NEW x \in Conns PROVE Truth(conn'[x], users')
        <3>1. CASE x = c
            BY <2>1, <3>1 DEF Effect
        <3>2. CASE x # c
            <4>1. conn'[x] = conn[x] /\ Truth(conn[x], users)
                BY <2>1, <3>2 DEF Effect, TrueInv
            <4>2. user_get_state(users, NoName) = USER_LOGGING =>
                    user_get_state(users', NoName) = USER_LOGGING
                BY <2>1 DEF Effect, Handed
            <4>3. QED
                BY <4>1, <4>2 DEF Truth
        <3>3. QED
            BY <3>1, <3>2
    <2>3. QED
        BY <1>1, <2>2 DEF TrueInv
<1>3. CASE UNCHANGED vars
    BY <1>1, <1>3 DEF TrueInv, vars
<1>4. QED
    BY <1>2, <1>3

\* The strengthened invariant holds in every reachable state.
LEMMA TrueInvariance == Spec => []TrueInv
BY InitTrue, NextKeepsTrue, PTL DEF Spec

\* What a client was last told about its account is what the table says.
THEOREM RepliesTrue == Spec => []ReplyTellsTheTruth
<1>1. TrueInv => ReplyTellsTheTruth
    <2> SUFFICES ASSUME TrueInv, NEW c \in Conns
                 PROVE
                   /\ conn[c].reply = "ok logged in" =>
                        /\ conn[c].user # NoName
                        /\ user_get_state(users, conn[c].user) = USER_ONLINE
                   /\ conn[c].reply = "ok valid user" =>
                        user_get_state(users, conn[c].user) = USER_LOGGING
                   /\ conn[c].state = "AUTH" /\ conn[c].reply = "err" =>
                        conn[c].user = NoName
        BY DEF ReplyTellsTheTruth
    <2>1. Truth(conn[c], users) /\ WellHeld(conn[c], users)
        BY DEF TrueInv, Inv
    <2>2. LoggedIn(conn[c]) => conn[c].user # NoName
        BY <2>1 DEF WellHeld
    <2>3. conn[c].user # NoName =>
            /\ LoggedIn(conn[c]) => user_get_state(users, conn[c].user) = USER_ONLINE
            /\ ~LoggedIn(conn[c]) => user_get_state(users, conn[c].user) = USER_LOGGING
        BY <2>1, HeldState
    <2>4. QED
        BY <2>1, <2>2, <2>3 DEF Truth
<1>2. QED
    BY <1>1, TrueInvariance, PTL

\* The account of a connection that does not move keeps its state: it is not
\* the account the moving connection had, nor the one it takes.
LEMMA OthersKeepTheirs ==
    ASSUME TrueInv, TrueInv', NEW c \in Conns, Effect(c), NEW d \in Conns,
           conn'[d] = conn[d], conn[d].user # NoName
    PROVE  user_get_state(users', conn[d].user) = user_get_state(users, conn[d].user)
<1>1. CASE d = c
    <2>1. WellHeld(conn[d], users) /\ WellHeld(conn[d], users')
        BY DEF TrueInv, Inv
    <2>2. CASE LoggedIn(conn[d])
        BY <2>1, <2>2, HeldState
    <2>3. CASE ~LoggedIn(conn[d])
        BY <2>1, <2>3, HeldState
    <2>4. QED
        BY <2>2, <2>3
<1>2. CASE d # c
    <2>1. conn[d].user # conn[c].user
        BY <1>2 DEF TrueInv, Inv, MaildropExclusive
    <2>2. conn[d].user # conn'[c].user
        BY <1>2 DEF TrueInv, Inv, MaildropExclusive
    <2>3. conn[d].user \in Names
        BY DEF TrueInv, Inv, TypeOK, Client
    <2>4. QED
        BY <2>1, <2>2, <2>3 DEF Effect, Handed
<1>3. QED
    BY <1>1, <1>2

\* Whatever one connection does, the accounts of the others keep their state.
THEOREM HoldersUndisturbed == Spec => HoldUndisturbed
<1> DEFINE A == \A d \in Conns :
         conn'[d] = conn[d] /\ conn[d].user # NoName =>
           user_get_state(users', conn[d].user)
             = user_get_state(users, conn[d].user)
<1>1. TrueInv /\ TrueInv' /\ [Next]_vars => [A]_vars
    <2> SUFFICES ASSUME TrueInv, TrueInv', Next PROVE A
        OBVIOUS
    <2>1. PICK c \in Conns : Effect(c)
        BY NextEffect
    <2>2. QED
        BY <2>1, OthersKeepTheirs
<1>2. HoldUndisturbed <=> [][A]_vars
    BY DEF HoldUndisturbed
<1> HIDE DEF A
<1>3. QED
    BY <1>1, <1>2, TrueInvariance, PTL DEF Spec

-----------------------------------------------------------------------------
(* The accounts are locks                                                  *)

\* Holder and the set of sessions, of given connections cn and table t.
HolderIn(cn, t, u) ==
    IF \E c \in Conns : cn[c].user = u
    THEN CHOOSE c \in Conns : cn[c].user = u
    ELSE IF user_get_state(t, u) \in {USER_LOGGING, USER_ONLINE}
    THEN "forgotten" ELSE "free"

Owners(cn, t)   == [u \in Names |-> HolderIn(cn, t, u)]
InSession(t)    == {u \in Names : user_get_state(t, u) = USER_ONLINE}

\* What the lock sees of connections cn and a table t that satisfy Inv.
Locks(cn, t) ==
    /\ \A c \in Conns : cn[c].user \in UserName
    /\ \A c, d \in Conns :
         cn[c].user # NoName /\ cn[c].user = cn[d].user => c = d
    /\ \A c \in Conns : WellHeld(cn[c], t)

\* The invariant gives what the lock needs to know.
LEMMA InvLocks ==
    /\ TrueInv => Locks(conn, users)
    /\ TrueInv' => Locks(conn', users')
<1>1. TrueInv => Locks(conn, users)
    BY DEF TrueInv, Inv, TypeOK, Client, UserName, MaildropExclusive, Locks
<1>2. TrueInv' => Locks(conn', users')
    BY DEF TrueInv, Inv, TypeOK, Client, UserName, MaildropExclusive, Locks
<1>3. QED
    BY <1>1, <1>2

\* The holder of a name that is held, and of one that is not.
LEMMA HolderOfHeld ==
    ASSUME NEW cn, NEW t, Locks(cn, t), NEW c \in Conns, cn[c].user \in Names
    PROVE  HolderIn(cn, t, cn[c].user) = c
<1>1. \A d \in Conns : cn[d].user = cn[c].user => d = c
    BY NoNameAssumption DEF Locks
<1>2. QED
    BY <1>1 DEF HolderIn

\* A name nobody holds is free when its state is OFFLINE, else forgotten.
LEMMA HolderOfUnheld ==
    ASSUME NEW cn, NEW t, NEW u, \A c \in Conns : cn[c].user # u
    PROVE  /\ user_get_state(t, u) = USER_OFFLINE => HolderIn(cn, t, u) = "free"
           /\ user_get_state(t, u) = USER_LOGGING =>
                HolderIn(cn, t, u) = "forgotten"
           /\ HolderIn(cn, t, u) \in {"free", "forgotten"}
BY DEF HolderIn, USER_OFFLINE, USER_LOGGING, USER_ONLINE

\* A connection is in the lock as a holder of its account only.
LEMMA HolderHolds ==
    ASSUME NEW cn, NEW t, Locks(cn, t), NEW c \in Conns, NEW u \in Names,
           HolderIn(cn, t, u) = c
    PROVE  cn[c].user = u
<1>1. CASE \E d \in Conns : cn[d].user = u
    <2>1. PICK d \in Conns : cn[d].user = u
        BY <1>1
    <2>2. HolderIn(cn, t, u) = d
        BY <2>1, HolderOfHeld
    <2>3. QED
        BY <2>1, <2>2
<1>2. CASE \A d \in Conns : cn[d].user # u
    BY <1>2, HolderOfUnheld, OwnersAssumption
<1>3. QED
    BY <1>1, <1>2

\* A name that the moving connection neither had nor takes looks the same.
LEMMA HolderOfOthers ==
    ASSUME NEW cn, NEW t, NEW cn2, NEW t2, NEW c \in Conns,
           \A x \in Conns \ {c} : cn2[x] = cn[x], Locks(cn, t), Locks(cn2, t2),
           NEW n \in Names \ {cn[c].user, cn2[c].user},
           user_get_state(t2, n) = user_get_state(t, n)
    PROVE  HolderIn(cn2, t2, n) = HolderIn(cn, t, n)
<1>1. CASE \E d \in Conns : cn[d].user = n
    <2>1. PICK d \in Conns : cn[d].user = n
        BY <1>1
    <2>2. cn2[d] = cn[d]
        BY <2>1
    <2>3. HolderIn(cn, t, n) = d /\ HolderIn(cn2, t2, n) = d
        BY <2>1, <2>2, HolderOfHeld
    <2>4. QED
        BY <2>3
<1>2. CASE \A d \in Conns : cn[d].user # n
    <2>1. \A d \in Conns : cn2[d].user # n
        BY <1>2
    <2>2. QED
        BY <1>2, <2>1 DEF HolderIn
<1>3. QED
    BY <1>1, <1>2

\* A connection that keeps its account confirms it or leaves the lock alone.
LEMMA KeepsRefines ==
    ASSUME TrueInv, TrueInv', NEW c \in Conns, Effect(c),
           conn'[c].user = conn[c].user
    PROVE  Lock!Next \/ UNCHANGED Lock!lockVars
<1> DEFINE u == conn[c].user
           o == Owners(conn, users)      o2 == Owners(conn', users')
           s == InSession(users)         s2 == InSession(users')
<1>1. Locks(conn, users) /\ Locks(conn', users')
    BY InvLocks
<1>2. \A n \in Names \ {u} :
         /\ HolderIn(conn', users', n) = HolderIn(conn, users, n)
         /\ user_get_state(users', n) = user_get_state(users, n)
    BY <1>1, HolderOfOthers DEF Effect, Handed
<1>3. u \in Names => HolderIn(conn, users, u) = c /\ HolderIn(conn', users', u) = c
    BY <1>1, HolderOfHeld
<1>4. o2 = o
    BY <1>2, <1>3 DEF Owners
<1>5. WellHeld(conn[c], users) /\ WellHeld(conn'[c], users')
    BY <1>1 DEF Locks
<1>6. u \in Names =>
        /\ u \in s <=> LoggedIn(conn[c])
        /\ u \in s2 <=> LoggedIn(conn'[c])
    <2>1. u \in Names =>
            /\ LoggedIn(conn[c]) => user_get_state(users, u) = USER_ONLINE
            /\ ~LoggedIn(conn[c]) => user_get_state(users, u) = USER_LOGGING
        BY <1>5, HeldState, NoNameAssumption
    <2>2. u \in Names =>
            /\ LoggedIn(conn'[c]) => user_get_state(users', u) = USER_ONLINE
            /\ ~LoggedIn(conn'[c]) => user_get_state(users', u) = USER_LOGGING
        BY <1>5, HeldState, NoNameAssumption
    <2>3. QED
        BY <2>1, <2>2 DEF InSession, USER_LOGGING, USER_ONLINE
<1>7. u \in Names /\ u \in s => u \in s2
    BY <1>6, NoNameAssumption DEF Effect, Sessions
<1>8. \A n \in Names \ {u} : n \in s2 <=> n \in s
    BY <1>2 DEF InSession
<1>9. s \subseteq Names /\ s2 \subseteq Names
    BY DEF InSession
<1>10. o = [n \in Names |-> Holder(n)] /\ o2 = [n \in Names |-> Holder(n)']
    BY DEF Owners, HolderIn, Holder
<1>11. s = {n \in Names : user_get_state(users, n) = USER_ONLINE}
       /\ s2 = {n \in Names : user_get_state(users', n) = USER_ONLINE}
    BY DEF InSession
<1>12. CASE s2 = s
    BY <1>4, <1>10, <1>11, <1>12 DEF Lock!lockVars
<1>13. CASE s2 # s
    <2>1. u \in Names /\ u \notin s /\ s2 = s \union {u}
        BY <1>7, <1>8, <1>9, <1>13
    <2>2. o[u] = c
        BY <1>3, <2>1 DEF Owners
    <2> HIDE DEF o, o2, s, s2
    <2>3. Lock!Confirm(u)
        BY <1>4, <1>10, <1>11, <2>1, <2>2 DEF Lock!Confirm
    <2>4. QED
        BY <2>1, <2>3 DEF Lock!Next
<1>14. QED
    BY <1>12, <1>13

\* A connection that ends up with no account has released it or lost it.
LEMMA LetsGoRefines ==
    ASSUME TrueInv, TrueInv', NEW c \in Conns, Effect(c),
           conn[c].user # NoName, conn'[c].user = NoName
    PROVE  Lock!Next
<1> DEFINE u == conn[c].user
           o == Owners(conn, users)      o2 == Owners(conn', users')
           s == InSession(users)         s2 == InSession(users')
<1>1. Locks(conn, users) /\ Locks(conn', users') /\ u \in Names
    BY InvLocks DEF Locks, UserName
<1>2. \A n \in Names \ {u} :
         /\ HolderIn(conn', users', n) = HolderIn(conn, users, n)
         /\ user_get_state(users', n) = user_get_state(users, n)
    BY <1>1, HolderOfOthers, NoNameAssumption DEF Effect, Handed
<1>3. HolderIn(conn, users, u) = c
    BY <1>1, HolderOfHeld
<1>4. \A d \in Conns : conn'[d].user # u
    BY <1>1, NoNameAssumption DEF Effect, Locks
<1>5. /\ LoggedIn(conn[c]) => user_get_state(users', u) = USER_OFFLINE
      /\ user_get_state(users', u) \in {USER_OFFLINE, user_get_state(users, u)}
    BY <1>1 DEF Effect, SessionsEnd, Handed
<1>6. /\ LoggedIn(conn[c]) => user_get_state(users, u) = USER_ONLINE
      /\ ~LoggedIn(conn[c]) => user_get_state(users, u) = USER_LOGGING
    BY <1>1, HeldState DEF Locks
<1>7. o = [n \in Names |-> Holder(n)] /\ o2 = [n \in Names |-> Holder(n)']
    BY DEF Owners, HolderIn, Holder
<1>8. s = {n \in Names : user_get_state(users, n) = USER_ONLINE}
       /\ s2 = {n \in Names : user_get_state(users', n) = USER_ONLINE}
    BY DEF InSession
<1>9. /\ o[u] = c /\ o \in [Names -> {o[n] : n \in Names}] /\ DOMAIN o = Names
      /\ DOMAIN o2 = Names
      /\ \A n \in Names \ {u} : o2[n] = o[n] /\ (n \in s2 <=> n \in s)
      /\ o2[u] = HolderIn(conn', users', u)
      /\ s \subseteq Names /\ s2 \subseteq Names
    BY <1>1, <1>2, <1>3 DEF Owners, InSession
<1>10. u \notin s2
    BY <1>5, <1>6 DEF InSession, USER_OFFLINE, USER_LOGGING, USER_ONLINE
<1>11. CASE user_get_state(users', u) = USER_OFFLINE
    <2>1. o2[u] = "free"
        BY <1>4, <1>9, <1>11, HolderOfUnheld
    <2>2. o2 = [o EXCEPT ![u] = "free"]
        BY <1>1, <1>2, <2>1 DEF Owners
    <2> HIDE DEF o, o2, s, s2
    <2>3. s2 = s \ {u}
        BY <1>9, <1>10
    <2>4. Lock!Release(u)
        BY <1>7, <1>8, <1>9, <2>2, <2>3 DEF Lock!Release
    <2>5. QED
        BY <1>1, <2>4 DEF Lock!Next
<1>12. CASE user_get_state(users', u) # USER_OFFLINE
    <2>1. user_get_state(users', u) = USER_LOGGING
          /\ user_get_state(users, u) = USER_LOGGING
        BY <1>5, <1>6, <1>12
    <2>2. o2[u] = "forgotten"
        BY <1>4, <1>9, <2>1, HolderOfUnheld
    <2>3. u \notin s
        BY <2>1 DEF InSession, USER_LOGGING, USER_ONLINE
    <2>4. o2 = [o EXCEPT ![u] = "forgotten"]
        BY <1>1, <1>2, <2>2 DEF Owners
    <2> HIDE DEF o, o2, s, s2
    <2>5. s2 = s
        BY <1>9, <1>10, <2>3
    <2>6. Lock!Forget(u)
        BY <1>7, <1>8, <1>9, <2>3, <2>4, <2>5 DEF Lock!Forget
    <2>7. QED
        BY <1>1, <2>6 DEF Lock!Next
<1>13. QED
    BY <1>11, <1>12

\* A connection that takes an account claims it: it was free, and what the
\* connection had claimed before is free again.
LEMMA TakesRefines ==
    ASSUME TrueInv, TrueInv', NEW c \in Conns, Effect(c),
           conn'[c].user \notin {NoName, conn[c].user}
    PROVE  Lock!Next
<1> DEFINE u == conn[c].user
           v == conn'[c].user
           o == Owners(conn, users)      o2 == Owners(conn', users')
           s == InSession(users)         s2 == InSession(users')
<1>1. /\ Locks(conn, users) /\ Locks(conn', users') /\ v \in Names
      /\ u \in Names \/ u = NoName
    BY InvLocks DEF Locks, UserName
<1>2. \A n \in Names \ {u, v} :
         /\ HolderIn(conn', users', n) = HolderIn(conn, users, n)
         /\ user_get_state(users', n) = user_get_state(users, n)
    BY <1>1, HolderOfOthers DEF Effect, Handed
<1>3. u # NoName => ~LoggedIn(conn[c])
    BY DEF Effect, Sessions
<1>4. ~LoggedIn(conn'[c])
    BY DEF Effect, Sessions
<1>5. user_get_state(users, v) = USER_OFFLINE
    BY DEF Effect, Handed
<1>6. user_get_state(users', v) = USER_LOGGING
    BY <1>1, <1>4, HeldState DEF Locks
<1>7. u # NoName => /\ user_get_state(users, u) = USER_LOGGING
                    /\ user_get_state(users', u) = USER_OFFLINE
    <2>1. u # NoName => user_get_state(users, u) = USER_LOGGING
        BY <1>1, <1>3, HeldState DEF Locks
    <2>2. u # NoName => user_get_state(users', u) = USER_OFFLINE
        BY DEF Effect, Handed
    <2>3. QED
        BY <2>1, <2>2
<1>8. \A d \in Conns : conn[d].user # v
    <2>1. SUFFICES ASSUME NEW d \in Conns, conn[d].user = v PROVE FALSE
        OBVIOUS
    <2>2. WellHeld(conn[d], users) /\ conn[d].user # NoName
        BY <1>1, <2>1, NoNameAssumption DEF Locks
    <2>3. user_get_state(users, v) \in {USER_LOGGING, USER_ONLINE}
        BY <2>1, <2>2, HeldState
    <2>4. QED
        BY <1>5, <2>3 DEF USER_OFFLINE, USER_LOGGING, USER_ONLINE
<1>9. HolderIn(conn, users, v) = "free"
    BY <1>5, <1>8, HolderOfUnheld
<1>10. HolderIn(conn', users', v) = c
    BY <1>1, HolderOfHeld
<1>11. u # NoName => /\ HolderIn(conn, users, u) = c
                     /\ HolderIn(conn', users', u) = "free"
    <2>1. u # NoName => \A d \in Conns : conn'[d].user # u
        BY <1>1 DEF Effect, Locks
    <2>2. u # NoName => HolderIn(conn', users', u) = "free"
        BY <1>7, <2>1, HolderOfUnheld
    <2>3. QED
        BY <1>1, <2>2, HolderOfHeld
<1>12. o = [n \in Names |-> Holder(n)] /\ o2 = [n \in Names |-> Holder(n)']
    BY DEF Owners, HolderIn, Holder
<1>13. s = {n \in Names : user_get_state(users, n) = USER_ONLINE}
       /\ s2 = {n \in Names : user_get_state(users', n) = USER_ONLINE}
    BY DEF InSession
<1>14. s2 = s
    <2>1. ASSUME NEW n \in Names
          PROVE  user_get_state(users', n) = USER_ONLINE
                   <=> user_get_state(users, n) = USER_ONLINE
        <3>1. CASE n = v
            BY <1>5, <1>6, <3>1 DEF USER_OFFLINE, USER_LOGGING, USER_ONLINE
        <3>2. CASE n = u
            BY <1>7, <3>2, NoNameAssumption
            DEF USER_OFFLINE, USER_LOGGING, USER_ONLINE
        <3>3. CASE n \notin {u, v}
            BY <1>2, <3>3
        <3>4. QED
            BY <3>1, <3>2, <3>3
    <2>2. QED
        BY <2>1 DEF InSession
<1>15. \A n \in Names : HolderIn(conn, users, n) = c => n = u
    BY <1>1, HolderHolds
<1>16. \A n \in s : o[n] # c
    <2>1. u \notin s
        BY <1>1, <1>7, NoNameAssumption DEF InSession, USER_LOGGING, USER_ONLINE
    <2>2. QED
        BY <1>15, <2>1 DEF InSession, Owners
<1>17. /\ o[v] = "free" /\ DOMAIN o = Names /\ DOMAIN o2 = Names
       /\ o2 = [[n \in Names |-> IF o[n] = c THEN "free" ELSE o[n]]
                  EXCEPT ![v] = c]
    <2>1. o[v] = "free" /\ DOMAIN o = Names /\ DOMAIN o2 = Names
        BY <1>1, <1>9 DEF Owners
    <2>2. ASSUME NEW n \in Names
          PROVE  o2[n] = IF n = v THEN c ELSE IF o[n] = c THEN "free" ELSE o[n]
        <3>1. CASE n = v
            BY <1>10, <3>1 DEF Owners
        <3>2. CASE n # v /\ n = u
            BY <1>1, <1>11, <3>2, NoNameAssumption DEF Owners
        <3>3. CASE n # v /\ n # u
            BY <1>2, <1>15, <3>3 DEF Owners
        <3>4. QED
            BY <3>1, <3>2, <3>3
    <2>3. QED
        BY <1>1, <2>1, <2>2 DEF Owners
<1> HIDE DEF o, o2, s, s2, v
<1>18. Lock!Claim(c, v)
    BY <1>12, <1>13, <1>14, <1>16, <1>17 DEF Lock!Claim, Lock!Without
<1>19. QED
    BY <1>1, <1>18 DEF Lock!Next

\* At start-up every account is free.
LEMMA InitRefines == Init => Lock!Init
<1> SUFFICES ASSUME Init PROVE Lock!Init
    OBVIOUS
<1>1. \A u : user_get_state(users, u) \in {USER_OFFLINE, USER_NOT_FOUND}
    <2>1. \A i \in Slots : users[i].state = USER_OFFLINE
        BY AccountsAssumption DEF Init, TableOf, FreeSlot
    <2>2. \A u : user_exists(users, u) => FirstMatch(users, u) \in Slots
        BY FirstMatchIsMatch DEF Matches
    <2>3. QED
        BY <2>1, <2>2 DEF user_get_state
<1>2. \A c \in Conns : \A u \in Names : conn[c].user # u
    BY NoNameAssumption DEF Init, Closed
<1>3. \A u \in Names : Holder(u) = "free"
    BY <1>1, <1>2 DEF Holder, USER_OFFLINE, USER_LOGGING, USER_ONLINE,
                      USER_NOT_FOUND
<1>4. {u \in Names : user_get_state(users, u) = USER_ONLINE} = {}
    BY <1>1 DEF USER_OFFLINE, USER_ONLINE, USER_NOT_FOUND
<1>5. QED
    BY <1>3, <1>4 DEF Lock!Init

\* Every step of a connection is a step of the locks, or none.
LEMMA NextRefines ==
    TrueInv /\ TrueInv' /\ [Next]_vars => [Lock!Next]_(Lock!lockVars)
<1> SUFFICES ASSUME TrueInv, TrueInv', [Next]_vars
             PROVE  Lock!Next \/ UNCHANGED Lock!lockVars
    OBVIOUS
<1>1. CASE Next
    <2>1. PICK c \in Conns : Effect(c)
        BY <1>1, NextEffect
    <2>2. QED
        BY <2>1, KeepsRefines, LetsGoRefines, TakesRefines
<1>2. CASE UNCHANGED vars
    BY <1>2 DEF vars, Lock!lockVars, Holder
<1>3. QED
    BY <1>1, <1>2

\* For any number of connections and accounts, what the server does to the
\* accounts is claiming a free one, confirming, releasing or forgetting one's
\* own: no account passes from one connection to another.
THEOREM AccountsAreLocks == Spec => ImplementsMaildropLock
<1>1. QED
    BY InitRefines, NextRefines, TrueInvariance, PTL
    DEF Spec, ImplementsMaildropLock, Lock!Spec

-----------------------------------------------------------------------------
(* Accounts that are forgotten                                             *)

\* auth.c meets a command it does not know on a connection that has an account.
UnknownAfterUser(c) ==
    /\ conn[c].user # NoName
    /\ \E line \in Line, o \in SendOutcomes :
          line.cmd = "STAT" /\ auth_command(c, line, o)

\* A connection that lets go of its account gives it back.
GivesBack(c) ==
    conn[c].user # NoName /\ conn'[c].user # conn[c].user =>
        user_get_state(users', conn[c].user) = USER_OFFLINE

\* The commands auth.c knows free the account they let go of.
LEMMA CommandGivesBack ==
    ASSUME NEW u \in Names, u # NoName, NEW t \in Tables, InState(t, u, USER_LOGGING),
           NEW line \in Line, line.cmd # "STAT",
           process_cmd(u, t, line).user # u
    PROVE  user_get_state(process_cmd(u, t, line).users, u) = USER_OFFLINE
<1> DEFINE r == process_cmd(u, t, line)
           freed == user_set_state(t, u, USER_OFFLINE)
<1>1. /\ freed \in Tables
      /\ user_get_state(freed, u) = USER_OFFLINE
    BY SetGets DEF InState, UserName
<1>2. line.cmd \in {"USER", "PASS"}
    <2>1. line.cmd \in {"USER", "PASS", "CAPA", "QUIT"}
        BY DEF Line
    <2>2. line.cmd \in {"CAPA", "QUIT"} => r.user = u
        BY DEF process_cmd
    <2>3. QED
        BY <2>1, <2>2
<1>3. CASE line.cmd = "USER"
    <2>1. r = UserCmd(u, t, line.arg) /\ line.arg \in UserName
        BY <1>3 DEF process_cmd, Line, UserName
    <2>2. \/ r = Refuse(u, t, "err refused")
          \/ r = [user |-> line.arg,
                  users |-> user_set_state(freed, line.arg, USER_LOGGING),
                  next |-> "AUTH", status |-> "ok"]
        BY <2>1 DEF UserCmd
    <2>3. r.user # u
        OBVIOUS
    <2> HIDE DEF r, freed
    <2>4. /\ r.user = line.arg
          /\ r.users = user_set_state(freed, line.arg, USER_LOGGING)
        <3>1. CASE r = Refuse(u, t, "err refused")
            <4>1. r.user = u
                BY <3>1 DEF Refuse
            <4>2. QED
                BY <2>3, <4>1
        <3>2. CASE r = [user |-> line.arg,
                        users |-> user_set_state(freed, line.arg, USER_LOGGING),
                        next |-> "AUTH", status |-> "ok"]
            <4>1. r.user = line.arg
                BY <3>2
            <4>2. r.users = user_set_state(freed, line.arg, USER_LOGGING)
                BY <3>2
            <4>3. QED
                BY <4>1, <4>2
        <3>3. QED
            BY <2>2, <3>1, <3>2
    <2>5. user_get_state(r.users, u) = USER_OFFLINE
        BY <1>1, <2>1, <2>3, <2>4, SetGets
    <2>6. QED
        BY <2>5 DEF r
<1>4. CASE line.cmd = "PASS"
    <2>1. r = PassCmd(u, t, line.arg)
        BY <1>4 DEF process_cmd
    <2>2. r.users = freed
        BY <2>1 DEF PassCmd, Refuse
    <2>3. QED
        BY <1>1, <2>2
<1>5. QED
    BY <1>2, <1>3, <1>4

\* A close frees the account the callback left, and leaves the one it freed.
LEMMA CloseGivesBack ==
    ASSUME TrueInv, NEW c \in Conns, NEW v \in UserName, NEW t2 \in Tables,
           v # NoName => user_exists(t2, v),
           v # conn[c].user => user_get_state(t2, conn[c].user) = USER_OFFLINE,
           CloseWith(c, v, t2)
    PROVE  GivesBack(c)
<1>1. users' = IF v # NoName THEN user_set_state(t2, v, USER_OFFLINE) ELSE t2
    BY DEF CloseWith
<1>2. CASE v = NoName
    BY <1>1, <1>2 DEF GivesBack
<1>3. CASE v # NoName
    <2>1. /\ user_get_state(users', v) = USER_OFFLINE
          /\ \A n : n # v => user_get_state(users', n) = user_get_state(t2, n)
        BY <1>1, <1>3, SetGets
    <2>2. QED
        BY <2>1 DEF GivesBack
<1>4. QED
    BY <1>2, <1>3

\* close_connection run by a callback that changed nothing before it.
LEMMA close_connectionGivesBack ==
    ASSUME TrueInv, NEW c \in Conns, close_connection(c)
    PROVE  GivesBack(c)
<1>1. conn[c].user \in UserName /\ users \in Tables /\ WellHeld(conn[c], users)
    BY DEF TrueInv, Inv, TypeOK, Client, UserName
<1>2. conn[c].user # NoName => user_exists(users, conn[c].user)
    BY <1>1, HeldState
<1>3. QED
    BY <1>1, <1>2, CloseGivesBack DEF close_connection

\* A command auth.c knows, whatever becomes of its reply.
LEMMA AuthCommandGivesBack ==
    ASSUME TrueInv, NEW c \in Conns, NEW line \in Line, line.cmd # "STAT", NEW o,
           auth_command(c, line, o)
    PROVE  GivesBack(c)
<1> DEFINE u == conn[c].user
           r == process_cmd(u, users, line)
           d == Consumed(conn[c], r.user, generateMsg(line, r))
<1>1. SUFFICES ASSUME u # NoName
               PROVE  GivesBack(c)
    BY DEF GivesBack
<1>2. /\ conn[c] \in Client /\ conn \in [Conns -> Client] /\ users \in Tables
      /\ WellHeld(conn[c], users) /\ ~LoggedIn(conn[c]) /\ u \in Names
    BY <1>1 DEF TrueInv, Inv, TypeOK, auth_command, InAuth, ReadyToParse, Disciplined,
                Client, LoggedIn
<1>3. InState(users, u, USER_LOGGING)
    BY <1>1, <1>2 DEF WellHeld
<1>4. r.user # u => user_get_state(r.users, u) = USER_OFFLINE
    BY <1>1, <1>2, <1>3, CommandGivesBack
<1>5. GoodResult(u, users, r)
    BY <1>2, <1>3, ProcessCmdGood DEF UserName
<1>6. \/ CloseWith(c, r.user, r.users)
      \/ /\ users' = r.users
         /\ \/ conn' = [conn EXCEPT ![c] =
                 [d EXCEPT !.next = r.next, !.finished = FALSE, !.unsent = TRUE]]
            \/ conn' = [conn EXCEPT ![c] =
                 [d EXCEPT !.next = "-1", !.state = r.next,
                           !.interest = InterestAfter(d)]]
    BY DEF auth_command
<1> HIDE DEF r
<1>7. d.user = r.user /\ "user" \in DOMAIN d
    BY <1>2 DEF Consumed, Client
<1> HIDE DEF d
<1>8. CASE CloseWith(c, r.user, r.users)
    <2>1. r.user \in UserName /\ r.users \in Tables
        BY <1>5 DEF GoodResult, Result
    <2>2. r.user # NoName => user_exists(r.users, r.user)
        BY <1>5 DEF GoodResult, InState
    <2>3. QED
        BY <1>4, <1>8, <2>1, <2>2, CloseGivesBack
<1>9. CASE ~CloseWith(c, r.user, r.users)
    <2>1. conn'[c].user = r.user /\ users' = r.users
        BY <1>2, <1>6, <1>7, <1>9
    <2>2. QED
        BY <1>4, <2>1 DEF GivesBack
<1>10. QED
    BY <1>8, <1>9

\* What a connection does gives its account back, keeps it, or forgets it over
\* a command it does not know.
LEMMA StepGivesBack ==
    ASSUME TrueInv, NEW c \in Conns,
           \/ pop3AcceptPassive(c)
           \/ HangUp(c)
           \/ pop3_handle_read(c)
           \/ pop3_handle_write(c)
    PROVE  GivesBack(c) \/ UnknownAfterUser(c)
<1>1. conn[c] \in Client /\ conn \in [Conns -> Client]
    BY DEF TrueInv, Inv, TypeOK
<1>2. CASE close_connection(c)
    BY <1>2, close_connectionGivesBack
<1>3. ASSUME NEW line \in Line, NEW o \in SendOutcomes, auth_command(c, line, o)
      PROVE  GivesBack(c) \/ UnknownAfterUser(c)
    BY <1>3, AuthCommandGivesBack DEF UnknownAfterUser, GivesBack
<1>4. CASE conn'[c].user = conn[c].user
    BY <1>4 DEF GivesBack
<1>5. CASE pop3AcceptPassive(c)
    <2>1. conn[c].user = NoName
        BY <1>5 DEF TrueInv, Inv, Disciplined, pop3AcceptPassive, Closed
    <2>2. QED
        BY <2>1 DEF GivesBack
<1>6. CASE HangUp(c)
    BY <1>1, <1>4, <1>6 DEF HangUp, Client
<1>7. CASE pop3_handle_read(c)
    <2>1. CASE ToWrite(c)
        BY <1>1, <1>4, <2>1 DEF ToWrite, Client
    <2>2. CASE Receive(c)
        <3>1. ASSUME NEW ch \in Chunks,
                     conn' = [conn EXCEPT
                       ![c].lines    = @ + ch.lines,
                       ![c].partial  = ch.partial \/ (ch.lines = 0 /\ @),
                       ![c].interest = {"WRITE"}]
              PROVE  conn'[c].user = conn[c].user
            BY <1>1, <3>1 DEF Client
        <3>2. QED
            BY <1>2, <1>4, <2>2, <3>1 DEF Receive
    <2>3. QED
        BY <1>2, <1>7, <2>1, <2>2 DEF pop3_handle_read, auth_read
<1>8. CASE pop3_handle_write(c)
    <2>1. ASSUME NEW o, write_greeting(c, o)
          PROVE  GivesBack(c)
        BY <1>1, <1>2, <1>4, <2>1, close_connectionGivesBack
           DEF write_greeting, Client, GivesBack
    <2>2. CASE \/ auth_resume(c) \/ auth_leftover(c) \/ save_arg(c)
               \/ auth_incomplete(c) \/ trans_incomplete(c) \/ trans_quit(c)
        BY <1>1, <1>2, <1>4, <2>2
           DEF auth_resume, auth_leftover, save_arg, auth_incomplete,
               trans_incomplete, trans_quit, Await, Client
    <2>3. ASSUME NEW line \in Line, NEW o, trans_command(c, line, o)
          PROVE  GivesBack(c)
        <3>1. CASE close_connection(c)
            BY <3>1, close_connectionGivesBack
        <3>2. CASE ~close_connection(c)
            <4>1. conn'[c].user = conn[c].user
                BY <1>1, <2>3, <3>2 DEF trans_command, Consumed, Client
            <4>2. QED
                BY <4>1 DEF GivesBack
        <3>3. QED
            BY <3>1, <3>2
    <2>4. CASE update_process(c)
        BY <1>2, <2>4 DEF update_process
    <2>5. QED
        BY <1>3, <1>8, <2>1, <2>2, <2>3, <2>4 DEF pop3_handle_write
<1>9. QED
    BY <1>5, <1>6, <1>7, <1>8

\* If no connection that has an account is sent a command auth.c does not
\* know, no account is ever locked with nobody to hold it: USER, PASS, CAPA and
\* QUIT, every close and every failed send give back what was claimed.
THEOREM OnlyUnknownForgets ==
    Spec /\ [][~\E c \in Conns : UnknownAfterUser(c)]_vars => []NobodyLockedOut
<1> DEFINE Known == ~\E c \in Conns : UnknownAfterUser(c)
<1>1. Init => NobodyLockedOut
    <2> SUFFICES ASSUME Init
                 PROVE  NobodyLockedOut
        OBVIOUS
    <2>1. \A i \in Slots : users[i].state = USER_OFFLINE
        BY AccountsAssumption DEF Init, TableOf, FreeSlot
    <2>2. \A u : user_exists(users, u) => FirstMatch(users, u) \in Slots
        BY FirstMatchIsMatch DEF Matches
    <2>3. \A u : user_get_state(users, u) \in {USER_OFFLINE, USER_NOT_FOUND}
        BY <2>1, <2>2 DEF user_get_state
    <2>4. QED
        BY <2>3 DEF NobodyLockedOut, USER_OFFLINE, USER_LOGGING, USER_ONLINE,
                    USER_NOT_FOUND
<1>2. TrueInv /\ NobodyLockedOut /\ [Next]_vars /\ [Known]_vars => NobodyLockedOut'
    <2> SUFFICES ASSUME TrueInv, NobodyLockedOut, [Next]_vars, [Known]_vars
                 PROVE  NobodyLockedOut'
        OBVIOUS
    <2>1. CASE UNCHANGED vars
        BY <2>1 DEF vars, NobodyLockedOut
    <2>2. CASE Next /\ Known
        <3>1. PICK c \in Conns : Effect(c) /\ GivesBack(c)
            BY <2>2, StepEffect, StepGivesBack DEF Next
        <3>2. SUFFICES ASSUME NEW u \in Names,
                              user_get_state(users', u) \in {USER_LOGGING, USER_ONLINE},
                              \A x \in Conns : conn'[x].user # u
                       PROVE  FALSE
            BY DEF NobodyLockedOut
        <3>3. \A x \in Conns : conn[x].user # u
            <4>1. conn[c].user # u
                BY <3>1, <3>2, NoNameAssumption
                DEF GivesBack, USER_OFFLINE, USER_LOGGING, USER_ONLINE
            <4>2. QED
                BY <3>1, <3>2, <4>1 DEF Effect
        <3>4. user_get_state(users', u) = user_get_state(users, u)
            BY <3>1, <3>2, <3>3 DEF Effect, Handed
        <3>5. QED
            BY <3>2, <3>3, <3>4 DEF NobodyLockedOut
    <2>3. QED
        BY <2>1, <2>2
<1> HIDE DEF Known
<1>3. Spec /\ [][Known]_vars => []NobodyLockedOut
    BY <1>1, <1>2, TrueInvariance, PTL DEF Spec
<1>4. QED
    BY <1>3 DEF Known

=============================================================================
