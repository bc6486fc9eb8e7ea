-------------------------- MODULE MonitorRefinement --------------------------
(***************************************************************************)
(* The sessions of monitor.c keep what AdminSession promises: every step of *)
(* the server, of a shell and of a POP3 client is one of its steps or none. *)
(***************************************************************************)
EXTENDS MonitorProofs

phase    == [a \in Admins |-> Phase(a)]
admitted == {a \in Open : mon[a].logged}
accounts == {u \in Names : user_exists(users, u)}
inUse    == {u \in Names : user_get_state(users, u) \in {USER_LOGGING, USER_ONLINE}}

-----------------------------------------------------------------------------
(* Accounts                                                                *)

\* The state of a name is that of its only slot.
LEMMA StateOfSlot ==
    ASSUME NEW t, NEW k, Packed(t, k), NEW u \in Names,
           NEW i \in Slots, t[i].uname = u
    PROVE  user_exists(t, u) /\ user_get_state(t, u) = t[i].state
<1>1. user_exists(t, u)
    BY DEF user_exists, Matches
<1>2. FirstMatch(t, u) \in Slots /\ t[FirstMatch(t, u)].uname = u
    BY <1>1, FirstMatchIsFirst DEF Matches
<1>3. FirstMatch(t, u) = i
    BY <1>2, NoNameAssumption DEF Packed
<1>4. QED
    BY <1>1, <1>3 DEF user_get_state

\* When the slots of names are what they were, so are the accounts.
LEMMA AccountsAreTheSame ==
    ASSUME Inv, Inv', SameAccounts
    PROVE  UNCHANGED <<accounts, inUse>>
<1>1. PICK k \in 0 .. MAX_USERS : Packed(users, k)
    BY DEF Inv
<1>2. PICK n \in 0 .. MAX_USERS : Packed(users', n)
    BY DEF Inv
<1>3. ASSUME NEW u \in Names
      PROVE  /\ user_exists(users', u) <=> user_exists(users, u)
             /\ user_get_state(users', u) = user_get_state(users, u)
    <2>1. \A i \in Slots : users[i].uname = u \/ users'[i].uname = u => users'[i] = users[i]
        BY NoNameAssumption DEF SameAccounts
    <2>2. CASE \E i \in Slots : users[i].uname = u
        <3>1. PICK i \in Slots : users[i].uname = u
            BY <2>2
        <3>2. users'[i] = users[i]
            BY <2>1, <3>1
        <3>3. /\ user_exists(users, u) /\ user_get_state(users, u) = users[i].state
              /\ user_exists(users', u) /\ user_get_state(users', u) = users'[i].state
            BY <1>1, <1>2, <3>1, <3>2, StateOfSlot
        <3>4. QED
            BY <3>2, <3>3
    <2>3. CASE ~\E i \in Slots : users[i].uname = u
        <3>1. ~user_exists(users, u) /\ ~user_exists(users', u)
            BY <2>1, <2>3 DEF user_exists, Matches
        <3>2. QED
            BY <3>1 DEF user_get_state
    <2>4. QED
        BY <2>2, <2>3
<1>4. accounts' = accounts
    BY <1>3 DEF accounts
<1>5. inUse' = inUse
    BY <1>3 DEF inUse
<1>6. QED
    BY <1>4, <1>5

\* An account that comes is OFFLINE, and the others stay as they are.
LEMMA AccountComes ==
    ASSUME Inv, Inv', NEW u \in Names, Comes(u)
    PROVE  /\ u \notin accounts
           /\ accounts' = accounts \union {u}
           /\ inUse' = inUse
<1>1. PICK k \in 0 .. MAX_USERS : Packed(users, k)
    BY DEF Inv
<1>2. PICK n \in 0 .. MAX_USERS : Packed(users', n)
    BY DEF Inv
<1>3. PICK j \in Slots : /\ users[j].uname = NoName
                         /\ users'[j].uname = u
                         /\ users'[j].state = USER_OFFLINE
                         /\ \A i \in Slots \ {j} : users'[i] = users[i]
    BY DEF Comes
<1>4. user_exists(users', u) /\ user_get_state(users', u) = USER_OFFLINE
    BY <1>2, <1>3, StateOfSlot
<1>5. ~user_exists(users, u) /\ user_get_state(users, u) = USER_NOT_FOUND
    BY DEF Comes, user_get_state
<1>6. ASSUME NEW v \in Names, v # u
      PROVE  /\ user_exists(users', v) <=> user_exists(users, v)
             /\ user_get_state(users', v) = user_get_state(users, v)
    <2>1. \A i \in Slots : users[i].uname = v \/ users'[i].uname = v => users'[i] = users[i]
        BY <1>3, <1>6, NoNameAssumption
    <2>2. CASE \E i \in Slots : users[i].uname = v
        <3>1. PICK i \in Slots : users[i].uname = v
            BY <2>2
        <3>2. users'[i] = users[i]
            BY <2>1, <3>1
        <3>3. /\ user_exists(users, v) /\ user_get_state(users, v) = users[i].state
              /\ user_exists(users', v) /\ user_get_state(users', v) = users'[i].state
            BY <1>1, <1>2, <3>1, <3>2, StateOfSlot
        <3>4. QED
            BY <3>2, <3>3
    <2>3. CASE ~\E i \in Slots : users[i].uname = v
        <3>1. ~user_exists(users, v) /\ ~user_exists(users', v)
            BY <2>1, <2>3 DEF user_exists, Matches
        <3>2. QED
            BY <3>1 DEF user_get_state
    <2>4. QED
        BY <2>2, <2>3
<1>7. accounts' = accounts \union {u}
    BY <1>4, <1>6 DEF accounts
<1>8. inUse' = inUse
    BY <1>4, <1>5, <1>6
       DEF inUse, USER_OFFLINE, USER_LOGGING, USER_ONLINE, USER_NOT_FOUND
<1>9. QED
    BY <1>5, <1>7, <1>8 DEF accounts

\* user_set_state on a name changes the state of that name.
LEMMA StateIsSet ==
    ASSUME Inv, Inv', NEW u \in Names, user_exists(users, u),
           NEW s \in {USER_OFFLINE, USER_LOGGING, USER_ONLINE},
           users' = user_set_state(users, u, s)
    PROVE  /\ accounts' = accounts
           /\ inUse' = IF s = USER_OFFLINE THEN inUse \ {u} ELSE inUse \union {u}
<1>1. PICK k \in 0 .. MAX_USERS : Packed(users, k)
    BY DEF Inv
<1>2. PICK n \in 0 .. MAX_USERS : Packed(users', n)
    BY DEF Inv
<1>3. /\ users \in Tables
      /\ \A i \in Slots : users'[i] = IF users[i].uname = u
                                      THEN [users[i] EXCEPT !.state = s] ELSE users[i]
    BY <1>1 DEF Packed, user_set_state, USER_OFFLINE, USER_LOGGING, USER_ONLINE, USER_NOT_FOUND
<1>4. \A i \in Slots : /\ users'[i].uname = users[i].uname
                       /\ users'[i].state = IF users[i].uname = u THEN s ELSE users[i].state
    BY <1>3 DEF Tables, User
<1>5. ASSUME NEW v \in Names
      PROVE  /\ user_exists(users', v) <=> user_exists(users, v)
             /\ user_exists(users, v) =>
                  user_get_state(users', v) = IF v = u THEN s ELSE user_get_state(users, v)
             /\ ~user_exists(users, v) =>
                  user_get_state(users', v) = user_get_state(users, v)
    <2>1. user_exists(users', v) <=> user_exists(users, v)
        BY <1>4 DEF user_exists, Matches
    <2>2. CASE user_exists(users, v)
        <3>1. PICK i \in Slots : users[i].uname = v
            BY <2>2 DEF user_exists, Matches
        <3>2. /\ user_get_state(users, v) = users[i].state
              /\ user_get_state(users', v) = users'[i].state
            BY <1>1, <1>2, <1>4, <3>1, StateOfSlot
        <3>3. QED
            BY <1>4, <2>1, <2>2, <3>1, <3>2
    <2>3. CASE ~user_exists(users, v)
        BY <2>1, <2>3 DEF user_get_state
    <2>4. QED
        BY <2>1, <2>2, <2>3
<1>6. accounts' = accounts
    BY <1>5 DEF accounts
<1>7. inUse' = IF s = USER_OFFLINE THEN inUse \ {u} ELSE inUse \union {u}
    BY <1>5 DEF inUse, USER_OFFLINE, USER_LOGGING, USER_ONLINE
<1>8. QED
    BY <1>6, <1>7

-----------------------------------------------------------------------------
(* Sessions                                                                *)

\* What Phase says of a session whose state is d
PhaseOf(d) ==
    IF ~d.open THEN "absent"
    ELSE IF d.interest = {} \/ d.finished THEN "working"
    ELSE IF d.sending THEN "answering" ELSE "idle"

\* The phase of a session is a function of its monitor_data alone.
LEMMA PhaseIs ==
    ASSUME NEW a \in Admins
    PROVE  Phase(a) = PhaseOf(mon[a]) /\ Phase(a)' = PhaseOf(mon'[a])
BY DEF Phase, PhaseOf

\* The state of session a is d from now on, and that of the others as it was.
Becomes(a, d) ==
    \A b \in Admins : mon'[b] = IF b = a THEN d ELSE mon[b]

\* One session changes
LEMMA SessionStep ==
    ASSUME NEW a \in Admins, NEW d, Becomes(a, d)
    PROVE  /\ phase' = [phase EXCEPT ![a] = PhaseOf(d)]
           /\ admitted' = IF d.open /\ d.logged THEN admitted \union {a} ELSE admitted \ {a}
<1>1. phase = [b \in Admins |-> PhaseOf(mon[b])] /\ phase' = [b \in Admins |-> PhaseOf(mon'[b])]
    BY PhaseIs DEF phase
<1>2. phase' = [phase EXCEPT ![a] = PhaseOf(d)]
    BY <1>1 DEF Becomes
<1>3. admitted' = IF d.open /\ d.logged THEN admitted \union {a} ELSE admitted \ {a}
    BY DEF Becomes, admitted, Open
<1>4. QED
    BY <1>2, <1>3

\* A session that keeps its phase and its login takes no abstract step.
LEMMA SessionStays ==
    ASSUME NEW a \in Admins, NEW d, Becomes(a, d),
           PhaseOf(d) = PhaseOf(mon[a]), d.open = mon[a].open, d.logged = mon[a].logged
    PROVE  UNCHANGED <<phase, admitted>>
<1>1. /\ phase' = [phase EXCEPT ![a] = PhaseOf(d)]
      /\ admitted' = IF d.open /\ d.logged THEN admitted \union {a} ELSE admitted \ {a}
    BY SessionStep
<1>2. phase \in [Admins -> {Phase(b) : b \in Admins}] /\ phase[a] = PhaseOf(mon[a])
    BY PhaseIs DEF phase
<1>3. phase' = phase
    BY <1>1, <1>2
<1>4. admitted' = admitted
    BY <1>1 DEF admitted, Open
<1>5. QED
    BY <1>3, <1>4

\* A session that closes was not at work.
LEMMA CloseLeaves ==
    ASSUME Inv, NEW a \in Admins, close_connection(a), mon[a].open,
           PhaseOf(mon[a]) \in {"idle", "answering"}
    PROVE  Abstract!Leave(a) /\ SameAccounts
<1>1. Becomes(a, Closed) /\ users' = users
    BY DEF Inv, close_connection, Becomes, accountVars
<1>2. /\ phase' = [phase EXCEPT ![a] = PhaseOf(Closed)] /\ PhaseOf(Closed) = "absent"
      /\ admitted' = admitted \ {a}
    <2>1. ~Closed.open /\ PhaseOf(Closed) = "absent"
        BY DEF Closed, PhaseOf
    <2>2. QED
        BY <1>1, <2>1, SessionStep
<1>3. phase[a] \in {"idle", "answering"}
    BY PhaseIs DEF phase
<1>4. UNCHANGED <<accounts, inUse>>
    BY <1>1 DEF accounts, inUse
<1>5. QED
    BY <1>1, <1>2, <1>3, <1>4 DEF Abstract!Leave, phase, admitted, accounts, inUse, SameAccounts

-----------------------------------------------------------------------------
(* Callbacks                                                               *)

Quiet == UNCHANGED <<phase, admitted, accounts, inUse>>

\* A step that changes no phase, no login and no account is a stutter.
LEMMA NothingChanges ==
    ASSUME UNCHANGED <<phase, admitted>>, UNCHANGED users
    PROVE  Quiet
BY DEF Quiet, accounts, inUse

\* accept() is the abstract connection.
LEMMA AcceptConnects ==
    ASSUME Inv, NEW a \in Admins, acceptMonitorConnection(a)
    PROVE  Abstract!Connect(a)
<1>1. Becomes(a, NewSession) /\ ~mon[a].open /\ users' = users
    BY DEF Inv, acceptMonitorConnection, Becomes, accountVars
<1>2. /\ NewSession.open = TRUE /\ NewSession.logged = FALSE
      /\ PhaseOf(NewSession) = "idle"
    BY DEF NewSession, Closed, PhaseOf
<1>3. phase[a] = "absent" /\ a \notin admitted
    BY <1>1, PhaseIs DEF phase, PhaseOf, admitted, Open
<1>4. phase' = [phase EXCEPT ![a] = "idle"] /\ admitted' = admitted
    BY <1>1, <1>2, <1>3, SessionStep
<1>5. UNCHANGED <<accounts, inUse>>
    BY <1>1 DEF accounts, inUse
<1>6. QED
    BY <1>3, <1>4, <1>5
       DEF Abstract!Connect, Abstract!Moves, phase, admitted, accounts, inUse

\* A hang-up, and the arrival of bytes, are nothing to the protocol; a
\* session that reads is at rest or has an answer under way.
LEMMA ReadRefines ==
    ASSUME Inv, NEW a \in Admins, HangUp(a) \/ handleMonitorRead(a)
    PROVE  Quiet \/ Abstract!Leave(a)
<1>1. mon[a] \in Session /\ mon[a].open
    BY AskingRunsNothing DEF HangUp, handleMonitorRead, Inv
<1>2. CASE HangUp(a)
    <2> DEFINE d == [mon[a] EXCEPT !.gone = TRUE]
    <2>1. Becomes(a, d) /\ users' = users
        BY <1>2 DEF Inv, HangUp, Becomes, accountVars
    <2>2. /\ d.open = mon[a].open /\ d.logged = mon[a].logged /\ d.interest = mon[a].interest
          /\ d.finished = mon[a].finished /\ d.sending = mon[a].sending
        BY <1>1 DEF Session
    <2> HIDE DEF d
    <2>3. PhaseOf(d) = PhaseOf(mon[a])
        BY <2>2 DEF PhaseOf
    <2>4. QED
        BY <2>1, <2>2, <2>3, SessionStays, NothingChanges
<1>3. CASE handleMonitorRead(a)
    <2>1. mon[a].interest = {"READ"} /\ ~mon[a].finished
        BY <1>3, AskingRunsNothing DEF handleMonitorRead, Placed
    <2>2. PhaseOf(mon[a]) \in {"idle", "answering"}
        BY <1>1, <2>1 DEF PhaseOf
    <2>3. CASE EndOfInput(a)
        BY <1>1, <2>2, <2>3, CloseLeaves DEF EndOfInput
    <2>4. CASE ~EndOfInput(a)
        <3>1. PICK lines, partial :
                /\ mon' = [mon EXCEPT ![a] = [mon[a] EXCEPT !.lines = lines,
                                                           !.partial = partial,
                                                           !.interest = {"WRITE"}]]
                /\ users' = users
            <4>1. CASE mon' = [mon EXCEPT ![a].interest = {"WRITE"}] /\ UNCHANGED accountVars
                <5>1. mon' = [mon EXCEPT ![a] = [mon[a] EXCEPT !.lines = mon[a].lines,
                                                               !.partial = mon[a].partial,
                                                               !.interest = {"WRITE"}]]
                    BY <1>1, <4>1 DEF Session, Inv
                <5>2. QED
                    BY <4>1, <5>1 DEF accountVars
            <4>2. CASE \E ch \in Chunks :
                         /\ mon' = [mon EXCEPT
                              ![a].lines    = @ + ch.lines,
                              ![a].partial  = ch.partial \/ (ch.lines = 0 /\ @),
                              ![a].interest = {"WRITE"}]
                         /\ UNCHANGED accountVars
                <5>1. PICK ch \in Chunks :
                         /\ mon' = [mon EXCEPT ![a] =
                              [mon[a] EXCEPT
                                 !.lines = mon[a].lines + ch.lines,
                                 !.partial = ch.partial \/ (ch.lines = 0 /\ mon[a].partial),
                                 !.interest = {"WRITE"}]]
                         /\ UNCHANGED accountVars
                    BY <4>2
                <5>2. QED
                    BY <5>1 DEF accountVars
            <4>3. QED
                BY <1>3, <2>4, <4>1, <4>2 DEF handleMonitorRead
        <3> DEFINE d == [mon[a] EXCEPT !.lines = lines, !.partial = partial,
                                       !.interest = {"WRITE"}]
        <3>2. Becomes(a, d) /\ users' = users
            BY <3>1 DEF Inv, Becomes
        <3>3. /\ d.open = mon[a].open /\ d.logged = mon[a].logged /\ d.interest # {}
              /\ d.finished = mon[a].finished /\ d.sending = mon[a].sending
            BY <1>1 DEF Session
        <3> HIDE DEF d
        <3>4. PhaseOf(d) = PhaseOf(mon[a])
            BY <2>1, <3>3 DEF PhaseOf
        <3>5. QED
            BY <3>2, <3>3, <3>4, SessionStays, NothingChanges
    <2>5. QED
        BY <2>3, <2>4
<1>4. QED
    BY <1>2, <1>3

\* The process dies with all its sessions.
LEMMA DieCrashes == ASSUME Die PROVE Abstract!Crash
<1>1. phase' = [a \in Admins |-> "absent"]
    BY PhaseIs DEF Die, phase, PhaseOf, Closed
<1>2. admitted' = {}
    BY DEF Die, admitted, Open, Closed
<1>3. UNCHANGED <<accounts, inUse>>
    BY DEF Die, accountVars, accounts, inUse
<1>4. QED
    BY <1>1, <1>2, <1>3 DEF Abstract!Crash, phase, admitted, accounts, inUse

\* Sending ends, goes on, or ends the session or the process.
LEMMA SendRefines ==
    ASSUME Inv, NEW a \in Admins, NEW o \in SendOutcomes, continue_sending(a, o)
    PROVE  \/ Quiet
           \/ Abstract!Delivered(a) \/ Abstract!Leave(a) \/ Abstract!Crash
<1>1. /\ mon[a] \in Session /\ mon[a].open /\ mon[a].interest = {"WRITE"}
      /\ mon[a].sending /\ ~mon[a].finished
    BY Writing DEF continue_sending, Placed
<1>2. PhaseOf(mon[a]) = "answering" /\ Resting(mon[a]) # {}
    BY <1>1 DEF PhaseOf, Resting
<1>3. ASSUME NEW d \in Session,
             d = [mon[a] EXCEPT !.sending = d.sending, !.unsent = d.unsent,
                                !.interest = Resting(mon[a])],
             mon' = [mon EXCEPT ![a] = d], UNCHANGED accountVars
      PROVE  Quiet \/ Abstract!Delivered(a)
    <2>1. /\ d.open = mon[a].open /\ d.logged = mon[a].logged /\ d.interest # {}
          /\ d.finished = mon[a].finished
        BY <1>1, <1>2, <1>3 DEF Session
    <2>2. Becomes(a, d) /\ users' = users
        BY <1>3 DEF Inv, Becomes, accountVars
    <2>3. CASE d.sending
        <3>1. PhaseOf(d) = PhaseOf(mon[a])
            BY <1>1, <1>2, <2>1, <2>3 DEF PhaseOf
        <3>2. QED
            BY <2>1, <2>2, <3>1, SessionStays, NothingChanges
    <2>4. CASE ~d.sending
        <3>1. PhaseOf(d) = "idle"
            BY <1>1, <2>1, <2>4 DEF PhaseOf
        <3>2. phase' = [phase EXCEPT ![a] = "idle"] /\ admitted' = admitted
            <4>1. /\ phase' = [phase EXCEPT ![a] = "idle"]
                  /\ admitted' = IF d.open /\ d.logged THEN admitted \union {a}
                                                       ELSE admitted \ {a}
                BY <2>2, <3>1, SessionStep
            <4>2. QED
                BY <2>1, <4>1 DEF admitted, Open
        <3>3. phase[a] = "answering"
            BY <1>2, PhaseIs DEF phase
        <3>4. UNCHANGED <<accounts, inUse>>
            BY <2>2 DEF accounts, inUse
        <3>5. QED
            BY <3>2, <3>3, <3>4
               DEF Abstract!Delivered, Abstract!Moves, phase, admitted, accounts, inUse
    <2>5. QED
        BY <2>3, <2>4
<1>4. CASE /\ mon' = [mon EXCEPT ![a].sending = FALSE, ![a].unsent = 0,
                                 ![a].interest = Resting(mon[a])]
           /\ UNCHANGED accountVars
    <2> DEFINE d == [mon[a] EXCEPT !.sending = FALSE, !.unsent = 0,
                                   !.interest = Resting(mon[a])]
    <2>1. mon' = [mon EXCEPT ![a] = d]
        BY <1>4
    <2>2. mon'[a] = d /\ mon'[a] \in Session
        BY <2>1, SendKeepsInv DEF Inv
    <2>3. d.sending = FALSE /\ d.unsent = 0
        BY <1>1 DEF Session
    <2>4. QED
        BY <1>3, <1>4, <2>1, <2>2, <2>3
<1>5. CASE /\ mon' = [mon EXCEPT ![a].unsent = @ - 1, ![a].interest = Resting(mon[a])]
           /\ UNCHANGED accountVars
    <2> DEFINE d == [mon[a] EXCEPT !.unsent = @ - 1, !.interest = Resting(mon[a])]
    <2>1. mon' = [mon EXCEPT ![a] = d]
        BY <1>5
    <2>2. mon'[a] = d /\ mon'[a] \in Session
        BY <2>1, SendKeepsInv DEF Inv
    <2>3. d = [mon[a] EXCEPT !.sending = d.sending, !.unsent = d.unsent,
                             !.interest = Resting(mon[a])]
        BY <1>1 DEF Session
    <2>4. QED
        BY <1>3, <1>5, <2>1, <2>2, <2>3
<1>6. CASE close_connection(a)
    BY <1>1, <1>2, <1>6, CloseLeaves
<1>7. CASE Die
    BY <1>7, DieCrashes
<1>8. QED
    BY <1>4, <1>5, <1>6, <1>7 DEF continue_sending, accountVars

\* What the parser finds wrong is nobody's business but the parser's, or the
\* end of the process.
LEMMA ParserRefines ==
    ASSUME Inv, NEW a \in Admins,
           error_arrival(a) \/ save_arg(a) \/ process_char(a) \/ monitor_incomplete(a)
    PROVE  Quiet \/ Abstract!Crash
<1>1. CASE process_char(a)
    BY <1>1, DieCrashes DEF process_char
<1>2. CASE error_arrival(a) \/ save_arg(a) \/ monitor_incomplete(a)
    <2>1. /\ mon[a] \in Session /\ mon[a].interest = {"WRITE"}
          /\ ~mon[a].sending /\ ~mon[a].finished
        BY <1>2, Writing DEF error_arrival, save_arg, monitor_incomplete, Parsing
    <2>2. users' = users
        BY <1>2 DEF error_arrival, save_arg, monitor_incomplete, accountVars
    <2>3. ASSUME NEW p, NEW n, NEW part, NEW interest, interest # {},
                 mon' = [mon EXCEPT ![a] = [mon[a] EXCEPT !.parser = p, !.lines = n,
                                                          !.partial = part,
                                                          !.interest = interest]]
          PROVE  Quiet
        <3> DEFINE d == [mon[a] EXCEPT !.parser = p, !.lines = n, !.partial = part,
                                       !.interest = interest]
        <3>1. Becomes(a, d)
            BY <2>3 DEF Inv, Becomes
        <3>2. /\ d.open = mon[a].open /\ d.logged = mon[a].logged /\ d.interest = interest
              /\ d.finished = mon[a].finished /\ d.sending = mon[a].sending
            BY <2>1 DEF Session
        <3> HIDE DEF d
        <3>3. PhaseOf(d) = PhaseOf(mon[a])
            BY <2>1, <2>3, <3>2 DEF PhaseOf
        <3>4. QED
            BY <2>2, <3>1, <3>2, <3>3, SessionStays, NothingChanges
    <2>4. {"WRITE"} # {} /\ {"READ"} # {}
        OBVIOUS
    <2>5. ASSUME NEW p, mon' = [mon EXCEPT ![a].parser = p] PROVE Quiet
        <3>1. mon' = [mon EXCEPT ![a] = [mon[a] EXCEPT !.parser = p, !.lines = mon[a].lines,
                                                       !.partial = mon[a].partial,
                                                       !.interest = {"WRITE"}]]
            BY <2>1, <2>5 DEF Session, Inv
        <3>2. QED
            BY <2>3, <2>4, <3>1
    <2>6. ASSUME mon' = [mon EXCEPT ![a].parser = "overlong", ![a].lines = 0,
                                    ![a].partial = FALSE, ![a].interest = {"READ"}]
          PROVE  Quiet
        <3>1. mon' = [mon EXCEPT ![a] = [mon[a] EXCEPT !.parser = "overlong", !.lines = 0,
                                                       !.partial = FALSE,
                                                       !.interest = {"READ"}]]
            BY <2>6
        <3>2. QED
            BY <2>3, <2>4, <3>1
    <2>7. ASSUME mon' = [mon EXCEPT ![a].partial = FALSE, ![a].interest = {"READ"}]
          PROVE  Quiet
        <3>1. mon' = [mon EXCEPT ![a] = [mon[a] EXCEPT !.parser = mon[a].parser,
                                                       !.lines = mon[a].lines,
                                                       !.partial = FALSE,
                                                       !.interest = {"READ"}]]
            BY <2>1, <2>7 DEF Session, Inv
        <3>2. QED
            BY <2>3, <2>4, <3>1
    <2>8. QED
        BY <1>2, <2>5, <2>6, <2>7 DEF error_arrival, save_arg, monitor_incomplete
<1>3. QED
    BY <1>1, <1>2

-----------------------------------------------------------------------------
(* Requests                                                                *)

\* A line is taken: the session turns from idle to answering.
LEMMA AnswerStep ==
    ASSUME Inv, NEW a \in Admins, Parsed(a), NEW line \in Line,
           NEW d, d = Answered(mon[a], line) \/ d = [Answered(mon[a], line) EXCEPT !.logged = TRUE],
           mon' = [mon EXCEPT ![a] = d]
    PROVE  /\ phase[a] = "idle" /\ phase' = [phase EXCEPT ![a] = "answering"]
           /\ admitted' = IF d.logged THEN admitted \union {a} ELSE admitted
           /\ mon[a].logged => a \in admitted
<1>1. /\ mon[a] \in Session /\ mon[a].open /\ mon[a].interest = {"WRITE"}
      /\ ~mon[a].sending /\ ~mon[a].finished
    BY Writing DEF Parsed, Parsing
<1> DEFINE e == Answered(mon[a], line)
<1>2. /\ e.open = mon[a].open /\ e.logged = mon[a].logged /\ e.interest = mon[a].interest
      /\ e.finished = mon[a].finished /\ e.sending = TRUE /\ e \in Session
    <2>1. e \in Session
        BY AnsweredIsPlaced
    <2>2. QED
        BY <1>1, <2>1 DEF Answered, Consumed, init_monitor_parser, Session
<1> HIDE DEF e
<1>3. /\ d.open = mon[a].open /\ d.interest = mon[a].interest
      /\ d.finished = mon[a].finished /\ d.sending = TRUE
      /\ d.logged = mon[a].logged \/ d.logged = TRUE
    BY <1>2 DEF Session, e
<1>4. PhaseOf(d) = "answering" /\ PhaseOf(mon[a]) = "idle"
    BY <1>1, <1>3 DEF PhaseOf
<1>5. Becomes(a, d)
    BY DEF Inv, Becomes
<1>6. /\ phase' = [phase EXCEPT ![a] = "answering"]
      /\ admitted' = IF d.open /\ d.logged THEN admitted \union {a} ELSE admitted \ {a}
    BY <1>4, <1>5, SessionStep
<1>7. phase[a] = "idle"
    BY <1>4, PhaseIs DEF phase
<1>8. ~d.logged => a \notin admitted
    BY <1>3 DEF admitted, Open
<1>9. mon[a].logged => a \in admitted
    BY <1>1 DEF admitted, Open
<1>10. QED
    BY <1>1, <1>3, <1>6, <1>7, <1>8, <1>9

\* A command without effect is a question that is answered.
LEMMA OnlyAnswerAsks ==
    ASSUME Inv, NEW a \in Admins, Parsed(a), NEW line \in Line, OnlyAnswer(a, line)
    PROVE  Abstract!Ask(a)
<1> DEFINE d == Answered(mon[a], line)
<1>1. mon' = [mon EXCEPT ![a] = d] /\ users' = users
    BY DEF OnlyAnswer, accountVars
<1>2. d.logged = mon[a].logged
    BY AnsweredIsPlaced
<1>3. /\ phase[a] = "idle" /\ phase' = [phase EXCEPT ![a] = "answering"]
      /\ admitted' = IF d.logged THEN admitted \union {a} ELSE admitted
      /\ mon[a].logged => a \in admitted
    BY <1>1, AnswerStep
<1>4. admitted' = admitted
    BY <1>2, <1>3
<1>5. UNCHANGED <<accounts, inUse>>
    BY <1>1 DEF accounts, inUse
<1>6. QED
    BY <1>3, <1>4, <1>5 DEF Abstract!Ask, Abstract!Moves, phase, admitted, accounts, inUse

\* LOGIN is answered, and admits the administrator if it is granted.
LEMMA LoginRefines ==
    ASSUME Inv, NEW a \in Admins, Parsed(a), NEW line \in Line, monitor_login_cmd(a, line)
    PROVE  Abstract!Ask(a) \/ Abstract!Login(a)
<1>1. CASE OnlyAnswer(a, line)
    BY <1>1, OnlyAnswerAsks
<1>2. CASE /\ mon' = [mon EXCEPT ![a] = [Answered(@, line) EXCEPT !.logged = TRUE]]
           /\ UNCHANGED accountVars
    <2> DEFINE e == Answered(mon[a], line)
               d == [e EXCEPT !.logged = TRUE]
    <2>1. mon' = [mon EXCEPT ![a] = d] /\ users' = users
        BY <1>2 DEF accountVars
    <2>2. e \in Session
        BY AnsweredIsPlaced
    <2> HIDE DEF e
    <2>3. d.logged = TRUE
        BY <2>2 DEF Session
    <2>4. /\ phase[a] = "idle" /\ phase' = [phase EXCEPT ![a] = "answering"]
          /\ admitted' = IF d.logged THEN admitted \union {a} ELSE admitted
        BY <2>1, AnswerStep DEF e
    <2>5. UNCHANGED <<accounts, inUse>>
        BY <2>1 DEF accounts, inUse
    <2>6. QED
        BY <2>3, <2>4, <2>5
           DEF Abstract!Login, Abstract!Moves, phase, admitted, accounts, inUse
<1>3. QED
    BY <1>1, <1>2 DEF monitor_login_cmd

\* ADD_USER adds an account, or only answers.
LEMMA AddRefines ==
    ASSUME Inv, Inv', NEW a \in Admins, Parsed(a), NEW line \in Line, line.arg \in Names,
           mon[a].logged, monitor_add_user_cmd(a, line)
    PROVE  Abstract!Ask(a) \/ Abstract!Add(a)
<1>1. CASE OnlyAnswer(a, line)
    BY <1>1, OnlyAnswerAsks
<1>2. CASE ~OnlyAnswer(a, line)
    <2> DEFINE d == Answered(mon[a], line)
    <2>1. mon' = [mon EXCEPT ![a] = d]
        BY <1>2 DEF monitor_add_user_cmd
    <2>2. d.logged = mon[a].logged
        BY AnsweredIsPlaced
    <2>3. /\ phase[a] = "idle" /\ phase' = [phase EXCEPT ![a] = "answering"]
          /\ admitted' = IF d.logged THEN admitted \union {a} ELSE admitted
          /\ mon[a].logged => a \in admitted
        BY <2>1, AnswerStep
    <2>4. a \in admitted /\ admitted' = admitted
        BY <2>2, <2>3
    <2>5. CASE SameAccounts
        <3>1. UNCHANGED <<accounts, inUse>>
            BY <2>5, AccountsAreTheSame
        <3>2. QED
            BY <2>3, <2>4, <3>1
               DEF Abstract!Ask, Abstract!Moves, phase, admitted, accounts, inUse
    <2>6. CASE Comes(line.arg)
        <3>1. /\ line.arg \in Names \ accounts
              /\ accounts' = accounts \union {line.arg} /\ inUse' = inUse
            BY <2>6, AccountComes
        <3>2. QED
            BY <2>3, <2>4, <3>1
               DEF Abstract!Add, Abstract!Moves, phase, admitted, accounts, inUse
    <2>7. QED
        BY <2>5, <2>6, AddUserStep
<1>3. QED
    BY <1>1, <1>2

\* A shell command is started, or the session waits for one in vain.
LEMMA ExecuteStarts ==
    ASSUME Inv, NEW a \in Admins, Parsed(a), NEW line \in Line, NEW code,
           mon[a].logged, executeCommand(a, code, line)
    PROVE  Abstract!Start(a)
<1>1. /\ mon[a] \in Session /\ mon[a].open /\ mon[a].interest = {"WRITE"}
      /\ ~mon[a].sending /\ ~mon[a].finished
    BY Writing DEF Parsed, Parsing
<1> DEFINE d == [mon[a] EXCEPT !.lines = @ - 1, !.arg = NoName, !.code = code,
                               !.finished = FALSE, !.failed = FALSE, !.interest = {}]
<1>2. mon' = [mon EXCEPT ![a] = d] /\ users' = users
    BY <1>1 DEF executeCommand, Consumed, init_monitor_parser, Session
<1>3. d.open = mon[a].open /\ d.logged = mon[a].logged /\ d.interest = {}
    BY <1>1 DEF Session
<1> HIDE DEF d
<1>4. PhaseOf(d) = "working" /\ PhaseOf(mon[a]) = "idle"
    BY <1>1, <1>3 DEF PhaseOf
<1>5. Becomes(a, d)
    BY <1>2 DEF Inv, Becomes
<1>6. /\ phase' = [phase EXCEPT ![a] = "working"]
      /\ admitted' = IF d.open /\ d.logged THEN admitted \union {a} ELSE admitted \ {a}
    BY <1>4, <1>5, SessionStep
<1>7. phase[a] = "idle" /\ a \in admitted
    BY <1>1, <1>4, PhaseIs DEF phase, admitted, Open
<1>8. admitted' = admitted
    BY <1>1, <1>3, <1>6, <1>7
<1>9. UNCHANGED <<accounts, inUse>>
    BY <1>2 DEF accounts, inUse
<1>10. QED
    BY <1>6, <1>7, <1>8, <1>9
       DEF Abstract!Start, Abstract!Moves, phase, admitted, accounts, inUse

\* Each command line is one abstract step, whatever it says.
LEMMA CommandLineRefines ==
    ASSUME Inv, Inv', NEW a \in Admins, NEW line \in Line, handle_cmd(a, line)
    PROVE  \/ Abstract!Ask(a) \/ Abstract!Login(a) \/ Abstract!Add(a)
           \/ Abstract!Start(a) \/ Abstract!Leave(a)
<1>1. Parsed(a)
    BY DEF handle_cmd
<1>2. CASE OnlyAnswer(a, line)
    BY <1>1, <1>2, OnlyAnswerAsks
<1>3. CASE monitor_login_cmd(a, line)
    BY <1>1, <1>3, LoginRefines
<1>4. CASE close_connection(a)
    <2>1. /\ mon[a].open /\ mon[a].interest = {"WRITE"}
          /\ ~mon[a].sending /\ ~mon[a].finished
        BY <1>1, Writing DEF Parsed, Parsing
    <2>2. PhaseOf(mon[a]) \in {"idle", "answering"}
        BY <2>1 DEF PhaseOf
    <2>3. QED
        BY <1>4, <2>1, <2>2, CloseLeaves
<1>5. CASE line.cmd = "ADD_USER" /\ mon[a].logged /\ monitor_add_user_cmd(a, line)
    <2>1. line.arg \in Names
        BY <1>5 DEF Line
    <2>2. QED
        BY <1>1, <1>5, <2>1, AddRefines
<1>6. ASSUME NEW code, mon[a].logged, executeCommand(a, code, line)
      PROVE  Abstract!Start(a)
    BY <1>1, <1>6, ExecuteStarts
<1>7. QED
    BY <1>2, <1>3, <1>4, <1>5, <1>6 DEF handle_cmd

-----------------------------------------------------------------------------
(* Shell commands and POP3 clients                                         *)

\* The session is at work until it has told the result.
LEMMA WakingRefines ==
    ASSUME Inv, NEW a \in Admins, handle_command(a)
    PROVE  Quiet
<1> DEFINE failed == job[a].at = "silent"
           d == [mon[a] EXCEPT !.finished = TRUE, !.failed = failed, !.interest = {"WRITE"}]
<1>1. /\ mon[a] \in Session /\ job[a] # NoJob /\ mon[a].open /\ mon[a].interest = {}
    BY DEF Inv, handle_command, NoJob, SessionOK, Placed
<1>2. Becomes(a, d) /\ users' = users
    BY DEF handle_command, Inv, Becomes, accountVars
<1> HIDE DEF failed
<1>3. /\ d.open = mon[a].open /\ d.logged = mon[a].logged /\ d.finished = TRUE
    BY <1>1 DEF Session
<1> HIDE DEF d
<1>4. PhaseOf(d) = PhaseOf(mon[a])
    BY <1>1, <1>3 DEF PhaseOf
<1>5. QED
    BY <1>2, <1>3, <1>4, SessionStays, NothingChanges

\* The end of a shell command makes the answer ready.
LEMMA FinishedRefines ==
    ASSUME Inv, Inv', NEW a \in Admins, handle_finished_cmd(a)
    PROVE  Abstract!Finish(a)
<1> DEFINE d == [mon[a] EXCEPT !.sending = TRUE, !.unsent = MAX_SENDS, !.finished = FALSE]
<1>1. /\ mon[a] \in Session /\ mon[a].open /\ mon[a].interest = {"WRITE"} /\ mon[a].finished
    BY Writing DEF handle_finished_cmd
<1>2. Becomes(a, d)
    BY DEF handle_finished_cmd, Inv, Becomes
<1>3. /\ d.open = mon[a].open /\ d.logged = mon[a].logged /\ d.finished = FALSE
      /\ d.sending = TRUE /\ d.interest = mon[a].interest
    BY <1>1 DEF Session
<1> HIDE DEF d
<1>4. PhaseOf(d) = "answering" /\ PhaseOf(mon[a]) = "working"
    BY <1>1, <1>3 DEF PhaseOf
<1>5. /\ phase' = [phase EXCEPT ![a] = "answering"]
      /\ admitted' = IF d.open /\ d.logged THEN admitted \union {a} ELSE admitted \ {a}
    BY <1>2, <1>4, SessionStep
<1>6. phase[a] = "working" /\ admitted' = admitted
    BY <1>1, <1>3, <1>4, <1>5, PhaseIs DEF phase, admitted, Open
<1>7. UNCHANGED <<accounts, inUse>>
    BY FinishedStep, AccountsAreTheSame
<1>8. QED
    BY <1>5, <1>6, <1>7
       DEF Abstract!Finish, Abstract!Moves, phase, admitted, accounts, inUse

\* A claim, its confirmation, and the release; a claim of the empty name is
\* a claim of nobody's account.
LEMMA ClientRefines ==
    ASSUME Inv, Inv', NEW u \in Names \union {NoName},
           user_cmd(u) \/ (u # NoName /\ (pass_cmd(u) \/ release(u)))
    PROVE  Quiet \/ Abstract!Use \/ Abstract!Release
<1>1. mon' = mon
    BY DEF user_cmd, pass_cmd, release
<1>2. UNCHANGED <<phase, admitted>>
    BY <1>1 DEF phase, Phase, admitted, Open
<1>3. CASE u = NoName
    <2>1. users' = user_set_state(users, NoName, USER_LOGGING) /\ users \in Tables
        BY <1>3 DEF user_cmd, Inv, Packed
    <2>2. \A i \in Slots : users'[i].uname = users[i].uname
        BY <2>1, SetStateKeepsNames
    <2>3. \A i \in Slots : users[i].uname # NoName => users'[i] = users[i]
        BY <2>1 DEF user_set_state, USER_LOGGING, USER_NOT_FOUND
    <2>4. SameAccounts
        BY <2>2, <2>3 DEF SameAccounts
    <2>5. QED
        BY <1>2, <2>4, AccountsAreTheSame DEF Quiet
<1>4. CASE u \in Names
    <2>1. user_exists(users, u)
        BY DEF user_cmd, pass_cmd, release, user_get_state, USER_OFFLINE, USER_LOGGING,
               USER_ONLINE, USER_NOT_FOUND
    <2>2. u \in accounts
        BY <1>4, <2>1 DEF accounts
    <2>3. CASE user_cmd(u)
        <3>1. /\ accounts' = accounts
              /\ inUse' = IF USER_LOGGING = USER_OFFLINE THEN inUse \ {u} ELSE inUse \union {u}
            BY <1>4, <2>1, <2>3, StateIsSet DEF user_cmd
        <3>2. u \notin inUse /\ USER_LOGGING # USER_OFFLINE
            BY <2>3 DEF user_cmd, inUse, USER_OFFLINE, USER_LOGGING, USER_ONLINE
        <3>3. QED
            BY <1>2, <2>2, <3>1, <3>2 DEF Abstract!Use, phase, admitted, accounts, inUse
    <2>4. CASE pass_cmd(u)
        <3>1. /\ accounts' = accounts
              /\ inUse' = IF USER_ONLINE = USER_OFFLINE THEN inUse \ {u} ELSE inUse \union {u}
            BY <1>4, <2>1, <2>4, StateIsSet DEF pass_cmd
        <3>2. u \in inUse /\ USER_ONLINE # USER_OFFLINE
            BY <1>4, <2>4 DEF pass_cmd, inUse, USER_OFFLINE, USER_LOGGING, USER_ONLINE
        <3>3. QED
            BY <1>2, <3>1, <3>2 DEF Quiet
    <2>5. CASE release(u)
        <3>1. accounts' = accounts /\ inUse' = inUse \ {u}
            BY <1>4, <2>1, <2>5, StateIsSet DEF release
        <3>2. u \in inUse
            BY <1>4, <2>5 DEF release, inUse
        <3>3. QED
            BY <1>2, <3>1, <3>2 DEF Abstract!Release, phase, admitted, accounts, inUse
    <2>6. QED
        BY <2>3, <2>4, <2>5
<1>5. QED
    BY <1>3, <1>4

-----------------------------------------------------------------------------
(* The refinement                                                          *)

\* Nobody is connected at start-up in either.
LEMMA InitRefines == Init => Abstract!Init
<1> SUFFICES ASSUME Init PROVE Abstract!Init
    OBVIOUS
<1>1. phase = [a \in Admins |-> "absent"]
    BY PhaseIs DEF Init, phase, PhaseOf, Closed
<1>2. admitted = {}
    BY DEF Init, admitted, Open, Closed
<1>3. accounts \subseteq Names
    BY DEF accounts
<1>4. \A i \in Slots : users[i].state = USER_OFFLINE
    BY DEF Init, TableOf, FreeSlot
<1>5. inUse = {}
    <2>1. ASSUME NEW u \in Names
          PROVE  user_get_state(users, u) \in {USER_OFFLINE, USER_NOT_FOUND}
        BY <1>4, FirstMatchIsFirst DEF user_get_state
    <2>2. QED
        BY <2>1 DEF inUse, USER_OFFLINE, USER_LOGGING, USER_ONLINE, USER_NOT_FOUND
<1>6. QED
    BY <1>1, <1>2, <1>3, <1>5 DEF Abstract!Init, phase, admitted, accounts, inUse

\* Every step of the monitor is an abstract step or a stutter.
LEMMA NextRefines ==
    ASSUME Inv, [Next]_vars
    PROVE  [Abstract!Next]_(Abstract!adminVars)
<1>1. Inv'
    BY NextKeepsInv
<1>2. SUFFICES Quiet \/ Abstract!Next
    BY DEF Quiet, Abstract!adminVars, phase, admitted, accounts, inUse
<1>3. ASSUME NEW a \in Admins, acceptMonitorConnection(a) PROVE Abstract!Next
    BY <1>3, AcceptConnects DEF Abstract!Next
<1>4. ASSUME NEW a \in Admins, HangUp(a) \/ handleMonitorRead(a) PROVE Quiet \/ Abstract!Next
    BY <1>4, ReadRefines DEF Abstract!Next
<1>5. ASSUME NEW a \in Admins, handleMonitorWrite(a) PROVE Quiet \/ Abstract!Next
    <2>1. \A l \in Requests[a] : l \in Line
        BY RequestsAssumption
    <2>2. CASE \E o \in SendOutcomes : continue_sending(a, o)
        BY <2>2, SendRefines DEF Abstract!Next
    <2>3. CASE handle_finished_cmd(a)
        BY <1>1, <2>3, FinishedRefines DEF Abstract!Next
    <2>4. CASE error_arrival(a) \/ save_arg(a) \/ process_char(a) \/ monitor_incomplete(a)
        BY <2>4, ParserRefines DEF Abstract!Next
    <2>5. CASE \E l \in Requests[a] : handle_cmd(a, l)
        BY <1>1, <2>1, <2>5, CommandLineRefines DEF Abstract!Next
    <2>6. QED
        BY <1>5, <2>2, <2>3, <2>4, <2>5 DEF handleMonitorWrite
<1>6. ASSUME NEW a \in Admins, Shell(a) PROVE Quiet
    <2>1. mon' = mon /\ users' = users
        BY <1>6 DEF Shell
    <2>2. UNCHANGED <<phase, admitted>>
        BY <2>1 DEF phase, Phase, admitted, Open
    <2>3. QED
        BY <2>1, <2>2, NothingChanges
<1>7. ASSUME NEW a \in Admins, handle_command(a) PROVE Quiet
    BY <1>7, WakingRefines
<1>8. ASSUME NEW u \in Clients, user_cmd(u) \/ (u # NoName /\ (pass_cmd(u) \/ release(u)))
      PROVE  Quiet \/ Abstract!Next
    BY <1>1, <1>8, ClientRefines, OutcomesAssumption DEF Abstract!Next
<1>9. CASE UNCHANGED vars
    <2>1. mon' = mon /\ users' = users
        BY <1>9 DEF vars
    <2>2. UNCHANGED <<phase, admitted>>
        BY <2>1 DEF phase, Phase, admitted, Open
    <2>3. QED
        BY <2>1, <2>2, NothingChanges
<1>10. QED
    BY <1>3, <1>4, <1>5, <1>6, <1>7, <1>8, <1>9 DEF Next

\* monitor.c implements the protocol of AdminSession: one request at a time,
\* shell commands for those who logged in, no account taken from a client.
THEOREM Refinement == Spec => ImplementsAdminSession
<1>1. Inv /\ [Next]_vars => [Abstract!Next]_(Abstract!adminVars)
    BY NextRefines
<1>2. QED
    BY <1>1, InitRefines, Invariance, PTL DEF Spec, ImplementsAdminSession, Abstract!Spec

=============================================================================
