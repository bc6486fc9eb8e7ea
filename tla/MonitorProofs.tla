---------------------------- MODULE MonitorProofs ----------------------------
(***************************************************************************)
(* The safety of the monitor for any finite set of administrators, any      *)
(* accounts, any size of the table and of the buffers, and any outcomes of  *)
(* send(), popen() and mkdir().                                             *)
(*                                                                         *)
(* Two things make the properties inductive.  The occupied slots are the    *)
(* first ones of the table (Packed), because accounts come and never go:    *)
(* that is why user_add, which takes a free slot before it has looked at    *)
(* the slots behind it, does not add a name twice.  And between two         *)
(* callbacks a session stands in one of three positions (Placed).           *)
(***************************************************************************)
EXTENDS MonitorProperties, FiniteSetTheorems, WellFoundedInduction, TLAPS

\* The first k slots are the occupied ones, and no two have the same name.
Packed(t, k) ==
    /\ t \in Tables
    /\ k \in 0 .. MAX_USERS
    /\ \A i \in Slots : t[i].uname = NoName <=> k < i
    /\ \A i, j \in Slots : t[i].uname = t[j].uname /\ t[i].uname # NoName => i = j

\* Where a session d whose shell command is j can stand between two callbacks.
Placed(d, j) ==
    \/ /\ d.interest = {"WRITE"}
       /\ j = NoJob
       /\ Buffered(d) \/ d.finished \/ (d.sending /\ d.unsent > 0)
       /\ d.finished => ~d.sending
    \/ /\ d.interest = {"READ"}
       /\ j = NoJob
       /\ ~Buffered(d) /\ ~d.finished
       /\ d.sending => d.unsent > 0 /\ "short" \in SendOutcomes
    \/ /\ d.interest = {}
       /\ ~d.sending /\ ~d.finished /\ d.logged /\ d.code # "none"
       /\ j = NoJob => "fail" \in PopenOutcomes
       /\ j # NoJob => j.code = d.code

SessionOK(d, j) ==
    /\ d.arg = NoName
    /\ d.open => Placed(d, j)
    /\ ~d.open => d = Closed /\ j = NoJob

Inv ==
    /\ mon \in [Admins -> Session]
    /\ job \in [Admins -> Jobs]
    /\ logged \in BOOLEAN
    /\ dirs \in [Names -> SUBSET Whole]
    /\ alive \in BOOLEAN
    /\ total_users \in Int
    /\ \A a \in Admins : SessionOK(mon[a], job[a])
    /\ AdminPlaceNotLost
    /\ \E k \in 0 .. MAX_USERS : Packed(users, k) /\ total_users <= k

-----------------------------------------------------------------------------
(* The account table                                                       *)

\* The loops that stop at the first match stop at a match, and before the others.
LEMMA FirstMatchIsFirst ==
    ASSUME NEW t, NEW u, user_exists(t, u)
    PROVE  /\ FirstMatch(t, u) \in Matches(t, u)
           /\ FirstMatch(t, u) \in Slots
           /\ \A i \in Matches(t, u) : FirstMatch(t, u) <= i
<1> DEFINE T == Matches(t, u)
<1>1. T \subseteq Nat /\ T # {} /\ T \subseteq Slots
    BY MaxUsersAssumption DEF user_exists, Matches, Slots
<1>2. \E x \in T : \A y \in T : ~(<<y, x>> \in OpToRel(<, Nat))
    BY <1>1, NatLessThanWellFounded, WFMin, Zenon
<1>3. \A x, y \in Nat : <<y, x>> \in OpToRel(<, Nat) <=> y < x
    BY Zenon DEF OpToRel
<1> HIDE DEF T
<1>4. \E x \in T : \A y \in T : x <= y
    <2>1. PICK x \in T : \A y \in T : ~(<<y, x>> \in OpToRel(<, Nat))
        BY <1>2, Zenon
    <2>2. \A y \in T : ~(y < x)
        BY <1>1, <1>3, <2>1
    <2>3. QED BY <1>1, <2>2
<1>5. QED BY <1>1, <1>4 DEF FirstMatch, T

\* In a packed table the first free slot is the one behind the accounts.
LEMMA FirstFreeIsNext ==
    ASSUME NEW t, NEW k, Packed(t, k), Matches(t, NoName) # {}
    PROVE  FirstFree(t) = k + 1 /\ k + 1 \in Slots
<1>1. /\ FirstFree(t) \in Slots
      /\ t[FirstFree(t)].uname = NoName
      /\ \A i \in Slots : t[i].uname = NoName => FirstFree(t) <= i
    BY FirstMatchIsFirst DEF FirstFree, user_exists, Matches
<1>2. k + 1 \in Slots
    BY <1>1, MaxUsersAssumption DEF Packed, Slots
<1>3. t[k + 1].uname = NoName /\ k < FirstFree(t)
    BY <1>1, <1>2, MaxUsersAssumption DEF Packed, Slots
<1>4. QED
    BY <1>1, <1>2, <1>3, MaxUsersAssumption DEF Packed, Slots

\* user_add refuses and changes nothing, or puts a name that was not there
\* into the slot behind the accounts.
LEMMA UserAddPacks ==
    ASSUME NEW t, NEW k, Packed(t, k), NEW total \in Int, total <= k,
           NEW u \in Names, NEW p \in Passwords,
           NEW added, added = user_add(t, total, u, p), added.code = 0
    PROVE  /\ ~user_exists(t, u)
           /\ k + 1 \in Slots
           /\ added.users[k + 1].uname = u
           /\ added.users[k + 1].state = USER_OFFLINE
           /\ \A i \in Slots \ {k + 1} : added.users[i] = t[i]
           /\ added.total = total + 1
           /\ Packed(added.users, k + 1)
<1> DEFINE slot == [uname |-> u, pass |-> p, state |-> USER_OFFLINE]
           t2   == [t EXCEPT ![k + 1] = slot]
<1>1. /\ Matches(t, NoName) # {}
      /\ ~(user_exists(t, u) /\ \A i \in Matches(t, NoName) : FirstMatch(t, u) < i)
      /\ added.users = [t EXCEPT ![FirstFree(t)] = slot]
      /\ added.total = total + 1
    BY DEF user_add
<1>2. FirstFree(t) = k + 1 /\ k + 1 \in Slots
    BY <1>1, FirstFreeIsNext
<1>3. ~user_exists(t, u)
    <2>1. SUFFICES ASSUME user_exists(t, u)
                   PROVE  \A i \in Matches(t, NoName) : FirstMatch(t, u) < i
        BY <1>1
    <2>2. FirstMatch(t, u) \in Slots /\ t[FirstMatch(t, u)].uname = u
        BY <2>1, FirstMatchIsFirst DEF Matches
    <2>3. ~(k < FirstMatch(t, u))
        BY <2>2, NoNameAssumption DEF Packed
    <2>4. QED
        BY <2>2, <2>3, MaxUsersAssumption DEF Packed, Matches, Slots
<1>4. slot \in User /\ slot.uname = u /\ slot.state = USER_OFFLINE /\ u # NoName
    BY NoNameAssumption DEF User, USER_OFFLINE
<1>5. added.users = t2
    BY <1>1, <1>2
<1> HIDE DEF slot
<1>6. t2 \in Tables /\ \A i \in Slots : t2[i] = IF i = k + 1 THEN slot ELSE t[i]
    BY <1>4 DEF Packed, Tables
<1>7. \A i \in Slots : t[i].uname # u
    BY <1>3 DEF user_exists, Matches
<1> HIDE DEF t2
<1>8. Packed(t2, k + 1)
    BY <1>2, <1>4, <1>6, <1>7, MaxUsersAssumption DEF Packed, Slots
<1>9. QED
    BY <1>1, <1>2, <1>3, <1>4, <1>5, <1>6, <1>8

\* What user_add has added, user_delete takes out again.
LEMMA TakingBack ==
    ASSUME NEW t, NEW k, Packed(t, k), NEW total \in Int, total <= k,
           NEW u \in Names, NEW p \in Passwords,
           NEW added, added = user_add(t, total, u, p), added.code = 0,
           NEW left, left = user_delete(added.users, added.total, u)
    PROVE  /\ left.users \in Tables
           /\ \A i \in Slots : \/ left.users[i] = t[i]
                               \/ left.users[i] = FreeSlot /\ t[i].uname = NoName
           /\ left.total = total
<1> DEFINE with == added.users
<1>1. /\ ~user_exists(t, u) /\ k + 1 \in Slots
      /\ with[k + 1].uname = u /\ with[k + 1].state = USER_OFFLINE
      /\ \A i \in Slots \ {k + 1} : with[i] = t[i]
      /\ added.total = total + 1
      /\ Packed(with, k + 1)
    BY UserAddPacks
<1>a. with \in Tables
    BY <1>1 DEF Packed
<1> HIDE DEF with
<1>2. Matches(with, u) = {k + 1}
    BY <1>1 DEF user_exists, Matches
<1>3. FirstMatch(with, u) = k + 1 /\ user_exists(with, u)
    BY <1>2, FirstMatchIsFirst DEF user_exists
<1>4. left.users = [with EXCEPT ![k + 1] = FreeSlot] /\ left.total = (total + 1) - 1
    BY <1>1, <1>3 DEF user_delete, with
<1>5. FreeSlot \in User /\ FreeSlot.uname = NoName
    BY DEF FreeSlot, User, USER_OFFLINE
<1>6. t[k + 1].uname = NoName /\ k \in Nat
    BY <1>1, MaxUsersAssumption DEF Packed, Slots
<1>7. /\ left.users \in Tables
      /\ \A i \in Slots : left.users[i] = IF i = k + 1 THEN FreeSlot ELSE with[i]
    BY <1>1, <1>a, <1>4, <1>5 DEF Tables
<1>8. (total + 1) - 1 = total
    OBVIOUS
<1>9. left.total = total
    BY <1>1, <1>4, <1>8
<1> HIDE DEF with
<1>10. \A i \in Slots : \/ left.users[i] = t[i]
                        \/ left.users[i] = FreeSlot /\ t[i].uname = NoName
    BY <1>1, <1>6, <1>7
<1>11. QED
    BY <1>7, <1>9, <1>10

\* Freeing a slot that is free, or changing states, keeps a table packed.
LEMMA SameNamesPacked ==
    ASSUME NEW t, NEW k, Packed(t, k), NEW t2 \in Tables,
           \A i \in Slots : t2[i].uname = t[i].uname
    PROVE  Packed(t2, k)
BY DEF Packed

\* user_delete of the empty name removes nobody.
LEMMA DeleteNobody ==
    ASSUME NEW t, NEW k, Packed(t, k), NEW total \in Int
    PROVE  /\ user_delete(t, total, NoName).users \in Tables
           /\ \A i \in Slots :
                \/ user_delete(t, total, NoName).users[i] = t[i]
                \/ /\ user_delete(t, total, NoName).users[i] = FreeSlot
                   /\ t[i].uname = NoName
           /\ user_delete(t, total, NoName).total \in {total, total - 1}
<1>1. CASE ~user_exists(t, NoName) \/ t[FirstMatch(t, NoName)].state # USER_OFFLINE
    BY <1>1 DEF user_delete, Packed
<1>2. CASE user_exists(t, NoName) /\ t[FirstMatch(t, NoName)].state = USER_OFFLINE
    <2>1. FirstMatch(t, NoName) \in Slots /\ t[FirstMatch(t, NoName)].uname = NoName
        BY <1>2, FirstMatchIsFirst DEF Matches
    <2>2. user_delete(t, total, NoName).users = [t EXCEPT ![FirstMatch(t, NoName)] = FreeSlot]
          /\ user_delete(t, total, NoName).total = total - 1
        BY <1>2 DEF user_delete
    <2>3. FreeSlot \in User /\ FreeSlot.uname = NoName
        BY DEF FreeSlot, User, USER_OFFLINE
    <2>4. QED
        BY <2>1, <2>2, <2>3 DEF Packed, Tables
<1>3. QED BY <1>1, <1>2

-----------------------------------------------------------------------------
(* Sessions                                                                *)

\* No shell command runs for a session that has none.
LEMMA NoJobType == NoJob \in Jobs
BY DEF NoJob, Jobs

\* What a closed session leaves is a session.
LEMMA ClosedType == Closed \in Session
BY BoundsAssumption DEF Closed, Session

\* A session that asks for something runs no shell command.
LEMMA AskingRunsNothing ==
    ASSUME Inv, NEW a \in Admins, mon[a].interest # {}
    PROVE  /\ mon[a] \in Session /\ mon[a].open /\ mon[a].arg = NoName
           /\ Placed(mon[a], job[a])
           /\ job[a] = NoJob
           /\ mon[a].interest = {"WRITE"} \/ mon[a].interest = {"READ"}
BY DEF Inv, SessionOK, Placed, Closed

\* When one session changes, and its shell command perhaps, the invariant has
\* to be looked at for that session only.
LEMMA SessionKeepsInv ==
    ASSUME Inv, NEW a \in Admins, NEW d \in Session, NEW j \in Jobs,
           mon' = [mon EXCEPT ![a] = d], job' = [job EXCEPT ![a] = j],
           SessionOK(d, j),
           logged' \in BOOLEAN,
           logged' => \/ d.open /\ d.logged
                      \/ logged /\ (mon[a].logged => d.open /\ d.logged),
           dirs' \in [Names -> SUBSET Whole],
           alive' \in BOOLEAN,
           total_users' \in Int,
           \E k \in 0 .. MAX_USERS : Packed(users', k) /\ total_users' <= k
    PROVE  Inv'
<1>1. /\ mon' \in [Admins -> Session] /\ job' \in [Admins -> Jobs]
      /\ \A b \in Admins : /\ mon'[b] = IF b = a THEN d ELSE mon[b]
                           /\ job'[b] = IF b = a THEN j ELSE job[b]
    BY DEF Inv
<1>2. \A b \in Admins : SessionOK(mon'[b], job'[b])
    BY <1>1 DEF Inv
<1>3. AdminPlaceNotLost'
    <2>1. CASE ~logged'
        BY <2>1 DEF AdminPlaceNotLost
    <2>2. CASE d.open /\ d.logged
        BY <1>1, <2>2 DEF AdminPlaceNotLost, Open
    <2>3. CASE logged /\ (mon[a].logged => d.open /\ d.logged)
        <3>1. PICK b \in Admins : mon[b].open /\ mon[b].logged
            BY <2>3 DEF Inv, AdminPlaceNotLost, Open
        <3>2. QED
            BY <1>1, <2>3, <3>1 DEF AdminPlaceNotLost, Open
    <2>4. QED
        BY <2>1, <2>2, <2>3
<1>4. QED
    BY <1>1, <1>2, <1>3 DEF Inv

\* The accounts as they are
LEMMA AccountsAsTheyAre ==
    ASSUME Inv, UNCHANGED <<users, total_users>>
    PROVE  /\ total_users' \in Int
           /\ \E k \in 0 .. MAX_USERS : Packed(users', k) /\ total_users' <= k
BY DEF Inv

\* A callback that touches nothing but its session, which stays open and
\* logged in if it was, keeps the invariant if the session is well placed.
LEMMA QuietKeepsInv ==
    ASSUME Inv, NEW a \in Admins, NEW d \in Session,
           mon' = [mon EXCEPT ![a] = d],
           UNCHANGED <<job, logged, accountVars, alive>>,
           d.open, d.arg = NoName, d.logged = mon[a].logged, Placed(d, job[a])
    PROVE  Inv'
<1>1. job' = [job EXCEPT ![a] = job[a]] /\ job[a] \in Jobs
    BY DEF Inv
<1>2. SessionOK(d, job[a])
    BY DEF SessionOK
<1>3. /\ logged' \in BOOLEAN /\ alive' \in BOOLEAN /\ dirs' \in [Names -> SUBSET Whole]
      /\ logged' = logged
    BY DEF Inv, accountVars
<1>4. UNCHANGED <<users, total_users>>
    BY DEF accountVars
<1>5. logged' => logged /\ (mon[a].logged => d.open /\ d.logged)
    BY <1>3
<1>6. /\ total_users' \in Int
      /\ \E k \in 0 .. MAX_USERS : Packed(users', k) /\ total_users' <= k
    BY <1>4, AccountsAsTheyAre
<1>7. QED
    BY <1>1, <1>2, <1>3, <1>5, <1>6, SessionKeepsInv

\* Closing clears the global and leaves no shell command, there being none.
LEMMA CloseKeepsInv ==
    ASSUME Inv, NEW a \in Admins, mon[a].interest # {},
           close_connection(a), UNCHANGED alive
    PROVE  Inv'
<1>1. mon' = [mon EXCEPT ![a] = Closed] /\ logged' = FALSE
    BY DEF close_connection
<1>2. job' = [job EXCEPT ![a] = NoJob] /\ NoJob \in Jobs
    BY AskingRunsNothing, NoJobType DEF Inv, close_connection
<1>3. SessionOK(Closed, NoJob)
    BY DEF SessionOK, Closed
<1>4. /\ alive' \in BOOLEAN /\ dirs' \in [Names -> SUBSET Whole]
      /\ UNCHANGED <<users, total_users>>
    BY DEF Inv, close_connection, accountVars
<1>5. QED
    BY <1>1, <1>2, <1>3, <1>4, ClosedType, AccountsAsTheyAre, SessionKeepsInv

\* The end of the process leaves nothing to look at but the accounts.
LEMMA DieKeepsInv == ASSUME Inv, Die PROVE Inv'
<1>1. /\ mon' = [a \in Admins |-> Closed] /\ job' = [a \in Admins |-> NoJob]
      /\ logged' = FALSE /\ alive' = FALSE
    BY DEF Die
<1>2. \A a \in Admins : SessionOK(mon'[a], job'[a])
    BY <1>1 DEF SessionOK, Closed
<1>3. UNCHANGED <<users, total_users, dirs>>
    BY DEF Die, accountVars
<1>4. QED
    BY <1>1, <1>2, <1>3, ClosedType, NoJobType, AccountsAsTheyAre
       DEF Inv, AdminPlaceNotLost

\* A new session waits for its first line.
LEMMA AcceptKeepsInv ==
    ASSUME Inv, NEW a \in Admins, acceptMonitorConnection(a)
    PROVE  Inv'
<1>1. mon' = [mon EXCEPT ![a] = NewSession] /\ ~mon[a].open
      /\ UNCHANGED <<job, logged, accountVars, alive>>
    BY DEF acceptMonitorConnection
<1>2. mon[a] = Closed /\ job[a] = NoJob
    BY <1>1 DEF Inv, SessionOK
<1>3. NewSession \in Session
    <2> DEFINE c == Closed
    <2>1. c \in Session
        BY ClosedType
    <2> HIDE DEF c
    <2>2. [c EXCEPT !.open = TRUE, !.interest = {"READ"}] \in Session
        BY <2>1 DEF Session
    <2>3. QED
        BY <2>2 DEF NewSession, c
<1>4. /\ NewSession.logged = FALSE /\ NewSession.open = TRUE /\ NewSession.arg = NoName
      /\ mon[a].logged = FALSE
    BY <1>2 DEF NewSession, Closed
<1>5. Placed(NewSession, job[a])
    BY <1>2 DEF NewSession, Closed, Placed, Buffered
<1>6. QED
    BY <1>1, <1>3, <1>4, <1>5, QuietKeepsInv

\* An administrator that hangs up changes nothing the server knows.
LEMMA HangUpKeepsInv ==
    ASSUME Inv, NEW a \in Admins, HangUp(a)
    PROVE  Inv'
<1> DEFINE d == [mon[a] EXCEPT !.gone = TRUE]
<1>1. mon[a] \in Session /\ mon[a].arg = NoName /\ Placed(mon[a], job[a]) /\ mon[a].open
    BY DEF Inv, HangUp, SessionOK
<1>2. mon' = [mon EXCEPT ![a] = d] /\ UNCHANGED <<job, logged, accountVars, alive>>
    BY DEF HangUp
<1>3. d \in Session /\ d.open /\ d.arg = NoName /\ d.logged = mon[a].logged
    BY <1>1 DEF Session
<1>4. Placed(d, job[a])
    BY <1>1 DEF Session, Placed, Buffered
<1> HIDE DEF d
<1>5. QED
    BY <1>2, <1>3, <1>4, QuietKeepsInv

\* Input is followed by OP_WRITE; its end closes.
LEMMA ReadKeepsInv ==
    ASSUME Inv, NEW a \in Admins, handleMonitorRead(a)
    PROVE  Inv'
<1>1. /\ mon[a] \in Session /\ mon[a].open /\ mon[a].arg = NoName
      /\ Placed(mon[a], job[a]) /\ job[a] = NoJob /\ mon[a].interest = {"READ"}
    BY AskingRunsNothing DEF handleMonitorRead
<1>2. \/ EndOfInput(a) /\ UNCHANGED alive
      \/ /\ mon[a].sending
         /\ mon' = [mon EXCEPT ![a].interest = {"WRITE"}]
         /\ UNCHANGED <<job, logged, accountVars, alive>>
      \/ /\ ~mon[a].sending
         /\ \E ch \in Chunks :
              /\ mon[a].lines + ch.lines <= BUFFER_LINES
              /\ mon' = [mon EXCEPT
                   ![a].lines    = @ + ch.lines,
                   ![a].partial  = ch.partial \/ (ch.lines = 0 /\ @),
                   ![a].interest = {"WRITE"}]
         /\ UNCHANGED <<job, logged, accountVars, alive>>
    BY DEF handleMonitorRead
<1>3. CASE EndOfInput(a) /\ UNCHANGED alive
    BY <1>1, <1>3, CloseKeepsInv DEF EndOfInput
<1>4. CASE /\ mon[a].sending
           /\ mon' = [mon EXCEPT ![a].interest = {"WRITE"}]
           /\ UNCHANGED <<job, logged, accountVars, alive>>
    <2> DEFINE d == [mon[a] EXCEPT !.interest = {"WRITE"}]
    <2>1. mon' = [mon EXCEPT ![a] = d]
        BY <1>4
    <2>2. d \in Session /\ d.open /\ d.arg = NoName /\ d.logged = mon[a].logged
        BY <1>1 DEF Session
    <2>3. Placed(d, job[a])
        BY <1>1, <1>4 DEF Session, Placed, Buffered
    <2> HIDE DEF d
    <2>4. QED
        BY <1>4, <2>1, <2>2, <2>3, QuietKeepsInv
<1>5. ASSUME NEW ch \in Chunks,
             ~mon[a].sending,
             mon[a].lines + ch.lines <= BUFFER_LINES,
             mon' = [mon EXCEPT
                   ![a].lines    = @ + ch.lines,
                   ![a].partial  = ch.partial \/ (ch.lines = 0 /\ @),
                   ![a].interest = {"WRITE"}],
             UNCHANGED <<job, logged, accountVars, alive>>
      PROVE  Inv'
    <2> DEFINE d == [mon[a] EXCEPT !.lines = @ + ch.lines,
                                   !.partial = ch.partial \/ (ch.lines = 0 /\ @),
                                   !.interest = {"WRITE"}]
    <2>1. mon' = [mon EXCEPT ![a] = d]
        BY <1>5
    <2>2. /\ ch.lines \in Nat /\ ch.partial \in BOOLEAN
          /\ ch.lines > 0 \/ ch.partial
          /\ mon[a].lines \in Nat /\ mon[a].lines + ch.lines \in 0 .. BUFFER_LINES
        BY <1>1, <1>5, BoundsAssumption DEF Chunks, Session
    <2>3. d \in Session /\ d.open /\ d.arg = NoName /\ d.logged = mon[a].logged
        BY <1>1, <2>2 DEF Session
    <2>4. d.interest = {"WRITE"} /\ Buffered(d) /\ d.sending = mon[a].sending
        BY <1>1, <2>2 DEF Session, Buffered
    <2> HIDE DEF d
    <2>5. Placed(d, job[a])
        <3>1. ~mon[a].sending /\ mon[a].open /\ mon[a] \in Session
            BY <1>1, <1>5
        <3>2. QED
            BY <1>1, <2>4, <3>1 DEF Placed
    <2>6. QED
        BY <1>5, <2>1, <2>3, <2>5, QuietKeepsInv
<1>6. QED
    BY <1>2, <1>3, <1>4, <1>5

-----------------------------------------------------------------------------
(* Writing                                                                 *)

\* A session that writes
LEMMA Writing ==
    ASSUME Inv, NEW a \in Admins, CanWrite(a)
    PROVE  /\ mon[a] \in Session /\ mon[a].open /\ mon[a].arg = NoName
           /\ Placed(mon[a], job[a]) /\ job[a] = NoJob /\ mon[a].interest = {"WRITE"}
           /\ mon[a].interest # {}
BY AskingRunsNothing DEF CanWrite

\* After a send() the session waits for the administrator only if it has no
\* request to look at.
LEMMA RestingIsPlaced ==
    ASSUME Inv, NEW a \in Admins, CanWrite(a), mon[a].sending,
           NEW d \in Session, d = [mon[a] EXCEPT !.sending = d.sending,
                                                 !.unsent = d.unsent,
                                                 !.interest = Resting(mon[a])],
           d.sending => d.unsent > 0 /\ "short" \in SendOutcomes
    PROVE  /\ d.open /\ d.arg = NoName /\ d.logged = mon[a].logged
           /\ Placed(d, job[a])
<1>1. /\ mon[a] \in Session /\ mon[a].open /\ mon[a].arg = NoName
      /\ job[a] = NoJob /\ mon[a].interest = {"WRITE"} /\ ~mon[a].finished
    BY Writing DEF Placed
<1>2. /\ d.interest = Resting(mon[a]) /\ d.finished = mon[a].finished
      /\ d.lines = mon[a].lines /\ d.partial = mon[a].partial
      /\ d.open = mon[a].open /\ d.arg = mon[a].arg /\ d.logged = mon[a].logged
    BY <1>1 DEF Session
<1>3. QED
    BY <1>1, <1>2 DEF Resting, Placed, Buffered

\* Sending: the answer goes on, is finished, or the session ends with it.
LEMMA SendKeepsInv ==
    ASSUME Inv, NEW a \in Admins, NEW o \in SendOutcomes, continue_sending(a, o)
    PROVE  Inv'
<1>1. /\ CanWrite(a) /\ mon[a].sending /\ mon[a] \in Session
      /\ mon[a].interest = {"WRITE"} /\ mon[a].interest # {}
    BY Writing DEF continue_sending
<1>2. Resting(mon[a]) \in SUBSET {"READ", "WRITE"}
    BY <1>1 DEF Resting
<1>3. CASE /\ o = "all"
           /\ mon' = [mon EXCEPT ![a].sending = FALSE, ![a].unsent = 0,
                                 ![a].interest = Resting(mon[a])]
           /\ UNCHANGED <<job, logged, accountVars, alive>>
    <2> DEFINE d == [mon[a] EXCEPT !.sending = FALSE, !.unsent = 0,
                                   !.interest = Resting(mon[a])]
    <2>1. mon' = [mon EXCEPT ![a] = d]
        BY <1>3
    <2> DEFINE r == Resting(mon[a])
    <2>a. 0 \in 0 .. MAX_SENDS /\ r \in SUBSET {"READ", "WRITE"}
        BY <1>2, BoundsAssumption
    <2> HIDE DEF r
    <2>2. d \in Session
        BY <1>1, <2>a DEF Session, r
    <2>3. ~d.sending
        BY <1>1 DEF Session
    <2>4. d = [mon[a] EXCEPT !.sending = d.sending, !.unsent = d.unsent,
                             !.interest = Resting(mon[a])]
        BY <1>1 DEF Session
    <2> HIDE DEF d
    <2>5. /\ d.open /\ d.arg = NoName /\ d.logged = mon[a].logged
          /\ Placed(d, job[a])
        BY <1>1, <2>2, <2>3, <2>4, RestingIsPlaced
    <2>6. QED
        BY <1>3, <2>1, <2>2, <2>5, QuietKeepsInv
<1>4. CASE /\ o = "short"
           /\ mon[a].unsent > 1
           /\ mon' = [mon EXCEPT ![a].unsent = @ - 1, ![a].interest = Resting(mon[a])]
           /\ UNCHANGED <<job, logged, accountVars, alive>>
    <2> DEFINE d == [mon[a] EXCEPT !.unsent = @ - 1, !.interest = Resting(mon[a])]
    <2>1. mon' = [mon EXCEPT ![a] = d]
        BY <1>4
    <2>2. /\ mon[a].unsent \in 0 .. MAX_SENDS /\ mon[a].unsent - 1 > 0
          /\ mon[a].unsent - 1 \in 0 .. MAX_SENDS
        BY <1>1, <1>4, BoundsAssumption DEF Session
    <2>3. d \in Session /\ d.unsent = mon[a].unsent - 1
        BY <1>1, <1>2, <2>2 DEF Session
    <2>4. d = [mon[a] EXCEPT !.sending = d.sending, !.unsent = d.unsent,
                             !.interest = Resting(mon[a])]
        BY <1>1 DEF Session
    <2> HIDE DEF d
    <2>5. d.unsent > 0 /\ "short" \in SendOutcomes
        BY <1>4, <2>2, <2>3
    <2>6. /\ d.open /\ d.arg = NoName /\ d.logged = mon[a].logged
          /\ Placed(d, job[a])
        BY <1>1, <2>3, <2>4, <2>5, RestingIsPlaced
    <2>7. QED
        BY <1>4, <2>1, <2>3, <2>6, QuietKeepsInv
<1>5. CASE close_connection(a) /\ UNCHANGED alive
    BY <1>1, <1>5, CloseKeepsInv
<1>6. CASE Die
    BY <1>6, DieKeepsInv
<1>7. QED
    BY <1>3, <1>4, <1>5, <1>6 DEF continue_sending

\* A parser that gave up changes what is read, or leaves OP_WRITE.
LEMMA ParserKeepsInv ==
    ASSUME Inv, NEW a \in Admins,
           error_arrival(a) \/ save_arg(a) \/ process_char(a) \/ monitor_incomplete(a)
    PROVE  Inv'
<1>1. CASE process_char(a)
    BY <1>1, DieKeepsInv DEF process_char
<1>2. CASE error_arrival(a) \/ save_arg(a) \/ monitor_incomplete(a)
    <2>1. /\ mon[a] \in Session /\ mon[a].open /\ mon[a].arg = NoName
          /\ job[a] = NoJob /\ mon[a].interest = {"WRITE"} /\ ~mon[a].sending /\ ~mon[a].finished
        BY <1>2, Writing DEF error_arrival, save_arg, monitor_incomplete, Parsing
    <2>2. UNCHANGED <<job, logged, accountVars, alive>>
        BY <1>2 DEF error_arrival, save_arg, monitor_incomplete
    <2>3. ASSUME NEW p \in {"rejected", "overlong"}, Buffered(mon[a]),
                 mon' = [mon EXCEPT ![a].parser = p]
          PROVE  Inv'
        <3> DEFINE d == [mon[a] EXCEPT !.parser = p]
        <3>1. mon' = [mon EXCEPT ![a] = d]
            BY <2>3
        <3>2. /\ d \in Session /\ d.open /\ d.arg = NoName /\ d.logged = mon[a].logged
              /\ d.interest = {"WRITE"} /\ Buffered(d) /\ d.sending = mon[a].sending
            BY <2>1, <2>3 DEF Session, Buffered
        <3> HIDE DEF d
        <3>3. Placed(d, job[a])
            BY <2>1, <3>2 DEF Placed
        <3>4. QED
            BY <2>2, <3>1, <3>2, <3>3, QuietKeepsInv
    <2>4. ASSUME NEW p \in {"ok", "overlong"},
                 mon' = [mon EXCEPT ![a].parser = p, ![a].lines = 0,
                                    ![a].partial = FALSE, ![a].interest = {"READ"}]
          PROVE  Inv'
        <3> DEFINE d == [mon[a] EXCEPT !.parser = p, !.lines = 0,
                                       !.partial = FALSE, !.interest = {"READ"}]
        <3>1. mon' = [mon EXCEPT ![a] = d]
            BY <2>4
        <3>2. 0 \in 0 .. BUFFER_LINES
            BY BoundsAssumption
        <3>3. d \in Session
            BY <2>1, <3>2 DEF Session
        <3>4. /\ d.open = mon[a].open /\ d.arg = mon[a].arg /\ d.logged = mon[a].logged
              /\ d.sending = mon[a].sending /\ d.finished = mon[a].finished
              /\ d.interest = {"READ"} /\ d.lines = 0 /\ d.partial = FALSE
            BY <2>1 DEF Session
        <3> HIDE DEF d
        <3>5. Placed(d, job[a])
            BY <2>1, <3>4 DEF Placed, Buffered
        <3>6. d.open /\ d.arg = NoName
            BY <2>1, <3>4
        <3>7. QED
            BY <2>2, <3>1, <3>3, <3>4, <3>5, <3>6, QuietKeepsInv
    <2>5. CASE error_arrival(a)
        BY <2>3, <2>5 DEF error_arrival
    <2>6. CASE save_arg(a)
        BY <2>3, <2>4, <2>6 DEF save_arg
    <2>7. CASE monitor_incomplete(a)
        <3>1. mon[a].parser = "ok" /\ mon[a].lines = 0
              /\ mon' = [mon EXCEPT ![a].partial = FALSE, ![a].interest = {"READ"}]
            BY <2>7 DEF monitor_incomplete
        <3>2. mon' = [mon EXCEPT ![a].parser = "ok", ![a].lines = 0,
                                 ![a].partial = FALSE, ![a].interest = {"READ"}]
            BY <2>1, <3>1 DEF Session, Inv
        <3>3. QED
            BY <2>4, <3>2
    <2>8. QED
        BY <1>2, <2>5, <2>6, <2>7
<1>3. QED
    BY <1>1, <1>2

-----------------------------------------------------------------------------
(* Commands                                                                *)

\* A line is taken and its answer is ready to be sent.
LEMMA AnsweredIsPlaced ==
    ASSUME Inv, NEW a \in Admins, Parsed(a), NEW line \in Line
    PROVE  /\ Answered(mon[a], line) \in Session
           /\ Answered(mon[a], line).open /\ Answered(mon[a], line).arg = NoName
           /\ Answered(mon[a], line).logged = mon[a].logged
           /\ Placed(Answered(mon[a], line), NoJob)
           /\ job[a] = NoJob
<1> DEFINE d == Answered(mon[a], line)
<1>1. /\ mon[a] \in Session /\ mon[a].open /\ job[a] = NoJob
      /\ mon[a].interest = {"WRITE"} /\ mon[a].lines > 0 /\ ~mon[a].finished
    BY Writing DEF Parsed, Parsing
<1>2. mon[a].lines - 1 \in 0 .. BUFFER_LINES /\ MAX_SENDS \in 0 .. MAX_SENDS /\ MAX_SENDS > 0
    BY <1>1, BoundsAssumption DEF Session
<1>3. d = [mon[a] EXCEPT !.lines = @ - 1, !.arg = NoName,
                         !.sending = TRUE, !.unsent = MAX_SENDS]
    BY <1>1 DEF Answered, Consumed, init_monitor_parser, Session
<1>4. /\ d \in Session /\ d.open /\ d.arg = NoName /\ d.logged = mon[a].logged
      /\ d.interest = {"WRITE"} /\ d.sending /\ d.unsent > 0 /\ ~d.finished
    BY <1>1, <1>2, <1>3 DEF Session
<1> HIDE DEF d
<1>5. Placed(d, NoJob)
    BY <1>4 DEF Placed
<1>6. QED
    BY <1>1, <1>4, <1>5 DEF d

\* A command that is only answered leaves accounts and commands alone.
LEMMA OnlyAnswerKeepsInv ==
    ASSUME Inv, NEW a \in Admins, Parsed(a), NEW line \in Line, OnlyAnswer(a, line)
    PROVE  Inv'
BY AnsweredIsPlaced, QuietKeepsInv DEF OnlyAnswer, Parsed

\* LOGIN is refused or takes the place of administrator.
LEMMA LoginKeepsInv ==
    ASSUME Inv, NEW a \in Admins, Parsed(a), NEW line \in Line, monitor_login_cmd(a, line)
    PROVE  Inv'
<1>1. CASE OnlyAnswer(a, line)
    BY <1>1, OnlyAnswerKeepsInv
<1>2. CASE /\ logged' = TRUE
           /\ mon' = [mon EXCEPT ![a] = [Answered(@, line) EXCEPT !.logged = TRUE]]
           /\ UNCHANGED <<job, accountVars>>
    <2> DEFINE e == Answered(mon[a], line)
               d == [e EXCEPT !.logged = TRUE]
    <2>1. e \in Session /\ e.open /\ e.arg = NoName /\ Placed(e, NoJob) /\ job[a] = NoJob
        BY AnsweredIsPlaced
    <2>2. mon' = [mon EXCEPT ![a] = d]
        BY <1>2
    <2> HIDE DEF e
    <2>3. d \in Session /\ d.open /\ d.logged /\ d.arg = NoName /\ Placed(d, NoJob)
        BY <2>1 DEF Session, Placed, Buffered
    <2> HIDE DEF d
    <2>4. SessionOK(d, NoJob) /\ job' = [job EXCEPT ![a] = NoJob] /\ NoJob \in Jobs
        BY <1>2, <2>1, <2>3, NoJobType DEF SessionOK, Inv
    <2>5. /\ logged' \in BOOLEAN /\ alive' \in BOOLEAN /\ dirs' \in [Names -> SUBSET Whole]
          /\ UNCHANGED <<users, total_users>>
        BY <1>2 DEF Inv, accountVars, Parsed
    <2>6. QED
        BY <2>2, <2>3, <2>4, <2>5, AccountsAsTheyAre, SessionKeepsInv
<1>3. QED
    BY <1>1, <1>2 DEF monitor_login_cmd

\* maildir_build makes whole maildirs.
LEMMA BuildType ==
    ASSUME Inv, NEW u
    PROVE  maildir_build(u) \in [Names -> SUBSET Whole]
BY DEF Inv, maildir_build

\* ADD_USER refuses, adds an account behind the others, or takes it back.
LEMMA AddUserKeepsInv ==
    ASSUME Inv, NEW a \in Admins, Parsed(a), NEW line \in Line, line.arg \in Names,
           monitor_add_user_cmd(a, line)
    PROVE  Inv'
<1> DEFINE u == line.arg
           made == maildir_build(u)
<1>1. PICK p \in Passwords :
        LET added == user_add(users, total_users, u, p)
            kept  == IF made[u] = Whole THEN added
                     ELSE user_delete(added.users, added.total, u)
        IN IF added.code # 0 THEN OnlyAnswer(a, line)
           ELSE /\ dirs' = made
                /\ users' = kept.users
                /\ total_users' = kept.total
                /\ mon' = [mon EXCEPT ![a] = Answered(@, line)]
                /\ UNCHANGED <<job, logged>>
    BY DEF monitor_add_user_cmd
<1> DEFINE added == user_add(users, total_users, u, p)
<1>2. CASE added.code # 0
    BY <1>1, <1>2, OnlyAnswerKeepsInv
<1>3. CASE added.code = 0
    <2>1. PICK k \in 0 .. MAX_USERS : Packed(users, k) /\ total_users <= k
        BY DEF Inv
    <2>2. total_users \in Int /\ u \in Names /\ p \in Passwords
        BY <1>1 DEF Inv
    <2> HIDE DEF u
    <2>a. /\ k + 1 \in Slots
          /\ added.total = total_users + 1
          /\ Packed(added.users, k + 1)
        BY <1>3, <2>1, <2>2, UserAddPacks
    <2> DEFINE left == user_delete(added.users, added.total, u)
    <2>b. /\ left.users \in Tables
          /\ \A i \in Slots : \/ left.users[i] = users[i]
                              \/ left.users[i] = FreeSlot /\ users[i].uname = NoName
          /\ left.total = total_users
        BY <1>3, <2>1, <2>2, TakingBack
    <2>c. \/ users' = added.users /\ total_users' = added.total
          \/ users' = left.users /\ total_users' = left.total
        BY <1>1, <1>3
    <2> HIDE DEF added, left
    <2>3. \E n \in 0 .. MAX_USERS : Packed(users', n) /\ total_users' <= n
        <3>1. CASE users' = added.users /\ total_users' = added.total
            <4>1. k + 1 \in 0 .. MAX_USERS /\ total_users + 1 <= k + 1
                BY <2>1, <2>2, <2>a, MaxUsersAssumption DEF Slots
            <4>2. QED
                BY <2>a, <3>1, <4>1
        <3>2. CASE users' = left.users /\ total_users' = left.total
            <4>1. \A i \in Slots : left.users[i].uname = users[i].uname
                BY <2>b DEF FreeSlot
            <4>2. QED
                BY <2>1, <2>b, <3>2, <4>1, SameNamesPacked
        <3>3. QED
            BY <2>c, <3>1, <3>2
    <2>4. total_users' \in Int
        BY <2>2, <2>a, <2>b, <2>c
    <2> DEFINE d == Answered(mon[a], line)
    <2>5. /\ d \in Session /\ d.open /\ d.logged = mon[a].logged
          /\ SessionOK(d, NoJob) /\ job[a] = NoJob
        BY AnsweredIsPlaced DEF SessionOK
    <2>6. /\ mon' = [mon EXCEPT ![a] = d] /\ job' = job /\ logged' = logged /\ dirs' = made
        BY <1>1, <1>3 DEF added
    <2> HIDE DEF d
    <2>7. /\ job' = [job EXCEPT ![a] = NoJob] /\ NoJob \in Jobs
          /\ logged' \in BOOLEAN /\ alive' \in BOOLEAN /\ dirs' \in [Names -> SUBSET Whole]
        BY <2>5, <2>6, NoJobType, BuildType DEF Inv, Parsed
    <2>8. logged' => logged /\ (mon[a].logged => d.open /\ d.logged)
        BY <2>5, <2>6
    <2>9. QED
        BY <2>3, <2>4, <2>5, <2>6, <2>7, <2>8, SessionKeepsInv
<1>4. QED
    BY <1>2, <1>3

\* A shell command is started, or cannot be, which is a "fail" of popen().
LEMMA ExecuteCommandKeepsInv ==
    ASSUME Inv, NEW a \in Admins, Parsed(a), NEW line \in Line, line.arg \in Names,
           NEW code \in {"RM", "POPULATE"}, mon[a].logged,
           executeCommand(a, code, line)
    PROVE  Inv'
<1> DEFINE d == [mon[a] EXCEPT !.lines = @ - 1, !.arg = NoName, !.code = code,
                               !.finished = FALSE, !.failed = FALSE, !.interest = {}]
           started == [code |-> code, user |-> line.arg, at |-> "started"]
<1>1. /\ mon[a] \in Session /\ mon[a].open /\ job[a] = NoJob /\ mon[a].lines > 0
      /\ ~mon[a].sending
    BY Writing DEF Parsed, Parsing
<1>2. mon[a].lines - 1 \in 0 .. BUFFER_LINES
    BY <1>1, BoundsAssumption DEF Session
<1>3. mon' = [mon EXCEPT ![a] = d]
    BY <1>1 DEF executeCommand, Consumed, init_monitor_parser, Session
<1>4. d \in Session
    BY <1>1, <1>2 DEF Session
<1>5. /\ d.open = mon[a].open /\ d.logged = mon[a].logged /\ d.sending = mon[a].sending
      /\ d.arg = NoName /\ d.code = code /\ d.finished = FALSE /\ d.interest = {}
    BY <1>1 DEF Session
<1> HIDE DEF d
<1>6. PICK j \in Jobs :
        /\ job' = [job EXCEPT ![a] = j]
        /\ j = started \/ (j = NoJob /\ "fail" \in PopenOutcomes)
    <2>1. started \in Jobs /\ NoJob \in Jobs
        BY NoJobType DEF Jobs
    <2>2. job = [job EXCEPT ![a] = NoJob]
        BY <1>1 DEF Inv
    <2> HIDE DEF started
    <2>3. PICK o \in PopenOutcomes :
            job' = IF o = "ok" THEN [job EXCEPT ![a] = started] ELSE job
        BY DEF executeCommand, started
    <2>4. CASE o = "ok"
        BY <2>1, <2>3, <2>4
    <2>5. CASE o # "ok"
        <3>1. o = "fail"
            BY <2>5, OutcomesAssumption
        <3>2. QED
            BY <2>1, <2>2, <2>3, <2>5, <3>1
    <2>6. QED
        BY <2>4, <2>5
<1>7. SessionOK(d, j)
    <2>1. j = NoJob => "fail" \in PopenOutcomes
        <3>1. started.code # NoJob.code
            BY DEF NoJob
        <3>2. QED
            BY <1>6, <3>1
    <2>2. j # NoJob => j.code = code
        BY <1>6
    <2>3. QED
        BY <1>1, <1>5, <2>1, <2>2 DEF SessionOK, Placed
<1>8. /\ logged' = logged /\ logged' \in BOOLEAN /\ alive' \in BOOLEAN
      /\ UNCHANGED <<users, total_users>>
    BY DEF Inv, executeCommand, Parsed
<1>9. dirs' \in [Names -> SUBSET Whole]
    BY BuildType DEF executeCommand
<1>10. logged' => logged /\ (mon[a].logged => d.open /\ d.logged)
    BY <1>1, <1>5, <1>8
<1>11. QED
    BY <1>3, <1>4, <1>6, <1>7, <1>8, <1>9, <1>10, AccountsAsTheyAre, SessionKeepsInv

\* Whatever the line says
LEMMA CommandLineKeepsInv ==
    ASSUME Inv, NEW a \in Admins, NEW line \in Line, handle_cmd(a, line)
    PROVE  Inv'
<1>1. Parsed(a)
    BY DEF handle_cmd
<1>2. CASE OnlyAnswer(a, line)
    BY <1>1, <1>2, OnlyAnswerKeepsInv
<1>3. CASE monitor_login_cmd(a, line)
    BY <1>1, <1>3, LoginKeepsInv
<1>4. CASE close_connection(a)
    <2>1. mon[a].interest # {} /\ UNCHANGED alive
        BY <1>1, Writing DEF Parsed, Parsing
    <2>2. QED
        BY <1>4, <2>1, CloseKeepsInv
<1>5. CASE line.cmd = "ADD_USER" /\ monitor_add_user_cmd(a, line)
    <2>1. line.arg \in Names
        BY <1>5 DEF Line
    <2>2. QED
        BY <1>1, <1>5, <2>1, AddUserKeepsInv
<1>6. ASSUME NEW code \in {"RM", "POPULATE"},
             line.cmd \in {"DELETE_USER", "POPULATE_USER"},
             mon[a].logged, executeCommand(a, code, line)
      PROVE  Inv'
    <2>1. line.arg \in Names
        BY <1>6 DEF Line
    <2>2. QED
        BY <1>1, <1>6, <2>1, ExecuteCommandKeepsInv
<1>7. QED
    BY <1>2, <1>3, <1>4, <1>5, <1>6 DEF handle_cmd

-----------------------------------------------------------------------------
(* The shell command, and the accounts again                               *)

\* The shell goes on without the server noticing.
LEMMA ShellKeepsInv ==
    ASSUME Inv, NEW a \in Admins, Shell(a)
    PROVE  Inv'
<1>1. PICK at \in {"printed", "silent"} : job' = [job EXCEPT ![a].at = at]
    BY DEF Shell
<1> DEFINE j == [job[a] EXCEPT !.at = at]
<1>2. job[a] \in Jobs /\ job[a].at = "started"
    BY DEF Inv, Shell
<1>3. j \in Jobs /\ j.code = job[a].code /\ j.at # "none" /\ job' = [job EXCEPT ![a] = j]
    BY <1>1, <1>2 DEF Jobs
<1>4. job[a] # NoJob /\ j # NoJob
    BY <1>2, <1>3 DEF NoJob
<1> HIDE DEF j
<1>5. SessionOK(mon[a], j)
    BY <1>3, <1>4 DEF Inv, SessionOK, Placed
<1>6. /\ mon' = [mon EXCEPT ![a] = mon[a]] /\ mon[a] \in Session
      /\ logged' = logged /\ logged' \in BOOLEAN /\ alive' \in BOOLEAN
      /\ UNCHANGED <<users, total_users>>
    BY DEF Inv, Shell
<1>7. dirs' \in [Names -> SUBSET Whole]
    BY DEF Inv, Shell, Removes
<1>8. logged' => logged /\ (mon[a].logged => mon[a].open /\ mon[a].logged)
    BY <1>4, <1>6 DEF Inv, SessionOK
<1>9. QED
    BY <1>3, <1>5, <1>6, <1>7, <1>8, AccountsAsTheyAre, SessionKeepsInv

\* Its end wakes the session up.
LEMMA HandleCommandKeepsInv ==
    ASSUME Inv, NEW a \in Admins, handle_command(a)
    PROVE  Inv'
<1> DEFINE failed == job[a].at = "silent"
           d == [mon[a] EXCEPT !.finished = TRUE, !.failed = failed, !.interest = {"WRITE"}]
<1>1. job[a] \in Jobs /\ job[a] # NoJob /\ mon[a] \in Session /\ SessionOK(mon[a], job[a])
    BY DEF Inv, handle_command, NoJob
<1>2. mon[a].open /\ mon[a].arg = NoName /\ ~mon[a].sending
    BY <1>1 DEF SessionOK, Placed, Closed
<1>3. mon' = [mon EXCEPT ![a] = d] /\ job' = [job EXCEPT ![a] = NoJob]
    BY DEF handle_command
<1>4. failed \in BOOLEAN
    OBVIOUS
<1> HIDE DEF failed
<1>5. /\ d \in Session /\ d.open = mon[a].open /\ d.arg = mon[a].arg
      /\ d.logged = mon[a].logged /\ d.finished = TRUE /\ d.interest = {"WRITE"}
      /\ d.sending = mon[a].sending
    BY <1>1, <1>4 DEF Session
<1> HIDE DEF d
<1>6. SessionOK(d, NoJob)
    BY <1>2, <1>5 DEF SessionOK, Placed
<1>7. /\ logged' = logged /\ logged' \in BOOLEAN /\ alive' \in BOOLEAN
      /\ UNCHANGED <<users, total_users>> /\ dirs' \in [Names -> SUBSET Whole]
    BY DEF Inv, handle_command, accountVars
<1>8. logged' => logged /\ (mon[a].logged => d.open /\ d.logged)
    BY <1>2, <1>5, <1>7
<1>9. QED
    BY <1>3, <1>5, <1>6, <1>7, <1>8, NoJobType, AccountsAsTheyAre, SessionKeepsInv

\* And its result is told; the account that DELETE_USER deletes is nobody's.
LEMMA FinishedKeepsInv ==
    ASSUME Inv, NEW a \in Admins, handle_finished_cmd(a)
    PROVE  Inv'
<1> DEFINE d == [mon[a] EXCEPT !.sending = TRUE, !.unsent = MAX_SENDS, !.finished = FALSE]
<1>1. /\ mon[a] \in Session /\ mon[a].open /\ mon[a].arg = NoName /\ job[a] = NoJob
      /\ mon[a].interest = {"WRITE"}
    BY Writing DEF handle_finished_cmd
<1>2. MAX_SENDS \in 0 .. MAX_SENDS /\ MAX_SENDS > 0
    BY BoundsAssumption
<1>3. mon' = [mon EXCEPT ![a] = d] /\ job' = [job EXCEPT ![a] = NoJob]
    BY <1>1 DEF handle_finished_cmd, Inv
<1>4. d \in Session
    BY <1>1, <1>2 DEF Session
<1>5. /\ d.open = mon[a].open /\ d.arg = mon[a].arg /\ d.logged = mon[a].logged
      /\ d.interest = mon[a].interest /\ d.sending = TRUE /\ d.unsent = MAX_SENDS
      /\ d.finished = FALSE
    BY <1>1 DEF Session
<1> HIDE DEF d
<1>6. SessionOK(d, NoJob)
    BY <1>1, <1>2, <1>5 DEF SessionOK, Placed
<1>7. /\ logged' = logged /\ logged' \in BOOLEAN /\ alive' \in BOOLEAN
      /\ dirs' \in [Names -> SUBSET Whole]
    BY DEF Inv, handle_finished_cmd, accountVars
<1>8. /\ total_users' \in Int
      /\ \E k \in 0 .. MAX_USERS : Packed(users', k) /\ total_users' <= k
    <2>1. CASE UNCHANGED accountVars
        BY <2>1, AccountsAsTheyAre DEF accountVars
    <2> DEFINE left == user_delete(users, total_users, NoName)
    <2>2. CASE users' = left.users /\ total_users' = left.total
        <3>1. PICK k \in 0 .. MAX_USERS : Packed(users, k) /\ total_users <= k
            BY DEF Inv
        <3>2. total_users \in Int
            BY DEF Inv
        <3>3. /\ left.users \in Tables
              /\ \A i \in Slots : \/ left.users[i] = users[i]
                                  \/ left.users[i] = FreeSlot /\ users[i].uname = NoName
              /\ left.total \in {total_users, total_users - 1}
            BY <3>1, <3>2, DeleteNobody
        <3> HIDE DEF left
        <3>4. Packed(left.users, k)
            <4>1. \A i \in Slots : left.users[i].uname = users[i].uname
                BY <3>3 DEF FreeSlot
            <4>2. QED
                BY <3>1, <3>3, <4>1, SameNamesPacked
        <3>5. QED
            BY <2>2, <3>1, <3>2, <3>3, <3>4
    <2>3. QED
        BY <1>1, <2>1, <2>2 DEF handle_finished_cmd
<1>9. logged' => logged /\ (mon[a].logged => d.open /\ d.logged)
    BY <1>1, <1>5, <1>7
<1>10. QED
    BY <1>3, <1>4, <1>6, <1>7, <1>8, <1>9, NoJobType, SessionKeepsInv

-----------------------------------------------------------------------------
(* POP3 clients                                                            *)

\* user_set_state renames nobody.
LEMMA SetStateKeepsNames ==
    ASSUME NEW t \in Tables, NEW u,
           NEW s \in {USER_OFFLINE, USER_LOGGING, USER_ONLINE}
    PROVE  /\ user_set_state(t, u, s) \in Tables
           /\ \A i \in Slots : user_set_state(t, u, s)[i].uname = t[i].uname
<1> DEFINE t2 == [i \in Slots |-> IF t[i].uname = u THEN [t[i] EXCEPT !.state = s] ELSE t[i]]
<1>1. user_set_state(t, u, s) = t2
    BY DEF user_set_state, USER_OFFLINE, USER_LOGGING, USER_ONLINE, USER_NOT_FOUND
<1>2. \A i \in Slots : t2[i] \in User /\ t2[i].uname = t[i].uname
    <2>1. TAKE i \in Slots
    <2>2. t[i] \in User
        BY DEF Tables
    <2>3. [t[i] EXCEPT !.state = s] \in User /\ [t[i] EXCEPT !.state = s].uname = t[i].uname
        BY <2>2 DEF User
    <2>4. QED
        BY <2>2, <2>3
<1>3. t2 \in Tables
    BY <1>2 DEF Tables
<1>4. QED
    BY <1>1, <1>2, <1>3

\* Neither USER nor PASS nor the end of a POP3 session touches an
\* administrator, or a name in the table.
LEMMA ClientKeepsInv ==
    ASSUME Inv, NEW u, user_cmd(u) \/ pass_cmd(u) \/ release(u)
    PROVE  Inv'
<1>1. PICK s \in {USER_OFFLINE, USER_LOGGING, USER_ONLINE} :
        users' = user_set_state(users, u, s)
    BY DEF user_cmd, pass_cmd, release
<1>2. PICK k \in 0 .. MAX_USERS : Packed(users, k) /\ total_users <= k
    BY DEF Inv
<1>3. users \in Tables
    BY <1>2 DEF Packed
<1>4. Packed(users', k)
    BY <1>1, <1>2, <1>3, SetStateKeepsNames, SameNamesPacked
<1>5. UNCHANGED <<mon, job, logged, total_users, alive>>
    BY DEF user_cmd, pass_cmd, release
<1>6. dirs' \in [Names -> SUBSET Whole]
    BY BuildType DEF user_cmd, pass_cmd, release, Inv
<1>7. AdminPlaceNotLost'
    BY <1>5 DEF Inv, AdminPlaceNotLost, Open
<1>8. QED
    BY <1>2, <1>4, <1>5, <1>6, <1>7 DEF Inv

-----------------------------------------------------------------------------
(* The invariant                                                           *)

\* At start-up the accounts of the command line fill the first slots.
LEMMA InitInv == Init => Inv
<1> SUFFICES ASSUME Init PROVE Inv
    OBVIOUS
<1> DEFINE n == Len(Accounts)
           t == TableOf(Accounts)
<1>1. n \in 0 .. MAX_USERS /\ n \in Int
    BY AdminAccountsAssumption, MaxUsersAssumption
<1>2. \A i \in Slots : i <= n => Accounts[i] \in Names \X Passwords /\ i \in DOMAIN Accounts
    BY AdminAccountsAssumption, MaxUsersAssumption DEF Slots
<1>3. \A i \in Slots : i <= n =>
        /\ t[i] = [uname |-> Accounts[i][1], pass |-> Accounts[i][2], state |-> USER_OFFLINE]
        /\ t[i] \in User
        /\ t[i].uname = Accounts[i][1]
        /\ t[i].uname \in Names
    BY <1>2 DEF TableOf, User
<1>4. \A i \in Slots : n < i => t[i] = FreeSlot /\ t[i] \in User /\ t[i].uname = NoName
    <2>1. FreeSlot \in User /\ FreeSlot.uname = NoName
        BY DEF FreeSlot, User, USER_OFFLINE
    <2>2. QED
        BY <1>1, <2>1, MaxUsersAssumption DEF TableOf, Slots
<1>5. t \in Tables
    <2>1. \A i \in Slots : i <= n \/ n < i
        BY <1>1, MaxUsersAssumption DEF Slots
    <2>2. \A i \in Slots : t[i] \in User
        BY <1>3, <1>4, <2>1
    <2>3. QED
        BY <2>2 DEF TableOf, Tables
<1>6. Packed(t, n)
    <2> HIDE DEF t, n
    <2>1. ASSUME NEW i \in Slots
          PROVE  t[i].uname = NoName <=> n < i
        <3>1. i \in Int /\ (i <= n <=> ~(n < i))
            BY <1>1, MaxUsersAssumption DEF Slots
        <3>2. QED
            BY <1>3, <1>4, <3>1, NoNameAssumption
    <2>2. ASSUME NEW i \in Slots, NEW j \in Slots,
                 t[i].uname = t[j].uname, t[i].uname # NoName
          PROVE  i = j
        <3>1. i <= n /\ j <= n
            BY <1>1, <2>1, <2>2, MaxUsersAssumption DEF Slots
        <3>2. Accounts[i][1] = Accounts[j][1] /\ i \in DOMAIN Accounts /\ j \in DOMAIN Accounts
            BY <1>2, <1>3, <2>2, <3>1
        <3>3. QED
            BY <3>2, AdminAccountsAssumption
    <2>3. QED
        BY <1>1, <1>5, <2>1, <2>2 DEF Packed
<1>7. \A a \in Admins : mon[a] = Closed /\ job[a] = NoJob
    BY DEF Init
<1>8. \A a \in Admins : SessionOK(mon[a], job[a])
    <2>1. SessionOK(Closed, NoJob)
        BY DEF SessionOK, Closed
    <2>2. QED
        BY <1>7, <2>1
<1>9. /\ mon \in [Admins -> Session] /\ job \in [Admins -> Jobs]
      /\ logged = FALSE /\ alive = TRUE /\ dirs \in [Names -> SUBSET Whole]
      /\ users = t /\ total_users = n
    BY ClosedType, NoJobType DEF Init
<1> HIDE DEF t, n
<1>10. \E k \in 0 .. MAX_USERS : Packed(users, k) /\ total_users <= k
    BY <1>1, <1>6, <1>9
<1>11. AdminPlaceNotLost
    BY <1>9 DEF AdminPlaceNotLost
<1>12. QED
    BY <1>1, <1>8, <1>9, <1>10, <1>11 DEF Inv

\* Every step, one case per handler.
LEMMA NextKeepsInv == Inv /\ [Next]_vars => Inv'
<1> SUFFICES ASSUME Inv, [Next]_vars PROVE Inv'
    OBVIOUS
<1>1. ASSUME NEW a \in Admins, acceptMonitorConnection(a) PROVE Inv'
    BY <1>1, AcceptKeepsInv
<1>2. ASSUME NEW a \in Admins, HangUp(a) PROVE Inv'
    BY <1>2, HangUpKeepsInv
<1>3. ASSUME NEW a \in Admins, handleMonitorRead(a) PROVE Inv'
    BY <1>3, ReadKeepsInv
<1>4. ASSUME NEW a \in Admins, handleMonitorWrite(a) PROVE Inv'
    <2>1. \A l \in Requests[a] : l \in Line
        BY RequestsAssumption
    <2>2. CASE \E o \in SendOutcomes : continue_sending(a, o)
        BY <2>2, SendKeepsInv
    <2>3. CASE handle_finished_cmd(a)
        BY <2>3, FinishedKeepsInv
    <2>4. CASE error_arrival(a) \/ save_arg(a) \/ process_char(a) \/ monitor_incomplete(a)
        BY <2>4, ParserKeepsInv
    <2>5. CASE \E l \in Requests[a] : handle_cmd(a, l)
        BY <2>1, <2>5, CommandLineKeepsInv
    <2>6. QED
        BY <1>4, <2>2, <2>3, <2>4, <2>5 DEF handleMonitorWrite
<1>5. ASSUME NEW a \in Admins, Shell(a) PROVE Inv'
    BY <1>5, ShellKeepsInv
<1>6. ASSUME NEW a \in Admins, handle_command(a) PROVE Inv'
    BY <1>6, HandleCommandKeepsInv
<1>7. ASSUME NEW u, user_cmd(u) \/ pass_cmd(u) \/ release(u) PROVE Inv'
    BY <1>7, ClientKeepsInv
<1>8. CASE UNCHANGED vars
    BY <1>8 DEF vars, Inv, AdminPlaceNotLost, Open
<1>9. QED
    BY <1>1, <1>2, <1>3, <1>4, <1>5, <1>6, <1>7, <1>8 DEF Next

\* So the invariant holds always.
LEMMA Invariance == Spec => []Inv
BY InitInv, NextKeepsInv, PTL DEF Spec

-----------------------------------------------------------------------------
(* What follows from it                                                    *)

\* The sessions, the shell commands, the accounts and the maildirs are always
\* of the form monitor.c and user.c give them.
THEOREM TypeCorrect == Spec => []TypeOK
<1>1. Inv => TypeOK
    BY DEF Inv, TypeOK, Packed
<1>2. QED
    BY <1>1, Invariance, PTL

\* handle_command always finds the session whose cmd_data it writes to, and
\* finds it asleep, logged in and with nothing else to answer.
THEOREM CommandsKeepTheirSessions == Spec => []CommandKeepsItsSession
<1>1. Inv => CommandKeepsItsSession
    BY DEF Inv, CommandKeepsItsSession, SessionOK, Placed
<1>2. QED
    BY <1>1, Invariance, PTL

\* A session that has something to do is not asleep in the selector.
THEOREM MonitorStaysAwake == Spec => []MonitorIsAwake
<1>1. Inv => MonitorIsAwake
    BY DEF Inv, MonitorIsAwake, Open, SessionOK, Placed, Stranded
<1>2. QED
    BY <1>1, Invariance, PTL

\* The global of monitor.c never stays set after the session that set it.
THEOREM PlaceIsNotLost == Spec => []AdminPlaceNotLost
<1>1. Inv => AdminPlaceNotLost
    BY DEF Inv
<1>2. QED
    BY <1>1, Invariance, PTL

\* user_add adds no name twice, wherever the free slots are.
THEOREM NamesStayUnique == Spec => []NamesAreUnique
<1>1. Inv => NamesAreUnique
    BY NoNameAssumption DEF Inv, NamesAreUnique, Packed, Matches
<1>2. QED
    BY <1>1, Invariance, PTL

\* total_users never says that the table is full when it is not.
THEOREM CountNeverTooHigh == Spec => []AddRefusedOnlyWhenFull
<1>1. Inv => AddRefusedOnlyWhenFull
    <2> SUFFICES ASSUME Inv PROVE AddRefusedOnlyWhenFull
        OBVIOUS
    <2>1. PICK k \in 0 .. MAX_USERS : Packed(users, k) /\ total_users <= k
        BY DEF Inv
    <2>2. Occupied(users) = 1 .. k
        BY <2>1, MaxUsersAssumption DEF Packed, Occupied, Matches, Slots
    <2>3. Cardinality(1 .. k) = k
        BY <2>1, FS_Interval, MaxUsersAssumption
    <2>4. QED
        BY <2>1, <2>2, <2>3 DEF AddRefusedOnlyWhenFull
<1>2. QED
    BY <1>1, Invariance, PTL

-----------------------------------------------------------------------------
(* Steps                                                                   *)

\* The slots of names keep them, and the free slots stay free.
SameNames == \A i \in Slots : users'[i].uname = users[i].uname

\* And what is in the slots of names is the same.
SameAccounts ==
    \A i \in Slots : \/ users'[i] = users[i]
                     \/ users'[i].uname = NoName /\ users[i].uname = NoName

\* The name u takes a free slot, and nothing else changes in the table.
Comes(u) ==
    /\ ~user_exists(users, u)
    /\ \E j \in Slots :
         /\ users[j].uname = NoName
         /\ users'[j].uname = u
         /\ users'[j].state = USER_OFFLINE
         /\ \A i \in Slots \ {j} : users'[i] = users[i]

\* ADD_USER is all or nothing.
LEMMA AddUserStep ==
    ASSUME Inv, NEW a \in Admins, NEW line \in Line, line.arg \in Names,
           monitor_add_user_cmd(a, line)
    PROVE  \/ SameAccounts
           \/ Comes(line.arg) /\ dirs'[line.arg] = Whole
<1> DEFINE u == line.arg
           made == maildir_build(u)
<1>1. PICK p \in Passwords :
        LET added == user_add(users, total_users, u, p)
            kept  == IF made[u] = Whole THEN added
                     ELSE user_delete(added.users, added.total, u)
        IN IF added.code # 0 THEN OnlyAnswer(a, line)
           ELSE /\ dirs' = made
                /\ users' = kept.users
                /\ total_users' = kept.total
                /\ mon' = [mon EXCEPT ![a] = Answered(@, line)]
                /\ UNCHANGED <<job, logged>>
    BY DEF monitor_add_user_cmd
<1> DEFINE added == user_add(users, total_users, u, p)
           left  == user_delete(added.users, added.total, u)
<1>2. PICK k \in 0 .. MAX_USERS : Packed(users, k) /\ total_users <= k
    BY DEF Inv
<1>3. total_users \in Int /\ u \in Names /\ p \in Passwords
    BY <1>1 DEF Inv
<1>4. CASE added.code # 0
    BY <1>1, <1>4 DEF OnlyAnswer, accountVars, SameAccounts
<1>5. CASE added.code = 0 /\ made[u] = Whole
    <2>1. users' = added.users /\ dirs'[u] = Whole
        BY <1>1, <1>5
    <2>2. k + 1 \in Slots /\ users[k + 1].uname = NoName
        <3>1. k + 1 \in Slots
            BY <1>2, <1>3, <1>5, UserAddPacks
        <3>2. QED
            BY <1>2, <3>1, MaxUsersAssumption DEF Packed, Slots
    <2> HIDE DEF u
    <2>3. /\ ~user_exists(users, u)
          /\ added.users[k + 1].uname = u
          /\ added.users[k + 1].state = USER_OFFLINE
          /\ \A i \in Slots \ {k + 1} : added.users[i] = users[i]
        BY <1>2, <1>3, <1>5, UserAddPacks
    <2> HIDE DEF added
    <2>4. Comes(u)
        BY <2>1, <2>2, <2>3 DEF Comes
    <2>5. QED
        BY <2>1, <2>4 DEF u
<1>6. CASE added.code = 0 /\ made[u] # Whole
    <2>1. users' = left.users
        BY <1>1, <1>6
    <2> HIDE DEF u
    <2>2. \A i \in Slots : \/ left.users[i] = users[i]
                           \/ left.users[i] = FreeSlot /\ users[i].uname = NoName
        BY <1>2, <1>3, <1>6, TakingBack
    <2> HIDE DEF added, left
    <2>3. QED
        BY <2>1, <2>2 DEF SameAccounts, FreeSlot
<1>7. QED
    BY <1>4, <1>5, <1>6

\* DELETE_USER is nothing.
LEMMA FinishedStep ==
    ASSUME Inv, NEW a \in Admins, handle_finished_cmd(a)
    PROVE  SameAccounts
<1> DEFINE left == user_delete(users, total_users, NoName)
<1>1. mon[a].arg = NoName
    BY Writing DEF handle_finished_cmd
<1>2. users' = users \/ users' = left.users
    BY <1>1 DEF handle_finished_cmd, accountVars
<1>3. PICK k \in 0 .. MAX_USERS : Packed(users, k)
    BY DEF Inv
<1>4. total_users \in Int
    BY DEF Inv
<1>5. \A i \in Slots : \/ left.users[i] = users[i]
                       \/ left.users[i] = FreeSlot /\ users[i].uname = NoName
    BY <1>3, <1>4, DeleteNobody
<1> HIDE DEF left
<1>6. QED
    BY <1>2, <1>5 DEF SameAccounts, FreeSlot

\* Nobody leaves the table, and who comes has a whole maildir.
LEMMA AccountStep ==
    ASSUME Inv, [Next]_vars
    PROVE  SameNames \/ \E u \in Names : Comes(u) /\ dirs'[u] = Whole
<1>1. ASSUME UNCHANGED users PROVE SameNames
    BY <1>1 DEF SameNames
<1>2. ASSUME NEW u, user_cmd(u) \/ pass_cmd(u) \/ release(u) PROVE SameNames
    <2>1. PICK s \in {USER_OFFLINE, USER_LOGGING, USER_ONLINE} :
            users' = user_set_state(users, u, s)
        BY <1>2 DEF user_cmd, pass_cmd, release
    <2>2. users \in Tables
        BY DEF Inv, Packed
    <2>3. QED
        BY <2>1, <2>2, SetStateKeepsNames DEF SameNames
<1>3. ASSUME NEW a \in Admins, handle_finished_cmd(a) PROVE SameNames
    BY <1>3, FinishedStep DEF SameAccounts, SameNames
<1>4. ASSUME NEW a \in Admins, NEW line \in Line, handle_cmd(a, line)
      PROVE  \/ UNCHANGED users
             \/ line.arg \in Names /\ monitor_add_user_cmd(a, line)
    <2>1. CASE OnlyAnswer(a, line)
        BY <2>1 DEF OnlyAnswer, accountVars
    <2>2. CASE monitor_login_cmd(a, line)
        BY <2>1, <2>2 DEF monitor_login_cmd, accountVars
    <2>3. CASE close_connection(a)
        BY <2>3 DEF close_connection, accountVars
    <2>4. ASSUME NEW code, executeCommand(a, code, line)
          PROVE  UNCHANGED users
        BY <2>4 DEF executeCommand
    <2>5. CASE line.cmd = "ADD_USER" /\ monitor_add_user_cmd(a, line)
        BY <2>5 DEF Line
    <2>6. QED
        BY <1>4, <2>1, <2>2, <2>3, <2>4, <2>5 DEF handle_cmd
<1>5. ASSUME NEW a \in Admins, handleMonitorWrite(a)
      PROVE  SameNames \/ \E u \in Names : Comes(u) /\ dirs'[u] = Whole
    <2>1. \A l \in Requests[a] : l \in Line
        BY RequestsAssumption
    <2>2. CASE \E l \in Requests[a] : handle_cmd(a, l)
        BY <1>1, <1>4, <2>1, <2>2, AddUserStep DEF SameAccounts, SameNames
    <2>3. CASE handle_finished_cmd(a)
        BY <1>3, <2>3
    <2>4. CASE \E o \in SendOutcomes : continue_sending(a, o)
        BY <1>1, <2>4 DEF continue_sending, close_connection, Die, accountVars
    <2>5. CASE error_arrival(a) \/ save_arg(a) \/ process_char(a) \/ monitor_incomplete(a)
        BY <1>1, <2>5 DEF error_arrival, save_arg, process_char, monitor_incomplete, Die,
                          accountVars
    <2>6. QED
        BY <1>5, <2>2, <2>3, <2>4, <2>5 DEF handleMonitorWrite
<1>6. ASSUME NEW a \in Admins,
             \/ acceptMonitorConnection(a) \/ HangUp(a) \/ handleMonitorRead(a)
             \/ Shell(a) \/ handle_command(a)
      PROVE  UNCHANGED users
    BY <1>6 DEF acceptMonitorConnection, HangUp, handleMonitorRead, EndOfInput,
                close_connection, Shell, handle_command, accountVars
<1>7. CASE UNCHANGED vars
    BY <1>1, <1>7 DEF vars
<1>8. QED
    BY <1>1, <1>2, <1>5, <1>6, <1>7 DEF Next

\* DELETE_USER deletes nobody, and a failed ADD_USER takes back nobody else.
THEOREM AccountsAlwaysStay == Spec => AccountsStay
<1>1. Inv /\ [Next]_vars =>
        [\A u \in Names : user_exists(users, u) => user_exists(users', u)]_vars
    <2> SUFFICES ASSUME Inv, [Next]_vars, NEW u \in Names, user_exists(users, u)
                 PROVE  user_exists(users', u)
        OBVIOUS
    <2>1. PICK i \in Slots : users[i].uname = u
        BY DEF user_exists, Matches
    <2>2. CASE SameNames
        BY <2>1, <2>2 DEF SameNames, user_exists, Matches
    <2>3. CASE \E v \in Names : Comes(v)
        <3>1. users'[i].uname = u
            BY <2>1, <2>3, NoNameAssumption DEF Comes
        <3>2. QED
            BY <3>1 DEF user_exists, Matches
    <2>4. QED
        BY <2>2, <2>3, AccountStep
<1>2. QED
    BY <1>1, Invariance, PTL DEF Spec, AccountsStay

\* An account is not left without a maildir.
THEOREM NoAccountWithoutMaildir == Spec => NewAccountsHaveMaildir
<1>1. Inv /\ [Next]_vars =>
        [\A u \in Names :
           user_exists(users', u) /\ ~user_exists(users, u) => dirs'[u] = Whole]_vars
    <2> SUFFICES ASSUME Inv, [Next]_vars, NEW u \in Names,
                        user_exists(users', u), ~user_exists(users, u)
                 PROVE  dirs'[u] = Whole
        OBVIOUS
    <2>1. PICK i \in Slots : users'[i].uname = u
        BY DEF user_exists, Matches
    <2>2. users[i].uname # u
        BY DEF user_exists, Matches
    <2>3. ~SameNames
        BY <2>1, <2>2 DEF SameNames
    <2>4. PICK v \in Names : Comes(v) /\ dirs'[v] = Whole
        BY <2>3, AccountStep
    <2>5. v = u
        BY <2>1, <2>2, <2>4 DEF Comes
    <2>6. QED
        BY <2>4, <2>5
<1>2. QED
    BY <1>1, Invariance, PTL DEF Spec, NewAccountsHaveMaildir

\* The shell command of DELETE_USER removes the directory of unfinished
\* deliveries, and nothing else that the server or a shell does removes more.
THEOREM MailAlwaysStays == Spec => MailStays
<1>1. Inv /\ [Next]_vars =>
        [\A u \in Names :
           {"cur", "new"} \subseteq dirs[u] => {"cur", "new"} \subseteq dirs'[u]]_vars
    <2> SUFFICES ASSUME Inv, [Next]_vars, NEW u \in Names,
                        {"cur", "new"} \subseteq dirs[u]
                 PROVE  {"cur", "new"} \subseteq dirs'[u]
        OBVIOUS
    <2>1. dirs \in [Names -> SUBSET Whole]
        BY DEF Inv
    <2>2. CASE UNCHANGED dirs
        BY <2>2
    <2>3. ASSUME NEW v, dirs' = maildir_build(v)
          PROVE  {"cur", "new"} \subseteq dirs'[u]
        BY <2>1, <2>3 DEF maildir_build, Whole
    <2>4. ASSUME NEW v, dirs' = Removes(v)
          PROVE  {"cur", "new"} \subseteq dirs'[u]
        BY <2>1, <2>4 DEF Removes
    <2>5. ASSUME NEW v, user_cmd(v) \/ pass_cmd(v) \/ release(v)
          PROVE  UNCHANGED dirs \/ dirs' = maildir_build(v)
        BY <2>5 DEF user_cmd, pass_cmd, release
    <2>6. ASSUME NEW a \in Admins, NEW line, handle_cmd(a, line)
          PROVE  UNCHANGED dirs \/ dirs' = maildir_build(line.arg)
        <3>1. CASE OnlyAnswer(a, line)
            BY <3>1 DEF OnlyAnswer, accountVars
        <3>2. CASE monitor_login_cmd(a, line)
            BY <3>1, <3>2 DEF monitor_login_cmd, accountVars
        <3>3. CASE close_connection(a)
            BY <3>3 DEF close_connection, accountVars
        <3>4. ASSUME NEW code, executeCommand(a, code, line)
              PROVE  dirs' = maildir_build(line.arg)
            BY <3>4 DEF executeCommand
        <3>5. CASE monitor_add_user_cmd(a, line)
            BY <3>1, <3>5 DEF monitor_add_user_cmd
        <3>6. QED
            BY <2>6, <3>1, <3>2, <3>3, <3>4, <3>5 DEF handle_cmd
    <2>7. ASSUME NEW a \in Admins, handleMonitorWrite(a)
          PROVE  UNCHANGED dirs \/ \E v : dirs' = maildir_build(v)
        <3>1. CASE \E o \in SendOutcomes : continue_sending(a, o)
            BY <3>1 DEF continue_sending, close_connection, Die, accountVars
        <3>2. CASE handle_finished_cmd(a)
            BY <3>2 DEF handle_finished_cmd, accountVars
        <3>3. CASE error_arrival(a) \/ save_arg(a) \/ process_char(a) \/ monitor_incomplete(a)
            BY <3>3 DEF error_arrival, save_arg, process_char, monitor_incomplete, Die,
                        accountVars
        <3>4. CASE \E l \in Requests[a] : handle_cmd(a, l)
            BY <2>6, <3>4
        <3>5. QED
            BY <2>7, <3>1, <3>2, <3>3, <3>4 DEF handleMonitorWrite
    <2>8. ASSUME NEW a \in Admins, Shell(a)
          PROVE  UNCHANGED dirs \/ dirs' = Removes(job[a].user)
        BY <2>8 DEF Shell
    <2>9. ASSUME NEW a \in Admins,
                 \/ acceptMonitorConnection(a) \/ HangUp(a) \/ handleMonitorRead(a)
                 \/ handle_command(a)
          PROVE  UNCHANGED dirs
        BY <2>9 DEF acceptMonitorConnection, HangUp, handleMonitorRead, EndOfInput,
                    close_connection, handle_command, accountVars
    <2>10. CASE UNCHANGED vars
        BY <2>10 DEF vars
    <2>11. QED
        BY <2>2, <2>3, <2>4, <2>5, <2>7, <2>8, <2>9, <2>10 DEF Next
<1>2. QED
    BY <1>1, Invariance, PTL DEF Spec, MailStays

=============================================================================
