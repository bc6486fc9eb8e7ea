------------------------------- MODULE Users -------------------------------
(***************************************************************************)
(* The account table of src/src/server/user.c: a fixed array of slots that *)
(* every POP3 and monitor connection reads and writes.  A free slot is one *)
(* whose name is the empty string, so NoName is an ordinary argument of    *)
(* every operation here: strcmp("", slot.uname) matches the free slots.    *)
(*                                                                         *)
(* The table is a value; the operators are the functions of user.c.        *)
(***************************************************************************)
EXTENDS Integers, Sequences

CONSTANTS
    Names,      \* user names a client may send, known to the server or not
    Passwords,  \* passwords a client may send
    NoName,     \* the empty string as a user name
    NoPass,     \* the empty string as a password
    MAX_USERS   \* number of slots (510 in user.h)

ASSUME MaxUsersAssumption == MAX_USERS \in Nat \ {0}
ASSUME NoNameAssumption   == NoName \notin Names
ASSUME NoPassAssumption   == NoPass \notin Passwords

\* enum user_states
USER_OFFLINE   == 0
USER_LOGGING   == 1
USER_ONLINE    == 2
USER_NOT_FOUND == 3

Slots == 1 .. MAX_USERS

User == [uname : Names \union {NoName},
         pass  : Passwords \union {NoPass},
         state : {USER_OFFLINE, USER_LOGGING, USER_ONLINE}]

Tables == [Slots -> User]

FreeSlot == [uname |-> NoName, pass |-> NoPass, state |-> USER_OFFLINE]

\* The zeroed array, and the table main() builds by calling user_add on the
\* accounts of the command line, in order.
TableOf(accounts) ==
    [i \in Slots |->
        IF i <= Len(accounts)
        THEN [uname |-> accounts[i][1], pass |-> accounts[i][2],
              state |-> USER_OFFLINE]
        ELSE FreeSlot]

\* The slots strcmp accepts, and the one the early-returning loops stop at.
Matches(t, u) == {i \in Slots : t[i].uname = u}

FirstMatch(t, u) ==
    CHOOSE i \in Matches(t, u) : \A j \in Matches(t, u) : i <= j

user_exists(t, u) == Matches(t, u) # {}

user_get_state(t, u) ==
    IF user_exists(t, u) THEN t[FirstMatch(t, u)].state ELSE USER_NOT_FOUND

\* The only loop of user.c without a break: it writes every matching slot.
user_set_state(t, u, s) ==
    IF s >= USER_NOT_FOUND
    THEN t
    ELSE [i \in Slots |-> IF t[i].uname = u THEN [t[i] EXCEPT !.state = s]
                                            ELSE t[i]]

user_check_pass(t, u, p) ==
    user_exists(t, u) /\ t[FirstMatch(t, u)].pass = p

-----------------------------------------------------------------------------
(* user_add and user_delete.  They return -1 or -2 instead of 0 when they  *)
(* refuse; total is total_users.                                           *)

FirstFree(t) == FirstMatch(t, NoName)
Occupied(t)  == Slots \ Matches(t, NoName)

\* Mutant: the name is not compared.
UserAddUnchecked(t, total, u, p) ==
    IF total = MAX_USERS \/ Matches(t, NoName) = {}
    THEN [code |-> -1, users |-> t, total |-> total]
    ELSE [code  |-> 0,
          users |-> [t EXCEPT ![FirstFree(t)] =
                       [uname |-> u, pass |-> p, state |-> USER_OFFLINE]],
          total |-> total + 1]

\* One loop over the slots: the first free one is taken before the slots
\* behind it are compared with the name.
user_add(t, total, u, p) ==
    IF total = MAX_USERS THEN [code |-> -1, users |-> t, total |-> total]
    ELSE IF user_exists(t, u)
            /\ \A i \in Matches(t, NoName) : FirstMatch(t, u) < i
    THEN [code |-> -2, users |-> t, total |-> total]
    ELSE IF Matches(t, NoName) = {}
    THEN [code |-> -1, users |-> t, total |-> total]
    ELSE [code  |-> 0,
          users |-> [t EXCEPT ![FirstFree(t)] =
                       [uname |-> u, pass |-> p, state |-> USER_OFFLINE]],
          total |-> total + 1]

\* Mutant: the count is left alone.
UserDeleteUncounted(t, total, u) ==
    IF ~user_exists(t, u) THEN [code |-> -1, users |-> t, total |-> total]
    ELSE IF t[FirstMatch(t, u)].state # USER_OFFLINE
    THEN [code |-> -2, users |-> t, total |-> total]
    ELSE [code  |-> 0,
          users |-> [t EXCEPT ![FirstMatch(t, u)] = FreeSlot],
          total |-> total]

user_delete(t, total, u) ==
    IF ~user_exists(t, u) THEN [code |-> -1, users |-> t, total |-> total]
    ELSE IF t[FirstMatch(t, u)].state # USER_OFFLINE
    THEN [code |-> -2, users |-> t, total |-> total]
    ELSE [code  |-> 0,
          users |-> [t EXCEPT ![FirstMatch(t, u)] = FreeSlot],
          total |-> total - 1]

=============================================================================
