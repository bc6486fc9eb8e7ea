------------------------------ MODULE Selector ------------------------------
(***************************************************************************)
(* The selector of selector.c and the callbacks that change its table while *)
(* it is being walked: accept, a POP3 or a monitor session, the pipe of a   *)
(* reader or of a shell command.  Of a callback only the calls it makes to  *)
(* the selector and to the kernel are told.                                 *)
(*                                                                          *)
(* One step is one pselect(), one callback, or one round of                 *)
(* selector_destroy.                                                        *)
(***************************************************************************)
EXTENDS Integers, FiniteSets

CONSTANTS
    MAX_FD,   \* the highest descriptor the table takes (1023)
    Masters   \* the listening sockets

ASSUME MaxFdAssumption   == MAX_FD \in Nat \ {0}
ASSUME MastersAssumption == Masters \subseteq 0 .. MAX_FD /\ Masters # {}

VARIABLES
    fds,       \* the table: one item per descriptor
    max_fd,    \* max(.fds[].fd)
    master_r,  \* what the next select() will watch for reading
    master_w,  \* and for writing
    slave_r,   \* what the last one left, without what the walk has passed
    slave_w,
    phase,     \* "select", "walk", "destroy", "over", "dead"
    open,      \* the descriptors of the table's range that the process holds
    reported,  \* history: events of the last select() whose registration remains
    stray      \* history: a callback changed the interest of somebody else

vars == <<fds, max_fd, master_r, master_w, slave_r, slave_w, phase, open,
          reported, stray>>
tableVars == <<fds, max_fd, master_r, master_w>>
walkVars  == <<slave_r, slave_w>>

-----------------------------------------------------------------------------
(* The table                                                               *)

Table     == 0 .. MAX_FD
TOO_HIGH  == MAX_FD + 1               \* stands for every descriptor above
Sessions  == {"pop3", "admin"}
Pipes     == {"reader", "command"}
Interests == {"NOOP", "READ", "WRITE"}

\* An item and what the selector has to do with its data: peer is client_fd
\* in the data of a pipe and fr_data.fd in that of a POP3 session, f says that
\* send.f is set, freed that the session the data of a pipe is part of is gone.
Item == [kind     : {"unused", "master"} \union Sessions \union Pipes,
         interest : Interests,
         peer     : Table \union {TOO_HIGH},
         f        : BOOLEAN,
         freed    : BOOLEAN]

Unused == [kind |-> "unused", interest |-> "NOOP", peer |-> 0,
           f |-> FALSE, freed |-> FALSE]

ItemUsed(t, i) == t[i].kind # "unused"

Greatest(S) == CHOOSE i \in S : \A j \in S : j <= i

items_max_fd(t, max) ==
    Greatest({0} \union {i \in Table : i <= max /\ ItemUsed(t, i)})

\* A selector as a value, so that a callback can make several calls.
Sel == [fds |-> fds, max_fd |-> max_fd, r |-> master_r, w |-> master_w]

\* Mutant: a bit that was set is not cleared.
UpdateOnlySets(s, i) ==
    [s EXCEPT !.r = IF s.fds[i].interest = "READ"  THEN @ \union {i} ELSE @,
              !.w = IF s.fds[i].interest = "WRITE" THEN @ \union {i} ELSE @]

items_update_fdset_for_fd(s, i) ==
    [s EXCEPT !.r = IF s.fds[i].interest = "READ"  THEN @ \union {i} ELSE @ \ {i},
              !.w = IF s.fds[i].interest = "WRITE" THEN @ \union {i} ELSE @ \ {i}]

\* Mutant: max_fd is raised before the descriptor is refused.
RegisterRaises(s, i, kind, interest, peer) ==
    LET raised == [s EXCEPT !.max_fd = IF i > @ THEN i ELSE @] IN
    IF i \notin Table THEN raised
    ELSE IF ItemUsed(s.fds, i) THEN s
    ELSE items_update_fdset_for_fd(
           [raised EXCEPT !.fds[i] = [Unused EXCEPT !.kind = kind, !.interest = interest,
                                                    !.peer = peer]], i)

\* SELECTOR_IARGS and SELECTOR_FDINUSE change nothing.  The table of main()
\* has a place for every valid descriptor: ensure_capacity is not called.
selector_register(s, i, kind, interest, peer) ==
    IF i \notin Table \/ ItemUsed(s.fds, i) THEN s
    ELSE items_update_fdset_for_fd(
           [s EXCEPT !.fds[i] = [Unused EXCEPT !.kind = kind, !.interest = interest,
                                               !.peer = peer],
                     !.max_fd = IF i > @ THEN i ELSE @], i)

selector_set_interest(s, i, interest) ==
    IF i \notin Table \/ ~ItemUsed(s.fds, i) THEN s
    ELSE items_update_fdset_for_fd([s EXCEPT !.fds[i].interest = interest], i)

\* The pipes whose data close_connection frees with session i
Freed(t, i) ==
    [j \in Table |-> IF t[i].kind \in Sessions /\ t[j].kind \in Pipes /\ t[j].peer = i
                     THEN [t[j] EXCEPT !.freed = TRUE] ELSE t[j]]

\* handle_close is called first; when it is a session that unregisters itself
\* it finds `closed' set and returns.
selector_unregister_fd(s, i) ==
    IF i \notin Table \/ ~ItemUsed(s.fds, i) THEN s
    ELSE LET off     == items_update_fdset_for_fd([s EXCEPT !.fds[i].interest = "NOOP"], i)
             cleared == [off EXCEPT !.fds = [Freed(@, i) EXCEPT ![i] = Unused]]
         IN [cleared EXCEPT !.max_fd = items_max_fd(cleared.fds, @)]

\* The table is s from now on.
Becomes(s) ==
    /\ fds' = s.fds
    /\ max_fd' = s.max_fd
    /\ master_r' = s.r
    /\ master_w' = s.w

Init ==
    LET t == [i \in Table |-> IF i \in Masters
                              THEN [Unused EXCEPT !.kind = "master", !.interest = "READ"]
                              ELSE Unused]
    IN /\ fds = t
       /\ max_fd = Greatest(Masters)
       /\ master_r = Masters
       /\ master_w = {}
       /\ slave_r = {} /\ slave_w = {}
       /\ phase = "select"
       /\ open = Masters
       /\ reported = {}
       /\ stray = FALSE

-----------------------------------------------------------------------------
(* select()                                                                *)

EventsOf(r, w) == {<<i, "READ">> : i \in r} \union {<<i, "WRITE">> : i \in w}

\* pselect() returns some of the watched descriptors, or none at its timeout.
selector_select ==
    /\ phase = "select"
    /\ master_r \union master_w \subseteq open
    /\ \E r \in SUBSET {i \in master_r : i <= max_fd},
          w \in SUBSET {i \in master_w : i <= max_fd} :
         /\ slave_r' = r
         /\ slave_w' = w
         /\ reported' = EventsOf(r, w)
    /\ phase' = "walk"
    /\ UNCHANGED <<tableVars, open, stray>>

\* pselect() fails for want of memory, or because a watched descriptor is not
\* open, when it can do nothing else: SELECTOR_IO, and main() gives up.
select_fails ==
    /\ phase = "select"
    /\ phase' = "destroy"
    /\ reported' = {}
    /\ UNCHANGED <<tableVars, walkVars, open, stray>>

\* SIGINT or SIGTSTP interrupts pselect(), nothing is walked: the loop of main() ends.
handleSignal ==
    /\ phase = "select"
    /\ phase' = "destroy"
    /\ reported' = {}
    /\ UNCHANGED <<tableVars, walkVars, open, stray>>

-----------------------------------------------------------------------------
(* Callbacks                                                               *)

\* A new descriptor is any of these, or one the table has no place for.
FreeFds == Table \ open

\* accept() fails, or the descriptor is too high and closed at once, or a
\* session is registered; a POP3 session starts with its greeting.
accept(i) ==
    /\ fds[i].kind = "master"
    /\ \/ UNCHANGED <<tableVars, open>>
       \/ \E new \in FreeFds, kind \in Sessions :
            /\ Becomes(selector_register(Sel, new, kind,
                         IF kind = "pop3" THEN "WRITE" ELSE "READ", 0))
            /\ open' = open \union {new}
    /\ UNCHANGED <<phase, reported, stray>>

\* Reading, parsing, sending: the session waits for one direction.
session_goes_on(i) ==
    /\ fds[i].kind \in Sessions
    /\ \E o \in {"READ", "WRITE"} :
         /\ fds[i].f => o = "WRITE"
         /\ Becomes(selector_set_interest(Sel, i, o))
    /\ UNCHANGED <<phase, open, reported, stray>>

\* Mutant: the socket is closed and stays registered.
CloseRegistered(i) ==
    /\ fds[i].kind \in Sessions
    /\ open' = open \ {i}
    /\ UNCHANGED <<tableVars, phase, reported, stray>>

\* close_connection.  The pipe of a session, if it has one, is left alone.
session_closes(i) ==
    /\ fds[i].kind \in Sessions
    /\ Becomes(selector_unregister_fd(Sel, i))
    /\ open' = open \ {i}
    /\ reported' = {e \in reported : e[1] # i}
    /\ UNCHANGED <<phase, stray>>

\* RETR: the session waits for its reader, or not, or cannot send its answer
\* and closes.  A reader the table cannot take is kept open; without popen()
\* the session goes on as if there were one.
init_file_reader(i) ==
    /\ fds[i].kind = "pop3"
    /\ ~fds[i].f
    /\ LET retr == [Sel EXCEPT !.fds[i].f = TRUE] IN
       \/ /\ Becomes(selector_set_interest(retr, i, "WRITE"))
          /\ UNCHANGED <<open, reported>>
       \/ \E new \in FreeFds \union {TOO_HIGH} :
            LET s == selector_register([retr EXCEPT !.fds[i].peer = new],
                                       new, "reader", "READ", i)
            IN \/ /\ \E o \in {"NOOP", "WRITE"} : Becomes(selector_set_interest(s, i, o))
                  /\ open' = open \union ({new} \intersect Table)
                  /\ UNCHANGED reported
               \/ /\ Becomes(selector_unregister_fd(s, i))
                  /\ open' = (open \union ({new} \intersect Table)) \ {i}
                  /\ reported' = {e \in reported : e[1] # i}
    /\ UNCHANGED <<phase, stray>>

\* Mutant: the session is still served while its command runs.
StartAwake(i) ==
    /\ fds[i].kind = "admin"
    /\ \E new \in FreeFds :
         /\ Becomes(selector_register(Sel, new, "command", "READ", i))
         /\ open' = open \union {new}
    /\ UNCHANGED <<phase, reported, stray>>

\* executeCommand, and OP_NOOP whether it worked or not
executeCommand(i) ==
    /\ fds[i].kind = "admin"
    /\ \/ /\ Becomes(selector_set_interest(Sel, i, "NOOP"))
          /\ UNCHANGED open
       \/ \E new \in FreeFds :
            /\ Becomes(selector_set_interest(
                         selector_register(Sel, new, "command", "READ", i), i, "NOOP"))
            /\ open' = open \union {new}
    /\ UNCHANGED <<phase, reported, stray>>

Mine(i, j) == fds[j].kind = "reader" /\ fds[j].peer = i /\ ~fds[j].freed

\* fr_data.fd is the reader, or 0, or what was the reader of an earlier RETR:
\* that descriptor may be anybody's now.
load_more_bytes(i) ==
    /\ fds[i].kind = "pop3"
    /\ fds[i].f
    /\ LET j == fds[i].peer
           s == selector_set_interest(selector_set_interest(Sel, i, "NOOP"), j, "READ")
       IN /\ Becomes(s)
          /\ stray' = (stray \/ (j \in Table \ {i} /\ s.fds[j] # fds[j] /\ ~Mine(i, j)))
    /\ UNCHANGED <<phase, open, reported>>

change_interests(i) ==
    selector_set_interest(selector_set_interest(Sel, fds[i].peer, "WRITE"), i, "NOOP")

\* Some bytes were read, or the buffer of the session is full.
handle_file_reader(i) ==
    /\ fds[i].kind = "reader"
    /\ Becomes(change_interests(i))
    /\ stray' = (stray \/ fds[i].freed)
    /\ UNCHANGED <<phase, open, reported>>

\* The end of the file clears send.f; a failed read() leaves it, and the pipe.
file_reader_ends(i) ==
    /\ fds[i].kind = "reader"
    /\ LET s == selector_unregister_fd(change_interests(i), i) IN
       \/ /\ Becomes(IF fds[i].freed THEN s ELSE [s EXCEPT !.fds[fds[i].peer].f = FALSE])
          /\ open' = open \ {i}
       \/ /\ Becomes(s)
          /\ UNCHANGED open
    /\ reported' = {e \in reported : e[1] # i}
    /\ stray' = (stray \/ fds[i].freed)
    /\ UNCHANGED phase

\* The pipe is closed before it is unregistered.
handle_command(i) ==
    /\ fds[i].kind = "command"
    /\ Becomes(selector_set_interest(
                 selector_unregister_fd(Sel, i), fds[i].peer, "WRITE"))
    /\ open' = open \ {i}
    /\ reported' = {e \in reported : e[1] # i}
    /\ stray' = (stray \/ fds[i].freed)
    /\ UNCHANGED phase

\* The process dies: freed data was used, or a pipe that somebody has set to
\* OP_WRITE has no handler for it.
Dies(i, writing) ==
    /\ fds[i].freed \/ (writing /\ fds[i].kind \in Pipes)
    /\ phase' = "dead"
    /\ UNCHANGED <<tableVars, open, reported, stray>>

Callback(i, writing) ==
    \/ Dies(i, writing)
    \/ /\ ~writing \/ fds[i].kind \notin Pipes
       /\ \/ accept(i)
          \/ session_goes_on(i)
          \/ session_closes(i)
          \/ init_file_reader(i)
          \/ load_more_bytes(i)
          \/ executeCommand(i)
          \/ handle_file_reader(i)
          \/ file_reader_ends(i)
          \/ handle_command(i)

-----------------------------------------------------------------------------
(* The walk, by descriptor and in each for reading first                   *)

First(e, d) == e[1] < d[1] \/ (e[1] = d[1] /\ (e[2] = "READ" \/ d[2] = "WRITE"))

\* Mutant: the interest of the item is not looked at again.
DueUnwatched(e) == ItemUsed(fds, e[1])

\* A callback is called only if the item, as it is now, waits for the event.
Due(e) == ItemUsed(fds, e[1]) /\ fds[e[1]].interest = e[2]

Left == EventsOf(slave_r, slave_w)

handle_iteration ==
    /\ phase = "walk"
    /\ \E e \in Left :
         /\ Due(e)
         /\ \A d \in Left : Due(d) => First(e, d)
         /\ Callback(e[1], e[2] = "WRITE")
         /\ slave_r' = {i \in slave_r : i > e[1]}
         /\ slave_w' = {i \in slave_w : i > e[1] \/ (i = e[1] /\ e[2] = "READ")}

iteration_ends ==
    /\ phase = "walk"
    /\ \A e \in Left : ~Due(e)
    /\ phase' = "select"
    /\ slave_r' = {} /\ slave_w' = {}
    /\ reported' = {}
    /\ UNCHANGED <<tableVars, open, stray>>

-----------------------------------------------------------------------------
(* The end                                                                 *)

\* Mutant: only the items up to max_fd, which goes down meanwhile.
DestroyShrinking == {i \in Table : i < max_fd /\ ItemUsed(fds, i)}

ToDestroy == {i \in Table : ItemUsed(fds, i)}

\* selector_unregister_fd calls handle_close first, and there a session
\* unregisters itself: the outer call goes on with an item whose descriptor is
\* already -1 and clears that bit.  Undefined: nothing comes of it, some
\* descriptor (the highest stands for it) is no longer watched, or the process
\* is aborted.
selector_destroy ==
    /\ phase = "destroy"
    /\ \E i \in ToDestroy :
         /\ \A j \in ToDestroy : i <= j
         /\ LET s == selector_unregister_fd(Sel, i) IN
            IF fds[i].kind \in Sessions
            THEN /\ open' = open \ {i}
                 /\ \/ Becomes(s) /\ UNCHANGED phase
                    \/ /\ Becomes([s EXCEPT !.r = @ \ {MAX_FD}, !.w = @ \ {MAX_FD}])
                       /\ UNCHANGED phase
                    \/ Becomes(s) /\ phase' = "dead"
            ELSE Becomes(s) /\ UNCHANGED <<open, phase>>
    /\ UNCHANGED <<walkVars, reported, stray>>

\* main() closes the listening sockets.
main_ends ==
    /\ phase = "destroy"
    /\ ToDestroy = {}
    /\ phase' = "over"
    /\ open' = open \ Masters
    /\ UNCHANGED <<tableVars, walkVars, reported, stray>>

-----------------------------------------------------------------------------

Next ==
    \/ selector_select
    \/ select_fails
    \/ handleSignal
    \/ handle_iteration
    \/ iteration_ends
    \/ selector_destroy
    \/ main_ends

Spec == Init /\ [][Next]_vars

=============================================================================
