------------------------- MODULE SelectorProperties -------------------------
(***************************************************************************)
(* What the sessions and the pipes need of the selector.                    *)
(***************************************************************************)
EXTENDS Selector

\* The only type invariant: the table, the sets, the walk.
TypeOK ==
    /\ fds \in [Table -> Item]
    /\ max_fd \in Table
    /\ master_r \subseteq Table /\ master_w \subseteq Table
    /\ slave_r \subseteq Table /\ slave_w \subseteq Table
    /\ phase \in {"select", "walk", "destroy", "over", "dead"}
    /\ open \subseteq Table
    /\ reported \subseteq Table \X {"READ", "WRITE"}
    /\ stray \in BOOLEAN

Watching(t, o) == {i \in Table : ItemUsed(t, i) /\ t[i].interest = o}

\* What select() is asked is what the table says, whatever callbacks have
\* registered, changed and unregistered: nobody who waits is forgotten, no bit
\* is left behind for the next owner of a descriptor (while the table is being
\* destroyed that need not be so), and the highest descriptor covers all items,
\* though items_max_fd looks only at those up to the last one it found.
SelectSeesTheTable ==
    /\ phase \in {"select", "walk"} =>
         /\ master_r = Watching(fds, "READ")
         /\ master_w = Watching(fds, "WRITE")
    /\ \A i \in Table : ItemUsed(fds, i) => i <= max_fd
    /\ max_fd # 0 => ItemUsed(fds, max_fd)

\* Whatever is in use is open, so that select() never fails with EBADF and
\* main() never gives up on all connections because of one; handle_command
\* closes its pipe first, close_connection its socket last.
UsedAreOpen ==
    phase # "over" => \A i \in Table : ItemUsed(fds, i) => i \in open

\* The session a shell command will wake up is there, registered and asleep,
\* unless some callback has already changed the interest of somebody else: the
\* reader of a closed session does, and load_more_bytes when the popen() of a
\* second RETR fails.
CommandHasItsSession ==
    ~stray /\ phase \in {"select", "walk"} => \A j \in Table : fds[j].kind = "command" =>
        /\ ~fds[j].freed
        /\ fds[fds[j].peer].kind = "admin"
        /\ fds[fds[j].peer].interest = "NOOP"

\* Every session is closed when the process ends, although each one unregisters
\* itself inside the call that unregisters it, and leaves there a descriptor
\* of -1 behind.
EndsWithoutSessions ==
    phase = "over" =>
        /\ \A i \in Table : ~ItemUsed(fds, i)
        /\ master_r \union master_w = {}

AbstractDispatcher == INSTANCE Dispatcher WITH
    Events  <- Table \X {"READ", "WRITE"},
    watched <- EventsOf(Watching(fds, "READ"), Watching(fds, "WRITE")),
    pending <- IF phase = "walk" THEN reported \intersect Left ELSE {},
    running <- phase \in {"select", "walk"}

\* Though callbacks register, unregister and reuse descriptors while the table
\* is walked, an event is served once, for the registration it was reported
\* for, and none of those still waited for is skipped.
ImplementsDispatcher == AbstractDispatcher!Spec

=============================================================================
