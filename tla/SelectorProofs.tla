---------------------------- MODULE SelectorProofs ----------------------------
(***************************************************************************)
(* The selector for any number of descriptors and of listening sockets.     *)
(*                                                                         *)
(* A call to the selector maps one value of the table to another (Good is   *)
(* kept by each of them), and a callback is a few such calls; so there is   *)
(* one lemma per call, one per callback, and one per action.                *)
(***************************************************************************)
EXTENDS SelectorProperties, WellFoundedInduction, TLAPS

USE MaxFdAssumption, MastersAssumption

Places == Table \union {TOO_HIGH}
Kinds  == {"master"} \union Sessions \union Pipes

Sels == [fds : [Table -> Item], max_fd : Table, r : SUBSET Table, w : SUBSET Table]

\* The sets are what the table says.
Sees(s) ==
    /\ \A i \in Table : i \in s.r <=> ItemUsed(s.fds, i) /\ s.fds[i].interest = "READ"
    /\ \A i \in Table : i \in s.w <=> ItemUsed(s.fds, i) /\ s.fds[i].interest = "WRITE"

\* Or, while the table is destroyed, at most that.
Tidy(s) == \A i \in s.r \union s.w : ItemUsed(s.fds, i)

\* max_fd is the highest descriptor in use, or 0.
Covers(s) ==
    /\ \A i \in Table : ItemUsed(s.fds, i) => i <= s.max_fd
    /\ s.max_fd # 0 => ItemUsed(s.fds, s.max_fd)

Good(s) == s \in Sels /\ Sees(s) /\ Covers(s)

\* An item may change its interest and its send.f and still be the same.
Same(a, b) == a.kind = b.kind /\ a.peer = b.peer /\ a.freed = b.freed

-----------------------------------------------------------------------------
(* The calls                                                               *)

\* A set of descriptors has a greatest member.
LEMMA GreatestIsGreatest ==
    ASSUME NEW S, S \subseteq Table, S # {}
    PROVE  /\ Greatest(S) \in S
           /\ \A j \in S : j <= Greatest(S)
<1> DEFINE Below == {MAX_FD - i : i \in S}
<1>1. Below \subseteq Nat /\ Below # {}
  <2>1. \A i \in S : i \in 0 .. MAX_FD
    BY DEF Table
  <2>2. \A i \in S : MAX_FD - i \in Nat
    BY <2>1
  <2>3. Below \subseteq Nat
    BY <2>2
  <2>4. PICK i \in S : TRUE
    OBVIOUS
  <2>5. MAX_FD - i \in Below
    OBVIOUS
  <2> QED
    BY <2>3, <2>5
<1>2. PICK x \in Below : \A y \in Below : ~(<<y, x>> \in OpToRel(<, Nat))
  BY <1>1, WFMin, NatLessThanWellFounded, Zenon
<1>3. \A y \in Below : ~(y < x)
  BY <1>1, <1>2 DEF OpToRel
<1>4. PICK i \in S : x = MAX_FD - i
  OBVIOUS
<1>5. \A j \in S : j <= i
  <2> SUFFICES ASSUME NEW j \in S PROVE j <= i
    OBVIOUS
  <2>1. ~(MAX_FD - j < x)
    BY <1>3
  <2>2. i \in Int /\ j \in Int
    BY DEF Table
  <2> QED
    BY <1>4, <2>1, <2>2
<1> QED
  BY <1>5 DEF Greatest

\* items_max_fd looks only as far as the last highest descriptor, and finds it.
LEMMA MaxFdCovers ==
    ASSUME NEW t \in [Table -> Item], NEW max \in Table,
           \A i \in Table : ItemUsed(t, i) => i <= max
    PROVE  /\ items_max_fd(t, max) \in Table
           /\ \A i \in Table : ItemUsed(t, i) => i <= items_max_fd(t, max)
           /\ items_max_fd(t, max) # 0 => ItemUsed(t, items_max_fd(t, max))
<1> DEFINE S == {0} \union {i \in Table : i <= max /\ ItemUsed(t, i)}
<1>1. S \subseteq Table /\ S # {}
  BY DEF Table
<1>2. items_max_fd(t, max) = Greatest(S)
  BY DEF items_max_fd
<1>3. Greatest(S) \in S /\ \A j \in S : j <= Greatest(S)
  BY <1>1, GreatestIsGreatest
<1> QED
  BY <1>1, <1>2, <1>3

\* items_update_fdset_for_fd brings the bits of one descriptor up to date.
LEMMA UpdateSets ==
    ASSUME NEW s \in Sels, NEW i \in Table, NEW x, x = items_update_fdset_for_fd(s, i)
    PROVE  /\ x \in Sels
           /\ x.fds = s.fds /\ x.max_fd = s.max_fd
           /\ \A j \in Table \ {i} : (j \in x.r <=> j \in s.r) /\ (j \in x.w <=> j \in s.w)
           /\ i \in x.r <=> s.fds[i].interest = "READ"
           /\ i \in x.w <=> s.fds[i].interest = "WRITE"
BY DEF items_update_fdset_for_fd, Sels

\* A slot that item_init cleared is a slot.
LEMMA UnusedIsItem == Unused \in Item
BY DEF Unused, Item, Interests, Table

\* selector_register puts an unused item to use, or changes nothing.
LEMMA RegisterIsGood ==
    ASSUME NEW s, Good(s), NEW i \in Places, NEW kind \in Kinds, NEW o \in Interests,
           NEW peer \in Places, NEW x, x = selector_register(s, i, kind, o, peer)
    PROVE  /\ Good(x)
           /\ \A j \in Table \ {i} : x.fds[j] = s.fds[j]
           /\ \A j \in Table : ItemUsed(s.fds, j) => x.fds[j] = s.fds[j]
           /\ i \in Table /\ ~ItemUsed(s.fds, i) =>
                /\ x.fds[i].kind = kind /\ x.fds[i].interest = o
                /\ x.fds[i].peer = peer /\ ~x.fds[i].freed
<1>1. CASE i \notin Table \/ ItemUsed(s.fds, i)
  BY <1>1 DEF selector_register
<1>2. CASE i \in Table /\ ~ItemUsed(s.fds, i)
  <2> DEFINE item == [Unused EXCEPT !.kind = kind, !.interest = o, !.peer = peer]
             y    == [s EXCEPT !.fds[i] = item, !.max_fd = IF i > @ THEN i ELSE @]
  <2>1. /\ item \in Item /\ item.kind = kind /\ item.interest = o
        /\ item.peer = peer /\ item.freed = FALSE
    <3>1. Unused \in Item /\ Unused.freed = FALSE
      BY UnusedIsItem DEF Unused
    <3> QED
      BY <3>1 DEF Item, Kinds, Places
  <2>2. kind # "unused"
    BY DEF Kinds, Sessions, Pipes
  <2>3. x = items_update_fdset_for_fd(y, i)
    BY <1>2 DEF selector_register
  <2>4. s \in Sels /\ i \in Int /\ s.max_fd \in Int
    BY <1>2 DEF Good, Sels, Table
  <2> HIDE DEF item
  <2>5. /\ y \in Sels
        /\ y.fds = [s.fds EXCEPT ![i] = item]
        /\ y.max_fd = IF i > s.max_fd THEN i ELSE s.max_fd
        /\ y.r = s.r /\ y.w = s.w
    BY <1>2, <2>1, <2>4 DEF Sels
  <2> HIDE DEF y
  <2>6. /\ x \in Sels
        /\ x.fds = y.fds /\ x.max_fd = y.max_fd
        /\ \A j \in Table \ {i} : (j \in x.r <=> j \in y.r) /\ (j \in x.w <=> j \in y.w)
        /\ i \in x.r <=> y.fds[i].interest = "READ"
        /\ i \in x.w <=> y.fds[i].interest = "WRITE"
    BY <1>2, <2>3, <2>5, UpdateSets
  <2>7. s.fds \in [Table -> Item]
    BY <2>4 DEF Sels
  <2>8. x.fds[i] = item /\ \A j \in Table \ {i} : x.fds[j] = s.fds[j]
    BY <1>2, <2>5, <2>6, <2>7
  <2>9. item.kind # "unused" /\ item.interest = o
    BY <2>1, <2>2
  <2>10. Sees(x)
    BY <1>2, <2>5, <2>6, <2>8, <2>9 DEF Good, Sees, ItemUsed
  <2>11. Covers(x)
    <3>1. \A j \in Table : j \in Int
      BY DEF Table
    <3>2. x.max_fd = IF i > s.max_fd THEN i ELSE s.max_fd
      BY <2>5, <2>6
    <3>3. Covers(s) /\ s.max_fd \in Table
      BY <2>4 DEF Good, Sels
    <3>4. ASSUME NEW j \in Table, ItemUsed(x.fds, j) PROVE j <= x.max_fd
      <4>1. CASE j = i
        BY <2>4, <3>2, <4>1
      <4>2. CASE j # i
        <5>1. j <= s.max_fd
          BY <2>8, <3>3, <3>4, <4>2 DEF Covers, ItemUsed
        <5> QED
          BY <2>4, <3>1, <3>2, <5>1
      <4> QED
        BY <4>1, <4>2
    <3>5. ASSUME x.max_fd # 0 PROVE ItemUsed(x.fds, x.max_fd)
      BY <1>2, <2>4, <2>8, <2>9, <3>1, <3>2, <3>3, <3>5 DEF Covers, ItemUsed
    <3> QED
      BY <3>4, <3>5 DEF Covers
  <2> QED
    BY <1>2, <2>1, <2>6, <2>8, <2>10, <2>11 DEF Good, ItemUsed
<1> QED
  BY <1>1, <1>2

\* selector_set_interest changes one interest, and its bits.
LEMMA SetInterestIsGood ==
    ASSUME NEW s, Good(s), NEW i \in Places, NEW o \in Interests,
           NEW x, x = selector_set_interest(s, i, o)
    PROVE  /\ Good(x)
           /\ \A j \in Table : x.fds[j].kind = s.fds[j].kind
           /\ \A j \in Table \ {i} : x.fds[j] = s.fds[j]
           /\ \A j \in Table : Same(x.fds[j], s.fds[j])
           /\ i \in Table /\ ItemUsed(s.fds, i) => x.fds[i].interest = o
<1>1. CASE i \notin Table \/ ~ItemUsed(s.fds, i)
  BY <1>1 DEF selector_set_interest, Same
<1>2. CASE i \in Table /\ ItemUsed(s.fds, i)
  <2> DEFINE y == [s EXCEPT !.fds[i].interest = o]
  <2>1. x = items_update_fdset_for_fd(y, i)
    BY <1>2 DEF selector_set_interest
  <2>2. s \in Sels /\ s.fds \in [Table -> Item] /\ s.fds[i] \in Item
    BY <1>2 DEF Good, Sels
  <2>3. [s.fds[i] EXCEPT !.interest = o] \in Item
    BY <2>2 DEF Item
  <2>4. /\ y \in Sels
        /\ y.fds = [s.fds EXCEPT ![i] = [s.fds[i] EXCEPT !.interest = o]]
        /\ y.max_fd = s.max_fd /\ y.r = s.r /\ y.w = s.w
    BY <1>2, <2>2, <2>3 DEF Sels
  <2> HIDE DEF y
  <2>5. /\ x \in Sels
        /\ x.fds = y.fds /\ x.max_fd = y.max_fd
        /\ \A j \in Table \ {i} : (j \in x.r <=> j \in y.r) /\ (j \in x.w <=> j \in y.w)
        /\ i \in x.r <=> y.fds[i].interest = "READ"
        /\ i \in x.w <=> y.fds[i].interest = "WRITE"
    BY <1>2, <2>1, <2>4, UpdateSets
  <2>6. \A j \in Table \ {i} : x.fds[j] = s.fds[j]
    BY <1>2, <2>2, <2>4, <2>5
  <2>7. /\ x.fds[i].kind = s.fds[i].kind /\ x.fds[i].interest = o
        /\ Same(x.fds[i], s.fds[i])
    BY <1>2, <2>2, <2>4, <2>5 DEF Item, Same
  <2>8. \A j \in Table : x.fds[j].kind = s.fds[j].kind
    BY <2>6, <2>7
  <2>9. Sees(x)
    BY <1>2, <2>4, <2>5, <2>6, <2>7, <2>8 DEF Good, Sees, ItemUsed
  <2>10. Covers(x)
    <3>1. x.max_fd = s.max_fd /\ s.max_fd \in Table
      BY <2>2, <2>4, <2>5 DEF Sels
    <3> QED
      BY <2>8, <3>1 DEF Good, Covers, ItemUsed
  <2>11. \A j \in Table : Same(x.fds[j], s.fds[j])
    BY <2>6, <2>7 DEF Same
  <2> QED
    BY <2>5, <2>6, <2>7, <2>8, <2>9, <2>10, <2>11 DEF Good
<1> QED
  BY <1>1, <1>2

\* What selector_unregister_fd makes of an item in use and of the others.
LEMMA UnregisterIs ==
    ASSUME NEW s \in Sels, Covers(s), NEW i \in Table, ItemUsed(s.fds, i),
           NEW x, x = selector_unregister_fd(s, i)
    PROVE  /\ x \in Sels
           /\ Covers(x)
           /\ x.r = s.r \ {i} /\ x.w = s.w \ {i}
           /\ ~ItemUsed(x.fds, i)
           /\ \A j \in Table \ {i} : /\ x.fds[j].kind = s.fds[j].kind
                                     /\ x.fds[j].interest = s.fds[j].interest
           /\ \A j \in Table \ {i} : IF /\ s.fds[i].kind \in Sessions
                                        /\ s.fds[j].kind \in Pipes
                                        /\ s.fds[j].peer = i
                                     THEN x.fds[j].freed
                                     ELSE x.fds[j] = s.fds[j]
<1> DEFINE quiet   == [s EXCEPT !.fds[i].interest = "NOOP"]
           off     == items_update_fdset_for_fd(quiet, i)
           t       == [Freed(off.fds, i) EXCEPT ![i] = Unused]
           cleared == [off EXCEPT !.fds = [Freed(@, i) EXCEPT ![i] = Unused]]
<1>1. x = [cleared EXCEPT !.max_fd = items_max_fd(cleared.fds, @)]
  BY DEF selector_unregister_fd
<1>2. s.fds \in [Table -> Item] /\ s.fds[i] \in Item
  BY DEF Sels
<1>3. [s.fds[i] EXCEPT !.interest = "NOOP"] \in Item
  BY <1>2 DEF Item, Interests
<1>4. /\ quiet \in Sels
      /\ quiet.fds = [s.fds EXCEPT ![i] = [s.fds[i] EXCEPT !.interest = "NOOP"]]
      /\ quiet.max_fd = s.max_fd /\ quiet.r = s.r /\ quiet.w = s.w
  BY <1>2, <1>3 DEF Sels
<1>5. quiet.fds[i].interest = "NOOP"
  BY <1>2, <1>4 DEF Item
<1> HIDE DEF quiet
<1>6. /\ off \in Sels /\ off.fds = quiet.fds /\ off.max_fd = s.max_fd
      /\ off.r = s.r \ {i} /\ off.w = s.w \ {i}
  <2>1. /\ off \in Sels
        /\ off.fds = quiet.fds /\ off.max_fd = quiet.max_fd
        /\ \A j \in Table \ {i} : /\ j \in off.r <=> j \in quiet.r
                                  /\ j \in off.w <=> j \in quiet.w
        /\ i \in off.r <=> quiet.fds[i].interest = "READ"
        /\ i \in off.w <=> quiet.fds[i].interest = "WRITE"
    BY <1>4, UpdateSets
  <2>2. off.r \subseteq Table /\ off.w \subseteq Table /\ s.r \subseteq Table /\ s.w \subseteq Table
    BY <2>1 DEF Sels
  <2> HIDE DEF off
  <2> QED
    BY <1>4, <1>5, <2>1, <2>2
<1> HIDE DEF off
<1>7. Unused \in Item
  BY UnusedIsItem
<1>8. Freed(off.fds, i) \in [Table -> Item]
  <2>1. off.fds \in [Table -> Item]
    BY <1>6 DEF Sels
  <2>2. \A j \in Table : [off.fds[j] EXCEPT !.freed = TRUE] \in Item
    BY <2>1 DEF Item
  <2> QED
    BY <2>1, <2>2 DEF Freed
<1>9. \A j \in Table : /\ Freed(off.fds, i)[j].kind = off.fds[j].kind
                       /\ Freed(off.fds, i)[j].interest = off.fds[j].interest
  <2>1. \A j \in Table : off.fds[j] \in Item
    BY <1>6 DEF Sels
  <2>2. \A j \in Table : /\ [off.fds[j] EXCEPT !.freed = TRUE].kind = off.fds[j].kind
                         /\ [off.fds[j] EXCEPT !.freed = TRUE].interest = off.fds[j].interest
    BY <2>1 DEF Item
  <2> QED
    BY <2>2 DEF Freed
<1>10. \A j \in Table \ {i} : IF /\ s.fds[i].kind \in Sessions
                                /\ s.fds[j].kind \in Pipes
                                /\ s.fds[j].peer = i
                             THEN Freed(off.fds, i)[j].freed
                             ELSE Freed(off.fds, i)[j] = s.fds[j]
  <2>1. /\ off.fds[i].kind = s.fds[i].kind
        /\ \A j \in Table \ {i} : off.fds[j] = s.fds[j]
    BY <1>2, <1>4, <1>6 DEF Item
  <2>2. \A j \in Table : s.fds[j] \in Item
    BY <1>2
  <2>3. \A j \in Table : [s.fds[j] EXCEPT !.freed = TRUE].freed
    BY <2>2 DEF Item
  <2> QED
    BY <2>1, <2>3 DEF Freed
<1>11. t \in [Table -> Item]
  BY <1>7, <1>8
<1>12. t[i] = Unused /\ \A j \in Table \ {i} : t[j] = Freed(off.fds, i)[j]
  BY <1>8
<1> HIDE DEF t
<1>13. /\ cleared.fds = t /\ cleared.max_fd = s.max_fd
       /\ cleared.r = s.r \ {i} /\ cleared.w = s.w \ {i}
       /\ cleared \in Sels
  <2>1. cleared = [off EXCEPT !.fds = t]
    BY <1>6 DEF t, Sels
  <2> HIDE DEF cleared
  <2> QED
    BY <1>6, <1>11, <2>1 DEF Sels
<1> HIDE DEF cleared
<1>14. \A j \in Table \ {i} : /\ t[j].kind = s.fds[j].kind
                              /\ t[j].interest = s.fds[j].interest
  BY <1>2, <1>4, <1>6, <1>9, <1>12
<1>15. \A j \in Table \ {i} : IF /\ s.fds[i].kind \in Sessions
                                /\ s.fds[j].kind \in Pipes
                                /\ s.fds[j].peer = i
                             THEN t[j].freed
                             ELSE t[j] = s.fds[j]
  BY <1>12, <1>10
<1>16. t[i].kind = "unused"
  BY <1>12 DEF Unused
<1>17. \A j \in Table : ItemUsed(t, j) => j <= s.max_fd
  BY <1>14, <1>16 DEF Covers, ItemUsed
<1>18. s.max_fd \in Table
  BY DEF Sels
<1> DEFINE m == items_max_fd(t, s.max_fd)
<1>19. /\ m \in Table
       /\ \A j \in Table : ItemUsed(t, j) => j <= m
       /\ m # 0 => ItemUsed(t, m)
  BY <1>11, <1>17, <1>18, MaxFdCovers
<1> HIDE DEF m
<1>20. x = [cleared EXCEPT !.max_fd = m]
  BY <1>1, <1>13 DEF m, Sels
<1>21. /\ x \in Sels /\ x.fds = t /\ x.max_fd = m
       /\ x.r = s.r \ {i} /\ x.w = s.w \ {i}
  BY <1>13, <1>19, <1>20 DEF Sels
<1> QED
  BY <1>14, <1>16, <1>19, <1>21, <1>15 DEF Covers, ItemUsed

\* selector_unregister_fd on a table in order
LEMMA UnregisterIsGood ==
    ASSUME NEW s, Good(s), NEW i \in Table, ItemUsed(s.fds, i),
           NEW x, x = selector_unregister_fd(s, i)
    PROVE  /\ Good(x)
           /\ ~ItemUsed(x.fds, i)
           /\ \A j \in Table \ {i} : x.fds[j].kind = s.fds[j].kind
           /\ \A j \in Table \ {i} : IF /\ s.fds[i].kind \in Sessions
                                        /\ s.fds[j].kind \in Pipes
                                        /\ s.fds[j].peer = i
                                     THEN x.fds[j].freed
                                     ELSE x.fds[j] = s.fds[j]
<1>1. /\ x \in Sels
      /\ Covers(x)
      /\ x.r = s.r \ {i} /\ x.w = s.w \ {i}
      /\ ~ItemUsed(x.fds, i)
      /\ \A j \in Table \ {i} : /\ x.fds[j].kind = s.fds[j].kind
                                /\ x.fds[j].interest = s.fds[j].interest
      /\ \A j \in Table \ {i} : IF /\ s.fds[i].kind \in Sessions
                                   /\ s.fds[j].kind \in Pipes
                                   /\ s.fds[j].peer = i
                                THEN x.fds[j].freed
                                ELSE x.fds[j] = s.fds[j]
  BY UnregisterIs DEF Good
<1>2. Sees(x)
  BY <1>1 DEF Good, Sees, ItemUsed
<1> QED
  BY <1>1, <1>2 DEF Good

\* fr_data.fd and send.f of a session are not the selector's business: a table
\* that differs only in them, and in what is freed, is in order too.
LEMMA NotesDoNotMatter ==
    ASSUME NEW s, Good(s), NEW t \in [Table -> Item], NEW x, x = [s EXCEPT !.fds = t],
           \A j \in Table : /\ t[j].kind = s.fds[j].kind
                            /\ t[j].interest = s.fds[j].interest
    PROVE  /\ Good(x)
           /\ \A j \in Table : x.fds[j].kind = s.fds[j].kind
           /\ x.fds = t
<1>1. s \in Sels /\ s.max_fd \in Table
  BY DEF Good, Sels
<1>2. /\ x \in Sels
      /\ x.fds = t /\ x.max_fd = s.max_fd /\ x.r = s.r /\ x.w = s.w
  BY <1>1 DEF Sels
<1> QED
  BY <1>1, <1>2 DEF Good, Sees, Covers, ItemUsed

\* Setting or clearing send.f of an item concerns select() not at all.
LEMMA FlagIsGood ==
    ASSUME NEW s, Good(s), NEW i \in Places, NEW x,
           \/ x = [s EXCEPT !.fds[i].f = TRUE]
           \/ x = [s EXCEPT !.fds[i].f = FALSE]
    PROVE  /\ Good(x)
           /\ \A j \in Table : x.fds[j].kind = s.fds[j].kind
           /\ \A j \in Table : /\ Same(x.fds[j], s.fds[j])
                               /\ x.fds[j].interest = s.fds[j].interest
<1>1. s \in Sels /\ s.fds \in [Table -> Item]
  BY DEF Good, Sels
<1>2. CASE i \in Table
  <2>1. s.fds[i] \in Item
    BY <1>1, <1>2
  <2>2. PICK item \in Item : /\ item.kind = s.fds[i].kind
                             /\ item.interest = s.fds[i].interest
                             /\ Same(item, s.fds[i])
                             /\ x = [s EXCEPT !.fds = [s.fds EXCEPT ![i] = item]]
    <3>1. CASE x = [s EXCEPT !.fds[i].f = TRUE]
      <4> DEFINE on == [s.fds[i] EXCEPT !.f = TRUE]
      <4>1. /\ on \in Item /\ on.kind = s.fds[i].kind /\ on.interest = s.fds[i].interest
            /\ Same(on, s.fds[i])
        BY <2>1 DEF Item, Same
      <4>2. x = [s EXCEPT !.fds = [s.fds EXCEPT ![i] = on]]
        BY <1>1, <3>1 DEF Sels
      <4> HIDE DEF on
      <4> QED
        BY <4>1, <4>2
    <3>2. CASE x = [s EXCEPT !.fds[i].f = FALSE]
      <4> DEFINE off == [s.fds[i] EXCEPT !.f = FALSE]
      <4>1. /\ off \in Item /\ off.kind = s.fds[i].kind /\ off.interest = s.fds[i].interest
            /\ Same(off, s.fds[i])
        BY <2>1 DEF Item, Same
      <4>2. x = [s EXCEPT !.fds = [s.fds EXCEPT ![i] = off]]
        BY <1>1, <3>2 DEF Sels
      <4> HIDE DEF off
      <4> QED
        BY <4>1, <4>2
    <3> QED
      BY <3>1, <3>2
  <2> DEFINE t == [s.fds EXCEPT ![i] = item]
  <2>3. t \in [Table -> Item] /\ t[i] = item /\ \A j \in Table \ {i} : t[j] = s.fds[j]
    BY <1>1, <1>2, <2>2
  <2>4. x = [s EXCEPT !.fds = t]
    BY <2>2
  <2> HIDE DEF t
  <2>5. \A j \in Table : t[j].kind = s.fds[j].kind /\ t[j].interest = s.fds[j].interest
    BY <2>2, <2>3
  <2>6. Good(x) /\ x.fds = t
    BY <2>3, <2>4, <2>5, NotesDoNotMatter
  <2> QED
    BY <2>2, <2>3, <2>5, <2>6 DEF Same
<1>3. CASE i \notin Table
  <2>1. x = [s EXCEPT !.fds = s.fds]
    BY <1>1, <1>3 DEF Sels
  <2>2. Good(x) /\ x.fds = s.fds
    BY <1>1, <2>1, NotesDoNotMatter
  <2> QED
    BY <2>2 DEF Same
<1> QED
  BY <1>2, <1>3

\* Nor does the pointer from one item to another.
LEMMA PeerIsGood ==
    ASSUME NEW s, Good(s), NEW i \in Table, NEW peer \in Places,
           NEW x, x = [s EXCEPT !.fds[i].peer = peer]
    PROVE  /\ Good(x)
           /\ \A j \in Table : x.fds[j].kind = s.fds[j].kind
           /\ \A j \in Table \ {i} : x.fds[j] = s.fds[j]
           /\ x.fds[i].interest = s.fds[i].interest
<1> DEFINE item == [s.fds[i] EXCEPT !.peer = peer]
           t    == [s.fds EXCEPT ![i] = item]
<1>1. s \in Sels /\ s.fds \in [Table -> Item] /\ s.fds[i] \in Item
  BY DEF Good, Sels
<1>2. item \in Item /\ item.kind = s.fds[i].kind /\ item.interest = s.fds[i].interest
  BY <1>1 DEF Item, Places
<1>3. x = [s EXCEPT !.fds = t]
  BY <1>1 DEF Sels
<1> HIDE DEF item
<1>4. t \in [Table -> Item] /\ t[i] = item /\ \A j \in Table \ {i} : t[j] = s.fds[j]
  BY <1>1, <1>2
<1> HIDE DEF t
<1> QED
  <2>1. \A j \in Table : t[j].kind = s.fds[j].kind /\ t[j].interest = s.fds[j].interest
    BY <1>2, <1>4
  <2>2. x.fds = t
    BY <1>1, <1>3 DEF Sels
  <2>3. Good(x)
    BY <1>3, <1>4, <2>1, NotesDoNotMatter
  <2> QED
    BY <1>2, <1>4, <2>1, <2>2, <2>3

-----------------------------------------------------------------------------
(* The callbacks                                                           *)

\* What the invariant gives a callback, and what the callback of i keeps of it.
Ready ==
    /\ Good(Sel)
    /\ open \subseteq Table
    /\ reported \subseteq Table \X {"READ", "WRITE"}
    /\ stray \in BOOLEAN
    /\ phase = "walk"
    /\ \A j \in Table : ItemUsed(fds, j) => j \in open

Served(i) ==
    /\ Good(Sel')
    /\ open' \subseteq Table
    /\ reported' \subseteq reported
    /\ \A e \in reported \ reported' : e[1] = i /\ ~ItemUsed(fds', i)
    /\ stray' \in BOOLEAN
    /\ phase' \in {"walk", "dead"}
    /\ \A j \in Table : ItemUsed(fds', j) => j \in open'

\* What a slot of a good table holds.
LEMMA FieldsOfItems ==
    ASSUME Good(Sel), NEW i \in Table
    PROVE  /\ fds \in [Table -> Item]
           /\ fds[i] \in Item
           /\ fds[i].kind \in {"unused"} \union Kinds
           /\ fds[i].peer \in Places
           /\ fds[i].freed \in BOOLEAN
BY DEF Good, Sels, Sel, Item, Places, Kinds

\* The table after a callback is the value the callback computed.
LEMMA BecomesIs ==
    ASSUME NEW x, Good(x), Becomes(x)
    PROVE  Good(Sel') /\ fds' = x.fds
<1>1. /\ Sel'.fds = x.fds /\ Sel'.max_fd = x.max_fd
      /\ Sel'.r = x.r /\ Sel'.w = x.w
      /\ Sel' = [fds |-> x.fds, max_fd |-> x.max_fd, r |-> x.r, w |-> x.w]
  BY DEF Becomes, Sel
<1>2. x \in Sels
  BY DEF Good
<1>3. Sel' \in Sels
  BY <1>1, <1>2 DEF Sels
<1>4. Sees(Sel') /\ Covers(Sel')
  BY <1>1 DEF Good, Sees, Covers
<1> QED
  BY <1>3, <1>4 DEF Good, Becomes

\* A callback that leaves the table alone leaves it good.
LEMMA TableUnchanged ==
    ASSUME Good(Sel), UNCHANGED tableVars
    PROVE  Good(Sel') /\ fds' = fds
BY DEF tableVars, Sel

\* Accepting registers a new descriptor, or none.
LEMMA AcceptServes ==
    ASSUME Ready, NEW i \in Table, accept(i)
    PROVE  Served(i)
<1>1. UNCHANGED <<phase, reported, stray>>
  BY DEF accept
<1>2. CASE UNCHANGED <<tableVars, open>>
  BY <1>1, <1>2, TableUnchanged DEF Ready, Served
<1>3. CASE \E new \in FreeFds, kind \in Sessions :
             /\ Becomes(selector_register(Sel, new, kind,
                          IF kind = "pop3" THEN "WRITE" ELSE "READ", 0))
             /\ open' = open \union {new}
  <2>1. PICK new \in FreeFds, kind \in Sessions :
             /\ Becomes(selector_register(Sel, new, kind,
                          IF kind = "pop3" THEN "WRITE" ELSE "READ", 0))
             /\ open' = open \union {new}
    BY <1>3
  <2> DEFINE o == IF kind = "pop3" THEN "WRITE" ELSE "READ"
             x == selector_register(Sel, new, kind, o, 0)
  <2>2. /\ new \in Table /\ new \in Places
        /\ kind \in Kinds /\ o \in Interests /\ 0 \in Places
    BY DEF FreeFds, Places, Kinds, Interests, Table
  <2>3. Becomes(x)
    BY <2>1
  <2> HIDE DEF o
  <2>4. /\ Good(x)
        /\ \A j \in Table \ {new} : x.fds[j] = Sel.fds[j]
    BY <2>2, RegisterIsGood DEF Ready
  <2> HIDE DEF x
  <2>5. Good(Sel') /\ fds' = x.fds
    BY <2>3, <2>4, BecomesIs
  <2>6. \A j \in Table \ {new} : fds'[j] = fds[j]
    BY <2>4, <2>5 DEF Sel
  <2>7. \A j \in Table : ItemUsed(fds', j) => j \in open'
    BY <2>1, <2>6 DEF Ready, ItemUsed
  <2> QED
    BY <1>1, <2>1, <2>2, <2>5, <2>7 DEF Ready, Served
<1> QED
  BY <1>2, <1>3 DEF accept

\* A session that goes on changes its interest or nothing.
LEMMA GoesOnServes ==
    ASSUME Ready, NEW i \in Table, session_goes_on(i)
    PROVE  Served(i)
<1>1. PICK o \in {"READ", "WRITE"} : Becomes(selector_set_interest(Sel, i, o))
  BY DEF session_goes_on
<1> DEFINE x == selector_set_interest(Sel, i, o)
<1>2. i \in Places /\ o \in Interests
  BY DEF Places, Interests
<1>3. Good(x) /\ \A j \in Table : x.fds[j].kind = Sel.fds[j].kind
  BY <1>2, SetInterestIsGood DEF Ready
<1>4. Becomes(x)
  BY <1>1
<1> HIDE DEF x
<1>5. Good(Sel') /\ fds' = x.fds
  BY <1>3, <1>4, BecomesIs
<1>6. UNCHANGED <<phase, open, reported, stray>>
  BY DEF session_goes_on
<1>7. \A j \in Table : ItemUsed(fds', j) => j \in open'
  BY <1>3, <1>5, <1>6 DEF Ready, ItemUsed, Sel
<1> QED
  BY <1>5, <1>6, <1>7 DEF Ready, Served

\* Also the last step of other callbacks: x becomes the table, without i.
LEMMA WithoutServes ==
    ASSUME Ready, NEW i \in Table, NEW x, Good(x), Becomes(x),
           ~ItemUsed(x.fds, i),
           NEW T \in SUBSET Table,
           \A j \in Table \ {i} : ItemUsed(x.fds, j) => ItemUsed(fds, j) \/ j \in T,
           open \union T \subseteq open' \union {i}, open' \subseteq Table,
           reported' = {e \in reported : e[1] # i},
           stray' \in BOOLEAN, phase' = phase
    PROVE  Served(i)
<1>1. Good(Sel') /\ fds' = x.fds
  BY BecomesIs
<1>2. \A j \in Table : ItemUsed(fds', j) => j \in open'
  BY <1>1 DEF Ready
<1> QED
  BY <1>1, <1>2 DEF Ready, Served

\* A session that ends unregisters itself.
LEMMA ClosesServes ==
    ASSUME Ready, NEW i \in Table, session_closes(i)
    PROVE  Served(i)
<1> DEFINE x == selector_unregister_fd(Sel, i)
<1>1. ItemUsed(Sel.fds, i)
  BY DEF session_closes, Sessions, ItemUsed, Sel
<1>2. /\ Good(x) /\ ~ItemUsed(x.fds, i)
      /\ \A j \in Table \ {i} : x.fds[j].kind = Sel.fds[j].kind
  BY <1>1, UnregisterIsGood DEF Ready
<1>3. Becomes(x)
  BY DEF session_closes
<1> HIDE DEF x
<1>4. \A j \in Table \ {i} : ItemUsed(x.fds, j) => ItemUsed(fds, j) \/ j \in {}
  BY <1>2 DEF ItemUsed, Sel
<1>5. /\ open' = open \ {i} /\ open' \subseteq Table
      /\ reported' = {e \in reported : e[1] # i}
      /\ stray' \in BOOLEAN /\ phase' = phase
  BY DEF session_closes, Ready
<1>6. open \union {} \subseteq open' \union {i} /\ {} \in SUBSET Table
  BY <1>5
<1> QED
  BY <1>2, <1>3, <1>4, <1>5, <1>6, WithoutServes

\* An administrator's command registers the pipe of its shell command.
LEMMA ExecuteServes ==
    ASSUME Ready, NEW i \in Table, executeCommand(i)
    PROVE  Served(i)
<1>1. UNCHANGED <<phase, reported, stray>>
  BY DEF executeCommand
<1>2. i \in Places /\ "NOOP" \in Interests /\ "READ" \in Interests /\ "command" \in Kinds
  BY DEF Places, Interests, Kinds, Pipes
<1>3. CASE /\ Becomes(selector_set_interest(Sel, i, "NOOP"))
           /\ UNCHANGED open
  <2> DEFINE x == selector_set_interest(Sel, i, "NOOP")
  <2>1. Good(x) /\ \A j \in Table : x.fds[j].kind = Sel.fds[j].kind
    BY <1>2, SetInterestIsGood DEF Ready
  <2>2. Becomes(x)
    BY <1>3
  <2> HIDE DEF x
  <2>3. Good(Sel') /\ fds' = x.fds
    BY <2>1, <2>2, BecomesIs
  <2>4. \A j \in Table : ItemUsed(fds', j) => j \in open'
    BY <1>3, <2>1, <2>3 DEF Ready, ItemUsed, Sel
  <2> QED
    BY <1>1, <1>3, <2>3, <2>4 DEF Ready, Served
<1>4. CASE \E new \in FreeFds :
             /\ Becomes(selector_set_interest(
                          selector_register(Sel, new, "command", "READ", i), i, "NOOP"))
             /\ open' = open \union {new}
  <2>1. PICK new \in FreeFds :
             /\ Becomes(selector_set_interest(
                          selector_register(Sel, new, "command", "READ", i), i, "NOOP"))
             /\ open' = open \union {new}
    BY <1>4
  <2> DEFINE y == selector_register(Sel, new, "command", "READ", i)
             x == selector_set_interest(y, i, "NOOP")
  <2>2. new \in Table /\ new \in Places
    BY DEF FreeFds, Places
  <2>3. Good(y) /\ \A j \in Table \ {new} : y.fds[j] = Sel.fds[j]
    BY <1>2, <2>2, RegisterIsGood DEF Ready
  <2>4. Becomes(x)
    BY <2>1
  <2> HIDE DEF y
  <2>5. Good(x) /\ \A j \in Table : x.fds[j].kind = y.fds[j].kind
    BY <1>2, <2>3, SetInterestIsGood
  <2> HIDE DEF x
  <2>6. Good(Sel') /\ fds' = x.fds
    BY <2>4, <2>5, BecomesIs
  <2>7. \A j \in Table : ItemUsed(fds', j) => j \in open'
    BY <2>1, <2>3, <2>5, <2>6 DEF Ready, ItemUsed, Sel
  <2> QED
    BY <1>1, <2>1, <2>2, <2>6, <2>7 DEF Ready, Served
<1> QED
  BY <1>3, <1>4 DEF executeCommand

\* Some callbacks only change interests and notes.
LEMMA NothingNewServes ==
    ASSUME Ready, NEW i \in Table, NEW x, Good(x), Becomes(x),
           \A j \in Table : x.fds[j].kind = fds[j].kind,
           UNCHANGED <<open, reported>>, stray' \in BOOLEAN, phase' = phase
    PROVE  Served(i)
<1>1. Good(Sel') /\ fds' = x.fds
  BY BecomesIs
<1>2. \A j \in Table : ItemUsed(fds', j) => j \in open'
  BY <1>1 DEF Ready, ItemUsed
<1> QED
  BY <1>1, <1>2 DEF Ready, Served

\* RETR registers the pipe of the message and silences the client.
LEMMA RetrServes ==
    ASSUME Ready, NEW i \in Table, init_file_reader(i)
    PROVE  Served(i)
<1> DEFINE retr == [Sel EXCEPT !.fds[i].f = TRUE]
<1>1. UNCHANGED <<phase, stray>> /\ fds[i].kind = "pop3"
  BY DEF init_file_reader
<1>2. i \in Places /\ "READ" \in Interests /\ "WRITE" \in Interests /\ "reader" \in Kinds
  BY DEF Places, Interests, Kinds, Pipes
<1>3. /\ Good(retr)
      /\ \A j \in Table : retr.fds[j].kind = Sel.fds[j].kind
  <2>1. Good(Sel)
    BY DEF Ready
  <2> QED
    BY <1>2, <2>1, FlagIsGood, Zenon
<1>4. \/ /\ Becomes(selector_set_interest(retr, i, "WRITE"))
         /\ UNCHANGED <<open, reported>>
      \/ \E new \in FreeFds \union {TOO_HIGH} :
            LET z == selector_register([retr EXCEPT !.fds[i].peer = new],
                                       new, "reader", "READ", i)
            IN \/ /\ \E o \in {"NOOP", "WRITE"} : Becomes(selector_set_interest(z, i, o))
                  /\ open' = open \union ({new} \intersect Table)
                  /\ UNCHANGED reported
               \/ /\ Becomes(selector_unregister_fd(z, i))
                  /\ open' = (open \union ({new} \intersect Table)) \ {i}
                  /\ reported' = {e \in reported : e[1] # i}
  BY DEF init_file_reader
<1> HIDE DEF retr
<1>5. CASE /\ Becomes(selector_set_interest(retr, i, "WRITE"))
           /\ UNCHANGED <<open, reported>>
  <2> DEFINE x == selector_set_interest(retr, i, "WRITE")
  <2>1. Good(x) /\ \A j \in Table : x.fds[j].kind = retr.fds[j].kind
    BY <1>2, <1>3, SetInterestIsGood
  <2>2. Becomes(x)
    BY <1>5
  <2> HIDE DEF x
  <2>3. \A j \in Table : x.fds[j].kind = fds[j].kind
    BY <1>3, <2>1 DEF Sel
  <2> QED
    BY <1>1, <1>5, <2>1, <2>2, <2>3, NothingNewServes DEF Ready
<1>6. ASSUME NEW new \in FreeFds \union {TOO_HIGH}, NEW y, NEW z,
             y = [retr EXCEPT !.fds[i].peer = new],
             z = selector_register(y, new, "reader", "READ", i)
      PROVE  /\ Good(z)
             /\ \A j \in Table \ {new} : z.fds[j].kind = fds[j].kind
             /\ ItemUsed(z.fds, i)
  <2>1. new \in Places
    BY DEF FreeFds, Places
  <2>2. Good(y) /\ \A j \in Table : y.fds[j].kind = retr.fds[j].kind
    BY <1>3, <1>6, <2>1, PeerIsGood
  <2>3. /\ Good(z)
        /\ \A j \in Table \ {new} : z.fds[j] = y.fds[j]
        /\ \A j \in Table : ItemUsed(y.fds, j) => z.fds[j] = y.fds[j]
    <3> DEFINE x == selector_register(y, new, "reader", "READ", i)
    <3>1. Good(y) /\ z = x
      BY <1>6, <2>2
    <3>2. /\ Good(x)
          /\ \A j \in Table \ {new} : x.fds[j] = y.fds[j]
          /\ \A j \in Table : ItemUsed(y.fds, j) => x.fds[j] = y.fds[j]
      BY <1>2, <2>1, <3>1, RegisterIsGood
    <3> HIDE DEF x
    <3> QED
      BY <3>1, <3>2
  <2>4. \A j \in Table : y.fds[j].kind = fds[j].kind
    BY <1>3, <2>2 DEF Sel
  <2>5. ItemUsed(y.fds, i)
    BY <1>1, <2>4 DEF ItemUsed
  <2> QED
    BY <2>3, <2>4, <2>5 DEF ItemUsed
<1>7. ASSUME NEW new \in FreeFds \union {TOO_HIGH}, NEW z,
             z = selector_register([retr EXCEPT !.fds[i].peer = new],
                                   new, "reader", "READ", i),
             NEW o \in {"NOOP", "WRITE"},
             Becomes(selector_set_interest(z, i, o)),
             open' = open \union ({new} \intersect Table),
             UNCHANGED reported
      PROVE  Served(i)
  <2> DEFINE x == selector_set_interest(z, i, o)
  <2>1. Good(z) /\ \A j \in Table \ {new} : z.fds[j].kind = fds[j].kind
    BY <1>6, <1>7
  <2>2. Becomes(x)
    BY <1>7
  <2>3. o \in Interests
    BY DEF Interests
  <2>4. Good(x) /\ \A j \in Table : x.fds[j].kind = z.fds[j].kind
    BY <1>2, <2>1, <2>3, SetInterestIsGood
  <2> HIDE DEF x
  <2>5. Good(Sel') /\ fds' = x.fds
    BY <2>2, <2>4, BecomesIs
  <2>6. \A j \in Table : ItemUsed(fds', j) => j \in open'
    BY <1>7, <2>1, <2>4, <2>5 DEF Ready, ItemUsed
  <2> QED
    BY <1>1, <1>7, <2>5, <2>6 DEF Ready, Served
<1>8. ASSUME NEW new \in FreeFds \union {TOO_HIGH}, NEW z,
             z = selector_register([retr EXCEPT !.fds[i].peer = new],
                                   new, "reader", "READ", i),
             Becomes(selector_unregister_fd(z, i)),
             open' = (open \union ({new} \intersect Table)) \ {i},
             reported' = {e \in reported : e[1] # i}
      PROVE  Served(i)
  <2> DEFINE x == selector_unregister_fd(z, i)
             T == {new} \intersect Table
  <2>1. /\ Good(z)
        /\ \A j \in Table \ {new} : z.fds[j].kind = fds[j].kind
        /\ ItemUsed(z.fds, i)
    BY <1>6, <1>8
  <2>2. Becomes(x)
    BY <1>8
  <2>3. /\ Good(x) /\ ~ItemUsed(x.fds, i)
        /\ \A j \in Table \ {i} : x.fds[j].kind = z.fds[j].kind
    BY <2>1, UnregisterIsGood
  <2> HIDE DEF x
  <2>4. \A j \in Table \ {i} : ItemUsed(x.fds, j) => ItemUsed(fds, j) \/ j \in T
    BY <2>1, <2>3 DEF ItemUsed
  <2>5. T \in SUBSET Table /\ open \union T \subseteq open' \union {i} /\ open' \subseteq Table
    BY <1>8 DEF Ready
  <2> HIDE DEF T
  <2> QED
    BY <1>1, <1>8, <2>2, <2>3, <2>4, <2>5, WithoutServes DEF Ready
<1> QED
  BY <1>4, <1>5, <1>7, <1>8

\* A client that wants more of a message wakes its reader.
LEMMA LoadServes ==
    ASSUME Ready, NEW i \in Table, load_more_bytes(i)
    PROVE  Served(i)
<1> DEFINE y == selector_set_interest(Sel, i, "NOOP")
           x == selector_set_interest(y, fds[i].peer, "READ")
<1>1. i \in Places /\ fds[i].peer \in Places /\ {"NOOP", "READ"} \subseteq Interests
  BY FieldsOfItems DEF Ready, Places, Interests
<1>2. Good(y) /\ \A j \in Table : y.fds[j].kind = Sel.fds[j].kind
  BY <1>1, SetInterestIsGood DEF Ready
<1>3. /\ Becomes(x)
      /\ stray' = (stray \/ (/\ fds[i].peer \in Table \ {i}
                             /\ x.fds[fds[i].peer] # fds[fds[i].peer]
                             /\ ~Mine(i, fds[i].peer)))
      /\ UNCHANGED <<phase, open, reported>>
  BY DEF load_more_bytes
<1> HIDE DEF y
<1>4. Good(x) /\ \A j \in Table : x.fds[j].kind = y.fds[j].kind
  BY <1>1, <1>2, SetInterestIsGood
<1> HIDE DEF x
<1>5. \A j \in Table : x.fds[j].kind = fds[j].kind
  BY <1>2, <1>4 DEF Sel
<1>6. stray' \in BOOLEAN
  BY <1>3, Zenon DEF Ready
<1> QED
  BY <1>3, <1>4, <1>5, <1>6, NothingNewServes

\* Trading the interests of client and reader keeps the table good.
LEMMA InterestsChanged ==
    ASSUME Ready, NEW i \in Table
    PROVE  /\ Good(change_interests(i))
           /\ \A j \in Table : change_interests(i).fds[j].kind = fds[j].kind
<1> DEFINE y == selector_set_interest(Sel, fds[i].peer, "WRITE")
           x == selector_set_interest(y, i, "NOOP")
<1>1. i \in Places /\ fds[i].peer \in Places /\ {"NOOP", "WRITE"} \subseteq Interests
  BY FieldsOfItems DEF Ready, Places, Interests
<1>2. Good(y) /\ \A j \in Table : y.fds[j].kind = Sel.fds[j].kind
  BY <1>1, SetInterestIsGood DEF Ready
<1>3. change_interests(i) = x
  BY DEF change_interests
<1> HIDE DEF y
<1>4. Good(x) /\ \A j \in Table : x.fds[j].kind = y.fds[j].kind
  BY <1>1, <1>2, SetInterestIsGood
<1> HIDE DEF x
<1> QED
  BY <1>2, <1>3, <1>4 DEF Sel

\* The record of a use after free is a Boolean.
LEMMA StrayIsBoolean ==
    ASSUME Ready, NEW i \in Table, stray' = (stray \/ fds[i].freed)
    PROVE  stray' \in BOOLEAN
<1>1. stray \in BOOLEAN /\ fds[i].freed \in BOOLEAN
  BY FieldsOfItems DEF Ready
<1> QED
  BY <1>1, Zenon

\* The reader passes a piece on, to its client if that still is there.
LEMMA ReaderServes ==
    ASSUME Ready, NEW i \in Table, handle_file_reader(i)
    PROVE  Served(i)
<1>1. /\ Becomes(change_interests(i))
      /\ stray' = (stray \/ fds[i].freed)
      /\ UNCHANGED <<phase, open, reported>>
  BY DEF handle_file_reader
<1>2. stray' \in BOOLEAN
  BY <1>1, StrayIsBoolean
<1> QED
  BY <1>1, <1>2, InterestsChanged, NothingNewServes

\* At the end of the file the reader unregisters itself.
LEMMA ReaderEndServes ==
    ASSUME Ready, NEW i \in Table, file_reader_ends(i)
    PROVE  Served(i)
<1> DEFINE x == selector_unregister_fd(change_interests(i), i)
           z == [x EXCEPT !.fds[fds[i].peer].f = FALSE]
<1>1. /\ \/ /\ Becomes(IF fds[i].freed THEN x ELSE z)
            /\ open' = open \ {i}
         \/ /\ Becomes(x)
            /\ UNCHANGED open
      /\ reported' = {e \in reported : e[1] # i}
      /\ stray' = (stray \/ fds[i].freed)
      /\ UNCHANGED phase
      /\ fds[i].kind = "reader"
  BY DEF file_reader_ends
<1>2. ItemUsed(change_interests(i).fds, i)
  BY <1>1, InterestsChanged DEF ItemUsed
<1>3. /\ Good(x) /\ ~ItemUsed(x.fds, i)
      /\ \A j \in Table \ {i} : x.fds[j].kind = change_interests(i).fds[j].kind
  BY <1>2, InterestsChanged, UnregisterIsGood
<1> HIDE DEF x
<1>4. fds[i].peer \in Places
  BY FieldsOfItems DEF Ready
<1>5. Good(z) /\ \A j \in Table : z.fds[j].kind = x.fds[j].kind
  <2>1. ASSUME NEW p \in Places
        PROVE  /\ Good([x EXCEPT !.fds[p].f = FALSE])
               /\ \A j \in Table : [x EXCEPT !.fds[p].f = FALSE].fds[j].kind = x.fds[j].kind
    <3>1. Good(x)
      BY <1>3
    <3> QED
      BY <3>1, FlagIsGood, Zenon
  <2> QED
    BY <1>4, <2>1, Zenon
<1> HIDE DEF z
<1>6. PICK last \in {x, z} : Becomes(last)
  BY <1>1
<1>7. /\ Good(last) /\ ~ItemUsed(last.fds, i)
      /\ \A j \in Table \ {i} : last.fds[j].kind = fds[j].kind
  BY <1>3, <1>5, <1>6, InterestsChanged DEF ItemUsed
<1>8. stray' \in BOOLEAN
  BY <1>1, StrayIsBoolean
<1>9. \A j \in Table \ {i} : ItemUsed(last.fds, j) => ItemUsed(fds, j) \/ j \in {}
  BY <1>7 DEF ItemUsed
<1>10. /\ open \union {} \subseteq open' \union {i} /\ open' \subseteq Table
       /\ {} \in SUBSET Table
  BY <1>1 DEF Ready
<1> QED
  BY <1>1, <1>6, <1>7, <1>8, <1>9, <1>10, WithoutServes

\* A finished shell command unregisters its pipe and wakes the administrator.
LEMMA CommandServes ==
    ASSUME Ready, NEW i \in Table, handle_command(i)
    PROVE  Served(i)
<1> DEFINE y == selector_unregister_fd(Sel, i)
           x == selector_set_interest(y, fds[i].peer, "WRITE")
<1>1. /\ Becomes(x)
      /\ open' = open \ {i}
      /\ reported' = {e \in reported : e[1] # i}
      /\ stray' = (stray \/ fds[i].freed)
      /\ UNCHANGED phase
      /\ fds[i].kind = "command"
  BY DEF handle_command
<1>2. ItemUsed(Sel.fds, i)
  BY <1>1 DEF ItemUsed, Sel
<1>3. /\ Good(y) /\ ~ItemUsed(y.fds, i)
      /\ \A j \in Table \ {i} : y.fds[j].kind = Sel.fds[j].kind
  BY <1>2, UnregisterIsGood DEF Ready
<1>4. fds[i].peer \in Places /\ "WRITE" \in Interests
  BY FieldsOfItems DEF Ready, Interests
<1> HIDE DEF y
<1>5. Good(x) /\ \A j \in Table : x.fds[j].kind = y.fds[j].kind
  BY <1>3, <1>4, SetInterestIsGood
<1> HIDE DEF x
<1>6. ~ItemUsed(x.fds, i)
  BY <1>3, <1>5 DEF ItemUsed
<1>7. stray' \in BOOLEAN
  BY <1>1, StrayIsBoolean
<1>8. \A j \in Table \ {i} : ItemUsed(x.fds, j) => ItemUsed(fds, j) \/ j \in {}
  BY <1>3, <1>5 DEF ItemUsed, Sel
<1>9. /\ open \union {} \subseteq open' \union {i} /\ open' \subseteq Table
      /\ {} \in SUBSET Table
  BY <1>1 DEF Ready
<1> QED
  BY <1>1, <1>5, <1>6, <1>7, <1>8, <1>9, WithoutServes

\* A callback the process dies in changes nothing else.
LEMMA DeathServes ==
    ASSUME Ready, NEW i \in Table, NEW writing \in BOOLEAN, Dies(i, writing)
    PROVE  Served(i)
<1>1. UNCHANGED <<tableVars, open, reported, stray>> /\ phase' = "dead"
  BY DEF Dies
<1> QED
  BY <1>1, TableUnchanged DEF Ready, Served

\* Whatever callback runs, its descriptor is the only one it takes away.
LEMMA CallbackServes ==
    ASSUME Ready, NEW i \in Table, NEW writing \in BOOLEAN, Callback(i, writing)
    PROVE  Served(i)
BY AcceptServes, GoesOnServes, ClosesServes, RetrServes, LoadServes, ExecuteServes,
   ReaderServes, ReaderEndServes, CommandServes, DeathServes DEF Callback

-----------------------------------------------------------------------------
(* The invariant                                                           *)

\* What the properties leave out: in what state the sets are while the table
\* is destroyed, and which of the events that were left by the last select()
\* may belong to a registration that is gone, which is those of the descriptor
\* that was served last.
Inv ==
    /\ TypeOK
    /\ Covers(Sel)
    /\ phase \in {"select", "walk"} => Sees(Sel)
    /\ phase \in {"destroy", "over"} => Tidy(Sel)
    /\ UsedAreOpen
    /\ phase = "over" => \A i \in Table : ~ItemUsed(fds, i)
    /\ phase = "walk" => \A e \in Left \ reported :
                             /\ ~ItemUsed(fds, e[1])
                             /\ \A d \in Left : e[1] <= d[1]

\* The four variables of the table, read as one record.
LEMMA TypeGivesSel == ASSUME TypeOK PROVE Sel \in Sels
BY DEF TypeOK, Sel, Sels

\* During the walk a callback finds what the lemmas above ask for.
LEMMA WalkIsReady == ASSUME Inv, phase = "walk" PROVE Ready
BY TypeGivesSel DEF Inv, Ready, Good, TypeOK, UsedAreOpen

\* The same record, read back.
LEMMA SelGivesType ==
    ASSUME Sel' \in Sels
    PROVE  /\ fds' \in [Table -> Item]
           /\ max_fd' \in Table
           /\ master_r' \subseteq Table /\ master_w' \subseteq Table
BY DEF Sel, Sels

\* A good table is tidy.
LEMMA GoodIsTidy == ASSUME NEW s, Good(s) PROVE Tidy(s)
BY DEF Good, Sels, Sees, Tidy

\* selector_new and the two listening sockets.
LEMMA InitInv == Init => Inv
<1> SUFFICES ASSUME Init PROVE Inv
  OBVIOUS
<1> DEFINE master == [Unused EXCEPT !.kind = "master", !.interest = "READ"]
<1>1. Masters \subseteq Table /\ Masters # {} /\ 0 \in Table
  BY DEF Table
<1>2. /\ master \in Item /\ master.kind = "master" /\ master.interest = "READ"
      /\ Unused \in Item /\ Unused.kind = "unused"
  BY UnusedIsItem DEF Item, Interests, Unused
<1> HIDE DEF master
<1>3. /\ fds = [i \in Table |-> IF i \in Masters THEN master ELSE Unused]
      /\ max_fd = Greatest(Masters)
      /\ master_r = Masters
      /\ master_w = {}
      /\ slave_r = {} /\ slave_w = {}
      /\ phase = "select"
      /\ open = Masters
      /\ reported = {}
      /\ stray = FALSE
  BY DEF Init, master
<1>4. max_fd \in Masters /\ \A j \in Masters : j <= max_fd
  BY <1>1, <1>3, GreatestIsGreatest
<1>5. fds \in [Table -> Item]
  BY <1>2, <1>3
<1>6. TypeOK
  BY <1>1, <1>3, <1>4, <1>5 DEF TypeOK
<1>7. \A i \in Table : ItemUsed(fds, i) <=> i \in Masters
  BY <1>2, <1>3 DEF ItemUsed
<1>8. \A i \in Masters : fds[i].interest = "READ"
  BY <1>1, <1>2, <1>3
<1>9. Covers(Sel)
  BY <1>1, <1>4, <1>7 DEF Covers, Sel
<1>10. Sees(Sel)
  BY <1>1, <1>3, <1>7, <1>8 DEF Sees, Sel
<1>11. UsedAreOpen
  BY <1>3, <1>7 DEF UsedAreOpen
<1> QED
  BY <1>3, <1>6, <1>9, <1>10, <1>11 DEF Inv

\* The steps that leave the table alone.
LEMMA TableStays ==
    ASSUME Inv, UNCHANGED tableVars
    PROVE  /\ Sel' = Sel /\ Covers(Sel')
           /\ (phase \in {"select", "walk"}) => (Sees(Sel') /\ Tidy(Sel'))
           /\ \A i \in Table : ItemUsed(fds', i) <=> ItemUsed(fds, i)
           /\ UNCHANGED <<fds, max_fd, master_r, master_w>>
<1>1. Sel' = Sel /\ UNCHANGED <<fds, max_fd, master_r, master_w>>
  BY DEF tableVars, Sel
<1>2. (phase \in {"select", "walk"}) => Good(Sel)
  BY TypeGivesSel DEF Inv, Good
<1> QED
  BY <1>1, <1>2, GoodIsTidy DEF Inv, Good

\* select() reports some of what it was asked about.
LEMMA SelectKeepsInv == ASSUME Inv, selector_select PROVE Inv'
<1>1. /\ phase = "select" /\ phase' = "walk"
      /\ UNCHANGED <<tableVars, open, stray>>
  BY DEF selector_select
<1>2. PICK r \in SUBSET {i \in master_r : i <= max_fd},
           w \in SUBSET {i \in master_w : i <= max_fd} :
         slave_r' = r /\ slave_w' = w /\ reported' = EventsOf(r, w)
  BY DEF selector_select
<1>3. UNCHANGED <<fds, max_fd, master_r, master_w>>
  BY <1>1, TableStays
<1>4. r \subseteq Table /\ w \subseteq Table
  BY DEF Inv, TypeOK
<1>5. EventsOf(r, w) \subseteq Table \X {"READ", "WRITE"}
  BY <1>4 DEF EventsOf
<1>6. TypeOK'
  BY <1>1, <1>2, <1>3, <1>4, <1>5 DEF Inv, TypeOK
<1>7. (Left \ reported)' = {}
  BY <1>2 DEF Left, EventsOf
<1> QED
  BY <1>1, <1>6, <1>7, TableStays DEF Inv, UsedAreOpen

\* Whatever ends the main loop, the destruction begins with nothing reported.
LEMMA LeavingKeepsInv ==
    ASSUME Inv, phase = "select", phase' = "destroy", reported' = {},
           UNCHANGED <<tableVars, walkVars, open, stray>>
    PROVE  Inv'
<1>1. TypeOK'
  BY TableStays DEF Inv, TypeOK, walkVars
<1> QED
  BY <1>1, TableStays DEF Inv, UsedAreOpen

\* After the last place of the table select() is called again.
LEMMA EndOfWalkKeepsInv == ASSUME Inv, iteration_ends PROVE Inv'
<1>1. /\ phase = "walk" /\ phase' = "select"
      /\ slave_r' = {} /\ slave_w' = {} /\ reported' = {}
      /\ UNCHANGED <<tableVars, open, stray>>
  BY DEF iteration_ends
<1>2. TypeOK'
  BY <1>1, TableStays DEF Inv, TypeOK
<1> QED
  BY <1>1, <1>2, TableStays DEF Inv, UsedAreOpen

\* The event that is served, and what is left of the others.
LEMMA TheEventServed ==
    ASSUME Inv, handle_iteration
    PROVE  \E e \in Left :
             /\ e[1] \in Table /\ e[2] \in {"READ", "WRITE"} /\ e = <<e[1], e[2]>>
             /\ Due(e)
             /\ \A d \in Left : Due(d) => First(e, d)
             /\ Ready
             /\ Served(e[1])
             /\ slave_r' = {i \in slave_r : i > e[1]}
             /\ slave_w' = {i \in slave_w : i > e[1] \/ (i = e[1] /\ e[2] = "READ")}
<1>1. PICK e \in Left :
         /\ Due(e)
         /\ \A d \in Left : Due(d) => First(e, d)
         /\ Callback(e[1], e[2] = "WRITE")
         /\ slave_r' = {i \in slave_r : i > e[1]}
         /\ slave_w' = {i \in slave_w : i > e[1] \/ (i = e[1] /\ e[2] = "READ")}
  BY DEF handle_iteration
<1>2. phase = "walk"
  BY DEF handle_iteration
<1>3. e[1] \in Table /\ e[2] \in {"READ", "WRITE"} /\ e = <<e[1], e[2]>>
  BY DEF Left, EventsOf, Inv, TypeOK
<1>4. (e[2] = "WRITE") \in BOOLEAN
  OBVIOUS
<1>5. Ready
  BY <1>2, WalkIsReady
<1>6. Served(e[1])
  BY <1>1, <1>3, <1>4, <1>5, CallbackServes
<1> QED
  BY <1>1, <1>3, <1>5, <1>6

\* The walk goes up: serving an event leaves those of higher places, and the
\* same descriptor's OP_WRITE after its OP_READ.
LEMMA WhatIsLeft ==
    ASSUME Inv, NEW e, e[1] \in Table,
           slave_r' = {i \in slave_r : i > e[1]},
           slave_w' = {i \in slave_w : i > e[1] \/ (i = e[1] /\ e[2] = "READ")}
    PROVE  /\ Left' = {d \in Left : \/ d[1] > e[1]
                                    \/ d[1] = e[1] /\ d[2] = "WRITE" /\ e[2] = "READ"}
           /\ slave_r' \subseteq Table /\ slave_w' \subseteq Table
           /\ \A d \in Left : /\ d[1] \in Table /\ d[2] \in {"READ", "WRITE"}
                              /\ d = <<d[1], d[2]>>
<1>1. /\ slave_r \subseteq Table /\ slave_w \subseteq Table
      /\ \A i \in Table : i \in Int
  BY DEF Inv, TypeOK, Table
<1>2. ~(e[1] > e[1])
  BY <1>1
<1> QED
  BY <1>1, <1>2 DEF Left, EventsOf

\* One step of the walk: a callback, or a place passed over.
LEMMA WalkKeepsInv == ASSUME Inv, handle_iteration PROVE Inv'
<1>1. PICK e \in Left :
         /\ e[1] \in Table /\ e[2] \in {"READ", "WRITE"} /\ e = <<e[1], e[2]>>
         /\ Due(e)
         /\ \A d \in Left : Due(d) => First(e, d)
         /\ Ready
         /\ Served(e[1])
         /\ slave_r' = {i \in slave_r : i > e[1]}
         /\ slave_w' = {i \in slave_w : i > e[1] \/ (i = e[1] /\ e[2] = "READ")}
  BY TheEventServed
<1>2. /\ Left' = {d \in Left : \/ d[1] > e[1]
                               \/ d[1] = e[1] /\ d[2] = "WRITE" /\ e[2] = "READ"}
      /\ slave_r' \subseteq Table /\ slave_w' \subseteq Table
      /\ \A d \in Left : d[1] \in Table
  BY <1>1, WhatIsLeft
<1>3. /\ Good(Sel')
      /\ open' \subseteq Table
      /\ reported' \subseteq reported
      /\ \A d \in reported \ reported' : d[1] = e[1] /\ ~ItemUsed(fds', e[1])
      /\ stray' \in BOOLEAN
      /\ phase' \in {"walk", "dead"}
      /\ \A j \in Table : ItemUsed(fds', j) => j \in open'
  BY <1>1 DEF Served
<1>4. reported' \subseteq Table \X {"READ", "WRITE"}
  BY <1>1, <1>3 DEF Ready
<1>5. TypeOK'
  BY <1>2, <1>3, <1>4, SelGivesType DEF TypeOK, Good
<1>6. phase = "walk"
  BY <1>1 DEF Ready
<1>7. ASSUME NEW d \in Left' \ reported'
      PROVE  /\ ~ItemUsed(fds', d[1])
             /\ \A c \in Left' : d[1] <= c[1]
  <2>1. \A i \in Table : i \in Int
    BY DEF Table
  <2>2. d \in Left /\ d[1] \in Table /\ (d[1] > e[1] \/ d[1] = e[1])
    BY <1>2
  <2>3. d \in reported
    <3> SUFFICES ASSUME d \notin reported PROVE FALSE
      OBVIOUS
    <3>1. ~ItemUsed(fds, d[1]) /\ d[1] <= e[1]
      BY <1>6, <2>2 DEF Inv
    <3>2. d[1] = e[1]
      BY <1>1, <2>1, <2>2, <3>1
    <3>3. ItemUsed(fds, e[1])
      BY <1>1 DEF Due
    <3> QED
      BY <3>1, <3>2, <3>3
  <2>4. d[1] = e[1] /\ ~ItemUsed(fds', e[1])
    BY <1>3, <2>3
  <2>5. \A c \in Left' : e[1] <= c[1]
    BY <1>1, <1>2, <2>1
  <2> QED
    BY <2>4, <2>5
<1>8. Covers(Sel') /\ Sees(Sel')
  BY <1>3 DEF Good
<1> QED
  BY <1>3, <1>5, <1>7, <1>8 DEF Inv, UsedAreOpen

\* selector_destroy unregisters one place after the other.
LEMMA DestroyKeepsInv == ASSUME Inv, selector_destroy PROVE Inv'
<1>1. phase = "destroy" /\ UNCHANGED <<walkVars, reported, stray>>
  BY DEF selector_destroy
<1>2. PICK i \in ToDestroy :
        LET x == selector_unregister_fd(Sel, i) IN
        IF fds[i].kind \in Sessions
        THEN /\ open' = open \ {i}
             /\ \/ Becomes(x) /\ UNCHANGED phase
                \/ /\ Becomes([x EXCEPT !.r = @ \ {MAX_FD}, !.w = @ \ {MAX_FD}])
                   /\ UNCHANGED phase
                \/ Becomes(x) /\ phase' = "dead"
        ELSE Becomes(x) /\ UNCHANGED <<open, phase>>
  BY DEF selector_destroy
<1> DEFINE x == selector_unregister_fd(Sel, i)
           y == [x EXCEPT !.r = @ \ {MAX_FD}, !.w = @ \ {MAX_FD}]
<1>3. /\ open \ {i} \subseteq open' /\ open' \subseteq open
      /\ phase' \in {"destroy", "dead"}
      /\ Becomes(x) \/ Becomes(y)
  BY <1>1, <1>2
<1>4. i \in Table /\ ItemUsed(Sel.fds, i)
  BY DEF ToDestroy, Sel
<1>5. Sel \in Sels /\ Covers(Sel) /\ Tidy(Sel)
  BY <1>1, TypeGivesSel DEF Inv
<1>6. /\ x \in Sels
      /\ Covers(x)
      /\ x.r = Sel.r \ {i} /\ x.w = Sel.w \ {i}
      /\ ~ItemUsed(x.fds, i)
      /\ \A j \in Table \ {i} : x.fds[j].kind = Sel.fds[j].kind
  BY <1>4, <1>5, UnregisterIs
<1> HIDE DEF x
<1>7. /\ y.fds = x.fds /\ y.max_fd = x.max_fd
      /\ y.r = x.r \ {MAX_FD} /\ y.w = x.w \ {MAX_FD}
  BY <1>6 DEF Sels
<1> HIDE DEF y
<1>8. /\ fds' = x.fds /\ max_fd' = x.max_fd
      /\ master_r' \subseteq Sel.r \ {i} /\ master_w' \subseteq Sel.w \ {i}
  <2>1. CASE Becomes(x)
    BY <1>6, <2>1 DEF Becomes
  <2>2. CASE Becomes(y)
    BY <1>6, <1>7, <2>2 DEF Becomes
  <2> QED
    BY <1>3, <2>1, <2>2
<1>9. Covers(Sel')
  BY <1>6, <1>8 DEF Covers, Sel
<1>10. \A j \in Table : ItemUsed(fds', j) <=> ItemUsed(fds, j) /\ j # i
  BY <1>6, <1>8 DEF ItemUsed, Sel
<1>11. Tidy(Sel')
  <2>1. Sel.r \subseteq Table /\ Sel.w \subseteq Table
    BY <1>5 DEF Sels
  <2> QED
    BY <1>5, <1>8, <1>10, <2>1 DEF Tidy, Sel
<1>12. TypeOK'
  <2>1. /\ fds' \in [Table -> Item] /\ max_fd' \in Table
        /\ master_r' \subseteq Table /\ master_w' \subseteq Table
    BY <1>5, <1>6, <1>8 DEF Sels
  <2> QED
    BY <1>1, <1>3, <2>1 DEF Inv, TypeOK, walkVars
<1>13. UsedAreOpen'
  BY <1>1, <1>3, <1>10 DEF Inv, UsedAreOpen
<1> QED
  BY <1>3, <1>9, <1>11, <1>12, <1>13 DEF Inv

\* After the destruction nothing changes.
LEMMA EndKeepsInv == ASSUME Inv, main_ends PROVE Inv'
<1>1. /\ phase = "destroy" /\ phase' = "over" /\ ToDestroy = {}
      /\ open' = open \ Masters
      /\ UNCHANGED <<tableVars, walkVars, reported, stray>>
  BY DEF main_ends
<1>2. /\ Sel' = Sel
      /\ UNCHANGED <<fds, max_fd, master_r, master_w, slave_r, slave_w>>
  BY <1>1, TableStays DEF walkVars
<1>3. TypeOK'
  BY <1>1, <1>2 DEF Inv, TypeOK
<1>4. \A i \in Table : ~ItemUsed(fds', i)
  BY <1>1, <1>2 DEF ToDestroy
<1>5. Covers(Sel') /\ Tidy(Sel')
  BY <1>1, <1>2 DEF Inv
<1> QED
  BY <1>1, <1>3, <1>4, <1>5 DEF Inv, UsedAreOpen

\* Every step of the loop.
LEMMA NextKeepsInv == ASSUME Inv, [Next]_vars PROVE Inv'
<1>1. CASE selector_select
  BY <1>1, SelectKeepsInv
<1>2. CASE select_fails \/ handleSignal
  BY <1>2, LeavingKeepsInv DEF select_fails, handleSignal
<1>3. CASE handle_iteration
  BY <1>3, WalkKeepsInv
<1>4. CASE iteration_ends
  BY <1>4, EndOfWalkKeepsInv
<1>5. CASE selector_destroy
  BY <1>5, DestroyKeepsInv
<1>6. CASE main_ends
  BY <1>6, EndKeepsInv
<1>7. CASE UNCHANGED vars
  <2>1. UNCHANGED <<fds, max_fd, master_r, master_w, slave_r, slave_w, phase, open,
                    reported, stray>>
    BY <1>7 DEF vars
  <2>2. Sel' = Sel /\ Left' = Left
    BY <2>1 DEF Sel, Left
  <2> QED
    BY <2>1, <2>2 DEF Inv, TypeOK, UsedAreOpen
<1> QED
  BY <1>1, <1>2, <1>3, <1>4, <1>5, <1>6, <1>7 DEF Next

\* So the invariant holds always.
LEMMA Invariance == Spec => []Inv
<1>1. Inv /\ [Next]_vars => Inv'
  BY NextKeepsInv
<1> QED
  BY InitInv, <1>1, PTL DEF Spec

-----------------------------------------------------------------------------
(* Who waits for whom                                                      *)

\* The administrator a shell command will wake is there and asleep, and waits
\* for no other command; the client of a reader that was not left behind is a
\* POP3 session.  The second half is what keeps the first: a reader sets its
\* client to OP_WRITE, and that must not be a sleeping administrator.
HasItsSession(t, j) ==
    /\ t[j].peer \in Table /\ ~t[j].freed
    /\ t[t[j].peer].kind = "admin"
    /\ t[t[j].peer].interest = "NOOP"

HasItsClient(t, j) == t[j].peer \in Table /\ t[t[j].peer].kind = "pop3"

Paired(t) ==
    /\ \A j \in Table : t[j].kind = "command" => HasItsSession(t, j)
    /\ \A j, k \in Table :
         t[j].kind = "command" /\ t[k].kind = "command" /\ t[j].peer = t[k].peer => j = k
    /\ \A j \in Table : t[j].kind = "reader" /\ ~t[j].freed => HasItsClient(t, j)

\* Nobody leaves, nobody comes, and only somebody no command waits for changes
\* its interest.
LEMMA InterestsOfOthers ==
    ASSUME NEW t, NEW u, Paired(t),
           \A j \in Table : Same(u[j], t[j]),
           \A j \in Table : \/ u[j].interest = t[j].interest
                            \/ \A k \in Table : t[k].kind = "command" => t[k].peer # j
    PROVE  Paired(u)
BY DEF Paired, HasItsSession, HasItsClient, Same

\* A descriptor that was free: a session, the reader of a POP3 session, or the
\* command of an administrator who sleeps and waits for no other.
LEMMA OneMore ==
    ASSUME NEW t, NEW u, Paired(t), NEW n \in Table, t[n].kind = "unused",
           \A j \in Table \ {n} : u[j] = t[j],
           ~u[n].freed,
           \/ u[n].kind \in Sessions
           \/ u[n].kind = "reader" /\ u[n].peer \in Table /\ t[u[n].peer].kind = "pop3"
           \/ /\ u[n].kind = "command" /\ u[n].peer \in Table
              /\ t[u[n].peer].kind = "admin" /\ t[u[n].peer].interest = "NOOP"
              /\ \A k \in Table : t[k].kind = "command" => t[k].peer # u[n].peer
    PROVE  Paired(u)
BY DEF Paired, HasItsSession, HasItsClient, Sessions

\* A descriptor leaves: a pipe, or a session no command waits for, whose reader
\* is left behind.
LEMMA OneLess ==
    ASSUME NEW t, NEW u, Paired(t), NEW i \in Table,
           u[i].kind = "unused",
           \A j \in Table \ {i} : u[j].kind = t[j].kind,
           \A j \in Table \ {i} : IF /\ t[i].kind \in Sessions
                                     /\ t[j].kind \in Pipes
                                     /\ t[j].peer = i
                                  THEN u[j].freed
                                  ELSE u[j] = t[j],
           t[i].kind \in Sessions \union Pipes,
           \A k \in Table : t[k].kind = "command" => t[k].peer # i
    PROVE  Paired(u)
<1>1. \A j \in Table \ {i} : t[j].kind = "command" => u[j] = t[j]
  OBVIOUS
<1>2. \A j \in Table \ {i} : t[j].kind = "reader" /\ ~u[j].freed => u[j] = t[j]
  OBVIOUS
<1>3. \A j \in Table : t[j].kind \in Sessions \ {t[i].kind} => j # i
  OBVIOUS
<1>4. ASSUME NEW j \in Table, u[j].kind = "command" PROVE HasItsSession(u, j)
  <2>1. j # i /\ t[j].kind = "command" /\ u[j] = t[j] /\ t[j].peer # i
    BY <1>1, <1>4
  <2>2. HasItsSession(t, j)
    BY <2>1 DEF Paired
  <2>3. u[t[j].peer] = t[t[j].peer]
    BY <2>1, <2>2 DEF HasItsSession, Pipes
  <2> QED
    BY <2>1, <2>2, <2>3 DEF HasItsSession
<1>5. ASSUME NEW j \in Table, u[j].kind = "reader", ~u[j].freed PROVE HasItsClient(u, j)
  <2>1. j # i /\ t[j].kind = "reader" /\ u[j] = t[j]
    BY <1>2, <1>5
  <2>2. HasItsClient(t, j)
    BY <1>5, <2>1 DEF Paired
  <2>3. t[j].peer # i
    BY <1>5, <2>1, <2>2 DEF HasItsClient, Sessions, Pipes
  <2> QED
    BY <2>1, <2>2, <2>3 DEF HasItsClient
<1>6. ASSUME NEW j \in Table, NEW k \in Table,
             u[j].kind = "command", u[k].kind = "command", u[j].peer = u[k].peer
      PROVE  j = k
  <2>1. t[j].kind = "command" /\ t[k].kind = "command" /\ t[j].peer = t[k].peer
    BY <1>1, <1>6
  <2> QED
    BY <2>1 DEF Paired
<1> QED
  BY <1>4, <1>5, <1>6 DEF Paired

\* No command waits for a session that is being served: it is awake.
LEMMA AwakeIsFree ==
    ASSUME NEW t, Paired(t), NEW i \in Table, t[i].interest # "NOOP" \/ t[i].kind # "admin",
           NEW k \in Table, t[k].kind = "command"
    PROVE  t[k].peer # i
BY DEF Paired, HasItsSession

\* accept() brings a session that nobody waits for.
LEMMA AcceptPairs ==
    ASSUME Ready, Paired(fds), NEW i \in Table, accept(i)
    PROVE  Paired(fds')
<1>1. CASE UNCHANGED <<tableVars, open>>
  BY <1>1 DEF tableVars
<1>2. CASE \E new \in FreeFds, kind \in Sessions :
             /\ Becomes(selector_register(Sel, new, kind,
                          IF kind = "pop3" THEN "WRITE" ELSE "READ", 0))
             /\ open' = open \union {new}
  <2>1. PICK new \in FreeFds, kind \in Sessions :
             /\ Becomes(selector_register(Sel, new, kind,
                          IF kind = "pop3" THEN "WRITE" ELSE "READ", 0))
             /\ open' = open \union {new}
    BY <1>2
  <2> DEFINE o == IF kind = "pop3" THEN "WRITE" ELSE "READ"
             x == selector_register(Sel, new, kind, o, 0)
  <2>2. /\ new \in Table /\ new \in Places
        /\ kind \in Kinds /\ o \in Interests /\ 0 \in Places
    BY DEF FreeFds, Places, Kinds, Interests, Table
  <2>3. ~ItemUsed(fds, new) /\ fds[new].kind = "unused"
    BY DEF FreeFds, Ready, ItemUsed
  <2>4. Becomes(x)
    BY <2>1
  <2> HIDE DEF o
  <2>5. /\ Good(x)
        /\ \A j \in Table \ {new} : x.fds[j] = Sel.fds[j]
        /\ new \in Table /\ ~ItemUsed(Sel.fds, new) =>
                x.fds[new].kind = kind /\ ~x.fds[new].freed
    BY <2>2, RegisterIsGood DEF Ready
  <2> HIDE DEF x
  <2>6. fds' = x.fds
    BY <2>4 DEF Becomes
  <2>7. /\ \A j \in Table \ {new} : fds'[j] = fds[j]
        /\ fds'[new].kind \in Sessions /\ ~fds'[new].freed
    BY <2>2, <2>3, <2>5, <2>6 DEF Sel
  <2> QED
    BY <2>2, <2>3, <2>7, OneMore
<1> QED
  BY <1>1, <1>2 DEF accept

\* A session that is served may change its own interest: nobody's command
\* waits for it.
LEMMA OwnInterestPairs ==
    ASSUME NEW s, Good(s), Paired(s.fds), NEW i \in Table, NEW o \in Interests,
           \A k \in Table : s.fds[k].kind = "command" => s.fds[k].peer # i
    PROVE  Paired(selector_set_interest(s, i, o).fds)
<1> DEFINE x == selector_set_interest(s, i, o)
<1>1. i \in Places
  BY DEF Places
<1>2. /\ \A j \in Table : Same(x.fds[j], s.fds[j])
      /\ \A j \in Table \ {i} : x.fds[j] = s.fds[j]
  BY <1>1, SetInterestIsGood
<1> HIDE DEF x
<1>3. Paired(x.fds)
  BY <1>2, InterestsOfOthers
<1> QED
  BY <1>3 DEF x

\* Going on is that.
LEMMA GoesOnPairs ==
    ASSUME Ready, Paired(fds), NEW i \in Table, fds[i].interest # "NOOP", session_goes_on(i)
    PROVE  Paired(fds')
<1>1. PICK o \in {"READ", "WRITE"} : Becomes(selector_set_interest(Sel, i, o))
  BY DEF session_goes_on
<1>2. o \in Interests /\ Sel.fds = fds /\ Good(Sel)
  BY DEF Interests, Sel, Ready
<1>3. \A k \in Table : fds[k].kind = "command" => fds[k].peer # i
  BY AwakeIsFree
<1>4. Paired(selector_set_interest(Sel, i, o).fds)
  BY <1>2, <1>3, OwnInterestPairs
<1> QED
  BY <1>1, <1>4 DEF Becomes

\* A session or a pipe that nobody waits for may leave.
LEMMA UnregisterPairs ==
    ASSUME NEW s, Good(s), Paired(s.fds), NEW i \in Table,
           s.fds[i].kind \in Sessions \union Pipes,
           \A k \in Table : s.fds[k].kind = "command" => s.fds[k].peer # i
    PROVE  Paired(selector_unregister_fd(s, i).fds)
<1> DEFINE x == selector_unregister_fd(s, i)
<1>1. ItemUsed(s.fds, i)
  BY DEF ItemUsed, Sessions, Pipes
<1>2. /\ ~ItemUsed(x.fds, i)
      /\ \A j \in Table \ {i} : x.fds[j].kind = s.fds[j].kind
      /\ \A j \in Table \ {i} : IF /\ s.fds[i].kind \in Sessions
                                   /\ s.fds[j].kind \in Pipes
                                   /\ s.fds[j].peer = i
                                THEN x.fds[j].freed
                                ELSE x.fds[j] = s.fds[j]
  BY <1>1, UnregisterIsGood
<1> HIDE DEF x
<1>3. x.fds[i].kind = "unused"
  BY <1>2 DEF ItemUsed
<1>4. Paired(x.fds)
  BY <1>2, <1>3, OneLess
<1> QED
  BY <1>4 DEF x

\* A session that closes was awake: its command has long come back.
LEMMA ClosesPairs ==
    ASSUME Ready, Paired(fds), NEW i \in Table, fds[i].interest # "NOOP", session_closes(i)
    PROVE  Paired(fds')
<1>1. Sel.fds = fds /\ Good(Sel)
  BY DEF Sel, Ready
<1>2. /\ fds[i].kind \in Sessions \union Pipes
      /\ Becomes(selector_unregister_fd(Sel, i))
  BY DEF session_closes
<1>3. \A k \in Table : fds[k].kind = "command" => fds[k].peer # i
  BY AwakeIsFree
<1>4. Paired(selector_unregister_fd(Sel, i).fds)
  BY <1>1, <1>2, <1>3, UnregisterPairs
<1> QED
  BY <1>2, <1>4 DEF Becomes

\* An administrator's command finds him awake and puts him to sleep.
LEMMA ExecutePairs ==
    ASSUME Ready, Paired(fds), NEW i \in Table, fds[i].interest # "NOOP", executeCommand(i)
    PROVE  Paired(fds')
<1>1. Sel.fds = fds /\ Good(Sel) /\ fds[i].kind = "admin" /\ ItemUsed(fds, i)
  BY DEF Sel, Ready, executeCommand, ItemUsed
<1>2. i \in Places /\ "NOOP" \in Interests /\ "READ" \in Interests /\ "command" \in Kinds
  BY DEF Places, Interests, Kinds, Pipes
<1>3. \A k \in Table : fds[k].kind = "command" => fds[k].peer # i
  BY AwakeIsFree
<1>4. CASE Becomes(selector_set_interest(Sel, i, "NOOP"))
  <2>1. Paired(selector_set_interest(Sel, i, "NOOP").fds)
    BY <1>1, <1>2, <1>3, OwnInterestPairs
  <2> QED
    BY <1>4, <2>1 DEF Becomes
<1>5. CASE \E new \in FreeFds :
             Becomes(selector_set_interest(
                       selector_register(Sel, new, "command", "READ", i), i, "NOOP"))
  <2>1. PICK new \in FreeFds :
             Becomes(selector_set_interest(
                       selector_register(Sel, new, "command", "READ", i), i, "NOOP"))
    BY <1>5
  <2> DEFINE y == selector_register(Sel, new, "command", "READ", i)
             x == selector_set_interest(y, i, "NOOP")
             z == selector_set_interest(Sel, i, "NOOP")
  <2>2. new \in Table /\ new \in Places /\ new # i /\ ~ItemUsed(fds, new)
    BY <1>1 DEF FreeFds, Places, Ready
  <2>3. /\ Good(y)
        /\ \A j \in Table \ {new} : y.fds[j] = fds[j]
        /\ y.fds[new].kind = "command" /\ y.fds[new].peer = i /\ ~y.fds[new].freed
    BY <1>1, <1>2, <2>2, RegisterIsGood
  <2>4. Becomes(x)
    BY <2>1
  <2> HIDE DEF y
  <2>5. ItemUsed(y.fds, i)
    BY <1>1, <2>2, <2>3 DEF ItemUsed
  <2>6. /\ \A j \in Table : Same(x.fds[j], y.fds[j])
        /\ \A j \in Table \ {i} : x.fds[j] = y.fds[j]
        /\ x.fds[i].interest = "NOOP"
    BY <1>2, <2>3, <2>5, SetInterestIsGood
  <2> HIDE DEF x
  \* The interest first and the command then would come to the same.
  <2>7. /\ \A j \in Table : Same(z.fds[j], fds[j])
        /\ \A j \in Table \ {i} : z.fds[j] = fds[j]
        /\ z.fds[i].interest = "NOOP"
        /\ Paired(z.fds)
    BY <1>1, <1>2, <1>3, SetInterestIsGood, OwnInterestPairs
  <2> HIDE DEF z
  <2> DEFINE u == [j \in Table |-> IF j = new THEN x.fds[new] ELSE z.fds[j]]
  <2>8. Paired(u)
    <3>1. z.fds[new].kind = "unused" /\ \A j \in Table \ {new} : u[j] = z.fds[j]
      BY <2>2, <2>7 DEF ItemUsed
    <3>2. u[new].kind = "command" /\ u[new].peer = i /\ ~u[new].freed
      BY <2>2, <2>3, <2>6
    <3>3. z.fds[i].kind = "admin" /\ z.fds[i].interest = "NOOP"
      BY <1>1, <2>7 DEF Same
    <3>4. \A k \in Table : z.fds[k].kind = "command" => z.fds[k].peer # i
      BY <1>3, <2>7 DEF Same
    <3> HIDE DEF u
    <3> QED
      BY <2>2, <2>7, <3>1, <3>2, <3>3, <3>4, OneMore
  <2>9. \A j \in Table : Same(x.fds[j], u[j]) /\ x.fds[j].interest = u[j].interest
    BY <2>2, <2>3, <2>6, <2>7 DEF Same
  <2> HIDE DEF u
  <2>10. Paired(x.fds)
    BY <2>8, <2>9, InterestsOfOthers
  <2> QED
    BY <2>4, <2>10 DEF Becomes
<1> QED
  BY <1>4, <1>5 DEF executeCommand

\* RETR brings a reader, and its client may close at once.
LEMMA RetrPairs ==
    ASSUME Ready, Paired(fds), NEW i \in Table, init_file_reader(i)
    PROVE  Paired(fds')
<1> DEFINE retr == [Sel EXCEPT !.fds[i].f = TRUE]
<1>1. Sel.fds = fds /\ Good(Sel) /\ fds[i].kind = "pop3"
  BY DEF Sel, Ready, init_file_reader
<1>2. /\ i \in Places /\ "reader" \in Kinds
      /\ "READ" \in Interests /\ "WRITE" \in Interests /\ "NOOP" \in Interests
  BY DEF Places, Interests, Kinds, Pipes
<1>3. /\ Good(retr)
      /\ \A j \in Table : /\ Same(retr.fds[j], fds[j])
                          /\ retr.fds[j].interest = fds[j].interest
  <2>1. /\ Good(retr)
        /\ \A j \in Table : /\ Same(retr.fds[j], Sel.fds[j])
                            /\ retr.fds[j].interest = Sel.fds[j].interest
    BY <1>1, <1>2, FlagIsGood, Zenon
  <2> QED
    BY <1>1, <2>1
<1>4. \/ Becomes(selector_set_interest(retr, i, "WRITE"))
      \/ \E new \in FreeFds \union {TOO_HIGH} :
            LET z == selector_register([retr EXCEPT !.fds[i].peer = new],
                                       new, "reader", "READ", i)
            IN \/ \E o \in {"NOOP", "WRITE"} : Becomes(selector_set_interest(z, i, o))
               \/ Becomes(selector_unregister_fd(z, i))
  BY DEF init_file_reader
<1> HIDE DEF retr
<1>5. Paired(retr.fds)
  BY <1>3, InterestsOfOthers
<1>6. CASE Becomes(selector_set_interest(retr, i, "WRITE"))
  <2>1. \A k \in Table : retr.fds[k].kind = "command" => retr.fds[k].peer # i
    BY <1>1, <1>3, <1>5, AwakeIsFree DEF Same
  <2>2. Paired(selector_set_interest(retr, i, "WRITE").fds)
    BY <1>2, <1>3, <1>5, <2>1, OwnInterestPairs
  <2> QED
    BY <1>6, <2>2 DEF Becomes
<1>7. ASSUME NEW new \in FreeFds \union {TOO_HIGH}
      PROVE  LET z == selector_register([retr EXCEPT !.fds[i].peer = new],
                                        new, "reader", "READ", i)
             IN  Good(z) /\ Paired(z.fds) /\ z.fds[i].kind = "pop3"
  <2> DEFINE y == [retr EXCEPT !.fds[i].peer = new]
             z == selector_register(y, new, "reader", "READ", i)
  <2>1. new \in Places /\ (new \in Table => fds[new].kind = "unused")
    BY DEF FreeFds, Places, Table, TOO_HIGH, Ready, ItemUsed
  <2>2. /\ Good(y)
        /\ \A j \in Table : y.fds[j].kind = retr.fds[j].kind
        /\ \A j \in Table \ {i} : y.fds[j] = retr.fds[j]
        /\ y.fds[i].interest = retr.fds[i].interest
    BY <1>3, <2>1, PeerIsGood
  <2> HIDE DEF y
  <2>3. Paired(y.fds)
    <3>1. retr.fds[i].kind = "pop3"
      BY <1>1, <1>3 DEF Same
    <3>2. y.fds[i].kind = "pop3"
      BY <2>2, <3>1
    <3> QED
      BY <1>5, <2>2, <3>1, <3>2 DEF Paired, HasItsSession, HasItsClient
  <2>4. y.fds[i].kind = "pop3" /\ (new \in Table => ~ItemUsed(y.fds, new))
    BY <1>1, <1>3, <2>1, <2>2 DEF Same, ItemUsed
  <2>5. /\ Good(z)
        /\ \A j \in Table \ {new} : z.fds[j] = y.fds[j]
        /\ new \in Table => /\ z.fds[new].kind = "reader" /\ z.fds[new].peer = i
                            /\ ~z.fds[new].freed
    BY <1>2, <2>1, <2>2, <2>4, RegisterIsGood
  <2> HIDE DEF z
  <2>6. i # new
    BY <2>4 DEF ItemUsed
  <2>7. Paired(z.fds)
    <3>1. CASE new \in Table
      <4>1. y.fds[new].kind = "unused"
        BY <2>4, <3>1 DEF ItemUsed
      <4> QED
        BY <2>3, <2>4, <2>5, <3>1, <4>1, OneMore
    <3>2. CASE new \notin Table
      <4>1. \A j \in Table : z.fds[j] = y.fds[j]
        BY <2>5, <3>2
      <4> QED
        BY <2>3, <4>1, InterestsOfOthers DEF Same
    <3> QED
      BY <3>1, <3>2
  <2>8. z.fds[i].kind = "pop3"
    BY <2>4, <2>5, <2>6
  <2> QED
    BY <2>5, <2>7, <2>8 DEF z, y
<1>8. ASSUME NEW z, Good(z), Paired(z.fds), z.fds[i].kind = "pop3",
             \/ \E o \in {"NOOP", "WRITE"} : Becomes(selector_set_interest(z, i, o))
             \/ Becomes(selector_unregister_fd(z, i))
      PROVE  Paired(fds')
  <2>1. \A k \in Table : z.fds[k].kind = "command" => z.fds[k].peer # i
    BY <1>8, AwakeIsFree
  <2>2. CASE \E o \in {"NOOP", "WRITE"} : Becomes(selector_set_interest(z, i, o))
    <3>1. PICK o \in {"NOOP", "WRITE"} : Becomes(selector_set_interest(z, i, o))
      BY <2>2
    <3>2. Paired(selector_set_interest(z, i, o).fds)
      BY <1>2, <1>8, <2>1, OwnInterestPairs
    <3> QED
      BY <3>1, <3>2 DEF Becomes
  <2>3. CASE Becomes(selector_unregister_fd(z, i))
    <3>1. z.fds[i].kind \in Sessions \union Pipes
      BY <1>8 DEF Sessions
    <3>2. Paired(selector_unregister_fd(z, i).fds)
      BY <1>8, <2>1, <3>1, UnregisterPairs
    <3> QED
      BY <2>3, <3>2 DEF Becomes
  <2> QED
    BY <1>8, <2>2, <2>3
<1>9. CASE \E new \in FreeFds \union {TOO_HIGH} :
            LET z == selector_register([retr EXCEPT !.fds[i].peer = new],
                                       new, "reader", "READ", i)
            IN \/ \E o \in {"NOOP", "WRITE"} : Becomes(selector_set_interest(z, i, o))
               \/ Becomes(selector_unregister_fd(z, i))
  BY <1>7, <1>8, <1>9
<1> QED
  BY <1>4, <1>6, <1>9

\* Loading more wakes the session's own reader, or nobody, or is a stray.
LEMMA LoadPairs ==
    ASSUME Ready, Paired(fds), NEW i \in Table, load_more_bytes(i)
    PROVE  stray' \/ Paired(fds')
<1> DEFINE p == fds[i].peer
           y == selector_set_interest(Sel, i, "NOOP")
           x == selector_set_interest(y, p, "READ")
<1>1. /\ i \in Places /\ p \in Places /\ {"NOOP", "READ"} \subseteq Interests
      /\ Good(Sel) /\ Sel.fds = fds /\ fds[i].kind = "pop3"
  BY FieldsOfItems DEF Ready, Places, Interests, Sel, load_more_bytes
<1>2. /\ fds' = x.fds
      /\ p \in Table \ {i} /\ x.fds[p] # fds[p] => stray' \/ Mine(i, p)
  BY DEF load_more_bytes, Becomes
<1> HIDE DEF p
<1>3. /\ Good(y)
      /\ \A j \in Table : Same(y.fds[j], fds[j])
      /\ \A j \in Table \ {i} : y.fds[j] = fds[j]
  BY <1>1, SetInterestIsGood
<1> HIDE DEF y
<1>4. /\ \A j \in Table : Same(x.fds[j], y.fds[j])
      /\ \A j \in Table \ {p} : x.fds[j] = y.fds[j]
  BY <1>1, <1>3, SetInterestIsGood
<1> HIDE DEF x
<1>5. \A j \in Table : Same(x.fds[j], fds[j])
  BY <1>3, <1>4 DEF Same
<1> SUFFICES ASSUME ~stray' PROVE Paired(fds')
  OBVIOUS
<1>6. ASSUME NEW j \in Table
      PROVE  \/ x.fds[j].interest = fds[j].interest
             \/ \A k \in Table : fds[k].kind = "command" => fds[k].peer # j
  <2>1. CASE j = i
    BY <1>1, <2>1, AwakeIsFree
  <2>2. CASE j # i /\ j # p
    BY <1>3, <1>4, <2>2
  <2>3. CASE j # i /\ j = p
    <3>1. x.fds[j] = fds[j] \/ fds[j].kind = "reader"
      BY <1>2, <2>3 DEF Mine
    <3> QED
      BY <3>1, AwakeIsFree
  <2> QED
    BY <2>1, <2>2, <2>3
<1>7. Paired(x.fds)
  BY <1>5, <1>6, InterestsOfOthers
<1> QED
  BY <1>2, <1>7

\* A reader that was not left behind wakes its own client.
LEMMA ChangePairs ==
    ASSUME Ready, Paired(fds), NEW i \in Table, fds[i].kind = "reader", ~fds[i].freed
    PROVE  Paired(change_interests(i).fds)
<1> DEFINE p == fds[i].peer
           y == selector_set_interest(Sel, p, "WRITE")
           x == selector_set_interest(y, i, "NOOP")
<1>1. /\ i \in Places /\ p \in Table /\ p \in Places /\ {"NOOP", "WRITE"} \subseteq Interests
      /\ Good(Sel) /\ Sel.fds = fds /\ fds[p].kind = "pop3"
  BY DEF Ready, Places, Interests, Sel, Paired, HasItsClient
<1> HIDE DEF p
<1>2. Good(y) /\ Paired(y.fds) /\ \A j \in Table : Same(y.fds[j], fds[j])
  <2>1. \A k \in Table : fds[k].kind = "command" => fds[k].peer # p
    BY <1>1, AwakeIsFree
  <2>2. Paired(y.fds)
    BY <1>1, <2>1, OwnInterestPairs
  <2>3. Good(y) /\ \A j \in Table : Same(y.fds[j], fds[j])
    BY <1>1, SetInterestIsGood
  <2> QED
    BY <2>2, <2>3
<1>3. Paired(x.fds)
  <2>1. \A k \in Table : y.fds[k].kind = "command" => y.fds[k].peer # i
    <3>1. y.fds[i].kind = "reader"
      BY <1>2 DEF Same
    <3> QED
      BY <1>2, <3>1, AwakeIsFree
  <2> HIDE DEF y
  <2> QED
    BY <1>1, <1>2, <2>1, OwnInterestPairs
<1> QED
  BY <1>3 DEF change_interests, p

\* The reader passes a piece on.
LEMMA ReaderPairs ==
    ASSUME Ready, Paired(fds), NEW i \in Table, handle_file_reader(i)
    PROVE  stray' \/ Paired(fds')
<1>1. /\ fds[i].kind = "reader"
      /\ fds' = change_interests(i).fds
      /\ stray' = (stray \/ fds[i].freed)
  BY DEF handle_file_reader, Becomes
<1>2. CASE ~fds[i].freed
  BY <1>1, <1>2, ChangePairs
<1>3. CASE fds[i].freed
  BY <1>1, <1>3
<1> QED
  BY <1>2, <1>3

\* Or it ends.
LEMMA ReaderEndPairs ==
    ASSUME Ready, Paired(fds), NEW i \in Table, file_reader_ends(i)
    PROVE  stray' \/ Paired(fds')
<1> DEFINE c == change_interests(i)
           x == selector_unregister_fd(c, i)
           z == [x EXCEPT !.fds[fds[i].peer].f = FALSE]
<1>1. /\ fds[i].kind = "reader"
      /\ stray' = (stray \/ fds[i].freed)
      /\ \/ Becomes(IF fds[i].freed THEN x ELSE z)
         \/ Becomes(x)
  BY DEF file_reader_ends
<1>2. CASE fds[i].freed
  BY <1>1, <1>2
<1>3. CASE ~fds[i].freed
  <2>1. Becomes(x) \/ Becomes(z)
    BY <1>1, <1>3
  <2>2. /\ Good(c) /\ Paired(c.fds)
        /\ \A j \in Table : c.fds[j].kind = fds[j].kind
    BY <1>1, <1>3, ChangePairs, InterestsChanged
  <2> HIDE DEF c
  <2>3. /\ c.fds[i].kind \in Sessions \union Pipes /\ ItemUsed(c.fds, i)
        /\ \A k \in Table : c.fds[k].kind = "command" => c.fds[k].peer # i
    <3>1. c.fds[i].kind = "reader"
      BY <1>1, <2>2
    <3> QED
      BY <2>2, <3>1, AwakeIsFree DEF Pipes, ItemUsed
  <2>4. Good(x) /\ Paired(x.fds)
    BY <2>2, <2>3, UnregisterIsGood, UnregisterPairs
  <2> HIDE DEF x
  <2>5. fds[i].peer \in Places
    BY FieldsOfItems DEF Ready
  <2>6. \A j \in Table : /\ Same(z.fds[j], x.fds[j])
                         /\ z.fds[j].interest = x.fds[j].interest
    <3>1. ASSUME NEW p \in Places, NEW j \in Table
          PROVE  /\ Same([x EXCEPT !.fds[p].f = FALSE].fds[j], x.fds[j])
                 /\ [x EXCEPT !.fds[p].f = FALSE].fds[j].interest = x.fds[j].interest
      BY <2>4, FlagIsGood, Zenon
    <3> QED
      BY <2>5, <3>1, Zenon
  <2> HIDE DEF z
  <2>7. Paired(z.fds)
    BY <2>4, <2>6, InterestsOfOthers
  <2> QED
    BY <2>1, <2>4, <2>7 DEF Becomes
<1> QED
  BY <1>2, <1>3

\* A command wakes the administrator it belongs to, whom no other waits for.
LEMMA CommandPairs ==
    ASSUME Ready, Paired(fds), NEW i \in Table, handle_command(i)
    PROVE  Paired(fds')
<1> DEFINE p == fds[i].peer
           y == selector_unregister_fd(Sel, i)
           x == selector_set_interest(y, p, "WRITE")
<1>1. /\ fds' = x.fds /\ fds[i].kind = "command"
      /\ Sel.fds = fds /\ Good(Sel) /\ "WRITE" \in Interests
  BY DEF handle_command, Becomes, Sel, Ready, Interests
<1>2. /\ p \in Table /\ fds[p].kind = "admin"
      /\ \A k \in Table \ {i} : fds[k].kind = "command" => fds[k].peer # p
  BY <1>1 DEF Paired, HasItsSession
<1> HIDE DEF p
<1>3. ItemUsed(fds, i) /\ fds[i].kind \in Sessions \union Pipes /\ fds[i].kind \notin Sessions
  BY <1>1 DEF ItemUsed, Sessions, Pipes
<1>4. /\ Good(y) /\ ~ItemUsed(y.fds, i)
      /\ \A j \in Table \ {i} : y.fds[j] = fds[j]
  BY <1>1, <1>3, UnregisterIsGood
<1>5. Paired(y.fds)
  <2>1. \A k \in Table : fds[k].kind = "command" => fds[k].peer # i
    BY <1>1, AwakeIsFree
  <2> QED
    BY <1>1, <1>3, <2>1, UnregisterPairs
<1> HIDE DEF y
<1>6. \A k \in Table : y.fds[k].kind = "command" => y.fds[k].peer # p
  BY <1>2, <1>4 DEF ItemUsed
<1>7. Paired(x.fds)
  BY <1>1, <1>2, <1>4, <1>5, <1>6, OwnInterestPairs
<1> QED
  BY <1>1, <1>7

\* Whichever callback serves an item that is not asleep, the pairs stay unless
\* it is a stray one or the process dies.
LEMMA CallbackPairs ==
    ASSUME Ready, Paired(fds), NEW i \in Table, fds[i].interest # "NOOP",
           NEW writing \in BOOLEAN, Callback(i, writing)
    PROVE  stray' \/ phase' = "dead" \/ Paired(fds')
BY AcceptPairs, GoesOnPairs, ClosesPairs, RetrPairs, LoadPairs, ExecutePairs, ReaderPairs,
   ReaderEndPairs, CommandPairs DEF Callback, Dies

\* No callback takes a stray back.
LEMMA StrayStays ==
    ASSUME NEW i \in Table, NEW writing \in BOOLEAN, Callback(i, writing), stray
    PROVE  stray'
BY DEF Callback, Dies, accept, session_goes_on, session_closes, init_file_reader,
   load_more_bytes, executeCommand, handle_file_reader, file_reader_ends, handle_command

\* Pairs, while nothing has strayed and the loop goes on.
PairedInv == ~stray /\ phase \in {"select", "walk"} => Paired(fds)

\* A step keeps them.
LEMMA NextKeepsPaired == ASSUME Inv, PairedInv, [Next]_vars PROVE PairedInv'
<1> SUFFICES ASSUME ~stray', phase' \in {"select", "walk"} PROVE Paired(fds')
  BY DEF PairedInv
<1>1. CASE selector_select \/ iteration_ends
  BY <1>1 DEF PairedInv, selector_select, iteration_ends, tableVars
<1>2. CASE select_fails \/ handleSignal \/ main_ends
  BY <1>2 DEF select_fails, handleSignal, main_ends
<1>3. CASE handle_iteration
  <2>1. PICK e \in Left : Due(e) /\ Callback(e[1], e[2] = "WRITE")
    BY <1>3 DEF handle_iteration
  <2>2. phase = "walk" /\ Ready
    BY <1>3, WalkIsReady DEF handle_iteration
  <2>3. e[1] \in Table /\ e[2] \in {"READ", "WRITE"}
    BY DEF Left, EventsOf, Inv, TypeOK
  <2>4. fds[e[1]].interest # "NOOP" /\ (e[2] = "WRITE") \in BOOLEAN
    BY <2>1, <2>3 DEF Due
  <2>5. ~stray
    BY <2>1, <2>3, <2>4, StrayStays
  <2> QED
    BY <2>1, <2>2, <2>3, <2>4, <2>5, CallbackPairs DEF PairedInv
<1>4. CASE selector_destroy
  BY <1>4 DEF selector_destroy
<1>5. CASE UNCHANGED vars
  BY <1>5 DEF vars, PairedInv
<1> QED
  BY <1>1, <1>2, <1>3, <1>4, <1>5 DEF Next

-----------------------------------------------------------------------------
(* The theorems                                                            *)

\* The table, the sets and the walk keep their types: no callback makes an
\* item, an event or a descriptor that the selector has no place for.
THEOREM TypeCorrect == Spec => []TypeOK
<1>1. Inv => TypeOK
  BY DEF Inv
<1> QED
  BY Invariance, <1>1, PTL

\* select() is asked what the table says, whatever callbacks have done, and its
\* highest descriptor covers all items (items_update_fdset_for_fd, items_max_fd).
THEOREM SetsAgree == Spec => []SelectSeesTheTable
<1>1. Inv => SelectSeesTheTable
  <2> SUFFICES ASSUME Inv PROVE SelectSeesTheTable
    OBVIOUS
  <2>1. ASSUME phase \in {"select", "walk"}
        PROVE  master_r = Watching(fds, "READ") /\ master_w = Watching(fds, "WRITE")
    <3>1. Sees(Sel) /\ master_r \subseteq Table /\ master_w \subseteq Table
      BY <2>1 DEF Inv, TypeOK
    <3> QED
      BY <3>1 DEF Sees, Sel, Watching
  <2> QED
    BY <2>1 DEF SelectSeesTheTable, Inv, Covers, Sel
<1> QED
  BY Invariance, <1>1, PTL

\* A descriptor is never closed while it is registered: pselect() does not fail
\* with EBADF.
THEOREM NothingClosedIsUsed == Spec => []UsedAreOpen
<1>1. Inv => UsedAreOpen
  BY DEF Inv
<1> QED
  BY Invariance, <1>1, PTL

\* selector_destroy leaves no item behind, although sessions unregister
\* themselves inside the call that unregisters them.
THEOREM NobodyIsLeft == Spec => []EndsWithoutSessions
<1>1. Inv => EndsWithoutSessions
  <2> SUFFICES ASSUME Inv, phase = "over" PROVE EndsWithoutSessions
    BY DEF EndsWithoutSessions
  <2>1. /\ \A i \in Table : ~ItemUsed(fds, i)
        /\ \A i \in master_r \union master_w : ItemUsed(fds, i)
        /\ master_r \union master_w \subseteq Table
    BY DEF Inv, Tidy, Sel, TypeOK
  <2> QED
    BY <2>1 DEF EndsWithoutSessions
<1> QED
  BY Invariance, <1>1, PTL

\* Whatever registers, closes and is reused meanwhile, the administrator whose
\* shell command has come to its end is the one that gave it, still asleep, for
\* any number of descriptors: as long as no callback has strayed, which is when
\* the reader of a closed session or a failed second popen() changes the
\* interest of a descriptor that is somebody else's.
THEOREM CommandsFindTheirSessions == Spec => []CommandHasItsSession
<1>1. Init => PairedInv
  <2> SUFFICES ASSUME Init PROVE Paired(fds)
    BY DEF PairedInv
  <2>1. \A i \in Table : fds[i].kind \in {"master", "unused"}
    <3>1. [Unused EXCEPT !.kind = "master", !.interest = "READ"].kind = "master"
      BY DEF Unused
    <3> QED
      BY <3>1 DEF Init, Unused
  <2> QED
    BY <2>1 DEF Paired
<1>2. Inv /\ PairedInv /\ [Next]_vars => PairedInv'
  BY NextKeepsPaired
<1>3. PairedInv => CommandHasItsSession
  BY DEF PairedInv, CommandHasItsSession, Paired, HasItsSession
<1> QED
  BY Invariance, <1>1, <1>2, <1>3, PTL DEF Spec

-----------------------------------------------------------------------------
(* The refinement                                                          *)

Watched == EventsOf(Watching(fds, "READ"), Watching(fds, "WRITE"))
Pending == IF phase = "walk" THEN reported \intersect Left ELSE {}
Running == phase \in {"select", "walk"}

\* Who waits for what, in the words of the walk.
LEMMA WatchedIsDue ==
    /\ Watched \subseteq Table \X {"READ", "WRITE"}
    /\ \A e \in Table \X {"READ", "WRITE"} : e \in Watched <=> Due(e)
<1>1. Watched \subseteq Table \X {"READ", "WRITE"}
  BY DEF Watched, Watching, EventsOf
<1>2. ASSUME NEW i \in Table, NEW o \in {"READ", "WRITE"}
      PROVE  <<i, o>> \in Watched <=> Due(<<i, o>>)
  BY DEF Watched, Watching, EventsOf, Due
<1>3. ASSUME NEW e \in Table \X {"READ", "WRITE"}
      PROVE  e \in Watched <=> Due(e)
  <2>1. PICK i \in Table, o \in {"READ", "WRITE"} : e = <<i, o>>
    OBVIOUS
  <2> QED
    BY <1>2, <2>1, Zenon
<1> QED
  BY <1>1, <1>3

\* What is still to be served was reported by this select().
LEMMA PendingIsLeft ==
    ASSUME Inv
    PROVE  Pending \subseteq Left /\ Left \subseteq Table \X {"READ", "WRITE"}
BY DEF Pending, Left, EventsOf, Inv, TypeOK

\* At start-up no event is pending in either.
LEMMA InitRefines == Init => AbstractDispatcher!Init
<1> SUFFICES ASSUME Init PROVE AbstractDispatcher!Init
  OBVIOUS
<1>1. phase = "select"
  BY DEF Init
<1>2. Pending = {} /\ Running = TRUE /\ Watched \subseteq Table \X {"READ", "WRITE"}
  BY <1>1, WatchedIsDue DEF Pending, Running
<1> QED
  BY <1>2 DEF AbstractDispatcher!Init, Watched, Pending, Running

\* A select() reports events somebody waits for.
LEMMA SelectRefines == ASSUME Inv, selector_select PROVE AbstractDispatcher!Report
<1>1. /\ phase = "select" /\ phase' = "walk"
      /\ UNCHANGED tableVars
  BY DEF selector_select
<1>2. PICK r \in SUBSET {i \in master_r : i <= max_fd},
           w \in SUBSET {i \in master_w : i <= max_fd} :
         slave_r' = r /\ slave_w' = w /\ reported' = EventsOf(r, w)
  BY DEF selector_select
<1>3. Pending' = EventsOf(r, w)
  BY <1>1, <1>2 DEF Pending, Left
<1>4. r \subseteq Watching(fds, "READ") /\ w \subseteq Watching(fds, "WRITE")
  <2>1. Sees(Sel) /\ master_r \subseteq Table /\ master_w \subseteq Table
    BY <1>1 DEF Inv, TypeOK
  <2> QED
    BY <2>1 DEF Sees, Sel, Watching
<1>5. Pending' \subseteq Watched
  BY <1>3, <1>4 DEF Watched, EventsOf
<1>6. Watched' = Watched
  <2>1. fds' = fds
    BY <1>1 DEF tableVars
  <2> QED
    BY <2>1 DEF Watched, Watching
<1>7. Running = TRUE /\ Running' = TRUE /\ Pending = {}
  BY <1>1 DEF Running, Pending
<1> QED
  BY <1>5, <1>6, <1>7 DEF AbstractDispatcher!Report, Watched, Pending, Running

\* The end of a walk leaves nobody waiting for what was reported.
LEMMA EndOfWalkRefines == ASSUME Inv, iteration_ends PROVE AbstractDispatcher!Rest
<1>1. /\ phase = "walk" /\ phase' = "select"
      /\ \A e \in Left : ~Due(e)
      /\ UNCHANGED tableVars
  BY DEF iteration_ends
<1>2. Pending \intersect Watched = {}
  BY <1>1, PendingIsLeft, WatchedIsDue
<1>3. Watched' = Watched
  <2>1. fds' = fds
    BY <1>1 DEF tableVars
  <2> QED
    BY <2>1 DEF Watched, Watching
<1>4. Running = TRUE /\ Running' = TRUE /\ Pending' = {}
  BY <1>1 DEF Running, Pending
<1> QED
  BY <1>2, <1>3, <1>4
  DEF AbstractDispatcher!Rest, AbstractDispatcher!Drops, Watched, Pending, Running

\* Where the walk has stopped, or the process has died, nothing is promised.
LEMMA StopRefines ==
    ASSUME phase' \notin {"select", "walk"}
    PROVE  AbstractDispatcher!Stop
<1>1. Watched' \subseteq Table \X {"READ", "WRITE"}
  BY DEF Watched, Watching, EventsOf
<1>2. Pending' = {} /\ Running' = FALSE
  BY DEF Pending, Running
<1> QED
  BY <1>1, <1>2 DEF AbstractDispatcher!Stop, Watched, Pending, Running

\* A callback serves one event that was reported and is waited for; what else
\* leaves the events still to be served, nobody waits for.
LEMMA WalkRefines ==
    ASSUME Inv, handle_iteration
    PROVE  AbstractDispatcher!Serve \/ AbstractDispatcher!Stop
<1>1. PICK e \in Left :
         /\ e[1] \in Table /\ e[2] \in {"READ", "WRITE"} /\ e = <<e[1], e[2]>>
         /\ Due(e)
         /\ \A d \in Left : Due(d) => First(e, d)
         /\ Ready
         /\ Served(e[1])
         /\ slave_r' = {i \in slave_r : i > e[1]}
         /\ slave_w' = {i \in slave_w : i > e[1] \/ (i = e[1] /\ e[2] = "READ")}
  BY TheEventServed
<1>2. CASE phase' = "dead"
  BY <1>2, StopRefines
<1>3. CASE phase' = "walk"
  <2>1. /\ Left' = {d \in Left : \/ d[1] > e[1]
                                 \/ d[1] = e[1] /\ d[2] = "WRITE" /\ e[2] = "READ"}
        /\ \A d \in Left : /\ d[1] \in Table /\ d[2] \in {"READ", "WRITE"}
                           /\ d = <<d[1], d[2]>>
    BY <1>1, WhatIsLeft
  <2>2. /\ reported' \subseteq reported
        /\ \A d \in reported \ reported' : d[1] = e[1]
    BY <1>1 DEF Served
  <2>3. phase = "walk"
    BY <1>1 DEF Ready
  <2>4. e \in reported
    <3>1. ItemUsed(fds, e[1])
      BY <1>1 DEF Due
    <3> QED
      BY <1>1, <2>3, <3>1 DEF Inv
  <2>5. Pending = reported \intersect Left /\ Pending' = reported' \intersect Left'
    BY <1>3, <2>3 DEF Pending
  <2>6. Pending' \subseteq Pending
    BY <2>1, <2>2, <2>5
  <2>7. \A i \in Table : i \in Int /\ ~(i > i)
    BY DEF Table
  <2>8. e \in (Pending \ Pending') \intersect Watched
    <3>1. e \in Watched
      BY <1>1, WatchedIsDue
    <3>2. e \notin Left'
      BY <1>1, <2>1, <2>7
    <3> QED
      BY <1>1, <2>4, <2>5, <3>1, <3>2
  <2>9. ASSUME NEW d \in (Pending \ Pending') \ {e}
        PROVE  d \notin Watched
    <3>1. /\ d \in Left /\ d \in reported
          /\ d[1] \in Table /\ d[2] \in {"READ", "WRITE"} /\ d = <<d[1], d[2]>>
      BY <2>1, <2>5
    <3> SUFFICES ASSUME Due(d) PROVE FALSE
      BY <3>1, WatchedIsDue
    <3>2. First(e, d)
      BY <1>1, <3>1
    <3>3. d[1] # e[1]
      <4> SUFFICES ASSUME d[1] = e[1] PROVE FALSE
        OBVIOUS
      <4>1. d[2] = e[2]
        BY <1>1 DEF Due
      <4> QED
        BY <1>1, <3>1, <4>1
    <3>4. e[1] < d[1] /\ d[1] > e[1]
      BY <1>1, <2>7, <3>1, <3>2, <3>3 DEF First
    <3>5. d \in Left'
      BY <2>1, <3>1, <3>4
    <3>6. d \in reported'
      BY <2>2, <3>1, <3>3
    <3> QED
      BY <2>5, <3>5, <3>6
  <2>10. Watched' \subseteq Table \X {"READ", "WRITE"}
    BY DEF Watched, Watching, EventsOf
  <2>11. Running = TRUE /\ Running' = TRUE
    BY <1>3, <2>3 DEF Running
  <2>12. ((Pending \ Pending') \ {e}) \intersect Watched = {}
    BY <2>9
  <2> QED
    BY <2>6, <2>8, <2>10, <2>11, <2>12
    DEF AbstractDispatcher!Serve, AbstractDispatcher!Drops, Watched, Pending, Running
<1> QED
  BY <1>1, <1>2, <1>3 DEF Served

\* Every step of the loop is an abstract step or a stutter.
LEMMA NextRefines ==
    ASSUME Inv, [Next]_vars
    PROVE  [AbstractDispatcher!Next]_(AbstractDispatcher!dispatcherVars)
<1>1. CASE selector_select
  BY <1>1, SelectRefines DEF AbstractDispatcher!Next
<1>2. CASE select_fails \/ handleSignal
  <2>1. phase' = "destroy"
    BY <1>2 DEF select_fails, handleSignal
  <2> QED
    BY <2>1, StopRefines DEF AbstractDispatcher!Next
<1>3. CASE handle_iteration
  BY <1>3, WalkRefines DEF AbstractDispatcher!Next
<1>4. CASE iteration_ends
  BY <1>4, EndOfWalkRefines DEF AbstractDispatcher!Next
<1>5. CASE selector_destroy
  <2>1. phase' \in {"destroy", "dead"}
    BY <1>5 DEF selector_destroy
  <2> QED
    BY <2>1, StopRefines DEF AbstractDispatcher!Next
<1>6. CASE main_ends
  <2>1. phase' = "over"
    BY <1>6 DEF main_ends
  <2> QED
    BY <2>1, StopRefines DEF AbstractDispatcher!Next
<1>7. CASE UNCHANGED vars
  <2>1. UNCHANGED <<fds, slave_r, slave_w, phase, reported>>
    BY <1>7 DEF vars
  <2> QED
    BY <2>1 DEF AbstractDispatcher!dispatcherVars, Watching, Left
<1> QED
  BY <1>1, <1>2, <1>3, <1>4, <1>5, <1>6, <1>7 DEF Next

\* handle_iteration serves an event once, for the registration it was reported
\* for, and skips none that is still waited for, for any number of descriptors
\* and whatever the callbacks register, close and reuse.
THEOREM Refinement == Spec => ImplementsDispatcher
<1>1. Inv /\ [Next]_vars => [AbstractDispatcher!Next]_(AbstractDispatcher!dispatcherVars)
  BY NextRefines
<1> QED
  BY Invariance, InitRefines, <1>1, PTL
  DEF Spec, ImplementsDispatcher, AbstractDispatcher!Spec

=============================================================================
