------------------------ MODULE TransactionRefinement ------------------------
(***************************************************************************)
(* A session keeps what MaildropSession promises, for any messages, any    *)
(* number of pieces, any buffer size and any outcome of send(), of the     *)
(* pipe and of the file system: each callback carries a command out at     *)
(* once, lets the client receive some of what it is owed, or changes       *)
(* nothing that the client can tell.                                       *)
(*                                                                         *)
(* What is owed is the output buffer and what the engine has yet to put    *)
(* there (Pending); the argument is about how the two trade places.        *)
(***************************************************************************)
EXTENDS TransactionProofs

-----------------------------------------------------------------------------
(* Sequences                                                               *)

\* A sequence, of whatever.
Sequence(s) == \E S : s \in Seq(S)

\* A sequence has a length and the numbers up to it for a domain.
LEMMA SequenceHas ==
    ASSUME NEW s, Sequence(s)
    PROVE  Len(s) \in Nat /\ DOMAIN s = 1 .. Len(s)
BY LenProperties DEF Sequence

\* Two sequences in a row, item by item.
LEMMA TwoInARow ==
    ASSUME NEW s, NEW t, Sequence(s), Sequence(t)
    PROVE  /\ Sequence(s \o t)
           /\ Len(s \o t) = Len(s) + Len(t)
           /\ \A i \in 1 .. Len(s) + Len(t) :
                (s \o t)[i] = IF i <= Len(s) THEN s[i] ELSE t[i - Len(s)]
<1>1. PICK S, T : s \in Seq(S) /\ t \in Seq(T)
    BY DEF Sequence
<1> DEFINE U == S \union T
<1>2. s \in Seq(U) /\ t \in Seq(U)
    BY <1>1, SeqMonotonic
<1> HIDE DEF U
<1>3. QED
    BY <1>2, ConcatProperties DEF Sequence

\* Sequences of the same length with the same items are the same.
LEMMA SameItems ==
    ASSUME NEW s, NEW t, Sequence(s), Sequence(t), Len(s) = Len(t),
           \A i \in 1 .. Len(s) : s[i] = t[i]
    PROVE  s = t
<1>1. PICK S, T : s \in Seq(S) /\ t \in Seq(T)
    BY DEF Sequence
<1> DEFINE U == S \union T
<1>2. s \in Seq(U) /\ t \in Seq(U)
    BY <1>1, SeqMonotonic
<1> HIDE DEF U
<1>3. QED
    BY <1>2, SeqEqual

\* Three in a row, however grouped.
LEMMA ThreeInARow ==
    ASSUME NEW s, NEW t, NEW u, Sequence(s), Sequence(t), Sequence(u)
    PROVE  (s \o t) \o u = s \o (t \o u)
<1>1. PICK S, T, U : s \in Seq(S) /\ t \in Seq(T) /\ u \in Seq(U)
    BY DEF Sequence
<1> DEFINE V == S \union T \union U
<1>2. s \in Seq(V) /\ t \in Seq(V) /\ u \in Seq(V)
    BY <1>1, SeqMonotonic
<1> HIDE DEF V
<1>3. QED
    BY <1>2, ConcatAssociative

\* Nothing before or after a sequence adds nothing to it.
LEMMA NothingAdded ==
    ASSUME NEW s, Sequence(s)
    PROVE  Sequence(<<>>) /\ <<>> \o s = s /\ s \o <<>> = s
<1>1. PICK S : s \in Seq(S)
    BY DEF Sequence
<1>2. <<>> \in Seq(S)
    OBVIOUS
<1>3. QED
    BY <1>1, <1>2, ConcatEmptySeq DEF Sequence

\* Nothing is a sequence.
LEMMA EmptySequence == Sequence(<<>>)
<1>1. <<>> \in Seq({})
    OBVIOUS
<1>2. QED
    BY <1>1 DEF Sequence

\* One item is a sequence.
LEMMA OneItem ==
    ASSUME NEW e
    PROVE  Sequence(<<e>>) /\ Len(<<e>>) = 1 /\ <<e>>[1] = e
<1>1. <<e>> \in Seq({e})
    OBVIOUS
<1>2. QED
    BY <1>1 DEF Sequence

\* So is what remains of a sequence from some item on.
LEMMA RestOfSequence ==
    ASSUME NEW s, Sequence(s), NEW k \in 0 .. Len(s)
    PROVE  /\ Sequence(Drop(s, k))
           /\ Len(Drop(s, k)) = Len(s) - k
           /\ \A i \in 1 .. Len(s) - k : Drop(s, k)[i] = s[k + i]
<1>1. PICK S : s \in Seq(S)
    BY DEF Sequence
<1>2. Len(s) \in Nat /\ k \in Int /\ k + 1 \in Int /\ k <= Len(s)
    BY <1>1
<1>3. \A i \in k + 1 .. Len(s) : s[i] \in S
    BY <1>1, <1>2, ElementOfSeq
<1>4. /\ SubSeq(s, k + 1, Len(s)) \in Seq(S)
      /\ Len(SubSeq(s, k + 1, Len(s))) = IF k + 1 <= Len(s) THEN Len(s) - (k + 1) + 1 ELSE 0
      /\ \A i \in 1 .. Len(s) - (k + 1) + 1 : SubSeq(s, k + 1, Len(s))[i] = s[k + 1 + i - 1]
    BY <1>2, <1>3, SubSeqProperties
<1>5. Len(s) - (k + 1) + 1 = Len(s) - k /\ \A i \in Int : k + 1 + i - 1 = k + i
    BY <1>2
<1> DEFINE d == SubSeq(s, k + 1, Len(s))
<1>5a. d \in Seq(S) /\ Len(d) = Len(s) - k
    <2>1. CASE k + 1 <= Len(s)
        BY <1>4, <1>5, <2>1
    <2>2. CASE k = Len(s)
        BY <1>2, <1>4, <2>2
    <2>3. QED
        BY <1>2, <2>1, <2>2
<1>5b. \A i \in 1 .. Len(s) - k : d[i] = s[k + i]
    BY <1>2, <1>4, <1>5
<1> HIDE DEF d
<1>6. Sequence(d)
    BY <1>5a DEF Sequence
<1>7. QED
    BY <1>5a, <1>5b, <1>6 DEF Drop, d

\* The client receives the first k tokens of s, and the rest of s with what
\* follows it is still owed.
LEMMA DropIsOwed ==
    ASSUME NEW s, NEW t, Sequence(s), Sequence(t), NEW k \in 0 .. Len(s)
    PROVE  Drop(s, k) \o t = Drop(s \o t, k)
<1> DEFINE st   == s \o t
           d    == Drop(s, k)
           dt   == d \o t
           rest == Drop(st, k)
<1>1. /\ Len(s) \in Nat /\ Len(t) \in Nat /\ k \in Nat /\ k <= Len(s)
      /\ Sequence(st) /\ Len(st) = Len(s) + Len(t)
      /\ \A i \in 1 .. Len(s) + Len(t) :
           st[i] = IF i <= Len(s) THEN s[i] ELSE t[i - Len(s)]
    BY SequenceHas, TwoInARow
<1>2. Sequence(d) /\ Len(d) = Len(s) - k /\ \A i \in 1 .. Len(s) - k : d[i] = s[k + i]
    BY RestOfSequence
<1> HIDE DEF st, d
<1>3. k \in 0 .. Len(st)
    BY <1>1
<1>4. /\ Sequence(rest) /\ Len(rest) = Len(st) - k
      /\ \A i \in 1 .. Len(st) - k : rest[i] = st[k + i]
    BY <1>1, <1>3, RestOfSequence
<1>5. /\ Sequence(dt) /\ Len(dt) = Len(d) + Len(t)
      /\ \A i \in 1 .. Len(d) + Len(t) : dt[i] = IF i <= Len(d) THEN d[i] ELSE t[i - Len(d)]
    BY <1>2, TwoInARow
<1> HIDE DEF rest, dt
<1>6. ASSUME NEW i \in 1 .. Len(dt)
      PROVE  dt[i] = rest[i]
    <2>1. /\ i \in Nat /\ i >= 1 /\ k + i \in 1 .. Len(s) + Len(t)
          /\ i \in 1 .. Len(s) + Len(t) - k /\ i \in 1 .. Len(d) + Len(t)
        BY <1>1, <1>2, <1>5
    <2>2. rest[i] = IF k + i <= Len(s) THEN s[k + i] ELSE t[k + i - Len(s)]
        BY <1>1, <1>4, <2>1
    <2>3. CASE k + i <= Len(s)
        <3>1. i \in 1 .. Len(s) - k /\ i <= Len(d)
            BY <1>1, <1>2, <2>1, <2>3
        <3>2. QED
            BY <1>2, <1>5, <2>1, <2>2, <2>3, <3>1
    <2>4. CASE k + i > Len(s)
        <3>1. ~(i <= Len(d)) /\ i - Len(d) = k + i - Len(s) /\ ~(k + i <= Len(s))
            BY <1>1, <1>2, <2>1, <2>4
        <3>2. QED
            BY <1>5, <2>1, <2>2, <3>1
    <2>5. k + i <= Len(s) \/ k + i > Len(s)
        BY <1>1, <2>1
    <2>6. QED
        BY <2>3, <2>4, <2>5
<1>7. Len(dt) = Len(rest)
    BY <1>1, <1>2, <1>4, <1>5
<1>8. dt = rest
    BY <1>4, <1>5, <1>6, <1>7, SameItems
<1>9. QED
    BY <1>8 DEF dt, rest, d, st

-----------------------------------------------------------------------------
(* Numbers                                                                 *)

\* The smallest of a finite set comes first.
LEMMA SmallestFirst ==
    ASSUME NEW S \in SUBSET Nat, IsFiniteSet(S), NEW m \in S, \A j \in S : m <= j
    PROVE  /\ Cardinality(S) \in Nat \ {0}
           /\ Cardinality(S \ {m}) = Cardinality(S) - 1
           /\ Ascending(S)[1] = m
           /\ \A k \in 2 .. Cardinality(S) : Ascending(S)[k] = Ascending(S \ {m})[k - 1]
<1> DEFINE T == S \ {m}
<1>0. m \in Nat /\ S \subseteq Nat
    OBVIOUS
<1>1. /\ IsFiniteSet(T) /\ Cardinality(T) = Cardinality(S) - 1
      /\ Cardinality(T) \in Nat /\ Cardinality(S) \in Nat
    BY FS_RemoveElement, FS_CardinalityType
<1>2. Cardinality(S) \in Nat \ {0}
    BY <1>1
<1>3. ASSUME NEW i \in T
      PROVE  /\ Cardinality({j \in S : j < i}) = Cardinality({j \in T : j < i}) + 1
             /\ Cardinality({j \in T : j < i}) \in Nat
    <2> DEFINE B == {j \in S : j < i}
               C == {j \in T : j < i}
    <2>1. C \in SUBSET S /\ m \notin C
        OBVIOUS
    <2>2. m < i
        BY <1>0, <1>3
    <2>3. B = C \union {m}
        BY <2>2
    <2>4. IsFiniteSet(C) /\ Cardinality(C) \in Nat
        BY <2>1, FS_Subset, FS_CardinalityType
    <2> HIDE DEF B, C
    <2>5. Cardinality(C \union {m}) = Cardinality(C) + 1
        BY <2>1, <2>4, FS_AddElement
    <2>6. Cardinality(B) = Cardinality(C) + 1 /\ Cardinality(C) \in Nat
        BY <2>3, <2>4, <2>5
    <2>7. QED
        BY <2>6 DEF B, C
<1>4. {j \in S : j < m} = {}
    <2>1. \A j \in S : ~(j < m)
        BY <1>0
    <2>2. QED
        BY <2>1
<1>5. Ranked(S, 0) = {m}
    <2>1. m \in Ranked(S, 0)
        BY <1>4, FS_EmptySet DEF Ranked
    <2>2. ASSUME NEW i \in T PROVE i \notin Ranked(S, 0)
        <3>1. /\ Cardinality({j \in S : j < i}) = Cardinality({j \in T : j < i}) + 1
              /\ Cardinality({j \in T : j < i}) \in Nat
            BY <1>3
        <3>1a. Cardinality({j \in S : j < i}) # 0
            BY <3>1
        <3>2. QED
            BY <3>1a DEF Ranked
    <2>3. Ranked(S, 0) \subseteq S
        BY DEF Ranked
    <2>4. QED
        BY <2>1, <2>2, <2>3
<1>6. ASSUME NEW k \in 2 .. Cardinality(S)
      PROVE  Ranked(S, k - 1) = Ranked(T, (k - 1) - 1)
    <2>1. k \in Nat /\ k - 1 # 0 /\ k - 1 \in Nat
        BY <1>1
    <2>2. m \notin Ranked(S, k - 1)
        BY <1>4, <2>1, FS_EmptySet DEF Ranked
    <2>3. ASSUME NEW i \in T
          PROVE  i \in Ranked(S, k - 1) <=> i \in Ranked(T, (k - 1) - 1)
        <3>1. Cardinality({j \in S : j < i}) = k - 1 <=> Cardinality({j \in T : j < i}) = (k - 1) - 1
            BY <1>3, <2>1
        <3>2. QED
            BY <3>1 DEF Ranked
    <2>4. Ranked(S, k - 1) \subseteq S /\ Ranked(T, (k - 1) - 1) \subseteq T
        BY DEF Ranked
    <2>5. QED
        BY <2>2, <2>3, <2>4
<1>7. Ascending(S)[1] = m
    <2>1. 1 \in 1 .. Cardinality(S) /\ 1 - 1 = 0
        BY <1>2
    <2>2. Ascending(S)[1] = Only(Ranked(S, 0))
        BY <2>1 DEF Ascending
    <2>3. QED
        BY <1>5, <2>2 DEF Only
<1>8. ASSUME NEW k \in 2 .. Cardinality(S)
      PROVE  Ascending(S)[k] = Ascending(T)[k - 1]
    <2>1. k \in 1 .. Cardinality(S) /\ k - 1 \in 1 .. Cardinality(T)
        BY <1>1
    <2>2. Ascending(S)[k] = Only(Ranked(S, k - 1))
        BY <2>1 DEF Ascending
    <2>3. Ascending(T)[k - 1] = Only(Ranked(T, (k - 1) - 1))
        BY <2>1 DEF Ascending
    <2>4. QED
        BY <1>6, <2>2, <2>3
<1>9. QED
    BY <1>1, <1>2, <1>7, <1>8

\* Numbered replies are a sequence as long as the numbers are.
LEMMA NumberedIs ==
    ASSUME NEW kind, NEW n \in Nat, NEW s, DOMAIN s = 1 .. n
    PROVE  /\ Sequence(Numbered(kind, s))
           /\ Len(Numbered(kind, s)) = n
           /\ \A i \in 1 .. n : Numbered(kind, s)[i] = <<kind, s[i]>>
<1> DEFINE x == Numbered(kind, s)
           S == {<<kind, s[i]>> : i \in 1 .. n}
<1>1. x = [i \in 1 .. n |-> <<kind, s[i]>>]
    BY DEF Numbered
<1>2. x \in [1 .. n -> S]
    BY <1>1
<1>3. x \in Seq(S)
    BY <1>2, SeqDef, Zenon
<1>4. Len(x) = n
    BY <1>1
<1>5. QED
    BY <1>1, <1>3, <1>4 DEF Sequence

\* The numbered replies about a finite set.
Items(S) == Numbered("item", Ascending(S))

\* They are a sequence.
LEMMA ItemsAre ==
    ASSUME NEW S, IsFiniteSet(S)
    PROVE  /\ Sequence(Items(S))
           /\ Len(Items(S)) = Cardinality(S)
           /\ \A i \in 1 .. Cardinality(S) : Items(S)[i] = <<"item", Ascending(S)[i]>>
<1>1. Cardinality(S) \in Nat
    BY FS_CardinalityType
<1>2. DOMAIN Ascending(S) = 1 .. Cardinality(S)
    BY DEF Ascending
<1> DEFINE s == Ascending(S)
<1> HIDE DEF s
<1>3. QED
    BY <1>1, <1>2, NumberedIs DEF Items, s

\* The first of them is about the smallest, and the rest about the others.
LEMMA FirstItem ==
    ASSUME NEW S \in SUBSET Nat, IsFiniteSet(S), NEW m \in S, \A j \in S : m <= j
    PROVE  Items(S) = << <<"item", m>> >> \o Items(S \ {m})
<1> DEFINE T == S \ {m}
           one == << <<"item", m>> >>
<1>1. /\ Cardinality(S) \in Nat \ {0}
      /\ Cardinality(T) = Cardinality(S) - 1
      /\ Ascending(S)[1] = m
      /\ \A k \in 2 .. Cardinality(S) : Ascending(S)[k] = Ascending(T)[k - 1]
    BY SmallestFirst
<1>2. IsFiniteSet(T)
    BY FS_RemoveElement
<1> HIDE DEF T
<1>3. /\ Sequence(Items(S)) /\ Len(Items(S)) = Cardinality(S)
      /\ \A i \in 1 .. Cardinality(S) : Items(S)[i] = <<"item", Ascending(S)[i]>>
    BY ItemsAre
<1>4. /\ Sequence(Items(T)) /\ Len(Items(T)) = Cardinality(T)
      /\ \A i \in 1 .. Cardinality(T) : Items(T)[i] = <<"item", Ascending(T)[i]>>
    BY <1>2, ItemsAre
<1>5. Sequence(one) /\ Len(one) = 1 /\ one[1] = <<"item", m>>
    BY OneItem
<1> HIDE DEF one
<1> DEFINE all  == Items(S)
           rest == Items(T)
           both == one \o rest
<1>3a. /\ Sequence(all) /\ Len(all) = Cardinality(S)
       /\ \A i \in 1 .. Cardinality(S) : all[i] = <<"item", Ascending(S)[i]>>
    BY <1>3
<1>4a. /\ Sequence(rest) /\ Len(rest) = Cardinality(T)
       /\ \A i \in 1 .. Cardinality(T) : rest[i] = <<"item", Ascending(T)[i]>>
    BY <1>4
<1> HIDE DEF all, rest
<1>4b. Sequence(one) /\ Sequence(rest)
    BY <1>4a, <1>5
<1>6a. /\ Sequence(both) /\ Len(both) = Len(one) + Len(rest)
       /\ \A i \in 1 .. Len(one) + Len(rest) :
            both[i] = IF i <= Len(one) THEN one[i] ELSE rest[i - Len(one)]
    BY <1>4b, TwoInARow
<1>6. /\ Sequence(both) /\ Len(both) = 1 + Len(rest)
      /\ \A i \in 1 .. 1 + Len(rest) : both[i] = IF i <= 1 THEN one[i] ELSE rest[i - 1]
    BY <1>5, <1>6a
<1> HIDE DEF both
<1>7. ASSUME NEW i \in 1 .. Len(all)
      PROVE  all[i] = both[i]
    <2>1. i \in Nat /\ i \in 1 .. 1 + Len(rest) /\ i \in 1 .. Cardinality(S)
        BY <1>1, <1>3a, <1>4a
    <2>2. CASE i = 1
        BY <1>1, <1>3a, <1>5, <1>6, <2>1, <2>2
    <2>3. CASE i # 1
        <3>1. i \in 2 .. Cardinality(S) /\ i - 1 \in 1 .. Cardinality(T) /\ ~(i <= 1)
            BY <1>1, <2>1, <2>3
        <3>2. QED
            BY <1>1, <1>3a, <1>4a, <1>6, <2>1, <3>1
    <2>4. QED
        BY <2>2, <2>3
<1>7a. Len(all) = Len(both)
    BY <1>1, <1>3a, <1>4a, <1>6
<1>8. all = both
    BY <1>3a, <1>6, <1>7, <1>7a, SameItems
<1>9. QED
    BY <1>8 DEF all, both, rest, one, T

-----------------------------------------------------------------------------
(* What is owed                                                            *)

\* The numbers of MaildropSession are the numbers of this module.
LEMMA SameNumbers ==
    /\ \A kind, s : Session!Numbered(kind, s) = Numbered(kind, s)
    /\ \A S : Session!Ascending(S) = Ascending(S)
    /\ \A n : Session!Upto(n) = Upto(n)
    /\ \A S : Session!Cardinality(S) = Cardinality(S)
<1>1. \A kind, s : Session!Numbered(kind, s) = Numbered(kind, s)
    BY DEF Numbered, Session!Numbered
<1>2. \A n : Session!Upto(n) = Upto(n)
    BY DEF Upto, Session!Upto
<1>3. \A S : Session!Cardinality(S) = Cardinality(S)
    BY DEF Cardinality, Session!Cardinality
<1>4. \A S : Session!Only(S) = Only(S)
    BY DEF Only, Session!Only
<1>5. \A S, k : Session!Ranked(S, k) = Ranked(S, k)
    BY <1>3 DEF Ranked, Session!Ranked
<1>6. \A S : Session!Ascending(S) = Ascending(S)
    BY <1>3, <1>4, <1>5 DEF Ascending, Session!Ascending
<1>7. QED
    BY <1>1, <1>2, <1>3, <1>6

\* The pieces of a message after the first p.
Body(p) == [i \in 1 .. Pipe - p |-> <<"body", p + i>>]

\* What follows them.
Ending == AtEnd \o <<Dot>>

\* What of a response is still to come for a connection d, its reader r and
\* its list b: Pending, as a function of these.
Rest(d, r, b) ==
    CASE d.f = "load" -> Body(r.part) \o AtEnd \o <<Dot>>
      [] d.f = "list" -> Items(Unlisted(b, d.n_listed)) \o <<Dot>>
      [] d.f = "NULL" /\ d.multiline /\ ~d.finished -> <<Dot>>
      [] OTHER -> <<>>

\* And what the client is owed, with o in its buffer.
Owed(d, o, r, b) == IF d.state = "TRANSACTION" THEN o \o Rest(d, r, b) ELSE o

\* The pipe delivers a number of pieces.
LEMMA PipeIsNumber == Pipe \in Nat
BY OutputAssumption DEF Pipe

\* The end of a response is a sequence.
LEMMA EndsAre == Sequence(AtEnd) /\ Sequence(<<Dot>>) /\ Sequence(Ending)
<1>1. Sequence(<<>>)
    BY EmptySequence
<1>2. Sequence(<<Dot>>) /\ Sequence(<<Crlf>>)
    BY OneItem
<1>3. Sequence(AtEnd)
    BY <1>1, <1>2 DEF AtEnd
<1>4. QED
    BY <1>2, <1>3, TwoInARow DEF Ending

\* The pieces are a sequence, the first of which can be taken off.
LEMMA BodyIs ==
    ASSUME NEW p \in Nat
    PROVE  /\ Sequence(Body(p))
           /\ p < Pipe => Body(p) = << <<"body", p + 1>> >> \o Body(p + 1)
           /\ p = Pipe => Body(p) = <<>>
<1> DEFINE one  == << <<"body", p + 1>> >>
           all  == Body(p)
           rest == Body(p + 1)
           both == one \o rest
<1>1. Pipe \in Nat /\ p + 1 \in Nat
    BY PipeIsNumber
<1>2. ASSUME NEW q \in Nat
      PROVE  /\ Sequence(Body(q))
             /\ q <= Pipe => Len(Body(q)) = Pipe - q
             /\ \A i \in 1 .. Pipe - q : Body(q)[i] = <<"body", q + i>>
    <2> DEFINE x == Body(q)
               S == {<<"body", q + i>> : i \in 1 .. Pipe - q}
    <2>1. x = [i \in 1 .. Pipe - q |-> <<"body", q + i>>]
        BY DEF Body
    <2>2. x \in [1 .. Pipe - q -> S]
        BY <2>1
    <2>3. CASE q <= Pipe
        <3>1. Pipe - q \in Nat
            BY <1>1, <2>3
        <3>2. x \in Seq(S)
            BY <2>2, <3>1, SeqDef, Zenon
        <3>3. Len(x) = Pipe - q
            BY <2>1, <3>1
        <3>4. QED
            BY <2>1, <3>2, <3>3 DEF Sequence
    <2>4. CASE Pipe < q
        <3>1. 1 .. Pipe - q = {}
            BY <1>1, <2>4
        <3>2. x = <<>>
            BY <2>1, <3>1
        <3>3. Sequence(x)
            BY <3>2, EmptySequence
        <3>4. QED
            BY <1>1, <2>4, <3>1, <3>3
    <2>5. q <= Pipe \/ Pipe < q
        BY <1>1
    <2>6. QED
        BY <2>3, <2>4, <2>5
<1>3. ASSUME p = Pipe PROVE all = <<>>
    <2>1. 1 .. Pipe - p = {}
        BY <1>1, <1>3
    <2>2. QED
        BY <2>1 DEF Body
<1>4. ASSUME p < Pipe PROVE all = both
    <2> DEFINE q == p + 1
    <2>0. p <= Pipe /\ q <= Pipe /\ q \in Nat
        BY <1>1, <1>4
    <2> HIDE DEF q
    <2>0a. /\ Sequence(Body(p)) /\ Len(Body(p)) = Pipe - p
           /\ \A i \in 1 .. Pipe - p : Body(p)[i] = <<"body", p + i>>
        BY <1>2, <2>0, Zenon
    <2>0b. /\ Sequence(Body(q)) /\ Len(Body(q)) = Pipe - q
           /\ \A i \in 1 .. Pipe - q : Body(q)[i] = <<"body", q + i>>
        BY <1>2, <2>0, Zenon
    <2>1. /\ Sequence(all) /\ Len(all) = Pipe - p
          /\ \A i \in 1 .. Pipe - p : all[i] = <<"body", p + i>>
        BY <2>0a, Zenon DEF all
    <2>2. /\ Sequence(rest) /\ Len(rest) = Pipe - (p + 1)
          /\ \A i \in 1 .. Pipe - (p + 1) : rest[i] = <<"body", (p + 1) + i>>
        BY <2>0b, Zenon DEF rest, q
    <2>3. Sequence(one) /\ Len(one) = 1 /\ one[1] = <<"body", p + 1>>
        BY OneItem
    <2> HIDE DEF one, all, rest
    <2>4. /\ Sequence(both) /\ Len(both) = Len(one) + Len(rest)
          /\ \A i \in 1 .. Len(one) + Len(rest) :
               both[i] = IF i <= Len(one) THEN one[i] ELSE rest[i - Len(one)]
        BY <2>2, <2>3, TwoInARow
    <2> HIDE DEF both
    <2>5. ASSUME NEW i \in 1 .. Len(all)
          PROVE  all[i] = both[i]
        <3>1. i \in Nat /\ i \in 1 .. Len(one) + Len(rest) /\ i \in 1 .. Pipe - p
            BY <1>1, <1>4, <2>1, <2>2, <2>3
        <3>2. CASE i = 1
            BY <2>1, <2>3, <2>4, <3>1, <3>2
        <3>3. CASE i # 1
            <4>1. /\ i - 1 \in 1 .. Pipe - (p + 1) /\ ~(i <= Len(one)) /\ i - Len(one) = i - 1
                  /\ (p + 1) + (i - 1) = p + i
                BY <1>1, <2>3, <3>1, <3>3
            <4>2. QED
                BY <2>1, <2>2, <2>4, <3>1, <4>1
        <3>4. QED
            BY <3>2, <3>3
    <2>6. Len(all) = Len(both)
        BY <1>1, <2>1, <2>2, <2>3, <2>4
    <2>7. QED
        BY <2>1, <2>4, <2>5, <2>6, SameItems
<1>5. QED
    BY <1>2, <1>3, <1>4

\* What is still to be listed is finitely many numbers.
LEMMA UnlistedIs ==
    ASSUME NEW b, BoxOK(b), NEW from \in Nat
    PROVE  Unlisted(b, from) \in SUBSET Nat /\ IsFiniteSet(Unlisted(b, from))
<1>1. Len(b.list) \in Nat
    BY DeletedBounded
<1>2. IsFiniteSet(1 .. Len(b.list)) /\ 1 .. Len(b.list) \subseteq Nat
    BY <1>1, FS_Interval
<1>3. Unlisted(b, from) \in SUBSET (1 .. Len(b.list))
    BY <1>1 DEF Unlisted
<1>4. QED
    BY <1>2, <1>3, FS_Subset

\* What is to come is a sequence.
LEMMA RestIs ==
    ASSUME NEW d \in Conn, NEW r \in Reader, NEW b, BoxOK(b)
    PROVE  Sequence(Rest(d, r, b))
<1>1. d.f \in {"NULL", "load", "list"} /\ d.n_listed \in Nat /\ r.part \in Nat
    BY DEF Conn, Reader
<1>2. Sequence(<<>>) /\ Sequence(<<Dot>>) /\ Sequence(AtEnd)
    BY NothingAdded, EndsAre
<1>3. CASE d.f = "load"
    <2> DEFINE s == Body(r.part)
               t == s \o AtEnd
    <2>1. Sequence(s)
        BY <1>1, BodyIs
    <2> HIDE DEF s
    <2>2. Sequence(t)
        BY <1>2, <2>1, TwoInARow
    <2> HIDE DEF t
    <2>3. Sequence(t \o <<Dot>>)
        BY <1>2, <2>2, TwoInARow
    <2>4. QED
        BY <1>3, <2>3 DEF Rest, t, s
<1>4. CASE d.f = "list"
    <2> DEFINE U == Unlisted(b, d.n_listed)
               s == Items(U)
    <2>1. IsFiniteSet(U)
        BY <1>1, UnlistedIs
    <2> HIDE DEF U
    <2>2. Sequence(s)
        BY <2>1, ItemsAre
    <2> HIDE DEF s
    <2>3. Sequence(s \o <<Dot>>)
        BY <1>2, <2>2, TwoInARow
    <2>4. QED
        BY <1>4, <2>3 DEF Rest, s, U
<1>5. CASE d.f = "NULL"
    BY <1>2, <1>5 DEF Rest
<1>6. QED
    BY <1>1, <1>3, <1>4, <1>5

\* So is what the client is owed.
LEMMA OwedIs ==
    ASSUME NEW d \in Conn, NEW o \in Seq(Tokens), NEW r \in Reader, NEW b, BoxOK(b)
    PROVE  Sequence(o) /\ Sequence(Owed(d, o, r, b))
<1>1. Sequence(o)
    BY DEF Sequence
<1> DEFINE s == Rest(d, r, b)
<1>2. Sequence(s)
    BY RestIs
<1> HIDE DEF s
<1>3. Sequence(o \o s)
    BY <1>1, <1>2, TwoInARow
<1>4. QED
    BY <1>1, <1>3 DEF Owed, s

\* The model's names for the same.
LEMMA PendingIsRest ==
    /\ Pending = Rest(conn, reader, box)
    /\ Pending' = Rest(conn', reader', box')
BY Zenon DEF Pending, Rest, Body, Items

-----------------------------------------------------------------------------
(* The steps of a session, as seen from outside                            *)

Phase(d) == IF d.state \in {"CLOSED", "CRASHED"} THEN "CLOSED" ELSE d.state

Removed(k) == {m \in Mails : k[m] \in {"trash", "gone"}}

\* What MaildropSession allows in one step.
Promised == [Session!Next]_(Session!sessionVars)

\* Nothing that the client can tell.
LEMMA NothingSeen ==
    ASSUME Phase(conn') = Phase(conn), UNCHANGED box, Removed(disk') = Removed(disk),
           Owed(conn', out', reader', box') = Owed(conn, out, reader, box)
    PROVE  Promised
<1>1. UNCHANGED Session!sessionVars
    BY PendingIsRest, Zenon DEF Session!sessionVars, Phase, Removed, Owed, Deleted
<1>2. QED
    BY <1>1 DEF Promised

\* The client receives k tokens of what it is owed.
LEMMA ClientReceives ==
    ASSUME Phase(conn') = Phase(conn), UNCHANGED box, Removed(disk') = Removed(disk),
           NEW s, s = Owed(conn, out, reader, box), Sequence(s), NEW k \in 0 .. Len(s),
           Owed(conn', out', reader', box') = Drop(s, k)
    PROVE  Promised
<1>1. Len(s) \in Nat
    BY SequenceHas
<1>2. k + 1 \in 1 .. Len(s) + 1
    BY <1>1
<1>3. Owed(conn', out', reader', box') \in {SubSeq(s, j, Len(s)) : j \in 1 .. Len(s) + 1}
    BY <1>2 DEF Drop
<1>4. Session!Receive
    BY <1>3, PendingIsRest, Zenon
       DEF Session!Receive, Session!Owe, Phase, Removed, Owed, Deleted
<1>5. QED
    BY <1>4 DEF Promised, Session!Next

\* The session ends.
LEMMA SessionEnds ==
    ASSUME conn.state \in {"TRANSACTION", "UPDATE"},
           conn'.state \in {"CLOSED", "CRASHED"}, out' = <<>>,
           UNCHANGED <<box, disk>>
    PROVE  Promised
<1>1. Session!Close
    BY DEF Session!Close, Deleted
<1>2. QED
    BY <1>1 DEF Promised, Session!Next

\* QUIT.
LEMMA ClientQuits ==
    ASSUME conn.state = "TRANSACTION", conn'.state = "UPDATE",
           UNCHANGED <<box, disk>>,
           Owed(conn', out', reader', box') = Owed(conn, out, reader, box)
    PROVE  Promised
<1>1. Session!Quit
    BY PendingIsRest, Zenon DEF Session!Quit, Owed, Deleted
<1>2. QED
    BY <1>1 DEF Promised, Session!Next

\* A message that was marked leaves the maildrop.
LEMMA MessageLeaves ==
    ASSUME conn.state = "UPDATE", UNCHANGED <<conn, out, reader, box>>,
           NEW i \in Deleted(box),
           Removed(disk') = Removed(disk) \union {box.list[i]}
    PROVE  Promised
<1>1. Session!Discard(i)
    BY Zenon DEF Session!Discard, Removed, Pending, Unlisted, Deleted
<1>2. QED
    BY <1>1 DEF Promised, Session!Next

\* A command about the list of messages.
LEMMA CommandIsCarriedOut ==
    ASSUME conn.state = "TRANSACTION", conn'.state = "TRANSACTION", UNCHANGED disk,
           NEW line \in Line, box'.loaded = TRUE, box'.list \in Session!Snapshots,
           Deleted(box') = Session!MarkedAfter(line, box'.list, Deleted(box)),
           NEW s, Sequence(s), NEW k \in 0 .. Len(s),
           s = Owed(conn, out, reader, box)
                 \o Session!Response(line, box'.list, Deleted(box)),
           Owed(conn', out', reader', box') = Drop(s, k)
    PROVE  Promised
<1>1. Len(s) \in Nat
    BY SequenceHas
<1>2. k + 1 \in 1 .. Len(s) + 1
    BY <1>1
<1>3. Owed(conn', out', reader', box') \in {SubSeq(s, j, Len(s)) : j \in 1 .. Len(s) + 1}
    BY <1>2 DEF Drop
<1>4. Deleted(box)' = Deleted(box')
    BY DEF Deleted
<1>5. Session!Command(line)
    BY <1>3, <1>4, PendingIsRest, Zenon DEF Session!Command, Session!Owe, Owed
<1>6. QED
    BY <1>5 DEF Promised, Session!Next

\* The session ends as its last command has been carried out.
LEMMA CommandIsLost ==
    ASSUME conn.state = "TRANSACTION", conn'.state = "CLOSED", out' = <<>>,
           UNCHANGED disk,
           NEW line \in Line, box'.loaded = TRUE, box'.list \in Session!Snapshots,
           Deleted(box') = Session!MarkedAfter(line, box'.list, Deleted(box))
    PROVE  Promised
<1>1. Deleted(box)' = Deleted(box')
    BY DEF Deleted
<1>2. Session!Close
    BY <1>1, Zenon DEF Session!Close
<1>3. QED
    BY <1>2 DEF Promised, Session!Next

\* A reply that does not need the list, or that there is none.
LEMMA FixedReply ==
    ASSUME conn.state = "TRANSACTION", conn'.state = "TRANSACTION",
           UNCHANGED <<box, disk>>,
           NEW msg, msg = <<"ok", 0>> \/ (msg = Err /\ ~box.loaded),
           NEW s, Sequence(s), NEW k \in 0 .. Len(s),
           s = Append(Owed(conn, out, reader, box), msg),
           Owed(conn', out', reader', box') = Drop(s, k)
    PROVE  Promised
<1>1. Len(s) \in Nat
    BY SequenceHas
<1>2. k + 1 \in 1 .. Len(s) + 1
    BY <1>1
<1>3. Owed(conn', out', reader', box') \in {SubSeq(s, j, Len(s)) : j \in 1 .. Len(s) + 1}
    BY <1>2 DEF Drop
<1>4. Deleted(box)' = Deleted(box)
    BY DEF Deleted
<1>5. CASE msg = <<"ok", 0>>
    <2>1. Session!Chat
        BY <1>3, <1>4, <1>5, PendingIsRest, Zenon DEF Session!Chat, Session!Owe, Owed
    <2>2. QED
        BY <2>1 DEF Promised, Session!Next
<1>6. CASE msg = Err /\ ~box.loaded
    <2>1. Session!Refuse
        BY <1>3, <1>4, <1>6, PendingIsRest, Zenon DEF Session!Refuse, Session!Owe, Owed, Err
    <2>2. QED
        BY <2>1 DEF Promised, Session!Next
<1>7. QED
    BY <1>5, <1>6

\* The list that the first command makes is one of what is in the maildrop,
\* and has no mark.
LEMMA SnapshotIs ==
    ASSUME Inv, ~box.loaded => Deleted(box) = {}, NEW b \in Lists
    PROVE  /\ b.loaded = TRUE
           /\ b.list \in Session!Snapshots
           /\ Deleted(b) = Deleted(box)
<1>1. CASE box.loaded
    BY <1>1, ListsMakesBox DEF Lists, Session!Snapshots, Inv, BoxOK, Box
<1>2. CASE ~box.loaded
    <2> DEFINE S == {m \in Mails : disk[m] = "new"}
    <2>1. PICK s \in SetToSeqs(S) :
            b = [loaded |-> TRUE, list |-> s, del |-> [i \in DOMAIN s |-> FALSE],
                 read |-> [i \in DOMAIN s |-> FALSE], ndel |-> 0]
        BY <1>2 DEF Lists
    <2>2. S \in SUBSET (Mails \ Removed(disk))
        BY DEF Removed
    <2>3. s \in Session!SetToSeqs(S)
        BY <2>1, SameNumbers DEF SetToSeqs, Session!SetToSeqs
    <2> HIDE DEF S
    <2>4. s \in UNION {Session!SetToSeqs(T) : T \in SUBSET (Mails \ Removed(disk))}
        BY <2>2, <2>3
    <2>5. s \in Session!Snapshots
        BY <1>2, <2>4, Zenon DEF Session!Snapshots, Removed
    <2>6. Deleted(b) = {}
        BY <2>1 DEF Deleted
    <2>7. QED
        BY <1>2, <2>1, <2>5, <2>6
<1>3. QED
    BY <1>1, <1>2

-----------------------------------------------------------------------------
(* What a command does and what it promises to send                        *)

\* The rest of the response that r leaves to the engine.
RestOf(r) ==
    CASE r.f = "load" -> Body(0) \o AtEnd \o <<Dot>>
      [] r.f = "list" -> Items(Unlisted(r.box, 0)) \o <<Dot>>
      [] OTHER -> <<>>

\* The numbers that are left are those that are not marked.
LEMMA KeptIs ==
    ASSUME NEW b, BoxOK(b)
    PROVE  /\ Unlisted(b, 0) = Session!Kept(b.list, Deleted(b))
           /\ \A n : n \in Session!Kept(b.list, Deleted(b)) <=> Valid(b, n) /\ ~b.del[n]
           /\ Cardinality(Session!Kept(b.list, Deleted(b))) = Len(b.list) - b.ndel
<1> DEFINE L == DOMAIN b.list
           D == Deleted(b)
<1>1. /\ Len(b.list) \in Nat /\ L = 1 .. Len(b.list) /\ IsFiniteSet(D)
      /\ D \in SUBSET L
    BY DeletedBounded DEF Deleted
<1>2. IsFiniteSet(L) /\ Cardinality(L) = Len(b.list)
    BY <1>1, FS_Interval
<1>3. Unlisted(b, 0) = L \ D
    BY <1>1 DEF Unlisted, Deleted
<1>4. \A n : n \in L \ D <=> Valid(b, n) /\ ~b.del[n]
    BY DEF Valid, Deleted
<1>5. L \cap D = D /\ b.ndel = Cardinality(D)
    BY <1>1 DEF BoxOK
<1> HIDE DEF L, D
<1>6. Cardinality(L \ D) = Cardinality(L) - Cardinality(L \cap D)
    BY <1>2, FS_Difference
<1>7. Session!Kept(b.list, D) = L \ D
    BY DEF Session!Kept, L
<1>8. /\ Unlisted(b, 0) = Session!Kept(b.list, D)
      /\ \A n : n \in Session!Kept(b.list, D) <=> Valid(b, n) /\ ~b.del[n]
      /\ Cardinality(Session!Kept(b.list, D)) = Len(b.list) - b.ndel
    BY <1>2, <1>3, <1>4, <1>5, <1>6, <1>7
<1>9. QED
    BY <1>8 DEF D

\* A reply and what follows it.
Whole(r) == <<r.msg>> \o RestOf(r)

\* The response to a command is what it is promised to be, and the marks too.
LEMMA RequestDoes ==
    ASSUME NEW b, BoxOK(b), b.loaded = TRUE, NEW line \in Line,
           line.cmd \notin {"NOOP", "QUIT"}
    PROVE  LET r == handle_request(b, line) IN
           /\ r.box.loaded = TRUE
           /\ Deleted(r.box) = Session!MarkedAfter(line, b.list, Deleted(b))
           /\ Whole(r) = Session!Response(line, b.list, Deleted(b))
<1> DEFINE n == line.n
           r == handle_request(b, line)
           K == Session!Kept(b.list, Deleted(b))
           m == Session!MarkedAfter(line, b.list, Deleted(b))
           w == Session!Response(line, b.list, Deleted(b))
           Good == r.box.loaded = TRUE /\ Deleted(r.box) = m /\ Whole(r) = w
<1>0. /\ Unlisted(b, 0) = K
      /\ \A i : i \in K <=> Valid(b, i) /\ ~b.del[i]
      /\ Cardinality(K) = Len(b.list) - b.ndel
    BY KeptIs
<1>0a. b \in Box /\ DOMAIN b.del = DOMAIN b.list
    BY DEF BoxOK
<1>0b. \A msg : <<msg>> \o <<>> = <<msg>>
    BY OneItem, NothingAdded
<1>0c. \A e, msg : /\ Says(e, msg).box = e
                   /\ Whole(Says(e, msg)) = <<msg>>
    <2> SUFFICES ASSUME NEW e, NEW msg
                 PROVE  Says(e, msg).box = e /\ Whole(Says(e, msg)) = <<msg>>
        OBVIOUS
    <2>1. Says(e, msg).box = e /\ Says(e, msg).f = "NULL" /\ Says(e, msg).msg = msg
        BY DEF Says
    <2>2. RestOf(Says(e, msg)) = <<>>
        BY <2>1 DEF RestOf
    <2>3. QED
        BY <1>0b, <2>1, <2>2 DEF Whole
<1> SUFFICES Good
    BY Zenon
<1>1. CASE line.cmd = "STAT"
    <2>1. r = Says(b, <<"stat", Len(b.list) - b.ndel>>)
        BY <1>1 DEF handle_request
    <2>2. w = << <<"stat", Cardinality(K)>> >>
        BY <1>1, SameNumbers DEF Session!Response
    <2>3. m = Deleted(b)
        BY <1>1 DEF Session!MarkedAfter
    <2> HIDE DEF r, w, m, K
    <2>4. QED
        BY <1>0, <1>0c, <2>1, <2>2, <2>3
<1>2. CASE line.cmd = "LIST ALL"
    <2> DEFINE msg == <<"list", Len(b.list) - b.ndel>>
               it  == Items(K)
    <2>1. r = [Says(b, msg) EXCEPT !.f = "list"]
        BY <1>2 DEF handle_request
    <2>2. w = << <<"list", Cardinality(K)>> >> \o it \o <<Dot>>
        BY <1>2, SameNumbers DEF Session!Response, Session!End, Items, Dot
    <2>3. m = Deleted(b)
        BY <1>2 DEF Session!MarkedAfter
    <2>4. Sequence(it)
        <3>1. IsFiniteSet(K)
            BY <1>0, UnlistedIs
        <3> HIDE DEF K
        <3>2. QED
            BY <3>1, ItemsAre
    <2>5. w = <<msg>> \o it \o <<Dot>>
        BY <1>0, <2>2
    <2> HIDE DEF r, w, m, msg
    <2>6. r.box = b /\ r.f = "list" /\ r.msg = msg
        BY <2>1 DEF Says
    <2>7. RestOf(r) = it \o <<Dot>>
        BY <1>0, <2>6 DEF RestOf
    <2> HIDE DEF it, K
    <2>8. Sequence(<<msg>>) /\ Sequence(<<Dot>>)
        BY OneItem
    <2>9. (<<msg>> \o it) \o <<Dot>> = <<msg>> \o (it \o <<Dot>>)
        BY <2>4, <2>8, ThreeInARow
    <2>10. Whole(r) = <<msg>> \o (it \o <<Dot>>)
        BY <2>6, <2>7 DEF Whole
    <2>11. QED
        BY <2>3, <2>5, <2>6, <2>9, <2>10
<1>3. CASE line.cmd = "RSET"
    <2>1. r = Says(cmd_rset(b), <<"rset", Len(b.list)>>)
        BY <1>3 DEF handle_request
    <2>2. w = << <<"rset", Len(b.list)>> >>
        BY <1>3 DEF Session!Response
    <2>3. m = {}
        BY <1>3 DEF Session!MarkedAfter
    <2>4. cmd_rset(b).loaded = TRUE /\ Deleted(cmd_rset(b)) = {}
        <3> DEFINE d == [i \in DOMAIN b.list |-> FALSE]
                   c == b.ndel - Cardinality(Deleted(b))
                   e == [b EXCEPT !.del = d, !.ndel = c]
        <3>1. e.loaded = TRUE /\ e.list = b.list /\ e.del = d
            BY <1>0a DEF Box
        <3>2. Deleted(e) = {}
            BY <3>1 DEF Deleted
        <3>3. cmd_rset(b) = e
            BY Zenon DEF cmd_rset
        <3>4. QED
            BY <3>1, <3>2, <3>3
    <2> HIDE DEF r, w, m
    <2>5. QED
        BY <1>0c, <2>1, <2>2, <2>3, <2>4
<1>4. CASE line.cmd = "LIST" /\ n \in K
    <2>0. Valid(b, n) /\ ~b.del[n]
        BY <1>0, <1>4
    <2>1. r = Says(b, <<"item", n>>)
        BY <1>4, <2>0 DEF handle_request
    <2>2. w = << <<"item", n>> >>
        BY <1>4 DEF Session!Response
    <2>3. m = Deleted(b)
        BY <1>4 DEF Session!MarkedAfter
    <2> HIDE DEF r, w, m
    <2>4. QED
        BY <1>0c, <2>1, <2>2, <2>3
<1>5. CASE line.cmd = "RETR" /\ Valid(b, n)
    <2> DEFINE e == maildir_set_read(b, n)
               msg == <<"retr", n>>
               body == Body(0)
    <2>1. r = [Says(e, msg) EXCEPT !.f = "load", !.retr = n]
        BY <1>5, Zenon DEF handle_request
    <2>2. w = ((<<msg>> \o body) \o AtEnd) \o <<Dot>>
        <3>1. Numbered("body", Upto(Pipe)) = body
            <4>1. Pipe - 0 = Pipe /\ \A i \in 1 .. Pipe : 0 + i = i
                BY PipeIsNumber
            <4>2. QED
                BY <4>1 DEF Numbered, Upto, Body
        <3>2. w = << <<"retr", n>> >> \o Numbered("body", Upto(Pipe)) \o AtEnd \o <<Dot>>
            BY <1>5, SameNumbers DEF Session!Response, Session!End, Dot, Valid
        <3>3. QED
            BY <3>1, <3>2
    <2>3. m = Deleted(b)
        BY <1>5 DEF Session!MarkedAfter
    <2>4. e.loaded = TRUE /\ Deleted(e) = Deleted(b)
        <3> DEFINE d == [b.read EXCEPT ![n] = TRUE]
                   x == [b EXCEPT !.read = d]
        <3>1. x.loaded = TRUE /\ x.list = b.list /\ x.del = b.del
            BY <1>0a DEF Box
        <3>2. Deleted(x) = Deleted(b)
            BY <3>1 DEF Deleted
        <3>3. e = x
            BY Zenon DEF maildir_set_read
        <3>4. QED
            BY <3>1, <3>2, <3>3
    <2>5. Sequence(body)
        BY BodyIs
    <2> HIDE DEF r, w, m, e, msg
    <2>6. r.box = e /\ r.f = "load" /\ r.msg = msg
        BY <2>1 DEF Says
    <2>7. RestOf(r) = (body \o AtEnd) \o <<Dot>>
        BY <2>6 DEF RestOf
    <2> HIDE DEF body
    <2>8. Sequence(<<msg>>) /\ Sequence(<<Dot>>) /\ Sequence(AtEnd)
        BY OneItem, EndsAre
    <2> DEFINE one == <<msg>>
               dot == <<Dot>>
               be  == body \o AtEnd
    <2> HIDE DEF one, dot
    <2>9. Sequence(one) /\ Sequence(dot)
        BY <2>8 DEF one, dot
    <2>10. (one \o body) \o AtEnd = one \o be
        BY <2>5, <2>8, <2>9, ThreeInARow
    <2>11. Sequence(be)
        BY <2>5, <2>8, TwoInARow
    <2> HIDE DEF be
    <2>12. (one \o be) \o dot = one \o (be \o dot)
        BY <2>9, <2>11, ThreeInARow
    <2>13. w = one \o (be \o dot)
        BY <2>2, <2>10, <2>12 DEF one, dot
    <2>14. Whole(r) = one \o (be \o dot)
        BY <2>6, <2>7 DEF Whole, one, be, dot
    <2>15. QED
        BY <2>3, <2>4, <2>6, <2>13, <2>14
<1>6. CASE line.cmd = "DELE" /\ n \in K
    <2>0. Valid(b, n) /\ ~b.del[n]
        BY <1>0, <1>6
    <2>1. r = Says(maildir_set_del(b, n, TRUE), <<"dele", n>>)
        BY <1>6, <2>0 DEF handle_request
    <2>2. w = << <<"dele", n>> >>
        BY <1>6 DEF Session!Response
    <2>3. m = Deleted(b) \union {n}
        BY <1>6, <2>0 DEF Session!MarkedAfter, Valid
    <2>4. /\ maildir_set_del(b, n, TRUE).loaded = TRUE
          /\ Deleted(maildir_set_del(b, n, TRUE)) = Deleted(b) \union {n}
        <3> DEFINE d == [b.del EXCEPT ![n] = TRUE]
                   c == b.ndel + 1
                   x == [b EXCEPT !.del = d, !.ndel = c]
        <3>1. x.loaded = TRUE /\ x.list = b.list /\ x.del = d
            BY <1>0a DEF Box
        <3>2. Deleted(x) = Deleted(b) \union {n}
            BY <1>0a, <2>0, <3>1 DEF Deleted, Valid
        <3>3. maildir_set_del(b, n, TRUE) = x
            BY <2>0, Zenon DEF maildir_set_del
        <3>4. QED
            BY <3>1, <3>2, <3>3
    <2> HIDE DEF r, w, m
    <2>5. QED
        BY <1>0c, <2>1, <2>2, <2>3, <2>4
<1>7. CASE /\ line.cmd \notin {"STAT", "LIST ALL", "RSET"}
           /\ ~(line.cmd = "LIST" /\ n \in K)
           /\ ~(line.cmd = "RETR" /\ Valid(b, n))
           /\ ~(line.cmd = "DELE" /\ n \in K)
    <2>1. r = Says(b, Err)
        BY <1>0, <1>7 DEF handle_request
    <2>2. w = <<Err>>
        BY <1>7 DEF Session!Response, Valid, Err
    <2>3. m = Deleted(b)
        BY <1>0, <1>7 DEF Session!MarkedAfter, Deleted, Valid
    <2> HIDE DEF r, w, m
    <2>4. QED
        BY <1>0c, <2>1, <2>2, <2>3
<1>8. QED
    BY <1>1, <1>2, <1>3, <1>4, <1>5, <1>6, <1>7

-----------------------------------------------------------------------------
(* What the argument needs of a state besides Inv                          *)

\* Marks are on messages of a list that was made; a LIST that is over leaves
\* n_listed at zero, or the next would begin in the middle; no file is listed
\* twice; and what the update has not come to is still in new/, where the
\* rename() of a message that is kept cannot bring one back.
Linked ==
    /\ ~box.loaded => Deleted(box) = {}
    /\ Distinct(box.list)
    /\ conn.state = "TRANSACTION" =>
         /\ conn.f # "list" => conn.n_listed = 0
         /\ ~upd.trash
         /\ Untouched(box.list)
    /\ conn.state = "UPDATE" =>
         \A i \in DOMAIN box.list :
           upd.at < i \/ (upd.at = i /\ ~upd.trash) => disk[box.list[i]] = "new"

\* A step of the session that does not quit.
LEMMA SessionKeepsLinked ==
    ASSUME Linked, conn.state = "TRANSACTION", UNCHANGED <<disk, upd>>,
           conn'.state # "UPDATE",
           conn'.state = "TRANSACTION" => (conn'.f # "list" => conn'.n_listed = 0),
           ~box'.loaded => Deleted(box') = {},
           Distinct(box'.list), Untouched(box'.list)
    PROVE  Linked'
<1>1. Deleted(box)' = Deleted(box')
    BY DEF Deleted
<1>2. QED
    BY <1>1 DEF Linked, Distinct, Untouched

\* One that leaves the list alone as well.
LEMMA SameListKeepsLinked ==
    ASSUME Linked, conn.state = "TRANSACTION", UNCHANGED <<box, disk, upd>>,
           conn'.state # "UPDATE",
           conn'.state = "TRANSACTION" => (conn'.f # "list" => conn'.n_listed = 0)
    PROVE  Linked'
BY SessionKeepsLinked DEF Linked

\* A session begins without list or marks.
LEMMA LinkedInit ==
    ASSUME Init
    PROVE  Linked
<1>1. conn.state = "TRANSACTION" /\ conn.n_listed = 0
    BY DEF Init, LoggedIn
<1>2. ~upd.trash /\ DOMAIN box.list = {} /\ ~box.loaded
    BY DEF Init, NoBox
<1>3. QED
    BY <1>1, <1>2 DEF Linked, Distinct, Untouched, Deleted

-----------------------------------------------------------------------------
(* The callbacks of the session                                            *)

\* Closing, at any time.
LEMMA CloseEnds ==
    ASSUME Linked, conn.state = "TRANSACTION", close_connection
    PROVE  Promised /\ Linked'
<1>1. conn'.state = "CLOSED" /\ out' = <<>> /\ UNCHANGED <<box, disk, upd>>
    BY DEF close_connection, Gone, LoggedIn
<1>2. QED
    BY <1>1, SessionEnds, SameListKeepsLinked

\* A step that leaves the buffer, the list, the reader and the send struct
\* alone.
LEMMA WaitingIsNotSeen ==
    ASSUME Linked, conn.state = "TRANSACTION", UNCHANGED <<out, reader, box, disk, upd>>,
           conn'.state = conn.state, conn'.f = conn.f, conn'.n_listed = conn.n_listed,
           conn'.multiline = conn.multiline, conn'.finished = conn.finished
    PROVE  Promised /\ Linked'
<1>1. Owed(conn', out', reader', box') = Owed(conn, out, reader, box)
    BY DEF Owed, Rest
<1>2. Phase(conn') = Phase(conn) /\ Removed(disk') = Removed(disk)
    BY DEF Phase
<1>3. conn'.state # "UPDATE"
    OBVIOUS
<1>4. Linked'
    BY <1>3, SameListKeepsLinked DEF Linked
<1>5. QED
    BY <1>1, <1>2, <1>4, NothingSeen

\* Reading, an unfinished line, a line that never ends.
LEMMA WaitStep ==
    ASSUME Inv, Linked, trans_read \/ save_arg \/ trans_incomplete
    PROVE  Promised /\ Linked'
<1>1. conn.state = "TRANSACTION" /\ conn \in Conn
    BY DEF trans_read, CanRead, save_arg, trans_incomplete, CanWrite, Inv
<1>2. CASE close_connection
    BY <1>1, <1>2, CloseEnds
<1>3. CASE ~close_connection
    <2>1. UNCHANGED <<out, reader, box, disk, upd>>
        BY <1>3 DEF trans_read, Receive, save_arg, trans_incomplete
    <2>2. \/ conn' = [conn EXCEPT !.interest = {"WRITE"}]
          \/ \E l, p : conn' = [conn EXCEPT !.lines = l, !.partial = p, !.interest = {"WRITE"}]
          \/ conn' = [conn EXCEPT !.stuck = TRUE, !.interest = {"READ"}]
          \/ conn' = [conn EXCEPT !.partial = FALSE, !.interest = {"READ"}]
        BY <1>3, Zenon DEF trans_read, Receive, save_arg, trans_incomplete
    <2>3. /\ conn'.state = conn.state /\ conn'.f = conn.f /\ conn'.n_listed = conn.n_listed
          /\ conn'.multiline = conn.multiline /\ conn'.finished = conn.finished
        BY <1>1, <2>2 DEF Conn
    <2>4. QED
        BY <1>1, <2>1, <2>3, WaitingIsNotSeen
<1>4. QED
    BY <1>2, <1>3

\* The client receives k tokens of the buffer, and the engine puts there no
\* more than what it has taken from what is still to come.
LEMMA EngineReceives ==
    ASSUME Inv, Linked, conn.state = "TRANSACTION", NEW k \in 0 .. Len(out),
           UNCHANGED <<box, disk, upd>>,
           conn'.state = "TRANSACTION", conn'.f # "list" => conn'.n_listed = 0,
           out' \o Rest(conn', reader', box) = Drop(out, k) \o Rest(conn, reader, box)
    PROVE  Promised /\ Linked'
<1> DEFINE r == Rest(conn, reader, box)
           s == out \o r
<1>1. Sequence(out) /\ Sequence(r) /\ Len(out) \in Nat
    BY RestIs, OwedIs, SequenceHas DEF Inv
<1> HIDE DEF r
<1>2. Drop(out, k) \o r = Drop(s, k)
    BY <1>1, DropIsOwed
<1>3. Sequence(s) /\ Len(s) = Len(out) + Len(r) /\ Len(r) \in Nat
    BY <1>1, TwoInARow, SequenceHas
<1>4. k \in 0 .. Len(s)
    BY <1>1, <1>3
<1>5. s = Owed(conn, out, reader, box)
    BY DEF Owed, r
<1>6. Owed(conn', out', reader', box') = Drop(s, k)
    BY <1>2 DEF Owed, r
<1>7. Phase(conn') = Phase(conn) /\ Removed(disk') = Removed(disk)
    BY DEF Phase
<1> HIDE DEF s
<1>8. Promised
    BY <1>3, <1>4, <1>5, <1>6, <1>7, ClientReceives
<1>9. Linked'
    BY SameListKeepsLinked
<1>10. QED
    BY <1>8, <1>9

\* The next message to list is the first of those that are to be listed, and
\* the others are those after it.
LEMMA NextIsFirst ==
    ASSUME NEW b, BoxOK(b), NEW from \in Nat, Unlisted(b, from) # {}
    PROVE  /\ Next1(b, from) \in Unlisted(b, from)
           /\ \A j \in Unlisted(b, from) : Next1(b, from) <= j
           /\ Unlisted(b, Next1(b, from)) = Unlisted(b, from) \ {Next1(b, from)}
<1> DEFINE T == Unlisted(b, from)
           i == Next1(b, from)
<1>1. T \subseteq Nat /\ T # {}
    BY UnlistedIs
<1>2. \E x \in T : \A y \in T : ~(<<y, x>> \in OpToRel(<, Nat))
    BY <1>1, NatLessThanWellFounded, WFMin, Zenon
<1>3. \A x, y \in Nat : <<y, x>> \in OpToRel(<, Nat) <=> y < x
    BY Zenon DEF OpToRel
<1>4. i = CHOOSE x \in T : \A y \in T : x <= y
    BY DEF Next1
<1> HIDE DEF T, i
<1>5. PICK x \in T : \A y \in T : ~(<<y, x>> \in OpToRel(<, Nat))
    BY <1>2, Zenon
<1>6. \A y \in T : ~(y < x)
    BY <1>1, <1>3, <1>5
<1>7. \A y \in T : x <= y
    BY <1>1, <1>6
<1>8. i \in T /\ \A y \in T : i <= y
    BY <1>4, <1>7, Zenon
<1>9. Unlisted(b, i) = T \ {i}
    <2>1. Len(b.list) \in Nat
        BY DeletedBounded
    <2>2. i \in Nat /\ i > from
        BY <1>1, <1>8, <2>1 DEF T, Unlisted
    <2>3. ASSUME NEW j \in Unlisted(b, i) PROVE j \in T \ {i}
        BY <2>1, <2>2, <2>3 DEF T, Unlisted
    <2>4. ASSUME NEW j \in T \ {i} PROVE j \in Unlisted(b, i)
        <3>1. j \in from + 1 .. Len(b.list) /\ ~b.del[j] /\ i <= j /\ i # j
            BY <1>8 DEF T, Unlisted
        <3>2. j \in i + 1 .. Len(b.list)
            BY <2>1, <2>2, <3>1
        <3>3. QED
            BY <3>1, <3>2 DEF Unlisted
    <2>5. QED
        BY <2>3, <2>4
<1>10. QED
    BY <1>8, <1>9 DEF T, i

\* There is nothing to list about nothing.
LEMMA NoItems == Items({}) = <<>>
<1>1. Cardinality({}) = 0
    BY FS_EmptySet
<1>2. DOMAIN Ascending({}) = {}
    BY <1>1 DEF Ascending
<1>3. QED
    BY <1>2 DEF Items, Numbered

\* A line of a list goes from what is to come to the buffer.
LEMMA ListingGoesOn ==
    ASSUME Inv, conn.state = "TRANSACTION", conn.f = "list"
    PROVE  LET d == Listed(conn, box) IN
           /\ d.state = "TRANSACTION"
           /\ d.f # "list" => d.n_listed = 0
           /\ ListItem(conn, box) \o Rest(d, reader, box) = Rest(conn, reader, box)
<1> DEFINE from == conn.n_listed
           U == Unlisted(box, from)
           i == Next1(box, from)
           d == Listed(conn, box)
           item == ListItem(conn, box)
           old == Rest(conn, reader, box)
           new == Rest(d, reader, box)
           Done == d = [conn EXCEPT !.f = "NULL", !.n_listed = 0]
<1>1. /\ conn \in Conn /\ BoxOK(box) /\ from \in Nat /\ Len(box.list) \in Nat
      /\ conn.multiline /\ ~conn.finished
    BY DeletedBounded DEF Inv, Conn, Engine
<1>2. old = Items(U) \o <<Dot>>
    BY DEF Rest
<1>3. Sequence(<<Dot>>) /\ <<>> \o <<Dot>> = <<Dot>>
    BY OneItem, NothingAdded
<1>4. ASSUME Done
      PROVE  d.state = "TRANSACTION" /\ d.f # "list" /\ d.n_listed = 0 /\ new = <<Dot>>
    <2> HIDE DEF d
    <2>1. /\ d.state = "TRANSACTION" /\ d.f = "NULL" /\ d.n_listed = 0
          /\ d.multiline /\ ~d.finished
        BY <1>1, <1>4 DEF Conn
    <2>2. QED
        BY <2>1 DEF Rest
<1>5. CASE U = {}
    <2>1. Done /\ item = <<>>
        BY <1>5 DEF Listed, ListItem
    <2>2. old = <<Dot>>
        BY <1>2, <1>3, <1>5, NoItems
    <2> HIDE DEF d, item, old, new
    <2>3. item \o new = old
        BY <1>3, <1>4, <2>1, <2>2
    <2>4. QED
        BY <1>4, <2>1, <2>3 DEF d, item, old, new
<1>6. CASE U # {}
    <2>1. i \in U /\ (\A j \in U : i <= j) /\ Unlisted(box, i) = U \ {i}
        BY <1>1, <1>6, NextIsFirst
    <2>2. U \in SUBSET Nat /\ IsFiniteSet(U)
        BY <1>1, UnlistedIs
    <2>3. item = << <<"item", i>> >>
        BY <1>6 DEF ListItem
    <2>4. d = IF i = Len(box.list) THEN [conn EXCEPT !.f = "NULL", !.n_listed = 0]
              ELSE [conn EXCEPT !.n_listed = i]
        BY <1>6, Zenon DEF Listed
    <2> DEFINE rest == Items(U \ {i})
    <2> HIDE DEF U, i
    <2>5. Items(U) = << <<"item", i>> >> \o rest
        BY <2>1, <2>2, FirstItem
    <2>6. IsFiniteSet(U \ {i})
        BY <2>2, FS_RemoveElement
    <2>7. Sequence(rest)
        BY <2>6, ItemsAre
    <2> HIDE DEF rest, item, d, old, new
    <2>8. Sequence(item)
        BY <2>3, OneItem
    <2>9. old = item \o (rest \o <<Dot>>)
        <3>1. old = (item \o rest) \o <<Dot>>
            BY <1>2, <2>3, <2>5
        <3>2. QED
            BY <1>3, <2>7, <2>8, <3>1, ThreeInARow
    <2>10. new = rest \o <<Dot>> /\ d.state = "TRANSACTION" /\ (d.f # "list" => d.n_listed = 0)
        <3>1. CASE i = Len(box.list)
            <4>1. Unlisted(box, i) = {}
                BY <1>1, <3>1 DEF Unlisted
            <4>2. rest = <<>>
                BY <2>1, <4>1, NoItems DEF rest
            <4>3. QED
                BY <1>3, <1>4, <2>4, <3>1, <4>2
        <3>2. CASE i # Len(box.list)
            <4>1. d = [conn EXCEPT !.n_listed = i]
                BY <2>4, <3>2
            <4>2. d.state = "TRANSACTION" /\ d.f = "list" /\ d.n_listed = i
                BY <1>1, <4>1 DEF Conn
            <4>3. new = Items(Unlisted(box, i)) \o <<Dot>>
                BY <4>2 DEF Rest, new
            <4>4. QED
                BY <2>1, <4>2, <4>3 DEF rest
        <3>3. QED
            BY <3>1, <3>2
    <2>11. QED
        BY <2>9, <2>10 DEF item, d, old, new
<1>7. QED
    BY <1>5, <1>6

\* The end of a response leaves the rest of the send struct as it is.
LEMMA FinishedKeeps ==
    ASSUME NEW d \in Conn
    PROVE  /\ Finished(d).state = d.state /\ Finished(d).f = "NULL"
           /\ Finished(d).finished /\ Finished(d).n_listed = d.n_listed
BY DEF Finished, Conn, Buffered

\* Appending is putting one item behind.
LEMMA AppendedIs ==
    ASSUME NEW s \in Seq(Tokens), NEW e
    PROVE  Append(s, e) = s \o <<e>>
<1> DEFINE S == Tokens \union {e}
<1>1. s \in Seq(S) /\ e \in S
    BY SeqMonotonic
<1>2. QED
    BY <1>1, AppendIsConcat

\* One send() of a response, and what the engine does when the buffer is empty.
LEMMA SendDataStep ==
    ASSUME Inv, Linked, NEW outcome, send_data(outcome)
    PROVE  Promised /\ Linked'
<1>1. /\ conn.state = "TRANSACTION" /\ ~conn.finished /\ conn \in Conn
      /\ out \in Seq(Tokens) /\ Len(out) \in Nat
      /\ conn.f # "list" => conn.n_listed = 0
    BY DEF send_data, CanWrite, Inv, Linked
<1>2. CASE close_connection
    BY <1>1, <1>2, CloseEnds
<1>3. CASE ~close_connection
    <2>0. UNCHANGED <<box, disk, upd>>
        BY <1>3 DEF send_data
    <2> DEFINE old == Rest(conn, reader, box)
               new == Rest(conn', reader', box)
    <2>1. ASSUME NEW k \in 0 .. Len(out), out' = Drop(out, k), UNCHANGED <<conn, reader>>
          PROVE  Promised /\ Linked'
        <3>1. out' \o new = Drop(out, k) \o old
            BY <2>1
        <3> HIDE DEF old, new
        <3>2. QED
            BY <1>1, <2>0, <2>1, <3>1, EngineReceives DEF old, new
    <2>2. /\ Sequence(old) /\ <<>> \o old = old
          /\ Drop(out, Len(out)) = <<>> /\ Len(out) \in 0 .. Len(out)
        <3>1. Sequence(old)
            BY RestIs DEF Inv
        <3> HIDE DEF old
        <3>2. <<>> \o old = old
            BY <3>1, NothingAdded
        <3>3. Drop(out, Len(out)) = <<>>
            BY <1>1, SubSeqEmpty DEF Drop
        <3>4. QED
            BY <1>1, <3>1, <3>2, <3>3
    <2>3. ASSUME conn'.state = "TRANSACTION", conn'.f # "list" => conn'.n_listed = 0,
                 out' \o new = old
          PROVE  Promised /\ Linked'
        <3>1. out' \o new = Drop(out, Len(out)) \o old
            BY <2>2, <2>3
        <3> HIDE DEF old, new
        <3>2. QED
            BY <1>1, <2>0, <2>2, <2>3, <3>1, EngineReceives DEF old, new
    <2>4. CASE conn.f = "load" /\ load_more_bytes /\ out' = <<>>
        <3>1. /\ conn'.state = "TRANSACTION" /\ conn'.f = conn.f
              /\ conn'.n_listed = conn.n_listed
            BY <1>1, <2>4 DEF load_more_bytes, Conn
        <3>2. reader'.part = reader.part
            BY <2>4 DEF load_more_bytes, Inv, Reader
        <3>3. new = old
            BY <2>4, <3>1, <3>2 DEF Rest
        <3> HIDE DEF old, new
        <3>4. QED
            BY <1>1, <2>2, <2>3, <2>4, <3>1, <3>3
    <2>5. CASE conn.f = "list" /\ cmd_list_all_new
        <3>1. /\ conn' = Listed(conn, box) /\ out' = ListItem(conn, box)
              /\ reader' = reader
            BY <2>5 DEF cmd_list_all_new
        <3>2. /\ conn'.state = "TRANSACTION"
              /\ conn'.f # "list" => conn'.n_listed = 0
              /\ out' \o new = old
            BY <1>1, <2>5, <3>1, ListingGoesOn, Zenon
        <3> HIDE DEF old, new
        <3>3. QED
            BY <2>3, <3>2
    <2>6. CASE conn.f = "NULL" /\ conn.multiline /\ write_terminator
        <3>1. /\ conn'.state = "TRANSACTION" /\ conn'.f = "NULL" /\ conn'.finished
              /\ conn'.n_listed = conn.n_listed /\ out' = <<Dot>>
            BY <1>1, <2>6 DEF write_terminator, Conn
        <3>2. new = <<>> /\ old = <<Dot>>
            BY <1>1, <2>6, <3>1 DEF Rest
        <3>3. out' \o <<>> = out'
            BY <3>1, OneItem, NothingAdded
        <3> HIDE DEF old, new
        <3>4. QED
            BY <1>1, <2>3, <2>6, <3>1, <3>2, <3>3
    <2>7. CASE /\ conn.f = "NULL" /\ ~conn.multiline /\ conn' = Finished(conn)
               /\ out' = <<>> /\ UNCHANGED reader
        <3>1. /\ conn'.state = "TRANSACTION" /\ conn'.f = "NULL" /\ conn'.finished
              /\ conn'.n_listed = conn.n_listed
            BY <1>1, <2>7, FinishedKeeps
        <3>2. new = <<>> /\ old = <<>>
            BY <1>1, <2>7, <3>1 DEF Rest
        <3> HIDE DEF old, new
        <3>3. QED
            BY <1>1, <2>2, <2>3, <2>7, <3>1, <3>2
    <2>8. QED
        BY <1>3, <2>1, <2>4, <2>5, <2>6, <2>7 DEF send_data
<1>4. QED
    BY <1>2, <1>3

\* The send() of a terminator.
LEMMA SendTerminatorStep ==
    ASSUME Inv, Linked, NEW outcome, send_terminator(outcome)
    PROVE  Promised /\ Linked'
<1>1. /\ conn.state = "TRANSACTION" /\ conn.finished /\ conn \in Conn
      /\ conn.f = "NULL" /\ out \in Seq(Tokens)
      /\ conn.n_listed = 0
    BY DEF send_terminator, CanWrite, Inv, Linked, Engine, Conn
<1>2. CASE close_connection
    BY <1>1, <1>2, CloseEnds
<1>3. CASE ~close_connection
    <2>1. PICK k \in 0 .. Len(out) : out' = Drop(out, k)
        BY <1>3 DEF send_terminator
    <2>2. conn' = Finished(conn) /\ UNCHANGED <<reader, box, disk, upd>>
        BY <1>3 DEF send_terminator
    <2>3. /\ conn'.state = "TRANSACTION" /\ conn'.f = "NULL" /\ conn'.finished
          /\ conn'.n_listed = conn.n_listed
        BY <1>1, <2>2, FinishedKeeps
    <2>4. Rest(conn, reader, box) = <<>> /\ Rest(conn', reader', box) = <<>>
        BY <1>1, <2>3 DEF Rest
    <2>5. QED
        BY <1>1, <2>1, <2>2, <2>3, <2>4, EngineReceives
<1>4. QED
    BY <1>2, <1>3

\* The file reader moves a piece from what is to come to the buffer, or what
\* follows the pieces, or nothing.
LEMMA FileReaderStep ==
    ASSUME Inv, Linked, NEW outcome, handle_file_reader(outcome)
    PROVE  Promised /\ Linked'
<1>1. /\ conn.state = "TRANSACTION" /\ conn \in Conn /\ reader \in Reader
      /\ out \in Seq(Tokens) /\ reader.part \in Nat
      /\ conn.f = "load" /\ conn.n_listed = 0 /\ ~conn.finished /\ conn.multiline
      /\ UNCHANGED <<box, disk, upd>>
    BY DEF handle_file_reader, Inv, Engine, Linked, Reader
<1>2. /\ conn'.state = "TRANSACTION" /\ conn'.n_listed = 0 /\ conn'.f \in {"load", "NULL"}
      /\ conn'.finished = conn.finished /\ conn'.multiline = conn.multiline
    BY <1>1 DEF handle_file_reader, ReadSome, ReadEof, ReadFails, Conn
<1> DEFINE p    == reader.part
           body == Body(p)
           old  == Rest(conn, reader, box)
           new  == Rest(conn', reader', box)
           dot  == <<Dot>>
<1>3. Sequence(out) /\ Sequence(body) /\ Sequence(AtEnd) /\ Sequence(dot)
    BY <1>1, BodyIs, EndsAre DEF Sequence
<1>4. old = (body \o AtEnd) \o dot
    BY <1>1 DEF Rest
<1>5. ASSUME out' \o new = out \o old
      PROVE  Promised /\ Linked'
    <2>1. Owed(conn', out', reader', box') = Owed(conn, out, reader, box)
        BY <1>1, <1>2, <1>5 DEF Owed
    <2>2. Phase(conn') = Phase(conn) /\ Removed(disk') = Removed(disk)
        BY <1>1, <1>2 DEF Phase
    <2>3. Promised
        BY <1>1, <2>1, <2>2, NothingSeen
    <2>4. Linked'
        BY <1>1, <1>2, SameListKeepsLinked
    <2>5. QED
        BY <2>3, <2>4
<1>6. CASE ReadSome
    <2> DEFINE one == << <<"body", p + 1>> >>
               rest == Body(p + 1)
               re == rest \o AtEnd
               red == re \o dot
    <2>1. /\ conn'.f = "load" /\ reader'.part = p + 1 /\ out' = Append(out, <<"body", p + 1>>)
          /\ p < Pipe
        BY <1>1, <1>6 DEF ReadSome, Conn, Reader
    <2>2. body = one \o rest
        BY <1>1, <2>1, BodyIs
    <2>3. Sequence(one) /\ Sequence(rest)
        <3>1. p + 1 \in Nat
            BY <1>1
        <3>2. Sequence(rest)
            BY <3>1, BodyIs
        <3>3. Sequence(one)
            BY OneItem
        <3>4. QED
            BY <3>2, <3>3
    <2>4. new = red
        BY <2>1 DEF Rest
    <2>5. out' = out \o one
        BY <1>1, <2>1, AppendedIs
    <2> HIDE DEF one, rest, body, dot, old, new
    <2>6. (one \o rest) \o AtEnd = one \o re
        BY <1>3, <2>3, ThreeInARow
    <2>7. Sequence(re)
        BY <1>3, <2>3, TwoInARow
    <2> HIDE DEF re
    <2>7a. Sequence(one) /\ Sequence(re) /\ Sequence(dot)
        BY <1>3, <2>3, <2>7
    <2>8. (one \o re) \o dot = one \o red
        BY <2>7a, ThreeInARow
    <2>9. Sequence(red)
        BY <1>3, <2>7, TwoInARow
    <2> HIDE DEF red
    <2>10. (out \o one) \o red = out \o (one \o red)
        BY <1>3, <2>3, <2>9, ThreeInARow
    <2>11. out' \o new = out \o old
        BY <1>4, <2>2, <2>4, <2>5, <2>6, <2>8, <2>10
    <2>12. QED
        BY <1>5, <2>11
<1>7. CASE ReadEof
    <2>1. conn'.f = "NULL" /\ p = Pipe /\ out' = out \o AtEnd
        BY <1>1, <1>7 DEF ReadEof, Conn
    <2>2. body = <<>>
        BY <1>1, <2>1, BodyIs
    <2>3. new = dot
        BY <1>1, <1>2, <2>1 DEF Rest
    <2> HIDE DEF body, dot, old, new
    <2>4. <<>> \o AtEnd = AtEnd
        BY <1>3, NothingAdded
    <2>5. (out \o AtEnd) \o dot = out \o (AtEnd \o dot)
        BY <1>3, ThreeInARow
    <2>6. out' \o new = out \o old
        BY <1>4, <2>1, <2>2, <2>3, <2>4, <2>5
    <2>7. QED
        BY <1>5, <2>6
<1>8. CASE ReadFails
    <2>1. conn'.f = conn.f /\ reader'.part = reader.part /\ out' = out
        BY <1>1, <1>8 DEF ReadFails, Conn, Reader
    <2>2. new = old
        BY <1>1, <2>1 DEF Rest
    <2> HIDE DEF old, new
    <2>3. out' \o new = out \o old
        BY <2>1, <2>2
    <2>4. QED
        BY <1>5, <2>3
<1>9. QED
    BY <1>6, <1>7, <1>8 DEF handle_file_reader

-----------------------------------------------------------------------------
(* Commands, the update and the environment                                *)

\* An idle session owes what is in its buffer.
LEMMA IdleOwes ==
    ASSUME Inv, Linked, conn.state = "TRANSACTION", Idle
    PROVE  /\ Owed(conn, out, reader, box) = out
           /\ conn.f = "NULL" /\ conn.n_listed = 0
<1>1. conn.f = "NULL" /\ conn.finished /\ ~conn.multiline /\ conn.n_listed = 0
    BY DEF Inv, Engine, Conn, Idle, Linked
<1>2. Rest(conn, reader, box) = <<>>
    BY <1>1 DEF Rest
<1>3. Sequence(out)
    BY DEF Inv, Sequence
<1>4. out \o <<>> = out
    BY <1>3, NothingAdded
<1>5. QED
    BY <1>1, <1>2, <1>4 DEF Owed

\* The connection after a reply has the engine the command asked for.
LEMMA ReplyLeaves ==
    ASSUME Inv, Linked, CanWrite, Idle, conn.lines > 0,
           NEW r, Answer(r), NEW outcome, NEW popen, Reply(r, outcome, popen)
    PROVE  /\ box' = r.box /\ UNCHANGED <<disk, upd>>
           /\ \/ conn'.state = "CLOSED" /\ out' = <<>>
              \/ /\ conn'.state = "TRANSACTION"
                 /\ conn'.n_listed = 0
                 /\ \E k \in 0 .. Len(Append(out, r.msg)) : out' = Drop(Append(out, r.msg), k)
                 /\ Rest(conn', reader', box') = RestOf(r)
<1> DEFINE started == r.f = "load" /\ popen = "ok"
           d == [conn EXCEPT !.lines = @ - 1, !.f = r.f,
                             !.finished = r.f = "NULL", !.multiline = r.f # "NULL",
                             !.interest = IF started THEN {} ELSE @]
           all == Append(out, r.msg)
<1>1. conn.state = "TRANSACTION" /\ conn \in Conn /\ conn.n_listed = 0
    BY IdleOwes DEF CanWrite, Inv
<1>2. /\ reader' = IF started THEN Started(r.retr)
                   ELSE IF r.f = "load" THEN [NoReader EXCEPT !.mail = r.retr]
                   ELSE reader
      /\ box' = r.box
      /\ UNCHANGED <<disk, upd>>
      /\ \/ conn' = Gone("CLOSED") /\ out' = <<>>
         \/ \E k \in 0 .. Len(all) :
               out' = Drop(all, k) /\ conn' = AfterReply(d, Drop(all, k))
    BY DEF Reply
<1>3. /\ d.state = "TRANSACTION" /\ d.f = r.f /\ d.n_listed = 0
      /\ d.multiline = (r.f # "NULL") /\ d.finished = (r.f = "NULL")
      /\ DOMAIN d = DOMAIN conn
    BY <1>1 DEF Conn
<1>4. {"state", "f", "n_listed", "multiline", "finished"} \subseteq DOMAIN d
    BY <1>1, <1>3 DEF Conn
<1> HIDE DEF d, all
<1>5. \A left : /\ AfterReply(d, left).state = "TRANSACTION"
                /\ AfterReply(d, left).f = r.f /\ AfterReply(d, left).n_listed = 0
                /\ AfterReply(d, left).multiline = (r.f # "NULL")
    BY <1>3, <1>4 DEF AfterReply
<1>6. r.f = "load" => reader'.part = 0
    BY <1>2 DEF Started, NoReader
<1>7. CASE conn' = Gone("CLOSED") /\ out' = <<>>
    <2>1. conn'.state = "CLOSED"
        BY <1>7 DEF Gone, LoggedIn
    <2>2. QED
        BY <1>2, <1>7, <2>1
<1>8. CASE \E k \in 0 .. Len(all) :
               out' = Drop(all, k) /\ conn' = AfterReply(d, Drop(all, k))
    <2>1. /\ conn'.state = "TRANSACTION" /\ conn'.f = r.f /\ conn'.n_listed = 0
          /\ conn'.multiline = (r.f # "NULL")
        BY <1>5, <1>8
    <2>2. r.f \in {"NULL", "load", "list"}
        BY DEF Answer
    <2>3. Rest(conn', reader', box') = RestOf(r)
        <3>1. CASE r.f = "load"
            BY <1>6, <2>1, <3>1, Zenon DEF Rest, RestOf
        <3>2. CASE r.f = "list"
            BY <1>2, <2>1, <3>2 DEF Rest, RestOf
        <3>3. CASE r.f = "NULL"
            BY <2>1, <3>3 DEF Rest, RestOf
        <3>4. QED
            BY <2>2, <3>1, <3>2, <3>3
    <2>4. QED
        BY <1>2, <1>8, <2>1, <2>3 DEF all
<1>9. QED
    BY <1>2, <1>7, <1>8

\* So the client is owed the whole response, less what send() took.
LEMMA ReplyOwes ==
    ASSUME Inv, Linked, CanWrite, Idle, conn.lines > 0,
           NEW r, Answer(r), NEW outcome, NEW popen \in PipeOutcomes,
           Reply(r, outcome, popen), conn'.state = "TRANSACTION"
    PROVE  /\ Sequence(out \o Whole(r))
           /\ \E k \in 0 .. Len(out \o Whole(r)) :
                Owed(conn', out', reader', box') = Drop(out \o Whole(r), k)
<1> DEFINE one  == <<r.msg>>
           rest == RestOf(r)
           all  == out \o one
           s    == all \o rest
<1>1. /\ out \in Seq(Tokens) /\ r.msg \in Tokens
      /\ Append(out, r.msg) = all
    BY AppendIsConcat DEF Inv, Answer
<1>2. Rest(conn', reader', box') = rest /\ box' = r.box
    BY ReplyLeaves
<1>3. \E k \in 0 .. Len(all) : out' = Drop(all, k)
    BY <1>1, ReplyLeaves
<1>4. Inv'
    BY ReplyKeepsInv
<1>5. conn' \in Conn /\ reader' \in Reader /\ BoxOK(box')
    BY <1>2, <1>4 DEF Inv, Answer
<1>6. Sequence(rest)
    BY <1>2, <1>5, RestIs
<1>7. Sequence(out) /\ Sequence(one)
    BY <1>1, OneItem DEF Sequence
<1>8. Whole(r) = one \o rest
    BY DEF Whole
<1> HIDE DEF one, rest
<1>9. out \o Whole(r) = s
    BY <1>6, <1>7, <1>8, ThreeInARow
<1>10. Sequence(all)
    BY <1>7, TwoInARow
<1> HIDE DEF all
<1>11. Sequence(s) /\ Len(s) = Len(all) + Len(rest) /\ Len(all) \in Nat /\ Len(rest) \in Nat
    BY <1>6, <1>10, TwoInARow, SequenceHas
<1>12. PICK k \in 0 .. Len(all) : out' = Drop(all, k)
    BY <1>3
<1>13. Drop(all, k) \o rest = Drop(s, k)
    BY <1>6, <1>10, DropIsOwed
<1>14. k \in 0 .. Len(s)
    BY <1>11
<1>15. Owed(conn', out', reader', box') = Drop(s, k)
    BY <1>2, <1>12, <1>13 DEF Owed
<1>16. QED
    BY <1>9, <1>11, <1>14, <1>15

\* readdir() names each file of new/ once.
LEMMA LinkedLists ==
    ASSUME Linked, conn.state = "TRANSACTION", NEW b \in Lists
    PROVE  Distinct(b.list) /\ Untouched(b.list)
<1>1. CASE box.loaded
    BY <1>1 DEF Lists, Linked
<1>2. CASE ~box.loaded
    <2> DEFINE S == {m \in Mails : disk[m] = "new"}
    <2>1. PICK s \in SetToSeqs(S) : b.list = s
        BY <1>2 DEF Lists
    <2>2. /\ s \in [1 .. Cardinality(S) -> S]
          /\ \A i, j \in 1 .. Cardinality(S) : i # j => s[i] # s[j]
        BY <2>1 DEF SetToSeqs
    <2>3. QED
        BY <2>1, <2>2 DEF Distinct, Untouched
<1>3. QED
    BY <1>1, <1>2

\* Every command is carried out at once.
LEMMA TransCommandStep ==
    ASSUME Inv, Linked, NEW line \in Line, NEW outcome, NEW popen \in PipeOutcomes,
           NEW opendir, trans_command(line, outcome, popen, opendir)
    PROVE  Promised /\ Linked'
<1>1. /\ CanWrite /\ Idle /\ conn.lines > 0 /\ conn.state = "TRANSACTION"
      /\ line.cmd # "QUIT" /\ BoxOK(box)
    BY DEF trans_command, CanWrite, Inv
<1>2. Owed(conn, out, reader, box) = out /\ conn.n_listed = 0 /\ out \in Seq(Tokens)
    BY <1>1, IdleOwes DEF Inv
<1>3. ASSUME NEW msg, msg = <<"ok", 0>> \/ (msg = Err /\ ~box.loaded),
             Reply(Says(box, msg), outcome, popen)
      PROVE  Promised /\ Linked'
    <2> DEFINE r == Says(box, msg)
               w == out \o Whole(r)
    <2>1. msg \in Tokens
        BY <1>3 DEF Tokens, Err
    <2>2. Answer(r) /\ r.box = box /\ r.msg = msg /\ r.f = "NULL"
        BY <1>1, <2>1, SaysIsAnswer DEF Says
    <2>3. RestOf(r) = <<>>
        BY <2>2 DEF RestOf
    <2>4. Whole(r) = <<msg>>
        BY <2>2, <2>3, OneItem, NothingAdded DEF Whole
    <2>5. w = Append(out, msg)
        BY <1>2, <2>1, <2>4, AppendIsConcat
    <2> HIDE DEF r
    <2>6. Reply(r, outcome, popen)
        BY <1>3 DEF r
    <2>7. /\ UNCHANGED <<box, disk, upd>>
          /\ \/ conn'.state = "CLOSED" /\ out' = <<>>
             \/ conn'.state = "TRANSACTION" /\ conn'.n_listed = 0
        BY <1>1, <2>2, <2>6, ReplyLeaves
    <2>8. Linked'
        BY <1>1, <2>7, SameListKeepsLinked
    <2>9. CASE conn'.state = "CLOSED" /\ out' = <<>>
        BY <1>1, <2>7, <2>8, <2>9, SessionEnds
    <2>10. CASE conn'.state = "TRANSACTION"
        <3>1. /\ Sequence(w)
              /\ \E k \in 0 .. Len(w) : Owed(conn', out', reader', box') = Drop(w, k)
            BY <1>1, <2>2, <2>6, <2>10, ReplyOwes
        <3> HIDE DEF w
        <3>2. QED
            BY <1>1, <1>2, <1>3, <2>5, <2>7, <2>8, <2>10, <3>1, FixedReply
    <2>11. QED
        BY <2>7, <2>9, <2>10
<1>4. ASSUME NEW b \in Lists, Reply(handle_request(b, line), outcome, popen),
             line.cmd # "NOOP"
      PROVE  Promised /\ Linked'
    <2> DEFINE r == handle_request(b, line)
               w == out \o Whole(r)
               resp == Session!Response(line, b.list, Deleted(box))
               mark == Session!MarkedAfter(line, b.list, Deleted(box))
    <2>1. BoxOK(b) /\ b.loaded = TRUE /\ b.list \in Session!Snapshots /\ Deleted(b) = Deleted(box)
        BY ListsMakesBox, SnapshotIs DEF Linked
    <2>2. Answer(r) /\ r.box.list = b.list
        BY <2>1, RequestIsAnswer, RequestKeepsList
    <2>3. r.box.loaded = TRUE /\ Deleted(r.box) = mark /\ Whole(r) = resp
        BY <1>1, <1>4, <2>1, RequestDoes, Zenon
    <2>4. Distinct(b.list) /\ Untouched(b.list)
        BY <1>1, LinkedLists
    <2> HIDE DEF r
    <2>5. Reply(r, outcome, popen)
        BY <1>4 DEF r
    <2>6. /\ box' = r.box /\ UNCHANGED <<disk, upd>>
          /\ \/ conn'.state = "CLOSED" /\ out' = <<>>
             \/ conn'.state = "TRANSACTION" /\ conn'.n_listed = 0
        BY <1>1, <2>2, <2>5, ReplyLeaves
    <2>7. Linked'
        BY <1>1, <2>2, <2>3, <2>4, <2>6, SessionKeepsLinked
    <2>8. /\ box'.loaded = TRUE /\ box'.list = b.list /\ Deleted(box') = mark
        BY <2>2, <2>3, <2>6
    <2>9. CASE conn'.state = "CLOSED" /\ out' = <<>>
        <3> HIDE DEF mark
        <3>1. Deleted(box') = Session!MarkedAfter(line, box'.list, Deleted(box))
            BY <2>8 DEF mark
        <3>2. QED
            BY <1>1, <2>1, <2>6, <2>7, <2>8, <2>9, <3>1, CommandIsLost
    <2>10. CASE conn'.state = "TRANSACTION"
        <3>1. /\ Sequence(w)
              /\ \E k \in 0 .. Len(w) : Owed(conn', out', reader', box') = Drop(w, k)
            BY <1>1, <2>2, <2>5, <2>10, ReplyOwes
        <3>2. w = Owed(conn, out, reader, box)
                    \o Session!Response(line, box'.list, Deleted(box))
            BY <1>2, <2>3, <2>8
        <3>3. Deleted(box') = Session!MarkedAfter(line, box'.list, Deleted(box))
            BY <2>8
        <3>4. box'.list \in Session!Snapshots
            BY <2>1, <2>8
        <3> HIDE DEF w, resp, mark
        <3>5. QED
            BY <1>1, <2>6, <2>7, <2>8, <2>10, <3>1, <3>2, <3>3, <3>4, CommandIsCarriedOut
    <2>11. QED
        BY <2>6, <2>9, <2>10
<1>5. CASE line.cmd = "NOOP" /\ Reply(Says(box, <<"ok", 0>>), outcome, popen)
    BY <1>3, <1>5
<1>6. CASE ~box.loaded /\ Reply(Says(box, Err), outcome, popen)
    BY <1>3, <1>6
<1>7. CASE line.cmd # "NOOP" /\ \E b \in Lists : Reply(handle_request(b, line), outcome, popen)
    BY <1>4, <1>7
<1>8. QED
    BY <1>5, <1>6, <1>7 DEF trans_command

\* QUIT says nothing, and the update begins with every listed message in new/.
LEMMA TransQuitStep ==
    ASSUME Inv, Linked, trans_quit
    PROVE  Promised /\ Linked'
<1>1. /\ conn.state = "TRANSACTION" /\ Idle /\ conn \in Conn
      /\ upd.at = 0 /\ upd \in [at : Nat, trash : BOOLEAN]
      /\ DOMAIN box.list = 1 .. Len(box.list) /\ Len(box.list) \in Nat
    BY DeletedBounded DEF trans_quit, CanWrite, Inv
<1>2. /\ conn'.state = "UPDATE" /\ out' = out /\ UNCHANGED <<box, disk>>
      /\ upd'.at = 1
    BY <1>1 DEF trans_quit, Conn
<1>3. Owed(conn', out', reader', box') = Owed(conn, out, reader, box)
    BY <1>1, <1>2, IdleOwes DEF Owed
<1>4. Promised
    BY <1>1, <1>2, <1>3, ClientQuits
<1>5. Linked'
    BY <1>1, <1>2 DEF Linked, Untouched, Distinct, Deleted
<1>6. QED
    BY <1>4, <1>5

\* rename() takes a marked message out of the maildrop and no other, since the
\* others are in new/ when it comes to them.
LEMMA RenameStep ==
    ASSUME Inv, Linked, NEW outcome, move_and_set_flags(outcome)
    PROVE  Promised /\ Linked'
<1> DEFINE at == upd.at
           m  == box.list[at]
           to == Where(box, at)
<1>1. /\ conn.state = "UPDATE" /\ at \in DOMAIN box.list /\ ~upd.trash
      /\ UNCHANGED <<conn, out, reader, box>>
      /\ disk' = (IF outcome = "ok" THEN [disk EXCEPT ![m] = to] ELSE disk)
      /\ upd' = (IF to = "trash" THEN [upd EXCEPT !.trash = TRUE]
                 ELSE [upd EXCEPT !.at = @ + 1])
    BY DEF move_and_set_flags, Updating
<1>2. /\ upd \in [at : Nat, trash : BOOLEAN] /\ at \in Nat
      /\ DOMAIN box.list = 1 .. Len(box.list) /\ Len(box.list) \in Nat
      /\ \A i \in DOMAIN box.list : box.list[i] \in Mails
      /\ DOMAIN disk = Mails
    BY DeletedBounded DEF Inv, BoxOK, Box
<1>3. /\ \A i \in DOMAIN box.list : box.list[i] = m => i = at
      /\ \A i \in DOMAIN box.list : at <= i => disk[box.list[i]] = "new"
      /\ Distinct(box.list)
    BY <1>1, <1>2 DEF Linked, Distinct
<1>4. /\ \A i \in DOMAIN box.list : i # at => disk'[box.list[i]] = disk[box.list[i]]
      /\ \A n \in Mails : n # m => disk'[n] = disk[n]
      /\ disk'[m] = IF outcome = "ok" THEN to ELSE disk[m]
      /\ m \in Mails
    BY <1>1, <1>2, <1>3
<1>5. to \in {"trash", "seen", "new"} /\ (to = "trash" <=> box.del[at])
    BY DEF Where
<1>6. Linked'
    <2>1. CASE to = "trash"
        <3>1. upd'.at = at /\ upd'.trash
            BY <1>1, <1>2, <2>1
        <3>2. \A i \in DOMAIN box.list : at < i => disk'[box.list[i]] = "new"
            BY <1>2, <1>3, <1>4
        <3>3. QED
            BY <1>1, <3>1, <3>2 DEF Linked, Distinct, Deleted
    <2>2. CASE to # "trash"
        <3>1. upd'.at = at + 1
            BY <1>1, <1>2, <2>2
        <3>2. \A i \in DOMAIN box.list : at + 1 <= i => disk'[box.list[i]] = "new"
            BY <1>2, <1>3, <1>4
        <3>3. \A i \in DOMAIN box.list : upd'.at < i \/ upd'.at = i => at + 1 <= i
            BY <1>2, <3>1
        <3>4. QED
            BY <1>1, <3>2, <3>3 DEF Linked, Distinct, Deleted
    <2>3. QED
        BY <2>1, <2>2
<1>7. disk[m] = "new"
    BY <1>1, <1>2, <1>3
<1>8. CASE to = "trash" /\ outcome = "ok"
    <2>1. Removed(disk') = Removed(disk) \union {m}
        BY <1>4, <1>8 DEF Removed
    <2>2. at \in Deleted(box)
        BY <1>1, <1>5, <1>8 DEF Deleted
    <2>3. Promised
        BY <1>1, <2>1, <2>2, MessageLeaves
    <2>4. QED
        BY <1>6, <2>3
<1>9. CASE ~(to = "trash" /\ outcome = "ok")
    <2>1. Removed(disk') = Removed(disk)
        BY <1>4, <1>5, <1>7, <1>9 DEF Removed
    <2>2. Owed(conn', out', reader', box') = Owed(conn, out, reader, box)
        BY <1>1
    <2>3. Promised
        BY <1>1, <2>1, <2>2, NothingSeen
    <2>4. QED
        BY <1>6, <2>3
<1>10. QED
    BY <1>8, <1>9

\* remove() finds what rename() has taken out already.
LEMMA RemoveStep ==
    ASSUME Inv, Linked, NEW outcome, maildir_del_permanentely(outcome)
    PROVE  Promised /\ Linked'
<1> DEFINE at == upd.at
           m  == box.list[at]
<1>1. /\ conn.state = "UPDATE" /\ at \in DOMAIN box.list /\ upd.trash
      /\ UNCHANGED <<conn, out, reader, box>>
      /\ disk' = (IF outcome = "ok" /\ disk[m] = "trash"
                  THEN [disk EXCEPT ![m] = "gone"] ELSE disk)
      /\ upd' = [upd EXCEPT !.at = @ + 1, !.trash = FALSE]
    BY DEF maildir_del_permanentely, Updating
<1>2. /\ upd \in [at : Nat, trash : BOOLEAN] /\ at \in Nat
      /\ DOMAIN box.list = 1 .. Len(box.list) /\ Len(box.list) \in Nat
      /\ \A i \in DOMAIN box.list : box.list[i] \in Mails
      /\ DOMAIN disk = Mails
    BY DeletedBounded DEF Inv, BoxOK, Box
<1>3. /\ \A i \in DOMAIN box.list : at < i => disk[box.list[i]] = "new"
      /\ \A n : disk[n] # "trash" => disk'[n] = disk[n]
    BY <1>1 DEF Linked
<1>4. upd'.at = at + 1
    BY <1>1, <1>2
<1>5. \A i \in DOMAIN box.list : at < i => disk'[box.list[i]] = "new"
    BY <1>3
<1>6. \A i \in DOMAIN box.list : upd'.at < i \/ upd'.at = i => at < i
    BY <1>2, <1>4
<1>7. Linked'
    BY <1>1, <1>5, <1>6 DEF Linked, Distinct, Deleted
<1>8. Removed(disk') = Removed(disk)
    <2>1. \A n \in Mails : disk'[n] = disk[n] \/ (disk[n] = "trash" /\ disk'[n] = "gone")
        BY <1>1, <1>2
    <2>2. QED
        BY <2>1 DEF Removed
<1>9. Owed(conn', out', reader', box') = Owed(conn, out, reader, box)
    BY <1>1
<1>10. QED
    BY <1>1, <1>7, <1>8, <1>9, NothingSeen

\* The goodbye, or the death of the process, at any time.
LEMMA EndStepIs ==
    ASSUME Inv, Linked, Crash \/ \E o \in SendOutcomes : update_process(o)
    PROVE  Promised /\ Linked'
<1>1. /\ conn.state \in {"TRANSACTION", "UPDATE"}
      /\ conn'.state \in {"CLOSED", "CRASHED"} /\ out' = <<>>
      /\ UNCHANGED <<box, disk, upd>>
    BY DEF Crash, update_process, Gone, LoggedIn
<1>2. Promised
    BY <1>1, SessionEnds
<1>3. Linked'
    BY <1>1 DEF Linked, Distinct, Deleted
<1>4. QED
    BY <1>2, <1>3

\* What arrives is not in the list, and is not told to the client.
LEMMA DeliverStep ==
    ASSUME Inv, Linked, NEW m \in Mails, Deliver(m)
    PROVE  Promised /\ Linked'
<1>1. /\ DOMAIN disk = Mails /\ disk[m] = "absent"
      /\ disk' = [disk EXCEPT ![m] = "new"]
      /\ UNCHANGED <<conn, out, reader, box, upd>>
    BY DEF Inv, Deliver
<1>2. \A n : disk[n] # "absent" => disk'[n] = disk[n]
    BY <1>1
<1>3. Removed(disk') = Removed(disk)
    BY <1>1, <1>2 DEF Removed
<1>4. Owed(conn', out', reader', box') = Owed(conn, out, reader, box)
    BY <1>1
<1>5. Promised
    BY <1>1, <1>3, <1>4, NothingSeen
<1>6. \A i \in DOMAIN box.list : disk[box.list[i]] = "new" => disk'[box.list[i]] = "new"
    BY <1>2
<1>7. Linked'
    BY <1>1, <1>6 DEF Linked, Distinct, Untouched, Deleted
<1>8. QED
    BY <1>5, <1>7

-----------------------------------------------------------------------------
(* The theorem                                                             *)

\* Every step is one of MaildropSession's, or none that the client can tell.
LEMMA StepIsPromised ==
    ASSUME Inv, Linked, [Next]_vars
    PROVE  Promised /\ Linked'
<1>1. CASE trans_read
    BY <1>1, WaitStep
<1>2. CASE trans_process
    BY <1>2, SendDataStep, SendTerminatorStep, WaitStep, TransCommandStep,
       TransQuitStep DEF trans_process
<1>3. CASE read_file
    BY <1>3, FileReaderStep DEF read_file
<1>4. CASE update
    BY <1>4, RenameStep, RemoveStep, EndStepIs DEF update
<1>5. CASE \E m \in Mails : Deliver(m)
    BY <1>5, DeliverStep
<1>6. CASE Crash
    BY <1>6, EndStepIs
<1>7. CASE UNCHANGED vars
    <2>1. Owed(conn', out', reader', box') = Owed(conn, out, reader, box)
        BY <1>7 DEF vars
    <2>2. Promised
        BY <1>7, <2>1, NothingSeen DEF vars
    <2>3. Linked'
        BY <1>7 DEF Linked, Distinct, Untouched, Deleted, vars
    <2>4. QED
        BY <2>2, <2>3
<1>8. QED
    BY <1>1, <1>2, <1>3, <1>4, <1>5, <1>6, <1>7 DEF Next

\* A session begins with nothing listed, marked, owed or removed.
LEMMA InitIsPromised ==
    ASSUME Init
    PROVE  Session!Init
<1>1. conn.state = "TRANSACTION" /\ conn.f = "NULL" /\ conn.finished
    BY DEF Init, LoggedIn
<1>2. Pending = <<>>
    BY <1>1 DEF Pending
<1>3. out \o Pending = <<>>
    <2>1. out = <<>> /\ Sequence(out)
        BY EmptySequence DEF Init
    <2>2. QED
        BY <1>2, <2>1, NothingAdded
<1>4. Deleted(box) = {} /\ box.loaded = FALSE /\ box.list = <<>>
    BY DEF Init, NoBox, Deleted
<1>5. {m \in Mails : disk[m] \in {"trash", "gone"}} = {}
    BY DEF Init
<1>6. QED
    BY <1>1, <1>3, <1>4, <1>5 DEF Session!Init

\* However send() cuts the buffer, the reader and the client alternate, and
\* commands are pipelined, and whatever fails: the client receives each
\* response whole and in order, with the messages, numbers and marks of when
\* its command was read; and a message leaves the maildrop only if it was
\* marked when QUIT came.
THEOREM SessionKept == Spec => ImplementsSession
<1>1. Init => Linked /\ Session!Init
    BY LinkedInit, InitIsPromised
<1>2. Inv /\ Linked /\ [Next]_vars => Linked' /\ [Session!Next]_(Session!sessionVars)
    BY StepIsPromised DEF Promised
<1>3. QED
    BY <1>1, <1>2, InvAlways, PTL DEF Spec, ImplementsSession, Session!Spec

=============================================================================
