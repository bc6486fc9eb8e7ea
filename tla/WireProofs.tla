----------------------------- MODULE WireProofs -----------------------------
(***************************************************************************)
(* The two ends of a monitor connection agree on what was asked and on     *)
(* what was answered, for any command lines, any buffers that hold the     *)
(* longest answer, and wherever recv() and send() cut the text.            *)
(***************************************************************************)
EXTENDS WireProperties, SequenceTheorems, FiniteSetTheorems, NaturalsInduction, TLAPS

-----------------------------------------------------------------------------
(* Sequences                                                               *)

\* What is left of a sequence behind its first k items
Drop(s, k) == SubSeq(s, k + 1, Len(s))

\* Cutting a sequence leaves a sequence, item by item what it was.
LEMMA DropIs ==
    ASSUME NEW S, NEW s \in Seq(S), NEW k \in 0 .. Len(s)
    PROVE  /\ Drop(s, k) \in Seq(S)
           /\ Len(Drop(s, k)) = Len(s) - k
           /\ \A i \in 1 .. Len(s) - k : Drop(s, k)[i] = s[k + i]
<1>1. Len(s) \in Nat /\ k \in Nat
    BY LenProperties
<1>2. \A i \in k + 1 .. Len(s) : s[i] \in S
    BY <1>1, ElementOfSeq
<1>3. k + 1 \in Int /\ Len(s) \in Int
    BY <1>1
<1>4. /\ SubSeq(s, k + 1, Len(s)) \in Seq(S)
      /\ Len(SubSeq(s, k + 1, Len(s))) = IF k + 1 <= Len(s) THEN Len(s) - (k + 1) + 1 ELSE 0
      /\ \A i \in 1 .. Len(s) - (k + 1) + 1 : SubSeq(s, k + 1, Len(s))[i] = s[k + 1 + i - 1]
    BY <1>2, <1>3, SubSeqProperties
<1>5. \A i \in 1 .. Len(s) - k : s[k + 1 + i - 1] = s[k + i]
    BY <1>1
<1>6. QED
    BY <1>1, <1>4, <1>5 DEF Drop

\* The first items of a sequence.
LEMMA TakeIs ==
    ASSUME NEW S, NEW s \in Seq(S), NEW k \in 0 .. Len(s)
    PROVE  /\ SubSeq(s, 1, k) \in Seq(S)
           /\ Len(SubSeq(s, 1, k)) = k
           /\ \A i \in 1 .. k : SubSeq(s, 1, k)[i] = s[i]
<1>1. Len(s) \in Nat /\ k \in Nat
    BY LenProperties
<1>2. \A i \in 1 .. k : s[i] \in S
    BY <1>1, ElementOfSeq
<1>3. /\ SubSeq(s, 1, k) \in Seq(S)
      /\ Len(SubSeq(s, 1, k)) = IF 1 <= k THEN k - 1 + 1 ELSE 0
      /\ \A i \in 1 .. k - 1 + 1 : SubSeq(s, 1, k)[i] = s[1 + i - 1]
    BY <1>1, <1>2, SubSeqProperties
<1>4. \A i \in 1 .. k : s[1 + i - 1] = s[i]
    BY <1>1
<1>5. QED
    BY <1>1, <1>3, <1>4

\* A sequence is its first items and the others.
LEMMA TakeAndDrop ==
    ASSUME NEW S, NEW s \in Seq(S), NEW k \in 0 .. Len(s)
    PROVE  s = SubSeq(s, 1, k) \o Drop(s, k)
<1> DEFINE t == SubSeq(s, 1, k)
           d == Drop(s, k)
<1>1. Len(s) \in Nat /\ k \in Nat
    BY LenProperties
<1>2. t \in Seq(S) /\ Len(t) = k /\ \A i \in 1 .. k : t[i] = s[i]
    BY TakeIs
<1>3. d \in Seq(S) /\ Len(d) = Len(s) - k /\ \A i \in 1 .. Len(s) - k : d[i] = s[k + i]
    BY DropIs
<1> HIDE DEF t, d
<1>4. /\ t \o d \in Seq(S)
      /\ Len(t \o d) = Len(t) + Len(d)
      /\ \A i \in 1 .. Len(t) + Len(d) :
           (t \o d)[i] = IF i <= Len(t) THEN t[i] ELSE d[i - Len(t)]
    BY <1>2, <1>3, ConcatProperties
<1>5. ASSUME NEW i \in 1 .. Len(s) PROVE s[i] = (t \o d)[i]
    <2>1. CASE i <= k
        BY <1>1, <1>2, <1>3, <1>4, <2>1
    <2>2. CASE i > k
        <3> DEFINE j == i - k
        <3>1. j \in 1 .. Len(s) - k /\ k + j = i
            BY <1>1, <2>2
        <3>2. i \in 1 .. Len(t) + Len(d) /\ ~(i <= Len(t)) /\ i - Len(t) = j
            BY <1>1, <1>2, <1>3, <2>2
        <3>3. (t \o d)[i] = d[j]
            BY <1>4, <3>2
        <3>4. d[j] = s[k + j]
            BY <1>3, <3>1
        <3>5. QED
            BY <3>1, <3>3, <3>4
    <2>3. i <= k \/ i > k
        BY <1>1
    <2>4. QED
        BY <2>1, <2>2, <2>3, Zenon
<1>6. t \o d \in Seq(S) /\ Len(s) = Len(t \o d)
    BY <1>1, <1>2, <1>3, <1>4
<1>7. s = t \o d
    BY <1>5, <1>6, SeqEqual
<1>8. QED
    BY <1>7 DEF t, d

-----------------------------------------------------------------------------
(* Folds: what a recursive function does step by step                      *)

\* A set of numbers that is not empty has a least one: a counterexample to
\* what holds for all numbers has a first.
LEMMA LeastNumber ==
    ASSUME NEW T, T \subseteq Nat, T # {}
    PROVE  \E x \in T : \A y \in T : x <= y
<1>1. \E x \in T : \A y \in T : ~(<<y, x>> \in OpToRel(<, Nat))
    BY NatLessThanWellFounded, WFMin, Zenon
<1>2. \A x, y \in Nat : <<y, x>> \in OpToRel(<, Nat) <=> y < x
    BY Zenon DEF OpToRel
<1>3. PICK x \in T : \A y \in T : ~(<<y, x>> \in OpToRel(<, Nat))
    BY <1>1, Zenon
<1>4. \A y \in T : ~(y < x)
    BY <1>2, <1>3
<1>5. \A y \in T : x <= y
    BY <1>4
<1>6. QED
    BY <1>5

\* f goes from base, a step for each of the first n items of a sequence.
Goes(f, step, base, seq, n) ==
    f[0] = base /\ \A k \in 1 .. n : f[k] = step[<<f[k - 1], seq[k]>>]

\* There is such a function.
LEMMA StepsTaken ==
    ASSUME NEW R, NEW S, NEW step, \A x \in R, y \in S : step[<<x, y>>] \in R,
           NEW base \in R, NEW seq \in Seq(S)
    PROVE  \E f \in [0 .. Len(seq) -> R] : Goes(f, step, base, seq, Len(seq))
<1> DEFINE Steps(f, n) == Goes(f, step, base, seq, n)
           T == {n \in 0 .. Len(seq) : ~\E f \in [0 .. n -> R] : Steps(f, n)}
<1>1. Len(seq) \in Nat
    BY LenProperties
<1>2. SUFFICES T = {}
    <2> HIDE DEF Steps
    <2>1. Len(seq) \notin T /\ Len(seq) \in 0 .. Len(seq)
        BY <1>1, <1>2
    <2>2. \E f \in [0 .. Len(seq) -> R] : Steps(f, Len(seq))
        BY <2>1
    <2>3. QED
        BY <2>2 DEF Steps
<1> SUFFICES ASSUME T # {} PROVE FALSE
    OBVIOUS
<1>3. T \subseteq Nat
    <2> HIDE DEF Steps
    <2>1. QED
        BY <1>1
<1>4. PICK n \in T : \A m \in T : n <= m
    <2> HIDE DEF T
    <2>1. QED
        BY <1>3, LeastNumber
<1>5. n \in 0 .. Len(seq) /\ ~\E f \in [0 .. n -> R] : Steps(f, n)
    BY <1>4
<1>6. CASE n = 0
    <2> DEFINE f == [i \in 0 .. 0 |-> base]
    <2>1. f \in [0 .. 0 -> R] /\ Steps(f, 0)
        BY DEF Goes
    <2>2. QED
        BY <1>5, <1>6, <2>1
<1>7. CASE n # 0
    <2>1. n - 1 \in 0 .. Len(seq) /\ ~(n <= n - 1) /\ n \in 1 .. Len(seq)
        BY <1>1, <1>5, <1>7
    <2>2. n - 1 \notin T
        BY <1>4, <2>1
    <2>3. \E f \in [0 .. n - 1 -> R] : Steps(f, n - 1)
        BY <2>1, <2>2
    <2>4. PICK f \in [0 .. n - 1 -> R] : Steps(f, n - 1)
        BY <2>3
    <2> DEFINE g == [i \in 0 .. n |-> IF i = n THEN step[<<f[n - 1], seq[n]>>] ELSE f[i]]
    <2>5. f[n - 1] \in R /\ seq[n] \in S
        BY <2>1, <2>4, ElementOfSeq
    <2>6. step[<<f[n - 1], seq[n]>>] \in R
        BY <2>5
    <2>7. g \in [0 .. n -> R]
        BY <2>1, <2>6
    <2>8. g[0] = base
        BY <2>1, <2>4 DEF Goes
    <2>9. ASSUME NEW k \in 1 .. n PROVE g[k] = step[<<g[k - 1], seq[k]>>]
        <3>1. k - 1 \in 0 .. n /\ k - 1 # n /\ g[k - 1] = f[k - 1]
            BY <2>1
        <3>2. CASE k = n
            <4>1. n \in 0 .. n
                BY <2>1
            <4>2. g[n] = step[<<f[n - 1], seq[n]>>]
                BY <4>1, Zenon
            <4>3. QED
                BY <3>1, <3>2, <4>2
        <3>3. CASE k # n
            <4>1. k \in 1 .. n - 1 /\ g[k] = f[k]
                BY <2>1, <3>3
            <4>2. f[k] = step[<<f[k - 1], seq[k]>>]
                BY <2>4, <4>1 DEF Goes
            <4>3. QED
                BY <3>1, <4>1, <4>2
        <3>4. QED
            BY <3>2, <3>3
    <2>10. Steps(g, n)
        BY <2>8, <2>9 DEF Goes
    <2>11. QED
        BY <1>5, <2>7, <2>10
<1>8. QED
    BY <1>6, <1>7

\* Texts put behind each other one at a time.
LEMMA TextsAdded ==
    ASSUME NEW S, NEW s \in Seq(Seq(S))
    PROVE  \E f \in [0 .. Len(s) -> Seq(S)] :
              f[0] = <<>> /\ \A k \in 1 .. Len(s) : f[k] = f[k - 1] \o s[k]
<1> DEFINE step == [x \in Seq(S) \X Seq(S) |-> x[1] \o x[2]]
           R == Seq(S)
<1>1. \A x \in R, y \in R : x \o y \in R
    BY ConcatProperties
<1>2. <<>> \in R
    BY EmptySeq
<1>3. \A x \in R, y \in R : step[<<x, y>>] = x \o y
    OBVIOUS
<1>4. s \in Seq(R)
    OBVIOUS
<1> HIDE DEF step, R
<1>5. PICK f \in [0 .. Len(s) -> R] : Goes(f, step, <<>>, s, Len(s))
    <2>1. \A x \in R, y \in R : step[<<x, y>>] \in R
        BY <1>1, <1>3
    <2>2. QED
        BY <1>2, <1>4, <2>1, StepsTaken
<1>6. ASSUME NEW k \in 1 .. Len(s) PROVE f[k] = f[k - 1] \o s[k]
    <2>1. Len(s) \in Nat
        BY LenProperties
    <2>2. f[k - 1] \in R
        <3>1. k - 1 \in 0 .. Len(s)
            BY <2>1
        <3>2. QED
            BY <3>1
    <2>3. s[k] \in R
        BY <1>4, ElementOfSeq
    <2>4. f[k] = step[<<f[k - 1], s[k]>>]
        BY <1>5 DEF Goes
    <2>5. QED
        BY <1>3, <2>2, <2>3, <2>4
<1>7. f[0] = <<>>
    BY <1>5 DEF Goes
<1>8. QED
    BY <1>6, <1>7 DEF R

\* FlattenSeq is that.
LEMMA FlatIs ==
    ASSUME NEW S, NEW t \in Seq(Seq(S)), NEW f \in [0 .. Len(t) -> Seq(S)], f[0] = <<>>,
           \A k \in 1 .. Len(t) : f[k] = f[k - 1] \o t[k]
    PROVE  Flat(t) = f[Len(t)]
<1>1. Len(t) \in Nat
    BY LenProperties
<1>2. CASE Len(t) = 0
    <2>1. t = <<>>
        BY <1>2, EmptySeq
    <2>2. Flat(t) = t
        BY <1>2 DEF Flat, FlattenSeq
    <2>3. QED
        BY <1>2, <2>1, <2>2
<1>3. CASE Len(t) # 0
    <2> DEFINE n == Len(t)
               G(h) == [i \in 1 .. n |-> IF i = 1 THEN t[i] ELSE h[i - 1] \o t[i]]
               h == CHOOSE h : h = G(h)
               F == [i \in 1 .. n |-> f[i]]
    <2>1. Flat(t) = h[n]
        BY <1>3 DEF Flat, FlattenSeq
    <2> HIDE DEF n
    <2>2. F = G(F)
        <3>1. n \in Nat /\ n # 0
            BY <1>1, <1>3 DEF n
        <3>2. ASSUME NEW i \in 1 .. n PROVE F[i] = G(F)[i]
            <4>1. t[i] \in Seq(S)
                BY ElementOfSeq DEF n
            <4>2. CASE i = 1
                <5>1. f[1] = f[0] \o t[1]
                    <6>1. 1 \in 1 .. Len(t) /\ 1 - 1 = 0
                        BY <3>1 DEF n
                    <6>2. f[1] = f[1 - 1] \o t[1]
                        BY <6>1, Zenon
                    <6>3. QED
                        BY <6>1, <6>2
                <5>2. <<>> \o t[1] = t[1]
                    BY <4>1, <4>2, ConcatEmptySeq
                <5>3. F[i] = t[1] /\ G(F)[i] = t[1]
                    BY <4>2, <5>1, <5>2
                <5>4. QED
                    BY <5>3
            <4>3. CASE i # 1
                <5>1. i - 1 \in 1 .. n /\ f[i] = f[i - 1] \o t[i]
                    <6>1. i - 1 \in 1 .. n
                        BY <3>1, <4>3
                    <6>2. f[i] = f[i - 1] \o t[i]
                        BY Zenon DEF n
                    <6>3. QED
                        BY <6>1, <6>2
                <5>2. G(F)[i] = F[i - 1] \o t[i]
                    BY <4>3
                <5>3. F[i - 1] = f[i - 1] /\ F[i] = f[i]
                    BY <5>1
                <5>4. QED
                    BY <5>1, <5>2, <5>3
            <4>4. QED
                BY <4>2, <4>3
        <3>3. QED
            BY <3>2
    <2>3. h = G(h)
        <3> HIDE DEF F, G
        <3>1. \E x : x = G(x)
            BY <2>2
        <3>2. QED
            BY <3>1, Zenon
    <2> HIDE DEF h
    <2> DEFINE T == {i \in 1 .. n : h[i] # f[i]}
    <2>4. n \in Nat /\ n # 0
        BY <1>1, <1>3 DEF n
    <2>5. \A i \in 1 .. n : h[i] = IF i = 1 THEN t[i] ELSE h[i - 1] \o t[i]
        <3> DEFINE H == G(h)
        <3>1. \A i \in 1 .. n : H[i] = IF i = 1 THEN t[i] ELSE h[i - 1] \o t[i]
            OBVIOUS
        <3>2. h = H
            BY <2>3
        <3> HIDE DEF H
        <3>3. QED
            BY <3>1, <3>2
    <2>6. T = {}
        <3>1. SUFFICES ASSUME T # {} PROVE FALSE
            OBVIOUS
        <3>2. PICK i \in T : \A j \in T : i <= j
            <4>1. T \subseteq Nat
                OBVIOUS
            <4> HIDE DEF T
            <4>2. QED
                BY <3>1, <4>1, LeastNumber
        <3>3. i \in 1 .. n /\ h[i] # f[i]
            BY <3>2
        <3>4. f[i] = f[i - 1] \o t[i]
            BY <3>3 DEF n
        <3>5. CASE i = 1
            <4>1. t[1] \in Seq(S)
                BY <3>3, <3>5, ElementOfSeq DEF n
            <4>2. <<>> \o t[1] = t[1]
                BY <4>1, ConcatEmptySeq
            <4>3. h[1] = t[1]
                BY <2>5, <3>3, <3>5
            <4>4. i - 1 = 0
                BY <3>5
            <4>5. f[1] = t[1]
                BY <3>4, <3>5, <4>2, <4>4, Zenon
            <4>6. QED
                BY <3>3, <3>5, <4>3, <4>5, Zenon
        <3>6. CASE i # 1
            <4>1. i - 1 \in 1 .. n /\ ~(i <= i - 1)
                BY <2>4, <3>3, <3>6
            <4>2. i - 1 \notin T
                BY <3>2, <4>1
            <4>3. h[i - 1] = f[i - 1]
                BY <4>1, <4>2
            <4>4. h[i] = h[i - 1] \o t[i]
                BY <2>5, <3>3, <3>6
            <4>5. QED
                BY <3>3, <3>4, <4>3, <4>4
        <3>7. QED
            BY <3>5, <3>6
    <2>7. h[n] = f[n]
        BY <2>4, <2>6
    <2>8. QED
        BY <2>1, <2>7 DEF n
<1>4. QED
    BY <1>2, <1>3

\* The last of a set of numbers is its greatest.
LEMMA LastIsMax ==
    ASSUME NEW n \in Nat, NEW s \in SUBSET (1 .. n), n \in s
    PROVE  Max(s) = n
<1>1. \A y \in s : y \in Nat /\ n >= y
    OBVIOUS
<1>2. \E x \in s : \A y \in s : x >= y
    BY <1>1
<1>3. Max(s) \in s /\ \A y \in s : Max(s) >= y
    BY <1>2, Zenon DEF Max
<1>4. Max(s) \in Nat /\ Max(s) >= n /\ n >= Max(s)
    BY <1>1, <1>3
<1>5. QED
    BY <1>4

\* What FoldLeft makes of the places in s, given what it makes of fewer
Folded(g, step, base, seq, n) ==
    [s \in SUBSET (1 .. n) |->
       IF s = {} THEN base ELSE step[<<g[s \ {Max(s)}], seq[Max(s)]>>]]

\* There is a function that folds every set of places of a sequence.
LEMMA FoldExists ==
    ASSUME NEW step, NEW base, NEW seq, NEW n \in Nat
    PROVE  \E g : g = Folded(g, step, base, seq, n)
<1> DEFINE Next1(g, m) == Folded(g, step, base, seq, m)
           Has(m) == \E g : g = Next1(g, m)
           T == {m \in Nat : ~Has(m)}
<1>1. SUFFICES T = {}
    <2>1. Has(n)
        <3> HIDE DEF Has
        <3>1. QED
            BY <1>1
    <2>2. QED
        BY <2>1
<1> SUFFICES ASSUME T # {} PROVE FALSE
    OBVIOUS
<1>2. PICK m \in T : \A k \in T : m <= k
    <2>1. T \subseteq Nat
        <3> HIDE DEF Has
        <3>1. QED
            OBVIOUS
    <2> HIDE DEF T
    <2>2. QED
        BY <2>1, LeastNumber
<1>3. m \in Nat /\ ~Has(m)
    <2> HIDE DEF Has
    <2>1. QED
        BY <1>2
<1>4. CASE m = 0
    <2> DEFINE g == [s \in SUBSET (1 .. 0) |-> base]
    <2>1. \A s \in SUBSET (1 .. 0) : s = {}
        OBVIOUS
    <2>2. g = Next1(g, 0)
        <3> DEFINE h == Next1(g, 0)
        <3>1. \A s \in SUBSET (1 .. 0) : h[s] = base
            BY <2>1 DEF Folded
        <3>2. h = [s \in SUBSET (1 .. 0) |-> h[s]]
            BY DEF Folded
        <3> HIDE DEF h
        <3>3. h = g
            BY <3>1, <3>2
        <3>4. QED
            BY <3>3 DEF h
    <2> HIDE DEF g, Next1
    <2>3. QED
        BY <1>3, <1>4, <2>2
<1>5. CASE m # 0
    <2>1. m - 1 \in Nat /\ ~(m <= m - 1)
        BY <1>3, <1>5
    <2>2. Has(m - 1)
        <3> HIDE DEF Has
        <3>1. QED
            BY <1>2, <2>1
    <2>3. PICK g : g = Next1(g, m - 1)
        BY <2>2
    <2> DEFINE f == [s \in SUBSET (1 .. m) |->
                       IF m \in s THEN step[<<g[s \ {m}], seq[m]>>] ELSE g[s]]
    <2>4. \A s \in SUBSET (1 .. m - 1) :
            g[s] = IF s = {} THEN base ELSE step[<<g[s \ {Max(s)}], seq[Max(s)]>>]
        <3> DEFINE h == Next1(g, m - 1)
        <3>1. \A s \in SUBSET (1 .. m - 1) :
                h[s] = IF s = {} THEN base ELSE step[<<g[s \ {Max(s)}], seq[Max(s)]>>]
            BY DEF Folded
        <3>2. g = h
            BY <2>3
        <3> HIDE DEF h
        <3>3. QED
            BY <3>1, <3>2
    <2>5. ASSUME NEW s \in SUBSET (1 .. m)
          PROVE  f[s] = IF s = {} THEN base ELSE step[<<f[s \ {Max(s)}], seq[Max(s)]>>]
        <3>1. \A x : s \ {x} \in SUBSET (1 .. m)
            OBVIOUS
        <3>2. CASE m \in s
            <4>1. Max(s) = m
                BY <1>3, <3>2, LastIsMax
            <4>2. f[s \ {m}] = g[s \ {m}]
                <5>1. m \notin s \ {m}
                    OBVIOUS
                <5>2. QED
                    BY <3>1, <5>1
            <4>3. f[s] = step[<<g[s \ {m}], seq[m]>>]
                BY <3>2
            <4>4. QED
                BY <3>2, <4>1, <4>2, <4>3
        <3>3. CASE m \notin s
            <4>1. s \in SUBSET (1 .. m - 1)
                BY <1>3, <3>3
            <4>2. f[s] = g[s]
                BY <3>3
            <4>3. f[s \ {Max(s)}] = g[s \ {Max(s)}]
                BY <3>1, <3>3
            <4> HIDE DEF f
            <4>4. QED
                BY <2>4, <4>1, <4>2, <4>3
        <3>4. QED
            BY <3>2, <3>3
    <2>6. f = Next1(f, m)
        <3> DEFINE h == Next1(f, m)
        <3>1. \A s \in SUBSET (1 .. m) :
                h[s] = IF s = {} THEN base ELSE step[<<f[s \ {Max(s)}], seq[Max(s)]>>]
            BY DEF Folded
        <3>2. h = [s \in SUBSET (1 .. m) |-> h[s]] /\ f = [s \in SUBSET (1 .. m) |-> f[s]]
            BY DEF Folded
        <3> HIDE DEF f, h
        <3>3. \A s \in SUBSET (1 .. m) : f[s] = h[s]
            BY <2>5, <3>1
        <3>4. f = h
            BY <3>2, <3>3
        <3>5. QED
            BY <3>4 DEF h
    <2> HIDE DEF f, Next1
    <2>7. QED
        BY <1>3, <2>6
<1>6. QED
    BY <1>4, <1>5

\* A fold with a step that is a function
FoldedBy(step, base, seq) == FoldLeft(LAMBDA done, c : step[<<done, c>>], base, seq)

\* FoldLeft goes through a sequence from its first item to its last.
LEMMA FoldIs ==
    ASSUME NEW step, NEW base, NEW S, NEW seq \in Seq(S), NEW f, f[0] = base,
           \A k \in 1 .. Len(seq) : f[k] = step[<<f[k - 1], seq[k]>>]
    PROVE  FoldedBy(step, base, seq) = f[Len(seq)]
<1> DEFINE n == Len(seq)
           G(h) == Folded(h, step, base, seq, n)
           g == CHOOSE h : h = G(h)
<1>1. n \in Nat /\ DOMAIN seq = 1 .. n
    BY LenProperties
<1>2. FoldedBy(step, base, seq) = g[1 .. n]
    BY <1>1 DEF FoldedBy, FoldLeft, MapThenFoldSet, Folded
<1>3. \E h : h = G(h)
    BY <1>1, FoldExists
<1>4. g = G(g)
    BY <1>3, Zenon
<1> HIDE DEF g
<1>5. \A s \in SUBSET (1 .. n) :
        g[s] = IF s = {} THEN base ELSE step[<<g[s \ {Max(s)}], seq[Max(s)]>>]
    <2> DEFINE h == G(g)
    <2>1. \A s \in SUBSET (1 .. n) :
            h[s] = IF s = {} THEN base ELSE step[<<g[s \ {Max(s)}], seq[Max(s)]>>]
        BY DEF Folded
    <2>2. g = h
        BY <1>4
    <2> HIDE DEF h
    <2>3. QED
        BY <2>1, <2>2
<1> DEFINE T == {k \in 0 .. n : g[1 .. k] # f[k]}
<1>6. T = {}
    <2>1. SUFFICES ASSUME T # {} PROVE FALSE
        OBVIOUS
    <2>2. PICK k \in T : \A j \in T : k <= j
        <3>1. T \subseteq Nat
            BY <1>1
        <3> HIDE DEF T
        <3>2. QED
            BY <2>1, <3>1, LeastNumber
    <2>3. k \in 0 .. n /\ k \in Nat /\ g[1 .. k] # f[k]
        BY <1>1, <2>2
    <2>4. 1 .. k \in SUBSET (1 .. n)
        BY <1>1, <2>3
    <2>5. CASE k = 0
        <3>1. 1 .. k = {}
            BY <2>5
        <3>2. g[1 .. k] = base
            BY <1>5, <2>4, <3>1
        <3>3. QED
            BY <2>3, <2>5, <3>2
    <2>6. CASE k # 0
        <3>1. k - 1 \in 0 .. n /\ ~(k <= k - 1) /\ k \in 1 .. k /\ k \in 1 .. n
            BY <1>1, <2>3, <2>6
        <3>2. k - 1 \notin T
            BY <2>2, <3>1
        <3>3. g[1 .. k - 1] = f[k - 1]
            BY <3>1, <3>2
        <3>4. Max(1 .. k) = k
            BY <2>3, <3>1, LastIsMax
        <3>5. (1 .. k) \ {k} = 1 .. k - 1 /\ 1 .. k # {}
            <4>1. \A i : i \in (1 .. k) \ {k} <=> i \in 1 .. k - 1
                BY <2>3, <3>1
            <4>2. QED
                BY <3>1, <4>1
        <3> DEFINE s == 1 .. k
        <3>. HIDE DEF s
        <3>6. g[1 .. k] = step[<<g[1 .. k - 1], seq[k]>>]
            <4>1. s \in SUBSET (1 .. n) /\ s # {} /\ Max(s) = k /\ s \ {k} = 1 .. k - 1
                BY <2>4, <3>4, <3>5 DEF s
            <4>2. g[s] = step[<<g[s \ {k}], seq[k]>>]
                BY <1>5, <4>1
            <4>3. QED
                BY <4>1, <4>2 DEF s
        <3>7. f[k] = step[<<f[k - 1], seq[k]>>]
            BY <3>1
        <3>8. QED
            BY <2>3, <3>3, <3>6, <3>7
    <2>7. QED
        BY <2>5, <2>6
<1>7. g[1 .. n] = f[n]
    BY <1>1, <1>6
<1>8. QED
    BY <1>2, <1>7

-----------------------------------------------------------------------------
(* Texts in a row                                                          *)

\* The texts of a list in a row, after each of them.
LEMMA FlatSteps ==
    ASSUME NEW S, NEW s \in Seq(Seq(S))
    PROVE  \E f \in [0 .. Len(s) -> Seq(S)] :
              /\ f[0] = <<>>
              /\ \A k \in 1 .. Len(s) : f[k] = f[k - 1] \o s[k]
              /\ \A k \in 0 .. Len(s) : Flat(SubSeq(s, 1, k)) = f[k]
<1>1. PICK f \in [0 .. Len(s) -> Seq(S)] :
         f[0] = <<>> /\ \A k \in 1 .. Len(s) : f[k] = f[k - 1] \o s[k]
    BY TextsAdded
<1>2. Len(s) \in Nat
    BY LenProperties
<1>3. ASSUME NEW k \in 0 .. Len(s) PROVE Flat(SubSeq(s, 1, k)) = f[k]
    <2> DEFINE t == SubSeq(s, 1, k)
               F == [i \in 0 .. k |-> f[i]]
    <2>1. t \in Seq(Seq(S)) /\ Len(t) = k /\ \A i \in 1 .. k : t[i] = s[i]
        BY TakeIs
    <2>2. k \in Nat /\ F \in [0 .. k -> Seq(S)] /\ F[0] = <<>> /\ F[k] = f[k]
        <3>1. k \in Nat /\ 0 \in 0 .. k /\ k \in 0 .. k
            BY <1>2
        <3>2. \A i \in 0 .. k : f[i] \in Seq(S)
            BY <1>2
        <3>3. F \in [0 .. k -> Seq(S)]
            BY <3>2
        <3>4. F[0] = f[0] /\ F[k] = f[k]
            BY <3>1, Zenon
        <3>5. QED
            BY <1>1, <3>1, <3>3, <3>4, Zenon
    <2>3. ASSUME NEW i \in 1 .. k PROVE F[i] = F[i - 1] \o t[i]
        <3>1. i \in 1 .. Len(s) /\ i \in 0 .. k /\ i - 1 \in 0 .. k
            BY <1>2
        <3>2. f[i] = f[i - 1] \o s[i]
            BY <1>1, <3>1
        <3>3. F[i] = f[i] /\ F[i - 1] = f[i - 1] /\ t[i] = s[i]
            BY <2>1, <3>1
        <3>4. QED
            BY <3>2, <3>3
    <2> HIDE DEF t, F
    <2>4. Flat(t) = F[k]
        BY <2>1, <2>2, <2>3, FlatIs
    <2>5. QED
        BY <2>2, <2>4 DEF t
<1>4. QED
    BY <1>1, <1>3

\* No texts, no text; and one more text is put behind the others.
LEMMA FlatAppend ==
    ASSUME NEW S, NEW s \in Seq(Seq(S)), NEW e \in Seq(S)
    PROVE  /\ Flat(s) \in Seq(S)
           /\ Flat(Append(s, e)) = Flat(s) \o e
           /\ s = <<>> => Flat(s) = <<>>
<1> DEFINE u == Append(s, e)
           n == Len(s)
<1>1. n \in Nat
    BY LenProperties
<1>2. /\ u \in Seq(Seq(S)) /\ Len(u) = n + 1
      /\ \A i \in 1 .. n : u[i] = s[i]
      /\ u[n + 1] = e
    BY AppendProperties
<1>3. PICK f \in [0 .. Len(u) -> Seq(S)] :
         /\ f[0] = <<>>
         /\ \A k \in 1 .. Len(u) : f[k] = f[k - 1] \o u[k]
         /\ \A k \in 0 .. Len(u) : Flat(SubSeq(u, 1, k)) = f[k]
    <2> HIDE DEF u
    <2>1. u \in Seq(Seq(S))
        BY <1>2
    <2>2. QED
        BY <2>1, FlatSteps
<1> HIDE DEF u, n
<1>4. n \in 0 .. Len(u) /\ n + 1 \in 1 .. Len(u) /\ n + 1 \in 0 .. Len(u) /\ (n + 1) - 1 = n
    BY <1>1, <1>2
<1>5. SubSeq(u, 1, n + 1) = u
    BY <1>2, SubSeqFull
<1>6. SubSeq(u, 1, n) = s
    <2>1. SubSeq(u, 1, n) \in Seq(Seq(S)) /\ Len(SubSeq(u, 1, n)) = n
          /\ \A i \in 1 .. n : SubSeq(u, 1, n)[i] = u[i]
        BY <1>2, <1>4, TakeIs
    <2>2. \A i \in 1 .. n : SubSeq(u, 1, n)[i] = s[i]
        BY <1>2, <2>1
    <2>3. Len(s) = n
        BY DEF n
    <2>4. QED
        BY <2>1, <2>2, <2>3, SeqEqual
<1>7. Flat(s) = f[n] /\ Flat(u) = f[n + 1]
    BY <1>3, <1>4, <1>5, <1>6, Zenon
<1>8. f[n + 1] = f[n] \o e
    BY <1>2, <1>3, <1>4, Zenon
<1>9. f[n] \in Seq(S)
    BY <1>3, <1>4
<1>10. s = <<>> => n = 0
    BY EmptySeq DEF n
<1>11. QED
    BY <1>3, <1>7, <1>8, <1>9, <1>10 DEF u

\* The first texts in a row are the beginning of all of them in a row.
LEMMA FlatPrefix ==
    ASSUME NEW S, NEW s \in Seq(Seq(S)), NEW k \in 0 .. Len(s)
    PROVE  /\ Flat(SubSeq(s, 1, k)) \in Seq(S)
           /\ \E r \in Seq(S) : Flat(s) = Flat(SubSeq(s, 1, k)) \o r
<1>1. PICK f \in [0 .. Len(s) -> Seq(S)] :
         /\ f[0] = <<>>
         /\ \A j \in 1 .. Len(s) : f[j] = f[j - 1] \o s[j]
         /\ \A j \in 0 .. Len(s) : Flat(SubSeq(s, 1, j)) = f[j]
    BY FlatSteps
<1>2. Len(s) \in Nat /\ k \in Nat
    BY LenProperties
<1> DEFINE Begins(j) == \E r \in Seq(S) : f[j] = f[k] \o r
           T == {j \in k .. Len(s) : ~Begins(j)}
<1>3. T = {}
    <2>1. SUFFICES ASSUME T # {} PROVE FALSE
        OBVIOUS
    <2>2. PICK j \in T : \A i \in T : j <= i
        <3>1. T \subseteq Nat
            <4> HIDE DEF Begins
            <4>1. QED
                BY <1>2
        <3> HIDE DEF T
        <3>2. QED
            BY <2>1, <3>1, LeastNumber
    <2>3. j \in k .. Len(s) /\ ~Begins(j)
        OBVIOUS
    <2>4. f[k] \in Seq(S)
        BY <1>1
    <2>5. CASE j = k
        <3>1. f[j] = f[k] \o <<>> /\ <<>> \in Seq(S)
            BY <2>4, <2>5, ConcatEmptySeq, EmptySeq
        <3>2. QED
            BY <2>3, <3>1
    <2>6. CASE j # k
        <3>1. j - 1 \in k .. Len(s) /\ ~(j <= j - 1) /\ j \in 1 .. Len(s)
            BY <1>2, <2>3, <2>6
        <3>2. j - 1 \notin T
            BY <2>2, <3>1
        <3>3. PICK r \in Seq(S) : f[j - 1] = f[k] \o r
            BY <3>1, <3>2
        <3>4. s[j] \in Seq(S)
            BY <3>1, ElementOfSeq
        <3>5. f[j] = f[j - 1] \o s[j]
            BY <1>1, <3>1
        <3>6. f[j] = f[k] \o (r \o s[j])
            <4> DEFINE x == f[k]
                       y == s[j]
            <4>. HIDE DEF x, y
            <4>0. x \in Seq(S) /\ y \in Seq(S)
                BY <2>4, <3>4 DEF x, y
            <4>1. (x \o r) \o y = x \o (r \o y)
                BY <4>0, ConcatAssociative
            <4>2. QED
                BY <3>3, <3>5, <4>1 DEF x, y
        <3>7. r \o s[j] \in Seq(S)
            BY <3>4, ConcatProperties
        <3>8. QED
            BY <2>3, <3>6, <3>7
    <2>7. QED
        BY <2>5, <2>6
<1>4. Begins(Len(s))
    <2> HIDE DEF Begins
    <2>1. QED
        BY <1>2, <1>3
<1>5. SubSeq(s, 1, Len(s)) = s
    BY SubSeqFull
<1>6. Flat(s) = f[Len(s)] /\ Flat(SubSeq(s, 1, k)) = f[k] /\ f[k] \in Seq(S)
    <2>1. Len(s) \in 0 .. Len(s)
        BY <1>2
    <2>2. Flat(s) = f[Len(s)] /\ Flat(SubSeq(s, 1, k)) = f[k]
        BY <1>1, <1>5, <2>1, Zenon
    <2>3. QED
        BY <2>2
<1>7. QED
    BY <1>4, <1>6

-----------------------------------------------------------------------------
(* Buffers                                                                 *)

\* What there is to know of a buffer, and of the bytes to be read from it.
LEMMA BufferIs ==
    ASSUME NEW D, NEW n \in Nat, NEW b \in Buffer(D, n)
    PROVE  /\ b.data \in [0 .. n - 1 -> D] /\ b.limit = n
           /\ b.read \in Nat /\ b.write \in Nat /\ b.read <= b.write /\ b.write <= n
           /\ Unread(b) \in Seq(D)
           /\ Len(Unread(b)) = b.write - b.read
           /\ \A i \in 1 .. b.write - b.read : Unread(b)[i] = b.data[b.read + i - 1]
<1>1. /\ b.data \in [0 .. n - 1 -> D] /\ b.limit = n
      /\ b.read \in 0 .. n /\ b.write \in 0 .. n /\ b.read <= b.write
    BY DEF Buffer
<1> DEFINE k == b.write - b.read
<1>2. k \in Nat
    BY <1>1
<1>3. \A i \in 1 .. k : b.read + i - 1 \in 0 .. n - 1
    BY <1>1
<1>4. Unread(b) \in [1 .. k -> D] /\ \A i \in 1 .. k : Unread(b)[i] = b.data[b.read + i - 1]
    BY <1>1, <1>3 DEF Unread
<1> HIDE DEF k
<1>5. Unread(b) \in Seq(D)
    BY <1>2, <1>4, SeqDef
<1>6. Len(Unread(b)) = k
    BY <1>2, <1>4, <1>5, LenProperties
<1>7. QED
    BY <1>1, <1>4, <1>5, <1>6 DEF k

\* A buffer in its first state is empty.
LEMMA NewBufferIs ==
    ASSUME NEW D, NEW n \in Nat, NEW byte \in D
    PROVE  /\ buffer_init(n, byte) \in Buffer(D, n)
           /\ buffer_init(n, byte).read = 0 /\ buffer_init(n, byte).write = 0
<1> DEFINE b == buffer_init(n, byte)
<1>1. b = [data |-> [i \in 0 .. n - 1 |-> byte], limit |-> n, read |-> 0, write |-> 0]
    <2> DEFINE data == [i \in 0 .. n - 1 |-> byte]
    <2>1. b = buffer_reset([data |-> data, limit |-> n, read |-> 0, write |-> 0])
        BY DEF buffer_init
    <2> HIDE DEF data, b
    <2>2. b = [data |-> data, limit |-> n, read |-> 0, write |-> 0]
        BY <2>1 DEF buffer_reset
    <2>3. QED
        BY <2>2 DEF data
<1>2. [i \in 0 .. n - 1 |-> byte] \in [0 .. n - 1 -> D]
    OBVIOUS
<1> HIDE DEF b
<1>3. b \in Buffer(D, n) /\ b.read = 0 /\ b.write = 0
    BY <1>1, <1>2 DEF Buffer
<1>4. QED
    BY <1>3 DEF b

\* Nothing is to be read from a buffer whose places are the same.
LEMMA NothingToRead ==
    ASSUME NEW D, NEW n \in Nat, NEW b \in Buffer(D, n)
    PROVE  /\ b.read = b.write <=> Unread(b) = <<>>
           /\ buffer_can_read(b) <=> Unread(b) # <<>>
<1>1. /\ b.read \in Nat /\ b.write \in Nat /\ b.read <= b.write
      /\ Unread(b) \in Seq(D) /\ Len(Unread(b)) = b.write - b.read
    BY BufferIs
<1>2. Unread(b) = <<>> <=> Len(Unread(b)) = 0
    BY <1>1, EmptySeq
<1>3. b.read = b.write <=> b.write - b.read = 0
    BY <1>1
<1>4. buffer_can_read(b) <=> b.write - b.read # 0
    BY <1>1 DEF buffer_can_read
<1>5. QED
    BY <1>1, <1>2, <1>3, <1>4

\* What is put into a buffer is read from it behind what was there.
LEMMA FilledIs ==
    ASSUME NEW D, NEW n \in Nat, NEW b \in Buffer(D, n), NEW s \in Seq(D), Len(s) <= Room(b)
    PROVE  /\ Filled(b, s) \in Buffer(D, n)
           /\ Filled(b, s).read = b.read
           /\ Filled(b, s).write = b.write + Len(s)
           /\ Unread(Filled(b, s)) = Unread(b) \o s
<1> DEFINE r == Filled(b, s)
           data == [i \in 0 .. n - 1 |-> IF i \in b.write .. b.write + Len(s) - 1
                                         THEN s[i - b.write + 1] ELSE b.data[i]]
<1>1. /\ b.data \in [0 .. n - 1 -> D] /\ b.limit = n
      /\ b.read \in Nat /\ b.write \in Nat /\ b.read <= b.write /\ b.write <= n
      /\ Unread(b) \in Seq(D)
      /\ Len(Unread(b)) = b.write - b.read
      /\ \A i \in 1 .. b.write - b.read : Unread(b)[i] = b.data[b.read + i - 1]
    BY BufferIs
<1>2. Len(s) \in Nat /\ b.write + Len(s) <= n
    BY <1>1, LenProperties DEF Room
<1>a. /\ b.read \in Nat /\ b.write \in Nat /\ Len(s) \in Nat
      /\ b.read <= b.write /\ b.write + Len(s) <= n
    BY <1>1, <1>2
<1>3. b = [data |-> b.data, limit |-> b.limit, read |-> b.read, write |-> b.write]
    BY DEF Buffer
<1>4. r = [data |-> data, limit |-> n, read |-> b.read, write |-> b.write + Len(s)]
    <2>1. Len(s) > -1
        BY <1>2
    <2>2. DOMAIN b.data = 0 .. n - 1
        BY <1>1
    <2>3. QED
        BY <1>1, <1>3, <2>1, <2>2 DEF Filled, buffer_write_adv
<1>5. ASSUME NEW i \in 0 .. n - 1
      PROVE  data[i] \in D
    <2>1. CASE i \in b.write .. b.write + Len(s) - 1
        <3>1. i - b.write + 1 \in 1 .. Len(s)
            BY <1>1, <1>2, <2>1
        <3>2. s[i - b.write + 1] \in D
            BY <3>1, ElementOfSeq
        <3>3. QED
            BY <2>1, <3>2
    <2>2. CASE i \notin b.write .. b.write + Len(s) - 1
        BY <1>1, <2>2
    <2>3. QED
        BY <2>1, <2>2
<1>6. data \in [0 .. n - 1 -> D]
    BY <1>5
<1>7. /\ \A i \in 0 .. n - 1 : ~(i < b.write) /\ i < b.write + Len(s) =>
                                 data[i] = s[i - b.write + 1]
      /\ \A i \in 0 .. n - 1 : i < b.write => data[i] = b.data[i]
    <2>1. ASSUME NEW i \in 0 .. n - 1, ~(i < b.write), i < b.write + Len(s)
          PROVE  data[i] = s[i - b.write + 1]
        <3>1. i \in b.write .. b.write + Len(s) - 1
            BY <1>a, <2>1
        <3>2. QED
            BY <3>1
    <2>2. ASSUME NEW i \in 0 .. n - 1, i < b.write PROVE data[i] = b.data[i]
        <3>1. i \notin b.write .. b.write + Len(s) - 1
            BY <1>a, <2>2
        <3>2. QED
            BY <3>1
    <2>3. QED
        BY <2>1, <2>2
<1> HIDE DEF r, data
<1>8. r \in Buffer(D, n) /\ r.read = b.read /\ r.write = b.write + Len(s) /\ r.data = data
    BY <1>1, <1>2, <1>4, <1>6 DEF Buffer
<1>9. /\ Unread(r) \in Seq(D)
      /\ Len(Unread(r)) = (b.write + Len(s)) - b.read
      /\ \A i \in 1 .. (b.write + Len(s)) - b.read : Unread(r)[i] = data[b.read + i - 1]
    BY <1>8, BufferIs
<1> DEFINE u == Unread(b)
           v == Unread(r)
<1>10. /\ u \o s \in Seq(D)
       /\ Len(u \o s) = Len(u) + Len(s)
       /\ \A i \in 1 .. Len(u) + Len(s) : (u \o s)[i] = IF i <= Len(u) THEN u[i] ELSE s[i - Len(u)]
    BY <1>1, ConcatProperties
<1>11. v \in Seq(D) /\ Len(v) = Len(u \o s)
    BY <1>1, <1>2, <1>9, <1>10
<1>12. ASSUME NEW i \in 1 .. Len(v) PROVE v[i] = (u \o s)[i]
    <2>a. Len(u) = b.write - b.read /\ Len(v) = (b.write + Len(s)) - b.read
        BY <1>1, <1>9
    <2> HIDE DEF u, v
    <2>b. i \in 1 .. (b.write + Len(s)) - b.read
        BY <2>a
    <2>1. /\ i \in Nat /\ i \in 1 .. Len(u) + Len(s) /\ i \in 1 .. (b.write + Len(s)) - b.read
          /\ b.read + i - 1 \in 0 .. n - 1
        BY <1>a, <2>a, <2>b
    <2>2. v[i] = data[b.read + i - 1]
        BY <1>9, <2>1 DEF v
    <2>3. CASE i <= Len(u)
        <3>1. i \in 1 .. b.write - b.read /\ b.read + i - 1 < b.write
            BY <1>a, <2>a, <2>1, <2>3
        <3>2. u[i] = b.data[b.read + i - 1]
            BY <1>1, <3>1 DEF u
        <3>3. data[b.read + i - 1] = b.data[b.read + i - 1]
            BY <1>7, <2>1, <3>1
        <3>4. (u \o s)[i] = u[i]
            BY <1>10, <2>1, <2>3 DEF u
        <3>5. QED
            BY <2>2, <3>2, <3>3, <3>4
    <2>4. CASE ~(i <= Len(u))
        <3>1. ~(b.read + i - 1 < b.write) /\ b.read + i - 1 < b.write + Len(s)
            BY <1>a, <2>a, <2>1, <2>4
        <3>2. data[b.read + i - 1] = s[(b.read + i - 1) - b.write + 1]
            BY <1>7, <2>1, <3>1
        <3>3. (b.read + i - 1) - b.write + 1 = i - Len(u)
            BY <1>a, <2>a, <2>1
        <3>4. (u \o s)[i] = s[i - Len(u)]
            BY <1>10, <2>1, <2>4 DEF u
        <3>5. QED
            BY <2>2, <3>2, <3>3, <3>4
    <2>5. QED
        BY <2>3, <2>4
<1>13. v = u \o s
    <2> HIDE DEF u, v
    <2>1. QED
        BY <1>10, <1>11, <1>12, SeqEqual
<1>14. QED
    BY <1>8, <1>13 DEF r

\* What is taken from a buffer is taken from the front, and what is read to
\* the end starts again.
LEMMA ReadAdvIs ==
    ASSUME NEW D, NEW n \in Nat, NEW b \in Buffer(D, n), NEW k \in 0 .. Len(Unread(b))
    PROVE  /\ buffer_read_adv(b, k) \in Buffer(D, n)
           /\ Unread(buffer_read_adv(b, k)) = Drop(Unread(b), k)
           /\ buffer_read_adv(b, k).write <= b.write
           /\ buffer_read_adv(b, k).read = buffer_read_adv(b, k).write
                => buffer_read_adv(b, k).write = 0
<1> DEFINE r == buffer_read_adv(b, k)
           u == Unread(b)
           v == Unread(r)
<1>1. /\ b.data \in [0 .. n - 1 -> D] /\ b.limit = n
      /\ b.read \in Nat /\ b.write \in Nat /\ b.read <= b.write /\ b.write <= n
      /\ u \in Seq(D)
      /\ Len(u) = b.write - b.read
      /\ \A i \in 1 .. b.write - b.read : u[i] = b.data[b.read + i - 1]
    BY BufferIs
<1>2. k \in Nat /\ k > -1 /\ b.read + k <= b.write
    BY <1>1
<1>3. b = [data |-> b.data, limit |-> b.limit, read |-> b.read, write |-> b.write]
    BY DEF Buffer
<1>4. /\ Drop(u, k) \in Seq(D)
      /\ Len(Drop(u, k)) = Len(u) - k
      /\ \A i \in 1 .. Len(u) - k : Drop(u, k)[i] = u[k + i]
    BY <1>1, DropIs
<1> DEFINE m == [data |-> b.data, limit |-> n, read |-> b.read + k, write |-> b.write]
<1>5. m = [b EXCEPT !.read = b.read + k]
    <2> DEFINE place == b.read + k
    <2> HIDE DEF place
    <2>1. [b EXCEPT !.read = place] =
            [data |-> b.data, limit |-> b.limit, read |-> place, write |-> b.write]
        BY <1>3
    <2>2. QED
        BY <1>1, <2>1 DEF place
<1>6. r = IF b.read + k = b.write THEN buffer_compact(m) ELSE m
    BY <1>1, <1>2, <1>5 DEF buffer_read_adv
<1>7. CASE b.read + k = b.write
    <2>1. r = buffer_compact(m)
        BY <1>6, <1>7
    <2>2. r.data \in [0 .. n - 1 -> D] /\ r = [data |-> r.data, limit |-> n, read |-> 0, write |-> 0]
        <3>1. CASE m.read = 0
            <4>1. b.read + k = 0
                BY <3>1
            <4>2. r = m /\ b.write = 0
                BY <1>7, <2>1, <4>1 DEF buffer_compact
            <4> HIDE DEF r
            <4>3. r = [data |-> b.data, limit |-> n, read |-> 0, write |-> 0]
                BY <4>1, <4>2
            <4>4. QED
                BY <1>1, <4>3
        <3>2. CASE m.read # 0
            <4> DEFINE data == [i \in DOMAIN m.data |->
                                  IF i < m.write - m.read THEN m.data[m.read + i] ELSE m.data[i]]
            <4>1. m.write - m.read = 0
                BY <1>1, <1>2, <1>7
            <4>2. DOMAIN m.data = 0 .. n - 1
                BY <1>1
            <4>3. \A i \in 0 .. n - 1 : data[i] = b.data[i]
                BY <1>1, <4>1, <4>2
            <4>4. data \in [0 .. n - 1 -> D]
                BY <1>1, <4>2, <4>3
            <4>5. r = [m EXCEPT !.data = data, !.read = 0, !.write = m.write - m.read]
                BY <2>1, <3>2 DEF buffer_compact
            <4> HIDE DEF data
            <4>6. r = [data |-> data, limit |-> n, read |-> 0, write |-> 0]
                BY <4>1, <4>5
            <4>7. QED
                BY <4>4, <4>6
        <3>3. QED
            BY <3>1, <3>2
    <2> HIDE DEF r, u
    <2>3. r \in Buffer(D, n) /\ r.read = 0 /\ r.write = 0
        BY <2>2 DEF Buffer
    <2>4. v = <<>>
        BY <2>3, NothingToRead
    <2>5. Len(Drop(u, k)) = 0
        BY <1>1, <1>2, <1>4, <1>7
    <2>6. Drop(u, k) = <<>>
        BY <1>4, <2>5, EmptySeq
    <2>7. QED
        BY <1>1, <2>3, <2>4, <2>6 DEF r, u
<1>8. CASE b.read + k # b.write
    <2>1. r = m
        BY <1>6, <1>8
    <2> HIDE DEF r, u
    <2>2. r \in Buffer(D, n) /\ r.read = b.read + k /\ r.write = b.write /\ r.data = b.data
        BY <1>1, <1>2, <2>1 DEF Buffer
    <2>3. /\ v \in Seq(D)
          /\ Len(v) = b.write - (b.read + k)
          /\ \A i \in 1 .. b.write - (b.read + k) : v[i] = b.data[(b.read + k) + i - 1]
        BY <2>2, BufferIs
    <2> HIDE DEF v
    <2>4. Len(v) = Len(Drop(u, k))
        BY <1>1, <1>2, <1>4, <2>3
    <2>5. ASSUME NEW i \in 1 .. Len(v) PROVE v[i] = Drop(u, k)[i]
        <3>1. /\ i \in 1 .. Len(u) - k /\ k + i \in 1 .. b.write - b.read
              /\ b.read + (k + i) - 1 = (b.read + k) + i - 1
              /\ i \in 1 .. b.write - (b.read + k)
            BY <1>1, <1>2, <2>3
        <3>2. Drop(u, k)[i] = u[k + i]
            BY <1>4, <3>1
        <3>3. u[k + i] = b.data[b.read + (k + i) - 1]
            BY <1>1, <3>1
        <3>4. v[i] = b.data[(b.read + k) + i - 1]
            BY <2>3, <3>1
        <3>5. QED
            BY <3>1, <3>2, <3>3, <3>4
    <2>6. v = Drop(u, k)
        BY <1>4, <2>3, <2>4, <2>5, SeqEqual
    <2>7. QED
        BY <1>1, <1>8, <2>2, <2>6 DEF r, u, v
<1>9. QED
    BY <1>7, <1>8

\* An answer shorter than an empty buffer is put there, with room to spare.
LEMMA WrittenIs ==
    ASSUME NEW n \in Nat, NEW b \in Buffer(Byte, n), b.read = 0, b.write = 0,
           NEW msg \in Seq(Byte), Len(msg) < n
    PROVE  /\ write_in_buffer(b, msg) \in Buffer(Byte, n)
           /\ Unread(write_in_buffer(b, msg)) = msg
           /\ write_in_buffer(b, msg).write < n
<1> DEFINE f == Filled(b, msg)
           r == write_in_buffer(b, msg)
<1>1. Room(b) = n /\ Len(msg) \in Nat
    BY BufferIs, LenProperties DEF Room
<1>2. /\ f \in Buffer(Byte, n) /\ f.read = 0 /\ f.write = 0 + Len(msg)
      /\ Unread(f) = Unread(b) \o msg
    BY <1>1, FilledIs
<1>3. Unread(b) = <<>>
    BY NothingToRead
<1>4. Unread(f) = msg
    BY <1>2, <1>3, ConcatEmptySeq
<1> DEFINE w == f.write
<1>5. w = Len(msg) /\ w \in 0 .. n - 1
    BY <1>1, <1>2
<1>6. f.data \in [0 .. n - 1 -> Byte] /\ f.limit = n
    BY <1>2, BufferIs
<1>7. f = [data |-> f.data, limit |-> f.limit, read |-> f.read, write |-> f.write]
    BY <1>2 DEF Buffer
<1>8. r = [f EXCEPT !.data[f.write] = "NUL"]
    <2>1. ~(Room(b) < Len(msg))
        BY <1>1
    <2>2. buffer_can_write(f)
        BY <1>5, <1>6 DEF buffer_can_write
    <2>3. QED
        BY <2>1, <2>2, Zenon DEF write_in_buffer
<1> DEFINE data == [f.data EXCEPT ![w] = "NUL"]
<1>9. data \in [0 .. n - 1 -> Byte] /\ \A i \in 0 .. n - 1 : i # w => data[i] = f.data[i]
    <2>1. "NUL" \in Byte
        BY DEF Byte
    <2>2. QED
        BY <1>5, <1>6, <2>1
<1>10. r = [data |-> data, limit |-> n, read |-> 0, write |-> w]
    <2>1. r = [f EXCEPT !.data = data]
        BY <1>8, Zenon
    <2> HIDE DEF r, data, f
    <2>2. [f EXCEPT !.data = data] =
            [data |-> data, limit |-> f.limit, read |-> f.read, write |-> f.write]
        BY <1>7
    <2>3. QED
        BY <1>2, <1>6, <2>1, <2>2
<1> HIDE DEF r, data, w
<1>11. r \in Buffer(Byte, n) /\ r.read = 0 /\ r.write = w /\ r.data = data
    BY <1>5, <1>9, <1>10 DEF Buffer
<1>12. /\ Unread(r) \in Seq(Byte) /\ Len(Unread(r)) = w - 0
       /\ \A i \in 1 .. w - 0 : Unread(r)[i] = data[0 + i - 1]
    BY <1>11, BufferIs
<1>13. \A i \in 1 .. w - 0 : Unread(f)[i] = f.data[0 + i - 1]
    <2> HIDE DEF f
    <2>1. f \in Buffer(Byte, n)
        BY <1>2
    <2>2. \A i \in 1 .. f.write - f.read : Unread(f)[i] = f.data[f.read + i - 1]
        BY <2>1, BufferIs
    <2>3. QED
        BY <1>2, <2>2 DEF w
<1>14. ASSUME NEW i \in 1 .. Len(Unread(r)) PROVE Unread(r)[i] = msg[i]
    <2> HIDE DEF f
    <2>1. i \in 1 .. w - 0 /\ 0 + i - 1 \in 0 .. n - 1 /\ 0 + i - 1 # w
        BY <1>5, <1>12
    <2>2. QED
        BY <1>4, <1>9, <1>12, <1>13, <2>1
<1>15. Unread(r) = msg
    BY <1>5, <1>12, <1>14, SeqEqual
<1>16. QED
    BY <1>5, <1>11, <1>15 DEF r

-----------------------------------------------------------------------------
(* The automaton                                                           *)

\* Where the tables go from a state: none of them has two ways for a byte.
Target(state, c) ==
    CASE state = "S0" /\ c = "SP"                  -> "S1"
      [] state \in {"S0", "S1"} /\ c = "CR"        -> "S2"
      [] state = "S0" /\ c \notin {"SP", "CR", "LF"} -> "S0"
      [] state = "S1" /\ c \notin {"CR", "LF"}     -> "S1"
      [] state = "S2" /\ c = "LF"                  -> "S3"
      [] OTHER                                     -> "SERR"

\* The bytes are told apart.
LEMMA BytesAre ==
    /\ Letters \subseteq Printable /\ Others \subseteq Printable
    /\ {"CR", "LF", "NUL"} \intersect Printable = {}
    /\ "SP" \notin Letters /\ "SP" \in Printable
    /\ Printable \subseteq Activators /\ Activators \subseteq Byte
    /\ Activators = Printable \union {"CR", "LF"}
    /\ {"SP", "CR", "LF"} \subseteq Activators /\ "NUL" \notin Activators
    /\ Byte = Activators \union {"NUL"}
BY BytesAssumption DEF Printable, Activators, Byte

\* The only member of a set is its least.
LEMMA OnlyIsMin ==
    ASSUME NEW i \in Int
    PROVE  Min({i}) = i
<1>1. \E x \in {i} : \A y \in {i} : x <= y
    OBVIOUS
<1>2. Min({i}) \in {i}
    BY <1>1, Zenon DEF Min
<1>3. QED
    BY <1>2

\* The row of a state.
LEMMA RowsAre ==
    ASSUME NEW kind \in Kinds
    PROVE  /\ Conf(kind)["S0"] = << [to |-> "S0", on |-> Activators \ {"SP", "CR", "LF"}],
                                    [to |-> "S1", on |-> {"SP"}],
                                    [to |-> "S2", on |-> {"CR"}] >>
           /\ Conf(kind)["S1"] = << [to |-> "S1", on |-> Activators \ {"CR", "LF"}],
                                    [to |-> "S2", on |-> {"CR"}] >>
           /\ Conf(kind)["S2"] = << [to |-> "S3", on |-> {"LF"}] >>
           /\ Conf(kind)["S3"] = <<>>
           /\ Conf(kind)["SERR"] = <<>>
<1>1. Conf(kind) = conf_auth_parser
    BY DEF Conf, Kinds, conf_trans_parser, conf_monitor_parser
<1> DEFINE r0 == << [to |-> "S0", on |-> Activators \ {"SP", "CR", "LF"}],
                    [to |-> "S1", on |-> {"SP"}],
                    [to |-> "S2", on |-> {"CR"}] >>
           r1 == << [to |-> "S1", on |-> Activators \ {"CR", "LF"}],
                    [to |-> "S2", on |-> {"CR"}] >>
           r2 == << [to |-> "S3", on |-> {"LF"}] >>
<1>2. conf_auth_parser = [S0 |-> r0, S1 |-> r1, S2 |-> r2, S3 |-> << >>, SERR |-> << >>]
    BY Zenon DEF conf_auth_parser, add_activator, add_activator_except
<1> HIDE DEF r0, r1, r2
<1>3. /\ Conf(kind)["S0"] = r0 /\ Conf(kind)["S1"] = r1 /\ Conf(kind)["S2"] = r2
      /\ Conf(kind)["S3"] = <<>> /\ Conf(kind)["SERR"] = <<>>
    BY <1>1, <1>2
<1>4. QED
    BY <1>3 DEF r0, r1, r2

\* The automaton follows the tables.
LEMMA FollowsTables ==
    ASSUME NEW kind \in Kinds, NEW state \in States, NEW c \in Activators
    PROVE  LET row  == Conf(kind)[state]
               fits == {i \in DOMAIN row : c \in row[i].on}
           IN (IF fits = {} THEN "SERR" ELSE row[Min(fits)].to) = Target(state, c)
<1> DEFINE row  == Conf(kind)[state]
           fits == {i \in DOMAIN row : c \in row[i].on}
<1>1. state \in {"S0", "S1", "S2", "S3", "SERR"}
    BY DEF States
<1>2. CASE state = "S0"
    <2> DEFINE r == << [to |-> "S0", on |-> Activators \ {"SP", "CR", "LF"}],
                       [to |-> "S1", on |-> {"SP"}], [to |-> "S2", on |-> {"CR"}] >>
    <2>1. row = r
        BY <1>2, RowsAre
    <2>2. /\ DOMAIN r = 1 .. 3 /\ r[1].to = "S0" /\ r[2].to = "S1" /\ r[3].to = "S2"
          /\ r[1].on = Activators \ {"SP", "CR", "LF"} /\ r[2].on = {"SP"} /\ r[3].on = {"CR"}
        OBVIOUS
    <2> HIDE DEF r, row
    <2>3. CASE c = "SP"
        <3>1. fits = {2}
            BY <2>1, <2>2, <2>3
        <3> HIDE DEF fits
        <3>2. (IF fits = {} THEN "SERR" ELSE row[Min(fits)].to) = "S1"
            BY <2>1, <2>2, <3>1, OnlyIsMin
        <3>3. QED
            BY <1>2, <2>3, <3>2 DEF Target, row, fits
    <2>4. CASE c = "CR"
        <3>1. fits = {3}
            BY <2>1, <2>2, <2>4
        <3> HIDE DEF fits
        <3>2. (IF fits = {} THEN "SERR" ELSE row[Min(fits)].to) = "S2"
            BY <2>1, <2>2, <3>1, OnlyIsMin
        <3>3. QED
            BY <1>2, <2>4, <3>2 DEF Target, row, fits
    <2>5. CASE c = "LF"
        <3>1. fits = {}
            BY <2>1, <2>2, <2>5
        <3>2. QED
            BY <1>2, <2>5, <3>1 DEF Target, row
    <2>6. CASE c \notin {"SP", "CR", "LF"}
        <3>1. fits = {1}
            BY <2>1, <2>2, <2>6
        <3> HIDE DEF fits
        <3>2. (IF fits = {} THEN "SERR" ELSE row[Min(fits)].to) = "S0"
            BY <2>1, <2>2, <3>1, OnlyIsMin
        <3>3. QED
            BY <1>2, <2>6, <3>2 DEF Target, row, fits
    <2>7. QED
        BY <2>3, <2>4, <2>5, <2>6
<1>3. CASE state = "S1"
    <2> DEFINE r == << [to |-> "S1", on |-> Activators \ {"CR", "LF"}],
                       [to |-> "S2", on |-> {"CR"}] >>
    <2>1. row = r
        BY <1>3, RowsAre
    <2>2. /\ DOMAIN r = 1 .. 2 /\ r[1].to = "S1" /\ r[2].to = "S2"
          /\ r[1].on = Activators \ {"CR", "LF"} /\ r[2].on = {"CR"}
        OBVIOUS
    <2> HIDE DEF r, row
    <2>3. CASE c = "CR"
        <3>1. fits = {2}
            BY <2>1, <2>2, <2>3
        <3> HIDE DEF fits
        <3>2. (IF fits = {} THEN "SERR" ELSE row[Min(fits)].to) = "S2"
            BY <2>1, <2>2, <3>1, OnlyIsMin
        <3>3. QED
            BY <1>3, <2>3, <3>2 DEF Target, row, fits
    <2>4. CASE c = "LF"
        <3>1. fits = {}
            BY <2>1, <2>2, <2>4
        <3>2. QED
            BY <1>3, <2>4, <3>1 DEF Target, row
    <2>5. CASE c \notin {"CR", "LF"}
        <3>1. fits = {1}
            BY <2>1, <2>2, <2>5
        <3> HIDE DEF fits
        <3>2. (IF fits = {} THEN "SERR" ELSE row[Min(fits)].to) = "S1"
            BY <2>1, <2>2, <3>1, OnlyIsMin
        <3>3. QED
            BY <1>3, <2>5, <3>2 DEF Target, row, fits
    <2>6. QED
        BY <2>3, <2>4, <2>5
<1>4. CASE state = "S2"
    <2> DEFINE r == << [to |-> "S3", on |-> {"LF"}] >>
    <2>1. row = r
        BY <1>4, RowsAre
    <2>2. DOMAIN r = {1} /\ r[1].to = "S3" /\ r[1].on = {"LF"}
        OBVIOUS
    <2> HIDE DEF r, row
    <2>3. CASE c = "LF"
        <3>1. fits = {1}
            BY <2>1, <2>2, <2>3
        <3> HIDE DEF fits
        <3>2. (IF fits = {} THEN "SERR" ELSE row[Min(fits)].to) = "S3"
            BY <2>1, <2>2, <3>1, OnlyIsMin
        <3>3. QED
            BY <1>4, <2>3, <3>2 DEF Target, row, fits
    <2>4. CASE c # "LF"
        <3>1. fits = {}
            BY <2>1, <2>2, <2>4
        <3>2. QED
            BY <1>4, <2>4, <3>1 DEF Target, row
    <2>5. QED
        BY <2>3, <2>4
<1>5. CASE state \in {"S3", "SERR"}
    <2>1. row = <<>>
        BY <1>5, RowsAre
    <2>2. fits = {}
        BY <2>1
    <2>3. QED
        BY <1>5, <2>2 DEF Target, row
<1>6. QED
    BY <1>1, <1>2, <1>3, <1>4, <1>5

\* A byte that has a column takes the automaton along the table.
LEMMA ProcessCharIs ==
    ASSUME NEW kind \in Kinds, NEW p \in Parser, p.state # "none", NEW c \in Activators
    PROVE  process_char(p, kind, c) = Arrived(Departed(p, kind, c), Target(p.state, c))
<1>1. p.state \in States
    BY DEF Parser
<1> DEFINE row  == Conf(kind)[p.state]
           fits == {i \in DOMAIN row : c \in row[i].on}
           to   == IF fits = {} THEN "SERR" ELSE row[Min(fits)].to
<1>2. to = Target(p.state, c)
    BY <1>1, FollowsTables
<1>3. process_char(p, kind, c) = Arrived(Departed(p, kind, c), to)
    BY Zenon DEF process_char
<1> HIDE DEF to
<1>4. QED
    BY <1>2, <1>3

\* The callbacks keep a parser one.
LEMMA CallbacksTyped ==
    ASSUME NEW kind \in Kinds, NEW p \in Parser, NEW c \in Byte, NEW to \in States
    PROVE  /\ Departed(p, kind, c) \in Parser
           /\ Arrived(p, to) \in Parser
           /\ [p EXCEPT !.state = "none"] \in Parser
<1>1. /\ p.cmd \in Seq(Byte) /\ p.arg \in Seq(Byte) /\ p.ended \in BOOLEAN
      /\ p.state \in States \union {"none"}
      /\ p.err \in {"NO_ERROR", "INVALID_CHAR", "INVALID_ARG"}
    BY DEF Parser
<1>2. Append(p.cmd, c) \in Seq(Byte) /\ Append(p.arg, c) \in Seq(Byte)
    BY <1>1, AppendProperties
<1>3. \A s \in Seq(Byte) : [p EXCEPT !.cmd = s] \in Parser /\ [p EXCEPT !.arg = s] \in Parser
    BY DEF Parser
<1>4. [p EXCEPT !.err = "INVALID_ARG"] \in Parser
    BY DEF Parser
<1>5. save_cmd(p, kind, c) \in Parser
    BY <1>2, <1>3 DEF save_cmd
<1>6. save_arg(p, c) \in Parser
    BY <1>2, <1>3, <1>4 DEF save_arg
<1>7. Departed(p, kind, c) \in Parser
    BY <1>5, <1>6 DEF Departed
<1>8. \A s \in States \union {"none"} : [p EXCEPT !.state = s] \in Parser
    BY DEF Parser
<1>9. \A q \in Parser : final_arrival(q) \in Parser /\ error_arrival(q) \in Parser
    BY DEF Parser, final_arrival, error_arrival
<1>10. Arrived(p, to) \in Parser
    <2> DEFINE q == [p EXCEPT !.state = to]
    <2>1. q \in Parser
        BY <1>8
    <2>2. Arrived(p, to) \in {q, final_arrival(q), error_arrival(q)}
        BY DEF Arrived
    <2> HIDE DEF q
    <2>3. QED
        BY <1>9, <2>1, <2>2
<1>11. QED
    BY <1>7, <1>8, <1>10

\* A parser stays one, whatever the byte.
LEMMA ProcessCharTyped ==
    ASSUME NEW kind \in Kinds, NEW p \in Parser, NEW c \in Byte
    PROVE  process_char(p, kind, c) \in Parser
<1>1. CASE p.state = "none" \/ c \notin Activators
    <2>1. process_char(p, kind, c) = [p EXCEPT !.state = "none"]
        BY <1>1, Zenon DEF process_char
    <2>2. "S0" \in States
        BY DEF States
    <2>3. QED
        BY <2>1, <2>2, CallbacksTyped
<1>2. CASE p.state # "none" /\ c \in Activators
    <2>1. process_char(p, kind, c) = Arrived(Departed(p, kind, c), Target(p.state, c))
        BY <1>2, ProcessCharIs
    <2>2. Target(p.state, c) \in States
        BY DEF Target, States
    <2>3. Departed(p, kind, c) \in Parser
        BY <2>2, CallbacksTyped
    <2>4. QED
        BY <2>1, <2>2, <2>3, CallbacksTyped
<1>3. QED
    BY <1>1, <1>2

-----------------------------------------------------------------------------
(* Reading a buffer                                                        *)

\* A parser and what it reads from, one byte on
Fed(d, kind, c) ==
    IF Stopped(d.parser) THEN d
    ELSE [parser |-> process_char(d.parser, kind, c), buffer |-> buffer_read_adv(d.buffer, 1)]

\* A buffer with nothing to read begins again.
Rewound(b) == b.read = b.write => b.write = 0

\* What is left behind j items and one more.
LEMMA DropDrop ==
    ASSUME NEW S, NEW s \in Seq(S), NEW j \in 0 .. Len(s), NEW k \in 0 .. Len(s) - j
    PROVE  Drop(Drop(s, j), k) = Drop(s, j + k)
<1> DEFINE t == Drop(s, j)
           u == Drop(t, k)
           v == Drop(s, j + k)
<1>1. Len(s) \in Nat /\ j + k \in 0 .. Len(s)
    BY LenProperties
<1>2. t \in Seq(S) /\ Len(t) = Len(s) - j /\ \A i \in 1 .. Len(s) - j : t[i] = s[j + i]
    BY DropIs
<1>3. v \in Seq(S) /\ Len(v) = Len(s) - (j + k)
      /\ \A i \in 1 .. Len(s) - (j + k) : v[i] = s[(j + k) + i]
    BY <1>1, DropIs
<1> HIDE DEF t, v
<1>4. u \in Seq(S) /\ Len(u) = Len(t) - k /\ \A i \in 1 .. Len(t) - k : u[i] = t[k + i]
    BY <1>2, DropIs
<1> HIDE DEF u
<1>5. Len(u) = Len(v)
    BY <1>1, <1>2, <1>3, <1>4
<1>6. ASSUME NEW i \in 1 .. Len(u) PROVE u[i] = v[i]
    <2>1. /\ i \in 1 .. Len(t) - k /\ k + i \in 1 .. Len(s) - j
          /\ j + (k + i) = (j + k) + i /\ i \in 1 .. Len(s) - (j + k)
        BY <1>1, <1>2, <1>4
    <2>2. u[i] = t[k + i] /\ t[k + i] = s[j + (k + i)] /\ v[i] = s[(j + k) + i]
        BY <1>2, <1>3, <1>4, <2>1
    <2>3. QED
        BY <2>1, <2>2
<1>7. u = v
    BY <1>3, <1>4, <1>5, <1>6, SeqEqual
<1>8. QED
    BY <1>7 DEF t, u, v

\* A byte taken from a buffer that has one.
LEMMA FedIs ==
    ASSUME NEW n \in Nat, NEW kind \in Kinds, NEW d \in Reading(n), NEW c \in Byte,
           Stopped(d.parser) \/ Unread(d.buffer) # <<>>
    PROVE  /\ Fed(d, kind, c) \in Reading(n)
           /\ Stopped(d.parser) => Fed(d, kind, c) = d
           /\ ~Stopped(d.parser) =>
                /\ Fed(d, kind, c).parser = process_char(d.parser, kind, c)
                /\ Unread(Fed(d, kind, c).buffer) = Drop(Unread(d.buffer), 1)
                /\ Rewound(Fed(d, kind, c).buffer)
                /\ Fed(d, kind, c).buffer.write <= d.buffer.write
<1>1. CASE Stopped(d.parser)
    BY <1>1 DEF Fed
<1>2. CASE ~Stopped(d.parser)
    <2> DEFINE p == process_char(d.parser, kind, c)
               b == buffer_read_adv(d.buffer, 1)
    <2>1. d.parser \in Parser /\ d.buffer \in Buffer(Byte, n)
        BY DEF Reading
    <2>2. Unread(d.buffer) \in Seq(Byte)
        BY <2>1, BufferIs
    <2>3. Len(Unread(d.buffer)) \in Nat \ {0}
        BY <1>2, <2>2, EmptySeq
    <2>4. 1 \in 0 .. Len(Unread(d.buffer))
        BY <2>3
    <2>5. /\ b \in Buffer(Byte, n) /\ Unread(b) = Drop(Unread(d.buffer), 1) /\ Rewound(b)
          /\ b.write <= d.buffer.write
        BY <2>1, <2>4, ReadAdvIs DEF Rewound
    <2>6. p \in Parser
        BY <2>1, ProcessCharTyped
    <2>7. Fed(d, kind, c) = [parser |-> p, buffer |-> b]
        BY <1>2 DEF Fed
    <2> HIDE DEF p, b
    <2>8. QED
        BY <1>2, <2>5, <2>6, <2>7 DEF Reading, p
<1>3. QED
    BY <1>1, <1>2

\* What a run of the automaton leaves of its input after k bytes: all of them
\* are taken, or those up to the one for which it stopped.
Taken(d, b, k) ==
    /\ \E j \in 0 .. k : Unread(d.buffer) = Drop(Unread(b), j) /\ (j < k => Stopped(d.parser))
    /\ Rewound(b) => Rewound(d.buffer)
    /\ d.buffer.write <= b.write

\* One byte more.
LEMMA TakenGoesOn ==
    ASSUME NEW n \in Nat, NEW kind \in Kinds, NEW b \in Buffer(Byte, n),
           NEW k \in 0 .. Len(Unread(b)) - 1, NEW d \in Reading(n), Taken(d, b, k)
    PROVE  /\ Fed(d, kind, Unread(b)[k + 1]) \in Reading(n)
           /\ Taken(Fed(d, kind, Unread(b)[k + 1]), b, k + 1)
<1> DEFINE u == Unread(b)
           c == u[k + 1]
           e == Fed(d, kind, c)
<1>1. u \in Seq(Byte) /\ Len(u) \in Nat
    BY BufferIs, LenProperties
<1> HIDE DEF u
<1>2. k \in Nat /\ k + 1 \in 1 .. Len(u)
    BY <1>1 DEF u
<1>3. c \in Byte
    BY <1>1, <1>2, ElementOfSeq
<1>4. PICK j \in 0 .. k : Unread(d.buffer) = Drop(u, j) /\ (j < k => Stopped(d.parser))
    BY DEF Taken, u
<1>5. j \in Nat /\ j <= k /\ j \in 0 .. Len(u) /\ 1 \in 0 .. Len(u) - j
    BY <1>1, <1>2
<1>6. Drop(u, j) \in Seq(Byte) /\ Len(Drop(u, j)) = Len(u) - j
    BY <1>1, <1>5, DropIs
<1>7. Unread(d.buffer) # <<>>
    <2>1. Len(u) - j # 0
        BY <1>1, <1>2, <1>5
    <2>2. QED
        BY <1>4, <1>6, <2>1, EmptySeq
<1> HIDE DEF c
<1>8. /\ e \in Reading(n)
      /\ Stopped(d.parser) => e = d
      /\ ~Stopped(d.parser) =>
           /\ Unread(e.buffer) = Drop(Unread(d.buffer), 1) /\ Rewound(e.buffer)
           /\ e.buffer.write <= d.buffer.write
    BY <1>3, <1>7, FedIs
<1> HIDE DEF e
<1>9. CASE Stopped(d.parser)
    <2>1. e = d /\ j \in 0 .. k + 1
        BY <1>2, <1>5, <1>8, <1>9
    <2>2. Taken(e, b, k + 1)
        BY <1>4, <1>9, <2>1 DEF Taken, u
    <2>3. QED
        BY <1>8, <2>2 DEF e, c, u
<1>10. CASE ~Stopped(d.parser)
    <2>1. j = k
        BY <1>2, <1>4, <1>5, <1>10
    <2>2. Unread(e.buffer) = Drop(u, k + 1)
        BY <1>1, <1>4, <1>5, <1>8, <1>10, <2>1, DropDrop
    <2>3. k + 1 \in 0 .. k + 1 /\ ~(k + 1 < k + 1)
        BY <1>2
    <2>4. e.buffer.write <= b.write
        <3>1. /\ e.buffer \in Buffer(Byte, n) /\ d.buffer \in Buffer(Byte, n)
              /\ d.buffer.write <= b.write
            BY <1>8 DEF Reading, Taken
        <3>2. e.buffer.write \in Nat /\ d.buffer.write \in Nat /\ b.write \in Nat
            BY <3>1, BufferIs
        <3>3. QED
            BY <1>8, <1>10, <3>1, <3>2
    <2>5. Taken(e, b, k + 1)
        BY <1>8, <1>10, <2>2, <2>3, <2>4 DEF Taken, u
    <2>6. QED
        BY <1>8, <2>5 DEF e, c, u
<1>11. QED
    BY <1>9, <1>10

\* parse goes through what is in the buffer byte by byte.
LEMMA ParseRuns ==
    ASSUME NEW n \in Nat, NEW kind \in Kinds, NEW p \in Parser, NEW b \in Buffer(Byte, n)
    PROVE  \E f \in [0 .. Len(Unread(b)) -> Reading(n)] :
              /\ f[0] = [parser |-> p, buffer |-> b]
              /\ \A k \in 1 .. Len(Unread(b)) : f[k] = Fed(f[k - 1], kind, Unread(b)[k])
              /\ \A k \in 0 .. Len(Unread(b)) : Taken(f[k], b, k)
              /\ parse(p, kind, b) = f[Len(Unread(b))]
<1> DEFINE u == Unread(b)
           R == Reading(n)
           step == [x \in R \X Byte |-> Fed(x[1], kind, x[2])]
           pad == [x \in R \X Byte |-> IF step[x] \in R THEN step[x] ELSE x[1]]
           base == [parser |-> p, buffer |-> b]
<1>1. u \in Seq(Byte) /\ Len(u) \in Nat /\ b.limit = n
    BY BufferIs, LenProperties
<1>2. base \in R
    BY DEF Reading
<1>3. parse(p, kind, b) = FoldedBy(step, base, u)
    BY <1>1 DEF parse, FoldedBy, Fed
<1>4. \A d \in R, c \in Byte : step[<<d, c>>] = Fed(d, kind, c)
    OBVIOUS
<1>5. /\ \A d \in R, c \in Byte : pad[<<d, c>>] \in R
      /\ \A d \in R, c \in Byte : step[<<d, c>>] \in R => pad[<<d, c>>] = step[<<d, c>>]
    <2> HIDE DEF step, R
    <2>1. QED
        OBVIOUS
<1> HIDE DEF step, pad, R, base, u
<1>6. PICK f \in [0 .. Len(u) -> R] : Goes(f, pad, base, u, Len(u))
    BY <1>1, <1>2, <1>5, StepsTaken
<1>7. f[0] = base /\ \A k \in 1 .. Len(u) : f[k] = pad[<<f[k - 1], u[k]>>]
    BY <1>6 DEF Goes
<1>8. Taken(f[0], b, 0)
    <2>1. f[0].buffer = b
        BY <1>7 DEF base
    <2>2. Drop(u, 0) = u
        BY <1>1, SubSeqFull DEF Drop
    <2>3. b.write <= b.write
        BY BufferIs
    <2>4. QED
        BY <2>1, <2>2, <2>3 DEF Taken, u
<1>9. ASSUME NEW k \in 1 .. Len(u), Taken(f[k - 1], b, k - 1)
      PROVE  /\ f[k] = Fed(f[k - 1], kind, u[k])
             /\ f[k] = step[<<f[k - 1], u[k]>>]
             /\ Taken(f[k], b, k)
    <2> DEFINE i == k - 1
               d == f[i]
               c == u[k]
    <2>1. i \in 0 .. Len(u) - 1 /\ i \in 0 .. Len(u) /\ i + 1 = k
        BY <1>1
    <2>2. d \in R
        BY <1>6, <2>1
    <2>3. c \in Byte
        BY <1>1, ElementOfSeq
    <2>4. Fed(d, kind, c) \in R /\ Taken(Fed(d, kind, c), b, k)
        <3> HIDE DEF d, i
        <3>1. Fed(d, kind, u[i + 1]) \in R /\ Taken(Fed(d, kind, u[i + 1]), b, i + 1)
            BY <1>9, <2>1, <2>2, TakenGoesOn DEF R, u, d, i
        <3>2. QED
            BY <2>1, <3>1
    <2>5. f[k] = pad[<<d, c>>]
        BY <1>7
    <2> HIDE DEF c, d, i
    <2>6. f[k] = Fed(d, kind, c) /\ f[k] = step[<<d, c>>]
        BY <1>4, <1>5, <2>2, <2>3, <2>4, <2>5
    <2>7. QED
        BY <2>4, <2>6 DEF c, d, i
<1> DEFINE T == {k \in 0 .. Len(u) : ~Taken(f[k], b, k)}
<1>10. T = {}
    <2>1. SUFFICES ASSUME T # {} PROVE FALSE
        OBVIOUS
    <2>2. PICK k \in T : \A j \in T : k <= j
        <3>1. T \subseteq Nat
            BY <1>1
        <3> HIDE DEF T
        <3>2. QED
            BY <2>1, <3>1, LeastNumber
    <2>3. k # 0 /\ k \in 0 .. Len(u) /\ ~Taken(f[k], b, k)
        BY <1>8
    <2>4. k \in 1 .. Len(u) /\ k - 1 \in 0 .. Len(u) /\ ~(k <= k - 1)
        BY <1>1, <2>3
    <2>5. Taken(f[k - 1], b, k - 1)
        BY <2>2, <2>4
    <2>6. QED
        BY <1>9, <2>3, <2>4, <2>5
<1>11. ASSUME NEW k \in 1 .. Len(u)
       PROVE  f[k] = Fed(f[k - 1], kind, u[k]) /\ f[k] = step[<<f[k - 1], u[k]>>]
    <2>1. k - 1 \in 0 .. Len(u)
        BY <1>1
    <2>2. Taken(f[k - 1], b, k - 1)
        BY <1>10, <2>1
    <2>3. QED
        BY <1>9, <2>2
<1>12. FoldedBy(step, base, u) = f[Len(u)]
    BY <1>1, <1>7, <1>11, FoldIs
<1>13. QED
    BY <1>3, <1>6, <1>7, <1>10, <1>11, <1>12 DEF u, R, base

-----------------------------------------------------------------------------
(* A line and the parser that is in the middle of it                       *)

\* The bytes of a line, one by one.
LEMMA BytesIs ==
    ASSUME NEW line \in Command
    PROVE  LET n == Len(line.cmd)
               m == Len(line.arg)
               w == Bytes(line)
           IN /\ n \in Nat \ {0} /\ m \in Nat /\ w \in Seq(Byte)
              /\ \A i \in 1 .. n : w[i] = line.cmd[i]
              /\ m = 0 => Len(w) = n + 2 /\ w[n + 1] = "CR" /\ w[n + 2] = "LF"
              /\ m # 0 => /\ Len(w) = n + m + 3 /\ w[n + 1] = "SP"
                          /\ \A i \in 1 .. m : w[n + 1 + i] = line.arg[i]
                          /\ w[n + m + 2] = "CR" /\ w[n + m + 3] = "LF"
<1> DEFINE cmd == line.cmd
           arg == line.arg
           n == Len(cmd)
           m == Len(arg)
           end == << "CR", "LF" >>
           sp == << "SP" >>
           w == Bytes(line)
<1>1. cmd \in Seq(Activators \ {"SP", "CR"}) /\ arg \in Seq(Activators \ {"CR"}) /\ n # 0
    BY DEF Command
<1>2. Activators \ {"SP", "CR"} \subseteq Byte /\ Activators \ {"CR"} \subseteq Byte
    BY BytesAre
<1> HIDE DEF cmd, arg
<1>3. cmd \in Seq(Byte) /\ arg \in Seq(Byte) /\ n \in Nat /\ m \in Nat
    BY <1>1, <1>2, SeqMonotonic, LenProperties
<1>4. /\ end \in Seq(Byte) /\ Len(end) = 2 /\ end[1] = "CR" /\ end[2] = "LF"
      /\ sp \in Seq(Byte) /\ Len(sp) = 1 /\ sp[1] = "SP"
    BY BytesAre
<1> HIDE DEF end, sp
<1>5. CASE m = 0
    <2>1. arg = <<>>
        BY <1>3, <1>5, EmptySeq
    <2>2. w = (cmd \o <<>>) \o end
        BY <2>1 DEF Bytes, cmd, arg, end
    <2>3. w = cmd \o end
        BY <1>3, <2>2, ConcatEmptySeq
    <2>4. /\ cmd \o end \in Seq(Byte) /\ Len(cmd \o end) = n + 2
          /\ \A i \in 1 .. n + 2 : (cmd \o end)[i] = IF i <= n THEN cmd[i] ELSE end[i - n]
        <3>1. /\ cmd \o end \in Seq(Byte) /\ Len(cmd \o end) = Len(cmd) + Len(end)
              /\ \A i \in 1 .. Len(cmd) + Len(end) :
                   (cmd \o end)[i] = IF i <= Len(cmd) THEN cmd[i] ELSE end[i - Len(cmd)]
            BY <1>3, <1>4, ConcatProperties
        <3>2. Len(cmd) = n /\ Len(end) = 2
            BY <1>3, <1>4
        <3>3. QED
            BY <3>1, <3>2
    <2>5. /\ \A i \in 1 .. n : i \in 1 .. n + 2 /\ i <= n
          /\ n + 1 \in 1 .. n + 2 /\ ~(n + 1 <= n) /\ (n + 1) - n = 1
          /\ n + 2 \in 1 .. n + 2 /\ ~(n + 2 <= n) /\ (n + 2) - n = 2
        BY <1>3
    <2> HIDE DEF w, n
    <2>6. /\ w \in Seq(Byte) /\ Len(w) = n + 2
          /\ \A i \in 1 .. n : w[i] = cmd[i]
          /\ w[n + 1] = "CR" /\ w[n + 2] = "LF"
        BY <1>4, <2>3, <2>4, <2>5
    <2>7. QED
        BY <1>1, <1>3, <1>5, <2>6 DEF w, n, cmd, arg
<1>6. CASE m # 0
    <2> DEFINE tail == sp \o arg
               text == cmd \o tail
    <2>1. arg # <<>>
        BY <1>6, EmptySeq
    <2>2. w = text \o end
        BY <2>1 DEF Bytes, cmd, arg, end, sp
    <2>3. /\ tail \in Seq(Byte) /\ Len(tail) = 1 + m
          /\ \A i \in 1 .. 1 + m : tail[i] = IF i <= 1 THEN sp[i] ELSE arg[i - 1]
        <3>1. /\ sp \o arg \in Seq(Byte) /\ Len(sp \o arg) = Len(sp) + Len(arg)
              /\ \A i \in 1 .. Len(sp) + Len(arg) :
                   (sp \o arg)[i] = IF i <= Len(sp) THEN sp[i] ELSE arg[i - Len(sp)]
            BY <1>3, <1>4, ConcatProperties
        <3>2. Len(sp) = 1 /\ Len(arg) = m
            BY <1>3, <1>4
        <3>3. QED
            BY <3>1, <3>2
    <2> HIDE DEF tail
    <2>4. /\ text \in Seq(Byte) /\ Len(text) = n + (1 + m)
          /\ \A i \in 1 .. n + (1 + m) : text[i] = IF i <= n THEN cmd[i] ELSE tail[i - n]
        <3>1. /\ cmd \o tail \in Seq(Byte) /\ Len(cmd \o tail) = Len(cmd) + Len(tail)
              /\ \A i \in 1 .. Len(cmd) + Len(tail) :
                   (cmd \o tail)[i] = IF i <= Len(cmd) THEN cmd[i] ELSE tail[i - Len(cmd)]
            BY <1>3, <2>3, ConcatProperties
        <3>2. Len(cmd) = n /\ Len(tail) = 1 + m
            BY <1>3, <2>3
        <3>3. QED
            BY <3>1, <3>2
    <2> HIDE DEF text
    <2> DEFINE k == n + (1 + m)
    <2>5. /\ text \o end \in Seq(Byte) /\ Len(text \o end) = k + 2
          /\ \A i \in 1 .. k + 2 : (text \o end)[i] = IF i <= k THEN text[i] ELSE end[i - k]
        <3>. text \in Seq(Byte) /\ end \in Seq(Byte)
            BY <1>4, <2>4
        <3>1. /\ text \o end \in Seq(Byte) /\ Len(text \o end) = Len(text) + Len(end)
              /\ \A i \in 1 .. Len(text) + Len(end) :
                   (text \o end)[i] = IF i <= Len(text) THEN text[i] ELSE end[i - Len(text)]
            BY ConcatProperties
        <3>2. Len(text) = k /\ Len(end) = 2
            BY <1>4, <2>4
        <3>3. QED
            BY <3>1, <3>2
    <2>6. k \in Nat /\ k = n + m + 1
        BY <1>3
    <2> HIDE DEF w
    <2>7. w \in Seq(Byte) /\ Len(w) = n + m + 3
        BY <1>3, <2>2, <2>5, <2>6
    <2>8. ASSUME NEW i \in 1 .. n PROVE w[i] = cmd[i]
        <3>1. i \in 1 .. k + 2 /\ i <= k /\ i \in 1 .. n + (1 + m) /\ i <= n
            BY <1>3, <2>6
        <3>2. QED
            BY <2>2, <2>4, <2>5, <3>1
    <2>9. w[n + 1] = "SP"
        <3> DEFINE i == n + 1
        <3>1. /\ i \in 1 .. k + 2 /\ i <= k /\ i \in 1 .. n + (1 + m) /\ ~(i <= n) /\ i - n = 1
              /\ 1 \in 1 .. 1 + m
            BY <1>3, <2>6
        <3> HIDE DEF i
        <3>2. w[i] = text[i] /\ text[i] = tail[i - n] /\ tail[1] = sp[1]
            BY <2>2, <2>3, <2>4, <2>5, <3>1
        <3>3. QED
            BY <1>4, <3>1, <3>2 DEF i
    <2>10. ASSUME NEW j \in 1 .. m PROVE w[n + 1 + j] = arg[j]
        <3> DEFINE i == n + 1 + j
                   h == i - n
        <3>1. /\ i \in 1 .. k + 2 /\ i <= k /\ i \in 1 .. n + (1 + m) /\ ~(i <= n)
              /\ h \in 1 .. 1 + m /\ ~(h <= 1) /\ h - 1 = j
            BY <1>3, <2>6
        <3>2. w[i] = text[i] /\ text[i] = tail[h]
            <4> HIDE DEF i
            <4>1. QED
                BY <2>2, <2>4, <2>5, <3>1
        <3>3. tail[h] = arg[j]
            <4> HIDE DEF h
            <4>1. QED
                BY <2>3, <3>1
        <3>4. QED
            BY <3>2, <3>3
    <2>11. w[n + m + 2] = "CR" /\ w[n + m + 3] = "LF"
        <3> DEFINE i == n + m + 2
                   h == n + m + 3
        <3>1. /\ i \in 1 .. k + 2 /\ ~(i <= k) /\ i - k = 1
              /\ h \in 1 .. k + 2 /\ ~(h <= k) /\ h - k = 2
            BY <1>3, <2>6
        <3> HIDE DEF i, h, k
        <3>2. w[i] = end[i - k] /\ w[h] = end[h - k]
            BY <2>2, <2>5, <3>1
        <3>3. QED
            BY <1>4, <3>1, <3>2 DEF i, h
    <2> HIDE DEF n, m
    <2>12. QED
        BY <1>1, <1>3, <1>6, <2>7, <2>8, <2>9, <2>10, <2>11 DEF w, n, m, cmd, arg
<1>7. QED
    BY <1>5, <1>6

\* The parser after c bytes of a line
At(line, c) ==
    LET n   == Len(line.cmd)
        end == Len(Bytes(line))
    IN [state |-> IF c <= n THEN "S0" ELSE IF c = end THEN "S3"
                  ELSE IF c = end - 1 THEN "S2" ELSE "S1",
        cmd   |-> SubSeq(line.cmd, 1, IF c <= n THEN c ELSE n),
        arg   |-> SubSeq(line.arg, 1, IF c <= n + 1 THEN 0
                                      ELSE IF c <= n + 1 + Len(line.arg) THEN c - n - 1
                                      ELSE Len(line.arg)),
        ended |-> c = end,
        err   |-> "NO_ERROR"]

\* The numbers of At lie inside the line.
LEMMA AtParts ==
    ASSUME NEW line \in Command, NEW c \in 0 .. Len(Bytes(line))
    PROVE  LET n == Len(line.cmd)
               m == Len(line.arg)
               i == IF c <= n THEN c ELSE n
               j == IF c <= n + 1 THEN 0 ELSE IF c <= n + 1 + m THEN c - n - 1 ELSE m
           IN /\ i \in 0 .. n /\ SubSeq(line.cmd, 1, i) \in Seq(Byte)
              /\ Len(SubSeq(line.cmd, 1, i)) = i
              /\ j \in 0 .. m /\ SubSeq(line.arg, 1, j) \in Seq(Byte)
              /\ Len(SubSeq(line.arg, 1, j)) = j
<1> DEFINE cmd == line.cmd
           arg == line.arg
           n == Len(cmd)
           m == Len(arg)
           i == IF c <= n THEN c ELSE n
           j == IF c <= n + 1 THEN 0 ELSE IF c <= n + 1 + m THEN c - n - 1 ELSE m
<1>1. cmd \in Seq(Activators \ {"SP", "CR"}) /\ arg \in Seq(Activators \ {"CR"})
    BY DEF Command
<1>2. Activators \ {"SP", "CR"} \subseteq Byte /\ Activators \ {"CR"} \subseteq Byte
    BY BytesAre
<1>3. n \in Nat /\ m \in Nat /\ Len(Bytes(line)) \in Nat
    BY BytesIs, LenProperties
<1> HIDE DEF cmd, arg
<1>4. cmd \in Seq(Byte) /\ arg \in Seq(Byte)
    BY <1>1, <1>2, SeqMonotonic
<1>5. i \in 0 .. n /\ j \in 0 .. m
    BY <1>3
<1> HIDE DEF i, j
<1>6. SubSeq(cmd, 1, i) \in Seq(Byte) /\ Len(SubSeq(cmd, 1, i)) = i
    BY <1>4, <1>5, TakeIs
<1>7. SubSeq(arg, 1, j) \in Seq(Byte) /\ Len(SubSeq(arg, 1, j)) = j
    BY <1>4, <1>5, TakeIs
<1>8. QED
    BY <1>5, <1>6, <1>7 DEF i, j, cmd, arg

\* The parser of a connection is that before the first byte, and the one after
\* the last holds the line.
LEMMA AtIs ==
    ASSUME NEW line \in Command, NEW c \in 0 .. Len(Bytes(line))
    PROVE  /\ At(line, c) \in Parser
           /\ At(line, c).err = "NO_ERROR" /\ At(line, c).state # "none"
           /\ At(line, c).ended <=> c = Len(Bytes(line))
           /\ c = 0 => At(line, c) = init_parser
           /\ c = Len(Bytes(line)) => At(line, c).cmd = line.cmd /\ At(line, c).arg = line.arg
<1> DEFINE n == Len(line.cmd)
           m == Len(line.arg)
           i == IF c <= n THEN c ELSE n
           j == IF c <= n + 1 THEN 0 ELSE IF c <= n + 1 + m THEN c - n - 1 ELSE m
           first == SubSeq(line.cmd, 1, i)
           rest == SubSeq(line.arg, 1, j)
           end == Len(Bytes(line))
           state == IF c <= n THEN "S0" ELSE IF c = end THEN "S3"
                    ELSE IF c = end - 1 THEN "S2" ELSE "S1"
           over == c = end
<1>1. n \in Nat \ {0} /\ m \in Nat /\ end \in Nat
      /\ (m = 0 => end = n + 2) /\ (m # 0 => end = n + m + 3)
    <2>1. Bytes(line) \in Seq(Byte)
        BY BytesIs
    <2>2. end \in Nat
        BY <2>1, LenProperties
    <2>3. n \in Nat \ {0} /\ m \in Nat
        BY BytesIs
    <2>4. (m = 0 => end = n + 2) /\ (m # 0 => end = n + m + 3)
        BY BytesIs
    <2>5. QED
        BY <2>2, <2>3, <2>4
<1>2. first \in Seq(Byte) /\ rest \in Seq(Byte)
    BY AtParts
<1>3. At(line, c) = [state |-> state, cmd |-> first, arg |-> rest, ended |-> over,
                     err |-> "NO_ERROR"]
    BY Zenon DEF At
<1> HIDE DEF n, m, end, first, rest
<1>4. c = 0 => i = 0 /\ j = 0 /\ state = "S0" /\ over = FALSE
    BY <1>1
<1>5. c = end => i = n /\ j = m
    BY <1>1
<1>6. state \in {"S0", "S1", "S2", "S3"} /\ over \in BOOLEAN /\ (over <=> c = end)
    OBVIOUS
<1> HIDE DEF state, over
<1>7. /\ At(line, c).err = "NO_ERROR" /\ At(line, c).state # "none"
      /\ At(line, c).ended = over
      /\ At(line, c).cmd = first /\ At(line, c).arg = rest
    BY <1>3, <1>6
<1>8. At(line, c) \in Parser
    BY <1>2, <1>3, <1>6 DEF Parser, States
<1>9. ASSUME c = 0 PROVE At(line, c) = init_parser
    <2>1. i = 0 /\ j = 0 /\ state = "S0" /\ over = FALSE
        BY <1>4, <1>9
    <2>2. \A x : SubSeq(x, 1, 0) = <<>>
        BY SubSeqEmpty
    <2>3. first = <<>> /\ rest = <<>>
        BY <2>1, <2>2, Zenon DEF first, rest
    <2>4. QED
        BY <1>3, <2>1, <2>3, Zenon DEF init_parser
<1>10. ASSUME c = end PROVE first = line.cmd /\ rest = line.arg
    <2>1. line.cmd \in Seq(Activators \ {"SP", "CR"}) /\ line.arg \in Seq(Activators \ {"CR"})
        BY DEF Command
    <2>2. i = n /\ j = m
        BY <1>5, <1>10
    <2>3. first = SubSeq(line.cmd, 1, Len(line.cmd)) /\ rest = SubSeq(line.arg, 1, Len(line.arg))
        BY <2>2 DEF first, rest, n, m
    <2>4. QED
        BY <2>1, <2>3, SubSeqFull
<1>11. QED
    BY <1>6, <1>7, <1>8, <1>9, <1>10 DEF end

\* One item more of a sequence.
LEMMA TakeOneMore ==
    ASSUME NEW S, NEW s \in Seq(S), NEW k \in 0 .. Len(s) - 1
    PROVE  SubSeq(s, 1, k + 1) = Append(SubSeq(s, 1, k), s[k + 1])
<1> DEFINE t == SubSeq(s, 1, k)
           u == SubSeq(s, 1, k + 1)
           a == Append(t, s[k + 1])
<1>1. Len(s) \in Nat /\ k \in Nat /\ k + 1 \in Nat /\ k \in 0 .. Len(s)
      /\ k + 1 \in 0 .. Len(s) /\ k + 1 \in 1 .. Len(s)
    BY LenProperties
<1>2. t \in Seq(S) /\ Len(t) = k /\ \A i \in 1 .. k : t[i] = s[i]
    BY <1>1, TakeIs
<1>3. u \in Seq(S) /\ Len(u) = k + 1 /\ \A i \in 1 .. k + 1 : u[i] = s[i]
    BY <1>1, TakeIs
<1>4. s[k + 1] \in S
    BY <1>1, ElementOfSeq
<1> HIDE DEF t, u
<1>5. a \in Seq(S) /\ Len(a) = k + 1 /\ (\A i \in 1 .. k : a[i] = t[i]) /\ a[k + 1] = s[k + 1]
    BY <1>2, <1>4, AppendProperties
<1> HIDE DEF a
<1>6. ASSUME NEW i \in 1 .. k + 1 PROVE u[i] = a[i]
    <2>1. CASE i = k + 1
        BY <1>3, <1>5, <2>1
    <2>2. CASE i # k + 1
        <3>1. i \in 1 .. k
            BY <1>1, <2>2
        <3>2. u[i] = s[i] /\ t[i] = s[i] /\ a[i] = t[i]
            BY <1>2, <1>3, <1>5, <3>1
        <3>3. QED
            BY <3>2
    <2>3. QED
        BY <2>1, <2>2
<1>7. u = a
    BY <1>3, <1>5, <1>6, SeqEqual
<1>8. QED
    BY <1>7 DEF t, u, a

\* A parser that has neither ended nor failed
Going(state, cmd, arg) ==
    [state |-> state, cmd |-> cmd, arg |-> arg, ended |-> FALSE, err |-> "NO_ERROR"]

\* One that has ended, one that has failed, and one that has no room for more
Complete(cmd, arg) ==
    [state |-> "S3", cmd |-> cmd, arg |-> arg, ended |-> TRUE, err |-> "NO_ERROR"]
Failed(cmd, arg) ==
    [state |-> "SERR", cmd |-> cmd, arg |-> arg, ended |-> TRUE, err |-> "INVALID_CHAR"]
Overlong(cmd, arg) ==
    [state |-> "S1", cmd |-> cmd, arg |-> arg, ended |-> FALSE, err |-> "INVALID_ARG"]

\* What arriving in a state makes of it.
LEMMA Arrivals ==
    ASSUME NEW state, NEW a, NEW g
    PROVE  LET p == Going(state, a, g) IN
           /\ Arrived(p, "S0") = Going("S0", a, g)
           /\ Arrived(p, "S1") = Going("S1", a, g)
           /\ Arrived(p, "S2") = Going("S2", a, g)
           /\ Arrived(p, "S3") = Complete(a, g)
           /\ Arrived(p, "SERR") = Failed(a, g)
<1> DEFINE no == FALSE
           yes == TRUE
           e == "NO_ERROR"
           p == [state |-> state, cmd |-> a, arg |-> g, ended |-> no, err |-> e]
           v(to) == [state |-> to, cmd |-> a, arg |-> g, ended |-> no, err |-> e]
           w == [state |-> "S3", cmd |-> a, arg |-> g, ended |-> yes, err |-> e]
           bad == "INVALID_CHAR"
           z == [state |-> "SERR", cmd |-> a, arg |-> g, ended |-> yes, err |-> bad]
<1>1. /\ Going(state, a, g) = p
      /\ Going("S0", a, g) = v("S0") /\ Going("S1", a, g) = v("S1") /\ Going("S2", a, g) = v("S2")
    BY Zenon DEF Going
<1>2. w = Complete(a, g) /\ z = Failed(a, g)
    BY Zenon DEF Complete, Failed
<1> HIDE DEF no, yes, e, bad
<1>3. \A to : [p EXCEPT !.state = to] = v(to)
    OBVIOUS
<1>4. [v("S3") EXCEPT !.ended = yes] = w
    OBVIOUS
<1>5. [v("SERR") EXCEPT !.err = bad, !.ended = yes] = z
    <2> DEFINE x == [state |-> "SERR", cmd |-> a, arg |-> g, ended |-> no, err |-> bad]
    <2>1. [v("SERR") EXCEPT !.err = bad] = x
        OBVIOUS
    <2>2. [x EXCEPT !.ended = yes] = z
        OBVIOUS
    <2> HIDE DEF v, z, x
    <2>3. [v("SERR") EXCEPT !.err = bad, !.ended = yes]
             = [[v("SERR") EXCEPT !.err = bad] EXCEPT !.ended = yes]
        OBVIOUS
    <2>4. QED
        BY <2>1, <2>2, <2>3, Zenon
<1> HIDE DEF p, v, w, z
<1>6. /\ Arrived(p, "S0") = v("S0") /\ Arrived(p, "S1") = v("S1") /\ Arrived(p, "S2") = v("S2")
    <2>1. \A to \in {"S0", "S1", "S2"} : Arrived(p, to) = [p EXCEPT !.state = to]
        BY DEF Arrived
    <2>2. QED
        BY <1>3, <2>1
<1>7. Arrived(p, "S3") = w
    <2>1. Arrived(p, "S3") = final_arrival([p EXCEPT !.state = "S3"])
        BY DEF Arrived
    <2>2. \A q : final_arrival(q) = [q EXCEPT !.ended = yes]
        BY Zenon DEF final_arrival, yes
    <2>3. final_arrival([p EXCEPT !.state = "S3"]) = final_arrival(v("S3"))
        BY <1>3, Zenon
    <2>4. final_arrival(v("S3")) = w
        BY <1>4, <2>2, Zenon
    <2>5. QED
        BY <2>1, <2>3, <2>4, Zenon
<1>8. Arrived(p, "SERR") = z
    <2>1. Arrived(p, "SERR") = error_arrival([p EXCEPT !.state = "SERR"])
        BY DEF Arrived
    <2>2. \A q : error_arrival(q) = [q EXCEPT !.err = bad, !.ended = yes]
        BY Zenon DEF error_arrival, yes, bad
    <2>3. error_arrival([p EXCEPT !.state = "SERR"]) = error_arrival(v("SERR"))
        BY <1>3, Zenon
    <2>4. error_arrival(v("SERR")) = z
        BY <1>5, <2>2, Zenon
    <2>5. QED
        BY <2>1, <2>3, <2>4, Zenon
<1>9. QED
    BY <1>1, <1>2, <1>6, <1>7, <1>8, Zenon

\* What a byte of an argument makes of it.
LEMMA ArgumentSaved ==
    ASSUME NEW state, NEW a, NEW g, NEW c \in Printable
    PROVE  LET p == save_arg(Going(state, a, g), c) IN
           /\ ~(Len(g) >= MAX_ARG_LEN) => p = Going(state, a, Append(g, c))
           /\ Len(g) >= MAX_ARG_LEN => Arrived(p, "S1") = Overlong(a, g)
<1> DEFINE no == FALSE
           e == "NO_ERROR"
           f == "INVALID_ARG"
           p == [state |-> state, cmd |-> a, arg |-> g, ended |-> no, err |-> e]
           u == [state |-> state, cmd |-> a, arg |-> Append(g, c), ended |-> no, err |-> e]
           z == [state |-> "S1", cmd |-> a, arg |-> g, ended |-> no, err |-> f]
<1>1. Going(state, a, g) = p /\ Going(state, a, Append(g, c)) = u /\ Overlong(a, g) = z
    BY Zenon DEF Going, Overlong
<1> HIDE DEF no, e, f
<1>2. [p EXCEPT !.arg = Append(g, c)] = u
    OBVIOUS
<1>3. [[p EXCEPT !.err = f] EXCEPT !.state = "S1"] = z
    <2> DEFINE x == [state |-> state, cmd |-> a, arg |-> g, ended |-> no, err |-> f]
    <2>1. [p EXCEPT !.err = f] = x
        OBVIOUS
    <2>2. [x EXCEPT !.state = "S1"] = z
        OBVIOUS
    <2> HIDE DEF p, z, x
    <2>3. QED
        BY <2>1, <2>2, Zenon
<1>4. p.arg = g
    OBVIOUS
<1> HIDE DEF p, u, z
<1>5. ~(Len(g) >= MAX_ARG_LEN) => save_arg(p, c) = u
    <2>1. ~(Len(g) >= MAX_ARG_LEN) => save_arg(p, c) = [p EXCEPT !.arg = Append(g, c)]
        BY <1>4, Zenon DEF save_arg
    <2>2. QED
        BY <1>2, <2>1, Zenon
<1>6. Len(g) >= MAX_ARG_LEN => Arrived(save_arg(p, c), "S1") = z
    <2>1. Len(g) >= MAX_ARG_LEN => save_arg(p, c) = [p EXCEPT !.err = f]
        BY <1>4, Zenon DEF save_arg, f
    <2>2. \A q : Arrived(q, "S1") = [q EXCEPT !.state = "S1"]
        BY DEF Arrived
    <2>3. QED
        BY <1>3, <2>1, <2>2, Zenon
<1>7. QED
    BY <1>1, <1>5, <1>6, Zenon

\* What a byte makes of a parser.
LEMMA Moves ==
    ASSUME NEW kind \in Kinds, NEW a \in Seq(Byte), NEW g \in Seq(Byte), NEW c \in Activators
    PROVE  LET r(state) == process_char(Going(state, a, g), kind, c)
               more == IF c \in Kept(kind) /\ Len(a) < CmdLen(kind) THEN Append(a, c) ELSE a
           IN
           /\ c \notin {"SP", "CR", "LF"} => r("S0") = Going("S0", more, g)
           /\ c = "SP" => r("S0") = Going("S1", a, g)
           /\ c = "CR" => r("S0") = Going("S2", a, g) /\ r("S1") = Going("S2", a, g)
           /\ c = "LF" => r("S0") = Failed(a, g) /\ r("S1") = Failed(a, g)
           /\ c \notin {"CR", "LF"} /\ Len(g) < MAX_ARG_LEN
                => r("S1") = Going("S1", a, Append(g, c))
           /\ c \notin {"CR", "LF"} /\ ~(Len(g) < MAX_ARG_LEN) => r("S1") = Overlong(a, g)
           /\ c = "LF" => r("S2") = Complete(a, g)
           /\ c # "LF" => r("S2") = Failed(a, g)
<1> DEFINE p(state) == Going(state, a, g)
           r(state) == process_char(p(state), kind, c)
           q(state) == Departed(p(state), kind, c)
           more == IF c \in Kept(kind) /\ Len(a) < CmdLen(kind) THEN Append(a, c) ELSE a
<1>1. ASSUME NEW state \in {"S0", "S1", "S2"}
      PROVE  /\ p(state) \in Parser /\ p(state).state = state
             /\ r(state) = Arrived(q(state), Target(state, c))
    <2>1. p(state) \in Parser /\ p(state).state = state
        BY DEF Going, Parser, States
    <2> DEFINE x == p(state)
    <2>2. x \in Parser /\ x.state # "none"
        BY <2>1
    <2> HIDE DEF x
    <2>3. process_char(x, kind, c) = Arrived(Departed(x, kind, c), Target(x.state, c))
        BY <2>2, ProcessCharIs
    <2>4. QED
        BY <2>1, <2>3 DEF x
<1>2. Len(g) \in Nat /\ MAX_ARG_LEN \in Nat
    BY LenProperties, LengthsAssumption
<1>3. /\ c \notin {"CR", "LF"} => c \in Printable
      /\ c \in {"CR", "LF"} => c \notin Printable
      /\ c \in {"SP", "CR", "LF"} => c \notin Kept(kind)
    BY BytesAre DEF Kept
<1>4. /\ q("S0") = save_cmd(p("S0"), kind, c)
      /\ q("S1") = save_arg(p("S1"), c)
      /\ q("S2") = p("S2")
    BY DEF Departed, Going
<1>5. q("S0") = Going("S0", more, g)
    <2>1. CASE c \in Kept(kind) /\ Len(a) < CmdLen(kind)
        BY <1>4, <2>1 DEF save_cmd, Going
    <2>2. CASE ~(c \in Kept(kind) /\ Len(a) < CmdLen(kind))
        BY <1>4, <2>2 DEF save_cmd, Going
    <2>3. QED
        BY <2>1, <2>2
<1>6. c \in {"SP", "CR", "LF"} => q("S0") = p("S0")
    BY <1>3, <1>5
<1>7. c \in {"CR", "LF"} => q("S1") = p("S1")
    BY <1>3, <1>4 DEF save_arg
<1>8. ASSUME c \notin {"CR", "LF"}, Len(g) < MAX_ARG_LEN
      PROVE  q("S1") = Going("S1", a, Append(g, c))
    <2>1. c \in Printable /\ ~(Len(g) >= MAX_ARG_LEN)
        BY <1>2, <1>3, <1>8
    <2>2. save_arg(Going("S1", a, g), c) = Going("S1", a, Append(g, c))
        BY <2>1, ArgumentSaved
    <2>3. QED
        BY <1>4, <2>2
<1>9. ASSUME c \notin {"CR", "LF"}, ~(Len(g) < MAX_ARG_LEN)
      PROVE  Arrived(q("S1"), "S1") = Overlong(a, g)
    <2>1. c \in Printable /\ Len(g) >= MAX_ARG_LEN
        BY <1>2, <1>3, <1>9
    <2>2. Arrived(save_arg(Going("S1", a, g), c), "S1") = Overlong(a, g)
        BY <2>1, ArgumentSaved
    <2>3. QED
        BY <1>4, <2>2
<1>10. /\ \A state \in {"S0", "S1", "S2"} : r(state) = Arrived(q(state), Target(state, c))
       /\ "S0" \in {"S0", "S1", "S2"} /\ "S1" \in {"S0", "S1", "S2"} /\ "S2" \in {"S0", "S1", "S2"}
    BY <1>1
<1>11. /\ c \notin {"SP", "CR", "LF"} => Target("S0", c) = "S0"
       /\ c = "SP" => Target("S0", c) = "S1"
       /\ c = "CR" => Target("S0", c) = "S2" /\ Target("S1", c) = "S2"
       /\ c \notin {"CR", "LF"} => Target("S1", c) = "S1"
       /\ c = "LF" => Target("S0", c) = "SERR" /\ Target("S1", c) = "SERR"
       /\ c = "LF" => Target("S2", c) = "S3"
       /\ c # "LF" => Target("S2", c) = "SERR"
    BY DEF Target
<1>12. ASSUME NEW state \in {"S0", "S1", "S2"}, NEW to, NEW x, q(state) = x, Target(state, c) = to
       PROVE  r(state) = Arrived(x, to)
    BY <1>10, <1>12, Zenon
<1>a. \A state, x, y : Arrived(Going(state, x, y), "S0") = Going("S0", x, y)
    BY Arrivals
<1>b. \A state, x, y : Arrived(Going(state, x, y), "S1") = Going("S1", x, y)
    BY Arrivals
<1>c. \A state, x, y : Arrived(Going(state, x, y), "S2") = Going("S2", x, y)
    BY Arrivals
<1>d. \A state, x, y : Arrived(Going(state, x, y), "S3") = Complete(x, y)
    BY Arrivals
<1>e. \A state, x, y : Arrived(Going(state, x, y), "SERR") = Failed(x, y)
    BY Arrivals
<1> HIDE DEF r, q, more
<1>13. ASSUME c \notin {"SP", "CR", "LF"} PROVE r("S0") = Going("S0", more, g)
    <2>1. r("S0") = Arrived(Going("S0", more, g), "S0")
        BY <1>5, <1>10, <1>11, <1>12, <1>13
    <2>2. QED
        BY <1>a, <2>1, Zenon
<1>14. ASSUME c = "SP" PROVE r("S0") = Going("S1", a, g)
    <2>1. r("S0") = Arrived(Going("S0", a, g), "S1")
        BY <1>6, <1>10, <1>11, <1>12, <1>14
    <2>2. QED
        BY <1>b, <2>1, Zenon
<1>15. ASSUME c = "CR" PROVE r("S0") = Going("S2", a, g) /\ r("S1") = Going("S2", a, g)
    <2>1. r("S0") = Arrived(Going("S0", a, g), "S2") /\ r("S1") = Arrived(Going("S1", a, g), "S2")
        BY <1>6, <1>7, <1>10, <1>11, <1>12, <1>15
    <2>2. QED
        BY <1>c, <2>1, Zenon
<1>16. ASSUME c = "LF" PROVE r("S0") = Failed(a, g) /\ r("S1") = Failed(a, g)
    <2>1. r("S0") = Arrived(Going("S0", a, g), "SERR")
          /\ r("S1") = Arrived(Going("S1", a, g), "SERR")
        BY <1>6, <1>7, <1>10, <1>11, <1>12, <1>16
    <2>2. QED
        BY <1>e, <2>1, Zenon
<1>17. ASSUME c \notin {"CR", "LF"}, Len(g) < MAX_ARG_LEN
       PROVE  r("S1") = Going("S1", a, Append(g, c))
    <2>1. r("S1") = Arrived(Going("S1", a, Append(g, c)), "S1")
        BY <1>8, <1>10, <1>11, <1>12, <1>17
    <2>2. QED
        BY <1>b, <2>1, Zenon
<1>18. ASSUME c \notin {"CR", "LF"}, ~(Len(g) < MAX_ARG_LEN) PROVE r("S1") = Overlong(a, g)
    <2>1. r("S1") = Arrived(q("S1"), "S1")
        BY <1>10, <1>11, <1>12, <1>18
    <2>2. QED
        BY <1>9, <1>18, <2>1, Zenon
<1>19. ASSUME c = "LF" PROVE r("S2") = Complete(a, g)
    <2>1. r("S2") = Arrived(Going("S2", a, g), "S3")
        BY <1>4, <1>10, <1>11, <1>12, <1>19
    <2>2. QED
        BY <1>d, <2>1, Zenon
<1>20. ASSUME c # "LF" PROVE r("S2") = Failed(a, g)
    <2>1. r("S2") = Arrived(Going("S2", a, g), "SERR")
        BY <1>4, <1>10, <1>11, <1>12, <1>20
    <2>2. QED
        BY <1>e, <2>1, Zenon
<1>21. QED
    BY <1>13, <1>14, <1>15, <1>16, <1>17, <1>18, <1>19, <1>20, Zenon DEF r, more

\* On the way through a line of the monitor.
LEMMA Callbacks ==
    ASSUME NEW a \in Seq(Byte), NEW g \in Seq(Byte), NEW c \in Activators
    PROVE  LET r(state) == process_char(Going(state, a, g), "monitor", c) IN
           /\ c \notin {"SP", "CR", "LF"} /\ Len(a) < MONITOR_MAX_CMD_LEN
                => r("S0") = Going("S0", Append(a, c), g)
           /\ c = "SP" => r("S0") = Going("S1", a, g)
           /\ c = "CR" => r("S0") = Going("S2", a, g) /\ r("S1") = Going("S2", a, g)
           /\ c = "LF" => r("S0").err # "NO_ERROR" /\ r("S1").err # "NO_ERROR"
           /\ c \notin {"CR", "LF"} /\ Len(g) < MAX_ARG_LEN
                => r("S1") = Going("S1", a, Append(g, c))
           /\ c \notin {"CR", "LF"} /\ ~(Len(g) < MAX_ARG_LEN)
                => r("S1").err # "NO_ERROR"
           /\ c = "LF" => r("S2") = Complete(a, g)
<1> DEFINE r(state) == process_char(Going(state, a, g), "monitor", c)
           more == IF c \in Kept("monitor") /\ Len(a) < CmdLen("monitor") THEN Append(a, c) ELSE a
<1>1. "monitor" \in Kinds
    BY DEF Kinds
<1>2. /\ c \notin {"SP", "CR", "LF"} => r("S0") = Going("S0", more, g)
      /\ c = "SP" => r("S0") = Going("S1", a, g)
      /\ c = "CR" => r("S0") = Going("S2", a, g) /\ r("S1") = Going("S2", a, g)
      /\ c = "LF" => r("S0") = Failed(a, g) /\ r("S1") = Failed(a, g)
      /\ c \notin {"CR", "LF"} /\ Len(g) < MAX_ARG_LEN => r("S1") = Going("S1", a, Append(g, c))
      /\ c \notin {"CR", "LF"} /\ ~(Len(g) < MAX_ARG_LEN) => r("S1") = Overlong(a, g)
      /\ c = "LF" => r("S2") = Complete(a, g)
    BY <1>1, Moves, Zenon
<1>3. c \notin {"SP", "CR", "LF"} /\ Len(a) < MONITOR_MAX_CMD_LEN => more = Append(a, c)
    BY BytesAre DEF Kept, CmdLen
<1>4. Failed(a, g).err # "NO_ERROR" /\ Overlong(a, g).err # "NO_ERROR"
    BY DEF Failed, Overlong
<1> HIDE DEF r, more
<1>5. QED
    BY <1>2, <1>3, <1>4, Zenon DEF r

\* The parser at each place of a line.
LEMMA Places ==
    ASSUME NEW line \in Command
    PROVE  LET n == Len(line.cmd)
               m == Len(line.arg)
           IN /\ \A c \in 0 .. n : At(line, c) = Going("S0", SubSeq(line.cmd, 1, c), <<>>)
              /\ m = 0 => At(line, n + 1) = Going("S2", line.cmd, line.arg)
              /\ m # 0 => /\ \A j \in 0 .. m :
                                At(line, n + 1 + j) = Going("S1", line.cmd, SubSeq(line.arg, 1, j))
                          /\ At(line, n + m + 2) = Going("S2", line.cmd, line.arg)
              /\ At(line, Len(Bytes(line)))
                   = [state |-> "S3", cmd |-> line.cmd, arg |-> line.arg, ended |-> TRUE,
                      err |-> "NO_ERROR"]
<1> DEFINE cmd == line.cmd
           arg == line.arg
           n == Len(cmd)
           m == Len(arg)
           end == Len(Bytes(line))
           i(c) == IF c <= n THEN c ELSE n
           j(c) == IF c <= n + 1 THEN 0 ELSE IF c <= n + 1 + m THEN c - n - 1 ELSE m
           state(c) == IF c <= n THEN "S0" ELSE IF c = end THEN "S3"
                       ELSE IF c = end - 1 THEN "S2" ELSE "S1"
           over(c) == c = end
           Made(s, k, h, o) == [state |-> s, cmd |-> SubSeq(cmd, 1, k), arg |-> SubSeq(arg, 1, h),
                                ended |-> o, err |-> "NO_ERROR"]
<1>1. n \in Nat \ {0} /\ m \in Nat /\ end \in Nat
      /\ (m = 0 => end = n + 2) /\ (m # 0 => end = n + m + 3)
    <2>1. Bytes(line) \in Seq(Byte)
        BY BytesIs
    <2>2. end \in Nat
        BY <2>1, LenProperties
    <2>3. n \in Nat \ {0} /\ m \in Nat
        BY BytesIs
    <2>4. (m = 0 => end = n + 2) /\ (m # 0 => end = n + m + 3)
        BY BytesIs
    <2>5. QED
        BY <2>2, <2>3, <2>4
<1>2. SubSeq(cmd, 1, n) = cmd /\ SubSeq(arg, 1, m) = arg /\ SubSeq(arg, 1, 0) = <<>>
    <2>1. cmd \in Seq(Activators \ {"SP", "CR"}) /\ arg \in Seq(Activators \ {"CR"})
        BY DEF Command
    <2>2. QED
        BY <2>1, SubSeqFull, SubSeqEmpty
<1>3. \A c : At(line, c) = Made(state(c), i(c), j(c), over(c))
    BY Zenon DEF At
<1>4. /\ \A s, k : Made(s, k, 0, FALSE) = Going(s, SubSeq(cmd, 1, k), SubSeq(arg, 1, 0))
      /\ \A s, h : Made(s, n, h, FALSE) = Going(s, SubSeq(cmd, 1, n), SubSeq(arg, 1, h))
    BY Zenon DEF Going
<1>5. Made("S3", n, m, TRUE)
        = [state |-> "S3", cmd |-> cmd, arg |-> arg, ended |-> TRUE, err |-> "NO_ERROR"]
    BY <1>2, Zenon
<1> HIDE DEF n, m, cmd, arg, Made
<1>6. ASSUME NEW c \in 0 .. n PROVE At(line, c) = Going("S0", SubSeq(cmd, 1, c), <<>>)
    <2>1. state(c) = "S0" /\ i(c) = c /\ j(c) = 0 /\ over(c) = FALSE
        BY <1>1
    <2> HIDE DEF state, i, j, over
    <2>2. QED
        BY <1>2, <1>3, <1>4, <2>1, Zenon
<1>7. ASSUME m = 0 PROVE At(line, n + 1) = Going("S2", cmd, arg)
    <2>1. state(n + 1) = "S2" /\ i(n + 1) = n /\ j(n + 1) = m /\ over(n + 1) = FALSE
        BY <1>1, <1>7
    <2> HIDE DEF state, i, j, over
    <2>2. QED
        BY <1>2, <1>3, <1>4, <2>1, Zenon
<1>8. ASSUME m # 0, NEW h \in 0 .. m
      PROVE  At(line, n + 1 + h) = Going("S1", cmd, SubSeq(arg, 1, h))
    <2> DEFINE c == n + 1 + h
    <2>1. state(c) = "S1" /\ i(c) = n /\ j(c) = h /\ over(c) = FALSE
        BY <1>1, <1>8
    <2> HIDE DEF state, i, j, over, c
    <2>2. At(line, c) = Going("S1", cmd, SubSeq(arg, 1, h))
        BY <1>2, <1>3, <1>4, <2>1, Zenon
    <2>3. QED
        BY <2>2 DEF c
<1>9. ASSUME m # 0 PROVE At(line, n + m + 2) = Going("S2", cmd, arg)
    <2> DEFINE c == n + m + 2
    <2>1. state(c) = "S2" /\ i(c) = n /\ j(c) = m /\ over(c) = FALSE
        BY <1>1, <1>9
    <2> HIDE DEF state, i, j, over, c
    <2>2. At(line, c) = Going("S2", cmd, arg)
        BY <1>2, <1>3, <1>4, <2>1, Zenon
    <2>3. QED
        BY <2>2 DEF c
<1>10. At(line, end)
         = [state |-> "S3", cmd |-> cmd, arg |-> arg, ended |-> TRUE, err |-> "NO_ERROR"]
    <2>1. state(end) = "S3" /\ i(end) = n /\ j(end) = m /\ over(end) = TRUE
        BY <1>1
    <2> HIDE DEF state, i, j, over, end
    <2>2. QED
        BY <1>3, <1>5, <2>1, Zenon
<1>11. QED
    BY <1>6, <1>7, <1>8, <1>9, <1>10 DEF n, m, cmd, arg

\* The next byte of a line takes the parser to the next place of it, unless it
\* is one the automaton does not want.
LEMMA LineGoesOn ==
    ASSUME NEW line \in Command, NEW c \in 0 .. Len(Bytes(line)) - 1
    PROVE  \/ process_char(At(line, c), "monitor", Bytes(line)[c + 1]) = At(line, c + 1)
           \/ process_char(At(line, c), "monitor", Bytes(line)[c + 1]).err # "NO_ERROR"
<1> DEFINE cmd == line.cmd
           arg == line.arg
           n == Len(cmd)
           m == Len(arg)
           w == Bytes(line)
           byte == w[c + 1]
           r(p) == process_char(p, "monitor", byte)
<1>1. /\ n \in Nat \ {0} /\ m \in Nat /\ w \in Seq(Byte)
      /\ \A i \in 1 .. n : w[i] = cmd[i]
      /\ m = 0 => Len(w) = n + 2 /\ w[n + 1] = "CR" /\ w[n + 2] = "LF"
      /\ m # 0 => /\ Len(w) = n + m + 3 /\ w[n + 1] = "SP"
                  /\ \A i \in 1 .. m : w[n + 1 + i] = arg[i]
                  /\ w[n + m + 2] = "CR" /\ w[n + m + 3] = "LF"
    BY BytesIs
<1>2. /\ cmd \in Seq(Activators \ {"SP", "CR"}) /\ arg \in Seq(Activators \ {"CR"})
      /\ n <= MONITOR_MAX_CMD_LEN
    BY DEF Command
<1>3. /\ n \in Nat /\ m \in Nat /\ c \in Nat /\ c + 1 \in Nat /\ c < Len(w)
      /\ Len(w) \in Nat /\ (m = 0 => Len(w) = n + 2) /\ (m # 0 => Len(w) = n + m + 3)
    <2>1. Len(w) \in Nat
        BY <1>1, LenProperties
    <2>2. n \in Nat \ {0} /\ m \in Nat
          /\ (m = 0 => Len(w) = n + 2) /\ (m # 0 => Len(w) = n + m + 3)
        BY <1>1
    <2>3. c \in 0 .. Len(w) - 1
        OBVIOUS
    <2> HIDE DEF n, m, w
    <2>4. c \in Nat /\ c + 1 \in Nat /\ c < Len(w)
        BY <2>1, <2>3
    <2>5. n \in Nat /\ m \in Nat
        BY <2>2
    <2>6. QED
        BY <2>1, <2>2, <2>4, <2>5, Zenon
<1>4. /\ \A d \in 0 .. n : At(line, d) = Going("S0", SubSeq(cmd, 1, d), <<>>)
      /\ m = 0 => At(line, n + 1) = Going("S2", cmd, arg)
      /\ m # 0 => /\ \A j \in 0 .. m : At(line, n + 1 + j) = Going("S1", cmd, SubSeq(arg, 1, j))
                  /\ At(line, n + m + 2) = Going("S2", cmd, arg)
      /\ At(line, Len(w)) = [state |-> "S3", cmd |-> cmd, arg |-> arg, ended |-> TRUE,
                             err |-> "NO_ERROR"]
    BY Places
<1>5. /\ cmd \in Seq(Byte) /\ arg \in Seq(Byte) /\ <<>> \in Seq(Byte)
      /\ {"SP", "CR", "LF"} \subseteq Activators
    <2>1. Activators \ {"SP", "CR"} \subseteq Byte /\ Activators \ {"CR"} \subseteq Byte
          /\ {"SP", "CR", "LF"} \subseteq Activators
        BY BytesAre
    <2>2. QED
        BY <1>2, <2>1, SeqMonotonic, EmptySeq
<1> HIDE DEF cmd, arg, w
<1>6. ASSUME c < n
      PROVE  r(At(line, c)) = At(line, c + 1) \/ r(At(line, c)).err # "NO_ERROR"
    <2>1. c \in 0 .. n /\ c + 1 \in 0 .. n /\ c + 1 \in 1 .. n /\ c \in 0 .. Len(cmd) - 1
          /\ c \in 0 .. Len(cmd)
        BY <1>3, <1>6
    <2> DEFINE a == SubSeq(cmd, 1, c)
    <2>2. a \in Seq(Byte) /\ Len(a) = c
        BY <1>5, <2>1, TakeIs
    <2>3. byte = cmd[c + 1]
        BY <1>1, <2>1
    <2>4. cmd[c + 1] \in Activators \ {"SP", "CR"}
        BY <1>2, <2>1, ElementOfSeq
    <2>5. At(line, c) = Going("S0", a, <<>>)
        BY <1>4, <2>1
    <2>6. At(line, c + 1) = Going("S0", Append(a, byte), <<>>)
        <3>1. SubSeq(cmd, 1, c + 1) = Append(a, cmd[c + 1])
            BY <1>5, <2>1, TakeOneMore
        <3>2. QED
            BY <1>4, <2>1, <2>3, <3>1
    <2>7. c < MONITOR_MAX_CMD_LEN
        BY <1>2, <1>3, <1>6, LengthsAssumption
    <2> HIDE DEF a, byte
    <2>8. CASE byte = "LF"
        <3>1. byte \in Activators
            BY <2>3, <2>4
        <3>2. r(Going("S0", a, <<>>)).err # "NO_ERROR"
            BY <1>5, <2>2, <2>8, <3>1, Callbacks
        <3>3. QED
            BY <2>5, <3>2
    <2>9. CASE byte # "LF"
        <3>1. byte \in Activators /\ byte \notin {"SP", "CR", "LF"} /\ Len(a) < MONITOR_MAX_CMD_LEN
            BY <2>2, <2>3, <2>4, <2>7, <2>9
        <3>2. r(Going("S0", a, <<>>)) = Going("S0", Append(a, byte), <<>>)
            BY <1>5, <2>2, <3>1, Callbacks
        <3>3. QED
            BY <2>5, <2>6, <3>2
    <2>10. QED
        BY <2>8, <2>9
<1>7. ASSUME c = n
      PROVE  r(At(line, c)) = At(line, c + 1)
    <2>1. n \in 0 .. n /\ At(line, c) = Going("S0", cmd, <<>>)
        <3>1. n \in 0 .. n
            BY <1>3
        <3>2. SubSeq(cmd, 1, n) = cmd
            BY <1>5, SubSeqFull
        <3>3. QED
            BY <1>4, <1>7, <3>1, <3>2
    <2>2. CASE m = 0
        <3>1. byte = "CR" /\ arg = <<>> /\ At(line, c + 1) = Going("S2", cmd, arg)
            BY <1>1, <1>4, <1>5, <1>7, <2>2, EmptySeq
        <3> HIDE DEF byte
        <3>2. r(Going("S0", cmd, <<>>)) = Going("S2", cmd, <<>>)
            BY <1>5, <3>1, Callbacks
        <3>3. QED
            BY <2>1, <3>1, <3>2
    <2>3. CASE m # 0
        <3>1. byte = "SP"
            BY <1>1, <1>7, <2>3
        <3>2. At(line, c + 1) = Going("S1", cmd, <<>>)
            <4>1. 0 \in 0 .. m /\ n + 1 + 0 = c + 1
                BY <1>3, <1>7
            <4>2. SubSeq(arg, 1, 0) = <<>>
                BY SubSeqEmpty
            <4>3. At(line, n + 1 + 0) = Going("S1", cmd, SubSeq(arg, 1, 0))
                BY <1>4, <2>3, <4>1
            <4>4. QED
                BY <4>1, <4>2, <4>3
        <3> HIDE DEF byte
        <3>3. r(Going("S0", cmd, <<>>)) = Going("S1", cmd, <<>>)
            BY <1>5, <3>1, Callbacks
        <3>4. QED
            BY <2>1, <3>2, <3>3
    <2>4. QED
        BY <2>2, <2>3
<1>8. ASSUME m # 0, NEW j \in 0 .. m, c = n + 1 + j
      PROVE  r(At(line, c)) = At(line, c + 1) \/ r(At(line, c)).err # "NO_ERROR"
    <2> DEFINE g == SubSeq(arg, 1, j)
    <2>1. At(line, c) = Going("S1", cmd, g)
        BY <1>4, <1>8
    <2>2. g \in Seq(Byte) /\ Len(g) = j
        BY <1>5, TakeIs
    <2>3. CASE j = m
        <3>1. c + 1 = n + m + 2
            BY <1>3, <1>8, <2>3
        <3>2. byte = "CR" /\ At(line, c + 1) = Going("S2", cmd, arg)
            BY <1>1, <1>4, <1>8, <3>1
        <3>3. g = arg
            BY <1>5, <2>3, SubSeqFull
        <3> HIDE DEF byte, g
        <3>4. r(Going("S1", cmd, g)) = Going("S2", cmd, g)
            BY <1>5, <2>2, <3>2, Callbacks
        <3>5. QED
            BY <2>1, <3>2, <3>3, <3>4
    <2>4. CASE j # m
        <3>1. /\ j + 1 \in 1 .. m /\ j + 1 \in 0 .. m /\ j \in 0 .. Len(arg) - 1
              /\ c + 1 = n + 1 + (j + 1)
            BY <1>3, <1>8, <2>4
        <3>2. byte = arg[j + 1]
            <4>1. w[n + 1 + (j + 1)] = arg[j + 1]
                BY <1>1, <1>8, <3>1
            <4>2. QED
                BY <3>1, <4>1
        <3>3. arg[j + 1] \in Activators \ {"CR"}
            BY <1>2, <3>1, ElementOfSeq
        <3>4. At(line, c + 1) = Going("S1", cmd, Append(g, byte))
            <4>1. SubSeq(arg, 1, j + 1) = Append(g, arg[j + 1])
                BY <1>5, <3>1, TakeOneMore
            <4>2. At(line, n + 1 + (j + 1)) = Going("S1", cmd, SubSeq(arg, 1, j + 1))
                BY <1>4, <1>8, <3>1
            <4>3. QED
                BY <3>1, <3>2, <4>1, <4>2
        <3> HIDE DEF byte, g
        <3>5. byte \in Activators /\ byte # "CR"
            BY <3>2, <3>3
        <3>6. CASE byte = "LF"
            <4>1. r(Going("S1", cmd, g)).err # "NO_ERROR"
                BY <1>5, <2>2, <3>5, <3>6, Callbacks
            <4>2. QED
                BY <2>1, <4>1
        <3>7. CASE byte # "LF" /\ Len(g) < MAX_ARG_LEN
            <4>1. r(Going("S1", cmd, g)) = Going("S1", cmd, Append(g, byte))
                BY <1>5, <2>2, <3>5, <3>7, Callbacks
            <4>2. QED
                BY <2>1, <3>4, <4>1
        <3>8. CASE byte # "LF" /\ ~(Len(g) < MAX_ARG_LEN)
            <4>1. r(Going("S1", cmd, g)).err # "NO_ERROR"
                BY <1>5, <2>2, <3>5, <3>8, Callbacks
            <4>2. QED
                BY <2>1, <4>1
        <3>9. QED
            BY <3>6, <3>7, <3>8
    <2>5. QED
        BY <2>3, <2>4
<1>9. ASSUME c + 1 = Len(w)
      PROVE  r(At(line, c)) = At(line, c + 1)
    <2>1. At(line, c) = Going("S2", cmd, arg)
        <3>1. (m = 0 => c = n + 1) /\ (m # 0 => c = n + m + 2)
            BY <1>3, <1>9
        <3>2. QED
            BY <1>4, <3>1
    <2>2. byte = "LF"
        <3>1. (m = 0 => c + 1 = n + 2) /\ (m # 0 => c + 1 = n + m + 3)
            BY <1>3, <1>9
        <3>2. QED
            BY <1>1, <3>1
    <2> HIDE DEF byte
    <2>3. r(Going("S2", cmd, arg)) = [state |-> "S3", cmd |-> cmd, arg |-> arg, ended |-> TRUE,
                                      err |-> "NO_ERROR"]
        <3>1. r(Going("S2", cmd, arg)) = Complete(cmd, arg)
            BY <1>5, <2>2, Callbacks
        <3> HIDE DEF r
        <3>2. QED
            BY <3>1, Zenon DEF Complete
    <2>4. QED
        BY <1>4, <1>9, <2>1, <2>3, Zenon
<1>10. CASE m # 0 /\ n < c /\ c + 1 < Len(w)
    <2>1. c - n - 1 \in 0 .. m /\ c = n + 1 + (c - n - 1)
        BY <1>3, <1>10
    <2>2. r(At(line, c)) = At(line, c + 1) \/ r(At(line, c)).err # "NO_ERROR"
        BY <1>8, <1>10, <2>1
    <2>3. QED
        BY <2>2 DEF w
<1>11. CASE c < n \/ c = n \/ c + 1 = Len(w)
    <2>1. r(At(line, c)) = At(line, c + 1) \/ r(At(line, c)).err # "NO_ERROR"
        BY <1>6, <1>7, <1>9, <1>11
    <2>2. QED
        BY <2>1 DEF w
<1>12. (m # 0 /\ n < c /\ c + 1 < Len(w)) \/ (c < n \/ c = n \/ c + 1 = Len(w))
    BY <1>3
<1>13. QED
    BY <1>10, <1>11, <1>12

\* With a line that is complete, after an error and at the end of what there
\* is to read, the parser does nothing.
LEMMA ParseStays ==
    ASSUME NEW n \in Nat, NEW kind \in Kinds, NEW p \in Parser, NEW b \in Buffer(Byte, n),
           Stopped(p) \/ Unread(b) = <<>>
    PROVE  parse(p, kind, b) = [parser |-> p, buffer |-> b]
<1> DEFINE u == Unread(b)
           start == [parser |-> p, buffer |-> b]
<1>1. PICK f \in [0 .. Len(u) -> Reading(n)] :
         /\ f[0] = start
         /\ \A k \in 1 .. Len(u) : f[k] = Fed(f[k - 1], kind, u[k])
         /\ \A k \in 0 .. Len(u) : Taken(f[k], b, k)
         /\ parse(p, kind, b) = f[Len(u)]
    BY ParseRuns
<1>2. Len(u) \in Nat /\ (u = <<>> => Len(u) = 0)
    BY BufferIs, LenProperties, EmptySeq
<1> HIDE DEF u
<1>3. CASE u = <<>>
    BY <1>1, <1>2, <1>3, Zenon
<1>4. CASE Stopped(p)
    <2> DEFINE T == {k \in 0 .. Len(u) : f[k] # start}
    <2>1. SUFFICES ASSUME T # {} PROVE FALSE
        <3>1. Len(u) \in 0 .. Len(u)
            BY <1>2
        <3>2. f[Len(u)] = start
            BY <2>1, <3>1
        <3>3. QED
            BY <1>1, <3>2
    <2>2. T \subseteq Nat
        BY <1>2
    <2>3. PICK k \in T : \A y \in T : k <= y
        BY <2>1, <2>2, LeastNumber
    <2>4. k \in 0 .. Len(u) /\ f[k] # start
        OBVIOUS
    <2>5. k # 0
        BY <1>1, <2>4
    <2>6. k \in 1 .. Len(u) /\ k - 1 \in 0 .. Len(u) /\ ~(k <= k - 1)
        BY <1>2, <2>4, <2>5
    <2>7. f[k - 1] = start
        BY <2>3, <2>6
    <2>8. f[k] = Fed(f[k - 1], kind, u[k])
        BY <1>1, <2>6
    <2>9. start.parser = p
        OBVIOUS
    <2> HIDE DEF start, T
    <2>10. Fed(start, kind, u[k]) = start
        BY <1>4, <2>9, Zenon DEF Fed
    <2>11. QED
        BY <2>4, <2>7, <2>8, <2>10, Zenon
<1>5. QED
    BY <1>3, <1>4 DEF u

\* What parse returns is a parser and the buffer, read up to some place.
LEMMA ParseTyped ==
    ASSUME NEW n \in Nat, NEW kind \in Kinds, NEW p \in Parser, NEW b \in Buffer(Byte, n)
    PROVE  /\ parse(p, kind, b).parser \in Parser
           /\ parse(p, kind, b).buffer \in Buffer(Byte, n)
           /\ Rewound(b) => Rewound(parse(p, kind, b).buffer)
<1> DEFINE u == Unread(b)
<1>1. PICK f \in [0 .. Len(u) -> Reading(n)] :
         /\ f[0] = [parser |-> p, buffer |-> b]
         /\ \A k \in 1 .. Len(u) : f[k] = Fed(f[k - 1], kind, u[k])
         /\ \A k \in 0 .. Len(u) : Taken(f[k], b, k)
         /\ parse(p, kind, b) = f[Len(u)]
    BY ParseRuns
<1>2. Len(u) \in 0 .. Len(u)
    BY BufferIs, LenProperties
<1> HIDE DEF u
<1>3. parse(p, kind, b) \in Reading(n) /\ Taken(parse(p, kind, b), b, Len(u))
    BY <1>1, <1>2
<1>4. QED
    BY <1>3 DEF Reading, Taken

\* A parser in the middle of a line, of which the buffer holds the next bytes,
\* comes as far as they go or to the end of the line, and leaves what is behind.
LEMMA ParseLine ==
    ASSUME NEW n \in Nat, NEW b \in Buffer(Byte, n), NEW line \in Command,
           NEW c \in 0 .. Len(Bytes(line)) - 1,
           \A i \in 1 .. Len(Unread(b)) :
              c + i <= Len(Bytes(line)) => Unread(b)[i] = Bytes(line)[c + i]
    PROVE  LET r == parse(At(line, c), "monitor", b) IN
           \/ r.parser.err # "NO_ERROR"
           \/ \E j \in 0 .. Len(Unread(b)) :
                 /\ c + j <= Len(Bytes(line))
                 /\ r.parser = At(line, c + j)
                 /\ Unread(r.buffer) = Drop(Unread(b), j)
                 /\ c + j < Len(Bytes(line)) => j = Len(Unread(b))
<1> DEFINE u == Unread(b)
           w == Bytes(line)
           p == At(line, c)
           Came(d, k) ==
              \/ d.parser.err # "NO_ERROR"
              \/ \E j \in 0 .. k : /\ c + j <= Len(w)
                                   /\ d.parser = At(line, c + j)
                                   /\ Unread(d.buffer) = Drop(u, j)
                                   /\ c + j < Len(w) => j = k
<1>1. w \in Seq(Byte) /\ Len(w) \in Nat /\ u \in Seq(Byte) /\ Len(u) \in Nat
    BY BytesIs, BufferIs, LenProperties
<1>2. c \in 0 .. Len(w) - 1
    OBVIOUS
<1>3. c \in Nat /\ c < Len(w) /\ c \in 0 .. Len(w)
    BY <1>1, <1>2
<1>4. p \in Parser /\ "monitor" \in Kinds
    BY <1>3, AtIs DEF Kinds
<1>5. PICK f \in [0 .. Len(u) -> Reading(n)] :
         /\ f[0] = [parser |-> p, buffer |-> b]
         /\ \A k \in 1 .. Len(u) : f[k] = Fed(f[k - 1], "monitor", u[k])
         /\ \A k \in 0 .. Len(u) : Taken(f[k], b, k)
         /\ parse(p, "monitor", b) = f[Len(u)]
    BY <1>4, ParseRuns
<1>6. \A i \in 1 .. Len(u) : c + i <= Len(w) => u[i] = w[c + i]
    OBVIOUS
<1> HIDE DEF u, w, Came
<1>7. Came(f[0], 0)
    <2>1. f[0].parser = p /\ f[0].buffer = b
        BY <1>5
    <2>2. Drop(u, 0) = u
        BY <1>1, SubSeqFull DEF Drop
    <2>3. 0 \in 0 .. 0 /\ c + 0 = c /\ c + 0 <= Len(w)
        BY <1>1, <1>3
    <2>4. QED
        BY <2>1, <2>2, <2>3 DEF Came, u
<1>8. ASSUME NEW k \in 1 .. Len(u), Came(f[k - 1], k - 1) PROVE Came(f[k], k)
    <2> DEFINE d == f[k - 1]
    <2>1. k \in Nat /\ k - 1 \in Nat /\ k - 1 \in 0 .. Len(u) /\ k \in 0 .. k
        BY <1>1
    <2>2. d \in Reading(n) /\ f[k] = Fed(d, "monitor", u[k]) /\ Came(d, k - 1)
        BY <1>5, <1>8, <2>1
    <2>3. Taken(d, b, k - 1) /\ Taken(f[k], b, k) /\ f[k] \in Reading(n)
        <3>1. k \in 0 .. Len(u)
            BY <1>1
        <3>2. QED
            BY <1>5, <2>1, <3>1
    <2> HIDE DEF d
    <2>4. CASE d.parser.err # "NO_ERROR"
        <3>1. Stopped(d.parser)
            BY <2>4 DEF Stopped
        <3>2. f[k] = d
            BY <2>2, <3>1, Zenon DEF Fed
        <3>3. QED
            BY <2>4, <3>2 DEF Came
    <2>5. CASE d.parser.err = "NO_ERROR"
        <3>1. PICK j \in 0 .. k - 1 : /\ c + j <= Len(w)
                                      /\ d.parser = At(line, c + j)
                                      /\ Unread(d.buffer) = Drop(u, j)
                                      /\ c + j < Len(w) => j = k - 1
            BY <2>2, <2>5 DEF Came
        <3>2. j \in Nat /\ c + j \in 0 .. Len(w) /\ j \in 0 .. k
            BY <1>1, <1>3, <2>1, <3>1
        <3>3. CASE c + j = Len(w)
            <4>1. d.parser.ended
                BY <3>1, <3>2, <3>3, AtIs DEF w
            <4>2. f[k] = d
                BY <2>2, <4>1, Zenon DEF Fed, Stopped
            <4>3. c + j < Len(w) => j = k
                BY <1>1, <3>2, <3>3
            <4>4. QED
                BY <3>1, <3>2, <4>2, <4>3 DEF Came
        <3>4. CASE c + j # Len(w)
            <4>1. j = k - 1 /\ c + j \in 0 .. Len(w) - 1 /\ c + k <= Len(w) /\ c + j + 1 = c + k
                  /\ ~(c + j = Len(w)) /\ c + j < Len(w)
                BY <1>1, <1>3, <2>1, <3>1, <3>2, <3>4
            <4>2. ~Stopped(d.parser)
                <5>1. ~d.parser.ended
                    BY <3>1, <3>2, <4>1, AtIs DEF w
                <5>2. QED
                    BY <2>5, <5>1 DEF Stopped
            <4>3. u[k] = w[c + j + 1]
                BY <1>6, <4>1
            <4>4. f[k].parser = process_char(d.parser, "monitor", u[k])
                  /\ f[k].buffer = buffer_read_adv(d.buffer, 1)
                BY <2>2, <4>2 DEF Fed
            <4>5. \/ process_char(At(line, c + j), "monitor", w[c + j + 1]) = At(line, c + j + 1)
                  \/ process_char(At(line, c + j), "monitor", w[c + j + 1]).err # "NO_ERROR"
                BY <4>1, LineGoesOn DEF w
            <4>6. Unread(f[k].buffer) = Drop(u, k)
                <5>1. PICK h \in 0 .. k : Unread(f[k].buffer) = Drop(u, h)
                                          /\ (h < k => Stopped(f[k].parser))
                    BY <2>3 DEF Taken, u
                <5>2. d.buffer \in Buffer(Byte, n)
                    BY <2>2 DEF Reading
                <5>3. Unread(d.buffer) \in Seq(Byte) /\ Len(Unread(d.buffer)) = Len(u) - j
                    <6>1. j \in 0 .. Len(u)
                        BY <1>1, <2>1, <3>1, <3>2
                    <6>2. Drop(u, j) \in Seq(Byte) /\ Len(Drop(u, j)) = Len(u) - j
                        BY <1>1, <6>1, DropIs
                    <6>3. QED
                        BY <3>1, <6>2, Zenon
                <5>4. 1 \in 0 .. Len(Unread(d.buffer)) /\ 1 \in 0 .. Len(u) - j /\ j \in 0 .. Len(u)
                      /\ j + 1 = k
                    BY <1>1, <2>1, <4>1, <5>3
                <5>5. Unread(f[k].buffer) = Drop(Unread(d.buffer), 1)
                    BY <4>4, <5>2, <5>4, ReadAdvIs
                <5>6. Drop(Drop(u, j), 1) = Drop(u, k)
                    BY <1>1, <5>4, DropDrop
                <5>7. QED
                    BY <3>1, <5>5, <5>6
            <4>7. CASE f[k].parser.err # "NO_ERROR"
                BY <4>7 DEF Came
            <4>8. CASE f[k].parser = At(line, c + k)
                BY <2>1, <4>1, <4>6, <4>8 DEF Came
            <4>9. QED
                BY <3>1, <4>1, <4>3, <4>4, <4>5, <4>7, <4>8
        <3>5. QED
            BY <3>3, <3>4
    <2>6. QED
        BY <2>4, <2>5
<1>9. \A k \in 0 .. Len(u) : Came(f[k], k)
    <2> DEFINE T == {k \in 0 .. Len(u) : ~Came(f[k], k)}
    <2>1. SUFFICES ASSUME T # {} PROVE FALSE
        OBVIOUS
    <2>2. T \subseteq Nat
        BY <1>1
    <2>3. PICK k \in T : \A y \in T : k <= y
        BY <2>1, <2>2, LeastNumber
    <2>4. k \in 0 .. Len(u) /\ ~Came(f[k], k)
        OBVIOUS
    <2>5. k # 0
        BY <1>7, <2>4
    <2>6. k \in 1 .. Len(u) /\ k - 1 \in 0 .. Len(u) /\ ~(k <= k - 1)
        BY <1>1, <2>4, <2>5
    <2>7. Came(f[k - 1], k - 1)
        BY <2>3, <2>6
    <2>8. QED
        BY <1>8, <2>4, <2>6, <2>7
<1>10. Came(parse(p, "monitor", b), Len(u))
    <2>1. Len(u) \in 0 .. Len(u)
        BY <1>1
    <2>2. QED
        BY <1>5, <1>9, <2>1
<1>11. QED
    BY <1>10 DEF Came, u, w, p

-----------------------------------------------------------------------------
(* The texts of lines                                                      *)

\* Adding to the second of two sequences adds to both.
LEMMA ConcatAppend ==
    ASSUME NEW S, NEW s \in Seq(S), NEW t \in Seq(S), NEW e \in S
    PROVE  s \o Append(t, e) = Append(s \o t, e)
<1> DEFINE one == <<e>>
<1>1. one \in Seq(S)
    OBVIOUS
<1>2. Append(t, e) = t \o one /\ s \o t \in Seq(S)
    BY AppendIsConcat, ConcatProperties
<1>3. Append(s \o t, e) = (s \o t) \o one
    BY <1>2, AppendIsConcat
<1> HIDE DEF one
<1>4. (s \o t) \o one = s \o (t \o one)
    BY <1>1, ConcatAssociative
<1>5. QED
    BY <1>2, <1>3, <1>4

\* The text of two sequences of texts is that of one and that of the other.
LEMMA FlatConcat ==
    ASSUME NEW S, NEW s \in Seq(Seq(S)), NEW t \in Seq(Seq(S))
    PROVE  Flat(s \o t) = Flat(s) \o Flat(t)
<1> DEFINE Begun(k) == SubSeq(t, 1, k)
           Joined(k) == Flat(s \o Begun(k)) = Flat(s) \o Flat(Begun(k))
           T == {k \in 0 .. Len(t) : ~Joined(k)}
<1>1. Len(t) \in Nat
    BY LenProperties
<1>2. Flat(s) \in Seq(S) /\ \A x \in Seq(Seq(S)) : Flat(x) \in Seq(S)
    <2>1. <<>> \in Seq(S)
        BY EmptySeq
    <2>2. QED
        BY <2>1, FlatAppend
<1>3. Joined(0)
    <2>1. Begun(0) = <<>> /\ s \o <<>> = s
        BY SubSeqEmpty, ConcatEmptySeq
    <2>2. Flat(<<>>) = <<>>
        <3> DEFINE none == <<>>
        <3>1. none \in Seq(Seq(S)) /\ none \in Seq(S) /\ none = <<>>
            BY EmptySeq
        <3> HIDE DEF none
        <3>2. Flat(none) = <<>>
            BY <3>1, FlatAppend
        <3>3. QED
            BY <3>1, <3>2
    <2>3. Flat(s) \o <<>> = Flat(s)
        BY <1>2, ConcatEmptySeq
    <2>4. QED
        BY <2>1, <2>2, <2>3
<1>4. ASSUME NEW k \in 0 .. Len(t) - 1, Joined(k) PROVE Joined(k + 1)
    <2>1. k \in 0 .. Len(t) /\ k + 1 \in 1 .. Len(t)
        BY <1>1
    <2>2. Begun(k) \in Seq(Seq(S)) /\ t[k + 1] \in Seq(S)
        BY <2>1, TakeIs, ElementOfSeq
    <2>3. Begun(k + 1) = Append(Begun(k), t[k + 1])
        BY TakeOneMore
    <2> DEFINE a == Begun(k)
               e == t[k + 1]
    <2> HIDE DEF a, e
    <2>4. a \in Seq(Seq(S)) /\ e \in Seq(S) /\ Flat(s \o a) = Flat(s) \o Flat(a)
        BY <1>4, <2>2 DEF a, e
    <2>5. s \o Append(a, e) = Append(s \o a, e) /\ s \o a \in Seq(Seq(S))
        BY <2>4, ConcatAppend, ConcatProperties
    <2>6. Flat(Append(s \o a, e)) = Flat(s \o a) \o e /\ Flat(Append(a, e)) = Flat(a) \o e
        BY <2>4, <2>5, FlatAppend
    <2>7. (Flat(s) \o Flat(a)) \o e = Flat(s) \o (Flat(a) \o e)
        <3> DEFINE fs == Flat(s)
                   fa == Flat(a)
        <3>1. fs \in Seq(S) /\ fa \in Seq(S) /\ e \in Seq(S)
            BY <1>2, <2>4
        <3> HIDE DEF fs, fa
        <3>2. (fs \o fa) \o e = fs \o (fa \o e)
            <4>1. \A x, y, z \in Seq(S) : (x \o y) \o z = x \o (y \o z)
                BY ConcatAssociative
            <4>2. QED
                BY <3>1, <4>1, Zenon
        <3>3. QED
            BY <3>2 DEF fs, fa
    <2>8. Flat(s \o Append(a, e)) = Flat(s) \o Flat(Append(a, e))
        BY <2>4, <2>5, <2>6, <2>7
    <2>9. QED
        BY <2>3, <2>8 DEF a, e
<1> HIDE DEF Joined
<1>5. T = {}
    <2>1. SUFFICES ASSUME T # {} PROVE FALSE
        OBVIOUS
    <2>2. T \subseteq Nat
        BY <1>1
    <2>3. PICK k \in T : \A y \in T : k <= y
        BY <2>1, <2>2, LeastNumber
    <2>4. k \in 0 .. Len(t) /\ ~Joined(k)
        OBVIOUS
    <2>5. k # 0
        BY <1>3, <2>4
    <2>6. k - 1 \in 0 .. Len(t) - 1 /\ k - 1 \in 0 .. Len(t) /\ ~(k <= k - 1) /\ (k - 1) + 1 = k
        BY <1>1, <2>4, <2>5
    <2>7. Joined(k - 1)
        BY <2>3, <2>6
    <2>8. Joined((k - 1) + 1)
        BY <1>4, <2>6, <2>7
    <2>9. QED
        BY <2>4, <2>6, <2>8
<1>6. Joined(Len(t))
    <2>1. Len(t) \in 0 .. Len(t)
        BY <1>1
    <2>2. QED
        BY <1>5, <2>1
<1>7. Begun(Len(t)) = t
    BY SubSeqFull
<1>8. QED
    BY <1>6, <1>7 DEF Joined

\* The text of lines that have the texts F
TextOf(F, lines) == Flat([i \in DOMAIN lines |-> F[lines[i]]])

\* F gives the lines of D texts over S.
TextMap(F, D, S) == F \in [D -> Seq(S)]

\* It is that of the first ones and that of the others.
LEMMA TextsJoin ==
    ASSUME NEW D, NEW S, NEW F, TextMap(F, D, S), NEW s \in Seq(D), NEW t \in Seq(D)
    PROVE  /\ TextOf(F, s) \in Seq(S)
           /\ TextOf(F, s \o t) = TextOf(F, s) \o TextOf(F, t)
<1> DEFINE G(x) == [i \in DOMAIN x |-> F[x[i]]]
<1> USE DEF TextMap
<1>1. ASSUME NEW x \in Seq(D)
      PROVE  /\ G(x) \in Seq(Seq(S)) /\ Len(G(x)) = Len(x)
             /\ \A i \in 1 .. Len(x) : G(x)[i] = F[x[i]]
    <2>1. Len(x) \in Nat /\ DOMAIN x = 1 .. Len(x) /\ \A i \in 1 .. Len(x) : x[i] \in D
        BY LenProperties, ElementOfSeq
    <2>2. G(x) \in [1 .. Len(x) -> Seq(S)]
        BY <2>1
    <2>3. QED
        BY <2>1, <2>2
<1> HIDE DEF G
<1>2. /\ G(s) \in Seq(Seq(S)) /\ Len(G(s)) = Len(s) /\ \A i \in 1 .. Len(s) : G(s)[i] = F[s[i]]
    BY <1>1
<1>3. /\ G(t) \in Seq(Seq(S)) /\ Len(G(t)) = Len(t) /\ \A i \in 1 .. Len(t) : G(t)[i] = F[t[i]]
    BY <1>1
<1>4. /\ s \o t \in Seq(D) /\ Len(s \o t) = Len(s) + Len(t)
      /\ \A i \in 1 .. Len(s) + Len(t) :
            (s \o t)[i] = IF i <= Len(s) THEN s[i] ELSE t[i - Len(s)]
    BY ConcatProperties
<1> DEFINE u == s \o t
           a == G(s)
           b == G(t)
<1> HIDE DEF u, a, b
<1>5. G(u) \in Seq(Seq(S)) /\ Len(G(u)) = Len(u) /\ \A i \in 1 .. Len(u) : G(u)[i] = F[u[i]]
    BY <1>1, <1>4 DEF u
<1>6. /\ a \o b \in Seq(Seq(S)) /\ Len(a \o b) = Len(a) + Len(b)
      /\ \A i \in 1 .. Len(a) + Len(b) : (a \o b)[i] = IF i <= Len(a) THEN a[i] ELSE b[i - Len(a)]
    BY <1>2, <1>3, ConcatProperties DEF a, b
<1>7. Len(s) \in Nat /\ Len(t) \in Nat
    BY LenProperties
<1>8. Len(u) = Len(s) + Len(t) /\ Len(a) = Len(s) /\ Len(b) = Len(t)
    BY <1>2, <1>3, <1>4 DEF u, a, b
<1>9. ASSUME NEW i \in 1 .. Len(u) PROVE G(u)[i] = (a \o b)[i]
    <2>1. i \in 1 .. Len(s) + Len(t) /\ i \in 1 .. Len(a) + Len(b)
        BY <1>8
    <2>2. CASE i <= Len(s)
        <3>1. i \in 1 .. Len(s)
            BY <1>7, <2>2
        <3>2. u[i] = s[i] /\ (a \o b)[i] = a[i] /\ a[i] = F[s[i]]
            BY <1>2, <1>4, <1>6, <1>8, <2>1, <2>2, <3>1 DEF u, a
        <3>3. QED
            BY <1>5, <3>2
    <2>3. CASE ~(i <= Len(s))
        <3> DEFINE j == i - Len(s)
        <3>1. j \in 1 .. Len(t)
            BY <1>7, <2>1, <2>3
        <3>2. u[i] = t[j] /\ (a \o b)[i] = b[j]
            BY <1>4, <1>6, <1>8, <2>1, <2>3 DEF u
        <3> HIDE DEF j
        <3>3. b[j] = F[t[j]]
            BY <1>3, <3>1 DEF b
        <3>4. QED
            BY <1>5, <3>2, <3>3
    <2>4. QED
        BY <2>2, <2>3
<1>10. G(u) = a \o b
    <2>1. Len(G(u)) = Len(a \o b)
        BY <1>5, <1>6, <1>8
    <2>2. \A i \in 1 .. Len(G(u)) : G(u)[i] = (a \o b)[i]
        BY <1>5, <1>9
    <2>3. QED
        BY <1>5, <1>6, <2>1, <2>2, SeqEqual
<1>11. Flat(a \o b) = Flat(a) \o Flat(b)
    BY <1>2, <1>3, FlatConcat DEF a, b
<1>12. Flat(a) \in Seq(S)
    <2>1. <<>> \in Seq(S)
        BY EmptySeq
    <2>2. QED
        BY <1>2, <2>1, FlatAppend DEF a
<1>13. /\ TextOf(F, u) = Flat(G(u)) /\ TextOf(F, s) = Flat(a) /\ TextOf(F, t) = Flat(b)
    BY Zenon DEF TextOf, G, a, b
<1>14. QED
    BY <1>10, <1>11, <1>12, <1>13 DEF u

\* No lines and one line.
LEMMA TextOfFew ==
    ASSUME NEW D, NEW S, NEW F \in [D -> Seq(S)]
    PROVE  /\ TextOf(F, <<>>) = <<>>
           /\ \A d \in D : TextOf(F, <<d>>) = F[d]
<1>1. <<>> \in Seq(S) /\ <<>> \in Seq(Seq(S))
    BY EmptySeq
<1>2. Flat(<<>>) = <<>>
    <2> DEFINE none == <<>>
    <2>1. none \in Seq(Seq(S)) /\ none \in Seq(S) /\ none = <<>>
        BY EmptySeq
    <2> HIDE DEF none
    <2>2. Flat(none) = <<>>
        BY <2>1, FlatAppend
    <2>3. QED
        BY <2>1, <2>2
<1>3. TextOf(F, <<>>) = <<>>
    <2>1. [i \in DOMAIN <<>> |-> F[<<>>[i]]] = <<>>
        OBVIOUS
    <2>2. QED
        BY <1>2, <2>1 DEF TextOf
<1>4. ASSUME NEW d \in D PROVE TextOf(F, <<d>>) = F[d]
    <2>1. [i \in DOMAIN <<d>> |-> F[<<d>>[i]]] = <<F[d]>>
        OBVIOUS
    <2> DEFINE e == F[d]
    <2>2. e \in Seq(S)
        OBVIOUS
    <2> HIDE DEF e
    <2>3. Append(<<>>, e) = <<e>>
        OBVIOUS
    <2>4. Flat(Append(<<>>, e)) = Flat(<<>>) \o e
        BY <1>1, <2>2, FlatAppend
    <2>5. <<>> \o e = e
        BY <2>2, ConcatEmptySeq
    <2>6. Flat(<<e>>) = e
        BY <1>2, <2>3, <2>4, <2>5
    <2>7. QED
        BY <2>1, <2>6 DEF TextOf, e
<1>5. QED
    BY <1>3, <1>4

\* In which order texts are put together does not matter.
LEMMA Associate ==
    \A x, y, z \in Seq(Byte) : (x \o y) \o z = x \o (y \o z)
BY ConcatAssociative

\* Texts put together.
LEMMA Joins ==
    /\ <<>> \in Seq(Byte)
    /\ \A x, y \in Seq(Byte) : x \o y \in Seq(Byte) /\ Len(x \o y) = Len(x) + Len(y)
    /\ \A x, y, z \in Seq(Byte) : (x \o y) \o z = x \o (y \o z)
    /\ \A x \in Seq(Byte) : x \o <<>> = x /\ <<>> \o x = x /\ Len(x) \in Nat
    /\ \A x, y, z \in Seq(Byte) : x \o y = x \o z => y = z
    /\ \A x \in Seq(Byte) : \A k \in 0 .. Len(x) :
          /\ SubSeq(x, 1, k) \in Seq(Byte) /\ Len(SubSeq(x, 1, k)) = k
          /\ Drop(x, k) \in Seq(Byte) /\ Len(Drop(x, k)) = Len(x) - k
          /\ x = SubSeq(x, 1, k) \o Drop(x, k)
    /\ Len(<<>>) = 0 /\ \A x \in Seq(Byte) : Len(x) = 0 => x = <<>>
    /\ \A x, y \in Seq(Byte) : x \o y = <<>> => x = <<>> /\ y = <<>>
<1>1. \A x, y \in Seq(Byte) : x \o y \in Seq(Byte) /\ Len(x \o y) = Len(x) + Len(y)
    BY ConcatProperties
<1>2. \A x, y, z \in Seq(Byte) : (x \o y) \o z = x \o (y \o z)
    BY ConcatAssociative
<1>3. \A x \in Seq(Byte) : x \o <<>> = x /\ <<>> \o x = x /\ Len(x) \in Nat
    BY ConcatEmptySeq, LenProperties
<1>4. \A x, y, z \in Seq(Byte) : x \o y = x \o z => y = z
    BY ConcatSimplifications
<1>5. ASSUME NEW x \in Seq(Byte), NEW k \in 0 .. Len(x)
      PROVE  /\ SubSeq(x, 1, k) \in Seq(Byte) /\ Len(SubSeq(x, 1, k)) = k
             /\ Drop(x, k) \in Seq(Byte) /\ Len(Drop(x, k)) = Len(x) - k
             /\ x = SubSeq(x, 1, k) \o Drop(x, k)
    <2>1. SubSeq(x, 1, k) \in Seq(Byte) /\ Len(SubSeq(x, 1, k)) = k
        BY TakeIs
    <2>2. Drop(x, k) \in Seq(Byte) /\ Len(Drop(x, k)) = Len(x) - k
        BY DropIs
    <2>3. x = SubSeq(x, 1, k) \o Drop(x, k)
        BY TakeAndDrop
    <2>4. QED
        BY <2>1, <2>2, <2>3
<1>6. <<>> \in Seq(Byte) /\ Len(<<>>) = 0 /\ \A x \in Seq(Byte) : Len(x) = 0 => x = <<>>
    BY EmptySeq
<1>7. \A x, y \in Seq(Byte) : x \o y = <<>> => x = <<>> /\ y = <<>>
    BY ConcatEqualIffEmpty
<1>8. QED
    BY <1>1, <1>2, <1>3, <1>4, <1>5, <1>6, <1>7

\* Four of anything are no more than four.
LEMMA FourAtMost ==
    ASSUME NEW x, NEW y, NEW z, NEW t
    PROVE  Cardinality({x, y, z, t}) <= 4
<1> DEFINE A == {x}
           B == A \union {y}
           C == B \union {z}
           D == C \union {t}
<1>1. D = {x, y, z, t}
    OBVIOUS
<1>2. IsFiniteSet(A) /\ Cardinality(A) = 1
    BY FS_Singleton
<1> HIDE DEF A
<1>3. IsFiniteSet(B) /\ Cardinality(B) <= 2
    BY <1>2, FS_AddElement
<1> HIDE DEF B
<1>4. IsFiniteSet(C) /\ Cardinality(C) <= 3
    <2>1. Cardinality(B) \in Nat
        BY <1>3, FS_CardinalityType
    <2>2. IsFiniteSet(C) /\ Cardinality(C) = IF z \in B THEN Cardinality(B) ELSE Cardinality(B) + 1
        BY <1>3, FS_AddElement
    <2> HIDE DEF C
    <2>3. QED
        BY <1>3, <2>1, <2>2
<1> HIDE DEF C
<1>5. IsFiniteSet(D) /\ Cardinality(D) <= 4
    <2>1. Cardinality(C) \in Nat
        BY <1>4, FS_CardinalityType
    <2>2. IsFiniteSet(D) /\ Cardinality(D) = IF t \in C THEN Cardinality(C) ELSE Cardinality(C) + 1
        BY <1>4, FS_AddElement
    <2> HIDE DEF D
    <2>3. QED
        BY <1>4, <2>1, <2>2
<1> HIDE DEF D
<1>6. QED
    BY <1>1, <1>5

\* The five names are different, and so are the numbers of their arguments
\* what the table says.
LEMMA NamesDiffer ==
    /\ Quit # Zero /\ Quit # One /\ Quit # Two /\ Quit # Login
    /\ Zero # One /\ Zero # Two /\ Zero # Login
    /\ One # Two /\ One # Login /\ Two # Login
    /\ monitor_cmds_args[Quit] = 0 /\ monitor_cmds_args[Zero] = 0
    /\ monitor_cmds_args[One] = 1
    /\ monitor_cmds_args[Two] = 2 /\ monitor_cmds_args[Login] = 2
<1>1. \A x, y, z, t : Names # {x, y, z, t}
    <2>1. SUFFICES ASSUME NEW x, NEW y, NEW z, NEW t, Names = {x, y, z, t} PROVE FALSE
        OBVIOUS
    <2>2. Cardinality(Names) <= 4
        BY <2>1, FourAtMost
    <2>3. QED
        BY <2>2, NamesAssumption
<1>2. /\ Quit = Zero => Names = {Quit, Login, One, Two}
      /\ Quit = One => Names = {Quit, Login, Zero, Two}
      /\ Quit = Two => Names = {Quit, Login, Zero, One}
      /\ Quit = Login => Names = {Quit, Zero, One, Two}
      /\ Zero = One => Names = {Quit, Login, Zero, Two}
      /\ Zero = Two => Names = {Quit, Login, Zero, One}
      /\ Zero = Login => Names = {Quit, Zero, One, Two}
      /\ One = Two => Names = {Quit, Login, Zero, One}
      /\ One = Login => Names = {Quit, Zero, One, Two}
      /\ Two = Login => Names = {Quit, Zero, One, Two}
    BY DEF Names
<1>3. /\ Quit # Zero /\ Quit # One /\ Quit # Two /\ Quit # Login
      /\ Zero # One /\ Zero # Two /\ Zero # Login
      /\ One # Two /\ One # Login /\ Two # Login
    BY <1>1, <1>2
<1>4. Quit \in Names /\ Zero \in Names /\ One \in Names /\ Two \in Names /\ Login \in Names
    BY DEF Names
<1>5. \A name \in Names :
         /\ name \in {Quit, Zero} => monitor_cmds_args[name] = 0
         /\ name = One => monitor_cmds_args[name] = 1
         /\ name \in {Login, Two} => monitor_cmds_args[name] = 2
    BY <1>3 DEF monitor_cmds_args
<1>6. QED
    BY <1>3, <1>4, <1>5

\* An answer is shorter than the buffer it is sent from, begins with a byte
\* that is no CR, and has the terminator at its end and nowhere else.
LEMMA AnswerIs ==
    ASSUME NEW line \in Command
    PROVE  LET a == Answer(line)
               n == Len(a)
           IN /\ a \in Seq(Byte) /\ n \in {0, 5, 8} /\ n < WRITE_BUFFER_SIZE
              /\ n = 0 <=> line.cmd = <<Quit>>
              /\ n = 5 => a[1] # "CR" /\ a[2] = "CR" /\ a[3] = "LF" /\ a[4] = "CR" /\ a[5] = "LF"
              /\ n = 8 => /\ a[1] # "CR" /\ a[2] = "CR" /\ a[3] = "LF" /\ a[4] # "CR"
                          /\ a[5] = "CR" /\ a[6] = "LF" /\ a[7] = "CR" /\ a[8] = "LF"
<1> DEFINE a == Answer(line)
           end == << "CR", "LF", "CR", "LF" >>
           long == << Zero, "CR", "LF", Zero >> \o end
           brief == << Head(line.cmd) >> \o end
           Ends(x) ==
              LET n == Len(x) IN
              /\ n = 5 => x[1] # "CR" /\ x[2] = "CR" /\ x[3] = "LF" /\ x[4] = "CR" /\ x[5] = "LF"
              /\ n = 8 => /\ x[1] # "CR" /\ x[2] = "CR" /\ x[3] = "LF" /\ x[4] # "CR"
                          /\ x[5] = "CR" /\ x[6] = "LF" /\ x[7] = "CR" /\ x[8] = "LF"
<1>1. /\ line.cmd = <<Quit>> => a = <<>>
      /\ line.cmd # <<Quit>> /\ line.cmd = <<Zero>> => a = long
      /\ line.cmd # <<Quit>> /\ line.cmd # <<Zero>> => a = brief
    <2>1. <<Zero>> # <<Quit>>
        BY NamesDiffer
    <2> HIDE DEF end
    <2>2. CASE line.cmd = <<Quit>>
        <3>1. line.cmd # <<Zero>>
            BY <2>1, <2>2
        <3>2. QED
            BY <2>2, <3>1, Zenon DEF Answer
    <2>3. CASE line.cmd = <<Zero>>
        <3>1. a = << Zero, "CR", "LF", Zero >> \o MONITOR_TERMINATOR
            BY <2>1, <2>3, Zenon DEF Answer
        <3>2. QED
            BY <2>1, <2>3, <3>1, Zenon DEF MONITOR_TERMINATOR, end
    <2>4. CASE line.cmd # <<Quit>> /\ line.cmd # <<Zero>>
        <3>1. a = << Head(line.cmd) >> \o MONITOR_TERMINATOR
            BY <2>4, Zenon DEF Answer
        <3>2. QED
            BY <2>4, <3>1, Zenon DEF MONITOR_TERMINATOR, end
    <2>5. QED
        BY <2>2, <2>3, <2>4, Zenon
<1>2. Zero \in Byte /\ Zero # "CR" /\ {"CR", "LF"} \subseteq Byte
    BY BytesAre, NamesAssumption DEF Names
<1>3. Head(line.cmd) \in Byte /\ Head(line.cmd) # "CR"
    <2>1. line.cmd \in Seq(Activators \ {"SP", "CR"}) /\ Len(line.cmd) # 0
        BY DEF Command
    <2>2. line.cmd # <<>>
        BY <2>1, EmptySeq
    <2>3. Head(line.cmd) \in Activators \ {"SP", "CR"}
        BY <2>1, <2>2, HeadTailProperties
    <2>4. QED
        BY <2>3, BytesAre
<1>4. end \in Seq(Byte) /\ Len(end) = 4
    BY <1>2
<1>5. /\ long \in Seq(Byte) /\ Len(long) = 8
      /\ long[1] # "CR" /\ long[2] = "CR" /\ long[3] = "LF" /\ long[4] # "CR"
      /\ long[5] = "CR" /\ long[6] = "LF" /\ long[7] = "CR" /\ long[8] = "LF"
    <2>1. << Zero, "CR", "LF", Zero >> \in Seq(Byte)
        BY <1>2
    <2>2. long \in Seq(Byte)
        BY <1>4, <2>1, ConcatProperties
    <2>3. QED
        BY <1>2, <2>2
<1>6. /\ brief \in Seq(Byte) /\ Len(brief) = 5
      /\ brief[1] # "CR" /\ brief[2] = "CR" /\ brief[3] = "LF"
      /\ brief[4] = "CR" /\ brief[5] = "LF"
    <2>1. << Head(line.cmd) >> \in Seq(Byte)
        BY <1>3
    <2>2. brief \in Seq(Byte)
        BY <1>4, <2>1, ConcatProperties
    <2>3. QED
        BY <1>3, <2>2
<1>7. 8 < WRITE_BUFFER_SIZE
    <2> DEFINE zero == [cmd |-> <<Zero>>, arg |-> <<>>]
    <2>1. zero.cmd = <<Zero>>
        OBVIOUS
    <2>2. <<Zero>> # <<Quit>>
        BY NamesDiffer
    <2> HIDE DEF zero
    <2>3. Answer(zero) = long
        BY <2>1, <2>2, Zenon DEF Answer, MONITOR_TERMINATOR
    <2>4. Len(Answer(zero)) < WRITE_BUFFER_SIZE
        BY AnswersAssumption DEF zero
    <2>5. QED
        BY <1>5, <2>3, <2>4
<1> HIDE DEF end, long, brief
<1>8. Ends(long) /\ Ends(brief) /\ Ends(<<>>)
    BY <1>5, <1>6, EmptySeq
<1>9. 0 < WRITE_BUFFER_SIZE /\ 5 < WRITE_BUFFER_SIZE
    BY <1>7, SizesAssumption
<1> DEFINE Good(x) ==
              /\ x \in Seq(Byte) /\ Len(x) \in {0, 5, 8} /\ Len(x) < WRITE_BUFFER_SIZE
              /\ Len(x) = 0 <=> line.cmd = <<Quit>>
              /\ Ends(x)
<1> HIDE DEF Ends
<1>10. CASE line.cmd = <<Quit>>
    <2>1. a = <<>> /\ Good(<<>>)
        BY <1>1, <1>8, <1>9, <1>10, EmptySeq
    <2> HIDE DEF a, Good
    <2>2. Good(a)
        BY <2>1, Zenon
    <2>3. QED
        BY <2>2, Zenon DEF Good, Ends, a
<1>11. CASE line.cmd # <<Quit>> /\ line.cmd = <<Zero>>
    <2>1. a = long /\ Good(long)
        BY <1>1, <1>5, <1>7, <1>8, <1>11
    <2> HIDE DEF a, Good
    <2>2. Good(a)
        BY <2>1, Zenon
    <2>3. QED
        BY <2>2, Zenon DEF Good, Ends, a
<1>12. CASE line.cmd # <<Quit>> /\ line.cmd # <<Zero>>
    <2>1. a = brief /\ Good(brief)
        BY <1>1, <1>6, <1>8, <1>9, <1>12
    <2> HIDE DEF a, Good
    <2>2. Good(a)
        BY <2>1, Zenon
    <2>3. QED
        BY <2>2, Zenon DEF Good, Ends, a
<1>13. QED
    BY <1>10, <1>11, <1>12

\* What lines are sent as and answered with, the first of them and the others.
LEMMA LinesJoin ==
    ASSUME NEW s \in Seq(Command), NEW t \in Seq(Command)
    PROVE  /\ BytesOf(s) \in Seq(Byte) /\ BytesOf(s \o t) = BytesOf(s) \o BytesOf(t)
           /\ AnswersTo(s) \in Seq(Byte) /\ AnswersTo(s \o t) = AnswersTo(s) \o AnswersTo(t)
<1> DEFINE F == [line \in Command |-> Bytes(line)]
           A == [line \in Command |-> Answer(line)]
<1>1. TextMap(F, Command, Byte) /\ TextMap(A, Command, Byte)
    BY BytesIs, AnswerIs DEF TextMap
<1>2. ASSUME NEW x \in Seq(Command)
      PROVE  BytesOf(x) = TextOf(F, x) /\ AnswersTo(x) = TextOf(A, x)
    <2>1. DOMAIN x = 1 .. Len(x) /\ \A i \in 1 .. Len(x) : x[i] \in Command
        BY LenProperties, ElementOfSeq
    <2>2. \A i \in DOMAIN x : F[x[i]] = Bytes(x[i]) /\ A[x[i]] = Answer(x[i])
        BY <2>1
    <2> HIDE DEF F, A
    <2>3. /\ [i \in DOMAIN x |-> F[x[i]]] = [i \in DOMAIN x |-> Bytes(x[i])]
          /\ [i \in DOMAIN x |-> A[x[i]]] = [i \in DOMAIN x |-> Answer(x[i])]
        BY <2>2, Zenon
    <2>4. QED
        BY <2>3, Zenon DEF TextOf, BytesOf, AnswersTo
<1>3. s \o t \in Seq(Command)
    BY ConcatProperties
<1> HIDE DEF F, A
<1>4. TextOf(F, s) \in Seq(Byte) /\ TextOf(F, s \o t) = TextOf(F, s) \o TextOf(F, t)
    BY <1>1, TextsJoin
<1>5. TextOf(A, s) \in Seq(Byte) /\ TextOf(A, s \o t) = TextOf(A, s) \o TextOf(A, t)
    BY <1>1, TextsJoin
<1>6. QED
    BY <1>2, <1>3, <1>4, <1>5

\* No line, and one line.
LEMMA LinesFew ==
    /\ BytesOf(<<>>) = <<>> /\ AnswersTo(<<>>) = <<>>
    /\ \A line \in Command : BytesOf(<<line>>) = Bytes(line) /\ AnswersTo(<<line>>) = Answer(line)
<1> DEFINE F == [line \in Command |-> Bytes(line)]
           A == [line \in Command |-> Answer(line)]
<1>1. F \in [Command -> Seq(Byte)] /\ A \in [Command -> Seq(Byte)]
    BY BytesIs, AnswerIs
<1>2. /\ \A line \in Command : F[line] = Bytes(line) /\ A[line] = Answer(line)
    OBVIOUS
<1> HIDE DEF F, A
<1>3. TextOf(F, <<>>) = <<>> /\ \A line \in Command : TextOf(F, <<line>>) = F[line]
    BY <1>1, TextOfFew
<1>4. TextOf(A, <<>>) = <<>> /\ \A line \in Command : TextOf(A, <<line>>) = A[line]
    BY <1>1, TextOfFew
<1>5. BytesOf(<<>>) = TextOf(F, <<>>) /\ AnswersTo(<<>>) = TextOf(A, <<>>)
    <2>1. \A G : [i \in DOMAIN <<>> |-> G[<<>>[i]]] = <<>>
        OBVIOUS
    <2>2. [i \in DOMAIN <<>> |-> Bytes(<<>>[i])] = <<>>
          /\ [i \in DOMAIN <<>> |-> Answer(<<>>[i])] = <<>>
        OBVIOUS
    <2>3. QED
        BY <2>1, <2>2 DEF BytesOf, AnswersTo, TextOf
<1>6. ASSUME NEW line \in Command
      PROVE  BytesOf(<<line>>) = TextOf(F, <<line>>) /\ AnswersTo(<<line>>) = TextOf(A, <<line>>)
    <2>1. \A G : [i \in DOMAIN <<line>> |-> G[<<line>>[i]]] = <<G[line]>>
        OBVIOUS
    <2>2. [i \in DOMAIN <<line>> |-> Bytes(<<line>>[i])] = <<Bytes(line)>>
          /\ [i \in DOMAIN <<line>> |-> Answer(<<line>>[i])] = <<Answer(line)>>
        OBVIOUS
    <2>3. QED
        BY <1>2, <2>1, <2>2, Zenon DEF BytesOf, AnswersTo, TextOf
<1>7. QED
    BY <1>2, <1>3, <1>4, <1>5, <1>6

\* One line more.
LEMMA LinesAppend ==
    ASSUME NEW s \in Seq(Command), NEW line \in Command
    PROVE  /\ BytesOf(Append(s, line)) = BytesOf(s) \o Bytes(line)
           /\ AnswersTo(Append(s, line)) = AnswersTo(s) \o Answer(line)
<1> DEFINE one == <<line>>
<1>1. one \in Seq(Command)
    OBVIOUS
<1>2. Append(s, line) = s \o one
    BY AppendIsConcat
<1>3. BytesOf(one) = Bytes(line) /\ AnswersTo(one) = Answer(line)
    BY LinesFew
<1> HIDE DEF one
<1>4. BytesOf(s \o one) = BytesOf(s) \o BytesOf(one)
      /\ AnswersTo(s \o one) = AnswersTo(s) \o AnswersTo(one)
    BY <1>1, LinesJoin
<1>5. QED
    BY <1>2, <1>3, <1>4

\* What is left of a sequence with one more item at its end.
LEMMA DropAppend ==
    ASSUME NEW S, NEW s \in Seq(S), NEW e \in S, NEW k \in 0 .. Len(s)
    PROVE  /\ Drop(Append(s, e), k) = Append(Drop(s, k), e)
           /\ SubSeq(Append(s, e), 1, k) = SubSeq(s, 1, k)
<1> DEFINE a == Append(s, e)
           d == Drop(s, k)
           l == Drop(a, k)
           r == Append(d, e)
           x == SubSeq(a, 1, k)
           y == SubSeq(s, 1, k)
<1>1. Len(s) \in Nat /\ k \in Nat
    BY LenProperties
<1>2. /\ a \in Seq(S) /\ Len(a) = Len(s) + 1
      /\ (\A i \in 1 .. Len(s) : a[i] = s[i]) /\ a[Len(s) + 1] = e
    BY AppendProperties
<1>3. d \in Seq(S) /\ Len(d) = Len(s) - k /\ \A i \in 1 .. Len(s) - k : d[i] = s[k + i]
    BY DropIs
<1>4. y \in Seq(S) /\ Len(y) = k /\ \A i \in 1 .. k : y[i] = s[i]
    BY TakeIs
<1> HIDE DEF a, d, y
<1>5. k \in 0 .. Len(a)
    BY <1>1, <1>2
<1>6. l \in Seq(S) /\ Len(l) = Len(a) - k /\ \A i \in 1 .. Len(a) - k : l[i] = a[k + i]
    BY <1>2, <1>5, DropIs
<1>7. x \in Seq(S) /\ Len(x) = k /\ \A i \in 1 .. k : x[i] = a[i]
    BY <1>2, <1>5, TakeIs
<1>8. /\ r \in Seq(S) /\ Len(r) = Len(d) + 1
      /\ (\A i \in 1 .. Len(d) : r[i] = d[i]) /\ r[Len(d) + 1] = e
    BY <1>3, AppendProperties
<1> HIDE DEF l, r, x
<1>9. ASSUME NEW i \in 1 .. Len(l) PROVE l[i] = r[i]
    <2>1. CASE i = Len(d) + 1
        <3>1. k + i = Len(s) + 1 /\ i \in 1 .. Len(a) - k
            BY <1>1, <1>2, <1>3, <1>6, <2>1
        <3>2. l[i] = a[k + i]
            BY <1>6, <3>1
        <3>3. QED
            BY <1>2, <1>8, <2>1, <3>1, <3>2
    <2>2. CASE i # Len(d) + 1
        <3>1. i \in 1 .. Len(d) /\ i \in 1 .. Len(s) - k /\ k + i \in 1 .. Len(s)
              /\ i \in 1 .. Len(a) - k
            <4> DEFINE m == Len(s)
            <4>1. Len(a) = m + 1 /\ Len(d) = m - k /\ Len(l) = Len(a) - k
                BY <1>2, <1>3, <1>6
            <4>2. m \in Nat /\ k \in Nat /\ k <= m
                BY <1>1
            <4>3. i \in 1 .. (m + 1) - k
                BY <4>1
            <4> HIDE DEF m
            <4>4. i \in 1 .. m - k /\ k + i \in 1 .. m
                BY <2>2, <4>1, <4>2, <4>3
            <4>5. QED
                BY <4>1, <4>3, <4>4 DEF m
        <3>2. l[i] = a[k + i] /\ a[k + i] = s[k + i] /\ d[i] = s[k + i] /\ r[i] = d[i]
            BY <1>2, <1>3, <1>6, <1>8, <3>1
        <3>3. QED
            BY <3>2
    <2>3. QED
        BY <2>1, <2>2
<1>10. l = r
    <2>1. Len(l) = Len(r)
        BY <1>1, <1>2, <1>3, <1>6, <1>8
    <2>2. QED
        BY <1>6, <1>8, <1>9, <2>1, SeqEqual
<1>11. ASSUME NEW i \in 1 .. Len(x) PROVE x[i] = y[i]
    <2>1. i \in 1 .. k /\ i \in 1 .. Len(s)
        BY <1>1, <1>7
    <2>2. x[i] = a[i] /\ a[i] = s[i] /\ y[i] = s[i]
        BY <1>2, <1>4, <1>7, <2>1
    <2>3. QED
        BY <2>2
<1>12. x = y
    BY <1>4, <1>7, <1>11, SeqEqual
<1>13. QED
    BY <1>10, <1>12 DEF a, d, l, r, x, y

\* The next line is the first of those ahead.
LEMMA LinesAhead ==
    ASSUME NEW s \in Seq(Command), NEW k \in 0 .. Len(s) - 1
    PROVE  /\ s[k + 1] \in Command
           /\ BytesOf(Drop(s, k)) = Bytes(s[k + 1]) \o BytesOf(Drop(s, k + 1))
           /\ SubSeq(s, 1, k + 1) = Append(SubSeq(s, 1, k), s[k + 1])
<1> DEFINE one == <<s[k + 1]>>
           d == Drop(s, k + 1)
<1>1. Len(s) \in Nat /\ k \in Nat /\ k + 1 \in 1 .. Len(s) /\ k + 1 \in 0 .. Len(s)
      /\ Len(s) \in k + 1 .. Len(s)
    BY LenProperties
<1>2. s[k + 1] \in Command
    BY <1>1, ElementOfSeq
<1>3. SubSeq(s, k + 1, Len(s)) = <<s[k + 1]>> \o SubSeq(s, (k + 1) + 1, Len(s))
    BY <1>1, SubSeqRecursiveFirst
<1>4. Drop(s, k) = one \o d
    BY <1>3 DEF Drop
<1>5. one \in Seq(Command) /\ BytesOf(one) = Bytes(s[k + 1])
    BY <1>2, LinesFew
<1>6. d \in Seq(Command)
    BY <1>1, DropIs
<1> HIDE DEF one, d
<1>7. BytesOf(one \o d) = BytesOf(one) \o BytesOf(d)
    BY <1>5, <1>6, LinesJoin
<1>8. SubSeq(s, 1, k + 1) = Append(SubSeq(s, 1, k), s[k + 1])
    BY TakeOneMore
<1>9. QED
    BY <1>2, <1>4, <1>5, <1>7, <1>8 DEF d

\* Dropping the beginning of the first of two texts.
LEMMA DropConcat ==
    ASSUME NEW x \in Seq(Byte), NEW y \in Seq(Byte), NEW j \in 0 .. Len(x)
    PROVE  Drop(x \o y, j) = Drop(x, j) \o y
<1> DEFINE a == x \o y
           d == Drop(x, j)
           l == Drop(a, j)
           r == d \o y
           n == Len(x)
           m == Len(y)
<1>1. n \in Nat /\ m \in Nat /\ j \in Nat /\ j <= n
    BY LenProperties
<1>2. /\ a \in Seq(Byte) /\ Len(a) = n + m
      /\ \A i \in 1 .. n + m : a[i] = IF i <= n THEN x[i] ELSE y[i - n]
    BY ConcatProperties
<1>3. d \in Seq(Byte) /\ Len(d) = n - j /\ \A i \in 1 .. n - j : d[i] = x[j + i]
    BY DropIs
<1> HIDE DEF a, d
<1>4. j \in 0 .. Len(a)
    BY <1>1, <1>2
<1>5. l \in Seq(Byte) /\ Len(l) = Len(a) - j /\ \A i \in 1 .. Len(a) - j : l[i] = a[j + i]
    BY <1>2, <1>4, DropIs
<1>6. /\ r \in Seq(Byte) /\ Len(r) = Len(d) + m
      /\ \A i \in 1 .. Len(d) + m : r[i] = IF i <= Len(d) THEN d[i] ELSE y[i - Len(d)]
    BY <1>3, ConcatProperties
<1> HIDE DEF l, r, n, m
<1>7. Len(l) = (n + m) - j /\ Len(r) = (n - j) + m /\ Len(l) = Len(r)
    BY <1>1, <1>2, <1>3, <1>5, <1>6
<1>8. ASSUME NEW i \in 1 .. Len(l) PROVE l[i] = r[i]
    <2>1. i \in 1 .. (n + m) - j
        BY <1>7
    <2>2. i \in 1 .. Len(a) - j /\ i \in 1 .. Len(d) + m /\ j + i \in 1 .. n + m
        BY <1>1, <1>2, <1>3, <2>1
    <2>3. l[i] = a[j + i]
        BY <1>5, <2>2
    <2>4. CASE j + i <= n
        <3>1. i \in 1 .. n - j /\ i <= Len(d)
            BY <1>1, <1>3, <2>1, <2>4
        <3>2. a[j + i] = x[j + i] /\ r[i] = d[i] /\ d[i] = x[j + i]
            BY <1>2, <1>3, <1>6, <2>2, <2>4, <3>1
        <3>3. QED
            BY <2>3, <3>2
    <2>5. CASE ~(j + i <= n)
        <3>1. ~(i <= Len(d)) /\ i - Len(d) = (j + i) - n
            BY <1>1, <1>3, <2>1, <2>5
        <3>2. a[j + i] = y[(j + i) - n] /\ r[i] = y[i - Len(d)]
            BY <1>2, <1>6, <2>2, <2>5, <3>1
        <3>3. QED
            BY <2>3, <3>1, <3>2
    <2>6. QED
        BY <2>4, <2>5
<1>9. l = r
    BY <1>5, <1>6, <1>7, <1>8, SeqEqual
<1>10. QED
    BY <1>9 DEF a, d, l, r

-----------------------------------------------------------------------------
(* Where the parser is in what was asked                                   *)

\* The first k lines are carried out, the parser is p and text is ahead of it:
\* nothing, or the rest of the next line and all lines behind.
InLine(p, lines, k, text) ==
    \/ k = Len(lines) /\ p = init_parser /\ text = <<>>
    \/ /\ k < Len(lines)
       /\ \E c \in 0 .. Len(Bytes(lines[k + 1])) - 1 :
             /\ p = At(lines[k + 1], c)
             /\ text = Drop(Bytes(lines[k + 1]), c) \o BytesOf(Drop(lines, k + 1))

\* All lines from some line on are ahead of a new parser.
LEMMA InLineStarts ==
    ASSUME NEW lines \in Seq(Command), NEW k \in 0 .. Len(lines)
    PROVE  InLine(init_parser, lines, k, BytesOf(Drop(lines, k)))
<1>1. Len(lines) \in Nat /\ k \in Nat
    BY LenProperties
<1>2. CASE k = Len(lines)
    <2>1. Drop(lines, k) = <<>>
        <3>1. Drop(lines, k) \in Seq(Command) /\ Len(Drop(lines, k)) = Len(lines) - k
            BY DropIs
        <3>2. Len(Drop(lines, k)) = 0
            BY <1>1, <1>2, <3>1
        <3>3. QED
            BY <3>1, <3>2, EmptySeq
    <2>2. QED
        BY <1>2, <2>1, LinesFew DEF InLine
<1>3. CASE k # Len(lines)
    <2> DEFINE line == lines[k + 1]
               w == Bytes(line)
    <2>1. k \in 0 .. Len(lines) - 1 /\ k < Len(lines)
        BY <1>1, <1>3
    <2>2. line \in Command /\ BytesOf(Drop(lines, k)) = w \o BytesOf(Drop(lines, k + 1))
        BY <2>1, LinesAhead
    <2>3. w \in Seq(Byte) /\ Len(w) # 0
        <3> HIDE DEF line
        <3>1. /\ Len(line.cmd) \in Nat \ {0} /\ Len(line.arg) \in Nat /\ w \in Seq(Byte)
              /\ Len(line.arg) = 0 => Len(w) = Len(line.cmd) + 2
              /\ Len(line.arg) # 0 => Len(w) = Len(line.cmd) + Len(line.arg) + 3
            BY <2>2, BytesIs
        <3> DEFINE n == Len(line.cmd)
                   m == Len(line.arg)
        <3> HIDE DEF w, n, m
        <3>2. /\ n \in Nat \ {0} /\ m \in Nat
              /\ m = 0 => Len(w) = n + 2
              /\ m # 0 => Len(w) = n + m + 3
            BY <3>1 DEF n, m
        <3>3. QED
            BY <3>1, <3>2
    <2>4. Len(w) \in Nat /\ 0 \in 0 .. Len(w) - 1 /\ 0 \in 0 .. Len(w)
        <3>1. Len(w) \in Nat
            BY <2>3, LenProperties
        <3>2. QED
            BY <2>3, <3>1
    <2>5. At(line, 0) = init_parser
        BY <2>2, <2>4, AtIs
    <2>6. Drop(w, 0) = w
        BY <2>3, SubSeqFull DEF Drop
    <2>7. QED
        BY <2>1, <2>2, <2>4, <2>5, <2>6 DEF InLine
<1>4. QED
    BY <1>2, <1>3

\* A line more is ahead, behind the others.
LEMMA InLineMore ==
    ASSUME NEW lines \in Seq(Command), NEW k \in 0 .. Len(lines), NEW p,
           NEW text \in Seq(Byte), NEW line \in Command, InLine(p, lines, k, text)
    PROVE  InLine(p, Append(lines, line), k, text \o Bytes(line))
<1> DEFINE more == Append(lines, line)
<1>1. Len(lines) \in Nat /\ k \in Nat
    BY LenProperties
<1>2. /\ more \in Seq(Command) /\ Len(more) = Len(lines) + 1
      /\ \A i \in 1 .. Len(lines) : more[i] = lines[i]
    BY AppendProperties
<1>3. Bytes(line) \in Seq(Byte)
    BY BytesIs
<1>4. CASE k = Len(lines) /\ p = init_parser /\ text = <<>>
    <2>1. Drop(more, k) = Append(Drop(lines, k), line)
        BY DropAppend
    <2>2. Drop(lines, k) = <<>>
        <3>1. Drop(lines, k) \in Seq(Command) /\ Len(Drop(lines, k)) = Len(lines) - k
            BY DropIs
        <3>2. Len(Drop(lines, k)) = 0
            BY <1>1, <1>4, <3>1
        <3>3. QED
            BY <3>1, <3>2, EmptySeq
    <2>3. BytesOf(Drop(more, k)) = Bytes(line)
        <3>1. Drop(more, k) = <<line>>
            BY <2>1, <2>2
        <3>2. QED
            BY <3>1, LinesFew
    <2>4. text \o Bytes(line) = Bytes(line)
        BY <1>3, <1>4, ConcatEmptySeq
    <2>5. k \in 0 .. Len(more)
        BY <1>1, <1>2
    <2> HIDE DEF more
    <2>6. InLine(init_parser, more, k, BytesOf(Drop(more, k)))
        BY <1>2, <2>5, InLineStarts
    <2>7. QED
        BY <1>4, <2>3, <2>4, <2>6 DEF more
<1>5. CASE k < Len(lines)
    <2> DEFINE next == lines[k + 1]
               w == Bytes(next)
               others == Drop(lines, k + 1)
    <2>1. PICK c \in 0 .. Len(w) - 1 : p = At(next, c) /\ text = Drop(w, c) \o BytesOf(others)
        <3>1. k # Len(lines)
            BY <1>1, <1>5
        <3>2. QED
            BY <3>1, Zenon DEF InLine
    <2>2. k + 1 \in 1 .. Len(lines) /\ k + 1 \in 0 .. Len(lines) /\ k < Len(more)
        BY <1>1, <1>2, <1>5
    <2>3. next \in Command /\ more[k + 1] = next
        BY <1>2, <2>2, ElementOfSeq
    <2>4. others \in Seq(Command)
        BY <2>2, DropIs
    <2>5. Drop(more, k + 1) = Append(others, line)
        BY <2>2, DropAppend
    <2> HIDE DEF next, others
    <2>6. w \in Seq(Byte) /\ Len(w) \in Nat
        BY <2>3, BytesIs, LenProperties
    <2>7. Drop(w, c) \in Seq(Byte)
        <3>1. c \in 0 .. Len(w)
            BY <2>6
        <3>2. QED
            BY <2>6, <3>1, DropIs
    <2>8. BytesOf(Append(others, line)) = BytesOf(others) \o Bytes(line)
          /\ BytesOf(others) \in Seq(Byte)
        BY <2>4, LinesAppend, LinesJoin
    <2> DEFINE x == Drop(w, c)
               y == BytesOf(others)
               z == Bytes(line)
    <2> HIDE DEF x, y, z
    <2>9. (x \o y) \o z = x \o (y \o z)
        <3>1. x \in Seq(Byte) /\ y \in Seq(Byte) /\ z \in Seq(Byte)
            BY <1>3, <2>7, <2>8 DEF x, y, z
        <3>2. QED
            BY <3>1, Associate
    <2>10. text \o Bytes(line) = Drop(w, c) \o BytesOf(Drop(more, k + 1))
        BY <2>1, <2>5, <2>8, <2>9 DEF x, y, z
    <2> HIDE DEF more
    <2>11. QED
        BY <2>1, <2>2, <2>3, <2>10 DEF InLine, more
<1>6. QED
    BY <1>4, <1>5 DEF InLine

\* Parsing goes on in the line, or has come to the end of it.
LEMMA InLineParse ==
    ASSUME NEW n \in Nat, NEW b \in Buffer(Byte, n), NEW rest \in Seq(Byte),
           NEW lines \in Seq(Command), NEW k \in 0 .. Len(lines), NEW p \in Parser,
           InLine(p, lines, k, Unread(b) \o rest)
    PROVE  LET r == parse(p, "monitor", b) IN
           \/ r.parser.err # "NO_ERROR"
           \/ /\ ~r.parser.ended
              /\ InLine(r.parser, lines, k, Unread(r.buffer) \o rest)
           \/ /\ r.parser.ended
              /\ k < Len(lines)
              /\ [cmd |-> r.parser.cmd, arg |-> r.parser.arg] = lines[k + 1]
              /\ Unread(r.buffer) \o rest = BytesOf(Drop(lines, k + 1))
<1> DEFINE u == Unread(b)
           r == parse(p, "monitor", b)
           line == lines[k + 1]
           w == Bytes(line)
           others == BytesOf(Drop(lines, k + 1))
<1>1. Len(lines) \in Nat /\ k \in Nat
    BY LenProperties
<1>2. u \in Seq(Byte) /\ Len(u) \in Nat
    BY BufferIs, LenProperties
<1>3. CASE k = Len(lines) /\ p = init_parser /\ u \o rest = <<>>
    <2>1. u = <<>>
        BY <1>2, <1>3, Joins
    <2>2. r = [parser |-> p, buffer |-> b]
        <3>1. "monitor" \in Kinds
            BY DEF Kinds
        <3>2. QED
            BY <2>1, <3>1, ParseStays
    <2>3. r.parser = p /\ r.buffer = b
        BY <2>2
    <2>4. ~p.ended
        BY <1>3 DEF init_parser
    <2> HIDE DEF r
    <2>5. ~r.parser.ended /\ InLine(r.parser, lines, k, Unread(r.buffer) \o rest)
        BY <2>3, <2>4
    <2>6. QED
        BY <2>5 DEF r
<1>4. CASE k < Len(lines)
    <2>1. PICK c \in 0 .. Len(w) - 1 : p = At(line, c) /\ u \o rest = Drop(w, c) \o others
        <3>1. k # Len(lines)
            BY <1>1, <1>4
        <3>2. QED
            BY <3>1, Zenon DEF InLine
    <2>2. k \in 0 .. Len(lines) - 1 /\ k + 1 \in 0 .. Len(lines)
        BY <1>1, <1>4
    <2>3. line \in Command /\ Drop(lines, k + 1) \in Seq(Command)
        BY <2>2, LinesAhead, DropIs
    <2>4. others \in Seq(Byte)
        BY <2>3, LinesJoin
    <2> HIDE DEF line, others
    <2>5. w \in Seq(Byte) /\ Len(w) \in Nat
        BY <2>3, BytesIs, LenProperties
    <2> DEFINE d == Drop(w, c)
    <2>6. c \in Nat /\ c \in 0 .. Len(w) /\ c < Len(w)
        BY <2>5
    <2>7. d \in Seq(Byte) /\ Len(d) = Len(w) - c /\ \A i \in 1 .. Len(w) - c : d[i] = w[c + i]
        BY <2>5, <2>6, DropIs
    <2> HIDE DEF w, u, d
    <2>8. ASSUME NEW i \in 1 .. Len(u), c + i <= Len(w) PROVE u[i] = w[c + i]
        <3>1. i \in 1 .. Len(w) - c /\ i <= Len(u) /\ i <= Len(d)
            BY <1>2, <2>5, <2>6, <2>7, <2>8
        <3>2. /\ Len(rest) \in Nat /\ Len(others) \in Nat
              /\ i \in 1 .. Len(u) + Len(rest) /\ i \in 1 .. Len(d) + Len(others)
            BY <1>2, <2>4, <2>7, <3>1, LenProperties
        <3>3. (u \o rest)[i] = u[i]
            BY <1>2, <3>1, <3>2, ConcatProperties
        <3>4. (d \o others)[i] = d[i]
            BY <2>4, <2>7, <3>1, <3>2, ConcatProperties
        <3>5. QED
            BY <2>1, <2>7, <3>1, <3>3, <3>4 DEF d
    <2>9. \/ r.parser.err # "NO_ERROR"
          \/ \E j \in 0 .. Len(u) :
                /\ c + j <= Len(w) /\ r.parser = At(line, c + j)
                /\ Unread(r.buffer) = Drop(u, j)
                /\ c + j < Len(w) => j = Len(u)
        BY <2>1, <2>3, <2>8, ParseLine DEF w, u
    <2> HIDE DEF r
    <2>10. CASE r.parser.err # "NO_ERROR"
        BY <2>10 DEF r
    <2>11. ASSUME NEW j \in 0 .. Len(u), c + j <= Len(w), r.parser = At(line, c + j),
                  Unread(r.buffer) = Drop(u, j)
           PROVE  \/ /\ ~r.parser.ended
                     /\ InLine(r.parser, lines, k, Unread(r.buffer) \o rest)
                  \/ /\ r.parser.ended
                     /\ k < Len(lines)
                     /\ [cmd |-> r.parser.cmd, arg |-> r.parser.arg] = line
                     /\ Unread(r.buffer) \o rest = others
        <3>1. j \in Nat /\ c + j \in 0 .. Len(w) /\ j \in 0 .. Len(d) /\ j \in 0 .. Len(w) - c
            BY <1>2, <2>5, <2>6, <2>7, <2>11
        <3>2. Drop(d, j) = Drop(w, c + j)
            BY <2>5, <2>6, <3>1, DropDrop DEF d
        <3>3. Drop(u, j) \o rest = Drop(w, c + j) \o others
            <4>1. Drop(u \o rest, j) = Drop(u, j) \o rest
                BY <1>2, DropConcat
            <4>2. Drop(d \o others, j) = Drop(d, j) \o others
                BY <2>4, <2>7, <3>1, DropConcat
            <4>3. u \o rest = d \o others
                BY <2>1 DEF d
            <4>4. QED
                BY <3>2, <4>1, <4>2, <4>3
        <3>4. /\ (r.parser.ended <=> c + j = Len(w))
              /\ c + j = Len(w) => r.parser.cmd = line.cmd /\ r.parser.arg = line.arg
            BY <2>3, <2>11, <3>1, AtIs DEF w
        <3>5. CASE c + j = Len(w)
            <4>1. Drop(w, c + j) = <<>>
                <5>1. c + j \in 0 .. Len(w)
                    BY <3>1
                <5>2. Drop(w, c + j) \in Seq(Byte) /\ Len(Drop(w, c + j)) = Len(w) - (c + j)
                    BY <2>5, <5>1, DropIs
                <5>3. Len(Drop(w, c + j)) = 0
                    BY <2>5, <3>5, <5>2
                <5>4. QED
                    BY <5>2, <5>3, EmptySeq
            <4>2. Unread(r.buffer) \o rest = others
                BY <2>4, <2>11, <3>3, <4>1, ConcatEmptySeq
            <4>3. [cmd |-> r.parser.cmd, arg |-> r.parser.arg] = line
                <5>1. line = [cmd |-> line.cmd, arg |-> line.arg]
                    BY <2>3 DEF Command
                <5>2. QED
                    BY <3>4, <3>5, <5>1
            <4>4. QED
                BY <1>4, <3>4, <3>5, <4>2, <4>3
        <3>6. CASE c + j # Len(w)
            <4>1. c + j \in 0 .. Len(w) - 1
                BY <2>5, <3>1, <3>6
            <4>2. Unread(r.buffer) \o rest = Drop(w, c + j) \o others
                BY <2>11, <3>3
            <4>3. InLine(r.parser, lines, k, Unread(r.buffer) \o rest)
                BY <1>4, <2>11, <4>1, <4>2, Zenon DEF InLine, w, line, others
            <4>4. QED
                BY <3>4, <3>6, <4>3
        <3>7. QED
            BY <3>5, <3>6
    <2>12. QED
        BY <2>9, <2>10, <2>11 DEF r, line, others
<1>5. (k = Len(lines) /\ p = init_parser /\ u \o rest = <<>>) \/ k < Len(lines)
    BY DEF InLine
<1>6. QED
    BY <1>3, <1>4, <1>5

-----------------------------------------------------------------------------
(* The client program                                                      *)

\* What snprintf() leaves of a text.
LEMMA CutIs ==
    ASSUME NEW S, NEW s \in Seq(S), NEW n \in Nat \ {0}
    PROVE  Cut(s, n) \in Seq(S)
<1> DEFINE k == IF Len(s) < n THEN Len(s) ELSE n - 1
<1>1. Len(s) \in Nat
    BY LenProperties
<1>2. k \in 0 .. Len(s)
    BY <1>1
<1> HIDE DEF k
<1>3. SubSeq(s, 1, k) \in Seq(S)
    BY <1>2, TakeIs
<1>4. QED
    BY <1>3 DEF Cut, k

\* A line of a command and printable words is one.
LEMMA LineOfIs ==
    ASSUME NEW name \in Names, NEW args \in Seq(Seq(Printable)),
           Len(args) = monitor_cmds_args[name]
    PROVE  LineOf(name, args) \in Command
<1> DEFINE n == monitor_cmds_args[name]
           two == args[1] \o << "SP" >> \o args[2]
<1>0. name = Login => n = 2
    BY NamesDiffer
<1>1. n \in {0, 1, 2}
    BY NamesDiffer DEF Names
<1>2. n = Len(args)
    OBVIOUS
<1> HIDE DEF n
<1>3. n # 0 => args[1] \in Seq(Printable)
    <2>1. n # 0 => 1 \in 1 .. Len(args)
        BY <1>1, <1>2
    <2>2. QED
        BY <2>1, ElementOfSeq
<1>4. n # 0 /\ n # 1 => two \in Seq(Printable)
    <2>1. n # 0 /\ n # 1 => 2 \in 1 .. Len(args)
        BY <1>1, <1>2
    <2>2. n # 0 /\ n # 1 => args[2] \in Seq(Printable)
        BY <2>1, ElementOfSeq
    <2>3. << "SP" >> \in Seq(Printable)
        BY BytesAre
    <2>4. QED
        BY <1>3, <2>2, <2>3, ConcatProperties
<1> HIDE DEF two
<1>5. /\ MAX_ARG_LEN \in Nat \ {0} /\ 2 * MAX_ARG_LEN + 1 \in Nat \ {0}
      /\ MONITOR_MAX_CMD_LEN \in Nat \ {0}
    BY LengthsAssumption
<1>6. ArgsOf(name, args) \in Seq(Printable)
    <2>1. CASE n = 0
        <3>1. ArgsOf(name, args) = << >>
            BY <1>0, <2>1 DEF ArgsOf, n
        <3>2. QED
            BY <3>1, EmptySeq
    <2>2. CASE n = 1
        <3>1. ArgsOf(name, args) = Cut(args[1], MAX_ARG_LEN)
            BY <1>0, <2>2 DEF ArgsOf, n
        <3>2. QED
            BY <1>3, <1>5, <2>2, <3>1, CutIs
    <2>3. CASE n # 0 /\ n # 1
        <3>1. \/ ArgsOf(name, args) = Cut(two, 2 * MAX_ARG_LEN + 1)
              \/ ArgsOf(name, args) = Cut(two, MAX_ARG_LEN)
            BY <1>0, <2>3 DEF ArgsOf, n, two
        <3>2. two \in Seq(Printable)
            BY <1>4, <2>3
        <3>3. Cut(two, 2 * MAX_ARG_LEN + 1) \in Seq(Printable)
              /\ Cut(two, MAX_ARG_LEN) \in Seq(Printable)
            BY <1>5, <3>2, CutIs
        <3>4. QED
            BY <3>1, <3>3
    <2>4. QED
        BY <2>1, <2>2, <2>3
<1>7. ArgsOf(name, args) \in Seq(Activators \ {"CR"})
    <2>1. Printable \subseteq Activators \ {"CR"}
        BY BytesAre
    <2>2. QED
        BY <1>6, <2>1, SeqMonotonic
<1>8. <<name>> \in Seq(Activators \ {"SP", "CR"}) /\ Len(<<name>>) \in 1 .. MONITOR_MAX_CMD_LEN
    <2>1. name \in Activators \ {"SP", "CR"}
        BY NamesAssumption, BytesAre
    <2>2. QED
        BY <1>5, <2>1
<1>9. QED
    BY <1>7, <1>8 DEF LineOf, Command

\* A command the client sends is a line, and so is the QUIT at the end.
LEMMA WordsAreLines ==
    ASSUME NEW words \in Seq(Seq(Printable)), NEW i \in Nat \ {0}, Runs(words, i)
    PROVE  LET name == get_cmd_index(words[i])
               n    == monitor_cmds_args[name]
           IN /\ LineOf(name, SubSeq(words, i + 1, i + n)) \in Command
              /\ i + 1 + n \in Nat \ {0}
<1> DEFINE name == get_cmd_index(words[i])
           n == monitor_cmds_args[name]
           args == SubSeq(words, i + 1, i + n)
<1>1. i <= Len(words) /\ name # NoName /\ Len(words) - i >= n
    BY DEF Runs
<1>2. name \in Names
    BY <1>1 DEF get_cmd_index
<1> HIDE DEF name
<1>3. n \in {0, 1, 2}
    BY <1>2, NamesDiffer DEF Names
<1> HIDE DEF n
<1>4. Len(words) \in Nat
    BY LenProperties
<1>5. \A j \in i + 1 .. i + n : words[j] \in Seq(Printable)
    <2>1. \A j \in i + 1 .. i + n : j \in 1 .. Len(words)
        BY <1>1, <1>3, <1>4
    <2>2. QED
        BY <2>1, ElementOfSeq
<1>6. i + 1 \in Int /\ i + n \in Int
    BY <1>3
<1>7. /\ args \in Seq(Seq(Printable))
      /\ Len(args) = IF i + 1 <= i + n THEN (i + n) - (i + 1) + 1 ELSE 0
    BY <1>5, <1>6, SubSeqProperties
<1> HIDE DEF args
<1>8. Len(args) = n
    BY <1>3, <1>7
<1>9. LineOf(name, args) \in Command
    BY <1>2, <1>7, <1>8, LineOfIs DEF n
<1>10. i + 1 + n \in Nat \ {0}
    BY <1>3
<1>11. QED
    BY <1>9, <1>10 DEF name, n, args

\* QUIT has no argument.
LEMMA QuitIsLine == LineOf(Quit, << >>) \in Command /\ LineOf(Quit, << >>).cmd = <<Quit>>
<1>1. monitor_cmds_args[Quit] = 0
    BY NamesDiffer
<1>2. << >> \in Seq(Seq(Printable)) /\ Len(<< >>) = 0 /\ Quit \in Names
    BY EmptySeq DEF Names
<1>3. LineOf(Quit, << >>) \in Command
    BY <1>1, <1>2, LineOfIs
<1>4. QED
    BY <1>3 DEF LineOf

\* The last four bytes a client has seen, zeros before the first
LastFour(s) == SubSeq(NoBytes \o s, Len(s) + 1, Len(s) + 4)

\* They are four.
LEMMA LastFourIs ==
    ASSUME NEW s \in Seq(Byte)
    PROVE  /\ LastFour(s) \in Seq(Byte) /\ Len(LastFour(s)) = 4
           /\ \A i \in 1 .. 4 : LastFour(s)[i] = (NoBytes \o s)[Len(s) + i]
           /\ NoBytes \in Seq(Byte) /\ Len(NoBytes) = 4
           /\ \A i \in 1 .. 4 : NoBytes[i] = "NUL"
           /\ NoBytes \o s \in Seq(Byte) /\ Len(NoBytes \o s) = 4 + Len(s)
<1> DEFINE x == NoBytes \o s
           n == Len(s)
<1>1. NoBytes \in Seq(Byte) /\ Len(NoBytes) = 4 /\ \A i \in 1 .. 4 : NoBytes[i] = "NUL"
    <2>1. NoBytes = [i \in 1 .. 4 |-> "NUL"]
        BY DEF NoBytes, MONITOR_TERMINATOR
    <2>2. "NUL" \in Byte
        BY BytesAre
    <2>3. [i \in 1 .. 4 |-> "NUL"] \in [1 .. 4 -> Byte]
        BY <2>2
    <2>4. QED
        BY <2>1, <2>3
<1>2. n \in Nat
    BY LenProperties
<1>3. x \in Seq(Byte) /\ Len(x) = 4 + n
    <2>1. x \in Seq(Byte) /\ Len(x) = Len(NoBytes) + Len(s)
        BY <1>1, ConcatProperties
    <2>2. QED
        BY <1>1, <2>1
<1> HIDE DEF x, n
<1>4. \A i \in n + 1 .. n + 4 : x[i] \in Byte
    <2>1. \A i \in n + 1 .. n + 4 : i \in 1 .. Len(x)
        BY <1>2, <1>3
    <2>2. QED
        BY <1>3, <2>1, ElementOfSeq
<1>5. n + 1 \in Int /\ n + 4 \in Int
    BY <1>2
<1> DEFINE lo == n + 1
           hi == n + 4
           l == SubSeq(x, lo, hi)
<1>6. /\ lo \in Int /\ hi \in Int /\ lo <= hi /\ hi - lo + 1 = 4
      /\ \A i \in 1 .. 4 : lo + i - 1 = n + i
    BY <1>2
<1>61. \A i \in lo .. hi : x[i] \in Byte
    BY <1>4
<1>9. LastFour(s) = l
    BY Zenon DEF LastFour, x, n
<1> HIDE DEF lo, hi
<1>7. /\ l \in Seq(Byte)
      /\ Len(l) = IF lo <= hi THEN hi - lo + 1 ELSE 0
      /\ \A i \in 1 .. hi - lo + 1 : l[i] = x[lo + i - 1]
    BY <1>6, <1>61, SubSeqProperties
<1> HIDE DEF l
<1>8. l \in Seq(Byte) /\ Len(l) = 4 /\ \A i \in 1 .. 4 : l[i] = x[n + i]
    BY <1>6, <1>7
<1>10. QED
    BY <1>1, <1>3, <1>8, <1>9 DEF x, n


\* Before the first byte they are zeros.
LEMMA NothingSeen == NoBytes = LastFour(<< >>)
<1> DEFINE none == << >>
           l == LastFour(none)
<1>1. none \in Seq(Byte) /\ Len(none) = 0
    BY Joins
<1>2. NoBytes \o none = NoBytes
    BY <1>1, LastFourIs, Joins
<1> HIDE DEF none
<1>3. /\ l \in Seq(Byte) /\ Len(l) = 4 /\ NoBytes \in Seq(Byte) /\ Len(NoBytes) = 4
      /\ \A i \in 1 .. 4 : l[i] = (NoBytes \o none)[Len(none) + i]
    BY <1>1, LastFourIs
<1> HIDE DEF l
<1>4. \A i \in 1 .. 4 : NoBytes[i] = l[i]
    BY <1>1, <1>2, <1>3
<1>5. NoBytes = l
    <2> DEFINE zeros == NoBytes
    <2>1. zeros \in Seq(Byte) /\ Len(zeros) = 4 /\ \A i \in 1 .. 4 : zeros[i] = l[i]
        BY <1>3, <1>4, Zenon
    <2> HIDE DEF zeros
    <2>2. zeros = l
        BY <1>3, <2>1, SeqEqual
    <2>3. QED
        BY <2>2 DEF zeros
<1>6. QED
    BY <1>5 DEF l, none

\* The buffer of the client holds the last four bytes whatever chunks they
\* came in.
LEMMA LastOfMore ==
    ASSUME NEW s \in Seq(Byte), NEW t \in Seq(Byte)
    PROVE  buffer_write(LastFour(s), t) = LastFour(s \o t)
<1> DEFINE n == Len(s)
           m == Len(t)
           l == LastFour(s)
           all == l \o t
           lo == Len(all) - Len(l) + 1
           hi == Len(all)
           x == NoBytes \o s
           y == x \o t
           w == SubSeq(all, lo, hi)
           r == LastFour(s \o t)
<1>1. n \in Nat /\ m \in Nat
    BY LenProperties
<1>2. /\ l \in Seq(Byte) /\ Len(l) = 4 /\ \A i \in 1 .. 4 : l[i] = x[n + i]
      /\ x \in Seq(Byte) /\ Len(x) = 4 + n /\ NoBytes \in Seq(Byte)
    BY LastFourIs
<1>3. s \o t \in Seq(Byte) /\ Len(s \o t) = n + m
    BY Joins
<1>4. NoBytes \o (s \o t) = y
    BY <1>2, Associate
<1>5. r \in Seq(Byte) /\ Len(r) = 4 /\ \A i \in 1 .. 4 : r[i] = y[Len(s \o t) + i]
    BY <1>3, <1>4, LastFourIs
<1>6. buffer_write(l, t) = w
    BY DEF buffer_write
<1> HIDE DEF l, x, r
<1>7. all \in Seq(Byte) /\ Len(all) = Len(l) + m
      /\ \A i \in 1 .. Len(l) + m : all[i] = IF i <= Len(l) THEN l[i] ELSE t[i - Len(l)]
    <2>1. l \in Seq(Byte)
        BY <1>2
    <2>2. /\ l \o t \in Seq(Byte) /\ Len(l \o t) = Len(l) + Len(t)
          /\ \A i \in 1 .. Len(l) + Len(t) : (l \o t)[i] = IF i <= Len(l) THEN l[i] ELSE t[i - Len(l)]
        BY <2>1, ConcatProperties
    <2>3. QED
        BY <2>2
<1>8. /\ \A i \in 1 .. Len(x) + m : y[i] = IF i <= Len(x) THEN x[i] ELSE t[i - Len(x)]
    BY <1>2, ConcatProperties
<1> HIDE DEF all, y
<1>9. lo = m + 1 /\ hi = m + 4 /\ lo \in Int /\ hi \in Int /\ lo <= hi /\ hi - lo + 1 = 4
      /\ \A i \in 1 .. 4 : lo + i - 1 = m + i
    BY <1>1, <1>2, <1>7
<1>10. \A i \in lo .. hi : all[i] \in Byte
    <2>1. \A i \in lo .. hi : i \in 1 .. Len(all)
        BY <1>1, <1>2, <1>7, <1>9
    <2>2. QED
        BY <1>7, <2>1, ElementOfSeq
<1> HIDE DEF lo, hi
<1>11. /\ w \in Seq(Byte)
       /\ Len(w) = IF lo <= hi THEN hi - lo + 1 ELSE 0
       /\ \A i \in 1 .. hi - lo + 1 : w[i] = all[lo + i - 1]
    BY <1>9, <1>10, SubSeqProperties
<1> HIDE DEF w
<1>12. w \in Seq(Byte) /\ Len(w) = 4 /\ \A i \in 1 .. 4 : w[i] = all[m + i]
    BY <1>9, <1>11
<1>13. ASSUME NEW i \in 1 .. 4
       PROVE  w[i] = r[i]
    <2>1. w[i] = all[m + i] /\ r[i] = y[n + m + i]
        BY <1>3, <1>5, <1>12
    <2>2. m + i \in 1 .. 4 + m /\ n + m + i \in 1 .. (4 + n) + m /\ i \in Nat
        BY <1>1
    <2>3. CASE m + i <= 4
        <3>1. all[m + i] = l[m + i] /\ y[n + m + i] = x[n + m + i]
            BY <1>1, <1>2, <1>7, <1>8, <2>2, <2>3
        <3>2. m + i \in 1 .. 4 /\ n + (m + i) = n + m + i
            BY <1>1, <2>2, <2>3
        <3>3. QED
            BY <1>2, <2>1, <3>1, <3>2
    <2>4. CASE ~(m + i <= 4)
        <3>1. all[m + i] = t[m + i - 4] /\ y[n + m + i] = t[n + m + i - (4 + n)]
            BY <1>1, <1>2, <1>7, <1>8, <2>2, <2>4
        <3>2. n + m + i - (4 + n) = m + i - 4
            BY <1>1, <2>2
        <3>3. QED
            BY <2>1, <3>1, <3>2
    <2>5. QED
        BY <2>3, <2>4
<1>14. w = r
    BY <1>5, <1>12, <1>13, SeqEqual
<1>15. QED
    BY <1>6, <1>14 DEF r, l

\* A part of an answer that ends with the terminator is the whole of it.
LEMMA TerminatorEnds ==
    ASSUME NEW line \in Command, NEW k \in 0 .. Len(Answer(line)),
           LastFour(SubSeq(Answer(line), 1, k)) = MONITOR_TERMINATOR
    PROVE  k = Len(Answer(line)) /\ line.cmd # <<Quit>>
<1> DEFINE a == Answer(line)
           n == Len(a)
           p == SubSeq(a, 1, k)
           x == NoBytes \o p
           l == LastFour(p)
<1>1. /\ a \in Seq(Byte) /\ n \in {0, 5, 8}
      /\ n = 0 <=> line.cmd = <<Quit>>
      /\ n = 5 => a[1] # "CR"
      /\ n = 8 => a[1] # "CR" /\ a[2] = "CR" /\ a[3] = "LF" /\ a[5] = "CR"
    BY AnswerIs
<1>2. k \in 0 .. n
    OBVIOUS
<1>3. l[1] = "CR" /\ l[2] = "LF"
    BY DEF MONITOR_TERMINATOR
<1>34. l[4] = "LF"
    BY DEF MONITOR_TERMINATOR
<1> HIDE DEF a, n
<1>4. p \in Seq(Byte) /\ Len(p) = k /\ \A i \in 1 .. k : p[i] = a[i]
    BY <1>1, <1>2, TakeIs DEF n
<1> HIDE DEF p
<1>5. /\ \A i \in 1 .. 4 : l[i] = x[k + i]
      /\ NoBytes \in Seq(Byte) /\ Len(NoBytes) = 4
      /\ \A i \in 1 .. 4 : NoBytes[i] = "NUL"
    BY <1>4, LastFourIs
<1>6. \A i \in 1 .. Len(NoBytes) + k : x[i] = IF i <= Len(NoBytes) THEN NoBytes[i]
                                                 ELSE p[i - Len(NoBytes)]
    BY <1>4, <1>5, ConcatProperties
<1> HIDE DEF x, l
<1>7. k \in Nat /\ k \in 0 .. 8 /\ k <= n
    BY <1>1, <1>2
<1>8. \A i \in 1 .. 4 + k : x[i] = IF i <= 4 THEN "NUL" ELSE p[i - 4]
    BY <1>5, <1>6, <1>7
<1>9. k >= 4
    <2>1. SUFFICES ASSUME k < 4 PROVE FALSE
        BY <1>7
    <2>2. k + 1 \in 1 .. 4 + k /\ k + 1 <= 4
        BY <1>7, <2>1
    <2>3. x[k + 1] = "NUL"
        BY <1>8, <2>2
    <2>4. QED
        BY <1>3, <1>5, <2>3
<1>10. a[k - 3] = "CR" /\ a[k - 2] = "LF" /\ a[k] = "LF"
    <2>1. \A i \in {1, 2, 4} : l[i] = a[k + i - 4]
        <3>1. TAKE i \in {1, 2, 4}
        <3>2. k + i \in 1 .. 4 + k /\ ~(k + i <= 4) /\ k + i - 4 \in 1 .. k /\ i \in 1 .. 4
            BY <1>7, <1>9
        <3>3. x[k + i] = p[k + i - 4]
            BY <1>8, <3>2
        <3>4. p[k + i - 4] = a[k + i - 4]
            BY <1>4, <3>2
        <3>5. QED
            BY <1>5, <3>2, <3>3, <3>4
    <2>2. k + 1 - 4 = k - 3 /\ k + 2 - 4 = k - 2 /\ k + 4 - 4 = k
        BY <1>7
    <2>3. QED
        BY <1>3, <1>34, <2>1, <2>2
<1>11. n # 0
    BY <1>7, <1>9
<1>12. CASE n = 5
    <2>1. k # 4
        BY <1>1, <1>10, <1>12
    <2>2. QED
        BY <1>1, <1>7, <1>9, <1>11, <1>12, <2>1 DEF n, a
<1>13. CASE n = 8
    <2>1. k # 4 /\ k # 5 /\ k # 6 /\ k # 7
        <3>1. 4 - 3 = 1 /\ 6 - 3 = 3
            OBVIOUS
        <3>2. k # 4
            BY <1>1, <1>10, <1>13, <3>1
        <3>3. k # 5
            BY <1>1, <1>10, <1>13
        <3>4. k # 6
            BY <1>1, <1>10, <1>13, <3>1
        <3>5. k # 7
            <4>1. 7 - 2 = 5
                OBVIOUS
            <4>2. QED
                BY <1>1, <1>10, <1>13, <4>1
        <3>6. QED
            BY <3>2, <3>3, <3>4, <3>5
    <2>2. QED
        BY <1>1, <1>7, <1>9, <1>11, <1>13, <2>1 DEF n, a
<1>14. QED
    BY <1>1, <1>11, <1>12, <1>13

\* What has arrived of an answer, when the rest of the text is known to be on
\* its way, is the beginning of it; all of it when the terminator is there.
LEMMA PartOfAnswer ==
    ASSUME NEW before \in Seq(Byte), NEW line \in Command, NEW part \in Seq(Byte),
           NEW rest \in Seq(Byte), (before \o part) \o rest = before \o Answer(line),
           LastFour(part) = MONITOR_TERMINATOR
    PROVE  part = Answer(line) /\ line.cmd # <<Quit>>
<1> DEFINE a == Answer(line)
           k == Len(part)
<1>1. a \in Seq(Byte)
    BY AnswerIs
<1> HIDE DEF a
<1>2. before \o (part \o rest) = before \o a
    BY Associate DEF a
<1>3. part \o rest \in Seq(Byte) /\ Len(part \o rest) = Len(part) + Len(rest)
      /\ k \in Nat /\ Len(rest) \in Nat
    BY Joins
<1>4. part \o rest = a
    <2> DEFINE pr == part \o rest
    <2>1. pr \in Seq(Byte) /\ before \o pr = before \o a
        BY <1>2, <1>3
    <2> HIDE DEF pr
    <2>2. pr = a
        BY <1>1, <2>1, Joins
    <2>3. QED
        BY <2>2 DEF pr
<1>5. Len(a) = k + Len(rest) /\ k \in 0 .. Len(a)
    BY <1>3, <1>4
<1>6. SubSeq(a, 1, k) = part
    <2>1. SubSeq(part \o rest, 1, Len(part)) = part
        BY SubSeqOfConcat1, SubSeqFull
    <2>2. QED
        BY <1>4, <2>1
<1>7. k = Len(a) /\ line.cmd # <<Quit>>
    BY <1>5, <1>6, TerminatorEnds DEF a
<1>8. SubSeq(a, 1, Len(a)) = a
    BY <1>1, SubSeqFull
<1>9. QED
    BY <1>6, <1>7, <1>8 DEF a


-----------------------------------------------------------------------------
(* The inductive invariant                                                 *)

\* The values the variables take.
Typed ==
    /\ argv \in Seq(Seq(Printable)) /\ argcmd \in Nat \ {0}
    /\ client \in {"ready", "receiving", "closed"}
    /\ toServer \in Seq(Byte) /\ toClient \in Seq(Byte) /\ received \in Seq(Byte)
    /\ open \in BOOLEAN /\ is_sending \in BOOLEAN /\ interest \in {"READ", "WRITE"}
    /\ read_buffer \in Buffer(Byte, READ_BUFFER_SIZE)
    /\ write_buffer \in Buffer(Byte, WRITE_BUFFER_SIZE)
    /\ parser \in Parser
    /\ asked \in Seq(Command) /\ executed \in Seq(Command)

\* A buffer is empty from its first byte on when something is put into it: the
\* one to read into when there was nothing left to parse, the one to send from
\* when the last answer has gone.
Rooms ==
    /\ Rewound(read_buffer) /\ Rewound(write_buffer)
    /\ ~is_sending => write_buffer.write = 0
    /\ is_sending => write_buffer.write < WRITE_BUFFER_SIZE
    /\ interest = "READ" => read_buffer.write = 0

\* What was carried out is what was asked first, and what is in the buffer and
\* on its way is the rest of the line the parser is in, and all lines behind.
Stream ==
    /\ Len(executed) <= Len(asked) /\ executed = SubSeq(asked, 1, Len(executed))
    /\ open /\ parser.err = "NO_ERROR" =>
         InLine(parser, asked, Len(executed), Unread(read_buffer) \o toServer)

\* What arrived, what is on its way and what is in the buffer are the answers.
Answers == AnswersTo(executed) = received \o toClient \o Unread(write_buffer)

\* What has arrived is the answers to all lines but the last, and a part of the
\* answer to that, of which the client holds the end.
Awaits(lines, got, end) ==
    /\ lines # << >>
    /\ \A i \in 1 .. Len(lines) - 1 : lines[i].cmd # <<Quit>>
    /\ \E part \in Seq(Byte) :
         /\ got = AnswersTo(SubSeq(lines, 1, Len(lines) - 1)) \o part
         /\ end = LastFour(part)

\* A client program that is ready has read every answer.
Client ==
    /\ argv = << >> => client = "receiving"
    /\ argv # << >> /\ client = "ready" =>
         received = AnswersTo(asked) /\ \A i \in DOMAIN asked : asked[i].cmd # <<Quit>>
    /\ argv # << >> /\ client = "receiving" => Awaits(asked, received, last)

Inv == Typed /\ Rooms /\ Stream /\ Answers /\ Client

\* A new parser is one.
LEMMA NewParserIs == init_parser \in Parser
<1>1. << >> \in Seq(Byte)
    BY Joins
<1>2. QED
    BY <1>1 DEF init_parser, Parser, States

\* The first state, with nothing or with lines on their way.
LEMMA InvBegins == Init => Inv
<1>1. SUFFICES ASSUME Init PROVE Inv
    OBVIOUS
<1>2. /\ READ_BUFFER_SIZE \in Nat /\ WRITE_BUFFER_SIZE \in Nat
      /\ READ_BUFFER_SIZE # 0 /\ WRITE_BUFFER_SIZE # 0 /\ 0 < WRITE_BUFFER_SIZE
    BY SizesAssumption
<1>3. "NUL" \in Byte
    BY BytesAre
<1>4. /\ read_buffer \in Buffer(Byte, READ_BUFFER_SIZE)
      /\ read_buffer.read = 0 /\ read_buffer.write = 0
    BY <1>1, <1>2, <1>3, NewBufferIs DEF Init
<1>5. /\ write_buffer \in Buffer(Byte, WRITE_BUFFER_SIZE)
      /\ write_buffer.read = 0 /\ write_buffer.write = 0
    BY <1>1, <1>2, <1>3, NewBufferIs DEF Init
<1>6. Unread(read_buffer) = << >> /\ Unread(write_buffer) = << >>
    BY <1>2, <1>4, <1>5, NothingToRead
<1>7. argv \in Seq(Seq(Printable)) /\ asked \in Seq(Command)
    <2>1. CASE argv \in Argvs /\ asked = << >>
        BY <2>1, LinesAssumption, EmptySeq
    <2>2. CASE argv = << >> /\ asked \in Pipelines
        BY <2>2, LinesAssumption, EmptySeq
    <2>3. QED
        BY <1>1, <2>1, <2>2 DEF Init
<1>8. toServer = BytesOf(asked)
    BY <1>1, Zenon DEF Init, BytesOf
<1>9. toServer \in Seq(Byte)
    BY <1>7, <1>8, LinesJoin
<1>10. /\ argcmd = 1 /\ toClient = << >> /\ received = << >> /\ executed = << >>
       /\ open = TRUE /\ is_sending = FALSE /\ interest = "READ" /\ parser = init_parser
       /\ client = IF argv = << >> THEN "receiving" ELSE "ready"
       /\ argv # << >> => asked = << >>
    BY <1>1 DEF Init
<1>11. init_parser \in Parser
    BY NewParserIs
<1>12. Typed
    <2>1. << >> \in Seq(Byte) /\ << >> \in Seq(Command)
        BY EmptySeq
    <2>2. /\ argcmd \in Nat \ {0} /\ client \in {"ready", "receiving", "closed"}
          /\ open \in BOOLEAN /\ is_sending \in BOOLEAN /\ interest \in {"READ", "WRITE"}
        <3>1. argcmd \in Nat \ {0}
            BY <1>10
        <3>2. client \in {"ready", "receiving", "closed"} /\ interest \in {"READ", "WRITE"}
            BY <1>10, Zenon
        <3>3. open \in BOOLEAN /\ is_sending \in BOOLEAN
            BY <1>10, Zenon
        <3>4. QED
            BY <3>1, <3>2, <3>3
    <2>3. toClient \in Seq(Byte) /\ received \in Seq(Byte) /\ executed \in Seq(Command)
          /\ parser \in Parser
        BY <1>10, <1>11, <2>1
    <2>4. QED
        BY <1>4, <1>5, <1>7, <1>9, <2>2, <2>3, Zenon DEF Typed
<1>13. Rooms
    BY <1>2, <1>4, <1>5, <1>10 DEF Rooms, Rewound
<1>14. Stream
    <2>1. Len(asked) \in Nat /\ 0 \in 0 .. Len(asked) /\ Len(<< >>) = 0
        BY <1>7, LenProperties
    <2>2. SubSeq(asked, 1, 0) = << >>
        BY <1>7, SubSeqEmpty
    <2>3. Drop(asked, 0) = asked
        BY <1>7, SubSeqFull DEF Drop
    <2>4. InLine(init_parser, asked, 0, toServer)
        BY <1>7, <1>8, <2>1, <2>3, InLineStarts
    <2>5. << >> \o toServer = toServer
        BY <1>9, Joins
    <2>6. QED
        BY <1>6, <1>10, <2>1, <2>2, <2>4, <2>5 DEF Stream
<1>15. Answers
    <2>1. AnswersTo(<< >>) = << >>
        BY LinesFew
    <2>2. << >> \o << >> \o << >> = << >>
        OBVIOUS
    <2>3. QED
        BY <1>6, <1>10, <2>1, <2>2 DEF Answers
<1>16. Client
    <2>1. AnswersTo(<< >>) = << >>
        BY LinesFew
    <2>2. QED
        BY <1>10, <2>1 DEF Client
<1>17. QED
    BY <1>12, <1>13, <1>14, <1>15, <1>16 DEF Inv

\* A command is sent: its line is behind the others.
LEMMA SendKeeps == Inv /\ send_cmd => Inv'
<1>1. SUFFICES ASSUME Inv, send_cmd PROVE Inv'
    OBVIOUS
<1> DEFINE name == get_cmd_index(argv[argcmd])
           n == monitor_cmds_args[name]
           line == LineOf(name, SubSeq(argv, argcmd + 1, argcmd + n))
<1>2. /\ client = "ready" /\ Runs(argv, argcmd)
      /\ toServer' = toServer \o Bytes(line) /\ asked' = Append(asked, line)
      /\ argcmd' = argcmd + 1 + n /\ client' = "receiving" /\ last' = NoBytes
      /\ argv' = argv /\ received' = received /\ toClient' = toClient
      /\ open' = open /\ interest' = interest /\ is_sending' = is_sending
      /\ read_buffer' = read_buffer /\ write_buffer' = write_buffer
      /\ parser' = parser /\ executed' = executed
    BY <1>1, Zenon DEF send_cmd, serverVars
<1>3. Typed /\ Rooms /\ Stream /\ Answers /\ Client
    BY <1>1 DEF Inv
<1>4. line \in Command /\ argcmd + 1 + n \in Nat \ {0}
    BY <1>2, <1>3, WordsAreLines DEF Typed
<1> HIDE DEF line, n
<1>5. asked \in Seq(Command) /\ executed \in Seq(Command) /\ Len(asked) \in Nat /\ Len(executed) \in Nat
    BY <1>3, LenProperties DEF Typed
<1>6. asked' \in Seq(Command) /\ Len(asked') = Len(asked) + 1
      /\ \A i \in 1 .. Len(asked) : asked'[i] = asked[i]
    BY <1>2, <1>4, <1>5, AppendProperties
<1>7. Bytes(line) \in Seq(Byte)
    BY <1>4, BytesIs
<1>8. Typed'
    <2>1. toServer' \in Seq(Byte)
        BY <1>2, <1>3, <1>7, Joins DEF Typed
    <2>2. QED
        BY <1>2, <1>3, <1>4, <1>6, <2>1 DEF Typed
<1>9. Rooms'
    BY <1>2, <1>3 DEF Rooms
<1>10. Stream'
    <2>1. Len(executed) \in 0 .. Len(asked) /\ executed = SubSeq(asked, 1, Len(executed))
        BY <1>3, <1>5 DEF Stream
    <2>2. SubSeq(asked', 1, Len(executed)) = executed
        BY <1>2, <1>4, <1>5, <2>1, DropAppend
    <2>3. ASSUME open, parser.err = "NO_ERROR"
          PROVE  InLine(parser, asked', Len(executed), Unread(read_buffer) \o toServer')
        <3> DEFINE text == Unread(read_buffer) \o toServer
        <3>1. Unread(read_buffer) \in Seq(Byte) /\ toServer \in Seq(Byte)
            BY <1>3, SizesAssumption, BufferIs DEF Typed
        <3>2. text \in Seq(Byte)
            BY <3>1, Joins
        <3>3. InLine(parser, asked, Len(executed), text)
            BY <1>3, <2>3 DEF Stream
        <3>4. text \o Bytes(line) = Unread(read_buffer) \o (toServer \o Bytes(line))
            BY <1>7, <3>1, Associate
        <3> HIDE DEF text
        <3>5. InLine(parser, Append(asked, line), Len(executed), text \o Bytes(line))
            BY <1>4, <1>5, <2>1, <3>2, <3>3, InLineMore
        <3>6. QED
            BY <1>2, <3>4, <3>5
    <2>4. QED
        BY <1>2, <1>5, <1>6, <2>1, <2>2, <2>3 DEF Stream
<1>11. Answers'
    BY <1>2, <1>3 DEF Answers
<1>12. Client'
    <2>1. argv # << >> /\ received = AnswersTo(asked)
          /\ \A i \in DOMAIN asked : asked[i].cmd # <<Quit>>
        BY <1>2, <1>3 DEF Client
    <2>2. Len(asked') - 1 = Len(asked) /\ asked' # << >>
        BY <1>5, <1>6
    <2>3. SubSeq(asked', 1, Len(asked)) = asked
        <3>1. SubSeq(asked', 1, Len(asked)) = SubSeq(asked, 1, Len(asked))
            BY <1>2, <1>4, <1>5, DropAppend
        <3>2. QED
            BY <1>5, <3>1, SubSeqFull
    <2>4. received \o << >> = received /\ << >> \in Seq(Byte)
        BY <1>3, Joins DEF Typed
    <2>5. NoBytes = LastFour(<< >>)
        BY NothingSeen
    <2>6. \A i \in 1 .. Len(asked) : asked'[i].cmd # <<Quit>>
        BY <1>5, <1>6, <2>1
    <2>7. Awaits(asked', received', last')
        BY <1>2, <2>1, <2>2, <2>3, <2>4, <2>5, <2>6 DEF Awaits
    <2>8. QED
        BY <1>2, <2>1, <2>7 DEF Client
<1>13. QED
    BY <1>8, <1>9, <1>10, <1>11, <1>12 DEF Inv


\* The QUIT at the end is a line more, if it is sent.
LEMMA QuitKeeps == Inv /\ cmd_quit => Inv'
<1>1. SUFFICES ASSUME Inv, cmd_quit PROVE Inv'
    OBVIOUS
<1> DEFINE line == LineOf(Quit, << >>)
<1>2. /\ client = "ready"
      /\ toServer' = (IF open THEN toServer \o Bytes(line) ELSE toServer)
      /\ asked' = Append(asked, line)
      /\ client' = "closed" /\ last' = last /\ argcmd' = argcmd
      /\ argv' = argv /\ received' = received /\ toClient' = toClient
      /\ open' = open /\ interest' = interest /\ is_sending' = is_sending
      /\ read_buffer' = read_buffer /\ write_buffer' = write_buffer
      /\ parser' = parser /\ executed' = executed
    BY <1>1, Zenon DEF cmd_quit, serverVars
<1>3. Typed /\ Rooms /\ Stream /\ Answers /\ Client
    BY <1>1 DEF Inv
<1>4. line \in Command
    BY QuitIsLine
<1> HIDE DEF line
<1>5. asked \in Seq(Command) /\ executed \in Seq(Command) /\ Len(asked) \in Nat /\ Len(executed) \in Nat
    BY <1>3, LenProperties DEF Typed
<1>6. asked' \in Seq(Command) /\ Len(asked') = Len(asked) + 1
      /\ \A i \in 1 .. Len(asked) : asked'[i] = asked[i]
    BY <1>2, <1>4, <1>5, AppendProperties
<1>7. Bytes(line) \in Seq(Byte)
    BY <1>4, BytesIs
<1>8. Typed'
    <2>1. toServer' \in Seq(Byte)
        BY <1>2, <1>3, <1>7, Joins DEF Typed
    <2>2. QED
        BY <1>2, <1>3, <1>6, <2>1 DEF Typed
<1>9. Rooms'
    BY <1>2, <1>3 DEF Rooms
<1>10. Stream'
    <2>1. Len(executed) \in 0 .. Len(asked) /\ executed = SubSeq(asked, 1, Len(executed))
        BY <1>3, <1>5 DEF Stream
    <2>2. SubSeq(asked', 1, Len(executed)) = executed
        BY <1>2, <1>4, <1>5, <2>1, DropAppend
    <2>3. ASSUME open, parser.err = "NO_ERROR"
          PROVE  InLine(parser, asked', Len(executed), Unread(read_buffer) \o toServer')
        <3> DEFINE text == Unread(read_buffer) \o toServer
        <3>1. Unread(read_buffer) \in Seq(Byte) /\ toServer \in Seq(Byte)
            BY <1>3, SizesAssumption, BufferIs DEF Typed
        <3>2. text \in Seq(Byte)
            BY <3>1, Joins
        <3>3. InLine(parser, asked, Len(executed), text)
            BY <1>3, <2>3 DEF Stream
        <3>4. text \o Bytes(line) = Unread(read_buffer) \o (toServer \o Bytes(line))
            BY <1>7, <3>1, Associate
        <3> HIDE DEF text
        <3>5. InLine(parser, Append(asked, line), Len(executed), text \o Bytes(line))
            BY <1>4, <1>5, <2>1, <3>2, <3>3, InLineMore
        <3>6. QED
            BY <1>2, <2>3, <3>4, <3>5
    <2>4. QED
        BY <1>2, <1>5, <1>6, <2>1, <2>2, <2>3 DEF Stream
<1>11. Answers'
    BY <1>2, <1>3 DEF Answers
<1>12. Client'
    BY <1>2, <1>3 DEF Client
<1>13. QED
    BY <1>8, <1>9, <1>10, <1>11, <1>12 DEF Inv

\* A chunk arrives at the client, which goes on if it ends an answer.
LEMMA RecvKeeps == Inv /\ recv_cmd => Inv'
<1>1. SUFFICES ASSUME Inv, recv_cmd PROVE Inv'
    OBVIOUS
<1>2. Typed /\ Rooms /\ Stream /\ Answers /\ Client
    BY <1>1 DEF Inv
<1>3. /\ client = "receiving"
      /\ client' = IF argv # << >> /\ has_terminator(last') THEN "ready" ELSE "receiving"
      /\ argv' = argv /\ argcmd' = argcmd /\ asked' = asked /\ toServer' = toServer
      /\ open' = open /\ interest' = interest /\ is_sending' = is_sending
      /\ read_buffer' = read_buffer /\ write_buffer' = write_buffer
      /\ parser' = parser /\ executed' = executed
    BY <1>1, Zenon DEF recv_cmd, serverVars
<1>4. PICK k \in 1 .. Len(toClient) :
         /\ toClient' = SubSeq(toClient, k + 1, Len(toClient))
         /\ received' = received \o SubSeq(toClient, 1, k)
         /\ last' = buffer_write(last, SubSeq(toClient, 1, k))
    BY <1>1, Zenon DEF recv_cmd
<1> DEFINE chunk == SubSeq(toClient, 1, k)
           left == Drop(toClient, k)
           unsent == Unread(write_buffer)
<1>5. toClient \in Seq(Byte) /\ received \in Seq(Byte) /\ Len(toClient) \in Nat
    BY <1>2, LenProperties DEF Typed
<1>6. k \in 0 .. Len(toClient)
    BY <1>5
<1>7. chunk \in Seq(Byte) /\ left \in Seq(Byte) /\ toClient = chunk \o left
    BY <1>5, <1>6, Joins
<1>8. toClient' = left /\ received' = received \o chunk /\ last' = buffer_write(last, chunk)
    BY <1>4 DEF Drop
<1> HIDE DEF chunk, left
<1>9. received' \in Seq(Byte) /\ toClient' \in Seq(Byte)
    BY <1>5, <1>7, <1>8, Joins
<1>10. asked \in Seq(Command) /\ executed \in Seq(Command) /\ Len(asked) \in Nat /\ Len(executed) \in Nat
       /\ unsent \in Seq(Byte)
    BY <1>2, SizesAssumption, BufferIs, LenProperties DEF Typed
<1> HIDE DEF unsent
<1>11. Typed'
    <2>1. client' \in {"ready", "receiving", "closed"}
        BY <1>3
    <2>2. QED
        BY <1>2, <1>3, <1>9, <2>1 DEF Typed
<1>12. Rooms'
    BY <1>2, <1>3 DEF Rooms
<1>13. Stream'
    BY <1>2, <1>3 DEF Stream
<1>14. Answers'
    <2>1. (received \o chunk) \o left = received \o toClient
        BY <1>5, <1>7, Associate
    <2>2. AnswersTo(executed) = received \o toClient \o unsent
        BY <1>2 DEF Answers, unsent
    <2>3. AnswersTo(executed') = received' \o toClient' \o unsent
        BY <1>3, <1>8, <2>1, <2>2
    <2>4. QED
        BY <1>3, <2>3 DEF Answers, unsent
<1>15. Client'
    <2>1. CASE argv = << >>
        BY <1>3, <2>1 DEF Client
    <2>2. CASE argv # << >>
        <3>1. Awaits(asked, received, last)
            BY <1>2, <1>3, <2>2 DEF Client
        <3> DEFINE n == Len(asked)
                   front == SubSeq(asked, 1, n - 1)
                   line == asked[n]
                   before == AnswersTo(front)
        <3>2. /\ asked # << >> /\ \A i \in 1 .. n - 1 : asked[i].cmd # <<Quit>>
            BY <3>1, Zenon DEF Awaits
        <3>3. PICK part \in Seq(Byte) : received = before \o part /\ last = LastFour(part)
            BY <3>1, Zenon DEF Awaits
        <3>4. n # 0 /\ n - 1 \in 0 .. n - 1 /\ n - 1 + 1 = n /\ n \in 1 .. n /\ n - 1 \in 0 .. n
            <4>1. n # 0
                BY <1>10, <3>2, EmptySeq
            <4>2. QED
                BY <1>10, <4>1
        <3>5. line \in Command /\ front \in Seq(Command) /\ asked = Append(front, line)
            <4>1. line \in Command
                BY <1>10, <3>4, ElementOfSeq
            <4>2. front \in Seq(Command)
                BY <1>10, <3>4, TakeIs
            <4>3. SubSeq(asked, 1, n - 1 + 1) = Append(SubSeq(asked, 1, n - 1), asked[n - 1 + 1])
                BY <1>10, <3>4, TakeOneMore
            <4>4. SubSeq(asked, 1, n) = asked
                BY <1>10, SubSeqFull
            <4>5. QED
                BY <3>4, <4>1, <4>2, <4>3, <4>4
        <3> DEFINE more == part \o chunk
        <3>6. before \in Seq(Byte) /\ more \in Seq(Byte)
            BY <1>7, <3>5, LinesJoin, Joins
        <3>7. received' = before \o more
            BY <1>7, <1>8, <3>3, <3>6, Associate
        <3>8. last' = LastFour(more)
            BY <1>7, <1>8, <3>3, LastOfMore
        <3>9. Awaits(asked', received', last')
            BY <1>3, <3>2, <3>6, <3>7, <3>8, Zenon DEF Awaits
        <3>10. CASE ~has_terminator(last')
            BY <1>3, <2>2, <3>9, <3>10 DEF Client
        <3>11. CASE has_terminator(last')
            <4> DEFINE behind == Drop(asked, Len(executed))
                       rest == AnswersTo(behind)
                       ahead == left \o unsent
            <4>1. AnswersTo(asked) = before \o Answer(line)
                BY <3>5, LinesAppend
            <4>2. Len(executed) \in 0 .. n /\ executed = SubSeq(asked, 1, Len(executed))
                BY <1>2, <1>10 DEF Stream
            <4>3. asked = executed \o behind /\ behind \in Seq(Command)
                BY <1>10, <4>2, TakeAndDrop, DropIs
            <4> HIDE DEF behind, front
            <4>4. AnswersTo(asked) = AnswersTo(executed) \o rest /\ rest \in Seq(Byte)
                BY <1>10, <4>3, LinesJoin
            <4> HIDE DEF rest, before, more, line
            <4>5. AnswersTo(executed) = (before \o more) \o (left \o unsent)
                <5>1. AnswersTo(executed) = (received' \o left) \o unsent
                    BY <1>3, <1>8, <1>14 DEF Answers, unsent
                <5>2. received' \in Seq(Byte) /\ left \in Seq(Byte) /\ unsent \in Seq(Byte)
                    BY <1>7, <1>9, <1>10
                <5>3. (received' \o left) \o unsent = received' \o (left \o unsent)
                    BY <5>2, Associate
                <5>4. QED
                    BY <3>7, <5>1, <5>3
            <4>6. before \o more \in Seq(Byte) /\ ahead \in Seq(Byte) /\ ahead \o rest \in Seq(Byte)
                BY <1>7, <1>10, <3>6, <4>4, Joins
            <4>7. (before \o more) \o (ahead \o rest) = before \o Answer(line)
                <5> DEFINE got == before \o more
                <5>1. AnswersTo(executed) = got \o ahead
                    BY <4>5
                <5> HIDE DEF got, ahead
                <5>2. (got \o ahead) \o rest = got \o (ahead \o rest)
                    BY <4>4, <4>6, Associate DEF got
                <5>3. QED
                    BY <4>1, <4>4, <5>1, <5>2 DEF got
            <4> HIDE DEF ahead
            <4>8. LastFour(more) = MONITOR_TERMINATOR
                BY <3>8, <3>11 DEF has_terminator
            <4>9. more = Answer(line) /\ line.cmd # <<Quit>>
                BY <3>5, <3>6, <4>6, <4>7, <4>8, PartOfAnswer DEF line
            <4>10. received' = AnswersTo(asked)
                BY <3>7, <4>1, <4>9
            <4>11. \A i \in DOMAIN asked : asked[i].cmd # <<Quit>>
                <5>1. DOMAIN asked = 1 .. n
                    BY <1>10, LenProperties
                <5>2. \A i \in 1 .. n : i \in 1 .. n - 1 \/ i = n
                    BY <1>10
                <5>3. QED
                    BY <3>2, <4>9, <5>1, <5>2 DEF line
            <4>12. QED
                BY <1>3, <2>2, <3>11, <4>10, <4>11 DEF Client
        <3>12. QED
            BY <3>10, <3>11
    <2>3. QED
        BY <2>1, <2>2
<1>16. QED
    BY <1>11, <1>12, <1>13, <1>14, <1>15 DEF Inv


\* A session that has more to do waits for its next turn to write; one that
\* waits for more to read has an empty buffer.
LEMMA WaitsWhenEmpty ==
    ASSUME NEW n \in Nat, NEW b \in Buffer(Byte, n), Rewound(b), interest = "WRITE",
           Waiting(b) = "READ"
    PROVE  b.write = 0
<1>1. ~buffer_can_read(b)
    BY DEF Waiting
<1>2. b.read = b.write
    BY <1>1, NothingToRead
<1>3. QED
    BY <1>2 DEF Rewound

\* What has arrived is put behind what is in the buffer, which is empty, or the
\* connection is closed.
LEMMA ReadKeeps == Inv /\ handleMonitorRead => Inv'
<1>1. SUFFICES ASSUME Inv, handleMonitorRead PROVE Inv'
    OBVIOUS
<1>2. Typed /\ Rooms /\ Stream /\ Answers /\ Client
    BY <1>1 DEF Inv
<1>3. /\ open /\ interest = "READ"
      /\ argv' = argv /\ argcmd' = argcmd /\ client' = client /\ last' = last
      /\ asked' = asked /\ received' = received /\ toClient' = toClient /\ executed' = executed
    BY <1>1, Zenon DEF handleMonitorRead, clientVars
<1>4. Client'
    BY <1>2, <1>3 DEF Client
<1>5. CASE /\ interest' = "WRITE"
           /\ UNCHANGED <<toServer, open, is_sending, read_buffer, write_buffer, parser>>
    <2>1. Typed'
        BY <1>2, <1>3, <1>5 DEF Typed
    <2>2. Rooms' /\ Stream' /\ Answers'
        BY <1>2, <1>3, <1>5 DEF Rooms, Stream, Answers
    <2>3. QED
        BY <1>4, <2>1, <2>2 DEF Inv
<1>6. CASE /\ ~is_sending
           /\ \E n \in 1 .. Len(toServer) :
                /\ n <= Room(read_buffer)
                /\ read_buffer' = Filled(read_buffer, SubSeq(toServer, 1, n))
                /\ toServer' = SubSeq(toServer, n + 1, Len(toServer))
           /\ interest' = "WRITE"
           /\ UNCHANGED <<open, is_sending, write_buffer, parser>>
    <2>1. PICK n \in 1 .. Len(toServer) :
             /\ n <= Room(read_buffer)
             /\ read_buffer' = Filled(read_buffer, SubSeq(toServer, 1, n))
             /\ toServer' = SubSeq(toServer, n + 1, Len(toServer))
        BY <1>6, Zenon
    <2> DEFINE chunk == SubSeq(toServer, 1, n)
               left == Drop(toServer, n)
               u == Unread(read_buffer)
    <2>2. toServer \in Seq(Byte) /\ Len(toServer) \in Nat /\ READ_BUFFER_SIZE \in Nat
          /\ read_buffer \in Buffer(Byte, READ_BUFFER_SIZE)
        BY <1>2, SizesAssumption, LenProperties DEF Typed
    <2>3. n \in 0 .. Len(toServer) /\ n \in Nat /\ n # 0
        BY <2>2
    <2>4. chunk \in Seq(Byte) /\ Len(chunk) = n /\ left \in Seq(Byte) /\ toServer = chunk \o left
        BY <2>2, <2>3, Joins
    <2>5. read_buffer' = Filled(read_buffer, chunk) /\ toServer' = left
        BY <2>1 DEF Drop
    <2> HIDE DEF chunk, left
    <2>6. Len(chunk) <= Room(read_buffer)
        BY <2>1, <2>4
    <2>7. /\ read_buffer' \in Buffer(Byte, READ_BUFFER_SIZE)
          /\ read_buffer'.read = read_buffer.read
          /\ read_buffer'.write = read_buffer.write + Len(chunk)
          /\ Unread(read_buffer)' = u \o chunk
        BY <2>2, <2>4, <2>5, <2>6, FilledIs
    <2>8. u \in Seq(Byte) /\ read_buffer.read \in Nat /\ read_buffer.write \in Nat
          /\ read_buffer.read <= read_buffer.write
        BY <2>2, BufferIs
    <2> HIDE DEF u
    <2>9. Typed'
        BY <1>2, <1>3, <1>6, <2>4, <2>5, <2>7 DEF Typed
    <2>10. Rooms'
        <3>1. read_buffer.write = 0 /\ read_buffer.read = 0
            BY <1>2, <1>3, <2>8 DEF Rooms
        <3>2. read_buffer'.read # read_buffer'.write
            BY <2>3, <2>4, <2>7, <3>1
        <3>3. QED
            BY <1>2, <1>6, <3>2 DEF Rooms, Rewound
    <2>11. Stream'
        <3>1. (u \o chunk) \o left = u \o toServer
            BY <2>4, <2>8, Associate
        <3>2. Unread(read_buffer)' \o toServer' = Unread(read_buffer) \o toServer
            BY <2>5, <2>7, <3>1 DEF u
        <3>3. QED
            BY <1>2, <1>3, <1>6, <3>2 DEF Stream
    <2>12. Answers'
        BY <1>2, <1>3, <1>6 DEF Answers
    <2>13. QED
        BY <1>4, <2>9, <2>10, <2>11, <2>12 DEF Inv
<1>7. CASE close_connection
    <2>1. /\ open' = FALSE /\ toServer' = << >>
          /\ interest' = interest /\ is_sending' = is_sending /\ read_buffer' = read_buffer
          /\ write_buffer' = write_buffer /\ parser' = parser
        BY <1>7 DEF close_connection
    <2>2. toServer' \in Seq(Byte)
        BY <2>1, Joins
    <2>3. Typed'
        BY <1>2, <1>3, <2>1, <2>2 DEF Typed
    <2>4. Rooms' /\ Stream' /\ Answers'
        BY <1>2, <1>3, <2>1 DEF Rooms, Stream, Answers
    <2>5. QED
        BY <1>4, <2>3, <2>4 DEF Inv
<1>8. QED
    BY <1>1, <1>5, <1>6, <1>7 DEF handleMonitorRead

\* A part of what is to be sent is on its way.
LEMMA SendingKeeps == Inv /\ continue_sending => Inv'
<1>1. SUFFICES ASSUME Inv, continue_sending PROVE Inv'
    OBVIOUS
<1>2. Typed /\ Rooms /\ Stream /\ Answers /\ Client
    BY <1>1 DEF Inv
<1>3. /\ is_sending /\ interest = "WRITE" /\ interest' = Waiting(read_buffer)
      /\ argv' = argv /\ argcmd' = argcmd /\ client' = client /\ last' = last
      /\ asked' = asked /\ received' = received /\ executed' = executed
      /\ toServer' = toServer /\ open' = open /\ read_buffer' = read_buffer /\ parser' = parser
    BY <1>1, Zenon DEF continue_sending, clientVars
<1>4. PICK n \in 0 .. Len(Unread(write_buffer)) :
         /\ toClient' = toClient \o SubSeq(Unread(write_buffer), 1, n)
         /\ write_buffer' = buffer_read_adv(write_buffer, n)
         /\ is_sending' = (n < Len(Unread(write_buffer)))
    BY <1>1, Zenon DEF continue_sending
<1> DEFINE u == Unread(write_buffer)
           chunk == SubSeq(u, 1, n)
           left == Drop(u, n)
<1>5. /\ READ_BUFFER_SIZE \in Nat /\ WRITE_BUFFER_SIZE \in Nat
      /\ read_buffer \in Buffer(Byte, READ_BUFFER_SIZE)
      /\ write_buffer \in Buffer(Byte, WRITE_BUFFER_SIZE)
      /\ toClient \in Seq(Byte) /\ received \in Seq(Byte)
    BY <1>2, SizesAssumption DEF Typed
<1>6. u \in Seq(Byte) /\ Len(u) \in Nat /\ n \in 0 .. Len(u) /\ write_buffer.write \in Nat
    BY <1>5, BufferIs, LenProperties
<1>7. /\ write_buffer' \in Buffer(Byte, WRITE_BUFFER_SIZE)
      /\ Unread(write_buffer)' = left
      /\ write_buffer'.write <= write_buffer.write
      /\ Rewound(write_buffer')
    BY <1>4, <1>5, <1>6, ReadAdvIs DEF Rewound
<1>8. chunk \in Seq(Byte) /\ left \in Seq(Byte) /\ Len(left) = Len(u) - n /\ u = chunk \o left
    BY <1>6, Joins
<1> HIDE DEF u, chunk, left
<1>9. toClient' = toClient \o chunk /\ is_sending' = (n < Len(u))
    BY <1>4 DEF chunk, u
<1>10. Typed'
    <2>1. toClient' \in Seq(Byte)
        BY <1>5, <1>8, <1>9, Joins
    <2>2. interest' \in {"READ", "WRITE"}
        BY <1>3 DEF Waiting
    <2>3. is_sending' \in BOOLEAN
        BY <1>9
    <2>4. QED
        BY <1>2, <1>3, <1>7, <2>1, <2>2, <2>3 DEF Typed
<1>11. Rooms'
    <2>1. Rewound(read_buffer') /\ Rewound(write_buffer')
        BY <1>2, <1>3, <1>7 DEF Rooms
    <2>2. ~is_sending' => write_buffer'.write = 0
        <3>1. SUFFICES ASSUME ~is_sending' PROVE write_buffer'.write = 0
            OBVIOUS
        <3>2. n = Len(u)
            <4>1. ~(n < Len(u))
                BY <1>9, <3>1, Zenon
            <4>2. QED
                BY <1>6, <4>1
        <3>3. left = << >>
            BY <1>6, <1>8, <3>2, Joins
        <3>4. write_buffer'.read = write_buffer'.write
            BY <1>5, <1>7, <3>3, NothingToRead
        <3>5. QED
            BY <1>7, <3>4 DEF Rewound
    <2>3. is_sending' => write_buffer'.write < WRITE_BUFFER_SIZE
        <3>1. write_buffer'.write \in Nat
            BY <1>5, <1>7, BufferIs
        <3>2. write_buffer.write < WRITE_BUFFER_SIZE
            BY <1>2, <1>3 DEF Rooms
        <3>3. QED
            BY <1>5, <1>6, <1>7, <3>1, <3>2
    <2>4. interest' = "READ" => read_buffer'.write = 0
        BY <1>2, <1>3, <1>5, WaitsWhenEmpty DEF Rooms
    <2>5. QED
        BY <2>1, <2>2, <2>3, <2>4 DEF Rooms
<1>12. Stream'
    BY <1>2, <1>3 DEF Stream
<1>13. Answers'
    <2>1. AnswersTo(executed) = (received \o toClient) \o u
        BY <1>2 DEF Answers, u
    <2>2. (received \o (toClient \o chunk)) \o left = (received \o toClient) \o u
        <3> DEFINE sent == received \o toClient
        <3>1. sent \in Seq(Byte)
            BY <1>5, Joins
        <3>2. sent \o chunk = received \o (toClient \o chunk)
            BY <1>5, <1>8, Associate
        <3> HIDE DEF sent
        <3>3. (sent \o chunk) \o left = sent \o (chunk \o left)
            BY <1>8, <3>1, Associate
        <3>4. QED
            BY <1>8, <3>2, <3>3 DEF sent
    <2>3. AnswersTo(executed') = received' \o toClient' \o Unread(write_buffer)'
        BY <1>3, <1>7, <1>9, <2>1, <2>2
    <2>4. QED
        BY <2>3 DEF Answers
<1>14. Client'
    BY <1>2, <1>3 DEF Client
<1>15. QED
    BY <1>10, <1>11, <1>12, <1>13, <1>14 DEF Inv


\* A line is complete and carried out, or what was read of one is kept.
LEMMA WriteKeeps == Inv /\ handleMonitorWrite => Inv'
<1>1. SUFFICES ASSUME Inv, handleMonitorWrite PROVE Inv'
    OBVIOUS
<1>2. Typed /\ Rooms /\ Stream /\ Answers /\ Client
    BY <1>1 DEF Inv
<1> DEFINE r == parse(parser, "monitor", read_buffer)
           line == [cmd |-> r.parser.cmd, arg |-> r.parser.arg]
           k == Len(executed)
           u == Unread(read_buffer)
<1>3. /\ open /\ interest = "WRITE" /\ ~is_sending
      /\ argv' = argv /\ argcmd' = argcmd /\ client' = client /\ last' = last
      /\ asked' = asked /\ received' = received /\ toClient' = toClient
    BY <1>1, Zenon DEF handleMonitorWrite, clientVars
<1>4. IF r.parser.ended /\ r.parser.err = "NO_ERROR"
      THEN /\ executed' = Append(executed, line)
           /\ IF line.cmd = <<Quit>>
              THEN close_connection
              ELSE /\ read_buffer' = r.buffer
                   /\ write_buffer' = write_in_buffer(write_buffer, Answer(line))
                   /\ is_sending' = TRUE
                   /\ parser' = init_monitor_parser(r.parser)
                   /\ UNCHANGED <<open, interest, toServer>>
      ELSE /\ read_buffer' = r.buffer
           /\ parser' = r.parser
           /\ interest' = IF r.parser.ended THEN interest ELSE Waiting(r.buffer)
           /\ UNCHANGED <<open, toServer, is_sending, write_buffer, executed>>
    BY <1>1, Zenon DEF handleMonitorWrite
<1>5. /\ READ_BUFFER_SIZE \in Nat /\ WRITE_BUFFER_SIZE \in Nat
      /\ read_buffer \in Buffer(Byte, READ_BUFFER_SIZE)
      /\ write_buffer \in Buffer(Byte, WRITE_BUFFER_SIZE)
      /\ toServer \in Seq(Byte) /\ toClient \in Seq(Byte) /\ received \in Seq(Byte)
      /\ parser \in Parser /\ asked \in Seq(Command) /\ executed \in Seq(Command)
    BY <1>2, SizesAssumption DEF Typed
<1>6. Len(asked) \in Nat /\ k \in Nat /\ k \in 0 .. Len(asked) /\ executed = SubSeq(asked, 1, k)
    <2>1. Len(asked) \in Nat /\ k \in Nat
        BY <1>5, LenProperties
    <2>2. QED
        BY <1>2, <2>1 DEF Stream
<1>7. "monitor" \in Kinds
    BY DEF Kinds
<1>8. /\ r.parser \in Parser /\ r.buffer \in Buffer(Byte, READ_BUFFER_SIZE)
      /\ Rewound(r.buffer)
    BY <1>2, <1>5, <1>7, ParseTyped DEF Rooms
<1>9. u \in Seq(Byte)
    BY <1>5, BufferIs
<1>10. r.parser.err = "NO_ERROR" => InLine(parser, asked, k, u \o toServer)
    <2>1. CASE parser.err = "NO_ERROR"
        BY <1>2, <1>3, <2>1 DEF Stream
    <2>2. CASE parser.err # "NO_ERROR"
        <3>1. r = [parser |-> parser, buffer |-> read_buffer]
            BY <1>5, <1>7, <2>2, ParseStays DEF Stopped
        <3> HIDE DEF r
        <3>2. r.parser = parser
            BY <3>1
        <3>3. QED
            BY <2>2, <3>2
    <2>3. QED
        BY <2>1, <2>2
<1>11. r.parser.err = "NO_ERROR" =>
         \/ /\ ~r.parser.ended
            /\ InLine(r.parser, asked, k, Unread(r.buffer) \o toServer)
         \/ /\ r.parser.ended
            /\ k < Len(asked)
            /\ line = asked[k + 1]
            /\ Unread(r.buffer) \o toServer = BytesOf(Drop(asked, k + 1))
    BY <1>5, <1>6, <1>10, InLineParse
<1> HIDE DEF r, line
<1>12. Client'
    BY <1>2, <1>3 DEF Client
<1>13. CASE ~(r.parser.ended /\ r.parser.err = "NO_ERROR")
    <2>1. /\ read_buffer' = r.buffer /\ parser' = r.parser
          /\ interest' = IF r.parser.ended THEN interest ELSE Waiting(r.buffer)
          /\ open' = open /\ toServer' = toServer /\ is_sending' = is_sending
          /\ write_buffer' = write_buffer /\ executed' = executed
        BY <1>4, <1>13
    <2>2. interest' = "WRITE" \/ (interest' = "READ" /\ Waiting(r.buffer) = "READ")
        BY <1>3, <2>1 DEF Waiting
    <2>3. Typed'
        BY <1>2, <1>3, <1>8, <2>1, <2>2 DEF Typed
    <2>4. Rooms'
        <3>1. interest' = "READ" => read_buffer'.write = 0
            BY <1>3, <1>5, <1>8, <2>1, <2>2, WaitsWhenEmpty
        <3>2. QED
            BY <1>2, <1>8, <2>1, <3>1 DEF Rooms
    <2>5. Stream'
        <3>1. open' /\ parser'.err = "NO_ERROR" =>
                 InLine(parser', asked', Len(executed'), Unread(read_buffer)' \o toServer')
            BY <1>3, <1>11, <1>13, <2>1
        <3>2. QED
            BY <1>2, <1>3, <2>1, <3>1 DEF Stream
    <2>6. Answers'
        BY <1>2, <1>3, <2>1 DEF Answers
    <2>7. QED
        BY <1>12, <2>3, <2>4, <2>5, <2>6 DEF Inv
<1>14. CASE r.parser.ended /\ r.parser.err = "NO_ERROR"
    <2>1. /\ executed' = Append(executed, line)
          /\ k < Len(asked) /\ line = asked[k + 1]
          /\ Unread(r.buffer) \o toServer = BytesOf(Drop(asked, k + 1))
        BY <1>4, <1>11, <1>14
    <2>2. k \in 0 .. Len(asked) - 1 /\ k + 1 \in 0 .. Len(asked)
        BY <1>6, <2>1
    <2>3. line \in Command /\ executed' = SubSeq(asked, 1, k + 1)
        BY <1>5, <1>6, <2>1, <2>2, LinesAhead
    <2>4. executed' \in Seq(Command) /\ Len(executed') = k + 1
        BY <1>5, <2>2, <2>3, TakeIs
    <2>5. AnswersTo(executed') = AnswersTo(executed) \o Answer(line)
        BY <1>5, <2>1, <2>3, LinesAppend
    <2>6. /\ Answer(line) \in Seq(Byte) /\ Len(Answer(line)) < WRITE_BUFFER_SIZE
          /\ Len(Answer(line)) = 0 <=> line.cmd = <<Quit>>
        BY <2>3, AnswerIs
    <2>7. write_buffer.write = 0 /\ write_buffer.read = 0 /\ Unread(write_buffer) = << >>
        <3>1. write_buffer.write = 0
            BY <1>2, <1>3 DEF Rooms
        <3>2. write_buffer.read \in Nat /\ write_buffer.read <= write_buffer.write
            BY <1>5, BufferIs
        <3>3. write_buffer.read = 0
            BY <3>1, <3>2
        <3>4. QED
            BY <1>5, <3>1, <3>3, NothingToRead
    <2>8. AnswersTo(executed) = received \o toClient /\ received \o toClient \in Seq(Byte)
        <3>1. received \o toClient \in Seq(Byte)
            BY <1>5, Joins
        <3>2. (received \o toClient) \o << >> = received \o toClient
            BY <3>1, Joins
        <3>3. QED
            BY <1>2, <2>7, <3>1, <3>2 DEF Answers
    <2>9. CASE line.cmd = <<Quit>>
        <3>1. /\ open' = FALSE /\ toServer' = << >>
              /\ interest' = interest /\ is_sending' = is_sending /\ read_buffer' = read_buffer
              /\ write_buffer' = write_buffer /\ parser' = parser
            BY <1>4, <1>14, <2>9 DEF close_connection
        <3>2. toServer' \in Seq(Byte)
            BY <3>1, Joins
        <3>3. Typed'
            BY <1>2, <1>3, <2>4, <3>1, <3>2 DEF Typed
        <3>4. Rooms'
            BY <1>2, <3>1 DEF Rooms
        <3>5. Stream'
            BY <1>3, <1>6, <2>2, <2>3, <2>4, <3>1 DEF Stream
        <3>6. Answers'
            <4>1. Answer(line) = << >>
                BY <2>6, <2>9, Joins
            <4>2. AnswersTo(executed) \o << >> = AnswersTo(executed)
                BY <2>8, Joins
            <4>3. AnswersTo(executed') = AnswersTo(executed)
                BY <2>5, <4>1, <4>2
            <4>4. QED
                BY <1>2, <1>3, <3>1, <4>3 DEF Answers
        <3>7. QED
            BY <1>12, <3>3, <3>4, <3>5, <3>6 DEF Inv
    <2>10. CASE line.cmd # <<Quit>>
        <3>1. /\ read_buffer' = r.buffer
              /\ write_buffer' = write_in_buffer(write_buffer, Answer(line))
              /\ is_sending' = TRUE /\ parser' = init_parser
              /\ open' = open /\ interest' = interest /\ toServer' = toServer
            BY <1>4, <1>14, <2>10 DEF init_monitor_parser
        <3>2. /\ write_buffer' \in Buffer(Byte, WRITE_BUFFER_SIZE)
              /\ Unread(write_buffer)' = Answer(line)
              /\ write_buffer'.write < WRITE_BUFFER_SIZE
            BY <1>5, <2>6, <2>7, <3>1, WrittenIs
        <3>3. Answer(line) # << >>
            BY <2>6, <2>10, Joins
        <3>4. init_parser \in Parser
            BY NewParserIs
        <3>5. Typed'
            BY <1>2, <1>3, <1>8, <2>4, <3>1, <3>2, <3>4 DEF Typed
        <3>6. Rooms'
            <4>1. write_buffer'.read # write_buffer'.write
                BY <1>5, <3>2, <3>3, NothingToRead
            <4>2. QED
                BY <1>3, <1>8, <3>1, <3>2, <4>1 DEF Rooms, Rewound
        <3>7. Stream'
            <4>1. InLine(init_parser, asked, k + 1, Unread(r.buffer) \o toServer)
                BY <1>5, <2>1, <2>2, InLineStarts
            <4>2. InLine(parser', asked', Len(executed'), Unread(read_buffer)' \o toServer')
                BY <1>3, <2>4, <3>1, <4>1
            <4>3. Len(executed') <= Len(asked') /\ executed' = SubSeq(asked', 1, Len(executed'))
                BY <1>3, <1>6, <2>2, <2>3, <2>4
            <4>4. QED
                BY <4>2, <4>3 DEF Stream
        <3>8. Answers'
            BY <1>3, <2>5, <2>8, <3>2 DEF Answers
        <3>9. QED
            BY <1>12, <3>5, <3>6, <3>7, <3>8 DEF Inv
    <2>11. QED
        BY <2>9, <2>10
<1>15. QED
    BY <1>13, <1>14

\* The invariant.
THEOREM Invariant == Spec => []Inv
<1>1. Init => Inv
    BY InvBegins
<1>2. Inv /\ [Next]_vars => Inv'
    <2>1. SUFFICES ASSUME Inv, [Next]_vars PROVE Inv'
        OBVIOUS
    <2>2. CASE UNCHANGED vars
        <3>1. Typed'
            BY <2>1, <2>2 DEF Inv, Typed, vars
        <3>2. Rooms' /\ Stream' /\ Answers' /\ Client'
            BY <2>1, <2>2 DEF Inv, Rooms, Stream, Answers, Client, vars
        <3>3. QED
            BY <3>1, <3>2 DEF Inv
    <2>3. CASE send_cmd
        BY <2>1, <2>3, SendKeeps
    <2>4. CASE cmd_quit
        BY <2>1, <2>4, QuitKeeps
    <2>5. CASE recv_cmd
        BY <2>1, <2>5, RecvKeeps
    <2>6. CASE handleMonitorRead
        BY <2>1, <2>6, ReadKeeps
    <2>7. CASE continue_sending
        BY <2>1, <2>7, SendingKeeps
    <2>8. CASE handleMonitorWrite
        BY <2>1, <2>8, WriteKeeps
    <2>9. QED
        BY <2>1, <2>2, <2>3, <2>4, <2>5, <2>6, <2>7, <2>8 DEF Next
<1>3. QED
    BY <1>1, <1>2, PTL DEF Spec


-----------------------------------------------------------------------------
(* The properties of the runs                                              *)

\* RoomOnBothSides, of the buffers of a connection.
THEOREM RoomIsThere == Spec => []RoomOnBothSides
<1>1. Inv => RoomOnBothSides
    <2>1. SUFFICES ASSUME Inv PROVE RoomOnBothSides
        OBVIOUS
    <2>2. Typed /\ Rooms
        BY <2>1 DEF Inv
    <2>3. /\ READ_BUFFER_SIZE \in Nat /\ READ_BUFFER_SIZE # 0 /\ WRITE_BUFFER_SIZE \in Nat
          /\ read_buffer \in Buffer(Byte, READ_BUFFER_SIZE)
          /\ write_buffer \in Buffer(Byte, WRITE_BUFFER_SIZE)
        BY <2>2, SizesAssumption DEF Typed
    <2>4. /\ read_buffer.read <= read_buffer.write /\ read_buffer.write <= read_buffer.limit
          /\ read_buffer.limit = READ_BUFFER_SIZE /\ read_buffer.write \in Nat
        BY <2>3, BufferIs
    <2>5. /\ write_buffer.read <= write_buffer.write /\ write_buffer.write <= write_buffer.limit
          /\ write_buffer.limit = WRITE_BUFFER_SIZE /\ write_buffer.write \in Nat
        BY <2>3, BufferIs
    <2>6. is_sending => buffer_can_write(write_buffer)
        BY <2>2, <2>3, <2>5 DEF Rooms, buffer_can_write
    <2>7. interest = "READ" => buffer_can_write(read_buffer)
        BY <2>2, <2>3, <2>4 DEF Rooms, buffer_can_write
    <2>8. QED
        BY <2>4, <2>5, <2>6, <2>7 DEF RoomOnBothSides
<1>2. QED
    BY <1>1, Invariant, PTL

\* ClientReadsItsAnswer, of a client that goes on.
THEOREM AnswersAreRead == Spec => []ClientReadsItsAnswer
<1>1. Inv => ClientReadsItsAnswer
    <2>1. SUFFICES ASSUME Inv, client = "ready"
                   PROVE  received = AnswersTo(asked) /\ toClient = << >>
        BY DEF ClientReadsItsAnswer
    <2>2. Typed /\ Stream /\ Answers /\ Client
        BY <2>1 DEF Inv
    <2>3. received = AnswersTo(asked)
        BY <2>1, <2>2 DEF Client
    <2> DEFINE u == Unread(write_buffer)
               k == Len(executed)
               behind == Drop(asked, k)
               rest == AnswersTo(behind)
    <2>4. /\ asked \in Seq(Command) /\ executed \in Seq(Command)
          /\ received \in Seq(Byte) /\ toClient \in Seq(Byte) /\ u \in Seq(Byte)
        BY <2>2, SizesAssumption, BufferIs DEF Typed
    <2>5. Len(asked) \in Nat /\ k \in Nat
        BY <2>4, LenProperties
    <2>6. k \in 0 .. Len(asked) /\ executed = SubSeq(asked, 1, k)
        BY <2>2, <2>5 DEF Stream
    <2>7. behind \in Seq(Command) /\ asked = executed \o behind
        BY <2>4, <2>6, TakeAndDrop, DropIs
    <2> HIDE DEF behind
    <2>8. rest \in Seq(Byte) /\ AnswersTo(asked) = AnswersTo(executed) \o rest
        BY <2>4, <2>7, LinesJoin
    <2> HIDE DEF rest
    <2>9. AnswersTo(executed) = (received \o toClient) \o u
        BY <2>2 DEF Answers
    <2> HIDE DEF u
    <2>10. Len(received) = Len(received) + Len(toClient) + Len(u) + Len(rest)
        <3>1. /\ received \o toClient \in Seq(Byte)
              /\ Len(received \o toClient) = Len(received) + Len(toClient)
            BY <2>4, Joins
        <3>2. /\ (received \o toClient) \o u \in Seq(Byte)
              /\ Len((received \o toClient) \o u) = Len(received \o toClient) + Len(u)
            BY <2>4, <3>1, Joins
        <3>3. Len(AnswersTo(executed) \o rest) = Len(AnswersTo(executed)) + Len(rest)
            BY <2>8, <2>9, <3>2, Joins
        <3>4. QED
            BY <2>3, <2>8, <2>9, <3>1, <3>2, <3>3
    <2>11. Len(received) \in Nat /\ Len(toClient) \in Nat /\ Len(u) \in Nat /\ Len(rest) \in Nat
        BY <2>4, <2>8, LenProperties
    <2>12. Len(toClient) = 0
        BY <2>10, <2>11
    <2>13. QED
        BY <2>3, <2>4, <2>12, Joins
<1>2. QED
    BY <1>1, Invariant, PTL

\* The bytes of a line that a parser holds, without the CR at the end of it that
\* Held puts there before it has come.
HeldBytes(p) ==
    IF p.state = "S2" THEN First(Held(p), Len(Held(p)) - 1) ELSE Held(p)

\* They are those it has taken.
LEMMA HeldIs ==
    ASSUME NEW line \in Command, NEW c \in 0 .. Len(Bytes(line)) - 1
    PROVE  HeldBytes(At(line, c)) = SubSeq(Bytes(line), 1, c)
<1> DEFINE cmd == line.cmd
           arg == line.arg
           w == Bytes(line)
           n == Len(cmd)
           m == Len(arg)
           end == Len(w)
           p == At(line, c)
           i == IF c <= n THEN c ELSE n
           j == IF c <= n + 1 THEN 0 ELSE IF c <= n + 1 + m THEN c - n - 1 ELSE m
           first == SubSeq(cmd, 1, i)
           rest == SubSeq(arg, 1, j)
           state == IF c <= n THEN "S0" ELSE IF c = end THEN "S3"
                    ELSE IF c = end - 1 THEN "S2" ELSE "S1"
           t == SubSeq(w, 1, c)
<1>1. /\ n \in Nat \ {0} /\ m \in Nat /\ w \in Seq(Byte)
      /\ \A a \in 1 .. n : w[a] = cmd[a]
      /\ m = 0 => end = n + 2
      /\ m # 0 => /\ end = n + m + 3 /\ w[n + 1] = "SP"
                  /\ \A a \in 1 .. m : w[n + 1 + a] = arg[a]
    BY BytesIs
<1>2. cmd \in Seq(Byte) /\ arg \in Seq(Byte) /\ line = [cmd |-> cmd, arg |-> arg]
    <2>1. /\ cmd \in Seq(Activators \ {"SP", "CR"}) /\ arg \in Seq(Activators \ {"CR"})
          /\ line = [cmd |-> cmd, arg |-> arg]
        BY DEF Command
    <2>2. Activators \ {"SP", "CR"} \subseteq Byte /\ Activators \ {"CR"} \subseteq Byte
        BY BytesAre
    <2> HIDE DEF cmd, arg
    <2>3. QED
        BY <2>1, <2>2, SeqMonotonic
<1>3. p.state = state /\ p.cmd = first /\ p.arg = rest
    <2>1. p = [state |-> state, cmd |-> first, arg |-> rest, ended |-> c = end,
               err |-> "NO_ERROR"]
        BY Zenon DEF At
    <2> DEFINE over == c = end
    <2> HIDE DEF state, first, rest, over, p
    <2>2. p = [state |-> state, cmd |-> first, arg |-> rest, ended |-> over,
               err |-> "NO_ERROR"]
        BY <2>1, Zenon DEF over
    <2>3. QED
        BY <2>2
<1>4. c \in 0 .. end - 1
    OBVIOUS
<1> HIDE DEF cmd, arg, w, p
<1>5. end \in Nat /\ c \in Nat /\ c <= end - 1 /\ c \in 0 .. end
    <2>1. end \in Nat
        BY <1>1, LenProperties
    <2>2. QED
        BY <1>4, <2>1
<1> HIDE DEF n, m, end
<1>6. t \in Seq(Byte) /\ Len(t) = c /\ \A a \in 1 .. c : t[a] = w[a]
    BY <1>1, <1>5, TakeIs DEF end
<1> HIDE DEF t
<1>7. CASE c <= n
    <2>1. p.state = "S0" /\ i = c
        BY <1>3, <1>7
    <2>2. c \in 0 .. n
        BY <1>1, <1>5, <1>7
    <2>3. HeldBytes(p) = SubSeq(cmd, 1, c)
        BY <1>3, <2>1 DEF HeldBytes, Held
    <2> DEFINE x == SubSeq(cmd, 1, c)
    <2>4. x \in Seq(Byte) /\ Len(x) = c /\ \A a \in 1 .. c : x[a] = cmd[a]
        BY <1>2, <2>2, TakeIs DEF n
    <2> HIDE DEF x
    <2>5. \A a \in 1 .. c : x[a] = t[a]
        <3>1. \A a \in 1 .. c : a \in 1 .. n
            BY <1>1, <1>5, <1>7
        <3>2. QED
            BY <1>1, <1>6, <2>4, <3>1
    <2>6. x = t
        BY <1>6, <2>4, <2>5, SeqEqual
    <2>7. QED
        BY <2>3, <2>6 DEF x, t, w, p
<1>8. CASE c > n /\ c # end - 1
    <2>1. m # 0 /\ c \in n + 1 .. n + m + 1 /\ end = n + m + 3
        BY <1>1, <1>5, <1>8
    <2>2. p.state = "S1" /\ i = n /\ j = c - n - 1 /\ j \in 0 .. m
        BY <1>1, <1>3, <1>5, <1>8, <2>1
    <2>3. first = cmd
        BY <1>2, <2>2, SubSeqFull DEF n
    <2>4. rest \in Seq(Byte) /\ Len(rest) = j /\ \A a \in 1 .. j : rest[a] = arg[a]
        BY <1>2, <2>2, TakeIs DEF m
    <2> DEFINE sp == << "SP" >>
               y == cmd \o sp
               x == y \o rest
    <2>5. sp \in Seq(Byte) /\ Len(sp) = 1 /\ sp[1] = "SP"
        BY BytesAre
    <2>6. HeldBytes(p) = x
        BY <1>3, <2>2, <2>3 DEF HeldBytes, Held
    <2> HIDE DEF sp, first, rest, j, i
    <2>7. /\ y \in Seq(Byte) /\ Len(y) = n + Len(sp)
          /\ \A a \in 1 .. n + Len(sp) : y[a] = IF a <= n THEN cmd[a] ELSE sp[a - n]
        BY <1>2, <2>5, ConcatProperties DEF n
    <2> HIDE DEF y
    <2>8. /\ x \in Seq(Byte) /\ Len(x) = Len(y) + Len(rest)
          /\ \A a \in 1 .. Len(y) + Len(rest) : x[a] = IF a <= Len(y) THEN y[a] ELSE rest[a - Len(y)]
        BY <2>4, <2>7, ConcatProperties
    <2> HIDE DEF x
    <2>9. Len(y) = n + 1 /\ Len(y) + Len(rest) = c /\ Len(x) = c
        BY <1>1, <1>5, <2>2, <2>4, <2>5, <2>7, <2>8
    <2>10. ASSUME NEW a \in 1 .. c PROVE x[a] = t[a]
        <3>1. a \in 1 .. Len(y) + Len(rest) /\ a \in Nat /\ t[a] = w[a]
            BY <1>6, <2>9
        <3>2. CASE a <= n
            <4>1. a \in 1 .. n /\ a \in 1 .. n + Len(sp) /\ a <= Len(y)
                BY <1>1, <2>5, <2>9, <3>1, <3>2
            <4>2. x[a] = y[a] /\ y[a] = cmd[a]
                BY <2>7, <2>8, <3>1, <3>2, <4>1
            <4>3. QED
                BY <1>1, <3>1, <4>1, <4>2
        <3>3. CASE a = n + 1
            <4>1. a \in 1 .. n + Len(sp) /\ a <= Len(y) /\ ~(a <= n) /\ a - n = 1
                BY <1>1, <2>5, <2>9, <3>1, <3>3
            <4>2. x[a] = y[a] /\ y[a] = sp[a - n]
                BY <2>7, <2>8, <3>1, <4>1
            <4>3. QED
                BY <1>1, <2>1, <2>5, <3>1, <3>3, <4>1, <4>2
        <3>4. CASE a > n + 1
            <4> DEFINE b == a - (n + 1)
            <4>1. ~(a <= Len(y)) /\ a - Len(y) = b /\ b \in 1 .. j /\ b \in 1 .. m /\ n + 1 + b = a
                BY <1>1, <1>5, <2>2, <2>9, <3>1, <3>4
            <4>2. x[a] = rest[b]
                BY <2>8, <3>1, <4>1
            <4> HIDE DEF b
            <4>3. rest[b] = arg[b] /\ w[n + 1 + b] = arg[b]
                BY <1>1, <2>1, <2>4, <4>1
            <4>4. QED
                BY <3>1, <4>1, <4>2, <4>3
        <3>5. QED
            BY <1>1, <3>1, <3>2, <3>3, <3>4
    <2>11. x = t
        BY <1>6, <2>8, <2>9, <2>10, SeqEqual
    <2>12. QED
        BY <2>6, <2>11 DEF t, w, p
<1>9. CASE c > n /\ c = end - 1
    <2>1. p.state = "S2" /\ i = n /\ j = m
        BY <1>1, <1>3, <1>5, <1>9
    <2>2. p.cmd = cmd /\ p.arg = arg
        BY <1>2, <1>3, <2>1, SubSeqFull DEF n, m
    <2>3. First(arg, Len(arg)) = arg
        BY <1>1, <1>2, SubSeqFull DEF First, m
    <2>4. Held(p) = w
        <3>1. Held(p) = Bytes([cmd |-> p.cmd, arg |-> First(p.arg, Len(p.arg))])
            BY <2>1 DEF Held
        <3>2. [cmd |-> p.cmd, arg |-> First(p.arg, Len(p.arg))] = line
            BY <1>2, <2>2, <2>3
        <3>3. QED
            BY <3>1, <3>2 DEF w
    <2>5. HeldBytes(p) = First(w, end - 1)
        BY <2>1, <2>4 DEF HeldBytes, end
    <2>6. First(w, end - 1) = t
        <3>1. ~(Len(w) < end - 1)
            BY <1>5 DEF end
        <3>2. QED
            BY <1>9, <3>1 DEF First, t
    <2>7. QED
        BY <2>5, <2>6 DEF t, w, p
<1>10. c <= n \/ (c > n /\ c # end - 1) \/ (c > n /\ c = end - 1)
    BY <1>1, <1>5
<1>11. QED
    BY <1>7, <1>8, <1>9, <1>10

\* NothingIsLost, of every byte from the one end to the other.
THEOREM EveryByteIsThere == Spec => []NothingIsLost
<1>1. Inv => NothingIsLost
    <2>1. SUFFICES ASSUME Inv PROVE NothingIsLost
        OBVIOUS
    <2>2. Typed /\ Stream /\ Answers
        BY <2>1 DEF Inv
    <2> DEFINE u == Unread(read_buffer)
               k == Len(executed)
               behind == Drop(asked, k)
               text == u \o toServer
    <2>3. /\ asked \in Seq(Command) /\ executed \in Seq(Command)
          /\ toServer \in Seq(Byte) /\ u \in Seq(Byte) /\ text \in Seq(Byte)
        BY <2>2, SizesAssumption, BufferIs, Joins DEF Typed
    <2>4. Len(asked) \in Nat /\ k \in Nat
        BY <2>3, LenProperties
    <2>5. k \in 0 .. Len(asked) /\ executed = SubSeq(asked, 1, k)
        BY <2>2, <2>4 DEF Stream
    <2>6. behind \in Seq(Command) /\ asked = executed \o behind
        BY <2>3, <2>5, TakeAndDrop, DropIs
    <2>7. BytesOf(asked) = BytesOf(executed) \o BytesOf(behind) /\ BytesOf(executed) \in Seq(Byte)
        BY <2>3, <2>6, LinesJoin
    <2>8. ASSUME open, parser.err = "NO_ERROR"
          PROVE  /\ HeldBytes(parser) \in Seq(Byte)
                 /\ BytesOf(behind) = HeldBytes(parser) \o text
        <3>1. InLine(parser, asked, k, text)
            BY <2>2, <2>8 DEF Stream
        <3>2. CASE k = Len(asked) /\ parser = init_parser /\ text = << >>
            <4>1. HeldBytes(parser) = << >>
                BY <3>2 DEF HeldBytes, Held, init_parser
            <4>2. behind = << >>
                <5>1. Len(behind) = Len(asked) - k
                    BY <2>3, <2>5, DropIs
                <5>2. Len(behind) = 0
                    BY <2>4, <3>2, <5>1
                <5>3. QED
                    BY <2>6, <5>2, EmptySeq
            <4>3. << >> \in Seq(Byte) /\ << >> \o << >> = << >>
                BY Joins
            <4>4. QED
                BY <3>2, <4>1, <4>2, <4>3, LinesFew
        <3>3. CASE ~(k = Len(asked) /\ parser = init_parser /\ text = << >>)
            <4> DEFINE line == asked[k + 1]
                       w == Bytes(line)
                       others == BytesOf(Drop(asked, k + 1))
            <4>1. k < Len(asked)
                BY <3>1, <3>3, Zenon DEF InLine
            <4>2. PICK c \in 0 .. Len(w) - 1 :
                     parser = At(line, c) /\ text = Drop(w, c) \o others
                BY <3>1, <3>3, Zenon DEF InLine
            <4>3. k \in 0 .. Len(asked) - 1 /\ k + 1 \in 0 .. Len(asked)
                BY <2>4, <4>1
            <4>4. line \in Command /\ BytesOf(behind) = w \o others
                BY <2>3, <4>3, LinesAhead
            <4>5. others \in Seq(Byte)
                BY <2>3, <4>3, DropIs, LinesJoin
            <4>6. w \in Seq(Byte) /\ HeldBytes(parser) = SubSeq(w, 1, c)
                BY <4>2, <4>4, BytesIs, HeldIs
            <4> HIDE DEF w, others
            <4>7. Len(w) \in Nat /\ c \in 0 .. Len(w)
                BY <4>2, <4>6, LenProperties
            <4>8. /\ SubSeq(w, 1, c) \in Seq(Byte) /\ Drop(w, c) \in Seq(Byte)
                  /\ w = SubSeq(w, 1, c) \o Drop(w, c)
                BY <4>6, <4>7, Joins
            <4>9. (SubSeq(w, 1, c) \o Drop(w, c)) \o others = SubSeq(w, 1, c) \o (Drop(w, c) \o others)
                BY <4>5, <4>8, Associate
            <4>10. QED
                BY <4>2, <4>4, <4>6, <4>8, <4>9
        <3>4. QED
            BY <3>2, <3>3
    <2> HIDE DEF behind
    <2>9. open /\ parser.err = "NO_ERROR" =>
             BytesOf(asked) = BytesOf(executed) \o HeldBytes(parser) \o u \o toServer
        <3>1. SUFFICES ASSUME open, parser.err = "NO_ERROR"
                       PROVE  BytesOf(asked) = ((BytesOf(executed) \o HeldBytes(parser)) \o u) \o toServer
            OBVIOUS
        <3> DEFINE e == BytesOf(executed)
                   h == HeldBytes(parser)
        <3>2. h \in Seq(Byte) /\ BytesOf(behind) = h \o (u \o toServer)
            BY <2>8, <3>1
        <3>3. e \in Seq(Byte) /\ BytesOf(asked) = e \o BytesOf(behind)
            BY <2>7
        <3> HIDE DEF e, h, u, text
        <3>4. u \in Seq(Byte) /\ toServer \in Seq(Byte) /\ u \o toServer \in Seq(Byte)
              /\ e \o h \in Seq(Byte)
            BY <2>3, <3>2, <3>3, Joins
        <3>5. e \o (h \o (u \o toServer)) = (e \o h) \o (u \o toServer)
            BY <3>2, <3>3, <3>4, Associate
        <3>6. (e \o h) \o (u \o toServer) = ((e \o h) \o u) \o toServer
            BY <3>4, Associate
        <3>7. QED
            BY <3>2, <3>3, <3>5, <3>6 DEF e, h
    <2>10. QED
        BY <2>2, <2>9, Zenon DEF NothingIsLost, HeldBytes, Answers
<1>2. QED
    BY <1>1, Invariant, PTL


-----------------------------------------------------------------------------
(* The exchange                                                            *)

\* The places of a text where a terminator begins.
Marks(s) == {i \in 1 .. Len(s) - 3 : /\ s[i] = "CR" /\ s[i + 1] = "LF"
                                     /\ s[i + 2] = "CR" /\ s[i + 3] = "LF"}

\* They are finitely many.
LEMMA MarksAreFinite ==
    ASSUME NEW s \in Seq(Byte)
    PROVE  IsFiniteSet(Marks(s)) /\ Cardinality(Marks(s)) \in Nat
<1> DEFINE m == Marks(s)
           n == Len(s) - 3
<1>1. Len(s) \in Nat
    BY LenProperties
<1>2. 1 \in Int /\ n \in Int /\ m \in SUBSET (1 .. n)
    BY <1>1 DEF Marks
<1> HIDE DEF m, n
<1>3. IsFiniteSet(1 .. n)
    BY <1>2, FS_Interval
<1>4. IsFiniteSet(m)
    BY <1>2, <1>3, FS_Subset
<1>5. Cardinality(m) \in Nat
    BY <1>4, FS_CardinalityType
<1>6. QED
    BY <1>4, <1>5 DEF m

\* Told counts those of what was received.
LEMMA ToldIs ==
    ASSUME NEW s \in Seq(Byte)
    PROVE  {i \in 1 .. Len(s) - 3 : SubSeq(s, i, i + 3) = MONITOR_TERMINATOR} = Marks(s)
<1>1. Len(s) \in Nat
    BY LenProperties
<1>2. ASSUME NEW i \in 1 .. Len(s) - 3
      PROVE  SubSeq(s, i, i + 3) = MONITOR_TERMINATOR <=>
                s[i] = "CR" /\ s[i + 1] = "LF" /\ s[i + 2] = "CR" /\ s[i + 3] = "LF"
    <2> DEFINE hi == i + 3
               x == SubSeq(s, i, hi)
               y == << "CR", "LF", "CR", "LF" >>
    <2>1. /\ i \in Int /\ hi \in Int /\ i <= hi /\ hi - i + 1 = 4
          /\ i + 1 - 1 = i /\ i + 2 - 1 = i + 1 /\ i + 3 - 1 = i + 2 /\ i + 4 - 1 = i + 3
        BY <1>1
    <2>2. \A j \in i .. hi : s[j] \in Byte
        <3>1. \A j \in i .. hi : j \in 1 .. Len(s)
            BY <1>1
        <3>2. QED
            BY <3>1, ElementOfSeq
    <2>3. y \in Seq(Byte) /\ Len(y) = 4 /\ y[1] = "CR" /\ y[2] = "LF" /\ y[3] = "CR" /\ y[4] = "LF"
        BY BytesAre
    <2> HIDE DEF hi, y
    <2>4. /\ x \in Seq(Byte) /\ Len(x) = IF i <= hi THEN hi - i + 1 ELSE 0
          /\ \A j \in 1 .. hi - i + 1 : x[j] = s[i + j - 1]
        BY <2>1, <2>2, SubSeqProperties
    <2> HIDE DEF x
    <2>5. /\ x \in Seq(Byte) /\ Len(x) = 4
          /\ x[1] = s[i] /\ x[2] = s[i + 1] /\ x[3] = s[i + 2] /\ x[4] = s[i + 3]
        <3>1. x \in Seq(Byte) /\ Len(x) = 4 /\ \A j \in 1 .. 4 : x[j] = s[i + j - 1]
            BY <2>1, <2>4
        <3>2. 1 \in 1 .. 4 /\ 2 \in 1 .. 4 /\ 3 \in 1 .. 4 /\ 4 \in 1 .. 4
            OBVIOUS
        <3>3. x[1] = s[i + 1 - 1] /\ x[2] = s[i + 2 - 1] /\ x[3] = s[i + 3 - 1] /\ x[4] = s[i + 4 - 1]
            BY <3>1, <3>2, Zenon
        <3>4. QED
            BY <2>1, <3>1, <3>3
    <2>6. ASSUME x[1] = "CR", x[2] = "LF", x[3] = "CR", x[4] = "LF"
          PROVE  x = y
        <3>1. \A j \in 1 .. 4 : x[j] = y[j]
            <4>1. \A j \in 1 .. 4 : j = 1 \/ j = 2 \/ j = 3 \/ j = 4
                OBVIOUS
            <4>2. QED
                BY <2>3, <2>6, <4>1
        <3>2. QED
            BY <2>3, <2>5, <3>1, SeqEqual
    <2>7. x = y <=> s[i] = "CR" /\ s[i + 1] = "LF" /\ s[i + 2] = "CR" /\ s[i + 3] = "LF"
        BY <2>3, <2>5, <2>6
    <2>8. SubSeq(s, i, i + 3) = x /\ MONITOR_TERMINATOR = y
        BY Zenon DEF x, y, hi, MONITOR_TERMINATOR
    <2>9. QED
        BY <2>7, <2>8
<1>3. QED
    BY <1>2, Zenon DEF Marks

\* More text has no fewer of them.
LEMMA MarksMore ==
    ASSUME NEW s \in Seq(Byte), NEW t \in Seq(Byte)
    PROVE  /\ Marks(s) \subseteq Marks(s \o t)
           /\ Cardinality(Marks(s)) <= Cardinality(Marks(s \o t))
<1> DEFINE w == s \o t
<1>1. Len(s) \in Nat /\ Len(t) \in Nat
    BY LenProperties
<1>2. /\ w \in Seq(Byte) /\ Len(w) = Len(s) + Len(t)
      /\ \A i \in 1 .. Len(s) + Len(t) : w[i] = IF i <= Len(s) THEN s[i] ELSE t[i - Len(s)]
    BY ConcatProperties
<1> HIDE DEF w
<1>3. ASSUME NEW i \in 1 .. Len(s) - 3
      PROVE  /\ i \in 1 .. Len(w) - 3
             /\ w[i] = s[i] /\ w[i + 1] = s[i + 1] /\ w[i + 2] = s[i + 2] /\ w[i + 3] = s[i + 3]
    <2>1. i \in 1 .. Len(w) - 3
        BY <1>1, <1>2
    <2>2. \A j \in {i, i + 1, i + 2, i + 3} : j \in 1 .. Len(s) + Len(t) /\ j <= Len(s)
        BY <1>1
    <2>3. \A j \in {i, i + 1, i + 2, i + 3} : w[j] = s[j]
        BY <1>2, <2>2
    <2>4. QED
        BY <2>1, <2>3
<1>4. Marks(s) \subseteq Marks(w)
    BY <1>3 DEF Marks
<1>5. Cardinality(Marks(s)) <= Cardinality(Marks(w))
    BY <1>2, <1>4, MarksAreFinite, FS_Subset
<1>6. QED
    BY <1>4, <1>5 DEF w

\* An answer behind answers has its terminator at its end, and there is none
\* between them.
LEMMA MarksOfAnswer ==
    ASSUME NEW s \in Seq(Byte), s = << >> \/ s[Len(s)] = "LF",
           NEW line \in Command, line.cmd # <<Quit>>
    PROVE  LET w == s \o Answer(line) IN
           /\ w[Len(w)] = "LF"
           /\ Cardinality(Marks(w)) = Cardinality(Marks(s)) + 1
<1> DEFINE a == Answer(line)
           n == Len(a)
           k == Len(s)
           w == s \o a
           e == k + n - 3
<1>1. /\ a \in Seq(Byte) /\ n \in {5, 8}
      /\ n = 5 => a[1] # "CR" /\ a[2] = "CR" /\ a[3] = "LF" /\ a[4] = "CR" /\ a[5] = "LF"
      /\ n = 8 => /\ a[1] # "CR" /\ a[2] = "CR" /\ a[3] = "LF" /\ a[4] # "CR"
                  /\ a[5] = "CR" /\ a[6] = "LF" /\ a[7] = "CR" /\ a[8] = "LF"
    BY AnswerIs
<1>2. k \in Nat /\ (k # 0 => s[k] = "LF")
    <2>1. k \in Nat
        BY LenProperties
    <2>2. s = << >> => k = 0
        BY Joins
    <2>3. QED
        BY <2>1, <2>2
<1> HIDE DEF a, n, k
<1>3. w \in Seq(Byte) /\ Len(w) = k + n
    BY <1>1, ConcatProperties DEF n, k
<1>4. \A i \in 1 .. k : w[i] = s[i]
    <2>1. \A i \in 1 .. Len(s) + Len(a) : w[i] = IF i <= Len(s) THEN s[i] ELSE a[i - Len(s)]
        BY <1>1, ConcatProperties
    <2> HIDE DEF w
    <2>2. \A i \in 1 .. k + n : w[i] = IF i <= k THEN s[i] ELSE a[i - k]
        BY <2>1 DEF k, n
    <2>3. QED
        BY <1>1, <1>2, <2>2
<1>5. \A j \in 1 .. n : w[k + j] = a[j]
    <2>1. \A i \in 1 .. Len(s) + Len(a) : w[i] = IF i <= Len(s) THEN s[i] ELSE a[i - Len(s)]
        BY <1>1, ConcatProperties
    <2> HIDE DEF w
    <2>2. \A i \in 1 .. k + n : w[i] = IF i <= k THEN s[i] ELSE a[i - k]
        BY <2>1 DEF k, n
    <2>3. ASSUME NEW j \in 1 .. n PROVE w[k + j] = a[j]
        <3> DEFINE h == k + j
        <3>1. h \in 1 .. k + n /\ ~(h <= k) /\ h - k = j
            BY <1>1, <1>2
        <3> HIDE DEF h
        <3>2. w[h] = a[h - k]
            BY <2>2, <3>1
        <3>3. w[h] = a[j]
            BY <3>1, <3>2
        <3>4. QED
            BY <3>3 DEF h
    <2>4. QED
        BY <2>3
<1> HIDE DEF w
<1>6. \A j \in 1 .. n : (w[k + j] = "CR" <=> a[j] = "CR") /\ (w[k + j] = "LF" <=> a[j] = "LF")
    BY <1>5
<1>7. w[k + n] = "LF" /\ w[k + n - 1] = "CR" /\ w[k + n - 2] = "LF" /\ w[k + n - 3] = "CR"
    <2>1. /\ n \in 1 .. n /\ n - 1 \in 1 .. n /\ n - 2 \in 1 .. n /\ n - 3 \in 1 .. n
          /\ k + (n - 1) = k + n - 1 /\ k + (n - 2) = k + n - 2 /\ k + (n - 3) = k + n - 3
        BY <1>1, <1>2
    <2>2. a[n] = "LF" /\ a[n - 1] = "CR" /\ a[n - 2] = "LF" /\ a[n - 3] = "CR"
        BY <1>1
    <2>3. QED
        BY <1>5, <2>1, <2>2
<1>8. ASSUME NEW i \in Marks(w), i \notin Marks(s)
      PROVE  i = e
    <2>0. /\ i \in 1 .. Len(w) - 3 /\ w[i] = "CR" /\ w[i + 1] = "LF" /\ w[i + 2] = "CR"
          /\ w[i + 3] = "LF"
        BY <1>8, Zenon DEF Marks
    <2>1. /\ i \in 1 .. k + n - 3 /\ w[i] = "CR" /\ w[i + 1] = "LF" /\ w[i + 2] = "CR"
        BY <1>1, <1>2, <1>3, <2>0
    <2>2. w[i + 3] = "LF"
        BY <2>0
    <2>3. ~(i <= k - 3)
        <3>1. SUFFICES ASSUME i <= k - 3 PROVE FALSE
            OBVIOUS
        <3>2. i \in 1 .. k /\ i + 1 \in 1 .. k /\ i + 2 \in 1 .. k /\ i + 3 \in 1 .. k /\ i \in 1 .. k - 3
            BY <1>2, <2>1, <3>1
        <3>3. s[i] = "CR" /\ s[i + 1] = "LF" /\ s[i + 2] = "CR" /\ s[i + 3] = "LF"
            BY <1>4, <2>1, <2>2, <3>2
        <3>4. QED
            BY <1>8, <3>2, <3>3 DEF Marks, k
    <2>4. i # k
        <3>1. k # 0 => k \in 1 .. k /\ w[k] = "LF"
            BY <1>2, <1>4
        <3>2. QED
            BY <1>2, <2>1, <3>1
    <2>5. i # k - 2
        <3>1. k # 0 => k \in 1 .. k /\ w[k] = "LF"
            BY <1>2, <1>4
        <3>2. i = k - 2 => i + 2 = k /\ k # 0
            BY <1>2, <2>1
        <3>3. QED
            BY <2>1, <3>1, <3>2
    <2>6. i # k - 1
        <3>1. i = k - 1 => i + 2 = k + 1
            BY <1>2, <2>1
        <3>2. 1 \in 1 .. n /\ a[1] # "CR"
            BY <1>1
        <3>3. QED
            BY <1>5, <2>1, <3>1, <3>2
    <2> DEFINE j == i - k
    <2>7. j \in 1 .. n - 3
        BY <1>1, <1>2, <2>1, <2>3, <2>4, <2>5, <2>6
    <2>8. k + j = i /\ k + (j + 1) = i + 1 /\ k + (j + 2) = i + 2 /\ k + (j + 3) = i + 3
        BY <1>2, <2>1
    <2> HIDE DEF j
    <2>9. j \in 1 .. n /\ j + 1 \in 1 .. n /\ j + 2 \in 1 .. n /\ j + 3 \in 1 .. n
        BY <1>1, <2>7
    <2>10. a[j] = "CR" /\ a[j + 1] = "LF" /\ a[j + 2] = "CR"
        BY <1>5, <2>1, <2>8, <2>9
    <2>11. j = n - 3
        <3>1. CASE n = 5
            <4>1. j = 1 \/ j = 2
                BY <2>7, <3>1
            <4>2. j # 1
                BY <1>1, <2>10, <3>1
            <4>3. QED
                BY <3>1, <4>1, <4>2
        <3>2. CASE n = 8
            <4>1. j = 1 \/ j = 2 \/ j = 3 \/ j = 4 \/ j = 5
                BY <2>7, <3>2
            <4>2. j # 1 /\ j # 4
                BY <1>1, <2>10, <3>2
            <4>3. j # 2
                <5>1. j = 2 => j + 2 = 4
                    OBVIOUS
                <5>2. QED
                    BY <1>1, <2>10, <3>2, <5>1
            <4>4. j # 3
                BY <1>1, <2>10, <3>2
            <4>5. QED
                BY <3>2, <4>1, <4>2, <4>3, <4>4
        <3>3. QED
            BY <1>1, <3>1, <3>2
    <2>12. QED
        BY <1>1, <1>2, <2>8, <2>11
<1>9. e \in Marks(w) /\ e \notin Marks(s)
    <2>1. e \in 1 .. Len(w) - 3 /\ e + 1 = k + n - 2 /\ e + 2 = k + n - 1 /\ e + 3 = k + n
        BY <1>1, <1>2, <1>3
    <2>2. ~(e \in 1 .. k - 3)
        BY <1>1, <1>2
    <2>3. e = k + n - 3
        OBVIOUS
    <2> HIDE DEF e
    <2>4. QED
        BY <1>7, <2>1, <2>2, <2>3 DEF Marks, k
<1> HIDE DEF e
<1>10. Marks(s) \subseteq Marks(w)
    BY <1>1, MarksMore DEF w
<1>11. Marks(w) = Marks(s) \union {e}
    BY <1>8, <1>9, <1>10
<1>12. Cardinality(Marks(w)) = Cardinality(Marks(s)) + 1
    BY <1>9, <1>11, MarksAreFinite, FS_AddElement
<1>13. QED
    BY <1>3, <1>7, <1>12 DEF w, a


\* There are as many as lines were answered, which all are but QUIT.
LEMMA AnswersAreCounted ==
    ASSUME NEW lines \in Seq(Command)
    PROVE  /\ Cardinality(Marks(AnswersTo(lines))) <= Len(lines)
           /\ (\A i \in DOMAIN lines : lines[i].cmd # <<Quit>>)
                 => Cardinality(Marks(AnswersTo(lines))) = Len(lines)
<1> DEFINE n == Len(lines)
           upto(k) == AnswersTo(SubSeq(lines, 1, k))
           Ended(k) == upto(k) = << >> \/ upto(k)[Len(upto(k))] = "LF"
           count(k) == Cardinality(Marks(upto(k)))
           All(k) == \A i \in 1 .. k : lines[i].cmd # <<Quit>>
           Good(k) == Ended(k) /\ count(k) <= k /\ (All(k) => count(k) = k)
           T == {k \in 0 .. n : ~Good(k)}
<1>1. n \in Nat /\ DOMAIN lines = 1 .. n /\ n \in 0 .. n
    BY LenProperties
<1>2. SubSeq(lines, 1, n) = lines
    BY SubSeqFull
<1>3. ASSUME NEW k \in 0 .. n PROVE upto(k) \in Seq(Byte) /\ count(k) \in Nat
    <2>1. SubSeq(lines, 1, k) \in Seq(Command)
        BY TakeIs
    <2>2. upto(k) \in Seq(Byte)
        BY <2>1, LinesJoin
    <2> HIDE DEF upto
    <2>3. QED
        BY <2>2, MarksAreFinite
<1>4. Good(0)
    <2>1. SubSeq(lines, 1, 0) = << >>
        BY SubSeqEmpty
    <2>2. upto(0) = << >>
        BY <2>1, LinesFew
    <2> HIDE DEF upto
    <2>3. Marks(<< >>) = {}
        BY DEF Marks
    <2>4. count(0) = 0
        BY <2>2, <2>3, FS_EmptySet
    <2>5. QED
        BY <2>2, <2>4
<1>5. ASSUME NEW k \in 1 .. n, Good(k - 1) PROVE Good(k)
    <2> DEFINE h == k - 1
               line == lines[k]
               s == upto(h)
    <2>1. h \in 0 .. n - 1 /\ h \in 0 .. n /\ h + 1 = k /\ k \in 0 .. n /\ h \in Nat
        BY <1>1
    <2>2. Good(h)
        BY <1>5
    <2> HIDE DEF h
    <2>3. line \in Command /\ SubSeq(lines, 1, h) \in Seq(Command)
        BY <1>1, <2>1, TakeIs, ElementOfSeq
    <2>4. SubSeq(lines, 1, k) = Append(SubSeq(lines, 1, h), line)
        <3>1. SubSeq(lines, 1, h + 1) = Append(SubSeq(lines, 1, h), lines[h + 1])
            BY <2>1, TakeOneMore
        <3>2. QED
            BY <2>1, <3>1
    <2>5. upto(k) = s \o Answer(line)
        BY <2>3, <2>4, LinesAppend
    <2>6. s \in Seq(Byte) /\ count(h) \in Nat /\ Ended(h) /\ count(h) <= h /\ (All(h) => count(h) = h)
        BY <1>3, <2>1, <2>2
    <2>7. All(k) => All(h) /\ line.cmd # <<Quit>>
        BY <2>1
    <2> HIDE DEF upto, line
    <2>8. CASE line.cmd = <<Quit>>
        <3>1. Answer(line) = << >>
            BY <2>3, <2>8, AnswerIs, Joins
        <3>2. upto(k) = s
            BY <2>5, <2>6, <3>1, Joins
        <3>3. ~All(k)
            BY <2>7, <2>8
        <3>4. Ended(k) /\ count(k) = count(h)
            BY <2>6, <3>2
        <3> HIDE DEF All, Ended, count
        <3>5. QED
            BY <2>1, <2>6, <3>3, <3>4
    <2>9. CASE line.cmd # <<Quit>>
        <3>1. s = << >> \/ s[Len(s)] = "LF"
            BY <2>6
        <3> DEFINE w == s \o Answer(line)
        <3>2. w[Len(w)] = "LF" /\ Cardinality(Marks(w)) = Cardinality(Marks(s)) + 1
            BY <2>3, <2>6, <2>9, <3>1, MarksOfAnswer
        <3>3. Ended(k) /\ count(k) = count(h) + 1
            BY <2>5, <3>2
        <3> HIDE DEF All, Ended, count
        <3>4. QED
            BY <2>1, <2>6, <2>7, <3>3
    <2>10. QED
        BY <2>8, <2>9
<1> HIDE DEF Good
<1>6. T = {}
    <2>1. SUFFICES ASSUME T # {} PROVE FALSE
        OBVIOUS
    <2>2. T \subseteq Nat
        BY <1>1
    <2> HIDE DEF T
    <2>3. PICK k \in T : \A y \in T : k <= y
        BY <2>1, <2>2, LeastNumber
    <2> USE DEF T
    <2>4. k \in 0 .. n /\ ~Good(k)
        BY <2>3
    <2>5. k # 0
        BY <1>4, <2>4
    <2>6. k \in 1 .. n /\ k - 1 \in 0 .. n /\ ~(k <= k - 1)
        BY <1>1, <2>4, <2>5
    <2>7. Good(k - 1)
        BY <2>3, <2>6
    <2>8. QED
        BY <1>5, <2>4, <2>6, <2>7
<1>7. Good(n)
    BY <1>1, <1>6
<1>8. count(n) <= n /\ (All(n) => count(n) = n)
    BY <1>7 DEF Good
<1>9. count(n) = Cardinality(Marks(AnswersTo(lines)))
    BY <1>2
<1> HIDE DEF count
<1>10. QED
    BY <1>1, <1>8, <1>9

\* A client that goes on has been told the answers to all it asked, and never
\* more than were given.
LEMMA TellsInOrder ==
    ASSUME Inv
    PROVE  /\ Told = Cardinality(Marks(received)) /\ Told \in Nat /\ Told <= Len(executed)
           /\ client = "ready" => Told = Len(asked)
<1>1. Typed /\ Answers /\ Client
    BY DEF Inv
<1>2. /\ received \in Seq(Byte) /\ toClient \in Seq(Byte) /\ Unread(write_buffer) \in Seq(Byte)
      /\ executed \in Seq(Command) /\ asked \in Seq(Command)
    BY <1>1, SizesAssumption, BufferIs DEF Typed
<1>3. Told = Cardinality(Marks(received))
    BY <1>2, ToldIs, Zenon DEF Told
<1>4. Told \in Nat
    BY <1>2, <1>3, MarksAreFinite
<1>5. Told <= Len(executed)
    <2> DEFINE rest == toClient \o Unread(write_buffer)
    <2>1. rest \in Seq(Byte)
        BY <1>2, Joins
    <2>2. AnswersTo(executed) = received \o rest
        BY <1>1, <1>2, Associate DEF Answers
    <2> HIDE DEF rest
    <2>3. Cardinality(Marks(received)) <= Cardinality(Marks(received \o rest))
        BY <1>2, <2>1, MarksMore
    <2>4. Cardinality(Marks(AnswersTo(executed))) <= Len(executed)
        BY <1>2, AnswersAreCounted
    <2>5. Cardinality(Marks(AnswersTo(executed))) \in Nat /\ Len(executed) \in Nat
        BY <1>2, LinesJoin, MarksAreFinite, LenProperties
    <2>6. QED
        BY <1>3, <1>4, <2>2, <2>3, <2>4, <2>5
<1>6. ASSUME client = "ready" PROVE Told = Len(asked)
    <2>1. received = AnswersTo(asked) /\ \A i \in DOMAIN asked : asked[i].cmd # <<Quit>>
        BY <1>1, <1>6 DEF Client
    <2>2. Cardinality(Marks(AnswersTo(asked))) = Len(asked)
        BY <1>2, <2>1, AnswersAreCounted
    <2>3. QED
        BY <1>3, <2>1, <2>2
<1>7. QED
    BY <1>3, <1>4, <1>5, <1>6


\* A line more, when every answer to the others was read.
LEMMA AskStep ==
    ASSUME Inv, Inv', client = "ready", NEW line \in Command, asked' = Append(asked, line),
           UNCHANGED <<executed, received>>
    PROVE  AbstractExchange!Ask
<1>1. asked \in Seq(Command)
    BY DEF Inv, Typed
<1>2. Told = Len(asked) /\ Told' = Told
    <2>1. Told' = Told
        BY Zenon DEF Told
    <2>2. QED
        BY <2>1, TellsInOrder
<1>3. Len(asked') = Len(asked) + 1
    BY <1>1, AppendProperties
<1>4. SubSeq(asked', 1, Len(asked)) = asked
    <2>1. Len(asked) \in 0 .. Len(asked)
        BY <1>1, LenProperties
    <2>2. SubSeq(Append(asked, line), 1, Len(asked)) = SubSeq(asked, 1, Len(asked))
        BY <1>1, <2>1, DropAppend
    <2>3. SubSeq(asked, 1, Len(asked)) = asked
        BY <1>1, SubSeqFull
    <2>4. QED
        BY <2>2, <2>3
<1>5. QED
    BY <1>2, <1>3, <1>4 DEF AbstractExchange!Ask

\* What is carried out is the next of what was asked.
LEMMA DoStep ==
    ASSUME Inv, Inv', Len(executed') = Len(executed) + 1, UNCHANGED <<asked, received>>
    PROVE  AbstractExchange!Do
<1> DEFINE k == Len(executed)
<1>1. /\ asked \in Seq(Command) /\ executed \in Seq(Command)
      /\ executed = SubSeq(asked, 1, k)
      /\ Len(executed') <= Len(asked) /\ executed' = SubSeq(asked, 1, Len(executed'))
    BY DEF Inv, Typed, Stream
<1>2. Len(asked) \in Nat /\ k \in Nat
    BY <1>1, LenProperties
<1>3. k < Len(asked) /\ k \in 0 .. Len(asked) - 1 /\ executed' = SubSeq(asked, 1, k + 1)
    BY <1>1, <1>2
<1>4. executed' = Append(executed, asked[k + 1])
    BY <1>1, <1>3, LinesAhead
<1>5. Told' = Told
    BY Zenon DEF Told
<1>6. QED
    BY <1>3, <1>4, <1>5 DEF AbstractExchange!Do

\* The answers that were told are those received, and not more than were given.
Counted == Told = Cardinality(Marks(received)) /\ Told \in Nat /\ Told <= Len(executed)

\* What arrives takes no answer back.
LEMMA TellStep ==
    ASSUME Inv, Counted', NEW t \in Seq(Byte), received' = received \o t, UNCHANGED <<asked, executed>>
    PROVE  AbstractExchange!Tell \/ UNCHANGED AbstractExchange!exchangeVars
<1>1. received \in Seq(Byte) /\ executed \in Seq(Command)
    BY DEF Inv, Typed
<1>2. Told = Cardinality(Marks(received)) /\ Told \in Nat
    BY TellsInOrder
<1>3. Told' = Cardinality(Marks(received')) /\ Told' \in Nat /\ Told' <= Len(executed')
    BY Zenon DEF Counted
<1>4. Cardinality(Marks(received)) <= Cardinality(Marks(received \o t))
    BY <1>1, MarksMore
<1>5. Told <= Told' /\ Told' \in Nat /\ Told' <= Len(executed) /\ Len(executed) \in Nat
    <2>1. Told' = Cardinality(Marks(received \o t))
        BY <1>3
    <2>2. QED
        BY <1>1, <1>2, <1>3, <1>4, <2>1, LenProperties
<1>6. CASE Told' = Told
    BY <1>6 DEF AbstractExchange!exchangeVars
<1>7. CASE Told' # Told
    <2>1. Told < Len(executed) /\ Told' \in Told + 1 .. Len(executed)
        BY <1>2, <1>5, <1>7
    <2>2. QED
        BY <2>1 DEF AbstractExchange!Tell
<1>8. QED
    BY <1>6, <1>7

\* And nothing else changes what an administrator sees.
LEMMA StepIsExchange ==
    ASSUME Inv, Inv', Counted', [Next]_vars
    PROVE  [AbstractExchange!Next]_(AbstractExchange!exchangeVars)
<1>1. CASE UNCHANGED vars
    <2>1. Told' = Told
        BY <1>1, Zenon DEF vars, Told
    <2>2. QED
        BY <1>1, <2>1 DEF vars, AbstractExchange!exchangeVars
<1>2. CASE send_cmd
    <2> DEFINE name == get_cmd_index(argv[argcmd])
               n == monitor_cmds_args[name]
               line == LineOf(name, SubSeq(argv, argcmd + 1, argcmd + n))
    <2>1. /\ client = "ready" /\ Runs(argv, argcmd) /\ asked' = Append(asked, line)
          /\ executed' = executed /\ received' = received
        BY <1>2, Zenon DEF send_cmd, serverVars
    <2>2. line \in Command
        BY <2>1, WordsAreLines DEF Inv, Typed
    <2> HIDE DEF line
    <2>3. QED
        BY <2>1, <2>2, AskStep DEF AbstractExchange!Next
<1>3. CASE cmd_quit
    <2> DEFINE line == LineOf(Quit, << >>)
    <2>1. /\ client = "ready" /\ asked' = Append(asked, line)
          /\ executed' = executed /\ received' = received
        BY <1>3, Zenon DEF cmd_quit, serverVars
    <2>2. line \in Command
        BY QuitIsLine
    <2> HIDE DEF line
    <2>3. QED
        BY <2>1, <2>2, AskStep DEF AbstractExchange!Next
<1>4. CASE recv_cmd
    <2>1. asked' = asked /\ executed' = executed
        BY <1>4, Zenon DEF recv_cmd, serverVars
    <2>2. PICK k \in 1 .. Len(toClient) : received' = received \o SubSeq(toClient, 1, k)
        BY <1>4, Zenon DEF recv_cmd
    <2>3. toClient \in Seq(Byte) /\ Len(toClient) \in Nat
        BY LenProperties DEF Inv, Typed
    <2>4. SubSeq(toClient, 1, k) \in Seq(Byte)
        <3>1. k \in 0 .. Len(toClient)
            BY <2>3
        <3>2. QED
            BY <2>3, <3>1, TakeIs
    <2>5. QED
        BY <2>1, <2>2, <2>4, TellStep DEF AbstractExchange!Next
<1>5. CASE handleMonitorRead \/ continue_sending
    <2>1. asked' = asked /\ executed' = executed /\ received' = received
        BY <1>5, Zenon DEF handleMonitorRead, continue_sending, clientVars
    <2>2. Told' = Told
        BY <2>1, Zenon DEF Told
    <2>3. QED
        BY <2>1, <2>2 DEF AbstractExchange!exchangeVars
<1>6. CASE handleMonitorWrite
    <2>1. asked' = asked /\ received' = received
        BY <1>6, Zenon DEF handleMonitorWrite, clientVars
    <2>2. executed' = executed \/ \E line : executed' = Append(executed, line)
        BY <1>6, Zenon DEF handleMonitorWrite
    <2>3. CASE executed' = executed
        <3>1. Told' = Told
            BY <2>1, Zenon DEF Told
        <3>2. QED
            BY <2>1, <2>3, <3>1 DEF AbstractExchange!exchangeVars
    <2>4. CASE \E line : executed' = Append(executed, line)
        <3>1. PICK line : executed' = Append(executed, line)
            BY <2>4
        <3>2. executed \in Seq(Command)
            BY DEF Inv, Typed
        <3>3. Len(executed') = Len(executed) + 1
            BY <3>1, <3>2
        <3>4. QED
            BY <2>1, <3>3, DoStep DEF AbstractExchange!Next
    <2>5. QED
        BY <2>2, <2>3, <2>4
<1>7. QED
    BY <1>1, <1>2, <1>3, <1>4, <1>5, <1>6 DEF Next

\* Nothing is carried out or answered at first.
LEMMA ExchangeBegins == Init => AbstractExchange!Init
<1>1. SUFFICES ASSUME Init PROVE executed = << >> /\ Told = 0
    BY DEF AbstractExchange!Init
<1>2. executed = << >> /\ received = << >>
    BY <1>1 DEF Init
<1>3. Marks(<< >>) = {} /\ << >> \in Seq(Byte)
    BY Joins DEF Marks
<1>4. Told = Cardinality(Marks(<< >>))
    BY <1>2, <1>3, ToldIs, Zenon DEF Told
<1>5. QED
    BY <1>2, <1>3, <1>4, FS_EmptySet

\* Wherever recv() and send() cut what is sent, and whether a program waits for
\* the answers or sends all its lines at once: every line is carried out once,
\* in order and as it was given, and is answered after that.
THEOREM ExchangeKept == Spec => ImplementsExchange
<1>1. Init => AbstractExchange!Init
    BY ExchangeBegins
<1>2. Inv /\ Inv' /\ Counted' /\ [Next]_vars
        => [AbstractExchange!Next]_(AbstractExchange!exchangeVars)
    BY StepIsExchange
<1>3. Inv => Counted
    BY TellsInOrder DEF Counted
<1>4. QED
    BY <1>1, <1>2, <1>3, Invariant, PTL DEF Spec, ImplementsExchange, AbstractExchange!Spec

-----------------------------------------------------------------------------
(* However a text is cut                                                   *)

\* Before it has been through its input, a run has stopped or has bytes ahead.
LEMMA RunGoesOn ==
    ASSUME NEW n \in Nat, NEW b \in Buffer(Byte, n), NEW k \in 0 .. Len(Unread(b)) - 1,
           NEW d \in Reading(n), Taken(d, b, k)
    PROVE  Stopped(d.parser) \/ Unread(d.buffer) # <<>>
<1> DEFINE u == Unread(b)
<1>1. u \in Seq(Byte) /\ Len(u) \in Nat
    BY BufferIs, LenProperties
<1>2. k \in Nat /\ k < Len(u)
    BY <1>1
<1>3. PICK j \in 0 .. k : Unread(d.buffer) = Drop(u, j)
    BY DEF Taken
<1> HIDE DEF u
<1>4. j \in 0 .. Len(u) /\ Len(u) - j # 0
    BY <1>1, <1>2
<1>5. Drop(u, j) \in Seq(Byte) /\ Len(Drop(u, j)) = Len(u) - j
    BY <1>1, <1>4, DropIs
<1>6. QED
    BY <1>3, <1>4, <1>5, EmptySeq

\* g goes through the first m of s.
Follows(g, kind, s, m) == \A k \in 1 .. m : g[k] = Fed(g[k - 1], kind, s[k])

\* f is what parse goes through.
Run(f, n, kind, p, b) ==
    /\ f \in [0 .. Len(Unread(b)) -> Reading(n)]
    /\ f[0] = [parser |-> p, buffer |-> b]
    /\ Follows(f, kind, Unread(b), Len(Unread(b)))
    /\ \A k \in 0 .. Len(Unread(b)) : Taken(f[k], b, k)
    /\ parse(p, kind, b) = f[Len(Unread(b))]

\* There is such a run.
LEMMA RunIsThere ==
    ASSUME NEW n \in Nat, NEW kind \in Kinds, NEW p \in Parser, NEW b \in Buffer(Byte, n)
    PROVE  \E f : Run(f, n, kind, p, b)
<1>1. PICK f \in [0 .. Len(Unread(b)) -> Reading(n)] :
         /\ f[0] = [parser |-> p, buffer |-> b]
         /\ \A k \in 1 .. Len(Unread(b)) : f[k] = Fed(f[k - 1], kind, Unread(b)[k])
         /\ \A k \in 0 .. Len(Unread(b)) : Taken(f[k], b, k)
         /\ parse(p, kind, b) = f[Len(Unread(b))]
    BY ParseRuns
<1>2. Run(f, n, kind, p, b)
    BY <1>1, Zenon DEF Run, Follows
<1>3. QED
    BY <1>2

\* A run that has stopped stays where it is.
LEMMA StoppedStays ==
    ASSUME NEW kind, NEW s, NEW g, NEW m \in Nat, NEW l \in 0 .. m, Stopped(g[l].parser),
           Follows(g, kind, s, m)
    PROVE  g[m] = g[l]
<1> DEFINE T == {k \in l .. m : g[k] # g[l]}
<1>1. SUFFICES ASSUME T # {} PROVE FALSE
    OBVIOUS
<1>2. T \subseteq Nat
    OBVIOUS
<1>3. PICK k \in T : \A y \in T : k <= y
    BY <1>1, <1>2, LeastNumber
<1>4. k \in l .. m /\ g[k] # g[l] /\ k # l
    OBVIOUS
<1>5. k \in 1 .. m /\ k - 1 \in l .. m /\ ~(k <= k - 1)
    BY <1>4
<1>6. g[k - 1] = g[l]
    BY <1>3, <1>5
<1>7. g[k] = Fed(g[l], kind, s[k])
    BY <1>5, <1>6 DEF Follows
<1>8. g[k] = g[l]
    BY <1>7, Zenon DEF Fed
<1>9. QED
    BY <1>4, <1>8

\* Two runs with the same parser, of which the second has more to read.
Beside(d, e, more) ==
    d.parser = e.parser /\ Unread(e.buffer) = Unread(d.buffer) \o more

\* A byte that the first has as well keeps them so.
LEMMA BesideGoesOn ==
    ASSUME NEW n \in Nat, NEW kind \in Kinds, NEW d \in Reading(n), NEW e \in Reading(n),
           NEW more \in Seq(Byte), Beside(d, e, more), NEW c \in Byte,
           Stopped(d.parser) \/ Unread(d.buffer) # <<>>
    PROVE  Beside(Fed(d, kind, c), Fed(e, kind, c), more)
<1> DEFINE u == Unread(d.buffer)
           w == Unread(e.buffer)
<1>1. /\ d.buffer \in Buffer(Byte, n) /\ e.buffer \in Buffer(Byte, n)
      /\ d.parser = e.parser /\ w = u \o more
    BY DEF Reading, Beside
<1>2. u \in Seq(Byte) /\ w \in Seq(Byte) /\ Len(u) \in Nat
    BY <1>1, BufferIs, LenProperties
<1>3. CASE Stopped(d.parser)
    <2>1. Fed(d, kind, c) = d /\ Fed(e, kind, c) = e
        BY <1>1, <1>3 DEF Fed
    <2>2. QED
        BY <2>1
<1>4. CASE ~Stopped(d.parser)
    <2> HIDE DEF u, w
    <2>1. u # <<>>
        BY <1>4 DEF u
    <2>2. 1 \in 0 .. Len(u) /\ Len(u) # 0
        BY <1>2, <2>1, EmptySeq
    <2>3. Len(w) = Len(u) + Len(more) /\ Len(more) \in Nat
        BY <1>1, <1>2, Joins, LenProperties
    <2>4. Len(w) # 0
        BY <1>2, <2>2, <2>3
    <2>5. w # <<>>
        BY <2>4
    <2>6. /\ Fed(d, kind, c).parser = process_char(d.parser, kind, c)
          /\ Unread(Fed(d, kind, c).buffer) = Drop(u, 1)
        BY <1>4, <2>1, FedIs DEF u
    <2>7. /\ Fed(e, kind, c).parser = process_char(e.parser, kind, c)
          /\ Unread(Fed(e, kind, c).buffer) = Drop(w, 1)
        BY <1>1, <1>4, <2>5, FedIs DEF w
    <2>8. Drop(w, 1) = Drop(u, 1) \o more
        BY <1>1, <1>2, <2>2, DropConcat
    <2>9. QED
        BY <1>1, <2>6, <2>7, <2>8 DEF Beside
<1>5. QED
    BY <1>3, <1>4

\* And so on, as long as the first has not been through its input.
LEMMA RunsBeside ==
    ASSUME NEW n \in Nat, NEW kind \in Kinds, NEW m \in Nat, NEW s, NEW f, NEW g,
           NEW more \in Seq(Byte), Beside(f[0], g[0], more),
           \A k \in 0 .. m : f[k] \in Reading(n) /\ g[k] \in Reading(n),
           \A k \in 0 .. m - 1 : Stopped(f[k].parser) \/ Unread(f[k].buffer) # <<>>,
           \A k \in 1 .. m : s[k] \in Byte, Follows(f, kind, s, m), Follows(g, kind, s, m)
    PROVE  Beside(f[m], g[m], more)
<1> DEFINE T == {k \in 0 .. m : ~Beside(f[k], g[k], more)}
<1>1. SUFFICES ASSUME T # {} PROVE FALSE
    <2>1. m \in 0 .. m
        OBVIOUS
    <2>2. QED
        BY <1>1, <2>1
<1>2. T \subseteq Nat
    OBVIOUS
<1>3. PICK k \in T : \A y \in T : k <= y
    BY <1>1, <1>2, LeastNumber
<1>4. k \in 0 .. m /\ ~Beside(f[k], g[k], more) /\ k # 0
    OBVIOUS
<1> DEFINE i == k - 1
<1>5. k \in 1 .. m /\ i \in 0 .. m /\ i \in 0 .. m - 1 /\ ~(k <= i)
    BY <1>4
<1>6. Beside(f[i], g[i], more)
    BY <1>3, <1>5
<1>7. f[k] = Fed(f[i], kind, s[k]) /\ g[k] = Fed(g[i], kind, s[k]) /\ s[k] \in Byte
    BY <1>5 DEF Follows
<1> HIDE DEF i, T
<1>8. /\ f[i] \in Reading(n) /\ g[i] \in Reading(n)
      /\ Stopped(f[i].parser) \/ Unread(f[i].buffer) # <<>>
    BY <1>5
<1> DEFINE d == f[i]
           e == g[i]
<1>9. Beside(Fed(d, kind, s[k]), Fed(e, kind, s[k]), more)
    <2>1. d \in Reading(n) /\ e \in Reading(n) /\ Beside(d, e, more) /\ s[k] \in Byte
          /\ (Stopped(d.parser) \/ Unread(d.buffer) # <<>>)
        BY <1>6, <1>7, <1>8
    <2> HIDE DEF d, e
    <2>2. QED
        BY <2>1, BesideGoesOn
<1>10. QED
    BY <1>4, <1>7, <1>9

\* Two texts, one after the other, are read as the one they make up, whatever
\* the parser, and if the buffer has been compacted in between.
THEOREM CutsDoNotMatter ==
    ASSUME NEW n \in Nat, NEW kind \in Kinds, NEW p \in Parser, NEW b \in Buffer(Byte, n),
           NEW x \in Seq(Byte), NEW y \in Seq(Byte), Len(x) + Len(y) <= Room(b)
    PROVE  LET whole == parse(p, kind, Filled(b, x \o y))
               start == parse(p, kind, Filled(b, x))
               both  == parse(start.parser, kind, Filled(start.buffer, y))
           IN both.parser = whole.parser /\ Unread(both.buffer) = Unread(whole.buffer)
<1> DEFINE b1 == Filled(b, x)
           b2 == Filled(b, x \o y)
           u  == Unread(b) \o x
           l  == Len(u)
           m  == Len(y)
           whole == parse(p, kind, b2)
           start == parse(p, kind, b1)
           b3    == Filled(start.buffer, y)
           both  == parse(start.parser, kind, b3)
<1> SUFFICES both.parser = whole.parser /\ Unread(both.buffer) = Unread(whole.buffer)
    OBVIOUS
<1>1. /\ b.write \in Nat /\ b.write <= n /\ b.limit = n /\ Unread(b) \in Seq(Byte)
      /\ Len(x) \in Nat /\ m \in Nat /\ Len(x \o y) = Len(x) + m /\ x \o y \in Seq(Byte)
    BY BufferIs, Joins
<1>2. Len(x) <= Room(b) /\ Len(x \o y) <= Room(b) /\ Room(b) = n - b.write
    BY <1>1 DEF Room
<1>3. /\ b1 \in Buffer(Byte, n) /\ b1.write = b.write + Len(x) /\ Unread(b1) = u
      /\ b2 \in Buffer(Byte, n) /\ Unread(b2) = Unread(b) \o (x \o y)
    <2>1. \A s \in Seq(Byte) : Len(s) <= Room(b) =>
             /\ Filled(b, s) \in Buffer(Byte, n) /\ Filled(b, s).write = b.write + Len(s)
             /\ Unread(Filled(b, s)) = Unread(b) \o s
        BY FilledIs
    <2>2. QED
        BY <1>1, <1>2, <2>1
<1> DEFINE v == u \o y
<1>4. u \in Seq(Byte) /\ l \in Nat /\ Unread(b2) = v
    BY <1>1, <1>3, Joins
<1> HIDE DEF b1, b2, u
<1>5. v \in Seq(Byte) /\ Len(v) = l + m
    BY <1>1, <1>4, Joins
<1>6. /\ \A k \in 1 .. l : v[k] = u[k] /\ u[k] \in Byte
      /\ \A k \in 1 .. m : v[l + k] = y[k] /\ y[k] \in Byte
    <2>1. /\ \A k \in 1 .. l : v[k] = u[k]
          /\ \A k \in 1 .. m : v[l + k] = y[k]
        BY <1>1, <1>4
    <2>2. (\A k \in 1 .. l : u[k] \in Byte) /\ (\A k \in 1 .. m : y[k] \in Byte)
        BY <1>1, <1>4, ElementOfSeq
    <2>3. QED
        BY <2>1, <2>2
<1> HIDE DEF l, m, v
<1>7. PICK f : Run(f, n, kind, p, b1)
    BY <1>3, RunIsThere
<1>8. PICK g : Run(g, n, kind, p, b2)
    BY <1>3, RunIsThere
<1>a. /\ f \in [0 .. l -> Reading(n)] /\ f[0] = [parser |-> p, buffer |-> b1]
      /\ Follows(f, kind, u, l) /\ \A k \in 0 .. l : Taken(f[k], b1, k)
      /\ start = f[l]
    BY <1>3, <1>7, Zenon DEF Run, l
<1>b. /\ g \in [0 .. l + m -> Reading(n)] /\ g[0] = [parser |-> p, buffer |-> b2]
      /\ Follows(g, kind, v, l + m)
      /\ whole = g[l + m]
    BY <1>4, <1>5, <1>8, Zenon DEF Run
<1> HIDE DEF start, whole
<1>9. Beside(f[l], g[l], y)
    <2>1. Beside(f[0], g[0], y)
        <3>1. /\ f[0].parser = p /\ f[0].buffer = b1 /\ g[0].parser = p /\ g[0].buffer = b2
            BY <1>a, <1>b
        <3>2. Unread(b1) = u /\ Unread(b2) = u \o y
            BY <1>3, <1>4 DEF v
        <3>3. QED
            BY <3>1, <3>2 DEF Beside
    <2>2. \A k \in 0 .. l : f[k] \in Reading(n) /\ g[k] \in Reading(n)
        <3>1. \A k \in 0 .. l : k \in 0 .. l + m
            BY <1>1, <1>4
        <3>2. QED
            BY <1>a, <1>b, <3>1
    <2>3. ASSUME NEW k \in 0 .. l - 1
          PROVE  Stopped(f[k].parser) \/ Unread(f[k].buffer) # <<>>
        <3> DEFINE d == f[k]
        <3>1. k \in 0 .. Len(Unread(b1)) - 1 /\ k \in 0 .. l
            BY <1>3, <1>4 DEF l
        <3>2. d \in Reading(n) /\ Taken(d, b1, k)
            BY <1>a, <3>1
        <3> HIDE DEF d
        <3>3. Stopped(d.parser) \/ Unread(d.buffer) # <<>>
            BY <1>3, <3>1, <3>2, RunGoesOn
        <3>4. QED
            BY <3>3 DEF d
    <2>4. Follows(g, kind, u, l)
        <3>1. \A k \in 1 .. l : k \in 1 .. l + m
            BY <1>1, <1>4
        <3>2. QED
            BY <1>6, <1>b, <3>1 DEF Follows
    <2>5. \A k \in 1 .. l : u[k] \in Byte
        BY <1>6
    <2>6. QED
        BY <1>4, <1>a, <2>1, <2>2, <2>3, <2>4, <2>5, RunsBeside
<1>10. /\ l \in 0 .. l + m /\ l \in 0 .. l /\ start \in Reading(n) /\ g[l] \in Reading(n)
       /\ start.parser = g[l].parser /\ Unread(g[l].buffer) = Unread(start.buffer) \o y
    <2>1. l \in 0 .. l + m /\ l \in 0 .. l
        BY <1>1, <1>4
    <2>2. QED
        BY <1>a, <1>b, <1>9, <2>1 DEF Beside
<1>11. start.parser \in Parser /\ start.buffer \in Buffer(Byte, n) /\ start.buffer.write <= b1.write
    BY <1>a, <1>10 DEF Reading, Taken
<1>12. b3 \in Buffer(Byte, n) /\ Unread(b3) = Unread(start.buffer) \o y
    <2>1. start.buffer.write \in Nat /\ start.buffer.limit = n
        BY <1>11, BufferIs
    <2>2. Len(y) <= Room(start.buffer)
        BY <1>1, <1>2, <1>3, <1>11, <2>1 DEF Room, m
    <2>3. QED
        BY <1>11, <2>2, FilledIs
<1> HIDE DEF b3
<1>13. CASE Stopped(start.parser)
    <2>1. both = [parser |-> start.parser, buffer |-> b3]
        BY <1>11, <1>12, <1>13, ParseStays
    <2>2. whole = g[l]
        <3> DEFINE c == l + m
        <3>1. c \in Nat /\ Stopped(g[l].parser) /\ l \in 0 .. c /\ Follows(g, kind, v, c)
            BY <1>1, <1>4, <1>b, <1>10, <1>13
        <3> HIDE DEF c
        <3>2. g[c] = g[l]
            BY <3>1, StoppedStays
        <3>3. QED
            BY <1>b, <3>2 DEF c
    <2> HIDE DEF both
    <2>3. QED
        BY <1>10, <1>12, <2>1, <2>2
<1>14. CASE ~Stopped(start.parser)
    <2> DEFINE r == [k \in 0 .. m |-> g[l + k]]
    <2>1. Unread(start.buffer) = <<>>
        <3>1. PICK j \in 0 .. l : Unread(start.buffer) = Drop(u, j) /\ (j < l => Stopped(start.parser))
            BY <1>3, <1>a, <1>10 DEF Taken
        <3>2. j = l
            BY <1>4, <1>14, <3>1
        <3>3. Drop(u, l) \in Seq(Byte) /\ Len(Drop(u, l)) = l - l
            BY <1>4, <1>10, DropIs DEF l
        <3>4. QED
            BY <1>4, <3>1, <3>2, <3>3, EmptySeq
    <2>2. Unread(b3) = y /\ Unread(g[l].buffer) = y
        BY <1>10, <1>12, <2>1, Joins
    <2>a. PICK h : Run(h, n, kind, start.parser, b3)
        BY <1>11, <1>12, RunIsThere
    <2>3. /\ h \in [0 .. m -> Reading(n)] /\ h[0] = [parser |-> start.parser, buffer |-> b3]
          /\ Follows(h, kind, y, m) /\ \A k \in 0 .. m : Taken(h[k], b3, k)
          /\ both = h[m]
        BY <2>2, <2>a, Zenon DEF Run, m
    <2> HIDE DEF both
    <2> DEFINE none == <<>>
    <2>4. Beside(h[m], r[m], none)
        <3>1. Beside(h[0], r[0], none)
            <4>1. r[0] = g[l]
                BY <1>1, <1>4
            <4>2. QED
                BY <1>10, <2>2, <2>3, <4>1, Joins DEF Beside
        <3>2. \A k \in 0 .. m : h[k] \in Reading(n) /\ r[k] \in Reading(n)
            <4>1. \A k \in 0 .. m : l + k \in 0 .. l + m
                BY <1>1, <1>4
            <4>2. QED
                BY <1>b, <2>3, <4>1
        <3>3. ASSUME NEW k \in 0 .. m - 1
              PROVE  Stopped(h[k].parser) \/ Unread(h[k].buffer) # <<>>
            <4> DEFINE d == h[k]
            <4>1. k \in 0 .. Len(Unread(b3)) - 1 /\ k \in 0 .. m
                BY <1>1, <2>2 DEF m
            <4>2. d \in Reading(n) /\ Taken(d, b3, k)
                BY <2>3, <4>1
            <4> HIDE DEF d
            <4>3. Stopped(d.parser) \/ Unread(d.buffer) # <<>>
                BY <1>12, <4>1, <4>2, RunGoesOn
            <4>4. QED
                BY <4>3 DEF d
        <3>4. Follows(r, kind, y, m)
            <4>1. SUFFICES ASSUME NEW k \in 1 .. m PROVE r[k] = Fed(r[k - 1], kind, y[k])
                BY DEF Follows
            <4>2. /\ l + k \in 1 .. l + m /\ k \in 0 .. m /\ k - 1 \in 0 .. m
                  /\ (l + k) - 1 = l + (k - 1)
                BY <1>1, <1>4
            <4>3. r[k] = g[l + k] /\ r[k - 1] = g[(l + k) - 1]
                BY <4>2
            <4>4. g[l + k] = Fed(g[(l + k) - 1], kind, v[l + k])
                BY <1>b, <4>2 DEF Follows
            <4>5. QED
                BY <1>6, <4>3, <4>4
        <3> HIDE DEF r
        <3>5. none \in Seq(Byte)
            BY Joins
        <3>6. m \in Nat /\ Follows(h, kind, y, m) /\ \A k \in 1 .. m : y[k] \in Byte
            BY <1>1, <1>6, <2>3
        <3> HIDE DEF none
        <3>7. QED
            BY <3>1, <3>2, <3>3, <3>4, <3>5, <3>6, RunsBeside
    <2>5. r[m] = whole
        BY <1>1, <1>b
    <2> HIDE DEF r
    <2>6. both.parser = whole.parser /\ Unread(whole.buffer) = Unread(both.buffer) \o <<>>
        <3> HIDE DEF none
        <3>1. both.parser = whole.parser /\ Unread(whole.buffer) = Unread(both.buffer) \o none
            BY <2>3, <2>4, <2>5 DEF Beside
        <3>2. QED
            BY <3>1 DEF none
    <2>7. Unread(both.buffer) \in Seq(Byte)
        <3>1. both \in Reading(n)
            BY <1>1, <2>3
        <3>2. both.buffer \in Buffer(Byte, n)
            BY <3>1 DEF Reading
        <3>3. QED
            BY <3>2, BufferIs
    <2>8. QED
        BY <2>6, <2>7, Joins
<1>15. QED
    BY <1>13, <1>14

-----------------------------------------------------------------------------
(* What a text says, one byte more                                         *)

\* The least of a set of numbers.
LEMMA MinIs ==
    ASSUME NEW T, T \subseteq Int, NEW x \in T, \A y \in T : x <= y
    PROVE  Min(T) = x
<1>1. \E z \in T : \A y \in T : z <= y
    OBVIOUS
<1>2. Min(T) \in T /\ \A y \in T : Min(T) <= y
    BY <1>1, Zenon DEF Min
<1>3. Min(T) \in Int /\ x \in Int /\ Min(T) <= x /\ x <= Min(T)
    BY <1>2
<1>4. QED
    BY <1>3

\* Up to the first of some bytes: another byte belongs to it if none came yet
\* and it is none of them.
LEMMA UntilMore ==
    ASSUME NEW D, NEW v \in Seq(D), NEW c \in D, NEW S
    PROVE  /\ \E k \in 0 .. Len(v) : Until(v, S) = SubSeq(v, 1, k)
           /\ Until(v, S) = v /\ c \notin S => Until(Append(v, c), S) = Append(v, c)
           /\ ~(Until(v, S) = v /\ c \notin S) => Until(Append(v, c), S) = Until(v, S)
<1> DEFINE a == Append(v, c)
           n == Len(v)
           H == {i \in DOMAIN v : v[i] \in S}
           G == {i \in DOMAIN a : a[i] \in S}
<1>1. n \in Nat /\ DOMAIN v = 1 .. n /\ SubSeq(v, 1, n) = v /\ n \in 0 .. n
    BY LenProperties, SubSeqFull
<1>2. /\ DOMAIN a = 1 .. n + 1 /\ Len(a) = n + 1
      /\ \A i \in 1 .. n : a[i] = v[i]
      /\ a[n + 1] = c
    <2>1. a \in Seq(D) /\ Len(a) = n + 1 /\ (\A i \in 1 .. n : a[i] = v[i]) /\ a[n + 1] = c
        BY AppendProperties
    <2> HIDE DEF a
    <2>2. DOMAIN a = 1 .. Len(a)
        BY <2>1, LenProperties
    <2>3. QED
        BY <2>1, <2>2
<1>3. \A k \in 0 .. n : SubSeq(a, 1, k) = SubSeq(v, 1, k)
    BY DropAppend
<1>4. /\ Until(v, S) = IF H = {} THEN v ELSE SubSeq(v, 1, Min(H) - 1)
      /\ Until(a, S) = IF G = {} THEN a ELSE SubSeq(a, 1, Min(G) - 1)
    BY DEF Until
<1> HIDE DEF n, a
<1>5. CASE H = {}
    <2>1. Until(v, S) = v
        BY <1>4, <1>5
    <2>2. CASE c \notin S
        <3>1. G = {}
            BY <1>1, <1>2, <1>5, <2>2
        <3>2. Until(a, S) = a
            BY <1>4, <3>1
        <3>3. QED
            BY <1>1, <2>1, <2>2, <3>2 DEF a, n
    <2>3. CASE c \in S
        <3>1. G = {n + 1}
            BY <1>1, <1>2, <1>5, <2>3
        <3> HIDE DEF G
        <3>2. Until(a, S) = SubSeq(a, 1, Min(G) - 1) /\ Min(G) = n + 1
            BY <1>1, <1>4, <3>1, OnlyIsMin
        <3>3. Until(a, S) = v
            BY <1>1, <1>3, <3>2
        <3>4. QED
            BY <1>1, <2>1, <2>3, <3>3 DEF a, n
    <2>4. QED
        BY <2>2, <2>3
<1>6. CASE H # {}
    <2>1. PICK m \in H : \A y \in H : m <= y
        <3>1. H \subseteq Nat
            BY <1>1
        <3> HIDE DEF H
        <3>2. QED
            BY <1>6, <3>1, LeastNumber
    <2>2. m \in 1 .. n /\ v[m] \in S
        BY <1>1
    <2>3. Min(H) = m
        <3>1. H \subseteq Int
            BY <1>1
        <3> HIDE DEF H
        <3>2. QED
            BY <2>1, <3>1, MinIs
    <2>4. m \in G /\ \A y \in G : m <= y
        <3>1. m \in G
            BY <1>1, <1>2, <2>2
        <3>2. ASSUME NEW y \in G PROVE m <= y
            <4>1. CASE y \in 1 .. n
                BY <1>1, <1>2, <2>1, <4>1
            <4>2. CASE y = n + 1
                BY <1>1, <2>2, <4>2
            <4>3. QED
                BY <1>1, <1>2, <4>1, <4>2
        <3>3. QED
            BY <3>1, <3>2
    <2>5. Min(G) = m
        <3>1. G \subseteq Int
            BY <1>1, <1>2
        <3> HIDE DEF G
        <3>2. QED
            BY <2>4, <3>1, MinIs
    <2>6. G # {}
        BY <2>4
    <2> HIDE DEF G, H
    <2> DEFINE k == m - 1
    <2>7. k \in 0 .. n /\ k # n
        BY <1>1, <2>2
    <2>8. Until(v, S) = SubSeq(v, 1, k) /\ Until(a, S) = SubSeq(v, 1, k)
        BY <1>3, <1>4, <1>6, <2>3, <2>5, <2>6, <2>7
    <2>9. Until(v, S) # v
        <3>1. Len(SubSeq(v, 1, k)) = k
            BY <2>7, TakeIs DEF n
        <3>2. QED
            BY <2>7, <2>8, <3>1 DEF n
    <2>10. QED
        BY <2>7, <2>8, <2>9 DEF a, n
<1>7. QED
    BY <1>5, <1>6

\* What a parser keeps of a word, one byte more.
LEMMA KeptMore ==
    ASSUME NEW kind \in Kinds, NEW v \in Seq(Byte), NEW c \in Byte
    PROVE  /\ KeptOf(v, kind) \in Seq(Byte) /\ KeptOf(<<>>, kind) = <<>>
           /\ KeptOf(Append(v, c), kind) =
                IF c \in Kept(kind) THEN Append(KeptOf(v, kind), c) ELSE KeptOf(v, kind)
<1> DEFINE one == <<c>>
           F == [d \in Byte |-> IF d \in Kept(kind) THEN <<d>> ELSE << >>]
<1>1. TextMap(F, Byte, Byte) /\ F \in [Byte -> Seq(Byte)]
    BY Joins DEF TextMap
<1>2. F[c] = IF c \in Kept(kind) THEN <<c>> ELSE << >>
    OBVIOUS
<1>3. one \in Seq(Byte) /\ Append(v, c) = v \o one /\ v \o one \in Seq(Byte) /\ << >> \in Seq(Byte)
    BY AppendIsConcat, Joins
<1>4. ASSUME NEW x \in Seq(Byte)
      PROVE  KeptOf(x, kind) = TextOf(F, x)
    <2>1. DOMAIN x = 1 .. Len(x) /\ \A i \in 1 .. Len(x) : x[i] \in Byte
        BY LenProperties, ElementOfSeq
    <2>2. \A i \in DOMAIN x : F[x[i]] = IF x[i] \in Kept(kind) THEN <<x[i]>> ELSE << >>
        BY <2>1
    <2> HIDE DEF F
    <2>3. [i \in DOMAIN x |-> F[x[i]]]
             = [i \in DOMAIN x |-> IF x[i] \in Kept(kind) THEN <<x[i]>> ELSE << >>]
        BY <2>2, Zenon
    <2>4. QED
        BY <2>3, Zenon DEF TextOf, KeptOf
<1> HIDE DEF F, one
<1>5. TextOf(F, v) \in Seq(Byte) /\ TextOf(F, v \o one) = TextOf(F, v) \o TextOf(F, one)
    <2> DEFINE D == Byte
    <2>1. TextMap(F, D, Byte) /\ v \in Seq(D) /\ one \in Seq(D)
        BY <1>1, <1>3
    <2> HIDE DEF D
    <2>2. QED
        BY <2>1, TextsJoin
<1>6. TextOf(F, <<>>) = <<>> /\ TextOf(F, one) = F[c]
    BY <1>1, TextOfFew DEF one
<1>7. KeptOf(v, kind) \in Seq(Byte) /\ KeptOf(<<>>, kind) = <<>>
      /\ KeptOf(v \o one, kind) = KeptOf(v, kind) \o F[c]
    BY <1>3, <1>4, <1>5, <1>6
<1>8. CASE c \in Kept(kind)
    BY <1>2, <1>3, <1>7, <1>8, AppendIsConcat
<1>9. CASE c \notin Kept(kind)
    BY <1>2, <1>3, <1>7, <1>9, Joins
<1>10. QED
    BY <1>8, <1>9

\* The first few, one byte more.
LEMMA FirstMore ==
    ASSUME NEW v \in Seq(Byte), NEW c \in Byte, NEW n \in Nat
    PROVE  /\ First(v, n) \in Seq(Byte) /\ Len(First(v, n)) <= n
           /\ Len(First(v, n)) < n <=> Len(v) < n
           /\ Len(v) <= n => First(v, n) = v
           /\ First(Append(v, c), n) = IF Len(v) < n THEN Append(First(v, n), c) ELSE First(v, n)
<1> DEFINE l == Len(v)
           k == IF l < n THEN l ELSE n
           a == Append(v, c)
           j == IF Len(a) < n THEN Len(a) ELSE n
<1>1. l \in Nat /\ k \in 0 .. l /\ a \in Seq(Byte) /\ Len(a) = l + 1 /\ SubSeq(v, 1, l) = v
    BY LenProperties, AppendProperties, SubSeqFull
<1>2. First(v, n) = SubSeq(v, 1, k) /\ First(a, n) = SubSeq(a, 1, j)
    BY DEF First
<1>3. \A i \in 0 .. l : SubSeq(a, 1, i) = SubSeq(v, 1, i)
    BY DropAppend
<1>4. SubSeq(v, 1, k) \in Seq(Byte) /\ Len(SubSeq(v, 1, k)) = k
    BY <1>1, TakeIs
<1>5. SubSeq(a, 1, l + 1) = a
    <2>1. SubSeq(a, 1, Len(a)) = a
        BY <1>1, SubSeqFull
    <2>2. QED
        BY <1>1, <2>1
<1> HIDE DEF l, a
<1>6. CASE l < n
    <2>1. k = l /\ j = l + 1
        BY <1>1, <1>6
    <2> HIDE DEF k, j
    <2>2. First(v, n) = v /\ First(a, n) = Append(v, c)
        BY <1>1, <1>2, <1>5, <2>1 DEF a
    <2>3. QED
        BY <1>1, <1>6, <2>2 DEF a, l
<1>7. CASE ~(l < n)
    <2>1. k = n /\ j = n /\ n \in 0 .. l /\ (l <= n => l = n)
        BY <1>1, <1>7
    <2> HIDE DEF k, j
    <2>2. First(a, n) = First(v, n) /\ Len(First(v, n)) = n /\ First(v, n) \in Seq(Byte)
        BY <1>2, <1>3, <1>4, <2>1
    <2>3. l <= n => First(v, n) = v
        BY <1>1, <1>2, <2>1
    <2>4. QED
        BY <1>1, <1>7, <2>2, <2>3 DEF a, l
<1>8. QED
    BY <1>6, <1>7

-----------------------------------------------------------------------------
(* A text read as a line, byte by byte                                     *)

\* The parts that Expected makes of a text: the line up to its end, the word
\* before the first space, what is behind that space, and the end.
TextIn(v) == Until(v, {"CR", "LF"})
WordIn(v) == Until(TextIn(v), {"SP"})
RestIn(v) == Drop(TextIn(v), Len(WordIn(v)) + 1)
EndIn(v)  == Drop(v, Len(TextIn(v)))

\* They are parts.
LEMMA PartsAre ==
    ASSUME NEW v \in Seq(Byte)
    PROVE  /\ TextIn(v) \in Seq(Byte) /\ WordIn(v) \in Seq(Byte)
           /\ RestIn(v) \in Seq(Byte) /\ EndIn(v) \in Seq(Byte)
           /\ Len(v) \in Nat /\ Len(TextIn(v)) \in 0 .. Len(v)
           /\ TextIn(v) = v <=> Len(TextIn(v)) = Len(v)
           /\ EndIn(v) = <<>> <=> TextIn(v) = v
           /\ Len(WordIn(v)) \in 0 .. Len(TextIn(v))
           /\ WordIn(v) = TextIn(v) <=> Len(WordIn(v)) = Len(TextIn(v))
           /\ WordIn(v) = TextIn(v) => RestIn(v) = <<>>
<1>1. \A x \in Seq(Byte) : \A S :
         /\ Len(x) \in Nat /\ Until(x, S) \in Seq(Byte) /\ Len(Until(x, S)) \in 0 .. Len(x)
         /\ Until(x, S) = x <=> Len(Until(x, S)) = Len(x)
    <2>1. SUFFICES ASSUME NEW x \in Seq(Byte), NEW S
          PROVE  /\ Len(x) \in Nat /\ Until(x, S) \in Seq(Byte) /\ Len(Until(x, S)) \in 0 .. Len(x)
                 /\ Until(x, S) = x <=> Len(Until(x, S)) = Len(x)
        OBVIOUS
    <2>2. "NUL" \in Byte
        BY BytesAre
    <2>3. PICK k \in 0 .. Len(x) : Until(x, S) = SubSeq(x, 1, k)
        BY <2>2, UntilMore
    <2>4. Until(x, S) \in Seq(Byte) /\ Len(Until(x, S)) = k /\ Len(x) \in Nat
        BY <2>3, TakeIs, LenProperties
    <2>5. k = Len(x) => Until(x, S) = x
        BY <2>3, SubSeqFull
    <2>6. QED
        BY <2>4, <2>5
<1> DEFINE t == TextIn(v)
           w == WordIn(v)
<1>2. /\ t \in Seq(Byte) /\ Len(v) \in Nat /\ Len(t) \in 0 .. Len(v) /\ Len(t) \in Nat
      /\ t = v <=> Len(t) = Len(v)
    BY <1>1 DEF TextIn
<1>3. w \in Seq(Byte) /\ Len(w) \in 0 .. Len(t) /\ (w = t <=> Len(w) = Len(t))
    BY <1>1, <1>2 DEF WordIn
<1> HIDE DEF t, w
<1>4. EndIn(v) \in Seq(Byte) /\ Len(EndIn(v)) = Len(v) - Len(t)
    BY <1>2, DropIs DEF EndIn, t
<1>5. EndIn(v) = <<>> <=> Len(v) - Len(t) = 0
    BY <1>4, EmptySeq
<1>6. CASE Len(w) = Len(t)
    <2>1. SubSeq(t, Len(t) + 2, Len(t)) = <<>>
        BY <1>2, SubSeqEmpty
    <2>2. RestIn(v) = SubSeq(t, (Len(w) + 1) + 1, Len(t))
        BY DEF RestIn, Drop, t, w
    <2>3. (Len(w) + 1) + 1 = Len(t) + 2
        BY <1>2, <1>6
    <2>4. RestIn(v) = <<>> /\ RestIn(v) \in Seq(Byte)
        BY <2>1, <2>2, <2>3, Joins
    <2>5. QED
        BY <1>2, <1>3, <1>4, <1>5, <2>4 DEF t, w
<1>7. CASE Len(w) # Len(t)
    <2>1. Len(w) + 1 \in 0 .. Len(t)
        BY <1>2, <1>3, <1>7
    <2>2. RestIn(v) \in Seq(Byte)
        BY <1>2, <2>1, DropIs DEF RestIn, t, w
    <2>3. QED
        BY <1>2, <1>3, <1>4, <1>5, <1>7, <2>2 DEF t, w
<1>8. QED
    BY <1>6, <1>7

\* One byte more: behind the line; the end of it; the argument; the space; the
\* word.
LEMMA PartsMore ==
    ASSUME NEW v \in Seq(Byte), NEW c \in Byte
    PROVE  LET a == Append(v, c) IN
           /\ TextIn(v) # v \/ c \in {"CR", "LF"} =>
                /\ TextIn(a) = TextIn(v) /\ WordIn(a) = WordIn(v) /\ RestIn(a) = RestIn(v)
                /\ TextIn(a) # a
                /\ EndIn(a) = Append(EndIn(v), c)
           /\ TextIn(v) = v /\ c \notin {"CR", "LF"} => TextIn(a) = a /\ EndIn(a) = <<>>
           /\ TextIn(v) = v /\ c \notin {"CR", "LF"} /\ WordIn(v) # v =>
                WordIn(a) = WordIn(v) /\ WordIn(a) # a /\ RestIn(a) = Append(RestIn(v), c)
           /\ TextIn(v) = v /\ WordIn(v) = v /\ c = "SP" =>
                WordIn(a) = WordIn(v) /\ WordIn(a) # a /\ RestIn(a) = <<>>
           /\ TextIn(v) = v /\ WordIn(v) = v /\ c \notin {"SP", "CR", "LF"} =>
                WordIn(a) = a /\ RestIn(a) = <<>>
<1> DEFINE a == Append(v, c)
           t == TextIn(v)
           w == WordIn(v)
<1>1. a \in Seq(Byte) /\ Len(a) = Len(v) + 1 /\ Len(v) \in Nat
    BY AppendProperties, LenProperties
<1>2. /\ Len(t) \in 0 .. Len(v) /\ (t = v <=> Len(t) = Len(v))
      /\ Len(w) \in 0 .. Len(t) /\ (w = t <=> Len(w) = Len(t))
      /\ EndIn(v) = <<>> <=> t = v
    BY PartsAre
<1>3. /\ t = v /\ c \notin {"CR", "LF"} => TextIn(a) = a
      /\ ~(t = v /\ c \notin {"CR", "LF"}) => TextIn(a) = t
    BY UntilMore DEF TextIn
<1>4. ASSUME t = v, c \notin {"CR", "LF"}
      PROVE  /\ w = v /\ c # "SP" => WordIn(a) = a
             /\ ~(w = v /\ c # "SP") => WordIn(a) = w
    <2>1. WordIn(a) = Until(a, {"SP"}) /\ w = Until(v, {"SP"})
        BY <1>3, <1>4 DEF WordIn
    <2>2. QED
        BY <2>1, UntilMore
<1> HIDE DEF t, w, a
<1>5. ASSUME ~(t = v /\ c \notin {"CR", "LF"})
      PROVE  /\ TextIn(a) = t /\ WordIn(a) = w /\ RestIn(a) = RestIn(v) /\ TextIn(a) # a
             /\ EndIn(a) = Append(EndIn(v), c)
    <2>1. TextIn(a) = t
        BY <1>3, <1>5
    <2>2. WordIn(a) = w /\ RestIn(a) = RestIn(v)
        BY <2>1 DEF WordIn, RestIn, w, t
    <2>3. TextIn(a) # a
        <3>1. Len(t) # Len(a)
            BY <1>1, <1>2
        <3>2. QED
            BY <2>1, <3>1
    <2>4. Drop(a, Len(t)) = Append(Drop(v, Len(t)), c)
        BY <1>2, DropAppend DEF a
    <2>5. QED
        BY <2>1, <2>2, <2>3, <2>4 DEF EndIn, t
<1>6. ASSUME t = v, c \notin {"CR", "LF"}
      PROVE  TextIn(a) = a /\ EndIn(a) = <<>>
    BY <1>1, <1>3, <1>6, PartsAre
<1>7. ASSUME t = v, c \notin {"CR", "LF"}, w # v
      PROVE  WordIn(a) = w /\ WordIn(a) # a /\ RestIn(a) = Append(RestIn(v), c)
    <2>1. WordIn(a) = w /\ TextIn(a) = a
        BY <1>3, <1>4, <1>7
    <2>2. Len(w) # Len(a) /\ Len(w) + 1 \in 0 .. Len(v)
        BY <1>1, <1>2, <1>7
    <2>3. Drop(a, Len(w) + 1) = Append(Drop(v, Len(w) + 1), c)
        BY <2>2, DropAppend DEF a
    <2>4. RestIn(a) = Drop(a, Len(w) + 1) /\ RestIn(v) = Drop(v, Len(w) + 1)
        BY <1>7, <2>1 DEF RestIn, w, t
    <2>5. QED
        BY <2>1, <2>2, <2>3, <2>4
<1>8. ASSUME t = v, w = v, c = "SP"
      PROVE  WordIn(a) = w /\ WordIn(a) # a /\ RestIn(a) = <<>>
    <2>1. WordIn(a) = w /\ TextIn(a) = a
        BY <1>3, <1>4, <1>8
    <2>2. Len(w) # Len(a) /\ Len(w) + 1 = Len(a) /\ Len(a) \in 0 .. Len(a)
        BY <1>1, <1>8
    <2>3. Drop(a, Len(a)) \in Seq(Byte) /\ Len(Drop(a, Len(a))) = Len(a) - Len(a)
        BY <1>1, <2>2, DropIs
    <2>4. Drop(a, Len(a)) = <<>>
        BY <1>1, <2>3, EmptySeq
    <2>5. QED
        BY <2>1, <2>2, <2>4 DEF RestIn
<1>9. ASSUME t = v, w = v, c \notin {"SP", "CR", "LF"}
      PROVE  WordIn(a) = a /\ RestIn(a) = <<>>
    <2>1. WordIn(a) = a /\ TextIn(a) = a
        BY <1>3, <1>4, <1>9
    <2>2. QED
        BY <1>1, <2>1, PartsAre
<1>10. QED
    BY <1>5, <1>6, <1>7, <1>8, <1>9 DEF t, w, a

\* What is wrong with a text
Over(v)  == Len(RestIn(v)) > MAX_ARG_LEN
Bare(v)  == EndIn(v) # << >> /\ EndIn(v)[1] = "LF"
Ended(v) == Bare(v) \/ Len(EndIn(v)) > 1
Wrong(v) == IF Over(v) THEN "INVALID_ARG"
            ELSE IF Bare(v) \/ (Ended(v) /\ EndIn(v)[2] # "LF") THEN "INVALID_CHAR"
            ELSE "NO_ERROR"

\* What the automaton is at when it has read a text and not stopped
Stage(v) == IF TextIn(v) # v THEN "S2" ELSE IF WordIn(v) # TextIn(v) THEN "S1" ELSE "S0"

\* A text is expected to be the line that its parts make.
LEMMA ExpectedIs ==
    ASSUME NEW v \in Seq(Byte), NEW kind \in Kinds
    PROVE  Expected(v, kind) = [cmd   |-> First(KeptOf(WordIn(v), kind), CmdLen(kind)),
                                arg   |-> First(RestIn(v), MAX_ARG_LEN),
                                ended |-> Ended(v) /\ ~Over(v),
                                err   |-> Wrong(v)]
<1> DEFINE rest == SubSeq(TextIn(v), Len(WordIn(v)) + 2, Len(TextIn(v)))
           end  == SubSeq(v, Len(TextIn(v)) + 1, Len(v))
<1>1. RestIn(v) = rest
    <2>1. Len(WordIn(v)) \in Nat
        BY PartsAre, LenProperties
    <2>2. (Len(WordIn(v)) + 1) + 1 = Len(WordIn(v)) + 2
        BY <2>1
    <2>3. QED
        BY <2>2 DEF RestIn, Drop
<1>2. EndIn(v) = end
    BY DEF EndIn, Drop
<1>3. Expected(v, kind) =
         [cmd   |-> First(KeptOf(WordIn(v), kind), CmdLen(kind)),
          arg   |-> First(rest, MAX_ARG_LEN),
          ended |-> ((end # << >> /\ end[1] = "LF") \/ Len(end) > 1) /\ ~(Len(rest) > MAX_ARG_LEN),
          err   |-> IF Len(rest) > MAX_ARG_LEN THEN "INVALID_ARG"
                    ELSE IF (end # << >> /\ end[1] = "LF")
                            \/ (((end # << >> /\ end[1] = "LF") \/ Len(end) > 1) /\ end[2] # "LF")
                         THEN "INVALID_CHAR" ELSE "NO_ERROR"]
    BY Zenon DEF Expected, TextIn, WordIn
<1> HIDE DEF rest, end
<1>4. QED
    BY <1>1, <1>2, <1>3, Zenon DEF Over, Bare, Ended, Wrong

-----------------------------------------------------------------------------
(* What a new parser makes of a text                                       *)

\* p has made of a text the line it is, and is ready for what comes next.
Reads(p, v, kind) ==
    /\ p \in Parser
    /\ p.cmd = First(KeptOf(WordIn(v), kind), CmdLen(kind))
    /\ p.arg = First(RestIn(v), MAX_ARG_LEN)
    /\ p.ended = (Ended(v) /\ ~Over(v))
    /\ p.err = Wrong(v)
    /\ ~Stopped(p) => p.state = Stage(v)

\* It has stopped where the text says so.
LEMMA StoppedIs ==
    ASSUME NEW kind \in Kinds, NEW v \in Seq(Byte), NEW p, Reads(p, v, kind)
    PROVE  Stopped(p) <=> Over(v) \/ Ended(v)
BY DEF Reads, Stopped, Wrong, Ended, Bare

\* Once it has, the text says the same with every byte behind it.
LEMMA NothingMore ==
    ASSUME NEW kind \in Kinds, NEW v \in Seq(Byte), NEW c \in Byte, NEW p,
           Reads(p, v, kind), Stopped(p)
    PROVE  Reads(p, Append(v, c), kind)
<1> DEFINE a == Append(v, c)
           w == WordIn(v)
           r == RestIn(v)
           e == EndIn(v)
<1>1. Over(v) \/ Ended(v)
    BY StoppedIs
<1>2. /\ r \in Seq(Byte) /\ e \in Seq(Byte) /\ Len(r) \in Nat /\ Len(e) \in Nat
      /\ (e = <<>> <=> TextIn(v) = v) /\ (w = TextIn(v) => r = <<>>)
    BY PartsAre, LenProperties
<1>3. MAX_ARG_LEN \in Nat
    BY LengthsAssumption
<1>4. SUFFICES /\ WordIn(a) = w /\ First(RestIn(a), MAX_ARG_LEN) = First(r, MAX_ARG_LEN)
               /\ (Ended(a) /\ ~Over(a)) = (Ended(v) /\ ~Over(v))
               /\ Wrong(a) = Wrong(v)
    BY DEF Reads
<1>5. CASE TextIn(v) # v \/ c \in {"CR", "LF"}
    <2>1. WordIn(a) = w /\ RestIn(a) = r /\ EndIn(a) = Append(e, c)
        BY <1>5, PartsMore
    <2>2. Over(a) <=> Over(v)
        BY <2>1 DEF Over
    <2>3. CASE Over(v)
        BY <2>1, <2>2, <2>3 DEF Wrong
    <2>4. CASE ~Over(v)
        <3>1. Ended(v) /\ e # <<>> /\ Len(e) # 0
            <4>1. Ended(v)
                BY <1>1, <2>4
            <4>2. e = <<>> => Len(e) = 0
                BY EmptySeq
            <4>3. e # <<>>
                BY <4>1, <4>2 DEF Ended, Bare
            <4>4. QED
                BY <1>2, <4>1, <4>3, EmptySeq
        <3> HIDE DEF e
        <3> DEFINE f == Append(e, c)
        <3>2. f \in Seq(Byte) /\ Len(f) = Len(e) + 1 /\ \A i \in 1 .. Len(e) : f[i] = e[i]
            BY <1>2, AppendProperties
        <3> HIDE DEF f
        <3>3. f[1] = e[1] /\ Len(f) > 1 /\ f # <<>> /\ (Len(e) > 1 => f[2] = e[2])
            <4>1. 1 \in 1 .. Len(e) /\ (Len(e) > 1 => 2 \in 1 .. Len(e)) /\ Len(f) > 1
                BY <1>2, <3>1, <3>2
            <4>2. f # <<>>
                BY <3>2, <4>1, EmptySeq
            <4>3. QED
                BY <3>2, <4>1, <4>2
        <3>4. EndIn(a) = f /\ EndIn(v) = e
            BY <2>1 DEF f, e
        <3>5. (Bare(a) <=> Bare(v)) /\ Ended(a)
            BY <3>1, <3>3, <3>4 DEF Bare, Ended
        <3>6. ~Bare(v) => Len(e) > 1
            BY <3>1, <3>4 DEF Ended
        <3>7. Wrong(a) = Wrong(v)
            BY <2>2, <2>4, <3>1, <3>3, <3>4, <3>5, <3>6 DEF Wrong
        <3>8. QED
            BY <2>1, <2>2, <3>1, <3>5, <3>7
    <2>5. QED
        BY <2>3, <2>4
<1>6. CASE TextIn(v) = v /\ c \notin {"CR", "LF"}
    <2>1. Over(v)
        <3>1. e = <<>> /\ Len(e) = 0
            BY <1>2, <1>6, EmptySeq
        <3>2. ~Ended(v)
            BY <3>1 DEF Ended, Bare
        <3>3. QED
            BY <1>1, <3>2
    <2>2. w # v
        <3>1. r # <<>>
            BY <1>3, <2>1, EmptySeq DEF Over
        <3>2. QED
            BY <1>2, <1>6, <3>1
    <2>3. WordIn(a) = w /\ RestIn(a) = Append(r, c)
        BY <1>6, <2>2, PartsMore
    <2>4. ~(Len(r) < MAX_ARG_LEN) /\ Len(Append(r, c)) = Len(r) + 1
        BY <1>2, <1>3, <2>1, AppendProperties DEF Over
    <2>5. First(RestIn(a), MAX_ARG_LEN) = First(r, MAX_ARG_LEN)
        BY <1>2, <1>3, <2>3, <2>4, FirstMore
    <2>6. Over(a)
        BY <1>2, <1>3, <2>1, <2>3, <2>4 DEF Over
    <2>7. QED
        BY <2>1, <2>3, <2>5, <2>6 DEF Wrong
<1>7. QED
    BY <1>5, <1>6

\* Before, every byte makes of it what it makes of the text.
LEMMA OneMore ==
    ASSUME NEW kind \in Kinds, NEW v \in Seq(Byte), NEW c \in Activators, NEW p,
           Reads(p, v, kind), ~Stopped(p)
    PROVE  Reads(process_char(p, kind, c), Append(v, c), kind)
<1> DEFINE x == Append(v, c)
           t == TextIn(v)
           w == WordIn(v)
           r == RestIn(v)
           e == EndIn(v)
           a == First(KeptOf(w, kind), CmdLen(kind))
           g == First(r, MAX_ARG_LEN)
           q == process_char(p, kind, c)
           new == First(KeptOf(WordIn(x), kind), CmdLen(kind))
           arg == First(RestIn(x), MAX_ARG_LEN)
<1>1. c \in Byte
    BY BytesAre
<1>2. ~Over(v) /\ ~Ended(v) /\ ~Bare(v)
    BY StoppedIs DEF Ended
<1>3. /\ w \in Seq(Byte) /\ r \in Seq(Byte) /\ e \in Seq(Byte) /\ Len(r) \in Nat /\ Len(e) \in Nat
      /\ (e = <<>> <=> t = v) /\ (w = t => r = <<>>)
    BY PartsAre, LenProperties
<1>4. MAX_ARG_LEN \in Nat /\ CmdLen(kind) \in Nat
    BY LengthsAssumption DEF CmdLen
<1>5. a \in Seq(Byte) /\ g \in Seq(Byte) /\ KeptOf(w, kind) \in Seq(Byte)
      /\ (Len(r) < MAX_ARG_LEN <=> Len(g) < MAX_ARG_LEN) /\ g = r
    <2>1. KeptOf(w, kind) \in Seq(Byte)
        BY <1>1, <1>3, KeptMore
    <2>2. Len(r) <= MAX_ARG_LEN
        BY <1>2, <1>3, <1>4 DEF Over
    <2>3. QED
        BY <1>1, <1>3, <1>4, <2>1, <2>2, FirstMore
<1>6. p = Going(Stage(v), a, g)
    BY DEF Reads, Going, Parser, Stopped
<1>7. q \in Parser
    BY <1>1, ProcessCharTyped DEF Reads
<1> DEFINE over == Ended(x) /\ ~Over(x)
<1>8. SUFFICES /\ q.cmd = new /\ q.arg = arg
               /\ q.ended = over /\ q.err = Wrong(x)
               /\ ~Stopped(q) => q.state = Stage(x)
    BY <1>7 DEF Reads
<1>b. /\ ~(Len(r) > MAX_ARG_LEN)
      /\ Over(x) <=> Len(RestIn(x)) > MAX_ARG_LEN
    BY <1>2 DEF Over
<1>c. ~(Len(e) > 1) /\ (e # <<>> => e[1] # "LF")
    BY <1>2, Zenon DEF Ended, Bare
<1>d. ASSUME NEW f, EndIn(x) = f
      PROVE  /\ Bare(x) <=> f # << >> /\ f[1] = "LF"
             /\ Ended(x) <=> (f # << >> /\ f[1] = "LF") \/ Len(f) > 1
             /\ Wrong(x) = IF Over(x) THEN "INVALID_ARG"
                           ELSE IF Bare(x) \/ (Ended(x) /\ f[2] # "LF") THEN "INVALID_CHAR"
                           ELSE "NO_ERROR"
    BY <1>d, Zenon DEF Ended, Bare, Wrong
<1>e. /\ Ended(x) /\ ~Over(x) => over = TRUE
      /\ ~Ended(x) \/ Over(x) => over = FALSE
    OBVIOUS
<1> HIDE DEF x, t, w, r, e, a, g, q, new, arg, over
<1>9. CASE t # v
    <2>1. WordIn(x) = w /\ RestIn(x) = r /\ EndIn(x) = Append(e, c)
        BY <1>1, <1>9, PartsMore DEF x, t, w, r, e
    <2>2. Stage(v) = "S2"
        BY <1>9 DEF Stage, t
    <2>3. (c = "LF" => q = Complete(a, g)) /\ (c # "LF" => q = Failed(a, g))
        BY <1>5, <1>6, <2>2, Moves DEF q
    <2>4. Len(e) = 1 /\ e[1] # "LF"
        <3>1. e # <<>> /\ Len(e) # 0
            BY <1>3, <1>9, EmptySeq
        <3>2. e[1] # "LF"
            BY <1>c, <3>1, Zenon
        <3>3. ~(Len(e) > 1) /\ Len(e) \in Nat
            BY <1>3, <1>c
        <3>4. Len(e) = 1
            <4> DEFINE l == Len(e)
            <4>1. l \in Nat /\ ~(l > 1) /\ l # 0
                BY <3>1, <3>3
            <4> HIDE DEF l
            <4>2. l = 1
                BY <4>1
            <4>3. QED
                BY <4>2 DEF l
        <3>5. QED
            BY <3>2, <3>4, Zenon
    <2> DEFINE f == Append(e, c)
    <2>5. f \in Seq(Byte) /\ Len(f) = 2 /\ f[1] = e[1] /\ f[2] = c
        <3>1. f \in Seq(Byte) /\ Len(f) = Len(e) + 1 /\ (\A i \in 1 .. Len(e) : f[i] = e[i])
              /\ f[Len(e) + 1] = c
            BY <1>1, <1>3, AppendProperties
        <3> HIDE DEF f
        <3>2. QED
            BY <2>4, <3>1
    <2> HIDE DEF f
    <2>6. EndIn(x) = f
        BY <2>1 DEF f
    <2>7. ~Bare(x) /\ Ended(x) /\ ~Over(x)
        <3>1. ~Over(x)
            BY <1>b, <2>1
        <3>2. QED
            BY <1>d, <2>4, <2>5, <2>6, <3>1
    <2>8. Wrong(x) = IF c # "LF" THEN "INVALID_CHAR" ELSE "NO_ERROR"
        BY <1>d, <2>5, <2>6, <2>7
    <2>9. new = a /\ arg = g
        BY <2>1 DEF new, arg, a, g
    <2>10. over = TRUE
        BY <1>e, <2>7
    <2>11. CASE c = "LF"
        <3>1. q = Complete(a, g)
            BY <2>3, <2>11
        <3>2. QED
            BY <2>8, <2>9, <2>10, <2>11, <3>1 DEF Complete, Stopped
    <2>12. CASE c # "LF"
        <3>1. q = Failed(a, g)
            BY <2>3, <2>12
        <3>2. QED
            BY <2>8, <2>9, <2>10, <2>12, <3>1 DEF Failed, Stopped
    <2>13. QED
        BY <2>11, <2>12
<1>10. CASE t = v /\ c \in {"CR", "LF"}
    <2>1. WordIn(x) = w /\ RestIn(x) = r /\ EndIn(x) = Append(e, c) /\ TextIn(x) # x
        BY <1>1, <1>10, PartsMore DEF x, t, w, r, e
    <2>2. e = <<>>
        BY <1>3, <1>10
    <2> DEFINE f == <<c>>
    <2>3. f # <<>> /\ f[1] = c /\ Len(f) = 1 /\ Append(<<>>, c) = f
        OBVIOUS
    <2> HIDE DEF f
    <2>4. EndIn(x) = f
        BY <2>1, <2>2, <2>3
    <2>5. Stage(v) \in {"S0", "S1"}
        BY <1>10 DEF Stage, t
    <2>6. (c = "CR" => q = Going("S2", a, g)) /\ (c = "LF" => q = Failed(a, g))
        <3>1. CASE Stage(v) = "S0"
            BY <1>5, <1>6, <3>1, Moves DEF q
        <3>2. CASE Stage(v) = "S1"
            BY <1>5, <1>6, <3>2, Moves DEF q
        <3>3. QED
            BY <2>5, <3>1, <3>2
    <2>7. (Bare(x) <=> c = "LF") /\ (Ended(x) <=> c = "LF") /\ ~Over(x)
        <3>1. ~Over(x)
            BY <1>b, <2>1
        <3>2. QED
            BY <1>d, <2>3, <2>4, <3>1
    <2>8. Wrong(x) = IF c = "LF" THEN "INVALID_CHAR" ELSE "NO_ERROR"
        BY <1>d, <2>4, <2>7
    <2>9. new = a /\ arg = g /\ Stage(x) = "S2"
        BY <2>1 DEF new, arg, a, g, Stage
    <2>10. CASE c = "CR"
        <3>1. over = FALSE
            BY <1>e, <2>7, <2>10
        <3>2. q = Going("S2", a, g)
            BY <2>6, <2>10
        <3>3. QED
            BY <2>8, <2>9, <2>10, <3>1, <3>2 DEF Going
    <2>11. CASE c = "LF"
        <3>1. over = TRUE
            BY <1>e, <2>7, <2>11
        <3>2. q = Failed(a, g)
            BY <2>6, <2>11
        <3>3. QED
            BY <2>8, <2>9, <2>11, <3>1, <3>2 DEF Failed, Stopped
    <2>12. QED
        BY <1>10, <2>10, <2>11
<1>11. CASE t = v /\ c \notin {"CR", "LF"}
    <2>1. TextIn(x) = x /\ EndIn(x) = <<>>
        BY <1>1, <1>11, PartsMore DEF x, t
    <2>2. ~Bare(x) /\ ~Ended(x)
        <3> DEFINE f == EndIn(x)
        <3>1. f = <<>> /\ Len(f) = 0
            BY <2>1, EmptySeq
        <3>2. QED
            BY <3>1 DEF Bare, Ended
    <2>3. Wrong(x) = IF Over(x) THEN "INVALID_ARG" ELSE "NO_ERROR"
        BY <2>2 DEF Wrong
    <2>a. over = FALSE
        BY <1>e, <2>2
    <2>4. CASE w # v
        <3>1. WordIn(x) = w /\ WordIn(x) # x /\ RestIn(x) = Append(r, c)
            BY <1>1, <1>11, <2>4, PartsMore DEF x, t, w, r
        <3>2. Stage(v) = "S1" /\ Stage(x) = "S1"
            BY <1>11, <2>1, <2>4, <3>1 DEF Stage, t, w
        <3>3. new = a
            BY <3>1 DEF new, a
        <3>4. arg = (IF Len(r) < MAX_ARG_LEN THEN Append(g, c) ELSE g)
              /\ Len(RestIn(x)) = Len(r) + 1
            <4>1. Len(Append(r, c)) = Len(r) + 1
                BY <1>1, <1>3, AppendProperties
            <4>2. QED
                BY <1>1, <1>3, <1>4, <3>1, <4>1, FirstMore DEF arg, g
        <3>5. CASE Len(r) < MAX_ARG_LEN
            <4>1. q = Going("S1", a, Append(g, c))
                BY <1>5, <1>6, <1>11, <3>2, <3>5, Moves DEF q
            <4>2. ~Over(x)
                BY <1>3, <1>4, <1>b, <3>4, <3>5
            <4>3. QED
                BY <2>3, <2>a, <3>2, <3>3, <3>4, <3>5, <4>1, <4>2 DEF Going
        <3>6. CASE ~(Len(r) < MAX_ARG_LEN)
            <4>1. q = Overlong(a, g)
                BY <1>5, <1>6, <1>11, <3>2, <3>6, Moves DEF q
            <4>2. Over(x)
                BY <1>3, <1>4, <1>b, <3>4, <3>6
            <4>3. QED
                BY <2>3, <2>a, <3>3, <3>4, <3>6, <4>1, <4>2 DEF Overlong, Stopped
        <3>7. QED
            BY <3>5, <3>6
    <2>5. CASE w = v
        <3>1. Stage(v) = "S0" /\ RestIn(x) = <<>> /\ r = <<>>
            BY <1>1, <1>3, <1>11, <2>5, PartsMore DEF Stage, x, t, w
        <3>2. ~Over(x) /\ arg = g
            BY <1>b, <3>1 DEF arg, g
        <3>3. CASE c = "SP"
            <4>1. WordIn(x) = w /\ WordIn(x) # x
                BY <1>1, <1>11, <2>5, <3>3, PartsMore DEF x, t, w
            <4>2. Stage(x) = "S1" /\ new = a
                BY <2>1, <4>1 DEF Stage, new, a
            <4>3. q = Going("S1", a, g)
                <5>1. q = process_char(Going("S0", a, g), kind, c)
                    BY <1>6, <3>1 DEF q
                <5>2. QED
                    BY <1>5, <3>3, <5>1, Moves
            <4>4. QED
                BY <2>3, <2>a, <3>2, <4>2, <4>3 DEF Going
        <3>4. CASE c # "SP"
            <4> DEFINE more == IF c \in Kept(kind) /\ Len(a) < CmdLen(kind) THEN Append(a, c) ELSE a
            <4>1. WordIn(x) = Append(w, c) /\ WordIn(x) = x
                BY <1>1, <1>11, <2>5, <3>4, PartsMore DEF x, t, w
            <4>2. Stage(x) = "S0"
                BY <2>1, <4>1 DEF Stage
            <4>3. new = more
                <5>1. KeptOf(WordIn(x), kind)
                         = IF c \in Kept(kind) THEN Append(KeptOf(w, kind), c) ELSE KeptOf(w, kind)
                    BY <1>1, <1>3, <4>1, KeptMore
                <5>2. /\ Len(a) < CmdLen(kind) <=> Len(KeptOf(w, kind)) < CmdLen(kind)
                      /\ First(Append(KeptOf(w, kind), c), CmdLen(kind))
                           = IF Len(KeptOf(w, kind)) < CmdLen(kind) THEN Append(a, c) ELSE a
                    BY <1>1, <1>4, <1>5, FirstMore DEF a
                <5>3. a = First(KeptOf(w, kind), CmdLen(kind))
                    BY DEF a
                <5>4. CASE c \in Kept(kind)
                    BY <5>1, <5>2, <5>4 DEF new
                <5>5. CASE c \notin Kept(kind)
                    BY <5>1, <5>3, <5>5 DEF new
                <5>6. QED
                    BY <5>4, <5>5
            <4>4. q = Going("S0", more, g)
                <5>1. q = process_char(Going("S0", a, g), kind, c)
                    BY <1>6, <3>1 DEF q
                <5>2. QED
                    BY <1>5, <1>11, <3>4, <5>1, Moves
            <4> HIDE DEF more
            <4>5. QED
                BY <2>3, <2>a, <3>2, <4>2, <4>3, <4>4 DEF Going
        <3>5. QED
            BY <3>3, <3>4
    <2>6. QED
        BY <2>4, <2>5
<1>12. QED
    BY <1>9, <1>10, <1>11

\* At first it has read nothing.
LEMMA NothingRead ==
    ASSUME NEW kind \in Kinds
    PROVE  Reads(init_parser, <<>>, kind)
<1> DEFINE v == <<>>
<1>1. v \in Seq(Byte) /\ Len(v) = 0 /\ "NUL" \in Byte
    BY Joins, BytesAre
<1>2. v = <<>>
    OBVIOUS
<1>3. MAX_ARG_LEN \in Nat /\ CmdLen(kind) \in Nat
    BY LengthsAssumption DEF CmdLen
<1> HIDE DEF v
<1>4. /\ TextIn(v) \in Seq(Byte) /\ WordIn(v) \in Seq(Byte)
      /\ Len(TextIn(v)) \in 0 .. Len(v)
      /\ TextIn(v) = v <=> Len(TextIn(v)) = Len(v)
      /\ EndIn(v) = <<>> <=> TextIn(v) = v
      /\ Len(WordIn(v)) \in 0 .. Len(TextIn(v))
      /\ WordIn(v) = TextIn(v) <=> Len(WordIn(v)) = Len(TextIn(v))
      /\ WordIn(v) = TextIn(v) => RestIn(v) = <<>>
    BY <1>1, PartsAre
<1>5. Len(TextIn(v)) = 0 /\ Len(WordIn(v)) = 0
    BY <1>1, <1>4
<1>6. TextIn(v) = v /\ WordIn(v) = v /\ RestIn(v) = v /\ EndIn(v) = v
    BY <1>1, <1>2, <1>4, <1>5
<1>7. ~Over(v) /\ ~Bare(v) /\ ~Ended(v)
    <2>1. ~Over(v)
        BY <1>1, <1>3, <1>6 DEF Over
    <2>2. ~Bare(v) /\ ~Ended(v)
        BY <1>1, <1>2, <1>6 DEF Bare, Ended
    <2>3. QED
        BY <2>1, <2>2
<1>8. Wrong(v) = "NO_ERROR" /\ Stage(v) = "S0"
    BY <1>6, <1>7 DEF Wrong, Stage
<1>9. KeptOf(v, kind) = v
    BY <1>1, <1>2, KeptMore
<1>10. ASSUME NEW n \in Nat PROVE First(v, n) = v
    <2>1. Len(v) <= n
        BY <1>1
    <2>2. QED
        BY <1>1, <2>1, FirstMore
<1>a. First(v, CmdLen(kind)) = v /\ First(v, MAX_ARG_LEN) = v
    BY <1>3, <1>10
<1>11. /\ init_parser \in Parser /\ init_parser.cmd = v /\ init_parser.arg = v
       /\ init_parser.ended = FALSE /\ init_parser.err = "NO_ERROR" /\ init_parser.state = "S0"
    BY <1>2, NewParserIs DEF init_parser
<1>12. (Ended(v) /\ ~Over(v)) = FALSE
    BY <1>7
<1>13. Reads(init_parser, v, kind)
    BY <1>6, <1>8, <1>9, <1>11, <1>12, <1>a DEF Reads
<1>14. QED
    BY <1>2, <1>13

\* In the end it has read all of it.
LEMMA AllRead ==
    ASSUME NEW n \in Nat, NEW kind \in Kinds, NEW b \in Buffer(Byte, n),
           Unread(b) \in Seq(Activators), NEW f, Run(f, n, kind, init_parser, b)
    PROVE  Reads(parse(init_parser, kind, b).parser, Unread(b), kind)
<1> DEFINE w == Unread(b)
           m == Len(w)
           Begun(k) == SubSeq(w, 1, k)
           T == {k \in 0 .. m : ~Reads(f[k].parser, Begun(k), kind)}
<1>1. /\ f[0] = [parser |-> init_parser, buffer |-> b]
      /\ Follows(f, kind, w, m) /\ parse(init_parser, kind, b) = f[m]
    BY Zenon DEF Run
<1>2. m \in Nat /\ w \in Seq(Byte) /\ \A i \in 1 .. m : w[i] \in Activators
    <2>1. w \in Seq(Byte)
        BY BufferIs
    <2>2. QED
        BY <2>1, LenProperties, ElementOfSeq
<1>3. Begun(m) = w
    BY <1>2, SubSeqFull
<1>4. ASSUME NEW k \in 0 .. m - 1, Reads(f[k].parser, Begun(k), kind)
      PROVE  Reads(f[k + 1].parser, Begun(k + 1), kind)
    <2> DEFINE p == f[k].parser
               v == Begun(k)
               c == w[k + 1]
    <2>1. k + 1 \in 1 .. m /\ k \in 0 .. m /\ (k + 1) - 1 = k
        BY <1>2
    <2>2. c \in Activators /\ c \in Byte
        BY <1>2, <2>1, BytesAre
    <2>3. v \in Seq(Byte)
        BY <1>2, <2>1, TakeIs
    <2>4. Begun(k + 1) = Append(v, c)
        BY <1>2, TakeOneMore
    <2>5. f[k + 1] = Fed(f[k], kind, c)
        BY <1>1, <2>1 DEF Follows
    <2>6. f[k + 1].parser = IF Stopped(p) THEN p ELSE process_char(p, kind, c)
        <3> DEFINE d == f[k]
                   old == [parser |-> process_char(d.parser, kind, c),
                           buffer |-> buffer_read_adv(d.buffer, 1)]
        <3>1. Fed(d, kind, c) = IF Stopped(d.parser) THEN d ELSE old
            BY Zenon DEF Fed
        <3>2. old.parser = process_char(d.parser, kind, c)
            OBVIOUS
        <3> HIDE DEF old
        <3>3. QED
            BY <2>5, <3>1, <3>2
    <2>7. Reads(p, v, kind)
        BY <1>4
    <2> HIDE DEF p, v, c, w, m, Begun
    <2>8. CASE Stopped(p)
        BY <2>2, <2>3, <2>4, <2>6, <2>7, <2>8, NothingMore
    <2>9. CASE ~Stopped(p)
        BY <2>2, <2>3, <2>4, <2>6, <2>7, <2>9, OneMore
    <2>10. QED
        BY <2>8, <2>9
<1>5. T = {}
    <2>1. SUFFICES ASSUME T # {} PROVE FALSE
        OBVIOUS
    <2>2. T \subseteq Nat
        OBVIOUS
    <2>3. PICK k \in T : \A y \in T : k <= y
        BY <2>1, <2>2, LeastNumber
    <2>4. k \in 0 .. m /\ ~Reads(f[k].parser, Begun(k), kind)
        OBVIOUS
    <2>5. k # 0
        <3>1. f[0].parser = init_parser
            BY <1>1
        <3>2. Begun(0) = <<>>
            BY SubSeqEmpty, <1>2
        <3>3. Reads(f[0].parser, Begun(0), kind)
            BY <3>1, <3>2, NothingRead
        <3>4. QED
            BY <2>4, <3>3
    <2> DEFINE i == k - 1
    <2>6. i \in 0 .. m - 1 /\ i \in 0 .. m /\ i + 1 = k /\ ~(k <= i)
        BY <1>2, <2>4, <2>5
    <2>7. Reads(f[i].parser, Begun(i), kind)
        BY <2>3, <2>6
    <2> HIDE DEF i, T, m, Begun
    <2>8. Reads(f[i + 1].parser, Begun(i + 1), kind)
        BY <1>4, <2>6, <2>7
    <2>9. QED
        BY <2>4, <2>6, <2>8
<1>6. m \in 0 .. m
    BY <1>2
<1>7. Reads(f[m].parser, Begun(m), kind)
    BY <1>5, <1>6
<1>8. QED
    BY <1>1, <1>3, <1>7

\* A buffer with a text in it.
LEMMA ReceivedIs ==
    ASSUME NEW n \in Nat, NEW w \in Seq(Byte), Len(w) <= n
    PROVE  /\ buffer_init(n, "NUL") \in Buffer(Byte, n) /\ Room(buffer_init(n, "NUL")) = n
           /\ Received(w, n) \in Buffer(Byte, n)
           /\ Unread(Received(w, n)) = w
<1> DEFINE b == buffer_init(n, "NUL")
<1>1. "NUL" \in Byte
    BY BytesAre
<1>2. b \in Buffer(Byte, n) /\ b.read = 0 /\ b.write = 0
    BY <1>1, NewBufferIs
<1> HIDE DEF b
<1>3. b.limit = n /\ Unread(b) = <<>>
    BY <1>2, BufferIs, NothingToRead
<1>4. Room(b) = n
    BY <1>2, <1>3 DEF Room
<1>5. Filled(b, w) \in Buffer(Byte, n) /\ Unread(Filled(b, w)) = Unread(b) \o w
    BY <1>2, <1>4, FilledIs
<1>6. Unread(b) \o w = w
    BY <1>3, Joins
<1>7. QED
    BY <1>2, <1>4, <1>5, <1>6 DEF Received, b

\* A new parser of any of the three kinds makes of a text of any length, over
\* all the bytes of its tables, the line that Expected says it is: its command
\* and its argument cut, and whether it is over and what is wrong with it.
THEOREM LinesAreRead ==
    ASSUME NEW kind \in Kinds, NEW w \in Seq(Activators), NEW n \in Nat, Len(w) <= n
    PROVE  Line(parse(init_parser, kind, Received(w, n)).parser) = Expected(w, kind)
<1> DEFINE b == Received(w, n)
           p == parse(init_parser, kind, b).parser
<1>1. w \in Seq(Byte)
    <2>1. Activators \subseteq Byte
        BY BytesAre
    <2>2. QED
        BY <2>1
<1>2. b \in Buffer(Byte, n) /\ Unread(b) = w
    BY <1>1, ReceivedIs
<1> HIDE DEF b
<1>3. init_parser \in Parser
    BY NewParserIs
<1>4. PICK f : Run(f, n, kind, init_parser, b)
    BY <1>2, <1>3, RunIsThere
<1>5. Reads(p, w, kind)
    BY <1>2, <1>4, AllRead
<1>6. Expected(w, kind) = [cmd   |-> First(KeptOf(WordIn(w), kind), CmdLen(kind)),
                           arg   |-> First(RestIn(w), MAX_ARG_LEN),
                           ended |-> Ended(w) /\ ~Over(w),
                           err   |-> Wrong(w)]
    BY <1>1, ExpectedIs
<1> HIDE DEF p
<1>7. Line(p) = Expected(w, kind)
    BY <1>5, <1>6, Zenon DEF Line, Reads
<1>8. QED
    BY <1>7 DEF p, b

\* Until a line has been sent the connection is as it began.
Fresh ==
    asked = <<>> =>
        toServer = <<>> /\ client # "closed" /\ interest = "READ" /\ parser = init_parser

\* Nothing but a line reaches the parser.
LEMMA FreshStays ==
    /\ Init => Fresh
    /\ Inv /\ Fresh /\ [Next]_vars => Fresh'
<1>1. ASSUME Init PROVE Fresh
    <2>1. SUFFICES ASSUME asked = <<>> PROVE toServer = <<>>
        BY <1>1, <2>1 DEF Init, Fresh
    <2>2. BytesOf(<<>>) = <<>>
        BY LinesFew
    <2>3. toServer = BytesOf(asked)
        BY <1>1 DEF Init, BytesOf
    <2>4. QED
        BY <2>1, <2>2, <2>3
<1>2. ASSUME Inv, Fresh, [Next]_vars PROVE Fresh'
    <2>1. asked \in Seq(Command)
        BY <1>2 DEF Inv, Typed
    <2>2. ASSUME NEW line, asked' = Append(asked, line) PROVE Fresh'
        <3>1. asked' # <<>>
            BY <2>1, <2>2
        <3>2. QED
            BY <3>1 DEF Fresh
    <2>3. CASE send_cmd
        BY <2>2, <2>3 DEF send_cmd
    <2>4. CASE cmd_quit
        BY <2>2, <2>4 DEF cmd_quit
    <2>5. CASE recv_cmd
        <3>1. client' # "closed"
            BY <2>5 DEF recv_cmd
        <3>2. UNCHANGED <<asked, toServer, interest, parser>>
            BY <2>5 DEF recv_cmd, serverVars
        <3>3. QED
            BY <1>2, <3>1, <3>2 DEF Fresh
    <2>6. CASE handleMonitorRead
        <3>1. asked' = asked /\ (toServer # << >> \/ client = "closed")
            BY <2>6 DEF handleMonitorRead, clientVars
        <3>2. QED
            BY <1>2, <3>1 DEF Fresh
    <2>7. CASE continue_sending
        <3>1. asked' = asked /\ interest = "WRITE"
            BY <2>7 DEF continue_sending, clientVars
        <3>2. QED
            BY <1>2, <3>1 DEF Fresh
    <2>8. CASE handleMonitorWrite
        <3>1. asked' = asked /\ interest = "WRITE"
            BY <2>8 DEF handleMonitorWrite, clientVars
        <3>2. QED
            BY <1>2, <3>1 DEF Fresh
    <2>9. CASE UNCHANGED vars
        BY <1>2, <2>9 DEF Fresh, vars
    <2>10. QED
        BY <1>2, <2>3, <2>4, <2>5, <2>6, <2>7, <2>8, <2>9 DEF Next
<1>3. QED
    BY <1>1, <1>2

\* The texts of ParsersAgree are texts.
LEMMA TextsAre ==
    ASSUME NEW w \in Texts
    PROVE  w \in Seq(Activators) /\ w \in Seq(Byte) /\ Len(w) \in Nat
<1>1. PICK n \in 1 .. LENGTH : w \in [1 .. n -> Alphabet]
    BY DEF Texts
<1>2. n \in Nat /\ Alphabet \subseteq Activators /\ Activators \subseteq Byte
    BY <1>1, AlphabetAssumption, BytesAre
<1>3. w \in [1 .. n -> Activators] /\ w \in [1 .. n -> Byte]
    BY <1>1, <1>2
<1>4. w \in Seq(Activators) /\ w \in Seq(Byte)
    BY <1>2, <1>3
<1>5. QED
    BY <1>4, LenProperties

\* A new parser reads a text in two pieces as it reads the whole.
LEMMA CutInTwo ==
    ASSUME NEW kind \in Kinds, NEW w \in Seq(Byte), NEW n \in 1 .. Len(w) - 1
    PROVE  LET whole == parse(init_parser, kind, Received(w, Len(w)))
               start == parse(init_parser, kind, Received(SubSeq(w, 1, n), Len(w)))
               both  == parse(start.parser, kind,
                              Filled(start.buffer, SubSeq(w, n + 1, Len(w))))
           IN both.parser = whole.parser /\ Unread(both.buffer) = Unread(whole.buffer)
<1> DEFINE m == Len(w)
           b == buffer_init(m, "NUL")
           x == SubSeq(w, 1, n)
           y == SubSeq(w, n + 1, m)
<1>1. m \in Nat /\ n \in 0 .. m /\ m <= m
    BY LenProperties
<1>2. b \in Buffer(Byte, m) /\ Room(b) = m
    BY <1>1, ReceivedIs
<1>3. x \in Seq(Byte) /\ Len(x) = n
    BY <1>1, TakeIs
<1>4. y \in Seq(Byte) /\ Len(y) = m - n
    BY <1>1, DropIs DEF Drop
<1>5. w = x \o y
    BY <1>1, TakeAndDrop DEF Drop
<1>6. Received(w, m) = Filled(b, w) /\ Received(x, m) = Filled(b, x)
    BY DEF Received
<1> HIDE DEF m, b, x, y
<1>7. Len(x) + Len(y) <= Room(b)
    BY <1>1, <1>2, <1>3, <1>4
<1>8. init_parser \in Parser
    BY NewParserIs
<1> DEFINE whole == parse(init_parser, kind, Filled(b, x \o y))
           start == parse(init_parser, kind, Filled(b, x))
           both  == parse(start.parser, kind, Filled(start.buffer, y))
<1>9. both.parser = whole.parser /\ Unread(both.buffer) = Unread(whole.buffer)
    BY <1>1, <1>2, <1>3, <1>4, <1>7, <1>8, CutsDoNotMatter
<1>10. whole = parse(init_parser, kind, Received(w, m))
    BY <1>5, <1>6
<1>11. start = parse(init_parser, kind, Received(x, m))
    BY <1>6
<1> HIDE DEF whole, start
<1>12. QED
    BY <1>9, <1>10, <1>11 DEF m, x, y

\* ParsersAgree: each of the three parsers reads every text as the line that it
\* is, and the same however it is cut, in every state in which a connection
\* begins.
THEOREM ParsersReadLines == Spec => []ParsersAgree
<1>1. Fresh => ParsersAgree
    <2>1. SUFFICES ASSUME Fresh, asked = <<>>, NEW kind \in Kinds, NEW w \in Texts
          PROVE  LET whole == parse(parser, kind, Received(w, Len(w))) IN
                 /\ Line(whole.parser) = Expected(w, kind)
                 /\ \A n \in 1 .. Len(w) - 1 :
                      LET start == parse(parser, kind, Received(SubSeq(w, 1, n), Len(w)))
                          both  == parse(start.parser, kind,
                                         Filled(start.buffer, SubSeq(w, n + 1, Len(w))))
                      IN /\ both.parser = whole.parser
                         /\ Unread(both.buffer) = Unread(whole.buffer)
        BY Zenon DEF ParsersAgree
    <2>2. parser = init_parser
        BY <2>1 DEF Fresh
    <2>3. w \in Seq(Activators) /\ w \in Seq(Byte) /\ Len(w) \in Nat /\ Len(w) <= Len(w)
        BY TextsAre
    <2> DEFINE m == Len(w)
    <2>4. Line(parse(init_parser, kind, Received(w, m)).parser) = Expected(w, kind)
        <3> HIDE DEF m
        <3>1. m \in Nat /\ Len(w) <= m
            BY <2>3 DEF m
        <3>2. QED
            BY <2>3, <3>1, LinesAreRead
    <2>5. \A n \in 1 .. Len(w) - 1 :
             LET whole == parse(init_parser, kind, Received(w, Len(w)))
                 start == parse(init_parser, kind, Received(SubSeq(w, 1, n), Len(w)))
                 both  == parse(start.parser, kind,
                                Filled(start.buffer, SubSeq(w, n + 1, Len(w))))
             IN both.parser = whole.parser /\ Unread(both.buffer) = Unread(whole.buffer)
        BY <2>3, CutInTwo
    <2>6. QED
        BY <2>2, <2>4, <2>5, Zenon
<1>2. QED
    BY <1>1, FreshStays, Invariant, PTL DEF Spec

=============================================================================
