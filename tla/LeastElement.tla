---------------------------- MODULE LeastElement ----------------------------
(***************************************************************************)
(* Induction over the natural numbers, by sets: a set that holds 0 and     *)
(* with each number the next holds them all.  The library's induction      *)
(* theorems are about operators; this one follows from the one that every  *)
(* set of numbers has a least element.                                     *)
(***************************************************************************)
EXTENDS Integers, WellFoundedInduction, TLAPS

LEMMA LessIsWellFounded == IsWellFoundedOn({ss \in Nat \X Nat : ss[1] < ss[2]}, Nat)
<1>1. {ss \in Nat \X Nat : ss[1] < ss[2]} = OpToRel(<, Nat)
    BY Zenon DEF OpToRel
<1> QED
    BY <1>1, NatLessThanWellFounded, Zenon

LEMMA LeastNumber ==
    ASSUME NEW T, T \subseteq Nat, T # {}
    PROVE  \E m \in T : \A n \in T : m <= n
<1>1. PICK m \in T : \A n \in T : ~ (<<n, m>> \in {ss \in Nat \X Nat : ss[1] < ss[2]})
    BY LessIsWellFounded, WFMin
<1>2. ASSUME NEW n \in T PROVE m <= n
    <2>1. m \in Nat /\ n \in Nat
        OBVIOUS
    <2>2. ~ (n < m)
        BY <1>1, <2>1
    <2> QED
        BY <2>1, <2>2
<1> QED
    BY <1>2

(* Up to a number: what holds of 0 and of each next one below it. *)
LEMMA UpTo ==
    ASSUME NEW N \in Nat, NEW T, 0 \in T, \A n \in 0..N : n < N /\ n \in T => n + 1 \in T
    PROVE  0..N \subseteq T
<1> SUFFICES ASSUME {n \in 0..N : n \notin T} # {} PROVE FALSE
    OBVIOUS
<1>1. PICK m \in {n \in 0..N : n \notin T} : \A n \in {k \in 0..N : k \notin T} : m <= n
    <2>1. {n \in 0..N : n \notin T} \subseteq Nat
        OBVIOUS
    <2> QED
        BY <2>1, LeastNumber
<1>2. m # 0 /\ m \in 0..N /\ m - 1 \in 0..N
    BY <1>1
<1>3. m - 1 \in T
    BY <1>1, <1>2
<1>4. m - 1 + 1 \in T
    BY <1>2, <1>3
<1> QED
    BY <1>1, <1>2, <1>4

(* A step repeated from a start, as often as one likes: the sequence of    *)
(* what it gives exists.                                                   *)
Repeats(f, N, a, step) ==
    /\ f[0] = a
    /\ \A n \in 1..N : f[n] = step[<<n, f[n - 1]>>]

LEMMA RepeatsExist ==
    ASSUME NEW S, NEW a \in S, NEW step \in [Nat \X S -> S], NEW N \in Nat
    PROVE  \E f \in [0..N -> S] : Repeats(f, N, a, step)
<1> DEFINE T == {m \in 0..N : \E f \in [0..m -> S] : Repeats(f, m, a, step)}
<1>1. 0 \in T
    <2>1. [n \in 0..0 |-> a] \in [0..0 -> S] /\ Repeats([n \in 0..0 |-> a], 0, a, step)
        BY DEF Repeats
    <2> QED
        BY <2>1
<1>2. ASSUME NEW m \in 0..N, m < N, m \in T PROVE m + 1 \in T
    <2>1. PICK f \in [0..m -> S] : Repeats(f, m, a, step)
        BY <1>2
    <2> DEFINE g == [n \in 0..m + 1 |-> IF n = m + 1 THEN step[<<m + 1, f[m]>>] ELSE f[n]]
    <2>2. g \in [0..m + 1 -> S]
        <3>1. m \in 0..m /\ m + 1 \in Nat
            OBVIOUS
        <3>2. step[<<m + 1, f[m]>>] \in S
            BY <2>1, <3>1
        <3>3. \A n \in 0..m + 1 : n # m + 1 => n \in 0..m
            OBVIOUS
        <3> QED
            BY <2>1, <3>2, <3>3
    <2>3. ASSUME NEW n \in 1..m + 1 PROVE g[n] = step[<<n, g[n - 1]>>]
        <3>1. n \in 0..m + 1 /\ n - 1 \in 0..m + 1 /\ n - 1 # m + 1
            OBVIOUS
        <3>2. g[n - 1] = f[n - 1]
            BY <3>1
        <3>3. CASE n = m + 1
            <4>1. g[n] = step[<<m + 1, f[m]>>] /\ n - 1 = m
                BY <3>1, <3>3
            <4> QED
                BY <3>2, <3>3, <4>1
        <3>4. CASE n # m + 1
            <4>1. n \in 1..m /\ g[n] = f[n]
                BY <3>1, <3>4
            <4>2. f[n] = step[<<n, f[n - 1]>>]
                BY <2>1, <4>1 DEF Repeats
            <4> QED
                BY <3>2, <4>1, <4>2
        <3> QED
            BY <3>3, <3>4
    <2>4. g[0] = a
        BY <2>1 DEF Repeats
    <2>5. Repeats(g, m + 1, a, step)
        BY <2>3, <2>4 DEF Repeats
    <2>6. m + 1 \in 0..N
        BY <1>2
    <2> HIDE DEF g
    <2> QED
        BY <2>2, <2>5, <2>6
<1>3. N \in T
    <2> HIDE DEF T
    <2> QED
        BY <1>1, <1>2, UpTo
<1> QED
    BY <1>3

LEMMA RepeatsAgree ==
    ASSUME NEW a, NEW step, NEW M \in Nat, NEW N \in Nat, M <= N, NEW f, NEW g,
           Repeats(f, M, a, step), Repeats(g, N, a, step)
    PROVE  f[M] = g[M]
<1> DEFINE T == {n \in 0..M : f[n] = g[n]}
<1>1. 0 \in T
    BY DEF Repeats
<1>2. ASSUME NEW n \in 0..M, n < M, n \in T PROVE n + 1 \in T
    <2>1. n + 1 \in 1..M /\ n + 1 \in 1..N /\ n + 1 - 1 = n /\ n + 1 \in 0..M
        BY <1>2
    <2>2. f[n + 1] = step[<<n + 1, f[n]>>] /\ g[n + 1] = step[<<n + 1, g[n]>>]
        BY <2>1 DEF Repeats
    <2> QED
        BY <1>2, <2>1, <2>2
<1>3. 0..M \subseteq T
    <2> HIDE DEF T
    <2> QED
        BY <1>1, <1>2, UpTo
<1> QED
    BY <1>3

IsIteration(f, S, a, step) ==
    /\ f \in [Nat -> S] /\ f[0] = a
    /\ \A n \in Nat : f[n + 1] = step[<<n + 1, f[n]>>]

LEMMA Iterates ==
    ASSUME NEW S, NEW a \in S, NEW step \in [Nat \X S -> S]
    PROVE  \E f : IsIteration(f, S, a, step)
<1> DEFINE Run(N) == CHOOSE f \in [0..N -> S] : Repeats(f, N, a, step)
           f == [n \in Nat |-> Run(n)[n]]
<1>1. ASSUME NEW N \in Nat PROVE Run(N) \in [0..N -> S] /\ Repeats(Run(N), N, a, step)
    BY RepeatsExist
<1> HIDE DEF Run
<1>2. f \in [Nat -> S]
    <2>1. ASSUME NEW n \in Nat PROVE Run(n)[n] \in S
        <3>1. n \in 0..n
            OBVIOUS
        <3> QED
            BY <1>1, <3>1
    <2> QED
        BY <2>1
<1>3. f[0] = a
    BY <1>1 DEF Repeats
<1>4. ASSUME NEW n \in Nat PROVE f[n + 1] = step[<<n + 1, f[n]>>]
    <2>1. n + 1 \in Nat /\ n <= n + 1 /\ n + 1 \in 1..n + 1 /\ n + 1 - 1 = n
        OBVIOUS
    <2>2. Repeats(Run(n), n, a, step) /\ Repeats(Run(n + 1), n + 1, a, step)
        BY <1>1, <2>1
    <2>3. Run(n)[n] = Run(n + 1)[n]
        BY <2>1, <2>2, RepeatsAgree
    <2>4. Run(n + 1)[n + 1] = step[<<n + 1, Run(n + 1)[n]>>]
        BY <2>1, <2>2 DEF Repeats
    <2> QED
        BY <2>1, <2>3, <2>4
<1> HIDE DEF f
<1> QED
    BY <1>2, <1>3, <1>4 DEF IsIteration
=============================================================================
