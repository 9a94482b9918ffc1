--------------------------- MODULE RegexMainProofs ---------------------------
(***************************************************************************)
(* The engines of regex-vm on every program and every string: Thompson's   *)
(* threads are the configurations a program can be in, and backtracking    *)
(* answers what the program means.                                         *)
(***************************************************************************)
EXTENDS RegexMain, FiniteSetTheorems, FunctionTheorems, SequenceTheorems, TLAPS,
        WellFoundedInduction

-----------------------------------------------------------------------------
(* Numbers: a least one, induction, and functions defined by recursion.    *)

LEMMA LeastNumber ==
    ASSUME NEW S \in SUBSET Nat, S # {}
    PROVE  \E k \in S : \A m \in S : k <= m
<1>1. PICK k \in S : \A m \in S : ~(<<m, k>> \in OpToRel(<, Nat))
  BY NatLessThanWellFounded, WFMin
<1>2. ASSUME NEW m \in S, m < k PROVE FALSE
  <2>1. <<m, k>> \in {ss \in Nat \X Nat : ss[1] < ss[2]}
    BY <1>2
  <2> QED
    BY <1>1, <2>1 DEF OpToRel
<1> QED
  BY <1>2

\* Induction, for a set of numbers.
LEMMA AllNumbers ==
    ASSUME NEW S \in SUBSET Nat, 0 \in S, \A n \in S : n + 1 \in S
    PROVE  S = Nat
<1>1. SUFFICES ASSUME Nat \ S # {} PROVE FALSE
  OBVIOUS
<1>2. PICK k \in Nat \ S : \A m \in Nat \ S : k <= m
  BY <1>1, LeastNumber
<1>3. k - 1 \in S
  BY <1>2
<1> QED
  BY <1>2, <1>3

\* What is iterated from x0 has values at all numbers.
Iterated(X, x0, F, k) ==
    {f \in [0 .. k -> X] : f[0] = x0 /\ \A n \in 0 .. k - 1 : f[n + 1] = F[f[n]]}

LEMMA IteratedExists ==
    ASSUME NEW X, NEW x0 \in X, NEW F \in [X -> X], NEW k \in Nat
    PROVE  Iterated(X, x0, F, k) # {}
<1> DEFINE S == {n \in Nat : Iterated(X, x0, F, n) # {}}
<1>1. 0 \in S
  <2>1. [j \in 0 .. 0 |-> x0] \in Iterated(X, x0, F, 0)
    BY DEF Iterated
  <2> QED
    BY <2>1
<1>2. ASSUME NEW n \in S PROVE n + 1 \in S
  <2>1. PICK f \in Iterated(X, x0, F, n) : TRUE
    OBVIOUS
  <2> DEFINE g == [j \in 0 .. n + 1 |-> IF j = n + 1 THEN F[f[n]] ELSE f[j]]
  <2>2. f \in [0 .. n -> X] /\ f[0] = x0 /\ \A j \in 0 .. n - 1 : f[j + 1] = F[f[j]]
    BY <2>1 DEF Iterated
  <2>3. n \in Nat /\ F[f[n]] \in X
    BY <2>2
  <2>4. g \in [0 .. n + 1 -> X]
    BY <2>2, <2>3
  <2>5. g[0] = x0
    BY <2>2, <2>3
  <2>6. ASSUME NEW j \in 0 .. n PROVE g[j + 1] = F[g[j]]
    <3>1. g[j] = f[j]
      BY <2>3
    <3>2. CASE j = n
      BY <2>3, <3>1, <3>2
    <3>3. CASE j # n
      <4>1. j \in 0 .. n - 1 /\ g[j + 1] = f[j + 1]
        BY <2>3, <3>3
      <4> QED
        BY <2>2, <3>1, <4>1
    <3> QED
      BY <3>2, <3>3
  <2>7. g \in Iterated(X, x0, F, n + 1)
    <3> HIDE DEF g
    <3>1. n + 1 - 1 = n
      BY <2>3
    <3> QED
      BY <2>4, <2>5, <2>6, <3>1 DEF Iterated
  <2> QED
    BY <2>3, <2>7
<1>3. S = Nat
  <2> HIDE DEF S
  <2>1. S \in SUBSET Nat
    BY DEF S
  <2> QED
    BY <1>1, <1>2, <2>1, AllNumbers
<1> QED
  BY <1>3

LEMMA IteratedAgree ==
    ASSUME NEW X, NEW x0 \in X, NEW F \in [X -> X], NEW k \in Nat, NEW l \in Nat,
           NEW f \in Iterated(X, x0, F, k), NEW g \in Iterated(X, x0, F, l),
           NEW n \in Nat, n <= k, n <= l
    PROVE  f[n] = g[n]
<1> DEFINE S == {m \in Nat : m <= k /\ m <= l => f[m] = g[m]}
<1>1. 0 \in S
  BY DEF Iterated
<1>2. ASSUME NEW m \in S PROVE m + 1 \in S
  <2>1. SUFFICES ASSUME m + 1 <= k, m + 1 <= l PROVE f[m + 1] = g[m + 1]
    OBVIOUS
  <2>2. m \in 0 .. k - 1 /\ m \in 0 .. l - 1 /\ f[m] = g[m]
    BY <2>1
  <2> QED
    BY <2>2 DEF Iterated
<1>3. S = Nat
  <2> HIDE DEF S
  <2>1. S \in SUBSET Nat
    BY DEF S
  <2> QED
    BY <1>1, <1>2, <2>1, AllNumbers
<1> QED
  BY <1>3

Iteration(X, x0, F) == [n \in Nat |-> (CHOOSE f \in Iterated(X, x0, F, n) : TRUE)[n]]

Iterates(f, X, x0, F) ==
    f \in [Nat -> X] /\ f[0] = x0 /\ \A n \in Nat : f[n + 1] = F[f[n]]

LEMMA IterationExists ==
    ASSUME NEW X, NEW x0 \in X, NEW F \in [X -> X]
    PROVE  Iterates(Iteration(X, x0, F), X, x0, F)
<1> DEFINE h == [n \in Nat |-> CHOOSE f \in Iterated(X, x0, F, n) : TRUE]
           f == [n \in Nat |-> h[n][n]]
<1>1. ASSUME NEW n \in Nat PROVE h[n] \in Iterated(X, x0, F, n)
  BY IteratedExists
<1>2. ASSUME NEW n \in Nat PROVE h[n] \in [0 .. n -> X] /\ h[n][n] \in X
  <2>1. h[n] \in Iterated(X, x0, F, n)
    BY <1>1
  <2> HIDE DEF h
  <2> QED
    BY <2>1 DEF Iterated
<1>3. f \in [Nat -> X]
  BY <1>2
<1>4. f[0] = x0
  <2>1. h[0] \in Iterated(X, x0, F, 0)
    BY <1>1
  <2> HIDE DEF h
  <2> QED
    BY <2>1 DEF Iterated
<1>5. ASSUME NEW n \in Nat PROVE f[n + 1] = F[f[n]]
  <2>1. h[n + 1] \in Iterated(X, x0, F, n + 1) /\ h[n] \in Iterated(X, x0, F, n)
    BY <1>1
  <2> HIDE DEF h
  <2>2. n \in 0 .. (n + 1) - 1
    OBVIOUS
  <2>3. h[n + 1][n + 1] = F[h[n + 1][n]]
    BY <2>1, <2>2 DEF Iterated
  <2>4. h[n + 1][n] = h[n][n]
    BY <2>1, IteratedAgree
  <2> QED
    BY <2>3, <2>4
<1>6. f = Iteration(X, x0, F)
  BY DEF Iteration
<1> QED
  <2> HIDE DEF f
  <2> QED
    BY <1>3, <1>4, <1>5, <1>6 DEF Iterates

-----------------------------------------------------------------------------
(* Programs.                                                               *)

LEMMA InstructionOf ==
    ASSUME NEW p, WellFormed(p), NEW k \in DOMAIN p
    PROVE  /\ Len(p) \in Nat /\ DOMAIN p = 1 .. Len(p)
           /\ p[k].opcode \in {"Char", "Match", "Jmp", "Split"}
           /\ p[k].opcode = "Char" => k + 1 \in DOMAIN p
           /\ p[k].opcode \in {"Jmp", "Split"} => p[k].x \in DOMAIN p
           /\ p[k].opcode = "Split" => p[k].y \in DOMAIN p
<1>1. p \in Seq(Instructions(Len(p))) /\ p[Len(p)] = Match
  BY DEF WellFormed
<1>2. Len(p) \in Nat /\ DOMAIN p = 1 .. Len(p) /\ p[k] \in Instructions(Len(p))
  BY <1>1
<1>3. \/ p[k] = Match
      \/ \E c \in Chars : p[k] = Char(c)
      \/ \E x \in 1 .. Len(p) : p[k] = Jmp(x)
      \/ \E x, y \in 1 .. Len(p) : p[k] = Split(x, y)
  BY <1>2 DEF Instructions
<1>4. CASE p[k] = Match
  BY <1>2, <1>4 DEF Match
<1>5. ASSUME NEW c \in Chars, p[k] = Char(c)
      PROVE  p[k].opcode = "Char" /\ k + 1 \in DOMAIN p
  <2>1. p[k].opcode = "Char"
    BY <1>5 DEF Char
  <2>2. k # Len(p)
    BY <1>1, <2>1 DEF Match
  <2> QED
    BY <1>2, <2>1, <2>2
<1>6. CASE \E x \in 1 .. Len(p) : p[k] = Jmp(x)
  BY <1>2, <1>6 DEF Jmp
<1>7. CASE \E x, y \in 1 .. Len(p) : p[k] = Split(x, y)
  BY <1>2, <1>7 DEF Split
<1> QED
  BY <1>2, <1>3, <1>4, <1>5, <1>6, <1>7

\* A step of a thread leads to a configuration.
LEMMA SuccessorsInside ==
    ASSUME NEW p, WellFormed(p), NEW s \in Seq(Chars), NEW c \in Configs(p, s)
    PROVE  Successors(p, s, c) \subseteq Configs(p, s)
<1>1. c[1] \in DOMAIN p /\ c[2] \in 1 .. Len(s) + 1 /\ Len(s) \in Nat
  BY DEF Configs
<1>2. /\ p[c[1]].opcode \in {"Char", "Match", "Jmp", "Split"}
      /\ p[c[1]].opcode = "Char" => c[1] + 1 \in DOMAIN p
      /\ p[c[1]].opcode \in {"Jmp", "Split"} => p[c[1]].x \in DOMAIN p
      /\ p[c[1]].opcode = "Split" => p[c[1]].y \in DOMAIN p
  BY <1>1, InstructionOf
<1>3. CASE p[c[1]].opcode = "Char"
  <2>1. CharMatches(p, s, c) => c[2] + 1 \in 1 .. Len(s) + 1
    BY <1>1 DEF CharMatches
  <2>2. Successors(p, s, c) = IF CharMatches(p, s, c) THEN {<<c[1] + 1, c[2] + 1>>} ELSE {}
    BY <1>3 DEF Successors
  <2> QED
    BY <1>2, <1>3, <2>1, <2>2 DEF Configs
<1>4. CASE p[c[1]].opcode = "Match"
  BY <1>4 DEF Successors
<1>5. CASE p[c[1]].opcode = "Jmp"
  <2>1. Successors(p, s, c) = {<<p[c[1]].x, c[2]>>}
    BY <1>5 DEF Successors
  <2> QED
    BY <1>1, <1>2, <1>5, <2>1 DEF Configs
<1>6. CASE p[c[1]].opcode = "Split"
  <2>1. Successors(p, s, c) = {<<p[c[1]].x, c[2]>>, <<p[c[1]].y, c[2]>>}
    BY <1>6 DEF Successors
  <2> QED
    BY <1>1, <1>2, <1>6, <2>1 DEF Configs
<1> QED
  BY <1>2, <1>3, <1>4, <1>5, <1>6

\* A set of configurations that no step leaves.
Closed(p, s, C) == \A c \in C : Successors(p, s, c) \subseteq C
Further(p, s, C) == C \union UNION {Successors(p, s, c) : c \in C}

\* Reached iterates Further from the start.
LEMMA ReachedIterates ==
    ASSUME NEW p, WellFormed(p), NEW s \in Seq(Chars)
    PROVE  \E R \in [Nat -> SUBSET Configs(p, s)] :
              /\ R[0] = {<<1, 1>>} /\ \A n \in Nat : R[n + 1] = Further(p, s, R[n])
              /\ Reached(p, s) = R[Len(p) * (Len(s) + 1)]
<1> DEFINE X == SUBSET Configs(p, s)
           F == [C \in X |-> Further(p, s, C)]
           x0 == {<<1, 1>>}
           G(g) == [k \in Nat |-> IF k = 0 THEN {<<1, 1>>}
                        ELSE LET S == g[k - 1]
                             IN  S \union UNION {Successors(p, s, c) : c \in S}]
           R == CHOOSE g : g = G(g)
<1>1. x0 \in X
  <2>1. 1 \in DOMAIN p
    BY DEF WellFormed
  <2> QED
    BY <2>1 DEF Configs
<1>2. F \in [X -> X]
  <2>1. ASSUME NEW C \in X PROVE Further(p, s, C) \in X
    BY SuccessorsInside DEF Further
  <2> QED
    BY <2>1
<1> DEFINE f == Iteration(X, x0, F)
<1>3. f \in [Nat -> X] /\ f[0] = {<<1, 1>>} /\ \A n \in Nat : f[n + 1] = F[f[n]]
  <2>1. Iterates(f, X, x0, F)
    <3> HIDE DEF X, F, x0, R
    <3> QED
      BY <1>1, <1>2, IterationExists
  <2> QED
    BY <2>1 DEF Iterates
<1> HIDE DEF f
<1>4. f = G(f)
  <2>1. ASSUME NEW n \in Nat PROVE f[n] = G(f)[n]
    <3>1. CASE n = 0
      BY <1>3, <3>1
    <3>2. CASE n # 0
      <4>1. n - 1 \in Nat /\ (n - 1) + 1 = n
        BY <3>2
      <4>2. f[n] = F[f[n - 1]] /\ f[n - 1] \in X
        BY <1>3, <4>1
      <4>3. F[f[n - 1]] = Further(p, s, f[n - 1])
        BY <4>2
      <4> QED
        BY <3>2, <4>2, <4>3 DEF Further
    <3> QED
      BY <3>1, <3>2
  <2> QED
    BY <1>3, <2>1
<1>5. R = G(R)
  <2> HIDE DEF G
  <2> QED
    BY <1>4
<1>6. Reached(p, s) = R[Len(p) * (Len(s) + 1)]
  BY DEF Reached
<1>7. R[0] = {<<1, 1>>}
  BY <1>5
<1>8. ASSUME NEW n \in Nat PROVE R[n + 1] = Further(p, s, R[n])
  <2> HIDE DEF R
  <2>1. (n + 1) - 1 = n /\ n + 1 # 0 /\ n + 1 \in Nat
    OBVIOUS
  <2> QED
    BY <1>5, <2>1 DEF Further
<1>9. R \in [Nat -> X]
  <2> DEFINE S == {n \in Nat : R[n] \in X}
  <2>1. S = Nat
    <3> HIDE DEF R, X, G
    <3>1. 0 \in S
      BY <1>1, <1>7
    <3>2. ASSUME NEW n \in S PROVE n + 1 \in S
      <4>1. Further(p, s, R[n]) \in X
        BY <1>2 DEF F
      <4>2. n \in Nat /\ R[n + 1] \in X
        BY <1>8, <4>1
      <4> QED
        BY <4>2
    <3> HIDE DEF S
    <3>3. S \in SUBSET Nat
      BY DEF S
    <3> QED
      BY <3>1, <3>2, <3>3, AllNumbers
  <2>2. \A n \in Nat : R[n] \in X
    BY <2>1
  <2>3. R = [k \in Nat |-> R[k]]
    BY <1>5
  <2> HIDE DEF R, X
  <2> QED
    BY <2>2, <2>3
<1> QED
  <2> HIDE DEF R
  <2> QED
    BY <1>6, <1>7, <1>8, <1>9

\* As there are no more configurations than iterations, Reached is closed.
LEMMA FirstNumbers ==
    ASSUME NEW n \in Nat
    PROVE  IsFiniteSet(1 .. n) /\ Cardinality(1 .. n) = n
<1>1. Cardinality(1 .. n) = IF 1 > n THEN 0 ELSE n - 1 + 1
  BY FS_Interval
<1> QED
  BY <1>1, FS_Interval

LEMMA ReachedClosed ==
    ASSUME NEW p, WellFormed(p), NEW s \in Seq(Chars)
    PROVE  /\ Reached(p, s) \subseteq Configs(p, s) /\ <<1, 1>> \in Reached(p, s)
           /\ Closed(p, s, Reached(p, s))
<1> DEFINE N == Len(p) * (Len(s) + 1)
<1>1. PICK R \in [Nat -> SUBSET Configs(p, s)] :
         /\ R[0] = {<<1, 1>>} /\ \A n \in Nat : R[n + 1] = Further(p, s, R[n])
         /\ Reached(p, s) = R[N]
  BY ReachedIterates
<1>2. N \in Nat /\ IsFiniteSet(Configs(p, s)) /\ Cardinality(Configs(p, s)) = N
  <2> DEFINE P == 1 .. Len(p)
             Q == 1 .. Len(s) + 1
  <2>1. Len(p) \in Nat /\ Configs(p, s) = P \X Q /\ Len(s) + 1 \in Nat
    BY DEF WellFormed, Configs
  <2>2. IsFiniteSet(P) /\ Cardinality(P) = Len(p) /\ IsFiniteSet(Q) /\ Cardinality(Q) = Len(s) + 1
    BY <2>1, FirstNumbers
  <2>3. N \in Nat
    BY <2>1
  <2>4. IsFiniteSet(P \X Q) /\ Cardinality(P \X Q) = Cardinality(P) * Cardinality(Q)
    <3> HIDE DEF P, Q
    <3> QED
      BY <2>2, FS_Product, Zenon
  <2> HIDE DEF P, Q
  <2>5. N = Cardinality(P) * Cardinality(Q)
    BY <2>2
  <2> HIDE DEF N
  <2> QED
    BY <2>1, <2>3, <2>4, <2>5, Zenon
<1> HIDE DEF N
<1>3. ASSUME NEW n \in Nat PROVE <<1, 1>> \in R[n]
  <2> DEFINE S == {m \in Nat : <<1, 1>> \in R[m]}
  <2>1. 0 \in S
    BY <1>1
  <2>2. ASSUME NEW m \in S PROVE m + 1 \in S
    BY <1>1 DEF Further
  <2>3. S = Nat
    <3> HIDE DEF S
    <3>1. S \in SUBSET Nat
      BY DEF S
    <3> QED
      BY <2>1, <2>2, <3>1, AllNumbers
  <2> QED
    BY <2>3
<1>4. ASSUME NEW n \in Nat PROVE Closed(p, s, R[n]) \/ Cardinality(R[n]) >= n + 1
  <2> DEFINE S == {m \in Nat : Closed(p, s, R[m]) \/ Cardinality(R[m]) >= m + 1}
  <2>1. 0 \in S
    <3>1. Cardinality(R[0]) = 1
      BY <1>1, FS_Singleton
    <3> QED
      BY <3>1
  <2>2. ASSUME NEW m \in S PROVE m + 1 \in S
    <3>1. m \in Nat /\ R[m + 1] = Further(p, s, R[m])
      BY <1>1
    <3>2. R[m] \subseteq R[m + 1] /\ R[m + 1] \in SUBSET Configs(p, s)
      BY <1>1, <3>1 DEF Further
    <3>3. CASE Closed(p, s, R[m])
      <4>1. R[m + 1] = R[m]
        BY <3>1, <3>3 DEF Further, Closed
      <4> QED
        BY <3>1, <3>3, <4>1
    <3>4. CASE ~Closed(p, s, R[m])
      <4>1. R[m + 1] # R[m]
        BY <3>1, <3>4 DEF Further, Closed
      <4>2. IsFiniteSet(R[m + 1])
        BY <1>2, <3>2, FS_Subset
      <4>3. /\ IsFiniteSet(R[m]) /\ Cardinality(R[m]) <= Cardinality(R[m + 1])
            /\ Cardinality(R[m]) # Cardinality(R[m + 1])
        BY <3>2, <4>1, <4>2, FS_Subset
      <4>4. Cardinality(R[m]) \in Nat /\ Cardinality(R[m + 1]) \in Nat
        BY <4>2, <4>3, FS_CardinalityType
      <4>5. Cardinality(R[m]) >= m + 1
        BY <3>4
      <4> QED
        BY <3>1, <4>3, <4>4, <4>5
    <3> QED
      BY <3>3, <3>4
  <2>3. S = Nat
    <3> HIDE DEF S
    <3>1. S \in SUBSET Nat
      BY DEF S
    <3> QED
      BY <2>1, <2>2, <3>1, AllNumbers
  <2> QED
    BY <2>3
<1>5. Cardinality(R[N]) <= N
  <2>1. R[N] \in SUBSET Configs(p, s)
    BY <1>1, <1>2
  <2> QED
    BY <1>2, <2>1, FS_Subset
<1>6. Cardinality(R[N]) \in Nat
  <2>1. R[N] \in SUBSET Configs(p, s)
    BY <1>1, <1>2
  <2> QED
    BY <1>2, <2>1, FS_Subset, FS_CardinalityType
<1>7. Closed(p, s, R[N])
  BY <1>2, <1>4, <1>5, <1>6
<1> QED
  BY <1>1, <1>2, <1>3, <1>7

\* And it is the least closed set with the start in it.
LEMMA ReachedLeast ==
    ASSUME NEW p, WellFormed(p), NEW s \in Seq(Chars),
           NEW C, <<1, 1>> \in C, Closed(p, s, C)
    PROVE  Reached(p, s) \subseteq C
<1> DEFINE N == Len(p) * (Len(s) + 1)
<1>1. PICK R \in [Nat -> SUBSET Configs(p, s)] :
         /\ R[0] = {<<1, 1>>} /\ \A n \in Nat : R[n + 1] = Further(p, s, R[n])
         /\ Reached(p, s) = R[N]
  BY ReachedIterates
<1>2. N \in Nat
  BY DEF WellFormed
<1> DEFINE S == {m \in Nat : R[m] \subseteq C}
<1>3. 0 \in S
  BY <1>1
<1>4. ASSUME NEW m \in S PROVE m + 1 \in S
  <2>1. Further(p, s, R[m]) \subseteq C
    BY DEF Further, Closed
  <2> QED
    BY <1>1, <2>1
<1>5. S = Nat
  <2> HIDE DEF S
  <2>1. S \in SUBSET Nat
    BY DEF S
  <2> QED
    BY <1>3, <1>4, <2>1, AllNumbers
<1> QED
  <2> HIDE DEF N
  <2> QED
    BY <1>1, <1>2, <1>5

\* No thread that starts in c comes to a Match.
Rejects(p, s, c) ==
    \E C \in SUBSET Configs(p, s) :
        c \in C /\ Closed(p, s, C) /\ \A d \in C : p[d[1]].opcode # "Match"

LEMMA RejectsBySuccessors ==
    ASSUME NEW p, WellFormed(p), NEW s \in Seq(Chars), NEW c \in Configs(p, s)
    PROVE  Rejects(p, s, c) <=> /\ p[c[1]].opcode # "Match"
                                /\ \A d \in Successors(p, s, c) : Rejects(p, s, d)
<1>1. ASSUME Rejects(p, s, c)
      PROVE  p[c[1]].opcode # "Match" /\ \A d \in Successors(p, s, c) : Rejects(p, s, d)
  BY <1>1 DEF Rejects, Closed
<1>2. ASSUME p[c[1]].opcode # "Match", \A d \in Successors(p, s, c) : Rejects(p, s, d)
      PROVE  Rejects(p, s, c)
  <2> DEFINE C == {c} \union {d \in Configs(p, s) : Rejects(p, s, d)}
  <2>1. C \in SUBSET Configs(p, s) /\ c \in C
    OBVIOUS
  <2>2. Closed(p, s, C)
    <3>1. ASSUME NEW d \in C PROVE Successors(p, s, d) \subseteq C
      <4>1. Successors(p, s, d) \subseteq Configs(p, s)
        BY SuccessorsInside
      <4>2. CASE d = c
        BY <1>2, <4>1, <4>2
      <4>3. CASE Rejects(p, s, d)
        BY <4>1, <4>3 DEF Rejects, Closed
      <4> QED
        BY <4>2, <4>3
    <3> QED
      BY <3>1 DEF Closed
  <2>3. \A d \in C : p[d[1]].opcode # "Match"
    BY <1>2 DEF Rejects
  <2> HIDE DEF C
  <2> QED
    BY <2>1, <2>2, <2>3 DEF Rejects
<1> QED
  BY <1>1, <1>2

LEMMA AcceptsUnlessRejects ==
    ASSUME NEW p, WellFormed(p), NEW s \in Seq(Chars)
    PROVE  Accepts(p, s) <=> ~Rejects(p, s, <<1, 1>>)
<1>1. ASSUME Rejects(p, s, <<1, 1>>) PROVE ~Accepts(p, s)
  <2>1. PICK C \in SUBSET Configs(p, s) :
           <<1, 1>> \in C /\ Closed(p, s, C) /\ \A d \in C : p[d[1]].opcode # "Match"
    BY <1>1 DEF Rejects
  <2>2. Reached(p, s) \subseteq C
    BY <2>1, ReachedLeast
  <2> QED
    BY <2>1, <2>2 DEF Accepts
<1>2. ASSUME ~Accepts(p, s) PROVE Rejects(p, s, <<1, 1>>)
  BY <1>2, ReachedClosed DEF Accepts, Rejects
<1> QED
  BY <1>1, <1>2

-----------------------------------------------------------------------------
(* The engines and their composition have one RegexProgram.                *)

LEMMA SameSuccessors ==
    ASSUME NEW p, NEW s, NEW c
    PROVE  /\ T!Successors(p, s, c) = Successors(p, s, c)
           /\ B!Successors(p, s, c) = Successors(p, s, c)
           /\ T!CharMatches(p, s, c) = CharMatches(p, s, c)
           /\ B!CharMatches(p, s, c) = CharMatches(p, s, c)
           /\ T!Configs(p, s) = Configs(p, s) /\ B!Configs(p, s) = Configs(p, s)
  BY DEF T!Successors, B!Successors, Successors, T!CharMatches, B!CharMatches, CharMatches,
         T!Configs, B!Configs, Configs

LEMMA SameWellFormed ==
    ASSUME NEW p
    PROVE  T!WellFormed(p) = WellFormed(p) /\ B!WellFormed(p) = WellFormed(p)
  BY DEF T!WellFormed, B!WellFormed, WellFormed, T!Instructions, B!Instructions, Instructions,
         T!Match, B!Match, Match, T!Char, B!Char, Char, T!Jmp, B!Jmp, Jmp, T!Split, B!Split, Split

LEMMA SameReached ==
    ASSUME NEW p, NEW s
    PROVE  T!Reached(p, s) = Reached(p, s) /\ B!Reached(p, s) = Reached(p, s)
  BY DEF T!Reached, B!Reached, Reached, T!Successors, B!Successors, Successors,
         T!CharMatches, B!CharMatches, CharMatches

-----------------------------------------------------------------------------
(* Thompson's algorithm.                                                   *)

Threads(list) == T!ToSet(list)
Meaning == Reached(prog, input)

\* The threads are configurations of the program, at this character and the next.
ThreadsReached ==
    /\ \A t \in Threads(clist) : <<t, sp>> \in Meaning
    /\ \A t \in Threads(nlist) : <<t, sp + 1>> \in Meaning

\* Where a thread that has run may go, there is a thread.
ThreadsRun ==
    \A k \in 1 .. i - 1 :
        /\ prog[clist[k]].opcode # "Match"
        /\ \A d \in Successors(prog, input, <<clist[k], sp>>) :
               \/ d[2] = sp /\ d[1] \in Threads(clist)
               \/ d[2] = sp + 1 /\ d[1] \in Threads(nlist)

\* The characters before are done with: no Match was among them, and what they
\* lead to here has a thread.
PastIsDone ==
    /\ sp = 1 => 1 \in Threads(clist)
    /\ \A c \in Meaning : c[2] < sp =>
          /\ prog[c[1]].opcode # "Match"
          /\ \A d \in Successors(prog, input, c) : d[2] = sp => d[1] \in Threads(clist)

TInv ==
    /\ T!TypeOK /\ input \in Seq(Chars)
    /\ ThreadsReached /\ ThreadsRun /\ PastIsDone
    /\ T!VerdictBeforeEnd

\* The list new is list with t on it.
Added(D, list, t, new) ==
    /\ new \in Seq(D) /\ Len(list) <= Len(new)
    /\ \A k \in 1 .. Len(list) : new[k] = list[k]
    /\ Threads(new) = Threads(list) \union {t}
    /\ T!IsInjective(list) => T!IsInjective(new)

LEMMA AddThreadAdds ==
    ASSUME NEW D, NEW list \in Seq(D), NEW t \in D
    PROVE  Added(D, list, t, T!AddThread(list, t))
<1>1. Len(list) \in Nat /\ DOMAIN list = 1 .. Len(list) /\ \A k \in 1 .. Len(list) : list[k] \in D
  OBVIOUS
<1>2. CASE t \in Threads(list)
  <2>1. T!AddThread(list, t) = list
    BY <1>2 DEF T!AddThread, Threads
  <2> QED
    BY <1>1, <1>2, <2>1 DEF Added
<1>3. CASE t \notin Threads(list)
  <2> DEFINE new == Append(list, t)
             n == Len(list)
  <2>1. T!AddThread(list, t) = new
    BY <1>3 DEF T!AddThread, Threads
  <2>2. new \in Seq(D) /\ Len(new) = n + 1 /\ DOMAIN new = 1 .. n + 1
    OBVIOUS
  <2>3. new[n + 1] = t /\ \A k \in 1 .. n : new[k] = list[k]
    OBVIOUS
  <2> HIDE DEF new
  <2>4. Threads(new) = Threads(list) \union {t}
    BY <1>1, <2>2, <2>3 DEF Threads, T!ToSet
  <2>5. \A k \in 1 .. n : list[k] # t
    BY <1>1, <1>3 DEF Threads, T!ToSet
  <2>6. T!IsInjective(list) => T!IsInjective(new)
    BY <1>1, <2>2, <2>3, <2>5 DEF T!IsInjective
  <2> QED
    BY <1>1, <2>1, <2>2, <2>3, <2>4, <2>6 DEF Added
<1> QED
  BY <1>2, <1>3

\* The thread that runs leads to A at this character and to C at the next, and
\* the lists get these.
Leads(A, C) ==
    /\ prog[clist[i]].opcode # "Match"
    /\ Successors(prog, input, <<clist[i], sp>>)
           = {<<a, sp>> : a \in A} \union {<<c, sp + 1>> : c \in C}
    /\ clist' \in Seq(DOMAIN prog) /\ T!IsInjective(clist')
    /\ nlist' \in Seq(DOMAIN prog) /\ T!IsInjective(nlist')
    /\ Len(clist) <= Len(clist') /\ \A k \in 1 .. Len(clist) : clist'[k] = clist[k]
    /\ Threads(clist') = Threads(clist) \union A
    /\ Threads(nlist') = Threads(nlist) \union C
    /\ i' = i + 1 /\ UNCHANGED <<prog, input, sp, thompson>>

LEMMA ThreadHasRun ==
    ASSUME TInv, T!Running, NEW A, NEW C, Leads(A, C)
    PROVE  ThreadsReached' /\ ThreadsRun' /\ PastIsDone'
<1>1. /\ WellFormed(prog) /\ input \in Seq(Chars) /\ i \in 1 .. Len(clist) /\ sp \in Nat
      /\ Len(clist) \in Nat /\ DOMAIN clist = 1 .. Len(clist)
  BY SameWellFormed DEF TInv, T!TypeOK, T!Running
<1>2. clist[i] \in Threads(clist) /\ <<clist[i], sp>> \in Meaning
  BY <1>1 DEF TInv, ThreadsReached, Threads, T!ToSet
<1>3. /\ Successors(prog, input, <<clist[i], sp>>) \subseteq Meaning
      /\ Meaning' = Meaning /\ UNCHANGED <<prog, input, sp>> /\ i' = i + 1
      /\ Threads(clist') = Threads(clist) \union A /\ Threads(nlist') = Threads(nlist) \union C
  <2>1. Successors(prog, input, <<clist[i], sp>>) \subseteq Meaning
    BY <1>1, <1>2, ReachedClosed DEF Closed, Meaning
  <2> QED
    BY <2>1 DEF Leads, Meaning
<1>4. ThreadsReached'
  <2>1. \A a \in A : <<a, sp>> \in Meaning
    BY <1>3 DEF Leads
  <2>2. \A c \in C : <<c, sp + 1>> \in Meaning
    BY <1>3 DEF Leads
  <2> QED
    BY <1>3, <2>1, <2>2 DEF TInv, ThreadsReached
<1>5. ThreadsRun'
  <2>1. ASSUME NEW k \in 1 .. i,
               NEW d \in Successors(prog, input, <<clist[k], sp>>)
        PROVE  \/ d[2] = sp /\ d[1] \in Threads(clist')
               \/ d[2] = sp + 1 /\ d[1] \in Threads(nlist')
    <3>1. CASE k = i
      BY <1>3, <2>1, <3>1 DEF Leads
    <3>2. CASE k # i
      <4>1. k \in 1 .. i - 1
        BY <1>1, <3>2
      <4>2. \/ d[2] = sp /\ d[1] \in Threads(clist)
            \/ d[2] = sp + 1 /\ d[1] \in Threads(nlist)
        BY <2>1, <4>1 DEF TInv, ThreadsRun
      <4> QED
        BY <1>3, <4>2
    <3> QED
      BY <3>1, <3>2
  <2>2. ASSUME NEW k \in 1 .. i PROVE prog[clist[k]].opcode # "Match"
    <3>1. CASE k = i
      BY <3>1 DEF Leads
    <3>2. CASE k # i
      <4>1. k \in 1 .. i - 1
        BY <1>1, <3>2
      <4> QED
        BY <4>1 DEF TInv, ThreadsRun
    <3> QED
      BY <3>1, <3>2
  <2>3. i' - 1 = i /\ \A k \in 1 .. i : clist'[k] = clist[k]
    BY <1>1 DEF Leads
  <2> QED
    BY <1>3, <2>1, <2>2, <2>3 DEF ThreadsRun
<1>6. PastIsDone'
  BY <1>3 DEF TInv, PastIsDone
<1> QED
  BY <1>4, <1>5, <1>6

\* A step of a thread stays at its character or goes to the next.
LEMMA SuccessorsNear ==
    ASSUME NEW p, WellFormed(p), NEW s \in Seq(Chars), NEW c \in Configs(p, s),
           NEW d \in Successors(p, s, c)
    PROVE  d \in Configs(p, s) /\ d[2] \in {c[2], c[2] + 1} /\ c[2] \in Nat
<1>1. c[1] \in DOMAIN p /\ c[2] \in Nat
  BY DEF Configs
<1>2. p[c[1]].opcode \in {"Char", "Match", "Jmp", "Split"}
  BY <1>1, InstructionOf
<1>3. d[2] \in {c[2], c[2] + 1}
  BY <1>2 DEF Successors
<1> QED
  BY <1>1, <1>3, SuccessorsInside

\* When all have run, the threads are the configurations at this character.
LEMMA ThreadsAreAll ==
    ASSUME TInv, thompson = "run", sp <= Len(input), i > Len(clist)
    PROVE  /\ \A c \in Meaning : c[2] = sp => c[1] \in Threads(clist)
           /\ \A t \in Threads(clist) :
                 /\ <<t, sp>> \in Meaning /\ prog[t].opcode # "Match"
                 /\ \A d \in Successors(prog, input, <<t, sp>>) :
                       \/ d[2] = sp /\ d[1] \in Threads(clist)
                       \/ d[2] = sp + 1 /\ d[1] \in Threads(nlist)
<1>1. /\ WellFormed(prog) /\ input \in Seq(Chars) /\ sp \in Nat /\ sp >= 1
      /\ Len(clist) \in Nat /\ DOMAIN clist = 1 .. Len(clist) /\ i = Len(clist) + 1
  BY SameWellFormed DEF TInv, T!TypeOK
<1>2. ASSUME NEW t \in Threads(clist)
      PROVE  /\ <<t, sp>> \in Meaning /\ prog[t].opcode # "Match"
             /\ \A d \in Successors(prog, input, <<t, sp>>) :
                   \/ d[2] = sp /\ d[1] \in Threads(clist)
                   \/ d[2] = sp + 1 /\ d[1] \in Threads(nlist)
  <2>1. PICK k \in 1 .. i - 1 : t = clist[k]
    BY <1>1, <1>2 DEF Threads, T!ToSet
  <2>2. /\ prog[clist[k]].opcode # "Match"
        /\ \A d \in Successors(prog, input, <<clist[k], sp>>) :
              \/ d[2] = sp /\ d[1] \in Threads(clist)
              \/ d[2] = sp + 1 /\ d[1] \in Threads(nlist)
    <3>1. ThreadsRun
      BY DEF TInv
    <3> QED
      BY <2>1, <3>1, Zenon DEF ThreadsRun
  <2>3. <<t, sp>> \in Meaning
    BY <1>2 DEF TInv, ThreadsReached
  <2> QED
    BY <2>1, <2>2, <2>3, Zenon
<1> DEFINE C == {c \in Meaning : c[2] = sp => c[1] \in Threads(clist)}
<1>3. <<1, 1>> \in C
  <2>1. <<1, 1>> \in Meaning
    BY <1>1, ReachedClosed DEF Meaning
  <2> QED
    BY <2>1 DEF TInv, PastIsDone
<1>4. ASSUME NEW c \in C, NEW d \in Successors(prog, input, c) PROVE d \in C
  <2>1. c \in Configs(prog, input) /\ d \in Meaning
    BY <1>1, <1>4, ReachedClosed DEF Closed, Meaning
  <2>2. d[2] \in {c[2], c[2] + 1} /\ c[2] \in Nat /\ c = <<c[1], c[2]>>
    BY <1>1, <2>1, SuccessorsNear DEF Configs
  <2>3. ASSUME d[2] = sp PROVE d[1] \in Threads(clist)
    <3>1. CASE c[2] = sp
      <4>1. c[1] \in Threads(clist) /\ c = <<c[1], sp>>
        BY <2>2, <3>1
      <4> QED
        BY <1>1, <1>2, <1>4, <2>3, <4>1
    <3>2. CASE c[2] < sp
      BY <1>4, <2>3, <3>2 DEF TInv, PastIsDone
    <3> QED
      BY <1>1, <2>2, <2>3, <3>1, <3>2
  <2> QED
    BY <2>1, <2>3
<1>5. Reached(prog, input) \subseteq C
  <2>1. Closed(prog, input, C)
    BY <1>4 DEF Closed
  <2> HIDE DEF C
  <2> QED
    BY <1>1, <1>3, <2>1, ReachedLeast
<1> QED
  BY <1>2, <1>5 DEF Meaning

LEMMA TStart ==
    ASSUME prog \in Programs, input \in Inputs, T!Start
    PROVE  TInv
<1>1. WellFormed(prog) /\ input \in Seq(Chars) /\ T!WellFormed(prog)
  BY ProgramsAssumption, SameWellFormed
<1>2. clist = <<1>> /\ nlist = <<>> /\ i = 1 /\ sp = 1 /\ thompson = "run" /\ 1 \in DOMAIN prog
  BY <1>1 DEF T!Start, WellFormed
<1>3. Threads(clist) = {1} /\ Threads(nlist) = {}
  BY <1>2 DEF Threads, T!ToSet
<1>4. T!TypeOK
  BY <1>1, <1>2 DEF T!TypeOK, T!IsInjective
<1>5. ThreadsReached
  BY <1>1, <1>2, <1>3, ReachedClosed DEF ThreadsReached, Meaning
<1>6. ThreadsRun
  BY <1>2 DEF ThreadsRun
<1>7. PastIsDone
  <2>1. \A c \in Meaning : ~(c[2] < 1)
    BY <1>1, ReachedClosed DEF Meaning, Configs
  <2> QED
    BY <1>2, <1>3, <2>1 DEF PastIsDone
<1> QED
  BY <1>1, <1>2, <1>4, <1>5, <1>6, <1>7 DEF TInv, T!VerdictBeforeEnd

LEMMA TNext ==
    ASSUME TInv, T!Next
    PROVE  TInv'
<1>1. /\ WellFormed(prog) /\ T!WellFormed(prog) /\ input \in Seq(Chars)
      /\ DOMAIN prog = 1 .. Len(prog) /\ Len(prog) \in Nat /\ Len(input) \in Nat
      /\ clist \in Seq(DOMAIN prog) /\ nlist \in Seq(DOMAIN prog)
      /\ Len(clist) \in Nat /\ DOMAIN clist = 1 .. Len(clist)
      /\ T!IsInjective(clist) /\ T!IsInjective(nlist)
      /\ i \in 1 .. Len(clist) + 1 /\ sp \in 1 .. Len(input) + 1
      /\ prog' = prog /\ input' = input
  <2>1. prog' = prog /\ input' = input
    BY DEF T!Next, T!CharThread, T!MatchThread, T!JmpThread, T!SplitThread, T!NextChar, T!NoMatch
  <2>2. T!TypeOK /\ input \in Seq(Chars)
    BY DEF TInv
  <2>3. WellFormed(prog) /\ T!WellFormed(prog)
    BY <2>2, SameWellFormed DEF T!TypeOK
  <2>4. DOMAIN prog = 1 .. Len(prog) /\ Len(prog) \in Nat
    BY <2>3 DEF WellFormed
  <2>5. clist \in Seq(DOMAIN prog) /\ nlist \in Seq(DOMAIN prog)
        /\ T!IsInjective(clist) /\ T!IsInjective(nlist)
        /\ i \in 1 .. Len(clist) + 1 /\ sp \in 1 .. Len(input) + 1
    BY <2>2 DEF T!TypeOK
  <2> QED
    BY <2>1, <2>2, <2>3, <2>4, <2>5
<1>2. ASSUME T!Running
      PROVE  /\ i \in 1 .. Len(clist) /\ sp <= Len(input) /\ thompson = "run"
             /\ clist[i] \in DOMAIN prog /\ clist[i] \in Threads(clist)
             /\ <<clist[i], sp>> \in Meaning
  <2>1. i \in 1 .. Len(clist) /\ sp <= Len(input) /\ thompson = "run"
    BY <1>1, <1>2 DEF T!Running
  <2>2. clist \in Seq(DOMAIN prog) /\ i \in DOMAIN clist
    BY <1>1, <2>1
  <2>3. clist[i] \in DOMAIN prog /\ clist[i] \in Threads(clist)
    BY <2>2 DEF Threads, T!ToSet
  <2> QED
    BY <2>1, <2>3 DEF TInv, ThreadsReached
\* A thread that goes on keeps the invariant.
<1>3. ASSUME T!Running, NEW A, NEW C, Leads(A, C) PROVE TInv'
  <2>1. ThreadsReached' /\ ThreadsRun' /\ PastIsDone'
    BY <1>3, ThreadHasRun
  <2>2. /\ clist' \in Seq(DOMAIN prog) /\ nlist' \in Seq(DOMAIN prog)
        /\ T!IsInjective(clist') /\ T!IsInjective(nlist') /\ UNCHANGED <<prog, input, sp, thompson>>
    BY <1>3 DEF Leads
  <2>3. i' \in 1 .. Len(clist') + 1
    BY <1>1, <1>2, <1>3 DEF Leads
  <2>4. T!TypeOK'
    <3>1. sp' \in 1 .. Len(input') + 1 /\ thompson' \in {"run", "1", "0"} /\ T!WellFormed(prog')
      BY <1>1, <1>2, <1>3, <2>2
    <3> QED
      BY <1>1, <2>2, <2>3, <3>1 DEF T!TypeOK
  <2>5. T!VerdictBeforeEnd'
    BY <1>2, <1>3, <2>2 DEF T!VerdictBeforeEnd
  <2> QED
    BY <1>1, <2>1, <2>2, <2>4, <2>5 DEF TInv
<1>4. CASE T!CharThread
  <2>1. T!Running /\ prog[clist[i]].opcode = "Char" /\ i' = i + 1
        /\ clist' = clist /\ sp' = sp /\ thompson' = thompson
    BY <1>4 DEF T!CharThread, T!Thread
  <2>2. clist[i] + 1 \in DOMAIN prog
    BY <1>1, <1>2, <2>1, InstructionOf
  <2>3. Successors(prog, input, <<clist[i], sp>>)
           = IF CharMatches(prog, input, <<clist[i], sp>>) THEN {<<clist[i] + 1, sp + 1>>} ELSE {}
    BY <2>1 DEF Successors
  <2>4. CASE CharMatches(prog, input, <<clist[i], sp>>)
    <3>1. nlist' = T!AddThread(nlist, clist[i] + 1)
      BY <1>4, <2>4, SameSuccessors DEF T!CharThread
    <3>2. /\ nlist' \in Seq(DOMAIN prog) /\ T!IsInjective(nlist')
          /\ Threads(nlist') = Threads(nlist) \union {clist[i] + 1}
      <4>1. nlist \in Seq(DOMAIN prog) /\ T!IsInjective(nlist)
        BY <1>1
      <4> QED
        <5>1. Added(DOMAIN prog, nlist, clist[i] + 1, nlist')
          BY <2>2, <3>1, <4>1, AddThreadAdds
        <5> QED
          BY <4>1, <5>1 DEF Added
    <3>3. Threads(clist') = Threads(clist) \union {} /\ T!IsInjective(clist')
      BY <1>1, <2>1
    <3>4. Successors(prog, input, <<clist[i], sp>>)
             = {<<a, sp>> : a \in {}} \union {<<c, sp + 1>> : c \in {clist[i] + 1}}
      BY <2>3, <2>4
    <3>5. /\ prog[clist[i]].opcode # "Match" /\ clist' \in Seq(DOMAIN prog) /\ Len(clist) <= Len(clist')
          /\ \A k \in 1 .. Len(clist) : clist'[k] = clist[k]
      BY <1>1, <2>1
    <3>6. UNCHANGED <<prog, input, sp, thompson>>
      BY <1>1, <2>1
    <3>9. Leads({}, {clist[i] + 1})
      BY <2>1, <3>2, <3>3, <3>4, <3>5, <3>6, Zenon DEF Leads
    <3> QED
      BY <1>3, <2>1, <3>9
  <2>5. CASE ~CharMatches(prog, input, <<clist[i], sp>>)
    <3>1. nlist' = nlist
      BY <1>4, <2>5, SameSuccessors DEF T!CharThread
    <3>2. Threads(clist') = Threads(clist) \union {} /\ T!IsInjective(clist')
          /\ Threads(nlist') = Threads(nlist) \union {} /\ T!IsInjective(nlist')
      BY <1>1, <2>1, <3>1
    <3>3. Successors(prog, input, <<clist[i], sp>>)
             = {<<a, sp>> : a \in {}} \union {<<c, sp + 1>> : c \in {}}
      BY <2>3, <2>5
    <3>5. /\ prog[clist[i]].opcode # "Match" /\ clist' \in Seq(DOMAIN prog) /\ Len(clist) <= Len(clist')
          /\ \A k \in 1 .. Len(clist) : clist'[k] = clist[k]
      BY <1>1, <2>1
    <3>6. UNCHANGED <<prog, input, sp, thompson>> /\ nlist' \in Seq(DOMAIN prog)
      BY <1>1, <2>1, <3>1
    <3>9. Leads({}, {})
      BY <2>1, <3>2, <3>3, <3>5, <3>6, Zenon DEF Leads
    <3> QED
      BY <1>3, <2>1, <3>9
  <2> QED
    BY <2>4, <2>5
<1>5. CASE T!JmpThread
  <2>1. T!Running /\ prog[clist[i]].opcode = "Jmp" /\ i' = i + 1
        /\ nlist' = nlist /\ sp' = sp /\ thompson' = thompson
        /\ clist' = T!AddThread(clist, prog[clist[i]].x)
    BY <1>5 DEF T!JmpThread, T!Thread
  <2>2. prog[clist[i]].x \in DOMAIN prog
    BY <1>1, <1>2, <2>1, InstructionOf
  <2>3. Successors(prog, input, <<clist[i], sp>>)
           = {<<a, sp>> : a \in {prog[clist[i]].x}} \union {<<c, sp + 1>> : c \in {}}
    BY <2>1 DEF Successors
  <2>4. /\ clist' \in Seq(DOMAIN prog) /\ T!IsInjective(clist') /\ Len(clist) <= Len(clist')
        /\ \A k \in 1 .. Len(clist) : clist'[k] = clist[k]
        /\ Threads(clist') = Threads(clist) \union {prog[clist[i]].x}
    <3>1. clist \in Seq(DOMAIN prog) /\ T!IsInjective(clist)
      BY <1>1
    <3> QED
      <4>1. Added(DOMAIN prog, clist, prog[clist[i]].x, clist')
        BY <2>1, <2>2, <3>1, AddThreadAdds
      <4> QED
        BY <3>1, <4>1 DEF Added
  <2>5. Threads(nlist') = Threads(nlist) \union {} /\ T!IsInjective(nlist')
    BY <1>1, <2>1
  <2>9. Leads({prog[clist[i]].x}, {})
    BY <1>1, <2>1, <2>2, <2>3, <2>4, <2>5 DEF Leads
  <2> QED
    BY <1>3, <2>1, <2>9
<1>6. CASE T!SplitThread
  <2> DEFINE x == prog[clist[i]].x
             y == prog[clist[i]].y
             one == T!AddThread(clist, x)
  <2>1. T!Running /\ prog[clist[i]].opcode = "Split" /\ i' = i + 1
        /\ nlist' = nlist /\ sp' = sp /\ thompson' = thompson
        /\ clist' = T!AddThread(one, y)
    BY <1>6 DEF T!SplitThread, T!Thread
  <2>2. x \in DOMAIN prog /\ y \in DOMAIN prog
    BY <1>1, <1>2, <2>1, InstructionOf
  <2>3. Successors(prog, input, <<clist[i], sp>>)
           = {<<a, sp>> : a \in {x, y}} \union {<<c, sp + 1>> : c \in {}}
    BY <2>1 DEF Successors
  <2> HIDE DEF x, y
  <2>4. /\ one \in Seq(DOMAIN prog) /\ T!IsInjective(one) /\ Len(clist) <= Len(one)
        /\ \A k \in 1 .. Len(clist) : one[k] = clist[k]
        /\ Threads(one) = Threads(clist) \union {x}
    <3>1. clist \in Seq(DOMAIN prog) /\ T!IsInjective(clist)
      BY <1>1
    <3> QED
      <4>1. Added(DOMAIN prog, clist, x, one)
        BY <2>2, <3>1, AddThreadAdds
      <4> QED
        BY <3>1, <4>1 DEF Added
  <2> HIDE DEF one
  <2>5. /\ clist' \in Seq(DOMAIN prog) /\ T!IsInjective(clist') /\ Len(one) <= Len(clist')
        /\ \A k \in 1 .. Len(one) : clist'[k] = one[k]
        /\ Threads(clist') = Threads(one) \union {y}
    <3>1. Added(DOMAIN prog, one, y, T!AddThread(one, y))
      BY <2>2, <2>4, AddThreadAdds
    <3> QED
      BY <2>1, <2>4, <3>1 DEF Added
  <2>6. /\ Len(clist) <= Len(clist') /\ \A k \in 1 .. Len(clist) : clist'[k] = clist[k]
        /\ Threads(clist') = Threads(clist) \union {x, y}
    <3>1. Len(clist) \in Nat /\ Len(one) \in Nat
      BY <1>1, <2>4
    <3> QED
      BY <2>4, <2>5, <3>1
  <2>7. Threads(nlist') = Threads(nlist) \union {} /\ T!IsInjective(nlist')
    BY <1>1, <2>1
  <2>9. Leads({x, y}, {})
    BY <1>1, <2>1, <2>2, <2>3, <2>5, <2>6, <2>7 DEF Leads
  <2> QED
    BY <1>3, <2>1, <2>9
<1>7. CASE T!MatchThread
  <2>1. T!Running /\ prog[clist[i]].opcode = "Match" /\ thompson' = "1"
        /\ UNCHANGED <<clist, nlist, i, sp>>
    BY <1>7 DEF T!MatchThread, T!Thread
  <2>2. T!VerdictBeforeEnd'
    <3>1. \E c \in Meaning : prog[c[1]].opcode = "Match" /\ c[2] <= Len(input)
      BY <1>2, <2>1
    <3> QED
      BY <1>1, <2>1, <3>1, SameReached DEF T!VerdictBeforeEnd, Meaning
  <2>3. T!TypeOK'
    BY <1>1, <2>1 DEF T!TypeOK
  <2>4. ThreadsReached' /\ ThreadsRun' /\ PastIsDone'
    BY <1>1, <2>1 DEF TInv, ThreadsReached, ThreadsRun, PastIsDone, Meaning
  <2> QED
    BY <1>1, <2>2, <2>3, <2>4 DEF TInv
<1>8. CASE T!NoMatch
  <2>1. thompson' = "0" /\ sp > Len(input) /\ UNCHANGED <<clist, nlist, i, sp>>
    BY <1>8 DEF T!NoMatch
  <2>2. T!VerdictBeforeEnd'
    <3>1. ASSUME NEW c \in Meaning, c[2] <= Len(input) PROVE prog[c[1]].opcode # "Match"
      <4>1. c[2] \in Nat
        BY <1>1, ReachedClosed DEF Meaning, Configs
      <4>2. c[2] < sp
        BY <1>1, <2>1, <3>1, <4>1
      <4> QED
        BY <4>2 DEF TInv, PastIsDone
    <3> QED
      BY <1>1, <2>1, <3>1, SameReached DEF T!VerdictBeforeEnd, Meaning
  <2>3. T!TypeOK'
    BY <1>1, <2>1 DEF T!TypeOK
  <2>4. ThreadsReached' /\ ThreadsRun' /\ PastIsDone'
    BY <1>1, <2>1 DEF TInv, ThreadsReached, ThreadsRun, PastIsDone, Meaning
  <2> QED
    BY <1>1, <2>2, <2>3, <2>4 DEF TInv
<1>9. CASE T!NextChar
  <2>1. /\ thompson = "run" /\ sp <= Len(input) /\ i > Len(clist)
        /\ clist' = nlist /\ nlist' = <<>> /\ i' = 1 /\ sp' = sp + 1 /\ thompson' = "run"
    BY <1>9 DEF T!NextChar
  <2>2. /\ \A c \in Meaning : c[2] = sp => c[1] \in Threads(clist)
        /\ \A t \in Threads(clist) :
              /\ <<t, sp>> \in Meaning /\ prog[t].opcode # "Match"
              /\ \A d \in Successors(prog, input, <<t, sp>>) :
                    \/ d[2] = sp /\ d[1] \in Threads(clist)
                    \/ d[2] = sp + 1 /\ d[1] \in Threads(nlist)
    BY <2>1, ThreadsAreAll
  <2>3. Threads(clist') = Threads(nlist) /\ Threads(nlist') = {} /\ Meaning' = Meaning
    BY <1>1, <2>1 DEF Threads, T!ToSet, Meaning
  <2>4. T!TypeOK'
    <3>1. nlist' \in Seq(DOMAIN prog) /\ T!IsInjective(nlist')
      BY <2>1 DEF T!IsInjective
    <3>2. sp' \in 1 .. Len(input) + 1 /\ i' \in 1 .. Len(clist') + 1
      BY <1>1, <2>1
    <3> QED
      BY <1>1, <2>1, <3>1, <3>2 DEF T!TypeOK
  <2>5. ThreadsReached'
    BY <2>1, <2>3 DEF TInv, ThreadsReached
  <2>6. ThreadsRun'
    BY <2>1 DEF ThreadsRun
  <2>7. PastIsDone'
    <3>1. ASSUME NEW c \in Meaning, c[2] < sp + 1
          PROVE  /\ prog[c[1]].opcode # "Match"
                 /\ \A d \in Successors(prog, input, c) : d[2] = sp + 1 => d[1] \in Threads(nlist)
      <4>1. c \in Configs(prog, input) /\ c[2] \in Nat /\ c = <<c[1], c[2]>>
        BY <1>1, ReachedClosed DEF Meaning, Configs
      <4>2. CASE c[2] < sp
        <5>1. \A d \in Successors(prog, input, c) : d[2] # sp + 1
          <6>1. \A d \in Successors(prog, input, c) : d[2] \in {c[2], c[2] + 1}
            BY <1>1, <4>1, SuccessorsNear
          <6>2. c[2] # sp + 1 /\ c[2] + 1 # sp + 1
            BY <1>1, <4>1, <4>2
          <6> QED
            BY <6>1, <6>2
        <5>2. prog[c[1]].opcode # "Match"
          BY <4>2 DEF TInv, PastIsDone
        <5> QED
          BY <5>1, <5>2
      <4>3. CASE c[2] = sp
        <5>1. c[1] \in Threads(clist) /\ c = <<c[1], sp>>
          BY <2>2, <4>1, <4>3
        <5>2. sp + 1 # sp
          BY <1>1
        <5>3. /\ prog[c[1]].opcode # "Match"
              /\ \A d \in Successors(prog, input, c) :
                    \/ d[2] = sp /\ d[1] \in Threads(clist)
                    \/ d[2] = sp + 1 /\ d[1] \in Threads(nlist)
          BY <2>2, <5>1, Zenon
        <5> QED
          BY <5>2, <5>3
      <4>4. c[2] < sp \/ c[2] = sp
        BY <1>1, <3>1, <4>1
      <4> QED
        BY <4>2, <4>3, <4>4, Zenon
    <3>2. sp' # 1
      BY <1>1, <2>1
    <3> QED
      BY <1>1, <2>1, <2>3, <3>1, <3>2 DEF PastIsDone
  <2>8. T!VerdictBeforeEnd'
    BY <2>1 DEF T!VerdictBeforeEnd
  <2> QED
    BY <1>1, <2>4, <2>5, <2>6, <2>7, <2>8 DEF TInv
<1> QED
  BY <1>4, <1>5, <1>6, <1>7, <1>8, <1>9 DEF T!Next

-----------------------------------------------------------------------------
(* Backtracking.                                                           *)

LEMMA SameMeaning ==
    ASSUME NEW p, NEW s
    PROVE  B!Accepts(p, s) = Accepts(p, s) /\ B!Forward(p) = Forward(p)
  BY SameReached DEF B!Accepts, Accepts, B!Forward, Forward

\* Forward programs go forward.
LEMMA SuccessorsForward ==
    ASSUME NEW p, WellFormed(p), Forward(p), NEW s \in Seq(Chars), NEW c \in Configs(p, s),
           NEW d \in Successors(p, s, c)
    PROVE  c[1] < d[1]
<1>1. c[1] \in DOMAIN p /\ c[1] \in Nat
  BY DEF Configs, WellFormed
<1>2. p[c[1]].opcode \in {"Char", "Match", "Jmp", "Split"}
  BY <1>1, InstructionOf
<1>3. CASE p[c[1]].opcode = "Char"
  BY <1>1, <1>3 DEF Successors
<1>4. CASE p[c[1]].opcode = "Match"
  BY <1>4 DEF Successors
<1>5. CASE p[c[1]].opcode = "Jmp"
  BY <1>1, <1>5 DEF Successors, Forward
<1>6. CASE p[c[1]].opcode = "Split"
  BY <1>1, <1>6 DEF Successors, Forward
<1> QED
  BY <1>2, <1>3, <1>4, <1>5, <1>6

\* recursive() answers what the program means.
LEMMA RecursiveAccepts ==
    ASSUME NEW p, WellFormed(p), Forward(p), NEW s \in Seq(Chars)
    PROVE  B!Recursive(p, s) <=> Accepts(p, s)
<1> DEFINE E(g, c) ==
             CASE p[c[1]].opcode = "Char" -> B!CharMatches(p, s, c) /\ g[<<c[1] + 1, c[2] + 1>>]
               [] p[c[1]].opcode = "Match" -> TRUE
               [] p[c[1]].opcode = "Jmp" -> g[<<p[c[1]].x, c[2]>>]
               [] p[c[1]].opcode = "Split" -> g[<<p[c[1]].x, c[2]>>] \/ g[<<p[c[1]].y, c[2]>>]
           G(g) == [c \in B!Configs(p, s) |-> E(g, c)]
           M == CHOOSE g : g = G(g)
           M0 == [c \in Configs(p, s) |-> ~Rejects(p, s, c)]
<1>1. ASSUME NEW c \in Configs(p, s) PROVE p[c[1]].opcode \in {"Char", "Match", "Jmp", "Split"}
  BY InstructionOf DEF Configs
<1>2. ASSUME NEW c \in Configs(p, s), NEW g, NEW h, \A d \in Successors(p, s, c) : g[d] = h[d]
      PROVE  E(g, c) = E(h, c)
  <2>1. CASE p[c[1]].opcode = "Char"
    BY <1>2, <2>1, SameSuccessors DEF Successors
  <2>2. CASE p[c[1]].opcode = "Match"
    BY <2>2
  <2>3. CASE p[c[1]].opcode = "Jmp"
    BY <1>2, <2>3 DEF Successors
  <2>4. CASE p[c[1]].opcode = "Split"
    BY <1>2, <2>4 DEF Successors
  <2> QED
    BY <1>1, <2>1, <2>2, <2>3, <2>4
<1>3. ASSUME NEW c \in Configs(p, s) PROVE E(M0, c) = M0[c]
  <2>1. \A d \in Successors(p, s, c) : M0[d] = ~Rejects(p, s, d)
    BY SuccessorsInside
  <2>2. Rejects(p, s, c) <=> p[c[1]].opcode # "Match" /\ \A d \in Successors(p, s, c) : Rejects(p, s, d)
    BY RejectsBySuccessors
  <2>3. M0[c] = ~Rejects(p, s, c)
    OBVIOUS
  <2> HIDE DEF M0
  <2>4. CASE p[c[1]].opcode = "Char"
    BY <2>1, <2>2, <2>3, <2>4, SameSuccessors DEF Successors
  <2>5. CASE p[c[1]].opcode = "Match"
    BY <2>2, <2>3, <2>5
  <2>6. CASE p[c[1]].opcode = "Jmp"
    BY <2>1, <2>2, <2>3, <2>6 DEF Successors
  <2>7. CASE p[c[1]].opcode = "Split"
    BY <2>1, <2>2, <2>3, <2>7 DEF Successors
  <2> QED
    BY <1>1, <2>4, <2>5, <2>6, <2>7
<1>4. M0 = G(M0)
  <2> HIDE DEF E
  <2> QED
    BY <1>3, SameSuccessors
<1>5. M = G(M)
  <2> HIDE DEF G, M0
  <2> QED
    BY <1>4
<1>6. \A c \in Configs(p, s) : M[c] = E(M, c)
  <2> HIDE DEF E, M
  <2> QED
    BY <1>5, SameSuccessors
<1>7. \A c \in Configs(p, s) : M[c] = M0[c]
  <2> DEFINE S == {n \in Nat : \E c \in Configs(p, s) : n = Len(p) - c[1] /\ M[c] # M0[c]}
  <2> HIDE DEF M, M0, E
  <2>1. SUFFICES ASSUME NEW e \in Configs(p, s), M[e] # M0[e] PROVE FALSE
    OBVIOUS
  <2>2. \A c \in Configs(p, s) : Len(p) - c[1] \in Nat
    BY DEF Configs, WellFormed
  <2>3. PICK n \in S : \A m \in S : n <= m
    BY <2>1, <2>2, LeastNumber
  <2>4. PICK c \in Configs(p, s) : n = Len(p) - c[1] /\ M[c] # M0[c]
    OBVIOUS
  <2>5. ASSUME NEW d \in Successors(p, s, c) PROVE M[d] = M0[d]
    <3>1. d \in Configs(p, s) /\ c[1] < d[1]
      BY <2>4, SuccessorsInside, SuccessorsForward
    <3>2. Len(p) - d[1] < n /\ Len(p) - d[1] \in Nat
      BY <2>2, <2>4, <3>1 DEF Configs, WellFormed
    <3>3. Len(p) - d[1] \notin S
      BY <2>3, <3>2
    <3> QED
      BY <3>1, <3>2, <3>3
  <2>6. E(M, c) = E(M0, c)
    BY <1>2, <2>4, <2>5
  <2> QED
    BY <1>3, <1>6, <2>4, <2>6
<1>8. B!Recursive(p, s) = M[<<1, 1>>]
  BY DEF B!Recursive
<1>9. <<1, 1>> \in Configs(p, s)
  BY ReachedClosed
<1> HIDE DEF M
<1> QED
  BY <1>7, <1>8, <1>9, AcceptsUnlessRejects

Splits == {k \in DOMAIN prog : prog[k].opcode = "Split"}

\* What waits comes from a Split each, of rising program counters below the
\* running thread's.
WaitsFrom(f) ==
    /\ f \in [1 .. Len(ready) -> Splits]
    /\ \A k, l \in 1 .. Len(ready) : k < l => f[k] < f[l]
    /\ \A k \in 1 .. Len(ready) : f[k] < ready[k][1] /\ f[k] < at[1]

\* All threads are at configurations of the program, and when none of them comes
\* to a Match, no thread does.
NotForgotten ==
    /\ at \in Meaning /\ \A k \in 1 .. Len(ready) : ready[k] \in Meaning
    /\ backtracking = "run" =>
          (Rejects(prog, input, at) /\ (\A k \in 1 .. Len(ready) : Rejects(prog, input, ready[k]))
              => ~Accepts(prog, input))

Answers ==
    /\ backtracking = "1" => Accepts(prog, input)
    /\ backtracking = "0" => ~Accepts(prog, input)
    /\ backtracking = "-1" /\ Forward(prog) => Cardinality(Splits) > MaxThread

BInv ==
    /\ B!TypeOK /\ input \in Seq(Chars)
    /\ NotForgotten /\ Answers
    /\ Forward(prog) => \E f : WaitsFrom(f)

LEMMA SameCardinality ==
    ASSUME NEW S
    PROVE  B!Cardinality(S) = Cardinality(S)
  BY DEF B!Cardinality, Cardinality

LEMMA VerdictIsAnswer ==
    ASSUME BInv
    PROVE  B!VerdictCorrect
<1>1. WellFormed(prog) /\ input \in Seq(Chars) /\ Answers
  BY SameWellFormed DEF BInv, B!TypeOK
<1>2. Forward(prog) => (B!Recursive(prog, input) <=> Accepts(prog, input))
  BY <1>1, RecursiveAccepts
<1>3. B!Cardinality({k \in DOMAIN prog : prog[k].opcode = "Split"}) = Cardinality(Splits)
  BY SameCardinality DEF Splits
<1> QED
  BY <1>1, <1>2, <1>3, SameMeaning DEF B!VerdictCorrect, Answers

LEMMA BStart ==
    ASSUME prog \in Programs, input \in Inputs, B!Start
    PROVE  BInv
<1>1. WellFormed(prog) /\ input \in Seq(Chars) /\ B!WellFormed(prog)
  BY ProgramsAssumption, SameWellFormed
<1>2. ready = <<>> /\ at = <<1, 1>> /\ backtracking = "run" /\ Len(ready) = 0
  BY DEF B!Start
<1>3. at \in Meaning /\ at \in Configs(prog, input)
  BY <1>1, <1>2, ReachedClosed DEF Meaning
<1>4. B!TypeOK
  BY <1>1, <1>2, <1>3, SameSuccessors, MaxThreadAssumption DEF B!TypeOK
<1>5. NotForgotten
  <2>1. Accepts(prog, input) <=> ~Rejects(prog, input, at)
    BY <1>1, <1>2, AcceptsUnlessRejects
  <2>2. 1 .. Len(ready) = {}
    BY <1>2
  <2> QED
    BY <1>3, <2>1, <2>2 DEF NotForgotten
<1>6. Answers
  BY <1>2 DEF Answers
<1>7. \E f : WaitsFrom(f)
  <2>1. WaitsFrom([k \in 1 .. 0 |-> k])
    BY <1>2 DEF WaitsFrom
  <2> QED
    BY <2>1
<1> QED
  BY <1>1, <1>4, <1>5, <1>6, <1>7 DEF BInv

\* When ready is full, there are more Splits than it holds.
LEMMA FullHasSplits ==
    ASSUME WellFormed(prog), NEW f, WaitsFrom(f), at[1] \in Splits,
           Len(ready) \in Nat, MaxThread <= Len(ready)
    PROVE  Cardinality(Splits) > MaxThread
<1> DEFINE n == Len(ready)
           g == [k \in 1 .. n + 1 |-> IF k = n + 1 THEN at[1] ELSE f[k]]
<1>1. Splits \subseteq Nat /\ Splits \subseteq 1 .. Len(prog) /\ Len(prog) \in Nat
  BY DEF Splits, WellFormed
<1>2. IsFiniteSet(Splits) /\ Cardinality(Splits) \in Nat
  BY <1>1, FirstNumbers, FS_Subset, FS_CardinalityType
<1>3. f \in [1 .. n -> Splits] /\ (\A k, l \in 1 .. n : k < l => f[k] < f[l])
      /\ (\A k \in 1 .. n : f[k] < at[1])
  BY DEF WaitsFrom
<1>4. g \in [1 .. n + 1 -> Splits]
  BY <1>3
<1>5. ASSUME NEW k \in 1 .. n + 1, NEW l \in 1 .. n + 1, k < l PROVE g[k] < g[l]
  <2>1. k \in 1 .. n /\ k # n + 1 /\ g[k] = f[k]
    BY <1>5
  <2>2. CASE l = n + 1
    BY <1>3, <2>1, <2>2
  <2>3. CASE l # n + 1
    <3>1. l \in 1 .. n /\ g[l] = f[l]
      BY <2>3
    <3> QED
      BY <1>3, <1>5, <2>1, <3>1
  <2> QED
    BY <2>2, <2>3
<1>6. g \in Injection(1 .. n + 1, Splits)
  <2>1. ASSUME NEW k \in 1 .. n + 1, NEW l \in 1 .. n + 1, g[k] = g[l] PROVE k = l
    <3>1. g[k] \in Nat /\ g[l] \in Nat
      BY <1>1, <1>4
    <3> HIDE DEF g
    <3>2. ~(k < l) /\ ~(l < k)
      BY <1>5, <2>1, <3>1
    <3> QED
      BY <3>2
  <2>2. DOMAIN g = 1 .. n + 1
    OBVIOUS
  <2> HIDE DEF g
  <2> QED
    BY <1>4, <2>1, <2>2 DEF Injection, IsInjective
<1>7. Cardinality(1 .. n + 1) <= Cardinality(Splits)
  BY <1>2, <1>6, FS_Injection
<1>8. Cardinality(1 .. n + 1) = n + 1
  BY FirstNumbers
<1> QED
  BY <1>2, <1>7, <1>8, MaxThreadAssumption

LEMMA BNext ==
    ASSUME BInv, B!Next
    PROVE  BInv'
<1>1. /\ B!WellFormed(prog) /\ WellFormed(prog) /\ input \in Seq(Chars)
      /\ at \in Configs(prog, input) /\ ready \in Seq(Configs(prog, input))
      /\ Len(ready) \in Nat /\ Len(ready) <= MaxThread /\ MaxThread \in Nat
      /\ backtracking = "run"
  <2>1. B!WellFormed(prog) /\ at \in Configs(prog, input) /\ Len(ready) <= MaxThread
        /\ ready \in Seq(Configs(prog, input)) /\ input \in Seq(Chars)
    BY SameSuccessors DEF BInv, B!TypeOK
  <2>2. backtracking = "run"
    BY DEF B!Next, B!CharStep, B!Dead, B!MatchStep, B!JmpStep, B!SplitStep
  <2> QED
    BY <2>1, <2>2, SameWellFormed, MaxThreadAssumption
<1>2. prog' = prog /\ input' = input
  BY DEF B!Next, B!CharStep, B!Dead, B!MatchStep, B!JmpStep, B!SplitStep
<1>3. /\ at[1] \in DOMAIN prog /\ DOMAIN prog = 1 .. Len(prog) /\ Len(prog) \in Nat
      /\ at[2] \in 1 .. Len(input) + 1 /\ at = <<at[1], at[2]>>
  BY <1>1 DEF Configs, WellFormed
<1>4. /\ at \in Meaning /\ Successors(prog, input, at) \subseteq Meaning
      /\ Meaning \subseteq Configs(prog, input)
  <2>1. at \in Meaning
    BY DEF BInv, NotForgotten
  <2> QED
    BY <1>1, <2>1, ReachedClosed DEF Meaning, Closed
<1>5. Rejects(prog, input, at) <=> /\ prog[at[1]].opcode # "Match"
                                   /\ \A d \in Successors(prog, input, at) : Rejects(prog, input, d)
  BY <1>1, RejectsBySuccessors
<1>6. /\ \A k \in 1 .. Len(ready) : ready[k] \in Meaning
      /\ Rejects(prog, input, at) /\ (\A k \in 1 .. Len(ready) : Rejects(prog, input, ready[k]))
            => ~Accepts(prog, input)
  BY <1>1 DEF BInv, NotForgotten
\* A thread with one way to go takes it.
<1>7. ASSUME prog[at[1]].opcode # "Match", Successors(prog, input, at) = {at'},
             ready' = ready, backtracking' = backtracking
      PROVE  BInv'
  <2>1. at' \in Meaning /\ at' \in Configs(prog, input)
    BY <1>4, <1>7
  <2>2. Rejects(prog, input, at) <=> Rejects(prog, input, at')
    BY <1>5, <1>7
  <2>3. B!TypeOK'
    BY <1>1, <1>2, <1>7, <2>1, SameSuccessors DEF B!TypeOK
  <2>4. NotForgotten'
    BY <1>1, <1>2, <1>6, <1>7, <2>1, <2>2 DEF NotForgotten, Meaning
  <2>5. Answers'
    BY <1>1, <1>7 DEF Answers
  <2>6. ASSUME Forward(prog) PROVE \E f : WaitsFrom(f)'
    <3>1. PICK f : WaitsFrom(f)
      BY <2>6 DEF BInv
    <3>2. at[1] < at'[1] /\ at'[1] \in Nat
      <4>1. at' \in Successors(prog, input, at)
        BY <1>7
      <4>2. at[1] < at'[1]
        BY <1>1, <2>6, <4>1, SuccessorsForward, Zenon
      <4> QED
        BY <1>3, <2>1, <4>2 DEF Configs
    <3>3. f \in [1 .. Len(ready) -> Nat]
      BY <1>3, <3>1 DEF WaitsFrom, Splits
    <3>4. \A k \in 1 .. Len(ready) : f[k] < at'[1]
      BY <1>3, <3>1, <3>2, <3>3 DEF WaitsFrom
    <3>5. WaitsFrom(f)'
      BY <1>2, <1>7, <3>1, <3>4 DEF WaitsFrom, Splits
    <3> QED
      BY <3>5
  <2> QED
    BY <1>1, <1>2, <2>3, <2>4, <2>5, <2>6 DEF BInv, Forward
<1>8. CASE B!CharStep
  <2>1. CharMatches(prog, input, at) /\ at' = <<at[1] + 1, at[2] + 1>> /\ UNCHANGED <<ready, backtracking>>
    BY <1>8, SameSuccessors DEF B!CharStep
  <2>2. prog[at[1]].opcode = "Char"
    BY <2>1 DEF CharMatches
  <2>3. Successors(prog, input, at) = {at'}
    BY <2>1, <2>2 DEF Successors
  <2> QED
    BY <1>7, <2>1, <2>2, <2>3
<1>9. CASE B!JmpStep
  <2>1. prog[at[1]].opcode = "Jmp" /\ at' = <<prog[at[1]].x, at[2]>> /\ UNCHANGED <<ready, backtracking>>
    BY <1>9 DEF B!JmpStep, B!Opcode
  <2>2. Successors(prog, input, at) = {at'}
    BY <2>1 DEF Successors
  <2> QED
    BY <1>7, <2>1, <2>2
<1>10. CASE B!MatchStep
  <2>1. prog[at[1]].opcode = "Match" /\ backtracking' = "1" /\ UNCHANGED <<at, ready>>
    BY <1>10 DEF B!MatchStep, B!Opcode
  <2>2. Accepts(prog, input)
    BY <1>4, <2>1 DEF Accepts, Meaning
  <2>3. B!TypeOK'
    BY <1>1, <1>2, <2>1, SameSuccessors DEF B!TypeOK
  <2>4. NotForgotten' /\ Answers'
    BY <1>2, <1>4, <1>6, <2>1, <2>2 DEF NotForgotten, Answers, Meaning
  <2>5. ASSUME Forward(prog) PROVE \E f : WaitsFrom(f)'
    BY <1>2, <2>1, <2>5 DEF BInv, WaitsFrom, Splits
  <2> QED
    BY <1>1, <1>2, <2>3, <2>4, <2>5 DEF BInv, Forward
<1>11. CASE B!Dead
  <2>1. prog[at[1]].opcode = "Char" /\ ~CharMatches(prog, input, at)
    BY <1>11, SameSuccessors DEF B!Dead, B!Opcode
  <2>2. Rejects(prog, input, at)
    <3>1. Successors(prog, input, at) = {}
      BY <2>1 DEF Successors
    <3> QED
      BY <1>5, <2>1, <3>1
  <2>3. CASE ready = <<>>
    <3>1. backtracking' = "0" /\ UNCHANGED <<ready, at>>
      BY <1>11, <2>3 DEF B!Dead
    <3>2. ~Accepts(prog, input)
      <4>1. 1 .. Len(ready) = {}
        BY <2>3
      <4> QED
        BY <1>6, <2>2, <4>1
    <3>3. B!TypeOK'
      BY <1>1, <1>2, <3>1, SameSuccessors DEF B!TypeOK
    <3>4. NotForgotten' /\ Answers'
      BY <1>2, <1>4, <1>6, <3>1, <3>2 DEF NotForgotten, Answers, Meaning
    <3>5. ASSUME Forward(prog) PROVE \E f : WaitsFrom(f)'
      BY <1>2, <3>1, <3>5 DEF BInv, WaitsFrom, Splits
    <3> QED
      BY <1>1, <1>2, <3>3, <3>4, <3>5 DEF BInv, Forward
  <2>4. CASE ready # <<>>
    <3> DEFINE n == Len(ready)
    <3>1. at' = ready[n] /\ ready' = SubSeq(ready, 1, n - 1) /\ backtracking' = backtracking
      BY <1>11, <2>4 DEF B!Dead
    <3>2. n \in Nat /\ n > 0
      BY <1>1, <2>4
    <3>3. /\ ready' \in Seq(Configs(prog, input)) /\ Len(ready') = n - 1
          /\ \A k \in 1 .. n - 1 : ready'[k] = ready[k]
      <4>1. \A k \in 1 .. n - 1 : ready[k] \in Configs(prog, input)
        BY <1>1, <3>2
      <4>2. n - 1 \in Int /\ 1 \in Int /\ (n - 1) - 1 + 1 = n - 1
        BY <3>2
      <4> HIDE DEF n
      <4>3. /\ ready' \in Seq(Configs(prog, input))
            /\ Len(ready') = IF 1 <= n - 1 THEN (n - 1) - 1 + 1 ELSE 0
            /\ \A k \in 1 .. (n - 1) - 1 + 1 : ready'[k] = ready[1 + k - 1]
        BY <3>1, <4>1, <4>2, SubSeqProperties
      <4> QED
        BY <3>2, <4>2, <4>3
    <3>4. at' \in Meaning /\ at' \in Configs(prog, input)
      BY <1>4, <1>6, <3>1, <3>2
    <3> HIDE DEF n
    <3>5. B!TypeOK'
      <4>1. backtracking' \in {"run", "1", "0", "-1"} /\ Len(ready') <= MaxThread
        BY <1>1, <3>1, <3>2, <3>3 DEF n
      <4>2. B!Configs(prog', input') = Configs(prog, input) /\ B!WellFormed(prog')
        BY <1>1, <1>2, SameSuccessors
      <4> QED
        BY <3>3, <3>4, <4>1, <4>2 DEF B!TypeOK
    <3>6. NotForgotten'
      <4>1. \A k \in 1 .. n - 1 : ready'[k] \in Meaning
        BY <1>6, <3>2, <3>3 DEF n
      <4>2. ASSUME Rejects(prog, input, at'), \A k \in 1 .. n - 1 : Rejects(prog, input, ready'[k])
            PROVE  ~Accepts(prog, input)
        <5>1. ASSUME NEW k \in 1 .. n PROVE Rejects(prog, input, ready[k])
          <6>1. CASE k = n
            BY <3>1, <4>2, <6>1
          <6>2. CASE k # n
            <7>1. k \in 1 .. n - 1
              BY <3>2, <6>2
            <7> QED
              BY <3>3, <4>2, <7>1
          <6> QED
            BY <6>1, <6>2
        <5> QED
          BY <1>6, <2>2, <5>1 DEF n
      <4> QED
        BY <1>2, <3>3, <3>4, <4>1, <4>2 DEF NotForgotten, Meaning
    <3>7. Answers'
      BY <1>1, <3>1 DEF Answers
    <3>8. ASSUME Forward(prog) PROVE \E f : WaitsFrom(f)'
      <4>1. PICK f : WaitsFrom(f)
        BY <3>8 DEF BInv
      <4>6. PICK g : g = [k \in 1 .. n - 1 |-> f[k]]
        OBVIOUS
      <4>2. f \in [1 .. n -> Splits] /\ (\A k, l \in 1 .. n : k < l => f[k] < f[l])
            /\ (\A k \in 1 .. n : f[k] < ready[k][1])
        BY <4>1 DEF WaitsFrom, n
      <4>3. /\ g \in [1 .. n - 1 -> Splits]
            /\ \A k, l \in 1 .. n - 1 : k < l => g[k] < g[l]
            /\ \A k \in 1 .. n - 1 : g[k] < ready[k][1]
        BY <3>2, <4>2, <4>6
      <4>4. ASSUME NEW k \in 1 .. n - 1 PROVE g[k] < at'[1]
        <5>1. f[k] < f[n] /\ f[n] < ready[n][1] /\ g[k] = f[k] /\ k \in 1 .. n /\ n \in 1 .. n
          BY <3>2, <4>2, <4>6
        <5>2. f[k] \in Nat /\ f[n] \in Nat /\ ready[n][1] \in Nat
          BY <1>3, <3>1, <3>4, <4>2, <5>1 DEF Splits, Configs
        <5> QED
          BY <3>1, <5>1, <5>2
      <4>5. WaitsFrom(g)'
        <5>1. Splits' = Splits /\ \A k \in 1 .. n - 1 : g[k] < ready'[k][1]
          BY <1>2, <3>3, <4>3 DEF Splits
        <5>2. g \in [1 .. Len(ready') -> Splits']
          BY <3>3, <4>3, <5>1
        <5>3. \A k, l \in 1 .. Len(ready') : k < l => g[k] < g[l]
          BY <3>3, <4>3
        <5>4. \A k \in 1 .. Len(ready') : g[k] < ready'[k][1] /\ g[k] < at'[1]
          BY <3>3, <4>4, <5>1
        <5> QED
          BY <5>2, <5>3, <5>4 DEF WaitsFrom
      <4> QED
        BY <4>5
    <3> QED
      BY <1>1, <1>2, <3>5, <3>6, <3>7, <3>8 DEF BInv, Forward
  <2> QED
    BY <2>3, <2>4
<1>12. CASE B!SplitStep
  <2> DEFINE n == Len(ready)
             x == prog[at[1]].x
             y == prog[at[1]].y
  <2>1. prog[at[1]].opcode = "Split" /\ at[1] \in Splits
    BY <1>3, <1>12 DEF B!SplitStep, B!Opcode, Splits
  <2>2. CASE n >= MaxThread
    <3>1. backtracking' = "-1" /\ UNCHANGED <<ready, at>>
      BY <1>12, <2>2 DEF B!SplitStep
    <3>2. Forward(prog) => Cardinality(Splits) > MaxThread
      <4>1. MaxThread <= Len(ready)
        BY <1>1, <2>2
      <4> QED
        BY <1>1, <2>1, <4>1, FullHasSplits DEF BInv
    <3>3. B!TypeOK'
      BY <1>1, <1>2, <3>1, SameSuccessors DEF B!TypeOK
    <3>4. NotForgotten' /\ Answers'
      BY <1>2, <1>4, <1>6, <3>1, <3>2 DEF NotForgotten, Answers, Meaning, Forward, Splits
    <3>5. ASSUME Forward(prog) PROVE \E f : WaitsFrom(f)'
      BY <1>2, <3>1, <3>5 DEF BInv, WaitsFrom, Splits
    <3> QED
      BY <1>1, <1>2, <3>3, <3>4, <3>5 DEF BInv, Forward
  <2>3. CASE ~(n >= MaxThread)
    <3>1. ready' = Append(ready, <<y, at[2]>>) /\ at' = <<x, at[2]>> /\ backtracking' = backtracking
      BY <1>12, <2>3 DEF B!SplitStep
    <3> DEFINE w == <<y, at[2]>>
    <3>2. Successors(prog, input, at) = {at', w}
      BY <2>1, <3>1 DEF Successors
    <3>3. at' \in Meaning /\ w \in Meaning /\ at' \in Configs(prog, input) /\ w \in Configs(prog, input)
      BY <1>4, <3>2
    <3>4. w[1] = y /\ at'[1] = x
      BY <3>1
    <3> HIDE DEF w
    <3>5. /\ ready' \in Seq(Configs(prog, input)) /\ Len(ready') = n + 1
          /\ ready'[n + 1] = w /\ \A k \in 1 .. n : ready'[k] = ready[k]
      BY <1>1, <3>1, <3>3 DEF w
    <3>6. n \in Nat /\ n + 1 <= MaxThread
      BY <1>1, <2>3
    <3> HIDE DEF n
    <3>7. B!TypeOK'
      BY <1>1, <1>2, <3>1, <3>3, <3>5, <3>6, SameSuccessors DEF B!TypeOK
    <3>8. \A k \in 1 .. n + 1 : k \in 1 .. n \/ k = n + 1
      BY <3>6
    <3>9. NotForgotten'
      <4>1. \A k \in 1 .. n + 1 : ready'[k] \in Meaning
        BY <1>6, <3>3, <3>5, <3>8 DEF n
      <4>2. ASSUME Rejects(prog, input, at'), \A k \in 1 .. n + 1 : Rejects(prog, input, ready'[k])
            PROVE  ~Accepts(prog, input)
        <5>1. \A k \in 1 .. n : Rejects(prog, input, ready[k])
          BY <3>5, <3>6, <4>2
        <5>2. Rejects(prog, input, w)
          BY <3>5, <3>6, <4>2
        <5>3. Rejects(prog, input, at)
          BY <1>5, <2>1, <3>2, <4>2, <5>2
        <5> QED
          BY <1>6, <5>1, <5>3 DEF n
      <4> QED
        BY <1>2, <3>3, <3>5, <4>1, <4>2 DEF NotForgotten, Meaning
    <3>10. Answers'
      BY <1>1, <3>1 DEF Answers
    <3>11. ASSUME Forward(prog) PROVE \E f : WaitsFrom(f)'
      <4>1. PICK f : WaitsFrom(f)
        BY <3>11 DEF BInv
      <4>8. PICK g : g = [k \in 1 .. n + 1 |-> IF k = n + 1 THEN at[1] ELSE f[k]]
        OBVIOUS
      <4>2. f \in [1 .. n -> Splits] /\ (\A k, l \in 1 .. n : k < l => f[k] < f[l])
            /\ (\A k \in 1 .. n : f[k] < ready[k][1] /\ f[k] < at[1])
        BY <4>1 DEF WaitsFrom, n
      <4>3. at[1] < x /\ at[1] < y /\ x \in Nat
        <5>1. at[1] < at'[1] /\ at[1] < w[1]
          BY <1>1, <3>2, <3>11, SuccessorsForward
        <5> QED
          BY <1>3, <3>3, <3>4, <5>1 DEF Configs
      <4>4. /\ g \in [1 .. n + 1 -> Splits] /\ g[n + 1] = at[1]
            /\ \A k \in 1 .. n : g[k] = f[k]
        BY <2>1, <3>6, <3>8, <4>2, <4>8
      <4> HIDE DEF x, y
      <4>5. ASSUME NEW k \in 1 .. n + 1, NEW l \in 1 .. n + 1, k < l PROVE g[k] < g[l]
        <5>1. k \in 1 .. n
          BY <3>6, <4>5
        <5> QED
          BY <3>8, <4>2, <4>4, <4>5, <5>1
      <4>6. ASSUME NEW k \in 1 .. n + 1 PROVE g[k] < ready'[k][1] /\ g[k] < at'[1]
        <5>1. CASE k = n + 1
          BY <3>4, <3>5, <4>3, <4>4, <5>1
        <5>2. CASE k \in 1 .. n
          <6>1. g[k] < ready'[k][1] /\ g[k] < at[1]
            BY <3>5, <4>2, <4>4, <5>2
          <6>2. g[k] \in Nat /\ at[1] \in Nat
            BY <1>3, <4>4 DEF Splits
          <6> QED
            BY <3>4, <4>3, <6>1, <6>2
        <5> QED
          BY <3>8, <5>1, <5>2
      <4>7. WaitsFrom(g)'
        <5>1. Splits' = Splits
          BY <1>2 DEF Splits
        <5>2. g \in [1 .. Len(ready') -> Splits']
          BY <3>5, <4>4, <5>1
        <5>3. \A k, l \in 1 .. Len(ready') : k < l => g[k] < g[l]
          BY <3>5, <4>5
        <5>4. \A k \in 1 .. Len(ready') : g[k] < ready'[k][1] /\ g[k] < at'[1]
          BY <3>5, <4>6
        <5> QED
          BY <5>2, <5>3, <5>4 DEF WaitsFrom
      <4> QED
        BY <4>7
    <3> QED
      BY <1>1, <1>2, <3>7, <3>9, <3>10, <3>11 DEF BInv, Forward
  <2> QED
    BY <2>2, <2>3
<1> QED
  BY <1>8, <1>9, <1>10, <1>11, <1>12 DEF B!Next

-----------------------------------------------------------------------------
(* The program: Thompson's algorithm first, backtracking then.             *)

Inv == TInv /\ BInv

LEMMA InvInductive == Spec => []Inv
<1>1. Init => Inv
  BY TStart, BStart DEF Init, Inv
<1>2. Inv /\ [Next]_vars => Inv'
  <2> SUFFICES ASSUME Inv, [Next]_vars PROVE Inv'
    OBVIOUS
  <2>1. CASE T!Next /\ UNCHANGED backtrackingvm
    <3>1. TInv'
      BY <2>1, TNext DEF Inv
    <3>2. UNCHANGED <<prog, input, ready, at, backtracking>>
      BY <2>1 DEF backtrackingvm, T!Next, T!CharThread, T!MatchThread, T!JmpThread, T!SplitThread,
                  T!NextChar, T!NoMatch
    <3>3. BInv'
      BY <3>2 DEF Inv, BInv, B!TypeOK, NotForgotten, Answers, WaitsFrom, Meaning, Splits
    <3> QED
      BY <3>1, <3>3 DEF Inv
  <2>2. CASE B!Next /\ UNCHANGED thompsonvm
    <3>1. BInv'
      BY <2>2, BNext DEF Inv
    <3>2. UNCHANGED <<prog, input, clist, nlist, i, sp, thompson>>
      BY <2>2 DEF thompsonvm, B!Next, B!CharStep, B!Dead, B!MatchStep, B!JmpStep, B!SplitStep
    <3>3. TInv'
      BY <3>2 DEF Inv, TInv, T!TypeOK, ThreadsReached, ThreadsRun, PastIsDone, Meaning, Threads,
                  T!VerdictBeforeEnd
    <3> QED
      BY <3>1, <3>3 DEF Inv
  <2>3. CASE UNCHANGED vars
    <3>1. UNCHANGED <<prog, input, clist, nlist, i, sp, thompson, ready, at, backtracking>>
      BY <2>3 DEF vars, thompsonvm, backtrackingvm
    <3>2. TInv'
      BY <3>1 DEF Inv, TInv, T!TypeOK, ThreadsReached, ThreadsRun, PastIsDone, Meaning, Threads,
                  T!VerdictBeforeEnd
    <3>3. BInv'
      BY <3>1 DEF Inv, BInv, B!TypeOK, NotForgotten, Answers, WaitsFrom, Meaning, Splits
    <3> QED
      BY <3>2, <3>3 DEF Inv
  <2> QED
    BY <2>1, <2>2, <2>3 DEF Next
<1> QED
  BY <1>1, <1>2, PTL DEF Spec

\* For every program and every string, when the threads of a character have all
\* run they are the configurations the program can be in, and the lists hold
\* each program counter once (thompson.cpp:54-72).
THEOREM ThreadsTheorem == Spec => []ThreadsAreConfigurations
<1>1. ASSUME TInv PROVE T!ThreadsAreConfigurations
  <2> SUFFICES ASSUME thompson = "run", sp <= Len(input), i > Len(clist)
               PROVE  T!ToSet(clist) = {pc \in DOMAIN prog : <<pc, sp>> \in Meaning}
    BY SameReached DEF T!ThreadsAreConfigurations, Meaning
  <2>1. /\ \A c \in Meaning : c[2] = sp => c[1] \in Threads(clist)
        /\ \A t \in Threads(clist) : <<t, sp>> \in Meaning
    BY <1>1, ThreadsAreAll
  <2>2. Threads(clist) \subseteq DOMAIN prog
    BY <1>1 DEF TInv, T!TypeOK, Threads, T!ToSet
  <2>3. \A pc \in DOMAIN prog : <<pc, sp>> \in Meaning => pc \in Threads(clist)
    BY <2>1
  <2> QED
    BY <2>1, <2>2, <2>3 DEF Threads
<1>2. Inv => ThreadsAreConfigurations
  BY <1>1 DEF Inv, ThreadsAreConfigurations, TInv
<1> QED
  BY <1>2, InvInductive, PTL

\* For every program and every string, Thompson sees the matches that end before
\* the string does, and no others; recursiveloop and backtrackingvm answer what
\* the program means, as recursive does on programs without loops, or have no
\* room for a thread, which such a program meets only when it has more than
\* MAXTHREAD Splits (thompson.cpp:51, backtracking.cpp:90-133).
THEOREM VerdictsTheorem == Spec => []VerdictsCorrect
<1>1. Inv => VerdictsCorrect
  BY VerdictIsAnswer DEF Inv, VerdictsCorrect, TInv, BInv
<1> QED
  BY <1>1, InvInductive, PTL
=============================================================================
