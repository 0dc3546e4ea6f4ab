--------------------------- MODULE MahjongProofs ---------------------------
(****************************************************************************)
(* Theorems about Mahjong: mjlib.lua decides every hand of the first suit   *)
(* right, and the tables every hand of up to fourteen tiles.  A suit is     *)
(* melds if and only if it decomposes: if there are numbers r[i] of runs    *)
(* that start at each tile and leave triplets or nothing.  What is proved   *)
(* of the greedy loop, of the weights that find the eyes and of the tables  *)
(* is proved of such r.                                                     *)
(****************************************************************************)
EXTENDS Mahjong, TLAPS, WellFoundedInduction

\* A set of numbers that is not empty has a least one.
LEMMA LeastNat ==
    ASSUME NEW S \in SUBSET Nat, S # {}
    PROVE  \E m \in S : \A k \in S : m <= k
<1> DEFINE R == OpToRel(<, Nat)
<1>1. IsWellFoundedOn(R, Nat)
  BY NatLessThanWellFounded
<1>2. \A x, y \in Nat : x < y => <<x, y>> \in R
  BY DEF OpToRel
<1> HIDE DEF R
<1>3. PICK m \in S : \A k \in S : ~ (<<k, m>> \in R)
  BY <1>1, WFMin
<1>4. ASSUME NEW k \in S PROVE m <= k
  <2>1. ~ (k < m)
    BY <1>2, <1>3
  <2> QED BY <2>1
<1> QED BY <1>4

\* Induction, said with a set in the place of a predicate.
LEMMA Induction ==
    ASSUME NEW S \in SUBSET Nat, 0 \in S, \A n \in S : n + 1 \in S
    PROVE  Nat \subseteq S
<1> DEFINE Rest == Nat \ S
<1>1. CASE Rest # {}
  <2>1. PICK m \in Rest : \A k \in Rest : m <= k
    BY <1>1, LeastNat
  <2>2. m # 0 /\ m - 1 \in Nat /\ m - 1 \notin Rest
    BY <2>1
  <2> QED BY <2>2
<1> QED BY <1>1

\* Induction from a up to b.
LEMMA Climb ==
    ASSUME NEW a \in Int, NEW b \in Int, NEW S, a \in S,
           \A k \in a .. b - 1 : k \in S => k + 1 \in S
    PROVE  a .. b \subseteq S
<1> DEFINE Steps == {n \in Nat : a + n <= b => a + n \in S}
<1>1. 0 \in Steps
  OBVIOUS
<1>2. ASSUME NEW n \in Steps PROVE n + 1 \in Steps
  <2>1. CASE a + (n + 1) <= b
    <3>1. a + n \in a .. b - 1 /\ a + n \in S /\ (a + n) + 1 = a + (n + 1)
      BY <2>1
    <3> QED BY <3>1
  <2> QED BY <2>1
<1>3. Nat \subseteq Steps
  <2> HIDE DEF Steps
  <2>1. Steps \in SUBSET Nat
    BY DEF Steps
  <2> QED BY <1>1, <1>2, <2>1, Induction
<1>4. ASSUME NEW k \in a .. b PROVE k \in S
  <2>1. k - a \in Nat /\ a + (k - a) = k
    OBVIOUS
  <2>2. k - a \in Steps
    BY <1>3, <2>1
  <2> QED BY <2>1, <2>2
<1> QED BY <1>4

\* F[i] is what round i makes of its argument, and f what comes of a after each
\* number of rounds.
StepOn(A, F) == F \in [Nat -> [A -> A]]
Iterates(f, A, a, F) == f \in [Nat -> A] /\ f[0] = a /\ \A i \in Nat : f[i + 1] = F[i][f[i]]

\* f starts with a and goes on with F, as far as n.
Follows(f, a, F, n) == f[0] = a /\ \A i \in 0 .. n - 1 : f[i + 1] = F[i][f[i]]

\* Two such functions agree where both are defined.
LEMMA FollowsOnce ==
    ASSUME NEW a, NEW F, NEW n \in Nat, NEW m \in Nat, m <= n, NEW f, NEW g,
           Follows(f, a, F, n), Follows(g, a, F, m)
    PROVE  f[m] = g[m]
<1> DEFINE S == {i \in Nat : i <= m => f[i] = g[i]}
<1>1. 0 \in S
  BY DEF Follows
<1>2. ASSUME NEW i \in S PROVE i + 1 \in S
  <2>1. CASE i + 1 <= m
    <3>1. i \in 0 .. n - 1 /\ i \in 0 .. m - 1 /\ f[i] = g[i]
      BY <2>1
    <3>2. f[i + 1] = F[i][f[i]] /\ g[i + 1] = F[i][g[i]]
      BY <3>1 DEF Follows
    <3> QED BY <3>1, <3>2
  <2> QED BY <2>1
<1>3. Nat \subseteq S
  <2> HIDE DEF S
  <2>1. S \in SUBSET Nat
    BY DEF S
  <2> QED BY <1>1, <1>2, <2>1, Induction
<1> QED BY <1>3

\* Primitive recursion: there is one for all numbers.
LEMMA Recursion ==
    ASSUME NEW A, NEW a, NEW F, a \in A, StepOn(A, F)
    PROVE  \E f : Iterates(f, A, a, F)
<1> DEFINE S == {n \in Nat : \E f \in [0 .. n -> A] : Follows(f, a, F, n)}
           Upto(n) == CHOOSE f \in [0 .. n -> A] : Follows(f, a, F, n)
           h == [n \in Nat |-> Upto(n)[n]]
<1> USE DEF StepOn
<1>1. 0 \in S
  <2> DEFINE f == [i \in 0 .. 0 |-> a]
  <2>1. f \in [0 .. 0 -> A] /\ Follows(f, a, F, 0)
    BY DEF Follows
  <2> QED BY <2>1
<1>2. ASSUME NEW n \in S PROVE n + 1 \in S
  <2>1. PICK f \in [0 .. n -> A] : Follows(f, a, F, n)
    OBVIOUS
  <2> DEFINE g == [i \in 0 .. n + 1 |-> IF i = n + 1 THEN F[n][f[n]] ELSE f[i]]
  <2>2. n \in Nat /\ f[n] \in A /\ F[n][f[n]] \in A
    OBVIOUS
  <2>3. g \in [0 .. n + 1 -> A]
    BY <2>2
  <2>4. g[0] = a
    BY <2>1, <2>2 DEF Follows
  <2>5. ASSUME NEW i \in 0 .. n PROVE g[i + 1] = F[i][g[i]]
    <3>1. CASE i = n
      <4>1. n + 1 \in 0 .. n + 1 /\ n \in 0 .. n + 1 /\ n # n + 1
        BY <2>2
      <4>2. g[n + 1] = F[n][f[n]] /\ g[n] = f[n]
        BY <4>1
      <4> QED BY <3>1, <4>2
    <3>2. CASE i # n
      <4>1. i \in 0 .. n - 1 /\ i + 1 \in 0 .. n
        BY <2>2, <3>2
      <4>2. f[i + 1] = F[i][f[i]]
        BY <2>1, <4>1 DEF Follows
      <4>3. g[i] = f[i] /\ g[i + 1] = f[i + 1]
        BY <2>2, <4>1
      <4> QED BY <4>2, <4>3
    <3> QED BY <3>1, <3>2
  <2>6. Follows(g, a, F, n + 1)
    <3>1. (n + 1) - 1 = n
      BY <2>2
    <3> QED BY <2>4, <2>5, <3>1 DEF Follows
  <2> QED BY <2>2, <2>3, <2>6
<1>3. Nat \subseteq S
  <2> HIDE DEF S
  <2>1. S \in SUBSET Nat
    BY DEF S
  <2> QED BY <1>1, <1>2, <2>1, Induction
<1>4. ASSUME NEW n \in Nat PROVE Upto(n) \in [0 .. n -> A] /\ Follows(Upto(n), a, F, n)
  BY <1>3
<1> HIDE DEF Upto
<1>5. h \in [Nat -> A]
  BY <1>4
<1>6. h[0] = a
  BY <1>4 DEF Follows
<1>7. ASSUME NEW i \in Nat PROVE h[i + 1] = F[i][h[i]]
  <2>1. Follows(Upto(i + 1), a, F, i + 1) /\ Follows(Upto(i), a, F, i)
    BY <1>4
  <2>2. Upto(i + 1)[i] = Upto(i)[i]
    BY <2>1, FollowsOnce
  <2>3. Upto(i + 1)[i + 1] = F[i][Upto(i + 1)[i]]
    BY <2>1 DEF Follows
  <2> QED BY <2>2, <2>3
<1>8. Iterates(h, A, a, F)
  <2> HIDE DEF h
  <2> QED BY <1>5, <1>6, <1>7 DEF Iterates
<1> QED BY <1>8

-----------------------------------------------------------------------------
(* Sums *)

\* The hands there can be, of four of each tile.
Hand == [AllTiles -> 0 .. 4]

\* The running sums that SumTo takes a difference of.
Sums(c) == CHOOSE sum : sum = [i \in 0 .. 34 |-> IF i = 0 THEN 0 ELSE sum[i - 1] + c[i]]

\* There are such sums, and each adds a tile's count to the one before.
LEMMA SumFacts ==
    ASSUME NEW c \in [AllTiles -> Int]
    PROVE  /\ Sums(c) \in [0 .. 34 -> Int]
           /\ Sums(c)[0] = 0
           /\ \A i \in AllTiles : Sums(c)[i] = Sums(c)[i - 1] + c[i]
           /\ \A i, j \in Int : SumTo(c, i, j) = Sums(c)[j] - Sums(c)[i - 1]
<1> DEFINE F == [i \in Nat |-> [x \in Int |-> IF i + 1 \in AllTiles THEN x + c[i + 1] ELSE 0]]
           Is(sum) == sum = [i \in 0 .. 34 |-> IF i = 0 THEN 0 ELSE sum[i - 1] + c[i]]
<1>1. StepOn(Int, F)
  BY DEF StepOn
<1>2. PICK f : Iterates(f, Int, 0, F)
  <2> HIDE DEF F
  <2> QED BY <1>1, Recursion
<1>3. \A i \in AllTiles : f[i] = f[i - 1] + c[i]
  <2>1. ASSUME NEW i \in AllTiles PROVE f[i] = f[i - 1] + c[i]
    <3>1. i - 1 \in Nat /\ (i - 1) + 1 = i
      BY DEF AllTiles
    <3>2. f[i] = F[i - 1][f[i - 1]]
      BY <1>2, <3>1 DEF Iterates
    <3>3. f[i - 1] \in Int
      BY <1>2, <3>1 DEF Iterates
    <3> QED BY <3>1, <3>2, <3>3
  <2> QED BY <2>1
<1> DEFINE s == [i \in 0 .. 34 |-> f[i]]
<1>4. Is(s)
  BY <1>2, <1>3 DEF AllTiles, Iterates
<1>5. Is(Sums(c))
  <2> HIDE DEF s
  <2> QED BY <1>4 DEF Sums
<1>6. Sums(c)[0] = 0 /\ \A i \in AllTiles : Sums(c)[i] = Sums(c)[i - 1] + c[i]
  BY <1>5 DEF AllTiles
<1>7. Sums(c) \in [0 .. 34 -> Int]
  <2> DEFINE S == {n \in 0 .. 34 : Sums(c)[n] \in Int}
  <2>1. 0 \in S
    BY <1>6
  <2>2. ASSUME NEW n \in 0 .. 34 - 1, n \in S PROVE n + 1 \in S
    <3>1. n + 1 \in AllTiles /\ (n + 1) - 1 = n /\ Sums(c)[n] \in Int
      BY <2>2 DEF AllTiles
    <3>2. Sums(c)[n + 1] = Sums(c)[n] + c[n + 1]
      BY <1>6, <3>1
    <3> QED BY <3>1, <3>2
  <2>3. 0 .. 34 \subseteq S
    <3> HIDE DEF S
    <3> QED BY <2>1, <2>2, Climb
  <2>4. \A n \in 0 .. 34 : Sums(c)[n] \in Int
    BY <2>3
  <2>5. Sums(c) = [n \in 0 .. 34 |-> Sums(c)[n]]
    BY <1>5
  <2> HIDE DEF Is, S
  <2> QED BY <2>4, <2>5
<1>8. \A i, j \in Int : SumTo(c, i, j) = Sums(c)[j] - Sums(c)[i - 1]
  BY DEF SumTo, Sums
<1> QED BY <1>6, <1>7, <1>8

\* Where nothing is held, nothing is added to a sum.
LEMMA SumFlat ==
    ASSUME NEW c \in Hand, NEW a \in 0 .. 34, NEW b \in a .. 34,
           \A j \in a + 1 .. b : c[j] = 0
    PROVE  Sums(c)[b] = Sums(c)[a]
<1> DEFINE S == {k \in a .. b : Sums(c)[k] = Sums(c)[a]}
<1>1. c \in [AllTiles -> Int]
  BY DEF Hand
<1>2. a \in S
  OBVIOUS
<1>3. ASSUME NEW k \in a .. b - 1, k \in S PROVE k + 1 \in S
  <2>1. k + 1 \in AllTiles /\ (k + 1) - 1 = k /\ k + 1 \in a + 1 .. b /\ k \in 0 .. 34 /\ k + 1 \in a .. b
    BY DEF AllTiles
  <2>2. Sums(c)[k + 1] = Sums(c)[k] + 0 /\ Sums(c)[k] \in Int
    BY <1>1, <2>1, SumFacts
  <2>3. Sums(c)[k] = Sums(c)[a]
    BY <1>3
  <2>4. Sums(c)[k + 1] = Sums(c)[a]
    BY <2>2, <2>3
  <2> QED BY <2>1, <2>4
<1>4. a .. b \subseteq S
  <2> HIDE DEF S
  <2>1. a \in Int /\ b \in Int
    OBVIOUS
  <2> QED BY <1>2, <1>3, <2>1, Climb
<1> QED BY <1>4

\* They never shrink.
LEMMA SumGrows ==
    ASSUME NEW c \in Hand, NEW a \in 0 .. 34, NEW b \in a .. 34
    PROVE  Sums(c)[a] <= Sums(c)[b]
<1> DEFINE S == {k \in a .. b : Sums(c)[a] <= Sums(c)[k]}
<1>1. /\ c \in [AllTiles -> Int] /\ \A i \in AllTiles : c[i] >= 0
      /\ a \in Int /\ b \in Int
  BY DEF Hand
<1>2. Sums(c) \in [0 .. 34 -> Int] /\ \A i \in AllTiles : Sums(c)[i] = Sums(c)[i - 1] + c[i]
  BY <1>1, SumFacts
<1>3. a \in S
  <2>1. Sums(c)[a] \in Int
    BY <1>2
  <2> QED BY <2>1
<1>4. ASSUME NEW k \in a .. b - 1, k \in S PROVE k + 1 \in S
  <2>1. k + 1 \in AllTiles /\ (k + 1) - 1 = k /\ k \in 0 .. 34 /\ k + 1 \in a .. b
    BY DEF AllTiles
  <2>2. Sums(c)[k + 1] = Sums(c)[k] + c[k + 1] /\ c[k + 1] \in Int /\ c[k + 1] >= 0
    BY <1>1, <1>2, <2>1
  <2>3. Sums(c)[k] \in Int /\ Sums(c)[a] \in Int /\ Sums(c)[a] <= Sums(c)[k]
    BY <1>2, <1>4, <2>1
  <2>4. Sums(c)[a] <= Sums(c)[k + 1]
    BY <2>2, <2>3
  <2> QED BY <2>1, <2>4
<1>5. a .. b \subseteq S
  <2> HIDE DEF S
  <2> QED BY <1>1, <1>3, <1>4, Climb
<1> QED BY <1>5

\* A part of a hand has no more tiles than the hand.
LEMMA PartSum ==
    ASSUME NEW c \in Hand, NEW a \in 1 .. 34, NEW b \in a .. 34
    PROVE  SumTo(c, a, b) \in Int /\ SumTo(c, 1, 34) \in Int /\ SumTo(c, a, b) <= SumTo(c, 1, 34)
<1>1. c \in [AllTiles -> Int]
  BY DEF Hand
<1>2. Sums(c) \in [0 .. 34 -> Int] /\ \A i, j \in Int : SumTo(c, i, j) = Sums(c)[j] - Sums(c)[i - 1]
  BY <1>1, SumFacts
<1>3. Sums(c)[0] <= Sums(c)[a - 1] /\ Sums(c)[b] <= Sums(c)[34]
  BY SumGrows
<1>4. SumTo(c, a, b) = Sums(c)[b] - Sums(c)[a - 1] /\ SumTo(c, 1, 34) = Sums(c)[34] - Sums(c)[0]
  <2>1. a \in Int /\ b \in Int /\ 1 - 1 = 0
    OBVIOUS
  <2> QED BY <1>2, <2>1
<1>5. /\ Sums(c)[0] \in Int /\ Sums(c)[a - 1] \in Int /\ Sums(c)[b] \in Int /\ Sums(c)[34] \in Int
  <2>1. \A k \in {0, a - 1, b, 34} : k \in 0 .. 34
    OBVIOUS
  <2> QED BY <1>2, <2>1
<1> QED BY <1>3, <1>4, <1>5

-----------------------------------------------------------------------------
(* M._check_color *)

\* What the loop of M._check_color works on.
Accs == [ok : BOOLEAN, t : [1 .. 9 -> Int]]

\* A round keeps it such.
LEMMA RoundType ==
    ASSUME NEW acc \in Accs, NEW i \in Int, NEW max \in Int
    PROVE  Round(acc, i, max) \in Accs
<1>1. acc.t \in [1 .. 9 -> Int] /\ acc.ok \in BOOLEAN
  BY DEF Accs
<1>2. Runs(At(acc.t, i)) \in Int
  BY <1>1 DEF Runs
<1>3. \A n \in Int : RunsOff(acc.t, i, n) \in [1 .. 9 -> Int]
  BY <1>1 DEF RunsOff
<1>4. \/ Round(acc, i, max) = acc
      \/ Round(acc, i, max) = [acc EXCEPT !.ok = FALSE]
      \/ Round(acc, i, max) = [acc EXCEPT !.t = RunsOff(acc.t, i, Runs(At(acc.t, i)))]
  BY DEF Round
<1> QED BY <1>2, <1>3, <1>4 DEF Accs

\* What is left after each round.
Rounds(c, min, max) ==
    CHOOSE rounds : rounds =
        [i \in min - 1 .. max |->
            IF i < min THEN [ok |-> TRUE, t |-> [k \in 1 .. 9 |-> c[min + k - 1]]]
            ELSE Round(rounds[i - 1], i, max)]

\* There are such rounds, and CheckColor asks the last of them.
LEMMA RoundFacts ==
    ASSUME NEW c \in Hand, NEW min \in {1, 10, 19}, NEW max, max = min + 8
    PROVE  /\ CheckColor(c, min, max) = Rounds(c, min, max)[max].ok
           /\ Rounds(c, min, max)[min - 1] = [ok |-> TRUE, t |-> [k \in 1 .. 9 |-> c[min + k - 1]]]
           /\ \A i \in min .. max : Rounds(c, min, max)[i] = Round(Rounds(c, min, max)[i - 1], i, max)
           /\ \A i \in min - 1 .. max : Rounds(c, min, max)[i] \in Accs
<1> DEFINE start == [ok |-> TRUE, t |-> [k \in 1 .. 9 |-> c[min + k - 1]]]
           F == [i \in Nat |-> [x \in Accs |-> Round(x, min + i, max)]]
           Is(r) == r = [i \in min - 1 .. max |-> IF i < min THEN start ELSE Round(r[i - 1], i, max)]
<1>1. start \in Accs
  <2>1. \A k \in 1 .. 9 : c[min + k - 1] \in Int
    BY DEF Hand, AllTiles
  <2> QED BY <2>1 DEF Accs
<1>2. StepOn(Accs, F)
  <2>1. \A i \in Nat, x \in Accs : Round(x, min + i, max) \in Accs
    BY RoundType
  <2> QED BY <2>1 DEF StepOn
<1>3. PICK f : Iterates(f, Accs, start, F)
  <2> HIDE DEF F, start
  <2> QED BY <1>1, <1>2, Recursion
<1>4. \A i \in Nat : f[i] \in Accs /\ f[i + 1] = Round(f[i], min + i, max)
  BY <1>3 DEF Iterates
<1> HIDE DEF F, start
<1> DEFINE s == [i \in min - 1 .. max |-> f[i - min + 1]]
<1>5. \A i \in min - 1 .. max : s[i] = IF i < min THEN start ELSE Round(s[i - 1], i, max)
  <2>1. ASSUME NEW i \in min - 1 .. max PROVE s[i] = IF i < min THEN start ELSE Round(s[i - 1], i, max)
    <3>1. CASE i < min
      <4>1. i - min + 1 = 0
        BY <3>1
      <4> QED BY <1>3, <3>1, <4>1 DEF Iterates
    <3>2. CASE ~(i < min)
      <4>1. i - min \in Nat /\ (i - 1) - min + 1 = i - min /\ min + (i - min) = i
            /\ i - 1 \in min - 1 .. max
        BY <3>2
      <4>2. f[i - min + 1] = Round(f[i - min], i, max)
        BY <1>4, <4>1
      <4> QED BY <3>2, <4>1, <4>2
    <3> QED BY <3>1, <3>2
  <2> QED BY <2>1
<1>6. Is(s)
  <2>1. s = [i \in min - 1 .. max |-> s[i]]
    OBVIOUS
  <2> HIDE DEF s
  <2> QED BY <1>5, <2>1
<1>7. Is(Rounds(c, min, max))
  <2> HIDE DEF s
  <2> QED BY <1>6 DEF Rounds, start
<1> DEFINE r == Rounds(c, min, max)
<1>8. r[min - 1] = start /\ \A i \in min .. max : r[i] = Round(r[i - 1], i, max)
  <2> HIDE DEF r
  <2>1. Is(r)
    BY <1>7 DEF r
  <2> QED BY <2>1
<1>9. \A i \in min - 1 .. max : r[i] \in Accs
  <2> HIDE DEF r
  <2> DEFINE S == {i \in min - 1 .. max : r[i] \in Accs}
  <2>1. min - 1 \in S
    BY <1>1, <1>8
  <2>2. ASSUME NEW i \in min - 1 .. max - 1, i \in S PROVE i + 1 \in S
    <3>1. i + 1 \in min .. max /\ (i + 1) - 1 = i
      OBVIOUS
    <3>2. r[i + 1] = Round(r[i], i + 1, max)
      BY <1>8, <3>1
    <3> QED BY <2>2, <3>1, <3>2, RoundType
  <2>3. min - 1 .. max \subseteq S
    <3> HIDE DEF S
    <3> QED BY <2>1, <2>2, Climb
  <2> QED BY <2>3
<1>10. CheckColor(c, min, max) = Rounds(c, min, max)[max].ok
  BY DEF CheckColor, Rounds
<1> QED BY <1>8, <1>9, <1>10 DEF start

-----------------------------------------------------------------------------
(* The greedy decision of the first suit *)

\* r[i] runs start at tile i, and with them the tiles of from .. to, but for
\* the pair eye, are used up or in triplets.
Decomposes(c, from, to, eye, r) ==
    /\ r \in [from - 2 .. to -> 0 .. 4]
    /\ r[from - 2] = 0 /\ r[from - 1] = 0 /\ r[to - 1] = 0 /\ r[to] = 0
    /\ \A i \in from .. to :
          c[i] - (IF i = eye THEN 2 ELSE 0) - r[i] - r[i - 1] - r[i - 2] \in {0, 3}

\* What is left of the counts c after k rounds that took f[i] runs off at i.
Left(c, f, k, t) ==
    \A j \in k + 1 .. 9 :
        t[j] = c[j] - (IF j - 1 <= k THEN f[j - 1] ELSE 0) - (IF j - 2 <= k THEN f[j - 2] ELSE 0)

\* One round of the loop, when it goes on and what it leaves.
LEMMA RoundStep ==
    ASSUME NEW c \in [1 .. 9 -> Int], NEW f \in [-1 .. 9 -> Int], NEW k \in 0 .. 8,
           NEW acc \in Accs, acc.ok, Left(c, f, k, acc.t), f[k + 1] = Runs(acc.t[k + 1])
    PROVE  /\ Round(acc, k + 1, 9).ok <=>
                  \/ f[k + 1] = 0
                  \/ k <= 6 /\ acc.t[k + 2] >= f[k + 1] /\ acc.t[k + 3] >= f[k + 1]
           /\ Round(acc, k + 1, 9).ok => Left(c, f, k + 1, Round(acc, k + 1, 9).t)
<1> DEFINE t == acc.t
           n == f[k + 1]
<1>1. t \in [1 .. 9 -> Int] /\ k + 1 \in 1 .. 9 /\ At(t, k + 1) = t[k + 1]
  BY DEF Accs, At
<1>2. n \in Int /\ n = Runs(At(t, k + 1))
  BY <1>1
<1>3. CASE n = 0
  <2>1. Round(acc, k + 1, 9) = acc
    BY <1>2, <1>3 DEF Round
  <2>2. Left(c, f, k + 1, t)
    BY <1>1, <1>3 DEF Left
  <2> QED BY <1>3, <2>1, <2>2
<1>4. CASE n # 0 /\ (k > 6 \/ t[k + 2] < n \/ t[k + 3] < n)
  <2>1. (k + 1) + 2 > 9 \/ At(t, (k + 1) + 1) < n \/ At(t, (k + 1) + 2) < n
    BY <1>4 DEF At
  <2>2. Round(acc, k + 1, 9) = [acc EXCEPT !.ok = FALSE]
    BY <1>2, <1>4, <2>1 DEF Round
  <2>3. ~ Round(acc, k + 1, 9).ok
    BY <2>2 DEF Accs
  <2> QED BY <1>1, <1>2, <1>4, <2>3
<1>5. CASE n # 0 /\ k <= 6 /\ t[k + 2] >= n /\ t[k + 3] >= n
  <2>1. ~ ((k + 1) + 2 > 9 \/ At(t, (k + 1) + 1) < n \/ At(t, (k + 1) + 2) < n)
    BY <1>1, <1>2, <1>5 DEF At
  <2>2. Round(acc, k + 1, 9) = [acc EXCEPT !.t = RunsOff(t, k + 1, n)]
    BY <1>2, <1>5, <2>1 DEF Round
  <2>3. Round(acc, k + 1, 9).ok /\ Round(acc, k + 1, 9).t = RunsOff(t, k + 1, n)
    BY <2>2 DEF Accs
  <2>4. Left(c, f, k + 1, RunsOff(t, k + 1, n))
    BY <1>1, <1>2 DEF Left, RunsOff
  <2> QED BY <1>5, <2>3, <2>4
<1> QED BY <1>1, <1>2, <1>3, <1>4, <1>5

\* If the counts can be decomposed, then with each number of runs taken modulo
\* three they still can, and these are the numbers that the loop takes.
LEMMA GreedyFinds ==
    ASSUME NEW c \in Hand, NEW r, Decomposes(c, 1, 9, 0, r)
    PROVE  CheckColor(c, 1, 9)
<1> DEFINE d == [j \in 1 .. 9 |-> c[j]]
           f == [j \in -1 .. 9 |-> IF r[j] >= 3 THEN r[j] - 3 ELSE r[j]]
           a(k) == Rounds(c, 1, 9)[k]
           Ok(k) == a(k).ok /\ Left(d, f, k, a(k).t)
<1>1. /\ r \in [-1 .. 9 -> 0 .. 4] /\ r[-1] = 0 /\ r[0] = 0 /\ r[8] = 0 /\ r[9] = 0
      /\ \A i \in 1 .. 9 : c[i] - r[i] - r[i - 1] - r[i - 2] \in {0, 3}
  <2>1. 1 - 2 = -1 /\ 1 - 1 = 0 /\ 9 - 1 = 8
    OBVIOUS
  <2>2. /\ r \in [-1 .. 9 -> 0 .. 4] /\ r[-1] = 0 /\ r[0] = 0 /\ r[8] = 0 /\ r[9] = 0
        /\ \A i \in 1 .. 9 : c[i] - (IF i = 0 THEN 2 ELSE 0) - r[i] - r[i - 1] - r[i - 2] \in {0, 3}
    BY <2>1 DEF Decomposes
  <2>3. ASSUME NEW i \in 1 .. 9 PROVE c[i] - (IF i = 0 THEN 2 ELSE 0) = c[i]
    BY DEF Hand, AllTiles
  <2> QED BY <2>2, <2>3
<1>2. d \in [1 .. 9 -> Int] /\ \A j \in 1 .. 9 : d[j] = c[j] /\ c[j] \in 0 .. 4
  BY DEF Hand, AllTiles
<1>3. /\ f \in [-1 .. 9 -> Int] /\ f[-1] = 0 /\ f[0] = 0 /\ f[8] = 0 /\ f[9] = 0
      /\ \A j \in -1 .. 9 : /\ f[j] \in 0 .. 2 /\ f[j] <= r[j] /\ r[j] - f[j] \in {0, 3}
  BY <1>1
<1>4. /\ CheckColor(c, 1, 9) = a(9).ok
      /\ a(0) = [ok |-> TRUE, t |-> [k \in 1 .. 9 |-> c[1 + k - 1]]]
      /\ \A i \in 1 .. 9 : a(i) = Round(a(i - 1), i, 9)
      /\ \A i \in 0 .. 9 : a(i) \in Accs
  BY RoundFacts
<1> HIDE DEF a, f, d
<1>5. Ok(0)
  BY <1>2, <1>3, <1>4 DEF Left
<1>6. ASSUME NEW k \in 0 .. 8, Ok(k) PROVE Ok(k + 1)
  <2>1. a(k + 1) = Round(a(k), k + 1, 9) /\ a(k) \in Accs
    BY <1>4
  <2>2. a(k).t[k + 1] = c[k + 1] - f[k] - f[k - 1]
    BY <1>2, <1>3, <1>6 DEF Left
  <2>3. /\ c[k + 1] \in 0 .. 4 /\ c[k + 1] - r[k + 1] - r[k] - r[k - 1] \in {0, 3}
        /\ r[k + 1] \in 0 .. 4 /\ r[k] \in 0 .. 4 /\ r[k - 1] \in 0 .. 4
        /\ r[k + 1] - f[k + 1] \in {0, 3} /\ r[k] - f[k] \in {0, 3} /\ r[k - 1] - f[k - 1] \in {0, 3}
        /\ f[k + 1] \in 0 .. 2 /\ f[k] \in 0 .. 2 /\ f[k - 1] \in 0 .. 2
    <3>1. /\ k + 1 \in 1 .. 9 /\ k + 1 \in -1 .. 9 /\ k \in -1 .. 9 /\ k - 1 \in -1 .. 9
          /\ (k + 1) - 1 = k /\ (k + 1) - 2 = k - 1
      OBVIOUS
    <3> QED BY <1>1, <1>2, <1>3, <3>1
  <2>4. Runs(a(k).t[k + 1]) = f[k + 1]
    BY <2>2, <2>3 DEF Runs
  <2>5. CASE f[k + 1] = 0
    BY <1>2, <1>3, <1>6, <2>1, <2>4, <2>5, RoundStep
  <2>6. CASE f[k + 1] # 0
    <3>1. k <= 6
      BY <1>3, <2>6
    <3>2. a(k).t[k + 2] = c[k + 2] - f[k] /\ a(k).t[k + 3] = c[k + 3]
      <4>1. k + 2 \in k + 1 .. 9 /\ k + 3 \in k + 1 .. 9
        BY <3>1
      <4>2. /\ a(k).t[k + 2] = d[k + 2] - (IF (k + 2) - 1 <= k THEN f[(k + 2) - 1] ELSE 0)
                                 - (IF (k + 2) - 2 <= k THEN f[(k + 2) - 2] ELSE 0)
            /\ a(k).t[k + 3] = d[k + 3] - (IF (k + 3) - 1 <= k THEN f[(k + 3) - 1] ELSE 0)
                                 - (IF (k + 3) - 2 <= k THEN f[(k + 3) - 2] ELSE 0)
        BY <1>6, <4>1 DEF Left
      <4>3. /\ ~ ((k + 2) - 1 <= k) /\ (k + 2) - 2 = k
            /\ ~ ((k + 3) - 1 <= k) /\ ~ ((k + 3) - 2 <= k)
        OBVIOUS
      <4>4. /\ d[k + 2] = c[k + 2] /\ d[k + 3] = c[k + 3] /\ f[k] \in Int
            /\ c[k + 2] \in Int /\ c[k + 3] \in Int
        BY <1>2, <1>3, <4>1
      <4> QED BY <4>2, <4>3, <4>4
    <3>3. /\ c[k + 2] - r[k + 2] - r[k + 1] - r[k] \in {0, 3}
          /\ c[k + 3] - r[k + 3] - r[k + 2] - r[k + 1] \in {0, 3}
          /\ r[k + 2] \in 0 .. 4 /\ r[k + 3] \in 0 .. 4 /\ c[k + 2] \in 0 .. 4 /\ c[k + 3] \in 0 .. 4
      <4>1. /\ k + 2 \in 1 .. 9 /\ k + 3 \in 1 .. 9 /\ k + 2 \in -1 .. 9 /\ k + 3 \in -1 .. 9
            /\ (k + 2) - 1 = k + 1 /\ (k + 2) - 2 = k /\ (k + 3) - 1 = k + 2 /\ (k + 3) - 2 = k + 1
        BY <3>1
      <4> QED BY <1>1, <1>2, <4>1
    <3>4. a(k).t[k + 2] >= f[k + 1] /\ a(k).t[k + 3] >= f[k + 1]
      BY <2>3, <3>2, <3>3
    <3> QED BY <1>2, <1>3, <1>6, <2>1, <2>4, <3>1, <3>4, RoundStep
  <2> QED BY <2>5, <2>6
<1>7. Ok(9)
  <2> HIDE DEF Ok
  <2> DEFINE S == {k \in 0 .. 9 : Ok(k)}
  <2>1. 0 \in S /\ \A k \in 0 .. 9 - 1 : k \in S => k + 1 \in S
    BY <1>5, <1>6
  <2>2. 0 .. 9 \subseteq S
    <3> HIDE DEF S
    <3> QED BY <2>1, Climb
  <2> QED BY <2>2
<1> QED BY <1>4, <1>7

\* If the loop does not fail, then what it took off are runs that decompose
\* the counts.
LEMMA GreedyRight ==
    ASSUME NEW c \in Hand, CheckColor(c, 1, 9)
    PROVE  \E r : Decomposes(c, 1, 9, 0, r)
<1> DEFINE d == [j \in 1 .. 9 |-> c[j]]
           a(k) == Rounds(c, 1, 9)[k]
           f == [j \in -1 .. 9 |-> IF j < 1 THEN 0 ELSE Runs(a(j - 1).t[j])]
           Ok(k) == /\ Left(d, f, k, a(k).t)
                    /\ \A j \in k + 1 .. 9 : a(k).t[j] \in 0 .. 4
<1>1. d \in [1 .. 9 -> Int] /\ \A j \in 1 .. 9 : d[j] = c[j] /\ c[j] \in 0 .. 4
  BY DEF Hand, AllTiles
<1>2. /\ CheckColor(c, 1, 9) = a(9).ok
      /\ a(0) = [ok |-> TRUE, t |-> [k \in 1 .. 9 |-> c[1 + k - 1]]]
      /\ \A i \in 1 .. 9 : a(i) = Round(a(i - 1), i, 9)
      /\ \A i \in 0 .. 9 : a(i) \in Accs
  BY RoundFacts
<1> HIDE DEF a
<1>3. f \in [-1 .. 9 -> Int] /\ \A j \in -1 .. 9 : f[j] \in 0 .. 2
  BY DEF Runs
<1>4. f[-1] = 0 /\ f[0] = 0 /\ \A k \in 0 .. 8 : f[k + 1] = Runs(a(k).t[k + 1])
  <2>1. ASSUME NEW k \in 0 .. 8 PROVE f[k + 1] = Runs(a(k).t[k + 1])
    <3>1. k + 1 \in -1 .. 9 /\ ~ (k + 1 < 1) /\ (k + 1) - 1 = k
      OBVIOUS
    <3> QED BY <3>1
  <2> QED BY <2>1
<1> HIDE DEF f, d
<1>5. ASSUME NEW k \in 0 .. 8, a(k + 1).ok PROVE a(k).ok
  <2>1. a(k + 1) = Round(a(k), k + 1, 9)
    BY <1>2
  <2> QED BY <1>5, <2>1 DEF Round
<1>6. \A k \in 0 .. 9 : a(k).ok
  <2>1. SUFFICES ASSUME NEW k \in 0 .. 9, ~a(k).ok PROVE FALSE
    OBVIOUS
  <2> DEFINE S == {i \in k .. 9 : ~a(i).ok}
  <2>2. k \in S /\ \A i \in k .. 9 - 1 : i \in S => i + 1 \in S
    BY <1>5, <2>1
  <2>3. k .. 9 \subseteq S
    <3> HIDE DEF S
    <3> QED BY <2>2, Climb
  <2>4. 9 \in S
    BY <2>3
  <2> QED BY <1>2, <2>4
<1>7. Ok(0)
  <2>1. \A j \in 1 .. 9 : a(0).t[j] = c[j] /\ 1 + j - 1 = j
    BY <1>2
  <2> QED BY <1>1, <1>4, <2>1 DEF Left
<1>8. ASSUME NEW k \in 0 .. 8, Ok(k)
      PROVE  Ok(k + 1) /\ (f[k + 1] # 0 => k <= 6)
  <2>1. /\ a(k + 1) = Round(a(k), k + 1, 9) /\ a(k) \in Accs /\ a(k).ok /\ a(k + 1).ok
        /\ f[k + 1] = Runs(a(k).t[k + 1])
    BY <1>2, <1>4, <1>6
  <2>2. /\ \/ f[k + 1] = 0
           \/ k <= 6 /\ a(k).t[k + 2] >= f[k + 1] /\ a(k).t[k + 3] >= f[k + 1]
        /\ Left(d, f, k + 1, a(k + 1).t)
    BY <1>1, <1>3, <1>8, <2>1, RoundStep
  <2>3. ASSUME NEW j \in k + 2 .. 9 PROVE a(k + 1).t[j] \in 0 .. 4
    <3>1. a(k).t[j] \in 0 .. 4
      BY <1>8
    <3>2. j \in 1 .. 9 /\ j - 1 \in -1 .. 9 /\ j - 2 \in -1 .. 9 /\ d[j] \in Int
          /\ f[j - 1] \in 0 .. 2 /\ f[j - 2] \in 0 .. 2
      BY <1>1, <1>3
    <3>3. a(k).t[j] = d[j] - (IF j - 1 <= k THEN f[j - 1] ELSE 0) - (IF j - 2 <= k THEN f[j - 2] ELSE 0)
      BY <1>8 DEF Left
    <3>4. a(k + 1).t[j] = d[j] - (IF j - 1 <= k + 1 THEN f[j - 1] ELSE 0) - (IF j - 2 <= k + 1 THEN f[j - 2] ELSE 0)
      BY <2>2 DEF Left
    <3>5. CASE j = k + 2
      BY <2>2, <3>1, <3>2, <3>3, <3>4, <3>5
    <3>6. CASE j = k + 3
      BY <2>2, <3>1, <3>2, <3>3, <3>4, <3>6
    <3>7. CASE j > k + 3
      BY <3>1, <3>2, <3>3, <3>4, <3>7
    <3> QED BY <3>5, <3>6, <3>7
  <2> QED BY <2>2, <2>3
<1>9. \A k \in 0 .. 9 : Ok(k)
  <2> HIDE DEF Ok
  <2> DEFINE S == {k \in 0 .. 9 : Ok(k)}
  <2>1. 0 \in S /\ \A k \in 0 .. 9 - 1 : k \in S => k + 1 \in S
    BY <1>7, <1>8
  <2>2. 0 .. 9 \subseteq S
    <3> HIDE DEF S
    <3> QED BY <2>1, Climb
  <2> QED BY <2>2
<1>10. f[8] = 0 /\ f[9] = 0
  <2>1. Ok(7) /\ Ok(8)
    <3> HIDE DEF Ok
    <3> QED BY <1>9
  <2>2. f[7 + 1] = 0 /\ f[8 + 1] = 0
    <3> HIDE DEF Ok
    <3> QED BY <1>8, <2>1
  <2> QED BY <2>2
<1>11. ASSUME NEW i \in 1 .. 9 PROVE c[i] - f[i] - f[i - 1] - f[i - 2] \in {0, 3}
  <2>1. i - 1 \in 0 .. 8 /\ i - 1 \in 0 .. 9 /\ (i - 1) + 1 = i /\ i - 1 \in -1 .. 9 /\ i - 2 \in -1 .. 9
    OBVIOUS
  <2>2. Ok(i - 1)
    BY <1>9, <2>1
  <2>3. a(i - 1).t[i] \in 0 .. 4 /\ a(i - 1).t[i] = c[i] - f[i - 1] - f[i - 2]
    BY <1>1, <1>3, <2>1, <2>2 DEF Left
  <2>4. f[i] = Runs(a(i - 1).t[i])
    BY <1>4, <2>1
  <2>5. a(i - 1).t[i] - f[i] \in {0, 3}
    BY <2>3, <2>4 DEF Runs
  <2> QED BY <1>1, <1>3, <2>1, <2>3, <2>5
<1>12. f \in [1 - 2 .. 9 -> 0 .. 4] /\ 1 - 2 = -1 /\ 1 - 1 = 0 /\ 9 - 1 = 8
  BY <1>3 DEF f
<1>13. \A i \in 1 .. 9 : c[i] - (IF i = 0 THEN 2 ELSE 0) = c[i]
  BY <1>1
<1>14. Decomposes(c, 1, 9, 0, f)
  BY <1>4, <1>10, <1>11, <1>12, <1>13 DEF Decomposes
<1> QED BY <1>14

-----------------------------------------------------------------------------
(* What Melds means *)

\* The steps of Melds: which numbers of runs may start at a tile and before it.
Pairs == (0 .. 4) \X (0 .. 4)
OpenStep(c, i, before) ==
    {p \in (0 .. c[i]) \X (0 .. c[i]) :
        \E q \in before : p[2] = q[1] /\ c[i] - p[1] - q[1] - q[2] \in {0, 3}}
Open(c, from, to) ==
    CHOOSE open : open =
        [i \in from - 1 .. to |-> IF i < from THEN {<<0, 0>>} ELSE OpenStep(c, i, open[i - 1])]

\* Melds takes these steps.
LEMMA OpenFacts ==
    ASSUME NEW c \in Hand, NEW from \in {1, 10, 19}, NEW to, to = from + 8
    PROVE  /\ Melds(c, from, to) <=> <<0, 0>> \in Open(c, from, to)[to]
           /\ Open(c, from, to)[from - 1] = {<<0, 0>>}
           /\ \A i \in from .. to :
                  Open(c, from, to)[i] = OpenStep(c, i, Open(c, from, to)[i - 1])
<1> DEFINE F == [k \in Nat |-> [B \in SUBSET Pairs |->
                  IF k <= 8 THEN OpenStep(c, from + k, B) ELSE {}]]
           Is(o) == o = [i \in from - 1 .. to |->
                           IF i < from THEN {<<0, 0>>} ELSE OpenStep(c, i, o[i - 1])]
<1>1. \A i \in AllTiles, B \in SUBSET Pairs : OpenStep(c, i, B) \in SUBSET Pairs
  <2>1. \A i \in AllTiles : 0 .. c[i] \subseteq 0 .. 4
    BY DEF Hand
  <2> QED BY <2>1 DEF OpenStep, Pairs
<1>2. StepOn(SUBSET Pairs, F)
  <2>1. \A k \in Nat : k <= 8 => from + k \in AllTiles
    BY DEF AllTiles
  <2> QED BY <1>1, <2>1 DEF StepOn
<1>3. {<<0, 0>>} \in SUBSET Pairs
  BY DEF Pairs
<1>4. PICK f : Iterates(f, SUBSET Pairs, {<<0, 0>>}, F)
  <2> HIDE DEF F
  <2> QED BY <1>2, <1>3, Recursion
<1>5. f[0] = {<<0, 0>>} /\ \A k \in 0 .. 8 : f[k + 1] = OpenStep(c, from + k, f[k])
  <2>1. f[0] = {<<0, 0>>}
    BY <1>4 DEF Iterates
  <2>2. ASSUME NEW k \in 0 .. 8 PROVE f[k + 1] = OpenStep(c, from + k, f[k])
    <3>1. k \in Nat /\ k <= 8
      OBVIOUS
    <3>2. f[k + 1] = F[k][f[k]] /\ f[k] \in SUBSET Pairs
      BY <1>4, <3>1 DEF Iterates
    <3> QED BY <3>1, <3>2
  <2> QED BY <2>1, <2>2
<1> HIDE DEF F
<1> DEFINE s == [i \in from - 1 .. to |-> f[i - from + 1]]
<1>6. \A i \in from - 1 .. to : s[i] = IF i < from THEN {<<0, 0>>} ELSE OpenStep(c, i, s[i - 1])
  <2>1. ASSUME NEW i \in from - 1 .. to
        PROVE  s[i] = IF i < from THEN {<<0, 0>>} ELSE OpenStep(c, i, s[i - 1])
    <3>1. CASE i < from
      <4>1. i - from + 1 = 0
        BY <3>1
      <4> QED BY <1>5, <3>1, <4>1
    <3>2. CASE ~(i < from)
      <4>1. /\ i - from \in 0 .. 8 /\ (i - 1) - from + 1 = i - from /\ from + (i - from) = i
            /\ i - 1 \in from - 1 .. to
        BY <3>2
      <4>2. f[i - from + 1] = OpenStep(c, i, f[i - from])
        BY <1>5, <4>1
      <4> QED BY <3>2, <4>1, <4>2
    <3> QED BY <3>1, <3>2
  <2> QED BY <2>1
<1>7. Is(s)
  <2>1. s = [i \in from - 1 .. to |-> s[i]]
    OBVIOUS
  <2> HIDE DEF s
  <2> QED BY <1>6, <2>1
<1>8. Is(Open(c, from, to))
  <2> HIDE DEF s
  <2> QED BY <1>7 DEF Open
<1> DEFINE o == Open(c, from, to)
<1>9. o[from - 1] = {<<0, 0>>} /\ \A i \in from .. to : o[i] = OpenStep(c, i, o[i - 1])
  <2> HIDE DEF o
  <2>1. Is(o)
    BY <1>8 DEF o
  <2>2. o[from - 1] = {<<0, 0>>}
    BY <2>1
  <2>3. ASSUME NEW i \in from .. to PROVE o[i] = OpenStep(c, i, o[i - 1])
    <3>1. i \in from - 1 .. to /\ ~ (i < from)
      OBVIOUS
    <3> QED BY <2>1, <3>1
  <2> QED BY <2>2, <2>3
<1>10. Melds(c, from, to) <=> <<0, 0>> \in Open(c, from, to)[to]
  BY DEF Melds, Open, OpenStep
<1> QED BY <1>9, <1>10

\* Melds holds of the counts that can be decomposed.
LEMMA MeldsMeans ==
    ASSUME NEW c \in Hand, NEW from \in {1, 10, 19}, NEW to, to = from + 8
    PROVE  Melds(c, from, to) <=> \E r : Decomposes(c, from, to, 0, r)
<1> DEFINE o(i) == Open(c, from, to)[i]
           Dom == from - 2 .. to
           Part(r, i) == /\ r[from - 2] = 0 /\ r[from - 1] = 0
                         /\ \A j \in from .. i : c[j] - r[j] - r[j - 1] - r[j - 2] \in {0, 3}
<1>1. \A i \in from .. to : c[i] \in 0 .. 4 /\ c[i] - (IF i = 0 THEN 2 ELSE 0) = c[i]
  BY DEF Hand, AllTiles
<1>2. o(from - 1) = {<<0, 0>>} /\ (Melds(c, from, to) <=> <<0, 0>> \in o(to))
  BY OpenFacts
<1>3. ASSUME NEW i \in from .. to, NEW a, NEW b
      PROVE  <<a, b>> \in o(i) <=>
                /\ a \in 0 .. c[i] /\ b \in 0 .. c[i]
                /\ \E q \in o(i - 1) : b = q[1] /\ c[i] - a - q[1] - q[2] \in {0, 3}
  <2>1. o(i) = OpenStep(c, i, o(i - 1))
    BY OpenFacts
  <2> HIDE DEF o
  <2> QED BY <2>1 DEF OpenStep
<1> HIDE DEF o
<1>4. ASSUME <<0, 0>> \in o(to) PROVE \E r : Decomposes(c, from, to, 0, r)
  <2> DEFINE Found(i) == \A p \in o(i) : \E r \in [Dom -> 0 .. 4] :
                            Part(r, i) /\ p = <<r[i], r[i - 1]>>
             S == {i \in from - 1 .. to : Found(i)}
  <2>1. Found(from - 1)
    <3> DEFINE r == [j \in Dom |-> 0]
    <3>1. r \in [Dom -> 0 .. 4] /\ Part(r, from - 1) /\ <<0, 0>> = <<r[from - 1], r[(from - 1) - 1]>>
      OBVIOUS
    <3> HIDE DEF r, Part
    <3> QED BY <1>2, <3>1
  <2>2. ASSUME NEW i \in from - 1 .. to - 1, Found(i) PROVE Found(i + 1)
    <3>1. SUFFICES ASSUME NEW p \in o(i + 1)
                   PROVE  \E r \in [Dom -> 0 .. 4] : Part(r, i + 1) /\ p = <<r[i + 1], r[(i + 1) - 1]>>
      OBVIOUS
    <3>2. i + 1 \in from .. to /\ (i + 1) - 1 = i /\ (i + 1) - 2 = i - 1 /\ i \in Dom /\ i - 1 \in Dom
      OBVIOUS
    <3>3. PICK a, b : p = <<a, b>>
      <4>1. o(i + 1) = OpenStep(c, i + 1, o(i))
        BY <3>2, OpenFacts DEF o
      <4> QED BY <4>1 DEF OpenStep
    <3>4. /\ a \in 0 .. c[i + 1] /\ b \in 0 .. c[i + 1]
          /\ \E q \in o(i) : b = q[1] /\ c[i + 1] - a - q[1] - q[2] \in {0, 3}
      BY <1>3, <3>2, <3>3
    <3>5. PICK q \in o(i) : b = q[1] /\ c[i + 1] - a - q[1] - q[2] \in {0, 3}
      BY <3>4
    <3>6. PICK r \in [Dom -> 0 .. 4] : Part(r, i) /\ q = <<r[i], r[i - 1]>>
      BY <2>2, <3>5
    <3> DEFINE u == [j \in Dom |-> IF j = i + 1 THEN a ELSE r[j]]
    <3>7. a \in 0 .. 4
      BY <1>1, <3>2, <3>4
    <3>8. u \in [Dom -> 0 .. 4]
      BY <3>7
    <3>9. u[i + 1] = a /\ u[i] = r[i] /\ u[i - 1] = r[i - 1] /\ \A j \in Dom : j <= i => u[j] = r[j]
      BY <3>2
    <3>10. Part(u, i + 1)
      <4>1. u[from - 2] = 0 /\ u[from - 1] = 0
        BY <3>6, <3>9
      <4>2. ASSUME NEW j \in from .. i + 1 PROVE c[j] - u[j] - u[j - 1] - u[j - 2] \in {0, 3}
        <5>1. CASE j = i + 1
          BY <3>2, <3>5, <3>6, <3>9, <5>1
        <5>2. CASE j # i + 1
          <6>1. j \in from .. i /\ j \in Dom /\ j - 1 \in Dom /\ j - 2 \in Dom
            BY <5>2
          <6>2. u[j] = r[j] /\ u[j - 1] = r[j - 1] /\ u[j - 2] = r[j - 2]
            BY <3>9, <6>1
          <6> QED BY <3>6, <6>1, <6>2
        <5> QED BY <5>1, <5>2
      <4> HIDE DEF u
      <4> QED BY <4>1, <4>2
    <3>11. p = <<u[i + 1], u[(i + 1) - 1]>>
      BY <3>2, <3>3, <3>5, <3>6, <3>9
    <3> HIDE DEF u, Part
    <3> QED BY <3>8, <3>10, <3>11
  <2>3. from - 1 .. to \subseteq S
    <3> HIDE DEF Found
    <3>1. from - 1 \in S /\ \A i \in from - 1 .. to - 1 : i \in S => i + 1 \in S
      BY <2>1, <2>2
    <3> HIDE DEF S
    <3> QED BY <3>1, Climb
  <2>4. PICK r \in [Dom -> 0 .. 4] : Part(r, to) /\ <<0, 0>> = <<r[to], r[to - 1]>>
    BY <1>4, <2>3
  <2>5. Decomposes(c, from, to, 0, r)
    BY <1>1, <2>4 DEF Decomposes
  <2> QED BY <2>5
<1>5. ASSUME NEW r, Decomposes(c, from, to, 0, r) PROVE <<0, 0>> \in o(to)
  <2>1. /\ r \in [Dom -> 0 .. 4] /\ r[from - 2] = 0 /\ r[from - 1] = 0 /\ r[to] = 0 /\ r[to - 1] = 0
        /\ \A j \in from .. to : c[j] - r[j] - r[j - 1] - r[j - 2] \in {0, 3}
    BY <1>1, <1>5 DEF Decomposes
  <2> DEFINE S == {i \in from - 1 .. to : <<r[i], r[i - 1]>> \in o(i)}
  <2>2. from - 1 \in S
    <3>1. (from - 1) - 1 = from - 2
      OBVIOUS
    <3> QED BY <1>2, <2>1, <3>1
  <2>3. ASSUME NEW i \in from - 1 .. to - 1, i \in S PROVE i + 1 \in S
    <3>1. i + 1 \in from .. to /\ (i + 1) - 1 = i /\ (i + 1) - 2 = i - 1 /\ i \in Dom /\ i - 1 \in Dom
          /\ i + 1 \in Dom
      OBVIOUS
    <3>2. c[i + 1] - r[i + 1] - r[i] - r[i - 1] \in {0, 3} /\ c[i + 1] \in 0 .. 4
          /\ r[i + 1] \in 0 .. 4 /\ r[i] \in 0 .. 4 /\ r[i - 1] \in 0 .. 4
      BY <1>1, <2>1, <3>1
    <3>3. r[i + 1] \in 0 .. c[i + 1] /\ r[i] \in 0 .. c[i + 1]
      BY <3>2
    <3> DEFINE q == <<r[i], r[i - 1]>>
    <3>4. q \in o(i) /\ q[1] = r[i] /\ q[2] = r[i - 1]
      BY <2>3
    <3> HIDE DEF q
    <3>5. <<r[i + 1], r[i]>> \in o(i + 1)
      BY <1>3, <3>1, <3>2, <3>3, <3>4
    <3> QED BY <3>1, <3>5
  <2>4. from - 1 .. to \subseteq S
    <3> HIDE DEF S
    <3> QED BY <2>2, <2>3, Climb
  <2>5. to \in S
    BY <2>4
  <2> QED BY <2>1, <2>5
<1> QED BY <1>2, <1>4, <1>5

-----------------------------------------------------------------------------
(* Eyes *)

\* The bounds of the suits.
LEMMA SuitFacts ==
    /\ <<1, 9>> \in Suits /\ <<10, 18>> \in Suits /\ <<19, 27>> \in Suits
    /\ \A s \in Suits : s[1] \in {1, 10, 19} /\ s[2] = s[1] + 8 /\ s = <<s[1], s[2]>>
BY DEF Suits

\* A pair can be taken off a hand and put back.
LEMMA EyeOffFacts ==
    ASSUME NEW c \in Hand, NEW i \in AllTiles, c[i] >= 2
    PROVE  /\ EyeOff(c, i) \in Hand
           /\ EyeOff(c, i)[i] = c[i] - 2
           /\ \A j \in AllTiles : j # i => EyeOff(c, i)[j] = c[j]
           /\ [EyeOff(c, i) EXCEPT ![i] = @ + 2] = c
<1>1. EyeOff(c, i) = [j \in AllTiles |-> IF j = i THEN c[i] - 2 ELSE c[j]]
  BY DEF EyeOff, Hand
<1>2. c[i] - 2 \in 0 .. 4 /\ (c[i] - 2) + 2 = c[i]
  BY DEF Hand
<1> QED BY <1>1, <1>2 DEF Hand

\* To decompose what is left without a pair is to decompose the hand with it.
LEMMA DecomposesEye ==
    ASSUME NEW c \in Hand, NEW i \in AllTiles, c[i] >= 2, NEW from \in {1, 10, 19}, NEW r
    PROVE  Decomposes(EyeOff(c, i), from, from + 8, 0, r) <=> Decomposes(c, from, from + 8, i, r)
<1>1. ASSUME NEW j \in from .. from + 8
      PROVE  EyeOff(c, i)[j] - (IF j = 0 THEN 2 ELSE 0) = c[j] - (IF j = i THEN 2 ELSE 0)
  <2>1. j \in AllTiles /\ j # 0 /\ c[j] \in Int /\ c[i] \in Int
    BY DEF AllTiles, Hand
  <2> QED BY <2>1, EyeOffFacts
<1> QED BY <1>1 DEF Decomposes

\* Arithmetic of a tile that is decomposed.
LEMMA TakenOff ==
    \A x, w, p, q, r, y \in Int : x - w - p - q - r = y => x = y + w + p + q + r
OBVIOUS

\* x is what n leaves, but for threes; and what the eye adds up to position j.
Threes(n, x) == \E m \in Int : n = 3 * m + x
EyeUpTo(eye, from, j) == IF from <= eye /\ eye <= j THEN 2 ELSE 0

\* The tiles up to j make triplets and runs, but for the eye and the runs that
\* go on beyond j.
LEMMA SumThrees ==
    ASSUME NEW c \in Hand, NEW from \in 1 .. 34, NEW to \in from .. 34,
           NEW eye \in Int, NEW r, Decomposes(c, from, to, eye, r), NEW j \in from - 1 .. to
    PROVE  Threes(SumTo(c, from, j), EyeUpTo(eye, from, j) + 2 * r[j - 1] + r[j])
<1> DEFINE e(k) == IF from <= eye /\ eye <= k THEN 2 ELSE 0
           Good(k) == \E m \in Int : SumTo(c, from, k) = 3 * m + e(k) + 2 * r[k - 1] + r[k]
<1>1. c \in [AllTiles -> Int] /\ \A i \in from .. to : i \in AllTiles /\ c[i] \in Int
  BY DEF Hand, AllTiles
<1>2. /\ r \in [from - 2 .. to -> 0 .. 4] /\ r[from - 2] = 0 /\ r[from - 1] = 0
      /\ \A i \in from .. to :
            c[i] - (IF i = eye THEN 2 ELSE 0) - r[i] - r[i - 1] - r[i - 2] \in {0, 3}
  BY DEF Decomposes
<1>3. /\ Sums(c) \in [0 .. 34 -> Int]
      /\ \A i \in AllTiles : Sums(c)[i] = Sums(c)[i - 1] + c[i]
      /\ \A i, k \in Int : SumTo(c, i, k) = Sums(c)[k] - Sums(c)[i - 1]
  BY <1>1, SumFacts
<1>4. Good(from - 1)
  <2>1. SumTo(c, from, from - 1) = 0
    <3>1. from - 1 \in 0 .. 34 /\ from - 1 \in Int /\ from \in Int
      OBVIOUS
    <3>2. Sums(c)[from - 1] \in Int
      BY <1>3, <3>1
    <3>3. SumTo(c, from, from - 1) = Sums(c)[from - 1] - Sums(c)[from - 1]
      BY <1>3, <3>1
    <3> QED BY <3>2, <3>3
  <2>2. e(from - 1) = 0 /\ (from - 1) - 1 = from - 2
    OBVIOUS
  <2>3. SumTo(c, from, from - 1) = 3 * 0 + e(from - 1) + 2 * r[(from - 1) - 1] + r[from - 1]
    BY <1>2, <2>1, <2>2
  <2>4. 0 \in Int
    OBVIOUS
  <2> HIDE DEF e
  <2> QED BY <2>3, <2>4
<1>5. ASSUME NEW k \in from - 1 .. to - 1, Good(k) PROVE Good(k + 1)
  <2>1. PICK m \in Int : SumTo(c, from, k) = 3 * m + e(k) + 2 * r[k - 1] + r[k]
    BY <1>5
  <2>2. k + 1 \in from .. to /\ k + 1 \in AllTiles /\ (k + 1) - 1 = k /\ (k + 1) - 2 = k - 1
    BY DEF AllTiles
  <2>3. SumTo(c, from, k + 1) = SumTo(c, from, k) + c[k + 1] /\ SumTo(c, from, k) \in Int
    <3>0. /\ k \in Int /\ k + 1 \in Int /\ from \in Int
          /\ k \in 0 .. 34 /\ k + 1 \in 0 .. 34 /\ from - 1 \in 0 .. 34
      OBVIOUS
    <3>1. Sums(c)[k + 1] = Sums(c)[k] + c[k + 1]
      BY <1>3, <2>2
    <3>2. /\ SumTo(c, from, k + 1) = Sums(c)[k + 1] - Sums(c)[from - 1]
          /\ SumTo(c, from, k) = Sums(c)[k] - Sums(c)[from - 1]
      BY <1>3, <3>0
    <3>3. Sums(c)[k] \in Int /\ Sums(c)[k + 1] \in Int /\ Sums(c)[from - 1] \in Int /\ c[k + 1] \in Int
      BY <1>1, <1>3, <2>2, <3>0
    <3> QED BY <3>1, <3>2, <3>3
  <2>4. PICK t \in {0, 3} :
            c[k + 1] - (IF k + 1 = eye THEN 2 ELSE 0) - r[k + 1] - r[k] - r[k - 1] = t
    BY <1>2, <2>2
  <2>5. r[k + 1] \in 0 .. 4 /\ r[k] \in 0 .. 4 /\ r[k - 1] \in 0 .. 4 /\ c[k + 1] \in Int
    BY <1>1, <1>2, <2>2
  <2>6. PICK p \in {0, 1} : t = 3 * p
    BY <2>4
  <2>7. e(k + 1) = e(k) + (IF k + 1 = eye THEN 2 ELSE 0)
    OBVIOUS
  <2>8. SumTo(c, from, k + 1) = 3 * (m + p + r[k - 1]) + e(k + 1) + 2 * r[k] + r[k + 1]
    <3>1. e(k) \in Int /\ e(k + 1) \in Int
      OBVIOUS
    <3> DEFINE w == IF k + 1 = eye THEN 2 ELSE 0
    <3>2. w \in Int
      OBVIOUS
    <3>3. c[k + 1] = t + w + r[k + 1] + r[k] + r[k - 1]
      <4>1. c[k + 1] - w - r[k + 1] - r[k] - r[k - 1] = t
        BY <2>4
      <4> HIDE DEF w
      <4>2. t \in Int /\ r[k + 1] \in Int /\ r[k] \in Int /\ r[k - 1] \in Int
        BY <2>5
      <4>3. c[k + 1] \in Int
        BY <2>5
      <4> QED BY <3>2, <4>1, <4>2, <4>3, TakenOff
    <3> HIDE DEF e, w
    <3>4. e(k + 1) = e(k) + w
      BY <2>7 DEF w
    <3>5. SumTo(c, from, k + 1) = 3 * m + e(k) + 2 * r[k - 1] + r[k] + (3 * p + w + r[k + 1] + r[k] + r[k - 1])
      BY <2>1, <2>3, <2>6, <3>3
    <3>6. p \in Int
      OBVIOUS
    <3>7. SumTo(c, from, k + 1) = 3 * (m + p + r[k - 1]) + (e(k) + w) + 2 * r[k] + r[k + 1]
      BY <2>5, <3>1, <3>2, <3>5, <3>6
    <3> QED BY <3>4, <3>7
  <2>9. m + p + r[k - 1] \in Int
    BY <2>5
  <2> HIDE DEF e
  <2> QED BY <2>2, <2>8, <2>9
<1>6. Good(j)
  <2> HIDE DEF Good
  <2> DEFINE S == {k \in from - 1 .. to : Good(k)}
  <2>1. from - 1 \in S /\ \A k \in from - 1 .. to - 1 : k \in S => k + 1 \in S
    BY <1>4, <1>5
  <2>2. from - 1 .. to \subseteq S
    <3> HIDE DEF S
    <3> QED BY <2>1, Climb
  <2> QED BY <2>2
<1>7. e(j) \in Int /\ EyeUpTo(eye, from, j) = e(j) /\ r[j - 1] \in Int /\ r[j] \in Int
  BY <1>2 DEF EyeUpTo
<1> HIDE DEF e
<1>8. PICK m \in Int : SumTo(c, from, j) = 3 * m + e(j) + 2 * r[j - 1] + r[j]
  BY <1>6
<1>9. SumTo(c, from, j) = 3 * m + (EyeUpTo(eye, from, j) + 2 * r[j - 1] + r[j])
  BY <1>7, <1>8
<1> QED BY <1>9 DEF Threes

\* Where no tile is held, or beyond the suit, no run goes through.
LEMMA RunsEnd ==
    ASSUME NEW c, NEW from \in Int, NEW to \in Int,
           NEW eye \in Int, NEW r, Decomposes(c, from, to, eye, r),
           NEW j \in from .. to, c[j] = 0
    PROVE  r[j] = 0 /\ r[j - 1] = 0 /\ r[j - 2] = 0 /\ j # eye
<1>1. c[j] - (IF j = eye THEN 2 ELSE 0) - r[j] - r[j - 1] - r[j - 2] \in {0, 3}
  BY DEF Decomposes
<1>2. r[j] \in 0 .. 4 /\ r[j - 1] \in 0 .. 4 /\ r[j - 2] \in 0 .. 4
  <2>1. j \in from - 2 .. to /\ j - 1 \in from - 2 .. to /\ j - 2 \in from - 2 .. to
    OBVIOUS
  <2> QED BY <2>1 DEF Decomposes
<1> QED BY <1>1, <1>2

\* What the threes leave is the rest of a division by three.
LEMMA Mod3 ==
    ASSUME NEW n, NEW x \in {0, 2}, Threes(n, x)
    PROVE  n % 3 = x
<1>1. PICK m \in Int : n = 3 * m + x
  BY DEF Threes
<1>2. (3 * m + 0) % 3 = 0 /\ (3 * m + 2) % 3 = 2
  OBVIOUS
<1> QED BY <1>1, <1>2

\* A pair that is taken off, from what is left: it is held twice.
LEMMA EyeHeld ==
    ASSUME NEW c \in Hand, NEW from \in {1, 10, 19}, NEW to, to = from + 8,
           NEW i \in from .. to, NEW r, Decomposes(c, from, to, i, r)
    PROVE  c[i] >= 2
<1>1. c[i] - 2 - r[i] - r[i - 1] - r[i - 2] \in {0, 3}
  BY DEF Decomposes
<1>2. r[i] \in 0 .. 4 /\ r[i - 1] \in 0 .. 4 /\ r[i - 2] \in 0 .. 4 /\ c[i] \in Int
  <2>1. i \in from - 2 .. to /\ i - 1 \in from - 2 .. to /\ i - 2 \in from - 2 .. to /\ i \in AllTiles
    BY DEF AllTiles
  <2> QED BY <2>1 DEF Decomposes, Hand
<1> QED BY <1>1, <1>2

\* M._find_eye finds every pair that leaves triplets and runs.
LEMMA EyeFound ==
    ASSUME NEW c \in Hand, NEW from \in {1, 10, 19}, NEW to, to = from + 8,
           NEW i \in from .. to, NEW r, Decomposes(c, from, to, i, r)
    PROVE  i \in FindEye(c, from, to)
<1> DEFINE Ends == {k \in i .. to : EndsAt(c, k, to)}
<1>1. to \in Ends /\ Ends \in SUBSET Nat
  BY DEF EndsAt
<1>2. PICK end \in Ends : \A k \in Ends : end <= k
  <2> HIDE DEF Ends
  <2> QED BY <1>1, LeastNat
<1>3. end \in i .. to /\ EndsAt(c, end, to) /\ \A k \in i .. end - 1 : ~EndsAt(c, k, to)
  <2>1. end \in i .. to /\ EndsAt(c, end, to)
    OBVIOUS
  <2>2. ASSUME NEW k \in i .. end - 1, EndsAt(c, k, to) PROVE FALSE
    <3>1. k \in Ends
      BY <2>1, <2>2
    <3>2. ~ (end <= k)
      BY <2>1
    <3> QED BY <1>2, <3>1, <3>2
  <2> QED BY <2>1, <2>2
<1>4. r[end] = 0 /\ r[end - 1] = 0
  <2>1. CASE end = to
    BY <2>1 DEF Decomposes
  <2>2. CASE c[end] = 0
    <3>1. i \in Int /\ end \in from .. to /\ from \in Int /\ to \in Int
      BY <1>3
    <3> QED BY <2>2, <3>1, RunsEnd
  <2> QED BY <1>3, <2>1, <2>2 DEF EndsAt
<1>5. SumTo(c, from, end) % 3 = 2
  <2>1. /\ i \in Int /\ end \in from - 1 .. to /\ from <= i /\ i <= end
        /\ from \in 1 .. 34 /\ to \in from .. 34
    BY <1>3
  <2>2. Threes(SumTo(c, from, end), EyeUpTo(i, from, end) + 2 * r[end - 1] + r[end])
    BY <2>1, SumThrees
  <2>3. Threes(SumTo(c, from, end), 2)
    <3>1. EyeUpTo(i, from, end) = 2
      BY <2>1 DEF EyeUpTo
    <3> QED BY <1>4, <2>2, <3>1
  <2> QED BY <2>3, Mod3
<1>6. c[i] >= 2
  BY EyeHeld
<1> QED BY <1>3, <1>5, <1>6 DEF FindEye, EyeSum

\* An eye is a pair of a suit.
LEMMA EyesFacts ==
    ASSUME NEW c \in Hand, NEW i \in Eyes(c)
    PROVE  i \in 1 .. 27 /\ i \in AllTiles /\ c[i] >= 2
<1>1. PICK s \in Suits : i \in FindEye(c, s[1], s[2])
  BY DEF Eyes
<1>2. i \in s[1] .. s[2] /\ c[i] >= 2
  BY <1>1 DEF FindEye
<1> QED BY <1>2, SuitFacts DEF AllTiles

\* In the second and third suit M._check_color looks beyond its table, and finds
\* nothing to refuse.
LEMMA LaterSuitsPass ==
    ASSUME NEW c \in Hand, NEW from \in {10, 19}, NEW to, to = from + 8
    PROVE  CheckColor(c, from, to)
<1> DEFINE a(i) == Rounds(c, from, to)[i]
           S == {i \in from - 1 .. to : a(i).ok}
<1>1. /\ CheckColor(c, from, to) = a(to).ok
      /\ a(from - 1) = [ok |-> TRUE, t |-> [k \in 1 .. 9 |-> c[from + k - 1]]]
      /\ \A i \in from .. to : a(i) = Round(a(i - 1), i, to)
  BY RoundFacts
<1> HIDE DEF a
<1>2. ASSUME NEW i \in from .. to, NEW acc PROVE Round(acc, i, to) = acc
  <2>1. i \notin 1 .. 9
    OBVIOUS
  <2>2. Runs(At(acc.t, i)) = 0
    BY <2>1 DEF At, Runs
  <2> QED BY <2>2 DEF Round
<1>3. from - 1 \in S
  BY <1>1
<1>4. ASSUME NEW i \in from - 1 .. to - 1, i \in S PROVE i + 1 \in S
  <2>1. i + 1 \in from .. to /\ (i + 1) - 1 = i
    OBVIOUS
  <2> QED BY <1>1, <1>2, <1>4, <2>1
<1>5. from - 1 .. to \subseteq S
  <2> HIDE DEF S
  <2> QED BY <1>3, <1>4, Climb
<1> QED BY <1>1, <1>5

\* A suit of triplets alone is melds, and so is one of which nothing is held.
LEMMA TripletsMeld ==
    ASSUME NEW c \in Hand, NEW from \in {1, 10, 19}, NEW to, to = from + 8,
           \A j \in from .. to : c[j] \in {0, 3}
    PROVE  Melds(c, from, to)
<1> DEFINE r == [j \in from - 2 .. to |-> 0]
<1>1. Decomposes(c, from, to, 0, r)
  BY DEF Decomposes
<1> QED BY <1>1, MeldsMeans

-----------------------------------------------------------------------------
(* gen_table.lua, table_mgr.lua, hulib.lua *)

\* Decomposes for the counts of one suit, with its bounds worked out.
LEMMA DecomposesSuit ==
    ASSUME NEW t, NEW e, NEW r
    PROVE  Decomposes(t, 1, 9, e, r) <=>
               /\ r \in [-1 .. 9 -> 0 .. 4]
               /\ r[-1] = 0 /\ r[0] = 0 /\ r[8] = 0 /\ r[9] = 0
               /\ \A i \in 1 .. 9 :
                     t[i] - (IF i = e THEN 2 ELSE 0) - r[i] - r[i - 1] - r[i - 2] \in {0, 3}
<1>1. 1 - 2 = -1 /\ 1 - 1 = 0 /\ 9 - 1 = 8
  OBVIOUS
<1> QED BY <1>1 DEF Decomposes

\* Counts of a suit that are melds and at most one eye.
Whole(t) == \E e \in 0 .. 9 : \E r : Decomposes(t, 1, 9, e, r)

\* Nothing, or a pair alone.
LEMMA StartsWhole == ASSUME NEW t \in Starts PROVE t \in Suit /\ Whole(t)
<1> DEFINE r == [j \in -1 .. 9 |-> 0]
<1>1. PICK e \in 0 .. 9 : t = [i \in 1 .. 9 |-> IF i = e THEN 2 ELSE 0]
  <2>1. CASE t = [i \in 1 .. 9 |-> 0]
    <3>1. t = [i \in 1 .. 9 |-> IF i = 0 THEN 2 ELSE 0]
      BY <2>1
    <3> QED BY <3>1
  <2>2. CASE \E j \in 1 .. 9 : t = [i \in 1 .. 9 |-> IF i = j THEN 2 ELSE 0]
    BY <2>2
  <2> QED BY <2>1, <2>2 DEF Starts
<1>2. Decomposes(t, 1, 9, e, r)
  BY <1>1, DecomposesSuit
<1> QED BY <1>1, <1>2 DEF Whole, Suit

\* More of a tile and as many more runs through it leave the same rest.
LEMMA SameRest ==
    \A x, y, w, a, b, c, d, e, f \in Int :
        x - a - b - c = y - d - e - f => x - w - a - b - c = y - w - d - e - f
OBVIOUS

\* One more meld: a triplet leaves the runs alone, and a run adds one.
LEMMA OneMoreWhole ==
    ASSUME NEW t \in Suit, Whole(t), NEW u \in OneMore(t)
    PROVE  u \in Suit /\ Whole(u)
<1>1. PICK e \in 0 .. 9 : \E r : Decomposes(t, 1, 9, e, r)
  BY DEF Whole
<1>2. PICK r : Decomposes(t, 1, 9, e, r)
  BY <1>1
<1>3. /\ r \in [-1 .. 9 -> 0 .. 4]
      /\ r[-1] = 0 /\ r[0] = 0 /\ r[8] = 0 /\ r[9] = 0
      /\ \A i \in 1 .. 9 :
            t[i] - (IF i = e THEN 2 ELSE 0) - r[i] - r[i - 1] - r[i - 2] \in {0, 3}
  BY <1>2, DecomposesSuit
<1>4. \A i \in 1 .. 9 : t[i] \in 0 .. 4
  BY DEF Suit
<1>5. ASSUME NEW i \in 1 .. 9 PROVE /\ r[i] \in 0 .. 4 /\ r[i - 1] \in 0 .. 4 /\ r[i - 2] \in 0 .. 4
  BY <1>3
<1>6. ASSUME NEW j \in 1 .. 9, t[j] <= 1, u = Add(t, {j}, 3) PROVE u \in Suit /\ Whole(u)
  <2>1. \A i \in 1 .. 9 : u[i] = IF i = j THEN t[i] + 3 ELSE t[i]
    BY <1>6 DEF Add
  <2>2. u \in Suit
    <3>1. \A i \in 1 .. 9 : (IF i \in {j} THEN t[i] + 3 ELSE t[i]) \in 0 .. 4
      BY <1>4, <1>6
    <3> QED BY <1>6, <3>1 DEF Suit, Add
  <2>3. ASSUME NEW i \in 1 .. 9
        PROVE  u[i] - (IF i = e THEN 2 ELSE 0) - r[i] - r[i - 1] - r[i - 2] \in {0, 3}
    <3> DEFINE w == IF i = e THEN 2 ELSE 0
    <3>1. t[i] - w - r[i] - r[i - 1] - r[i - 2] \in {0, 3} /\ w \in {0, 2}
      BY <1>3
    <3> HIDE DEF w
    <3>2. CASE i = j
      <4>1. t[i] <= 1 /\ u[i] = t[i] + 3 /\ t[i] \in 0 .. 4
        BY <1>4, <1>6, <2>1, <3>2
      <4>2. u[i] - w - r[i] - r[i - 1] - r[i - 2] \in {0, 3}
        BY <1>5, <3>1, <4>1
      <4> QED BY <4>2 DEF w
    <3>3. CASE i # j
      BY <2>1, <3>1, <3>3 DEF w
    <3> QED BY <3>2, <3>3
  <2>4. Decomposes(u, 1, 9, e, r)
    BY <1>3, <2>3, DecomposesSuit
  <2> QED BY <2>2, <2>4 DEF Whole
<1>7. ASSUME NEW k \in 1 .. 7, \A j \in k .. k + 2 : t[j] < 4, u = Add(t, k .. k + 2, 1)
      PROVE  u \in Suit /\ Whole(u)
  <2> DEFINE q == [i \in -1 .. 9 |-> IF i = k THEN r[i] + 1 ELSE r[i]]
  <2>1. \A i \in 1 .. 9 : u[i] = IF i \in k .. k + 2 THEN t[i] + 1 ELSE t[i]
    BY <1>7 DEF Add
  <2>2. u \in Suit
    <3>1. \A i \in 1 .. 9 : (IF i \in k .. k + 2 THEN t[i] + 1 ELSE t[i]) \in 0 .. 4
      BY <1>4, <1>7
    <3> QED BY <1>7, <3>1 DEF Suit, Add
  <2>3. r[k] < 4
    <3>1. t[k] < 4 /\ t[k] \in 0 .. 4 /\ k \in 1 .. 9
      BY <1>4, <1>7
    <3> DEFINE w == IF k = e THEN 2 ELSE 0
    <3>2. t[k] - w - r[k] - r[k - 1] - r[k - 2] \in {0, 3} /\ w \in {0, 2}
      BY <1>3, <3>1
    <3> HIDE DEF w
    <3> QED BY <1>5, <3>1, <3>2
  <2>4. q \in [-1 .. 9 -> 0 .. 4]
    BY <1>3, <2>3
  <2>5. q[-1] = 0 /\ q[0] = 0 /\ q[8] = 0 /\ q[9] = 0
    BY <1>3
  <2>6. ASSUME NEW i \in 1 .. 9
        PROVE  u[i] - (IF i = e THEN 2 ELSE 0) - q[i] - q[i - 1] - q[i - 2] \in {0, 3}
    <3> DEFINE w == IF i = e THEN 2 ELSE 0
    <3>1. t[i] - w - r[i] - r[i - 1] - r[i - 2] \in {0, 3} /\ w \in {0, 2}
      BY <1>3
    <3>2. u[i] - q[i] - q[i - 1] - q[i - 2] = t[i] - r[i] - r[i - 1] - r[i - 2]
      <4>1. /\ q[i] = IF i = k THEN r[i] + 1 ELSE r[i]
            /\ q[i - 1] = IF i - 1 = k THEN r[i - 1] + 1 ELSE r[i - 1]
            /\ q[i - 2] = IF i - 2 = k THEN r[i - 2] + 1 ELSE r[i - 2]
        OBVIOUS
      <4>2. u[i] = IF i = k \/ i - 1 = k \/ i - 2 = k THEN t[i] + 1 ELSE t[i]
        BY <2>1
      <4> HIDE DEF q
      <4> QED BY <1>4, <1>5, <4>1, <4>2
    <3>3. u[i] \in Int /\ q[i] \in Int /\ q[i - 1] \in Int /\ q[i - 2] \in Int /\ t[i] \in Int
      <4>1. i \in -1 .. 9 /\ i - 1 \in -1 .. 9 /\ i - 2 \in -1 .. 9
        OBVIOUS
      <4> HIDE DEF q
      <4> QED BY <1>4, <2>2, <2>4, <4>1 DEF Suit
    <3> HIDE DEF w, q
    <3>4. w \in Int /\ r[i] \in Int /\ r[i - 1] \in Int /\ r[i - 2] \in Int
      BY <1>5, <3>1
    <3>5. u[i] - w - q[i] - q[i - 1] - q[i - 2] = t[i] - w - r[i] - r[i - 1] - r[i - 2]
      BY <3>2, <3>3, <3>4, SameRest
    <3>6. u[i] - w - q[i] - q[i - 1] - q[i - 2] \in {0, 3}
      BY <3>1, <3>5
    <3> QED BY <3>6 DEF w
  <2>7. Decomposes(u, 1, 9, e, q)
    <3> HIDE DEF q
    <3> QED BY <2>4, <2>5, <2>6, DecomposesSuit
  <2> QED BY <2>2, <2>7 DEF Whole
<1> QED BY <1>6, <1>7 DEF OneMore

\* The tables hold nothing but melds with one eye or none.
LEMMA GenTableWhole == ASSUME NEW t \in GenTable PROVE t \in Suit /\ Whole(t)
<1> DEFINE Fine(S) == \A x \in S : x \in Suit /\ Whole(x)
<1>1. ASSUME NEW S, Fine(S) PROVE Fine(Grown(S))
  BY <1>1, OneMoreWhole DEF Grown
<1>2. Fine(Starts)
  BY StartsWhole
<1>3. Fine(GenTable)
  <2> HIDE DEF Fine
  <2> QED BY <1>1, <1>2 DEF GenTable
<1> QED BY <1>3

-----------------------------------------------------------------------------
\* How many tiles.
Size(t) == t[1] + t[2] + t[3] + t[4] + t[5] + t[6] + t[7] + t[8] + t[9]

\* Sizes add up.
LEMMA SizeAdds ==
    ASSUME NEW t, NEW u, NEW D,
           \A i \in 1 .. 9 : t[i] \in Int /\ u[i] \in Int /\ D[i] \in Int /\ t[i] = u[i] + D[i]
    PROVE  Size(t) = Size(u) + Size(D)
<1>1. /\ t[1] = u[1] + D[1] /\ t[2] = u[2] + D[2] /\ t[3] = u[3] + D[3] /\ t[4] = u[4] + D[4]
      /\ t[5] = u[5] + D[5] /\ t[6] = u[6] + D[6] /\ t[7] = u[7] + D[7] /\ t[8] = u[8] + D[8]
      /\ t[9] = u[9] + D[9]
  OBVIOUS
<1>2. /\ u[1] \in Int /\ u[2] \in Int /\ u[3] \in Int /\ u[4] \in Int /\ u[5] \in Int
      /\ u[6] \in Int /\ u[7] \in Int /\ u[8] \in Int /\ u[9] \in Int
      /\ D[1] \in Int /\ D[2] \in Int /\ D[3] \in Int /\ D[4] \in Int /\ D[5] \in Int
      /\ D[6] \in Int /\ D[7] \in Int /\ D[8] \in Int /\ D[9] \in Int
  OBVIOUS
<1> QED BY <1>1, <1>2 DEF Size

\* A meld can be taken away, unless there is none.
LEMMA OneLess ==
    ASSUME NEW t \in Suit, Whole(t), t \notin Starts
    PROVE  \E u \in Suit : Whole(u) /\ t \in OneMore(u) /\ Size(u) + 3 = Size(t)
<1>1. PICK e \in 0 .. 9 : \E r : Decomposes(t, 1, 9, e, r)
  BY DEF Whole
<1>2. PICK r : Decomposes(t, 1, 9, e, r)
  BY <1>1
<1>3. /\ r \in [-1 .. 9 -> 0 .. 4]
      /\ r[-1] = 0 /\ r[0] = 0 /\ r[8] = 0 /\ r[9] = 0
      /\ \A i \in 1 .. 9 :
            t[i] - (IF i = e THEN 2 ELSE 0) - r[i] - r[i - 1] - r[i - 2] \in {0, 3}
  BY <1>2, DecomposesSuit
<1>4. \A i \in 1 .. 9 : t[i] \in 0 .. 4
  BY DEF Suit
<1>5. ASSUME NEW i \in 1 .. 9 PROVE /\ r[i] \in 0 .. 4 /\ r[i - 1] \in 0 .. 4 /\ r[i - 2] \in 0 .. 4
  BY <1>3
<1>6. ASSUME NEW j \in 1 .. 9, t[j] - (IF j = e THEN 2 ELSE 0) - r[j] - r[j - 1] - r[j - 2] = 3
      PROVE  \E u \in Suit : Whole(u) /\ t \in OneMore(u) /\ Size(u) + 3 = Size(t)
  <2> DEFINE u == [i \in 1 .. 9 |-> IF i = j THEN t[i] - 3 ELSE t[i]]
  <2>1. t[j] >= 3
    <3> DEFINE w == IF j = e THEN 2 ELSE 0
    <3>1. t[j] - w - r[j] - r[j - 1] - r[j - 2] = 3 /\ w \in {0, 2}
      BY <1>6
    <3> HIDE DEF w
    <3> QED BY <1>4, <1>5, <3>1
  <2>2. u \in Suit
    <3>1. \A i \in 1 .. 9 : (IF i = j THEN t[i] - 3 ELSE t[i]) \in 0 .. 4
      BY <1>4, <2>1
    <3> QED BY <3>1 DEF Suit
  <2>3. ASSUME NEW i \in 1 .. 9
        PROVE  u[i] - (IF i = e THEN 2 ELSE 0) - r[i] - r[i - 1] - r[i - 2] \in {0, 3}
    <3>1. CASE i = j
      <4> DEFINE w == IF i = e THEN 2 ELSE 0
      <4>1. t[i] - w - r[i] - r[i - 1] - r[i - 2] = 3 /\ w \in {0, 2} /\ u[i] = t[i] - 3
        BY <1>6, <3>1
      <4> HIDE DEF w, u
      <4>2. u[i] - w - r[i] - r[i - 1] - r[i - 2] = 0
        BY <1>4, <1>5, <4>1
      <4> QED BY <4>2 DEF w
    <3>2. CASE i # j
      BY <1>3, <3>2
    <3> QED BY <3>1, <3>2
  <2>4. Whole(u)
    <3> HIDE DEF u
    <3>1. Decomposes(u, 1, 9, e, r)
      BY <1>3, <2>3, DecomposesSuit
    <3> QED BY <3>1 DEF Whole
  <2>5. t \in OneMore(u)
    <3>1. u[j] <= 1
      BY <1>4, <2>1
    <3>2. t = Add(u, {j}, 3)
      <4>1. \A i \in 1 .. 9 : t[i] = IF i \in {j} THEN u[i] + 3 ELSE u[i]
        BY <1>4
      <4> HIDE DEF u
      <4> QED BY <4>1 DEF Suit, Add
    <3> HIDE DEF u
    <3> QED BY <3>1, <3>2 DEF OneMore
  <2>6. Size(u) + 3 = Size(t)
    <3> DEFINE D == [i \in 1 .. 9 |-> IF i = j THEN 3 ELSE 0]
    <3>1. \A i \in 1 .. 9 : t[i] \in Int /\ u[i] \in Int /\ D[i] \in Int /\ t[i] = u[i] + D[i]
      BY <1>4
    <3>2. Size(D) = 3
      BY DEF Size
    <3> HIDE DEF D, u
    <3> QED BY <3>1, <3>2, SizeAdds
  <2> QED BY <2>2, <2>4, <2>5, <2>6
<1>7. ASSUME NEW k \in 1 .. 7, r[k] > 0
      PROVE  \E u \in Suit : Whole(u) /\ t \in OneMore(u) /\ Size(u) + 3 = Size(t)
  <2> DEFINE u == [i \in 1 .. 9 |-> IF i \in k .. k + 2 THEN t[i] - 1 ELSE t[i]]
             q == [i \in -1 .. 9 |-> IF i = k THEN r[i] - 1 ELSE r[i]]
  <2>1. \A i \in k .. k + 2 : t[i] >= 1
    <3>1. ASSUME NEW i \in k .. k + 2 PROVE t[i] >= 1
      <4> DEFINE w == IF i = e THEN 2 ELSE 0
      <4>0. i \in 1 .. 9 /\ (i = k \/ i - 1 = k \/ i - 2 = k)
        OBVIOUS
      <4>1. t[i] - w - r[i] - r[i - 1] - r[i - 2] \in {0, 3} /\ w \in {0, 2}
        BY <1>3, <4>0
      <4>2. r[i] > 0 \/ r[i - 1] > 0 \/ r[i - 2] > 0
        BY <1>7, <4>0
      <4> HIDE DEF w
      <4> QED BY <1>4, <1>5, <4>0, <4>1, <4>2
    <3> QED BY <3>1
  <2>2. u \in Suit
    <3>1. \A i \in 1 .. 9 : (IF i \in k .. k + 2 THEN t[i] - 1 ELSE t[i]) \in 0 .. 4
      BY <1>4, <2>1
    <3> QED BY <3>1 DEF Suit
  <2>3. q \in [-1 .. 9 -> 0 .. 4]
    BY <1>3, <1>7
  <2>4. q[-1] = 0 /\ q[0] = 0 /\ q[8] = 0 /\ q[9] = 0
    BY <1>3
  <2>5. ASSUME NEW i \in 1 .. 9
        PROVE  u[i] - (IF i = e THEN 2 ELSE 0) - q[i] - q[i - 1] - q[i - 2] \in {0, 3}
    <3> DEFINE w == IF i = e THEN 2 ELSE 0
    <3>1. t[i] - w - r[i] - r[i - 1] - r[i - 2] \in {0, 3} /\ w \in {0, 2}
      BY <1>3
    <3>2. u[i] - q[i] - q[i - 1] - q[i - 2] = t[i] - r[i] - r[i - 1] - r[i - 2]
      <4>1. /\ q[i] = IF i = k THEN r[i] - 1 ELSE r[i]
            /\ q[i - 1] = IF i - 1 = k THEN r[i - 1] - 1 ELSE r[i - 1]
            /\ q[i - 2] = IF i - 2 = k THEN r[i - 2] - 1 ELSE r[i - 2]
        OBVIOUS
      <4>2. u[i] = IF i = k \/ i - 1 = k \/ i - 2 = k THEN t[i] - 1 ELSE t[i]
        OBVIOUS
      <4> HIDE DEF q, u
      <4> QED BY <1>4, <1>5, <4>1, <4>2
    <3>3. u[i] \in Int /\ q[i] \in Int /\ q[i - 1] \in Int /\ q[i - 2] \in Int /\ t[i] \in Int
      <4>1. i \in -1 .. 9 /\ i - 1 \in -1 .. 9 /\ i - 2 \in -1 .. 9
        OBVIOUS
      <4> HIDE DEF q, u
      <4> QED BY <1>4, <2>2, <2>3, <4>1 DEF Suit
    <3> HIDE DEF w, q, u
    <3>4. w \in Int /\ r[i] \in Int /\ r[i - 1] \in Int /\ r[i - 2] \in Int
      BY <1>5, <3>1
    <3>5. u[i] - w - q[i] - q[i - 1] - q[i - 2] = t[i] - w - r[i] - r[i - 1] - r[i - 2]
      BY <3>2, <3>3, <3>4, SameRest
    <3>6. u[i] - w - q[i] - q[i - 1] - q[i - 2] \in {0, 3}
      BY <3>1, <3>5
    <3> QED BY <3>6 DEF w
  <2>6. Whole(u)
    <3> HIDE DEF u, q
    <3>1. Decomposes(u, 1, 9, e, q)
      BY <2>3, <2>4, <2>5, DecomposesSuit
    <3> QED BY <3>1 DEF Whole
  <2>7. t \in OneMore(u)
    <3>1. \A j \in k .. k + 2 : u[j] < 4
      BY <1>4
    <3>2. t = Add(u, k .. k + 2, 1)
      <4>1. \A i \in 1 .. 9 : t[i] = IF i \in k .. k + 2 THEN u[i] + 1 ELSE u[i]
        BY <1>4
      <4> HIDE DEF u
      <4> QED BY <4>1 DEF Suit, Add
    <3> HIDE DEF u
    <3> QED BY <3>1, <3>2 DEF OneMore
  <2>8. Size(u) + 3 = Size(t)
    <3> DEFINE D == [i \in 1 .. 9 |-> IF i \in k .. k + 2 THEN 1 ELSE 0]
    <3>1. \A i \in 1 .. 9 : t[i] \in Int /\ u[i] \in Int /\ D[i] \in Int /\ t[i] = u[i] + D[i]
      BY <1>4
    <3>2. Size(D) = 3
      BY DEF Size
    <3> HIDE DEF D, u
    <3> QED BY <3>1, <3>2, SizeAdds
  <2> QED BY <2>2, <2>6, <2>7, <2>8
<1>8. CASE /\ \A j \in 1 .. 9 : t[j] - (IF j = e THEN 2 ELSE 0) - r[j] - r[j - 1] - r[j - 2] # 3
           /\ \A k \in 1 .. 7 : ~ (r[k] > 0)
  <2>1. \A k \in -1 .. 9 : r[k] = 0
    <3>1. \A k \in 1 .. 7 : r[k] = 0
      BY <1>3, <1>8
    <3> QED BY <1>3, <3>1
  <2>2. ASSUME NEW j \in 1 .. 9 PROVE t[j] = IF j = e THEN 2 ELSE 0
    <3> DEFINE w == IF j = e THEN 2 ELSE 0
    <3>1. t[j] - w - r[j] - r[j - 1] - r[j - 2] = 0 /\ w \in {0, 2}
      BY <1>3, <1>8
    <3>2. r[j] = 0 /\ r[j - 1] = 0 /\ r[j - 2] = 0
      BY <2>1
    <3> HIDE DEF w
    <3>3. t[j] = w
      BY <1>4, <3>1, <3>2
    <3> QED BY <3>3 DEF w
  <2>3. t = [j \in 1 .. 9 |-> IF j = e THEN 2 ELSE 0]
    BY <2>2 DEF Suit
  <2>4. e # 0 => t \in Starts
    BY <2>3 DEF Starts
  <2>5. e = 0 => t = [j \in 1 .. 9 |-> 0]
    BY <2>3
  <2> QED BY <2>4, <2>5 DEF Starts
<1> QED BY <1>3, <1>6, <1>7, <1>8

\* Four melds and an eye are fourteen tiles: up to that many, nothing is missed.
LEMMA GenTableAll ==
    ASSUME NEW t \in Suit, Whole(t), Size(t) <= 14
    PROVE  t \in GenTable
<1> DEFINE Covers(S, n) == /\ Starts \subseteq S
                           /\ \A x \in Suit : Whole(x) /\ Size(x) <= n => x \in S
<1>0. \A x \in Suit : Size(x) \in Nat
  BY DEF Suit, Size
<1>1. Covers(Starts, 2)
  <2>1. ASSUME NEW x \in Suit, Whole(x), Size(x) <= 2, x \notin Starts PROVE FALSE
    <3>1. PICK u \in Suit : Size(u) + 3 = Size(x)
      BY <2>1, OneLess
    <3> QED BY <1>0, <2>1, <3>1
  <2> QED BY <2>1
<1>2. ASSUME NEW S, NEW n \in Nat, Covers(S, n) PROVE Covers(Grown(S), n + 3)
  <2>1. ASSUME NEW x \in Suit, Whole(x), Size(x) <= n + 3, x \notin Starts PROVE x \in Grown(S)
    <3>1. PICK u \in Suit : Whole(u) /\ x \in OneMore(u) /\ Size(u) + 3 = Size(x)
      BY <2>1, OneLess
    <3>2. Size(u) <= n
      BY <1>0, <2>1, <3>1
    <3>3. u \in S
      BY <1>2, <3>1, <3>2
    <3> QED BY <3>1, <3>3 DEF Grown
  <2> QED BY <1>2, <2>1 DEF Grown
<1>3. Covers(GenTable, 14)
  <2> HIDE DEF Covers
  <2>1. Covers(Grown(Starts), 5)
    BY <1>1, <1>2, 2 + 3 = 5
  <2>2. Covers(Grown(Grown(Starts)), 8)
    BY <1>2, <2>1, 5 + 3 = 8
  <2>3. Covers(Grown(Grown(Grown(Starts))), 11)
    BY <1>2, <2>2, 8 + 3 = 11
  <2>4. Covers(Grown(Grown(Grown(Grown(Starts)))), 14)
    BY <1>2, <2>3, 11 + 3 = 14
  <2> QED BY <2>4 DEF GenTable
<1> QED BY <1>3

-----------------------------------------------------------------------------
(* Stretches *)

\* Positions can be moved.
LEMMA Moved ==
    ASSUME NEW c, NEW d, NEW a \in Int, NEW b \in Int, NEW s \in Int, NEW e \in Int, NEW r,
           \A i \in a .. b : d[i + s] = c[i], a <= b, Decomposes(c, a, b, e, r)
    PROVE  \E q : Decomposes(d, a + s, b + s, e + s, q)
<1> DEFINE q == [j \in (a + s) - 2 .. b + s |-> r[j - s]]
<1>1. /\ r \in [a - 2 .. b -> 0 .. 4]
      /\ r[a - 2] = 0 /\ r[a - 1] = 0 /\ r[b - 1] = 0 /\ r[b] = 0
      /\ \A i \in a .. b : c[i] - (IF i = e THEN 2 ELSE 0) - r[i] - r[i - 1] - r[i - 2] \in {0, 3}
  BY DEF Decomposes
<1>2. q \in [(a + s) - 2 .. b + s -> 0 .. 4]
  <2>1. \A j \in (a + s) - 2 .. b + s : j - s \in a - 2 .. b
    OBVIOUS
  <2> QED BY <1>1, <2>1
<1>3. q[(a + s) - 2] = 0 /\ q[(a + s) - 1] = 0 /\ q[(b + s) - 1] = 0 /\ q[b + s] = 0
  <2>1. ((a + s) - 2) - s = a - 2 /\ ((a + s) - 1) - s = a - 1 /\ ((b + s) - 1) - s = b - 1 /\ (b + s) - s = b
    OBVIOUS
  <2> QED BY <1>1, <2>1
<1>4. ASSUME NEW i \in a + s .. b + s
      PROVE  d[i] - (IF i = e + s THEN 2 ELSE 0) - q[i] - q[i - 1] - q[i - 2] \in {0, 3}
  <2>1. /\ i - s \in a .. b /\ (i - s) + s = i /\ (i - 1) - s = (i - s) - 1 /\ (i - 2) - s = (i - s) - 2
        /\ (i = e + s <=> i - s = e)
    OBVIOUS
  <2>2. d[i] = c[i - s]
    BY <2>1
  <2>3. q[i] = r[i - s] /\ q[i - 1] = r[(i - s) - 1] /\ q[i - 2] = r[(i - s) - 2]
    <3>1. \A j \in {i, i - 1, i - 2} : j \in (a + s) - 2 .. b + s
      OBVIOUS
    <3>2. q[i] = r[i - s] /\ q[i - 1] = r[(i - 1) - s] /\ q[i - 2] = r[(i - 2) - s]
      BY <3>1
    <3> HIDE DEF q
    <3> QED BY <2>1, <3>2
  <2> HIDE DEF q
  <2> QED BY <1>1, <2>1, <2>2, <2>3
<1>5. Decomposes(d, a + s, b + s, e + s, q)
  <2> HIDE DEF q
  <2> QED BY <1>2, <1>3, <1>4 DEF Decomposes
<1> QED BY <1>5

\* Where the eye is does not matter if it is elsewhere.
LEMMA EyeElsewhere ==
    ASSUME NEW c, NEW a \in Int, NEW b \in Int, NEW e, NEW f, NEW r,
           e \notin a .. b, f \notin a .. b, Decomposes(c, a, b, e, r)
    PROVE  Decomposes(c, a, b, f, r)
<1>1. \A i \in a .. b : (IF i = e THEN 2 ELSE 0) = (IF i = f THEN 2 ELSE 0)
  OBVIOUS
<1> QED BY <1>1 DEF Decomposes

\* No run leaves a stretch.
LEMMA Cut ==
    ASSUME NEW c, NEW from \in Int, NEW to \in Int, NEW e \in Int, NEW r,
           Decomposes(c, from, to, e, r),
           NEW a \in from .. to, NEW b \in a .. to,
           a = from \/ c[a - 1] = 0, b = to \/ c[b + 1] = 0
    PROVE  \E q : Decomposes(c, a, b, e, q)
<1> DEFINE q == [j \in a - 2 .. b |-> r[j]]
<1>1. /\ r \in [from - 2 .. to -> 0 .. 4]
      /\ r[from - 2] = 0 /\ r[from - 1] = 0 /\ r[to - 1] = 0 /\ r[to] = 0
      /\ \A i \in from .. to : c[i] - (IF i = e THEN 2 ELSE 0) - r[i] - r[i - 1] - r[i - 2] \in {0, 3}
  BY DEF Decomposes
<1>2. r[a - 1] = 0 /\ r[a - 2] = 0
  <2>1. CASE a = from
    BY <1>1, <2>1
  <2>2. CASE a # from
    <3>1. a - 1 \in from .. to /\ c[a - 1] = 0 /\ (a - 1) - 1 = a - 2
      BY <2>2
    <3> QED BY <3>1, RunsEnd
  <2> QED BY <2>1, <2>2
<1>3. r[b] = 0 /\ r[b - 1] = 0
  <2>1. CASE b = to
    BY <1>1, <2>1
  <2>2. CASE b # to
    <3>1. b + 1 \in from .. to /\ c[b + 1] = 0 /\ (b + 1) - 1 = b /\ (b + 1) - 2 = b - 1
      BY <2>2
    <3> QED BY <3>1, RunsEnd
  <2> QED BY <2>1, <2>2
<1>4. q \in [a - 2 .. b -> 0 .. 4]
  BY <1>1
<1>5. q[a - 2] = 0 /\ q[a - 1] = 0 /\ q[b - 1] = 0 /\ q[b] = 0
  BY <1>2, <1>3
<1>6. ASSUME NEW i \in a .. b
      PROVE  c[i] - (IF i = e THEN 2 ELSE 0) - q[i] - q[i - 1] - q[i - 2] \in {0, 3}
  <2>1. i \in from .. to /\ q[i] = r[i] /\ q[i - 1] = r[i - 1] /\ q[i - 2] = r[i - 2]
    OBVIOUS
  <2> HIDE DEF q
  <2> QED BY <1>1, <2>1
<1>7. Decomposes(c, a, b, e, q)
  <2> HIDE DEF q
  <2> QED BY <1>4, <1>5, <1>6 DEF Decomposes
<1> QED BY <1>7

\* Nothing held is added at the end.
LEMMA Padded ==
    ASSUME NEW t \in Suit, NEW n \in 1 .. 9, NEW e \in 0 .. n, NEW r,
           \A j \in n + 1 .. 9 : t[j] = 0, Decomposes(t, 1, n, e, r)
    PROVE  Whole(t)
<1> DEFINE q == [j \in -1 .. 9 |-> IF j <= n THEN r[j] ELSE 0]
<1>1. /\ r \in [-1 .. n -> 0 .. 4]
      /\ r[-1] = 0 /\ r[0] = 0 /\ r[n - 1] = 0 /\ r[n] = 0
      /\ \A i \in 1 .. n : t[i] - (IF i = e THEN 2 ELSE 0) - r[i] - r[i - 1] - r[i - 2] \in {0, 3}
  <2>1. 1 - 2 = -1 /\ 1 - 1 = 0
    OBVIOUS
  <2> QED BY <2>1 DEF Decomposes
<1>2. q \in [-1 .. 9 -> 0 .. 4]
  BY <1>1
<1>3. q[-1] = 0 /\ q[0] = 0 /\ q[8] = 0 /\ q[9] = 0
  <2>1. n = 9 => r[8] = 0 /\ r[9] = 0
    <3>1. 9 - 1 = 8
      OBVIOUS
    <3> QED BY <1>1, <3>1
  <2>2. n = 8 => r[8] = 0
    BY <1>1
  <2> QED BY <1>1, <2>1, <2>2
<1>4. ASSUME NEW i \in 1 .. 9
      PROVE  t[i] - (IF i = e THEN 2 ELSE 0) - q[i] - q[i - 1] - q[i - 2] \in {0, 3}
  <2>1. CASE i <= n
    <3>1. i \in 1 .. n /\ q[i] = r[i] /\ q[i - 1] = r[i - 1] /\ q[i - 2] = r[i - 2]
      BY <2>1
    <3> HIDE DEF q
    <3> QED BY <1>1, <3>1
  <2>2. CASE i > n
    <3>1. i \in n + 1 .. 9 /\ i # e
      BY <2>2
    <3>2. q[i] = 0
      BY <2>2
    <3>3. q[i - 1] = 0
      <4>1. i - 1 = n \/ i - 1 > n
        BY <2>2
      <4> QED BY <1>1, <4>1
    <3>4. q[i - 2] = 0
      <4>1. i - 2 = n - 1 \/ i - 2 = n \/ i - 2 > n
        BY <2>2
      <4> QED BY <1>1, <4>1
    <3> HIDE DEF q
    <3> QED BY <3>1, <3>2, <3>3, <3>4
  <2> QED BY <2>1, <2>2
<1>5. Decomposes(t, 1, 9, e, q)
  <2> HIDE DEF q
  <2> QED BY <1>2, <1>3, <1>4, DecomposesSuit
<1>6. e \in 0 .. 9
  OBVIOUS
<1> QED BY <1>5, <1>6 DEF Whole

\* A stretch: its bounds, its tiles, and what is around it.
LEMMA StretchFacts ==
    ASSUME NEW c, NEW from \in Int, NEW to \in Int, NEW p \in Stretches(c, from, to)
    PROVE  /\ p[1] \in from .. to /\ p[2] \in p[1] .. to /\ p = <<p[1], p[2]>>
           /\ \A i \in p[1] .. p[2] : c[i] > 0
           /\ p[1] = from \/ c[p[1] - 1] = 0
           /\ p[2] = to \/ c[p[2] + 1] = 0
BY DEF Stretches

\* What the tables say of a stretch is true.
LEMMA CheckMeans ==
    ASSUME NEW c \in Hand, NEW from \in {1, 10, 19}, NEW to, to = from + 8,
           NEW p \in Stretches(c, from, to), Check(c, p)
    PROVE  \E e \in Int : \E r : Decomposes(c, p[1], p[2], e, r)
<1>0. PICK t \in GenTable : \E q \in Stretches(t, 1, 9) : Key(c, p) = Key(t, q)
  BY DEF Check, Keys
<1>1. PICK q \in Stretches(t, 1, 9) : Key(c, p) = Key(t, q)
  BY <1>0
<1>2. /\ p[1] \in from .. to /\ p[2] \in p[1] .. to
      /\ q[1] \in 1 .. 9 /\ q[2] \in q[1] .. 9
      /\ q[1] = 1 \/ t[q[1] - 1] = 0
      /\ q[2] = 9 \/ t[q[2] + 1] = 0
  <2>1. from \in Int /\ to \in Int /\ 1 \in Int /\ 9 \in Int
    OBVIOUS
  <2>2. p[1] \in from .. to /\ p[2] \in p[1] .. to
    BY <2>1, StretchFacts
  <2>3. /\ q[1] \in 1 .. 9 /\ q[2] \in q[1] .. 9
        /\ q[1] = 1 \/ t[q[1] - 1] = 0
        /\ q[2] = 9 \/ t[q[2] + 1] = 0
    BY <2>1, StretchFacts
  <2> QED BY <2>2, <2>3
<1> DEFINE n == p[2] - p[1] + 1
           m == q[2] - q[1] + 1
<1>3. n \in Nat /\ m \in Nat /\ n > 0 /\ m > 0
  BY <1>2
<1>4. DOMAIN Key(c, p) = 1 .. n /\ DOMAIN Key(t, q) = 1 .. m
  BY DEF Key
<1>5. n = m
  <2>1. 1 .. n = 1 .. m
    BY <1>1, <1>4
  <2> HIDE DEF n, m
  <2>2. n \in 1 .. m /\ m \in 1 .. n
    BY <1>3, <2>1
  <2> QED BY <1>3, <2>2
<1>6. \A k \in 1 .. n : c[p[1] + k - 1] = t[q[1] + k - 1]
  <2>1. \A k \in 1 .. n : Key(c, p)[k] = c[p[1] + k - 1]
    BY DEF Key
  <2>2. \A k \in 1 .. m : Key(t, q)[k] = t[q[1] + k - 1]
    BY DEF Key
  <2> HIDE DEF n, m
  <2> QED BY <1>1, <1>5, <2>1, <2>2
<1>7. PICK e \in 0 .. 9 : \E r : Decomposes(t, 1, 9, e, r)
  BY GenTableWhole DEF Whole
<1>8. PICK r : Decomposes(t, 1, 9, e, r)
  BY <1>7
<1>9. PICK u : Decomposes(t, q[1], q[2], e, u)
  <2>1. 1 \in Int /\ 9 \in Int /\ e \in Int
    OBVIOUS
  <2> QED BY <1>2, <1>8, <2>1, Cut
<1> DEFINE s == p[1] - q[1]
<1>10. /\ s \in Int /\ q[1] \in Int /\ q[2] \in Int /\ e \in Int /\ q[1] <= q[2]
       /\ q[1] + s = p[1] /\ q[2] + s = p[2]
  <2>1. /\ p[1] \in Int /\ p[2] \in Int /\ q[1] \in Int /\ q[2] \in Int /\ q[1] <= q[2] /\ e \in Int
    BY <1>2
  <2> QED BY <1>5, <2>1
<1>11. ASSUME NEW i \in q[1] .. q[2] PROVE c[i + s] = t[i]
  <2> DEFINE k == i - q[1] + 1
  <2>1. k \in 1 .. n /\ p[1] + k - 1 = i + s /\ q[1] + k - 1 = i
    BY <1>2, <1>5
  <2> HIDE DEF k, n, s
  <2>2. c[p[1] + k - 1] = t[q[1] + k - 1]
    BY <1>6, <2>1
  <2> QED BY <2>1, <2>2
<1>12. PICK v : Decomposes(c, q[1] + s, q[2] + s, e + s, v)
  <2> HIDE DEF s
  <2> QED BY <1>9, <1>10, <1>11, Moved
<1>13. e + s \in Int
  BY <1>10
<1> QED BY <1>10, <1>12, <1>13

\* The tables know every stretch of a hand that melds and an eye can make.
LEMMA CheckTrue ==
    ASSUME NEW c \in Hand, SumTo(c, 1, 34) <= 14,
           NEW from \in {1, 10, 19}, NEW to, to = from + 8,
           NEW p \in Stretches(c, from, to),
           NEW e \in Int, NEW r, Decomposes(c, p[1], p[2], e, r)
    PROVE  Check(c, p)
<1> DEFINE a == p[1]
           b == p[2]
           n == b - a + 1
           t == [i \in 1 .. 9 |-> IF i <= n THEN c[a + i - 1] ELSE 0]
           q == <<1, n>>
<1>1. /\ a \in from .. to /\ b \in a .. to /\ \A i \in a .. b : c[i] > 0
  <2>1. from \in Int /\ to \in Int
    OBVIOUS
  <2> QED BY <2>1, StretchFacts
<1>2. a \in 1 .. 27 /\ b \in a .. 27 /\ n \in 1 .. 9
  BY <1>1
<1> HIDE DEF a, b
<1>3. Decomposes(c, a, b, e, r)
  BY DEF a, b
<1>4. \A i \in AllTiles : c[i] \in 0 .. 4
  BY DEF Hand
<1>5. t \in Suit
  <2>1. \A i \in 1 .. 9 : (IF i <= n THEN c[a + i - 1] ELSE 0) \in 0 .. 4
    <3>1. \A i \in 1 .. 9 : i <= n => a + i - 1 \in AllTiles
      BY <1>2 DEF AllTiles
    <3> QED BY <1>4, <3>1
  <2> QED BY <2>1 DEF Suit
<1>6. Whole(t)
  <2> DEFINE f == IF e \in a .. b THEN e ELSE a - 1
             s == 1 - a
  <2>1. Decomposes(c, a, b, f, r)
    <3>1. CASE e \in a .. b
      BY <1>3, <3>1
    <3>2. CASE e \notin a .. b
      <4>1. a \in Int /\ b \in Int /\ a - 1 \notin a .. b
        BY <1>2
      <4> QED BY <1>3, <3>2, <4>1, EyeElsewhere
    <3> QED BY <3>1, <3>2
  <2>2. a \in Int /\ b \in Int /\ s \in Int /\ f \in Int /\ a <= b /\ a + s = 1 /\ b + s = n /\ f + s \in 0 .. n
    BY <1>2
  <2>3. \A i \in a .. b : t[i + s] = c[i]
    <3>1. ASSUME NEW i \in a .. b PROVE t[i + s] = c[i]
      <4>1. i + s \in 1 .. 9 /\ i + s <= n /\ a + (i + s) - 1 = i
        BY <1>2
      <4> HIDE DEF s, n
      <4> QED BY <4>1
    <3> QED BY <3>1
  <2>4. \A i \in n + 1 .. 9 : t[i] = 0
    BY <1>2
  <2> HIDE DEF t, n, s, f
  <2>5. PICK u : Decomposes(t, a + s, b + s, f + s, u)
    BY <2>1, <2>2, <2>3, Moved
  <2>6. Decomposes(t, 1, n, f + s, u)
    BY <2>2, <2>5
  <2> QED BY <1>2, <1>5, <2>2, <2>4, <2>6, Padded
<1>7. Size(t) <= 14
  <2>1. c \in [AllTiles -> Int]
    BY DEF Hand
  <2>2. /\ Sums(c) \in [0 .. 34 -> Int] /\ \A i \in AllTiles : Sums(c)[i] = Sums(c)[i - 1] + c[i]
        /\ \A i, j \in Int : SumTo(c, i, j) = Sums(c)[j] - Sums(c)[i - 1]
    BY <2>1, SumFacts
  <2> DEFINE g == [i \in 0 .. 9 |-> IF i <= n THEN Sums(c)[a - 1 + i] ELSE Sums(c)[b]]
  <2>3. \A i \in 0 .. 9 : g[i] \in Int
    <3>1. \A i \in 0 .. 9 : i <= n => a - 1 + i \in 0 .. 34
      BY <1>2
    <3>2. b \in 0 .. 34
      BY <1>2
    <3> QED BY <2>2, <3>1, <3>2
  <2>4. ASSUME NEW i \in 1 .. 9 PROVE t[i] = g[i] - g[i - 1]
    <3>0. i - 1 \in 0 .. 9 /\ i \in 0 .. 9 /\ g[i] \in Int /\ g[i - 1] \in Int
      BY <2>3
    <3>1. CASE i <= n
      <4>1. a + i - 1 \in AllTiles /\ a - 1 + i = a + i - 1 /\ a - 1 + (i - 1) = (a + i - 1) - 1 /\ i - 1 <= n
        BY <1>2, <3>1 DEF AllTiles
      <4>2. Sums(c)[a + i - 1] = Sums(c)[(a + i - 1) - 1] + c[a + i - 1]
        BY <2>2, <4>1
      <4>3. t[i] = c[a + i - 1] /\ g[i] = Sums(c)[a + i - 1] /\ g[i - 1] = Sums(c)[(a + i - 1) - 1]
        BY <3>0, <3>1, <4>1
      <4>4. c[a + i - 1] \in Int
        BY <2>1, <4>1
      <4> HIDE DEF g, t
      <4> QED BY <3>0, <4>2, <4>3, <4>4
    <3>2. CASE i > n
      <4>1. t[i] = 0 /\ g[i] = Sums(c)[b]
        BY <1>2, <3>0, <3>2
      <4>2. g[i - 1] = Sums(c)[b]
        <5>1. CASE i - 1 > n
          BY <1>2, <3>0, <5>1
        <5>2. CASE i - 1 = n
          <6>1. a - 1 + (i - 1) = b /\ i - 1 <= n
            BY <1>2, <5>2
          <6> HIDE DEF n
          <6> QED BY <3>0, <6>1
        <5> QED BY <1>2, <3>2, <5>1, <5>2
      <4> HIDE DEF g, t
      <4> QED BY <3>0, <4>1, <4>2
    <3> QED BY <1>2, <3>1, <3>2
  <2>5. g[0] = Sums(c)[a - 1] /\ g[9] = Sums(c)[b]
    <3>1. a - 1 + 0 = a - 1 /\ 0 <= n
      BY <1>2
    <3>2. n = 9 => a - 1 + 9 = b
      BY <1>2
    <3>3. n # 9 => ~ (9 <= n)
      BY <1>2
    <3> HIDE DEF n
    <3> QED BY <3>1, <3>2, <3>3
  <2> HIDE DEF g, t
  <2>6. Size(t) = g[9] - g[0]
    <3>1. /\ t[1] = g[1] - g[0] /\ t[2] = g[2] - g[1] /\ t[3] = g[3] - g[2] /\ t[4] = g[4] - g[3]
          /\ t[5] = g[5] - g[4] /\ t[6] = g[6] - g[5] /\ t[7] = g[7] - g[6] /\ t[8] = g[8] - g[7]
          /\ t[9] = g[9] - g[8]
      <4>1. /\ 1 - 1 = 0 /\ 2 - 1 = 1 /\ 3 - 1 = 2 /\ 4 - 1 = 3 /\ 5 - 1 = 4 /\ 6 - 1 = 5 /\ 7 - 1 = 6
            /\ 8 - 1 = 7 /\ 9 - 1 = 8
        OBVIOUS
      <4> QED BY <2>4, <4>1
    <3>2. /\ g[0] \in Int /\ g[1] \in Int /\ g[2] \in Int /\ g[3] \in Int /\ g[4] \in Int
          /\ g[5] \in Int /\ g[6] \in Int /\ g[7] \in Int /\ g[8] \in Int /\ g[9] \in Int
      BY <2>3
    <3> QED BY <3>1, <3>2 DEF Size
  <2>7. SumTo(c, a, b) = Sums(c)[b] - Sums(c)[a - 1]
    BY <1>2, <2>2
  <2>8. a \in 1 .. 34 /\ b \in a .. 34
    BY <1>2
  <2>9. SumTo(c, a, b) <= 14 /\ SumTo(c, a, b) \in Int
    BY <2>8, PartSum
  <2> QED BY <2>5, <2>6, <2>7, <2>9
<1>8. t \in GenTable
  <2> HIDE DEF t
  <2> QED BY <1>5, <1>6, <1>7, GenTableAll
<1>9. q \in Stretches(t, 1, 9)
  <2>1. \A i \in 1 .. n : t[i] > 0
    <3>1. ASSUME NEW i \in 1 .. n PROVE t[i] > 0
      <4>1. a + i - 1 \in a .. b /\ i \in 1 .. 9 /\ i <= n
        BY <1>2
      <4> HIDE DEF n
      <4> QED BY <1>1, <4>1
    <3> QED BY <3>1
  <2>2. n = 9 \/ t[n + 1] = 0
    BY <1>2
  <2> HIDE DEF t, n
  <2>3. q \in (1 .. 9) \X (1 .. 9) /\ q[1] = 1 /\ q[2] = n
    BY <1>2
  <2> HIDE DEF q
  <2> QED BY <1>2, <2>1, <2>2, <2>3 DEF Stretches
<1>10. Key(t, q) = Key(c, p)
  <2>1. q[2] - q[1] + 1 = n /\ q[1] = 1 /\ p[2] - p[1] + 1 = n /\ p[1] = a
    BY <1>2 DEF a, b
  <2>2. ASSUME NEW k \in 1 .. n PROVE t[1 + k - 1] = c[a + k - 1]
    <3>1. 1 + k - 1 = k /\ k \in 1 .. 9 /\ k <= n
      BY <1>2
    <3> HIDE DEF n
    <3> QED BY <3>1
  <2> HIDE DEF t, n, q
  <2> QED BY <2>1, <2>2 DEF Key
<1> QED BY <1>8, <1>9, <1>10 DEF Check, Keys

\* A stretch has the eye if and only if its sum leaves two.
LEMMA HasEyeMeans ==
    ASSUME NEW c \in Hand, NEW p, p[1] \in 1 .. 34, p[2] \in p[1] .. 34,
           NEW e \in Int, NEW r, Decomposes(c, p[1], p[2], e, r)
    PROVE  HasEye(c, p) <=> e \in p[1] .. p[2]
<1> DEFINE a == p[1]
           b == p[2]
           n == SumTo(c, a, b)
<1>1. a \in 1 .. 34 /\ b \in a .. 34 /\ b \in a - 1 .. b /\ Decomposes(c, a, b, e, r)
  OBVIOUS
<1>2. HasEye(c, p) <=> n % 3 = 2
  BY DEF HasEye
<1> HIDE DEF a, b
<1>3. Threes(n, EyeUpTo(e, a, b) + 2 * r[b - 1] + r[b])
  BY <1>1, SumThrees
<1>4. r[b - 1] = 0 /\ r[b] = 0
  BY <1>1 DEF Decomposes
<1>5. CASE e \in a .. b
  <2>1. EyeUpTo(e, a, b) + 2 * 0 + 0 = 2
    BY <1>1, <1>5 DEF EyeUpTo
  <2>2. Threes(n, 2)
    BY <1>3, <1>4, <2>1
  <2>3. n % 3 = 2
    BY <2>2, Mod3
  <2> QED BY <1>2, <1>5, <2>3 DEF a, b
<1>6. CASE e \notin a .. b
  <2>1. EyeUpTo(e, a, b) + 2 * 0 + 0 = 0
    BY <1>1, <1>6 DEF EyeUpTo
  <2>2. Threes(n, 0)
    BY <1>3, <1>4, <2>1
  <2>3. n % 3 = 0
    BY <2>2, Mod3
  <2> QED BY <1>2, <1>6, <2>3 DEF a, b
<1> QED BY <1>5, <1>6

\* A tile held is in a stretch.
LEMMA InStretch ==
    ASSUME NEW c, NEW from \in Nat, NEW to \in Nat, NEW j \in from .. to, \A i \in from .. to : c[i] \in Nat,
           c[j] > 0
    PROVE  \E p \in Stretches(c, from, to) : j \in p[1] .. p[2]
<1> DEFINE As == {a \in from .. j : \A i \in a .. j : c[i] > 0}
           Bs == {b \in j .. to : b = to \/ c[b + 1] = 0}
<1>1. j \in As /\ to \in Bs /\ As \in SUBSET Nat /\ Bs \in SUBSET Nat
  <2>1. \A i \in j .. j : i = j
    OBVIOUS
  <2> QED BY <2>1
<1>2. PICK a \in As : \A k \in As : a <= k
  <2> HIDE DEF As
  <2> QED BY <1>1, LeastNat
<1>3. PICK b \in Bs : \A k \in Bs : b <= k
  <2> HIDE DEF Bs
  <2> QED BY <1>1, LeastNat
<1>4. /\ a \in from .. j /\ \A i \in a .. j : c[i] > 0
      /\ b \in j .. to /\ (b = to \/ c[b + 1] = 0)
  OBVIOUS
<1>5. a = from \/ c[a - 1] = 0
  <2> SUFFICES ASSUME a # from, c[a - 1] # 0 PROVE FALSE
    OBVIOUS
  <2>1. a - 1 \in from .. j /\ c[a - 1] > 0
    BY <1>4
  <2>2. \A i \in a - 1 .. j : c[i] > 0
    <3>1. \A i \in a - 1 .. j : i = a - 1 \/ i \in a .. j
      BY <1>4
    <3> QED BY <1>4, <2>1, <3>1
  <2>3. a - 1 \in As
    BY <2>1, <2>2
  <2>4. ~ (a <= a - 1)
    BY <1>4
  <2> QED BY <1>2, <2>3, <2>4
<1>6. \A i \in a .. b : c[i] > 0
  <2> DEFINE S == {i \in j .. b : c[i] > 0}
  <2>1. j \in S
    BY <1>4
  <2>2. ASSUME NEW k \in j .. b - 1, k \in S PROVE k + 1 \in S
    <3>1. k \in j .. to /\ k # to /\ k + 1 \in j .. b /\ k + 1 \in from .. to /\ ~ (b <= k)
      BY <1>4
    <3>2. k \notin Bs
      BY <1>3, <3>1
    <3>3. c[k + 1] # 0
      BY <3>1, <3>2
    <3>4. c[k + 1] > 0
      BY <3>1, <3>3
    <3> QED BY <3>1, <3>4
  <2>3. j .. b \subseteq S
    <3> HIDE DEF S
    <3>1. j \in Int /\ b \in Int
      BY <1>4
    <3> QED BY <2>1, <2>2, <3>1, Climb
  <2>4. \A i \in a .. b : i \in a .. j \/ i \in j .. b
    BY <1>4
  <2> QED BY <1>4, <2>3, <2>4
<1> DEFINE p == <<a, b>>
<1>7. p \in (from .. to) \X (from .. to) /\ p[1] = a /\ p[2] = b /\ a <= b /\ j \in a .. b
  BY <1>4
<1> HIDE DEF p, As, Bs
<1>8. p \in Stretches(c, from, to)
  BY <1>4, <1>5, <1>6, <1>7 DEF Stretches
<1> QED BY <1>7, <1>8

\* And in one only.
LEMMA StretchOnce ==
    ASSUME NEW c, NEW from \in Nat, NEW to \in Nat, \A i \in from .. to : c[i] \in Nat,
           NEW p \in Stretches(c, from, to), NEW q \in Stretches(c, from, to),
           NEW j \in p[1] .. p[2], j \in q[1] .. q[2]
    PROVE  p = q
<1>1. from \in Int /\ to \in Int
  OBVIOUS
<1>2. /\ p[1] \in from .. to /\ p[2] \in p[1] .. to /\ p = <<p[1], p[2]>>
      /\ \A i \in p[1] .. p[2] : c[i] > 0
      /\ p[1] = from \/ c[p[1] - 1] = 0
      /\ p[2] = to \/ c[p[2] + 1] = 0
  BY <1>1, StretchFacts
<1>3. /\ q[1] \in from .. to /\ q[2] \in q[1] .. to /\ q = <<q[1], q[2]>>
      /\ \A i \in q[1] .. q[2] : c[i] > 0
      /\ q[1] = from \/ c[q[1] - 1] = 0
      /\ q[2] = to \/ c[q[2] + 1] = 0
  BY <1>1, StretchFacts
<1>4. ASSUME p[1] < q[1] PROVE FALSE
  <2>1. q[1] - 1 \in p[1] .. p[2] /\ q[1] # from
    BY <1>2, <1>3, <1>4
  <2>2. c[q[1] - 1] > 0 /\ c[q[1] - 1] = 0
    BY <1>2, <1>3, <2>1
  <2> QED BY <2>2
<1>5. ASSUME q[1] < p[1] PROVE FALSE
  <2>1. p[1] - 1 \in q[1] .. q[2] /\ p[1] # from
    BY <1>2, <1>3, <1>5
  <2>2. c[p[1] - 1] > 0 /\ c[p[1] - 1] = 0
    BY <1>2, <1>3, <2>1
  <2> QED BY <2>2
<1>6. ASSUME p[2] < q[2] PROVE FALSE
  <2>1. p[2] + 1 \in q[1] .. q[2] /\ p[2] # to
    BY <1>2, <1>3, <1>6
  <2>2. c[p[2] + 1] > 0 /\ c[p[2] + 1] = 0
    BY <1>2, <1>3, <2>1
  <2> QED BY <2>2
<1>7. ASSUME q[2] < p[2] PROVE FALSE
  <2>1. q[2] + 1 \in p[1] .. p[2] /\ q[2] # to
    BY <1>2, <1>3, <1>7
  <2>2. c[q[2] + 1] > 0 /\ c[q[2] + 1] = 0
    BY <1>2, <1>3, <2>1
  <2> QED BY <2>2
<1>8. p[1] = q[1] /\ p[2] = q[2]
  BY <1>2, <1>3, <1>4, <1>5, <1>6, <1>7
<1> QED BY <1>2, <1>3, <1>8

\* The stretches of a suit together.
LEMMA Joined ==
    ASSUME NEW c, NEW from \in Nat, NEW to \in Nat, from <= to, \A i \in from .. to : c[i] \in Nat,
           NEW e \in Int, e \in from .. to => c[e] > 0,
           \A p \in Stretches(c, from, to) : \E r : Decomposes(c, p[1], p[2], e, r)
    PROVE  \E r : Decomposes(c, from, to, e, r)
<1> DEFINE Of(j) == CHOOSE p \in Stretches(c, from, to) : j \in p[1] .. p[2]
           R(p) == CHOOSE r : Decomposes(c, p[1], p[2], e, r)
           r == [j \in from - 2 .. to |-> IF j < from THEN 0 ELSE IF c[j] = 0 THEN 0 ELSE R(Of(j))[j]]
           w(i) == IF i = e THEN 2 ELSE 0
<1>0. from \in Int /\ to \in Int
  OBVIOUS
<1>1. ASSUME NEW p \in Stretches(c, from, to)
      PROVE  /\ p[1] \in from .. to /\ p[2] \in p[1] .. to
             /\ R(p) \in [p[1] - 2 .. p[2] -> 0 .. 4]
             /\ R(p)[p[1] - 2] = 0 /\ R(p)[p[1] - 1] = 0 /\ R(p)[p[2] - 1] = 0 /\ R(p)[p[2]] = 0
             /\ \A i \in p[1] .. p[2] : c[i] - w(i) - R(p)[i] - R(p)[i - 1] - R(p)[i - 2] \in {0, 3}
  <2>1. p[1] \in from .. to /\ p[2] \in p[1] .. to
    BY <1>0, StretchFacts
  <2>2. Decomposes(c, p[1], p[2], e, R(p))
    OBVIOUS
  <2> HIDE DEF R
  <2> QED BY <2>1, <2>2 DEF Decomposes
<1> HIDE DEF R, w
<1>2. ASSUME NEW p \in Stretches(c, from, to), NEW j \in p[1] .. p[2] PROVE r[j] = R(p)[j]
  <2>1. j \in from .. to /\ c[j] > 0
    BY <1>0, StretchFacts
  <2>2. \E q \in Stretches(c, from, to) : j \in q[1] .. q[2]
    OBVIOUS
  <2>3. Of(j) \in Stretches(c, from, to) /\ j \in Of(j)[1] .. Of(j)[2]
    BY <2>2
  <2> HIDE DEF Of
  <2>4. Of(j) = p
    BY <2>3, StretchOnce
  <2>5. j \in from - 2 .. to /\ ~ (j < from) /\ c[j] # 0
    BY <2>1
  <2> QED BY <2>4, <2>5
<1> HIDE DEF Of
<1>3. \A j \in from .. to : c[j] = 0 => r[j] = 0
  OBVIOUS
<1>4. r[from - 2] = 0 /\ r[from - 1] = 0
  OBVIOUS
<1>5. ASSUME NEW j \in from .. to, c[j] # 0
      PROVE  \E p \in Stretches(c, from, to) : j \in p[1] .. p[2]
  <2>1. c[j] > 0
    BY <1>5
  <2> QED BY <2>1, InStretch
<1>6. r \in [from - 2 .. to -> 0 .. 4]
  <2>1. ASSUME NEW j \in from - 2 .. to PROVE r[j] \in 0 .. 4
    <3>1. CASE j < from \/ c[j] = 0
      BY <3>1
    <3>2. CASE ~ (j < from) /\ c[j] # 0
      <4>1. j \in from .. to
        BY <3>2
      <4>2. PICK p \in Stretches(c, from, to) : j \in p[1] .. p[2]
        BY <1>5, <3>2, <4>1
      <4> HIDE DEF r
      <4>3. r[j] = R(p)[j]
        BY <1>2, <4>2
      <4>4. p[1] \in Int /\ p[2] \in Int
        BY <1>1
      <4>5. j \in p[1] - 2 .. p[2]
        BY <4>2, <4>4
      <4> QED BY <1>1, <4>3, <4>5
    <3> QED BY <3>1, <3>2
  <2>2. r = [j \in from - 2 .. to |-> r[j]]
    OBVIOUS
  <2> HIDE DEF r
  <2> QED BY <2>1, <2>2
<1> HIDE DEF r
\* Before a gap, and before the end of the suit, no run goes on.
<1>7. ASSUME NEW j \in from - 1 .. to, j = to \/ c[j + 1] = 0 PROVE r[j] = 0 /\ r[j - 1] = 0
  <2>1. CASE j = from - 1
    <3>1. j - 1 = from - 2
      BY <2>1
    <3> QED BY <1>4, <2>1, <3>1
  <2>2. CASE j # from - 1 /\ c[j] = 0 /\ (j = from \/ c[j - 1] = 0)
    <3>1. j \in from .. to /\ (j = from => j - 1 = from - 1) /\ (j # from => j - 1 \in from .. to)
      BY <2>2
    <3> QED BY <1>3, <1>4, <2>2, <3>1
  <2>3. CASE j # from - 1 /\ c[j] # 0
    <3>1. j \in from .. to
      BY <2>3
    <3>2. PICK p \in Stretches(c, from, to) : j \in p[1] .. p[2]
      BY <1>5, <2>3, <3>1
    <3>3. p[1] \in from .. to /\ p[2] \in p[1] .. to /\ \A i \in p[1] .. p[2] : c[i] > 0
          /\ (p[1] = from \/ c[p[1] - 1] = 0)
      BY <1>0, StretchFacts
    <3>4. p[2] = j
      <4>1. CASE j = to
        BY <3>2, <3>3, <4>1
      <4>2. CASE c[j + 1] = 0
        <5>1. ~ (j + 1 \in p[1] .. p[2])
          BY <3>3, <4>2
        <5> QED BY <3>2, <3>3, <5>1
      <4> QED BY <1>7, <4>1, <4>2
    <3>5. r[j] = 0
      BY <1>1, <1>2, <3>2, <3>4
    <3>6. r[j - 1] = 0
      <4>1. CASE p[1] = j
        <5>1. (j = from => j - 1 = from - 1) /\ (j # from => j - 1 \in from .. to)
          BY <3>1
        <5> QED BY <1>3, <1>4, <3>3, <4>1, <5>1
      <4>2. CASE p[1] # j
        <5>1. j - 1 \in p[1] .. p[2]
          BY <3>2, <3>3, <4>2
        <5>2. r[j - 1] = R(p)[j - 1]
          BY <1>2, <5>1
        <5> QED BY <1>1, <3>4, <5>2
      <4> QED BY <4>1, <4>2
    <3> QED BY <3>5, <3>6
  <2>4. CASE j # from /\ j # from - 1 /\ c[j] = 0 /\ c[j - 1] # 0
    <3>1. j \in from .. to /\ j - 1 \in from .. to /\ (j - 1) + 1 = j
      BY <2>4
    <3>2. PICK p \in Stretches(c, from, to) : j - 1 \in p[1] .. p[2]
      BY <1>5, <2>4, <3>1
    <3>3. p[1] \in from .. to /\ p[2] \in p[1] .. to /\ \A i \in p[1] .. p[2] : c[i] > 0
      BY <1>0, StretchFacts
    <3>4. p[2] = j - 1
      <4>1. ~ (j \in p[1] .. p[2])
        BY <2>4, <3>3
      <4> QED BY <3>1, <3>2, <3>3, <4>1
    <3>5. r[j - 1] = 0
      BY <1>1, <1>2, <3>2, <3>4
    <3> QED BY <1>3, <2>4, <3>1, <3>5
  <2> QED BY <2>1, <2>2, <2>3, <2>4
<1>8. ASSUME NEW i \in from .. to PROVE c[i] - w(i) - r[i] - r[i - 1] - r[i - 2] \in {0, 3}
  <2>1. CASE c[i] = 0
    <3>1. i - 1 \in from - 1 .. to /\ (i - 1) + 1 = i /\ (i - 1) - 1 = i - 2
      OBVIOUS
    <3>2. r[i - 1] = 0 /\ r[i - 2] = 0
      BY <1>7, <2>1, <3>1
    <3>3. w(i) = 0
      BY <2>1 DEF w
    <3> QED BY <1>3, <2>1, <3>2, <3>3
  <2>2. CASE c[i] # 0
    <3>1. PICK p \in Stretches(c, from, to) : i \in p[1] .. p[2]
      BY <1>5, <2>2
    <3>2. p[1] \in from .. to /\ p[2] \in p[1] .. to /\ (p[1] = from \/ c[p[1] - 1] = 0)
      BY <1>0, StretchFacts
    <3>3. r[i] = R(p)[i]
      BY <1>2, <3>1
    <3>4. r[p[1] - 1] = 0 /\ r[p[1] - 2] = 0
      <4>1. CASE p[1] = from
        BY <1>4, <4>1
      <4>2. CASE c[p[1] - 1] = 0 /\ p[1] # from
        <5>1. /\ p[1] - 1 \in from .. to /\ p[1] - 2 \in from - 1 .. to /\ (p[1] - 2) + 1 = p[1] - 1
          BY <3>2, <4>2
        <5> QED BY <1>3, <1>7, <4>2, <5>1
      <4> QED BY <3>2, <4>1, <4>2
    <3>5. r[i - 1] = R(p)[i - 1]
      <4>1. CASE i = p[1]
        BY <1>1, <3>4, <4>1
      <4>2. CASE i # p[1]
        <5>1. i - 1 \in p[1] .. p[2]
          BY <3>1, <3>2, <4>2
        <5> QED BY <1>2, <5>1
      <4> QED BY <4>1, <4>2
    <3>6. r[i - 2] = R(p)[i - 2]
      <4>1. CASE i = p[1]
        BY <1>1, <3>4, <4>1
      <4>2. CASE i = p[1] + 1
        <5>1. i - 2 = p[1] - 1
          BY <3>2, <4>2
        <5> QED BY <1>1, <3>4, <5>1
      <4>3. CASE i # p[1] /\ i # p[1] + 1
        <5>1. i - 2 \in p[1] .. p[2]
          BY <3>1, <3>2, <4>3
        <5> QED BY <1>2, <5>1
      <4> QED BY <4>1, <4>2, <4>3
    <3> QED BY <1>1, <3>1, <3>3, <3>5, <3>6
  <2> QED BY <2>1, <2>2
<1>9. r[to - 1] = 0 /\ r[to] = 0
  <2>1. to \in from - 1 .. to
    OBVIOUS
  <2> QED BY <1>7, <2>1
<1>10. Decomposes(c, from, to, e, r)
  BY <1>4, <1>6, <1>8, <1>9 DEF Decomposes, w
<1> QED BY <1>10

-----------------------------------------------------------------------------
\* Every suit is melds, but for the pair e if it is one of its tiles.
AllDecompose(c, e) == \A s \in Suits : \E r : Decomposes(c, s[1], s[2], e, r)

\* The same of a hand without an eye ...
LEMMA MeldsAll ==
    ASSUME NEW c \in Hand
    PROVE  AllMelds(c) <=> HonourMelds(c) /\ AllDecompose(c, 0)
<1>1. ASSUME NEW s \in Suits PROVE Melds(c, s[1], s[2]) <=> \E r : Decomposes(c, s[1], s[2], 0, r)
  <2>1. s[1] \in {1, 10, 19} /\ s[2] = s[1] + 8
    BY SuitFacts
  <2> QED BY <2>1, MeldsMeans
<1> QED BY <1>1 DEF AllMelds, AllDecompose

\* ... and of one with an eye of a suit.
LEMMA WinsAll ==
    ASSUME NEW c \in Hand, NEW i \in 1 .. 27
    PROVE  Wins(c, i) <=> HonourMelds(c) /\ AllDecompose(c, i)
<1>1. i \in AllTiles
  BY DEF AllTiles
<1>2. ASSUME c[i] >= 2 PROVE AllMelds(EyeOff(c, i)) <=> HonourMelds(c) /\ AllDecompose(c, i)
  <2>1. EyeOff(c, i) \in Hand /\ \A j \in AllTiles : j # i => EyeOff(c, i)[j] = c[j]
    BY <1>1, <1>2, EyeOffFacts
  <2>2. HonourMelds(EyeOff(c, i)) <=> HonourMelds(c)
    <3>1. \A j \in Honours : j \in AllTiles /\ j # i
      BY DEF Honours, AllTiles
    <3> QED BY <2>1, <3>1 DEF HonourMelds
  <2>3. ASSUME NEW s \in Suits
        PROVE  (\E r : Decomposes(EyeOff(c, i), s[1], s[2], 0, r)) <=> \E r : Decomposes(c, s[1], s[2], i, r)
    <3>1. s[1] \in {1, 10, 19} /\ s[2] = s[1] + 8
      BY SuitFacts
    <3>2. \A r : Decomposes(EyeOff(c, i), s[1], s[1] + 8, 0, r) <=> Decomposes(c, s[1], s[1] + 8, i, r)
      BY <1>1, <1>2, <3>1, DecomposesEye
    <3> QED BY <3>1, <3>2
  <2>4. AllDecompose(EyeOff(c, i), 0) <=> AllDecompose(c, i)
    BY <2>3 DEF AllDecompose
  <2> QED BY <2>1, <2>2, <2>4, MeldsAll
<1>3. ASSUME AllDecompose(c, i) PROVE c[i] >= 2
  <2>1. PICK s \in Suits : i \in s[1] .. s[2]
    <3>1. i \in 1 .. 9 \/ i \in 10 .. 18 \/ i \in 19 .. 27
      OBVIOUS
    <3> QED BY <3>1 DEF Suits
  <2>2. s[1] \in {1, 10, 19} /\ s[2] = s[1] + 8
    BY SuitFacts
  <2>3. PICK r : Decomposes(c, s[1], s[2], i, r)
    BY <1>3 DEF AllDecompose
  <2> QED BY <2>1, <2>2, <2>3, EyeHeld
<1> QED BY <1>2, <1>3 DEF Wins

\* Unless the error comes first, a pair of honours is no eye for get_hu_info.
LEMMA HonoursSame ==
    ASSUME NEW c \in Hand, ~HonourError(c)
    PROVE  /\ (\A i \in Honours : c[i] \notin {1, 4}) <=> HonourMelds(c)
           /\ \A i \in Honours : ~Wins(c, i)
<1>1. \A i \in Honours : i \in AllTiles /\ c[i] \in 0 .. 4
  BY DEF Honours, AllTiles, Hand
<1>2. ASSUME \A i \in Honours : c[i] \notin {1, 4}, NEW i \in Honours PROVE c[i] \in {0, 3}
  <2>1. \A j \in 28 .. i - 1 : j \in Honours
    BY DEF Honours
  <2>2. c[i] # 2
    BY <1>2, <2>1 DEF HonourError
  <2>3. c[i] \in 0 .. 4 /\ c[i] \notin {1, 4}
    BY <1>1, <1>2
  <2> QED BY <2>2, <2>3
<1>3. ASSUME HonourMelds(c), NEW i \in Honours PROVE c[i] \notin {1, 4}
  <2>1. c[i] \in {0, 3}
    BY <1>3 DEF HonourMelds
  <2> QED BY <2>1
<1>4. ASSUME NEW i \in Honours, Wins(c, i) PROVE FALSE
  <2>1. i \in AllTiles /\ c[i] >= 2 /\ c[i] \in 0 .. 4 /\ HonourMelds(EyeOff(c, i))
    BY <1>1, <1>4 DEF Wins, AllMelds
  <2>2. EyeOff(c, i)[i] = c[i] - 2 /\ \A j \in AllTiles : j # i => EyeOff(c, i)[j] = c[j]
    BY <2>1, EyeOffFacts
  <2>3. \A j \in Honours : EyeOff(c, i)[j] \in {0, 3}
    BY <2>1 DEF HonourMelds
  <2>4. c[i] - 2 \in {0, 3}
    BY <2>2, <2>3
  <2>5. c[i] = 2
    BY <2>1, <2>4
  <2>6. \A j \in 28 .. i - 1 : c[j] \notin {1, 4}
    <3>1. ASSUME NEW j \in 28 .. i - 1 PROVE c[j] \in {0, 3}
      <4>1. j \in Honours /\ j \in AllTiles /\ j # i
        BY DEF Honours, AllTiles
      <4> QED BY <2>2, <2>3, <4>1
    <3> QED BY <3>1
  <2> QED BY <2>5, <2>6 DEF HonourError
<1> QED BY <1>2, <1>3, <1>4 DEF HonourMelds

\* The stretches that get_hu_info looks up.
AllStretches(c) == UNION {Stretches(c, s[1], s[2]) : s \in Suits}

\* Their bounds.
LEMMA AllStretchFacts ==
    ASSUME NEW c \in Hand, NEW p \in AllStretches(c)
    PROVE  /\ p[1] \in 1 .. 34 /\ p[2] \in p[1] .. 34 /\ p[2] <= 27
           /\ \E s \in Suits : p \in Stretches(c, s[1], s[2])
<1>1. PICK s \in Suits : p \in Stretches(c, s[1], s[2])
  BY DEF AllStretches
<1>2. s[1] \in {1, 10, 19} /\ s[2] = s[1] + 8
  BY SuitFacts
<1>3. s[1] \in Int /\ s[2] \in Int
  BY <1>2
<1>4. p[1] \in s[1] .. s[2] /\ p[2] \in p[1] .. s[2]
  BY <1>1, <1>3, StretchFacts
<1> QED BY <1>1, <1>2, <1>4

\* A tile is in one stretch only.
LEMMA AllStretchOnce ==
    ASSUME NEW c \in Hand, NEW p \in AllStretches(c), NEW q \in AllStretches(c),
           NEW j \in p[1] .. p[2], j \in q[1] .. q[2]
    PROVE  p = q
<1>1. PICK s \in Suits : p \in Stretches(c, s[1], s[2])
  BY DEF AllStretches
<1>2. PICK u \in Suits : q \in Stretches(c, u[1], u[2])
  BY DEF AllStretches
<1>3. /\ s[1] \in {1, 10, 19} /\ s[2] = s[1] + 8 /\ s = <<s[1], s[2]>>
      /\ u[1] \in {1, 10, 19} /\ u[2] = u[1] + 8 /\ u = <<u[1], u[2]>>
  BY SuitFacts
<1>4. s[1] \in Int /\ s[2] \in Int /\ u[1] \in Int /\ u[2] \in Int
  BY <1>3
<1>5. p[1] \in s[1] .. s[2] /\ p[2] \in p[1] .. s[2]
  BY <1>1, <1>4, StretchFacts
<1>6. q[1] \in u[1] .. u[2] /\ q[2] \in q[1] .. u[2]
  BY <1>2, <1>4, StretchFacts
<1>7. j \in s[1] .. s[2] /\ j \in u[1] .. u[2]
  <2>1. p[1] \in Int /\ p[2] \in Int /\ p[1] >= s[1] /\ p[2] <= s[2]
    BY <1>4, <1>5
  <2>2. q[1] \in Int /\ q[2] \in Int /\ q[1] >= u[1] /\ q[2] <= u[2]
    BY <1>4, <1>6
  <2>3. j \in Int /\ p[1] <= j /\ j <= p[2] /\ q[1] <= j /\ j <= q[2]
    BY <2>1, <2>2
  <2> QED BY <1>4, <2>1, <2>2, <2>3
<1>8. s[1] = u[1]
  BY <1>3, <1>7
<1>9. s = u
  BY <1>3, <1>8
<1>10. s[1] \in Nat /\ s[2] \in Nat /\ \A i \in s[1] .. s[2] : c[i] \in Nat
  BY <1>3 DEF Hand, AllTiles
<1>11. q \in Stretches(c, s[1], s[2])
  BY <1>2, <1>9
<1> DEFINE from == s[1]
           to == s[2]
<1>12. /\ from \in Nat /\ to \in Nat /\ \A i \in from .. to : c[i] \in Nat
       /\ p \in Stretches(c, from, to) /\ q \in Stretches(c, from, to)
  BY <1>1, <1>10, <1>11
<1> HIDE DEF from, to
<1> QED BY ONLY <1>12, StretchOnce, j \in p[1] .. p[2], j \in q[1] .. q[2]

\* get_hu_info says yes to the hands that one pair or none decomposes.
LEMMA TablesFind ==
    ASSUME NEW c \in Hand,
           \A p \in AllStretches(c) : Check(c, p),
           \A p, q \in AllStretches(c) : HasEye(c, p) /\ HasEye(c, q) => p = q
    PROVE  \E e \in 0 .. 27 : AllDecompose(c, e)
<1> DEFINE Good(e) == \A p \in AllStretches(c) : \E r : Decomposes(c, p[1], p[2], e, r)
<1>1. ASSUME NEW p \in AllStretches(c)
      PROVE  \E e \in Int : /\ HasEye(c, p) <=> e \in p[1] .. p[2]
                            /\ \E r : Decomposes(c, p[1], p[2], e, r)
  <2>1. PICK s \in Suits : p \in Stretches(c, s[1], s[2])
    BY DEF AllStretches
  <2>2. s[1] \in {1, 10, 19} /\ s[2] = s[1] + 8
    BY SuitFacts
  <2>3. PICK e \in Int : \E r : Decomposes(c, p[1], p[2], e, r)
    BY <2>1, <2>2, CheckMeans
  <2>4. p[1] \in 1 .. 34 /\ p[2] \in p[1] .. 34
    BY AllStretchFacts
  <2>5. HasEye(c, p) <=> e \in p[1] .. p[2]
    BY <2>3, <2>4, HasEyeMeans
  <2> QED BY <2>3, <2>5
<1>2. ASSUME NEW p \in AllStretches(c), ~HasEye(c, p), NEW f \in Int, f \notin p[1] .. p[2]
      PROVE  \E r : Decomposes(c, p[1], p[2], f, r)
  <2>1. PICK e \in Int : e \notin p[1] .. p[2] /\ \E r : Decomposes(c, p[1], p[2], e, r)
    BY <1>1, <1>2
  <2>2. PICK r : Decomposes(c, p[1], p[2], e, r)
    BY <2>1
  <2>3. p[1] \in Int /\ p[2] \in Int
    BY AllStretchFacts
  <2>4. Decomposes(c, p[1], p[2], f, r)
    BY <1>2, <2>1, <2>2, <2>3, EyeElsewhere
  <2> QED BY <2>4
<1>3. \E e \in 0 .. 27 : Good(e) /\ (e # 0 => \E p \in AllStretches(c) : e \in p[1] .. p[2])
  <2>1. CASE \A p \in AllStretches(c) : ~HasEye(c, p)
    <3>1. ASSUME NEW p \in AllStretches(c) PROVE \E r : Decomposes(c, p[1], p[2], 0, r)
      <4>1. 0 \in Int /\ 0 \notin p[1] .. p[2]
        BY AllStretchFacts
      <4> QED BY <1>2, <2>1, <4>1
    <3> QED BY <3>1
  <2>2. CASE \E p \in AllStretches(c) : HasEye(c, p)
    <3>1. PICK p \in AllStretches(c) : HasEye(c, p)
      BY <2>2
    <3>2. PICK e \in Int : e \in p[1] .. p[2] /\ \E r : Decomposes(c, p[1], p[2], e, r)
      BY <1>1, <3>1
    <3>3. ASSUME NEW q \in AllStretches(c) PROVE \E r : Decomposes(c, q[1], q[2], e, r)
      <4>1. CASE q = p
        BY <3>2, <4>1
      <4>2. CASE q # p
        <5>1. ~HasEye(c, q)
          BY <3>1, <4>2
        <5>2. e \notin q[1] .. q[2]
          BY <3>2, <4>2, AllStretchOnce
        <5> QED BY <1>2, <5>1, <5>2
      <4> QED BY <4>1, <4>2
    <3>4. e \in 0 .. 27
      BY <3>2, AllStretchFacts
    <3> QED BY <3>2, <3>3, <3>4
  <2> QED BY <2>1, <2>2
<1>4. PICK e \in 0 .. 27 : Good(e) /\ (e # 0 => \E p \in AllStretches(c) : e \in p[1] .. p[2])
  BY <1>3
<1>5. e # 0 => c[e] > 0
  <2> SUFFICES ASSUME e # 0 PROVE c[e] > 0
    OBVIOUS
  <2>1. PICK p \in AllStretches(c) : e \in p[1] .. p[2]
    BY <1>4
  <2>2. PICK s \in Suits : p \in Stretches(c, s[1], s[2])
    BY DEF AllStretches
  <2>3. s[1] \in Int /\ s[2] \in Int
    BY SuitFacts
  <2> QED BY <2>1, <2>2, <2>3, StretchFacts
<1>6. ASSUME NEW s \in Suits PROVE \E r : Decomposes(c, s[1], s[2], e, r)
  <2>1. s[1] \in {1, 10, 19} /\ s[2] = s[1] + 8
    BY SuitFacts
  <2>2. /\ s[1] \in Nat /\ s[2] \in Nat /\ s[1] <= s[2] /\ \A i \in s[1] .. s[2] : c[i] \in Nat
        /\ e \in Int /\ (e \in s[1] .. s[2] => c[e] > 0)
    BY <1>5, <2>1 DEF Hand, AllTiles
  <2>3. \A p \in Stretches(c, s[1], s[2]) : \E r : Decomposes(c, p[1], p[2], e, r)
    <3>1. Stretches(c, s[1], s[2]) \subseteq AllStretches(c)
      BY DEF AllStretches
    <3> QED BY <1>4, <3>1
  <2> QED BY <2>2, <2>3, Joined
<1> QED BY <1>6 DEF AllDecompose

\* And to no fewer, of up to fourteen tiles.
LEMMA TablesMiss ==
    ASSUME NEW c \in Hand, SumTo(c, 1, 34) <= 14, NEW e \in 0 .. 27, AllDecompose(c, e)
    PROVE  /\ \A p \in AllStretches(c) : Check(c, p)
           /\ \A p, q \in AllStretches(c) : HasEye(c, p) /\ HasEye(c, q) => p = q
<1>1. ASSUME NEW p \in AllStretches(c) PROVE Check(c, p) /\ (HasEye(c, p) => e \in p[1] .. p[2])
  <2>1. PICK s \in Suits : p \in Stretches(c, s[1], s[2])
    BY DEF AllStretches
  <2>2. s[1] \in {1, 10, 19} /\ s[2] = s[1] + 8
    BY SuitFacts
  <2>3. PICK r : Decomposes(c, s[1], s[2], e, r)
    BY DEF AllDecompose
  <2>4. s[1] \in Int /\ s[2] \in Int /\ e \in Int
    BY <2>2
  <2>5. /\ p[1] \in s[1] .. s[2] /\ p[2] \in p[1] .. s[2]
        /\ p[1] = s[1] \/ c[p[1] - 1] = 0
        /\ p[2] = s[2] \/ c[p[2] + 1] = 0
    BY <2>1, <2>4, StretchFacts
  <2>6. PICK q : Decomposes(c, p[1], p[2], e, q)
    BY <2>3, <2>4, <2>5, Cut
  <2>7. Check(c, p)
    BY <2>1, <2>2, <2>4, <2>6, CheckTrue
  <2>8. p[1] \in 1 .. 34 /\ p[2] \in p[1] .. 34
    BY AllStretchFacts
  <2>9. HasEye(c, p) <=> e \in p[1] .. p[2]
    BY <2>4, <2>6, <2>8, HasEyeMeans
  <2> QED BY <2>7, <2>9
<1>2. ASSUME NEW p \in AllStretches(c), NEW q \in AllStretches(c), HasEye(c, p), HasEye(c, q)
      PROVE  p = q
  <2>1. e \in p[1] .. p[2] /\ e \in q[1] .. q[2]
    BY <1>1, <1>2
  <2> QED BY <2>1, AllStretchOnce
<1> QED BY <1>1, <1>2

\* get_hu_info decides right.
LEMMA TablesMean ==
    ASSUME NEW c \in Hand, SumTo(c, 1, 34) <= 14, ~HonourError(c)
    PROVE  GetHuInfo(c) <=> AllMelds(c) \/ \E i \in AllTiles : Wins(c, i)
<1>1. GetHuInfo(c) <=> /\ HonourMelds(c)
                       /\ \A p \in AllStretches(c) : Check(c, p)
                       /\ \A p, q \in AllStretches(c) : HasEye(c, p) /\ HasEye(c, q) => p = q
  BY HonoursSame DEF GetHuInfo, AllStretches
<1>2. AllMelds(c) \/ (\E i \in AllTiles : Wins(c, i)) <=>
          HonourMelds(c) /\ \E e \in 0 .. 27 : AllDecompose(c, e)
  <2>1. \A i \in AllTiles : i \in 1 .. 27 \/ i \in Honours
    BY DEF AllTiles, Honours
  <2>2. (\E i \in AllTiles : Wins(c, i)) <=> \E i \in 1 .. 27 : Wins(c, i)
    BY <2>1, HonoursSame DEF AllTiles
  <2>3. \A i \in 1 .. 27 : Wins(c, i) <=> HonourMelds(c) /\ AllDecompose(c, i)
    BY WinsAll
  <2>4. AllMelds(c) <=> HonourMelds(c) /\ AllDecompose(c, 0)
    BY MeldsAll
  <2>5. \A e \in 0 .. 27 : e = 0 \/ e \in 1 .. 27
    OBVIOUS
  <2>6. 0 \in 0 .. 27 /\ 1 .. 27 \subseteq 0 .. 27
    OBVIOUS
  <2> QED BY <2>2, <2>3, <2>4, <2>5, <2>6
<1> QED BY <1>1, <1>2, TablesFind, TablesMiss

-----------------------------------------------------------------------------
(* The loop of M._check_normal *)

\* That M._check_normal has ruled an eye out.
Tried(i) == ~ Passes(EyeOff(held, i))

\* The caller's table is the hand, until an eye of it makes the rest pass; while
\* the loop runs, every eye that is not left has been ruled out, and at a "no"
\* every eye has.
MahjongInv ==
    /\ held \in Hand
    /\ SumTo(held, 1, 34) <= MaxTiles
    /\ phase \in {"draw", "check", "no", "yes"}
    /\ phase # "yes" => cards = held
    /\ phase = "yes" => \E i \in Eyes(held) : cards = EyeOff(held, i) /\ Passes(cards)
    /\ phase = "check" => eyes \subseteq Eyes(held) /\ \A i \in Eyes(held) \ eyes : Tried(i)
    /\ phase = "no" => \A i \in Eyes(held) : Tried(i)

\* No tile is held at first.
LEMMA NoTilesSum ==
    ASSUME NEW c \in Hand, \A i \in AllTiles : c[i] = 0
    PROVE  SumTo(c, 1, 34) = 0
<1>1. c \in [AllTiles -> Int]
  BY DEF Hand
<1>2. \A j \in 0 + 1 .. 34 : c[j] = 0
  BY DEF AllTiles
<1>3. Sums(c)[34] = Sums(c)[0]
  BY <1>2, SumFlat
<1>4. Sums(c)[0] = 0 /\ SumTo(c, 1, 34) = Sums(c)[34] - Sums(c)[1 - 1] /\ 1 - 1 = 0
  BY <1>1, SumFacts
<1> QED BY <1>3, <1>4

\* A tile drawn adds one to the sum.
LEMMA DrawSum ==
    ASSUME NEW c \in Hand, NEW d \in Hand, NEW t \in AllTiles,
           \A i \in AllTiles : d[i] = IF i = t THEN c[i] + 1 ELSE c[i]
    PROVE  SumTo(c, 1, 34) \in Int /\ SumTo(d, 1, 34) = SumTo(c, 1, 34) + 1
<1> DEFINE One(k) == IF t <= k THEN 1 ELSE 0
           S == {k \in 0 .. 34 : Sums(d)[k] = Sums(c)[k] + One(k)}
<1>1. c \in [AllTiles -> Int] /\ d \in [AllTiles -> Int] /\ t \in 1 .. 34
  BY DEF Hand, AllTiles
<1>2. /\ Sums(c) \in [0 .. 34 -> Int] /\ Sums(c)[0] = 0
      /\ \A i \in AllTiles : Sums(c)[i] = Sums(c)[i - 1] + c[i]
      /\ SumTo(c, 1, 34) = Sums(c)[34] - Sums(c)[1 - 1]
  BY <1>1, SumFacts
<1>3. /\ Sums(d) \in [0 .. 34 -> Int] /\ Sums(d)[0] = 0
      /\ \A i \in AllTiles : Sums(d)[i] = Sums(d)[i - 1] + d[i]
      /\ SumTo(d, 1, 34) = Sums(d)[34] - Sums(d)[1 - 1]
  BY <1>1, SumFacts
<1>4. 0 \in S
  BY <1>1, <1>2, <1>3
<1>5. ASSUME NEW k \in 0 .. 34 - 1, k \in S PROVE k + 1 \in S
  <2>1. k + 1 \in AllTiles /\ k + 1 \in 0 .. 34 /\ (k + 1) - 1 = k /\ k \in 0 .. 34
    BY DEF AllTiles
  <2>2. Sums(c)[k + 1] = Sums(c)[k] + c[k + 1] /\ Sums(d)[k + 1] = Sums(d)[k] + d[k + 1]
    BY <1>2, <1>3, <2>1
  <2>3. d[k + 1] = c[k + 1] + (IF k + 1 = t THEN 1 ELSE 0) /\ c[k + 1] \in Int
    BY <1>1, <2>1
  <2>4. One(k + 1) = One(k) + (IF k + 1 = t THEN 1 ELSE 0) /\ One(k) \in Int
    BY <1>1
  <2>5. Sums(c)[k] \in Int /\ Sums(d)[k] = Sums(c)[k] + One(k)
    BY <1>2, <1>5, <2>1
  <2> DEFINE x == IF k + 1 = t THEN 1 ELSE 0
  <2>6. x \in Int
    OBVIOUS
  <2>7. d[k + 1] = c[k + 1] + x /\ One(k + 1) = One(k) + x
    BY <2>3, <2>4
  <2> HIDE DEF One, x
  <2>8. Sums(d)[k + 1] = Sums(c)[k + 1] + One(k + 1)
    BY <2>2, <2>3, <2>4, <2>5, <2>6, <2>7
  <2> QED BY <2>1, <2>8
<1>6. 0 .. 34 \subseteq S
  <2> HIDE DEF S
  <2> QED BY <1>4, <1>5, Climb
<1>7. Sums(d)[34] = Sums(c)[34] + 1 /\ Sums(c)[34] \in Int
  <2>1. 34 \in S /\ One(34) = 1
    BY <1>1, <1>6
  <2> QED BY <1>2, <2>1
<1>8. 1 - 1 = 0
  OBVIOUS
<1> QED BY <1>2, <1>3, <1>7, <1>8

\* It holds at first ...
LEMMA MahjongInvInit == Init => MahjongInv
<1> SUFFICES ASSUME Init PROVE MahjongInv
  OBVIOUS
<1>1. held \in Hand /\ \A i \in AllTiles : held[i] = 0
  BY DEF Init, Hand
<1>2. SumTo(held, 1, 34) = 0
  BY <1>1, NoTilesSum
<1> QED BY <1>1, <1>2, MahjongAssumption DEF Init, MahjongInv

\* ... and every step keeps it.
LEMMA MahjongInvNext == MahjongInv /\ [Next]_vars => MahjongInv'
<1> SUFFICES ASSUME MahjongInv, [Next]_vars PROVE MahjongInv'
  OBVIOUS
<1>1. held \in Hand
  BY DEF MahjongInv
<1>2. ASSUME NEW i \in Tiles, Draw(i) PROVE MahjongInv'
  <2>1. i \in AllTiles /\ cards = held
    BY <1>2, MahjongAssumption DEF MahjongInv, Draw
  <2>2. held[i] < 4 /\ held[i] \in 0 .. 4
    BY <1>1, <1>2, <2>1 DEF Draw, Hand
  <2>3. [held EXCEPT ![i] = @ + 1] \in Hand
    <3>1. held[i] + 1 \in 0 .. 4
      BY <2>2
    <3> QED BY <1>1, <2>1, <3>1 DEF Hand
  <2>4. held' = [held EXCEPT ![i] = @ + 1] /\ phase' = "draw" /\ cards' = held'
        /\ SumTo(held, 1, 34) < MaxTiles
    BY <1>2, <2>1 DEF Draw
  <2>5. SumTo(held', 1, 34) <= MaxTiles
    <3>1. \A j \in AllTiles : held'[j] = IF j = i THEN held[j] + 1 ELSE held[j]
      BY <1>1, <2>1, <2>4 DEF Hand
    <3>2. SumTo(held, 1, 34) \in Int /\ SumTo(held', 1, 34) = SumTo(held, 1, 34) + 1
      BY <1>1, <2>1, <2>3, <2>4, <3>1, DrawSum
    <3> QED BY <2>4, <3>2, MahjongAssumption
  <2> QED BY <2>3, <2>4, <2>5 DEF MahjongInv
<1>3. ASSUME CheckNormal PROVE MahjongInv'
  <2>1. /\ held' = held /\ cards' = cards /\ phase' = "check" /\ eyes' = Eyes(cards)
        /\ cards = held
    BY <1>3 DEF CheckNormal, MahjongInv
  <2> QED BY <1>1, <2>1 DEF MahjongInv, Tried
<1>4. ASSUME NEW i \in AllTiles, TryEye(i) PROVE MahjongInv'
  <2>1. /\ phase = "check" /\ i \in eyes /\ cards = held /\ held' = held
        /\ eyes \subseteq Eyes(held) /\ \A k \in Eyes(held) \ eyes : Tried(k)
    BY <1>4 DEF MahjongInv, TryEye
  <2>2. i \in Eyes(held) /\ held[i] >= 2
    BY <1>1, <2>1, EyesFacts
  <2>3. CASE Passes(EyeOff(held, i))
    <3>1. cards' = EyeOff(held, i) /\ phase' = "yes" /\ eyes' = {}
      BY <1>4, <2>1, <2>3 DEF TryEye
    <3> QED BY <1>1, <2>1, <2>2, <2>3, <3>1 DEF MahjongInv
  <2>4. CASE ~ Passes(EyeOff(held, i))
    <3>1. cards' = [EyeOff(held, i) EXCEPT ![i] = @ + 2] /\ phase' = phase /\ eyes' = eyes \ {i}
      BY <1>4, <2>1, <2>4 DEF TryEye
    <3>2. cards' = held
      BY <1>1, <2>2, <3>1, EyeOffFacts
    <3> QED BY <1>1, <2>1, <2>2, <2>4, <3>1, <3>2 DEF MahjongInv, Tried
  <2> QED BY <2>3, <2>4
<1>5. ASSUME SayNo PROVE MahjongInv'
  <2>1. /\ phase = "check" /\ eyes = {} /\ phase' = "no" /\ UNCHANGED <<held, cards, eyes>>
    BY <1>5 DEF SayNo
  <2> QED BY <2>1 DEF MahjongInv, Tried
<1>6. ASSUME UNCHANGED vars PROVE MahjongInv'
  BY <1>6 DEF vars, MahjongInv, Tried
<1> QED BY <1>2, <1>3, <1>4, <1>5, <1>6 DEF Next

\* The loop of M._check_normal keeps to its hand and to the eyes still to be tried.
THEOREM MahjongInvAlways == Spec => []MahjongInv
BY MahjongInvInit, MahjongInvNext, PTL DEF Spec

\* An eye is tried on the whole hand, and put back unless the rest passes.
THEOREM EyePutBackAlways == Spec => []EyePutBack
<1>1. MahjongInv => EyePutBack
  BY DEF MahjongInv, EyePutBack
<1> QED BY <1>1, MahjongInvAlways, PTL

\* The answer for a hand of the first suit is right, yes or no.
THEOREM NormalRightAlways == Spec => []NormalRight
<1>1. ASSUME MahjongInv, FirstSuitOnly, phase = "yes" PROVE \E i \in 1 .. 9 : Wins(held, i)
  <2>1. held \in Hand
    BY <1>1 DEF MahjongInv
  <2>2. PICK i \in Eyes(held) : cards = EyeOff(held, i) /\ Passes(cards)
    BY <1>1 DEF MahjongInv
  <2>3. i \in AllTiles /\ held[i] >= 2 /\ i \in 1 .. 9
    <3>1. i \in 1 .. 27 /\ i \in AllTiles /\ held[i] >= 2
      BY <2>1, EyesFacts
    <3>2. ~ (i > 9)
      BY <1>1, <3>1 DEF FirstSuitOnly
    <3> QED BY <3>1, <3>2
  <2>4. cards \in Hand /\ \A j \in AllTiles : j > 9 => cards[j] = 0
    <3>1. cards \in Hand /\ \A j \in AllTiles : j # i => cards[j] = held[j]
      BY <2>1, <2>2, <2>3, EyeOffFacts
    <3>2. ASSUME NEW j \in AllTiles, j > 9 PROVE cards[j] = 0
      <4>1. j # i
        BY <2>3, <3>2
      <4> QED BY <1>1, <3>1, <3>2, <4>1 DEF FirstSuitOnly
    <3> QED BY <3>1, <3>2
  <2>5. Melds(cards, 1, 9)
    <3>1. CheckColor(cards, 1, 9)
      BY <2>2, SuitFacts DEF Passes
    <3>2. \E r : Decomposes(cards, 1, 9, 0, r)
      BY <2>4, <3>1, GreedyRight
    <3> QED BY <2>4, <3>2, MeldsMeans
  <2>6. ASSUME NEW from \in {10, 19} PROVE Melds(cards, from, from + 8)
    <3>1. \A j \in from .. from + 8 : j \in AllTiles /\ j > 9
      BY DEF AllTiles
    <3> QED BY <2>4, <3>1, TripletsMeld
  <2>7. HonourMelds(cards)
    <3>1. \A j \in Honours : j \in AllTiles /\ j > 9
      BY DEF Honours, AllTiles
    <3> QED BY <2>4, <3>1 DEF HonourMelds
  <2>8. ASSUME NEW s \in Suits PROVE Melds(cards, s[1], s[2])
    <3>1. s[1] \in {1, 10, 19} /\ s[2] = s[1] + 8
      BY SuitFacts
    <3> QED BY <2>5, <2>6, <3>1
  <2>9. AllMelds(EyeOff(held, i))
    BY <2>2, <2>7, <2>8 DEF AllMelds
  <2> QED BY <2>3, <2>9 DEF Wins
<1>2. ASSUME MahjongInv, phase = "no", NEW i \in 1 .. 9, Wins(held, i) PROVE FALSE
  <2>1. /\ held \in Hand /\ i \in AllTiles /\ held[i] >= 2
        /\ Melds(EyeOff(held, i), 1, 9)
    BY <1>2, SuitFacts DEF MahjongInv, Wins, AllMelds, AllTiles
  <2>2. EyeOff(held, i) \in Hand
    BY <2>1, EyeOffFacts
  <2>3. PICK r : Decomposes(EyeOff(held, i), 1, 9, 0, r)
    BY <2>1, <2>2, MeldsMeans
  <2>4. Passes(EyeOff(held, i))
    <3>1. CheckColor(EyeOff(held, i), 1, 9)
      BY <2>2, <2>3, GreedyFinds
    <3>2. ASSUME NEW s \in Suits PROVE CheckColor(EyeOff(held, i), s[1], s[2])
      <4>1. s[1] \in {1, 10, 19} /\ s[2] = s[1] + 8
        BY SuitFacts
      <4> QED BY <2>2, <3>1, <4>1, LaterSuitsPass
    <3> QED BY <3>2 DEF Passes
  <2>5. i \in Eyes(held)
    <3>1. Decomposes(held, 1, 1 + 8, i, r)
      <4>1. 1 + 8 = 9
        OBVIOUS
      <4> QED BY <2>1, <2>3, <4>1, DecomposesEye
    <3>2. i \in FindEye(held, 1, 9)
      BY <2>1, <3>1, EyeFound
    <3> QED BY <3>2, SuitFacts DEF Eyes
  <2> QED BY <1>2, <2>4, <2>5 DEF MahjongInv, Tried
<1>3. MahjongInv => NormalRight
  BY <1>1, <1>2 DEF NormalRight
<1> QED BY <1>3, MahjongInvAlways, PTL

\* The sum of a hand of 2, 5 and 8 of the first suit.
LEMMA JiangSum ==
    ASSUME NEW c \in Hand, \A j \in AllTiles : j \notin {2, 5, 8} => c[j] = 0
    PROVE  SumTo(c, 1, 34) = c[2] + c[5] + c[8]
<1>1. c \in [AllTiles -> Int] /\ c[2] \in Int /\ c[5] \in Int /\ c[8] \in Int
  BY DEF Hand, AllTiles
<1>2. /\ Sums(c) \in [0 .. 34 -> Int] /\ Sums(c)[0] = 0
      /\ \A i \in AllTiles : Sums(c)[i] = Sums(c)[i - 1] + c[i]
      /\ SumTo(c, 1, 34) = Sums(c)[34] - Sums(c)[1 - 1]
  BY <1>1, SumFacts
<1>3. Sums(c)[2] = Sums(c)[1] + c[2] /\ Sums(c)[5] = Sums(c)[4] + c[5] /\ Sums(c)[8] = Sums(c)[7] + c[8]
  <2>1. /\ 2 \in AllTiles /\ 5 \in AllTiles /\ 8 \in AllTiles
        /\ 2 - 1 = 1 /\ 5 - 1 = 4 /\ 8 - 1 = 7
    BY DEF AllTiles
  <2> QED BY <1>2, <2>1
<1>4. ASSUME NEW a \in 0 .. 34, NEW b \in a .. 34, \A j \in a + 1 .. b : j \notin {2, 5, 8}
      PROVE  Sums(c)[b] = Sums(c)[a]
  <2>1. \A j \in a + 1 .. b : j \in AllTiles
    BY DEF AllTiles
  <2> QED BY <1>4, <2>1, SumFlat
<1>5. Sums(c)[1] = Sums(c)[0] /\ Sums(c)[4] = Sums(c)[2] /\ Sums(c)[7] = Sums(c)[5] /\ Sums(c)[34] = Sums(c)[8]
  BY <1>4
<1>6. /\ Sums(c)[1] \in Int /\ Sums(c)[2] \in Int /\ Sums(c)[4] \in Int /\ Sums(c)[5] \in Int
      /\ Sums(c)[7] \in Int /\ Sums(c)[8] \in Int /\ 1 - 1 = 0
  BY <1>2
<1>7. Sums(c)[34] = c[2] + c[5] + c[8]
  BY <1>1, <1>2, <1>3, <1>5, <1>6
<1>8. SumTo(c, 1, 34) = Sums(c)[34] - 0
  BY <1>2, <1>6
<1> QED BY <1>1, <1>7, <1>8

\* A hand of 2, 5 and 8 with room for one eye: of such tiles no run can be made,
\* and the two ways to decide it agree.
THEOREM JiangAgreesAlways == Spec => []JiangAgrees
<1> DEFINE Small == FirstSuitOnly /\ CheckJiangjianghu(held) /\ SumTo(held, 1, 34) % 3 = 2
<1>1. ASSUME MahjongInv, Small
      PROVE  /\ held \in Hand
             /\ \A j \in AllTiles : j \notin {2, 5, 8} => held[j] = 0
             /\ \A j \in AllTiles : held[j] \in 0 .. 4
  <2>1. held \in Hand /\ \A j \in AllTiles : held[j] \in 0 .. 4
    BY <1>1 DEF MahjongInv, Hand
  <2>2. ASSUME NEW j \in AllTiles, j \notin {2, 5, 8}, held[j] # 0 PROVE FALSE
    <3>1. j \in Jiang /\ ~ (j > 9)
      BY <1>1, <2>1, <2>2 DEF FirstSuitOnly, CheckJiangjianghu
    <3> QED BY <2>2, <3>1 DEF Jiang
  <2> QED BY <2>1, <2>2
<1>2. ASSUME MahjongInv, Small, NEW i \in 1 .. 9, Wins(held, i) PROVE CheckPengpeng(held)
  <2>1. held \in Hand /\ \A j \in AllTiles : j \notin {2, 5, 8} => held[j] = 0
    BY <1>1, <1>2
  <2>2. i \in AllTiles /\ held[i] >= 2 /\ Melds(EyeOff(held, i), 1, 9)
    BY <1>2, SuitFacts DEF Wins, AllMelds, AllTiles
  <2> DEFINE c == EyeOff(held, i)
  <2>3. /\ c \in Hand /\ c[i] = held[i] - 2
        /\ \A j \in AllTiles : j # i => c[j] = held[j]
    BY <2>1, <2>2, EyeOffFacts
  <2>4. i \in {2, 5, 8}
    BY <2>1, <2>2
  <2>5. c[3] = 0 /\ c[6] = 0 /\ c[9] = 0
    BY <2>1, <2>3, <2>4 DEF AllTiles
  <2> HIDE DEF c
  <2>6. PICK r : Decomposes(c, 1, 9, 0, r)
    BY <2>2, <2>3, MeldsMeans DEF c
  <2>7. \A j \in {3, 6, 9} : r[j] = 0 /\ r[j - 1] = 0 /\ r[j - 2] = 0
    <3>1. 1 \in Int /\ 9 \in Int /\ 0 \in Int /\ \A j \in {3, 6, 9} : j \in 1 .. 9 /\ c[j] = 0
      BY <2>5
    <3> QED BY <2>6, <3>1, RunsEnd
  <2>8. /\ r[1] = 0 /\ r[2] = 0 /\ r[3] = 0 /\ r[4] = 0 /\ r[5] = 0 /\ r[6] = 0
        /\ r[7] = 0 /\ r[8] = 0 /\ r[9] = 0
    BY <2>7
  <2>9. c[2] \in {0, 3} /\ c[5] \in {0, 3} /\ c[8] \in {0, 3}
    <3>1. /\ \A j \in 1 .. 9 : c[j] - (IF j = 0 THEN 2 ELSE 0) - r[j] - r[j - 1] - r[j - 2] \in {0, 3}
          /\ r[0] = 0
      <4>1. 1 - 1 = 0
        OBVIOUS
      <4> QED BY <2>6, <4>1 DEF Decomposes
    <3>2. /\ c[2] - 0 - r[2] - r[1] - r[0] \in {0, 3}
          /\ c[5] - 0 - r[5] - r[4] - r[3] \in {0, 3}
          /\ c[8] - 0 - r[8] - r[7] - r[6] \in {0, 3}
      <4>1. /\ 2 - 1 = 1 /\ 2 - 2 = 0 /\ 5 - 1 = 4 /\ 5 - 2 = 3 /\ 8 - 1 = 7 /\ 8 - 2 = 6
        OBVIOUS
      <4>2. \A j \in {2, 5, 8} : c[j] - 0 - r[j] - r[j - 1] - r[j - 2] \in {0, 3}
        BY <3>1
      <4> QED BY <4>1, <4>2
    <3>3. c[2] \in Int /\ c[5] \in Int /\ c[8] \in Int
      BY <2>3 DEF Hand, AllTiles
    <3> QED BY <2>8, <3>1, <3>2, <3>3
  <2>10. \A j \in AllTiles : held[j] \in {0, 3} \/ (j = i /\ held[j] = 2)
    <3>1. ASSUME NEW j \in AllTiles PROVE held[j] \in {0, 3} \/ (j = i /\ held[j] = 2)
      <4>1. held[j] \in 0 .. 4
        BY <2>1 DEF Hand
      <4>2. CASE j = i
        <5>1. c[j] \in {0, 3}
          BY <2>4, <2>9, <4>2
        <5> QED BY <2>3, <4>1, <4>2, <5>1
      <4>3. CASE j # i
        BY <2>1, <2>3, <2>9, <4>3
      <4> QED BY <4>2, <4>3
    <3> QED BY <3>1
  <2> QED BY <2>10 DEF CheckPengpeng
<1>3. ASSUME MahjongInv, Small, CheckPengpeng(held) PROVE \E i \in 1 .. 9 : Wins(held, i)
  <2>1. /\ held \in Hand /\ \A j \in AllTiles : j \notin {2, 5, 8} => held[j] = 0
        /\ \A j \in AllTiles : held[j] \in 0 .. 4
    BY <1>1, <1>3
  <2>2. /\ \A j \in AllTiles : held[j] \in {0, 2, 3}
        /\ \A j, k \in AllTiles : held[j] = 2 /\ held[k] = 2 => j = k
    BY <1>3, <2>1 DEF CheckPengpeng
  <2>3. (held[2] + held[5] + held[8]) % 3 = 2
    BY <1>3, <2>1, JiangSum
  <2>4. PICK i \in {2, 5, 8} : held[i] = 2
    <3>1. held[2] \in {0, 2, 3} /\ held[5] \in {0, 2, 3} /\ held[8] \in {0, 2, 3}
      BY <2>2 DEF AllTiles
    <3> QED BY <2>3, <3>1
  <2> DEFINE c == EyeOff(held, i)
  <2>5. i \in AllTiles /\ held[i] >= 2
    BY <2>4 DEF AllTiles
  <2>6. c \in Hand /\ \A j \in AllTiles : c[j] \in {0, 3}
    BY <2>1, <2>2, <2>4, <2>5, EyeOffFacts
  <2> HIDE DEF c
  <2>7. ASSUME NEW s \in Suits PROVE Melds(c, s[1], s[2])
    <3>1. s[1] \in {1, 10, 19} /\ s[2] = s[1] + 8
      BY SuitFacts
    <3>2. \A j \in s[1] .. s[2] : j \in AllTiles
      BY <3>1 DEF AllTiles
    <3> QED BY <2>6, <3>1, <3>2, TripletsMeld
  <2>8. HonourMelds(c)
    BY <2>6 DEF HonourMelds, Honours, AllTiles
  <2> QED BY <2>5, <2>4, <2>7, <2>8 DEF Wins, AllMelds, c
<1>4. MahjongInv /\ NormalRight => JiangAgrees
  <2> SUFFICES ASSUME MahjongInv, NormalRight, Small
               PROVE  /\ phase = "yes" => CheckPengpeng(held)
                      /\ phase = "no" => ~CheckPengpeng(held)
    BY DEF JiangAgrees
  <2> QED BY <1>2, <1>3 DEF NormalRight
<1> QED BY <1>4, MahjongInvAlways, NormalRightAlways, PTL

\* The tables decide right about every hand of up to fourteen tiles: they hold
\* each stretch of melds with one eye or none, and nothing else.
THEOREM TablesRightAlways ==
    ASSUME MaxTiles <= 14
    PROVE  Spec => []TablesRight
<1>1. ASSUME MahjongInv PROVE TablesRight
  <2> SUFFICES ASSUME phase = "draw", ~HonourError(cards)
               PROVE  GetHuInfo(cards) <=> AllMelds(cards) \/ \E i \in AllTiles : Wins(cards, i)
    BY DEF TablesRight
  <2>1. cards \in Hand /\ SumTo(cards, 1, 34) <= MaxTiles
    BY <1>1 DEF MahjongInv
  <2>2. SumTo(cards, 1, 34) <= 14
    <3>1. SumTo(cards, 1, 34) \in Int
      BY <2>1, PartSum
    <3> QED BY <2>1, <3>1, MahjongAssumption
  <2> QED BY <2>1, <2>2, TablesMean
<1> QED BY <1>1, MahjongInvAlways, PTL
=============================================================================
