------------------------------ MODULE Mahjong ------------------------------
(***************************************************************************)
(* The two deciders of a winning hand of mahjong: game/cs/mjlib.lua, which *)
(* takes melds off greedily, and game/base_table, where hulib.lua looks up *)
(* tables that gen_table.lua makes.  A hand counts its tiles: 1 .. 9, 10   *)
(* .. 18 and 19 .. 27 are the three suits, 28 .. 34 the honours.  Tiles    *)
(* are drawn one by one, so that every hand of some size is a state, and   *)
(* M._check_normal then works on the caller's table, a round at a time.    *)
(***************************************************************************)
EXTENDS Integers

CONSTANTS Tiles,     \* the tiles that may be drawn
          MaxTiles   \* bound on the hand

AllTiles == 1 .. 34

ASSUME MahjongAssumption == Tiles \subseteq AllTiles /\ MaxTiles \in Nat

VARIABLES
    held,    \* tile |-> how many of it were drawn
    cards,   \* the caller's table of them, which M._check_normal writes to
    eyes,    \* eye_tbl: the pairs that are still to be tried
    phase    \* "draw", "check" within M._check_normal, its answers "yes", "no"

vars == <<held, cards, eyes, phase>>

Suits == {<<1, 9>>, <<10, 18>>, <<19, 27>>}
Honours == 28 .. 34

\* What is meant: every tile of from .. to is in a triplet or in a run.  open[i]
\* has how many runs may start at tile i and at the one before, if so far all are.
Melds(c, from, to) ==
    LET open[i \in from - 1 .. to] ==
            IF i < from THEN {<<0, 0>>}
            ELSE LET before == open[i - 1] IN
                 {p \in (0 .. c[i]) \X (0 .. c[i]) :
                    \E q \in before : p[2] = q[1] /\ c[i] - p[1] - q[1] - q[2] \in {0, 3}}
    IN  <<0, 0>> \in open[to]

\* And a win: one pair, the eye, and melds; honours make triplets only.
HonourMelds(c) == \A i \in Honours : c[i] \in {0, 3}
AllMelds(c) == HonourMelds(c) /\ \A s \in Suits : Melds(c, s[1], s[2])
EyeOff(c, i) == [c EXCEPT ![i] = @ - 2]
Wins(c, i) == c[i] >= 2 /\ AllMelds(EyeOff(c, i))

-----------------------------------------------------------------------------
(* mjlib.lua *)

\* Mutant: four of a kind start no run.
RunsFour(n) == CASE n = 1 -> 1 [] n = 2 -> 2 [] OTHER -> 0

\* Tiles that have to start runs once the lower ones are gone: a triplet is
\* always taken as a triplet.
Runs(n) == CASE n \in {1, 4} -> 1 [] n = 2 -> 2 [] OTHER -> 0

\* M._check_color copies the suit into t[1] .. t[9] and then reads t[min] ..
\* t[max]: from the second suit on these are nil, which equals no number.
At(t, i) == IF i \in 1 .. 9 THEN t[i] ELSE 0

RunsOff(t, i, n) == [k \in 1 .. 9 |-> IF k \in i .. i + 2 THEN t[k] - n ELSE t[k]]

\* One round of its loop; a round that fails is the last one.
Round(acc, i, max) ==
    LET t == acc.t
        n == Runs(At(t, i))
    IN
    IF ~acc.ok \/ n = 0 THEN acc
    ELSE IF i + 2 > max \/ At(t, i + 1) < n \/ At(t, i + 2) < n THEN [acc EXCEPT !.ok = FALSE]
    ELSE [acc EXCEPT !.t = RunsOff(t, i, n)]

CheckColor(c, min, max) ==
    LET rounds[i \in min - 1 .. max] ==
            IF i < min THEN [ok |-> TRUE, t |-> [k \in 1 .. 9 |-> c[min + k - 1]]]
            ELSE Round(rounds[i - 1], i, max)
    IN  rounds[max].ok

\* Positions that end a stretch of tiles held; tiles are weighed by key % 3,
\* which is the sum of its digits: key is never reset, so from the suit's start.
EndsAt(c, i, to) == c[i] = 0 \/ i = to
SumTo(c, from, to) ==
    LET sum[i \in 0 .. 34] == IF i = 0 THEN 0 ELSE sum[i - 1] + c[i]
    IN  sum[to] - sum[from - 1]

\* Mutant: only a sum that leaves no rest is a pair's.
EyeSumZero(n) == n % 3 = 0
EyeSum(n) == n % 3 = 2

\* M._find_eye: the pairs of the stretches at whose end key % 3 is 2.
FindEye(c, from, to) ==
    {k \in from .. to :
        /\ c[k] >= 2
        /\ \E end \in k .. to :
              /\ EndsAt(c, end, to)
              /\ \A i \in k .. end - 1 : ~EndsAt(c, i, to)
              /\ EyeSum(SumTo(c, from, end))}

Eyes(c) == UNION {FindEye(c, s[1], s[2]) : s \in Suits}
Passes(c) == \A s \in Suits : CheckColor(c, s[1], s[2])

-----------------------------------------------------------------------------
(* The drawing of a hand, and the loop of M._check_normal *)

Init ==
    /\ held = [i \in AllTiles |-> 0]
    /\ cards = held
    /\ eyes = {}
    /\ phase = "draw"

\* A hand out of the four of each kind that M.create makes.
Draw(i) ==
    /\ phase \in {"draw", "no"}
    /\ cards[i] < 4
    /\ SumTo(cards, 1, 34) < MaxTiles
    /\ held' = [held EXCEPT ![i] = @ + 1]
    /\ cards' = [cards EXCEPT ![i] = @ + 1]
    /\ phase' = "draw"
    /\ UNCHANGED eyes

\* M._check_normal is called and finds the pairs.
CheckNormal ==
    /\ phase = "draw"
    /\ phase' = "check"
    /\ eyes' = Eyes(cards)
    /\ UNCHANGED <<held, cards>>

\* Mutant: the eye is put back only after a win.
TryEyeKept(i) ==
    /\ phase = "check"
    /\ i \in eyes
    /\ cards' = EyeOff(cards, i)
    /\ IF Passes(cards') THEN phase' = "yes" /\ eyes' = {}
       ELSE phase' = "check" /\ eyes' = eyes \ {i}
    /\ UNCHANGED held

\* A round of its loop, in the order that pairs chooses: a pair is taken off
\* the caller's table, and put back unless the rest passes.
TryEye(i) ==
    /\ phase = "check"
    /\ i \in eyes
    /\ LET c == EyeOff(cards, i) IN
       IF Passes(c)
       THEN /\ cards' = c
            /\ phase' = "yes"
            /\ eyes' = {}
       ELSE /\ cards' = [c EXCEPT ![i] = @ + 2]
            /\ eyes' = eyes \ {i}
            /\ UNCHANGED phase
    /\ UNCHANGED held

\* No pair is left, and hu is false.
SayNo ==
    /\ phase = "check"
    /\ eyes = {}
    /\ phase' = "no"
    /\ UNCHANGED <<held, cards, eyes>>

Next ==
    \/ \E i \in Tiles : Draw(i)
    \/ CheckNormal
    \/ \E i \in AllTiles : TryEye(i)
    \/ SayNo
Spec == Init /\ [][Next]_vars

-----------------------------------------------------------------------------
(* check_pengpeng and check_jiangjianghu *)

\* Mutant: a four is two pairs.
CheckPengpengFour(c) ==
    /\ \A i \in AllTiles : c[i] # 1
    /\ \A i, j \in AllTiles : c[i] = 2 /\ c[j] = 2 => i = j

\* M.check_pengpeng does not say false.  (What else it says is nil: the part
\* about melds on the table is not written.)
CheckPengpeng(c) ==
    /\ \A i \in AllTiles : c[i] \notin {1, 4}
    /\ \A i, j \in AllTiles : c[i] = 2 /\ c[j] = 2 => i = j

\* M.check_jiangjianghu: no tile but the 2, 5 and 8 of each suit, jiang.
Jiang == {2, 5, 8, 11, 14, 17, 20, 23, 26}
CheckJiangjianghu(c) == \A i \in AllTiles : c[i] > 0 => i \in Jiang

-----------------------------------------------------------------------------
(* gen_table.lua, table_mgr.lua, hulib.lua.  A key is the decimal number of a *)
(* stretch's counts; it stands here as the sequence of its digits.            *)

Suit == [1 .. 9 -> 0 .. 4]
Add(t, D, n) == [i \in 1 .. 9 |-> IF i \in D THEN t[i] + n ELSE t[i]]

\* Mutant: a run makes no count four.
OneMoreTight(t) ==
    {Add(t, {j}, 3) : j \in {k \in 1 .. 9 : t[k] <= 1}}
    \cup {Add(t, k .. k + 2, 1) : k \in {i \in 1 .. 7 : \A j \in i .. i + 2 : t[j] < 3}}

\* One round of gen_table_sub: a triplet (j <= 9) or a run (j - 9) is added.
OneMore(t) ==
    {Add(t, {j}, 3) : j \in {k \in 1 .. 9 : t[k] <= 1}}
    \cup {Add(t, k .. k + 2, 1) : k \in {i \in 1 .. 7 : \A j \in i .. i + 2 : t[j] < 4}}

\* gen_table and gen_eye_table: from nothing or from one pair, up to four.
Starts == {[i \in 1 .. 9 |-> 0]} \cup {[i \in 1 .. 9 |-> IF i = j THEN 2 ELSE 0] : j \in 1 .. 9}

Grown(S) == S \cup UNION {OneMore(t) : t \in S}
GenTable == Grown(Grown(Grown(Grown(Starts))))

\* The stretches of c between from and to, as <<first, last>>.
Stretches(c, from, to) ==
    {p \in (from .. to) \X (from .. to) :
        /\ p[1] <= p[2]
        /\ \A i \in p[1] .. p[2] : c[i] > 0
        /\ p[1] = from \/ c[p[1] - 1] = 0
        /\ p[2] = to \/ c[p[2] + 1] = 0}

Key(c, p) == [k \in 1 .. p[2] - p[1] + 1 |-> c[p[1] + k - 1]]

\* add_to_table and table_mgr's add: which of the two tables is the key's own.
Keys == UNION {{Key(t, p) : p \in Stretches(t, 1, 9)} : t \in GenTable}

\* table_mgr's check of one stretch, and whether it holds the eye.
Check(c, p) == Key(c, p) \in Keys
HasEye(c, p) == SumTo(c, p[1], p[2]) % 3 = 2

\* get_hu_info calls check_color with info in the place of min: a pair of
\* honours reads a field of nil, which ends it with an error.
HonourError(c) ==
    \E i \in Honours : c[i] = 2 /\ \A j \in 28 .. i - 1 : c[j] \notin {1, 4}

\* M.get_hu_info when it returns: no single or four honours, every stretch in
\* the tables, and not more than one with an eye.
GetHuInfo(c) ==
    LET all == UNION {Stretches(c, s[1], s[2]) : s \in Suits} IN
    /\ \A i \in Honours : c[i] \notin {1, 4}
    /\ \A p \in all : Check(c, p)
    /\ \A p, q \in all : HasEye(c, p) /\ HasEye(c, q) => p = q

-----------------------------------------------------------------------------
(* Properties *)

FirstSuitOnly == \A i \in AllTiles : i > 9 => held[i] = 0

\* The ordinary win is decided right for tiles of the first suit, whichever
\* eye is tried first: taking runs only where a count forces them, and pairs
\* only at the end of stretches of the right weight, misses no way to win.
NormalRight ==
    FirstSuitOnly =>
        /\ phase = "yes" => \E i \in 1 .. 9 : Wins(held, i)
        /\ phase = "no" => ~ \E i \in 1 .. 9 : Wins(held, i)

\* Each eye that is tried is tried on the whole hand, and M._check_normal leaves
\* a hand that does not win as it was; one that wins it hands back without an
\* eye that makes it win, as far as it looks.
EyePutBack ==
    IF phase = "yes"
    THEN \E i \in Eyes(held) : cards = EyeOff(held, i) /\ Passes(cards)
    ELSE cards = held

\* Two ways to decide the same hands agree: of 2, 5 and 8 no run can be made,
\* so that a hand of them, with room for one eye, wins the ordinary way if and
\* only if check_pengpeng does not refuse it.
JiangAgrees ==
    FirstSuitOnly /\ CheckJiangjianghu(held) /\ SumTo(held, 1, 34) % 3 = 2 =>
        /\ phase = "yes" => CheckPengpeng(held)
        /\ phase = "no" => ~CheckPengpeng(held)

\* The tables hold what they should: unless it fails, get_hu_info says yes to
\* melds with one eye, and to melds without any.
TablesRight ==
    phase = "draw" /\ ~HonourError(cards) =>
        (GetHuInfo(cards) <=> AllMelds(cards) \/ \E i \in AllTiles : Wins(cards, i))

-----------------------------------------------------------------------------
(* What the comments of the code say, and the code does not do *)

\* mjlib.lua:181 says that _check_color checks a single suit: of each suit.
EachSuitChecked == \A s \in Suits : CheckColor(cards, s[1], s[2]) <=> Melds(cards, s[1], s[2])
=============================================================================
